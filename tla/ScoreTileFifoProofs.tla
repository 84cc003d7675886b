------------------------ MODULE ScoreTileFifoProofs ------------------------
(***************************************************************************)
(* The score-tile FIFO keeps its registers in range and never overwrites a *)
(* tile that was not read, for every tile size, depth and sequence length. *)
(*                                                                         *)
(* The two are proved together: the occupancy stays in range because a     *)
(* tile in progress owns an entry, and owning an entry is only meaningful  *)
(* for pointers in range.                                                  *)
(***************************************************************************)
EXTENDS ScoreTileFifo, SequenceTheorems, TLAPS

FifoInv == TypeOK /\ EntryReserved

\* Facts on the constants, with the products hidden.
LEMMA Constants ==
    /\ TILE_ITEMS \in Nat \ {0}
    /\ DEPTH_TILES \in Nat /\ DEPTH_TILES >= 2
    /\ CounterMod \in Nat \ {0}
    /\ Inputs \subseteq Item
  <1>1. TILE \in Nat \ {0} BY FifoAssumption
  <1>2. TILE * TILE \in Nat \ {0} BY <1>1
  <1> QED BY <1>2, FifoAssumption DEF TILE_ITEMS

\* The aligned base of a position is a position.
LEMMA BaseInRange == \A p \in Pos : Base(p) \in Pos
  <1> SUFFICES ASSUME NEW p \in Pos PROVE Base(p) \in Pos
    OBVIOUS
  <1>1. TILE \in Nat \ {0} /\ SEQ_LEN \in Nat \ {0} BY FifoAssumption
  <1>2. p \in Nat /\ p < SEQ_LEN BY <1>1 DEF Pos
  <1>3. (p \div TILE) * TILE \in Nat /\ (p \div TILE) * TILE <= p BY <1>1, <1>2
  <1> QED BY <1>1, <1>2, <1>3 DEF Base, Pos

LEMMA PlaceInRange == \A item \in Inputs : PlaceOf(item) \in Places
  <1> SUFFICES ASSUME NEW item \in Inputs PROVE PlaceOf(item) \in Places
    OBVIOUS
  <1>1. item \in Item BY Constants
  <1>2. /\ item.group \in Groups /\ item.head \in Heads
        /\ item.row \in Pos /\ item.col \in Pos
    BY <1>1 DEF Item
  <1>3. Base(item.row) \in Pos /\ Base(item.col) \in Pos BY <1>2, BaseInRange
  <1> QED BY <1>2, <1>3 DEF PlaceOf, Places

LEMMA CellInRange == \A item \in Inputs : Cell(item) \in Cells
  <1> SUFFICES ASSUME NEW item \in Inputs PROVE Cell(item) \in Cells
    OBVIOUS
  <1>1. item \in Item BY Constants
  <1> QED BY <1>1 DEF Item, Cell, Cells, Tag, Tags

\* The registers that reset and clear put back.
LEMMA OriginInRange == Origin \in Places
  BY FifoAssumption DEF Origin, Places, Groups, Heads, Pos

LEMMA InitInv == Init => FifoInv
  <1> SUFFICES ASSUME Init PROVE FifoInv
    OBVIOUS
  <1> USE Constants
  <1>1. [e \in Elems |-> Blank] \in [Elems -> Cells \cup {Blank}] OBVIOUS
  <1>2. NoTile \in Tiles BY <1>1, OriginInRange DEF NoTile, Tiles
  <1>3. tile_mem \in [Ptrs -> Tiles] BY <1>2 DEF Init
  <1>4. 0 \in Ptrs /\ 0 \in Elems BY DEF Ptrs, Elems
  <1>5. 0 \in 0 .. CounterMod - 1 OBVIOUS
  <1>6. 0 \in 0 .. DEPTH_TILES OBVIOUS
  <1>7. assemble \in [Elems -> Cells \cup {Blank}] BY <1>1 DEF Init
  <1>8. TypeOK
    <2> USE DEF Init
    <2>1. write_ptr \in Ptrs /\ read_ptr \in Ptrs /\ assemble_count \in Elems BY <1>4
    <2>2. tile_count \in 0 .. DEPTH_TILES BY <1>6
    <2>3. assemble_at \in Places /\ order_error \in BOOLEAN BY OriginInRange
    <2>4. tiles_enqueued \in 0 .. CounterMod - 1 /\ tiles_dequeued \in 0 .. CounterMod - 1
      BY <1>5
    <2> QED BY <1>3, <1>7, <2>1, <2>2, <2>3, <2>4 DEF TypeOK
  <1>9. EntryReserved BY DEF Init, EntryReserved, Slot, SlotFrom
  <1> QED BY <1>8, <1>9 DEF FifoInv

LEMMA ClearInv == ASSUME FifoInv, Clear PROVE FifoInv'
  <1> USE Constants
  <1>1. [e \in Elems |-> Blank] \in [Elems -> Cells \cup {Blank}] OBVIOUS
  <1>4. 0 \in Ptrs /\ 0 \in Elems BY DEF Ptrs, Elems
  <1>5. 0 \in 0 .. CounterMod - 1 OBVIOUS
  <1>6. 0 \in 0 .. DEPTH_TILES OBVIOUS
  <1>7. assemble' \in [Elems -> Cells \cup {Blank}] BY <1>1 DEF Clear
  <1>8. TypeOK'
    <2> USE DEF Clear
    <2>1. write_ptr' \in Ptrs /\ read_ptr' \in Ptrs /\ assemble_count' \in Elems BY <1>4
    <2>2. tile_count' \in 0 .. DEPTH_TILES BY <1>6
    <2>3. assemble_at' \in Places /\ order_error' \in BOOLEAN BY OriginInRange
    <2>4. tiles_enqueued' \in 0 .. CounterMod - 1 /\ tiles_dequeued' \in 0 .. CounterMod - 1
      BY <1>5
    <2>5. tile_mem' \in [Ptrs -> Tiles] BY DEF FifoInv, TypeOK
    <2> QED BY <1>7, <2>1, <2>2, <2>3, <2>4, <2>5 DEF TypeOK
  <1>9. EntryReserved' BY DEF Clear, EntryReserved, Slot, SlotFrom
  <1> QED BY <1>8, <1>9 DEF FifoInv

\* The pointers wrap inside the memory.
LEMMA NextPtrInRange == \A p \in Ptrs : next_ptr(p) \in Ptrs
  BY Constants DEF Ptrs, next_ptr

\* How the slots move with the pointers: taking the oldest entry renumbers the
\* others, the entry after the n-th is the (n+1)-st, and the memory is a ring.
LEMMA SlotAfterRead ==
  \A p \in Ptrs, n \in 1 .. DEPTH_TILES :
      SlotFrom(next_ptr(p), n - 1) = SlotFrom(p, n)
  BY Constants DEF Ptrs, next_ptr, SlotFrom

LEMMA SlotAfterWrite ==
  \A p \in Ptrs, n \in 0 .. DEPTH_TILES - 1 :
      next_ptr(SlotFrom(p, n)) = SlotFrom(p, n + 1)
  BY Constants DEF Ptrs, next_ptr, SlotFrom

LEMMA SlotsAreARing == \A p \in Ptrs : SlotFrom(p, DEPTH_TILES) = p
  BY Constants DEF Ptrs, SlotFrom

\* The two clauses of EntryReserved on the pointers are one: the write pointer
\* names the slot after the occupied ones, which a full memory wraps onto the
\* oldest.
LEMMA WriterAfterLast ==
  ASSUME TypeOK, EntryReserved PROVE write_ptr = SlotFrom(read_ptr, tile_count)
  <1>1. CASE tile_count < DEPTH_TILES BY <1>1 DEF EntryReserved, Slot
  <1>2. CASE tile_count = DEPTH_TILES
    BY <1>2, SlotsAreARing DEF EntryReserved, TypeOK
  <1>3. tile_count < DEPTH_TILES \/ tile_count = DEPTH_TILES
    BY Constants DEF TypeOK
  <1> QED BY <1>1, <1>2, <1>3

LEMMA ReservedIfAfterLast ==
  ASSUME TypeOK', write_ptr' = SlotFrom(read_ptr, tile_count)',
         assemble_count' # 0 => tile_count' < DEPTH_TILES
  PROVE  EntryReserved'
  <1>1. tile_count' = DEPTH_TILES => write_ptr' = read_ptr'
    BY SlotsAreARing DEF TypeOK
  <1> QED BY <1>1 DEF EntryReserved, Slot

\* The reading side keeps its registers in range, and takes a tile only when
\* there is one.
LEMMA ReadSideType ==
  ASSUME TypeOK, NEW d \in BOOLEAN, ReadSide(d)
  PROVE  /\ read_ptr' \in Ptrs
         /\ tiles_dequeued' \in 0 .. CounterMod - 1
         /\ dequeue_tile(d) => tile_count # 0 /\ read_ptr' = next_ptr(read_ptr)
         /\ ~dequeue_tile(d) => read_ptr' = read_ptr
  <1> USE Constants
  <1>1. read_ptr \in Ptrs /\ tiles_dequeued \in 0 .. CounterMod - 1 BY DEF TypeOK
  <1>2. (tiles_dequeued + 1) % CounterMod \in 0 .. CounterMod - 1 BY <1>1
  <1>3. next_ptr(read_ptr) \in Ptrs BY <1>1, NextPtrInRange
  <1> QED BY <1>1, <1>2, <1>3 DEF ReadSide, dequeue_tile, out_valid

\* What an item that fires leaves in the tile's place and in the error flag.
LEMMA CheckItemType ==
  ASSUME TypeOK, NEW item \in Inputs, CheckItem(item)
  PROVE  assemble_at' \in Places /\ order_error' \in BOOLEAN
  BY PlaceInRange DEF TypeOK, CheckItem, assemble_at_next

LEMMA AssembledType ==
  ASSUME TypeOK, NEW item \in Inputs
  PROVE  assembled_next(item) \in [Elems -> Cells \cup {Blank}]
  BY CellInRange DEF TypeOK, assembled_next

LEMMA AssembleInv ==
  ASSUME FifoInv, NEW item \in Inputs, NEW d \in BOOLEAN, Assemble(item, d)
  PROVE  FifoInv'
  <1> USE Constants
  <1>1. TypeOK /\ EntryReserved BY DEF FifoInv
  <1>2. /\ read_ptr' \in Ptrs
        /\ tiles_dequeued' \in 0 .. CounterMod - 1
        /\ dequeue_tile(d) => tile_count # 0 /\ read_ptr' = next_ptr(read_ptr)
        /\ ~dequeue_tile(d) => read_ptr' = read_ptr
    BY <1>1, ReadSideType DEF Assemble
  <1>3. tile_count \in 0 .. DEPTH_TILES /\ (tile_count < DEPTH_TILES \/ dequeue_tile(d))
    BY <1>1 DEF Assemble, in_ready, EntryReserved, TypeOK
  <1>4. tile_count' \in 0 .. DEPTH_TILES /\ tile_count' < DEPTH_TILES
    BY <1>1, <1>2, <1>3 DEF Assemble, TypeOK
  <1>5. assemble_count' \in Elems
    BY <1>1 DEF Assemble, TypeOK, Elems
  <1>6. TypeOK'
    BY <1>1, <1>2, <1>4, <1>5, CheckItemType, AssembledType DEF Assemble, TypeOK
  <1>7. write_ptr' = SlotFrom(read_ptr, tile_count)'
    <2>1. CASE dequeue_tile(d)
      <3>1. tile_count \in 1 .. DEPTH_TILES BY <1>1, <1>2, <2>1 DEF TypeOK
      <3>2. read_ptr \in Ptrs BY <1>1 DEF TypeOK
      <3> QED BY <1>1, <1>2, <2>1, <3>1, <3>2, WriterAfterLast, SlotAfterRead DEF Assemble
    <2>2. CASE ~dequeue_tile(d)
      BY <1>1, <1>2, <2>2, WriterAfterLast DEF Assemble
    <2> QED BY <2>1, <2>2
  <1>8. EntryReserved' BY <1>4, <1>6, <1>7, ReservedIfAfterLast
  <1> QED BY <1>6, <1>8 DEF FifoInv

LEMMA EnqueueInv ==
  ASSUME FifoInv, NEW item \in Inputs, NEW d \in BOOLEAN, Enqueue(item, d)
  PROVE  FifoInv'
  <1> USE Constants
  <1>1. TypeOK /\ EntryReserved BY DEF FifoInv
  <1>2. /\ read_ptr' \in Ptrs
        /\ tiles_dequeued' \in 0 .. CounterMod - 1
        /\ dequeue_tile(d) => tile_count # 0 /\ read_ptr' = next_ptr(read_ptr)
        /\ ~dequeue_tile(d) => read_ptr' = read_ptr
    BY <1>1, ReadSideType DEF Enqueue
  <1>3. tile_count < DEPTH_TILES \/ dequeue_tile(d)
    BY <1>1 DEF Enqueue, in_ready, EntryReserved, TypeOK
  <1>4. tile_count' \in 0 .. DEPTH_TILES
    BY <1>1, <1>2, <1>3 DEF Enqueue, TypeOK
  <1>5. assemble_count' \in Elems /\ write_ptr' \in Ptrs
    BY <1>1, NextPtrInRange DEF Enqueue, TypeOK, Elems
  <1>6. [e \in Elems |-> Blank] \in [Elems -> Cells \cup {Blank}] OBVIOUS
  <1>7. assemble_at' \in Places /\ order_error' \in BOOLEAN
    BY <1>1, CheckItemType DEF Enqueue
  <1>8. tile_mem' \in [Ptrs -> Tiles]
    <2>1. item.last \in BOOLEAN BY DEF Item
    <2>2. assemble_at_next(item) \in Places BY <1>7 DEF Enqueue, CheckItem
    <2>3. [cells |-> assembled_next(item), at |-> assemble_at_next(item),
           last |-> item.last] \in Tiles
      BY <1>1, <2>1, <2>2, AssembledType DEF Tiles
    <2> QED BY <1>1, <2>3 DEF Enqueue, TypeOK
  <1>9. tiles_enqueued' \in 0 .. CounterMod - 1
    BY <1>1 DEF Enqueue, TypeOK
  <1>10. TypeOK'
    BY <1>2, <1>4, <1>5, <1>6, <1>7, <1>8, <1>9 DEF Enqueue, TypeOK
  <1>11. write_ptr' = SlotFrom(read_ptr, tile_count)'
    <2>1. read_ptr \in Ptrs BY <1>1 DEF TypeOK
    <2>2. write_ptr' = next_ptr(SlotFrom(read_ptr, tile_count))
      BY <1>1, WriterAfterLast DEF Enqueue
    <2>3. CASE dequeue_tile(d)
      <3>1. tile_count \in 1 .. DEPTH_TILES BY <1>1, <1>2, <2>3 DEF TypeOK
      <3>2. SlotFrom(read_ptr, tile_count) = SlotFrom(read_ptr', tile_count - 1)
        BY <1>2, <2>1, <2>3, <3>1, SlotAfterRead
      <3>3. tile_count - 1 \in 0 .. DEPTH_TILES - 1 /\ (tile_count - 1) + 1 = tile_count
        BY <3>1
      <3>4. next_ptr(SlotFrom(read_ptr', tile_count - 1)) = SlotFrom(read_ptr', tile_count)
        BY <1>2, <3>3, SlotAfterWrite
      <3> QED BY <2>2, <2>3, <3>2, <3>4 DEF Enqueue
    <2>4. CASE ~dequeue_tile(d)
      <3>1. tile_count \in 0 .. DEPTH_TILES - 1 BY <1>1, <1>3, <2>4 DEF TypeOK
      <3> QED BY <1>2, <2>1, <2>2, <2>4, <3>1, SlotAfterWrite DEF Enqueue
    <2> QED BY <2>3, <2>4
  <1>12. EntryReserved' BY <1>10, <1>11, ReservedIfAfterLast DEF Enqueue
  <1> QED BY <1>10, <1>12 DEF FifoInv

LEMMA DequeueInv == ASSUME FifoInv, Dequeue PROVE FifoInv'
  <1> USE Constants
  <1>1. TypeOK /\ EntryReserved BY DEF FifoInv
  <1>2. dequeue_tile(TRUE) BY DEF Dequeue, dequeue_tile
  <1>3. /\ read_ptr' \in Ptrs
        /\ tiles_dequeued' \in 0 .. CounterMod - 1
        /\ tile_count # 0 /\ read_ptr' = next_ptr(read_ptr)
    BY <1>1, <1>2, ReadSideType DEF Dequeue
  <1>4. tile_count' \in 0 .. DEPTH_TILES BY <1>1, <1>3 DEF Dequeue, TypeOK
  <1>5. TypeOK' BY <1>1, <1>3, <1>4 DEF Dequeue, TypeOK
  <1>6. write_ptr' = SlotFrom(read_ptr, tile_count)'
    <2>1. tile_count \in 1 .. DEPTH_TILES /\ read_ptr \in Ptrs BY <1>1, <1>3 DEF TypeOK
    <2> QED BY <1>1, <1>3, <2>1, WriterAfterLast, SlotAfterRead DEF Dequeue
  <1>7. assemble_count' # 0 => tile_count' < DEPTH_TILES
    BY <1>1, <1>3 DEF Dequeue, EntryReserved, TypeOK
  <1>8. EntryReserved' BY <1>5, <1>6, <1>7, ReservedIfAfterLast
  <1> QED BY <1>5, <1>8 DEF FifoInv

LEMMA StutterInv == ASSUME FifoInv, UNCHANGED vars PROVE FifoInv'
  BY DEF FifoInv, TypeOK, EntryReserved, Slot, SlotFrom, vars

\* In every reachable state the registers are in range and an unread tile is
\* safe from the writer.
THEOREM Invariance == Spec => []FifoInv
  <1>1. FifoInv /\ [Next]_vars => FifoInv'
    <2> SUFFICES ASSUME FifoInv, [Next]_vars PROVE FifoInv'
      OBVIOUS
    <2>1. CASE Clear BY <2>1, ClearInv
    <2>2. CASE \E item \in Inputs, d \in BOOLEAN : Assemble(item, d)
      BY <2>2, AssembleInv
    <2>3. CASE \E item \in Inputs, d \in BOOLEAN : Enqueue(item, d)
      BY <2>3, EnqueueInv
    <2>4. CASE Dequeue BY <2>4, DequeueInv
    <2>5. CASE UNCHANGED vars BY <2>5, StutterInv
    <2> QED BY <2>1, <2>2, <2>3, <2>4, <2>5 DEF Next
  <1> QED BY InitInv, <1>1, PTL DEF Spec

\* Every register of the FIFO stays in its range.
THEOREM TypeCorrect == Spec => []TypeOK
  <1>1. FifoInv => TypeOK BY DEF FifoInv
  <1> QED BY Invariance, <1>1, PTL

\* A tile in progress always has a free entry, the one the write pointer names:
\* accepting its last element whatever the occupancy overwrites nothing.
THEOREM NoOverwrite == Spec => []EntryReserved
  <1>1. FifoInv => EntryReserved BY DEF FifoInv
  <1> QED BY Invariance, <1>1, PTL
-----------------------------------------------------------------------------
(***************************************************************************)
(* The ring as a sequence.  Counted from the read pointer, an edge drops   *)
(* the first entry when the consumer takes it, keeps the others as they    *)
(* were, and puts a completed tile behind them.                            *)
(***************************************************************************)

\* Two entries of the ring less than a round apart are different.
LEMMA SlotsDiffer ==
  \A p \in Ptrs, i, j \in 0 .. DEPTH_TILES :
      i < j /\ j < i + DEPTH_TILES => SlotFrom(p, i) # SlotFrom(p, j)
  BY Constants DEF Ptrs, SlotFrom

LEMMA SlotInRange ==
  \A p \in Ptrs, i \in 0 .. DEPTH_TILES : SlotFrom(p, i) \in Ptrs
  BY Constants DEF Ptrs, SlotFrom

\* The tiles that stay, when `gone` of them (one or none) leave.
Stay(gone) ==
    \A i \in 0 .. tile_count - gone - 1 :
        /\ tile_mem'[SlotFrom(read_ptr', i)] = tile_mem[SlotFrom(read_ptr, i + gone)]
        /\ i + gone \in 0 .. tile_count - 1

Gone(d) == IF dequeue_tile(d) THEN 1 ELSE 0

LEMMA ReadSideMoves ==
  ASSUME TypeOK, NEW d \in BOOLEAN, ReadSide(d)
  PROVE  /\ Gone(d) \in 0 .. 1 /\ Gone(d) <= tile_count
         /\ \A i \in 0 .. tile_count - Gone(d) :
                SlotFrom(read_ptr', i) = SlotFrom(read_ptr, i + Gone(d))
  <1>1. /\ dequeue_tile(d) => tile_count # 0 /\ read_ptr' = next_ptr(read_ptr)
        /\ ~dequeue_tile(d) => read_ptr' = read_ptr
    BY ReadSideType
  <1>2. read_ptr \in Ptrs /\ tile_count \in 0 .. DEPTH_TILES BY DEF TypeOK
  <1>3. CASE dequeue_tile(d)
    <2>1. Gone(d) = 1 /\ tile_count \in 1 .. DEPTH_TILES BY <1>1, <1>2, <1>3 DEF Gone
    <2>2. SUFFICES ASSUME NEW i \in 0 .. tile_count - 1
                   PROVE  SlotFrom(read_ptr', i) = SlotFrom(read_ptr, i + 1)
      BY <2>1
    <2>3. i + 1 \in 1 .. DEPTH_TILES /\ (i + 1) - 1 = i BY <2>1, Constants
    <2> QED BY <1>1, <1>2, <1>3, <2>3, SlotAfterRead
  <1>4. CASE ~dequeue_tile(d)
    <2>1. Gone(d) = 0 BY <1>4 DEF Gone
    <2> QED BY <1>1, <1>2, <1>4, <2>1
  <1> QED BY <1>3, <1>4

LEMMA AssembleStay ==
  ASSUME FifoInv, NEW item \in Inputs, NEW d \in BOOLEAN, Assemble(item, d)
  PROVE  Stay(Gone(d)) /\ tile_count' = tile_count - Gone(d)
  <1>1. TypeOK BY DEF FifoInv
  <1>2. /\ Gone(d) \in 0 .. 1 /\ Gone(d) <= tile_count
        /\ \A i \in 0 .. tile_count - Gone(d) :
               SlotFrom(read_ptr', i) = SlotFrom(read_ptr, i + Gone(d))
    BY <1>1, ReadSideMoves DEF Assemble
  <1>3. tile_count \in Nat /\ tile_mem' = tile_mem BY <1>1 DEF TypeOK, Assemble
  <1>4. Stay(Gone(d)) BY <1>2, <1>3 DEF Stay
  <1>5. tile_count' = tile_count - Gone(d) BY <1>3 DEF Assemble, Gone
  <1> QED BY <1>4, <1>5

LEMMA DequeueStay ==
  ASSUME FifoInv, Dequeue
  PROVE  Stay(1) /\ tile_count' = tile_count - 1 /\ tile_count # 0
  <1>1. TypeOK BY DEF FifoInv
  <1>2. Gone(TRUE) = 1 /\ tile_count # 0
    BY DEF Dequeue, Gone, dequeue_tile, out_valid
  <1>3. \A i \in 0 .. tile_count - 1 : SlotFrom(read_ptr', i) = SlotFrom(read_ptr, i + 1)
    BY <1>1, <1>2, ReadSideMoves DEF Dequeue
  <1>4. tile_count \in Nat /\ tile_mem' = tile_mem BY <1>1 DEF TypeOK, Dequeue
  <1>5. Stay(1) BY <1>3, <1>4 DEF Stay
  <1> QED BY <1>2, <1>5 DEF Dequeue

\* The tile an item completes.
Completed(item) ==
    [cells |-> assembled_next(item), at |-> assemble_at_next(item),
     last |-> item.last]

LEMMA EnqueueStay ==
  ASSUME FifoInv, NEW item \in Inputs, NEW d \in BOOLEAN, Enqueue(item, d)
  PROVE  /\ Stay(Gone(d)) /\ tile_count' = tile_count - Gone(d) + 1
         /\ tile_mem'[SlotFrom(read_ptr', tile_count - Gone(d))] = Completed(item)
  <1>1. TypeOK /\ EntryReserved BY DEF FifoInv
  <1>2. /\ Gone(d) \in 0 .. 1 /\ Gone(d) <= tile_count
        /\ \A i \in 0 .. tile_count - Gone(d) :
               SlotFrom(read_ptr', i) = SlotFrom(read_ptr, i + Gone(d))
    BY <1>1, ReadSideMoves DEF Enqueue
  <1>3. tile_count \in 0 .. DEPTH_TILES /\ read_ptr \in Ptrs /\ write_ptr \in Ptrs
        /\ tile_mem \in [Ptrs -> Tiles] /\ DEPTH_TILES \in Nat
    BY <1>1, Constants DEF TypeOK
  <1>4. tile_count < DEPTH_TILES \/ Gone(d) = 1
    BY <1>1, <1>3 DEF Enqueue, in_ready, EntryReserved, Gone
  <1>5. write_ptr = SlotFrom(read_ptr, tile_count) BY <1>1, WriterAfterLast
  <1>6. tile_mem' = [tile_mem EXCEPT ![write_ptr] = Completed(item)]
    BY DEF Enqueue, Completed
  <1>7. tile_mem'[SlotFrom(read_ptr', tile_count - Gone(d))] = Completed(item)
    <2>1. tile_count - Gone(d) \in 0 .. tile_count - Gone(d)
          /\ (tile_count - Gone(d)) + Gone(d) = tile_count
      BY <1>2, <1>3
    <2>2. SlotFrom(read_ptr', tile_count - Gone(d)) = write_ptr BY <1>2, <1>5, <2>1
    <2> QED BY <1>3, <1>6, <2>2
  <1>8. Stay(Gone(d))
    <2> SUFFICES ASSUME NEW i \in 0 .. tile_count - Gone(d) - 1
                 PROVE  /\ tile_mem'[SlotFrom(read_ptr', i)] = tile_mem[SlotFrom(read_ptr, i + Gone(d))]
                        /\ i + Gone(d) \in 0 .. tile_count - 1
      BY DEF Stay
    <2>1. /\ i + Gone(d) \in 0 .. tile_count - 1 /\ i + Gone(d) \in 0 .. DEPTH_TILES
          /\ i + Gone(d) < tile_count /\ tile_count < (i + Gone(d)) + DEPTH_TILES
          /\ i \in 0 .. tile_count - Gone(d)
      BY <1>2, <1>3, <1>4
    <2>2. SlotFrom(read_ptr', i) = SlotFrom(read_ptr, i + Gone(d)) BY <1>2, <2>1
    <2>3. SlotFrom(read_ptr, i + Gone(d)) # write_ptr BY <1>3, <1>5, <2>1, SlotsDiffer
    <2>4. SlotFrom(read_ptr, i + Gone(d)) \in Ptrs BY <1>3, <2>1, SlotInRange
    <2> QED BY <1>3, <1>6, <2>1, <2>2, <2>3, <2>4
  <1>9. tile_count' = tile_count - Gone(d) + 1 BY <1>3 DEF Enqueue, Gone
  <1> QED BY <1>7, <1>8, <1>9
-----------------------------------------------------------------------------
(***************************************************************************)
(* Scores sit where they are read.  StoredTilesWellPlaced is inductive     *)
(* given FifoInv: the element of an edge joins a tile whose earlier ones   *)
(* are in place, and the error flag, once up, stays up until a clear.      *)
(***************************************************************************)

\* Where the first and the last element of a tile lie in it.
LEMMA Corners ==
  /\ RowOffset(0) = 0 /\ ColOffset(0) = 0
  /\ RowOffset(TILE_ITEMS - 1) = TILE - 1 /\ ColOffset(TILE_ITEMS - 1) = TILE - 1
  <1>1. TILE \in Nat \ {0} BY FifoAssumption
  <1>2. RowOffset(0) = 0 /\ ColOffset(0) = 0 BY <1>1 DEF RowOffset, ColOffset
  <1>3. \A t \in Nat \ {0} : (t * t - 1) \div t = t - 1 /\ (t * t - 1) % t = t - 1
    <2> SUFFICES ASSUME NEW t \in Nat \ {0}
                 PROVE  (t * t - 1) \div t = t - 1 /\ (t * t - 1) % t = t - 1
      OBVIOUS
    <2>1. t * t - 1 = (t - 1) * t + (t - 1) OBVIOUS
    <2>2. \A a, r \in Nat : r < t => (a * t + r) \div t = a /\ (a * t + r) % t = r
      OBVIOUS
    <2> QED BY <2>1, <2>2
  <1> QED BY <1>1, <1>2, <1>3 DEF RowOffset, ColOffset, TILE_ITEMS

\* An aligned position is its own base.
LEMMA BaseOfAligned == \A p \in Pos : p % TILE = 0 => Base(p) = p
  <1> SUFFICES ASSUME NEW p \in Pos, p % TILE = 0 PROVE Base(p) = p
    OBVIOUS
  <1>1. TILE \in Nat \ {0} /\ p \in Nat BY FifoAssumption DEF Pos
  <1>2. p = (p \div TILE) * TILE + (p % TILE) BY <1>1
  <1>3. (p \div TILE) * TILE \in Nat BY <1>1
  <1> QED BY <1>1, <1>2, <1>3 DEF Base

\* An element the checks accept is the score of its position in the tile.
LEMMA ElementInPlace ==
  ASSUME TypeOK, NEW item \in Inputs, InOrder(item)
  PROVE  Tag(item) = TagAt(assemble_at_next(item), assemble_count)
  <1>1. /\ item \in Item /\ item.row \in Pos /\ item.col \in Pos
    BY Constants DEF Item
  <1>2. CASE assemble_count = 0
    <2>1. Base(item.row) = item.row /\ Base(item.col) = item.col
      BY <1>1, <1>2, BaseOfAligned DEF InOrder
    <2>2. assemble_at_next(item) = [group |-> item.group, head |-> item.head,
                                    row |-> item.row, col |-> item.col]
      BY <1>2, <2>1 DEF assemble_at_next, PlaceOf
    <2>3. item.row + 0 = item.row /\ item.col + 0 = item.col BY <1>1 DEF Pos
    <2> QED BY <1>2, <2>2, <2>3, Corners DEF Tag, TagAt
  <1>3. CASE assemble_count # 0
    BY <1>3 DEF InOrder, assemble_at_next, Tag, TagAt, expected_row, expected_col
  <1> QED BY <1>2, <1>3

\* The tile in progress after such an element.
LEMMA ProgressInPlace ==
  ASSUME TypeOK, NEW item \in Inputs, InOrder(item),
         \A e \in 0 .. assemble_count - 1 : assemble[e].score = TagAt(assemble_at, e)
  PROVE  \A e \in 0 .. assemble_count :
             assembled_next(item)[e].score = TagAt(assemble_at_next(item), e)
  <1> SUFFICES ASSUME NEW e \in 0 .. assemble_count
               PROVE  assembled_next(item)[e].score = TagAt(assemble_at_next(item), e)
    OBVIOUS
  <1>1. /\ assemble_count \in Elems /\ assemble \in [Elems -> Cells \cup {Blank}]
        /\ e \in Elems
    BY Constants DEF TypeOK, Elems
  <1>2. CASE e = assemble_count
    <2>1. assembled_next(item)[e] = Cell(item) BY <1>1, <1>2 DEF assembled_next
    <2> QED BY <1>2, <2>1, ElementInPlace DEF Cell
  <1>3. CASE e # assemble_count
    <2>1. e \in 0 .. assemble_count - 1 /\ assemble_count # 0
      BY <1>1, <1>3, Constants DEF Elems
    <2>2. assembled_next(item)[e] = assemble[e] BY <1>1, <1>3 DEF assembled_next
    <2>3. assemble_at_next(item) = assemble_at BY <2>1 DEF assemble_at_next
    <2> QED BY <2>1, <2>2, <2>3
  <1> QED BY <1>2, <1>3

\* The last element of a tile carries the flag of the last tile of a group.
LEMMA LastElementInPlace ==
  ASSUME TypeOK, NEW item \in Inputs, InOrder(item), assemble_count = TILE_ITEMS - 1
  PROVE  item.last <=> LastOfGroup(assemble_at_next(item))
  <1> DEFINE at == assemble_at_next(item)
  <1>1. /\ item \in Item /\ item.row \in Pos /\ item.col \in Pos /\ item.last \in BOOLEAN
        /\ item.head \in Heads
    BY Constants DEF Item
  <1>2. at \in Places BY PlaceInRange DEF TypeOK, assemble_at_next
  <1>3. at.row \in Nat /\ at.col \in Nat BY <1>2 DEF Places, Pos
  <1>4. Tag(item) = TagAt(at, TILE_ITEMS - 1) BY ElementInPlace
  <1>5. item.head = at.head /\ item.row = at.row + (TILE - 1) /\ item.col = at.col + (TILE - 1)
    BY <1>4, Corners DEF Tag, TagAt
  <1>6. item.last = expected_stream_last(item) BY DEF InOrder
  <1>7. TILE \in Nat /\ SEQ_LEN \in Nat BY FifoAssumption
  <1>8. /\ item.row = SEQ_LEN - 1 <=> at.row + TILE = SEQ_LEN
        /\ item.col = SEQ_LEN - 1 <=> at.col + TILE = SEQ_LEN
    BY <1>3, <1>5, <1>7
  <1>9. expected_stream_last(item) <=> LastOfGroup(at)
    BY <1>5, <1>8 DEF expected_stream_last, LastOfGroup
  <1> QED BY <1>6, <1>9

\* A stored tile that sits well.
TileInPlace(tile) == WellPlaced(tile) /\ (tile.last <=> LastOfGroup(tile.at))

LEMMA StoredInPlace ==
  StoredTilesWellPlaced <=>
    (~order_error =>
        /\ \A i \in 0 .. tile_count - 1 : TileInPlace(tile_mem[SlotFrom(read_ptr, i)])
        /\ \A e \in 0 .. assemble_count - 1 :
               assemble[e].score = TagAt(assemble_at, e))
  BY DEF StoredTilesWellPlaced, TileInPlace, Slot

\* The tiles that stay, stay in place.
LEMMA StayInPlace ==
  ASSUME NEW gone \in 0 .. 1, Stay(gone),
         \A i \in 0 .. tile_count - 1 : TileInPlace(tile_mem[SlotFrom(read_ptr, i)])
  PROVE  \A i \in 0 .. tile_count - gone - 1 :
             TileInPlace(tile_mem'[SlotFrom(read_ptr', i)])
  BY DEF Stay

LEMMA AssemblePlaced ==
  ASSUME FifoInv, StoredTilesWellPlaced, NEW item \in Inputs, NEW d \in BOOLEAN,
         Assemble(item, d), ~order_error'
  PROVE  /\ \A i \in 0 .. tile_count' - 1 : TileInPlace(tile_mem'[SlotFrom(read_ptr', i)])
         /\ \A e \in 0 .. assemble_count' - 1 :
                assemble'[e].score = TagAt(assemble_at', e)
  <1>1. TypeOK BY DEF FifoInv
  <1>2. ~order_error /\ InOrder(item) BY DEF Assemble, CheckItem
  <1>3. /\ \A i \in 0 .. tile_count - 1 : TileInPlace(tile_mem[SlotFrom(read_ptr, i)])
        /\ \A e \in 0 .. assemble_count - 1 : assemble[e].score = TagAt(assemble_at, e)
    BY <1>2, StoredInPlace
  <1>4. Stay(Gone(d)) /\ tile_count' = tile_count - Gone(d) BY AssembleStay
  <1>5. Gone(d) \in 0 .. 1 BY DEF Gone
  <1>6. \A i \in 0 .. tile_count' - 1 : TileInPlace(tile_mem'[SlotFrom(read_ptr', i)])
    BY <1>3, <1>4, <1>5, StayInPlace
  <1>7. assemble_count \in Nat BY <1>1, Constants DEF TypeOK, Elems
  <1>8. /\ assemble' = assembled_next(item) /\ assemble_at' = assemble_at_next(item)
        /\ assemble_count' - 1 = assemble_count
    BY <1>7 DEF Assemble, CheckItem
  <1> QED BY <1>1, <1>2, <1>3, <1>6, <1>8, ProgressInPlace

LEMMA EnqueuePlaced ==
  ASSUME FifoInv, StoredTilesWellPlaced, NEW item \in Inputs, NEW d \in BOOLEAN,
         Enqueue(item, d), ~order_error'
  PROVE  /\ \A i \in 0 .. tile_count' - 1 : TileInPlace(tile_mem'[SlotFrom(read_ptr', i)])
         /\ \A e \in 0 .. assemble_count' - 1 :
                assemble'[e].score = TagAt(assemble_at', e)
  <1>1. TypeOK BY DEF FifoInv
  <1>2. ~order_error /\ InOrder(item) BY DEF Enqueue, CheckItem
  <1>3. /\ \A i \in 0 .. tile_count - 1 : TileInPlace(tile_mem[SlotFrom(read_ptr, i)])
        /\ \A e \in 0 .. assemble_count - 1 : assemble[e].score = TagAt(assemble_at, e)
    BY <1>2, StoredInPlace
  <1>4. /\ Stay(Gone(d)) /\ tile_count' = tile_count - Gone(d) + 1
        /\ tile_mem'[SlotFrom(read_ptr', tile_count - Gone(d))] = Completed(item)
    BY EnqueueStay
  <1>5. Gone(d) \in 0 .. 1 /\ tile_count \in Nat BY <1>1 DEF Gone, TypeOK
  <1>6. \A i \in 0 .. tile_count - Gone(d) - 1 : TileInPlace(tile_mem'[SlotFrom(read_ptr', i)])
    BY <1>3, <1>4, <1>5, StayInPlace
  <1>7. TileInPlace(Completed(item))
    <2>1. assemble_count = TILE_ITEMS - 1 BY DEF Enqueue
    <2>2. \A e \in Elems : assembled_next(item)[e].score = TagAt(assemble_at_next(item), e)
      BY <1>1, <1>2, <1>3, <2>1, ProgressInPlace DEF Elems
    <2>3. item.last <=> LastOfGroup(assemble_at_next(item))
      BY <1>1, <1>2, <2>1, LastElementInPlace
    <2> QED BY <2>2, <2>3 DEF TileInPlace, WellPlaced, Completed
  <1>8. SUFFICES ASSUME NEW i \in 0 .. tile_count' - 1
                 PROVE  TileInPlace(tile_mem'[SlotFrom(read_ptr', i)])
    BY DEF Enqueue
  <1>9. i \in 0 .. tile_count - Gone(d) - 1 \/ i = tile_count - Gone(d) BY <1>4, <1>5
  <1> QED BY <1>4, <1>6, <1>7, <1>9

LEMMA DequeuePlaced ==
  ASSUME FifoInv, StoredTilesWellPlaced, Dequeue
  PROVE  StoredTilesWellPlaced'
  <1>1. Stay(1) /\ tile_count' = tile_count - 1 BY DequeueStay
  <1>2. SUFFICES ASSUME ~order_error'
                 PROVE  /\ \A i \in 0 .. tile_count' - 1 : TileInPlace(tile_mem'[SlotFrom(read_ptr', i)])
                        /\ \A e \in 0 .. assemble_count' - 1 :
                               assemble'[e].score = TagAt(assemble_at', e)
    BY DEF StoredTilesWellPlaced, TileInPlace, Slot, SlotFrom, WellPlaced, LastOfGroup, TagAt
  <1>3. \A i \in 0 .. tile_count - 1 : TileInPlace(tile_mem[SlotFrom(read_ptr, i)])
    BY <1>2, StoredInPlace DEF Dequeue
  <1>4. \A i \in 0 .. tile_count' - 1 : TileInPlace(tile_mem'[SlotFrom(read_ptr', i)])
    BY <1>1, <1>3, StayInPlace
  <1> QED BY <1>2, <1>4, StoredInPlace DEF Dequeue

\* While the order was never broken, every score waiting in the FIFO sits where
\* the consumer reads it from, and the tile flagged as the last of its group is
\* the bottom right one of the last head.
THEOREM TilesWellPlaced == Spec => []StoredTilesWellPlaced
  <1>1. Init => StoredTilesWellPlaced
    BY Constants DEF Init, StoredTilesWellPlaced
  <1>2. FifoInv /\ StoredTilesWellPlaced /\ [Next]_vars => StoredTilesWellPlaced'
    <2> SUFFICES ASSUME FifoInv, StoredTilesWellPlaced, [Next]_vars
                 PROVE  StoredTilesWellPlaced'
      OBVIOUS
    <2>1. CASE Clear BY <2>1 DEF Clear, StoredTilesWellPlaced
    <2>2. ASSUME NEW item \in Inputs, NEW d \in BOOLEAN, Assemble(item, d)
          PROVE  StoredTilesWellPlaced'
      BY <2>2, AssemblePlaced
      DEF StoredTilesWellPlaced, TileInPlace, Slot, SlotFrom, WellPlaced, LastOfGroup, TagAt
    <2>3. ASSUME NEW item \in Inputs, NEW d \in BOOLEAN, Enqueue(item, d)
          PROVE  StoredTilesWellPlaced'
      BY <2>3, EnqueuePlaced
      DEF StoredTilesWellPlaced, TileInPlace, Slot, SlotFrom, WellPlaced, LastOfGroup, TagAt
    <2>4. CASE Dequeue BY <2>4, DequeuePlaced
    <2>5. CASE UNCHANGED vars
      BY <2>5 DEF vars, StoredTilesWellPlaced, Slot, SlotFrom, WellPlaced, LastOfGroup, TagAt
    <2> QED BY <2>1, <2>2, <2>3, <2>4, <2>5 DEF Next
  <1> QED BY Invariance, <1>1, <1>2, PTL DEF Spec
-----------------------------------------------------------------------------
(***************************************************************************)
(* The ring implements the bounded queue of whole tiles.  queueBar and     *)
(* partialBar are functions on 1 .. n; the queue is written with Append    *)
(* and Tail, so what those two do to such a function comes first.          *)
(***************************************************************************)

\* A function on 1 .. n is a sequence of length n.
LEMMA FunctionIsSequence ==
  ASSUME NEW S, NEW n \in Nat, NEW f \in [1 .. n -> S]
  PROVE  f \in Seq(S) /\ Len(f) = n
  <1>1. f \in Seq(S) BY SeqDef
  <1>2. DOMAIN f = 1 .. n /\ DOMAIN f = 1 .. Len(f) /\ Len(f) \in Nat
    BY <1>1, LenProperties
  <1>3. 1 .. n = 1 .. Len(f) BY <1>2
  <1>4. Len(f) = n BY <1>2, <1>3
  <1> QED BY <1>1, <1>4

LEMMA AppendToFunction ==
  ASSUME NEW S, NEW n \in Nat, NEW f \in [1 .. n -> S], NEW x \in S,
         NEW g \in [1 .. n + 1 -> S],
         \A i \in 1 .. n : g[i] = f[i], g[n + 1] = x
  PROVE  g = Append(f, x)
  <1>1. f \in Seq(S) /\ Len(f) = n BY FunctionIsSequence
  <1>2. g \in Seq(S) /\ Len(g) = n + 1 BY FunctionIsSequence
  <1>3. /\ Append(f, x) \in Seq(S) /\ Len(Append(f, x)) = n + 1
        /\ \A i \in 1 .. n : Append(f, x)[i] = f[i]
        /\ Append(f, x)[n + 1] = x
    BY <1>1, AppendProperties
  <1>4. \A i \in 1 .. Len(g) : g[i] = Append(f, x)[i]
    <2> SUFFICES ASSUME NEW i \in 1 .. n + 1 PROVE g[i] = Append(f, x)[i]
      BY <1>2
    <2> DEFINE a == Append(f, x)
    <2>1. i \in 1 .. n \/ i = n + 1 OBVIOUS
    <2> QED BY <1>3, <2>1
  <1> QED BY <1>2, <1>3, <1>4, SeqEqual

LEMMA TailOfFunction ==
  ASSUME NEW S, NEW n \in Nat \ {0}, NEW f \in [1 .. n -> S],
         NEW g \in [1 .. n - 1 -> S], \A i \in 1 .. n - 1 : g[i] = f[i + 1]
  PROVE  g = Tail(f)
  <1>1. f \in Seq(S) /\ Len(f) = n BY FunctionIsSequence
  <1>2. g \in Seq(S) /\ Len(g) = n - 1 BY FunctionIsSequence
  <1>3. f # <<>> BY <1>1
  <1>4. /\ Tail(f) \in Seq(S) /\ Len(Tail(f)) = n - 1
        /\ \A i \in 1 .. n - 1 : Tail(f)[i] = f[i + 1]
    BY <1>1, <1>3, HeadTailProperties
  <1> QED BY <1>2, <1>4, SeqEqual

\* The cells of a tile as the queue sees them, and a run of n entries of the
\* memory from an entry on.
CellsOf(tile) == [k \in 1 .. TILE_ITEMS |-> tile.cells[k - 1]]
CellRows == [1 .. TILE_ITEMS -> Cells \cup {Blank}]
Ring(mem, ptr, n) == [i \in 1 .. n |-> CellsOf(mem[SlotFrom(ptr, i - 1)])]

LEMMA RingType ==
  ASSUME NEW mem \in [Ptrs -> Tiles], NEW ptr \in Ptrs, NEW n \in 0 .. DEPTH_TILES
  PROVE  Ring(mem, ptr, n) \in [1 .. n -> CellRows]
  <1> SUFFICES ASSUME NEW i \in 1 .. n
               PROVE  CellsOf(mem[SlotFrom(ptr, i - 1)]) \in CellRows
    BY DEF Ring
  <1>1. SlotFrom(ptr, i - 1) \in Ptrs
    <2>1. i - 1 \in 0 .. DEPTH_TILES BY Constants
    <2> QED BY <2>1, SlotInRange
  <1>2. mem[SlotFrom(ptr, i - 1)] \in Tiles BY <1>1
  <1>3. \A k \in 1 .. TILE_ITEMS : k - 1 \in Elems BY Constants DEF Elems
  <1> QED BY <1>2, <1>3 DEF CellsOf, CellRows, Tiles

LEMMA QueueIsRing ==
  /\ queueBar = Ring(tile_mem, read_ptr, tile_count)
  /\ queueBar' = Ring(tile_mem', read_ptr', tile_count')
  BY DEF queueBar, Ring, CellsOf, Slot

\* The tiles that stay are the whole queue, or its tail.
LEMMA StayRing ==
  ASSUME FifoInv, TypeOK', NEW gone \in 0 .. 1, gone <= tile_count, Stay(gone)
  PROVE  Ring(tile_mem', read_ptr', tile_count - gone)
             = IF gone = 1 THEN Tail(queueBar) ELSE queueBar
  <1>1. /\ tile_mem \in [Ptrs -> Tiles] /\ read_ptr \in Ptrs
        /\ tile_count \in 0 .. DEPTH_TILES /\ DEPTH_TILES \in Nat
        /\ tile_mem' \in [Ptrs -> Tiles] /\ read_ptr' \in Ptrs
    BY Constants DEF FifoInv, TypeOK
  <1> DEFINE n == tile_count - gone
             f == Ring(tile_mem, read_ptr, tile_count)
             g == Ring(tile_mem', read_ptr', n)
  <1>2. n \in 0 .. DEPTH_TILES BY <1>1
  <1>3. f \in [1 .. tile_count -> CellRows] /\ g \in [1 .. n -> CellRows]
    BY <1>1, <1>2, RingType
  <1>4. ASSUME NEW i \in 1 .. n PROVE g[i] = f[i + gone]
    <2>1. /\ i - 1 \in 0 .. tile_count - gone - 1 /\ i + gone \in 1 .. tile_count
          /\ (i - 1) + gone = (i + gone) - 1
      BY <1>1
    <2>2. tile_mem'[SlotFrom(read_ptr', i - 1)] = tile_mem[SlotFrom(read_ptr, (i + gone) - 1)]
      BY <2>1 DEF Stay
    <2>3. g[i] = CellsOf(tile_mem'[SlotFrom(read_ptr', i - 1)]) BY DEF Ring
    <2>4. f[i + gone] = CellsOf(tile_mem[SlotFrom(read_ptr, (i + gone) - 1)])
      BY <2>1 DEF Ring
    <2> QED BY <2>2, <2>3, <2>4
  <1>5. CASE gone = 1
    <2> HIDE DEF f, g
    <2>1. tile_count \in Nat \ {0} /\ n = tile_count - 1 BY <1>1, <1>5
    <2>2. \A i \in 1 .. tile_count - 1 : g[i] = f[i + 1] BY <1>4, <1>5, <2>1
    <2>3. g \in [1 .. tile_count - 1 -> CellRows] BY <1>3, <2>1
    <2>4. g = Tail(f) BY <1>3, <2>1, <2>2, <2>3, TailOfFunction
    <2> QED BY <1>5, <2>4, QueueIsRing DEF f, g
  <1>6. CASE gone = 0
    <2> HIDE DEF f, g
    <2>1. n = tile_count BY <1>1, <1>6
    <2>2. \A i \in 1 .. tile_count : g[i] = f[i]
      <3> SUFFICES ASSUME NEW i \in 1 .. tile_count PROVE g[i] = f[i]
        OBVIOUS
      <3>1. i + gone = i BY <1>1, <1>6
      <3> QED BY <1>4, <2>1, <3>1
    <2>3. g \in [1 .. tile_count -> CellRows] /\ f \in [1 .. tile_count -> CellRows]
      BY <1>3, <2>1
    <2>4. g = f
      <3>1. /\ g \in Seq(CellRows) /\ f \in Seq(CellRows)
            /\ Len(g) = tile_count /\ Len(f) = tile_count
        BY <1>1, <2>3, FunctionIsSequence
      <3> QED BY <2>2, <3>1, SeqEqual
    <2> QED BY <1>6, <2>4, QueueIsRing DEF f, g
  <1> QED BY <1>5, <1>6

\* The elements assembled so far, with the one of this edge behind them.
LEMMA PartialGrows ==
  ASSUME TypeOK, NEW item \in Inputs
  PROVE  /\ partialBar \in Seq(Cells \cup {Blank}) /\ Len(partialBar) = assemble_count
         /\ [k \in 1 .. assemble_count + 1 |-> assembled_next(item)[k - 1]]
                = Append(partialBar, Cell(item))
  <1> DEFINE n == assemble_count
             row == assembled_next(item)
             S == Cells \cup {Blank}
             f == [k \in 1 .. n |-> assemble[k - 1]]
             g == [k \in 1 .. n + 1 |-> row[k - 1]]
  <1>1. n \in Elems /\ n \in Nat /\ assemble \in [Elems -> S]
    BY Constants DEF TypeOK, Elems
  <1>2. row \in [Elems -> S] BY AssembledType
  <1>3. Cell(item) \in S BY CellInRange
  <1>4. \A k \in 1 .. n + 1 : k - 1 \in Elems BY <1>1, Constants DEF Elems
  <1>5. f \in [1 .. n -> S] /\ g \in [1 .. n + 1 -> S]
    <2> HIDE DEF row, S
    <2> QED BY <1>1, <1>2, <1>4
  <1>6. ASSUME NEW k \in 1 .. n PROVE g[k] = f[k]
    <2>1. k - 1 \in Elems /\ k - 1 # n /\ k \in 1 .. n + 1 BY <1>1, <1>4
    <2>2. row[k - 1] = assemble[k - 1] BY <1>1, <2>1 DEF assembled_next
    <2> HIDE DEF row
    <2> QED BY <2>1, <2>2
  <1>7. g[n + 1] = Cell(item)
    <2>1. (n + 1) - 1 = n /\ n + 1 \in 1 .. n + 1 BY <1>1
    <2>2. row[n] = Cell(item) BY <1>1 DEF assembled_next
    <2> HIDE DEF row
    <2> QED BY <2>1, <2>2
  <1>8. f = partialBar BY DEF partialBar
  <1> HIDE DEF f, g, n, row, S
  <1>9. g = Append(f, Cell(item)) BY <1>1, <1>3, <1>5, <1>6, <1>7, AppendToFunction
  <1>10. f \in Seq(S) /\ Len(f) = n BY <1>1, <1>5, FunctionIsSequence
  <1> QED BY <1>8, <1>9, <1>10 DEF g, n, row, S

\* Is the queue empty, is the tile in progress empty: the same as in the ring.
LEMMA BarsEmpty ==
  ASSUME TypeOK
  PROVE  /\ queueBar # <<>> <=> tile_count # 0
         /\ Len(queueBar) = tile_count
         /\ partialBar # <<>> <=> assemble_count # 0
  <1>1. /\ tile_mem \in [Ptrs -> Tiles] /\ read_ptr \in Ptrs
        /\ tile_count \in 0 .. DEPTH_TILES /\ tile_count \in Nat
        /\ assemble_count \in Nat /\ assemble_count \in Elems
        /\ assemble \in [Elems -> Cells \cup {Blank}]
    BY Constants DEF TypeOK, Elems
  <1>2. queueBar \in Seq(CellRows) /\ Len(queueBar) = tile_count
    BY <1>1, RingType, QueueIsRing, FunctionIsSequence
  <1>3. partialBar \in [1 .. assemble_count -> Cells \cup {Blank}]
    <2>1. \A k \in 1 .. assemble_count : k - 1 \in Elems BY <1>1, Constants DEF Elems
    <2> QED BY <1>1, <2>1 DEF partialBar
  <1>4. partialBar \in Seq(Cells \cup {Blank}) /\ Len(partialBar) = assemble_count
    BY <1>1, <1>3, FunctionIsSequence
  <1>5. ASSUME NEW S, NEW q \in Seq(S) PROVE q # <<>> <=> Len(q) # 0
    BY EmptySeq
  <1>6. queueBar # <<>> <=> Len(queueBar) # 0 BY <1>2, <1>5
  <1>7. partialBar # <<>> <=> Len(partialBar) # 0 BY <1>4, <1>5
  <1> QED BY <1>2, <1>4, <1>6, <1>7

LEMMA RemainingIs ==
  ASSUME TypeOK, NEW d \in BOOLEAN
  PROVE  /\ Queue!Remaining(dequeue_tile(d))
                = IF Gone(d) = 1 THEN Tail(queueBar) ELSE queueBar
         /\ Gone(d) \in 0 .. 1 /\ Gone(d) <= tile_count
  BY DEF Queue!Remaining, Gone, dequeue_tile, out_valid, TypeOK

\* A clear drops everything.
LEMMA ClearFlushes == ASSUME FifoInv, Clear PROVE Queue!Flush
  <1>1. 1 .. 0 = {} OBVIOUS
  <1>2. queueBar' = [i \in {} |-> CellsOf(tile_mem'[SlotFrom(read_ptr', i - 1)])]
    BY <1>1, QueueIsRing DEF Ring, Clear
  <1>3. partialBar' = [k \in {} |-> assemble'[k - 1]] BY <1>1 DEF partialBar, Clear
  <1> QED BY <1>2, <1>3 DEF Queue!Flush

LEMMA AssembleAccepts ==
  ASSUME FifoInv, TypeOK', NEW item \in Inputs, NEW d \in BOOLEAN, Assemble(item, d)
  PROVE  Queue!Accept(Cell(item), dequeue_tile(d))
  <1>1. TypeOK BY DEF FifoInv
  <1>2. Stay(Gone(d)) /\ tile_count' = tile_count - Gone(d) BY AssembleStay
  <1>3. queueBar' = Queue!Remaining(dequeue_tile(d))
    BY <1>1, <1>2, RemainingIs, StayRing, QueueIsRing
  <1>4. partialBar' = Append(partialBar, Cell(item)) /\ Len(partialBar) = assemble_count
    <2>1. partialBar' = [k \in 1 .. assemble_count + 1 |-> assembled_next(item)[k - 1]]
      BY DEF partialBar, Assemble
    <2> QED BY <1>1, <2>1, PartialGrows
  <1>5. Len(partialBar) + 1 # TILE_ITEMS
    BY <1>1, <1>4, Constants DEF Assemble, TypeOK, Elems
  <1>6. dequeue_tile(d) => queueBar # <<>>
    BY <1>1, BarsEmpty DEF dequeue_tile, out_valid
  <1>7. Queue!MayAccept(dequeue_tile(d))
    BY <1>1, BarsEmpty DEF Assemble, in_ready, Queue!MayAccept
  <1> QED BY <1>3, <1>4, <1>5, <1>6, <1>7 DEF Queue!Accept

LEMMA EnqueueAccepts ==
  ASSUME FifoInv, TypeOK', NEW item \in Inputs, NEW d \in BOOLEAN, Enqueue(item, d)
  PROVE  Queue!Accept(Cell(item), dequeue_tile(d))
  <1> DEFINE gone == Gone(d)
             n == tile_count - gone
             f == Ring(tile_mem', read_ptr', n)
             g == Ring(tile_mem', read_ptr', n + 1)
             row == Append(partialBar, Cell(item))
  <1>1. TypeOK BY DEF FifoInv
  <1>2. /\ Stay(gone) /\ tile_count' = n + 1
        /\ tile_mem'[SlotFrom(read_ptr', n)] = Completed(item)
    BY EnqueueStay
  <1>3. /\ tile_mem' \in [Ptrs -> Tiles] /\ read_ptr' \in Ptrs
        /\ gone \in 0 .. 1 /\ gone <= tile_count /\ n \in Nat
        /\ n \in 0 .. DEPTH_TILES /\ n + 1 \in 0 .. DEPTH_TILES
    BY <1>1, <1>2, RemainingIs, Constants DEF TypeOK
  <1>4. f = Queue!Remaining(dequeue_tile(d))
    BY <1>1, <1>2, <1>3, RemainingIs, StayRing
  <1>5. assemble_count = TILE_ITEMS - 1 /\ TILE_ITEMS \in Nat \ {0} BY Constants DEF Enqueue
  <1>6. row = CellsOf(Completed(item)) /\ Len(partialBar) + 1 = TILE_ITEMS
    <2>1. assemble_count + 1 = TILE_ITEMS BY <1>5
    <2>2. CellsOf(Completed(item)) = [k \in 1 .. assemble_count + 1 |-> assembled_next(item)[k - 1]]
      BY <2>1 DEF CellsOf, Completed
    <2> QED BY <1>1, <2>1, <2>2, PartialGrows
  <1>7. queueBar' = Append(f, row)
    <2>1. f \in [1 .. n -> CellRows] /\ g \in [1 .. n + 1 -> CellRows] BY <1>3, RingType
    <2>2. g[n + 1] = row
      <3>1. (n + 1) - 1 = n /\ n + 1 \in 1 .. n + 1 BY <1>3
      <3>2. g[n + 1] = CellsOf(tile_mem'[SlotFrom(read_ptr', (n + 1) - 1)])
        BY <3>1 DEF Ring
      <3> QED BY <1>2, <1>6, <3>1, <3>2
    <2>3. \A i \in 1 .. n : g[i] = f[i]
      <3> SUFFICES ASSUME NEW i \in 1 .. n PROVE g[i] = f[i]
        OBVIOUS
      <3>1. i \in 1 .. n + 1 BY <1>3
      <3> QED BY <3>1 DEF Ring
    <2>4. row \in CellRows
      <3>1. n + 1 \in 1 .. n + 1 BY <1>3
      <3> HIDE DEF g, row
      <3> QED BY <2>1, <2>2, <3>1
    <2>5. queueBar' = g BY <1>2, QueueIsRing
    <2> HIDE DEF f, g, row, n
    <2> QED BY <1>3, <2>1, <2>2, <2>3, <2>4, <2>5, AppendToFunction
  <1>8. partialBar' = <<>>
    <2>1. 1 .. 0 = {} OBVIOUS
    <2>2. partialBar' = [k \in {} |-> assemble'[k - 1]] BY <2>1 DEF partialBar, Enqueue
    <2> QED BY <2>2
  <1>9. dequeue_tile(d) => queueBar # <<>>
    BY <1>1, BarsEmpty DEF dequeue_tile, out_valid
  <1>10. Queue!MayAccept(dequeue_tile(d))
    BY <1>1, BarsEmpty DEF Enqueue, in_ready, Queue!MayAccept
  <1> QED BY <1>4, <1>6, <1>7, <1>8, <1>9, <1>10 DEF Queue!Accept

LEMMA DequeueDelivers == ASSUME FifoInv, TypeOK', Dequeue PROVE Queue!Deliver
  <1>1. TypeOK BY DEF FifoInv
  <1>2. Stay(1) /\ tile_count' = tile_count - 1 /\ tile_count # 0 BY DequeueStay
  <1>3. 1 \in 0 .. 1 /\ 1 <= tile_count BY <1>1, <1>2 DEF TypeOK
  <1>4. queueBar' = Tail(queueBar) BY <1>2, <1>3, StayRing, QueueIsRing
  <1>5. queueBar # <<>> BY <1>1, <1>2, BarsEmpty
  <1>6. partialBar' = partialBar BY DEF partialBar, Dequeue
  <1> QED BY <1>4, <1>5, <1>6 DEF Queue!Deliver

\* The FIFO implements the bounded queue of whole tiles: every clock edge is a
\* step of the queue, or changes nothing the queue can see.
THEOREM Refinement == Spec => ImplementsQueue
  <1>1. Init => Queue!QInit
    <2> SUFFICES ASSUME Init PROVE Queue!QInit
      OBVIOUS
    <2>1. TypeOK /\ tile_count = 0 /\ assemble_count = 0
      BY InitInv DEF FifoInv, Init
    <2> QED BY <2>1, BarsEmpty DEF Queue!QInit
  <1>2. FifoInv /\ FifoInv' /\ [Next]_vars => [Queue!QNext]_(Queue!qvars)
    <2> SUFFICES ASSUME FifoInv, FifoInv', [Next]_vars
                 PROVE  Queue!QNext \/ UNCHANGED Queue!qvars
      OBVIOUS
    <2>1. TypeOK' BY DEF FifoInv
    <2>2. CASE Clear BY <2>2, ClearFlushes DEF Queue!QNext
    <2>3. ASSUME NEW item \in Inputs, NEW d \in BOOLEAN,
                 Assemble(item, d) \/ Enqueue(item, d)
          PROVE  Queue!QNext
      <3>1. Cell(item) \in Cells /\ dequeue_tile(d) \in BOOLEAN
        BY CellInRange DEF dequeue_tile, out_valid
      <3>2. Queue!Accept(Cell(item), dequeue_tile(d))
        BY <2>1, <2>3, AssembleAccepts, EnqueueAccepts
      <3> QED BY <3>1, <3>2 DEF Queue!QNext
    <2>4. CASE Dequeue BY <2>1, <2>4, DequeueDelivers DEF Queue!QNext
    <2>5. CASE UNCHANGED vars
      BY <2>5 DEF vars, Queue!qvars, queueBar, partialBar, Slot, SlotFrom
    <2> QED BY <2>2, <2>3, <2>4, <2>5 DEF Next
  <1> QED BY Invariance, <1>1, <1>2, PTL DEF Spec, ImplementsQueue, Queue!QSpec
=============================================================================
