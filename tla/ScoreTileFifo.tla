--------------------------- MODULE ScoreTileFifo ---------------------------
(***************************************************************************)
(* rtl/core/online/flash_score_tile_fifo.sv: the scalar score stream of    *)
(* the QK array is assembled into TILE x TILE tiles, and complete tiles    *)
(* wait in a circular memory for the online softmax.                       *)
(*                                                                         *)
(* Every step is one rising clock edge.  The module's inputs at that edge  *)
(* are the parameters of the actions: the item on the in_* port (present   *)
(* when in_valid), and out_ready.  A score is abstracted to the tag        *)
(* <<group, head, row, col>> it was presented with, which is what tells    *)
(* two scores apart.                                                       *)
(***************************************************************************)
EXTENDS Integers, Sequences

CONSTANTS
    TILE, DEPTH_TILES, SEQ_LEN, Q_HEADS, GQA_GROUPS,
    CounterMod, \* modulus of the two tile counters (2^32 in the hardware)
    Inputs      \* the items the producer may present, a subset of Item

Groups == 0 .. GQA_GROUPS - 1
Heads  == 0 .. Q_HEADS - 1
Pos    == 0 .. SEQ_LEN - 1

Item == [group : Groups, head : Heads, row : Pos, col : Pos,
         mask : BOOLEAN, last : BOOLEAN]

\* The parameter checks of the initial block, and the width of the counters.
ASSUME FifoAssumption ==
    /\ TILE \in Nat \ {0}
    /\ DEPTH_TILES \in Nat /\ DEPTH_TILES >= 2
    /\ SEQ_LEN \in Nat \ {0} /\ SEQ_LEN % TILE = 0
    /\ Q_HEADS \in Nat \ {0} /\ GQA_GROUPS \in Nat \ {0}
    /\ CounterMod \in Nat /\ CounterMod > DEPTH_TILES
    /\ Inputs \subseteq Item

TILE_ITEMS == TILE * TILE
Elems == 0 .. TILE_ITEMS - 1
Ptrs  == 0 .. DEPTH_TILES - 1

Tag(item) == <<item.group, item.head, item.row, item.col>>
NoTag == <<>>                       \* an assembly register after reset
Tags  == Groups \X Heads \X Pos \X Pos

\* One position of a tile: its score and its mask bit.
Cell(item) == [score |-> Tag(item), mask |-> item.mask]
Cells == [score : Tags, mask : BOOLEAN]
Blank == [score |-> NoTag, mask |-> FALSE]

VARIABLES
    tile_mem,        \* tile_*_mem: the seven parallel memories, as records
    write_ptr, read_ptr, tile_count,
    assemble_count,  \* elements of the tile in progress
    assemble,        \* assemble_scores and assemble_masks
    assemble_at,     \* assemble_group, _head, _row_base and _col_base
    order_error,
    tiles_enqueued, tiles_dequeued

vars == <<tile_mem, write_ptr, read_ptr, tile_count, assemble_count, assemble,
          assemble_at, order_error, tiles_enqueued, tiles_dequeued>>

Places == [group : Groups, head : Heads, row : Pos, col : Pos]
Origin == [group |-> 0, head |-> 0, row |-> 0, col |-> 0]
Tiles  == [cells : [Elems -> Cells \cup {Blank}], at : Places, last : BOOLEAN]
NoTile == [cells |-> [e \in Elems |-> Blank], at |-> Origin, last |-> FALSE]
-----------------------------------------------------------------------------
next_ptr(ptr) == IF ptr = DEPTH_TILES - 1 THEN 0 ELSE ptr + 1

\* TILE divides SEQ_LEN, so neither sum below can leave the POS_W-bit range
\* when the tile in progress is aligned; a misaligned start is an error anyway.
Base(pos) == (pos \div TILE) * TILE
RowOffset(e) == e \div TILE
ColOffset(e) == e % TILE
expected_row == assemble_at.row + RowOffset(assemble_count)
expected_col == assemble_at.col + ColOffset(assemble_count)
expected_stream_last(item) ==
    item.head = Q_HEADS - 1 /\ item.row = SEQ_LEN - 1 /\ item.col = SEQ_LEN - 1

out_valid == tile_count # 0
dequeue_tile(out_ready) == out_valid /\ out_ready

\* Mutant: one tile too many may be started.
ReadyWhenFull(out_ready) == tile_count <= DEPTH_TILES

in_ready(out_ready) ==
    assemble_count # 0 \/ tile_count < DEPTH_TILES \/ dequeue_tile(out_ready)

\* Mutant: the column of the later elements is not checked.
ColumnUnchecked(item) ==
    /\ IF assemble_count = 0
       THEN item.row % TILE = 0 /\ item.col % TILE = 0
       ELSE /\ item.group = assemble_at.group
            /\ item.head = assemble_at.head
            /\ item.row = expected_row
    /\ item.last = expected_stream_last(item)

\* The checks the edge makes on an item that fires.
InOrder(item) ==
    /\ IF assemble_count = 0
       THEN item.row % TILE = 0 /\ item.col % TILE = 0
       ELSE /\ item.group = assemble_at.group
            /\ item.head = assemble_at.head
            /\ item.row = expected_row
            /\ item.col = expected_col
    /\ item.last = expected_stream_last(item)

PlaceOf(item) ==
    [group |-> item.group, head |-> item.head,
     row |-> Base(item.row), col |-> Base(item.col)]

\* The assembly registers are loaded by the first element of a tile.
assemble_at_next(item) ==
    IF assemble_count = 0 THEN PlaceOf(item) ELSE assemble_at

\* Mutant: the tile is written from the registers, without the element of the
\* same edge.
LastElementLost(item) ==
    IF assemble_count = TILE_ITEMS - 1 THEN assemble
    ELSE [assemble EXCEPT ![assemble_count] = Cell(item)]

assembled_next(item) == [assemble EXCEPT ![assemble_count] = Cell(item)]
-----------------------------------------------------------------------------
\* Reset and clear leave the memories alone: their contents are never shown
\* before they are written.
Init ==
    /\ tile_mem = [p \in Ptrs |-> NoTile]
    /\ write_ptr = 0 /\ read_ptr = 0 /\ tile_count = 0
    /\ assemble_count = 0
    /\ assemble = [e \in Elems |-> Blank]
    /\ assemble_at = Origin
    /\ order_error = FALSE
    /\ tiles_enqueued = 0 /\ tiles_dequeued = 0

Clear ==
    /\ write_ptr' = 0 /\ read_ptr' = 0 /\ tile_count' = 0
    /\ assemble_count' = 0
    /\ assemble' = [e \in Elems |-> Blank]
    /\ assemble_at' = Origin
    /\ order_error' = FALSE
    /\ tiles_enqueued' = 0 /\ tiles_dequeued' = 0
    /\ UNCHANGED tile_mem

\* The reading side of an edge.
ReadSide(out_ready) ==
    IF dequeue_tile(out_ready)
    THEN /\ read_ptr' = next_ptr(read_ptr)
         /\ tiles_dequeued' = (tiles_dequeued + 1) % CounterMod
    ELSE UNCHANGED <<read_ptr, tiles_dequeued>>

\* What an item that fires does to the tile's place and to the error flag.
CheckItem(item) ==
    /\ order_error' = (order_error \/ ~InOrder(item))
    /\ assemble_at' = assemble_at_next(item)

\* An element that does not complete its tile is added to it.
Assemble(item, out_ready) ==
    /\ in_ready(out_ready)
    /\ assemble_count # TILE_ITEMS - 1
    /\ CheckItem(item)
    /\ assemble' = assembled_next(item)
    /\ assemble_count' = assemble_count + 1
    /\ ReadSide(out_ready)
    /\ tile_count' = IF dequeue_tile(out_ready) THEN tile_count - 1 ELSE tile_count
    /\ UNCHANGED <<tile_mem, write_ptr, tiles_enqueued>>

\* The last element of a tile writes the whole tile into the memory.
Enqueue(item, out_ready) ==
    /\ in_ready(out_ready)
    /\ assemble_count = TILE_ITEMS - 1
    /\ CheckItem(item)
    /\ tile_mem' = [tile_mem EXCEPT ![write_ptr] =
                       [cells |-> assembled_next(item),
                        at |-> assemble_at_next(item), last |-> item.last]]
    /\ write_ptr' = next_ptr(write_ptr)
    /\ assemble_count' = 0
    /\ assemble' = [e \in Elems |-> Blank]
    /\ tiles_enqueued' = (tiles_enqueued + 1) % CounterMod
    /\ ReadSide(out_ready)
    /\ tile_count' = IF dequeue_tile(out_ready) THEN tile_count ELSE tile_count + 1

\* The consumer takes a tile at an edge where no item fires.
Dequeue ==
    /\ out_valid
    /\ ReadSide(TRUE)
    /\ tile_count' = tile_count - 1
    /\ UNCHANGED <<tile_mem, write_ptr, assemble_count, assemble, assemble_at,
                   order_error, tiles_enqueued>>

Next ==
    \/ Clear
    \/ \E item \in Inputs, out_ready \in BOOLEAN : Assemble(item, out_ready)
    \/ \E item \in Inputs, out_ready \in BOOLEAN : Enqueue(item, out_ready)
    \/ Dequeue

Spec == Init /\ [][Next]_vars
-----------------------------------------------------------------------------
\* Every register stays in the range its width and the parameters give it.
TypeOK ==
    /\ tile_mem \in [Ptrs -> Tiles]
    /\ write_ptr \in Ptrs
    /\ read_ptr \in Ptrs
    /\ tile_count \in 0 .. DEPTH_TILES
    /\ assemble_count \in Elems
    /\ assemble \in [Elems -> Cells \cup {Blank}]
    /\ assemble_at \in Places
    /\ order_error \in BOOLEAN
    /\ tiles_enqueued \in 0 .. CounterMod - 1
    /\ tiles_dequeued \in 0 .. CounterMod - 1

\* The i-th occupied entry counted from the read pointer.
SlotFrom(ptr, i) ==
    IF ptr + i < DEPTH_TILES THEN ptr + i ELSE ptr + i - DEPTH_TILES
Slot(i) == SlotFrom(read_ptr, i)

\* The entry the write pointer names is the first free one, and a tile in
\* progress has one reserved: the last element of a tile, which is accepted
\* whatever the occupancy, never overwrites a tile that was not read.
EntryReserved ==
    /\ tile_count < DEPTH_TILES => write_ptr = Slot(tile_count)
    /\ tile_count = DEPTH_TILES => write_ptr = read_ptr
    /\ assemble_count # 0 => tile_count < DEPTH_TILES

\* The element e of a tile placed at `at` is the score of row at.row + e/TILE
\* and column at.col + e%TILE.
TagAt(at, e) ==
    <<at.group, at.head, at.row + RowOffset(e), at.col + ColOffset(e)>>

WellPlaced(tile) == \A e \in Elems : tile.cells[e].score = TagAt(tile.at, e)

LastOfGroup(at) ==
    at.head = Q_HEADS - 1 /\ at.row + TILE = SEQ_LEN /\ at.col + TILE = SEQ_LEN

\* While order_error is low, every score waiting in the FIFO sits at the
\* position the consumer will read it from: the metadata taken from the first
\* element and the packing by arrival order agree.  And only the bottom right
\* tile of the last head is flagged as the last of its group.
StoredTilesWellPlaced ==
    ~order_error =>
        /\ \A i \in 0 .. tile_count - 1 :
               LET stored == tile_mem[Slot(i)]
               IN  WellPlaced(stored) /\ (stored.last <=> LastOfGroup(stored.at))
        /\ \A e \in 0 .. assemble_count - 1 :
               assemble[e].score = TagAt(assemble_at, e)
-----------------------------------------------------------------------------
\* The abstract queue: the occupied entries from the read pointer on, and the
\* elements assembled so far.
queueBar ==
    [i \in 1 .. tile_count |->
        [k \in 1 .. TILE_ITEMS |-> tile_mem[Slot(i - 1)].cells[k - 1]]]
partialBar == [k \in 1 .. assemble_count |-> assemble[k - 1]]

Queue == INSTANCE TileQueue WITH
    Element <- Cells, TileItems <- TILE_ITEMS, Depth <- DEPTH_TILES,
    queue <- queueBar, partial <- partialBar

\* The circular memory implements the bounded queue of whole tiles.
ImplementsQueue == Queue!QSpec
=============================================================================
