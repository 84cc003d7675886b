----------------------------- MODULE ScorePath -----------------------------
(***************************************************************************)
(* The scores on their way from the QK array to the online softmax, as     *)
(* rtl/core/online/qk_flash_attention_pipeline_top.sv wires them: the      *)
(* array (QkArray, every register of it) feeds the tile FIFO               *)
(* (ScoreTileFifo) through a valid/ready handshake, one GQA group after    *)
(* the other.  The softmax takes a tile whenever it likes.                 *)
(*                                                                         *)
(* Every step is one rising clock edge of both.                            *)
(***************************************************************************)
EXTENDS QkArray

CONSTANTS DEPTH_TILES, GQA_GROUPS, CounterMod, Inputs

\* The parameter checks of the FIFO; the array is its only producer.
ASSUME PathAssumption ==
    /\ DEPTH_TILES \in Nat /\ DEPTH_TILES >= 2 /\ GQA_GROUPS \in Nat \ {0}
    /\ CounterMod \in Nat /\ CounterMod > DEPTH_TILES /\ Inputs = {}

\* The registers of the FIFO, see ScoreTileFifo.
VARIABLES
    tile_mem, write_ptr, read_ptr, tile_count, assemble_count, assemble,
    assemble_at, order_error, tiles_enqueued, tiles_dequeued

VARIABLES
    group_id_reg,
    taken         \* history: tiles taken since the launch

Fifo == INSTANCE ScoreTileFifo

fifoVars == <<tile_mem, write_ptr, read_ptr, tile_count, assemble_count,
              assemble, assemble_at, order_error, tiles_enqueued, tiles_dequeued>>
pathVars == <<vars, fifoVars, group_id_reg, taken>>

\* Mutant: the diagonal itself is masked.
MaskDiagonal(s) == causal_en /\ s.col >= s.row
score_mask(s) == causal_en /\ s.col > s.row

\* The score the array offers, as the pipeline top presents it to the FIFO.
OfferedItem ==
    LET s == score_out
    IN  [group |-> group_id_reg, head |-> s.head, row |-> s.row, col |-> s.col,
         mask |-> score_mask(s), last |-> s.last]

\* The consumer is busy as long as anything is in the FIFO; the softmax and the
\* backend, which may hold the last tiles longer, only delay a launch further.
consumer_busy == assemble_count # 0 \/ tile_count # 0
qk_busy == state # "IDLE"
group_start_ready == ~qk_busy /\ ~consumer_busy
-----------------------------------------------------------------------------
PathInit ==
    /\ Init
    /\ Fifo!Init
    /\ group_id_reg = 0
    /\ taken = 0

\* A new run clears the consumer; the array is idle then.
NewRun ==
    /\ group_start_ready
    /\ Fifo!Clear
    /\ Edge(FALSE, Fifo!in_ready(FALSE), {})
    /\ group_id_reg' = 0
    /\ UNCHANGED taken

StartGroup(group_id) ==
    /\ group_start_ready
    /\ Edge(TRUE, Fifo!in_ready(FALSE), {})
    /\ group_id_reg' = group_id
    /\ taken' = 0
    /\ UNCHANGED fifoVars

\* The array goes on, and whatever it hands over at this edge is taken in.
ArrayEdge(out_ready, ended) ==
    /\ Edge(FALSE, Fifo!in_ready(out_ready), ended)
    /\ taken' = IF Fifo!dequeue_tile(out_ready) THEN taken + 1 ELSE taken
    /\ UNCHANGED group_id_reg

Transfer(out_ready, ended) ==
    /\ Fire(Fifo!in_ready(out_ready))
    /\ Fifo!Assemble(OfferedItem, out_ready) \/ Fifo!Enqueue(OfferedItem, out_ready)
    /\ ArrayEdge(out_ready, ended)

\* The softmax takes a tile at an edge where no score is handed over.
TakeTile(ended) ==
    /\ ~Fire(Fifo!in_ready(TRUE))
    /\ Fifo!Dequeue
    /\ ArrayEdge(TRUE, ended)

ArrayAlone(out_ready, ended) ==
    /\ ~Fire(Fifo!in_ready(out_ready)) /\ ~Fifo!dequeue_tile(out_ready)
    /\ ArrayEdge(out_ready, ended)
    /\ UNCHANGED fifoVars

RunningEdge(out_ready, ended) ==
    \/ Transfer(out_ready, ended)
    \/ out_ready /\ TakeTile(ended)
    \/ ArrayAlone(out_ready, ended)

PathNext ==
    \/ NewRun
    \/ \E group_id \in Fifo!Groups : StartGroup(group_id)
    \/ \E out_ready \in BOOLEAN, ended \in SUBSET WorkingLanes :
           RunningEdge(out_ready, ended)

\* The clock runs, the work of every lane ends, and the softmax comes back for
\* every tile.
WorkEnds(lane) ==
    \E out_ready \in BOOLEAN, ended \in SUBSET WorkingLanes :
        lane \in ended /\ RunningEdge(out_ready, ended)
TileIsTaken ==
    Fifo!out_valid /\ \E ended \in SUBSET WorkingLanes : RunningEdge(TRUE, ended)

PathSpec ==
    /\ PathInit /\ [][PathNext]_pathVars
    /\ WF_pathVars(\E out_ready \in BOOLEAN, ended \in SUBSET WorkingLanes :
                       RunningEdge(out_ready, ended))
    /\ WF_pathVars(TileIsTaken)
    /\ \A lane \in Lanes : WF_pathVars(WorkEnds(lane))
-----------------------------------------------------------------------------
\* The tiles reach the softmax complete, in order and of the group launched:
\* whatever it takes next is the tile after the one it took last, and it waits
\* for none that was already sent.  The order the array sends in is the order
\* the FIFO expects, at every boundary between tiles, rows of tiles, heads and
\* groups, so the checker of the FIFO never fires.
RowTiles == SEQ_LEN \div TILE
TilesPerHead == RowTiles * RowTiles
PlaceOfTile(k) ==
    [group |-> group_id_reg, head |-> k \div TilesPerHead,
     row |-> ((k % TilesPerHead) \div RowTiles) * TILE,
     col |-> (k % RowTiles) * TILE]
TilesInSequence ==
    /\ ~order_error
    /\ \A i \in 0 .. tile_count - 1 :
           LET entry == tile_mem[Fifo!Slot(i)]
           IN  /\ entry.at = PlaceOfTile(taken + i)
               /\ \A e \in Fifo!Elems :
                      entry.cells[e].mask <=>
                          causal_en /\ entry.at.col + Fifo!ColOffset(e) > entry.at.row + Fifo!RowOffset(e)
    /\ (taken + tile_count) * Fifo!TILE_ITEMS + assemble_count = sent

\* Every launched group is taken to its last tile, whatever the order in which
\* the lanes finish.
GroupDrains == qk_busy ~> group_start_ready
=============================================================================
