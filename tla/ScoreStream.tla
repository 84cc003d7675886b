---------------------------- MODULE ScoreStream ----------------------------
(***************************************************************************)
(* What the QK array promises to whatever takes its scores, and what the   *)
(* header of rtl/core/bc/qk/qk_parallel_systolic_gqa_top.sv calls the      *)
(* exact legacy order: one launch yields every score of the group once, in *)
(* the order head, row tile, column tile, row, column, however many lanes  *)
(* compute them and whatever the taker's pace.  A score of a tile wholly   *)
(* above the causal diagonal is the mask value when such tiles are         *)
(* skipped; any other is the product of the row's and the column's vectors *)
(* over all dimensions.                                                    *)
(***************************************************************************)
EXTENDS Integers, Sequences

CONSTANTS TILE, SEQ_LEN, HEAD_DIM, Q_HEADS, CAUSAL_TILE_SKIP

VARIABLES
    causal_en, \* a static input
    active,    \* a launch is in progress
    sent,      \* scores sent by the current or the last launch
    score      \* the last score sent

streamVars == <<causal_en, active, sent, score>>

TileItems == TILE * TILE
RowTiles == SEQ_LEN \div TILE
HeadItems == SEQ_LEN * SEQ_LEN
Total == Q_HEADS * HeadItems

\* The n-th score (from 0) in the legacy order.
HeadOf(n) == n \div HeadItems
TileOf(n) == (n % HeadItems) \div TileItems     \* within its head
RowBase(n) == (TileOf(n) \div RowTiles) * TILE
ColBase(n) == (TileOf(n) % RowTiles) * TILE
RowOf(n) == RowBase(n) + (n % TileItems) \div TILE
ColOf(n) == ColBase(n) + ((n % TileItems) % TILE)

\* The vectors whose products a tile's scores accumulate, in order.
Vector(head, row, col, dim) == [head |-> head, row |-> row, col |-> col, dim |-> dim]
Vectors(head, row, col) == [d \in 1 .. HEAD_DIM |-> Vector(head, row, col, d - 1)]

Skipped(row, col) == CAUSAL_TILE_SKIP /\ causal_en /\ col > row

ScoreAt(n) ==
    [head |-> HeadOf(n), row |-> RowOf(n), col |-> ColOf(n),
     last |-> n = Total - 1,
     from |-> IF Skipped(RowBase(n), ColBase(n)) THEN <<>>
              ELSE Vectors(HeadOf(n), RowBase(n), ColBase(n))]
-----------------------------------------------------------------------------
NoScore == [head |-> 0, row |-> 0, col |-> 0, last |-> FALSE, from |-> <<>>]

StreamInit ==
    /\ causal_en \in BOOLEAN
    /\ active = FALSE
    /\ sent = 0
    /\ score = NoScore

Launch ==
    /\ ~active
    /\ active' = TRUE
    /\ sent' = 0
    /\ score' = NoScore
    /\ UNCHANGED causal_en

Send ==
    /\ active
    /\ score' = ScoreAt(sent)
    /\ sent' = sent + 1
    /\ active' = (sent' # Total)
    /\ UNCHANGED causal_en

StreamNext == Launch \/ Send

StreamSpec == StreamInit /\ [][StreamNext]_streamVars
=============================================================================
