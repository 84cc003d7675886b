--------------------------- MODULE ContextFusion ---------------------------
(***************************************************************************)
(* The context backend: rtl/core/online/flash_context_fusion_backend.sv    *)
(* takes the softmax of one tile after another, reads the V vectors of its *)
(* keys from the cache (bf16_v_cache.sv) and has update elements           *)
(* (flash_context_update_pe.sv) form O' = alpha * O + W * V.  After the    *)
(* last tile of a row block dividers (unsigned_restoring_divider.sv) give  *)
(* 1/l, the same elements normalise O, and the context is emitted.         *)
(*                                                                         *)
(* Every step is one rising clock edge: with or without in_valid or        *)
(* context_ready where they matter, and with any of the handshakes ip the  *)
(* floating-point cores can make.  The elements of one row run in step.    *)
(*                                                                         *)
(* Numbers are symbols.  The tiles of a run are numbered; a weight, a      *)
(* factor alpha and a denominator l are those of their tile.  A value of O *)
(* is the sequence of products added up, the tile whose maximum they are   *)
(* relative to and the tile whose denominator they are divided by.  V      *)
(* holds at every address that address.                                    *)
(***************************************************************************)
EXTENDS ContextWords, Sequences

CONSTANTS
    TILE, V_LANES, SEQ_LEN, Q_HEADS, GQA_GROUPS,
    NUM_W,    \* steps of a division, 46 in the hardware
    Causal    \* whether keys above the diagonal are masked

\* The parameter checks of the initial blocks.
ASSUME FusionAssumption ==
    /\ {TILE, V_LANES, SEQ_LEN, HEAD_DIM, Q_HEADS, GQA_GROUPS, NUM_W} \subseteq Nat \ {0}
    /\ HEAD_DIM % V_LANES = 0 /\ SEQ_LEN % TILE = 0
    /\ Causal \in BOOLEAN

Rows == 0 .. TILE - 1
Keys == 0 .. TILE - 1
VLanes == 0 .. V_LANES - 1
FEATURE_CHUNKS == HEAD_DIM \div V_LANES
Chunks == 0 .. FEATURE_CHUNKS - 1
CONTEXT_ITEMS == TILE * HEAD_DIM

VARIABLES
    state, tile_reg,             \* the tile in work
    feature_chunk, key_index, emit_index,
    v_tile_reg,                  \* by key and lane
    o_state,                     \* by row, lane and chunk
    row_recip                    \* by row

VARIABLES
    pe,                          \* by row
    div,                         \* by row: [busy, count, done, quotient]
    rsp_valid, rsp_data          \* the V cache

VARIABLES given, emitted         \* history: tiles taken, words emitted

backendVars == <<state, tile_reg, feature_chunk, key_index, emit_index, v_tile_reg,
                 o_state, row_recip>>
fusionVars == <<backendVars, pe, div, rsp_valid, rsp_data, given, emitted>>
-----------------------------------------------------------------------------
\* The softmax hands over the tiles of a run in order: column by column, row
\* block by row block, head by head, group by group.
RowTiles == SEQ_LEN \div TILE
TOTAL_TILES == GQA_GROUPS * Q_HEADS * RowTiles * RowTiles

Tile(n) ==
    LET col == (n % RowTiles) * TILE
        row == ((n \div RowTiles) % RowTiles) * TILE
        head == (n \div (RowTiles * RowTiles)) % Q_HEADS
    IN  [number |-> n, group |-> n \div (Q_HEADS * RowTiles * RowTiles), head |-> head,
         row_base |-> row, col_base |-> col,
         row_tile_last |-> col = SEQ_LEN - TILE,
         group_last |-> (n + 1) % (Q_HEADS * RowTiles * RowTiles) = 0,
         masked |-> [r \in Rows |-> [k \in Keys |-> Causal /\ col + k > row + r]]]

\* Numbers.  A factor alpha rescales what is relative to the tile before, and
\* is 0 for the first tile of a row block; 0 times no number is no number.
None == -1
Zero == [terms |-> <<>>, relative |-> None, over |-> None]
Wrong == [terms |-> <<>>, relative |-> -2, over |-> None]

Rescaled(t, o) ==
    IF t.col_base = 0 /\ o # Wrong THEN Zero
    ELSE IF o.relative = t.number - 1 /\ o.over = None THEN [o EXCEPT !.relative = t.number]
    ELSE Wrong
Divided(recip, o) == [o EXCEPT !.over = recip]
Weighted(t, r, k, v) ==
    IF t.masked[r][k] THEN Zero
    ELSE [terms |-> <<<<t.col_base + k, v>>>>, relative |-> t.number, over |-> None]
Plus(a, b) ==
    IF a = Zero THEN b
    ELSE IF b = Zero THEN a
    ELSE IF a.relative = b.relative THEN [a EXCEPT !.terms = @ \o b.terms]
    ELSE Wrong
-----------------------------------------------------------------------------
\* The update elements of a row.  What an idle element holds is not kept.

IdlePe == [state |-> "IDLE", normalize |-> FALSE, tile |-> Tile(0), recip |-> None,
           old_o |-> [l \in VLanes |-> Zero],
           values |-> [k \in Keys |-> [l \in VLanes |-> None]],
           send |-> 0,                      \* mul_send_index
           recv |-> 0,                      \* mul_recv_index
           a_valid |-> FALSE, b_valid |-> FALSE,
           add |-> 0,                       \* add_product_index
           result |-> [l \in VLanes |-> Zero]]

all_pe_ready == \A r \in Rows : pe[r].state = "IDLE"
all_results_valid == \A r \in Rows : pe[r].state = "OUTPUT"
pe_start == state \in {"UPDATE_START", "NORM_START"} /\ all_pe_ready
\* Mutant: a result is taken as soon as it is there.
ResultReadyAlone == state \in {"UPDATE_WAIT", "NORM_WAIT"}
pe_result_ready == all_results_valid /\ state \in {"UPDATE_WAIT", "NORM_WAIT"}

Product(r, n, l) ==
    LET p == pe[r]
    IN  IF n > 0 THEN Weighted(p.tile, r, n - 1, p.values[n - 1][l])
        ELSE IF p.normalize THEN Divided(p.recip, p.old_o[l])
        ELSE Rescaled(p.tile, p.old_o[l])
Products(r, n) == [l \in VLanes |-> Product(r, n, l)]

\* Mutant: the memory of O is read in the first tile as well.
OldAlways(r) == [l \in VLanes |-> o_state[r][l][feature_chunk]]

\* The memory of O, which nothing initialises, is not looked at in the first
\* tile of a row block.
selected_old_o(r) ==
    [l \in VLanes |-> IF state = "UPDATE_START" /\ tile_reg.col_base = 0 THEN Zero
                     ELSE o_state[r][l][feature_chunk]]

StartedPe(r) ==
    [IdlePe EXCEPT !.state = "MUL_STREAM", !.normalize = (state = "NORM_START"),
                   !.tile = tile_reg, !.recip = row_recip[r],
                   !.old_o = selected_old_o(r), !.values = v_tile_reg,
                   !.a_valid = TRUE, !.b_valid = TRUE]

\* A core takes its operands through two independent channels.
Taken(r, ip) ==
    [pe[r] EXCEPT !.a_valid = @ /\ <<r, "a">> \notin ip, !.b_valid = @ /\ <<r, "b">> \notin ip]
Accepted(valid, p) == IF valid THEN p.send ELSE p.send + 1
product_arrives(r, ip) ==
    <<r, "result">> \in ip /\ pe[r].recv < Accepted(pe[r].a_valid, pe[r])
                    /\ pe[r].recv < Accepted(pe[r].b_valid, pe[r])

\* The next operands go out when both channels have taken the last ones.
NextOperands(r, ip) ==
    LET p == Taken(r, ip)
    IN  IF ~p.a_valid /\ ~p.b_valid /\ ~p.normalize /\ p.send < TILE
        THEN [p EXCEPT !.send = @ + 1, !.a_valid = TRUE, !.b_valid = TRUE] ELSE p

MulStream(r, ip) ==
    LET p == NextOperands(r, ip)
    IN  IF ~product_arrives(r, ip) THEN p
        ELSE IF p.normalize THEN [p EXCEPT !.state = "OUTPUT", !.result = Products(r, 0)]
        ELSE IF p.recv = TILE
        THEN [p EXCEPT !.state = "ADD_SEND", !.add = 1, !.result = Products(r, 0),
                       !.a_valid = TRUE, !.b_valid = TRUE]
        ELSE [p EXCEPT !.recv = @ + 1]

AddSend(r, ip) ==
    LET p == Taken(r, ip)
    IN  IF p.a_valid \/ p.b_valid THEN p ELSE [p EXCEPT !.state = "ADD_WAIT"]

AddWait(r, ip) ==
    LET p == pe[r]
        sum == [l \in VLanes |-> Plus(p.result[l], Products(r, p.add)[l])]
    IN  IF <<r, "result">> \notin ip THEN p
        ELSE IF p.add = TILE THEN [p EXCEPT !.state = "OUTPUT", !.result = sum]
        ELSE [p EXCEPT !.state = "ADD_SEND", !.add = @ + 1, !.result = sum,
                       !.a_valid = TRUE, !.b_valid = TRUE]

PeNext(r, ip) ==
    CASE pe[r].state = "IDLE" -> IF pe_start THEN StartedPe(r) ELSE pe[r]
      [] pe[r].state = "MUL_STREAM" -> MulStream(r, ip)
      [] pe[r].state = "ADD_SEND" -> AddSend(r, ip)
      [] pe[r].state = "ADD_WAIT" -> AddWait(r, ip)
      [] pe[r].state = "OUTPUT" -> IF pe_result_ready THEN IdlePe ELSE pe[r]
PeStep(ip) == pe' = [r \in Rows |-> PeNext(r, ip)]
-----------------------------------------------------------------------------
\* The dividers.  Every row that gets here has a denominator.
NoDivision == [busy |-> FALSE, count |-> 0, done |-> FALSE, quotient |-> None]

DivNext(r) ==
    IF state = "DIV_START" /\ ~div[r].busy
    THEN [div[r] EXCEPT !.busy = TRUE, !.count = 0, !.done = FALSE]
    ELSE IF ~div[r].busy THEN [div[r] EXCEPT !.done = FALSE]
    ELSE IF div[r].count = NUM_W - 1
    THEN [div[r] EXCEPT !.busy = FALSE, !.done = TRUE, !.quotient = tile_reg.number]
    ELSE [div[r] EXCEPT !.count = @ + 1]
DivStep == div' = [r \in Rows |-> DivNext(r)]

all_div_complete == \A r \in Rows : div[r].done
-----------------------------------------------------------------------------
\* The V cache: one registered read.
v_req_addr ==
    (tile_reg.group * SEQ_LEN * HEAD_DIM)
        + (tile_reg.col_base + key_index) * HEAD_DIM + feature_chunk * V_LANES
v_req_valid == state = "V_REQ"
v_rsp_ready == state = "V_RSP"
v_req_ready == ~rsp_valid \/ v_rsp_ready

CacheStep ==
    IF v_req_valid /\ v_req_ready
    THEN rsp_valid' = TRUE /\ rsp_data' = [l \in VLanes |-> v_req_addr + l]
    ELSE rsp_valid' = (rsp_valid /\ ~v_rsp_ready) /\ UNCHANGED rsp_data
-----------------------------------------------------------------------------
NoValues == [k \in Keys |-> [l \in VLanes |-> None]]

\* An edge with in_valid, and one without.
TakeTile ==
    /\ state = "IDLE" /\ given < TOTAL_TILES
    /\ tile_reg' = Tile(given) /\ given' = given + 1
    /\ feature_chunk' = 0 /\ key_index' = 0 /\ v_tile_reg' = NoValues
    /\ state' = "V_REQ"
    /\ UNCHANGED <<emit_index, o_state, row_recip, emitted>>

VReq ==
    /\ state = "V_REQ"
    /\ state' = IF v_req_ready THEN "V_RSP" ELSE state
    /\ UNCHANGED <<tile_reg, feature_chunk, key_index, emit_index, v_tile_reg, o_state,
                   row_recip, given, emitted>>

VRsp ==
    /\ state = "V_RSP"
    /\ IF rsp_valid
       THEN /\ v_tile_reg' = [v_tile_reg EXCEPT ![key_index] = rsp_data]
            /\ IF key_index = TILE - 1
               THEN state' = "UPDATE_START" /\ UNCHANGED key_index
               ELSE state' = "V_REQ" /\ key_index' = key_index + 1
       ELSE UNCHANGED <<v_tile_reg, state, key_index>>
    /\ UNCHANGED <<tile_reg, feature_chunk, emit_index, o_state, row_recip, given, emitted>>

\* UPDATE_START and NORM_START.
StartElements ==
    /\ state \in {"UPDATE_START", "NORM_START"}
    /\ state' = IF ~all_pe_ready THEN state
               ELSE IF state = "UPDATE_START" THEN "UPDATE_WAIT" ELSE "NORM_WAIT"
    /\ UNCHANGED <<tile_reg, feature_chunk, key_index, emit_index, v_tile_reg, o_state,
                   row_recip, given, emitted>>

StoreResults ==
    o_state' = [r \in Rows |-> [l \in VLanes |->
                   [o_state[r][l] EXCEPT ![feature_chunk] = pe[r].result[l]]]]
last_chunk == feature_chunk = FEATURE_CHUNKS - 1

Update ==
    /\ state = "UPDATE_WAIT" /\ all_results_valid
    /\ StoreResults
    /\ IF last_chunk
       THEN /\ state' = IF tile_reg.row_tile_last THEN "DIV_START" ELSE "IDLE"
            /\ UNCHANGED <<feature_chunk, key_index, v_tile_reg>>
       ELSE /\ feature_chunk' = feature_chunk + 1 /\ key_index' = 0
            /\ v_tile_reg' = NoValues /\ state' = "V_REQ"
    /\ UNCHANGED <<tile_reg, emit_index, row_recip, given, emitted>>

DivStart ==
    /\ state = "DIV_START" /\ state' = "DIV_WAIT"
    /\ UNCHANGED <<tile_reg, feature_chunk, key_index, emit_index, v_tile_reg, o_state,
                   row_recip, given, emitted>>

DivDone ==
    /\ state = "DIV_WAIT" /\ all_div_complete
    /\ row_recip' = [r \in Rows |-> div[r].quotient]
    /\ feature_chunk' = 0 /\ state' = "NORM_START"
    /\ UNCHANGED <<tile_reg, key_index, emit_index, v_tile_reg, o_state, given, emitted>>

Normalize ==
    /\ state = "NORM_WAIT" /\ all_results_valid
    /\ StoreResults
    /\ IF last_chunk
       THEN emit_index' = 0 /\ state' = "CONTEXT_OUT" /\ UNCHANGED feature_chunk
       ELSE feature_chunk' = feature_chunk + 1 /\ state' = "NORM_START" /\ UNCHANGED emit_index
    /\ UNCHANGED <<tile_reg, key_index, v_tile_reg, row_recip, given, emitted>>

ContextOut ==
    /\ state = "CONTEXT_OUT"
    /\ emitted' = emitted + 1
    /\ IF emit_index = CONTEXT_ITEMS - 1
       THEN state' = "IDLE" /\ UNCHANGED emit_index
       ELSE emit_index' = emit_index + 1 /\ UNCHANGED state
    /\ UNCHANGED <<tile_reg, feature_chunk, key_index, v_tile_reg, o_state, row_recip, given>>

\* UPDATE_WAIT, DIV_WAIT and NORM_WAIT without their event, IDLE without
\* in_valid and CONTEXT_OUT without context_ready.
Waiting ==
    \/ state \in {"UPDATE_WAIT", "NORM_WAIT"} /\ ~all_results_valid
    \/ state = "DIV_WAIT" /\ ~all_div_complete
Unoffered == state \in {"IDLE", "CONTEXT_OUT"}
BackendWaits == (Waiting \/ Unoffered) /\ UNCHANGED <<backendVars, given, emitted>>

Work ==
    \/ TakeTile \/ VReq \/ VRsp \/ StartElements \/ Update
    \/ DivStart \/ DivDone \/ Normalize \/ ContextOut
FusionEdge(ip) == (Work \/ BackendWaits) /\ PeStep(ip) /\ DivStep /\ CacheStep

\* The pulse at the start of a run, which GroupSequence shows to find the core
\* at rest.  The memory of O, the dividers and the cache are not cleared.
Clear ==
    /\ state = "IDLE" /\ given = TOTAL_TILES
    /\ tile_reg' = Tile(0) /\ feature_chunk' = 0 /\ key_index' = 0 /\ emit_index' = 0
    /\ v_tile_reg' = NoValues /\ row_recip' = [r \in Rows |-> None]
    /\ pe' = [r \in Rows |-> IdlePe]
    /\ given' = 0 /\ emitted' = 0
    /\ DivStep /\ CacheStep
    /\ UNCHANGED <<state, o_state>>

FusionInit ==
    /\ state = "IDLE" /\ tile_reg = Tile(0)
    /\ feature_chunk = 0 /\ key_index = 0 /\ emit_index = 0
    /\ v_tile_reg = NoValues /\ row_recip = [r \in Rows |-> None]
    /\ o_state = [r \in Rows |-> [l \in VLanes |-> [c \in Chunks |-> Wrong]]]
    /\ pe = [r \in Rows |-> IdlePe]
    /\ div = [r \in Rows |-> NoDivision]
    /\ rsp_valid = FALSE /\ rsp_data = [l \in VLanes |-> None]
    /\ given = 0 /\ emitted = 0

\* The handshakes the floating-point cores can make, by row and channel.
Handshakes ==
    {<<r, "a">> : r \in {q \in Rows : pe[q].a_valid}}
    \cup {<<r, "b">> : r \in {q \in Rows : pe[q].b_valid}}
    \cup {<<r, "result">> : r \in {q \in Rows : pe[q].state \in {"MUL_STREAM", "ADD_WAIT"}}}

FusionNext == (\E ip \in SUBSET Handshakes : FusionEdge(ip)) \/ Clear

FusionSpec == FusionInit /\ [][FusionNext]_fusionVars

\* The cores of a row accept and deliver, and the writer is ready, again and
\* again.
CoreWorks(r) ==
    \E ip \in SUBSET Handshakes :
        {h \in Handshakes : h[1] = r} \subseteq ip /\ FusionEdge(ip)
WordTaken ==
    \E ip \in SUBSET Handshakes :
        (state = "CONTEXT_OUT" => ContextOut) /\ FusionEdge(ip)
FusionFairSpec ==
    FusionSpec /\ WF_fusionVars(WordTaken) /\ \A r \in Rows : WF_fusionVars(CoreWorks(r))
-----------------------------------------------------------------------------
\* The word on offer, the next one in the order of groups, heads, rows and
\* columns, is the attention of its row: the sum of the V elements of exactly
\* the keys that are not masked, in the order of the keys, all relative to the
\* maximum of the whole row and divided by the denominator of the whole row.
context_data == o_state[Row(emit_index)][emit_index % V_LANES][Col(emit_index) \div V_LANES]
context_row == tile_reg.row_base + Row(emit_index)
context_col == Col(emit_index)
context_last == tile_reg.group_last /\ emit_index = CONTEXT_ITEMS - 1

Attention(group, row, col, last) ==
    [terms |-> [i \in 1 .. (IF Causal THEN row + 1 ELSE SEQ_LEN) |->
                   <<i - 1, (group * SEQ_LEN + i - 1) * HEAD_DIM + col>>],
     relative |-> last, over |-> last]

ContextIsAttention ==
    state = "CONTEXT_OUT" =>
        /\ tile_reg.row_tile_last
        /\ emitted = ((tile_reg.group * Q_HEADS + tile_reg.head) * SEQ_LEN + context_row)
                         * HEAD_DIM + context_col
        /\ context_last = ((emitted + 1) % (Q_HEADS * SEQ_LEN * HEAD_DIM) = 0)
        /\ context_data = Attention(tile_reg.group, context_row, context_col, tile_reg.number)

\* Every tile that is taken is finished and the backend is ready for the next,
\* whatever the order in which the elements of the rows end.
TilesConsumed == (state # "IDLE") ~> (state = "IDLE")
=============================================================================
