------------------------------ MODULE QkArray ------------------------------
(***************************************************************************)
(* The QK array: rtl/core/bc/qk/qk_parallel_systolic_gqa_top.sv schedules  *)
(* QK_LANES systolic tiles (qk_systolic_tile.sv) that share one registered *)
(* read channel of the rotated Q/K cache (rope_qk_group_cache.sv), and     *)
(* merges their results.                                                   *)
(*                                                                         *)
(* Every step is one rising clock edge.  Its inputs are start, score_ready *)
(* and the set of lanes whose floating-point work (a MAC step, the flush,  *)
(* the scaling of a result) ends at that edge.  A vector is abstracted to  *)
(* the request it answers, a sum of products to the sequence of vectors    *)
(* that were accumulated.                                                  *)
(***************************************************************************)
EXTENDS Integers, Sequences

CONSTANTS
    TILE, QK_LANES, SEQ_LEN, HEAD_DIM, Q_HEADS, CAUSAL_TILE_SKIP,
    DimMod   \* modulus of lane_feed_count, 2^DIM_W: HEAD_DIM rounded up

\* The parameter checks of the initial block.
ASSUME QkAssumption ==
    /\ TILE \in Nat \ {0} /\ QK_LANES \in {1, 2, 4, 8}
    /\ SEQ_LEN \in Nat \ {0} /\ SEQ_LEN % TILE = 0
    /\ HEAD_DIM \in Nat \ {0} /\ Q_HEADS \in Nat \ {0}
    /\ CAUSAL_TILE_SKIP \in BOOLEAN
    /\ DimMod \in Nat /\ DimMod >= HEAD_DIM

Lanes == 0 .. QK_LANES - 1
PAIR_SPAN == QK_LANES * TILE
RESULT_N == TILE * TILE

VARIABLES
    state, head_reg, row_base_reg, pair_col_base_reg,
    tile_start,            \* per lane
    lane_feed_count,       \* per lane: vectors handed to the lane's tile
    request_pending, request_owner, round_robin_lane,
    emit_lane, skip_result_index,
    causal_skip_error, done,
    causal_en              \* input, static

VARIABLES
    tile,                         \* per lane: [phase, fed, index]
    vec_valid, read_pending, vec  \* the read channel of the cache

VARIABLES sent, score             \* history: scores sent and the last one

schedVars == <<state, head_reg, row_base_reg, pair_col_base_reg, tile_start,
    lane_feed_count, request_pending, request_owner, round_robin_lane,
    emit_lane, skip_result_index, causal_skip_error, done, causal_en>>
vars == <<schedVars, tile, vec_valid, read_pending, vec, sent, score>>

Stream == INSTANCE ScoreStream WITH active <- state # "IDLE"
-----------------------------------------------------------------------------
lane_col(l) == pair_col_base_reg + l * TILE
lane_active(l) == lane_col(l) < SEQ_LEN

lane_skip(l) ==
    lane_active(l) /\ CAUSAL_TILE_SKIP /\ causal_en /\ lane_col(l) > row_base_reg

tile_in_ready(l) == tile[l].phase = "WAIT_INPUT" /\ Len(tile[l].fed) < HEAD_DIM

lane_needs_vector(l) ==
    /\ state = "RUN" /\ lane_active(l) /\ ~lane_skip(l)
    /\ tile_in_ready(l)
    /\ lane_feed_count[l] < HEAD_DIM

arb_valid == \E l \in Lanes : lane_needs_vector(l)

\* Round robin: the first lane in need, from round_robin_lane on.
Distance(l) == (l + QK_LANES - round_robin_lane) % QK_LANES
arb_lane ==
    IF arb_valid
    THEN CHOOSE l \in Lanes :
             /\ lane_needs_vector(l)
             /\ \A m \in Lanes : lane_needs_vector(m) => Distance(l) <= Distance(m)
    ELSE 0

\* Mutant: whose request is outstanding is not remembered.
OwnerIsArbiter == arb_lane

data_owner == IF request_pending THEN request_owner ELSE arb_lane
vec_ready ==
    state = "RUN" /\ IF request_pending THEN tile_in_ready(request_owner) ELSE arb_valid

\* req_head, req_row_base, req_col_base and req_dim.
request == [head |-> head_reg, row |-> row_base_reg,
            col |-> lane_col(data_owner), dim |-> lane_feed_count[data_owner]]
delivered == vec_valid /\ vec_ready
-----------------------------------------------------------------------------
\* rope_qk_group_cache: a request is registered, read, and held until taken.
load_request == ~vec_valid /\ ~read_pending /\ vec_ready

CacheStep ==
    /\ vec' = IF load_request THEN request ELSE vec
    /\ read_pending' = load_request
    /\ vec_valid' = (read_pending \/ (vec_valid /\ ~vec_ready))

\* The score on the output port.
selected_skip == lane_skip(emit_lane)
selected_index ==
    IF selected_skip THEN skip_result_index[emit_lane] ELSE tile[emit_lane].index
selected_last == selected_index = RESULT_N - 1
score_valid ==
    /\ state = "RUN" /\ lane_active(emit_lane)
    /\ selected_skip \/ tile[emit_lane].phase = "OUT"
score_row == row_base_reg + selected_index \div TILE
\* Mutant: the lane's offset is missing from the column.
ColWithoutLane == pair_col_base_reg + (selected_index % TILE)

score_col == lane_col(emit_lane) + (selected_index % TILE)
score_last ==
    head_reg = Q_HEADS - 1 /\ score_row = SEQ_LEN - 1 /\ score_col = SEQ_LEN - 1
score_out ==
    [head |-> head_reg, row |-> score_row, col |-> score_col, last |-> score_last,
     from |-> IF selected_skip THEN <<>> ELSE tile[emit_lane].fed]

tile_out_ready(l, score_ready) ==
    state = "RUN" /\ ~selected_skip /\ lane_active(l) /\ l = emit_lane /\ score_ready

\* qk_systolic_tile.  MAC stands for SHIFT, ISSUE and WAIT_PE; FLUSH for the
\* flush steps and WAIT_RESULTS; SCALE for SEND_RESULT and the scaler; OUT is
\* WAIT_SCALER with a result.
Phases == {"IDLE", "CLEAR", "WAIT_INPUT", "MAC", "FLUSH", "SCALE", "OUT"}
Working == {"MAC", "FLUSH", "SCALE"}
Worked(phase) == CASE phase = "MAC" -> "WAIT_INPUT"
                   [] phase = "FLUSH" -> "SCALE"
                   [] phase = "SCALE" -> "OUT"

TileNext(l, score_ready, ended) ==
    LET t == tile[l] IN
    CASE t.phase = "IDLE" ->
            IF tile_start[l] THEN [phase |-> "CLEAR", fed |-> <<>>, index |-> 0] ELSE t
      [] t.phase = "CLEAR" -> [t EXCEPT !.phase = "WAIT_INPUT"]
      [] t.phase = "WAIT_INPUT" ->
            IF Len(t.fed) = HEAD_DIM THEN [t EXCEPT !.phase = "FLUSH"]
            ELSE IF delivered /\ data_owner = l
            THEN [t EXCEPT !.phase = "MAC", !.fed = Append(@, vec)] ELSE t
      [] t.phase \in Working ->
            IF l \in ended THEN [t EXCEPT !.phase = Worked(@)] ELSE t
      [] t.phase = "OUT" ->
            IF ~tile_out_ready(l, score_ready) THEN t
            ELSE IF t.index = RESULT_N - 1 THEN [t EXCEPT !.phase = "IDLE"]
            ELSE [t EXCEPT !.phase = "SCALE", !.index = @ + 1]

WorkingLanes == {l \in Lanes : tile[l].phase \in Working}

TilesStep(score_ready, ended) ==
    tile' = [l \in Lanes |-> TileNext(l, score_ready, ended)]
-----------------------------------------------------------------------------
Fire(score_ready) == score_valid /\ score_ready

Observe(score_ready) ==
    IF Fire(score_ready)
    THEN sent' = sent + 1 /\ score' = score_out
    ELSE UNCHANGED <<sent, score>>

NoStart == tile_start' = [l \in Lanes |-> FALSE]
Where == <<head_reg, row_base_reg, pair_col_base_reg>>

Idle ==
    /\ state = "IDLE"
    /\ done' = FALSE /\ NoStart /\ request_pending' = FALSE
    /\ UNCHANGED <<state, Where, lane_feed_count, request_owner,
                   round_robin_lane, emit_lane, skip_result_index,
                   causal_skip_error, sent, score>>

Start ==
    /\ state = "IDLE" /\ state' = "START"
    /\ done' = FALSE /\ NoStart /\ request_pending' = FALSE
    /\ head_reg' = 0 /\ row_base_reg' = 0 /\ pair_col_base_reg' = 0
    /\ emit_lane' = 0 /\ round_robin_lane' = 0
    /\ causal_skip_error' = FALSE
    /\ sent' = 0 /\ score' = Stream!NoScore
    /\ UNCHANGED <<lane_feed_count, request_owner, skip_result_index>>

\* The lanes of the next column tiles are set up together.
StartTiles ==
    /\ state = "START" /\ state' = "RUN"
    /\ done' = FALSE /\ request_pending' = FALSE
    /\ emit_lane' = 0
    /\ tile_start' = [l \in Lanes |-> lane_active(l) /\ ~lane_skip(l)]
    /\ lane_feed_count' = [l \in Lanes |-> 0]
    /\ skip_result_index' = [l \in Lanes |-> 0]
    /\ UNCHANGED <<Where, request_owner, round_robin_lane, causal_skip_error,
                   sent, score>>

\* The request side of a RUN edge: hand over the vector, or remember whose
\* request is outstanding.
Requests(pair_done) ==
    /\ IF delivered
       THEN /\ lane_feed_count' =
                  [lane_feed_count EXCEPT ![data_owner] = (@ + 1) % DimMod]
            /\ round_robin_lane' = (data_owner + 1) % QK_LANES
       ELSE UNCHANGED <<lane_feed_count, round_robin_lane>>
    /\ request_pending' =
          (~pair_done /\ ~delivered /\ (request_pending \/ arb_valid))
    /\ request_owner' = IF ~request_pending /\ arb_valid /\ ~delivered
                        THEN arb_lane ELSE request_owner

\* The checks of a RUN edge.
SkipError(score_ready) ==
    \/ request_pending /\ lane_skip(request_owner)
    \/ /\ selected_skip /\ Fire(score_ready)
       /\ score_col <= score_row \/ ~causal_en

Run(score_ready) ==
    /\ state = "RUN"
    /\ NoStart
    /\ causal_skip_error' = (causal_skip_error \/ SkipError(score_ready))
    /\ Observe(score_ready)

\* A RUN edge that does not end a tile.
RunOn(score_ready) ==
    /\ Run(score_ready)
    /\ ~(Fire(score_ready) /\ selected_last)
    /\ Requests(FALSE)
    /\ skip_result_index' =
          IF selected_skip /\ Fire(score_ready)
          THEN [skip_result_index EXCEPT ![emit_lane] = @ + 1]
          ELSE skip_result_index
    /\ done' = FALSE
    /\ UNCHANGED <<state, Where, emit_lane>>

\* Mutant: the lanes beyond the last column are not left out.
MoreLanesAlways == emit_lane + 1 < QK_LANES

more_lanes == emit_lane + 1 < QK_LANES /\ lane_active(emit_lane + 1)

EndTile(score_ready) ==
    /\ Run(score_ready)
    /\ Fire(score_ready) /\ selected_last
    /\ Requests(~more_lanes)
    /\ UNCHANGED skip_result_index

\* The next lane's tile is sent.
NextLane(score_ready) ==
    /\ EndTile(score_ready)
    /\ more_lanes
    /\ emit_lane' = emit_lane + 1
    /\ done' = FALSE
    /\ UNCHANGED <<state, Where>>

\* The next tiles are those to the right, else of the next rows, else of the
\* next head.
NextPosition ==
    LET right == pair_col_base_reg + PAIR_SPAN < SEQ_LEN
        down  == row_base_reg + TILE < SEQ_LEN
    IN  /\ pair_col_base_reg' = IF right THEN pair_col_base_reg + PAIR_SPAN ELSE 0
        /\ row_base_reg' = IF right THEN row_base_reg
                           ELSE IF down THEN row_base_reg + TILE ELSE 0
        /\ head_reg' = IF right \/ down \/ head_reg = Q_HEADS - 1 THEN head_reg
                       ELSE head_reg + 1
        /\ done' = (~right /\ ~down /\ head_reg = Q_HEADS - 1)

NextTiles(score_ready) ==
    /\ EndTile(score_ready)
    /\ ~more_lanes
    /\ NextPosition
    /\ state' = IF done' THEN "IDLE" ELSE "START"
    /\ UNCHANGED emit_lane
-----------------------------------------------------------------------------
Init ==
    /\ state = "IDLE" /\ done = FALSE
    /\ head_reg = 0 /\ row_base_reg = 0 /\ pair_col_base_reg = 0
    /\ tile_start = [l \in Lanes |-> FALSE]
    /\ lane_feed_count = [l \in Lanes |-> 0]
    /\ request_pending = FALSE /\ request_owner = 0 /\ round_robin_lane = 0
    /\ emit_lane = 0 /\ skip_result_index = [l \in Lanes |-> 0]
    /\ causal_skip_error = FALSE
    /\ causal_en \in BOOLEAN
    /\ tile = [l \in Lanes |-> [phase |-> "IDLE", fed |-> <<>>, index |-> 0]]
    /\ vec_valid = FALSE /\ read_pending = FALSE /\ vec = Stream!Vector(0, 0, 0, 0)
    /\ sent = 0 /\ score = Stream!NoScore

Edge(start, score_ready, ended) ==
    /\ \/ ~start /\ Idle
       \/ start /\ Start
       \/ StartTiles
       \/ RunOn(score_ready)
       \/ NextLane(score_ready)
       \/ NextTiles(score_ready)
    /\ CacheStep
    /\ TilesStep(score_ready, ended)
    /\ UNCHANGED causal_en

Next == \E start, score_ready \in BOOLEAN, ended \in SUBSET WorkingLanes :
            Edge(start, score_ready, ended)

Spec == Init /\ [][Next]_vars
-----------------------------------------------------------------------------
\* The one vector in flight is the one its owner waits for: whatever the lanes
\* did since the request, no lane is handed another lane's vector, one twice or
\* one of a tile above the diagonal, and the checker of the RTL never fires.
VectorIsAwaited ==
    /\ ~causal_skip_error
    /\ (read_pending \/ vec_valid) =>
           /\ request_pending
           /\ vec = request
           /\ lane_needs_vector(request_owner)

\* Whatever the back pressure of its taker, the array sends the stream of scores
\* in the legacy order, each from its own vectors.
ImplementsStream == Stream!StreamSpec
=============================================================================
