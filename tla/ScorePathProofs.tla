-------------------------- MODULE ScorePathProofs --------------------------
(***************************************************************************)
(* Proofs about the QK array and the way of its scores to the softmax: for *)
(* every number of lanes the array can have, every tile size, sequence     *)
(* length, head dimension and depth of the FIFO, with or without causal    *)
(* skipping, and whatever the pace of the lanes and of the softmax.        *)
(*                                                                         *)
(* The read channel.  The one channel of the rotated cache serves the      *)
(* lanes without mixing them up: the vector in flight is an obligation to  *)
(* the lane that asked for it (FlightInv).  It is met because a lane in    *)
(* need stays in need until it is served, and because a row of tiles is    *)
(* only left when no lane is in need: those already sent are idle, the     *)
(* others beyond the last column or skipped (LanesInv).                    *)
(*                                                                         *)
(* The stream (StreamInv).  What is sent is the abstract stream of scores, *)
(* each made of its own vectors, in the legacy order.                      *)
(*                                                                         *)
(* The way to the softmax (PathInv).  Behind the tile FIFO the tiles come  *)
(* out complete and in that order.                                         *)
(***************************************************************************)
EXTENDS ScorePath, WellFoundedInduction, TLAPS

Aligned(x) == \E k \in Nat : x = k * TILE

Requested == [head : Nat, row : Nat, col : Nat, dim : Nat]
Tiles == [phase : Phases, fed : Seq(Requested), index : 0 .. RESULT_N - 1]

TypeOK ==
    /\ state \in {"IDLE", "START", "RUN"}
    /\ head_reg \in Nat
    /\ row_base_reg \in Nat /\ Aligned(row_base_reg)
    /\ pair_col_base_reg \in Nat /\ Aligned(pair_col_base_reg)
    /\ tile_start \in [Lanes -> BOOLEAN]
    /\ lane_feed_count \in [Lanes -> Nat]
    /\ request_pending \in BOOLEAN
    /\ request_owner \in Lanes /\ round_robin_lane \in Lanes /\ emit_lane \in Lanes
    /\ skip_result_index \in [Lanes -> 0 .. RESULT_N - 1]
    /\ causal_en \in BOOLEAN
    /\ tile \in [Lanes -> Tiles]
    /\ vec_valid \in BOOLEAN /\ read_pending \in BOOLEAN /\ vec \in Requested

\* A lane whose tile is idle and stays so.
Quiet(l) == tile[l].phase = "IDLE" /\ ~tile_start[l]

\* In a launch the lanes whose tile was sent, is beyond the last column or is
\* skipped are quiet; between two rows of tiles all are.
LanesInv ==
    \A l \in Lanes :
        (state = "RUN" => l < emit_lane \/ ~lane_active(l) \/ lane_skip(l)) => Quiet(l)

\* The vector in flight, being read or waiting to be taken, is the only one.
InFlight == read_pending \/ vec_valid

FlightInv ==
    /\ ~(read_pending /\ vec_valid)
    /\ request_pending <=> InFlight
    /\ InFlight => vec = request /\ lane_needs_vector(request_owner)

IInv == TypeOK /\ LanesInv /\ FlightInv /\ ~causal_skip_error

-----------------------------------------------------------------------------
\* The constants are numbers, and there are as many lanes as QK_LANES.
LEMMA Sizes ==
    /\ TILE \in Nat \ {0} /\ QK_LANES \in Nat \ {0} /\ RESULT_N \in Nat \ {0}
    /\ HEAD_DIM \in Nat \ {0} /\ DimMod \in Nat \ {0} /\ SEQ_LEN \in Nat \ {0}
    /\ Lanes \subseteq Nat /\ 0 \in Lanes /\ PAIR_SPAN = QK_LANES * TILE
<1>1. TILE \in Nat \ {0} /\ QK_LANES \in Nat \ {0} /\ HEAD_DIM \in Nat \ {0}
      /\ DimMod \in Nat \ {0} /\ SEQ_LEN \in Nat \ {0}
  BY QkAssumption
<1>2. TILE * TILE \in Nat \ {0}
  BY <1>1
<1> QED
  BY <1>1, <1>2 DEF Lanes, RESULT_N, PAIR_SPAN

\* The lanes are the numbers below QK_LANES.
LEMMA LaneNumbers ==
    ASSUME NEW l
    PROVE  l \in Lanes <=> l \in Nat /\ l < QK_LANES
  BY Sizes DEF Lanes

\* Products keep the order of their factors.
LEMMA ProductOrder ==
    ASSUME NEW a \in Nat, NEW b \in Nat, NEW n \in Nat, a <= b
    PROVE  a * n <= b * n
<1> DEFINE d == b - a
<1>1. d \in Nat /\ b = a + d
  OBVIOUS
<1> HIDE DEF d
<1>2. b * n = a * n + d * n /\ d * n \in Nat /\ a * n \in Nat
  BY <1>1
<1> QED
  BY <1>2

\* Positions of tiles are multiples of the tile size.
LEMMA AlignedSum ==
    ASSUME NEW x \in Nat, Aligned(x), NEW n \in Nat
    PROVE  x + n * TILE \in Nat /\ Aligned(x + n * TILE)
<1>1. PICK k \in Nat : x = k * TILE
  BY DEF Aligned
<1>2. n * TILE \in Nat /\ x + n * TILE = (k + n) * TILE /\ k + n \in Nat
  BY <1>1, Sizes
<1> QED
  BY <1>2 DEF Aligned

\* Of two different positions of tiles one is at least a tile behind the other.
LEMMA TilesApart ==
    ASSUME NEW x \in Nat, NEW y \in Nat, Aligned(x), Aligned(y), x < y
    PROVE  x + TILE <= y
<1>1. PICK k \in Nat : x = k * TILE
  BY DEF Aligned
<1>2. PICK m \in Nat : y = m * TILE
  BY DEF Aligned
<1>3. TILE \in Nat /\ k * TILE \in Nat /\ m * TILE \in Nat
  BY Sizes
<1>4. k < m
  <2>1. ASSUME m <= k PROVE FALSE
    <3>1. m * TILE <= k * TILE
      BY <1>3, <2>1, ProductOrder
    <3> HIDE DEF Aligned
    <3> QED BY <1>1, <1>2, <1>3, <3>1
  <2> QED BY <2>1
<1>5. (k + 1) * TILE <= m * TILE
  BY <1>3, <1>4, ProductOrder
<1>6. (k + 1) * TILE = k * TILE + TILE
  BY <1>3
<1> QED
  BY <1>1, <1>2, <1>3, <1>5, <1>6

\* The row of a score lies inside its tile.
LEMMA RowInTile ==
    ASSUME NEW i \in 0 .. RESULT_N - 1
    PROVE  /\ i \div TILE \in Nat /\ i \div TILE < TILE
           /\ i % TILE \in Nat
<1>1. TILE \in Nat \ {0} /\ RESULT_N = TILE * TILE
  BY Sizes DEF RESULT_N
<1> DEFINE q == i \div TILE
           r == i % TILE
<1>2. i \in Nat /\ i < TILE * TILE
  BY <1>1
<1>3. q \in Int /\ r \in 0 .. TILE - 1 /\ i = TILE * q + r
  BY <1>1, <1>2
<1> HIDE DEF q, r
<1>4. q \in Nat
  <2>1. ASSUME q <= -1 PROVE FALSE
    <3>1. (-q) - 1 \in Nat
      BY <1>3, <2>1
    <3>2. TILE * ((-q) - 1) \in Nat
      BY <1>1, <3>1
    <3>3. TILE * ((-q) - 1) = -(TILE * q) - TILE /\ TILE * q \in Int
      BY <1>1, <1>3
    <3> QED BY <1>1, <1>2, <1>3, <3>2, <3>3
  <2> QED BY <1>3, <2>1
<1>5. q < TILE
  <2>1. ASSUME TILE <= q PROVE FALSE
    <3>1. TILE * TILE <= q * TILE
      BY <1>1, <1>4, <2>1, ProductOrder
    <3>2. q * TILE = TILE * q /\ TILE * q \in Int /\ TILE * TILE \in Int
      BY <1>1, <1>4
    <3> QED BY <1>1, <1>2, <1>3, <3>1, <3>2
  <2> QED BY <1>1, <1>4, <2>1
<1> QED
  BY <1>1, <1>3, <1>4, <1>5 DEF q, r

\* The column of a lane's tile.
LEMMA LaneCol ==
    ASSUME TypeOK, NEW l \in Lanes
    PROVE  lane_col(l) \in Nat /\ Aligned(lane_col(l))
<1>1. l \in Nat
  BY Sizes
<1> QED
  BY <1>1, AlignedSum DEF TypeOK, lane_col

\* Behind a lane beyond the last column all are.
LEMMA LaneOrder ==
    ASSUME TypeOK, NEW l \in Lanes, NEW m \in Lanes, l <= m, lane_active(m)
    PROVE  lane_active(l)
<1>1. l \in Nat /\ m \in Nat /\ TILE \in Nat /\ SEQ_LEN \in Nat
  BY Sizes
<1>2. l * TILE <= m * TILE /\ l * TILE \in Nat /\ m * TILE \in Nat
  BY <1>1, ProductOrder
<1>3. pair_col_base_reg \in Nat
  BY DEF TypeOK
<1> QED
  BY <1>1, <1>2, <1>3 DEF lane_active, lane_col
-----------------------------------------------------------------------------
\* The arbiter picks a lane in need.
LEMMA ArbNeeds ==
    ASSUME TypeOK, arb_valid
    PROVE  arb_lane \in Lanes /\ lane_needs_vector(arb_lane)
<1> DEFINE N == {l \in Lanes : lane_needs_vector(l)}
           T == {Distance(l) : l \in N}
<1>1. \A l \in Lanes : Distance(l) \in Nat
  <2>1. TAKE l \in Lanes
  <2>2. l + QK_LANES - round_robin_lane \in Nat
    BY Sizes, LaneNumbers DEF TypeOK
  <2> QED
    BY <2>2, Sizes DEF Distance
<1>2. T \subseteq Nat /\ T # {}
  BY <1>1 DEF arb_valid
<1>3. \E d \in T : \A e \in T : ~(<<e, d>> \in OpToRel(<, Nat))
  <2> HIDE DEF T
  <2> QED BY <1>2, WFMin, NatLessThanWellFounded, Zenon
<1>4. PICK d \in T : \A e \in T : ~(e < d)
  BY <1>2, <1>3 DEF OpToRel
<1>5. PICK l \in N : d = Distance(l)
  OBVIOUS
<1>6. \A m \in Lanes : lane_needs_vector(m) => Distance(l) <= Distance(m)
  <2>1. TAKE m \in Lanes
  <2>2. HAVE lane_needs_vector(m)
  <2>3. Distance(m) \in T /\ Distance(l) \in Nat /\ Distance(m) \in Nat
    BY <1>1, <2>2
  <2>4. ~(Distance(m) < Distance(l))
    BY <1>4, <1>5, <2>3
  <2> QED
    BY <2>3, <2>4
<1>7. \E x \in Lanes :
          /\ lane_needs_vector(x)
          /\ \A m \in Lanes : lane_needs_vector(m) => Distance(x) <= Distance(m)
  BY <1>6
<1> HIDE DEF N, T
<1> QED
  BY <1>7, Zenon DEF arb_lane

\* The lane the channel works for.
LEMMA OwnerIsLane ==
    ASSUME TypeOK
    PROVE  data_owner \in Lanes
<1>1. arb_lane \in Lanes
  <2>1. CASE arb_valid
    BY <2>1, ArbNeeds
  <2>2. CASE ~arb_valid
    BY <2>2, Sizes DEF arb_lane
  <2> QED
    BY <2>1, <2>2
<1> QED
  BY <1>1 DEF data_owner, TypeOK

\* A tile that waits for a vector and is not handed one does nothing.
LEMMA WaitingTile ==
    ASSUME NEW l \in Lanes, NEW score_ready, NEW ended, tile[l].phase = "WAIT_INPUT",
           Len(tile[l].fed) # HEAD_DIM, ~(delivered /\ data_owner = l)
    PROVE  TileNext(l, score_ready, ended) = tile[l]
  BY DEF TileNext, Working

\* A quiet tile stays idle.
LEMMA QuietTile ==
    ASSUME NEW l \in Lanes, NEW score_ready, NEW ended, Quiet(l)
    PROVE  TileNext(l, score_ready, ended) = tile[l]
  BY DEF TileNext, Quiet, Working

\* A tile whose last result is taken is idle again.
LEMMA SentTile ==
    ASSUME NEW l \in Lanes, NEW score_ready, NEW ended, tile[l].phase = "OUT",
           tile_out_ready(l, score_ready), tile[l].index = RESULT_N - 1
    PROVE  TileNext(l, score_ready, ended) = [tile[l] EXCEPT !.phase = "IDLE"]
<1>1. "IDLE" # "OUT" /\ "CLEAR" # "OUT" /\ "OUT" \notin Working /\ "OUT" # "WAIT_INPUT"
  BY DEF Working
<1> QED BY <1>1, Zenon DEF TileNext

\* What a step may write into a tile.
LEMMA TileUpdates ==
    ASSUME NEW t \in Tiles, NEW p \in Phases
    PROVE  /\ [t EXCEPT !.phase = p] \in Tiles
           /\ \A f \in Seq(Requested) : [t EXCEPT !.phase = p, !.fed = f] \in Tiles
           /\ \A i \in 0 .. RESULT_N - 1 : [t EXCEPT !.phase = p, !.index = i] \in Tiles
  BY DEF Tiles

\* Whatever a tile does it remains one.
LEMMA TileTyped ==
    ASSUME TypeOK, NEW l \in Lanes, NEW score_ready, NEW ended
    PROVE  TileNext(l, score_ready, ended) \in Tiles
<1> DEFINE t == tile[l]
           next == TileNext(l, score_ready, ended)
<1> SUFFICES next \in Tiles
  OBVIOUS
<1>1. /\ t \in Tiles /\ vec \in Requested
      /\ t.phase \in {"IDLE", "CLEAR", "WAIT_INPUT", "OUT"} \cup Working
  BY DEF TypeOK, Tiles, Phases, Working
<1>2. 0 \in 0 .. RESULT_N - 1
  BY Sizes
<1>p. Phases = {"IDLE", "CLEAR", "WAIT_INPUT", "MAC", "FLUSH", "SCALE", "OUT"}
  BY DEF Phases
<1>3. CASE t.phase = "IDLE"
  <2>1. next \in {t, [phase |-> "CLEAR", fed |-> <<>>, index |-> 0]}
    BY <1>3 DEF TileNext, Working
  <2> HIDE DEF t, next
  <2>2. <<>> \in Seq(Requested)
    OBVIOUS
  <2>3. [phase |-> "CLEAR", fed |-> <<>>, index |-> 0] \in Tiles
    BY <1>2, <2>2, <1>p, SMTT(40) DEF Tiles
  <2> QED BY <1>1, <2>1, <2>3
<1>4. CASE t.phase = "CLEAR"
  <2>1. next = [t EXCEPT !.phase = "WAIT_INPUT"]
    BY <1>4, SMTT(40) DEF TileNext, Working
  <2> HIDE DEF t, next
  <2> QED BY <1>1, <1>p, <2>1, TileUpdates
<1>5. CASE t.phase = "WAIT_INPUT"
  <2>1. next \in {t, [t EXCEPT !.phase = "FLUSH"],
                  [t EXCEPT !.phase = "MAC", !.fed = Append(t.fed, vec)]}
    <3>1. "IDLE" # "WAIT_INPUT" /\ "CLEAR" # "WAIT_INPUT"
      OBVIOUS
    <3>2. next = IF Len(t.fed) = HEAD_DIM THEN [t EXCEPT !.phase = "FLUSH"]
                 ELSE IF delivered /\ data_owner = l
                 THEN [t EXCEPT !.phase = "MAC", !.fed = Append(@, vec)] ELSE t
      <4>1. "WAIT_INPUT" \notin Working /\ "OUT" # "WAIT_INPUT"
        BY DEF Working
      <4> QED BY <1>5, <3>1, <4>1, Zenon DEF TileNext
    <3> HIDE DEF next, t
    <3> QED BY <3>2, Zenon
  <2> HIDE DEF t, next
  <2> DEFINE longer == Append(t.fed, vec)
  <2>2. longer \in Seq(Requested)
    BY <1>1, SMTT(40) DEF Tiles
  <2> HIDE DEF longer
  <2>3. [t EXCEPT !.phase = "MAC", !.fed = longer] \in Tiles
    BY <1>1, <1>p, <2>2, TileUpdates
  <2>4. next \in {t, [t EXCEPT !.phase = "FLUSH"], [t EXCEPT !.phase = "MAC", !.fed = longer]}
    BY <2>1, ZenonT(40) DEF longer
  <2> QED BY <1>1, <1>p, <2>3, <2>4, TileUpdates, ZenonT(40)
<1>6. CASE t.phase \in Working
  <2>1. next \in {t, [t EXCEPT !.phase = Worked(t.phase)]}
    <3>1. /\ "IDLE" \notin Working /\ "CLEAR" \notin Working /\ "OUT" \notin Working
          /\ "WAIT_INPUT" \notin Working
      BY DEF Working
    <3>2. next = IF l \in ended THEN [t EXCEPT !.phase = Worked(@)] ELSE t
      BY <1>6, <3>1, Zenon DEF TileNext
    <3> HIDE DEF next, t
    <3> QED BY <3>2, Zenon
  <2> HIDE DEF t, next
  <2>2. Worked(t.phase) \in {"WAIT_INPUT", "SCALE", "OUT"}
    BY <1>6, SMTT(40) DEF Working, Worked
  <2> QED BY <1>1, <1>p, <2>1, <2>2, TileUpdates
<1>7. CASE t.phase = "OUT"
  <2>1. next \in {t, [t EXCEPT !.phase = "IDLE"]}
        \/ /\ t.index # RESULT_N - 1
           /\ next = [t EXCEPT !.phase = "SCALE", !.index = t.index + 1]
    <3>1. "IDLE" # "OUT" /\ "CLEAR" # "OUT" /\ "OUT" # "WAIT_INPUT" /\ "OUT" \notin Working
      BY DEF Working
    <3>2. next = IF ~tile_out_ready(l, score_ready) THEN t
                 ELSE IF t.index = RESULT_N - 1 THEN [t EXCEPT !.phase = "IDLE"]
                 ELSE [t EXCEPT !.phase = "SCALE", !.index = @ + 1]
      BY <1>7, <3>1, Zenon DEF TileNext
    <3> HIDE DEF next, t
    <3> QED BY <3>2, Zenon
  <2> HIDE DEF t, next
  <2>2. t.index \in 0 .. RESULT_N - 1
    BY <1>1 DEF Tiles
  <2>3. t.index # RESULT_N - 1 => t.index + 1 \in 0 .. RESULT_N - 1
    BY <2>2, Sizes
  <2> QED BY <1>1, <1>p, <2>1, <2>3, TileUpdates, ZenonT(40)
<1> HIDE DEF t
<1> QED
  BY <1>1, <1>3, <1>4, <1>5, <1>6, <1>7

\* A lane in need stays in need while it is not served.
LEMMA NeedsStays ==
    ASSUME NEW l \in Lanes, lane_needs_vector(l), state' = "RUN",
           UNCHANGED <<row_base_reg, pair_col_base_reg, causal_en>>,
           lane_feed_count'[l] = lane_feed_count[l],
           ~(delivered /\ data_owner = l),
           NEW score_ready, NEW ended, TilesStep(score_ready, ended)
    PROVE  lane_needs_vector(l)'
<1>1. tile'[l] = TileNext(l, score_ready, ended)
  BY DEF TilesStep
<1>2. tile[l].phase = "WAIT_INPUT" /\ Len(tile[l].fed) < HEAD_DIM
  BY DEF lane_needs_vector, tile_in_ready
<1>3. Len(tile[l].fed) # HEAD_DIM
  BY <1>2, Sizes
<1>4. tile'[l] = tile[l]
  BY <1>1, <1>2, <1>3, WaitingTile
<1> QED
  BY <1>4 DEF lane_needs_vector, tile_in_ready, lane_active, lane_skip, lane_col

\* The edge in which the last lane's last score goes out finds no lane in need.
LEMMA NoneNeeds ==
    ASSUME IInv, score_valid, selected_last, ~more_lanes
    PROVE  \A l \in Lanes : ~lane_needs_vector(l)
<1>1. SUFFICES ASSUME NEW l \in Lanes, lane_needs_vector(l) PROVE FALSE
  OBVIOUS
<1>2. /\ state = "RUN" /\ lane_active(l) /\ ~lane_skip(l)
      /\ tile[l].phase = "WAIT_INPUT"
  BY <1>1 DEF lane_needs_vector, tile_in_ready
<1>3. ~(l < emit_lane)
  BY <1>2 DEF IInv, LanesInv, Quiet
<1>4. l # emit_lane
  BY <1>2 DEF score_valid, selected_skip
<1>5. TypeOK /\ emit_lane \in Lanes /\ emit_lane \in Nat /\ l \in Nat
  BY Sizes DEF IInv, TypeOK
<1>6. emit_lane + 1 <= l /\ emit_lane + 1 \in Lanes
  BY <1>3, <1>4, <1>5, LaneNumbers, Sizes
<1>7. lane_active(emit_lane + 1)
  BY <1>2, <1>5, <1>6, LaneOrder
<1> QED
  BY <1>6, <1>7, LaneNumbers DEF more_lanes
-----------------------------------------------------------------------------
\* The registers of the tiles and of the cache keep their types.
LEMMA DataTyped ==
    ASSUME TypeOK, CacheStep, NEW score_ready, NEW ended, TilesStep(score_ready, ended)
    PROVE  /\ tile' \in [Lanes -> Tiles]
           /\ vec_valid' \in BOOLEAN /\ read_pending' \in BOOLEAN /\ vec' \in Requested
<1>1. tile' \in [Lanes -> Tiles]
  BY TileTyped DEF TilesStep
<1>2. request \in Requested
  BY OwnerIsLane, LaneCol DEF TypeOK, request, Requested
<1>3. vec' \in Requested
  BY <1>2 DEF TypeOK, CacheStep
<1>4. vec_valid' \in BOOLEAN /\ read_pending' \in BOOLEAN
  BY DEF CacheStep, load_request
<1> QED
  BY <1>1, <1>3, <1>4

\* The request side keeps its types.
LEMMA RequestsTyped ==
    ASSUME TypeOK, NEW pair_done, Requests(pair_done)
    PROVE  /\ lane_feed_count' \in [Lanes -> Nat] /\ round_robin_lane' \in Lanes
           /\ request_pending' \in BOOLEAN /\ request_owner' \in Lanes
<1>1. data_owner \in Lanes /\ data_owner \in Nat
  BY OwnerIsLane, Sizes
<1>2. (data_owner + 1) % QK_LANES \in Lanes
  BY <1>1, Sizes, LaneNumbers
<1>3. (lane_feed_count[data_owner] + 1) % DimMod \in Nat
  BY <1>1, Sizes DEF TypeOK
<1>4. lane_feed_count' \in [Lanes -> Nat] /\ round_robin_lane' \in Lanes
  BY <1>1, <1>2, <1>3 DEF Requests, TypeOK
<1>5. request_owner' \in Lanes
  BY ArbNeeds DEF Requests, TypeOK
<1>6. request_pending' \in BOOLEAN
  BY DEF Requests
<1> QED
  BY <1>4, <1>5, <1>6

\* The checker of the RTL finds nothing: a request is never made for a skipped
\* tile, and the scores of a skipped tile lie above the diagonal.
LEMMA NoSkipError ==
    ASSUME IInv, NEW score_ready
    PROVE  ~SkipError(score_ready)
<1>1. ~(request_pending /\ lane_skip(request_owner))
  BY DEF IInv, FlightInv, InFlight, lane_needs_vector
<1>2. ASSUME selected_skip
      PROVE  causal_en /\ ~(score_col <= score_row)
  <2>1. /\ emit_lane \in Lanes /\ skip_result_index[emit_lane] \in 0 .. RESULT_N - 1
        /\ row_base_reg \in Nat /\ Aligned(row_base_reg)
    BY DEF IInv, TypeOK
  <2>2. causal_en /\ row_base_reg < lane_col(emit_lane)
        /\ lane_col(emit_lane) \in Nat /\ Aligned(lane_col(emit_lane))
    <3>1. lane_col(emit_lane) \in Nat /\ Aligned(lane_col(emit_lane))
      BY <2>1, LaneCol DEF IInv
    <3> HIDE DEF Aligned
    <3> QED BY <1>2, <2>1, <3>1 DEF selected_skip, lane_skip
  <2>3. row_base_reg + TILE <= lane_col(emit_lane)
    BY <2>1, <2>2, TilesApart
  <2> DEFINE i == skip_result_index[emit_lane]
  <2>4. selected_index = i
    BY <1>2 DEF selected_index
  <2>5. i \div TILE \in Nat /\ i \div TILE < TILE /\ i % TILE \in Nat /\ TILE \in Nat
    BY <2>1, RowInTile, Sizes
  <2> DEFINE q == i \div TILE
             r == i % TILE
  <2>6. score_col = lane_col(emit_lane) + r /\ score_row = row_base_reg + q
    BY <2>4 DEF score_col, score_row
  <2> HIDE DEF i, q, r
  <2>7. q \in Nat /\ q < TILE /\ r \in Nat /\ TILE \in Nat
    BY <2>5 DEF q, r
  <2> QED
    BY <2>1, <2>2, <2>3, <2>6, <2>7
<1> QED
  BY <1>1, <1>2 DEF SkipError
-----------------------------------------------------------------------------
\* Outside a run of tiles nothing is in flight and nothing is asked for.
LEMMA RestingChannel ==
    ASSUME IInv, state # "RUN", CacheStep, request_pending' = FALSE
    PROVE  FlightInv'
<1>1. ~vec_ready /\ ~read_pending /\ ~vec_valid
  BY DEF IInv, FlightInv, InFlight, lane_needs_vector, vec_ready
<1>2. ~read_pending' /\ ~vec_valid'
  BY <1>1 DEF CacheStep, load_request
<1> QED
  BY <1>2 DEF FlightInv, InFlight

\* In a run of tiles the vector in flight moves on towards its lane, which goes
\* on waiting for it, or a lane in need becomes the next one.
LEMMA RunningChannel ==
    ASSUME IInv, state = "RUN", CacheStep, UNCHANGED causal_en,
           NEW score_ready, NEW ended, TilesStep(score_ready, ended),
           NEW pair_done \in BOOLEAN, Requests(pair_done),
           pair_done => \A l \in Lanes : ~lane_needs_vector(l),
           ~pair_done => state' = "RUN" /\ UNCHANGED Where
    PROVE  FlightInv'
<1>1. TypeOK /\ FlightInv
  BY DEF IInv
<1>2. CASE vec_valid
  <2>1. /\ request_pending /\ ~read_pending
        /\ lane_needs_vector(request_owner)
    BY <1>1, <1>2 DEF FlightInv, InFlight
  <2>2. vec_ready /\ delivered
    BY <1>2, <2>1 DEF vec_ready, delivered, lane_needs_vector
  <2>3. ~read_pending' /\ ~vec_valid' /\ ~request_pending'
    BY <1>2, <2>1, <2>2 DEF CacheStep, load_request, Requests
  <2> QED
    BY <2>3 DEF FlightInv, InFlight
<1>3. CASE read_pending
  <2>1. PICK o \in Lanes : o = request_owner
    BY <1>1 DEF TypeOK
  <2>2. /\ request_pending /\ ~vec_valid /\ vec = request
        /\ lane_needs_vector(o) /\ data_owner = o
    BY <1>1, <1>3, <2>1 DEF FlightInv, InFlight, data_owner
  <2>3. ~delivered /\ ~pair_done /\ state' = "RUN" /\ UNCHANGED Where
    BY <2>1, <2>2 DEF delivered
  <2>4. /\ vec' = vec /\ ~read_pending' /\ vec_valid'
        /\ request_pending' /\ request_owner' = o
        /\ lane_feed_count' = lane_feed_count
    BY <1>3, <2>1, <2>2, <2>3 DEF CacheStep, load_request, Requests
  <2>5. lane_needs_vector(o)'
    BY <2>1, <2>2, <2>3, <2>4, NeedsStays DEF Where
  <2>6. request' = request
    <3>1. data_owner' = o
      BY <2>4 DEF data_owner
    <3> QED BY <2>2, <2>3, <2>4, <3>1 DEF request, lane_col, Where
  <2> QED
    BY <2>2, <2>4, <2>5, <2>6 DEF FlightInv, InFlight
<1>4. CASE ~vec_valid /\ ~read_pending
  <2>1. ~request_pending /\ ~delivered /\ (vec_ready <=> arb_valid)
    BY <1>1, <1>4 DEF FlightInv, InFlight, delivered, vec_ready
  <2>2. CASE ~arb_valid
    <3>1. ~read_pending' /\ ~vec_valid' /\ ~request_pending'
      BY <1>4, <2>1, <2>2 DEF CacheStep, load_request, Requests
    <3> QED
      BY <3>1 DEF FlightInv, InFlight
  <2>3. CASE arb_valid
    <3>1. PICK o \in Lanes : o = arb_lane /\ lane_needs_vector(o)
      BY <1>1, <2>3, ArbNeeds
    <3>2. ~pair_done /\ state' = "RUN" /\ UNCHANGED Where /\ data_owner = o
      BY <2>1, <3>1 DEF data_owner
    <3>3. /\ vec' = request /\ read_pending' /\ ~vec_valid'
          /\ request_pending' /\ request_owner' = o
          /\ lane_feed_count' = lane_feed_count
      BY <1>4, <2>1, <2>3, <3>1, <3>2 DEF CacheStep, load_request, Requests
    <3>4. lane_needs_vector(o)'
      BY <2>1, <3>1, <3>2, <3>3, NeedsStays DEF Where
    <3>5. request' = request
      <4>1. data_owner' = o
        BY <3>3 DEF data_owner
      <4> QED BY <3>2, <3>3, <4>1 DEF request, lane_col, Where
    <3> QED
      BY <3>3, <3>4, <3>5 DEF FlightInv, InFlight
  <2> QED
    BY <2>2, <2>3
<1> QED
  BY <1>2, <1>3, <1>4
-----------------------------------------------------------------------------
\* What every edge gives, whatever the scheduler does.
Beat(score_ready, ended) ==
    CacheStep /\ TilesStep(score_ready, ended) /\ UNCHANGED causal_en

LEMMA InitInv == Init => IInv
<1> SUFFICES ASSUME Init PROVE IInv
  OBVIOUS
<1>1. Aligned(0)
  <2>1. 0 = 0 * TILE
    BY Sizes
  <2> QED BY <2>1 DEF Aligned
<1>2. [phase |-> "IDLE", fed |-> <<>>, index |-> 0] \in Tiles
  <2>1. <<>> \in Seq(Requested)
    OBVIOUS
  <2>2. 0 \in 0 .. RESULT_N - 1
    BY Sizes
  <2> QED BY <2>1, <2>2 DEF Tiles, Phases
<1>3. vec \in Requested
  BY DEF Init, Requested, Stream!Vector
<1>4. 0 \in Lanes /\ 0 \in 0 .. RESULT_N - 1
  BY Sizes
<1>5. TypeOK
  <2> HIDE DEF Aligned, Tiles
  <2> QED BY <1>1, <1>2, <1>3, <1>4 DEF Init, TypeOK
<1>6. LanesInv
  BY DEF Init, LanesInv, Quiet
<1>7. FlightInv
  BY DEF Init, FlightInv, InFlight
<1> QED
  BY <1>5, <1>6, <1>7 DEF Init, IInv

\* While no launch is on, and when one begins, all tiles are idle.
LEMMA RestKeeps ==
    ASSUME IInv, NEW score_ready, NEW ended, Beat(score_ready, ended), Idle \/ Start
    PROVE  IInv'
<1>1. Aligned(0)
  <2>1. 0 = 0 * TILE
    BY Sizes
  <2> QED BY <2>1 DEF Aligned
<1>2. /\ tile' \in [Lanes -> Tiles]
      /\ vec_valid' \in BOOLEAN /\ read_pending' \in BOOLEAN /\ vec' \in Requested
  BY DataTyped DEF IInv, Beat
<1>3. state = "IDLE" /\ state' # "RUN" /\ ~causal_skip_error' /\ request_pending' = FALSE
  BY DEF Idle, Start, IInv
<1>4. tile_start' = [l \in Lanes |-> FALSE]
  BY DEF Idle, Start, NoStart
<1>5. TypeOK'
  <2>1. 0 \in Lanes
    BY Sizes
  <2>2. /\ state' \in {"IDLE", "START", "RUN"}
        /\ head_reg' \in Nat
        /\ row_base_reg' \in Nat /\ Aligned(row_base_reg')
        /\ pair_col_base_reg' \in Nat /\ Aligned(pair_col_base_reg')
        /\ request_owner' \in Lanes /\ round_robin_lane' \in Lanes /\ emit_lane' \in Lanes
        /\ lane_feed_count' \in [Lanes -> Nat]
        /\ skip_result_index' \in [Lanes -> 0 .. RESULT_N - 1]
    BY <1>1, <2>1 DEF IInv, TypeOK, Idle, Start, Where
  <2>3. tile_start' \in [Lanes -> BOOLEAN] /\ causal_en' \in BOOLEAN
    BY <1>4 DEF Beat, IInv, TypeOK
  <2> QED
    BY <1>2, <1>3, <2>2, <2>3 DEF TypeOK, Aligned
<1>6. LanesInv'
  <2>1. SUFFICES ASSUME NEW l \in Lanes PROVE Quiet(l)'
    BY <1>3 DEF LanesInv
  <2>2. Quiet(l)
    BY <1>3 DEF IInv, LanesInv
  <2>3. tile'[l] = tile[l]
    BY <2>2, QuietTile DEF Beat, TilesStep
  <2> QED
    BY <1>4, <2>2, <2>3 DEF Quiet
<1>7. FlightInv'
  BY <1>3, RestingChannel DEF Beat
<1> QED
  BY <1>3, <1>5, <1>6, <1>7 DEF IInv

\* The tiles of a row are started, but for those beyond the end and the skipped.
LEMMA StartTilesKeeps ==
    ASSUME IInv, NEW score_ready, NEW ended, Beat(score_ready, ended), StartTiles
    PROVE  IInv'
<1>1. /\ tile' \in [Lanes -> Tiles]
      /\ vec_valid' \in BOOLEAN /\ read_pending' \in BOOLEAN /\ vec' \in Requested
  BY DataTyped DEF IInv, Beat
<1>2. /\ state = "START" /\ state' = "RUN" /\ ~causal_skip_error'
      /\ request_pending' = FALSE /\ emit_lane' = 0
      /\ UNCHANGED <<row_base_reg, pair_col_base_reg, causal_en>>
      /\ tile_start' = [l \in Lanes |-> lane_active(l) /\ ~lane_skip(l)]
  BY DEF StartTiles, IInv, Where, Beat
<1>3. TypeOK'
  <2>1. 0 \in Lanes /\ 0 \in 0 .. RESULT_N - 1
    BY Sizes
  <2>2. tile_start' \in [Lanes -> BOOLEAN]
    BY <1>2 DEF lane_active, lane_skip
  <2>3. /\ lane_feed_count' \in [Lanes -> Nat]
        /\ skip_result_index' \in [Lanes -> 0 .. RESULT_N - 1]
    BY <2>1 DEF StartTiles
  <2>4. head_reg' = head_reg /\ request_owner' = request_owner
        /\ round_robin_lane' = round_robin_lane
    BY DEF StartTiles, Where
  <2> QED
    BY <1>1, <1>2, <2>1, <2>2, <2>3, <2>4 DEF IInv, TypeOK, Aligned
<1>4. LanesInv'
  <2>1. SUFFICES ASSUME NEW l \in Lanes, ~lane_active(l)' \/ lane_skip(l)'
                 PROVE  Quiet(l)'
    <3>1. \A l \in Lanes : ~(l < emit_lane')
      BY <1>2, Sizes
    <3> QED BY <1>2, <3>1 DEF LanesInv
  <2>2. Quiet(l)
    BY <1>2 DEF IInv, LanesInv
  <2>3. tile'[l] = tile[l]
    BY <2>2, QuietTile DEF Beat, TilesStep
  <2>4. ~lane_active(l) \/ lane_skip(l)
    BY <1>2, <2>1 DEF lane_active, lane_skip, lane_col
  <2>5. ~tile_start'[l]
    BY <1>2, <2>4
  <2> QED
    BY <2>2, <2>3, <2>5 DEF Quiet
<1>5. FlightInv'
  BY <1>2, RestingChannel DEF Beat
<1> QED
  BY <1>2, <1>3, <1>4, <1>5 DEF IInv

\* An edge in which lanes compute and results are sent.
LEMMA RunOnKeeps ==
    ASSUME IInv, NEW score_ready, NEW ended, Beat(score_ready, ended), RunOn(score_ready)
    PROVE  IInv'
<1>1. /\ tile' \in [Lanes -> Tiles]
      /\ vec_valid' \in BOOLEAN /\ read_pending' \in BOOLEAN /\ vec' \in Requested
  BY DataTyped DEF IInv, Beat
<1>2. /\ state = "RUN" /\ state' = "RUN" /\ Requests(FALSE)
      /\ UNCHANGED <<head_reg, row_base_reg, pair_col_base_reg, emit_lane, causal_en>>
      /\ tile_start' = [l \in Lanes |-> FALSE]
      /\ ~causal_skip_error'
  BY NoSkipError DEF RunOn, Run, NoStart, Where, Beat, IInv
<1>3. TypeOK'
  <2>1. /\ lane_feed_count' \in [Lanes -> Nat] /\ round_robin_lane' \in Lanes
        /\ request_pending' \in BOOLEAN /\ request_owner' \in Lanes
    BY <1>2, RequestsTyped DEF IInv
  <2>2. skip_result_index' \in [Lanes -> 0 .. RESULT_N - 1]
    <3>1. CASE selected_skip /\ Fire(score_ready)
      <4>1. skip_result_index[emit_lane] # RESULT_N - 1
        BY <3>1 DEF RunOn, selected_last, selected_index
      <4>2. emit_lane \in Lanes /\ skip_result_index \in [Lanes -> 0 .. RESULT_N - 1]
        BY DEF IInv, TypeOK
      <4>3. skip_result_index[emit_lane] + 1 \in 0 .. RESULT_N - 1
        BY <4>1, <4>2, Sizes
      <4>4. skip_result_index' =
                [skip_result_index EXCEPT ![emit_lane] = skip_result_index[emit_lane] + 1]
        BY <3>1 DEF RunOn
      <4> QED
        BY <4>2, <4>3, <4>4
    <3>2. CASE ~(selected_skip /\ Fire(score_ready))
      BY <3>2 DEF RunOn, IInv, TypeOK
    <3> QED
      BY <3>1, <3>2
  <2> QED
    BY <1>1, <1>2, <2>1, <2>2 DEF IInv, TypeOK, Aligned
<1>4. LanesInv'
  <2>1. SUFFICES ASSUME NEW l \in Lanes,
                        l < emit_lane \/ ~lane_active(l)' \/ lane_skip(l)'
                 PROVE  Quiet(l)'
    BY <1>2 DEF LanesInv
  <2>2. Quiet(l)
    BY <1>2, <2>1 DEF IInv, LanesInv, lane_active, lane_skip, lane_col
  <2>3. tile'[l] = tile[l]
    BY <2>2, QuietTile DEF Beat, TilesStep
  <2> QED
    BY <1>2, <2>2, <2>3 DEF Quiet
<1>5. FlightInv'
  BY <1>2, RunningChannel DEF Beat, Where
<1> QED
  BY <1>2, <1>3, <1>4, <1>5 DEF IInv

\* What the end of a lane's tile leaves: the lane is idle, and the registers
\* that do not say where the array is have their types.
LEMMA EndTileFacts ==
    ASSUME IInv, NEW score_ready, NEW ended, Beat(score_ready, ended),
           EndTile(score_ready)
    PROVE  /\ state = "RUN" /\ score_valid /\ selected_last /\ Requests(~more_lanes)
           /\ tile_start' = [l \in Lanes |-> FALSE] /\ ~causal_skip_error'
           /\ causal_en' = causal_en
           /\ \A l \in Lanes : l <= emit_lane \/ ~lane_active(l) \/ lane_skip(l) => Quiet(l)'
           /\ tile' \in [Lanes -> Tiles] /\ vec_valid' \in BOOLEAN
           /\ read_pending' \in BOOLEAN /\ vec' \in Requested
           /\ lane_feed_count' \in [Lanes -> Nat] /\ round_robin_lane' \in Lanes
           /\ request_pending' \in BOOLEAN /\ request_owner' \in Lanes
           /\ skip_result_index' \in [Lanes -> 0 .. RESULT_N - 1]
           /\ tile_start' \in [Lanes -> BOOLEAN] /\ causal_en' \in BOOLEAN
<1>1. /\ tile' \in [Lanes -> Tiles]
      /\ vec_valid' \in BOOLEAN /\ read_pending' \in BOOLEAN /\ vec' \in Requested
  BY DataTyped DEF IInv, Beat
<1>2. /\ state = "RUN" /\ score_valid /\ selected_last /\ score_ready
      /\ Requests(~more_lanes)
      /\ tile_start' = [l \in Lanes |-> FALSE] /\ causal_en' = causal_en
      /\ skip_result_index' = skip_result_index
      /\ ~causal_skip_error'
  BY NoSkipError DEF EndTile, Run, Fire, NoStart, Beat, IInv
<1>3. /\ lane_feed_count' \in [Lanes -> Nat] /\ round_robin_lane' \in Lanes
      /\ request_pending' \in BOOLEAN /\ request_owner' \in Lanes
  BY <1>2, RequestsTyped DEF IInv
<1>4. ASSUME NEW l \in Lanes, l <= emit_lane \/ ~lane_active(l) \/ lane_skip(l)
      PROVE  Quiet(l)'
  <2>1. CASE Quiet(l)
    <3>1. tile'[l] = tile[l]
      BY <2>1, QuietTile DEF Beat, TilesStep
    <3> QED
      BY <1>2, <2>1, <3>1 DEF Quiet
  <2>2. CASE ~Quiet(l)
    <3>1. l \in Nat /\ emit_lane \in Nat
      BY Sizes DEF IInv, TypeOK
    <3>2. l = emit_lane /\ ~lane_skip(l)
      BY <1>2, <1>4, <2>2, <3>1 DEF IInv, LanesInv
    <3>3. /\ tile[l].phase = "OUT" /\ tile[l].index = RESULT_N - 1
          /\ tile_out_ready(l, score_ready)
      BY <1>2, <3>2 DEF score_valid, selected_last, selected_index, selected_skip,
                         tile_out_ready
    <3>4. tile'[l] = [tile[l] EXCEPT !.phase = "IDLE"]
      BY <3>3, SentTile DEF Beat, TilesStep
    <3>5. tile[l] \in Tiles
      BY DEF IInv, TypeOK
    <3>6. tile'[l].phase = "IDLE"
      BY <3>4, <3>5 DEF Tiles
    <3> QED
      BY <1>2, <3>6 DEF Quiet
  <2> QED
    BY <2>1, <2>2
<1>5. tile_start' \in [Lanes -> BOOLEAN] /\ causal_en' \in BOOLEAN
      /\ skip_result_index' \in [Lanes -> 0 .. RESULT_N - 1]
  BY <1>2 DEF IInv, TypeOK
<1> QED
  BY <1>1, <1>2, <1>3, <1>4, <1>5

\* The next lane of the same row of tiles sends its results.
LEMMA NextLaneKeeps ==
    ASSUME IInv, NEW score_ready, NEW ended, Beat(score_ready, ended),
           NextLane(score_ready)
    PROVE  IInv'
<1>1. EndTile(score_ready)
  BY DEF NextLane
<1>2. /\ state' = "RUN" /\ emit_lane' = emit_lane + 1 /\ more_lanes
      /\ UNCHANGED <<head_reg, row_base_reg, pair_col_base_reg, causal_en>>
  BY <1>1, EndTileFacts DEF NextLane, Where, Beat
<1>3. emit_lane \in Nat /\ emit_lane + 1 \in Lanes
  BY <1>2, Sizes, LaneNumbers DEF more_lanes, IInv, TypeOK
<1>4. TypeOK'
  BY <1>1, <1>2, <1>3, EndTileFacts DEF IInv, TypeOK, Aligned
<1>5. LanesInv'
  <2>1. SUFFICES ASSUME NEW l \in Lanes,
                        l < emit_lane + 1 \/ ~lane_active(l)' \/ lane_skip(l)'
                 PROVE  Quiet(l)'
    BY <1>2 DEF LanesInv
  <2>2. l \in Nat
    BY Sizes
  <2>3. l <= emit_lane \/ ~lane_active(l) \/ lane_skip(l)
    BY <1>2, <1>3, <2>1, <2>2 DEF lane_active, lane_skip, lane_col
  <2> QED
    BY <1>1, <2>3, EndTileFacts
<1>6. FlightInv'
  <2>1. state = "RUN" /\ Requests(FALSE) /\ UNCHANGED Where
    BY <1>1, <1>2, EndTileFacts DEF Where
  <2> QED
    BY <1>2, <2>1, RunningChannel DEF Beat
<1> QED
  BY <1>1, <1>4, <1>5, <1>6, EndTileFacts DEF IInv

\* The last lane's tile is sent: the array moves on, or the launch is over.
LEMMA NextTilesKeeps ==
    ASSUME IInv, NEW score_ready, NEW ended, Beat(score_ready, ended),
           NextTiles(score_ready)
    PROVE  IInv'
<1>1. EndTile(score_ready) /\ ~more_lanes
  BY DEF NextTiles
<1>2. state' \in {"IDLE", "START"} /\ emit_lane' = emit_lane /\ NextPosition
  BY DEF NextTiles
<1>3. /\ head_reg' \in Nat
      /\ row_base_reg' \in Nat /\ Aligned(row_base_reg')
      /\ pair_col_base_reg' \in Nat /\ Aligned(pair_col_base_reg')
  <2>1. /\ head_reg \in Nat /\ row_base_reg \in Nat /\ Aligned(row_base_reg)
        /\ pair_col_base_reg \in Nat /\ Aligned(pair_col_base_reg)
    BY DEF IInv, TypeOK
  <2>2. 0 \in Nat /\ Aligned(0)
    <3>1. 0 = 0 * TILE
      BY Sizes
    <3> QED BY <3>1 DEF Aligned
  <2>3. pair_col_base_reg + PAIR_SPAN \in Nat /\ Aligned(pair_col_base_reg + PAIR_SPAN)
    BY <2>1, AlignedSum, Sizes
  <2>4. row_base_reg + TILE \in Nat /\ Aligned(row_base_reg + TILE)
    <3>1. 1 \in Nat /\ 1 * TILE = TILE
      BY Sizes
    <3>2. row_base_reg + 1 * TILE \in Nat /\ Aligned(row_base_reg + 1 * TILE)
      BY <2>1, <3>1, AlignedSum
    <3> QED BY <3>1, <3>2
  <2>5. /\ pair_col_base_reg' \in {pair_col_base_reg + PAIR_SPAN, 0}
        /\ row_base_reg' \in {row_base_reg, row_base_reg + TILE, 0}
        /\ head_reg' \in {head_reg, head_reg + 1}
    BY <1>2, Zenon DEF NextPosition
  <2> QED
    BY <2>1, <2>2, <2>3, <2>4, <2>5
<1>4. TypeOK'
  BY <1>1, <1>2, <1>3, EndTileFacts DEF IInv, TypeOK, Aligned
<1>5. LanesInv'
  <2>1. SUFFICES ASSUME NEW l \in Lanes PROVE Quiet(l)'
    BY DEF LanesInv
  <2>2. l <= emit_lane \/ ~lane_active(l)
    <3>1. SUFFICES ASSUME ~(l <= emit_lane), lane_active(l) PROVE FALSE
      OBVIOUS
    <3>2. TypeOK /\ emit_lane \in Nat /\ l \in Nat
      BY Sizes DEF IInv, TypeOK
    <3>3. emit_lane + 1 <= l /\ emit_lane + 1 \in Lanes
      BY <3>1, <3>2, LaneNumbers, Sizes
    <3>4. lane_active(emit_lane + 1)
      BY <3>1, <3>2, <3>3, LaneOrder
    <3> QED
      BY <1>1, <3>3, <3>4, LaneNumbers DEF more_lanes
  <2> QED
    BY <1>1, <2>2, EndTileFacts
<1>6. FlightInv'
  <2>1. /\ state = "RUN" /\ Requests(TRUE)
        /\ \A l \in Lanes : ~lane_needs_vector(l)
    BY <1>1, EndTileFacts, NoneNeeds
  <2> QED
    BY <2>1, RunningChannel DEF Beat
<1> QED
  BY <1>1, <1>4, <1>5, <1>6, EndTileFacts DEF IInv

LEMMA Invariance == Spec => []IInv
<1>1. Init => IInv
  BY InitInv
<1>2. IInv /\ [Next]_vars => IInv'
  <2> SUFFICES ASSUME IInv, [Next]_vars
               PROVE  IInv'
    OBVIOUS
  <2>1. CASE Next
    <3>1. PICK start \in BOOLEAN, score_ready \in BOOLEAN, ended \in SUBSET WorkingLanes :
              Edge(start, score_ready, ended)
      BY <2>1 DEF Next
    <3>2. Beat(score_ready, ended)
      BY <3>1 DEF Edge, Beat
    <3>3. \/ Idle \/ Start \/ StartTiles \/ RunOn(score_ready)
          \/ NextLane(score_ready) \/ NextTiles(score_ready)
      BY <3>1 DEF Edge
    <3> QED
      BY <3>2, <3>3, RestKeeps, StartTilesKeeps, RunOnKeeps, NextLaneKeeps, NextTilesKeeps
  <2>2. CASE UNCHANGED vars
    <3>1. /\ UNCHANGED <<state, head_reg, row_base_reg, pair_col_base_reg, tile_start,
                         lane_feed_count, request_pending, request_owner,
                         round_robin_lane, emit_lane, skip_result_index>>
          /\ UNCHANGED <<causal_skip_error, causal_en, tile, vec_valid, read_pending, vec>>
      BY <2>2 DEF vars, schedVars
    <3>2. TypeOK'
      BY <3>1 DEF IInv, TypeOK, Aligned
    <3>3. LanesInv'
      BY <3>1 DEF IInv, LanesInv, Quiet, lane_active, lane_skip, lane_col
    <3>4. lane_needs_vector(request_owner)' <=> lane_needs_vector(request_owner)
      BY <3>1 DEF lane_needs_vector, lane_active, lane_skip, lane_col, tile_in_ready
    <3>5. request_pending => request' = request
      BY <3>1 DEF request, data_owner, lane_col
    <3>6. FlightInv'
      BY <3>1, <3>4, <3>5 DEF IInv, FlightInv, InFlight
    <3> QED
      BY <3>1, <3>2, <3>3, <3>6 DEF IInv
  <2> QED
    BY <2>1, <2>2
<1> QED
  BY <1>1, <1>2, PTL DEF Spec
-----------------------------------------------------------------------------
\* Every register of the scheduler, of the tiles and of the read channel keeps
\* its type, and the tiles' positions stay multiples of the tile size.
THEOREM TypeCorrect == Spec => []TypeOK
<1>1. IInv => TypeOK
  BY DEF IInv
<1> QED
  BY <1>1, Invariance, PTL

\* The vector the cache reads or holds is the one the owner of the request still
\* waits for, in every edge between the request and its delivery, and the checker
\* of skipped tiles never fires (the arbiter and the request registers of
\* qk_parallel_systolic_gqa_top.sv).
THEOREM VectorIsAwaitedAlways == Spec => []VectorIsAwaited
<1>1. IInv => VectorIsAwaited
  BY DEF IInv, FlightInv, InFlight, VectorIsAwaited
<1> QED
  BY <1>1, Invariance, PTL
-----------------------------------------------------------------------------
(***************************************************************************)
(* The stream.  The number of scores sent so far is the number of the      *)
(* score at the output port, in a numbering whose digits are head, row     *)
(* tile, column tile and place in the tile (Number).  What the port shows  *)
(* is right because the tile at it was fed its own vectors, in order and   *)
(* all of them (Fed), by however many requests of other lanes in between.  *)
(***************************************************************************)
Number(head, r, c, i) == ((head * RowTiles + r) * RowTiles + c) * RESULT_N + i

\* The place in the tile of the score the emitting lane sends next.
NextIndex ==
    IF selected_skip THEN skip_result_index[emit_lane]
    ELSE IF tile[emit_lane].phase = "IDLE" THEN 0 ELSE tile[emit_lane].index

\* The array is at row tile r and its first lane at column tile c.
At(r, c) ==
    /\ row_base_reg = r * TILE /\ pair_col_base_reg = c * TILE
    /\ state = "START" => sent = Number(head_reg, r, c, 0)
    /\ state = "RUN" => /\ c + emit_lane < RowTiles
                        /\ sent = Number(head_reg, r, c + emit_lane, NextIndex)

PlaceInv ==
    state # "IDLE" =>
        /\ head_reg < Q_HEADS
        /\ \E r, c \in 0 .. RowTiles - 1 : At(r, c)

\* Nothing of the lanes behind the emitting one has been sent.
Fresh(l) ==
    /\ skip_result_index[l] = 0
    /\ tile[l].phase # "IDLE" => tile[l].index = 0

\* The tile of a lane that computes holds the first vectors of its own dot
\* products, and the lane's counter is their number.
Fed(l) ==
    /\ tile[l].phase = "IDLE" => tile_start[l] /\ lane_feed_count[l] = 0
    /\ tile[l].phase = "CLEAR" => tile[l].fed = <<>> /\ lane_feed_count[l] = 0
    /\ tile[l].phase \in {"CLEAR", "WAIT_INPUT", "MAC", "FLUSH"} => tile[l].index = 0
    /\ tile[l].phase # "IDLE" =>
           /\ Len(tile[l].fed) <= HEAD_DIM
           /\ \A i \in 1 .. Len(tile[l].fed) :
                  tile[l].fed[i] = Stream!Vector(head_reg, row_base_reg, lane_col(l), i - 1)
    /\ tile[l].phase \in {"WAIT_INPUT", "MAC"} =>
           lane_feed_count[l] = Len(tile[l].fed) % DimMod
    /\ tile[l].phase \in {"FLUSH", "SCALE", "OUT"} => Len(tile[l].fed) = HEAD_DIM

FedInv ==
    state = "RUN" =>
        \A l \in Lanes :
            /\ l > emit_lane => Fresh(l)
            /\ l >= emit_lane /\ lane_active(l) /\ ~lane_skip(l) => Fed(l)

StreamInv == IInv /\ PlaceInv /\ FedInv
-----------------------------------------------------------------------------
\* The rows are whole tiles.
LEMMA Geometry ==
    /\ RowTiles \in Nat \ {0} /\ TILE \in Nat \ {0} /\ RESULT_N \in Nat \ {0}
    /\ SEQ_LEN = RowTiles * TILE /\ RESULT_N = TILE * TILE
<1>1. TILE \in Nat \ {0} /\ SEQ_LEN \in Nat \ {0} /\ RESULT_N \in Nat \ {0}
      /\ SEQ_LEN % TILE = 0
  BY Sizes, QkAssumption
<1>2. RowTiles \in Nat /\ SEQ_LEN = RowTiles * TILE + (SEQ_LEN % TILE)
  BY <1>1 DEF RowTiles
<1>3. SEQ_LEN = RowTiles * TILE
  BY <1>1, <1>2
<1>4. RowTiles # 0
  <2>1. 0 * TILE = 0
    BY <1>1
  <2> QED BY <1>1, <1>3, <2>1
<1> QED
  BY <1>1, <1>2, <1>3, <1>4 DEF RESULT_N

\* A quotient and a remainder are what they should be.
LEMMA QuotientOf ==
    ASSUME NEW t \in Nat \ {0}, NEW a \in Nat, NEW r \in 0 .. t - 1
    PROVE  (a * t + r) \div t = a /\ (a * t + r) % t = r
  OBVIOUS

\* Rows of h below n of them stay below n * h.
LEMMA BelowProduct ==
    ASSUME NEW n \in Nat, NEW h \in Nat \ {0}, NEW a \in 0 .. n - 1, NEW r \in 0 .. h - 1
    PROVE  a * h + r \in 0 .. n * h - 1
<1>1. (a + 1) * h <= n * h
  <2>1. a + 1 <= n /\ a + 1 \in Nat
    OBVIOUS
  <2> QED BY <2>1, ProductOrder
<1>2. (a + 1) * h = a * h + h /\ a * h \in Nat /\ n * h \in Nat
  OBVIOUS
<1> QED
  BY <1>1, <1>2

\* Multiples of the tile size are ordered as their factors.
LEMMA TileOrder ==
    ASSUME NEW a \in Nat, NEW b \in Nat
    PROVE  /\ a * TILE \in Nat
           /\ a * TILE < b * TILE <=> a < b
           /\ a * TILE + TILE = (a + 1) * TILE
<1>1. TILE \in Nat \ {0} /\ a * TILE \in Nat /\ b * TILE \in Nat
  BY Sizes
<1>2. a * TILE + TILE = (a + 1) * TILE
  BY <1>1
<1>3. ASSUME a < b PROVE a * TILE < b * TILE
  <2>1. a + 1 \in Nat /\ a + 1 <= b
    BY <1>3
  <2>2. (a + 1) * TILE <= b * TILE
    BY <1>1, <2>1, ProductOrder
  <2> QED BY <1>1, <1>2, <2>2
<1>4. ASSUME b <= a PROVE ~(a * TILE < b * TILE)
  <2>1. b * TILE <= a * TILE
    BY <1>1, <1>4, ProductOrder
  <2> QED BY <1>1, <2>1
<1> QED
  BY <1>1, <1>2, <1>3, <1>4

\* The digits of a score's number.
LEMMA Digits ==
    ASSUME NEW h \in Nat, NEW r \in 0 .. RowTiles - 1, NEW c \in 0 .. RowTiles - 1,
           NEW i \in 0 .. RESULT_N - 1, NEW n, n = Number(h, r, c, i)
    PROVE  /\ n \in Nat
           /\ Stream!HeadOf(n) = h /\ Stream!TileOf(n) = r * RowTiles + c
           /\ n % Stream!TileItems = i
<1> DEFINE R == RowTiles
           N == RESULT_N
           k == r * R + c
           j == k * N + i
           M == (R * R) * N
<1>1. R \in Nat \ {0} /\ N \in Nat \ {0}
  BY Geometry
<1>2. k \in 0 .. R * R - 1 /\ R * R \in Nat \ {0}
  <2>1. R * R \in Nat \ {0}
    BY <1>1
  <2> QED BY <1>1, <2>1, BelowProduct
<1>m. Stream!HeadItems = M /\ Stream!TileItems = N
  <2>1. Stream!HeadItems = SEQ_LEN * SEQ_LEN /\ Stream!TileItems = TILE * TILE
    BY DEF Stream!HeadItems, Stream!TileItems
  <2>2. TILE \in Nat /\ SEQ_LEN = R * TILE /\ N = TILE * TILE /\ R \in Nat
    BY Geometry
  <2> HIDE DEF R, N
  <2>3. (R * TILE) * (R * TILE) = (R * R) * (TILE * TILE)
    BY <2>2
  <2> QED BY <2>1, <2>2, <2>3
<1>n. n = ((h * R + r) * R + c) * N + i
  BY DEF Number
<1> HIDE DEF R, N
<1>3. j \in 0 .. M - 1 /\ M \in Nat \ {0}
  <2> HIDE DEF k
  <2>1. M \in Nat \ {0}
    BY <1>1, <1>2
  <2> QED BY <1>1, <1>2, <2>1, BelowProduct DEF N
<1>4. n = h * M + j
  <2>1. (h * R + r) * R + c = h * (R * R) + k /\ k \in Nat
    BY <1>1 DEF R
  <2> HIDE DEF k
  <2>2. (h * (R * R) + k) * N = h * ((R * R) * N) + k * N
    BY <1>1, <2>1
  <2>3. h * ((R * R) * N) \in Nat /\ k * N \in Nat /\ i \in Nat
    BY <1>1, <2>1
  <2> QED BY <1>n, <2>1, <2>2, <2>3
<1>5. n \in Nat /\ n \div M = h /\ n % M = j
  <2> HIDE DEF M, j
  <2>1. h * M \in Nat
    BY <1>3
  <2> QED BY <1>3, <1>4, <2>1, QuotientOf
<1>6. j \div N = k
  <2> HIDE DEF k
  <2>1. i \in 0 .. N - 1 /\ k \in Nat
    BY <1>2 DEF N
  <2>2. (k * N + i) \div N = k
    BY <1>1, <2>1, QuotientOf
  <2> QED BY <2>2
<1>7. n % N = i
  <2> DEFINE q == (h * R + r) * R + c
  <2>1. q \in Nat
    BY <1>1 DEF R
  <2>2. i \in 0 .. N - 1 /\ n = q * N + i
    BY <1>n DEF N
  <2> HIDE DEF q
  <2> QED BY <1>1, <2>1, <2>2, QuotientOf
<1>8. Stream!TileOf(n) = k
  BY <1>m, <1>5, <1>6 DEF Stream!TileOf
<1>9. Stream!HeadOf(n) = h
  BY <1>m, <1>5 DEF Stream!HeadOf
<1> QED
  BY <1>m, <1>5, <1>7, <1>8, <1>9 DEF R

\* The position of the numbered score, and when it is the last one.
LEMMA NumberedPlace ==
    ASSUME NEW h \in Nat, h < Q_HEADS, NEW r \in 0 .. RowTiles - 1,
           NEW c \in 0 .. RowTiles - 1, NEW i \in 0 .. RESULT_N - 1,
           NEW n, n = Number(h, r, c, i)
    PROVE  /\ Stream!RowBase(n) = r * TILE /\ Stream!ColBase(n) = c * TILE
           /\ Stream!RowOf(n) = r * TILE + i \div TILE
           /\ Stream!ColOf(n) = c * TILE + (i % TILE)
<1>1. Stream!TileOf(n) = r * RowTiles + c /\ n % Stream!TileItems = i
  BY Digits
<1>2. (r * RowTiles + c) \div RowTiles = r /\ (r * RowTiles + c) % RowTiles = c
  <2>1. RowTiles \in Nat \ {0} /\ r \in Nat
    BY Geometry
  <2> QED BY <2>1, QuotientOf
<1>3. Stream!RowTiles = RowTiles
  BY DEF Stream!RowTiles, RowTiles
<1>4. Stream!RowBase(n) = r * TILE /\ Stream!ColBase(n) = c * TILE
  BY <1>1, <1>2, <1>3 DEF Stream!RowBase, Stream!ColBase
<1> QED
  BY <1>1, <1>4 DEF Stream!RowOf, Stream!ColOf

\* The largest number of two digits has the largest digits.
LEMMA LargestDigits ==
    ASSUME NEW n \in Nat \ {0}, NEW h \in Nat \ {0}, NEW a \in 0 .. n - 1, NEW r \in 0 .. h - 1
    PROVE  a * h + r = n * h - 1 <=> a = n - 1 /\ r = h - 1
<1>1. n * h = (n - 1) * h + h /\ (n - 1) * h \in Nat /\ a * h \in Nat /\ a \in Nat
  OBVIOUS
<1>2. ASSUME a # n - 1 PROVE a * h + r < n * h - 1
  <2>1. (a + 1) * h <= (n - 1) * h
    <3>1. a + 1 <= n - 1 /\ a + 1 \in Nat /\ n - 1 \in Nat
      BY <1>2
    <3> QED BY <3>1, ProductOrder
  <2>2. (a + 1) * h = a * h + h
    OBVIOUS
  <2> QED BY <1>1, <2>1, <2>2
<1>3. ASSUME a = n - 1 PROVE a * h + r = n * h - 1 <=> r = h - 1
  BY <1>1, <1>3
<1> QED
  <2>1. CASE a = n - 1
    BY <1>3, <2>1
  <2>2. CASE a # n - 1
    <3>1. a * h + r < n * h - 1 /\ a * h + r \in Nat
      BY <1>1, <1>2, <2>2
    <3> QED BY <1>1, <2>2, <3>1
  <2> QED BY <2>1, <2>2

\* The scores are numbered up to the last one of the last head.
LEMMA LastNumber ==
    ASSUME NEW h \in 0 .. Q_HEADS - 1, NEW r \in 0 .. RowTiles - 1,
           NEW c \in 0 .. RowTiles - 1, NEW i \in 0 .. RESULT_N - 1
    PROVE  /\ Stream!Total \in Nat /\ Number(h, r, c, i) \in 0 .. Stream!Total - 1
           /\ Number(h, r, c, i) = Stream!Total - 1
              <=> h = Q_HEADS - 1 /\ r = RowTiles - 1 /\ c = RowTiles - 1 /\ i = RESULT_N - 1
<1> DEFINE R == RowTiles
           N == RESULT_N
           Q == Q_HEADS
           row == h * R + r
           at == row * R + c
<1>1. R \in Nat \ {0} /\ N \in Nat \ {0} /\ Q \in Nat \ {0}
  BY Geometry, QkAssumption
<1>2. Stream!Total = ((Q * R) * R) * N
  <2>1. Stream!Total = Q * (SEQ_LEN * SEQ_LEN)
    BY DEF Stream!Total, Stream!HeadItems
  <2>2. TILE \in Nat /\ SEQ_LEN = R * TILE /\ N = TILE * TILE
    BY Geometry
  <2> HIDE DEF R, N, Q
  <2>3. Q * ((R * TILE) * (R * TILE)) = ((Q * R) * R) * (TILE * TILE)
    BY <1>1, <2>2
  <2> QED BY <2>1, <2>2, <2>3
<1>3. Number(h, r, c, i) = at * N + i
  BY DEF Number
<1>4. h \in 0 .. Q - 1 /\ r \in 0 .. R - 1 /\ c \in 0 .. R - 1 /\ i \in 0 .. N - 1
  OBVIOUS
<1> HIDE DEF R, N, Q
<1>5. row \in 0 .. Q * R - 1 /\ (row = Q * R - 1 <=> h = Q - 1 /\ r = R - 1)
      /\ Q * R \in Nat \ {0}
  <2>1. Q * R \in Nat \ {0}
    BY <1>1
  <2> QED BY <1>1, <1>4, <2>1, BelowProduct, LargestDigits
<1> HIDE DEF row
<1>6. at \in 0 .. (Q * R) * R - 1 /\ (at = (Q * R) * R - 1 <=> row = Q * R - 1 /\ c = R - 1)
      /\ (Q * R) * R \in Nat \ {0}
  <2> DEFINE M == Q * R
  <2>1. M \in Nat \ {0} /\ row \in 0 .. M - 1
    BY <1>5
  <2> HIDE DEF M
  <2>2. at \in 0 .. M * R - 1 /\ (at = M * R - 1 <=> row = M - 1 /\ c = R - 1)
        /\ M * R \in Nat \ {0}
    <3>1. M * R \in Nat \ {0}
      BY <1>1, <2>1
    <3> QED BY <1>1, <1>4, <2>1, <3>1, BelowProduct, LargestDigits
  <2> QED BY <2>2 DEF M
<1> HIDE DEF at
<1>7. /\ at * N + i \in 0 .. ((Q * R) * R) * N - 1
      /\ at * N + i = ((Q * R) * R) * N - 1 <=> at = (Q * R) * R - 1 /\ i = N - 1
      /\ ((Q * R) * R) * N \in Nat
  <2> DEFINE M == (Q * R) * R
  <2>1. M \in Nat \ {0} /\ at \in 0 .. M - 1
    BY <1>6
  <2> HIDE DEF M
  <2>2. /\ at * N + i \in 0 .. M * N - 1
        /\ at * N + i = M * N - 1 <=> at = M - 1 /\ i = N - 1
        /\ M * N \in Nat
    <3>1. M * N \in Nat
      BY <1>1, <2>1
    <3> QED BY <1>1, <1>4, <2>1, <3>1, BelowProduct, LargestDigits
  <2> QED BY <2>2 DEF M
<1>8. at * N + i = ((Q * R) * R) * N - 1 <=> h = Q - 1 /\ r = R - 1 /\ c = R - 1 /\ i = N - 1
  BY <1>5, <1>6, <1>7
<1> QED
  BY <1>2, <1>3, <1>7, <1>8 DEF R, N, Q

\* Only the last place of the last tile is at the end of both its row and column.
LEMMA LastPlace ==
    ASSUME NEW r \in 0 .. RowTiles - 1, NEW c \in 0 .. RowTiles - 1,
           NEW i \in 0 .. RESULT_N - 1
    PROVE  r * TILE + i \div TILE = SEQ_LEN - 1 /\ c * TILE + (i % TILE) = SEQ_LEN - 1
           <=> r = RowTiles - 1 /\ c = RowTiles - 1 /\ i = RESULT_N - 1
<1>1. TILE \in Nat \ {0} /\ RowTiles \in Nat \ {0} /\ SEQ_LEN = RowTiles * TILE
      /\ RESULT_N = TILE * TILE
  BY Geometry
<1> DEFINE q == i \div TILE
           m == i % TILE
<1>2. q \in 0 .. TILE - 1 /\ m \in 0 .. TILE - 1 /\ i = q * TILE + m
  <2>1. q \in Nat /\ q < TILE
    BY RowInTile
  <2>2. m \in 0 .. TILE - 1 /\ i = TILE * q + m
    BY <1>1
  <2>3. TILE * q = q * TILE
    BY <1>1, <2>1
  <2> QED BY <1>1, <2>1, <2>2, <2>3
<1> HIDE DEF q, m
<1>3. r * TILE + q = SEQ_LEN - 1 <=> r = RowTiles - 1 /\ q = TILE - 1
  BY <1>1, <1>2, LargestDigits
<1>4. c * TILE + m = SEQ_LEN - 1 <=> c = RowTiles - 1 /\ m = TILE - 1
  BY <1>1, <1>2, LargestDigits
<1>5. i = RESULT_N - 1 <=> q = TILE - 1 /\ m = TILE - 1
  BY <1>1, <1>2, LargestDigits
<1>6. r * TILE + q = SEQ_LEN - 1 /\ c * TILE + m = SEQ_LEN - 1
      <=> r = RowTiles - 1 /\ c = RowTiles - 1 /\ i = RESULT_N - 1
  BY <1>3, <1>4, <1>5, Zenon
<1> QED
  BY <1>6 DEF q, m

\* The number after a number: the digits carry.
LEMMA NextNumber ==
    ASSUME NEW h \in Nat, NEW r \in Nat, NEW c \in Nat, NEW i \in Nat
    PROVE  /\ Number(h, r, c, i) \in Nat
           /\ Number(h, r, c, i) + 1 = Number(h, r, c, i + 1)
           /\ i = RESULT_N - 1 => Number(h, r, c, i) + 1 = Number(h, r, c + 1, 0)
           /\ i = RESULT_N - 1 /\ c = RowTiles - 1 =>
                  /\ Number(h, r, c, i) + 1 = Number(h, r + 1, 0, 0)
                  /\ r = RowTiles - 1 => Number(h, r, c, i) + 1 = Number(h + 1, 0, 0, 0)
<1> DEFINE R == RowTiles
           N == RESULT_N
           row == h * R + r
           at == row * R + c
<1>1. R \in Nat \ {0} /\ N \in Nat \ {0}
  BY Geometry
<1>n. \A h1, r1, c1, i1 \in Nat : Number(h1, r1, c1, i1) = ((h1 * R + r1) * R + c1) * N + i1
  BY DEF Number
<1> HIDE DEF R, N
<1>2. row \in Nat /\ at \in Nat /\ at * N \in Nat
  <2>1. row \in Nat
    BY <1>1
  <2>2. at \in Nat
    <3> HIDE DEF row
    <3> QED BY <1>1, <2>1
  <2> HIDE DEF at
  <2> QED BY <1>1, <2>1, <2>2
<1>3. Number(h, r, c, i) = at * N + i /\ Number(h, r, c, i + 1) = at * N + (i + 1)
  BY <1>n
<1>4. ASSUME i = N - 1
      PROVE  at * N + i + 1 = (at + 1) * N /\ Number(h, r, c + 1, 0) = (at + 1) * N
  <2>1. Number(h, r, c + 1, 0) = (row * R + (c + 1)) * N + 0
    BY <1>n
  <2>2. row * R + (c + 1) = at + 1
    <3> HIDE DEF row
    <3>1. row * R \in Nat
      BY <1>1, <1>2
    <3> QED BY <3>1
  <2> HIDE DEF at
  <2>3. (at + 1) * N = at * N + N /\ (at + 1) * N \in Nat
    BY <1>1, <1>2
  <2> QED BY <1>1, <1>2, <1>4, <2>1, <2>2, <2>3
<1>5. ASSUME i = N - 1, c = R - 1
      PROVE  (at + 1) * N = ((row + 1) * R) * N /\ Number(h, r + 1, 0, 0) = ((row + 1) * R) * N
  <2>1. Number(h, r + 1, 0, 0) = ((h * R + (r + 1)) * R + 0) * N + 0
    BY <1>n
  <2>2. h * R + (r + 1) = row + 1
    <3>1. h * R \in Nat
      BY <1>1
    <3> QED BY <3>1
  <2> HIDE DEF row
  <2>3. at + 1 = (row + 1) * R
    <3>1. (row + 1) * R = row * R + R /\ row * R \in Nat
      BY <1>1, <1>2
    <3> QED BY <1>1, <1>5, <3>1
  <2>4. ((row + 1) * R) * N \in Nat /\ (row + 1) * R \in Nat
    BY <1>1, <1>2
  <2> QED BY <2>1, <2>2, <2>3, <2>4
<1>6. ASSUME i = N - 1, c = R - 1, r = R - 1
      PROVE  Number(h + 1, 0, 0, 0) = ((row + 1) * R) * N
  <2>1. Number(h + 1, 0, 0, 0) = (((h + 1) * R + 0) * R + 0) * N + 0
    BY <1>n
  <2>2. (h + 1) * R = row + 1
    <3>1. (h + 1) * R = h * R + R /\ h * R \in Nat
      BY <1>1
    <3> QED BY <1>1, <1>6, <3>1
  <2> HIDE DEF row
  <2>3. ((row + 1) * R) * N \in Nat /\ (row + 1) * R \in Nat /\ row + 1 \in Nat
    BY <1>1, <1>2
  <2> QED BY <2>1, <2>2, <2>3
<1> HIDE DEF row, at
<1> QED
  BY <1>2, <1>3, <1>4, <1>5, <1>6 DEF R, N
-----------------------------------------------------------------------------
\* What one edge makes of a tile.
LEMMA TileMoves ==
    ASSUME TypeOK, NEW l \in Lanes, NEW score_ready, NEW ended,
           TilesStep(score_ready, ended), NEW t, t = tile[l], NEW n, n = tile'[l]
    PROVE  /\ t.phase = "IDLE" /\ ~tile_start[l] => n = t
           /\ t.phase = "IDLE" /\ tile_start[l] =>
                  n.phase = "CLEAR" /\ n.fed = <<>> /\ n.index = 0
           /\ t.phase = "CLEAR" => n.phase = "WAIT_INPUT" /\ n.fed = t.fed /\ n.index = t.index
           /\ t.phase = "WAIT_INPUT" /\ Len(t.fed) = HEAD_DIM =>
                  n.phase = "FLUSH" /\ n.fed = t.fed /\ n.index = t.index
           /\ t.phase = "WAIT_INPUT" /\ Len(t.fed) # HEAD_DIM /\ delivered /\ data_owner = l =>
                  n.phase = "MAC" /\ n.fed = Append(t.fed, vec) /\ n.index = t.index
           /\ t.phase = "WAIT_INPUT" /\ Len(t.fed) # HEAD_DIM /\ ~(delivered /\ data_owner = l) =>
                  n = t
           /\ t.phase = "MAC" =>
                  n.phase \in {"MAC", "WAIT_INPUT"} /\ n.fed = t.fed /\ n.index = t.index
           /\ t.phase = "FLUSH" =>
                  n.phase \in {"FLUSH", "SCALE"} /\ n.fed = t.fed /\ n.index = t.index
           /\ t.phase = "SCALE" =>
                  n.phase \in {"SCALE", "OUT"} /\ n.fed = t.fed /\ n.index = t.index
           /\ t.phase = "OUT" /\ ~tile_out_ready(l, score_ready) => n = t
           /\ t.phase = "OUT" /\ tile_out_ready(l, score_ready) /\ t.index = RESULT_N - 1 =>
                  n.phase = "IDLE"
           /\ t.phase = "OUT" /\ tile_out_ready(l, score_ready) /\ t.index # RESULT_N - 1 =>
                  n.phase = "SCALE" /\ n.fed = t.fed /\ n.index = t.index + 1
<1>1. t \in Tiles /\ n = TileNext(l, score_ready, ended)
  BY DEF TypeOK, TilesStep
<1>w. /\ "IDLE" \notin Working /\ "CLEAR" \notin Working /\ "WAIT_INPUT" \notin Working
      /\ "OUT" \notin Working /\ "MAC" \in Working /\ "FLUSH" \in Working /\ "SCALE" \in Working
  BY DEF Working
<1>2. CASE t.phase = "IDLE"
  <2>1. n = IF tile_start[l] THEN [phase |-> "CLEAR", fed |-> <<>>, index |-> 0] ELSE t
    BY <1>1, <1>2 DEF TileNext, Working
  <2> QED BY <1>2, <2>1
<1>3. CASE t.phase = "CLEAR"
  <2>1. n = [t EXCEPT !.phase = "WAIT_INPUT"]
    BY <1>1, <1>3 DEF TileNext, Working
  <2> QED BY <1>1, <1>3, <2>1 DEF Tiles
<1>4. CASE t.phase = "WAIT_INPUT"
  <2>1. "IDLE" # "WAIT_INPUT" /\ "CLEAR" # "WAIT_INPUT" /\ "OUT" # "WAIT_INPUT"
    OBVIOUS
  <2>2. n = IF Len(t.fed) = HEAD_DIM THEN [t EXCEPT !.phase = "FLUSH"]
            ELSE IF delivered /\ data_owner = l
            THEN [t EXCEPT !.phase = "MAC", !.fed = Append(@, vec)] ELSE t
    BY <1>1, <1>4, <1>w, <2>1, Zenon DEF TileNext
  <2> DEFINE longer == Append(t.fed, vec)
  <2>3. n = IF Len(t.fed) = HEAD_DIM THEN [t EXCEPT !.phase = "FLUSH"]
            ELSE IF delivered /\ data_owner = l
            THEN [t EXCEPT !.phase = "MAC", !.fed = longer] ELSE t
    BY <2>2, Zenon
  <2> HIDE DEF longer
  <2>4. Len(t.fed) # HEAD_DIM /\ delivered /\ data_owner = l =>
            n.phase = "MAC" /\ n.fed = longer /\ n.index = t.index
    BY <1>1, <2>3 DEF Tiles
  <2>5. Len(t.fed) = HEAD_DIM => n.phase = "FLUSH" /\ n.fed = t.fed /\ n.index = t.index
    BY <1>1, <2>3 DEF Tiles
  <2>6. Len(t.fed) # HEAD_DIM /\ ~(delivered /\ data_owner = l) => n = t
    BY <2>3
  <2> QED BY <1>4, <2>4, <2>5, <2>6 DEF longer
<1>5. CASE t.phase \in Working
  <2>1. n = IF l \in ended THEN [t EXCEPT !.phase = Worked(@)] ELSE t
    BY <1>1, <1>5, <1>w, Zenon DEF TileNext
  <2> DEFINE p == Worked(t.phase)
  <2>2. n = IF l \in ended THEN [t EXCEPT !.phase = p] ELSE t
    BY <2>1, Zenon
  <2>3. /\ t.phase = "MAC" => p = "WAIT_INPUT"
        /\ t.phase = "FLUSH" => p = "SCALE"
        /\ t.phase = "SCALE" => p = "OUT"
    BY DEF Worked
  <2> HIDE DEF p
  <2>4. n.phase \in {t.phase, p} /\ n.fed = t.fed /\ n.index = t.index
    BY <1>1, <2>2 DEF Tiles
  <2> QED BY <1>5, <2>3, <2>4 DEF Working
<1>6. CASE t.phase = "OUT"
  <2>1. "IDLE" # "OUT" /\ "CLEAR" # "OUT" /\ "OUT" # "WAIT_INPUT"
    OBVIOUS
  <2>2. n = IF ~tile_out_ready(l, score_ready) THEN t
            ELSE IF t.index = RESULT_N - 1 THEN [t EXCEPT !.phase = "IDLE"]
            ELSE [t EXCEPT !.phase = "SCALE", !.index = @ + 1]
    BY <1>1, <1>6, <1>w, <2>1, Zenon DEF TileNext
  <2> QED BY <1>1, <1>6, <2>2 DEF Tiles
<1>7. t.phase \in {"IDLE", "CLEAR", "WAIT_INPUT", "OUT"} \cup Working
  BY <1>1 DEF Tiles, Phases, Working
<1> QED
  <2>1. CASE t.phase \in Working
    BY <1>5, <1>w, <2>1, Zenon
  <2>2. CASE t.phase = "IDLE"
    BY <1>2, <2>2
  <2>3. CASE t.phase = "CLEAR"
    BY <1>3, <2>3
  <2>4. CASE t.phase = "WAIT_INPUT"
    BY <1>4, <2>4
  <2>5. CASE t.phase = "OUT"
    BY <1>6, <2>5
  <2> QED BY <1>7, <2>1, <2>2, <2>3, <2>4, <2>5

\* The vector handed over is the next one its tile waits for.
LEMMA HandedOver ==
    ASSUME IInv, delivered
    PROVE  /\ data_owner \in Lanes /\ lane_needs_vector(data_owner)
           /\ vec = Stream!Vector(head_reg, row_base_reg, lane_col(data_owner),
                                  lane_feed_count[data_owner])
<1>1. /\ request_pending /\ vec = request /\ lane_needs_vector(request_owner)
      /\ request_owner \in Lanes
  BY DEF IInv, FlightInv, InFlight, TypeOK, delivered
<1>2. data_owner = request_owner
  BY <1>1 DEF data_owner
<1> QED
  BY <1>1, <1>2 DEF request, Stream!Vector

\* A lane's tile goes on holding its own vectors.
LEMMA FedStays ==
    ASSUME IInv, state = "RUN", NEW score_ready, NEW ended, Beat(score_ready, ended),
           NEW pair_done, Requests(pair_done), NoStart, UNCHANGED Where,
           NEW l \in Lanes, Fed(l), lane_active(l), ~lane_skip(l),
           ~(/\ tile[l].phase = "OUT" /\ tile_out_ready(l, score_ready)
             /\ tile[l].index = RESULT_N - 1)
    PROVE  Fed(l)'
<1> DEFINE t == tile[l]
           n == tile'[l]
<1>1. /\ TypeOK /\ TilesStep(score_ready, ended) /\ t \in Tiles
      /\ t.phase \in Phases /\ t.fed \in Seq(Requested) /\ Len(t.fed) \in Nat
      /\ HEAD_DIM \in Nat \ {0} /\ DimMod \in Nat \ {0} /\ HEAD_DIM <= DimMod
  <2>1. TypeOK /\ TilesStep(score_ready, ended) /\ t \in Tiles
    BY DEF IInv, TypeOK, Beat
  <2> HIDE DEF t
  <2>2. t.phase \in Phases /\ t.fed \in Seq(Requested) /\ Len(t.fed) \in Nat
    BY <2>1 DEF Tiles
  <2> QED BY <2>1, <2>2, Sizes, QkAssumption
<1>2. /\ head_reg' = head_reg /\ row_base_reg' = row_base_reg
      /\ lane_col(l)' = lane_col(l) /\ tile_start'[l] = FALSE
  BY DEF Where, lane_col, NoStart
<1>3. lane_feed_count \in [Lanes -> Nat] /\ data_owner \in Lanes
  BY <1>1, OwnerIsLane DEF TypeOK
<1>4. /\ ~(delivered /\ data_owner = l) => lane_feed_count'[l] = lane_feed_count[l]
      /\ delivered /\ data_owner = l =>
             lane_feed_count'[l] = (lane_feed_count[l] + 1) % DimMod
  BY <1>3 DEF Requests
<1>5. t.phase # "WAIT_INPUT" => ~(delivered /\ data_owner = l)
  BY HandedOver DEF lane_needs_vector, tile_in_ready
<1> DEFINE Mine(s) == \A i \in 1 .. Len(s) :
               s[i] = Stream!Vector(head_reg, row_base_reg, lane_col(l), i - 1)
           MineNext(s) == \A i \in 1 .. Len(s) :
               s[i] = Stream!Vector(head_reg', row_base_reg', lane_col(l)', i - 1)
<1>6. \A s : MineNext(s) <=> Mine(s)
  BY <1>2
<1>7. t.phase # "IDLE" => Len(t.fed) <= HEAD_DIM /\ Mine(t.fed)
  BY DEF Fed
<1>8. SUFFICES
          /\ n.phase # "IDLE"
          /\ n.phase = "CLEAR" => n.fed = <<>> /\ lane_feed_count'[l] = 0
          /\ n.phase \in {"CLEAR", "WAIT_INPUT", "MAC", "FLUSH"} => n.index = 0
          /\ Len(n.fed) <= HEAD_DIM /\ Mine(n.fed)
          /\ n.phase \in {"WAIT_INPUT", "MAC"} => lane_feed_count'[l] = Len(n.fed) % DimMod
          /\ n.phase \in {"FLUSH", "SCALE", "OUT"} => Len(n.fed) = HEAD_DIM
  <2> HIDE DEF Mine
  <2>1. MineNext(n.fed) <=> Mine(n.fed)
    BY <1>6
  <2> QED BY <2>1 DEF Fed
<1> HIDE DEF Mine, MineNext
<1>z. 0 % DimMod = 0
  BY <1>1
<1>9. CASE t.phase = "IDLE"
  <2>1. tile_start[l] /\ lane_feed_count[l] = 0
    BY <1>9 DEF Fed
  <2>2. n.phase = "CLEAR" /\ n.fed = <<>> /\ n.index = 0
    BY <1>1, <1>9, <2>1, TileMoves
  <2>3. lane_feed_count'[l] = 0
    BY <1>4, <1>5, <1>9, <2>1
  <2>4. Len(n.fed) = 0 /\ Mine(n.fed)
    BY <2>2 DEF Mine
  <2> HIDE DEF n
  <2> QED BY <1>1, <2>2, <2>3, <2>4
<1>10. CASE t.phase = "CLEAR"
  <2>1. t.fed = <<>> /\ lane_feed_count[l] = 0 /\ t.index = 0
    BY <1>10 DEF Fed
  <2>2. n.phase = "WAIT_INPUT" /\ n.fed = t.fed /\ n.index = t.index
    BY <1>1, <1>10, TileMoves
  <2>3. lane_feed_count'[l] = 0
    BY <1>4, <1>5, <1>10, <2>1
  <2>4. Len(n.fed) = 0
    BY <2>1, <2>2
  <2> HIDE DEF n, t
  <2> QED BY <1>1, <1>7, <1>10, <1>z, <2>1, <2>2, <2>3, <2>4
<1>11. CASE t.phase = "WAIT_INPUT"
  <2>1. t.index = 0 /\ lane_feed_count[l] = Len(t.fed) % DimMod
    BY <1>11 DEF Fed
  <2>2. CASE Len(t.fed) = HEAD_DIM
    <3>1. n.phase = "FLUSH" /\ n.fed = t.fed /\ n.index = t.index
      BY <1>1, <1>11, <2>2, TileMoves
    <3> HIDE DEF n, t
    <3> QED BY <1>7, <1>11, <2>1, <2>2, <3>1
  <2>3. CASE Len(t.fed) # HEAD_DIM /\ delivered /\ data_owner = l
    <3>1. n.phase = "MAC" /\ n.fed = Append(t.fed, vec) /\ n.index = t.index
      BY <1>1, <1>11, <2>3, TileMoves
    <3> DEFINE k == Len(t.fed)
    <3>2. k \in Nat /\ k < HEAD_DIM /\ k < DimMod
      BY <1>1, <1>7, <1>11, <2>3
    <3>3. lane_feed_count[l] = k
      BY <1>1, <2>1, <3>2, SMTT(30)
    <3>4. vec = Stream!Vector(head_reg, row_base_reg, lane_col(l), k)
      BY <2>3, <3>3, HandedOver
    <3>5. /\ Len(n.fed) = k + 1 /\ n.fed[k + 1] = vec
          /\ \A i \in 1 .. k : n.fed[i] = t.fed[i]
      BY <1>1, <3>1
    <3>6. Mine(t.fed)
      BY <1>7, <1>11
    <3>7. Mine(n.fed)
      <4>1. SUFFICES ASSUME NEW i \in 1 .. Len(n.fed)
                     PROVE  n.fed[i] = Stream!Vector(head_reg, row_base_reg, lane_col(l), i - 1)
        BY DEF Mine
      <4> HIDE DEF k, n, t
      <4>2. CASE i = k + 1
        <5>1. i - 1 = k
          BY <3>2, <4>2
        <5> QED BY <3>4, <3>5, <4>2, <5>1
      <4>3. CASE i # k + 1
        <5>1. i \in 1 .. k
          BY <3>2, <3>5, <4>3
        <5> QED BY <3>5, <3>6, <5>1 DEF Mine, k
      <4> QED BY <4>2, <4>3
    <3>8. lane_feed_count'[l] = Len(n.fed) % DimMod
      <4> HIDE DEF k, n, t
      <4> QED BY <1>4, <2>3, <3>3, <3>5
    <3> HIDE DEF k, n, t
    <3> QED BY <1>1, <2>1, <3>1, <3>2, <3>5, <3>7, <3>8
  <2>4. CASE Len(t.fed) # HEAD_DIM /\ ~(delivered /\ data_owner = l)
    <3>1. n = t
      BY <1>1, <1>11, <2>4, TileMoves
    <3> HIDE DEF n, t
    <3> QED BY <1>4, <1>7, <1>11, <2>1, <2>4, <3>1
  <2> QED BY <2>2, <2>3, <2>4
<1>12. CASE t.phase = "MAC"
  <2>1. n.phase \in {"MAC", "WAIT_INPUT"} /\ n.fed = t.fed /\ n.index = t.index
    BY <1>1, <1>12, TileMoves
  <2>2. t.index = 0 /\ lane_feed_count[l] = Len(t.fed) % DimMod
    BY <1>12 DEF Fed
  <2> HIDE DEF n, t
  <2> QED BY <1>4, <1>5, <1>7, <1>12, <2>1, <2>2
<1>13. CASE t.phase = "FLUSH"
  <2>1. n.phase \in {"FLUSH", "SCALE"} /\ n.fed = t.fed /\ n.index = t.index
    BY <1>1, <1>13, TileMoves
  <2>2. t.index = 0 /\ Len(t.fed) = HEAD_DIM
    BY <1>13 DEF Fed
  <2> HIDE DEF n, t
  <2> QED BY <1>7, <1>13, <2>1, <2>2
<1>14. CASE t.phase = "SCALE"
  <2>1. n.phase \in {"SCALE", "OUT"} /\ n.fed = t.fed /\ n.index = t.index
    BY <1>1, <1>14, TileMoves
  <2>2. Len(t.fed) = HEAD_DIM
    BY <1>14 DEF Fed
  <2> HIDE DEF n, t
  <2> QED BY <1>7, <1>14, <2>1, <2>2
<1>15. CASE t.phase = "OUT"
  <2>1. n.phase \in {"SCALE", "OUT"} /\ n.fed = t.fed
    BY <1>1, <1>15, TileMoves
  <2>2. Len(t.fed) = HEAD_DIM
    BY <1>15 DEF Fed
  <2> HIDE DEF n, t
  <2> QED BY <1>7, <1>15, <2>1, <2>2
<1> HIDE DEF n, t
<1> QED
  BY <1>1, <1>9, <1>10, <1>11, <1>12, <1>13, <1>14, <1>15 DEF Phases

\* A lane that waits for its turn has sent nothing yet.
LEMMA FreshStays ==
    ASSUME TypeOK, NEW score_ready, NEW ended, TilesStep(score_ready, ended),
           NEW l \in Lanes, l # emit_lane, Fresh(l),
           skip_result_index'[l] = skip_result_index[l]
    PROVE  Fresh(l)'
<1> DEFINE t == tile[l]
           n == tile'[l]
<1>1. ~tile_out_ready(l, score_ready)
  BY DEF tile_out_ready
<1>2. t.phase \in Phases
  BY DEF TypeOK, Tiles
<1>3. CASE t.phase = "IDLE"
  <2>1. n = t \/ n.index = 0
    BY <1>3, TileMoves DEF TypeOK
  <2> QED BY <1>3, <2>1 DEF Fresh
<1>4. CASE t.phase # "IDLE"
  <2>1. n = t \/ n.index = t.index
    BY <1>1, <1>2, <1>4, TileMoves DEF Phases
  <2> QED BY <1>4, <2>1 DEF Fresh
<1> QED
  BY <1>3, <1>4

\* The column tile of a lane.
LEMMA LaneTile ==
    ASSUME NEW c \in Nat, pair_col_base_reg = c * TILE, NEW l \in Nat
    PROVE  /\ lane_col(l) = (c + l) * TILE
           /\ lane_active(l) <=> c + l < RowTiles
<1>1. lane_col(l) = (c + l) * TILE /\ c + l \in Nat
  BY Sizes DEF lane_col
<1>2. SEQ_LEN = RowTiles * TILE /\ RowTiles \in Nat
  BY Geometry
<1> QED
  BY <1>1, <1>2, TileOrder DEF lane_active

\* A sequence is the function of its elements.
LEMMA SequenceIsFunction ==
    ASSUME NEW S, NEW s \in Seq(S)
    PROVE  s = [i \in 1 .. Len(s) |-> s[i]]
  OBVIOUS

\* The port shows the score that is due.
LEMMA PortShows ==
    ASSUME StreamInv, score_valid,
           NEW r \in 0 .. RowTiles - 1, NEW c \in 0 .. RowTiles - 1, At(r, c)
    PROVE  /\ selected_index = NextIndex /\ NextIndex \in 0 .. RESULT_N - 1
           /\ head_reg \in 0 .. Q_HEADS - 1 /\ c + emit_lane \in 0 .. RowTiles - 1
           /\ sent = Number(head_reg, r, c + emit_lane, NextIndex)
           /\ score_out = Stream!ScoreAt(sent)
<1> DEFINE k == c + emit_lane
           i == NextIndex
           h == head_reg
<1>1. /\ state = "RUN" /\ lane_active(emit_lane)
      /\ selected_skip \/ tile[emit_lane].phase = "OUT"
  BY DEF score_valid
<1>2. /\ TypeOK /\ emit_lane \in Lanes /\ emit_lane \in Nat /\ h \in 0 .. Q_HEADS - 1
  BY <1>1, Sizes, QkAssumption DEF StreamInv, IInv, TypeOK, PlaceInv
<1>3. /\ row_base_reg = r * TILE /\ k \in 0 .. RowTiles - 1 /\ sent = Number(h, r, k, i)
      /\ pair_col_base_reg = c * TILE
  BY <1>1, <1>2, Geometry DEF At
<1>4. selected_index = i
  BY <1>1 DEF selected_index, NextIndex
<1>5. i \in 0 .. RESULT_N - 1
  <2>1. tile[emit_lane].index \in 0 .. RESULT_N - 1 /\ skip_result_index[emit_lane] \in 0 .. RESULT_N - 1
    BY <1>2 DEF TypeOK, Tiles
  <2> QED BY <1>4, <2>1 DEF selected_index
<1>6. lane_col(emit_lane) = k * TILE
  BY <1>2, <1>3, LaneTile
<1>7. /\ Stream!HeadOf(sent) = h
      /\ Stream!RowBase(sent) = row_base_reg /\ Stream!ColBase(sent) = lane_col(emit_lane)
      /\ Stream!RowOf(sent) = row_base_reg + i \div TILE
      /\ Stream!ColOf(sent) = lane_col(emit_lane) + (i % TILE)
  <2> HIDE DEF k, i
  <2>1. h \in Nat /\ h < Q_HEADS
    BY <1>2, QkAssumption
  <2> QED BY <1>3, <1>5, <1>6, <2>1, Digits, NumberedPlace
<1>8. score_row = Stream!RowOf(sent) /\ score_col = Stream!ColOf(sent)
  BY <1>4, <1>7 DEF score_row, score_col
<1>9. score_last <=> sent = Stream!Total - 1
  <2> HIDE DEF i, k, h
  <2>1. score_last <=> /\ h = Q_HEADS - 1
                       /\ r * TILE + i \div TILE = SEQ_LEN - 1
                       /\ k * TILE + (i % TILE) = SEQ_LEN - 1
    BY <1>3, <1>6, <1>7, <1>8, Zenon DEF score_last, h
  <2>2. score_last <=> h = Q_HEADS - 1 /\ r = RowTiles - 1 /\ k = RowTiles - 1 /\ i = RESULT_N - 1
    BY <1>3, <1>5, <2>1, LastPlace, ZenonT(40)
  <2>3. Number(h, r, k, i) = Stream!Total - 1
        <=> h = Q_HEADS - 1 /\ r = RowTiles - 1 /\ k = RowTiles - 1 /\ i = RESULT_N - 1
    BY <1>2, <1>3, <1>5, LastNumber
  <2>4. sent = Number(h, r, k, i)
    BY <1>3
  <2> QED BY <2>2, <2>3, <2>4, Zenon
<1>10. selected_skip <=> Stream!Skipped(Stream!RowBase(sent), Stream!ColBase(sent))
  BY <1>1, <1>7 DEF selected_skip, lane_skip, Stream!Skipped
<1>11. ASSUME ~selected_skip
       PROVE  tile[emit_lane].fed =
                  Stream!Vectors(Stream!HeadOf(sent), Stream!RowBase(sent), Stream!ColBase(sent))
  <2> DEFINE s == tile[emit_lane].fed
  <2>1. Fed(emit_lane) /\ tile[emit_lane].phase = "OUT"
    BY <1>1, <1>2, <1>11 DEF StreamInv, FedInv, selected_skip
  <2>2. Len(s) = HEAD_DIM /\ s \in Seq(Requested)
    BY <1>2, <2>1 DEF Fed, TypeOK, Tiles
  <2>3. \A d \in 1 .. HEAD_DIM :
            s[d] = Stream!Vector(head_reg, row_base_reg, lane_col(emit_lane), d - 1)
    BY <2>1, <2>2 DEF Fed
  <2> HIDE DEF s
  <2>4. s = [d \in 1 .. HEAD_DIM |-> s[d]]
    BY <2>2, SequenceIsFunction
  <2>5. s = [d \in 1 .. HEAD_DIM |->
                 Stream!Vector(head_reg, row_base_reg, lane_col(emit_lane), d - 1)]
    BY <2>3, <2>4
  <2>6. s = Stream!Vectors(Stream!HeadOf(sent), Stream!RowBase(sent), Stream!ColBase(sent))
    BY <1>7, <2>5 DEF Stream!Vectors
  <2> QED BY <2>6 DEF s
<1>12. (IF selected_skip THEN <<>> ELSE tile[emit_lane].fed)
       = IF Stream!Skipped(Stream!RowBase(sent), Stream!ColBase(sent)) THEN <<>>
         ELSE Stream!Vectors(Stream!HeadOf(sent), Stream!RowBase(sent), Stream!ColBase(sent))
  BY <1>10, <1>11, Zenon
<1>13. score_last = (sent = Stream!Total - 1)
  BY <1>9 DEF score_last
<1>14. score_out = Stream!ScoreAt(sent)
  BY <1>7, <1>8, <1>12, <1>13, Zenon DEF score_out, Stream!ScoreAt
<1> QED
  BY <1>2, <1>3, <1>4, <1>5, <1>14
-----------------------------------------------------------------------------
\* A launch begins at the first score.
LEMMA StartStreams ==
    ASSUME StreamInv, NEW score_ready, NEW ended, Beat(score_ready, ended), Start
    PROVE  PlaceInv' /\ FedInv' /\ Stream!Launch
<1>1. /\ state = "IDLE" /\ state' = "START" /\ sent' = 0 /\ score' = Stream!NoScore
      /\ head_reg' = 0 /\ row_base_reg' = 0 /\ pair_col_base_reg' = 0 /\ causal_en' = causal_en
  BY DEF Start, Beat
<1>2. 0 \in 0 .. RowTiles - 1 /\ 0 * TILE = 0 /\ 0 < Q_HEADS
  BY Geometry, QkAssumption
<1>3. Number(0, 0, 0, 0) = 0
  BY Geometry DEF Number
<1>4. At(0, 0)'
  BY <1>1, <1>2, <1>3 DEF At
<1>5. PlaceInv'
  BY <1>1, <1>2, <1>4 DEF PlaceInv
<1> QED
  BY <1>1, <1>5 DEF FedInv, Stream!Launch

\* No score is sent while the lanes are set up.
LEMMA StartTilesStreams ==
    ASSUME StreamInv, NEW score_ready, NEW ended, Beat(score_ready, ended), StartTiles
    PROVE  PlaceInv' /\ FedInv' /\ UNCHANGED Stream!streamVars
<1>1. /\ state = "START" /\ state' = "RUN" /\ emit_lane' = 0
      /\ UNCHANGED <<head_reg, row_base_reg, pair_col_base_reg, causal_en, sent, score>>
      /\ tile_start' = [l \in Lanes |-> lane_active(l) /\ ~lane_skip(l)]
      /\ lane_feed_count' = [l \in Lanes |-> 0]
      /\ skip_result_index' = [l \in Lanes |-> 0]
  BY DEF StartTiles, Where, Beat
<1>2. ASSUME NEW l \in Lanes PROVE tile'[l] = tile[l] /\ tile[l].phase = "IDLE"
  <2>1. Quiet(l)
    BY <1>1 DEF StreamInv, IInv, LanesInv
  <2> QED
    BY <2>1, QuietTile DEF Beat, TilesStep, Quiet
<1>3. 0 \in Lanes
  BY Sizes
<1>4. NextIndex' = 0
  <2>1. tile'[0].phase = "IDLE" /\ skip_result_index'[0] = 0
    BY <1>1, <1>2, <1>3
  <2> QED
    BY <1>1, <2>1 DEF NextIndex
<1>5. PICK r \in 0 .. RowTiles - 1, c \in 0 .. RowTiles - 1 : At(r, c)
  BY <1>1 DEF StreamInv, PlaceInv
<1>6. At(r, c)'
  <2>1. c + 0 = c /\ c < RowTiles
    BY Geometry
  <2> QED
    BY <1>1, <1>4, <1>5, <2>1 DEF At
<1>7. PlaceInv'
  BY <1>1, <1>6 DEF StreamInv, PlaceInv
<1>8. FedInv'
  <2>1. SUFFICES ASSUME NEW l \in Lanes
                 PROVE  Fresh(l)' /\ (lane_active(l)' /\ ~lane_skip(l)' => Fed(l)')
    BY DEF FedInv
  <2>2. tile'[l].phase = "IDLE" /\ skip_result_index'[l] = 0 /\ lane_feed_count'[l] = 0
    BY <1>1, <1>2
  <2>3. lane_active(l)' /\ ~lane_skip(l)' => tile_start'[l]
    BY <1>1 DEF lane_active, lane_skip, lane_col
  <2> QED
    BY <2>2, <2>3 DEF Fresh, Fed
<1> QED
  BY <1>1, <1>7, <1>8 DEF Stream!streamVars

\* While the lanes run what they hold stays theirs, and the waiting ones wait.
LEMMA RunFeeds ==
    ASSUME StreamInv, NEW score_ready, NEW ended, Beat(score_ready, ended),
           Run(score_ready), NEW pair_done, Requests(pair_done), UNCHANGED Where,
           emit_lane' \in {emit_lane, emit_lane + 1},
           \A l \in Lanes : l # emit_lane => skip_result_index'[l] = skip_result_index[l],
           Fire(score_ready) /\ selected_last => emit_lane' = emit_lane + 1
    PROVE  FedInv' /\ \A l \in Lanes : l > emit_lane => Fresh(l)'
<1>1. /\ IInv /\ TypeOK /\ TilesStep(score_ready, ended) /\ state = "RUN" /\ NoStart
      /\ emit_lane \in Lanes /\ emit_lane \in Nat
      /\ UNCHANGED <<row_base_reg, pair_col_base_reg, causal_en>>
  BY Sizes DEF StreamInv, IInv, TypeOK, Beat, Run, Where
<1>2. ASSUME NEW l \in Lanes, l > emit_lane PROVE Fresh(l)'
  <2>1. Fresh(l) /\ l # emit_lane
    <3>1. FedInv
      BY DEF StreamInv
    <3>2. Fresh(l)
      BY <1>1, <1>2, <3>1 DEF FedInv
    <3>3. l \in Nat
      BY Sizes
    <3> QED BY <1>1, <1>2, <3>2, <3>3
  <2> QED
    BY <1>1, <2>1, FreshStays
<1>3. ASSUME NEW l \in Lanes, l >= emit_lane', lane_active(l)', ~lane_skip(l)'
      PROVE  Fed(l)'
  <2>1. lane_active(l) /\ ~lane_skip(l)
    BY <1>1, <1>3 DEF lane_active, lane_skip, lane_col
  <2>2. l \in Nat /\ l >= emit_lane
    BY <1>1, <1>3, Sizes
  <2>3. Fed(l)
    BY <1>1, <2>1, <2>2 DEF StreamInv, FedInv
  <2>4. ASSUME tile[l].phase = "OUT", tile_out_ready(l, score_ready),
               tile[l].index = RESULT_N - 1
        PROVE  FALSE
    <3>1. l = emit_lane /\ score_ready /\ ~selected_skip
      BY <2>4 DEF tile_out_ready
    <3>2. Fire(score_ready) /\ selected_last
      BY <1>1, <2>1, <2>4, <3>1 DEF Fire, score_valid, selected_last, selected_index
    <3> QED
      BY <1>1, <1>3, <2>2, <3>1, <3>2
  <2> QED
    BY <1>1, <2>1, <2>3, <2>4, FedStays
<1>4. ASSUME NEW l \in Lanes, l > emit_lane' PROVE l > emit_lane
  <2>1. l \in Nat
    BY Sizes
  <2> QED BY <1>1, <1>4, <2>1
<1> QED
  BY <1>2, <1>3, <1>4 DEF FedInv

\* Within a tile the number of the score and the place in the tile go together.
LEMMA RunOnStreams ==
    ASSUME StreamInv, NEW score_ready \in BOOLEAN, NEW ended, Beat(score_ready, ended),
           RunOn(score_ready)
    PROVE  PlaceInv' /\ FedInv' /\ (Stream!Send \/ UNCHANGED Stream!streamVars)
<1>1. /\ IInv /\ TypeOK /\ TilesStep(score_ready, ended) /\ state = "RUN" /\ state' = "RUN"
      /\ Run(score_ready) /\ Requests(FALSE)
      /\ ~(Fire(score_ready) /\ selected_last)
      /\ emit_lane' = emit_lane /\ emit_lane \in Lanes /\ emit_lane \in Nat
      /\ UNCHANGED <<head_reg, row_base_reg, pair_col_base_reg, causal_en>>
  BY Sizes DEF StreamInv, IInv, TypeOK, Beat, RunOn, Run, Where
<1>2. skip_result_index \in [Lanes -> 0 .. RESULT_N - 1]
  BY <1>1 DEF TypeOK
<1>3. /\ \A l \in Lanes : l # emit_lane => skip_result_index'[l] = skip_result_index[l]
      /\ skip_result_index'[emit_lane] =
             IF selected_skip /\ Fire(score_ready) THEN skip_result_index[emit_lane] + 1
             ELSE skip_result_index[emit_lane]
  BY <1>1, <1>2 DEF RunOn
<1>4. FedInv'
  BY <1>1, <1>3, RunFeeds DEF Where
<1>5. PICK r \in 0 .. RowTiles - 1, c \in 0 .. RowTiles - 1 : At(r, c)
  BY <1>1 DEF StreamInv, PlaceInv
<1>6. c + emit_lane < RowTiles /\ lane_active(emit_lane)
      /\ sent = Number(head_reg, r, c + emit_lane, NextIndex)
  BY <1>1, <1>5, LaneTile DEF At
<1>7. selected_skip' <=> selected_skip
  BY <1>1 DEF selected_skip, lane_skip, lane_active, lane_col
<1>8. NextIndex' = IF Fire(score_ready) THEN NextIndex + 1 ELSE NextIndex
  <2>1. CASE selected_skip
    BY <1>1, <1>3, <1>7, <2>1 DEF NextIndex
  <2>2. CASE ~selected_skip
    <3> DEFINE t == tile[emit_lane]
               n == tile'[emit_lane]
    <3>1. NextIndex' = IF n.phase = "IDLE" THEN 0 ELSE n.index
      BY <1>1, <1>7, <2>2 DEF NextIndex
    <3>2. Fed(emit_lane)
      BY <1>1, <1>6, <2>2 DEF StreamInv, FedInv, selected_skip
    <3>3. t.phase \in Phases
      BY <1>1 DEF TypeOK, Tiles
    <3>4. Fire(score_ready) <=> t.phase = "OUT" /\ score_ready
      BY <1>1, <1>6, <2>2 DEF Fire, score_valid
    <3>5. tile_out_ready(emit_lane, score_ready) <=> score_ready
      BY <1>1, <1>6, <2>2 DEF tile_out_ready
    <3>6. CASE t.phase = "IDLE"
      <4>1. tile_start[emit_lane]
        BY <3>2, <3>6 DEF Fed
      <4>2. n.phase = "CLEAR" /\ n.index = 0
        BY <1>1, <3>6, <4>1, TileMoves
      <4> QED BY <2>2, <3>1, <3>4, <3>6, <4>2 DEF NextIndex
    <3>7. CASE t.phase = "OUT"
      <4>1. CASE score_ready
        <5>1. t.index # RESULT_N - 1
          BY <1>1, <2>2, <3>4, <3>7, <4>1 DEF selected_last, selected_index
        <5>2. n.phase = "SCALE" /\ n.index = t.index + 1
          <6>1. tile_out_ready(emit_lane, score_ready)
            BY <3>5, <4>1
          <6> QED BY <1>1, <3>7, <5>1, <6>1, TileMoves
        <5> QED BY <2>2, <3>1, <3>4, <3>7, <4>1, <5>2 DEF NextIndex
      <4>2. CASE ~score_ready
        <5>1. n = t
          BY <1>1, <3>5, <3>7, <4>2, TileMoves
        <5> QED BY <2>2, <3>1, <3>4, <3>7, <4>2, <5>1 DEF NextIndex
      <4> QED BY <4>1, <4>2
    <3>8. CASE t.phase \notin {"IDLE", "OUT"}
      <4>1. n = t \/ (n.phase # "IDLE" /\ n.index = t.index)
        BY <1>1, <3>3, <3>8, TileMoves DEF Phases
      <4> QED BY <2>2, <3>1, <3>4, <3>8, <4>1 DEF NextIndex
    <3> QED BY <3>6, <3>7, <3>8
  <2> QED BY <2>1, <2>2
<1>9. CASE Fire(score_ready)
  <2>1. score_valid
    BY <1>9 DEF Fire
  <2>2. /\ score_out = Stream!ScoreAt(sent) /\ head_reg \in 0 .. Q_HEADS - 1
        /\ selected_index = NextIndex /\ NextIndex \in 0 .. RESULT_N - 1
        /\ c + emit_lane \in 0 .. RowTiles - 1
    BY <1>5, <2>1, PortShows
  <2>3. sent' = sent + 1 /\ score' = score_out
    BY <1>1, <1>9 DEF Run, Observe
  <2> DEFINE k == c + emit_lane
             i == NextIndex
  <2>4. sent' = Number(head_reg, r, k, i + 1) /\ sent' # Stream!Total
    <3>1. i # RESULT_N - 1
      BY <1>1, <1>9, <2>2 DEF selected_last
    <3> HIDE DEF k, i
    <3>2. k \in 0 .. RowTiles - 1 /\ i \in 0 .. RESULT_N - 1 /\ sent = Number(head_reg, r, k, i)
      BY <1>6, <2>2 DEF k, i
    <3>3. /\ sent \in 0 .. Stream!Total - 1 /\ Stream!Total \in Nat
          /\ sent # Stream!Total - 1
      BY <2>2, <3>1, <3>2, LastNumber
    <3>4. sent + 1 = Number(head_reg, r, k, i + 1)
      <4>1. head_reg \in Nat /\ r \in Nat /\ k \in Nat /\ i \in Nat
        BY <2>2, <3>2
      <4> QED BY <3>2, <4>1, NextNumber
    <3> QED BY <2>3, <3>3, <3>4
  <2>5. At(r, c)'
    BY <1>1, <1>5, <1>6, <1>8, <1>9, <2>4 DEF At
  <2>6. PlaceInv'
    BY <1>1, <2>5 DEF StreamInv, PlaceInv
  <2>7. Stream!Send
    BY <1>1, <2>2, <2>3, <2>4 DEF Stream!Send
  <2> QED BY <1>4, <2>6, <2>7
<1>10. CASE ~Fire(score_ready)
  <2>1. sent' = sent /\ score' = score
    BY <1>1, <1>10 DEF Run, Observe
  <2>2. At(r, c)'
    BY <1>1, <1>5, <1>6, <1>8, <1>10, <2>1 DEF At
  <2>3. PlaceInv'
    BY <1>1, <2>2 DEF StreamInv, PlaceInv
  <2> QED BY <1>1, <1>4, <2>1, <2>3 DEF Stream!streamVars
<1> QED
  BY <1>9, <1>10

\* The last score of a lane's tile goes out.
LEMMA TileSent ==
    ASSUME StreamInv, NEW score_ready, EndTile(score_ready),
           NEW r \in 0 .. RowTiles - 1, NEW c \in 0 .. RowTiles - 1, At(r, c)
    PROVE  /\ state = "RUN" /\ sent' = sent + 1 /\ score' = Stream!ScoreAt(sent)
           /\ head_reg \in 0 .. Q_HEADS - 1 /\ c + emit_lane \in 0 .. RowTiles - 1
           /\ sent = Number(head_reg, r, c + emit_lane, RESULT_N - 1)
<1>1. /\ score_valid /\ selected_last /\ state = "RUN"
      /\ sent' = sent + 1 /\ score' = score_out
  BY DEF EndTile, Run, Fire, Observe
<1>2. /\ selected_index = NextIndex /\ score_out = Stream!ScoreAt(sent)
      /\ head_reg \in 0 .. Q_HEADS - 1 /\ c + emit_lane \in 0 .. RowTiles - 1
      /\ sent = Number(head_reg, r, c + emit_lane, NextIndex)
  BY <1>1, PortShows
<1>3. NextIndex = RESULT_N - 1
  BY <1>1, <1>2 DEF selected_last
<1> QED
  BY <1>1, <1>2, <1>3

\* The next lane's tile is the next column tile.
LEMMA NextLaneStreams ==
    ASSUME StreamInv, NEW score_ready \in BOOLEAN, NEW ended, Beat(score_ready, ended),
           NextLane(score_ready)
    PROVE  PlaceInv' /\ FedInv' /\ Stream!Send
<1>1. /\ IInv /\ TypeOK /\ TilesStep(score_ready, ended) /\ state = "RUN" /\ state' = "RUN"
      /\ EndTile(score_ready) /\ Run(score_ready) /\ Requests(~more_lanes) /\ more_lanes
      /\ emit_lane' = emit_lane + 1 /\ emit_lane \in Lanes /\ emit_lane \in Nat
      /\ UNCHANGED <<head_reg, row_base_reg, pair_col_base_reg, causal_en>>
      /\ skip_result_index' = skip_result_index
  BY Sizes DEF StreamInv, IInv, TypeOK, Beat, NextLane, EndTile, Run, Where
<1>2. emit_lane + 1 \in Lanes /\ lane_active(emit_lane + 1)
  BY <1>1, LaneNumbers DEF more_lanes
<1>3. FedInv' /\ \A l \in Lanes : l > emit_lane => Fresh(l)'
  BY <1>1, RunFeeds DEF Where
<1>4. NextIndex' = 0
  <2> PICK m \in Lanes : m = emit_lane + 1
    BY <1>2
  <2>1. Fresh(m)' /\ emit_lane' = m
    <3>1. m > emit_lane
      BY <1>1
    <3> QED BY <1>1, <1>3, <3>1
  <2>2. /\ skip_result_index'[emit_lane'] = 0
        /\ tile'[emit_lane'].phase # "IDLE" => tile'[emit_lane'].index = 0
    BY <1>1, <2>1 DEF Fresh
  <2> QED BY <2>2 DEF NextIndex
<1>5. PICK r \in 0 .. RowTiles - 1, c \in 0 .. RowTiles - 1 : At(r, c)
  BY <1>1 DEF StreamInv, PlaceInv
<1>6. /\ sent' = sent + 1 /\ score' = Stream!ScoreAt(sent)
      /\ head_reg \in 0 .. Q_HEADS - 1 /\ c + emit_lane \in 0 .. RowTiles - 1
      /\ sent = Number(head_reg, r, c + emit_lane, RESULT_N - 1)
  BY <1>1, <1>5, TileSent
<1>7. /\ c + emit_lane' < RowTiles /\ c + emit_lane' = c + emit_lane + 1
      /\ c \in Nat /\ r \in Nat /\ RowTiles \in Nat
  <2>1. c \in Nat /\ r \in Nat /\ RowTiles \in Nat /\ pair_col_base_reg = c * TILE
    BY <1>5, Geometry DEF At
  <2>2. c + (emit_lane + 1) < RowTiles
    BY <1>1, <1>2, <2>1, LaneTile
  <2> QED BY <1>1, <2>1, <2>2
<1>8. sent' = Number(head_reg', r, c + emit_lane', 0) /\ sent' # Stream!Total
  <2> DEFINE k == c + emit_lane
             i == RESULT_N - 1
  <2>1. k \in Nat /\ i \in Nat /\ head_reg \in Nat /\ r \in Nat /\ k + 1 \in 0 .. RowTiles - 1
        /\ 0 \in 0 .. RESULT_N - 1 /\ i \in 0 .. RESULT_N - 1
    BY <1>1, <1>6, <1>7, Geometry
  <2>2. sent = Number(head_reg, r, k, i) /\ i = RESULT_N - 1 /\ c + emit_lane' = k + 1
    BY <1>6, <1>7
  <2> HIDE DEF k, i
  <2>3. sent' = Number(head_reg, r, k + 1, 0)
    BY <1>6, <2>1, <2>2, NextNumber
  <2>4. Number(head_reg, r, k + 1, 0) \in 0 .. Stream!Total - 1 /\ Stream!Total \in Nat
    BY <1>6, <2>1, LastNumber
  <2> QED BY <1>1, <2>2, <2>3, <2>4
<1>9. At(r, c)'
  BY <1>1, <1>4, <1>5, <1>7, <1>8 DEF At
<1>10. PlaceInv'
  BY <1>1, <1>9 DEF StreamInv, PlaceInv
<1>11. Stream!Send
  BY <1>1, <1>6, <1>8 DEF Stream!Send
<1> QED
  BY <1>3, <1>10, <1>11

\* After the last lane the array moves right, down, to the next head or rests,
\* exactly as the numbers of the scores carry.
LEMMA NextTilesStreams ==
    ASSUME StreamInv, NEW score_ready \in BOOLEAN, NEW ended, Beat(score_ready, ended),
           NextTiles(score_ready)
    PROVE  PlaceInv' /\ FedInv' /\ Stream!Send
<1>1. /\ IInv /\ TypeOK /\ state = "RUN" /\ EndTile(score_ready) /\ ~more_lanes
      /\ emit_lane \in Lanes /\ emit_lane \in Nat /\ emit_lane < QK_LANES
      /\ QK_LANES \in Nat /\ causal_en' = causal_en
  BY Sizes, LaneNumbers DEF StreamInv, IInv, TypeOK, Beat, NextTiles, EndTile, Run
<1>2. state' = (IF done' THEN "IDLE" ELSE "START")
  BY DEF NextTiles
<1>3. FedInv'
  BY <1>2 DEF FedInv
<1>4. PICK r \in 0 .. RowTiles - 1, c \in 0 .. RowTiles - 1 : At(r, c)
  BY <1>1 DEF StreamInv, PlaceInv
<1>5. /\ sent' = sent + 1 /\ score' = Stream!ScoreAt(sent)
      /\ head_reg \in 0 .. Q_HEADS - 1 /\ c + emit_lane \in 0 .. RowTiles - 1
      /\ sent = Number(head_reg, r, c + emit_lane, RESULT_N - 1)
  BY <1>1, <1>4, TileSent
<1> DEFINE R == RowTiles
           k == c + emit_lane
           h == head_reg
           i == RESULT_N - 1
           right == pair_col_base_reg + PAIR_SPAN < SEQ_LEN
           down == row_base_reg + TILE < SEQ_LEN
<1>6. /\ R \in Nat \ {0} /\ r \in Nat /\ c \in Nat /\ r < R /\ c < R /\ Q_HEADS \in Nat \ {0}
      /\ i \in 0 .. RESULT_N - 1 /\ i \in Nat /\ 0 \in 0 .. RESULT_N - 1 /\ h \in Nat
  BY <1>5, Geometry, QkAssumption
<1>7. /\ right <=> c + QK_LANES < R
      /\ pair_col_base_reg + PAIR_SPAN = (c + QK_LANES) * TILE
  <2>1. pair_col_base_reg = c * TILE /\ PAIR_SPAN = QK_LANES * TILE /\ TILE \in Nat
        /\ SEQ_LEN = R * TILE
    BY <1>4, Sizes, Geometry DEF At
  <2>2. pair_col_base_reg + PAIR_SPAN = (c + QK_LANES) * TILE
    BY <1>1, <1>6, <2>1
  <2> HIDE DEF R
  <2>3. (c + QK_LANES) * TILE < R * TILE <=> c + QK_LANES < R
    <3>1. c + QK_LANES \in Nat /\ R \in Nat
      BY <1>1, <1>6
    <3> QED BY <3>1, TileOrder
  <2> QED BY <2>1, <2>2, <2>3
<1>8. (down <=> r + 1 < R) /\ row_base_reg + TILE = (r + 1) * TILE
  <2>1. row_base_reg = r * TILE /\ SEQ_LEN = R * TILE
    BY <1>4, Geometry DEF At
  <2> HIDE DEF R
  <2>2. r * TILE + TILE = (r + 1) * TILE /\ ((r + 1) * TILE < R * TILE <=> r + 1 < R)
    <3>1. r + 1 \in Nat /\ R \in Nat
      BY <1>6
    <3> QED BY <1>6, <3>1, TileOrder
  <2> QED BY <2>1, <2>2
<1>9. emit_lane + 1 = QK_LANES \/ k + 1 = R
  <2>1. CASE emit_lane + 1 < QK_LANES
    <3>1. ~lane_active(emit_lane + 1)
      BY <1>1, <2>1 DEF more_lanes
    <3>2. pair_col_base_reg = c * TILE /\ emit_lane + 1 \in Nat
      BY <1>1, <1>4 DEF At
    <3>3. ~(c + (emit_lane + 1) < R)
      BY <1>6, <3>1, <3>2, LaneTile
    <3> QED BY <1>1, <1>5, <1>6, <3>3
  <2>2. CASE ~(emit_lane + 1 < QK_LANES)
    BY <1>1, <2>2
  <2> QED BY <2>1, <2>2
<1>10. /\ pair_col_base_reg' = IF right THEN pair_col_base_reg + PAIR_SPAN ELSE 0
       /\ row_base_reg' = IF right THEN row_base_reg
                          ELSE IF down THEN row_base_reg + TILE ELSE 0
       /\ head_reg' = IF right \/ down \/ h = Q_HEADS - 1 THEN h ELSE h + 1
       /\ done' = (~right /\ ~down /\ h = Q_HEADS - 1)
  BY Zenon DEF NextTiles, NextPosition
<1>s. /\ sent = Number(h, r, k, i) /\ i = RESULT_N - 1 /\ k \in 0 .. R - 1
      /\ h \in 0 .. Q_HEADS - 1 /\ row_base_reg = r * TILE
  BY <1>4, <1>5 DEF At
<1> HIDE DEF R, k, h, i, right, down
<1>t. /\ k \in Nat /\ k = c + emit_lane
      /\ sent \in Nat /\ sent \in 0 .. Stream!Total - 1 /\ Stream!Total \in Nat
      /\ sent = Stream!Total - 1 <=> h = Q_HEADS - 1 /\ r = R - 1 /\ k = R - 1
  <2>1. k \in Nat /\ k = c + emit_lane
    BY <1>s, <1>6 DEF k
  <2>2. /\ Number(h, r, k, i) \in 0 .. Stream!Total - 1 /\ Stream!Total \in Nat
        /\ Number(h, r, k, i) = Stream!Total - 1
           <=> h = Q_HEADS - 1 /\ r = R - 1 /\ k = R - 1 /\ i = RESULT_N - 1
    BY <1>s, <1>6, LastNumber DEF R
  <2> QED BY <1>s, <2>1, <2>2
<1>u. /\ sent' = Number(h, r, k + 1, 0)
      /\ k = R - 1 => sent' = Number(h, r + 1, 0, 0)
      /\ k = R - 1 /\ r = R - 1 => sent' = Number(h + 1, 0, 0, 0)
  <2>1. sent' = Number(h, r, k, i) + 1
    BY <1>5, <1>s
  <2>2. /\ Number(h, r, k, i) + 1 = Number(h, r, k + 1, 0)
        /\ k = R - 1 =>
              /\ Number(h, r, k, i) + 1 = Number(h, r + 1, 0, 0)
              /\ r = R - 1 => Number(h, r, k, i) + 1 = Number(h + 1, 0, 0, 0)
    <3>1. h \in Nat /\ r \in Nat /\ k \in Nat /\ i \in Nat /\ i = RESULT_N - 1
      BY <1>6, <1>s, <1>t
    <3>2. Number(h, r, k, i) + 1 = Number(h, r, k + 1, 0)
      BY <3>1, NextNumber
    <3>3. k = RowTiles - 1 => Number(h, r, k, i) + 1 = Number(h, r + 1, 0, 0)
      BY <3>1, NextNumber
    <3>4. k = RowTiles - 1 /\ r = RowTiles - 1 =>
              Number(h, r, k, i) + 1 = Number(h + 1, 0, 0, 0)
      BY <3>1, NextNumber
    <3> QED BY <3>2, <3>3, <3>4 DEF R
  <2> QED BY <2>1, <2>2
<1>11. CASE right
  <2>1. k + 1 = c + QK_LANES /\ k + 1 < R
    BY <1>1, <1>6, <1>7, <1>9, <1>11, <1>t
  <2> PICK m \in 0 .. RowTiles - 1 : m = k + 1
    BY <1>6, <1>t, <2>1 DEF R
  <2>2. /\ state' = "START" /\ head_reg' = h /\ row_base_reg' = r * TILE
        /\ pair_col_base_reg' = m * TILE /\ sent' = Number(h, r, m, 0)
    BY <1>2, <1>7, <1>10, <1>11, <1>s, <1>u, <2>1
  <2>3. At(r, m)'
    BY <2>2 DEF At
  <2>4. PlaceInv'
    <3>1. head_reg' < Q_HEADS
      BY <1>6, <1>s, <2>2
    <3> QED BY <2>3, <3>1 DEF PlaceInv
  <2>5. sent' # Stream!Total
    BY <1>5, <1>6, <1>t, <2>1
  <2>6. Stream!Send
    BY <1>1, <1>5, <2>2, <2>5 DEF Stream!Send
  <2> QED BY <1>3, <2>4, <2>6
<1>12. CASE ~right /\ down
  <2>1. k = R - 1 /\ r + 1 < R
    BY <1>1, <1>6, <1>7, <1>8, <1>9, <1>12, <1>s, <1>t
  <2>2. /\ state' = "START" /\ head_reg' = h /\ row_base_reg' = (r + 1) * TILE
        /\ pair_col_base_reg' = 0 * TILE
    <3>1. 0 * TILE = 0
      BY Sizes
    <3> QED BY <1>2, <1>8, <1>10, <1>12, <3>1
  <2>3. At(r + 1, 0)'
    BY <1>u, <2>1, <2>2 DEF At
  <2>4. PlaceInv'
    <3>1. r + 1 \in 0 .. RowTiles - 1 /\ 0 \in 0 .. RowTiles - 1 /\ head_reg' < Q_HEADS
      BY <1>6, <1>s, <2>1, <2>2 DEF R
    <3> QED BY <2>3, <3>1 DEF PlaceInv
  <2>5. sent' # Stream!Total
    BY <1>5, <1>6, <1>t, <2>1
  <2>6. Stream!Send
    BY <1>1, <1>5, <2>2, <2>5 DEF Stream!Send
  <2> QED BY <1>3, <2>4, <2>6
<1>13. CASE ~right /\ ~down /\ h # Q_HEADS - 1
  <2>1. k = R - 1 /\ r = R - 1
    BY <1>1, <1>6, <1>7, <1>8, <1>9, <1>13, <1>s, <1>t
  <2>2. /\ state' = "START" /\ head_reg' = h + 1 /\ row_base_reg' = 0 * TILE
        /\ pair_col_base_reg' = 0 * TILE
    <3>1. 0 * TILE = 0
      BY Sizes
    <3> QED BY <1>2, <1>10, <1>13, <3>1
  <2>3. At(0, 0)'
    BY <1>u, <2>1, <2>2 DEF At
  <2>4. PlaceInv'
    <3>1. 0 \in 0 .. RowTiles - 1 /\ head_reg' < Q_HEADS
      BY <1>6, <1>13, <1>s, <2>2 DEF R
    <3> QED BY <2>3, <3>1 DEF PlaceInv
  <2>5. sent' # Stream!Total
    BY <1>5, <1>13, <1>t
  <2>6. Stream!Send
    BY <1>1, <1>5, <2>2, <2>5 DEF Stream!Send
  <2> QED BY <1>3, <2>4, <2>6
<1>14. CASE ~right /\ ~down /\ h = Q_HEADS - 1
  <2>1. k = R - 1 /\ r = R - 1
    BY <1>1, <1>6, <1>7, <1>8, <1>9, <1>14, <1>s, <1>t
  <2>2. state' = "IDLE"
    BY <1>2, <1>10, <1>14
  <2>3. sent' = Stream!Total
    BY <1>5, <1>14, <1>t, <2>1
  <2>4. Stream!Send
    BY <1>1, <1>5, <2>2, <2>3 DEF Stream!Send
  <2> QED BY <1>3, <2>2, <2>4 DEF PlaceInv
<1> QED
  BY <1>11, <1>12, <1>13, <1>14

\* Every edge is a step of the stream or nothing to it.
LEMMA EdgeStreams ==
    ASSUME StreamInv, Next
    PROVE  /\ PlaceInv' /\ FedInv'
           /\ Stream!StreamNext \/ UNCHANGED Stream!streamVars
<1>1. PICK start \in BOOLEAN, score_ready \in BOOLEAN, ended \in SUBSET WorkingLanes :
          Edge(start, score_ready, ended)
  BY DEF Next
<1>2. Beat(score_ready, ended)
  BY <1>1 DEF Edge, Beat
<1>3. CASE Idle
  <2>1. state = "IDLE" /\ state' = "IDLE" /\ sent' = sent /\ score' = score
        /\ causal_en' = causal_en
    BY <1>2, <1>3 DEF Idle, Beat
  <2> QED BY <2>1 DEF PlaceInv, FedInv, Stream!streamVars
<1>4. CASE Start
  BY <1>2, <1>4, StartStreams DEF Stream!StreamNext
<1>5. CASE StartTiles
  BY <1>2, <1>5, StartTilesStreams
<1>6. CASE RunOn(score_ready)
  BY <1>2, <1>6, RunOnStreams DEF Stream!StreamNext
<1>7. CASE NextLane(score_ready)
  BY <1>2, <1>7, NextLaneStreams DEF Stream!StreamNext
<1>8. CASE NextTiles(score_ready)
  BY <1>2, <1>8, NextTilesStreams DEF Stream!StreamNext
<1> QED
  BY <1>1, <1>3, <1>4, <1>5, <1>6, <1>7, <1>8 DEF Edge

\* When nothing moves the array stays where it is.
LEMMA StillStreams ==
    ASSUME StreamInv, UNCHANGED vars
    PROVE  PlaceInv' /\ FedInv' /\ UNCHANGED Stream!streamVars
<1>1. /\ UNCHANGED <<state, head_reg, row_base_reg, pair_col_base_reg, tile_start,
                     lane_feed_count, emit_lane, skip_result_index, causal_en>>
      /\ UNCHANGED <<tile, sent, score>>
  BY DEF vars, schedVars
<1>2. NextIndex' = NextIndex
  BY <1>1 DEF NextIndex, selected_skip, lane_skip, lane_active, lane_col
<1>3. \A r, c \in 0 .. RowTiles - 1 : At(r, c) => At(r, c)'
  BY <1>1, <1>2 DEF At
<1>4. PlaceInv'
  BY <1>1, <1>3 DEF StreamInv, PlaceInv
<1>5. \A l \in Lanes : /\ Fresh(l) => Fresh(l)'
                       /\ Fed(l) => Fed(l)'
                       /\ lane_active(l)' <=> lane_active(l)
                       /\ lane_skip(l)' <=> lane_skip(l)
  BY <1>1 DEF Fresh, Fed, lane_active, lane_skip, lane_col
<1>6. FedInv'
  BY <1>1, <1>5 DEF StreamInv, FedInv
<1> QED
  BY <1>1, <1>4, <1>6 DEF Stream!streamVars

\* The invariant of the stream, beside the one of the read channel.
LEMMA StreamInvariance == Spec => []StreamInv
<1>1. Init => PlaceInv /\ FedInv
  BY DEF Init, PlaceInv, FedInv
<1>2. StreamInv /\ IInv' /\ [Next]_vars => (PlaceInv /\ FedInv)'
  <2> SUFFICES ASSUME StreamInv, [Next]_vars PROVE (PlaceInv /\ FedInv)'
    OBVIOUS
  <2>1. CASE Next
    BY <2>1, EdgeStreams
  <2>2. CASE UNCHANGED vars
    BY <2>2, StillStreams
  <2> QED
    BY <2>1, <2>2
<1> QED
  BY <1>1, <1>2, Invariance, PTL DEF Spec, StreamInv

\* The array implements the stream of scores: whatever the number of lanes, the
\* size of the tiles, the pace of the lanes and the back pressure of the taker,
\* every clock edge of qk_parallel_systolic_gqa_top sends the next score of the
\* legacy order, made of its own row's and column's vectors over all dimensions,
\* begins a launch, or changes nothing the taker can see.
THEOREM Refinement == Spec => ImplementsStream
<1>1. Init => Stream!StreamInit
  BY DEF Init, Stream!StreamInit
<1>2. StreamInv /\ [Next]_vars => [Stream!StreamNext]_(Stream!streamVars)
  <2> SUFFICES ASSUME StreamInv, [Next]_vars
               PROVE  Stream!StreamNext \/ UNCHANGED Stream!streamVars
    OBVIOUS
  <2>1. CASE Next
    BY <2>1, EdgeStreams
  <2>2. CASE UNCHANGED vars
    BY <2>2, StillStreams
  <2> QED
    BY <2>1, <2>2
<1> QED
  BY StreamInvariance, <1>1, <1>2, PTL DEF Spec, ImplementsStream, Stream!StreamSpec
-----------------------------------------------------------------------------
(***************************************************************************)
(* The way of the scores.  PathInv counts them: those of the tiles taken,  *)
(* of the tiles waiting and of the tile in progress are all that was sent, *)
(* and since the array numbers its scores as Number does, quotient and     *)
(* remainder of that count by the size of a tile are the tile and the      *)
(* place in it where the FIFO expects the next one.                        *)
(***************************************************************************)
\* The mask bits of a tile at `at`, up to the place e.
Masked(cells, at, e) ==
    cells[e].mask <=> causal_en /\ at.col + Fifo!ColOffset(e) > at.row + Fifo!RowOffset(e)

InSequence(entry, k) ==
    /\ entry.at = PlaceOfTile(k)
    /\ \A e \in Fifo!Elems : Masked(entry.cells, entry.at, e)

FifoTypes ==
    /\ write_ptr \in Fifo!Ptrs /\ read_ptr \in Fifo!Ptrs
    /\ tile_count \in 0 .. DEPTH_TILES /\ assemble_count \in Fifo!Elems
    /\ tile_mem = [p \in Fifo!Ptrs |-> tile_mem[p]]
    /\ assemble = [e \in Fifo!Elems |-> assemble[e]]
    /\ taken \in Nat

\* The write pointer names the entry behind the last tile waiting, and a tile
\* in progress has it reserved.
FifoRing ==
    /\ write_ptr = Fifo!SlotFrom(read_ptr, tile_count)
    /\ assemble_count # 0 => tile_count < DEPTH_TILES

Counted == (taken + tile_count) * Fifo!TILE_ITEMS + assemble_count = sent
Waiting == \A i \in 0 .. tile_count - 1 : InSequence(tile_mem[Fifo!Slot(i)], taken + i)
InProgress ==
    /\ assemble_count # 0 => assemble_at = PlaceOfTile(taken + tile_count)
    /\ \A e \in Fifo!Elems : e < assemble_count => Masked(assemble, assemble_at, e)

PathInv == FifoTypes /\ FifoRing /\ Counted /\ Waiting /\ InProgress /\ ~order_error
-----------------------------------------------------------------------------
LEMMA PathSizes ==
    /\ DEPTH_TILES \in Nat /\ DEPTH_TILES >= 2 /\ Fifo!TILE_ITEMS = RESULT_N
    /\ Fifo!Elems = 0 .. RESULT_N - 1 /\ Fifo!Ptrs = 0 .. DEPTH_TILES - 1
  BY PathAssumption DEF Fifo!TILE_ITEMS, RESULT_N, Fifo!Elems, Fifo!Ptrs

\* The digits of a tile's number are its place.
LEMMA PlaceOfNumber ==
    ASSUME NEW h \in Nat, NEW r \in 0 .. RowTiles - 1, NEW c \in 0 .. RowTiles - 1,
           NEW k, k = (h * RowTiles + r) * RowTiles + c
    PROVE  /\ k \in Nat
           /\ PlaceOfTile(k) = [group |-> group_id_reg, head |-> h,
                                row |-> r * TILE, col |-> c * TILE]
<1> DEFINE R == RowTiles
           t == r * R + c
<1>1. R \in Nat \ {0} /\ r \in 0 .. R - 1 /\ c \in 0 .. R - 1
  BY Geometry
<1> HIDE DEF R
<1>2. R * R \in Nat \ {0} /\ t \in 0 .. R * R - 1 /\ t \in Nat
  <2>1. R * R \in Nat \ {0}
    BY <1>1
  <2> QED BY <1>1, <2>1, BelowProduct
<1>3. t \div R = r
  <2>1. r \in Nat /\ c \in 0 .. R - 1
    BY <1>1
  <2> QED BY <1>1, <2>1, QuotientOf, ZenonT(40)
<1> HIDE DEF t
<1>4. k = h * (R * R) + t /\ k \in Nat
  <2>1. k = (h * R + r) * R + c
    BY DEF R
  <2> QED BY <1>1, <1>2, <2>1 DEF t
<1>5. k \div (R * R) = h /\ k % (R * R) = t
  BY <1>2, <1>4, QuotientOf
<1>6. k % R = c
  <2> DEFINE q == h * R + r
  <2>1. q \in Nat
    BY <1>1
  <2>2. k = q * R + c
    BY DEF R
  <2> HIDE DEF q
  <2>3. (q * R + c) % R = c
    BY <1>1, <2>1, QuotientOf
  <2> QED BY <2>2, <2>3
<1> QED
  BY <1>3, <1>4, <1>5, <1>6 DEF PlaceOfTile, TilesPerHead, R

\* The array offers the score the FIFO waits for.
LEMMA OfferedPlace ==
    ASSUME StreamInv, score_valid, NEW k \in Nat, NEW e \in 0 .. RESULT_N - 1,
           sent = k * RESULT_N + e
    PROVE  \E r, c \in 0 .. RowTiles - 1 :
               /\ PlaceOfTile(k) = [group |-> group_id_reg, head |-> head_reg,
                                    row |-> r * TILE, col |-> c * TILE]
               /\ score_row = r * TILE + e \div TILE
               /\ score_col = c * TILE + (e % TILE)
<1>1. PICK r \in 0 .. RowTiles - 1, b \in 0 .. RowTiles - 1 : At(r, b)
  BY DEF StreamInv, PlaceInv, score_valid
<1> DEFINE i == NextIndex
           h == head_reg
<1>2. PICK c \in 0 .. RowTiles - 1 : c = b + emit_lane
  BY <1>1, PortShows
<1>3. /\ selected_index = i /\ i \in 0 .. RESULT_N - 1 /\ h \in Nat
      /\ sent = Number(h, r, c, i)
  <2>1. h \in 0 .. Q_HEADS - 1
    BY <1>1, PortShows
  <2>2. h \in Nat
    BY <2>1, QkAssumption
  <2> QED BY <1>1, <1>2, <2>2, PortShows
<1>4. lane_col(emit_lane) = c * TILE /\ row_base_reg = r * TILE
  <2>1. emit_lane \in Nat /\ b \in Nat /\ pair_col_base_reg = b * TILE /\ row_base_reg = r * TILE
    BY <1>1, Sizes DEF At, StreamInv, IInv, TypeOK
  <2> QED BY <1>2, <2>1, LaneTile
<1> HIDE DEF i, h
<1>5. k = (h * RowTiles + r) * RowTiles + c /\ e = i
  <2> DEFINE q == (h * RowTiles + r) * RowTiles + c
             N == RESULT_N
  <2>1. q \in Nat /\ N \in Nat \ {0}
    BY <1>3, Geometry
  <2>2. k * N + e = q * N + i /\ e \in 0 .. N - 1 /\ i \in 0 .. N - 1
    BY <1>3 DEF Number
  <2> HIDE DEF q, N
  <2>3. (k * N + e) \div N = k /\ (k * N + e) % N = e
    BY <2>1, <2>2, QuotientOf
  <2>4. (q * N + i) \div N = q /\ (q * N + i) % N = i
    BY <2>1, <2>2, QuotientOf
  <2> QED BY <2>2, <2>3, <2>4 DEF q
<1>6. PlaceOfTile(k) = [group |-> group_id_reg, head |-> h,
                        row |-> r * TILE, col |-> c * TILE]
  BY <1>3, <1>5, PlaceOfNumber
<1> QED
  BY <1>3, <1>4, <1>5, <1>6 DEF score_row, score_col, h

\* The fields of the item the array offers.
LEMMA OfferedFields ==
    /\ OfferedItem.group = group_id_reg /\ OfferedItem.head = head_reg
    /\ OfferedItem.row = score_row /\ OfferedItem.col = score_col
    /\ OfferedItem.last = score_last
    /\ OfferedItem.mask = (causal_en /\ score_col > score_row)
  BY DEF OfferedItem, score_out, score_mask

\* The FIFO finds no fault with what the array offers, and puts it where it
\* belongs.
LEMMA ItemInOrder ==
    ASSUME StreamInv, PathInv, score_valid,
           NEW k, k = taken + tile_count, NEW e, e = assemble_count
    PROVE  /\ Fifo!InOrder(OfferedItem)
           /\ Fifo!assemble_at_next(OfferedItem) = PlaceOfTile(k)
           /\ OfferedItem.mask <=>
                  /\ causal_en
                  /\ PlaceOfTile(k).col + Fifo!ColOffset(e) > PlaceOfTile(k).row + Fifo!RowOffset(e)
<1>1. /\ k \in Nat /\ e \in 0 .. RESULT_N - 1 /\ TILE \in Nat \ {0}
      /\ sent = k * RESULT_N + e
      /\ e # 0 => assemble_at = PlaceOfTile(k)
  BY PathSizes, Sizes, SMTT(40) DEF PathInv, FifoTypes, Counted, InProgress
<1>2. PICK r \in 0 .. RowTiles - 1, c \in 0 .. RowTiles - 1 :
          /\ PlaceOfTile(k) = [group |-> group_id_reg, head |-> head_reg,
                               row |-> r * TILE, col |-> c * TILE]
          /\ score_row = r * TILE + e \div TILE
          /\ score_col = c * TILE + (e % TILE)
  BY <1>1, OfferedPlace
<1>3. Fifo!RowOffset(e) = e \div TILE /\ Fifo!ColOffset(e) = e % TILE
  BY DEF Fifo!RowOffset, Fifo!ColOffset
<1>4. /\ PlaceOfTile(k).group = group_id_reg /\ PlaceOfTile(k).head = head_reg
      /\ PlaceOfTile(k).row = r * TILE /\ PlaceOfTile(k).col = c * TILE
  BY <1>2
<1>5. OfferedItem.last = Fifo!expected_stream_last(OfferedItem)
  BY OfferedFields DEF Fifo!expected_stream_last, score_last
<1>6. CASE e = 0
  <2>1. e \div TILE = 0 /\ e % TILE = 0
    BY <1>1, <1>6
  <2>2. r \in Nat /\ c \in Nat /\ r * TILE \in Nat /\ c * TILE \in Nat
    BY <1>1, Geometry
  <2>3. score_row = r * TILE /\ score_col = c * TILE
    BY <1>2, <2>1, <2>2
  <2>4. /\ (r * TILE) \div TILE = r /\ (r * TILE) % TILE = 0
        /\ (c * TILE) \div TILE = c /\ (c * TILE) % TILE = 0
    <3>1. 0 \in 0 .. TILE - 1 /\ r * TILE + 0 = r * TILE /\ c * TILE + 0 = c * TILE
      BY <1>1, <2>2
    <3>2. /\ (r * TILE + 0) \div TILE = r /\ (r * TILE + 0) % TILE = 0
          /\ (c * TILE + 0) \div TILE = c /\ (c * TILE + 0) % TILE = 0
      BY <1>1, <2>2, <3>1, QuotientOf
    <3> QED BY <3>1, <3>2
  <2>5. Fifo!InOrder(OfferedItem)
    BY <1>5, <1>6, <2>3, <2>4, OfferedFields DEF Fifo!InOrder
  <2>6. Fifo!Base(OfferedItem.row) = r * TILE /\ Fifo!Base(OfferedItem.col) = c * TILE
    BY <2>3, <2>4, OfferedFields DEF Fifo!Base
  <2>7. Fifo!assemble_at_next(OfferedItem) = PlaceOfTile(k)
    BY <1>2, <1>6, <2>6, OfferedFields DEF Fifo!assemble_at_next, Fifo!PlaceOf
  <2> QED BY <1>2, <1>3, <1>4, <2>5, <2>7, OfferedFields
<1>7. CASE e # 0
  <2>1. assemble_at = PlaceOfTile(k)
    BY <1>1, <1>7
  <2>2. Fifo!expected_row = score_row /\ Fifo!expected_col = score_col
    BY <1>2, <1>3, <1>4, <2>1 DEF Fifo!expected_row, Fifo!expected_col
  <2>3. Fifo!InOrder(OfferedItem)
    BY <1>4, <1>5, <1>7, <2>1, <2>2, OfferedFields DEF Fifo!InOrder
  <2>4. Fifo!assemble_at_next(OfferedItem) = PlaceOfTile(k)
    BY <1>7, <2>1 DEF Fifo!assemble_at_next
  <2> QED BY <1>2, <1>3, <1>4, <2>3, <2>4, OfferedFields
<1> QED
  BY <1>6, <1>7

\* The memory of the FIFO is a ring.
LEMMA Slots ==
    ASSUME NEW p \in Fifo!Ptrs
    PROVE  /\ Fifo!next_ptr(p) \in Fifo!Ptrs
           /\ \A n \in 0 .. DEPTH_TILES : Fifo!SlotFrom(p, n) \in Fifo!Ptrs
           /\ \A n \in 1 .. DEPTH_TILES :
                  Fifo!SlotFrom(Fifo!next_ptr(p), n - 1) = Fifo!SlotFrom(p, n)
           /\ \A n \in 0 .. DEPTH_TILES - 1 :
                  Fifo!next_ptr(Fifo!SlotFrom(p, n)) = Fifo!SlotFrom(p, n + 1)
           /\ \A a, b \in 0 .. DEPTH_TILES :
                  a < b /\ b - a < DEPTH_TILES => Fifo!SlotFrom(p, a) # Fifo!SlotFrom(p, b)
  BY PathSizes DEF Fifo!next_ptr, Fifo!SlotFrom

\* What an edge of the array counts.
LEMMA ArrayCounts ==
    ASSUME NEW score_ready, NEW ended, Edge(FALSE, score_ready, ended)
    PROVE  /\ Fire(score_ready) => score_valid /\ sent' = sent + 1
           /\ ~Fire(score_ready) => sent' = sent
           /\ causal_en' = causal_en
  BY DEF Edge, Idle, StartTiles, RunOn, NextLane, NextTiles, EndTile, Run, Observe, Fire,
         score_valid

\* A number d of tiles, none or one, is taken, and the others move up.
Taking(d, out_ready) ==
    /\ d \in {0, 1} /\ d <= tile_count /\ (d = 1 <=> Fifo!dequeue_tile(out_ready))
    /\ taken' = taken + d /\ read_ptr' \in Fifo!Ptrs
    /\ \A j \in 0 .. DEPTH_TILES - d :
           Fifo!SlotFrom(read_ptr', j) = Fifo!SlotFrom(read_ptr, j + d)
    /\ causal_en' = causal_en /\ group_id_reg' = group_id_reg

LEMMA EdgeTakes ==
    ASSUME PathInv, NEW out_ready \in BOOLEAN, NEW ended, ArrayEdge(out_ready, ended),
           Fifo!ReadSide(out_ready)
    PROVE  \E d \in {0, 1} : Taking(d, out_ready)
<1>1. /\ tile_count \in 0 .. DEPTH_TILES /\ read_ptr \in Fifo!Ptrs /\ taken \in Nat
      /\ DEPTH_TILES \in Nat
  BY PathSizes DEF PathInv, FifoTypes
<1>2. causal_en' = causal_en /\ group_id_reg' = group_id_reg
  BY ArrayCounts DEF ArrayEdge
<1>3. CASE Fifo!dequeue_tile(out_ready)
  <2>1. read_ptr' = Fifo!next_ptr(read_ptr) /\ taken' = taken + 1 /\ tile_count # 0
    BY <1>3 DEF Fifo!ReadSide, ArrayEdge, Fifo!dequeue_tile, Fifo!out_valid
  <2>2. \A j \in 0 .. DEPTH_TILES - 1 :
            Fifo!SlotFrom(read_ptr', j) = Fifo!SlotFrom(read_ptr, j + 1)
    <3>1. TAKE j \in 0 .. DEPTH_TILES - 1
    <3>2. j + 1 \in 1 .. DEPTH_TILES /\ (j + 1) - 1 = j
      BY <1>1
    <3> QED BY <1>1, <2>1, <3>2, Slots
  <2>3. read_ptr' \in Fifo!Ptrs /\ 1 <= tile_count
    BY <1>1, <2>1, Slots
  <2>4. Taking(1, out_ready)
    BY <1>2, <1>3, <2>1, <2>2, <2>3 DEF Taking
  <2> QED BY <2>4
<1>4. CASE ~Fifo!dequeue_tile(out_ready)
  <2>1. read_ptr' = read_ptr /\ taken' = taken
    BY <1>4 DEF Fifo!ReadSide, ArrayEdge
  <2>2. \A j \in 0 .. DEPTH_TILES - 0 :
            Fifo!SlotFrom(read_ptr', j) = Fifo!SlotFrom(read_ptr, j + 0)
    BY <1>1, <2>1
  <2>3. Taking(0, out_ready)
    BY <1>1, <1>2, <1>4, <2>1, <2>2 DEF Taking
  <2> QED BY <2>3
<1> QED
  BY <1>3, <1>4

\* The tiles that stay keep their entries and their numbers.
LEMMA OthersWait ==
    ASSUME PathInv, NEW out_ready, NEW d, Taking(d, out_ready),
           NEW i \in 0 .. (tile_count - d) - 1,
           tile_mem'[Fifo!SlotFrom(read_ptr, i + d)] = tile_mem[Fifo!SlotFrom(read_ptr, i + d)]
    PROVE  InSequence(tile_mem[Fifo!Slot(i)], taken + i)'
<1>1. /\ d \in {0, 1} /\ tile_count \in 0 .. DEPTH_TILES /\ DEPTH_TILES \in Nat /\ taken \in Nat
      /\ causal_en' = causal_en /\ group_id_reg' = group_id_reg /\ taken' = taken + d
  BY PathSizes DEF PathInv, FifoTypes, Taking
<1>2. i \in 0 .. DEPTH_TILES - d /\ i + d \in 0 .. tile_count - 1 /\ taken' + i = taken + (i + d)
  BY <1>1
<1>3. Fifo!SlotFrom(read_ptr', i) = Fifo!SlotFrom(read_ptr, i + d)
  BY <1>2 DEF Taking
<1> PICK x : x = tile_mem[Fifo!SlotFrom(read_ptr, i + d)]
  OBVIOUS
<1> PICK k \in Nat : k = taken + (i + d)
  BY <1>1, <1>2
<1>4. InSequence(x, k)
  BY <1>2 DEF PathInv, Waiting, Fifo!Slot
<1>5. tile_mem'[Fifo!Slot(i)'] = x /\ taken' + i = k
  BY <1>2, <1>3 DEF Fifo!Slot
<1> QED
  BY <1>1, <1>4, <1>5 DEF InSequence, Masked, PlaceOfTile

\* Without a new tile the others move up, and the number of the tile in progress
\* stays what it is.
LEMMA TilesStay ==
    ASSUME PathInv, NEW out_ready, NEW d, Taking(d, out_ready),
           tile_count' = tile_count - d, tile_mem' = tile_mem, write_ptr' = write_ptr
    PROVE  /\ write_ptr' \in Fifo!Ptrs /\ read_ptr' \in Fifo!Ptrs
           /\ tile_count' \in 0 .. DEPTH_TILES /\ taken' \in Nat
           /\ tile_mem' = [p \in Fifo!Ptrs |-> tile_mem'[p]]
           /\ write_ptr' = Fifo!SlotFrom(read_ptr', tile_count')
           /\ Waiting'
           /\ taken' + tile_count' = taken + tile_count
<1>1. /\ d \in {0, 1} /\ d <= tile_count /\ taken' = taken + d /\ read_ptr' \in Fifo!Ptrs
      /\ \A j \in 0 .. DEPTH_TILES - d :
             Fifo!SlotFrom(read_ptr', j) = Fifo!SlotFrom(read_ptr, j + d)
  BY DEF Taking
<1>2. /\ tile_count \in 0 .. DEPTH_TILES /\ DEPTH_TILES \in Nat /\ taken \in Nat
      /\ write_ptr \in Fifo!Ptrs /\ tile_mem = [p \in Fifo!Ptrs |-> tile_mem[p]]
      /\ write_ptr = Fifo!SlotFrom(read_ptr, tile_count)
  BY PathSizes DEF PathInv, FifoTypes, FifoRing
<1>3. /\ tile_count - d \in 0 .. DEPTH_TILES - d /\ (tile_count - d) + d = tile_count
      /\ tile_count - d \in 0 .. DEPTH_TILES
      /\ taken' \in Nat /\ taken' + (tile_count - d) = taken + tile_count
  BY <1>1, <1>2
<1>4. write_ptr = Fifo!SlotFrom(read_ptr', tile_count - d)
  BY <1>1, <1>2, <1>3
<1>5. Waiting'
  <2>1. \A i \in 0 .. (tile_count - d) - 1 : InSequence(tile_mem[Fifo!Slot(i)], taken + i)'
    BY OthersWait
  <2> QED BY <2>1 DEF Waiting
<1> QED
  BY <1>1, <1>2, <1>3, <1>4, <1>5

LEMMA TakeTileKeeps ==
    ASSUME StreamInv, PathInv, NEW ended, TakeTile(ended)
    PROVE  PathInv'
<1>1. /\ ~Fire(Fifo!in_ready(TRUE)) /\ ArrayEdge(TRUE, ended)
      /\ Fifo!ReadSide(TRUE) /\ tile_count' = tile_count - 1 /\ Fifo!dequeue_tile(TRUE)
      /\ UNCHANGED <<tile_mem, write_ptr, assemble_count, assemble, assemble_at, order_error>>
  BY DEF TakeTile, Fifo!Dequeue, Fifo!dequeue_tile
<1>2. Taking(1, TRUE)
  <2>1. PICK d \in {0, 1} : Taking(d, TRUE)
    BY <1>1, EdgeTakes
  <2>2. d = 1
    BY <1>1, <2>1 DEF Taking
  <2> QED BY <2>1, <2>2
<1>3. sent' = sent /\ causal_en' = causal_en /\ group_id_reg' = group_id_reg
  BY <1>1, ArrayCounts DEF ArrayEdge
<1>4. /\ write_ptr' \in Fifo!Ptrs /\ read_ptr' \in Fifo!Ptrs
      /\ tile_count' \in 0 .. DEPTH_TILES /\ taken' \in Nat
      /\ tile_mem' = [p \in Fifo!Ptrs |-> tile_mem'[p]]
      /\ write_ptr' = Fifo!SlotFrom(read_ptr', tile_count')
      /\ Waiting'
      /\ taken' + tile_count' = taken + tile_count
  BY <1>1, <1>2, TilesStay
<1>5. FifoTypes'
  BY <1>1, <1>4 DEF PathInv, FifoTypes
<1>6. FifoRing'
  BY <1>1, <1>4, PathSizes DEF PathInv, FifoTypes, FifoRing
<1>7. Counted'
  BY <1>1, <1>3, <1>4 DEF PathInv, Counted
<1>8. InProgress'
  BY <1>1, <1>3, <1>4 DEF PathInv, InProgress, Masked, PlaceOfTile
<1> QED
  BY <1>1, <1>4, <1>5, <1>6, <1>7, <1>8 DEF PathInv

\* The element handed over joins those of its tile.
LEMMA CellsMasked ==
    ASSUME StreamInv, PathInv, score_valid,
           NEW k, k = taken + tile_count,
           NEW e \in Fifo!Elems, e <= assemble_count
    PROVE  Masked(Fifo!assembled_next(OfferedItem), PlaceOfTile(k), e)
<1> DEFINE cells == Fifo!assembled_next(OfferedItem)
<1>1. assemble_count \in Fifo!Elems /\ assemble = [x \in Fifo!Elems |-> assemble[x]]
  BY DEF PathInv, FifoTypes
<1>2. cells = [x \in Fifo!Elems |-> IF x = assemble_count THEN Fifo!Cell(OfferedItem)
                                    ELSE assemble[x]]
  BY <1>1 DEF Fifo!assembled_next
<1> HIDE DEF cells
<1>3. CASE e = assemble_count
  <2>1. cells[e].mask = OfferedItem.mask
    BY <1>2, <1>3 DEF Fifo!Cell
  <2>2. OfferedItem.mask <=>
            /\ causal_en
            /\ PlaceOfTile(k).col + Fifo!ColOffset(e) > PlaceOfTile(k).row + Fifo!RowOffset(e)
    BY <1>3, ItemInOrder
  <2> QED BY <2>1, <2>2 DEF Masked, cells
<1>4. CASE e # assemble_count
  <2>1. assemble_count # 0 /\ e < assemble_count
    BY <1>1, <1>4, PathSizes, Sizes
  <2>2. assemble_at = PlaceOfTile(k) /\ Masked(assemble, assemble_at, e)
    BY <2>1 DEF PathInv, InProgress
  <2>3. cells[e] = assemble[e]
    BY <1>2, <1>4
  <2> QED BY <2>2, <2>3 DEF Masked, cells
<1> QED
  BY <1>3, <1>4

\* What both kinds of transfers do.
LEMMA TransferFacts ==
    ASSUME StreamInv, PathInv, NEW out_ready \in BOOLEAN, NEW ended,
           Fire(Fifo!in_ready(out_ready)), ArrayEdge(out_ready, ended),
           Fifo!in_ready(out_ready), Fifo!CheckItem(OfferedItem), Fifo!ReadSide(out_ready)
    PROVE  /\ score_valid /\ sent' = sent + 1
           /\ order_error' = FALSE
           /\ assemble_at' = PlaceOfTile(taken + tile_count)
           /\ \E d \in {0, 1} : Taking(d, out_ready) /\ tile_count - d < DEPTH_TILES
<1>1. score_valid /\ sent' = sent + 1
  BY ArrayCounts DEF ArrayEdge
<1>2. /\ Fifo!InOrder(OfferedItem)
      /\ Fifo!assemble_at_next(OfferedItem) = PlaceOfTile(taken + tile_count)
  <2>1. PICK k : k = taken + tile_count
    OBVIOUS
  <2>2. PICK e : e = assemble_count
    OBVIOUS
  <2> QED BY <1>1, <2>1, <2>2, ItemInOrder
<1>3. PICK d \in {0, 1} : Taking(d, out_ready)
  BY EdgeTakes
<1>4. /\ tile_count \in 0 .. DEPTH_TILES /\ DEPTH_TILES \in Nat
      /\ assemble_count # 0 => tile_count < DEPTH_TILES
      /\ d = 1 <=> Fifo!dequeue_tile(out_ready)
      /\ assemble_count # 0 \/ tile_count < DEPTH_TILES \/ Fifo!dequeue_tile(out_ready)
  BY <1>3, PathSizes DEF PathInv, FifoTypes, FifoRing, Taking, Fifo!in_ready
<1>5. tile_count - d < DEPTH_TILES
  BY <1>3, <1>4
<1> QED
  BY <1>1, <1>2, <1>3, <1>5 DEF Fifo!CheckItem, PathInv

LEMMA AssembleKeeps ==
    ASSUME StreamInv, PathInv, NEW out_ready \in BOOLEAN, NEW ended,
           Fire(Fifo!in_ready(out_ready)), ArrayEdge(out_ready, ended),
           Fifo!Assemble(OfferedItem, out_ready)
    PROVE  PathInv'
<1>1. /\ Fifo!in_ready(out_ready) /\ Fifo!CheckItem(OfferedItem) /\ Fifo!ReadSide(out_ready)
      /\ assemble_count # Fifo!TILE_ITEMS - 1
      /\ assemble' = Fifo!assembled_next(OfferedItem)
      /\ assemble_count' = assemble_count + 1
      /\ tile_count' = IF Fifo!dequeue_tile(out_ready) THEN tile_count - 1 ELSE tile_count
      /\ tile_mem' = tile_mem /\ write_ptr' = write_ptr
  BY DEF Fifo!Assemble
<1>2. /\ score_valid /\ sent' = sent + 1 /\ order_error' = FALSE
      /\ assemble_at' = PlaceOfTile(taken + tile_count)
  BY <1>1, TransferFacts
<1>3. PICK d \in {0, 1} : Taking(d, out_ready) /\ tile_count - d < DEPTH_TILES
  BY <1>1, TransferFacts
<1>4. /\ tile_count \in 0 .. DEPTH_TILES /\ assemble_count \in 0 .. RESULT_N - 1
      /\ assemble_count' \in 1 .. RESULT_N - 1 /\ RESULT_N \in Nat
      /\ assemble = [e \in Fifo!Elems |-> assemble[e]]
  <2>1. /\ tile_count \in 0 .. DEPTH_TILES /\ assemble_count \in 0 .. RESULT_N - 1
        /\ RESULT_N \in Nat /\ assemble = [e \in Fifo!Elems |-> assemble[e]]
    BY PathSizes, Sizes DEF PathInv, FifoTypes
  <2>2. assemble_count # RESULT_N - 1
    BY <1>1, PathSizes
  <2>3. assemble_count' \in 1 .. RESULT_N - 1
    BY <1>1, <2>1, <2>2
  <2> QED BY <2>1, <2>3
<1>5. /\ tile_count' = tile_count - d
      /\ causal_en' = causal_en /\ group_id_reg' = group_id_reg
  BY <1>1, <1>3, <1>4 DEF Taking
<1>6. /\ write_ptr' \in Fifo!Ptrs /\ read_ptr' \in Fifo!Ptrs
      /\ tile_count' \in 0 .. DEPTH_TILES /\ taken' \in Nat
      /\ tile_mem' = [p \in Fifo!Ptrs |-> tile_mem'[p]]
      /\ write_ptr' = Fifo!SlotFrom(read_ptr', tile_count')
      /\ Waiting'
      /\ taken' + tile_count' = taken + tile_count
  BY <1>1, <1>3, <1>5, TilesStay
<1>7. FifoTypes'
  <2>1. assemble' = [e \in Fifo!Elems |-> assemble'[e]]
    BY <1>1, <1>4 DEF Fifo!assembled_next
  <2>2. assemble_count' \in Fifo!Elems
    BY <1>4, PathSizes
  <2> QED BY <1>6, <2>1, <2>2 DEF FifoTypes
<1>8. FifoRing'
  BY <1>3, <1>5, <1>6 DEF FifoRing
<1>9. Counted'
  <2> DEFINE p == (taken + tile_count) * RESULT_N
  <2>1. p + assemble_count = sent /\ p \in Int
    BY <1>4, PathSizes DEF PathInv, Counted, FifoTypes
  <2> HIDE DEF p
  <2>2. p + (assemble_count + 1) = sent + 1
    BY <1>4, <2>1
  <2>3. (taken' + tile_count') * Fifo!TILE_ITEMS = p
    BY <1>6, PathSizes DEF p
  <2> QED BY <1>1, <1>2, <2>2, <2>3 DEF Counted
<1>10. InProgress'
  <2>1. PICK k \in Nat : k = taken + tile_count
    BY <1>4 DEF PathInv, FifoTypes
  <2>2. PlaceOfTile(taken + tile_count)' = PlaceOfTile(k)
    BY <1>5, <1>6, <2>1 DEF PlaceOfTile
  <2>3. ASSUME NEW e \in Fifo!Elems, e < assemble_count'
        PROVE  Masked(assemble, assemble_at, e)'
    <3>1. e <= assemble_count
      BY <1>1, <1>4, <2>3, PathSizes
    <3>2. Masked(Fifo!assembled_next(OfferedItem), PlaceOfTile(k), e)
      BY <1>2, <2>1, <3>1, CellsMasked
    <3> QED BY <1>1, <1>2, <1>5, <2>1, <3>2 DEF Masked
  <2> QED BY <1>2, <2>1, <2>2, <2>3 DEF InProgress
<1> QED
  BY <1>2, <1>6, <1>7, <1>8, <1>9, <1>10 DEF PathInv

\* The tile completed becomes the last one waiting.
LEMMA EnqueueKeeps ==
    ASSUME StreamInv, PathInv, NEW out_ready \in BOOLEAN, NEW ended,
           Fire(Fifo!in_ready(out_ready)), ArrayEdge(out_ready, ended),
           Fifo!Enqueue(OfferedItem, out_ready)
    PROVE  PathInv'
<1> DEFINE entry == [cells |-> Fifo!assembled_next(OfferedItem),
                     at |-> Fifo!assemble_at_next(OfferedItem), last |-> OfferedItem.last]
<1>1. /\ Fifo!in_ready(out_ready) /\ Fifo!CheckItem(OfferedItem) /\ Fifo!ReadSide(out_ready)
      /\ assemble_count = Fifo!TILE_ITEMS - 1
      /\ tile_mem' = [tile_mem EXCEPT ![write_ptr] = entry]
      /\ write_ptr' = Fifo!next_ptr(write_ptr)
      /\ assemble_count' = 0 /\ assemble' = [e \in Fifo!Elems |-> Fifo!Blank]
      /\ tile_count' = IF Fifo!dequeue_tile(out_ready) THEN tile_count ELSE tile_count + 1
  BY DEF Fifo!Enqueue
<1>2. /\ score_valid /\ sent' = sent + 1 /\ order_error' = FALSE
  BY <1>1, TransferFacts
<1>3. PICK d \in {0, 1} : Taking(d, out_ready) /\ tile_count - d < DEPTH_TILES
  BY <1>1, TransferFacts
<1>4. /\ tile_count \in 0 .. DEPTH_TILES /\ DEPTH_TILES \in Nat /\ taken \in Nat
      /\ assemble_count = RESULT_N - 1 /\ RESULT_N \in Nat \ {0}
      /\ write_ptr \in Fifo!Ptrs /\ read_ptr \in Fifo!Ptrs
      /\ write_ptr = Fifo!SlotFrom(read_ptr, tile_count)
      /\ tile_mem = [p \in Fifo!Ptrs |-> tile_mem[p]]
  BY <1>1, PathSizes, Sizes DEF PathInv, FifoTypes, FifoRing
<1>5. /\ tile_count' = tile_count - d + 1 /\ d <= tile_count
      /\ taken' = taken + d /\ read_ptr' \in Fifo!Ptrs
      /\ \A j \in 0 .. DEPTH_TILES - d :
             Fifo!SlotFrom(read_ptr', j) = Fifo!SlotFrom(read_ptr, j + d)
      /\ causal_en' = causal_en /\ group_id_reg' = group_id_reg
  BY <1>1, <1>3, <1>4 DEF Taking
<1>6. PICK n : n = tile_count - d
  OBVIOUS
<1>7. /\ n \in 0 .. DEPTH_TILES - 1 /\ n \in 0 .. DEPTH_TILES - d /\ n + d = tile_count
      /\ tile_count' = n + 1 /\ taken' + n = taken + tile_count
      /\ taken' \in Nat /\ tile_count' \in 0 .. DEPTH_TILES
  BY <1>3, <1>4, <1>5, <1>6
<1>8. write_ptr = Fifo!SlotFrom(read_ptr', n)
  BY <1>4, <1>5, <1>7
<1>9. write_ptr' = Fifo!SlotFrom(read_ptr', tile_count') /\ write_ptr' \in Fifo!Ptrs
  <2>1. PICK q \in Fifo!Ptrs : q = read_ptr'
    BY <1>5
  <2>2. Fifo!next_ptr(Fifo!SlotFrom(q, n)) = Fifo!SlotFrom(q, n + 1)
    BY <1>7, Slots
  <2>3. Fifo!next_ptr(write_ptr) \in Fifo!Ptrs
    BY <1>4, Slots
  <2> QED BY <1>1, <1>7, <1>8, <2>1, <2>2, <2>3
<1> HIDE DEF entry
<1>10. /\ tile_mem'[write_ptr] = entry
       /\ \A p \in Fifo!Ptrs : p # write_ptr => tile_mem'[p] = tile_mem[p]
       /\ tile_mem' = [p \in Fifo!Ptrs |-> tile_mem'[p]]
  BY <1>1, <1>4
<1>11. FifoTypes'
  <2>1. assemble' = [e \in Fifo!Elems |-> assemble'[e]]
    BY <1>1
  <2>2. assemble_count' \in Fifo!Elems
    BY <1>1, <1>4, PathSizes
  <2> QED BY <1>5, <1>7, <1>9, <1>10, <2>1, <2>2 DEF FifoTypes
<1>12. FifoRing'
  BY <1>1, <1>9 DEF FifoRing
<1>13. Counted'
  <2>1. PICK k \in Nat : k = taken + tile_count
    BY <1>4
  <2> DEFINE p == k * RESULT_N
  <2>2. p + assemble_count = sent /\ p \in Int
    BY <1>4, <2>1, PathSizes DEF PathInv, Counted
  <2>3. (k + 1) * RESULT_N = p + RESULT_N
    BY <1>4, <2>1
  <2> HIDE DEF p
  <2>4. p + RESULT_N + 0 = sent + 1
    BY <1>4, <2>2
  <2>5. taken' + tile_count' = k + 1
    BY <1>4, <1>5, <1>7, <2>1
  <2> QED BY <1>1, <1>2, <2>3, <2>4, <2>5, PathSizes DEF Counted
<1>14. Waiting'
  <2>1. ASSUME NEW i \in 0 .. n - 1
        PROVE  InSequence(tile_mem[Fifo!Slot(i)], taken + i)'
    <3>1. i + d \in 0 .. DEPTH_TILES /\ i + d < tile_count /\ tile_count - (i + d) < DEPTH_TILES
      BY <1>4, <1>7
    <3>2. Fifo!SlotFrom(read_ptr, i + d) # write_ptr
      BY <1>4, <3>1, Slots, ZenonT(40)
    <3>3. Fifo!SlotFrom(read_ptr, i + d) \in Fifo!Ptrs
      BY <1>4, <3>1, Slots
    <3>4. i \in 0 .. (tile_count - d) - 1
      BY <1>6
    <3> QED BY <1>3, <1>10, <3>2, <3>3, <3>4, OthersWait
  <2>2. InSequence(tile_mem[Fifo!Slot(n)], taken + n)'
    <3>1. PICK k \in Nat : k = taken + tile_count
      BY <1>4
    <3>2. PICK x : x = entry
      OBVIOUS
    <3>3. entry.at = PlaceOfTile(k)
      <4>1. PICK e : e = assemble_count
        OBVIOUS
      <4> QED BY <1>2, <3>1, <4>1, ItemInOrder DEF entry
    <3>4. \A e \in Fifo!Elems : Masked(entry.cells, entry.at, e)
      <4>1. TAKE e \in Fifo!Elems
      <4>2. e <= assemble_count
        BY <1>4, PathSizes
      <4>3. Masked(Fifo!assembled_next(OfferedItem), PlaceOfTile(k), e)
        BY <1>2, <3>1, <4>2, CellsMasked
      <4>4. entry.cells = Fifo!assembled_next(OfferedItem)
        BY DEF entry
      <4> QED BY <3>3, <4>3, <4>4
    <3>5. InSequence(x, k)
      BY <3>2, <3>3, <3>4 DEF InSequence
    <3>6. tile_mem'[Fifo!Slot(n)'] = x /\ taken' + n = k
      BY <1>7, <1>8, <1>10, <3>1, <3>2 DEF Fifo!Slot
    <3> QED BY <1>5, <3>5, <3>6 DEF InSequence, Masked, PlaceOfTile
  <2>3. \A i \in 0 .. tile_count' - 1 : i \in 0 .. n - 1 \/ i = n
    BY <1>7
  <2> QED BY <2>1, <2>2, <2>3 DEF Waiting
<1>15. InProgress'
  BY <1>1, PathSizes DEF InProgress
<1> QED
  BY <1>2, <1>11, <1>12, <1>13, <1>14, <1>15 DEF PathInv
-----------------------------------------------------------------------------
\* Between two launches the FIFO is empty.
LEMMA NewRunKeeps ==
    ASSUME PathInv, NewRun
    PROVE  PathInv'
<1>1. /\ state = "IDLE" /\ assemble_count = 0 /\ tile_count = 0
      /\ Edge(FALSE, Fifo!in_ready(FALSE), {}) /\ Fifo!Clear
      /\ taken' = taken
  BY DEF NewRun, group_start_ready, qk_busy, consumer_busy
<1>2. /\ write_ptr' = 0 /\ read_ptr' = 0 /\ tile_count' = 0 /\ assemble_count' = 0
      /\ assemble' = [e \in Fifo!Elems |-> Fifo!Blank]
      /\ order_error' = FALSE /\ tile_mem' = tile_mem
  BY <1>1 DEF Fifo!Clear
<1>3. sent' = sent
  BY <1>1 DEF Edge, Idle, StartTiles, RunOn, NextLane, NextTiles, EndTile, Run
<1>4. taken \in Nat /\ taken * Fifo!TILE_ITEMS + 0 = sent
  <2>1. taken \in Nat /\ (taken + 0) * Fifo!TILE_ITEMS + 0 = sent
    BY <1>1 DEF PathInv, FifoTypes, Counted
  <2> QED BY <2>1
<1>5. FifoTypes'
  BY <1>1, <1>2, PathSizes, Sizes DEF PathInv, FifoTypes
<1>6. FifoRing'
  BY <1>2, PathSizes DEF FifoRing, Fifo!SlotFrom
<1>7. Counted'
  <2>1. taken + 0 = taken
    BY <1>4
  <2> QED BY <1>1, <1>2, <1>3, <1>4, <2>1 DEF Counted
<1>8. Waiting' /\ InProgress'
  <2>1. 0 .. tile_count' - 1 = {}
    BY <1>2
  <2>2. Waiting'
    BY <2>1 DEF Waiting
  <2> QED BY <1>2, <2>2, PathSizes DEF InProgress
<1> QED
  BY <1>2, <1>5, <1>6, <1>7, <1>8 DEF PathInv

LEMMA StartGroupKeeps ==
    ASSUME PathInv, NEW group_id, StartGroup(group_id)
    PROVE  PathInv'
<1>1. /\ state = "IDLE" /\ assemble_count = 0 /\ tile_count = 0
      /\ Edge(TRUE, Fifo!in_ready(FALSE), {})
      /\ taken' = 0
      /\ UNCHANGED <<tile_mem, write_ptr, read_ptr, tile_count, assemble_count, assemble,
                     order_error>>
  BY DEF StartGroup, group_start_ready, qk_busy, consumer_busy, fifoVars
<1>2. sent' = 0
  BY <1>1 DEF Edge, Start, StartTiles, RunOn, NextLane, NextTiles, EndTile, Run
<1>3. FifoTypes'
  BY <1>1 DEF PathInv, FifoTypes
<1>4. FifoRing'
  BY <1>1 DEF PathInv, FifoRing
<1>5. Counted'
  <2>1. (0 + 0) * Fifo!TILE_ITEMS + 0 = 0
    BY PathSizes, Sizes
  <2> QED BY <1>1, <1>2, <2>1 DEF Counted
<1>6. Waiting' /\ InProgress'
  <2>1. 0 .. tile_count' - 1 = {}
    BY <1>1
  <2>2. Waiting'
    BY <2>1 DEF Waiting
  <2> QED BY <1>1, <2>2, PathSizes DEF InProgress
<1> QED
  BY <1>1, <1>3, <1>4, <1>5, <1>6 DEF PathInv

\* What no tile and no score passes leaves the way as it is.
LEMMA NothingPasses ==
    ASSUME PathInv, UNCHANGED <<fifoVars, taken, group_id_reg, sent, causal_en>>
    PROVE  PathInv'
<1>1. /\ UNCHANGED <<tile_mem, write_ptr, read_ptr, tile_count, assemble_count>>
      /\ UNCHANGED <<assemble, assemble_at, order_error, taken, group_id_reg, sent, causal_en>>
  BY DEF fifoVars
<1>2. FifoTypes' /\ FifoRing' /\ Counted'
  BY <1>1 DEF PathInv, FifoTypes, FifoRing, Counted
<1>3. Waiting'
  <2>1. ASSUME NEW i \in 0 .. tile_count - 1
        PROVE  InSequence(tile_mem[Fifo!Slot(i)], taken + i)'
    <3>1. InSequence(tile_mem[Fifo!Slot(i)], taken + i)
      BY DEF PathInv, Waiting
    <3> QED BY <1>1, <3>1 DEF InSequence, Masked, PlaceOfTile, Fifo!Slot
  <2> QED BY <1>1, <2>1 DEF Waiting
<1>4. InProgress'
  BY <1>1 DEF PathInv, InProgress, Masked, PlaceOfTile
<1> QED
  BY <1>1, <1>2, <1>3, <1>4 DEF PathInv

LEMMA RunningKeeps ==
    ASSUME StreamInv, PathInv, NEW out_ready \in BOOLEAN, NEW ended,
           RunningEdge(out_ready, ended)
    PROVE  PathInv'
<1>1. CASE Transfer(out_ready, ended)
  BY <1>1, AssembleKeeps, EnqueueKeeps DEF Transfer
<1>2. CASE TakeTile(ended)
  BY <1>2, TakeTileKeeps
<1>3. CASE ArrayAlone(out_ready, ended)
  <2>1. sent' = sent /\ causal_en' = causal_en /\ taken' = taken /\ group_id_reg' = group_id_reg
    BY <1>3, ArrayCounts DEF ArrayAlone, ArrayEdge
  <2> QED BY <1>3, <2>1, NothingPasses DEF ArrayAlone
<1> QED
  BY <1>1, <1>2, <1>3 DEF RunningEdge

\* Every edge of the way is one of the array.
LEMMA PathEdge ==
    ASSUME PathNext
    PROVE  Next
<1>1. \A out_ready \in BOOLEAN : Fifo!in_ready(out_ready) \in BOOLEAN
  BY DEF Fifo!in_ready
<1>2. {} \in SUBSET WorkingLanes /\ TRUE \in BOOLEAN /\ FALSE \in BOOLEAN
  OBVIOUS
<1>3. CASE NewRun
  BY <1>1, <1>2, <1>3 DEF NewRun, Next
<1>4. ASSUME NEW group_id, StartGroup(group_id)
      PROVE  Next
  BY <1>1, <1>2, <1>4 DEF StartGroup, Next
<1>5. ASSUME NEW out_ready \in BOOLEAN, NEW ended \in SUBSET WorkingLanes,
             RunningEdge(out_ready, ended)
      PROVE  Next
  <2>1. \E r \in BOOLEAN : ArrayEdge(r, ended)
    BY <1>2, <1>5 DEF RunningEdge, Transfer, TakeTile, ArrayAlone
  <2> QED BY <1>1, <1>2, <2>1 DEF ArrayEdge, Next
<1> QED
  BY <1>3, <1>4, <1>5 DEF PathNext

LEMMA PathInitInv == PathInit => PathInv
<1> SUFFICES ASSUME PathInit PROVE PathInv
  OBVIOUS
<1>1. /\ tile_mem = [p \in Fifo!Ptrs |-> Fifo!NoTile] /\ write_ptr = 0 /\ read_ptr = 0
      /\ tile_count = 0 /\ assemble_count = 0 /\ assemble = [e \in Fifo!Elems |-> Fifo!Blank]
      /\ order_error = FALSE /\ taken = 0 /\ sent = 0
  BY DEF PathInit, Init, Fifo!Init
<1>2. FifoTypes
  BY <1>1, PathSizes, Sizes DEF FifoTypes
<1>3. FifoRing /\ InProgress
  BY <1>1, PathSizes DEF FifoRing, InProgress, Fifo!SlotFrom
<1>4. Counted
  <2>1. (0 + 0) * Fifo!TILE_ITEMS + 0 = 0
    BY PathSizes, Sizes
  <2> QED BY <1>1, <2>1 DEF Counted
<1>5. Waiting
  BY <1>1 DEF Waiting
<1> QED
  BY <1>1, <1>2, <1>3, <1>4, <1>5 DEF PathInv

\* The array behaves the same whoever takes its scores.
LEMMA PathIsSpec == PathSpec => Spec
<1>1. PathInit => Init
  BY DEF PathInit
<1>2. [PathNext]_pathVars => [Next]_vars
  BY PathEdge DEF pathVars
<1> QED
  BY <1>1, <1>2, PTL DEF PathSpec, Spec

LEMMA PathInvariance == PathSpec => []PathInv
<1>1. PathInit => PathInv
  BY PathInitInv
<1>2. StreamInv /\ PathInv /\ [PathNext]_pathVars => PathInv'
  <2> SUFFICES ASSUME StreamInv, PathInv, [PathNext]_pathVars PROVE PathInv'
    OBVIOUS
  <2>1. CASE NewRun
    BY <2>1, NewRunKeeps
  <2>2. ASSUME NEW group_id, StartGroup(group_id) PROVE PathInv'
    BY <2>2, StartGroupKeeps
  <2>3. ASSUME NEW out_ready \in BOOLEAN, NEW ended, RunningEdge(out_ready, ended)
        PROVE  PathInv'
    BY <2>3, RunningKeeps
  <2>4. CASE UNCHANGED pathVars
    BY <2>4, NothingPasses DEF pathVars, vars, schedVars
  <2> QED BY <2>1, <2>2, <2>3, <2>4 DEF PathNext
<1> QED
  BY <1>1, <1>2, PathIsSpec, StreamInvariance, PTL DEF PathSpec
-----------------------------------------------------------------------------
\* Every tile waiting for the softmax is the next one of the group launched,
\* with the mask of its place, no score is lost or doubled on the way, and the
\* order checker of flash_score_tile_fifo.sv never fires, for every number of
\* lanes, tile size, sequence length and depth of the FIFO.
THEOREM TilesArriveInSequence == PathSpec => []TilesInSequence
<1>1. PathInv => TilesInSequence
  BY DEF PathInv, Counted, Waiting, InSequence, Masked, TilesInSequence
<1> QED
  BY <1>1, PathInvariance, PTL

\* Behind the FIFO, too, the array sends its stream and never mixes up the
\* vectors of its lanes.
THEOREM ArrayInPath == PathSpec => ImplementsStream /\ []VectorIsAwaited
  BY PathIsSpec, Refinement, VectorIsAwaitedAlways
\* The places of tiles one after the other: the next column of the row, or the
\* first one of a row.
Follows(k, at) ==
    /\ at.col % TILE = 0
    /\ at.col # 0 =>
          /\ k # 0
          /\ LET before == PlaceOfTile(k - 1)
             IN  /\ at.group = before.group /\ at.head = before.head /\ at.row = before.row
                 /\ at.col = before.col + TILE

LEMMA NextPlace ==
    ASSUME NEW k \in Nat
    PROVE  Follows(k, PlaceOfTile(k))
<1> DEFINE R == RowTiles
           q == k \div R
           c == k % R
           h == q \div R
           r == q % R
<1>1. R \in Nat \ {0} /\ TILE \in Nat \ {0}
  BY Geometry
<1> HIDE DEF R
<1>2. q \in Nat /\ c \in 0 .. R - 1 /\ k = q * R + c
  BY <1>1
<1> HIDE DEF q, c
<1>3. h \in Nat /\ r \in 0 .. R - 1 /\ q = h * R + r
  BY <1>1, <1>2
<1> HIDE DEF h, r
<1>4. k = (h * RowTiles + r) * RowTiles + c /\ r \in 0 .. RowTiles - 1 /\ c \in 0 .. RowTiles - 1
  BY <1>2, <1>3 DEF R
<1>5. PlaceOfTile(k) = [group |-> group_id_reg, head |-> h, row |-> r * TILE, col |-> c * TILE]
  BY <1>3, <1>4, PlaceOfNumber
<1>6. (c * TILE) % TILE = 0
  <2>1. c \in Nat /\ 0 \in 0 .. TILE - 1 /\ c * TILE + 0 = c * TILE
    BY <1>1, <1>2
  <2>2. (c * TILE + 0) % TILE = 0
    BY <1>1, <2>1, QuotientOf
  <2> QED BY <2>1, <2>2
<1>7. ASSUME c * TILE # 0
      PROVE  /\ k # 0
             /\ PlaceOfTile(k - 1) = [group |-> group_id_reg, head |-> h,
                                      row |-> r * TILE, col |-> (c - 1) * TILE]
             /\ (c - 1) * TILE + TILE = c * TILE
  <2>1. c # 0
    <3>1. 0 * TILE = 0
      BY <1>1
    <3> QED BY <1>7, <3>1
  <2>2. PICK b \in 0 .. R - 1 : b = c - 1 /\ c = b + 1
    <3>1. c - 1 \in 0 .. R - 1 /\ c = (c - 1) + 1
      BY <1>1, <1>2, <2>1
    <3> QED BY <3>1
  <2>3. q * R \in Nat /\ k # 0 /\ k - 1 = q * R + b
    BY <1>1, <1>2, <2>2
  <2>4. k - 1 = (h * RowTiles + r) * RowTiles + b /\ b \in 0 .. RowTiles - 1
    BY <1>3, <2>2, <2>3 DEF R
  <2>5. PlaceOfTile(k - 1) = [group |-> group_id_reg, head |-> h,
                              row |-> r * TILE, col |-> b * TILE]
    BY <1>3, <1>4, <2>4, PlaceOfNumber
  <2>6. b * TILE + TILE = c * TILE
    BY <2>2, TileOrder
  <2> QED BY <2>2, <2>3, <2>5, <2>6
<1> QED
  BY <1>5, <1>6, <1>7 DEF Follows

\* A tile is taken from the head of the FIFO, and nowhere else.
LEMMA HeadIsNext ==
    ASSUME PathInv, PathNext, taken' = taken + 1
    PROVE  InSequence(tile_mem[read_ptr], taken)
<1>1. taken \in Nat /\ taken' # taken /\ taken' # 0
  BY DEF PathInv, FifoTypes
<1>2. tile_count # 0
  BY <1>1 DEF PathNext, NewRun, StartGroup, RunningEdge, Transfer, TakeTile, ArrayAlone,
              ArrayEdge, Fifo!dequeue_tile, Fifo!out_valid
<1>3. tile_count \in 0 .. DEPTH_TILES /\ read_ptr \in 0 .. DEPTH_TILES - 1 /\ DEPTH_TILES \in Nat
  BY PathSizes DEF PathInv, FifoTypes
<1>4. 0 \in 0 .. tile_count - 1 /\ taken + 0 = taken
  BY <1>1, <1>2, <1>3
<1>5. Fifo!Slot(0) = read_ptr
  BY <1>3 DEF Fifo!Slot, Fifo!SlotFrom
<1> QED
  BY <1>4, <1>5 DEF PathInv, Waiting

LEMMA PlaceInNat ==
    ASSUME NEW k \in Nat
    PROVE  PlaceOfTile(k).row \in Nat
<1>1. RowTiles \in Nat \ {0} /\ TILE \in Nat
  BY Geometry
<1>2. RowTiles * RowTiles \in Nat \ {0}
  BY <1>1
<1> PICK t \in Nat : t = k % (RowTiles * RowTiles)
  BY <1>2
<1> PICK q \in Nat : q = t \div RowTiles
  BY <1>1
<1>3. q * TILE \in Nat
  BY <1>1
<1> QED
  BY <1>3 DEF PlaceOfTile, TilesPerHead

\* Whatever tile the softmax takes is the first one of a row of tiles, or lies
\* next to the tile it took before, of the same group, head and rows.  This is
\* what the order check of flash_online_softmax_frontend.sv asks of its producer, and
\* it never comes from a tile taken of an earlier group.
THEOREM TilesFollowRows ==
    PathSpec => [][taken' = taken + 1 => Follows(taken, tile_mem[read_ptr].at)]_pathVars
<1>1. PathInv /\ [PathNext]_pathVars =>
          [taken' = taken + 1 => Follows(taken, tile_mem[read_ptr].at)]_pathVars
  <2> SUFFICES ASSUME PathInv, PathNext, taken' = taken + 1
               PROVE  Follows(taken, tile_mem[read_ptr].at)
    OBVIOUS
  <2>1. taken \in Nat
    BY DEF PathInv, FifoTypes
  <2> QED BY <2>1, NextPlace, HeadIsNext DEF InSequence
<1> QED
  BY <1>1, PathInvariance, PTL DEF PathSpec
\* The first tile of a row block leaves each of its rows at least one key, the
\* first of them all: score_mask of qk_flash_attention_pipeline_top.sv masks only
\* what lies behind the row, with the causal mask as without it.
THEOREM FirstTilesHaveKeys ==
    PathSpec => [][taken' = taken + 1 /\ tile_mem[read_ptr].at.col = 0 =>
                       \A r \in 0 .. TILE - 1 : ~tile_mem[read_ptr].cells[r * TILE].mask]_pathVars
<1>1. ASSUME PathInv, PathNext, taken' = taken + 1, tile_mem[read_ptr].at.col = 0,
             NEW r \in 0 .. TILE - 1
      PROVE  ~tile_mem[read_ptr].cells[r * TILE].mask
  <2> DEFINE entry == tile_mem[read_ptr]
             e == r * TILE
  <2>1. InSequence(entry, taken)
    BY <1>1, HeadIsNext
  <2>2. taken \in Nat /\ TILE \in Nat \ {0} /\ r \in Nat
    BY <1>1, Geometry DEF PathInv, FifoTypes
  <2>3. e \in Fifo!Elems /\ Fifo!ColOffset(e) = 0 /\ Fifo!RowOffset(e) = r
    <3>1. r * TILE + 0 \in 0 .. TILE * TILE - 1
      BY <2>2, BelowProduct
    <3>2. (r * TILE + 0) \div TILE = r /\ (r * TILE + 0) % TILE = 0
      BY <2>2, QuotientOf
    <3>3. r * TILE + 0 = r * TILE
      BY <2>2
    <3> QED BY <3>1, <3>2, <3>3, PathSizes, Geometry DEF Fifo!ColOffset, Fifo!RowOffset
  <2>4. entry.at.row \in Nat
    BY <2>1, <2>2, PlaceInNat DEF InSequence
  <2> HIDE DEF e, entry
  <2>5. entry.cells[e].mask <=> causal_en /\ entry.at.col + 0 > entry.at.row + r
    BY <2>1, <2>3 DEF InSequence, Masked
  <2> QED BY <1>1, <2>2, <2>4, <2>5 DEF e, entry
<1>2. PathInv /\ [PathNext]_pathVars =>
          [taken' = taken + 1 /\ tile_mem[read_ptr].at.col = 0 =>
               \A r \in 0 .. TILE - 1 : ~tile_mem[read_ptr].cells[r * TILE].mask]_pathVars
  BY <1>1
<1> QED
  BY <1>2, PathInvariance, PTL DEF PathSpec
=============================================================================
