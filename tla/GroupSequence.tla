--------------------------- MODULE GroupSequence ---------------------------
(***************************************************************************)
(* The sequence of the groups of a run and the Q/K data each computes on:  *)
(* rtl/core/a/flash_attention_system_with_rope_top.sv launches the groups, *)
(* rtl/core/rope/rope_group_bridge.sv has rope_group_prepare.sv fetch,     *)
(* rotate (rope_pair_pipeline.sv) and cache (rope_qk_group_cache.sv) the   *)
(* heads of one, then starts qk_flash_attention_pipeline_top.sv on it.     *)
(*                                                                         *)
(* A raw pair is abstracted to where it was read and in which run, a       *)
(* rotated pair to the raw pair and the ROM address of its angle.  The QK  *)
(* array is abstracted to its requests in the order of one lane (QkArray   *)
(* has the others), what follows it to a delay before the last context     *)
(* word; both may take any number of edges.                                *)
(***************************************************************************)
EXTENDS Integers, Sequences

CONSTANTS
    TILE, SEQ_LEN, HEAD_DIM, Q_HEADS, GQA_GROUPS, RUN_GQA_GROUPS,
    MaxRuns      \* bound: runs of the model

\* The parameter checks of the initial blocks.
ASSUME GroupAssumption ==
    /\ TILE \in Nat \ {0} /\ SEQ_LEN \in Nat \ {0} /\ SEQ_LEN % TILE = 0
    /\ HEAD_DIM \in Nat \ {0} /\ HEAD_DIM % 2 = 0
    /\ Q_HEADS \in Nat \ {0} /\ GQA_GROUPS \in Nat \ {0}
    /\ RUN_GQA_GROUPS \in 1 .. GQA_GROUPS
    /\ MaxRuns \in Nat

HALF_DIM == HEAD_DIM \div 2
Heads == 0 .. Q_HEADS - 1
Banks == 0 .. TILE - 1
Addresses == 0 .. (SEQ_LEN \div TILE) * HALF_DIM - 1

VARIABLES
    sys,         \* system top: [state, clear, done, complete, completed, active,
                 \*              busy_error, counted]
    wrapper_start_error,
    bridge,      \* [state, group, prepare_start, pipeline_start, rope_done]
    prep,        \* [state, group, is_k, head, token, pair, done, cache_clear]
    rotor,       \* pair pipeline: [state, word]
    ram,         \* [q, k], by head, bank and address
    cache,       \* [complete, vec_valid, pending, upper, head]
    rd_data,     \* output registers of the RAMs: [q, k]
    vec,         \* the vectors on the read channel: [q, k]
    pipe,        \* pipeline top: [group, busy_error, invalid_error]
    down         \* behind it: [phase, position, ready]

VARIABLES
    asked,       \* the raw pair the reader is to deliver
    run,         \* history: runs started
    finished     \* history: groups whose last context word this run sent

vars == <<sys, wrapper_start_error, bridge, prep, rotor, ram, cache, rd_data, vec,
          pipe, down, asked, run, finished>>

NoRaw == [run |-> 0, is_k |-> FALSE, head |-> 0, token |-> 0, pair |-> 0]
NoWord == [raw |-> NoRaw, angle |-> 0]
NoVec == [b \in Banks |-> [word |-> NoWord, upper |-> FALSE]]
-----------------------------------------------------------------------------
start_ready == sys.state = "IDLE"
group_start == sys.state = "LAUNCH"
group_start_ready == bridge.state = "IDLE" /\ prep.state = "IDLE"

\* The raw pair being prepared.  Mutant: the K head of a group is looked up like
\* a Q head.
HeadAsQ == prep.group * Q_HEADS + prep.head
raw_req_head == IF prep.is_k THEN prep.group ELSE prep.group * Q_HEADS + prep.head
raw_req == [run |-> run, is_k |-> prep.is_k, head |-> raw_req_head,
            token |-> prep.token, pair |-> prep.pair]
rom_addr == prep.token * HALF_DIM + prep.pair
final_pair == prep.is_k /\ prep.token = SEQ_LEN - 1 /\ prep.pair = HALF_DIM - 1

RequestTaken(raw_ready) == prep.state = "REQUEST" /\ raw_ready
ResponseTaken(raw_valid) == prep.state = "RESPONSE" /\ raw_valid /\ rotor.state = "IDLE"
cache_write == prep.state = "RESULT" /\ rotor.state = "OUTPUT"

\* The request of the QK array at the position it has come to.
Positions == Q_HEADS * (SEQ_LEN \div TILE) * (SEQ_LEN \div TILE) * HEAD_DIM
Tile(p) == p \div HEAD_DIM
request ==
    LET t == Tile(down.position)
        n == SEQ_LEN \div TILE
    IN  [head |-> t \div (n * n), row |-> ((t \div n) % n) * TILE,
         col |-> (t % n) * TILE, dim |-> down.position % HEAD_DIM]
vec_ready == down.ready
delivered == cache.vec_valid /\ vec_ready

pipeline_start_ready == down.phase = "IDLE"
qk_start == bridge.pipeline_start /\ pipeline_start_ready /\ bridge.group < GQA_GROUPS
GroupDone(context_ready) == down.phase = "LAST" /\ context_ready
-----------------------------------------------------------------------------
\* The system top: pulses fall unless raised.  The counters of a group are added
\* to those of the run: the figure, the same for every group, counts as one here.
SysBase(start) ==
    [sys EXCEPT !.clear = FALSE, !.done = FALSE, !.complete = FALSE,
                !.busy_error = @ \/ (start /\ ~start_ready)]
SysIdle(start) ==
    IF start
    THEN [SysBase(start) EXCEPT !.state = "LAUNCH", !.clear = TRUE, !.active = 0,
              !.completed = 0, !.busy_error = FALSE, !.counted = 0]
    ELSE SysBase(start)
SysLaunch(start) ==
    [SysBase(start) EXCEPT !.state = IF group_start_ready THEN "ACTIVE" ELSE "LAUNCH"]

\* Mutant: the next group is launched, but its number is not taken on.
SysActiveSameGroup(start, context_ready) ==
    IF GroupDone(context_ready)
    THEN [SysBase(start) EXCEPT !.complete = TRUE, !.completed = sys.active,
              !.counted = @ + 1,
              !.done = sys.counted = RUN_GQA_GROUPS - 1,
              !.state = IF sys.counted = RUN_GQA_GROUPS - 1 THEN "IDLE" ELSE "LAUNCH"]
    ELSE SysBase(start)
SysActive(start, context_ready) ==
    LET last == sys.active = RUN_GQA_GROUPS - 1
    IN  IF GroupDone(context_ready)
        THEN [SysBase(start) EXCEPT !.complete = TRUE, !.completed = sys.active,
                  !.counted = @ + 1, !.done = last,
                  !.active = IF last THEN @ ELSE @ + 1,
                  !.state = IF last THEN "IDLE" ELSE "LAUNCH"]
        ELSE SysBase(start)

SysStep(start, context_ready) ==
    sys' = CASE sys.state = "IDLE" -> SysIdle(start)
             [] sys.state = "LAUNCH" -> SysLaunch(start)
             [] sys.state = "ACTIVE" -> SysActive(start, context_ready)

WrapperStep ==
    wrapper_start_error' =
        (~sys.clear /\ IF group_start THEN ~group_start_ready ELSE wrapper_start_error)

\* Mutant: the launch pulse of the pipeline does not fall.
LaunchHeld == [bridge EXCEPT !.prepare_start = FALSE, !.rope_done = FALSE]
\* The bridge is not reset by the clear pulse.
BridgeBase == [bridge EXCEPT !.prepare_start = FALSE, !.pipeline_start = FALSE,
                             !.rope_done = FALSE]
BridgeStep(context_ready) ==
    bridge' =
      CASE bridge.state = "IDLE" /\ group_start /\ group_start_ready ->
              [BridgeBase EXCEPT !.group = sys.active, !.prepare_start = TRUE,
                                 !.state = "PREPARE"]
        [] bridge.state = "PREPARE" /\ prep.done ->
              [BridgeBase EXCEPT !.rope_done = TRUE, !.state = "LAUNCH"]
        [] bridge.state = "LAUNCH" /\ pipeline_start_ready ->
              [BridgeBase EXCEPT !.pipeline_start = TRUE, !.state = "ACTIVE"]
        [] bridge.state = "ACTIVE" /\ GroupDone(context_ready) ->
              [BridgeBase EXCEPT !.state = "IDLE"]
        [] OTHER -> BridgeBase
-----------------------------------------------------------------------------
\* The preparation walks through pairs, tokens, heads, the K head last.
NextPair(p) ==
    IF p.pair < HALF_DIM - 1 THEN [p EXCEPT !.pair = @ + 1]
    ELSE IF p.token < SEQ_LEN - 1 THEN [p EXCEPT !.pair = 0, !.token = @ + 1]
    ELSE IF ~p.is_k /\ p.head = Q_HEADS - 1
    THEN [p EXCEPT !.pair = 0, !.token = 0, !.is_k = TRUE, !.head = 0]
    ELSE [p EXCEPT !.pair = 0, !.token = 0, !.head = @ + 1]

PrepBase == [prep EXCEPT !.done = FALSE, !.cache_clear = FALSE]
PrepStep(raw_ready, raw_valid) ==
    prep' =
      CASE prep.state = "IDLE" /\ bridge.prepare_start ->
              [state |-> "REQUEST", group |-> bridge.group, is_k |-> FALSE,
               head |-> 0, token |-> 0, pair |-> 0, done |-> FALSE, cache_clear |-> TRUE]
        [] RequestTaken(raw_ready) -> [PrepBase EXCEPT !.state = "RESPONSE"]
        [] ResponseTaken(raw_valid) -> [PrepBase EXCEPT !.state = "RESULT"]
        [] cache_write /\ final_pair -> [PrepBase EXCEPT !.done = TRUE, !.state = "IDLE"]
        [] cache_write /\ ~final_pair -> [NextPair(PrepBase) EXCEPT !.state = "REQUEST"]
        [] OTHER -> PrepBase

\* Its four products and two sums are one piece of work that ends some day.
RotorStep(raw_valid, rotated) ==
    rotor' =
      CASE ResponseTaken(raw_valid) ->
              [state |-> "WORK", word |-> [raw |-> asked, angle |-> rom_addr]]
        [] rotor.state = "WORK" /\ rotated -> [rotor EXCEPT !.state = "OUTPUT"]
        [] cache_write -> [rotor EXCEPT !.state = "IDLE"]
        [] OTHER -> rotor

\* The reader has one raw pair to deliver at a time (ReadChannel).
ReaderStep(raw_ready, raw_valid) ==
    /\ raw_valid => asked # NoRaw
    /\ asked' = IF RequestTaken(raw_ready) THEN raw_req
                ELSE IF ResponseTaken(raw_valid) THEN NoRaw ELSE asked
-----------------------------------------------------------------------------
\* The cache: a bank holds every TILE-th token, a word both halves of a pair.
wr_addr == (prep.token \div TILE) * HALF_DIM + prep.pair
WriteStep ==
    ram' =
      IF ~cache_write THEN ram
      ELSE IF prep.is_k
      THEN [ram EXCEPT !.k[prep.token % TILE][wr_addr] = rotor.word]
      ELSE [ram EXCEPT !.q[prep.head][prep.token % TILE][wr_addr] = rotor.word]

read_pair == IF request.dim < HALF_DIM THEN request.dim ELSE request.dim - HALF_DIM
rd_addr(base, b) == ((base + b) \div TILE) * HALF_DIM + read_pair

load_request == /\ ~cache.vec_valid /\ ~cache.pending
                /\ bridge.state = "ACTIVE" /\ cache.complete /\ vec_ready

ReadStep ==
    rd_data' =
      IF ~load_request THEN rd_data
      ELSE [q |-> [rd_data.q EXCEPT ![request.head] =
                      [b \in Banks |-> ram.q[request.head][b][rd_addr(request.row, b)]]],
            k |-> [b \in Banks |-> ram.k[b][rd_addr(request.col, b)]]]

\* Mutant: the cache is complete for one cycle.
CompletePulse == ~prep.cache_clear /\ cache_write /\ final_pair
complete_next == ~prep.cache_clear /\ (cache.complete \/ (cache_write /\ final_pair))

CacheStep ==
    /\ cache' =
         [complete |-> complete_next,
          vec_valid |-> ~prep.cache_clear /\ (cache.pending \/ (cache.vec_valid /\ ~vec_ready)),
          pending |-> ~prep.cache_clear /\ load_request,
          upper |-> IF load_request /\ ~prep.cache_clear
                    THEN request.dim >= HALF_DIM ELSE cache.upper,
          head |-> IF load_request /\ ~prep.cache_clear THEN request.head ELSE cache.head]
    /\ vec' =
         IF cache.pending /\ ~prep.cache_clear
         THEN [q |-> [b \in Banks |-> [word |-> rd_data.q[cache.head][b], upper |-> cache.upper]],
               k |-> [b \in Banks |-> [word |-> rd_data.k[b], upper |-> cache.upper]]]
         ELSE vec
-----------------------------------------------------------------------------
PipeStep ==
    pipe' =
      CASE sys.clear -> [group |-> 0, busy_error |-> FALSE, invalid_error |-> FALSE]
        [] ~sys.clear /\ qk_start ->
              [group |-> bridge.group, busy_error |-> FALSE, invalid_error |-> FALSE]
        [] OTHER ->
              [pipe EXCEPT
                 !.busy_error = @ \/ (bridge.pipeline_start /\ ~pipeline_start_ready),
                 !.invalid_error = @ \/ (bridge.pipeline_start /\ pipeline_start_ready)]

\* Behind the launch: the array asks for one vector after another, then the rest
\* of the pipeline drains.  The clear pulse reaches the consumer, not the array.
DownStep(moves, context_ready) ==
    down' =
      CASE qk_start -> [phase |-> "QK", position |-> 0, ready |-> FALSE]
        [] down.phase = "QK" /\ delivered ->
              IF down.position = Positions - 1
              THEN [phase |-> "DRAIN", position |-> 0, ready |-> FALSE]
              ELSE [down EXCEPT !.position = @ + 1, !.ready = FALSE]
        [] down.phase = "QK" /\ ~delivered -> [down EXCEPT !.ready = @ \/ moves]
        [] down.phase \in {"DRAIN", "LAST"} /\ sys.clear -> [down EXCEPT !.phase = "IDLE"]
        [] down.phase = "DRAIN" /\ moves /\ ~sys.clear -> [down EXCEPT !.phase = "LAST"]
        [] GroupDone(context_ready) /\ ~sys.clear -> [down EXCEPT !.phase = "IDLE"]
        [] OTHER -> down

History(start, context_ready) ==
    /\ start /\ start_ready => run < MaxRuns
    /\ run' = IF start /\ start_ready THEN run + 1 ELSE run
    /\ finished' = IF start /\ start_ready THEN <<>>
                   ELSE IF GroupDone(context_ready) THEN Append(finished, pipe.group)
                   ELSE finished

Edge(start, raw_ready, raw_valid, rotated, moves, context_ready) ==
    /\ SysStep(start, context_ready) /\ WrapperStep /\ BridgeStep(context_ready)
    /\ PrepStep(raw_ready, raw_valid) /\ RotorStep(raw_valid, rotated)
    /\ ReaderStep(raw_ready, raw_valid)
    /\ WriteStep /\ ReadStep /\ CacheStep
    /\ PipeStep /\ DownStep(moves, context_ready)
    /\ History(start, context_ready)

SysReset == [state |-> "IDLE", clear |-> FALSE, done |-> FALSE, complete |-> FALSE,
             completed |-> 0, active |-> 0, busy_error |-> FALSE, counted |-> 0]
BridgeReset == [state |-> "IDLE", group |-> 0, prepare_start |-> FALSE,
                pipeline_start |-> FALSE, rope_done |-> FALSE]
PrepReset == [state |-> "IDLE", group |-> 0, is_k |-> FALSE, head |-> 0, token |-> 0,
              pair |-> 0, done |-> FALSE, cache_clear |-> FALSE]
RotorReset == [state |-> "IDLE", word |-> NoWord]
CacheReset == [complete |-> FALSE, vec_valid |-> FALSE, pending |-> FALSE,
               upper |-> FALSE, head |-> 0]
PipeReset == [group |-> 0, busy_error |-> FALSE, invalid_error |-> FALSE]
DownReset == [phase |-> "IDLE", position |-> 0, ready |-> FALSE]

\* The soft reset reaches every register, not the RAMs.
Reset ==
    /\ sys' = SysReset /\ wrapper_start_error' = FALSE /\ bridge' = BridgeReset
    /\ prep' = PrepReset /\ rotor' = RotorReset
    /\ cache' = CacheReset /\ vec' = [q |-> NoVec, k |-> NoVec]
    /\ pipe' = PipeReset /\ down' = DownReset
    /\ asked' = NoRaw
    /\ finished' = <<>>
    /\ UNCHANGED <<ram, rd_data, run>>

Init ==
    /\ sys = SysReset /\ wrapper_start_error = FALSE /\ bridge = BridgeReset
    /\ prep = PrepReset /\ rotor = RotorReset
    /\ cache = CacheReset /\ vec = [q |-> NoVec, k |-> NoVec]
    /\ pipe = PipeReset /\ down = DownReset
    /\ ram = [q |-> [h \in Heads |-> [b \in Banks |-> [a \in Addresses |-> NoWord]]],
              k |-> [b \in Banks |-> [a \in Addresses |-> NoWord]]]
    /\ rd_data = [q |-> [h \in Heads |-> [b \in Banks |-> NoWord]],
                  k |-> [b \in Banks |-> NoWord]]
    /\ asked = NoRaw
    /\ run = 0 /\ finished = <<>>

Next ==
    \/ \E start, raw_ready, raw_valid, rotated, moves, context_ready \in BOOLEAN :
           Edge(start, raw_ready, raw_valid, rotated, moves, context_ready)
    \/ Reset

Spec == Init /\ [][Next]_vars

\* The reader accepts and answers, the arithmetic ends, the array and what
\* follows it move on, and the context is taken.
Accepts == \E start, raw_valid, rotated, moves, context_ready \in BOOLEAN :
               Edge(start, TRUE, raw_valid, rotated, moves, context_ready)
Answers == \E start, raw_ready, rotated, moves, context_ready \in BOOLEAN :
               Edge(start, raw_ready, TRUE, rotated, moves, context_ready)
Rotates == \E start, raw_ready, raw_valid, moves, context_ready \in BOOLEAN :
               Edge(start, raw_ready, raw_valid, TRUE, moves, context_ready)
Moves == \E start, raw_ready, raw_valid, rotated, context_ready \in BOOLEAN :
               Edge(start, raw_ready, raw_valid, rotated, TRUE, context_ready)
Taken == \E start, raw_ready, raw_valid, rotated, moves \in BOOLEAN :
               Edge(start, raw_ready, raw_valid, rotated, moves, TRUE)
FairSpec ==
    Spec /\ WF_vars(Accepts) /\ WF_vars(Answers) /\ WF_vars(Rotates)
         /\ WF_vars(Moves) /\ WF_vars(Taken)
-----------------------------------------------------------------------------
\* A vector the array takes is the one it asked for: the heads of the group the
\* system top has active, read in this run, each element rotated by the angle
\* of its own token and pair, whatever the RAMs held before.
Rotated(is_k, head, token, dim) ==
    [word |-> [raw |-> [run |-> run, is_k |-> is_k, head |-> head, token |-> token,
                        pair |-> dim % HALF_DIM],
               angle |-> token * HALF_DIM + (dim % HALF_DIM)],
     upper |-> dim >= HALF_DIM]
VectorIsRotated ==
    delivered =>
        vec = [q |-> [b \in Banks |-> Rotated(FALSE, sys.active * Q_HEADS + request.head,
                                              request.row + b, request.dim)],
               k |-> [b \in Banks |-> Rotated(TRUE, sys.active, request.col + b, request.dim)]]

\* The three controllers stay in step: a launch pulse never meets a busy bridge
\* or pipeline nor an invalid group, and the clear pulse, which reaches neither
\* the bridge nor the preparation nor the array, only comes when they rest.
ControllersInStep ==
    /\ ~wrapper_start_error /\ ~pipe.busy_error /\ ~pipe.invalid_error
    /\ sys.clear => /\ bridge.state = "IDLE" /\ prep.state = "IDLE"
                    /\ rotor.state = "IDLE" /\ asked = NoRaw
                    /\ down.phase = "IDLE"

\* At done every group of the run was computed, in order and once, and the
\* counters of each were added.
GroupsInOrder ==
    sys.done => /\ finished = [i \in 1 .. RUN_GQA_GROUPS |-> i - 1]
                /\ sys.counted = RUN_GQA_GROUPS

\* A started run ends, unless it is reset.
RunEnds == group_start ~> (sys.state = "IDLE")
=============================================================================
