--------------------------- MODULE ContextWriter ---------------------------
(***************************************************************************)
(* The DDR write path of the board engine: the context writer              *)
(* (rtl/board/fpt_context_ddr_writer.sv) packs the context stream into     *)
(* beats, collects a block of TILE_ROWS rows, and has the write half of    *)
(* the AXI master (aq_axi_master_fixed.v) copy the block to DDR.           *)
(*                                                                         *)
(* A context word is abstracted to its row-major index and the run it      *)
(* belongs to; the core emits the words in that order (ContextFusion).     *)
(* The range checks on group, head, row and column always pass for such    *)
(* words: WordsInPlace of ContextPathProofs proves it of the core.         *)
(*                                                                         *)
(* The memory (external) keeps the bursts it has accepted: a soft reset of *)
(* the engine and the master does not take them back.                      *)
(***************************************************************************)
EXTENDS ContextWords, Sequences

CONSTANTS
    BEAT_WORDS,   \* words of a beat (4 in the hardware)
    TILE_ROWS,
    Blocks,       \* blocks of a run: heads times row groups
    Burst,        \* beats of the longest AXI burst (256 in the hardware)
    MaxRuns       \* bound: runs of the model

BEATS_PER_ROW == HEAD_DIM \div BEAT_WORDS
BLOCK_BEATS == TILE_ROWS * BEATS_PER_ROW
BLOCK_WORDS == BLOCK_BEATS * BEAT_WORDS
TOTAL_WORDS == Blocks * BLOCK_WORDS
Lanes == 0 .. BEAT_WORDS - 1

\* The parameter checks of the initial block.
ASSUME WriterAssumption ==
    /\ BEAT_WORDS \in Nat /\ BEAT_WORDS >= 2
    /\ HEAD_DIM \in Nat \ {0} /\ HEAD_DIM % BEAT_WORDS = 0
    /\ TILE_ROWS \in Nat \ {0} /\ Blocks \in Nat \ {0}
    /\ Burst \in Nat \ {0} /\ MaxRuns \in Nat \ {0}

VARIABLES
    ctx_start, soft_reset,
    writer,      \* [busy, done, error, wr_start, pack, lane, beat, words, full,
                 \*  active, final, blocks, accepted]
    block_mem,
    master,      \* [st, adrs, len, awvalid, wvalid, last, wlen], in beats
    wr_error,
    bursts,      \* memory: the bursts it has accepted, oldest first
    responses    \* memory: the write responses it has to give

VARIABLES        \* history
    run, ddr,    \* the run in progress, and what DDR holds
    quiet,       \* the memory had no open burst when this run started
    faulted      \* a bad write response since the last reset

vars == <<ctx_start, soft_reset, writer, block_mem, master, wr_error, bursts,
          responses, run, ddr, quiet, faulted>>

Word(w) == [word |-> w, run |-> run]
NoWord == [word |-> -1, run |-> 0]
NoBeat == [l \in Lanes |-> NoWord]
-----------------------------------------------------------------------------
context_ready == writer.busy /\ ~writer.full /\ ~writer.active /\ ~writer.final
wr_ready == master.st = "IDLE"
wr_done == master.st = "DONE"
\* Mutant: the buffer claims to be empty one beat early.
EmptyTooEarly == ~writer.active \/ writer.beat = BLOCK_BEATS - 1
wr_fifo_empty == ~writer.active
wr_fifo_data == block_mem[writer.beat]
wr_adrs == writer.blocks * BLOCK_BEATS

WVALID == master.wvalid /\ ~wr_fifo_empty
wr_fifo_re(wready) == WVALID /\ wready

\* The word on the context port: the core counts what was accepted.
offered == writer.accepted
lane_of(w) == Col(w) % BEAT_WORDS
incoming_block_number(w) == w \div BLOCK_WORDS
target_beat(w) == (Row(w) % TILE_ROWS) * BEATS_PER_ROW + Col(w) \div BEAT_WORDS
global_last == writer.accepted = TOTAL_WORDS - 1
-----------------------------------------------------------------------------
\* The memory: addresses, then data for the oldest open burst, then responses.
MemoryStep(awready, wready, bvalid) ==
    /\ awready => master.awvalid /\ Len(bursts) < 2
    /\ wready => WVALID /\ bursts # <<>>
    /\ bvalid => responses > 0
    /\ LET closes == wready /\ Head(bursts).left = 1
           asked  == IF awready
                     THEN <<[adrs |-> master.adrs, left |-> master.wlen + 1]>> ELSE <<>>
           kept   == IF ~wready THEN bursts
                     ELSE IF closes THEN Tail(bursts)
                     ELSE <<[adrs |-> Head(bursts).adrs + 1,
                             left |-> Head(bursts).left - 1]>> \o Tail(bursts)
       IN  /\ bursts' = kept \o asked
           /\ ddr' = IF wready THEN [ddr EXCEPT ![Head(bursts).adrs] = wr_fifo_data] ELSE ddr
           /\ responses' = responses + (IF closes THEN 1 ELSE 0) - (IF bvalid THEN 1 ELSE 0)

\* The write machine of the AXI master.  The writer only ever asks for a block,
\* which is a whole number of beats; WR_FIFO_AEMPTY is tied low.
MasterNext(awready, wready, bvalid) ==
    CASE master.st = "IDLE" ->
            IF writer.wr_start
            THEN [master EXCEPT !.st = "WA_WAIT", !.awvalid = FALSE, !.wvalid = FALSE,
                                !.adrs = wr_adrs, !.len = BLOCK_BEATS - 1]
            ELSE [master EXCEPT !.awvalid = FALSE, !.wvalid = FALSE]
      [] master.st = "WA_WAIT" -> [master EXCEPT !.st = "WA_START"]
      [] master.st = "WA_START" ->
            LET more == master.len \div Burst # 0
            IN  [master EXCEPT !.st = "WD_WAIT", !.awvalid = TRUE, !.last = ~more,
                               !.len = IF more THEN @ - Burst ELSE @,
                               !.wlen = IF more THEN Burst - 1 ELSE master.len]
      [] master.st = "WD_WAIT" ->
            IF awready THEN [master EXCEPT !.st = "WD_PROC", !.awvalid = FALSE,
                                           !.wvalid = TRUE] ELSE master
      [] master.st = "WD_PROC" ->
            IF ~wr_fifo_re(wready) THEN master
            ELSE IF master.wlen = 0 THEN [master EXCEPT !.st = "WR_WAIT", !.wvalid = FALSE]
            ELSE [master EXCEPT !.wlen = @ - 1]
      [] master.st = "WR_WAIT" ->
            IF ~bvalid THEN master
            ELSE IF master.last THEN [master EXCEPT !.st = "DONE"]
            ELSE [master EXCEPT !.st = "WA_WAIT", !.adrs = @ + Burst]
      [] master.st = "DONE" -> [master EXCEPT !.st = "IDLE"]

MasterStep(awready, wready, bvalid, bad) ==
    /\ bad => bvalid /\ master.st = "WR_WAIT"
    /\ master' = MasterNext(awready, wready, bvalid)
    /\ wr_error' = (wr_error \/ bad)
    /\ faulted' = (faulted \/ bad)
-----------------------------------------------------------------------------
Cleared == [busy |-> FALSE, done |-> FALSE, error |-> FALSE, wr_start |-> FALSE,
            pack |-> NoBeat, lane |-> 0, beat |-> 0, words |-> 0, full |-> FALSE,
            active |-> FALSE, final |-> FALSE, blocks |-> 0, accepted |-> 0]

WriterStart ==
    /\ ctx_start
    /\ writer' = [Cleared EXCEPT !.busy = TRUE]
    /\ UNCHANGED block_mem

\* The pulses of every other edge.
\* Mutant: done is not withdrawn.
BaseKeepsDone == [writer EXCEPT !.wr_start = FALSE, !.error = @ \/ wr_error]
Base == [writer EXCEPT !.done = FALSE, !.wr_start = FALSE, !.error = @ \/ wr_error]

\* The checks on a word that is accepted.
\* Mutant: the end of the block is expected one word late.
MisplacedLate(w) ==
    \/ incoming_block_number(w) # writer.blocks
    \/ lane_of(w) # writer.lane
    \/ global_last /\ writer.words # BLOCK_WORDS

Misplaced(w) ==
    \/ incoming_block_number(w) # writer.blocks
    \/ lane_of(w) # writer.lane
    \/ writer.words = BLOCK_WORDS - 1 /\ lane_of(w) # BEAT_WORDS - 1
    \/ global_last /\ (writer.words # BLOCK_WORDS - 1 \/ lane_of(w) # BEAT_WORDS - 1)

Accept ==
    /\ ~ctx_start /\ context_ready
    /\ LET w == offered IN
       /\ writer' = [Base EXCEPT
             !.accepted = @ + 1,
             !.words = @ + 1,
             !.pack[lane_of(w)] = Word(w),
             !.lane = (lane_of(w) + 1) % BEAT_WORDS,
             !.full = (writer.words = BLOCK_WORDS - 1),
             !.final = global_last,
             !.error = @ \/ Misplaced(w)]
       /\ block_mem' = IF lane_of(w) = BEAT_WORDS - 1
                       THEN [block_mem EXCEPT ![target_beat(w)] =
                                [writer.pack EXCEPT ![BEAT_WORDS - 1] = Word(w)]]
                       ELSE block_mem

\* A full block is handed to the master when it is free.
Issue ==
    /\ ~ctx_start /\ writer.busy /\ writer.full /\ ~writer.active /\ wr_ready
    /\ writer' = [Base EXCEPT !.beat = 0, !.active = TRUE, !.wr_start = TRUE]
    /\ UNCHANGED block_mem

\* Mutant: a beat is passed although it was not taken.
NextBeatUntaken(wready) ==
    IF WVALID /\ writer.beat + 1 < BLOCK_BEATS THEN writer.beat + 1 ELSE writer.beat

NextBeat(wready) ==
    IF wr_fifo_re(wready) /\ writer.beat + 1 < BLOCK_BEATS
    THEN writer.beat + 1 ELSE writer.beat

Sending(wready) ==
    /\ ~ctx_start /\ writer.busy /\ writer.active /\ ~wr_done
    /\ writer' = [Base EXCEPT !.beat = NextBeat(wready)]
    /\ UNCHANGED block_mem

\* The block is written; the last one ends the run.
Written ==
    /\ ~ctx_start /\ writer.busy /\ writer.active /\ wr_done
    /\ writer' = [Base EXCEPT !.active = FALSE, !.blocks = @ + 1, !.full = FALSE,
                     !.words = 0, !.beat = 0, !.pack = NoBeat, !.lane = 0,
                     !.busy = ~writer.final, !.done = writer.final,
                     !.error = @ \/ (writer.final /\ writer.accepted # TOTAL_WORDS)]
    /\ UNCHANGED block_mem

Wait(context_valid) ==
    /\ ~ctx_start
    /\ ~(context_ready /\ context_valid)
    /\ ~(writer.busy /\ writer.full /\ ~writer.active /\ wr_ready)
    /\ ~(writer.busy /\ writer.active)
    /\ writer' = Base
    /\ UNCHANGED block_mem

WriterStep(context_valid, wready) ==
    \/ WriterStart
    \/ context_valid /\ Accept
    \/ Issue
    \/ Sending(wready)
    \/ Written
    \/ Wait(context_valid)
-----------------------------------------------------------------------------
\* The engine starts the writer when it is idle, with or without a reset since
\* the last run.
StartStep(start) ==
    /\ start => ~writer.busy /\ ~ctx_start /\ run < MaxRuns
    /\ ctx_start' = start
    /\ run' = IF start THEN run + 1 ELSE run
    /\ quiet' = IF start THEN bursts = <<>> /\ responses = 0 ELSE quiet

Edge(start, context_valid, awready, wready, bvalid, bad) ==
    /\ ~soft_reset
    /\ StartStep(start)
    /\ MemoryStep(awready, wready, bvalid)
    /\ MasterStep(awready, wready, bvalid, bad)
    /\ WriterStep(context_valid, wready)
    /\ UNCHANGED soft_reset

MasterReset == [st |-> "IDLE", adrs |-> 0, len |-> 0, awvalid |-> FALSE,
                wvalid |-> FALSE, last |-> FALSE, wlen |-> 0]

\* MASTER_RST leaves the address and the lengths, which every request sets.
ResetEdge(awready, wready, bvalid) ==
    /\ soft_reset
    /\ MemoryStep(awready, wready, bvalid)
    /\ ctx_start' = FALSE
    /\ writer' = Cleared /\ master' = MasterReset
    /\ wr_error' = FALSE /\ faulted' = FALSE
    /\ UNCHANGED <<soft_reset, block_mem, run, quiet>>

\* The firmware asserts the reset at any time, and holds it long enough for the
\* responses that are due; a burst that waits for data goes on waiting.
AssertReset ==
    /\ ~soft_reset /\ soft_reset' = TRUE
    /\ run < MaxRuns
    /\ UNCHANGED <<ctx_start, writer, block_mem, master, wr_error, bursts,
                   responses, run, ddr, quiet, faulted>>
ReleaseReset ==
    /\ soft_reset /\ soft_reset' = FALSE
    /\ writer = Cleared /\ master = MasterReset /\ responses = 0
    /\ UNCHANGED <<ctx_start, writer, block_mem, master, wr_error, bursts,
                   responses, run, ddr, quiet, faulted>>

Init ==
    /\ ctx_start = FALSE /\ soft_reset = FALSE
    /\ writer = Cleared
    /\ block_mem = [b \in 0 .. BLOCK_BEATS - 1 |-> NoBeat]
    /\ master = MasterReset /\ wr_error = FALSE
    /\ bursts = <<>> /\ responses = 0
    /\ run = 0 /\ quiet = TRUE /\ faulted = FALSE
    /\ ddr = [b \in 0 .. Blocks * BLOCK_BEATS - 1 |-> NoBeat]

Next ==
    \/ \E start, context_valid, awready, wready, bvalid, bad \in BOOLEAN :
           Edge(start, context_valid, awready, wready, bvalid, bad)
    \/ \E awready, wready, bvalid \in BOOLEAN : ResetEdge(awready, wready, bvalid)
    \/ AssertReset
    \/ ReleaseReset

Spec == Init /\ [][Next]_vars

\* The core offers its next word, the memory takes addresses and data and gives
\* its responses; the clock runs during a reset.
Offers == \E start, awready, wready, bvalid, bad \in BOOLEAN :
              Edge(start, TRUE, awready, wready, bvalid, bad)
TakesAddress == \E start, context_valid, wready, bvalid, bad \in BOOLEAN :
              Edge(start, context_valid, TRUE, wready, bvalid, bad)
TakesData == \E start, context_valid, awready, bvalid, bad \in BOOLEAN :
              Edge(start, context_valid, awready, TRUE, bvalid, bad)
Responds == \E start, context_valid, awready, wready, bad \in BOOLEAN :
              Edge(start, context_valid, awready, wready, TRUE, bad)
FairSpec ==
    /\ Spec
    /\ WF_vars(Offers) /\ WF_vars(TakesAddress) /\ WF_vars(TakesData) /\ WF_vars(Responds)
    /\ WF_vars(\E awready, wready, bvalid \in BOOLEAN : ResetEdge(awready, wready, bvalid))
-----------------------------------------------------------------------------
\* A run that ends without an error has every word of its context at its
\* row-major place in DDR and acknowledged, however the core and the memory were
\* paced: the block buffer is not refilled before it was copied, no beat is
\* skipped or sent twice, and DONE waits for the last response.  A burst left
\* open by a reset in the middle of a write is excluded (quiet).
CleanContextIsComplete ==
    writer.done /\ ~writer.error /\ quiet =>
        /\ \A b \in DOMAIN ddr : ddr[b] = [l \in Lanes |-> Word(b * BEAT_WORDS + l)]
        /\ bursts = <<>> /\ responses = 0

\* The writer's own checks never fire on the stream the core sends.
NoErrorWithoutFault == writer.error => faulted

\* A run that was started ends, unless it is reset.
RunEnds == (ctx_start /\ quiet) ~> (writer.done \/ soft_reset)

\* The writer behaves as the engine's controller takes it to (BoardEngine).
Engine == INSTANCE BoardEngine WITH
    CycleMod <- 1, state <- "RUN_CORE", cycle_count <- 0,
    ctx <- [busy |-> writer.busy, done |-> writer.done, error |-> writer.error],
    core_start <- FALSE, v_start <- FALSE, done_latched <- FALSE,
    error_latched <- FALSE, v_loaded <- FALSE, core_done_seen <- FALSE,
    context_done_seen <- FALSE, core <- 0, v <- 0, raw_error <- FALSE,
    rd_error <- FALSE, ever_faulted <- FALSE, prev_faulted <- FALSE, finished <- {}

WriterIsAStage ==
    [][soft_reset \/ soft_reset' \/ \E fault, finish \in SUBSET {"ctx"} :
           /\ (fault \cup finish # {} => Engine!StageOf("ctx"))
           /\ Engine!WriterStep(fault, finish)]_vars
=============================================================================
