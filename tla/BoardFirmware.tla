--------------------------- MODULE BoardFirmware ---------------------------
(***************************************************************************)
(* The engine as the board test runs it: rtl/board/attention_board_top.sv  *)
(* turns a level of the GPIO register into a start pulse and a reset, and  *)
(* vitis/src/fpt_attention_board_test.c resets, starts, polls and judges   *)
(* one run after another.                                                  *)
(*                                                                         *)
(* The processor and the engine are asynchronous: clock edges and firmware *)
(* steps interleave.  A GPIO access takes several clock cycles, so a value *)
(* written is seen by at least one edge before the next write (gpio_seen). *)
(***************************************************************************)
EXTENDS BoardEngine

CONSTANTS
    Runs,       \* WARMUP_RUNS + MEASURED_RUNS; the first one is the gate
    POLL_LIMIT  \* reads of the status before run_engine gives up

ASSUME FirmwareAssumption == Runs \in Nat \ {0} /\ POLL_LIMIT \in Nat \ {0}

VARIABLES
    gpio_start, soft_reset,  \* CTRL_START and CTRL_SOFT_RESET
    start_d,                 \* the start level of the edge before
    gpio_seen,
    pc, run, polls,
    status                   \* the last status word read

boardVars == <<gpio_start, soft_reset, start_d, gpio_seen>>
hostVars == <<pc, run, polls, status>>
allVars == <<vars, boardVars, hostVars>>

\* Page zero of the status window.
gpio_status ==
    [busy |-> busy, done |-> done_latched, error |-> error_latched,
     v_loaded |-> v_loaded, core_done |-> core_done_seen,
     context_done |-> context_done_seen]

\* Mutant: a verdict that does not look at ERROR.
PassWithoutError(st) ==
    st.done /\ st.v_loaded /\ st.core_done /\ st.context_done /\ ~st.busy

status_is_pass(st) ==
    /\ st.done /\ st.v_loaded /\ st.core_done /\ st.context_done
    /\ ~st.busy /\ ~st.error

\* Mutant: the level itself starts the engine.
LevelStart == gpio_start

command_start == gpio_start /\ ~start_d
-----------------------------------------------------------------------------
FwInit ==
    /\ Init
    /\ gpio_start = FALSE /\ soft_reset = FALSE /\ start_d = FALSE
    /\ gpio_seen = TRUE
    /\ pc = "reset" /\ run = 0 /\ polls = 0
    /\ status = gpio_status

ClockEdge ==
    /\ IF soft_reset
       THEN Reset
       ELSE \E fault \in SUBSET Faults, finish \in SUBSET Stages :
                Edge(command_start, fault, finish)
    /\ start_d' = gpio_start
    /\ gpio_seen' = TRUE
    /\ UNCHANGED <<gpio_start, soft_reset, hostVars>>

gpio_write(start, reset) ==
    /\ gpio_seen
    /\ gpio_start' = start
    /\ soft_reset' = reset
    /\ gpio_seen' = FALSE
    /\ UNCHANGED start_d

AssertReset ==
    /\ pc = "reset" /\ pc' = "hold"
    /\ gpio_write(FALSE, TRUE)
    /\ UNCHANGED <<vars, run, polls, status>>

ReleaseReset ==
    /\ pc = "hold" /\ pc' = "ready"
    /\ gpio_write(FALSE, FALSE)
    /\ UNCHANGED <<vars, run, polls, status>>

\* reset_engine polls for READY with every other flag low; the test ends when
\* its polls are used up, which any poll may be.
PollReady ==
    /\ pc = "ready"
    /\ pc' \in IF ~busy /\ ~done_latched /\ ~error_latched
              THEN {"start"} ELSE {"ready", "stopped"}
    /\ UNCHANGED <<vars, boardVars, run, polls, status>>

WriteStart ==
    /\ pc = "start" /\ pc' = "clear"
    /\ gpio_write(TRUE, FALSE)
    /\ UNCHANGED <<vars, run, polls, status>>

ClearStart ==
    /\ pc = "clear" /\ pc' = "poll"
    /\ gpio_write(FALSE, FALSE)
    /\ polls' = 0
    /\ UNCHANGED <<vars, run, status>>

\* Mutant: the polls are not counted.
PollForever ==
    /\ pc = "poll"
    /\ status' = gpio_status
    /\ pc' = IF done_latched \/ polls + 1 = POLL_LIMIT + 1 THEN "judge" ELSE "poll"
    /\ UNCHANGED <<vars, boardVars, run, polls>>

\* run_engine returns the last status it read, DONE or not.
Poll ==
    /\ pc = "poll"
    /\ status' = gpio_status
    /\ polls' = polls + 1
    /\ pc' = IF done_latched \/ polls + 1 = POLL_LIMIT THEN "judge" ELSE "poll"
    /\ UNCHANGED <<vars, boardVars, run>>

\* The warm-up run is a gate for the measured ones; the profile counters and
\* the comparison with the golden context may fail a run on their own.
Judge ==
    /\ pc = "judge"
    /\ run' = run + 1
    /\ \E data_ok \in BOOLEAN :
           pc' = IF \/ run = 0 /\ ~(status_is_pass(status) /\ data_ok)
                    \/ run + 1 = Runs
                 THEN "stopped" ELSE "reset"
    /\ UNCHANGED <<vars, boardVars, polls, status>>

Host ==
    \/ AssertReset \/ ReleaseReset \/ PollReady
    \/ WriteStart \/ ClearStart \/ Poll \/ Judge

FwNext == ClockEdge \/ Host

\* The processor executes and every GPIO write is followed by a clock edge;
\* nothing is assumed of the stages, which may hang for ever.
FwSpec == /\ FwInit /\ [][FwNext]_allVars
          /\ WF_allVars(~gpio_seen /\ ClockEdge) /\ WF_allVars(Host)
-----------------------------------------------------------------------------
\* A run judged as passed is this run, complete and without a fault: no status
\* bit of an earlier run, aborted or not, is part of the verdict.
PassIsHonest ==
    pc = "judge" /\ status_is_pass(status) =>
        finished = Stages /\ ~faulted /\ state = "COMPLETE"

\* A run without a fault that is published in time passes, whatever happened to
\* the runs before it: the soft reset clears every flag they may have left.
CleanRunPasses ==
    pc = "judge" /\ status.done /\ ~faulted => status_is_pass(status)

\* The level written by the firmware becomes exactly one start: the engine has
\* left IDLE when the polling begins and is not sent back to it by a second one.
StartTakenOnce == pc \in {"poll", "judge"} => state # "IDLE"

\* The test program comes to an end even when a stage never does.
BenchmarkEnds == <>(pc = "stopped")
=============================================================================
