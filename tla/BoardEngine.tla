---------------------------- MODULE BoardEngine ----------------------------
(***************************************************************************)
(* rtl/board/fpt_attention_board_engine.sv: the controller that runs one   *)
(* attention job: load V, launch the core and the context writer together, *)
(* wait for both, publish DONE and ERROR.                                  *)
(*                                                                         *)
(* The three stages it starts are kept at the level the engine sees them:  *)
(* started by a one-cycle pulse, busy, finished by a one-cycle done pulse, *)
(* with an error flag that stays up until the stage is started again.  So  *)
(* are the error flags of the raw Q/K reader and of the AXI master, which  *)
(* stay up until a reset.  When a stage finishes and what fails is the     *)
(* environment's choice.                                                   *)
(*                                                                         *)
(* Every step but Reset is one rising clock edge; all registers take their *)
(* next value from the current ones.                                       *)
(***************************************************************************)
EXTENDS Naturals

CONSTANT CycleMod   \* modulus of cycle_count (2^32 in the hardware)

ASSUME CycleAssumption == CycleMod \in Nat \ {0}

States == {"IDLE", "LOAD_V", "LAUNCH_CORE", "RUN_CORE", "COMPLETE", "FAILED"}
Stages == {"v", "core", "ctx"}
Faults == {"v", "core", "ctx", "raw", "rd", "wr"}

VARIABLES
    state, v_start, core_start, ctx_start,
    done_latched, error_latched, v_loaded, core_done_seen, context_done_seen,
    cycle_count,
    v,          \* V loader:        [busy, done, error]
    core,       \* attention core:  [busy, clear, done, error]
    ctx,        \* context writer:  [busy, done, error]
    raw_error,  \* raw Q/K reader
    rd_error, wr_error  \* AXI master

engineVars == <<state, v_start, core_start, ctx_start, done_latched,
                error_latched, v_loaded, core_done_seen, context_done_seen,
                cycle_count>>
stageVars == <<v, core, ctx, raw_error, rd_error, wr_error>>

VARIABLES      \* history, read by the properties only
    faulted,       \* a fault happened since the last start
    prev_faulted,  \* a fault happened in the run before this one
    ever_faulted,  \* a fault happened since the last reset
    finished       \* the stages that finished since the last start

history == <<faulted, prev_faulted, ever_faulted, finished>>
vars == <<engineVars, stageVars, history>>
-----------------------------------------------------------------------------
busy == state \notin {"IDLE", "COMPLETE", "FAILED"}
read_owner_v == state = "LOAD_V"
core_start_ready == ~core.busy

\* What the engine ORs into error_latched at every edge.
AnyError ==
    v.error \/ raw_error \/ ctx.error \/ rd_error \/ wr_error \/ core.error

\* The faults that can strike at an edge, by where their source is active:
\* reads are outstanding during the V load and the run, writes and raw Q/K
\* reads only during the run.
Possible(f) ==
    CASE f = "v"    -> v.busy
      [] f = "core" -> core.busy /\ ~core.clear
      [] f = "ctx"  -> ctx.busy /\ ~ctx_start
      [] f = "raw"  -> state = "RUN_CORE"
      [] f = "rd"   -> v.busy \/ state = "RUN_CORE"
      [] f = "wr"   -> ctx.busy

StageOf(s) == CASE s = "v" -> v.busy [] s = "core" -> core.busy [] s = "ctx" -> ctx.busy
-----------------------------------------------------------------------------
\* The stages at an edge where the faults in fault strike and the stages in
\* finish end.
LoaderStep(fault, finish) ==
    v' = [busy  |-> IF v.busy THEN "v" \notin finish ELSE v_start,
          done  |-> v.busy /\ "v" \in finish,
          error |-> IF ~v.busy /\ v_start THEN FALSE
                    ELSE v.error \/ (read_owner_v /\ rd_error) \/ "v" \in fault]

\* The core clears its error flags one edge after it accepts a start.
CoreStep(fault, finish) ==
    core' = [busy  |-> IF core.busy THEN "core" \notin finish ELSE core_start,
             clear |-> ~core.busy /\ core_start,
             done  |-> core.busy /\ "core" \in finish,
             error |-> IF core.clear THEN FALSE
                       ELSE \/ core.error
                            \/ core_start /\ core.busy
                            \/ "core" \in fault]

WriterStep(fault, finish) ==
    ctx' = [busy  |-> ctx_start \/ (ctx.busy /\ "ctx" \notin finish),
            done  |-> ~ctx_start /\ ctx.busy /\ "ctx" \in finish,
            error |-> ~ctx_start /\ (ctx.error \/ wr_error \/ "ctx" \in fault)]

ErrorFlagsStep(fault) ==
    /\ raw_error' = (raw_error \/ (~read_owner_v /\ rd_error) \/ "raw" \in fault)
    /\ rd_error' = (rd_error \/ "rd" \in fault)
    /\ wr_error' = (wr_error \/ "wr" \in fault)

StageStep(fault, finish) ==
    /\ \A f \in fault : Possible(f)
    /\ \A s \in finish : StageOf(s)
    /\ LoaderStep(fault, finish)
    /\ CoreStep(fault, finish)
    /\ WriterStep(fault, finish)
    /\ ErrorFlagsStep(fault)

\* The history variables at an edge that does not start a run.
Record(fault, finish) ==
    /\ faulted' = (faulted \/ fault # {})
    /\ ever_faulted' = (ever_faulted \/ fault # {})
    /\ finished' = finished \cup finish
    /\ UNCHANGED prev_faulted
-----------------------------------------------------------------------------
\* The statements before the case: start pulses last one cycle, errors and
\* done pulses are latched, the cycle counter runs while busy.
PulsesLow == v_start' = FALSE /\ core_start' = FALSE /\ ctx_start' = FALSE

\* Mutant: errors are latched while busy only.
LatchWhileBusy ==
    error_latched' = (error_latched \/ (busy /\ AnyError))
LatchError == error_latched' = (error_latched \/ AnyError)

\* Mutant: the done pulses have to coincide.
DoneNotLatched == core_done_seen' = core.done /\ context_done_seen' = ctx.done
LatchDone ==
    /\ core_done_seen' = (core_done_seen \/ core.done)
    /\ context_done_seen' = (context_done_seen \/ ctx.done)

CountCycle ==
    cycle_count' = IF busy THEN (cycle_count + 1) % CycleMod ELSE cycle_count

IdleWait ==
    /\ state = "IDLE"
    /\ PulsesLow /\ LatchError /\ LatchDone /\ CountCycle
    /\ UNCHANGED <<state, done_latched, v_loaded>>

\* Mutant: the done flag of the core survives.
StartKeepsCoreDone ==
    /\ state = "IDLE"
    /\ state' = "LOAD_V"
    /\ v_start' = TRUE /\ core_start' = FALSE /\ ctx_start' = FALSE
    /\ done_latched' = FALSE /\ error_latched' = FALSE /\ v_loaded' = FALSE
    /\ core_done_seen' = (core_done_seen \/ core.done) /\ context_done_seen' = FALSE
    /\ cycle_count' = 0

\* A start in IDLE clears what the last run left; its assignments win over
\* the latching of the same edge.
StartRun ==
    /\ state = "IDLE"
    /\ state' = "LOAD_V"
    /\ v_start' = TRUE /\ core_start' = FALSE /\ ctx_start' = FALSE
    /\ done_latched' = FALSE /\ error_latched' = FALSE /\ v_loaded' = FALSE
    /\ core_done_seen' = FALSE /\ context_done_seen' = FALSE
    /\ cycle_count' = 0

\* Mutants: the register assigned at this very edge is looked at; the load is
\* taken to have ended when the loader is not busy.
LoadVChecksOldFlag ==
    /\ state = "LOAD_V"
    /\ PulsesLow /\ LatchError /\ LatchDone /\ CountCycle
    /\ IF v.done
       THEN /\ v_loaded' = TRUE
            /\ state' = IF ~v_loaded \/ rd_error THEN "FAILED" ELSE "LAUNCH_CORE"
       ELSE UNCHANGED <<state, v_loaded>>
    /\ UNCHANGED done_latched
LoadVUntilIdle ==
    /\ state = "LOAD_V"
    /\ PulsesLow /\ LatchError /\ LatchDone /\ CountCycle
    /\ IF ~v.busy
       THEN /\ v_loaded' = TRUE
            /\ state' = IF v.error \/ rd_error THEN "FAILED" ELSE "LAUNCH_CORE"
       ELSE UNCHANGED <<state, v_loaded>>
    /\ UNCHANGED done_latched

LoadV ==
    /\ state = "LOAD_V"
    /\ PulsesLow /\ LatchError /\ LatchDone /\ CountCycle
    /\ IF v.done
       THEN /\ v_loaded' = TRUE
            /\ state' = IF v.error \/ rd_error THEN "FAILED" ELSE "LAUNCH_CORE"
       ELSE UNCHANGED <<state, v_loaded>>
    /\ UNCHANGED done_latched

LaunchCore ==
    /\ state = "LAUNCH_CORE"
    /\ LatchError /\ LatchDone /\ CountCycle
    /\ v_start' = FALSE
    /\ core_start' = core_start_ready
    /\ ctx_start' = core_start_ready
    /\ state' = IF core_start_ready THEN "RUN_CORE" ELSE state
    /\ UNCHANGED <<done_latched, v_loaded>>

RunCore ==
    /\ state = "RUN_CORE"
    /\ PulsesLow /\ LatchError /\ LatchDone /\ CountCycle
    /\ state' = IF (core_done_seen \/ core.done) /\ (context_done_seen \/ ctx.done)
                THEN IF error_latched \/ core.error \/ ctx.error
                     THEN "FAILED" ELSE "COMPLETE"
                ELSE state
    /\ UNCHANGED <<done_latched, v_loaded>>

\* DONE is published from the second cycle on; a start only leaves the state.
Complete(start) ==
    /\ state = "COMPLETE"
    /\ PulsesLow /\ LatchError /\ LatchDone /\ CountCycle
    /\ done_latched' = ~start
    /\ state' = IF start THEN "IDLE" ELSE state
    /\ UNCHANGED v_loaded

Failed(start) ==
    /\ state = "FAILED"
    /\ PulsesLow /\ LatchDone /\ CountCycle
    /\ error_latched' = TRUE
    /\ done_latched' = ~start
    /\ state' = IF start THEN "IDLE" ELSE state
    /\ UNCHANGED v_loaded

\* Every edge that does not start a run.
EngineStep(start) ==
    \/ ~start /\ IdleWait
    \/ LoadV
    \/ LaunchCore
    \/ RunCore
    \/ Complete(start)
    \/ Failed(start)

Run(start, fault, finish) ==
    /\ EngineStep(start)
    /\ StageStep(fault, finish)
    /\ Record(fault, finish)

Start(fault, finish) ==
    /\ StartRun
    /\ StageStep(fault, finish)
    /\ prev_faulted' = faulted
    /\ faulted' = (fault # {})
    /\ ever_faulted' = (ever_faulted \/ fault # {})
    /\ finished' = {}

Edge(start, fault, finish) ==
    \/ Run(start, fault, finish)
    \/ start /\ Start(fault, finish)
-----------------------------------------------------------------------------
Quiet == [busy |-> FALSE, done |-> FALSE, error |-> FALSE]
QuietCore == [busy |-> FALSE, clear |-> FALSE, done |-> FALSE, error |-> FALSE]

Init ==
    /\ state = "IDLE"
    /\ v_start = FALSE /\ core_start = FALSE /\ ctx_start = FALSE
    /\ done_latched = FALSE /\ error_latched = FALSE /\ v_loaded = FALSE
    /\ core_done_seen = FALSE /\ context_done_seen = FALSE
    /\ cycle_count = 0
    /\ v = Quiet /\ core = QuietCore /\ ctx = Quiet
    /\ raw_error = FALSE /\ rd_error = FALSE /\ wr_error = FALSE
    /\ faulted = FALSE /\ prev_faulted = FALSE /\ ever_faulted = FALSE
    /\ finished = {}

\* Mutant: the error flag of the AXI reads misses the reset.
ResetButReadError ==
    /\ state' = "IDLE"
    /\ v_start' = FALSE /\ core_start' = FALSE /\ ctx_start' = FALSE
    /\ done_latched' = FALSE /\ error_latched' = FALSE /\ v_loaded' = FALSE
    /\ core_done_seen' = FALSE /\ context_done_seen' = FALSE
    /\ cycle_count' = 0
    /\ v' = Quiet /\ core' = QuietCore /\ ctx' = Quiet
    /\ raw_error' = FALSE /\ wr_error' = FALSE
    /\ faulted' = FALSE /\ prev_faulted' = FALSE /\ ever_faulted' = FALSE
    /\ finished' = {}
    /\ UNCHANGED rd_error

\* rst_n (board reset or soft reset) and MASTER_RST put back every register.
Reset ==
    /\ state' = "IDLE"
    /\ v_start' = FALSE /\ core_start' = FALSE /\ ctx_start' = FALSE
    /\ done_latched' = FALSE /\ error_latched' = FALSE /\ v_loaded' = FALSE
    /\ core_done_seen' = FALSE /\ context_done_seen' = FALSE
    /\ cycle_count' = 0
    /\ v' = Quiet /\ core' = QuietCore /\ ctx' = Quiet
    /\ raw_error' = FALSE /\ rd_error' = FALSE /\ wr_error' = FALSE
    /\ faulted' = FALSE /\ prev_faulted' = FALSE /\ ever_faulted' = FALSE
    /\ finished' = {}

Next ==
    \/ \E start \in BOOLEAN, fault \in SUBSET Faults, finish \in SUBSET Stages :
           Edge(start, fault, finish)
    \/ Reset

Spec == Init /\ [][Next]_vars

\* The clock never stops, and every stage that is busy ends some day.
Ends(s) ==
    \E start \in BOOLEAN, fault \in SUBSET Faults, finish \in SUBSET Stages :
        s \in finish /\ Edge(start, fault, finish)
Tick ==
    \E start \in BOOLEAN, fault \in SUBSET Faults, finish \in SUBSET Stages :
        Edge(start, fault, finish)
FairSpec == Spec /\ WF_vars(Tick) /\ \A s \in Stages : WF_vars(Ends(s))
-----------------------------------------------------------------------------
\* Every register stays in its range.
TypeOK ==
    /\ state \in States
    /\ v_start \in BOOLEAN /\ core_start \in BOOLEAN /\ ctx_start \in BOOLEAN
    /\ done_latched \in BOOLEAN /\ error_latched \in BOOLEAN
    /\ v_loaded \in BOOLEAN
    /\ core_done_seen \in BOOLEAN /\ context_done_seen \in BOOLEAN
    /\ cycle_count \in 0 .. CycleMod - 1
    /\ v \in [busy : BOOLEAN, done : BOOLEAN, error : BOOLEAN]
    /\ core \in [busy : BOOLEAN, clear : BOOLEAN, done : BOOLEAN, error : BOOLEAN]
    /\ ctx \in [busy : BOOLEAN, done : BOOLEAN, error : BOOLEAN]
    /\ raw_error \in BOOLEAN /\ rd_error \in BOOLEAN /\ wr_error \in BOOLEAN
    /\ faulted \in BOOLEAN /\ prev_faulted \in BOOLEAN /\ ever_faulted \in BOOLEAN
    /\ finished \subseteq Stages

\* A run that met a fault, in whatever cycle, never shows DONE without ERROR:
\* neither the cycle in which the fault strikes relative to the last done
\* pulse nor the clearing of a stage's flag lets one slip by.  The flags a fault
\* leaves behind also taint the next run: started again without a reset, the
\* engine cannot publish a clean DONE.
FaultIsReported == done_latched /\ (faulted \/ prev_faulted) => error_latched

\* ERROR is never raised when nothing went wrong since the last reset.
NoSpuriousError == error_latched => ever_faulted

\* A clean DONE means that this run's V load, core and writer all ended: no
\* done pulse of an earlier run is taken for one of this run.
CleanDoneMeansAllFinished ==
    done_latched /\ ~error_latched => finished = Stages

\* A stage is started only when idle, and the core and the writer only after a
\* V load that ended without an error.  The V loader is the one user of the AXI
\* read channel while it is busy, and the channel is handed to the raw reader
\* only after it ended.
StagesInTurn ==
    /\ v_start => ~v.busy
    /\ core_start => ~core.busy /\ v_loaded /\ "v" \in finished /\ ~v.error
    /\ ctx_start => ~ctx.busy
    /\ v.busy \/ v.done => read_owner_v
    /\ core.busy => ~read_owner_v

\* A run that was started is published, unless a reset intervenes: no done
\* pulse is lost whatever the order and the distance of the two.
StartedRunEnds == (state = "LOAD_V") ~> (done_latched \/ state = "IDLE")
=============================================================================
