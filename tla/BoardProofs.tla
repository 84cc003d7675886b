---------------------------- MODULE BoardProofs ----------------------------
(***************************************************************************)
(* Proofs about the board engine and the test program that drives it.      *)
(*                                                                         *)
(* BoardEngine: a fault is reported by the run it strikes and by the run   *)
(* after it, ERROR is never spurious, a clean DONE means that every stage  *)
(* ended in this run, and stages are started only when idle.               *)
(*                                                                         *)
(* BoardFirmware: the verdict of the test program is about the run it      *)
(* started, for every number of runs, every poll limit, any interleaving   *)
(* of clock edges and firmware steps, and stages that fail, hang or end at *)
(* any edge.                                                               *)
(*                                                                         *)
(* The engine's invariant carries over to the test program, since every    *)
(* clock edge is one of its steps and the processor changes none of its    *)
(* registers.  What is added says where the test program can be while the  *)
(* engine is fresh from a reset (Levels, Fresh), when the run of a start   *)
(* level is on (OneRun), and what the last status word still says of it    *)
(* (Verdict).                                                              *)
(***************************************************************************)
EXTENDS BoardFirmware, TLAPS

\* Where the pulses and the stages can be active, given the engine's state.
ControlInv ==
    /\ v_start => state = "LOAD_V" /\ ~v.busy /\ "v" \notin finished
    /\ v.busy \/ v.done => state = "LOAD_V" /\ ~v_start
    /\ core_start <=> ctx_start
    /\ core_start => state = "RUN_CORE" /\ ~core.busy /\ ~ctx.busy
    /\ core.busy \/ ctx.busy => state = "RUN_CORE"
    /\ core.clear => state = "RUN_CORE" /\ ~core_start
    /\ state = "LAUNCH_CORE" => ~core.done /\ ~ctx.done
    /\ done_latched => state \in {"COMPLETE", "FAILED"}

\* The stages that finished since the last start, and what the engine saw.
FinishedInv ==
    /\ "v" \in finished => ~v.busy /\ ~v_start
    /\ "core" \in finished => /\ ~core.busy /\ ~core_start
                              /\ state \notin {"LOAD_V", "LAUNCH_CORE"}
    /\ "ctx" \in finished => /\ ~ctx.busy /\ ~ctx_start
                             /\ state \notin {"LOAD_V", "LAUNCH_CORE"}
    /\ v_loaded \/ v.done => "v" \in finished
    /\ core_done_seen \/ core.done => "core" \in finished
    /\ context_done_seen \/ ctx.done => "ctx" \in finished
    /\ state \in {"LAUNCH_CORE", "RUN_CORE", "COMPLETE"} => v_loaded /\ ~v.error
    /\ state = "COMPLETE" => core_done_seen /\ context_done_seen

\* A fault keeps at least one flag up until the next run's V loader starts, and
\* from then on error_latched remembers it.
FaultInv ==
    /\ faulted => AnyError
    /\ v_start \/ core_start \/ state = "LAUNCH_CORE" => ~faulted
    /\ state = "LOAD_V" /\ faulted => v.error \/ rd_error
    /\ core.clear /\ faulted => v.error \/ raw_error \/ ctx.error \/ rd_error \/ wr_error
    /\ done_latched /\ faulted => error_latched
    /\ prev_faulted => error_latched \/ (v_start /\ AnyError)
    /\ AnyError \/ error_latched \/ state = "FAILED" => ever_faulted
    /\ done_latched /\ state = "FAILED" => error_latched

IInv == TypeOK /\ ControlInv /\ FinishedInv /\ FaultInv

-----------------------------------------------------------------------------
Flags == [busy : BOOLEAN, done : BOOLEAN, error : BOOLEAN]
CoreFlags == [busy : BOOLEAN, clear : BOOLEAN, done : BOOLEAN, error : BOOLEAN]

\* What an edge does to the flags of the stages, field by field.
LEMMA StageFields ==
    ASSUME TypeOK, NEW fault \in SUBSET Faults, NEW finish \in SUBSET Stages,
           StageStep(fault, finish)
    PROVE  /\ v' \in Flags /\ core' \in CoreFlags /\ ctx' \in Flags
           /\ v'.busy <=> IF v.busy THEN "v" \notin finish ELSE v_start
           /\ v'.done <=> v.busy /\ "v" \in finish
           /\ v'.error <=> IF ~v.busy /\ v_start THEN FALSE
                           ELSE v.error \/ (read_owner_v /\ rd_error) \/ "v" \in fault
           /\ core'.busy <=> IF core.busy THEN "core" \notin finish ELSE core_start
           /\ core'.clear <=> ~core.busy /\ core_start
           /\ core'.done <=> core.busy /\ "core" \in finish
           /\ core'.error <=> IF core.clear THEN FALSE
                              ELSE core.error \/ (core_start /\ core.busy) \/ "core" \in fault
           /\ ctx'.busy <=> ctx_start \/ (ctx.busy /\ "ctx" \notin finish)
           /\ ctx'.done <=> ~ctx_start /\ ctx.busy /\ "ctx" \in finish
           /\ ctx'.error <=> ~ctx_start /\ (ctx.error \/ wr_error \/ "ctx" \in fault)
           /\ raw_error' \in BOOLEAN /\ rd_error' \in BOOLEAN /\ wr_error' \in BOOLEAN
<1>1. LoaderStep(fault, finish) /\ CoreStep(fault, finish) /\ WriterStep(fault, finish)
      /\ ErrorFlagsStep(fault)
  BY DEF StageStep
<1>2. v' \in Flags
  BY <1>1 DEF LoaderStep, Flags, TypeOK, read_owner_v
<1>3. core' \in CoreFlags
  BY <1>1 DEF CoreStep, CoreFlags, TypeOK
<1>4. ctx' \in Flags
  BY <1>1 DEF WriterStep, Flags, TypeOK
<1>5. raw_error' \in BOOLEAN /\ rd_error' \in BOOLEAN /\ wr_error' \in BOOLEAN
  BY <1>1 DEF ErrorFlagsStep, TypeOK, read_owner_v
<1>6. /\ v'.busy <=> IF v.busy THEN "v" \notin finish ELSE v_start
      /\ v'.done <=> v.busy /\ "v" \in finish
      /\ v'.error <=> IF ~v.busy /\ v_start THEN FALSE
                      ELSE v.error \/ (read_owner_v /\ rd_error) \/ "v" \in fault
  BY <1>1 DEF LoaderStep, TypeOK
<1>7. /\ core'.busy <=> IF core.busy THEN "core" \notin finish ELSE core_start
      /\ core'.clear <=> ~core.busy /\ core_start
      /\ core'.done <=> core.busy /\ "core" \in finish
      /\ core'.error <=> IF core.clear THEN FALSE
                         ELSE core.error \/ (core_start /\ core.busy) \/ "core" \in fault
  BY <1>1 DEF CoreStep, TypeOK
<1>8. /\ ctx'.busy <=> ctx_start \/ (ctx.busy /\ "ctx" \notin finish)
      /\ ctx'.done <=> ~ctx_start /\ ctx.busy /\ "ctx" \in finish
      /\ ctx'.error <=> ~ctx_start /\ (ctx.error \/ wr_error \/ "ctx" \in fault)
  BY <1>1 DEF WriterStep, TypeOK
<1>9. QED
  BY <1>2, <1>3, <1>4, <1>5, <1>6, <1>7, <1>8

LEMMA InitInv == Init => IInv
<1> SUFFICES ASSUME Init PROVE IInv
  OBVIOUS
<1> USE DEF Init, Quiet, QuietCore
<1>1. TypeOK
  <2>1. cycle_count \in 0 .. CycleMod - 1
    BY CycleAssumption
  <2>2. v \in Flags /\ core \in CoreFlags /\ ctx \in Flags
    BY DEF Flags, CoreFlags
  <2>3. QED
    BY <2>1, <2>2 DEF TypeOK, States, Stages, Flags, CoreFlags
<1>2. ControlInv
  BY DEF ControlInv
<1>3. FinishedInv
  BY DEF FinishedInv
<1>4. FaultInv
  BY DEF FaultInv, AnyError
<1>5. QED
  BY <1>1, <1>2, <1>3, <1>4 DEF IInv

LEMMA ResetInv == Reset => IInv'
<1> SUFFICES ASSUME Reset PROVE IInv'
  OBVIOUS
<1> USE DEF Reset, Quiet, QuietCore
<1>1. TypeOK'
  <2>1. cycle_count' \in 0 .. CycleMod - 1
    BY CycleAssumption
  <2>2. v' \in Flags /\ core' \in CoreFlags /\ ctx' \in Flags
    BY DEF Flags, CoreFlags
  <2>3. QED
    BY <2>1, <2>2 DEF TypeOK, States, Stages, Flags, CoreFlags
<1>2. ControlInv'
  BY DEF ControlInv
<1>3. FinishedInv'
  BY DEF FinishedInv
<1>4. FaultInv'
  BY DEF FaultInv, AnyError
<1>5. QED
  BY <1>1, <1>2, <1>3, <1>4 DEF IInv

\* Which faults and which ends an edge can bring.
LEMMA EdgeInputs ==
    ASSUME NEW fault \in SUBSET Faults, NEW finish \in SUBSET Stages,
           StageStep(fault, finish)
    PROVE  /\ "v" \in fault => v.busy
           /\ "core" \in fault => core.busy /\ ~core.clear
           /\ "ctx" \in fault => ctx.busy /\ ~ctx_start
           /\ "raw" \in fault => state = "RUN_CORE"
           /\ "rd" \in fault => v.busy \/ state = "RUN_CORE"
           /\ "wr" \in fault => ctx.busy
           /\ "v" \in finish => v.busy
           /\ "core" \in finish => core.busy
           /\ "ctx" \in finish => ctx.busy
           /\ fault # {} => \/ "v" \in fault \/ "core" \in fault \/ "ctx" \in fault
                            \/ "raw" \in fault \/ "rd" \in fault \/ "wr" \in fault
           /\ raw_error' <=> raw_error \/ (~read_owner_v /\ rd_error) \/ "raw" \in fault
           /\ rd_error' <=> rd_error \/ "rd" \in fault
           /\ wr_error' <=> wr_error \/ "wr" \in fault
<1>1. \A f \in fault : Possible(f)
  BY DEF StageStep
<1>2. \A s \in finish : StageOf(s)
  BY DEF StageStep
<1>3. fault # {} => \/ "v" \in fault \/ "core" \in fault \/ "ctx" \in fault
                   \/ "raw" \in fault \/ "rd" \in fault \/ "wr" \in fault
  BY DEF Faults
<1>4. /\ "v" \in finish => v.busy
      /\ "core" \in finish => core.busy
      /\ "ctx" \in finish => ctx.busy
  BY <1>2 DEF StageOf
<1>5. /\ "v" \in fault => v.busy
      /\ "core" \in fault => core.busy /\ ~core.clear
      /\ "ctx" \in fault => ctx.busy /\ ~ctx_start
      /\ "raw" \in fault => state = "RUN_CORE"
      /\ "rd" \in fault => v.busy \/ state = "RUN_CORE"
      /\ "wr" \in fault => ctx.busy
  BY <1>1 DEF Possible
<1>6. /\ raw_error' <=> raw_error \/ (~read_owner_v /\ rd_error) \/ "raw" \in fault
      /\ rd_error' <=> rd_error \/ "rd" \in fault
      /\ wr_error' <=> wr_error \/ "wr" \in fault
  BY DEF StageStep, ErrorFlagsStep
<1>7. QED
  BY <1>3, <1>4, <1>5, <1>6

LEMMA StartInv ==
    ASSUME IInv, NEW fault \in SUBSET Faults, NEW finish \in SUBSET Stages,
           Start(fault, finish)
    PROVE  IInv'
<1>1. TypeOK /\ ControlInv /\ FinishedInv /\ FaultInv
  BY DEF IInv
<1>2. StartRun /\ StageStep(fault, finish)
  BY DEF Start
<1>3. /\ prev_faulted' = faulted
      /\ faulted' = (fault # {})
      /\ ever_faulted' = (ever_faulted \/ fault # {})
      /\ finished' = {}
  BY DEF Start
<1> USE <1>1, <1>2, <1>3, StageFields, EdgeInputs DEF StartRun, read_owner_v
<1>4. TypeOK'
  <2>1. cycle_count' \in 0 .. CycleMod - 1
    BY CycleAssumption
  <2>2. QED
    BY <2>1 DEF TypeOK, Flags, CoreFlags, States
<1>5. ControlInv'
  BY DEF ControlInv, TypeOK
<1>6. FinishedInv'
  BY DEF FinishedInv, ControlInv, TypeOK
<1>7. FaultInv'
  BY DEF FaultInv, ControlInv, AnyError, TypeOK
<1>8. QED
  BY <1>4, <1>5, <1>6, <1>7 DEF IInv

LEMMA RunInv ==
    ASSUME IInv, NEW start \in BOOLEAN,
           NEW fault \in SUBSET Faults, NEW finish \in SUBSET Stages,
           Run(start, fault, finish)
    PROVE  IInv'
<1>1. TypeOK /\ ControlInv /\ FinishedInv /\ FaultInv
  BY DEF IInv
<1>2. EngineStep(start) /\ StageStep(fault, finish)
  BY DEF Run
<1>3. /\ prev_faulted' = prev_faulted
      /\ faulted' = (faulted \/ fault # {})
      /\ ever_faulted' = (ever_faulted \/ fault # {})
      /\ finished' = finished \cup finish
  BY DEF Run, Record
<1>4. cycle_count \in 0 .. CycleMod - 1 => (cycle_count + 1) % CycleMod \in 0 .. CycleMod - 1
  BY CycleAssumption
<1> USE <1>1, <1>3, StageFields, EdgeInputs DEF read_owner_v
<1>5. CASE IdleWait
  <2> USE <1>5, <1>2 DEF IdleWait, PulsesLow, LatchError, LatchDone
  <2>1. TypeOK'
    BY <1>4 DEF CountCycle, TypeOK, Flags, CoreFlags, States, AnyError
  <2>2. ControlInv'
    BY DEF ControlInv, FinishedInv, TypeOK
  <2>3. FinishedInv'
    BY DEF FinishedInv, ControlInv, TypeOK
  <2>4. FaultInv'
    BY DEF FaultInv, ControlInv, FinishedInv, AnyError, TypeOK
  <2>5. QED
    BY <2>1, <2>2, <2>3, <2>4 DEF IInv
<1>6. CASE LoadV
  <2> USE <1>6, <1>2 DEF LoadV, PulsesLow, LatchError, LatchDone
  <2>1. TypeOK'
    BY <1>4 DEF CountCycle, TypeOK, Flags, CoreFlags, States, AnyError
  <2>2. ControlInv'
    BY DEF ControlInv, FinishedInv, TypeOK
  <2>3. FinishedInv'
    BY DEF FinishedInv, ControlInv, TypeOK
  <2>4. FaultInv'
    BY DEF FaultInv, ControlInv, FinishedInv, AnyError, TypeOK
  <2>5. QED
    BY <2>1, <2>2, <2>3, <2>4 DEF IInv
<1>7. CASE LaunchCore
  <2> USE <1>7, <1>2 DEF LaunchCore, core_start_ready, LatchError, LatchDone
  <2>1. TypeOK'
    BY <1>4 DEF CountCycle, TypeOK, Flags, CoreFlags, States, AnyError
  <2>2. ControlInv'
    BY DEF ControlInv, FinishedInv, TypeOK
  <2>3. FinishedInv'
    BY DEF FinishedInv, ControlInv, TypeOK
  <2>4. FaultInv'
    BY DEF FaultInv, ControlInv, FinishedInv, AnyError, TypeOK
  <2>5. QED
    BY <2>1, <2>2, <2>3, <2>4 DEF IInv
<1>8. CASE RunCore
  <2> USE <1>8, <1>2 DEF RunCore, PulsesLow, LatchError, LatchDone
  <2>1. TypeOK'
    BY <1>4 DEF CountCycle, TypeOK, Flags, CoreFlags, States, AnyError
  <2>2. ControlInv'
    BY DEF ControlInv, FinishedInv, TypeOK
  <2>3. FinishedInv'
    BY DEF FinishedInv, ControlInv, TypeOK
  <2>4. FaultInv'
    BY DEF FaultInv, ControlInv, FinishedInv, AnyError, TypeOK
  <2>5. QED
    BY <2>1, <2>2, <2>3, <2>4 DEF IInv
<1>9. CASE Complete(start)
  <2> USE <1>9, <1>2 DEF Complete, PulsesLow, LatchError, LatchDone
  <2>1. TypeOK'
    BY <1>4 DEF CountCycle, TypeOK, Flags, CoreFlags, States, AnyError
  <2>2. ControlInv'
    BY DEF ControlInv, FinishedInv, TypeOK
  <2>3. FinishedInv'
    BY DEF FinishedInv, ControlInv, TypeOK
  <2>4. FaultInv'
    BY DEF FaultInv, ControlInv, FinishedInv, AnyError, TypeOK
  <2>5. QED
    BY <2>1, <2>2, <2>3, <2>4 DEF IInv
<1>10. CASE Failed(start)
  <2> USE <1>10, <1>2 DEF Failed, PulsesLow, LatchError, LatchDone
  <2>1. TypeOK'
    BY <1>4 DEF CountCycle, TypeOK, Flags, CoreFlags, States, AnyError
  <2>2. ControlInv'
    BY DEF ControlInv, FinishedInv, TypeOK
  <2>3. FinishedInv'
    BY DEF FinishedInv, ControlInv, TypeOK
  <2>4. FaultInv'
    BY DEF FaultInv, ControlInv, FinishedInv, AnyError, TypeOK
  <2>5. QED
    BY <2>1, <2>2, <2>3, <2>4 DEF IInv
<1>11. QED
  BY <1>2, <1>5, <1>6, <1>7, <1>8, <1>9, <1>10 DEF EngineStep
-----------------------------------------------------------------------------
LEMMA StepInv == IInv /\ [Next]_vars => IInv'
<1> SUFFICES ASSUME IInv, [Next]_vars PROVE IInv'
  OBVIOUS
<1>1. ASSUME NEW start \in BOOLEAN, NEW fault \in SUBSET Faults,
             NEW finish \in SUBSET Stages, Edge(start, fault, finish)
      PROVE  IInv'
  BY <1>1, StartInv, RunInv DEF Edge
<1>2. CASE Reset
  BY <1>2, ResetInv
<1>3. CASE UNCHANGED vars
  BY <1>3 DEF vars, engineVars, stageVars, history, IInv, TypeOK, ControlInv,
              FinishedInv, FaultInv, AnyError
<1>4. QED
  BY <1>1, <1>2, <1>3 DEF Next

\* The engine's registers, the stages and the history stay as IInv says, in
\* every behaviour and for every width of the cycle counter.
THEOREM Invariance == Spec => []IInv
<1>1. QED
  BY InitInv, StepInv, PTL DEF Spec

\* Every register of fpt_attention_board_engine.sv keeps its type.
THEOREM TypeCorrect == Spec => []TypeOK
<1>1. IInv => TypeOK
  BY DEF IInv
<1>2. QED
  BY <1>1, Invariance, PTL

\* Neither a run that met a fault nor one started after it without a reset ever
\* shows DONE without ERROR (the error_latched statement, the states COMPLETE
\* and FAILED, and the flags the start clears, which are captured again).
THEOREM FaultReported == Spec => []FaultIsReported
<1>1. IInv => FaultIsReported
  BY DEF IInv, FaultInv, ControlInv, FaultIsReported
<1>2. QED
  BY <1>1, Invariance, PTL

\* The engine raises ERROR only if something failed since the last reset.
THEOREM NoFalseAlarm == Spec => []NoSpuriousError
<1>1. IInv => NoSpuriousError
  BY DEF IInv, FaultInv, NoSpuriousError
<1>2. QED
  BY <1>1, Invariance, PTL

\* A clean DONE is shown only when V load, core and writer of this run ended.
THEOREM CleanDone == Spec => []CleanDoneMeansAllFinished
<1>1. IInv => CleanDoneMeansAllFinished
  <2> SUFFICES ASSUME IInv, done_latched, ~error_latched PROVE finished = Stages
    BY DEF CleanDoneMeansAllFinished
  <2>1. state = "COMPLETE"
    BY DEF IInv, ControlInv, FaultInv
  <2>2. "v" \in finished /\ "core" \in finished /\ "ctx" \in finished
    BY <2>1 DEF IInv, FinishedInv
  <2>3. finished \subseteq Stages
    BY DEF IInv, TypeOK
  <2>4. QED
    BY <2>2, <2>3 DEF Stages
<1>2. QED
  BY <1>1, Invariance, PTL

\* The start pulses reach only idle stages, the core's and the writer's only
\* after this run's V load ended without an error, and V loader and raw Q/K
\* reader never share the AXI read channel.
THEOREM StagesAreInTurn == Spec => []StagesInTurn
<1>1. IInv => StagesInTurn
  BY DEF IInv, ControlInv, FinishedInv, StagesInTurn, read_owner_v
<1>2. QED
  BY <1>1, Invariance, PTL
-----------------------------------------------------------------------------
(* The test program. *)

HostTypes ==
    /\ gpio_start \in BOOLEAN /\ soft_reset \in BOOLEAN /\ start_d \in BOOLEAN
    /\ gpio_seen \in BOOLEAN
    /\ pc \in {"reset", "hold", "ready", "start", "clear", "poll", "judge", "stopped"}

\* After a reset nothing is active, and no fault is remembered.
Fresh == state = "IDLE" /\ ~ever_faulted

\* The levels of the register, and when the start is a pulse.
Levels ==
    /\ gpio_start <=> pc = "clear"
    /\ soft_reset <=> pc = "hold"
    /\ pc = "hold" /\ gpio_seen => Fresh /\ ~start_d
    /\ pc \in {"ready", "start"} => Fresh /\ ~start_d
    /\ pc = "clear" /\ ~gpio_seen => Fresh /\ ~start_d
    /\ pc = "clear" /\ gpio_seen => start_d

\* From the edge that saw the start on, this run has the engine.
OneRun ==
    (pc = "clear" /\ gpio_seen) \/ pc \in {"poll", "judge"} =>
        state # "IDLE" /\ (ever_faulted => faulted)

\* The status word that showed DONE is still that of the run when it is judged.
Verdict ==
    pc = "judge" /\ status.done =>
        IF status_is_pass(status)
        THEN state = "COMPLETE" /\ finished = Stages /\ ~faulted
        ELSE faulted

FwInv == IInv /\ HostTypes /\ Levels /\ OneRun /\ Verdict
-----------------------------------------------------------------------------
\* An edge without a start: the engine neither leaves IDLE nor returns to it,
\* and after COMPLETE nothing of the run changes.
LEMMA QuietEdge ==
    ASSUME IInv, NEW fault \in SUBSET Faults, NEW finish \in SUBSET Stages,
           Edge(FALSE, fault, finish)
    PROVE  /\ IInv'
           /\ state = "IDLE" => state' = "IDLE" /\ (ever_faulted' => ever_faulted)
           /\ state # "IDLE" => state' # "IDLE"
           /\ faulted => faulted'
           /\ (ever_faulted => faulted) => (ever_faulted' => faulted')
           /\ state = "COMPLETE" =>
                  state' = "COMPLETE" /\ finished' = finished /\ (faulted' => faulted)
<1>1. Run(FALSE, fault, finish)
  BY DEF Edge
<1>2. IInv'
  BY <1>1, RunInv
<1>3. /\ EngineStep(FALSE) /\ StageStep(fault, finish) /\ TypeOK /\ ControlInv
      /\ faulted' = (faulted \/ fault # {})
      /\ ever_faulted' = (ever_faulted \/ fault # {})
      /\ finished' = finished \cup finish
  BY <1>1 DEF Run, Record, IInv
<1>4. /\ state = "IDLE" => state' = "IDLE"
      /\ state # "IDLE" => state' # "IDLE"
      /\ state = "COMPLETE" => state' = "COMPLETE"
  BY <1>3 DEF EngineStep, IdleWait, LoadV, LaunchCore, RunCore, Complete, Failed
<1>5. ASSUME state \in {"IDLE", "COMPLETE"}
      PROVE  fault = {} /\ finish = {}
  <2>1. ~v.busy /\ ~core.busy /\ ~ctx.busy /\ state # "RUN_CORE"
    BY <1>3, <1>5 DEF ControlInv
  <2>2. /\ "v" \notin fault /\ "core" \notin fault /\ "ctx" \notin fault
        /\ "raw" \notin fault /\ "rd" \notin fault /\ "wr" \notin fault
        /\ "v" \notin finish /\ "core" \notin finish /\ "ctx" \notin finish
    BY <1>3, <2>1, EdgeInputs
  <2> QED
    BY <2>2 DEF Faults, Stages
<1>6. faulted \in BOOLEAN /\ ever_faulted \in BOOLEAN
  BY <1>3 DEF TypeOK
<1>7. /\ faulted => faulted'
      /\ (ever_faulted => faulted) => (ever_faulted' => faulted')
  BY <1>3, <1>6
<1>8. ASSUME state \in {"IDLE", "COMPLETE"}
      PROVE  /\ finished' = finished /\ (faulted' => faulted)
             /\ ever_faulted' => ever_faulted
  BY <1>3, <1>5, <1>6, <1>8
<1> QED
  BY <1>2, <1>4, <1>7, <1>8

\* The edge at which the engine sees the start after a reset.
LEMMA StartEdge ==
    ASSUME IInv, Fresh, NEW fault \in SUBSET Faults, NEW finish \in SUBSET Stages,
           Edge(TRUE, fault, finish)
    PROVE  IInv' /\ state' # "IDLE" /\ (ever_faulted' => faulted')
<1>1. state = "IDLE" /\ ~ever_faulted
  BY DEF Fresh
<1>2. ~Run(TRUE, fault, finish)
  BY <1>1
     DEF Run, EngineStep, IdleWait, LoadV, LaunchCore, RunCore, Complete, Failed
<1>3. Start(fault, finish)
  BY <1>2 DEF Edge
<1>4. state' # "IDLE"
  BY <1>3 DEF Start, StartRun
<1>5. ever_faulted' => faulted'
  BY <1>1, <1>3 DEF Start
<1> QED
  BY <1>3, <1>4, <1>5, StartInv

\* A status word with DONE tells the truth about the run in the engine.
LEMMA StatusIsTrue ==
    ASSUME IInv, ever_faulted => faulted, gpio_status.done
    PROVE  IF status_is_pass(gpio_status)
           THEN state = "COMPLETE" /\ finished = Stages /\ ~faulted
           ELSE faulted
<1>1. /\ gpio_status.done = done_latched /\ gpio_status.error = error_latched
      /\ gpio_status.busy = busy /\ gpio_status.v_loaded = v_loaded
      /\ gpio_status.core_done = core_done_seen
      /\ gpio_status.context_done = context_done_seen
  BY DEF gpio_status
<1>2. /\ TypeOK /\ ControlInv /\ FinishedInv /\ FaultInv /\ done_latched
  BY <1>1 DEF IInv
<1>3. state \in {"COMPLETE", "FAILED"} /\ ~busy
  BY <1>2 DEF ControlInv, busy
<1>4. CASE error_latched
  <2>1. faulted
    BY <1>2, <1>4 DEF FaultInv
  <2>2. ~status_is_pass(gpio_status)
    BY <1>1, <1>4 DEF status_is_pass
  <2> QED
    BY <2>1, <2>2
<1>5. CASE ~error_latched
  <2>1. state = "COMPLETE" /\ ~faulted
    BY <1>2, <1>3, <1>5 DEF FaultInv
  <2>2. v_loaded /\ core_done_seen /\ context_done_seen
    BY <1>2, <2>1 DEF FinishedInv
  <2>3. "v" \in finished /\ "core" \in finished /\ "ctx" \in finished
    BY <1>2, <2>2 DEF FinishedInv
  <2>4. finished = Stages
    BY <1>2, <2>3 DEF TypeOK, Stages
  <2>5. status_is_pass(gpio_status)
    BY <1>1, <1>2, <1>3, <1>5, <2>2 DEF status_is_pass
  <2> QED
    BY <2>1, <2>4, <2>5
<1> QED
  BY <1>4, <1>5
-----------------------------------------------------------------------------
LEMMA FwInitInv == FwInit => FwInv
<1> SUFFICES ASSUME FwInit
             PROVE  FwInv
  OBVIOUS
<1>1. IInv
  BY InitInv DEF FwInit
<1>2. HostTypes /\ Levels /\ OneRun /\ Verdict
  BY DEF FwInit, HostTypes, Levels, OneRun, Verdict
<1> QED
  BY <1>1, <1>2 DEF FwInv

\* A clock edge, in a reset, at a start, or at neither.
LEMMA ClockEdgeKeeps ==
    ASSUME FwInv, ClockEdge
    PROVE  FwInv'
<1>1. IInv /\ HostTypes /\ Levels /\ OneRun /\ Verdict
  BY DEF FwInv
<1>2. /\ start_d' = gpio_start /\ gpio_seen' = TRUE
      /\ gpio_start' = gpio_start /\ soft_reset' = soft_reset
      /\ pc' = pc /\ status' = status
  BY DEF ClockEdge, hostVars
<1>3. HostTypes'
  BY <1>1, <1>2 DEF HostTypes
<1>4. CASE pc = "hold"
  <2>1. Reset
    BY <1>1, <1>4 DEF ClockEdge, Levels
  <2>2. IInv' /\ Fresh'
    BY <2>1, ResetInv DEF Reset, Fresh
  <2>3. Levels' /\ OneRun' /\ Verdict'
    BY <1>1, <1>2, <1>4, <2>2 DEF Levels, OneRun, Verdict
  <2> QED
    BY <1>3, <2>2, <2>3 DEF FwInv
<1>5. CASE pc = "clear" /\ ~gpio_seen
  <2>1. Fresh /\ gpio_start /\ ~start_d /\ ~soft_reset
    BY <1>1, <1>5 DEF Levels
  <2>2. command_start = TRUE
    BY <1>1, <2>1 DEF command_start, HostTypes
  <2>3. PICK fault \in SUBSET Faults, finish \in SUBSET Stages : Edge(TRUE, fault, finish)
    BY <2>1, <2>2 DEF ClockEdge
  <2>4. IInv' /\ state' # "IDLE" /\ (ever_faulted' => faulted')
    BY <1>1, <2>1, <2>3, StartEdge
  <2>5. Levels' /\ OneRun' /\ Verdict'
    BY <1>1, <1>2, <1>5, <2>1, <2>4 DEF Levels, OneRun, Verdict
  <2> QED
    BY <1>3, <2>4, <2>5 DEF FwInv
<1>6. CASE pc # "hold" /\ ~(pc = "clear" /\ ~gpio_seen)
  <2>1. ~soft_reset /\ (gpio_start => start_d)
    BY <1>1, <1>6 DEF Levels
  <2>2. command_start = FALSE
    BY <1>1, <2>1 DEF command_start, HostTypes
  <2>3. PICK fault \in SUBSET Faults, finish \in SUBSET Stages : Edge(FALSE, fault, finish)
    BY <2>1, <2>2 DEF ClockEdge
  <2>4. /\ IInv'
        /\ state = "IDLE" => state' = "IDLE" /\ (ever_faulted' => ever_faulted)
        /\ state # "IDLE" => state' # "IDLE"
        /\ faulted => faulted'
        /\ (ever_faulted => faulted) => (ever_faulted' => faulted')
        /\ state = "COMPLETE" =>
               state' = "COMPLETE" /\ finished' = finished /\ (faulted' => faulted)
    BY <1>1, <2>3, QuietEdge
  <2>5. Fresh => Fresh'
    BY <2>4 DEF Fresh
  <2>6. Levels'
    BY <1>1, <1>2, <1>6, <2>5 DEF Levels
  <2>7. OneRun'
    BY <1>1, <1>2, <1>6, <2>4 DEF OneRun
  <2>8. Verdict'
    BY <1>1, <1>2, <2>4 DEF Verdict, status_is_pass
  <2> QED
    BY <1>3, <2>4, <2>6, <2>7, <2>8 DEF FwInv
<1> QED
  BY <1>4, <1>5, <1>6

\* The processor leaves the engine alone.
LEMMA HostKeeps ==
    ASSUME FwInv, Host
    PROVE  FwInv'
<1>1. IInv /\ HostTypes /\ Levels /\ OneRun /\ Verdict
  BY DEF FwInv
<1>2. UNCHANGED vars
  BY DEF Host, AssertReset, ReleaseReset, PollReady, WriteStart, ClearStart, Poll, Judge
<1>3. IInv' /\ UNCHANGED <<state, finished, faulted, ever_faulted>>
  <2>1. IInv'
    BY <1>1, <1>2, StepInv
  <2> QED
    BY <1>2, <2>1 DEF vars, engineVars, history
<1>4. Fresh' = Fresh
  BY <1>3 DEF Fresh
<1>5. HostTypes'
  BY <1>1 DEF Host, AssertReset, ReleaseReset, PollReady, WriteStart, ClearStart, Poll, Judge,
              gpio_write, boardVars, HostTypes
<1>6. CASE Poll
  <2>1. /\ pc = "poll" /\ pc' \in {"poll", "judge"} /\ status' = gpio_status
        /\ UNCHANGED boardVars
    BY <1>6 DEF Poll
  <2>2. Levels' /\ OneRun'
    BY <1>1, <1>3, <1>4, <2>1 DEF Levels, OneRun, boardVars
  <2>3. Verdict'
    <3>1. SUFFICES ASSUME gpio_status.done
                   PROVE  IF status_is_pass(gpio_status)
                          THEN state = "COMPLETE" /\ finished = Stages /\ ~faulted
                          ELSE faulted
      BY <1>3, <2>1 DEF Verdict, status_is_pass
    <3>2. ever_faulted => faulted
      BY <1>1, <2>1 DEF OneRun
    <3> QED
      BY <1>1, <3>1, <3>2, StatusIsTrue
  <2> QED
    BY <1>3, <1>5, <2>2, <2>3 DEF FwInv
<1>7. CASE AssertReset \/ ReleaseReset \/ WriteStart \/ ClearStart
  <2>1. Levels'
    BY <1>1, <1>4, <1>7 DEF AssertReset, ReleaseReset, WriteStart, ClearStart, gpio_write, Levels
  <2>2. OneRun' /\ Verdict'
    BY <1>1, <1>3, <1>7
       DEF AssertReset, ReleaseReset, WriteStart, ClearStart, gpio_write, OneRun, Verdict
  <2> QED
    BY <1>3, <1>5, <2>1, <2>2 DEF FwInv
<1>8. CASE PollReady \/ Judge
  <2>1. /\ UNCHANGED boardVars
        /\ \/ pc = "ready" /\ pc' \in {"ready", "start", "stopped"}
           \/ pc = "judge" /\ pc' \in {"reset", "stopped"}
    BY <1>8 DEF PollReady, Judge
  <2>2. Levels' /\ OneRun' /\ Verdict'
    BY <1>1, <1>3, <1>4, <2>1 DEF Levels, OneRun, Verdict, boardVars
  <2> QED
    BY <1>3, <1>5, <2>2 DEF FwInv
<1> QED
  BY <1>6, <1>7, <1>8 DEF Host

LEMMA FwInvariance == FwSpec => []FwInv
<1>1. FwInit => FwInv
  BY FwInitInv
<1>2. FwInv /\ [FwNext]_allVars => FwInv'
  <2> SUFFICES ASSUME FwInv, [FwNext]_allVars
               PROVE  FwInv'
    OBVIOUS
  <2>1. CASE FwNext
    BY <2>1, ClockEdgeKeeps, HostKeeps DEF FwNext
  <2>2. CASE UNCHANGED allVars
    <3>1. UNCHANGED vars /\ UNCHANGED boardVars /\ pc' = pc /\ status' = status
      BY <2>2 DEF allVars, hostVars
    <3>2. IInv'
      BY <3>1, StepInv DEF FwInv
    <3>3. HostTypes' /\ Levels' /\ OneRun' /\ Verdict'
      BY <3>1 DEF FwInv, HostTypes, Levels, Fresh, OneRun, Verdict, status_is_pass, vars,
                  engineVars, history, boardVars
    <3> QED
      BY <3>2, <3>3 DEF FwInv
  <2> QED
    BY <2>1, <2>2
<1> QED
  BY <1>1, <1>2, PTL DEF FwSpec

\* A run the test program passes is this run, complete and without a fault: no
\* status bit of an earlier run is part of its verdict (run_engine and
\* status_is_pass of fpt_attention_board_test.c).
THEOREM PassIsHonestAlways == FwSpec => []PassIsHonest
<1>1. FwInv => PassIsHonest
  BY DEF FwInv, Verdict, PassIsHonest, status_is_pass
<1> QED
  BY <1>1, FwInvariance, PTL

\* A run without a fault that is published within the poll limit passes,
\* whatever became of the runs before it.
THEOREM CleanRunPassesAlways == FwSpec => []CleanRunPasses
<1>1. FwInv => CleanRunPasses
  BY DEF FwInv, Verdict, CleanRunPasses
<1> QED
  BY <1>1, FwInvariance, PTL

\* A start level becomes exactly one start: the edge detector of
\* attention_board_top.sv keeps sampling during the soft reset.
THEOREM StartTakenOnceAlways == FwSpec => []StartTakenOnce
<1>1. FwInv => StartTakenOnce
  BY DEF FwInv, OneRun, StartTakenOnce
<1> QED
  BY <1>1, FwInvariance, PTL
=============================================================================
