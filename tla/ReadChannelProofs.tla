------------------------- MODULE ReadChannelProofs -------------------------
(***************************************************************************)
(* Proofs about ReadChannel, for every size of V, of a line and of a       *)
(* burst, and every pacing of the memory, the V cache and the core.        *)
(*                                                                         *)
(* Turns says which client may be awake in which phase of the engine.      *)
(* Channel is the arithmetic of the bursts: the address and the beats left *)
(* of the master and of the memory always agree with the beats the owner   *)
(* has counted.  LoaderData and RawData say what those beats were put into.*)
(* A soft reset leaves only the memory unfinished, and the reset is held   *)
(* until it has ended.                                                     *)
(***************************************************************************)
EXTENDS ReadChannel, TLAPS

BeatType == [adrs : Int, run : Nat]
VectorType == [0 .. 1 -> BeatType]
Nothing == <<>>
Positions == 0 .. LineBeats - 1

MasterType ==
    [st : {"IDLE", "RA_WAIT", "RA_START", "RD_WAIT", "RD_PROC", "DONE"}, adrs : Int,
     len : Nat, arvalid : BOOLEAN, last : BOOLEAN, rlen : Nat]
MemoryType == [adrs : Int, left : Nat]
LoaderType ==
    [st : {"IDLE", "ISSUE", "STREAM", "FINISH"}, hold : VectorType, valid : BOOLEAN,
     index : 0 .. 1, seen : BOOLEAN, addr : Nat, done : BOOLEAN, error : BOOLEAN]
RawType ==
    [st : {"IDLE", "ISSUE", "FILL"}, line_valid : BOOLEAN, line : Lines, miss : Lines,
     count : Nat, start : BOOLEAN, rsp : Seq(BeatType), error : BOOLEAN]
CacheType == [Vectors -> VectorType \cup {Nothing}]

TypeOK ==
    /\ phase \in {"IDLE", "LOAD_V", "RUN", "END"}
    /\ v_start \in BOOLEAN /\ soft_reset \in BOOLEAN /\ v_rd_start \in BOOLEAN
    /\ master \in MasterType /\ rd_error \in BOOLEAN /\ memory \in MemoryType
    /\ loader \in LoaderType /\ raw \in RawType
    /\ line_mem \in [Positions -> BeatType] /\ request \in Requests \cup {None}
    /\ run \in Nat /\ vcache \in CacheType /\ faulted \in BOOLEAN

\* Which client is awake when.
Turns ==
    /\ v_start => phase = "LOAD_V" /\ loader.st = "IDLE" /\ ~loader.done
    /\ loader.st # "IDLE" \/ loader.done => phase = "LOAD_V"
    /\ loader.done => loader.st = "IDLE"
    /\ v_rd_start => loader.st = "STREAM" /\ ~loader.seen
    /\ request # None => phase = "RUN"
    /\ raw.st # "IDLE" => request # None /\ ~raw.line_valid
    /\ raw.start => raw.st = "FILL"
    /\ phase = "IDLE" => ~raw.line_valid /\ raw.rsp = Nothing

\* The owner waits for a request of its own: where its beats start, how many it
\* wants and how many it has.
Streams == loader.st = "STREAM" /\ ~loader.seen
Waits == Streams \/ raw.st = "FILL"
Base == IF read_owner_v THEN 0 ELSE Line(raw.miss)
Total == IF read_owner_v THEN VBeats ELSE LineBeats
Joined == loader.addr * 2 + (IF loader.valid THEN 2 ELSE loader.index)
Got == IF read_owner_v THEN Joined ELSE raw.count

Asking ==
    master.st \in {"RA_WAIT", "RA_START"} =>
        master.adrs = Base + Got /\ master.len + Got + 1 = Total
Offering ==
    master.st = "RD_WAIT" =>
        /\ master.adrs = Base + Got
        /\ master.last => master.rlen + Got + 1 = Total
        /\ ~master.last => /\ master.rlen + 1 = Burst
                           /\ master.len + Burst + Got + 1 = Total
Taking ==
    master.st = "RD_PROC" =>
        /\ memory.adrs = Base + Got
        /\ master.last => memory.left + Got = Total
        /\ ~master.last => /\ memory.left + master.len + Got + 1 = Total
                           /\ master.adrs + Burst = memory.adrs + memory.left
Channel ==
    /\ master.st = "IDLE" <=> (~Waits \/ rd_start)
    /\ rd_start => Waits /\ Got = 0
    /\ memory.left > 0 <=> master.st = "RD_PROC"
    /\ master.arvalid <=> master.st = "RD_WAIT"
    /\ Asking /\ Offering /\ Taking
    /\ master.st = "DONE" => Got = Total

\* The vector of an address.
VectorAt(a) == [i \in 0 .. 1 |-> Beat(a * 2 + i)]
LoaderData ==
    /\ loader.st = "ISSUE" => ~loader.seen /\ Joined = 0 /\ loader.addr = 0
    /\ loader.st = "STREAM" /\ loader.seen => Joined = VBeats
    /\ loader.st = "FINISH" \/ loader.done => loader.addr * 2 = VBeats
    /\ loader.st = "STREAM" =>
          /\ loader.valid => loader.index = 0 /\ loader.hold = VectorAt(loader.addr)
          /\ loader.index = 1 => loader.hold[0] = Beat(loader.addr * 2)
    /\ loader.st \in {"STREAM", "FINISH"} \/ loader.done =>
          \A a \in Vectors : a < loader.addr => vcache[a] = VectorAt(a)

Answered ==
    raw.rsp # Nothing =>
        raw.rsp = <<Beat(Line(asked.line) + asked.pair),
                    Beat(Line(asked.line) + asked.pair + LineBeats \div 2)>>
RawData ==
    /\ raw.st = "FILL" =>
          \A i \in Positions : i < raw.count => line_mem[i] = Beat(Line(raw.miss) + i)
    /\ raw.line_valid => \A i \in Positions : line_mem[i] = Beat(Line(raw.line) + i)
    /\ Answered

Errors == rd_error \/ loader.error \/ raw.error => faulted

Resetting ==
    /\ soft_reset
    /\ phase = "IDLE" /\ v_start = FALSE /\ master = MasterReset /\ rd_error = FALSE
    /\ loader = LoaderReset /\ v_rd_start = FALSE /\ raw = RawReset
    /\ request = None /\ faulted = FALSE

Working == Turns /\ Channel /\ LoaderData /\ RawData /\ Errors
IInv == TypeOK /\ (Resetting \/ Working)
-----------------------------------------------------------------------------
(***************************************************************************)
(* The sizes.                                                              *)
(***************************************************************************)
Half == LineBeats \div 2
LEMMA Sizes ==
  /\ VBeats \in Nat \ {0} /\ VBeats % 2 = 0
  /\ LineBeats \in Nat \ {0} /\ Half \in Nat \ {0} /\ LineBeats = Half + Half
  /\ NLines \in Nat \ {0} /\ Burst \in Nat \ {0} /\ BEATS_PER_VECTOR = 2
  <1>1. /\ VBeats \in Nat \ {0} /\ VBeats % 2 = 0 /\ LineBeats \in Nat \ {0}
        /\ LineBeats % 2 = 0 /\ NLines \in Nat \ {0} /\ Burst \in Nat \ {0}
    BY ReadAssumption DEF BEATS_PER_VECTOR
  <1>2. Half \in Nat \ {0} /\ LineBeats = Half + Half BY <1>1 DEF Half
  <1> QED BY <1>1, <1>2 DEF BEATS_PER_VECTOR

LEMMA LineIsInt == ASSUME NEW l \in Lines PROVE Line(l) \in Int
  <1>1. l \in Nat /\ VBeats \in Nat /\ LineBeats \in Nat BY Sizes DEF Lines
  <1>2. l * LineBeats \in Nat BY <1>1
  <1> QED BY <1>1, <1>2 DEF Line

\* Another burst follows when more than one is left.
LEMMA MoreMeans ==
  ASSUME NEW len \in Nat
  PROVE  len \div Burst # 0 <=> len >= Burst
  <1>1. Burst \in Nat \ {0} BY Sizes
  <1>2. \A x, b \in Nat : b > 0 => (x \div b # 0 <=> x >= b) OBVIOUS
  <1> QED BY <1>1, <1>2

LEMMA VectorNumbers ==
  ASSUME NEW a \in Nat
  PROVE  a \in Vectors <=> a * 2 < VBeats
  <1>1. VBeats \in Nat /\ VBeats % 2 = 0 BY Sizes
  <1>2. Vectors = 0 .. (VBeats \div 2) - 1 BY DEF Vectors, BEATS_PER_VECTOR
  <1> QED BY <1>1, <1>2
-----------------------------------------------------------------------------
(***************************************************************************)
(* What an edge does to each part.                                         *)
(***************************************************************************)
LEMMA PhaseMoves ==
  ASSUME TypeOK, NEW start \in BOOLEAN, NEW core_done \in BOOLEAN,
         PhaseStep(start, core_done)
  PROVE  /\ phase' \in {"IDLE", "LOAD_V", "RUN", "END"} /\ v_start' \in BOOLEAN
         /\ v_start' => phase = "IDLE" /\ phase' = "LOAD_V"
         /\ phase' = "IDLE" => phase = "IDLE"
         /\ phase = "IDLE" => phase' \in {"IDLE", "LOAD_V"}
         /\ phase = "LOAD_V" /\ ~loader.done => phase' = "LOAD_V"
         /\ phase = "LOAD_V" /\ loader.done => phase' \in {"RUN", "END"}
         /\ phase = "RUN" => phase' \in {"RUN", "END"}
         /\ phase = "RUN" /\ (request # None \/ ~core_done) => phase' = "RUN"
         /\ phase = "END" => phase' = "END"
  <1>1. phase \in {"IDLE", "LOAD_V", "RUN", "END"} BY DEF TypeOK
  <1>2. /\ start => phase = "IDLE" /\ ~core_done
        /\ core_done => phase = "RUN" /\ request = None
        /\ v_start' = start
    BY DEF PhaseStep
  <1>3. CASE start
    <2>1. phase' = "LOAD_V" BY <1>2, <1>3 DEF PhaseStep
    <2> QED BY <1>2, <1>3, <2>1
  <1>4. CASE phase = "LOAD_V" /\ loader.done
    <2>1. phase' = IF loader.error \/ rd_error THEN "END" ELSE "RUN"
      BY <1>2, <1>4 DEF PhaseStep
    <2> QED BY <1>2, <1>4, <2>1
  <1>5. CASE core_done
    <2>1. phase' = "END" BY <1>2, <1>5 DEF PhaseStep
    <2> QED BY <1>2, <1>5, <2>1
  <1>6. CASE ~start /\ ~core_done /\ ~(phase = "LOAD_V" /\ loader.done)
    <2>1. phase' = phase BY <1>6 DEF PhaseStep
    <2> QED BY <1>1, <1>2, <1>6, <2>1
  <1> QED BY <1>3, <1>4, <1>5, <1>6

LEMMA MemoryMoves ==
  ASSUME TypeOK, NEW arready \in BOOLEAN, NEW rvalid \in BOOLEAN,
         MemoryStep(arready, rvalid)
  PROVE  /\ memory' \in MemoryType
         /\ rvalid => memory.left > 0
         /\ arready => memory.left = 0
         /\ master.arvalid /\ arready =>
                memory'.adrs = master.adrs /\ memory'.left = master.rlen + 1
         /\ ~(master.arvalid /\ arready) /\ Crosses(rvalid) =>
                memory'.adrs = memory.adrs + 1 /\ memory'.left = memory.left - 1
         /\ ~(master.arvalid /\ arready) /\ ~Crosses(rvalid) => memory' = memory
  <1>1. memory \in MemoryType /\ master \in MasterType BY DEF TypeOK
  <1>2. (rvalid => memory.left > 0) /\ (arready => memory.left = 0) BY DEF MemoryStep
  <1>3. CASE master.arvalid /\ arready
    <2>1. memory' = [adrs |-> master.adrs, left |-> master.rlen + 1] BY <1>3 DEF MemoryStep
    <2> QED BY <1>1, <1>2, <1>3, <2>1 DEF MemoryType, MasterType
  <1>4. CASE ~(master.arvalid /\ arready) /\ Crosses(rvalid)
    <2>1. memory' = [adrs |-> memory.adrs + 1, left |-> memory.left - 1]
      BY <1>4 DEF MemoryStep
    <2>2. memory.left > 0 BY <1>2, <1>4 DEF Crosses
    <2> QED BY <1>1, <1>2, <1>4, <2>1, <2>2 DEF MemoryType
  <1>5. CASE ~(master.arvalid /\ arready) /\ ~Crosses(rvalid)
    <2>1. memory' = memory BY <1>5 DEF MemoryStep
    <2> QED BY <1>1, <1>2, <1>5, <2>1
  <1> QED BY <1>3, <1>4, <1>5

LEMMA MasterMoves ==
  ASSUME TypeOK, NEW arready \in BOOLEAN, NEW rvalid \in BOOLEAN, NEW bad \in BOOLEAN,
         MasterStep(arready, rvalid, bad)
  PROVE  /\ master' \in MasterType
         /\ rd_error' \in BOOLEAN /\ faulted' \in BOOLEAN
         /\ rd_error' => rd_error \/ faulted'
         /\ faulted => faulted'
         /\ master.st = "IDLE" =>
              /\ ~master'.arvalid
              /\ ~rd_start => master'.st = "IDLE"
              /\ rd_start => /\ master'.st = "RA_WAIT" /\ master'.adrs = rd_adrs
                             /\ master'.len = rd_len - 1
         /\ master.st = "RA_WAIT" =>
              /\ master'.st \in {"RA_WAIT", "RA_START"} /\ master'.arvalid = master.arvalid
              /\ master'.adrs = master.adrs /\ master'.len = master.len
         /\ master.st = "RA_START" =>
              /\ master'.st = "RD_WAIT" /\ master'.arvalid /\ master'.adrs = master.adrs
              /\ master.len < Burst => master'.last /\ master'.rlen = master.len
              /\ master.len >= Burst => /\ ~master'.last /\ master'.rlen = Burst - 1
                                        /\ master'.len = master.len - Burst
         /\ master.st = "RD_WAIT" =>
              /\ master'.last = master.last /\ master'.rlen = master.rlen
              /\ master'.len = master.len /\ master'.adrs = master.adrs
              /\ arready => master'.st = "RD_PROC" /\ ~master'.arvalid
              /\ ~arready => master' = master
         /\ master.st = "RD_PROC" =>
              /\ ~(Crosses(rvalid) /\ RLast) => master' = master
              /\ Crosses(rvalid) /\ RLast =>
                   /\ master'.arvalid = master.arvalid /\ master'.len = master.len
                   /\ master.last => master'.st = "DONE"
                   /\ ~master.last => /\ master'.st = "RA_WAIT"
                                      /\ master'.adrs = master.adrs + Burst
         /\ master.st = "DONE" => master'.st = "IDLE" /\ master'.arvalid = master.arvalid
  <1>1. master \in MasterType /\ raw \in RawType BY DEF TypeOK
  <1>2. Burst \in Nat \ {0} /\ VBeats \in Nat \ {0} /\ LineBeats \in Nat \ {0} BY Sizes
  <1>3. rd_adrs \in Int /\ rd_len - 1 \in Nat
    <2>1. raw.miss \in Lines BY <1>1 DEF RawType
    <2> QED BY <1>2, <2>1, LineIsInt DEF rd_adrs, rd_len
  <1>4. /\ rd_error' \in BOOLEAN /\ faulted' \in BOOLEAN
        /\ rd_error' => rd_error \/ faulted'
        /\ faulted => faulted'
    BY DEF MasterStep, TypeOK
  <1>5. master' = MasterNext(arready, rvalid) BY DEF MasterStep
  <1>6. CASE master.st = "IDLE"
    <2>1. CASE rd_start
      <3>1. master' = [master EXCEPT !.st = "RA_WAIT", !.arvalid = FALSE,
                                     !.adrs = rd_adrs, !.len = rd_len - 1]
        BY <1>5, <1>6, <2>1 DEF MasterNext
      <3> QED BY <1>1, <1>3, <1>4, <1>6, <2>1, <3>1 DEF MasterType
    <2>2. CASE ~rd_start
      <3>1. master' = [master EXCEPT !.arvalid = FALSE] BY <1>5, <1>6, <2>2 DEF MasterNext
      <3> QED BY <1>1, <1>4, <1>6, <2>2, <3>1 DEF MasterType
    <2> QED BY <2>1, <2>2
  <1>7. CASE master.st = "RA_WAIT"
    <2>1. master' = IF rd_fifo_full THEN master ELSE [master EXCEPT !.st = "RA_START"]
      BY <1>5, <1>7 DEF MasterNext
    <2> QED BY <1>1, <1>4, <1>7, <2>1 DEF MasterType
  <1>8. CASE master.st = "RA_START"
    <2>1. master.len \in Nat BY <1>1 DEF MasterType
    <2>2. CASE master.len >= Burst
      <3>1. master.len \div Burst # 0 BY <2>1, <2>2, MoreMeans
      <3>2. master' = [master EXCEPT !.st = "RD_WAIT", !.arvalid = TRUE, !.last = FALSE,
                                     !.len = master.len - Burst, !.rlen = Burst - 1]
        BY <1>5, <1>8, <3>1 DEF MasterNext
      <3>3. master.len - Burst \in Nat /\ Burst - 1 \in Nat BY <1>2, <2>1, <2>2
      <3>4. /\ master' \in MasterType /\ master'.st = "RD_WAIT" /\ master'.arvalid
            /\ master'.adrs = master.adrs /\ ~master'.last /\ master'.rlen = Burst - 1
            /\ master'.len = master.len - Burst
        BY <1>1, <3>2, <3>3 DEF MasterType
      <3>5. ~(master.len < Burst) BY <1>2, <2>1, <2>2
      <3> QED BY <1>4, <1>8, <3>4, <3>5
    <2>3. CASE master.len < Burst
      <3>1. master.len \div Burst = 0 BY <1>2, <2>1, <2>3, MoreMeans
      <3>2. master' = [master EXCEPT !.st = "RD_WAIT", !.arvalid = TRUE, !.last = TRUE,
                                     !.len = master.len, !.rlen = master.len]
        BY <1>5, <1>8, <3>1 DEF MasterNext
      <3>3. /\ master' \in MasterType /\ master'.st = "RD_WAIT" /\ master'.arvalid
            /\ master'.adrs = master.adrs /\ master'.last /\ master'.rlen = master.len
        BY <1>1, <3>2 DEF MasterType
      <3>4. ~(master.len >= Burst) BY <1>2, <2>1, <2>3
      <3> QED BY <1>4, <1>8, <3>3, <3>4
    <2> QED BY <1>2, <2>1, <2>2, <2>3
  <1>9. CASE master.st = "RD_WAIT"
    <2>1. master' = IF arready THEN [master EXCEPT !.st = "RD_PROC", !.arvalid = FALSE]
                    ELSE master
      BY <1>5, <1>9 DEF MasterNext
    <2> QED BY <1>1, <1>4, <1>9, <2>1 DEF MasterType
  <1>10. CASE master.st = "RD_PROC"
    <2>1. CASE ~(Crosses(rvalid) /\ RLast)
      <3>1. master' = master BY <1>5, <1>10, <2>1 DEF MasterNext
      <3> QED BY <1>1, <1>4, <1>10, <2>1, <3>1
    <2>2. CASE Crosses(rvalid) /\ RLast /\ master.last
      <3>1. master' = [master EXCEPT !.st = "DONE"] BY <1>5, <1>10, <2>2 DEF MasterNext
      <3> QED BY <1>1, <1>4, <1>10, <2>2, <3>1 DEF MasterType
    <2>3. CASE Crosses(rvalid) /\ RLast /\ ~master.last
      <3>1. master' = [master EXCEPT !.st = "RA_WAIT", !.adrs = master.adrs + Burst]
        BY <1>5, <1>10, <2>3 DEF MasterNext, NextBurst
      <3>2. master.adrs + Burst \in Int BY <1>1, <1>2 DEF MasterType
      <3> QED BY <1>1, <1>4, <1>10, <2>3, <3>1, <3>2 DEF MasterType
    <2> QED BY <2>1, <2>2, <2>3
  <1>11. CASE master.st = "DONE"
    <2>1. master' = [master EXCEPT !.st = "IDLE"] BY <1>5, <1>11 DEF MasterNext
    <2> QED BY <1>1, <1>4, <1>11, <2>1 DEF MasterType
  <1> QED BY <1>1, <1>6, <1>7, <1>8, <1>9, <1>10, <1>11 DEF MasterType

\* A beat the loader takes, and a vector the V cache takes.
Takes(rvalid) == read_owner_v /\ Crosses(rvalid)
Stored(store) == loader.valid /\ store
Ends == read_owner_v /\ rd_done

LEMMA LoaderMoves ==
  ASSUME TypeOK, NEW rvalid \in BOOLEAN, NEW store \in BOOLEAN, LoaderStep(rvalid, store)
  PROVE  /\ loader' \in LoaderType /\ v_rd_start' \in BOOLEAN /\ vcache' \in CacheType
         /\ loader.st = "IDLE" =>
              /\ loader'.st = IF v_start THEN "ISSUE" ELSE "IDLE"
              /\ ~loader'.valid /\ loader'.index = 0 /\ ~loader'.seen /\ loader'.addr = 0
              /\ ~loader'.done /\ ~v_rd_start'
              /\ loader'.error = (~v_start /\ (loader.error \/ (read_owner_v /\ rd_error)))
         /\ loader.st = "ISSUE" =>
              /\ v_rd_start' = (read_owner_v /\ rd_ready)
              /\ loader'.st = IF v_rd_start' THEN "STREAM" ELSE "ISSUE"
              /\ loader'.valid = loader.valid /\ loader'.index = loader.index
              /\ loader'.seen = loader.seen /\ loader'.addr = loader.addr
              /\ loader'.done = loader.done
              /\ loader'.error = (loader.error \/ (read_owner_v /\ rd_error))
         /\ loader.st = "STREAM" =>
              /\ ~v_rd_start'
              /\ loader'.st = IF (loader.seen \/ Ends) /\ ~loader.valid /\ ~Takes(rvalid)
                              THEN "FINISH" ELSE "STREAM"
              /\ loader'.seen = (loader.seen \/ Ends) /\ loader'.done = loader.done
              /\ loader'.error = (loader.error \/ (read_owner_v /\ rd_error))
              /\ Takes(rvalid) =>
                   /\ ~loader.valid /\ vcache' = vcache /\ loader'.addr = loader.addr
                   /\ loader.index = 0 =>
                        /\ ~loader'.valid /\ loader'.index = 1
                        /\ loader'.hold[0] = ReadBeat
                   /\ loader.index = 1 =>
                        /\ loader'.valid /\ loader'.index = 0
                        /\ loader'.hold[0] = loader.hold[0] /\ loader'.hold[1] = ReadBeat
              /\ ~Takes(rvalid) => loader'.index = loader.index /\ loader'.hold = loader.hold
              /\ ~Takes(rvalid) /\ Stored(store) =>
                   /\ ~loader'.valid /\ loader'.addr = loader.addr + 1
                   /\ vcache' = IF loader.addr \in Vectors
                                THEN [vcache EXCEPT ![loader.addr] = loader.hold] ELSE vcache
              /\ ~Takes(rvalid) /\ ~Stored(store) =>
                   /\ loader'.valid = loader.valid /\ loader'.addr = loader.addr
                   /\ vcache' = vcache
         /\ loader.st = "FINISH" =>
              /\ loader'.st = "IDLE" /\ loader'.done /\ ~v_rd_start' /\ vcache' = vcache
              /\ loader'.addr = loader.addr /\ loader'.seen = loader.seen
              /\ loader'.error = \/ loader.error \/ (read_owner_v /\ rd_error)
                                 \/ loader.addr * 2 # VBeats
         /\ loader.st # "STREAM" => vcache' = vcache
  <1>1. /\ loader \in LoaderType /\ v_start \in BOOLEAN /\ rd_error \in BOOLEAN
        /\ vcache \in CacheType
    BY DEF TypeOK
  <1>2. CASE loader.st = "IDLE"
    <2>1. LoaderIdle
      BY <1>2 DEF LoaderStep, LoaderIssue, LoaderStream, LoaderFinish
    <2> DEFINE e == ~v_start /\ (loader.error \/ (read_owner_v /\ rd_error))
               s == IF v_start THEN "ISSUE" ELSE "IDLE"
    <2>2. loader' = [loader EXCEPT !.valid = FALSE, !.index = 0, !.seen = FALSE,
                        !.addr = 0, !.done = FALSE, !.st = s, !.error = e]
      BY <2>1 DEF LoaderIdle
    <2>3. e \in BOOLEAN /\ s \in {"IDLE", "ISSUE"} OBVIOUS
    <2>4. v_rd_start' = FALSE /\ vcache' = vcache BY <2>1 DEF LoaderIdle
    <2> HIDE DEF e, s
    <2>5. loader' = [st |-> s, hold |-> loader.hold, valid |-> FALSE, index |-> 0,
                     seen |-> FALSE, addr |-> 0, done |-> FALSE, error |-> e]
      BY <1>1, <2>2 DEF LoaderType
    <2>6. loader' \in LoaderType BY <1>1, <2>3, <2>5 DEF LoaderType
    <2>7. /\ loader'.st = s /\ loader'.error = e
          /\ ~loader'.valid /\ loader'.index = 0 /\ ~loader'.seen /\ loader'.addr = 0
          /\ ~loader'.done
      BY <2>5
    <2> QED BY <1>1, <1>2, <2>4, <2>6, <2>7 DEF e, s
  <1>3. CASE loader.st = "ISSUE"
    <2>1. LoaderIssue
      BY <1>3 DEF LoaderStep, LoaderIdle, LoaderStream, LoaderFinish
    <2> DEFINE g == read_owner_v /\ rd_ready
               e == loader.error \/ (read_owner_v /\ rd_error)
               s == IF g THEN "STREAM" ELSE "ISSUE"
    <2>2. loader' = [loader EXCEPT !.st = s, !.error = e]
      BY <2>1 DEF LoaderIssue
    <2>3. e \in BOOLEAN /\ s \in {"STREAM", "ISSUE"} /\ g \in BOOLEAN
      BY <1>1 DEF LoaderType
    <2>4. v_rd_start' = g /\ vcache' = vcache BY <2>1 DEF LoaderIssue
    <2>5. s = IF v_rd_start' THEN "STREAM" ELSE "ISSUE" BY <2>4
    <2> HIDE DEF e, s, g
    <2>6. loader' = [st |-> s, hold |-> loader.hold, valid |-> loader.valid,
                     index |-> loader.index, seen |-> loader.seen, addr |-> loader.addr,
                     done |-> loader.done, error |-> e]
      BY <1>1, <2>2 DEF LoaderType
    <2>7. loader' \in LoaderType BY <1>1, <2>3, <2>6 DEF LoaderType
    <2>8. /\ loader'.st = s /\ loader'.error = e
          /\ loader'.valid = loader.valid /\ loader'.index = loader.index
          /\ loader'.seen = loader.seen /\ loader'.addr = loader.addr
          /\ loader'.done = loader.done
      BY <2>6
    <2> QED BY <1>1, <1>3, <2>3, <2>4, <2>5, <2>7, <2>8 DEF e, g
  <1>4. CASE loader.st = "STREAM"
    <2>1. LoaderStream(rvalid, store)
      BY <1>4 DEF LoaderStep, LoaderIdle, LoaderIssue, LoaderFinish
    <2> DEFINE we == Takes(rvalid)
               joins == we /\ loader.index = 1
               stored == Stored(store)
               h == IF we /\ ~loader.valid
                    THEN [loader.hold EXCEPT ![loader.index] = ReadBeat] ELSE loader.hold
               i == IF ~we \/ loader.valid THEN loader.index
                    ELSE IF joins THEN 0 ELSE loader.index + 1
               v == joins \/ (loader.valid /\ ~stored)
               a == IF stored THEN loader.addr + 1 ELSE loader.addr
               n == loader.seen \/ Ends
               e == loader.error \/ (read_owner_v /\ rd_error) \/ (we /\ loader.valid)
               s == IF n /\ ~loader.valid /\ ~we THEN "FINISH" ELSE "STREAM"
    <2>2. loader' = [loader EXCEPT !.hold = h, !.index = i, !.valid = v, !.addr = a,
                                   !.seen = n, !.error = e, !.st = s]
      BY <1>4, <2>1 DEF LoaderStream, Takes, Stored, Ends, BEATS_PER_VECTOR
    <2>3. /\ v_rd_start' = FALSE
          /\ vcache' = IF stored /\ loader.addr \in Vectors
                       THEN [vcache EXCEPT ![loader.addr] = loader.hold] ELSE vcache
      BY <2>1 DEF LoaderStream, Stored
    <2>4. we => ~loader.valid BY DEF Takes, Crosses, rd_fifo_full
    <2>5. /\ loader.index \in 0 .. 1 /\ loader.hold \in VectorType /\ loader.valid \in BOOLEAN
          /\ loader.addr \in Nat /\ loader.seen \in BOOLEAN /\ loader.error \in BOOLEAN
      BY <1>1 DEF LoaderType
    <2>6. ReadBeat \in BeatType
      BY DEF ReadBeat, Beat, BeatType, TypeOK, MemoryType
    <2>7. h \in VectorType BY <2>5, <2>6 DEF VectorType
    <2>8. i \in 0 .. 1 /\ a \in Nat /\ s \in {"STREAM", "FINISH"} BY <2>5
    <2>9. v \in BOOLEAN /\ n \in BOOLEAN /\ e \in BOOLEAN OBVIOUS
    <2>10. we => /\ loader.index = 0 => ~v /\ i = 1 /\ h[0] = ReadBeat
                 /\ loader.index = 1 => v /\ i = 0 /\ h[0] = loader.hold[0] /\ h[1] = ReadBeat
      <3> SUFFICES ASSUME we PROVE
                 /\ loader.index = 0 => ~v /\ i = 1 /\ h[0] = ReadBeat
                 /\ loader.index = 1 => v /\ i = 0 /\ h[0] = loader.hold[0] /\ h[1] = ReadBeat
        OBVIOUS
      <3>1. ~loader.valid BY <2>4
      <3>2. h = [loader.hold EXCEPT ![loader.index] = ReadBeat] BY <3>1
      <3>3. (v <=> loader.index = 1) /\ i = IF loader.index = 1 THEN 0 ELSE loader.index + 1
        BY <3>1
      <3> HIDE DEF h, v, i
      <3> QED BY <2>5, <3>2, <3>3 DEF VectorType
    <2>11. ~we => h = loader.hold /\ i = loader.index /\ v = (loader.valid /\ ~stored)
      <3>1. ~we => h = loader.hold /\ i = loader.index OBVIOUS
      <3>2. ~we => (v <=> (loader.valid /\ ~stored)) OBVIOUS
      <3> QED BY <2>5, <2>9, <3>1, <3>2
    <2>12. we => ~stored /\ a = loader.addr BY <2>4 DEF Stored
    <2>13. e = (loader.error \/ (read_owner_v /\ rd_error))
      BY <2>4, <2>5
    <2>14. stored => a = loader.addr + 1 OBVIOUS
    <2>15. ~stored => a = loader.addr /\ (~we => v = loader.valid)
      BY <2>5, <2>11
    <2>16. s = IF n /\ ~loader.valid /\ ~we THEN "FINISH" ELSE "STREAM" OBVIOUS
    <2>17. vcache' \in CacheType
      <3>1. loader.hold \in VectorType BY <2>5
      <3> QED BY <1>1, <2>3, <3>1 DEF CacheType
    <2>18. stored => loader.valid BY DEF Stored
    <2> DEFINE own == read_owner_v /\ rd_error
    <2>19. e = (loader.error \/ own) BY <2>13
    <2>20. n = (loader.seen \/ Ends) OBVIOUS
    <2> HIDE DEF we, joins, stored, h, i, v, a, n, e, s, own
    <2>21. /\ loader' \in LoaderType /\ loader'.hold = h /\ loader'.index = i
           /\ loader'.valid = v /\ loader'.addr = a /\ loader'.seen = n /\ loader'.error = e
           /\ loader'.st = s /\ loader'.done = loader.done
      BY <1>1, <2>2, <2>7, <2>8, <2>9 DEF LoaderType
    <2>22. we => ~loader.valid /\ vcache' = vcache /\ loader'.addr = loader.addr
      BY <2>3, <2>4, <2>12, <2>21
    <2>23. ~we /\ stored =>
             /\ ~loader'.valid /\ loader'.addr = loader.addr + 1
             /\ vcache' = IF loader.addr \in Vectors
                          THEN [vcache EXCEPT ![loader.addr] = loader.hold] ELSE vcache
      BY <2>3, <2>11, <2>14, <2>21
    <2>24. ~we /\ ~stored =>
             loader'.valid = loader.valid /\ loader'.addr = loader.addr /\ vcache' = vcache
      BY <2>3, <2>15, <2>21
    <2>25. /\ loader'.st = IF n /\ ~loader.valid /\ ~we THEN "FINISH" ELSE "STREAM"
           /\ loader'.error = (loader.error \/ own)
      BY <2>16, <2>19, <2>21
    <2>26. /\ we => /\ loader.index = 0 =>
                        ~loader'.valid /\ loader'.index = 1 /\ loader'.hold[0] = ReadBeat
                    /\ loader.index = 1 =>
                        /\ loader'.valid /\ loader'.index = 0
                        /\ loader'.hold[0] = loader.hold[0] /\ loader'.hold[1] = ReadBeat
           /\ ~we => loader'.index = loader.index /\ loader'.hold = loader.hold
      BY <2>10, <2>11, <2>21
    <2> QED BY <1>4, <2>3, <2>17, <2>20, <2>21, <2>22, <2>23, <2>24, <2>25, <2>26
        DEF we, stored, own
  <1>5. CASE loader.st = "FINISH"
    <2>1. LoaderFinish
      BY <1>5 DEF LoaderStep, LoaderIdle, LoaderIssue, LoaderStream
    <2> DEFINE e == \/ loader.error \/ (read_owner_v /\ rd_error)
                    \/ loader.addr * 2 # VBeats
    <2>2. loader' = [loader EXCEPT !.st = "IDLE", !.done = TRUE, !.error = e]
      BY <2>1 DEF LoaderFinish, BEATS_PER_VECTOR
    <2>3. e \in BOOLEAN OBVIOUS
    <2>4. v_rd_start' = FALSE /\ vcache' = vcache BY <2>1 DEF LoaderFinish
    <2> HIDE DEF e
    <2>5. /\ loader' \in LoaderType /\ loader'.st = "IDLE" /\ loader'.done
          /\ loader'.error = e /\ loader'.addr = loader.addr /\ loader'.seen = loader.seen
      BY <1>1, <2>2, <2>3 DEF LoaderType
    <2> QED BY <1>1, <1>5, <2>4, <2>5 DEF e
  <1> QED BY <1>1, <1>2, <1>3, <1>4, <1>5 DEF LoaderType

\* The reader misses the line the core asks for.
Misses == phase = "RUN" /\ request # None /\ ~line_match
\* Its answer to the pair asked for.
Answer == <<line_mem[request.pair], line_mem[request.pair + Half]>>
Accepted == request # None /\ raw_req_ready
\* A beat the reader takes.
Fetches(rvalid) == ~read_owner_v /\ Crosses(rvalid)

LEMMA RequestType ==
  ASSUME TypeOK, request # None
  PROVE  /\ request.line \in Lines /\ request.pair \in 0 .. Half - 1
         /\ request.pair \in Positions /\ request.pair + Half \in Positions
  <1>1. request \in Requests BY DEF TypeOK
  <1>2. request.line \in Lines /\ request.pair \in 0 .. Half - 1 BY <1>1 DEF Requests, Half
  <1> QED BY <1>2, Sizes DEF Positions

LEMMA HeldType ==
  ASSUME TypeOK, NEW taken \in BOOLEAN PROVE Held(taken) \in Seq(BeatType)
  BY DEF TypeOK, RawType, Held

LEMMA AnswerType ==
  ASSUME TypeOK, request # None PROVE Answer \in Seq(BeatType)
  <1>1. line_mem[request.pair] \in BeatType /\ line_mem[request.pair + Half] \in BeatType
    BY RequestType DEF TypeOK
  <1> QED BY <1>1 DEF Answer

LEMMA RawMoves ==
  ASSUME TypeOK, NEW rvalid \in BOOLEAN, NEW taken \in BOOLEAN, RawStep(taken, rvalid)
  PROVE  /\ raw' \in RawType /\ line_mem' \in [Positions -> BeatType]
         /\ raw.st = "IDLE" /\ ~Misses =>
              /\ raw'.st = "IDLE" /\ ~raw'.start /\ line_mem' = line_mem
              /\ raw'.line_valid = raw.line_valid /\ raw'.line = raw.line
              /\ raw'.rsp = IF Accepted THEN Answer ELSE Held(taken)
              /\ raw'.error = Flags
         /\ raw.st = "IDLE" /\ Misses =>
              /\ raw'.st = "ISSUE" /\ ~raw'.start /\ line_mem' = line_mem
              /\ ~raw'.line_valid /\ raw'.rsp = Held(taken) /\ raw'.error = Flags
         /\ raw.st = "ISSUE" =>
              /\ raw'.start = (~read_owner_v /\ rd_ready)
              /\ raw'.st = IF raw'.start THEN "FILL" ELSE "ISSUE"
              /\ raw'.start => raw'.count = 0
              /\ raw'.miss = raw.miss
              /\ line_mem' = line_mem /\ raw'.line_valid = raw.line_valid
              /\ raw'.line = raw.line /\ raw'.rsp = Held(taken) /\ raw'.error = Flags
         /\ raw.st = "FILL" =>
              /\ ~raw'.start /\ raw'.rsp = Held(taken) /\ raw'.miss = raw.miss
              /\ raw'.count = IF Fetches(rvalid) THEN raw.count + 1 ELSE raw.count
              /\ ~read_owner_v /\ rd_done =>
                   /\ raw'.st = "IDLE" /\ raw'.line_valid /\ raw'.line = raw.miss
                   /\ raw'.error = (Flags \/ raw'.count # LineBeats)
              /\ ~(~read_owner_v /\ rd_done) =>
                   /\ raw'.st = "FILL" /\ raw'.line_valid = raw.line_valid
                   /\ raw'.error = Flags
              /\ line_mem' = IF Fetches(rvalid) /\ raw.count \in Positions
                             THEN [line_mem EXCEPT ![raw.count] = ReadBeat] ELSE line_mem
  <1>1. /\ raw \in RawType /\ line_mem \in [Positions -> BeatType] /\ rd_error \in BOOLEAN
    BY DEF TypeOK
  <1>2. Flags \in BOOLEAN /\ Held(taken) \in Seq(BeatType)
    BY <1>1, HeldType DEF Flags
  <1> DEFINE f == Flags
             held == Held(taken)
  <1>3. f \in BOOLEAN /\ held \in Seq(BeatType) BY <1>2
  <1>4. CASE raw.st = "IDLE" /\ ~Misses
    <2> DEFINE r == IF Accepted THEN Answer ELSE held
    <2>1. RawIdle(taken)
      BY <1>4 DEF RawStep, RawMiss, RawIssue, RawFill, Misses
    <2>2. raw' = [raw EXCEPT !.start = FALSE, !.error = f, !.rsp = r]
      BY <2>1 DEF RawIdle, Accepted, Answer, Half
    <2>3. r \in Seq(BeatType) BY <1>3, AnswerType DEF Accepted
    <2>4. line_mem' = line_mem BY <2>1 DEF RawIdle
    <2> HIDE DEF r, f, held
    <2>5. /\ raw' \in RawType /\ raw'.st = raw.st /\ ~raw'.start /\ raw'.rsp = r
          /\ raw'.line_valid = raw.line_valid /\ raw'.line = raw.line /\ raw'.error = f
      BY <1>1, <1>3, <2>2, <2>3 DEF RawType
    <2> QED BY <1>1, <1>4, <2>4, <2>5 DEF r, f, held
  <1>5. CASE raw.st = "IDLE" /\ Misses
    <2>1. RawMiss(taken)
      BY <1>5 DEF RawStep, RawIssue, RawFill, Misses
    <2>2. raw' = [raw EXCEPT !.start = FALSE, !.error = f, !.rsp = held,
                     !.miss = request.line, !.line_valid = FALSE, !.st = "ISSUE"]
      BY <2>1 DEF RawMiss
    <2>3. request.line \in Lines BY <1>5, RequestType DEF Misses
    <2>4. line_mem' = line_mem BY <2>1 DEF RawMiss
    <2> HIDE DEF f, held
    <2>5. /\ raw' \in RawType /\ raw'.st = "ISSUE" /\ ~raw'.start /\ raw'.rsp = held
          /\ ~raw'.line_valid /\ raw'.error = f
      BY <1>1, <1>3, <2>2, <2>3 DEF RawType
    <2> QED BY <1>1, <1>5, <2>4, <2>5 DEF f, held
  <1>6. CASE raw.st = "ISSUE"
    <2> DEFINE go == ~read_owner_v /\ rd_ready
               c == IF go THEN 0 ELSE raw.count
               s == IF go THEN "FILL" ELSE "ISSUE"
    <2>1. RawIssue(taken)
      BY <1>6 DEF RawStep, RawMiss, RawIdle, RawFill
    <2>2. raw' = [raw EXCEPT !.start = go, !.error = f, !.rsp = held,
                     !.count = c, !.st = s]
      BY <1>6, <2>1 DEF RawIssue
    <2>3. go \in BOOLEAN /\ c \in Nat /\ s \in {"FILL", "ISSUE"} /\ (go => c = 0)
      BY <1>1 DEF RawType
    <2>4. line_mem' = line_mem BY <2>1 DEF RawIssue
    <2>5. s = IF go THEN "FILL" ELSE "ISSUE" OBVIOUS
    <2> HIDE DEF go, c, s, f, held
    <2>6. /\ raw' \in RawType /\ raw'.st = s /\ raw'.start = go /\ raw'.rsp = held
          /\ raw'.count = c /\ raw'.miss = raw.miss
          /\ raw'.line_valid = raw.line_valid /\ raw'.line = raw.line /\ raw'.error = f
      BY <1>1, <1>3, <2>2, <2>3 DEF RawType
    <2> QED BY <1>1, <1>6, <2>3, <2>4, <2>5, <2>6 DEF go, f, held
  <1>7. CASE raw.st = "FILL"
    <2> DEFINE done == ~read_owner_v /\ rd_done
               c == IF Fetches(rvalid) THEN raw.count + 1 ELSE raw.count
               e == f \/ (done /\ c # LineBeats)
               l == IF done THEN raw.miss ELSE raw.line
               v == raw.line_valid \/ done
               s == IF done THEN "IDLE" ELSE "FILL"
    <2>1. RawFill(taken, rvalid)
      BY <1>7 DEF RawStep, RawMiss, RawIdle, RawIssue
    <2>2. raw' = [raw EXCEPT !.start = FALSE, !.rsp = held, !.count = c, !.error = e,
                             !.line = l, !.line_valid = v, !.st = s]
      BY <1>7, <2>1 DEF RawFill, Fetches
    <2>3. /\ c \in Nat /\ e \in BOOLEAN /\ l \in Lines /\ v \in BOOLEAN
          /\ s \in {"IDLE", "FILL"}
      BY <1>1, <1>3 DEF RawType
    <2>4. DOMAIN line_mem = Positions BY <1>1
    <2>5. line_mem' = IF Fetches(rvalid) /\ raw.count \in Positions
                      THEN [line_mem EXCEPT ![raw.count] = ReadBeat] ELSE line_mem
      BY <2>1, <2>4 DEF RawFill, Fetches
    <2>6. ReadBeat \in BeatType
      BY DEF ReadBeat, Beat, BeatType, TypeOK, MemoryType
    <2>7. line_mem' \in [Positions -> BeatType] BY <1>1, <2>5, <2>6
    <2>8. /\ done => s = "IDLE" /\ v = TRUE /\ l = raw.miss /\ e = (f \/ c # LineBeats)
          /\ ~done => s = "FILL" /\ v = raw.line_valid /\ e = f
      <3>1. raw.line_valid \in BOOLEAN BY <1>1 DEF RawType
      <3>2. done => s = "IDLE" /\ v = TRUE /\ l = raw.miss /\ e = (f \/ c # LineBeats)
        OBVIOUS
      <3>3. ~done => s = "FILL" OBVIOUS
      <3>4. ~done => v = raw.line_valid BY <3>1
      <3>5. ~done => e = f BY <1>3
      <3> QED BY <3>2, <3>3, <3>4, <3>5
    <2>9. c = IF Fetches(rvalid) THEN raw.count + 1 ELSE raw.count OBVIOUS
    <2> HIDE DEF done, c, e, l, v, s, f, held
    <2>10. /\ raw' \in RawType /\ raw'.st = s /\ ~raw'.start /\ raw'.rsp = held
           /\ raw'.count = c /\ raw'.miss = raw.miss /\ raw'.line_valid = v /\ raw'.line = l
           /\ raw'.error = e
      BY <1>1, <1>3, <2>2, <2>3 DEF RawType
    <2>11. /\ done => /\ raw'.st = "IDLE" /\ raw'.line_valid /\ raw'.line = raw.miss
                      /\ raw'.error = (f \/ raw'.count # LineBeats)
           /\ ~done => /\ raw'.st = "FILL" /\ raw'.line_valid = raw.line_valid
                       /\ raw'.error = f
           /\ raw'.count = IF Fetches(rvalid) THEN raw.count + 1 ELSE raw.count
      BY <2>8, <2>9, <2>10
    <2> QED BY <1>7, <2>5, <2>7, <2>10, <2>11 DEF done, f, held
  <1> QED BY <1>1, <1>4, <1>5, <1>6, <1>7 DEF RawType

LEMMA CoreMoves ==
  ASSUME TypeOK, NEW next \in Requests \cup {None}, CoreStep(next)
  PROVE  /\ request' \in Requests \cup {None}
         /\ Accepted => request' = None /\ asked' = request
         /\ ~Accepted => asked' = asked /\ (request # None => request' = request)
         /\ request' # None /\ request' # request => phase = "RUN" /\ request = None
  <1>1. None \in Requests \cup {None} OBVIOUS
  <1>2. /\ next # None => phase = "RUN" /\ request = None
        /\ request' = IF Accepted THEN None ELSE IF next # None THEN next ELSE request
        /\ asked' = IF Accepted THEN request ELSE asked
    BY DEF CoreStep, Accepted
  <1> QED BY <1>1, <1>2 DEF TypeOK
-----------------------------------------------------------------------------
(***************************************************************************)
(* Who waits, and how the beats are counted.                               *)
(***************************************************************************)
LEMMA CountTypes ==
  ASSUME TypeOK PROVE Got \in Nat /\ Base \in Int /\ Total \in Nat /\ Joined \in Nat
  <1>1. Joined \in Nat BY DEF Joined, TypeOK, LoaderType
  <1>2. Line(raw.miss) \in Int BY LineIsInt DEF TypeOK, RawType
  <1> QED BY <1>1, <1>2, Sizes DEF Got, Base, Total, TypeOK, RawType

LEMMA PhaseType ==
  ASSUME TypeOK
  PROVE  /\ phase \in {"IDLE", "LOAD_V", "RUN", "END"}
         /\ loader.st \in {"IDLE", "ISSUE", "STREAM", "FINISH"}
         /\ raw.st \in {"IDLE", "ISSUE", "FILL"}
         /\ master.st \in {"IDLE", "RA_WAIT", "RA_START", "RD_WAIT", "RD_PROC", "DONE"}
  BY DEF TypeOK, LoaderType, RawType, MasterType

\* While the loader streams, its count grows with the beats it takes.
LEMMA StreamCount ==
  ASSUME TypeOK, LoaderData, NEW rvalid \in BOOLEAN, NEW store \in BOOLEAN,
         LoaderStep(rvalid, store), loader.st = "STREAM"
  PROVE  Joined' = Joined + (IF Takes(rvalid) THEN 1 ELSE 0)
  <1>1. /\ loader.index \in 0 .. 1 /\ loader.addr \in Nat
        /\ loader.valid => loader.index = 0
    BY DEF TypeOK, LoaderType, LoaderData
  <1>2. CASE Takes(rvalid)
    <2>1. /\ ~loader.valid /\ loader'.addr = loader.addr
          /\ loader.index = 0 => ~loader'.valid /\ loader'.index = 1
          /\ loader.index = 1 => loader'.valid /\ loader'.index = 0
      BY <1>2, LoaderMoves
    <2> QED BY <1>1, <1>2, <2>1 DEF Joined
  <1>3. CASE ~Takes(rvalid) /\ Stored(store)
    <2>1. /\ loader.valid /\ ~loader'.valid /\ loader'.addr = loader.addr + 1
          /\ loader'.index = loader.index
      BY <1>3, LoaderMoves DEF Stored
    <2> QED BY <1>1, <1>3, <2>1 DEF Joined
  <1>4. CASE ~Takes(rvalid) /\ ~Stored(store)
    <2>1. /\ loader'.valid = loader.valid /\ loader'.addr = loader.addr
          /\ loader'.index = loader.index
      BY <1>4, LoaderMoves
    <2>2. Joined' = Joined BY <2>1 DEF Joined
    <2> QED BY <1>4, <2>2, CountTypes
  <1> QED BY <1>2, <1>3, <1>4

\* Who is awake in which phase.
LEMMA Awake ==
  ASSUME TypeOK, Turns
  PROVE  /\ Streams => read_owner_v /\ raw.st = "IDLE"
         /\ raw.st # "IDLE" => /\ ~read_owner_v /\ phase = "RUN" /\ loader.st = "IDLE"
                               /\ ~v_start /\ ~Streams
         /\ loader.st # "IDLE" => read_owner_v /\ raw.st = "IDLE" /\ ~loader.done
         /\ rd_start => Waits
         /\ read_owner_v => ~Misses /\ ~Accepted /\ raw.st = "IDLE"
  <1>1. raw.st # "IDLE" => phase = "RUN" BY DEF Turns
  <1>2. loader.st # "IDLE" => phase = "LOAD_V" BY DEF Turns
  <1>3. loader.st # "IDLE" => ~loader.done BY DEF Turns
  <1>4. v_start => phase = "LOAD_V" BY DEF Turns
  <1>5. rd_start => v_rd_start \/ raw.start BY DEF rd_start
  <1>6. rd_start => Waits BY <1>5 DEF Turns, Waits, Streams
  <1> QED BY <1>1, <1>2, <1>3, <1>4, <1>6
      DEF Streams, read_owner_v, Misses, Accepted, raw_req_ready

LEMMA ClientMoves ==
  ASSUME TypeOK, Turns, LoaderData,
         NEW start \in BOOLEAN, NEW core_done \in BOOLEAN, NEW rvalid \in BOOLEAN,
         NEW store \in BOOLEAN, NEW taken \in BOOLEAN,
         PhaseStep(start, core_done), LoaderStep(rvalid, store), RawStep(taken, rvalid)
  PROVE  /\ Waits => /\ Base' = Base /\ Total' = Total /\ ~rd_start'
                     /\ Got' = Got + (IF Crosses(rvalid) THEN 1 ELSE 0)
                     /\ Waits' <=> ~rd_done
         /\ ~Waits => (Waits' <=> rd_start') /\ (rd_start' => Got' = 0)
  <1>1. CASE Streams
    <2>1. read_owner_v /\ raw.st = "IDLE" /\ ~loader.done /\ loader.st = "STREAM"
      BY <1>1, Awake DEF Streams
    <2>2. phase' = "LOAD_V" BY <2>1, PhaseMoves DEF read_owner_v
    <2>3. raw'.st = "IDLE" BY <2>1, Awake, RawMoves
    <2>4. /\ ~v_rd_start' /\ loader'.seen = rd_done
          /\ ~rd_done => loader'.st = "STREAM"
      <3>1. Ends = rd_done /\ ~loader.seen BY <1>1, <2>1 DEF Ends, Streams, rd_done
      <3>2. loader'.seen = (loader.seen \/ Ends) BY <2>1, LoaderMoves
      <3>3. ~(loader.seen \/ Ends) => loader'.st = "STREAM" BY <2>1, LoaderMoves
      <3>4. ~v_rd_start' BY <2>1, LoaderMoves
      <3> QED BY <3>1, <3>2, <3>3, <3>4 DEF rd_done
    <2>5. Streams' <=> ~rd_done BY <2>4 DEF Streams
    <2>6. Joined' = Joined + (IF Crosses(rvalid) THEN 1 ELSE 0)
      BY <2>1, StreamCount DEF Takes
    <2>7. Got = Joined /\ Got' = Joined' /\ Base' = Base /\ Total' = Total /\ ~rd_start'
      BY <2>1, <2>2, <2>4 DEF Got, Base, Total, rd_start, read_owner_v
    <2> QED BY <1>1, <2>3, <2>5, <2>6, <2>7 DEF Waits
  <1>2. CASE raw.st = "FILL"
    <2>1. /\ ~read_owner_v /\ phase = "RUN" /\ loader.st = "IDLE" /\ ~v_start /\ ~Streams
          /\ request # None
      BY <1>2, Awake DEF Turns
    <2>2. phase' = "RUN" BY <2>1, PhaseMoves
    <2>3. loader'.st = "IDLE" /\ ~v_rd_start' BY <2>1, LoaderMoves
    <2>4. /\ ~raw'.start /\ raw'.miss = raw.miss
          /\ raw'.count = IF Crosses(rvalid) THEN raw.count + 1 ELSE raw.count
          /\ raw'.st = IF rd_done THEN "IDLE" ELSE "FILL"
      BY <1>2, <2>1, RawMoves DEF Fetches
    <2>5. raw.count \in Nat BY DEF TypeOK, RawType
    <2>6. /\ Got = raw.count /\ Got' = raw'.count /\ Base' = Base /\ Total' = Total
          /\ ~rd_start'
      BY <2>1, <2>2, <2>4 DEF Got, Base, Total, rd_start, read_owner_v, Line
    <2> QED BY <1>2, <2>3, <2>4, <2>5, <2>6 DEF Waits, Streams
  <1>3. CASE ~Waits /\ loader.st # "IDLE"
    <2>1. read_owner_v /\ raw.st = "IDLE" /\ ~loader.done BY <1>3, Awake
    <2>2. phase' = "LOAD_V" BY <2>1, PhaseMoves DEF read_owner_v
    <2>3. raw'.st = "IDLE" BY <2>1, Awake, RawMoves
    <2>4. CASE loader.st = "ISSUE"
      <3>1. /\ loader'.st = IF v_rd_start' THEN "STREAM" ELSE "ISSUE"
            /\ loader'.valid = loader.valid /\ loader'.index = loader.index
            /\ loader'.seen = loader.seen /\ loader'.addr = loader.addr
        BY <2>4, LoaderMoves
      <3>2. ~loader.seen /\ Joined = 0 BY <2>4 DEF LoaderData
      <3>3. Joined' = 0 BY <3>1, <3>2 DEF Joined
      <3>4. rd_start' = v_rd_start' /\ Got' = Joined'
        BY <2>2 DEF rd_start, Got, read_owner_v
      <3>5. Waits' <=> v_rd_start' BY <2>3, <3>1, <3>2 DEF Waits, Streams
      <3> QED BY <1>3, <3>3, <3>4, <3>5
    <2>5. CASE loader.st = "STREAM"
      <3>1. loader'.seen /\ ~v_rd_start'
        BY <1>3, <2>5, LoaderMoves DEF Waits, Streams
      <3> QED BY <1>3, <2>2, <2>3, <3>1 DEF Waits, Streams, rd_start, read_owner_v
    <2>6. CASE loader.st = "FINISH"
      <3>1. loader'.st = "IDLE" /\ ~v_rd_start' BY <2>6, LoaderMoves
      <3> QED BY <1>3, <2>2, <2>3, <3>1 DEF Waits, Streams, rd_start, read_owner_v
    <2> QED BY <1>3, <2>4, <2>5, <2>6, PhaseType
  <1>4. CASE ~Waits /\ loader.st = "IDLE"
    <2>1. ~v_rd_start' /\ loader'.st \in {"IDLE", "ISSUE"} BY <1>4, LoaderMoves
    <2>2. CASE raw.st = "IDLE"
      <3>1. raw'.st # "FILL" /\ ~raw'.start BY <2>2, RawMoves
      <3> QED BY <1>4, <2>1, <3>1 DEF Waits, Streams, rd_start
    <2>3. CASE raw.st = "ISSUE"
      <3>1. phase = "RUN" /\ request # None BY <2>3 DEF Turns
      <3>2. phase' = "RUN" BY <3>1, PhaseMoves
      <3>3. raw'.st = (IF raw'.start THEN "FILL" ELSE "ISSUE") /\ (raw'.start => raw'.count = 0)
        BY <2>3, RawMoves
      <3>4. rd_start' = raw'.start /\ Got' = raw'.count
        BY <3>2 DEF rd_start, Got, read_owner_v
      <3> QED BY <1>4, <2>1, <3>3, <3>4 DEF Waits, Streams
    <2> QED BY <1>4, <2>2, <2>3, PhaseType DEF Waits
  <1> QED BY <1>1, <1>2, <1>3, <1>4 DEF Waits
-----------------------------------------------------------------------------
(***************************************************************************)
(* The bursts.                                                             *)
(***************************************************************************)

\* No more beats come than were asked for.
LEMMA GotBound ==
  ASSUME TypeOK, Channel, Waits
  PROVE  Got <= Total /\ (memory.left > 0 => Got < Total)
  <1>1. /\ Got \in Nat /\ Total \in Nat /\ Burst \in Nat /\ memory.left \in Nat
        /\ master.len \in Nat /\ master.rlen \in Nat
    BY CountTypes, Sizes DEF TypeOK, MemoryType, MasterType
  <1>2. memory.left > 0 <=> master.st = "RD_PROC" BY DEF Channel
  <1>3. CASE master.st = "IDLE" BY <1>1, <1>2, <1>3 DEF Channel
  <1>4. CASE master.st \in {"RA_WAIT", "RA_START"} BY <1>1, <1>2, <1>4 DEF Channel, Asking
  <1>5. CASE master.st = "RD_WAIT" BY <1>1, <1>2, <1>5 DEF Channel, Offering
  <1>6. CASE master.st = "RD_PROC" BY <1>1, <1>2, <1>6 DEF Channel, Taking
  <1>7. CASE master.st = "DONE" BY <1>1, <1>2, <1>7 DEF Channel
  <1> QED BY <1>3, <1>4, <1>5, <1>6, <1>7, PhaseType

LEMMA ChannelStep ==
  ASSUME TypeOK, Turns, LoaderData, Channel,
         NEW start \in BOOLEAN, NEW core_done \in BOOLEAN, NEW rvalid \in BOOLEAN,
         NEW store \in BOOLEAN, NEW taken \in BOOLEAN, NEW arready \in BOOLEAN,
         NEW bad \in BOOLEAN,
         PhaseStep(start, core_done), LoaderStep(rvalid, store), RawStep(taken, rvalid),
         MemoryStep(arready, rvalid), MasterStep(arready, rvalid, bad)
  PROVE  Channel'
  <1>1. /\ Got \in Nat /\ Base \in Int /\ Total \in Nat /\ Burst \in Nat \ {0}
        /\ memory.left \in Nat /\ memory.adrs \in Int
        /\ master.len \in Nat /\ master.rlen \in Nat /\ master.adrs \in Int
        /\ master.last \in BOOLEAN
    BY CountTypes, Sizes DEF TypeOK, MemoryType, MasterType
  <1>2. /\ Waits => /\ Base' = Base /\ Total' = Total /\ ~rd_start'
                    /\ Got' = Got + (IF Crosses(rvalid) THEN 1 ELSE 0)
                    /\ Waits' <=> ~rd_done
        /\ ~Waits => (Waits' <=> rd_start') /\ (rd_start' => Got' = 0)
    BY ClientMoves
  <1>3. /\ rvalid => memory.left > 0
        /\ master.arvalid /\ arready =>
                memory'.adrs = master.adrs /\ memory'.left = master.rlen + 1
        /\ ~(master.arvalid /\ arready) /\ Crosses(rvalid) =>
                memory'.adrs = memory.adrs + 1 /\ memory'.left = memory.left - 1
        /\ ~(master.arvalid /\ arready) /\ ~Crosses(rvalid) => memory' = memory
    BY MemoryMoves
  <1>4. /\ memory.left > 0 <=> master.st = "RD_PROC"
        /\ master.arvalid <=> master.st = "RD_WAIT"
        /\ master.st = "IDLE" <=> (~Waits \/ rd_start)
        /\ rd_start => Waits /\ Got = 0
    BY DEF Channel
  <1>5. master.st # "RD_PROC" => ~Crosses(rvalid) BY <1>3, <1>4 DEF Crosses
  <1>6. rd_done <=> master.st = "DONE" BY DEF rd_done
  \* Away from RD_WAIT and RD_PROC the memory rests.
  <1>7. master.st \notin {"RD_WAIT", "RD_PROC"} => memory' = memory /\ ~(memory.left > 0)
    BY <1>3, <1>4, <1>5
  <1>8. CASE master.st = "IDLE"
    <2>1. memory' = memory /\ ~(memory.left > 0) BY <1>7, <1>8
    <2>2. CASE ~Waits
      <3>1. ~rd_start BY <1>4, <2>2
      <3>2. master'.st = "IDLE" /\ ~master'.arvalid BY <1>8, <3>1, MasterMoves
      <3> QED BY <1>2, <2>1, <2>2, <3>2 DEF Channel, Asking, Offering, Taking
    <2>3. CASE Waits
      <3>1. rd_start /\ Got = 0 BY <1>4, <1>8, <2>3
      <3>2. /\ master'.st = "RA_WAIT" /\ ~master'.arvalid
            /\ master'.adrs = rd_adrs /\ master'.len = rd_len - 1
        BY <1>8, <3>1, MasterMoves
      <3>3. rd_adrs = Base /\ rd_len = Total BY DEF rd_adrs, rd_len, Base, Total
      <3>4. Got' = 0 /\ Base' = Base /\ Total' = Total /\ ~rd_start' /\ Waits'
        BY <1>2, <1>5, <1>6, <1>8, <2>3, <3>1
      <3>5. Asking' BY <1>1, <3>2, <3>3, <3>4 DEF Asking
      <3> QED BY <2>1, <3>2, <3>4, <3>5 DEF Channel, Offering, Taking
    <2> QED BY <2>2, <2>3
  <1>9. master.st # "IDLE" => Waits /\ ~rd_start BY <1>4
  <1>10. CASE master.st \in {"RA_WAIT", "RA_START"}
    <2>1. memory' = memory /\ ~(memory.left > 0) BY <1>7, <1>10
    <2>2. Got' = Got /\ Base' = Base /\ Total' = Total /\ ~rd_start' /\ Waits'
      BY <1>1, <1>2, <1>5, <1>6, <1>9, <1>10
    <2>3. master.adrs = Base + Got /\ master.len + Got + 1 = Total
      BY <1>10 DEF Channel, Asking
    <2>4. ~master.arvalid BY <1>4, <1>10
    <2>5. CASE master.st = "RA_WAIT"
      <3>1. /\ master'.st \in {"RA_WAIT", "RA_START"} /\ ~master'.arvalid
            /\ master'.adrs = master.adrs /\ master'.len = master.len
        BY <2>4, <2>5, MasterMoves
      <3>2. Asking' BY <2>2, <2>3, <3>1 DEF Asking
      <3> QED BY <2>1, <2>2, <3>1, <3>2 DEF Channel, Offering, Taking
    <2>6. CASE master.st = "RA_START"
      <3>1. /\ master'.st = "RD_WAIT" /\ master'.arvalid /\ master'.adrs = master.adrs
            /\ master.len < Burst => master'.last /\ master'.rlen = master.len
            /\ master.len >= Burst => /\ ~master'.last /\ master'.rlen = Burst - 1
                                      /\ master'.len = master.len - Burst
        BY <2>6, MasterMoves
      <3>2. Offering' BY <1>1, <2>2, <2>3, <3>1 DEF Offering
      <3> QED BY <2>1, <2>2, <3>1, <3>2 DEF Channel, Asking, Taking
    <2> QED BY <1>10, <2>5, <2>6
  <1>11. CASE master.st = "RD_WAIT"
    <2>1. Got' = Got /\ Base' = Base /\ Total' = Total /\ ~rd_start' /\ Waits'
      BY <1>1, <1>2, <1>5, <1>6, <1>9, <1>11
    <2>2. /\ master.adrs = Base + Got
          /\ master.last => master.rlen + Got + 1 = Total
          /\ ~master.last => master.rlen + 1 = Burst /\ master.len + Burst + Got + 1 = Total
      BY <1>11 DEF Channel, Offering
    <2>3. master.arvalid /\ ~(memory.left > 0) /\ ~Crosses(rvalid) BY <1>4, <1>5, <1>11
    <2>4. CASE arready
      <3>1. /\ master'.st = "RD_PROC" /\ ~master'.arvalid /\ master'.last = master.last
            /\ master'.len = master.len /\ master'.adrs = master.adrs
        BY <1>11, <2>4, MasterMoves
      <3>2. memory'.adrs = master.adrs /\ memory'.left = master.rlen + 1
        BY <1>3, <2>3, <2>4
      <3>3. memory'.left > 0 BY <1>1, <3>2
      <3>4. Taking' BY <1>1, <2>1, <2>2, <3>1, <3>2 DEF Taking
      <3> QED BY <2>1, <3>1, <3>3, <3>4 DEF Channel, Asking, Offering
    <2>5. CASE ~arready
      <3>1. master' = master /\ memory' = memory
        BY <1>3, <1>11, <2>3, <2>5, MasterMoves
      <3>2. Offering' BY <2>1, <2>2, <3>1 DEF Offering
      <3> QED BY <1>11, <2>1, <2>3, <3>1, <3>2 DEF Channel, Asking, Taking
    <2> QED BY <2>4, <2>5
  <1>12. CASE master.st = "RD_PROC"
    <2>1. /\ Base' = Base /\ Total' = Total /\ ~rd_start' /\ Waits'
          /\ Crosses(rvalid) => Got' = Got + 1
          /\ ~Crosses(rvalid) => Got' = Got
      BY <1>1, <1>2, <1>6, <1>9, <1>12
    <2>2. /\ memory.adrs = Base + Got
          /\ master.last => memory.left + Got = Total
          /\ ~master.last => /\ memory.left + master.len + Got + 1 = Total
                             /\ master.adrs + Burst = memory.adrs + memory.left
      BY <1>12 DEF Channel, Taking
    <2>3. ~master.arvalid /\ memory.left > 0 BY <1>4, <1>12
    <2>4. CASE ~Crosses(rvalid)
      <3>1. master' = master /\ memory' = memory
        BY <1>3, <1>12, <2>3, <2>4, MasterMoves
      <3>2. Taking' BY <2>1, <2>2, <2>4, <3>1 DEF Taking
      <3> QED BY <1>12, <2>1, <2>3, <3>1, <3>2 DEF Channel, Asking, Offering
    <2>5. CASE Crosses(rvalid) /\ ~RLast
      <3>1. master' = master BY <1>12, <2>5, MasterMoves
      <3>2. memory'.adrs = memory.adrs + 1 /\ memory'.left = memory.left - 1
        BY <1>3, <2>3, <2>5
      <3>3. memory'.left > 0 BY <1>1, <2>3, <2>5, <3>2 DEF RLast
      <3>4. Taking' BY <1>1, <2>1, <2>2, <2>5, <3>1, <3>2 DEF Taking
      <3> QED BY <1>12, <2>1, <2>3, <3>1, <3>3, <3>4 DEF Channel, Asking, Offering
    <2>6. CASE Crosses(rvalid) /\ RLast
      <3>1. /\ ~master'.arvalid /\ master'.len = master.len
            /\ master.last => master'.st = "DONE"
            /\ ~master.last => master'.st = "RA_WAIT" /\ master'.adrs = master.adrs + Burst
        BY <1>12, <2>3, <2>6, MasterMoves
      <3>2. memory.left = 1 /\ ~(memory'.left > 0) BY <1>3, <2>3, <2>6 DEF RLast
      <3>3. CASE master.last
        <4>1. master'.st = "DONE" /\ Got' = Total' BY <1>1, <2>1, <2>2, <2>6, <3>1, <3>2, <3>3
        <4> QED BY <2>1, <3>1, <3>2, <4>1 DEF Channel, Asking, Offering, Taking
      <3>4. CASE ~master.last
        <4>1. master'.st = "RA_WAIT" /\ master'.adrs = master.adrs + Burst BY <3>1, <3>4
        <4>2. Asking' BY <1>1, <2>1, <2>2, <2>6, <3>1, <3>2, <3>4, <4>1 DEF Asking
        <4> QED BY <2>1, <3>1, <3>2, <4>1, <4>2 DEF Channel, Offering, Taking
      <3> QED BY <3>3, <3>4
    <2> QED BY <2>4, <2>5, <2>6
  <1>13. CASE master.st = "DONE"
    <2>1. memory' = memory /\ ~(memory.left > 0) BY <1>7, <1>13
    <2>2. ~rd_start' /\ ~Waits' BY <1>2, <1>6, <1>9, <1>13
    <2>3. master'.st = "IDLE" /\ ~master'.arvalid BY <1>4, <1>13, MasterMoves
    <2> QED BY <2>1, <2>2, <2>3 DEF Channel, Asking, Offering, Taking
  <1> QED BY <1>8, <1>10, <1>11, <1>12, <1>13, PhaseType
-----------------------------------------------------------------------------
(***************************************************************************)
(* The turns of the clients.                                               *)
(***************************************************************************)
LEMMA TurnsStep ==
  ASSUME TypeOK, Turns, LoaderData,
         NEW start \in BOOLEAN, NEW core_done \in BOOLEAN, NEW rvalid \in BOOLEAN,
         NEW store \in BOOLEAN, NEW taken \in BOOLEAN, NEW next \in Requests \cup {None},
         PhaseStep(start, core_done), LoaderStep(rvalid, store), RawStep(taken, rvalid),
         CoreStep(next), next # None => ~core_done
  PROVE  Turns'
  <1>1. v_start' => /\ phase' = "LOAD_V" /\ loader'.st = "IDLE" /\ ~loader'.done
    <2> SUFFICES ASSUME v_start' PROVE phase' = "LOAD_V" /\ loader'.st = "IDLE" /\ ~loader'.done
      OBVIOUS
    <2>1. phase = "IDLE" /\ phase' = "LOAD_V" BY PhaseMoves
    <2>2. loader.st = "IDLE" /\ ~v_start BY <2>1 DEF Turns
    <2> QED BY <2>1, <2>2, LoaderMoves
  <1>2. loader'.st # "IDLE" \/ loader'.done => phase' = "LOAD_V"
    <2>1. CASE loader.st = "IDLE"
      <3>1. loader'.st # "IDLE" \/ loader'.done => v_start BY <2>1, LoaderMoves
      <3>2. v_start => phase = "LOAD_V" /\ ~loader.done BY DEF Turns
      <3> QED BY <3>1, <3>2, PhaseMoves
    <2>2. CASE loader.st # "IDLE"
      <3>1. phase = "LOAD_V" /\ ~loader.done BY <2>2 DEF Turns
      <3> QED BY <3>1, PhaseMoves
    <2> QED BY <2>1, <2>2
  <1>3. loader'.done => loader'.st = "IDLE"
    <2>1. loader.st \in {"ISSUE", "STREAM"} => ~loader.done /\ loader'.done = loader.done
      BY LoaderMoves DEF Turns
    <2>2. loader.st \in {"IDLE", "FINISH"} => (loader'.done => loader'.st = "IDLE")
      BY LoaderMoves
    <2> QED BY <2>1, <2>2, PhaseType
  <1>4. v_rd_start' => loader'.st = "STREAM" /\ ~loader'.seen
    <2>1. loader.st # "ISSUE" => ~v_rd_start' BY PhaseType, LoaderMoves
    <2>2. loader.st = "ISSUE" /\ v_rd_start' => loader'.st = "STREAM" /\ ~loader'.seen
      BY LoaderMoves DEF LoaderData
    <2> QED BY <2>1, <2>2
  <1>5. request' # None => phase' = "RUN"
    <2> SUFFICES ASSUME request' # None PROVE phase' = "RUN" OBVIOUS
    <2>1. CASE request # None
      <3>1. phase = "RUN" BY <2>1 DEF Turns
      <3> QED BY <2>1, <3>1, PhaseMoves
    <2>2. CASE request = None
      <3>1. next # None /\ phase = "RUN"
        BY <2>2 DEF CoreStep
      <3>2. ~core_done BY <3>1
      <3> QED BY <3>1, <3>2, PhaseMoves
    <2> QED BY <2>1, <2>2
  <1>6. raw'.st # "IDLE" => request' # None /\ ~raw'.line_valid
    <2>1. CASE raw.st = "IDLE" /\ ~Misses BY <2>1, RawMoves
    <2>2. CASE raw.st = "IDLE" /\ Misses
      <3>1. ~Accepted /\ request # None BY <2>2 DEF Misses, Accepted, raw_req_ready
      <3> QED BY <2>2, <3>1, RawMoves, CoreMoves
    <2>3. CASE raw.st # "IDLE"
      <3>1. ~Accepted /\ request # None /\ ~raw.line_valid
        BY <2>3 DEF Turns, Accepted, raw_req_ready
      <3>2. request' # None BY <3>1, CoreMoves
      <3>3. raw'.st # "IDLE" => raw'.line_valid = raw.line_valid
        BY <2>3, PhaseType, RawMoves
      <3> QED BY <3>1, <3>2, <3>3
    <2> QED BY <2>1, <2>2, <2>3
  <1>7. raw'.start => raw'.st = "FILL" BY PhaseType, RawMoves
  <1>8. phase' = "IDLE" => ~raw'.line_valid /\ raw'.rsp = Nothing
    <2> SUFFICES ASSUME phase' = "IDLE" PROVE ~raw'.line_valid /\ raw'.rsp = Nothing
      OBVIOUS
    <2>1. phase = "IDLE" BY PhaseMoves
    <2>2. raw.st = "IDLE" /\ request = None /\ ~raw.line_valid /\ raw.rsp = Nothing
      BY <2>1 DEF Turns
    <2>3. ~Misses /\ ~Accepted BY <2>2 DEF Misses, Accepted
    <2>4. Held(taken) = Nothing BY <2>2 DEF Held, Nothing
    <2> QED BY <2>2, <2>3, <2>4, RawMoves
  <1> QED BY <1>1, <1>2, <1>3, <1>4, <1>5, <1>6, <1>7, <1>8 DEF Turns
-----------------------------------------------------------------------------
(***************************************************************************)
(* Where the beats are put.                                                *)
(***************************************************************************)

\* A beat that crosses the channel is the next one of the owner.
LEMMA NextBeat ==
  ASSUME TypeOK, Channel, NEW rvalid \in BOOLEAN, NEW arready \in BOOLEAN,
         MemoryStep(arready, rvalid), Crosses(rvalid)
  PROVE  Waits /\ master.st = "RD_PROC" /\ ReadBeat = Beat(Base + Got) /\ Got < Total
  <1>1. memory.left > 0 BY MemoryMoves DEF Crosses
  <1>2. master.st = "RD_PROC" /\ Waits BY <1>1 DEF Channel
  <1>3. memory.adrs = Base + Got BY <1>2 DEF Channel, Taking
  <1> QED BY <1>1, <1>2, <1>3, GotBound DEF ReadBeat

LEMMA LoaderDataStep ==
  ASSUME TypeOK, Turns, LoaderData, Channel,
         NEW rvalid \in BOOLEAN, NEW store \in BOOLEAN, NEW arready \in BOOLEAN,
         LoaderStep(rvalid, store), MemoryStep(arready, rvalid), run' = run
  PROVE  LoaderData'
  <1>1. /\ loader.index \in 0 .. 1 /\ loader.addr \in Nat /\ loader.hold \in VectorType
        /\ loader'.hold \in VectorType /\ loader.valid \in BOOLEAN
        /\ VBeats \in Nat /\ VBeats % 2 = 0
    BY LoaderMoves, Sizes DEF TypeOK, LoaderType
  <1>2. /\ \A x : Beat(x)' = Beat(x)
        /\ \A a : VectorAt(a)' = VectorAt(a)
    BY DEF Beat, VectorAt
  <1>3. CASE loader.st = "IDLE"
    <2>1. /\ loader'.st \in {"IDLE", "ISSUE"} /\ ~loader'.valid /\ loader'.index = 0
          /\ ~loader'.seen /\ loader'.addr = 0 /\ ~loader'.done
      BY <1>3, LoaderMoves
    <2>2. Joined' = 0 BY <2>1 DEF Joined
    <2> QED BY <2>1, <2>2 DEF LoaderData
  <1>4. CASE loader.st = "ISSUE"
    <2>1. /\ loader'.st \in {"STREAM", "ISSUE"}
          /\ loader'.valid = loader.valid /\ loader'.index = loader.index
          /\ loader'.seen = loader.seen /\ loader'.addr = loader.addr
          /\ loader'.done = loader.done
      BY <1>4, LoaderMoves
    <2>2. ~loader.done BY <1>4 DEF Turns
    <2>3. ~loader.seen /\ Joined = 0 /\ loader.addr = 0 BY <1>4 DEF LoaderData
    <2>4. ~loader.valid /\ loader.index = 0 BY <1>1, <2>3 DEF Joined
    <2>5. Joined' = 0 BY <2>1, <2>3 DEF Joined
    <2>6. \A a \in Vectors : ~(a < loader'.addr) BY <2>1, <2>3 DEF Vectors
    <2> QED BY <2>1, <2>2, <2>3, <2>4, <2>5, <2>6 DEF LoaderData
  <1>5. CASE loader.st = "STREAM"
    <2>1. read_owner_v /\ ~loader.done /\ raw.st = "IDLE" BY <1>5, Awake
    <2>2. loader'.st \in {"STREAM", "FINISH"} /\ ~loader'.done
      <3>1. loader'.done = loader.done BY <1>5, LoaderMoves
      <3> QED BY <1>5, <2>1, <3>1, LoaderMoves
    <2>3. Joined' = Joined + (IF Takes(rvalid) THEN 1 ELSE 0) BY <1>5, StreamCount
    <2>4. /\ loader.valid => loader.index = 0 /\ loader.hold = VectorAt(loader.addr)
          /\ loader.index = 1 => loader.hold[0] = Beat(loader.addr * 2)
          /\ \A a \in Vectors : a < loader.addr => vcache[a] = VectorAt(a)
          /\ loader.seen => Joined = VBeats
      BY <1>5 DEF LoaderData
    <2>5. Joined \in Nat /\ Got = Joined /\ Total = VBeats /\ Base = 0
      BY <2>1, CountTypes DEF Got, Total, Base
    <2>6. Takes(rvalid) => /\ ReadBeat = Beat(Joined) /\ ~loader.seen
                           /\ master.st = "RD_PROC"
      <3> SUFFICES ASSUME Takes(rvalid)
                   PROVE  ReadBeat = Beat(Joined) /\ ~loader.seen /\ master.st = "RD_PROC"
        OBVIOUS
      <3>1. Crosses(rvalid) BY DEF Takes
      <3>2. Waits /\ ReadBeat = Beat(Base + Got) /\ master.st = "RD_PROC" BY <3>1, NextBeat
      <3> QED BY <2>1, <2>5, <3>2 DEF Waits, Streams
    \* The count is complete once the end of the request is seen.
    <2>7. loader.seen \/ Ends => Joined = VBeats /\ ~Takes(rvalid)
      <3>1. Ends => master.st = "DONE" BY DEF Ends, rd_done
      <3>2. master.st = "DONE" => Got = Total BY DEF Channel
      <3> QED BY <2>4, <2>5, <2>6, <3>1, <3>2
    <2>8. loader'.seen => Joined' = VBeats
      <3>1. loader'.seen = (loader.seen \/ Ends) BY <1>5, LoaderMoves
      <3>2. (loader.seen \/ Ends) => Joined' = Joined BY <2>3, <2>5, <2>7
      <3> QED BY <2>7, <3>1, <3>2
    <2>9. loader'.st = "FINISH" => loader'.addr * 2 = VBeats
      <3> SUFFICES ASSUME loader'.st = "FINISH" PROVE loader'.addr * 2 = VBeats
        OBVIOUS
      <3>1. (loader.seen \/ Ends) /\ ~loader.valid /\ ~Takes(rvalid) BY <1>5, LoaderMoves
      <3>2. loader'.addr = loader.addr BY <1>5, <3>1, LoaderMoves DEF Stored
      <3>3. loader.addr * 2 + loader.index = VBeats BY <2>7, <3>1 DEF Joined
      <3>4. loader.index = 0 BY <1>1, <3>3
      <3> QED BY <1>1, <3>2, <3>3, <3>4
    <2>10. /\ loader'.valid => loader'.index = 0 /\ loader'.hold = VectorAt(loader'.addr)
           /\ loader'.index = 1 => loader'.hold[0] = Beat(loader'.addr * 2)
      <3>1. CASE Takes(rvalid)
        <4>1. /\ ~loader.valid /\ loader'.addr = loader.addr
              /\ loader.index = 0 => /\ ~loader'.valid /\ loader'.index = 1
                                     /\ loader'.hold[0] = ReadBeat
              /\ loader.index = 1 => /\ loader'.valid /\ loader'.index = 0
                                     /\ loader'.hold[0] = loader.hold[0]
                                     /\ loader'.hold[1] = ReadBeat
          BY <1>5, <3>1, LoaderMoves
        <4>2. Joined = loader.addr * 2 + loader.index BY <4>1 DEF Joined
        <4>3. CASE loader.index = 0
          <5>1. Joined = loader.addr * 2 BY <1>1, <4>2, <4>3
          <5>2. loader'.hold[0] = Beat(loader'.addr * 2)
            BY <2>6, <3>1, <4>1, <4>3, <5>1
          <5> QED BY <4>1, <4>3, <5>2
        <4>4. CASE loader.index = 1
          <5>1. loader'.hold[0] = Beat(loader.addr * 2 + 0)
            <6>1. loader.addr * 2 + 0 = loader.addr * 2 BY <1>1
            <6> QED BY <2>4, <4>1, <4>4, <6>1
          <5>2. loader'.hold[1] = Beat(loader.addr * 2 + 1)
            BY <2>6, <3>1, <4>1, <4>2, <4>4
          <5>3. \A i \in 0 .. 1 : loader'.hold[i] = Beat(loader.addr * 2 + i)
            <6>1. 0 .. 1 = {0, 1} OBVIOUS
            <6> QED BY <5>1, <5>2, <6>1
          <5>4. loader'.hold = VectorAt(loader.addr)
            <6>1. loader'.hold \in [0 .. 1 -> BeatType] BY <1>1 DEF VectorType
            <6>2. loader'.hold = [i \in 0 .. 1 |-> loader'.hold[i]] BY <6>1
            <6> QED BY <5>3, <6>2 DEF VectorAt
          <5> QED BY <4>1, <4>4, <5>4
        <4> QED BY <1>1, <4>3, <4>4
      <3>2. CASE ~Takes(rvalid)
        <4>1. loader'.index = loader.index /\ loader'.hold = loader.hold
          BY <1>5, <3>2, LoaderMoves
        <4>2. CASE Stored(store)
          <5>1. ~loader'.valid /\ loader.valid BY <1>5, <3>2, <4>2, LoaderMoves DEF Stored
          <5> QED BY <2>4, <4>1, <5>1
        <4>3. CASE ~Stored(store)
          <5>1. loader'.valid = loader.valid /\ loader'.addr = loader.addr
            BY <1>5, <3>2, <4>3, LoaderMoves
          <5> QED BY <2>4, <4>1, <5>1
        <4> QED BY <4>2, <4>3
      <3> QED BY <3>1, <3>2
    <2>11. \A a \in Vectors : a < loader'.addr => vcache'[a] = VectorAt(a)
      <3>1. CASE ~Takes(rvalid) /\ Stored(store)
        <4>1. loader.valid BY <3>1 DEF Stored
        <4>2. Joined = loader.addr * 2 + 2 BY <4>1 DEF Joined
        <4>3. Joined <= VBeats
          <5>1. CASE loader.seen BY <1>1, <2>4, <5>1
          <5>2. CASE ~loader.seen
            <6>1. Waits BY <1>5, <5>2 DEF Waits, Streams
            <6> QED BY <2>5, <6>1, GotBound
          <5> QED BY <5>1, <5>2
        <4>4. loader.addr \in Vectors BY <1>1, <4>2, <4>3, VectorNumbers
        <4>5. /\ loader'.addr = loader.addr + 1
              /\ vcache' = [vcache EXCEPT ![loader.addr] = VectorAt(loader.addr)]
          BY <1>5, <2>4, <3>1, <4>1, <4>4, LoaderMoves
        <4>6. DOMAIN vcache = Vectors BY DEF TypeOK, CacheType
        <4>7. ASSUME NEW a \in Vectors, a < loader'.addr PROVE vcache'[a] = VectorAt(a)
          <5>1. CASE a = loader.addr BY <4>5, <4>6, <5>1
          <5>2. CASE a # loader.addr
            <6>1. a < loader.addr BY <1>1, <4>5, <4>7, <5>2 DEF Vectors
            <6> QED BY <2>4, <4>5, <4>6, <5>2, <6>1
          <5> QED BY <5>1, <5>2
        <4> QED BY <4>7
      <3>2. CASE Takes(rvalid) \/ ~Stored(store)
        <4>1. loader'.addr = loader.addr /\ vcache' = vcache BY <1>5, <3>2, LoaderMoves
        <4> QED BY <2>4, <4>1
      <3> QED BY <3>1, <3>2
    <2> QED BY <1>2, <2>2, <2>8, <2>9, <2>10, <2>11 DEF LoaderData
  <1>6. CASE loader.st = "FINISH"
    <2>1. loader'.st = "IDLE" /\ vcache' = vcache /\ loader'.addr = loader.addr
      BY <1>6, LoaderMoves
    <2>2. /\ loader.addr * 2 = VBeats
          /\ \A a \in Vectors : a < loader.addr => vcache[a] = VectorAt(a)
      BY <1>6 DEF LoaderData
    <2> QED BY <1>2, <2>1, <2>2 DEF LoaderData
  <1> QED BY <1>3, <1>4, <1>5, <1>6, PhaseType

LEMMA RawDataStep ==
  ASSUME TypeOK, Turns, RawData, Channel,
         NEW rvalid \in BOOLEAN, NEW taken \in BOOLEAN, NEW arready \in BOOLEAN,
         NEW next \in Requests \cup {None},
         RawStep(taken, rvalid), MemoryStep(arready, rvalid), CoreStep(next), run' = run
  PROVE  RawData'
  <1>1. /\ raw.count \in Nat /\ LineBeats \in Nat /\ raw.line \in Lines /\ raw.miss \in Lines
        /\ line_mem \in [Positions -> BeatType]
    BY Sizes DEF TypeOK, RawType
  <1>2. /\ \A x : Beat(x)' = Beat(x)
        /\ \A l : Line(l)' = Line(l)
    BY DEF Beat, Line
  \* An answer that is held is still the answer.
  <1>3. ASSUME ~Accepted, raw'.rsp = Held(taken) PROVE Answered'
    <2>1. asked' = asked BY <1>3, CoreMoves
    <2>2. raw'.rsp = Nothing \/ raw'.rsp = raw.rsp BY <1>3 DEF Held, Nothing
    <2>3. Answered BY DEF RawData
    <2>4. CASE raw'.rsp = Nothing BY <2>4 DEF Answered
    <2>5. CASE raw'.rsp = raw.rsp
      BY <1>2, <2>1, <2>3, <2>5 DEF Answered
    <2> QED BY <2>2, <2>4, <2>5
  <1>4. CASE raw.st = "IDLE" /\ ~Misses
    <2>1. /\ raw'.st = "IDLE" /\ line_mem' = line_mem
          /\ raw'.line_valid = raw.line_valid /\ raw'.line = raw.line
          /\ raw'.rsp = IF Accepted THEN Answer ELSE Held(taken)
      BY <1>4, RawMoves
    <2>2. Answered'
      <3>1. CASE ~Accepted BY <1>3, <2>1, <3>1
      <3>2. CASE Accepted
        <4>1. /\ raw.line_valid /\ request.line = raw.line /\ request # None
          BY <3>2 DEF Accepted, raw_req_ready, line_match
        <4>2. /\ request.pair \in Positions /\ request.pair + Half \in Positions
              /\ request.pair \in 0 .. Half - 1
          BY <4>1, RequestType
        <4>3. /\ line_mem[request.pair] = Beat(Line(request.line) + request.pair)
              /\ line_mem[request.pair + Half]
                    = Beat(Line(request.line) + (request.pair + Half))
          BY <4>1, <4>2 DEF RawData
        <4>4. Line(request.line) + (request.pair + Half) = Line(request.line) + request.pair + Half
          BY <1>1, <4>1, <4>2, LineIsInt, Sizes
        <4>5. asked' = request BY <3>2, CoreMoves
        <4>6. raw'.rsp = <<Beat(Line(request.line) + request.pair),
                           Beat(Line(request.line) + request.pair + Half)>>
          BY <2>1, <3>2, <4>3, <4>4 DEF Answer
        <4> QED BY <1>2, <4>5, <4>6 DEF Answered, Half
      <3> QED BY <3>1, <3>2
    <2> QED BY <1>2, <2>1, <2>2 DEF RawData
  <1>5. CASE raw.st = "IDLE" /\ Misses
    <2>1. raw'.st = "ISSUE" /\ ~raw'.line_valid /\ raw'.rsp = Held(taken)
      BY <1>5, RawMoves
    <2>2. ~Accepted BY <1>5 DEF Misses, Accepted, raw_req_ready
    <2> QED BY <1>3, <2>1, <2>2 DEF RawData
  <1>6. CASE raw.st = "ISSUE"
    <2>1. /\ raw'.st = IF raw'.start THEN "FILL" ELSE "ISSUE"
          /\ raw'.start => raw'.count = 0
          /\ raw'.line_valid = raw.line_valid /\ raw'.rsp = Held(taken)
      BY <1>6, RawMoves
    <2>2. ~Accepted /\ ~raw.line_valid BY <1>6 DEF Turns, Accepted, raw_req_ready
    <2>3. raw'.st = "FILL" => \A i \in Positions : ~(i < raw'.count)
      BY <2>1 DEF Positions
    <2> QED BY <1>3, <2>1, <2>2, <2>3 DEF RawData
  <1>7. CASE raw.st = "FILL"
    <2>1. ~read_owner_v /\ ~Accepted /\ ~raw.line_valid
      BY <1>7, Awake DEF Turns, Accepted, raw_req_ready
    <2>2. /\ raw'.rsp = Held(taken) /\ raw'.miss = raw.miss
          /\ raw'.count = IF Fetches(rvalid) THEN raw.count + 1 ELSE raw.count
          /\ rd_done => raw'.st = "IDLE" /\ raw'.line = raw.miss
          /\ ~rd_done => raw'.st = "FILL" /\ raw'.line_valid = raw.line_valid
          /\ line_mem' = IF Fetches(rvalid) /\ raw.count \in Positions
                         THEN [line_mem EXCEPT ![raw.count] = ReadBeat] ELSE line_mem
      BY <1>7, <2>1, RawMoves
    <2>3. Got = raw.count /\ Total = LineBeats /\ Base = Line(raw.miss)
      BY <2>1 DEF Got, Total, Base
    <2>4. Fetches(rvalid) => /\ ReadBeat = Beat(Line(raw.miss) + raw.count)
                             /\ raw.count \in Positions /\ ~rd_done
      <3> SUFFICES ASSUME Fetches(rvalid)
                   PROVE  /\ ReadBeat = Beat(Line(raw.miss) + raw.count)
                          /\ raw.count \in Positions /\ ~rd_done
        OBVIOUS
      <3>1. Crosses(rvalid) BY DEF Fetches
      <3>2. ReadBeat = Beat(Base + Got) /\ Got < Total /\ master.st = "RD_PROC"
        BY <3>1, NextBeat
      <3> QED BY <1>1, <2>3, <3>2 DEF Positions, rd_done
    <2>5. \A i \in Positions : i < raw.count => line_mem[i] = Beat(Line(raw.miss) + i)
      BY <1>7 DEF RawData
    <2>6. ASSUME NEW i \in Positions, i < raw'.count
          PROVE  line_mem'[i] = Beat(Line(raw.miss) + i)
      <3>1. CASE Fetches(rvalid)
        <4>1. /\ raw'.count = raw.count + 1
              /\ line_mem' = [line_mem EXCEPT ![raw.count] = Beat(Line(raw.miss) + raw.count)]
          BY <2>2, <2>4, <3>1
        <4>2. CASE i = raw.count BY <1>1, <4>1, <4>2
        <4>3. CASE i # raw.count
          <5>1. i < raw.count BY <1>1, <2>6, <4>1, <4>3 DEF Positions
          <5> QED BY <1>1, <2>5, <4>1, <4>3, <5>1
        <4> QED BY <4>2, <4>3
      <3>2. CASE ~Fetches(rvalid)
        <4>1. raw'.count = raw.count /\ line_mem' = line_mem BY <2>2, <3>2
        <4> QED BY <2>5, <2>6, <4>1
      <3> QED BY <3>1, <3>2
    <2>7. Answered' BY <1>3, <2>1, <2>2
    <2>8. CASE rd_done
      <3>1. master.st = "DONE" BY <2>8 DEF rd_done
      <3>2. Got = Total BY <3>1 DEF Channel
      <3>3. raw'.count = LineBeats BY <2>2, <2>3, <2>4, <2>8, <3>2
      <3>4. \A i \in Positions : i < raw'.count BY <1>1, <3>3 DEF Positions
      <3>5. \A i \in Positions : line_mem'[i] = Beat(Line(raw'.line) + i)
        BY <2>2, <2>6, <2>8, <3>4
      <3> QED BY <1>2, <2>2, <2>7, <2>8, <3>5 DEF RawData
    <2>9. CASE ~rd_done BY <1>2, <2>1, <2>2, <2>6, <2>7, <2>9 DEF RawData
    <2> QED BY <2>8, <2>9
  <1> QED BY <1>4, <1>5, <1>6, <1>7, PhaseType

LEMMA ErrorsStep ==
  ASSUME TypeOK, Turns, Channel, LoaderData, Errors,
         NEW rvalid \in BOOLEAN, NEW store \in BOOLEAN, NEW taken \in BOOLEAN,
         NEW arready \in BOOLEAN, NEW bad \in BOOLEAN,
         LoaderStep(rvalid, store), RawStep(taken, rvalid),
         MemoryStep(arready, rvalid), MasterStep(arready, rvalid, bad)
  PROVE  Errors'
  <1>1. (rd_error' => rd_error \/ faulted') /\ (faulted => faulted') BY MasterMoves
  <1>2. loader'.error => loader.error \/ rd_error
    <2>1. loader.st = "FINISH" => loader.addr * 2 = VBeats BY DEF LoaderData
    <2>2. loader.st = "IDLE" => (loader'.error => loader.error \/ rd_error) BY LoaderMoves
    <2>3. loader.st \in {"ISSUE", "STREAM"} => (loader'.error => loader.error \/ rd_error)
      BY LoaderMoves
    <2>4. loader.st = "FINISH" => (loader'.error => loader.error \/ rd_error)
      BY <2>1, LoaderMoves
    <2> QED BY <2>2, <2>3, <2>4, PhaseType
  <1>3. raw'.error => raw.error \/ rd_error
    <2>1. Flags => raw.error \/ rd_error BY DEF Flags
    <2>2. raw.st # "FILL" => raw'.error = Flags BY PhaseType, RawMoves
    <2>3. CASE raw.st = "FILL"
      <3>1. ~read_owner_v BY <2>3, Awake
      <3>2. CASE rd_done
        <4>1. master.st = "DONE" /\ Got = Total BY <3>2 DEF rd_done, Channel
        <4>2. raw.count = LineBeats BY <3>1, <4>1 DEF Got, Total
        <4>3. ~Crosses(rvalid) BY <4>1, NextBeat
        <4>4. raw'.count = raw.count BY <2>3, <4>3, RawMoves DEF Fetches
        <4>5. raw'.error = (Flags \/ raw'.count # LineBeats) BY <2>3, <3>1, <3>2, RawMoves
        <4> QED BY <2>1, <4>2, <4>4, <4>5
      <3>3. CASE ~rd_done
        <4>1. raw'.error = Flags BY <2>3, <3>3, RawMoves
        <4> QED BY <2>1, <4>1
      <3> QED BY <3>2, <3>3
    <2> QED BY <2>1, <2>2, <2>3
  <1> QED BY <1>1, <1>2, <1>3 DEF Errors
-----------------------------------------------------------------------------
(***************************************************************************)
(* The invariant.                                                          *)
(***************************************************************************)
LEMMA ResetTypes ==
  MasterReset \in MasterType /\ LoaderReset \in LoaderType /\ RawReset \in RawType
  <1>1. 0 \in Lines BY Sizes DEF Lines
  <1>2. [i \in 0 .. 1 |-> NoBeat] \in VectorType BY DEF VectorType, BeatType, NoBeat
  <1>3. MasterReset \in MasterType BY DEF MasterReset, MasterType
  <1>4. LoaderReset \in LoaderType
    BY <1>2 DEF LoaderReset, LoaderType, BEATS_PER_VECTOR
  <1>5. RawReset \in RawType BY <1>1 DEF RawReset, RawType
  <1> QED BY <1>3, <1>4, <1>5

\* Nothing is going on: the state a reset ends in.
Quiet ==
    /\ phase = "IDLE" /\ ~v_start /\ ~v_rd_start
    /\ master = MasterReset /\ memory.left = 0
    /\ loader.st = "IDLE" /\ ~loader.done
    /\ raw.st = "IDLE" /\ ~raw.start /\ ~raw.line_valid /\ raw.rsp = Nothing
    /\ request = None /\ Errors

LEMMA QuietIsWorking == ASSUME Quiet PROVE Working
  <1>1. ~Streams /\ ~Waits BY DEF Quiet, Waits, Streams
  <1>2. ~rd_start /\ ~read_owner_v BY DEF Quiet, rd_start, read_owner_v
  <1>3. /\ master.st = "IDLE" /\ ~master.arvalid /\ ~(memory.left > 0)
    BY DEF Quiet, MasterReset
  <1>4. Turns BY DEF Turns, Quiet
  <1>5. Channel BY <1>1, <1>2, <1>3 DEF Channel, Asking, Offering, Taking
  <1>6. LoaderData BY DEF LoaderData, Quiet
  <1>7. RawData BY DEF RawData, Answered, Quiet
  <1>8. Errors BY DEF Quiet
  <1> QED BY <1>4, <1>5, <1>6, <1>7, <1>8 DEF Working

\* A clock edge outside a reset.
SomeEdge ==
    \E start, core_done, arready, rvalid, bad, store, taken \in BOOLEAN,
       next \in Requests \cup {None} :
        Edge(start, core_done, arready, rvalid, bad, store, taken, next)

LEMMA EdgeStep == ASSUME IInv, SomeEdge PROVE IInv'
  <1> PICK start \in BOOLEAN, core_done \in BOOLEAN, arready \in BOOLEAN,
           rvalid \in BOOLEAN, bad \in BOOLEAN, store \in BOOLEAN, taken \in BOOLEAN,
           next \in Requests \cup {None} :
             Edge(start, core_done, arready, rvalid, bad, store, taken, next)
    BY DEF SomeEdge
  <1>1. /\ ~soft_reset
        /\ PhaseStep(start, core_done) /\ LoaderStep(rvalid, store)
        /\ RawStep(taken, rvalid) /\ MemoryStep(arready, rvalid)
        /\ MasterStep(arready, rvalid, bad) /\ CoreStep(next)
        /\ next # None => ~core_done
        /\ soft_reset' = soft_reset /\ run' = run
    BY DEF Edge
  <1>2. TypeOK /\ Working BY <1>1 DEF IInv, Resetting
  <1>3. Turns /\ Channel /\ LoaderData /\ RawData /\ Errors BY <1>2 DEF Working
  <1>4. TypeOK'
    <2>1. phase' \in {"IDLE", "LOAD_V", "RUN", "END"} /\ v_start' \in BOOLEAN
      BY <1>1, <1>2, PhaseMoves
    <2>2. memory' \in MemoryType BY <1>1, <1>2, MemoryMoves
    <2>3. master' \in MasterType /\ rd_error' \in BOOLEAN /\ faulted' \in BOOLEAN
      BY <1>1, <1>2, MasterMoves
    <2>4. loader' \in LoaderType /\ v_rd_start' \in BOOLEAN /\ vcache' \in CacheType
      BY <1>1, <1>2, LoaderMoves
    <2>5. raw' \in RawType /\ line_mem' \in [Positions -> BeatType]
      BY <1>1, <1>2, RawMoves
    <2>6. request' \in Requests \cup {None} BY <1>1, <1>2, CoreMoves
    <2>7. soft_reset' \in BOOLEAN /\ run' \in Nat BY <1>1, <1>2 DEF TypeOK
    <2> QED BY <2>1, <2>2, <2>3, <2>4, <2>5, <2>6, <2>7 DEF TypeOK
  <1>5. Turns' BY <1>1, <1>2, <1>3, TurnsStep
  <1>6. Channel' BY <1>1, <1>2, <1>3, ChannelStep, ZenonT(40)
  <1>7. LoaderData' BY <1>1, <1>2, <1>3, LoaderDataStep
  <1>8. RawData' BY <1>1, <1>2, <1>3, RawDataStep
  <1>9. Errors' BY <1>1, <1>2, <1>3, ErrorsStep
  <1> QED BY <1>4, <1>5, <1>6, <1>7, <1>8, <1>9 DEF IInv, Working

LEMMA ResetStep ==
  ASSUME IInv, NEW arready \in BOOLEAN, NEW rvalid \in BOOLEAN, ResetEdge(arready, rvalid)
  PROVE  IInv'
  <1>1. TypeOK /\ MemoryStep(arready, rvalid) BY DEF IInv, ResetEdge
  <1>2. memory' \in MemoryType BY <1>1, MemoryMoves
  <1>3. Resetting' BY DEF ResetEdge, Resetting
  <1>4. master' \in MasterType /\ loader' \in LoaderType /\ raw' \in RawType
    BY ResetTypes DEF ResetEdge
  <1>5. /\ phase' = "IDLE" /\ v_start' = FALSE /\ rd_error' = FALSE /\ v_rd_start' = FALSE
        /\ request' = None /\ faulted' = FALSE
        /\ soft_reset' = soft_reset /\ line_mem' = line_mem /\ run' = run
        /\ vcache' = vcache
    BY DEF ResetEdge
  <1>6. TypeOK'
    BY <1>1, <1>2, <1>4, <1>5
       DEF TypeOK, CacheType, VectorType, BeatType, MemoryType, MasterType, LoaderType, RawType
  <1> QED BY <1>3, <1>6 DEF IInv

\* What the reset leaves when it is released.
LEMMA ReleaseIsQuiet ==
  ASSUME IInv, phase = "IDLE", master = MasterReset, memory.left = 0
  PROVE  Quiet
  <1>1. CASE Resetting
    BY <1>1 DEF Resetting, LoaderReset, RawReset, Nothing, Errors, Quiet
  <1>2. CASE Working
    <2>1. Turns /\ Errors BY <1>2 DEF Working
    <2>2. ~v_start /\ loader.st = "IDLE" /\ ~loader.done /\ request = None
      BY <2>1 DEF Turns
    <2>3. ~v_rd_start /\ raw.st = "IDLE" BY <2>1, <2>2 DEF Turns
    <2>4. ~raw.start /\ ~raw.line_valid /\ raw.rsp = Nothing BY <2>1, <2>3 DEF Turns
    <2> QED BY <2>1, <2>2, <2>3, <2>4 DEF Quiet
  <1> QED BY <1>1, <1>2 DEF IInv

LEMMA ReleaseStep == ASSUME IInv, ReleaseReset PROVE IInv'
  <1>1. /\ phase = "IDLE" /\ master = MasterReset /\ memory.left = 0
        /\ soft_reset' = FALSE /\ run' = run + 1 /\ vcache' = NoVectors
        /\ phase' = phase /\ v_start' = v_start /\ master' = master /\ rd_error' = rd_error
        /\ memory' = memory /\ loader' = loader /\ raw' = raw /\ v_rd_start' = v_rd_start
        /\ line_mem' = line_mem /\ request' = request /\ faulted' = faulted
    BY DEF ReleaseReset
  <1>2. Quiet BY <1>1, ReleaseIsQuiet
  <1>3. Quiet' BY <1>1, <1>2 DEF Quiet, Errors, MasterReset, None, Nothing
  <1>4. Working' BY <1>3, QuietIsWorking, PTL
  <1>5. NoVectors \in CacheType BY DEF NoVectors, CacheType, Nothing
  <1>6. TypeOK BY DEF IInv
  <1>7. run' \in Nat BY <1>1, <1>6 DEF TypeOK
  <1>8. vcache' \in CacheType BY <1>1, <1>5
  <1>9. /\ phase \in {"IDLE", "LOAD_V", "RUN", "END"}
        /\ v_start \in BOOLEAN /\ v_rd_start \in BOOLEAN /\ master \in MasterType
        /\ rd_error \in BOOLEAN /\ memory \in MemoryType /\ loader \in LoaderType
        /\ raw \in RawType /\ line_mem \in [Positions -> BeatType]
        /\ request \in Requests \cup {None} /\ faulted \in BOOLEAN
    BY <1>6 DEF TypeOK
  <1>10. TypeOK' BY <1>1, <1>7, <1>8, <1>9 DEF TypeOK
  <1> QED BY <1>4, <1>10 DEF IInv

LEMMA InitHolds == ASSUME Init PROVE IInv
  <1>1. Resetting BY DEF Init, Resetting
  <1>2. NoVectors \in CacheType BY DEF NoVectors, CacheType, Nothing
  <1>3. [i \in 0 .. LineBeats - 1 |-> NoBeat] \in [Positions -> BeatType]
    BY DEF Positions, BeatType, NoBeat
  <1>4. [adrs |-> 0, left |-> 0] \in MemoryType BY DEF MemoryType
  <1>5. TypeOK BY <1>2, <1>3, <1>4, ResetTypes DEF Init, TypeOK
  <1> QED BY <1>1, <1>5 DEF IInv

\* Nothing changes but, at most, the reset wire going up.
LEMMA StillHolds ==
  ASSUME IInv, soft_reset' \in {soft_reset, TRUE},
         UNCHANGED <<phase, v_start, master, rd_error, memory, loader, raw,
                     v_rd_start, line_mem, request, run, vcache, asked, faulted>>
  PROVE  IInv'
  <1>1. TypeOK'
    <2>1. TypeOK BY DEF IInv
    <2>2. soft_reset' \in BOOLEAN BY <2>1 DEF TypeOK
    <2> QED BY <2>1, <2>2 DEF TypeOK
  <1>2. CASE Resetting
    <2>1. Resetting' BY <1>2 DEF Resetting, MasterReset, LoaderReset, RawReset, None, NoBeat
    <2> QED BY <1>1, <2>1 DEF IInv
  <1>3. CASE Working
    <2>1. Turns' BY <1>3 DEF Working, Turns
    <2>2. Channel'
      BY <1>3 DEF Working, Channel, Asking, Offering, Taking, Waits, Streams, rd_start,
                  read_owner_v, Got, Base, Total, Joined, Line
    <2>3. LoaderData' BY <1>3 DEF Working, LoaderData, Joined, VectorAt, Beat
    <2>4. RawData' BY <1>3 DEF Working, RawData, Answered, Beat, Line
    <2>5. Errors' BY <1>3 DEF Working, Errors
    <2> QED BY <1>1, <2>1, <2>2, <2>3, <2>4, <2>5 DEF IInv, Working
  <1> QED BY <1>2, <1>3 DEF IInv

\* The read path keeps its turns, the arithmetic of its bursts and the places
\* of its beats, however memory, cache and core pace it and whenever the host
\* resets.
THEOREM Invariance == Spec => []IInv
  <1>1. Init => IInv BY InitHolds
  <1>2. IInv /\ [Next]_vars => IInv'
    <2> SUFFICES ASSUME IInv, [Next]_vars PROVE IInv' OBVIOUS
    <2>1. CASE SomeEdge BY <2>1, EdgeStep
    <2>2. CASE \E arready, rvalid \in BOOLEAN : ResetEdge(arready, rvalid)
      BY <2>2, ResetStep
    <2>3. CASE AssertReset BY <2>3, StillHolds DEF AssertReset
    <2>4. CASE ReleaseReset BY <2>4, ReleaseStep
    <2>5. CASE UNCHANGED vars BY <2>5, StillHolds DEF vars
    <2> QED BY <2>1, <2>2, <2>3, <2>4, <2>5 DEF Next, SomeEdge
  <1> QED BY <1>1, <1>2, PTL DEF Spec
-----------------------------------------------------------------------------
(***************************************************************************)
(* What follows from it.                                                   *)
(***************************************************************************)

\* A V load that ends without an error has put every vector of this run's V at
\* its address (the LOAD_V hand-over of fpt_v_ddr_loader.sv).
THEOREM LoadIsComplete == Spec => []CleanLoadIsComplete
  <1>1. IInv => CleanLoadIsComplete
    <2> SUFFICES ASSUME IInv, loader.done, NEW a \in Vectors
                 PROVE  vcache[a] = [i \in 0 .. BEATS_PER_VECTOR - 1
                                       |-> Beat(a * BEATS_PER_VECTOR + i)]
      BY DEF CleanLoadIsComplete
    <2>1. Working BY DEF IInv, Resetting, LoaderReset
    <2>2. /\ loader.addr * 2 = VBeats
          /\ a < loader.addr => vcache[a] = VectorAt(a)
      BY <2>1 DEF Working, LoaderData
    <2>3. loader.addr \in Nat /\ a \in Nat BY DEF IInv, TypeOK, LoaderType, Vectors
    <2>4. a * 2 < VBeats BY <2>3, VectorNumbers
    <2>5. a < loader.addr BY <2>2, <2>3, <2>4
    <2> QED BY <2>2, <2>5 DEF VectorAt, BEATS_PER_VECTOR
  <1> QED BY <1>1, Invariance, PTL

\* A response holds the two beats of the pair the core asked for, of the line it
\* asked for, read in this run (the line buffer of fpt_raw_qk_ddr_reader.sv).
THEOREM ResponseIsRight == Spec => []ResponseIsTheRequested
  <1>1. IInv => ResponseIsTheRequested
    <2>1. Resetting => raw.rsp = Nothing BY DEF Resetting, RawReset, Nothing
    <2>2. Working => Answered BY DEF Working, RawData
    <2> QED BY <2>1, <2>2 DEF IInv, ResponseIsTheRequested, Answered, Nothing
  <1> QED BY <1>1, Invariance, PTL

\* The beat counts of the two clients always agree with the bursts of the
\* master: an error is reported after a bad read response only.
THEOREM ErrorsAreFaults == Spec => []NoErrorWithoutFault
  <1>1. IInv => NoErrorWithoutFault
    BY DEF IInv, Resetting, LoaderReset, RawReset, Working, Errors, NoErrorWithoutFault
  <1> QED BY <1>1, Invariance, PTL

\* The two clients of the read channel are never awake together, and nothing is
\* outstanding on it when the V loader hands it over.
THEOREM CleanHandover == Spec => []HandoverIsClean
  <1>1. IInv => HandoverIsClean
    <2> SUFFICES ASSUME IInv PROVE HandoverIsClean OBVIOUS
    <2>1. CASE Resetting
      BY <2>1 DEF Resetting, LoaderReset, RawReset, HandoverIsClean
    <2>2. CASE Working
      <3>1. TypeOK /\ Turns /\ Channel BY <2>2 DEF IInv, Working
      <3>2. loader.st # "IDLE" \/ v_rd_start => read_owner_v
        BY <3>1 DEF Turns, read_owner_v
      <3>3. raw.st # "IDLE" \/ raw.start => ~read_owner_v
        BY <3>1 DEF Turns, read_owner_v
      <3>4. ASSUME loader.done PROVE master.st = "IDLE" /\ memory.left = 0 /\ ~v_rd_start
        <4>1. loader.st = "IDLE" /\ phase = "LOAD_V" BY <3>1, <3>4 DEF Turns
        <4>2. raw.st = "IDLE" BY <3>1, <4>1 DEF Turns
        <4>3. ~Waits BY <4>1, <4>2 DEF Waits, Streams
        <4>4. master.st = "IDLE" /\ ~(memory.left > 0) BY <3>1, <4>3 DEF Channel
        <4>5. memory.left \in Nat BY <3>1 DEF TypeOK, MemoryType
        <4>6. ~v_rd_start BY <3>1, <4>1 DEF Turns
        <4> QED BY <4>4, <4>5, <4>6
      <3> QED BY <3>2, <3>3, <3>4 DEF HandoverIsClean
    <2> QED BY <2>1, <2>2 DEF IInv
  <1> QED BY <1>1, Invariance, PTL

\* One edge of the loader is one of the stage the engine's controller starts:
\* it ends when it finishes, and strikes a fault when it misses beats.
LEMMA LoaderEdgeIsStage ==
  ASSUME TypeOK, Turns, NEW rvalid \in BOOLEAN, NEW store \in BOOLEAN,
         LoaderStep(rvalid, store)
  PROVE  \E fault, finish \in SUBSET {"v"} :
           /\ fault \cup finish # {} => Engine!StageOf("v")
           /\ Engine!LoaderStep(fault, finish)
  <1> DEFINE own == read_owner_v /\ rd_error
             short == loader.addr * 2 # VBeats
             busy == loader'.st # "IDLE"
  <1>1. /\ loader.st \in {"IDLE", "ISSUE", "STREAM", "FINISH"}
        /\ loader.done \in BOOLEAN /\ loader.error \in BOOLEAN
        /\ loader'.done \in BOOLEAN /\ loader'.error \in BOOLEAN /\ v_start \in BOOLEAN
    BY LoaderMoves DEF TypeOK, LoaderType
  <1>2. Engine!StageOf("v") <=> loader.st # "IDLE" BY DEF Engine!StageOf
  <1>3. \A fault, finish \in SUBSET {"v"} :
            Engine!LoaderStep(fault, finish) <=>
                [busy |-> busy, done |-> loader'.done, error |-> loader'.error] =
                [busy  |-> IF loader.st # "IDLE" THEN "v" \notin finish ELSE v_start,
                 done  |-> loader.st # "IDLE" /\ "v" \in finish,
                 error |-> IF ~(loader.st # "IDLE") /\ v_start THEN FALSE
                           ELSE loader.error \/ own \/ "v" \in fault]
    BY DEF Engine!LoaderStep, Engine!read_owner_v, read_owner_v
  <1>4. CASE loader.st = "IDLE"
    <2>1. /\ busy <=> v_start
          /\ ~loader'.done
          /\ loader'.error <=> ~v_start /\ (loader.error \/ own)
      BY <1>4, LoaderMoves
    <2>2. Engine!LoaderStep({}, {})
      <3> DEFINE e == IF v_start THEN FALSE ELSE loader.error \/ own \/ "v" \in {}
                 e0 == IF ~(loader.st # "IDLE") /\ v_start THEN FALSE
                       ELSE loader.error \/ own \/ "v" \in {}
                 b0 == IF loader.st # "IDLE" THEN "v" \notin {} ELSE v_start
                 d0 == loader.st # "IDLE" /\ "v" \in {}
      <3>1. busy = v_start /\ loader'.done = FALSE /\ loader'.error = e
        BY <1>1, <2>1
      <3>2. e0 = e /\ b0 = v_start /\ d0 = FALSE BY <1>4
      <3>3. Engine!LoaderStep({}, {}) <=>
                [busy |-> busy, done |-> loader'.done, error |-> loader'.error] =
                [busy |-> b0, done |-> d0, error |-> e0]
        BY <1>3
      <3> HIDE DEF busy, own, e, e0, b0, d0
      <3> QED BY <3>1, <3>2, <3>3
    <2> QED BY <2>2
  <1>5. CASE loader.st \in {"ISSUE", "STREAM"}
    <2>1. ~loader.done BY <1>5 DEF Turns
    <2>2. busy /\ ~loader'.done /\ (loader'.error <=> loader.error \/ own)
      BY <1>5, <2>1, LoaderMoves
    <2>3. Engine!LoaderStep({}, {})
      <3> DEFINE e == loader.error \/ own \/ "v" \in {}
                 e0 == IF ~(loader.st # "IDLE") /\ v_start THEN FALSE
                       ELSE loader.error \/ own \/ "v" \in {}
                 b0 == IF loader.st # "IDLE" THEN "v" \notin {} ELSE v_start
                 d0 == loader.st # "IDLE" /\ "v" \in {}
      <3>1. busy = TRUE /\ loader'.done = FALSE /\ loader'.error = e
        BY <1>1, <2>2
      <3>2. e0 = e /\ b0 = TRUE /\ d0 = FALSE BY <1>5
      <3>3. Engine!LoaderStep({}, {}) <=>
                [busy |-> busy, done |-> loader'.done, error |-> loader'.error] =
                [busy |-> b0, done |-> d0, error |-> e0]
        BY <1>3
      <3> HIDE DEF busy, own, e, e0, b0, d0
      <3> QED BY <3>1, <3>2, <3>3
    <2> QED BY <2>3
  <1>6. CASE loader.st = "FINISH"
    <2>1. ~busy /\ loader'.done /\ (loader'.error <=> loader.error \/ own \/ short)
      BY <1>6, LoaderMoves
    <2> DEFINE fault == IF short THEN {"v"} ELSE {}
    <2>2. fault \in SUBSET {"v"} /\ ("v" \in fault <=> short) OBVIOUS
    <2> HIDE DEF fault
    <2>3. Engine!LoaderStep(fault, {"v"})
      <3>1. /\ busy = FALSE /\ loader'.done = TRUE
            /\ loader'.error = (loader.error \/ own \/ "v" \in fault)
        BY <1>1, <2>1, <2>2
      <3> HIDE DEF busy, own
      <3> QED BY <1>3, <1>6, <2>2, <3>1
    <2> QED BY <1>2, <1>6, <2>2, <2>3
  <1> QED BY <1>1, <1>4, <1>5, <1>6

\* The loader, with every register of it, does to the engine's controller what
\* BoardEngine takes a stage to do: the loader that BoardEngine's theorems assume
\* (fpt_v_ddr_loader.sv under the LOAD_V state of fpt_attention_board_engine.sv)
\* is the one the board has, but for the edges of a soft reset.
THEOREM LoaderKeepsItsContract == Spec => LoaderIsAStage
  <1> DEFINE AsStage == \E fault, finish \in SUBSET {"v"} :
                 /\ fault \cup finish # {} => Engine!StageOf("v")
                 /\ Engine!LoaderStep(fault, finish)
  <1>1. IInv /\ [Next]_vars => [soft_reset \/ soft_reset' \/ AsStage]_vars
    <2> SUFFICES ASSUME IInv, Next, ~soft_reset, ~soft_reset' PROVE AsStage
      OBVIOUS
    <2>1. CASE SomeEdge
      <3>1. PICK rvalid \in BOOLEAN, store \in BOOLEAN : LoaderStep(rvalid, store)
        BY <2>1 DEF SomeEdge, Edge
      <3>2. TypeOK /\ Turns BY DEF IInv, Resetting, Working
      <3> QED BY <3>1, <3>2, LoaderEdgeIsStage
    <2>2. ~(\E arready, rvalid \in BOOLEAN : ResetEdge(arready, rvalid)) BY DEF ResetEdge
    <2>3. ~AssertReset /\ ~ReleaseReset BY DEF AssertReset, ReleaseReset
    <2> QED BY <2>1, <2>2, <2>3 DEF Next, SomeEdge
  <1> QED BY <1>1, Invariance, PTL DEF Spec, LoaderIsAStage
=============================================================================
