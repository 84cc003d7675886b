---------------------------- MODULE ReadChannel ----------------------------
(***************************************************************************)
(* The DDR read path of the board engine: the read half of the AXI master  *)
(* (rtl/board/aq_axi_master_fixed.v) and the two clients that own it in    *)
(* turn, the V loader (fpt_v_ddr_loader.sv) during LOAD_V and the raw Q/K  *)
(* line reader (fpt_raw_qk_ddr_reader.sv) during the run.                  *)
(*                                                                         *)
(* Memory is a sequence of 64-bit beats.  What a beat holds is abstracted  *)
(* to its address and the run it was read in (the host may load new data   *)
(* between runs).  V takes the first VBeats beats; line l of Q or K takes  *)
(* LineBeats beats from Line(l) on.                                        *)
(*                                                                         *)
(* The soft reset reaches the master and its clients, not the memory: a    *)
(* burst the memory has accepted is delivered to whoever listens.  The     *)
(* firmware holds the reset for RESET_HOLD_LOOPS, and RREADY is high then: *)
(* that the hold outlasts the burst is the assumption of ReleaseReset.     *)
(***************************************************************************)
EXTENDS Integers, Sequences

CONSTANTS
    VBeats,     \* beats of V; two beats make one 8-lane vector
    LineBeats,  \* beats of one Q or K line
    NLines,     \* lines the core asks for, Q and K together
    Burst,      \* beats of the longest AXI burst (256 in the hardware)
    MaxRuns     \* bound: runs of the model

BEATS_PER_VECTOR == 2

ASSUME ReadAssumption ==
    /\ VBeats \in Nat \ {0} /\ VBeats % BEATS_PER_VECTOR = 0
    /\ LineBeats \in Nat \ {0} /\ LineBeats % 2 = 0
    /\ NLines \in Nat \ {0} /\ Burst \in Nat \ {0} /\ MaxRuns \in Nat \ {0}

Lines == 0 .. NLines - 1
Line(l) == VBeats + l * LineBeats            \* its first beat
Vectors == 0 .. (VBeats \div BEATS_PER_VECTOR) - 1

VARIABLES
    phase,       \* the engine: IDLE, LOAD_V, RUN, END
    v_start, soft_reset,
    master,      \* [st, adrs, len, arvalid, last, rlen], in beats
    rd_error,
    memory,      \* the burst the memory is serving: [adrs, left]
    loader,      \* [st, hold, valid, index, seen, addr, done, error]
    raw,         \* [st, line_valid, line, miss, count, start, rsp, error]
    v_rd_start, \* rd_start of the V loader
    line_mem,    \* the line buffer of the raw reader
    request      \* the line and half-line pair the core asks for, or none

VARIABLES        \* history
    run,         \* the run in progress
    vcache,      \* what this run wrote into the V cache
    asked,       \* the request the response answers
    faulted      \* a bad read response since the last reset

vars == <<phase, v_start, soft_reset, master, rd_error, memory, loader, raw,
          v_rd_start, line_mem, request, run, vcache, asked, faulted>>

Beat(adrs) == [adrs |-> adrs, run |-> run]
NoBeat == [adrs |-> -1, run |-> 0]
None == [line |-> -1, pair |-> 0]
Requests == [line : Lines, pair : 0 .. (LineBeats \div 2) - 1]
-----------------------------------------------------------------------------
read_owner_v == phase = "LOAD_V"
rd_ready == master.st = "IDLE"
\* Mutants: the end of a request is seen too early, or not while the loader is
\* waiting for the cache.
DoneTooEarly == master.st \in {"RD_PROC", "DONE"}
DoneWhenTaken == master.st = "DONE" /\ ~loader.valid
rd_done == master.st = "DONE"
\* Mutant: no back pressure.
NeverFull == FALSE
rd_fifo_full == read_owner_v /\ loader.valid

rd_start == IF read_owner_v THEN v_rd_start ELSE raw.start
rd_adrs == IF read_owner_v THEN 0 ELSE Line(raw.miss)
rd_len == IF read_owner_v THEN VBeats ELSE LineBeats

\* A read beat crosses the channel at an edge where the memory has it ready.
Crosses(rvalid) == rvalid /\ ~rd_fifo_full
RLast == memory.left = 1
ReadBeat == Beat(memory.adrs)
-----------------------------------------------------------------------------
\* The memory takes a burst when it is free and hands it over beat by beat.
MemoryStep(arready, rvalid) ==
    /\ arready => memory.left = 0
    /\ rvalid => memory.left > 0
    /\ memory' =
         IF master.arvalid /\ arready
         THEN [adrs |-> master.adrs, left |-> master.rlen + 1]
         ELSE IF Crosses(rvalid)
         THEN [adrs |-> memory.adrs + 1, left |-> memory.left - 1]
         ELSE memory

\* Mutant: every burst starts where the first one did.
SameBurst(adrs) == adrs
NextBurst(adrs) == adrs + Burst

\* The read machine of the AXI master.  len counts the beats still to be asked
\* for, less one; a request is cut into bursts of at most Burst beats.  The
\* loader and the reader only ever ask for whole beats, at least one.  The
\* board wires RD_FIFO_AFULL to RD_FIFO_FULL.
MasterNext(arready, rvalid) ==
    CASE master.st = "IDLE" ->
            IF rd_start THEN [master EXCEPT !.st = "RA_WAIT", !.arvalid = FALSE,
                                            !.adrs = rd_adrs, !.len = rd_len - 1]
            ELSE [master EXCEPT !.arvalid = FALSE]
      [] master.st = "RA_WAIT" ->
            IF rd_fifo_full THEN master ELSE [master EXCEPT !.st = "RA_START"]
      [] master.st = "RA_START" ->
            LET more == master.len \div Burst # 0
            IN  [master EXCEPT !.st = "RD_WAIT", !.arvalid = TRUE, !.last = ~more,
                               !.len = IF more THEN @ - Burst ELSE @,
                               !.rlen = IF more THEN Burst - 1 ELSE master.len]
      [] master.st = "RD_WAIT" ->
            IF arready THEN [master EXCEPT !.st = "RD_PROC", !.arvalid = FALSE] ELSE master
      [] master.st = "RD_PROC" ->
            IF ~(Crosses(rvalid) /\ RLast) THEN master
            ELSE IF master.last THEN [master EXCEPT !.st = "DONE"]
            ELSE [master EXCEPT !.st = "RA_WAIT", !.adrs = NextBurst(@)]
      [] master.st = "DONE" -> [master EXCEPT !.st = "IDLE"]

MasterStep(arready, rvalid, bad) ==
    /\ bad => Crosses(rvalid)
    /\ master' = MasterNext(arready, rvalid)
    /\ rd_error' = (rd_error \/ bad)
    /\ faulted' = (faulted \/ bad)
-----------------------------------------------------------------------------
\* The V loader, in its 8-lane mode: two beats are joined into one vector.
\* Mutant: done is not withdrawn.
LoaderKeepsDone ==
    /\ loader.st = "IDLE"
    /\ loader' = [loader EXCEPT !.valid = FALSE, !.index = 0, !.seen = FALSE,
                     !.addr = 0, !.st = IF v_start THEN "ISSUE" ELSE "IDLE",
                     !.error = ~v_start /\ (@ \/ (read_owner_v /\ rd_error))]
    /\ v_rd_start' = FALSE
    /\ UNCHANGED vcache

LoaderIdle ==
    /\ loader.st = "IDLE"
    /\ loader' = [loader EXCEPT !.valid = FALSE, !.index = 0, !.seen = FALSE,
                     !.addr = 0, !.done = FALSE,
                     !.st = IF v_start THEN "ISSUE" ELSE "IDLE",
                     !.error = ~v_start /\ (@ \/ (read_owner_v /\ rd_error))]
    /\ v_rd_start' = FALSE
    /\ UNCHANGED vcache

LoaderIssue ==
    /\ loader.st = "ISSUE"
    /\ loader' = [loader EXCEPT !.st = IF read_owner_v /\ rd_ready THEN "STREAM" ELSE "ISSUE",
                     !.error = @ \/ (read_owner_v /\ rd_error)]
    /\ v_rd_start' = (read_owner_v /\ rd_ready)
    /\ UNCHANGED vcache

LoaderStream(rvalid, v_load_ready) ==
    /\ loader.st = "STREAM"
    /\ LET we      == read_owner_v /\ Crosses(rvalid)
           joins   == we /\ loader.index = BEATS_PER_VECTOR - 1
           stored  == loader.valid /\ v_load_ready
           done    == read_owner_v /\ rd_done
       IN  /\ loader' = [loader EXCEPT
                 !.hold = IF we /\ ~loader.valid THEN [@ EXCEPT ![loader.index] = ReadBeat] ELSE @,
                 !.index = IF ~we \/ loader.valid THEN @ ELSE IF joins THEN 0 ELSE @ + 1,
                 !.valid = (joins \/ (loader.valid /\ ~stored)),
                 !.addr = IF stored THEN @ + 1 ELSE @,
                 !.seen = @ \/ done,
                 !.error = @ \/ (read_owner_v /\ rd_error) \/ (we /\ loader.valid),
                 !.st = IF (loader.seen \/ done) /\ ~loader.valid /\ ~we
                        THEN "FINISH" ELSE @]
           /\ vcache' = IF stored /\ loader.addr \in Vectors
                        THEN [vcache EXCEPT ![loader.addr] = loader.hold] ELSE vcache
    /\ v_rd_start' = FALSE

LoaderFinish ==
    /\ loader.st = "FINISH"
    /\ loader' = [loader EXCEPT !.st = "IDLE", !.done = TRUE,
                     !.error = \/ @ \/ (read_owner_v /\ rd_error)
                               \/ loader.addr * BEATS_PER_VECTOR # VBeats]
    /\ v_rd_start' = FALSE
    /\ UNCHANGED vcache

LoaderStep(rvalid, v_load_ready) ==
    \/ LoaderIdle \/ LoaderIssue \/ LoaderStream(rvalid, v_load_ready) \/ LoaderFinish
-----------------------------------------------------------------------------
\* The raw Q/K reader keeps one line; a request for another one replaces it.
\* Mutant: a line is used whether valid or not.
MatchInvalid == request.line = raw.line
line_match == raw.line_valid /\ request.line = raw.line
raw_req_ready == phase = "RUN" /\ raw.st = "IDLE" /\ line_match /\ raw.rsp = <<>>

Flags == raw.error \/ (~read_owner_v /\ rd_error)
\* A response waits until it is taken.
Held(rsp_ready) == IF rsp_ready THEN <<>> ELSE raw.rsp

RawIdle(rsp_ready) ==
    /\ raw.st = "IDLE"
    /\ raw' = [raw EXCEPT !.start = FALSE, !.error = Flags,
                  !.rsp = IF request # None /\ raw_req_ready
                          THEN <<line_mem[request.pair],
                                 line_mem[request.pair + LineBeats \div 2]>>
                          ELSE Held(rsp_ready)]
    /\ UNCHANGED line_mem

RawMiss(rsp_ready) ==
    /\ raw.st = "IDLE"
    /\ raw' = [raw EXCEPT !.start = FALSE, !.error = Flags, !.rsp = Held(rsp_ready),
                  !.miss = request.line, !.line_valid = FALSE, !.st = "ISSUE"]
    /\ UNCHANGED line_mem

RawIssue(rsp_ready) ==
    /\ raw.st = "ISSUE"
    /\ LET go == ~read_owner_v /\ rd_ready
       IN  raw' = [raw EXCEPT !.start = go, !.error = Flags, !.rsp = Held(rsp_ready),
                      !.count = IF go THEN 0 ELSE @, !.st = IF go THEN "FILL" ELSE @]
    /\ UNCHANGED line_mem

RawFill(rsp_ready, rvalid) ==
    /\ raw.st = "FILL"
    /\ LET we    == ~read_owner_v /\ Crosses(rvalid)
           done  == ~read_owner_v /\ rd_done
           count == IF we THEN raw.count + 1 ELSE raw.count
       IN  /\ raw' = [raw EXCEPT !.start = FALSE, !.rsp = Held(rsp_ready),
                 !.count = count,
                 !.error = Flags \/ (done /\ count # LineBeats),
                 !.line = IF done THEN raw.miss ELSE @,
                 !.line_valid = @ \/ done,
                 !.st = IF done THEN "IDLE" ELSE @]
           /\ line_mem' = IF we /\ raw.count \in DOMAIN line_mem
                          THEN [line_mem EXCEPT ![raw.count] = ReadBeat] ELSE line_mem

RawStep(rsp_ready, rvalid) ==
    \/ /\ ~(phase = "RUN" /\ request # None /\ ~line_match)
       /\ RawIdle(rsp_ready)
    \/ /\ phase = "RUN" /\ request # None /\ ~line_match
       /\ RawMiss(rsp_ready)
    \/ RawIssue(rsp_ready)
    \/ RawFill(rsp_ready, rvalid)

\* The core holds a request until it is accepted, and makes the next one after
\* it has taken the response.
CoreStep(next_request) ==
    /\ next_request # None => phase = "RUN" /\ request = None /\ raw.rsp = <<>>
    /\ LET accepted == request # None /\ raw_req_ready
       IN  /\ request' = IF accepted THEN None
                         ELSE IF next_request # None THEN next_request ELSE request
           /\ asked' = IF accepted THEN request ELSE asked
-----------------------------------------------------------------------------
\* The states of the engine that decide who owns the channel.  The core is
\* done when it has all it asked for.
PhaseStep(start, core_done) ==
    /\ start => phase = "IDLE"
    /\ core_done => phase = "RUN" /\ request = None /\ raw.rsp = <<>>
    /\ v_start' = start
    /\ phase' = CASE start -> "LOAD_V"
                  [] phase = "LOAD_V" /\ loader.done ->
                        IF loader.error \/ rd_error THEN "END" ELSE "RUN"
                  [] core_done -> "END"
                  [] OTHER -> phase

Edge(start, core_done, arready, rvalid, bad, v_load_ready, rsp_ready, next_request) ==
    /\ ~soft_reset
    /\ PhaseStep(start, core_done)
    /\ MemoryStep(arready, rvalid)
    /\ MasterStep(arready, rvalid, bad)
    /\ LoaderStep(rvalid, v_load_ready)
    /\ rsp_ready => raw.rsp # <<>>
    /\ RawStep(rsp_ready, rvalid)
    /\ next_request # None => ~core_done
    /\ CoreStep(next_request)
    /\ UNCHANGED <<soft_reset, run>>

MasterReset == [st |-> "IDLE", adrs |-> 0, len |-> 0, arvalid |-> FALSE,
                last |-> FALSE, rlen |-> 0]
LoaderReset == [st |-> "IDLE", hold |-> [i \in 0 .. BEATS_PER_VECTOR - 1 |-> NoBeat],
                valid |-> FALSE, index |-> 0, seen |-> FALSE, addr |-> 0,
                done |-> FALSE, error |-> FALSE]
RawReset == [st |-> "IDLE", line_valid |-> FALSE, line |-> 0, miss |-> 0,
             count |-> 0, start |-> FALSE, rsp |-> <<>>, error |-> FALSE]
NoVectors == [a \in Vectors |-> <<>>]

\* A reset edge; the memory goes on delivering, and nobody writes the beats
\* down.  MASTER_RST leaves the address and the lengths, which every new
\* request sets again.
ResetEdge(arready, rvalid) ==
    /\ soft_reset
    /\ MemoryStep(arready, rvalid)
    /\ phase' = "IDLE" /\ v_start' = FALSE
    /\ master' = MasterReset /\ rd_error' = FALSE
    /\ loader' = LoaderReset /\ v_rd_start' = FALSE
    /\ raw' = RawReset
    /\ request' = None
    /\ faulted' = FALSE
    /\ UNCHANGED <<soft_reset, line_mem, run, vcache, asked>>

\* The firmware may reset at any time, and does so before every run.
AssertReset ==
    /\ ~soft_reset /\ soft_reset' = TRUE
    /\ run < MaxRuns
    /\ UNCHANGED <<phase, v_start, master, rd_error, memory, loader, raw,
                   v_rd_start, line_mem, request, run, vcache, asked, faulted>>

\* The reset was held until the memory had nothing left to deliver; the host
\* may have loaded other data.
ReleaseReset ==
    /\ soft_reset /\ soft_reset' = FALSE
    /\ phase = "IDLE" /\ master = MasterReset /\ memory.left = 0
    /\ run' = run + 1
    /\ vcache' = NoVectors
    /\ UNCHANGED <<phase, v_start, master, rd_error, memory, loader, raw,
                   v_rd_start, line_mem, request, asked, faulted>>

Init ==
    /\ phase = "IDLE" /\ v_start = FALSE /\ soft_reset = TRUE
    /\ master = MasterReset /\ rd_error = FALSE
    /\ memory = [adrs |-> 0, left |-> 0]
    /\ loader = LoaderReset /\ v_rd_start = FALSE
    /\ raw = RawReset
    /\ line_mem = [i \in 0 .. LineBeats - 1 |-> NoBeat]
    /\ request = None
    /\ run = 0 /\ vcache = NoVectors /\ asked = None /\ faulted = FALSE

Next ==
    \/ \E start, core_done, arready, rvalid, bad, v_load_ready, rsp_ready \in BOOLEAN,
          next_request \in Requests \cup {None} :
           Edge(start, core_done, arready, rvalid, bad, v_load_ready, rsp_ready, next_request)
    \/ \E arready, rvalid \in BOOLEAN : ResetEdge(arready, rvalid)
    \/ AssertReset
    \/ ReleaseReset

Spec == Init /\ [][Next]_vars

\* The memory takes every burst and delivers every beat, and the V cache comes
\* round to storing; the clock runs during a reset.
Accepts == \E start, core_done, rvalid, bad, v_load_ready, rsp_ready \in BOOLEAN,
              next_request \in Requests \cup {None} :
    Edge(start, core_done, TRUE, rvalid, bad, v_load_ready, rsp_ready, next_request)
Delivers == \E start, core_done, arready, bad, v_load_ready, rsp_ready \in BOOLEAN,
               next_request \in Requests \cup {None} :
    Edge(start, core_done, arready, TRUE, bad, v_load_ready, rsp_ready, next_request)
Stores == \E start, core_done, arready, rvalid, bad, rsp_ready \in BOOLEAN,
             next_request \in Requests \cup {None} :
    Edge(start, core_done, arready, rvalid, bad, TRUE, rsp_ready, next_request)
FairSpec ==
    /\ Spec
    /\ WF_vars(Accepts) /\ WF_vars(Delivers) /\ WF_vars(Stores)
    /\ WF_vars(\E arready, rvalid \in BOOLEAN : ResetEdge(arready, rvalid))
-----------------------------------------------------------------------------
\* A V load that ends without an error has put every vector of this run's V at
\* its address: no beat is lost when the cache stalls, none comes from a burst
\* of an aborted run, and a burst boundary splits no vector.
CleanLoadIsComplete ==
    loader.done /\ ~loader.error =>
        \A a \in Vectors :
            vcache[a] = [i \in 0 .. BEATS_PER_VECTOR - 1 |-> Beat(a * BEATS_PER_VECTOR + i)]

\* What the core is given is what DDR holds, in this run, for the pair it asked
\* for: the line buffer is never that of another line or of an earlier run.
ResponseIsTheRequested ==
    raw.rsp # <<>> =>
        raw.rsp = <<Beat(Line(asked.line) + asked.pair),
                    Beat(Line(asked.line) + asked.pair + LineBeats \div 2)>>

\* Neither client reports an error when every read response was good: the beat
\* counts they check agree with the bursts, however the beats were spaced.
NoErrorWithoutFault == loader.error \/ raw.error => faulted

\* Two clients never drive the channel, and nothing is outstanding when it
\* changes hands.
HandoverIsClean ==
    /\ loader.st # "IDLE" \/ v_rd_start => read_owner_v
    /\ raw.st # "IDLE" \/ raw.start => ~read_owner_v
    /\ loader.done => master.st = "IDLE" /\ memory.left = 0 /\ ~v_rd_start

\* A V load ends and a request is accepted, bad read responses or not, unless
\* the host resets.
ReadsEnd ==
    /\ (phase = "LOAD_V") ~> (phase # "LOAD_V")
    /\ (request # None) ~> (request = None)

\* The loader behaves as the engine's controller takes it to (BoardEngine): busy
\* from the start pulse on, one done pulse, an error flag held until it is
\* started again.
Engine == INSTANCE BoardEngine WITH
    CycleMod <- 1, state <- phase, cycle_count <- 0,
    v <- [busy |-> loader.st # "IDLE", done |-> loader.done, error |-> loader.error],
    core_start <- FALSE, ctx_start <- FALSE, done_latched <- FALSE,
    error_latched <- FALSE, v_loaded <- FALSE, core_done_seen <- FALSE,
    context_done_seen <- FALSE, core <- 0, ctx <- 0, raw_error <- raw.error,
    wr_error <- FALSE, ever_faulted <- FALSE, prev_faulted <- FALSE, finished <- {}

LoaderIsAStage ==
    [][soft_reset \/ soft_reset' \/ \E fault, finish \in SUBSET {"v"} :
           /\ (fault \cup finish # {} => Engine!StageOf("v"))
           /\ Engine!LoaderStep(fault, finish)]_vars
=============================================================================
