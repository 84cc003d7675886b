------------------------ MODULE GroupSequenceProofs ------------------------
(***************************************************************************)
(* Proofs about GroupSequence, for every shape of the heads, every number  *)
(* of groups and every pacing of the reader, the arithmetic, the array and *)
(* what follows it.                                                        *)
(*                                                                         *)
(* Control says which controller may be where while the others are where   *)
(* they are; it makes the three state machines one.  Progress counts the   *)
(* groups.  Filled is about the RAMs: while a group is prepared, every     *)
(* pair before the one in work is in its place, rotated and of this run;   *)
(* once the preparation is done, all are, and nothing writes until the     *)
(* group is finished.  Reading follows a vector from the RAMs through the  *)
(* output registers to the array.                                          *)
(***************************************************************************)
EXTENDS GroupSequence, SequenceTheorems, TLAPS

Tokens == 0 .. SEQ_LEN - 1
Pairs == 0 .. HALF_DIM - 1
Raws == [run : Nat, is_k : BOOLEAN, head : Nat, token : Nat, pair : Nat]
Words == [raw : Raws, angle : Nat]
Elements == [word : Words, upper : BOOLEAN]

SysType ==
    [state : {"IDLE", "LAUNCH", "ACTIVE"}, clear : BOOLEAN, done : BOOLEAN,
     complete : BOOLEAN, completed : Nat, active : 0 .. RUN_GQA_GROUPS - 1,
     busy_error : BOOLEAN, counted : Nat]
BridgeType ==
    [state : {"IDLE", "PREPARE", "LAUNCH", "ACTIVE"}, group : 0 .. RUN_GQA_GROUPS - 1,
     prepare_start : BOOLEAN, pipeline_start : BOOLEAN, rope_done : BOOLEAN]
PrepType ==
    [state : {"IDLE", "REQUEST", "RESPONSE", "RESULT"}, group : 0 .. RUN_GQA_GROUPS - 1,
     is_k : BOOLEAN, head : Heads, token : Tokens, pair : Pairs,
     done : BOOLEAN, cache_clear : BOOLEAN]
RotorType == [state : {"IDLE", "WORK", "OUTPUT"}, word : Words]
CacheType ==
    [complete : BOOLEAN, vec_valid : BOOLEAN, pending : BOOLEAN, upper : BOOLEAN,
     head : Heads]
PipeType == [group : Nat, busy_error : BOOLEAN, invalid_error : BOOLEAN]
DownType ==
    [phase : {"IDLE", "QK", "DRAIN", "LAST"}, position : 0 .. Positions - 1,
     ready : BOOLEAN]
BankType == [Banks -> [Addresses -> Words]]
RamType == [q : [Heads -> BankType], k : BankType]
ReadType == [q : [Heads -> [Banks -> Words]], k : [Banks -> Words]]

TypeOK ==
    /\ sys \in SysType /\ wrapper_start_error \in BOOLEAN
    /\ bridge \in BridgeType /\ prep \in PrepType /\ rotor \in RotorType
    /\ ram \in RamType /\ cache \in CacheType /\ rd_data \in ReadType
    /\ pipe \in PipeType /\ down \in DownType
    /\ asked \in Raws /\ run \in Nat

Control ==
    /\ sys.state # "ACTIVE" <=> bridge.state = "IDLE"
    /\ sys.state = "ACTIVE" => bridge.group = sys.active
    /\ sys.clear => sys.state = "LAUNCH"
    /\ bridge.prepare_start => bridge.state = "PREPARE" /\ prep.state = "IDLE" /\ ~prep.done
    /\ prep.state # "IDLE" => /\ bridge.state = "PREPARE" /\ ~prep.done
                              /\ prep.group = bridge.group
    /\ prep.done => bridge.state = "PREPARE"
    /\ prep.cache_clear => prep.state = "REQUEST"
    /\ prep.is_k => prep.head = 0
    /\ bridge.pipeline_start => bridge.state = "ACTIVE"
    /\ down.phase = "IDLE" <=> (bridge.state # "ACTIVE" \/ bridge.pipeline_start)
    /\ down.phase # "IDLE" => pipe.group = bridge.group
    /\ rotor.state # "IDLE" <=> prep.state = "RESULT"
    /\ asked # NoRaw => prep.state = "RESPONSE"
    /\ ~wrapper_start_error /\ ~pipe.busy_error /\ ~pipe.invalid_error

\* The groups before the n-th, in order.
Upto(n) == [i \in 1 .. n |-> i - 1]
Progress ==
    /\ sys.state # "IDLE" => finished = Upto(sys.active) /\ sys.counted = sys.active
    /\ sys.done => finished = Upto(RUN_GQA_GROUPS) /\ sys.counted = RUN_GQA_GROUPS

\* The pair in work, on its way through the reader and the arithmetic.
InWork ==
    /\ prep.state = "RESPONSE" => asked = raw_req
    /\ prep.state = "RESULT" => rotor.word = [raw |-> raw_req, angle |-> rom_addr]

\* The rotated pair of a token, for a Q head of the active group or for its K
\* head, and the place the cache keeps it at.
WordOf(is_k, head, token, pair) ==
    [raw |-> [run |-> run, is_k |-> is_k, head |-> head, token |-> token, pair |-> pair],
     angle |-> token * HALF_DIM + pair]
Place(token, pair) == (token \div TILE) * HALF_DIM + pair
QFilled(h, t, p) ==
    ram.q[h][t % TILE][Place(t, p)] = WordOf(FALSE, sys.active * Q_HEADS + h, t, p)
KFilled(t, p) ==
    ram.k[t % TILE][Place(t, p)] = WordOf(TRUE, sys.active, t, p)

\* The pair p of token t comes before the pair in work of the same head.
Before(work, t, p) == t < work.token \/ (t = work.token /\ p < work.pair)
Earlier(t, p) == Before(prep, t, p)
Prepared == prep.done \/ bridge.state \in {"LAUNCH", "ACTIVE"}
QDone(h, t, p) ==
    \/ Prepared
    \/ /\ prep.state # "IDLE"
       /\ prep.is_k \/ h < prep.head \/ (h = prep.head /\ Earlier(t, p))
KDone(t, p) == Prepared \/ (prep.state # "IDLE" /\ prep.is_k /\ Earlier(t, p))
Filled ==
    /\ \A h \in Heads, t \in Tokens, p \in Pairs : QDone(h, t, p) => QFilled(h, t, p)
    /\ \A t \in Tokens, p \in Pairs : KDone(t, p) => KFilled(t, p)

\* The vector of the request, as the registers of the read side hold it.
QElement(b) == Rotated(FALSE, sys.active * Q_HEADS + request.head, request.row + b, request.dim)
KElement(b) == Rotated(TRUE, sys.active, request.col + b, request.dim)
Reading ==
    /\ down.ready => down.phase = "QK"
    /\ cache.pending \/ cache.vec_valid => down.ready
    /\ cache.pending =>
          /\ ~cache.vec_valid
          /\ cache.head = request.head
          /\ \A b \in Banks :
                /\ QElement(b) = [word |-> rd_data.q[cache.head][b], upper |-> cache.upper]
                /\ KElement(b) = [word |-> rd_data.k[b], upper |-> cache.upper]
    /\ cache.vec_valid => vec = [q |-> [b \in Banks |-> QElement(b)],
                                 k |-> [b \in Banks |-> KElement(b)]]

IInv == TypeOK /\ Control /\ Progress /\ InWork /\ Filled /\ Reading
-----------------------------------------------------------------------------
(***************************************************************************)
(* Arithmetic of the shapes.                                               *)
(***************************************************************************)
RowTiles == SEQ_LEN \div TILE

LEMMA Sizes ==
  /\ TILE \in Nat \ {0} /\ SEQ_LEN \in Nat \ {0} /\ HALF_DIM \in Nat \ {0}
  /\ HEAD_DIM \in Nat \ {0} /\ HEAD_DIM = HALF_DIM + HALF_DIM
  /\ Q_HEADS \in Nat \ {0} /\ GQA_GROUPS \in Nat /\ RUN_GQA_GROUPS \in Nat \ {0}
  /\ RUN_GQA_GROUPS <= GQA_GROUPS
  /\ RowTiles \in Nat \ {0} /\ SEQ_LEN = RowTiles * TILE
  /\ MaxRuns \in Nat
  <1>1. /\ TILE \in Nat \ {0} /\ SEQ_LEN \in Nat \ {0} /\ SEQ_LEN % TILE = 0
        /\ HEAD_DIM \in Nat \ {0} /\ HEAD_DIM % 2 = 0
    BY GroupAssumption
  <1>2. HALF_DIM \in Nat \ {0} /\ HEAD_DIM = HALF_DIM + HALF_DIM BY <1>1 DEF HALF_DIM
  <1>3. \A t \in Nat \ {0}, n \in Nat \ {0} :
            n % t = 0 => n \div t \in Nat \ {0} /\ n = (n \div t) * t
    <2> SUFFICES ASSUME NEW t \in Nat \ {0}, NEW n \in Nat \ {0}, n % t = 0
                 PROVE  n \div t \in Nat \ {0} /\ n = (n \div t) * t
      OBVIOUS
    <2>1. n = (n \div t) * t + (n % t) /\ n \div t \in Nat OBVIOUS
    <2> QED BY <2>1
  <1>4. RowTiles \in Nat \ {0} /\ SEQ_LEN = RowTiles * TILE BY <1>1, <1>3 DEF RowTiles
  <1> QED BY <1>1, <1>2, <1>4, GroupAssumption

\* A quotient and a remainder are what they should be.
LEMMA QuotientOf ==
  ASSUME NEW t \in Nat \ {0}, NEW a \in Nat, NEW r \in 0 .. t - 1
  PROVE  (a * t + r) \div t = a /\ (a * t + r) % t = r
  OBVIOUS

LEMMA Division ==
  ASSUME NEW t \in Nat \ {0}, NEW a \in Nat
  PROVE  /\ a \div t \in Nat /\ a % t \in 0 .. t - 1
         /\ a = (a \div t) * t + (a % t)
  OBVIOUS

\* A quotient is smaller than m when the dividend is smaller than m times the
\* divisor.
LEMMA QuotientBelow ==
  ASSUME NEW t \in Nat \ {0}, NEW m \in Nat, NEW a \in Nat, a < m * t
  PROVE  a \div t \in Nat /\ a \div t < m
  <1> DEFINE q == a \div t
  <1>1. q \in Nat /\ q * t <= a OBVIOUS
  <1> HIDE DEF q
  <1>2. ASSUME q >= m PROVE FALSE
    <2>1. q * t >= m * t /\ q * t \in Nat /\ m * t \in Nat BY <1>1, <1>2
    <2> QED BY <1>1, <2>1
  <1>3. q < m BY <1>1, <1>2
  <1> QED BY <1>1, <1>3 DEF q

\* Rows of h below n of them stay below n * h.
LEMMA BelowProduct ==
  ASSUME NEW n \in Nat, NEW h \in Nat \ {0}, NEW a \in 0 .. n - 1, NEW r \in 0 .. h - 1
  PROVE  a * h + r \in 0 .. n * h - 1
  <1>1. (a + 1) * h <= n * h
    <2>1. a + 1 <= n /\ a + 1 \in Nat OBVIOUS
    <2>2. \A x, y \in Nat : x <= y => x * h <= y * h OBVIOUS
    <2> QED BY <2>1, <2>2
  <1>2. (a + 1) * h = a * h + h OBVIOUS
  <1>3. a * h \in Nat /\ n * h \in Nat OBVIOUS
  <1> QED BY <1>1, <1>2, <1>3

\* Every token and pair has its place in the banks,
LEMMA PlaceInRange ==
  ASSUME NEW t \in Tokens, NEW p \in Pairs
  PROVE  t % TILE \in Banks /\ Place(t, p) \in Addresses
  <1>1. /\ TILE \in Nat \ {0} /\ HALF_DIM \in Nat \ {0} /\ RowTiles \in Nat
        /\ t \in Nat /\ t < RowTiles * TILE /\ p \in 0 .. HALF_DIM - 1
    BY Sizes DEF Tokens, Pairs
  <1>2. t % TILE \in Banks BY <1>1 DEF Banks
  <1>3. t \div TILE \in 0 .. RowTiles - 1 BY <1>1, QuotientBelow
  <1>4. (t \div TILE) * HALF_DIM + p \in 0 .. RowTiles * HALF_DIM - 1
    BY <1>1, <1>3, BelowProduct
  <1> QED BY <1>2, <1>4 DEF Place, Addresses, RowTiles

\* one of its own.
LEMMA PlacesDiffer ==
  ASSUME NEW t1 \in Tokens, NEW t2 \in Tokens, NEW p1 \in Pairs, NEW p2 \in Pairs,
         t1 % TILE = t2 % TILE, Place(t1, p1) = Place(t2, p2)
  PROVE  t1 = t2 /\ p1 = p2
  <1> DEFINE a1 == t1 \div TILE
             a2 == t2 \div TILE
  <1>1. TILE \in Nat \ {0} /\ HALF_DIM \in Nat \ {0} /\ t1 \in Nat /\ t2 \in Nat
        /\ p1 \in 0 .. HALF_DIM - 1 /\ p2 \in 0 .. HALF_DIM - 1
    BY Sizes DEF Tokens, Pairs
  <1>2. /\ a1 \in Nat /\ t1 = a1 * TILE + (t1 % TILE)
        /\ a2 \in Nat /\ t2 = a2 * TILE + (t2 % TILE)
    BY <1>1, Division
  <1>3. a1 * HALF_DIM + p1 = a2 * HALF_DIM + p2 BY DEF Place
  <1> HIDE DEF a1, a2
  <1>4. /\ (a1 * HALF_DIM + p1) \div HALF_DIM = a1 /\ (a1 * HALF_DIM + p1) % HALF_DIM = p1
        /\ (a2 * HALF_DIM + p2) \div HALF_DIM = a2 /\ (a2 * HALF_DIM + p2) % HALF_DIM = p2
    BY <1>1, <1>2, QuotientOf
  <1>5. a1 = a2 /\ p1 = p2 BY <1>3, <1>4
  <1> QED BY <1>2, <1>5

\* The b-th row of a tile lies in bank b.
LEMMA TileToken ==
  ASSUME NEW k \in 0 .. RowTiles - 1, NEW b \in Banks
  PROVE  k * TILE + b \in Tokens /\ (k * TILE + b) % TILE = b
  <1>1. TILE \in Nat \ {0} /\ RowTiles \in Nat /\ b \in 0 .. TILE - 1 /\ k \in Nat
    BY Sizes DEF Banks
  <1>2. k * TILE + b \in 0 .. RowTiles * TILE - 1 BY <1>1, BelowProduct
  <1>3. k * TILE + b \in Tokens BY <1>2, Sizes DEF Tokens
  <1>4. (k * TILE + b) % TILE = b BY <1>1, QuotientOf
  <1> QED BY <1>3, <1>4

\* What the array asks for exists, and its rows and columns are tiles.
LEMMA RequestInRange ==
  ASSUME down.position \in 0 .. Positions - 1
  PROVE  /\ request.head \in Heads /\ request.dim \in 0 .. HEAD_DIM - 1
         /\ \E k \in 0 .. RowTiles - 1 : request.row = k * TILE
         /\ \E k \in 0 .. RowTiles - 1 : request.col = k * TILE
  <1> DEFINE x == down.position
             n == RowTiles
             t == x \div HEAD_DIM
  <1>1. /\ n \in Nat \ {0} /\ HEAD_DIM \in Nat \ {0} /\ Q_HEADS \in Nat \ {0}
        /\ TILE \in Nat \ {0}
    BY Sizes
  <1>2. Positions = ((Q_HEADS * n) * n) * HEAD_DIM BY DEF Positions, RowTiles
  <1>3. /\ request.head = t \div (n * n) /\ request.row = ((t \div n) % n) * TILE
        /\ request.col = (t % n) * TILE /\ request.dim = x % HEAD_DIM
    BY DEF request, RowTiles, Tile
  <1> HIDE DEF n
  <1>4. n * n \in Nat \ {0} /\ Q_HEADS * (n * n) \in Nat /\ (Q_HEADS * n) * n = Q_HEADS * (n * n)
        /\ (Q_HEADS * (n * n)) * HEAD_DIM \in Nat
    BY <1>1
  <1>5. x \in Nat /\ x < (Q_HEADS * (n * n)) * HEAD_DIM BY <1>2, <1>4
  <1>6. t \in Nat /\ t < Q_HEADS * (n * n) BY <1>1, <1>4, <1>5, QuotientBelow
  <1>7. x % HEAD_DIM \in 0 .. HEAD_DIM - 1 BY <1>1, <1>5, Division
  <1> HIDE DEF t, x
  <1>8. t \div (n * n) \in Nat /\ t \div (n * n) < Q_HEADS
    BY <1>1, <1>4, <1>6, QuotientBelow
  <1>9. t % n \in 0 .. n - 1 /\ t \div n \in Nat BY <1>1, <1>6, Division
  <1>10. (t \div n) % n \in 0 .. n - 1 BY <1>1, <1>9, Division
  <1>11. request.head \in Heads BY <1>1, <1>3, <1>8 DEF Heads
  <1> QED BY <1>3, <1>7, <1>9, <1>10, <1>11 DEF n
-----------------------------------------------------------------------------
(***************************************************************************)
(* What an edge does to each controller.                                   *)
(***************************************************************************)
Same(new, old) == new.active = old.active /\ new.counted = old.counted

LEMMA SysMoves ==
  ASSUME TypeOK, NEW start \in BOOLEAN, NEW ready \in BOOLEAN, SysStep(start, ready)
  PROVE  /\ sys' \in SysType
         /\ sys.state = "IDLE" /\ start =>
                sys'.state = "LAUNCH" /\ ~sys'.done /\ sys'.active = 0 /\ sys'.counted = 0
         /\ sys.state = "IDLE" /\ ~start =>
                sys'.state = "IDLE" /\ ~sys'.done /\ ~sys'.clear /\ Same(sys', sys)
         /\ sys.state = "LAUNCH" =>
                /\ ~sys'.done /\ ~sys'.clear /\ Same(sys', sys)
                /\ sys'.state = IF group_start_ready THEN "ACTIVE" ELSE "LAUNCH"
         /\ sys.state = "ACTIVE" /\ ~GroupDone(ready) =>
                sys'.state = "ACTIVE" /\ ~sys'.done /\ ~sys'.clear /\ Same(sys', sys)
         /\ sys.state = "ACTIVE" /\ GroupDone(ready) =>
                /\ ~sys'.clear /\ sys'.counted = sys.counted + 1
                /\ IF sys.active = RUN_GQA_GROUPS - 1
                   THEN sys'.state = "IDLE" /\ sys'.done
                   ELSE sys'.state = "LAUNCH" /\ ~sys'.done /\ sys'.active = sys.active + 1
  <1>1. sys \in SysType BY DEF TypeOK
  <1>2. RUN_GQA_GROUPS \in Nat \ {0} BY Sizes
  <1>3. SysBase(start) \in SysType
        /\ SysBase(start).state = sys.state /\ ~SysBase(start).clear
        /\ ~SysBase(start).done /\ Same(SysBase(start), sys)
    BY <1>1 DEF SysType, SysBase, Same, start_ready
  <1>4. CASE sys.state = "IDLE"
    <2>1. sys' = SysIdle(start) BY <1>4 DEF SysStep
    <2>2. CASE start
      <3> DEFINE base == SysBase(start)
      <3>1. sys' = [base EXCEPT !.state = "LAUNCH", !.clear = TRUE, !.active = 0,
                         !.completed = 0, !.busy_error = FALSE, !.counted = 0]
        BY <2>1, <2>2 DEF SysIdle
      <3>2. base \in SysType /\ ~base.done BY <1>3
      <3> HIDE DEF base
      <3>3. sys' = [state |-> "LAUNCH", clear |-> TRUE, done |-> base.done,
                    complete |-> base.complete, completed |-> 0, active |-> 0,
                    busy_error |-> FALSE, counted |-> 0]
        BY <3>1, <3>2 DEF SysType
      <3>5. sys' \in SysType BY <1>2, <3>2, <3>3 DEF SysType
      <3>4. sys'.state = "LAUNCH" /\ ~sys'.done /\ sys'.active = 0 /\ sys'.counted = 0
        BY <3>1, <3>2 DEF SysType
      <3> QED BY <1>4, <2>2, <3>5, <3>4
    <2>3. CASE ~start BY <1>1, <1>2, <1>3, <1>4, <2>1, <2>3 DEF SysIdle
    <2> QED BY <1>4, <2>2, <2>3
  <1>5. CASE sys.state = "LAUNCH"
    <2>1. sys' = SysLaunch(start) BY <1>5 DEF SysStep
    <2> QED BY <1>1, <1>3, <1>5, <2>1 DEF SysLaunch, SysType, Same
  <1>6. CASE sys.state = "ACTIVE"
    <2>1. sys' = SysActive(start, ready) BY <1>6 DEF SysStep
    <2>2. CASE GroupDone(ready)
      <3> DEFINE base == SysBase(start)
                 last == sys.active = RUN_GQA_GROUPS - 1
      <3>1. sys' = [base EXCEPT !.complete = TRUE, !.completed = sys.active,
                         !.counted = @ + 1, !.done = last,
                         !.active = IF last THEN @ ELSE @ + 1,
                         !.state = IF last THEN "IDLE" ELSE "LAUNCH"]
        BY <2>1, <2>2 DEF SysActive
      <3>2. /\ base \in SysType /\ ~base.clear /\ base.active = sys.active
            /\ base.counted = sys.counted
        BY <1>3 DEF Same
      <3>3. sys.active \in 0 .. RUN_GQA_GROUPS - 1 BY <1>1 DEF SysType
      <3> HIDE DEF base
      <3>5. sys' = [state |-> IF last THEN "IDLE" ELSE "LAUNCH", clear |-> base.clear,
                    done |-> last, complete |-> TRUE, completed |-> sys.active,
                    active |-> IF last THEN sys.active ELSE sys.active + 1,
                    busy_error |-> base.busy_error, counted |-> sys.counted + 1]
        BY <3>1, <3>2 DEF SysType
      <3>6. /\ sys.active \in Nat /\ sys.counted + 1 \in Nat
            /\ base.clear \in BOOLEAN /\ base.busy_error \in BOOLEAN
        BY <1>1, <3>2, <3>3 DEF SysType
      <3>7. ~last => sys.active + 1 \in 0 .. RUN_GQA_GROUPS - 1 BY <1>2, <3>3
      <3>4. /\ ~sys'.clear /\ sys'.counted = sys.counted + 1
            /\ last => sys' \in SysType /\ sys'.state = "IDLE" /\ sys'.done
            /\ ~last => /\ sys' \in SysType /\ sys'.state = "LAUNCH" /\ ~sys'.done
                       /\ sys'.active = sys.active + 1
        <4>1. CASE last BY <3>2, <3>3, <3>5, <3>6, <4>1 DEF SysType
        <4>2. CASE ~last
          <5>1. sys' = [state |-> "LAUNCH", clear |-> base.clear, done |-> FALSE,
                        complete |-> TRUE, completed |-> sys.active,
                        active |-> sys.active + 1, busy_error |-> base.busy_error,
                        counted |-> sys.counted + 1]
            BY <3>5, <4>2
          <5> HIDE DEF last
          <5> QED BY <3>2, <3>6, <3>7, <4>2, <5>1 DEF SysType
        <4> QED BY <4>1, <4>2
      <3> QED BY <1>6, <2>2, <3>4
    <2>3. CASE ~GroupDone(ready)
      BY <1>1, <1>3, <1>6, <2>1, <2>3 DEF SysActive
    <2> QED BY <1>6, <2>2, <2>3
  <1> QED BY <1>1, <1>4, <1>5, <1>6 DEF SysType

LEMMA BridgeMoves ==
  ASSUME TypeOK, NEW ready \in BOOLEAN, BridgeStep(ready)
  PROVE  /\ bridge' \in BridgeType
         /\ ~(bridge.state = "IDLE" /\ group_start /\ group_start_ready) =>
                ~bridge'.prepare_start /\ bridge'.group = bridge.group
         /\ ~(bridge.state = "LAUNCH" /\ pipeline_start_ready) => ~bridge'.pipeline_start
         /\ bridge.state = "IDLE" /\ group_start /\ group_start_ready =>
                bridge'.state = "PREPARE" /\ bridge'.prepare_start /\ bridge'.group = sys.active
         /\ bridge.state = "IDLE" /\ ~(group_start /\ group_start_ready) =>
                bridge'.state = "IDLE"
         /\ bridge.state = "PREPARE" =>
                bridge'.state = IF prep.done THEN "LAUNCH" ELSE "PREPARE"
         /\ bridge.state = "LAUNCH" =>
                IF pipeline_start_ready
                THEN bridge'.state = "ACTIVE" /\ bridge'.pipeline_start
                ELSE bridge'.state = "LAUNCH"
         /\ bridge.state = "ACTIVE" =>
                bridge'.state = IF GroupDone(ready) THEN "IDLE" ELSE "ACTIVE"
  <1>1. bridge \in BridgeType /\ sys \in SysType BY DEF TypeOK
  <1>2. /\ BridgeBase \in BridgeType /\ BridgeBase.state = bridge.state
        /\ BridgeBase.group = bridge.group /\ ~BridgeBase.prepare_start
        /\ ~BridgeBase.pipeline_start
    BY <1>1 DEF BridgeType, BridgeBase
  <1>3. CASE bridge.state = "IDLE" /\ group_start /\ group_start_ready
    <2>1. bridge' = [BridgeBase EXCEPT !.group = sys.active, !.prepare_start = TRUE,
                                       !.state = "PREPARE"]
      BY <1>3 DEF BridgeStep
    <2> QED BY <1>1, <1>2, <1>3, <2>1 DEF BridgeType, SysType
  <1>4. CASE bridge.state = "PREPARE" /\ prep.done
    <2>1. bridge' = [BridgeBase EXCEPT !.rope_done = TRUE, !.state = "LAUNCH"]
      BY <1>4 DEF BridgeStep
    <2> QED BY <1>1, <1>2, <1>4, <2>1 DEF BridgeType
  <1>5. CASE bridge.state = "LAUNCH" /\ pipeline_start_ready
    <2>1. bridge' = [BridgeBase EXCEPT !.pipeline_start = TRUE, !.state = "ACTIVE"]
      BY <1>5 DEF BridgeStep
    <2> QED BY <1>1, <1>2, <1>5, <2>1 DEF BridgeType
  <1>6. CASE bridge.state = "ACTIVE" /\ GroupDone(ready)
    <2>1. bridge' = [BridgeBase EXCEPT !.state = "IDLE"]
      BY <1>6 DEF BridgeStep
    <2> QED BY <1>1, <1>2, <1>6, <2>1 DEF BridgeType
  <1>7. CASE /\ ~(bridge.state = "IDLE" /\ group_start /\ group_start_ready)
             /\ ~(bridge.state = "PREPARE" /\ prep.done)
             /\ ~(bridge.state = "LAUNCH" /\ pipeline_start_ready)
             /\ ~(bridge.state = "ACTIVE" /\ GroupDone(ready))
    <2>1. bridge' = BridgeBase BY <1>7 DEF BridgeStep
    <2>2. bridge.state \in {"IDLE", "PREPARE", "LAUNCH", "ACTIVE"} BY <1>1 DEF BridgeType
    <2> QED BY <1>2, <1>7, <2>1, <2>2
  <1> QED BY <1>3, <1>4, <1>5, <1>6, <1>7

LEMMA NextPairType ==
  ASSUME NEW p \in PrepType, ~(p.is_k /\ p.token = SEQ_LEN - 1 /\ p.pair = HALF_DIM - 1),
         p.is_k => p.head = 0
  PROVE  /\ NextPair(p) \in PrepType
         /\ NextPair(p).state = p.state /\ NextPair(p).group = p.group
         /\ NextPair(p).done = p.done /\ NextPair(p).cache_clear = p.cache_clear
         /\ NextPair(p).is_k => NextPair(p).head = 0
  <1>1. /\ p.pair \in 0 .. HALF_DIM - 1 /\ p.token \in 0 .. SEQ_LEN - 1
        /\ p.head \in 0 .. Q_HEADS - 1 /\ p.is_k \in BOOLEAN
        /\ HALF_DIM \in Nat \ {0} /\ SEQ_LEN \in Nat \ {0} /\ Q_HEADS \in Nat \ {0}
    BY Sizes DEF PrepType, Pairs, Tokens, Heads
  <1>2. CASE p.pair < HALF_DIM - 1
    <2>1. p.pair + 1 \in Pairs BY <1>1, <1>2 DEF Pairs
    <2> QED BY <1>2, <2>1 DEF NextPair, PrepType
  <1>3. CASE ~(p.pair < HALF_DIM - 1) /\ p.token < SEQ_LEN - 1
    <2>1. 0 \in Pairs /\ p.token + 1 \in Tokens BY <1>1, <1>3 DEF Pairs, Tokens
    <2> QED BY <1>3, <2>1 DEF NextPair, PrepType
  <1>4. CASE ~(p.pair < HALF_DIM - 1) /\ ~(p.token < SEQ_LEN - 1)
    <2>1. 0 \in Pairs /\ 0 \in Tokens /\ 0 \in Heads BY <1>1 DEF Pairs, Tokens, Heads
    <2>2. ~p.is_k BY <1>1, <1>4
    <2>3. CASE p.head = Q_HEADS - 1
      BY <1>4, <2>1, <2>2, <2>3 DEF NextPair, PrepType
    <2>4. CASE p.head # Q_HEADS - 1
      <3>1. p.head + 1 \in Heads BY <1>1, <2>4 DEF Heads
      <3> QED BY <1>4, <2>1, <2>2, <2>4, <3>1 DEF NextPair, PrepType
    <2> QED BY <2>3, <2>4
  <1> QED BY <1>2, <1>3, <1>4

\* The pair in work does not change.
SamePair(new, old) ==
    /\ new.group = old.group /\ new.is_k = old.is_k /\ new.head = old.head
    /\ new.token = old.token /\ new.pair = old.pair

Starts == prep.state = "IDLE" /\ bridge.prepare_start

LEMMA PrepMoves ==
  ASSUME TypeOK, prep.is_k => prep.head = 0,
         NEW rdy \in BOOLEAN, NEW vld \in BOOLEAN, PrepStep(rdy, vld)
  PROVE  /\ prep' \in PrepType
         /\ prep'.is_k => prep'.head = 0
         /\ Starts => /\ prep'.state = "REQUEST" /\ prep'.group = bridge.group
                      /\ ~prep'.is_k /\ prep'.head = 0 /\ prep'.token = 0 /\ prep'.pair = 0
                      /\ ~prep'.done
         /\ ~Starts => ~prep'.cache_clear
         /\ ~(cache_write /\ final_pair) => ~prep'.done
         /\ prep.state = "IDLE" /\ ~Starts => prep'.state = "IDLE"
         /\ prep.state = "REQUEST" =>
                /\ SamePair(prep', prep)
                /\ prep'.state = IF RequestTaken(rdy) THEN "RESPONSE" ELSE "REQUEST"
         /\ prep.state = "RESPONSE" =>
                /\ SamePair(prep', prep)
                /\ prep'.state = IF ResponseTaken(vld) THEN "RESULT" ELSE "RESPONSE"
         /\ prep.state = "RESULT" /\ ~cache_write =>
                SamePair(prep', prep) /\ prep'.state = "RESULT"
         /\ cache_write /\ final_pair => prep'.state = "IDLE" /\ prep'.done
         /\ cache_write /\ ~final_pair =>
                prep' = [NextPair(PrepBase) EXCEPT !.state = "REQUEST"]
         /\ cache_write /\ ~final_pair =>
                prep'.state = "REQUEST" /\ prep'.group = prep.group
  <1>1. prep \in PrepType /\ bridge \in BridgeType BY DEF TypeOK
  <1>2. /\ PrepBase \in PrepType /\ PrepBase.state = prep.state /\ SamePair(PrepBase, prep)
        /\ ~PrepBase.done /\ ~PrepBase.cache_clear
    BY <1>1 DEF PrepType, PrepBase, SamePair
  <1>3. CASE Starts
    <2>1. prep' = [state |-> "REQUEST", group |-> bridge.group, is_k |-> FALSE,
               head |-> 0, token |-> 0, pair |-> 0, done |-> FALSE, cache_clear |-> TRUE]
      BY <1>3 DEF PrepStep, Starts, ResponseTaken, RequestTaken, cache_write
    <2>2. 0 \in Pairs /\ 0 \in Tokens /\ 0 \in Heads BY Sizes DEF Pairs, Tokens, Heads
    <2> QED BY <1>1, <1>3, <2>1, <2>2 DEF PrepType, BridgeType, Starts, cache_write
  <1>4. CASE RequestTaken(rdy)
    <2>1. prep' = [PrepBase EXCEPT !.state = "RESPONSE"]
      BY <1>4 DEF PrepStep, ResponseTaken, RequestTaken, cache_write
    <2> QED BY <1>1, <1>2, <1>4, <2>1
        DEF PrepType, RequestTaken, Starts, cache_write, SamePair
  <1>5. CASE ResponseTaken(vld)
    <2>1. prep' = [PrepBase EXCEPT !.state = "RESULT"]
      BY <1>5 DEF PrepStep, ResponseTaken, RequestTaken, cache_write
    <2> QED BY <1>1, <1>2, <1>5, <2>1
        DEF PrepType, ResponseTaken, Starts, cache_write, SamePair
  <1>6. CASE cache_write /\ final_pair
    <2>1. prep' = [PrepBase EXCEPT !.done = TRUE, !.state = "IDLE"]
      BY <1>6 DEF PrepStep, ResponseTaken, RequestTaken, cache_write
    <2> QED BY <1>1, <1>2, <1>6, <2>1 DEF PrepType, Starts, cache_write, SamePair
  <1>7. CASE cache_write /\ ~final_pair
    <2>1. prep' = [NextPair(PrepBase) EXCEPT !.state = "REQUEST"]
      BY <1>7 DEF PrepStep, ResponseTaken, RequestTaken, cache_write
    <2>2. /\ NextPair(PrepBase) \in PrepType
          /\ NextPair(PrepBase).group = PrepBase.group
          /\ NextPair(PrepBase).done = PrepBase.done
          /\ NextPair(PrepBase).cache_clear = PrepBase.cache_clear
          /\ NextPair(PrepBase).is_k => NextPair(PrepBase).head = 0
      BY <1>2, <1>7, NextPairType DEF final_pair, SamePair
    <2> DEFINE np == NextPair(PrepBase)
    <2> HIDE DEF np
    <2>3. /\ np \in PrepType /\ np.group = prep.group /\ ~np.done /\ ~np.cache_clear
          /\ np.is_k => np.head = 0
      BY <1>2, <2>2 DEF np, SamePair
    <2>4. prep' = [np EXCEPT !.state = "REQUEST"] BY <2>1 DEF np
    <2>5. /\ prep' \in PrepType /\ prep'.state = "REQUEST" /\ prep'.group = prep.group
          /\ ~prep'.done /\ ~prep'.cache_clear /\ prep'.is_k => prep'.head = 0
      BY <2>3, <2>4 DEF PrepType
    <2> QED BY <1>7, <2>1, <2>3, <2>4, <2>5 DEF Starts, cache_write, PrepType
  <1>8. CASE /\ ~Starts /\ ~RequestTaken(rdy) /\ ~ResponseTaken(vld) /\ ~cache_write
    <2>1. prep' = PrepBase BY <1>8 DEF PrepStep, Starts
    <2> QED BY <1>1, <1>2, <1>8, <2>1 DEF PrepType, SamePair
  <1> QED BY <1>3, <1>4, <1>5, <1>6, <1>7, <1>8

LEMMA NoRawIsRaw == NoRaw \in Raws
  BY DEF NoRaw, Raws

LEMMA AngleInNat ==
  ASSUME prep \in PrepType PROVE rom_addr \in Nat
  <1>1. prep.token \in Nat /\ prep.pair \in Nat /\ HALF_DIM \in Nat
    BY Sizes DEF PrepType, Tokens, Pairs
  <1> QED BY <1>1 DEF rom_addr

LEMMA RequestIsRaw ==
  ASSUME TypeOK PROVE raw_req \in Raws
  <1>1. /\ prep.token \in Nat /\ prep.pair \in Nat /\ prep.head \in Nat /\ prep.group \in Nat
        /\ prep.is_k \in BOOLEAN /\ run \in Nat /\ Q_HEADS \in Nat
    BY Sizes DEF TypeOK, PrepType, Tokens, Pairs, Heads
  <1>2. prep.group * Q_HEADS + prep.head \in Nat BY <1>1
  <1> QED BY <1>1, <1>2 DEF raw_req, raw_req_head, Raws

LEMMA RotorMoves ==
  ASSUME TypeOK, NEW vld \in BOOLEAN, NEW rotated \in BOOLEAN, RotorStep(vld, rotated)
  PROVE  /\ rotor' \in RotorType
         /\ ResponseTaken(vld) => /\ rotor'.state = "WORK"
                                  /\ rotor'.word = [raw |-> asked, angle |-> rom_addr]
         /\ ~ResponseTaken(vld) => rotor'.word = rotor.word
         /\ cache_write => rotor'.state = "IDLE"
         /\ ~cache_write /\ rotor.state # "IDLE" => rotor'.state # "IDLE"
         /\ ~ResponseTaken(vld) /\ rotor.state = "IDLE" => rotor'.state = "IDLE"
  <1>1. rotor \in RotorType /\ asked \in Raws BY DEF TypeOK
  <1>2. CASE ResponseTaken(vld)
    <2>1. rotor' = [state |-> "WORK", word |-> [raw |-> asked, angle |-> rom_addr]]
      BY <1>2 DEF RotorStep, ResponseTaken, cache_write
    <2>2. rom_addr \in Nat BY AngleInNat DEF TypeOK
    <2>3. [raw |-> asked, angle |-> rom_addr] \in Words BY <1>1, <2>2 DEF Words
    <2> QED BY <1>2, <2>1, <2>3 DEF RotorType, ResponseTaken, cache_write
  <1>3. CASE ~ResponseTaken(vld) /\ rotor.state = "WORK" /\ rotated
    <2>1. rotor' = [rotor EXCEPT !.state = "OUTPUT"] BY <1>3 DEF RotorStep, ResponseTaken, cache_write
    <2> QED BY <1>1, <1>3, <2>1 DEF RotorType, cache_write
  <1>4. CASE ~ResponseTaken(vld) /\ cache_write
    <2>1. rotor' = [rotor EXCEPT !.state = "IDLE"] BY <1>4 DEF RotorStep, ResponseTaken, cache_write
    <2> QED BY <1>1, <1>4, <2>1 DEF RotorType, cache_write
  <1>5. CASE ~ResponseTaken(vld) /\ ~(rotor.state = "WORK" /\ rotated) /\ ~cache_write
    <2>1. rotor' = rotor BY <1>5 DEF RotorStep
    <2> QED BY <1>1, <1>5, <2>1
  <1> QED BY <1>2, <1>3, <1>4, <1>5

LEMMA ReaderMoves ==
  ASSUME TypeOK, NEW rdy \in BOOLEAN, NEW vld \in BOOLEAN, ReaderStep(rdy, vld)
  PROVE  /\ asked' \in Raws
         /\ vld => asked # NoRaw
         /\ RequestTaken(rdy) => asked' = raw_req
         /\ ~RequestTaken(rdy) /\ ResponseTaken(vld) => asked' = NoRaw
         /\ ~RequestTaken(rdy) /\ ~ResponseTaken(vld) => asked' = asked
  <1>1. asked \in Raws BY DEF TypeOK
  <1> QED BY <1>1, RequestIsRaw, NoRawIsRaw DEF ReaderStep

LEMMA PipeMoves ==
  ASSUME TypeOK, PipeStep
  PROVE  /\ pipe' \in PipeType
         /\ sys.clear => ~pipe'.busy_error /\ ~pipe'.invalid_error
         /\ ~sys.clear /\ qk_start =>
                pipe'.group = bridge.group /\ ~pipe'.busy_error /\ ~pipe'.invalid_error
         /\ ~sys.clear /\ ~qk_start =>
                /\ pipe'.group = pipe.group
                /\ ~bridge.pipeline_start =>
                     pipe'.busy_error = pipe.busy_error /\ pipe'.invalid_error = pipe.invalid_error
  <1>1. pipe \in PipeType /\ bridge \in BridgeType BY DEF TypeOK
  <1>2. bridge.group \in Nat /\ bridge.pipeline_start \in BOOLEAN /\ pipeline_start_ready \in BOOLEAN
    BY <1>1, Sizes DEF BridgeType, pipeline_start_ready
  <1>3. CASE sys.clear
    <2>1. pipe' = [group |-> 0, busy_error |-> FALSE, invalid_error |-> FALSE]
      BY <1>3 DEF PipeStep
    <2> QED BY <1>3, <2>1 DEF PipeType
  <1>4. CASE ~sys.clear /\ qk_start
    <2>1. pipe' = [group |-> bridge.group, busy_error |-> FALSE, invalid_error |-> FALSE]
      BY <1>4 DEF PipeStep
    <2> QED BY <1>2, <1>4, <2>1 DEF PipeType
  <1>5. CASE ~sys.clear /\ ~qk_start
    <2>1. pipe' = [pipe EXCEPT
                 !.busy_error = @ \/ (bridge.pipeline_start /\ ~pipeline_start_ready),
                 !.invalid_error = @ \/ (bridge.pipeline_start /\ pipeline_start_ready)]
      BY <1>5 DEF PipeStep
    <2> QED BY <1>1, <1>2, <1>5, <2>1 DEF PipeType
  <1> QED BY <1>3, <1>4, <1>5

LEMMA DownMoves ==
  ASSUME TypeOK, NEW moves \in BOOLEAN, NEW ready \in BOOLEAN, DownStep(moves, ready),
         sys.clear => down.phase = "IDLE"
  PROVE  /\ down' \in DownType
         /\ qk_start => down'.phase = "QK" /\ ~down'.ready
         /\ ~qk_start /\ down.phase = "IDLE" => down'.phase = "IDLE" /\ down'.ready = down.ready
         /\ down.phase = "QK" /\ ~delivered =>
                /\ down'.phase = "QK" /\ down'.position = down.position
                /\ down.ready => down'.ready
         /\ down.phase = "QK" /\ delivered => ~down'.ready /\ down'.phase # "IDLE"
         /\ down.phase \in {"DRAIN", "LAST"} =>
                /\ down'.phase = "IDLE" <=> GroupDone(ready)
                /\ down'.phase # "QK" /\ down'.ready = down.ready
  <1>1. down \in DownType BY DEF TypeOK
  <1>2. Positions \in Nat \ {0} /\ 0 \in 0 .. Positions - 1
    <2>1. down.position \in 0 .. Positions - 1 /\ Positions \in Int
      <3>1. HEAD_DIM \in Nat /\ Q_HEADS \in Nat /\ RowTiles \in Nat BY Sizes
      <3>2. \A a, b, c \in Nat : a * b * b * c \in Nat OBVIOUS
      <3> QED BY <1>1, <3>1, <3>2 DEF DownType, Positions, RowTiles
    <2> QED BY <2>1
  <1>3. CASE qk_start
    <2>1. down' = [phase |-> "QK", position |-> 0, ready |-> FALSE] BY <1>3 DEF DownStep, qk_start, pipeline_start_ready, GroupDone
    <2> QED BY <1>2, <1>3, <2>1 DEF DownType, qk_start, pipeline_start_ready
  <1>4. CASE down.phase = "QK" /\ delivered
    <2>1. ~qk_start BY <1>4 DEF qk_start, pipeline_start_ready
    <2>2. CASE down.position = Positions - 1
      <3>1. down' = [phase |-> "DRAIN", position |-> 0, ready |-> FALSE]
        BY <1>4, <2>1, <2>2 DEF DownStep, qk_start, pipeline_start_ready, GroupDone
      <3> QED BY <1>2, <1>4, <2>1, <3>1 DEF DownType
    <2>3. CASE down.position # Positions - 1
      <3>1. down' = [down EXCEPT !.position = @ + 1, !.ready = FALSE]
        BY <1>4, <2>1, <2>3 DEF DownStep, qk_start, pipeline_start_ready, GroupDone
      <3>2. down.position + 1 \in 0 .. Positions - 1 BY <1>1, <1>2, <2>3 DEF DownType
      <3> QED BY <1>1, <1>4, <2>1, <3>1, <3>2 DEF DownType
    <2> QED BY <2>2, <2>3
  <1>5. CASE down.phase = "QK" /\ ~delivered
    <2>1. ~qk_start BY <1>5 DEF qk_start, pipeline_start_ready
    <2>2. down' = [down EXCEPT !.ready = @ \/ moves] BY <1>5, <2>1 DEF DownStep, qk_start, pipeline_start_ready, GroupDone
    <2> QED BY <1>1, <1>5, <2>1, <2>2 DEF DownType
  <1>6. CASE down.phase \in {"DRAIN", "LAST"}
    <2>1. ~sys.clear /\ ~qk_start BY <1>6 DEF qk_start, pipeline_start_ready
    <2>2. CASE down.phase = "DRAIN" /\ moves
      <3>1. down' = [down EXCEPT !.phase = "LAST"] BY <1>6, <2>1, <2>2 DEF DownStep, GroupDone
      <3> QED BY <1>1, <1>6, <2>1, <2>2, <3>1 DEF DownType, GroupDone
    <2>3. CASE GroupDone(ready)
      <3>1. down' = [down EXCEPT !.phase = "IDLE"] BY <1>6, <2>1, <2>3 DEF DownStep, GroupDone
      <3> QED BY <1>1, <1>6, <2>1, <2>3, <3>1 DEF DownType, GroupDone
    <2>4. CASE ~(down.phase = "DRAIN" /\ moves) /\ ~GroupDone(ready)
      <3>1. down' = down BY <1>6, <2>1, <2>4 DEF DownStep
      <3> QED BY <1>1, <1>6, <2>1, <2>4, <3>1 DEF DownType
    <2> QED BY <2>2, <2>3, <2>4
  <1>7. CASE down.phase = "IDLE" /\ ~qk_start
    <2>1. down' = down BY <1>7 DEF DownStep, GroupDone
    <2> QED BY <1>1, <1>7, <2>1 DEF DownType
  <1> QED BY <1>1, <1>3, <1>4, <1>5, <1>6, <1>7 DEF DownType
-----------------------------------------------------------------------------
(***************************************************************************)
(* The control part of the invariant.                                      *)
(***************************************************************************)

\* Everything moves at a group's last word, which only an active bridge sees.
LEMMA GroupDoneIsActive ==
  ASSUME TypeOK, Control, NEW ready \in BOOLEAN, GroupDone(ready)
  PROVE  /\ bridge.state = "ACTIVE" /\ ~bridge.pipeline_start /\ down.phase = "LAST"
         /\ sys.state = "ACTIVE" /\ prep.state = "IDLE" /\ pipe.group = sys.active
  <1>1. down.phase = "LAST" BY DEF GroupDone
  <1>2. bridge.state = "ACTIVE" /\ ~bridge.pipeline_start BY <1>1 DEF Control
  <1>3. sys.state \in {"IDLE", "LAUNCH", "ACTIVE"} BY DEF TypeOK, SysType
  <1>4. sys.state = "ACTIVE" BY <1>2 DEF Control
  <1>5. prep.state = "IDLE" BY <1>2 DEF Control
  <1> QED BY <1>1, <1>2, <1>4, <1>5 DEF Control

LEMMA ControlStep ==
  ASSUME TypeOK, Control,
         NEW start \in BOOLEAN, NEW rdy \in BOOLEAN, NEW vld \in BOOLEAN,
         NEW rotated \in BOOLEAN, NEW moves \in BOOLEAN, NEW ready \in BOOLEAN,
         Edge(start, rdy, vld, rotated, moves, ready)
  PROVE  Control'
  <1>1. /\ SysStep(start, ready) /\ WrapperStep /\ BridgeStep(ready)
        /\ PrepStep(rdy, vld) /\ RotorStep(vld, rotated) /\ ReaderStep(rdy, vld)
        /\ PipeStep /\ DownStep(moves, ready)
    BY DEF Edge
  <1>2. /\ sys.state \in {"IDLE", "LAUNCH", "ACTIVE"}
        /\ bridge.state \in {"IDLE", "PREPARE", "LAUNCH", "ACTIVE"}
        /\ prep.state \in {"IDLE", "REQUEST", "RESPONSE", "RESULT"}
        /\ rotor.state \in {"IDLE", "WORK", "OUTPUT"}
        /\ down.phase \in {"IDLE", "QK", "DRAIN", "LAST"}
        /\ bridge.group < GQA_GROUPS
    BY Sizes DEF TypeOK, SysType, BridgeType, PrepType, RotorType, DownType
  <1>3. group_start_ready <=> bridge.state = "IDLE"
    BY <1>2 DEF group_start_ready, Control
  <1>4. group_start <=> sys.state = "LAUNCH" BY DEF group_start
  <1>5. sys.state = "LAUNCH" => group_start_ready BY <1>2, <1>3 DEF Control
  <1>6. GroupDone(ready) => bridge.state = "ACTIVE" /\ sys.state = "ACTIVE" /\ prep.state = "IDLE"
                            /\ down.phase = "LAST" /\ ~bridge.pipeline_start
    BY GroupDoneIsActive
  <1>7. /\ sys.state = "IDLE" => sys'.state \in {"IDLE", "LAUNCH"} /\ (sys'.clear => sys'.state = "LAUNCH")
        /\ sys.state = "LAUNCH" => sys'.state = "ACTIVE" /\ sys'.active = sys.active
        /\ sys.state = "ACTIVE" /\ ~GroupDone(ready) => sys'.state = "ACTIVE" /\ sys'.active = sys.active
        /\ sys.state = "ACTIVE" /\ GroupDone(ready) => sys'.state \in {"IDLE", "LAUNCH"}
        /\ sys.state # "IDLE" => ~sys'.clear
    BY <1>1, <1>2, <1>5, SysMoves DEF Same
  <1>8. /\ bridge.state = "IDLE" /\ sys.state = "LAUNCH" =>
              bridge'.state = "PREPARE" /\ bridge'.prepare_start /\ bridge'.group = sys.active
        /\ bridge.state = "IDLE" /\ sys.state # "LAUNCH" =>
              bridge'.state = "IDLE" /\ ~bridge'.prepare_start
        /\ bridge.state # "IDLE" => ~bridge'.prepare_start /\ bridge'.group = bridge.group
        /\ bridge.state = "PREPARE" => bridge'.state = IF prep.done THEN "LAUNCH" ELSE "PREPARE"
        /\ bridge.state = "LAUNCH" => bridge'.state = "ACTIVE" /\ bridge'.pipeline_start
        /\ bridge.state = "ACTIVE" => bridge'.state = IF GroupDone(ready) THEN "IDLE" ELSE "ACTIVE"
        /\ bridge.state # "LAUNCH" => ~bridge'.pipeline_start
    <2>1. bridge.state = "LAUNCH" => pipeline_start_ready
      BY <1>2 DEF Control, pipeline_start_ready
    <2> QED BY <1>1, <1>2, <1>3, <1>4, <2>1, BridgeMoves
  <1>9. qk_start <=> bridge.pipeline_start
    BY <1>2 DEF qk_start, Control, pipeline_start_ready
  <1>10. /\ qk_start => down'.phase = "QK"
         /\ ~qk_start /\ down.phase = "IDLE" => down'.phase = "IDLE"
         /\ ~qk_start /\ down.phase # "IDLE" => (down'.phase = "IDLE" <=> GroupDone(ready))
    <2>1. sys.clear => down.phase = "IDLE"
      BY <1>2 DEF Control
    <2>2. down.phase = "QK" => ~GroupDone(ready) BY DEF GroupDone
    <2> QED BY <1>1, <1>2, <2>1, <2>2, DownMoves
  <1>11. prep.is_k => prep.head = 0 BY DEF Control
  <1>12. /\ prep'.is_k => prep'.head = 0
         /\ Starts => prep'.state = "REQUEST" /\ prep'.group = bridge.group /\ ~prep'.done
         /\ prep.state = "IDLE" /\ ~Starts => prep'.state = "IDLE" /\ ~prep'.done
         /\ prep'.cache_clear => Starts
         /\ prep.state = "REQUEST" => /\ prep'.state = IF RequestTaken(rdy) THEN "RESPONSE" ELSE "REQUEST"
                                      /\ ~prep'.done /\ prep'.group = prep.group
         /\ prep.state = "RESPONSE" => /\ prep'.state = IF ResponseTaken(vld) THEN "RESULT" ELSE "RESPONSE"
                                       /\ ~prep'.done /\ prep'.group = prep.group
         /\ prep.state = "RESULT" /\ ~cache_write =>
                prep'.state = "RESULT" /\ ~prep'.done /\ prep'.group = prep.group
         /\ cache_write /\ final_pair => prep'.state = "IDLE" /\ prep'.done
         /\ cache_write /\ ~final_pair =>
                prep'.state = "REQUEST" /\ ~prep'.done /\ prep'.group = prep.group
    <2>1. cache_write => prep.state = "RESULT" BY DEF cache_write
    <2> QED BY <1>1, <1>11, <2>1, PrepMoves DEF SamePair
  <1>13. Starts <=> bridge.prepare_start BY DEF Starts, Control
  <1>14. /\ RequestTaken(rdy) => prep.state = "REQUEST"
         /\ ResponseTaken(vld) <=> prep.state = "RESPONSE" /\ vld
         /\ cache_write => prep.state = "RESULT"
    BY <1>2 DEF RequestTaken, ResponseTaken, cache_write, Control
  <1>15. /\ ResponseTaken(vld) => rotor'.state # "IDLE"
         /\ cache_write => rotor'.state = "IDLE"
         /\ ~cache_write /\ rotor.state # "IDLE" => rotor'.state # "IDLE"
         /\ ~ResponseTaken(vld) /\ rotor.state = "IDLE" => rotor'.state = "IDLE"
    BY <1>1, RotorMoves
  <1>16. /\ vld => asked # NoRaw
         /\ ~RequestTaken(rdy) /\ ResponseTaken(vld) => asked' = NoRaw
         /\ ~RequestTaken(rdy) /\ ~ResponseTaken(vld) => asked' = asked
    BY <1>1, ReaderMoves
  <1>17. /\ bridge.pipeline_start => pipe'.group = bridge.group
         /\ ~bridge.pipeline_start /\ ~sys.clear => pipe'.group = pipe.group
         /\ ~pipe'.busy_error /\ ~pipe'.invalid_error
    <2>1. bridge.pipeline_start => ~sys.clear BY <1>2 DEF Control
    <2> QED BY <1>1, <1>9, <2>1, PipeMoves DEF Control
  <1>18. ~wrapper_start_error' BY <1>1, <1>4, <1>5 DEF WrapperStep, Control
  <1>21. sys'.state # "ACTIVE" <=> bridge'.state = "IDLE"
    BY <1>2, <1>6, <1>7, <1>8 DEF Control
  <1>22. sys'.state = "ACTIVE" => bridge'.group = sys'.active
    BY <1>2, <1>6, <1>7, <1>8 DEF Control
  <1>23. sys'.clear => sys'.state = "LAUNCH" BY <1>2, <1>7
  <1>24. bridge'.prepare_start => bridge'.state = "PREPARE" /\ prep'.state = "IDLE" /\ ~prep'.done
    <2>1. bridge'.prepare_start => bridge.state = "IDLE" /\ bridge'.state = "PREPARE"
      BY <1>2, <1>8
    <2>2. bridge.state = "IDLE" => prep.state = "IDLE" /\ ~bridge.prepare_start
      BY <1>2 DEF Control
    <2> QED BY <1>12, <1>13, <2>1, <2>2
  <1>25. prep'.state # "IDLE" => /\ bridge'.state = "PREPARE" /\ ~prep'.done
                                 /\ prep'.group = bridge'.group
    <2>1. prep'.state # "IDLE" =>
             (Starts \/ (prep.state # "IDLE" /\ prep'.group = prep.group)) /\ ~prep'.done
      BY <1>2, <1>12
    <2>2. Starts => prep'.group = bridge.group /\ bridge.state = "PREPARE" /\ ~prep.done
      BY <1>12, <1>13 DEF Control
    <2>3. prep.state # "IDLE" => bridge.state = "PREPARE" /\ ~prep.done /\ prep.group = bridge.group
      BY DEF Control
    <2> QED BY <1>8, <2>1, <2>2, <2>3
  <1>26. prep'.done => bridge'.state = "PREPARE"
    <2>1. prep'.done => prep.state = "RESULT" BY <1>2, <1>12, <1>14
    <2> QED BY <1>8, <2>1 DEF Control
  <1>27. prep'.cache_clear => prep'.state = "REQUEST" BY <1>12
  <1>28. bridge'.pipeline_start => bridge'.state = "ACTIVE" BY <1>8
  <1>29. down'.phase = "IDLE" <=> (bridge'.state # "ACTIVE" \/ bridge'.pipeline_start)
    BY <1>2, <1>6, <1>8, <1>9, <1>10 DEF Control
  <1>30. down'.phase # "IDLE" => pipe'.group = bridge'.group
    <2>1. down'.phase # "IDLE" => bridge.state = "ACTIVE" /\ ~sys.clear
                                  /\ (bridge.pipeline_start \/ down.phase # "IDLE")
      BY <1>2, <1>9, <1>10 DEF Control
    <2> QED BY <1>8, <1>17, <2>1 DEF Control
  <1>31. rotor'.state # "IDLE" <=> prep'.state = "RESULT"
    BY <1>2, <1>12, <1>14, <1>15 DEF Control
  <1>32. asked' # NoRaw => prep'.state = "RESPONSE"
    BY <1>2, <1>12, <1>14, <1>16 DEF Control
  <1> QED BY <1>12, <1>17, <1>18, <1>21, <1>22, <1>23, <1>24, <1>25, <1>26, <1>27, <1>28,
             <1>29, <1>30, <1>31, <1>32 DEF Control

LEMMA LengthOfFunction ==
  ASSUME NEW n \in Nat, NEW f \in [1 .. n -> Nat] PROVE Len(f) = n
  <1>1. f \in Seq(Nat) BY SeqDef
  <1>2. DOMAIN f = 1 .. n /\ DOMAIN f = 1 .. Len(f) /\ Len(f) \in Nat
    BY <1>1, LenProperties
  <1>3. 1 .. n = 1 .. Len(f) BY <1>2
  <1> QED BY <1>2, <1>3

\* A sequence of groups grows by one.
LEMMA UptoGrows ==
  ASSUME NEW n \in Nat PROVE Append(Upto(n), n) = Upto(n + 1)
  <1> DEFINE f == Upto(n)
             g == Upto(n + 1)
  <1>1. f \in [1 .. n -> Nat] /\ g \in [1 .. n + 1 -> Nat] BY DEF Upto
  <1>2. /\ f \in Seq(Nat) /\ g \in Seq(Nat) BY <1>1, SeqDef
  <1>3. Len(f) = n /\ Len(g) = n + 1 BY <1>1, LengthOfFunction
  <1>4. /\ Append(f, n) \in Seq(Nat) /\ Len(Append(f, n)) = n + 1
        /\ \A i \in 1 .. n : Append(f, n)[i] = f[i]
        /\ Append(f, n)[n + 1] = n
    BY <1>2, <1>3, AppendProperties
  <1>5. \A i \in 1 .. Len(g) : Append(f, n)[i] = g[i]
    <2> SUFFICES ASSUME NEW i \in 1 .. n + 1 PROVE Append(f, n)[i] = g[i]
      BY <1>3
    <2> DEFINE a == Append(f, n)
    <2>1. i \in 1 .. n \/ i = n + 1 OBVIOUS
    <2>2. g[i] = i - 1 /\ (i \in 1 .. n => f[i] = i - 1) BY DEF Upto
    <2>3. a[n + 1] = n /\ \A j \in 1 .. n : a[j] = f[j] BY <1>4
    <2> HIDE DEF a, f, g
    <2>4. a[i] = g[i] BY <2>1, <2>2, <2>3
    <2> QED BY <2>4 DEF a, f
  <1> QED BY <1>2, <1>3, <1>4, <1>5, SeqEqual

LEMMA ProgressStep ==
  ASSUME TypeOK, Control, Progress,
         NEW start \in BOOLEAN, NEW rdy \in BOOLEAN, NEW vld \in BOOLEAN,
         NEW rotated \in BOOLEAN, NEW moves \in BOOLEAN, NEW ready \in BOOLEAN,
         Edge(start, rdy, vld, rotated, moves, ready)
  PROVE  Progress'
  <1>1. SysStep(start, ready) /\ History(start, ready) BY DEF Edge
  <1>2. /\ sys.state \in {"IDLE", "LAUNCH", "ACTIVE"}
        /\ sys.active \in 0 .. RUN_GQA_GROUPS - 1 /\ RUN_GQA_GROUPS \in Nat
    BY Sizes DEF TypeOK, SysType
  <1>3. GroupDone(ready) => sys.state = "ACTIVE" /\ pipe.group = sys.active
    BY GroupDoneIsActive
  <1>4. CASE sys.state = "IDLE" /\ start
    <2>1. finished' = <<>> BY <1>1, <1>4 DEF History, start_ready
    <2>2. sys'.state = "LAUNCH" /\ ~sys'.done /\ sys'.active = 0 /\ sys'.counted = 0
      BY <1>1, <1>4, SysMoves
    <2>3. Upto(0) = <<>>
      <3>1. 1 .. 0 = {} OBVIOUS
      <3> QED BY <3>1 DEF Upto
    <2> QED BY <2>1, <2>2, <2>3 DEF Progress
  <1>5. CASE GroupDone(ready)
    <2>1. sys.state = "ACTIVE" /\ pipe.group = sys.active BY <1>3, <1>5
    <2>2. finished' = Append(finished, sys.active)
      BY <1>1, <1>5, <2>1 DEF History, start_ready
    <2>3. finished = Upto(sys.active) /\ sys.counted = sys.active BY <2>1 DEF Progress
    <2>7. sys.active \in Nat BY <1>2
    <2>4. finished' = Upto(sys.active + 1) BY <2>2, <2>3, <2>7, UptoGrows
    <2>5. /\ sys'.counted = sys.active + 1
          /\ IF sys.active = RUN_GQA_GROUPS - 1
             THEN sys'.state = "IDLE" /\ sys'.done
             ELSE sys'.state = "LAUNCH" /\ ~sys'.done /\ sys'.active = sys.active + 1
      BY <1>1, <1>5, <2>1, <2>3, SysMoves
    <2>6. sys.active = RUN_GQA_GROUPS - 1 => sys.active + 1 = RUN_GQA_GROUPS BY <1>2
    <2> QED BY <2>4, <2>5, <2>6 DEF Progress, Upto
  <1>6. CASE ~(sys.state = "IDLE" /\ start) /\ ~GroupDone(ready)
    <2>1. finished' = finished BY <1>1, <1>6 DEF History, start_ready
    <2>2. ~sys'.done /\ Same(sys', sys) /\ (sys'.state # "IDLE" => sys.state # "IDLE")
      BY <1>1, <1>2, <1>6, SysMoves
    <2> QED BY <2>1, <2>2 DEF Progress, Same, Upto
  <1> QED BY <1>4, <1>5, <1>6
-----------------------------------------------------------------------------
(***************************************************************************)
(* The pair in work and the RAMs.                                          *)
(***************************************************************************)

\* While a group is on, its number and the run stay.
LEMMA GroupStays ==
  ASSUME TypeOK, Control,
         NEW start \in BOOLEAN, NEW rdy \in BOOLEAN, NEW vld \in BOOLEAN,
         NEW rotated \in BOOLEAN, NEW moves \in BOOLEAN, NEW ready \in BOOLEAN,
         Edge(start, rdy, vld, rotated, moves, ready), bridge.state # "IDLE"
  PROVE  /\ run' = run
         /\ ~GroupDone(ready) => sys'.active = sys.active
  <1>1. SysStep(start, ready) /\ History(start, ready) BY DEF Edge
  <1>2. sys.state = "ACTIVE"
    BY DEF Control, TypeOK, SysType
  <1>3. run' = run BY <1>1, <1>2 DEF History, start_ready
  <1> QED BY <1>1, <1>2, <1>3, SysMoves DEF Same

LEMMA InWorkStep ==
  ASSUME TypeOK, Control, InWork,
         NEW start \in BOOLEAN, NEW rdy \in BOOLEAN, NEW vld \in BOOLEAN,
         NEW rotated \in BOOLEAN, NEW moves \in BOOLEAN, NEW ready \in BOOLEAN,
         Edge(start, rdy, vld, rotated, moves, ready)
  PROVE  InWork'
  <1>1. PrepStep(rdy, vld) /\ RotorStep(vld, rotated) /\ ReaderStep(rdy, vld) BY DEF Edge
  <1>2. /\ prep.state \in {"IDLE", "REQUEST", "RESPONSE", "RESULT"}
        /\ prep.is_k => prep.head = 0
    BY DEF TypeOK, PrepType, Control
  <1>3. prep.state # "IDLE" => run' = run BY GroupStays DEF Control
  <1>4. SamePair(prep', prep) /\ run' = run => raw_req' = raw_req /\ rom_addr' = rom_addr
    BY DEF SamePair, raw_req, raw_req_head, rom_addr
  <1>5. prep.state \in {"IDLE", "RESULT"} => prep'.state # "RESPONSE"
    <2>1. prep.state = "IDLE" => prep'.state # "RESPONSE"
      BY <1>1, <1>2, PrepMoves
    <2>2. prep.state = "RESULT" => prep'.state # "RESPONSE"
      BY <1>1, <1>2, PrepMoves
    <2> QED BY <2>1, <2>2
  <1>6. prep.state \in {"IDLE", "REQUEST"} => prep'.state # "RESULT"
    BY <1>1, <1>2, PrepMoves
  <1>7. CASE prep.state = "REQUEST"
    <2>1. /\ SamePair(prep', prep)
          /\ prep'.state = IF RequestTaken(rdy) THEN "RESPONSE" ELSE "REQUEST"
      BY <1>1, <1>2, <1>7, PrepMoves
    <2>2. RequestTaken(rdy) => asked' = raw_req BY <1>1, ReaderMoves
    <2> QED BY <1>3, <1>4, <1>7, <2>1, <2>2 DEF InWork
  <1>8. CASE prep.state = "RESPONSE"
    <2>1. /\ SamePair(prep', prep)
          /\ prep'.state = IF ResponseTaken(vld) THEN "RESULT" ELSE "RESPONSE"
      BY <1>1, <1>2, <1>8, PrepMoves
    <2>2. asked = raw_req BY <1>8 DEF InWork
    <2>3. ~RequestTaken(rdy) BY <1>8 DEF RequestTaken
    <2>4. ~ResponseTaken(vld) => asked' = asked BY <1>1, <2>3, ReaderMoves
    <2>5. ResponseTaken(vld) => rotor'.word = [raw |-> asked, angle |-> rom_addr]
      BY <1>1, RotorMoves
    <2> QED BY <1>3, <1>4, <1>8, <2>1, <2>2, <2>4, <2>5 DEF InWork
  <1>9. CASE prep.state = "RESULT"
    <2>1. cache_write => prep'.state # "RESULT" BY <1>1, <1>2, PrepMoves
    <2>2. ~cache_write => SamePair(prep', prep) BY <1>1, <1>2, <1>9, PrepMoves
    <2>3. rotor'.word = rotor.word
      <3>1. ~ResponseTaken(vld) BY <1>9 DEF ResponseTaken
      <3> QED BY <1>1, <3>1, RotorMoves
    <2> QED BY <1>3, <1>4, <1>5, <1>9, <2>1, <2>2, <2>3 DEF InWork
  <1> QED BY <1>2, <1>5, <1>6, <1>7, <1>8, <1>9 DEF InWork

\* A word written to a RAM.
QWritten(r, h, b, a, w) == [r EXCEPT !.q[h][b][a] = w]
KWritten(r, b, a, w) == [r EXCEPT !.k[b][a] = w]

LEMMA QWrite ==
  ASSUME NEW r \in RamType, NEW h \in Heads, NEW b \in Banks, NEW a \in Addresses,
         NEW w \in Words, NEW r2, r2 = QWritten(r, h, b, a, w)
  PROVE  /\ r2 \in RamType /\ r2.k = r.k /\ r2.q[h][b][a] = w
         /\ \A h1 \in Heads, b1 \in Banks, a1 \in Addresses :
                h1 # h \/ b1 # b \/ a1 # a => r2.q[h1][b1][a1] = r.q[h1][b1][a1]
  <1>1. PICK q : q = r.q OBVIOUS
  <1>2. q \in [Heads -> BankType] BY <1>1 DEF RamType
  <1>3. PICK q2 : q2 = [q EXCEPT ![h][b][a] = w] OBVIOUS
  <1>4. r2 = [q |-> q2, k |-> r.k] BY <1>1, <1>3 DEF RamType, QWritten
  <1>5. PICK one : one = [q[h] EXCEPT ![b][a] = w] OBVIOUS
  <1>6. q[h] \in BankType BY <1>2
  <1>7. one \in BankType /\ one[b][a] = w
        /\ \A b1 \in Banks, a1 \in Addresses : b1 # b \/ a1 # a => one[b1][a1] = q[h][b1][a1]
    BY <1>5, <1>6 DEF BankType
  <1>8. q2 = [q EXCEPT ![h] = one] BY <1>3, <1>5
  <1>9. q2 \in [Heads -> BankType] BY <1>2, <1>7, <1>8
  <1>10. q2[h] = one /\ \A h1 \in Heads : h1 # h => q2[h1] = q[h1] BY <1>2, <1>8
  <1>11. r2 \in RamType
    <2>1. r.k \in BankType BY DEF RamType
    <2> QED BY <1>4, <1>9, <2>1 DEF RamType
  <1>12. r2.q = q2 /\ r2.k = r.k BY <1>4
  <1>13. ASSUME NEW h1 \in Heads, NEW b1 \in Banks, NEW a1 \in Addresses,
                h1 # h \/ b1 # b \/ a1 # a
         PROVE  q2[h1][b1][a1] = q[h1][b1][a1]
    <2>1. CASE h1 = h BY <1>7, <1>10, <1>13, <2>1
    <2>2. CASE h1 # h BY <1>10, <2>2
    <2> QED BY <2>1, <2>2
  <1>14. q2[h][b][a] = w BY <1>7, <1>10
  <1>15. \A h1 \in Heads, b1 \in Banks, a1 \in Addresses :
             h1 # h \/ b1 # b \/ a1 # a => r2.q[h1][b1][a1] = r.q[h1][b1][a1]
    BY <1>1, <1>12, <1>13
  <1> QED BY <1>11, <1>12, <1>14, <1>15

LEMMA KWrite ==
  ASSUME NEW r \in RamType, NEW b \in Banks, NEW a \in Addresses,
         NEW w \in Words, NEW r2, r2 = KWritten(r, b, a, w)
  PROVE  /\ r2 \in RamType /\ r2.q = r.q /\ r2.k[b][a] = w
         /\ \A b1 \in Banks, a1 \in Addresses :
                b1 # b \/ a1 # a => r2.k[b1][a1] = r.k[b1][a1]
  BY DEF RamType, BankType, KWritten

\* Moving on passes the pair in work and no other.
LEMMA NextPairPasses ==
  ASSUME NEW w \in PrepType, ~(w.is_k /\ w.token = SEQ_LEN - 1 /\ w.pair = HALF_DIM - 1),
         w.is_k => w.head = 0,
         NEW h \in Heads, NEW t \in Tokens, NEW p \in Pairs, NEW np, np = NextPair(w)
  PROVE  /\ w.is_k => np.is_k
         /\ np.is_k /\ Before(np, t, p) =>
                w.is_k /\ (Before(w, t, p) \/ (t = w.token /\ p = w.pair))
         /\ ~w.is_k /\ (np.is_k \/ h < np.head \/ (h = np.head /\ Before(np, t, p))) =>
                \/ h < w.head
                \/ h = w.head /\ (Before(w, t, p) \/ (t = w.token /\ p = w.pair))
  <1>1. /\ w.pair \in 0 .. HALF_DIM - 1 /\ w.token \in 0 .. SEQ_LEN - 1
        /\ w.head \in 0 .. Q_HEADS - 1 /\ w.is_k \in BOOLEAN
        /\ HALF_DIM \in Nat \ {0} /\ SEQ_LEN \in Nat \ {0} /\ Q_HEADS \in Nat \ {0}
        /\ p \in 0 .. HALF_DIM - 1 /\ t \in 0 .. SEQ_LEN - 1 /\ h \in 0 .. Q_HEADS - 1
    BY Sizes DEF PrepType, Pairs, Tokens, Heads
  <1>2. CASE w.pair < HALF_DIM - 1
    <2>1. np.pair = w.pair + 1 /\ np.token = w.token /\ np.head = w.head /\ np.is_k = w.is_k
      BY <1>2 DEF NextPair, PrepType
    <2> QED BY <1>1, <1>2, <2>1 DEF Before
  <1>3. CASE ~(w.pair < HALF_DIM - 1) /\ w.token < SEQ_LEN - 1
    <2>1. np.pair = 0 /\ np.token = w.token + 1 /\ np.head = w.head /\ np.is_k = w.is_k
      BY <1>3 DEF NextPair, PrepType
    <2> QED BY <1>1, <1>3, <2>1 DEF Before
  <1>4. CASE ~(w.pair < HALF_DIM - 1) /\ ~(w.token < SEQ_LEN - 1) /\ w.head = Q_HEADS - 1
    <2>1. ~w.is_k BY <1>1, <1>4
    <2>2. np.pair = 0 /\ np.token = 0 /\ np.is_k
      BY <1>4, <2>1 DEF NextPair, PrepType
    <2> QED BY <1>1, <1>4, <2>1, <2>2 DEF Before
  <1>5. CASE ~(w.pair < HALF_DIM - 1) /\ ~(w.token < SEQ_LEN - 1) /\ w.head # Q_HEADS - 1
    <2>1. ~w.is_k BY <1>1, <1>5
    <2>2. np.pair = 0 /\ np.token = 0 /\ np.head = w.head + 1 /\ np.is_k = w.is_k
      BY <1>5, <2>1 DEF NextPair, PrepType
    <2> QED BY <1>1, <1>5, <2>1, <2>2 DEF Before
  <1> QED BY <1>2, <1>3, <1>4, <1>5

\* What an edge writes.
LEMMA WriteMoves ==
  ASSUME TypeOK, WriteStep
  PROVE  /\ ram' \in RamType
         /\ ~cache_write => ram' = ram
         /\ cache_write =>
              LET b == prep.token % TILE
                  a == Place(prep.token, prep.pair)
              IN  /\ b \in Banks /\ a \in Addresses
                  /\ prep.is_k =>
                       /\ ram'.q = ram.q /\ ram'.k[b][a] = rotor.word
                       /\ \A b1 \in Banks, a1 \in Addresses :
                              b1 # b \/ a1 # a => ram'.k[b1][a1] = ram.k[b1][a1]
                  /\ ~prep.is_k =>
                       /\ ram'.k = ram.k /\ ram'.q[prep.head][b][a] = rotor.word
                       /\ \A h1 \in Heads, b1 \in Banks, a1 \in Addresses :
                              h1 # prep.head \/ b1 # b \/ a1 # a =>
                                  ram'.q[h1][b1][a1] = ram.q[h1][b1][a1]
  <1> DEFINE b == prep.token % TILE
             a == Place(prep.token, prep.pair)
  <1>1. /\ ram \in RamType /\ rotor.word \in Words /\ prep.head \in Heads
        /\ prep.token \in Tokens /\ prep.pair \in Pairs
    BY DEF TypeOK, RotorType, PrepType
  <1>2. b \in Banks /\ a \in Addresses BY <1>1, PlaceInRange
  <1>3. a = wr_addr BY DEF Place, wr_addr
  <1> HIDE DEF a, b
  <1>4. CASE ~cache_write BY <1>1, <1>4 DEF WriteStep
  <1>5. CASE cache_write /\ prep.is_k
    <2>1. ram' = KWritten(ram, b, a, rotor.word) BY <1>3, <1>5 DEF WriteStep, KWritten, b
    <2>2. /\ ram' \in RamType /\ ram'.q = ram.q /\ ram'.k[b][a] = rotor.word
          /\ \A b1 \in Banks, a1 \in Addresses :
                b1 # b \/ a1 # a => ram'.k[b1][a1] = ram.k[b1][a1]
      BY <1>1, <1>2, <2>1, KWrite
    <2> QED BY <1>2, <1>5, <2>2 DEF a, b
  <1>6. CASE cache_write /\ ~prep.is_k
    <2>1. ram' = QWritten(ram, prep.head, b, a, rotor.word)
      BY <1>3, <1>6 DEF WriteStep, QWritten, b
    <2>2. /\ ram' \in RamType /\ ram'.k = ram.k /\ ram'.q[prep.head][b][a] = rotor.word
          /\ \A h1 \in Heads, b1 \in Banks, a1 \in Addresses :
                h1 # prep.head \/ b1 # b \/ a1 # a => ram'.q[h1][b1][a1] = ram.q[h1][b1][a1]
      BY <1>1, <1>2, <2>1, QWrite
    <2> QED BY <1>2, <1>6, <2>2 DEF a, b
  <1> QED BY <1>4, <1>5, <1>6

LEMMA FilledStep ==
  ASSUME TypeOK, Control, InWork, Filled,
         NEW start \in BOOLEAN, NEW rdy \in BOOLEAN, NEW vld \in BOOLEAN,
         NEW rotated \in BOOLEAN, NEW moves \in BOOLEAN, NEW ready \in BOOLEAN,
         Edge(start, rdy, vld, rotated, moves, ready)
  PROVE  Filled'
  <1>1. PrepStep(rdy, vld) /\ BridgeStep(ready) /\ WriteStep BY DEF Edge
  <1>2. /\ prep \in PrepType /\ (prep.is_k => prep.head = 0)
        /\ prep.state \in {"IDLE", "REQUEST", "RESPONSE", "RESULT"}
        /\ bridge.state \in {"IDLE", "PREPARE", "LAUNCH", "ACTIVE"}
    BY DEF TypeOK, PrepType, BridgeType, Control
  <1>3. cache_write => /\ prep.state = "RESULT" /\ bridge.state = "PREPARE"
                       /\ ~prep.done /\ ~Prepared /\ ~Starts
    BY DEF cache_write, Control, Prepared, Starts
  <1>4. Starts => bridge.state = "PREPARE" /\ ~prep.done /\ prep.state = "IDLE"
    BY DEF Starts, Control
  <1>5. GroupDone(ready) => bridge.state = "ACTIVE" /\ prep.state = "IDLE"
    BY GroupDoneIsActive
  <1>6. /\ bridge.state = "IDLE" => bridge'.state \in {"IDLE", "PREPARE"}
        /\ bridge.state = "PREPARE" => bridge'.state = IF prep.done THEN "LAUNCH" ELSE "PREPARE"
        /\ bridge.state = "ACTIVE" => bridge'.state = IF GroupDone(ready) THEN "IDLE" ELSE "ACTIVE"
    BY <1>1, BridgeMoves
  \* Nothing is expected of the RAMs at the edges of a group.
  <1>7. CASE bridge.state = "IDLE" \/ GroupDone(ready) \/ Starts
    <2>1. ~prep'.done
      <3>1. ~cache_write BY <1>3, <1>5, <1>7
      <3> QED BY <1>1, <1>2, <3>1, PrepMoves
    <2>2. bridge'.state \notin {"LAUNCH", "ACTIVE"} BY <1>2, <1>4, <1>5, <1>6, <1>7
    <2>3. ~Prepared' BY <2>1, <2>2 DEF Prepared
    <2>4. CASE Starts
      <3>1. ~prep'.is_k /\ prep'.head = 0 /\ prep'.token = 0 /\ prep'.pair = 0
        BY <1>1, <1>2, <2>4, PrepMoves
      <3>2. ASSUME NEW h \in Heads, NEW t \in Tokens, NEW p \in Pairs
            PROVE  ~QDone(h, t, p)' /\ ~KDone(t, p)'
        BY <2>3, <3>1, Sizes DEF QDone, KDone, Earlier, Before, Heads, Tokens, Pairs
      <3> QED BY <3>2, Sizes DEF Filled, Heads
    <2>5. CASE ~Starts
      <3>1. prep.state = "IDLE"
        BY <1>2, <1>5, <1>7, <2>5 DEF Control
      <3>2. prep'.state = "IDLE" BY <1>1, <1>2, <2>5, <3>1, PrepMoves
      <3> QED BY <2>3, <3>2 DEF Filled, QDone, KDone
    <2> QED BY <2>4, <2>5
  <1>8. CASE bridge.state # "IDLE" /\ ~GroupDone(ready) /\ ~Starts
    <2>1. run' = run /\ sys'.active = sys.active BY <1>8, GroupStays
    <2>2. ram' \in RamType BY <1>1, WriteMoves
    \* Between two writes what is expected is what was.
    <2>3. CASE ~cache_write
      <3>1. ram' = ram BY <1>1, <2>3, WriteMoves
      <3>2. ~prep'.done BY <1>1, <1>2, <2>3, PrepMoves
      <3>3. Prepared' => Prepared BY <1>2, <1>6, <1>8, <3>2 DEF Prepared
      <3>4. prep'.state # "IDLE" => prep.state # "IDLE" /\ SamePair(prep', prep)
        BY <1>1, <1>2, <1>8, <2>3, PrepMoves
      <3>5. ASSUME NEW h \in Heads, NEW t \in Tokens, NEW p \in Pairs
            PROVE  /\ QDone(h, t, p)' => QDone(h, t, p)
                   /\ KDone(t, p)' => KDone(t, p)
                   /\ QFilled(h, t, p)' <=> QFilled(h, t, p)
                   /\ KFilled(t, p)' <=> KFilled(t, p)
        <4>1. QDone(h, t, p)' => QDone(h, t, p)
          BY <3>3, <3>4 DEF QDone, SamePair, Earlier, Before
        <4>2. KDone(t, p)' => KDone(t, p)
          BY <3>3, <3>4 DEF KDone, SamePair, Earlier, Before
        <4>3. QFilled(h, t, p)' <=> QFilled(h, t, p) BY <2>1, <3>1 DEF QFilled, WordOf
        <4>4. KFilled(t, p)' <=> KFilled(t, p) BY <2>1, <3>1 DEF KFilled, WordOf
        <4> QED BY <4>1, <4>2, <4>3, <4>4
      <3>6. \A h \in Heads, t \in Tokens, p \in Pairs : QDone(h, t, p)' => QFilled(h, t, p)'
        BY <3>5 DEF Filled
      <3>7. \A t \in Tokens, p \in Pairs : KDone(t, p)' => KFilled(t, p)'
        <4>1. 0 \in Heads BY Sizes DEF Heads
        <4> QED BY <3>5, <4>1 DEF Filled
      <3> QED BY <3>6, <3>7 DEF Filled
    <2>4. CASE cache_write
      <3> DEFINE b0 == prep.token % TILE
                 a0 == Place(prep.token, prep.pair)
      <3>1. /\ prep.token \in Tokens /\ prep.pair \in Pairs /\ prep.head \in Heads
            /\ prep.is_k \in BOOLEAN
        BY <1>2 DEF PrepType
      <3>2. /\ prep.state = "RESULT" /\ bridge'.state = "PREPARE" /\ prep.group = sys.active
            /\ ~Prepared
        <4>1. prep.state = "RESULT" /\ bridge.state = "PREPARE" /\ ~prep.done /\ ~Prepared
          BY <1>3, <2>4
        <4>2. sys.state = "ACTIVE" BY <4>1 DEF Control, TypeOK, SysType
        <4> QED BY <1>6, <4>1, <4>2 DEF Control
      <3>3. /\ rotor.word = [raw |-> raw_req, angle |-> rom_addr]
        BY <3>2 DEF InWork
      <3>4. rotor.word = WordOf(prep.is_k, IF prep.is_k THEN sys.active ELSE sys.active * Q_HEADS + prep.head,
                                prep.token, prep.pair)
        BY <3>2, <3>3 DEF WordOf, raw_req, raw_req_head, rom_addr
      <3>5. /\ b0 \in Banks /\ a0 \in Addresses
            /\ prep.is_k =>
                 /\ ram'.q = ram.q /\ ram'.k[b0][a0] = rotor.word
                 /\ \A b1 \in Banks, a1 \in Addresses :
                        b1 # b0 \/ a1 # a0 => ram'.k[b1][a1] = ram.k[b1][a1]
            /\ ~prep.is_k =>
                 /\ ram'.k = ram.k /\ ram'.q[prep.head][b0][a0] = rotor.word
                 /\ \A h1 \in Heads, b1 \in Banks, a1 \in Addresses :
                        h1 # prep.head \/ b1 # b0 \/ a1 # a0 =>
                            ram'.q[h1][b1][a1] = ram.q[h1][b1][a1]
        BY <1>1, <2>4, WriteMoves
      <3>6. ASSUME NEW h \in Heads, NEW t \in Tokens, NEW p \in Pairs
            PROVE  /\ QDone(h, t, p)' =>
                         \/ QDone(h, t, p)
                         \/ ~prep.is_k /\ h = prep.head /\ t = prep.token /\ p = prep.pair
                   /\ KDone(t, p)' =>
                         \/ KDone(t, p)
                         \/ prep.is_k /\ t = prep.token /\ p = prep.pair
        <4>1. CASE final_pair
          <5>1. prep.is_k /\ prep.token = SEQ_LEN - 1 /\ prep.pair = HALF_DIM - 1
            BY <4>1 DEF final_pair
          <5>2. QDone(h, t, p) BY <3>2, <5>1 DEF QDone
          <5>3. Earlier(t, p) \/ (t = prep.token /\ p = prep.pair)
            BY <5>1, Sizes DEF Earlier, Before, Tokens, Pairs
          <5> QED BY <3>2, <5>1, <5>2, <5>3 DEF KDone
        <4>2. CASE ~final_pair
          <5> DEFINE np == NextPair(PrepBase)
          <5>1. prep' = [np EXCEPT !.state = "REQUEST"] /\ ~prep'.done
            BY <1>1, <1>2, <2>4, <4>2, PrepMoves
          <5>2. /\ PrepBase \in PrepType /\ SamePair(PrepBase, prep)
            BY <1>2 DEF PrepType, PrepBase, SamePair
          <5>3. /\ ~(PrepBase.is_k /\ PrepBase.token = SEQ_LEN - 1 /\ PrepBase.pair = HALF_DIM - 1)
                /\ PrepBase.is_k => PrepBase.head = 0
            BY <1>2, <4>2, <5>2 DEF SamePair, final_pair
          <5>4. /\ PrepBase.is_k => np.is_k
                /\ np.is_k /\ Before(np, t, p) =>
                      PrepBase.is_k /\ (Before(PrepBase, t, p) \/ (t = PrepBase.token /\ p = PrepBase.pair))
                /\ ~PrepBase.is_k /\ (np.is_k \/ h < np.head \/ (h = np.head /\ Before(np, t, p))) =>
                      \/ h < PrepBase.head
                      \/ /\ h = PrepBase.head
                         /\ Before(PrepBase, t, p) \/ (t = PrepBase.token /\ p = PrepBase.pair)
            BY <5>2, <5>3, NextPairPasses
          <5>5. np \in PrepType BY <5>2, <5>3, NextPairType
          <5> HIDE DEF np
          <5>6. /\ prep'.is_k = np.is_k /\ prep'.head = np.head
                /\ prep'.token = np.token /\ prep'.pair = np.pair
            BY <5>1, <5>5 DEF PrepType
          <5>7. ~Prepared' BY <3>2, <5>1 DEF Prepared
          <5>8. /\ Before(prep', t, p) <=> Before(np, t, p)
                /\ Before(PrepBase, t, p) <=> Before(prep, t, p)
            BY <5>2, <5>6 DEF Before, SamePair
          <5>9. QDone(h, t, p)' => np.is_k \/ h < np.head \/ (h = np.head /\ Before(np, t, p))
            BY <5>6, <5>7, <5>8 DEF QDone, Earlier
          <5>10. KDone(t, p)' => np.is_k /\ Before(np, t, p)
            BY <5>6, <5>7, <5>8 DEF KDone, Earlier
          <5>11. QDone(h, t, p) <=> (prep.is_k \/ h < prep.head \/ (h = prep.head /\ Before(prep, t, p)))
            BY <3>2 DEF QDone, Earlier
          <5>12. KDone(t, p) <=> (prep.is_k /\ Before(prep, t, p))
            BY <3>2 DEF KDone, Earlier
          <5> QED BY <5>2, <5>4, <5>8, <5>9, <5>10, <5>11, <5>12 DEF SamePair
        <4> QED BY <4>1, <4>2
      <3>7. ASSUME NEW h \in Heads, NEW t \in Tokens, NEW p \in Pairs, QDone(h, t, p)'
            PROVE  QFilled(h, t, p)'
        <4>1. t % TILE \in Banks /\ Place(t, p) \in Addresses BY PlaceInRange
        <4>2. SUFFICES ram'.q[h][t % TILE][Place(t, p)]
                           = WordOf(FALSE, sys.active * Q_HEADS + h, t, p)
          BY <2>1 DEF QFilled, WordOf, Place
        <4>3. CASE ~prep.is_k /\ h = prep.head /\ t = prep.token /\ p = prep.pair
          <5>1. ram'.q[h][b0][a0] = rotor.word BY <3>5, <4>3
          <5>2. rotor.word = WordOf(FALSE, sys.active * Q_HEADS + h, t, p)
            BY <3>1, <3>4, <4>3
          <5> QED BY <4>3, <5>1, <5>2
        <4>4. CASE ~(~prep.is_k /\ h = prep.head /\ t = prep.token /\ p = prep.pair)
          <5>1. QDone(h, t, p) BY <3>6, <3>7, <4>4
          <5>2. ram.q[h][t % TILE][Place(t, p)] = WordOf(FALSE, sys.active * Q_HEADS + h, t, p)
            BY <5>1 DEF Filled, QFilled
          <5>3. CASE prep.is_k BY <3>5, <5>2, <5>3
          <5>4. CASE ~prep.is_k
            <6>1. h # prep.head \/ t % TILE # b0 \/ Place(t, p) # a0
              BY <3>1, <4>4, <5>4, PlacesDiffer
            <6> QED BY <3>5, <4>1, <5>2, <5>4, <6>1
          <5> QED BY <5>3, <5>4
        <4> QED BY <4>3, <4>4
      <3>8. ASSUME NEW t \in Tokens, NEW p \in Pairs, KDone(t, p)'
            PROVE  KFilled(t, p)'
        <4>1. t % TILE \in Banks /\ Place(t, p) \in Addresses BY PlaceInRange
        <4>2. SUFFICES ram'.k[t % TILE][Place(t, p)] = WordOf(TRUE, sys.active, t, p)
          BY <2>1 DEF KFilled, WordOf, Place
        <4>3. CASE prep.is_k /\ t = prep.token /\ p = prep.pair
          <5>1. ram'.k[b0][a0] = rotor.word BY <3>5, <4>3
          <5>2. rotor.word = WordOf(TRUE, sys.active, t, p) BY <3>1, <3>4, <4>3
          <5> QED BY <4>3, <5>1, <5>2
        <4>4. CASE ~(prep.is_k /\ t = prep.token /\ p = prep.pair)
          <5>1. KDone(t, p) BY <3>1, <3>6, <3>8, <4>4
          <5>2. ram.k[t % TILE][Place(t, p)] = WordOf(TRUE, sys.active, t, p)
            BY <5>1 DEF Filled, KFilled
          <5>3. CASE ~prep.is_k BY <3>5, <5>2, <5>3
          <5>4. CASE prep.is_k
            <6>1. t % TILE # b0 \/ Place(t, p) # a0
              BY <3>1, <4>4, <5>4, PlacesDiffer
            <6> QED BY <3>5, <4>1, <5>2, <5>4, <6>1
          <5> QED BY <5>3, <5>4
        <4> QED BY <4>3, <4>4
      <3> QED BY <3>7, <3>8 DEF Filled
    <2> QED BY <2>3, <2>4
  <1> QED BY <1>7, <1>8
-----------------------------------------------------------------------------
(***************************************************************************)
(* The way of a vector from the RAMs to the array.                         *)
(***************************************************************************)

\* The token and pair the cache reads for a row or a column of the request.
LEMMA ReadPlace ==
  ASSUME TypeOK, NEW b \in Banks
  PROVE  /\ request.head \in Heads
         /\ read_pair \in Pairs /\ read_pair = request.dim % HALF_DIM
         /\ request.row + b \in Tokens /\ (request.row + b) % TILE = b
         /\ request.col + b \in Tokens /\ (request.col + b) % TILE = b
         /\ rd_addr(request.row, b) = Place(request.row + b, read_pair)
         /\ rd_addr(request.col, b) = Place(request.col + b, read_pair)
         /\ rd_addr(request.row, b) \in Addresses /\ rd_addr(request.col, b) \in Addresses
  <1>1. /\ request.head \in Heads /\ request.dim \in 0 .. HEAD_DIM - 1
        /\ \E k \in 0 .. RowTiles - 1 : request.row = k * TILE
        /\ \E k \in 0 .. RowTiles - 1 : request.col = k * TILE
    BY RequestInRange DEF TypeOK, DownType
  <1>2. /\ request.row + b \in Tokens /\ (request.row + b) % TILE = b
        /\ request.col + b \in Tokens /\ (request.col + b) % TILE = b
    BY <1>1, TileToken
  <1>3. read_pair \in Pairs /\ read_pair = request.dim % HALF_DIM
    <2> DEFINE d == request.dim
    <2>1. /\ HALF_DIM \in Nat \ {0} /\ d \in 0 .. HALF_DIM + HALF_DIM - 1
      BY <1>1, Sizes
    <2>2. read_pair = IF d < HALF_DIM THEN d ELSE d - HALF_DIM BY DEF read_pair
    <2> HIDE DEF d
    <2>3. CASE d < HALF_DIM
      <3>1. d \in 0 .. HALF_DIM - 1 /\ 0 * HALF_DIM + d = d BY <2>1, <2>3
      <3>2. d % HALF_DIM = d BY <2>1, <3>1, QuotientOf
      <3> QED BY <2>2, <2>3, <3>1, <3>2 DEF Pairs, d
    <2>4. CASE ~(d < HALF_DIM)
      <3>1. d - HALF_DIM \in 0 .. HALF_DIM - 1 /\ 1 * HALF_DIM + (d - HALF_DIM) = d
        BY <2>1, <2>4
      <3>2. (1 * HALF_DIM + (d - HALF_DIM)) % HALF_DIM = d - HALF_DIM
        BY <2>1, <3>1, QuotientOf
      <3> QED BY <2>2, <2>4, <3>1, <3>2 DEF Pairs, d
    <2> QED BY <2>3, <2>4
  <1>4. /\ rd_addr(request.row, b) = Place(request.row + b, read_pair)
        /\ rd_addr(request.col, b) = Place(request.col + b, read_pair)
    BY DEF rd_addr, Place
  <1>5. rd_addr(request.row, b) \in Addresses /\ rd_addr(request.col, b) \in Addresses
    BY <1>2, <1>3, <1>4, PlaceInRange
  <1> QED BY <1>1, <1>2, <1>3, <1>4, <1>5

LEMMA ReadMoves ==
  ASSUME TypeOK, ReadStep
  PROVE  /\ rd_data' \in ReadType
         /\ load_request =>
              \A b \in Banks :
                 /\ rd_data'.q[request.head][b]
                        = ram.q[request.head][b][rd_addr(request.row, b)]
                 /\ rd_data'.k[b] = ram.k[b][rd_addr(request.col, b)]
  <1>1. rd_data \in ReadType /\ ram \in RamType BY DEF TypeOK
  <1>2. CASE ~load_request BY <1>1, <1>2 DEF ReadStep
  <1>3. CASE load_request
    <2> DEFINE qs == [b \in Banks |-> ram.q[request.head][b][rd_addr(request.row, b)]]
               ks == [b \in Banks |-> ram.k[b][rd_addr(request.col, b)]]
    <2>1. rd_data' = [q |-> [rd_data.q EXCEPT ![request.head] = qs], k |-> ks]
      BY <1>3 DEF ReadStep
    <2>2. request.head \in Heads
      BY RequestInRange DEF TypeOK, DownType
    <2>3. qs \in [Banks -> Words] /\ ks \in [Banks -> Words]
      <3>1. ASSUME NEW b \in Banks
            PROVE  /\ ram.q[request.head][b][rd_addr(request.row, b)] \in Words
                   /\ ram.k[b][rd_addr(request.col, b)] \in Words
        <4>1. rd_addr(request.row, b) \in Addresses /\ rd_addr(request.col, b) \in Addresses
          BY ReadPlace
        <4>2. ram.q[request.head] \in BankType /\ ram.k \in BankType
          BY <1>1, <2>2 DEF RamType
        <4> QED BY <4>1, <4>2 DEF BankType
      <3> QED BY <3>1
    <2>4. rd_data.q \in [Heads -> [Banks -> Words]] BY <1>1 DEF ReadType
    <2>5. \A b \in Banks : /\ qs[b] = ram.q[request.head][b][rd_addr(request.row, b)]
                           /\ ks[b] = ram.k[b][rd_addr(request.col, b)]
      OBVIOUS
    <2> HIDE DEF qs, ks
    <2>6. /\ rd_data'.q \in [Heads -> [Banks -> Words]] /\ rd_data'.q[request.head] = qs
          /\ rd_data'.k = ks
      BY <2>1, <2>2, <2>3, <2>4
    <2>7. rd_data' \in ReadType BY <2>1, <2>3, <2>6 DEF ReadType
    <2> QED BY <2>5, <2>6, <2>7
  <1> QED BY <1>2, <1>3

LEMMA CacheMoves ==
  ASSUME TypeOK, CacheStep
  PROVE  /\ cache' \in CacheType
         /\ cache'.vec_valid =>
                ~prep.cache_clear /\ (cache.pending \/ (cache.vec_valid /\ ~down.ready))
         /\ cache'.pending => ~prep.cache_clear /\ load_request
         /\ load_request /\ ~prep.cache_clear =>
                (cache'.upper <=> request.dim >= HALF_DIM) /\ cache'.head = request.head
         /\ cache.pending /\ ~prep.cache_clear =>
                vec' = [q |-> [b \in Banks |-> [word |-> rd_data.q[cache.head][b],
                                                upper |-> cache.upper]],
                        k |-> [b \in Banks |-> [word |-> rd_data.k[b], upper |-> cache.upper]]]
  <1>1. cache \in CacheType BY DEF TypeOK
  <1>2. request.head \in Heads BY RequestInRange DEF TypeOK, DownType
  <1>3. cache' =
         [complete |-> complete_next,
          vec_valid |-> ~prep.cache_clear /\ (cache.pending \/ (cache.vec_valid /\ ~vec_ready)),
          pending |-> ~prep.cache_clear /\ load_request,
          upper |-> IF load_request /\ ~prep.cache_clear
                    THEN request.dim >= HALF_DIM ELSE cache.upper,
          head |-> IF load_request /\ ~prep.cache_clear THEN request.head ELSE cache.head]
    BY DEF CacheStep
  <1>4. complete_next \in BOOLEAN BY DEF complete_next
  <1>5. cache' \in CacheType
    <2> DEFINE up == IF load_request /\ ~prep.cache_clear
                     THEN request.dim >= HALF_DIM ELSE cache.upper
               hd == IF load_request /\ ~prep.cache_clear THEN request.head ELSE cache.head
               vv == ~prep.cache_clear /\ (cache.pending \/ (cache.vec_valid /\ ~vec_ready))
               pd == ~prep.cache_clear /\ load_request
    <2>1. up \in BOOLEAN
      <3>1. cache.upper \in BOOLEAN /\ (request.dim >= HALF_DIM) \in BOOLEAN
        BY <1>1 DEF CacheType
      <3> QED BY <3>1
    <2>2. hd \in Heads BY <1>1, <1>2 DEF CacheType
    <2>3. vv \in BOOLEAN /\ pd \in BOOLEAN OBVIOUS
    <2>4. cache' = [complete |-> complete_next, vec_valid |-> vv, pending |-> pd,
                    upper |-> up, head |-> hd]
      BY <1>3
    <2> HIDE DEF up, hd, vv, pd
    <2> QED BY <1>4, <2>1, <2>2, <2>3, <2>4 DEF CacheType
  <1>6. /\ cache'.vec_valid = (~prep.cache_clear /\ (cache.pending \/ (cache.vec_valid /\ ~down.ready)))
        /\ cache'.pending = (~prep.cache_clear /\ load_request)
    BY <1>3 DEF vec_ready
  <1>7. load_request /\ ~prep.cache_clear =>
            (cache'.upper = (request.dim >= HALF_DIM)) /\ cache'.head = request.head
    BY <1>3
  <1>8. cache.pending /\ ~prep.cache_clear =>
                vec' = [q |-> [b \in Banks |-> [word |-> rd_data.q[cache.head][b],
                                                upper |-> cache.upper]],
                        k |-> [b \in Banks |-> [word |-> rd_data.k[b], upper |-> cache.upper]]]
    BY DEF CacheStep
  <1> QED BY <1>5, <1>6, <1>7, <1>8

\* Type correctness is inductive with the control part.
LEMMA TypeStep ==
  ASSUME TypeOK, Control,
         NEW start \in BOOLEAN, NEW rdy \in BOOLEAN, NEW vld \in BOOLEAN,
         NEW rotated \in BOOLEAN, NEW moves \in BOOLEAN, NEW ready \in BOOLEAN,
         Edge(start, rdy, vld, rotated, moves, ready)
  PROVE  TypeOK'
  <1>1. /\ SysStep(start, ready) /\ WrapperStep /\ BridgeStep(ready)
        /\ PrepStep(rdy, vld) /\ RotorStep(vld, rotated) /\ ReaderStep(rdy, vld)
        /\ WriteStep /\ ReadStep /\ CacheStep
        /\ PipeStep /\ DownStep(moves, ready) /\ History(start, ready)
    BY DEF Edge
  <1>2. (prep.is_k => prep.head = 0) /\ (sys.clear => down.phase = "IDLE")
    BY DEF Control, TypeOK, SysType, BridgeType
  <1>3. sys' \in SysType BY <1>1, SysMoves
  <1>4. bridge' \in BridgeType BY <1>1, BridgeMoves
  <1>5. prep' \in PrepType BY <1>1, <1>2, PrepMoves
  <1>6. rotor' \in RotorType BY <1>1, RotorMoves
  <1>7. asked' \in Raws BY <1>1, ReaderMoves
  <1>8. ram' \in RamType BY <1>1, WriteMoves
  <1>9. rd_data' \in ReadType BY <1>1, ReadMoves
  <1>10. cache' \in CacheType BY <1>1, CacheMoves
  <1>11. pipe' \in PipeType BY <1>1, PipeMoves
  <1>12. down' \in DownType BY <1>1, <1>2, DownMoves
  <1>13. wrapper_start_error' \in BOOLEAN BY <1>1 DEF WrapperStep
  <1>14. run' \in Nat BY <1>1 DEF History, TypeOK
  <1> QED BY <1>3, <1>4, <1>5, <1>6, <1>7, <1>8, <1>9, <1>10, <1>11, <1>12, <1>13, <1>14
      DEF TypeOK

\* While the array waits for a vector, what it asks for stays.
LEMMA ArrayWaits ==
  ASSUME TypeOK, Control, Reading,
         NEW start \in BOOLEAN, NEW rdy \in BOOLEAN, NEW vld \in BOOLEAN,
         NEW rotated \in BOOLEAN, NEW moves \in BOOLEAN, NEW ready \in BOOLEAN,
         Edge(start, rdy, vld, rotated, moves, ready),
         down.ready, ~cache.vec_valid
  PROVE  /\ down'.ready /\ request' = request /\ run' = run /\ sys'.active = sys.active
         /\ bridge.state = "ACTIVE" /\ ~prep.cache_clear
         /\ \A b \in Banks : QElement(b)' = QElement(b) /\ KElement(b)' = KElement(b)
  <1>1. DownStep(moves, ready) BY DEF Edge
  <1>2. down.phase = "QK" BY DEF Reading
  <1>3. bridge.state = "ACTIVE" BY <1>2 DEF Control
  <1>4. sys.clear => down.phase = "IDLE" BY DEF Control, TypeOK, SysType, BridgeType
  <1>5. ~delivered BY DEF delivered
  <1>6. down'.position = down.position /\ down'.ready
    BY <1>1, <1>2, <1>4, <1>5, DownMoves
  <1>7. request' = request BY <1>6 DEF request, Tile
  <1>8. run' = run /\ sys'.active = sys.active
    <2>1. ~GroupDone(ready) BY <1>2 DEF GroupDone
    <2> QED BY <1>3, <2>1, GroupStays
  <1>9. ~prep.cache_clear BY <1>3 DEF Control
  <1>10. \A b \in Banks : QElement(b)' = QElement(b) /\ KElement(b)' = KElement(b)
    BY <1>7, <1>8 DEF QElement, KElement, Rotated
  <1> QED BY <1>3, <1>6, <1>7, <1>8, <1>9, <1>10

\* What the RAMs deliver is the vector asked for.
LEMMA ReadIsRotated ==
  ASSUME TypeOK, Filled, ReadStep, load_request, NEW b \in Banks
  PROVE  /\ QElement(b) = [word |-> rd_data'.q[request.head][b],
                           upper |-> request.dim >= HALF_DIM]
         /\ KElement(b) = [word |-> rd_data'.k[b], upper |-> request.dim >= HALF_DIM]
  <1>1. bridge.state = "ACTIVE" BY DEF load_request
  <1>2. \A h \in Heads, t \in Tokens, p \in Pairs : QFilled(h, t, p) /\ KFilled(t, p)
    BY <1>1 DEF Filled, QDone, KDone, Prepared
  <1> DEFINE i == request.row + b
             j == request.col + b
             p == read_pair
  <1>3. /\ request.head \in Heads /\ p \in Pairs /\ p = request.dim % HALF_DIM
        /\ i \in Tokens /\ i % TILE = b /\ j \in Tokens /\ j % TILE = b
        /\ rd_addr(request.row, b) = Place(i, p) /\ rd_addr(request.col, b) = Place(j, p)
    BY ReadPlace
  <1>4. /\ rd_data'.q[request.head][b] = ram.q[request.head][b][Place(i, p)]
        /\ rd_data'.k[b] = ram.k[b][Place(j, p)]
    BY <1>3, ReadMoves
  <1> HIDE DEF i, j, p
  <1>5. /\ ram.q[request.head][b][Place(i, p)]
               = WordOf(FALSE, sys.active * Q_HEADS + request.head, i, p)
        /\ ram.k[b][Place(j, p)] = WordOf(TRUE, sys.active, j, p)
    <2>1. QFilled(request.head, i, p) /\ KFilled(j, p) BY <1>2, <1>3
    <2> QED BY <1>3, <2>1 DEF QFilled, KFilled
  <1>6. /\ QElement(b) = [word |-> WordOf(FALSE, sys.active * Q_HEADS + request.head, i, p),
                          upper |-> request.dim >= HALF_DIM]
        /\ KElement(b) = [word |-> WordOf(TRUE, sys.active, j, p),
                          upper |-> request.dim >= HALF_DIM]
    BY <1>3 DEF QElement, KElement, Rotated, WordOf, i, j
  <1> QED BY <1>4, <1>5, <1>6

LEMMA ReadingStep ==
  ASSUME TypeOK, Control, Filled, Reading,
         NEW start \in BOOLEAN, NEW rdy \in BOOLEAN, NEW vld \in BOOLEAN,
         NEW rotated \in BOOLEAN, NEW moves \in BOOLEAN, NEW ready \in BOOLEAN,
         Edge(start, rdy, vld, rotated, moves, ready)
  PROVE  Reading'
  <1>1. ReadStep /\ CacheStep /\ DownStep(moves, ready) BY DEF Edge
  <1>2. /\ down.phase \in {"IDLE", "QK", "DRAIN", "LAST"}
        /\ sys.clear => down.phase = "IDLE"
    BY DEF Control, TypeOK, SysType, BridgeType, DownType
  <1>3. down'.ready => down'.phase = "QK"
    BY <1>1, <1>2, DownMoves DEF Reading
  <1>4. cache'.vec_valid => cache.pending /\ ~prep.cache_clear
    <2>1. cache.vec_valid => down.ready BY DEF Reading
    <2> QED BY <1>1, <2>1, CacheMoves
  <1>5. cache'.pending => load_request /\ ~prep.cache_clear BY <1>1, CacheMoves
  <1>6. cache.pending \/ load_request => down.ready /\ ~cache.vec_valid
    BY DEF Reading, load_request, vec_ready
  <1>7. cache'.pending \/ cache'.vec_valid => down'.ready
    BY <1>4, <1>5, <1>6, ArrayWaits
  <1>8. ASSUME cache'.pending
        PROVE  /\ ~cache'.vec_valid
               /\ cache'.head = request'.head
               /\ \A b \in Banks :
                    /\ QElement(b)' = [word |-> rd_data'.q[cache'.head][b], upper |-> cache'.upper]
                    /\ KElement(b)' = [word |-> rd_data'.k[b], upper |-> cache'.upper]
    <2>1. load_request /\ ~prep.cache_clear /\ down.ready /\ ~cache.vec_valid
      BY <1>5, <1>6, <1>8
    <2>2. ~cache'.vec_valid BY <1>4, <2>1 DEF load_request
    <2>3. /\ request' = request
          /\ \A b \in Banks : QElement(b)' = QElement(b) /\ KElement(b)' = KElement(b)
      BY <2>1, ArrayWaits
    <2>4. cache'.upper = (request.dim >= HALF_DIM) /\ cache'.head = request.head
      <3>1. cache'.upper \in BOOLEAN /\ (request.dim >= HALF_DIM) \in BOOLEAN
        BY <1>1, CacheMoves DEF CacheType
      <3>2. (cache'.upper <=> request.dim >= HALF_DIM) /\ cache'.head = request.head
        BY <1>1, <2>1, CacheMoves
      <3> QED BY <3>1, <3>2
    <2>5. ASSUME NEW b \in Banks
          PROVE  /\ QElement(b)' = [word |-> rd_data'.q[cache'.head][b], upper |-> cache'.upper]
                 /\ KElement(b)' = [word |-> rd_data'.k[b], upper |-> cache'.upper]
      BY <1>1, <2>1, <2>3, <2>4, ReadIsRotated
    <2> QED BY <2>2, <2>3, <2>4, <2>5
  <1>9. ASSUME cache'.vec_valid
        PROVE  vec' = [q |-> [b \in Banks |-> QElement(b)'], k |-> [b \in Banks |-> KElement(b)']]
    <2>1. cache.pending /\ ~prep.cache_clear /\ down.ready /\ ~cache.vec_valid
      BY <1>4, <1>6, <1>9
    <2>2. \A b \in Banks :
            /\ QElement(b)' = [word |-> rd_data.q[cache.head][b], upper |-> cache.upper]
            /\ KElement(b)' = [word |-> rd_data.k[b], upper |-> cache.upper]
      BY <2>1, ArrayWaits, SMTT(40) DEF Reading
    <2>3. vec' = [q |-> [b \in Banks |-> [word |-> rd_data.q[cache.head][b],
                                          upper |-> cache.upper]],
                  k |-> [b \in Banks |-> [word |-> rd_data.k[b], upper |-> cache.upper]]]
      BY <1>1, <2>1, CacheMoves
    <2> QED BY <2>2, <2>3
  <1>10. cache'.vec_valid =>
            vec' = [q |-> [b \in Banks |-> QElement(b)], k |-> [b \in Banks |-> KElement(b)]]'
    BY <1>9
  <1> QED BY <1>3, <1>7, <1>8, <1>10 DEF Reading
-----------------------------------------------------------------------------
(***************************************************************************)
(* The theorems.                                                           *)
(***************************************************************************)
LEMMA TypeInit ==
  ASSUME Init PROVE TypeOK
  <1>1. 0 \in Heads /\ 0 \in Tokens /\ 0 \in Pairs /\ 0 \in 0 .. RUN_GQA_GROUPS - 1
    BY Sizes DEF Heads, Tokens, Pairs
  <1>2. 0 \in 0 .. Positions - 1
    <2>1. \A n, h, d \in Nat \ {0} : ((h * n) * n) * d \in Nat \ {0}
      <3>1. \A x, y \in Nat \ {0} : x * y \in Nat \ {0} OBVIOUS
      <3> QED BY <3>1
    <2>2. Positions \in Nat \ {0} BY <2>1, Sizes DEF Positions, RowTiles
    <2> QED BY <2>2
  <1>3. NoRaw \in Raws /\ NoWord \in Words BY DEF NoRaw, NoWord, Raws, Words
  <1>4. sys \in SysType /\ bridge \in BridgeType /\ prep \in PrepType
    BY <1>1 DEF Init, SysReset, BridgeReset, PrepReset, SysType, BridgeType, PrepType
  <1>5. rotor \in RotorType /\ cache \in CacheType /\ pipe \in PipeType /\ down \in DownType
    BY <1>1, <1>2, <1>3 DEF Init, RotorReset, CacheReset, PipeReset, DownReset,
       RotorType, CacheType, PipeType, DownType
  <1>6. ram \in RamType BY <1>3 DEF Init, RamType, BankType
  <1>7. rd_data \in ReadType BY <1>3 DEF Init, ReadType
  <1> QED BY <1>3, <1>4, <1>5, <1>6, <1>7 DEF Init, TypeOK

\* What the reset leaves satisfies everything but the types.
Resting ==
    /\ sys = SysReset /\ wrapper_start_error = FALSE /\ bridge = BridgeReset
    /\ prep = PrepReset /\ rotor = RotorReset /\ cache = CacheReset
    /\ pipe = PipeReset /\ down = DownReset /\ asked = NoRaw

LEMMA RestIsSafe ==
  ASSUME Resting PROVE Control /\ Progress /\ InWork /\ Filled /\ Reading
  <1>1. Control
    BY DEF Resting, Control, SysReset, BridgeReset, PrepReset, RotorReset, PipeReset, DownReset
  <1>2. Progress /\ InWork BY DEF Resting, Progress, InWork, SysReset, PrepReset
  <1>3. Filled
    BY DEF Resting, Filled, QDone, KDone, Prepared, PrepReset, BridgeReset
  <1>4. Reading BY DEF Resting, Reading, DownReset, CacheReset
  <1> QED BY <1>1, <1>2, <1>3, <1>4

LEMMA ResetTypes ==
  ASSUME TypeOK, Reset PROVE TypeOK'
  <1>1. 0 \in Heads /\ 0 \in Tokens /\ 0 \in Pairs /\ 0 \in 0 .. RUN_GQA_GROUPS - 1
    BY Sizes DEF Heads, Tokens, Pairs
  <1>2. 0 \in 0 .. Positions - 1
    <2>1. \A n, h, d \in Nat \ {0} : ((h * n) * n) * d \in Nat \ {0}
      <3>1. \A x, y \in Nat \ {0} : x * y \in Nat \ {0} OBVIOUS
      <3> QED BY <3>1
    <2>2. Positions \in Nat \ {0} BY <2>1, Sizes DEF Positions, RowTiles
    <2> QED BY <2>2
  <1>3. NoRaw \in Raws /\ NoWord \in Words BY DEF NoRaw, NoWord, Raws, Words
  <1>4. sys' \in SysType /\ bridge' \in BridgeType /\ prep' \in PrepType
    BY <1>1 DEF Reset, SysReset, BridgeReset, PrepReset, SysType, BridgeType, PrepType
  <1>5. rotor' \in RotorType /\ cache' \in CacheType /\ pipe' \in PipeType /\ down' \in DownType
    BY <1>1, <1>2, <1>3 DEF Reset, RotorReset, CacheReset, PipeReset, DownReset,
       RotorType, CacheType, PipeType, DownType
  <1> QED BY <1>3, <1>4, <1>5 DEF Reset, TypeOK

LEMMA EdgeStep ==
  ASSUME IInv,
         NEW start \in BOOLEAN, NEW rdy \in BOOLEAN, NEW vld \in BOOLEAN,
         NEW rotated \in BOOLEAN, NEW moves \in BOOLEAN, NEW ready \in BOOLEAN,
         Edge(start, rdy, vld, rotated, moves, ready)
  PROVE  IInv'
  <1>1. TypeOK' BY TypeStep DEF IInv
  <1>2. Control' BY ControlStep DEF IInv
  <1>3. Progress' BY ProgressStep DEF IInv
  <1>4. InWork' BY InWorkStep DEF IInv
  <1>5. Filled' BY FilledStep DEF IInv
  <1>6. Reading' BY ReadingStep DEF IInv
  <1> QED BY <1>1, <1>2, <1>3, <1>4, <1>5, <1>6 DEF IInv

\* The five parts of the invariant and the types hold together in every state:
\* the controllers of the RTL keep one order, and the RAMs hold what it implies.
THEOREM Invariance == Spec => []IInv
  <1>1. Init => IInv
    <2> SUFFICES ASSUME Init PROVE IInv OBVIOUS
    <2>1. Resting BY DEF Init, Resting
    <2> QED BY <2>1, TypeInit, RestIsSafe DEF IInv
  <1>2. IInv /\ [Next]_vars => IInv'
    <2> SUFFICES ASSUME IInv, [Next]_vars PROVE IInv' OBVIOUS
    <2>1. CASE \E start, raw_ready, raw_valid, rotated, moves, context_ready \in BOOLEAN :
                  Edge(start, raw_ready, raw_valid, rotated, moves, context_ready)
      BY <2>1, EdgeStep
    <2>2. CASE Reset
      <3>1. Resting' BY <2>2 DEF Reset, Resting
      <3>2. TypeOK' BY <2>2, ResetTypes DEF IInv
      <3>3. (Control /\ Progress /\ InWork /\ Filled /\ Reading)'
        BY <3>1, RestIsSafe, PTL
      <3> QED BY <3>2, <3>3 DEF IInv
    <2>3. CASE UNCHANGED vars
      <3>1. TypeOK' BY <2>3 DEF IInv, TypeOK, vars
      <3>2. Control' /\ Progress' BY <2>3 DEF IInv, Control, Progress, vars
      <3>3. InWork'
        BY <2>3 DEF IInv, InWork, raw_req, raw_req_head, rom_addr, vars
      <3>4. Filled'
        BY <2>3 DEF IInv, Filled, QDone, KDone, Prepared, Earlier, Before, QFilled, KFilled,
                    WordOf, vars
      <3>5. Reading'
        <4>1. request' = request BY <2>3 DEF request, Tile, vars
        <4> QED BY <2>3, <4>1 DEF IInv, Reading, QElement, KElement, Rotated, vars
      <3> QED BY <3>1, <3>2, <3>3, <3>4, <3>5 DEF IInv
    <2> QED BY <2>1, <2>2, <2>3 DEF Next
  <1> QED BY <1>1, <1>2, PTL DEF Spec

\* ControllersInStep: no launch pulse of rope_group_bridge.sv ever meets a busy or
\* refusing neighbour, and the clear pulse comes only when all of them rest.
THEOREM InStep == Spec => []ControllersInStep
  <1>1. IInv => ControllersInStep
    BY DEF IInv, TypeOK, SysType, BridgeType, PrepType, Control, ControllersInStep
  <1> QED BY <1>1, Invariance, PTL

\* GroupsInOrder: at the done pulse of the system top the last context word of
\* each group has been sent, in order and once.
THEOREM InOrder == Spec => []GroupsInOrder
  <1>1. IInv => GroupsInOrder
    BY DEF IInv, Progress, GroupsInOrder, Upto
  <1> QED BY <1>1, Invariance, PTL

\* VectorIsRotated: the vector rope_qk_group_cache.sv delivers to the array is
\* the rotated one of the heads, the tokens and the dimension it asks for.
THEOREM IsRotated == Spec => []VectorIsRotated
  <1>1. IInv => VectorIsRotated
    BY DEF IInv, Reading, VectorIsRotated, delivered, QElement, KElement
  <1> QED BY <1>1, Invariance, PTL
-----------------------------------------------------------------------------
(***************************************************************************)
(* The core as the engine of the board sees it (BoardEngine): busy from    *)
(* the start pulse on, a clear pulse one edge later, one done pulse.       *)
(***************************************************************************)
Engine(core_start) == INSTANCE BoardEngine WITH
    CycleMod <- 1, state <- "RUN_CORE", cycle_count <- 0,
    core <- [busy |-> sys.state # "IDLE", clear |-> sys.clear, done |-> sys.done,
             error |-> sys.busy_error \/ wrapper_start_error \/ pipe.busy_error
                       \/ pipe.invalid_error],
    v_start <- FALSE, ctx_start <- FALSE, done_latched <- FALSE,
    error_latched <- FALSE, v_loaded <- FALSE, core_done_seen <- FALSE,
    context_done_seen <- FALSE, v <- 0, ctx <- 0, raw_error <- FALSE,
    rd_error <- FALSE, wr_error <- FALSE, faulted <- FALSE, prev_faulted <- FALSE,
    ever_faulted <- FALSE

CoreIsAStage(start) ==
    \E finish \in SUBSET {"core"} :
        /\ finish # {} => Engine(start)!StageOf("core")
        /\ Engine(start)!CoreStep({}, finish)

\* The pulses and the error flag of the system top.
LEMMA SysPulses ==
  ASSUME TypeOK, NEW start \in BOOLEAN, NEW ready \in BOOLEAN, SysStep(start, ready)
  PROVE  /\ sys'.clear = (start /\ sys.state = "IDLE")
         /\ sys'.done => sys.state # "IDLE"
         /\ sys'.state = "IDLE" <=> (IF sys.state = "IDLE" THEN ~start ELSE sys'.done)
         /\ start /\ sys.state # "IDLE" => sys'.busy_error
  <1>1. sys \in SysType BY DEF TypeOK
  <1>2. sys' \in SysType BY SysMoves
  <1>3. sys.state = "IDLE" /\ start => sys'.clear
    BY <1>1 DEF SysStep, SysIdle, SysBase, SysType
  <1>4. sys.state # "IDLE" \/ ~start => ~sys'.clear
    BY <1>1, SysMoves DEF SysType
  <1>5. ASSUME start, sys.state # "IDLE" PROVE sys'.busy_error
    <2>1. SysBase(start) \in SysType /\ SysBase(start).busy_error
      BY <1>1, <1>5 DEF SysBase, SysType, start_ready
    <2>2. CASE sys.state = "LAUNCH"
      BY <2>1, <2>2 DEF SysStep, SysLaunch, SysType
    <2>3. CASE sys.state = "ACTIVE"
      <3> DEFINE base == SysBase(start)
                 last == sys.active = RUN_GQA_GROUPS - 1
      <3>1. sys' = IF GroupDone(ready)
                   THEN [base EXCEPT !.complete = TRUE, !.completed = sys.active,
                             !.counted = @ + 1, !.done = last,
                             !.active = IF last THEN @ ELSE @ + 1,
                             !.state = IF last THEN "IDLE" ELSE "LAUNCH"]
                   ELSE base
        BY <2>3 DEF SysStep, SysActive
      <3>2. base \in SysType /\ base.busy_error BY <2>1
      <3> HIDE DEF base
      <3> QED BY <3>1, <3>2 DEF SysType
    <2> QED BY <1>1, <1>5, <2>2, <2>3 DEF SysType
  <1>6. /\ sys'.done => sys.state # "IDLE"
        /\ sys'.state = "IDLE" <=> (IF sys.state = "IDLE" THEN ~start ELSE sys'.done)
    BY <1>1, SysMoves DEF SysType
  <1>7. sys'.clear \in BOOLEAN BY <1>2 DEF SysType
  <1> QED BY <1>3, <1>4, <1>5, <1>6, <1>7

LEMMA EdgeIsAStage ==
  ASSUME IInv, IInv', ~sys.busy_error, ~sys.busy_error',
         NEW start \in BOOLEAN, NEW ready \in BOOLEAN, SysStep(start, ready)
  PROVE  CoreIsAStage(start)
  <1>1. /\ sys'.clear = (start /\ sys.state = "IDLE")
        /\ sys'.done => sys.state # "IDLE"
        /\ sys'.state = "IDLE" <=> (IF sys.state = "IDLE" THEN ~start ELSE sys'.done)
        /\ ~(start /\ sys.state # "IDLE")
    BY SysPulses DEF IInv
  <1>2. /\ ~wrapper_start_error /\ ~pipe.busy_error /\ ~pipe.invalid_error
        /\ ~wrapper_start_error' /\ ~pipe'.busy_error /\ ~pipe'.invalid_error
    BY DEF IInv, Control
  <1>3. sys'.done \in BOOLEAN /\ sys.clear \in BOOLEAN
    BY DEF IInv, TypeOK, SysType
  <1> DEFINE finish == IF sys'.done THEN {"core"} ELSE {}
  <1>4. finish \in SUBSET {"core"} /\ ("core" \in finish <=> sys'.done)
    OBVIOUS
  <1>5. finish # {} => Engine(start)!StageOf("core")
    BY <1>1 DEF Engine!StageOf
  <1>6. Engine(start)!CoreStep({}, finish)
    BY <1>1, <1>2, <1>3, <1>4 DEF Engine!CoreStep
  <1> QED BY <1>4, <1>5, <1>6 DEF CoreIsAStage

\* Every edge of the core is one the engine model allows its stage, with no fault
\* of the core's own, as long as it is never started while it works: the engine
\* starts it only when it is not busy (StagesInTurn of BoardEngine), and
\* start_while_busy_error of flash_attention_system_with_rope_top.sv then stays low.
THEOREM CoreKeepsItsContract ==
    Spec /\ []~sys.busy_error =>
        [][\A start, raw_ready, raw_valid, rotated, moves, context_ready \in BOOLEAN :
               Edge(start, raw_ready, raw_valid, rotated, moves, context_ready) =>
                   CoreIsAStage(start)]_vars
  <1>1. IInv /\ IInv' /\ ~sys.busy_error /\ ~sys.busy_error' =>
            [\A start, raw_ready, raw_valid, rotated, moves, context_ready \in BOOLEAN :
                 Edge(start, raw_ready, raw_valid, rotated, moves, context_ready) =>
                     CoreIsAStage(start)]_vars
    BY EdgeIsAStage DEF Edge
  <1> QED BY <1>1, Invariance, PTL
=============================================================================
