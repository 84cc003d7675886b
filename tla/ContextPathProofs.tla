------------------------ MODULE ContextPathProofs -------------------------
(***************************************************************************)
(* Proofs about the path of the context from the update elements to DDR,   *)
(* for every size of a tile, a row, a head, a block, a run and a burst.    *)
(*                                                                         *)
(* First ContextWriter, with resets at any time.  Counts says what the     *)
(* counters of the writer have to do with each other, Filled what the      *)
(* block buffer holds so far.  Progress is the arithmetic of the bursts:   *)
(* address and beats left of the master agree with the beat the writer is  *)
(* at.  Complete says what of it has arrived, and that only the burst in   *)
(* work is open, if none was at the start of the run.                      *)
(*                                                                         *)
(* Then ContextFusion, for every order in which the cores answer.  Order   *)
(* places the tile in work and the words emitted, Fetched says which V     *)
(* vectors have come, Held which partial sum the memory of O holds in each *)
(* state, Elements which one an element has got to, and Dividers that the  *)
(* dividers of the rows run in step.                                       *)
(***************************************************************************)
EXTENDS ContextWriter, ContextFusion, SequenceTheorems, TLAPS

B == BEAT_WORDS
WordType == [word : Int, run : Nat]
BeatType == [Lanes -> WordType]
Beats == 0 .. BLOCK_BEATS - 1
Places == 0 .. Blocks * BLOCK_BEATS - 1

WriterType ==
    [busy : BOOLEAN, done : BOOLEAN, error : BOOLEAN, wr_start : BOOLEAN,
     pack : BeatType, lane : Lanes, beat : Beats, words : 0 .. BLOCK_WORDS,
     full : BOOLEAN, active : BOOLEAN, final : BOOLEAN, blocks : Nat, accepted : Nat]
MasterType ==
    [st : {"IDLE", "WA_WAIT", "WA_START", "WD_WAIT", "WD_PROC", "WR_WAIT", "DONE"},
     adrs : Int, len : Nat, awvalid : BOOLEAN, wvalid : BOOLEAN, last : BOOLEAN, wlen : Nat]

TypeOK ==
    /\ ctx_start \in BOOLEAN /\ soft_reset \in BOOLEAN
    /\ writer \in WriterType /\ master \in MasterType
    /\ block_mem \in [Beats -> BeatType]
    /\ wr_error \in BOOLEAN /\ faulted \in BOOLEAN /\ quiet \in BOOLEAN
    /\ run \in Nat /\ ddr \in [Places -> BeatType]

\* Who is awake when.
Turns ==
    /\ ctx_start \/ writer.done => ~writer.busy
    /\ writer.wr_start => writer.active /\ writer.beat = 0
    /\ writer.active => writer.full
    /\ writer.full => writer.busy
    /\ ~writer.active => writer.beat = 0
    /\ master.st # "IDLE" <=> writer.active /\ ~writer.wr_start
    /\ master.awvalid <=> master.st = "WD_WAIT"
    /\ master.wvalid <=> master.st = "WD_PROC"

\* The counters of a run.
Counts ==
    writer.busy =>
        /\ writer.blocks < Blocks
        /\ writer.accepted = writer.blocks * BLOCK_WORDS + writer.words
        /\ writer.lane = writer.words % B
        /\ writer.full <=> writer.words = BLOCK_WORDS
        /\ writer.final <=> writer.full /\ writer.blocks = Blocks - 1

\* The beat at a place of the context, and what the buffer holds.
BeatAt(b) == [l \in Lanes |-> Word(b * B + l)]
First == writer.blocks * BLOCK_BEATS    \* of the block in work
Filled ==
    writer.busy =>
        /\ \A b \in Beats : (b + 1) * B <= writer.words => block_mem[b] = BeatAt(First + b)
        /\ \A l \in Lanes : l < writer.lane =>
               writer.pack[l] = Word(writer.accepted - writer.lane + l)

\* The bursts of a block.
Asking ==
    master.st \in {"WA_WAIT", "WA_START"} =>
        master.adrs = First + writer.beat /\ master.len + writer.beat + 1 = BLOCK_BEATS
Offering ==
    master.st = "WD_WAIT" =>
        /\ master.adrs = First + writer.beat
        /\ master.last => master.wlen + writer.beat + 1 = BLOCK_BEATS
        /\ ~master.last => /\ master.wlen + 1 = Burst
                           /\ master.len + Burst + writer.beat + 1 = BLOCK_BEATS
Giving ==
    master.st = "WD_PROC" =>
        /\ master.last => master.wlen + writer.beat + 1 = BLOCK_BEATS
        /\ ~master.last => /\ master.wlen + master.len + writer.beat + 2 = BLOCK_BEATS
                           /\ master.adrs + Burst = First + writer.beat + master.wlen + 1
Given == master.st = "DONE" \/ (master.st = "WR_WAIT" /\ master.last)
Closing ==
    /\ master.st = "WR_WAIT" /\ ~master.last =>
           /\ master.len + writer.beat + 1 = BLOCK_BEATS
           /\ master.adrs + Burst = First + writer.beat
    /\ Given => writer.beat + 1 = BLOCK_BEATS
Progress == Asking /\ Offering /\ Giving /\ Closing

\* What the memory has, in a run that found no burst open.
Arrived == IF Given THEN BLOCK_BEATS ELSE writer.beat
OpenBurst == [adrs |-> First + writer.beat, left |-> master.wlen + 1]
Complete ==
    quiet /\ (ctx_start \/ writer.busy \/ writer.done) =>
        /\ bursts = IF master.st = "WD_PROC" THEN <<OpenBurst>> ELSE <<>>
        /\ responses = IF master.st = "WR_WAIT" THEN 1 ELSE 0
        /\ writer.busy => \A b \in Places : b < First + Arrived => ddr[b] = BeatAt(b)
        /\ writer.done => \A b \in Places : ddr[b] = BeatAt(b)

Errors == writer.error \/ wr_error => faulted

IInv == TypeOK /\ Turns /\ Counts /\ Filled /\ Progress /\ Complete /\ Errors
-----------------------------------------------------------------------------
(***************************************************************************)
(* Quotients and remainders.                                               *)
(***************************************************************************)
LEMMA QuotientOf ==
  ASSUME NEW t \in Nat \ {0}, NEW a \in Nat, NEW r \in 0 .. t - 1
  PROVE  (a * t + r) \div t = a /\ (a * t + r) % t = r
  OBVIOUS

LEMMA Division ==
  ASSUME NEW t \in Nat \ {0}, NEW a \in Nat
  PROVE  /\ a \div t \in Nat /\ a % t \in 0 .. t - 1
         /\ a = (a \div t) * t + (a % t)
  OBVIOUS

\* A quotient is smaller than m when the dividend is smaller than m times the
\* divisor.
LEMMA QuotientBelow ==
  ASSUME NEW t \in Nat \ {0}, NEW m \in Nat, NEW a \in Nat, a < m * t
  PROVE  a \div t \in 0 .. m - 1
  <1> DEFINE q == a \div t
  <1>1. q \in Nat /\ q * t <= a OBVIOUS
  <1> HIDE DEF q
  <1>2. ASSUME q >= m PROVE FALSE
    <2>1. q * t >= m * t /\ q * t \in Nat /\ m * t \in Nat BY <1>1, <1>2
    <2> QED BY <1>1, <2>1
  <1>3. q < m BY <1>1, <1>2
  <1> QED BY <1>1, <1>3 DEF q

\* The constants, and how words, beats, rows and blocks are made of each other.
LEMMA Sizes ==
  /\ B \in Nat /\ B >= 2 /\ HEAD_DIM \in Nat \ {0} /\ TILE_ROWS \in Nat \ {0}
  /\ Blocks \in Nat \ {0} /\ Burst \in Nat \ {0} /\ MaxRuns \in Nat \ {0}
  /\ BEATS_PER_ROW \in Nat \ {0} /\ HEAD_DIM = BEATS_PER_ROW * B
  /\ BLOCK_BEATS \in Nat \ {0} /\ BLOCK_BEATS = TILE_ROWS * BEATS_PER_ROW
  /\ BLOCK_WORDS \in Nat \ {0} /\ BLOCK_WORDS = BLOCK_BEATS * B
  /\ BLOCK_WORDS = TILE_ROWS * HEAD_DIM
  /\ Lanes = 0 .. B - 1
  <1>1. /\ B \in Nat /\ B >= 2 /\ HEAD_DIM \in Nat \ {0} /\ HEAD_DIM % B = 0
        /\ TILE_ROWS \in Nat \ {0} /\ Blocks \in Nat \ {0}
        /\ Burst \in Nat \ {0} /\ MaxRuns \in Nat \ {0}
    BY WriterAssumption DEF B
  <1>2. BEATS_PER_ROW = HEAD_DIM \div B /\ Lanes = 0 .. B - 1
    BY DEF BEATS_PER_ROW, B, Lanes
  <1>3. BEATS_PER_ROW \in Nat \ {0} /\ HEAD_DIM = BEATS_PER_ROW * B
    <2>1. /\ HEAD_DIM \div B \in Nat
          /\ HEAD_DIM = (HEAD_DIM \div B) * B + (HEAD_DIM % B)
      BY <1>1, Division
    <2> HIDE DEF B
    <2> DEFINE q == HEAD_DIM \div B
    <2>2. q \in Nat /\ HEAD_DIM = q * B + 0 BY <1>1, <2>1
    <2> HIDE DEF q
    <2>3. HEAD_DIM = q * B /\ q # 0 BY <1>1, <2>2
    <2> QED BY <1>2, <2>2, <2>3 DEF q
  <1>4. BLOCK_BEATS = TILE_ROWS * BEATS_PER_ROW /\ BLOCK_BEATS \in Nat \ {0}
    BY <1>1, <1>3 DEF BLOCK_BEATS
  <1>5. BLOCK_WORDS = BLOCK_BEATS * B /\ BLOCK_WORDS \in Nat \ {0}
    BY <1>1, <1>4 DEF BLOCK_WORDS, B
  <1>6. BLOCK_WORDS = TILE_ROWS * HEAD_DIM
    <2> DEFINE p == BEATS_PER_ROW
    <2>1. p \in Nat BY <1>3
    <2> HIDE DEF p
    <2>2. (TILE_ROWS * p) * B = TILE_ROWS * (p * B) BY <1>1, <2>1
    <2> QED BY <1>3, <1>4, <1>5, <2>2 DEF p
  <1> QED BY <1>1, <1>2, <1>3, <1>4, <1>5, <1>6

\* The word x of block k: its block, its beat in the block and its lane.
LEMMA WordPlace ==
  ASSUME NEW k \in Nat, NEW x \in 0 .. BLOCK_WORDS - 1, NEW w, w = k * BLOCK_WORDS + x
  PROVE  /\ incoming_block_number(w) = k
         /\ lane_of(w) = x % B
         /\ target_beat(w) = x \div B
  <1> DEFINE H == HEAD_DIM
             P == BEATS_PER_ROW
             T == TILE_ROWS
             r == x \div H
             c == x % H
             q == c \div B
             l == c % B
  <1>1. /\ B \in Nat \ {0} /\ H \in Nat \ {0} /\ P \in Nat \ {0} /\ T \in Nat \ {0}
        /\ H = P * B /\ BLOCK_WORDS = T * H /\ BLOCK_WORDS \in Nat \ {0} /\ x \in Nat
    BY Sizes
  <1> HIDE DEF H, P, T
  <1>2. r \in 0 .. T - 1
    <2>1. x < T * H BY <1>1
    <2> QED BY <1>1, <2>1, QuotientBelow
  <1>3. c \in 0 .. H - 1 /\ x = r * H + c BY <1>1, Division
  <1> HIDE DEF r, c
  <1>4. q \in 0 .. P - 1
    <2>1. c \in Nat /\ c < P * B BY <1>1, <1>3
    <2> QED BY <1>1, <2>1, QuotientBelow
  <1>5. l \in 0 .. B - 1 /\ c = q * B + l
    <2>1. c \in Nat BY <1>1, <1>3
    <2> QED BY <1>1, <2>1, Division
  <1> HIDE DEF q, l
  <1>6. w \div BLOCK_WORDS = k BY <1>1, QuotientOf
  <1>7. w \div H = k * T + r /\ w % H = c
    <2> DEFINE a == k * T + r
    <2>1. a \in Nat BY <1>1, <1>2
    <2>2. w = a * H + c
      <3>1. k * (T * H) = (k * T) * H BY <1>1
      <3>2. (k * T + r) * H = (k * T) * H + r * H
        <4>1. k * T \in Nat /\ r \in Nat BY <1>1, <1>2
        <4> QED BY <1>1, <4>1
      <3>3. k * (T * H) \in Nat /\ r * H \in Nat /\ c \in Nat
        <4>1. T * H \in Nat /\ r \in Nat BY <1>1, <1>2
        <4> QED BY <1>1, <1>3, <4>1
      <3>4. w = k * (T * H) + (r * H + c) BY <1>1, <1>3
      <3> QED BY <3>1, <3>2, <3>3, <3>4
    <2> HIDE DEF a
    <2>3. (a * H + c) \div H = a /\ (a * H + c) % H = c BY <1>1, <1>3, <2>1, QuotientOf
    <2> QED BY <2>2, <2>3 DEF a
  <1>8. (k * T + r) % T = r BY <1>1, <1>2, QuotientOf
  <1>9. (c \div B = q) /\ (c % B = l)
    <2>1. q \in Nat BY <1>4
    <2> QED BY <1>1, <1>5, <2>1, QuotientOf
  <1>10. x \div B = r * P + q /\ x % B = l
    <2> DEFINE a == r * P + q
    <2>1. a \in Nat BY <1>1, <1>2, <1>4
    <2>2. x = a * B + l
      <3>1. r \in Nat /\ q \in Nat /\ r * P \in Nat BY <1>1, <1>2, <1>4
      <3>2. r * (P * B) = (r * P) * B BY <1>1, <3>1
      <3>3. (r * P + q) * B = (r * P) * B + q * B BY <1>1, <3>1
      <3>4. (r * P) * B \in Nat /\ q * B \in Nat BY <1>1, <3>1
      <3> QED BY <1>1, <1>3, <1>5, <3>2, <3>3, <3>4
    <2> HIDE DEF a
    <2>3. (a * B + l) \div B = a /\ (a * B + l) % B = l BY <1>1, <1>5, <2>1, QuotientOf
    <2> QED BY <2>2, <2>3 DEF a
  <1>11. incoming_block_number(w) = k BY <1>6 DEF incoming_block_number
  <1>12. lane_of(w) = x % B
    BY <1>7, <1>9, <1>10 DEF lane_of, Col, B, H
  <1>13. target_beat(w) = x \div B
    BY <1>7, <1>8, <1>9, <1>10 DEF target_beat, Row, Col, B, H, P, T
  <1> QED BY <1>11, <1>12, <1>13

\* The word after the word x of a block.
LEMMA NextWord ==
  ASSUME NEW x \in 0 .. BLOCK_WORDS - 1
  PROVE  /\ x \div B \in Beats /\ x % B \in Lanes /\ x = (x \div B) * B + (x % B)
         /\ x % B = B - 1 => (x + 1) % B = 0
         /\ x % B # B - 1 => (x + 1) % B = (x % B) + 1
         /\ x = BLOCK_WORDS - 1 => x % B = B - 1
         /\ \A b \in Beats : (b + 1) * B <= x + 1 =>
                (b + 1) * B <= x \/ (b = x \div B /\ x % B = B - 1)
  <1> DEFINE q == x \div B
             r == x % B
             N == BLOCK_BEATS
  <1>1. /\ B \in Nat \ {0} /\ N \in Nat \ {0} /\ BLOCK_WORDS = N * B /\ BLOCK_WORDS \in Nat \ {0}
        /\ x \in Nat /\ Lanes = 0 .. B - 1 /\ Beats = 0 .. N - 1
    BY Sizes DEF Beats
  <1> HIDE DEF N
  <1>2. r \in 0 .. B - 1 /\ x = q * B + r BY <1>1, Division
  <1>3. q \in 0 .. N - 1
    <2>1. x < N * B BY <1>1
    <2> QED BY <1>1, <2>1, QuotientBelow
  <1> HIDE DEF q, r
  <1>4. q \in Nat /\ q * B \in Nat /\ (q + 1) * B = q * B + B BY <1>1, <1>3
  <1>5. r = B - 1 => x + 1 = (q + 1) * B + 0 BY <1>1, <1>2, <1>4
  <1>6. r = B - 1 => (x + 1) % B = 0 /\ (x + 1) \div B = q + 1
    <2> DEFINE p == q + 1
    <2>1. p \in Nat /\ 0 \in 0 .. B - 1 BY <1>1, <1>4
    <2> HIDE DEF p
    <2>2. (p * B + 0) % B = 0 /\ (p * B + 0) \div B = p BY <1>1, <2>1, QuotientOf
    <2> QED BY <1>5, <2>2 DEF p
  <1>7. r # B - 1 => (x + 1) % B = r + 1
    <2>1. SUFFICES ASSUME r # B - 1 PROVE (x + 1) % B = r + 1
      OBVIOUS
    <2> DEFINE s == r + 1
    <2>2. s \in 0 .. B - 1 BY <1>1, <1>2, <2>1
    <2>3. x + 1 = q * B + s BY <1>1, <1>2, <1>4
    <2> HIDE DEF s
    <2>4. (q * B + s) % B = s BY <1>1, <1>4, <2>2, QuotientOf
    <2> QED BY <2>3, <2>4 DEF s
  <1>8. x = BLOCK_WORDS - 1 => r = B - 1
    <2>1. SUFFICES ASSUME x = BLOCK_WORDS - 1, r # B - 1 PROVE FALSE
      OBVIOUS
    <2>2. (x + 1) % B = r + 1 /\ r + 1 # 0 BY <1>2, <1>7, <2>1
    <2>3. x + 1 = N * B + 0
      <3>1. N * B \in Nat BY <1>1
      <3> QED BY <1>1, <2>1, <3>1
    <2>4. (N * B + 0) % B = 0
      <3>1. N \in Nat /\ 0 \in 0 .. B - 1 BY <1>1
      <3> QED BY <1>1, <3>1, QuotientOf
    <2> QED BY <2>2, <2>3, <2>4
  <1>9. ASSUME NEW b \in Beats, (b + 1) * B <= x + 1, ~((b + 1) * B <= x)
        PROVE  b = q /\ r = B - 1
    <2> DEFINE p == b + 1
    <2>1. p \in Nat /\ b \in Nat /\ p * B \in Nat BY <1>1
    <2>2. x + 1 = p * B + 0 BY <1>1, <1>9, <2>1
    <2> HIDE DEF p
    <2>3. (p * B + 0) % B = 0 /\ (p * B + 0) \div B = p
      <3>1. 0 \in 0 .. B - 1 BY <1>1
      <3> QED BY <1>1, <2>1, <3>1, QuotientOf
    <2>4. r = B - 1
      <3>1. r + 1 # 0 BY <1>1, <1>2
      <3> QED BY <1>7, <2>2, <2>3, <3>1
    <2>5. p = q + 1 BY <1>6, <2>2, <2>3, <2>4
    <2> QED BY <1>4, <2>1, <2>4, <2>5 DEF p
  <1>10. x \div B = q /\ x % B = r BY DEF q, r
  <1>11. \A b \in Beats : (b + 1) * B <= x + 1 =>
             (b + 1) * B <= x \/ (b = q /\ r = B - 1)
    BY <1>9
  <1> QED BY <1>1, <1>2, <1>3, <1>6, <1>7, <1>8, <1>10, <1>11

\* The last word of a run, counted from its start and within its block.
LEMMA LastWord ==
  ASSUME NEW k \in Nat, k < Blocks, NEW x \in 0 .. BLOCK_WORDS - 1
  PROVE  k * BLOCK_WORDS + x = TOTAL_WORDS - 1 <=> k = Blocks - 1 /\ x = BLOCK_WORDS - 1
  <1> DEFINE N == BLOCK_WORDS
             m == Blocks - 1
             z == N - 1
  <1>1. N \in Nat \ {0} /\ Blocks \in Nat \ {0} BY Sizes
  <1>2. m \in Nat /\ z \in 0 .. N - 1 /\ x \in 0 .. N - 1 BY <1>1
  <1>3. TOTAL_WORDS - 1 = m * N + z
    <2>1. Blocks * N = m * N + N /\ m * N \in Nat BY <1>1, <1>2
    <2> QED BY <1>1, <2>1 DEF TOTAL_WORDS
  <1> HIDE DEF N, m, z
  <1>4. (m * N + z) \div N = m /\ (m * N + z) % N = z BY <1>1, <1>2, QuotientOf
  <1>5. (k * N + x) \div N = k /\ (k * N + x) % N = x BY <1>1, <1>2, QuotientOf
  <1>6. k * N + x = m * N + z <=> k = m /\ x = z BY <1>4, <1>5
  <1> QED BY <1>3, <1>6 DEF N, m, z
-----------------------------------------------------------------------------
(***************************************************************************)
(* What an edge does to each part.                                         *)
(***************************************************************************)
\* Another burst follows when more than one is left.
LEMMA MoreMeans ==
  ASSUME NEW len \in Nat
  PROVE  len \div Burst # 0 <=> len >= Burst
  <1>1. Burst \in Nat \ {0} BY Sizes
  <1>2. \A x, b \in Nat : b > 0 => (x \div b # 0 <=> x >= b) OBVIOUS
  <1> QED BY <1>1, <1>2

LEMMA MasterMoves ==
  ASSUME TypeOK, NEW awready \in BOOLEAN, NEW wready \in BOOLEAN, NEW bvalid \in BOOLEAN,
         NEW bad \in BOOLEAN, MasterStep(awready, wready, bvalid, bad)
  PROVE  /\ master' \in MasterType
         /\ wr_error' \in BOOLEAN /\ faulted' \in BOOLEAN
         /\ wr_error' => wr_error \/ faulted'
         /\ faulted => faulted'
         /\ master.st = "IDLE" =>
              /\ ~master'.awvalid /\ ~master'.wvalid
              /\ ~writer.wr_start => master'.st = "IDLE"
              /\ writer.wr_start => /\ master'.st = "WA_WAIT" /\ master'.adrs = wr_adrs
                                    /\ master'.len = BLOCK_BEATS - 1
         /\ master.st = "WA_WAIT" =>
              /\ master'.st = "WA_START"
              /\ master'.awvalid = master.awvalid /\ master'.wvalid = master.wvalid
              /\ master'.adrs = master.adrs /\ master'.len = master.len
         /\ master.st = "WA_START" =>
              /\ master'.st = "WD_WAIT" /\ master'.awvalid /\ master'.wvalid = master.wvalid
              /\ master'.adrs = master.adrs
              /\ master.len < Burst => master'.last /\ master'.wlen = master.len
              /\ master.len >= Burst => /\ ~master'.last /\ master'.wlen = Burst - 1
                                        /\ master'.len = master.len - Burst
         /\ master.st = "WD_WAIT" =>
              /\ master'.last = master.last /\ master'.wlen = master.wlen
              /\ master'.len = master.len /\ master'.adrs = master.adrs
              /\ awready => master'.st = "WD_PROC" /\ ~master'.awvalid /\ master'.wvalid
              /\ ~awready => master' = master
         /\ master.st = "WD_PROC" =>
              /\ ~wr_fifo_re(wready) => master' = master
              /\ wr_fifo_re(wready) =>
                   /\ master'.awvalid = master.awvalid /\ master'.len = master.len
                   /\ master'.last = master.last /\ master'.adrs = master.adrs
                   /\ master.wlen = 0 => master'.st = "WR_WAIT" /\ ~master'.wvalid
                   /\ master.wlen # 0 => /\ master'.st = "WD_PROC"
                                         /\ master'.wvalid = master.wvalid
                                         /\ master'.wlen = master.wlen - 1
         /\ master.st = "WR_WAIT" =>
              /\ ~bvalid => master' = master
              /\ bvalid =>
                   /\ master'.awvalid = master.awvalid /\ master'.wvalid = master.wvalid
                   /\ master'.len = master.len
                   /\ master.last => master'.st = "DONE"
                   /\ ~master.last => /\ master'.st = "WA_WAIT"
                                      /\ master'.adrs = master.adrs + Burst
         /\ master.st = "DONE" =>
              /\ master'.st = "IDLE"
              /\ master'.awvalid = master.awvalid /\ master'.wvalid = master.wvalid
  <1>1. master \in MasterType /\ writer \in WriterType BY DEF TypeOK
  <1>2. Burst \in Nat \ {0} /\ BLOCK_BEATS \in Nat \ {0} BY Sizes
  <1>3. wr_adrs \in Int /\ BLOCK_BEATS - 1 \in Nat
    <2>1. writer.blocks \in Nat BY <1>1 DEF WriterType
    <2> QED BY <1>2, <2>1 DEF wr_adrs
  <1>4. /\ wr_error' \in BOOLEAN /\ faulted' \in BOOLEAN
        /\ wr_error' => wr_error \/ faulted'
        /\ faulted => faulted'
    BY DEF MasterStep, TypeOK
  <1>5. master' = MasterNext(awready, wready, bvalid) BY DEF MasterStep
  <1>6. CASE master.st = "IDLE"
    <2>1. CASE writer.wr_start
      <3>1. master' = [master EXCEPT !.st = "WA_WAIT", !.awvalid = FALSE, !.wvalid = FALSE,
                                     !.adrs = wr_adrs, !.len = BLOCK_BEATS - 1]
        BY <1>5, <1>6, <2>1 DEF MasterNext
      <3> QED BY <1>1, <1>3, <1>4, <1>6, <2>1, <3>1 DEF MasterType
    <2>2. CASE ~writer.wr_start
      <3>1. master' = [master EXCEPT !.awvalid = FALSE, !.wvalid = FALSE]
        BY <1>5, <1>6, <2>2 DEF MasterNext
      <3> QED BY <1>1, <1>4, <1>6, <2>2, <3>1 DEF MasterType
    <2> QED BY <2>1, <2>2
  <1>7. CASE master.st = "WA_WAIT"
    <2>1. master' = [master EXCEPT !.st = "WA_START"] BY <1>5, <1>7 DEF MasterNext
    <2> QED BY <1>1, <1>4, <1>7, <2>1 DEF MasterType
  <1>8. CASE master.st = "WA_START"
    <2>1. master.len \in Nat BY <1>1 DEF MasterType
    <2>2. CASE master.len >= Burst
      <3>1. master.len \div Burst # 0 BY <2>1, <2>2, MoreMeans
      <3>2. master' = [master EXCEPT !.st = "WD_WAIT", !.awvalid = TRUE, !.last = FALSE,
                                     !.len = master.len - Burst, !.wlen = Burst - 1]
        BY <1>5, <1>8, <3>1 DEF MasterNext
      <3>3. master.len - Burst \in Nat /\ Burst - 1 \in Nat BY <1>2, <2>1, <2>2
      <3>4. /\ master' \in MasterType /\ master'.st = "WD_WAIT" /\ master'.awvalid
            /\ master'.wvalid = master.wvalid
            /\ master'.adrs = master.adrs /\ ~master'.last /\ master'.wlen = Burst - 1
            /\ master'.len = master.len - Burst
        BY <1>1, <3>2, <3>3 DEF MasterType
      <3>5. ~(master.len < Burst) BY <1>2, <2>1, <2>2
      <3> QED BY <1>4, <1>8, <3>4, <3>5
    <2>3. CASE master.len < Burst
      <3>1. master.len \div Burst = 0 BY <1>2, <2>1, <2>3, MoreMeans
      <3>2. master' = [master EXCEPT !.st = "WD_WAIT", !.awvalid = TRUE, !.last = TRUE,
                                     !.len = master.len, !.wlen = master.len]
        BY <1>5, <1>8, <3>1 DEF MasterNext
      <3>3. /\ master' \in MasterType /\ master'.st = "WD_WAIT" /\ master'.awvalid
            /\ master'.wvalid = master.wvalid
            /\ master'.adrs = master.adrs /\ master'.last /\ master'.wlen = master.len
        BY <1>1, <3>2 DEF MasterType
      <3>4. ~(master.len >= Burst) BY <1>2, <2>1, <2>3
      <3> QED BY <1>4, <1>8, <3>3, <3>4
    <2> QED BY <1>2, <2>1, <2>2, <2>3
  <1>9. CASE master.st = "WD_WAIT"
    <2>1. master' = IF awready THEN [master EXCEPT !.st = "WD_PROC", !.awvalid = FALSE,
                                                   !.wvalid = TRUE]
                    ELSE master
      BY <1>5, <1>9 DEF MasterNext
    <2> QED BY <1>1, <1>4, <1>9, <2>1 DEF MasterType
  <1>10. CASE master.st = "WD_PROC"
    <2>1. CASE ~wr_fifo_re(wready)
      <3>1. master' = master BY <1>5, <1>10, <2>1 DEF MasterNext
      <3> QED BY <1>1, <1>4, <1>10, <2>1, <3>1
    <2>2. CASE wr_fifo_re(wready) /\ master.wlen = 0
      <3>1. master' = [master EXCEPT !.st = "WR_WAIT", !.wvalid = FALSE]
        BY <1>5, <1>10, <2>2 DEF MasterNext
      <3> QED BY <1>1, <1>4, <1>10, <2>2, <3>1 DEF MasterType
    <2>3. CASE wr_fifo_re(wready) /\ master.wlen # 0
      <3>1. master' = [master EXCEPT !.wlen = master.wlen - 1]
        BY <1>5, <1>10, <2>3 DEF MasterNext
      <3>2. master.wlen - 1 \in Nat BY <1>1, <2>3 DEF MasterType
      <3> QED BY <1>1, <1>4, <1>10, <2>3, <3>1, <3>2 DEF MasterType
    <2> QED BY <2>1, <2>2, <2>3
  <1>11. CASE master.st = "WR_WAIT"
    <2>1. CASE ~bvalid
      <3>1. master' = master BY <1>5, <1>11, <2>1 DEF MasterNext
      <3> QED BY <1>1, <1>4, <1>11, <2>1, <3>1
    <2>2. CASE bvalid /\ master.last
      <3>1. master' = [master EXCEPT !.st = "DONE"] BY <1>5, <1>11, <2>2 DEF MasterNext
      <3> QED BY <1>1, <1>4, <1>11, <2>2, <3>1 DEF MasterType
    <2>3. CASE bvalid /\ ~master.last
      <3>1. master' = [master EXCEPT !.st = "WA_WAIT", !.adrs = master.adrs + Burst]
        BY <1>5, <1>11, <2>3 DEF MasterNext
      <3>2. master.adrs + Burst \in Int BY <1>1, <1>2 DEF MasterType
      <3> QED BY <1>1, <1>4, <1>11, <2>3, <3>1, <3>2 DEF MasterType
    <2> QED BY <2>1, <2>2, <2>3
  <1>12. CASE master.st = "DONE"
    <2>1. master' = [master EXCEPT !.st = "IDLE"] BY <1>5, <1>12 DEF MasterNext
    <2> QED BY <1>1, <1>4, <1>12, <2>1 DEF MasterType
  <1> QED BY <1>1, <1>6, <1>7, <1>8, <1>9, <1>10, <1>11, <1>12 DEF MasterType

\* The memory when no handshake takes place but a response.
LEMMA MemoryRests ==
  ASSUME NEW awready \in BOOLEAN, NEW wready \in BOOLEAN, NEW bvalid \in BOOLEAN,
         MemoryStep(awready, wready, bvalid), ~awready, ~wready,
         bursts = <<>> \/ (\E x : bursts = <<x>>)
  PROVE  /\ bursts' = bursts /\ ddr' = ddr
         /\ responses' = responses + 0 - (IF bvalid THEN 1 ELSE 0)
         /\ bvalid => responses > 0
  BY DEF MemoryStep

LEMMA Still ==
  ASSUME TypeOK, Turns, master.st = "IDLE", ~writer.wr_start,
         NEW awready \in BOOLEAN, NEW wready \in BOOLEAN, NEW bvalid \in BOOLEAN,
         NEW bad \in BOOLEAN, MasterStep(awready, wready, bvalid, bad),
         MemoryStep(awready, wready, bvalid)
  PROVE  /\ master'.st = "IDLE" /\ ~master'.awvalid /\ ~master'.wvalid
         /\ ddr' = ddr
         /\ bursts = <<>> /\ responses = 0 => bursts' = <<>> /\ responses' = 0
  <1>1. ~awready /\ ~wready BY DEF MemoryStep, Turns, WVALID
  <1>2. master'.st = "IDLE" /\ ~master'.awvalid /\ ~master'.wvalid BY MasterMoves
  <1>3. ddr' = ddr BY <1>1 DEF MemoryStep
  <1>4. ASSUME bursts = <<>>, responses = 0 PROVE bursts' = <<>> /\ responses' = 0
    <2>1. ~bvalid BY <1>4 DEF MemoryStep
    <2>2. /\ bursts' = bursts
          /\ responses' = responses + 0 - (IF bvalid THEN 1 ELSE 0)
      BY <1>1, <1>4, MemoryRests
    <2>3. responses' = 0
      <3>1. responses' = responses + 0 - 0 BY <2>1, <2>2
      <3> QED BY <1>4, <3>1
    <2> QED BY <1>4, <2>2, <2>3
  <1> QED BY <1>2, <1>3, <1>4

\* The engine starts the writer only when it has nothing to do.
LEMMA Starts ==
  ASSUME TypeOK, NEW start \in BOOLEAN, StartStep(start)
  PROVE  /\ ctx_start' \in BOOLEAN /\ run' \in Nat /\ quiet' \in BOOLEAN
         /\ ctx_start' => ~writer.busy /\ ~ctx_start
         /\ ctx_start' => (quiet' <=> bursts = <<>> /\ responses = 0)
         /\ writer.busy \/ ctx_start => ctx_start' = FALSE
         /\ writer.busy \/ ctx_start => run' = run
         /\ writer.busy \/ ctx_start => quiet' = quiet
  BY DEF StartStep, TypeOK

\* The writer of an edge that only withdraws the pulses.
LEMMA BaseFields ==
  ASSUME TypeOK
  PROVE  Base = [busy |-> writer.busy, done |-> FALSE, error |-> writer.error \/ wr_error,
                 wr_start |-> FALSE, pack |-> writer.pack, lane |-> writer.lane,
                 beat |-> writer.beat, words |-> writer.words, full |-> writer.full,
                 active |-> writer.active, final |-> writer.final,
                 blocks |-> writer.blocks, accepted |-> writer.accepted]
  <1>1. writer \in WriterType BY DEF TypeOK
  <1> DEFINE e == writer.error \/ wr_error
  <1>2. Base = [writer EXCEPT !.done = FALSE, !.wr_start = FALSE, !.error = e] BY DEF Base
  <1> HIDE DEF e
  <1>3. Base = [busy |-> writer.busy, done |-> FALSE, error |-> e,
                 wr_start |-> FALSE, pack |-> writer.pack, lane |-> writer.lane,
                 beat |-> writer.beat, words |-> writer.words, full |-> writer.full,
                 active |-> writer.active, final |-> writer.final,
                 blocks |-> writer.blocks, accepted |-> writer.accepted]
    BY <1>1, <1>2 DEF WriterType
  <1> QED BY <1>3 DEF e

LEMMA WordTypes ==
  ASSUME TypeOK
  PROVE  /\ NoBeat \in BeatType /\ block_mem \in [Beats -> BeatType]
         /\ \A w \in Int : Word(w) \in WordType
         /\ wr_fifo_data \in BeatType
  <1>1. run \in Nat /\ writer.beat \in Beats /\ block_mem \in [Beats -> BeatType]
    BY DEF TypeOK, WriterType
  <1>2. NoWord \in WordType BY DEF NoWord, WordType
  <1>3. NoBeat \in BeatType BY <1>2 DEF NoBeat, BeatType
  <1>4. ASSUME NEW w \in Int PROVE Word(w) \in WordType BY <1>1 DEF Word, WordType
  <1>5. wr_fifo_data \in BeatType BY <1>1 DEF wr_fifo_data
  <1> QED BY <1>1, <1>3, <1>4, <1>5

LEMMA MemoryTypes ==
  ASSUME TypeOK, NEW awready \in BOOLEAN, NEW wready \in BOOLEAN, NEW bvalid \in BOOLEAN,
         MemoryStep(awready, wready, bvalid)
  PROVE  ddr' \in [Places -> BeatType]
  <1>1. ddr \in [Places -> BeatType] BY DEF TypeOK
  <1>2. wr_fifo_data \in BeatType BY WordTypes
  <1>3. CASE ~wready BY <1>1, <1>3 DEF MemoryStep
  <1>4. CASE wready
    <2>1. PICK a : a = Head(bursts).adrs OBVIOUS
    <2>2. ddr' = [ddr EXCEPT ![a] = wr_fifo_data] BY <1>4, <2>1 DEF MemoryStep
    <2> QED BY <1>1, <1>2, <2>2
  <1> QED BY <1>3, <1>4

\* A new run: the controller starts the writer, which finds the master idle.
LEMMA StartKeeps ==
  ASSUME IInv, NEW start \in BOOLEAN, NEW awready \in BOOLEAN, NEW wready \in BOOLEAN,
         NEW bvalid \in BOOLEAN, NEW bad \in BOOLEAN, StartStep(start),
         MemoryStep(awready, wready, bvalid), MasterStep(awready, wready, bvalid, bad),
         WriterStart, soft_reset' = soft_reset
  PROVE  IInv'
  <1>1. TypeOK /\ Turns /\ Complete /\ Errors BY DEF IInv
  <1>2. ctx_start /\ ~writer.busy /\ ~writer.active /\ ~writer.wr_start
    BY <1>1 DEF WriterStart, Turns
  <1>3. master.st = "IDLE" BY <1>1, <1>2 DEF Turns
  <1>4. /\ master'.st = "IDLE" /\ ~master'.awvalid /\ ~master'.wvalid /\ ddr' = ddr
        /\ bursts = <<>> /\ responses = 0 => bursts' = <<>> /\ responses' = 0
    BY <1>1, <1>2, <1>3, Still
  <1>5. writer' = [busy |-> TRUE, done |-> FALSE, error |-> FALSE, wr_start |-> FALSE,
            pack |-> NoBeat, lane |-> 0, beat |-> 0, words |-> 0, full |-> FALSE,
            active |-> FALSE, final |-> FALSE, blocks |-> 0, accepted |-> 0]
    BY DEF WriterStart, Cleared
  <1>6. block_mem' = block_mem BY DEF WriterStart
  <1>7. /\ ctx_start' = FALSE /\ run' = run /\ quiet' = quiet
        /\ run' \in Nat /\ quiet' \in BOOLEAN
    BY <1>1, <1>2, Starts
  <1>8. /\ B \in Nat /\ B >= 2 /\ Blocks \in Nat \ {0} /\ BLOCK_BEATS \in Nat \ {0}
        /\ BLOCK_WORDS \in Nat \ {0} /\ Lanes = 0 .. B - 1 /\ BLOCK_WORDS = BLOCK_BEATS * B
    BY Sizes
  <1>9. TypeOK'
    <2>1. writer' \in WriterType
      <3>1. 0 \in Lanes /\ 0 \in Beats /\ 0 \in 0 .. BLOCK_WORDS BY <1>8 DEF Beats
      <3>2. NoBeat \in BeatType BY <1>1, WordTypes
      <3> QED BY <1>5, <3>1, <3>2 DEF WriterType
    <2>2. /\ master' \in MasterType /\ wr_error' \in BOOLEAN /\ faulted' \in BOOLEAN
      BY <1>1, MasterMoves
    <2> QED BY <1>1, <1>4, <1>6, <1>7, <2>1, <2>2 DEF TypeOK
  <1>10. Turns' BY <1>4, <1>5, <1>7 DEF Turns
  <1>11. Counts'
    <2>1. 0 % B = 0 BY <1>8
    <2>2. 0 = 0 * BLOCK_WORDS + 0 BY <1>8
    <2> QED BY <1>5, <1>8, <2>1, <2>2 DEF Counts
  <1>12. Filled'
    <2>1. ASSUME NEW b \in Beats, (b + 1) * B <= writer'.words PROVE FALSE
      <3>1. b + 1 \in Nat /\ b + 1 >= 1 BY <1>8 DEF Beats
      <3>2. (b + 1) * B >= 1 * B BY <1>8, <3>1
      <3> QED BY <1>5, <1>8, <2>1, <3>1, <3>2
    <2>2. ASSUME NEW l \in Lanes, l < writer'.lane PROVE FALSE BY <1>5, <1>8, <2>2
    <2> QED BY <2>1, <2>2 DEF Filled
  <1>13. Progress' BY <1>4 DEF Progress, Asking, Offering, Giving, Closing, Given
  <1>14. Complete'
    <2>1. quiet' => bursts' = <<>> /\ responses' = 0
      BY <1>1, <1>2, <1>3, <1>4, <1>7 DEF Complete
    <2>2. First' + Arrived' = 0
      <3>1. First' = 0 BY <1>5, <1>8 DEF First
      <3>2. Arrived' = 0 BY <1>4, <1>5 DEF Arrived, Given
      <3> QED BY <3>1, <3>2
    <2>3. \A b \in Places : ~(b < 0) BY <1>8 DEF Places
    <2> QED BY <1>4, <1>5, <2>1, <2>2, <2>3 DEF Complete
  <1>15. Errors'
    <2>1. /\ wr_error' => wr_error \/ faulted'
          /\ faulted => faulted'
      BY <1>1, MasterMoves
    <2> QED BY <1>1, <1>5, <2>1 DEF Errors
  <1> QED BY <1>9, <1>10, <1>11, <1>12, <1>13, <1>14, <1>15 DEF IInv

\* The memory and the errors in a step of the writer that finds the master idle.
LEMMA IdleKeeps ==
  ASSUME IInv, NEW start \in BOOLEAN, NEW awready \in BOOLEAN, NEW wready \in BOOLEAN,
         NEW bvalid \in BOOLEAN, NEW bad \in BOOLEAN, StartStep(start),
         MemoryStep(awready, wready, bvalid), MasterStep(awready, wready, bvalid, bad),
         soft_reset' = soft_reset, ~writer.active, ~ctx_start
  PROVE  /\ master.st = "IDLE" /\ ~writer.wr_start /\ writer.beat = 0
         /\ master' \in MasterType /\ master'.st = "IDLE"
         /\ ~master'.awvalid /\ ~master'.wvalid /\ ddr' = ddr /\ Progress'
         /\ bursts = <<>> /\ responses = 0 => bursts' = <<>> /\ responses' = 0
         /\ soft_reset' \in BOOLEAN /\ wr_error' \in BOOLEAN /\ faulted' \in BOOLEAN
         /\ ddr' \in [Places -> BeatType]
         /\ writer.error \/ wr_error => faulted'
         /\ wr_error' => faulted'
  <1>1. TypeOK /\ Turns /\ Errors BY DEF IInv
  <1>2. ~writer.wr_start /\ writer.beat = 0 BY <1>1 DEF Turns
  <1>3. master.st = "IDLE" BY <1>1, <1>2 DEF Turns
  <1>4. /\ master'.st = "IDLE" /\ ~master'.awvalid /\ ~master'.wvalid /\ ddr' = ddr
        /\ bursts = <<>> /\ responses = 0 => bursts' = <<>> /\ responses' = 0
    BY <1>1, <1>2, <1>3, Still
  <1>5. /\ master' \in MasterType /\ wr_error' \in BOOLEAN /\ faulted' \in BOOLEAN
        /\ wr_error' => wr_error \/ faulted'
        /\ faulted => faulted'
    BY <1>1, MasterMoves
  <1>6. Progress' BY <1>4 DEF Progress, Asking, Offering, Giving, Closing, Given
  <1>7. soft_reset' \in BOOLEAN /\ ddr' \in [Places -> BeatType]
    BY <1>1, <1>4 DEF TypeOK
  <1>8. (writer.error \/ wr_error => faulted') /\ (wr_error' => faulted')
    BY <1>1, <1>5 DEF Errors
  <1> QED BY <1>2, <1>3, <1>4, <1>5, <1>6, <1>7, <1>8

LEMMA AcceptKeeps ==
  ASSUME IInv, NEW start \in BOOLEAN, NEW awready \in BOOLEAN, NEW wready \in BOOLEAN,
         NEW bvalid \in BOOLEAN, NEW bad \in BOOLEAN, StartStep(start),
         MemoryStep(awready, wready, bvalid), MasterStep(awready, wready, bvalid, bad),
         Accept, soft_reset' = soft_reset
  PROVE  IInv'
  <1> DEFINE k == writer.blocks
             x == writer.words
             w == writer.accepted
             q == x \div B
             r == x % B
             e == writer.error \/ wr_error
             n == (r + 1) % B
             f == (x = BLOCK_WORDS - 1)
             g == (f /\ k = Blocks - 1)
             p == [writer.pack EXCEPT ![r] = Word(w)]
  <1>1. TypeOK /\ Turns /\ Counts /\ Filled /\ Complete BY DEF IInv
  <1>2. /\ ~ctx_start /\ writer.busy /\ ~writer.full /\ ~writer.active /\ ~writer.final
        /\ ~writer.done
    BY <1>1 DEF Accept, context_ready, Turns
  <1>3. /\ master.st = "IDLE" /\ ~writer.wr_start /\ writer.beat = 0
        /\ master' \in MasterType /\ master'.st = "IDLE"
        /\ ~master'.awvalid /\ ~master'.wvalid /\ ddr' = ddr /\ Progress'
        /\ bursts = <<>> /\ responses = 0 => bursts' = <<>> /\ responses' = 0
        /\ soft_reset' \in BOOLEAN /\ wr_error' \in BOOLEAN /\ faulted' \in BOOLEAN
        /\ ddr' \in [Places -> BeatType]
        /\ writer.error \/ wr_error => faulted'
        /\ wr_error' => faulted'
    BY <1>2, IdleKeeps
  <1>4. /\ ctx_start' = FALSE /\ run' = run /\ quiet' = quiet
        /\ run' \in Nat /\ quiet' \in BOOLEAN
    BY <1>1, <1>2, Starts
  <1>5. /\ B \in Nat \ {0} /\ B >= 2 /\ Blocks \in Nat \ {0} /\ BLOCK_BEATS \in Nat \ {0}
        /\ BLOCK_WORDS \in Nat \ {0} /\ Lanes = 0 .. B - 1 /\ BLOCK_WORDS = BLOCK_BEATS * B
        /\ B = BEAT_WORDS
    BY Sizes DEF B
  <1>6. writer \in WriterType BY <1>1 DEF TypeOK
  <1>7. /\ k \in Nat /\ k < Blocks /\ w = k * BLOCK_WORDS + x /\ writer.lane = r
        /\ x \in 0 .. BLOCK_WORDS - 1 /\ w \in Nat
    <2>1. k \in Nat /\ w \in Nat /\ x \in 0 .. BLOCK_WORDS BY <1>6 DEF WriterType
    <2>2. /\ k < Blocks /\ w = k * BLOCK_WORDS + x /\ writer.lane = r
          /\ x # BLOCK_WORDS
      BY <1>1, <1>2 DEF Counts
    <2> HIDE DEF x, k, w, r
    <2>3. x \in 0 .. BLOCK_WORDS - 1 BY <1>5, <2>1, <2>2
    <2> QED BY <2>1, <2>2, <2>3
  <1>8. incoming_block_number(w) = k /\ lane_of(w) = r /\ target_beat(w) = q
    BY <1>7, WordPlace
  <1>9. /\ q \in Beats /\ r \in Lanes /\ x = q * B + r
        /\ (r = B - 1 => (x + 1) % B = 0) /\ (r # B - 1 => (x + 1) % B = r + 1)
        /\ x = BLOCK_WORDS - 1 => r = B - 1
        /\ \A b \in Beats : (b + 1) * B <= x + 1 =>
               (b + 1) * B <= x \/ (b = q /\ r = B - 1)
    BY <1>7, NextWord
  <1>10. global_last <=> g
    BY <1>7, LastWord DEF global_last
  <1>11. ~Misplaced(w) BY <1>7, <1>8, <1>9, <1>10, <1>5 DEF Misplaced
  <1>12. n = (x + 1) % B /\ n \in Lanes /\ (r = B - 1 => n = 0) /\ (r # B - 1 => n = r + 1)
    <2>1. r \in 0 .. B - 1 BY <1>5, <1>9
    <2> HIDE DEF r
    <2>2. r = B - 1 => n = 0 BY <1>5, <2>1
    <2>3. r # B - 1 => n = r + 1 BY <1>5, <2>1
    <2> QED BY <1>5, <1>9, <2>1, <2>2, <2>3
  <1>13. writer' = [busy |-> TRUE, done |-> FALSE, error |-> e, wr_start |-> FALSE,
            pack |-> p, lane |-> n, beat |-> 0, words |-> x + 1, full |-> f,
            active |-> FALSE, final |-> g, blocks |-> k, accepted |-> w + 1]
    <2> DEFINE m == Misplaced(w)
               h == global_last
    <2>1. writer' = [Base EXCEPT !.accepted = @ + 1, !.words = @ + 1, !.pack[r] = Word(w),
                        !.lane = n, !.full = f, !.final = h, !.error = @ \/ m]
      BY <1>5, <1>8 DEF Accept, offered
    <2>2. Base = [busy |-> writer.busy, done |-> FALSE, error |-> e,
                 wr_start |-> FALSE, pack |-> writer.pack, lane |-> writer.lane,
                 beat |-> writer.beat, words |-> writer.words, full |-> writer.full,
                 active |-> writer.active, final |-> writer.final,
                 blocks |-> writer.blocks, accepted |-> writer.accepted]
      BY <1>1, BaseFields
    <2>3. (e \/ m) = e BY <1>11
    <2>4. h = g BY <1>10 DEF global_last
    <2>5. writer.busy = TRUE /\ writer.active = FALSE BY <1>2, <1>6 DEF WriterType
    <2> HIDE DEF n, f, g, h, m, e, r
    <2>6. writer' = [busy |-> writer.busy, done |-> FALSE, error |-> e \/ m,
                 wr_start |-> FALSE, pack |-> p, lane |-> n,
                 beat |-> writer.beat, words |-> x + 1, full |-> f,
                 active |-> writer.active, final |-> h,
                 blocks |-> k, accepted |-> w + 1]
      BY <2>1, <2>2, ZenonT(40)
    <2> QED BY <1>3, <2>3, <2>4, <2>5, <2>6
  <1>14. block_mem' = IF r = B - 1
                      THEN [block_mem EXCEPT ![q] = [writer.pack EXCEPT ![B - 1] = Word(w)]]
                      ELSE block_mem
    BY <1>5, <1>8 DEF Accept, offered
  <1>15. TypeOK'
    <2>1. Word(w) \in WordType BY <1>1, <1>7, WordTypes
    <2>2. writer.pack \in [Lanes -> WordType] BY <1>6 DEF WriterType, BeatType
    <2>3. p \in BeatType BY <2>1, <2>2 DEF BeatType
    <2>4. e \in BOOLEAN /\ f \in BOOLEAN /\ g \in BOOLEAN BY DEF e, f, g
    <2>5. x + 1 \in 0 .. BLOCK_WORDS /\ w + 1 \in Nat /\ 0 \in Beats
      BY <1>5, <1>7, SMTT(30) DEF Beats
    <2>6. block_mem' \in [Beats -> BeatType]
      <3>1. block_mem \in [Beats -> BeatType] BY <1>1, WordTypes
      <3>2. [writer.pack EXCEPT ![B - 1] = Word(w)] \in BeatType
        BY <2>1, <2>2 DEF BeatType
      <3> QED BY <1>14, <3>1, <3>2
    <2> HIDE DEF e, f, g, p, n
    <2>7. writer' \in WriterType BY <1>7, <1>12, <1>13, <2>3, <2>4, <2>5 DEF WriterType
    <2> QED BY <1>3, <1>4, <2>6, <2>7 DEF TypeOK
  <1>16. Turns' 
    <2>1. /\ ~writer'.done /\ ~writer'.wr_start /\ ~writer'.active /\ writer'.busy
          /\ writer'.beat = 0
      BY <1>13
    <2> QED BY <1>3, <1>4, <2>1 DEF Turns
  <1>17. Counts'
    <2>1. f <=> x + 1 = BLOCK_WORDS BY <1>5, <1>7
    <2>2. w + 1 = k * BLOCK_WORDS + (x + 1)
      <3>1. k * BLOCK_WORDS \in Nat BY <1>5, <1>7
      <3> QED BY <1>7, <3>1
    <2> QED BY <1>7, <1>12, <1>13, <2>1, <2>2 DEF Counts
  <1>18. w - r = (First + q) * B /\ First \in Nat /\ q \in Nat /\ First' = First
    <2>1. q \in Nat /\ r \in Nat BY <1>5, <1>9 DEF Beats
    <2>2. First = k * BLOCK_BEATS /\ First \in Nat BY <1>5, <1>7 DEF First
    <2>3. w = k * (BLOCK_BEATS * B) + (q * B + r) BY <1>5, <1>7, <1>9
    <2>4. First' = k * BLOCK_BEATS BY <1>13 DEF First
    <2> HIDE DEF q, r, k, w
    <2>5. k * (BLOCK_BEATS * B) = First * B BY <1>5, <1>7, <2>2
    <2>6. (First + q) * B = First * B + q * B /\ First * B \in Nat /\ q * B \in Nat
      BY <1>5, <2>1, <2>2
    <2> QED BY <2>1, <2>2, <2>3, <2>4, <2>5, <2>6
  <1>19. \A l \in Lanes : l < r => writer.pack[l] = Word(w - r + l)
    BY <1>1, <1>2, <1>7 DEF Filled
  <1>20. \A y : Word(y)' = Word(y) BY <1>4 DEF Word
  <1>21. Filled'
    <2>1. ASSUME NEW b \in Beats, (b + 1) * B <= writer'.words
          PROVE  block_mem'[b] = BeatAt(First + b)'
      <3>1. (b + 1) * B <= x + 1 BY <1>13, <2>1
      <3>2. BeatAt(First + b)' = BeatAt(First + b)
        BY <1>18, <1>20 DEF BeatAt
      <3>3. CASE (b + 1) * B <= x
        <4>1. block_mem[b] = BeatAt(First + b) BY <1>1, <1>2, <3>3 DEF Filled
        <4>2. ASSUME b = q PROVE FALSE
          <5>1. r \in 0 .. B - 1 /\ q \in Nat BY <1>5, <1>9, <1>18
          <5>2. (q + 1) * B = q * B + B /\ q * B \in Nat BY <1>5, <5>1
          <5> QED BY <1>5, <1>9, <3>3, <4>2, <5>1, <5>2
        <4>3. block_mem'[b] = block_mem[b]
          <5>1. block_mem \in [Beats -> BeatType] BY <1>1, WordTypes
          <5> QED BY <1>14, <4>2, <5>1
        <4> QED BY <3>2, <4>1, <4>3
      <3>4. CASE b = q /\ r = B - 1
        <4>1. block_mem \in [Beats -> BeatType] /\ writer.pack \in [Lanes -> WordType]
          BY <1>1, <1>6, WordTypes DEF WriterType, BeatType
        <4>2. block_mem'[b] = [writer.pack EXCEPT ![B - 1] = Word(w)]
          BY <1>9, <1>14, <3>4, <4>1
        <4>3. BeatAt(First + b) = [l \in Lanes |-> Word((w - r) + l)]
          BY <1>18, <3>4 DEF BeatAt
        <4>4. ASSUME NEW l \in Lanes
              PROVE  [writer.pack EXCEPT ![B - 1] = Word(w)][l] = Word((w - r) + l)
          <5>1. CASE l = B - 1
            <6>1. (w - r) + l = w BY <1>5, <1>7, <3>4, <5>1, SMTT(30)
            <6> QED BY <4>1, <5>1, <6>1
          <5>2. CASE l # B - 1
            <6>1. l < r BY <1>5, <3>4, <5>2
            <6> QED BY <1>19, <4>1, <5>2, <6>1
          <5> QED BY <5>1, <5>2
        <4>5. [writer.pack EXCEPT ![B - 1] = Word(w)] = [l \in Lanes |-> Word((w - r) + l)]
          <5>1. \A l \in Lanes :
                  [writer.pack EXCEPT ![B - 1] = Word(w)][l] = Word((w - r) + l)
            BY <4>4
          <5>2. [writer.pack EXCEPT ![B - 1] = Word(w)]
                  = [l \in Lanes |-> [writer.pack EXCEPT ![B - 1] = Word(w)][l]]
            BY <4>1
          <5> QED BY <5>1, <5>2
        <4> QED BY <3>2, <4>2, <4>3, <4>5
      <3> QED BY <1>9, <3>1, <3>3, <3>4
    <2>2. ASSUME NEW l \in Lanes, l < writer'.lane
          PROVE  writer'.pack[l] = Word(writer.accepted - writer.lane + l)'
      <3>1. l < n BY <1>13, <2>2
      <3>2. r # B - 1 /\ n = r + 1 BY <1>5, <1>12, <3>1
      <3>3. writer'.accepted - writer'.lane + l = w - r + l
        <4>1. r \in Nat /\ l \in Nat BY <1>5, <1>9
        <4>2. writer'.accepted = w + 1 /\ writer'.lane = n BY <1>13
        <4> HIDE DEF r, n, w
        <4> QED BY <1>7, <3>2, <4>1, <4>2
      <3>4. writer.pack \in [Lanes -> WordType] BY <1>6 DEF WriterType, BeatType
      <3>5. writer'.pack[l] = p[l] BY <1>13
      <3>6. CASE l = r
        <4>1. w - r + l = w BY <1>5, <1>7, <1>9, <3>6
        <4>2. p[l] = Word(w) BY <3>4, <3>6
        <4> QED BY <1>20, <3>3, <3>5, <4>1, <4>2 DEF Word
      <3>7. CASE l # r
        <4>1. l < r BY <1>5, <1>9, <3>1, <3>2, <3>7
        <4>2. p[l] = writer.pack[l] BY <3>4, <3>7
        <4>3. writer.pack[l] = Word(w - r + l) BY <1>19, <4>1
        <4> QED BY <1>20, <3>3, <3>5, <4>2, <4>3 DEF Word
      <3> QED BY <3>6, <3>7
    <2> QED BY <2>1, <2>2 DEF Filled
  <1>22. Complete'
    <2>1. quiet' =>
            /\ bursts' = <<>> /\ responses' = 0
            /\ \A b \in Places : b < First + Arrived => ddr[b] = BeatAt(b)
      BY <1>1, <1>2, <1>3, <1>4 DEF Complete
    <2>2. Arrived' = Arrived
      BY <1>3, <1>13 DEF Arrived, Given
    <2>3. \A b : BeatAt(b)' = BeatAt(b) BY <1>20 DEF BeatAt
    <2>4. quiet' => \A b \in Places : b < First' + Arrived' => ddr'[b] = BeatAt(b)'
      BY <1>3, <1>18, <2>1, <2>2, <2>3
    <2>5. ~writer'.done BY <1>13
    <2> QED BY <1>3, <2>1, <2>4, <2>5 DEF Complete
  <1>23. Errors'
    <2>1. writer'.error = e BY <1>13
    <2> QED BY <1>3, <2>1 DEF Errors
  <1> QED BY <1>3, <1>15, <1>16, <1>17, <1>21, <1>22, <1>23 DEF IInv

\* What the buffer and the counters say stays true when neither they nor the
\* run change.
LEMMA SameBlock ==
  ASSUME Counts, Filled, run' = run, block_mem' = block_mem,
         writer'.busy => writer.busy,
         writer'.blocks = writer.blocks, writer'.accepted = writer.accepted,
         writer'.words = writer.words, writer'.lane = writer.lane,
         writer'.pack = writer.pack, writer'.full = writer.full,
         writer'.final = writer.final
  PROVE  /\ Counts' /\ Filled' /\ First' = First
         /\ \A b : BeatAt(b)' = BeatAt(b)
  <1>1. \A y : Word(y)' = Word(y) BY DEF Word
  <1>2. \A b : BeatAt(b)' = BeatAt(b) BY <1>1 DEF BeatAt
  <1>3. First' = First BY DEF First
  <1>4. Counts' BY DEF Counts
  <1>5. Filled'
    <2>1. ASSUME writer'.busy, NEW b \in Beats, (b + 1) * B <= writer'.words
          PROVE  block_mem'[b] = BeatAt(First + b)'
      <3>1. block_mem[b] = BeatAt(First + b) BY <2>1 DEF Filled
      <3>2. BeatAt(First + b)' = BeatAt(First + b)
        BY <1>1, <1>3 DEF BeatAt
      <3> QED BY <3>1, <3>2
    <2>2. ASSUME writer'.busy, NEW l \in Lanes, l < writer'.lane
          PROVE  writer'.pack[l] = Word(writer.accepted - writer.lane + l)'
      <3>1. writer.pack[l] = Word(writer.accepted - writer.lane + l) BY <2>2 DEF Filled
      <3> QED BY <3>1 DEF Word
    <2> QED BY <2>1, <2>2 DEF Filled
  <1> QED BY <1>2, <1>3, <1>4, <1>5

LEMMA IssueKeeps ==
  ASSUME IInv, NEW start \in BOOLEAN, NEW awready \in BOOLEAN, NEW wready \in BOOLEAN,
         NEW bvalid \in BOOLEAN, NEW bad \in BOOLEAN, StartStep(start),
         MemoryStep(awready, wready, bvalid), MasterStep(awready, wready, bvalid, bad),
         Issue, soft_reset' = soft_reset
  PROVE  IInv'
  <1> DEFINE e == writer.error \/ wr_error
  <1>1. TypeOK /\ Turns /\ Counts /\ Filled /\ Complete BY DEF IInv
  <1>2. ~ctx_start /\ writer.busy /\ writer.full /\ ~writer.active /\ ~writer.done
    BY <1>1 DEF Issue, Turns
  <1>3. /\ master.st = "IDLE" /\ ~writer.wr_start /\ writer.beat = 0
        /\ master' \in MasterType /\ master'.st = "IDLE"
        /\ ~master'.awvalid /\ ~master'.wvalid /\ ddr' = ddr /\ Progress'
        /\ bursts = <<>> /\ responses = 0 => bursts' = <<>> /\ responses' = 0
        /\ soft_reset' \in BOOLEAN /\ wr_error' \in BOOLEAN /\ faulted' \in BOOLEAN
        /\ ddr' \in [Places -> BeatType]
        /\ writer.error \/ wr_error => faulted'
        /\ wr_error' => faulted'
    BY <1>2, IdleKeeps
  <1>4. /\ ctx_start' = FALSE /\ run' = run /\ quiet' = quiet
        /\ run' \in Nat /\ quiet' \in BOOLEAN
    BY <1>1, <1>2, Starts
  <1>5. writer \in WriterType BY <1>1 DEF TypeOK
  <1>6. writer' = [busy |-> writer.busy, done |-> FALSE, error |-> e,
                 wr_start |-> TRUE, pack |-> writer.pack, lane |-> writer.lane,
                 beat |-> 0, words |-> writer.words, full |-> writer.full,
                 active |-> TRUE, final |-> writer.final,
                 blocks |-> writer.blocks, accepted |-> writer.accepted]
    <2>1. writer' = [Base EXCEPT !.beat = 0, !.active = TRUE, !.wr_start = TRUE] BY DEF Issue
    <2>2. Base = [busy |-> writer.busy, done |-> FALSE, error |-> e,
                 wr_start |-> FALSE, pack |-> writer.pack, lane |-> writer.lane,
                 beat |-> writer.beat, words |-> writer.words, full |-> writer.full,
                 active |-> writer.active, final |-> writer.final,
                 blocks |-> writer.blocks, accepted |-> writer.accepted]
      BY <1>1, BaseFields
    <2> HIDE DEF e
    <2> QED BY <2>1, <2>2
  <1>7. block_mem' = block_mem BY DEF Issue
  <1>8. TypeOK'
    <2>1. e \in BOOLEAN /\ 0 \in Beats BY Sizes DEF e, Beats
    <2> HIDE DEF e
    <2>2. writer' \in WriterType BY <1>5, <1>6, <2>1 DEF WriterType
    <2>3. block_mem' \in [Beats -> BeatType] BY <1>1, <1>7 DEF TypeOK
    <2> QED BY <1>3, <1>4, <2>2, <2>3 DEF TypeOK
  <1>9. Turns'
    <2>1. /\ ~writer'.done /\ writer'.wr_start /\ writer'.active /\ writer'.busy
          /\ writer'.beat = 0 /\ writer'.full
      BY <1>2, <1>6
    <2> QED BY <1>3, <1>4, <2>1 DEF Turns
  <1>10. /\ Counts' /\ Filled' /\ First' = First
         /\ \A b : BeatAt(b)' = BeatAt(b)
    <2>1. /\ writer'.busy = writer.busy
          /\ writer'.blocks = writer.blocks /\ writer'.accepted = writer.accepted
          /\ writer'.words = writer.words /\ writer'.lane = writer.lane
          /\ writer'.pack = writer.pack /\ writer'.full = writer.full
          /\ writer'.final = writer.final
      BY <1>6
    <2> QED BY <1>1, <1>4, <1>7, <2>1, SameBlock
  <1>11. Complete'
    <2>1. quiet' =>
            /\ bursts' = <<>> /\ responses' = 0
            /\ \A b \in Places : b < First + Arrived => ddr[b] = BeatAt(b)
      BY <1>1, <1>2, <1>3, <1>4 DEF Complete
    <2>2. Arrived' = Arrived BY <1>3, <1>6 DEF Arrived, Given
    <2>3. quiet' => \A b \in Places : b < First' + Arrived' => ddr'[b] = BeatAt(b)'
      BY <1>3, <1>10, <2>1, <2>2
    <2>4. ~writer'.done BY <1>6
    <2> QED BY <1>3, <2>1, <2>3, <2>4 DEF Complete
  <1>12. Errors'
    <2>1. writer'.error = e BY <1>6
    <2> QED BY <1>3, <2>1 DEF Errors
  <1> QED BY <1>3, <1>8, <1>9, <1>10, <1>11, <1>12 DEF IInv

LEMMA WaitKeeps ==
  ASSUME IInv, NEW start \in BOOLEAN, NEW context_valid \in BOOLEAN,
         NEW awready \in BOOLEAN, NEW wready \in BOOLEAN,
         NEW bvalid \in BOOLEAN, NEW bad \in BOOLEAN, StartStep(start),
         MemoryStep(awready, wready, bvalid), MasterStep(awready, wready, bvalid, bad),
         Wait(context_valid), soft_reset' = soft_reset
  PROVE  IInv'
  <1> DEFINE e == writer.error \/ wr_error
  <1>1. TypeOK /\ Turns /\ Counts /\ Filled /\ Complete BY DEF IInv
  <1>2. ~ctx_start /\ ~writer.active
    BY <1>1 DEF Wait, Turns
  <1>3. /\ master.st = "IDLE" /\ ~writer.wr_start /\ writer.beat = 0
        /\ master' \in MasterType /\ master'.st = "IDLE"
        /\ ~master'.awvalid /\ ~master'.wvalid /\ ddr' = ddr /\ Progress'
        /\ bursts = <<>> /\ responses = 0 => bursts' = <<>> /\ responses' = 0
        /\ soft_reset' \in BOOLEAN /\ wr_error' \in BOOLEAN /\ faulted' \in BOOLEAN
        /\ ddr' \in [Places -> BeatType]
        /\ writer.error \/ wr_error => faulted'
        /\ wr_error' => faulted'
    BY <1>2, IdleKeeps
  <1>4. /\ ctx_start' \in BOOLEAN /\ run' \in Nat /\ quiet' \in BOOLEAN
        /\ ctx_start' => ~writer.busy
        /\ ctx_start' => (quiet' <=> bursts = <<>> /\ responses = 0)
        /\ writer.busy => ctx_start' = FALSE
        /\ writer.busy => run' = run
        /\ writer.busy => quiet' = quiet
    BY <1>1, Starts
  <1>5. writer \in WriterType BY <1>1 DEF TypeOK
  <1>6. writer' = [busy |-> writer.busy, done |-> FALSE, error |-> e,
                 wr_start |-> FALSE, pack |-> writer.pack, lane |-> writer.lane,
                 beat |-> writer.beat, words |-> writer.words, full |-> writer.full,
                 active |-> writer.active, final |-> writer.final,
                 blocks |-> writer.blocks, accepted |-> writer.accepted]
    BY <1>1, BaseFields DEF Wait
  <1>7. block_mem' = block_mem BY DEF Wait
  <1>8. TypeOK'
    <2>1. e \in BOOLEAN BY DEF e
    <2> HIDE DEF e
    <2>2. writer' \in WriterType BY <1>5, <1>6, <2>1 DEF WriterType
    <2>3. block_mem' \in [Beats -> BeatType] BY <1>1, <1>7 DEF TypeOK
    <2> QED BY <1>3, <1>4, <2>2, <2>3 DEF TypeOK
  <1>9. Turns'
    <2>1. /\ ~writer'.done /\ ~writer'.wr_start /\ ~writer'.active
          /\ writer'.busy = writer.busy
          /\ writer'.beat = 0 /\ writer'.full = writer.full
      BY <1>2, <1>3, <1>5, <1>6 DEF WriterType
    <2>2. writer.full => writer.busy BY <1>1 DEF Turns
    <2> QED BY <1>3, <1>4, <2>1, <2>2 DEF Turns
  <1>10. ASSUME writer.busy PROVE Counts' /\ Filled' /\ Complete'
    <2>1. /\ Counts' /\ Filled' /\ First' = First
          /\ \A b : BeatAt(b)' = BeatAt(b)
      <3>1. /\ writer'.busy = writer.busy
            /\ writer'.blocks = writer.blocks /\ writer'.accepted = writer.accepted
            /\ writer'.words = writer.words /\ writer'.lane = writer.lane
            /\ writer'.pack = writer.pack /\ writer'.full = writer.full
            /\ writer'.final = writer.final
        BY <1>6
      <3>2. run' = run BY <1>4, <1>10
      <3> QED BY <1>1, <1>7, <3>1, <3>2, SameBlock
    <2>2. Complete'
      <3>1. quiet' =>
              /\ bursts' = <<>> /\ responses' = 0
              /\ \A b \in Places : b < First + Arrived => ddr[b] = BeatAt(b)
        BY <1>1, <1>3, <1>4, <1>10 DEF Complete
      <3>2. Arrived' = Arrived BY <1>3, <1>6 DEF Arrived, Given
      <3>3. quiet' => \A b \in Places : b < First' + Arrived' => ddr'[b] = BeatAt(b)'
        BY <1>3, <2>1, <3>1, <3>2
      <3>4. ~writer'.done BY <1>6
      <3> QED BY <1>3, <3>1, <3>3, <3>4 DEF Complete
    <2> QED BY <2>1, <2>2
  <1>11. ASSUME ~writer.busy PROVE Counts' /\ Filled' /\ Complete'
    <2>1. ~writer'.busy /\ ~writer'.done BY <1>6, <1>11
    <2>2. Counts' /\ Filled' BY <2>1 DEF Counts, Filled
    <2>3. Complete' BY <1>3, <1>4, <2>1 DEF Complete
    <2> QED BY <2>2, <2>3
  <1>12. Errors'
    <2>1. writer'.error = e BY <1>6
    <2> QED BY <1>3, <2>1 DEF Errors
  <1> QED BY <1>3, <1>8, <1>9, <1>10, <1>11, <1>12 DEF IInv

\* The memory takes the address of a burst, and a beat of it.
LEMMA MemoryAsked ==
  ASSUME NEW awready \in BOOLEAN, NEW wready \in BOOLEAN, NEW bvalid \in BOOLEAN,
         MemoryStep(awready, wready, bvalid), awready, ~wready, bursts = <<>>
  PROVE  /\ bursts' = <<[adrs |-> master.adrs, left |-> master.wlen + 1]>>
         /\ ddr' = ddr
         /\ responses' = responses + 0 - (IF bvalid THEN 1 ELSE 0)
         /\ bvalid => responses > 0
  <1> DEFINE a == [adrs |-> master.adrs, left |-> master.wlen + 1]
  <1>1. bursts' = bursts \o <<a>> BY DEF MemoryStep
  <1>2. <<>> \o <<a>> = <<a>> OBVIOUS
  <1>3. bursts' = <<a>> BY <1>1, <1>2
  <1>4. ddr' = ddr /\ (bvalid => responses > 0) BY DEF MemoryStep
  <1>5. responses' = responses + 0 - (IF bvalid THEN 1 ELSE 0) BY DEF MemoryStep
  <1> QED BY <1>3, <1>4, <1>5

LEMMA MemoryTaken ==
  ASSUME NEW awready \in BOOLEAN, NEW wready \in BOOLEAN, NEW bvalid \in BOOLEAN,
         MemoryStep(awready, wready, bvalid), ~awready, wready,
         NEW a, NEW n, bursts = <<[adrs |-> a, left |-> n]>>
  PROVE  /\ n = 1 => bursts' = <<>>
         /\ n # 1 => bursts' = <<[adrs |-> a + 1, left |-> n - 1]>>
         /\ ddr' = [ddr EXCEPT ![a] = wr_fifo_data]
         /\ responses' = responses + (IF n = 1 THEN 1 ELSE 0) - (IF bvalid THEN 1 ELSE 0)
         /\ bvalid => responses > 0
  <1> DEFINE h == [adrs |-> a, left |-> n]
             k == [adrs |-> a + 1, left |-> n - 1]
  <1>1. bursts = <<h>> OBVIOUS
  <1>2. h.adrs = a /\ h.left = n OBVIOUS
  <1>3. Head(bursts) = h /\ Tail(bursts) = <<>>
    <2> HIDE DEF h
    <2> QED BY <1>1
  <1>4. Head(bursts).adrs = a /\ Head(bursts).left = n BY <1>2, <1>3
  <1>5. ddr' = [ddr EXCEPT ![Head(bursts).adrs] = wr_fifo_data] /\ (bvalid => responses > 0)
    BY DEF MemoryStep
  <1>6. ddr' = [ddr EXCEPT ![a] = wr_fifo_data] BY <1>4, <1>5
  <1>7. responses' = responses + (IF Head(bursts).left = 1 THEN 1 ELSE 0)
                               - (IF bvalid THEN 1 ELSE 0)
    BY DEF MemoryStep
  <1>8. responses' = responses + (IF n = 1 THEN 1 ELSE 0) - (IF bvalid THEN 1 ELSE 0)
    BY <1>4, <1>7
  <1>9. bursts' = (IF Head(bursts).left = 1 THEN Tail(bursts)
                   ELSE <<[adrs |-> Head(bursts).adrs + 1,
                           left |-> Head(bursts).left - 1]>> \o Tail(bursts)) \o <<>>
    BY DEF MemoryStep
  <1>10. bursts' = (IF n = 1 THEN <<>> ELSE <<k>> \o <<>>) \o <<>>
    BY <1>3, <1>4, <1>9
  <1>11. <<>> \o <<>> = <<>> /\ (<<k>> \o <<>>) \o <<>> = <<k>>
    <2> HIDE DEF k
    <2> QED OBVIOUS
  <1>12. (n = 1 => bursts' = <<>>) /\ (n # 1 => bursts' = <<k>>)
    BY <1>10, <1>11
  <1> QED BY <1>5, <1>6, <1>8, <1>12

\* A full buffer holds every beat of its block.
LEMMA BeatReady ==
  ASSUME TypeOK, Counts, Filled, writer.busy, writer.full
  PROVE  wr_fifo_data = BeatAt(First + writer.beat)
  <1> DEFINE b == writer.beat
  <1>1. b \in Beats BY DEF TypeOK, WriterType
  <1>2. writer.words = BLOCK_BEATS * B BY Sizes DEF Counts
  <1>3. (b + 1) * B <= BLOCK_BEATS * B
    <2>1. BLOCK_BEATS \in Nat \ {0} /\ B \in Nat BY Sizes
    <2>2. b + 1 \in Nat /\ b + 1 <= BLOCK_BEATS BY <1>1, <2>1 DEF Beats
    <2> DEFINE d == BLOCK_BEATS - (b + 1)
    <2>3. d \in Nat /\ BLOCK_BEATS = (b + 1) + d BY <2>1, <2>2
    <2> HIDE DEF d, b
    <2>4. ((b + 1) + d) * B = (b + 1) * B + d * B /\ d * B \in Nat /\ (b + 1) * B \in Nat
      BY <2>1, <2>2, <2>3
    <2> QED BY <2>3, <2>4
  <1>4. block_mem[b] = BeatAt(First + b) BY <1>1, <1>2, <1>3 DEF Filled
  <1> QED BY <1>4 DEF wr_fifo_data

\* One more beat of the run has arrived.
LEMMA OneMore ==
  ASSUME ddr \in [Places -> BeatType], NEW n \in Nat,
         \A b \in Places : b < n => ddr[b] = BeatAt(b),
         ddr' = [ddr EXCEPT ![n] = BeatAt(n)]
  PROVE  \A b \in Places : b < n + 1 => ddr'[b] = BeatAt(b)
  <1>1. ASSUME NEW b \in Places, b < n + 1 PROVE ddr'[b] = BeatAt(b)
    <2>1. b \in Nat
      <3>1. Blocks * BLOCK_BEATS \in Nat BY Sizes
      <3> QED BY <3>1 DEF Places
    <2>2. b < n \/ b = n BY <1>1, <2>1
    <2> QED BY <2>2
  <1> QED BY <1>1

\* What a step of sending does besides moving the burst in work.
LEMMA SendingFrame ==
  ASSUME IInv, NEW start \in BOOLEAN, NEW awready \in BOOLEAN, NEW wready \in BOOLEAN,
         NEW bvalid \in BOOLEAN, NEW bad \in BOOLEAN, StartStep(start),
         MemoryStep(awready, wready, bvalid), MasterStep(awready, wready, bvalid, bad),
         Sending(wready), soft_reset' = soft_reset
  PROVE  /\ writer.busy /\ writer.full /\ writer.active /\ master.st # "DONE" /\ ~ctx_start
         /\ writer'.busy /\ writer'.full /\ writer'.active
         /\ ~writer'.done /\ ~writer'.wr_start /\ writer'.beat = NextBeat(wready)
         /\ ctx_start' = FALSE /\ quiet' = quiet
         /\ TypeOK' /\ Counts' /\ Filled' /\ Errors' /\ First' = First
         /\ \A b : BeatAt(b)' = BeatAt(b)
  <1> DEFINE e == writer.error \/ wr_error
             n == NextBeat(wready)
  <1>1. TypeOK /\ Turns /\ Counts /\ Filled /\ Errors BY DEF IInv
  <1>2. /\ ~ctx_start /\ writer.busy /\ writer.full /\ writer.active /\ ~writer.done
        /\ master.st # "DONE"
    BY <1>1 DEF Sending, wr_done, Turns
  <1>3. /\ master' \in MasterType /\ wr_error' \in BOOLEAN /\ faulted' \in BOOLEAN
        /\ wr_error' => wr_error \/ faulted'
        /\ faulted => faulted'
    BY <1>1, MasterMoves
  <1>4. /\ ctx_start' = FALSE /\ run' = run /\ quiet' = quiet
        /\ run' \in Nat /\ quiet' \in BOOLEAN
    BY <1>1, <1>2, Starts
  <1>5. writer \in WriterType BY <1>1 DEF TypeOK
  <1>6. writer' = [busy |-> writer.busy, done |-> FALSE, error |-> e,
                 wr_start |-> FALSE, pack |-> writer.pack, lane |-> writer.lane,
                 beat |-> n, words |-> writer.words, full |-> writer.full,
                 active |-> writer.active, final |-> writer.final,
                 blocks |-> writer.blocks, accepted |-> writer.accepted]
    <2>1. writer' = [Base EXCEPT !.beat = n] BY DEF Sending
    <2>2. Base = [busy |-> writer.busy, done |-> FALSE, error |-> e,
                 wr_start |-> FALSE, pack |-> writer.pack, lane |-> writer.lane,
                 beat |-> writer.beat, words |-> writer.words, full |-> writer.full,
                 active |-> writer.active, final |-> writer.final,
                 blocks |-> writer.blocks, accepted |-> writer.accepted]
      BY <1>1, BaseFields
    <2> HIDE DEF e, n
    <2> QED BY <2>1, <2>2
  <1>7. block_mem' = block_mem BY DEF Sending
  <1>8. n \in Beats
    <2>1. writer.beat \in Beats /\ BLOCK_BEATS \in Nat BY <1>5, Sizes DEF WriterType
    <2> QED BY <2>1 DEF NextBeat, Beats
  <1>9. TypeOK'
    <2>1. e \in BOOLEAN BY DEF e
    <2> HIDE DEF e, n
    <2>2. writer' \in WriterType BY <1>5, <1>6, <1>8, <2>1 DEF WriterType
    <2>3. block_mem' \in [Beats -> BeatType] BY <1>1, <1>7 DEF TypeOK
    <2>4. ddr' \in [Places -> BeatType] BY <1>1, MemoryTypes
    <2>5. soft_reset' \in BOOLEAN BY <1>1 DEF TypeOK
    <2> QED BY <1>3, <1>4, <2>2, <2>3, <2>4, <2>5 DEF TypeOK
  <1>10. /\ Counts' /\ Filled' /\ First' = First
         /\ \A b : BeatAt(b)' = BeatAt(b)
    <2>1. /\ writer'.busy = writer.busy
          /\ writer'.blocks = writer.blocks /\ writer'.accepted = writer.accepted
          /\ writer'.words = writer.words /\ writer'.lane = writer.lane
          /\ writer'.pack = writer.pack /\ writer'.full = writer.full
          /\ writer'.final = writer.final
      BY <1>6
    <2> QED BY <1>1, <1>4, <1>7, <2>1, SameBlock
  <1>11. Errors'
    <2>1. writer'.error = e BY <1>6
    <2> QED BY <1>1, <1>3, <2>1 DEF Errors
  <1>12. /\ writer'.busy /\ writer'.full /\ writer'.active
         /\ ~writer'.done /\ ~writer'.wr_start /\ writer'.beat = n
    BY <1>2, <1>6
  <1> QED BY <1>2, <1>4, <1>9, <1>10, <1>11, <1>12

\* A step that moves no beat: before the master has taken the request, while an
\* address is offered, and while a response is awaited.
LEMMA SendingNoBeat ==
  ASSUME IInv, NEW start \in BOOLEAN, NEW awready \in BOOLEAN, NEW wready \in BOOLEAN,
         NEW bvalid \in BOOLEAN, NEW bad \in BOOLEAN, StartStep(start),
         MemoryStep(awready, wready, bvalid), MasterStep(awready, wready, bvalid, bad),
         Sending(wready), soft_reset' = soft_reset, ~wready
  PROVE  Turns' /\ Progress' /\ Complete'
  <1>1. TypeOK /\ Turns /\ Progress /\ Complete BY DEF IInv
  <1>2. /\ writer.busy /\ writer.full /\ writer.active /\ master.st # "DONE" /\ ~ctx_start
        /\ writer'.busy /\ writer'.full /\ writer'.active
        /\ ~writer'.done /\ ~writer'.wr_start /\ writer'.beat = NextBeat(wready)
        /\ ctx_start' = FALSE /\ quiet' = quiet
        /\ First' = First /\ \A b : BeatAt(b)' = BeatAt(b)
    BY SendingFrame
  <1>3. writer'.beat = writer.beat BY <1>2 DEF NextBeat, wr_fifo_re
  <1>4. writer.beat \in Nat /\ First \in Nat /\ master \in MasterType /\ writer \in WriterType
    <2>1. writer.beat \in Nat /\ writer.blocks \in Nat /\ BLOCK_BEATS \in Nat
      BY <1>1, Sizes DEF TypeOK, WriterType, Beats
    <2>2. First \in Nat BY <2>1 DEF First
    <2> QED BY <1>1, <2>1, <2>2 DEF TypeOK
  <1>5. Burst \in Nat \ {0} /\ BLOCK_BEATS \in Nat \ {0} BY Sizes
  <1>6. ~wr_fifo_re(wready) BY DEF wr_fifo_re
  <1>7. quiet =>
          /\ bursts = IF master.st = "WD_PROC" THEN <<OpenBurst>> ELSE <<>>
          /\ responses = IF master.st = "WR_WAIT" THEN 1 ELSE 0
          /\ \A b \in Places : b < First + Arrived => ddr[b] = BeatAt(b)
    BY <1>1, <1>2 DEF Complete
  \* What is left to show of the memory.
  <1> DEFINE Same == bursts' = bursts /\ ddr' = ddr
  <1>8. ~awready /\ quiet => Same /\ responses' = responses + 0 - (IF bvalid THEN 1 ELSE 0)
    <2>1. ASSUME ~awready, quiet
          PROVE  Same /\ responses' = responses + 0 - (IF bvalid THEN 1 ELSE 0)
      <3>1. bursts = <<>> \/ (\E x : bursts = <<x>>) BY <1>7, <2>1
      <3> QED BY <2>1, <3>1, MemoryRests
    <2> QED BY <2>1
  <1>9. bvalid => responses > 0 BY DEF MemoryStep
  <1>10. awready => master.st = "WD_WAIT" BY <1>1 DEF MemoryStep, Turns
  <1>11. ASSUME Arrived' = Arrived,
                quiet => /\ bursts' = IF master'.st = "WD_PROC" THEN <<OpenBurst>>' ELSE <<>>
                         /\ responses' = IF master'.st = "WR_WAIT" THEN 1 ELSE 0
                         /\ ddr' = ddr
         PROVE  Complete'
    <2>1. quiet' => \A b \in Places : b < First' + Arrived' => ddr'[b] = BeatAt(b)'
      BY <1>2, <1>7, <1>11
    <2> QED BY <1>2, <1>11, <2>1 DEF Complete
  <1>12. ASSUME quiet, master.st # "WR_WAIT", ~awready
         PROVE  /\ bursts' = bursts /\ ddr' = ddr /\ responses' = 0
    <2>1. responses = 0 BY <1>7, <1>12
    <2>2. ~bvalid BY <1>9, <2>1
    <2>3. responses' = responses + 0 - 0 BY <1>8, <1>12, <2>2
    <2> QED BY <1>8, <1>12, <2>1, <2>3
  <1>13. ASSUME master.st = "IDLE" PROVE Turns' /\ Progress' /\ Complete'
    <2>1. writer.wr_start /\ writer.beat = 0 BY <1>1, <1>2, <1>13 DEF Turns
    <2>2. /\ master'.st = "WA_WAIT" /\ master'.adrs = wr_adrs
          /\ master'.len = BLOCK_BEATS - 1 /\ ~master'.awvalid /\ ~master'.wvalid
      BY <1>1, <1>13, <2>1, MasterMoves
    <2>3. Turns' BY <1>2, <2>2 DEF Turns
    <2>4. Asking'
      <3>1. wr_adrs = First BY DEF wr_adrs, First
      <3> QED BY <1>2, <1>3, <1>4, <1>5, <2>1, <2>2, <3>1 DEF Asking
    <2>5. Progress' BY <2>2, <2>4 DEF Progress, Offering, Giving, Closing, Given
    <2>6. Complete'
      <3>1. Arrived' = Arrived BY <1>3, <1>13, <2>2 DEF Arrived, Given
      <3> QED BY <1>7, <1>10, <1>11, <1>12, <1>13, <2>2, <3>1
    <2> QED BY <2>3, <2>5, <2>6
  <1>14. ASSUME master.st = "WA_WAIT" PROVE Turns' /\ Progress' /\ Complete'
    <2>1. /\ master'.st = "WA_START" /\ master'.awvalid = master.awvalid
          /\ master'.wvalid = master.wvalid
          /\ master'.adrs = master.adrs /\ master'.len = master.len
      BY <1>1, <1>14, MasterMoves
    <2>2. ~master.awvalid /\ ~master.wvalid BY <1>1, <1>14 DEF Turns
    <2>3. Turns' BY <1>2, <2>1, <2>2 DEF Turns
    <2>4. Asking' BY <1>1, <1>2, <1>3, <1>14, <2>1 DEF Progress, Asking
    <2>5. Progress' BY <2>1, <2>4 DEF Progress, Offering, Giving, Closing, Given
    <2>6. Complete'
      <3>1. Arrived' = Arrived BY <1>3, <1>14, <2>1 DEF Arrived, Given
      <3> QED BY <1>7, <1>10, <1>11, <1>12, <1>14, <2>1, <3>1
    <2> QED BY <2>3, <2>5, <2>6
  <1>15. ASSUME master.st = "WA_START" PROVE Turns' /\ Progress' /\ Complete'
    <2>1. /\ master'.st = "WD_WAIT" /\ master'.awvalid /\ master'.wvalid = master.wvalid
          /\ master'.adrs = master.adrs
          /\ master.len < Burst => master'.last /\ master'.wlen = master.len
          /\ master.len >= Burst => /\ ~master'.last /\ master'.wlen = Burst - 1
                                    /\ master'.len = master.len - Burst
      BY <1>1, <1>15, MasterMoves
    <2>2. ~master.wvalid BY <1>1, <1>15 DEF Turns
    <2>3. Turns' BY <1>2, <2>1, <2>2 DEF Turns
    <2>4. Offering'
      <3>1. master.adrs = First + writer.beat /\ master.len + writer.beat + 1 = BLOCK_BEATS
        BY <1>1, <1>15 DEF Progress, Asking
      <3>2. master.len \in Nat BY <1>4 DEF MasterType
      <3>3. CASE master.len < Burst
        <4>1. ~(master.len >= Burst) BY <1>5, <3>2, <3>3
        <4> QED BY <1>2, <1>3, <2>1, <3>1, <3>3 DEF Offering
      <3>4. CASE master.len >= Burst
        <4>1. master'.wlen + 1 = Burst BY <1>5, <2>1, <3>4
        <4>2. master'.len + Burst + writer.beat + 1 = BLOCK_BEATS
          BY <1>4, <1>5, <2>1, <3>1, <3>2, <3>4
        <4>3. ~master'.last /\ master'.adrs = First + writer.beat BY <2>1, <3>1, <3>4
        <4> QED BY <1>2, <1>3, <4>1, <4>2, <4>3 DEF Offering
      <3> QED BY <1>5, <3>2, <3>3, <3>4
    <2>5. Progress' BY <2>1, <2>4 DEF Progress, Asking, Giving, Closing, Given
    <2>6. Complete'
      <3>1. Arrived' = Arrived BY <1>3, <1>15, <2>1 DEF Arrived, Given
      <3> QED BY <1>7, <1>10, <1>11, <1>12, <1>15, <2>1, <3>1
    <2> QED BY <2>3, <2>5, <2>6
  <1>16. ASSUME master.st = "WD_WAIT" PROVE Turns' /\ Progress' /\ Complete'
    <2>1. /\ master'.last = master.last /\ master'.wlen = master.wlen
          /\ master'.len = master.len /\ master'.adrs = master.adrs
          /\ awready => master'.st = "WD_PROC" /\ ~master'.awvalid /\ master'.wvalid
          /\ ~awready => master' = master
      BY <1>1, <1>16, MasterMoves
    <2>2. Offering BY <1>1 DEF Progress
    <2>3. CASE ~awready
      <3>1. master' = master BY <2>1, <2>3
      <3>2. Turns' BY <1>1, <1>2, <1>16, <3>1 DEF Turns
      <3>3. Progress' BY <1>1, <1>2, <1>3, <3>1
        DEF Progress, Asking, Offering, Giving, Closing, Given
      <3>4. Arrived' = Arrived BY <1>3, <3>1 DEF Arrived, Given
      <3>5. Complete' BY <1>7, <1>11, <1>12, <1>16, <2>3, <3>1, <3>4
      <3> QED BY <3>2, <3>3, <3>5
    <2>4. CASE awready
      <3>1. master'.st = "WD_PROC" /\ ~master'.awvalid /\ master'.wvalid BY <2>1, <2>4
      <3>2. Turns' BY <1>2, <3>1 DEF Turns
      <3>3. Giving'
        <4>1. master.last => master.wlen + writer.beat + 1 = BLOCK_BEATS
          BY <1>16, <2>2 DEF Offering
        <4>2. ASSUME ~master.last
              PROVE  /\ master.wlen + master.len + writer.beat + 2 = BLOCK_BEATS
                     /\ master.adrs + Burst = First + writer.beat + master.wlen + 1
          <5>1. /\ master.wlen + 1 = Burst /\ master.adrs = First + writer.beat
                /\ master.len + Burst + writer.beat + 1 = BLOCK_BEATS
            BY <1>16, <2>2, <4>2 DEF Offering
          <5>2. master.wlen \in Nat /\ master.len \in Nat BY <1>4 DEF MasterType
          <5> QED BY <1>4, <1>5, <5>1, <5>2
        <4> QED BY <1>2, <1>3, <2>1, <4>1, <4>2 DEF Giving
      <3>4. Progress' BY <3>1, <3>3 DEF Progress, Asking, Offering, Closing, Given
      <3>5. Arrived' = Arrived BY <1>3, <1>16, <3>1 DEF Arrived, Given
      <3>6. ASSUME quiet
            PROVE  bursts' = <<OpenBurst>>' /\ responses' = 0 /\ ddr' = ddr
        <4>1. bursts = <<>> /\ responses = 0 BY <1>7, <1>16, <3>6
        <4>2. ~bvalid BY <1>9, <4>1
        <4>3. /\ bursts' = <<[adrs |-> master.adrs, left |-> master.wlen + 1]>>
              /\ ddr' = ddr
              /\ responses' = responses + 0 - (IF bvalid THEN 1 ELSE 0)
          BY <2>4, <4>1, MemoryAsked
        <4>4. responses' = 0
          <5>1. responses' = responses + 0 - 0 BY <4>2, <4>3
          <5> QED BY <4>1, <5>1
        <4>5. OpenBurst' = [adrs |-> master.adrs, left |-> master.wlen + 1]
          <5>1. First' + writer'.beat = master.adrs BY <1>2, <1>3, <1>16, <2>2 DEF Offering
          <5> QED BY <2>1, <5>1 DEF OpenBurst
        <4> QED BY <4>3, <4>4, <4>5
      <3>7. Complete' BY <1>11, <3>1, <3>5, <3>6
      <3> QED BY <3>2, <3>4, <3>7
    <2> QED BY <2>3, <2>4
  <1>17. ASSUME master.st = "WD_PROC" PROVE Turns' /\ Progress' /\ Complete'
    <2>1. master' = master BY <1>1, <1>6, <1>17, MasterMoves
    <2>2. Turns' BY <1>1, <1>2, <1>17, <2>1 DEF Turns
    <2>3. Progress' BY <1>1, <1>2, <1>3, <2>1
      DEF Progress, Asking, Offering, Giving, Closing, Given
    <2>4. Arrived' = Arrived BY <1>3, <2>1 DEF Arrived, Given
    <2>5. OpenBurst' = OpenBurst BY <1>2, <1>3, <2>1 DEF OpenBurst
    <2>6. Complete' BY <1>7, <1>10, <1>11, <1>12, <1>17, <2>1, <2>4, <2>5
    <2> QED BY <2>2, <2>3, <2>6
  <1>18. ASSUME master.st = "WR_WAIT" PROVE Turns' /\ Progress' /\ Complete'
    <2>1. /\ ~bvalid => master' = master
          /\ bvalid =>
               /\ master'.awvalid = master.awvalid /\ master'.wvalid = master.wvalid
               /\ master'.len = master.len
               /\ master.last => master'.st = "DONE"
               /\ ~master.last => /\ master'.st = "WA_WAIT"
                                  /\ master'.adrs = master.adrs + Burst
      BY <1>1, <1>18, MasterMoves
    <2>2. ~master.awvalid /\ ~master.wvalid /\ ~awready BY <1>1, <1>10, <1>18 DEF Turns
    <2>3. ASSUME quiet
          PROVE  bursts' = <<>> /\ ddr' = ddr /\ responses' = IF bvalid THEN 0 ELSE 1
      <3>1. /\ bursts = <<>> /\ responses = 1 /\ bursts' = bursts /\ ddr' = ddr
            /\ responses' = responses + 0 - (IF bvalid THEN 1 ELSE 0)
        BY <1>7, <1>8, <1>18, <2>2, <2>3
      <3> QED BY <3>1
    <2>4. CASE ~bvalid
      <3>1. master' = master BY <2>1, <2>4
      <3>2. Turns' BY <1>1, <1>2, <1>18, <3>1 DEF Turns
      <3>3. Progress' BY <1>1, <1>2, <1>3, <3>1
        DEF Progress, Asking, Offering, Giving, Closing, Given
      <3>4. Arrived' = Arrived BY <1>3, <3>1 DEF Arrived, Given
      <3>5. Complete' BY <1>11, <1>18, <2>3, <2>4, <3>1, <3>4
      <3> QED BY <3>2, <3>3, <3>5
    <2>5. CASE bvalid /\ master.last
      <3>1. master'.st = "DONE" /\ ~master'.awvalid /\ ~master'.wvalid BY <2>1, <2>2, <2>5
      <3>2. Turns' BY <1>2, <3>1 DEF Turns
      <3>3. writer.beat + 1 = BLOCK_BEATS
        BY <1>1, <1>18, <2>5 DEF Progress, Closing, Given
      <3>4. Progress' BY <1>3, <3>1, <3>3
        DEF Progress, Asking, Offering, Giving, Closing
      <3>5. Arrived' = Arrived BY <1>18, <2>5, <3>1 DEF Arrived, Given
      <3>6. Complete' BY <1>11, <2>3, <2>5, <3>1, <3>5
      <3> QED BY <3>2, <3>4, <3>6
    <2>6. CASE bvalid /\ ~master.last
      <3>1. /\ master'.st = "WA_WAIT" /\ master'.adrs = master.adrs + Burst
            /\ master'.len = master.len /\ ~master'.awvalid /\ ~master'.wvalid
        BY <2>1, <2>2, <2>6
      <3>2. Turns' BY <1>2, <3>1 DEF Turns
      <3>3. /\ master.len + writer.beat + 1 = BLOCK_BEATS
            /\ master.adrs + Burst = First + writer.beat
        BY <1>1, <1>18, <2>6 DEF Progress, Closing
      <3>4. Asking' BY <1>2, <1>3, <3>1, <3>3 DEF Asking
      <3>5. Progress' BY <3>1, <3>4 DEF Progress, Offering, Giving, Closing, Given
      <3>6. Arrived' = Arrived BY <1>3, <1>18, <2>6, <3>1 DEF Arrived, Given
      <3>7. Complete' BY <1>11, <2>3, <2>6, <3>1, <3>6
      <3> QED BY <3>2, <3>5, <3>7
    <2> QED BY <2>4, <2>5, <2>6
  <1> QED BY <1>2, <1>4, <1>13, <1>14, <1>15, <1>16, <1>17, <1>18 DEF MasterType

\* A step that moves a beat of the burst in work.
LEMMA SendingBeat ==
  ASSUME IInv, NEW start \in BOOLEAN, NEW awready \in BOOLEAN, NEW wready \in BOOLEAN,
         NEW bvalid \in BOOLEAN, NEW bad \in BOOLEAN, StartStep(start),
         MemoryStep(awready, wready, bvalid), MasterStep(awready, wready, bvalid, bad),
         Sending(wready), soft_reset' = soft_reset, wready
  PROVE  Turns' /\ Progress' /\ Complete'
  <1> DEFINE n == writer.beat
             w == master.wlen
             m == master.len
  <1>1. TypeOK /\ Turns /\ Counts /\ Filled /\ Progress /\ Complete BY DEF IInv
  <1>2. /\ writer.busy /\ writer.full /\ writer.active /\ master.st # "DONE" /\ ~ctx_start
        /\ writer'.busy /\ writer'.full /\ writer'.active
        /\ ~writer'.done /\ ~writer'.wr_start /\ writer'.beat = NextBeat(wready)
        /\ ctx_start' = FALSE /\ quiet' = quiet
        /\ First' = First /\ \A b : BeatAt(b)' = BeatAt(b)
    BY SendingFrame, ZenonT(40)
  <1>3. WVALID /\ wr_fifo_re(wready) BY DEF MemoryStep, wr_fifo_re
  <1>4. master.st = "WD_PROC" /\ master.wvalid /\ ~awready /\ ~master.awvalid
    BY <1>1, <1>3 DEF Turns, WVALID, MemoryStep
  <1>5. n \in Nat /\ First \in Nat /\ w \in Nat /\ m \in Nat /\ master.adrs \in Int
        /\ n < BLOCK_BEATS
    <2>1. n \in Nat /\ writer.blocks \in Nat /\ BLOCK_BEATS \in Nat /\ n < BLOCK_BEATS
      BY <1>1, Sizes DEF TypeOK, WriterType, Beats
    <2>2. First \in Nat BY <2>1 DEF First
    <2> QED BY <1>1, <2>1, <2>2 DEF TypeOK, MasterType
  <1>6. Burst \in Nat \ {0} /\ BLOCK_BEATS \in Nat \ {0} BY Sizes
  <1>7. /\ master.last => w + n + 1 = BLOCK_BEATS
        /\ ~master.last => /\ w + m + n + 2 = BLOCK_BEATS
                           /\ master.adrs + Burst = First + n + w + 1
    BY <1>1, <1>4 DEF Progress, Giving
  <1>8. writer'.beat = IF n + 1 < BLOCK_BEATS THEN n + 1 ELSE n
    BY <1>2, <1>3 DEF NextBeat
  <1>9. /\ master'.awvalid = master.awvalid /\ master'.len = m
        /\ master'.last = master.last /\ master'.adrs = master.adrs
        /\ w = 0 => master'.st = "WR_WAIT" /\ ~master'.wvalid
        /\ w # 0 => /\ master'.st = "WD_PROC" /\ master'.wvalid = master.wvalid
                    /\ master'.wlen = w - 1
    BY <1>1, <1>3, <1>4, MasterMoves
  <1>10. Turns' BY <1>2, <1>4, <1>9 DEF Turns
  <1>11. w # 0 \/ ~master.last => writer'.beat = n + 1
    <2> HIDE DEF n, w, m
    <2> QED BY <1>5, <1>6, <1>7, <1>8
  <1>12. w = 0 /\ master.last => writer'.beat = n /\ n + 1 = BLOCK_BEATS
    <2> HIDE DEF n, w, m
    <2> QED BY <1>5, <1>6, <1>7, <1>8
  <1>13. Progress'
    <2>1. CASE w # 0
      <3>1. Giving'
        <4>1. master.last => (w - 1) + (n + 1) + 1 = BLOCK_BEATS
          <5> HIDE DEF n, w, m
          <5> QED BY <1>5, <1>6, <1>7
        <4>2. ~master.last => /\ (w - 1) + m + (n + 1) + 2 = BLOCK_BEATS
                              /\ master.adrs + Burst = First + (n + 1) + (w - 1) + 1
          <5> HIDE DEF n, w, m
          <5> QED BY <1>5, <1>6, <1>7
        <4>3. /\ writer'.beat = n + 1 /\ master'.wlen = w - 1 /\ master'.len = m
              /\ master'.last = master.last /\ master'.adrs = master.adrs
          BY <1>9, <1>11, <2>1
        <4> QED BY <1>2, <4>1, <4>2, <4>3 DEF Giving
      <3>2. master'.st = "WD_PROC" BY <1>9, <2>1
      <3> QED BY <3>1, <3>2 DEF Progress, Asking, Offering, Closing, Given
    <2>2. CASE w = 0
      <3>1. master'.st = "WR_WAIT" BY <1>9, <2>2
      <3>2. Closing'
        <4>1. ASSUME ~master.last
              PROVE  /\ m + (n + 1) + 1 = BLOCK_BEATS
                     /\ master.adrs + Burst = First + (n + 1)
          <5> HIDE DEF n, w, m
          <5> QED BY <1>5, <1>6, <1>7, <2>2, <4>1
        <4>2. CASE master.last
          BY <1>9, <1>12, <2>2, <3>1, <4>2 DEF Closing, Given
        <4>3. CASE ~master.last
          <5>1. writer'.beat = n + 1 /\ ~master'.last BY <1>9, <1>11, <4>3
          <5> QED BY <1>2, <1>9, <3>1, <4>1, <4>3, <5>1 DEF Closing, Given
        <4> QED BY <4>2, <4>3
      <3> QED BY <3>1, <3>2 DEF Progress, Asking, Offering, Giving
    <2> QED BY <2>1, <2>2
  <1>14. Arrived = n /\ Arrived' = n + 1
    <2>1. Arrived = n BY <1>4 DEF Arrived, Given
    <2>2. CASE w = 0 /\ master.last
      <3>1. master'.st = "WR_WAIT" /\ master'.last BY <1>9, <2>2
      <3>2. Arrived' = BLOCK_BEATS BY <3>1 DEF Arrived, Given
      <3> QED BY <1>12, <2>1, <2>2, <3>2
    <2>3. CASE w # 0 \/ ~master.last
      <3>1. master'.st = "WD_PROC" \/ (master'.st = "WR_WAIT" /\ ~master'.last)
        BY <1>9, <2>3
      <3>2. Arrived' = writer'.beat BY <3>1 DEF Arrived, Given
      <3> QED BY <1>11, <2>1, <2>3, <3>2
    <2> QED BY <2>2, <2>3
  <1>15. Complete'
    <2>1. ASSUME quiet
          PROVE  /\ bursts' = IF master'.st = "WD_PROC" THEN <<OpenBurst>>' ELSE <<>>
                 /\ responses' = IF master'.st = "WR_WAIT" THEN 1 ELSE 0
                 /\ \A b \in Places : b < First' + Arrived' => ddr'[b] = BeatAt(b)'
      <3> DEFINE a == First + n
                 z == w + 1
      <3>1. /\ bursts = <<OpenBurst>> /\ responses = 0
            /\ \A b \in Places : b < a => ddr[b] = BeatAt(b)
        BY <1>1, <1>2, <1>4, <1>14, <2>1 DEF Complete
      <3>2. bursts = <<[adrs |-> a, left |-> z]>> BY <3>1 DEF OpenBurst
      <3> HIDE DEF a, z
      <3>3. /\ z = 1 => bursts' = <<>>
            /\ z # 1 => bursts' = <<[adrs |-> a + 1, left |-> z - 1]>>
            /\ ddr' = [ddr EXCEPT ![a] = wr_fifo_data]
            /\ responses' = responses + (IF z = 1 THEN 1 ELSE 0) - (IF bvalid THEN 1 ELSE 0)
            /\ bvalid => responses > 0
        BY <1>4, <3>2, MemoryTaken
      <3>4. ~bvalid BY <3>1, <3>3
      <3>5. responses' = IF z = 1 THEN 1 ELSE 0
        <4>1. responses' = responses + (IF z = 1 THEN 1 ELSE 0) - 0 BY <3>3, <3>4
        <4> QED BY <3>1, <4>1
      <3>6. z = 1 <=> w = 0 BY <1>5 DEF z
      <3>7. w # 0 => OpenBurst' = [adrs |-> a + 1, left |-> z - 1]
        <4>1. ASSUME w # 0 PROVE OpenBurst' = [adrs |-> a + 1, left |-> z - 1]
          <5>1. First' + writer'.beat = a + 1 /\ master'.wlen + 1 = z - 1
            <6>1. First' = First /\ writer'.beat = n + 1 /\ master'.wlen = w - 1
              BY <1>2, <1>9, <1>11, <4>1
            <6> HIDE DEF n, w
            <6> QED BY <1>5, <6>1 DEF a, z
          <5> QED BY <5>1 DEF OpenBurst
        <4> QED BY <4>1
      <3>8. \A b \in Places : b < a + 1 => ddr'[b] = BeatAt(b)
        <4>1. ddr \in [Places -> BeatType] /\ a \in Nat BY <1>1, <1>5 DEF TypeOK, a
        <4>2. wr_fifo_data = BeatAt(a) BY <1>1, <1>2, BeatReady DEF a
        <4> QED BY <3>1, <3>3, <4>1, <4>2, OneMore
      <3>9. First' + Arrived' = a + 1 BY <1>2, <1>5, <1>14 DEF a
      <3>10. \A b \in Places : b < First' + Arrived' => ddr'[b] = BeatAt(b)'
        BY <1>2, <3>8, <3>9
      <3>11. bursts' = IF master'.st = "WD_PROC" THEN <<OpenBurst>>' ELSE <<>>
        <4>1. CASE w = 0
          <5>1. master'.st = "WR_WAIT" BY <1>9, <4>1
          <5> QED BY <3>3, <3>6, <4>1, <5>1
        <4>2. CASE w # 0
          <5>1. master'.st = "WD_PROC" BY <1>9, <4>2
          <5> QED BY <3>3, <3>6, <3>7, <4>2, <5>1
        <4> QED BY <4>1, <4>2
      <3>12. responses' = IF master'.st = "WR_WAIT" THEN 1 ELSE 0
        BY <1>9, <3>5, <3>6
      <3> QED BY <3>10, <3>11, <3>12
    <2> QED BY <1>2, <2>1 DEF Complete
  <1> QED BY <1>10, <1>13, <1>15

LEMMA SendingKeeps ==
  ASSUME IInv, NEW start \in BOOLEAN, NEW awready \in BOOLEAN, NEW wready \in BOOLEAN,
         NEW bvalid \in BOOLEAN, NEW bad \in BOOLEAN, StartStep(start),
         MemoryStep(awready, wready, bvalid), MasterStep(awready, wready, bvalid, bad),
         Sending(wready), soft_reset' = soft_reset
  PROVE  IInv'
  <1>1. TypeOK' /\ Counts' /\ Filled' /\ Errors' BY SendingFrame
  <1>2. Turns' /\ Progress' /\ Complete' BY SendingNoBeat, SendingBeat
  <1> QED BY <1>1, <1>2 DEF IInv

\* A block is written: with the last one the whole context is in DDR.
LEMMA WrittenKeeps ==
  ASSUME IInv, NEW start \in BOOLEAN, NEW awready \in BOOLEAN, NEW wready \in BOOLEAN,
         NEW bvalid \in BOOLEAN, NEW bad \in BOOLEAN, StartStep(start),
         MemoryStep(awready, wready, bvalid), MasterStep(awready, wready, bvalid, bad),
         Written, soft_reset' = soft_reset
  PROVE  IInv'
  <1> DEFINE k == writer.blocks
             e == writer.error \/ wr_error
             f == writer.final
             t == TOTAL_WORDS
  <1>1. TypeOK /\ Turns /\ Counts /\ Filled /\ Progress /\ Complete /\ Errors BY DEF IInv
  <1>2. /\ ~ctx_start /\ writer.busy /\ writer.full /\ writer.active /\ ~writer.done
        /\ master.st = "DONE" /\ ~writer.wr_start
    BY <1>1 DEF Written, wr_done, Turns
  <1>3. /\ master' \in MasterType /\ wr_error' \in BOOLEAN /\ faulted' \in BOOLEAN
        /\ wr_error' => wr_error \/ faulted'
        /\ faulted => faulted'
        /\ master'.st = "IDLE"
        /\ master'.awvalid = master.awvalid /\ master'.wvalid = master.wvalid
    BY <1>1, <1>2, MasterMoves
  <1>4. /\ ctx_start' = FALSE /\ run' = run /\ quiet' = quiet
        /\ run' \in Nat /\ quiet' \in BOOLEAN
    BY <1>1, <1>2, Starts
  <1>5. writer \in WriterType BY <1>1 DEF TypeOK
  <1>6. /\ B \in Nat \ {0} /\ B >= 2 /\ Blocks \in Nat \ {0} /\ BLOCK_BEATS \in Nat \ {0}
        /\ BLOCK_WORDS \in Nat \ {0} /\ Lanes = 0 .. B - 1 /\ BLOCK_WORDS = BLOCK_BEATS * B
    BY Sizes
  <1>7. /\ k \in Nat /\ k < Blocks /\ (f <=> k = Blocks - 1)
        /\ writer.accepted = k * BLOCK_WORDS + BLOCK_WORDS /\ f \in BOOLEAN
    BY <1>1, <1>2, <1>5, <1>6 DEF Counts, WriterType
  <1>8. f => writer.accepted = t
    <2>1. ASSUME k = Blocks - 1 PROVE k * BLOCK_WORDS + BLOCK_WORDS = Blocks * BLOCK_WORDS
      BY <1>6, <1>7, <2>1
    <2> QED BY <1>7, <2>1 DEF TOTAL_WORDS
  <1>9. writer' = [busy |-> ~f, done |-> f, error |-> e,
                 wr_start |-> FALSE, pack |-> NoBeat, lane |-> 0,
                 beat |-> 0, words |-> 0, full |-> FALSE,
                 active |-> FALSE, final |-> f,
                 blocks |-> k + 1, accepted |-> writer.accepted]
    <2> DEFINE v == f /\ writer.accepted # t
    <2>1. writer' = [Base EXCEPT !.active = FALSE, !.blocks = @ + 1, !.full = FALSE,
                     !.words = 0, !.beat = 0, !.pack = NoBeat, !.lane = 0,
                     !.busy = ~f, !.done = f, !.error = @ \/ v]
      BY DEF Written
    <2>2. Base = [busy |-> writer.busy, done |-> FALSE, error |-> e,
                 wr_start |-> FALSE, pack |-> writer.pack, lane |-> writer.lane,
                 beat |-> writer.beat, words |-> writer.words, full |-> writer.full,
                 active |-> writer.active, final |-> f,
                 blocks |-> k, accepted |-> writer.accepted]
      BY <1>1, BaseFields
    <2>3. (e \/ v) = e BY <1>8
    <2> HIDE DEF e, v, k, f
    <2> QED BY <2>1, <2>2, <2>3
  <1>10. block_mem' = block_mem BY DEF Written
  <1>11. TypeOK'
    <2>1. e \in BOOLEAN BY DEF e
    <2>2. /\ NoBeat \in BeatType /\ 0 \in Beats /\ 0 \in Lanes /\ 0 \in 0 .. BLOCK_WORDS
          /\ k + 1 \in Nat /\ (~f) \in BOOLEAN
      BY <1>1, <1>6, <1>7, WordTypes DEF Beats
    <2> HIDE DEF e, f, k
    <2>3. writer' \in WriterType BY <1>5, <1>7, <1>9, <2>1, <2>2 DEF WriterType
    <2>4. block_mem' \in [Beats -> BeatType] BY <1>1, <1>10 DEF TypeOK
    <2>5. ddr' \in [Places -> BeatType] BY <1>1, MemoryTypes
    <2>6. soft_reset' \in BOOLEAN BY <1>1 DEF TypeOK
    <2> QED BY <1>3, <1>4, <2>3, <2>4, <2>5, <2>6 DEF TypeOK
  <1>12. Turns'
    <2>1. ~master'.awvalid /\ ~master'.wvalid BY <1>1, <1>2, <1>3 DEF Turns
    <2>2. /\ writer'.done => ~writer'.busy
          /\ ~writer'.wr_start /\ ~writer'.active /\ ~writer'.full /\ writer'.beat = 0
      BY <1>9
    <2> QED BY <1>3, <1>4, <2>1, <2>2 DEF Turns
  <1>13. Counts'
    <2>1. ASSUME ~f PROVE k + 1 < Blocks BY <1>6, <1>7, <2>1
    <2>2. k * BLOCK_WORDS + BLOCK_WORDS = (k + 1) * BLOCK_WORDS + 0
      <3>1. k \in Nat /\ BLOCK_WORDS \in Nat BY <1>6, <1>7
      <3> HIDE DEF k
      <3> QED BY <3>1
    <2>3. 0 % B = 0 BY <1>6
    <2>4. /\ writer'.busy = ~f /\ writer'.blocks = k + 1 /\ writer'.words = 0
          /\ writer'.accepted = writer.accepted /\ writer'.lane = 0
          /\ ~writer'.full /\ writer'.final = f
      BY <1>9
    <2> HIDE DEF f, k
    <2> QED BY <1>6, <1>7, <2>1, <2>2, <2>3, <2>4 DEF Counts
  <1>14. Filled'
    <2>1. ASSUME NEW b \in Beats, (b + 1) * B <= writer'.words PROVE FALSE
      <3>1. b + 1 \in Nat /\ b + 1 >= 1 BY <1>6 DEF Beats
      <3>2. (b + 1) * B >= 1 * B BY <1>6, <3>1
      <3> QED BY <1>6, <1>9, <2>1, <3>1, <3>2
    <2>2. ASSUME NEW l \in Lanes, l < writer'.lane PROVE FALSE BY <1>6, <1>9, <2>2
    <2> QED BY <2>1, <2>2 DEF Filled
  <1>15. Progress' BY <1>3 DEF Progress, Asking, Offering, Giving, Closing, Given
  <1>16. Complete'
    <2>1. ASSUME quiet
          PROVE  /\ bursts' = <<>> /\ responses' = 0
                 /\ \A b \in Places : b < First + BLOCK_BEATS => ddr'[b] = BeatAt(b)'
      <3>1. /\ bursts = <<>> /\ responses = 0
            /\ \A b \in Places : b < First + BLOCK_BEATS => ddr[b] = BeatAt(b)
        BY <1>1, <1>2, <2>1 DEF Complete, Arrived, Given
      <3>2. ~awready /\ ~wready BY <1>1, <1>2 DEF MemoryStep, Turns, WVALID
      <3>3. /\ bursts' = bursts /\ ddr' = ddr
            /\ responses' = responses + 0 - (IF bvalid THEN 1 ELSE 0)
            /\ bvalid => responses > 0
        BY <3>1, <3>2, MemoryRests
      <3>4. responses' = 0
        <4>1. ~bvalid BY <3>1, <3>3
        <4>2. responses' = responses + 0 - 0 BY <3>3, <4>1
        <4> QED BY <3>1, <4>2
      <3>5. \A b : BeatAt(b)' = BeatAt(b) BY <1>4 DEF BeatAt, Word
      <3> QED BY <3>1, <3>3, <3>4, <3>5
    <2>2. First' + Arrived' = First + BLOCK_BEATS
      <3>1. First' = (k + 1) * BLOCK_BEATS /\ First = k * BLOCK_BEATS BY <1>9 DEF First
      <3>2. (k + 1) * BLOCK_BEATS = k * BLOCK_BEATS + BLOCK_BEATS
        <4>1. k \in Nat /\ BLOCK_BEATS \in Nat BY <1>6, <1>7
        <4> HIDE DEF k
        <4> QED BY <4>1
      <3>3. Arrived' = 0 BY <1>3, <1>9 DEF Arrived, Given
      <3>4. k * BLOCK_BEATS \in Nat BY <1>6, <1>7
      <3> QED BY <1>6, <3>1, <3>2, <3>3, <3>4
    <2>3. ASSUME f, NEW b \in Places PROVE b < First + BLOCK_BEATS
      <3>1. k = Blocks - 1 /\ First = k * BLOCK_BEATS BY <1>7, <2>3 DEF First
      <3>2. (Blocks - 1) * BLOCK_BEATS + BLOCK_BEATS = Blocks * BLOCK_BEATS
        BY <1>6
      <3>3. Blocks * BLOCK_BEATS \in Nat BY <1>6
      <3>4. b < Blocks * BLOCK_BEATS BY <3>3 DEF Places
      <3> QED BY <3>1, <3>2, <3>4
    <2>4. writer'.done = f BY <1>9
    <2>5. quiet' /\ writer'.done => \A b \in Places : ddr'[b] = BeatAt(b)'
      BY <1>4, <2>1, <2>3, <2>4
    <2>6. quiet' => \A b \in Places : b < First' + Arrived' => ddr'[b] = BeatAt(b)'
      BY <1>4, <2>1, <2>2
    <2>7. quiet' => /\ bursts' = IF master'.st = "WD_PROC" THEN <<OpenBurst>>' ELSE <<>>
                    /\ responses' = IF master'.st = "WR_WAIT" THEN 1 ELSE 0
      BY <1>3, <1>4, <2>1
    <2> QED BY <2>5, <2>6, <2>7 DEF Complete
  <1>17. Errors'
    <2>1. writer'.error = e BY <1>9
    <2> QED BY <1>1, <1>3, <2>1 DEF Errors
  <1> QED BY <1>11, <1>12, <1>13, <1>14, <1>15, <1>16, <1>17 DEF IInv
-----------------------------------------------------------------------------
LEMMA EdgeKeeps ==
  ASSUME IInv, NEW start \in BOOLEAN, NEW context_valid \in BOOLEAN,
         NEW awready \in BOOLEAN, NEW wready \in BOOLEAN,
         NEW bvalid \in BOOLEAN, NEW bad \in BOOLEAN,
         Edge(start, context_valid, awready, wready, bvalid, bad)
  PROVE  IInv'
  <1>1. /\ StartStep(start) /\ MemoryStep(awready, wready, bvalid)
        /\ MasterStep(awready, wready, bvalid, bad)
        /\ WriterStep(context_valid, wready) /\ soft_reset' = soft_reset
    BY DEF Edge
  <1>2. CASE WriterStart BY <1>1, <1>2, StartKeeps
  <1>3. CASE Accept BY <1>1, <1>3, AcceptKeeps
  <1>4. CASE Issue BY <1>1, <1>4, IssueKeeps
  <1>5. CASE Sending(wready) BY <1>1, <1>5, SendingKeeps
  <1>6. CASE Written BY <1>1, <1>6, WrittenKeeps
  <1>7. CASE Wait(context_valid) BY <1>1, <1>7, WaitKeeps
  <1> QED BY <1>1, <1>2, <1>3, <1>4, <1>5, <1>6, <1>7 DEF WriterStep

\* A reset of the writer and the master; the memory keeps its bursts.
LEMMA ClearedFits ==
  /\ Cleared \in WriterType /\ MasterReset \in MasterType /\ NoBeat \in BeatType
  <1>1. 0 \in Lanes /\ 0 \in Beats /\ 0 \in 0 .. BLOCK_WORDS BY Sizes DEF Beats
  <1>2. NoWord \in WordType BY DEF NoWord, WordType
  <1>3. NoBeat \in BeatType BY <1>2 DEF NoBeat, BeatType
  <1>4. Cleared \in WriterType BY <1>1, <1>3 DEF Cleared, WriterType
  <1>5. MasterReset \in MasterType BY DEF MasterReset, MasterType
  <1> QED BY <1>3, <1>4, <1>5

LEMMA ResetKeeps ==
  ASSUME IInv, NEW awready \in BOOLEAN, NEW wready \in BOOLEAN, NEW bvalid \in BOOLEAN,
         ResetEdge(awready, wready, bvalid)
  PROVE  IInv'
  <1>1. TypeOK /\ MemoryStep(awready, wready, bvalid) BY DEF IInv, ResetEdge
  <1>2. /\ writer' = Cleared /\ master' = MasterReset /\ ctx_start' = FALSE
        /\ wr_error' = FALSE /\ faulted' = FALSE
        /\ soft_reset' = soft_reset /\ block_mem' = block_mem /\ run' = run
        /\ quiet' = quiet
    BY DEF ResetEdge
  <1>3. /\ ~writer'.busy /\ ~writer'.done /\ ~writer'.error /\ ~writer'.wr_start
        /\ ~writer'.full /\ ~writer'.active /\ writer'.beat = 0
    BY <1>2 DEF Cleared
  <1>4. master'.st = "IDLE" /\ ~master'.awvalid /\ ~master'.wvalid
    BY <1>2 DEF MasterReset
  <1>5. TypeOK' BY <1>1, <1>2, MemoryTypes, ClearedFits DEF TypeOK
  <1>6. Turns' BY <1>2, <1>3, <1>4 DEF Turns
  <1>7. Counts' /\ Filled' BY <1>3 DEF Counts, Filled
  <1>8. Progress' BY <1>4 DEF Progress, Asking, Offering, Giving, Closing, Given
  <1>9. Complete' BY <1>2, <1>3 DEF Complete
  <1>10. Errors' BY <1>2, <1>3 DEF Errors
  <1> QED BY <1>5, <1>6, <1>7, <1>8, <1>9, <1>10 DEF IInv

LEMMA NothingMoves ==
  ASSUME IInv, soft_reset' \in BOOLEAN,
         UNCHANGED <<ctx_start, writer, block_mem, master, wr_error, bursts,
                     responses, run, ddr, quiet, faulted>>
  PROVE  IInv'
  <1>1. TypeOK' BY DEF IInv, TypeOK
  <1>2. Turns' BY DEF IInv, Turns
  <1>3. Counts' BY DEF IInv, Counts
  <1>4. First' = First /\ Arrived' = Arrived /\ OpenBurst' = OpenBurst
    BY DEF First, Arrived, Given, OpenBurst
  <1>5. \A b : BeatAt(b)' = BeatAt(b) BY DEF BeatAt, Word
  <1>6. Filled'
    <2>1. Counts /\ Filled BY DEF IInv
    <2> QED BY <2>1, SameBlock
  <1>7. Progress' BY <1>4 DEF IInv, Progress, Asking, Offering, Giving, Closing, Given
  <1>8. Complete' BY <1>4, <1>5 DEF IInv, Complete
  <1>9. Errors' BY DEF IInv, Errors
  <1> QED BY <1>1, <1>2, <1>3, <1>6, <1>7, <1>8, <1>9 DEF IInv

LEMMA InitInv == Init => IInv
  <1> SUFFICES ASSUME Init PROVE IInv OBVIOUS
  <1>1. writer = Cleared /\ master = MasterReset /\ ctx_start = FALSE BY DEF Init
  <1>2. /\ ~writer.busy /\ ~writer.done /\ ~writer.error /\ ~writer.wr_start
        /\ ~writer.full /\ ~writer.active /\ writer.beat = 0
    BY <1>1 DEF Cleared
  <1>3. master.st = "IDLE" /\ ~master.awvalid /\ ~master.wvalid BY <1>1 DEF MasterReset
  <1>4. TypeOK BY <1>1, ClearedFits DEF Init, TypeOK, Beats, Places
  <1>5. Turns BY <1>1, <1>2, <1>3 DEF Turns
  <1>6. Counts /\ Filled BY <1>2 DEF Counts, Filled
  <1>7. Progress BY <1>3 DEF Progress, Asking, Offering, Giving, Closing, Given
  <1>8. Complete BY <1>1, <1>2 DEF Complete
  <1>9. Errors BY <1>2 DEF Init, Errors
  <1> QED BY <1>4, <1>5, <1>6, <1>7, <1>8, <1>9 DEF IInv

LEMMA NextKeeps == IInv /\ [Next]_vars => IInv'
  <1> SUFFICES ASSUME IInv, [Next]_vars PROVE IInv' OBVIOUS
  <1>1. TypeOK BY DEF IInv
  <1>2. CASE \E start, context_valid, awready, wready, bvalid, bad \in BOOLEAN :
               Edge(start, context_valid, awready, wready, bvalid, bad)
    BY <1>2, EdgeKeeps
  <1>3. CASE \E awready, wready, bvalid \in BOOLEAN : ResetEdge(awready, wready, bvalid)
    BY <1>3, ResetKeeps
  <1>4. CASE AssertReset BY <1>4, NothingMoves DEF AssertReset
  <1>5. CASE ReleaseReset BY <1>5, NothingMoves DEF ReleaseReset
  <1>6. CASE UNCHANGED vars
    <2>1. soft_reset' \in BOOLEAN BY <1>1, <1>6 DEF TypeOK, vars
    <2> QED BY <1>6, <2>1, NothingMoves DEF vars
  <1> QED BY <1>2, <1>3, <1>4, <1>5, <1>6 DEF Next

LEMMA Invariance == Spec => []IInv
  BY InitInv, NextKeeps, PTL DEF Spec
-----------------------------------------------------------------------------
(***************************************************************************)
(* The results.                                                            *)
(***************************************************************************)
\* A run that ends without an error has put every word at its row-major place
\* in DDR, and every write response has come: for every size of beat, row,
\* block, run and burst.
THEOREM ContextArrives == Spec => []CleanContextIsComplete
  <1>1. IInv => CleanContextIsComplete
    <2> SUFFICES ASSUME IInv, writer.done, ~writer.error, quiet
                 PROVE  /\ \A b \in DOMAIN ddr :
                             ddr[b] = [l \in Lanes |-> Word(b * BEAT_WORDS + l)]
                        /\ bursts = <<>> /\ responses = 0
      BY DEF CleanContextIsComplete
    <2>1. TypeOK /\ Turns /\ Complete BY DEF IInv
    <2>2. master.st = "IDLE" BY <2>1 DEF Turns
    <2>3. /\ bursts = <<>> /\ responses = 0 /\ \A b \in Places : ddr[b] = BeatAt(b)
      BY <2>1, <2>2 DEF Complete
    <2>4. DOMAIN ddr = Places BY <2>1 DEF TypeOK
    <2> QED BY <2>3, <2>4 DEF BeatAt, B
  <1> QED BY <1>1, Invariance, PTL

\* The writer's checks on group, block, lane and the end of the run never fire
\* on the stream the core sends, so an error of the writer is a write response
\* that was not OKAY.
THEOREM WriterAccusesOnlyMemory == Spec => []NoErrorWithoutFault
  <1>1. IInv => NoErrorWithoutFault BY DEF IInv, Errors, NoErrorWithoutFault
  <1> QED BY <1>1, Invariance, PTL

-----------------------------------------------------------------------------
(***************************************************************************)
(* Resets that leave no burst behind.                                      *)
(***************************************************************************)
\* The reset is asserted while the memory has no open burst and is not offered
\* the address of one.  It would take such an address at the next edge.
ResetBetweenBursts == AssertReset => bursts = <<>> /\ ~master.awvalid

\* Outside a run the memory has nothing to do, and during a reset it is given
\* nothing.
Undisturbed ==
    /\ quiet
    /\ ~soft_reset /\ ~ctx_start /\ ~writer.busy /\ ~writer.done =>
           bursts = <<>> /\ responses = 0
    /\ soft_reset => bursts = <<>> /\ ~master.awvalid

\* A writer without work leaves the memory alone.
LEMMA UndisturbedIdle ==
  ASSUME IInv, Undisturbed, ~soft_reset, ~writer.busy, ~ctx_start,
         NEW start \in BOOLEAN, NEW awready \in BOOLEAN, NEW wready \in BOOLEAN,
         NEW bvalid \in BOOLEAN, NEW bad \in BOOLEAN, StartStep(start),
         MemoryStep(awready, wready, bvalid), MasterStep(awready, wready, bvalid, bad)
  PROVE  quiet' /\ bursts' = <<>> /\ responses' = 0
  <1>1. TypeOK /\ Turns /\ Complete BY DEF IInv
  <1>2. master.st = "IDLE" /\ ~writer.wr_start BY <1>1 DEF Turns
  <1>3. bursts = <<>> /\ responses = 0 BY <1>2, <1>1 DEF Undisturbed, Complete
  <1>4. bursts' = <<>> /\ responses' = 0 BY <1>1, <1>2, <1>3, Still
  <1>5. quiet' BY <1>3 DEF StartStep, Undisturbed
  <1> QED BY <1>4, <1>5

\* An edge of a run that is not reset.
LEMMA UndisturbedEdge ==
  ASSUME IInv, IInv', Undisturbed,
         NEW start \in BOOLEAN, NEW context_valid \in BOOLEAN, NEW awready \in BOOLEAN,
         NEW wready \in BOOLEAN, NEW bvalid \in BOOLEAN, NEW bad \in BOOLEAN,
         Edge(start, context_valid, awready, wready, bvalid, bad)
  PROVE  Undisturbed'
  <1>1. /\ ~soft_reset /\ soft_reset' = soft_reset /\ StartStep(start)
        /\ MemoryStep(awready, wready, bvalid) /\ MasterStep(awready, wready, bvalid, bad)
        /\ WriterStep(context_valid, wready) /\ TypeOK
    BY DEF Edge, IInv
  <1>2. CASE ~writer.busy /\ ~ctx_start
    <2>1. quiet' /\ bursts' = <<>> /\ responses' = 0
      BY <1>1, <1>2, UndisturbedIdle
    <2> QED BY <1>1, <2>1 DEF Undisturbed
  <1>3. CASE writer.busy \/ ctx_start
    <2>1. quiet' = quiet BY <1>1, <1>3, Starts
    <2>2. writer'.busy \/ writer'.done
      <3>1. /\ writer \in WriterType /\ Base \in WriterType /\ Base.busy = writer.busy
        <4> DEFINE e == writer.error \/ wr_error
        <4>1. writer \in WriterType /\ e \in BOOLEAN BY <1>1 DEF TypeOK
        <4>2. Base = [busy |-> writer.busy, done |-> FALSE, error |-> e, wr_start |-> FALSE,
                      pack |-> writer.pack, lane |-> writer.lane, beat |-> writer.beat,
                      words |-> writer.words, full |-> writer.full, active |-> writer.active,
                      final |-> writer.final, blocks |-> writer.blocks,
                      accepted |-> writer.accepted]
          BY <1>1, BaseFields
        <4> HIDE DEF e
        <4> QED BY <4>1, <4>2 DEF WriterType
      <3>2. CASE WriterStart
        BY <3>2 DEF WriterStart, Cleared
      <3>3. CASE Written
        <4>1. writer.busy /\ writer.final \in BOOLEAN BY <3>1, <3>3 DEF Written, WriterType
        <4>2. writer'.busy = ~writer.final /\ writer'.done = writer.final
          BY <3>1, <3>3 DEF Written, WriterType
        <4> QED BY <4>1, <4>2
      <3>4. CASE Accept \/ Issue \/ Sending(wready) \/ Wait(context_valid)
        <4>1. writer.busy BY <1>3, <3>4 DEF Accept, Issue, Sending, Wait
        <4>2. writer'.busy = Base.busy
          BY <3>1, <3>4 DEF Accept, Issue, Sending, Wait, WriterType
        <4> QED BY <3>1, <4>1, <4>2
      <3> QED BY <1>1, <3>2, <3>3, <3>4 DEF WriterStep
    <2> QED BY <1>1, <2>1, <2>2 DEF Undisturbed
  <1> QED BY <1>2, <1>3

\* During the reset the memory gives the responses that are due.
LEMMA UndisturbedReset ==
  ASSUME IInv, Undisturbed, NEW awready \in BOOLEAN, NEW wready \in BOOLEAN,
         NEW bvalid \in BOOLEAN, ResetEdge(awready, wready, bvalid)
  PROVE  Undisturbed'
  <1>1. soft_reset /\ soft_reset' = soft_reset /\ MemoryStep(awready, wready, bvalid)
    BY DEF ResetEdge
  <1>2. bursts = <<>> /\ ~awready /\ ~wready BY <1>1 DEF Undisturbed, MemoryStep
  <1>3. bursts' = <<>> BY <1>1, <1>2, MemoryRests
  <1>4. ~master'.awvalid /\ quiet' = quiet BY DEF ResetEdge, MasterReset
  <1> QED BY <1>1, <1>3, <1>4 DEF Undisturbed

LEMMA UndisturbedStep ==
  ASSUME IInv, IInv', Undisturbed, [Next]_vars, [ResetBetweenBursts]_vars
  PROVE  Undisturbed'
  <1>1. CASE \E start, context_valid, awready, wready, bvalid, bad \in BOOLEAN :
               Edge(start, context_valid, awready, wready, bvalid, bad)
    BY <1>1, UndisturbedEdge
  <1>2. CASE \E awready, wready, bvalid \in BOOLEAN : ResetEdge(awready, wready, bvalid)
    BY <1>2, UndisturbedReset
  <1>3. CASE AssertReset
    <2>1. soft_reset' /\ UNCHANGED <<master, bursts, quiet>> BY <1>3 DEF AssertReset
    <2>2. bursts = <<>> /\ ~master.awvalid
      <3>1. vars' # vars BY <1>3 DEF AssertReset, vars
      <3> QED BY <1>3, <3>1 DEF ResetBetweenBursts
    <2> QED BY <2>1, <2>2 DEF Undisturbed
  <1>4. CASE ReleaseReset
    BY <1>4 DEF ReleaseReset, Undisturbed
  <1>5. CASE UNCHANGED vars
    BY <1>5 DEF vars, Undisturbed
  <1> QED BY <1>1, <1>2, <1>3, <1>4, <1>5 DEF Next

\* When every reset of the engine comes between two bursts, no run ever finds a
\* burst open, so that a run without an error is complete whatever was reset
\* before it: the master's lack of an end of burst (aq_axi_master_fixed.v)
\* matters for a reset in the middle of one and for no other.
THEOREM ResetsAreHarmless ==
    Spec /\ [][ResetBetweenBursts]_vars => [](quiet /\ CleanContextIsComplete)
  <1>1. Init => Undisturbed BY DEF Init, Undisturbed
  <1>2. IInv /\ IInv' /\ Undisturbed /\ [Next]_vars /\ [ResetBetweenBursts]_vars => Undisturbed'
    BY UndisturbedStep
  <1>3. Undisturbed => quiet BY DEF Undisturbed
  <1> QED BY <1>1, <1>2, <1>3, Invariance, ContextArrives, PTL DEF Spec
-----------------------------------------------------------------------------
(***************************************************************************)
(* The writer as a stage of the engine.                                    *)
(***************************************************************************)
\* What an edge does to the flags the engine's controller reads: v is a check
\* that fires, f the end of the run.
LEMMA FlagsMove ==
  ASSUME TypeOK, NEW context_valid \in BOOLEAN, NEW wready \in BOOLEAN,
         WriterStep(context_valid, wready), ~ctx_start
  PROVE  \E v, f \in BOOLEAN :
           /\ v \/ f => writer.busy
           /\ writer'.busy = (writer.busy /\ ~f)
           /\ writer'.done = (writer.busy /\ f)
           /\ writer'.error = (writer.error \/ wr_error \/ v)
  <1> DEFINE e == writer.error \/ wr_error
  <1>1. writer \in WriterType /\ (e \in BOOLEAN) BY DEF TypeOK, WriterType
  <1>2. Base = [busy |-> writer.busy, done |-> FALSE, error |-> e,
                 wr_start |-> FALSE, pack |-> writer.pack, lane |-> writer.lane,
                 beat |-> writer.beat, words |-> writer.words, full |-> writer.full,
                 active |-> writer.active, final |-> writer.final,
                 blocks |-> writer.blocks, accepted |-> writer.accepted]
    BY BaseFields
  <1>3. Base.busy = writer.busy /\ Base.done = FALSE /\ Base.error = e
    <2> HIDE DEF e
    <2> QED BY <1>2
  <1>4. writer.busy \in BOOLEAN /\ writer.final \in BOOLEAN BY <1>1 DEF WriterType
  <1>5. ASSUME writer'.busy = writer.busy, writer'.done = FALSE, writer'.error = e
        PROVE  \E v, f \in BOOLEAN :
                 /\ v \/ f => writer.busy
                 /\ writer'.busy = (writer.busy /\ ~f)
                 /\ writer'.done = (writer.busy /\ f)
                 /\ writer'.error = (e \/ v)
    <2>1. writer.busy = (writer.busy /\ ~FALSE) /\ FALSE = (writer.busy /\ FALSE)
          /\ e = (e \/ FALSE)
      BY <1>1, <1>4
    <2> HIDE DEF e
    <2>2. /\ FALSE \/ FALSE => writer.busy
          /\ writer'.busy = (writer.busy /\ ~FALSE)
          /\ writer'.done = (writer.busy /\ FALSE)
          /\ writer'.error = (e \/ FALSE)
      BY <1>5, <2>1
    <2>3. FALSE \in BOOLEAN OBVIOUS
    <2> QED BY <2>2, <2>3
  <1>6. CASE Accept
    <2> DEFINE v == Misplaced(offered)
               w == offered
    <2>1. /\ writer' = [Base EXCEPT
                 !.accepted = @ + 1, !.words = @ + 1, !.pack[lane_of(w)] = Word(w),
                 !.lane = (lane_of(w) + 1) % BEAT_WORDS,
                 !.full = (writer.words = BLOCK_WORDS - 1),
                 !.final = global_last, !.error = @ \/ v]
          /\ writer.busy
      BY <1>6 DEF Accept, context_ready
    <2>2. v \in BOOLEAN BY DEF Misplaced
    <2> HIDE DEF v, w, e
    <2>3. writer'.busy = Base.busy /\ writer'.done = Base.done
          /\ writer'.error = (Base.error \/ v)
      BY <1>2, <2>1
    <2>4. /\ v \/ FALSE => writer.busy
          /\ writer'.busy = (writer.busy /\ ~FALSE)
          /\ writer'.done = (writer.busy /\ FALSE)
          /\ writer'.error = (e \/ v)
      BY <1>3, <1>4, <2>1, <2>3
    <2>5. FALSE \in BOOLEAN OBVIOUS
    <2> QED BY <2>2, <2>4, <2>5 DEF e
  <1>7. CASE Issue
    <2>1. writer' = [Base EXCEPT !.beat = 0, !.active = TRUE, !.wr_start = TRUE]
      BY <1>7 DEF Issue
    <2>2. writer'.busy = Base.busy /\ writer'.done = Base.done /\ writer'.error = Base.error
      <3> HIDE DEF e
      <3> QED BY <1>2, <2>1
    <2> QED BY <1>3, <1>5, <2>2
  <1>8. CASE Sending(wready)
    <2> DEFINE n == NextBeat(wready)
    <2>1. writer' = [Base EXCEPT !.beat = n] BY <1>8 DEF Sending
    <2>2. writer'.busy = Base.busy /\ writer'.done = Base.done /\ writer'.error = Base.error
      <3> HIDE DEF e, n
      <3> QED BY <1>2, <2>1
    <2> QED BY <1>3, <1>5, <2>2
  <1>9. CASE Written
    <2> DEFINE v == writer.final /\ writer.accepted # TOTAL_WORDS
               f == writer.final
    <2>1. writer.busy /\ writer' =
              [Base EXCEPT !.active = FALSE, !.blocks = @ + 1, !.full = FALSE,
                     !.words = 0, !.beat = 0, !.pack = NoBeat, !.lane = 0,
                     !.busy = ~f, !.done = f, !.error = @ \/ v]
      BY <1>9 DEF Written
    <2>2. (v \in BOOLEAN) /\ (f \in BOOLEAN) BY <1>4
    <2> HIDE DEF v, f, e
    <2>3. writer'.busy = ~f /\ writer'.done = f /\ writer'.error = (Base.error \/ v)
      BY <1>2, <2>1
    <2>4. writer.busy = TRUE BY <1>4, <2>1
    <2>5. ~f = (TRUE /\ ~f) /\ f = (TRUE /\ f) BY <2>2
    <2>6. /\ v \/ f => writer.busy
          /\ writer'.busy = (writer.busy /\ ~f)
          /\ writer'.done = (writer.busy /\ f)
          /\ writer'.error = (e \/ v)
      BY <1>3, <2>3, <2>4, <2>5
    <2> QED BY <2>2, <2>6 DEF e
  <1>10. CASE Wait(context_valid)
    <2>1. writer' = Base BY <1>10 DEF Wait
    <2> QED BY <1>3, <1>5, <2>1
  <1> QED BY <1>6, <1>7, <1>8, <1>9, <1>10 DEF WriterStep, WriterStart

\* One edge of the writer is one of the stage the engine's controller starts.
LEMMA WriterEdgeIsStage ==
  ASSUME TypeOK, NEW context_valid \in BOOLEAN, NEW wready \in BOOLEAN,
         WriterStep(context_valid, wready)
  PROVE  \E fault, finish \in SUBSET {"ctx"} :
           /\ fault \cup finish # {} => Engine!StageOf("ctx")
           /\ Engine!WriterStep(fault, finish)
  <1>1. Engine!StageOf("ctx") <=> writer.busy BY DEF Engine!StageOf
  <1>2. \A fault, finish \in SUBSET {"ctx"} :
            Engine!WriterStep(fault, finish) <=>
                [busy |-> writer'.busy, done |-> writer'.done, error |-> writer'.error] =
                [busy  |-> ctx_start \/ (writer.busy /\ "ctx" \notin finish),
                 done  |-> ~ctx_start /\ writer.busy /\ "ctx" \in finish,
                 error |-> ~ctx_start /\ (writer.error \/ wr_error \/ "ctx" \in fault)]
    BY DEF Engine!WriterStep
  <1>3. writer.busy \in BOOLEAN /\ ctx_start \in BOOLEAN BY DEF TypeOK, WriterType
  <1>4. CASE ctx_start
    <2>1. WriterStart
      BY <1>4 DEF WriterStep, Accept, Issue, Sending, Written, Wait
    <2>2. writer' = [busy |-> TRUE, done |-> FALSE, error |-> FALSE, wr_start |-> FALSE,
            pack |-> NoBeat, lane |-> 0, beat |-> 0, words |-> 0, full |-> FALSE,
            active |-> FALSE, final |-> FALSE, blocks |-> 0, accepted |-> 0]
      BY <2>1 DEF WriterStart, Cleared
    <2>3. writer'.busy = TRUE /\ writer'.done = FALSE /\ writer'.error = FALSE BY <2>2
    <2> DEFINE b0 == ctx_start \/ (writer.busy /\ "ctx" \notin {})
               d0 == ~ctx_start /\ writer.busy /\ "ctx" \in {}
               e0 == ~ctx_start /\ (writer.error \/ wr_error \/ "ctx" \in {})
    <2>4. b0 = TRUE /\ d0 = FALSE /\ e0 = FALSE BY <1>4
    <2>5. Engine!WriterStep({}, {}) <=>
              [busy |-> writer'.busy, done |-> writer'.done, error |-> writer'.error] =
              [busy |-> b0, done |-> d0, error |-> e0]
      BY <1>2
    <2> HIDE DEF b0, d0, e0
    <2>6. Engine!WriterStep({}, {}) BY <2>3, <2>4, <2>5
    <2> QED BY <2>6
  <1>5. CASE ~ctx_start
    <2>1. PICK v \in BOOLEAN, f \in BOOLEAN :
           /\ v \/ f => writer.busy
           /\ writer'.busy = (writer.busy /\ ~f)
           /\ writer'.done = (writer.busy /\ f)
           /\ writer'.error = (writer.error \/ wr_error \/ v)
      BY <1>5, FlagsMove
    <2> DEFINE fault == IF v THEN {"ctx"} ELSE {}
               finish == IF f THEN {"ctx"} ELSE {}
    <2>2. /\ fault \in SUBSET {"ctx"} /\ finish \in SUBSET {"ctx"}
          /\ ("ctx" \in fault <=> v) /\ ("ctx" \in finish <=> f)
          /\ fault \cup finish # {} => v \/ f
      OBVIOUS
    <2> HIDE DEF fault, finish
    <2> DEFINE b0 == ctx_start \/ (writer.busy /\ "ctx" \notin finish)
               d0 == ~ctx_start /\ writer.busy /\ "ctx" \in finish
               e0 == ~ctx_start /\ (writer.error \/ wr_error \/ "ctx" \in fault)
    <2>3. (writer'.busy = b0) /\ (writer'.done = d0) /\ (writer'.error = e0)
      BY <1>5, <2>1, <2>2
    <2>4. Engine!WriterStep(fault, finish) <=>
              [busy |-> writer'.busy, done |-> writer'.done, error |-> writer'.error] =
              [busy |-> b0, done |-> d0, error |-> e0]
      BY <1>2, <2>2
    <2> HIDE DEF b0, d0, e0
    <2>5. Engine!WriterStep(fault, finish) BY <2>3, <2>4
    <2> QED BY <1>1, <2>1, <2>2, <2>5
  <1> QED BY <1>3, <1>4, <1>5

\* The writer, with every register of it, does to the engine's controller what
\* BoardEngine takes a stage to do: the writer that BoardEngine's theorems assume
\* (fpt_context_ddr_writer.sv under fpt_attention_board_engine.sv) is the one the
\* board has, but for the edges of a soft reset.
THEOREM WriterKeepsItsContract == Spec => WriterIsAStage
  <1> DEFINE AsStage == \E fault, finish \in SUBSET {"ctx"} :
                 /\ fault \cup finish # {} => Engine!StageOf("ctx")
                 /\ Engine!WriterStep(fault, finish)
  <1>1. IInv /\ [Next]_vars => [soft_reset \/ soft_reset' \/ AsStage]_vars
    <2> SUFFICES ASSUME IInv, Next, ~soft_reset, ~soft_reset' PROVE AsStage
      OBVIOUS
    <2>1. CASE \E start, context_valid, awready, wready, bvalid, bad \in BOOLEAN :
                 Edge(start, context_valid, awready, wready, bvalid, bad)
      <3>1. PICK context_valid \in BOOLEAN, wready \in BOOLEAN :
              WriterStep(context_valid, wready)
        BY <2>1 DEF Edge
      <3>2. TypeOK BY DEF IInv
      <3> QED BY <3>1, <3>2, WriterEdgeIsStage
    <2>2. ~(\E awready, wready, bvalid \in BOOLEAN : ResetEdge(awready, wready, bvalid))
      BY DEF ResetEdge
    <2>3. ~AssertReset /\ ~ReleaseReset BY DEF AssertReset, ReleaseReset
    <2> QED BY <2>1, <2>2, <2>3 DEF Next
  <1> QED BY <1>1, Invariance, PTL DEF Spec, WriterIsAStage
-----------------------------------------------------------------------------
\* The keys before key c that a row may see, and their products with element
\* col of V.
Seen(row, c) == IF Causal /\ row + 1 < c THEN row + 1 ELSE c
Terms(group, row, col, c) ==
    [i \in 1 .. Seen(row, c) |-> <<i - 1, (group * SEQ_LEN + i - 1) * HEAD_DIM + col>>]
Sum(group, row, col, c, m) ==
    IF c = 0 THEN Zero
    ELSE [terms |-> Terms(group, row, col, c), relative |-> m, over |-> None]

Column(c, l) == c * V_LANES + l
Partial(t, r, c, l, k) ==
    Sum(t.group, t.row_base + r, Column(c, l), t.col_base + k, t.number)
Before(t, r, c, l) ==
    Sum(t.group, t.row_base + r, Column(c, l), t.col_base, t.number - 1)
Done(t, r, c, l) == Partial(t, r, c, l, TILE)
Final(t, r, c, l) == Attention(t.group, t.row_base + r, Column(c, l), t.number)
Address(t, k, c, l) == (t.group * SEQ_LEN + t.col_base + k) * HEAD_DIM + Column(c, l)

Fetching == state \in {"V_REQ", "V_RSP"}
Updating == state \in {"UPDATE_START", "UPDATE_WAIT"}
Dividing == state \in {"DIV_START", "DIV_WAIT"}
Normalizing == state \in {"NORM_START", "NORM_WAIT"}
Emitting == state = "CONTEXT_OUT"
Working == state \in {"UPDATE_WAIT", "NORM_WAIT"}

PeFields == {"state", "normalize", "tile", "recip", "old_o", "values", "send", "recv",
             "a_valid", "b_valid", "add", "result"}
DivFields == {"busy", "count", "done", "quotient"}
BackendShapes ==
    /\ state \in {"IDLE", "V_REQ", "V_RSP", "UPDATE_START", "UPDATE_WAIT", "DIV_START",
                  "DIV_WAIT", "NORM_START", "NORM_WAIT", "CONTEXT_OUT"}
    /\ feature_chunk \in Chunks /\ key_index \in Keys
    /\ emit_index \in 0 .. CONTEXT_ITEMS - 1
    /\ given \in 0 .. TOTAL_TILES /\ emitted \in Nat
    /\ v_tile_reg = [k \in Keys |-> v_tile_reg[k]]
    /\ o_state = [r \in Rows |-> [l \in VLanes |-> [c \in Chunks |-> o_state[r][l][c]]]]
UnitShapes ==
    /\ rsp_valid \in BOOLEAN
    /\ pe = [r \in Rows |-> pe[r]] /\ div = [r \in Rows |-> div[r]]
    /\ \A r \in Rows : DOMAIN pe[r] = PeFields /\ DOMAIN div[r] = DivFields

\* The tile in work, and how many words were emitted before it.
RowBlock(n) == n \div RowTiles
Order ==
    /\ given > 0 => tile_reg = Tile(given - 1)
    /\ state # "IDLE" => given > 0
    /\ Dividing \/ Normalizing \/ Emitting => tile_reg.row_tile_last
    /\ state = "IDLE" => emitted = RowBlock(given) * CONTEXT_ITEMS
    /\ state # "IDLE" =>
           emitted = RowBlock(given - 1) * CONTEXT_ITEMS + (IF Emitting THEN emit_index ELSE 0)

ValuesFetched ==
    \A k \in Keys : Updating \/ (Fetching /\ k < key_index) =>
        \A l \in VLanes : v_tile_reg[k][l] = Address(tile_reg, k, feature_chunk, l)
Fetched ==
    /\ rsp_valid <=> state = "V_RSP"
    /\ rsp_valid => \A l \in VLanes : rsp_data[l] = Address(tile_reg, key_index, feature_chunk, l)
    /\ ValuesFetched

Held ==
    \A r \in Rows, l \in VLanes, c \in Chunks :
        LET o == o_state[r][l][c]
        IN  /\ state = "IDLE" /\ given % RowTiles # 0 => o = Done(tile_reg, r, c, l)
            /\ (Fetching \/ Updating) /\ c < feature_chunk => o = Done(tile_reg, r, c, l)
            /\ (Fetching \/ Updating) /\ c >= feature_chunk /\ tile_reg.col_base # 0 =>
                   o = Before(tile_reg, r, c, l)
            /\ Dividing => o = Done(tile_reg, r, c, l)
            /\ Normalizing /\ c < feature_chunk => o = Final(tile_reg, r, c, l)
            /\ Normalizing /\ c >= feature_chunk => o = Done(tile_reg, r, c, l)
            /\ Emitting => o = Final(tile_reg, r, c, l)

Summing(p, r) ==
    /\ ~p.normalize /\ p.tile = tile_reg
    /\ \A l \in VLanes : p.old_o[l] = Before(tile_reg, r, feature_chunk, l)
    /\ \A k \in Keys, l \in VLanes : p.values[k][l] = Address(tile_reg, k, feature_chunk, l)
    /\ p.state \in {"ADD_SEND", "ADD_WAIT"} =>
           /\ p.add \in 1 .. TILE
           /\ p.result = [l \in VLanes |-> Partial(tile_reg, r, feature_chunk, l, p.add - 1)]
    /\ p.state = "OUTPUT" =>
           p.result = [l \in VLanes |-> Done(tile_reg, r, feature_chunk, l)]
Scaling(p, r) ==
    /\ p.normalize /\ p.recip = tile_reg.number
    /\ \A l \in VLanes : p.old_o[l] = Done(tile_reg, r, feature_chunk, l)
    /\ p.state \in {"MUL_STREAM", "OUTPUT"}
    /\ p.state = "OUTPUT" =>
           p.result = [l \in VLanes |-> Final(tile_reg, r, feature_chunk, l)]
Elements ==
    \A r \in Rows :
        /\ pe[r].state \in {"IDLE", "MUL_STREAM", "ADD_SEND", "ADD_WAIT", "OUTPUT"}
        /\ pe[r].state = "IDLE" <=> ~Working
        /\ state = "UPDATE_WAIT" => Summing(pe[r], r)
        /\ state = "NORM_WAIT" => Scaling(pe[r], r)

Dividers ==
    /\ state # "DIV_WAIT" => \A r \in Rows : ~div[r].busy
    /\ state = "DIV_WAIT" =>
           \/ \A r \in Rows : /\ div[r].busy /\ ~div[r].done
                              /\ \A q \in Rows : div[q].count = div[r].count
           \/ \A r \in Rows : ~div[r].busy /\ div[r].done /\ div[r].quotient = tile_reg.number
    /\ Normalizing => \A r \in Rows : row_recip[r] = tile_reg.number

FusionInv == BackendShapes /\ UnitShapes /\ Order /\ Fetched /\ Held /\ Elements /\ Dividers
-----------------------------------------------------------------------------
(***************************************************************************)
(* Sizes of tiles, rows and runs.                                          *)
(***************************************************************************)
LEMMA FusionSizes ==
  /\ TILE \in Nat \ {0} /\ V_LANES \in Nat \ {0} /\ SEQ_LEN \in Nat \ {0}
  /\ HEAD_DIM \in Nat \ {0} /\ Q_HEADS \in Nat \ {0} /\ GQA_GROUPS \in Nat \ {0}
  /\ RowTiles \in Nat \ {0} /\ SEQ_LEN = RowTiles * TILE
  /\ FEATURE_CHUNKS \in Nat \ {0} /\ HEAD_DIM = FEATURE_CHUNKS * V_LANES
  /\ CONTEXT_ITEMS \in Nat \ {0} /\ CONTEXT_ITEMS = TILE * HEAD_DIM
  /\ Rows = 0 .. TILE - 1 /\ Keys = 0 .. TILE - 1 /\ VLanes = 0 .. V_LANES - 1
  /\ Chunks = 0 .. FEATURE_CHUNKS - 1 /\ Causal \in BOOLEAN
  <1>1. /\ TILE \in Nat \ {0} /\ V_LANES \in Nat \ {0} /\ SEQ_LEN \in Nat \ {0}
        /\ HEAD_DIM \in Nat \ {0} /\ Q_HEADS \in Nat \ {0} /\ GQA_GROUPS \in Nat \ {0}
        /\ HEAD_DIM % V_LANES = 0 /\ SEQ_LEN % TILE = 0 /\ Causal \in BOOLEAN
    BY FusionAssumption
  <1>2. ASSUME NEW a \in Nat \ {0}, NEW t \in Nat \ {0}, a % t = 0
        PROVE  a \div t \in Nat \ {0} /\ a = (a \div t) * t
    <2> DEFINE q == a \div t
    <2>1. q \in Nat /\ a = q * t + 0 BY <1>2, Division
    <2> HIDE DEF q
    <2>2. a = q * t /\ q # 0 BY <2>1
    <2> QED BY <2>1, <2>2 DEF q
  <1>3. RowTiles \in Nat \ {0} /\ SEQ_LEN = RowTiles * TILE BY <1>1, <1>2 DEF RowTiles
  <1>4. FEATURE_CHUNKS \in Nat \ {0} /\ HEAD_DIM = FEATURE_CHUNKS * V_LANES
    BY <1>1, <1>2 DEF FEATURE_CHUNKS
  <1>5. CONTEXT_ITEMS \in Nat \ {0} /\ CONTEXT_ITEMS = TILE * HEAD_DIM
    BY <1>1 DEF CONTEXT_ITEMS
  <1> QED BY <1>1, <1>3, <1>4, <1>5 DEF Rows, Keys, VLanes, Chunks

\* Dividing twice is dividing by the product.
LEMMA QuotientTwice ==
  ASSUME NEW a \in Nat, NEW b \in Nat \ {0}, NEW c \in Nat \ {0}
  PROVE  (a \div b) \div c = a \div (b * c)
  <1> DEFINE q == a \div b
             r == a % b
             p == q \div c
             s == q % c
             d == b * c
  <1>1. q \in Nat /\ r \in 0 .. b - 1 /\ a = q * b + r BY Division
  <1>2. p \in Nat /\ s \in 0 .. c - 1 /\ q = p * c + s BY <1>1, Division
  <1> HIDE DEF q, r, p, s
  <1>3. d \in Nat \ {0} BY DEF d
  <1>4. s * b + r \in 0 .. d - 1
    <2>1. s * b + b <= c * b
      <3>1. s + 1 <= c /\ s + 1 \in Nat BY <1>2
      <3>2. (s + 1) * b <= c * b BY <3>1
      <3>3. (s + 1) * b = s * b + b BY <1>2
      <3> QED BY <3>2, <3>3
    <2>2. s * b \in Nat BY <1>2
    <2>3. c * b = d BY DEF d
    <2> QED BY <1>1, <1>3, <2>1, <2>2, <2>3
  <1>5. a = p * d + (s * b + r)
    <2>1. (p * c + s) * b = (p * c) * b + s * b
      <3>1. p * c \in Nat /\ s \in Nat BY <1>2
      <3> QED BY <3>1
    <2>2. (p * c) * b = p * (b * c) BY <1>2
    <2>3. (p * c) * b \in Nat /\ s * b \in Nat BY <1>2
    <2> QED BY <1>1, <1>2, <2>1, <2>2, <2>3 DEF d
  <1> HIDE DEF d
  <1>6. (p * d + (s * b + r)) \div d = p BY <1>2, <1>3, <1>4, QuotientOf
  <1>7. a \div d = p BY <1>5, <1>6
  <1> QED BY <1>7 DEF p, q, d

\* The next number of a place system of base t.
LEMMA NextQuotient ==
  ASSUME NEW n \in Nat, NEW t \in Nat \ {0}
  PROVE  /\ n % t # t - 1 => (n + 1) \div t = n \div t /\ (n + 1) % t = (n % t) + 1
         /\ n % t = t - 1 => (n + 1) \div t = (n \div t) + 1 /\ (n + 1) % t = 0
  <1> DEFINE q == n \div t
             r == n % t
  <1>1. q \in Nat /\ r \in 0 .. t - 1 /\ n = q * t + r BY Division
  <1> HIDE DEF q, r
  <1>2. q * t \in Nat BY <1>1
  <1>3. ASSUME r # t - 1 PROVE (n + 1) \div t = q /\ (n + 1) % t = r + 1
    <2> DEFINE s == r + 1
    <2>1. s \in 0 .. t - 1 /\ n + 1 = q * t + s BY <1>1, <1>2, <1>3
    <2> HIDE DEF s
    <2>2. (q * t + s) \div t = q /\ (q * t + s) % t = s BY <1>1, <2>1, QuotientOf
    <2> QED BY <2>1, <2>2 DEF s
  <1>4. ASSUME r = t - 1 PROVE (n + 1) \div t = q + 1 /\ (n + 1) % t = 0
    <2> DEFINE p == q + 1
    <2>1. p \in Nat /\ 0 \in 0 .. t - 1 BY <1>1
    <2>2. n + 1 = p * t + 0
      <3>1. (q + 1) * t = q * t + t BY <1>1
      <3> QED BY <1>1, <1>2, <1>4, <3>1
    <2> HIDE DEF p
    <2>3. (p * t + 0) \div t = p /\ (p * t + 0) % t = 0 BY <2>1, QuotientOf
    <2> QED BY <2>2, <2>3 DEF p
  <1> QED BY <1>3, <1>4 DEF q, r

\* A common factor does not matter for being a multiple.
LEMMA MultipleScaled ==
  ASSUME NEW x \in Nat, NEW m \in Nat \ {0}, NEW c \in Nat \ {0}
  PROVE  (x * c) % (m * c) = 0 <=> x % m = 0
  <1> DEFINE q == x \div m
             r == x % m
             d == m * c
             s == r * c
  <1>1. q \in Nat /\ r \in 0 .. m - 1 /\ x = q * m + r BY Division
  <1> HIDE DEF q, r
  <1>2. d \in Nat \ {0} BY DEF d
  <1>3. s \in 0 .. d - 1
    <2>1. r \in Nat /\ r + 1 <= m BY <1>1
    <2>2. (r + 1) * c <= m * c BY <2>1
    <2>3. (r + 1) * c = r * c + c /\ r * c \in Nat BY <2>1
    <2> QED BY <2>2, <2>3 DEF s, d
  <1>4. x * c = q * d + s
    <2>1. q * m \in Nat /\ r \in Nat BY <1>1
    <2>2. (q * m + r) * c = (q * m) * c + r * c BY <2>1
    <2>3. (q * m) * c = q * (m * c) BY <1>1
    <2> QED BY <1>1, <2>2, <2>3 DEF s, d
  <1>5. s = 0 <=> r = 0
    <2>1. r \in Nat BY <1>1
    <2> QED BY <2>1 DEF s
  <1> HIDE DEF d, s
  <1>6. (q * d + s) % d = s BY <1>1, <1>2, <1>3, QuotientOf
  <1>7. (x * c) % d = s BY <1>4, <1>6
  <1> QED BY <1>5, <1>7 DEF d, r

\* The tile of a number: its column in the row block, its row block, its head.
TileColumn(n) == n % RowTiles
LEMMA TilePlace ==
  ASSUME NEW n \in Nat
  PROVE  /\ Tile(n).number = n /\ Tile(n).group \in Nat /\ Tile(n).head \in Nat
         /\ TileColumn(n) \in 0 .. RowTiles - 1 /\ RowBlock(n) \in Nat
         /\ n = RowBlock(n) * RowTiles + TileColumn(n)
         /\ Tile(n).col_base = TileColumn(n) * TILE
         /\ Tile(n).row_base = (RowBlock(n) % RowTiles) * TILE
         /\ RowBlock(n) % RowTiles \in 0 .. RowTiles - 1
         /\ Tile(n).group * Q_HEADS + Tile(n).head = RowBlock(n) \div RowTiles
         /\ Tile(n).row_tile_last = (TileColumn(n) = RowTiles - 1)
         /\ Tile(n).group_last = ((n + 1) % (Q_HEADS * RowTiles * RowTiles) = 0)
         /\ \A r \in Rows, k \in Keys : Tile(n).masked[r][k] =
                (Causal /\ Tile(n).col_base + k > Tile(n).row_base + r)
         /\ Tile(n).group = (RowBlock(n) \div RowTiles) \div Q_HEADS
         /\ Tile(n).head = (RowBlock(n) \div RowTiles) % Q_HEADS
  <1> DEFINE RT == RowTiles
             QH == Q_HEADS
             b == RowBlock(n)
             j == TileColumn(n)
             h == b \div RT
             g == h \div QH
             k == h % QH
  <1>1. RT \in Nat \ {0} /\ QH \in Nat \ {0} /\ TILE \in Nat \ {0} /\ SEQ_LEN = RT * TILE
    BY FusionSizes
  <1>2. Tile(n) = [number |-> n, group |-> n \div (QH * RT * RT), head |-> (n \div (RT * RT)) % QH,
            row_base |-> ((n \div RT) % RT) * TILE, col_base |-> (n % RT) * TILE,
            row_tile_last |-> (n % RT) * TILE = SEQ_LEN - TILE,
            group_last |-> (n + 1) % (QH * RT * RT) = 0,
            masked |-> [r \in Rows |-> [c \in Keys |->
                           Causal /\ (n % RT) * TILE + c > ((n \div RT) % RT) * TILE + r]]]
    BY DEF Tile
  <1> HIDE DEF RT, QH
  <1>3. b \in Nat /\ j \in 0 .. RT - 1 /\ n = b * RT + j /\ b = n \div RT /\ j = n % RT
    BY <1>1, Division DEF RowBlock, TileColumn, RT
  <1> HIDE DEF b, j
  <1>4. h \in Nat /\ b % RT \in 0 .. RT - 1 BY <1>1, <1>3, Division
  <1>5. h = n \div (RT * RT)
    <2>1. (n \div RT) \div RT = n \div (RT * RT) BY <1>1, QuotientTwice
    <2>2. h = (n \div RT) \div RT BY <1>3
    <2> QED BY <2>1, <2>2
  <1>6. g \in Nat /\ k \in 0 .. QH - 1 /\ h = g * QH + k BY <1>1, <1>4, Division
  <1>7. g = n \div (QH * RT * RT)
    <2>1. RT * RT \in Nat \ {0} BY <1>1
    <2>2. (n \div (RT * RT)) \div QH = n \div ((RT * RT) * QH) BY <1>1, <2>1, QuotientTwice
    <2>3. (RT * RT) * QH = QH * RT * RT BY <1>1
    <2> QED BY <1>5, <2>2, <2>3
  <1>8. j * TILE = SEQ_LEN - TILE <=> j = RT - 1
    <2>1. SEQ_LEN - TILE = (RT - 1) * TILE BY <1>1
    <2>2. ASSUME j * TILE = (RT - 1) * TILE PROVE j = RT - 1
      <3>1. j \in Nat /\ RT - 1 \in Nat BY <1>1, <1>3
      <3>2. (j * TILE + 0) \div TILE = j /\ ((RT - 1) * TILE + 0) \div TILE = RT - 1
        <4>1. 0 \in 0 .. TILE - 1 BY <1>1
        <4> QED BY <1>1, <3>1, <4>1, QuotientOf
      <3>3. j * TILE + 0 = (RT - 1) * TILE + 0 BY <2>2
      <3> QED BY <3>2, <3>3
    <2> QED BY <2>1, <2>2
  <1> HIDE DEF h, g, k
  <1>9. Tile(n) = [number |-> n, group |-> g, head |-> k,
            row_base |-> (b % RT) * TILE, col_base |-> j * TILE,
            row_tile_last |-> j * TILE = SEQ_LEN - TILE,
            group_last |-> (n + 1) % (QH * RT * RT) = 0,
            masked |-> [r \in Rows |-> [c \in Keys |->
                           Causal /\ j * TILE + c > (b % RT) * TILE + r]]]
    BY <1>2, <1>3, <1>5, <1>7 DEF k
  <1>10. /\ Tile(n).number = n /\ Tile(n).group = g /\ Tile(n).head = k
         /\ Tile(n).row_base = (b % RT) * TILE /\ Tile(n).col_base = j * TILE
         /\ Tile(n).row_tile_last = (j * TILE = SEQ_LEN - TILE)
         /\ Tile(n).group_last = ((n + 1) % (QH * RT * RT) = 0)
         /\ \A r \in Rows, c \in Keys : Tile(n).masked[r][c] =
                (Causal /\ j * TILE + c > (b % RT) * TILE + r)
    BY <1>9
  <1>11. g = h \div QH /\ k = h % QH /\ h = b \div RT BY DEF g, k, h
  <1>12. /\ g \in Nat /\ k \in Nat /\ g * QH + k = b \div RT
         /\ g = (b \div RT) \div QH /\ k = (b \div RT) % QH
         /\ b % RT \in 0 .. RT - 1
    <2>1. g * QH + k = b \div RT BY <1>6, <1>11
    <2>2. g = (b \div RT) \div QH BY <1>11, Zenon
    <2>3. k = (b \div RT) % QH BY <1>11, Zenon
    <2>4. g \in Nat /\ k \in Nat BY <1>1, <1>6, SMTT(30)
    <2> QED BY <1>4, <2>1, <2>2, <2>3, <2>4
  <1>13. /\ Tile(n).number = n /\ Tile(n).group \in Nat /\ Tile(n).head \in Nat
         /\ j \in 0 .. RT - 1 /\ b \in Nat /\ n = b * RT + j
         /\ Tile(n).col_base = j * TILE
         /\ Tile(n).row_base = (b % RT) * TILE
         /\ b % RT \in 0 .. RT - 1
         /\ Tile(n).group * QH + Tile(n).head = b \div RT
         /\ Tile(n).row_tile_last = (j = RT - 1)
         /\ Tile(n).group_last = ((n + 1) % (QH * RT * RT) = 0)
    BY <1>3, <1>8, <1>10, <1>12
  <1>14. \A r \in Rows, c \in Keys : Tile(n).masked[r][c] =
                (Causal /\ Tile(n).col_base + c > Tile(n).row_base + r)
    BY <1>10
  <1>15. Tile(n).group = (b \div RT) \div QH /\ Tile(n).head = (b \div RT) % QH
    BY <1>10, <1>12
  <1>16. b = RowBlock(n) /\ j = TileColumn(n) BY DEF b, j
  <1>17. Tile(n).row_tile_last \in BOOLEAN BY <1>10
  <1> QED BY <1>13, <1>14, <1>15, <1>16, <1>17 DEF RT, QH
-----------------------------------------------------------------------------
(***************************************************************************)
(* Sums of products.                                                       *)
(***************************************************************************)

\* One more key, which is masked or which the row sees.
LEMMA TermsMasked ==
  ASSUME NEW g \in Nat, NEW row \in Nat, NEW col \in Nat, NEW c \in Nat,
         Causal, c > row
  PROVE  Terms(g, row, col, c + 1) = Terms(g, row, col, c)
  <1>1. Seen(row, c + 1) = Seen(row, c) BY DEF Seen
  <1> QED BY <1>1 DEF Terms

Term(g, col, c) == <<c, (g * SEQ_LEN + c) * HEAD_DIM + col>>
LEMMA TermsNext ==
  ASSUME NEW g \in Nat, NEW row \in Nat, NEW col \in Nat, NEW c \in Nat,
         ~(Causal /\ c > row)
  PROVE  Terms(g, row, col, c + 1) = Terms(g, row, col, c) \o <<Term(g, col, c)>>
  <1> DEFINE f(i) == <<i - 1, (g * SEQ_LEN + i - 1) * HEAD_DIM + col>>
             s == [i \in 1 .. c |-> f(i)]
             x == <<c, (g * SEQ_LEN + c) * HEAD_DIM + col>>
  <1>2. Seen(row, c) = c /\ Seen(row, c + 1) = c + 1 BY DEF Seen
  <1>3. \A e : Terms(g, row, col, e) = [i \in 1 .. Seen(row, e) |-> f(i)] BY DEF Terms
  <1>4. f(c + 1) = x
    <2>1. g * SEQ_LEN \in Nat BY FusionSizes
    <2>2. g * SEQ_LEN + (c + 1) - 1 = g * SEQ_LEN + c /\ (c + 1) - 1 = c BY <2>1
    <2> QED BY <2>2
  <1> HIDE DEF f, x
  <1>5. [i \in 1 .. c + 1 |-> f(i)] = s \o <<x>>
    <2> DEFINE S == {f(i) : i \in 1 .. c} \cup {x}
    <2>1. s \in Seq(S) /\ Len(s) = c
      <3>1. s \in [1 .. c -> S] OBVIOUS
      <3> HIDE DEF S
      <3> QED BY <3>1
    <2>2. <<x>> \in Seq(S) /\ Len(<<x>>) = 1 /\ <<x>>[1] = x OBVIOUS
    <2> HIDE DEF s, S
    <2>3. /\ Len(s \o <<x>>) = c + 1 /\ s \o <<x>> \in Seq(S)
          /\ \A i \in 1 .. c : (s \o <<x>>)[i] = s[i]
          /\ (s \o <<x>>)[c + 1] = x
      BY <2>1, <2>2, ConcatProperties
    <2>4. s \o <<x>> = [i \in 1 .. c + 1 |-> (s \o <<x>>)[i]]
      <3> DEFINE z == s \o <<x>>
      <3>1. z \in Seq(S) /\ Len(z) = c + 1 BY <2>3
      <3> HIDE DEF z
      <3>2. z \in [1 .. c + 1 -> S] BY <3>1, LenProperties
      <3>3. z = [i \in 1 .. c + 1 |-> z[i]] BY <3>2
      <3> QED BY <3>3 DEF z
    <2>5. \A i \in 1 .. c + 1 : (s \o <<x>>)[i] = f(i)
      <3>1. \A i \in 1 .. c : s[i] = f(i) BY DEF s
      <3>2. \A i \in 1 .. c + 1 : i \in 1 .. c \/ i = c + 1 OBVIOUS
      <3> QED BY <1>4, <2>3, <3>1, <3>2
    <2> HIDE DEF f
    <2> QED BY <2>4, <2>5
  <1>6. Terms(g, row, col, c) = [i \in 1 .. Seen(row, c) |-> f(i)]
        /\ Terms(g, row, col, c + 1) = [i \in 1 .. Seen(row, c + 1) |-> f(i)]
    BY <1>3
  <1> QED BY <1>2, <1>5, <1>6 DEF s, x, Term

\* A sum that is not empty is a number relative to a tile.
LEMMA SumIsNumber ==
  ASSUME NEW g, NEW row, NEW col, NEW c, NEW m \in Nat, c # 0
  PROVE  LET o == Sum(g, row, col, c, m)
         IN  /\ o = [terms |-> Terms(g, row, col, c), relative |-> m, over |-> None]
             /\ o.terms = Terms(g, row, col, c) /\ o.relative = m /\ o.over = None
             /\ o # Zero /\ o # Wrong
  <1> DEFINE o == Sum(g, row, col, c, m)
             ts == Terms(g, row, col, c)
  <1>1. o = [terms |-> ts, relative |-> m, over |-> None] BY DEF Sum
  <1> HIDE DEF o, ts
  <1>2. o.terms = ts /\ o.relative = m /\ o.over = None BY <1>1
  <1>3. Zero.relative = -1 /\ Wrong.relative = -2 BY DEF Zero, Wrong, None
  <1>4. o # Zero /\ o # Wrong BY <1>2, <1>3
  <1> QED BY <1>1, <1>2, <1>4 DEF o, ts

\* What a row block holds of the row and of the run.
LEMMA TileBounds ==
  ASSUME NEW n \in Nat, NEW r \in Rows, NEW k \in Keys, NEW c \in Chunks, NEW l \in VLanes
  PROVE  /\ Tile(n).number = n /\ Tile(n).group \in Nat
         /\ Tile(n).col_base \in Nat /\ Tile(n).row_base \in Nat
         /\ Tile(n).row_base + r \in 0 .. SEQ_LEN - 1
         /\ Column(c, l) \in 0 .. HEAD_DIM - 1
         /\ Tile(n).col_base # 0 => n # 0 /\ n - 1 \in Nat
         /\ Tile(n).col_base = 0 <=> TileColumn(n) = 0
         /\ Tile(n).masked[r][k] = (Causal /\ Tile(n).col_base + k > Tile(n).row_base + r)
  <1> DEFINE b == RowBlock(n) % RowTiles
             j == TileColumn(n)
             base == b * TILE
             cb == j * TILE
             RT == RowTiles
  <1>1. /\ TILE \in Nat \ {0} /\ RT \in Nat \ {0} /\ SEQ_LEN = RT * TILE
        /\ V_LANES \in Nat \ {0} /\ FEATURE_CHUNKS \in Nat \ {0}
        /\ HEAD_DIM = FEATURE_CHUNKS * V_LANES
        /\ r \in 0 .. TILE - 1 /\ k \in 0 .. TILE - 1
        /\ c \in 0 .. FEATURE_CHUNKS - 1 /\ l \in 0 .. V_LANES - 1
    BY FusionSizes
  <1>2. /\ Tile(n).number = n /\ Tile(n).group \in Nat
        /\ j \in 0 .. RT - 1 /\ b \in 0 .. RT - 1
        /\ Tile(n).col_base = cb /\ Tile(n).row_base = base
        /\ RowBlock(n) \in Nat /\ n = RowBlock(n) * RT + j
        /\ Tile(n).masked[r][k] = (Causal /\ Tile(n).col_base + k > Tile(n).row_base + r)
    BY TilePlace
  <1> HIDE DEF b, j, RT
  <1>3. base + TILE <= SEQ_LEN /\ base \in Nat
    <2>1. (b + 1) * TILE <= RT * TILE
      <3>1. b + 1 \in Nat /\ b + 1 <= RT BY <1>1, <1>2
      <3> QED BY <1>1, <3>1
    <2>2. (b + 1) * TILE = b * TILE + TILE /\ b * TILE \in Nat BY <1>1, <1>2
    <2> QED BY <1>1, <2>1, <2>2
  <1>4. base + r \in 0 .. SEQ_LEN - 1
    <2> HIDE DEF base
    <2>1. SEQ_LEN \in Nat BY FusionSizes
    <2> QED BY <1>1, <1>3, <2>1
  <1>5. Column(c, l) \in 0 .. HEAD_DIM - 1
    <2>1. (c + 1) * V_LANES <= FEATURE_CHUNKS * V_LANES
      <3>1. c + 1 \in Nat /\ c + 1 <= FEATURE_CHUNKS BY <1>1
      <3> QED BY <1>1, <3>1
    <2>2. (c + 1) * V_LANES = c * V_LANES + V_LANES /\ c * V_LANES \in Nat BY <1>1
    <2>3. HEAD_DIM \in Nat BY FusionSizes
    <2> QED BY <1>1, <2>1, <2>2, <2>3 DEF Column
  <1>6. cb \in Nat /\ (cb = 0 <=> j = 0) BY <1>1, <1>2
  <1>7. j # 0 => n # 0 /\ n - 1 \in Nat
    <2>1. RowBlock(n) * RT \in Nat BY <1>1, <1>2
    <2> QED BY <1>2, <2>1
  <1>8. Tile(n).row_base + r \in 0 .. SEQ_LEN - 1 BY <1>2, <1>4
  <1>9. Tile(n).col_base \in Nat /\ Tile(n).row_base \in Nat
        /\ (Tile(n).col_base = 0 <=> j = 0)
    BY <1>2, <1>3, <1>6
  <1>10. Tile(n).col_base # 0 => n # 0 /\ n - 1 \in Nat BY <1>7, <1>9
  <1> QED BY <1>2, <1>5, <1>8, <1>9, <1>10 DEF j

\* A product added to the sum of the keys before.
LEMMA PlusNext ==
  ASSUME NEW n \in Nat, NEW r \in Rows, NEW k \in Keys, NEW c \in Chunks, NEW l \in VLanes
  PROVE  Plus(Partial(Tile(n), r, c, l, k), Weighted(Tile(n), r, k, Address(Tile(n), k, c, l)))
             = Partial(Tile(n), r, c, l, k + 1)
  <1> DEFINE g == Tile(n).group
             row == Tile(n).row_base + r
             col == Column(c, l)
             x == Tile(n).col_base + k
             v == Address(Tile(n), k, c, l)
             w == Weighted(Tile(n), r, k, v)
             a == Sum(g, row, col, x, n)
             z == Sum(g, row, col, x + 1, n)
  <1>1. /\ Tile(n).number = n /\ g \in Nat /\ row \in Nat /\ col \in Nat /\ x \in Nat
        /\ Tile(n).masked[r][k] = (Causal /\ x > row)
    <2>1. k \in Nat BY FusionSizes
    <2>2. SEQ_LEN \in Nat /\ HEAD_DIM \in Nat BY FusionSizes
    <2> QED BY <2>1, <2>2, TileBounds
  <1>2. Partial(Tile(n), r, c, l, k) = a /\ Partial(Tile(n), r, c, l, k + 1) = z
    <2>1. Tile(n).col_base + (k + 1) = x + 1
      <3>1. k \in Nat /\ Tile(n).col_base \in Nat BY FusionSizes, TileBounds
      <3> QED BY <3>1
    <2> QED BY <1>1, <2>1 DEF Partial
  <1>3. w = IF Causal /\ x > row THEN Zero
            ELSE [terms |-> <<<<x, v>>>>, relative |-> n, over |-> None]
    BY <1>1 DEF Weighted
  <1>4. v = (g * SEQ_LEN + x) * HEAD_DIM + col
    <2>1. g * SEQ_LEN \in Nat /\ k \in Nat /\ Tile(n).col_base \in Nat
      <3>1. k \in Nat /\ SEQ_LEN \in Nat BY FusionSizes
      <3>2. Tile(n).col_base \in Nat BY TileBounds
      <3> HIDE DEF g
      <3> QED BY <1>1, <3>1, <3>2
    <2>2. (g * SEQ_LEN + Tile(n).col_base) + k = g * SEQ_LEN + x BY <2>1
    <2> QED BY <2>2 DEF Address
  <1> HIDE DEF g, row, col, x, v, w
  <1>5. z = [terms |-> Terms(g, row, col, x + 1), relative |-> n, over |-> None]
    <2>1. x + 1 # 0 BY <1>1
    <2> QED BY <2>1, SumIsNumber
  <1>6. x # 0 => /\ a = [terms |-> Terms(g, row, col, x), relative |-> n, over |-> None]
                 /\ a.terms = Terms(g, row, col, x) /\ a.relative = n /\ a # Zero
    BY SumIsNumber
  <1>7. x = 0 => a = Zero BY DEF Sum
  <1>8. ASSUME Causal /\ x > row PROVE Plus(a, w) = z
    <2>1. x # 0 BY <1>1, <1>8
    <2>2. Terms(g, row, col, x + 1) = Terms(g, row, col, x)
      <3>1. g \in Nat /\ row \in Nat /\ col \in Nat /\ x \in Nat BY <1>1
      <3>2. Causal /\ x > row BY <1>8
      <3> QED BY <3>1, <3>2, TermsMasked
    <2>3. w = Zero BY <1>3, <1>8
    <2>4. a # Zero BY <1>6, <2>1
    <2>5. Plus(a, w) = a BY <2>3, <2>4 DEF Plus
    <2> QED BY <1>5, <1>6, <2>1, <2>2, <2>5
  <1>9. ASSUME ~(Causal /\ x > row) PROVE Plus(a, w) = z
    <2> DEFINE ts == Terms(g, row, col, x)
               us == <<<<x, v>>>>
    <2>1. w = [terms |-> us, relative |-> n, over |-> None] BY <1>3, <1>9
    <2>2. Terms(g, row, col, x + 1) = ts \o us
      <3>1. g \in Nat /\ row \in Nat /\ col \in Nat /\ x \in Nat BY <1>1
      <3>2. us = <<Term(g, col, x)>> BY <1>4 DEF us, Term
      <3>3. ~(Causal /\ x > row) BY <1>9
      <3> HIDE DEF a, z, ts, us
      <3>4. Terms(g, row, col, x + 1) = Terms(g, row, col, x) \o <<Term(g, col, x)>>
        <4>1. \A gg, rr, cc, xx \in Nat :
                 ~(Causal /\ xx > rr) =>
                    Terms(gg, rr, cc, xx + 1) = Terms(gg, rr, cc, xx) \o <<Term(gg, cc, xx)>>
          BY TermsNext
        <4>2. g \in Nat BY <3>1
        <4>3. row \in Nat BY <3>1
        <4>4. col \in Nat BY <3>1
        <4>5. x \in Nat BY <3>1
        <4>6. \A cc, xx \in Nat :
                 ~(Causal /\ xx > row) =>
                    Terms(g, row, cc, xx + 1) = Terms(g, row, cc, xx) \o <<Term(g, cc, xx)>>
          BY <4>1, <4>2, <4>3
        <4>7. \A xx \in Nat :
                 ~(Causal /\ xx > row) =>
                    Terms(g, row, col, xx + 1) = Terms(g, row, col, xx) \o <<Term(g, col, xx)>>
          BY <4>6, <4>4
        <4>8. ~(Causal /\ x > row) =>
                    Terms(g, row, col, x + 1) = Terms(g, row, col, x) \o <<Term(g, col, x)>>
          BY <4>7, <4>5
        <4> QED BY <3>3, <4>8
      <3> USE DEF ts
      <3> QED BY <3>2, <3>4
    <2>3. x = 0 => ts = <<>>
      <3>1. Seen(row, 0) = 0 BY <1>1 DEF Seen
      <3>2. ASSUME x = 0 PROVE Terms(g, row, col, x) = <<>> BY <3>1, <3>2 DEF Terms
      <3> QED BY <3>2
    <2>4. us \in Seq({<<x, v>>}) OBVIOUS
    <2> HIDE DEF ts, us
    <2>5. CASE x = 0
      <3>1. Plus(a, w) = w BY <1>7, <2>5 DEF Plus
      <3>2. ts \o us = us BY <2>3, <2>4, <2>5, ConcatEmptySeq
      <3> QED BY <1>5, <2>1, <2>2, <3>1, <3>2
    <2>6. CASE x # 0
      <3>1. w.relative = n /\ w.terms = us BY <2>1
      <3>2. w # Zero
        <4>1. Zero.relative = -1 BY DEF Zero, None
        <4> QED BY <3>1, <4>1
      <3>3. Plus(a, w) = [a EXCEPT !.terms = @ \o w.terms] BY <1>6, <2>6, <3>1, <3>2 DEF Plus
      <3>4. Plus(a, w) = [a EXCEPT !.terms = ts \o us] BY <1>6, <2>6, <3>1, <3>3 DEF ts
      <3>5. a = [terms |-> ts, relative |-> n, over |-> None] BY <1>6, <2>6 DEF ts
      <3>6. Plus(a, w) = [terms |-> ts \o us, relative |-> n, over |-> None]
        BY <3>4, <3>5, SMTT(30)
      <3> QED BY <1>5, <2>2, <3>6
    <2> QED BY <2>5, <2>6
  <1>10. Plus(a, w) = z BY <1>8, <1>9
  <1> QED BY <1>2, <1>10 DEF w, v

\* What the last tile left, made relative to the maximum of this one.
LEMMA RescaledBefore ==
  ASSUME NEW n \in Nat, NEW r \in Rows, NEW c \in Chunks, NEW l \in VLanes
  PROVE  Rescaled(Tile(n), Before(Tile(n), r, c, l)) = Partial(Tile(n), r, c, l, 0)
  <1> DEFINE t == Tile(n)
             g == t.group
             row == t.row_base + r
             col == Column(c, l)
             x == t.col_base
             m == t.number - 1
             o == Sum(g, row, col, x, m)
             z == Sum(g, row, col, x, n)
  <1>1. t.number = n /\ x \in Nat /\ (x # 0 => m \in Nat) /\ m = n - 1
    <2>1. 0 \in Keys BY FusionSizes
    <2> QED BY <2>1, TileBounds
  <1>2. Before(t, r, c, l) = o BY DEF Before
  <1>3. Partial(t, r, c, l, 0) = z
    <2>1. x + 0 = x BY <1>1
    <2> QED BY <1>1, <2>1 DEF Partial
  <1> HIDE DEF g, row, col, m
  <1>4. ASSUME x = 0 PROVE Rescaled(t, o) = z
    <2>1. o = Zero /\ z = Zero BY <1>4 DEF Sum
    <2>2. Zero # Wrong
      <3>1. Zero.relative = -1 /\ Wrong.relative = -2 BY DEF Zero, Wrong, None
      <3> QED BY <3>1
    <2> QED BY <1>4, <2>1, <2>2 DEF Rescaled
  <1>5. ASSUME x # 0 PROVE Rescaled(t, o) = z
    <2> DEFINE ts == Terms(g, row, col, x)
    <2> HIDE DEF t
    <2>1. /\ o = [terms |-> ts, relative |-> m, over |-> None]
          /\ o.relative = m /\ o.over = None
      BY <1>1, <1>5, SumIsNumber DEF ts
    <2>2. z = [terms |-> ts, relative |-> n, over |-> None] BY <1>5, SumIsNumber DEF ts
    <2> HIDE DEF o, z, ts
    <2>3. Rescaled(t, o) = [o EXCEPT !.relative = n] BY <1>1, <1>5, <2>1 DEF Rescaled
    <2> QED BY <2>1, <2>2, <2>3
  <1> QED BY <1>2, <1>3, <1>4, <1>5

\* The sum of the last tile of a row block, divided.
LEMMA DividedDone ==
  ASSUME NEW n \in Nat, NEW r \in Rows, NEW c \in Chunks, NEW l \in VLanes,
         Tile(n).row_tile_last
  PROVE  Divided(n, Done(Tile(n), r, c, l)) = Final(Tile(n), r, c, l)
  <1> DEFINE t == Tile(n)
             g == t.group
             row == t.row_base + r
             col == Column(c, l)
             ts == Terms(g, row, col, SEQ_LEN)
  <1>1. t.number = n /\ row \in 0 .. SEQ_LEN - 1 /\ SEQ_LEN \in Nat \ {0}
    <2>1. 0 \in Keys BY FusionSizes
    <2> QED BY <2>1, TileBounds, FusionSizes
  <1>2. t.col_base + TILE = SEQ_LEN
    <2> DEFINE a == RowTiles
    <2>1. t.col_base = TileColumn(n) * TILE /\ TileColumn(n) = RowTiles - 1 BY TilePlace
    <2>2. a \in Nat \ {0} /\ TILE \in Nat /\ SEQ_LEN = a * TILE BY FusionSizes
    <2>3. t.col_base = (a - 1) * TILE BY <2>1
    <2> HIDE DEF a, t
    <2>4. (a - 1) * TILE + TILE = a * TILE BY <2>2
    <2> QED BY <2>2, <2>3, <2>4
  <1>3. Done(t, r, c, l) = [terms |-> ts, relative |-> n, over |-> None]
    <2>1. Done(t, r, c, l) = Sum(g, row, col, SEQ_LEN, n) BY <1>1, <1>2 DEF Done, Partial
    <2> HIDE DEF g, row, col
    <2>2. SEQ_LEN # 0 BY <1>1
    <2> QED BY <2>1, <2>2, SumIsNumber
  <1>4. Final(t, r, c, l) = [terms |-> ts, relative |-> n, over |-> n]
    <2> HIDE DEF row, g, col
    <2>1. Seen(row, SEQ_LEN) = IF Causal THEN row + 1 ELSE SEQ_LEN
      <3>1. ~Causal => Seen(row, SEQ_LEN) = SEQ_LEN BY DEF Seen
      <3>2. Causal => Seen(row, SEQ_LEN) = row + 1 BY <1>1 DEF Seen
      <3> QED BY <3>1, <3>2
    <2>2. Attention(g, row, col, n) =
              [terms |-> ts, relative |-> n, over |-> n]
      BY <2>1 DEF Attention, Terms
    <2>3. Final(t, r, c, l) = Attention(g, row, col, n) BY <1>1 DEF Final, g, row, col
    <2> QED BY <2>2, <2>3
  <1> DEFINE o == Done(t, r, c, l)
  <1> HIDE DEF ts, o
  <1>5. o = [terms |-> ts, relative |-> n, over |-> None] BY <1>3 DEF o
  <1>6. Divided(n, o) = [o EXCEPT !.over = n] BY DEF Divided
  <1>7. Divided(n, o) = [terms |-> ts, relative |-> n, over |-> n] BY <1>5, <1>6
  <1> QED BY <1>4, <1>7 DEF o

\* The next tile of a row block goes on where this one stops.
LEMMA NextTile ==
  ASSUME NEW n \in Nat, NEW r \in Rows, NEW c \in Chunks, NEW l \in VLanes,
         Tile(n + 1).col_base # 0
  PROVE  Before(Tile(n + 1), r, c, l) = Done(Tile(n), r, c, l)
  <1> DEFINE RT == RowTiles
             j == TileColumn(n)
  <1>1. RT \in Nat \ {0} /\ TILE \in Nat \ {0} /\ 0 \in Keys /\ n + 1 \in Nat BY FusionSizes
  <1>2. j \in 0 .. RT - 1 BY TilePlace
  <1>3. /\ j # RT - 1 => RowBlock(n + 1) = RowBlock(n) /\ TileColumn(n + 1) = j + 1
        /\ j = RT - 1 => TileColumn(n + 1) = 0
    BY <1>1, NextQuotient DEF RowBlock, TileColumn
  <1>4. TileColumn(n + 1) # 0 BY <1>1, TileBounds
  <1>5. RowBlock(n + 1) = RowBlock(n) /\ TileColumn(n + 1) = j + 1 BY <1>3, <1>4
  <1>6. Tile(n + 1).group = Tile(n).group /\ Tile(n + 1).row_base = Tile(n).row_base
    <2>1. /\ Tile(n + 1).group = (RowBlock(n + 1) \div RowTiles) \div Q_HEADS
          /\ Tile(n + 1).row_base = (RowBlock(n + 1) % RowTiles) * TILE
      BY <1>1, TilePlace
    <2>2. /\ Tile(n).group = (RowBlock(n) \div RowTiles) \div Q_HEADS
          /\ Tile(n).row_base = (RowBlock(n) % RowTiles) * TILE
      BY TilePlace
    <2> QED BY <1>5, <2>1, <2>2, Zenon
  <1>7. Tile(n + 1).col_base = Tile(n).col_base + TILE
    <2>1. Tile(n + 1).col_base = (j + 1) * TILE /\ Tile(n).col_base = j * TILE
      BY <1>1, <1>5, TilePlace
    <2> HIDE DEF j
    <2>2. (j + 1) * TILE = j * TILE + TILE BY <1>1, <1>2
    <2> QED BY <2>1, <2>2
  <1>8. Tile(n + 1).number - 1 = n /\ Tile(n).number = n
    <2>1. Tile(n + 1).number = n + 1 BY <1>1, TilePlace
    <2> QED BY <2>1, TilePlace
  <1> QED BY <1>6, <1>7, <1>8 DEF Before, Done, Partial

\* A tile that is not the last of its row block leaves the row block; the last
\* one leaves at the start of the next.
LEMMA NextRowBlock ==
  ASSUME NEW n \in Nat
  PROVE  /\ RowBlock(n) \in Nat /\ (n + 1) - 1 = n
         /\ Tile(n).row_tile_last => /\ RowBlock(n + 1) = RowBlock(n) + 1
                                     /\ (n + 1) % RowTiles = 0
         /\ ~Tile(n).row_tile_last => /\ RowBlock(n + 1) = RowBlock(n)
                                      /\ (n + 1) % RowTiles # 0
  <1>1. RowTiles \in Nat \ {0} BY FusionSizes
  <1>2. /\ Tile(n).row_tile_last = (n % RowTiles = RowTiles - 1) /\ RowBlock(n) \in Nat
        /\ n % RowTiles \in 0 .. RowTiles - 1
    BY TilePlace DEF TileColumn
  <1>3. /\ n % RowTiles # RowTiles - 1 =>
             RowBlock(n + 1) = RowBlock(n) /\ (n + 1) % RowTiles = (n % RowTiles) + 1
        /\ n % RowTiles = RowTiles - 1 =>
             RowBlock(n + 1) = RowBlock(n) + 1 /\ (n + 1) % RowTiles = 0
    BY <1>1, NextQuotient DEF RowBlock
  <1>4. (n % RowTiles) + 1 # 0 BY <1>1, <1>2
  <1>5. Tile(n).row_tile_last => RowBlock(n + 1) = RowBlock(n) + 1 /\ (n + 1) % RowTiles = 0
    BY <1>2, <1>3, Zenon
  <1>6. ~Tile(n).row_tile_last => RowBlock(n + 1) = RowBlock(n) /\ (n + 1) % RowTiles # 0
    BY <1>2, <1>3, <1>4, Zenon
  <1>7. (n + 1) - 1 = n OBVIOUS
  <1> QED BY <1>2, <1>5, <1>6, <1>7

\* Where word e of the row block that tile n finishes belongs.
LEMMA EmitPlace ==
  ASSUME NEW n \in Nat, NEW e \in 0 .. CONTEXT_ITEMS - 1, NEW w, Tile(n).row_tile_last,
         w = RowBlock(n) * CONTEXT_ITEMS + e
  PROVE  /\ w = ((Tile(n).group * Q_HEADS + Tile(n).head) * SEQ_LEN
                     + (Tile(n).row_base + Row(e))) * HEAD_DIM + Col(e)
         /\ (Tile(n).group_last /\ e = CONTEXT_ITEMS - 1)
                <=> ((w + 1) % (Q_HEADS * SEQ_LEN * HEAD_DIM) = 0)
  <1> DEFINE RT == RowTiles
             HD == HEAD_DIM
             IT == CONTEXT_ITEMS
             QH == Q_HEADS
             SL == SEQ_LEN
             b == RowBlock(n)
             h == b \div RT
             i == b % RT
             y == Row(e)
             x == Col(e)
             M == QH * RT
  <1>1. /\ RT \in Nat \ {0} /\ HD \in Nat \ {0} /\ IT \in Nat \ {0} /\ QH \in Nat \ {0}
        /\ TILE \in Nat \ {0} /\ SL = RT * TILE /\ IT = TILE * HD
    BY FusionSizes
  <1>2. /\ b \in Nat /\ Tile(n).row_base = i * TILE /\ i \in 0 .. RT - 1
        /\ Tile(n).group * QH + Tile(n).head = h
        /\ n = b * RT + (RT - 1)
        /\ Tile(n).group_last = ((n + 1) % (QH * RT * RT) = 0)
    BY TilePlace
  <1> HIDE DEF RT, HD, IT, QH, SL, b
  <1>3. h \in Nat /\ b = h * RT + i BY <1>1, <1>2, Division
  <1>4. y \in Nat /\ x \in Nat /\ e = y * HD + x
    <2>1. e \in Nat BY <1>1 DEF IT
    <2>2. HD \in Nat \ {0} /\ y = e \div HD /\ x = e % HD BY <1>1 DEF Row, Col, HD
    <2>3. /\ e \div HD \in Nat /\ e % HD \in 0 .. HD - 1 /\ e = (e \div HD) * HD + (e % HD)
      BY <2>1, <2>2, Division
    <2> HIDE DEF x, y
    <2>4. y \in Nat /\ x \in 0 .. HD - 1 BY <2>2, <2>3
    <2>5. e = y * HD + x BY <2>2, <2>3
    <2> QED BY <2>4, <2>5
  <1> HIDE DEF h, i, x, y
  <1>5. w = (h * SL + (i * TILE + y)) * HD + x
    <2>1. (h * SL + i * TILE) = b * TILE
      <3>1. h * (RT * TILE) = (h * RT) * TILE BY <1>1, <1>3
      <3>2. (h * RT + i) * TILE = (h * RT) * TILE + i * TILE
        <4>1. h * RT \in Nat /\ i \in Nat BY <1>1, <1>2, <1>3
        <4> HIDE DEF h
        <4> QED BY <1>1, <4>1
      <3> QED BY <1>1, <1>3, <3>1, <3>2
    <2>2. h * SL \in Nat /\ i * TILE \in Nat /\ b * TILE \in Nat BY <1>1, <1>2, <1>3
    <2>3. h * SL + (i * TILE + y) = b * TILE + y BY <1>4, <2>1, <2>2
    <2>4. (b * TILE + y) * HD = (b * TILE) * HD + y * HD BY <1>1, <1>4, <2>2
    <2>5. (b * TILE) * HD = b * IT BY <1>1, <1>2
    <2>6. b * IT \in Nat /\ y * HD \in Nat BY <1>1, <1>2, <1>4
    <2>7. w = b * IT + e BY DEF b, IT
    <2> QED BY <1>4, <2>3, <2>4, <2>5, <2>6, <2>7
  <1>6. M \in Nat \ {0} BY <1>1 DEF M
  <1>7. QH * SL * HD = M * IT
    <2>1. (QH * (RT * TILE)) * HD = (QH * RT) * (TILE * HD) BY <1>1
    <2> QED BY <1>1, <2>1 DEF M
  <1>8. QH * RT * RT = M * RT BY DEF M
  <1> HIDE DEF M
  <1>9. Tile(n).group_last = ((b + 1) % M = 0)
    <2>1. n + 1 = (b + 1) * RT
      <3>1. (b + 1) * RT = b * RT + RT /\ b * RT \in Nat BY <1>1, <1>2
      <3> QED BY <1>1, <1>2, <3>1
    <2>2. ((b + 1) * RT) % (M * RT) = 0 <=> (b + 1) % M = 0
      <3>1. b + 1 \in Nat BY <1>2
      <3> QED BY <1>1, <1>6, <3>1, MultipleScaled
    <2> QED BY <1>2, <1>8, <2>1, <2>2
  <1>10. CASE e = IT - 1
    <2>1. w + 1 = (b + 1) * IT
      <3>1. (b + 1) * IT = b * IT + IT /\ b * IT \in Nat BY <1>1, <1>2
      <3>2. w = b * IT + e BY DEF b, IT
      <3> QED BY <1>1, <1>10, <3>1, <3>2
    <2>2. ((b + 1) * IT) % (M * IT) = 0 <=> (b + 1) % M = 0
      <3>1. b + 1 \in Nat BY <1>2
      <3> QED BY <1>1, <1>6, <3>1, MultipleScaled
    <2>3. Tile(n).group_last <=> ((w + 1) % (QH * SL * HD) = 0)
      BY <1>7, <1>9, <2>1, <2>2
    <2> QED BY <1>2, <1>5, <1>10, <2>3 DEF QH, SL, HD, IT, y, x
  <1>11. CASE e # IT - 1
    <2> DEFINE f == e + 1
               D == M * IT
               q == (w + 1) \div D
    <2>1. f \in 1 .. IT - 1 /\ f \in 0 .. IT - 1 BY <1>1, <1>11 DEF IT
    <2>2. w + 1 = b * IT + f /\ w + 1 \in Nat
      <3>1. w = b * IT + e /\ b * IT \in Nat /\ e \in Nat BY <1>1, <1>2 DEF b, IT
      <3> QED BY <3>1
    <2> HIDE DEF f
    <2>3. (b * IT + f) % IT = f BY <1>1, <1>2, <2>1, QuotientOf
    <2>4. D \in Nat \ {0} BY <1>1, <1>6
    <2>5. ASSUME (w + 1) % D = 0 PROVE FALSE
      <3> HIDE DEF D
      <3>1. q \in Nat /\ w + 1 = q * D + 0 BY <2>2, <2>4, <2>5, Division
      <3> HIDE DEF q
      <3>2. q * D = (q * M) * IT BY <1>1, <1>6, <3>1 DEF D
      <3>3. q * M \in Nat BY <1>6, <3>1
      <3> DEFINE a == q * M
      <3>4. a \in Nat /\ w + 1 = a * IT + 0
        <4>1. a * IT \in Nat BY <1>1, <3>3
        <4>2. q * D = a * IT BY <3>2
        <4> HIDE DEF a
        <4> QED BY <3>1, <3>3, <4>1, <4>2 DEF a
      <3> HIDE DEF a
      <3>5. (a * IT + 0) % IT = 0
        <4>1. 0 \in 0 .. IT - 1 BY <1>1
        <4> QED BY <1>1, <3>4, <4>1, QuotientOf
      <3>6. f = 0 BY <2>2, <2>3, <3>4, <3>5
      <3> QED BY <2>1, <3>6
    <2>6. ~((w + 1) % (QH * SL * HD) = 0) BY <1>7, <2>5
    <2> QED BY <1>2, <1>5, <1>11, <2>6 DEF QH, SL, HD, IT, y, x
  <1> QED BY <1>10, <1>11

-----------------------------------------------------------------------------
(***************************************************************************)
(* Steps of an element.                                                    *)
(***************************************************************************)

\* The fields the invariant speaks of, unchanged.
Kept(q, p) ==
    /\ q.state = p.state /\ q.normalize = p.normalize /\ q.tile = p.tile /\ q.recip = p.recip
    /\ q.old_o = p.old_o /\ q.values = p.values /\ q.add = p.add /\ q.result = p.result
Loaded(q, p) ==
    /\ q.normalize = p.normalize /\ q.tile = p.tile /\ q.recip = p.recip
    /\ q.old_o = p.old_o /\ q.values = p.values

LEMMA KeptByHandshake ==
  ASSUME NEW p, DOMAIN p = PeFields, NEW x, NEW y
  PROVE  LET q == [p EXCEPT !.a_valid = x, !.b_valid = y]
         IN  DOMAIN q = PeFields /\ Kept(q, p)
  BY DEF PeFields, Kept

LEMMA KeptByOperands ==
  ASSUME NEW p, DOMAIN p = PeFields, NEW s, NEW x, NEW y
  PROVE  LET q == [p EXCEPT !.send = s, !.a_valid = x, !.b_valid = y]
         IN  DOMAIN q = PeFields /\ Kept(q, p)
  BY DEF PeFields, Kept

LEMMA KeptByProduct ==
  ASSUME NEW p, DOMAIN p = PeFields, NEW s
  PROVE  LET q == [p EXCEPT !.recv = s]
         IN  DOMAIN q = PeFields /\ Kept(q, p)
  BY DEF PeFields, Kept

LEMMA AfterResult ==
  ASSUME NEW p, DOMAIN p = PeFields, NEW s, NEW z
  PROVE  LET q == [p EXCEPT !.state = s, !.result = z]
         IN  /\ DOMAIN q = PeFields /\ Loaded(q, p)
             /\ q.state = s /\ q.result = z
  BY DEF PeFields, Loaded

LEMMA AfterState ==
  ASSUME NEW p, DOMAIN p = PeFields, NEW s
  PROVE  LET q == [p EXCEPT !.state = s]
         IN  /\ DOMAIN q = PeFields /\ Loaded(q, p)
             /\ q.state = s /\ q.result = p.result /\ q.add = p.add
  BY DEF PeFields, Loaded

Busy == {"MUL_STREAM", "ADD_SEND", "ADD_WAIT", "OUTPUT"}

LEMMA KeptSums ==
  ASSUME NEW p, NEW q, NEW r, Kept(q, p)
  PROVE  /\ Summing(p, r) => Summing(q, r)
         /\ Scaling(p, r) => Scaling(q, r)
  BY DEF Kept, Summing, Scaling

\* The product at the head of a sum, and the products after it.
LEMMA SummingProducts ==
  ASSUME NEW n \in Nat, tile_reg = Tile(n), feature_chunk \in Chunks, NEW r \in Rows,
         Summing(pe[r], r)
  PROVE  /\ Products(r, 0) = [l \in VLanes |-> Partial(tile_reg, r, feature_chunk, l, 0)]
         /\ \A a \in 1 .. TILE, l \in VLanes :
                Plus(Partial(tile_reg, r, feature_chunk, l, a - 1), Products(r, a)[l])
                    = Partial(tile_reg, r, feature_chunk, l, a)
  <1> DEFINE p == pe[r]
             c == feature_chunk
  <1>1. /\ ~p.normalize /\ p.tile = tile_reg
        /\ \A l \in VLanes : p.old_o[l] = Before(tile_reg, r, c, l)
        /\ \A k \in Keys, l \in VLanes : p.values[k][l] = Address(tile_reg, k, c, l)
    BY DEF Summing
  <1>2. ASSUME NEW l \in VLanes PROVE Product(r, 0, l) = Partial(tile_reg, r, c, l, 0)
    <2>1. Product(r, 0, l) = Rescaled(p.tile, p.old_o[l]) BY <1>1 DEF Product
    <2>2. p.old_o[l] = Before(tile_reg, r, c, l) BY <1>1, <1>2
    <2>3. Product(r, 0, l) = Rescaled(Tile(n), Before(Tile(n), r, c, l)) BY <1>1, <2>1, <2>2
    <2> QED BY <1>2, <2>3, RescaledBefore
  <1>3. ASSUME NEW a \in 1 .. TILE, NEW l \in VLanes
        PROVE  Plus(Partial(tile_reg, r, c, l, a - 1), Products(r, a)[l])
                   = Partial(tile_reg, r, c, l, a)
    <2> DEFINE k == a - 1
    <2>1. k \in Keys /\ a = k + 1 /\ a > 0 BY <1>3, FusionSizes
    <2>2. Products(r, a)[l] = Product(r, a, l) BY <1>3 DEF Products
    <2>3. Product(r, a, l) = Weighted(p.tile, r, k, p.values[k][l]) BY <2>1 DEF Product
    <2> HIDE DEF k
    <2>4. p.values[k][l] = Address(tile_reg, k, c, l) BY <1>1, <1>3, <2>1
    <2>5. Products(r, a)[l] = Weighted(Tile(n), r, k, Address(Tile(n), k, c, l))
      BY <1>1, <2>2, <2>3, <2>4
    <2>6. Plus(Partial(Tile(n), r, c, l, k), Weighted(Tile(n), r, k, Address(Tile(n), k, c, l)))
              = Partial(Tile(n), r, c, l, k + 1)
      BY <1>3, <2>1, PlusNext
    <2> QED BY <2>1, <2>5, <2>6 DEF k
  <1>4. Products(r, 0) = [l \in VLanes |-> Partial(tile_reg, r, c, l, 0)]
    BY <1>2 DEF Products
  <1> QED BY <1>3, <1>4

LEMMA SummingStep ==
  ASSUME NEW n \in Nat, tile_reg = Tile(n), feature_chunk \in Chunks,
         NEW r \in Rows, NEW ip, DOMAIN pe[r] = PeFields,
         pe[r].state \in Busy, ~pe_result_ready, Summing(pe[r], r)
  PROVE  /\ DOMAIN PeNext(r, ip) = PeFields /\ PeNext(r, ip).state \in Busy
         /\ Summing(PeNext(r, ip), r)
  <1> DEFINE p == pe[r]
             q == PeNext(r, ip)
             t == Taken(r, ip)
             c == feature_chunk
             part(k) == [l \in VLanes |-> Partial(tile_reg, r, c, l, k)]
  <1>1. DOMAIN t = PeFields /\ Kept(t, p) BY KeptByHandshake DEF Taken
  <1>2. /\ ~p.normalize /\ p.tile = tile_reg
        /\ \A l \in VLanes : p.old_o[l] = Before(tile_reg, r, c, l)
        /\ \A k \in Keys, l \in VLanes : p.values[k][l] = Address(tile_reg, k, c, l)
        /\ p.state \in {"ADD_SEND", "ADD_WAIT"} => p.add \in 1 .. TILE /\ p.result = part(p.add - 1)
        /\ p.state = "OUTPUT" => p.result = [l \in VLanes |-> Done(tile_reg, r, c, l)]
    BY DEF Summing
  <1>3. \A o : Loaded(o, p) /\ o.state = "MUL_STREAM" => Summing(o, r)
    BY <1>2 DEF Loaded, Summing
  <1>4. \A o : Loaded(o, p) /\ o.state \in {"ADD_SEND", "ADD_WAIT"}
                    /\ o.add \in 1 .. TILE /\ o.result = part(o.add - 1) => Summing(o, r)
    BY <1>2 DEF Loaded, Summing
  <1>5. \A o : Loaded(o, p) /\ o.state = "OUTPUT"
                    /\ o.result = [l \in VLanes |-> Done(tile_reg, r, c, l)] => Summing(o, r)
    BY <1>2 DEF Loaded, Summing
  <1>6. Kept(p, p) BY DEF Kept
  <1>7. CASE p.state = "MUL_STREAM"
    <2> DEFINE o == NextOperands(r, ip)
    <2>1. q = MulStream(r, ip) BY <1>7 DEF PeNext
    <2>2. DOMAIN o = PeFields /\ Kept(o, p)
      <3>1. \A s, x, y : LET z == [t EXCEPT !.send = s, !.a_valid = x, !.b_valid = y]
                        IN  DOMAIN z = PeFields /\ Kept(z, t)
        BY <1>1, KeptByOperands
      <3>2. \A z : Kept(z, t) => Kept(z, p) BY <1>1 DEF Kept
      <3>3. o = t \/ o = [t EXCEPT !.send = t.send + 1, !.a_valid = TRUE, !.b_valid = TRUE]
        BY DEF NextOperands
      <3> HIDE DEF t, o
      <3> QED BY <1>1, <3>1, <3>2, <3>3
    <2> HIDE DEF o
    <2>3. Summing(o, r) /\ o.state = "MUL_STREAM" /\ ~o.normalize
      BY <1>2, <1>7, <2>2, KeptSums DEF Kept
    <2>4. CASE ~product_arrives(r, ip)
      <3>1. q = o BY <2>1, <2>4 DEF MulStream, o
      <3> QED BY <2>2, <2>3, <3>1 DEF Busy
    <2>5. CASE product_arrives(r, ip) /\ o.recv = TILE
      <3> DEFINE z == [o EXCEPT !.state = "ADD_SEND", !.add = 1, !.result = Products(r, 0),
                                !.a_valid = TRUE, !.b_valid = TRUE]
      <3>1. q = z BY <2>1, <2>3, <2>5 DEF MulStream, o
      <3>2. /\ DOMAIN z = PeFields /\ Loaded(z, o) /\ z.state = "ADD_SEND"
            /\ z.result = Products(r, 0) /\ z.add = 1
        BY <2>2 DEF PeFields, Loaded
      <3> HIDE DEF z
      <3>3. Loaded(z, p) BY <2>2, <3>2 DEF Kept, Loaded
      <3>4. Products(r, 0) = part(0) BY SummingProducts
      <3>5. z.add - 1 = 0 /\ z.add \in 1 .. TILE BY <3>2, FusionSizes
      <3>6. z.result = part(z.add - 1) BY <3>2, <3>4, <3>5
      <3>7. Summing(z, r) BY <1>4, <3>2, <3>3, <3>5, <3>6
      <3> QED BY <3>1, <3>2, <3>7 DEF Busy
    <2>6. CASE product_arrives(r, ip) /\ o.recv # TILE
      <3> DEFINE z == [o EXCEPT !.recv = o.recv + 1]
      <3>1. q = z BY <2>1, <2>3, <2>6 DEF MulStream, o
      <3>2. DOMAIN z = PeFields /\ Kept(z, o) BY <2>2, KeptByProduct
      <3> HIDE DEF z
      <3>3. Summing(z, r) /\ z.state = "MUL_STREAM" BY <2>3, <3>2, KeptSums DEF Kept
      <3> QED BY <3>1, <3>2, <3>3 DEF Busy
    <2> QED BY <2>4, <2>5, <2>6
  <1>8. CASE p.state = "ADD_SEND"
    <2>1. q = AddSend(r, ip) BY <1>8 DEF PeNext
    <2>2. CASE t.a_valid \/ t.b_valid
      <3>1. q = t BY <2>1, <2>2 DEF AddSend
      <3>2. Summing(t, r) /\ t.state = "ADD_SEND" BY <1>1, <1>8, KeptSums DEF Kept
      <3> QED BY <1>1, <3>1, <3>2 DEF Busy
    <2>3. CASE ~(t.a_valid \/ t.b_valid)
      <3> DEFINE z == [t EXCEPT !.state = "ADD_WAIT"]
      <3>1. q = z BY <2>1, <2>3 DEF AddSend
      <3>2. /\ DOMAIN z = PeFields /\ Loaded(z, t) /\ z.state = "ADD_WAIT"
            /\ z.result = t.result /\ z.add = t.add
        BY <1>1, AfterState
      <3> HIDE DEF z
      <3>3. Loaded(z, p) /\ z.result = p.result /\ z.add = p.add
        BY <1>1, <3>2 DEF Kept, Loaded
      <3>4. Summing(z, r) BY <1>2, <1>4, <1>8, <3>2, <3>3
      <3> QED BY <3>1, <3>2, <3>4 DEF Busy
    <2> QED BY <2>2, <2>3
  <1>9. CASE p.state = "ADD_WAIT"
    <2> DEFINE a == p.add
               sum == [l \in VLanes |-> Plus(p.result[l], Products(r, a)[l])]
    <2>1. q = AddWait(r, ip) BY <1>9 DEF PeNext
    <2>2. a \in 1 .. TILE /\ p.result = part(a - 1) BY <1>2, <1>9
    <2>3. sum = part(a)
      <3>1. \A b \in 1 .. TILE, l \in VLanes :
                Plus(Partial(tile_reg, r, c, l, b - 1), Products(r, b)[l])
                    = Partial(tile_reg, r, c, l, b)
        BY SummingProducts
      <3> HIDE DEF a
      <3>2. ASSUME NEW l \in VLanes
            PROVE  Plus(p.result[l], Products(r, a)[l]) = Partial(tile_reg, r, c, l, a)
        <4>1. p.result[l] = Partial(tile_reg, r, c, l, a - 1) BY <2>2, <3>2
        <4> QED BY <2>2, <3>1, <3>2, <4>1
      <3> QED BY <3>2
    <2>4. CASE <<r, "result">> \notin ip
      <3>1. q = p BY <2>1, <2>4 DEF AddWait
      <3> QED BY <3>1
    <2>5. CASE <<r, "result">> \in ip /\ a = TILE
      <3> DEFINE z == [p EXCEPT !.state = "OUTPUT", !.result = sum]
      <3>1. q = z BY <2>1, <2>5 DEF AddWait
      <3> HIDE DEF sum
      <3>2. DOMAIN z = PeFields /\ Loaded(z, p) /\ z.state = "OUTPUT" /\ z.result = sum
        <4>1. \A s, y : LET x == [p EXCEPT !.state = s, !.result = y]
                        IN  /\ DOMAIN x = PeFields /\ Loaded(x, p)
                            /\ x.state = s /\ x.result = y
          BY AfterResult
        <4> QED BY <4>1
      <3> HIDE DEF z
      <3>3. sum = [l \in VLanes |-> Done(tile_reg, r, c, l)] BY <2>3, <2>5 DEF Done
      <3>4. z.result = [l \in VLanes |-> Done(tile_reg, r, c, l)] BY <3>2, <3>3
      <3>5. Summing(z, r) BY <1>5, <3>2, <3>4
      <3> QED BY <3>1, <3>2, <3>5 DEF Busy
    <2>6. CASE <<r, "result">> \in ip /\ a # TILE
      <3> DEFINE b == a + 1
                 z == [p EXCEPT !.state = "ADD_SEND", !.add = b, !.result = sum,
                                !.a_valid = TRUE, !.b_valid = TRUE]
      <3>1. q = z BY <2>1, <2>6 DEF AddWait
      <3>2. /\ DOMAIN z = PeFields /\ Loaded(z, p) /\ z.state = "ADD_SEND"
            /\ z.result = sum /\ z.add = b
        <4> HIDE DEF sum, b, p
        <4>1. DOMAIN p = PeFields BY DEF p
        <4> QED BY <4>1 DEF PeFields, Loaded
      <3>3. b \in 1 .. TILE /\ b - 1 = a
        <4>1. TILE \in Nat BY FusionSizes
        <4> HIDE DEF a
        <4> QED BY <2>2, <2>6, <4>1
      <3> HIDE DEF z, a, b, sum
      <3>4. z.result = part(z.add - 1) BY <2>3, <3>2, <3>3
      <3>5. Summing(z, r) BY <1>4, <3>2, <3>3, <3>4
      <3> QED BY <3>1, <3>2, <3>5 DEF Busy
    <2> QED BY <2>4, <2>5, <2>6
  <1>10. CASE p.state = "OUTPUT"
    <2>1. q = p BY <1>10 DEF PeNext
    <2> QED BY <2>1
  <1> QED BY <1>7, <1>8, <1>9, <1>10 DEF Busy

LEMMA ScalingStep ==
  ASSUME NEW n \in Nat, tile_reg = Tile(n), tile_reg.row_tile_last, feature_chunk \in Chunks,
         NEW r \in Rows, NEW ip, DOMAIN pe[r] = PeFields,
         pe[r].state \in Busy, ~pe_result_ready, Scaling(pe[r], r)
  PROVE  /\ DOMAIN PeNext(r, ip) = PeFields /\ PeNext(r, ip).state \in Busy
         /\ Scaling(PeNext(r, ip), r)
  <1> DEFINE p == pe[r]
             q == PeNext(r, ip)
             t == Taken(r, ip)
             c == feature_chunk
             final == [l \in VLanes |-> Final(tile_reg, r, c, l)]
  <1>1. DOMAIN t = PeFields /\ Kept(t, p) BY KeptByHandshake DEF Taken
  <1>2. /\ p.normalize /\ p.recip = tile_reg.number
        /\ \A l \in VLanes : p.old_o[l] = Done(tile_reg, r, c, l)
        /\ p.state \in {"MUL_STREAM", "OUTPUT"}
    BY DEF Scaling
  <1>3. Products(r, 0) = final
    <2>1. ASSUME NEW l \in VLanes PROVE Product(r, 0, l) = Final(tile_reg, r, c, l)
      <3>1. Product(r, 0, l) = Divided(p.recip, p.old_o[l]) BY <1>2 DEF Product
      <3>2. tile_reg.number = n BY TilePlace
      <3>3. p.old_o[l] = Done(tile_reg, r, c, l) BY <1>2, <2>1
      <3>4. Product(r, 0, l) = Divided(n, Done(Tile(n), r, c, l)) BY <1>2, <3>1, <3>2, <3>3
      <3> QED BY <2>1, <3>4, DividedDone
    <2> QED BY <2>1 DEF Products
  <1>4. CASE p.state = "MUL_STREAM"
    <2> DEFINE o == NextOperands(r, ip)
    <2>1. q = MulStream(r, ip) BY <1>4 DEF PeNext
    <2>2. o = t BY <1>1, <1>2 DEF NextOperands, Kept
    <2>3. CASE ~product_arrives(r, ip)
      <3>1. q = t BY <2>1, <2>2, <2>3 DEF MulStream
      <3>2. Scaling(t, r) /\ t.state = "MUL_STREAM" BY <1>1, <1>4, KeptSums DEF Kept
      <3> QED BY <1>1, <3>1, <3>2 DEF Busy
    <2>4. CASE product_arrives(r, ip)
      <3> DEFINE y == Products(r, 0)
                 z == [t EXCEPT !.state = "OUTPUT", !.result = y]
      <3>1. q = z
        <4>1. t.normalize BY <1>1, <1>2 DEF Kept
        <4> HIDE DEF t
        <4> QED BY <2>1, <2>2, <2>4, <4>1 DEF MulStream
      <3> HIDE DEF y, t
      <3>2. DOMAIN z = PeFields /\ Loaded(z, t) /\ z.state = "OUTPUT" /\ z.result = y
        BY <1>1 DEF PeFields, Loaded
      <3> HIDE DEF z
      <3>3. Loaded(z, p) BY <1>1, <3>2 DEF Kept, Loaded
      <3>4. z.result = final BY <1>3, <3>2 DEF y
      <3>5. Scaling(z, r) BY <1>2, <3>2, <3>3, <3>4 DEF Loaded, Scaling
      <3> QED BY <3>1, <3>2, <3>5 DEF Busy
    <2> QED BY <2>3, <2>4
  <1>5. CASE p.state = "OUTPUT"
    <2>1. q = p BY <1>5 DEF PeNext
    <2> QED BY <2>1
  <1> QED BY <1>2, <1>4, <1>5

\* What the elements are started with.
LEMMA Started ==
  ASSUME NEW n \in Nat, tile_reg = Tile(n), feature_chunk \in Chunks,
         key_index \in Keys, Fetched, Held, Dividers, NEW r \in Rows
  PROVE  /\ DOMAIN StartedPe(r) = PeFields /\ StartedPe(r).state = "MUL_STREAM"
         /\ state = "UPDATE_START" => Summing(StartedPe(r), r)
         /\ state = "NORM_START" => Scaling(StartedPe(r), r)
  <1> DEFINE c == feature_chunk
             old == selected_old_o(r)
             norm == state = "NORM_START"
             rc == row_recip[r]
             p == StartedPe(r)
  <1> HIDE DEF old, norm, rc
  <1>1. /\ DOMAIN p = PeFields /\ p.state = "MUL_STREAM" /\ p.normalize = norm
        /\ p.tile = tile_reg /\ p.recip = rc /\ p.old_o = old /\ p.values = v_tile_reg
    <2>1. p = [IdlePe EXCEPT !.state = "MUL_STREAM", !.normalize = norm,
                   !.tile = tile_reg, !.recip = rc,
                   !.old_o = old, !.values = v_tile_reg,
                   !.a_valid = TRUE, !.b_valid = TRUE]
      BY DEF StartedPe, old, norm, rc
    <2>2. DOMAIN IdlePe = PeFields BY DEF IdlePe, PeFields
    <2> DEFINE i == IdlePe
    <2> HIDE DEF p, i
    <2>3. p = [i EXCEPT !.state = "MUL_STREAM", !.normalize = norm,
                   !.tile = tile_reg, !.recip = rc,
                   !.old_o = old, !.values = v_tile_reg,
                   !.a_valid = TRUE, !.b_valid = TRUE] /\ DOMAIN i = PeFields
      BY <2>1, <2>2 DEF i
    <2> QED BY <2>3 DEF PeFields
  <1> HIDE DEF p
  <1>2. \A l \in VLanes : old[l] = IF state = "UPDATE_START" /\ tile_reg.col_base = 0 THEN Zero
                                  ELSE o_state[r][l][c]
    BY DEF old, selected_old_o
  <1>3. ASSUME state = "UPDATE_START" PROVE Summing(p, r)
    <2>1. ASSUME NEW l \in VLanes PROVE old[l] = Before(tile_reg, r, c, l)
      <3>1. CASE tile_reg.col_base = 0
        <4>1. Before(tile_reg, r, c, l) = Zero BY <3>1 DEF Before, Sum
        <4> QED BY <1>2, <1>3, <2>1, <3>1, <4>1
      <3>2. CASE tile_reg.col_base # 0
        <4>1. c \in Int /\ c >= feature_chunk BY FusionSizes
        <4>2. o_state[r][l][c] = Before(tile_reg, r, c, l)
          BY <1>3, <2>1, <3>2, <4>1 DEF Held, Updating
        <4> QED BY <1>2, <1>3, <2>1, <3>2, <4>2
      <3> QED BY <3>1, <3>2
    <2>2. ASSUME NEW k \in Keys, NEW l \in VLanes PROVE v_tile_reg[k][l] = Address(tile_reg, k, c, l)
      BY <1>3, <2>2 DEF Fetched, ValuesFetched, Updating
    <2>3. ~norm BY <1>3 DEF norm
    <2> QED BY <1>1, <2>1, <2>2, <2>3 DEF Summing
  <1>4. ASSUME state = "NORM_START" PROVE Scaling(p, r)
    <2>1. ASSUME NEW l \in VLanes PROVE old[l] = Done(tile_reg, r, c, l)
      <3>1. c \in Int /\ c >= feature_chunk BY FusionSizes
      <3>2. o_state[r][l][c] = Done(tile_reg, r, c, l)
        BY <1>4, <2>1, <3>1 DEF Held, Normalizing
      <3> QED BY <1>2, <1>4, <2>1, <3>2
    <2>2. rc = tile_reg.number BY <1>4 DEF Dividers, Normalizing, rc
    <2>3. norm BY <1>4 DEF norm
    <2> QED BY <1>1, <2>1, <2>2, <2>3 DEF Scaling
  <1> QED BY <1>1, <1>3, <1>4 DEF p

-----------------------------------------------------------------------------
(***************************************************************************)
(* An edge: the control of the backend, and the part of each of its units. *)
(***************************************************************************)
LEMMA TileInWork ==
  ASSUME FusionInv, given > 0
  PROVE  /\ given - 1 \in Nat /\ (given - 1) + 1 = given
         /\ tile_reg = Tile(given - 1) /\ tile_reg.number = given - 1
  <1>1. given \in Nat
    <2>1. given \in 0 .. TOTAL_TILES BY DEF FusionInv, BackendShapes, UnitShapes
    <2> QED BY <2>1
  <1>2. given - 1 \in Nat /\ (given - 1) + 1 = given BY <1>1
  <1>3. tile_reg = Tile(given - 1) BY DEF FusionInv, Order
  <1>4. Tile(given - 1).number = given - 1 BY <1>2, TilePlace
  <1> QED BY <1>2, <1>3, <1>4

Unchanged == UNCHANGED <<backendVars, given, emitted>>

\* Where a step of the backend leads from.
LEMMA ControlStep ==
  ASSUME FusionInv, Work \/ BackendWaits
  PROVE  /\ state' = "V_RSP" => state = "V_REQ"
         /\ state' = "DIV_WAIT" => state = "DIV_START" \/ (state = "DIV_WAIT" /\ Unchanged)
         /\ state' = "UPDATE_WAIT" => \/ state = "UPDATE_START" /\ UNCHANGED <<tile_reg, feature_chunk>>
                                      \/ state = "UPDATE_WAIT" /\ Unchanged /\ ~all_results_valid
         /\ state' = "NORM_WAIT" => \/ state = "NORM_START" /\ UNCHANGED <<tile_reg, feature_chunk>>
                                    \/ state = "NORM_WAIT" /\ Unchanged /\ ~all_results_valid
         /\ state = "V_REQ" => /\ state' = "V_RSP"
                               /\ UNCHANGED <<tile_reg, feature_chunk, key_index, v_tile_reg>>
         /\ state = "V_RSP" => state' # "V_RSP"
         /\ state \in {"UPDATE_START", "NORM_START"} =>
                state' = IF state = "UPDATE_START" THEN "UPDATE_WAIT" ELSE "NORM_WAIT"
         /\ state = "DIV_START" => state' = "DIV_WAIT"
  <1>1. rsp_valid <=> state = "V_RSP" BY DEF FusionInv, Fetched
  <1>2. state = "V_REQ" => v_req_ready BY <1>1 DEF v_req_ready
  <1>3. state \in {"UPDATE_START", "NORM_START"} => all_pe_ready
    BY DEF FusionInv, Elements, Working, all_pe_ready
  <1>4. CASE TakeTile BY <1>4 DEF TakeTile
  <1>5. CASE VReq BY <1>2, <1>5 DEF VReq
  <1>6. CASE VRsp BY <1>1, <1>6 DEF VRsp
  <1>7. CASE StartElements BY <1>3, <1>7 DEF StartElements
  <1>8. CASE Update BY <1>8 DEF Update
  <1>9. CASE DivStart BY <1>9 DEF DivStart
  <1>10. CASE DivDone BY <1>10 DEF DivDone
  <1>11. CASE Normalize BY <1>11 DEF Normalize
  <1>12. CASE ContextOut BY <1>12 DEF ContextOut
  <1>13. CASE BackendWaits
    <2>1. state' = state /\ Unchanged BY <1>13 DEF BackendWaits, backendVars, Unchanged
    <2> QED BY <1>13, <2>1 DEF BackendWaits, Waiting, Unoffered
  <1> QED BY <1>4, <1>5, <1>6, <1>7, <1>8, <1>9, <1>10, <1>11, <1>12, <1>13 DEF Work

LEMMA ElementsStep ==
  ASSUME FusionInv, Work \/ BackendWaits, NEW ip, PeStep(ip)
  PROVE  /\ pe' = [r \in Rows |-> pe'[r]]
         /\ \A r \in Rows : DOMAIN pe'[r] = PeFields
         /\ Elements'
  <1>1. \A r \in Rows : DOMAIN pe[r] = PeFields
    BY DEF FusionInv, BackendShapes, UnitShapes
  <1>2. pe' = [r \in Rows |-> PeNext(r, ip)] BY DEF PeStep
  <1>3. \A r \in Rows : pe'[r] = PeNext(r, ip) BY <1>2
  <1>4. pe' = [r \in Rows |-> pe'[r]] BY <1>2
  <1>5. feature_chunk \in Chunks /\ key_index \in Keys /\ Fetched /\ Held /\ Dividers
    BY DEF FusionInv, BackendShapes, UnitShapes
  <1>6. DOMAIN IdlePe = PeFields /\ IdlePe.state = "IDLE"
    BY DEF IdlePe, PeFields
  <1>7. \A r \in Rows : /\ pe[r].state \in Busy \cup {"IDLE"}
                        /\ pe[r].state = "IDLE" <=> ~Working
    BY DEF FusionInv, Elements, Busy
  <1>8. \A r \in Rows : /\ state = "UPDATE_WAIT" => Summing(pe[r], r)
                        /\ state = "NORM_WAIT" => Scaling(pe[r], r)
    BY DEF FusionInv, Elements
  <1>9. ASSUME NEW r \in Rows, state \in {"UPDATE_START", "NORM_START"}
        PROVE  /\ DOMAIN pe'[r] = PeFields
               /\ pe'[r].state \in Busy /\ Working'
               /\ (state = "UPDATE_WAIT")' => Summing(pe[r], r)'
               /\ (state = "NORM_WAIT")' => Scaling(pe[r], r)'
    <2>1. pe[r].state = "IDLE" /\ all_pe_ready BY <1>7, <1>9 DEF Working, all_pe_ready
    <2>2. pe'[r] = StartedPe(r) BY <1>3, <1>9, <2>1 DEF PeNext, pe_start
    <2>3. given > 0 BY <1>9 DEF FusionInv, Order
    <2>4. given - 1 \in Nat /\ tile_reg = Tile(given - 1) BY <2>3, TileInWork
    <2>5. /\ DOMAIN StartedPe(r) = PeFields /\ StartedPe(r).state = "MUL_STREAM"
          /\ state = "UPDATE_START" => Summing(StartedPe(r), r)
          /\ state = "NORM_START" => Scaling(StartedPe(r), r)
      BY <1>5, <2>4, Started
    <2>6. /\ (state = "UPDATE_START" => state' = "UPDATE_WAIT")
          /\ (state = "NORM_START" => state' = "NORM_WAIT")
      BY ControlStep
    <2>7. UNCHANGED <<tile_reg, feature_chunk>> BY <1>9, <2>6, ControlStep
    <2> DEFINE p == StartedPe(r)
    <2> HIDE DEF p
    <2>8. Working' BY <1>9, <2>6 DEF Working
    <2>9. Summing(p, r) => Summing(pe[r], r)' BY <2>2, <2>7 DEF Summing, p
    <2>10. Scaling(p, r) => Scaling(pe[r], r)' BY <2>2, <2>7 DEF Scaling, p
    <2> QED BY <1>9, <2>2, <2>5, <2>6, <2>8, <2>9, <2>10 DEF p, Busy
  <1>10. ASSUME NEW r \in Rows, Working, ~pe_result_ready
        PROVE  /\ DOMAIN pe'[r] = PeFields
               /\ pe'[r].state \in Busy /\ Working'
               /\ (state = "UPDATE_WAIT")' => Summing(pe[r], r)'
               /\ (state = "NORM_WAIT")' => Scaling(pe[r], r)'
    <2>1. pe[r].state \in Busy BY <1>7, <1>10 DEF Busy
    <2>2. given > 0 BY <1>10 DEF FusionInv, Order, Working
    <2>3. given - 1 \in Nat /\ tile_reg = Tile(given - 1) BY <2>2, TileInWork
    <2>4. state' = state /\ UNCHANGED <<tile_reg, feature_chunk>>
      <3>1. ~all_results_valid BY <1>10 DEF Working, pe_result_ready
      <3>2. ~Work
        BY <1>10, <3>1 DEF Work, Working, TakeTile, VReq, VRsp, StartElements, Update, DivStart,
            DivDone, Normalize, ContextOut
      <3> QED BY <3>2 DEF BackendWaits, backendVars
    <2> DEFINE p == PeNext(r, ip)
    <2>5. ASSUME state = "UPDATE_WAIT"
          PROVE  DOMAIN p = PeFields /\ p.state \in Busy /\ Summing(p, r)
      BY <1>1, <1>5, <1>8, <1>10, <2>1, <2>3, <2>5, SummingStep
    <2>6. ASSUME state = "NORM_WAIT"
          PROVE  DOMAIN p = PeFields /\ p.state \in Busy /\ Scaling(p, r)
      <3>1. tile_reg.row_tile_last BY <2>6 DEF FusionInv, Order, Normalizing
      <3> QED BY <1>1, <1>5, <1>8, <1>10, <2>1, <2>3, <2>6, <3>1, ScalingStep
    <2> HIDE DEF p
    <2>7. pe'[r] = p BY <1>3 DEF p
    <2>8. Summing(p, r) => Summing(pe[r], r)' BY <2>4, <2>7 DEF Summing
    <2>9. Scaling(p, r) => Scaling(pe[r], r)' BY <2>4, <2>7 DEF Scaling
    <2> QED BY <1>10, <2>4, <2>5, <2>6, <2>7, <2>8, <2>9 DEF Working
  <1>11. ASSUME NEW r \in Rows, pe_result_ready
        PROVE  pe'[r] = IdlePe /\ ~Working'
    <2>1. all_results_valid /\ state \in {"UPDATE_WAIT", "NORM_WAIT"}
      BY <1>11 DEF pe_result_ready
    <2>2. pe[r].state = "OUTPUT" BY <1>11, <2>1 DEF all_results_valid
    <2>3. pe'[r] = IdlePe BY <1>3, <1>11, <2>2 DEF PeNext
    <2>4. state' # "UPDATE_WAIT" /\ state' # "NORM_WAIT" BY <2>1, ControlStep
    <2> QED BY <2>3, <2>4 DEF Working
  <1>12. ASSUME NEW r \in Rows, ~Working, state \notin {"UPDATE_START", "NORM_START"}
        PROVE  pe'[r] = pe[r] /\ pe'[r].state = "IDLE" /\ ~Working'
    <2>1. pe[r].state = "IDLE" BY <1>7, <1>12
    <2>2. pe'[r] = pe[r] BY <1>3, <1>12, <2>1 DEF PeNext, pe_start
    <2>3. state' # "UPDATE_WAIT" /\ state' # "NORM_WAIT" BY <1>12, ControlStep DEF Working
    <2> QED BY <2>1, <2>2, <2>3 DEF Working
  <1>13. ASSUME NEW r \in Rows
         PROVE  /\ DOMAIN pe'[r] = PeFields
                /\ pe'[r].state \in Busy \cup {"IDLE"}
                /\ pe'[r].state = "IDLE" <=> ~Working'
                /\ (state = "UPDATE_WAIT")' => Summing(pe[r], r)'
                /\ (state = "NORM_WAIT")' => Scaling(pe[r], r)'
    <2>1. CASE state \in {"UPDATE_START", "NORM_START"} BY <1>9, <1>13, <2>1 DEF Busy
    <2>2. CASE Working /\ ~pe_result_ready BY <1>10, <1>13, <2>2 DEF Busy
    <2>3. CASE pe_result_ready
      <3>1. pe'[r] = IdlePe /\ ~Working' BY <1>11, <1>13, <2>3
      <3> QED BY <1>6, <3>1 DEF Working
    <2>4. CASE ~Working /\ state \notin {"UPDATE_START", "NORM_START"}
      <3>1. pe'[r] = pe[r] /\ pe'[r].state = "IDLE" /\ ~Working' BY <1>12, <1>13, <2>4
      <3> QED BY <1>1, <1>13, <3>1 DEF Working
    <2> QED BY <2>1, <2>2, <2>3, <2>4
  <1>14. Elements' BY <1>13 DEF Elements, Busy
  <1> QED BY <1>4, <1>13, <1>14

\* The element of V that a request asks for.
LEMMA RequestAddress ==
  ASSUME NEW g \in Nat, NEW cb \in Nat, NEW k \in Nat, NEW c \in Nat, NEW l \in Nat
  PROVE  ((g * SEQ_LEN * HEAD_DIM) + (cb + k) * HEAD_DIM + c * V_LANES) + l
             = (g * SEQ_LEN + cb + k) * HEAD_DIM + (c * V_LANES + l)
  <1> DEFINE a == g * SEQ_LEN
             b == cb + k
             d == c * V_LANES
             hd == HEAD_DIM
  <1>1. a \in Nat /\ b \in Nat /\ d \in Nat /\ hd \in Nat BY FusionSizes
  <1>2. a + cb + k = a + b BY <1>1
  <1> HIDE DEF a, b, d, hd
  <1>3. (a + b) * hd = a * hd + b * hd /\ a * hd \in Nat /\ b * hd \in Nat BY <1>1
  <1>4. (a * hd + b * hd + d) + l = (a + b) * hd + (d + l) BY <1>1, <1>3
  <1> QED BY <1>2, <1>4 DEF a, b, d, hd

LEMMA CacheEdge ==
  ASSUME FusionInv, Work \/ BackendWaits, CacheStep
  PROVE  /\ rsp_valid' \in BOOLEAN
         /\ (rsp_valid <=> state = "V_RSP")'
         /\ (rsp_valid => \A l \in VLanes :
                 rsp_data[l] = Address(tile_reg, key_index, feature_chunk, l))'
  <1>1. rsp_valid <=> state = "V_RSP" BY DEF FusionInv, Fetched
  <1>2. CASE state = "V_REQ"
    <2>1. v_req_valid /\ v_req_ready BY <1>1, <1>2 DEF v_req_valid, v_req_ready
    <2>2. rsp_valid' = TRUE /\ rsp_data' = [l \in VLanes |-> v_req_addr + l]
      BY <2>1 DEF CacheStep
    <2>3. state' = "V_RSP" /\ UNCHANGED <<tile_reg, feature_chunk, key_index>>
      BY <1>2, ControlStep
    <2>4. ASSUME NEW l \in VLanes
          PROVE  v_req_addr + l = Address(tile_reg, key_index, feature_chunk, l)
      <3>1. given > 0 BY <1>2 DEF FusionInv, Order
      <3>2. given - 1 \in Nat /\ tile_reg = Tile(given - 1) BY <3>1, TileInWork
      <3>3. 0 \in Rows /\ 0 \in Keys BY FusionSizes
      <3>4. feature_chunk \in Chunks /\ key_index \in Keys BY DEF FusionInv, BackendShapes, UnitShapes
      <3>5. tile_reg.group \in Nat /\ tile_reg.col_base \in Nat
        BY <2>4, <3>2, <3>3, <3>4, TileBounds
      <3>6. key_index \in Nat /\ feature_chunk \in Nat /\ l \in Nat BY <2>4, <3>4, FusionSizes
      <3> DEFINE g == tile_reg.group
                 cb == tile_reg.col_base
                 k == key_index
                 c == feature_chunk
      <3>7. v_req_addr + l
                = ((g * SEQ_LEN * HEAD_DIM) + (cb + k) * HEAD_DIM + c * V_LANES) + l
        BY DEF v_req_addr
      <3>8. Address(tile_reg, key_index, feature_chunk, l)
                = (g * SEQ_LEN + cb + k) * HEAD_DIM + (c * V_LANES + l)
        BY DEF Address, Column
      <3>9. g \in Nat /\ cb \in Nat /\ k \in Nat /\ c \in Nat /\ l \in Nat BY <3>5, <3>6
      <3> HIDE DEF g, cb, k, c
      <3>10. ((g * SEQ_LEN * HEAD_DIM) + (cb + k) * HEAD_DIM + c * V_LANES) + l
                 = (g * SEQ_LEN + cb + k) * HEAD_DIM + (c * V_LANES + l)
        BY <3>9, RequestAddress
      <3> QED BY <3>7, <3>8, <3>10
    <2>5. \A l \in VLanes : rsp_data'[l] = Address(tile_reg, key_index, feature_chunk, l)
      BY <2>2, <2>4
    <2>6. \A l \in VLanes : rsp_data'[l] = Address(tile_reg', key_index', feature_chunk', l)
      BY <2>3, <2>5
    <2> QED BY <2>2, <2>3, <2>6
  <1>3. CASE state # "V_REQ"
    <2>1. rsp_valid' = (rsp_valid /\ ~v_rsp_ready) BY <1>3 DEF CacheStep, v_req_valid
    <2>2. rsp_valid' = FALSE BY <1>1, <2>1 DEF v_rsp_ready
    <2>3. state' # "V_RSP" BY <1>3, ControlStep
    <2> QED BY <2>2, <2>3
  <1> QED BY <1>2, <1>3

LEMMA DividersStep ==
  ASSUME FusionInv, Work \/ BackendWaits, DivStep
  PROVE  /\ div' = [r \in Rows |-> div'[r]]
         /\ \A r \in Rows : DOMAIN div'[r] = DivFields
         /\ Dividers'
  <1>1. \A r \in Rows : DOMAIN div[r] = DivFields BY DEF FusionInv, BackendShapes, UnitShapes
  <1>2. div' = [r \in Rows |-> DivNext(r)] BY DEF DivStep
  <1>3. div' = [r \in Rows |-> div'[r]] BY <1>2
  <1>4. \A r \in Rows : div'[r] = DivNext(r) BY <1>2
  <1>5. ASSUME NEW r \in Rows PROVE DOMAIN div'[r] = DivFields
    <2>1. DOMAIN DivNext(r) = DivFields BY <1>1, <1>5 DEF DivNext, DivFields
    <2> QED BY <1>4, <1>5, <2>1
  <1>6. Dividers BY DEF FusionInv
  <1>7. ASSUME NEW r \in Rows, state = "DIV_START", ~div[r].busy
        PROVE  div'[r].busy /\ ~div'[r].done /\ div'[r].count = 0
    <2>1. div'[r] = [div[r] EXCEPT !.busy = TRUE, !.count = 0, !.done = FALSE]
      BY <1>4, <1>7 DEF DivNext
    <2> QED BY <1>1, <1>7, <2>1, SMTT(30) DEF DivFields
  <1>8. ASSUME NEW r \in Rows, state # "DIV_START", ~div[r].busy
        PROVE  ~div'[r].busy
    <2>1. div'[r] = [div[r] EXCEPT !.done = FALSE] BY <1>4, <1>8 DEF DivNext
    <2> QED BY <1>1, <1>8, <2>1 DEF DivFields
  <1>9. ASSUME NEW r \in Rows, state # "DIV_START", div[r].busy, div[r].count = NUM_W - 1
        PROVE  ~div'[r].busy /\ div'[r].done /\ div'[r].quotient = tile_reg.number
    <2>1. div'[r] = [div[r] EXCEPT !.busy = FALSE, !.done = TRUE, !.quotient = tile_reg.number]
      BY <1>4, <1>9 DEF DivNext
    <2> QED BY <1>1, <1>9, <2>1 DEF DivFields
  <1>10. ASSUME NEW r \in Rows, state # "DIV_START", div[r].busy, ~div[r].done,
                div[r].count # NUM_W - 1
        PROVE  div'[r].busy /\ ~div'[r].done /\ div'[r].count = div[r].count + 1
    <2>1. div'[r] = [div[r] EXCEPT !.count = div[r].count + 1]
      BY <1>4, <1>10 DEF DivNext
    <2> QED BY <1>1, <1>10, <2>1 DEF DivFields
  <1>11. 0 \in Rows BY FusionSizes
  <1>12. CASE state = "DIV_START"
    <2>1. state' = "DIV_WAIT" BY <1>12, ControlStep
    <2>2. \A r \in Rows : div'[r].busy /\ ~div'[r].done /\ div'[r].count = 0
      BY <1>6, <1>7, <1>12 DEF Dividers
    <2>3. ~Normalizing' BY <2>1 DEF Normalizing
    <2>4. Dividers' BY <2>1, <2>2, <2>3 DEF Dividers
    <2> QED BY <1>3, <1>5, <2>4
  <1>13. CASE state = "DIV_WAIT" /\ \A r \in Rows : /\ div[r].busy /\ ~div[r].done
                              /\ \A q \in Rows : div[q].count = div[r].count
    <2>1. ~all_div_complete BY <1>11, <1>13 DEF all_div_complete
    <2>2. UNCHANGED <<state, tile_reg>>
      BY <1>13, <2>1 DEF Work, TakeTile, VReq, VRsp, StartElements, Update, DivStart, DivDone,
          Normalize, ContextOut, BackendWaits, backendVars
    <2>3. ~Normalizing' BY <1>13, <2>2 DEF Normalizing
    <2>4. CASE div[0].count = NUM_W - 1
      <3>1. \A r \in Rows : div[r].count = NUM_W - 1 BY <1>11, <1>13, <2>4
      <3>2. \A r \in Rows : ~div'[r].busy /\ div'[r].done /\ div'[r].quotient = tile_reg'.number
        BY <1>9, <1>13, <2>2, <3>1
      <3>3. Dividers' BY <1>13, <2>2, <2>3, <3>2 DEF Dividers
      <3> QED BY <1>3, <1>5, <3>3
    <2>5. CASE div[0].count # NUM_W - 1
      <3>1. \A r \in Rows : div[r].count = div[0].count BY <1>11, <1>13
      <3>2. \A r \in Rows : div'[r].busy /\ ~div'[r].done /\ div'[r].count = div[0].count + 1
        BY <1>10, <1>13, <2>5, <3>1
      <3>3. Dividers' BY <1>13, <2>2, <2>3, <3>2 DEF Dividers
      <3> QED BY <1>3, <1>5, <3>3
    <2> QED BY <2>4, <2>5
  <1>14. CASE state = "DIV_WAIT" /\ \A r \in Rows : ~div[r].busy /\ div[r].done
                                                 /\ div[r].quotient = tile_reg.number
    <2>1. all_div_complete BY <1>14 DEF all_div_complete
    <2>2. DivDone
      BY <1>14, <2>1 DEF Work, TakeTile, VReq, VRsp, StartElements, Update, DivStart,
          Normalize, ContextOut, BackendWaits, Waiting, Unoffered
    <2>3. state' = "NORM_START" /\ tile_reg' = tile_reg
          /\ row_recip' = [r \in Rows |-> div[r].quotient]
      BY <2>2 DEF DivDone
    <2>4. \A r \in Rows : ~div'[r].busy BY <1>8, <1>14
    <2>5. \A r \in Rows : row_recip'[r] = tile_reg'.number BY <1>14, <2>3
    <2>6. Dividers' BY <2>3, <2>4, <2>5 DEF Dividers
    <2> QED BY <1>3, <1>5, <2>6
  <1>15. CASE state \notin {"DIV_START", "DIV_WAIT"}
    <2>1. state' # "DIV_WAIT" BY <1>15, ControlStep
    <2>2. \A r \in Rows : ~div'[r].busy BY <1>6, <1>8, <1>15 DEF Dividers
    <2>3. Normalizing' => Normalizing /\ UNCHANGED <<tile_reg, row_recip>>
      BY <1>15 DEF Work, TakeTile, VReq, VRsp, StartElements, Update, DivStart, DivDone,
          Normalize, ContextOut, BackendWaits, backendVars, Normalizing
    <2>4. Dividers' BY <1>6, <2>1, <2>2, <2>3 DEF Dividers
    <2> QED BY <1>3, <1>5, <2>4
  <1> QED BY <1>6, <1>12, <1>13, <1>14, <1>15 DEF Dividers

-----------------------------------------------------------------------------
(***************************************************************************)
(* The steps of the backend.                                               *)
(***************************************************************************)
Backend == BackendShapes /\ Order /\ ValuesFetched /\ Held

LEMMA TakeTileStep ==
  ASSUME FusionInv, TakeTile
  PROVE  Backend'
  <1>1. /\ state = "IDLE" /\ given < TOTAL_TILES
        /\ tile_reg' = Tile(given) /\ given' = given + 1
        /\ feature_chunk' = 0 /\ key_index' = 0 /\ v_tile_reg' = NoValues
        /\ state' = "V_REQ" /\ UNCHANGED <<emit_index, o_state, row_recip, emitted>>
    BY DEF TakeTile
  <1>2. BackendShapes /\ Order /\ Held BY DEF FusionInv
  <1>3. given \in Nat /\ TOTAL_TILES \in Nat
    <2>1. GQA_GROUPS * Q_HEADS * RowTiles * RowTiles \in Nat BY FusionSizes
    <2> QED BY <1>2, <2>1 DEF BackendShapes, TOTAL_TILES
  <1>4. given' \in 0 .. TOTAL_TILES /\ given' > 0 /\ given' - 1 = given BY <1>1, <1>3
  <1>5. BackendShapes'
    <2>1. 0 \in Chunks /\ 0 \in Keys BY FusionSizes
    <2>2. NoValues = [k \in Keys |-> NoValues[k]] BY DEF NoValues
    <2> QED BY <1>1, <1>2, <1>4, <2>1, <2>2 DEF BackendShapes
  <1>6. Order'
    <2>1. emitted = RowBlock(given) * CONTEXT_ITEMS /\ emitted \in Nat
      BY <1>1, <1>2 DEF Order, BackendShapes
    <2>2. emitted' = RowBlock(given' - 1) * CONTEXT_ITEMS + 0 BY <1>1, <1>4, <2>1
    <2>3. tile_reg' = Tile(given' - 1) BY <1>1, <1>4
    <2> QED BY <1>1, <1>4, <2>2, <2>3 DEF Order, Dividing, Normalizing, Emitting
  <1>7. ValuesFetched'
    <2>1. \A k \in Keys : ~(k < 0) BY FusionSizes
    <2> QED BY <1>1, <2>1 DEF ValuesFetched, Updating, Fetching
  <1>8. Held'
    <2>1. ASSUME NEW r \in Rows, NEW l \in VLanes, NEW c \in Chunks, tile_reg'.col_base # 0
          PROVE  o_state'[r][l][c] = Before(tile_reg', r, c, l)
      <3>1. 0 \in Keys BY FusionSizes
      <3>2. TileColumn(given) # 0 /\ given # 0 BY <1>1, <1>3, <2>1, <3>1, TileBounds
      <3>3. given > 0 BY <1>3, <3>2
      <3> DEFINE n == given - 1
      <3>4. n \in Nat /\ n + 1 = given /\ tile_reg = Tile(n) BY <3>3, TileInWork
      <3>5. given % RowTiles # 0 BY <3>2 DEF TileColumn
      <3>6. o_state[r][l][c] = Done(tile_reg, r, c, l)
        BY <1>1, <1>2, <2>1, <3>5 DEF Held
      <3> HIDE DEF n
      <3>7. tile_reg' = Tile(n + 1) BY <1>1, <3>4
      <3>8. Tile(n + 1).col_base # 0 BY <2>1, <3>7
      <3>9. Before(Tile(n + 1), r, c, l) = Done(Tile(n), r, c, l)
        BY <2>1, <3>4, <3>8, NextTile
      <3> QED BY <1>1, <3>4, <3>6, <3>7, <3>9
    <2>2. \A c \in Chunks : ~(c < 0) BY FusionSizes
    <2> QED BY <1>1, <2>1, <2>2 DEF Held, Fetching, Updating, Dividing, Normalizing, Emitting
  <1> QED BY <1>5, <1>6, <1>7, <1>8 DEF Backend

LEMMA VReqStep ==
  ASSUME FusionInv, VReq
  PROVE  Backend'
  <1>1. /\ state = "V_REQ" /\ state' = "V_RSP"
        /\ UNCHANGED <<tile_reg, feature_chunk, key_index, emit_index, v_tile_reg, o_state,
                       row_recip, given, emitted>>
    <2>1. state = "V_REQ" BY DEF VReq
    <2>2. state' = "V_RSP" BY <2>1, ControlStep DEF Work
    <2> QED BY <2>1, <2>2 DEF VReq
  <1>2. BackendShapes /\ Order /\ ValuesFetched /\ Held BY DEF FusionInv, Fetched
  <1>3. BackendShapes' BY <1>1, <1>2 DEF BackendShapes
  <1>4. Order' BY <1>1, <1>2 DEF Order, Dividing, Normalizing, Emitting
  <1>5. ValuesFetched' BY <1>1, <1>2 DEF ValuesFetched, Fetching, Updating
  <1>6. Held' BY <1>1, <1>2 DEF Held, Fetching, Updating, Dividing, Normalizing, Emitting
  <1> QED BY <1>3, <1>4, <1>5, <1>6 DEF Backend

LEMMA VRspStep ==
  ASSUME FusionInv, VRsp
  PROVE  Backend'
  <1>1. /\ state = "V_RSP" /\ rsp_valid
        /\ v_tile_reg' = [v_tile_reg EXCEPT ![key_index] = rsp_data]
        /\ \/ key_index = TILE - 1 /\ state' = "UPDATE_START" /\ UNCHANGED key_index
           \/ key_index # TILE - 1 /\ state' = "V_REQ" /\ key_index' = key_index + 1
        /\ UNCHANGED <<tile_reg, feature_chunk, emit_index, o_state, row_recip, given, emitted>>
    BY DEF VRsp, FusionInv, Fetched
  <1>2. BackendShapes /\ Order /\ ValuesFetched /\ Held BY DEF FusionInv, Fetched
  <1>3. \A l \in VLanes : rsp_data[l] = Address(tile_reg, key_index, feature_chunk, l)
    BY <1>1 DEF FusionInv, Fetched
  <1>4. key_index \in Keys /\ v_tile_reg = [k \in Keys |-> v_tile_reg[k]]
    BY <1>2 DEF BackendShapes
  <1>5. /\ v_tile_reg' = [k \in Keys |-> v_tile_reg'[k]]
        /\ v_tile_reg'[key_index] = rsp_data
        /\ \A k \in Keys : k # key_index => v_tile_reg'[k] = v_tile_reg[k]
    BY <1>1, <1>4
  <1>6. BackendShapes'
    <2>1. key_index' = key_index \/ (key_index # TILE - 1 /\ key_index' = key_index + 1)
      BY <1>1
    <2>2. key_index' \in Keys
      <3>1. TILE \in Nat \ {0} /\ Keys = 0 .. TILE - 1 BY FusionSizes
      <3>2. key_index \in 0 .. TILE - 1 BY <1>4, <3>1
      <3>3. key_index' \in 0 .. TILE - 1 BY <2>1, <3>1, <3>2
      <3> QED BY <3>1, <3>3
    <2> QED BY <1>1, <1>2, <1>5, <2>2 DEF BackendShapes
  <1>7. Order' BY <1>1, <1>2 DEF Order, Dividing, Normalizing, Emitting
  <1>8. ValuesFetched'
    <2>1. ASSUME NEW k \in Keys, NEW l \in VLanes, state' = "UPDATE_START" \/ k < key_index'
          PROVE  v_tile_reg'[k][l] = Address(tile_reg, k, feature_chunk, l)
      <3>1. k = key_index \/ k < key_index
        <4>1. TILE \in Nat \ {0} /\ k \in 0 .. TILE - 1 /\ key_index \in 0 .. TILE - 1
          BY <1>4, FusionSizes
        <4>2. \/ key_index = TILE - 1
              \/ key_index' = key_index + 1 /\ k < key_index'
          BY <1>1, <2>1
        <4> QED BY <4>1, <4>2
      <3>2. CASE k = key_index BY <1>3, <1>5, <2>1, <3>2
      <3>3. CASE k < key_index /\ k # key_index
        <4>1. v_tile_reg[k][l] = Address(tile_reg, k, feature_chunk, l)
          BY <1>1, <1>2, <2>1, <3>3 DEF ValuesFetched, Fetching
        <4> QED BY <1>5, <2>1, <3>3, <4>1
      <3> QED BY <3>1, <3>2, <3>3
    <2> QED BY <1>1, <2>1 DEF ValuesFetched, Updating, Fetching
  <1>9. Held' BY <1>1, <1>2 DEF Held, Fetching, Updating, Dividing, Normalizing, Emitting
  <1> QED BY <1>6, <1>7, <1>8, <1>9 DEF Backend

LEMMA StartElementsStep ==
  ASSUME FusionInv, StartElements
  PROVE  Backend'
  <1>1. /\ \/ state = "UPDATE_START" /\ state' = "UPDATE_WAIT"
           \/ state = "NORM_START" /\ state' = "NORM_WAIT"
        /\ UNCHANGED <<tile_reg, feature_chunk, key_index, emit_index, v_tile_reg, o_state,
                       row_recip, given, emitted>>
    <2>1. state \in {"UPDATE_START", "NORM_START"} BY DEF StartElements
    <2>2. state' = IF state = "UPDATE_START" THEN "UPDATE_WAIT" ELSE "NORM_WAIT"
      BY <2>1, ControlStep DEF Work
    <2> QED BY <2>1, <2>2 DEF StartElements
  <1>2. BackendShapes /\ Order /\ ValuesFetched /\ Held BY DEF FusionInv, Fetched
  <1>3. BackendShapes' BY <1>1, <1>2 DEF BackendShapes
  <1>4. Order' BY <1>1, <1>2 DEF Order, Dividing, Normalizing, Emitting
  <1>5. ValuesFetched' BY <1>1, <1>2 DEF ValuesFetched, Fetching, Updating
  <1>6. Held' BY <1>1, <1>2 DEF Held, Fetching, Updating, Dividing, Normalizing, Emitting
  <1> QED BY <1>3, <1>4, <1>5, <1>6 DEF Backend

\* The results of the elements in the memory of O.
LEMMA Stored ==
  ASSUME BackendShapes, StoreResults
  PROVE  /\ o_state' = [r \in Rows |-> [l \in VLanes |-> [c \in Chunks |-> o_state'[r][l][c]]]]
         /\ \A r \in Rows, l \in VLanes, c \in Chunks :
                o_state'[r][l][c] = IF c = feature_chunk THEN pe[r].result[l]
                                    ELSE o_state[r][l][c]
  <1> DEFINE f(r, l) == [o_state[r][l] EXCEPT ![feature_chunk] = pe[r].result[l]]
             new(r, l, c) == IF c = feature_chunk THEN pe[r].result[l] ELSE o_state[r][l][c]
  <1>1. feature_chunk \in Chunks
        /\ o_state = [r \in Rows |-> [l \in VLanes |-> [c \in Chunks |-> o_state[r][l][c]]]]
    BY DEF BackendShapes
  <1>2. o_state' = [r \in Rows |-> [l \in VLanes |-> f(r, l)]] BY DEF StoreResults
  <1>3. ASSUME NEW r \in Rows, NEW l \in VLanes
        PROVE  f(r, l) = [c \in Chunks |-> new(r, l, c)]
    <2> DEFINE o == o_state[r][l]
               z == pe[r].result[l]
    <2>1. o = [c \in Chunks |-> o[c]] BY <1>1, <1>3
    <2> HIDE DEF o, z
    <2>2. [o EXCEPT ![feature_chunk] = z]
              = [c \in Chunks |-> IF c = feature_chunk THEN z ELSE o[c]]
      BY <1>1, <2>1
    <2> QED BY <2>2 DEF o, z
  <1> HIDE DEF f
  <1>4. o_state' = [r \in Rows |-> [l \in VLanes |-> [c \in Chunks |-> new(r, l, c)]]]
    BY <1>2, <1>3
  <1> HIDE DEF new
  <1>5. \A r \in Rows, l \in VLanes, c \in Chunks : o_state'[r][l][c] = new(r, l, c) BY <1>4
  <1>6. o_state' = [r \in Rows |-> [l \in VLanes |-> [c \in Chunks |-> o_state'[r][l][c]]]]
    BY <1>4, <1>5
  <1> QED BY <1>5, <1>6 DEF new

LEMMA UpdateStep ==
  ASSUME FusionInv, Update
  PROVE  Backend'
  <1>1. /\ state = "UPDATE_WAIT" /\ all_results_valid /\ StoreResults
        /\ UNCHANGED <<tile_reg, emit_index, row_recip, given, emitted>>
    BY DEF Update
  <1>2. BackendShapes /\ Order /\ ValuesFetched /\ Held /\ Elements
    BY DEF FusionInv, Fetched
  <1>3. given > 0 BY <1>1, <1>2 DEF Order
  <1> DEFINE n == given - 1
  <1>4. n \in Nat /\ n + 1 = given /\ tile_reg = Tile(n) BY <1>3, TileInWork
  <1>5. \A r \in Rows, l \in VLanes : pe[r].result[l] = Done(tile_reg, r, feature_chunk, l)
    BY <1>1, <1>2 DEF all_results_valid, Elements, Summing
  <1>6. ASSUME NEW r \in Rows, NEW l \in VLanes, NEW c \in Chunks
        PROVE  /\ c <= feature_chunk => o_state'[r][l][c] = Done(tile_reg, r, c, l)
               /\ c > feature_chunk => o_state'[r][l][c] = o_state[r][l][c]
    <2>1. o_state'[r][l][c] = IF c = feature_chunk THEN pe[r].result[l] ELSE o_state[r][l][c]
      BY <1>1, <1>2, <1>6, Stored
    <2>2. c \in Nat /\ feature_chunk \in Nat BY <1>2, FusionSizes DEF BackendShapes
    <2>3. c < feature_chunk => o_state[r][l][c] = Done(tile_reg, r, c, l)
      BY <1>1, <1>2, <1>6 DEF Held, Updating
    <2>4. c = feature_chunk => pe[r].result[l] = Done(tile_reg, r, c, l) BY <1>5, <1>6
    <2> QED BY <2>1, <2>2, <2>3, <2>4
  <1>7. o_state' = [r \in Rows |-> [l \in VLanes |-> [c \in Chunks |-> o_state'[r][l][c]]]]
    BY <1>1, <1>2, Stored
  <1>8. emitted = RowBlock(n) * CONTEXT_ITEMS + 0 /\ emitted = RowBlock(n) * CONTEXT_ITEMS
    <2>1. emitted = RowBlock(n) * CONTEXT_ITEMS + 0 BY <1>1, <1>2 DEF Order, Emitting
    <2>2. RowBlock(n) * CONTEXT_ITEMS \in Nat
      <3>1. RowBlock(n) \in Nat BY <1>4, NextRowBlock
      <3> QED BY <3>1, FusionSizes
    <2> QED BY <2>1, <2>2
  <1>9. CASE last_chunk
    <2>1. /\ state' = IF tile_reg.row_tile_last THEN "DIV_START" ELSE "IDLE"
          /\ UNCHANGED <<feature_chunk, key_index, v_tile_reg>>
      BY <1>9 DEF Update
    <2>2. BackendShapes' BY <1>1, <1>2, <1>7, <2>1 DEF BackendShapes
    <2>3. Order'
      <3>1. CASE tile_reg.row_tile_last
        BY <1>1, <1>2, <1>3, <1>8, <2>1, <3>1 DEF Order, Dividing, Normalizing, Emitting
      <3>2. CASE ~tile_reg.row_tile_last
        <4>1. RowBlock(given) = RowBlock(n) BY <1>4, <3>2, NextRowBlock
        <4> HIDE DEF n
        <4>2. emitted' = RowBlock(given') * CONTEXT_ITEMS BY <1>1, <1>8, <4>1
        <4> QED BY <1>1, <1>2, <2>1, <3>2, <4>2 DEF Order, Dividing, Normalizing, Emitting
      <3> QED BY <3>1, <3>2
    <2>4. ValuesFetched' BY <2>1 DEF ValuesFetched, Fetching, Updating
    <2>5. Held'
      <3>1. \A c \in Chunks : c <= feature_chunk BY <1>9, FusionSizes DEF last_chunk
      <3>2. \A r \in Rows, l \in VLanes, c \in Chunks :
                o_state'[r][l][c] = Done(tile_reg', r, c, l)
        BY <1>1, <1>6, <3>1
      <3> QED BY <2>1, <3>2 DEF Held, Fetching, Updating, Dividing, Normalizing, Emitting
    <2> QED BY <2>2, <2>3, <2>4, <2>5 DEF Backend
  <1>10. CASE ~last_chunk
    <2>1. /\ feature_chunk' = feature_chunk + 1 /\ key_index' = 0
          /\ v_tile_reg' = NoValues /\ state' = "V_REQ"
      BY <1>10 DEF Update
    <2>2. BackendShapes'
      <3>1. feature_chunk' \in Chunks
        <4>1. feature_chunk \in Chunks /\ feature_chunk # FEATURE_CHUNKS - 1
          BY <1>2, <1>10 DEF BackendShapes, last_chunk
        <4> QED BY <2>1, <4>1, FusionSizes
      <3>2. key_index' \in Keys BY <2>1, FusionSizes
      <3>3. NoValues = [k \in Keys |-> NoValues[k]] BY DEF NoValues
      <3> QED BY <1>1, <1>2, <1>7, <2>1, <3>1, <3>2, <3>3 DEF BackendShapes
    <2>3. Order'
      BY <1>1, <1>2, <1>3, <1>8, <2>1 DEF Order, Dividing, Normalizing, Emitting
    <2>4. ValuesFetched'
      <3>1. \A k \in Keys : ~(k < 0) BY FusionSizes
      <3> QED BY <2>1, <3>1 DEF ValuesFetched, Fetching, Updating
    <2>5. Held'
      <3>1. ASSUME NEW r \in Rows, NEW l \in VLanes, NEW c \in Chunks
            PROVE  /\ c < feature_chunk' => o_state'[r][l][c] = Done(tile_reg', r, c, l)
                   /\ c >= feature_chunk' /\ tile_reg'.col_base # 0 =>
                          o_state'[r][l][c] = Before(tile_reg', r, c, l)
        <4>1. c \in Nat /\ feature_chunk \in Nat BY <1>2, FusionSizes DEF BackendShapes
        <4>2. c < feature_chunk' => c <= feature_chunk BY <2>1, <4>1
        <4>3. c >= feature_chunk' => c > feature_chunk /\ c >= feature_chunk BY <2>1, <4>1
        <4>4. c >= feature_chunk /\ tile_reg.col_base # 0 =>
                  o_state[r][l][c] = Before(tile_reg, r, c, l)
          BY <1>1, <1>2, <3>1 DEF Held, Updating
        <4> QED BY <1>1, <1>6, <3>1, <4>2, <4>3, <4>4
      <3> QED BY <2>1, <3>1 DEF Held, Fetching, Updating, Dividing, Normalizing, Emitting
    <2> QED BY <2>2, <2>3, <2>4, <2>5 DEF Backend
  <1> QED BY <1>9, <1>10

LEMMA DivStartStep ==
  ASSUME FusionInv, DivStart
  PROVE  Backend'
  <1>1. /\ state = "DIV_START" /\ state' = "DIV_WAIT"
        /\ UNCHANGED <<tile_reg, feature_chunk, key_index, emit_index, v_tile_reg, o_state,
                       row_recip, given, emitted>>
    BY DEF DivStart
  <1>2. BackendShapes /\ Order /\ ValuesFetched /\ Held BY DEF FusionInv, Fetched
  <1>3. BackendShapes' BY <1>1, <1>2 DEF BackendShapes
  <1>4. Order' BY <1>1, <1>2 DEF Order, Dividing, Normalizing, Emitting
  <1>5. ValuesFetched' BY <1>1, <1>2 DEF ValuesFetched, Fetching, Updating
  <1>6. Held' BY <1>1, <1>2 DEF Held, Fetching, Updating, Dividing, Normalizing, Emitting
  <1> QED BY <1>3, <1>4, <1>5, <1>6 DEF Backend

LEMMA DivDoneStep ==
  ASSUME FusionInv, DivDone
  PROVE  Backend'
  <1>1. /\ state = "DIV_WAIT" /\ state' = "NORM_START" /\ feature_chunk' = 0
        /\ UNCHANGED <<tile_reg, key_index, emit_index, v_tile_reg, o_state, given, emitted>>
    BY DEF DivDone
  <1>2. BackendShapes /\ Order /\ ValuesFetched /\ Held BY DEF FusionInv, Fetched
  <1>3. 0 \in Chunks /\ \A c \in Chunks : ~(c < 0) BY FusionSizes
  <1>4. BackendShapes' BY <1>1, <1>2, <1>3 DEF BackendShapes
  <1>5. Order' BY <1>1, <1>2 DEF Order, Dividing, Normalizing, Emitting
  <1>6. ValuesFetched' BY <1>1, <1>2 DEF ValuesFetched, Fetching, Updating
  <1>7. Held' BY <1>1, <1>2, <1>3 DEF Held, Fetching, Updating, Dividing, Normalizing, Emitting
  <1> QED BY <1>4, <1>5, <1>6, <1>7 DEF Backend

LEMMA NormalizeStep ==
  ASSUME FusionInv, Normalize
  PROVE  Backend'
  <1>1. /\ state = "NORM_WAIT" /\ all_results_valid /\ StoreResults
        /\ UNCHANGED <<tile_reg, key_index, v_tile_reg, row_recip, given, emitted>>
    BY DEF Normalize
  <1>2. BackendShapes /\ Order /\ ValuesFetched /\ Held /\ Elements
    BY DEF FusionInv, Fetched
  <1>3. \A r \in Rows, l \in VLanes : pe[r].result[l] = Final(tile_reg, r, feature_chunk, l)
    <2>1. ASSUME NEW r \in Rows
          PROVE  pe[r].result = [l \in VLanes |-> Final(tile_reg, r, feature_chunk, l)]
      <3>1. pe[r].state = "OUTPUT" BY <1>1, <2>1 DEF all_results_valid
      <3>2. Scaling(pe[r], r) BY <1>1, <1>2, <2>1 DEF Elements
      <3> QED BY <3>1, <3>2 DEF Scaling
    <2> QED BY <2>1
  <1>4. ASSUME NEW r \in Rows, NEW l \in VLanes, NEW c \in Chunks
        PROVE  /\ c <= feature_chunk => o_state'[r][l][c] = Final(tile_reg, r, c, l)
               /\ c > feature_chunk => o_state'[r][l][c] = Done(tile_reg, r, c, l)
    <2>1. o_state'[r][l][c] = IF c = feature_chunk THEN pe[r].result[l] ELSE o_state[r][l][c]
      BY <1>1, <1>2, <1>4, Stored
    <2>2. c \in Nat /\ feature_chunk \in Nat BY <1>2, FusionSizes DEF BackendShapes
    <2>3. /\ c < feature_chunk => o_state[r][l][c] = Final(tile_reg, r, c, l)
          /\ c >= feature_chunk => o_state[r][l][c] = Done(tile_reg, r, c, l)
      BY <1>1, <1>2, <1>4 DEF Held, Normalizing
    <2>4. c = feature_chunk => pe[r].result[l] = Final(tile_reg, r, c, l) BY <1>3, <1>4
    <2> QED BY <2>1, <2>2, <2>3, <2>4
  <1>5. o_state' = [r \in Rows |-> [l \in VLanes |-> [c \in Chunks |-> o_state'[r][l][c]]]]
    BY <1>1, <1>2, Stored
  <1>6. CASE last_chunk
    <2>1. emit_index' = 0 /\ state' = "CONTEXT_OUT" /\ UNCHANGED feature_chunk
      BY <1>6 DEF Normalize
    <2>2. BackendShapes'
      <3>1. 0 \in 0 .. CONTEXT_ITEMS - 1 BY FusionSizes
      <3> QED BY <1>1, <1>2, <1>5, <2>1, <3>1 DEF BackendShapes
    <2>3. Order'
      <3>1. /\ emitted' = RowBlock(given' - 1) * CONTEXT_ITEMS + 0
            /\ tile_reg'.row_tile_last /\ given' > 0
            /\ (given' > 0 => tile_reg' = Tile(given' - 1))
        BY <1>1, <1>2 DEF Order, Normalizing, Emitting
      <3> QED BY <2>1, <3>1 DEF Order, Dividing, Normalizing, Emitting
    <2>4. ValuesFetched' BY <2>1 DEF ValuesFetched, Fetching, Updating
    <2>5. Held'
      <3>1. \A c \in Chunks : c <= feature_chunk BY <1>6, FusionSizes DEF last_chunk
      <3>2. \A r \in Rows, l \in VLanes, c \in Chunks :
                o_state'[r][l][c] = Final(tile_reg', r, c, l)
        BY <1>1, <1>4, <3>1
      <3> QED BY <2>1, <3>2 DEF Held, Fetching, Updating, Dividing, Normalizing, Emitting
    <2> QED BY <2>2, <2>3, <2>4, <2>5 DEF Backend
  <1>7. CASE ~last_chunk
    <2>1. feature_chunk' = feature_chunk + 1 /\ state' = "NORM_START" /\ UNCHANGED emit_index
      BY <1>7 DEF Normalize
    <2>2. BackendShapes'
      <3>1. feature_chunk' \in Chunks
        <4>1. feature_chunk \in Chunks /\ feature_chunk # FEATURE_CHUNKS - 1
          BY <1>2, <1>7 DEF BackendShapes, last_chunk
        <4> QED BY <2>1, <4>1, FusionSizes
      <3> QED BY <1>1, <1>2, <1>5, <2>1, <3>1 DEF BackendShapes
    <2>3. Order' BY <1>1, <1>2, <2>1 DEF Order, Dividing, Normalizing, Emitting
    <2>4. ValuesFetched' BY <2>1 DEF ValuesFetched, Fetching, Updating
    <2>5. Held'
      <3>1. ASSUME NEW r \in Rows, NEW l \in VLanes, NEW c \in Chunks
            PROVE  /\ c < feature_chunk' => o_state'[r][l][c] = Final(tile_reg', r, c, l)
                   /\ c >= feature_chunk' => o_state'[r][l][c] = Done(tile_reg', r, c, l)
        <4>1. c \in Nat /\ feature_chunk \in Nat BY <1>2, FusionSizes DEF BackendShapes
        <4>2. c < feature_chunk' => c <= feature_chunk BY <2>1, <4>1
        <4>3. c >= feature_chunk' => c > feature_chunk BY <2>1, <4>1
        <4> QED BY <1>1, <1>4, <3>1, <4>2, <4>3
      <3> QED BY <2>1, <3>1 DEF Held, Fetching, Updating, Dividing, Normalizing, Emitting
    <2> QED BY <2>2, <2>3, <2>4, <2>5 DEF Backend
  <1> QED BY <1>6, <1>7

LEMMA ContextOutStep ==
  ASSUME FusionInv, ContextOut
  PROVE  Backend'
  <1>1. /\ state = "CONTEXT_OUT" /\ emitted' = emitted + 1
        /\ UNCHANGED <<tile_reg, feature_chunk, key_index, v_tile_reg, o_state, row_recip, given>>
    BY DEF ContextOut
  <1>2. BackendShapes /\ Order /\ ValuesFetched /\ Held BY DEF FusionInv, Fetched
  <1>3. given > 0 /\ tile_reg.row_tile_last BY <1>1, <1>2 DEF Order, Emitting
  <1> DEFINE n == given - 1
             IT == CONTEXT_ITEMS
             b == RowBlock(n)
  <1>4. n \in Nat /\ n + 1 = given /\ tile_reg = Tile(n) BY <1>3, TileInWork
  <1>5. emitted = b * IT + emit_index BY <1>1, <1>2 DEF Order, Emitting
  <1>6. b \in Nat /\ RowBlock(given) = b + 1 /\ given % RowTiles = 0
    BY <1>3, <1>4, NextRowBlock
  <1>7. IT \in Nat \ {0} /\ emit_index \in 0 .. IT - 1 BY <1>2, FusionSizes DEF BackendShapes
  <1> HIDE DEF n, IT, b
  <1>8. b * IT \in Nat BY <1>6, <1>7
  <1>9. emitted \in Nat /\ emitted' \in Nat BY <1>1, <1>5, <1>7, <1>8
  <1>10. CASE emit_index = IT - 1
    <2>1. state' = "IDLE" /\ UNCHANGED emit_index BY <1>10 DEF ContextOut, IT
    <2>2. BackendShapes' BY <1>1, <1>2, <1>9, <2>1 DEF BackendShapes
    <2>3. emitted' = RowBlock(given') * CONTEXT_ITEMS
      <3>1. (b + 1) * IT = b * IT + IT BY <1>6, <1>7
      <3>2. emitted' = (b + 1) * IT BY <1>1, <1>5, <1>7, <1>8, <1>10, <3>1
      <3> QED BY <1>1, <1>6, <3>2 DEF IT
    <2>4. Order' BY <1>1, <1>2, <2>1, <2>3 DEF Order, Dividing, Normalizing, Emitting
    <2>5. ValuesFetched' BY <2>1 DEF ValuesFetched, Fetching, Updating
    <2>6. Held'
      BY <1>1, <1>6, <2>1 DEF Held, Fetching, Updating, Dividing, Normalizing, Emitting
    <2> QED BY <2>2, <2>4, <2>5, <2>6 DEF Backend
  <1>11. CASE emit_index # IT - 1
    <2>1. emit_index' = emit_index + 1 /\ UNCHANGED state BY <1>11 DEF ContextOut, IT
    <2>2. emit_index' \in 0 .. IT - 1 BY <1>7, <1>11, <2>1
    <2>3. BackendShapes' BY <1>1, <1>2, <1>9, <2>1, <2>2 DEF BackendShapes, IT
    <2>4. emitted' = b * IT + emit_index' BY <1>1, <1>5, <1>7, <1>8, <2>1
    <2>5. Order'
      <3>1. emitted' = RowBlock(given' - 1) * CONTEXT_ITEMS + emit_index'
        BY <1>1, <2>4 DEF b, IT, n
      <3> QED BY <1>1, <1>2, <1>3, <2>1, <3>1 DEF Order, Dividing, Normalizing, Emitting
    <2>6. ValuesFetched' BY <1>1, <2>1 DEF ValuesFetched, Fetching, Updating
    <2>7. Held'
      BY <1>1, <1>2, <2>1 DEF Held, Fetching, Updating, Dividing, Normalizing, Emitting
    <2> QED BY <2>3, <2>5, <2>6, <2>7 DEF Backend
  <1> QED BY <1>10, <1>11

LEMMA WaitStep ==
  ASSUME FusionInv, BackendWaits
  PROVE  Backend'
  <1>1. UNCHANGED <<state, tile_reg, feature_chunk, key_index, emit_index, v_tile_reg,
                    o_state, row_recip, given, emitted>>
    BY DEF BackendWaits, backendVars
  <1>2. BackendShapes /\ Order /\ ValuesFetched /\ Held BY DEF FusionInv, Fetched
  <1>3. BackendShapes' BY <1>1, <1>2 DEF BackendShapes
  <1>4. Order' BY <1>1, <1>2 DEF Order, Dividing, Normalizing, Emitting
  <1>5. ValuesFetched' BY <1>1, <1>2 DEF ValuesFetched, Fetching, Updating
  <1>6. Held' BY <1>1, <1>2 DEF Held, Fetching, Updating, Dividing, Normalizing, Emitting
  <1> QED BY <1>3, <1>4, <1>5, <1>6 DEF Backend

\* At the start of a run everything is at rest.
LEMMA ClearStep ==
  ASSUME FusionInv, Clear
  PROVE  FusionInv'
  <1>1. /\ state = "IDLE" /\ state' = "IDLE" /\ given' = 0 /\ emitted' = 0
        /\ feature_chunk' = 0 /\ key_index' = 0 /\ emit_index' = 0
        /\ v_tile_reg' = NoValues /\ pe' = [r \in Rows |-> IdlePe] /\ o_state' = o_state
        /\ DivStep /\ CacheStep
    BY DEF Clear
  <1>2. 0 \in Chunks /\ 0 \in Keys /\ 0 \in 0 .. CONTEXT_ITEMS - 1 BY FusionSizes
  <1>3. RowBlock(0) = 0 /\ 0 % RowTiles = 0
    <2> DEFINE RT == RowTiles
    <2>1. RT \in Nat \ {0} BY FusionSizes
    <2>2. 0 = 0 * RT + 0 /\ 0 \in 0 .. RT - 1 BY <2>1
    <2> HIDE DEF RT
    <2>3. (0 * RT + 0) \div RT = 0 /\ (0 * RT + 0) % RT = 0 BY <2>1, <2>2, QuotientOf
    <2>4. 0 \div RT = 0 /\ 0 % RT = 0 BY <2>2, <2>3
    <2> QED BY <2>4 DEF RowBlock, RT
  <1>4. BackendShapes'
    <2>1. 0 \in 0 .. TOTAL_TILES
      <3>1. GQA_GROUPS * Q_HEADS * RowTiles * RowTiles \in Nat BY FusionSizes
      <3> QED BY <3>1 DEF TOTAL_TILES
    <2>2. NoValues = [k \in Keys |-> NoValues[k]] BY DEF NoValues
    <2>3. BackendShapes BY DEF FusionInv
    <2> QED BY <1>1, <1>2, <2>1, <2>2, <2>3 DEF BackendShapes
  <1>5. Order'
    <2>1. emitted' = RowBlock(given') * CONTEXT_ITEMS
      <3>1. 0 * CONTEXT_ITEMS = 0 BY FusionSizes
      <3> QED BY <1>1, <1>3, <3>1
    <2>2. ~(given' > 0) BY <1>1
    <2> QED BY <1>1, <2>1, <2>2 DEF Order, Dividing, Normalizing, Emitting
  <1>6. Held'
    BY <1>1, <1>3 DEF Held, Fetching, Updating, Dividing, Normalizing, Emitting
  <1>7. rsp_valid' = FALSE
    <2>1. ~rsp_valid BY <1>1 DEF FusionInv, Fetched
    <2> QED BY <1>1, <2>1 DEF CacheStep, v_req_valid, v_rsp_ready
  <1>8. Fetched' BY <1>1, <1>7 DEF Fetched, ValuesFetched, Fetching, Updating
  <1>9. \A r \in Rows : pe'[r] = IdlePe BY <1>1
  <1>10. IdlePe.state = "IDLE" /\ DOMAIN IdlePe = PeFields BY DEF IdlePe, PeFields
  <1>11. Elements' BY <1>1, <1>9, <1>10 DEF Elements, Working
  <1>12. div' = [r \in Rows |-> div'[r]] /\ \A r \in Rows : DOMAIN div'[r] = DivFields
         /\ ~div'[r].busy
    <2>1. div' = [r \in Rows |-> DivNext(r)] BY <1>1 DEF DivStep
    <2>2. ASSUME NEW r \in Rows PROVE DOMAIN DivNext(r) = DivFields /\ ~DivNext(r).busy
      <3>1. DOMAIN div[r] = DivFields BY <2>2 DEF FusionInv, UnitShapes
      <3>2. ~div[r].busy BY <1>1, <2>2 DEF FusionInv, Dividers
      <3>3. DivNext(r) = [div[r] EXCEPT !.done = FALSE] BY <1>1, <3>2 DEF DivNext
      <3> QED BY <3>1, <3>2, <3>3 DEF DivFields
    <2> QED BY <2>1, <2>2
  <1>13. Dividers' BY <1>1, <1>12 DEF Dividers, Normalizing
  <1>14. UnitShapes'
    <2>1. pe' = [r \in Rows |-> pe'[r]] BY <1>1
    <2> QED BY <1>7, <1>9, <1>10, <1>12, <2>1 DEF UnitShapes
  <1> QED BY <1>4, <1>5, <1>6, <1>8, <1>11, <1>13, <1>14 DEF FusionInv

LEMMA EdgeStep ==
  ASSUME FusionInv, NEW ip, FusionEdge(ip)
  PROVE  FusionInv'
  <1>1. (Work \/ BackendWaits) /\ PeStep(ip) /\ DivStep /\ CacheStep BY DEF FusionEdge
  <1>2. Backend'
    BY <1>1, TakeTileStep, VReqStep, VRspStep, StartElementsStep, UpdateStep, DivStartStep,
       DivDoneStep, NormalizeStep, ContextOutStep, WaitStep DEF Work
  <1>3. /\ pe' = [r \in Rows |-> pe'[r]] /\ (\A r \in Rows : DOMAIN pe'[r] = PeFields)
        /\ Elements'
    BY <1>1, ElementsStep
  <1>4. /\ rsp_valid' \in BOOLEAN
        /\ (rsp_valid <=> state = "V_RSP")'
        /\ (rsp_valid => \A l \in VLanes :
                rsp_data[l] = Address(tile_reg, key_index, feature_chunk, l))'
    BY <1>1, CacheEdge
  <1>5. /\ div' = [r \in Rows |-> div'[r]] /\ (\A r \in Rows : DOMAIN div'[r] = DivFields)
        /\ Dividers'
    BY <1>1, DividersStep
  <1>6. UnitShapes' BY <1>3, <1>4, <1>5 DEF UnitShapes
  <1>7. Fetched' BY <1>2, <1>4 DEF Backend, Fetched
  <1> QED BY <1>2, <1>3, <1>5, <1>6, <1>7 DEF FusionInv, Backend

LEMMA FusionStep ==
  ASSUME FusionInv, [FusionNext]_fusionVars
  PROVE  FusionInv'
  <1>1. CASE FusionNext BY <1>1, EdgeStep, ClearStep DEF FusionNext
  <1>2. CASE UNCHANGED fusionVars
    <2>1. UNCHANGED <<state, tile_reg, feature_chunk, key_index, emit_index, v_tile_reg, o_state,
                      row_recip, pe, div, rsp_valid, rsp_data, given, emitted>>
      BY <1>2 DEF fusionVars, backendVars
    <2>2. /\ Fetching' = Fetching /\ Updating' = Updating /\ Dividing' = Dividing
          /\ Normalizing' = Normalizing /\ Emitting' = Emitting /\ Working' = Working
      BY <2>1 DEF Fetching, Updating, Dividing, Normalizing, Emitting, Working
    <2>3. BackendShapes /\ UnitShapes => BackendShapes' /\ UnitShapes'
      BY <2>1 DEF BackendShapes, UnitShapes
    <2>4. Order => Order' BY <2>1, <2>2 DEF Order
    <2>5. Fetched => Fetched' BY <2>1, <2>2 DEF Fetched, ValuesFetched
    <2>6. Held => Held' BY <2>1, <2>2 DEF Held
    <2>7. \A r \in Rows : /\ Summing(pe[r], r) => Summing(pe[r], r)'
                          /\ Scaling(pe[r], r) => Scaling(pe[r], r)'
      BY <2>1 DEF Summing, Scaling
    <2>8. Elements => Elements' BY <2>1, <2>2, <2>7 DEF Elements
    <2>9. Dividers => Dividers' BY <2>1, <2>2 DEF Dividers
    <2> QED BY <2>3, <2>4, <2>5, <2>6, <2>8, <2>9 DEF FusionInv
  <1> QED BY <1>1, <1>2

LEMMA FusionStart == FusionInit => FusionInv
  <1>1. 0 \in Chunks /\ 0 \in Keys /\ 0 \in 0 .. CONTEXT_ITEMS - 1 BY FusionSizes
  <1> SUFFICES ASSUME FusionInit PROVE FusionInv OBVIOUS
  <1> USE DEF FusionInit
  <1>2. RowBlock(0) = 0 /\ 0 % RowTiles = 0
    <2> DEFINE RT == RowTiles
    <2>1. RT \in Nat \ {0} BY FusionSizes
    <2>2. 0 = 0 * RT + 0 /\ 0 \in 0 .. RT - 1 BY <2>1
    <2> HIDE DEF RT
    <2>3. (0 * RT + 0) \div RT = 0 /\ (0 * RT + 0) % RT = 0 BY <2>1, <2>2, QuotientOf
    <2>4. 0 \div RT = 0 /\ 0 % RT = 0 BY <2>2, <2>3
    <2> QED BY <2>4 DEF RowBlock, RT
  <1>3. BackendShapes
    <2>1. 0 \in 0 .. TOTAL_TILES
      <3>1. GQA_GROUPS * Q_HEADS * RowTiles * RowTiles \in Nat BY FusionSizes
      <3> QED BY <3>1 DEF TOTAL_TILES
    <2>2. NoValues = [k \in Keys |-> NoValues[k]] BY DEF NoValues
    <2>3. o_state = [r \in Rows |-> [l \in VLanes |-> [c \in Chunks |-> o_state[r][l][c]]]]
      OBVIOUS
    <2> QED BY <1>1, <2>1, <2>2, <2>3 DEF BackendShapes
  <1>4. Order
    <2>1. emitted = RowBlock(given) * CONTEXT_ITEMS
      <3>1. 0 * CONTEXT_ITEMS = 0 BY FusionSizes
      <3> QED BY <1>2, <3>1
    <2> QED BY <2>1 DEF Order, Dividing, Normalizing, Emitting
  <1>5. Held BY <1>2 DEF Held, Fetching, Updating, Dividing, Normalizing, Emitting
  <1>6. Fetched BY DEF Fetched, ValuesFetched, Fetching, Updating
  <1>7. IdlePe.state = "IDLE" /\ DOMAIN IdlePe = PeFields BY DEF IdlePe, PeFields
  <1>8. Elements BY <1>7 DEF Elements, Working
  <1>9. NoDivision.busy = FALSE /\ DOMAIN NoDivision = DivFields BY DEF NoDivision, DivFields
  <1>10. Dividers BY <1>9 DEF Dividers, Normalizing
  <1>11. UnitShapes BY <1>7, <1>9 DEF UnitShapes
  <1> QED BY <1>3, <1>4, <1>5, <1>6, <1>8, <1>10, <1>11 DEF FusionInv

-----------------------------------------------------------------------------
LEMMA FusionAlways == FusionSpec => []FusionInv
  BY FusionStart, FusionStep, PTL DEF FusionSpec

\* The word on offer.
LEMMA WordOnOffer ==
  ASSUME FusionInv
  PROVE  ContextIsAttention
  <1> SUFFICES ASSUME state = "CONTEXT_OUT"
               PROVE  /\ tile_reg.row_tile_last
                      /\ emitted = ((tile_reg.group * Q_HEADS + tile_reg.head) * SEQ_LEN
                                        + context_row) * HEAD_DIM + context_col
                      /\ context_last = ((emitted + 1) % (Q_HEADS * SEQ_LEN * HEAD_DIM) = 0)
                      /\ context_data = Attention(tile_reg.group, context_row, context_col,
                                                  tile_reg.number)
    BY DEF ContextIsAttention
  <1> DEFINE e == emit_index
             HD == HEAD_DIM
             y == Row(e)
             x == Col(e)
             c == x \div V_LANES
             l == e % V_LANES
  <1>1. BackendShapes /\ Order /\ Held BY DEF FusionInv
  <1>2. given > 0 /\ tile_reg.row_tile_last BY <1>1 DEF Order, Emitting
  <1> DEFINE n == given - 1
  <1>3. n \in Nat /\ n + 1 = given /\ tile_reg = Tile(n) /\ tile_reg.number = n
    BY <1>2, TileInWork
  <1>4. emitted = RowBlock(n) * CONTEXT_ITEMS + e BY <1>1 DEF Order, Emitting
  <1>5. e \in 0 .. CONTEXT_ITEMS - 1 BY <1>1 DEF BackendShapes
  <1>6. /\ emitted = ((tile_reg.group * Q_HEADS + tile_reg.head) * SEQ_LEN
                     + (tile_reg.row_base + Row(e))) * HEAD_DIM + Col(e)
        /\ (tile_reg.group_last /\ e = CONTEXT_ITEMS - 1)
                <=> ((emitted + 1) % (Q_HEADS * SEQ_LEN * HEAD_DIM) = 0)
    <2> HIDE DEF n, e
    <2> QED BY <1>2, <1>3, <1>4, <1>5, EmitPlace
  <1>7. y \in Rows /\ c \in Chunks /\ l \in VLanes /\ Column(c, l) = x
    <2> DEFINE F == FEATURE_CHUNKS
               VL == V_LANES
    <2>1. /\ HD \in Nat \ {0} /\ VL \in Nat \ {0} /\ F \in Nat \ {0} /\ HD = F * VL
          /\ CONTEXT_ITEMS = TILE * HD /\ TILE \in Nat \ {0}
      BY FusionSizes
    <2>2. e \in Nat /\ e < TILE * HD BY <1>5, <2>1
    <2> HIDE DEF e, HD, F, VL
    <2>3. y = e \div HD /\ x = e % HD /\ c = x \div VL /\ l = e % VL
      BY DEF Row, Col, HD, VL
    <2>4. y \in 0 .. TILE - 1 BY <2>1, <2>2, <2>3, QuotientBelow
    <2>5. x \in 0 .. HD - 1 /\ e = y * HD + x
      <3>1. /\ e \div HD \in Nat /\ e % HD \in 0 .. HD - 1
            /\ e = (e \div HD) * HD + (e % HD)
        BY <2>1, <2>2, Division
      <3> HIDE DEF x, y
      <3> QED BY <2>3, <3>1
    <2> HIDE DEF x, y
    <2>6. c \in 0 .. F - 1
      <3>1. x \in Nat /\ x < F * VL BY <2>1, <2>5
      <3>2. x \div VL \in 0 .. F - 1 BY <2>1, <3>1, QuotientBelow
      <3> QED BY <2>3, <3>2
    <2> DEFINE m == x % VL
    <2>7. m \in 0 .. VL - 1 /\ x = c * VL + m
      <3>1. x \in Nat BY <2>1, <2>5
      <3>2. x % VL \in 0 .. VL - 1 /\ x = (x \div VL) * VL + (x % VL)
        BY <2>1, <3>1, Division
      <3> QED BY <2>3, <3>2
    <2> HIDE DEF c, m
    <2> DEFINE a == y * F + c
    <2>8. a \in Nat /\ e = a * VL + m
      <3>1. y \in Nat /\ c \in Nat /\ m \in Nat BY <2>1, <2>4, <2>6, <2>7
      <3>2. y * F \in Nat BY <2>1, <3>1
      <3>3. (y * F + c) * VL = (y * F) * VL + c * VL BY <2>1, <3>1, <3>2
      <3>4. (y * F) * VL = y * HD BY <2>1, <3>1
      <3>5. (y * F) * VL \in Nat /\ c * VL \in Nat BY <2>1, <3>1, <3>2
      <3> QED BY <2>5, <2>7, <3>1, <3>2, <3>3, <3>4, <3>5
    <2> HIDE DEF a
    <2>9. (a * VL + m) % VL = m BY <2>1, <2>7, <2>8, QuotientOf
    <2>10. l = m BY <2>3, <2>8, <2>9
    <2>11. Rows = 0 .. TILE - 1 /\ Chunks = 0 .. F - 1 /\ VLanes = 0 .. VL - 1
      BY FusionSizes DEF F, VL
    <2> HIDE DEF l
    <2>12. Column(c, l) = c * VL + l BY DEF Column, VL
    <2> QED BY <2>4, <2>6, <2>7, <2>10, <2>11, <2>12
  <1>8. context_data = o_state[y][l][c] BY DEF context_data
  <1>9. o_state[y][l][c] = Final(tile_reg, y, c, l)
    <2> HIDE DEF y, l, c
    <2> QED BY <1>1, <1>7 DEF Held, Emitting
  <1>10. context_row = tile_reg.row_base + y /\ context_col = x
    BY DEF context_row, context_col
  <1>11. Final(tile_reg, y, c, l)
             = Attention(tile_reg.group, context_row, context_col, tile_reg.number)
    <2> HIDE DEF y, l, c, x
    <2> QED BY <1>7, <1>10 DEF Final
  <1>12. context_last = ((emitted + 1) % (Q_HEADS * SEQ_LEN * HEAD_DIM) = 0)
    BY <1>6 DEF context_last
  <1>13. emitted = ((tile_reg.group * Q_HEADS + tile_reg.head) * SEQ_LEN
                        + context_row) * HEAD_DIM + context_col
    BY <1>6, <1>10
  <1> QED BY <1>2, <1>8, <1>9, <1>11, <1>12, <1>13

\* The words the backend emits (flash_context_fusion_backend.sv, CONTEXT_OUT)
\* are the attention of the run, in the order of groups, heads, rows and
\* columns: whatever the order in which the cores of the rows answer, whatever
\* the memory of O held before, and for every size of the tile, the sequence
\* and the heads.
THEOREM AttentionEmitted == FusionSpec => []ContextIsAttention
  BY FusionAlways, WordOnOffer, PTL

\* The place of the word on offer, as the context writer reads it off the port:
\* within the ranges it checks, and at the row and column that ContextWriter
\* gives the word of this number.
WordInPlace ==
    state = "CONTEXT_OUT" =>
        /\ tile_reg.group \in 0 .. GQA_GROUPS - 1 /\ tile_reg.head \in 0 .. Q_HEADS - 1
        /\ context_row \in 0 .. SEQ_LEN - 1 /\ context_col \in 0 .. HEAD_DIM - 1
        /\ Row(emitted) = (tile_reg.group * Q_HEADS + tile_reg.head) * SEQ_LEN + context_row
        /\ Col(emitted) = context_col

LEMMA PlaceOnOffer ==
  ASSUME FusionInv
  PROVE  WordInPlace
  <1> SUFFICES ASSUME state = "CONTEXT_OUT"
               PROVE  /\ tile_reg.group \in 0 .. GQA_GROUPS - 1
                      /\ tile_reg.head \in 0 .. Q_HEADS - 1
                      /\ context_row \in 0 .. SEQ_LEN - 1 /\ context_col \in 0 .. HEAD_DIM - 1
                      /\ Row(emitted) = (tile_reg.group * Q_HEADS + tile_reg.head) * SEQ_LEN
                                            + context_row
                      /\ Col(emitted) = context_col
    BY DEF WordInPlace
  <1> DEFINE n == given - 1
             e == emit_index
             g == tile_reg.group
             h == tile_reg.head
             HD == HEAD_DIM
             QH == Q_HEADS
             RT == RowTiles
             GG == GQA_GROUPS
             row == context_row
             col == context_col
  <1>1. given > 0 BY DEF FusionInv, Order
  <1>2. n \in Nat /\ tile_reg = Tile(n) /\ n + 1 = given BY <1>1, TileInWork
  <1>3. e \in 0 .. CONTEXT_ITEMS - 1 /\ given \in 0 .. TOTAL_TILES
    BY DEF FusionInv, BackendShapes
  <1>4. /\ HD \in Nat \ {0} /\ QH \in Nat \ {0} /\ RT \in Nat \ {0} /\ GG \in Nat \ {0}
        /\ TILE \in Nat \ {0} /\ SEQ_LEN \in Nat \ {0} /\ CONTEXT_ITEMS = TILE * HD
        /\ 0 \in Keys /\ 0 \in Chunks /\ 0 \in VLanes
    BY FusionSizes
  <1>5. e \in Nat /\ e < TILE * HD BY <1>3, <1>4
  <1>6. Row(e) \in Rows /\ col \in 0 .. HD - 1
    <2>1. e \div HD \in 0 .. TILE - 1
      <3> HIDE DEF e, HD
      <3> QED BY <1>4, <1>5, QuotientBelow
    <2>2. e % HD \in 0 .. HD - 1 BY <1>4, <1>5, Division
    <2>3. Row(e) = e \div HD /\ col = e % HD BY DEF Row, Col, context_col
    <2> QED BY <2>1, <2>2, <2>3, FusionSizes
  <1>7. row \in 0 .. SEQ_LEN - 1
    <2>1. Tile(n).row_base + Row(e) \in 0 .. SEQ_LEN - 1 BY <1>2, <1>4, <1>6, TileBounds
    <2> QED BY <1>2, <2>1 DEF context_row
  <1>8. h \in 0 .. QH - 1
    <2> DEFINE m == RowBlock(n) \div RowTiles
    <2>1. h = m % QH BY <1>2, TilePlace
    <2>2. RowBlock(n) \in Nat BY <1>2, TilePlace
    <2>3. m \in Nat BY <1>4, <2>2, Division
    <2> HIDE DEF m
    <2> QED BY <1>4, <2>1, <2>3, Division
  <1>9. g \in 0 .. GG - 1
    <2> DEFINE D == QH * RT * RT
    <2>1. g = n \div D BY <1>2 DEF Tile
    <2>2. D \in Nat \ {0} BY <1>4
    <2>3. TOTAL_TILES = GG * D
      <3>1. GG * QH * RT * RT = GG * (QH * RT * RT) BY <1>4
      <3> QED BY <3>1 DEF TOTAL_TILES
    <2> HIDE DEF D, n, g
    <2>4. GG * D \in Nat BY <1>4, <2>2
    <2>5. n < GG * D BY <1>2, <1>3, <2>3, <2>4
    <2> QED BY <1>2, <1>4, <2>1, <2>2, <2>5, QuotientBelow
  <1>10. emitted = ((g * QH + h) * SEQ_LEN + row) * HD + col
    <2>1. ContextIsAttention BY WordOnOffer
    <2> QED BY <2>1 DEF ContextIsAttention
  <1> HIDE DEF g, h, row, col, HD, QH, GG
  <1> DEFINE a == (g * QH + h) * SEQ_LEN + row
  <1>11. a \in Nat
    <2>1. g * QH \in Nat /\ h \in Nat /\ row \in Nat BY <1>4, <1>7, <1>8, <1>9
    <2> DEFINE b == g * QH + h
    <2>2. b \in Nat BY <2>1
    <2> HIDE DEF b
    <2>3. b * SEQ_LEN \in Nat BY <1>4, <2>2
    <2>4. b * SEQ_LEN + row \in Nat BY <2>1, <2>3
    <2> QED BY <2>4 DEF b
  <1> HIDE DEF a
  <1>12. (a * HD + col) \div HD = a /\ (a * HD + col) % HD = col
    BY <1>4, <1>6, <1>11, QuotientOf
  <1>13. emitted = a * HD + col BY <1>10 DEF a
  <1>14. Row(emitted) = a /\ Col(emitted) = col BY <1>12, <1>13 DEF Row, Col, HD
  <1> QED BY <1>6, <1>7, <1>8, <1>9, <1>14 DEF a, g, h, row, col, HD, QH, GG

\* The checks of group, head, row and column (fpt_context_ddr_writer.sv:138)
\* pass for every word of the backend, and the row and column of a word are the
\* quotient and remainder of its number that the model of the writer takes.
THEOREM WordsInPlace == FusionSpec => []WordInPlace
  BY FusionAlways, PlaceOnOffer, PTL
=============================================================================
