------------------------ MODULE OnlineSoftmaxProofs ------------------------
(***************************************************************************)
(* Theorems about the online softmax, for every tile size, sequence        *)
(* length, score range and table of exponentials that starts with 1.0: the *)
(* denominator stays between 1.0 and the number of keys, and an output is  *)
(* the softmax of the whole row, its weights exactly and its denominator   *)
(* up to the error of the table.                                           *)
(***************************************************************************)
EXTENDS OnlineSoftmax, WellFoundedInduction, TLAPS

-----------------------------------------------------------------------------
\* The inductive invariant.

\* A tile starts its columns at the first one.
Fresh ==
    /\ state \in {"PREP", "ALPHA"} => weight_col = 0
    /\ state = "ALPHA" => \A r \in Rows : tile_sum[r] = 0

\* The maximum of a row is not below any of its scores nor its old maximum, and
\* is one of them.
RowOrder(r) ==
    /\ work_old_have[r] => work_old_m[r] <= work_new_m[r]
    /\ \A c \in Unmasked(r) : score_reg[r][c] <= work_new_m[r]
    /\ work_have[r] =>
          \/ work_old_have[r] /\ work_new_m[r] = work_old_m[r]
          \/ \E c \in Unmasked(r) : score_reg[r][c] = work_new_m[r]
WorkOrder == state \in {"ALPHA", "WEIGHT"} => \A r \in Rows : RowOrder(r)

\* What a row brings along from the tiles before.
WorkBounds ==
    state \in {"ALPHA", "WEIGHT"} /\ ~protocol_error =>
        /\ meta.col + TILE <= SEQ_LEN
        /\ expected_col = (meta.col + TILE) % POS_MOD
        /\ \A r \in Rows : /\ work_old_l[r] <= ONE * meta.col
                           /\ work_old_have[r] => ONE <= work_old_l[r]

\* The factor of the old denominator is 1.0 when the maximum stays, and the sum
\* of the tile holds 1.0 once the column of the maximum has passed.
RowSum(r) ==
    /\ work_old_have[r] /\ work_new_m[r] = work_old_m[r] => work_alpha[r] = ONE
    /\ tile_sum[r] <= ONE * weight_col
    /\ work_have[r] /\ (\E c \in Unmasked(r) : c < weight_col /\ score_reg[r][c] = work_new_m[r])
          => ONE <= tile_sum[r]
SumBounds == state = "WEIGHT" => \A r \in Rows : RowSum(r)

\* What is kept for the next tile of the block.
KeptRows ==
    state \in {"IDLE", "PREP", "OUTPUT"} /\ ~protocol_error =>
        \A r \in Rows : /\ row_l[r] <= ONE * expected_col \/ expected_col = 0
                        /\ row_have[r] => ONE <= row_l[r]

IInv == /\ TypeOK /\ Fresh /\ WorkOrder /\ WorkBounds /\ SumBounds /\ KeptRows
        /\ DenominatorInRange
-----------------------------------------------------------------------------
\* Lemmas about the arithmetic.

\* A set of integers with an upper bound has a greatest element.
LEMMA BoundedMaximum ==
    ASSUME NEW S \in SUBSET Score, S # {}
    PROVE  \E m \in S : \A s \in S : s <= m
<1> DEFINE T == {SCORE_MAX - s : s \in S}
<1> SCORE_MAX \in Nat
  BY SoftmaxAssumption
<1>0. \A s \in S : s \in Int /\ SCORE_MAX - s \in Nat
  BY DEF Score
<1>1. T \subseteq Nat /\ T # {}
  BY <1>0
<1>2. \E d \in T : \A e \in T : ~(<<e, d>> \in OpToRel(<, Nat))
  <2> HIDE DEF T
  <2> QED BY <1>1, WFMin, NatLessThanWellFounded, Zenon
<1>3. PICK d \in T : \A e \in T : ~(e < d)
  BY <1>1, <1>2 DEF OpToRel
<1>4. PICK m \in S : d = SCORE_MAX - m
  OBVIOUS
<1>5. ASSUME NEW s \in S PROVE s <= m
  <2>1. SCORE_MAX - s \in T
    OBVIOUS
  <2>2. ~(SCORE_MAX - s < SCORE_MAX - m)
    BY <1>3, <1>4, <2>1
  <2> HIDE DEF T
  <2> QED BY <1>0, <2>2
<1> QED BY <1>5

\* A quotient by ONE is at most q when the dividend is below (q + 1) * ONE.
LEMMA QuotientAtMost ==
    ASSUME NEW n \in Nat, NEW q \in Nat, n < q * ONE + ONE
    PROVE  n \div ONE \in Nat /\ n \div ONE <= q
<1> DEFINE d == n \div ONE
<1>1. ONE \in Nat /\ ONE > 0
  BY SoftmaxAssumption
<1>2. d \in Nat /\ d * ONE <= n
  BY <1>1
<1> HIDE DEF d
<1>3. ASSUME d >= q + 1 PROVE FALSE
  <2>1. d * ONE >= (q + 1) * ONE
    BY <1>1, <1>2, <1>3
  <2>2. (q + 1) * ONE = q * ONE + ONE
    BY <1>1
  <2>3. d * ONE \in Nat /\ q * ONE \in Nat
    BY <1>1, <1>2
  <2> QED BY <1>1, <1>2, <2>1, <2>2, <2>3
<1>4. d <= q
  BY <1>2, <1>3
<1> QED BY <1>2, <1>4 DEF d

\* and at least q when the dividend is not below q * ONE.
LEMMA QuotientAtLeast ==
    ASSUME NEW n \in Nat, NEW q \in Nat, q * ONE <= n
    PROVE  q <= n \div ONE
<1> DEFINE d == n \div ONE
<1>1. ONE \in Nat /\ ONE > 0
  BY SoftmaxAssumption
<1>2. d \in Nat /\ n < d * ONE + ONE
  BY <1>1
<1> HIDE DEF d
<1>3. ASSUME q >= d + 1 PROVE FALSE
  <2>1. q * ONE >= (d + 1) * ONE
    BY <1>1, <1>2, <1>3
  <2>2. (d + 1) * ONE = d * ONE + ONE
    BY <1>1, <1>2
  <2>3. d * ONE \in Nat /\ q * ONE \in Nat
    BY <1>1, <1>2
  <2> QED BY <1>1, <1>2, <2>1, <2>2, <2>3
<1>4. q <= d
  BY <1>2, <1>3
<1> QED BY <1>4 DEF d

\* Rescaling a denominator by a factor of at most 1.0 does not raise it, and a
\* factor of 1.0 keeps it.
LEMMA Rescaling ==
    ASSUME NEW l \in Nat, NEW a \in 0 .. ONE
    PROVE  LET q == (l * a + ONE \div 2) \div ONE
           IN  q \in Nat /\ q <= l /\ (a = ONE => q = l)
<1> DEFINE h == ONE \div 2
           n == l * a + h
<1>1. ONE \in Nat /\ ONE > 0
  BY SoftmaxAssumption
<1>2. h \in Nat /\ h < ONE
  BY <1>1
<1> HIDE DEF h
<1>3. l * a \in Nat /\ l * ONE \in Nat /\ l * a <= l * ONE
  <2>1. a \in Nat /\ ONE - a \in Nat
    BY <1>1
  <2>2. l * (ONE - a) \in Nat
    BY <2>1
  <2>3. l * (ONE - a) = l * ONE - l * a
    BY <1>1, <2>1
  <2>4. l * a \in Nat /\ l * ONE \in Nat
    BY <1>1, <2>1
  <2> QED BY <2>2, <2>3, <2>4
<1>4. n \in Nat /\ n < l * ONE + ONE
  BY <1>1, <1>2, <1>3
<1>5. n \div ONE \in Nat /\ n \div ONE <= l
  <2> HIDE DEF n
  <2> QED BY <1>4, QuotientAtMost
<1>6. ASSUME a = ONE PROVE n \div ONE = l
  <2>1. l * ONE <= n
    BY <1>2, <1>3, <1>6
  <2> HIDE DEF n
  <2>2. l <= n \div ONE
    BY <1>4, <2>1, QuotientAtLeast
  <2> QED BY <1>5, <2>2
<1> QED BY <1>5, <1>6 DEF h

\* The exponential lies between 0 and 1.0, and is 1.0 at the maximum itself.
LEMMA ExpRange ==
    ASSUME NEW d \in Nat
    PROVE  exp_q15(d) \in 0 .. ONE /\ (d = 0 => exp_q15(d) = ONE)
<1>1. 0 \in 0 .. ONE /\ 0 \in 0 .. EXP_LIMIT
  BY SoftmaxAssumption
<1>2. d <= EXP_LIMIT => d \in 0 .. EXP_LIMIT
  BY SoftmaxAssumption
<1> QED BY <1>1, <1>2, SoftmaxAssumption DEF exp_q15

\* The greatest score of a tile's row is one of them and bounds them all.
LEMMA RowMaximum ==
    ASSUME score_reg \in [Rows -> [Cols -> Score]], NEW r \in Rows
    PROVE  /\ capture_row_max(r) \in Int
           /\ capture_row_have(r) => \E c \in Unmasked(r) : score_reg[r][c] = capture_row_max(r)
           /\ \A c \in Unmasked(r) : score_reg[r][c] <= capture_row_max(r)
<1> DEFINE S == {score_reg[r][c] : c \in Unmasked(r)}
<1>1. S \in SUBSET Score
  BY DEF Unmasked
<1>2. CASE capture_row_have(r)
  <2>1. S # {}
    BY <1>2 DEF capture_row_have
  <2>2. \E m \in S : \A s \in S : s <= m
    <3> HIDE DEF S
    <3> QED BY <1>1, <2>1, BoundedMaximum
  <2>3. \E m \in S : \A c \in Unmasked(r) : score_reg[r][c] <= m
    BY <2>2
  <2>4. capture_row_max(r) = CHOOSE m \in S : \A c \in Unmasked(r) : score_reg[r][c] <= m
    BY <1>2, Zenon DEF capture_row_max
  <2>5. /\ capture_row_max(r) \in S
        /\ \A c \in Unmasked(r) : score_reg[r][c] <= capture_row_max(r)
    BY <2>3, <2>4, Zenon
  <2> QED BY <1>1, <2>5 DEF Score
<1>3. CASE ~capture_row_have(r)
  BY <1>3 DEF capture_row_have, capture_row_max
<1> QED BY <1>2, <1>3

\* A number below the modulus is its own remainder.
LEMMA SmallModulo == ASSUME NEW n \in Nat, NEW m \in Nat, n < m PROVE n % m = n
OBVIOUS

\* Two multiples of TILE are at least TILE apart.
LEMMA MultiplesApart ==
    ASSUME NEW a \in Nat, NEW b \in Nat, a % TILE = 0, b % TILE = 0, a < b
    PROVE  a + TILE <= b
<1>1. TILE \in Nat /\ TILE > 0
  BY SoftmaxAssumption
<1>2. PICK p \in Nat, q \in Nat : a = p * TILE /\ b = q * TILE
  <2>1. a = (a \div TILE) * TILE /\ b = (b \div TILE) * TILE /\ a \div TILE \in Nat /\ b \div TILE \in Nat
    BY <1>1
  <2> QED BY <2>1
<1>3. p < q
  <2>1. ASSUME q <= p PROVE FALSE
    <3>1. p - q \in Nat
      BY <2>1
    <3>2. (p - q) * TILE \in Nat
      BY <1>1, <3>1
    <3>3. (p - q) * TILE = p * TILE - q * TILE
      BY <1>1
    <3>4. p * TILE \in Nat /\ q * TILE \in Nat
      BY <1>1
    <3> QED BY <1>2, <3>2, <3>3, <3>4
  <2> QED BY <2>1
<1>4. q - p - 1 \in Nat
  BY <1>3
<1>5. (q - p - 1) * TILE \in Nat
  BY <1>1, <1>4
<1>6. (q - p - 1) * TILE = q * TILE - p * TILE - TILE
  BY <1>1
<1>7. p * TILE \in Nat /\ q * TILE \in Nat
  BY <1>1
<1> QED BY <1>1, <1>2, <1>5, <1>6, <1>7

\* The weight of a key in a row whose maximum bounds its scores.
LEMMA WeightRange ==
    ASSUME TypeOK, NEW r \in Rows, RowOrder(r), NEW c \in Cols
    PROVE  /\ weight(r, c) \in 0 .. ONE
           /\ work_have[r] /\ c \in Unmasked(r) /\ score_reg[r][c] = work_new_m[r]
                => weight(r, c) = ONE
<1> DEFINE d == work_new_m[r] - score_reg[r][c]
<1>1. CASE work_have[r] /\ ~mask_reg[r][c]
  <2>1. c \in Unmasked(r)
    BY <1>1 DEF Unmasked
  <2>2. score_reg[r][c] \in Int /\ work_new_m[r] \in Int
    BY DEF TypeOK, Score
  <2>3. d \in Nat
    BY <2>1, <2>2 DEF RowOrder
  <2>4. weight(r, c) = exp_q15(d)
    BY <1>1 DEF weight
  <2>5. score_reg[r][c] = work_new_m[r] => d = 0
    BY <2>2
  <2> HIDE DEF d
  <2> QED BY <2>3, <2>4, <2>5, ExpRange
<1>2. CASE ~(work_have[r] /\ ~mask_reg[r][c])
  <2>1. weight(r, c) = 0 /\ 0 \in 0 .. ONE
    BY <1>2, SoftmaxAssumption DEF weight
  <2> QED BY <1>2, <2>1 DEF Unmasked
<1> QED BY <1>1, <1>2

\* The factor of the old denominator of such a row.
LEMMA AlphaRange ==
    ASSUME TypeOK, NEW r \in Rows, RowOrder(r)
    PROVE  /\ alpha(r) \in 0 .. ONE
           /\ work_old_have[r] /\ work_new_m[r] = work_old_m[r] => alpha(r) = ONE
<1> DEFINE d == work_new_m[r] - work_old_m[r]
<1>1. CASE work_old_have[r]
  <2>1. work_old_m[r] \in Int /\ work_new_m[r] \in Int
    BY DEF TypeOK
  <2>2. d \in Nat
    BY <1>1, <2>1 DEF RowOrder
  <2>3. alpha(r) = exp_q15(d)
    BY <1>1 DEF alpha
  <2>4. work_new_m[r] = work_old_m[r] => d = 0
    BY <2>1
  <2> HIDE DEF d
  <2> QED BY <2>2, <2>3, <2>4, ExpRange
<1>2. CASE ~work_old_have[r]
  <2>1. alpha(r) = 0 /\ 0 \in 0 .. ONE
    BY <1>2, SoftmaxAssumption DEF alpha
  <2> QED BY <1>2, <2>1
<1> QED BY <1>1, <1>2
-----------------------------------------------------------------------------
\* The invariant holds in the state Reset and Clear lead to.
LEMMA ZeroTypes ==
    /\ Zero \in [Rows -> Int] /\ Zero \in [Rows -> Nat] /\ Zero \in [Rows -> 0 .. ONE]
    /\ Never \in Flags
    /\ ZeroTile \in [Rows -> [Cols -> Score]] /\ ZeroTile \in [Rows -> [Cols -> 0 .. ONE]]
    /\ [r \in Rows |-> [c \in Cols |-> FALSE]] \in [Rows -> [Cols -> BOOLEAN]]
    /\ 0 \in Cols /\ 0 \in Blocks /\ 0 \in 0 .. SEQ_LEN - 1 /\ 0 \in 0 .. POS_MOD - 1
    /\ TILE \in Nat /\ TILE > 0 /\ SEQ_LEN \in Nat /\ SEQ_LEN > 0 /\ ONE \in Nat /\ ONE > 0
    /\ POS_MOD \in Nat /\ POS_MOD >= SEQ_LEN /\ L_MOD \in Nat /\ L_MOD > ONE * SEQ_LEN
    /\ POS_MOD > 0 /\ L_MOD > 0
<1>1. 0 \in 0 .. ONE /\ 0 \in Score
  BY SoftmaxAssumption DEF Score
<1>2. ONE * SEQ_LEN \in Nat /\ L_MOD \in Nat /\ L_MOD > ONE * SEQ_LEN
  BY SoftmaxAssumption
<1>3. L_MOD > 0
  BY <1>2
<1> QED BY <1>1, <1>3, SoftmaxAssumption DEF Zero, Never, Flags, ZeroTile, Cols

LEMMA InitInv == Init => IInv
<1> SUFFICES ASSUME Init PROVE IInv
  OBVIOUS
<1>1. TypeOK
  <2>1. out \in [weights : [Rows -> [Cols -> 0 .. ONE]], alpha : [Rows -> 0 .. ONE],
                 l : [Rows -> Nat], active : Flags]
    BY ZeroTypes DEF Init, NoOutput
  <2> QED BY ZeroTypes, <2>1 DEF Init, TypeOK
<1>2. Fresh /\ WorkOrder /\ WorkBounds /\ SumBounds
  BY DEF Init, Fresh, WorkOrder, WorkBounds, SumBounds
<1>3. KeptRows /\ DenominatorInRange
  BY DEF Init, KeptRows, DenominatorInRange, Never
<1> QED BY <1>1, <1>2, <1>3 DEF IInv

LEMMA ClearInv == Clear => IInv'
<1> SUFFICES ASSUME Clear PROVE IInv'
  OBVIOUS
<1>1. TypeOK'
  <2>1. out' \in [weights : [Rows -> [Cols -> 0 .. ONE]], alpha : [Rows -> 0 .. ONE],
                  l : [Rows -> Nat], active : Flags]
    BY ZeroTypes DEF Clear, NoOutput
  <2> QED BY ZeroTypes, <2>1 DEF Clear, TypeOK
<1>2. Fresh' /\ WorkOrder' /\ WorkBounds' /\ SumBounds'
  BY DEF Clear, Fresh, WorkOrder, WorkBounds, SumBounds
<1>3. KeptRows' /\ DenominatorInRange'
  BY DEF Clear, KeptRows, DenominatorInRange, Never
<1> QED BY <1>1, <1>2, <1>3 DEF IInv

\* A tile that is accepted leaves the rows as they were.
LEMMA AcceptInv ==
    ASSUME IInv, NEW block \in Blocks, NEW col \in 0 .. SEQ_LEN - 1, NEW tile \in Tiles,
           Accept(block, col, tile)
    PROVE  IInv'
<1>1. TypeOK'
  <2>1. tile.score \in [Rows -> [Cols -> Score]] /\ tile.mask \in [Rows -> [Cols -> BOOLEAN]]
    <3>1. tile \in [score : [Rows -> [Cols -> Scores]], mask : [Rows -> [Cols -> BOOLEAN]]]
      BY SoftmaxAssumption, Zenon
    <3>2. Scores \subseteq Score
      BY SoftmaxAssumption DEF Score
    <3>3. tile.score \in [Rows -> [Cols -> Scores]] /\ tile.mask \in [Rows -> [Cols -> BOOLEAN]]
      BY <3>1
    <3> QED BY <3>2, <3>3
  <2>2. score_reg' \in [Rows -> [Cols -> Score]] /\ mask_reg' \in [Rows -> [Cols -> BOOLEAN]]
    BY <2>1 DEF Accept
  <2>3. meta' \in [block : Blocks, col : 0 .. SEQ_LEN - 1]
    BY DEF Accept
  <2>4. work_weights' \in [Rows -> [Cols -> 0 .. ONE]] /\ weight_col' \in Cols
    BY ZeroTypes DEF Accept
  <2> QED BY <2>2, <2>3, <2>4 DEF IInv, TypeOK, Accept, rowVars, workVars
<1>2. Fresh' /\ WorkOrder' /\ WorkBounds' /\ SumBounds' /\ DenominatorInRange'
  BY DEF Accept, Fresh, WorkOrder, WorkBounds, SumBounds, DenominatorInRange
<1>3. KeptRows'
  BY DEF IInv, Accept, KeptRows, rowVars
<1> QED BY <1>1, <1>2, <1>3 DEF IInv

\* So does an output that is taken.
LEMMA OutputInv == ASSUME IInv, Output PROVE IInv'
<1>1. TypeOK'
  BY DEF IInv, TypeOK, Output, rowVars, workVars
<1>2. Fresh' /\ WorkOrder' /\ WorkBounds' /\ SumBounds' /\ DenominatorInRange'
  BY DEF Output, Fresh, WorkOrder, WorkBounds, SumBounds, DenominatorInRange
<1>3. KeptRows'
  BY DEF IInv, Output, KeptRows, rowVars
<1> QED BY <1>1, <1>2, <1>3 DEF IInv

\* The maximum of a row is established when a tile is prepared.
LEMMA PrepInv == ASSUME IInv, Prep PROVE IInv'
<1> USE ZeroTypes
<1>0. TypeOK /\ state = "PREP" /\ state' = "ALPHA"
  BY DEF IInv, Prep
<1>1. TypeOK'
  <2>1. \A r \in Rows : new_m(r) \in Int
    BY <1>0, RowMaximum DEF TypeOK, new_m
  <2>2. work_new_m' \in [Rows -> Int]
    BY <2>1 DEF Prep
  <2>3. work_have' \in Flags
    BY DEF Prep, Flags, capture_row_have
  <2>4. /\ work_old_have' \in Flags /\ work_old_m' \in [Rows -> Int]
        /\ work_old_l' \in [Rows -> Nat] /\ tile_sum' \in [Rows -> Nat]
    BY <1>0 DEF Prep, TypeOK
  <2>5. active_block' \in Blocks
    BY <1>0 DEF Prep, TypeOK
  <2>6. expected_col' \in 0 .. POS_MOD - 1
    <3>1. meta.col + TILE \in Nat
      BY <1>0 DEF TypeOK
    <3>2. expected_col' = (meta.col + TILE) % POS_MOD
      BY DEF Prep
    <3> QED BY <3>1, <3>2
  <2>7. protocol_error' \in BOOLEAN
    BY <1>0 DEF Prep, TypeOK
  <2> QED BY <1>0, <2>2, <2>3, <2>4, <2>5, <2>6, <2>7 DEF TypeOK, Prep, rowVars
<1>2. Fresh'
  BY <1>0 DEF Prep, IInv, Fresh, Zero
<1>3. WorkOrder'
  <2> SUFFICES ASSUME NEW r \in Rows PROVE RowOrder(r)'
    BY DEF WorkOrder
  <2>1. UNCHANGED <<score_reg, mask_reg>> /\ Unmasked(r)' = Unmasked(r)
    BY DEF Prep, Unmasked
  <2>2. /\ work_new_m'[r] = new_m(r)
        /\ work_have'[r] = (capture_row_have(r) \/ (~first_tile /\ row_have[r]))
        /\ work_old_have'[r] = (~first_tile /\ row_have[r])
        /\ ~first_tile => work_old_m'[r] = row_m[r]
    BY <1>0 DEF Prep, Never, TypeOK, Flags
  <2>3. row_m[r] \in Int /\ capture_row_max(r) \in Int
    BY <1>0, RowMaximum DEF TypeOK
  <2>4. \A c \in Unmasked(r) : score_reg[r][c] \in Int
    BY <1>0 DEF TypeOK, Score, Unmasked
  <2>5. ~capture_row_have(r) => Unmasked(r) = {}
    BY DEF capture_row_have
  <2>6. /\ capture_row_have(r) => \E c \in Unmasked(r) : score_reg[r][c] = capture_row_max(r)
        /\ \A c \in Unmasked(r) : score_reg[r][c] <= capture_row_max(r)
    BY <1>0, RowMaximum DEF TypeOK
  <2>7. new_m(r) \in Int /\ (new_m(r) = capture_row_max(r) \/ new_m(r) = row_m[r])
    BY <2>3 DEF new_m
  <2>8. work_old_have'[r] => work_old_m'[r] <= work_new_m'[r]
    <3>1. ~first_tile /\ row_have[r] => row_m[r] <= new_m(r)
      BY <2>3 DEF new_m
    <3> QED BY <2>2, <3>1
  <2>9. \A c \in Unmasked(r) : score_reg[r][c] <= new_m(r)
    <3>1. capture_row_have(r) => capture_row_max(r) <= new_m(r)
      BY <2>3 DEF new_m
    <3> QED BY <2>3, <2>4, <2>5, <2>6, <2>7, <3>1
  <2>10. work_have'[r] => \/ work_old_have'[r] /\ work_new_m'[r] = work_old_m'[r]
                          \/ \E c \in Unmasked(r) : score_reg[r][c] = work_new_m'[r]
    BY <2>2, <2>6 DEF new_m
  <2> QED BY <2>1, <2>2, <2>8, <2>9, <2>10 DEF RowOrder
<1>4. WorkBounds'
  <2> SUFFICES ASSUME ~protocol_error' PROVE /\ meta.col + TILE <= SEQ_LEN
                                            /\ expected_col' = (meta.col + TILE) % POS_MOD
                                            /\ \A r \in Rows : /\ work_old_l'[r] <= ONE * meta.col
                                                               /\ work_old_have'[r] => ONE <= work_old_l'[r]
    BY DEF WorkBounds, Prep
  <2>1. ~protocol_error /\ ~out_of_sequence /\ meta.col % TILE = 0
    BY DEF Prep
  <2>2. meta.col \in Nat /\ meta.col < SEQ_LEN
    BY <1>0 DEF TypeOK
  <2>3. meta.col + TILE <= SEQ_LEN
    BY <2>1, <2>2, MultiplesApart, SoftmaxAssumption
  <2>4. CASE first_tile
    BY <2>3, <2>4 DEF Prep, Never, Zero, first_tile
  <2>5. CASE ~first_tile
    <3>1. meta.col = expected_col /\ meta.col # 0
      BY <2>1, <2>5 DEF out_of_sequence, first_tile
    <3>2. \A r \in Rows : row_l[r] <= ONE * meta.col /\ (row_have[r] => ONE <= row_l[r])
      BY <1>0, <2>1, <3>1 DEF IInv, KeptRows
    <3> QED BY <2>3, <2>5, <3>2 DEF Prep
  <2> QED BY <2>4, <2>5
<1>5. SumBounds' /\ KeptRows' /\ DenominatorInRange'
  BY <1>0 DEF SumBounds, KeptRows, DenominatorInRange
<1> QED BY <1>1, <1>2, <1>3, <1>4, <1>5 DEF IInv

LEMMA AlphaInv == ASSUME IInv, Alpha PROVE IInv'
<1> USE ZeroTypes
<1>0. TypeOK /\ state = "ALPHA" /\ state' = "WEIGHT" /\ \A r \in Rows : RowOrder(r)
  BY DEF IInv, Alpha, WorkOrder
<1>1. /\ work_alpha' \in [Rows -> 0 .. ONE]
      /\ \A r \in Rows : work_old_have[r] /\ work_new_m[r] = work_old_m[r] => work_alpha'[r] = ONE
  BY <1>0, AlphaRange DEF Alpha
<1>2. TypeOK'
  BY <1>0, <1>1 DEF TypeOK, Alpha, rowVars, workVars
<1>3. Fresh' /\ KeptRows' /\ DenominatorInRange'
  BY <1>0 DEF Fresh, KeptRows, DenominatorInRange
<1>4. WorkOrder'
  <2>1. \A r \in Rows : Unmasked(r)' = Unmasked(r)
    BY DEF Alpha, Unmasked
  <2> QED BY <1>0, <2>1 DEF Alpha, workVars, WorkOrder, RowOrder
<1>5. WorkBounds'
  BY <1>0 DEF IInv, Alpha, workVars, WorkBounds
<1>6. SumBounds'
  <2> SUFFICES ASSUME NEW r \in Rows PROVE RowSum(r)'
    BY DEF SumBounds
  <2>1. weight_col' = 0 /\ tile_sum'[r] = 0 /\ ONE * 0 = 0
    BY <1>0 DEF IInv, Fresh, Alpha
  <2>2. Unmasked(r)' \subseteq Cols /\ \A c \in Cols : ~(c < 0)
    BY DEF Unmasked, Cols
  <2> QED BY <1>1, <2>1, <2>2 DEF RowSum, Alpha, workVars
<1> QED BY <1>2, <1>3, <1>4, <1>5, <1>6 DEF IInv

\* The sum of a tile after one more column.
LEMMA SumStep ==
    ASSUME IInv, state = "WEIGHT", NEW r \in Rows
    PROVE  /\ weight(r, weight_col) \in 0 .. ONE
           /\ tile_sum_with_weight(r) \in Nat
           /\ tile_sum_with_weight(r) <= ONE * weight_col + ONE
           /\ work_have[r] /\ (\E c \in Unmasked(r) : c < weight_col + 1 /\ score_reg[r][c] = work_new_m[r])
                => ONE <= tile_sum_with_weight(r)
<1> USE ZeroTypes
<1>0. TypeOK /\ RowOrder(r) /\ RowSum(r) /\ weight_col \in Cols /\ weight_col \in Nat
  <2>1. TypeOK /\ RowOrder(r) /\ RowSum(r)
    BY DEF IInv, WorkOrder, SumBounds
  <2>2. weight_col \in Cols
    BY <2>1 DEF TypeOK
  <2>3. weight_col \in Nat
    BY <2>2 DEF Cols
  <2> QED BY <2>1, <2>2, <2>3
<1> DEFINE w == weight(r, weight_col)
<1>1. w \in 0 .. ONE
  BY <1>0, WeightRange
<1>2. weight_col \in Unmasked(r) /\ work_have[r] /\ score_reg[r][weight_col] = work_new_m[r] => w = ONE
  BY <1>0, WeightRange
<1> HIDE DEF w
<1>3. tile_sum[r] \in Nat /\ tile_sum_with_weight(r) = tile_sum[r] + w
  BY <1>0 DEF TypeOK, tile_sum_with_weight, w
<1>4. tile_sum_with_weight(r) \in Nat /\ tile_sum_with_weight(r) <= ONE * weight_col + ONE
  <2>1. tile_sum[r] <= ONE * weight_col /\ ONE * weight_col \in Nat
    BY <1>0 DEF RowSum
  <2> QED BY <1>1, <1>3, <2>1
<1>5. ASSUME work_have[r],
             NEW c \in Unmasked(r), c < weight_col + 1, score_reg[r][c] = work_new_m[r]
      PROVE  ONE <= tile_sum_with_weight(r)
  <2>1. c \in Nat
    BY DEF Unmasked, Cols
  <2>2. CASE c < weight_col
    <3>1. ONE <= tile_sum[r]
      BY <1>0, <1>5, <2>2 DEF RowSum
    <3> QED BY <1>1, <1>3, <3>1
  <2>3. CASE c = weight_col
    <3>1. w = ONE
      BY <1>2, <1>5, <2>3
    <3> QED BY <1>3, <3>1
  <2> QED BY <1>0, <1>5, <2>1, <2>2, <2>3
<1> QED BY <1>1, <1>4, <1>5 DEF w

\* A column stores its weight in every row.
LEMMA WeightsStored ==
    ASSUME IInv, state = "WEIGHT"
    PROVE  work_weights_next \in [Rows -> [Cols -> 0 .. ONE]]
<1>1. TypeOK /\ weight_col \in Cols /\ \A r \in Rows : weight(r, weight_col) \in 0 .. ONE
  BY SumStep DEF IInv, TypeOK
<1>2. \A r \in Rows :
        [work_weights[r] EXCEPT ![weight_col] = weight(r, weight_col)] \in [Cols -> 0 .. ONE]
  BY <1>1 DEF TypeOK
<1> QED BY <1>2, Zenon DEF work_weights_next

LEMMA WeightInv == ASSUME IInv, Weight PROVE IInv'
<1> USE ZeroTypes
<1>0. TypeOK /\ state = "WEIGHT" /\ state' = state /\ weight_col' = weight_col + 1
  BY DEF IInv, Weight, WeightStep
<1>1. TypeOK'
  <2>1. weight_col' \in Cols
    BY <1>0 DEF TypeOK, Cols, Weight
  <2>2. work_weights' \in [Rows -> [Cols -> 0 .. ONE]]
    BY <1>0, WeightsStored DEF Weight, WeightStep
  <2>3. tile_sum' \in [Rows -> Nat]
    BY <1>0, SumStep DEF Weight, WeightStep
  <2> QED BY <1>0, <2>1, <2>2, <2>3 DEF TypeOK, Weight, WeightStep, rowVars, workVars
<1>2. Fresh' /\ KeptRows' /\ DenominatorInRange'
  BY <1>0 DEF Fresh, KeptRows, DenominatorInRange
<1>3. \A r \in Rows : Unmasked(r)' = Unmasked(r)
  BY DEF Weight, WeightStep, Unmasked
<1>4. WorkOrder'
  BY <1>0, <1>3 DEF IInv, Weight, WeightStep, workVars, WorkOrder, RowOrder
<1>5. WorkBounds'
  BY <1>0 DEF IInv, Weight, WeightStep, workVars, WorkBounds
<1>6. SumBounds'
  <2> SUFFICES ASSUME NEW r \in Rows PROVE RowSum(r)'
    BY DEF SumBounds
  <2>1. tile_sum'[r] = tile_sum_with_weight(r)
    BY DEF Weight, WeightStep
  <2>2. weight_col \in Nat /\ ONE * (weight_col + 1) = ONE * weight_col + ONE
    BY <1>0 DEF TypeOK, Cols
  <2>3. RowSum(r)
    BY <1>0 DEF IInv, SumBounds
  <2> QED BY <1>0, <1>3, <2>1, <2>2, <2>3, SumStep
          DEF RowSum, Weight, WeightStep, workVars
<1> QED BY <1>1, <1>2, <1>4, <1>5, <1>6 DEF IInv

\* The denominators after the last column of a tile.
LEMMA UpdatedDenominator ==
    ASSUME IInv, LastWeight, NEW r \in Rows
    PROVE  /\ l_updated(r) \in Nat
           /\ ~protocol_error => /\ l_updated(r) <= ONE * (meta.col + TILE)
                                 /\ work_have[r] => ONE <= l_updated(r)
<1> USE ZeroTypes
<1>0. /\ TypeOK /\ state = "WEIGHT" /\ weight_col = TILE - 1
      /\ RowOrder(r) /\ RowSum(r)
  BY DEF IInv, LastWeight, WeightStep, WorkOrder, SumBounds
<1>1. work_old_l[r] \in Nat /\ work_alpha[r] \in 0 .. ONE /\ meta.col \in Nat
  BY <1>0 DEF TypeOK
<1> DEFINE s == l_scaled(r)
           t == tile_sum_with_weight(r)
<1>2. s \in Nat /\ s <= work_old_l[r] /\ (work_alpha[r] = ONE => s = work_old_l[r])
  BY <1>1, Rescaling DEF l_scaled
<1>3. t \in Nat /\ t <= ONE * TILE
  <2>1. ONE * (TILE - 1) + ONE = ONE * TILE
    OBVIOUS
  <2> QED BY <1>0, <2>1, SumStep
<1>4. work_have[r] /\ (\E c \in Unmasked(r) : score_reg[r][c] = work_new_m[r]) => ONE <= t
  <2>1. \A c \in Unmasked(r) : c < weight_col + 1
    BY <1>0 DEF Unmasked, Cols
  <2> QED BY <1>0, <2>1, SumStep
<1>5. l_updated(r) = (s + t) % L_MOD
  BY DEF l_updated
<1> HIDE DEF s, t
<1>6. l_updated(r) \in Nat
  <2>1. s + t \in Nat
    BY <1>2, <1>3
  <2> QED BY <1>5, <2>1
<1>7. ASSUME ~protocol_error
      PROVE  /\ l_updated(r) <= ONE * (meta.col + TILE)
             /\ work_have[r] => ONE <= l_updated(r)
  <2>1. /\ meta.col + TILE <= SEQ_LEN /\ work_old_l[r] <= ONE * meta.col
        /\ work_old_have[r] => ONE <= work_old_l[r]
    BY <1>0, <1>7 DEF IInv, WorkBounds
  <2>2. s + t <= ONE * (meta.col + TILE)
    <3>1. ONE * (meta.col + TILE) = ONE * meta.col + ONE * TILE
      BY <1>1
    <3>2. ONE * meta.col \in Nat /\ ONE * TILE \in Nat
      BY <1>1
    <3> QED BY <1>1, <1>2, <1>3, <2>1, <3>1, <3>2
  <2>3. ONE * (meta.col + TILE) <= ONE * SEQ_LEN
    <3>1. SEQ_LEN - (meta.col + TILE) \in Nat
      BY <1>1, <2>1
    <3>2. ONE * (SEQ_LEN - (meta.col + TILE)) \in Nat
      BY <3>1
    <3>3. ONE * (SEQ_LEN - (meta.col + TILE)) = ONE * SEQ_LEN - ONE * (meta.col + TILE)
      BY <1>1
    <3>4. ONE * SEQ_LEN \in Nat /\ ONE * (meta.col + TILE) \in Nat
      BY <1>1
    <3> QED BY <3>2, <3>3, <3>4
  <2>4. l_updated(r) = s + t
    <3>1. ONE * SEQ_LEN \in Nat /\ ONE * (meta.col + TILE) \in Nat
      BY <1>1
    <3>2. s + t \in Nat /\ s + t < L_MOD
      <4>1. s + t \in Nat
        BY <1>2, <1>3
      <4> DEFINE a == ONE * (meta.col + TILE)
                 b == ONE * SEQ_LEN
      <4>2. a \in Nat /\ b \in Nat /\ s + t <= a /\ a <= b /\ b < L_MOD
        BY <2>2, <2>3, <3>1
      <4> HIDE DEF a, b
      <4> QED BY <4>1, <4>2
    <3>3. (s + t) % L_MOD = s + t
      BY <3>2, SmallModulo
    <3> QED BY <1>5, <3>3
  <2>5. ASSUME work_have[r] PROVE ONE <= s + t
    <3>1. CASE work_old_have[r] /\ work_new_m[r] = work_old_m[r]
      <4>1. s = work_old_l[r] /\ ONE <= work_old_l[r]
        BY <1>0, <1>2, <2>1, <3>1 DEF RowSum
      <4> QED BY <1>1, <1>3, <4>1
    <3>2. CASE \E c \in Unmasked(r) : score_reg[r][c] = work_new_m[r]
      BY <1>2, <1>3, <1>4, <2>5, <3>2
    <3> QED BY <1>0, <2>5, <3>1, <3>2 DEF RowOrder
  <2> QED BY <2>2, <2>4, <2>5
<1> QED BY <1>6, <1>7

LEMMA LastWeightInv == ASSUME IInv, LastWeight PROVE IInv'
<1> USE ZeroTypes
<1>0. /\ TypeOK /\ state = "WEIGHT" /\ state' = "OUTPUT"
      /\ UNCHANGED <<meta, expected_col, protocol_error>>
      /\ row_l' = [r \in Rows |-> l_updated(r)] /\ row_have' = work_have
      /\ out'.l = [r \in Rows |-> l_updated(r)] /\ out'.active = work_have
  BY DEF IInv, LastWeight, WeightStep
<1>1. TypeOK'
  <2>1. work_weights_next \in [Rows -> [Cols -> 0 .. ONE]]
    BY <1>0, WeightsStored
  <2>2. tile_sum' \in [Rows -> Nat]
    BY <1>0, SumStep DEF LastWeight, WeightStep
  <2>3. row_l' \in [Rows -> Nat]
    BY <1>0, UpdatedDenominator
  <2>4. out' \in [weights : [Rows -> [Cols -> 0 .. ONE]], alpha : [Rows -> 0 .. ONE],
                  l : [Rows -> Nat], active : Flags]
    BY <1>0, <2>1, <2>3 DEF LastWeight, TypeOK
  <2>5. work_weights' \in [Rows -> [Cols -> 0 .. ONE]]
    BY <2>1 DEF LastWeight, WeightStep
  <2> QED BY <1>0, <2>2, <2>3, <2>4, <2>5 DEF TypeOK, LastWeight, WeightStep, workVars
<1>2. Fresh' /\ WorkOrder' /\ WorkBounds' /\ SumBounds'
  BY <1>0 DEF Fresh, WorkOrder, WorkBounds, SumBounds
<1>3. DenominatorInRange'
  BY <1>0, UpdatedDenominator DEF DenominatorInRange
<1>4. KeptRows'
  <2> SUFFICES ASSUME ~protocol_error, NEW r \in Rows
               PROVE  /\ row_l'[r] <= ONE * expected_col \/ expected_col = 0
                      /\ row_have'[r] => ONE <= row_l'[r]
    BY <1>0 DEF KeptRows
  <2>1. row_l'[r] <= ONE * (meta.col + TILE) /\ (work_have[r] => ONE <= row_l'[r])
    BY <1>0, UpdatedDenominator
  <2>2. meta.col + TILE <= SEQ_LEN /\ expected_col = (meta.col + TILE) % POS_MOD
    BY <1>0 DEF IInv, WorkBounds
  <2>3. meta.col + TILE \in Nat
    BY <1>0 DEF TypeOK
  <2>4. CASE meta.col + TILE < POS_MOD
    <3>1. expected_col = meta.col + TILE
      BY <2>2, <2>3, <2>4
    <3> QED BY <1>0, <2>1, <3>1
  <2>5. CASE meta.col + TILE = POS_MOD
    <3>1. expected_col = 0
      BY <2>2, <2>5
    <3> QED BY <1>0, <2>1, <3>1
  <2> QED BY <2>2, <2>3, <2>4, <2>5
<1> QED BY <1>1, <1>2, <1>3, <1>4 DEF IInv

LEMMA StepInv == IInv /\ [Next]_vars => IInv'
<1> SUFFICES ASSUME IInv, [Next]_vars PROVE IInv'
  OBVIOUS
<1>1. CASE \E block \in Blocks, col \in 0 .. SEQ_LEN - 1, tile \in Tiles : Accept(block, col, tile)
  BY <1>1, AcceptInv
<1>2. CASE Prep
  BY <1>2, PrepInv
<1>3. CASE Alpha
  BY <1>3, AlphaInv
<1>4. CASE Weight
  BY <1>4, WeightInv
<1>5. CASE LastWeight
  BY <1>5, LastWeightInv
<1>6. CASE Output
  BY <1>6, OutputInv
<1>7. CASE Clear
  BY <1>7, ClearInv
<1>8. CASE UNCHANGED vars
  BY <1>8 DEF vars, rowVars, workVars, IInv, TypeOK, Fresh, WorkOrder, RowOrder, Unmasked,
              WorkBounds, SumBounds, RowSum, KeptRows, DenominatorInRange
<1> QED BY <1>1, <1>2, <1>3, <1>4, <1>5, <1>6, <1>7, <1>8 DEF Next

\* The invariant holds in every state of the specification.
THEOREM Invariance == Spec => []IInv
<1> QED BY InitInv, StepInv, PTL DEF Spec

\* Every register of the frontend keeps its type; in particular no weight and
\* no factor is taken from outside the table of exponentials.
THEOREM TypeCorrect == Spec => []TypeOK
<1>1. IInv => TypeOK
  BY DEF IInv
<1> QED BY Invariance, <1>1, PTL

\* The denominator handed to the context backend is at least 1.0 for an active
\* row and at most 1.0 for each key, for every sequence of tiles.
THEOREM DenominatorBounded == Spec => []DenominatorInRange
<1>1. IInv => DenominatorInRange
  BY DEF IInv
<1> QED BY Invariance, <1>1, PTL
-----------------------------------------------------------------------------
\* The tiles given so far, and what the rows know of them.

\* A history of tiles whose last one is in work or was the last to be.
Given == [block : Blocks, col : 0 .. SEQ_LEN - 1,
          score : [Rows -> [Cols -> Score]], mask : [Rows -> [Cols -> BOOLEAN]]]
GivenTypes ==
    /\ given \in Seq(Given)
    /\ state # "IDLE" =>
          /\ given # <<>>
          /\ given[Len(given)] = [block |-> meta.block, col |-> meta.col,
                                  score |-> score_reg, mask |-> mask_reg]

\* The first n tiles are those of one block, from column 0 on.
InRow(n, block) ==
    /\ \A i \in 1 .. n : given[i].block = block /\ given[i].col = (i - 1) * TILE
    /\ n * TILE <= SEQ_LEN
    /\ expected_col = (n * TILE) % POS_MOD

\* m is the greatest score the first n tiles have for row r; without one, have
\* is false.
AtMost(i, r, have, m) == \A c \in Cols : ~given[i].mask[r][c] => have /\ given[i].score[r][c] <= m
Attains(i, r, m) == \E c \in Cols : ~given[i].mask[r][c] /\ given[i].score[r][c] = m
Top(n, r, have, m) ==
    /\ \A i \in 1 .. n : AtMost(i, r, have, m)
    /\ have => \E i \in 1 .. n : Attains(i, r, m)

\* What the rows keep is about the tiles before the one in work.
Kept(n) == InRow(n, active_block) /\ \A r \in Rows : Top(n, r, row_have[r], row_m[r])
Rest == state = "IDLE" /\ ~protocol_error => Kept(Len(given))
Preparing ==
    state = "PREP" /\ ~protocol_error =>
        IF meta.col = 0 THEN Len(given) = 1 ELSE Kept(Len(given) - 1)

\* From the preparation on the work registers know the tile in work as well.
AtWork ==
    state \in {"ALPHA", "WEIGHT", "OUTPUT"} /\ ~protocol_error =>
        /\ active_block = meta.block /\ InRow(Len(given), meta.block)
        /\ \A r \in Rows : Top(Len(given), r, work_have[r], work_new_m[r])

\* The weights of the columns that have passed, and the output.
Weighed ==
    state = "WEIGHT" =>
        \A r \in Rows, c \in Cols : c < weight_col => work_weights[r][c] = weight(r, c)
HandedOver ==
    state = "OUTPUT" =>
        /\ row_have = work_have /\ row_m = work_new_m /\ out.active = work_have
        /\ \A r \in Rows, c \in Cols : out.weights[r][c] = weight(r, c)

GivenInv == GivenTypes /\ Rest /\ Preparing /\ AtWork /\ Weighed /\ HandedOver
-----------------------------------------------------------------------------
\* It holds at the start and is kept by every step.
LEMMA GivenInit == Init => GivenInv
<1> SUFFICES ASSUME Init PROVE GivenInv
  OBVIOUS
<1>1. given = <<>> /\ Len(given) = 0 /\ state = "IDLE" /\ given \in Seq(Given)
  BY DEF Init
<1>2. GivenTypes /\ Preparing /\ AtWork /\ Weighed /\ HandedOver
  BY <1>1 DEF GivenTypes, Preparing, AtWork, Weighed, HandedOver
<1>3. Kept(0)
  <2>1. 0 * TILE = 0 /\ 0 % POS_MOD = 0 /\ 0 <= SEQ_LEN
    BY ZeroTypes
  <2>2. InRow(0, active_block)
    BY <2>1 DEF Init, InRow
  <2>3. \A r \in Rows : Top(0, r, row_have[r], row_m[r])
    BY DEF Init, Never, Top
  <2> QED BY <2>2, <2>3 DEF Kept
<1> QED BY <1>1, <1>2, <1>3 DEF GivenInv, Rest

LEMMA GivenClear == Clear => GivenInv'
<1> SUFFICES ASSUME Clear PROVE GivenInv'
  OBVIOUS
<1>1. given' = <<>> /\ Len(given') = 0 /\ state' = "IDLE" /\ given' \in Seq(Given)
  BY DEF Clear
<1>2. GivenTypes' /\ Preparing' /\ AtWork' /\ Weighed' /\ HandedOver'
  BY <1>1 DEF GivenTypes, Preparing, AtWork, Weighed, HandedOver
<1>3. Kept(0)'
  <2>1. 0 * TILE = 0 /\ 0 % POS_MOD = 0 /\ 0 <= SEQ_LEN
    BY ZeroTypes
  <2>2. InRow(0, active_block)'
    BY <2>1 DEF Clear, InRow
  <2>3. \A r \in Rows : Top(0, r, row_have[r], row_m[r])'
    BY DEF Clear, Never, Top
  <2> QED BY <2>2, <2>3 DEF Kept
<1> QED BY <1>1, <1>2, <1>3 DEF GivenInv, Rest

\* What the rows keep does not depend on the tile that is added.
LEMMA GivenAccept ==
    ASSUME IInv, GivenInv, NEW block \in Blocks, NEW col \in 0 .. SEQ_LEN - 1, NEW tile \in Tiles,
           Accept(block, col, tile)
    PROVE  GivenInv'
<1> DEFINE t == [block |-> block, col |-> col, score |-> tile.score, mask |-> tile.mask]
<1>0. PICK n \in Nat : n = Len(given)
  BY DEF GivenInv, GivenTypes
<1>1. t \in Given
  <2>1. tile \in [score : [Rows -> [Cols -> Scores]], mask : [Rows -> [Cols -> BOOLEAN]]]
    BY SoftmaxAssumption, Zenon
  <2>2. Scores \subseteq Score
    BY SoftmaxAssumption DEF Score
  <2>3. tile.score \in [Rows -> [Cols -> Scores]] /\ tile.mask \in [Rows -> [Cols -> BOOLEAN]]
    BY <2>1
  <2>4. tile.score \in [Rows -> [Cols -> Score]]
    BY <2>2, <2>3
  <2> QED BY <2>3, <2>4 DEF Given
<1>2. given \in Seq(Given) /\ state = "IDLE" /\ state' = "PREP"
  BY DEF GivenInv, GivenTypes, Accept
<1>3. given' = IF col = 0 THEN <<t>> ELSE Append(given, t)
  BY DEF Accept
<1>4. meta' = [block |-> block, col |-> col] /\ score_reg' = tile.score /\ mask_reg' = tile.mask
  BY DEF Accept
<1>5. /\ given' \in Seq(Given) /\ given' # <<>> /\ given'[Len(given')] = t
      /\ col = 0 => Len(given') = 1
      /\ col # 0 => Len(given') = n + 1 /\ \A i \in 1 .. n : given'[i] = given[i]
  <2> HIDE DEF t
  <2> QED BY <1>0, <1>1, <1>2, <1>3
<1>6. GivenTypes'
  BY <1>2, <1>4, <1>5 DEF GivenTypes
<1>7. ASSUME col # 0, ~protocol_error PROVE Kept(n)'
  <2>1. Kept(n)
    BY <1>0, <1>2, <1>7 DEF GivenInv, Rest
  <2>2. UNCHANGED <<row_m, row_have, active_block, expected_col>>
    BY DEF Accept, rowVars
  <2>3. \A i \in 1 .. n : given'[i] = given[i]
    BY <1>5, <1>7
  <2>4. InRow(n, active_block)'
    BY <2>1, <2>2, <2>3 DEF Kept, InRow
  <2>5. \A r \in Rows : Top(n, r, row_have[r], row_m[r])'
    BY <2>1, <2>2, <2>3 DEF Kept, Top, AtMost, Attains
  <2> QED BY <2>4, <2>5 DEF Kept
<1>8. Preparing'
  <2>1. protocol_error' = protocol_error /\ meta'.col = col
    BY <1>4 DEF Accept
  <2>2. col # 0 => Len(given') - 1 = n
    BY <1>2, <1>5
  <2> HIDE DEF t
  <2> QED BY <1>5, <1>7, <2>1, <2>2 DEF Preparing
<1>9. Rest' /\ AtWork' /\ Weighed' /\ HandedOver'
  BY <1>2 DEF Rest, AtWork, Weighed, HandedOver
<1> QED BY <1>6, <1>8, <1>9 DEF GivenInv

\* The products of positions, kept away from the steps.
LEMMA PlaceArithmetic ==
    ASSUME NEW n \in Nat
    PROVE  /\ n * TILE \in Nat /\ (n + 1) * TILE = n * TILE + TILE
           /\ n * TILE <= SEQ_LEN /\ (n * TILE) % POS_MOD # 0 => (n * TILE) % POS_MOD = n * TILE
<1> USE ZeroTypes
<1>1. n * TILE \in Nat /\ (n + 1) * TILE = n * TILE + TILE
  OBVIOUS
<1> DEFINE p == n * TILE
<1>2. p \in Nat
  BY <1>1
<1>3. ASSUME p <= SEQ_LEN, p % POS_MOD # 0 PROVE p % POS_MOD = p
  <2> HIDE DEF p
  <2>1. p # POS_MOD
    BY <1>2, <1>3
  <2>2. p < POS_MOD /\ POS_MOD \in Nat
    BY <1>2, <1>3, <2>1
  <2> QED BY <1>2, <2>2, SmallModulo
<1> QED BY <1>1, <1>3

\* The greatest score of a row after one more tile, as the preparation forms it.
LEMMA TopPrepared ==
    ASSUME IInv, GivenTypes, state = "PREP", NEW r \in Rows,
           first_tile => Len(given) = 1,
           ~first_tile => Top(Len(given) - 1, r, row_have[r], row_m[r])
    PROVE  Top(Len(given), r, capture_row_have(r) \/ (~first_tile /\ row_have[r]), new_m(r))
<1>1. PICK n \in Nat \ {0} : n = Len(given)
  BY DEF GivenTypes
<1> DEFINE have == capture_row_have(r) \/ (~first_tile /\ row_have[r])
<1>2. /\ n \in 1 .. n /\ 1 .. n = (1 .. n - 1) \cup {n}
      /\ n = 1 => 1 .. n = {n}
  OBVIOUS
<1>3. given[n].score = score_reg /\ given[n].mask = mask_reg
  BY <1>1 DEF GivenTypes
<1>4. /\ TypeOK /\ score_reg \in [Rows -> [Cols -> Score]]
      /\ row_have[r] \in BOOLEAN /\ row_m[r] \in Int
  BY DEF IInv, TypeOK, Flags
<1>5. \A c \in Cols : c \in Unmasked(r) <=> ~mask_reg[r][c]
  BY DEF Unmasked
<1>6. \A c \in Cols : score_reg[r][c] \in Int
  BY <1>4 DEF Score
<1>7. /\ capture_row_max(r) \in Int
      /\ capture_row_have(r) => Attains(n, r, capture_row_max(r))
      /\ AtMost(n, r, capture_row_have(r), capture_row_max(r))
  <2>1. /\ capture_row_max(r) \in Int
        /\ capture_row_have(r) => \E c \in Unmasked(r) : score_reg[r][c] = capture_row_max(r)
        /\ \A c \in Unmasked(r) : score_reg[r][c] <= capture_row_max(r)
    BY <1>4, RowMaximum
  <2>2. \A c \in Cols : ~mask_reg[r][c] => capture_row_have(r)
    BY <1>5 DEF capture_row_have
  <2>3. Unmasked(r) \subseteq Cols
    BY DEF Unmasked
  <2> QED BY <1>3, <1>5, <2>1, <2>2, <2>3 DEF Attains, AtMost
<1>8. CASE first_tile \/ ~row_have[r]
  <2>1. new_m(r) = capture_row_max(r) /\ have = capture_row_have(r)
    <3>1. new_m(r) = capture_row_max(r)
      BY <1>8 DEF new_m
    <3>2. have = capture_row_have(r)
      BY <1>8 DEF capture_row_have
    <3> QED BY <3>1, <3>2
  <2>2. \A i \in 1 .. n - 1 : AtMost(i, r, capture_row_have(r), capture_row_max(r))
    <3>1. CASE first_tile
      BY <1>1, <3>1
    <3>2. CASE ~first_tile
      <4>1. \A i \in 1 .. n - 1 : AtMost(i, r, FALSE, row_m[r])
        BY <1>1, <1>4, <1>8, <3>2 DEF Top
      <4> QED BY <4>1 DEF AtMost
    <3> QED BY <3>1, <3>2
  <2> QED BY <1>1, <1>2, <1>7, <2>1, <2>2 DEF Top
<1>9. CASE ~first_tile /\ row_have[r]
  <2>1. /\ have /\ (new_m(r) = row_m[r] \/ (new_m(r) = capture_row_max(r) /\ capture_row_have(r)))
        /\ row_m[r] <= new_m(r) /\ (capture_row_have(r) => capture_row_max(r) <= new_m(r))
    BY <1>4, <1>7, <1>9 DEF new_m
  <2>2. /\ \A i \in 1 .. n - 1 : AtMost(i, r, TRUE, row_m[r])
        /\ \E i \in 1 .. n - 1 : Attains(i, r, row_m[r])
    BY <1>1, <1>4, <1>9 DEF Top
  <2>3. AtMost(n, r, have, new_m(r))
    <3> SUFFICES ASSUME NEW c \in Cols, ~given[n].mask[r][c]
                 PROVE  given[n].score[r][c] <= new_m(r)
      BY <2>1 DEF AtMost
    <3>1. capture_row_have(r) /\ given[n].score[r][c] <= capture_row_max(r)
      BY <1>7 DEF AtMost
    <3>2. given[n].score[r][c] \in Int /\ new_m(r) \in Int
      BY <1>3, <1>4, <1>6, <1>7, <2>1
    <3> QED BY <1>7, <2>1, <3>1, <3>2
  <2>4. \A i \in 1 .. n - 1 : AtMost(i, r, have, new_m(r))
    <3> SUFFICES ASSUME NEW i \in 1 .. n - 1, NEW c \in Cols, ~given[i].mask[r][c]
                 PROVE  given[i].score[r][c] <= new_m(r)
      BY <2>1 DEF AtMost
    <3>1. given[i].score[r][c] <= row_m[r]
      BY <2>2 DEF AtMost
    <3>2. given[i].score[r][c] \in Int
      <4>1. given[i] \in Given
        BY <1>1 DEF GivenTypes
      <4>2. given[i].score \in [Rows -> [Cols -> Score]]
        BY <4>1 DEF Given
      <4> QED BY <4>2 DEF Score
    <3>3. new_m(r) \in Int
      BY <1>4, <1>7, <2>1
    <3> QED BY <1>4, <2>1, <3>1, <3>2, <3>3
  <2>5. \E i \in 1 .. n : Attains(i, r, new_m(r))
    BY <1>2, <1>7, <2>1, <2>2
  <2> HIDE DEF have
  <2>6. \A i \in 1 .. n : AtMost(i, r, have, new_m(r))
    BY <1>2, <2>3, <2>4
  <2> QED BY <1>1, <2>5, <2>6 DEF Top, have
<1> QED BY <1>8, <1>9

LEMMA GivenPrep == ASSUME IInv, IInv', GivenInv, Prep PROVE GivenInv'
<1>1. state = "PREP" /\ state' = "ALPHA" /\ UNCHANGED <<given, meta, score_reg, mask_reg>>
  BY DEF Prep
<1>2. GivenTypes'
  BY <1>1 DEF GivenInv, GivenTypes
<1>3. ASSUME ~protocol_error'
      PROVE  /\ active_block' = meta'.block /\ InRow(Len(given), meta.block)'
             /\ \A r \in Rows : Top(Len(given), r, work_have[r], work_new_m[r])'
  <2>1. ~protocol_error /\ ~out_of_sequence
    BY <1>3 DEF Prep
  <2>2. PICK n \in Nat : n + 1 = Len(given)
    <3>1. Len(given) \in Nat \ {0}
      BY <1>1 DEF GivenInv, GivenTypes
    <3>2. Len(given) - 1 \in Nat /\ (Len(given) - 1) + 1 = Len(given)
      BY <3>1
    <3> QED BY <3>2
  <2>3. given[n + 1].block = meta.block /\ given[n + 1].col = meta.col
    BY <1>1, <2>2 DEF GivenInv, GivenTypes
  <2>4. meta.col \in Nat /\ meta.col + TILE <= SEQ_LEN /\ expected_col' = (meta.col + TILE) % POS_MOD
    BY <1>1, <1>3 DEF IInv, TypeOK, WorkBounds
  <2>5. first_tile => n = 0
    BY <1>1, <2>1, <2>2 DEF GivenInv, Preparing, first_tile
  <2>6. ~first_tile => Kept(n)
    <3>1. Len(given) - 1 = n
      BY <2>2
    <3> QED BY <1>1, <2>1, <3>1 DEF GivenInv, Preparing, first_tile
  <2>7. meta.col = n * TILE /\ active_block' = meta.block
    <3>1. CASE first_tile
      <4>1. 0 * TILE = 0
        BY ZeroTypes
      <4> QED BY <2>5, <3>1, <4>1 DEF first_tile, Prep
    <3>2. CASE ~first_tile
      <4>1. meta.col = expected_col /\ meta.block = active_block /\ meta.col # 0
        BY <2>1, <3>2 DEF out_of_sequence, first_tile
      <4>2. n * TILE <= SEQ_LEN /\ expected_col = (n * TILE) % POS_MOD
        BY <2>6, <3>2 DEF Kept, InRow
      <4> QED BY <3>2, <4>1, <4>2, PlaceArithmetic DEF Prep
    <3> QED BY <3>1, <3>2
  <2>8. \A i \in 1 .. n : given[i].block = meta.block /\ given[i].col = (i - 1) * TILE
    <3>1. CASE first_tile
      BY <2>5, <3>1
    <3>2. CASE ~first_tile
      BY <2>1, <2>6, <3>2 DEF Kept, InRow, out_of_sequence
    <3> QED BY <3>1, <3>2
  <2>9. InRow(n + 1, meta.block)'
    <3>1. n * TILE \in Nat /\ (n + 1) * TILE = n * TILE + TILE
      BY PlaceArithmetic
    <3>2. \A i \in 1 .. n + 1 : i \in 1 .. n \/ i = n + 1
      OBVIOUS
    <3>3. (n + 1) - 1 = n
      OBVIOUS
    <3>4. given[n + 1].block = meta.block /\ given[n + 1].col = ((n + 1) - 1) * TILE
      BY <2>3, <2>7, <3>3
    <3>5. \A i \in 1 .. n + 1 : given[i].block = meta.block /\ given[i].col = (i - 1) * TILE
      BY <2>8, <3>2, <3>4
    <3>6. (n + 1) * TILE <= SEQ_LEN /\ expected_col' = ((n + 1) * TILE) % POS_MOD
      BY <2>4, <2>7, <3>1
    <3> QED BY <1>1, <3>5, <3>6 DEF InRow
  <2>10. ASSUME NEW r \in Rows PROVE Top(Len(given), r, work_have[r], work_new_m[r])'
    <3>1. Top(Len(given), r, capture_row_have(r) \/ (~first_tile /\ row_have[r]), new_m(r))
      <4>1. Len(given) - 1 = n /\ (first_tile => Len(given) = 1)
        BY <2>2, <2>5
      <4>2. ~first_tile => Top(Len(given) - 1, r, row_have[r], row_m[r])
        BY <2>6, <4>1 DEF Kept
      <4> QED BY <1>1, <4>1, <4>2, TopPrepared DEF GivenInv
    <3>2. /\ work_have'[r] = (capture_row_have(r) \/ (~first_tile /\ row_have[r]))
          /\ work_new_m'[r] = new_m(r)
      BY DEF Prep
    <3>3. Top(Len(given), r, work_have'[r], work_new_m'[r])
      BY <3>1, <3>2, Zenon
    <3> QED BY <1>1, <3>3 DEF Top, AtMost, Attains
  <2> QED BY <1>1, <2>2, <2>7, <2>9, <2>10
<1>4. AtWork'
  BY <1>3 DEF AtWork
<1>5. Rest' /\ Preparing' /\ Weighed' /\ HandedOver'
  BY <1>1 DEF Rest, Preparing, Weighed, HandedOver
<1> QED BY <1>2, <1>4, <1>5 DEF GivenInv

\* While the weights are formed, nothing of this moves.
LEMMA GivenKept ==
    ASSUME GivenInv,
           UNCHANGED <<given, meta, score_reg, mask_reg, active_block, expected_col,
                       protocol_error, work_have, work_new_m>>,
           state \in {"ALPHA", "WEIGHT", "OUTPUT"}
    PROVE  GivenTypes' /\ (state' \in {"ALPHA", "WEIGHT", "OUTPUT"} => AtWork')
<1>1. GivenTypes'
  BY DEF GivenInv, GivenTypes
<1>2. ASSUME state' \in {"ALPHA", "WEIGHT", "OUTPUT"} PROVE AtWork'
  BY DEF GivenInv, AtWork, InRow, Top, AtMost, Attains
<1> QED BY <1>1, <1>2

LEMMA GivenAlpha == ASSUME IInv, GivenInv, Alpha PROVE GivenInv'
<1>1. state = "ALPHA" /\ state' = "WEIGHT" /\ weight_col' = 0
  BY DEF Alpha, IInv, Fresh
<1>2. GivenTypes' /\ AtWork'
  BY <1>1, GivenKept DEF Alpha, workVars
<1>3. \A c \in Cols : ~(c < 0)
  BY DEF Cols
<1>4. Rest' /\ Preparing' /\ Weighed' /\ HandedOver'
  BY <1>1, <1>3 DEF Rest, Preparing, Weighed, HandedOver
<1> QED BY <1>2, <1>4 DEF GivenInv

\* One more column has its weight.
LEMMA ColumnWeighed ==
    ASSUME IInv, GivenInv, state = "WEIGHT"
    PROVE  \A r \in Rows, c \in Cols : c < weight_col + 1 => work_weights_next[r][c] = weight(r, c)
<1> SUFFICES ASSUME NEW r \in Rows, NEW c \in Cols, c < weight_col + 1
             PROVE  work_weights_next[r][c] = weight(r, c)
  OBVIOUS
<1>1. work_weights[r] \in [Cols -> 0 .. ONE] /\ weight_col \in Cols
  BY DEF IInv, TypeOK
<1>2. work_weights_next[r] = [work_weights[r] EXCEPT ![weight_col] = weight(r, weight_col)]
  BY DEF work_weights_next
<1>3. CASE c = weight_col
  BY <1>1, <1>2, <1>3
<1>4. CASE c # weight_col
  <2>1. c < weight_col
    BY <1>1, <1>4 DEF Cols
  <2>2. work_weights[r][c] = weight(r, c)
    BY <2>1 DEF GivenInv, Weighed
  <2> QED BY <1>1, <1>2, <1>4, <2>2
<1> QED BY <1>3, <1>4

LEMMA WeightKept ==
    ASSUME UNCHANGED <<work_have, mask_reg, work_new_m, score_reg>>
    PROVE  \A r \in Rows, c \in Cols : weight(r, c)' = weight(r, c)
BY DEF weight

LEMMA GivenWeight == ASSUME IInv, GivenInv, Weight PROVE GivenInv'
<1>1. /\ state = "WEIGHT" /\ state' = "WEIGHT" /\ weight_col' = weight_col + 1
      /\ work_weights' = work_weights_next
      /\ UNCHANGED <<given, meta, score_reg, mask_reg, active_block, expected_col,
                     protocol_error, work_have, work_new_m>>
  BY DEF Weight, WeightStep, workVars
<1>2. GivenTypes' /\ AtWork'
  BY <1>1, GivenKept
<1>3. Weighed'
  <2> SUFFICES ASSUME NEW r \in Rows, NEW c \in Cols, c < weight_col + 1
               PROVE  work_weights_next[r][c] = weight(r, c)'
    BY <1>1 DEF Weighed
  <2> QED BY <1>1, ColumnWeighed, WeightKept
<1>4. Rest' /\ Preparing' /\ HandedOver'
  BY <1>1 DEF Rest, Preparing, HandedOver
<1> QED BY <1>2, <1>3, <1>4 DEF GivenInv

LEMMA GivenLastWeight == ASSUME IInv, GivenInv, LastWeight PROVE GivenInv'
<1>1. /\ state = "WEIGHT" /\ state' = "OUTPUT" /\ weight_col = TILE - 1
      /\ row_have' = work_have /\ row_m' = work_new_m
      /\ out'.active = work_have /\ out'.weights = work_weights_next
      /\ UNCHANGED <<given, meta, score_reg, mask_reg, active_block, expected_col,
                     protocol_error, work_have, work_new_m>>
  BY DEF LastWeight, WeightStep, workVars
<1>2. GivenTypes' /\ AtWork'
  BY <1>1, GivenKept
<1>3. HandedOver'
  <2>1. \A c \in Cols : c < weight_col + 1
    BY <1>1, SoftmaxAssumption DEF Cols
  <2>2. \A r \in Rows, c \in Cols : out'.weights[r][c] = weight(r, c)'
    BY <1>1, <2>1, ColumnWeighed, WeightKept
  <2> QED BY <1>1, <2>2 DEF HandedOver
<1>4. Rest' /\ Preparing' /\ Weighed'
  BY <1>1 DEF Rest, Preparing, Weighed
<1> QED BY <1>2, <1>3, <1>4 DEF GivenInv

\* When the output is taken, the rows have taken over what the work registers knew.
LEMMA GivenOutput == ASSUME IInv, GivenInv, Output PROVE GivenInv'
<1>1. /\ state = "OUTPUT" /\ state' = "IDLE"
      /\ UNCHANGED <<given, row_m, row_have, active_block, expected_col, protocol_error>>
  BY DEF Output, rowVars
<1>2. GivenTypes'
  BY <1>1 DEF GivenInv, GivenTypes
<1>3. Rest'
  <2> SUFFICES ASSUME ~protocol_error PROVE Kept(Len(given))'
    BY <1>1 DEF Rest
  <2>1. InRow(Len(given), active_block)
    BY <1>1 DEF GivenInv, AtWork
  <2>2. \A r \in Rows : Top(Len(given), r, row_have[r], row_m[r])
    BY <1>1 DEF GivenInv, AtWork, HandedOver
  <2> QED BY <1>1, <2>1, <2>2 DEF Kept, InRow, Top, AtMost, Attains
<1>4. Preparing' /\ AtWork' /\ Weighed' /\ HandedOver'
  BY <1>1 DEF Preparing, AtWork, Weighed, HandedOver
<1> QED BY <1>2, <1>3, <1>4 DEF GivenInv

LEMMA GivenStep == ASSUME IInv, IInv', GivenInv, [Next]_vars PROVE GivenInv'
<1>1. CASE \E block \in Blocks, col \in 0 .. SEQ_LEN - 1, tile \in Tiles : Accept(block, col, tile)
  BY <1>1, GivenAccept
<1>2. CASE Prep
  BY <1>2, GivenPrep
<1>3. CASE Alpha
  BY <1>3, GivenAlpha
<1>4. CASE Weight
  BY <1>4, GivenWeight
<1>5. CASE LastWeight
  BY <1>5, GivenLastWeight
<1>6. CASE Output
  BY <1>6, GivenOutput
<1>7. CASE Clear
  BY <1>7, GivenClear
<1>8. CASE UNCHANGED vars
  BY <1>8 DEF vars, rowVars, workVars, GivenInv, GivenTypes, Rest, Preparing, Kept, AtWork,
              InRow, Top, AtMost, Attains, Weighed, HandedOver, weight
<1> QED BY <1>1, <1>2, <1>3, <1>4, <1>5, <1>6, <1>7, <1>8 DEF Next

\* What the tiles show of a row is what the set of its keys shows.
LEMMA TopOfKeys ==
    ASSUME GivenTypes, NEW r \in Rows, NEW have \in BOOLEAN, NEW m \in Int,
           Top(Len(given), r, have, m)
    PROVE  have = (Keys(r) # {}) /\ (have => Highest(r) = m)
<1> DEFINE key(i, c) == [key |-> given[i].col + c, score |-> given[i].score[r][c]]
           S == {k.score : k \in Keys(r)}
<1>1. PICK n \in Nat : n = Len(given) /\ DOMAIN given = 1 .. n
  BY DEF GivenTypes
<1>2. \A k : k \in Keys(r) <=> \E i \in 1 .. n, c \in Cols : ~given[i].mask[r][c] /\ k = key(i, c)
  BY <1>1 DEF Keys, Range
<1>3. \A s : s \in S <=> \E i \in 1 .. n, c \in Cols : ~given[i].mask[r][c] /\ s = given[i].score[r][c]
  <2>1. \A i, c : key(i, c).score = given[i].score[r][c]
    OBVIOUS
  <2>2. \A s : s \in S <=> \E k \in Keys(r) : s = k.score
    OBVIOUS
  <2> HIDE DEF key, S
  <2>3. ASSUME NEW s, s \in S
        PROVE  \E i \in 1 .. n, c \in Cols : ~given[i].mask[r][c] /\ s = given[i].score[r][c]
    <3>1. PICK k \in Keys(r) : s = k.score
      BY <2>2, <2>3
    <3>2. PICK i \in 1 .. n, c \in Cols : ~given[i].mask[r][c] /\ k = key(i, c)
      BY <1>2, <3>1
    <3> QED BY <2>1, <3>1, <3>2
  <2>4. ASSUME NEW i \in 1 .. n, NEW c \in Cols, ~given[i].mask[r][c]
        PROVE  given[i].score[r][c] \in S
    <3>1. key(i, c) \in Keys(r)
      BY <1>2, <2>4
    <3> QED BY <2>1, <2>2, <3>1
  <2> QED BY <2>3, <2>4
<1> HIDE DEF S
<1>4. have => Keys(r) # {} /\ m \in S
  <2> SUFFICES ASSUME have PROVE Keys(r) # {} /\ m \in S
    OBVIOUS
  <2>1. PICK i \in 1 .. n, c \in Cols : ~given[i].mask[r][c] /\ given[i].score[r][c] = m
    BY <1>1 DEF Top, Attains
  <2>2. m \in S
    BY <1>3, <2>1
  <2>3. key(i, c) \in Keys(r)
    BY <1>2, <2>1
  <2> QED BY <2>2, <2>3
<1>5. ~have => Keys(r) = {}
  BY <1>1, <1>2 DEF Top, AtMost
<1>6. \A s \in S : s \in Int /\ s <= m
  <2> SUFFICES ASSUME NEW i \in 1 .. n, NEW c \in Cols, ~given[i].mask[r][c]
               PROVE  given[i].score[r][c] \in Int /\ given[i].score[r][c] <= m
    BY <1>3
  <2>1. given[i] \in Given
    BY <1>1 DEF GivenTypes
  <2>2. given[i].score \in [Rows -> [Cols -> Score]]
    BY <2>1 DEF Given
  <2> QED BY <1>1, <2>2 DEF Top, AtMost, Score
<1>7. ASSUME have PROVE Highest(r) = m
  <2>1. m \in S /\ \A s \in S : m >= s
    BY <1>4, <1>6, <1>7
  <2>2. Highest(r) = CHOOSE x \in S : \A y \in S : x >= y
    BY DEF Highest, Max, S
  <2>3. Highest(r) \in S /\ \A y \in S : Highest(r) >= y
    BY <2>1, <2>2
  <2>4. Highest(r) \in Int /\ Highest(r) <= m /\ Highest(r) >= m
    BY <1>6, <2>1, <2>3
  <2> QED BY <2>4
<1> QED BY <1>4, <1>5, <1>7

\* The invariant holds in every state of the specification.
THEOREM GivenInvariance == Spec => []GivenInv
<1>1. IInv /\ IInv' /\ GivenInv /\ [Next]_vars => GivenInv'
  BY GivenStep
<1> QED BY GivenInit, Invariance, <1>1, PTL DEF Spec

LEMMA WeightsFollow == ASSUME IInv, GivenInv PROVE WeightsOfTheRow
<1> SUFFICES ASSUME state = "OUTPUT", ~protocol_error
             PROVE  /\ Len(given) * TILE = meta.col + TILE
                    /\ \A i \in 1 .. Len(given) :
                         given[i].block = meta.block /\ given[i].col = (i - 1) * TILE
                    /\ \A r \in Rows :
                         /\ out.active[r] = (Keys(r) # {})
                         /\ out.active[r] =>
                              \A c \in Cols :
                                 out.weights[r][c] =
                                   IF mask_reg[r][c] THEN 0 ELSE exp_q15(Highest(r) - score_reg[r][c])
  BY DEF WeightsOfTheRow
<1>1. /\ GivenTypes /\ HandedOver /\ TypeOK /\ InRow(Len(given), meta.block)
      /\ \A r \in Rows : Top(Len(given), r, work_have[r], work_new_m[r])
  BY DEF IInv, GivenInv, AtWork
<1>2. \A i \in 1 .. Len(given) : given[i].block = meta.block /\ given[i].col = (i - 1) * TILE
  BY <1>1 DEF InRow
<1>3. Len(given) * TILE = meta.col + TILE
  <2>1. PICK n \in Nat : n + 1 = Len(given)
    <3>1. Len(given) \in Nat \ {0}
      BY <1>1 DEF GivenTypes
    <3>2. Len(given) - 1 \in Nat /\ (Len(given) - 1) + 1 = Len(given)
      BY <3>1
    <3> QED BY <3>2
  <2>2. given[n + 1].col = meta.col
    BY <1>1, <2>1 DEF GivenTypes
  <2>3. n + 1 \in 1 .. n + 1 /\ (n + 1) - 1 = n
    OBVIOUS
  <2>4. meta.col = n * TILE
    BY <1>2, <2>1, <2>2, <2>3
  <2> QED BY <2>1, <2>4, PlaceArithmetic
<1>4. ASSUME NEW r \in Rows
      PROVE  /\ out.active[r] = (Keys(r) # {})
             /\ out.active[r] =>
                  \A c \in Cols :
                     out.weights[r][c] =
                       IF mask_reg[r][c] THEN 0 ELSE exp_q15(Highest(r) - score_reg[r][c])
  <2>1. work_have[r] \in BOOLEAN /\ work_new_m[r] \in Int /\ out.active[r] = work_have[r]
    BY <1>1 DEF TypeOK, Flags, HandedOver
  <2>2. work_have[r] = (Keys(r) # {}) /\ (work_have[r] => Highest(r) = work_new_m[r])
    BY <1>1, <2>1, TopOfKeys
  <2>3. \A c \in Cols : out.weights[r][c] = weight(r, c)
    BY <1>1 DEF HandedOver
  <2>4. out.active[r] => \A c \in Cols :
           weight(r, c) = IF mask_reg[r][c] THEN 0 ELSE exp_q15(Highest(r) - score_reg[r][c])
    BY <2>1, <2>2 DEF weight
  <2> QED BY <2>1, <2>2, <2>3, <2>4
<1> QED BY <1>2, <1>3, <1>4

\* For every sequence of tiles, an output that no sequence error accompanies is
\* about the whole row so far: each weight is taken from the maximum over every
\* key the tiles of this block have shown, and over no other.
THEOREM WeightsAreSoftmax == Spec => []WeightsOfTheRow
<1>1. IInv /\ GivenInv => WeightsOfTheRow
  BY WeightsFollow
<1> QED BY Invariance, GivenInvariance, <1>1, PTL
-----------------------------------------------------------------------------
\* Lemmas about sums.

\* Induction, for a set of numbers: it holds them all when it holds 0 and the
\* successor of each of its own.
LEMMA EveryNumber ==
    ASSUME NEW S \in SUBSET Nat, 0 \in S, \A n \in S : n + 1 \in S
    PROVE  \A n \in Nat : n \in S
<1> DEFINE T == Nat \ S
<1>1. ASSUME T # {} PROVE FALSE
  <2>1. T \subseteq Nat
    OBVIOUS
  <2>2. \E n \in T : \A k \in T : ~(<<k, n>> \in OpToRel(<, Nat))
    <3> HIDE DEF T
    <3> QED BY <1>1, <2>1, WFMin, NatLessThanWellFounded, Zenon
  <2>3. PICK n \in T : \A k \in T : ~(k < n)
    BY <2>1, <2>2 DEF OpToRel
  <2>4. n # 0 /\ n \in Nat
    OBVIOUS
  <2>5. n - 1 \in Nat /\ n - 1 < n /\ (n - 1) + 1 = n
    BY <2>4
  <2>6. n - 1 \notin T
    BY <2>3, <2>5
  <2>7. n - 1 \in S
    BY <2>5, <2>6
  <2>8. (n - 1) + 1 \in S
    BY <2>7
  <2> QED BY <2>5, <2>8
<1> QED BY <1>1

\* The recursion that defines a sum, cut off at n.
Partial(f, g, n) == g = [k \in 0 .. n |-> IF k = 0 THEN 0 ELSE g[k - 1] + f[k]]

LEMMA PartialValues ==
    ASSUME NEW f, NEW g, NEW n \in Nat, Partial(f, g, n)
    PROVE  g[0] = 0 /\ \A k \in Nat : k + 1 <= n => g[k + 1] = g[k] + f[k + 1]
<1> DEFINE h == [k \in 0 .. n |-> IF k = 0 THEN 0 ELSE g[k - 1] + f[k]]
<1>1. g = h
  BY DEF Partial
<1>2. h[0] = 0
  OBVIOUS
<1>3. ASSUME NEW k \in Nat, k + 1 <= n PROVE h[k + 1] = g[k] + f[k + 1]
  <2>1. k + 1 \in 0 .. n /\ k + 1 # 0 /\ (k + 1) - 1 = k
    BY <1>3
  <2>2. h[k + 1] = g[(k + 1) - 1] + f[k + 1]
    BY <2>1
  <2> QED BY <2>1, <2>2
<1> HIDE DEF h
<1> QED BY <1>1, <1>2, <1>3

\* Two of them agree wherever both are defined.
LEMMA PartialsAgree ==
    ASSUME NEW f, NEW g, NEW h, NEW m \in Nat, NEW n \in Nat,
           Partial(f, g, m), Partial(f, h, n)
    PROVE  \A k \in Nat : k <= m /\ k <= n => g[k] = h[k]
<1> DEFINE S == {k \in Nat : k <= m /\ k <= n => g[k] = h[k]}
<1>1. 0 \in S
  BY PartialValues
<1>2. ASSUME NEW k \in S PROVE k + 1 \in S
  <2>1. k \in Nat /\ k + 1 \in Nat
    OBVIOUS
  <2>2. ASSUME k + 1 <= m, k + 1 <= n PROVE g[k + 1] = h[k + 1]
    <3>1. g[k] = h[k]
      BY <2>1, <2>2
    <3>2. g[k + 1] = g[k] + f[k + 1]
      BY <2>1, <2>2, PartialValues
    <3>3. h[k + 1] = h[k] + f[k + 1]
      BY <2>1, <2>2, PartialValues
    <3> QED BY <3>1, <3>2, <3>3
  <2> QED BY <2>1, <2>2
<1>3. \A k \in Nat : k \in S
  <2>1. S \in SUBSET Nat
    OBVIOUS
  <2> HIDE DEF S
  <2> QED BY <1>1, <1>2, <2>1, EveryNumber
<1> QED BY <1>3

\* There is one for every n.
LEMMA PartialsExist ==
    ASSUME NEW f, NEW n \in Nat
    PROVE  \E g : Partial(f, g, n)
<1> DEFINE S == {k \in Nat : \E g : Partial(f, g, k)}
<1>1. 0 \in S
  <2> DEFINE g == [k \in 0 .. 0 |-> 0]
  <2>1. g = [k \in 0 .. 0 |-> IF k = 0 THEN 0 ELSE g[k - 1] + f[k]]
    OBVIOUS
  <2>2. Partial(f, g, 0)
    BY <2>1 DEF Partial
  <2> HIDE DEF g
  <2> QED BY <2>2
<1>2. ASSUME NEW k \in S PROVE k + 1 \in S
  <2>1. k \in Nat /\ k + 1 \in Nat
    OBVIOUS
  <2>2. PICK g : Partial(f, g, k)
    OBVIOUS
  <2> DEFINE h == [i \in 0 .. k + 1 |-> IF i = 0 THEN 0 ELSE g[i - 1] + f[i]]
  <2>3. \A i \in 0 .. k : h[i] = g[i]
    <3>1. h[0] = 0 /\ g[0] = 0
      BY <2>1, <2>2, PartialValues
    <3>2. ASSUME NEW i \in 0 .. k, i # 0 PROVE h[i] = g[i]
      <4>1. i - 1 \in Nat /\ (i - 1) + 1 = i /\ (i - 1) + 1 <= k /\ i \in 0 .. k + 1
        BY <2>1, <3>2
      <4>2. g[(i - 1) + 1] = g[i - 1] + f[(i - 1) + 1]
        BY <2>1, <2>2, <4>1, PartialValues
      <4>3. h[i] = g[i - 1] + f[i]
        BY <3>2, <4>1
      <4> QED BY <4>1, <4>2, <4>3
    <3> QED BY <3>1, <3>2
  <2>4. Partial(f, h, k + 1)
    <3>1. \A i \in 0 .. k + 1 : i # 0 => i - 1 \in 0 .. k
      BY <2>1
    <3>2. h = [i \in 0 .. k + 1 |-> IF i = 0 THEN 0 ELSE h[i - 1] + f[i]]
      BY <2>3, <3>1
    <3> QED BY <3>2 DEF Partial
  <2> HIDE DEF h
  <2> QED BY <2>1, <2>4
<1>3. n \in S
  <2>1. S \in SUBSET Nat
    OBVIOUS
  <2> HIDE DEF S
  <2> QED BY <1>1, <1>2, <2>1, EveryNumber
<1> QED BY <1>3

\* A sum is what its recursion says.
LEMMA SumRecursion ==
    ASSUME NEW f
    PROVE  /\ SumTo(f, 0) = 0
           /\ \A n \in Nat : SumTo(f, n + 1) = SumTo(f, n) + f[n + 1]
<1> DEFINE G(n) == CHOOSE g : Partial(f, g, n)
           s == [k \in Nat |-> G(k)[k]]
<1>1. \A n \in Nat : Partial(f, G(n), n)
  BY PartialsExist
<1> HIDE DEF G
<1>2. s[0] = 0
  BY <1>1, PartialValues
<1>3. ASSUME NEW n \in Nat PROVE s[n + 1] = s[n] + f[n + 1]
  <2>1. Partial(f, G(n), n) /\ Partial(f, G(n + 1), n + 1)
    BY <1>1
  <2>2. G(n + 1)[n + 1] = G(n + 1)[n] + f[n + 1]
    BY <2>1, PartialValues
  <2>3. G(n + 1)[n] = G(n)[n]
    BY <2>1, PartialsAgree
  <2> QED BY <2>2, <2>3
<1>4. s = [k \in Nat |-> IF k = 0 THEN 0 ELSE s[k - 1] + f[k]]
  <2>1. ASSUME NEW k \in Nat, k # 0 PROVE s[k] = s[k - 1] + f[k]
    <3>1. k - 1 \in Nat /\ (k - 1) + 1 = k
      BY <2>1
    <3>2. s[(k - 1) + 1] = s[k - 1] + f[(k - 1) + 1]
      BY <1>3, <3>1
    <3> HIDE DEF s
    <3> QED BY <3>1, <3>2
  <2>2. s = [k \in Nat |-> s[k]]
    OBVIOUS
  <2>3. \A k \in Nat : s[k] = IF k = 0 THEN 0 ELSE s[k - 1] + f[k]
    BY <1>2, <2>1
  <2> HIDE DEF s
  <2> QED BY <2>2, <2>3
<1> DEFINE sum == CHOOSE g : g = [k \in Nat |-> IF k = 0 THEN 0 ELSE g[k - 1] + f[k]]
<1>5. sum = [k \in Nat |-> IF k = 0 THEN 0 ELSE sum[k - 1] + f[k]]
  <2> HIDE DEF s
  <2> QED BY <1>4
<1>6. \A n : SumTo(f, n) = sum[n]
  BY DEF SumTo
<1> HIDE DEF sum
<1>7. sum[0] = 0 /\ \A n \in Nat : sum[n + 1] = sum[n] + f[n + 1]
  <2> DEFINE h == [k \in Nat |-> IF k = 0 THEN 0 ELSE sum[k - 1] + f[k]]
  <2>1. h[0] = 0 /\ \A n \in Nat : h[n + 1] = sum[n] + f[n + 1]
    <3>1. \A n \in Nat : n + 1 \in Nat /\ n + 1 # 0 /\ (n + 1) - 1 = n
      OBVIOUS
    <3> QED BY <3>1
  <2>2. sum = h
    BY <1>5
  <2> HIDE DEF h
  <2> QED BY <2>1, <2>2
<1> QED BY <1>6, <1>7

\* A sum up to n only depends on its first n terms.
LEMMA SumCongruence ==
    ASSUME NEW f, NEW g, NEW n \in Nat, \A i \in 1 .. n : f[i] = g[i]
    PROVE  SumTo(f, n) = SumTo(g, n)
<1> DEFINE S == {k \in Nat : k <= n => SumTo(f, k) = SumTo(g, k)}
<1>1. 0 \in S
  BY SumRecursion
<1>2. ASSUME NEW k \in S PROVE k + 1 \in S
  <2>1. k \in Nat /\ k + 1 \in Nat
    OBVIOUS
  <2>2. ASSUME k + 1 <= n PROVE SumTo(f, k + 1) = SumTo(g, k + 1)
    <3>1. SumTo(f, k) = SumTo(g, k) /\ f[k + 1] = g[k + 1]
      BY <2>1, <2>2
    <3>2. SumTo(f, k + 1) = SumTo(f, k) + f[k + 1] /\ SumTo(g, k + 1) = SumTo(g, k) + g[k + 1]
      BY <2>1, SumRecursion
    <3> QED BY <3>1, <3>2
  <2> QED BY <2>1, <2>2
<1>3. n \in S
  <2>1. S \in SUBSET Nat
    OBVIOUS
  <2> HIDE DEF S
  <2> QED BY <1>1, <1>2, <2>1, EveryNumber
<1> QED BY <1>3

\* A sum of natural numbers is one, and 0 only if all its terms are.
LEMMA SumType ==
    ASSUME NEW f, NEW n \in Nat, \A i \in 1 .. n : f[i] \in Nat
    PROVE  SumTo(f, n) \in Nat /\ ((\A i \in 1 .. n : f[i] = 0) => SumTo(f, n) = 0)
<1> DEFINE S == {k \in Nat : k <= n =>
                     /\ SumTo(f, k) \in Nat
                     /\ (\A i \in 1 .. k : f[i] = 0) => SumTo(f, k) = 0}
<1>1. 0 \in S
  BY SumRecursion
<1>2. ASSUME NEW k \in S PROVE k + 1 \in S
  <2>1. k \in Nat /\ k + 1 \in Nat /\ SumTo(f, k + 1) = SumTo(f, k) + f[k + 1]
    BY SumRecursion
  <2>2. ASSUME k + 1 <= n
        PROVE  /\ SumTo(f, k + 1) \in Nat
               /\ (\A i \in 1 .. k + 1 : f[i] = 0) => SumTo(f, k + 1) = 0
    <3>1. k + 1 \in 1 .. n /\ k + 1 \in 1 .. k + 1 /\ \A i \in 1 .. k : i \in 1 .. k + 1
      BY <2>1, <2>2
    <3>2. f[k + 1] \in Nat
      BY <3>1
    <3>3. SumTo(f, k) \in Nat /\ ((\A i \in 1 .. k : f[i] = 0) => SumTo(f, k) = 0)
      BY <2>1, <2>2
    <3> QED BY <2>1, <3>1, <3>2, <3>3
  <2> QED BY <2>1, <2>2
<1>3. n \in S
  <2>1. S \in SUBSET Nat
    OBVIOUS
  <2> HIDE DEF S
  <2> QED BY <1>1, <1>2, <2>1, EveryNumber
<1> QED BY <1>3

\* When a times each term of one sum is at most b times that of another and e,
\* so are the sums, with e for every term.
LEMMA SumComparison ==
    ASSUME NEW f, NEW g, NEW a \in Nat, NEW b \in Nat, NEW e \in Nat, NEW n \in Nat,
           \A i \in 1 .. n : f[i] \in Nat /\ g[i] \in Nat /\ a * f[i] <= b * g[i] + e
    PROVE  a * SumTo(f, n) <= b * SumTo(g, n) + n * e
<1> DEFINE S == {k \in Nat : k <= n =>
                     /\ SumTo(f, k) \in Nat /\ SumTo(g, k) \in Nat
                     /\ a * SumTo(f, k) <= b * SumTo(g, k) + k * e}
<1>1. 0 \in S
  <2>1. a * 0 <= b * 0 + 0 * e
    OBVIOUS
  <2> QED BY <2>1, SumRecursion
<1>2. ASSUME NEW k \in S PROVE k + 1 \in S
  <2>1. k \in Nat /\ k + 1 \in Nat
    OBVIOUS
  <2>2. /\ SumTo(f, k + 1) = SumTo(f, k) + f[k + 1]
        /\ SumTo(g, k + 1) = SumTo(g, k) + g[k + 1]
    BY <2>1, SumRecursion
  <2>3. ASSUME k + 1 <= n
        PROVE  /\ SumTo(f, k + 1) \in Nat /\ SumTo(g, k + 1) \in Nat
               /\ a * SumTo(f, k + 1) <= b * SumTo(g, k + 1) + (k + 1) * e
    <3>1. PICK u \in Nat, v \in Nat : u = f[k + 1] /\ v = g[k + 1] /\ a * u <= b * v + e
      <4>1. k + 1 \in 1 .. n
        BY <2>1, <2>3
      <4> QED BY <4>1
    <3>2. PICK x \in Nat, y \in Nat :
             x = SumTo(f, k) /\ y = SumTo(g, k) /\ a * x <= b * y + k * e
      BY <2>1, <2>3
    <3>3. a * (x + u) = a * x + a * u /\ b * (y + v) = b * y + b * v /\ (k + 1) * e = k * e + e
      BY <2>1
    <3>4. /\ a * x \in Nat /\ a * u \in Nat /\ b * y \in Nat /\ b * v \in Nat /\ k * e \in Nat
          /\ x + u \in Nat /\ y + v \in Nat
      BY <2>1
    <3>5. a * (x + u) <= b * (y + v) + (k + 1) * e
      <4> DEFINE ax == a * x
                 au == a * u
                 by == b * y
                 bv == b * v
                 ke == k * e
      <4>1. ax + au <= by + bv + (ke + e)
        <5>1. /\ ax \in Nat /\ au \in Nat /\ by \in Nat /\ bv \in Nat /\ ke \in Nat
              /\ au <= bv + e /\ ax <= by + ke
          BY <3>1, <3>2, <3>4
        <5> HIDE DEF ax, au, by, bv, ke
        <5> QED BY <5>1
      <4> QED BY <3>3, <4>1
    <3> QED BY <2>2, <3>1, <3>2, <3>4, <3>5
  <2> QED BY <2>1, <2>3
<1>3. n \in S
  <2>1. S \in SUBSET Nat
    OBVIOUS
  <2> HIDE DEF S
  <2> QED BY <1>1, <1>2, <2>1, EveryNumber
<1> QED BY <1>3
-----------------------------------------------------------------------------
\* What the keys of a row count, and how that moves with the maximum.

LastEntry == Exp[EXP_LIMIT]

LEMMA TableSizes ==
    /\ ONE \in Nat /\ ONE > 0 /\ EXP_LIMIT \in Nat /\ TILE \in Nat /\ TILE > 0
    /\ LOSS \in Nat /\ GAIN \in Nat /\ 0 \in 0 .. ONE /\ LastEntry \in 0 .. ONE
    /\ \A d \in 0 .. EXP_LIMIT : Exp[d] \in 0 .. ONE
BY SoftmaxAssumption, TableAssumption, SMTT(30) DEF LastEntry

\* Beyond the table a key counts what is said of it, within it its entry.
LEMMA KeptRange ==
    ASSUME NEW d \in Nat
    PROVE  /\ kept(d, 0) = exp_q15(d) /\ exp_q15(d) \in 0 .. ONE
           /\ \A last \in 0 .. ONE : kept(d, last) \in 0 .. ONE
           /\ kept(d, 0) <= kept(d, LastEntry)
<1>1. d <= EXP_LIMIT => d \in 0 .. EXP_LIMIT
  BY TableSizes
<1> QED BY <1>1, TableSizes DEF kept, exp_q15

\* The rescaling of a key by the distance the maximum has moved, also where one
\* of the two distances leaves the table.
LEMMA KeyRescaled ==
    ASSUME NEW x \in Nat, NEW e \in Nat
    PROVE  /\ ONE * kept(x + e, 0) <= exp_q15(e) * kept(x, 0) + ONE * LOSS
           /\ exp_q15(e) * kept(x, LastEntry) <= ONE * kept(x + e, LastEntry) + ONE * GAIN
<1> USE TableSizes
<1>1. ONE * LOSS \in Nat /\ ONE * GAIN \in Nat /\ x + e \in Nat
  OBVIOUS
<1>2. CASE x <= EXP_LIMIT /\ e <= EXP_LIMIT
  <2>1. x \in 0 .. EXP_LIMIT /\ e \in 0 .. EXP_LIMIT
    BY <1>2
  <2>2. exp_q15(e) = Exp[e] /\ kept(x, 0) = Exp[x] /\ kept(x, LastEntry) = Exp[x]
    BY <1>2 DEF exp_q15, kept
  <2>3. kept(x + e, 0) = exp_q15(x + e)
    BY <1>1, KeptRange
  <2>4. /\ ONE * exp_q15(x + e) <= Exp[x] * Exp[e] + ONE * LOSS
        /\ Exp[x] * Exp[e] <= ONE * kept(x + e, LastEntry) + ONE * GAIN
    BY <2>1, TableAssumption DEF LastEntry
  <2>5. Exp[x] * Exp[e] = Exp[e] * Exp[x]
    BY <2>1
  <2> QED BY <2>2, <2>3, <2>4, <2>5
<1>3. CASE e > EXP_LIMIT
  <2>1. exp_q15(e) = 0 /\ kept(x + e, 0) = 0 /\ kept(x + e, LastEntry) = LastEntry
    BY <1>3 DEF exp_q15, kept
  <2>2. kept(x, 0) \in Nat /\ kept(x, LastEntry) \in Nat /\ ONE * LastEntry \in Nat
    BY KeptRange
  <2> QED BY <1>1, <2>1, <2>2
<1>4. CASE x > EXP_LIMIT
  <2>1. /\ kept(x, 0) = 0 /\ kept(x + e, 0) = 0
        /\ kept(x, LastEntry) = LastEntry /\ kept(x + e, LastEntry) = LastEntry
    BY <1>4 DEF kept
  <2>2. PICK a \in 0 .. ONE : a = exp_q15(e)
    BY KeptRange
  <2>3. a * LastEntry <= ONE * LastEntry
    <3>1. (ONE - a) * LastEntry \in Nat
      <4>1. ONE - a \in Nat /\ LastEntry \in Nat
        OBVIOUS
      <4> QED BY <4>1
    <3>2. (ONE - a) * LastEntry = ONE * LastEntry - a * LastEntry
      OBVIOUS
    <3>3. ONE * LastEntry \in Nat /\ a * LastEntry \in Nat
      OBVIOUS
    <3> QED BY <3>1, <3>2, <3>3
  <2>4. a * 0 = 0 /\ ONE * 0 = 0 /\ a * LastEntry \in Nat /\ ONE * LastEntry \in Nat
    OBVIOUS
  <2> QED BY <1>1, <2>1, <2>2, <2>3, <2>4
<1> QED BY <1>2, <1>3, <1>4

\* No key of the tile lies above m.
Below(t, r, m) == \A c \in Cols : ~t.mask[r][c] => t.score[r][c] <= m

LEMMA ShareRange ==
    ASSUME NEW t \in Given, NEW r \in Rows, NEW m \in Int, Below(t, r, m), NEW c \in Cols
    PROVE  /\ \A last \in 0 .. ONE : Share(t, r, c, m, last) \in Nat
           /\ Share(t, r, c, m, 0) <= Share(t, r, c, m, LastEntry)
<1> USE TableSizes
<1>1. CASE t.mask[r][c]
  BY <1>1 DEF Share
<1>2. CASE ~t.mask[r][c]
  <2>1. t.score[r][c] \in Int /\ t.score[r][c] <= m
    BY <1>2 DEF Given, Score, Below
  <2>2. PICK d \in Nat : d = m - t.score[r][c]
    BY <2>1
  <2>3. \A last : Share(t, r, c, m, last) = kept(d, last)
    BY <1>2, <2>2 DEF Share
  <2>4. (\A last \in 0 .. ONE : kept(d, last) \in 0 .. ONE) /\ kept(d, 0) <= kept(d, LastEntry)
    BY KeptRange
  <2>5. \A last \in 0 .. ONE : Share(t, r, c, m, last) \in 0 .. ONE
    BY <2>3, <2>4
  <2>6. Share(t, r, c, m, 0) <= Share(t, r, c, m, LastEntry)
    BY <2>3, <2>4
  <2> QED BY <2>5, <2>6
<1> QED BY <1>1, <1>2

\* One key of a tile, when the maximum moves from old to new.
LEMMA ShareRescaled ==
    ASSUME NEW t \in Given, NEW r \in Rows, NEW old \in Int, NEW new \in Int, old <= new,
           Below(t, r, old), NEW c \in Cols
    PROVE  /\ ONE * Share(t, r, c, new, 0) <= exp_q15(new - old) * Share(t, r, c, old, 0) + ONE * LOSS
           /\ exp_q15(new - old) * Share(t, r, c, old, LastEntry)
                <= ONE * Share(t, r, c, new, LastEntry) + ONE * GAIN
<1> USE TableSizes
<1>1. PICK e \in Nat : e = new - old
  OBVIOUS
<1>2. CASE t.mask[r][c]
  <2>1. \A m, last : Share(t, r, c, m, last) = 0
    BY <1>2 DEF Share
  <2>2. PICK a \in 0 .. ONE : a = exp_q15(e)
    BY KeptRange
  <2>3. a * 0 = 0 /\ ONE * 0 = 0 /\ ONE * LOSS \in Nat /\ ONE * GAIN \in Nat
    OBVIOUS
  <2> QED BY <1>1, <2>1, <2>2, <2>3
<1>3. CASE ~t.mask[r][c]
  <2>1. t.score[r][c] \in Int /\ t.score[r][c] <= old
    BY <1>3 DEF Given, Score, Below
  <2>2. PICK x \in Nat : x = old - t.score[r][c]
    BY <2>1
  <2>3. x + e = new - t.score[r][c]
    BY <1>1, <2>1, <2>2
  <2>4. \A last : Share(t, r, c, old, last) = kept(x, last) /\ Share(t, r, c, new, last) = kept(x + e, last)
    BY <1>3, <2>2, <2>3 DEF Share
  <2> QED BY <1>1, <2>4, KeyRescaled
<1> QED BY <1>2, <1>3

\* What a tile counts, when the maximum moves.
LEMMA TileShares ==
    ASSUME NEW t \in Given, NEW r \in Rows, NEW m \in Int, Below(t, r, m)
    PROVE  /\ \A last \in 0 .. ONE : TileShare(t, r, m, last, TILE) \in Nat
           /\ TileShare(t, r, m, 0, TILE) <= TileShare(t, r, m, LastEntry, TILE)
<1> USE TableSizes
<1> DEFINE f(last) == [c \in 1 .. TILE |-> Share(t, r, c - 1, m, last)]
<1>1. \A c \in 1 .. TILE : c - 1 \in Cols
  BY DEF Cols
<1>2. \A last : TileShare(t, r, m, last, TILE) = SumTo(f(last), TILE)
  BY DEF TileShare
<1>3. ASSUME NEW last \in 0 .. ONE PROVE \A c \in 1 .. TILE : f(last)[c] \in Nat
  BY <1>1, ShareRange
<1>4. \A c \in 1 .. TILE : f(0)[c] <= f(LastEntry)[c]
  BY <1>1, ShareRange
<1> HIDE DEF f
<1>5. \A last \in 0 .. ONE : SumTo(f(last), TILE) \in Nat
  BY <1>3, SumType
<1>6. 1 * SumTo(f(0), TILE) <= 1 * SumTo(f(LastEntry), TILE) + TILE * 0
  <2>1. \A c \in 1 .. TILE : /\ f(0)[c] \in Nat /\ f(LastEntry)[c] \in Nat
                             /\ 1 * f(0)[c] <= 1 * f(LastEntry)[c] + 0
    BY <1>3, <1>4
  <2> QED BY <2>1, SumComparison
<1>7. PICK x \in Nat, y \in Nat : x = SumTo(f(0), TILE) /\ y = SumTo(f(LastEntry), TILE)
  BY <1>5
<1>8. x <= y
  BY <1>6, <1>7
<1> QED BY <1>2, <1>5, <1>7, <1>8

LEMMA TileRescaled ==
    ASSUME NEW t \in Given, NEW r \in Rows, NEW old \in Int, NEW new \in Int, old <= new,
           Below(t, r, old)
    PROVE  /\ ONE * TileShare(t, r, new, 0, TILE)
                <= exp_q15(new - old) * TileShare(t, r, old, 0, TILE) + TILE * (ONE * LOSS)
           /\ exp_q15(new - old) * TileShare(t, r, old, LastEntry, TILE)
                <= ONE * TileShare(t, r, new, LastEntry, TILE) + TILE * (ONE * GAIN)
<1> USE TableSizes
<1> DEFINE f(m, last) == [c \in 1 .. TILE |-> Share(t, r, c - 1, m, last)]
<1>1. \A c \in 1 .. TILE : c - 1 \in Cols
  BY DEF Cols
<1>2. \A m, last : TileShare(t, r, m, last, TILE) = SumTo(f(m, last), TILE)
  BY DEF TileShare
<1>3. Below(t, r, new)
  BY DEF Below, Given, Score
<1>4. PICK a \in Nat : a = exp_q15(new - old)
  <2>1. new - old \in Nat
    OBVIOUS
  <2> QED BY <2>1, KeptRange
<1>5. \A c \in 1 .. TILE, m \in {old, new}, last \in {0, LastEntry} : f(m, last)[c] \in Nat
  BY <1>1, <1>3, ShareRange
<1>6. \A c \in 1 .. TILE : /\ ONE * f(new, 0)[c] <= a * f(old, 0)[c] + ONE * LOSS
                           /\ a * f(old, LastEntry)[c] <= ONE * f(new, LastEntry)[c] + ONE * GAIN
  BY <1>1, <1>4, ShareRescaled
<1> HIDE DEF f
<1>7. ONE * LOSS \in Nat /\ ONE * GAIN \in Nat
  OBVIOUS
<1>8. ONE * SumTo(f(new, 0), TILE) <= a * SumTo(f(old, 0), TILE) + TILE * (ONE * LOSS)
  BY <1>5, <1>6, <1>7, SumComparison
<1>9. a * SumTo(f(old, LastEntry), TILE) <= ONE * SumTo(f(new, LastEntry), TILE) + TILE * (ONE * GAIN)
  BY <1>5, <1>6, <1>7, SumComparison
<1> QED BY <1>2, <1>4, <1>8, <1>9

\* What the first n tiles count, when the maximum moves.
LEMMA RowShares ==
    ASSUME given \in Seq(Given), NEW r \in Rows, NEW n \in Nat, n <= Len(given),
           NEW m \in Int, \A i \in 1 .. n : Below(given[i], r, m)
    PROVE  \A last \in 0 .. ONE : RowShare(n, r, m, last) \in Nat
<1> SUFFICES ASSUME NEW last \in 0 .. ONE PROVE RowShare(n, r, m, last) \in Nat
  OBVIOUS
<1> DEFINE f == [i \in 1 .. n |-> TileShare(given[i], r, m, last, TILE)]
<1>1. \A i \in 1 .. n : f[i] \in Nat
  <2>1. \A i \in 1 .. n : given[i] \in Given
    OBVIOUS
  <2> QED BY <2>1, TileShares
<1>2. RowShare(n, r, m, last) = SumTo(f, n)
  BY DEF RowShare
<1> HIDE DEF f
<1> QED BY <1>1, <1>2, SumType

LEMMA RowRescaled ==
    ASSUME given \in Seq(Given), NEW r \in Rows, NEW n \in Nat, n <= Len(given),
           NEW old \in Int, NEW new \in Int, old <= new,
           \A i \in 1 .. n : Below(given[i], r, old)
    PROVE  /\ ONE * RowShare(n, r, new, 0)
                <= exp_q15(new - old) * RowShare(n, r, old, 0) + n * (TILE * (ONE * LOSS))
           /\ exp_q15(new - old) * RowShare(n, r, old, LastEntry)
                <= ONE * RowShare(n, r, new, LastEntry) + n * (TILE * (ONE * GAIN))
<1> USE TableSizes
<1> DEFINE f(m, last) == [i \in 1 .. n |-> TileShare(given[i], r, m, last, TILE)]
<1>1. \A i \in 1 .. n : given[i] \in Given
  OBVIOUS
<1>2. \A m, last : RowShare(n, r, m, last) = SumTo(f(m, last), n)
  BY DEF RowShare
<1>3. \A i \in 1 .. n : Below(given[i], r, new)
  BY <1>1 DEF Below, Given, Score
<1>4. PICK a \in Nat : a = exp_q15(new - old)
  <2>1. new - old \in Nat
    OBVIOUS
  <2> QED BY <2>1, KeptRange
<1>5. \A i \in 1 .. n, m \in {old, new}, last \in {0, LastEntry} : f(m, last)[i] \in Nat
  BY <1>1, <1>3, TileShares
<1>6. \A i \in 1 .. n :
         /\ ONE * f(new, 0)[i] <= a * f(old, 0)[i] + TILE * (ONE * LOSS)
         /\ a * f(old, LastEntry)[i] <= ONE * f(new, LastEntry)[i] + TILE * (ONE * GAIN)
  BY <1>1, <1>4, TileRescaled
<1> HIDE DEF f
<1>7. TILE * (ONE * LOSS) \in Nat /\ TILE * (ONE * GAIN) \in Nat
  OBVIOUS
<1>8. ONE * SumTo(f(new, 0), n) <= a * SumTo(f(old, 0), n) + n * (TILE * (ONE * LOSS))
  BY <1>5, <1>6, <1>7, SumComparison
<1>9. a * SumTo(f(old, LastEntry), n) <= ONE * SumTo(f(new, LastEntry), n) + n * (TILE * (ONE * GAIN))
  BY <1>5, <1>6, <1>7, SumComparison
<1> QED BY <1>2, <1>4, <1>8, <1>9

\* One more tile counts on its own.
LEMMA RowShareSplit ==
    ASSUME NEW r, NEW m, NEW last, NEW k \in Nat
    PROVE  RowShare(k + 1, r, m, last)
             = RowShare(k, r, m, last) + TileShare(given[k + 1], r, m, last, TILE)
<1> DEFINE f == [i \in 1 .. k |-> TileShare(given[i], r, m, last, TILE)]
           g == [i \in 1 .. k + 1 |-> TileShare(given[i], r, m, last, TILE)]
<1>1. RowShare(k, r, m, last) = SumTo(f, k) /\ RowShare(k + 1, r, m, last) = SumTo(g, k + 1)
  BY DEF RowShare
<1>2. \A i \in 1 .. k : f[i] = g[i]
  OBVIOUS
<1>3. g[k + 1] = TileShare(given[k + 1], r, m, last, TILE)
  OBVIOUS
<1> HIDE DEF f, g
<1>4. SumTo(f, k) = SumTo(g, k)
  BY <1>2, SumCongruence
<1>5. SumTo(g, k + 1) = SumTo(g, k) + g[k + 1]
  BY SumRecursion
<1> QED BY <1>1, <1>3, <1>4, <1>5

\* Tiles without a key for the row count nothing.
LEMMA RowShareEmpty ==
    ASSUME NEW r \in Rows, NEW n \in Nat, NEW m, NEW last,
           \A i \in 1 .. n : \A c \in Cols : given[i].mask[r][c]
    PROVE  RowShare(n, r, m, last) = 0
<1> USE TableSizes
<1> DEFINE f == [i \in 1 .. n |-> TileShare(given[i], r, m, last, TILE)]
<1>1. ASSUME NEW i \in 1 .. n PROVE f[i] = 0
  <2> DEFINE g == [c \in 1 .. TILE |-> Share(given[i], r, c - 1, m, last)]
  <2>1. \A c \in 1 .. TILE : c - 1 \in Cols
    BY DEF Cols
  <2>2. \A c \in 1 .. TILE : g[c] = 0
    BY <2>1 DEF Share
  <2>3. f[i] = SumTo(g, TILE)
    BY DEF TileShare
  <2> HIDE DEF f, g
  <2> QED BY <2>2, <2>3, SumType
<1>2. RowShare(n, r, m, last) = SumTo(f, n)
  BY DEF RowShare
<1> HIDE DEF f
<1> QED BY <1>1, <1>2, SumType
-----------------------------------------------------------------------------
\* What the denominators hold.

\* The old denominator, rescaled and rounded, against a sum of which it was
\* short by at most d, and which the factor a carries to the new one up to e.
LEMMA RescaledAtLeast ==
    ASSUME NEW l \in Nat, NEW a \in 0 .. ONE, NEW d \in Nat, NEW e \in Nat,
           NEW old \in Nat, NEW new \in Nat,
           old <= l + d, ONE * new <= a * old + ONE * e
    PROVE  new <= (l * a + ONE \div 2) \div ONE + (d + e)
<1> USE TableSizes
<1> DEFINE h == ONE \div 2
           n == l * a + h
<1>1. h \in Nat /\ l * a \in Nat /\ n \in Nat
  OBVIOUS
<1>2. a * old <= l * a + ONE * d
  <2>1. a * (l + d - old) \in Nat
    <3>1. l + d - old \in Nat
      OBVIOUS
    <3> QED BY <3>1
  <2>2. a * (l + d - old) = l * a + a * d - a * old
    OBVIOUS
  <2>3. (ONE - a) * d \in Nat
    <3>1. ONE - a \in Nat
      OBVIOUS
    <3> QED BY <3>1
  <2>4. (ONE - a) * d = ONE * d - a * d
    OBVIOUS
  <2>5. l * a \in Nat /\ a * d \in Nat /\ a * old \in Nat /\ ONE * d \in Nat
    OBVIOUS
  <2> QED BY <2>1, <2>2, <2>3, <2>4, <2>5
<1>3. ASSUME new >= d + e PROVE new - (d + e) <= n \div ONE
  <2>1. PICK q \in Nat : q = new - (d + e)
    BY <1>3
  <2>2. q * ONE = ONE * new - ONE * d - ONE * e
    BY <2>1
  <2>3. /\ ONE * new \in Nat /\ ONE * d \in Nat /\ ONE * e \in Nat /\ a * old \in Nat
        /\ q * ONE \in Nat
    BY <2>1
  <2>4. q * ONE <= n
    <3> HIDE DEF h
    <3> QED BY <1>1, <1>2, <2>2, <2>3
  <2> HIDE DEF n
  <2>5. q <= n \div ONE
    BY <1>1, <2>1, <2>4, QuotientAtLeast
  <2> QED BY <2>1, <2>5
<1>4. n \div ONE \in Nat
  <2> HIDE DEF n
  <2> QED BY <1>1
<1> DEFINE k == n \div ONE
<1>5. new <= k + (d + e)
  <2> HIDE DEF n, k
  <2>1. k \in Nat /\ (new >= d + e => new - (d + e) <= k)
    BY <1>3, <1>4 DEF k
  <2> QED BY <2>1
<1> QED BY <1>5

\* and against a sum it exceeds by at most d.
LEMMA RescaledAtMost ==
    ASSUME NEW l \in Nat, NEW a \in 0 .. ONE, NEW d \in Nat, NEW e \in Nat,
           NEW old \in Nat, NEW new \in Nat,
           l <= old + d, a * old <= ONE * new + ONE * e
    PROVE  (l * a + ONE \div 2) \div ONE <= new + (d + e)
<1> USE TableSizes
<1> DEFINE h == ONE \div 2
           n == l * a + h
<1>1. h \in Nat /\ h < ONE /\ l * a \in Nat /\ n \in Nat
  OBVIOUS
<1>2. l * a <= a * old + ONE * d
  <2>1. a * (old + d - l) \in Nat
    <3>1. old + d - l \in Nat
      OBVIOUS
    <3> QED BY <3>1
  <2>2. a * (old + d - l) = a * old + a * d - l * a
    OBVIOUS
  <2>3. (ONE - a) * d \in Nat
    <3>1. ONE - a \in Nat
      OBVIOUS
    <3> QED BY <3>1
  <2>4. (ONE - a) * d = ONE * d - a * d
    OBVIOUS
  <2>5. l * a \in Nat /\ a * d \in Nat /\ a * old \in Nat /\ ONE * d \in Nat
    OBVIOUS
  <2> QED BY <2>1, <2>2, <2>3, <2>4, <2>5
<1>3. PICK q \in Nat : q = new + (d + e)
  OBVIOUS
<1>4. q * ONE = ONE * new + ONE * d + ONE * e
  BY <1>3
<1>5. /\ ONE * new \in Nat /\ ONE * d \in Nat /\ ONE * e \in Nat /\ a * old \in Nat
      /\ q * ONE \in Nat
  BY <1>3
<1>6. n < q * ONE + ONE
  <2> HIDE DEF h
  <2> QED BY <1>1, <1>2, <1>4, <1>5
<1>7. n \div ONE <= q
  <2> HIDE DEF n
  <2> QED BY <1>1, <1>3, <1>6, QuotientAtMost
<1> QED BY <1>3, <1>7

\* How often the error of the table may have been added after n tiles.
Slack(n) == IF n = 0 THEN 0 ELSE (n - 1) * ((n - 1) * TILE)

LEMMA SlackGrows ==
    ASSUME NEW k \in Nat
    PROVE  /\ Slack(k) \in Nat /\ k * TILE \in Nat /\ Slack(k + 1) \in Nat
           /\ Slack(k + 1) = k * (k * TILE) /\ Slack(k) + k * TILE <= Slack(k + 1)
<1> USE TableSizes
<1>1. Slack(k + 1) = k * (k * TILE)
  <2>1. k + 1 # 0 /\ (k + 1) - 1 = k
    OBVIOUS
  <2> QED BY <2>1 DEF Slack
<1>2. k * TILE \in Nat /\ k * (k * TILE) \in Nat
  <2>1. \A x \in Nat : k * x \in Nat
    OBVIOUS
  <2> QED BY <2>1
<1>3. CASE k = 0
  <2>1. 0 * TILE = 0 /\ 0 * 0 = 0
    OBVIOUS
  <2> QED BY <1>1, <1>3, <2>1 DEF Slack
<1>4. CASE k # 0
  <2>1. PICK j \in Nat : k = j + 1
    <3>1. k - 1 \in Nat /\ k = (k - 1) + 1
      BY <1>4
    <3> QED BY <3>1
  <2>2. PICK p \in Nat : p = j * TILE
    OBVIOUS
  <2>3. Slack(k) = j * p
    BY <1>4, <2>1, <2>2 DEF Slack
  <2>4. k * TILE = p + TILE
    BY <2>1, <2>2
  <2>5. k * (p + TILE) = j * p + p + p + TILE
    BY <2>1, <2>2
  <2>6. j * p \in Nat
    OBVIOUS
  <2> QED BY <1>1, <1>2, <2>3, <2>4, <2>5, <2>6
<1> QED BY <1>1, <1>2, <1>3, <1>4

LEMMA SlackCovers ==
    ASSUME NEW k \in Nat, NEW x \in Nat
    PROVE  /\ x * Slack(k) \in Nat /\ x * (k * TILE) \in Nat /\ x * Slack(k + 1) \in Nat
           /\ x * Slack(k) + x * (k * TILE) <= x * Slack(k + 1)
<1>1. PICK u \in Nat, v \in Nat, w \in Nat :
         u = Slack(k) /\ v = k * TILE /\ w = Slack(k + 1) /\ u + v <= w
  BY SlackGrows
<1>2. x * u \in Nat /\ x * v \in Nat /\ x * w \in Nat /\ x * (w - u - v) \in Nat
  <2>1. w - u - v \in Nat
    BY <1>1
  <2> QED BY <2>1
<1>3. x * (w - u - v) = x * w - x * u - x * v
  OBVIOUS
<1> QED BY <1>1, <1>2, <1>3

\* l is the sum of what the first n tiles count towards m, up to the error of
\* the table.
Between(n, r, m, l) ==
    /\ RowShare(n, r, m, 0) <= l + LOSS * Slack(n)
    /\ l <= RowShare(n, r, m, LastEntry) + GAIN * Slack(n)

\* The denominator of the first k tiles, rescaled to a greater maximum.
LEMMA DenominatorRescaled ==
    ASSUME given \in Seq(Given), NEW r \in Rows, NEW k \in Nat, k <= Len(given),
           NEW old \in Int, NEW new \in Int, old <= new,
           \A i \in 1 .. k : Below(given[i], r, old),
           NEW l \in Nat, Between(k, r, old, l)
    PROVE  LET q == (l * exp_q15(new - old) + ONE \div 2) \div ONE
           IN  /\ RowShare(k, r, new, 0) <= q + LOSS * Slack(k + 1)
               /\ q <= RowShare(k, r, new, LastEntry) + GAIN * Slack(k + 1)
<1> USE TableSizes
<1>1. PICK a \in 0 .. ONE : a = exp_q15(new - old)
  <2>1. new - old \in Nat
    OBVIOUS
  <2> QED BY <2>1, KeptRange
<1> DEFINE q == (l * a + ONE \div 2) \div ONE
<1>2. q \in Nat
  BY Rescaling
<1>3. \A i \in 1 .. k : Below(given[i], r, new)
  <2>1. \A i \in 1 .. k : given[i] \in Given
    OBVIOUS
  <2> QED BY <2>1 DEF Below, Given, Score
<1>4. PICK oldLow \in Nat, newLow \in Nat, oldHigh \in Nat, newHigh \in Nat :
         /\ oldLow = RowShare(k, r, old, 0) /\ newLow = RowShare(k, r, new, 0)
         /\ oldHigh = RowShare(k, r, old, LastEntry) /\ newHigh = RowShare(k, r, new, LastEntry)
  BY <1>3, RowShares
<1>5. /\ ONE * newLow <= a * oldLow + k * (TILE * (ONE * LOSS))
      /\ a * oldHigh <= ONE * newHigh + k * (TILE * (ONE * GAIN))
  BY <1>1, <1>4, RowRescaled
<1>6. \A x \in Nat : k * (TILE * (ONE * x)) = ONE * (x * (k * TILE))
  OBVIOUS
<1>7. PICK d \in Nat, e \in Nat, f \in Nat :
         d = LOSS * Slack(k) /\ e = LOSS * (k * TILE) /\ f = LOSS * Slack(k + 1) /\ d + e <= f
  BY SlackCovers
<1>8. newLow <= q + (d + e)
  <2>1. oldLow <= l + d /\ ONE * newLow <= a * oldLow + ONE * e
    BY <1>4, <1>5, <1>6, <1>7 DEF Between
  <2> QED BY <2>1, RescaledAtLeast
<1>9. PICK u \in Nat, v \in Nat, w \in Nat :
         u = GAIN * Slack(k) /\ v = GAIN * (k * TILE) /\ w = GAIN * Slack(k + 1) /\ u + v <= w
  BY SlackCovers
<1>10. q <= newHigh + (u + v)
  <2>1. l <= oldHigh + u /\ a * oldHigh <= ONE * newHigh + ONE * v
    BY <1>4, <1>5, <1>6, <1>9 DEF Between
  <2> QED BY <2>1, RescaledAtMost
<1> HIDE DEF q
<1>11. newLow <= q + f
  BY <1>2, <1>7, <1>8, SMTT(40)
<1>12. q <= newHigh + w
  BY <1>2, <1>9, <1>10, SMTT(30)
<1> QED BY <1>1, <1>4, <1>7, <1>9, <1>11, <1>12 DEF q

\* What a row and the work registers hold of the tiles before, and of the one
\* in work.
SumsKept(n) == \A r \in Rows : row_have[r] => Between(n, r, row_m[r], row_l[r])
SumsAtRest == state = "IDLE" /\ ~protocol_error => SumsKept(Len(given))
SumsPreparing ==
    state = "PREP" /\ ~protocol_error /\ meta.col # 0 => SumsKept(Len(given) - 1)
SumsAtWork ==
    state \in {"ALPHA", "WEIGHT"} /\ ~protocol_error =>
        \A r \in Rows :
          /\ Top(Len(given) - 1, r, work_old_have[r], work_old_m[r])
          /\ work_old_have[r] => Between(Len(given) - 1, r, work_old_m[r], work_old_l[r])
TileWeighed ==
    state = "WEIGHT" /\ ~protocol_error =>
        \A r \in Rows :
          /\ work_alpha[r] = alpha(r)
          /\ tile_sum[r] = TileShare(given[Len(given)], r, work_new_m[r], 0, weight_col)
SumsOut ==
    state = "OUTPUT" /\ ~protocol_error => row_l = out.l /\ SumsKept(Len(given))

SumInv == SumsAtRest /\ SumsPreparing /\ SumsAtWork /\ TileWeighed /\ SumsOut

LEMMA SumInit == Init => SumInv
<1> SUFFICES ASSUME Init PROVE SumInv
  OBVIOUS
<1>1. state = "IDLE" /\ row_have = Never
  BY DEF Init
<1>2. \A n : SumsKept(n)
  BY <1>1 DEF SumsKept, Never
<1> QED BY <1>1, <1>2 DEF SumInv, SumsAtRest, SumsPreparing, SumsAtWork, TileWeighed, SumsOut

LEMMA SumClear == Clear => SumInv'
<1> SUFFICES ASSUME Clear PROVE SumInv'
  OBVIOUS
<1>1. state' = "IDLE" /\ row_have' = Never
  BY DEF Clear
<1>2. SumsKept(Len(given))'
  BY <1>1 DEF SumsKept, Never
<1> QED BY <1>1, <1>2 DEF SumInv, SumsAtRest, SumsPreparing, SumsAtWork, TileWeighed, SumsOut

\* A tile that is added does not move what the tiles before it count.
LEMMA SumAccept ==
    ASSUME IInv, GivenInv, SumInv,
           NEW block \in Blocks, NEW col \in 0 .. SEQ_LEN - 1, NEW tile \in Tiles,
           Accept(block, col, tile)
    PROVE  SumInv'
<1>1. /\ state = "IDLE" /\ state' = "PREP" /\ meta'.col = col
      /\ UNCHANGED <<row_m, row_l, row_have, protocol_error>>
  BY DEF Accept, rowVars
<1>2. PICK n \in Nat : n = Len(given)
  BY DEF GivenInv, GivenTypes
<1>3. ASSUME ~protocol_error, col # 0 PROVE SumsKept(Len(given) - 1)'
  <2> DEFINE t == [block |-> block, col |-> col, score |-> tile.score, mask |-> tile.mask]
  <2>1. given' = Append(given, t) /\ given \in Seq(Given)
    BY <1>3 DEF Accept, GivenInv, GivenTypes
  <2>2. Len(given') = n + 1 /\ \A i \in 1 .. n : given'[i] = given[i]
    <3> HIDE DEF t
    <3>1. Len(given') = n + 1
      BY <1>2, <2>1
    <3>2. \A i \in 1 .. n : given'[i] = given[i]
      BY <1>2, <2>1
    <3> QED BY <3>1, <3>2
  <2>3. (n + 1) - 1 = n
    OBVIOUS
  <2>4. SumsKept(n)
    BY <1>1, <1>2, <1>3 DEF SumInv, SumsAtRest
  <2>5. \A r, m, last : RowShare(n, r, m, last)' = RowShare(n, r, m, last)
    BY <2>2, ZenonT(40) DEF RowShare, TileShare, Share
  <2>6. SumsKept(n)'
    <3> SUFFICES ASSUME NEW r \in Rows, row_have[r]
                 PROVE  Between(n, r, row_m[r], row_l[r])'
      BY <1>1 DEF SumsKept
    <3>1. Between(n, r, row_m[r], row_l[r])
      BY <2>4 DEF SumsKept
    <3> QED BY <1>1, <2>5, <3>1 DEF Between
  <2>7. Len(given') - 1 = n
    BY <2>2, <2>3
  <2> QED BY <2>6, <2>7 DEF SumsKept, Between, RowShare
<1>4. SumsPreparing'
  BY <1>1, <1>3 DEF SumsPreparing
<1> QED BY <1>1, <1>4 DEF SumInv, SumsAtRest, SumsAtWork, TileWeighed, SumsOut

\* The preparation hands the rows over to the work registers; a first tile
\* brings nothing along.
LEMMA SumPrep == ASSUME IInv, GivenInv, SumInv, Prep PROVE SumInv'
<1>1. /\ state = "PREP" /\ state' = "ALPHA"
      /\ UNCHANGED <<given, meta, score_reg, mask_reg>>
      /\ protocol_error => protocol_error'
  BY DEF Prep
<1>2. protocol_error \in BOOLEAN /\ protocol_error' \in BOOLEAN /\ row_have \in [Rows -> BOOLEAN]
  BY DEF IInv, TypeOK, Flags, Prep
<1>3. PICK n \in Nat : n = Len(given) - 1
  <2>1. Len(given) \in Nat \ {0}
    BY <1>1 DEF GivenInv, GivenTypes
  <2>2. Len(given) - 1 \in Nat
    BY <2>1
  <2> QED BY <2>2
<1>4. ASSUME ~protocol_error', NEW r \in Rows
      PROVE  /\ Top(n, r, work_old_have'[r], work_old_m'[r])
             /\ work_old_have'[r] => Between(n, r, work_old_m'[r], work_old_l'[r])
  <2>1. ~protocol_error
    BY <1>1, <1>2, <1>4
  <2>2. CASE first_tile
    <3>1. work_old_have'[r] = FALSE
      BY <2>2 DEF Prep, Never
    <3>2. n = 0
      <4>1. Len(given) = 1
        BY <1>1, <2>1, <2>2 DEF GivenInv, Preparing, first_tile
      <4> QED BY <1>3, <4>1
    <3> QED BY <3>1, <3>2 DEF Top
  <2>3. CASE ~first_tile
    <3>1. /\ work_old_have'[r] = row_have[r] /\ work_old_m'[r] = row_m[r]
          /\ work_old_l'[r] = row_l[r]
      BY <2>3 DEF Prep
    <3>2. Kept(n) /\ SumsKept(n)
      BY <1>1, <1>3, <2>1, <2>3 DEF GivenInv, Preparing, SumInv, SumsPreparing, first_tile
    <3> QED BY <3>1, <3>2 DEF Kept, SumsKept
  <2> QED BY <2>2, <2>3
<1>5. SumsAtWork'
  <2>1. Len(given') - 1 = n
    BY <1>1, <1>3
  <2>2. \A r, have, m : Top(n, r, have, m) => /\ Top(Len(given') - 1, r, have, m)
    BY <2>1
  <2> SUFFICES ASSUME ~protocol_error', NEW r \in Rows
               PROVE  /\ Top(Len(given) - 1, r, work_old_have[r], work_old_m[r])'
                      /\ work_old_have'[r] => Between(Len(given) - 1, r, work_old_m[r], work_old_l[r])'
    BY DEF SumsAtWork
  <2>3. /\ Top(Len(given) - 1, r, work_old_have'[r], work_old_m'[r])
        /\ work_old_have'[r] => Between(Len(given) - 1, r, work_old_m'[r], work_old_l'[r])
    BY <1>3, <1>4
  <2> QED BY <1>1, <2>3 DEF Top, AtMost, Attains, Between, RowShare, TileShare, Share
<1> QED BY <1>1, <1>5 DEF SumInv, SumsAtRest, SumsPreparing, TileWeighed, SumsOut

\* While the weights are formed, what the tiles before count does not move.
LEMMA SumKept ==
    ASSUME SumInv, state \in {"ALPHA", "WEIGHT"}, state' = "WEIGHT",
           UNCHANGED <<given, protocol_error, workVars>>
    PROVE  SumsAtRest' /\ SumsPreparing' /\ SumsAtWork' /\ SumsOut'
<1>1. SumsAtWork'
  BY DEF SumInv, SumsAtWork, workVars, Top, AtMost, Attains, Between, RowShare, TileShare, Share
<1> QED BY <1>1 DEF SumsAtRest, SumsPreparing, SumsOut

LEMMA SumAlpha == ASSUME IInv, GivenInv, SumInv, Alpha PROVE SumInv'
<1>1. /\ state = "ALPHA" /\ state' = "WEIGHT" /\ weight_col = 0 /\ weight_col' = 0
      /\ \A r \in Rows : tile_sum[r] = 0
      /\ UNCHANGED <<given, protocol_error, workVars, tile_sum>>
      /\ work_alpha' = [r \in Rows |-> alpha(r)]
  BY DEF Alpha, IInv, Fresh
<1>2. SumsAtRest' /\ SumsPreparing' /\ SumsAtWork' /\ SumsOut'
  BY <1>1, SumKept
<1>3. TileWeighed'
  <2> SUFFICES ASSUME NEW r \in Rows
               PROVE  /\ work_alpha'[r] = alpha(r)'
                      /\ tile_sum'[r] = TileShare(given[Len(given)], r, work_new_m[r], 0, weight_col)'
    BY DEF TileWeighed
  <2>1. work_alpha'[r] = alpha(r)'
    BY <1>1 DEF alpha, workVars
  <2>2. \A t, m : TileShare(t, r, m, 0, 0) = 0
    BY SumRecursion DEF TileShare
  <2>3. TileShare(given[Len(given)], r, work_new_m[r], 0, weight_col)'
          = TileShare(given[Len(given)], r, work_new_m[r], 0, 0)
    BY <1>1 DEF workVars, TileShare, Share
  <2> QED BY <1>1, <2>1, <2>2, <2>3
<1> QED BY <1>2, <1>3 DEF SumInv

\* One more column is the share of the tile in work up to it.
LEMMA ColumnShare ==
    ASSUME IInv, GivenInv, SumInv, state = "WEIGHT", ~protocol_error, NEW r \in Rows
    PROVE  tile_sum_with_weight(r)
             = TileShare(given[Len(given)], r, work_new_m[r], 0, weight_col + 1)
<1> DEFINE t == given[Len(given)]
           f == [c \in 1 .. TILE |-> Share(t, r, c - 1, work_new_m[r], 0)]
<1>1. t.score = score_reg /\ t.mask = mask_reg
  BY DEF GivenInv, GivenTypes
<1>2. weight_col \in Nat /\ weight_col + 1 \in 1 .. TILE /\ (weight_col + 1) - 1 = weight_col
      /\ weight_col \in Cols
  <2>1. weight_col \in Cols
    BY DEF IInv, TypeOK
  <2> QED BY <2>1, TableSizes DEF Cols
<1>3. ~mask_reg[r][weight_col] => work_have[r]
  <2>1. PICK n \in Nat \ {0} : n = Len(given)
    BY DEF GivenInv, GivenTypes
  <2>2. Top(n, r, work_have[r], work_new_m[r])
    BY <2>1 DEF GivenInv, AtWork
  <2>3. n \in 1 .. n
    OBVIOUS
  <2>4. AtMost(n, r, work_have[r], work_new_m[r])
    BY <2>2, <2>3 DEF Top
  <2> QED BY <1>1, <1>2, <2>1, <2>4 DEF AtMost
<1>4. weight(r, weight_col) = Share(t, r, weight_col, work_new_m[r], 0)
  <2>1. \A d : kept(d, 0) = exp_q15(d)
    BY DEF kept, exp_q15
  <2>2. CASE mask_reg[r][weight_col]
    BY <1>1, <2>2 DEF weight, Share
  <2>3. CASE ~mask_reg[r][weight_col]
    <3>1. weight(r, weight_col) = exp_q15(work_new_m[r] - score_reg[r][weight_col])
      BY <1>3, <2>3 DEF weight
    <3>2. Share(t, r, weight_col, work_new_m[r], 0) = kept(work_new_m[r] - score_reg[r][weight_col], 0)
      BY <1>1, <2>3 DEF Share
    <3> QED BY <2>1, <3>1, <3>2
  <2> QED BY <2>2, <2>3
<1>5. f[weight_col + 1] = weight(r, weight_col)
  BY <1>2, <1>4
<1>6. tile_sum[r] = SumTo(f, weight_col)
      /\ TileShare(t, r, work_new_m[r], 0, weight_col + 1) = SumTo(f, weight_col + 1)
  BY DEF SumInv, TileWeighed, TileShare
<1> HIDE DEF f, t
<1>7. SumTo(f, weight_col + 1) = SumTo(f, weight_col) + f[weight_col + 1]
  BY <1>2, SumRecursion
<1>8. tile_sum_with_weight(r) = TileShare(t, r, work_new_m[r], 0, weight_col + 1)
  BY <1>5, <1>6, <1>7 DEF tile_sum_with_weight
<1> QED BY <1>8 DEF t

LEMMA SumWeight == ASSUME IInv, GivenInv, SumInv, Weight PROVE SumInv'
<1>1. /\ state = "WEIGHT" /\ state' = "WEIGHT" /\ weight_col' = weight_col + 1
      /\ tile_sum' = [r \in Rows |-> tile_sum_with_weight(r)]
      /\ UNCHANGED <<given, protocol_error, workVars, work_alpha>>
  BY DEF Weight, WeightStep
<1>2. SumsAtRest' /\ SumsPreparing' /\ SumsAtWork' /\ SumsOut'
  BY <1>1, SumKept
<1>3. TileWeighed'
  <2> SUFFICES ASSUME ~protocol_error, NEW r \in Rows
               PROVE  /\ work_alpha'[r] = alpha(r)'
                      /\ tile_sum'[r] = TileShare(given[Len(given)], r, work_new_m[r], 0, weight_col)'
    BY <1>1 DEF TileWeighed
  <2>1. work_alpha'[r] = alpha(r)'
    BY <1>1 DEF SumInv, TileWeighed, alpha, workVars
  <2>2. tile_sum'[r] = TileShare(given[Len(given)], r, work_new_m[r], 0, weight_col + 1)
    BY <1>1, ColumnShare
  <2>3. TileShare(given[Len(given)], r, work_new_m[r], 0, weight_col)'
          = TileShare(given[Len(given)], r, work_new_m[r], 0, weight_col + 1)
    BY <1>1 DEF workVars, TileShare, Share
  <2> QED BY <2>1, <2>2, <2>3
<1> QED BY <1>2, <1>3 DEF SumInv

\* The sum of the two parts of the new denominator does not wrap.
LEMMA UpdatedIsSum ==
    ASSUME IInv, LastWeight, ~protocol_error, NEW r \in Rows
    PROVE  /\ l_scaled(r) \in Nat /\ tile_sum_with_weight(r) \in Nat
           /\ l_updated(r) = l_scaled(r) + tile_sum_with_weight(r)
<1> USE ZeroTypes
<1>0. TypeOK /\ state = "WEIGHT" /\ weight_col = TILE - 1 /\ meta.col \in Nat
  BY DEF IInv, TypeOK, LastWeight, WeightStep
<1>1. PICK s \in Nat : s = l_scaled(r) /\ s <= work_old_l[r]
  BY <1>0, Rescaling DEF TypeOK, l_scaled
<1>2. PICK t \in Nat : t = tile_sum_with_weight(r) /\ t <= ONE * TILE
  <2>1. ONE * (TILE - 1) + ONE = ONE * TILE
    OBVIOUS
  <2> QED BY <1>0, <2>1, SumStep
<1>3. work_old_l[r] \in Nat /\ work_old_l[r] <= ONE * meta.col /\ meta.col + TILE <= SEQ_LEN
  BY <1>0 DEF IInv, WorkBounds, TypeOK
<1>4. ONE * meta.col + ONE * TILE <= ONE * SEQ_LEN
  <2>1. SEQ_LEN - (meta.col + TILE) \in Nat
    BY <1>0, <1>3
  <2>2. ONE * (SEQ_LEN - (meta.col + TILE)) \in Nat
    BY <2>1
  <2>3. ONE * (SEQ_LEN - (meta.col + TILE)) = ONE * SEQ_LEN - ONE * meta.col - ONE * TILE
    BY <1>0
  <2>4. ONE * SEQ_LEN \in Nat /\ ONE * meta.col \in Nat /\ ONE * TILE \in Nat
    BY <1>0
  <2> QED BY <2>2, <2>3, <2>4
<1>5. PICK a \in Nat, b \in Nat, c \in Nat : a = ONE * meta.col /\ b = ONE * TILE /\ c = ONE * SEQ_LEN
  BY <1>0
<1>6. s + t < L_MOD
  BY <1>1, <1>2, <1>3, <1>4, <1>5
<1>7. PICK u \in Nat : u = s + t /\ u < L_MOD
  BY <1>6
<1>8. u % L_MOD = u
  BY <1>7, SmallModulo
<1> QED BY <1>1, <1>2, <1>7, <1>8 DEF l_updated

\* The last column of a tile: the denominators now hold this tile as well.
LEMMA DenominatorUpdated ==
    ASSUME IInv, GivenInv, SumInv, LastWeight, ~protocol_error, NEW r \in Rows, work_have[r]
    PROVE  Between(Len(given), r, work_new_m[r], l_updated(r))
<1> USE TableSizes
<1>0. /\ TypeOK /\ state = "WEIGHT" /\ weight_col = TILE - 1 /\ given \in Seq(Given)
      /\ RowOrder(r)
  BY DEF IInv, LastWeight, WeightStep, GivenInv, GivenTypes, WorkOrder
<1>1. PICK k \in Nat : k + 1 = Len(given) /\ k = Len(given) - 1
  <2>1. Len(given) \in Nat \ {0}
    BY <1>0 DEF GivenInv, GivenTypes
  <2>2. Len(given) - 1 \in Nat /\ (Len(given) - 1) + 1 = Len(given)
    BY <2>1
  <2> QED BY <2>2
<1>2. /\ work_new_m[r] \in Int /\ work_old_m[r] \in Int /\ work_old_l[r] \in Nat
      /\ work_old_have[r] \in BOOLEAN
  BY <1>0 DEF TypeOK, Flags
<1>3. \A i \in 1 .. k + 1 : given[i] \in Given /\ Below(given[i], r, work_new_m[r])
  BY <1>0, <1>1 DEF GivenInv, AtWork, Top, AtMost, Below
<1>4. k + 1 \in 1 .. k + 1 /\ \A i \in 1 .. k : i \in 1 .. k + 1
  OBVIOUS
<1> DEFINE s == l_scaled(r)
           w == tile_sum_with_weight(r)
           old(last) == RowShare(k, r, work_new_m[r], last)
           tile(last) == TileShare(given[k + 1], r, work_new_m[r], last, TILE)
<1>5. s \in Nat /\ w \in Nat /\ l_updated(r) = s + w
  BY UpdatedIsSum
<1>6. w = tile(0)
  <2>1. (TILE - 1) + 1 = TILE
    OBVIOUS
  <2> QED BY <1>0, <1>1, <2>1, ColumnShare
<1>7. tile(0) \in Nat /\ tile(LastEntry) \in Nat /\ tile(0) <= tile(LastEntry)
  BY <1>2, <1>3, <1>4, TileShares
<1>8. old(0) \in Nat /\ old(LastEntry) \in Nat
  <2>1. k <= Len(given) /\ \A i \in 1 .. k : Below(given[i], r, work_new_m[r])
    BY <1>1, <1>3, <1>4
  <2>2. \A last \in 0 .. ONE : RowShare(k, r, work_new_m[r], last) \in Nat
    BY <1>0, <1>2, <2>1, RowShares
  <2> QED BY <2>2
<1>9. \A last : RowShare(Len(given), r, work_new_m[r], last) = old(last) + tile(last)
  BY <1>1, RowShareSplit
<1>10. /\ Top(k, r, work_old_have[r], work_old_m[r])
       /\ work_old_have[r] => Between(k, r, work_old_m[r], work_old_l[r])
       /\ work_alpha[r] = alpha(r)
  BY <1>0, <1>1 DEF SumInv, SumsAtWork, TileWeighed
<1>11. /\ LOSS * Slack(k + 1) \in Nat /\ GAIN * Slack(k + 1) \in Nat
  BY SlackCovers
<1>12. old(0) <= s + LOSS * Slack(k + 1) /\ s <= old(LastEntry) + GAIN * Slack(k + 1)
  <2>1. CASE work_old_have[r]
    <3>1. \A i \in 1 .. k : Below(given[i], r, work_old_m[r])
      BY <1>10, <2>1 DEF Top, AtMost, Below
    <3>2. work_old_m[r] <= work_new_m[r]
      BY <1>0, <2>1 DEF RowOrder
    <3>3. work_alpha[r] = exp_q15(work_new_m[r] - work_old_m[r])
      BY <1>10, <2>1 DEF alpha
    <3>4. Between(k, r, work_old_m[r], work_old_l[r]) /\ k <= Len(given)
      BY <1>1, <1>10, <2>1
    <3>5. s = (work_old_l[r] * exp_q15(work_new_m[r] - work_old_m[r]) + ONE \div 2) \div ONE
      BY <3>3 DEF l_scaled
    <3> HIDE DEF s
    <3> QED BY <1>0, <1>2, <3>1, <3>2, <3>4, <3>5, DenominatorRescaled
  <2>2. CASE ~work_old_have[r]
    <3>1. \A i \in 1 .. k : \A c \in Cols : given[i].mask[r][c]
      <4>1. \A i \in 1 .. k : AtMost(i, r, FALSE, work_old_m[r])
        BY <1>2, <1>10, <2>2 DEF Top
      <4>2. \A i \in 1 .. k : \A c \in Cols : given[i].mask[r][c] \in BOOLEAN
        BY <1>3, <1>4 DEF Given
      <4> QED BY <4>1, <4>2 DEF AtMost
    <3>2. \A last : old(last) = 0
      BY <3>1, RowShareEmpty
    <3>3. work_alpha[r] = 0
      BY <1>10, <2>2 DEF alpha
    <3>4. s = 0
      <4>1. work_old_l[r] * 0 + ONE \div 2 = ONE \div 2 /\ (ONE \div 2) \div ONE = 0
        BY <1>2
      <4> QED BY <3>3, <4>1 DEF l_scaled
    <3> HIDE DEF s, old
    <3> QED BY <1>11, <3>2, <3>4
  <2> QED BY <2>1, <2>2
<1>13. old(0) + tile(0) <= (s + w) + LOSS * Slack(k + 1)
  <2> HIDE DEF s, w, old, tile
  <2> QED BY <1>5, <1>6, <1>7, <1>8, <1>11, <1>12
<1>14. s + w <= old(LastEntry) + tile(LastEntry) + GAIN * Slack(k + 1)
  <2> HIDE DEF s, w, old, tile
  <2> QED BY <1>5, <1>6, <1>7, <1>8, <1>11, <1>12
<1> HIDE DEF s, w, old, tile
<1> QED BY <1>1, <1>5, <1>9, <1>13, <1>14 DEF Between

LEMMA SumLastWeight == ASSUME IInv, GivenInv, SumInv, LastWeight PROVE SumInv'
<1>1. /\ state = "WEIGHT" /\ state' = "OUTPUT"
      /\ row_m' = work_new_m /\ row_have' = work_have
      /\ row_l' = [r \in Rows |-> l_updated(r)] /\ out'.l = row_l'
      /\ UNCHANGED <<given, protocol_error>>
  BY DEF LastWeight, WeightStep
<1>2. ASSUME ~protocol_error PROVE row_l' = out'.l /\ SumsKept(Len(given))'
  <2> SUFFICES ASSUME NEW r \in Rows, work_have[r]
               PROVE  Between(Len(given), r, row_m[r], row_l[r])'
    BY <1>1 DEF SumsKept
  <2>1. Between(Len(given), r, work_new_m[r], l_updated(r))
    BY <1>2, DenominatorUpdated
  <2>2. row_m'[r] = work_new_m[r] /\ row_l'[r] = l_updated(r)
    BY <1>1
  <2> QED BY <1>1, <2>1, <2>2 DEF Between, RowShare, TileShare, Share
<1> QED BY <1>1, <1>2 DEF SumInv, SumsAtRest, SumsPreparing, SumsAtWork, TileWeighed, SumsOut

LEMMA SumOutput == ASSUME SumInv, Output PROVE SumInv'
<1>1. /\ state = "OUTPUT" /\ state' = "IDLE"
      /\ UNCHANGED <<given, row_m, row_l, row_have, protocol_error>>
  BY DEF Output, rowVars
<1>2. ~protocol_error => SumsKept(Len(given))'
  BY <1>1 DEF SumInv, SumsOut, SumsKept, Between, RowShare, TileShare, Share
<1> QED BY <1>1, <1>2 DEF SumInv, SumsAtRest, SumsPreparing, SumsAtWork, TileWeighed, SumsOut

LEMMA SumStutter == ASSUME SumInv, UNCHANGED vars PROVE SumInv'
<1>1. UNCHANGED <<state, row_m, row_l, row_have, work_old_m, work_new_m, work_old_l,
                  work_old_have, work_alpha, tile_sum, weight_col, meta, out,
                  protocol_error, given>>
  BY DEF vars, rowVars, workVars
<1>2. \A n, r, m, last : RowShare(n, r, m, last)' = RowShare(n, r, m, last)
  BY <1>1 DEF RowShare, TileShare, Share
<1>3. \A n, r, have, m : Top(n, r, have, m)' = Top(n, r, have, m)
  BY <1>1 DEF Top, AtMost, Attains
<1>4. SumsAtRest' /\ SumsPreparing' /\ SumsOut'
  BY <1>1, <1>2 DEF SumInv, SumsAtRest, SumsPreparing, SumsOut, SumsKept, Between
<1>5. SumsAtWork'
  BY <1>1, <1>2, <1>3 DEF SumInv, SumsAtWork, Between, RowShare, TileShare, Share, Top, AtMost, Attains
<1>6. TileWeighed'
  BY <1>1 DEF SumInv, TileWeighed, TileShare, Share, alpha
<1> QED BY <1>4, <1>5, <1>6 DEF SumInv

LEMMA SumInvStep == ASSUME IInv, GivenInv, SumInv, [Next]_vars PROVE SumInv'
<1>1. CASE \E block \in Blocks, col \in 0 .. SEQ_LEN - 1, tile \in Tiles : Accept(block, col, tile)
  BY <1>1, SumAccept
<1>2. CASE Prep
  BY <1>2, SumPrep
<1>3. CASE Alpha
  BY <1>3, SumAlpha
<1>4. CASE Weight
  BY <1>4, SumWeight
<1>5. CASE LastWeight
  BY <1>5, SumLastWeight
<1>6. CASE Output
  BY <1>6, SumOutput
<1>7. CASE Clear
  BY <1>7, SumClear
<1>8. CASE UNCHANGED vars
  BY <1>8, SumStutter
<1> QED BY <1>1, <1>2, <1>3, <1>4, <1>5, <1>6, <1>7, <1>8 DEF Next

\* The denominators are sums of the tiles given, in every state.
THEOREM SumInvariance == Spec => []SumInv
<1>1. IInv /\ GivenInv /\ SumInv /\ [Next]_vars => SumInv'
  BY SumInvStep
<1> QED BY SumInit, Invariance, GivenInvariance, <1>1, PTL DEF Spec

LEMMA SumFollows == ASSUME IInv, GivenInv, SumInv PROVE SumOfTheRow
<1> SUFFICES ASSUME state = "OUTPUT", ~protocol_error, NEW r \in Rows, out.active[r]
             PROVE  /\ RowShare(Len(given), r, Highest(r), 0)
                         <= out.l[r] + LOSS * ((Len(given) - 1) * meta.col)
                    /\ out.l[r] <= RowShare(Len(given), r, Highest(r), Exp[EXP_LIMIT])
                                     + GAIN * ((Len(given) - 1) * meta.col)
  BY SMTT(60) DEF SumOfTheRow
<1>1. PICK k \in Nat : k + 1 = Len(given) /\ k = Len(given) - 1
  <2>1. Len(given) \in Nat \ {0}
    BY DEF GivenInv, GivenTypes
  <2>2. Len(given) - 1 \in Nat /\ (Len(given) - 1) + 1 = Len(given)
    BY <2>1
  <2> QED BY <2>2
<1>2. /\ row_m = work_new_m /\ row_have = work_have /\ out.active = work_have /\ row_l = out.l
      /\ SumsKept(Len(given)) /\ GivenTypes
      /\ Top(Len(given), r, work_have[r], work_new_m[r])
      /\ work_have[r] \in BOOLEAN /\ work_new_m[r] \in Int
  BY DEF IInv, TypeOK, Flags, GivenInv, HandedOver, AtWork, SumInv, SumsOut
<1>3. Highest(r) = work_new_m[r]
  BY <1>2, TopOfKeys
<1>4. Between(Len(given), r, Highest(r), out.l[r])
  BY <1>2, <1>3 DEF SumsKept
<1>5. meta.col = k * TILE
  <2>1. given[k + 1].col = meta.col
    BY <1>1, <1>2 DEF GivenTypes
  <2>2. k + 1 \in 1 .. k + 1 /\ (k + 1) - 1 = k
    OBVIOUS
  <2>3. InRow(k + 1, meta.block)
    BY <1>1 DEF GivenInv, AtWork
  <2> QED BY <2>1, <2>2, <2>3 DEF InRow
<1>6. Slack(Len(given)) = (Len(given) - 1) * meta.col
  BY <1>1, <1>5, SlackGrows
<1> QED BY <1>4, <1>6 DEF Between, LastEntry

\* The denominator an output carries is the sum over every key of the row block
\* at the greatest of their scores, however often the maximum moved: for any
\* table it is off by no more than the error of the table, once for each key and
\* each tile after it, and rounding and wrapping add nothing.
THEOREM SumIsSoftmax == Spec => []SumOfTheRow
<1>1. IInv /\ GivenInv /\ SumInv => SumOfTheRow
  BY SumFollows
<1> QED BY Invariance, GivenInvariance, SumInvariance, <1>1, PTL

\* Weights and denominator of an output are the softmax of the whole row block,
\* although the hardware sees one tile at a time and rescales what it has.
THEOREM OutputIsSoftmax == Spec => []SoftmaxOfTheRow
<1>1. WeightsOfTheRow /\ SumOfTheRow => SoftmaxOfTheRow
  BY DEF SoftmaxOfTheRow
<1> QED BY WeightsAreSoftmax, SumIsSoftmax, <1>1, PTL
-----------------------------------------------------------------------------
\* Tiles in the order of a row.

\* The tile offered is the first of a row, or follows the one before.
TileInOrder ==
    state = "IDLE" /\ state' = "PREP" =>
        /\ meta'.col % TILE = 0
        /\ meta'.col # 0 =>
              /\ given # <<>>
              /\ LET before == given[Len(given)]
                 IN  meta'.block = before.block /\ meta'.col = before.col + TILE

InOrder ==
    /\ ~protocol_error
    /\ state = "PREP" => ~out_of_sequence /\ meta.col % TILE = 0

LEMMA OrderAccept ==
    ASSUME IInv, GivenInv, InOrder, TileInOrder,
           NEW block \in Blocks, NEW col \in 0 .. SEQ_LEN - 1, NEW tile \in Tiles,
           Accept(block, col, tile)
    PROVE  InOrder'
<1> USE ZeroTypes
<1>1. /\ state = "IDLE" /\ state' = "PREP" /\ meta' = [block |-> block, col |-> col]
      /\ UNCHANGED <<active_block, expected_col, protocol_error>>
  BY DEF Accept
<1>2. meta'.col = col /\ meta'.block = block /\ col % TILE = 0
  BY <1>1 DEF TileInOrder
<1>3. ASSUME col # 0 PROVE block = active_block /\ col = expected_col
  <2>1. PICK n \in Nat \ {0} : n = Len(given)
    <3>1. given # <<>> /\ given \in Seq(Given)
      BY <1>1, <1>2, <1>3 DEF TileInOrder, GivenInv, GivenTypes
    <3> QED BY <3>1
  <2>2. block = given[n].block /\ col = given[n].col + TILE
    BY <1>1, <1>2, <1>3, <2>1 DEF TileInOrder
  <2>3. InRow(n, active_block)
    BY <1>1, <2>1 DEF InOrder, GivenInv, Rest, Kept
  <2>4. n \in 1 .. n
    OBVIOUS
  <2>5. given[n].block = active_block /\ given[n].col = (n - 1) * TILE
    BY <2>3, <2>4 DEF InRow
  <2>6. PICK k \in Nat : n = k + 1 /\ n - 1 = k
    <3>1. n - 1 \in Nat /\ n = (n - 1) + 1
      OBVIOUS
    <3> QED BY <3>1
  <2>7. k * TILE \in Nat /\ n * TILE = k * TILE + TILE
    BY <2>6, PlaceArithmetic
  <2>8. col = n * TILE
    BY <2>2, <2>5, <2>6, <2>7
  <2>9. expected_col = col % POS_MOD
    BY <2>3, <2>8 DEF InRow
  <2>10. col \in Nat /\ col < POS_MOD
    OBVIOUS
  <2>11. col % POS_MOD = col
    BY <2>10, SmallModulo
  <2> QED BY <2>2, <2>5, <2>9, <2>11
<1> QED BY <1>1, <1>2, <1>3 DEF InOrder, out_of_sequence, first_tile

LEMMA OrderStep ==
    ASSUME IInv, GivenInv, InOrder, [Next]_vars, [TileInOrder]_vars
    PROVE  InOrder'
<1>1. CASE \E block \in Blocks, col \in 0 .. SEQ_LEN - 1, tile \in Tiles : Accept(block, col, tile)
  <2>1. PICK block \in Blocks, col \in 0 .. SEQ_LEN - 1, tile \in Tiles : Accept(block, col, tile)
    BY <1>1
  <2>2. state = "IDLE" /\ state' = "PREP"
    BY <2>1 DEF Accept
  <2>3. vars' # vars
    BY <2>2 DEF vars
  <2> QED BY <2>1, <2>3, OrderAccept
<1>2. CASE Prep
  BY <1>2 DEF Prep, InOrder
<1>3. CASE Alpha
  BY <1>3 DEF Alpha, InOrder
<1>4. CASE Weight
  BY <1>4 DEF Weight, WeightStep, InOrder
<1>5. CASE LastWeight
  BY <1>5 DEF LastWeight, WeightStep, InOrder
<1>6. CASE Output
  BY <1>6 DEF Output, InOrder
<1>7. CASE Clear
  BY <1>7 DEF Clear, InOrder
<1>8. CASE UNCHANGED vars
  BY <1>8 DEF vars, rowVars, workVars, InOrder, out_of_sequence, first_tile
<1> QED BY <1>1, <1>2, <1>3, <1>4, <1>5, <1>6, <1>7, <1>8 DEF Next

\* The check of the sequence raises no false alarm: tiles that come in the order
\* of their rows, whichever rows and however many of each, never trip it, so that
\* for them every output is the softmax of its row.  The path from the QK array
\* hands the tiles over in this order (TilesFollowRows of ScorePathProofs).
THEOREM NoFalseAlarm ==
    Spec /\ [][TileInOrder]_vars => [](~protocol_error /\ SoftmaxOfTheRow)
<1>1. Init => InOrder
  BY DEF Init, InOrder
<1>2. IInv /\ GivenInv /\ InOrder /\ [Next]_vars /\ [TileInOrder]_vars => InOrder'
  BY OrderStep
<1>3. InOrder => ~protocol_error
  BY DEF InOrder
<1> QED BY <1>1, <1>2, <1>3, Invariance, GivenInvariance, OutputIsSoftmax, PTL DEF Spec
-----------------------------------------------------------------------------
\* Rows with a key.

\* The first tile of a row has a key for every row.
KeyInFirstTile ==
    state = "IDLE" /\ state' = "PREP" /\ meta'.col = 0 =>
        \A r \in Rows : \E c \in Cols : ~mask_reg'[r][c]

\* A row that has had a key keeps it until the next first tile.
Attended ==
    \A r \in Rows :
        /\ state = "IDLE" /\ given # <<>> => row_have[r]
        /\ state = "PREP" => IF first_tile THEN capture_row_have(r) ELSE row_have[r]
        /\ state \in {"ALPHA", "WEIGHT", "OUTPUT"} => work_have[r]

LEMMA AttendedAccept ==
    ASSUME Attended, TileInOrder, KeyInFirstTile,
           NEW block \in Blocks, NEW col \in 0 .. SEQ_LEN - 1, NEW tile \in Tiles,
           Accept(block, col, tile)
    PROVE  Attended'
<1>1. /\ state = "IDLE" /\ state' = "PREP" /\ meta' = [block |-> block, col |-> col]
      /\ row_have' = row_have
  BY DEF Accept, rowVars
<1>2. SUFFICES ASSUME NEW r \in Rows
               PROVE  IF meta'.col = 0 THEN capture_row_have(r)' ELSE row_have'[r]
  BY <1>1 DEF Attended, first_tile
<1>3. ASSUME meta'.col = 0 PROVE capture_row_have(r)'
  BY <1>1, <1>3 DEF KeyInFirstTile, capture_row_have, Unmasked
<1>4. ASSUME meta'.col # 0 PROVE row_have'[r]
  BY <1>1, <1>4 DEF TileInOrder, Attended
<1> QED BY <1>3, <1>4

LEMMA AttendedStep ==
    ASSUME TypeOK, GivenInv, Attended, [Next]_vars, [TileInOrder]_vars, [KeyInFirstTile]_vars
    PROVE  Attended'
<1>1. CASE \E block \in Blocks, col \in 0 .. SEQ_LEN - 1, tile \in Tiles : Accept(block, col, tile)
  <2>1. PICK block \in Blocks, col \in 0 .. SEQ_LEN - 1, tile \in Tiles : Accept(block, col, tile)
    BY <1>1
  <2>2. state = "IDLE" /\ state' = "PREP"
    BY <2>1 DEF Accept
  <2>3. vars' # vars
    BY <2>2 DEF vars
  <2> QED BY <2>1, <2>3, AttendedAccept
<1>2. CASE Prep
  <2>1. state = "PREP" /\ state' = "ALPHA"
        /\ \A r \in Rows : work_have'[r] = (capture_row_have(r) \/ (~first_tile /\ row_have[r]))
    BY <1>2 DEF Prep
  <2> QED BY <2>1 DEF Attended
<1>3. CASE Alpha
  BY <1>3 DEF Alpha, workVars, Attended
<1>4. CASE Weight
  BY <1>4 DEF Weight, WeightStep, workVars, Attended
<1>5. CASE LastWeight
  BY <1>5 DEF LastWeight, WeightStep, workVars, Attended
<1>6. CASE Output
  <2>1. state = "OUTPUT" /\ state' = "IDLE" /\ row_have' = row_have
    BY <1>6 DEF Output, rowVars
  <2>2. row_have = work_have
    BY <2>1 DEF GivenInv, HandedOver
  <2> QED BY <2>1, <2>2 DEF Attended
<1>7. CASE Clear
  BY <1>7 DEF Clear, Attended
<1>8. CASE UNCHANGED vars
  BY <1>8 DEF vars, rowVars, workVars, Attended, first_tile, capture_row_have, Unmasked
<1> QED BY <1>1, <1>2, <1>3, <1>4, <1>5, <1>6, <1>7, <1>8 DEF Next

\* With tiles in order, of which the first of each row block has a key for every
\* row, every row of every output is active and its denominator is at least 1.0:
\* flash_context_fusion_backend.sv divides every row, and its case of a row
\* without a key, which ContextFusion leaves out, does not arise.  The causal mask
\* leaves each row such a key (FirstTilesHaveKeys of ScorePathProofs).
THEOREM EveryRowIsDivided ==
    Spec /\ [][TileInOrder]_vars /\ [][KeyInFirstTile]_vars =>
        [](state = "OUTPUT" => \A r \in Rows : out.active[r] /\ ONE <= out.l[r])
<1>1. Init => Attended
  BY DEF Init, Attended
<1>2. IInv /\ GivenInv /\ Attended /\ [Next]_vars /\ [TileInOrder]_vars
          /\ [KeyInFirstTile]_vars => Attended'
  BY AttendedStep DEF IInv
<1>3. GivenInv /\ Attended /\ ~protocol_error /\ DenominatorInRange =>
          (state = "OUTPUT" => \A r \in Rows : out.active[r] /\ ONE <= out.l[r])
  BY DEF GivenInv, HandedOver, Attended, DenominatorInRange
<1> QED
  BY <1>1, <1>2, <1>3, Invariance, GivenInvariance, DenominatorBounded, NoFalseAlarm, PTL DEF Spec
=============================================================================
