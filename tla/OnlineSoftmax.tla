--------------------------- MODULE OnlineSoftmax ---------------------------
(***************************************************************************)
(* The online softmax: rtl/core/online/flash_online_softmax_frontend.sv    *)
(* takes one tile of scores at a time and keeps, for every row of the      *)
(* tile, the maximum m and the denominator l of the keys seen so far.      *)
(*                                                                         *)
(* Scores are the fixed-point integers the BF16 inputs are converted to.   *)
(* The exponential (exp_lut.sv and the rounding of its address) is the     *)
(* function exp_q15 of the distance to the maximum, on the scale ONE.      *)
(* Group, head and row base of a tile are abstracted to its block.  Tiles  *)
(* arrive in any order: the module itself has to notice a wrong one.       *)
(***************************************************************************)
EXTENDS Integers, Sequences, FiniteSetsExt, Functions

CONSTANTS
    TILE, SEQ_LEN, Blocks,
    Scores, SCORE_MAX,   \* the fixed-point scores and a bound of them
    ONE,        \* 1.0 in Q15, 2^15 in the hardware
    EXP_LIMIT,  \* the largest distance whose exponential is not forced to 0
    Exp,        \* contents of the table by distance
    LOSS, GAIN, \* how far a product of two entries is from the entry of the sum
    L_MOD,      \* 2^L_W, modulus of the denominator
    POS_MOD,    \* 2^POS_W, modulus of a position
    Tiles       \* the tiles to try: [score, mask], by row and column

Rows == 0 .. TILE - 1
Cols == 0 .. TILE - 1

\* L_W = 16 + clog2(SEQ_LEN + 1) gives every key a weight of 1.0.
ASSUME SoftmaxAssumption ==
    /\ TILE \in Nat \ {0} /\ SEQ_LEN \in Nat \ {0} /\ SEQ_LEN % TILE = 0
    /\ 0 \in Blocks
    /\ SCORE_MAX \in Nat /\ Scores \subseteq Int /\ \A s \in Scores : s <= SCORE_MAX
    /\ ONE \in Nat \ {0} /\ ONE % 2 = 0
    /\ EXP_LIMIT \in Nat /\ Exp \in [0 .. EXP_LIMIT -> 0 .. ONE] /\ Exp[0] = ONE
    /\ L_MOD \in Nat /\ L_MOD > ONE * SEQ_LEN
    /\ POS_MOD \in Nat /\ POS_MOD >= SEQ_LEN
    /\ Tiles \subseteq [score : [Rows -> [Cols -> Scores]], mask : [Rows -> [Cols -> BOOLEAN]]]

VARIABLES
    state,
    score_reg, mask_reg,              \* by row and column
    row_m, row_l, row_have,           \* by row: kept between tiles
    work_old_m, work_new_m, work_old_l, work_old_have, work_have,
    work_alpha, tile_sum,
    work_weights, weight_col,
    meta,                             \* [block, col] of the tile in work
    active_block, expected_col,
    out,                              \* [weights, alpha, l, active]
    protocol_error

VARIABLES given                       \* history: tiles since the last column 0

rowVars == <<row_m, row_l, row_have>>
workVars == <<work_old_m, work_new_m, work_old_l, work_old_have, work_have>>
vars == <<state, score_reg, mask_reg, rowVars, workVars, work_alpha, tile_sum,
          work_weights, weight_col, meta, active_block, expected_col, out,
          protocol_error, given>>
-----------------------------------------------------------------------------
exp_q15(distance) == IF distance > EXP_LIMIT THEN 0 ELSE Exp[distance]

\* The table is an exponential up to LOSS and GAIN, on the scale ONE: every table
\* is with some value of them, one of exact powers with 0.  Beyond the range of
\* the table its last entry is an upper bound.
kept(distance, last) == IF distance > EXP_LIMIT THEN last ELSE Exp[distance]
ASSUME TableAssumption ==
    /\ LOSS \in Nat /\ GAIN \in Nat
    /\ \A d, e \in 0 .. EXP_LIMIT :
         /\ ONE * exp_q15(d + e) <= Exp[d] * Exp[e] + ONE * LOSS
         /\ Exp[d] * Exp[e] <= ONE * kept(d + e, Exp[EXP_LIMIT]) + ONE * GAIN

Unmasked(r) == {c \in Cols : ~mask_reg[r][c]}
capture_row_have(r) == Unmasked(r) # {}
capture_row_max(r) ==
    IF capture_row_have(r)
    THEN CHOOSE m \in {score_reg[r][c] : c \in Unmasked(r)} :
             \A c \in Unmasked(r) : score_reg[r][c] <= m
    ELSE 0

alpha(r) ==
    IF work_old_have[r] THEN exp_q15(work_new_m[r] - work_old_m[r]) ELSE 0
weight(r, c) ==
    IF work_have[r] /\ ~mask_reg[r][c]
    THEN exp_q15(work_new_m[r] - score_reg[r][c]) ELSE 0

\* Mutant: the sum of a tile starts from the one before.
SumWithoutWeight(r) == tile_sum[r]
tile_sum_with_weight(r) == tile_sum[r] + weight(r, weight_col)

l_scaled(r) == (work_old_l[r] * work_alpha[r] + ONE \div 2) \div ONE
l_updated(r) == (l_scaled(r) + tile_sum_with_weight(r)) % L_MOD

out_row_tile_last == meta.col = SEQ_LEN - TILE
-----------------------------------------------------------------------------
Zero == [r \in Rows |-> 0]
Never == [r \in Rows |-> FALSE]
ZeroTile == [r \in Rows |-> [c \in Cols |-> 0]]

Accept(block, col, tile) ==
    /\ state = "IDLE" /\ state' = "PREP"
    /\ score_reg' = tile.score /\ mask_reg' = tile.mask
    /\ meta' = [block |-> block, col |-> col]
    /\ work_weights' = ZeroTile /\ weight_col' = 0
    /\ given' = LET t == [block |-> block, col |-> col, score |-> tile.score, mask |-> tile.mask]
                IN  IF col = 0 THEN <<t>> ELSE Append(given, t)
    /\ UNCHANGED <<rowVars, workVars, work_alpha, tile_sum, active_block, expected_col,
                   out, protocol_error>>

first_tile == meta.col = 0
\* Mutant: a tile of another row is taken for the next one.
BlockUnchecked == ~first_tile /\ meta.col # expected_col
out_of_sequence ==
    ~first_tile /\ (meta.block # active_block \/ meta.col # expected_col)

new_m(r) ==
    IF first_tile \/ ~row_have[r] THEN capture_row_max(r)
    ELSE IF capture_row_have(r) /\ capture_row_max(r) > row_m[r] THEN capture_row_max(r)
    ELSE row_m[r]

\* A first tile starts from nothing, whatever the rows hold.
Prep ==
    /\ state = "PREP" /\ state' = "ALPHA"
    /\ work_old_have' = IF first_tile THEN Never ELSE row_have
    /\ work_old_m' = IF first_tile THEN Zero ELSE row_m
    /\ work_old_l' = IF first_tile THEN Zero ELSE row_l
    /\ work_have' = [r \in Rows |-> capture_row_have(r) \/ (~first_tile /\ row_have[r])]
    /\ work_new_m' = [r \in Rows |-> new_m(r)]
    /\ tile_sum' = Zero
    /\ active_block' = IF first_tile THEN meta.block ELSE active_block
    /\ protocol_error' = (protocol_error \/ out_of_sequence \/ meta.col % TILE # 0)
    /\ expected_col' = (meta.col + TILE) % POS_MOD
    /\ UNCHANGED <<score_reg, mask_reg, rowVars, work_alpha, work_weights, weight_col,
                   meta, out, given>>

Alpha ==
    /\ state = "ALPHA" /\ state' = "WEIGHT"
    /\ work_alpha' = [r \in Rows |-> alpha(r)]
    /\ UNCHANGED <<score_reg, mask_reg, rowVars, workVars, tile_sum, work_weights,
                   weight_col, meta, active_block, expected_col, out, protocol_error, given>>

work_weights_next ==
    [r \in Rows |-> [work_weights[r] EXCEPT ![weight_col] = weight(r, weight_col)]]

WeightStep ==
    /\ state = "WEIGHT"
    /\ work_weights' = work_weights_next
    /\ tile_sum' = [r \in Rows |-> tile_sum_with_weight(r)]
    /\ UNCHANGED <<score_reg, mask_reg, workVars, work_alpha, meta, active_block,
                   expected_col, protocol_error, given>>

\* One column of the tile an edge; the last one also updates the rows.
Weight ==
    /\ WeightStep /\ weight_col # TILE - 1
    /\ weight_col' = weight_col + 1
    /\ UNCHANGED <<state, rowVars, out>>
LastWeight ==
    /\ WeightStep /\ weight_col = TILE - 1
    /\ state' = "OUTPUT"
    /\ row_m' = work_new_m
    /\ row_l' = [r \in Rows |-> l_updated(r)]
    /\ row_have' = work_have
    /\ out' = [weights |-> work_weights_next, alpha |-> work_alpha,
               l |-> [r \in Rows |-> l_updated(r)], active |-> work_have]
    /\ UNCHANGED weight_col

\* The output is held until it is taken.
Output ==
    /\ state = "OUTPUT" /\ state' = "IDLE"
    /\ UNCHANGED <<score_reg, mask_reg, rowVars, workVars, work_alpha, tile_sum,
                   work_weights, weight_col, meta, active_block, expected_col, out,
                   protocol_error, given>>

NoOutput == [weights |-> ZeroTile, alpha |-> Zero, l |-> Zero, active |-> Never]

\* Reset and clear do the same.
Clear ==
    /\ state' = "IDLE"
    /\ score_reg' = ZeroTile /\ mask_reg' = [r \in Rows |-> [c \in Cols |-> FALSE]]
    /\ row_m' = Zero /\ row_l' = Zero /\ row_have' = Never
    /\ work_old_m' = Zero /\ work_new_m' = Zero /\ work_old_l' = Zero
    /\ work_old_have' = Never /\ work_have' = Never
    /\ work_alpha' = Zero /\ tile_sum' = Zero
    /\ work_weights' = ZeroTile /\ weight_col' = 0
    /\ meta' = [block |-> 0, col |-> 0]
    /\ active_block' = 0 /\ expected_col' = 0
    /\ out' = NoOutput /\ protocol_error' = FALSE
    /\ given' = <<>>

Init ==
    /\ state = "IDLE"
    /\ score_reg = ZeroTile /\ mask_reg = [r \in Rows |-> [c \in Cols |-> FALSE]]
    /\ row_m = Zero /\ row_l = Zero /\ row_have = Never
    /\ work_old_m = Zero /\ work_new_m = Zero /\ work_old_l = Zero
    /\ work_old_have = Never /\ work_have = Never
    /\ work_alpha = Zero /\ tile_sum = Zero
    /\ work_weights = ZeroTile /\ weight_col = 0
    /\ meta = [block |-> 0, col |-> 0]
    /\ active_block = 0 /\ expected_col = 0
    /\ out = NoOutput /\ protocol_error = FALSE
    /\ given = <<>>

Next ==
    \/ \E block \in Blocks, col \in 0 .. SEQ_LEN - 1, tile \in Tiles : Accept(block, col, tile)
    \/ Prep \/ Alpha \/ Weight \/ LastWeight \/ Output
    \/ Clear

Spec == Init /\ [][Next]_vars
-----------------------------------------------------------------------------
\* Every register keeps its type.
Score == {s \in Int : s <= SCORE_MAX}
Flags == [Rows -> BOOLEAN]
TypeOK ==
    /\ state \in {"IDLE", "PREP", "ALPHA", "WEIGHT", "OUTPUT"}
    /\ score_reg \in [Rows -> [Cols -> Score]] /\ mask_reg \in [Rows -> [Cols -> BOOLEAN]]
    /\ row_m \in [Rows -> Int] /\ row_l \in [Rows -> Nat] /\ row_have \in Flags
    /\ work_old_m \in [Rows -> Int] /\ work_new_m \in [Rows -> Int]
    /\ work_old_l \in [Rows -> Nat] /\ work_old_have \in Flags /\ work_have \in Flags
    /\ work_alpha \in [Rows -> 0 .. ONE] /\ tile_sum \in [Rows -> Nat]
    /\ work_weights \in [Rows -> [Cols -> 0 .. ONE]] /\ weight_col \in Cols
    /\ meta \in [block : Blocks, col : 0 .. SEQ_LEN - 1]
    /\ active_block \in Blocks /\ expected_col \in 0 .. POS_MOD - 1
    /\ out \in [weights : [Rows -> [Cols -> 0 .. ONE]], alpha : [Rows -> 0 .. ONE],
                l : [Rows -> Nat], active : Flags]
    /\ protocol_error \in BOOLEAN

\* The keys of a row the tiles given so far do not mask, with their scores.
Keys(r) ==
    UNION {{[key |-> t.col + c, score |-> t.score[r][c]] : c \in {d \in Cols : ~t.mask[r][d]}} :
               t \in Range(given)}
Highest(r) == Max({k.score : k \in Keys(r)})

\* The sum of f[1] to f[n], and what the keys of a tile and of the first n tiles
\* count in row r towards the maximum m.
SumTo(f, n) == LET sum[k \in Nat] == IF k = 0 THEN 0 ELSE sum[k - 1] + f[k] IN sum[n]
Share(t, r, c, m, last) == IF t.mask[r][c] THEN 0 ELSE kept(m - t.score[r][c], last)
TileShare(t, r, m, last, n) == SumTo([c \in 1 .. TILE |-> Share(t, r, c - 1, m, last)], n)
RowShare(n, r, m, last) == SumTo([i \in 1 .. n |-> TileShare(given[i], r, m, last, TILE)], n)

\* An output speaks of the whole row block so far, unless the sequence check has
\* fired: the tiles are those of one block from column 0 on, a row is active if
\* any of them has a key for it, and each weight is taken from the maximum over
\* all of these keys.
WeightsOfTheRow ==
    state = "OUTPUT" /\ ~protocol_error =>
        /\ Len(given) * TILE = meta.col + TILE
        /\ \A i \in 1 .. Len(given) : given[i].block = meta.block /\ given[i].col = (i - 1) * TILE
        /\ \A r \in Rows :
             /\ out.active[r] = (Keys(r) # {})
             /\ out.active[r] =>
                  \A c \in Cols :
                     out.weights[r][c] =
                       IF mask_reg[r][c] THEN 0 ELSE exp_q15(Highest(r) - score_reg[r][c])

\* The denominator holds every key at that maximum, however often it moved; a
\* key beyond EXP_LIMIT leaves at most the last entry of the table, and each
\* tile after the first may add the error of the table once for every key before.
SumOfTheRow ==
    state = "OUTPUT" /\ ~protocol_error =>
        \A r \in Rows : out.active[r] =>
            LET n == Len(given)
                total(last) == RowShare(n, r, Highest(r), last)
            IN  /\ total(0) <= out.l[r] + LOSS * ((n - 1) * meta.col)
                /\ out.l[r] <= total(Exp[EXP_LIMIT]) + GAIN * ((n - 1) * meta.col)

\* An output is the softmax of the whole row block: weights and denominator.
SoftmaxOfTheRow == WeightsOfTheRow /\ SumOfTheRow

\* The denominator of an active row is never below 1.0, so that its reciprocal
\* fits the 31 bits the context backend takes of it, and never more than 1.0
\* for each key, so that it fits its L_W bits.
DenominatorInRange ==
    state = "OUTPUT" /\ ~protocol_error =>
        \A r \in Rows : out.active[r] =>
            ONE <= out.l[r] /\ out.l[r] <= ONE * (meta.col + TILE)
=============================================================================
