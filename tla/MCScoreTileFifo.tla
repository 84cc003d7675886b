-------------------------- MODULE MCScoreTileFifo --------------------------
(* One head of a 4x4 causal score matrix in 2x2 tiles, three entries.       *)
EXTENDS ScoreTileFifo

\* Every coordinate in any order, with the causal mask, and in_last right or
\* wrong at the coordinates where the flag is or could be expected.
MCInputs ==
    LET item(h, r, c, l) == [group |-> 0, head |-> h, row |-> r, col |-> c,
                             mask |-> c > r, last |-> l]
        final(h, r, c) == h = Q_HEADS - 1 /\ r = SEQ_LEN - 1 /\ c = SEQ_LEN - 1
    IN  {item(h, r, c, final(h, r, c)) : h \in Heads, r \in Pos, c \in Pos}
          \cup {item(0, SEQ_LEN - 1, SEQ_LEN - 1, TRUE),
                item(Q_HEADS - 1, SEQ_LEN - 1, SEQ_LEN - 1, FALSE)}

\* A stream already known to be out of order is not followed further.
InOrderSoFar == ~order_error
=============================================================================
