--------------------------- MODULE MCOnlineSoftmax ---------------------------
(* OnlineSoftmax with an exact exponential, 2^-d, and tiles of 2 x 2 whose    *)
(* second row is the first one backwards; -1 stands for a masked score.       *)
EXTENDS OnlineSoftmax

MCScores == {0, 3, 5}
MCExp == [d \in 0 .. 3 |-> 16 \div 2^d]

Element(row, r, c) == IF r = 0 THEN row[c + 1] ELSE row[2 - c]
MCTiles ==
    {[score |-> [r \in 0 .. 1 |-> [c \in 0 .. 1 |-> Max({0, Element(row, r, c)})]],
      mask |-> [r \in 0 .. 1 |-> [c \in 0 .. 1 |-> Element(row, r, c) = -1]]] :
        row \in (MCScores \cup {-1}) \X (MCScores \cup {-1})}

\* Bound: a tile that is out of sequence is the last one.
StopAtError == ~protocol_error
=============================================================================
