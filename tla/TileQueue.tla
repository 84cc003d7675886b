----------------------------- MODULE TileQueue -----------------------------
(***************************************************************************)
(* What the score-tile FIFO of the FlashAttention consumer promises: a     *)
(* bounded first-in first-out queue of whole tiles fed one element at a    *)
(* time.  The producer never sees the queue's storage, the consumer never  *)
(* sees a tile before its last element has arrived, and nothing is lost,   *)
(* duplicated, reordered or overwritten.                                   *)
(***************************************************************************)
EXTENDS Naturals, Sequences

CONSTANTS
    Element,   \* what one position of a tile holds
    TileItems, \* elements of a tile
    Depth      \* tiles the queue can hold

VARIABLES
    queue,     \* the complete tiles, oldest first
    partial    \* the elements of the tile being assembled

qvars == <<queue, partial>>

QInit ==
    /\ queue = <<>>
    /\ partial = <<>>

\* The tiles that stay when the consumer takes one in the same cycle (d).
Remaining(d) == IF d THEN Tail(queue) ELSE queue

\* A tile in progress owns the entry it will need; a new one may start when an
\* entry is free, or becomes free in this very cycle.
MayAccept(d) == partial # <<>> \/ Len(queue) < Depth \/ d

\* The producer hands over element e; the consumer may take a tile with it.
Accept(e, d) ==
    /\ d => queue # <<>>
    /\ MayAccept(d)
    /\ IF Len(partial) + 1 = TileItems
       THEN /\ queue' = Append(Remaining(d), Append(partial, e))
            /\ partial' = <<>>
       ELSE /\ queue' = Remaining(d)
            /\ partial' = Append(partial, e)

\* The consumer takes the oldest tile, the producer offers nothing.
Deliver ==
    /\ queue # <<>>
    /\ queue' = Tail(queue)
    /\ UNCHANGED partial

\* Reset or start of a new run: everything queued is dropped.
Flush ==
    /\ queue' = <<>>
    /\ partial' = <<>>

QNext ==
    \/ \E e \in Element, d \in BOOLEAN : Accept(e, d)
    \/ Deliver
    \/ Flush

QSpec == QInit /\ [][QNext]_qvars
=============================================================================
