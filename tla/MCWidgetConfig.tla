---------------------------- MODULE MCWidgetConfig ----------------------------
(* Two threads and a request of one process, a request of another.         *)
EXTENDS WidgetConfig, TLC

CONSTANTS t1, t2, q1, q2, p1, p2

Threads == {t1, t2}
Changes == {q1, q2}
Placed == [x \in Threads \cup Changes |-> IF x = q2 THEN p2 ELSE p1]

Symmetry == Permutations(Readers) \cup Permutations(Contents)
=============================================================================
