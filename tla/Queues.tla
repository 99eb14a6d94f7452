------------------------------- MODULE Queues -------------------------------
(* What of a queue goes on: events to those who hear them, handles to a list. *)
EXTENDS Integers, FiniteSets

\* What of a sequence is in a set, in its order: SelectSeq, without its recursion.
Kept(s, S) ==
    LET at == {i \in DOMAIN s : s[i] \in S}
        Nth(n) == CHOOSE i \in at : Cardinality({j \in at : j <= i}) = n
    IN  [n \in 1 .. Cardinality(at) |-> s[Nth(n)]]
=============================================================================
