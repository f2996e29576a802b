---------------------------- MODULE MCAggregator ----------------------------
(* Small instances of Aggregator for TLC. *)
EXTENDS AggregatorInvariant

CONSTANTS keyA, keyB

\* Two codes in one run, and a session packet with k > n.
MCSessions == {[key |-> keyA, epoch |-> 0, k |-> 2, n |-> 3],
               [key |-> keyB, epoch |-> 1, k |-> 1, n |-> 2],
               [key |-> keyB, epoch |-> 1, k |-> 3, n |-> 2]}

MCFillers == {<<1, 1>>}

=============================================================================
