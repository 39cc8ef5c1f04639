---------------------------- MODULE MCVolumeLegs ----------------------------
(* Instances of VolumeLegs for TLC. *)
EXTENDS VolumeLegs, TLC

\* The slabs, the writers and the flushers are interchangeable.
Symmetry == Permutations(Slab) \union Permutations(Writer) \union Permutations(Flusher)

Nothing == [e \in Event |-> 0]

\* Two flushes among two writes, and with one fault anywhere.
Flushing == [Nothing EXCEPT !["writes"] = 2, !["flushes"] = 2]
Faulting == [Nothing EXCEPT !["writes"] = 1, !["flushes"] = 2, !["faults"] = 1]

\* Legs that fail, are rebuilt elsewhere and forgiven.
Resyncing == [Nothing EXCEPT !["writes"] = 2, !["faults"] = 2, !["resyncs"] = 3]

\* A flush while a leg that failed is rebuilt.
Recovering == [Nothing EXCEPT !["writes"] = 2, !["flushes"] = 1, !["faults"] = 1, !["resyncs"] = 1]

\* What an operator, a drive monitor and a device that refuses do to a flush.
Forcing == [Nothing EXCEPT !["writes"] = 1, !["flushes"] = 1, !["faults"] = 1,
                           !["refusals"] = 1, !["clears"] = 1, !["reports"] = 1]

LegsBudgets == {Flushing, Faulting, Resyncing, Recovering, Forcing}

\* One leg's device refuses one write, and nothing else goes wrong.
RefusedBudgets == {[Nothing EXCEPT !["writes"] = 2, !["refusals"] = 1]}
=============================================================================
