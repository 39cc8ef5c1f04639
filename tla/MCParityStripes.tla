--------------------------- MODULE MCParityStripes ---------------------------
(***************************************************************************)
(* ParityStripes with two stripes of two members and a parity leg on four   *)
(* slabs, and two requests at a time.  Each setup bounds the events of a    *)
(* behaviour.                                                               *)
(***************************************************************************)
EXTENDS ParityStripes

CONSTANTS s1, s2, k1, k2, k3, k4, t1, t2

Zero == [e \in Event |-> 0]

Setups ==
    {[Zero EXCEPT !["writes"] = 2, !["flushes"] = 1, !["cuts"] = 1],         \* two writers, a flush and a cut
     [Zero EXCEPT !["writes"] = 1, !["flushes"] = 1, !["syncs"] = 1, !["cuts"] = 1],
     [Zero EXCEPT !["writes"] = 1, !["syncs"] = 1, !["cuts"] = 2],            \* a cut while a start verifies, or after
     [Zero EXCEPT !["writes"] = 2, !["logfaults"] = 1, !["cuts"] = 1],        \* the log cannot be written
     [Zero EXCEPT !["discards"] = 2, !["syncs"] = 1, !["cuts"] = 1],          \* discards
     [Zero EXCEPT !["writes"] = 1, !["discards"] = 1, !["deaths"] = 1, !["resyncs"] = 1],
     [Zero EXCEPT !["writes"] = 2, !["deaths"] = 2, !["resyncs"] = 1],        \* slabs die
     [Zero EXCEPT !["writes"] = 1, !["flushes"] = 1, !["deaths"] = 1],
     [Zero EXCEPT !["flushes"] = 1, !["deaths"] = 2],
     [Zero EXCEPT !["writes"] = 1, !["flushes"] = 1, !["cuts"] = 2, !["absences"] = 1],     \* a slab away for one start
     [Zero EXCEPT !["writes"] = 1, !["deaths"] = 1, !["cuts"] = 1],
     [Zero EXCEPT !["discards"] = 2, !["records"] = 1, !["cuts"] = 1],        \* records, before and after a change
     [Zero EXCEPT !["writes"] = 1, !["discards"] = 2, !["syncs"] = 1, !["cuts"] = 1],       \* a group that goes and comes again
     [Zero EXCEPT !["writes"] = 1, !["records"] = 1, !["cuts"] = 2, !["absences"] = 1],
     [Zero EXCEPT !["resyncs"] = 1, !["records"] = 1, !["cuts"] = 2, !["absences"] = 1],
     [Zero EXCEPT !["deaths"] = 1, !["resyncs"] = 1, !["records"] = 1, !["cuts"] = 1]}

\* One slab is not there at a start.
Absence == {[Zero EXCEPT !["cuts"] = 1, !["absences"] = 1, !["writes"] = 1]}

\* One slab is not there at one of two starts, with a write and its flush between them.
AbsenceOnce == {[Zero EXCEPT !["writes"] = 1, !["flushes"] = 1, !["cuts"] = 2, !["absences"] = 1]}

\* One stripe or both are there, in one layout: nothing tells a slab from another.
MCInit == Init /\ \E s \in Stripe : leg[s] = <<k1, k2, k3>>

MCSpec == MCInit /\ [][Next]_vars

Sym == Permutations({t1, t2}) \cup Permutations({s1, s2})

\* A leg on a failed slab is "persisted with the volume: skipped for every read and
\* write from then on, so a stale leg is never served" (docs/redundancy.md:115).  Not so:
\* mark_failed changes memory (thin.rs:1113), and a start takes the record's set.
FailedStaysFailed ==
    [][\A s \in Stripe, i \in Leg : leg[s][i] \in failed /\ leg'[s][i] = leg[s][i] => leg'[s][i] \in failed']_vars
=============================================================================
