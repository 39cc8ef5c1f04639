---------------------------- MODULE MCRaidArray ----------------------------
(* A mirror of two slots and two units, with one spare.                      *)
EXTENDS RaidArray
CONSTANTS d1, d2, d3, t1, t2

Homes == (1 :> d1) @@ (2 :> d2)
Zero == [e \in Event |-> 0]

\* What goes wrong in each behaviour.
Setups == {
    [Zero EXCEPT !["writes"] = 2, !["flushes"] = 1, !["spares"] = 1],
    [Zero EXCEPT !["writes"] = 1, !["faults"] = 1, !["cuts"] = 1, !["spares"] = 1],
    [Zero EXCEPT !["writes"] = 2, !["flushes"] = 1, !["cuts"] = 1],
    [Zero EXCEPT !["writes"] = 1, !["cuts"] = 2, !["absences"] = 1, !["spares"] = 1],
    [Zero EXCEPT !["writes"] = 1, !["faults"] = 2, !["spares"] = 1],
    [Zero EXCEPT !["writes"] = 1, !["faults"] = 1, !["flushes"] = 1, !["cuts"] = 1],
    [Zero EXCEPT !["writes"] = 1, !["reports"] = 1, !["cuts"] = 1],
    [Zero EXCEPT !["reports"] = 1, !["cuts"] = 1, !["spares"] = 1],
    [Zero EXCEPT !["writes"] = 2, !["faults"] = 1, !["cuts"] = 1],
    [Zero EXCEPT !["writes"] = 2, !["cuts"] = 2, !["absences"] = 1],
    [Zero EXCEPT !["writes"] = 1, !["reads"] = 1],
    [Zero EXCEPT !["writes"] = 3, !["flushes"] = 1]}

\* A drive is reported, its spare is half filled when the power goes, and is not
\* there when the set is assembled.
Returned == {[Zero EXCEPT !["reports"] = 1, !["cuts"] = 2, !["absences"] = 1, !["spares"] = 1]}

TaskSymmetry == Permutations({t1, t2})
=============================================================================
