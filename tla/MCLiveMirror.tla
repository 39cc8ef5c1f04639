----------------------------- MODULE MCLiveMirror -----------------------------
(***************************************************************************)
(* LiveMirror on two extents, two targets, two mirrors, two requests and    *)
(* two API calls at a time.  Each setup bounds the events of a behaviour.   *)
(***************************************************************************)
EXTENDS LiveMirror

CONSTANTS g1, g2, m1, m2, t1, t2, c1, c2

Zero == [e \in Event |-> 0]
Once == [Zero EXCEPT !["writes"] = 1, !["starts"] = 1, !["stops"] = 1]

Setups ==
    {[Once EXCEPT !["writes"] = 2, !["discards"] = 1],                        \* requests race the copy and the switch
     [Once EXCEPT !["discards"] = 1, !["lost"] = 1],                          \* the target answers an error
     [Once EXCEPT !["writes"] = 2, !["flushes"] = 2, !["stops"] = 0],         \* flushes
     [Once EXCEPT !["discards"] = 1, !["flushes"] = 1],
     [Once EXCEPT !["flushes"] = 1, !["lost"] = 1],
     [Once EXCEPT !["zeroes"] = 1, !["faults"] = 1],                          \* the volume answers an error
     [Once EXCEPT !["discards"] = 1, !["zeroes"] = 1],
     [Once EXCEPT !["plans"] = 1, !["flushes"] = 1, !["faults"] = 1],         \* the kernel writes
     [Once EXCEPT !["plans"] = 1, !["discards"] = 1, !["writes"] = 0],
     [Once EXCEPT !["starts"] = 2, !["restarts"] = 1],                        \* the engine restarts
     [Once EXCEPT !["starts"] = 2, !["faults"] = 1, !["restarts"] = 1, !["writes"] = 0],
     [Once EXCEPT !["starts"] = 2, !["stops"] = 2]}                           \* a second mirror

Sym == Permutations({t1, t2}) \cup Permutations({c1, c2}) \cup Permutations({g1, g2}) \cup Permutations({m1, m2})
=============================================================================
