---------------------------- MODULE MCFlushGate -----------------------------
(* Three callers share one device's flush gate. *)
EXTENDS FlushGate

CONSTANTS c1, c2, c3

=============================================================================
