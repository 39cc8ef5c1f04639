---------------------------- MODULE FlushService ----------------------------
(* What a cache flush of one device promises the callers that share it: a  *)
(* call that answers Ok leaves every write that had completed when the     *)
(* call was made on stable media.  Nothing is said of how many device      *)
(* flushes run or in which order callers are served.                       *)
(*                                                                         *)
(* Device writes are counted, not named: a cache flush covers all of them. *)
EXTENDS Naturals

CONSTANT Caller       \* the tasks that ask for a flush

VARIABLES written,    \* device writes completed so far
          durable,    \* the first `durable` of them are on stable media
          status,     \* per caller: "idle", "pending" or its last answer
          need        \* writes completed when the caller asked

vars == <<written, durable, status, need>>

Init == /\ written = 0
        /\ durable = 0
        /\ status = [c \in Caller |-> "idle"]
        /\ need = [c \in Caller |-> 0]

Write == /\ written' = written + 1
         /\ UNCHANGED <<durable, status, need>>

\* The media catches up with any part of what was written, at any time.
Persist == /\ durable' \in durable..written
           /\ UNCHANGED <<written, status, need>>

Ask(c) == /\ status[c] /= "pending"
          /\ status' = [status EXCEPT ![c] = "pending"]
          /\ need' = [need EXCEPT ![c] = written]
          /\ UNCHANGED <<written, durable>>

AnswerOk(c) == /\ status[c] = "pending"
               /\ need[c] <= durable
               /\ status' = [status EXCEPT ![c] = "ok"]
               /\ UNCHANGED <<written, durable, need>>

\* An error, or the caller dropped its call: no promise.
AnswerErr(c) == /\ status[c] = "pending"
                /\ status' = [status EXCEPT ![c] = "err"]
                /\ UNCHANGED <<written, durable, need>>

Next == \/ Write
        \/ Persist
        \/ \E c \in Caller : Ask(c) \/ AnswerOk(c) \/ AnswerErr(c)

Spec == Init /\ [][Next]_vars
=============================================================================
