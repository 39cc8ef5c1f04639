----------------------------- MODULE FlushGate ------------------------------
(* drive/flushgate.rs: one cache flush for many callers, per device.       *)
(* Every caller takes a ticket; the one holding `running` flushes for      *)
(* everyone whose ticket was given out before the flush began.             *)
EXTENDS Integers

CONSTANTS Caller,     \* the tasks that ask for a flush
          MaxWrites,  \* bound on completed device writes
          MaxAsks,    \* bound on calls of flush()
          None        \* no caller

ASSUME BoundsAssumption == MaxWrites \in Nat /\ MaxAsks \in Nat
ASSUME NoneAssumption == None \notin Caller

VARIABLES asked, done,   \* FlushGate::asked, FlushGate::done
          running,       \* who holds the FlushGate::running mutex
          pc,            \* where each caller is in flush()
          ticket,        \* the caller's local `ticket`
          covers,        \* the runner's local `covers`
          result,        \* what the caller's last call answered
          \* the device underneath
          written,       \* writes completed so far
          durable,       \* how many of them are on stable media
          cut,           \* writes completed when the current flush was issued
          \* ghosts
          need,          \* per caller: writes completed when it asked
          since          \* per caller: a flush begun after it asked succeeded

gateVars == <<asked, done, running, ticket, covers>>
deviceVars == <<written, durable, cut>>
vars == <<gateVars, pc, result, deviceVars, need, since>>

MaxOf(a, b) == IF a >= b THEN a ELSE b

\* Inside flush(): asked, not yet answered.
Active(c) == pc[c] \notin {"idle"}

Init == /\ asked = 0 /\ done = 0 /\ running = None
        /\ pc = [c \in Caller |-> "idle"]
        /\ ticket = [c \in Caller |-> 0]
        /\ covers = [c \in Caller |-> 0]
        /\ result = [c \in Caller |-> "idle"]
        /\ written = 0 /\ durable = 0 /\ cut = 0
        /\ need = [c \in Caller |-> 0]
        /\ since = [c \in Caller |-> FALSE]

\* A write on the device completes.
Write == /\ written < MaxWrites
         /\ written' = written + 1
         /\ UNCHANGED <<gateVars, pc, result, durable, cut, need, since>>

\* ticket = asked.fetch_add(1) + 1
Ask(c) == /\ pc[c] = "idle"
          /\ asked < MaxAsks
          /\ asked' = asked + 1
          /\ ticket' = [ticket EXCEPT ![c] = asked + 1]
          /\ need' = [need EXCEPT ![c] = written]
          /\ since' = [since EXCEPT ![c] = FALSE]
          /\ result' = [result EXCEPT ![c] = "pending"]
          /\ pc' = [pc EXCEPT ![c] = "waiting"]
          /\ UNCHANGED <<done, running, covers, deviceVars>>

\* running.lock().await
Lock(c) == /\ pc[c] = "waiting"
           /\ running = None
           /\ running' = c
           /\ pc' = [pc EXCEPT ![c] = "locked"]
           /\ UNCHANGED <<asked, done, ticket, covers, result, deviceVars, need, since>>

\* flush() returns: its locals are gone, and the guard of `running`, if held,
\* is dropped with them.
Leave(c, answer) ==
    /\ pc' = [pc EXCEPT ![c] = "idle"]
    /\ result' = [result EXCEPT ![c] = answer]
    /\ running' = IF running = c THEN None ELSE running
    /\ ticket' = [ticket EXCEPT ![c] = 0]
    /\ covers' = [covers EXCEPT ![c] = 0]
    /\ since' = [since EXCEPT ![c] = FALSE]
    /\ UNCHANGED <<asked, deviceVars, need>>

\* Mutant: an off-by-one lets a caller pass on the flush before its own.
IsCoveredEarly(c) == done + 1 >= ticket[c]

IsCovered(c) == done >= ticket[c]

\* done >= ticket: a flush that began after this call has covered it.
Covered(c) == /\ pc[c] = "locked"
              /\ IsCovered(c)
              /\ Leave(c, "ok")
              /\ UNCHANGED done

\* covers = asked.load()
Load(c) == /\ pc[c] = "locked"
           /\ ~IsCovered(c)
           /\ covers' = [covers EXCEPT ![c] = asked]
           /\ pc' = [pc EXCEPT ![c] = "loaded"]
           /\ UNCHANGED <<asked, done, running, ticket, result, deviceVars, need, since>>

\* f().await begins: the device is sent the flush.
Issue(c) == /\ pc[c] = "loaded"
            /\ cut' = written
            /\ pc' = [pc EXCEPT ![c] = "flushing"]
            /\ UNCHANGED <<gateVars, result, written, durable, need, since>>

\* The device completes the flush.
Complete(c) == /\ pc[c] = "flushing"
               /\ durable' = MaxOf(durable, cut)
               /\ pc' = [pc EXCEPT ![c] = "flushed"]
               /\ since' = [d \in Caller |-> since[d] \/ (Active(d) /\ ticket[d] <= covers[c])]
               /\ UNCHANGED <<gateVars, result, written, cut, need>>

\* Mutant: `covers` is read again after the flush instead of before it.
AdvanceLate(c) == /\ pc[c] = "flushed"
                  /\ done' = MaxOf(done, asked)
                  /\ Leave(c, "ok")

\* Mutant: the runner advances `done` to its own ticket only.
AdvanceOwn(c) == /\ pc[c] = "flushed"
                 /\ done' = MaxOf(done, ticket[c])
                 /\ Leave(c, "ok")

\* done.fetch_max(covers); Ok(())
Advance(c) == /\ pc[c] = "flushed"
              /\ done' = MaxOf(done, covers[c])
              /\ Leave(c, "ok")

\* r? : the device refused the flush.  done stays.
Fail(c) == /\ pc[c] = "flushing"
           /\ Leave(c, "err")
           /\ UNCHANGED done

\* Mutant: a dropped call leaves the gate locked.
CancelLocked(c) == /\ pc[c] \in {"waiting", "flushing"}
                   /\ pc' = [pc EXCEPT ![c] = "idle"]
                   /\ result' = [result EXCEPT ![c] = "err"]
                   /\ UNCHANGED <<gateVars, deviceVars, need, since>>

\* The caller's future is dropped at an await (a timeout, a closed
\* connection): nothing after the await runs, the mutex guard is dropped.
Cancel(c) == /\ pc[c] \in {"waiting", "flushing"}
             /\ Leave(c, "err")
             /\ UNCHANGED done

Step(c) == Covered(c) \/ Load(c) \/ Issue(c) \/ Complete(c) \/ Advance(c)

Next == \/ Write
        \/ \E c \in Caller : Ask(c) \/ Lock(c) \/ Step(c) \/ Fail(c) \/ Cancel(c)

Spec == Init /\ [][Next]_vars

(* A task holding the mutex is polled until it returns and the device      *)
(* answers every flush (WF); tokio's mutex is handed over first come,      *)
(* first served, so a waiter that keeps finding it free gets it (SF).      *)
Fairness == \A c \in Caller : WF_vars(Step(c)) /\ SF_vars(Lock(c))

FairSpec == Spec /\ Fairness
-----------------------------------------------------------------------------
TypeOK == /\ asked \in Nat /\ done \in Nat
          /\ running \in Caller \cup {None}
          /\ pc \in [Caller -> {"idle", "waiting", "locked", "loaded", "flushing", "flushed"}]
          /\ ticket \in [Caller -> Nat]
          /\ covers \in [Caller -> Nat]
          /\ result \in [Caller -> {"idle", "pending", "ok", "err"}]
          /\ written \in Nat /\ durable \in Nat /\ cut \in Nat
          /\ need \in [Caller -> Nat]
          /\ since \in [Caller -> BOOLEAN]

\* The mutex: exactly its holder is past the lock.
Holds(c) == pc[c] \in {"locked", "loaded", "flushing", "flushed"}

MutexInv == \A c \in Caller : Holds(c) <=> running = c

TicketInv == /\ done <= asked
             /\ durable <= written
             /\ cut <= written
             /\ \A c \in Caller : /\ ticket[c] <= asked
                                  /\ covers[c] <= asked
                                  /\ need[c] <= written
                                  /\ Active(c) <=> result[c] = "pending"
                                  /\ pc[c] \in {"loaded", "flushing", "flushed"} => ticket[c] <= covers[c]

\* A call of flush() that answered Ok, whether it flushed or found itself
\* covered by another caller's flush, left every write that had completed
\* when it was made on stable media (flushgate.rs:8, "covers everyone who
\* asked before it began").
OkIsDurable == \A c \in Caller : result[c] = "ok" => need[c] <= durable

\* `done` is never ahead of the media: whatever failures, cancellations and
\* overlapping calls came before, a ticket that `done` has passed belongs to
\* a caller whose writes are durable, so the next caller to look at it is
\* answered truthfully (flushgate.rs:45).
DoneIsDurable == \A c \in Caller : Active(c) /\ ticket[c] <= done => need[c] <= durable

\* What the running flush will have covered: everyone up to `covers` had
\* written before it was issued.
FlushInv ==
    \A c, d \in Caller :
        Active(d) /\ ticket[d] <= covers[c] =>
            /\ pc[c] = "flushing" => need[d] <= cut
            /\ pc[c] = "flushed" => need[d] <= durable

\* The inductive invariant behind OkIsDurable.  Tickets are given out in the
\* order callers finish writing, so a number passed by `done`, or about to be
\* by the running flush, stands for writes the media has, or will have
\* (flushgate.rs:48, "their writes had completed when they asked").
IInv == TypeOK /\ MutexInv /\ TicketInv /\ OkIsDurable /\ DoneIsDurable /\ FlushInv

\* No caller runs a flush of its own after a flush that began after it asked
\* has succeeded: the flush is shared (flushgate.rs:34, "unless a flush that
\* began after this call has already covered it").
SharesFlush == [][\A c \in Caller : Load(c) => ~since[c]]_vars

\* Every call returns: no caller waits for ever behind the others' flushes.
EveryCallReturns == \A c \in Caller : pc[c] = "waiting" ~> pc[c] = "idle"

Service == INSTANCE FlushService WITH status <- result

\* The gate implements the flush promise for every caller.
ServiceSpec == Service!Spec
=============================================================================
