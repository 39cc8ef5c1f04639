------------------------------ MODULE LiveMirror ------------------------------
(***************************************************************************)
(* A live mirror of a volume in use to a namespace of another engine        *)
(* (volume/mirror.rs, the gates of volume/thin.rs, mgmt/live_mirror.rs).    *)
(* Every write goes to the volume and to the target under the locks of its  *)
(* extents; a background copy walks the extents mapped when the mirror was  *)
(* set; an error on the target fails the mirror and never a request; the    *)
(* stop that ends it is the switch-over to the target.                      *)
(*                                                                          *)
(* What an extent holds is the number of the write that wrote it, or Blank  *)
(* where it reads as zeros.  The volume is one copy here, with no cache; the *)
(* target is, after WriteCache, what it holds and what a power cut leaves.   *)
(***************************************************************************)
EXTENDS Naturals, FiniteSetsExt, TLC, WriteCache

CONSTANTS Extents,     \* how many extents the volume has
          Target,      \* namespaces on the other engine
          Mirror,      \* mirrors, one for each start that gets to set one
          Task,        \* requests of the volume's user
          Caller,      \* calls of the API
          Budgets,     \* how often each event may happen in a behaviour
          None

Extent == 1..Extents
Blank == 0

\* Requests; calls of the API; errors of the volume and of the target; restarts.
Event == {"writes", "zeroes", "discards", "plans", "flushes", "starts", "stops", "faults", "lost", "restarts"}

ASSUME ExtentsAssumption == Extents \in Nat \ {0}
ASSUME BudgetsAssumption == Budgets \subseteq [Event -> Nat]
ASSUME NoneAssumption == None \notin Mirror \cup Target

VARIABLES vol,        \* what each extent of the volume reads as
          mapped,     \* the extents that are mapped
          tgt,        \* the extents of each target, cells of its write cache
          slot,       \* the volume's mirror
          mir,        \* each mirror and its copy
          recorded,   \* the target mirrors.json names for the volume
          completed, synced,   \* the volume's counts of finished requests
          task, call, \* requests and API calls
          budget, spent,
          ticket,     \* history: the number of the last write
          torn,       \* history: extents whose last write returned an error
          handed,     \* history: for a target switched to, what the volume held
          standing,   \* history: a mirror was started and not stopped since
          overlap     \* history: two API calls have run at once

volVars == <<vol, mapped>>
countVars == <<completed, synced>>
histVars == <<ticket, torn, handed, standing, overlap>>
vars == <<vol, mapped, tgt, slot, mir, recorded, completed, synced, task, call, budget, spent, ticket, torn,
          handed, standing, overlap>>

Spend(e) == spent[e] < budget[e] /\ spent' = [spent EXCEPT ![e] = @ + 1]

-----------------------------------------------------------------------------
(* The mirror                                                               *)

\* is_live: not failed, not stopped.
IsLive(m) == m # None /\ ~ mir[m].failed /\ ~ mir[m].stopping

\* live_mirror().filter(is_live)
LiveMirrorNow == IF IsLive(slot) THEN slot ELSE None

\* The target takes what is sent for the extents of R, and answers.
Sent(m, R, v) == [tgt EXCEPT ![mir[m].target] = [e \in Extent |-> IF e \in R THEN Put(@[e], v) ELSE @[e]]]

\* LiveMirror::write, zero: nothing once the mirror is not live; an error fails
\* the mirror, and the target may have taken some of it.
Send(m, R, v) ==
    IF ~ IsLive(m) THEN UNCHANGED <<tgt, mir, spent>>
    ELSE \/ tgt' = Sent(m, R, v) /\ UNCHANGED <<mir, spent>>
         \/ /\ Spend("lost")
            /\ \E took \in SUBSET R : tgt' = Sent(m, took, v)
            /\ mir' = [mir EXCEPT ![m].failed = TRUE]

\* BlockDevice::flush of the target, by a mirror that is live.
FlushTarget(m) ==
    \/ tgt' = [tgt EXCEPT ![mir[m].target] = FlushAll(@)] /\ UNCHANGED <<mir, spent>>
    \/ Spend("lost") /\ mir' = [mir EXCEPT ![m].failed = TRUE] /\ UNCHANGED tgt

-----------------------------------------------------------------------------
(* Requests of the volume's user                                            *)

\* A request between requests; rest is what write_zeroes has still to write, start
\* what a flush read of `completed`.
Idle == [pc |-> "idle", op |-> "none", range |-> {}, held |-> {}, todo |-> {}, m |-> None, v |-> Blank, rest |-> {},
         start |-> 0]

\* The mirror gate: requests share it, a start or a stop has it alone.
GateFree == \A c \in Caller : call[c].pc # "stopping"
GateEmpty == GateFree /\ \A t \in Task : task[t].pc \notin {"lock", "land", "send", "kernel"}

\* Mutant: the copy does not lock the extent it copies.
LockedByRequests(m, e) ==
    \E t \in Task : task[t].pc \in {"lock", "land", "send"} /\ task[t].m = m /\ e \in task[t].held

\* The extent locks of a mirror, held by a request or by its copy.
Locked(m, e) ==
    \/ \E t \in Task : task[t].pc \in {"lock", "land", "send"} /\ task[t].m = m /\ e \in task[t].held
    \/ mir[m].pc = "send" /\ e = Min(mir[m].list)

\* A request for the extents of range: past the gate, with the live mirror it saw
\* there.
Request(op, range, v, rest) ==
    [pc |-> IF LiveMirrorNow = None THEN "land" ELSE "lock", op |-> op, range |-> range, held |-> {}, todo |-> range,
     m |-> LiveMirrorNow, v |-> v, rest |-> rest, start |-> 0]

Zeroing(rest) == [Idle EXCEPT !.pc = "zeroes", !.rest = rest]

BeginRequest(t, op, range, v) ==
    /\ task[t] = Idle /\ GateFree
    /\ task' = [task EXCEPT ![t] = Request(op, range, v, {})]
    /\ UNCHANGED <<volVars, tgt, slot, mir, recorded, countVars, call, budget, torn, handed, standing, overlap>>

BeginWrite(t, range) ==
    /\ Spend("writes")
    /\ ticket' = ticket + 1
    /\ BeginRequest(t, "write", range, ticket + 1)

BeginDiscard(t, range) ==
    /\ Spend("discards")
    /\ BeginRequest(t, "discard", range, Blank)
    /\ UNCHANGED ticket

\* write_zeroes: the extents mapped now are each written with zeros.
BeginZeroes(t, range) ==
    /\ task[t] = Idle
    /\ Spend("zeroes")
    /\ task' = [task EXCEPT ![t] = Zeroing(range \cap mapped)]
    /\ UNCHANGED <<volVars, tgt, slot, mir, recorded, countVars, call, budget, histVars>>

\* The gate is passed anew for each of them.
NextZeroes(t) ==
    /\ task[t].pc = "zeroes"
    /\ IF task[t].rest = {}
       THEN /\ task' = [task EXCEPT ![t] = Idle]
            /\ completed' = completed + 1
       ELSE LET e == Min(task[t].rest) IN
            /\ GateFree
            /\ task' = [task EXCEPT ![t] = Request("zeroes", {e}, Blank, task[t].rest \ {e})]
            /\ UNCHANGED completed
    /\ UNCHANGED <<volVars, tgt, slot, mir, recorded, synced, call, budget, spent, histVars>>

\* lock_range, of the mirror seen at the gate: one extent after the other, upwards.
LockExtents(t) ==
    /\ task[t].pc = "lock"
    /\ LET e == Min(task[t].range \ task[t].held)
           held == task[t].held \cup {e}
       IN  /\ ~ Locked(task[t].m, e)
           /\ task' = [task EXCEPT ![t].held = held, ![t].pc = IF held = task[t].range THEN "land" ELSE "lock"]
    /\ UNCHANGED <<volVars, tgt, slot, mir, recorded, countVars, call, budget, spent, histVars>>

\* Every request counts when it ends, whatever it returns.
Finish(t) == task' = [task EXCEPT ![t] = Idle] /\ completed' = completed + 1

\* write_blocks, extent by extent; an error ends the request before the target
\* gets any of it.
LandWrite(t) ==
    /\ task[t].pc = "land" /\ task[t].op # "discard"
    /\ LET e == Min(task[t].todo) IN
       \/ /\ vol' = [vol EXCEPT ![e] = task[t].v]
          /\ mapped' = mapped \cup {e}
          /\ task' = [task EXCEPT ![t].todo = @ \ {e}, ![t].pc = IF task[t].todo = {e} THEN "send" ELSE "land"]
          /\ UNCHANGED <<torn, spent, completed>>
       \/ /\ Spend("faults")
          /\ vol' \in {vol, [vol EXCEPT ![e] = task[t].v]}
          /\ mapped' = IF vol' = vol THEN mapped ELSE mapped \cup {e}
          /\ torn' = torn \cup task[t].range
          /\ Finish(t)
    /\ UNCHANGED <<tgt, slot, mir, recorded, synced, call, budget, ticket, handed, standing, overlap>>

\* discard: the extents the volume holds alone are unmapped, and those that are
\* not mapped any more are made to read zeros on the target.  What the kernel was
\* told to write to one of them reaches a slot the volume has let go.
LandDiscard(t) ==
    /\ task[t].pc = "land" /\ task[t].op = "discard"
    /\ \E kept \in SUBSET (task[t].range \cap mapped) :
        LET gone == (task[t].range \cap mapped) \ kept IN
        /\ vol' = [e \in Extent |-> IF e \in gone THEN Blank ELSE vol[e]]
        /\ mapped' = mapped \ gone
        /\ task' = [u \in Task |-> IF u = t THEN [task[t] EXCEPT !.pc = "send", !.todo = gone]
                                 ELSE IF task[u].pc = "kernel" THEN [task[u] EXCEPT !.range = @ \ gone] ELSE task[u]]
    /\ UNCHANGED <<tgt, slot, mir, recorded, countVars, call, budget, spent, histVars>>

\* The target gets it too, and the request is answered; the locks and the gate
\* are let go.
SendOn(t) ==
    /\ task[t].pc = "send"
    /\ LET R == IF task[t].op = "discard" THEN task[t].todo ELSE task[t].range IN
       /\ IF task[t].m = None \/ R = {} THEN UNCHANGED <<tgt, mir, spent>> ELSE Send(task[t].m, R, task[t].v)
       /\ torn' = torn \ R
    /\ task' = [task EXCEPT ![t] = IF task[t].op = "zeroes" THEN Zeroing(task[t].rest) ELSE Idle]
    /\ completed' = completed + 1
    /\ UNCHANGED <<volVars, slot, recorded, synced, call, budget, ticket, handed, standing, overlap>>

\* plan: a write the kernel is told to do itself, with the gate held until it is
\* done; refused while a mirror is live.
PlanWrite(t, e) ==
    /\ task[t] = Idle /\ GateFree
    /\ Spend("plans")
    /\ ~ IsLive(slot) /\ e \in mapped
    /\ ticket' = ticket + 1
    /\ task' = [task EXCEPT ![t] = [Idle EXCEPT !.pc = "kernel", !.range = {e}, !.v = ticket + 1]]
    /\ UNCHANGED <<volVars, tgt, slot, mir, recorded, countVars, call, budget, torn, handed, standing, overlap>>

KernelWrites(t) ==
    /\ task[t].pc = "kernel"
    /\ vol' = [e \in Extent |-> IF e \in task[t].range THEN task[t].v ELSE vol[e]]
    /\ torn' = torn \ task[t].range
    /\ Finish(t)
    /\ UNCHANGED <<mapped, tgt, slot, mir, recorded, synced, call, budget, spent, ticket, handed, standing, overlap>>

\* flush: nothing to do when nothing finished since a flush that worked began.
BeginFlush(t) ==
    /\ task[t] = Idle
    /\ Spend("flushes")
    /\ task' = [task EXCEPT ![t] = IF synced >= completed THEN Idle
                                   ELSE [Idle EXCEPT !.pc = "sync", !.start = completed]]
    /\ UNCHANGED <<volVars, tgt, slot, mir, recorded, countVars, call, budget, histVars>>

\* The volume's slabs are synced, or an error is answered; the count is raised
\* before the target is flushed.
SyncVolume(t) ==
    /\ task[t].pc = "sync"
    /\ \/ /\ synced' = Max({synced, task[t].start})
          /\ task' = [task EXCEPT ![t].pc = "mirror"]
          /\ UNCHANGED spent
       \/ Spend("faults") /\ task' = [task EXCEPT ![t] = Idle] /\ UNCHANGED synced
    /\ UNCHANGED <<volVars, tgt, slot, mir, recorded, completed, call, budget, histVars>>

FlushMirror(t) ==
    /\ task[t].pc = "mirror"
    /\ IF IsLive(slot) THEN FlushTarget(slot) ELSE UNCHANGED <<tgt, mir, spent>>
    /\ task' = [task EXCEPT ![t] = Idle]
    /\ UNCHANGED <<volVars, slot, recorded, countVars, call, budget, histVars>>

-----------------------------------------------------------------------------
(* The copy                                                                 *)

\* copy: while live, the next extent is locked and read; an error there fails it.
\* (The check and the lock, with the throttle's sleep between them, are one step.)
CopyRead(m) ==
    /\ mir[m].pc = "copy"
    /\ IF ~ IsLive(m) THEN mir' = [mir EXCEPT ![m].pc = "ended"] /\ UNCHANGED spent
       ELSE /\ mir[m].list # {}
            /\ ~ Locked(m, Min(mir[m].list))
            /\ \/ mir' = [mir EXCEPT ![m].pc = "send", ![m].read = vol[Min(mir[m].list)]] /\ UNCHANGED spent
               \/ Spend("faults") /\ mir' = [mir EXCEPT ![m].pc = "ended", ![m].failed = TRUE]
    /\ UNCHANGED <<volVars, tgt, slot, recorded, countVars, task, call, budget, histVars>>

\* Zeros are skipped; anything else is written to the target, stopped or not.
CopySend(m) ==
    /\ mir[m].pc = "send"
    /\ LET e == Min(mir[m].list)
           done == [mir[m] EXCEPT !.pc = "copy", !.list = @ \ {e}, !.read = Blank]
       IN  \/ mir[m].read = Blank /\ mir' = [mir EXCEPT ![m] = done] /\ UNCHANGED <<tgt, spent>>
           \/ /\ mir[m].read # Blank
              /\ tgt' = Sent(m, {e}, mir[m].read) /\ mir' = [mir EXCEPT ![m] = done] /\ UNCHANGED spent
           \/ /\ mir[m].read # Blank /\ Spend("lost")
              /\ tgt' \in {tgt, Sent(m, {e}, mir[m].read)}
              /\ mir' = [mir EXCEPT ![m] = [done EXCEPT !.pc = "ended", !.failed = TRUE]]
    /\ UNCHANGED <<volVars, slot, recorded, countVars, task, call, budget, histVars>>

\* Mutant: synced without the flush after the copy.
CopyDoneUnflushed(m) ==
    /\ mir[m].pc = "copy" /\ mir[m].list = {} /\ IsLive(m)
    /\ mir' = [mir EXCEPT ![m].pc = "flushed"]
    /\ UNCHANGED <<volVars, tgt, slot, recorded, countVars, task, call, budget, spent, histVars>>

\* The target is flushed, and has every byte.
CopyDone(m) ==
    /\ mir[m].pc = "copy" /\ mir[m].list = {} /\ IsLive(m)
    /\ \/ /\ tgt' = [tgt EXCEPT ![mir[m].target] = FlushAll(@)]
          /\ mir' = [mir EXCEPT ![m].pc = "flushed"]
          /\ UNCHANGED spent
       \/ Spend("lost") /\ mir' = [mir EXCEPT ![m].pc = "ended", ![m].failed = TRUE] /\ UNCHANGED tgt
    /\ UNCHANGED <<volVars, slot, recorded, countVars, task, call, budget, histVars>>

MarkSynced(m) ==
    /\ mir[m].pc = "flushed"
    /\ mir' = [mir EXCEPT ![m].pc = "ended", ![m].synced = TRUE]
    /\ UNCHANGED <<volVars, tgt, slot, recorded, countVars, task, call, budget, spent, histVars>>

-----------------------------------------------------------------------------
(* The API                                                                  *)

NoCall == [pc |-> "idle", target |-> None, m |-> None, live |-> FALSE]

BeginCall(c, record) ==
    /\ call' = [call EXCEPT ![c] = record]
    /\ overlap' = (overlap \/ \E d \in Caller \ {c} : call[d] # NoCall)

\* start: refused when a mirror is set; the target is connected to.
Start(c, g) ==
    /\ call[c] = NoCall
    /\ Spend("starts")
    /\ slot = None
    /\ BeginCall(c, [NoCall EXCEPT !.pc = "record", !.target = g])
    /\ UNCHANGED <<volVars, tgt, slot, mir, recorded, countVars, task, budget, ticket, torn, handed, standing>>

\* Mutant: an error of the record is not looked at.
RecordStartRegardless(c) ==
    /\ call[c].pc = "record"
    /\ \/ recorded' = call[c].target /\ UNCHANGED spent
       \/ Spend("faults") /\ UNCHANGED recorded
    /\ call' = [call EXCEPT ![c].pc = "set"]
    /\ UNCHANGED <<volVars, tgt, slot, mir, countVars, task, budget, histVars>>

\* mirrors.json names it before it is set; an error refuses the start.
RecordStart(c) ==
    /\ call[c].pc = "record"
    /\ \/ /\ recorded' = call[c].target
          /\ call' = [call EXCEPT ![c].pc = "set"]
          /\ UNCHANGED spent
       \/ Spend("faults") /\ call' = [call EXCEPT ![c] = NoCall] /\ UNCHANGED recorded
    /\ UNCHANGED <<volVars, tgt, slot, mir, countVars, task, budget, histVars>>

\* start_mirror, with the gate held alone: the mirror is set and the extents
\* mapped now are listed for its copy; or one is set, and the record is undone.
Unused == [pc |-> "none", target |-> None, list |-> {}, read |-> Blank, failed |-> FALSE, synced |-> FALSE,
           stopping |-> FALSE, fresh |-> TRUE]

SetMirror(c) ==
    /\ call[c].pc = "set" /\ GateEmpty
    /\ \/ /\ slot = None
          /\ \E m \in Mirror :
                /\ mir[m] = Unused
                /\ slot' = m
                /\ mir' = [mir EXCEPT ![m] = [Unused EXCEPT
                              !.pc = "copy", !.target = call[c].target, !.list = mapped,
                              !.fresh = \A old \in Mirror : mir[old].target # call[c].target]]
          /\ call' = [call EXCEPT ![c] = NoCall]
          /\ handed' = [handed EXCEPT ![call[c].target] = None]
          /\ torn' = {} /\ standing' = TRUE
       \/ /\ slot # None
          /\ call' = [call EXCEPT ![c].pc = "undo"]
          /\ UNCHANGED <<slot, mir, handed, torn, standing>>
    /\ UNCHANGED <<volVars, tgt, recorded, countVars, task, budget, spent, ticket, overlap>>

Forgetting == [NoCall EXCEPT !.pc = "forget"]

\* The record is removed, of a start that was refused or of a stop.
Forget(c) ==
    /\ call[c].pc \in {"undo", "forget"}
    /\ \/ recorded' = None /\ UNCHANGED spent
       \/ Spend("faults") /\ UNCHANGED recorded
    /\ call' = [call EXCEPT ![c] = NoCall]
    /\ UNCHANGED <<volVars, tgt, slot, mir, countVars, task, budget, histVars>>

\* Mutant: the stop does not wait for the requests in flight.
StopAtOnce(c) ==
    /\ call[c] = NoCall /\ GateFree /\ slot # None
    /\ Spend("stops")
    /\ BeginCall(c, [NoCall EXCEPT !.pc = "stopping", !.m = slot, !.live = IsLive(slot)])
    /\ mir' = [mir EXCEPT ![slot].stopping = TRUE]
    /\ slot' = None
    /\ standing' = FALSE
    /\ UNCHANGED <<volVars, tgt, recorded, countVars, task, budget, ticket, torn, handed>>

\* stop_mirror: with the gate held alone the mirror is taken out and stopped.
Stop(c) ==
    /\ call[c] = NoCall /\ GateEmpty
    /\ Spend("stops")
    /\ IF slot = None
       THEN BeginCall(c, IF recorded = None THEN NoCall ELSE Forgetting) /\ UNCHANGED <<slot, mir>>
       ELSE /\ BeginCall(c, [NoCall EXCEPT !.pc = "stopping", !.m = slot, !.live = IsLive(slot)])
            /\ mir' = [mir EXCEPT ![slot].stopping = TRUE]
            /\ slot' = None
    /\ standing' = FALSE
    /\ UNCHANGED <<volVars, tgt, recorded, countVars, task, budget, ticket, torn, handed>>

\* A target still good is flushed, and the caller told whether it was synced:
\* then it may be switched to.
FlushAtStop(c) ==
    /\ call[c].pc = "stopping"
    /\ LET m == call[c].m IN
       /\ IF call[c].live THEN FlushTarget(m) ELSE UNCHANGED <<tgt, mir, spent>>
       /\ handed' = IF call[c].live /\ ~ mir'[m].failed /\ mir'[m].synced
                    THEN [handed EXCEPT ![mir[m].target] = [e \in Extent \ torn |-> vol[e]]] ELSE handed
    /\ call' = [call EXCEPT ![c] = Forgetting]
    /\ UNCHANGED <<volVars, slot, recorded, countVars, task, budget, ticket, torn, standing, overlap>>

\* The engine restarts: what was in memory is gone, the record is not.
Restart ==
    /\ Spend("restarts")
    /\ task' = [t \in Task |-> Idle]
    /\ call' = [c \in Caller |-> NoCall]
    /\ slot' = None
    /\ mir' = [m \in Mirror |-> IF mir[m] = Unused THEN Unused ELSE [mir[m] EXCEPT !.pc = "ended", !.list = {}]]
    /\ completed' = 0 /\ synced' = 0
    /\ UNCHANGED <<volVars, tgt, recorded, budget, histVars>>

-----------------------------------------------------------------------------
Ranges == {lo..hi : lo \in Extent, hi \in Extent} \ {{}}

Init ==
    /\ mapped \in SUBSET Extent
    /\ vol = [e \in Extent |-> IF e \in mapped THEN 1 ELSE Blank]
    /\ tgt = [g \in Target |-> [e \in Extent |-> Durable(Blank)]]
    /\ slot = None
    /\ mir = [m \in Mirror |-> Unused]
    /\ recorded = None
    /\ completed = 0 /\ synced = 0
    /\ task = [t \in Task |-> Idle]
    /\ call = [c \in Caller |-> NoCall]
    /\ budget \in Budgets
    /\ spent = [e \in Event |-> 0]
    /\ ticket = 1
    /\ torn = {}
    /\ handed = [g \in Target |-> None]
    /\ standing = FALSE /\ overlap = FALSE

\* Nothing is under way and the volume's user and the API ask for nothing more.
Quiet ==
    /\ \A t \in Task : task[t] = Idle
    /\ \A c \in Caller : call[c] = NoCall
    /\ \A m \in Mirror : mir[m].pc \in {"none", "ended"}
    /\ UNCHANGED vars

Next ==
    \/ \E t \in Task :
         \/ \E r \in Ranges : BeginWrite(t, r) \/ BeginZeroes(t, r) \/ BeginDiscard(t, r)
         \/ NextZeroes(t) \/ LockExtents(t) \/ LandWrite(t) \/ LandDiscard(t) \/ SendOn(t)
         \/ KernelWrites(t) \/ \E e \in Extent : PlanWrite(t, e)
         \/ BeginFlush(t) \/ SyncVolume(t) \/ FlushMirror(t)
    \/ \E m \in Mirror : CopyRead(m) \/ CopySend(m) \/ CopyDone(m) \/ MarkSynced(m)
    \/ \E c \in Caller :
         \/ \E g \in Target : Start(c, g)
         \/ RecordStart(c) \/ SetMirror(c) \/ Forget(c) \/ Stop(c) \/ FlushAtStop(c)
    \/ Restart
    \/ Quiet

Spec == Init /\ [][Next]_vars

-----------------------------------------------------------------------------
(* Properties                                                               *)

TaskState ==
    [pc : {"idle", "lock", "land", "send", "zeroes", "kernel", "sync", "mirror"},
     op : {"none", "write", "discard", "zeroes"}, range : SUBSET Extent, held : SUBSET Extent, todo : SUBSET Extent,
     m : Mirror \cup {None}, v : Nat, rest : SUBSET Extent, start : Nat]

MirrorState ==
    [pc : {"none", "copy", "send", "flushed", "ended"}, target : Target \cup {None}, list : SUBSET Extent, read : Nat,
     failed : BOOLEAN, synced : BOOLEAN, stopping : BOOLEAN, fresh : BOOLEAN]

CallState ==
    [pc : {"idle", "record", "set", "undo", "stopping", "forget"}, target : Target \cup {None},
     m : Mirror \cup {None}, live : BOOLEAN]

TargetState == [Target -> [Extent -> Cell(Nat)]]

\* The state is as the code's types have it.
TypeOK ==
    /\ vol \in [Extent -> Nat] /\ mapped \in SUBSET Extent
    /\ tgt \in TargetState
    /\ slot \in Mirror \cup {None} /\ mir \in [Mirror -> MirrorState]
    /\ recorded \in Target \cup {None}
    /\ completed \in Nat /\ synced \in Nat
    /\ task \in [Task -> TaskState] /\ call \in [Caller -> CallState]
    /\ budget \in Budgets /\ spent \in [Event -> Nat]
    /\ ticket \in Nat /\ torn \in SUBSET Extent /\ DOMAIN handed = Target
    /\ standing \in BOOLEAN /\ overlap \in BOOLEAN

InFlight(e) == \E t \in Task : task[t].pc \in {"lock", "land", "send", "kernel"} /\ e \in task[t].range

\* What status() calls synced, of a mirror that is still set.
IsSynced(m) == IsLive(m) /\ mir[m].synced

\* While a mirror to a fresh target is synced the target has every byte: each
\* extent no request is on, and whose last request here did not end with an error,
\* reads there as it reads here (mirror.rs: "once the copy is through, the mirror
\* is `synced`: T has every byte"), whatever writes, discards and planned writes
\* raced the copy.
SyncedMeansSame ==
    IsSynced(slot) /\ mir[slot].fresh =>
        \A e \in Extent \ torn : ~ InFlight(e) => tgt[mir[slot].target][e].cur = vol[e]

\* A target that a stop handed over synced and flushed holds, durably and from then
\* on, what the volume held at the switch-over: no write answered here is missing
\* there, and nothing of the mirror reaches it late.
SwitchedHasEverything ==
    \A g \in Target : handed[g] # None /\ (\A m \in Mirror : mir[m].target = g => mir[m].fresh) =>
        \A e \in DOMAIN handed[g] : tgt[g][e] = Durable(handed[g][e])

\* When a flush would find nothing to do, and no flush is still on its way to the
\* target, a synced target is flushed of all requests that are answered: the flush
\* that is skipped (thin.rs, completed and synced) owed the target nothing.
SkippedFlushIsDone ==
    /\ IsSynced(slot) /\ mir[slot].fresh /\ synced >= completed
    /\ \A t \in Task : task[t].pc # "mirror"
    => \A e \in Extent : tgt[mir[slot].target][e].may = {tgt[mir[slot].target][e].cur}

\* A mirror that was started and not stopped is recorded, across restarts and
\* failed starts, as long as the API has one call at a time ("it never silently
\* stops").
NeverVanishes == standing /\ ~ overlap => recorded # None
=============================================================================
