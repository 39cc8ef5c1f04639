----------------------------- MODULE PersistV2 -----------------------------
(* volume/persist_v2.rs: persists of the volume metadata into one store.    *)
(*                                                                          *)
(* A persist takes what changed under the manager's lock, with a ticket;    *)
(* flushes the slabs with no lock held; waits for its ticket's turn; then   *)
(* writes the store whole, or queues its changes, lets the next ticket go   *)
(* and sees that the queue is written: whoever holds `running` writes       *)
(* everything queued as one record.  A failure makes the next persist write *)
(* the store whole, and changes taken before it are dropped: they have an   *)
(* older epoch.                                                             *)
(*                                                                          *)
(* The store is one slab's.  A write of it that reports an error may have   *)
(* reached it all the same (MetaV2).                                        *)
EXTENDS Integers, Sequences, FiniteSets, FiniteSetsExt

CONSTANTS Task,        \* callers of persist, each once
          Key,         \* what the store keeps a value of
          None,
          Errors,      \* which may fail: the slabs' "sync", the store's "write"
          Drops,       \* whether a caller may be abandoned
          MaxChanges, MaxErrors

ASSUME ErrorsAssumption == Errors \subseteq {"sync", "write"} /\ Drops \in BOOLEAN
ASSUME TaskAssumption == IsFiniteSet(Task) /\ None \notin Task
ASSUME BoundsAssumption == MaxChanges \in Nat /\ MaxErrors \in Nat

VARIABLES
    mem, dirty,          \* the maps, and the keys changed since the last take
    needFull, epoch,     \* SinkState
    nextTicket, turn, finished,   \* V2State::next_ticket, Order
    queue, running,      \* Commit
    done,                \* Queued::done
    store,               \* what the store holds
    pc, batch, ticket,   \* of each persist
    record,              \* the record the holder of `running` writes
    acked,               \* ghost: the newest value of each key answered Ok
    changes, errors

sinkState == <<needFull, epoch>>
order == <<nextTicket, turn, finished>>
commit == <<queue, running, done, record>>
persist == <<pc, batch, ticket>>
bounds == <<changes, errors>>
vars == <<mem, dirty, sinkState, order, commit, store, persist, acked, bounds>>

Same == -1
NoOps == [k \in Key |-> Same]
Over(content, ops) == [k \in Key |-> IF ops[k] = Same THEN content[k] ELSE ops[k]]

NoBatch == [kind |-> "none", ops |-> NoOps, epoch |-> 0]
NoRecord == [ops |-> NoOps, epoch |-> 0, tasks |-> {}]

Init ==
    /\ mem = [k \in Key |-> 0] /\ dirty = {}
    /\ needFull = TRUE /\ epoch = 0
    /\ nextTicket = 0 /\ turn = 0 /\ finished = {}
    /\ queue = <<>> /\ running = None
    /\ done = [t \in Task |-> "none"]
    /\ store = [k \in Key |-> 0]
    /\ pc = [t \in Task |-> "idle"]
    /\ batch = [t \in Task |-> NoBatch]
    /\ ticket = [t \in Task |-> 0]
    /\ record = NoRecord
    /\ acked = [k \in Key |-> 0]
    /\ changes = 0 /\ errors = 0

Goto(t, where) == pc' = [pc EXCEPT ![t] = where]

\* A map changes: values only grow, so that an older one shows.
Change(k) ==
    /\ changes < MaxChanges
    /\ changes' = changes + 1
    /\ mem' = [mem EXCEPT ![k] = changes + 1]
    /\ dirty' = dirty \cup {k}
    /\ UNCHANGED <<sinkState, order, commit, store, persist, acked, errors>>

-----------------------------------------------------------------------------
\* take: the whole map when the store needs it, else what changed.
Take(t) ==
    /\ pc[t] = "idle"
    /\ batch' = [batch EXCEPT ![t] =
            [kind |-> IF needFull THEN "full" ELSE IF dirty = {} THEN "none" ELSE "ops",
             ops |-> [k \in Key |-> IF needFull \/ k \in dirty THEN mem[k] ELSE Same],
             epoch |-> epoch]]
    /\ ticket' = [ticket EXCEPT ![t] = nextTicket]
    /\ nextTicket' = nextTicket + 1
    /\ needFull' = FALSE /\ dirty' = {}
    /\ Goto(t, "sync")
    /\ UNCHANGED <<mem, epoch, turn, finished, commit, store, acked, bounds>>

\* Mutant: the tickets finished out of turn are not passed over.
ReleaseOne(n) ==
    /\ IF turn = n
       THEN turn' = n + 1 /\ UNCHANGED finished
       ELSE finished' = finished \cup {n} /\ UNCHANGED turn
    /\ UNCHANGED nextTicket

\* Ticket::drop: the next ticket that is not finished has its turn.
Release(n) ==
    /\ IF turn = n
       THEN /\ turn' = Min({m \in n + 1..nextTicket : m \notin finished})
            /\ finished' = {m \in finished : m > turn'}
       ELSE /\ finished' = finished \cup {n}
            /\ UNCHANGED turn
    /\ UNCHANGED nextTicket

\* sink_failed, and V2Records::drop: the store is written whole next time.
WrittenWholeNext == needFull' = TRUE /\ epoch' = epoch + 1

\* Every slab is flushed, or one could not be: the records are not written.
Sync(t) ==
    /\ pc[t] = "sync"
    /\ Goto(t, "turn")
    /\ UNCHANGED <<mem, dirty, sinkState, order, commit, store, batch, ticket, acked, bounds>>

\* Mutant: the records of a persist that stopped are dropped in silence.
DropRecordsSilently(t) ==
    /\ UNCHANGED sinkState
    /\ Release(ticket[t])

\* V2Records::drop, of a persist that stopped before it came to write.
DropRecords(t) ==
    /\ IF batch[t].kind = "none" THEN UNCHANGED sinkState ELSE WrittenWholeNext
    /\ Release(ticket[t])

SyncFails(t) ==
    /\ pc[t] = "sync"
    /\ "sync" \in Errors /\ errors < MaxErrors
    /\ errors' = errors + 1
    /\ DropRecords(t)
    /\ Goto(t, "failed")
    /\ UNCHANGED <<mem, dirty, commit, store, batch, ticket, acked, changes>>

-----------------------------------------------------------------------------
(* apply. *)

\* A persist answers Ok.
Answer(t) ==
    /\ Goto(t, "ok")
    /\ acked' = [k \in Key |-> IF batch[t].ops[k] > acked[k] THEN batch[t].ops[k] ELSE acked[k]]

\* Mutant: a persist does not wait for its turn.
TurnUnordered(t) ==
    /\ pc[t] = "turn"
    /\ \/ /\ batch[t].kind = "full"
          /\ Goto(t, "drain")
          /\ UNCHANGED <<order, commit, acked>>
       \/ /\ batch[t].kind = "ops"
          /\ queue' = Append(queue, t)
          /\ Release(ticket[t])
          /\ Goto(t, "queued")
          /\ UNCHANGED <<running, done, record, acked>>
       \/ /\ batch[t].kind = "none"
          /\ Release(ticket[t])
          /\ Answer(t)
          /\ UNCHANGED commit
    /\ UNCHANGED <<mem, dirty, sinkState, store, batch, ticket, bounds>>

\* In its turn: a whole write first sees what is queued written; changes are
\* queued, and the next ticket has its turn.
Turn(t) ==
    /\ pc[t] = "turn" /\ turn = ticket[t]
    /\ \/ /\ batch[t].kind = "full"
          /\ Goto(t, "drain")
          /\ UNCHANGED <<order, commit, acked>>
       \/ /\ batch[t].kind = "ops"
          /\ queue' = Append(queue, t)
          /\ Release(ticket[t])
          /\ Goto(t, "queued")
          /\ UNCHANGED <<running, done, record, acked>>
       \/ /\ batch[t].kind = "none"
          /\ Release(ticket[t])
          /\ Answer(t)
          /\ UNCHANGED commit
    /\ UNCHANGED <<mem, dirty, sinkState, store, batch, ticket, bounds>>

\* write_queued: everything queued is one record, except what was taken
\* before a failure, which is answered Ok and left to the whole write.
Queued == Range(queue)
InRecord == {t \in Queued : batch[t].epoch = epoch}

\* What the record makes of a key is what the last in the queue makes of it.
Writing(k) == {i \in DOMAIN queue : queue[i] \in InRecord /\ batch[queue[i]].ops[k] # Same}
QueuedOps == [k \in Key |-> IF Writing(k) = {} THEN Same ELSE batch[queue[Max(Writing(k))]].ops[k]]

\* Nobody wrote this one's batch yet: it waits for `running` to do so.
WaitToWrite(t) ==
    /\ pc[t] = "queued" /\ done[t] = "none"
    /\ Goto(t, "locking")
    /\ UNCHANGED <<mem, dirty, sinkState, order, commit, store, batch, ticket, acked, bounds>>

WriteQueued(t) ==
    /\ pc[t] \in {"drain", "locking"}
    /\ running = None
    /\ queue' = <<>>
    /\ done' = [u \in Task |-> IF u \in Queued \ InRecord THEN "ok" ELSE done[u]]
    /\ IF InRecord = {}
       THEN /\ Goto(t, IF pc[t] = "drain" THEN "full" ELSE "written")
            /\ UNCHANGED <<running, record>>
       ELSE /\ running' = t
            /\ record' = [ops |-> QueuedOps, epoch |-> epoch, tasks |-> InRecord]
            /\ Goto(t, IF pc[t] = "drain" THEN "draining" ELSE "writing")
    /\ UNCHANGED <<mem, dirty, sinkState, order, store, batch, ticket, acked, bounds>>

\* The record's write ends, and those in it know how.
EndRecord(t, how) ==
    /\ pc[t] \in {"draining", "writing"}
    /\ done' = [u \in Task |-> IF u \in record.tasks THEN how ELSE done[u]]
    /\ running' = None /\ record' = NoRecord
    /\ Goto(t, IF pc[t] = "draining" THEN "full" ELSE "written")
    /\ UNCHANGED <<mem, dirty, sinkState, order, queue, batch, ticket, acked, changes>>

\* apply_store: the epoch is read again once the store is locked.
WriteRecord(t) ==
    /\ EndRecord(t, "ok")
    /\ store' = IF record.epoch = epoch THEN Over(store, record.ops) ELSE store
    /\ UNCHANGED errors

MayFail ==
    /\ "write" \in Errors /\ errors < MaxErrors
    /\ errors' = errors + 1

WriteRecordFails(t) ==
    /\ MayFail
    /\ EndRecord(t, "err")
    /\ store' \in {store, Over(store, record.ops)}

\* The whole write, still in its turn.
WriteFull(t) ==
    /\ pc[t] = "full"
    /\ store' = batch[t].ops
    /\ Release(ticket[t])
    /\ Answer(t)
    /\ UNCHANGED <<mem, dirty, sinkState, commit, batch, ticket, bounds>>

WriteFullFails(t) ==
    /\ pc[t] = "full"
    /\ MayFail
    /\ store' \in {store, batch[t].ops}
    /\ WrittenWholeNext
    /\ Release(ticket[t])
    /\ Goto(t, "failed")
    /\ UNCHANGED <<mem, dirty, commit, batch, ticket, acked, changes>>

\* A queued batch has ended: Ok, or an error, or nobody wrote it.
Ended(t) ==
    /\ \/ pc[t] = "written"
       \/ pc[t] = "queued" /\ done[t] /= "none"
    /\ IF done[t] = "ok" THEN Answer(t) /\ UNCHANGED sinkState
                         ELSE Goto(t, "failed") /\ WrittenWholeNext /\ UNCHANGED acked
    /\ UNCHANGED <<mem, dirty, order, commit, store, batch, ticket, bounds>>

\* The caller is abandoned at an await, and its future dropped (mgmt/debug.rs:
\* a request its client gave up on).  Before apply its records say so; in
\* apply they are its own, and go with the ticket and the lock it holds.  What
\* it was writing may have reached the store.
Abandon(t) ==
    /\ Drops
    /\ pc[t] \in {"sync", "turn", "drain", "draining", "full", "queued", "locking", "writing"}
    /\ Goto(t, "abandoned")
    /\ IF pc[t] = "sync" THEN DropRecords(t)
       ELSE /\ UNCHANGED sinkState
            /\ IF pc[t] \in {"queued", "locking", "writing"} THEN UNCHANGED order ELSE Release(ticket[t])
    /\ IF running = t
       THEN running' = None /\ record' = NoRecord
       ELSE UNCHANGED <<running, record>>
    /\ store' \in {store} \cup (IF running = t THEN {Over(store, record.ops)} ELSE {})
                        \cup (IF pc[t] = "full" THEN {batch[t].ops} ELSE {})
    /\ UNCHANGED <<mem, dirty, queue, done, batch, ticket, acked, bounds>>

Step(t) ==
    \/ Sync(t) \/ SyncFails(t) \/ Turn(t)
    \/ WaitToWrite(t) \/ WriteQueued(t) \/ WriteRecord(t) \/ WriteRecordFails(t)
    \/ WriteFull(t) \/ WriteFullFails(t) \/ Ended(t)

Next ==
    \/ \E k \in Key : Change(k)
    \/ \E t \in Task : Take(t) \/ Step(t) \/ Abandon(t)

\* A persist that was begun is driven to its end; the device's calls return.
\* `running` is a tokio mutex, handed to its waiters in turn.
Fairness == \A t \in Task : WF_vars(Step(t)) /\ SF_vars(WriteQueued(t))

Spec == Init /\ [][Next]_vars
FairSpec == Spec /\ Fairness
-----------------------------------------------------------------------------
\* The type of every variable.
TypeOK ==
    /\ mem \in [Key -> 0..MaxChanges] /\ dirty \subseteq Key
    /\ needFull \in BOOLEAN /\ epoch \in Nat
    /\ nextTicket \in Nat /\ turn \in 0..nextTicket /\ finished \subseteq turn + 1..nextTicket
    /\ queue \in Seq(Task) /\ running \in Task \cup {None}
    /\ done \in [Task -> {"none", "ok", "err"}]
    /\ store \in [Key -> 0..MaxChanges] /\ acked \in [Key -> 0..MaxChanges]
    /\ pc \in [Task -> {"idle", "sync", "turn", "drain", "draining", "full", "queued", "locking", "writing",
                        "written", "ok", "failed", "abandoned"}]
    /\ batch \in [Task -> [kind : {"none", "full", "ops"}, ops : [Key -> Same..MaxChanges], epoch : Nat]]
    /\ ticket \in [Task -> Nat]
    /\ record \in [ops : [Key -> Same..MaxChanges], epoch : Nat, tasks : SUBSET Task]
    /\ changes \in 0..MaxChanges /\ errors \in 0..MaxErrors

\* A caller abandoned in apply, or before it at the slabs' sync, takes its records
\* with it: what the properties below leave out.
Abandoned == \E t \in Task : pc[t] = "abandoned"

\* What a persist answered Ok had taken is in the store, or a whole write
\* covers it: one that was taken, or the next (persist_v2.rs:19, "is dropped:
\* the whole write covers it").
AnsweredIsCovered ==
    ~Abandoned => \A k \in Key :
        \/ store[k] >= acked[k]
        \/ needFull
        \/ \E t \in Task : /\ batch[t].kind = "full" /\ batch[t].ops[k] >= acked[k]
                          /\ pc[t] \in {"sync", "turn", "drain", "draining", "full"}

\* A persist still has k's present value to write.
Carries(t, k) ==
    /\ pc[t] \in {"sync", "turn", "drain", "draining", "full", "queued", "locking", "writing", "written"}
    /\ batch[t].ops[k] = mem[k]

\* No change is forgotten: it is in the store, or not yet taken, or a persist
\* carries it, or the next one writes the store whole (persist_v2.rs:308, "the
\* changes taken for it are written by no one, so each of its sinks is written
\* whole next time").
NoChangeForgotten ==
    ~Abandoned => needFull \/ \A k \in Key : store[k] = mem[k] \/ k \in dirty \/ \E t \in Task : Carries(t, k)

\* Batches reach the store in the order they were taken: an older value never
\* replaces a newer one (persist_v2.rs:15-19).
NeverOlder == [][\A k \in Key : store'[k] >= store[k]]_vars

\* Mutant: quiet looks at the tickets alone.
QuietTickets == turn = nextTicket /\ ~needFull

\* V2State::quiet.
Quiet == turn = nextTicket /\ ~needFull /\ queue = <<>> /\ running = None

\* A record failed and its persist has not marked the store yet.
FailureUnmarked == \E t \in Task : done[t] = "err" /\ pc[t] /= "failed"

\* When quiet says so, every store holds what it was last given, and a map may
\* leave memory (persist_v2.rs:169), except between a record's failure and its
\* mark (persist_v2.rs:592).
QuietMeansWritten == Quiet /\ ~FailureUnmarked /\ ~Abandoned => \A k \in Key \ dirty : store[k] = mem[k]

\* A persist that was begun ends, whatever fails and whoever is abandoned: a
\* ticket "Dropped (run or not), ... lets the next one go" (persist_v2.rs:249).
EveryPersistEnds ==
    \A t \in Task : pc[t] = "sync" ~> pc[t] \in {"ok", "failed", "abandoned"}
=============================================================================
