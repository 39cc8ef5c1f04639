------------------------------ MODULE RaidArray ------------------------------
(***************************************************************************)
(* A RAID-1 set (raid/mod.rs, raid/bitmap.rs, raid/spares.rs): writes go to *)
(* every member that holds their range, a member whose I/O fails is failed  *)
(* and the superblocks say so, a write-intent bitmap names the chunks a cut *)
(* may leave half written, a failed slot takes a spare and is rebuilt under *)
(* the writes, and after a cut the set is assembled from what the drives    *)
(* hold.  The pairs of a RAID-10 set follow the same code, one by one.      *)
(*                                                                          *)
(* Member data is Unit 1..Units: a unit stands for one lock unit and for    *)
(* the bitmap chunk it is in, so two units have two locks and two bits, and *)
(* all bits are in one bitmap page.  A rebuild batch is one unit.  A unit   *)
(* holds the number of the write that wrote it last: 0 is what a spare      *)
(* holds, 1 what the set was created with.                                  *)
(***************************************************************************)
EXTENDS Naturals, FiniteSets, FiniteSetsExt, TLC, WriteCache

CONSTANTS Slots,        \* how many slots the set has
          Units,        \* how many units of member data
          Drive,        \* every drive: members and spares
          Home,         \* the drive of each slot when the set was created
          Task,         \* requests: writes, reads, flushes, drive reports
          Budgets,      \* how often each of these may happen in a behaviour
          None

Slot == 1..Slots
Unit == 1..Units

\* Requests; I/Os that fail; power cuts; drives not there at an assembly; spares taken.
Event == {"writes", "flushes", "reads", "reports", "faults", "cuts", "absences", "spares"}

ASSUME SizesAssumption == Slots \in Nat \ {0} /\ Units \in Nat \ {0}
ASSUME HomeAssumption == Home \in [Slot -> Drive] /\ \A i, j \in Slot : Home[i] = Home[j] => i = j
ASSUME BudgetsAssumption == Budgets \subseteq [Event -> Nat]
ASSUME TaskAssumption == Task \cap {"rebuild", "supervisor", "assembly"} = {}

VARIABLES phase,       \* "up"; "down" after a cut; assembled and "opening", then "describing" itself
          members,     \* the slot table in memory
          events,      \* its counter
          sbDirty,     \* it changed since the superblocks were last described
          pool,        \* the spares
          wanted, durable, stale,   \* the bitmap in memory
          sb,          \* the superblock on each drive
          bm,          \* the bitmap on each drive, a cell of its write cache
          data,        \* the units on each drive, cells of its write cache
          io,          \* the bitmap pages being written (the `io` lock)
          sbw,         \* the superblocks being written (the `sb_write` lock)
          task,        \* the requests
          rb,          \* the rebuild worker
          sup,         \* the supervisor
          budget, spent,
          latest,      \* history: the write each unit should be read as
          torn,        \* history: units whose last write returned an error
          acked,       \* history: the last write of each unit answered Ok
          flushed,     \* history: what had been answered when the last Ok flush began
          ticket,      \* history: the number of the last write
          excused      \* history: the known shortcomings this behaviour has met

memVars == <<members, events, sbDirty>>
mapVars == <<wanted, durable, stale>>
mediaVars == <<sb, bm, data>>
histVars == <<latest, torn, acked, flushed, ticket, excused>>
vars == <<phase, members, events, sbDirty, pool, wanted, durable, stale, sb, bm, data, io, sbw,
          task, rb, sup, budget, spent, latest, torn, acked, flushed, ticket, excused>>

State == {"Active", "Rebuilding", "Failed"}
Record == [id : Drive, state : State, to : 0..Units, missing : BOOLEAN, at : Nat]

-----------------------------------------------------------------------------
(* The slot table                                                           *)

\* Member::holds, of a range that ends with unit u.
Holds(m, u) == m.here /\ (m.state = "Active" \/ (m.state = "Rebuilding" /\ u <= m.to))

\* Member::attached: it takes superblocks, bitmap pages and flushes.
Attached(m) == m.here /\ m.state # "Failed"

Serving(m) == m.here /\ m.state = "Active"

\* attached_devices: each attached slot with the drive that is in it now.
AttachedDevices == {[slot |-> i, drive |-> members[i].id] : i \in {j \in Slot : Attached(members[j])}}

\* data_intact and can_lose, of a mirror.
DataIntact(ms) == \E i \in Slot : Serving(ms[i])
CanLose(i) == \E j \in Slot \ {i} : Serving(members[j])

\* keeps_bitmap: a member is out because its drive went missing.
KeepsBitmap(ms) == \E i \in Slot : ms[i].state = "Failed" /\ ms[i].missing

\* fail_member_as refuses a member already failed, and the last one that serves.
Failable(i) ==
    /\ members[i].state # "Failed"
    /\ members[i].state = "Rebuilding" \/ CanLose(i)

\* Mutant: the event counter stays, so a restart may believe the stale drive.
FailMemberUncounted(i, missing) ==
    /\ members' = [members EXCEPT ![i].state = "Failed",
                                  ![i].missing = missing /\ members[i].state # "Rebuilding",
                                  ![i].at = events + 1]
    /\ sbDirty' = TRUE
    /\ UNCHANGED events

FailMember(i, missing) ==
    /\ members' = [members EXCEPT ![i].state = "Failed",
                                  ![i].missing = missing /\ members[i].state # "Rebuilding",
                                  ![i].at = events + 1]
    /\ events' = events + 1
    /\ sbDirty' = TRUE

\* The superblocks a restart would believe: the newest on disk.
Newest == {sb[d] : d \in {x \in Drive : sb[x] # None /\ \A y \in Drive : sb[y] # None => sb[y].events <= sb[x].events}}

\* Drives a restart would trust and the set in memory does not.
Unrecorded == {d \in Drive : /\ \E n \in Newest, i \in Slot : n.slots[i].id = d /\ n.slots[i].state # "Failed"
                             /\ \A i \in Slot : members[i].id = d => members[i].state = "Failed"}

\* On disk, a member is out because its drive went missing.
KeptOnDisk == \E n \in Newest, i \in Slot : n.slots[i].state = "Failed" /\ n.slots[i].missing

(* Five shortcomings of the code, in the README's table, end what the        *)
(* properties below promise; a behaviour that meets one is marked.           *)
(*   bit         a write trusts a bit that a page on its way lacks           *)
(*   kept        a page overwrites bits kept for a member that is missing    *)
(*   unrecorded  an answer, or a cleared bit, while a failure is not on disk *)
(*   watermark   a cut after a rebuild's position was recorded, not flushed  *)
(*   zeroed      a cut after an assembly zeroed bitmaps, nothing flushed     *)
Shortcoming == {"bit", "kept", "unrecorded", "watermark", "zeroed"}
Excuse(what, met) == excused' = excused \cup (IF met THEN {what} ELSE {})

Spend(e) == spent[e] < budget[e] /\ spent' = [spent EXCEPT ![e] = @ + 1]

FlushDrives(D) ==
    /\ data' = [d \in Drive |-> IF d \in D THEN FlushAll(data[d]) ELSE data[d]]
    /\ bm' = [d \in Drive |-> IF d \in D THEN Flushed(bm[d]) ELSE bm[d]]

-----------------------------------------------------------------------------
(* Requests, and the locks they take                                        *)

Idle == [pc |-> "idle"]
Running(op) == {t \in Task : task[t].pc # "idle" /\ task[t].op = op}

\* The writes counted into the bitmap and not yet out of it.
Writing(u) == \E t \in Running("write") :
    task[t].pc \in {"intent", "intending", "lock", "land"} /\ u \in task[t].range

\* The lock of a unit, held by a write or by the rebuild.
LockedByWrite(u) == \E t \in Running("write") : task[t].pc = "land" /\ u \in task[t].range

\* Mutant: a write does not wait for the rebuild of the unit.
LockedNotByRebuild(u) == LockedByWrite(u)

Locked(u) == LockedByWrite(u) \/ (rb.pc = "copy" /\ rb.key + 1 = u)

\* Mutant: a write trusts a bit that is only wanted.
BeginWriteWanted(t, range) ==
    /\ phase = "up" /\ task[t] = Idle
    /\ Spend("writes")
    /\ wanted' = wanted \cup range
    /\ task' = [task EXCEPT ![t] = [op |-> "write", range |-> range, ok |-> FALSE, bad |-> {}, todo |-> {},
                                    pc |-> IF range \subseteq wanted THEN "lock" ELSE "intent", v |-> 0]]
    /\ UNCHANGED <<phase, memVars, pool, durable, stale, mediaVars, io, sbw, rb, sup, budget, histVars>>

\* raid1_write, IntentBitmap::begin: counted in, the bits wanted; the data waits
\* until they are on disk.
BeginWrite(t, range) ==
    /\ phase = "up" /\ task[t] = Idle
    /\ Spend("writes")
    /\ wanted' = wanted \cup range
    /\ task' = [task EXCEPT ![t] = [op |-> "write", range |-> range, ok |-> FALSE, bad |-> {}, todo |-> {},
                                    pc |-> IF range \subseteq durable THEN "lock" ELSE "intent", v |-> 0]]
    /\ Excuse("bit", range \subseteq durable /\ io # None /\ ~ (range \subseteq io.image))
    /\ UNCHANGED <<phase, memVars, pool, durable, stale, mediaVars, io, sbw, rb, sup, budget, latest, torn,
                   acked, flushed, ticket>>

\* intent_begin: is_durable.
IntentDurable(t) ==
    /\ task[t].pc = "intent"
    /\ task[t].range \subseteq durable
    /\ task' = [task EXCEPT ![t].pc = "lock"]
    /\ UNCHANGED <<phase, memVars, pool, mapVars, mediaVars, io, sbw, rb, sup, budget, spent, histVars>>

\* write_bitmap_pages: under the `io` lock, the page as it is wanted now goes to
\* the members attached now.
StartPage(t) ==
    /\ \/ task[t].pc = "page"
       \/ task[t].pc = "intent" /\ ~ (task[t].range \subseteq durable)
    /\ io = None
    /\ IF wanted # durable \/ stale
       THEN /\ io' = [by |-> t, image |-> wanted, bad |-> {}, any |-> FALSE, todo |-> AttachedDevices]
            /\ task' = [task EXCEPT ![t].pc = IF @ = "page" THEN "paging" ELSE "intending"]
       ELSE /\ task' = [task EXCEPT ![t].pc = "check"]
            /\ UNCHANGED io
    /\ Excuse("kept", (KeepsBitmap(members) \/ KeptOnDisk) /\ \E l \in AttachedDevices : ~ (bm[l.drive].cur \subseteq wanted))
    /\ UNCHANGED <<phase, memVars, pool, mapVars, mediaVars, sbw, rb, sup, budget, spent, latest, torn, acked,
                   flushed, ticket>>

\* One member takes the page and is flushed, or fails to, and then is failed next:
\* what its drive has of the page is not followed.
LandPage(l) ==
    /\ io # None /\ l \in io.todo
    /\ \/ /\ io' = [io EXCEPT !.todo = @ \ {l}, !.any = TRUE]
          /\ bm' = [bm EXCEPT ![l.drive] = Durable(io.image)]
          /\ data' = [data EXCEPT ![l.drive] = FlushAll(@)]
          /\ UNCHANGED spent
       \/ /\ Spend("faults")
          /\ io' = [io EXCEPT !.todo = @ \ {l}, !.bad = @ \cup {l.slot}]
          /\ UNCHANGED <<bm, data>>
    /\ UNCHANGED <<phase, memVars, pool, mapVars, sb, sbw, task, rb, sup, budget, histVars>>

\* A member that did not take the page is failed.  If that is refused, or no
\* member took it, the page is not committed: the write ends with the error, a
\* flush goes on.
JudgePage ==
    /\ io # None /\ io.todo = {} /\ (io.bad # {} \/ ~ io.any)
    /\ IF io.bad # {} /\ Failable(Min(io.bad))
       THEN FailMember(Min(io.bad), FALSE) /\ io' = [io EXCEPT !.bad = @ \ {Min(io.bad)}] /\ UNCHANGED task
       ELSE /\ io' = None
            /\ task' = [task EXCEPT ![io.by] = IF @.op = "write" THEN Idle ELSE [@ EXCEPT !.pc = "check"]]
            /\ UNCHANGED memVars
    /\ UNCHANGED <<phase, pool, mapVars, mediaVars, sbw, rb, sup, budget, spent, histVars>>

\* IntentBitmap::commit.
CommitPage ==
    /\ io # None /\ io.todo = {} /\ io.bad = {} /\ io.any
    /\ durable' = io.image
    /\ stale' = FALSE
    /\ io' = None
    /\ task' = [task EXCEPT ![io.by].pc = IF @ = "paging" THEN "check" ELSE "intent"]
    /\ UNCHANGED <<phase, memVars, pool, wanted, mediaVars, sbw, rb, sup, budget, spent, histVars>>

\* mirror_write_at, with the range locked: a member gets all of it, or the part
\* below its watermark.
Targets(range) ==
    {l \in {[slot |-> a.slot, drive |-> a.drive, part |-> {u \in range : Holds(members[a.slot], u)}] :
                a \in AttachedDevices} : l.part # {}}

LockRange(t) ==
    /\ task[t].pc = "lock"
    /\ \A u \in task[t].range : ~ Locked(u)
    /\ ticket' = ticket + 1
    /\ task' = [task EXCEPT ![t].pc = "land", ![t].v = ticket + 1, ![t].todo = Targets(task[t].range)]
    /\ UNCHANGED <<phase, memVars, pool, mapVars, mediaVars, io, sbw, rb, sup, budget, spent, latest, torn,
                   acked, flushed, excused>>

\* A write that fails may have reached the drive or not.
LandData(t, l) ==
    /\ task[t].pc = "land" /\ l \in task[t].todo
    /\ LET landed == [data EXCEPT ![l.drive] =
                        [u \in Unit |-> IF u \in l.part THEN Put(@[u], task[t].v) ELSE @[u]]]
       IN  \/ /\ data' = landed
              /\ task' = [task EXCEPT ![t].todo = @ \ {l}, ![t].ok = @ \/ l.part = task[t].range]
              /\ UNCHANGED spent
           \/ /\ Spend("faults")
              /\ data' \in {data, landed}
              /\ task' = [task EXCEPT ![t].todo = @ \ {l}, ![t].bad = @ \cup {l.slot}]
    /\ UNCHANGED <<phase, memVars, pool, mapVars, sb, bm, io, sbw, rb, sup, budget, histVars>>

\* "Not failing it would leave a leg that never got the data and still says it
\* holds it": if that is refused, the request returns the error.  A flush works
\* the same way (flush_members).
Judge(t) ==
    /\ task[t].pc \in {"land", "sync"} /\ task[t].todo = {} /\ task[t].bad # {}
    /\ LET i == Min(task[t].bad) IN
       IF Failable(i)
       THEN FailMember(i, FALSE) /\ task' = [task EXCEPT ![t].bad = @ \ {i}]
       ELSE task' = [task EXCEPT ![t].bad = {}, ![t].ok = FALSE] /\ UNCHANGED memVars
    /\ UNCHANGED <<phase, pool, mapVars, mediaVars, io, sbw, rb, sup, budget, spent, histVars>>

\* The range is unlocked and the write counted out of the bitmap.
EndWrite(t) ==
    /\ task[t].pc = "land" /\ task[t].todo = {} /\ task[t].bad = {}
    /\ LET range == task[t].range IN
       /\ latest' = IF task[t].ok THEN [u \in Unit |-> IF u \in range THEN task[t].v ELSE latest[u]] ELSE latest
       /\ torn' = IF task[t].ok THEN torn \ range ELSE torn \cup range
       /\ task' = [x \in Task |->
                     CASE x = t -> [task[t] EXCEPT !.pc = "check"]
                       [] x # t /\ x \in Running("flush") -> [task[x] EXCEPT !.fresh = @ \cup range]
                       [] OTHER -> task[x]]
    /\ UNCHANGED <<phase, memVars, pool, mapVars, mediaVars, io, sbw, rb, sup, budget, spent, acked, flushed,
                   ticket, excused>>

\* flush_members: the members attached now.
StartFlush(t) ==
    /\ phase = "up" /\ task[t] = Idle
    /\ Spend("flushes")
    /\ task' = [task EXCEPT ![t] = [op |-> "flush", pc |-> "sync", todo |-> AttachedDevices, ok |-> TRUE,
                                    bad |-> {}, fresh |-> {}, owed |-> acked]]
    /\ UNCHANGED <<phase, memVars, pool, mapVars, mediaVars, io, sbw, rb, sup, budget, histVars>>

SyncMember(t, l) ==
    /\ task[t].pc = "sync" /\ l \in task[t].todo
    /\ \/ /\ FlushDrives({l.drive})
          /\ task' = [task EXCEPT ![t].todo = @ \ {l}]
          /\ UNCHANGED spent
       \/ /\ Spend("faults")
          /\ task' = [task EXCEPT ![t].todo = @ \ {l}, ![t].bad = @ \cup {l.slot}]
          /\ UNCHANGED <<data, bm>>
    /\ UNCHANGED <<phase, memVars, pool, mapVars, sb, io, sbw, rb, sup, budget, histVars>>

\* clear_idle: the bits of chunks idle since well before the flush began, all of
\* them or, by how long each has been idle, some.
Clearable(t) == {u \in wanted : ~ Writing(u)} \ task[t].fresh

\* The flush worked and no member is missing: idle bits are lowered at once and
\* the page is written.
ClearIdle(t) ==
    /\ task[t].pc = "sync" /\ task[t].todo = {} /\ task[t].bad = {}
    /\ \E C \in IF task[t].ok /\ ~ KeepsBitmap(members) THEN SUBSET Clearable(t) ELSE {{}} :
          /\ Excuse("unrecorded", C # {} /\ Unrecorded # {})
          /\ wanted' = wanted \ C
          /\ durable' = durable \ C
          /\ stale' = (stale \/ C # {})
          /\ task' = [task EXCEPT ![t].pc = IF C # {} THEN "page" ELSE "check"]
    /\ UNCHANGED <<phase, memVars, pool, mediaVars, io, sbw, rb, sup, budget, spent, latest, torn, acked,
                   flushed, ticket>>

\* A read that fails on a member (mirror_read_at), or a drive reported failed or
\* missing (report_drive_state): the member is failed.
FailOnRequest(t, i, op, missing) ==
    /\ phase = "up" /\ task[t] = Idle
    /\ Spend(op)
    /\ IF Failable(i) THEN FailMember(i, missing) ELSE UNCHANGED memVars
    /\ task' = [task EXCEPT ![t] = [op |-> op, pc |-> "check", ok |-> TRUE]]
    /\ UNCHANGED <<phase, pool, mapVars, mediaVars, io, sbw, rb, sup, budget, histVars>>

ReadFails(t, i) == Holds(members[i], 1) /\ FailOnRequest(t, i, "reads", FALSE)
DriveReport(t, i) == \E missing \in BOOLEAN : FailOnRequest(t, i, "reports", missing)

\* What an answer tells the consumer.
Answer(t) ==
    LET k == task[t] IN
    /\ acked' = IF k.op = "write" /\ k.ok
                THEN [u \in Unit |-> IF u \in k.range THEN Max({acked[u], k.v}) ELSE acked[u]] ELSE acked
    /\ flushed' = IF k.op = "flush" /\ k.ok
                  THEN [u \in Unit |-> Max({flushed[u], k.owed[u]})] ELSE flushed
    /\ task' = [task EXCEPT ![t] = Idle]

\* Mutant: an answer does not wait for the superblocks.
CheckUnpersisted(t) ==
    /\ task[t].pc = "check"
    /\ Answer(t)
    /\ UNCHANGED <<phase, memVars, pool, mapVars, mediaVars, io, sbw, rb, sup, budget, spent, latest, torn,
                   ticket, excused>>

\* persist_if_dirty, before every answer.
Check(t) ==
    /\ task[t].pc = "check"
    /\ IF sbDirty THEN task' = [task EXCEPT ![t].pc = "persist"] /\ UNCHANGED <<acked, flushed>>
       ELSE Answer(t)
    /\ Excuse("unrecorded", ~ sbDirty /\ Unrecorded # {})
    /\ UNCHANGED <<phase, memVars, pool, mapVars, mediaVars, io, sbw, rb, sup, budget, spent, latest, torn, ticket>>

-----------------------------------------------------------------------------
(* Superblocks                                                              *)

\* superblock_for: what every member is told; each copy also names its own drive.
Description == [events |-> events, slots |-> [i \in Slot |-> [id |-> members[i].id, state |-> members[i].state,
                    to |-> members[i].to, missing |-> members[i].missing, at |-> members[i].at]]]

\* One round of write_superblocks, under the `sb_write` lock.
Round(by) == sbw' = [by |-> by, desc |-> Description, todo |-> AttachedDevices, bad |-> {}, again |-> FALSE, err |-> FALSE]

Callers == Task \cup {"rebuild", "supervisor", "assembly"}
Wants(c) ==
    CASE c = "rebuild" -> rb.pc = "persist"
      [] c = "supervisor" -> sup.pc = "persist"
      [] c = "assembly" -> phase = "opening"
      [] OTHER -> task[c].pc = "persist"

StartRound(c) ==
    /\ Wants(c) /\ sbw = None
    /\ Round(c)
    /\ sbDirty' = FALSE
    /\ task' = IF c \in Task THEN [task EXCEPT ![c].pc = "round"] ELSE task
    /\ rb' = IF c = "rebuild" THEN [rb EXCEPT !.pc = "round"] ELSE rb
    /\ sup' = IF c = "supervisor" THEN [sup EXCEPT !.pc = "round"] ELSE sup
    /\ phase' = IF c = "assembly" THEN "describing" ELSE phase
    /\ UNCHANGED <<members, events, pool, mapVars, mediaVars, io, budget, spent, histVars>>

\* One member takes its superblock and is flushed, or fails to (as for a page).
LandSb(l) ==
    /\ sbw # None /\ l \in sbw.todo
    /\ \/ /\ sb' = [sb EXCEPT ![l.drive] = sbw.desc]
          /\ FlushDrives({l.drive})
          /\ sbw' = [sbw EXCEPT !.todo = @ \ {l}]
          /\ UNCHANGED spent
       \/ /\ Spend("faults")
          /\ sbw' = [sbw EXCEPT !.todo = @ \ {l}, !.bad = @ \cup {l.slot}]
          /\ UNCHANGED mediaVars
    /\ UNCHANGED <<phase, memVars, pool, mapVars, io, task, rb, sup, budget, histVars>>

\* A member that did not take it is failed and the round repeated; if that is
\* refused, write_superblocks returns the error, which its callers log.
JudgeSb ==
    /\ sbw # None /\ sbw.todo = {} /\ sbw.bad # {}
    /\ LET i == Min(sbw.bad) IN
       IF Failable(i)
       THEN FailMember(i, FALSE) /\ sbw' = [sbw EXCEPT !.bad = @ \ {i}, !.again = TRUE]
       ELSE sbw' = [sbw EXCEPT !.bad = {}, !.again = FALSE, !.err = TRUE] /\ UNCHANGED memVars
    /\ UNCHANGED <<phase, pool, mapVars, mediaVars, io, task, rb, sup, budget, spent, histVars>>

RepeatRound ==
    /\ sbw # None /\ sbw.todo = {} /\ sbw.bad = {} /\ sbw.again
    /\ Round(sbw.by)
    /\ sbDirty' = FALSE
    /\ UNCHANGED <<phase, members, events, pool, mapVars, mediaVars, io, task, rb, sup, budget, spent, histVars>>

\* The round is over and its caller goes on.
EndRound ==
    /\ sbw # None /\ sbw.todo = {} /\ sbw.bad = {} /\ ~ sbw.again
    /\ sbw' = None
    /\ IF sbw.by \in Task THEN Answer(sbw.by) ELSE UNCHANGED <<task, acked, flushed>>
    /\ rb' = IF sbw.by = "rebuild" THEN [rb EXCEPT !.pc = rb.next] ELSE rb
    /\ sup' = IF sbw.by = "supervisor" THEN [pc |-> "idle"] ELSE sup
    /\ phase' = IF sbw.by = "assembly" THEN "up" ELSE phase
    /\ Excuse("unrecorded", sbw.err /\ Unrecorded # {})
    /\ UNCHANGED <<memVars, pool, mapVars, mediaVars, io, budget, spent, latest, torn, ticket>>

-----------------------------------------------------------------------------
(* Spares and the rebuild                                                   *)

\* The supervisor was woken by a failure and persists it.
Supervise ==
    /\ phase = "up" /\ sup.pc = "idle" /\ sbDirty
    /\ sup' = [pc |-> "persist"]
    /\ UNCHANGED <<phase, memVars, pool, mapVars, mediaVars, io, sbw, task, rb, budget, spent, histVars>>

\* take_spares, replace: a spare goes into the first failed slot.  The failure
\* may have come after the supervisor looked for one to persist.
TakeSpare(d) ==
    /\ phase = "up" /\ sup.pc = "idle"
    /\ DataIntact(members)
    /\ d \in pool /\ Spend("spares")
    /\ LET failed == {i \in Slot : members[i].state = "Failed"} IN
       /\ failed # {}
       /\ members' = [members EXCEPT ![Min(failed)] = [id |-> d, here |-> TRUE, state |-> "Rebuilding",
                                                       to |-> 0, missing |-> FALSE, at |-> 0]]
       /\ sup' = [pc |-> "zero", slot |-> Min(failed)]
    /\ pool' = pool \ {d}
    /\ events' = events + 1
    /\ UNCHANGED <<phase, sbDirty, mapVars, mediaVars, io, sbw, task, rb, budget, histVars>>

\* zero_bitmaps of the slot, not flushed; then the superblocks.
ZeroBitmap ==
    /\ sup.pc = "zero"
    /\ LET m == members[sup.slot] IN
       \/ /\ bm' = IF Attached(m) THEN [bm EXCEPT ![m.id] = Put(@, {})] ELSE bm
          /\ UNCHANGED <<memVars, spent>>
       \/ Attached(m) /\ Spend("faults") /\ FailMember(sup.slot, FALSE) /\ UNCHANGED bm
    /\ sup' = [pc |-> "persist"]
    /\ UNCHANGED <<phase, pool, mapVars, sb, data, io, sbw, task, rb, budget, histVars>>

Rebuilding == {i \in Slot : members[i].here /\ members[i].state = "Rebuilding"}

NoRebuild == [pc |-> "idle", targets |-> {}, key |-> 0, copies |-> {}, v |-> 0, next |-> "idle"]

\* spawn_rebuild: by the supervisor, or by a rebuild that ended and finds a slot
\* replaced while it ran.  The slots to rebuild are named once.
SpawnRebuild ==
    /\ phase = "up"
    /\ rb.pc = "ended" \/ (rb.pc = "idle" /\ sup.pc = "idle" /\ Rebuilding # {})
    /\ rb' = IF Rebuilding # {} /\ DataIntact(members)
             THEN [NoRebuild EXCEPT !.pc = "unit", !.targets = Rebuilding,
                                    !.key = Min({members[i].to : i \in Rebuilding})]
             ELSE NoRebuild
    /\ UNCHANGED <<phase, memVars, pool, mapVars, mediaVars, io, sbw, task, sup, budget, spent, histVars>>

\* rebuild_unit: the unit after `key` is locked and read from a member that
\* holds it, for the targets that do not.
CopyUnit ==
    /\ rb.pc = "unit" /\ rb.key < Units
    /\ ~ Locked(rb.key + 1)
    /\ LET live == {l \in AttachedDevices : l.slot \in rb.targets \cap Rebuilding /\ members[l.slot].to <= rb.key}
           sources == {i \in Slot \ rb.targets : Holds(members[i], rb.key + 1)}
           Copying(l, v) == rb' = [rb EXCEPT !.pc = "copy", !.copies = l, !.v = v]
       IN  \/ live = {} /\ Copying({}, 0) /\ UNCHANGED <<memVars, spent>>
           \/ /\ live # {}
              /\ \E i \in sources :
                 \/ Copying(live, data[members[i].id][rb.key + 1].cur) /\ UNCHANGED <<memVars, spent>>
                 \/ /\ Spend("faults")
                    /\ IF Failable(i) THEN FailMember(i, FALSE) ELSE UNCHANGED memVars
                    /\ rb' = IF sources = {i} THEN [rb EXCEPT !.pc = "check", !.next = "ended"] ELSE rb
    /\ UNCHANGED <<phase, pool, mapVars, mediaVars, io, sbw, task, sup, budget, histVars>>

LandCopy(l) ==
    /\ rb.pc = "copy" /\ l \in rb.copies
    /\ rb' = [rb EXCEPT !.copies = @ \ {l}]
    /\ \/ /\ data' = [data EXCEPT ![l.drive][rb.key + 1] = Put(@, rb.v)]
          /\ UNCHANGED <<memVars, spent>>
       \/ /\ Spend("faults")
          /\ IF Failable(l.slot) THEN FailMember(l.slot, FALSE) ELSE UNCHANGED memVars
          /\ UNCHANGED data
    /\ UNCHANGED <<phase, pool, mapVars, sb, bm, io, sbw, task, sup, budget, histVars>>

\* The watermark of every target still rebuilding is raised, and the unit let go.
RaiseWatermark ==
    /\ rb.pc = "copy" /\ rb.copies = {}
    /\ members' = [i \in Slot |-> IF i \in rb.targets \cap Rebuilding /\ members[i].to <= rb.key
                                  THEN [members[i] EXCEPT !.to = rb.key + 1] ELSE members[i]]
    /\ rb' = [rb EXCEPT !.pc = "check", !.key = @ + 1, !.v = 0, !.next = "unit"]
    /\ UNCHANGED <<phase, events, sbDirty, pool, mapVars, mediaVars, io, sbw, task, sup, budget, spent, histVars>>

\* persist_if_dirty; now and then the position is persisted too.
CheckRebuild ==
    /\ rb.pc = "check"
    /\ \/ ~ sbDirty /\ rb' = [rb EXCEPT !.pc = rb.next]
       \/ (sbDirty \/ rb.next = "unit") /\ rb' = [rb EXCEPT !.pc = "persist"]
    /\ UNCHANGED <<phase, memVars, pool, mapVars, mediaVars, io, sbw, task, sup, budget, spent, histVars>>

\* "Flushed before it is called whole."
FlushTargets ==
    /\ rb.pc = "unit" /\ rb.key = Units
    /\ LET devs == {members[i].id : i \in rb.targets} IN
       \/ FlushDrives(devs) /\ UNCHANGED <<memVars, spent>>
       \/ /\ Spend("faults")
          /\ \E i \in rb.targets :
                /\ IF Failable(i) THEN FailMember(i, FALSE) ELSE UNCHANGED memVars
                /\ FlushDrives(devs \ {members[i].id})
    /\ rb' = [rb EXCEPT !.pc = "activate"]
    /\ UNCHANGED <<phase, pool, mapVars, sb, io, sbw, task, sup, budget, histVars>>

Activate ==
    /\ rb.pc = "activate"
    /\ members' = [i \in Slot |-> IF i \in rb.targets \cap Rebuilding
                                  THEN [members[i] EXCEPT !.state = "Active", !.to = 0] ELSE members[i]]
    /\ events' = events + 1
    /\ rb' = [rb EXCEPT !.pc = "persist", !.next = "ended"]
    /\ UNCHANGED <<phase, sbDirty, pool, mapVars, mediaVars, io, sbw, task, sup, budget, spent, histVars>>

-----------------------------------------------------------------------------
(* A power cut, and the assembly after it                                   *)

\* What was on its way to a drive may have got there.
InFlightSb(d) == IF sbw # None /\ d \in {l.drive : l \in sbw.todo} THEN {sbw.desc} ELSE {}
InFlightPage(d) == IF io # None /\ d \in {l.drive : l \in io.todo} THEN {io.image} ELSE {}
InFlightData(d, u) ==
    {task[t].v : t \in {x \in Running("write") : task[x].pc = "land"
                          /\ \E l \in task[x].todo : l.drive = d /\ u \in l.part}}
    \cup (IF rb.pc = "copy" /\ u = rb.key + 1 /\ d \in {l.drive : l \in rb.copies} THEN {rb.v} ELSE {})

\* A superblock on disk, or on its way there, counts units as rebuilt that the
\* drive has not flushed.
Hasty == \E desc \in {sb[d] : d \in Drive} \cup (IF sbw = None THEN {} ELSE {sbw.desc}) :
            desc # None /\ \E i \in Slot, u \in Unit :
                /\ desc.slots[i].state = "Rebuilding" /\ u <= desc.slots[i].to
                /\ 0 \in data[desc.slots[i].id][u].may

\* An assembly has zeroed bitmaps before a flush of what it resynced.
Zeroing == phase \in {"opening", "describing"} /\ \E d \in Drive, u \in Unit : data[d][u].may # {data[d][u].cur}

PowerCut ==
    /\ phase # "down"
    /\ Spend("cuts")
    /\ sb' \in Cut([d \in Drive |-> [cur |-> sb[d], may |-> {sb[d]} \cup InFlightSb(d)]])
    /\ \E m \in Cut([d \in Drive |-> [bm[d] EXCEPT !.may = @ \cup InFlightPage(d)]]) :
          bm' = [d \in Drive |-> Durable(m[d])]
    /\ \E m \in Cut([x \in Drive \X Unit |->
                        [data[x[1]][x[2]] EXCEPT !.may = @ \cup InFlightData(x[1], x[2])]]) :
          data' = [d \in Drive |-> [u \in Unit |-> Durable(m[<<d, u>>])]]
    /\ phase' = "down"
    /\ io' = None /\ sbw' = None
    /\ task' = [t \in Task |-> Idle]
    /\ rb' = NoRebuild
    /\ sup' = [pc |-> "idle"]
    /\ excused' = excused \cup (IF Hasty THEN {"watermark"} ELSE {}) \cup (IF Zeroing THEN {"zeroed"} ELSE {})
    /\ UNCHANGED <<memVars, pool, mapVars, budget, latest, torn, acked, flushed, ticket>>

\* The slot table of the newest superblock among the drives found, with the
\* slots whose drive is not here failed as missing.
FromRecord(F, newest, i) ==
    LET r == newest.slots[i]
        here == r.id \in F /\ sb[r.id] # None
        m == [id |-> r.id, here |-> here, state |-> r.state, to |-> r.to, missing |-> r.missing, at |-> r.at]
    IN  IF here \/ r.state = "Failed" THEN m
        ELSE [m EXCEPT !.state = "Failed", !.missing = TRUE, !.at = newest.events + 1]

\* A drive that went missing, is back and had seen everything up to then.
Readds(ms) == {i \in Slot : /\ ms[i].here /\ ms[i].state = "Failed" /\ ms[i].missing
                            /\ sb[ms[i].id].events + 1 >= ms[i].at}

\* assemble, up to its superblocks: the chunks any attached member's bitmap marks
\* are copied from the first holder to the others, a drive that is back gets
\* them and serves again, the bitmaps are zeroed.
Assemble(F) ==
    /\ phase = "down"
    /\ F = Drive \/ (F # Drive /\ Cardinality(Drive \ F) = 1 /\ spent["absences"] < budget["absences"])
    /\ spent' = [spent EXCEPT !["absences"] = IF F = Drive THEN @ ELSE @ + 1]
    /\ \E n \in F :
        /\ sb[n] # None
        /\ \A d \in F : sb[d] # None => sb[d].events <= sb[n].events
        /\ LET ms == [i \in Slot |-> FromRecord(F, sb[n], i)]
               changed == \E i \in Slot : ms[i].state # sb[n].slots[i].state
               back == Readds(ms)
               dirty == UNION {bm[ms[i].id].cur : i \in {j \in Slot : Attached(ms[j])}}
               whole == [i \in Slot |-> IF i \in back THEN [ms[i] EXCEPT !.state = "Active", !.to = 0,
                                                              !.missing = FALSE, !.at = 0] ELSE ms[i]]
               first(u) == data[ms[Min({i \in Slot : Holds(ms[i], u)})].id][u].cur
               gets(d, u) == u \in dirty /\ \E i \in Slot : ms[i].id = d /\ (Holds(ms[i], u) \/ i \in back)
           IN  /\ DataIntact(ms)
               /\ members' = whole
               /\ events' = sb[n].events + (IF changed THEN 1 ELSE 0) + Cardinality(back)
               /\ data' = [d \in Drive |-> [u \in Unit |->
                              IF gets(d, u) /\ data[d][u].cur # first(u) THEN Put(data[d][u], first(u))
                              ELSE data[d][u]]]
               /\ bm' = [d \in Drive |-> IF /\ dirty # {} /\ ~ KeepsBitmap(whole)
                                            /\ \E i \in Slot : whole[i].id = d /\ Attached(whole[i])
                                         THEN Put(bm[d], {}) ELSE bm[d]]
               /\ latest' = [u \in Unit |-> first(u)]
    /\ acked' = flushed
    /\ sbDirty' = TRUE
    /\ wanted' = {} /\ durable' = {} /\ stale' = FALSE
    /\ pool' = {d \in F : sb[d] = None}
    /\ phase' = "opening"
    /\ UNCHANGED <<sb, io, sbw, task, rb, sup, budget, torn, flushed, ticket, excused>>

-----------------------------------------------------------------------------
Landings == [slot : Slot, drive : Drive]
Ranges == {lo..hi : lo \in Unit, hi \in Unit} \ {{}}

Init ==
    /\ phase = "up"
    /\ members = [i \in Slot |-> [id |-> Home[i], here |-> TRUE, state |-> "Active", to |-> 0,
                                  missing |-> FALSE, at |-> 0]]
    /\ events = 1 /\ sbDirty = FALSE
    /\ pool = {d \in Drive : \A i \in Slot : Home[i] # d}
    /\ wanted = {} /\ durable = {} /\ stale = FALSE
    /\ sb = [d \in Drive |-> IF d \in pool THEN None ELSE Description]
    /\ bm = [d \in Drive |-> Durable({})]
    /\ data = [d \in Drive |-> [u \in Unit |-> Durable(IF d \in pool THEN 0 ELSE 1)]]
    /\ io = None /\ sbw = None
    /\ task = [t \in Task |-> Idle]
    /\ rb = NoRebuild
    /\ sup = [pc |-> "idle"]
    /\ budget \in Budgets
    /\ spent = [e \in Event |-> 0]
    /\ latest = [u \in Unit |-> 1]
    /\ torn = {}
    /\ acked = latest
    /\ flushed = latest
    /\ ticket = 1
    /\ excused = {}

Next ==
    \/ \E t \in Task :
         \/ \E r \in Ranges : BeginWrite(t, r)
         \/ IntentDurable(t) \/ StartPage(t) \/ LockRange(t) \/ Judge(t) \/ EndWrite(t)
         \/ StartFlush(t) \/ ClearIdle(t) \/ Check(t)
         \/ \E i \in Slot : ReadFails(t, i) \/ DriveReport(t, i)
         \/ task[t].pc = "land" /\ \E l \in task[t].todo : LandData(t, l)
         \/ \E l \in Landings : SyncMember(t, l)
    \/ \E l \in Landings : LandPage(l) \/ LandSb(l) \/ LandCopy(l)
    \/ JudgePage \/ CommitPage \/ JudgeSb \/ RepeatRound \/ EndRound
    \/ \E c \in Callers : StartRound(c)
    \/ Supervise \/ ZeroBitmap \/ \E d \in Drive : TakeSpare(d)
    \/ SpawnRebuild \/ CopyUnit \/ RaiseWatermark \/ CheckRebuild \/ FlushTargets \/ Activate
    \/ PowerCut \/ \E F \in SUBSET Drive : Assemble(F)

Spec == Init /\ [][Next]_vars

-----------------------------------------------------------------------------
Desc == [events : Nat, slots : [Slot -> Record]]
ASSUME NoneAssumption == None \notin Desc
WriteLandings == [slot : Slot, drive : Drive, part : SUBSET Unit]

TaskType ==
    {Idle}
    \cup [op : {"write"}, range : SUBSET Unit, ok : BOOLEAN, bad : SUBSET Slot, todo : SUBSET WriteLandings,
          pc : {"intent", "intending", "lock", "land", "check", "persist", "round"}, v : Nat]
    \cup [op : {"flush"}, pc : {"sync", "page", "paging", "check", "persist", "round"}, todo : SUBSET Landings,
          ok : BOOLEAN, bad : SUBSET Slot, fresh : SUBSET Unit, owed : [Unit -> Nat]]
    \cup [op : {"reads", "reports"}, pc : {"check", "persist", "round"}, ok : BOOLEAN]

\* A cell of the write cache whose values are in S.
CellOf(S, c) == DOMAIN c = {"cur", "may"} /\ c.cur \in S /\ c.may \subseteq S /\ c.cur \in c.may

\* The types of the variables; what a drive holds after a cut is among what its
\* cell says it may be.
TypeOK ==
    /\ phase \in {"up", "down", "opening", "describing"}
    /\ members \in [Slot -> [id : Drive, here : BOOLEAN, state : State, to : 0..Units, missing : BOOLEAN, at : Nat]]
    /\ events \in Nat /\ sbDirty \in BOOLEAN
    /\ pool \subseteq Drive
    /\ wanted \subseteq Unit /\ durable \subseteq Unit /\ stale \in BOOLEAN
    /\ \A d \in Drive : sb[d] = None \/ sb[d] \in Desc
    /\ \A d \in Drive : CellOf(SUBSET Unit, bm[d])
    /\ \A d \in Drive, u \in Unit : CellOf(Nat, data[d][u])
    /\ io = None \/ io \in [by : Task, image : SUBSET Unit, bad : SUBSET Slot, any : BOOLEAN, todo : SUBSET Landings]
    /\ sbw = None \/ sbw \in [by : Callers, desc : Desc, todo : SUBSET Landings, bad : SUBSET Slot,
                               again : BOOLEAN, err : BOOLEAN]
    /\ \A t \in Task : task[t] \in TaskType
    /\ rb \in [pc : {"idle", "unit", "copy", "check", "persist", "round", "activate", "ended"},
               targets : SUBSET Slot, key : 0..Units, copies : SUBSET Landings, v : Nat,
               next : {"idle", "unit", "ended"}]
    /\ sup.pc \in {"idle", "zero", "persist", "round"} /\ (sup.pc = "zero" => sup.slot \in Slot)
    /\ budget \in Budgets /\ spent \in [Event -> Nat]
    /\ {latest, acked, flushed} \subseteq [Unit -> Nat] /\ torn \subseteq Unit /\ ticket \in Nat
    /\ excused \subseteq Shortcoming

ReadAs(i, u) == data[members[i].id][u].cur

\* "A member is read only where it holds the data": whichever member a read
\* picks, an Active one or one rebuilt past the unit, it returns the last write
\* that ended, with writes, a rebuild, failures and restarts going on.  A unit
\* whose last write returned an error may differ between the members.
HoldersAgree ==
    phase = "up" /\ excused = {} => \A u \in Unit \ torn : ~ LockedByWrite(u) =>
        \A i \in Slot : Holds(members[i], u) => ReadAs(i, u) = latest[u]

\* What was answered before a flush that was answered Ok is what every member
\* that may be read holds, or something newer, after cuts and assemblies too.
FlushedSurvives ==
    phase = "up" /\ excused = {} => \A u \in Unit : ~ LockedByWrite(u) =>
        \A i \in Slot : Holds(members[i], u) => ReadAs(i, u) >= flushed[u]

\* "The superblocks say so before the I/O is acknowledged": a drive the newest
\* superblock on disk would have an assembly read from has every write that was
\* answered, so a failed member is never trusted again after a restart.
RestartTrustsOnlyCurrent ==
    phase = "up" /\ excused = {} => \A d \in Drive, u \in Unit :
        (\E n \in Newest, i \in Slot :
            /\ n.slots[i].id = d
            /\ n.slots[i].state = "Active" \/ (n.slots[i].state = "Rebuilding" /\ u <= n.slots[i].to))
            => data[d][u].cur >= acked[u]

\* "A write sets its chunks' bits on disk before it touches the data": while data
\* is on its way to a unit that two members hold, the bitmap of an attached drive
\* marks the unit.
WriteUnderItsBit ==
    excused = {} => \A t \in Running("write") : task[t].pc = "land" =>
        \A l \in task[t].todo : \A u \in l.part :
            Cardinality({i \in Slot : Holds(members[i], u)}) > 1 =>
                \E i \in Slot : Attached(members[i]) /\ u \in bm[members[i].id].cur

\* "A member is read only where it holds the data", of a drive that was never
\* filled: no read returns what a spare held before it was one.
NeverReadsUnfilled ==
    phase = "up" /\ excused = {} => \A i \in Slot, u \in Unit : Holds(members[i], u) => ReadAs(i, u) # 0
=============================================================================
