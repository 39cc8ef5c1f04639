---------------------------- MODULE ParityStripes ----------------------------
(***************************************************************************)
(* Parity volumes and the dirty-stripe log (volume/thin.rs, "Parity         *)
(* volumes"; volume/stripelog.rs; the restore of volume/mod.rs).  A stripe  *)
(* is Width members and one parity leg, each on a slab of its own.  A write *)
(* is two writes, the member and then the parity; the stripe is put in the  *)
(* log before the first, a flush empties the log, and a start recomputes    *)
(* the parity of the stripes the log still names.                           *)
(*                                                                          *)
(* A slot's content is the set of the writes XORed into it: a member holds  *)
(* {n} after write n and {} where it reads as zeros, and parity is the      *)
(* symmetric difference of what its members hold.  A slab is one drive with *)
(* a write cache and a slot table; an entry made is found after a cut once  *)
(* the slab has been synced since, data first, and one freed may or may not *)
(* be before that (module Slab).  A volume has a record besides, which its  *)
(* manager writes now and then: a start reads the map from the tables and   *)
(* the record, and the failed set from the record.  Volumes here share      *)
(* nothing.                                                                 *)
(***************************************************************************)
EXTENDS Naturals, FiniteSets, FiniteSetsExt, TLC, WriteCache

CONSTANTS Width,     \* members of a stripe
          Stripe,    \* the stripes of the volume
          Slab,      \* the slabs, each a failure domain
          Task,      \* requests
          Budgets,   \* how often each event may happen in a behaviour
          None

Member == 1..Width
P == Width + 1               \* the parity leg
Leg == Member \cup {P}
Blank == {}

\* Requests and flushes, syncs for other volumes, resyncs, records written; errors
\* writing the log, slabs that die; power cuts, slabs absent at the start after one.
Event == {"writes", "discards", "flushes", "syncs", "resyncs", "records", "logfaults", "deaths", "cuts", "absences"}

ASSUME WidthAssumption == Width \in Nat \ {0}
ASSUME BudgetsAssumption == Budgets \subseteq [Event -> Nat]
ASSUME NoneAssumption == None \notin Slab /\ \A S \in SUBSET Stripe : None # S

VARIABLES cell,       \* for each slab, stripe and leg, the slot there that is the leg's
          leg,        \* the map: for each stripe and leg, its slab
          entry,      \* the slabs' tables: the generation of the leg's slot there, 0 when it is free
          table,      \* the tables as the drives have them
          rec,        \* the volume's record on disk: its map and its failed set
          snap,       \* a record on its way there, None when there is none
          owed,       \* slots a resync replaced, to be freed once a record is written
          attached,   \* slabs that are there
          failed,     \* the volume's failed set
          dead,       \* slabs whose drive answers every request with an error
          dirty,      \* StripeLog::dirty
          file,       \* what the log's file says, a cell of the data directory
          task,
          todo,       \* stripes a start has still to verify; None when it is through
          budget, spent,
          disk,       \* history: for each leg, the slab that was its place when it was last synced
          ticket,     \* history: the number of the last write
          allow,      \* history: what each member may read as
          keep,       \* history: what it may read as after a power cut now
          unlogged,   \* history: stripes whose mark may be missing, see Excuse
          holed,      \* history: unlogged stripes a cut came upon
          dropped     \* history: stripes a start set back, see SetBack

mapVars == <<leg, disk, entry, table>>
recVars == <<rec, snap, owed>>
slabVars == <<attached, failed, dead>>
logVars == <<dirty, file>>
histVars == <<ticket, allow, keep, unlogged, holed, dropped>>
vars == <<cell, leg, disk, entry, table, attached, failed, dead, dirty, file, task, todo, rec, snap, owed, budget, spent,
          ticket, allow, keep, unlogged, holed, dropped>>

Spend(e) == spent[e] < budget[e] /\ spent' = [spent EXCEPT ![e] = @ + 1]

-----------------------------------------------------------------------------
(* A stripe                                                                 *)

\* compute_parity, apply_delta_leg with one parity leg: XOR.
Xor(f) == {n \in UNION {f[i] : i \in DOMAIN f} : Cardinality({i \in DOMAIN f : n \in f[i]}) % 2 = 1}

Trusted(k) == k \in attached /\ k \notin failed
Answers(k) == Trusted(k) /\ k \notin dead

\* Members that are mapped and cannot be read.
Lost(s) == {i \in Member : leg[s][i] # None /\ ~ Answers(leg[s][i])}

\* reconstruct_legs: one member from the parity and the others.
Recoverable(s) == Lost(s) = {} \/ (Cardinality(Lost(s)) = 1 /\ leg[s][P] # None /\ Answers(leg[s][P]))

\* assemble_stripe: what every member holds.
Assemble(s) ==
    LET read == [i \in Member |-> IF leg[s][i] = None THEN Blank ELSE cell[leg[s][i]][s][i].cur]
    IN  [i \in Member |-> IF i \in Lost(s)
                          THEN Xor([j \in Leg \ {i} |-> IF j = P THEN cell[leg[s][P]][s][P].cur ELSE read[j]])
                          ELSE read[i]]

\* Slabs found dead or not attached while the legs L of a stripe are read or written.
Noticed(s, L) == {leg[s][i] : i \in L} \cap (dead \cup (Slab \ attached))

\* Mutant: the slab of the parity leg is not kept apart from.
ApartFromMembers(s, i) ==
    {k \in attached \ failed : (\A j \in Member \ {i} : leg[s][j] # k) /\ entry[k][s][i] = 0 /\ table[k][s][i] = 0}

\* allocate_apart: a slab the volume trusts, apart from the stripe's other legs
\* that are still there.  A slab has one slot for each leg of a stripe, and one that
\* is taken, or was freed and not synced since, is not taken again (module Slab).
Apart(s, i) ==
    {k \in attached \ failed : (\A j \in Leg \ {i} : leg[s][j] # k) /\ entry[k][s][i] = 0 /\ table[k][s][i] = 0}

\* The generation of a leg's slot.
Generation(s, i) == IF leg[s][i] = None THEN 0 ELSE entry[leg[s][i]][s][i]

\* replace_member_slot: leg i of stripe s gets a slot on slab `to`, a generation on, and
\* the one it had is freed where its slab is there.  With None for `to`: freed.
Moved(s, i, to) ==
    [k \in Slab |-> IF k = to THEN [entry[k] EXCEPT ![s][i] = Generation(s, i) + 1]
                    ELSE IF k = leg[s][i] /\ k \in attached THEN [entry[k] EXCEPT ![s][i] = 0]
                    ELSE entry[k]]

\* The stripe lock.
Holds(t, s) == task[t].pc \in {"persist", "land", "data", "unmap", "parity"} /\ task[t].s = s
Free(s) == \A t \in Task : ~ Holds(t, s)

\* Every slot of the stripe is as it would be after a cut.
Settled(s) ==
    /\ leg[s] = disk[s]
    /\ \A i \in Leg : leg[s][i] # None => LET c == cell[leg[s][i]][s][i] IN c.may = {c.cur}

\* The stripe is mid-write, or a cut may leave some of its slots behind.
Needed(s) == ~ Settled(s) \/ \E t \in Task : task[t].pc \in {"data", "unmap", "parity"} /\ task[t].s = s

-----------------------------------------------------------------------------
(* The log                                                                  *)

\* persist: the set is read, then a file that holds it takes the log's name, or
\* the file is removed.  Two at once may land in either order.
ReadDirty(t, pc) == task' = [task EXCEPT ![t].pc = pc, ![t].set = dirty]

Landed(set) == IF set = {} THEN Put(file, {}) ELSE Durable(set)

\* History.  A file that does not name a stripe that needs its mark, because an
\* older set landed last, a flush cleared a mark still needed, or the log could not
\* be written.
Overtaken == unlogged' = unlogged \cup {s \in Stripe : s \notin file'.cur /\ (Needed(s)' \/ (s \in dirty /\ Free(s)'))}

\* History.  A stripe that is settled and not being written needs no mark.
Excuse == unlogged' = {s \in unlogged : Needed(s)' \/ ~ Free(s) \/ s \in dirty \ file.cur}

-----------------------------------------------------------------------------
(* Requests                                                                 *)

Idle == [pc |-> "idle"]

Serving == todo = None
Flushing(t) == task[t].pc \in {"sync", "forget", "clear"}

\* A request on member i of stripe s that leaves it at v: either value from now on.
Request(t, op, pc, s, i, v) ==
    /\ task' = [x \in Task |->
          IF x = t THEN [pc |-> pc, op |-> op, s |-> s, i |-> i, v |-> v, old |-> Blank, set |-> {}]
          ELSE IF Flushing(x) THEN [task[x] EXCEPT !.base[s][i] = @ \cup {v}] ELSE task[x]]
    /\ allow' = [allow EXCEPT ![s][i] = @ \cup {v}]
    /\ keep' = [keep EXCEPT ![s][i] = @ \cup {v}]

\* Mutant: the mark is not waited for.
BeginWriteUnpersisted(t, s, i) ==
    /\ Serving /\ task[t] = Idle /\ Free(s)
    /\ Spend("writes")
    /\ ticket' = ticket + 1
    /\ Request(t, "write", "data", s, i, {ticket + 1})
    /\ dirty' = dirty \cup {s}
    /\ UNCHANGED <<cell, mapVars, slabVars, file, todo, recVars, budget, unlogged, holed, dropped>>

\* write_parity_member: the stripe is locked and marked; a mark that is new is
\* persisted first.
BeginWrite(t, s, i) ==
    /\ Serving /\ task[t] = Idle /\ Free(s)
    /\ Spend("writes")
    /\ ticket' = ticket + 1
    /\ Request(t, "write", IF s \in dirty THEN "data" ELSE "persist", s, i, {ticket + 1})
    /\ dirty' = dirty \cup {s}
    /\ UNCHANGED <<cell, mapVars, slabVars, file, todo, recVars, budget, unlogged, holed, dropped>>

\* release_parity_member: the stripe is locked, and not marked.
BeginDiscard(t, s, i) ==
    /\ Serving /\ task[t] = Idle /\ Free(s)
    /\ Spend("discards")
    /\ leg[s][i] # None
    /\ Request(t, "discard", "unmap", s, i, Blank)
    /\ UNCHANGED <<cell, mapVars, slabVars, logVars, todo, recVars, budget, ticket, unlogged, holed, dropped>>

ReadMarks(t) ==
    /\ task[t].pc = "persist"
    /\ ReadDirty(t, "land")
    /\ UNCHANGED <<cell, mapVars, slabVars, logVars, todo, recVars, budget, spent, histVars>>

\* An error of the log is a warning, and the write goes on.
LandMarks(t) ==
    /\ task[t].pc = "land"
    /\ \/ file' = Landed(task[t].set) /\ UNCHANGED spent
       \/ Spend("logfaults") /\ UNCHANGED file
    /\ task' = [task EXCEPT ![t].pc = "data"]
    /\ UNCHANGED <<cell, mapVars, slabVars, dirty, todo, recVars, budget, ticket, allow, keep, holed, dropped>>
    /\ Overtaken

\* A request ends: with an error, or done, and then the member reads as it wrote.
End(t) == task' = [task EXCEPT ![t] = Idle]
Done(t) == allow' = [allow EXCEPT ![task[t].s][task[t].i] = {task[t].v}]

\* The member: in place where it reads, to a slab of its own when it is not mapped
\* or was reconstructed.  An error ends the write.
WriteData(t) ==
    LET s == task[t].s
        i == task[t].i
        k == leg[s][i]
        inPlace == k # None /\ Answers(k)
    IN
    /\ task[t].pc = "data"
    /\ failed' = IF k = None \/ inPlace THEN failed ELSE failed \cup Noticed(s, Leg)
    /\ \/ \E to \in IF inPlace THEN {k} ELSE {x \in Apart(s, i) : x \notin failed' \cup dead} :
            /\ inPlace \/ k = None \/ Recoverable(s)
            /\ cell' = [cell EXCEPT ![to][s][i] = Put(@, task[t].v)]
            /\ leg' = [leg EXCEPT ![s][i] = to]
            /\ entry' = IF inPlace THEN entry ELSE Moved(s, i, to)
            /\ task' = [task EXCEPT ![t].pc = "parity", ![t].old = Assemble(s)[i]]
       \/ /\ ~ inPlace
          /\ \/ k # None /\ ~ Recoverable(s)
             \/ Apart(s, i) \ failed' = {} \/ Apart(s, i) \cap (dead \ failed') # {}
          /\ End(t)
          /\ UNCHANGED <<cell, leg, entry>>
    /\ UNCHANGED <<disk, table, attached, dead, logVars, todo, recVars, budget, spent, histVars>>

\* The drive dies between the read of a member and the write.
DiesInWrite(t) ==
    /\ task[t].pc = "data"
    /\ LET k == leg[task[t].s][task[t].i] IN
       /\ k # None /\ Answers(k)
       /\ Spend("deaths")
       /\ dead' = dead \cup {k} /\ failed' = failed \cup {k}
    /\ End(t)
    /\ UNCHANGED <<cell, mapVars, attached, logVars, todo, recVars, budget, histVars>>

\* release_parity_member: the member is read, then unmapped and its slot let go.
Unmap(t) ==
    LET s == task[t].s
        i == task[t].i
    IN
    /\ task[t].pc = "unmap"
    /\ failed' = failed \cup Noticed(s, IF Lost(s) = {} THEN Member ELSE Leg)
    /\ IF Recoverable(s)
       THEN /\ task' = [task EXCEPT ![t].pc = "parity", ![t].old = Assemble(s)[i]]
            /\ leg' = [leg EXCEPT ![s][i] = None]
            /\ entry' = Moved(s, i, None)
            /\ unlogged' = unlogged \cup ({s} \ file.cur)
       ELSE End(t) /\ UNCHANGED <<leg, entry, unlogged>>
    /\ UNCHANGED <<cell, disk, table, attached, dead, logVars, todo, recVars, budget, spent, ticket, allow, keep,
                   holed, dropped>>

\* update_parity: the change folded into the parity; a leg that fails is skipped,
\* and the request is answered.
UpdateParity(t) ==
    LET s == task[t].s
        k == leg[s][P]
    IN
    /\ task[t].pc = "parity" /\ k # None
    /\ task[t].op = "discard" => \E j \in Member : leg[s][j] # None
    /\ failed' = failed \cup Noticed(s, {P})
    /\ cell' = IF Answers(k)
               THEN [cell EXCEPT ![k][s][P] = Put(@, Xor(<<@.cur, task[t].old, task[t].v>>))]
               ELSE cell
    /\ Done(t) /\ End(t)
    /\ UNCHANGED <<mapVars, attached, dead, logVars, todo, recVars, budget, spent, ticket, keep, unlogged, holed, dropped>>

\* cow_parity_group: a stripe that has no group is given one, from its members.
NewGroup(t) ==
    LET s == task[t].s IN
    /\ task[t].pc = "parity" /\ leg[s][P] = None /\ task[t].op = "write"
    /\ failed' = failed \cup Noticed(s, Member)
    /\ \/ /\ Recoverable(s)
          /\ \E to \in Apart(s, P) \ (failed' \cup dead) :
                /\ cell' = [cell EXCEPT ![to][s][P] = Put(@, Xor(Assemble(s)))]
                /\ leg' = [leg EXCEPT ![s][P] = to]
                /\ entry' = Moved(s, P, to)
          /\ Done(t)
       \/ /\ ~ Recoverable(s) \/ Apart(s, P) \ failed' = {} \/ Apart(s, P) \cap (dead \ failed') # {}
          /\ UNCHANGED <<cell, leg, entry, allow>>
    /\ End(t)
    /\ UNCHANGED <<disk, table, attached, dead, logVars, todo, recVars, budget, spent, ticket, keep,
                   unlogged, holed, dropped>>

\* A discard of a stripe with no group, or of its last member: the group goes.
DropGroup(t) ==
    LET s == task[t].s IN
    /\ task[t].pc = "parity" /\ task[t].op = "discard"
    /\ leg[s][P] = None \/ \A j \in Member : leg[s][j] = None
    /\ leg' = [leg EXCEPT ![s][P] = None]
    /\ entry' = Moved(s, P, None)
    /\ Done(t) /\ End(t)
    /\ UNCHANGED <<cell, disk, table, slabVars, logVars, todo, recVars, budget, spent, ticket, keep,
                   unlogged, holed, dropped>>

-----------------------------------------------------------------------------
(* Flushes, syncs, resync                                                   *)

\* Mutant: the entries are written without the flush of the data before them.
SyncEntries(k) ==
    /\ table' = [table EXCEPT ![k] = entry[k]]
    /\ disk' = [s \in Stripe |-> [i \in Leg |-> IF leg[s][i] = k THEN k
                                                ELSE IF disk[s][i] = k THEN None ELSE disk[s][i]]]
    /\ UNCHANGED cell

\* sync_registered: the slab's slots are flushed, and then its entries.
Sync(k) ==
    /\ cell' = [cell EXCEPT ![k] = [s \in Stripe |-> FlushAll(@[s])]]
    /\ table' = [table EXCEPT ![k] = entry[k]]
    /\ disk' = [s \in Stripe |-> [i \in Leg |-> IF leg[s][i] = k THEN k
                                                ELSE IF disk[s][i] = k THEN None ELSE disk[s][i]]]

SyncByOther(k) ==
    /\ Answers(k)
    /\ Spend("syncs")
    /\ Sync(k)
    /\ UNCHANGED <<leg, entry, slabVars, logVars, task, todo, recVars, budget, ticket, allow, keep, holed, dropped>>
    /\ Excuse

\* flush: the slabs of the map's legs, one after the other.  (The flush that finds
\* nothing finished since the last one and returns is in module LiveMirror.)
BeginFlush(t) ==
    /\ Serving /\ task[t] = Idle
    /\ Spend("flushes")
    /\ task' = [task EXCEPT ![t] = [pc |-> "sync", slabs |-> {leg[s][i] : s \in Stripe, i \in Leg} \ {None},
                                    base |-> allow, lost |-> FALSE, set |-> {}]]
    /\ UNCHANGED <<cell, mapVars, slabVars, logVars, todo, recVars, budget, histVars>>

SyncSlab(t, k) ==
    /\ task[t].pc = "sync" /\ k \in task[t].slabs
    /\ task' = [task EXCEPT ![t].slabs = @ \ {k}, ![t].lost = @ \/ (Trusted(k) /\ k \in dead)]
    /\ failed' = failed \cup ({k} \cap dead \cap attached)
    /\ IF Answers(k) THEN Sync(k) ELSE UNCHANGED <<cell, disk, table>>
    /\ UNCHANGED <<leg, entry, attached, dead, logVars, todo, recVars, budget, spent, ticket, allow, keep, holed, dropped>>
    /\ Excuse

\* health: a stripe that lost more than its parity makes up for is unreadable.
Unreadable(s) == Cardinality({i \in Member : leg[s][i] # None /\ ~ Trusted(leg[s][i])})
                   > IF leg[s][P] # None /\ Trusted(leg[s][P]) THEN 1 ELSE 0

\* A leg lost in this flush fails it when something is unreadable for it.
FlushFails(t) ==
    /\ task[t].pc = "sync" /\ task[t].slabs = {} /\ task[t].lost
    /\ \E s \in Stripe : Unreadable(s)
    /\ End(t)
    /\ UNCHANGED <<cell, mapVars, slabVars, logVars, todo, recVars, budget, spent, histVars>>

\* clear: every mark goes, of stripes mid-write and of those written since their
\* slabs were synced too.
ClearMarks(t) ==
    /\ task[t].pc = "sync" /\ task[t].slabs = {}
    /\ ~ (task[t].lost /\ \E s \in Stripe : Unreadable(s))
    /\ dirty' = {}
    /\ task' = [task EXCEPT ![t].pc = "forget"]
    /\ UNCHANGED <<cell, mapVars, slabVars, file, todo, recVars, budget, spent, histVars>>

ReadCleared(t) ==
    /\ task[t].pc = "forget"
    /\ ReadDirty(t, "clear")
    /\ UNCHANGED <<cell, mapVars, slabVars, logVars, todo, recVars, budget, spent, histVars>>

LandCleared(t) ==
    /\ task[t].pc = "clear"
    /\ file' = Landed(task[t].set)
    /\ keep' = [s \in Stripe |-> [i \in Member |-> LET base == task[t].base[s][i] IN
                                                   IF Blank \in base THEN keep[s][i] ELSE keep[s][i] \cap base]]
    /\ End(t)
    /\ UNCHANGED <<cell, mapVars, slabVars, dirty, todo, recVars, budget, spent, ticket, allow, holed, dropped>>
    /\ Overtaken

\* parity_stripe: what was on slabs that are gone or not trusted is written to
\* others, members first, and the parity again from all of them.  The slots keep their
\* generation, and those they replace are freed once the record is written.
Rebuilt(s) ==
    {to \in [Leg -> Slab \cup {None}] :
        /\ \A i \in Leg :
              IF leg[s][i] # None /\ Trusted(leg[s][i]) THEN to[i] = leg[s][i]
              ELSE IF leg[s][i] = None /\ (i \in Member \/ \A j \in Member : leg[s][j] = None) THEN to[i] = None
              ELSE to[i] \in Apart(s, i) \ dead \/ (Apart(s, i) \ dead = {} /\ to[i] = leg[s][i])
        /\ \A i, j \in Leg : i # j /\ to[i] # None => to[i] # to[j]}

Resync(s) ==
    /\ Serving /\ Free(s)
    /\ Spend("resyncs")
    /\ Noticed(s, Leg) \cap attached \subseteq failed /\ Recoverable(s)
    /\ \E i \in Leg : leg[s][i] # None /\ ~ Trusted(leg[s][i])
    /\ \E to \in Rebuilt(s) :
          /\ leg' = [leg EXCEPT ![s] = to]
          /\ cell' = [k \in Slab |-> [cell[k] EXCEPT ![s] = [i \in Leg |->
                         IF to[i] = k /\ leg[s][i] # k
                         THEN Put(@[i], IF i = P THEN Xor(Assemble(s)) ELSE Assemble(s)[i])
                         ELSE @[i]]]]
          /\ entry' = [k \in Slab |-> [entry[k] EXCEPT ![s] = [i \in Leg |->
                         IF to[i] = k /\ leg[s][i] # k THEN Max({Generation(s, i), 1}) ELSE @[i]]]]
          /\ owed' = owed \cup {<<leg[s][i], s, i>> : i \in {j \in Leg : leg[s][j] \notin {to[j], None}}}
    /\ UNCHANGED <<disk, table, slabVars, logVars, task, todo, rec, snap, budget, histVars>>

SlabDies(k) ==
    /\ Spend("deaths")
    /\ dead' = dead \cup {k} /\ k \notin dead
    /\ UNCHANGED <<cell, mapVars, attached, failed, logVars, task, todo, recVars, budget, histVars>>

-----------------------------------------------------------------------------
(* The record                                                               *)

\* persist: any operation of the manager writes the records of all volumes; one that
\* follows a resync frees what it replaced once they are written.
TakeRecord ==
    /\ Serving /\ snap = None
    /\ Spend("records")
    /\ \E own \in {owed, {}} : snap' = [leg |-> leg, failed |-> failed, slabs |-> attached, owed |-> own]
    /\ UNCHANGED <<cell, mapVars, slabVars, logVars, task, todo, rec, owed, budget, histVars>>

\* sync_then_write: every slab that is there is synced first, trusted or not, and an
\* error of one keeps the record from being written.
PersistSync(k) ==
    /\ snap # None /\ k \in snap.slabs
    /\ IF k \in dead
       THEN snap' = None /\ owed' = owed \ snap.owed /\ UNCHANGED <<cell, disk, table>>
       ELSE snap' = [snap EXCEPT !.slabs = @ \ {k}] /\ Sync(k) /\ UNCHANGED owed
    /\ UNCHANGED <<leg, entry, slabVars, logVars, task, todo, rec, budget, spent, ticket, allow, keep, holed, dropped>>
    /\ Excuse

WriteRecord ==
    /\ snap # None /\ snap.slabs = {}
    /\ rec' = [leg |-> snap.leg, failed |-> snap.failed]
    /\ snap' = None
    /\ entry' = [k \in Slab |-> [s \in Stripe |-> [i \in Leg |->
                    IF k \in attached /\ <<k, s, i>> \in snap.owed THEN 0 ELSE entry[k][s][i]]]]
    /\ owed' = owed \ snap.owed
    /\ UNCHANGED <<cell, leg, disk, table, slabVars, logVars, task, todo, budget, spent, histVars>>

-----------------------------------------------------------------------------
(* Power cut and start                                                      *)

\* rebuild_from_view: the slabs of `up` that name a slot for the leg in the tables
\* found; for a member, those of the highest generation.
Named(s, i, found, up) ==
    LET seen == {k \in up : found[k][s][i] > 0} IN
    IF i = P THEN seen ELSE {k \in seen : \A x \in seen : found[x][s][i] <= found[k][s][i]}

\* reconcile_record: a member is where the tables say, and where they leave a choice,
\* where the record says.  A group is where the record says, if it has the group at all.
Restored(s, i, found, up) ==
    LET named == Named(s, i, found, up)
        r == rec.leg[s][i]
    IN  IF r # None /\ (i = P \/ r \in named) THEN {r} ELSE IF named = {} THEN {None} ELSE named

\* The maps a start may come up with.
Maps(found, up) ==
    LET legs == Stripe \X Leg
        open == {x \in legs : Cardinality(Restored(x[1], x[2], found, up)) > 1}
        picks == {f \in [open -> Slab] : \A x \in open : f[x] \in Restored(x[1], x[2], found, up)}
    IN  {[s \in Stripe |-> [i \in Leg |-> IF <<s, i>> \in open THEN f[<<s, i>>]
                                         ELSE CHOOSE k \in Restored(s, i, found, up) : TRUE]] : f \in picks}

\* Slots freed that a cut may find taken still.
Loose == {x \in Slab \X Stripe \X Leg : entry[x[1]][x[2]][x[3]] = 0 /\ table[x[1]][x[2]][x[3]] > 0}

\* The record's group is not the stripe's any more.
Regrouped(s) == LET r == rec.leg[s][P] IN r # None /\ (r # disk[s][P] \/ entry[r][s][P] = 0)

\* The tables found name a slot the leg has left, and nothing tells it from its own.
Outlived(s, i) ==
    \E k \in attached' \ {disk[s][i]} :
        /\ entry'[k][s][i] > 0
        /\ \/ i = P /\ rec.leg[s][P] = None
           \/ i \in Member /\ ~ (disk[s][i] \in attached' /\ entry'[k][s][i] < entry'[disk[s][i]][s][i])

\* History.  What a start does to a stripe that it should not, each a disagreement of
\* the code with its documents (README): a slab is missing and its members are unmapped,
\* or its group is forgotten; a slab marked failed since the last record is trusted
\* again; the record's group is an old one; the tables name a slot the stripe has left
\* beside its own or instead of it.
SetBack(s) ==
    \/ attached' # Slab /\ \E i \in Member : leg'[s][i] # leg[s][i]
    \/ disk[s][P] \notin attached' \cup {None} /\ rec.leg[s][P] = None
    \/ \E i \in Leg : leg'[s][i] \in failed \ rec.failed
    \/ Regrouped(s)
    \/ \E i \in Leg : Outlived(s, i)

\* restore: the tables are read, the record is reconciled with them, and its failed set
\* is the volume's.  A member whose slab is not there loses its mapping, a parity leg
\* in the record does not.  The log is loaded.  (A group whose slot was freed may share
\* it with any leg of the volume by then: from here on nothing is said of any.)
PowerCut(absent) ==
    /\ spent["cuts"] < budget["cuts"] /\ spent["absences"] + Cardinality(absent) <= budget["absences"]
    /\ spent' = [spent EXCEPT !["cuts"] = @ + 1, !["absences"] = @ + Cardinality(absent)]
    /\ attached' = Slab \ (absent \cup dead)
    /\ \E gone \in SUBSET Loose :
          entry' = [k \in Slab |-> [s \in Stripe |-> [i \in Leg |->
                       IF <<k, s, i>> \in gone THEN 0 ELSE table[k][s][i]]]]
    /\ table' = entry'
    /\ leg' \in Maps(entry', attached')
    /\ disk' = leg'
    /\ failed' = rec.failed
    /\ snap' = None /\ owed' = {}
    /\ dropped' = IF \E s \in Stripe : Regrouped(s) /\ entry[rec.leg[s][P]][s][P] = 0 THEN Stripe
                  ELSE dropped \cup {s \in Stripe : SetBack(s)}
    /\ task' = [t \in Task |-> Idle]
    /\ allow' = keep
    /\ unlogged' = {}
    /\ UNCHANGED <<dead, rec, budget, ticket, keep>>
    /\ \E contents \in Cut([x \in Slab \X Stripe \X Leg |-> cell[x[1]][x[2]][x[3]]]), marks \in file.may :
          /\ cell' = [k \in Slab |-> [s \in Stripe |-> [i \in Leg |-> Durable(contents[<<k, s, i>>])]]]
          /\ file' = Durable(marks)
          /\ dirty' = marks
          /\ todo' = marks
          /\ holed' = holed \cup (unlogged \ marks)

\* verify_stripes: the parity of each stripe the log named, from its members.  With a
\* member lost there is no telling what it held; where the parity's slab is not
\* attached the parity stays as it was, its slab trusted, and the mark goes all the same.
Verify(s) ==
    /\ ~ Serving /\ s \in todo
    /\ todo' = todo \ {s}
    /\ failed' = failed \cup Noticed(s, IF Lost(s) = {} THEN Member ELSE Leg)
    /\ cell' = IF leg[s][P] # None /\ Answers(leg[s][P]) /\ Recoverable(s)
               THEN [cell EXCEPT ![leg[s][P]][s][P] = Put(@, Xor(Assemble(s)))]
               ELSE cell
    /\ holed' = IF Lost(s) = {} /\ leg[s][P] \notin Slab \ (attached \cup failed) THEN holed ELSE holed \cup {s}
    /\ UNCHANGED <<mapVars, attached, dead, logVars, task, recVars, budget, spent, ticket, allow, keep, unlogged, dropped>>

\* The log is cleared, with the parity in the slabs' caches, and the volume served.
Verified ==
    /\ todo = {}
    /\ todo' = None
    /\ dirty' = {}
    /\ file' = Landed({})
    /\ unlogged' = {s \in Stripe : ~ Settled(s)}
    /\ UNCHANGED <<cell, mapVars, slabVars, task, recVars, budget, spent, ticket, allow, keep, holed, dropped>>

-----------------------------------------------------------------------------
\* A stripe that is written, flushed and in the record, or one that never was.
Laid == {to \in [Leg -> Slab] : \A i, j \in Leg : i # j => to[i] # to[j]}

Init ==
    /\ \E full \in SUBSET Stripe, to \in Laid :
          /\ leg = [s \in Stripe |-> IF s \in full THEN to ELSE [i \in Leg |-> None]]
          /\ allow = [s \in Stripe |-> [i \in Member |-> {IF s \in full THEN {i} ELSE Blank}]]
          /\ cell = [k \in Slab |-> [s \in Stripe |-> [i \in Leg |->
                        Durable(IF s \notin full \/ to[i] # k THEN Blank ELSE IF i = P THEN Member ELSE {i})]]]
    /\ disk = leg
    /\ entry = [k \in Slab |-> [s \in Stripe |-> [i \in Leg |-> IF leg[s][i] = k THEN 1 ELSE 0]]]
    /\ table = entry
    /\ rec = [leg |-> leg, failed |-> {}]
    /\ snap = None /\ owed = {}
    /\ keep = allow
    /\ attached = Slab /\ failed = {} /\ dead = {}
    /\ dirty = {} /\ file = Durable({})
    /\ task = [t \in Task |-> Idle]
    /\ todo = None
    /\ budget \in Budgets
    /\ spent = [e \in Event |-> 0]
    /\ ticket = Width
    /\ unlogged = {} /\ holed = {} /\ dropped = {}

Next ==
    \/ \E t \in Task :
         \/ \E s \in Stripe, i \in Member : BeginWrite(t, s, i) \/ BeginDiscard(t, s, i)
         \/ ReadMarks(t) \/ LandMarks(t)
         \/ WriteData(t) \/ DiesInWrite(t) \/ Unmap(t)
         \/ UpdateParity(t) \/ NewGroup(t) \/ DropGroup(t)
         \/ BeginFlush(t) \/ FlushFails(t) \/ ClearMarks(t) \/ ReadCleared(t) \/ LandCleared(t)
         \/ \E k \in Slab : SyncSlab(t, k)
    \/ \E s \in Stripe : Resync(s) \/ Verify(s)
    \/ \E k \in Slab : SyncByOther(k) \/ SlabDies(k) \/ PersistSync(k)
    \/ TakeRecord \/ WriteRecord
    \/ \E n \in 0..1 : \E absent \in kSubset(n, Slab) : PowerCut(absent)
    \/ Verified

Spec == Init /\ [][Next]_vars

-----------------------------------------------------------------------------
(* Properties                                                               *)

\* The state is as the code's types and locks have it: one request at a time has a
\* stripe (thin.rs shard), and what reads see is what the media may hold.
TypeOK ==
    /\ \A k \in Slab, s \in Stripe, i \in Leg : LET c == cell[k][s][i] IN c.cur \in c.may /\ c.cur \subseteq 1..ticket
    /\ leg \in [Stripe -> [Leg -> Slab \cup {None}]] /\ disk \in [Stripe -> [Leg -> Slab \cup {None}]]
    /\ attached \subseteq Slab /\ failed \subseteq Slab /\ dead \subseteq Slab
    /\ dirty \subseteq Stripe /\ file.cur \in file.may
    /\ \A s \in Stripe : Cardinality({t \in Task : Holds(t, s)}) <= 1

\* Two legs of a stripe are never on one slab, whatever was replaced or rebuilt:
\* the loss of a slab takes one leg of each stripe (allocate_apart).
LegsApart == \A s \in Stripe \ dropped : \A i, j \in Leg : i # j /\ leg[s][i] # None => leg[s][i] # leg[s][j]

\* A stripe that is served and not being written, that no cut came upon unlogged
\* and no start dropped a member of.
Intact(s) == Serving /\ Free(s) /\ s \notin holed \cup dropped

\* As long as the stripe can be put together, every member reads as the last write
\* that was answered, or as one that was not; after a cut as what was flushed, or
\* as a write since.  A write to one member, a slab's death, a resync or a cut never
\* changes what another member reads as.
ReadsAnswered ==
    \A s \in Stripe : Intact(s) /\ Recoverable(s) => \A i \in Member : Assemble(s)[i] \in allow[s][i]

\* The parity of a stripe with every leg there is the XOR of its members: any one
\* leg may be lost.  After a cut this rests on the log: "On restart, the stripes left
\* in the log are the only ones whose parity has to be recomputed" (stripelog.rs).
ParityTrue ==
    \A s \in Stripe : /\ Intact(s)
                      /\ \A i \in Leg : leg[s][i] # None => Answers(leg[s][i])
                      /\ leg[s][P] # None
        => cell[leg[s][P]][s][P].cur = Xor(Assemble(s))

\* A volume whose stripes have all their legs can take the loss of one (thin.rs,
\* VolumeHealth::margin: "the parity count when healthy"): with one slab absent at
\* a start every member still reads as it did.  Not so: the start unmaps the members
\* on the slab (mod.rs reconcile_record), and they read as zeros.
MarginHolds ==
    Serving /\ Cardinality(Slab \ attached) <= 1 =>
        \A s \in Stripe \ holed : Free(s) => \A i \in Member : Assemble(s)[i] \in allow[s][i]
=============================================================================
