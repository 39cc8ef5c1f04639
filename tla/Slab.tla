-------------------------------- MODULE Slab --------------------------------
(* drive/slab.rs, drive/slottable.rs, volume/erase.rs: one slab's slots and *)
(* their table on a drive with a write-back cache.                          *)
(*                                                                          *)
(* Three kinds of task meet here.  Owners (volumes) allocate, fill, share   *)
(* and free slots under the registry's write lock; the lock is held across  *)
(* a table write, so that write is a step of its own (`writer`).  Syncers   *)
(* make things durable and hold the registry only to read the entries they  *)
(* publish.  The eraser overwrites slots that must not be readable again.   *)
(*                                                                          *)
(* A slot's data is the number of the tenancy that filled it, 0 for zeroes: *)
(* tenancies are numbered as slots are taken, where the code has a volume,  *)
(* an extent and a generation.  The table fits one page of the page cache.  *)
EXTENDS Integers, FiniteSetsExt, WriteCache

CONSTANTS NSlots,      \* committed slots of the slab
          Syncer,      \* tasks that call sync (a volume's FLUSH, a persist)
          None,        \* no syncer
          Retries,     \* unlocked publish attempts before taking the registry (3 in the code)
          Setups       \* the configurations, faults and bounds to consider

Slot == 1..NSlots

\* erase: is an erase level set; errors: may the device refuse a flush or a
\* table write; drops: may a caller's future be dropped at an await.  The
\* numbers bound the slots taken, a slot's share count, the calls of sync and
\* the power cuts.
Setup == [erase : BOOLEAN, errors : BOOLEAN, drops : BOOLEAN,
          tenancies : Nat, refs : Nat \ {0}, asks : Nat, cuts : Nat]

ASSUME BoundsAssumption == NSlots \in Nat /\ Retries \in Nat
ASSUME SetupsAssumption == Setups \subseteq Setup
ASSUME NoneAssumption == None \notin Syncer

VARIABLES
    free,        \* free_bitmap
    unpublished, ready, freeing, released, erasing, erasing_now,   \* Pending
    entries,     \* Pending::entries: what memory holds over the table
    page,        \* the table's page cache
    writer,      \* the table write the holder of the registry write lock waits for
    table, data, \* the device: table entries, slot contents
    asked, done, running, pc, ticket, covers,   \* SyncGate and its callers
    took,        \* the running sync's local `freeing`
    snap, newly, \* the running sync's entries being published, and which were unpublished
    tries,       \* its unlocked attempts so far
    overwritten, \* slots of erasing_now whose passes are done
    cuts, tenancies,
    setup,       \* the configuration and the bounds of this behaviour
    \* ghosts
    owner,       \* the tenancy a slot is allocated to, 0 for none
    phase,       \* of an owned slot: "taken", "filled", then "mapped" in an extent map;
                 \* "unsure" when a write of its count failed and its caller was told so,
                 \* "orphan" when a cut brought back an entry its owner had freed
    gaveBack,    \* tenancies freed
    must,        \* per syncer: slots its sync has to make durable
    result,      \* per syncer: the last answer
    early,       \* slots released while the table still named an earlier tenancy
    late,        \* slots filled after the running sync's first flush
    lost,        \* slots a power cut found early or late
    mustErase,   \* tenancies retired for erasure, until a power cut brings a Free entry back
    dropped      \* a sync was dropped since the slab was opened

pendingVars == <<unpublished, ready, freeing, released, erasing, erasing_now, entries>>
gateVars == <<asked, done, running, pc, ticket, covers>>
syncVars == <<took, snap, newly, tries>>
deviceVars == <<table, data>>
windowVars == <<early, late, lost>>
ghostVars == <<owner, phase, gaveBack, must, result, windowVars, mustErase>>
countVars == <<cuts, tenancies>>
slabVars == <<free, pendingVars, page, writer, deviceVars, gateVars, syncVars, overwritten,
              countVars, ghostVars>>
vars == <<slabVars, setup, dropped>>

Erase == setup.erase
Errors == setup.errors
Drops == setup.drops
MaxTenancy == setup.tenancies
MaxRefs == setup.refs
MaxAsks == setup.asks
MaxCuts == setup.cuts

-----------------------------------------------------------------------------
(* Slot entries. *)

Free == [state |-> "Free", tenancy |-> 0, refs |-> 0]
Allocated(t, n) == [state |-> "Allocated", tenancy |-> t, refs |-> n]
Erasing(t) == [state |-> "Erasing", tenancy |-> t, refs |-> 0]

Entry == {Free} \cup {Allocated(t, n) : t \in 1..MaxTenancy, n \in 1..MaxRefs}
               \cup {Erasing(t) : t \in 1..MaxTenancy}

\* Memory holds nothing for the slot: its entry is read from the table.
Absent == [state |-> "Absent", tenancy |-> 0, refs |-> 0]

NoWriter == [kind |-> "none", slot |-> 0, bytes |-> Free]

\* slot_now: changed in memory, else as the table has it.
SlotNow(s) == IF entries[s] /= Absent THEN entries[s] ELSE page[s]

\* is_owned, which every change of a slot's count asks first.
Owned(s) == SlotNow(s).state = "Allocated"

\* The table's page lock, held by a publish between its check and its write.
PageHeld == running /= None /\ pc[running] = "tabling"

RegistryFree == writer = NoWriter

\* Where a call of sync is; the active places are those of the gate's holder.
Active == {"locked", "flushing", "publishing", "checking", "tabling", "written",
           "flushing again", "published"}
Pc == Active \cup {"idle", "waiting"}

InMap(s) == phase[s] \in {"mapped", "unsure"}

\* A change of a slot's entry: no sync asked for earlier answers for it.
Touch(S) == must' = [p \in Syncer |-> must[p] \ S]

\* Slots that have been released although the table names someone who freed it.
Stale(S) == {s \in S : \E e \in {table[s].cur, page[s]} :
                          e.state /= "Free" /\ e.tenancy /= owner[s]}

\* A table write sends the whole page.
WritePage(bytes) == [s \in Slot |-> Put(table[s], bytes[s])]

\* A flush of the device, after which `freed` are taken to be reusable.
FlushDevice(freed) == /\ table' = FlushAll(table)
                      /\ data' = FlushAll(data)
                      /\ early' = Stale(early \cup freed)
                      /\ late' = {}
                      /\ lost' = lost

Init ==
    /\ free = Slot
    /\ unpublished = {} /\ ready = {} /\ freeing = {} /\ released = {}
    /\ erasing = {} /\ erasing_now = {}
    /\ entries = [s \in Slot |-> Absent]
    /\ page = [s \in Slot |-> Free]
    /\ writer = NoWriter
    /\ table = [s \in Slot |-> Durable(Free)]
    /\ data = [s \in Slot |-> Durable(0)]
    /\ asked = 0 /\ done = 0 /\ running = None
    /\ pc = [p \in Syncer |-> "idle"]
    /\ ticket = [p \in Syncer |-> 0]
    /\ covers = 0
    /\ took = {} /\ snap = [s \in {} |-> Free] /\ newly = {} /\ tries = 0
    /\ overwritten = {}
    /\ cuts = 0 /\ tenancies = 0
    /\ owner = [s \in Slot |-> 0]
    /\ phase = [s \in Slot |-> "none"]
    /\ gaveBack = {}
    /\ must = [p \in Syncer |-> {}]
    /\ result = [p \in Syncer |-> "idle"]
    /\ early = {} /\ late = {} /\ lost = {} /\ mustErase = {}
    /\ setup \in Setups
    /\ dropped = FALSE

-----------------------------------------------------------------------------
(* Owners, under the registry's write lock. *)

\* take_slot: the first free slot, in memory only.
TakeSlot(from) ==
    LET s == Min(from)
        t == tenancies + 1
    IN  /\ free' = from \ {s}
        /\ unpublished' = unpublished \cup {s}
        /\ entries' = [entries EXCEPT ![s] = Allocated(t, 1)]
        /\ tenancies' = t
        /\ owner' = [owner EXCEPT ![s] = t]
        /\ phase' = [phase EXCEPT ![s] = "taken"]
        /\ Touch({s})
        /\ UNCHANGED <<ready, erasing, erasing_now, page, writer, gateVars, syncVars,
                       overwritten, cuts, gaveBack, result>>

\* Mutant: the released slots are absorbed and stay queued as well.
AllocateUnabsorbed ==
    /\ RegistryFree
    /\ tenancies < MaxTenancy
    /\ free \cup released /= {}
    /\ TakeSlot(free \cup released)
    /\ UNCHANGED <<released, freeing, deviceVars, windowVars, mustErase>>

\* allocate_deferred, with a slot free or released: absorb_released, then take.
AllocateDeferred ==
    /\ RegistryFree
    /\ tenancies < MaxTenancy
    /\ free \cup released /= {}
    /\ TakeSlot(free \cup released)
    /\ released' = {}
    /\ UNCHANGED <<freeing, deviceVars, windowVars, mustErase>>

\* take_slot_or_flush: only slots whose free is not durable are left; flush
\* the device, then take one.  (One step.  An error of this flush changes nothing; a
\* caller dropped at it, which would lose the slots taken out, is left out.)
AllocateFlushing ==
    /\ RegistryFree
    /\ tenancies < MaxTenancy
    /\ free \cup released = {}
    /\ freeing /= {}
    /\ FlushDevice(freeing)
    /\ TakeSlot(freeing)
    /\ freeing' = {}
    /\ released' = {}
    /\ UNCHANGED mustErase

\* The owner writes the data of the slot it took, with no lock held...
Fill(s) ==
    /\ phase[s] = "taken"
    /\ data' = [data EXCEPT ![s] = Put(@, owner[s])]
    /\ phase' = [phase EXCEPT ![s] = "filled"]
    /\ late' = IF running /= None /\ pc[running] \in {"publishing", "checking"}
              THEN late \cup {s} ELSE late
    /\ UNCHANGED <<free, pendingVars, page, writer, table, gateVars, syncVars, overwritten,
                   countVars, owner, gaveBack, must, result, early, lost, mustErase>>

\* ...and then confirms it, and its extent map names it.
Confirm(s) ==
    /\ RegistryFree
    /\ phase[s] = "filled"
    /\ ready' = ready \cup (unpublished \cap {s})
    /\ phase' = [phase EXCEPT ![s] = "mapped"]
    /\ UNCHANGED <<free, unpublished, freeing, released, erasing, erasing_now, entries, page,
                   writer, deviceVars, gateVars, syncVars, overwritten, countVars, owner,
                   gaveBack, must, result, windowVars, mustErase>>

\* inc_ref_batch: in memory, written by the next sync.  Only a slot in a
\* map can be cloned.
IncRefBatch(s) ==
    /\ RegistryFree
    /\ InMap(s)
    /\ Owned(s)
    /\ SlotNow(s).refs < MaxRefs
    /\ entries' = [entries EXCEPT ![s] = [SlotNow(s) EXCEPT !.refs = @ + 1]]
    /\ ready' = ready \cup {s}
    /\ Touch({s})
    /\ phase' = [phase EXCEPT ![s] = "mapped"]
    /\ UNCHANGED <<free, unpublished, freeing, released, erasing, erasing_now, page, writer,
                   deviceVars, gateVars, syncVars, overwritten, countVars, owner,
                   gaveBack, result, windowVars, mustErase>>

\* inc_ref: set in memory, and the entry written at once.
IncRef(s) ==
    /\ RegistryFree
    /\ InMap(s)
    /\ Owned(s)
    /\ SlotNow(s).refs < MaxRefs
    /\ LET e == [SlotNow(s) EXCEPT !.refs = @ + 1]
       IN  /\ entries' = [entries EXCEPT ![s] = e]
           /\ writer' = [kind |-> "count", slot |-> s,
                         bytes |-> IF s \in unpublished THEN Free ELSE e]
    /\ Touch({s})
    /\ UNCHANGED <<free, unpublished, ready, freeing, released, erasing, erasing_now, page,
                   deviceVars, gateVars, syncVars, overwritten, countVars, owner, phase,
                   gaveBack, result, windowVars, mustErase>>

\* Mutant: the lowered count is not queued for the next sync.
DecRefUnqueued(s) ==
    /\ RegistryFree
    /\ InMap(s)
    /\ Owned(s)
    /\ SlotNow(s).refs > 1
    /\ entries' = [entries EXCEPT ![s] = [SlotNow(s) EXCEPT !.refs = @ - 1]]
    /\ Touch({s})
    /\ phase' = [phase EXCEPT ![s] = "mapped"]
    /\ UNCHANGED <<free, ready, unpublished, freeing, released, erasing, erasing_now, page, writer,
                   deviceVars, gateVars, syncVars, overwritten, countVars, owner,
                   gaveBack, result, windowVars, mustErase>>

\* dec_ref with references left: written by the next sync.
DecRef(s) ==
    /\ RegistryFree
    /\ InMap(s)
    /\ Owned(s)
    /\ SlotNow(s).refs > 1
    /\ entries' = [entries EXCEPT ![s] = [SlotNow(s) EXCEPT !.refs = @ - 1]]
    /\ ready' = ready \cup {s}
    /\ Touch({s})
    /\ phase' = [phase EXCEPT ![s] = "mapped"]
    /\ UNCHANGED <<free, unpublished, freeing, released, erasing, erasing_now, page, writer,
                   deviceVars, gateVars, syncVars, overwritten, countVars, owner,
                   gaveBack, result, windowVars, mustErase>>

\* What every free does to the ghosts.
GiveBack(s) ==
    /\ owner' = [owner EXCEPT ![s] = 0]
    /\ phase' = [phase EXCEPT ![s] = "none"]
    /\ gaveBack' = gaveBack \cup {owner[s]}
    /\ Touch({s})
    /\ UNCHANGED result

LastReference(s) == owner[s] /= 0 /\ Owned(s) /\ SlotNow(s).refs = 1

\* free of a slot never published: the device already says free, so it goes
\* straight back to the bitmap, and its range is discarded.
RetireUnpublished(s) ==
    /\ RegistryFree
    /\ ~Erase
    /\ LastReference(s)
    /\ s \in unpublished
    /\ free' = free \cup {s}
    /\ unpublished' = unpublished \ {s}
    /\ ready' = ready \ {s}
    /\ entries' = [entries EXCEPT ![s] = Absent]
    /\ \E cell \in Discarded(data[s]) : data' = [data EXCEPT ![s] = cell]
    /\ GiveBack(s)
    /\ early' = IF table[s].may = {Free} THEN early ELSE early \cup {s}
    /\ UNCHANGED <<late, lost>>
    /\ UNCHANGED <<freeing, released, erasing, erasing_now, page, writer, table, gateVars,
                   syncVars, overwritten, countVars, mustErase>>

\* Mutant: a freed slot is reusable before its free entry is durable.
RetireAtOnce(s) ==
    /\ RegistryFree
    /\ ~Erase
    /\ LastReference(s)
    /\ s \notin unpublished
    /\ ready' = ready \ {s}
    /\ entries' = [entries EXCEPT ![s] = Free]
    /\ free' = free \cup {s}
    /\ writer' = [kind |-> "free", slot |-> s, bytes |-> Free]
    /\ GiveBack(s)
    /\ UNCHANGED <<freeing, unpublished, released, erasing, erasing_now, page, deviceVars,
                   gateVars, syncVars, overwritten, countVars, windowVars, mustErase>>

\* free of a published slot: queued in `freeing`, its free entry about to be
\* written.
RetirePublished(s) ==
    /\ RegistryFree
    /\ ~Erase
    /\ LastReference(s)
    /\ s \notin unpublished
    /\ ready' = ready \ {s}
    /\ entries' = [entries EXCEPT ![s] = Free]
    /\ freeing' = freeing \cup {s}
    /\ writer' = [kind |-> "free", slot |-> s, bytes |-> Free]
    /\ GiveBack(s)
    /\ UNCHANGED <<free, unpublished, released, erasing, erasing_now, page, deviceVars,
                   gateVars, syncVars, overwritten, countVars, windowVars, mustErase>>

\* free with an erase level: marked Erasing, published or not, and queued.
RetireErasing(s) ==
    /\ RegistryFree
    /\ Erase
    /\ LastReference(s)
    /\ ready' = ready \ {s}
    /\ unpublished' = unpublished \ {s}
    /\ entries' = [entries EXCEPT ![s] = Erasing(owner[s])]
    /\ erasing' = erasing \cup {s}
    /\ writer' = [kind |-> "erase", slot |-> s, bytes |-> Erasing(owner[s])]
    /\ mustErase' = mustErase \cup {owner[s]}
    /\ GiveBack(s)
    /\ UNCHANGED <<free, freeing, released, erasing_now, page, deviceVars, gateVars, syncVars,
                   overwritten, countVars, windowVars>>

\* persist_slots: the entry reaches the table, memory need not hold it any
\* more, and a freed slot's range is discarded.
Persist ==
    /\ writer /= NoWriter
    /\ ~PageHeld
    /\ LET s == writer.slot
       IN  /\ page' = [page EXCEPT ![s] = writer.bytes]
           /\ table' = WritePage(page')
           /\ entries' = IF s \in unpublished THEN entries ELSE [entries EXCEPT ![s] = Absent]
           /\ \E cell \in IF writer.kind = "free" THEN Discarded(data[s]) ELSE {data[s]} :
                  data' = [data EXCEPT ![s] = cell]
    /\ writer' = NoWriter
    /\ UNCHANGED <<free, unpublished, ready, freeing, released, erasing, erasing_now, gateVars,
                   syncVars, overwritten, countVars, ghostVars>>

\* The device refuses the table write: the operation answers an error with
\* what it changed in memory in place.
PersistError ==
    /\ Errors
    /\ writer /= NoWriter
    /\ ~PageHeld
    /\ writer' = NoWriter
    /\ phase' = IF writer.kind = "count" THEN [phase EXCEPT ![writer.slot] = "unsure"] ELSE phase
    /\ UNCHANGED <<free, pendingVars, page, deviceVars, gateVars, syncVars, overwritten, countVars,
                   owner, gaveBack, must, result, windowVars, mustErase>>

OwnerStep ==
    \/ AllocateDeferred
    \/ AllocateFlushing
    \/ \E s \in Slot : \/ Fill(s) \/ Confirm(s) \/ IncRefBatch(s) \/ IncRef(s) \/ DecRef(s)
                       \/ RetireUnpublished(s) \/ RetirePublished(s) \/ RetireErasing(s)
    \/ Persist
    \/ PersistError

-----------------------------------------------------------------------------
(* Syncers: SlabSyncHandle::run and sync_registered. *)

\* Everything a volume has written when it asks has to be durable when it is
\* answered; an operation still waiting for its table write is not part of it.
Ask(p) ==
    /\ pc[p] = "idle"
    /\ asked < MaxAsks
    /\ asked' = asked + 1
    /\ ticket' = [ticket EXCEPT ![p] = asked + 1]
    /\ pc' = [pc EXCEPT ![p] = "waiting"]
    /\ must' = [must EXCEPT ![p] = {s \in Slot : phase[s] = "mapped" /\ s /= writer.slot}]
    /\ result' = [result EXCEPT ![p] = "pending"]
    /\ UNCHANGED <<free, pendingVars, page, writer, deviceVars, done, running, covers, syncVars,
                   overwritten, countVars, owner, phase, gaveBack, windowVars, mustErase>>

Lock(p) ==
    /\ pc[p] = "waiting"
    /\ running = None
    /\ running' = p
    /\ pc' = [pc EXCEPT ![p] = "locked"]
    /\ UNCHANGED <<free, pendingVars, page, writer, deviceVars, asked, done, ticket, covers,
                   syncVars, overwritten, countVars, ghostVars>>

\* The call returns, or its future is dropped: its locals and guards go.
Leave(p, answer) ==
    /\ pc' = [pc EXCEPT ![p] = "idle"]
    /\ result' = [result EXCEPT ![p] = answer]
    /\ must' = [must EXCEPT ![p] = IF answer = "ok" THEN @ ELSE {}]
    /\ ticket' = [ticket EXCEPT ![p] = 0]
    /\ running' = IF running = p THEN None ELSE running
    /\ covers' = IF running = p THEN 0 ELSE covers
    /\ took' = IF running = p THEN {} ELSE took
    /\ snap' = IF running = p THEN [s \in {} |-> Free] ELSE snap
    /\ newly' = IF running = p THEN {} ELSE newly
    /\ tries' = IF running = p THEN 0 ELSE tries
    /\ UNCHANGED <<asked, free, writer, overwritten, countVars, owner, phase, gaveBack>>

\* A sync that began after this call finished while it waited.
Covered(p) ==
    /\ pc[p] = "locked"
    /\ done >= ticket[p]
    /\ Leave(p, "ok")
    /\ UNCHANGED <<pendingVars, page, deviceVars, done, windowVars, mustErase>>

\* covers = asked; the slots being freed are this sync's to release.
TakeFreeing(p) ==
    /\ pc[p] = "locked"
    /\ done < ticket[p]
    /\ covers' = asked
    /\ took' = freeing
    /\ freeing' = {}
    /\ pc' = [pc EXCEPT ![p] = "flushing"]
    /\ UNCHANGED <<free, unpublished, ready, released, erasing, erasing_now, entries, page,
                   writer, deviceVars, asked, done, running, ticket, snap, newly, tries,
                   overwritten, countVars, ghostVars>>

\* The first flush: data of confirmed slots is durable, and so, the code
\* holds, are the free entries.
FirstFlush(p) ==
    /\ pc[p] = "flushing"
    /\ FlushDevice(took)
    /\ released' = released \cup took
    /\ took' = {}
    /\ pc' = [pc EXCEPT ![p] = "publishing"]
    /\ UNCHANGED <<free, unpublished, ready, freeing, erasing, erasing_now, entries, page,
                   writer, asked, done, running, ticket, covers, snap, newly, tries,
                   overwritten, countVars, owner, phase, gaveBack, must, result, mustErase>>

\* Mutant: a failed flush forgets the slots it took.
FirstFlushErrorLoses(p) ==
    /\ Errors
    /\ pc[p] = "flushing"
    /\ Leave(p, "err")
    /\ UNCHANGED <<freeing, unpublished, ready, released, erasing, erasing_now, entries, page,
                   deviceVars, done, windowVars, mustErase>>

FirstFlushError(p) ==
    /\ Errors
    /\ pc[p] = "flushing"
    /\ freeing' = freeing \cup took
    /\ Leave(p, "err")
    /\ UNCHANGED <<unpublished, ready, released, erasing, erasing_now, entries, page,
                   deviceVars, done, windowVars, mustErase>>

\* ready_entries, under the registry's read lock.  An entry memory no longer
\* holds was written since by its own write.
ReadEntries(p) ==
    /\ pc[p] = "publishing"
    /\ RegistryFree
    /\ tries < Retries
    /\ LET held == {s \in ready : entries[s] /= Absent}
       IN  /\ ready' = ready \ {s \in ready : entries[s] = Absent /\ s \notin unpublished}
           /\ snap' = [s \in held |-> entries[s]]
           /\ pc' = [pc EXCEPT ![p] = IF held = {} THEN "published" ELSE "checking"]
    /\ UNCHANGED <<free, unpublished, freeing, released, erasing, erasing_now, entries, page,
                   writer, deviceVars, asked, done, running, ticket, covers, took, newly, tries,
                   overwritten, countVars, ghostVars>>

\* publish_unlocked, under the page lock: is every entry still what memory
\* has, and still waiting?
StillCurrent == \A s \in DOMAIN snap : s \in ready /\ entries[s] = snap[s]

TakeReady(p) ==
    /\ pc[p] = "checking"
    /\ StillCurrent
    /\ ready' = ready \ DOMAIN snap
    /\ newly' = unpublished \cap DOMAIN snap
    /\ unpublished' = unpublished \ DOMAIN snap
    /\ pc' = [pc EXCEPT ![p] = "tabling"]
    /\ UNCHANGED <<free, freeing, released, erasing, erasing_now, entries, page, writer,
                   deviceVars, asked, done, running, ticket, covers, took, snap, tries,
                   overwritten, countVars, ghostVars>>

\* Mutant: attempts are not counted, so the registry is never taken.
ReadAgainForever(p) ==
    /\ pc[p] = "checking"
    /\ ~StillCurrent
    /\ pc' = [pc EXCEPT ![p] = "publishing"]
    /\ UNCHANGED <<free, pendingVars, page, writer, deviceVars, asked, done, running, ticket,
                   covers, syncVars, overwritten, countVars, ghostVars>>

ReadAgain(p) ==
    /\ pc[p] = "checking"
    /\ ~StillCurrent
    /\ tries' = tries + 1
    /\ pc' = [pc EXCEPT ![p] = "publishing"]
    /\ UNCHANGED <<free, pendingVars, page, writer, deviceVars, asked, done, running, ticket,
                   covers, took, snap, newly, overwritten, countVars, ghostVars>>

PageWith(f) == [s \in Slot |-> IF s \in DOMAIN f THEN f[s] ELSE page[s]]

WriteEntries(p) ==
    /\ pc[p] = "tabling"
    /\ page' = PageWith(snap)
    /\ table' = WritePage(page')
    /\ pc' = [pc EXCEPT ![p] = "written"]
    /\ UNCHANGED <<free, pendingVars, writer, data, asked, done, running, ticket, covers,
                   syncVars, overwritten, countVars, ghostVars>>

\* On the device now: memory forgets what did not change meanwhile.
ForgetWritten(p) ==
    /\ pc[p] = "written"
    /\ entries' = [s \in Slot |-> IF s \in DOMAIN snap \ unpublished /\ entries[s] = snap[s]
                                  THEN Absent ELSE entries[s]]
    /\ pc' = [pc EXCEPT ![p] = "flushing again"]
    /\ UNCHANGED <<free, unpublished, ready, freeing, released, erasing, erasing_now, page,
                   writer, deviceVars, asked, done, running, ticket, covers, syncVars,
                   overwritten, countVars, ghostVars>>

\* Entries are written a page at a time, and some pages may be written before
\* one fails.
WriteSome(f, landed) == /\ page' = PageWith([s \in landed |-> f[s]])
                        /\ table' = WritePage(page')

\* The table write failed: what nobody changed meanwhile waits for the next
\* sync, on a page already written or not.
WriteEntriesError(p) ==
    /\ Errors
    /\ pc[p] = "tabling"
    /\ \E landed \in SUBSET DOMAIN snap \ {DOMAIN snap} : WriteSome(snap, landed)
    /\ LET back == {s \in DOMAIN snap : entries[s] = snap[s]}
       IN  /\ ready' = ready \cup back
           /\ unpublished' = unpublished \cup (back \cap newly)
    /\ Leave(p, "err")
    /\ UNCHANGED <<freeing, released, erasing, erasing_now, entries, data, done, windowVars,
                   mustErase>>

\* Too many changes in between: publish_ready with the registry held.  (One step: a
\* caller dropped inside its table write is left out.)
PublishReady(p) ==
    /\ pc[p] = "publishing"
    /\ RegistryFree
    /\ tries >= Retries
    /\ ready' = {}
    /\ unpublished' = unpublished \ ready
    /\ page' = PageWith([s \in ready |-> SlotNow(s)])
    /\ table' = WritePage(page')
    /\ entries' = [s \in Slot |-> IF s \in ready THEN Absent ELSE entries[s]]
    /\ pc' = [pc EXCEPT ![p] = IF ready = {} THEN "published" ELSE "flushing again"]
    /\ UNCHANGED <<free, freeing, released, erasing, erasing_now, writer, data, asked, done,
                   running, ticket, covers, syncVars, overwritten, countVars, ghostVars>>

PublishReadyError(p) ==
    /\ Errors
    /\ pc[p] = "publishing"
    /\ RegistryFree
    /\ tries >= Retries
    /\ ready /= {}
    /\ \E landed \in SUBSET ready \ {ready} : WriteSome([s \in ready |-> SlotNow(s)], landed)
    /\ Leave(p, "err")
    /\ UNCHANGED <<pendingVars, data, done, windowVars, mustErase>>

\* Nothing was written: one flush was enough.
NothingToPublish(p) ==
    /\ pc[p] = "published"
    /\ done' = Max({done, covers})
    /\ Leave(p, "ok")
    /\ UNCHANGED <<pendingVars, page, deviceVars, windowVars, mustErase>>

SecondFlush(p) ==
    /\ pc[p] = "flushing again"
    /\ FlushDevice({})
    /\ done' = Max({done, covers})
    /\ Leave(p, "ok")
    /\ UNCHANGED <<pendingVars, page, mustErase>>

SecondFlushError(p) ==
    /\ Errors
    /\ pc[p] = "flushing again"
    /\ Leave(p, "err")
    /\ UNCHANGED <<pendingVars, page, deviceVars, done, windowVars, mustErase>>

\* The caller's future is dropped at an await (an API request whose client
\* went away): nothing after the await runs.  The table pages written so far
\* are on the device and in the page cache; the one in flight may reach the
\* device, and the page cache does not learn of it.
Drop(p) ==
    /\ Drops
    /\ pc[p] \in {"waiting", "flushing", "publishing", "checking", "tabling", "flushing again"}
    /\ IF pc[p] = "tabling"
       THEN \E landed \in SUBSET DOMAIN snap : \E cached \in SUBSET landed :
                /\ page' = PageWith([s \in cached |-> snap[s]])
                /\ table' = WritePage(PageWith([s \in landed |-> snap[s]]))
       ELSE UNCHANGED <<page, table>>
    /\ Leave(p, "dropped")
    /\ UNCHANGED <<pendingVars, data, done, windowVars, mustErase>>

SyncStep(p) ==
    \/ Covered(p) \/ TakeFreeing(p) \/ FirstFlush(p) \/ ReadEntries(p) \/ TakeReady(p)
    \/ ReadAgain(p) \/ WriteEntries(p) \/ ForgetWritten(p) \/ PublishReady(p)
    \/ NothingToPublish(p) \/ SecondFlush(p)

SyncFault(p) ==
    FirstFlushError(p) \/ WriteEntriesError(p) \/ PublishReadyError(p) \/ SecondFlushError(p)

-----------------------------------------------------------------------------
(* The eraser: volume/erase.rs. *)

\* take_erasing, under the registry's read lock.
TakeErasing(s) ==
    /\ RegistryFree
    /\ s \in erasing
    /\ erasing' = erasing \ {s}
    /\ erasing_now' = erasing_now \cup {s}
    /\ UNCHANGED <<free, unpublished, ready, freeing, released, entries, page, writer,
                   deviceVars, gateVars, syncVars, overwritten, countVars, ghostVars>>

\* Mutant: the passes are not flushed.
EraseOneUnflushed(s) ==
    /\ s \in erasing_now \ overwritten
    /\ data' = [data EXCEPT ![s] = Put(@, 0)]
    /\ overwritten' = overwritten \cup {s}
    /\ UNCHANGED <<windowVars, table, free, pendingVars, page, writer, gateVars, syncVars, countVars, owner, phase,
                   gaveBack, must, result, mustErase>>

\* erase_one: the passes over the slot, each flushed, with no lock held.
EraseOne(s) ==
    /\ s \in erasing_now \ overwritten
    /\ data' = FlushAll([data EXCEPT ![s] = Put(@, 0)])
    /\ table' = FlushAll(table)
    /\ early' = Stale(early) /\ late' = {} /\ lost' = lost
    /\ overwritten' = overwritten \cup {s}
    /\ UNCHANGED <<free, pendingVars, page, writer, gateVars, syncVars, countVars, owner, phase,
                   gaveBack, must, result, mustErase>>

\* finish_erase: freed the ordinary way.
FinishErase(s) ==
    /\ RegistryFree
    /\ s \in overwritten
    /\ erasing_now' = erasing_now \ {s}
    /\ overwritten' = overwritten \ {s}
    /\ entries' = [entries EXCEPT ![s] = Free]
    /\ freeing' = freeing \cup {s}
    /\ writer' = [kind |-> "finish", slot |-> s, bytes |-> Free]
    /\ UNCHANGED <<free, unpublished, ready, released, erasing, page, deviceVars, gateVars,
                   syncVars, countVars, ghostVars>>

\* return_erase: a pass failed; the slot waits again.
ReturnErase(s) ==
    /\ Errors
    /\ RegistryFree
    /\ s \in erasing_now \ overwritten
    /\ erasing_now' = erasing_now \ {s}
    /\ erasing' = erasing \cup {s}
    /\ UNCHANGED <<free, unpublished, ready, freeing, released, entries, page, writer,
                   deviceVars, gateVars, syncVars, overwritten, countVars, ghostVars>>

EraseStep(s) == TakeErasing(s) \/ EraseOne(s) \/ FinishErase(s) \/ ReturnErase(s)

-----------------------------------------------------------------------------
(* A power cut, and Slab::open of what the media kept. *)

\* Mutant: an interrupted erase is not resumed.
OpenForgetsErasing(entry, bytes) ==
    /\ table' = [s \in Slot |-> Durable(entry[s])]
    /\ data' = [s \in Slot |-> Durable(bytes[s])]
    /\ page' = entry
    /\ free' = {s \in Slot : entry[s].state = "Free"}
    /\ erasing' = {}
    /\ owner' = [s \in Slot |-> IF entry[s].state = "Allocated" THEN entry[s].tenancy ELSE 0]
    /\ phase' = [s \in Slot |-> IF entry[s].state /= "Allocated" THEN "none"
                               ELSE IF entry[s].tenancy \in gaveBack THEN "orphan" ELSE "mapped"]

Open(entry, bytes) ==
    /\ table' = [s \in Slot |-> Durable(entry[s])]
    /\ data' = [s \in Slot |-> Durable(bytes[s])]
    /\ page' = entry
    /\ free' = {s \in Slot : entry[s].state = "Free"}
    /\ erasing' = {s \in Slot : entry[s].state = "Erasing"}
    /\ owner' = [s \in Slot |-> IF entry[s].state = "Allocated" THEN entry[s].tenancy ELSE 0]
    /\ phase' = [s \in Slot |-> IF entry[s].state /= "Allocated" THEN "none"
                               ELSE IF entry[s].tenancy \in gaveBack THEN "orphan" ELSE "mapped"]

PowerCut ==
    /\ cuts < MaxCuts
    /\ cuts' = cuts + 1
    /\ \E entry \in Cut(table), bytes \in Cut(data) : Open(entry, bytes)
    /\ unpublished' = {} /\ ready' = {} /\ freeing' = {} /\ released' = {} /\ erasing_now' = {}
    /\ entries' = [s \in Slot |-> Absent]
    /\ writer' = NoWriter
    /\ asked' = asked /\ done' = asked
    /\ running' = None
    /\ pc' = [p \in Syncer |-> "idle"]
    /\ ticket' = [p \in Syncer |-> 0]
    /\ covers' = 0
    /\ took' = {} /\ snap' = [s \in {} |-> Free] /\ newly' = {} /\ tries' = 0
    /\ overwritten' = {}
    /\ must' = [p \in Syncer |-> {}]
    /\ result' = [p \in Syncer |-> "idle"]
    /\ early' = {} /\ late' = {} /\ lost' = lost \cup early \cup late
    /\ mustErase' = mustErase \ UNION {data[s].may : s \in {x \in Slot : page'[x] = Free}}
    /\ UNCHANGED <<tenancies, gaveBack>>

Step == \/ OwnerStep
        \/ \E p \in Syncer : Ask(p) \/ Lock(p) \/ SyncStep(p) \/ SyncFault(p)
        \/ \E s \in Slot : EraseStep(s)

Next == /\ \/ Step /\ dropped' = dropped
           \/ (\E p \in Syncer : Drop(p)) /\ dropped' = TRUE
           \/ PowerCut /\ dropped' = FALSE
        /\ setup' = setup

Spec == Init /\ [][Next]_vars

(* A table write the registry is held for ends, and a sync that runs is     *)
(* driven to its answer (WF).  The registry's lock and the sync mutex are   *)
(* tokio's, handed out in turn, and the eraser keeps taking rounds: who     *)
(* finds the lock free again and again gets it (SF).                        *)
Fairness ==
    /\ WF_slabVars(Persist)
    /\ \A p \in Syncer : /\ WF_slabVars(SyncStep(p))
                         /\ SF_slabVars(Lock(p))
                         /\ SF_slabVars(ReadEntries(p) \/ PublishReady(p))
    /\ \A s \in Slot : SF_slabVars(TakeErasing(s) \/ EraseOne(s) \/ FinishErase(s))

FairSpec == Spec /\ Fairness
-----------------------------------------------------------------------------
QueuesOK ==
    /\ free \subseteq Slot /\ unpublished \subseteq Slot /\ ready \subseteq Slot
    /\ freeing \subseteq Slot /\ released \subseteq Slot /\ took \subseteq Slot
    /\ erasing \subseteq Slot /\ erasing_now \subseteq Slot
    /\ overwritten \subseteq erasing_now /\ newly \subseteq Slot

EntriesOK ==
    /\ setup \in Setup
    /\ entries \in [Slot -> Entry \cup {Absent}]
    /\ page \in [Slot -> Entry]
    /\ table \in [Slot -> Cell(Entry)]
    /\ data \in [Slot -> Cell(0..MaxTenancy)]
    /\ writer = NoWriter \/ (writer.slot \in Slot /\ writer.bytes \in Entry)
    /\ DOMAIN snap \subseteq Slot /\ \A s \in DOMAIN snap : snap[s] \in Entry
    /\ tenancies \in 0..MaxTenancy
    /\ owner \in [Slot -> 0..MaxTenancy]

GateOK ==
    /\ asked \in Nat /\ done \in 0..asked /\ covers \in 0..asked
    /\ running \in Syncer \cup {None}
    /\ pc \in [Syncer -> Pc]
    /\ ticket \in [Syncer -> 0..asked]

TypeOK == QueuesOK /\ EntriesOK /\ GateOK

\* Where a slot is, as the allocator sees it.
Places(s) == <<s \in free, s \in freeing, s \in released, s \in took, owner[s] /= 0,
               s \in erasing, s \in erasing_now>>

\* Every slot is in exactly one place: free, allocated, on its way back to
\* the free map, or being erased.  None is handed out twice (absorb_released,
\* slab.rs:1431 "nothing can have taken it") and none is lost to a failed
\* flush, a failed table write or a power cut.  A dropped sync loses the slots
\* it took, until the slab is opened again.
EverySlotAccountedFor ==
    ~dropped => \A s \in Slot : \E i \in 1..7 : Places(s)[i] /\ \A j \in 1..7 : Places(s)[j] => j = i

\* The same without "none is lost": what stays true when a caller's future is
\* dropped while it holds slots it took to release.
NoSlotHandedOutTwice ==
    \A s \in Slot : \A i, j \in 1..7 : Places(s)[i] /\ Places(s)[j] => i = j

\* The write-ordering rule (Pending, slab.rs:1050-1066): whatever a power cut
\* keeps, a table entry that survives names a slot that holds what its owner
\* wrote, or zeroes if the owner had given it back.  Two windows are left to
\* the history: a slot released before its free entry was written (`early`)
\* and a slot filled between a sync's first flush and its publishing (`late`,
\* which EntryAfterData is about).
EntriesNameTheirData ==
    \A s \in Slot \ (early \cup late \cup lost) : \A e \in table[s].may : \A d \in data[s].may :
        e.state = "Allocated" => d = e.tenancy \/ (d = 0 /\ e.tenancy \in gaveBack)

\* "Its table entry reaches the device only after its data is durable"
\* (slab.rs:1050): the media never has an owner's entry without its data.
EntryAfterData ==
    \A s \in Slot : \A e \in table[s].may :
        owner[s] /= 0 /\ e.state = "Allocated" /\ e.tenancy = owner[s] => data[s].may = {owner[s]}

\* A sync that answered Ok made durable the entry, as memory has it, and the
\* data of every slot its caller had in a map when it asked, whether it ran
\* or was covered by another's (SyncGate, slab.rs:1031-1042).  A sync dropped
\* while it wrote the entries it took takes them with it.
SyncIsDurable ==
    ~dropped => \A p \in Syncer : result[p] = "ok" =>
        \A s \in must[p] \ lost : table[s].may = {SlotNow(s)} /\ data[s].may = {owner[s]}

\* The media may still hold what a tenancy retired for erasure wrote.
Unerased(s) == data[s].may \cap mustErase /= {}

\* Nothing says, or will say at the next write of the page, that the slot is free.
Listed(s) == Free \notin table[s].may \cup {page[s]}

\* A slot retired for erasure, published or not, comes within reach of an
\* allocation only once it has been overwritten on the media, and from the
\* moment its entry is on the media a power cut finds that entry, until then
\* (retire, slab.rs:1514-1516).  The entry is written and not flushed: of a slot
\* whose entry may have been Free a cut before the next flush brings that back,
\* and the erase is lost (EraseSurvivesCut, MCSlab).
ErasedBeforeReuse ==
    [][\A s \in Slot :
          /\ Unerased(s)' => s \notin free' \cup released' \cup freeing' \cup took'
          /\ Unerased(s) /\ Listed(s) => Listed(s)' \/ data'[s].may \cap mustErase = {}]_vars

\* Every call of sync returns.
EverySyncReturns == \A p \in Syncer : pc[p] = "waiting" ~> pc[p] = "idle"

\* A slot queued for erasure is overwritten and comes back to the allocator,
\* across restarts, unless a power cut undoes the free that queued it.
EveryEraseEnds ==
    \A s \in Slot : s \in erasing ~> s \in freeing \cup took \cup released \cup free \/ owner[s] /= 0
=============================================================================
