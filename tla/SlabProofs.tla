----------------------------- MODULE SlabProofs -----------------------------
(* Proofs about Slab, for every number of slots, every set of syncers and   *)
(* every setup.                                                             *)
EXTENDS Slab, Integers, FiniteSetsExt, WellFoundedInduction, TLAPS

-----------------------------------------------------------------------------
(* The least and the greatest member of a set of numbers                    *)

\* A set of numbers that is not empty has a least member, and Min is it.
LEMMA MinIsMember ==
    ASSUME NEW S \in SUBSET Nat, S # {}
    PROVE  Min(S) \in S /\ \A y \in S : Min(S) <= y
<1> DEFINE R == {ss \in Nat \X Nat : ss[1] < ss[2]}
<1>1. R = OpToRel(<, Nat)
    BY Zenon DEF OpToRel
<1>2. IsWellFoundedOn(R, Nat)
    BY <1>1, NatLessThanWellFounded
<1>3. \A x, y \in Nat : x < y => <<x, y>> \in R
    OBVIOUS
<1> HIDE DEF R
<1>4. PICK x \in S : \A y \in S : ~ (<<y, x>> \in R)
    BY <1>2, WFMin
<1>5. \A y \in S : ~ (y < x)
    BY <1>3, <1>4, Zenon
<1>6. \A y \in S : x =< y
    BY <1>5
<1>7. QED
    BY <1>6 DEF Min

\* A bounded set of numbers that is not empty has a greatest member, and Max is it.
LEMMA MaxIsMember ==
    ASSUME NEW n \in Nat, NEW S \in SUBSET (0..n), S # {}
    PROVE  Max(S) \in S /\ \A y \in S : y <= Max(S)
<1> DEFINE T == {n - i : i \in S}
<1>1. T \in SUBSET Nat /\ T # {}
    <2>1. PICK i \in S : TRUE
        OBVIOUS
    <2>2. n - i \in T
        OBVIOUS
    <2>3. QED
        BY <2>2
<1>2. PICK x \in T : \A y \in T : x <= y
    <2> HIDE DEF T
    <2>1. QED
        BY <1>1, MinIsMember
<1>3. PICK z \in S : x = n - z
    BY <1>2
<1>4. \A y \in S : n - y \in T
    OBVIOUS
<1>5. \A y \in S : y <= z
    BY <1>2, <1>3, <1>4
<1>6. \A y \in S : z >= y
    BY <1>5
<1>7. QED
    BY <1>6 DEF Max

\* The greater of two numbers.
LEMMA MaxOfTwo ==
    ASSUME NEW a \in Nat, NEW b \in Nat
    PROVE  Max({a, b}) = (IF a >= b THEN a ELSE b)
BY DEF Max

-----------------------------------------------------------------------------
\* The gate: one call at a time is past its lock, and only it holds slots on
\* their way to be released.
HolderOK ==
    /\ \A p \in Syncer : pc[p] \in Active => running = p
    /\ running \in Syncer => pc[running] \in Active
    /\ took /= {} => running \in Syncer /\ pc[running] = "flushing"

\* No slot is in two places, and unless a sync was dropped none is in no place.
PlacesOK ==
    \A s \in Slot :
        /\ s \in free => /\ s \notin freeing /\ s \notin released /\ s \notin took
                         /\ s \notin erasing /\ s \notin erasing_now /\ owner[s] = 0
        /\ s \in freeing => /\ s \notin released /\ s \notin took
                            /\ s \notin erasing /\ s \notin erasing_now /\ owner[s] = 0
        /\ s \in released => /\ s \notin took
                             /\ s \notin erasing /\ s \notin erasing_now /\ owner[s] = 0
        /\ s \in took => s \notin erasing /\ s \notin erasing_now /\ owner[s] = 0
        /\ s \in erasing => s \notin erasing_now /\ owner[s] = 0
        /\ s \in erasing_now => owner[s] = 0
        /\ \/ dropped
           \/ s \in free \/ s \in freeing \/ s \in released \/ s \in took
           \/ s \in erasing \/ s \in erasing_now \/ owner[s] /= 0

PlaceInv == TypeOK /\ HolderOK /\ PlacesOK

-----------------------------------------------------------------------------
(* The operators the model is built from. *)

\* Entries and bounds are the same after a step that keeps the setup.
LEMMA SetupStays ==
    ASSUME setup' = setup
    PROVE  /\ Entry' = Entry /\ MaxTenancy' = MaxTenancy /\ MaxRefs' = MaxRefs
           /\ Erase' = Erase /\ Errors' = Errors /\ Drops' = Drops
BY DEF Entry, MaxTenancy, MaxRefs, Allocated, Erasing, Free, Erase, Errors, Drops

\* The bounds of a setup.
LEMMA BoundsAreNumbers ==
    ASSUME setup \in Setup
    PROVE  MaxTenancy \in Nat /\ MaxRefs \in Nat /\ MaxRefs > 0
BY DEF Setup, MaxTenancy, MaxRefs

\* What an entry of the table looks like.
LEMMA EntryShape ==
    ASSUME setup \in Setup, NEW e \in Entry
    PROVE  /\ e.tenancy \in 0..MaxTenancy /\ e.refs \in 0..MaxRefs
           /\ e.state \in {"Free", "Allocated", "Erasing"}
           /\ e.state = "Allocated" => /\ e.tenancy \in 1..MaxTenancy /\ e.refs \in 1..MaxRefs
                                       /\ e = Allocated(e.tenancy, e.refs)
           /\ e.state = "Erasing" => e.tenancy \in 1..MaxTenancy /\ e = Erasing(e.tenancy)
           /\ e.state = "Free" <=> e = Free
           /\ e /= Absent
BY BoundsAreNumbers DEF Entry, Free, Allocated, Erasing, Absent

\* The entries the operations make.
LEMMA MakesEntries ==
    ASSUME setup \in Setup
    PROVE  /\ Free \in Entry /\ Free /= Absent
           /\ \A t \in 1..MaxTenancy, n \in 1..MaxRefs : Allocated(t, n) \in Entry
           /\ \A t \in 1..MaxTenancy : Erasing(t) \in Entry
BY BoundsAreNumbers DEF Entry, Free, Absent

\* A count goes up or down within its bounds.
LEMMA CountChanges ==
    ASSUME setup \in Setup, NEW e \in Entry, e.state = "Allocated", NEW n \in 1..MaxRefs
    PROVE  [e EXCEPT !.refs = n] = Allocated(e.tenancy, n) /\ [e EXCEPT !.refs = n] \in Entry
<1>1. e = Allocated(e.tenancy, e.refs) /\ e.tenancy \in 1..MaxTenancy
    BY EntryShape
<1>2. [e EXCEPT !.refs = n] = Allocated(e.tenancy, n)
    BY <1>1 DEF Allocated
<1>3. QED
    BY <1>1, <1>2, MakesEntries

\* A cell after a write, a flush or a restart.
LEMMA CellOps ==
    ASSUME NEW V, NEW c \in Cell(V), NEW v \in V
    PROVE  /\ c.cur \in V /\ c.may \subseteq V /\ c.cur \in c.may
           /\ Durable(v) \in Cell(V) /\ Durable(v).cur = v /\ Durable(v).may = {v}
           /\ Put(c, v) \in Cell(V) /\ Put(c, v).cur = v /\ Put(c, v).may = c.may \cup {v}
           /\ Flushed(c) \in Cell(V) /\ Flushed(c).cur = c.cur /\ Flushed(c).may = {c.cur}
BY DEF Cell, Durable, Put, Flushed

\* A discard leaves a cell that may hold zeroes besides what it held.
LEMMA DiscardOps ==
    ASSUME NEW V, 0 \in V, NEW c \in Cell(V), NEW d \in Discarded(c)
    PROVE  d \in Cell(V) /\ c.may \subseteq d.may /\ d.may \subseteq c.may \cup {0}
BY CellOps DEF Discarded

\* A power cut keeps one of the values each cell may hold.
LEMMA CutKeeps ==
    ASSUME NEW V, NEW S, NEW cells \in [S -> Cell(V)], NEW f \in Cut(cells)
    PROVE  f \in [S -> V] /\ \A i \in S : f[i] \in cells[i].may
<1>1. \A i \in S : cells[i].cur \in V /\ cells[i].may \subseteq V /\ cells[i].cur \in cells[i].may
    BY DEF Cell
<1> DEFINE loose == {i \in DOMAIN cells : cells[i].may /= {cells[i].cur}}
           values == UNION {cells[i].may : i \in loose}
           keeps == {g \in [loose -> values] : \A i \in loose : g[i] \in cells[i].may}
<1>2. PICK g \in keeps : f = [i \in DOMAIN cells |-> IF i \in loose THEN g[i] ELSE cells[i].cur]
    BY Zenon DEF Cut
<1>3. f = [i \in S |-> IF i \in loose THEN g[i] ELSE cells[i].cur]
    BY <1>2
<1>4. \A i \in loose : g[i] \in cells[i].may
    OBVIOUS
<1> HIDE DEF loose, values, keeps
<1>5. \A i \in S : f[i] \in cells[i].may
    BY <1>1, <1>3, <1>4
<1>6. QED
    BY <1>1, <1>3, <1>5

\* A write of the page puts its bytes in every cell of the table.
LEMMA WritesPage ==
    ASSUME TypeOK, NEW b \in [Slot -> Entry]
    PROVE  /\ WritePage(b) \in [Slot -> Cell(Entry)]
           /\ \A s \in Slot : /\ WritePage(b)[s].cur = b[s]
                              /\ WritePage(b)[s].may = table[s].may \cup {b[s]}
<1>1. table \in [Slot -> Cell(Entry)]
    BY DEF TypeOK, EntriesOK
<1>2. \A s \in Slot : /\ Put(table[s], b[s]) \in Cell(Entry) /\ Put(table[s], b[s]).cur = b[s]
                      /\ Put(table[s], b[s]).may = table[s].may \cup {b[s]}
    BY <1>1 DEF Put, Cell
<1>3. QED
    BY <1>2 DEF WritePage

\* What a flush leaves of the table and the data.
LEMMA Flushes ==
    ASSUME NEW V, NEW cells \in [Slot -> Cell(V)]
    PROVE  /\ FlushAll(cells) \in [Slot -> Cell(V)]
           /\ \A s \in Slot : /\ FlushAll(cells)[s].cur = cells[s].cur
                              /\ FlushAll(cells)[s].may = {cells[s].cur}
                              /\ cells[s].cur \in cells[s].may
<1>1. FlushAll(cells) = [s \in Slot |-> Flushed(cells[s])]
    BY DEF FlushAll
<1>2. \A s \in Slot : /\ Flushed(cells[s]) \in Cell(V) /\ Flushed(cells[s]).cur = cells[s].cur
                      /\ Flushed(cells[s]).may = {cells[s].cur} /\ cells[s].cur \in cells[s].may
    BY DEF Flushed, Durable, Cell
<1>3. QED
    BY <1>1, <1>2

\* A page with some of its entries replaced.
LEMMA PagesWith ==
    ASSUME TypeOK, NEW f, DOMAIN f \subseteq Slot, \A s \in DOMAIN f : f[s] \in Entry
    PROVE  /\ PageWith(f) \in [Slot -> Entry]
           /\ \A s \in Slot : PageWith(f)[s] = IF s \in DOMAIN f THEN f[s] ELSE page[s]
BY DEF PageWith, TypeOK, EntriesOK

\* What memory or the table says of a slot is an entry.
LEMMA SlotNowIsEntry ==
    ASSUME TypeOK, NEW s \in Slot
    PROVE  SlotNow(s) \in Entry
BY DEF SlotNow, TypeOK, EntriesOK
-----------------------------------------------------------------------------
(* Every slot in one place. *)

\* The slab starts with every slot free.
LEMMA InitPlaces ==
    ASSUME Init
    PROVE  PlaceInv
<1>1. setup \in Setup
    BY SetupsAssumption DEF Init
<1>2. Free \in Entry /\ MaxTenancy \in Nat
    BY <1>1, MakesEntries, BoundsAreNumbers
<1>3. Durable(Free) \in Cell(Entry) /\ Durable(0) \in Cell(0..MaxTenancy)
    BY <1>2 DEF Durable, Cell
<1>4. QueuesOK
    BY DEF Init, QueuesOK
<1>5. EntriesOK
    BY <1>1, <1>2, <1>3 DEF Init, EntriesOK
<1>6. GateOK
    BY DEF Init, GateOK, Pc
<1>7. HolderOK
    BY NoneAssumption DEF Init, HolderOK, Active
<1>8. PlacesOK
    BY DEF Init, PlacesOK
<1>9. QED
    BY <1>4, <1>5, <1>6, <1>7, <1>8 DEF PlaceInv, TypeOK

\* Taking a slot that is free once `from` has been absorbed.
LEMMA TakeSlotPlaces ==
    ASSUME PlaceInv, setup' = setup, dropped' = dropped,
           NEW from \in SUBSET Slot, from /= {}, TakeSlot(from), tenancies < MaxTenancy,
           freeing' \subseteq freeing, released' \subseteq released,
           from \cap (freeing' \cup released') = {},
           free \cup freeing \cup released = from \cup freeing' \cup released',
           table' \in [Slot -> Cell(Entry)], data' \in [Slot -> Cell(0..MaxTenancy)]
    PROVE  PlaceInv'
<1> DEFINE r == Min(from)
           t == tenancies + 1
<1>1. r \in from /\ r \in Slot
    <2>1. from \in SUBSET Nat
        BY BoundsAssumption DEF Slot
    <2>2. QED
        BY <2>1, MinIsMember
<1>2. setup \in Setup /\ tenancies \in 0..MaxTenancy /\ MaxTenancy \in Nat /\ MaxRefs \in Nat /\ MaxRefs > 0
    BY BoundsAreNumbers DEF PlaceInv, TypeOK, EntriesOK
<1>3. t \in 1..MaxTenancy /\ Allocated(t, 1) \in Entry
    BY <1>2, MakesEntries
<1>4. /\ free' = from \ {r} /\ unpublished' = unpublished \cup {r}
      /\ entries' = [entries EXCEPT ![r] = Allocated(t, 1)]
      /\ tenancies' = t /\ owner' = [owner EXCEPT ![r] = t]
      /\ UNCHANGED <<ready, erasing, erasing_now, page, writer, gateVars, syncVars, overwritten>>
    BY DEF TakeSlot
<1> HIDE DEF r, t
<1>5. QueuesOK'
    BY <1>1, <1>4 DEF PlaceInv, TypeOK, QueuesOK, syncVars
<1>6. EntriesOK'
    BY <1>1, <1>2, <1>3, <1>4, SetupStays DEF PlaceInv, TypeOK, EntriesOK, syncVars
<1>7. GateOK'
    BY <1>4 DEF PlaceInv, TypeOK, GateOK, gateVars
<1>8. HolderOK'
    BY <1>4 DEF PlaceInv, HolderOK, gateVars, syncVars
<1>9. PlacesOK'
    <2>1. owner \in [Slot -> 0..MaxTenancy] /\ t /= 0
        BY <1>3 DEF PlaceInv, TypeOK, EntriesOK
    <2>2. \A s \in Slot : owner'[s] = IF s = r THEN t ELSE owner[s]
        BY <1>4, <2>1
    <2>3. took' = took /\ erasing' = erasing /\ erasing_now' = erasing_now
        BY <1>4 DEF syncVars
    <2>4. QED
        BY <1>1, <1>4, <2>1, <2>2, <2>3 DEF PlaceInv, PlacesOK
<1>10. QED
    BY <1>5, <1>6, <1>7, <1>8, <1>9 DEF PlaceInv, TypeOK

\* allocate_deferred and take_slot_or_flush.
LEMMA AllocatePlaces ==
    ASSUME PlaceInv, setup' = setup, dropped' = dropped, AllocateDeferred \/ AllocateFlushing
    PROVE  PlaceInv'
<1>1. CASE AllocateDeferred
    <2>1. free \cup released \in SUBSET Slot /\ (free \cup released) \cap freeing = {}
        BY DEF PlaceInv, TypeOK, QueuesOK, PlacesOK
    <2>2. table' \in [Slot -> Cell(Entry)] /\ data' \in [Slot -> Cell(0..MaxTenancy)]
        BY <1>1 DEF AllocateDeferred, deviceVars, PlaceInv, TypeOK, EntriesOK
    <2>3. QED
        BY <1>1, <2>1, <2>2, TakeSlotPlaces DEF AllocateDeferred
<1>2. CASE AllocateFlushing
    <2>1. freeing \in SUBSET Slot
        BY DEF PlaceInv, TypeOK, QueuesOK
    <2>2. table' \in [Slot -> Cell(Entry)] /\ data' \in [Slot -> Cell(0..MaxTenancy)]
        BY <1>2, Flushes DEF AllocateFlushing, FlushDevice, PlaceInv, TypeOK, EntriesOK
    <2>3. QED
        BY <1>2, <2>1, <2>2, TakeSlotPlaces DEF AllocateFlushing
<1>3. QED
    BY <1>1, <1>2

\* A step that moves no slot and touches neither queues' membership types nor
\* the gate keeps the places.
LEMMA SamePlaces ==
    ASSUME PlaceInv, dropped' = dropped,
           UNCHANGED <<free, freeing, released, erasing, erasing_now, took, owner>>
    PROVE  PlacesOK'
BY DEF PlaceInv, PlacesOK

\* fill, confirm and the counts: entries and the data change, no slot moves.
LEMMA CountPlaces ==
    ASSUME PlaceInv, setup' = setup, dropped' = dropped, NEW s \in Slot,
           Fill(s) \/ Confirm(s) \/ IncRefBatch(s) \/ IncRef(s) \/ DecRef(s)
    PROVE  PlaceInv'
<1>1. /\ UNCHANGED <<free, unpublished, freeing, released, erasing, erasing_now, page, table, gateVars,
                      syncVars, overwritten, tenancies, owner>>
      /\ ready' \in {ready, ready \cup {s}, ready \cup (unpublished \cap {s})}
    BY DEF Fill, Confirm, IncRefBatch, IncRef, DecRef, pendingVars, deviceVars, countVars
<1>2. /\ setup \in Setup /\ entries \in [Slot -> Entry \cup {Absent}] /\ data \in [Slot -> Cell(0..MaxTenancy)]
      /\ MaxRefs \in Nat /\ MaxTenancy \in Nat /\ owner \in [Slot -> 0..MaxTenancy]
      /\ SlotNow(s) \in Entry /\ SlotNow(s).refs \in 0..MaxRefs
      /\ writer = NoWriter \/ (writer.slot \in Slot /\ writer.bytes \in Entry)
    BY SlotNowIsEntry, EntryShape, BoundsAreNumbers DEF PlaceInv, TypeOK, EntriesOK
<1>3. /\ entries' \in [Slot -> Entry \cup {Absent}] /\ data' \in [Slot -> Cell(0..MaxTenancy)]
      /\ writer' = NoWriter \/ (writer'.slot \in Slot /\ writer'.bytes \in Entry)
    <2>1. CASE Fill(s)
        <3>1. Put(data[s], owner[s]) \in Cell(0..MaxTenancy)
            BY <1>2, CellOps
        <3>2. QED
            BY <1>2, <2>1, <3>1 DEF Fill, pendingVars
    <2>2. CASE Confirm(s)
        BY <1>2, <2>2 DEF Confirm, deviceVars
    <2>3. CASE IncRefBatch(s)
        <3>1. SlotNow(s).refs + 1 \in 1..MaxRefs /\ SlotNow(s).state = "Allocated"
            BY <1>2, <2>3 DEF IncRefBatch, Owned
        <3>2. [SlotNow(s) EXCEPT !.refs = @ + 1] \in Entry
            BY <1>2, <3>1, CountChanges
        <3>3. QED
            BY <1>2, <2>3, <3>2 DEF IncRefBatch, deviceVars
    <2>4. CASE IncRef(s)
        <3>1. SlotNow(s).refs + 1 \in 1..MaxRefs /\ SlotNow(s).state = "Allocated"
            BY <1>2, <2>4 DEF IncRef, Owned
        <3>2. [SlotNow(s) EXCEPT !.refs = @ + 1] \in Entry /\ Free \in Entry
            BY <1>2, <3>1, CountChanges, MakesEntries
        <3>3. QED
            BY <1>2, <2>4, <3>2 DEF IncRef, deviceVars
    <2>5. CASE DecRef(s)
        <3>1. SlotNow(s).refs - 1 \in 1..MaxRefs /\ SlotNow(s).state = "Allocated"
            BY <1>2, <2>5 DEF DecRef, Owned
        <3>2. [SlotNow(s) EXCEPT !.refs = @ - 1] \in Entry
            BY <1>2, <3>1, CountChanges
        <3>3. QED
            BY <1>2, <2>5, <3>2 DEF DecRef, deviceVars
    <2>6. QED
        BY <2>1, <2>2, <2>3, <2>4, <2>5
<1>4. QueuesOK'
    BY <1>1 DEF PlaceInv, TypeOK, QueuesOK, syncVars
<1>5. EntriesOK'
    BY <1>1, <1>3, SetupStays DEF PlaceInv, TypeOK, EntriesOK, syncVars
<1>6. GateOK' /\ HolderOK'
    BY <1>1 DEF PlaceInv, TypeOK, GateOK, HolderOK, gateVars, syncVars
<1>7. PlacesOK'
    BY <1>1, SamePlaces DEF syncVars
<1>8. QED
    BY <1>4, <1>5, <1>6, <1>7 DEF PlaceInv, TypeOK

\* free, in its three forms: the slot leaves its owner for one queue.
LEMMA RetirePlaces ==
    ASSUME PlaceInv, setup' = setup, dropped' = dropped, NEW s \in Slot,
           RetireUnpublished(s) \/ RetirePublished(s) \/ RetireErasing(s)
    PROVE  PlaceInv'
<1>1. /\ UNCHANGED <<released, erasing_now, page, table, gateVars, syncVars, overwritten, tenancies>>
      /\ unpublished' \subseteq unpublished /\ ready' \subseteq ready
      /\ owner[s] /= 0 /\ owner' = [owner EXCEPT ![s] = 0]
    BY DEF RetireUnpublished, RetirePublished, RetireErasing, LastReference, GiveBack, pendingVars,
           deviceVars, countVars
<1>2. /\ setup \in Setup /\ entries \in [Slot -> Entry \cup {Absent}] /\ data \in [Slot -> Cell(0..MaxTenancy)]
      /\ MaxTenancy \in Nat /\ owner \in [Slot -> 0..MaxTenancy]
      /\ writer = NoWriter \/ (writer.slot \in Slot /\ writer.bytes \in Entry)
      /\ Free \in Entry
    BY MakesEntries, BoundsAreNumbers DEF PlaceInv, TypeOK, EntriesOK
<1>3. Erasing(owner[s]) \in Entry
    BY <1>1, <1>2, MakesEntries
<1>4. /\ entries' \in [Slot -> Entry \cup {Absent}] /\ data' \in [Slot -> Cell(0..MaxTenancy)]
      /\ writer' = NoWriter \/ (writer'.slot \in Slot /\ writer'.bytes \in Entry)
    <2>1. CASE RetireUnpublished(s)
        <3>1. \A cell \in Discarded(data[s]) : cell \in Cell(0..MaxTenancy)
            BY <1>2, DiscardOps
        <3>2. QED
            BY <1>2, <2>1, <3>1 DEF RetireUnpublished
    <2>2. CASE RetirePublished(s)
        BY <1>2, <2>2 DEF RetirePublished, deviceVars
    <2>3. CASE RetireErasing(s)
        BY <1>2, <1>3, <2>3 DEF RetireErasing, deviceVars
    <2>4. QED
        BY <2>1, <2>2, <2>3
<1>5. \/ free' = free \cup {s} /\ UNCHANGED <<freeing, erasing>>
      \/ freeing' = freeing \cup {s} /\ UNCHANGED <<free, erasing>>
      \/ erasing' = erasing \cup {s} /\ UNCHANGED <<free, freeing>>
    BY DEF RetireUnpublished, RetirePublished, RetireErasing
<1>6. QueuesOK'
    BY <1>1, <1>5 DEF PlaceInv, TypeOK, QueuesOK, syncVars
<1>7. EntriesOK'
    BY <1>1, <1>2, <1>4, SetupStays DEF PlaceInv, TypeOK, EntriesOK, syncVars
<1>8. GateOK' /\ HolderOK'
    BY <1>1 DEF PlaceInv, TypeOK, GateOK, HolderOK, gateVars, syncVars
<1>9. PlacesOK'
    BY <1>1, <1>2, <1>5 DEF PlaceInv, PlacesOK, syncVars
<1>10. QED
    BY <1>6, <1>7, <1>8, <1>9 DEF PlaceInv, TypeOK

\* A table write under the registry's lock ends.
LEMMA PersistPlaces ==
    ASSUME PlaceInv, setup' = setup, dropped' = dropped, Persist \/ PersistError
    PROVE  PlaceInv'
<1>1. /\ UNCHANGED <<free, unpublished, ready, freeing, released, erasing, erasing_now, gateVars,
                      syncVars, overwritten, tenancies, owner>>
      /\ writer' = NoWriter
    BY DEF Persist, PersistError, pendingVars, countVars, ghostVars
<1>2. /\ setup \in Setup /\ entries \in [Slot -> Entry \cup {Absent}] /\ data \in [Slot -> Cell(0..MaxTenancy)]
      /\ MaxTenancy \in Nat /\ page \in [Slot -> Entry] /\ table \in [Slot -> Cell(Entry)]
    BY BoundsAreNumbers DEF PlaceInv, TypeOK, EntriesOK
<1>3. /\ entries' \in [Slot -> Entry \cup {Absent}] /\ data' \in [Slot -> Cell(0..MaxTenancy)]
      /\ page' \in [Slot -> Entry] /\ table' \in [Slot -> Cell(Entry)]
    <2>1. CASE Persist
        <3> DEFINE r == writer.slot
        <3>1. r \in Slot /\ writer.bytes \in Entry
            BY <2>1 DEF Persist, PlaceInv, TypeOK, EntriesOK
        <3>2. page' = [page EXCEPT ![r] = writer.bytes] /\ table' = WritePage(page')
            BY <2>1 DEF Persist
        <3>3. page' \in [Slot -> Entry]
            BY <1>2, <3>1, <3>2
        <3>4. table' \in [Slot -> Cell(Entry)]
            BY <3>2, <3>3, WritesPage DEF PlaceInv
        <3>5. entries' = entries \/ entries' = [entries EXCEPT ![r] = Absent]
            BY <2>1 DEF Persist
        <3>6. entries' \in [Slot -> Entry \cup {Absent}]
            BY <1>2, <3>5
        <3>7. PICK cell \in (IF writer.kind = "free" THEN Discarded(data[r]) ELSE {data[r]}) :
                  data' = [data EXCEPT ![r] = cell]
            BY <2>1 DEF Persist
        <3>8. cell \in Cell(0..MaxTenancy)
            BY <1>2, <3>1, <3>7, DiscardOps
        <3>9. QED
            BY <1>2, <3>3, <3>4, <3>6, <3>7, <3>8
    <2>2. CASE PersistError
        BY <1>2, <2>2 DEF PersistError, pendingVars, deviceVars
    <2>3. QED
        BY <2>1, <2>2
<1>4. QueuesOK'
    BY <1>1 DEF PlaceInv, TypeOK, QueuesOK, syncVars
<1>5. EntriesOK'
    BY <1>1, <1>3, SetupStays DEF PlaceInv, TypeOK, EntriesOK, syncVars
<1>6. GateOK' /\ HolderOK'
    BY <1>1 DEF PlaceInv, TypeOK, GateOK, HolderOK, gateVars, syncVars
<1>7. PlacesOK'
    BY <1>1, SamePlaces DEF syncVars
<1>8. QED
    BY <1>4, <1>5, <1>6, <1>7 DEF PlaceInv, TypeOK

\* Asking and locking: the gate only.
LEMMA LockPlaces ==
    ASSUME PlaceInv, setup' = setup, dropped' = dropped, NEW p \in Syncer, Ask(p) \/ Lock(p)
    PROVE  PlaceInv'
<1>1. UNCHANGED <<free, pendingVars, page, writer, deviceVars, syncVars, overwritten, tenancies, owner>>
    BY DEF Ask, Lock, ghostVars, countVars
<1>2. QueuesOK'
    BY <1>1 DEF PlaceInv, TypeOK, QueuesOK, syncVars, pendingVars
<1>3. EntriesOK'
    BY <1>1, SetupStays DEF PlaceInv, TypeOK, EntriesOK, syncVars, pendingVars, deviceVars
<1>4. pc \in [Syncer -> Pc] /\ "waiting" \in Pc /\ "locked" \in Active
    BY DEF PlaceInv, TypeOK, GateOK, Pc, Active
<1>5. "locked" \in Pc /\ "waiting" \notin Active /\ "idle" \notin Active
    BY DEF Pc, Active
<1>6. GateOK'
    BY <1>4, <1>5 DEF PlaceInv, TypeOK, GateOK, Ask, Lock
<1>7. HolderOK'
    <2>1. took' = took
        BY <1>1 DEF syncVars
    <2>2. CASE Ask(p)
        BY <1>4, <1>5, <2>1, <2>2 DEF Ask, PlaceInv, HolderOK
    <2>3. CASE Lock(p)
        BY <1>4, <1>5, <2>1, <2>3, NoneAssumption DEF Lock, PlaceInv, HolderOK
    <2>4. QED
        BY <2>2, <2>3
<1>8. PlacesOK'
    BY <1>1, SamePlaces DEF syncVars, pendingVars
<1>9. QED
    BY <1>2, <1>3, <1>6, <1>7, <1>8 DEF PlaceInv, TypeOK

\* The gate when a call returns or is dropped.
LEMMA LeaveGate ==
    ASSUME PlaceInv, NEW p \in Syncer, NEW answer, Leave(p, answer), done' \in 0..asked
    PROVE  /\ GateOK' /\ HolderOK'
           /\ newly' \subseteq newly /\ took' \subseteq took
           /\ DOMAIN snap' \subseteq DOMAIN snap /\ \A s \in DOMAIN snap' : snap'[s] = snap[s]
           /\ UNCHANGED <<free, writer, overwritten, tenancies, owner>>
<1>1. /\ pc' = [pc EXCEPT ![p] = "idle"] /\ ticket' = [ticket EXCEPT ![p] = 0]
      /\ running' = (IF running = p THEN None ELSE running)
      /\ covers' = (IF running = p THEN 0 ELSE covers)
      /\ took' = (IF running = p THEN {} ELSE took)
      /\ newly' = (IF running = p THEN {} ELSE newly)
      /\ snap' = (IF running = p THEN [s \in {} |-> Free] ELSE snap)
      /\ asked' = asked /\ UNCHANGED <<free, writer, overwritten, tenancies, owner>>
    BY DEF Leave, countVars
<1>2. GateOK'
    BY <1>1 DEF PlaceInv, TypeOK, GateOK, Pc
<1>3. HolderOK'
    <2>1. "idle" \notin Active /\ pc \in [Syncer -> Pc]
        BY DEF Active, PlaceInv, TypeOK, GateOK
    <2>2. QED
        BY <1>1, <2>1, NoneAssumption DEF PlaceInv, HolderOK
<1>4. QED
    BY <1>1, <1>2, <1>3

\* A call that returns: what it holds is back in a queue, or it holds nothing.
LEMMA LeavePlaces ==
    ASSUME PlaceInv, setup' = setup, dropped' = dropped \/ dropped',
           NEW p \in Syncer, NEW answer, Leave(p, answer), done' \in 0..asked,
           UNCHANGED <<released, erasing, erasing_now, data>>,
           unpublished' \subseteq Slot, ready' \subseteq Slot,
           entries' \in [Slot -> Entry \cup {Absent}],
           page' \in [Slot -> Entry], table' \in [Slot -> Cell(Entry)],
           \/ freeing' = freeing /\ (dropped' \/ took' = took)
           \/ freeing' = freeing \cup took /\ took' = {}
    PROVE  PlaceInv'
<1>1. /\ GateOK' /\ HolderOK'
      /\ newly' \subseteq newly /\ took' \subseteq took
      /\ DOMAIN snap' \subseteq DOMAIN snap /\ \A s \in DOMAIN snap' : snap'[s] = snap[s]
      /\ UNCHANGED <<free, writer, overwritten, tenancies, owner>>
    BY LeaveGate
<1>2. QueuesOK'
    BY <1>1 DEF PlaceInv, TypeOK, QueuesOK
<1>3. EntriesOK'
    BY <1>1, SetupStays DEF PlaceInv, TypeOK, EntriesOK
<1>4. PlacesOK'
    BY <1>1 DEF PlaceInv, PlacesOK
<1>5. QED
    BY <1>1, <1>2, <1>3, <1>4 DEF PlaceInv, TypeOK

\* Only the running call is past the lock, and it holds slots only while its
\* first flush runs.
LEMMA HolderFacts ==
    ASSUME PlaceInv, NEW p \in Syncer, pc[p] \in Active
    PROVE  running = p /\ (pc[p] /= "flushing" => took = {})
BY DEF PlaceInv, HolderOK

\* The returns of a sync: covered, nothing to publish, or after its second
\* flush, and the errors of the flushes.
LEMMA ReturnPlaces ==
    ASSUME PlaceInv, setup' = setup, dropped' = dropped, NEW p \in Syncer,
           Covered(p) \/ NothingToPublish(p) \/ SecondFlush(p) \/ FirstFlushError(p) \/ SecondFlushError(p)
    PROVE  PlaceInv'
<1>1. /\ unpublished \subseteq Slot /\ ready \subseteq Slot /\ done \in 0..asked /\ covers \in 0..asked
      /\ entries \in [Slot -> Entry \cup {Absent}] /\ page \in [Slot -> Entry]
      /\ table \in [Slot -> Cell(Entry)] /\ asked \in Nat
    BY DEF PlaceInv, TypeOK, QueuesOK, EntriesOK, GateOK
<1>2. Max({done, covers}) \in 0..asked
    BY <1>1, MaxOfTwo
<1>3. pc[p] \in Active
    BY DEF Covered, NothingToPublish, SecondFlush, FirstFlushError, SecondFlushError, Active
<1>4. running = p /\ (pc[p] /= "flushing" => took = {})
    BY <1>3, HolderFacts
<1>5. CASE Covered(p) \/ NothingToPublish(p) \/ SecondFlushError(p)
    <2>1. /\ UNCHANGED <<pendingVars, page, deviceVars>> /\ done' \in {done, Max({done, covers})}
          /\ pc[p] /= "flushing"
        BY <1>5 DEF Covered, NothingToPublish, SecondFlushError
    <2>2. Leave(p, "ok") \/ Leave(p, "err")
        BY <1>5 DEF Covered, NothingToPublish, SecondFlushError
    <2>3. took' = {}
        BY <1>4, <2>2 DEF Leave
    <2>4. QED
        BY <1>1, <1>2, <1>4, <2>1, <2>2, <2>3, LeavePlaces DEF pendingVars, deviceVars
<1>6. CASE SecondFlush(p)
    <2>1. /\ UNCHANGED <<pendingVars, page>> /\ done' = Max({done, covers}) /\ pc[p] /= "flushing"
          /\ Leave(p, "ok") /\ table' = FlushAll(table) /\ data' = FlushAll(data)
        BY <1>6 DEF SecondFlush, FlushDevice
    <2>2. /\ GateOK' /\ HolderOK'
          /\ newly' \subseteq newly
          /\ DOMAIN snap' \subseteq DOMAIN snap /\ \A s \in DOMAIN snap' : snap'[s] = snap[s]
          /\ UNCHANGED <<free, writer, overwritten, tenancies, owner>>
        BY <1>2, <2>1, LeaveGate
    <2>3. took' = took
        BY <1>4, <2>1 DEF Leave
    <2>4. QueuesOK'
        BY <2>1, <2>2, <2>3 DEF PlaceInv, TypeOK, QueuesOK, pendingVars
    <2>5. table' \in [Slot -> Cell(Entry)] /\ data' \in [Slot -> Cell(0..MaxTenancy)]
        BY <2>1, Flushes DEF PlaceInv, TypeOK, EntriesOK
    <2>6. EntriesOK'
        BY <2>1, <2>2, <2>5, SetupStays DEF PlaceInv, TypeOK, EntriesOK, pendingVars
    <2>7. PlacesOK'
        BY <2>1, <2>2, <2>3, SamePlaces DEF pendingVars
    <2>8. QED
        BY <2>2, <2>4, <2>6, <2>7 DEF PlaceInv, TypeOK
<1>7. CASE FirstFlushError(p)
    <2>1. /\ UNCHANGED <<unpublished, ready, released, erasing, erasing_now, entries, page, deviceVars, done>>
          /\ freeing' = freeing \cup took /\ Leave(p, "err")
        BY <1>7 DEF FirstFlushError
    <2>2. took' = {}
        BY <1>4, <2>1 DEF Leave
    <2>3. QED
        BY <1>1, <2>1, <2>2, LeavePlaces DEF deviceVars
<1>8. QED
    BY <1>5, <1>6, <1>7

\* The holder of the gate goes from one active place to another.
LEMMA StepGate ==
    ASSUME PlaceInv, NEW p \in Syncer, pc[p] \in Active, NEW to \in Active,
           pc' = [pc EXCEPT ![p] = to], covers' \in 0..asked,
           UNCHANGED <<asked, done, running, ticket>>,
           took' /= {} => to = "flushing"
    PROVE  GateOK' /\ HolderOK'
<1>1. running = p /\ pc \in [Syncer -> Pc] /\ to \in Pc
    BY HolderFacts DEF PlaceInv, TypeOK, GateOK, Pc
<1>2. GateOK'
    BY <1>1 DEF PlaceInv, TypeOK, GateOK
<1>3. HolderOK'
    BY <1>1 DEF PlaceInv, HolderOK
<1>4. QED
    BY <1>2, <1>3

\* The sync takes the slots being freed, and its first flush releases them.
LEMMA ReleasePlaces ==
    ASSUME PlaceInv, setup' = setup, dropped' = dropped, NEW p \in Syncer,
           TakeFreeing(p) \/ FirstFlush(p)
    PROVE  PlaceInv'
<1>1. /\ UNCHANGED <<free, unpublished, ready, erasing, erasing_now, entries, page, writer, asked, done,
                      running, ticket, snap, newly, overwritten, tenancies, owner>>
      /\ pc[p] \in Active
    BY DEF TakeFreeing, FirstFlush, countVars, ghostVars, Active
<1>2. running = p /\ (pc[p] /= "flushing" => took = {})
    BY <1>1, HolderFacts
<1>3. \/ took' = freeing /\ freeing' = {} /\ released' = released /\ took = {}
      \/ released' = released \cup took /\ took' = {} /\ freeing' = freeing
    BY <1>2 DEF TakeFreeing, FirstFlush
<1>4. GateOK' /\ HolderOK'
    <2>1. "flushing" \in Active /\ "publishing" \in Active /\ asked \in 0..asked /\ covers \in 0..asked
        BY DEF Active, PlaceInv, TypeOK, GateOK
    <2>2. CASE TakeFreeing(p)
        BY <1>1, <2>1, <2>2, StepGate DEF TakeFreeing
    <2>3. CASE FirstFlush(p)
        BY <1>1, <2>1, <2>3, StepGate DEF FirstFlush
    <2>4. QED
        BY <2>2, <2>3
<1>5. table' \in [Slot -> Cell(Entry)] /\ data' \in [Slot -> Cell(0..MaxTenancy)]
    <2>1. table \in [Slot -> Cell(Entry)] /\ data \in [Slot -> Cell(0..MaxTenancy)]
        BY DEF PlaceInv, TypeOK, EntriesOK
    <2>2. \/ table' = table /\ data' = data
          \/ table' = FlushAll(table) /\ data' = FlushAll(data)
        BY DEF TakeFreeing, FirstFlush, FlushDevice, deviceVars
    <2>3. QED
        BY <2>1, <2>2, Flushes
<1>6. QueuesOK'
    BY <1>1, <1>3 DEF PlaceInv, TypeOK, QueuesOK
<1>7. EntriesOK'
    BY <1>1, <1>5, SetupStays DEF PlaceInv, TypeOK, EntriesOK
<1>8. PlacesOK'
    BY <1>1, <1>3 DEF PlaceInv, PlacesOK
<1>9. QED
    BY <1>4, <1>6, <1>7, <1>8 DEF PlaceInv, TypeOK

\* Publishing: entries, the page and the table change, no slot moves.
LEMMA PublishPlaces ==
    ASSUME PlaceInv, setup' = setup, dropped' = dropped, NEW p \in Syncer,
           \/ ReadEntries(p) \/ TakeReady(p) \/ ReadAgain(p) \/ WriteEntries(p)
           \/ ForgetWritten(p) \/ PublishReady(p)
    PROVE  PlaceInv'
<1>1. /\ UNCHANGED <<free, freeing, released, erasing, erasing_now, writer, data, asked, done, running,
                      ticket, covers, took, overwritten, tenancies, owner>>
      /\ pc[p] \in Active /\ pc[p] /= "flushing"
    BY DEF ReadEntries, TakeReady, ReadAgain, WriteEntries, ForgetWritten, PublishReady, countVars,
           ghostVars, Active, pendingVars, syncVars, deviceVars
<1>2. took = {}
    BY <1>1, HolderFacts
<1>3. PICK to \in Active : pc' = [pc EXCEPT ![p] = to]
    BY DEF ReadEntries, TakeReady, ReadAgain, WriteEntries, ForgetWritten, PublishReady, Active
<1>4. GateOK' /\ HolderOK'
    <2>1. covers \in 0..asked
        BY DEF PlaceInv, TypeOK, GateOK
    <2>2. QED
        BY <1>1, <1>2, <1>3, <2>1, StepGate
<1>5. /\ ready' \subseteq ready /\ unpublished' \subseteq unpublished
      /\ newly' \subseteq newly \cup unpublished
    BY DEF ReadEntries, TakeReady, ReadAgain, WriteEntries, ForgetWritten, PublishReady, pendingVars, syncVars
<1>6. QueuesOK'
    BY <1>1, <1>5 DEF PlaceInv, TypeOK, QueuesOK
<1>7. /\ entries \in [Slot -> Entry \cup {Absent}] /\ page \in [Slot -> Entry] /\ table \in [Slot -> Cell(Entry)]
      /\ ready \subseteq Slot /\ DOMAIN snap \subseteq Slot /\ \A s \in DOMAIN snap : snap[s] \in Entry
    BY DEF PlaceInv, TypeOK, EntriesOK, QueuesOK
<1>8. entries' \in [Slot -> Entry \cup {Absent}]
    BY <1>7 DEF ReadEntries, TakeReady, ReadAgain, WriteEntries, ForgetWritten, PublishReady, pendingVars
<1>9. DOMAIN snap' \subseteq Slot /\ \A s \in DOMAIN snap' : snap'[s] \in Entry
    <2>1. CASE ReadEntries(p)
        BY <1>7, <2>1 DEF ReadEntries
    <2>2. CASE ~ReadEntries(p)
        BY <1>7, <2>2 DEF TakeReady, ReadAgain, WriteEntries, ForgetWritten, PublishReady, syncVars
    <2>3. QED
        BY <2>1, <2>2
<1>10. page' \in [Slot -> Entry] /\ table' \in [Slot -> Cell(Entry)]
    <2>1. CASE WriteEntries(p)
        BY <1>7, <2>1, PagesWith, WritesPage DEF WriteEntries, PlaceInv
    <2>2. CASE PublishReady(p)
        <3> DEFINE f == [s \in ready |-> SlotNow(s)]
        <3>1. DOMAIN f \subseteq Slot /\ \A s \in DOMAIN f : f[s] \in Entry
            BY <1>7, SlotNowIsEntry DEF PlaceInv
        <3>2. page' = PageWith(f) /\ table' = WritePage(page')
            BY <2>2 DEF PublishReady
        <3> HIDE DEF f
        <3>3. QED
            BY <3>1, <3>2, PagesWith, WritesPage DEF PlaceInv
    <2>3. CASE ~WriteEntries(p) /\ ~PublishReady(p)
        BY <1>7, <2>3 DEF ReadEntries, TakeReady, ReadAgain, ForgetWritten, deviceVars
    <2>4. QED
        BY <2>1, <2>2, <2>3
<1>11. EntriesOK'
    BY <1>1, <1>8, <1>9, <1>10, SetupStays DEF PlaceInv, TypeOK, EntriesOK
<1>12. PlacesOK'
    BY <1>1, SamePlaces
<1>13. QED
    BY <1>4, <1>6, <1>11, <1>12 DEF PlaceInv, TypeOK

\* A page of which some entries were written, and the table after it.
LEMMA SomeWritten ==
    ASSUME PlaceInv, NEW f, DOMAIN f \subseteq Slot, \A s \in DOMAIN f : f[s] \in Entry,
           NEW landed \in SUBSET DOMAIN f
    PROVE  /\ PageWith([s \in landed |-> f[s]]) \in [Slot -> Entry]
           /\ WritePage(PageWith([s \in landed |-> f[s]])) \in [Slot -> Cell(Entry)]
<1> DEFINE g == [s \in landed |-> f[s]]
<1>1. DOMAIN g \subseteq Slot /\ \A s \in DOMAIN g : g[s] \in Entry
    OBVIOUS
<1> HIDE DEF g
<1>2. PageWith(g) \in [Slot -> Entry]
    BY <1>1, PagesWith DEF PlaceInv
<1>3. WritePage(PageWith(g)) \in [Slot -> Cell(Entry)]
    BY <1>2, WritesPage DEF PlaceInv
<1>4. QED
    BY <1>2, <1>3 DEF g

\* A failed table write, unlocked or with the registry held.
LEMMA PublishErrorPlaces ==
    ASSUME PlaceInv, setup' = setup, dropped' = dropped, NEW p \in Syncer,
           WriteEntriesError(p) \/ PublishReadyError(p)
    PROVE  PlaceInv'
<1>1. /\ unpublished \subseteq Slot /\ ready \subseteq Slot /\ done \in 0..asked /\ newly \subseteq Slot
      /\ entries \in [Slot -> Entry \cup {Absent}]
      /\ DOMAIN snap \subseteq Slot /\ \A s \in DOMAIN snap : snap[s] \in Entry
    BY DEF PlaceInv, TypeOK, QueuesOK, EntriesOK, GateOK
<1>2. pc[p] \in Active /\ pc[p] /= "flushing"
    BY DEF WriteEntriesError, PublishReadyError, Active
<1>3. running = p /\ took = {}
    BY <1>2, HolderFacts
<1>4. /\ UNCHANGED <<freeing, released, erasing, erasing_now, entries, data, done>>
      /\ Leave(p, "err")
    BY DEF WriteEntriesError, PublishReadyError, pendingVars
<1>5. took' = took
    BY <1>3, <1>4 DEF Leave
<1>6. unpublished' \subseteq Slot /\ ready' \subseteq Slot
    BY <1>1 DEF WriteEntriesError, PublishReadyError, pendingVars
<1>7. page' \in [Slot -> Entry] /\ table' \in [Slot -> Cell(Entry)]
    <2>1. CASE WriteEntriesError(p)
        <3>1. PICK landed \in SUBSET DOMAIN snap : WriteSome(snap, landed)
            BY <2>1 DEF WriteEntriesError
        <3>2. QED
            BY <1>1, <3>1, SomeWritten DEF WriteSome
    <2>2. CASE PublishReadyError(p)
        <3> DEFINE f == [s \in ready |-> SlotNow(s)]
        <3>1. DOMAIN f = ready /\ \A s \in DOMAIN f : f[s] \in Entry
            BY <1>1, SlotNowIsEntry DEF PlaceInv
        <3>2. PICK landed \in SUBSET ready : WriteSome(f, landed)
            BY <2>2 DEF PublishReadyError
        <3> HIDE DEF f
        <3>3. QED
            BY <1>1, <3>1, <3>2, SomeWritten DEF WriteSome
    <2>3. QED
        BY <2>1, <2>2
<1>8. QED
    BY <1>1, <1>4, <1>5, <1>6, <1>7, LeavePlaces

\* A dropped call: the slots it took are lost, the others stay where they are.
LEMMA DropPlaces ==
    ASSUME PlaceInv, setup' = setup, dropped' = TRUE, NEW p \in Syncer, Drop(p)
    PROVE  PlaceInv'
<1>1. /\ unpublished \subseteq Slot /\ ready \subseteq Slot /\ done \in 0..asked
      /\ entries \in [Slot -> Entry \cup {Absent}] /\ page \in [Slot -> Entry] /\ table \in [Slot -> Cell(Entry)]
      /\ DOMAIN snap \subseteq Slot /\ \A s \in DOMAIN snap : snap[s] \in Entry
    BY DEF PlaceInv, TypeOK, QueuesOK, EntriesOK, GateOK
<1>2. UNCHANGED <<pendingVars, data, done>> /\ Leave(p, "dropped")
    BY DEF Drop
<1>3. page' \in [Slot -> Entry] /\ table' \in [Slot -> Cell(Entry)]
    <2>1. CASE pc[p] = "tabling"
        <3>1. PICK landed \in SUBSET DOMAIN snap, cached \in SUBSET DOMAIN snap :
                  /\ page' = PageWith([s \in cached |-> snap[s]])
                  /\ table' = WritePage(PageWith([s \in landed |-> snap[s]]))
            BY <2>1 DEF Drop
        <3>2. QED
            BY <1>1, <3>1, SomeWritten
    <2>2. CASE pc[p] /= "tabling"
        BY <1>1, <2>2 DEF Drop
    <2>3. QED
        BY <2>1, <2>2
<1>4. QED
    BY <1>1, <1>2, <1>3, LeavePlaces DEF pendingVars

\* The eraser moves a slot between its two queues and then to the free path.
LEMMA ErasePlaces ==
    ASSUME PlaceInv, setup' = setup, dropped' = dropped, NEW s \in Slot, EraseStep(s)
    PROVE  PlaceInv'
<1>1. /\ UNCHANGED <<free, unpublished, ready, released, page, gateVars, syncVars, tenancies, owner>>
      /\ \/ /\ s \in erasing /\ erasing' = erasing \ {s} /\ erasing_now' = erasing_now \cup {s}
            /\ UNCHANGED <<freeing, overwritten>>
         \/ /\ UNCHANGED <<freeing, erasing, erasing_now>> /\ s \in erasing_now
            /\ overwritten' = overwritten \cup {s}
         \/ /\ s \in overwritten /\ erasing_now' = erasing_now \ {s} /\ overwritten' = overwritten \ {s}
            /\ freeing' = freeing \cup {s} /\ erasing' = erasing
         \/ /\ s \in erasing_now \ overwritten /\ erasing_now' = erasing_now \ {s}
            /\ erasing' = erasing \cup {s} /\ UNCHANGED <<freeing, overwritten>>
    BY DEF EraseStep, TakeErasing, EraseOne, FinishErase, ReturnErase, pendingVars, countVars, ghostVars
<1>2. /\ setup \in Setup /\ entries \in [Slot -> Entry \cup {Absent}] /\ data \in [Slot -> Cell(0..MaxTenancy)]
      /\ table \in [Slot -> Cell(Entry)] /\ MaxTenancy \in Nat /\ Free \in Entry
      /\ writer = NoWriter \/ (writer.slot \in Slot /\ writer.bytes \in Entry)
    BY MakesEntries, BoundsAreNumbers DEF PlaceInv, TypeOK, EntriesOK
<1>3. /\ entries' \in [Slot -> Entry \cup {Absent}] /\ data' \in [Slot -> Cell(0..MaxTenancy)]
      /\ table' \in [Slot -> Cell(Entry)]
      /\ writer' = NoWriter \/ (writer'.slot \in Slot /\ writer'.bytes \in Entry)
    <2>1. CASE EraseOne(s)
        <3>1. Put(data[s], 0) \in Cell(0..MaxTenancy)
            BY <1>2 DEF Put, Cell
        <3>2. [data EXCEPT ![s] = Put(@, 0)] \in [Slot -> Cell(0..MaxTenancy)]
            BY <1>2, <3>1
        <3>3. data' = FlushAll([data EXCEPT ![s] = Put(@, 0)]) /\ table' = FlushAll(table)
              /\ UNCHANGED <<entries, writer>>
            BY <2>1 DEF EraseOne, pendingVars
        <3>4. QED
            BY <1>2, <3>2, <3>3, Flushes
    <2>2. CASE ~EraseOne(s)
        BY <1>2, <2>2 DEF EraseStep, TakeErasing, FinishErase, ReturnErase, deviceVars
    <2>3. QED
        BY <2>1, <2>2
<1>4. QueuesOK'
    BY <1>1 DEF PlaceInv, TypeOK, QueuesOK, PlacesOK, syncVars
<1>5. EntriesOK'
    BY <1>1, <1>3, SetupStays DEF PlaceInv, TypeOK, EntriesOK, syncVars
<1>6. GateOK' /\ HolderOK'
    BY <1>1 DEF PlaceInv, TypeOK, GateOK, HolderOK, gateVars, syncVars
<1>7. PlacesOK'
    BY <1>1 DEF PlaceInv, PlacesOK, TypeOK, QueuesOK, syncVars
<1>8. QED
    BY <1>4, <1>5, <1>6, <1>7 DEF PlaceInv, TypeOK

\* After a power cut every slot is where its entry on the media says.
LEMMA CutPlaces ==
    ASSUME PlaceInv, setup' = setup, PowerCut
    PROVE  PlaceInv'
<1>1. /\ setup \in Setup /\ MaxTenancy \in Nat
      /\ table \in [Slot -> Cell(Entry)] /\ data \in [Slot -> Cell(0..MaxTenancy)]
    BY BoundsAreNumbers DEF PlaceInv, TypeOK, EntriesOK
<1>2. PICK entry \in Cut(table), bytes \in Cut(data) : Open(entry, bytes)
    BY DEF PowerCut
<1>3. entry \in [Slot -> Entry] /\ bytes \in [Slot -> 0..MaxTenancy]
    BY <1>1, CutKeeps
<1>4. \A s \in Slot : /\ entry[s].state \in {"Free", "Allocated", "Erasing"} /\ entry[s].tenancy \in 0..MaxTenancy
                      /\ entry[s].state = "Allocated" => entry[s].tenancy /= 0
    BY <1>1, <1>3, EntryShape
<1>5. \A s \in Slot : Durable(entry[s]) \in Cell(Entry) /\ Durable(bytes[s]) \in Cell(0..MaxTenancy)
    BY <1>3 DEF Durable, Cell
<1>6. /\ unpublished' = {} /\ ready' = {} /\ freeing' = {} /\ released' = {} /\ erasing_now' = {}
      /\ entries' = [s \in Slot |-> Absent] /\ writer' = NoWriter
      /\ asked' = asked /\ done' = asked /\ running' = None
      /\ pc' = [p \in Syncer |-> "idle"] /\ ticket' = [p \in Syncer |-> 0] /\ covers' = 0
      /\ took' = {} /\ snap' = [s \in {} |-> Free] /\ newly' = {} /\ overwritten' = {}
      /\ tenancies' = tenancies
    BY DEF PowerCut
<1>7. /\ table' = [s \in Slot |-> Durable(entry[s])] /\ data' = [s \in Slot |-> Durable(bytes[s])]
      /\ page' = entry
      /\ free' = {s \in Slot : entry[s].state = "Free"}
      /\ erasing' = {s \in Slot : entry[s].state = "Erasing"}
      /\ owner' = [s \in Slot |-> IF entry[s].state = "Allocated" THEN entry[s].tenancy ELSE 0]
    BY <1>2 DEF Open
<1>8. QueuesOK'
    BY <1>6, <1>7 DEF QueuesOK
<1>9. EntriesOK'
    <2>1. owner' \in [Slot -> 0..MaxTenancy]
        BY <1>1, <1>4, <1>7
    <2>2. table' \in [Slot -> Cell(Entry)] /\ data' \in [Slot -> Cell(0..MaxTenancy)]
        BY <1>5, <1>7
    <2>3. QED
        BY <1>3, <1>6, <1>7, <2>1, <2>2, SetupStays DEF EntriesOK, PlaceInv, TypeOK
<1>10. GateOK'
    BY <1>6 DEF GateOK, PlaceInv, TypeOK, Pc
<1>11. HolderOK'
    BY <1>6, NoneAssumption DEF HolderOK, Active
<1>12. PlacesOK'
    BY <1>4, <1>6, <1>7 DEF PlacesOK
<1>13. QED
    BY <1>8, <1>9, <1>10, <1>11, <1>12 DEF PlaceInv, TypeOK

\* Every step keeps the places.
LEMMA NextPlaces ==
    ASSUME PlaceInv, Next
    PROVE  PlaceInv'
<1>1. setup' = setup
    BY DEF Next
<1>2. ASSUME OwnerStep, dropped' = dropped PROVE PlaceInv'
    BY <1>1, <1>2, AllocatePlaces, CountPlaces, RetirePlaces, PersistPlaces DEF OwnerStep
<1>3. ASSUME NEW p \in Syncer, Ask(p) \/ Lock(p) \/ SyncStep(p) \/ SyncFault(p), dropped' = dropped
      PROVE  PlaceInv'
    BY <1>1, <1>3, LockPlaces, ReturnPlaces, ReleasePlaces, PublishPlaces, PublishErrorPlaces
       DEF SyncStep, SyncFault
<1>4. ASSUME NEW s \in Slot, EraseStep(s), dropped' = dropped PROVE PlaceInv'
    BY <1>1, <1>4, ErasePlaces
<1>5. QED
    BY <1>1, <1>2, <1>3, <1>4, DropPlaces, CutPlaces DEF Next, Step

\* The places hold throughout a behaviour.
THEOREM PlacesHold == Spec => []PlaceInv
<1>1. Init => PlaceInv
    BY InitPlaces
<1>2. PlaceInv /\ [Next]_vars => PlaceInv'
    <2>1. ASSUME PlaceInv, UNCHANGED vars PROVE PlaceInv'
        BY <2>1, SetupStays DEF PlaceInv, TypeOK, QueuesOK, EntriesOK, GateOK, HolderOK, PlacesOK, vars,
           slabVars, pendingVars, deviceVars, gateVars, syncVars, countVars, ghostVars
    <2>2. QED
        BY <2>1, NextPlaces
<1>3. QED
    BY <1>1, <1>2, PTL DEF Spec

\* Every variable of the slab keeps its type: table entries are free, or name
\* a tenancy with a count within its bounds, or wait to be erased.
THEOREM AlwaysTypeOK == Spec => []TypeOK
<1>1. PlaceInv => TypeOK
    BY DEF PlaceInv
<1>2. QED
    BY <1>1, PlacesHold, PTL

\* The seven places, one by one.
LEMMA PlacesAre ==
    ASSUME NEW s
    PROVE  /\ Places(s)[1] = (s \in free) /\ Places(s)[2] = (s \in freeing)
           /\ Places(s)[3] = (s \in released) /\ Places(s)[4] = (s \in took)
           /\ Places(s)[5] = (owner[s] /= 0) /\ Places(s)[6] = (s \in erasing)
           /\ Places(s)[7] = (s \in erasing_now)
BY DEF Places

\* The invariant keeps the places apart.
LEMMA PlacesApart ==
    ASSUME PlaceInv
    PROVE  NoSlotHandedOutTwice
<1> SUFFICES ASSUME NEW s \in Slot, NEW i \in 1..7, NEW j \in 1..7, Places(s)[i], Places(s)[j]
             PROVE  i = j
    BY DEF NoSlotHandedOutTwice
<1>1. i \in {1, 2, 3, 4, 5, 6, 7} /\ j \in {1, 2, 3, 4, 5, 6, 7}
    OBVIOUS
<1>2. /\ (i = 1 => s \in free) /\ (i = 2 => s \in freeing)
      /\ (i = 3 => s \in released) /\ (i = 4 => s \in took)
      /\ (i = 5 => owner[s] /= 0) /\ (i = 6 => s \in erasing) /\ (i = 7 => s \in erasing_now)
    BY PlacesAre, ZenonT(60)
<1>3. /\ (j = 1 => s \in free) /\ (j = 2 => s \in freeing)
      /\ (j = 3 => s \in released) /\ (j = 4 => s \in took)
      /\ (j = 5 => owner[s] /= 0) /\ (j = 6 => s \in erasing) /\ (j = 7 => s \in erasing_now)
    BY PlacesAre, ZenonT(60)
<1>4. QED
    BY <1>1, <1>2, <1>3 DEF PlaceInv, PlacesOK

\* absorb_released, take_slot, retire, finish_erase and Slab::open: no slot is
\* ever in two of the allocator's places at once, whatever calls are dropped.
THEOREM AlwaysNoSlotHandedOutTwice == Spec => []NoSlotHandedOutTwice
<1>1. PlaceInv => NoSlotHandedOutTwice
    BY PlacesApart
<1>2. QED
    BY <1>1, PlacesHold, PTL

\* As long as no sync has been dropped, every slot is in exactly one place:
\* none is lost to a failed flush, a failed table write or a power cut.
THEOREM AlwaysEverySlotAccountedFor == Spec => []EverySlotAccountedFor
<1>1. PlaceInv => NoSlotHandedOutTwice
    BY PlacesApart
<1>2. PlaceInv => EverySlotAccountedFor
    <2> SUFFICES ASSUME PlaceInv, ~dropped, NEW s \in Slot
                 PROVE  \E i \in 1..7 : Places(s)[i] /\ \A j \in 1..7 : Places(s)[j] => j = i
        BY DEF EverySlotAccountedFor
    <2>1. \E i \in 1..7 : Places(s)[i]
        <3>1. \/ s \in free \/ s \in freeing \/ s \in released \/ s \in took
              \/ s \in erasing \/ s \in erasing_now \/ owner[s] /= 0
            BY DEF PlaceInv, PlacesOK
        <3>2. {1, 2, 3, 4, 5, 6, 7} \subseteq 1..7
            OBVIOUS
        <3>3. QED
            BY <3>1, <3>2, PlacesAre, Zenon
    <2>2. QED
        BY <1>1, <2>1 DEF NoSlotHandedOutTwice
<1>3. QED
    BY <1>2, PlacesHold, PTL

-----------------------------------------------------------------------------
(* Erased before reuse. *)

\* Memory holds an allocated entry only for a slot that has an owner, and
\* only such a slot waits to be published, is in a map or has its count written.
OwnedOK ==
    /\ phase \in [Slot -> {"none", "taken", "filled", "mapped", "unsure", "orphan"}]
    /\ \A s \in Slot : /\ entries[s].state = "Allocated" => owner[s] /= 0
                       /\ owner[s] /= 0 => entries[s].state \in {"Absent", "Allocated"}
                       /\ s \in ready => owner[s] /= 0
                       /\ phase[s] /= "none" => owner[s] /= 0
    /\ writer /= NoWriter /\ writer.kind = "count" => owner[writer.slot] /= 0
    /\ \A s \in DOMAIN snap : snap[s].state = "Allocated"

\* A tenancy is named by something said of a slot: its owner, its data, its
\* entry on the device, in the page cache, in memory, or on its way.
Named(s, t) ==
    \/ t = owner[s] \/ t = page[s].tenancy \/ t = entries[s].tenancy
    \/ t \in data[s].may
    \/ \E e \in table[s].may : t = e.tenancy
    \/ s \in DOMAIN snap /\ t = snap[s].tenancy
    \/ writer /= NoWriter /\ writer.slot = s /\ t = writer.bytes.tenancy

\* A tenancy is of one slot, and it has been given out.
NamesOK ==
    \A s \in Slot : \A t \in 1..MaxTenancy : Named(s, t) =>
        t <= tenancies /\ \A r \in Slot \ {s} : ~Named(r, t)

\* Nothing in memory says, or will say without an erase, that such a slot is free.
UnerasedOK ==
    \A s \in Slot : Unerased(s) =>
        /\ s \notin free /\ s \notin freeing /\ s \notin released /\ s \notin took
        /\ s \notin unpublished /\ s \notin overwritten
        /\ entries[s] /= Free
        /\ writer /= NoWriter /\ writer.slot = s => writer.bytes /= Free
        /\ s \in newly => owner[s] = 0 /\ entries[s].state /= "Allocated"

MustEraseOK ==
    /\ mustErase \subseteq 1..tenancies
    /\ mustErase /= {} => Erase
    /\ \A s \in Slot : phase[s] = "taken" => owner[s] \notin mustErase

ErasureInv == OwnedOK /\ NamesOK /\ UnerasedOK /\ MustEraseOK

\* A slot to be erased whose entry is on the media stays so, until it is erased.
StaysListed == \A s \in Slot : Unerased(s) /\ Listed(s) => Listed(s)' \/ data'[s].may \cap mustErase = {}

\* An entry that may be written for a slot: it frees none that is to be erased and
\* names no one new.
Sound(s, e) ==
    /\ e \in Entry
    /\ Unerased(s) /\ Listed(s) => e /= Free
    /\ e.tenancy /= 0 => Named(s, e.tenancy)

\* What a step that neither gives a slot out nor retires one may do to it.
Carries(s) ==
    /\ entries'[s] \in {entries[s], Absent}
    /\ page'[s] = page[s] \/ Sound(s, page'[s])
    /\ \A e \in table'[s].may : e \in table[s].may \/ Sound(s, e)
    /\ data'[s].may \subseteq data[s].may \cup {0}
    /\ s \in free' \/ s \in freeing' \/ s \in released' \/ s \in took' =>
           s \in free \/ s \in freeing \/ s \in released \/ s \in took \/ ~Unerased(s)
    /\ s \in unpublished' => s \in unpublished \/ ~Unerased(s)
    /\ s \in overwritten' => s \in overwritten \/ ~Unerased(s)'
    /\ s \in newly' => s \in newly \/ ~Unerased(s)
    /\ s \in ready' => owner[s] /= 0
    /\ s \in DOMAIN snap' => snap'[s].state = "Allocated" /\ Sound(s, snap'[s])

\* The entries a step writes are sound if they are what the page cache, memory
\* or the running sync has.
LEMMA SoundEntries ==
    ASSUME PlaceInv, ErasureInv, NEW s \in Slot
    PROVE  /\ Sound(s, page[s])
           /\ Sound(s, SlotNow(s))
           /\ s \in DOMAIN snap => Sound(s, snap[s])
           /\ writer /= NoWriter /\ writer.slot = s => Sound(s, writer.bytes)
           /\ entries[s] /= Absent => Sound(s, entries[s])
<1>1. /\ page[s] \in Entry /\ entries[s] \in Entry \cup {Absent}
      /\ s \in DOMAIN snap => snap[s] \in Entry
      /\ writer /= NoWriter => writer.bytes \in Entry
    BY DEF PlaceInv, TypeOK, EntriesOK
<1>2. Sound(s, page[s])
    BY <1>1 DEF Sound, Listed, Named
<1>3. entries[s] /= Absent => Sound(s, entries[s])
    BY <1>1 DEF Sound, ErasureInv, UnerasedOK, Named
<1>4. s \in DOMAIN snap => Sound(s, snap[s])
    <2>1. s \in DOMAIN snap => snap[s] \in Entry /\ snap[s] /= Free /\ Named(s, snap[s].tenancy)
        BY <1>1 DEF ErasureInv, OwnedOK, Free, Named
    <2>2. QED
        BY <2>1 DEF Sound
<1>5. writer /= NoWriter /\ writer.slot = s => Sound(s, writer.bytes)
    BY <1>1 DEF Sound, ErasureInv, UnerasedOK, Named
<1>6. QED
    BY <1>2, <1>3, <1>4, <1>5 DEF SlotNow

\* A step that carries every slot keeps the tenancies apart.
LEMMA NamesCarried ==
    ASSUME PlaceInv, ErasureInv, setup' = setup, UNCHANGED <<owner, tenancies>>,
           writer' \in {writer, NoWriter}, \A s \in Slot : Carries(s)
    PROVE  NamesOK'
<1>1. setup \in Setup /\ MaxTenancy' = MaxTenancy
    BY SetupStays DEF PlaceInv, TypeOK, EntriesOK
<1>2. ASSUME NEW s \in Slot, NEW t \in 1..MaxTenancy, Named(s, t)'
      PROVE  Named(s, t)
    <2>1. /\ entries'[s] \in {entries[s], Absent}
          /\ page'[s] = page[s] \/ Sound(s, page'[s])
          /\ \A e \in table'[s].may : e \in table[s].may \/ Sound(s, e)
          /\ data'[s].may \subseteq data[s].may \cup {0}
          /\ s \in DOMAIN snap' => Sound(s, snap'[s])
        BY DEF Carries
    <2>2. t /= 0 /\ Absent.tenancy = 0
        BY DEF Absent
    <2>3. \A e : Sound(s, e) /\ t = e.tenancy => Named(s, t)
        BY <2>2 DEF Sound
    <2>4. CASE t = owner'[s] \/ t = entries'[s].tenancy \/ t \in data'[s].may
        BY <2>1, <2>2, <2>4 DEF Named
    <2>5. CASE t = page'[s].tenancy
        BY <2>1, <2>3, <2>5 DEF Named
    <2>6. CASE \E e \in table'[s].may : t = e.tenancy
        BY <2>1, <2>3, <2>6 DEF Named
    <2>7. CASE s \in DOMAIN snap' /\ t = snap'[s].tenancy
        BY <2>1, <2>3, <2>7
    <2>8. CASE writer' /= NoWriter /\ writer'.slot = s /\ t = writer'.bytes.tenancy
        BY <2>8 DEF Named
    <2>9. QED
        BY <1>2, <2>4, <2>5, <2>6, <2>7, <2>8 DEF Named
<1>3. QED
    BY <1>1, <1>2 DEF ErasureInv, NamesOK

\* A step that carries every slot keeps the whole invariant.
LEMMA Carried ==
    ASSUME PlaceInv, ErasureInv, setup' = setup, UNCHANGED <<owner, phase, tenancies, mustErase>>,
           writer' \in {writer, NoWriter}, \A s \in Slot : Carries(s), DOMAIN snap' \subseteq Slot
    PROVE  ErasureInv' /\ StaysListed
<1>1. NamesOK'
    BY NamesCarried
<1>2. OwnedOK'
    <2>1. \A s \in Slot : /\ entries'[s] \in {entries[s], Absent}
                          /\ s \in ready' => owner[s] /= 0
                          /\ s \in DOMAIN snap' => snap'[s].state = "Allocated"
        BY DEF Carries
    <2>2. Absent.state = "Absent"
        BY DEF Absent
    <2>3. QED
        BY <2>1, <2>2 DEF ErasureInv, OwnedOK
<1>3. UnerasedOK'
    <2> SUFFICES ASSUME NEW s \in Slot, Unerased(s)'
                 PROVE  /\ s \notin free' /\ s \notin freeing' /\ s \notin released' /\ s \notin took'
                        /\ s \notin unpublished' /\ s \notin overwritten'
                        /\ entries'[s] /= Free
                        /\ writer' /= NoWriter /\ writer'.slot = s => writer'.bytes /= Free
                        /\ s \in newly' => owner'[s] = 0 /\ entries'[s].state /= "Allocated"
        BY DEF UnerasedOK
    <2>1. Carries(s)
        OBVIOUS
    <2>2. Unerased(s)
        <3>1. 0 \notin mustErase
            BY DEF ErasureInv, MustEraseOK
        <3>2. QED
            BY <2>1, <3>1 DEF Unerased, Carries
    <2>3. /\ s \notin free /\ s \notin freeing /\ s \notin released /\ s \notin took
          /\ s \notin unpublished /\ s \notin overwritten
          /\ entries[s] /= Free
          /\ writer /= NoWriter /\ writer.slot = s => writer.bytes /= Free
          /\ s \in newly => owner[s] = 0 /\ entries[s].state /= "Allocated"
        BY <2>2 DEF ErasureInv, UnerasedOK
    <2>4. Absent /= Free /\ Absent.state /= "Allocated"
        BY DEF Absent, Free
    <2>5. QED
        BY <2>1, <2>2, <2>3, <2>4 DEF Carries
<1>4. MustEraseOK'
    BY SetupStays DEF ErasureInv, MustEraseOK
<1>5. StaysListed
    <2> SUFFICES ASSUME NEW s \in Slot, Unerased(s), Listed(s)
                 PROVE  Listed(s)'
        BY DEF StaysListed
    <2>1. /\ page'[s] = page[s] \/ Sound(s, page'[s])
          /\ \A e \in table'[s].may : e \in table[s].may \/ Sound(s, e)
        BY DEF Carries
    <2>2. QED
        BY <2>1 DEF Sound, Listed
<1>6. QED
    BY <1>1, <1>2, <1>3, <1>4, <1>5 DEF ErasureInv

\* A step that leaves the page cache alone and adds nothing to the table keeps
\* what is listed.
LEMMA ListedStays ==
    ASSUME page' = page, \A s \in Slot : table'[s].may \subseteq table[s].may
    PROVE  StaysListed
BY DEF StaysListed, Listed

\* What a returning or dropped call leaves behind.
LEMMA LeaveLeaves ==
    ASSUME NEW p, NEW answer, Leave(p, answer)
    PROVE  /\ UNCHANGED <<free, writer, overwritten, tenancies, owner, phase>>
           /\ newly' \subseteq newly /\ took' \subseteq took
           /\ DOMAIN snap' \subseteq DOMAIN snap /\ \A s \in DOMAIN snap' : snap'[s] = snap[s]
BY DEF Leave, countVars

\* Steps that write nothing to the device: the gate's, the eraser's queues,
\* and a sync reading, checking and forgetting entries; x is a syncer or a slot.
LEMMA QueueErased ==
    ASSUME PlaceInv, ErasureInv, setup' = setup, NEW x,
           \/ Ask(x) \/ Lock(x) \/ Covered(x) \/ TakeFreeing(x) \/ ReadEntries(x) \/ TakeReady(x)
           \/ ReadAgain(x) \/ ForgetWritten(x) \/ NothingToPublish(x) \/ FirstFlushError(x)
           \/ SecondFlushError(x) \/ TakeErasing(x) \/ ReturnErase(x)
    PROVE  ErasureInv' /\ StaysListed
<1>1. UNCHANGED <<owner, phase, tenancies, mustErase, page, table, data, writer, free, overwritten>>
    BY LeaveLeaves DEF Ask, Lock, Covered, TakeFreeing, ReadEntries, TakeReady, ReadAgain, ForgetWritten,
       NothingToPublish, FirstFlushError, SecondFlushError, TakeErasing, ReturnErase, ghostVars,
       countVars, deviceVars
<1>2. \A s \in Slot : entries'[s] \in {entries[s], Absent}
    BY DEF Ask, Lock, Covered, TakeFreeing, ReadEntries, TakeReady, ReadAgain, ForgetWritten,
       NothingToPublish, FirstFlushError, SecondFlushError, TakeErasing, ReturnErase, pendingVars
<1>3. /\ freeing' \cup released' \cup took' \subseteq freeing \cup released \cup took
      /\ unpublished' \subseteq unpublished /\ newly' \subseteq newly \cup unpublished /\ ready' \subseteq ready
    BY LeaveLeaves DEF Ask, Lock, Covered, TakeFreeing, ReadEntries, TakeReady, ReadAgain, ForgetWritten,
       NothingToPublish, FirstFlushError, SecondFlushError, TakeErasing, ReturnErase, pendingVars, syncVars
<1>4. \A s \in DOMAIN snap' : \/ s \in DOMAIN snap /\ snap'[s] = snap[s]
                              \/ s \in ready /\ entries[s] /= Absent /\ snap'[s] = entries[s]
    <2>1. CASE ReadEntries(x)
        BY <2>1 DEF ReadEntries
    <2>2. CASE ~ReadEntries(x)
        <3>1. snap' = snap \/ Leave(x, "ok") \/ Leave(x, "err")
            BY <2>2 DEF Ask, Lock, Covered, TakeFreeing, TakeReady, ReadAgain, ForgetWritten,
               NothingToPublish, FirstFlushError, SecondFlushError, TakeErasing, ReturnErase, syncVars
        <3>2. CASE snap' = snap
            BY <3>2
        <3>3. CASE Leave(x, "ok") \/ Leave(x, "err")
            BY <3>3, LeaveLeaves
        <3>4. QED
            BY <3>1, <3>2, <3>3
    <2>3. QED
        BY <2>1, <2>2
<1>5. DOMAIN snap' \subseteq Slot
    BY <1>4 DEF PlaceInv, TypeOK, QueuesOK, EntriesOK
<1>6. ASSUME NEW s \in Slot PROVE Carries(s)
    <2>1. s \in ready => owner[s] /= 0 /\ entries[s].state \in {"Absent", "Allocated"}
        BY DEF ErasureInv, OwnedOK
    <2>2. s \in unpublished => ~Unerased(s)
        BY DEF ErasureInv, UnerasedOK
    <2>3. s \in DOMAIN snap' => snap'[s].state = "Allocated" /\ Sound(s, snap'[s])
        <3>1. s \in DOMAIN snap => snap[s].state = "Allocated" /\ Sound(s, snap[s])
            BY SoundEntries DEF ErasureInv, OwnedOK
        <3>2. s \in ready /\ entries[s] /= Absent => entries[s].state = "Allocated" /\ Sound(s, entries[s])
            <4>1. entries[s] \in Entry \cup {Absent} /\ setup \in Setup
                BY DEF PlaceInv, TypeOK, EntriesOK
            <4>2. entries[s] /= Absent => entries[s].state /= "Absent"
                BY <4>1, EntryShape
            <4>3. QED
                BY <2>1, <4>2, SoundEntries
        <3>3. QED
            BY <1>4, <3>1, <3>2
    <2>4. QED
        BY <1>1, <1>2, <1>3, <2>1, <2>2, <2>3 DEF Carries
<1>7. QED
    BY <1>1, <1>5, <1>6, Carried

\* Flushes, the first, the second and the eraser's; x is a syncer or a slot.
LEMMA FlushErased ==
    ASSUME PlaceInv, ErasureInv, setup' = setup, NEW x,
           FirstFlush(x) \/ SecondFlush(x) \/ (x \in Slot /\ EraseOne(x))
    PROVE  ErasureInv' /\ StaysListed
<1>1. /\ UNCHANGED <<owner, phase, tenancies, mustErase, page, writer, free, entries, ready, unpublished>>
      /\ freeing' \cup released' \cup took' \subseteq freeing \cup released \cup took
      /\ newly' \subseteq newly /\ table' = FlushAll(table)
      /\ DOMAIN snap' \subseteq DOMAIN snap /\ \A s \in DOMAIN snap' : snap'[s] = snap[s]
    BY LeaveLeaves DEF FirstFlush, SecondFlush, EraseOne, FlushDevice, countVars, pendingVars, syncVars
<1>2. table \in [Slot -> Cell(Entry)] /\ data \in [Slot -> Cell(0..MaxTenancy)] /\ DOMAIN snap \subseteq Slot
    BY DEF PlaceInv, TypeOK, EntriesOK
<1>3. \A s \in Slot : table'[s].may \subseteq table[s].may
    BY <1>1, <1>2, Flushes
<1>4. /\ \A s \in Slot : data'[s].may \subseteq data[s].may \cup {0}
      /\ overwritten' = overwritten \/ (overwritten' = overwritten \cup {x} /\ data'[x].may = {0})
    <2>1. CASE x \in Slot /\ EraseOne(x)
        <3> DEFINE d == [data EXCEPT ![x] = Put(@, 0)]
        <3>1. MaxTenancy \in Nat
            BY BoundsAreNumbers DEF PlaceInv, TypeOK, EntriesOK
        <3>2. Put(data[x], 0) \in Cell(0..MaxTenancy) /\ Put(data[x], 0).cur = 0
            BY <1>2, <2>1, <3>1 DEF Put, Cell
        <3>3. d \in [Slot -> Cell(0..MaxTenancy)] /\ d[x].cur = 0 /\ \A s \in Slot \ {x} : d[s] = data[s]
            BY <1>2, <2>1, <3>2
        <3>4. data' = FlushAll(d) /\ overwritten' = overwritten \cup {x}
            BY <2>1 DEF EraseOne
        <3> HIDE DEF d
        <3>5. \A s \in Slot : data'[s].may = {d[s].cur} /\ d[s].cur \in d[s].may
            BY <3>3, <3>4, Flushes
        <3>6. QED
            BY <2>1, <3>3, <3>4, <3>5
    <2>2. CASE FirstFlush(x) \/ SecondFlush(x)
        <3>1. data' = FlushAll(data) /\ overwritten' = overwritten
            BY <2>2, LeaveLeaves DEF FirstFlush, SecondFlush, FlushDevice
        <3>2. QED
            BY <1>2, <3>1, Flushes
    <2>3. QED
        BY <2>1, <2>2
<1>5. ASSUME NEW s \in Slot PROVE Carries(s)
    <2>1. s \in ready => owner[s] /= 0
        BY DEF ErasureInv, OwnedOK
    <2>2. s \in DOMAIN snap => snap[s].state = "Allocated" /\ Sound(s, snap[s])
        BY SoundEntries DEF ErasureInv, OwnedOK
    <2>3. s \in overwritten' => s \in overwritten \/ ~Unerased(s)'
        <3>1. 0 \notin mustErase'
            BY <1>1 DEF ErasureInv, MustEraseOK
        <3>2. QED
            BY <1>4, <3>1 DEF Unerased
    <2>4. QED
        BY <1>1, <1>3, <1>4, <2>1, <2>2, <2>3 DEF Carries
<1>6. QED
    BY <1>1, <1>2, <1>5, Carried

\* A page some of whose entries were replaced by sound ones.
LEMMA SoundPage ==
    ASSUME PlaceInv, ErasureInv, NEW f, DOMAIN f \subseteq Slot, \A s \in DOMAIN f : Sound(s, f[s])
    PROVE  /\ PageWith(f) \in [Slot -> Entry]
           /\ \A s \in Slot : Sound(s, PageWith(f)[s])
           /\ \A s \in Slot : \A e \in WritePage(PageWith(f))[s].may : e \in table[s].may \/ Sound(s, e)
<1>1. \A s \in DOMAIN f : f[s] \in Entry
    BY DEF Sound
<1>2. /\ PageWith(f) \in [Slot -> Entry]
      /\ \A s \in Slot : PageWith(f)[s] = IF s \in DOMAIN f THEN f[s] ELSE page[s]
    BY <1>1, PagesWith DEF PlaceInv
<1>3. \A s \in Slot : Sound(s, PageWith(f)[s])
    BY <1>2, SoundEntries
<1>4. \A s \in Slot : WritePage(PageWith(f))[s].may = table[s].may \cup {PageWith(f)[s]}
    BY <1>2, WritesPage DEF PlaceInv
<1>5. QED
    BY <1>2, <1>3, <1>4

\* Table writes of a sync, whole, failed or dropped.
LEMMA WriteErased ==
    ASSUME PlaceInv, ErasureInv, setup' = setup, NEW p \in Syncer,
           \/ WriteEntries(p) \/ PublishReady(p) \/ WriteEntriesError(p) \/ PublishReadyError(p)
           \/ Drop(p)
    PROVE  ErasureInv' /\ StaysListed
<1>1. /\ UNCHANGED <<owner, phase, tenancies, mustErase, data, writer, free, freeing, released, overwritten>>
      /\ took' \subseteq took /\ newly' \subseteq newly
      /\ DOMAIN snap' \subseteq DOMAIN snap /\ \A s \in DOMAIN snap' : snap'[s] = snap[s]
    BY LeaveLeaves DEF WriteEntries, PublishReady, WriteEntriesError, PublishReadyError, Drop, ghostVars,
       countVars, pendingVars, syncVars
<1>2. /\ DOMAIN snap \subseteq Slot /\ ready \subseteq Slot
      /\ \A s \in DOMAIN snap : Sound(s, snap[s]) /\ snap[s].state = "Allocated"
      /\ \A s \in ready : Sound(s, SlotNow(s)) /\ owner[s] /= 0
    BY SoundEntries DEF PlaceInv, TypeOK, EntriesOK, QueuesOK, ErasureInv, OwnedOK
<1>3. \A s \in Slot : entries'[s] \in {entries[s], Absent}
    BY DEF WriteEntries, PublishReady, WriteEntriesError, PublishReadyError, Drop, pendingVars
<1>4. \A s \in Slot : s \in ready' => owner[s] /= 0
    <2>1. \A s \in Slot : entries[s].state = "Allocated" => owner[s] /= 0
        BY DEF ErasureInv, OwnedOK
    <2>2. ready' \subseteq ready \cup {s \in DOMAIN snap : entries[s] = snap[s]}
        BY DEF WriteEntries, PublishReady, WriteEntriesError, PublishReadyError, Drop, pendingVars
    <2>3. QED
        BY <1>2, <2>1, <2>2
<1>5. \A s \in Slot : s \in unpublished' => s \in unpublished \/ ~Unerased(s)
    <2>1. unpublished' \subseteq unpublished \cup {s \in DOMAIN snap \cap newly : entries[s] = snap[s]}
        BY DEF WriteEntries, PublishReady, WriteEntriesError, PublishReadyError, Drop, pendingVars
    <2>2. \A s \in Slot : Unerased(s) /\ s \in newly => entries[s].state /= "Allocated"
        BY DEF ErasureInv, UnerasedOK
    <2>3. QED
        BY <1>2, <2>1, <2>2
<1>6. \A s \in Slot : /\ page'[s] = page[s] \/ Sound(s, page'[s])
                      /\ \A e \in table'[s].may : e \in table[s].may \/ Sound(s, e)
    <2>1. CASE WriteEntries(p)
        BY <1>2, <2>1, SoundPage DEF WriteEntries
    <2>2. ASSUME NEW f, \A s \in DOMAIN f : Sound(s, f[s]), DOMAIN f \subseteq Slot,
                 NEW landed \in SUBSET DOMAIN f
          PROVE  /\ \A s \in Slot : Sound(s, PageWith([x \in landed |-> f[x]])[s])
                 /\ \A s \in Slot : \A e \in WritePage(PageWith([x \in landed |-> f[x]]))[s].may :
                        e \in table[s].may \/ Sound(s, e)
        <3> DEFINE g == [x \in landed |-> f[x]]
        <3>1. DOMAIN g \subseteq Slot /\ \A s \in DOMAIN g : Sound(s, g[s])
            BY <2>2
        <3> HIDE DEF g
        <3>2. /\ \A s \in Slot : Sound(s, PageWith(g)[s])
              /\ \A s \in Slot : \A e \in WritePage(PageWith(g))[s].may : e \in table[s].may \/ Sound(s, e)
            BY <3>1, SoundPage
        <3>3. QED
            BY <3>2 DEF g
    <2>3. CASE WriteEntriesError(p)
        <3>1. PICK landed \in SUBSET DOMAIN snap : WriteSome(snap, landed)
            BY <2>3 DEF WriteEntriesError
        <3>2. QED
            BY <1>2, <2>2, <3>1 DEF WriteSome
    <2>4. ASSUME PublishReady(p) \/ PublishReadyError(p)
          PROVE  \A s \in Slot : /\ page'[s] = page[s] \/ Sound(s, page'[s])
                                 /\ \A e \in table'[s].may : e \in table[s].may \/ Sound(s, e)
        <3> DEFINE f == [x \in ready |-> SlotNow(x)]
        <3>1. DOMAIN f = ready /\ \A s \in DOMAIN f : Sound(s, f[s])
            BY <1>2
        <3>2. \/ page' = PageWith(f) /\ table' = WritePage(page')
              \/ \E landed \in SUBSET ready : WriteSome(f, landed)
            BY <2>4 DEF PublishReady, PublishReadyError
        <3> HIDE DEF f
        <3>3. CASE page' = PageWith(f) /\ table' = WritePage(page')
            BY <1>2, <3>1, <3>3, SoundPage
        <3>4. CASE \E landed \in SUBSET ready : WriteSome(f, landed)
            <4>1. PICK landed \in SUBSET ready : WriteSome(f, landed)
                BY <3>4
            <4>2. QED
                BY <1>2, <2>2, <3>1, <4>1 DEF WriteSome
        <3>5. QED
            BY <3>2, <3>3, <3>4
    <2>5. CASE Drop(p)
        <3>1. CASE pc[p] = "tabling"
            <4>1. PICK landed \in SUBSET DOMAIN snap, cached \in SUBSET DOMAIN snap :
                      /\ page' = PageWith([s \in cached |-> snap[s]])
                      /\ table' = WritePage(PageWith([s \in landed |-> snap[s]]))
                BY <2>5, <3>1 DEF Drop
            <4>2. \A s \in Slot : Sound(s, page'[s])
                BY <1>2, <2>2, <4>1
            <4>3. \A s \in Slot : \A e \in table'[s].may : e \in table[s].may \/ Sound(s, e)
                BY <1>2, <2>2, <4>1
            <4>4. QED
                BY <4>2, <4>3
        <3>2. CASE pc[p] /= "tabling"
            BY <2>5, <3>2 DEF Drop
        <3>3. QED
            BY <3>1, <3>2
    <2>6. QED
        BY <2>1, <2>3, <2>4, <2>5
<1>7. ASSUME NEW s \in Slot PROVE Carries(s)
    BY <1>1, <1>2, <1>3, <1>4, <1>5, <1>6 DEF Carries
<1>8. QED
    BY <1>1, <1>2, <1>7, Carried

\* A table write under the registry's lock ends.
LEMMA PersistErased ==
    ASSUME PlaceInv, ErasureInv, setup' = setup, Persist \/ PersistError
    PROVE  ErasureInv' /\ StaysListed
<1>1. CASE Persist
    <2> DEFINE r == writer.slot
    <2>1. /\ UNCHANGED <<free, unpublished, ready, freeing, released, overwritten, took, newly, snap,
                          tenancies, owner, phase, mustErase>>
          /\ writer' = NoWriter /\ writer /= NoWriter
          /\ page' = [page EXCEPT ![r] = writer.bytes] /\ table' = WritePage(page')
          /\ \A s \in Slot : entries'[s] \in {entries[s], Absent}
        <3>1. entries \in [Slot -> Entry \cup {Absent}]
            BY DEF PlaceInv, TypeOK, EntriesOK
        <3>2. QED
            BY <1>1, <3>1 DEF Persist, ghostVars, countVars, syncVars
    <2>2. /\ r \in Slot /\ writer.bytes \in Entry /\ page \in [Slot -> Entry] /\ MaxTenancy \in Nat
          /\ data \in [Slot -> Cell(0..MaxTenancy)] /\ DOMAIN snap \subseteq Slot
        BY <2>1, BoundsAreNumbers DEF PlaceInv, TypeOK, EntriesOK
    <2>3. page' \in [Slot -> Entry] /\ \A s \in Slot : page'[s] = IF s = r THEN writer.bytes ELSE page[s]
        BY <2>1, <2>2
    <2>4. \A s \in Slot : Sound(s, page'[s])
        BY <2>1, <2>3, SoundEntries
    <2>5. \A s \in Slot : table'[s].may = table[s].may \cup {page'[s]}
        BY <2>1, <2>3, WritesPage DEF PlaceInv
    <2>6. \A s \in Slot : data'[s].may \subseteq data[s].may \cup {0}
        <3>1. PICK cell \in (IF writer.kind = "free" THEN Discarded(data[r]) ELSE {data[r]}) :
                  data' = [data EXCEPT ![r] = cell]
            BY <1>1 DEF Persist
        <3>2. cell.may \subseteq data[r].may \cup {0}
            BY <2>2, <3>1, DiscardOps
        <3>3. QED
            BY <2>2, <3>1, <3>2
    <2>7. ASSUME NEW s \in Slot PROVE Carries(s)
        <3>1. s \in ready => owner[s] /= 0
            BY DEF ErasureInv, OwnedOK
        <3>2. s \in DOMAIN snap => snap[s].state = "Allocated" /\ Sound(s, snap[s])
            BY SoundEntries DEF ErasureInv, OwnedOK
        <3>3. QED
            BY <2>1, <2>4, <2>5, <2>6, <3>1, <3>2, ZenonT(60) DEF Carries
    <2>8. QED
        BY <2>1, <2>2, <2>7, Carried
<1>2. CASE PersistError
    <2>1. /\ UNCHANGED <<free, unpublished, ready, freeing, released, overwritten, took, newly, snap, entries,
                          page, table, data, tenancies, owner, mustErase>>
          /\ writer' = NoWriter /\ writer /= NoWriter
          /\ phase' = IF writer.kind = "count" THEN [phase EXCEPT ![writer.slot] = "unsure"] ELSE phase
        BY <1>2 DEF PersistError, pendingVars, deviceVars, syncVars, countVars
    <2>2. OwnedOK'
        BY <2>1 DEF ErasureInv, OwnedOK
    <2>3. ASSUME NEW s \in Slot PROVE Carries(s)
        <3>1. s \in ready => owner[s] /= 0
            BY DEF ErasureInv, OwnedOK
        <3>2. s \in DOMAIN snap => snap[s].state = "Allocated" /\ Sound(s, snap[s])
            BY SoundEntries DEF ErasureInv, OwnedOK
        <3>3. QED
            BY <2>1, <3>1, <3>2 DEF Carries
    <2>4. NamesOK'
        BY <2>1, <2>3, NamesCarried
    <2>5. UnerasedOK'
        BY <2>1 DEF ErasureInv, UnerasedOK, Unerased
    <2>6. MustEraseOK'
        BY <2>1, SetupStays DEF ErasureInv, MustEraseOK
    <2>7. QED
        BY <2>1, <2>2, <2>4, <2>5, <2>6, ListedStays DEF ErasureInv
<1>3. QED
    BY <1>1, <1>2

\* A slot is given out: it is none that is to be erased, and its tenancy is new.
LEMMA TakeSlotErased ==
    ASSUME PlaceInv, ErasureInv, setup' = setup,
           NEW from \in SUBSET Slot, from /= {}, TakeSlot(from), tenancies < MaxTenancy,
           from \subseteq free \cup freeing \cup released, freeing' \subseteq freeing, released' \subseteq released,
           \A s \in Slot : table'[s].may \subseteq table[s].may /\ data'[s].may \subseteq data[s].may,
           mustErase' = mustErase
    PROVE  ErasureInv' /\ StaysListed
<1> DEFINE r == Min(from)
           n == tenancies + 1
<1>1. r \in from /\ r \in Slot
    <2>1. from \in SUBSET Nat
        BY BoundsAssumption DEF Slot
    <2>2. QED
        BY <2>1, MinIsMember
<1>2. /\ setup \in Setup /\ tenancies \in 0..MaxTenancy /\ MaxTenancy \in Nat /\ MaxTenancy' = MaxTenancy
      /\ entries \in [Slot -> Entry \cup {Absent}] /\ owner \in [Slot -> 0..MaxTenancy]
    BY BoundsAreNumbers, SetupStays DEF PlaceInv, TypeOK, EntriesOK
<1>3. /\ free' = from \ {r} /\ unpublished' = unpublished \cup {r}
      /\ entries' = [entries EXCEPT ![r] = Allocated(n, 1)]
      /\ tenancies' = n /\ owner' = [owner EXCEPT ![r] = n] /\ phase' = [phase EXCEPT ![r] = "taken"]
      /\ UNCHANGED <<ready, page, writer, took, snap, newly, overwritten>>
    BY DEF TakeSlot, syncVars
<1>4. n \in 1..MaxTenancy /\ n > tenancies /\ ~(n <= tenancies)
    BY <1>2
<1> HIDE DEF r, n
<1>5. /\ \A s \in Slot : entries'[s] = IF s = r THEN Allocated(n, 1) ELSE entries[s]
      /\ \A s \in Slot : owner'[s] = IF s = r THEN n ELSE owner[s]
      /\ Allocated(n, 1).tenancy = n /\ Allocated(n, 1).state = "Allocated"
    BY <1>1, <1>2, <1>3 DEF Allocated
<1>6. ~Unerased(r)
    BY <1>1 DEF ErasureInv, UnerasedOK
<1>7. OwnedOK'
    BY <1>1, <1>3, <1>4, <1>5 DEF ErasureInv, OwnedOK
<1>8. NamesOK'
    <2>1. ASSUME NEW s \in Slot, NEW t \in 1..MaxTenancy, Named(s, t)'
          PROVE  Named(s, t) \/ (s = r /\ t = n)
        BY <1>3, <1>5, <2>1 DEF Named
    <2>2. \A s \in Slot : ~Named(s, n)
        BY <1>4 DEF ErasureInv, NamesOK
    <2>3. QED
        BY <1>2, <1>3, <1>4, <2>1, <2>2 DEF ErasureInv, NamesOK
<1>9. UnerasedOK'
    <2> SUFFICES ASSUME NEW s \in Slot, Unerased(s)'
                 PROVE  /\ s \notin free' /\ s \notin freeing' /\ s \notin released' /\ s \notin took'
                        /\ s \notin unpublished' /\ s \notin overwritten'
                        /\ entries'[s] /= Free
                        /\ writer' /= NoWriter /\ writer'.slot = s => writer'.bytes /= Free
                        /\ s \in newly' => owner'[s] = 0 /\ entries'[s].state /= "Allocated"
        BY DEF UnerasedOK
    <2>1. Unerased(s)
        BY DEF Unerased
    <2>2. s /= r
        BY <1>6, <2>1
    <2>3. QED
        BY <1>1, <1>3, <1>5, <2>1, <2>2 DEF ErasureInv, UnerasedOK
<1>10. MustEraseOK'
    <2>1. n \notin mustErase /\ mustErase \subseteq 1..n
        BY <1>2, <1>4 DEF ErasureInv, MustEraseOK, n
    <2>2. \A s \in Slot : s /= r => phase'[s] = phase[s]
        BY <1>3
    <2>3. QED
        BY <1>3, <1>5, <2>1, <2>2, SetupStays DEF ErasureInv, MustEraseOK
<1>11. StaysListed
    BY <1>3, ListedStays
<1>12. QED
    BY <1>7, <1>8, <1>9, <1>10, <1>11 DEF ErasureInv

\* allocate_deferred and take_slot_or_flush.
LEMMA AllocateErased ==
    ASSUME PlaceInv, ErasureInv, setup' = setup, AllocateDeferred \/ AllocateFlushing
    PROVE  ErasureInv' /\ StaysListed
<1>1. /\ free \in SUBSET Slot /\ released \in SUBSET Slot /\ freeing \in SUBSET Slot
      /\ table \in [Slot -> Cell(Entry)] /\ data \in [Slot -> Cell(0..MaxTenancy)]
    BY DEF PlaceInv, TypeOK, QueuesOK, EntriesOK
<1>2. CASE AllocateDeferred
    BY <1>1, <1>2, TakeSlotErased DEF AllocateDeferred, deviceVars
<1>3. CASE AllocateFlushing
    <2>1. table' = FlushAll(table) /\ data' = FlushAll(data)
        BY <1>3 DEF AllocateFlushing, FlushDevice
    <2>2. \A s \in Slot : table'[s].may \subseteq table[s].may /\ data'[s].may \subseteq data[s].may
        BY <1>1, <2>1, Flushes
    <2>3. QED
        BY <1>1, <1>3, <2>2, TakeSlotErased DEF AllocateFlushing
<1>4. QED
    BY <1>2, <1>3

\* The owner fills its slot: its tenancy is not one to erase.
LEMMA FillErased ==
    ASSUME PlaceInv, ErasureInv, setup' = setup, NEW r \in Slot, Fill(r)
    PROVE  ErasureInv' /\ StaysListed
<1>1. /\ UNCHANGED <<free, unpublished, ready, freeing, released, overwritten, took, newly, snap, entries,
                      page, table, writer, tenancies, owner, mustErase>>
      /\ phase[r] = "taken" /\ phase' = [phase EXCEPT ![r] = "filled"]
      /\ data' = [data EXCEPT ![r] = Put(@, owner[r])]
    BY DEF Fill, pendingVars, syncVars, countVars
<1>2. data \in [Slot -> Cell(0..MaxTenancy)] /\ owner[r] \in 0..MaxTenancy
    BY DEF PlaceInv, TypeOK, EntriesOK
<1>3. /\ \A s \in Slot : s /= r => data'[s].may = data[s].may
      /\ data'[r].may = data[r].may \cup {owner[r]}
    BY <1>1, <1>2 DEF Put
<1>4. OwnedOK'
    BY <1>1 DEF ErasureInv, OwnedOK
<1>5. NamesOK'
    <2>1. ASSUME NEW s \in Slot, NEW t \in 1..MaxTenancy, Named(s, t)' PROVE Named(s, t)
        <3>1. t \in data'[s].may => t \in data[s].may \/ t = owner[s]
            BY <1>3
        <3>2. QED
            BY <1>1, <2>1, <3>1 DEF Named
    <2>2. QED
        BY <1>1, <2>1, SetupStays DEF ErasureInv, NamesOK
<1>6. UnerasedOK'
    <2>1. owner[r] \notin mustErase
        BY <1>1 DEF ErasureInv, MustEraseOK
    <2>2. \A s \in Slot : Unerased(s)' => Unerased(s)
        <3>1. \A s \in Slot : data'[s].may \subseteq data[s].may \cup {owner[r]}
            BY <1>3
        <3>2. QED
            BY <1>1, <2>1, <3>1 DEF Unerased
    <2>3. QED
        BY <1>1, <2>2 DEF ErasureInv, UnerasedOK
<1>7. MustEraseOK'
    BY <1>1, SetupStays DEF ErasureInv, MustEraseOK
<1>8. QED
    BY <1>1, <1>4, <1>5, <1>6, <1>7, ListedStays DEF ErasureInv

\* confirm and the counts: the owner's entry, and nothing on the device.
LEMMA CountErased ==
    ASSUME PlaceInv, ErasureInv, setup' = setup, NEW r \in Slot,
           Confirm(r) \/ IncRefBatch(r) \/ IncRef(r) \/ DecRef(r)
    PROVE  ErasureInv' /\ StaysListed
<1>1. /\ UNCHANGED <<free, unpublished, freeing, released, overwritten, took, newly, snap,
                      page, table, data, tenancies, owner, mustErase>>
      /\ writer = NoWriter /\ ready' \subseteq ready \cup {r}
      /\ phase[r] \in {"filled", "mapped", "unsure"}
      /\ phase' = phase \/ phase' = [phase EXCEPT ![r] = "mapped"]
    BY DEF Confirm, IncRefBatch, IncRef, DecRef, pendingVars, syncVars, countVars, deviceVars, InMap, RegistryFree
<1>2. owner[r] /= 0
    BY <1>1 DEF ErasureInv, OwnedOK
<1>3. phase'[r] /= "taken" /\ \A s \in Slot : s /= r => phase'[s] = phase[s]
    BY <1>1 DEF ErasureInv, OwnedOK
<1>4. /\ setup \in Setup /\ SlotNow(r) \in Entry /\ SlotNow(r).refs \in 0..MaxRefs /\ MaxRefs \in Nat
      /\ entries \in [Slot -> Entry \cup {Absent}]
    BY SlotNowIsEntry, EntryShape, BoundsAreNumbers DEF PlaceInv, TypeOK, EntriesOK
<1>5. PICK e : /\ entries' = [entries EXCEPT ![r] = e]
               /\ \/ e = entries[r] /\ e.state \in {"Absent", "Allocated"}
                  \/ e.state = "Allocated"
               /\ e.tenancy \in {entries[r].tenancy, SlotNow(r).tenancy}
               /\ \/ writer' = NoWriter
                  \/ /\ writer'.slot = r /\ writer' /= NoWriter
                     /\ writer'.bytes = IF r \in unpublished THEN Free ELSE e
                     /\ e.state = "Allocated"
    <2>1. CASE Confirm(r)
        <3>1. entries' = [entries EXCEPT ![r] = entries[r]] /\ writer' = NoWriter
            BY <1>1, <1>4, <2>1 DEF Confirm
        <3>2. entries[r].state \in {"Absent", "Allocated"}
            BY <1>2 DEF ErasureInv, OwnedOK
        <3>3. QED
            BY <3>1, <3>2
    <2>2. ASSUME NEW k \in 1..MaxRefs, Owned(r)
          PROVE  /\ [SlotNow(r) EXCEPT !.refs = k].state = "Allocated"
                 /\ [SlotNow(r) EXCEPT !.refs = k].tenancy = SlotNow(r).tenancy
        <3>1. [SlotNow(r) EXCEPT !.refs = k] = Allocated(SlotNow(r).tenancy, k)
            BY <1>4, <2>2, CountChanges DEF Owned
        <3>2. QED
            BY <3>1 DEF Allocated
    <2>3. CASE IncRefBatch(r)
        <3>1. SlotNow(r).refs + 1 \in 1..MaxRefs /\ Owned(r)
            BY <1>4, <2>3 DEF IncRefBatch
        <3>2. entries' = [entries EXCEPT ![r] = [SlotNow(r) EXCEPT !.refs = @ + 1]] /\ writer' = NoWriter
            BY <1>1, <2>3 DEF IncRefBatch
        <3>3. QED
            BY <2>2, <3>1, <3>2
    <2>4. CASE IncRef(r)
        <3>1. SlotNow(r).refs + 1 \in 1..MaxRefs /\ Owned(r)
            BY <1>4, <2>4 DEF IncRef
        <3>2. /\ entries' = [entries EXCEPT ![r] = [SlotNow(r) EXCEPT !.refs = @ + 1]]
              /\ writer' = [kind |-> "count", slot |-> r,
                            bytes |-> IF r \in unpublished THEN Free ELSE [SlotNow(r) EXCEPT !.refs = @ + 1]]
            BY <2>4 DEF IncRef
        <3>3. /\ writer'.slot = r /\ writer' /= NoWriter
              /\ writer'.bytes = IF r \in unpublished THEN Free ELSE [SlotNow(r) EXCEPT !.refs = @ + 1]
            BY <3>2 DEF NoWriter
        <3>4. QED
            BY <2>2, <3>1, <3>2, <3>3
    <2>5. CASE DecRef(r)
        <3>1. SlotNow(r).refs - 1 \in 1..MaxRefs /\ Owned(r)
            BY <1>4, <2>5 DEF DecRef
        <3>2. entries' = [entries EXCEPT ![r] = [SlotNow(r) EXCEPT !.refs = @ - 1]] /\ writer' = NoWriter
            BY <1>1, <2>5 DEF DecRef
        <3>3. QED
            BY <2>2, <3>1, <3>2
    <2>6. QED
        BY <2>1, <2>3, <2>4, <2>5
<1>6. \A s \in Slot : entries'[s] = IF s = r THEN e ELSE entries[s]
    BY <1>4, <1>5
<1>7. OwnedOK'
    <2>1. \A s \in Slot : /\ entries[s].state = "Allocated" => owner[s] /= 0
                          /\ owner[s] /= 0 => entries[s].state \in {"Absent", "Allocated"}
                          /\ s \in ready => owner[s] /= 0
                          /\ phase[s] /= "none" => owner[s] /= 0
        BY DEF ErasureInv, OwnedOK
    <2>2. phase' \in [Slot -> {"none", "taken", "filled", "mapped", "unsure", "orphan"}]
        BY <1>1 DEF ErasureInv, OwnedOK
    <2>3. \A s \in Slot : phase'[s] /= "none" => owner'[s] /= 0
        BY <1>1, <1>2, <2>1, <2>2
    <2>4. \A s \in Slot : /\ entries'[s].state = "Allocated" => owner'[s] /= 0
                          /\ owner'[s] /= 0 => entries'[s].state \in {"Absent", "Allocated"}
                          /\ s \in ready' => owner'[s] /= 0
        BY <1>1, <1>2, <1>5, <1>6, <2>1
    <2>5. writer' /= NoWriter => owner'[writer'.slot] /= 0
        BY <1>1, <1>2, <1>5
    <2>6. \A s \in DOMAIN snap' : snap'[s].state = "Allocated"
        BY <1>1 DEF ErasureInv, OwnedOK
    <2>7. QED
        BY <2>2, <2>3, <2>4, <2>5, <2>6 DEF OwnedOK
<1>8. NamesOK'
    <2>1. SlotNow(r).tenancy \in {entries[r].tenancy, page[r].tenancy} /\ Free.tenancy = 0
        BY DEF SlotNow, Free
    <2>2. ASSUME NEW s \in Slot, NEW t \in 1..MaxTenancy, Named(s, t)' PROVE Named(s, t)
        BY <1>1, <1>5, <1>6, <2>1, <2>2 DEF Named
    <2>3. QED
        BY <1>1, <2>2, SetupStays DEF ErasureInv, NamesOK
<1>9. UnerasedOK'
    <2> SUFFICES ASSUME NEW s \in Slot, Unerased(s)'
                 PROVE  /\ s \notin free' /\ s \notin freeing' /\ s \notin released' /\ s \notin took'
                        /\ s \notin unpublished' /\ s \notin overwritten'
                        /\ entries'[s] /= Free
                        /\ writer' /= NoWriter /\ writer'.slot = s => writer'.bytes /= Free
                        /\ s \in newly' => owner'[s] = 0 /\ entries'[s].state /= "Allocated"
        BY DEF UnerasedOK
    <2>1. Unerased(s)
        BY <1>1 DEF Unerased
    <2>2. Free.state = "Free"
        BY DEF Free
    <2>3. QED
        BY <1>1, <1>2, <1>5, <1>6, <2>1, <2>2 DEF ErasureInv, UnerasedOK
<1>10. MustEraseOK'
    BY <1>1, <1>3, SetupStays DEF ErasureInv, MustEraseOK
<1>11. StaysListed
    BY <1>1, ListedStays
<1>12. QED
    BY <1>7, <1>8, <1>9, <1>10, <1>11 DEF ErasureInv

\* A step that takes a slot's owner away, or finishes its erase, and sets its
\* entry to match.
LEMMA RetireOwned ==
    ASSUME PlaceInv, ErasureInv, setup' = setup, NEW r \in Slot, NEW e, NEW w,
           UNCHANGED <<snap, page, table, tenancies>>,
           \A s \in Slot : data'[s].may \subseteq data[s].may \cup {0},
           entries' = [entries EXCEPT ![r] = e], e.state \in {"Absent", "Free", "Erasing"},
           e.tenancy \in {0, owner[r]}, w.tenancy \in {0, owner[r]},
           owner' = [owner EXCEPT ![r] = 0], phase' = [phase EXCEPT ![r] = "none"],
           ready' = ready \ {r}, writer = NoWriter,
           writer' = NoWriter \/ (writer'.kind /= "count" /\ writer'.slot = r /\ writer'.bytes = w)
    PROVE  /\ OwnedOK' /\ NamesOK'
           /\ \A s \in Slot : s /= r => /\ entries'[s] = entries[s] /\ owner'[s] = owner[s]
                                        /\ phase'[s] = phase[s]
           /\ entries'[r] = e /\ owner'[r] = 0 /\ phase'[r] = "none"
<1>1. /\ entries \in [Slot -> Entry \cup {Absent}] /\ owner \in [Slot -> 0..MaxTenancy]
      /\ phase \in [Slot -> {"none", "taken", "filled", "mapped", "unsure", "orphan"}]
    BY DEF PlaceInv, TypeOK, EntriesOK, ErasureInv, OwnedOK
<1>2. /\ \A s \in Slot : s /= r => /\ entries'[s] = entries[s] /\ owner'[s] = owner[s]
                                   /\ phase'[s] = phase[s]
      /\ entries'[r] = e /\ owner'[r] = 0 /\ phase'[r] = "none"
    BY <1>1
<1>3. OwnedOK'
    <2>1. phase' \in [Slot -> {"none", "taken", "filled", "mapped", "unsure", "orphan"}]
        BY <1>1
    <2>2. \A s \in Slot : /\ entries'[s].state = "Allocated" => owner'[s] /= 0
                          /\ owner'[s] /= 0 => entries'[s].state \in {"Absent", "Allocated"}
                          /\ s \in ready' => owner'[s] /= 0
                          /\ phase'[s] /= "none" => owner'[s] /= 0
        BY <1>2 DEF ErasureInv, OwnedOK
    <2>3. \A s \in DOMAIN snap' : snap'[s].state = "Allocated"
        BY DEF ErasureInv, OwnedOK
    <2>4. QED
        BY <2>1, <2>2, <2>3 DEF OwnedOK
<1>4. NamesOK'
    <2>1. ASSUME NEW s \in Slot, NEW t \in 1..MaxTenancy, Named(s, t)' PROVE Named(s, t)
        <3>1. t /= 0
            OBVIOUS
        <3>2. t \in data'[s].may => t \in data[s].may
            BY <3>1
        <3>3. CASE s = r
            BY <1>2, <2>1, <3>1, <3>2, <3>3 DEF Named
        <3>4. CASE s /= r
            BY <1>2, <2>1, <3>2, <3>4 DEF Named
        <3>5. QED
            BY <3>3, <3>4
    <2>2. QED
        BY <2>1, SetupStays DEF ErasureInv, NamesOK
<1>5. QED
    BY <1>2, <1>3, <1>4

\* free without an erase level: there is nothing to erase.
LEMMA RetireFreeErased ==
    ASSUME PlaceInv, ErasureInv, setup' = setup, NEW r \in Slot,
           RetireUnpublished(r) \/ RetirePublished(r)
    PROVE  ErasureInv' /\ StaysListed
<1>1. /\ UNCHANGED <<snap, page, table, tenancies, mustErase>> /\ ~Erase
      /\ owner' = [owner EXCEPT ![r] = 0] /\ phase' = [phase EXCEPT ![r] = "none"]
      /\ ready' = ready \ {r} /\ writer = NoWriter
    BY DEF RetireUnpublished, RetirePublished, GiveBack, RegistryFree, syncVars, countVars, deviceVars
<1>2. \A s \in Slot : data'[s].may \subseteq data[s].may \cup {0}
    <2>1. data \in [Slot -> Cell(0..MaxTenancy)] /\ MaxTenancy \in Nat
        BY BoundsAreNumbers DEF PlaceInv, TypeOK, EntriesOK
    <2>2. data' = data \/ \E cell \in Discarded(data[r]) : data' = [data EXCEPT ![r] = cell]
        BY DEF RetireUnpublished, RetirePublished, deviceVars
    <2>3. \A cell \in Discarded(data[r]) : cell.may \subseteq data[r].may \cup {0}
        BY <2>1, DiscardOps
    <2>4. QED
        BY <2>1, <2>2, <2>3
<1>3. /\ Absent.state = "Absent" /\ Absent.tenancy = 0 /\ Free.state = "Free" /\ Free.tenancy = 0
    BY DEF Absent, Free
<1>4. OwnedOK' /\ NamesOK' /\ \A s \in Slot : s /= r => phase'[s] = phase[s] /\ owner'[s] = owner[s]
    <2>1. CASE RetireUnpublished(r)
        <3>1. entries' = [entries EXCEPT ![r] = Absent] /\ writer' = NoWriter
            BY <1>1, <2>1 DEF RetireUnpublished
        <3>2. QED
            BY <1>1, <1>2, <1>3, <3>1, RetireOwned, ZenonT(60)
    <2>2. CASE RetirePublished(r)
        <3>1. /\ entries' = [entries EXCEPT ![r] = Free]
              /\ writer'.kind /= "count" /\ writer'.slot = r /\ writer'.bytes = Free
            BY <1>1, <2>2 DEF RetirePublished
        <3>2. QED
            BY <1>1, <1>2, <1>3, <3>1, RetireOwned, ZenonT(60)
    <2>3. QED
        BY <2>1, <2>2
<1>5. mustErase = {} /\ mustErase' = {}
    BY <1>1 DEF ErasureInv, MustEraseOK
<1>6. UnerasedOK'
    BY <1>5 DEF UnerasedOK, Unerased
<1>7. MustEraseOK'
    BY <1>5 DEF MustEraseOK
<1>8. QED
    BY <1>1, <1>4, <1>6, <1>7, ListedStays DEF ErasureInv

\* free with an erase level: from here the slot is to be erased, and nothing in
\* memory says it is free.
LEMMA RetireErasingErased ==
    ASSUME PlaceInv, ErasureInv, setup' = setup, NEW r \in Slot, RetireErasing(r)
    PROVE  ErasureInv' /\ StaysListed
<1>1. /\ UNCHANGED <<snap, page, table, data, tenancies, free, freeing, released, took, newly, overwritten>> /\ Erase
      /\ owner' = [owner EXCEPT ![r] = 0] /\ phase' = [phase EXCEPT ![r] = "none"]
      /\ ready' = ready \ {r} /\ unpublished' = unpublished \ {r} /\ writer = NoWriter
      /\ entries' = [entries EXCEPT ![r] = Erasing(owner[r])]
      /\ writer'.kind /= "count" /\ writer'.slot = r /\ writer'.bytes = Erasing(owner[r])
      /\ mustErase' = mustErase \cup {owner[r]} /\ owner[r] /= 0
    BY DEF RetireErasing, GiveBack, RegistryFree, LastReference, syncVars, countVars, deviceVars
<1>2. /\ Erasing(owner[r]).state = "Erasing" /\ Erasing(owner[r]).tenancy = owner[r] /\ Erasing(owner[r]) /= Free
    BY DEF Erasing, Free
<1>3. /\ OwnedOK' /\ NamesOK'
      /\ \A s \in Slot : s /= r => /\ entries'[s] = entries[s] /\ owner'[s] = owner[s]
                                   /\ phase'[s] = phase[s]
      /\ entries'[r] = Erasing(owner[r]) /\ owner'[r] = 0 /\ phase'[r] = "none"
    <2>1. \A s \in Slot : data'[s].may \subseteq data[s].may \cup {0}
        BY <1>1
    <2>2. UNCHANGED <<snap, page, table, tenancies>>
        BY <1>1
    <2>3. PICK e, w : e = Erasing(owner[r]) /\ w = Erasing(owner[r])
        OBVIOUS
    <2>4. /\ entries' = [entries EXCEPT ![r] = e] /\ e.state \in {"Absent", "Free", "Erasing"}
          /\ e.tenancy \in {0, owner[r]} /\ w.tenancy \in {0, owner[r]}
          /\ writer'.kind /= "count" /\ writer'.slot = r /\ writer'.bytes = w
        BY <1>1, <1>2, <2>3
    <2>5. QED
        BY <1>1, <2>1, <2>2, <2>3, <2>4, RetireOwned
<1>4. \A s \in Slot \ {r} : owner[r] \notin data[s].may /\ owner[s] /= owner[r]
    <2>1. owner[r] \in 1..MaxTenancy
        BY <1>1 DEF PlaceInv, TypeOK, EntriesOK
    <2>2. Named(r, owner[r])
        BY DEF Named
    <2>3. \A s \in Slot \ {r} : ~Named(s, owner[r])
        BY <2>1, <2>2 DEF ErasureInv, NamesOK
    <2>4. QED
        BY <2>3 DEF Named
<1>5. \A s \in Slot : s /= r /\ Unerased(s)' => Unerased(s)
    BY <1>1, <1>4 DEF Unerased
<1>6. UnerasedOK'
    <2> SUFFICES ASSUME NEW s \in Slot, Unerased(s)'
                 PROVE  /\ s \notin free' /\ s \notin freeing' /\ s \notin released' /\ s \notin took'
                        /\ s \notin unpublished' /\ s \notin overwritten'
                        /\ entries'[s] /= Free
                        /\ writer' /= NoWriter /\ writer'.slot = s => writer'.bytes /= Free
                        /\ s \in newly' => owner'[s] = 0 /\ entries'[s].state /= "Allocated"
        BY DEF UnerasedOK
    <2>1. CASE s /= r
        <3>1. Unerased(s)
            BY <1>5, <2>1
        <3>2. QED
            BY <1>1, <1>3, <2>1, <3>1 DEF ErasureInv, UnerasedOK
    <2>2. CASE s = r
        <3>1. r \notin free /\ r \notin freeing /\ r \notin released /\ r \notin took /\ r \notin overwritten
            BY <1>1 DEF PlaceInv, PlacesOK, TypeOK, QueuesOK
        <3>2. QED
            BY <1>1, <1>2, <1>3, <2>2, <3>1
    <2>3. QED
        BY <2>1, <2>2
<1>7. MustEraseOK'
    <2>1. owner[r] \in 1..tenancies
        <3>1. owner[r] \in 1..MaxTenancy /\ Named(r, owner[r])
            BY <1>1 DEF PlaceInv, TypeOK, EntriesOK, Named
        <3>2. owner[r] <= tenancies /\ tenancies \in Nat
            BY <3>1 DEF ErasureInv, NamesOK, PlaceInv, TypeOK, EntriesOK
        <3>3. QED
            BY <3>1, <3>2
    <2>2. \A s \in Slot : phase'[s] = "taken" => owner'[s] \notin mustErase'
        BY <1>1, <1>3, <1>4 DEF ErasureInv, MustEraseOK
    <2>3. QED
        BY <1>1, <2>1, <2>2, SetupStays DEF ErasureInv, MustEraseOK
<1>8. QED
    BY <1>1, <1>3, <1>6, <1>7, ListedStays DEF ErasureInv

\* finish_erase: the slot has been overwritten.
LEMMA FinishErased ==
    ASSUME PlaceInv, ErasureInv, setup' = setup, NEW r \in Slot, FinishErase(r)
    PROVE  ErasureInv' /\ StaysListed
<1>1. /\ UNCHANGED <<snap, page, table, data, tenancies, free, released, took, newly, unpublished, ready,
                      owner, phase, mustErase>>
      /\ r \in overwritten /\ overwritten' = overwritten \ {r} /\ freeing' = freeing \cup {r}
      /\ writer = NoWriter /\ entries' = [entries EXCEPT ![r] = Free]
      /\ writer'.kind /= "count" /\ writer'.slot = r /\ writer'.bytes = Free
    BY DEF FinishErase, RegistryFree, ghostVars, syncVars, countVars, deviceVars
<1>2. owner[r] = 0 /\ ~Unerased(r)
    BY <1>1 DEF PlaceInv, PlacesOK, TypeOK, QueuesOK, ErasureInv, UnerasedOK
<1>3. /\ owner \in [Slot -> 0..MaxTenancy] /\ entries \in [Slot -> Entry \cup {Absent}]
      /\ phase \in [Slot -> {"none", "taken", "filled", "mapped", "unsure", "orphan"}]
    BY DEF PlaceInv, TypeOK, EntriesOK, ErasureInv, OwnedOK
<1>4. r \notin ready /\ phase[r] = "none"
    BY <1>2 DEF ErasureInv, OwnedOK
<1>5. /\ owner' = [owner EXCEPT ![r] = 0] /\ phase' = [phase EXCEPT ![r] = "none"] /\ ready' = ready \ {r}
    BY <1>1, <1>2, <1>3, <1>4
<1>6. Free.state = "Free" /\ Free.tenancy = 0
    BY DEF Free
<1>7. OwnedOK' /\ NamesOK' /\ \A s \in Slot : s /= r => entries'[s] = entries[s]
    <2>1. \A s \in Slot : data'[s].may \subseteq data[s].may \cup {0}
        BY <1>1
    <2>2. UNCHANGED <<snap, page, table, tenancies>>
        BY <1>1
    <2>3. PICK e, w : e = Free /\ w = Free
        OBVIOUS
    <2>4. /\ entries' = [entries EXCEPT ![r] = e] /\ e.state \in {"Absent", "Free", "Erasing"}
          /\ e.tenancy \in {0, owner[r]} /\ w.tenancy \in {0, owner[r]}
          /\ writer'.kind /= "count" /\ writer'.slot = r /\ writer'.bytes = w
        BY <1>1, <1>6, <2>3
    <2>5. QED
        BY <1>1, <1>5, <2>1, <2>2, <2>3, <2>4, RetireOwned, ZenonT(60)
<1>8. UnerasedOK'
    <2>1. \A s \in Slot : Unerased(s)' => Unerased(s) /\ s /= r
        BY <1>1, <1>2 DEF Unerased
    <2>2. QED
        BY <1>1, <1>7, <2>1 DEF ErasureInv, UnerasedOK
<1>9. MustEraseOK'
    BY <1>1, SetupStays DEF ErasureInv, MustEraseOK
<1>10. QED
    BY <1>1, <1>7, <1>8, <1>9, ListedStays DEF ErasureInv

\* Opening the slab after a power cut: a slot found Free has no one left to
\* erase, and one that was listed is not found Free.
LEMMA CutErased ==
    ASSUME PlaceInv, ErasureInv, setup' = setup, PowerCut
    PROVE  ErasureInv' /\ StaysListed
<1>1. /\ setup \in Setup /\ MaxTenancy \in Nat
      /\ table \in [Slot -> Cell(Entry)] /\ data \in [Slot -> Cell(0..MaxTenancy)]
    BY BoundsAreNumbers DEF PlaceInv, TypeOK, EntriesOK
<1>2. PICK entry \in Cut(table), bytes \in Cut(data) : Open(entry, bytes)
    BY DEF PowerCut
<1>3. /\ entry \in [Slot -> Entry] /\ bytes \in [Slot -> 0..MaxTenancy]
      /\ \A s \in Slot : entry[s] \in table[s].may /\ bytes[s] \in data[s].may
    BY <1>1, CutKeeps
<1>4. \A s \in Slot : /\ entry[s].state = "Allocated" => entry[s].tenancy /= 0
                      /\ entry[s].state = "Free" <=> entry[s] = Free
    BY <1>1, <1>3, EntryShape
<1>5. /\ unpublished' = {} /\ ready' = {} /\ freeing' = {} /\ released' = {}
      /\ entries' = [s \in Slot |-> Absent] /\ writer' = NoWriter
      /\ took' = {} /\ snap' = [s \in {} |-> Free] /\ newly' = {} /\ overwritten' = {}
      /\ tenancies' = tenancies
      /\ mustErase' = mustErase \ UNION {data[s].may : s \in {x \in Slot : page'[x] = Free}}
    BY DEF PowerCut
<1>6. /\ page' = entry
      /\ free' = {s \in Slot : entry[s].state = "Free"}
      /\ owner' = [s \in Slot |-> IF entry[s].state = "Allocated" THEN entry[s].tenancy ELSE 0]
      /\ phase' = [s \in Slot |-> IF entry[s].state /= "Allocated" THEN "none"
                                   ELSE IF entry[s].tenancy \in gaveBack THEN "orphan" ELSE "mapped"]
      /\ \A s \in Slot : table'[s].may = {entry[s]} /\ data'[s].may = {bytes[s]}
    BY <1>2 DEF Open, Durable
<1>7. Absent.state = "Absent" /\ Absent.tenancy = 0 /\ Absent /= Free
    BY DEF Absent, Free
<1>8. OwnedOK'
    BY <1>4, <1>5, <1>6, <1>7 DEF OwnedOK
<1>9. NamesOK'
    <2>1. ASSUME NEW s \in Slot, NEW t \in 1..MaxTenancy, Named(s, t)' PROVE Named(s, t)
        <3>1. t \in {entry[s].tenancy, bytes[s]}
            BY <1>5, <1>6, <1>7, <2>1 DEF Named
        <3>2. QED
            BY <1>3, <3>1 DEF Named
    <2>2. QED
        BY <1>5, <2>1, SetupStays DEF ErasureInv, NamesOK
<1>10. UnerasedOK'
    <2> SUFFICES ASSUME NEW s \in Slot, Unerased(s)'
                 PROVE  s \notin free' /\ entries'[s] /= Free
        BY <1>5 DEF UnerasedOK
    <2>1. bytes[s] \in mustErase' /\ bytes[s] \in data[s].may
        BY <1>3, <1>6 DEF Unerased
    <2>2. entry[s] /= Free
        BY <1>5, <1>6, <2>1
    <2>3. QED
        BY <1>4, <1>5, <1>6, <1>7, <2>2
<1>11. MustEraseOK'
    <2>1. mustErase' \subseteq mustErase /\ \A s \in Slot : phase'[s] /= "taken"
        BY <1>5, <1>6
    <2>2. QED
        BY <1>5, <2>1, SetupStays DEF ErasureInv, MustEraseOK
<1>12. StaysListed
    <2>1. \A s \in Slot : page'[s] \in table[s].may /\ table'[s].may = {page'[s]}
        BY <1>3, <1>6
    <2>2. QED
        BY <2>1 DEF StaysListed, Listed
<1>13. QED
    BY <1>8, <1>9, <1>10, <1>11, <1>12 DEF ErasureInv

\* Every step keeps the erasure invariant.
LEMMA NextErased ==
    ASSUME PlaceInv, ErasureInv, Next
    PROVE  ErasureInv' /\ StaysListed
<1>1. setup' = setup
    BY DEF Next
<1>2. ASSUME OwnerStep PROVE ErasureInv' /\ StaysListed
    BY <1>1, <1>2, AllocateErased, FillErased, CountErased, RetireFreeErased, RetireErasingErased, PersistErased
       DEF OwnerStep
<1>3. ASSUME NEW p \in Syncer, Ask(p) \/ Lock(p) \/ SyncStep(p) \/ SyncFault(p) \/ Drop(p)
      PROVE  ErasureInv' /\ StaysListed
    BY <1>1, <1>3, QueueErased, FlushErased, WriteErased DEF SyncStep, SyncFault
<1>4. ASSUME NEW s \in Slot, EraseStep(s) PROVE ErasureInv' /\ StaysListed
    BY <1>1, <1>4, QueueErased, FlushErased, FinishErased DEF EraseStep
<1>5. QED
    BY <1>1, <1>2, <1>3, <1>4, CutErased DEF Next, Step

\* Nothing has been retired when the slab starts.
LEMMA InitErased ==
    ASSUME Init
    PROVE  ErasureInv
<1>1. /\ Absent.state = "Absent" /\ Absent.tenancy = 0 /\ Free.tenancy = 0
      /\ Durable(Free).may = {Free} /\ Durable(0).may = {0}
    BY DEF Absent, Free, Durable
<1>2. OwnedOK
    BY <1>1 DEF Init, OwnedOK
<1>3. \A s \in Slot, t \in 1..MaxTenancy : ~Named(s, t)
    BY <1>1 DEF Init, Named
<1>4. NamesOK
    BY <1>3 DEF NamesOK
<1>5. UnerasedOK /\ MustEraseOK
    BY DEF Init, UnerasedOK, Unerased, MustEraseOK
<1>6. QED
    BY <1>2, <1>4, <1>5 DEF ErasureInv

\* The erasure invariant holds throughout a behaviour.
THEOREM ErasureHolds == Spec => []ErasureInv
<1>1. Init => ErasureInv
    BY InitErased
<1>2. PlaceInv /\ ErasureInv /\ [Next]_vars => ErasureInv'
    <2>1. ASSUME ErasureInv, UNCHANGED vars PROVE ErasureInv'
        BY <2>1, SetupStays DEF ErasureInv, OwnedOK, NamesOK, Named, UnerasedOK, Unerased, MustEraseOK, vars,
           slabVars, pendingVars, deviceVars, gateVars, syncVars, countVars, ghostVars
    <2>2. QED
        BY <2>1, NextErased
<1>3. QED
    BY <1>1, <1>2, PlacesHold, PTL DEF Spec

\* retire, take_erasing, finish_erase and Slab::open: what a tenancy retired for
\* erasure left on the media is gone before an allocation can reach its slot, and
\* once the slot's entry is on the media every power cut finds it, until then.
THEOREM AlwaysErasedBeforeReuse == Spec => ErasedBeforeReuse
<1> DEFINE A == \A s \in Slot :
                    /\ Unerased(s)' => s \notin free' \cup released' \cup freeing' \cup took'
                    /\ Unerased(s) /\ Listed(s) => Listed(s)' \/ data'[s].may \cap mustErase = {}
<1>1. PlaceInv /\ ErasureInv /\ [Next]_vars => [A]_vars
    <2>1. ASSUME PlaceInv, ErasureInv, Next PROVE A
        <3>1. ErasureInv' /\ StaysListed
            BY <2>1, NextErased
        <3>2. QED
            BY <3>1 DEF ErasureInv, UnerasedOK, StaysListed
    <2>2. QED
        BY <2>1
<1>2. QED
    BY <1>1, PlacesHold, ErasureHolds, PTL DEF Spec, ErasedBeforeReuse

-----------------------------------------------------------------------------
(* Entries name their data. *)

\* The running sync is at one of these places.
At(places) == running \in Syncer /\ pc[running] \in places

\* The entries a power cut or a write of the page can leave for a slot.
Says(s) == table[s].may \cup {page[s]}

InUse == {"mapped", "unsure"}

\* Whose entries memory, the page cache and the writes on their way hold.
EntriesMine(s) ==
    /\ entries[s].state = "Allocated" => entries[s].tenancy = owner[s]
    /\ owner[s] /= 0 /\ entries[s] = Absent /\ page[s].state = "Allocated" => page[s].tenancy = owner[s]
    /\ s \in ready => phase[s] \in InUse
    /\ phase[s] \in {"taken", "filled"} => s \in unpublished
    /\ page[s] = table[s].cur \/ table[s].cur.state = "Allocated"
    /\ \A e \in Says(s) : owner[s] /= 0 /\ e.tenancy = owner[s] => phase[s] \in InUse \cup {"orphan"}

\* The table write the registry is held for.
WriterMine(s) ==
    writer /= NoWriter /\ writer.slot = s =>
        /\ writer.kind = "count" => phase[s] \in InUse
        /\ writer.kind /= "count" => owner[s] = 0 /\ writer.bytes.state /= "Allocated"
        /\ writer.bytes.state = "Allocated" => /\ writer.bytes.tenancy = owner[s]
                                               /\ s \notin late \cup lost => data[s].may = {owner[s]}

\* The entries the running sync writes: the slot's owner's, or of one who
\* freed it since and waits for the table's page.
SnapMine(s) ==
    s \in DOMAIN snap =>
        /\ At({"tabling"}) =>
               /\ s \notin unpublished
               /\ \/ owner[s] = snap[s].tenancy /\ phase[s] \in InUse
                  \/ /\ owner[s] = 0 /\ snap[s].tenancy \in gaveBack
                     /\ writer /= NoWriter /\ writer.slot = s
                     /\ s \notin free /\ s \notin released /\ s \notin erasing_now
               /\ s \notin lost => /\ data[s].cur = snap[s].tenancy
                                   /\ s \notin late => data[s].may = {snap[s].tenancy}
        /\ At({"written"}) /\ owner[s] = snap[s].tenancy /\ page[s].state = "Allocated" =>
               page[s].tenancy = owner[s]

\* Which tenancies an entry may name, outside the window `early`.
NamesMine(s) ==
    /\ s \in early => phase[s] /= "orphan"
    /\ s \notin early /\ s \notin lost =>
        \A e \in Says(s) : e.state = "Allocated" =>
            /\ s \notin free /\ s \notin released
            /\ e.tenancy = owner[s] \/ (owner[s] = 0 /\ e.tenancy \in gaveBack)

\* The data of a slot: its owner's once filled, on the media once the running
\* sync has flushed or once its entry is published.
DataMine(s) ==
    /\ s \notin lost /\ phase[s] \in InUse \cup {"filled"} => data[s].cur = owner[s]
    /\ s \notin late \cup lost /\ phase[s] \in InUse \cup {"filled"} /\ At({"publishing", "checking"}) =>
           data[s].may = {owner[s]}
    /\ s \notin late \cup lost /\ phase[s] \in InUse /\ s \notin unpublished => data[s].may = {owner[s]}
    /\ s \notin early \cup lost => \A e \in Says(s) : e.state = "Allocated" =>
           data[s].cur = e.tenancy \/ (data[s].cur = 0 /\ e.tenancy \in gaveBack)
    /\ s \notin early \cup late \cup lost => \A e \in Says(s) : \A d \in data[s].may : e.state = "Allocated" =>
           d = e.tenancy \/ (d = 0 /\ e.tenancy \in gaveBack)

SlotMine(s) == EntriesMine(s) /\ WriterMine(s) /\ SnapMine(s) /\ NamesMine(s) /\ DataMine(s)

MineInv == \A s \in Slot : SlotMine(s)

\* An entry that may be written for a slot: its owner's, with its data on the
\* media, or of one who freed it.
Good(s, e) ==
    /\ owner[s] /= 0 /\ e.tenancy = owner[s] => phase[s] \in InUse \cup {"orphan"}
    /\ e.state = "Allocated" =>
        /\ e.tenancy = owner[s] \/ (owner[s] = 0 /\ e.tenancy \in gaveBack)
        /\ s \notin free /\ s \notin released
        /\ s \notin lost => data[s].cur = e.tenancy
        /\ s \notin late \cup lost => data[s].may = {e.tenancy}

\* What a step that neither gives a slot out, fills it, frees it nor flushes the
\* device may do to it.
Keeps(s) ==
    /\ owner'[s] = owner[s] /\ gaveBack \subseteq gaveBack'
    /\ phase'[s] = phase[s] \/ (phase[s] \in InUse /\ phase'[s] \in InUse)
    /\ (s \in early' <=> s \in early) /\ (s \in late' <=> s \in late) /\ (s \in lost' <=> s \in lost)
    /\ \A e \in Says(s)' : e \in Says(s) \/ Good(s, e)
    /\ page'[s] = page[s] \/ Good(s, page'[s])
    /\ \/ table'[s].cur = page'[s] \/ table'[s].cur.state = "Allocated"
       \/ table'[s].cur = table[s].cur /\ page'[s] = page[s]
    /\ \/ entries'[s] = entries[s]
       \/ /\ entries'[s].state = "Allocated" => entries'[s].tenancy = owner[s]
          /\ entries'[s] = Absent /\ owner[s] /= 0 /\ page'[s].state = "Allocated" => page'[s].tenancy = owner[s]
    /\ s \in ready' => s \in ready \/ phase[s] \in InUse
    /\ s \in unpublished => \/ s \in unpublished'
                            \/ /\ phase[s] \in InUse
                               /\ s \notin late \cup lost => data[s].may = {owner[s]}
    /\ s \in free' \/ s \in released' => s \in free \/ s \in released
    /\ At({"publishing", "checking"})' => At({"publishing", "checking"})
    /\ \/ data'[s] = data[s]
       \/ /\ owner[s] = 0 /\ data'[s].cur \in {data[s].cur, 0} /\ data'[s].may \subseteq data[s].may \cup {0}
          /\ \A e \in Says(s)' : e \in Says(s) \/ e.state /= "Allocated"

\* A slot a step keeps stays in order, once its writes on their way are.
LEMMA Kept ==
    ASSUME ErasureInv, NEW s \in Slot, SlotMine(s), Keeps(s), WriterMine(s)', SnapMine(s)'
    PROVE  SlotMine(s)'
<1>1. phase[s] /= "none" => owner[s] /= 0
    BY DEF ErasureInv, OwnedOK
<1>2. EntriesMine(s)'
    BY DEF SlotMine, EntriesMine, Keeps, Good, InUse, Says
<1>3. NamesMine(s)'
    BY DEF SlotMine, NamesMine, Keeps, Good, InUse
<1>4. ASSUME data'[s] = data[s] PROVE DataMine(s)'
    BY <1>1, <1>4 DEF SlotMine, DataMine, Keeps, Good, InUse
<1>5. ASSUME data'[s] /= data[s] PROVE DataMine(s)'
    BY <1>1, <1>5 DEF SlotMine, DataMine, NamesMine, Keeps, InUse
<1>6. QED
    BY <1>2, <1>3, <1>4, <1>5 DEF SlotMine

\* The write the registry is held for goes on, ends, or is of another slot.
LEMMA WriterKept ==
    ASSUME ErasureInv, NEW s \in Slot, SlotMine(s), Keeps(s),
           writer' = writer \/ writer' = NoWriter \/ writer'.slot /= s
    PROVE  WriterMine(s)'
<1>1. phase[s] /= "none" => owner[s] /= 0
    BY DEF ErasureInv, OwnedOK
<1>2. CASE writer' = writer
    BY <1>1, <1>2 DEF SlotMine, WriterMine, Keeps, InUse
<1>3. CASE writer' = NoWriter \/ writer'.slot /= s
    BY <1>3 DEF WriterMine
<1>4. QED
    BY <1>2, <1>3

\* The entries a sync writes stay as they are, or nobody waits to write them.
LEMMA SnapKept ==
    ASSUME PlaceInv, ErasureInv, NEW s \in Slot, SlotMine(s), Keeps(s),
           s \in DOMAIN snap' => \/ s \in DOMAIN snap /\ snap'[s] = snap[s]
                                 \/ ~At({"tabling"})' /\ ~At({"written"})',
           At({"written"})' => At({"written"}) \/ s \notin DOMAIN snap',
           At({"tabling"})' => /\ At({"tabling"}) /\ data'[s] = data[s]
                               /\ s \in unpublished' => s \in unpublished
                               /\ writer = NoWriter \/ writer' = writer
                               /\ s \in erasing_now' => s \in erasing_now \/ writer = NoWriter
    PROVE  SnapMine(s)'
<1>1. ASSUME At({"tabling"})', s \in DOMAIN snap'
      PROVE  /\ s \notin unpublished'
             /\ \/ owner'[s] = snap'[s].tenancy /\ phase'[s] \in InUse
                \/ /\ owner'[s] = 0 /\ snap'[s].tenancy \in gaveBack'
                   /\ writer' /= NoWriter /\ writer'.slot = s
                   /\ s \notin free' /\ s \notin released' /\ s \notin erasing_now'
             /\ s \notin lost' => /\ data'[s].cur = snap'[s].tenancy
                                  /\ s \notin late' => data'[s].may = {snap'[s].tenancy}
    BY <1>1 DEF SlotMine, SnapMine, Keeps
<1>2. ASSUME At({"written"})', s \in DOMAIN snap', owner'[s] = snap'[s].tenancy, page'[s].state = "Allocated"
      PROVE  page'[s].tenancy = owner'[s]
    <2>1. snap[s].state = "Allocated" /\ snap[s].tenancy /= 0
        <3>1. s \in DOMAIN snap /\ setup \in Setup /\ snap[s] \in Entry /\ snap[s].state = "Allocated"
            BY <1>2 DEF PlaceInv, TypeOK, EntriesOK, ErasureInv, OwnedOK
        <3>2. QED
            BY <3>1, EntryShape, BoundsAreNumbers
    <2>2. QED
        BY <1>2, <2>1 DEF SlotMine, SnapMine, Keeps, Good
<1>3. QED
    BY <1>1, <1>2 DEF SnapMine

\* A call that returns leaves the gate where it was, or free.
LEMMA AtLeaves ==
    ASSUME PlaceInv, NEW p \in Syncer, NEW answer, Leave(p, answer)
    PROVE  /\ \A S : At(S)' => At(S) /\ running /= p /\ snap' = snap
           /\ UNCHANGED <<free, writer, owner, phase, gaveBack>>
<1>1. /\ pc' = [pc EXCEPT ![p] = "idle"] /\ pc \in [Syncer -> Pc]
      /\ running' = (IF running = p THEN None ELSE running)
      /\ running /= p => snap' = snap
    BY DEF Leave, PlaceInv, TypeOK, GateOK
<1>2. UNCHANGED <<free, writer, owner, phase, gaveBack>>
    BY DEF Leave
<1>3. QED
    BY <1>1, <1>2, NoneAssumption DEF At

\* Steps of the gate that begin no publishing and write nothing.
LEMMA GateStays ==
    ASSUME PlaceInv, NEW p \in Syncer,
           \/ Ask(p) \/ Lock(p) \/ Covered(p) \/ TakeFreeing(p) \/ ReadEntries(p) \/ ReadAgain(p)
           \/ ForgetWritten(p) \/ PublishReady(p) \/ NothingToPublish(p) \/ FirstFlushError(p)
           \/ SecondFlushError(p) \/ WriteEntriesError(p) \/ PublishReadyError(p) \/ Drop(p)
    PROVE  /\ At({"publishing", "checking"})' => At({"publishing", "checking"})
           /\ At({"tabling"})' => At({"tabling"}) /\ snap' = snap
           /\ At({"written"})' => At({"written"}) /\ snap' = snap
<1>1. pc \in [Syncer -> Pc]
    BY DEF PlaceInv, TypeOK, GateOK
<1>2. CASE Ask(p)
    <2>1. running \in Syncer => pc[running] \in Active /\ "idle" \notin Active
        BY DEF PlaceInv, HolderOK, Active
    <2>2. UNCHANGED <<running, snap>> /\ pc[p] = "idle" /\ pc' = [pc EXCEPT ![p] = "waiting"]
        BY <1>2 DEF Ask, syncVars
    <2>3. QED
        BY <1>1, <2>1, <2>2 DEF At
<1>3. CASE Lock(p)
    BY <1>1, <1>3 DEF Lock, At
<1>4. CASE TakeFreeing(p) \/ ReadEntries(p) \/ ReadAgain(p) \/ ForgetWritten(p) \/ PublishReady(p)
    <2>1. \/ pc' = [pc EXCEPT ![p] = "flushing"] \/ pc' = [pc EXCEPT ![p] = "published"]
          \/ pc' = [pc EXCEPT ![p] = "flushing again"]
          \/ pc' = [pc EXCEPT ![p] = "checking"] /\ pc[p] = "publishing"
          \/ pc' = [pc EXCEPT ![p] = "publishing"] /\ pc[p] = "checking"
        BY <1>4 DEF TakeFreeing, ReadEntries, ReadAgain, ForgetWritten, PublishReady
    <2>2. pc[p] \in Active
        BY <1>4 DEF TakeFreeing, ReadEntries, ReadAgain, ForgetWritten, PublishReady, Active
    <2>3. running' = running
        BY <1>4 DEF TakeFreeing, ReadEntries, ReadAgain, ForgetWritten, PublishReady
    <2>4. running = p
        BY <2>2, HolderFacts
    <2>5. QED
        BY <1>1, <2>1, <2>3, <2>4 DEF At
<1>5. CASE Covered(p) \/ NothingToPublish(p) \/ FirstFlushError(p) \/ SecondFlushError(p)
           \/ WriteEntriesError(p) \/ PublishReadyError(p) \/ Drop(p)
    <2>1. PICK answer \in {"ok", "err", "dropped"} : Leave(p, answer)
        BY <1>5 DEF Covered, NothingToPublish, FirstFlushError, SecondFlushError, WriteEntriesError,
           PublishReadyError, Drop
    <2>2. QED
        BY <2>1, AtLeaves
<1>6. QED
    BY <1>2, <1>3, <1>4, <1>5

\* Steps that change no slot's entry or data: the gate's, a sync reading
\* entries, the eraser's queues; x is a syncer or a slot.
LEMMA QueueMine ==
    ASSUME PlaceInv, ErasureInv, MineInv, NEW x, NEW s \in Slot,
           \/ x \in Syncer /\ \/ Ask(x) \/ Lock(x) \/ Covered(x) \/ TakeFreeing(x) \/ ReadEntries(x)
                              \/ ReadAgain(x) \/ NothingToPublish(x) \/ FirstFlushError(x) \/ SecondFlushError(x)
           \/ TakeErasing(x) \/ ReturnErase(x)
    PROVE  SlotMine(s)'
<1>1. /\ UNCHANGED <<owner, phase, gaveBack, page, table, data, writer, free, released, unpublished, entries>>
      /\ early' = early /\ late' = late /\ lost' = lost /\ ready' \subseteq ready
      /\ erasing_now' = erasing_now \/ writer = NoWriter
    BY AtLeaves DEF Ask, Lock, Covered, TakeFreeing, ReadEntries, ReadAgain, NothingToPublish, FirstFlushError,
       SecondFlushError, TakeErasing, ReturnErase, ghostVars, windowVars, deviceVars, pendingVars, RegistryFree
<1>2. /\ At({"publishing", "checking"})' => At({"publishing", "checking"})
      /\ At({"tabling"})' => At({"tabling"}) /\ snap' = snap
      /\ At({"written"})' => At({"written"}) /\ snap' = snap
    <2>1. CASE TakeErasing(x) \/ ReturnErase(x)
        BY <2>1 DEF TakeErasing, ReturnErase, gateVars, syncVars, At
    <2>2. CASE ~(TakeErasing(x) \/ ReturnErase(x))
        BY <2>2, GateStays
    <2>3. QED
        BY <2>1, <2>2
<1>3. SlotMine(s)
    BY DEF MineInv
<1>4. Keeps(s)
    BY <1>1, <1>2 DEF Keeps, Says
<1>5. WriterMine(s)'
    BY <1>1, <1>3, <1>4, WriterKept
<1>6. SnapMine(s)'
    BY <1>1, <1>2, <1>3, <1>4, SnapKept
<1>7. QED
    BY <1>3, <1>4, <1>5, <1>6, Kept

\* What a sync writes: the entries it took, or with the registry held those of
\* the slots that are ready.
LEMMA GoodEntries ==
    ASSUME PlaceInv, ErasureInv, MineInv, NEW s \in Slot
    PROVE  /\ At({"tabling"}) /\ s \in DOMAIN snap => Good(s, snap[s]) /\ snap[s].state = "Allocated"
           /\ At({"publishing", "checking"}) /\ s \in ready =>
                  Good(s, SlotNow(s)) /\ (SlotNow(s).state = "Allocated" => SlotNow(s).tenancy = owner[s])
<1>1. SlotMine(s)
    BY DEF MineInv
<1>2. /\ setup \in Setup /\ entries[s] \in Entry \cup {Absent} /\ page[s] \in Entry
      /\ s \in DOMAIN snap => snap[s] \in Entry /\ snap[s].state = "Allocated"
      /\ phase[s] /= "none" => owner[s] /= 0
      /\ owner[s] /= 0 => s \notin free /\ s \notin released
    BY DEF PlaceInv, TypeOK, EntriesOK, PlacesOK, ErasureInv, OwnedOK
<1>3. s \in DOMAIN snap => snap[s].tenancy /= 0
    BY <1>2, EntryShape, BoundsAreNumbers
<1>4. ASSUME At({"tabling"}), s \in DOMAIN snap PROVE Good(s, snap[s]) /\ snap[s].state = "Allocated"
    BY <1>1, <1>2, <1>3, <1>4 DEF SlotMine, SnapMine, Good, InUse
<1>5. ASSUME At({"publishing", "checking"}), s \in ready
      PROVE  Good(s, SlotNow(s)) /\ (SlotNow(s).state = "Allocated" => SlotNow(s).tenancy = owner[s])
    <2>1. phase[s] \in InUse /\ owner[s] /= 0
        BY <1>1, <1>2, <1>5 DEF SlotMine, EntriesMine, InUse
    <2>2. SlotNow(s).state = "Allocated" => SlotNow(s).tenancy = owner[s]
        BY <1>1, <2>1 DEF SlotMine, EntriesMine, SlotNow
    <2>3. QED
        BY <1>1, <1>2, <1>5, <2>1, <2>2 DEF SlotMine, DataMine, Good
<1>6. QED
    BY <1>4, <1>5

\* What writing some of the entries of f leaves in the page and in the table.
LEMMA PageWrites ==
    ASSUME PlaceInv, NEW f, DOMAIN f \subseteq Slot, \A x \in DOMAIN f : f[x] \in Entry,
           NEW landed \in SUBSET DOMAIN f, NEW s \in Slot
    PROVE  /\ PageWith([x \in landed |-> f[x]])[s] = IF s \in landed THEN f[s] ELSE page[s]
           /\ WritePage(PageWith([x \in landed |-> f[x]]))[s].cur = IF s \in landed THEN f[s] ELSE page[s]
           /\ WritePage(PageWith([x \in landed |-> f[x]]))[s].may =
                  table[s].may \cup {IF s \in landed THEN f[s] ELSE page[s]}
<1> DEFINE g == [x \in landed |-> f[x]]
<1>1. DOMAIN g = landed /\ DOMAIN g \subseteq Slot /\ \A x \in DOMAIN g : g[x] = f[x] /\ g[x] \in Entry
    OBVIOUS
<1> HIDE DEF g
<1>2. PageWith(g) \in [Slot -> Entry] /\ PageWith(g)[s] = IF s \in landed THEN f[s] ELSE page[s]
    BY <1>1, PagesWith DEF PlaceInv
<1>3. WritePage(PageWith(g))[s].cur = PageWith(g)[s] /\ WritePage(PageWith(g))[s].may = table[s].may \cup {PageWith(g)[s]}
    BY <1>2, WritesPage DEF PlaceInv
<1>4. QED
    BY <1>2, <1>3 DEF g

\* A sync takes the entries it read, and the page lock.
LEMMA TakeReadyMine ==
    ASSUME PlaceInv, ErasureInv, MineInv, NEW p \in Syncer, NEW s \in Slot, TakeReady(p)
    PROVE  SlotMine(s)'
<1>1. /\ UNCHANGED <<owner, phase, gaveBack, page, table, data, writer, free, released, entries, early, late,
                     lost, snap>>
      /\ ready' = ready \ DOMAIN snap /\ unpublished' = unpublished \ DOMAIN snap
      /\ running' = running /\ pc[p] = "checking" /\ pc' = [pc EXCEPT ![p] = "tabling"] /\ StillCurrent
    BY DEF TakeReady, ghostVars, windowVars, deviceVars
<1>2. running = p /\ pc \in [Syncer -> Pc]
    BY <1>1, HolderFacts DEF Active, PlaceInv, TypeOK, GateOK
<1>3. /\ At({"checking"}) /\ At({"publishing", "checking"}) /\ ~At({"publishing", "checking"})'
      /\ ~At({"written"})' /\ At({"tabling"})'
    BY <1>1, <1>2 DEF At
<1>4. SlotMine(s)
    BY DEF MineInv
<1>5. s \in DOMAIN snap => /\ s \in ready /\ entries[s] = snap[s] /\ snap[s].state = "Allocated"
                           /\ phase[s] \in InUse /\ snap[s].tenancy = owner[s]
                           /\ s \notin late \cup lost => data[s].may = {owner[s]}
    BY <1>1, <1>3, <1>4 DEF StillCurrent, SlotMine, EntriesMine, DataMine, ErasureInv, OwnedOK
<1>6. Keeps(s)
    BY <1>1, <1>3, <1>5 DEF Keeps, Says
<1>7. WriterMine(s)'
    BY <1>1, <1>4, <1>6, WriterKept
<1>8. SnapMine(s)'
    BY <1>1, <1>3, <1>4, <1>5 DEF SnapMine, SlotMine, DataMine
<1>9. QED
    BY <1>4, <1>6, <1>7, <1>8, Kept

\* A sync writes the entries it took.
LEMMA WriteEntriesMine ==
    ASSUME PlaceInv, ErasureInv, MineInv, NEW p \in Syncer, NEW s \in Slot, WriteEntries(p)
    PROVE  SlotMine(s)'
<1>1. /\ UNCHANGED <<owner, phase, gaveBack, data, writer, free, released, entries, early, late,
                     lost, snap, ready, unpublished, erasing_now>>
      /\ page' = PageWith(snap) /\ table' = WritePage(page')
      /\ running' = running /\ pc[p] = "tabling" /\ pc' = [pc EXCEPT ![p] = "written"]
    BY DEF WriteEntries, ghostVars, windowVars, pendingVars, syncVars
<1>2. running = p /\ pc \in [Syncer -> Pc]
    BY <1>1, HolderFacts DEF Active, PlaceInv, TypeOK, GateOK
<1>3. At({"tabling"}) /\ ~At({"tabling"})' /\ ~At({"publishing", "checking"})'
    BY <1>1, <1>2 DEF At
<1>4. SlotMine(s)
    BY DEF MineInv
<1>5. /\ page'[s] = (IF s \in DOMAIN snap THEN snap[s] ELSE page[s])
      /\ table'[s].cur = page'[s] /\ table'[s].may = table[s].may \cup {page'[s]}
    <2>1. DOMAIN snap \subseteq Slot /\ \A x \in DOMAIN snap : snap[x] \in Entry
        BY DEF PlaceInv, TypeOK, EntriesOK
    <2>2. PageWith(snap) \in [Slot -> Entry] /\ PageWith(snap)[s] = (IF s \in DOMAIN snap THEN snap[s] ELSE page[s])
        BY <2>1, PagesWith DEF PlaceInv
    <2>3. QED
        BY <1>1, <2>2, WritesPage DEF PlaceInv
<1>6. s \in DOMAIN snap => Good(s, snap[s])
    BY <1>3, GoodEntries
<1>7. Keeps(s)
    BY <1>1, <1>3, <1>5, <1>6 DEF Keeps, Says
<1>8. WriterMine(s)'
    BY <1>1, <1>4, <1>7, WriterKept
<1>9. SnapMine(s)'
    BY <1>1, <1>3, <1>5 DEF SnapMine
<1>10. QED
    BY <1>4, <1>7, <1>8, <1>9, Kept

\* Memory forgets what was written and nobody changed.
LEMMA ForgetMine ==
    ASSUME PlaceInv, ErasureInv, MineInv, NEW p \in Syncer, NEW s \in Slot, ForgetWritten(p)
    PROVE  SlotMine(s)'
<1>1. /\ UNCHANGED <<owner, phase, gaveBack, data, page, table, writer, free, released, early, late,
                     lost, snap, ready, unpublished, erasing_now>>
      /\ entries'[s] = (IF s \in DOMAIN snap \ unpublished /\ entries[s] = snap[s] THEN Absent ELSE entries[s])
      /\ running' = running /\ pc[p] = "written" /\ pc' = [pc EXCEPT ![p] = "flushing again"]
    BY DEF ForgetWritten, ghostVars, windowVars, deviceVars, syncVars
<1>2. running = p /\ pc \in [Syncer -> Pc]
    BY <1>1, HolderFacts DEF Active, PlaceInv, TypeOK, GateOK
<1>3. At({"written"}) /\ ~At({"tabling"})' /\ ~At({"written"})' /\ ~At({"publishing", "checking"})'
    BY <1>1, <1>2 DEF At
<1>4. SlotMine(s)
    BY DEF MineInv
<1>5. entries'[s] /= entries[s] =>
          /\ entries'[s] = Absent /\ entries'[s].state /= "Allocated"
          /\ owner[s] /= 0 /\ page[s].state = "Allocated" => page[s].tenancy = owner[s]
    <2>1. s \in DOMAIN snap => snap[s].state = "Allocated"
        BY DEF ErasureInv, OwnedOK
    <2>2. Absent.state /= "Allocated"
        BY DEF Absent
    <2>3. /\ entries[s].state = "Allocated" => entries[s].tenancy = owner[s]
          /\ s \in DOMAIN snap /\ owner[s] = snap[s].tenancy /\ page[s].state = "Allocated" => page[s].tenancy = owner[s]
        BY <1>3, <1>4 DEF SlotMine, EntriesMine, SnapMine
    <2>4. QED
        BY <1>1, <2>1, <2>2, <2>3
<1>6. Keeps(s)
    BY <1>1, <1>3, <1>5 DEF Keeps, Says
<1>7. WriterMine(s)'
    BY <1>1, <1>4, <1>6, WriterKept
<1>8. SnapMine(s)'
    BY <1>3 DEF SnapMine
<1>9. QED
    BY <1>4, <1>6, <1>7, <1>8, Kept

\* A sync publishes with the registry held, and the write may fail.
LEMMA PublishMine ==
    ASSUME PlaceInv, ErasureInv, MineInv, NEW p \in Syncer, NEW s \in Slot,
           PublishReady(p) \/ PublishReadyError(p)
    PROVE  SlotMine(s)'
<1> DEFINE f == [x \in ready |-> SlotNow(x)]
<1>1. /\ UNCHANGED <<owner, phase, gaveBack, data, writer, free, released, early, late, lost, erasing_now>>
      /\ ready' \subseteq ready /\ writer = NoWriter /\ pc[p] = "publishing" /\ unpublished' \subseteq unpublished
    BY AtLeaves DEF PublishReady, PublishReadyError, ghostVars, windowVars, pendingVars, RegistryFree
<1>2. /\ At({"publishing", "checking"})' => At({"publishing", "checking"})
      /\ At({"tabling"})' => At({"tabling"}) /\ snap' = snap
      /\ At({"written"})' => At({"written"}) /\ snap' = snap
    BY GateStays
<1>3. At({"publishing", "checking"})
    <2>1. running = p
        BY <1>1, HolderFacts DEF Active
    <2>2. QED
        BY <1>1, <2>1 DEF At
<1>4. SlotMine(s)
    BY DEF MineInv
<1>5. s \in ready => /\ Good(s, SlotNow(s)) /\ phase[s] \in InUse /\ owner[s] /= 0
                     /\ SlotNow(s).state = "Allocated" => SlotNow(s).tenancy = owner[s]
                     /\ s \notin late \cup lost => data[s].may = {owner[s]}
    <2>1. s \in ready => phase[s] \in InUse
        BY <1>4 DEF SlotMine, EntriesMine
    <2>2. phase[s] \in InUse => owner[s] /= 0
        BY DEF ErasureInv, OwnedOK, InUse
    <2>3. QED
        BY <1>3, <1>4, <2>1, <2>2, GoodEntries DEF SlotMine, DataMine
<1>6. DOMAIN f = ready /\ ready \subseteq Slot /\ \A x \in ready : f[x] \in Entry
    BY SlotNowIsEntry DEF PlaceInv, TypeOK, QueuesOK
<1>7. PICK landed \in SUBSET ready :
          /\ page'[s] = IF s \in landed THEN SlotNow(s) ELSE page[s]
          /\ table'[s].cur = page'[s] /\ table'[s].may = table[s].may \cup {page'[s]}
          /\ PublishReady(p) => landed = ready
    <2>1. \E landed \in SUBSET ready : /\ WriteSome(f, landed)
                                       /\ PublishReady(p) => landed = ready
        <3>1. CASE PublishReady(p)
            <4>1. page' = PageWith(f) /\ table' = WritePage(page') /\ f = [x \in ready |-> f[x]]
                BY <3>1 DEF PublishReady
            <4>2. QED
                BY <3>1, <4>1 DEF WriteSome
        <3>2. CASE PublishReadyError(p) /\ ~PublishReady(p)
            BY <3>2 DEF PublishReadyError
        <3>3. QED
            BY <3>1, <3>2
    <2>2. PICK landed \in SUBSET ready : WriteSome(f, landed) /\ (PublishReady(p) => landed = ready)
        BY <2>1
    <2>3. s \in landed => f[s] = SlotNow(s)
        OBVIOUS
    <2> HIDE DEF f
    <2>4. /\ page'[s] = IF s \in landed THEN f[s] ELSE page[s]
          /\ table'[s].cur = page'[s] /\ table'[s].may = table[s].may \cup {page'[s]}
        BY <1>6, <2>2, PageWrites DEF WriteSome
    <2>5. QED
        BY <2>2, <2>3, <2>4
<1>8. /\ s \notin landed \/ ~PublishReady(p) => entries'[s] = entries[s]
      /\ entries'[s] = entries[s] \/ entries'[s] = Absent
      /\ s \in unpublished => s \in unpublished' \/ s \in ready
    <2>1. CASE PublishReady(p)
        BY <1>7, <2>1 DEF PublishReady
    <2>2. CASE PublishReadyError(p)
        BY <2>2 DEF PublishReadyError, pendingVars
    <2>3. QED
        BY <2>1, <2>2
<1>9. Absent.state /= "Allocated"
    BY DEF Absent
<1> HIDE DEF f
<1>10. Keeps(s)
    BY <1>1, <1>2, <1>5, <1>7, <1>8, <1>9 DEF Keeps, Says
<1>11. WriterMine(s)'
    BY <1>1, <1>4, <1>10, WriterKept
<1>12. SnapMine(s)'
    BY <1>1, <1>2, <1>4, <1>10, SnapKept
<1>13. QED
    BY <1>4, <1>10, <1>11, <1>12, Kept

\* The table write of a sync fails, or a sync is dropped: some of its entries
\* are on the device, and of these some in the page cache.
LEMMA InterruptedMine ==
    ASSUME PlaceInv, ErasureInv, MineInv, NEW p \in Syncer, NEW s \in Slot,
           WriteEntriesError(p) \/ Drop(p)
    PROVE  SlotMine(s)'
<1>1. UNCHANGED <<owner, phase, gaveBack, data, writer, free, released, early, late, lost, erasing_now, entries>>
    BY AtLeaves DEF WriteEntriesError, Drop, windowVars, pendingVars
<1>2. /\ At({"publishing", "checking"})' => At({"publishing", "checking"})
      /\ At({"tabling"})' => At({"tabling"}) /\ snap' = snap
      /\ At({"written"})' => At({"written"}) /\ snap' = snap
    BY GateStays
<1>3. pc[p] = "tabling" => At({"tabling"}) /\ ~At({"tabling"})' /\ ~At({"written"})'
    <2>1. pc[p] = "tabling" => running = p
        BY HolderFacts DEF Active
    <2>2. PICK answer \in {"err", "dropped"} : Leave(p, answer)
        BY DEF WriteEntriesError, Drop
    <2>3. QED
        BY <2>1, <2>2, AtLeaves DEF At
<1>4. SlotMine(s)
    BY DEF MineInv
<1>5. pc[p] = "tabling" /\ s \in DOMAIN snap =>
          /\ Good(s, snap[s]) /\ snap[s].state = "Allocated"
          /\ entries[s] = snap[s] => phase[s] \in InUse
    <2>1. entries[s].state = "Allocated" => owner[s] /= 0
        BY DEF ErasureInv, OwnedOK
    <2>2. QED
        BY <1>3, <1>4, <2>1, GoodEntries DEF SlotMine, SnapMine
<1>6. /\ s \in ready' => s \in ready \/ (pc[p] = "tabling" /\ s \in DOMAIN snap /\ entries[s] = snap[s])
      /\ s \in unpublished => s \in unpublished'
      /\ s \in unpublished' => s \in unpublished \/ pc[p] = "tabling"
    <2>1. CASE WriteEntriesError(p)
        BY <2>1 DEF WriteEntriesError
    <2>2. CASE Drop(p)
        BY <2>2 DEF Drop, pendingVars
    <2>3. QED
        BY <2>1, <2>2
<1>7. \/ page'[s] = page[s] /\ table'[s] = table[s]
      \/ /\ page'[s] = page[s] /\ table'[s].cur = page[s] /\ table'[s].may = table[s].may \cup {page[s]}
      \/ /\ pc[p] = "tabling" /\ s \in DOMAIN snap
         /\ page'[s] = page[s] \/ page'[s] = snap[s]
         /\ table'[s].cur = snap[s] /\ table'[s].may = table[s].may \cup {snap[s]}
    <2>1. DOMAIN snap \subseteq Slot /\ \A x \in DOMAIN snap : snap[x] \in Entry
        BY DEF PlaceInv, TypeOK, EntriesOK
    <2>2. CASE WriteEntriesError(p) \/ (Drop(p) /\ pc[p] = "tabling")
        <3>1. PICK landed \in SUBSET DOMAIN snap, cached \in SUBSET DOMAIN snap :
                  /\ cached \subseteq landed
                  /\ page' = PageWith([x \in cached |-> snap[x]])
                  /\ table' = WritePage(PageWith([x \in landed |-> snap[x]]))
            <4>1. CASE WriteEntriesError(p)
                <5>1. PICK landed \in SUBSET DOMAIN snap : WriteSome(snap, landed)
                    BY <4>1 DEF WriteEntriesError
                <5>2. QED
                    BY <5>1 DEF WriteSome
            <4>2. CASE Drop(p) /\ pc[p] = "tabling"
                BY <4>2 DEF Drop
            <4>3. QED
                BY <2>2, <4>1, <4>2
        <3>2. ASSUME NEW l \in SUBSET DOMAIN snap
              PROVE  LET new == IF s \in l THEN snap[s] ELSE page[s]
                     IN  /\ PageWith([x \in l |-> snap[x]])[s] = new
                         /\ WritePage(PageWith([x \in l |-> snap[x]]))[s].cur = new
                         /\ WritePage(PageWith([x \in l |-> snap[x]]))[s].may = table[s].may \cup {new}
            BY <2>1, PageWrites
        <3>3. /\ page'[s] = IF s \in cached THEN snap[s] ELSE page[s]
              /\ table'[s].cur = IF s \in landed THEN snap[s] ELSE page[s]
              /\ table'[s].may = table[s].may \cup {IF s \in landed THEN snap[s] ELSE page[s]}
            BY <3>1, <3>2
        <3>4. pc[p] = "tabling"
            BY <2>2 DEF WriteEntriesError
        <3>5. QED
            BY <3>1, <3>3, <3>4
    <2>3. CASE Drop(p) /\ pc[p] /= "tabling"
        BY <2>3 DEF Drop
    <2>4. QED
        BY <2>2, <2>3
<1>8. Keeps(s)
    BY <1>1, <1>2, <1>5, <1>6, <1>7 DEF Keeps, Says
<1>9. WriterMine(s)'
    BY <1>1, <1>4, <1>8, WriterKept
<1>10. SnapMine(s)'
    BY <1>1, <1>2, <1>3, <1>4, <1>6, <1>8, SnapKept
<1>11. QED
    BY <1>4, <1>8, <1>9, <1>10, Kept

\* A flush of the device, after which the slots `freed` count as reusable: an
\* entry left of someone who freed the slot puts it in `early`.
LEMMA FlushMine ==
    ASSUME PlaceInv, ErasureInv, MineInv, NEW s \in Slot, NEW freed, freed \subseteq freeing \cup took,
           table'[s].cur = table[s].cur, table'[s].may = {table[s].cur}, table[s].cur \in table[s].may,
           data'[s].may = {data'[s].cur},
           data'[s].cur = data[s].cur \/ (data'[s].cur = 0 /\ s \in erasing_now),
           s \in early' <=> s \in Stale(early \cup freed), late' = {}, lost' = lost,
           owner'[s] = owner[s], phase'[s] = phase[s], entries'[s] = entries[s], page'[s] = page[s],
           UNCHANGED <<gaveBack, writer>>,
           s \in unpublished' <=> s \in unpublished, s \in ready' => s \in ready,
           s \in erasing_now' => s \in erasing_now,
           s \in free' \/ s \in released' => s \in free \/ s \in released \/ s \in freed,
           At({"tabling"})' => At({"tabling"}) /\ snap' = snap,
           At({"written"})' => At({"written"}) /\ snap' = snap,
           s \in freed => ~At({"tabling"})' \/ s \notin DOMAIN snap
    PROVE  SlotMine(s)'
<1>1. SlotMine(s)
    BY DEF MineInv
<1>2. /\ phase[s] /= "none" => owner[s] /= 0
      /\ s \in freed \/ s \in free \/ s \in released \/ s \in erasing_now => owner[s] = 0
    BY DEF PlaceInv, PlacesOK, ErasureInv, OwnedOK
<1>3. \A e \in Says(s) : e.state = "Allocated" => e.tenancy /= 0
    <2>1. setup \in Setup /\ \A e \in Says(s) : e \in Entry
        BY DEF PlaceInv, TypeOK, EntriesOK, Says, Cell
    <2>2. QED
        BY <2>1, EntryShape, BoundsAreNumbers
<1>4. Says(s)' = {table[s].cur, page[s]} /\ Says(s)' \subseteq Says(s)
    BY DEF Says
<1>5. EntriesMine(s)'
    BY <1>1, <1>4 DEF SlotMine, EntriesMine
<1>6. phase[s] \in InUse \cup {"filled"} /\ s \notin lost =>
          data'[s].cur = owner[s] /\ data'[s].may = {owner[s]}
    BY <1>1, <1>2 DEF SlotMine, DataMine, InUse
<1>7. WriterMine(s)'
    BY <1>1, <1>6 DEF SlotMine, WriterMine
<1>8. SnapMine(s)'
    <2>1. ASSUME At({"tabling"})', s \in DOMAIN snap'
          PROVE  /\ s \notin unpublished'
                 /\ \/ owner'[s] = snap'[s].tenancy /\ phase'[s] \in InUse
                    \/ /\ owner'[s] = 0 /\ snap'[s].tenancy \in gaveBack'
                       /\ writer' /= NoWriter /\ writer'.slot = s
                       /\ s \notin free' /\ s \notin released' /\ s \notin erasing_now'
                 /\ s \notin lost' => /\ data'[s].cur = snap'[s].tenancy
                                      /\ s \notin late' => data'[s].may = {snap'[s].tenancy}
        <3>1. /\ s \notin unpublished /\ s \notin erasing_now
              /\ \/ owner[s] = snap[s].tenancy /\ phase[s] \in InUse
                 \/ /\ owner[s] = 0 /\ snap[s].tenancy \in gaveBack
                    /\ writer /= NoWriter /\ writer.slot = s
                    /\ s \notin free /\ s \notin released
              /\ s \notin lost => data[s].cur = snap[s].tenancy
            BY <1>1, <1>2, <2>1 DEF SlotMine, SnapMine, InUse
        <3>2. QED
            BY <2>1, <3>1
    <2>2. QED
        BY <1>1, <2>1 DEF SlotMine, SnapMine
<1>9. \A e \in Says(s)' : s \in early \cup freed /\ s \notin early' /\ e.state = "Allocated" => e.tenancy = owner[s]
    BY <1>4 DEF Stale
<1>10. NamesMine(s)'
    <2>1. s \in early' => s \in early \/ s \in freed
        BY DEF Stale
    <2>2. s \in early' => phase[s] /= "orphan"
        BY <1>1, <1>2, <2>1 DEF SlotMine, NamesMine
    <2>3. ASSUME s \notin early', s \notin lost, NEW e \in Says(s)', e.state = "Allocated"
          PROVE  /\ s \notin free' /\ s \notin released'
                 /\ e.tenancy = owner[s] \/ (owner[s] = 0 /\ e.tenancy \in gaveBack)
        <3>1. e \in Says(s)
            BY <1>4
        <3>2. CASE s \in early \cup freed
            BY <1>2, <1>3, <1>9, <2>3, <3>1, <3>2
        <3>3. CASE s \notin early \cup freed
            BY <1>1, <2>3, <3>1, <3>3 DEF SlotMine, NamesMine
        <3>4. QED
            BY <3>2, <3>3
    <2>4. QED
        BY <2>2, <2>3 DEF NamesMine
<1>11. ASSUME s \notin early', s \notin lost, NEW e \in Says(s)', e.state = "Allocated"
       PROVE  data'[s].cur = e.tenancy \/ (data'[s].cur = 0 /\ e.tenancy \in gaveBack)
    <2>1. e \in Says(s) /\ e.tenancy /= 0
        BY <1>3, <1>4, <1>11
    <2>2. CASE s \in early \cup freed
        <3>1. e.tenancy = owner[s] /\ owner[s] /= 0 /\ s \in early
            BY <1>2, <1>9, <1>11, <2>1, <2>2
        <3>2. phase[s] \in InUse
            BY <1>1, <2>1, <3>1 DEF SlotMine, EntriesMine, NamesMine
        <3>3. QED
            BY <1>6, <1>11, <3>1, <3>2
    <2>3. CASE s \notin early \cup freed
        BY <1>1, <1>2, <1>11, <2>1, <2>3 DEF SlotMine, DataMine, NamesMine
    <2>4. QED
        BY <2>2, <2>3
<1>12. DataMine(s)'
    BY <1>6, <1>11 DEF DataMine
<1>13. QED
    BY <1>5, <1>7, <1>8, <1>10, <1>12 DEF SlotMine

\* The flushes of a sync, and the passes of the eraser.
LEMMA FlushStepMine ==
    ASSUME PlaceInv, ErasureInv, MineInv, NEW x, NEW s \in Slot,
           \/ x \in Syncer /\ (FirstFlush(x) \/ SecondFlush(x))
           \/ x \in Slot /\ EraseOne(x)
    PROVE  SlotMine(s)'
<1>1. /\ table \in [Slot -> Cell(Entry)] /\ data \in [Slot -> Cell(0..MaxTenancy)] /\ MaxTenancy \in Nat
      /\ pc \in [Syncer -> Pc]
    BY BoundsAreNumbers DEF PlaceInv, TypeOK, EntriesOK, GateOK
<1>2. CASE x \in Syncer /\ FirstFlush(x)
    <2>1. /\ UNCHANGED <<owner, phase, entries, page, gaveBack, writer, unpublished, ready, erasing_now, free, snap>>
          /\ table' = FlushAll(table) /\ data' = FlushAll(data) /\ early' = Stale(early \cup took)
          /\ late' = {} /\ lost' = lost /\ released' = released \cup took
          /\ running' = running /\ pc[x] = "flushing" /\ pc' = [pc EXCEPT ![x] = "publishing"]
        BY <1>2 DEF FirstFlush, FlushDevice
    <2>2. running = x
        BY <1>2, <2>1, HolderFacts DEF Active
    <2>3. ~At({"tabling"})' /\ ~At({"written"})'
        BY <1>1, <2>1, <2>2 DEF At
    <2>4. /\ table'[s].cur = table[s].cur /\ table'[s].may = {table[s].cur} /\ table[s].cur \in table[s].may
          /\ data'[s].cur = data[s].cur /\ data'[s].may = {data'[s].cur}
        BY <1>1, <2>1, Flushes
    <2>5. QED
        BY <2>1, <2>3, <2>4, FlushMine
<1>3. CASE x \in Syncer /\ SecondFlush(x)
    <2>1. /\ UNCHANGED <<owner, phase, entries, page, gaveBack, writer, unpublished, ready, erasing_now, free, released>>
          /\ late' = {} /\ lost' = lost
        BY <1>3, AtLeaves DEF SecondFlush, FlushDevice, pendingVars
    <2>2. /\ At({"tabling"})' => At({"tabling"}) /\ snap' = snap
          /\ At({"written"})' => At({"written"}) /\ snap' = snap
        BY <1>3, AtLeaves DEF SecondFlush
    <2>3. /\ table'[s].cur = table[s].cur /\ table'[s].may = {table[s].cur} /\ table[s].cur \in table[s].may
          /\ data'[s].cur = data[s].cur /\ data'[s].may = {data'[s].cur}
        <3>1. table' = FlushAll(table) /\ data' = FlushAll(data)
            BY <1>3 DEF SecondFlush, FlushDevice
        <3>2. QED
            BY <1>1, <3>1, Flushes
    <2>4. PICK freed : /\ freed \subseteq freeing \cup took /\ s \notin freed
                       /\ s \in early' <=> s \in Stale(early \cup freed)
        <3>1. {} \subseteq freeing \cup took /\ s \notin {} /\ (s \in early' <=> s \in Stale(early \cup {}))
            BY <1>3 DEF SecondFlush, FlushDevice
        <3>2. QED
            BY <3>1
    <2>5. QED
        BY <2>1, <2>2, <2>3, <2>4, FlushMine
<1>4. CASE x \in Slot /\ EraseOne(x)
    <2>1. /\ UNCHANGED <<owner, phase, entries, page, gaveBack, writer, unpublished, ready, erasing_now, free,
                         released, snap, running, pc>>
          /\ late' = {} /\ lost' = lost /\ x \in erasing_now
        BY <1>4 DEF EraseOne, pendingVars, gateVars, syncVars
    <2>2. PICK freed : freed = {} /\ (s \in early' <=> s \in Stale(early \cup freed))
        <3>1. s \in early' <=> s \in Stale(early \cup {})
            BY <1>4 DEF EraseOne, Stale
        <3>2. QED
            BY <3>1
    <2>3. /\ table'[s].cur = table[s].cur /\ table'[s].may = {table[s].cur} /\ table[s].cur \in table[s].may
        BY <1>1, <1>4, Flushes DEF EraseOne
    <2>4. data'[s].may = {data'[s].cur} /\ (data'[s].cur = data[s].cur \/ (data'[s].cur = 0 /\ s \in erasing_now))
        <3> DEFINE d == [data EXCEPT ![x] = Put(@, 0)]
        <3>1. Put(data[x], 0) \in Cell(0..MaxTenancy) /\ Put(data[x], 0).cur = 0
            BY <1>1, <1>4 DEF Put, Cell
        <3>2. d \in [Slot -> Cell(0..MaxTenancy)] /\ d[x].cur = 0 /\ \A r \in Slot \ {x} : d[r] = data[r]
            BY <1>1, <1>4, <3>1
        <3>3. data' = FlushAll(d)
            BY <1>4 DEF EraseOne
        <3> HIDE DEF d
        <3>4. QED
            BY <2>1, <3>2, <3>3, Flushes
    <2>5. /\ At({"tabling"})' => At({"tabling"}) /\ snap' = snap
          /\ At({"written"})' => At({"written"}) /\ snap' = snap
        BY <2>1 DEF At
    <2>6. QED
        BY <2>1, <2>2, <2>3, <2>4, <2>5, FlushMine, ZenonT(60)
<1>5. QED
    BY <1>2, <1>3, <1>4

\* What the owner of one slot does, and the end of its erase, leave the others be.
LEMMA OthersMine ==
    ASSUME PlaceInv, ErasureInv, MineInv, NEW r \in Slot, NEW s \in Slot \ {r},
           \/ Fill(r) \/ Confirm(r) \/ IncRefBatch(r) \/ IncRef(r) \/ DecRef(r)
           \/ RetireUnpublished(r) \/ RetirePublished(r) \/ RetireErasing(r) \/ FinishErase(r)
    PROVE  SlotMine(s)'
<1>1. /\ owner \in [Slot -> 0..MaxTenancy] /\ entries \in [Slot -> Entry \cup {Absent}]
      /\ data \in [Slot -> Cell(0..MaxTenancy)]
      /\ phase \in [Slot -> {"none", "taken", "filled", "mapped", "unsure", "orphan"}]
    BY DEF PlaceInv, TypeOK, EntriesOK, ErasureInv, OwnedOK
<1>2. owner'[s] = owner[s] /\ phase'[s] = phase[s] /\ gaveBack \subseteq gaveBack'
    BY <1>1 DEF Fill, Confirm, IncRefBatch, IncRef, DecRef, RetireUnpublished, RetirePublished, RetireErasing,
       FinishErase, GiveBack, ghostVars
<1>3. entries'[s] = entries[s] /\ data'[s] = data[s] /\ page' = page /\ table' = table
    BY <1>1 DEF Fill, Confirm, IncRefBatch, IncRef, DecRef, RetireUnpublished, RetirePublished, RetireErasing,
       FinishErase, pendingVars, deviceVars
<1>4. /\ s \in ready' => s \in ready
      /\ s \in unpublished' <=> s \in unpublished
      /\ s \in free' => s \in free
      /\ s \in erasing_now' => s \in erasing_now
      /\ released' = released
    BY DEF Fill, Confirm, IncRefBatch, IncRef, DecRef, RetireUnpublished, RetirePublished, RetireErasing,
       FinishErase, pendingVars
<1>5. /\ s \in early' <=> s \in early
      /\ s \in late' <=> s \in late
      /\ lost' = lost
    BY DEF Fill, Confirm, IncRefBatch, IncRef, DecRef, RetireUnpublished, RetirePublished, RetireErasing,
       FinishErase, windowVars, ghostVars
<1>6. writer' = writer \/ (writer = NoWriter /\ writer'.slot /= s)
    BY DEF Fill, Confirm, IncRefBatch, IncRef, DecRef, RetireUnpublished, RetirePublished, RetireErasing,
       FinishErase, RegistryFree
<1>7. snap' = snap /\ \A S : At(S)' <=> At(S)
    BY DEF Fill, Confirm, IncRefBatch, IncRef, DecRef, RetireUnpublished, RetirePublished, RetireErasing,
       FinishErase, syncVars, gateVars, At
<1>8. /\ At({"publishing", "checking"})' => At({"publishing", "checking"})
      /\ At({"tabling"})' => At({"tabling"})
      /\ At({"written"})' => At({"written"})
    BY <1>7
<1>9. SlotMine(s)
    BY DEF MineInv
<1>10. Keeps(s)
    BY <1>2, <1>3, <1>4, <1>5, <1>8 DEF Keeps, Says
<1>11. WriterMine(s)'
    BY <1>6, <1>9, <1>10, WriterKept
<1>12. SnapMine(s)'
    BY <1>3, <1>4, <1>6, <1>7, <1>8, <1>9, <1>10, SnapKept
<1>13. QED
    BY <1>9, <1>10, <1>11, <1>12, Kept

\* The owner fills the slot it took.
LEMMA FillMine ==
    ASSUME PlaceInv, ErasureInv, MineInv, NEW s \in Slot, Fill(s)
    PROVE  SlotMine(s)'
<1>1. /\ data' = [data EXCEPT ![s] = Put(@, owner[s])] /\ phase' = [phase EXCEPT ![s] = "filled"]
      /\ late' = (IF running /= None /\ pc[running] \in {"publishing", "checking"} THEN late \cup {s} ELSE late)
      /\ UNCHANGED <<free, released, unpublished, ready, entries, erasing_now, page, writer, table, running, pc, snap,
                     owner, gaveBack, early, lost>>
      /\ phase[s] = "taken"
    BY DEF Fill, pendingVars, gateVars, syncVars
<1>2. /\ data \in [Slot -> Cell(0..MaxTenancy)] /\ phase \in [Slot -> {"none", "taken", "filled", "mapped", "unsure", "orphan"}]
      /\ owner[s] /= 0
    BY <1>1 DEF PlaceInv, TypeOK, EntriesOK, ErasureInv, OwnedOK
<1>3. data'[s].cur = owner[s] /\ phase'[s] = "filled"
    BY <1>1, <1>2 DEF Put
<1>4. SlotMine(s)
    BY DEF MineInv
<1>5. /\ s \notin ready /\ s \in unpublished
      /\ \A e \in Says(s) : e.tenancy /= owner[s]
      /\ writer = NoWriter \/ writer.slot /= s
    BY <1>1, <1>2, <1>4 DEF SlotMine, EntriesMine, WriterMine, InUse
<1>6. Says(s)' = Says(s) /\ \A S : At(S)' <=> At(S)
    BY <1>1 DEF Says, At
<1>7. EntriesMine(s)'
    BY <1>1, <1>3, <1>4, <1>5, <1>6 DEF SlotMine, EntriesMine
<1>8. WriterMine(s)'
    BY <1>1, <1>5 DEF WriterMine
<1>9. SnapMine(s)'
    BY <1>1, <1>4, <1>5, <1>6 DEF SlotMine, SnapMine, At
<1>10. NamesMine(s)'
    BY <1>1, <1>3, <1>4, <1>6 DEF SlotMine, NamesMine
<1>11. s \notin early /\ s \notin lost => \A e \in Says(s) : e.state /= "Allocated"
    BY <1>2, <1>4, <1>5 DEF SlotMine, NamesMine
<1>12. At({"publishing", "checking"})' => s \in late'
    BY <1>1, NoneAssumption DEF At
<1>13. DataMine(s)'
    BY <1>1, <1>3, <1>6, <1>11, <1>12 DEF DataMine, InUse
<1>14. QED
    BY <1>7, <1>8, <1>9, <1>10, <1>13 DEF SlotMine

\* The owner confirms what it filled.
LEMMA ConfirmMine ==
    ASSUME PlaceInv, ErasureInv, MineInv, NEW s \in Slot, Confirm(s)
    PROVE  SlotMine(s)'
<1>1. /\ phase' = [phase EXCEPT ![s] = "mapped"] /\ ready' = ready \cup (unpublished \cap {s})
      /\ UNCHANGED <<free, released, unpublished, entries, erasing_now, page, writer, table, data, running, pc, snap,
                     owner, gaveBack, early, late, lost>>
      /\ phase[s] = "filled" /\ writer = NoWriter
    BY DEF Confirm, gateVars, syncVars, deviceVars, windowVars, RegistryFree
<1>2. phase \in [Slot -> {"none", "taken", "filled", "mapped", "unsure", "orphan"}]
    BY DEF ErasureInv, OwnedOK
<1>3. phase'[s] = "mapped"
    BY <1>1, <1>2
<1>4. SlotMine(s)
    BY DEF MineInv
<1>5. s \in unpublished
    BY <1>1, <1>4 DEF SlotMine, EntriesMine
<1>6. Says(s)' = Says(s) /\ \A S : At(S)' <=> At(S)
    BY <1>1 DEF Says, At
<1>7. EntriesMine(s)'
    BY <1>1, <1>3, <1>4, <1>6 DEF SlotMine, EntriesMine, InUse
<1>8. WriterMine(s)'
    BY <1>1 DEF WriterMine
<1>9. SnapMine(s)'
    BY <1>1, <1>4, <1>5, <1>6 DEF SlotMine, SnapMine, At
<1>10. NamesMine(s)'
    BY <1>1, <1>3, <1>4, <1>6 DEF SlotMine, NamesMine
<1>11. DataMine(s)'
    BY <1>1, <1>3, <1>4, <1>5, <1>6 DEF SlotMine, DataMine, InUse, At
<1>12. QED
    BY <1>7, <1>8, <1>9, <1>10, <1>11 DEF SlotMine

\* A slot's count goes up or down, in memory or with the entry about to be
\* written: it stays its owner's.
LEMMA CountMine ==
    ASSUME PlaceInv, ErasureInv, MineInv, NEW s \in Slot, IncRefBatch(s) \/ IncRef(s) \/ DecRef(s)
    PROVE  SlotMine(s)'
<1>1. /\ UNCHANGED <<free, released, unpublished, erasing_now, page, table, data, running, pc, snap,
                     owner, gaveBack, early, late, lost>>
      /\ writer = NoWriter /\ phase[s] \in InUse /\ Owned(s)
    BY DEF IncRefBatch, IncRef, DecRef, gateVars, syncVars, deviceVars, windowVars, RegistryFree, InMap, InUse
<1>2. /\ phase \in [Slot -> {"none", "taken", "filled", "mapped", "unsure", "orphan"}]
      /\ entries \in [Slot -> Entry \cup {Absent}] /\ owner[s] /= 0
    BY <1>1 DEF PlaceInv, TypeOK, EntriesOK, ErasureInv, OwnedOK, InUse
<1>3. SlotMine(s)
    BY DEF MineInv
<1>4. SlotNow(s).state = "Allocated" /\ SlotNow(s).tenancy = owner[s] /\ SlotNow(s) \in [state : {"Allocated"}, tenancy : Nat, refs : Nat]
    <2>1. SlotNow(s) \in Entry /\ setup \in Setup
        BY SlotNowIsEntry DEF PlaceInv, TypeOK, EntriesOK
    <2>2. SlotNow(s).state = "Allocated" /\ SlotNow(s).tenancy = owner[s]
        BY <1>1, <1>2, <1>3 DEF Owned, SlotMine, EntriesMine, SlotNow
    <2>3. SlotNow(s) = Allocated(SlotNow(s).tenancy, SlotNow(s).refs) /\ SlotNow(s).tenancy \in Nat /\ SlotNow(s).refs \in Nat
        BY <2>1, <2>2, EntryShape, BoundsAreNumbers
    <2>4. QED
        BY <2>2, <2>3 DEF Allocated
<1>5. \E n \in Int : entries' = [entries EXCEPT ![s] = [SlotNow(s) EXCEPT !.refs = n]]
    BY <1>4 DEF IncRefBatch, IncRef, DecRef
<1>6. entries'[s].state = "Allocated" /\ entries'[s].tenancy = owner[s] /\ entries'[s] /= Absent
    BY <1>2, <1>4, <1>5 DEF Absent
<1>7. phase'[s] \in InUse /\ (s \in ready' => s \in ready \/ phase[s] \in InUse)
    BY <1>1, <1>2 DEF IncRefBatch, IncRef, DecRef, InUse
<1>8. Keeps(s)
    BY <1>1, <1>6, <1>7 DEF Keeps, Says, At
<1>9. SnapMine(s)'
    <2>1. /\ At({"tabling"})' => At({"tabling"})
          /\ At({"written"})' => At({"written"})
        BY <1>1 DEF At
    <2>2. QED
        BY <1>1, <1>3, <1>8, <2>1, SnapKept
<1>10. WriterMine(s)'
    <2>1. CASE IncRef(s)
        <3>1. /\ writer'.kind = "count"
              /\ writer'.bytes = IF s \in unpublished THEN Free ELSE entries'[s]
            BY <1>2, <2>1 DEF IncRef
        <3>2. Free.state /= "Allocated"
            BY DEF Free
        <3>3. s \notin unpublished /\ s \notin late \cup lost => data[s].may = {owner[s]}
            BY <1>1, <1>3 DEF SlotMine, DataMine
        <3>4. QED
            BY <1>1, <1>6, <1>7, <3>1, <3>2, <3>3 DEF WriterMine
    <2>2. CASE ~IncRef(s)
        BY <1>1, <2>2 DEF IncRefBatch, DecRef, WriterMine
    <2>3. QED
        BY <2>1, <2>2
<1>11. QED
    BY <1>3, <1>8, <1>9, <1>10, Kept

\* A slot is freed: its entries name one who gave it back, and it is in reach
\* of the allocator at once only if no entry is left.
LEMMA RetireMine ==
    ASSUME PlaceInv, ErasureInv, MineInv, NEW s \in Slot,
           RetireUnpublished(s) \/ RetirePublished(s) \/ RetireErasing(s)
    PROVE  SlotMine(s)'
<1>1. /\ owner' = [owner EXCEPT ![s] = 0] /\ phase' = [phase EXCEPT ![s] = "none"]
      /\ gaveBack' = gaveBack \cup {owner[s]} /\ ready' = ready \ {s}
      /\ UNCHANGED <<released, erasing_now, page, table, running, pc, snap, late, lost>>
      /\ writer = NoWriter /\ owner[s] /= 0
    BY DEF RetireUnpublished, RetirePublished, RetireErasing, GiveBack, gateVars, syncVars, deviceVars, windowVars,
       RegistryFree, LastReference
<1>2. /\ phase \in [Slot -> {"none", "taken", "filled", "mapped", "unsure", "orphan"}]
      /\ owner \in [Slot -> 0..MaxTenancy] /\ entries \in [Slot -> Entry \cup {Absent}]
      /\ setup \in Setup /\ table[s] \in Cell(Entry) /\ page[s] \in Entry
    BY DEF PlaceInv, TypeOK, EntriesOK, ErasureInv, OwnedOK
<1>3. owner'[s] = 0 /\ phase'[s] = "none" /\ owner[s] \in gaveBack' /\ s \notin ready'
    BY <1>1, <1>2
<1>4. SlotMine(s)
    BY DEF MineInv
<1>5. Says(s)' = Says(s) /\ (At({"tabling"})' <=> At({"tabling"})) /\ (At({"written"})' <=> At({"written"}))
    BY <1>1 DEF Says, At
<1>6. entries'[s].state /= "Allocated"
    <2>1. Absent.state /= "Allocated" /\ Free.state /= "Allocated" /\ Erasing(owner[s]).state /= "Allocated"
        BY DEF Absent, Free, Erasing
    <2>2. QED
        BY <1>2, <2>1 DEF RetireUnpublished, RetirePublished, RetireErasing
<1>7. EntriesMine(s)'
    BY <1>1, <1>3, <1>4, <1>6 DEF SlotMine, EntriesMine
<1>8. s \in DOMAIN snap => snap[s].tenancy /= 0
    <2>1. s \in DOMAIN snap => snap[s] \in Entry /\ snap[s].state = "Allocated"
        BY DEF PlaceInv, TypeOK, EntriesOK, ErasureInv, OwnedOK
    <2>2. QED
        BY <1>2, <2>1, EntryShape, BoundsAreNumbers
<1>9. CASE RetireUnpublished(s)
    <2>1. /\ writer' = writer /\ s \in unpublished
          /\ early' = (IF table[s].may = {Free} THEN early ELSE early \cup {s})
        BY <1>9 DEF RetireUnpublished
    <2>2. s \notin early' => \A e \in Says(s) : e.state /= "Allocated"
        <3>1. Free.state /= "Allocated"
            BY DEF Free
        <3>2. s \notin early' => table[s].may = {Free} /\ table[s].cur = Free
            BY <1>2, <2>1 DEF Cell
        <3>3. page[s] = table[s].cur \/ table[s].cur.state = "Allocated"
            BY <1>4 DEF SlotMine, EntriesMine
        <3>4. QED
            BY <3>1, <3>2, <3>3 DEF Says
    <2>3. WriterMine(s)'
        BY <1>1, <2>1 DEF WriterMine
    <2>4. SnapMine(s)'
        BY <1>1, <1>3, <1>4, <1>5, <1>8, <2>1 DEF SlotMine, SnapMine
    <2>5. NamesMine(s)'
        BY <1>3, <1>5, <2>2 DEF NamesMine
    <2>6. DataMine(s)'
        BY <1>3, <1>5, <2>2 DEF DataMine, InUse
    <2>7. QED
        BY <1>7, <2>3, <2>4, <2>5, <2>6 DEF SlotMine
<1>10. CASE RetirePublished(s) \/ RetireErasing(s)
    <2>1. /\ UNCHANGED <<free, data, early>>
          /\ writer' /= NoWriter /\ writer'.slot = s /\ writer'.kind /= "count" /\ writer'.bytes.state /= "Allocated"
          /\ s \in unpublished' => s \in unpublished
        BY <1>10 DEF RetirePublished, RetireErasing, deviceVars, windowVars, NoWriter, Free, Erasing
    <2>2. s \notin free /\ s \notin released /\ s \notin erasing_now
        BY <1>1 DEF PlaceInv, PlacesOK
    <2>3. WriterMine(s)'
        BY <1>3, <2>1 DEF WriterMine
    <2>4. SnapMine(s)'
        <3>1. s \in DOMAIN snap /\ At({"tabling"}) =>
                  /\ s \notin unpublished /\ snap[s].tenancy = owner[s]
                  /\ s \notin lost => /\ data[s].cur = snap[s].tenancy
                                      /\ s \notin late => data[s].may = {snap[s].tenancy}
            BY <1>1, <1>4 DEF SlotMine, SnapMine
        <3>2. QED
            BY <1>1, <1>3, <1>5, <1>8, <2>1, <2>2, <3>1 DEF SnapMine
    <2>5. NamesMine(s)'
        BY <1>1, <1>3, <1>4, <1>5, <2>1, <2>2 DEF SlotMine, NamesMine
    <2>6. DataMine(s)'
        BY <1>1, <1>3, <1>4, <1>5, <2>1 DEF SlotMine, DataMine, InUse
    <2>7. QED
        BY <1>7, <2>3, <2>4, <2>5, <2>6 DEF SlotMine
<1>11. QED
    BY <1>9, <1>10

\* An erased slot is freed the ordinary way.
LEMMA FinishMine ==
    ASSUME PlaceInv, ErasureInv, MineInv, NEW s \in Slot, FinishErase(s)
    PROVE  SlotMine(s)'
<1>1. /\ UNCHANGED <<free, released, unpublished, ready, page, table, data, running, pc, snap,
                     owner, phase, gaveBack, early, late, lost>>
      /\ entries' = [entries EXCEPT ![s] = Free] /\ erasing_now' \subseteq erasing_now /\ s \in overwritten
      /\ writer = NoWriter /\ writer' = [kind |-> "finish", slot |-> s, bytes |-> Free]
    BY DEF FinishErase, gateVars, syncVars, deviceVars, windowVars, ghostVars, RegistryFree
<1>2. owner[s] = 0 /\ entries \in [Slot -> Entry \cup {Absent}]
    BY <1>1 DEF PlaceInv, TypeOK, QueuesOK, EntriesOK, PlacesOK
<1>3. entries'[s].state /= "Allocated"
    BY <1>1, <1>2 DEF Free
<1>4. SlotMine(s)
    BY DEF MineInv
<1>5. Keeps(s)
    BY <1>1, <1>2, <1>3 DEF Keeps, Says, At
<1>6. WriterMine(s)'
    BY <1>1, <1>2 DEF WriterMine, Free
<1>7. SnapMine(s)'
    <2>1. /\ At({"tabling"})' => At({"tabling"})
          /\ At({"written"})' => At({"written"})
        BY <1>1 DEF At
    <2>2. QED
        BY <1>1, <1>4, <1>5, <2>1, SnapKept
<1>8. QED
    BY <1>4, <1>5, <1>6, <1>7, Kept

\* The table write the registry is held for ends.
LEMMA PersistMine ==
    ASSUME PlaceInv, ErasureInv, MineInv, NEW s \in Slot, Persist
    PROVE  SlotMine(s)'
<1> DEFINE r == writer.slot
<1>1. /\ UNCHANGED <<free, released, unpublished, ready, erasing_now, running, pc, snap, owner, phase, gaveBack,
                     early, late, lost>>
      /\ writer' = NoWriter /\ writer /= NoWriter /\ ~PageHeld
      /\ page' = [page EXCEPT ![r] = writer.bytes] /\ table' = WritePage(page')
      /\ entries' = (IF r \in unpublished THEN entries ELSE [entries EXCEPT ![r] = Absent])
    BY DEF Persist, gateVars, syncVars, windowVars, ghostVars
<1>2. /\ r \in Slot /\ writer.bytes \in Entry /\ page \in [Slot -> Entry] /\ MaxTenancy \in Nat
      /\ entries \in [Slot -> Entry \cup {Absent}] /\ data \in [Slot -> Cell(0..MaxTenancy)]
      /\ phase[s] /= "none" => owner[s] /= 0
    BY <1>1, BoundsAreNumbers DEF PlaceInv, TypeOK, EntriesOK, ErasureInv, OwnedOK
<1>3. /\ page' \in [Slot -> Entry] /\ page'[s] = IF s = r THEN writer.bytes ELSE page[s]
    BY <1>1, <1>2
<1>4. table'[s].cur = page'[s] /\ table'[s].may = table[s].may \cup {page'[s]}
    BY <1>1, <1>3, WritesPage DEF PlaceInv
<1>5. ~At({"tabling"})' /\ (At({"written"})' => At({"written"}))
      /\ (At({"publishing", "checking"})' => At({"publishing", "checking"}))
    BY <1>1, NoneAssumption DEF PageHeld, At
<1>6. SlotMine(s)
    BY DEF MineInv
<1>7. entries'[s] = entries[s] \/ (s = r /\ entries'[s] = Absent)
    BY <1>1, <1>2
<1>8. s = r => /\ Good(s, writer.bytes)
               /\ writer.bytes.state = "Allocated" => writer.bytes.tenancy = owner[s]
               /\ writer.kind = "free" => owner[s] = 0 /\ writer.bytes.state /= "Allocated"
    <2>1. owner[s] /= 0 => s \notin free /\ s \notin released
        BY DEF PlaceInv, PlacesOK
    <2>2. s = r => /\ writer.kind = "count" => phase[s] \in InUse
                   /\ writer.kind /= "count" => owner[s] = 0 /\ writer.bytes.state /= "Allocated"
                   /\ writer.bytes.state = "Allocated" => /\ writer.bytes.tenancy = owner[s]
                                                          /\ s \notin late \cup lost => data[s].may = {owner[s]}
        BY <1>1, <1>6 DEF SlotMine, WriterMine
    <2>3. phase[s] \in InUse /\ s \notin lost => data[s].cur = owner[s]
        BY <1>6 DEF SlotMine, DataMine
    <2>4. phase[s] \in InUse => owner[s] /= 0
        BY <1>2 DEF InUse
    <2>5. QED
        BY <2>1, <2>2, <2>3, <2>4 DEF Good
<1>9. \/ data'[s] = data[s]
      \/ /\ s = r /\ writer.kind = "free"
         /\ data'[s].cur \in {data[s].cur, 0} /\ data'[s].may \subseteq data[s].may \cup {0}
    <2>1. PICK cell \in (IF writer.kind = "free" THEN Discarded(data[r]) ELSE {data[r]}) :
              data' = [data EXCEPT ![r] = cell]
        BY DEF Persist
    <2>2. cell = data[r] \/ (writer.kind = "free" /\ cell = Put(data[r], 0))
        BY <2>1 DEF Discarded
    <2>3. Put(data[r], 0).cur = 0 /\ Put(data[r], 0).may = data[r].may \cup {0}
        BY DEF Put
    <2>4. QED
        BY <1>2, <2>1, <2>2, <2>3
<1>10. Absent.state /= "Allocated"
    BY DEF Absent
<1>11. Says(s)' = table[s].may \cup {page'[s]}
    BY <1>4 DEF Says
<1> HIDE DEF r
<1>12. Keeps(s)
    <2>1. \A e \in Says(s)' : e \in Says(s) \/ (s = r /\ e = writer.bytes)
        BY <1>3, <1>11 DEF Says
    <2>2. page'[s] = page[s] \/ (s = r /\ page'[s] = writer.bytes)
        BY <1>3
    <2>3. \/ entries'[s] = entries[s]
          \/ /\ entries'[s].state = "Allocated" => entries'[s].tenancy = owner[s]
             /\ entries'[s] = Absent /\ owner[s] /= 0 /\ page'[s].state = "Allocated" => page'[s].tenancy = owner[s]
        BY <1>3, <1>7, <1>8, <1>10
    <2>4. \/ data'[s] = data[s]
          \/ /\ owner[s] = 0 /\ data'[s].cur \in {data[s].cur, 0} /\ data'[s].may \subseteq data[s].may \cup {0}
             /\ \A e \in Says(s)' : e \in Says(s) \/ e.state /= "Allocated"
        BY <1>8, <1>9, <2>1
    <2>5. QED
        BY <1>1, <1>4, <1>5, <1>8, <2>1, <2>2, <2>3, <2>4 DEF Keeps
<1>13. WriterMine(s)'
    BY <1>1, <1>6, <1>12, WriterKept
<1>14. SnapMine(s)'
    BY <1>1, <1>5, <1>6, <1>12, SnapKept
<1>15. QED
    BY <1>6, <1>12, <1>13, <1>14, Kept

\* The device refuses that write.
LEMMA PersistErrorMine ==
    ASSUME PlaceInv, ErasureInv, MineInv, NEW s \in Slot, PersistError
    PROVE  SlotMine(s)'
<1>1. /\ UNCHANGED <<free, released, unpublished, ready, erasing_now, entries, page, table, data, running, pc, snap,
                     owner, gaveBack, early, late, lost>>
      /\ writer' = NoWriter /\ writer /= NoWriter /\ ~PageHeld
      /\ phase' = IF writer.kind = "count" THEN [phase EXCEPT ![writer.slot] = "unsure"] ELSE phase
    BY DEF PersistError, pendingVars, deviceVars, gateVars, syncVars, windowVars
<1>2. ~At({"tabling"})' /\ (At({"written"})' => At({"written"}))
      /\ (At({"publishing", "checking"})' => At({"publishing", "checking"}))
    BY <1>1, NoneAssumption DEF PageHeld, At
<1>3. SlotMine(s)
    BY DEF MineInv
<1>4. phase'[s] = phase[s] \/ (phase[s] \in InUse /\ phase'[s] \in InUse)
    <2>1. phase \in [Slot -> {"none", "taken", "filled", "mapped", "unsure", "orphan"}]
        BY DEF ErasureInv, OwnedOK
    <2>2. writer.slot = s /\ writer.kind = "count" => phase[s] \in InUse
        BY <1>1, <1>3 DEF SlotMine, WriterMine
    <2>3. QED
        BY <1>1, <2>1, <2>2 DEF InUse
<1>5. Keeps(s)
    BY <1>1, <1>2, <1>4 DEF Keeps, Says
<1>6. WriterMine(s)'
    BY <1>1, <1>3, <1>5, WriterKept
<1>7. SnapMine(s)'
    BY <1>1, <1>2, <1>3, <1>5, SnapKept
<1>8. QED
    BY <1>3, <1>5, <1>6, <1>7, Kept

\* The slot that is given out: no entry that is left of it names its new
\* owner, and outside the windows none names anyone.
LEMMA TakenMine ==
    ASSUME PlaceInv, ErasureInv, MineInv, NEW s \in Slot, setup' = setup, tenancies < MaxTenancy,
           s \in free \cup released \cup freeing, writer = NoWriter, writer' = writer,
           entries'[s] = Allocated(tenancies + 1, 1), owner'[s] = tenancies + 1, phase'[s] = "taken",
           s \in unpublished', s \in ready' => s \in ready, page'[s] = page[s],
           table'[s].cur = table[s].cur, table'[s].may \subseteq table[s].may,
           UNCHANGED <<gaveBack, snap, running, pc>>,
           s \notin early' /\ s \notin lost' => \A e \in Says(s)' : e.state /= "Allocated"
    PROVE  SlotMine(s)'
<1>1. SlotMine(s)
    BY DEF MineInv
<1>2. /\ owner[s] = 0 /\ setup \in Setup /\ tenancies \in 0..MaxTenancy /\ MaxTenancy \in Nat
      /\ phase[s] /= "none" => owner[s] /= 0
      /\ s \in ready => owner[s] /= 0
    BY BoundsAreNumbers DEF PlaceInv, TypeOK, EntriesOK, PlacesOK, ErasureInv, OwnedOK
<1>3. /\ \A e \in Says(s) : e.tenancy /= tenancies + 1
      /\ s \in DOMAIN snap => snap[s].tenancy /= tenancies + 1
    <2>1. \A t \in 1..MaxTenancy : Named(s, t) => t <= tenancies
        BY DEF ErasureInv, NamesOK
    <2>2. ~Named(s, tenancies + 1)
        BY <1>2, <2>1
    <2>3. QED
        BY <2>2 DEF Named, Says
<1>4. Says(s)' \subseteq Says(s) /\ \A S : At(S)' <=> At(S)
    BY DEF Says, At
<1>5. /\ entries'[s].state = "Allocated" /\ entries'[s].tenancy = owner'[s] /\ entries'[s] /= Absent
    BY DEF Allocated, Absent
<1>6. EntriesMine(s)'
    BY <1>1, <1>2, <1>3, <1>4, <1>5 DEF SlotMine, EntriesMine
<1>7. WriterMine(s)'
    BY DEF WriterMine
<1>8. SnapMine(s)'
    <2>1. ~(s \in DOMAIN snap /\ At({"tabling"}))
        BY <1>1, <1>2 DEF SlotMine, SnapMine, InUse
    <2>2. ~(s \in DOMAIN snap' /\ At({"tabling"})')
        BY <2>1 DEF At
    <2>3. QED
        BY <1>3, <2>2 DEF SnapMine
<1>9. NamesMine(s)'
    BY DEF NamesMine
<1>10. DataMine(s)'
    BY DEF DataMine, InUse
<1>11. QED
    BY <1>6, <1>7, <1>8, <1>9, <1>10 DEF SlotMine

\* A slot is allocated.
LEMMA AllocateMine ==
    ASSUME PlaceInv, ErasureInv, MineInv, NEW s \in Slot, setup' = setup, AllocateDeferred \/ AllocateFlushing
    PROVE  SlotMine(s)'
<1> DEFINE from == IF AllocateDeferred THEN free \cup released ELSE freeing
           r == Min(from)
<1>1. from /= {} /\ from \in SUBSET Slot /\ TakeSlot(from) /\ tenancies < MaxTenancy /\ writer = NoWriter
    BY DEF AllocateDeferred, AllocateFlushing, RegistryFree, PlaceInv, TypeOK, QueuesOK
<1>2. r \in from /\ r \in Slot
    <2>1. from \in SUBSET Nat
        BY <1>1, BoundsAssumption DEF Slot
    <2>2. QED
        BY <1>1, <2>1, MinIsMember
<1>3. /\ free' = from \ {r} /\ unpublished' = unpublished \cup {r}
      /\ entries' = [entries EXCEPT ![r] = Allocated(tenancies + 1, 1)]
      /\ owner' = [owner EXCEPT ![r] = tenancies + 1] /\ phase' = [phase EXCEPT ![r] = "taken"]
      /\ UNCHANGED <<ready, erasing_now, page, writer, running, pc, snap, gaveBack>> /\ released' = {}
    BY <1>1 DEF TakeSlot, syncVars, gateVars, AllocateDeferred, AllocateFlushing
<1>4. from = free \cup released \/ (from = freeing /\ ~AllocateDeferred)
    OBVIOUS
<1> HIDE DEF from, r
<1>5. /\ owner \in [Slot -> 0..MaxTenancy] /\ entries \in [Slot -> Entry \cup {Absent}]
      /\ phase \in [Slot -> {"none", "taken", "filled", "mapped", "unsure", "orphan"}]
      /\ table \in [Slot -> Cell(Entry)] /\ data \in [Slot -> Cell(0..MaxTenancy)]
    BY DEF PlaceInv, TypeOK, EntriesOK, ErasureInv, OwnedOK
<1>6. SlotMine(s)
    BY DEF MineInv
<1>7. s /= r => /\ owner'[s] = owner[s] /\ phase'[s] = phase[s] /\ entries'[s] = entries[s]
                /\ s \in unpublished' <=> s \in unpublished
    BY <1>3, <1>5
<1>8. s = r => /\ owner'[s] = tenancies + 1 /\ phase'[s] = "taken" /\ entries'[s] = Allocated(tenancies + 1, 1)
               /\ s \in unpublished'
    BY <1>2, <1>3, <1>5
<1>9. /\ At({"tabling"})' => At({"tabling"})
      /\ At({"written"})' => At({"written"})
      /\ At({"publishing", "checking"})' => At({"publishing", "checking"})
    BY <1>3 DEF At
<1>10. CASE AllocateDeferred
    <2>1. UNCHANGED <<table, data, early, late, lost>> /\ from = free \cup released
        BY <1>10 DEF AllocateDeferred, deviceVars, windowVars, from
    <2>2. CASE s = r
        <3>1. Says(s)' = Says(s)
            BY <1>3, <2>1 DEF Says
        <3>2. s \notin early' /\ s \notin lost' => \A e \in Says(s)' : e.state /= "Allocated"
            BY <1>2, <1>6, <2>1, <2>2, <3>1 DEF SlotMine, NamesMine
        <3>3. QED
            BY <1>1, <1>2, <1>3, <1>8, <2>1, <2>2, <3>2, TakenMine
    <2>3. CASE s /= r
        <3>1. Keeps(s)
            BY <1>3, <1>7, <1>9, <2>1, <2>3 DEF Keeps, Says
        <3>2. WriterMine(s)'
            BY <1>3, <1>6, <3>1, WriterKept
        <3>3. SnapMine(s)'
            BY <1>3, <1>6, <1>7, <1>9, <2>1, <2>3, <3>1, SnapKept
        <3>4. QED
            BY <1>6, <3>1, <3>2, <3>3, Kept
    <2>4. QED
        BY <2>2, <2>3
<1>11. CASE ~AllocateDeferred
    <2>1. /\ table' = FlushAll(table) /\ data' = FlushAll(data) /\ early' = Stale(early \cup freeing)
          /\ late' = {} /\ lost' = lost /\ from = freeing
        BY <1>11 DEF AllocateFlushing, FlushDevice, from
    <2>2. /\ table'[s].cur = table[s].cur /\ table'[s].may = {table[s].cur} /\ table[s].cur \in table[s].may
          /\ data'[s].cur = data[s].cur /\ data'[s].may = {data'[s].cur}
        BY <1>5, <2>1, Flushes
    <2>3. s \in freeing => owner[s] = 0
        BY DEF PlaceInv, PlacesOK
    <2>4. CASE s = r
        <3>1. setup \in Setup /\ table[s].cur \in Entry /\ page[s] \in Entry
            BY DEF PlaceInv, TypeOK, EntriesOK, Cell
        <3>2. \A e \in {table[s].cur, page[s]} : e.state = "Allocated" => e.tenancy /= 0
            BY <3>1, EntryShape, BoundsAreNumbers
        <3>3. Says(s)' = {table[s].cur, page[s]}
            BY <1>3, <2>2 DEF Says
        <3>4. s \notin early' /\ s \notin lost' => \A e \in Says(s)' : e.state /= "Allocated"
            BY <1>2, <2>1, <2>3, <2>4, <3>2, <3>3 DEF Stale
        <3>5. QED
            BY <1>1, <1>2, <1>3, <1>8, <2>1, <2>2, <2>4, <3>4, TakenMine
    <2>5. CASE s /= r
        <3>1. s \in early' <=> s \in Stale(early \cup freeing)
            BY <2>1
        <3>2. s \in freeing => ~At({"tabling"})' \/ s \notin DOMAIN snap
            BY <1>1, <1>6, <1>9, <2>3 DEF SlotMine, SnapMine, InUse, ErasureInv, OwnedOK
        <3>3. s \in free' \/ s \in released' => s \in free \/ s \in released \/ s \in freeing
            BY <1>3, <2>1
        <3>4. QED
            BY <1>3, <1>7, <1>9, <2>1, <2>2, <2>5, <3>1, <3>2, <3>3, FlushMine
    <2>6. QED
        BY <2>4, <2>5
<1>12. QED
    BY <1>10, <1>11

\* A power cut: what is opened is one of the entries and one of the data the
\* media may hold, and these were in order together.
LEMMA CutMine ==
    ASSUME PlaceInv, ErasureInv, MineInv, NEW s \in Slot, PowerCut
    PROVE  SlotMine(s)'
<1>1. PICK entry \in Cut(table), bytes \in Cut(data) : Open(entry, bytes)
    BY DEF PowerCut
<1>2. /\ unpublished' = {} /\ ready' = {} /\ released' = {} /\ writer' = NoWriter /\ running' = None
      /\ entries' = [x \in Slot |-> Absent] /\ early' = {} /\ late' = {} /\ lost' = lost \cup early \cup late
      /\ gaveBack' = gaveBack
    BY DEF PowerCut
<1>3. table \in [Slot -> Cell(Entry)] /\ data \in [Slot -> Cell(0..MaxTenancy)] /\ setup \in Setup
    BY DEF PlaceInv, TypeOK, EntriesOK
<1>4. entry \in [Slot -> Entry] /\ entry[s] \in table[s].may
    BY <1>3, CutKeeps
<1>5. bytes[s] \in data[s].may
    BY <1>3, CutKeeps
<1>6. /\ table'[s].cur = entry[s] /\ table'[s].may = {entry[s]} /\ page'[s] = entry[s]
      /\ data'[s].cur = bytes[s] /\ data'[s].may = {bytes[s]}
      /\ s \in free' => entry[s].state = "Free"
      /\ owner'[s] = IF entry[s].state = "Allocated" THEN entry[s].tenancy ELSE 0
      /\ phase'[s] = IF entry[s].state /= "Allocated" THEN "none"
                     ELSE IF entry[s].tenancy \in gaveBack THEN "orphan" ELSE "mapped"
    BY <1>1 DEF Open, Durable
<1>7. Says(s)' = {entry[s]} /\ ~At({"tabling"})' /\ ~At({"written"})' /\ ~At({"publishing", "checking"})'
    BY <1>2, <1>6, NoneAssumption DEF Says, At
<1>8. s \notin lost' /\ entry[s].state = "Allocated" =>
          bytes[s] = entry[s].tenancy \/ (bytes[s] = 0 /\ entry[s].tenancy \in gaveBack)
    <2>1. SlotMine(s) /\ entry[s] \in Says(s)
        BY <1>4 DEF MineInv, Says
    <2>2. QED
        BY <1>2, <1>5, <2>1 DEF SlotMine, DataMine
<1>9. entries'[s].state /= "Allocated"
    BY <1>2 DEF Absent
<1>10. EntriesMine(s)'
    BY <1>2, <1>6, <1>7, <1>9 DEF EntriesMine, InUse
<1>11. WriterMine(s)' /\ SnapMine(s)'
    BY <1>2, <1>7 DEF WriterMine, SnapMine
<1>12. NamesMine(s)'
    BY <1>2, <1>6, <1>7 DEF NamesMine
<1>13. DataMine(s)'
    BY <1>2, <1>6, <1>7, <1>8 DEF DataMine, InUse
<1>14. QED
    BY <1>10, <1>11, <1>12, <1>13 DEF SlotMine

\* Every step keeps every slot in order.
LEMMA NextMine ==
    ASSUME PlaceInv, ErasureInv, MineInv, Next
    PROVE  MineInv'
<1> SUFFICES ASSUME NEW s \in Slot PROVE SlotMine(s)'
    BY DEF MineInv, Slot
<1>1. setup' = setup
    BY DEF Next
<1>2. ASSUME NEW r \in Slot, \/ Fill(r) \/ Confirm(r) \/ IncRefBatch(r) \/ IncRef(r) \/ DecRef(r)
                             \/ RetireUnpublished(r) \/ RetirePublished(r) \/ RetireErasing(r) \/ FinishErase(r)
      PROVE  SlotMine(s)'
    <2>1. CASE s = r
        BY <1>2, <2>1, FillMine, ConfirmMine, CountMine, RetireMine, FinishMine
    <2>2. CASE s /= r
        BY <1>2, <2>2, OthersMine
    <2>3. QED
        BY <2>1, <2>2
<1>3. ASSUME OwnerStep PROVE SlotMine(s)'
    BY <1>1, <1>2, <1>3, AllocateMine, PersistMine, PersistErrorMine DEF OwnerStep
<1>4. ASSUME NEW p \in Syncer, Ask(p) \/ Lock(p) \/ SyncStep(p) \/ SyncFault(p) \/ Drop(p)
      PROVE  SlotMine(s)'
    BY <1>4, QueueMine, FlushStepMine, TakeReadyMine, WriteEntriesMine, ForgetMine, PublishMine, InterruptedMine
       DEF SyncStep, SyncFault
<1>5. ASSUME NEW r \in Slot, EraseStep(r) PROVE SlotMine(s)'
    BY <1>2, <1>5, QueueMine, FlushStepMine DEF EraseStep
<1>6. QED
    BY <1>3, <1>4, <1>5, CutMine DEF Next, Step

\* The slab starts with no entry but free ones.
LEMMA InitMine ==
    ASSUME Init
    PROVE  MineInv
<1> SUFFICES ASSUME NEW s \in Slot PROVE SlotMine(s)
    BY DEF MineInv
<1>1. /\ entries[s] = Absent /\ page[s] = Free /\ table[s].cur = Free /\ table[s].may = {Free} /\ owner[s] = 0
      /\ phase[s] = "none" /\ ready = {} /\ writer = NoWriter /\ running = None /\ early = {}
    BY DEF Init, Durable
<1>2. Says(s) = {Free} /\ Free.state /= "Allocated" /\ Absent.state /= "Allocated"
    BY <1>1 DEF Says, Free, Absent
<1>3. ~At({"tabling"}) /\ ~At({"written"}) /\ ~At({"publishing", "checking"})
    BY <1>1, NoneAssumption DEF At
<1>4. EntriesMine(s) /\ WriterMine(s)
    BY <1>1, <1>2 DEF EntriesMine, WriterMine
<1>5. SnapMine(s) /\ NamesMine(s)
    BY <1>1, <1>2, <1>3 DEF SnapMine, NamesMine
<1>6. DataMine(s)
    BY <1>1, <1>2, <1>3 DEF DataMine, InUse
<1>7. QED
    BY <1>4, <1>5, <1>6 DEF SlotMine

\* Every slot is in order throughout a behaviour.
THEOREM MineHolds == Spec => []MineInv
<1>1. Init => MineInv
    BY InitMine
<1>2. PlaceInv /\ ErasureInv /\ MineInv /\ [Next]_vars => MineInv'
    <2>1. ASSUME MineInv, UNCHANGED vars PROVE MineInv'
        BY <2>1 DEF MineInv, SlotMine, EntriesMine, WriterMine, SnapMine, NamesMine, DataMine, Says, At, vars,
           slabVars, pendingVars, deviceVars, gateVars, syncVars, countVars, ghostVars, windowVars
    <2>2. QED
        BY <2>1, NextMine
<1>3. QED
    BY <1>1, <1>2, PlacesHold, ErasureHolds, PTL DEF Spec

\* The write-ordering rule of Pending (slab.rs:1050-1066), under every
\* interleaving of owners, syncs and the eraser, with failed and dropped table
\* writes: outside the two windows the history keeps, whatever entry and
\* whatever data a power cut keeps of a slot, the entry names what the slot
\* holds, or a tenancy that was freed and discarded.
THEOREM AlwaysEntriesNameTheirData == Spec => []EntriesNameTheirData
<1>1. MineInv => EntriesNameTheirData
    <2> SUFFICES ASSUME MineInv, NEW s \in Slot \ (early \cup late \cup lost), NEW e \in table[s].may,
                        NEW d \in data[s].may, e.state = "Allocated"
                 PROVE  d = e.tenancy \/ (d = 0 /\ e.tenancy \in gaveBack)
        BY DEF EntriesNameTheirData
    <2>1. SlotMine(s) /\ e \in Says(s)
        BY DEF MineInv, Says
    <2>2. QED
        BY <2>1 DEF SlotMine, DataMine
<1>2. QED
    BY <1>1, MineHolds, PTL

-----------------------------------------------------------------------------
(* A sync that answered is durable. *)

\* A table write waits for the slot's entry.
WriterAt(s) == writer /= NoWriter /\ writer.slot = s

\* Memory's entry of a slot in a map is in the table, is queued for the next
\* sync, or is one the running sync writes.
Queued(s) ==
    /\ phase[s] \in InUse /\ s \in unpublished => s \in ready
    /\ ~dropped => page[s] = table[s].cur
    /\ ~dropped /\ phase[s] = "mapped" /\ ~WriterAt(s) =>
           \/ s \in ready
           \/ At({"tabling"}) /\ s \in DOMAIN snap /\ entries[s] = snap[s]
           \/ ~(At({"tabling"}) /\ s \in DOMAIN snap) /\ entries[s] \in {Absent, page[s]}

\* The table has what memory has, and only that.
Safe(s) == table[s].may = {SlotNow(s)}

\* What the running sync writes for the slot is what memory has.
Intact(s) == At({"tabling"}) /\ s \in DOMAIN snap => entries[s] = snap[s]

\* The slot is on the media.
OnMedia(s) == Safe(s) /\ data[s].may = {owner[s]} /\ Intact(s)

\* How far the running sync is with a slot it has to make durable.
Staged(s) ==
    /\ At({"publishing", "checking", "tabling", "written", "flushing again", "published"}) =>
           data[s].may = {owner[s]}
    /\ At({"publishing"}) => Safe(s) \/ (s \in ready /\ entries[s] /= Absent)
    /\ At({"checking"}) => Safe(s) \/ (s \in ready /\ entries[s] /= Absent /\ s \in DOMAIN snap)
    /\ At({"tabling"}) => IF s \in DOMAIN snap THEN entries[s] = snap[s] ELSE Safe(s)
    /\ At({"written", "flushing again"}) => page[s] = SlotNow(s)
    /\ At({"published"}) => Safe(s)

\* A call that has its answer, or will find it has once it gets the lock.
Served(p) == result[p] = "ok" \/ (pc[p] /= "idle" /\ ticket[p] <= done)

\* A call the running sync answers for: it asked before the sync began.
Joined(p) == pc[p] /= "idle" /\ ticket[p] <= covers

\* Each caller's slots: nobody changes them, and they are on the media or on
\* their way.
CallerOK(p, s) ==
    ~dropped /\ s \in must[p] =>
        /\ phase[s] = "mapped" /\ ~WriterAt(s)
        /\ s \notin lost => (Served(p) => OnMedia(s)) /\ (Joined(p) => Staged(s))

\* An answered call has left, and the running sync answers for its own caller.
TicketsOK ==
    /\ must \in [Syncer -> SUBSET Slot]
    /\ result \in [Syncer -> {"idle", "pending", "ok", "err", "dropped"}]
    /\ \A p \in Syncer : /\ result[p] = "ok" => pc[p] = "idle"
                         /\ pc[p] /= "idle" => ticket[p] > 0
                         /\ pc[p] \in Active \ {"locked"} => ticket[p] <= covers

DurableInv == TicketsOK /\ \A s \in Slot : Queued(s) /\ \A p \in Syncer : CallerOK(p, s)

\* A slot whose entry, page and writer a step leaves alone stays queued.
LEMMA QueuedKept ==
    ASSUME NEW s \in Slot, Queued(s), phase'[s] = phase[s], entries'[s] = entries[s], page'[s] = page[s],
           table'[s].cur = table[s].cur \/ table'[s].cur = page[s], dropped' = dropped,
           WriterAt(s) => WriterAt(s)',
           s \in unpublished' => s \in unpublished,
           s \in ready => s \in ready' \/ (entries[s] = Absent /\ s \notin unpublished /\ ~At({"tabling"})'),
           At({"tabling"})' <=> At({"tabling"}), At({"tabling"})' => snap' = snap
    PROVE  Queued(s)'
<1>1. phase'[s] \in InUse /\ s \in unpublished' => s \in ready'
    BY DEF Queued
<1>2. ~dropped' => page'[s] = table'[s].cur
    BY DEF Queued
<1>3. ASSUME ~dropped', phase'[s] = "mapped", ~WriterAt(s)'
      PROVE  \/ s \in ready'
             \/ At({"tabling"})' /\ s \in DOMAIN snap' /\ entries'[s] = snap'[s]
             \/ ~(At({"tabling"})' /\ s \in DOMAIN snap') /\ entries'[s] \in {Absent, page'[s]}
    BY <1>3 DEF Queued
<1>4. QED
    BY <1>1, <1>2, <1>3 DEF Queued

\* The gate's steps, a sync reading entries, the flushes and the eraser; x is
\* a syncer or a slot.
LEMMA QueueQueued ==
    ASSUME PlaceInv, NEW x, NEW s \in Slot, Queued(s), dropped' = dropped,
           \/ x \in Syncer /\ \/ Ask(x) \/ Lock(x) \/ Covered(x) \/ TakeFreeing(x) \/ ReadEntries(x)
                              \/ ReadAgain(x) \/ NothingToPublish(x) \/ FirstFlushError(x) \/ SecondFlushError(x)
                              \/ FirstFlush(x) \/ SecondFlush(x)
           \/ TakeErasing(x) \/ ReturnErase(x) \/ EraseOne(x)
    PROVE  Queued(s)'
<1>1. UNCHANGED <<phase, page, writer, unpublished, entries>>
    BY AtLeaves DEF Ask, Lock, Covered, TakeFreeing, ReadEntries, ReadAgain, NothingToPublish, FirstFlushError,
       SecondFlushError, FirstFlush, SecondFlush, TakeErasing, ReturnErase, EraseOne, ghostVars, pendingVars
<1>2. table'[s].cur = table[s].cur
    <2>1. table \in [Slot -> Cell(Entry)]
        BY DEF PlaceInv, TypeOK, EntriesOK
    <2>2. table' = table \/ table' = FlushAll(table)
        BY DEF Ask, Lock, Covered, TakeFreeing, ReadEntries, ReadAgain, NothingToPublish, FirstFlushError,
           SecondFlushError, FirstFlush, SecondFlush, TakeErasing, ReturnErase, EraseOne, deviceVars, FlushDevice
    <2>3. QED
        BY <2>1, <2>2, Flushes
<1>3. (At({"tabling"})' <=> At({"tabling"})) /\ (At({"tabling"})' => snap' = snap)
    <2>1. pc \in [Syncer -> Pc] /\ \A p \in Syncer : pc[p] \in Active => running = p
        BY DEF PlaceInv, TypeOK, GateOK, HolderOK
    <2>2. CASE TakeErasing(x) \/ ReturnErase(x) \/ EraseOne(x)
        BY <2>2 DEF TakeErasing, ReturnErase, EraseOne, gateVars, syncVars, At
    <2>3. CASE x \in Syncer /\ Ask(x)
        <3>1. /\ pc' = [pc EXCEPT ![x] = "waiting"] /\ pc[x] = "idle"
              /\ UNCHANGED <<running, snap>>
            BY <2>3 DEF Ask, syncVars
        <3>2. QED
            BY <2>1, <2>3, <3>1 DEF At
    <2>4. CASE x \in Syncer /\ Lock(x)
        <3>1. /\ pc' = [pc EXCEPT ![x] = "locked"] /\ running = None /\ running' = x
            BY <2>4 DEF Lock
        <3>2. QED
            BY <2>1, <2>4, <3>1, NoneAssumption DEF At
    <2>5. CASE x \in Syncer /\ (TakeFreeing(x) \/ ReadEntries(x) \/ ReadAgain(x) \/ FirstFlush(x))
        <3>1. /\ pc[x] \in {"locked", "publishing", "checking", "flushing"} /\ running' = running
              /\ \/ pc' = [pc EXCEPT ![x] = "flushing"] \/ pc' = [pc EXCEPT ![x] = "checking"]
                 \/ pc' = [pc EXCEPT ![x] = "publishing"] \/ pc' = [pc EXCEPT ![x] = "published"]
            BY <2>5 DEF TakeFreeing, ReadEntries, ReadAgain, FirstFlush
        <3>2. running = x
            BY <2>1, <2>5, <3>1 DEF Active
        <3>3. QED
            BY <2>1, <2>5, <3>1, <3>2 DEF At
    <2>6. CASE x \in Syncer /\ \/ Covered(x) \/ NothingToPublish(x) \/ FirstFlushError(x) \/ SecondFlushError(x)
                               \/ SecondFlush(x)
        <3>1. PICK answer \in {"ok", "err"} : Leave(x, answer)
            BY <2>6 DEF Covered, NothingToPublish, FirstFlushError, SecondFlushError, SecondFlush
        <3>2. pc[x] \in {"locked", "published", "flushing", "flushing again"}
            BY <2>6 DEF Covered, NothingToPublish, FirstFlushError, SecondFlushError, SecondFlush
        <3>3. running = x
            BY <2>1, <2>6, <3>2 DEF Active
        <3>4. ~At({"tabling"}) /\ ~At({"tabling"})'
            BY <2>6, <3>1, <3>2, <3>3, AtLeaves DEF At
        <3>5. QED
            BY <3>4
    <2>7. QED
        BY <2>2, <2>3, <2>4, <2>5, <2>6
<1>4. s \in ready => s \in ready' \/ (entries[s] = Absent /\ s \notin unpublished /\ ~At({"tabling"})')
    <2>1. CASE x \in Syncer /\ ReadEntries(x)
        <3>1. ready' = ready \ {z \in ready : entries[z] = Absent /\ z \notin unpublished}
            BY <2>1 DEF ReadEntries
        <3>2. pc[x] = "publishing" /\ running = x
            BY <2>1, HolderFacts DEF ReadEntries, Active
        <3>3. ~At({"tabling"})
            BY <3>2 DEF At
        <3>4. QED
            BY <1>3, <3>1, <3>3
    <2>2. CASE ~(x \in Syncer /\ ReadEntries(x))
        BY <2>2 DEF Ask, Lock, Covered, TakeFreeing, ReadAgain, NothingToPublish, FirstFlushError,
           SecondFlushError, FirstFlush, SecondFlush, TakeErasing, ReturnErase, EraseOne, pendingVars
    <2>3. QED
        BY <2>1, <2>2
<1>5. WriterAt(s)' <=> WriterAt(s)
    BY <1>1 DEF WriterAt
<1>6. QED
    BY <1>1, <1>2, <1>3, <1>4, <1>5, QueuedKept

\* What an owner does to its own slot, or the eraser to one it erased.
LEMMA OwnQueued ==
    ASSUME PlaceInv, ErasureInv, MineInv, NEW s \in Slot, Queued(s), dropped' = dropped,
           \/ Fill(s) \/ Confirm(s) \/ IncRefBatch(s) \/ IncRef(s) \/ DecRef(s)
           \/ RetireUnpublished(s) \/ RetirePublished(s) \/ RetireErasing(s) \/ FinishErase(s)
    PROVE  Queued(s)'
<1>1. phase \in [Slot -> {"none", "taken", "filled", "mapped", "unsure", "orphan"}]
    BY DEF ErasureInv, OwnedOK
<1>2. page' = page /\ table' = table
    BY DEF Fill, Confirm, IncRefBatch, IncRef, DecRef, RetireUnpublished, RetirePublished, RetireErasing,
       FinishErase, deviceVars
<1>3. ASSUME Fill(s) \/ RetireUnpublished(s) \/ RetirePublished(s) \/ RetireErasing(s) \/ FinishErase(s)
      PROVE  phase'[s] \in {"none", "filled"}
    <2>1. FinishErase(s) => phase' = phase /\ owner[s] = 0
        BY DEF FinishErase, ghostVars, PlaceInv, PlacesOK, TypeOK, QueuesOK
    <2>2. owner[s] = 0 => phase[s] = "none"
        BY DEF ErasureInv, OwnedOK
    <2>3. QED
        BY <1>1, <1>3, <2>1, <2>2 DEF Fill, RetireUnpublished, RetirePublished, RetireErasing, GiveBack
<1>4. ASSUME Confirm(s) \/ IncRefBatch(s) \/ DecRef(s) PROVE s \in ready'
    <2>1. phase[s] = "filled" => s \in unpublished
        BY DEF MineInv, SlotMine, EntriesMine
    <2>2. QED
        BY <1>4, <2>1 DEF Confirm, IncRefBatch, DecRef
<1>5. IncRef(s) => WriterAt(s)' /\ phase' = phase /\ UNCHANGED <<unpublished, ready>>
    BY DEF IncRef, WriterAt, NoWriter
<1>6. QED
    BY <1>2, <1>3, <1>4, <1>5 DEF Queued, InUse

\* What is done to one slot leaves the others queued.
LEMMA OthersQueued ==
    ASSUME PlaceInv, ErasureInv, NEW r \in Slot, NEW s \in Slot \ {r}, Queued(s), dropped' = dropped,
           \/ Fill(r) \/ Confirm(r) \/ IncRefBatch(r) \/ IncRef(r) \/ DecRef(r)
           \/ RetireUnpublished(r) \/ RetirePublished(r) \/ RetireErasing(r) \/ FinishErase(r)
    PROVE  Queued(s)'
<1>1. entries \in [Slot -> Entry \cup {Absent}] /\ phase \in [Slot -> {"none", "taken", "filled", "mapped", "unsure", "orphan"}]
    BY DEF PlaceInv, TypeOK, EntriesOK, ErasureInv, OwnedOK
<1>2. phase'[s] = phase[s] /\ entries'[s] = entries[s] /\ page' = page /\ table' = table
    BY <1>1 DEF Fill, Confirm, IncRefBatch, IncRef, DecRef, RetireUnpublished, RetirePublished, RetireErasing,
       FinishErase, GiveBack, pendingVars, deviceVars, ghostVars
<1>3. (s \in ready' <=> s \in ready) /\ (s \in unpublished' <=> s \in unpublished)
    BY DEF Fill, Confirm, IncRefBatch, IncRef, DecRef, RetireUnpublished, RetirePublished, RetireErasing,
       FinishErase, pendingVars
<1>4. WriterAt(s) => WriterAt(s)'
    BY DEF Fill, Confirm, IncRefBatch, IncRef, DecRef, RetireUnpublished, RetirePublished, RetireErasing,
       FinishErase, RegistryFree, WriterAt
<1>5. (At({"tabling"})' <=> At({"tabling"})) /\ snap' = snap
    BY DEF Fill, Confirm, IncRefBatch, IncRef, DecRef, RetireUnpublished, RetirePublished, RetireErasing,
       FinishErase, syncVars, gateVars, At
<1>6. QED
    BY <1>2, <1>3, <1>4, <1>5, QueuedKept

\* A slot is allocated.
LEMMA AllocateQueued ==
    ASSUME PlaceInv, ErasureInv, NEW s \in Slot, Queued(s), dropped' = dropped, AllocateDeferred \/ AllocateFlushing
    PROVE  Queued(s)'
<1>1. PICK r : /\ unpublished' = unpublished \cup {r}
               /\ entries' = [entries EXCEPT ![r] = Allocated(tenancies + 1, 1)]
               /\ phase' = [phase EXCEPT ![r] = "taken"]
               /\ UNCHANGED <<ready, page, writer, running, pc, snap>>
    BY DEF AllocateDeferred, AllocateFlushing, TakeSlot, syncVars, gateVars
<1>2. /\ entries \in [Slot -> Entry \cup {Absent}] /\ table \in [Slot -> Cell(Entry)]
      /\ phase \in [Slot -> {"none", "taken", "filled", "mapped", "unsure", "orphan"}]
    BY DEF PlaceInv, TypeOK, EntriesOK, ErasureInv, OwnedOK
<1>3. table'[s].cur = table[s].cur
    <2>1. table' = table \/ table' = FlushAll(table)
        BY DEF AllocateDeferred, AllocateFlushing, FlushDevice, deviceVars
    <2>2. QED
        BY <1>2, <2>1, Flushes
<1>4. CASE s = r
    <2>1. phase'[s] = "taken"
        BY <1>1, <1>2, <1>4
    <2>2. QED
        BY <1>1, <1>3, <2>1 DEF Queued, InUse
<1>5. CASE s /= r
    <2>1. phase'[s] = phase[s] /\ entries'[s] = entries[s] /\ (s \in unpublished' <=> s \in unpublished)
        BY <1>1, <1>2, <1>5
    <2>2. (WriterAt(s)' <=> WriterAt(s)) /\ (At({"tabling"})' <=> At({"tabling"}))
        BY <1>1 DEF WriterAt, At
    <2>3. QED
        BY <1>1, <1>3, <2>1, <2>2, QueuedKept
<1>6. QED
    BY <1>4, <1>5

\* The table write the registry is held for ends, or fails.
LEMMA PersistQueued ==
    ASSUME PlaceInv, ErasureInv, MineInv, NEW s \in Slot, Queued(s), dropped' = dropped, Persist \/ PersistError
    PROVE  Queued(s)'
<1>1. /\ UNCHANGED <<unpublished, ready, running, pc, snap>> /\ writer /= NoWriter /\ writer' = NoWriter
      /\ ~PageHeld
    BY DEF Persist, PersistError, gateVars, syncVars, pendingVars
<1>2. ~At({"tabling"}) /\ ~At({"tabling"})'
    BY <1>1, NoneAssumption DEF PageHeld, At
<1>3. /\ page \in [Slot -> Entry] /\ entries \in [Slot -> Entry \cup {Absent}] /\ writer.slot \in Slot
      /\ writer.bytes \in Entry
      /\ phase \in [Slot -> {"none", "taken", "filled", "mapped", "unsure", "orphan"}]
    BY <1>1 DEF PlaceInv, TypeOK, EntriesOK, ErasureInv, OwnedOK
<1>4. writer.slot = s => IF writer.kind = "count" THEN phase[s] \in InUse ELSE phase[s] = "none"
    <2>1. SlotMine(s) /\ (owner[s] = 0 => phase[s] = "none")
        BY DEF MineInv, ErasureInv, OwnedOK
    <2>2. QED
        BY <1>1, <2>1 DEF SlotMine, WriterMine
<1>5. CASE Persist
    <2>1. /\ page' = [page EXCEPT ![writer.slot] = writer.bytes] /\ table' = WritePage(page') /\ phase' = phase
          /\ entries' = (IF writer.slot \in unpublished THEN entries ELSE [entries EXCEPT ![writer.slot] = Absent])
        BY <1>5 DEF Persist, ghostVars
    <2>2. page' \in [Slot -> Entry]
        BY <1>3, <2>1
    <2>3. table'[s].cur = page'[s]
        BY <2>1, <2>2, WritesPage DEF PlaceInv
    <2>4. CASE s = writer.slot
        <3>1. s \in unpublished \/ entries'[s] = Absent
            BY <1>3, <2>1, <2>4
        <3>2. QED
            BY <1>1, <1>2, <1>4, <2>1, <2>3, <2>4, <3>1 DEF Queued, InUse
    <2>5. CASE s /= writer.slot
        <3>1. page'[s] = page[s] /\ entries'[s] = entries[s] /\ ~WriterAt(s)
            BY <1>3, <2>1, <2>5 DEF WriterAt
        <3>2. QED
            BY <1>1, <1>2, <2>1, <2>3, <3>1, QueuedKept
    <2>6. QED
        BY <2>4, <2>5
<1>6. CASE PersistError
    <2>1. /\ UNCHANGED <<page, table, entries>>
          /\ phase' = IF writer.kind = "count" THEN [phase EXCEPT ![writer.slot] = "unsure"] ELSE phase
        BY <1>6 DEF PersistError, pendingVars, deviceVars
    <2>2. CASE s = writer.slot
        <3>1. /\ phase'[s] \in InUse => phase[s] \in InUse
              /\ phase'[s] /= "mapped"
            BY <1>3, <1>4, <2>1, <2>2 DEF InUse
        <3>2. QED
            BY <1>1, <2>1, <3>1 DEF Queued
    <2>3. CASE s /= writer.slot
        <3>1. phase'[s] = phase[s] /\ ~WriterAt(s)
            BY <1>3, <2>1, <2>3 DEF WriterAt
        <3>2. QED
            BY <1>1, <1>2, <2>1, <3>1, QueuedKept
    <2>4. QED
        BY <2>2, <2>3
<1>7. QED
    BY <1>5, <1>6

\* The running sync takes its entries, writes them, forgets what it wrote and
\* nobody changed, or publishes with the registry held.
LEMMA SyncQueued ==
    ASSUME PlaceInv, ErasureInv, MineInv, NEW p \in Syncer, NEW s \in Slot, Queued(s), dropped' = dropped,
           TakeReady(p) \/ WriteEntries(p) \/ ForgetWritten(p) \/ PublishReady(p)
    PROVE  Queued(s)'
<1>1. UNCHANGED <<phase, writer, snap, running>>
    BY DEF TakeReady, WriteEntries, ForgetWritten, PublishReady, ghostVars, syncVars
<1>2. pc \in [Syncer -> Pc] /\ running = p
    <2>1. pc[p] \in Active
        BY DEF TakeReady, WriteEntries, ForgetWritten, PublishReady, Active
    <2>2. QED
        BY <2>1, HolderFacts DEF PlaceInv, TypeOK, GateOK
<1>3. WriterAt(s)' <=> WriterAt(s)
    BY <1>1 DEF WriterAt
<1>4. DOMAIN snap \subseteq Slot /\ \A x \in DOMAIN snap : snap[x] \in Entry
    BY DEF PlaceInv, TypeOK, EntriesOK
<1>5. CASE TakeReady(p)
    <2>1. /\ UNCHANGED <<page, table, entries>> /\ ready' = ready \ DOMAIN snap /\ unpublished' = unpublished \ DOMAIN snap
          /\ StillCurrent /\ pc[p] = "checking" /\ pc' = [pc EXCEPT ![p] = "tabling"]
        BY <1>5 DEF TakeReady, deviceVars
    <2>2. At({"tabling"})' /\ ~At({"tabling"})
        BY <1>1, <1>2, <2>1 DEF At
    <2>3. s \in DOMAIN snap => entries[s] = snap[s]
        BY <2>1 DEF StillCurrent
    <2>4. QED
        BY <1>1, <1>3, <2>1, <2>2, <2>3 DEF Queued
<1>6. CASE WriteEntries(p)
    <2>1. /\ UNCHANGED <<entries, ready, unpublished>> /\ page' = PageWith(snap) /\ table' = WritePage(page')
          /\ pc[p] = "tabling" /\ pc' = [pc EXCEPT ![p] = "written"]
        BY <1>6 DEF WriteEntries, pendingVars
    <2>2. At({"tabling"}) /\ ~At({"tabling"})'
        BY <1>1, <1>2, <2>1 DEF At
    <2>3. page' \in [Slot -> Entry] /\ page'[s] = IF s \in DOMAIN snap THEN snap[s] ELSE page[s]
        BY <1>4, <2>1, PagesWith DEF PlaceInv
    <2>4. table'[s].cur = page'[s]
        BY <2>1, <2>3, WritesPage DEF PlaceInv
    <2>5. QED
        BY <1>1, <1>3, <2>1, <2>2, <2>3, <2>4 DEF Queued
<1>7. CASE ForgetWritten(p)
    <2>1. /\ UNCHANGED <<page, table, ready, unpublished>>
          /\ entries'[s] = entries[s] \/ entries'[s] = Absent
          /\ pc[p] = "written" /\ pc' = [pc EXCEPT ![p] = "flushing again"]
        BY <1>7 DEF ForgetWritten, deviceVars
    <2>2. ~At({"tabling"})' /\ ~At({"tabling"})
        BY <1>1, <1>2, <2>1 DEF At
    <2>3. QED
        BY <1>1, <1>3, <2>1, <2>2 DEF Queued
<1>8. CASE PublishReady(p)
    <2> DEFINE f == [x \in ready |-> SlotNow(x)]
    <2>1. /\ unpublished' = unpublished \ ready /\ page' = PageWith(f) /\ table' = WritePage(page')
          /\ entries'[s] = (IF s \in ready THEN Absent ELSE entries[s]) /\ pc[p] = "publishing"
          /\ pc' = [pc EXCEPT ![p] = "published"] \/ pc' = [pc EXCEPT ![p] = "flushing again"]
        BY <1>8 DEF PublishReady
    <2>2. ~At({"tabling"})' /\ ~At({"tabling"})
        BY <1>1, <1>2, <2>1 DEF At
    <2>3. DOMAIN f = ready /\ ready \subseteq Slot /\ \A x \in ready : f[x] \in Entry
        BY SlotNowIsEntry DEF PlaceInv, TypeOK, QueuesOK
    <2> HIDE DEF f
    <2>4. page' \in [Slot -> Entry] /\ (s \notin ready => page'[s] = page[s])
        BY <2>1, <2>3, PagesWith DEF PlaceInv
    <2>5. table'[s].cur = page'[s]
        BY <2>1, <2>4, WritesPage DEF PlaceInv
    <2>6. QED
        BY <1>1, <1>3, <2>1, <2>2, <2>4, <2>5 DEF Queued
<1>9. QED
    BY <1>5, <1>6, <1>7, <1>8

\* A table write of the running sync fails, or a call is dropped.
LEMMA InterruptedQueued ==
    ASSUME PlaceInv, ErasureInv, MineInv, NEW p \in Syncer, NEW s \in Slot, Queued(s),
           \/ dropped' = dropped /\ (WriteEntriesError(p) \/ PublishReadyError(p))
           \/ dropped' /\ Drop(p)
    PROVE  Queued(s)'
<1>1. UNCHANGED <<phase, writer, entries>>
    BY AtLeaves DEF WriteEntriesError, PublishReadyError, Drop, pendingVars
<1>2. WriterAt(s)' <=> WriterAt(s)
    BY <1>1 DEF WriterAt
<1>3. CASE Drop(p) /\ dropped'
    <2>1. UNCHANGED <<unpublished, ready>>
        BY <1>3 DEF Drop, pendingVars
    <2>2. QED
        BY <1>1, <1>3, <2>1 DEF Queued
<1>4. CASE WriteEntriesError(p) /\ dropped' = dropped
    <2>1. pc[p] = "tabling" /\ running = p /\ Leave(p, "err")
        BY <1>4, HolderFacts DEF WriteEntriesError, Active
    <2>2. At({"tabling"}) /\ ~At({"tabling"})'
        BY <2>1, AtLeaves DEF At
    <2>3. PICK landed \in SUBSET DOMAIN snap : WriteSome(snap, landed)
        BY <1>4 DEF WriteEntriesError
    <2>4. DOMAIN snap \subseteq Slot /\ \A x \in DOMAIN snap : snap[x] \in Entry
        BY DEF PlaceInv, TypeOK, EntriesOK
    <2>5. page'[s] = (IF s \in landed THEN snap[s] ELSE page[s]) /\ table'[s].cur = page'[s]
        BY <2>3, <2>4, PageWrites DEF WriteSome
    <2>6. /\ ready' = ready \cup {x \in DOMAIN snap : entries[x] = snap[x]}
          /\ unpublished' = unpublished \cup ({x \in DOMAIN snap : entries[x] = snap[x]} \cap newly)
        BY <1>4 DEF WriteEntriesError
    <2>7. QED
        BY <1>1, <1>2, <1>4, <2>2, <2>5, <2>6 DEF Queued
<1>5. CASE PublishReadyError(p) /\ dropped' = dropped
    <2> DEFINE f == [x \in ready |-> SlotNow(x)]
    <2>1. pc[p] = "publishing" /\ running = p /\ Leave(p, "err") /\ UNCHANGED <<ready, unpublished>>
        BY <1>5, HolderFacts DEF PublishReadyError, Active, pendingVars
    <2>2. ~At({"tabling"}) /\ ~At({"tabling"})'
        BY <2>1, AtLeaves DEF At
    <2>3. DOMAIN f = ready /\ ready \subseteq Slot /\ \A x \in ready : f[x] \in Entry
        BY SlotNowIsEntry DEF PlaceInv, TypeOK, QueuesOK
    <2>4. PICK landed \in SUBSET ready : WriteSome(f, landed)
        BY <1>5 DEF PublishReadyError
    <2> HIDE DEF f
    <2>5. page'[s] = (IF s \in landed THEN f[s] ELSE page[s]) /\ table'[s].cur = page'[s]
        BY <2>3, <2>4, PageWrites DEF WriteSome
    <2>6. QED
        BY <1>1, <1>2, <1>5, <2>1, <2>2, <2>5 DEF Queued
<1>6. QED
    BY <1>3, <1>4, <1>5

\* The slab is opened after a power cut.
LEMMA CutQueued ==
    ASSUME PlaceInv, NEW s \in Slot, PowerCut
    PROVE  Queued(s)'
<1>1. PICK entry \in Cut(table), bytes \in Cut(data) : Open(entry, bytes)
    BY DEF PowerCut
<1>2. unpublished' = {} /\ entries'[s] = Absent /\ running' = None
    BY DEF PowerCut
<1>3. page'[s] = entry[s] /\ table'[s].cur = entry[s] /\ ~At({"tabling"})'
    BY <1>1, <1>2, NoneAssumption DEF Open, Durable, At
<1>4. QED
    BY <1>2, <1>3 DEF Queued

\* A flush, or a write of the page, leaves a slot that is on the media there.
LEMMA CallerCarried ==
    ASSUME PlaceInv, NEW p \in Syncer, NEW s \in Slot, SlotMine(s), Queued(s), CallerOK(p, s),
           UNCHANGED <<gateVars, snap, result, lost, dropped>>,
           s \in must'[p] => s \in must[p],
           s \in must'[p] /\ ~dropped /\ phase[s] = "mapped" /\ ~WriterAt(s) =>
               /\ phase'[s] = phase[s] /\ ~WriterAt(s)' /\ owner'[s] = owner[s]
               /\ entries'[s] = entries[s] /\ page'[s] = page[s] /\ (s \in ready' <=> s \in ready)
               /\ \/ table'[s].may = table[s].may \/ table'[s].may = table[s].may \cup {page[s]}
                  \/ table'[s].may = {table[s].cur}
               /\ data'[s].may = data[s].may \/ data'[s].may = {data[s].cur}
    PROVE  CallerOK(p, s)'
<1> SUFFICES ASSUME ~dropped', s \in must'[p]
             PROVE  /\ phase'[s] = "mapped" /\ ~WriterAt(s)'
                    /\ s \notin lost' => (Served(p)' => OnMedia(s)') /\ (Joined(p)' => Staged(s)')
    BY DEF CallerOK
<1>1. /\ phase[s] = "mapped" /\ ~WriterAt(s) /\ ~dropped
      /\ s \notin lost => (Served(p) => OnMedia(s)) /\ (Joined(p) => Staged(s))
    BY DEF CallerOK
<1>2. /\ phase'[s] = phase[s] /\ ~WriterAt(s)' /\ owner'[s] = owner[s]
      /\ entries'[s] = entries[s] /\ page'[s] = page[s] /\ (s \in ready' <=> s \in ready)
      /\ \/ table'[s].may = table[s].may \/ table'[s].may = table[s].may \cup {page[s]}
         \/ table'[s].may = {table[s].cur}
      /\ data'[s].may = data[s].may \/ data'[s].may = {data[s].cur}
    BY <1>1
<1>3. UNCHANGED <<asked, done, running, pc, ticket, covers>>
    BY DEF gateVars
<1>4. (Served(p)' <=> Served(p)) /\ (Joined(p)' <=> Joined(p))
    BY <1>3 DEF Served, Joined
<1>5. SlotNow(s)' = SlotNow(s) /\ page[s] = table[s].cur /\ table[s].cur \in table[s].may /\ data[s].cur \in data[s].may
    BY <1>1, <1>2 DEF SlotNow, Queued, PlaceInv, TypeOK, EntriesOK, Cell
<1>6. Safe(s) => Safe(s)'
    BY <1>2, <1>5 DEF Safe
<1>7. data[s].may = {owner[s]} => data'[s].may = {owner'[s]}
    BY <1>2, <1>5
<1>8. OnMedia(s) => OnMedia(s)'
    BY <1>2, <1>3, <1>6, <1>7 DEF OnMedia, Intact, At
<1>9. Staged(s) => Staged(s)'
    BY <1>2, <1>3, <1>5, <1>6, <1>7 DEF Staged, At
<1>10. QED
    BY <1>1, <1>2, <1>4, <1>8, <1>9

\* What an owner does to its own slot, or the eraser to one it erases: no
\* earlier call answers for it.
LEMMA OwnCaller ==
    ASSUME PlaceInv, ErasureInv, NEW p \in Syncer, NEW s \in Slot, CallerOK(p, s), UNCHANGED dropped,
           \/ Fill(s) \/ Confirm(s) \/ IncRefBatch(s) \/ IncRef(s) \/ DecRef(s) \/ EraseOne(s)
           \/ RetireUnpublished(s) \/ RetirePublished(s) \/ RetireErasing(s) \/ FinishErase(s)
    PROVE  CallerOK(p, s)'
<1>1. CASE IncRefBatch(s) \/ IncRef(s) \/ DecRef(s) \/ RetireUnpublished(s) \/ RetirePublished(s) \/ RetireErasing(s)
    <2>1. Touch({s})
        BY <1>1 DEF IncRefBatch, IncRef, DecRef, RetireUnpublished, RetirePublished, RetireErasing, GiveBack
    <2>2. s \notin must'[p]
        BY <2>1 DEF Touch
    <2>3. QED
        BY <2>2 DEF CallerOK
<1>2. CASE Fill(s) \/ Confirm(s) \/ EraseOne(s) \/ FinishErase(s)
    <2>1. must' = must
        BY <1>2 DEF Fill, Confirm, EraseOne, FinishErase, ghostVars
    <2>2. phase[s] /= "mapped"
        <3>1. EraseOne(s) \/ FinishErase(s) => owner[s] = 0
            BY DEF EraseOne, FinishErase, PlaceInv, PlacesOK, TypeOK, QueuesOK
        <3>2. phase[s] /= "none" => owner[s] /= 0
            BY DEF ErasureInv, OwnedOK
        <3>3. QED
            BY <1>2, <3>1, <3>2 DEF Fill, Confirm
    <2>3. QED
        BY <2>1, <2>2 DEF CallerOK
<1>3. QED
    BY <1>1, <1>2

\* What is done to one slot leaves the others as the callers want them.
LEMMA OthersCaller ==
    ASSUME PlaceInv, NEW p \in Syncer, NEW r \in Slot, NEW s \in Slot \ {r}, ErasureInv,
           SlotMine(s), Queued(s), CallerOK(p, s), UNCHANGED dropped,
           \/ Fill(r) \/ Confirm(r) \/ IncRefBatch(r) \/ IncRef(r) \/ DecRef(r)
           \/ RetireUnpublished(r) \/ RetirePublished(r) \/ RetireErasing(r) \/ FinishErase(r)
    PROVE  CallerOK(p, s)'
<1>1. /\ entries \in [Slot -> Entry \cup {Absent}] /\ phase \in [Slot -> {"none", "taken", "filled", "mapped", "unsure", "orphan"}]
      /\ data \in [Slot -> Cell(0..MaxTenancy)] /\ owner \in [Slot -> 0..MaxTenancy]
    BY DEF PlaceInv, TypeOK, EntriesOK, ErasureInv, OwnedOK
<1>2. phase'[s] = phase[s] /\ entries'[s] = entries[s] /\ page' = page /\ table' = table
    BY <1>1 DEF Fill, Confirm, IncRefBatch, IncRef, DecRef, RetireUnpublished, RetirePublished, RetireErasing,
       FinishErase, GiveBack, pendingVars, deviceVars, ghostVars
<1>3. data'[s] = data[s] /\ owner'[s] = owner[s]
    BY <1>1 DEF Fill, Confirm, IncRefBatch, IncRef, DecRef, RetireUnpublished, RetirePublished, RetireErasing,
       FinishErase, GiveBack, deviceVars, ghostVars
<1>4. (s \in ready' <=> s \in ready) /\ UNCHANGED <<gateVars, snap, result, lost>>
    BY DEF Fill, Confirm, IncRefBatch, IncRef, DecRef, RetireUnpublished, RetirePublished, RetireErasing,
       FinishErase, pendingVars, syncVars, windowVars, ghostVars, GiveBack
<1>5. s \in must'[p] => s \in must[p]
    BY DEF Fill, Confirm, IncRefBatch, IncRef, DecRef, RetireUnpublished, RetirePublished, RetireErasing,
       FinishErase, GiveBack, Touch, ghostVars
<1>6. ~WriterAt(s) => ~WriterAt(s)'
    BY DEF Fill, Confirm, IncRefBatch, IncRef, DecRef, RetireUnpublished, RetirePublished, RetireErasing,
       FinishErase, RegistryFree, WriterAt
<1>7. QED
    BY <1>2, <1>3, <1>4, <1>5, <1>6, CallerCarried

\* A slot is allocated: one no caller has in a map.
LEMMA AllocateCaller ==
    ASSUME PlaceInv, ErasureInv, NEW p \in Syncer, NEW s \in Slot, SlotMine(s), Queued(s), CallerOK(p, s),
           UNCHANGED dropped, AllocateDeferred \/ AllocateFlushing
    PROVE  CallerOK(p, s)'
<1>1. PICK r : /\ entries' = [entries EXCEPT ![r] = Allocated(tenancies + 1, 1)]
               /\ owner' = [owner EXCEPT ![r] = tenancies + 1]
               /\ phase' = [phase EXCEPT ![r] = "taken"]
               /\ Touch({r})
               /\ UNCHANGED <<ready, page, writer, gateVars, snap, result>>
    BY DEF AllocateDeferred, AllocateFlushing, TakeSlot, syncVars
<1>2. /\ entries \in [Slot -> Entry \cup {Absent}] /\ table \in [Slot -> Cell(Entry)]
      /\ data \in [Slot -> Cell(0..MaxTenancy)] /\ owner \in [Slot -> 0..MaxTenancy]
      /\ phase \in [Slot -> {"none", "taken", "filled", "mapped", "unsure", "orphan"}]
    BY DEF PlaceInv, TypeOK, EntriesOK, ErasureInv, OwnedOK
<1>3. lost' = lost /\ (table'[s].may = table[s].may \/ table'[s].may = {table[s].cur})
      /\ (data'[s].may = data[s].may \/ data'[s].may = {data[s].cur})
    <2>1. CASE AllocateDeferred
        BY <2>1 DEF AllocateDeferred, deviceVars, windowVars
    <2>2. CASE AllocateFlushing
        <3>1. lost' = lost /\ table' = FlushAll(table) /\ data' = FlushAll(data)
            BY <2>2 DEF AllocateFlushing, FlushDevice
        <3>2. QED
            BY <1>2, <3>1, Flushes
    <2>3. QED
        BY <2>1, <2>2
<1>4. s \in must'[p] => s \in must[p] /\ s /= r
    BY <1>1 DEF Touch
<1>5. s /= r => phase'[s] = phase[s] /\ entries'[s] = entries[s] /\ owner'[s] = owner[s]
    BY <1>1, <1>2
<1>6. (WriterAt(s)' <=> WriterAt(s)) /\ page'[s] = page[s] /\ (s \in ready' <=> s \in ready)
      /\ UNCHANGED <<gateVars, snap, result>>
    BY <1>1 DEF WriterAt
<1>7. QED
    BY <1>3, <1>4, <1>5, <1>6, CallerCarried

\* The table write the registry is held for ends, or fails: it is of a slot
\* no call answers for.
LEMMA PersistCaller ==
    ASSUME PlaceInv, ErasureInv, NEW p \in Syncer, NEW s \in Slot, SlotMine(s), Queued(s), CallerOK(p, s),
           UNCHANGED dropped, Persist \/ PersistError
    PROVE  CallerOK(p, s)'
<1>1. /\ writer /= NoWriter /\ writer' = NoWriter
      /\ UNCHANGED <<ready, gateVars, snap, result, lost, must, owner>>
    BY DEF Persist, PersistError, syncVars, pendingVars, ghostVars, windowVars
<1>2. /\ page \in [Slot -> Entry] /\ entries \in [Slot -> Entry \cup {Absent}] /\ writer.slot \in Slot
      /\ writer.bytes \in Entry /\ data \in [Slot -> Cell(0..MaxTenancy)]
      /\ phase \in [Slot -> {"none", "taken", "filled", "mapped", "unsure", "orphan"}]
    BY <1>1 DEF PlaceInv, TypeOK, EntriesOK, ErasureInv, OwnedOK
<1>3. ~WriterAt(s)' /\ (~WriterAt(s) => s /= writer.slot)
    BY <1>1 DEF WriterAt
<1>4. ASSUME s /= writer.slot
      PROVE  /\ phase'[s] = phase[s] /\ entries'[s] = entries[s] /\ page'[s] = page[s] /\ data'[s] = data[s]
             /\ table'[s].may = table[s].may \/ table'[s].may = table[s].may \cup {page[s]}
    <2>1. CASE Persist
        <3>1. /\ page' = [page EXCEPT ![writer.slot] = writer.bytes] /\ table' = WritePage(page') /\ phase' = phase
              /\ entries' = (IF writer.slot \in unpublished THEN entries ELSE [entries EXCEPT ![writer.slot] = Absent])
            BY <2>1 DEF Persist, ghostVars
        <3>2. PICK cell : data' = [data EXCEPT ![writer.slot] = cell]
            BY <2>1 DEF Persist
        <3>3. page' \in [Slot -> Entry] /\ page'[s] = page[s]
            BY <1>2, <1>4, <3>1
        <3>4. table'[s].may = table[s].may \cup {page'[s]}
            BY <3>1, <3>3, WritesPage DEF PlaceInv
        <3>5. QED
            BY <1>2, <1>4, <3>1, <3>2, <3>3, <3>4
    <2>2. CASE PersistError
        BY <1>2, <1>4, <2>2 DEF PersistError, pendingVars, deviceVars
    <2>3. QED
        BY <2>1, <2>2
<1>5. QED
    BY <1>1, <1>3, <1>4, CallerCarried

\* The eraser takes a slot, puts it back, or overwrites it and flushes.
LEMMA EraserCaller ==
    ASSUME PlaceInv, ErasureInv, NEW p \in Syncer, NEW r \in Slot, NEW s \in Slot, SlotMine(s), Queued(s),
           CallerOK(p, s), UNCHANGED dropped, TakeErasing(r) \/ ReturnErase(r) \/ EraseOne(r)
    PROVE  CallerOK(p, s)'
<1>1. CASE r = s /\ EraseOne(r)
    BY <1>1, OwnCaller
<1>2. CASE TakeErasing(r) \/ ReturnErase(r)
    <2>1. UNCHANGED <<ready, gateVars, snap, result, lost, must, owner, phase, writer, entries, page, table, data>>
        BY <1>2 DEF TakeErasing, ReturnErase, syncVars, ghostVars, windowVars, deviceVars
    <2>2. ~WriterAt(s) => ~WriterAt(s)'
        BY <2>1 DEF WriterAt
    <2>3. QED
        BY <2>1, <2>2, CallerCarried
<1>3. CASE r /= s /\ EraseOne(r)
    <2>1. /\ UNCHANGED <<ready, gateVars, snap, result, lost, must, owner, phase, writer, entries, page>>
          /\ table' = FlushAll(table) /\ data' = FlushAll([data EXCEPT ![r] = Put(@, 0)])
        BY <1>3 DEF EraseOne, syncVars, pendingVars
    <2>2. table \in [Slot -> Cell(Entry)] /\ data \in [Slot -> Cell(0..MaxTenancy)]
        BY DEF PlaceInv, TypeOK, EntriesOK
    <2>3. table'[s].may = {table[s].cur}
        BY <2>1, <2>2, Flushes
    <2>4. data'[s].may = {data[s].cur}
        BY <1>3, <2>1, <2>2 DEF FlushAll, Flushed, Durable
    <2>5. ~WriterAt(s) => ~WriterAt(s)'
        BY <2>1 DEF WriterAt
    <2>6. QED
        BY <2>1, <2>3, <2>4, <2>5, CallerCarried
<1>4. QED
    BY <1>1, <1>2, <1>3

\* A call asks, or gets the lock, and begins.
LEMMA GateCaller ==
    ASSUME PlaceInv, TicketsOK, NEW q \in Syncer, NEW p \in Syncer, NEW s \in Slot, CallerOK(p, s),
           UNCHANGED dropped, Ask(q) \/ Lock(q) \/ TakeFreeing(q)
    PROVE  CallerOK(p, s)'
<1>1. /\ pc \in [Syncer -> Pc] /\ ticket \in [Syncer -> 0..asked] /\ asked \in Nat /\ done \in 0..asked
      /\ covers \in 0..asked /\ must \in [Syncer -> SUBSET Slot]
      /\ result \in [Syncer -> {"idle", "pending", "ok", "err", "dropped"}]
      /\ \A x \in Syncer : pc[x] \in Active => running = x
    BY DEF PlaceInv, TypeOK, GateOK, TicketsOK, HolderOK
<1>2. UNCHANGED <<phase, writer, owner, entries, page, table, data, lost, done, snap, dropped>>
    BY DEF Ask, Lock, TakeFreeing, pendingVars, deviceVars, syncVars, ghostVars, windowVars
<1>3. (WriterAt(s)' <=> WriterAt(s)) /\ (Safe(s)' <=> Safe(s))
    BY <1>2 DEF WriterAt, Safe, SlotNow
<1>4. CASE Ask(q)
    <2>1. /\ pc[q] = "idle" /\ ticket' = [ticket EXCEPT ![q] = asked + 1] /\ pc' = [pc EXCEPT ![q] = "waiting"]
          /\ must' = [must EXCEPT ![q] = {x \in Slot : phase[x] = "mapped" /\ x /= writer.slot}]
          /\ result' = [result EXCEPT ![q] = "pending"] /\ UNCHANGED <<running, covers, ready>>
        BY <1>4 DEF Ask, pendingVars
    <2>2. CASE p = q
        <3>1. ~Served(p)' /\ ~Joined(p)'
            <4>1. result'[p] = "pending" /\ ticket'[p] = asked + 1 /\ ~(asked + 1 <= done) /\ ~(asked + 1 <= covers)
                BY <1>1, <2>1, <2>2
            <4>2. QED
                BY <1>2, <2>1, <4>1 DEF Served, Joined
        <3>2. s \in must'[p] => phase[s] = "mapped" /\ ~WriterAt(s)
            BY <1>1, <2>1, <2>2 DEF WriterAt
        <3>3. QED
            BY <1>2, <1>3, <3>1, <3>2 DEF CallerOK
    <2>3. CASE p /= q
        <3>1. must'[p] = must[p] /\ (Served(p)' <=> Served(p)) /\ (Joined(p)' <=> Joined(p))
            BY <1>1, <1>2, <2>1, <2>3 DEF Served, Joined
        <3>2. running \in Syncer => pc'[running] = pc[running]
            <4>1. running \in Syncer => pc[running] \in Active /\ "idle" \notin Active
                BY DEF PlaceInv, HolderOK, Active
            <4>2. QED
                BY <1>1, <2>1, <4>1
        <3>3. OnMedia(s) => OnMedia(s)'
            BY <1>2, <1>3, <2>1, <3>2 DEF OnMedia, Intact, At
        <3>4. Staged(s) => Staged(s)'
            BY <1>2, <1>3, <2>1, <3>2 DEF Staged, At, SlotNow
        <3>5. QED
            BY <1>2, <1>3, <3>1, <3>3, <3>4 DEF CallerOK
    <2>4. QED
        BY <2>2, <2>3
<1>5. CASE Lock(q) \/ TakeFreeing(q)
    <2>1. /\ pc' = [pc EXCEPT ![q] = "locked"] \/ pc' = [pc EXCEPT ![q] = "flushing"]
          /\ pc[q] \in {"waiting", "locked"} /\ UNCHANGED <<ticket, must, result>>
        BY <1>5 DEF Lock, TakeFreeing, ghostVars
    <2>2. running' = q
        BY <1>1, <1>5 DEF Lock, TakeFreeing, Active
    <2>3. Served(p)' => Served(p)
        BY <1>1, <1>2, <2>1 DEF Served
    <2>4. Intact(s)' /\ Staged(s)'
        BY <1>1, <2>1, <2>2 DEF Intact, Staged, At
    <2>5. OnMedia(s) => OnMedia(s)'
        BY <1>2, <1>3, <2>4 DEF OnMedia
    <2>6. QED
        BY <1>2, <1>3, <2>1, <2>3, <2>4, <2>5 DEF CallerOK
<1>6. QED
    BY <1>4, <1>5

\* The running sync's call returns: what it answers for is on the media.
LEMMA ReturnCaller ==
    ASSUME PlaceInv, TicketsOK, NEW q \in Syncer, NEW p \in Syncer, NEW s \in Slot, CallerOK(p, s),
           UNCHANGED <<dropped, lost>>, NEW answer \in {"ok", "err"}, Leave(q, answer), running = q,
           pc[q] \in Active,
           done' = done \/ (pc[q] /= "locked" /\ answer = "ok" /\ done' = Max({done, covers})),
           answer = "ok" => IF pc[q] = "locked" THEN ticket[q] <= done ELSE ticket[q] <= covers,
           ~dropped /\ (OnMedia(s) \/ (answer = "ok" /\ pc[q] /= "locked" /\ Staged(s))) =>
                  Safe(s)' /\ data'[s].may = {owner[s]}
    PROVE  CallerOK(p, s)'
<1>1. /\ pc \in [Syncer -> Pc] /\ ticket \in [Syncer -> 0..asked] /\ asked \in Nat /\ done \in 0..asked
      /\ covers \in 0..asked /\ must \in [Syncer -> SUBSET Slot]
      /\ result \in [Syncer -> {"idle", "pending", "ok", "err", "dropped"}]
    BY DEF PlaceInv, TypeOK, GateOK, TicketsOK
<1>2. /\ pc' = [pc EXCEPT ![q] = "idle"] /\ result' = [result EXCEPT ![q] = answer]
      /\ must' = [must EXCEPT ![q] = IF answer = "ok" THEN @ ELSE {}]
      /\ ticket' = [ticket EXCEPT ![q] = 0] /\ running' = None /\ UNCHANGED <<writer, owner, phase>>
    BY DEF Leave
<1>3. Staged(s)' /\ Intact(s)'
    BY <1>2, NoneAssumption DEF Staged, Intact, At
<1>4. (WriterAt(s)' <=> WriterAt(s))
    BY <1>2 DEF WriterAt
<1>5. s \in must'[p] => s \in must[p] /\ (p = q => answer = "ok")
    BY <1>1, <1>2
<1>6. done' /= done => done' = covers /\ covers > done
    <2>1. {done, covers} \in SUBSET (0..asked)
        BY <1>1
    <2>2. Max({done, covers}) \in {done, covers} /\ done <= Max({done, covers})
        BY <1>1, <2>1, MaxIsMember
    <2>3. QED
        BY <1>1, <2>2
<1>7. ASSUME Served(p)', s \in must'[p]
      PROVE  Served(p) \/ (answer = "ok" /\ pc[q] /= "locked" /\ Joined(p))
    <2>1. CASE p = q
        <3>1. answer = "ok" /\ pc[q] /= "idle"
            BY <1>5, <1>7, <2>1 DEF Active
        <3>2. QED
            BY <2>1, <3>1 DEF Served, Joined
    <2>2. CASE p /= q
        <3>1. pc'[p] = pc[p] /\ ticket'[p] = ticket[p] /\ result'[p] = result[p] /\ ticket[p] \in Nat
            BY <1>1, <1>2, <2>2
        <3>2. QED
            BY <1>1, <1>6, <1>7, <3>1 DEF Served, Joined
    <2>3. QED
        BY <2>1, <2>2
<1>8. ASSUME ~dropped', s \in must'[p]
      PROVE  /\ phase'[s] = "mapped" /\ ~WriterAt(s)'
             /\ s \notin lost' => (Served(p)' => OnMedia(s)') /\ (Joined(p)' => Staged(s)')
    <2>1. /\ phase[s] = "mapped" /\ ~WriterAt(s) /\ ~dropped /\ s \in must[p]
          /\ s \notin lost => (Served(p) => OnMedia(s)) /\ (Joined(p) => Staged(s))
        BY <1>5, <1>8 DEF CallerOK
    <2>2. ASSUME s \notin lost', Served(p)' PROVE OnMedia(s)'
        <3>1. Safe(s)' /\ data'[s].may = {owner[s]}
            BY <1>7, <1>8, <2>1, <2>2
        <3>2. QED
            BY <1>2, <1>3, <3>1 DEF OnMedia
    <2>3. QED
        BY <1>2, <1>3, <1>4, <2>1, <2>2
<1>9. QED
    BY <1>8 DEF CallerOK

\* The returns of a sync, and the errors of its flushes and table writes.
LEMMA AnswerCaller ==
    ASSUME PlaceInv, TicketsOK, NEW q \in Syncer, NEW p \in Syncer, NEW s \in Slot, SlotMine(s), Queued(s),
           CallerOK(p, s), UNCHANGED dropped,
           \/ Covered(q) \/ NothingToPublish(q) \/ SecondFlush(q) \/ FirstFlushError(q) \/ SecondFlushError(q)
           \/ WriteEntriesError(q) \/ PublishReadyError(q)
    PROVE  CallerOK(p, s)'
<1>1. pc[q] \in Active /\ running = q /\ (pc[q] /= "locked" => ticket[q] <= covers)
    <2>1. pc[q] \in Active
        BY DEF Covered, NothingToPublish, SecondFlush, FirstFlushError, SecondFlushError, WriteEntriesError,
           PublishReadyError, Active
    <2>2. QED
        BY <2>1, HolderFacts DEF TicketsOK
<1>2. lost' = lost
    BY DEF Covered, NothingToPublish, SecondFlush, FirstFlushError, SecondFlushError, WriteEntriesError,
       PublishReadyError, windowVars, FlushDevice
<1>3. /\ entries[s] \in Entry \cup {Absent} /\ page[s] \in Entry /\ table \in [Slot -> Cell(Entry)]
      /\ data \in [Slot -> Cell(0..MaxTenancy)] /\ Absent \notin Entry
      /\ table[s].cur \in table[s].may /\ ticket[q] \in Nat /\ done \in Nat
    <2>1. Absent \notin Entry
        BY EntryShape DEF PlaceInv, TypeOK, EntriesOK
    <2>2. QED
        BY <2>1 DEF PlaceInv, TypeOK, EntriesOK, GateOK, Cell
<1>4. CASE Covered(q) \/ NothingToPublish(q)
    <2>1. /\ Leave(q, "ok") /\ UNCHANGED <<entries, page, table, data>>
          /\ \/ pc[q] = "locked" /\ done' = done /\ done >= ticket[q]
             \/ pc[q] = "published" /\ done' = Max({done, covers})
        BY <1>4 DEF Covered, NothingToPublish, pendingVars, deviceVars
    <2>2. Safe(s)' <=> Safe(s)
        BY <2>1 DEF Safe, SlotNow
    <2>3. OnMedia(s) => Safe(s)' /\ data'[s].may = {owner[s]}
        BY <2>1, <2>2 DEF OnMedia
    <2>4. pc[q] /= "locked" /\ Staged(s) => Safe(s)' /\ data'[s].may = {owner[s]}
        BY <1>1, <2>1, <2>2 DEF Staged, At
    <2>5. ticket[q] <= done \/ pc[q] /= "locked"
        BY <1>3, <2>1
    <2>6. PICK answer \in {"ok", "err"} : answer = "ok"
        OBVIOUS
    <2>7. /\ Leave(q, answer)
          /\ done' = done \/ (pc[q] /= "locked" /\ answer = "ok" /\ done' = Max({done, covers}))
          /\ answer = "ok" => IF pc[q] = "locked" THEN ticket[q] <= done ELSE ticket[q] <= covers
        BY <1>1, <2>1, <2>3, <2>4, <2>5, <2>6
    <2>8. ~dropped /\ (OnMedia(s) \/ (answer = "ok" /\ pc[q] /= "locked" /\ Staged(s))) =>
                 Safe(s)' /\ data'[s].may = {owner[s]}
        BY <1>1, <2>1, <2>3, <2>4, <2>5, <2>6
    <2>9. QED
        BY <1>1, <1>2, <2>7, <2>8, ReturnCaller
<1>5. CASE SecondFlush(q)
    <2>1. /\ Leave(q, "ok") /\ UNCHANGED <<entries, page>> /\ table' = FlushAll(table) /\ data' = FlushAll(data)
          /\ pc[q] = "flushing again" /\ done' = Max({done, covers})
        BY <1>5 DEF SecondFlush, pendingVars, FlushDevice
    <2>2. table'[s].may = {table[s].cur} /\ data'[s].may = {data[s].cur} /\ data[s].cur \in data[s].may
        BY <1>3, <2>1, Flushes
    <2>3. SlotNow(s)' = SlotNow(s)
        BY <2>1 DEF SlotNow
    <2>4. OnMedia(s) => Safe(s)' /\ data'[s].may = {owner[s]}
        BY <1>3, <2>2, <2>3 DEF OnMedia, Safe
    <2>5. ~dropped /\ Staged(s) => Safe(s)' /\ data'[s].may = {owner[s]}
        BY <1>1, <2>1, <2>2, <2>3 DEF Staged, At, Safe, Queued
    <2>6. PICK answer \in {"ok", "err"} : answer = "ok"
        OBVIOUS
    <2>7. /\ Leave(q, answer)
          /\ done' = done \/ (pc[q] /= "locked" /\ answer = "ok" /\ done' = Max({done, covers}))
          /\ answer = "ok" => IF pc[q] = "locked" THEN ticket[q] <= done ELSE ticket[q] <= covers
        BY <1>1, <2>1, <2>4, <2>5, <2>6
    <2>8. ~dropped /\ (OnMedia(s) \/ (answer = "ok" /\ pc[q] /= "locked" /\ Staged(s))) =>
                 Safe(s)' /\ data'[s].may = {owner[s]}
        BY <1>1, <2>1, <2>4, <2>5, <2>6
    <2>9. QED
        BY <1>1, <1>2, <2>7, <2>8, ReturnCaller
<1>6. CASE FirstFlushError(q) \/ SecondFlushError(q)
    <2>1. Leave(q, "err") /\ UNCHANGED <<entries, page, table, data, done>>
        BY <1>6 DEF FirstFlushError, SecondFlushError, pendingVars, deviceVars
    <2>2. OnMedia(s) => Safe(s)' /\ data'[s].may = {owner[s]}
        BY <2>1 DEF Safe, SlotNow, OnMedia
    <2>3. PICK answer \in {"ok", "err"} : answer = "err"
        OBVIOUS
    <2>4. /\ Leave(q, answer)
          /\ done' = done \/ (pc[q] /= "locked" /\ answer = "ok" /\ done' = Max({done, covers}))
          /\ answer = "ok" => IF pc[q] = "locked" THEN ticket[q] <= done ELSE ticket[q] <= covers
        BY <1>1, <2>1, <2>2, <2>3
    <2>5. ~dropped /\ (OnMedia(s) \/ (answer = "ok" /\ pc[q] /= "locked" /\ Staged(s))) =>
                 Safe(s)' /\ data'[s].may = {owner[s]}
        BY <1>1, <2>1, <2>2, <2>3
    <2>6. QED
        BY <1>1, <1>2, <2>4, <2>5, ReturnCaller
<1>7. CASE WriteEntriesError(q)
    <2>1. Leave(q, "err") /\ UNCHANGED <<entries, data, done>> /\ pc[q] = "tabling"
        BY <1>7 DEF WriteEntriesError
    <2>2. PICK landed \in SUBSET DOMAIN snap : WriteSome(snap, landed)
        BY <1>7 DEF WriteEntriesError
    <2>3. DOMAIN snap \subseteq Slot /\ \A x \in DOMAIN snap : snap[x] \in Entry
        BY DEF PlaceInv, TypeOK, EntriesOK
    <2>4. page'[s] = (IF s \in landed THEN snap[s] ELSE page[s]) /\ table'[s].may = table[s].may \cup {page'[s]}
        BY <2>2, <2>3, PageWrites DEF WriteSome
    <2>5. ~dropped /\ OnMedia(s) => Safe(s)' /\ data'[s].may = {owner[s]}
        <3>1. SUFFICES ASSUME ~dropped, OnMedia(s) PROVE Safe(s)' /\ data'[s].may = {owner[s]}
            OBVIOUS
        <3>2. table[s].may = {SlotNow(s)} /\ page[s] = SlotNow(s) /\ (s \in DOMAIN snap => entries[s] = snap[s])
            BY <1>1, <1>3, <2>1, <3>1 DEF OnMedia, Safe, Intact, At, Queued
        <3>3. page'[s] = SlotNow(s) /\ SlotNow(s)' = SlotNow(s)
            BY <1>3, <2>1, <2>3, <2>4, <3>2 DEF SlotNow
        <3>4. QED
            BY <2>1, <2>4, <3>1, <3>2, <3>3 DEF OnMedia, Safe
    <2>6. PICK answer \in {"ok", "err"} : answer = "err"
        OBVIOUS
    <2>7. /\ Leave(q, answer)
          /\ done' = done \/ (pc[q] /= "locked" /\ answer = "ok" /\ done' = Max({done, covers}))
          /\ answer = "ok" => IF pc[q] = "locked" THEN ticket[q] <= done ELSE ticket[q] <= covers
        BY <1>1, <2>1, <2>5, <2>6
    <2>8. ~dropped /\ (OnMedia(s) \/ (answer = "ok" /\ pc[q] /= "locked" /\ Staged(s))) =>
                 Safe(s)' /\ data'[s].may = {owner[s]}
        BY <1>1, <2>1, <2>5, <2>6
    <2>9. QED
        BY <1>1, <1>2, <2>7, <2>8, ReturnCaller
<1>8. CASE PublishReadyError(q)
    <2> DEFINE f == [x \in ready |-> SlotNow(x)]
    <2>1. Leave(q, "err") /\ UNCHANGED <<entries, data, done>>
        BY <1>8 DEF PublishReadyError, pendingVars
    <2>2. DOMAIN f = ready /\ ready \subseteq Slot /\ \A x \in ready : f[x] = SlotNow(x) /\ f[x] \in Entry
        BY SlotNowIsEntry DEF PlaceInv, TypeOK, QueuesOK
    <2>3. PICK landed \in SUBSET ready : WriteSome(f, landed)
        BY <1>8 DEF PublishReadyError
    <2> HIDE DEF f
    <2>4. page'[s] = (IF s \in landed THEN f[s] ELSE page[s]) /\ table'[s].may = table[s].may \cup {page'[s]}
        BY <2>2, <2>3, PageWrites DEF WriteSome
    <2>5. ~dropped /\ OnMedia(s) => Safe(s)' /\ data'[s].may = {owner[s]}
        <3>1. SUFFICES ASSUME ~dropped, OnMedia(s) PROVE Safe(s)' /\ data'[s].may = {owner[s]}
            OBVIOUS
        <3>2. table[s].may = {SlotNow(s)} /\ page[s] = SlotNow(s)
            BY <1>3, <3>1 DEF OnMedia, Safe, Queued
        <3>3. page'[s] = SlotNow(s)
            BY <2>2, <2>4, <3>2
        <3>4. SlotNow(s)' = SlotNow(s)
            BY <2>1, <3>2, <3>3 DEF SlotNow
        <3>5. QED
            BY <2>1, <2>4, <3>1, <3>2, <3>3, <3>4 DEF OnMedia, Safe
    <2>6. PICK answer \in {"ok", "err"} : answer = "err"
        OBVIOUS
    <2>7. /\ Leave(q, answer)
          /\ done' = done \/ (pc[q] /= "locked" /\ answer = "ok" /\ done' = Max({done, covers}))
          /\ answer = "ok" => IF pc[q] = "locked" THEN ticket[q] <= done ELSE ticket[q] <= covers
        BY <1>1, <2>1, <2>5, <2>6
    <2>8. ~dropped /\ (OnMedia(s) \/ (answer = "ok" /\ pc[q] /= "locked" /\ Staged(s))) =>
                 Safe(s)' /\ data'[s].may = {owner[s]}
        BY <1>1, <2>1, <2>5, <2>6
    <2>9. QED
        BY <1>1, <1>2, <2>7, <2>8, ReturnCaller
<1>9. QED
    BY <1>4, <1>5, <1>6, <1>7, <1>8

\* A step of the running sync that does not return: what it answers for goes
\* on to the media, and what is there stays.
LEMMA StepCaller ==
    ASSUME PlaceInv, TicketsOK, NEW q \in Syncer, NEW p \in Syncer, NEW s \in Slot, SlotMine(s), Queued(s),
           CallerOK(p, s), UNCHANGED <<dropped, phase, writer, must, result, ticket, done, covers, lost>>,
           pc[q] \in Active, NEW place \in Active, pc' = [pc EXCEPT ![q] = place],
           ~dropped /\ s \notin lost /\ phase[s] = "mapped" /\ ~WriterAt(s) =>
               (OnMedia(s) => OnMedia(s)') /\ (Staged(s) => Staged(s)')
    PROVE  CallerOK(p, s)'
<1>1. pc \in [Syncer -> Pc] /\ "idle" \notin Active
    BY DEF PlaceInv, TypeOK, GateOK, Active
<1>2. (Served(p)' <=> Served(p)) /\ (Joined(p)' <=> Joined(p)) /\ (WriterAt(s)' <=> WriterAt(s))
    BY <1>1 DEF Served, Joined, WriterAt
<1>3. QED
    BY <1>2 DEF CallerOK

\* The first flush makes the data durable, and leaves the entries in the table
\* or queued.
LEMMA FlushCaller ==
    ASSUME PlaceInv, TicketsOK, NEW q \in Syncer, NEW p \in Syncer, NEW s \in Slot, SlotMine(s), Queued(s),
           CallerOK(p, s), UNCHANGED dropped, FirstFlush(q)
    PROVE  CallerOK(p, s)'
<1>1. /\ pc[q] = "flushing" /\ pc' = [pc EXCEPT ![q] = "publishing"] /\ pc[q] \in Active
      /\ UNCHANGED <<phase, writer, must, result, ticket, done, covers, running, entries, page, owner, ready>>
      /\ table' = FlushAll(table) /\ data' = FlushAll(data) /\ lost' = lost
    BY DEF FirstFlush, FlushDevice, Active
<1>2. /\ pc \in [Syncer -> Pc] /\ running = q /\ table \in [Slot -> Cell(Entry)] /\ data \in [Slot -> Cell(0..MaxTenancy)]
    BY <1>1, HolderFacts DEF PlaceInv, TypeOK, EntriesOK, GateOK
<1>3. table'[s].may = {table[s].cur} /\ data'[s].may = {data[s].cur}
      /\ table[s].cur \in table[s].may /\ data[s].cur \in data[s].may
    BY <1>1, <1>2, Flushes
<1>4. SlotNow(s)' = SlotNow(s)
    BY <1>1 DEF SlotNow
<1>5. ~At({"tabling"}) /\ ~At({"tabling"})'
    BY <1>1, <1>2 DEF At
<1>6. OnMedia(s) => OnMedia(s)'
    BY <1>1, <1>3, <1>4, <1>5 DEF OnMedia, Safe, Intact
<1>7. ASSUME ~dropped, s \notin lost, phase[s] = "mapped", ~WriterAt(s)
      PROVE  Staged(s)'
    <2>1. data'[s].may = {owner'[s]}
        BY <1>1, <1>3, <1>7 DEF SlotMine, DataMine, InUse
    <2>2. Safe(s)' \/ (s \in ready' /\ entries'[s] /= Absent)
        <3>1. page[s] = table[s].cur /\ (s \in ready \/ entries[s] \in {Absent, page[s]})
            BY <1>5, <1>7 DEF Queued
        <3>2. QED
            BY <1>1, <1>3, <1>4, <3>1 DEF Safe, SlotNow
    <2>3. pc'[q] = "publishing" /\ running' = q
        BY <1>1, <1>2
    <2>4. QED
        BY <2>1, <2>2, <2>3 DEF Staged, At
<1>8. PICK place \in Active : place = "publishing"
    BY DEF Active
<1>9. QED
    BY <1>1, <1>6, <1>7, <1>8, StepCaller

\* A sync reads the entries it will publish, finds them changed and will read
\* again, or takes them.
LEMMA ReadCaller ==
    ASSUME PlaceInv, TicketsOK, NEW q \in Syncer, NEW p \in Syncer, NEW s \in Slot, SlotMine(s), Queued(s),
           CallerOK(p, s), UNCHANGED dropped, ReadEntries(q) \/ ReadAgain(q) \/ TakeReady(q)
    PROVE  CallerOK(p, s)'
<1>1. /\ pc[q] \in {"publishing", "checking"} /\ pc[q] \in Active
      /\ UNCHANGED <<phase, writer, must, result, ticket, done, covers, running, entries, page, owner, table, data, lost>>
    BY DEF ReadEntries, ReadAgain, TakeReady, Active, pendingVars, deviceVars, ghostVars, windowVars
<1>2. pc \in [Syncer -> Pc] /\ running = q
    BY <1>1, HolderFacts DEF PlaceInv, TypeOK, GateOK
<1>3. (Safe(s)' <=> Safe(s)) /\ SlotNow(s)' = SlotNow(s)
    BY <1>1 DEF Safe, SlotNow
<1>4. CASE ReadEntries(q)
    <2> DEFINE held == {x \in ready : entries[x] /= Absent}
    <2>1. /\ pc[q] = "publishing" /\ pc' = [pc EXCEPT ![q] = IF held = {} THEN "published" ELSE "checking"]
          /\ DOMAIN snap' = held /\ ready' = ready \ {x \in ready : entries[x] = Absent /\ x \notin unpublished}
        BY <1>4 DEF ReadEntries
    <2>2. PICK place \in Active : place = IF held = {} THEN "published" ELSE "checking"
        BY DEF Active
    <2>3. s \in held <=> s \in ready /\ entries[s] /= Absent
        OBVIOUS
    <2> HIDE DEF held
    <2>4. pc'[q] = place /\ running' = q /\ pc' = [pc EXCEPT ![q] = place]
        BY <1>1, <1>2, <2>1, <2>2
    <2>5. OnMedia(s) => OnMedia(s)'
        BY <1>1, <1>3, <2>2, <2>4 DEF OnMedia, Intact, At
    <2>6. Staged(s) => Staged(s)'
        <3>1. SUFFICES ASSUME Staged(s) PROVE Staged(s)'
            OBVIOUS
        <3>2. data[s].may = {owner[s]} /\ (Safe(s) \/ (s \in ready /\ entries[s] /= Absent))
            BY <1>2, <2>1, <3>1 DEF Staged, At
        <3>3. CASE held = {}
            <4>1. pc'[q] = "published" /\ Safe(s)'
                BY <1>3, <2>2, <2>3, <2>4, <3>2, <3>3
            <4>2. QED
                BY <1>1, <2>4, <3>2, <4>1 DEF Staged, At
        <3>4. CASE held /= {}
            <4>1. pc'[q] = "checking" /\ (Safe(s)' \/ (s \in ready' /\ entries'[s] /= Absent /\ s \in DOMAIN snap'))
                BY <1>1, <1>3, <2>1, <2>2, <2>3, <2>4, <3>2, <3>4
            <4>2. QED
                BY <1>1, <2>4, <3>2, <4>1 DEF Staged, At
        <3>5. QED
            BY <3>3, <3>4
    <2>7. QED
        BY <1>1, <2>4, <2>5, <2>6, StepCaller
<1>5. CASE ReadAgain(q)
    <2>1. pc[q] = "checking" /\ pc' = [pc EXCEPT ![q] = "publishing"] /\ ready' = ready
        BY <1>5 DEF ReadAgain, pendingVars
    <2>2. PICK place \in Active : place = "publishing"
        BY DEF Active
    <2>3. pc'[q] = "publishing" /\ running' = q
        BY <1>1, <1>2, <2>1
    <2>4. OnMedia(s) => OnMedia(s)'
        BY <1>1, <1>3, <2>3 DEF OnMedia, Intact, At
    <2>5. Staged(s) => Staged(s)'
        BY <1>1, <1>2, <1>3, <2>1, <2>3 DEF Staged, At
    <2>6. QED
        BY <1>1, <2>1, <2>2, <2>4, <2>5, StepCaller
<1>6. CASE TakeReady(q)
    <2>1. /\ pc[q] = "checking" /\ pc' = [pc EXCEPT ![q] = "tabling"] /\ snap' = snap
          /\ s \in DOMAIN snap => entries[s] = snap[s]
        BY <1>6 DEF TakeReady, StillCurrent
    <2>2. PICK place \in Active : place = "tabling"
        BY DEF Active
    <2>3. pc'[q] = "tabling" /\ running' = q
        BY <1>1, <1>2, <2>1
    <2>4. OnMedia(s) => OnMedia(s)'
        BY <1>1, <1>3, <2>1, <2>3 DEF OnMedia, Intact, At
    <2>5. Staged(s) => Staged(s)'
        BY <1>1, <1>2, <1>3, <2>1, <2>3 DEF Staged, At
    <2>6. QED
        BY <1>1, <2>1, <2>2, <2>4, <2>5, StepCaller
<1>7. QED
    BY <1>4, <1>5, <1>6

\* A sync writes the entries it took, forgets those nobody changed, or
\* publishes with the registry held.
LEMMA WriteCaller ==
    ASSUME PlaceInv, TicketsOK, NEW q \in Syncer, NEW p \in Syncer, NEW s \in Slot, SlotMine(s), Queued(s),
           CallerOK(p, s), UNCHANGED dropped, WriteEntries(q) \/ ForgetWritten(q) \/ PublishReady(q)
    PROVE  CallerOK(p, s)'
<1>1. /\ pc[q] \in {"tabling", "written", "publishing"} /\ pc[q] \in Active
      /\ UNCHANGED <<phase, writer, must, result, ticket, done, covers, running, owner, data, lost, snap>>
    BY DEF WriteEntries, ForgetWritten, PublishReady, Active, deviceVars, ghostVars, windowVars, syncVars
<1>2. pc \in [Syncer -> Pc] /\ running = q
    BY <1>1, HolderFacts DEF PlaceInv, TypeOK, GateOK
<1>3. /\ entries[s] \in Entry \cup {Absent} /\ page[s] \in Entry /\ table[s].cur \in table[s].may
      /\ Absent \notin Entry /\ DOMAIN snap \subseteq Slot /\ \A x \in DOMAIN snap : snap[x] \in Entry
    <2>1. Absent \notin Entry
        BY EntryShape DEF PlaceInv, TypeOK, EntriesOK
    <2>2. QED
        BY <2>1 DEF PlaceInv, TypeOK, EntriesOK, Cell
<1>4. ~dropped /\ Safe(s) => table[s].may = {SlotNow(s)} /\ page[s] = SlotNow(s)
    BY <1>3 DEF Safe, Queued
<1>5. CASE WriteEntries(q)
    <2>1. /\ pc[q] = "tabling" /\ pc' = [pc EXCEPT ![q] = "written"] /\ entries' = entries
          /\ page' = PageWith(snap) /\ table' = WritePage(page')
        BY <1>5 DEF WriteEntries, pendingVars
    <2>2. page' \in [Slot -> Entry] /\ page'[s] = IF s \in DOMAIN snap THEN snap[s] ELSE page[s]
        BY <1>3, <2>1, PagesWith DEF PlaceInv
    <2>3. table'[s].may = table[s].may \cup {page'[s]}
        BY <2>1, <2>2, WritesPage DEF PlaceInv
    <2>4. pc'[q] = "written" /\ running' = q /\ At({"tabling"})
        BY <1>1, <1>2, <2>1 DEF At
    <2>5. ASSUME ~dropped, s \in DOMAIN snap => entries[s] = snap[s], s \notin DOMAIN snap => Safe(s)
          PROVE  page'[s] = SlotNow(s) /\ SlotNow(s)' = SlotNow(s)
        BY <1>3, <1>4, <2>1, <2>2, <2>5 DEF SlotNow
    <2>6. ~dropped /\ OnMedia(s) => OnMedia(s)'
        <3>1. SUFFICES ASSUME ~dropped, OnMedia(s) PROVE OnMedia(s)'
            OBVIOUS
        <3>2. Safe(s) /\ data[s].may = {owner[s]} /\ page'[s] = SlotNow(s) /\ SlotNow(s)' = SlotNow(s)
            BY <2>4, <2>5, <3>1 DEF OnMedia, Intact
        <3>3. Safe(s)' /\ Intact(s)'
            BY <2>3, <2>4, <3>2 DEF Safe, Intact, At
        <3>4. QED
            BY <1>1, <3>2, <3>3 DEF OnMedia
    <2>7. ~dropped /\ Staged(s) => Staged(s)'
        <3>1. SUFFICES ASSUME ~dropped, Staged(s) PROVE Staged(s)'
            OBVIOUS
        <3>2. data[s].may = {owner[s]} /\ page'[s] = SlotNow(s)'
            BY <1>2, <2>1, <2>4, <2>5, <3>1 DEF Staged, At
        <3>3. QED
            BY <1>1, <2>4, <3>2 DEF Staged, At
    <2>8. PICK place \in Active : place = "written"
        BY DEF Active
    <2>9. QED
        BY <1>1, <2>1, <2>6, <2>7, <2>8, StepCaller
<1>6. CASE ForgetWritten(q)
    <2>1. /\ pc[q] = "written" /\ pc' = [pc EXCEPT ![q] = "flushing again"]
          /\ entries'[s] = entries[s] \/ entries'[s] = Absent
          /\ UNCHANGED <<page, table>>
        BY <1>6 DEF ForgetWritten, deviceVars
    <2>2. pc'[q] = "flushing again" /\ running' = q
        BY <1>1, <1>2, <2>1
    <2>3. page[s] = SlotNow(s) => SlotNow(s)' = SlotNow(s)
        BY <2>1 DEF SlotNow
    <2>4. ~dropped /\ OnMedia(s) => OnMedia(s)'
        BY <1>1, <1>4, <2>1, <2>2, <2>3 DEF OnMedia, Safe, Intact, At
    <2>5. Staged(s) => Staged(s)'
        BY <1>1, <1>2, <2>1, <2>2, <2>3 DEF Staged, At
    <2>6. PICK place \in Active : place = "flushing again"
        BY DEF Active
    <2>7. QED
        BY <1>1, <2>1, <2>4, <2>5, <2>6, StepCaller
<1>7. CASE PublishReady(q)
    <2> DEFINE f == [x \in ready |-> SlotNow(x)]
    <2>1. /\ page' = PageWith(f) /\ table' = WritePage(page') /\ pc[q] = "publishing"
          /\ entries'[s] = (IF s \in ready THEN Absent ELSE entries[s])
          /\ pc' = [pc EXCEPT ![q] = IF ready = {} THEN "published" ELSE "flushing again"]
        BY <1>7 DEF PublishReady
    <2>2. DOMAIN f = ready /\ ready \subseteq Slot /\ \A x \in ready : f[x] = SlotNow(x) /\ f[x] \in Entry
        BY SlotNowIsEntry DEF PlaceInv, TypeOK, QueuesOK
    <2> HIDE DEF f
    <2>3. page' \in [Slot -> Entry] /\ page'[s] = IF s \in ready THEN SlotNow(s) ELSE page[s]
        BY <2>1, <2>2, PagesWith DEF PlaceInv
    <2>4. table'[s].may = table[s].may \cup {page'[s]}
        BY <2>1, <2>3, WritesPage DEF PlaceInv
    <2>5. SlotNow(s)' = SlotNow(s)
        BY <2>1, <2>3 DEF SlotNow
    <2>6. PICK place \in Active : place = IF ready = {} THEN "published" ELSE "flushing again"
        BY DEF Active
    <2>7. pc'[q] = place /\ running' = q /\ pc' = [pc EXCEPT ![q] = place]
        BY <1>1, <1>2, <2>1, <2>6
    <2>8. ~dropped /\ Safe(s) => Safe(s)'
        BY <1>4, <2>3, <2>4, <2>5 DEF Safe
    <2>9. ~dropped /\ OnMedia(s) => OnMedia(s)'
        BY <1>1, <2>6, <2>7, <2>8 DEF OnMedia, Intact, At
    <2>10. ~dropped /\ Staged(s) => Staged(s)'
        <3>1. SUFFICES ASSUME ~dropped, Staged(s) PROVE Staged(s)'
            OBVIOUS
        <3>2. data[s].may = {owner[s]} /\ (Safe(s) \/ s \in ready)
            BY <1>2, <2>1, <3>1 DEF Staged, At
        <3>3. CASE ready = {}
            <4>1. pc'[q] = "published" /\ Safe(s)'
                BY <2>6, <2>7, <2>8, <3>1, <3>2, <3>3
            <4>2. QED
                BY <1>1, <2>7, <3>2, <4>1 DEF Staged, At
        <3>4. CASE ready /= {}
            <4>1. pc'[q] = "flushing again" /\ page'[s] = SlotNow(s)'
                BY <1>4, <2>3, <2>5, <2>6, <2>7, <3>1, <3>2, <3>4
            <4>2. QED
                BY <1>1, <2>7, <3>2, <4>1 DEF Staged, At
        <3>5. QED
            BY <3>3, <3>4
    <2>11. QED
        BY <1>1, <2>7, <2>9, <2>10, StepCaller
<1>8. QED
    BY <1>5, <1>6, <1>7

\* Tickets, answers and who the running sync answers for.
LEMMA NextTickets ==
    ASSUME PlaceInv, TicketsOK, Next
    PROVE  TicketsOK'
<1>1. /\ pc \in [Syncer -> Pc] /\ ticket \in [Syncer -> 0..asked] /\ asked \in Nat /\ done \in 0..asked
      /\ covers \in 0..asked /\ must \in [Syncer -> SUBSET Slot]
      /\ result \in [Syncer -> {"idle", "pending", "ok", "err", "dropped"}]
      /\ \A x \in Syncer : pc[x] \in Active => running = x
      /\ \A p \in Syncer : /\ result[p] = "ok" => pc[p] = "idle"
                           /\ pc[p] /= "idle" => ticket[p] > 0
                           /\ pc[p] \in Active \ {"locked"} => ticket[p] <= covers
    BY DEF PlaceInv, TypeOK, GateOK, TicketsOK, HolderOK
<1>2. "idle" \notin Active /\ "waiting" \notin Active
    BY DEF Active
<1>3. ASSUME OwnerStep \/ \E s \in Slot : EraseStep(s) PROVE TicketsOK'
    <2>1. UNCHANGED <<pc, ticket, covers, result>> /\ (must' = must \/ \E S : Touch(S))
        <3>1. CASE \E s \in Slot : EraseStep(s)
            BY <3>1 DEF EraseStep, TakeErasing, EraseOne, FinishErase, ReturnErase, gateVars, ghostVars
        <3>2. CASE AllocateDeferred \/ AllocateFlushing \/ Persist \/ PersistError
            BY <3>2 DEF AllocateDeferred, AllocateFlushing, Persist, PersistError, TakeSlot, gateVars, ghostVars
        <3>3. ASSUME NEW s \in Slot, \/ Fill(s) \/ Confirm(s) \/ IncRefBatch(s) \/ IncRef(s) \/ DecRef(s)
                                     \/ RetireUnpublished(s) \/ RetirePublished(s) \/ RetireErasing(s)
              PROVE  UNCHANGED <<pc, ticket, covers, result>> /\ (must' = must \/ \E S : Touch(S))
            BY <3>3 DEF Fill, Confirm, IncRefBatch, IncRef, DecRef, RetireUnpublished, RetirePublished,
               RetireErasing, GiveBack, gateVars
        <3>4. QED
            BY <1>3, <3>1, <3>2, <3>3 DEF OwnerStep
    <2>2. must' \in [Syncer -> SUBSET Slot]
        BY <1>1, <2>1 DEF Touch
    <2>3. QED
        BY <1>1, <2>1, <2>2 DEF TicketsOK
<1>4. ASSUME NEW q \in Syncer, Ask(q) PROVE TicketsOK'
    <2>1. /\ pc' = [pc EXCEPT ![q] = "waiting"] /\ ticket' = [ticket EXCEPT ![q] = asked + 1] /\ covers' = covers
          /\ must' = [must EXCEPT ![q] = {s \in Slot : phase[s] = "mapped" /\ s /= writer.slot}]
          /\ result' = [result EXCEPT ![q] = "pending"]
        BY <1>4 DEF Ask
    <2>2. must' \in [Syncer -> SUBSET Slot] /\ result' \in [Syncer -> {"idle", "pending", "ok", "err", "dropped"}]
        BY <1>1, <2>1
    <2>3. QED
        BY <1>1, <1>2, <2>1, <2>2 DEF TicketsOK
<1>5. ASSUME NEW q \in Syncer, \/ Lock(q) \/ TakeFreeing(q) \/ FirstFlush(q) \/ ReadEntries(q) \/ TakeReady(q)
                               \/ ReadAgain(q) \/ WriteEntries(q) \/ ForgetWritten(q) \/ PublishReady(q)
      PROVE  TicketsOK'
    <2>1. /\ UNCHANGED <<ticket, must, result, asked>> /\ pc[q] /= "idle"
          /\ covers' = covers \/ covers' = asked
        BY <1>5 DEF Lock, TakeFreeing, FirstFlush, ReadEntries, TakeReady, ReadAgain, WriteEntries, ForgetWritten,
           PublishReady, ghostVars
    <2>2. PICK place \in Active : /\ pc' = [pc EXCEPT ![q] = place]
                                  /\ place = "locked" \/ covers' = asked \/ (pc[q] \in Active \ {"locked"} /\ covers' = covers)
        BY <1>5 DEF Lock, TakeFreeing, FirstFlush, ReadEntries, TakeReady, ReadAgain, WriteEntries, ForgetWritten,
           PublishReady, Active
    <2>3. QED
        BY <1>1, <1>2, <2>1, <2>2 DEF TicketsOK
<1>6. ASSUME NEW q \in Syncer, \/ Covered(q) \/ NothingToPublish(q) \/ SecondFlush(q) \/ SyncFault(q) \/ Drop(q)
      PROVE  TicketsOK'
    <2>1. PICK answer \in {"ok", "err", "dropped"} : Leave(q, answer)
        BY <1>6 DEF Covered, NothingToPublish, SecondFlush, SyncFault, FirstFlushError, WriteEntriesError,
           PublishReadyError, SecondFlushError, Drop
    <2>2. /\ pc' = [pc EXCEPT ![q] = "idle"] /\ result' = [result EXCEPT ![q] = answer]
          /\ must' = [must EXCEPT ![q] = IF answer = "ok" THEN @ ELSE {}]
          /\ ticket' = [ticket EXCEPT ![q] = 0]
          /\ running /= q => covers' = covers
        BY <2>1 DEF Leave
    <2>3. must' \in [Syncer -> SUBSET Slot] /\ result' \in [Syncer -> {"idle", "pending", "ok", "err", "dropped"}]
        BY <1>1, <2>2
    <2>4. QED
        BY <1>1, <1>2, <2>2, <2>3 DEF TicketsOK
<1>7. ASSUME PowerCut PROVE TicketsOK'
    BY <1>2, <1>7 DEF PowerCut, TicketsOK
<1>8. QED
    BY <1>3, <1>4, <1>5, <1>6, <1>7 DEF Next, Step, SyncStep

\* Every step keeps what the callers were promised.
LEMMA NextDurable ==
    ASSUME PlaceInv, ErasureInv, MineInv, DurableInv, Next
    PROVE  DurableInv'
<1>1. TicketsOK /\ TicketsOK'
    BY NextTickets DEF DurableInv
<1> SUFFICES ASSUME NEW s \in Slot PROVE Queued(s)' /\ \A p \in Syncer : CallerOK(p, s)'
    BY <1>1 DEF DurableInv, Slot
<1>2. SlotMine(s) /\ Queued(s) /\ \A p \in Syncer : CallerOK(p, s)
    BY DEF MineInv, DurableInv
<1>3. ASSUME UNCHANGED dropped, OwnerStep
      PROVE  Queued(s)' /\ \A p \in Syncer : CallerOK(p, s)'
    <2>1. CASE AllocateDeferred \/ AllocateFlushing
        BY <1>2, <1>3, <2>1, AllocateQueued, AllocateCaller
    <2>2. CASE Persist \/ PersistError
        BY <1>2, <1>3, <2>2, PersistQueued, PersistCaller
    <2>3. ASSUME NEW r \in Slot, \/ Fill(r) \/ Confirm(r) \/ IncRefBatch(r) \/ IncRef(r) \/ DecRef(r)
                                 \/ RetireUnpublished(r) \/ RetirePublished(r) \/ RetireErasing(r)
          PROVE  Queued(s)' /\ \A p \in Syncer : CallerOK(p, s)'
        <3>1. CASE s = r
            BY <1>2, <1>3, <2>3, <3>1, OwnQueued, OwnCaller
        <3>2. CASE s /= r
            BY <1>2, <1>3, <2>3, <3>2, OthersQueued, OthersCaller
        <3>3. QED
            BY <3>1, <3>2
    <2>4. QED
        BY <1>3, <2>1, <2>2, <2>3 DEF OwnerStep
<1>4. ASSUME UNCHANGED dropped, NEW r \in Slot, EraseStep(r)
      PROVE  Queued(s)' /\ \A p \in Syncer : CallerOK(p, s)'
    <2>1. CASE FinishErase(r)
        <3>1. CASE s = r
            BY <1>2, <1>4, <2>1, <3>1, OwnQueued, OwnCaller
        <3>2. CASE s /= r
            BY <1>2, <1>4, <2>1, <3>2, OthersQueued, OthersCaller
        <3>3. QED
            BY <3>1, <3>2
    <2>2. CASE TakeErasing(r) \/ ReturnErase(r) \/ EraseOne(r)
        BY <1>2, <1>4, <2>2, QueueQueued, EraserCaller
    <2>3. QED
        BY <1>4, <2>1, <2>2 DEF EraseStep
<1>5. ASSUME UNCHANGED dropped, NEW q \in Syncer, Ask(q) \/ Lock(q) \/ SyncStep(q) \/ SyncFault(q)
      PROVE  Queued(s)' /\ \A p \in Syncer : CallerOK(p, s)'
    <2>1. CASE Ask(q) \/ Lock(q) \/ TakeFreeing(q)
        BY <1>1, <1>2, <1>5, <2>1, QueueQueued, GateCaller
    <2>2. CASE Covered(q) \/ NothingToPublish(q) \/ SecondFlush(q) \/ FirstFlushError(q) \/ SecondFlushError(q)
        BY <1>1, <1>2, <1>5, <2>2, QueueQueued, AnswerCaller
    <2>3. CASE WriteEntriesError(q) \/ PublishReadyError(q)
        BY <1>1, <1>2, <1>5, <2>3, InterruptedQueued, AnswerCaller
    <2>4. CASE FirstFlush(q)
        BY <1>1, <1>2, <1>5, <2>4, QueueQueued, FlushCaller
    <2>5. CASE ReadEntries(q) \/ ReadAgain(q)
        BY <1>1, <1>2, <1>5, <2>5, QueueQueued, ReadCaller
    <2>6. CASE TakeReady(q)
        BY <1>1, <1>2, <1>5, <2>6, SyncQueued, ReadCaller
    <2>7. CASE WriteEntries(q) \/ ForgetWritten(q) \/ PublishReady(q)
        BY <1>1, <1>2, <1>5, <2>7, SyncQueued, WriteCaller
    <2>8. QED
        BY <1>5, <2>1, <2>2, <2>3, <2>4, <2>5, <2>6, <2>7 DEF SyncStep, SyncFault
<1>6. ASSUME NEW q \in Syncer, Drop(q), dropped' = TRUE
      PROVE  Queued(s)' /\ \A p \in Syncer : CallerOK(p, s)'
    BY <1>2, <1>6, InterruptedQueued DEF CallerOK
<1>7. ASSUME PowerCut
      PROVE  Queued(s)' /\ \A p \in Syncer : CallerOK(p, s)'
    <2>1. must' = [p \in Syncer |-> {}]
        BY <1>7 DEF PowerCut
    <2>2. QED
        BY <1>7, <2>1, CutQueued DEF CallerOK
<1>8. QED
    BY <1>3, <1>4, <1>5, <1>6, <1>7 DEF Next, Step

\* The slab starts with nothing queued and nobody promised anything.
LEMMA InitDurable ==
    ASSUME Init
    PROVE  DurableInv
<1>1. TicketsOK
    BY DEF Init, TicketsOK, Active
<1>2. ASSUME NEW s \in Slot PROVE Queued(s) /\ \A p \in Syncer : CallerOK(p, s)
    <2>1. /\ unpublished = {} /\ page[s] = Free /\ table[s].cur = Free /\ phase[s] = "none"
          /\ \A p \in Syncer : must[p] = {}
        BY DEF Init, Durable
    <2>2. QED
        BY <2>1 DEF Queued, CallerOK
<1>3. QED
    BY <1>1, <1>2 DEF DurableInv

\* The callers are promised nothing that is not on its way, throughout a behaviour.
THEOREM DurableHolds == Spec => []DurableInv
<1>1. Init => DurableInv
    BY InitDurable
<1>2. PlaceInv /\ ErasureInv /\ MineInv /\ DurableInv /\ [Next]_vars => DurableInv'
    <2>1. ASSUME DurableInv, UNCHANGED vars PROVE DurableInv'
        <3>1. UNCHANGED <<unpublished, ready, entries, page, writer, table, data, done, running, pc, ticket, covers,
                          snap, owner, phase, must, result, lost, dropped>>
            BY <2>1 DEF vars, slabVars, pendingVars, deviceVars, gateVars, syncVars, ghostVars, windowVars
        <3>2. TicketsOK'
            BY <2>1, <3>1 DEF DurableInv, TicketsOK
        <3>3. ASSUME NEW s \in Slot PROVE Queued(s)'
            BY <2>1, <3>1, <3>3 DEF DurableInv, Queued, WriterAt, At
        <3>4. ASSUME NEW s \in Slot, NEW p \in Syncer PROVE CallerOK(p, s)'
            <4>1. CallerOK(p, s)
                BY <2>1, <3>4 DEF DurableInv
            <4>2. (OnMedia(s)' <=> OnMedia(s)) /\ (Staged(s)' <=> Staged(s))
                BY <3>1 DEF OnMedia, Staged, Safe, Intact, SlotNow, At
            <4>3. QED
                BY <3>1, <4>1, <4>2 DEF CallerOK, Served, Joined, WriterAt
        <3>5. QED
            BY <3>2, <3>3, <3>4 DEF DurableInv, Slot
    <2>2. QED
        BY <2>1, NextDurable
<1>3. QED
    BY <1>1, <1>2, PlacesHold, ErasureHolds, MineHolds, PTL DEF Spec

\* A sync that answered Ok, whether it ran or was covered by another's
\* (SyncGate, slab.rs:1031-1042), made durable the entry and the data of every
\* slot its caller had in a map when it asked, and they stay durable until
\* somebody changes them: under every interleaving of owners, syncs and the
\* eraser, with failed flushes and failed or partial table writes.
THEOREM AlwaysSyncIsDurable == Spec => []SyncIsDurable
<1>1. DurableInv => SyncIsDurable
    <2> SUFFICES ASSUME DurableInv, ~dropped, NEW p \in Syncer, result[p] = "ok", NEW s \in must[p] \ lost
                 PROVE  table[s].may = {SlotNow(s)} /\ data[s].may = {owner[s]}
        BY DEF SyncIsDurable
    <2>1. s \in Slot /\ CallerOK(p, s)
        BY DEF DurableInv, TicketsOK
    <2>2. OnMedia(s)
        BY <2>1 DEF CallerOK, Served
    <2>3. QED
        BY <2>2 DEF OnMedia, Safe
<1>2. QED
    BY <1>1, DurableHolds, PTL
=============================================================================
