# StormBlock in TLA+

StormBlock is a block-storage engine in Rust: thin volumes whose extents live
in *slots* of *slabs* (large files or partitions on drives), with mirrors and
parity, snapshots, online moves, RAID arrays underneath and NVMe-oF, iSCSI and
ublk exports on top. This directory is its TLA+ project: models of the parts
that decide whether acknowledged data survives, TLC runs that check them, and
TLAPS proofs.

Source paths below are relative to `src/src/` unless they begin with `docs/`.

- [Inventory](#inventory): the system's parts and what makes them hard
- [Modules](#modules): which module models what, and how
- [Runs](#runs): what TLC checks, bounds, fairness
- [Proofs](#proofs): what TLAPS proves and along which argument
- [Where code and comment disagree](#where-code-and-comment-disagree)
- [Not modelled](#not-modelled) and [Plan](#plan)

## Inventory

### The data path

| part | state | operations | what makes it hard |
|---|---|---|---|
| flush gate, `drive/flushgate.rs` | two counters `asked`, `done`, a mutex | `flush` | many callers share one device flush; a flush fails or its future is dropped while others count on it |
| slab, `drive/slab.rs`, `slottable.rs`, `freemap.rs` | free bitmap, `Pending` (entries changed in memory and seven sets of slots), the table and data on the device, `SyncGate` | allocate, confirm, `inc_ref`/`dec_ref`, retire, `sync`, open | data, entry and reuse must reach the media in that order through a write-back cache, while `sync` publishes with the registry unlocked |
| eraser, `volume/erase.rs`, `drive/erase.rs` | `erasing`, `erasing_now` | take, overwrite, finish, return | a cut between the mark, the passes and the free |
| thin volumes, `volume/thin.rs`, `fence.rs`, `gem.rs` | extent map with believed share counts, volume lock, slot fences, failed set, write counters | read, write, discard, copy-on-write, relocate-on-write, flush, resync | a decision made on the map is used after several awaits; fences and locks are taken in an order that must not deadlock |
| moves, `placement/mod.rs`, `drain.rs`, `migrate.rs` | owed sources, quarantine | move, retier, drain | extents move while they are read and written |
| snapshots and deletes, `volume/snapshot.rs`, `volume/mod.rs` | volumes, share counts | snapshot, delete | counts change under writers that have already read them |
| mirror legs, `volume/redundancy.rs`, `thin.rs`, `mod.rs` | legs per extent, failed set | write to all legs, flush, resync, clear, distrust | one leg of several fails; the failed set has four writers |
| parity volumes, `volume/thin.rs`, `stripelog.rs` | stripes of members and parity on slabs apart, the dirty-stripe log | write (member, then parity), discard, new group, degraded read, resync, flush, verify at a start | a cut between data and parity; the log is a file written beside the data; a slab dies under a write |
| live mirror, `volume/mirror.rs`, `mgmt/live_mirror.rs` | the mirror that is set, its copy, `mirrors.json`, a gate and range locks in `thin.rs` | start, copy, mirror a write, flush, stop, restart | the copy of an older read against a newer write; a stop against writes under way; errors on either side |
| RAID arrays, `raid/mod.rs`, `bitmap.rs`, `spares.rs` | slot table with event counter, write-intent bitmap in memory and on each drive, a superblock on each drive, spares, a rebuild's watermark | write, flush, fail a member, take a spare, rebuild, assemble | what a failure means must be on disk before an answer; a rebuild runs under the writes; assembly picks whom to believe |

### The metadata path

| part | state | operations | what makes it hard |
|---|---|---|---|
| store, `volume/metav2.rs` | two superblocks, a log ring, copy-on-write tree pages | append, checkpoint, `replace_all`, `drop_volumes`, open | a power cut or an error between any two device writes; the ring wraps; pages are reused |
| persists, `volume/persist_v2.rs` | dirty sets, tickets, queue, epochs, `need_full` | take, apply, `write_queued`, `quiet` | group commit by several callers, any of which may fail or be abandoned |
| restore, `volume/mod.rs` | maps and slot tables | reconciliation at start | two sources synced at different moments |

### Around them

Holds and attachments, versioned volumes and garbage collection, ublk with a hand-over between two engine processes, targets,
exports with a reconcile loop (`serve/`), the management API, images and
pallets, an optional cluster. `PROJECT.json` lists each with its sources,
whether it is modelled, and why not where it is not.

### How they interact

A volume write looks up the extent map, takes a shared fence on the slot, and
writes in place or, when the slot is shared or its slab is being emptied,
takes the volume lock, copies to a slot it allocates from a slab, and repoints
the map. The slab keeps the new slot's table entry in memory until a `sync`:
flush the drive, write the entries, flush again. A volume FLUSH syncs the slabs
under its legs; every device flush goes through the flush gate. A persist
writes the maps to the metadata store, after a sync of the slabs, so that no
stored map names a slot whose table entry is not durable. Moves, drains,
resyncs, rebuilds, a mirror's copy and the eraser run beside all this as tasks
of their own. A drive under a slab may itself be a RAID set, and a volume in use
may be mirrored to a namespace of another engine, to which it is then switched
over. Requests of
the management API are futures an HTTP client can abandon at any await.

### What makes each part correct

- *gate*: an Ok covers everything the caller had written when it asked; the
  flush is shared; every call returns.
- *slab*: a slot is in one place at a time; a surviving entry names its
  owner's data; an answered sync is durable; erased data never comes back.
- *volumes*: an acknowledged write is read until the next; a read is fresh
  although its slot moves; a share count is never below the maps that name the
  slot; nothing leaks; nothing deadlocks.
- *legs*: a leg that is read has every answered write; a flush that answered is
  on the media of the legs that took the writes.
- *parity*: the parity is the XOR of its members wherever the log does not say
  otherwise; a member reads as answered with any one slab gone; no two legs of
  a stripe are on one slab.
- *live mirror*: a synced target is the volume; a target switched over to holds
  everything, durably; a started mirror does not vanish.
- *arrays*: whichever member a read picks, it returns the last write; flushed
  data survives cuts and assemblies; a restart believes no member that missed
  an answered write.
- *store*: a start finds what was answered, or something begun since; tree
  pages neither leak nor are shared by two trees.
- *persists*: nothing taken is forgotten; the store never goes back; every
  persist ends.

The `hazards` of `PROJECT.json` are the places in the code where these can go
wrong and a test would hardly look, with the properties that watch them.

## Modules

| module | models | extends | state |
|---|---|---|---|
| `WriteCache` | a drive's volatile cache (`drive/crashdev.rs`) | | operators on a cell: its current value, and the values a cut may leave |
| `FlushService` | abstract: what a flush promises | | writes, durable writes, callers |
| `FlushGate` | `drive/flushgate.rs` | | `asked`, `done`, mutex, callers, a device that counts writes |
| `Slab` | `drive/slab.rs`, `slottable.rs`, `freemap.rs`, `volume/erase.rs` | `WriteCache` | free map, `Pending`, page cache, device, `SyncGate`, eraser |
| `VolumeIo` | `volume/thin.rs`, `fence.rs`, `gem.rs`, `snapshot.rs`, `placement/mod.rs`, `drain.rs` | | maps, believed and real counts, slots, fences, tasks |
| `VolumeLegs` | the mirror half of `volume/thin.rs` and `mod.rs` | | legs, failed set, cache and disk of each leg, counters, writers, flushers, resync |
| `MetaV2` | `volume/metav2.rs` | `WriteCache` | device, superblock in force, pages, log ring, overlay |
| `PersistV2` | `volume/persist_v2.rs` | | maps, dirty keys, tickets, queue, store |
| `ParityStripes` | parity volumes in `volume/thin.rs`, `stripelog.rs`, the restore in `mod.rs` | `WriteCache` | slots of stripes, the map, the slot tables in memory and on the drives, the volume's record, failed set, log in memory and on disk, requests |
| `LiveMirror` | `volume/mirror.rs`, its gates in `thin.rs`, `mgmt/live_mirror.rs` | `WriteCache` | volume, targets, mirrors and their copies, `mirrors.json`, requests, API calls |
| `RaidArray` | `raid/mod.rs`, `bitmap.rs`, `spares.rs`, as RAID-1 | `WriteCache` | slot table, bitmap, superblocks, drives, spares, requests, rebuild, supervisor |

`MC*` modules hold the instances; `FlushGateProofs`, `SlabProofs`,
`VolumeIoProofs`, `VolumeLegsProofs`, `PersistV2Proofs`, `LiveMirrorProofs`,
`ParityStripesProofs` and `RaidArrayProofs` the proofs. Variables keep the code's names where there is
one; those the code does not have are marked as ghosts or history where they
are declared. The `map` of `PROJECT.json` gives the lines of every definition.
Definitions whose comment begins with `Mutant:` are wrong on purpose: each is
an operation with a plausible slip, put in the place of the right one to see
that the property notices. No specification uses them.

Two conventions run through all models. Code between two awaits is one
action; what it does with a lock held across an await is split there and the
lock is a variable. And the *work and the faults* to consider are data: a
constant `Setups`, `Loads` or `Budgets` is a set of records, Init picks one,
and it stays for the behaviour, so one run covers several mixtures. A numeric
field is a bound and is named after what it bounds.

**FlushGate.** `Ask` takes the ticket; `Lock` the mutex; `Covered` is the early
return when `done` has passed the ticket; `Load` reads `covers` from `asked`;
`Issue`, `Complete`, `Advance` are the flush and the `fetch_max`; `Fail` and
`Cancel` the error and the dropped future. `FlushService` says the same without
tickets: a call answered Ok finds what was written when it asked durable.
`FlushGate` implements it with `status <- result`.

**Slab.** Owners act under the registry's write lock (`AllocateDeferred`,
`AllocateFlushing`, `Fill`, `Confirm`, `IncRef`, `IncRefBatch`, `DecRef`, four
`Retire*` for the four ways out of `retire`), and each change of a count asks
first whether the slot is owned (`Owned`, the code's `is_owned`); where the lock is held across a
table write, `writer` is that write and `Persist` or `PersistError` its end. A
sync is `Ask`, `Lock`, `Covered` or `TakeFreeing`, `FirstFlush`, then the
unlocked publish `ReadEntries`, `TakeReady` or `ReadAgain` when the entries
changed meanwhile, `WriteEntries`, `ForgetWritten`, after `Retries` attempts
`PublishReady` with the registry held, `SecondFlush`; each device call has its
error, and `Drop` the dropped future. `PowerCut` keeps any allowed value of
every cell independently and opens the slab again. A slot's data is the number of
the tenancy that filled it. The table fits one page; the code's paging reads
and writes whole pages, which is what one page shows. `AllocateFlushing` (slab.rs:1446-1453)
and `PublishReady` (slab.rs:1384-1402) are one step each, with the registry held;
a caller dropped at the flush of the one or in the table write of the other is not
modelled. Every tenancy retired for erasure is in `mustErase`, published or not,
until a cut brings a free entry of its slot back.

**VolumeIo.** One extent per volume, a few blocks per extent, each operation a
task with its locals in `t[p]`. `Lookup`, `Hold`, `Recheck` are `hold_leg`'s
loop; `Decide` chooses in place or copy; `LockVolume`, `CopySlot`, `Allocate`,
`Fill`, `Remap`, `Release`, `SyncRefs` are `cow_write`; `Unmap` the discard;
`StartMove`, `Exclusive`, `Publish`, `ReleaseOwed` the fenced move;
`StartRetier` the unfenced one; `Snapshot`, `Delete`, `SetQuarantined` are
single steps under the manager's lock. A slab is here only its free and freed
slots; what a cut does to it is `Slab`'s subject. `last` records what each block
was acknowledged with. `Snapshot` has no error: one in `inc_ref_batch_with`
(snapshot.rs:58) comes after the clone's map is in place and is answered without
undoing it (mod.rs:2708-2711), and `CountsCoverMaps` would not hold after it.

**VolumeLegs.** Writes are numbered; a leg holds the last write it took, in
`cache` and on `disk`. A write goes leg by leg under the extent's shard lock,
marks legs that fail and is answered if one took it. `flush` reads `completed`,
returns when `synced` has it, lists the slabs, syncs each, and advances
`synced`. A resync copies an extent from a good leg to a new slab under the
shard lock and publishes it, and at its end forgives slabs nothing uses. A slab
carries at most one leg of an extent, as the placement domains require.
The deferred publish of a resync on shared extents is not here.

**MetaV2.** The tree is a root over one leaf per key: deep enough for copying
on write, shared leaves and page reuse, and not for splits. Device writes between two
flushes are one step, of which a cut or an error keeps any part, torn pages
included. A superblock's 84 bytes are inside one sector and do not tear. A
record is one to three log pages. `Drop` is a caller that goes away: a future
that ends at any await leaves what it wrote so far, the overlay it took, and its
pages in `fresh` and `retired`. The checkpoint after `CHECKPOINT_ENTRIES`
entries is left out: a full log triggers the same checkpoint.

**PersistV2.** One sink, the slab's; several run the same protocol each under
its own state. A store write is one step; one that reports an error leaves the
old content or the new (what a store does in between is `MetaV2`). A record
makes of a key what the last batch in the queue that has the key makes of it
(`QueuedOps`, `Writing`).

**ParityStripes.** A slot's content is the set of writes XORed into it, so parity
is the symmetric difference of its members and a delta update is exact. A slab
has one slot for each leg of each stripe, and a slot the slab's table still names
is not taken again. A write
is `BeginWrite` (the stripe's shard lock and its mark in memory), `ReadMarks` and
`LandMarks` (the log's file, whose write of a non-empty set is synced), `WriteData`,
`UpdateParity` or `NewGroup`; a discard `BeginDiscard`, `Unmap` and the parity,
`DropGroup` for the last member. `DiesInWrite` is a slab that stops answering
under a write and is replaced by another, apart from the other legs. `BeginFlush`,
`SyncSlab`, `ClearMarks`, `ReadCleared`, `LandCleared` are the flush.
A request that reads or writes legs of a stripe marks as failed the slabs it finds
dead or not attached there (`Noticed`), in memory only.

A slab's table (`entry` in memory, `table` on the drive) has the generation of each
slot that is taken, and the volume has a record `rec`, its map and its failed set as
of the last persist: `TakeRecord` reads them, `PersistSync` syncs every attached
slab, `WriteRecord` writes the record and frees the slots a resync replaced. A start
has nothing but these. `PowerCut` keeps any allowed content of every slot and every
table entry that was synced; an entry freed since may be there still. `Named` is what
the tables say of a leg: for a member the slots of the highest generation.
`Restored` then lets the record choose where they leave a choice, takes a parity
group from the record whenever it has one ("the record is authoritative",
mod.rs:4264), and unmaps members whose slab is absent. The failed set is the record's
(mod.rs:4298), so a slab marked since is trusted again. The logged stripes are left to
`Verify`, which marks what it finds like any reader, the parity leg too when a
member is lost.

**LiveMirror.** A request takes the gate shared, locks its extents in order
(`LockExtents`), lands on the volume and is sent on with the locks held (`SendOn`).
The copy locks one extent, the first that is left on its list, reads it and sends
it (`CopyRead`, `CopySend`); that the mirror is live and the lock are one step of
`CopyRead`, where the code may sleep between them (mirror.rs:183 and 200). `Start`,
`RecordStart`, `SetMirror` are a POST: probe, `mirrors.json`, the gate
exclusive; `Forget` its failure. `Stop` takes the gate exclusive, `FlushAtStop`
flushes the target, takes the mirror off and forgets the record. `PlanWrite` and
`KernelWrites` are a planned write the kernel carries out itself; what a discard
has let go in between lands in a slot that is no longer the volume's. A `Restart`
forgets all but the record, which a later start or stop finds.

**RaidArray.** A unit stands for one lock unit and its bitmap chunk. A write is
`BeginWrite` (its bits wanted), `StartPage`, `LandPage`, `JudgePage`, `CommitPage`
(the bitmap page to every attached drive), `LockRange`, `LandData` member by
member, `Judge` and `EndWrite`. `Check`, `StartRound`, `LandSb`, `JudgeSb`,
`RepeatRound`, `EndRound` write the superblocks after a failure, before the
answer. `TakeSpare`, `ZeroBitmap`, `CopyUnit`, `LandCopy`, `RaiseWatermark`,
`FlushTargets`, `Activate` are a spare's way to Active. `Assemble(F)` is a start
with the drives `F`: newest superblock, re-adds, resync of marked chunks. The
pairs of a RAID-10 set run the same code pair by pair. A bitmap page or superblock
whose write or flush reports an error (raid/mod.rs:1047-1052, 979-982) leaves the
drive as it was in `LandPage` and `LandSb`; its member is failed next.

## Runs

Every run but `stripes_absent` passes. CHECK_DEADLOCK is off where a behaviour
stops when its bounded work is used up. `live_mirror` checks it: there a state
without a step of its own must be one where every request and call has ended
(`Quiet`), so the gate and the range locks do not block each other.

| run | spec, instance | checks |
|---|---|---|
| `flush_gate` | `FairSpec`; 3 callers, 2 writes, 3 calls | `IInv`, `SharesFlush`, `EveryCallReturns`, `ServiceSpec` (refinement) |
| `slab` | `Spec`; 2 slots, 2 syncers, setups `Reusing`, `Failing`, `Sharing`, `Shredding`, `Dropping` | `EverySlotAccountedFor`, `NoSlotHandedOutTwice`, `EntriesNameTheirData`, `SyncIsDurable`, `ErasedBeforeReuse` (an action property) |
| `slab_live` | `FairSpec`; 1 slot, 2 syncers, an eraser, a cut | `EverySyncReturns`, `EveryEraseEnds` |
| `volume_io` | `Spec`; 3 slots on 2 slabs, up to 3 volumes and 3 tasks, seven loads | `TypeOK`, `Exclusion`, `NoLostWrite`, `CountsCoverMaps`, `AloneMeansAlone`, `NothingLeaks`, `ReadsAreFresh` |
| `volume_live` | `FairSpec`; 3 tasks, 2 slots, a slab being emptied | `EveryOperationEnds` |
| `metav2` | `Spec`; 2 keys, 6 tree pages, 8 log pages, setups `Cutting`, `Wrapping`, `Full`, `Failing`, `Dropping` | `AnsweredSurvives`, `PagesAccountedFor` |
| `persist` | `FairSpec`; 3 persists, 2 keys, 2 changes, 2 errors, abandoned callers | `AnsweredIsCovered`, `QuietMeansWritten`, `NoChangeForgotten`, `NeverOlder`, `EveryPersistEnds` |
| `legs` | `Spec`; 3 slabs, 2 extents, 2 copies, 2 writers, 2 flushers, budgets `Flushing`, `Faulting`, `Resyncing`, `Recovering`, `Forcing` | `FlushReachesMedia`, `FlushSurvivesFaults`, `CurrentUnlessForced` |
| `array` | `Spec`; 2 slots, 2 units, 3 drives, 2 requests, twelve setups | `HoldersAgree`, `FlushedSurvives`, `RestartTrustsOnlyCurrent`, `WriteUnderItsBit` |
| `live_mirror` | `Spec`; 2 extents, 2 targets, 2 mirrors, 2 requests, 2 API calls, twelve setups | `SyncedMeansSame`, `SwitchedHasEverything`, `SkippedFlushIsDone`, `NeverVanishes`, no deadlock |
| `stripes` | `MCSpec` (`Spec` with one layout of the stripes that are there); 2 stripes of 2 members and parity, 4 slabs, 2 requests, sixteen setups | `LegsApart`, `ReadsAnswered`, `ParityTrue` |
| `stripes_absent` | violation, `MCSpec`: one slab absent at a start | `MarginHolds` |

The runs check what could be wrong; the type invariants of the other modules
(`TypeOK`) held on the same instances and are kept for the proofs, which need them.

Seven more configurations are kept for the counterexamples they print and are not
among the runs: `MCSlabPublish.cfg`, `MCSlabErased.cfg`, `MCVolumeDrain.cfg`,
`MCMetaV2Stale.cfg`, `MCVolumeLegsRefused.cfg`, `MCRaidArrayReturned.cfg`,
`MCParityStripesForgotten.cfg`, each for the module its name begins with; see [below](#where-code-and-comment-disagree).

### Why the bounds are enough

- *Slab*: slots are taken first fit and meet in one page of the table, so two
  already share a page write and every queue. `Reusing` has three tenancies:
  one slot is taken, freed, taken again while the other is held. Two calls of
  sync are what one covering another needs, and one cut is followed by an
  open and by more work. `Retries` is 1 for the code's 3: the loop's body and
  its fallback both happen. The features are split over setups because their
  product is out of reach; each setup has what it needs to interact (errors
  with reuse, with counts and with erasure).
- *VolumeIo*: reads, writes and two moves on one extent, three at a time
  (`Reading`); writes to two blocks of it under the same moves (`Moving`); every pair of the operations
  that change counts on two volumes (`Sharing`), three volumes on one slot
  (`Cloning`); a slab being emptied with snapshots (`Leaving`) or discards
  (`Trimming`); and every operation one at a time while drains begin and end
  (`Sequential`). Two blocks make a lost neighbour visible. With three slots
  an allocation can find none.
- *MetaV2*: six pages hold a whole tree of two keys twice; five do not
  (`Full`). Eight log pages with records of one and two pages make the ring
  wrap with a wrap record and without one (`Wrapping`), five changes go round;
  a three-page record is too large for the log and is folded in at once. Two
  cuts put one into the recovery from another. `Failing` has two errors in a row.
- *PersistV2*: three persists are one writing, one queued behind it and one
  taking meanwhile; two errors are one failing and one failing after the
  recovery from it began.
- *VolumeLegs*: three slabs for two legs leave one to rebuild on; two flushes
  overlap with two writes (`Flushing`) and with a fault (`Faulting`), a flush
  with a rebuild (`Recovering`); two faults can
  take both legs; three resync steps are a copy, a second one and a forgiving.
- *RaidArray*: two slots are the least that can disagree, a third drive is the
  spare; of two units one can be rebuilt, marked or locked and the other not. Each
  setup has the faults of one story (a failure and a cut, two failures, a
  drive absent between two cuts, a rebuild under writes); two cuts put an
  assembly's own writes at risk. Three writes
  and a flush are what it takes for a bit to be trusted while it is cleared. There
  is one spare: with a second one `HoldersAgree` fails (table below).
- *LiveMirror*: a request over two extents can meet the copy between them; two
  requests race each other and the copy, two API calls each other, and a
  second mirror the end of the first.
- *ParityStripes*: with two members a write must keep the other intact; four
  slabs leave one to replace a dead leg; two stripes share the log's file. A slab
  is away for one of two starts and back at the other, with a write, a resync or a
  record in between; a record is written before a change, after it or in the middle; a
  group goes with its last member and comes again before a cut. One or both of the
  stripes are there at first, in one layout: slabs are interchangeable.
- *MetaV2* `Dropping`: one dropped caller, then a cut, in stores with small and
  large records.
- *FlushGate*: three callers are one flushing, one covered by it and one not.
  The proofs cover the rest.

Symmetry is used where the tasks, slabs or syncers are interchangeable model
values, and never in a run with a liveness property.

### Properties with a condition

Some properties hold up to an event the code does not survive. The event is
recorded in a history variable and the property says so; the table
[below](#where-code-and-comment-disagree) tells what happens after it.

- `EverySlotAccountedFor`, `SyncIsDurable`: until a sync is dropped (`dropped`),
  and again once the slab has been opened. `NoSlotHandedOutTwice` and
  `EntriesNameTheirData` have no such condition.
- `EntriesNameTheirData` leaves out slots in the two windows `early` (released
  before the free entry is written) and `late` (filled between a sync's first
  flush and its publish), and those a cut met there (`lost`).
- `ErasedBeforeReuse` asks that no cut undoes an erase from the moment the slot's
  entry is on the media (`Listed`). Before that the entry is sent and not flushed: of a
  slot that had no entry there yet a cut may bring the free one back, and the erase is
  lost (`MCSlabErased.cfg`).
- `NoLostWrite`, `AloneMeansAlone`: until a share count on its way to a map falls
  below the slot's (`overtaken`), which a snapshot makes happen. The loads of
  `volume_io` do not mix a drain or a retier that begins with requests in flight,
  nor reads with a slab being emptied. `VolumeIo` ends with three conditions that
  say in the terms of a state what the mixtures left out would break, and that the
  theorems about every load have as hypotheses; all states of `volume_io` satisfy
  them (checked by TLC). `RetiersAlone`: no write, discard or move works on the extent a
  retier copies, which `relocate_extent` does without fence or lock (thin.rs:1899).
  `CopiesAlone`: a write in place goes to the slot its volume has, and no copy of
  that slot is under way: the in-place path holds the fence shared, as a copy does,
  and not the volume lock (thin.rs:3263). `ReadsAlone`: a slot that is read and no
  longer its volume's has not been freed and nobody else writes to it in place
  (thin.rs:2060).
- `AnsweredSurvives`: while `struck` has only tree errors, kills and a dropped
  caller after which no tree was written; `PagesAccountedFor` also until then.
- `HoldersAgree`, `FlushedSurvives`, `RestartTrustsOnlyCurrent`,
  `WriteUnderItsBit`: while `excused` is empty, that is until one of the five
  shortcomings named in the module, and with one spare. Units whose last write returned
  an error (`torn`) may differ between members.
- `SyncedMeansSame`, `SkippedFlushIsDone`, `SwitchedHasEverything`: of a target
  that was blank when its mirror was started (`fresh`), which is what a start
  expects of it; `SyncedMeansSame` not of extents whose last write failed
  (`torn`). `SkippedFlushIsDone` while no flush is between raising `synced` and
  the target. `NeverVanishes` while API calls do not overlap.
- `ReadsAnswered`, `ParityTrue`: not of stripes a cut met without the mark they
  needed (`holed`, from `unlogged`), of those verified with a member to be put
  together or with the parity's slab not attached (`holed` too). Nor, with `LegsApart`,
  of those a start set back (`dropped`), which `SetBack` spells out: a slab missing
  whose members are unmapped or whose group is forgotten; a leg on a slab marked
  failed after the last record and trusted again; a recorded group that is not the
  stripe's any more (`Regrouped`); a slot the leg has left and the tables still name
  beside its own or instead of it (`Outlived`). If the recorded group's slot was
  freed, any leg of the volume may have it by then, and nothing is said of any stripe.
- `NoChangeForgotten`, `AnsweredIsCovered`, `QuietMeansWritten`: until a caller
  is abandoned inside `apply`, or before it while it waits for the slabs' sync; `QuietMeansWritten` also not between a record's
  failure and its mark (`FailureUnmarked`).
- `CurrentUnlessForced`: until a refused write, a clear, a report, or an extent
  mapped while a resync forgives (`Unforced`).

### Fairness

Weak fairness of a task's steps is tokio driving every spawned task and the
device answering every call; a dropped future is an action without
fairness. Strong fairness is only where the code queues: `Lock` (FlushGate, Slab),
`WriteQueued` (PersistV2) and `LockVolume` (VolumeIo) are tokio mutexes, whose
waiters are served in order, and a sync's `ReadEntries` or `PublishReady` waits
for the registry's RwLock, which tokio serves in order too. The eraser is a loop
that comes back to every queued slot, and each slot gets its turn. Faults, cuts,
requests and moves have no fairness: they may never happen.

## Proofs

TLAPS proves, for every value of the constants:

| theorem | statement |
|---|---|
| `FlushGateProofs!Invariance`, `FlushIsDurable` | `Spec => []IInv`, `Spec => []OkIsDurable` |
| `FlushGateProofs!Refinement` | `Spec => Service!Spec` |
| `SlabProofs!PlacesHold`, `AlwaysTypeOK`, `AlwaysNoSlotHandedOutTwice`, `AlwaysEverySlotAccountedFor` | `Spec => []PlaceInv`, and from it `[]TypeOK`, `[]NoSlotHandedOutTwice`, `[]EverySlotAccountedFor` |
| `SlabProofs!ErasureHolds`, `AlwaysErasedBeforeReuse` | `Spec => []ErasureInv`, `Spec => ErasedBeforeReuse`, an action property |
| `SlabProofs!MineHolds`, `AlwaysEntriesNameTheirData` | `Spec => []MineInv`, `[]EntriesNameTheirData` |
| `SlabProofs!DurableHolds`, `AlwaysSyncIsDurable` | `Spec => []DurableInv`, `[]SyncIsDurable` |
| `VolumeIoProofs!Typed`, `MovesAlone` | `Spec => []TypeOK`, `Spec => []Exclusion` |
| `VolumeIoProofs!CountsCover`, `SlotsReturn`, `BelievesAlone` | `Spec /\ []RetiersAlone => []CountsCoverMaps`, `[]NothingLeaks`, `[]AloneMeansAlone` |
| `VolumeIoProofs!WritesSurvive` | `Spec /\ []RetiersAlone /\ []CopiesAlone => []NoLostWrite` |
| `VolumeIoProofs!ReadsHold` | `Spec /\ []RetiersAlone /\ []CopiesAlone /\ []ReadsAlone /\ [](overtaken = {}) => ReadsAreFresh`, an action property |
| `VolumeLegsProofs!Typed` | `Spec => []TypeOK` |
| `VolumeLegsProofs!MediaIsReached` | `Spec => []FlushReachesMedia` |
| `VolumeLegsProofs!ReadsAreCurrent` | `Spec => []CurrentUnlessForced` |
| `VolumeLegsProofs!FlushesSurvive` | `Spec => []FlushSurvivesFaults` |
| `PersistV2Proofs!Correct`, `AlwaysTypeOK`, `AlwaysAnsweredIsCovered`, `AlwaysNoChangeForgotten`, `AlwaysQuietMeansWritten` | `Spec => []Inv`, and from it `[]TypeOK`, `[]AnsweredIsCovered`, `[]NoChangeForgotten`, `[]QuietMeansWritten` |
| `PersistV2Proofs!AlwaysNeverOlder` | `Spec => NeverOlder`, an action property |
| `LiveMirrorProofs!AlwaysTypeOK`, `AlwaysSyncedMeansSame`, `AlwaysSwitchedHasEverything`, `AlwaysSkippedFlushIsDone`, `AlwaysNeverVanishes` | the four invariants of the run and the types |
| `ParityStripesProofs!PlacesHold`, `AlwaysTypeOK`, `AlwaysLegsApart` | `Spec => [](StateOK /\ TablesInv /\ Locked /\ MapsApart)`, `[]TypeOK`, `[]LegsApart` |
| `ParityStripesProofs!StripesHold`, `AlwaysReadsAnswered`, `AlwaysParityTrue` | `Spec => [](Book /\ \A s \in Stripe : StripeInv(s))`, `[]ReadsAnswered`, `[]ParityTrue` |
| `RaidArrayProofs!AlwaysTypeOK` | `Spec => []TypeOK` |
| `RaidArrayProofs!DataUnderItsBit` | `Spec /\ []PagesKeepBits => [](OneSpare => WriteUnderItsBit)` |
| `RaidArrayProofs!ReadersAgree`, `AnswersHold`, `FlushesHold` | `Spec => [](OneSpare /\ NoCut => HoldersAgree)`, and in place of it `AnsweredHeld`, and `FlushedSurvives /\ NeverReadsUnfilled` |
| `RaidArrayProofs!RestartsTrust` | `Spec => [](OneSpare /\ NoCut => RestartTrustsOnlyCurrent)` |

The assumptions are the named ASSUMEs of the modules: bounds are naturals, the
width of a stripe, the extents of a mirrored volume and `Copies` are not zero,
`None` is not a caller, slot, volume, syncer, persist, mirror, target, slab,
set of stripes or superblock, the requests of an array are not named as its own
workers, each slot of an array is created with a drive of its own, `SlabOf` is a function on slots, the slabs of `VolumeLegs`,
the persists of `PersistV2` and the volumes and tasks of `VolumeIo` are finitely many, and setups, loads and budgets are
records of their type. A theorem holds of *every* setup, load or budget, so of
mixtures of work and faults no run could go through.

**FlushGate.** That an Ok is durable is not inductive: `Covered` answers on the
word of `done`, which `Advance` takes from `covers`. `IInv` adds that whoever
`done` has passed is durable (`DoneIsDurable`) and that whoever `covers` has
passed wrote before the running flush was issued (`FlushInv`), which needs that
only the mutex's holder is past the lock (`MutexInv`) and that tickets are
ordered (`TicketInv`). The refinement then maps each step to a step of
`FlushService` or a stutter: `Complete` to `Persist`, `Covered` and `Advance` to
`AnswerOk`, where `IInv'` gives the durability the abstract step asks for.

**Slab.** Four layers, each proved with the ones before it. `PlaceInv`: a slot is in
one of the free map, `freeing`, `released`, a sync's hands, the two erase sets or
an owner's (`PlacesOK`), for which one call of sync is past the lock and only it
has slots in its hands (`HolderOK`). `ErasureInv`: a slot whose media may still
hold what must be erased is out of the allocator's reach, and neither memory nor any
write on its way says that it is free, or will say so without an erase
(`UnerasedOK`); so once page and media have its entry they keep it (`StaysListed`); this needs that only a slot with an owner has an allocated
entry in memory (`OwnedOK`), that a tenancy is named of one slot only (`NamesOK`)
and that an allocation starts a tenancy of its own (`MustEraseOK`). `MineInv`, of
each slot: whatever may still reach the table - the entries in memory, the write
in progress, what a sync read, the page cache, the values a cut may leave - names
the slot's owner or one who gave it back, and where it says Allocated the data is
that tenancy's, but in the windows `early` and `late`. `DurableInv`: what memory
says of a slot in a map is in the table, queued, or being written by the running
sync (`Queued`), and the slots a caller must find durable are on the media once
its ticket is passed, and until then as far as the running sync has come
(`CallerOK`, `TicketsOK`).

**VolumeIo.** `IInv` is `StateOK`, a local invariant of each task (what it holds at
each program point: a fence only on the slot it found, exclusive only in a move,
the volume lock only where `cow_write`, a discard or a move has it) and `Exclusion`.
The locals matter because a step that *uses* a lock does not mention how it was
taken. Most steps only change a task's registers without taking anything: the
lemma `QuietStep` deals with them, `FinishStep` with ends, and one lemma per
action follows.

Four layers follow, each proved with the ones before it. `CInv`, the counts: the
share count of a slot is the number of maps that name it plus the number of tasks
that have a share of it in hand, from an allocation to its remap and from a remap
to its release (`Counted`). A bare inequality is not inductive, since a release
lowers the count of a slot that maps may name. `Form` says what kind a task is,
which locks and which shares it has at each of its steps, and `Placed` that the map
still names what a task under the volume lock found there and that the slot it
allocated is its own. `AInv`, who is alone: a volume that believes in a count of 1,
or whose write found one, is alone on its slot unless it is in `overtaken`, where
`Noticed` puts it when a count on its way to it is too low. `DInv`, the contents:
writes of one volume under way are for different blocks and none is beside a discard (`Apart`); a write
in place was alone on its slot (`Asked`); a copy's buffer is its slot as it is now
with the write over it, and what it has filled its new slot with (`Buffered`); and a
block reads as the write that has landed on it, or as what was last acknowledged
(`Latest`). `RInv`, the reads: the values a block has had since a read began include
all it may have next (`Valid`), and what the read would return now is among them
(`Replies`). Each hypothesis enters at one place: `RetiersAlone`
where a retier's remap releases a slot it looked up before, `CopiesAlone` where a
write in place has to be in the buffer of a copy or in the map, `ReadsAlone` where a
slot changes under a read whose volume has moved on. They are conditions on single
states that tell two tasks at work apart, and do not mention data.

**VolumeLegs.** `FlushReachesMedia` rests on `FlushInv`: the shard lock gives one
writer or the resync per extent and increasing write numbers (`ShardInv`); a leg
on a slab never distrusted stays in the map and keeps what it took
(`LandedInv`); and every write counted at or before a flush's start is on the
media of those legs, or on a slab the flush still has to go to (`CountInv`).
`CurrentUnlessForced` rests on `TrustInv`: while a write is landing every trusted
leg is among those it goes to, went to or failed on, and what a resync carries
is at least the last answered write.

`FlushSurvivesFaults` adds `SpreadInv`: each fault costs at most one slab, and the
legs of an extent, or those a write goes to or was answered by, are together with
the slabs distrusted on the way at least `Copies`. So with fewer faults than copies
a leg that took the write was never distrusted.

**PersistV2.** Tickets are given in the order batches were taken and no ticket that
is held is passed over (`OrderInv`), so the record, the queue and the tickets
still held are one sequence in that order (`QueueInv`) and the store is never
ahead of what may still be written (`StoreInv`): this is `NeverOlder`. What was
answered, taken before a failure or told that it was written is in the store, or
a whole write is owed or on its way that has it (`CoverInv`), which no step undoes
(`CoveredStays`). `QuietMeansWritten` also needs that a persist that waits is
queued, in the record or told (`WaitInv`).

**LiveMirror.** A request past the gate has the live mirror or none is live
(`GateInv`), and holds the locks of every extent it has written to the volume and
not yet to the target (`TaskInv`, `LockInv`). So an extent nobody is at work on is
the same on both sides, or still reads as zeros on the target and is on the
copy's list (`ContentInv`); with the list empty, everything is the same. A stop
has the gate alone, so this is still so when it flushes (`StopInv`), and no
mirror writes to the target after it (`HandedInv`).

**ParityStripes.** What a start makes of tables and record comes first. `TablesInv`:
each leg's slot is taken in its slab's table, and as it was at the last sync on the
drive (`Tabled`); a slot that waits for a record to be freed is no leg's
(`OwedOut`); the record has no slab failed that the volume has not (`Records`). From
these `PowerCutLegs`: whichever freed entries come back and whatever the record
says, a stripe `SetBack` does not name has after a start every leg where it was last
synced. With that, `LegsApart` is still not inductive: what was last synced must be
apart too (`MapsApart`), and a sync of a slab is where one becomes the other. For the contents, `StripeInv` says of a
stripe that is not excused that there is *one* content D, a value for each
member, such that the members hold D, the parity is the XOR of D but for the
change a request has still to fold in, and each value may be read (`Sound`); that
whatever a start finds of a member is among what a flush kept, or, behind the
flush, will keep (`Kept`); and that a stripe the log's file does not name has
nobody at work on it and is the same after a cut, its parity too (`Calm`). One D
for the whole stripe, and not one for each member, is what makes a member put
together from the others right. `Book` has the rest: where members are, what
requests and flushes carry, that a start has the volume to itself, and that the
mark of a stripe at work is in the file, excused or about to be written. A write is
in the XOR when an odd number of legs have it; the lemmas `Reconstructed` (a member
is the XOR of the parity and the others) and `DeltaApplied` (an update by a
difference is exact) come from taking one leg out of the count.

**RaidArray.** Three conditions stand in the theorems, on single states of the
specification as it is. `OneSpare`: at most one spare has been taken; a second one
breaks the rebuild (table below). `NoCut`: the power has not been cut yet, so these
four theorems are about a set that serves: any number of slots, units and requests,
overlapping writes, flushes, members failing at every step they can fail at, and a
spare rebuilt under the writes. Across cuts `HoldersAgree` and `FlushedSurvives` are
not theorems of every budget: a drive that is absent at one assembly and alone at
the next has the newest superblock it knows of, and the set takes its side. The run
has the budgets where the code is meant to keep them. `DataUnderItsBit` has no such
condition: it goes through cuts and assemblies. `PagesKeepBits`: a page on its way to
the drives has every bit that writes rely on, which a flush that clears bits
beside a page can break (`raid/bitmap.rs:186` in the table).

`PlaceInv`: with one spare the drives the set was created with keep their slots, in
memory, in every superblock and in the round being written, and only the spare's
bitmap is ever zeroed. `BitInv`: the writes counted in are wanted (`Wanted`), those
past their intent are in the page being written (`InPage`) and on every attached
original drive, which also has the durable bits and, once it took it, the page
(`OnDrive`). Of two members that hold a unit one is an original: the bit is on it.
`WriteUnderItsBit` alone says nothing of a page half way.

`Agree` is `HoldersAgree` without its excuses. It needs `LandInv`: writes that land
are apart from each other and from the unit the rebuild has locked, and each member
that holds a unit of the range is yet to be reached, has been, or is in the write's
list of failures, which it does not end without judging, unless a refusal makes it
return an error (`Refused`), which marks the range torn. And `RebuildInv`: targets
hold what is below the worker's position, those behind it are still to be copied to
or hold the copy, and the copy is the last write. `OwedInv` is the same for age: what
was answered, or ended Ok and waits for the superblocks, is not newer than any
member that holds the unit, any write landing there or the rebuild's copy (`Kept`).
It is needed beside `Agree` because a torn unit is in no agreement and yet must not
lose what was answered before.

`RestartTrustsOnlyCurrent` is about the superblocks, which trail the slot table, so
`RecordInv` relates the two. `Table`: no description on a drive is ahead of the
table or of the round being written, a slot it trusts with a drive that still has it
is trusted at least as far in memory, and the round names no drive that failed since
unless the table is dirty. `Serves` with `ZeroInv`: the last member is never failed,
so a round has someone to go to, and `RoundReaches`: one that ends without an error
has reached a drive or is repeated. `RoundFloor` then says of the round's
description, and `RecordFloor` of the newest on disk, that every drive they trust
with a unit holds what was answered; `RoundFloor` has it of the write that waits for
the round too, since that write is answered by the round's last step.

`IInv` of FlushGate is also an invariant TLC checks. The inductive invariants of
the others were run as invariants of small instances before they were proved
(those of `ParityStripes` with one stripe).

*Only model-checked*:

- liveness (`EveryCallReturns`, `EverySyncReturns`, `EveryEraseEnds`,
  `EveryOperationEnds`, `EveryPersistEnds`): fairness and ENABLED are outside the
  prover;
- `NoLostWrite` and `ReadsAreFresh` of `VolumeIo` without the hypotheses above: they
  are false of some loads (a drain, a retier or a relocation beside requests in
  flight; see below);
- of `RaidArray`, `HoldersAgree`, `FlushedSurvives` and `RestartTrustsOnlyCurrent`
  after a power cut, where the first two hold of the run's budgets and not of all
  (above);
- `AnsweredSurvives` and `PagesAccountedFor` of `MetaV2`, whose pages are followed
  through a tree of two levels: not done yet.

## Where code and comment disagree

Eight have a configuration whose counterexample TLC prints; the first is a run.

| configuration | code | what happens |
|---|---|---|
| `MCParityStripesAbsent.cfg` | `volume/mod.rs:4598` | a start with one slab absent unmaps the parity members on it, which then read as zeros, although parity and the other members could reconstruct them; thin.rs:372 promises a margin of "the parity count" when healthy |
| `MCParityStripesForgotten.cfg` | `volume/thin.rs:1113`, `volume/mod.rs:4298` | a slab is away at a start, a write marks it failed, in memory, and is flushed; the next start takes the failed set of a record written before and trusts the slab, whose parity (or member) is stale. docs/redundancy.md:115: the failed set is "persisted with the volume: skipped for every read and write from then on, so a stale leg is never served" |
| `MCSlabErased.cfg` | `drive/slab.rs:1517` | the Erasing entry of a slot retired before its first entry was on the media is sent and not flushed; a cut finds the free one, and the slot is handed out with its old bytes. slab.rs:1514: "its entry is written either way, so an erase a power cut interrupts is resumed", and 1533 |
| `MCRaidArrayReturned.cfg` | `raid/mod.rs:544` | a spare half rebuilt and absent at an assembly is recorded as failed and missing, and when it is back is re-added Active after a resync of the marked chunks only: its unfilled part is read. raid/mod.rs:19: "A member is read only where it holds the data" |
| `MCSlabPublish.cfg` | `drive/slab.rs:873` | a sync publishes entries confirmed after its first flush, whose data is only in the cache; slab.rs:1050 and docs/durability.md:19 say an entry follows its data |
| `MCVolumeDrain.cfg` | `volume/thin.rs:3263` | a writer decides to write in place, a drain quarantines the slab, a second writer relocates the extent under a fence both hold shared, the first write lands in the old slot |
| `MCMetaV2Stale.cfg` | `volume/metav2.rs:860` | a record whose append failed is on the disk where, and with the sequence with which, the whole write's superblock begins its log: the next open replays it |
| `MCVolumeLegsRefused.cfg` | `volume/thin.rs:1103` | a leg that refuses a write with an error that is not the media's misses it and stays trusted; thin.rs:1741 says it is marked |

The others were met on the way. The last column is the instance that reaches
them: a change of a setup of the MC module, and the property with its condition
taken off.

| code | what happens, and what a comment says | reached with |
|---|---|---|
| `drive/slab.rs:1553` | `retire` queues a slot in `freeing` before its free entry is written; a sync in between releases it and it is taken while the media names its old owner. slab.rs:1063: "not reused until its free entry is durable" | `Slab`, one slot, two tenancies: an owned slot in `early` |
| `drive/slottable.rs:262` | a table write that is dropped reaches the device and not the page cache: the next write of the page puts the old entries back over the published ones. slab.rs:1033 | `Dropping`; `Stale` and `Listed` look at the page for this |
| `drive/slab.rs:2362` | a count's change reads a Free entry while the slot is unpublished, a sync publishes it before the table's page is taken, and Free is written over the published entry: later changes of the count are refused (`is_owned`). In the same way `ForgetWritten` can drop a count lowered and raised again meanwhile, which leaks a slot at most | `Sharing`: a slot with an owner whose entry on the table is Free and that is neither unpublished nor ready |
| `drive/slab.rs:1446` | an allocation answers "slab full" while a running sync holds the freed slots in a local. slab.rs:1440: "flush to make it so and take one" | `Slab`, one slot: `free`, `freeing`, `released` empty, `took` not |
| `drive/slab.rs:1448` | a caller dropped at this flush of an allocation loses the freed slots it took out, until the slab is opened again | by reading |
| `drive/slab.rs:807` | a sync dropped at the table write loses the entries it took out of `ready`; a later sync answers Ok without them (`mgmt/debug.rs:156` persists inside a request's future). slab.rs:1033 | `Dropping`, `SyncIsDurable` without `~dropped` |
| `volume/thin.rs:2060` | relocate-on-write frees the old slot under a shared fence: a read holding the same fence returns discarded bytes. fence.rs:10 names this as what the fence prevents | `Leaving` with `read`, `ReadsAreFresh` |
| `volume/thin.rs:1899` | `relocate_extent` copies with neither fence nor volume lock: a write acknowledged meanwhile is lost. mod.rs:2012: "the volume keeps serving throughout" | `Writing` with `retier` and a move, `NoLostWrite` |
| `volume/thin.rs:2097` | `sync_refs` stores a count read before a snapshot raised it; the owner then writes in place into a slot its snapshot reads. gem.rs:571: "only ever lowers a count" | `Cloning`, `AloneMeansAlone` without `overtaken` |
| `volume/thin.rs:3263` | a copy-on-write has read the shared slot when the other volume gives its share back and `sync_refs` lowers the count to 1: another write of the same volume finds itself alone and goes in place, without the volume lock, and the copy's remap then takes the map away from it. fence.rs:10 has the fence prevent this, and both hold it shared | writes and snapshots of two volumes on two blocks, three tasks, four writes: `NoLostWrite`; `CopiesAlone` excludes it |
| `volume/thin.rs:2097` | `sync_refs` compares the slot only (gem.rs `set_owner_ref`): a count that was on its way when the extent left the slot, and that comes when it names it again, is stored for the new tenancy | met in the proof of `BelievesAlone`: the reason `overtaken` looks at every step and not at snapshots alone |
| `volume/snapshot.rs:58` | an error raising the share counts comes after the clone's map and the source's believed counts are in place, and `mod.rs:2708-2711` undoes neither: maps name slots more often than their counts say | by reading |
| `volume/metav2.rs:737` | a wrap record and the one behind it go out with one flush; a cut keeps the later one, a later one-page record takes the wrap record's place and replay goes on to the stale one. persist_v2.rs:26 | `Wrapping` with six changes, `StartFindsWhatWasAnswered` |
| `volume/metav2.rs:793` | a superblock whose write reported an error may be on the disk; its pages are freed and written again. metav2.rs:22 | `Failing` with `super`, `superflush` and three changes |
| `volume/metav2.rs:484` | open takes an unflushed superblock for durable: kill, start, then a cut finds the older superblock over reused pages. metav2.rs:22 | kills, two changes, two cuts |
| `volume/metav2.rs:417` | generation 1 and 2 go to the same superblock place, so the first checkpoint overwrites the only one that checks. metav2.rs:24. Needs a drive that tears inside a sector | not reachable in the model |
| `volume/persist_v2.rs:577` | a batch of an older epoch is dropped and answered Ok; its change is in no store until a later persist. mod.rs:3210: "answering whether the records were written" | `persist`, with `store[k] >= acked[k]` alone |
| `volume/persist_v2.rs:509` | a caller abandoned in `apply` drops its batches with `need_full` unset; later persists answer Ok on a store that lacks them. persist_v2.rs:308 | `persist`, `NoChangeForgotten` without `~Abandoned` |
| `volume/persist_v2.rs:592` | between a failed record and its mark the state is quiet. persist_v2.rs:169 | `persist`, `QuietMeansWritten` without `FailureUnmarked` |
| `volume/mod.rs:3277` | `clear_failed_legs` trusts a leg again after reading one block from whichever leg answers; no resync has run. thin.rs:1741 | one fault, one clear, `TrustedLegsAreCurrent` |
| `volume/mod.rs:2220` | `distrust_slab` stores a copy of the failed set it read before; a mark made in between is overwritten | one fault, one report, `TrustedLegsAreCurrent` |
| `volume/thin.rs:2731` | a resync lists used slabs and forgives the others under two locks; a first write in between puts a leg on a forgiven slab (the window is two statements wide) | three writes, one fault, one resync, `TrustedLegsAreCurrent` |
| `volume/thin.rs:3618` | with every leg already marked failed a flush syncs nothing and answers Ok. A test's comment, thin.rs:4756: "a mirror with no leg left, still fail" | two faults, two flushes: an Ok with no usable leg |
| `volume/metav2.rs:775` | a checkpoint whose caller went away (an abandoned request) has taken the overlay: the next checkpoint writes a tree without the answered records in it and empties the log. metav2.rs:12 | `Dropping`, `StartFindsWhatWasAnswered` |
| `volume/metav2.rs:775` | its pages stay in `fresh` and `retired`: the next checkpoint frees the retired ones although its own tree may still name them, and leaks the fresh ones. metav2.rs:22 | `Dropping`, `PagesAccountedFor` without `dropped` |
| `volume/metav2.rs:744` | a record whose append was dropped is on the disk where the next superblock's log begins, and is replayed over it (as after a failed append) | `Dropping`, `StartFindsWhatWasAnswered` |
| `raid/bitmap.rs:186` | a page under way when `clear_idle` lowers a bit raises it again at its commit; a write trusts the bit while the page that clears it is on its way, and its data lands without an intent on disk. bitmap.rs:10: "`durable` is never ahead of the disk" (`bit`) | three writes, a flush: `WriteUnderItsBit` without `bit` |
| `raid/mod.rs:920` | after an assembly that keeps the bitmaps for a missing member the set starts with an empty bitmap in memory; the first page written overwrites the kept bits, and a re-add then resyncs too little (`kept`) | two writes, two cuts, an absence: `HoldersAgree` without `kept` |
| `raid/mod.rs:1005` | a caller finds `sb_dirty` cleared by another's round that has not landed and answers, or clears a bit; a cut then finds superblocks that trust the failed member. raid/mod.rs:24: "The superblocks say so before the I/O is acknowledged" (`unrecorded`) | two writes, a fault, a cut: `RestartTrustsOnlyCurrent` without `unrecorded` |
| `raid/mod.rs:2078` | a rebuild's position is recorded in the superblock before the copies below it are flushed: a cut leaves a watermark above data that is not there (`watermark`) | a report, a spare, a cut: `HoldersAgree` without `watermark` |
| `raid/mod.rs:655` | an assembly zeroes the bitmaps behind its resync without a flush in between: a cut may keep the zeroed bitmap and not the copies (`zeroed`) | a write, two cuts: `HoldersAgree` without `zeroed` |
| `raid/mod.rs:2082` | a second spare that enters a slot while its rebuild runs takes over the worker's position and is activated with the units below it unfilled | a fourth drive, two reports, two spares: `HoldersAgree` |
| `raid/mod.rs:515` | a returning drive's own bitmap is not read at its re-add; bits it alone has are lost. After both slots were replaced in turn, a bit `durable` in memory may be on no drive | by reading |
| `mgmt/live_mirror.rs:138` | two POSTs at once, or a DELETE beside a POST, end with a mirror set and its record removed: the next restart has no mirror. mirror.rs:27: "it never silently stops" | `live_mirror`, `NeverVanishes` without `overlap` |
| `volume/mirror.rs:15` | a target used again after a failure or a restart is not blank, and the copy skips what reads as zeros: `synced` with stale extents. mirror.rs:18: "T has every byte" | `live_mirror`, `SyncedMeansSame` without `fresh` |
| `volume/thin.rs:3646` | a flush raises `synced` and then flushes the target; a second flush in between takes the fast path and answers before the target is flushed. mirror.rs:11: "a flush flushes T too" | `live_mirror`, `SkippedFlushIsDone` without its condition on tasks |
| `volume/mirror.rs:173` | a write that fails on the volume after some extents landed is not sent on: volume and target differ there while `synced` | `live_mirror`, `SyncedMeansSame` without `torn` |
| `drive/nvmeof_dev.rs:1218` | a target that restarts under its connection loses unflushed writes while the mirror stays synced; a write that timed out and was retried may land late | by reading; the transport is not modelled |
| `volume/stripelog.rs:80` | two persists of the log read `dirty` in one order and may land in the other, through one `.log.tmp`: a mark that was answered is not in the file. stripelog.rs:9: "the stripes left in the log are the only ones whose parity has to be recomputed" | `stripes`, `ParityTrue` without `holed` |
| `volume/stripelog.rs:59` | a flush's clear wipes the marks of stripes whose write is between data and parity (`thin.rs:3643`) | the same |
| `volume/thin.rs:2490` | a discard changes member and parity and never marks the stripe | the same, with discards |
| `volume/thin.rs:1038` | `verify_stripes` clears the log before the recomputed parity is flushed: a second cut finds neither | the same, with two cuts |
| `volume/thin.rs:2349` | an error writing the log is only warned of, and the write goes on without its mark | the same, with log errors |
| `volume/thin.rs:1030` | a stripe that is dirty and has a member missing is put together from a parity that may be stale | a write, a death, a cut |
| `volume/thin.rs:1030` | `verify_stripes` with the parity's slab absent: the write of the parity only adds to the report's errors, the slab stays trusted and the log is cleared (thin.rs:1038); a start with the slab back trusts the stale parity | `ParityTrue` without the second half of `Verify`'s `holed` |
| `volume/mod.rs:4264` | a start takes a parity group from the record although the tables have a newer one (a group dropped with its last member and created again, or rebuilt by a resync, before the next record): its parity is old, its slot may be free or another leg's, and it may share a slab with a member. docs/redundancy.md:255: "the record wins except where the slot table is provably newer" | `stripes`, `LegsApart` and `ParityTrue` without `Regrouped` in `dropped` |
| `volume/gem.rs:1183` | a member is discarded and written again on another slab, at generation 1 as before; a flush syncs the slabs of the map, and not the one the discard freed the old slot on: after a cut both are named with the same generation, the record breaks the tie for the old one, and the flushed write is gone. In the same way a start may take a slot a resync has replaced and not freed yet, or, with the leg's own slab absent, one it has left | a discard, a write, a flush, a cut: `ReadsAnswered` without `Outlived` in `SetBack` |
| `volume/mod.rs:4598` | a member just written to a new slab that dies, or is absent at the next start, before its entry is synced is set back although the parity has its write (`dropped`) | `ReadsAnswered` without `dropped` |

## Not modelled

Bytes, encodings, checksums, digests, wire protocols and file formats: codecs,
for which tests on real input are the better tool. Rates, throttling and latency
records: no safety property depends on them. Device back ends: pure I/O, whose
promise is `WriteCache`. Choice of a slab by placement: any slab with room may be
chosen. Of the parts that are modelled, the following is left out: FUA writes and
write-same, growing and shrinking a slab, the first metadata
format (`volume/metadata.rs`), trash and rollback, snapshot groups, several
sinks of one persist, splits in the metadata tree; of arrays RAID-5 and RAID-6,
scrub, grow, adding and removing a member by hand, proactive replacement, wiping a
released drive, errors during an assembly; of parity volumes a second parity leg and
erasure codes, groups shared by clones, drains of parity legs, restriping, the
forgiving of slabs at the end of a resync and what a resync that fails has
marked, `clear_failed_legs` and health reports (they are in `VolumeLegs`), the
reclaim of leftover slots at a start, two equal entries as mirrors of one member, a
slot used for one leg and then for another (a slab has one for each leg), a failed
set and a map that a record reads at two moments, two records on their way at once; of the live mirror the transport to the target.

## Plan

In order of what a failure would cost:

1. `Restore`: reconciliation at start (`volume/mod.rs`) of clones and share
   counts, composing what `Slab` and `MetaV2` may leave after a cut; counts and
   maps agree after it, no slot two volumes write. (For a parity volume's map
   `ParityStripes` has it.)
2. `Engine`: an abstract crash-tolerant block device (answered and flushed
   writes survive, others may), and `Slab` with a volume's flush shown to
   implement it. FUA writes.
3. `Handover` (two engines over the same devices), `Holds` (holds against attach,
   detach and delete), `Exports` (reconcile, drain), `RideThrough` (retries
   against late answers), `Pallet` selection with its tries, cluster heartbeat.
4. Parity in arrays: the stripe locks and partial-stripe writes of RAID-5 and 6.
5. Proofs: what an assembly of an array finds when no drive is absent; `MetaV2!PagesAccountedFor` and `AnsweredSurvives`; and the
   refinement of 2.
