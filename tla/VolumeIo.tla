------------------------------ MODULE VolumeIo ------------------------------
(* volume/thin.rs, volume/fence.rs, volume/snapshot.rs, placement/mod.rs:   *)
(* reads, writes and discards of unreplicated volumes against moves,        *)
(* snapshots and deletes of the slots under them.                           *)
(*                                                                          *)
(* Each volume has one extent of a few blocks.  An operation is a task; its *)
(* local state is t[p].  The extent map and the registry are locked for one *)
(* step at a time, so every step between two awaits is one action here.     *)
(* What a power cut does to a slab is the Slab module's subject: here a     *)
(* freed slot becomes reusable by a Sync.                                   *)
EXTENDS Integers, FiniteSets

CONSTANTS Volume, Block, Slab,
          Slot,        \* a set of naturals
          SlabOf,      \* the slab a slot is in
          Task,        \* tasks that run operations
          None,        \* no slot, no volume
          Root,        \* the volume that exists at the start
          Loads        \* the work and the bounds to consider

Op == {"read", "write", "discard", "move", "retier", "snapshot", "delete", "quarantine"}

\* ops, on these volumes and blocks, so many requests at a time; `leaving` are
\* the slabs quarantined at the start.  The other numbers are bounds.
Load == [ops : SUBSET Op, volumes : SUBSET Volume, blocks : SUBSET Block, leaving : SUBSET Slab,
         width : Nat, writes : Nat, moves : Nat, snapshots : Nat, quarantines : Nat]

ASSUME SlotAssumption == Slot \subseteq Nat /\ SlabOf \in [Slot -> Slab] /\ None \notin Slot
ASSUME VolumeAssumption == Root \in Volume /\ None \notin Volume
ASSUME LoadsAssumption == Loads \subseteq Load
ASSUME FiniteAssumption == IsFiniteSet(Volume) /\ IsFiniteSet(Task)

VARIABLES
    live,        \* VolumeManager::volumes
    map, refs,   \* the extent map: the slot a volume's extent is in, and the count it believes
    count, owner,   \* the slot tables: share count (0: not owned), the volume recorded
    free, freeing,  \* reusable slots; freed ones not yet reusable
    owed,        \* PlacementEngine::owed: moved slots not yet freed
    data,        \* the slots' blocks
    quarantined, \* slabs being emptied
    t,           \* the tasks' operations
    moves, writes, snapshots, quarantines,
    last,        \* ghost: the last value each block was acknowledged with
    load,        \* the work and the bounds of this behaviour
    overtaken    \* ghost: volumes a count on its way to their map has become too low for

ioVars == <<live, map, refs, count, owner, free, freeing, owed, data, quarantined, t, moves,
            writes, snapshots, quarantines, last>>
vars == <<ioVars, load, overtaken>>
mapVars == <<live, map, refs>>
slabVars == <<count, owner, free, freeing, owed, quarantined>>
countVars == <<moves, writes, snapshots, quarantines>>

Zeroes == [b \in Block |-> 0]

\* What an appliance's volume came with: no write writes it.
Image == [b \in Block |-> 1]

Idle == [pc |-> "idle", kind |-> "none", vol |-> None, block |-> None, val |-> 0,
         loc |-> None, refs |-> 0,        \* what a lookup found
         held |-> None, exclusive |-> FALSE,   \* the slot fence
         locked |-> FALSE,                \* the volume lock
         new |-> None, buf |-> Zeroes,    \* the slot and bytes of a copy
         shares |-> 0, of |-> None,       \* what dec_ref left, for sync_refs
         valid |-> {}]                    \* ghost: what a read may return

\* A volume may begin on a slab being emptied: the appliance's, when a node
\* boots and flows over.
Init ==
    /\ load \in Loads
    /\ live = {Root}
    /\ \E m \in {None} \cup {s \in Slot : SlabOf[s] \in load.leaving} :
        LET taken == {m} \ {None}
        IN  /\ map = [v \in Volume |-> IF v = Root THEN m ELSE None]
            /\ refs = [v \in Volume |-> IF v = Root THEN Cardinality(taken) ELSE 0]
            /\ count = [s \in Slot |-> IF s \in taken THEN 1 ELSE 0]
            /\ owner = [s \in Slot |-> IF s \in taken THEN Root ELSE None]
            /\ free = Slot \ taken
            /\ data = [s \in Slot |-> IF s \in taken THEN Image ELSE Zeroes]
            /\ last = [v \in Volume |-> IF v = Root /\ m /= None THEN Image ELSE Zeroes]
    /\ freeing = {} /\ owed = {}
    /\ quarantined = load.leaving
    /\ t = [p \in Task |-> Idle]
    /\ moves = 0 /\ writes = 0 /\ snapshots = 0 /\ quarantines = 0
    /\ overtaken = {}

-----------------------------------------------------------------------------
Doing(kinds, v) == {p \in Task : t[p].kind \in kinds /\ t[p].vol = v}

\* The snapshot gate: every write and discard holds it shared for its whole
\* length, a snapshot or a delete takes it exclusive.
GateOpen(v) == Doing({"write", "discard"}, v) = {}

\* Snapshots, deletes and retiers hold the volume manager.
ManagerFree == \A p \in Task : t[p].kind /= "retier"

OnLeavingSlab(s) == SlabOf[s] \in quarantined

\* Blocks being written or discarded now.
Changing(v, b) == \E p \in Task : /\ t[p].vol = v
                                 /\ \/ t[p].kind = "write" /\ t[p].block = b
                                    \/ t[p].kind = "discard"

Step(p, updates) == t' = [t EXCEPT ![p] = updates]

\* The load has such a request, and room for one more in flight.
May(op) == op \in load.ops /\ Cardinality({q \in Task : t[q] /= Idle}) < load.width

\* The operation returns: its guards and locks go with it.
Finish(p) == t' = [t EXCEPT ![p] = Idle]

-----------------------------------------------------------------------------
(* Operations begin.  A consumer does not write a block twice at once, nor  *)
(* an extent it is discarding.                                              *)

StartWrite(p, v, b) ==
    /\ May("write")
    /\ t[p] = Idle /\ v \in live
    /\ writes < load.writes
    /\ b \in load.blocks /\ ~Changing(v, b)
    /\ writes' = writes + 1
    /\ t' = [q \in Task |->
                IF q = p THEN [Idle EXCEPT !.pc = "lookup", !.kind = "write", !.vol = v,
                                           !.block = b, !.val = writes + 2]
                ELSE IF t[q].kind = "read" /\ t[q].vol = v /\ t[q].block = b
                     THEN [t[q] EXCEPT !.valid = @ \cup {writes + 2}]
                     ELSE t[q]]
    /\ UNCHANGED <<mapVars, slabVars, data, moves, snapshots, quarantines, last>>

StartRead(p, v, b) ==
    /\ May("read")
    /\ t[p] = Idle /\ v \in live /\ b \in load.blocks
    /\ Step(p, [Idle EXCEPT !.pc = "lookup", !.kind = "read", !.vol = v, !.block = b,
                            !.valid = {last[v][b]}
                                      \cup {t[q].val : q \in {q \in Doing({"write"}, v) : t[q].block = b}}
                                      \cup {0 : q \in Doing({"discard"}, v)}])
    /\ UNCHANGED <<mapVars, slabVars, data, countVars, last>>

StartDiscard(p, v) ==
    /\ May("discard")
    /\ t[p] = Idle /\ v \in live
    /\ \A b \in Block : ~Changing(v, b)
    /\ t' = [q \in Task |-> IF q = p THEN [Idle EXCEPT !.pc = "lock", !.kind = "discard", !.vol = v]
                            ELSE IF t[q].kind = "read" /\ t[q].vol = v
                                 THEN [t[q] EXCEPT !.valid = @ \cup {0}] ELSE t[q]]
    /\ UNCHANGED <<mapVars, slabVars, data, countVars, last>>

-----------------------------------------------------------------------------
(* fenced_lookup: the extent's slot, held shared, with the map still naming *)
(* it.                                                                      *)

\* What a look at the map leads to.
Found(p, s) ==
    IF s /= None THEN [t[p] EXCEPT !.pc = "hold", !.held = None, !.loc = s]
    ELSE IF t[p].kind = "write"
    THEN [t[p] EXCEPT !.held = None, !.loc = None, !.pc = IF t[p].locked THEN "alloc" ELSE "lock",
                      !.buf = [Zeroes EXCEPT ![t[p].block] = t[p].val]]
    ELSE [t[p] EXCEPT !.held = None, !.loc = None, !.pc = IF t[p].kind = "read" THEN "io" ELSE "done"]

Lookup(p) ==
    /\ t[p].pc = "lookup"
    /\ Step(p, Found(p, map[t[p].vol]))
    /\ UNCHANGED <<mapVars, slabVars, data, countVars, last>>

\* A move has the slot, or waits for it: a tokio lock queues whoever comes
\* after a waiting writer.
Hold(p) ==
    /\ t[p].pc = "hold"
    /\ \A q \in Task : t[q].loc = t[p].loc => t[q].pc /= "exclusive" /\ ~t[q].exclusive
    /\ Step(p, [t[p] EXCEPT !.pc = "recheck", !.held = t[p].loc])
    /\ UNCHANGED <<mapVars, slabVars, data, countVars, last>>

\* Mutant: the map is not read again once the fence is held.
RecheckNever(p) ==
    /\ t[p].pc = "recheck"
    /\ Step(p, [t[p] EXCEPT !.refs = refs[t[p].vol],
                            !.pc = CASE t[p].kind = "read" -> "io"
                                     [] t[p].kind = "discard" -> "unmap"
                                     [] OTHER -> "decide"])
    /\ UNCHANGED <<mapVars, slabVars, data, countVars, last>>

Recheck(p) ==
    /\ t[p].pc = "recheck"
    /\ LET v == t[p].vol
       IN  IF map[v] = t[p].held
           THEN Step(p, [t[p] EXCEPT !.refs = refs[v],
                                     !.pc = CASE t[p].kind = "read" -> "io"
                                              [] t[p].kind = "discard" -> "unmap"
                                              [] OTHER -> "decide"])
           ELSE Step(p, Found(p, map[v]))
    /\ UNCHANGED <<mapVars, slabVars, data, countVars, last>>

-----------------------------------------------------------------------------
(* read_blocks and write_blocks. *)

\* Unmapped reads as zeroes.
Answer(p) == IF t[p].held = None THEN 0 ELSE data[t[p].held][t[p].block]

ReadSlot(p) ==
    /\ t[p].pc = "io" /\ t[p].kind = "read"
    /\ Finish(p)
    /\ UNCHANGED <<mapVars, slabVars, data, countVars, last>>

\* Mutant: the fence is kept while the volume lock is waited for.
DecideKeepsFence(p) ==
    /\ t[p].pc = "decide"
    /\ LET alone == t[p].refs = 1
           leaving == OnLeavingSlab(t[p].held)
       IN  Step(p, IF alone /\ ~leaving THEN [t[p] EXCEPT !.pc = "io"]
                   ELSE IF t[p].locked THEN [t[p] EXCEPT !.pc = "copy"]
                   ELSE [t[p] EXCEPT !.pc = "lock"])
    /\ UNCHANGED <<mapVars, slabVars, data, countVars, last>>

\* Alone on the slot, and the slab stays: in place, no lock held.  Else the
\* fence goes, and the volume lock is taken before it is held again.
Decide(p) ==
    /\ t[p].pc = "decide"
    /\ LET alone == t[p].refs = 1
           leaving == OnLeavingSlab(t[p].held)
       IN  Step(p, IF alone /\ ~leaving THEN [t[p] EXCEPT !.pc = "io"]
                   ELSE IF t[p].locked THEN [t[p] EXCEPT !.pc = "copy"]
                   ELSE [t[p] EXCEPT !.pc = "lock", !.held = None])
    /\ UNCHANGED <<mapVars, slabVars, data, countVars, last>>

LockVolume(p) ==
    /\ t[p].pc = "lock"
    /\ \A q \in Doing({"write", "discard"}, t[p].vol) : ~t[q].locked
    /\ Step(p, [t[p] EXCEPT !.locked = TRUE,
                            !.pc = IF t[p].kind = "discard" THEN "alone?" ELSE "lookup"])
    /\ UNCHANGED <<mapVars, slabVars, data, countVars, last>>

Acknowledge(p) == last' = [last EXCEPT ![t[p].vol][t[p].block] = t[p].val]

WriteInPlace(p) ==
    /\ t[p].pc = "io" /\ t[p].kind = "write"
    /\ data' = [data EXCEPT ![t[p].held][t[p].block] = t[p].val]
    /\ Acknowledge(p)
    /\ Finish(p)
    /\ UNCHANGED <<mapVars, slabVars, countVars>>

\* read_full: the slot as it is, with the write laid over it.
CopySlot(p) ==
    /\ t[p].pc = "copy"
    /\ Step(p, [t[p] EXCEPT !.pc = "alloc",
                            !.buf = IF t[p].kind = "write" THEN [data[t[p].loc] EXCEPT ![t[p].block] = t[p].val]
                                    ELSE data[t[p].loc]])
    /\ UNCHANGED <<mapVars, slabVars, data, countVars, last>>

\* Where a copy may go: never onto a slab being emptied; a move or a retier
\* goes to another slab.
Room(p) == {s \in free : /\ ~OnLeavingSlab(s)
                         /\ t[p].kind \in {"move", "retier"} => SlabOf[s] /= SlabOf[t[p].loc]}

\* A moved slot stays recorded as its owner's.
OwnerFor(p) == IF t[p].kind = "move" THEN owner[t[p].loc] ELSE t[p].vol

\* The first free slot of a slab.
Allocate(p) ==
    /\ t[p].pc = "alloc"
    /\ \E s \in Room(p) :
        /\ \A r \in Room(p) : SlabOf[r] = SlabOf[s] => s <= r
        /\ free' = free \ {s}
        /\ count' = [count EXCEPT ![s] = 1]
        /\ owner' = [owner EXCEPT ![s] = OwnerFor(p)]
        /\ Step(p, [t[p] EXCEPT !.pc = "fill", !.new = s])
    /\ UNCHANGED <<mapVars, freeing, owed, quarantined, data, countVars, last>>

\* No room: a write to a slab being emptied lands in place after all, and
\* everything else answers an error.
NoSpace(p) ==
    /\ t[p].pc = "alloc"
    /\ Room(p) = {}
    /\ IF t[p].kind = "write" /\ t[p].loc /= None /\ t[p].refs = 1
       THEN Step(p, [t[p] EXCEPT !.pc = "io"])
       ELSE Finish(p)
    /\ UNCHANGED <<mapVars, slabVars, data, countVars, last>>

Fill(p) ==
    /\ t[p].pc = "fill"
    /\ data' = [data EXCEPT ![t[p].new] = t[p].buf]
    /\ Step(p, [t[p] EXCEPT !.pc = IF t[p].kind = "move" THEN "publish" ELSE "remap"])
    /\ UNCHANGED <<mapVars, slabVars, countVars, last>>

\* Mutant: the slot of a copy that failed is not given back.
FillErrorKeeps(p) ==
    /\ t[p].pc = "fill"
    /\ Finish(p)
    /\ UNCHANGED <<mapVars, slabVars, data, countVars, last>>

\* The device refuses the copy: the slot, never published, is given back.
FillError(p) ==
    /\ t[p].pc = "fill"
    /\ free' = free \cup {t[p].new}
    /\ count' = [count EXCEPT ![t[p].new] = 0]
    /\ owner' = [owner EXCEPT ![t[p].new] = None]
    /\ Finish(p)
    /\ UNCHANGED <<mapVars, freeing, owed, quarantined, data, countVars, last>>

\* The map names the slot once the data is there.
Remap(p) ==
    /\ t[p].pc = "remap"
    /\ map' = [map EXCEPT ![t[p].vol] = t[p].new]
    /\ refs' = [refs EXCEPT ![t[p].vol] = 1]
    /\ IF t[p].loc = None
       THEN Finish(p) /\ Acknowledge(p)
       ELSE Step(p, [t[p] EXCEPT !.pc = "release"]) /\ UNCHANGED last
    /\ UNCHANGED <<live, slabVars, data, countVars>>

-----------------------------------------------------------------------------
(* dec_ref, and what the last reference takes with it. *)

\* free and its discard, which the drive may ignore.  A slot no sync has
\* published goes straight back: the same as a Sync at once.
Retire(s, n) ==
    /\ count' = [count EXCEPT ![s] = n]
    /\ owner' = IF n = 0 THEN [owner EXCEPT ![s] = None] ELSE owner
    /\ freeing' = IF n = 0 THEN freeing \cup {s} ELSE freeing
    /\ data' \in IF n = 0 THEN {data, [data EXCEPT ![s] = Zeroes]} ELSE {data}

\* Mutant: the share is given back twice.
ReleaseTwice(p) ==
    /\ t[p].pc = "release"
    /\ LET s == t[p].loc
       IN  IF count[s] = 0
           THEN Step(p, [t[p] EXCEPT !.pc = "done"]) /\ UNCHANGED <<count, owner, freeing, data>>
           ELSE /\ Retire(s, count[s] - 2)
                /\ Step(p, [t[p] EXCEPT !.pc = "done"])
    /\ UNCHANGED <<mapVars, free, owed, quarantined, countVars, last>>

Release(p) ==
    /\ t[p].pc = "release"
    /\ LET s == t[p].loc
       IN  IF count[s] = 0
           THEN Step(p, [t[p] EXCEPT !.pc = "done"]) /\ UNCHANGED <<count, owner, freeing, data>>
           ELSE /\ Retire(s, count[s] - 1)
                /\ Step(p, [t[p] EXCEPT !.pc = IF t[p].kind = "discard" \/ count[s] = 1 THEN "done" ELSE "refs",
                                        !.shares = count[s] - 1, !.of = owner[s]])
    /\ UNCHANGED <<mapVars, free, owed, quarantined, countVars, last>>

\* sync_refs: the owner's map learns the count, if it still names the slot.
SyncRefs(p) ==
    /\ t[p].pc = "refs"
    /\ refs' = IF map[t[p].of] = t[p].loc THEN [refs EXCEPT ![t[p].of] = t[p].shares] ELSE refs
    /\ Step(p, [t[p] EXCEPT !.pc = "done"])
    /\ UNCHANGED <<live, map, slabVars, data, countVars, last>>

Done(p) ==
    /\ t[p].pc = "done"
    /\ IF t[p].kind = "write" THEN Acknowledge(p) ELSE UNCHANGED last
    /\ Finish(p)
    /\ UNCHANGED <<mapVars, slabVars, data, countVars>>

-----------------------------------------------------------------------------
(* discard_mapped: a slot shared with another volume is left alone. *)

DiscardAlone(p) ==
    /\ t[p].pc = "alone?"
    /\ Step(p, [t[p] EXCEPT !.pc = IF refs[t[p].vol] > 1 THEN "done" ELSE "lookup"])
    /\ UNCHANGED <<mapVars, slabVars, data, countVars, last>>

Unmap(p) ==
    /\ t[p].pc = "unmap"
    /\ map' = [map EXCEPT ![t[p].vol] = None]
    /\ refs' = [refs EXCEPT ![t[p].vol] = 0]
    /\ last' = [last EXCEPT ![t[p].vol] = Zeroes]
    /\ Step(p, [t[p] EXCEPT !.pc = "release"])
    /\ UNCHANGED <<live, slabVars, data, countVars>>

-----------------------------------------------------------------------------
(* Moves: a drain, a rebalance or a flow-over (migrate_leg_unlocked).       *)
(* Retiers: relocate_extent, copy-on-write with the same data and no fence. *)

StartMove(p, v) ==
    /\ May("move")
    /\ t[p] = Idle /\ map[v] /= None
    /\ moves < load.moves
    /\ \A q \in Task : t[q].kind /= "move"
    /\ moves' = moves + 1
    /\ Step(p, [Idle EXCEPT !.pc = "exclusive", !.kind = "move", !.vol = v, !.loc = map[v]])
    /\ UNCHANGED <<mapVars, slabVars, data, writes, snapshots, quarantines, last>>

\* Mutant: a move does not wait for the I/O on its slot.
ExclusiveNow(p) ==
    /\ t[p].pc = "exclusive"
    /\ Step(p, IF map[t[p].vol] = t[p].loc
               THEN [t[p] EXCEPT !.pc = "copy", !.held = t[p].loc, !.exclusive = TRUE]
               ELSE Idle)
    /\ UNCHANGED <<mapVars, slabVars, data, countVars, last>>

\* The fence, then a look whether the extent is still there.
Exclusive(p) ==
    /\ t[p].pc = "exclusive"
    /\ \A q \in Task : t[q].held /= t[p].loc
    /\ Step(p, IF map[t[p].vol] = t[p].loc
               THEN [t[p] EXCEPT !.pc = "copy", !.held = t[p].loc, !.exclusive = TRUE]
               ELSE Idle)
    /\ UNCHANGED <<mapVars, slabVars, data, countVars, last>>

\* Under the map and the registry: the extent still names the source, whose
\* share count the copy takes; every map naming the source now names the
\* copy, and the source is owed.  Else the copy is given back.
Publish(p) ==
    /\ t[p].pc = "publish"
    /\ IF map[t[p].vol] = t[p].loc /\ count[t[p].loc] > 0
       THEN /\ map' = [v \in Volume |-> IF map[v] = t[p].loc THEN t[p].new ELSE map[v]]
            /\ count' = [count EXCEPT ![t[p].new] = count[t[p].loc]]
            /\ owed' = owed \cup {t[p].loc}
            /\ UNCHANGED <<free, owner>>
       ELSE /\ free' = free \cup {t[p].new}
            /\ count' = [count EXCEPT ![t[p].new] = 0]
            /\ owner' = [owner EXCEPT ![t[p].new] = None]
            /\ UNCHANGED <<map, owed>>
    /\ Finish(p)
    /\ UNCHANGED <<live, refs, freeing, quarantined, data, countVars, last>>

\* release_owed, once the maps are on disk: by the engine that moves, between
\* moves.  A slot no longer owned is logged.
ReleaseOwed ==
    /\ owed /= {}
    /\ \A q \in Task : t[q].kind /= "move"
    /\ LET S == {s \in owed : count[s] > 0}
       IN  /\ count' = [s \in Slot |-> IF s \in S THEN 0 ELSE count[s]]
           /\ owner' = [s \in Slot |-> IF s \in S THEN None ELSE owner[s]]
           /\ freeing' = freeing \cup S
           /\ data' \in {data, [s \in Slot |-> IF s \in S THEN Zeroes ELSE data[s]]}
    /\ owed' = {}
    /\ UNCHANGED <<mapVars, free, quarantined, t, countVars, last>>

StartRetier(p, v) ==
    /\ May("retier")
    /\ t[p] = Idle /\ v \in live /\ map[v] /= None
    /\ ManagerFree
    /\ moves < load.moves
    /\ moves' = moves + 1
    /\ Step(p, [Idle EXCEPT !.pc = "copy", !.kind = "retier", !.vol = v,
                            !.loc = map[v], !.refs = refs[v]])
    /\ UNCHANGED <<mapVars, slabVars, data, writes, snapshots, quarantines, last>>

-----------------------------------------------------------------------------
(* Snapshots and deletes, under the map and the registry. *)

\* Ids are never used twice: a deleted volume's name stands for a new one once
\* no task and no slot mentions the old.
FreshId(w) ==
    /\ w \in load.volumes \ live
    /\ \A p \in Task : t[p].vol /= w /\ t[p].of /= w
    /\ \A s \in Slot : owner[s] /= w

\* Mutant: the slots' share counts are not raised.
SnapshotUncounted(v, w) ==
    /\ "snapshot" \in load.ops
    /\ v \in live /\ FreshId(w)
    /\ snapshots < load.snapshots /\ snapshots' = snapshots + 1
    /\ GateOpen(v) /\ ManagerFree
    /\ live' = live \cup {w}
    /\ map' = [map EXCEPT ![w] = map[v]]
    /\ last' = [last EXCEPT ![w] = last[v]]
    /\ refs' = IF map[v] = None THEN refs ELSE [refs EXCEPT ![v] = @ + 1, ![w] = refs[v] + 1]
    /\ UNCHANGED <<slabVars, data, t, moves, writes, quarantines>>

\* Mutant: the volume's own map is not told that its slot is shared now.
SnapshotUntold(v, w) ==
    /\ "snapshot" \in load.ops
    /\ v \in live /\ FreshId(w)
    /\ snapshots < load.snapshots /\ snapshots' = snapshots + 1
    /\ GateOpen(v) /\ ManagerFree
    /\ live' = live \cup {w}
    /\ map' = [map EXCEPT ![w] = map[v]]
    /\ last' = [last EXCEPT ![w] = last[v]]
    /\ IF map[v] = None THEN UNCHANGED <<refs, count>>
       ELSE /\ refs' = [refs EXCEPT ![w] = refs[v] + 1]
            /\ count' = [count EXCEPT ![map[v]] = @ + 1]
    /\ UNCHANGED <<owner, free, freeing, owed, quarantined, data, t, moves, writes, quarantines>>

\* create_snapshot, with the source's writes held off.  (An error raising the counts
\* is left out: it would leave the clone's map behind without its volume.)
Snapshot(v, w) ==
    /\ "snapshot" \in load.ops
    /\ v \in live /\ FreshId(w)
    /\ snapshots < load.snapshots /\ snapshots' = snapshots + 1
    /\ GateOpen(v) /\ ManagerFree
    /\ live' = live \cup {w}
    /\ map' = [map EXCEPT ![w] = map[v]]
    /\ last' = [last EXCEPT ![w] = last[v]]
    /\ IF map[v] = None THEN UNCHANGED <<refs, count>>
       ELSE /\ refs' = [refs EXCEPT ![v] = @ + 1, ![w] = refs[v] + 1]
            /\ count' = [count EXCEPT ![map[v]] = @ + 1]
    /\ UNCHANGED <<owner, free, freeing, owed, quarantined, data, t, moves, writes, quarantines>>

\* A volume in use is held by its attachment and refused.
Delete(v) ==
    /\ "delete" \in load.ops
    /\ v \in live
    /\ GateOpen(v) /\ ManagerFree /\ Doing({"read"}, v) = {}
    /\ live' = live \ {v}
    /\ map' = [map EXCEPT ![v] = None]
    /\ refs' = [refs EXCEPT ![v] = 0]
    /\ last' = [last EXCEPT ![v] = Zeroes]
    /\ IF map[v] = None \/ count[map[v]] = 0 THEN UNCHANGED <<count, owner, freeing, data>>
       ELSE Retire(map[v], count[map[v]] - 1)
    /\ UNCHANGED <<free, owed, quarantined, t, countVars>>

\* A drain begins, ends or is cancelled; a drive loses or regains trust.
SetQuarantined(d) ==
    /\ "quarantine" \in load.ops
    /\ quarantines < load.quarantines
    /\ quarantines' = quarantines + 1
    /\ quarantined' = IF d \in quarantined THEN quarantined \ {d} ELSE quarantined \cup {d}
    /\ UNCHANGED <<mapVars, count, owner, free, freeing, owed, data, t, moves, writes, snapshots, last>>

\* The frees are durable: Slab::sync.
Sync ==
    /\ freeing /= {}
    /\ free' = free \cup freeing
    /\ freeing' = {}
    /\ UNCHANGED <<mapVars, count, owner, owed, quarantined, data, t, countVars, last>>

Advance(p) ==
    \/ Lookup(p) \/ Hold(p) \/ Recheck(p) \/ ReadSlot(p) \/ Decide(p) \/ LockVolume(p)
    \/ WriteInPlace(p) \/ CopySlot(p) \/ Allocate(p) \/ NoSpace(p) \/ Fill(p) \/ FillError(p)
    \/ Remap(p) \/ Release(p) \/ SyncRefs(p) \/ Done(p) \/ DiscardAlone(p) \/ Unmap(p)
    \/ Exclusive(p) \/ Publish(p)

Operate ==
    \/ \E p \in Task : \/ \E v \in Volume : \/ \E b \in Block : StartWrite(p, v, b) \/ StartRead(p, v, b)
                                            \/ StartDiscard(p, v) \/ StartMove(p, v) \/ StartRetier(p, v)
                       \/ Advance(p)
    \/ \E v \in Volume : Delete(v)
    \/ \E d \in Slab : SetQuarantined(d)
    \/ ReleaseOwed
    \/ Sync

\* The count on its way to v's map is below the slot's: a snapshot raised that
\* one since dec_ref read it.
Outdated(v) == \E p \in Task : /\ t[p].pc = "refs" /\ t[p].of = v /\ map[v] = t[p].loc
                             /\ t[p].shares < count[t[p].loc]

Next ==
    /\ Operate \/ \E v, w \in Volume : Snapshot(v, w)
    /\ overtaken' = overtaken \cup {v \in Volume : Outdated(v)'}
    /\ load' = load

Spec == Init /\ [][Next]_vars

(* Each task is driven on by the runtime.  The volume lock is a tokio mutex, *)
(* which queues its waiters: one that finds it free again and again gets it. *)
Fairness == \A p \in Task : WF_ioVars(Advance(p)) /\ SF_ioVars(LockVolume(p))

FairSpec == Spec /\ Fairness

-----------------------------------------------------------------------------
Content == [Block -> Nat]

TaskState ==
    [pc : {"idle", "lookup", "hold", "recheck", "decide", "io", "lock", "alone?", "copy", "alloc",
           "fill", "remap", "release", "refs", "done", "unmap", "exclusive", "publish"},
     kind : {"none", "read", "write", "discard", "move", "retier"},
     vol : Volume \cup {None}, block : Block \cup {None}, val : Nat,
     loc : Slot \cup {None}, refs : Nat, held : Slot \cup {None}, exclusive : BOOLEAN,
     locked : BOOLEAN, new : Slot \cup {None}, buf : Content, shares : Nat,
     of : Volume \cup {None}, valid : SUBSET Nat]

StateOK ==
    /\ live \in SUBSET Volume
    /\ map \in [Volume -> Slot \cup {None}]
    /\ refs \in [Volume -> Nat]
    /\ count \in [Slot -> Nat]
    /\ owner \in [Slot -> Volume \cup {None}]
    /\ free \in SUBSET Slot /\ freeing \in SUBSET Slot /\ owed \in SUBSET Slot
    /\ data \in [Slot -> Content]
    /\ quarantined \in SUBSET Slab
    /\ t \in [Task -> TaskState]
    /\ moves \in Nat /\ writes \in Nat /\ snapshots \in Nat /\ quarantines \in Nat
    /\ last \in [Volume -> Content]

\* Every variable has its type; no share count falls below zero, as releasing
\* a share twice would make it (volume/mod.rs:2504-2513).
TypeOK == StateOK /\ load \in Loads /\ overtaken \in SUBSET Volume

\* While a move has a slot no I/O has it, and one task at a time has a
\* volume's lock: what makes "I/O and a move of the same slot never overlap"
\* (fence.rs:1).
Exclusion ==
    \A p, q \in Task : p /= q =>
        /\ t[p].exclusive => t[q].held /= t[p].held
        /\ t[p].locked /\ t[q].locked => t[p].vol /= t[q].vol

\* What a volume's block reads as.
Through(v, b) == IF map[v] = None THEN 0 ELSE data[map[v]][b]

\* No acknowledged write is lost and no other is seen: whatever moves,
\* copies, snapshots and deletes do to the slots underneath, a block nobody
\* is changing reads as it was last acknowledged (fence.rs:1-26, durability
\* rule 10).  Until a count is overtaken: see AloneMeansAlone.
NoLostWrite ==
    overtaken = {} => \A v \in live, b \in Block : ~Changing(v, b) => Through(v, b) = last[v][b]

\* A slot's share count never falls below the maps that name it, and no map
\* names a slot that is free (durability rule 4: a count "that is too low
\* lets a write land in place in a slot another volume still reads").
CountsCoverMaps ==
    \A s \in Slot :
        /\ count[s] >= Cardinality({v \in Volume : map[v] = s})
        /\ count[s] > 0 => s \notin free \cup freeing

\* A volume that believes it is alone on a slot is: what decides between
\* writing in place and copying (write_blocks, thin.rs:3263).  sync_refs may
\* deliver a count read before a snapshot raised it (thin.rs:2097): a volume
\* such a count was on its way to is left out.
AloneMeansAlone ==
    \A v \in Volume \ overtaken, w \in Volume : map[v] /= None /\ refs[v] = 1 /\ map[w] = map[v] => w = v

\* A slot nobody references is given back: once the operations are over, a
\* slot is owned by as many as name it, or is a moved one not yet freed
\* (drain.rs:138-142: "a drained slab kept every slot it had ever held").
NothingLeaks ==
    (\A p \in Task : t[p] = Idle) =>
        \A s \in Slot \ owed : /\ count[s] = Cardinality({v \in Volume : map[v] = s})
                             /\ (count[s] = 0) = (s \in free \cup freeing)

\* A read returns what its block held at some moment while it ran, whatever
\* moved or freed the slot under it (fence.rs:21-26).
ReadsAreFresh ==
    [][\A p \in Task : ReadSlot(p) => Answer(p) \in t[p].valid]_vars

\* Every operation ends: the volume lock is taken before the fence, and
\* nothing waits for a fence it holds (fence.rs:41-45).
EveryOperationEnds == \A p \in Task : t[p].pc /= "idle" ~> t[p].pc = "idle"

-----------------------------------------------------------------------------
(* Three things the code does not rule out, and the loads of MCVolumeIo do   *)
(* (README.md, "Properties with a condition").  The properties above hold of *)
(* every load as long as they do not happen: the theorems of VolumeIoProofs. *)

\* A retier meets no write or discard of its volume and no move of its slot:
\* it takes neither the volume lock nor the fence (relocate_extent).
RetiersAlone ==
    \A p, q \in Task : t[p].kind = "retier" =>
        /\ t[q].kind \in {"write", "discard"} => t[q].vol /= t[p].vol
        /\ t[q].kind = "move" => t[q].loc /= t[p].loc

\* A write in place goes to its volume's slot, and no copy of that slot has
\* been read and not yet published: it does not take the volume lock
\* (write_blocks), and the slot's count or slab may have changed since the
\* copy was decided on.
CopiesAlone ==
    \A p, q \in Task : t[p].kind = "write" /\ t[p].pc = "io" =>
        /\ map[t[p].vol] = t[p].held
        /\ /\ q /= p /\ t[q].kind = "write" /\ t[q].vol = t[p].vol
           /\ t[q].pc \in {"alloc", "fill", "remap"}
           => t[q].loc /= t[p].held

\* A slot that is read and no longer its volume's has neither been freed nor
\* is written in place: a copy or a discard releases it under the shared fence.
ReadsAlone ==
    \A p, q \in Task :
        /\ t[p].kind = "read" /\ t[p].pc = "io"
        /\ t[p].held /= None /\ map[t[p].vol] /= t[p].held
        => /\ count[t[p].held] > 0
           /\ t[q].kind = "write" /\ t[q].pc = "io" => t[q].held /= t[p].held
=============================================================================
