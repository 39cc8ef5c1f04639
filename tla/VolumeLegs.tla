----------------------------- MODULE VolumeLegs -----------------------------
(***************************************************************************)
(* The legs of a volume's extents (volume/thin.rs): a write goes to every  *)
(* leg the volume still trusts, a leg that fails is distrusted, a flush    *)
(* syncs the slabs under the trusted legs, a resync rebuilds what is       *)
(* missing.  Two questions are asked of it: does a trusted leg ever hold   *)
(* less than what was answered, and does a flush that answers Ok leave     *)
(* what it owes on the media.                                              *)
(*                                                                         *)
(* Copies = 1 is an unreplicated volume, Copies > 1 a mirror.  A slab      *)
(* carries at most one leg of an extent (the legs are spread over failure  *)
(* domains), so a leg is an extent and a slab.  Slots, share counts and    *)
(* moves are the subject of VolumeIo and Slab, and parity is not here.     *)
(***************************************************************************)
EXTENDS Naturals, FiniteSets

CONSTANTS Slab,          \* the slabs a leg can be on
          Extent,        \* the volume's extents
          Copies,        \* how many legs the redundancy policy asks for
          Writer,        \* requests writing to the volume
          Flusher,       \* requests flushing it
          Budgets        \* how often each of these may happen in a behaviour

\* Writes, flushes, extents a resync copies and its ends; I/Os that fail and
\* requests dropped half way; leg writes a device refuses; legs/clear requests;
\* drive-health reports.
Event == {"writes", "flushes", "resyncs", "faults", "refusals", "clears", "reports"}

ASSUME SlabAssumption == IsFiniteSet(Slab)
ASSUME CopiesAssumption == Copies \in Nat \ {0}
ASSUME BudgetsAssumption == Budgets \subseteq [Event -> Nat]

VARIABLES legs,        \* the extent map: the slabs that carry each extent
          failed,      \* the slabs the volume has stopped trusting
          cache,       \* the last write each leg would be read as
          disk,        \* the last write each leg holds on the media
          completed,   \* writes finished, however they finished
          synced,      \* the count the last successful flush started from
          wr, fl,      \* the writers and the flushers
          rs,          \* the resync
          ds,          \* the drive-health report being applied
          budget,      \* the bounds of this behaviour
          spent,       \* what has happened so far; writes are numbered by it
          last,        \* history: the last write answered Ok, per extent
          done,        \* history: the writes answered Ok
          doubted,     \* history: every slab that was ever distrusted
          stray        \* history: the extents mapped while a resync was forgiving

vars == <<legs, failed, cache, disk, completed, synced, wr, fl, rs, ds, budget, spent, last,
          done, doubted, stray>>

Write == [n : Nat, ext : Extent, ok : SUBSET Slab, at : Nat]
Landing == [pc : {"landing"}, ext : Extent, n : Nat, todo : SUBSET Slab, ok : SUBSET Slab,
            bad : SUBSET Slab]
FlusherState == [pc : {"idle", "check", "list", "sync", "ok", "err"}, start : Nat,
                 todo : SUBSET Slab, lost : BOOLEAN, owed : SUBSET Write]
Copying == [pc : {"copy", "publish"}, ext : Extent, new : Slab, old : SUBSET Slab, data : Nat]
Forgiving == [pc : {"forgive"}, used : SUBSET Slab]
Distrusting == [pc : {"set"}, set : SUBSET Slab]

\* A writer, a resync or a report that has nothing under way.
Resting == [pc |-> "idle"]

StateOK ==
    /\ legs \in [Extent -> SUBSET Slab]
    /\ failed \in SUBSET Slab
    /\ cache \in [Extent -> [Slab -> Nat]]
    /\ disk \in [Extent -> [Slab -> Nat]]
    /\ completed \in Nat
    /\ synced \in 0..completed
    /\ wr \in [Writer -> Landing \union {Resting}]
    /\ fl \in [Flusher -> FlusherState]
    /\ \A f \in Flusher : fl[f].start <= completed
    /\ rs \in Copying \union Forgiving \union {Resting}
    /\ ds \in Distrusting \union {Resting}
    /\ spent \in [Event -> Nat]
    /\ last \in [Extent -> Nat]
    /\ done \in SUBSET Write
    /\ doubted \in SUBSET Slab
TypeOK == StateOK /\ budget \in Budgets /\ stray \in SUBSET Extent

Redundant == Copies > 1

\* `completed` starts at 1, so a handle's first flush is a full one.
Init ==
    /\ legs \in [Extent -> SUBSET Slab]
    /\ \A e \in Extent : legs[e] = {} \/ Cardinality(legs[e]) = Copies
    /\ failed = {}
    /\ cache = [e \in Extent |-> [s \in Slab |-> 0]]
    /\ disk = cache
    /\ completed = 1
    /\ synced = 0
    /\ wr = [w \in Writer |-> Resting]
    /\ fl = [f \in Flusher |-> [pc |-> "idle", start |-> 0, todo |-> {}, lost |-> FALSE,
                                owed |-> {}]]
    /\ rs = Resting
    /\ ds = Resting
    /\ budget \in Budgets
    /\ spent = [b \in Event |-> 0]
    /\ last = [e \in Extent |-> 0]
    /\ done = {}
    /\ doubted = {}
    /\ stray = {}

Spend(b) == spent[b] < budget[b] /\ spent' = [spent EXCEPT ![b] = @ + 1]

\* usable_legs: the legs of an extent worth trying.
UsableLegs(e) == legs[e] \ failed

\* mark_failed: sticky, for this volume.
MarkFailed(S) ==
    /\ failed' = failed \union S
    /\ doubted' = doubted \union S

\* Mutant: the resync does not hold the extent's shard.
ShardFreeOfWrites(e) == \A w \in Writer : wr[w].pc = "landing" => wr[w].ext # e

\* The extent's shard of the volume is free: a mirror's writes and its resync
\* hold it.  An unreplicated volume's writes do not, and its consumer does not
\* have two writes to one block in flight.
ShardFree(e) ==
    /\ \A w \in Writer : wr[w].pc = "landing" => wr[w].ext # e
    /\ rs.pc \in {"copy", "publish"} => rs.ext # e

-----------------------------------------------------------------------------
(* Writes                                                                   *)

\* Where a write goes: the usable legs of a mapped extent, or freshly taken
\* legs, all on trusted slabs, of one that is not mapped.
Targets(e) ==
    IF legs[e] # {} THEN {UsableLegs(e)}
    ELSE {S \in SUBSET (Slab \ failed) : Cardinality(S) = Copies}

\* The extent's shard is taken, its map read, its legs written at once.
StartWrite(w, e) ==
    /\ wr[w].pc = "idle"
    /\ Spend("writes")
    /\ ShardFree(e)
    /\ \E S \in Targets(e) \ {{}} :
           wr' = [wr EXCEPT ![w] = [pc |-> "landing", ext |-> e, n |-> spent["writes"] + 1,
                                    todo |-> S, ok |-> {}, bad |-> {}]]
    /\ UNCHANGED <<legs, failed, cache, disk, completed, synced, fl, rs, ds, last, done, doubted>>

\* No usable leg, or no room for fresh ones: refused, and counted.
RefuseWrite(w, e) ==
    /\ wr[w].pc = "idle"
    /\ Spend("writes")
    /\ ShardFree(e)
    /\ Targets(e) \in SUBSET {{}}
    /\ completed' = completed + 1
    /\ UNCHANGED <<legs, failed, cache, disk, synced, wr, fl, rs, ds, last, done, doubted>>

\* write_leg: one leg has taken the write.
LandLeg(w, s) ==
    /\ wr[w].pc = "landing"
    /\ s \in wr[w].todo
    /\ cache' = [cache EXCEPT ![wr[w].ext][s] = wr[w].n]
    /\ wr' = [wr EXCEPT ![w].todo = @ \ {s}, ![w].ok = @ \union {s}]
    /\ UNCHANGED <<legs, failed, disk, completed, synced, fl, rs, ds, spent, last, done,
                   doubted>>

\* One leg answers an error: it holds the old data or the new.
LegFails(w, s) ==
    /\ wr[w].pc = "landing"
    /\ s \in wr[w].todo
    /\ Spend("faults")
    /\ \E n \in {cache[wr[w].ext][s], wr[w].n} : cache' = [cache EXCEPT ![wr[w].ext][s] = n]
    /\ wr' = [wr EXCEPT ![w].todo = @ \ {s}, ![w].bad = @ \union {s}]
    /\ UNCHANGED <<legs, failed, disk, completed, synced, fl, rs, ds, last, done, doubted>>

\* One leg's device refuses the write (EINVAL, not aligned, read-only, no
\* space): mark_failed takes it for the request's fault, not the leg's.
LegRefuses(w, s) ==
    /\ wr[w].pc = "landing"
    /\ s \in wr[w].todo
    /\ Spend("refusals")
    /\ wr' = [wr EXCEPT ![w].todo = @ \ {s}]
    /\ UNCHANGED <<legs, failed, cache, disk, completed, synced, fl, rs, ds, last, done,
                   doubted>>

\* The legs a finished write stops trusting: those that failed it, but not the
\* slab of an unreplicated volume's first write, whose slot is given back.
Marked(w) == IF legs[wr[w].ext] = {} /\ ~Redundant THEN {} ELSE wr[w].bad

\* Mutant: a finished write is not counted.
EndWriteUncounted(w) ==
    LET e == wr[w].ext IN
    /\ wr[w].pc = "landing"
    /\ wr[w].todo = {}
    /\ MarkFailed(Marked(w))
    /\ legs' = [legs EXCEPT ![e] = IF @ = {} THEN wr[w].ok ELSE @]
    /\ last' = [last EXCEPT ![e] = IF wr[w].ok = {} THEN @ ELSE wr[w].n]
    /\ done' = IF wr[w].ok = {} THEN done
               ELSE done \union {[n |-> wr[w].n, ext |-> e, ok |-> wr[w].ok, at |-> completed]}
    /\ wr' = [wr EXCEPT ![w] = Resting]
    /\ UNCHANGED <<cache, disk, completed, synced, fl, rs, ds, spent>>

\* Every leg has answered: those that failed are distrusted, a fresh extent is
\* mapped to the legs that took it, and the write is answered Ok when one leg
\* took it.  It is counted (Finished) before it is answered.
EndWrite(w) ==
    LET e == wr[w].ext IN
    /\ wr[w].pc = "landing"
    /\ wr[w].todo = {}
    /\ MarkFailed(Marked(w))
    /\ legs' = [legs EXCEPT ![e] = IF @ = {} THEN wr[w].ok ELSE @]
    /\ completed' = completed + 1
    /\ last' = [last EXCEPT ![e] = IF wr[w].ok = {} THEN @ ELSE wr[w].n]
    /\ done' = IF wr[w].ok = {} THEN done
               ELSE done \union {[n |-> wr[w].n, ext |-> e, ok |-> wr[w].ok, at |-> completed + 1]}
    /\ wr' = [wr EXCEPT ![w] = Resting]
    /\ UNCHANGED <<cache, disk, synced, fl, rs, ds, spent>>

\* The request is dropped half way: nothing is marked and nothing is mapped,
\* and it is counted all the same.
DropWrite(w) ==
    /\ wr[w].pc = "landing"
    /\ Spend("faults")
    /\ completed' = completed + 1
    /\ wr' = [wr EXCEPT ![w] = Resting]
    /\ UNCHANGED <<legs, failed, cache, disk, synced, fl, rs, ds, last, done, doubted>>

\* read_extent, read_full: a leg answers a read with a media error.
ReadFails(e, s) ==
    /\ s \in UsableLegs(e)
    /\ Spend("faults")
    /\ MarkFailed({s})
    /\ UNCHANGED <<legs, cache, disk, completed, synced, wr, fl, rs, ds, last, done>>

-----------------------------------------------------------------------------
(* Flush                                                                    *)

\* The flush reads `completed`.  What it owes is every write answered so far.
StartFlush(f) ==
    /\ fl[f].pc \in {"idle", "ok", "err"}
    /\ Spend("flushes")
    /\ fl' = [fl EXCEPT ![f] =
                  [pc |-> "check", start |-> completed, todo |-> {}, lost |-> FALSE, owed |-> done]]
    /\ UNCHANGED <<legs, failed, cache, disk, completed, synced, wr, rs, ds, last, done,
                   doubted>>

\* Nothing finished since a successful flush began: answered at once.
CheckSynced(f) ==
    /\ fl[f].pc = "check"
    /\ fl' = [fl EXCEPT ![f].pc = IF synced >= fl[f].start THEN "ok" ELSE "list"]
    /\ UNCHANGED <<legs, failed, cache, disk, completed, synced, wr, rs, ds, spent, last,
                   done, doubted>>

\* The slabs to sync: those the map names now.
ListSlabs(f) ==
    /\ fl[f].pc = "list"
    /\ fl' = [fl EXCEPT ![f].pc = "sync", ![f].todo = UNION {legs[e] : e \in Extent}]
    /\ UNCHANGED <<legs, failed, cache, disk, completed, synced, wr, rs, ds, spent, last,
                   done, doubted>>

\* A slab the volume has stopped trusting is passed over.
SkipSlab(f, s) ==
    /\ fl[f].pc = "sync"
    /\ s \in fl[f].todo \intersect failed
    /\ fl' = [fl EXCEPT ![f].todo = @ \ {s}]
    /\ UNCHANGED <<legs, failed, cache, disk, completed, synced, wr, rs, ds, spent, last,
                   done, doubted>>

\* sync_registered: everything this slab took is on its media.
SyncSlab(f, s) ==
    /\ fl[f].pc = "sync"
    /\ s \in fl[f].todo \ failed
    /\ disk' = [e \in Extent |-> [disk[e] EXCEPT ![s] = cache[e][s]]]
    /\ fl' = [fl EXCEPT ![f].todo = @ \ {s}]
    /\ UNCHANGED <<legs, failed, cache, completed, synced, wr, rs, ds, spent, last, done,
                   doubted>>

\* The slab will not sync: a mirror's flush goes on without that leg when its
\* media or its transport failed; any other error, and any error of an
\* unreplicated volume's slab, is the flush's.
SyncFails(f, s) ==
    /\ fl[f].pc = "sync"
    /\ s \in fl[f].todo \ failed
    /\ Spend("faults")
    /\ \/ /\ Redundant
          /\ MarkFailed({s})
          /\ fl' = [fl EXCEPT ![f].todo = @ \ {s}, ![f].lost = TRUE]
       \/ /\ fl' = [fl EXCEPT ![f].pc = "err"]
          /\ UNCHANGED <<failed, doubted>>
    /\ UNCHANGED <<legs, cache, disk, completed, synced, wr, rs, ds, last, done>>

\* health_resident: a mapped extent has no trusted leg left.
Unreadable == \E e \in Extent : legs[e] # {} /\ UsableLegs(e) = {}

\* Mutant: the flush records the count at its end, not the one it started from.
EndFlushLate(f) ==
    /\ fl[f].pc = "sync"
    /\ fl[f].todo = {}
    /\ LET fails == fl[f].lost /\ Unreadable IN
       /\ fl' = [fl EXCEPT ![f].pc = IF fails THEN "err" ELSE "ok"]
       /\ synced' = IF fails THEN synced ELSE completed
    /\ UNCHANGED <<legs, failed, cache, disk, completed, wr, rs, ds, spent, last, done,
                   doubted>>

\* Every slab is done.  Only a flush that lost a leg itself looks at what is
\* still readable; the count it started from is recorded when it succeeds.
EndFlush(f) ==
    /\ fl[f].pc = "sync"
    /\ fl[f].todo = {}
    /\ LET fails == fl[f].lost /\ Unreadable IN
       /\ fl' = [fl EXCEPT ![f].pc = IF fails THEN "err" ELSE "ok"]
       /\ synced' = IF fails \/ fl[f].start < synced THEN synced ELSE fl[f].start
    /\ UNCHANGED <<legs, failed, cache, disk, completed, wr, rs, ds, spent, last, done,
                   doubted>>

-----------------------------------------------------------------------------
(* Resync, and what an operator or the drive monitor does to the failed set *)

\* mirror_extent: under the extent's shard, an extent short of legs is read
\* from a trusted leg and a leg is taken on another trusted slab, to replace
\* one that is not trusted, if there is one, or to be added.
ResyncExtent(e) ==
    /\ rs.pc = "idle"
    /\ ShardFree(e)
    /\ UsableLegs(e) # {}
    /\ Cardinality(UsableLegs(e)) < Copies
    /\ Spend("resyncs")
    /\ \E src \in UsableLegs(e), new \in Slab \ (failed \union legs[e]) :
       \E old \in IF legs[e] \intersect failed = {} THEN {{}}
                  ELSE {{o} : o \in legs[e] \intersect failed} :
           rs' = [pc |-> "copy", ext |-> e, new |-> new, old |-> old, data |-> cache[e][src]]
    /\ UNCHANGED <<legs, failed, cache, disk, completed, synced, wr, fl, ds, last, done,
                   doubted>>

\* The copy lands on the new leg.
ResyncLand ==
    /\ rs.pc = "copy"
    /\ cache' = [cache EXCEPT ![rs.ext][rs.new] = rs.data]
    /\ rs' = [rs EXCEPT !.pc = "publish"]
    /\ UNCHANGED <<legs, failed, disk, completed, synced, wr, fl, ds, spent, last, done,
                   doubted>>

\* The new leg will not take it: given back, its slab distrusted.
ResyncFails ==
    /\ rs.pc = "copy"
    /\ Spend("faults")
    /\ MarkFailed({rs.new})
    /\ rs' = Resting
    /\ UNCHANGED <<legs, cache, disk, completed, synced, wr, fl, ds, last, done>>

\* replace_leg or add_leg, and the shard is let go.
ResyncPublish ==
    /\ rs.pc = "publish"
    /\ legs' = [legs EXCEPT ![rs.ext] = (@ \ rs.old) \union {rs.new}]
    /\ rs' = Resting
    /\ UNCHANGED <<failed, cache, disk, completed, synced, wr, fl, ds, spent, last, done,
                   doubted>>

\* The end of a resync: the slabs the map still names ...
ResyncUsed ==
    /\ rs.pc = "idle"
    /\ Spend("resyncs")
    /\ rs' = [pc |-> "forgive", used |-> UNION {legs[e] : e \in Extent}]
    /\ UNCHANGED <<legs, failed, cache, disk, completed, synced, wr, fl, ds, last, done,
                   doubted>>

\* ... and the failed ones among the rest are forgiven, under another lock.
ResyncForgive ==
    /\ rs.pc = "forgive"
    /\ failed' = failed \intersect rs.used
    /\ rs' = Resting
    /\ UNCHANGED <<legs, cache, disk, completed, synced, wr, fl, ds, spent, last, done,
                   doubted>>

\* clear_failed_legs: every slab is trusted again, and a block is read to see
\* which answer (ReadFails marks those that do not).
ClearFailedLegs ==
    /\ failed # {}
    /\ Spend("clears")
    /\ failed' = {}
    /\ UNCHANGED <<legs, cache, disk, completed, synced, wr, fl, rs, ds, last, done,
                   doubted>>

\* distrust_slab: a drive is reported bad.  The failed set is read ...
DistrustRead(s) ==
    /\ Redundant
    /\ ds.pc = "idle"
    /\ \E e \in Extent : s \in legs[e]
    /\ s \notin failed
    /\ Spend("reports")
    /\ ds' = [pc |-> "set", set |-> failed \union {s}]
    /\ UNCHANGED <<legs, failed, cache, disk, completed, synced, wr, fl, rs, last, done,
                   doubted>>

\* ... and set to what was read, with the slab in it.
DistrustSet ==
    /\ ds.pc = "set"
    /\ failed' = ds.set
    /\ doubted' = doubted \union ds.set
    /\ ds' = Resting
    /\ UNCHANGED <<legs, cache, disk, completed, synced, wr, fl, rs, spent, last, done>>

-----------------------------------------------------------------------------

WriteStep ==
    \E w \in Writer :
        \/ \E e \in Extent : StartWrite(w, e) \/ RefuseWrite(w, e)
        \/ \E s \in Slab : LandLeg(w, s) \/ LegFails(w, s) \/ LegRefuses(w, s)
        \/ EndWrite(w)
        \/ DropWrite(w)

FlushStep ==
    \E f \in Flusher :
        \/ StartFlush(f) \/ CheckSynced(f) \/ ListSlabs(f) \/ EndFlush(f)
        \/ \E s \in Slab : SkipSlab(f, s) \/ SyncSlab(f, s) \/ SyncFails(f, s)

ResyncStep ==
    \/ \E e \in Extent : ResyncExtent(e)
    \/ ResyncLand \/ ResyncFails \/ ResyncPublish \/ ResyncUsed \/ ResyncForgive

Step ==
    \/ WriteStep
    \/ FlushStep
    \/ ResyncStep
    \/ \E e \in Extent, s \in Slab : ReadFails(e, s)
    \/ ClearFailedLegs
    \/ \E s \in Slab : DistrustRead(s)
    \/ DistrustSet

Next ==
    /\ Step
    /\ budget' = budget
    /\ stray' = stray \union {e \in Extent : rs.pc = "forgive" /\ legs[e] = {} /\ legs'[e] # {}}

Spec == Init /\ [][Next]_vars

-----------------------------------------------------------------------------
(* Properties                                                               *)

\* "A leg that did not [take a write] is marked failed so nothing reads it
\* again" (write_legs): whatever leg a read is answered from, it holds the last
\* write answered Ok for the extent, or a later one.
TrustedLegsAreCurrent ==
    \A e \in Extent : \A s \in UsableLegs(e) : cache[e][s] >= last[e]

\* Nothing has put trust back, or kept it, over a missed write: no leg write
\* refused by its device, no legs/clear, no drive-health report, no extent
\* mapped between a resync's look at the map and its forgiving.
Unforced == stray = {} /\ \A b \in {"refusals", "clears", "reports"} : spent[b] = 0

\* The same, as far as writes, reads, flushes, dropped requests and resyncs go:
\* a media or transport error alone never leaves a stale leg trusted.
CurrentUnlessForced == Unforced => TrustedLegsAreCurrent

\* A flush that answers Ok left every write it owes on the media of every leg
\* that took it, unless the volume stopped trusting that leg's slab (flush,
\* the `completed` and `synced` counters).
FlushReachesMedia ==
    \A f \in Flusher : fl[f].pc = "ok" =>
        \A r \in fl[f].owed : \A s \in r.ok \ doubted : disk[r.ext][s] >= r.n

\* With fewer faults than copies, what a flush that answered Ok owed is on the
\* media of a leg the volume still reads: the FLUSH promise of a mirror.
FlushSurvivesFaults ==
    Unforced /\ spent["faults"] < Copies => \A f \in Flusher : fl[f].pc = "ok" =>
        \A r \in fl[f].owed : \E s \in UsableLegs(r.ext) : disk[r.ext][s] >= r.n

-----------------------------------------------------------------------------
(* The inductive invariants behind FlushReachesMedia, CurrentUnlessForced   *)
(* and FlushSurvivesFaults                                                  *)

Active == {w \in Writer : wr[w].pc = "landing"}
Rebuilding == rs.pc \in {"copy", "publish"}

\* What the extent's shard gives: one writer or the resync at a time, whose
\* write is later than every write answered before it.
ShardInv ==
    /\ \A w, v \in Active : wr[w].ext = wr[v].ext => w = v
    /\ Rebuilding => \A w \in Active : wr[w].ext # rs.ext
    /\ Rebuilding => rs.new \notin legs[rs.ext] /\ legs[rs.ext] # {}
    /\ \A w \in Active :
           /\ wr[w].n <= spent["writes"]
           /\ last[wr[w].ext] < wr[w].n
           /\ \A s \in wr[w].ok : cache[wr[w].ext][s] >= wr[w].n
    /\ \A e \in Extent : last[e] <= spent["writes"]
    /\ \A r \in done : r.n <= last[r.ext]

\* On a slab never distrusted the leg that took a write stays in the map and
\* keeps the write.
OldIsDoubted == Rebuilding => rs.old \subseteq doubted
TargetsMapped ==
    \A w \in Active : legs[wr[w].ext] # {} => wr[w].ok \union wr[w].todo \subseteq legs[wr[w].ext]
LandedStays ==
    \A r \in done : \A s \in r.ok \ doubted : s \in legs[r.ext] /\ cache[r.ext][s] >= r.n
LandedInv == failed \subseteq doubted /\ OldIsDoubted /\ TargetsMapped /\ LandedStays

OnMedia(r, s) == disk[r.ext][s] >= r.n

\* A write counted no later than a flush began is on the media of its legs once
\* the flush has been to their slabs.
FlusherInv(f) ==
    /\ \A r \in fl[f].owed : r \in done /\ r.at <= fl[f].start
    /\ fl[f].pc \in {"sync", "ok"} =>
           \A r \in done : r.at <= fl[f].start =>
               \A s \in r.ok \ doubted :
                   OnMedia(r, s) \/ (fl[f].pc = "sync" /\ s \in fl[f].todo)
CountInv ==
    /\ \A r \in done : r.at <= completed
    /\ \A r \in done : r.at <= synced => \A s \in r.ok \ doubted : OnMedia(r, s)
    /\ \A f \in Flusher : FlusherInv(f)

FlushInv == StateOK /\ ShardInv /\ LandedInv /\ CountInv

\* Every trusted leg of an extent being written is one the write goes to, and
\* what the resync copies is current.
Current ==
    /\ ds = Resting
    /\ \A w \in Active :
           UsableLegs(wr[w].ext) \subseteq wr[w].todo \union wr[w].ok \union wr[w].bad
    /\ Rebuilding => rs.data >= last[rs.ext]
    /\ rs.pc = "publish" => cache[rs.ext][rs.new] >= last[rs.ext]
    /\ rs.pc = "forgive" => UNION {legs[e] : e \in Extent} \subseteq rs.used
    /\ TrustedLegsAreCurrent
CurrentInv == Unforced => Current

TrustInv == StateOK /\ ShardInv /\ CurrentInv

\* With the slabs ever distrusted, these are as many as the policy asks for.
Enough(S) == Cardinality(S \union doubted) >= Copies

\* Each fault costs one slab at most, and an extent, a write under way and a
\* write answered lose legs only to slabs that are distrusted.
Suspect == doubted \union UNION {wr[w].bad : w \in Active}
Goes(w) == wr[w].todo \union wr[w].ok \union wr[w].bad
Spread ==
    /\ Cardinality(Suspect) <= spent["faults"]
    /\ \A e \in Extent : legs[e] # {} => Enough(legs[e])
    /\ \A r \in done : Enough(r.ok)
    /\ \A w \in Active : Enough(Goes(w))
SpreadInv == Unforced => Spread
=============================================================================
