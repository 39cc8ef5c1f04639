-------------------------- MODULE VolumeLegsProofs --------------------------
(* What a flush and a read of a volume can rely on, for any number of slabs, *)
(* extents, copies, writers, flushers and faults.                            *)
EXTENDS VolumeLegs, FiniteSetTheorems, TLAPS

\* Every step keeps the types.
LEMMA StateNext == StateOK /\ [Next]_vars => StateOK'
<1> SUFFICES ASSUME StateOK, [Next]_vars PROVE StateOK'
    OBVIOUS
<1> USE CopiesAssumption
<1> USE DEF StateOK, Write, Landing, FlusherState, Copying, Forgiving, Distrusting, Resting, Event
<1>1. ASSUME NEW w \in Writer, NEW e \in Extent, StartWrite(w, e) PROVE StateOK'
    BY <1>1 DEF StartWrite, Spend, Targets, UsableLegs, ShardFree
<1>2. ASSUME NEW w \in Writer, NEW e \in Extent, RefuseWrite(w, e) PROVE StateOK'
    BY <1>2 DEF RefuseWrite, Spend, Targets, UsableLegs, ShardFree
<1>3. ASSUME NEW w \in Writer, NEW s \in Slab, LandLeg(w, s) PROVE StateOK'
    <2> USE <1>3 DEF LandLeg
    <2>1. wr[w] \in Landing
        OBVIOUS
    <2>2. wr'[w] \in Landing /\ cache' \in [Extent -> [Slab -> Nat]]
        BY <2>1
    <2>3. QED
        BY <2>2
<1>4. ASSUME NEW w \in Writer, NEW s \in Slab, LegFails(w, s) PROVE StateOK'
    <2> USE <1>4 DEF LegFails, Spend
    <2>1. wr[w] \in Landing
        OBVIOUS
    <2>2. wr'[w] \in Landing
        BY <2>1
    <2>3. wr[w].ext \in Extent /\ cache[wr[w].ext][s] \in Nat /\ wr[w].n \in Nat
        BY <2>1
    <2>4. cache' \in [Extent -> [Slab -> Nat]]
        BY <2>3
    <2>5. QED
        BY <2>2, <2>4
<1>5. ASSUME NEW w \in Writer, EndWrite(w) PROVE StateOK'
    BY <1>5 DEF EndWrite, MarkFailed, Marked
<1>6. ASSUME NEW w \in Writer, DropWrite(w) PROVE StateOK'
    BY <1>6 DEF DropWrite, Spend
<1>7. ASSUME NEW e \in Extent, NEW s \in Slab, ReadFails(e, s) PROVE StateOK'
    BY <1>7 DEF ReadFails, Spend, MarkFailed, UsableLegs
<1>8. ASSUME NEW f \in Flusher, StartFlush(f) PROVE StateOK'
    BY <1>8 DEF StartFlush, Spend
<1>9. ASSUME NEW f \in Flusher, CheckSynced(f) PROVE StateOK'
    <2> USE <1>9 DEF CheckSynced
    <2>1. fl'[f] \in FlusherState /\ fl'[f].start = fl[f].start
        BY ZenonT(60)
    <2>2. fl' \in [Flusher -> FlusherState] /\ \A g \in Flusher : fl'[g].start <= completed
        BY <2>1
    <2>3. QED
        BY <2>2, ZenonT(60)
<1>10. ASSUME NEW f \in Flusher, ListSlabs(f) PROVE StateOK'
    <2> DEFINE S == UNION {legs[e] : e \in Extent}
    <2>1. S \in SUBSET Slab
        OBVIOUS
    <2> HIDE DEF S
    <2>2. fl' = [fl EXCEPT ![f].pc = "sync", ![f].todo = S]
        BY <1>10 DEF ListSlabs, S
    <2>3. fl'[f] \in FlusherState /\ fl'[f].start = fl[f].start
        BY <2>1, <2>2, ZenonT(60)
    <2>4. fl' \in [Flusher -> FlusherState] /\ \A g \in Flusher : fl'[g].start <= completed
        BY <2>2, <2>3
    <2>5. QED
        BY <1>10, <2>4, ZenonT(60) DEF ListSlabs
<1>11. ASSUME NEW f \in Flusher, NEW s \in Slab, SkipSlab(f, s) PROVE StateOK'
    BY <1>11, ZenonT(60) DEF SkipSlab
<1>12. ASSUME NEW f \in Flusher, NEW s \in Slab, SyncSlab(f, s) PROVE StateOK'
    <2> USE <1>12 DEF SyncSlab
    <2>1. fl'[f] \in FlusherState /\ fl'[f].start = fl[f].start
        OBVIOUS
    <2>2. fl' \in [Flusher -> FlusherState] /\ \A g \in Flusher : fl'[g].start <= completed
        BY <2>1
    <2>3. disk' \in [Extent -> [Slab -> Nat]]
        OBVIOUS
    <2>4. QED
        BY <2>2, <2>3
<1>13. ASSUME NEW f \in Flusher, NEW s \in Slab, SyncFails(f, s) PROVE StateOK'
    <2>1. CASE fl' = [fl EXCEPT ![f].todo = @ \ {s}, ![f].lost = TRUE] /\ MarkFailed({s})
        <3>1. fl'[f] \in FlusherState /\ fl'[f].start = fl[f].start
            BY <2>1, ZenonT(60)
        <3>2. fl' \in [Flusher -> FlusherState] /\ \A g \in Flusher : fl'[g].start <= completed
            BY <2>1, <3>1
        <3>3. spent' \in [Event -> Nat] /\ failed' \in SUBSET Slab /\ doubted' \in SUBSET Slab
            BY <1>13, <2>1 DEF SyncFails, Spend, MarkFailed
        <3>4. UNCHANGED <<legs, cache, disk, completed, synced, wr, rs, ds, last, done>>
            BY <1>13 DEF SyncFails
        <3>5. QED
            BY <3>2, <3>3, <3>4
    <2>2. CASE fl' = [fl EXCEPT ![f].pc = "err"] /\ UNCHANGED <<failed, doubted>>
        <3>1. fl'[f] \in FlusherState /\ fl'[f].start = fl[f].start
            BY <2>2, ZenonT(60)
        <3>2. fl' \in [Flusher -> FlusherState] /\ \A g \in Flusher : fl'[g].start <= completed
            BY <2>2, <3>1
        <3>3. spent' \in [Event -> Nat] /\ failed' \in SUBSET Slab /\ doubted' \in SUBSET Slab
            BY <1>13, <2>2 DEF SyncFails, Spend, MarkFailed
        <3>4. UNCHANGED <<legs, cache, disk, completed, synced, wr, rs, ds, last, done>>
            BY <1>13 DEF SyncFails
        <3>5. QED
            BY <3>2, <3>3, <3>4
    <2>3. QED
        BY <1>13, <2>1, <2>2 DEF SyncFails
<1>14. ASSUME NEW f \in Flusher, EndFlush(f) PROVE StateOK'
    <2>1. fl'[f] \in FlusherState /\ fl'[f].start = fl[f].start
        BY <1>14, ZenonT(40) DEF EndFlush
    <2>2. fl' \in [Flusher -> FlusherState] /\ \A g \in Flusher : fl'[g].start <= completed
        BY <1>14, <2>1 DEF EndFlush
    <2>3. synced' \in {synced, fl[f].start}
        BY <1>14 DEF EndFlush
    <2>4. synced' \in 0..completed
        BY <2>3
    <2>5. UNCHANGED <<legs, failed, cache, disk, completed, wr, rs, ds, spent, last, done,
                      doubted>>
        BY <1>14 DEF EndFlush
    <2>6. QED
        BY <2>2, <2>4, <2>5
<1>15. ASSUME NEW e \in Extent, ResyncExtent(e) PROVE StateOK'
    BY <1>15 DEF ResyncExtent, Spend, UsableLegs, ShardFree
<1>16. CASE ResyncLand
    <2> USE <1>16 DEF ResyncLand
    <2>1. rs \in Copying
        OBVIOUS
    <2>2. rs' \in Copying
        BY <2>1
    <2>3. cache' \in [Extent -> [Slab -> Nat]]
        BY <2>1
    <2>4. QED
        BY <2>2, <2>3
<1>17. CASE ResyncFails
    BY <1>17 DEF ResyncFails, Spend, MarkFailed
<1>18. CASE ResyncPublish
    BY <1>18 DEF ResyncPublish
<1>19. CASE ResyncUsed
    BY <1>19 DEF ResyncUsed, Spend
<1>20. CASE ResyncForgive
    BY <1>20 DEF ResyncForgive
<1>21. CASE ClearFailedLegs
    BY <1>21 DEF ClearFailedLegs, Spend
<1>22. ASSUME NEW s \in Slab, DistrustRead(s) PROVE StateOK'
    BY <1>22 DEF DistrustRead, Spend
<1>23. CASE DistrustSet
    BY <1>23 DEF DistrustSet
<1>24. ASSUME NEW w \in Writer, NEW s \in Slab, LegRefuses(w, s) PROVE StateOK'
    <2>1. wr[w] \in Landing /\ wr' = [wr EXCEPT ![w].todo = @ \ {s}]
        BY <1>24 DEF LegRefuses
    <2>2. wr' \in [Writer -> Landing \union {Resting}]
        BY <2>1
    <2>3. spent' \in [Event -> Nat]
        BY <1>24 DEF LegRefuses, Spend
    <2>4. UNCHANGED <<legs, failed, cache, disk, completed, synced, fl, rs, ds, last, done,
                      doubted>>
        BY <1>24 DEF LegRefuses
    <2>5. QED
        BY <2>2, <2>3, <2>4
<1>25. CASE UNCHANGED vars
    BY <1>25 DEF vars
<1>26. QED
    BY <1>1, <1>2, <1>3, <1>4, <1>5, <1>6, <1>7, <1>8, <1>9, <1>10, <1>11,
       <1>12, <1>13, <1>14, <1>15, <1>16, <1>17, <1>18, <1>19, <1>20, <1>21, <1>22, <1>23, <1>24, <1>25
    DEF Next, Step, WriteStep, FlushStep, ResyncStep

\* The shard of an extent keeps its writers and the resync apart.
LEMMA ShardNext == StateOK /\ StateOK' /\ ShardInv /\ [Next]_vars => ShardInv'
<1> SUFFICES ASSUME StateOK, StateOK', ShardInv, [Next]_vars PROVE ShardInv'
    OBVIOUS
<1> USE DEF StateOK, Write, Landing, Copying, Forgiving, Resting, ShardInv, Active, Rebuilding
<1>1. ASSUME NEW w \in Writer, NEW e \in Extent, StartWrite(w, e) PROVE ShardInv'
    BY <1>1 DEF StartWrite, Spend, Targets, UsableLegs, ShardFree
<1>2. ASSUME NEW w \in Writer, NEW e \in Extent, RefuseWrite(w, e) PROVE ShardInv'
    BY <1>2 DEF RefuseWrite, Spend, Targets, UsableLegs, ShardFree
<1>3. ASSUME NEW w \in Writer, NEW s \in Slab, LandLeg(w, s) PROVE ShardInv'
    BY <1>3, SMTT(40) DEF LandLeg
<1>4. ASSUME NEW w \in Writer, NEW s \in Slab, LegFails(w, s) PROVE ShardInv'
    BY <1>4, SMTT(40) DEF LegFails, Spend
<1>5. ASSUME NEW w \in Writer, EndWrite(w) PROVE ShardInv'
    BY <1>5 DEF EndWrite, MarkFailed, Marked
<1>6. ASSUME NEW w \in Writer, DropWrite(w) PROVE ShardInv'
    BY <1>6 DEF DropWrite, Spend
<1>7. ASSUME NEW e \in Extent, NEW s \in Slab, ReadFails(e, s) PROVE ShardInv'
    BY <1>7 DEF ReadFails, Spend, MarkFailed, UsableLegs
<1>8. ASSUME NEW f \in Flusher, StartFlush(f) PROVE ShardInv'
    BY <1>8 DEF StartFlush, Spend
<1>9. ASSUME NEW f \in Flusher, CheckSynced(f) PROVE ShardInv'
    BY <1>9 DEF CheckSynced
<1>10. ASSUME NEW f \in Flusher, ListSlabs(f) PROVE ShardInv'
    BY <1>10 DEF ListSlabs
<1>11. ASSUME NEW f \in Flusher, NEW s \in Slab, SkipSlab(f, s) PROVE ShardInv'
    BY <1>11 DEF SkipSlab
<1>12. ASSUME NEW f \in Flusher, NEW s \in Slab, SyncSlab(f, s) PROVE ShardInv'
    BY <1>12 DEF SyncSlab
<1>13. ASSUME NEW f \in Flusher, NEW s \in Slab, SyncFails(f, s) PROVE ShardInv'
    BY <1>13 DEF SyncFails, Spend, MarkFailed
<1>14. ASSUME NEW f \in Flusher, EndFlush(f) PROVE ShardInv'
    BY <1>14 DEF EndFlush
<1>15. ASSUME NEW e \in Extent, ResyncExtent(e) PROVE ShardInv'
    BY <1>15 DEF ResyncExtent, Spend, UsableLegs, ShardFree
<1>16. CASE ResyncLand
    BY <1>16 DEF ResyncLand
<1>17. CASE ResyncFails
    BY <1>17 DEF ResyncFails, Spend, MarkFailed
<1>18. CASE ResyncPublish
    BY <1>18 DEF ResyncPublish
<1>19. CASE ResyncUsed
    BY <1>19 DEF ResyncUsed, Spend
<1>20. CASE ResyncForgive
    BY <1>20 DEF ResyncForgive
<1>21. CASE ClearFailedLegs
    BY <1>21 DEF ClearFailedLegs, Spend
<1>22. ASSUME NEW s \in Slab, DistrustRead(s) PROVE ShardInv'
    BY <1>22 DEF DistrustRead, Spend
<1>23. CASE DistrustSet
    BY <1>23 DEF DistrustSet
<1>24. ASSUME NEW w \in Writer, NEW s \in Slab, LegRefuses(w, s) PROVE ShardInv'
    BY <1>24 DEF LegRefuses, Spend
<1>25. CASE UNCHANGED vars
    BY <1>25 DEF vars
<1>26. QED
    BY <1>1, <1>2, <1>3, <1>4, <1>5, <1>6, <1>7, <1>8, <1>9, <1>10, <1>11,
       <1>12, <1>13, <1>14, <1>15, <1>16, <1>17, <1>18, <1>19, <1>20, <1>21, <1>22, <1>23, <1>24, <1>25
    DEF Next, Step, WriteStep, FlushStep, ResyncStep

\* A leg on a slab never distrusted keeps its place in the map and what it took.
LEMMA LandedNext == StateOK /\ StateOK' /\ ShardInv /\ LandedInv /\ [Next]_vars => LandedInv'
<1> SUFFICES ASSUME StateOK, StateOK', ShardInv, LandedInv, [Next]_vars PROVE LandedInv'
    OBVIOUS
<1> USE DEF StateOK, Write, Landing, Copying, Forgiving, Distrusting, Resting, ShardInv, LandedInv,
        OldIsDoubted, TargetsMapped, LandedStays, Active, Rebuilding
<1>1. ASSUME NEW w \in Writer, NEW e \in Extent, StartWrite(w, e) PROVE LandedInv'
    <2> USE <1>1 DEF StartWrite, Spend
    <2>1. PICK S \in Targets(e) : wr' = [wr EXCEPT ![w] = [pc |-> "landing", ext |-> e,
                n |-> spent["writes"] + 1, todo |-> S, ok |-> {}, bad |-> {}]]
        OBVIOUS
    <2>2. legs[e] # {} => S \subseteq legs[e]
        BY <2>1 DEF Targets, UsableLegs
    <2>3. TargetsMapped'
        <3>1. wr'[w].ext = e /\ wr'[w].ok = {} /\ wr'[w].todo = S
            BY <2>1
        <3>2. \A v \in Writer \ {w} : wr'[v] = wr[v]
            BY <2>1
        <3>3. legs' = legs
            OBVIOUS
        <3>4. QED
            BY <2>2, <3>1, <3>2, <3>3
    <2>4. QED
        BY <2>3
<1>2. ASSUME NEW w \in Writer, NEW e \in Extent, RefuseWrite(w, e) PROVE LandedInv'
    BY <1>2 DEF RefuseWrite, Spend, Targets, UsableLegs, ShardFree
<1>3. ASSUME NEW w \in Writer, NEW s \in Slab, LandLeg(w, s) PROVE LandedInv'
    <2> USE <1>3 DEF LandLeg
    <2>1. wr[w] \in Landing /\ wr[w].n \in Nat /\ wr[w].ext \in Extent
        OBVIOUS
    <2>2. TargetsMapped'
        <3>1. wr'[w].ext = wr[w].ext /\ wr'[w].ok \union wr'[w].todo = wr[w].ok \union wr[w].todo
            BY <2>1
        <3>2. \A v \in Writer \ {w} : wr'[v] = wr[v]
            OBVIOUS
        <3>3. QED
            BY <2>1, <3>1, <3>2, ZenonT(40)
    <2>3. ASSUME NEW r \in done, NEW t \in r.ok \ doubted PROVE cache'[r.ext][t] >= r.n
        <3>1. r.ext \in Extent /\ r.n \in Nat /\ t \in Slab /\ cache[r.ext][t] >= r.n
            OBVIOUS
        <3>2. CASE r.ext = wr[w].ext /\ t = s
            <4>1. last[r.ext] < wr[w].n /\ r.n <= last[r.ext] /\ last[r.ext] \in Nat
                BY <2>1, <3>1, <3>2
            <4>2. QED
                BY <2>1, <3>1, <3>2, <4>1
        <3>3. CASE ~(r.ext = wr[w].ext /\ t = s)
            BY <2>1, <3>1, <3>3
        <3>4. QED
            BY <3>2, <3>3
    <2>4. LandedStays'
        BY <2>3
    <2>5. QED
        BY <2>2, <2>4
<1>4. ASSUME NEW w \in Writer, NEW s \in Slab, LegFails(w, s) PROVE LandedInv'
    <2> USE <1>4 DEF LegFails, Spend
    <2>1. wr[w] \in Landing /\ wr[w].n \in Nat /\ wr[w].ext \in Extent
        OBVIOUS
    <2>2. TargetsMapped'
        BY <2>1, ZenonT(60)
    <2>3. ASSUME NEW r \in done, NEW t \in r.ok \ doubted PROVE cache'[r.ext][t] >= r.n
        <3>1. r.ext \in Extent /\ r.n \in Nat /\ t \in Slab /\ cache[r.ext][t] >= r.n
            OBVIOUS
        <3>2. CASE r.ext = wr[w].ext /\ t = s
            <4>1. last[r.ext] < wr[w].n /\ r.n <= last[r.ext] /\ last[r.ext] \in Nat
                BY <2>1, <3>1, <3>2
            <4>2. QED
                BY <2>1, <3>1, <3>2, <4>1
        <3>3. CASE ~(r.ext = wr[w].ext /\ t = s)
            BY <2>1, <3>1, <3>3
        <3>4. QED
            BY <3>2, <3>3
    <2>4. LandedStays'
        BY <2>3
    <2>5. QED
        BY <2>2, <2>4
<1>5. ASSUME NEW w \in Writer, EndWrite(w) PROVE LandedInv'
    <2> USE <1>5 DEF EndWrite, MarkFailed
    <2>1. wr[w] \in Landing /\ Marked(w) \subseteq Slab
        BY DEF Marked
    <2>2. failed' \subseteq doubted' /\ OldIsDoubted'
        OBVIOUS
    <2>3. TargetsMapped'
        BY <2>1, SMTT(40)
    <2>4. legs[wr[w].ext] \subseteq legs'[wr[w].ext] /\ wr[w].ok \subseteq legs'[wr[w].ext]
        BY <2>1
    <2>5. \A e \in Extent : legs[e] \subseteq legs'[e]
        BY <2>1, <2>4
    <2>6. \A r \in done' \ done : r.ok = wr[w].ok /\ r.ext = wr[w].ext /\ r.n = wr[w].n
        OBVIOUS
    <2>7. LandedStays'
        BY <2>1, <2>4, <2>5, <2>6, ZenonT(60)
    <2>8. QED
        BY <2>2, <2>3, <2>7
<1>6. ASSUME NEW w \in Writer, DropWrite(w) PROVE LandedInv'
    BY <1>6 DEF DropWrite, Spend
<1>7. ASSUME NEW e \in Extent, NEW s \in Slab, ReadFails(e, s) PROVE LandedInv'
    BY <1>7 DEF ReadFails, Spend, MarkFailed, UsableLegs
<1>8. ASSUME NEW f \in Flusher, StartFlush(f) PROVE LandedInv'
    BY <1>8 DEF StartFlush, Spend
<1>9. ASSUME NEW f \in Flusher, CheckSynced(f) PROVE LandedInv'
    BY <1>9 DEF CheckSynced
<1>10. ASSUME NEW f \in Flusher, ListSlabs(f) PROVE LandedInv'
    BY <1>10 DEF ListSlabs
<1>11. ASSUME NEW f \in Flusher, NEW s \in Slab, SkipSlab(f, s) PROVE LandedInv'
    BY <1>11 DEF SkipSlab
<1>12. ASSUME NEW f \in Flusher, NEW s \in Slab, SyncSlab(f, s) PROVE LandedInv'
    BY <1>12 DEF SyncSlab
<1>13. ASSUME NEW f \in Flusher, NEW s \in Slab, SyncFails(f, s) PROVE LandedInv'
    BY <1>13 DEF SyncFails, Spend, MarkFailed
<1>14. ASSUME NEW f \in Flusher, EndFlush(f) PROVE LandedInv'
    BY <1>14 DEF EndFlush
<1>15. ASSUME NEW e \in Extent, ResyncExtent(e) PROVE LandedInv'
    <2> USE <1>15 DEF ResyncExtent, Spend
    <2>1. PICK old \in {{}} \union {{o} : o \in legs[e] \intersect failed} :
                rs'.old = old /\ rs'.pc = "copy"
        OBVIOUS
    <2>2. rs'.old \subseteq failed
        BY <2>1 DEF UsableLegs
    <2>3. OldIsDoubted'
        BY <2>2
    <2>4. QED
        BY <2>3
<1>16. CASE ResyncLand
    BY <1>16, ZenonT(60) DEF ResyncLand
<1>17. CASE ResyncFails
    BY <1>17 DEF ResyncFails, Spend, MarkFailed
<1>18. CASE ResyncPublish
    <2>1. rs \in Copying
        BY <1>18 DEF ResyncPublish
    <2>2. \A e \in Extent : e # rs.ext => legs'[e] = legs[e]
        BY <1>18 DEF ResyncPublish
    <2>3. UNCHANGED wr /\ \A w \in Active : wr[w].ext # rs.ext /\ wr[w].ext \in Extent
        BY <1>18 DEF ResyncPublish
    <2>4. TargetsMapped'
        BY <2>2, <2>3
    <2>5. LandedStays'
        BY <1>18, <2>1 DEF ResyncPublish
    <2>6. QED
        BY <1>18, <2>4, <2>5 DEF ResyncPublish
<1>19. CASE ResyncUsed
    BY <1>19 DEF ResyncUsed, Spend
<1>20. CASE ResyncForgive
    BY <1>20 DEF ResyncForgive
<1>21. CASE ClearFailedLegs
    BY <1>21 DEF ClearFailedLegs, Spend
<1>22. ASSUME NEW s \in Slab, DistrustRead(s) PROVE LandedInv'
    BY <1>22 DEF DistrustRead, Spend
<1>23. CASE DistrustSet
    BY <1>23 DEF DistrustSet
<1>24. ASSUME NEW w \in Writer, NEW s \in Slab, LegRefuses(w, s) PROVE LandedInv'
    <2>1. wr[w] \in Landing /\ wr' = [wr EXCEPT ![w].todo = @ \ {s}]
        BY <1>24 DEF LegRefuses
    <2>2. UNCHANGED <<legs, failed, cache, rs, done, doubted>>
        BY <1>24 DEF LegRefuses
    <2>3. \A v \in Writer : /\ wr'[v].pc = wr[v].pc
                            /\ wr[v].pc = "landing" => /\ wr'[v].ext = wr[v].ext
                                                        /\ wr'[v].ok = wr[v].ok
                                                        /\ wr'[v].todo \subseteq wr[v].todo
        BY <2>1
    <2>4. TargetsMapped'
        BY <2>2, <2>3, ZenonT(60)
    <2>5. QED
        BY <2>2, <2>4
<1>25. CASE UNCHANGED vars
    BY <1>25 DEF vars
<1>26. QED
    BY <1>1, <1>2, <1>3, <1>4, <1>5, <1>6, <1>7, <1>8, <1>9, <1>10, <1>11,
       <1>12, <1>13, <1>14, <1>15, <1>16, <1>17, <1>18, <1>19, <1>20, <1>21, <1>22, <1>23, <1>24, <1>25
    DEF Next, Step, WriteStep, FlushStep, ResyncStep

\* What the counters say is on the media is there.
LEMMA CountNext == FlushInv /\ StateOK' /\ [Next]_vars => CountInv'
<1> SUFFICES ASSUME FlushInv, StateOK', [Next]_vars PROVE CountInv'
    OBVIOUS
<1> USE DEF StateOK, Write, FlusherState, Landing, FlushInv, LandedInv, LandedStays,
        CountInv, FlusherInv, OnMedia, Active
<1>1. ASSUME NEW w \in Writer, NEW e \in Extent, StartWrite(w, e) PROVE CountInv'
    BY <1>1 DEF StartWrite, Spend, Targets, UsableLegs, ShardFree
<1>2. ASSUME NEW w \in Writer, NEW e \in Extent, RefuseWrite(w, e) PROVE CountInv'
    BY <1>2 DEF RefuseWrite, Spend, Targets, UsableLegs, ShardFree
<1>3. ASSUME NEW w \in Writer, NEW s \in Slab, LandLeg(w, s) PROVE CountInv'
    BY <1>3 DEF LandLeg
<1>4. ASSUME NEW w \in Writer, NEW s \in Slab, LegFails(w, s) PROVE CountInv'
    BY <1>4 DEF LegFails, Spend
<1>5. ASSUME NEW w \in Writer, EndWrite(w) PROVE CountInv'
    BY <1>5 DEF EndWrite, MarkFailed, Marked
<1>6. ASSUME NEW w \in Writer, DropWrite(w) PROVE CountInv'
    BY <1>6 DEF DropWrite, Spend
<1>7. ASSUME NEW e \in Extent, NEW s \in Slab, ReadFails(e, s) PROVE CountInv'
    BY <1>7 DEF ReadFails, Spend, MarkFailed, UsableLegs
<1>8. ASSUME NEW f \in Flusher, StartFlush(f) PROVE CountInv'
    BY <1>8 DEF StartFlush, Spend
<1>9. ASSUME NEW f \in Flusher, CheckSynced(f) PROVE CountInv'
    <2> USE <1>9 DEF CheckSynced
    <2>1. ASSUME NEW g \in Flusher, g # f PROVE FlusherInv(g)'
        BY <2>1
    <2>2. CASE synced >= fl[f].start
        <3>1. fl' = [fl EXCEPT ![f].pc = "ok"]
            BY <2>2
        <3>2. \A r \in done : r.at <= fl[f].start => r.at <= synced
            BY <2>2
        <3>3. FlusherInv(f)'
            BY <3>1, <3>2
        <3>4. QED
            BY <2>1, <3>3
    <2>3. CASE ~(synced >= fl[f].start)
        <3>1. fl' = [fl EXCEPT ![f].pc = "list"]
            BY <2>3
        <3>2. FlusherInv(f)'
            BY <3>1
        <3>3. QED
            BY <2>1, <3>2
    <2>4. QED
        BY <2>2, <2>3
<1>10. ASSUME NEW f \in Flusher, ListSlabs(f) PROVE CountInv'
    <2> DEFINE S == UNION {legs[e] : e \in Extent}
    <2>1. fl' = [fl EXCEPT ![f].pc = "sync", ![f].todo = S]
          /\ UNCHANGED <<done, doubted, disk, completed, synced>>
        BY <1>10 DEF ListSlabs
    <2>2. \A r \in done : r.ok \ doubted \subseteq S
        OBVIOUS
    <2> HIDE DEF S
    <2>3. fl'[f].pc = "sync" /\ fl'[f].todo = S /\ fl'[f].start = fl[f].start
          /\ fl'[f].owed = fl[f].owed
        BY <2>1
    <2>4. FlusherInv(f)'
        BY <2>1, <2>2, <2>3
    <2>5. ASSUME NEW g \in Flusher, g # f PROVE FlusherInv(g)'
        BY <2>1, <2>5, ZenonT(60)
    <2>6. QED
        BY <2>1, <2>4, <2>5
<1>11. ASSUME NEW f \in Flusher, NEW s \in Slab, SkipSlab(f, s) PROVE CountInv'
    <2>1. /\ fl' = [fl EXCEPT ![f].todo = @ \ {s}] /\ s \in failed
          /\ UNCHANGED <<failed, disk, completed, synced, done, doubted>>
        BY <1>11 DEF SkipSlab
    <2>2. fl'[f].pc = fl[f].pc /\ fl'[f].start = fl[f].start /\ fl'[f].owed = fl[f].owed
        BY <2>1
    <2>3. fl'[f].todo = fl[f].todo \ {s} /\ s \in doubted
        BY <2>1
    <2>4. FlusherInv(f)'
        BY <2>1, <2>2, <2>3
    <2>5. ASSUME NEW g \in Flusher, g # f PROVE FlusherInv(g)'
        BY <2>1, <2>5
    <2>6. \A g \in Flusher : FlusherInv(g)'
        BY <2>4, <2>5
    <2>7. QED
        BY <2>1, <2>6 DEF CountInv, OnMedia
<1>12. ASSUME NEW f \in Flusher, NEW s \in Slab, SyncSlab(f, s) PROVE CountInv'
    <2>1. /\ fl' = [fl EXCEPT ![f].todo = @ \ {s}]
          /\ UNCHANGED <<completed, synced, done, doubted>>
        BY <1>12 DEF SyncSlab
    <2>2. \A e \in Extent : disk'[e][s] = cache[e][s] /\ \A q \in Slab : q # s => disk'[e][q] = disk[e][q]
        BY <1>12 DEF SyncSlab
    <2>3. \A r \in done : r.n \in Nat /\ r.ext \in Extent /\ r.ok \in SUBSET Slab
        OBVIOUS
    <2>4. \A r \in done : \A q \in r.ok \ doubted : (OnMedia(r, q) \/ q = s) => OnMedia(r, q)'
        BY <2>2, <2>3
    <2>5. \A g \in Flusher : FlusherInv(g)'
        <3> SUFFICES ASSUME NEW g \in Flusher PROVE FlusherInv(g)'
            OBVIOUS
        <3>1. fl'[g].pc = fl[g].pc /\ fl'[g].start = fl[g].start /\ fl'[g].owed = fl[g].owed
            BY <2>1
        <3>2. fl[g].todo \subseteq fl'[g].todo \union {s}
            BY <2>1
        <3>3. FlusherInv(g)
            OBVIOUS
        <3> HIDE DEF OnMedia
        <3>4. QED
            BY <2>1, <2>4, <3>1, <3>2, <3>3
    <2> HIDE DEF OnMedia
    <2>6. QED
        BY <2>1, <2>4, <2>5
<1>13. ASSUME NEW f \in Flusher, NEW s \in Slab, SyncFails(f, s) PROVE CountInv'
    <2> USE <1>13 DEF SyncFails, Spend, MarkFailed
    <2>1. ASSUME NEW g \in Flusher, g # f PROVE FlusherInv(g)'
        BY <2>1
    <2>2. CASE fl' = [fl EXCEPT ![f].todo = @ \ {s}, ![f].lost = TRUE] /\ MarkFailed({s})
        <3>1. fl' = [fl EXCEPT ![f].todo = @ \ {s}, ![f].lost = TRUE]
              /\ doubted' = doubted \union {s}
            BY <2>2
        <3>2. fl'[f].pc = "sync" /\ fl'[f].todo = fl[f].todo \ {s} /\ fl'[f].start = fl[f].start
              /\ fl'[f].owed = fl[f].owed
            BY <3>1
        <3>3. FlusherInv(f)'
            BY <3>1, <3>2
        <3>4. QED
            BY <2>1, <3>1, <3>3
    <2>3. CASE fl' = [fl EXCEPT ![f].pc = "err"] /\ UNCHANGED <<failed, doubted>>
        <3>1. fl' = [fl EXCEPT ![f].pc = "err"] /\ doubted' = doubted
            BY <2>3
        <3>2. FlusherInv(f)'
            BY <3>1
        <3>3. QED
            BY <2>1, <3>1, <3>2
    <2>4. QED
        BY <2>2, <2>3
<1>14. ASSUME NEW f \in Flusher, EndFlush(f) PROVE CountInv'
    <2> USE <1>14 DEF EndFlush
    <2>1. \A r \in done : r.at <= fl[f].start => \A s \in r.ok \ doubted : OnMedia(r, s)
        OBVIOUS
    <2>2. synced' \in {synced, fl[f].start}
        OBVIOUS
    <2>3. \A r \in done : r.at <= synced' => \A s \in r.ok \ doubted : OnMedia(r, s)
        BY <2>1, <2>2
    <2>4. ASSUME NEW g \in Flusher, g # f PROVE FlusherInv(g)'
        BY <2>4
    <2>5. fl'[f].pc \in {"ok", "err"} /\ fl'[f].start = fl[f].start /\ fl'[f].owed = fl[f].owed
        OBVIOUS
    <2>6. FlusherInv(f)'
        BY <2>1, <2>5
    <2>7. QED
        BY <2>3, <2>4, <2>6
<1>15. ASSUME NEW e \in Extent, ResyncExtent(e) PROVE CountInv'
    BY <1>15 DEF ResyncExtent, Spend, UsableLegs, ShardFree
<1>16. CASE ResyncLand
    BY <1>16 DEF ResyncLand
<1>17. CASE ResyncFails
    BY <1>17 DEF ResyncFails, Spend, MarkFailed
<1>18. CASE ResyncPublish
    BY <1>18 DEF ResyncPublish
<1>19. CASE ResyncUsed
    BY <1>19 DEF ResyncUsed, Spend
<1>20. CASE ResyncForgive
    BY <1>20 DEF ResyncForgive
<1>21. CASE ClearFailedLegs
    BY <1>21 DEF ClearFailedLegs, Spend
<1>22. ASSUME NEW s \in Slab, DistrustRead(s) PROVE CountInv'
    BY <1>22 DEF DistrustRead, Spend
<1>23. CASE DistrustSet
    BY <1>23 DEF DistrustSet
<1>24. ASSUME NEW w \in Writer, NEW s \in Slab, LegRefuses(w, s) PROVE CountInv'
    BY <1>24 DEF LegRefuses, Spend
<1>25. CASE UNCHANGED vars
    BY <1>25 DEF vars
<1>26. QED
    BY <1>1, <1>2, <1>3, <1>4, <1>5, <1>6, <1>7, <1>8, <1>9, <1>10, <1>11,
       <1>12, <1>13, <1>14, <1>15, <1>16, <1>17, <1>18, <1>19, <1>20, <1>21, <1>22, <1>23, <1>24, <1>25
    DEF Next, Step, WriteStep, FlushStep, ResyncStep

\* With the failed set left to the volume and its resync, every step keeps the
\* trusted legs current.
LEMMA CurrentNext == StateOK /\ StateOK' /\ ShardInv /\ CurrentInv /\ [Next]_vars => CurrentInv'
<1> SUFFICES ASSUME StateOK, StateOK', ShardInv, CurrentInv, [Next]_vars, Unforced' PROVE Current'
    BY DEF CurrentInv
<1>a. stray = {} /\ \A b \in {"refusals", "clears", "reports"} : spent'[b] = 0
    BY DEF Unforced, Next, vars
<1>b. rs.pc = "forgive" => \A e \in Extent : legs[e] = {} => legs'[e] = legs[e]
    BY DEF Unforced, Next, vars
<1>c. (\A b \in {"refusals", "clears", "reports"} : spent[b] = 0) => Current
    BY <1>a DEF CurrentInv, Unforced
<1> USE <1>a, <1>c DEF StateOK, Landing, Copying, Forgiving, Distrusting, Resting, Event, ShardInv,
        Current, TrustedLegsAreCurrent, UsableLegs, Active, Rebuilding
<1>1. ASSUME NEW w \in Writer, NEW e \in Extent, StartWrite(w, e) PROVE Current'
    BY <1>1 DEF StartWrite, Spend, Targets, UsableLegs, ShardFree
<1>2. ASSUME NEW w \in Writer, NEW e \in Extent, RefuseWrite(w, e) PROVE Current'
    BY <1>2 DEF RefuseWrite, Spend, Targets, UsableLegs, ShardFree
<1>3. ASSUME NEW w \in Writer, NEW s \in Slab, LandLeg(w, s) PROVE Current'
    BY <1>3, SMTT(40) DEF LandLeg
<1>4. ASSUME NEW w \in Writer, NEW s \in Slab, LegFails(w, s) PROVE Current'
    BY <1>4, SMTT(40) DEF LegFails, Spend
<1>5. ASSUME NEW w \in Writer, EndWrite(w) PROVE Current'
    BY <1>5, <1>b DEF EndWrite, MarkFailed, Marked
<1>6. ASSUME NEW w \in Writer, DropWrite(w) PROVE Current'
    BY <1>6 DEF DropWrite, Spend
<1>7. ASSUME NEW e \in Extent, NEW s \in Slab, ReadFails(e, s) PROVE Current'
    BY <1>7 DEF ReadFails, Spend, MarkFailed, UsableLegs
<1>8. ASSUME NEW f \in Flusher, StartFlush(f) PROVE Current'
    BY <1>8 DEF StartFlush, Spend
<1>9. ASSUME NEW f \in Flusher, CheckSynced(f) PROVE Current'
    BY <1>9 DEF CheckSynced
<1>10. ASSUME NEW f \in Flusher, ListSlabs(f) PROVE Current'
    BY <1>10 DEF ListSlabs
<1>11. ASSUME NEW f \in Flusher, NEW s \in Slab, SkipSlab(f, s) PROVE Current'
    BY <1>11 DEF SkipSlab
<1>12. ASSUME NEW f \in Flusher, NEW s \in Slab, SyncSlab(f, s) PROVE Current'
    BY <1>12 DEF SyncSlab
<1>13. ASSUME NEW f \in Flusher, NEW s \in Slab, SyncFails(f, s) PROVE Current'
    BY <1>13 DEF SyncFails, Spend, MarkFailed
<1>14. ASSUME NEW f \in Flusher, EndFlush(f) PROVE Current'
    BY <1>14 DEF EndFlush
<1>15. ASSUME NEW e \in Extent, ResyncExtent(e) PROVE Current'
    BY <1>15 DEF ResyncExtent, Spend, UsableLegs, ShardFree
<1>16. CASE ResyncLand
    BY <1>16 DEF ResyncLand
<1>17. CASE ResyncFails
    BY <1>17 DEF ResyncFails, Spend, MarkFailed
<1>18. CASE ResyncPublish
    BY <1>18 DEF ResyncPublish
<1>19. CASE ResyncUsed
    BY <1>19 DEF ResyncUsed, Spend
<1>20. CASE ResyncForgive
    BY <1>20 DEF ResyncForgive
<1>21. CASE ClearFailedLegs
    BY <1>21 DEF ClearFailedLegs, Spend
<1>22. ASSUME NEW s \in Slab, DistrustRead(s) PROVE Current'
    BY <1>22 DEF DistrustRead, Spend
<1>23. CASE DistrustSet
    BY <1>23 DEF DistrustSet
<1>24. ASSUME NEW w \in Writer, NEW s \in Slab, LegRefuses(w, s) PROVE Current'
    BY <1>24 DEF LegRefuses, Spend
<1>25. CASE UNCHANGED vars
    BY <1>25 DEF vars
<1>26. QED
    BY <1>1, <1>2, <1>3, <1>4, <1>5, <1>6, <1>7, <1>8, <1>9, <1>10, <1>11,
       <1>12, <1>13, <1>14, <1>15, <1>16, <1>17, <1>18, <1>19, <1>20, <1>21, <1>22, <1>23, <1>24, <1>25
    DEF Next, Step, WriteStep, FlushStep, ResyncStep

\* The volume starts with nothing written and every slab trusted.
LEMMA InitFlushInv == Init => FlushInv
<1> SUFFICES ASSUME Init PROVE FlushInv
    OBVIOUS
<1> USE DEF Init, Resting
<1>1. StateOK
    BY DEF StateOK, FlusherState, Landing, Copying, Forgiving, Distrusting, Event
<1>2. ShardInv
    BY DEF ShardInv, Active, Rebuilding, Event
<1>3. LandedInv /\ CountInv
    BY DEF LandedInv, OldIsDoubted, TargetsMapped, LandedStays, CountInv, FlusherInv, Active,
           Rebuilding
<1>4. QED
    BY <1>1, <1>2, <1>3 DEF FlushInv

\* At the start every leg is empty and nothing has been answered.
LEMMA InitTrustInv == Init => TrustInv
<1> SUFFICES ASSUME Init PROVE TrustInv
    OBVIOUS
<1>1. StateOK /\ ShardInv
    BY InitFlushInv DEF FlushInv
<1>2. CurrentInv
    BY DEF Init, Resting, CurrentInv, Current, TrustedLegsAreCurrent, UsableLegs, Active, Rebuilding
<1>3. QED
    BY <1>1, <1>2 DEF TrustInv

\* Types, for every value of the constants: the flush counter never passes the
\* count of finished writes.
THEOREM Typed == Spec => []TypeOK
<1>1. Init => TypeOK
    BY InitFlushInv DEF FlushInv, TypeOK, Init
<1>2. TypeOK /\ [Next]_vars => TypeOK'
    BY StateNext DEF TypeOK, Next, vars
<1>3. QED
    BY <1>1, <1>2, PTL DEF Spec

\* The FLUSH promise of the counters: whatever fails, is dropped, rebuilt,
\* cleared or reported, a flush that answers Ok left every write it owes on the
\* media of every leg that took it and was never distrusted.
THEOREM MediaIsReached == Spec => []FlushReachesMedia
<1>1. FlushInv /\ [Next]_vars => FlushInv'
    BY StateNext, ShardNext, LandedNext, CountNext DEF FlushInv
<1>2. FlushInv => FlushReachesMedia
    <2> SUFFICES ASSUME FlushInv, NEW f \in Flusher, fl[f].pc = "ok", NEW r \in fl[f].owed,
                        NEW s \in r.ok \ doubted
                 PROVE disk[r.ext][s] >= r.n
        BY DEF FlushReachesMedia
    <2>1. QED
        BY DEF FlushInv, CountInv, FlusherInv, OnMedia
<1>3. QED
    BY InitFlushInv, <1>1, <1>2, PTL DEF Spec

\* "Marked failed so nothing reads it again" (write_legs): whatever fails, is
\* dropped or rebuilt, a read is never answered from a leg that missed an
\* answered write, unless a device refused a leg's write for a reason other than
\* its media, somebody cleared the failed set, a report overwrote it, or an
\* extent was mapped while a resync forgave.
THEOREM ReadsAreCurrent == Spec => []CurrentUnlessForced
<1>1. TrustInv /\ [Next]_vars => TrustInv'
    BY StateNext, ShardNext, CurrentNext DEF TrustInv
<1>2. TrustInv => CurrentUnlessForced
    BY DEF TrustInv, CurrentInv, Current, CurrentUnlessForced
<1>3. QED
    BY InitTrustInv, <1>1, <1>2, PTL DEF Spec


\* More slabs count for more, and one more for at most one more.
LEMMA SlabCounts ==
    /\ \A S \in SUBSET Slab : Cardinality(S) \in Nat
    /\ \A T \in SUBSET Slab : \A S \in SUBSET T : Cardinality(S) <= Cardinality(T)
    /\ \A S \in SUBSET Slab : \A s \in Slab : Cardinality(S \union {s}) <= Cardinality(S) + 1
    /\ \A S \in SUBSET Slab : S # {} => Cardinality(S) >= 1
<1>1. ASSUME NEW S \in SUBSET Slab PROVE IsFiniteSet(S) /\ Cardinality(S) \in Nat
    BY SlabAssumption, FS_Subset, FS_CardinalityType
<1>2. ASSUME NEW T \in SUBSET Slab, NEW S \in SUBSET T PROVE Cardinality(S) <= Cardinality(T)
    BY <1>1, FS_Subset
<1>3. ASSUME NEW S \in SUBSET Slab, NEW s \in Slab PROVE Cardinality(S \union {s}) <= Cardinality(S) + 1
    BY <1>1, FS_AddElement
<1>4. ASSUME NEW S \in SUBSET Slab, S # {} PROVE Cardinality(S) >= 1
    BY <1>1, <1>4, FS_EmptySet
<1>5. QED
    BY <1>1, <1>2, <1>3, <1>4

\* What a step may do to the legs, the writes and the distrusted slabs.
LEMMA SpreadKept ==
    ASSUME StateOK, StateOK', Spread, doubted \subseteq doubted',
           \/ \A s \in Suspect' : s \in Suspect
           \/ \E x \in Slab : (\A s \in Suspect' : s \in Suspect \/ s = x) /\ spent'["faults"] = spent["faults"] + 1,
           spent'["faults"] >= spent["faults"],
           \A e \in Extent : \/ legs'[e] = {}
                             \/ legs[e] # {} /\ \A s \in legs[e] : s \in legs'[e] \/ s \in doubted'
                             \/ Cardinality(legs'[e] \union doubted') >= Copies,
           \A r \in done' : r \in done \/ Cardinality(r.ok \union doubted') >= Copies,
           \A w \in Active' : \/ w \in Active /\ \A s \in Goes(w) : s \in Goes(w)' \/ s \in doubted'
                              \/ Cardinality(Goes(w)' \union doubted') >= Copies
    PROVE  Spread'
<1>1. /\ doubted \in SUBSET Slab /\ doubted' \in SUBSET Slab /\ Copies \in Nat
      /\ spent["faults"] \in Nat /\ spent'["faults"] \in Nat
      /\ \A e \in Extent : legs[e] \in SUBSET Slab /\ legs'[e] \in SUBSET Slab
      /\ \A r \in done : r.ok \in SUBSET Slab
    BY CopiesAssumption DEF StateOK, Event, Write
<1>2. /\ \A w \in Active : wr[w].bad \in SUBSET Slab /\ Goes(w) \in SUBSET Slab
      /\ \A w \in Active' : wr'[w].bad \in SUBSET Slab /\ Goes(w)' \in SUBSET Slab
    BY DEF StateOK, Active, Goes, Landing, Resting
<1>3. Suspect \in SUBSET Slab /\ Suspect' \in SUBSET Slab
    BY <1>1, <1>2 DEF Suspect
<1>4. Cardinality(Suspect') <= spent'["faults"]
    <2>1. CASE \A s \in Suspect' : s \in Suspect
        <3>1. Suspect' \in SUBSET Suspect
            BY <2>1
        <3>2. QED
            BY <1>1, <1>3, <3>1, SlabCounts DEF Spread
    <2>2. ASSUME NEW x \in Slab, \A s \in Suspect' : s \in Suspect \/ s = x, spent'["faults"] = spent["faults"] + 1
          PROVE  Cardinality(Suspect') <= spent'["faults"]
        <3>1. Suspect' \in SUBSET (Suspect \union {x}) /\ Suspect \union {x} \in SUBSET Slab
            BY <1>3, <2>2
        <3>2. Cardinality(Suspect') <= Cardinality(Suspect \union {x})
            BY <3>1, SlabCounts
        <3>3. Cardinality(Suspect \union {x}) <= Cardinality(Suspect) + 1
            BY <1>3, SlabCounts
        <3>4. Cardinality(Suspect) \in Nat /\ Cardinality(Suspect') \in Nat /\ Cardinality(Suspect \union {x}) \in Nat
            BY <1>3, <3>1, SlabCounts
        <3>5. QED
            BY <1>1, <2>2, <3>2, <3>3, <3>4 DEF Spread
    <2>3. QED
        BY <2>1, <2>2
<1>5. ASSUME NEW S \in SUBSET Slab, NEW T \in SUBSET Slab, Cardinality(S \union doubted) >= Copies,
             \A s \in S : s \in T \/ s \in doubted'
      PROVE  Cardinality(T \union doubted') >= Copies
    <2>1. S \union doubted \in SUBSET (T \union doubted') /\ T \union doubted' \in SUBSET Slab
        BY <1>1, <1>5
    <2>2. /\ Cardinality(S \union doubted) <= Cardinality(T \union doubted')
          /\ Cardinality(T \union doubted') \in Nat /\ Cardinality(S \union doubted) \in Nat
        BY <1>1, <2>1, SlabCounts
    <2>3. QED
        BY <1>1, <1>5, <2>2
<1>6. ASSUME NEW e \in Extent, legs'[e] # {} PROVE Cardinality(legs'[e] \union doubted') >= Copies
    BY <1>1, <1>5, <1>6 DEF Spread, Enough
<1>7. ASSUME NEW r \in done' PROVE Cardinality(r.ok \union doubted') >= Copies
    BY <1>1, <1>5, <1>7 DEF Spread, Enough
<1>8. ASSUME NEW w \in Active' PROVE Cardinality(Goes(w)' \union doubted') >= Copies
    BY <1>2, <1>5, <1>8 DEF Spread, Enough
<1>9. QED
    BY <1>4, <1>6, <1>7, <1>8 DEF Spread, Enough

\* With the failed set left to the volume and its resync, a fault costs an
\* extent one leg at most.
LEMMA SpreadNext ==
    ASSUME StateOK, StateOK', ShardInv, LandedInv, CurrentInv, SpreadInv, [Next]_vars
    PROVE  SpreadInv'
<1> SUFFICES ASSUME Unforced' PROVE Spread'
    BY DEF SpreadInv
<1>1. (\A b \in Event : spent'[b] \in Nat /\ spent[b] \in Nat) /\ Copies \in Nat \ {0}
    BY CopiesAssumption DEF StateOK
<1>2. stray = {} /\ \A b \in {"refusals", "clears", "reports"} : spent'[b] = 0
    BY DEF Unforced, Next, vars
<1>3. \A b \in Event : spent[b] <= spent'[b]
    <2>1. spent' = spent \/ \E b \in Event : spent' = [spent EXCEPT ![b] = @ + 1]
        BY ZenonT(60) DEF Next, Step, WriteStep, FlushStep, ResyncStep, StartWrite, RefuseWrite, LandLeg, LegFails, LegRefuses,
           EndWrite, DropWrite, StartFlush, CheckSynced, ListSlabs, EndFlush, SkipSlab, SyncSlab, SyncFails,
           ResyncExtent, ResyncLand, ResyncFails, ResyncPublish, ResyncUsed, ResyncForgive, ReadFails,
           ClearFailedLegs, DistrustRead, DistrustSet, vars, Spend, Event
    <2>2. QED
        BY <1>1, <2>1, SMTT(40) DEF StateOK
<1>4. Unforced
    BY <1>1, <1>2, <1>3 DEF Unforced, Event
<1>5. Spread /\ ds = Resting /\ failed \subseteq doubted
    BY <1>4 DEF SpreadInv, CurrentInv, Current, LandedInv
<1>6. spent'["faults"] >= spent["faults"]
    BY <1>1, <1>3 DEF Event
<1>7. /\ legs \in [Extent -> SUBSET Slab] /\ wr \in [Writer -> Landing \union {Resting}]
      /\ spent \in [Event -> Nat] /\ failed \in SUBSET Slab /\ doubted \in SUBSET Slab
      /\ doubted' \in SUBSET Slab
    BY DEF StateOK
<1> USE DEF Active, Goes, Suspect
<1>8. ASSUME NEW w \in Writer, NEW e \in Extent, StartWrite(w, e) PROVE Spread'
    <2>1. PICK S \in Targets(e) \ {{}} :
              wr' = [wr EXCEPT ![w] = [pc |-> "landing", ext |-> e, n |-> spent["writes"] + 1,
                                       todo |-> S, ok |-> {}, bad |-> {}]]
        BY <1>8 DEF StartWrite
    <2>2. UNCHANGED <<legs, doubted, done>> /\ wr[w].pc = "idle"
        BY <1>8 DEF StartWrite
    <2>3. Cardinality(S \union doubted) >= Copies /\ S \in SUBSET Slab
        <3>1. CASE legs[e] # {}
            <4>1. S = legs[e] \ failed
                BY <2>1, <3>1 DEF Targets, UsableLegs
            <4>2. legs[e] \union doubted = S \union doubted /\ S \in SUBSET Slab
                BY <1>5, <1>7, <4>1
            <4>3. QED
                BY <1>5, <3>1, <4>2 DEF Spread, Enough
        <3>2. CASE legs[e] = {}
            <4>1. S \in SUBSET Slab /\ Cardinality(S) = Copies
                BY <2>1, <3>2 DEF Targets
            <4>2. S \in SUBSET (S \union doubted) /\ S \union doubted \in SUBSET Slab
                BY <1>7, <4>1
            <4>3. Cardinality(S) <= Cardinality(S \union doubted) /\ Cardinality(S \union doubted) \in Nat
                BY <4>2, SlabCounts
            <4>4. QED
                BY <1>1, <4>1, <4>3
        <3>3. QED
            BY <3>1, <3>2
    <2>4. \A v \in Writer : IF v = w THEN wr'[v].todo = S /\ wr'[v].ok = {} /\ wr'[v].bad = {}
                            ELSE wr'[v] = wr[v]
        BY <1>7, <2>1
    <2>5. \A s \in Suspect' : s \in Suspect
        BY <2>2, <2>4
    <2>6. Goes(w)' = S
        BY <2>4
    <2>7. \A v \in Active' : \/ v \in Active /\ \A s \in Goes(v) : s \in Goes(v)' \/ s \in doubted'
                             \/ Cardinality(Goes(v)' \union doubted') >= Copies
        BY <2>2, <2>3, <2>4, <2>6
    <2>8. QED
        BY <1>5, <1>6, <2>2, <2>5, <2>7, SpreadKept
<1>9. ASSUME NEW w \in Writer, NEW s \in Slab, LandLeg(w, s) PROVE Spread'
    <2>1. /\ UNCHANGED <<legs, doubted, done>> /\ wr[w] \in Landing
          /\ wr' = [wr EXCEPT ![w].todo = @ \ {s}, ![w].ok = @ \union {s}]
        BY <1>7, <1>9 DEF LandLeg, Resting
    <2>2. \A v \in Writer : /\ v # w => wr'[v] = wr[v]
                            /\ v = w => /\ wr'[v].todo = wr[v].todo \ {s} /\ wr'[v].ok = wr[v].ok \union {s}
                                        /\ wr'[v].bad = wr[v].bad /\ wr'[v].pc = wr[v].pc
        BY <1>7, <2>1 DEF Landing
    <2>3. \A x \in Suspect' : x \in Suspect
        <3>1. \A v \in Writer : wr'[v].pc = wr[v].pc /\ wr'[v].bad = wr[v].bad
            BY <2>2
        <3>2. QED
            BY <2>1, <3>1
    <2>4. \A v \in Active' : v \in Active /\ \A x \in Goes(v) : x \in Goes(v)'
        BY <2>2
    <2>5. QED
        BY <1>5, <1>6, <2>1, <2>3, <2>4, SpreadKept
<1>10. ASSUME NEW w \in Writer, NEW s \in Slab, LegFails(w, s) PROVE Spread'
    <2>1. /\ UNCHANGED <<legs, doubted, done>> /\ wr[w] \in Landing
          /\ wr' = [wr EXCEPT ![w].todo = @ \ {s}, ![w].bad = @ \union {s}]
          /\ spent' = [spent EXCEPT !["faults"] = @ + 1]
        BY <1>7, <1>10 DEF LegFails, Resting, Spend
    <2>2. \A v \in Writer : /\ v # w => wr'[v] = wr[v]
                            /\ v = w => /\ wr'[v].todo = wr[v].todo \ {s} /\ wr'[v].bad = wr[v].bad \union {s}
                                        /\ wr'[v].ok = wr[v].ok /\ wr'[v].pc = wr[v].pc
        BY <1>7, <2>1 DEF Landing
    <2>3. \A x \in Suspect' : x \in Suspect \/ x = s
        <3>1. \A v \in Writer : wr'[v].pc = wr[v].pc /\ \A x \in wr'[v].bad : x \in wr[v].bad \/ x = s
            BY <2>2
        <3>2. ASSUME NEW x \in Suspect', x \notin doubted PROVE x \in Suspect \/ x = s
            <4>1. PICK v \in Active' : x \in wr'[v].bad
                BY <2>1, <3>2
            <4>2. v \in Active /\ (x \in wr[v].bad \/ x = s)
                BY <3>1, <4>1
            <4>3. QED
                BY <4>2
        <3>3. QED
            BY <3>2
    <2>4. \A v \in Active' : v \in Active /\ \A x \in Goes(v) : x \in Goes(v)'
        BY <2>2
    <2>5. spent'["faults"] = spent["faults"] + 1
        BY <1>7, <2>1 DEF Event
    <2>6. QED
        BY <1>5, <1>6, <2>1, <2>3, <2>4, <2>5, SpreadKept
<1>11. ASSUME NEW w \in Writer, EndWrite(w) PROVE Spread'
    <2> DEFINE e == wr[w].ext
    <2>1. /\ wr[w] \in Landing /\ wr[w].todo = {} /\ wr' = [wr EXCEPT ![w] = Resting]
          /\ legs' = [legs EXCEPT ![e] = IF @ = {} THEN wr[w].ok ELSE @]
          /\ doubted' = doubted \union Marked(w)
          /\ done' = IF wr[w].ok = {} THEN done
                     ELSE done \union {[n |-> wr[w].n, ext |-> e, ok |-> wr[w].ok, at |-> completed + 1]}
          /\ w \in Active
        BY <1>7, <1>11 DEF EndWrite, MarkFailed, Resting
    <2>2. wr[w].ok \in SUBSET Slab /\ wr[w].bad \in SUBSET Slab /\ e \in Extent /\ Marked(w) \subseteq wr[w].bad
        BY <2>1 DEF Landing, Marked
    <2>3. wr[w].ok # {} => Cardinality(wr[w].ok \union doubted') >= Copies
        <3>1. CASE Marked(w) = wr[w].bad
            <4>1. Goes(w) \union doubted = wr[w].ok \union doubted'
                BY <2>1, <3>1
            <4>2. QED
                BY <1>5, <2>1, <4>1 DEF Spread, Enough
        <3>2. CASE Marked(w) # wr[w].bad
            <4>1. Copies = 1
                BY <1>1, <3>2 DEF Marked, Redundant
            <4>2. wr[w].ok # {} => Cardinality(wr[w].ok \union doubted') >= 1
                BY <1>7, <2>2, SlabCounts
            <4>3. QED
                BY <4>1, <4>2
        <3>3. QED
            BY <3>1, <3>2
    <2>4. \A v \in Writer : /\ v # w => wr'[v] = wr[v]
                            /\ v = w => wr'[v].pc = "idle"
        BY <1>7, <2>1 DEF Resting
    <2>5. \A x \in Suspect' : x \in Suspect
        BY <2>1, <2>2, <2>4
    <2>6. \A v \in Active' : v \in Active /\ \A x \in Goes(v) : x \in Goes(v)'
        BY <2>4
    <2>7. \A x \in Extent : \/ legs'[x] = {}
                            \/ legs[x] # {} /\ \A s \in legs[x] : s \in legs'[x] \/ s \in doubted'
                            \/ Cardinality(legs'[x] \union doubted') >= Copies
        BY <1>7, <2>1, <2>2, <2>3
    <2>8. \A r \in done' : r \in done \/ Cardinality(r.ok \union doubted') >= Copies
        <3>1. \A r \in done' : r \in done \/ (r.ok = wr[w].ok /\ wr[w].ok # {})
            BY <2>1
        <3>2. QED
            BY <2>3, <3>1
    <2>9. QED
        BY <1>5, <1>6, <2>1, <2>5, <2>6, <2>7, <2>8, SpreadKept
<1>12. ASSUME NEW w \in Writer, DropWrite(w) PROVE Spread'
    <2>1. UNCHANGED <<legs, doubted, done>> /\ wr' = [wr EXCEPT ![w] = Resting]
        BY <1>12 DEF DropWrite
    <2>2. \A v \in Writer : (v # w => wr'[v] = wr[v]) /\ (v = w => wr'[v].pc = "idle")
        BY <1>7, <2>1 DEF Resting
    <2>3. \A x \in Suspect' : x \in Suspect
        BY <2>1, <2>2
    <2>4. \A v \in Active' : v \in Active /\ \A x \in Goes(v) : x \in Goes(v)'
        BY <2>2
    <2>5. QED
        BY <1>5, <1>6, <2>1, <2>3, <2>4, SpreadKept
<1>13. ASSUME UNCHANGED <<wr, legs, done>>,
              \/ doubted' = doubted
              \/ \E s \in Slab : doubted' = doubted \union {s} /\ spent' = [spent EXCEPT !["faults"] = @ + 1]
       PROVE  Spread'
    <2>1. \A v \in Active' : v \in Active /\ \A x \in Goes(v) : x \in Goes(v)'
        BY <1>13
    <2>2. CASE doubted' = doubted
        <3>1. \A x \in Suspect' : x \in Suspect
            BY <1>13, <2>2
        <3>2. QED
            BY <1>5, <1>6, <1>13, <2>1, <2>2, <3>1, SpreadKept
    <2>3. ASSUME NEW s \in Slab, doubted' = doubted \union {s}, spent' = [spent EXCEPT !["faults"] = @ + 1]
          PROVE  Spread'
        <3>1. (\A x \in Suspect' : x \in Suspect \/ x = s) /\ doubted \subseteq doubted'
            BY <1>13, <2>3
        <3>2. spent'["faults"] = spent["faults"] + 1
            BY <1>7, <2>3 DEF Event
        <3>3. QED
            BY <1>5, <1>6, <1>13, <2>1, <3>1, <3>2, SpreadKept
    <2>4. QED
        BY <1>13, <2>2, <2>3
<1>14. CASE \E f \in Flusher : \/ StartFlush(f) \/ CheckSynced(f) \/ ListSlabs(f) \/ EndFlush(f)
                               \/ \E s \in Slab : SkipSlab(f, s) \/ SyncSlab(f, s) \/ SyncFails(f, s)
    BY <1>13, <1>14, ZenonT(40) DEF StartFlush, CheckSynced, ListSlabs, EndFlush, SkipSlab, SyncSlab, SyncFails, MarkFailed, Spend
<1>15. CASE (\E e \in Extent : ResyncExtent(e)) \/ ResyncLand \/ ResyncUsed \/ ResyncForgive
    BY <1>13, <1>15 DEF ResyncExtent, ResyncLand, ResyncUsed, ResyncForgive
<1>16. CASE ResyncFails
    <2>1. rs.new \in Slab
        BY <1>16 DEF ResyncFails, StateOK, Copying, Forgiving, Resting
    <2>2. QED
        BY <1>13, <1>16, <2>1 DEF ResyncFails, MarkFailed, Spend
<1>17. CASE ResyncPublish
    <2>1. UNCHANGED <<wr, done, doubted>> /\ legs' = [legs EXCEPT ![rs.ext] = (@ \ rs.old) \union {rs.new}]
        BY <1>17 DEF ResyncPublish
    <2>2. rs.old \subseteq doubted /\ rs.ext \in Extent
        BY <1>17 DEF ResyncPublish, LandedInv, OldIsDoubted, Rebuilding, StateOK, Copying, Forgiving, Resting
    <2>3. legs[rs.ext] # {}
        BY <1>17 DEF ResyncPublish, ShardInv, Rebuilding
    <2>4. \A e \in Extent : legs'[e] = {} \/ (legs[e] # {} /\ \A s \in legs[e] : s \in legs'[e] \/ s \in doubted')
        BY <1>7, <2>1, <2>2, <2>3
    <2>5. (\A x \in Suspect' : x \in Suspect) /\ \A v \in Active' : v \in Active /\ \A x \in Goes(v) : x \in Goes(v)'
        BY <2>1
    <2>6. QED
        BY <1>5, <1>6, <2>1, <2>4, <2>5, SpreadKept
<1>18. CASE \E e \in Extent, s \in Slab : ReadFails(e, s)
    BY <1>13, <1>18 DEF ReadFails, MarkFailed, Spend
<1>19. CASE (\E w \in Writer, e \in Extent : RefuseWrite(w, e)) \/ UNCHANGED vars
    BY <1>13, <1>19 DEF RefuseWrite, vars
<1>20. ~ClearFailedLegs /\ ~DistrustSet /\ (\A s \in Slab : ~DistrustRead(s))
       /\ (\A w \in Writer, s \in Slab : ~LegRefuses(w, s))
    <2>1. \A b \in {"refusals", "clears", "reports"} : spent' # [spent EXCEPT ![b] = @ + 1]
        BY <1>1, <1>2, <1>7 DEF Event
    <2>2. QED
        BY <1>5, <2>1 DEF ClearFailedLegs, DistrustSet, DistrustRead, LegRefuses, Spend, Resting
<1>21. QED
    BY <1>8, <1>9, <1>10, <1>11, <1>12, <1>14, <1>15, <1>16, <1>17, <1>18, <1>19, <1>20
       DEF Next, Step, WriteStep, FlushStep, ResyncStep

\* At the start every mapped extent has its copies.
LEMMA InitSpread == Init => SpreadInv
<1> SUFFICES ASSUME Init PROVE Spread
    BY DEF SpreadInv
<1>1. /\ doubted = {} /\ done = {} /\ spent["faults"] = 0 /\ legs \in [Extent -> SUBSET Slab]
      /\ \A e \in Extent : legs[e] = {} \/ Cardinality(legs[e]) = Copies
    BY DEF Init, Event
<1>2. Active = {}
    BY DEF Init, Active, Resting
<1>3. Suspect = {} /\ Cardinality(Suspect) = 0
    BY <1>1, <1>2, FS_EmptySet DEF Suspect
<1>4. \A e \in Extent : legs[e] # {} => Enough(legs[e])
    <2> TAKE e \in Extent
    <2>1. legs[e] \union doubted = legs[e]
        BY <1>1
    <2>2. QED
        BY <1>1, <2>1, CopiesAssumption DEF Enough
<1>5. QED
    BY <1>1, <1>2, <1>3, <1>4 DEF Spread

\* The FLUSH promise of a mirror: with fewer faults than copies, whatever fails
\* among writes, reads, flushes and resyncs and whatever is dropped, what a
\* flush that answered Ok owed is on the media of a leg the volume still trusts.
THEOREM FlushesSurvive == Spec => []FlushSurvivesFaults
<1> DEFINE Inv == FlushInv /\ CurrentInv /\ SpreadInv
<1>1. Init => Inv
    BY InitFlushInv, InitTrustInv, InitSpread DEF TrustInv
<1>2. Inv /\ [Next]_vars => Inv'
    BY StateNext, ShardNext, LandedNext, CountNext, CurrentNext, SpreadNext DEF FlushInv
<1>3. Inv => FlushSurvivesFaults
    <2> SUFFICES ASSUME Inv, Unforced, spent["faults"] < Copies, NEW f \in Flusher, fl[f].pc = "ok",
                        NEW r \in fl[f].owed
                 PROVE  \E s \in UsableLegs(r.ext) : disk[r.ext][s] >= r.n
        BY DEF FlushSurvivesFaults
    <2>1. r \in done /\ Spread
        BY DEF FlushInv, CountInv, FlusherInv, SpreadInv
    <2>2. /\ doubted \in SUBSET Slab /\ Suspect \in SUBSET Slab /\ Copies \in Nat /\ spent["faults"] \in Nat
        BY CopiesAssumption DEF FlushInv, StateOK, Event, Suspect, Active, Landing, Resting
    <2>3. Cardinality(doubted) < Copies
        <3>1. doubted \in SUBSET Suspect
            BY DEF Suspect
        <3>2. Cardinality(doubted) <= Cardinality(Suspect) /\ Cardinality(Suspect) <= spent["faults"]
            BY <2>1, <2>2, <3>1, SlabCounts DEF Spread
        <3>3. Cardinality(doubted) \in Nat /\ Cardinality(Suspect) \in Nat
            BY <2>2, SlabCounts
        <3>4. QED
            BY <2>2, <3>2, <3>3
    <2>4. PICK s \in r.ok : s \notin doubted
        <3>1. Cardinality(r.ok \union doubted) >= Copies
            BY <2>1 DEF Spread, Enough
        <3>2. r.ok \union doubted # doubted
            BY <2>2, <2>3, <3>1, SlabCounts
        <3>3. QED
            BY <3>2
    <2>5. s \in UsableLegs(r.ext)
        BY <2>1, <2>4 DEF FlushInv, LandedInv, LandedStays, UsableLegs
    <2>6. disk[r.ext][s] >= r.n
        BY <2>1, <2>4 DEF FlushInv, CountInv, FlusherInv, OnMedia
    <2>7. QED
        BY <2>5, <2>6
<1>4. QED
    BY <1>1, <1>2, <1>3, PTL DEF Spec
=============================================================================
