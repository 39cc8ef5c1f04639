-------------------------- MODULE PersistV2Proofs --------------------------
(***************************************************************************)
(* What persists of the metadata promise, for every number of persists and  *)
(* keys, and whatever fails.                                                *)
(*                                                                          *)
(* The argument: tickets are given in the order the batches were taken, and *)
(* no held ticket is passed over (OrderInv), so the record, the queue and   *)
(* the tickets still held are one sequence in that order (QueueInv), and    *)
(* the store is never ahead of what is still to be written (StoreInv).      *)
(* What was answered, taken before a failure or told it was written is in   *)
(* the store or a whole write has it (CoverInv), which no step undoes       *)
(* (CoveredStays): a whole write ends with the store written or given up.   *)
(* A persist that waits is queued, in the record or told (WaitInv).         *)
(***************************************************************************)
EXTENDS PersistV2, Integers, FiniteSetsExt, WellFoundedInduction, TLAPS

-----------------------------------------------------------------------------
(* The least and the greatest member of a set of numbers                    *)

\* A set of numbers that is not empty has a least member, and Min is it.
LEMMA MinIsMember ==
    ASSUME NEW S \in SUBSET Nat, S # {}
    PROVE  Min(S) \in S /\ \A y \in S : Min(S) <= y
<1> DEFINE R == {ss \in Nat \X Nat : ss[1] < ss[2]}
<1>1. R = OpToRel(<, Nat)
    BY Zenon DEF OpToRel
<1>2. IsWellFoundedOn(R, Nat)
    BY <1>1, NatLessThanWellFounded
<1>3. \A x, y \in Nat : x < y => <<x, y>> \in R
    OBVIOUS
<1> HIDE DEF R
<1>4. PICK x \in S : \A y \in S : ~ (<<y, x>> \in R)
    BY <1>2, WFMin
<1>5. \A y \in S : ~ (y < x)
    BY <1>3, <1>4, Zenon
<1>6. \A y \in S : x =< y
    BY <1>5
<1>7. QED
    BY <1>6 DEF Min

\* A bounded set of numbers that is not empty has a greatest member, and Max is it.
LEMMA MaxIsMember ==
    ASSUME NEW n \in Nat, NEW S \in SUBSET (0..n), S # {}
    PROVE  Max(S) \in S /\ \A y \in S : y <= Max(S)
<1> DEFINE T == {n - i : i \in S}
<1>1. T \in SUBSET Nat /\ T # {}
    <2>1. PICK i \in S : TRUE
        OBVIOUS
    <2>2. n - i \in T
        OBVIOUS
    <2>3. QED
        BY <2>2
<1>2. PICK x \in T : \A y \in T : x <= y
    <2> HIDE DEF T
    <2>1. QED
        BY <1>1, MinIsMember
<1>3. PICK z \in S : x = n - z
    BY <1>2
<1>4. \A y \in S : n - y \in T
    OBVIOUS
<1>5. \A y \in S : y <= z
    BY <1>2, <1>3, <1>4
<1>6. \A y \in S : z >= y
    BY <1>5
<1>7. QED
    BY <1>6 DEF Max

-----------------------------------------------------------------------------
\* A persist has its ticket until it has queued its changes, written the store
\* whole or given up.
Held(t) == pc[t] \in {"sync", "turn", "drain", "draining", "full"}

\* It has taken its batch, and its ticket.
Taken(t) == pc[t] # "idle"

\* Values only grow.
ChangesInv == \A k \in Key : mem[k] <= changes

\* What a batch takes is never newer than the map, and has the epoch of its taking.
BatchInv ==
    \A t \in Task :
        /\ pc[t] = "idle" => done[t] = "none"
        /\ \A k \in Key : batch[t].ops[k] <= mem[k]
        /\ batch[t].epoch <= epoch
        /\ batch[t].kind = "full" => \A k \in Key : batch[t].ops[k] # Same
        /\ batch[t].kind = "none" => \A k \in Key : batch[t].ops[k] = Same
        /\ pc[t] \in {"drain", "draining", "full"} => batch[t].kind = "full"

\* Tickets are given in the order the batches were taken, and a persist that has one
\* is not passed over.
OrderInv ==
    /\ \A t, u \in Task : t # u /\ Taken(t) /\ Taken(u) => ticket[t] # ticket[u]
    /\ \A t, u \in Task : Taken(t) /\ Taken(u) /\ ticket[t] < ticket[u] =>
         \A k \in Key : batch[u].ops[k] # Same => batch[t].ops[k] <= batch[u].ops[k]
    /\ \A t \in Task : Taken(t) => ticket[t] < nextTicket
    /\ \A t \in Task : Held(t) => turn <= ticket[t] /\ ticket[t] \notin finished
    /\ \A t \in Task : pc[t] \in {"drain", "draining", "full"} => ticket[t] = turn
    /\ turn <= nextTicket /\ \A n \in finished : turn < n /\ n < nextTicket

\* The queue and the record have the batches of past tickets in their order, the
\* record's first; who writes the store whole has seen both written.
QueueInv ==
    /\ \A i, j \in DOMAIN queue : i < j => ticket[queue[i]] < ticket[queue[j]]
    /\ \A t \in Queued \cup record.tasks : Taken(t) /\ ~ Held(t) /\ ticket[t] < turn
    /\ \A t \in record.tasks :
        /\ \A u \in Queued : ticket[t] < ticket[u]
        /\ batch[t].epoch = record.epoch
        /\ \A k \in Key : batch[t].ops[k] <= record.ops[k]
    /\ \A k \in Key : record.ops[k] # Same => \E t \in record.tasks : record.ops[k] = batch[t].ops[k]
    /\ running = None => record.tasks = {}
    /\ \A t \in Task : pc[t] \in {"draining", "writing"} <=> running = t
    /\ \A t \in Task : pc[t] \in {"draining", "full"} => queue = <<>>
    /\ \A t \in Task : pc[t] = "full" => running = None

\* A batch may still be written.
Pending(t) == Held(t) \/ t \in Queued \/ t \in record.tasks

\* The store is not ahead of what may still be written to it.
StoreInv ==
    /\ \A k \in Key : store[k] <= mem[k] /\ acked[k] <= mem[k]
    /\ \A t \in Task : Pending(t) => \A k \in Key : batch[t].ops[k] # Same => store[k] <= batch[t].ops[k]

\* The store has v of k, or a whole write will bring it.
Covered(k, v) ==
    \/ store[k] >= v
    \/ needFull
    \/ \E t \in Task : batch[t].kind = "full" /\ batch[t].ops[k] >= v /\ Held(t)

\* What was answered, what was taken before a failure, and what was written is
\* covered.
CoverInv ==
    ~ Abandoned =>
        /\ \A k \in Key : Covered(k, acked[k])
        /\ \A t \in Task : Taken(t) /\ (batch[t].epoch < epoch \/ done[t] = "ok") =>
             \A k \in Key : Covered(k, batch[t].ops[k])

\* A persist that waits for its changes to be written is queued, in the record or
\* told how it ended.
WaitInv ==
    ~ Abandoned => \A t \in Task : pc[t] \in {"queued", "locking", "writing", "written"} =>
        t \in Queued \/ t \in record.tasks \/ done[t] # "none"

\* The inductive invariant.
Inv == /\ TypeOK /\ ChangesInv /\ BatchInv /\ OrderInv /\ QueueInv /\ StoreInv /\ CoverInv /\ WaitInv /\ NoChangeForgotten

-----------------------------------------------------------------------------
\* What the maps, the batches, the record and the store have of a key is a number,
\* or Same.
LEMMA Numbers ==
    ASSUME TypeOK
    PROVE  /\ \A k \in Key : mem[k] \in Nat /\ store[k] \in Nat /\ acked[k] \in Nat
           /\ \A t \in Task, k \in Key : batch[t].ops[k] \in Int /\ batch[t].ops[k] >= Same
           /\ \A k \in Key : record.ops[k] \in Int /\ record.ops[k] >= Same
           /\ \A t \in Task : ticket[t] \in Nat /\ batch[t].epoch \in Nat
           /\ nextTicket \in Nat /\ turn \in Nat /\ epoch \in Nat /\ record.epoch \in Nat
           /\ Same = -1
<1>1. Same = -1
    BY DEF Same
<1>2. \A k \in Key : mem[k] \in Nat /\ store[k] \in Nat /\ acked[k] \in Nat
    BY BoundsAssumption DEF TypeOK
<1>3. ASSUME NEW t \in Task, NEW k \in Key PROVE batch[t].ops[k] \in Int /\ batch[t].ops[k] >= Same
    <2>1. batch[t].ops \in [Key -> Same..MaxChanges]
        BY DEF TypeOK
    <2>2. QED
        BY <1>1, <2>1, BoundsAssumption
<1>4. ASSUME NEW k \in Key PROVE record.ops[k] \in Int /\ record.ops[k] >= Same
    <2>1. record.ops \in [Key -> Same..MaxChanges]
        BY DEF TypeOK
    <2>2. QED
        BY <1>1, <2>1, BoundsAssumption
<1>5. \A t \in Task : ticket[t] \in Nat /\ batch[t].epoch \in Nat
    BY DEF TypeOK
<1>6. nextTicket \in Nat /\ turn \in Nat /\ epoch \in Nat /\ record.epoch \in Nat
    BY DEF TypeOK
<1>7. QED
    BY <1>1, <1>2, <1>3, <1>4, <1>5, <1>6

\* And so after a step.
LEMMA NumbersAfter ==
    ASSUME TypeOK'
    PROVE  /\ \A k \in Key : mem'[k] \in Nat /\ store'[k] \in Nat /\ acked'[k] \in Nat
           /\ \A t \in Task, k \in Key : batch'[t].ops[k] \in Int /\ batch'[t].ops[k] >= Same
<1>1. Same = -1
    BY DEF Same
<1>2. \A k \in Key : mem'[k] \in Nat /\ store'[k] \in Nat /\ acked'[k] \in Nat
    BY BoundsAssumption DEF TypeOK
<1>3. ASSUME NEW t \in Task, NEW k \in Key PROVE batch'[t].ops[k] \in Int /\ batch'[t].ops[k] >= Same
    <2>1. batch'[t].ops \in [Key -> Same..MaxChanges]
        BY DEF TypeOK
    <2>2. QED
        BY <1>1, <2>1, BoundsAssumption
<1>4. QED
    BY <1>2, <1>3

\* What a ticket's release does to the order: the tickets that are still held are
\* not passed over.
LEMMA ReleaseFacts ==
    ASSUME Inv, NEW t \in Task, Held(t), Release(ticket[t])
    PROVE  /\ nextTicket' = nextTicket /\ turn' \in Nat /\ turn <= turn' /\ turn' <= nextTicket
           /\ turn = ticket[t] => ticket[t] < turn'
           /\ \A n \in finished' : n \in Nat /\ turn' < n /\ n < nextTicket
           /\ \A u \in Task : Held(u) /\ u # t => turn' <= ticket[u] /\ ticket[u] \notin finished'
<1> TypeOK /\ OrderInv
    BY DEF Inv
<1>1. /\ ticket[t] \in Nat /\ nextTicket \in Nat /\ turn \in Nat /\ turn <= ticket[t] /\ ticket[t] < nextTicket
      /\ finished \subseteq Nat
    BY DEF TypeOK, OrderInv, Held, Taken
<1>2. \A u \in Task : Held(u) /\ u # t =>
        ticket[u] \in Nat /\ ticket[u] # ticket[t] /\ turn <= ticket[u] /\ ticket[u] \notin finished /\ ticket[u] < nextTicket
    BY DEF TypeOK, OrderInv, Held, Taken
<1>3. CASE turn = ticket[t]
    <2> DEFINE left == {m \in turn + 1..nextTicket : m \notin finished}
    <2>1. left \in SUBSET Nat /\ nextTicket \in left
        BY <1>1, <1>3 DEF OrderInv
    <2>2. turn' = Min(left) /\ finished' = {m \in finished : m > turn'} /\ nextTicket' = nextTicket
        BY <1>3 DEF Release
    <2>3. Min(left) \in left /\ \A y \in left : Min(left) <= y
        <3> HIDE DEF left
        <3>1. QED
            BY <2>1, MinIsMember
    <2>4. turn' \in left /\ \A y \in left : turn' <= y
        <3> HIDE DEF left
        <3>1. QED
            BY <2>2, <2>3
    <2>5. \A u \in Task : Held(u) /\ u # t => ticket[u] \in left
        BY <1>1, <1>2, <1>3
    <2> HIDE DEF left
    <2>6. turn' \in Nat /\ turn < turn' /\ turn' <= nextTicket
        <3>1. \A y \in left : y \in Nat /\ turn < y /\ y <= nextTicket
            BY <1>1 DEF left
        <3>2. QED
            BY <2>4, <3>1
    <2>7. \A n \in finished' : n \in Nat /\ turn' < n /\ n < nextTicket /\ n \in finished
        BY <1>1, <2>2, <2>6 DEF OrderInv
    <2>8. \A u \in Task : Held(u) /\ u # t => turn' <= ticket[u] /\ ticket[u] \notin finished'
        BY <1>2, <2>4, <2>5, <2>7
    <2>9. QED
        BY <1>1, <1>3, <2>2, <2>6, <2>7, <2>8
<1>4. CASE turn # ticket[t]
    <2>1. nextTicket' = nextTicket /\ turn' = turn /\ finished' = finished \cup {ticket[t]}
        BY <1>4 DEF Release
    <2>2. \A n \in finished' : n \in Nat /\ turn' < n /\ n < nextTicket
        BY <1>1, <1>4, <2>1 DEF OrderInv
    <2>3. \A u \in Task : Held(u) /\ u # t => turn' <= ticket[u] /\ ticket[u] \notin finished'
        BY <1>2, <2>1
    <2>4. turn <= turn' /\ turn' <= nextTicket
        BY <1>1, <2>1
    <2>5. QED
        BY <1>1, <1>4, <2>1, <2>2, <2>3, <2>4
<1>5. QED
    BY <1>3, <1>4

\* What is covered stays covered: a whole write that ends without the store being
\* written has the next one write it whole.
LEMMA CoveredStays ==
    ASSUME Inv, TypeOK', \A k \in Key : store[k] <= store'[k],
           needFull => \/ needFull'
                       \/ \E u \in Task : batch'[u].kind = "full" /\ Held(u)' /\ \A k \in Key : mem[k] <= batch'[u].ops[k],
           \A u \in Task : batch[u].kind = "full" /\ Held(u) =>
                \/ needFull'
                \/ batch'[u] = batch[u] /\ Held(u)'
                \/ \A k \in Key : batch[u].ops[k] <= store'[k],
           NEW k \in Key, NEW v \in Int, v <= mem[k], Covered(k, v)
    PROVE  Covered(k, v)'
<1> TypeOK
    BY DEF Inv
<1>1. /\ store[k] \in Int /\ store'[k] \in Int /\ mem[k] \in Int
      /\ \A u \in Task : batch[u].ops[k] \in Int /\ batch'[u].ops[k] \in Int
    <2>1. store[k] \in Int /\ mem[k] \in Int /\ \A u \in Task : batch[u].ops[k] \in Int
        BY Numbers
    <2>2. store'[k] \in Int /\ \A u \in Task : batch'[u].ops[k] \in Int
        BY NumbersAfter
    <2>3. QED
        BY <2>1, <2>2
<1>2. CASE store[k] >= v
    BY <1>1, <1>2 DEF Covered
<1>3. CASE needFull
    BY <1>1, <1>3 DEF Covered
<1>4. CASE \E t \in Task : batch[t].kind = "full" /\ batch[t].ops[k] >= v /\ Held(t)
    BY <1>1, <1>4 DEF Covered
<1>5. QED
    BY <1>2, <1>3, <1>4 DEF Covered

\* What a whole write brings is newer than what the store has, and older than what
\* may be written after it.
LEMMA WholeWritten ==
    ASSUME Inv, NEW t \in Task, pc[t] = "full"
    PROVE  /\ batch[t].ops \in [Key -> 0..MaxChanges]
           /\ \A k \in Key : store[k] <= batch[t].ops[k] /\ batch[t].ops[k] <= mem[k]
           /\ \A u \in Task \ {t}, k \in Key : Pending(u) /\ batch[u].ops[k] # Same => batch[t].ops[k] <= batch[u].ops[k]
<1> TypeOK
    BY DEF Inv
<1>1. Held(t) /\ Taken(t)
    BY DEF Held, Taken
<1>2. \A k \in Key : batch[t].ops[k] # Same /\ batch[t].ops[k] \in Same..MaxChanges
    BY DEF Inv, BatchInv, TypeOK
<1>3. batch[t].ops \in [Key -> 0..MaxChanges]
    <2>1. batch[t].ops = [k \in Key |-> batch[t].ops[k]]
        BY DEF TypeOK
    <2>2. \A k \in Key : batch[t].ops[k] \in 0..MaxChanges
        BY <1>2, BoundsAssumption DEF Same
    <2>3. QED
        BY <2>1, <2>2
<1>4. \A k \in Key : store[k] <= batch[t].ops[k] /\ batch[t].ops[k] <= mem[k]
    BY <1>1, <1>2 DEF Inv, StoreInv, BatchInv, Pending
<1>5. ASSUME NEW u \in Task \ {t}, NEW k \in Key, Pending(u), batch[u].ops[k] # Same
      PROVE  batch[t].ops[k] <= batch[u].ops[k]
    <2>1. queue = <<>> /\ record.tasks = {} /\ ticket[t] = turn
        BY DEF Inv, QueueInv, OrderInv
    <2>2. Held(u)
        BY <1>5, <2>1 DEF Pending, Queued, Range
    <2>3. turn <= ticket[u] /\ ticket[u] # ticket[t] /\ Taken(u)
        BY <1>1, <2>2 DEF Inv, OrderInv, Held, Taken
    <2>4. ticket[t] < ticket[u]
        BY <2>1, <2>3, Numbers
    <2>5. QED
        BY <1>1, <1>5, <2>3, <2>4 DEF Inv, OrderInv
<1>6. QED
    BY <1>3, <1>4, <1>5

\* So is what a record brings.
LEMMA RecordWritten ==
    ASSUME Inv
    PROVE  LET new == Over(store, record.ops)
           IN  /\ new \in [Key -> 0..MaxChanges]
               /\ \A k \in Key : store[k] <= new[k] /\ new[k] <= mem[k] /\ record.ops[k] <= new[k]
               /\ \A u \in Task, k \in Key :
                    (Held(u) \/ u \in Queued) /\ batch[u].ops[k] # Same => new[k] <= batch[u].ops[k]
<1> TypeOK
    BY DEF Inv
<1> DEFINE new == Over(store, record.ops)
<1>1. /\ new = [k \in Key |-> new[k]]
      /\ \A k \in Key : new[k] = IF record.ops[k] = Same THEN store[k] ELSE record.ops[k]
    BY DEF Over
<1> HIDE DEF new
<1>2. ASSUME NEW k \in Key, record.ops[k] # Same
      PROVE  /\ record.ops[k] \in 0..MaxChanges /\ store[k] <= record.ops[k] /\ record.ops[k] <= mem[k]
             /\ \A u \in Task : (Held(u) \/ u \in Queued) /\ batch[u].ops[k] # Same => record.ops[k] <= batch[u].ops[k]
    <2>1. PICK w \in record.tasks : record.ops[k] = batch[w].ops[k]
        BY <1>2 DEF Inv, QueueInv
    <2>2. w \in Task /\ Pending(w) /\ Taken(w) /\ ticket[w] < turn /\ \A u \in Queued : ticket[w] < ticket[u]
        BY <2>1 DEF Inv, QueueInv, TypeOK, Pending
    <2>3. store[k] <= record.ops[k] /\ record.ops[k] <= mem[k]
        BY <1>2, <2>1, <2>2 DEF Inv, StoreInv, BatchInv
    <2>4. record.ops[k] \in 0..MaxChanges
        <3>1. mem[k] <= MaxChanges
            BY DEF TypeOK
        <3>2. QED
            BY <2>3, <3>1, Numbers, BoundsAssumption
    <2>5. ASSUME NEW u \in Task, Held(u) \/ u \in Queued, batch[u].ops[k] # Same PROVE record.ops[k] <= batch[u].ops[k]
        <3>1. Taken(u) /\ (Held(u) => turn <= ticket[u])
            BY <2>5 DEF Inv, QueueInv, OrderInv, Held, Taken
        <3>2. ticket[w] < ticket[u]
            BY <2>2, <2>5, <3>1, Numbers
        <3>3. QED
            BY <2>1, <2>2, <2>5, <3>1, <3>2 DEF Inv, OrderInv
    <2>6. QED
        BY <2>3, <2>4, <2>5
<1>3. \A k \in Key : new[k] \in 0..MaxChanges
    BY <1>1, <1>2 DEF TypeOK
<1>4. \A k \in Key : store[k] <= new[k] /\ new[k] <= mem[k] /\ record.ops[k] <= new[k]
    BY <1>1, <1>2, Numbers DEF Inv, StoreInv
<1>5. \A u \in Task, k \in Key : (Held(u) \/ u \in Queued) /\ batch[u].ops[k] # Same => new[k] <= batch[u].ops[k]
    BY <1>1, <1>2 DEF Inv, StoreInv, Pending
<1>6. QED
    BY <1>1, <1>3, <1>4, <1>5 DEF new

\* A part of the invariant holds on as long as what it speaks of does not change.
LEMMA Frame ==
    ASSUME Inv
    PROVE  /\ UNCHANGED <<mem, changes>> => ChangesInv'
           /\ UNCHANGED <<pc, done, batch, mem, epoch>> => BatchInv'
           /\ UNCHANGED <<pc, batch, ticket, nextTicket, turn, finished>> => OrderInv'
           /\ UNCHANGED <<pc, batch, ticket, turn, queue, running, record>> => QueueInv'
           /\ UNCHANGED <<pc, batch, mem, store, acked, queue, record>> => StoreInv'
           /\ UNCHANGED <<pc, batch, done, epoch, needFull, store, acked>> => CoverInv'
           /\ UNCHANGED <<pc, done, queue, record>> => WaitInv'
           /\ UNCHANGED <<pc, batch, mem, dirty, needFull, store>> => NoChangeForgotten'
<1>1. UNCHANGED <<pc, done, batch, mem, epoch>> => BatchInv'
    BY DEF Inv, BatchInv
<1>2. UNCHANGED <<pc, batch, ticket, nextTicket, turn, finished>> => OrderInv'
    BY DEF Inv, OrderInv, Held, Taken
<1>3. UNCHANGED <<pc, batch, ticket, turn, queue, running, record>> => QueueInv'
    BY DEF Inv, QueueInv, Queued, Held, Taken
<1>4. UNCHANGED <<pc, batch, mem, store, acked, queue, record>> => StoreInv'
    BY DEF Inv, StoreInv, Pending, Queued, Held
<1>5. UNCHANGED <<pc, batch, done, epoch, needFull, store, acked>> => CoverInv'
    BY DEF Inv, CoverInv, Covered, Abandoned, Held, Taken
<1>6. UNCHANGED <<pc, done, queue, record>> => WaitInv'
    BY DEF Inv, WaitInv, Abandoned, Queued
<1>7. UNCHANGED <<pc, batch, mem, dirty, needFull, store>> => NoChangeForgotten'
    BY DEF Inv, NoChangeForgotten, Abandoned, Carries
<1>8. UNCHANGED <<mem, changes>> => ChangesInv'
    BY DEF Inv, ChangesInv
<1>9. QED
    BY <1>1, <1>2, <1>3, <1>4, <1>5, <1>6, <1>7, <1>8

-----------------------------------------------------------------------------
\* A map changes.
LEMMA ChangeStep == ASSUME Inv, NEW k \in Key, Change(k) PROVE Inv'
<1> TypeOK
    BY DEF Inv
<1>1. /\ changes < MaxChanges /\ changes' = changes + 1 /\ mem' = [mem EXCEPT ![k] = changes + 1]
      /\ dirty' = dirty \cup {k}
      /\ UNCHANGED <<needFull, epoch, nextTicket, turn, finished, queue, running, done, record, store, pc, batch, ticket,
                     acked, errors>>
    BY DEF Change, sinkState, order, commit, persist
<1>2. TypeOK'
    <2>1. changes' \in 0..MaxChanges
        BY <1>1, BoundsAssumption DEF TypeOK
    <2>2. mem' \in [Key -> 0..MaxChanges] /\ dirty' \subseteq Key
        BY <1>1, <2>1 DEF TypeOK
    <2>3. QED
        BY <1>1, <2>1, <2>2 DEF TypeOK
<1>3. mem'[k] = changes + 1 /\ \A j \in Key \ {k} : mem'[j] = mem[j]
    BY <1>1 DEF TypeOK
<1>4. ChangesInv' /\ \A j \in Key : mem[j] <= mem'[j]
    BY <1>1, <1>3, Numbers, SMTT(30) DEF Inv, ChangesInv, TypeOK
<1>5. BatchInv'
    <2>1. \A t \in Task, j \in Key : batch[t].ops[j] <= mem'[j]
        BY <1>4, Numbers, <1>2, NumbersAfter DEF Inv, BatchInv
    <2>2. QED
        BY <1>1, <2>1 DEF Inv, BatchInv
<1>6. StoreInv'
    <2>1. \A j \in Key : store[j] <= mem'[j] /\ acked[j] <= mem'[j]
        BY <1>2, <1>4, Numbers, NumbersAfter DEF Inv, StoreInv
    <2>2. QED
        BY <1>1, <2>1 DEF Inv, StoreInv, Pending, Queued, Held
<1>7. NoChangeForgotten'
    BY <1>1, <1>3 DEF Inv, NoChangeForgotten, Abandoned, Carries
<1>8. QED
    BY <1>1, <1>2, <1>4, <1>5, <1>6, <1>7, Frame DEF Inv

\* A persist takes what changed, or the whole map, and a ticket.
LEMMA TakeStep == ASSUME Inv, NEW t \in Task, Take(t) PROVE Inv'
<1> TypeOK
    BY DEF Inv
<1> DEFINE b == [kind |-> IF needFull THEN "full" ELSE IF dirty = {} THEN "none" ELSE "ops",
                 ops |-> [k \in Key |-> IF needFull \/ k \in dirty THEN mem[k] ELSE Same],
                 epoch |-> epoch]
<1>1. /\ pc[t] = "idle" /\ batch' = [batch EXCEPT ![t] = b] /\ ticket' = [ticket EXCEPT ![t] = nextTicket]
      /\ nextTicket' = nextTicket + 1 /\ needFull' = FALSE /\ dirty' = {} /\ pc' = [pc EXCEPT ![t] = "sync"]
      /\ UNCHANGED <<mem, epoch, turn, finished, queue, running, done, record, store, acked, changes, errors>>
    BY DEF Take, Goto, commit, bounds
<1>2. /\ b.kind = (IF needFull THEN "full" ELSE IF dirty = {} THEN "none" ELSE "ops") /\ b.epoch = epoch
      /\ \A k \in Key : b.ops[k] = IF needFull \/ k \in dirty THEN mem[k] ELSE Same
      /\ b \in [kind : {"none", "full", "ops"}, ops : [Key -> Same..MaxChanges], epoch : Nat]
    <2>1. [k \in Key |-> IF needFull \/ k \in dirty THEN mem[k] ELSE Same] \in [Key -> Same..MaxChanges]
        BY BoundsAssumption DEF TypeOK, Same
    <2>2. b \in [kind : {"none", "full", "ops"}, ops : [Key -> Same..MaxChanges], epoch : Nat]
        BY <2>1 DEF TypeOK
    <2>3. QED
        BY <2>2
<1> HIDE DEF b
<1>3. TypeOK'
    <2>1. /\ batch' \in [Task -> [kind : {"none", "full", "ops"}, ops : [Key -> Same..MaxChanges], epoch : Nat]]
          /\ ticket' \in [Task -> Nat] /\ nextTicket' \in Nat
          /\ pc' \in [Task -> {"idle", "sync", "turn", "drain", "draining", "full", "queued", "locking", "writing",
                               "written", "ok", "failed", "abandoned"}]
        BY <1>1, <1>2 DEF TypeOK
    <2>2. turn' \in 0..nextTicket' /\ finished' \subseteq turn' + 1..nextTicket'
        BY <1>1 DEF TypeOK
    <2>3. QED
        BY <1>1, <2>1, <2>2 DEF TypeOK
<1>4. /\ batch'[t] = b /\ \A u \in Task \ {t} : batch'[u] = batch[u]
      /\ ticket'[t] = nextTicket /\ \A u \in Task \ {t} : ticket'[u] = ticket[u]
      /\ pc'[t] = "sync" /\ \A u \in Task \ {t} : pc'[u] = pc[u]
    BY <1>1 DEF TypeOK
<1>5. /\ \A u \in Task \ {t} : (Held(u)' <=> Held(u)) /\ (Taken(u)' <=> Taken(u))
      /\ Held(t)' /\ ~ Held(t) /\ ~ Taken(t) /\ Taken(t)'
    BY <1>1, <1>4 DEF Held, Taken
<1>6. /\ \A u \in Queued \cup record.tasks : u \in Task /\ u # t
      /\ Queued' = Queued
    BY <1>1, <1>5 DEF Inv, QueueInv, Queued, TypeOK, Range
<1>7. BatchInv'
    BY <1>1, <1>2, <1>4, Numbers DEF Inv, BatchInv
<1>8. OrderInv'
    <2>1. \A u \in Task \ {t} : Taken(u) => ticket[u] < nextTicket /\ \A k \in Key : batch[u].ops[k] <= mem[k]
        BY DEF Inv, OrderInv, BatchInv
    <2>2. \A u, w \in Task : Taken(u)' /\ Taken(w)' /\ ticket'[u] < ticket'[w] =>
             \A k \in Key : batch'[w].ops[k] # Same => batch'[u].ops[k] <= batch'[w].ops[k]
        BY <1>2, <1>4, <1>5, <2>1, Numbers DEF Inv, OrderInv
    <2>3. \A u, w \in Task : u # w /\ Taken(u)' /\ Taken(w)' => ticket'[u] # ticket'[w]
        BY <1>4, <1>5, <2>1, Numbers DEF Inv, OrderInv
    <2>4. \A u \in Task : Held(u)' => turn' <= ticket'[u] /\ ticket'[u] \notin finished'
        BY <1>1, <1>4, <1>5, Numbers DEF Inv, OrderInv
    <2>5. \A u \in Task : Taken(u)' => ticket'[u] < nextTicket'
        BY <1>1, <1>4, <1>5, <2>1, Numbers
    <2>6. turn' <= nextTicket' /\ \A n \in finished' : turn' < n /\ n < nextTicket'
        BY <1>1, Numbers DEF Inv, OrderInv, TypeOK
    <2>7. \A u \in Task : pc'[u] \in {"drain", "draining", "full"} => ticket'[u] = turn'
        BY <1>1, <1>4 DEF Inv, OrderInv
    <2>8. QED
        BY <2>2, <2>3, <2>4, <2>5, <2>6, <2>7 DEF OrderInv
<1>9. QueueInv'
    <2>1. \A i \in DOMAIN queue : queue[i] \in Queued /\ queue[i] \in Task /\ queue[i] # t
        BY <1>6 DEF Queued, Range
    <2>2. QED
        BY <1>1, <1>4, <1>5, <1>6, <2>1 DEF Inv, QueueInv
<1>10. StoreInv'
    <2>1. \A u \in Task : Pending(u)' => u = t \/ Pending(u)
        BY <1>1, <1>5, <1>6 DEF Pending
    <2>2. QED
        BY <1>1, <1>2, <1>4, <2>1 DEF Inv, StoreInv
<1>11. CoverInv'
    <2> SUFFICES ASSUME ~ Abandoned' PROVE CoverInv'
        BY DEF CoverInv
    <2>1. ~ Abandoned
        BY <1>1, <1>4 DEF Abandoned
    <2>2. ASSUME NEW k \in Key, NEW v \in Int, v <= mem[k], Covered(k, v) PROVE Covered(k, v)'
        <3>1. needFull => /\ batch'[t].kind = "full" /\ Held(t)' /\ \A j \in Key : mem[j] <= batch'[t].ops[j]
            BY <1>2, <1>4, <1>5, Numbers
        <3>2. \A j \in Key : store[j] <= store'[j]
            BY <1>1, Numbers
        <3>3. \A u \in Task : Held(u) => batch'[u] = batch[u] /\ Held(u)'
            BY <1>4, <1>5
        <3>4. QED
            BY <1>3, <2>2, <3>1, <3>2, <3>3, CoveredStays
    <2>3. \A k \in Key : Covered(k, acked[k])'
        BY <1>1, <2>1, <2>2, Numbers DEF Inv, CoverInv, StoreInv, Covered
    <2>4. ASSUME NEW u \in Task, Taken(u)', batch'[u].epoch < epoch' \/ done'[u] = "ok", NEW k \in Key
          PROVE  Covered(k, batch[u].ops[k])' /\ batch'[u] = batch[u]
        <3>1. u # t
            BY <1>1, <1>2, <1>4, <2>4, Numbers DEF Inv, BatchInv
        <3>2. Covered(k, batch[u].ops[k]) /\ batch[u].ops[k] <= mem[k] /\ batch'[u] = batch[u]
            BY <1>1, <1>4, <1>5, <2>1, <2>4, <3>1 DEF Inv, CoverInv, BatchInv
        <3>3. QED
            BY <2>2, <3>2, Numbers DEF Covered
    <2>5. QED
        BY <1>1, <2>3, <2>4 DEF CoverInv, Covered
<1>12. WaitInv'
    <2> SUFFICES ASSUME ~ Abandoned' PROVE WaitInv'
        BY DEF WaitInv
    <2>1. ~ Abandoned
        BY <1>1, <1>4 DEF Abandoned
    <2>2. QED
        BY <1>1, <1>4, <1>6, <2>1 DEF Inv, WaitInv
<1>13. NoChangeForgotten'
    <2> SUFFICES ASSUME ~ Abandoned', NEW k \in Key
                 PROVE  store'[k] = mem'[k] \/ k \in dirty' \/ \E u \in Task : Carries(u, k)'
        BY DEF NoChangeForgotten
    <2>1. ~ Abandoned
        BY <1>1, <1>4 DEF Abandoned
    <2>2. CASE needFull \/ k \in dirty
        <3>1. Carries(t, k)'
            BY <1>1, <1>2, <1>4, <2>2 DEF Carries
        <3>2. QED
            BY <3>1
    <2>3. CASE ~ needFull /\ k \notin dirty
        BY <1>1, <1>4, <2>1, <2>3 DEF Inv, NoChangeForgotten, Carries
    <2>4. QED
        BY <2>2, <2>3
<1>14. QED
    BY <1>1, <1>3, <1>7, <1>8, <1>9, <1>10, <1>11, <1>12, <1>13, Frame DEF Inv

\* A persist goes on: nothing but its place changes.
LEMMA OnwardStep ==
    ASSUME Inv, NEW t \in Task, NEW where,
           \/ pc[t] = "sync" /\ where = "turn"
           \/ pc[t] = "turn" /\ where = "drain" /\ turn = ticket[t] /\ batch[t].kind = "full"
           \/ pc[t] = "queued" /\ where = "locking",
           pc' = [pc EXCEPT ![t] = where],
           UNCHANGED <<mem, dirty, needFull, epoch, nextTicket, turn, finished, queue, running, done, store, batch, ticket,
                       record, acked, changes, errors>>
    PROVE  Inv'
<1> TypeOK
    BY DEF Inv
<1>1. TypeOK'
    BY DEF TypeOK
<1>2. pc'[t] = where /\ \A u \in Task \ {t} : pc'[u] = pc[u]
    BY DEF TypeOK
<1>3. \A u \in Task : (Held(u)' <=> Held(u)) /\ (Taken(u)' <=> Taken(u)) /\ (Pending(u)' <=> Pending(u))
    BY <1>2 DEF Held, Taken, Pending, Queued
<1>4. Abandoned' <=> Abandoned
    BY <1>2 DEF Abandoned
<1>5. BatchInv'
    BY <1>2 DEF Inv, BatchInv
<1>6. OrderInv'
    BY <1>2, <1>3 DEF Inv, OrderInv
<1>7. QueueInv'
    <2>1. \A u \in Task : (pc'[u] \in {"draining", "writing"} <=> pc[u] \in {"draining", "writing"})
                         /\ (pc'[u] \in {"draining", "full"} <=> pc[u] \in {"draining", "full"})
                         /\ (pc'[u] = "full" <=> pc[u] = "full")
        BY <1>2
    <2>2. Queued' = Queued /\ \A u \in Queued \cup record.tasks : u \in Task
        BY DEF Queued, Range, TypeOK
    <2>3. QED
        BY <1>3, <2>1, <2>2 DEF Inv, QueueInv
<1>8. StoreInv'
    BY <1>3 DEF Inv, StoreInv
<1>9. CoverInv'
    BY <1>3, <1>4 DEF Inv, CoverInv, Covered
<1>10. WaitInv'
    BY <1>2, <1>4 DEF Inv, WaitInv, Queued
<1>11. NoChangeForgotten'
    BY <1>2, <1>4 DEF Inv, NoChangeForgotten, Carries
<1>12. QED
    BY <1>1, <1>5, <1>6, <1>7, <1>8, <1>9, <1>10, <1>11, Frame DEF Inv

\* The slabs are flushed.
LEMMA SyncStep == ASSUME Inv, NEW t \in Task, Sync(t) PROVE Inv'
BY OnwardStep DEF Sync, Goto, sinkState, order, commit, bounds

\* A persist waits for whoever writes now.
LEMMA WaitToWriteStep == ASSUME Inv, NEW t \in Task, WaitToWrite(t) PROVE Inv'
BY OnwardStep DEF WaitToWrite, Goto, sinkState, order, commit, bounds

\* A persist gives its ticket back and is done with: it wrote the store whole, had
\* nothing to write, could not flush the slabs or was refused by the store.
LEMMA ReleaseStep ==
    ASSUME Inv, TypeOK', NEW t \in Task, Held(t), pc[t] # "draining", Release(ticket[t]), NEW where \in {"ok", "failed"},
           pc' = [pc EXCEPT ![t] = where],
           UNCHANGED <<mem, dirty, queue, running, done, batch, ticket, record, changes>>,
           \/ needFull' /\ epoch' = epoch + 1
           \/ UNCHANGED <<needFull, epoch>>,
           \/ store' = store /\ (batch[t].kind = "none" \/ needFull')
           \/ pc[t] = "full" /\ store' = batch[t].ops,
           \/ acked' = acked
           \/ /\ batch[t].kind = "none" \/ store' = batch[t].ops
              /\ acked' = [k \in Key |-> IF batch[t].ops[k] > acked[k] THEN batch[t].ops[k] ELSE acked[k]]
    PROVE  Inv'
<1> TypeOK
    BY DEF Inv
<1>1. pc'[t] = where /\ \A u \in Task \ {t} : pc'[u] = pc[u]
    BY DEF TypeOK
<1>2. /\ \A u \in Task \ {t} : (Held(u)' <=> Held(u)) /\ (Taken(u)' <=> Taken(u))
      /\ Taken(t)' /\ Taken(t) /\ ~ Held(t)' /\ Queued' = Queued
    BY <1>1 DEF Held, Taken, Queued
<1>3. Abandoned' <=> Abandoned
    BY <1>1 DEF Abandoned, Held
<1>4. /\ nextTicket' = nextTicket /\ turn' \in Nat /\ turn <= turn' /\ turn' <= nextTicket
      /\ \A n \in finished' : n \in Nat /\ turn' < n /\ n < nextTicket
      /\ \A u \in Task : Held(u) /\ u # t => turn' <= ticket[u] /\ ticket[u] \notin finished'
    BY ReleaseFacts
<1>5. epoch' \in Nat /\ epoch <= epoch'
    BY Numbers
<1>6. BatchInv'
    BY <1>1, <1>5, Numbers DEF Inv, BatchInv
<1>7. \A u \in Task : pc'[u] \in {"drain", "draining", "full"} => ticket[u] = turn'
    <2>1. ASSUME NEW u \in Task, pc'[u] \in {"drain", "draining", "full"} PROVE ticket[u] = turn'
        <3>1. u # t /\ pc[u] \in {"drain", "draining", "full"}
            BY <1>1, <2>1
        <3>2. ticket[u] = turn /\ ticket[u] # ticket[t] /\ Held(u)
            BY <1>2, <3>1 DEF Inv, OrderInv, Taken, Held
        <3>3. turn' <= ticket[u]
            BY <1>4, <3>1, <3>2
        <3>4. QED
            BY <1>4, <3>2, <3>3, Numbers
    <2>2. QED
        BY <2>1
<1>8. OrderInv'
    BY <1>2, <1>4, <1>7 DEF Inv, OrderInv
<1>9. QueueInv'
    <2>1. \A u \in Queued \cup record.tasks : u # t /\ u \in Task /\ ticket[u] < turn'
        <3>1. \A u \in Queued \cup record.tasks : u \in Task
            BY DEF Queued, Range, TypeOK
        <3>2. QED
            BY <1>4, <3>1, Numbers DEF Inv, QueueInv
    <2>2. \A u \in Task : pc'[u] \in {"draining", "writing"} <=> running = u
        BY <1>1 DEF Inv, QueueInv, Held
    <2>3. QED
        BY <1>1, <1>2, <2>1, <2>2 DEF Inv, QueueInv
<1>10. \A k \in Key : store[k] <= store'[k] /\ store'[k] <= mem[k]
    <2>1. CASE store' = store
        BY <2>1, Numbers DEF Inv, StoreInv
    <2>2. CASE pc[t] = "full" /\ store' = batch[t].ops
        BY <2>2, Numbers DEF Inv, StoreInv, BatchInv, Pending
    <2>3. QED
        BY <2>1, <2>2
<1>11. \A k \in Key : acked'[k] <= mem[k] /\ (acked'[k] # acked[k] => acked'[k] <= store'[k])
    <2>1. CASE acked' = acked
        BY <2>1 DEF Inv, StoreInv
    <2>2. CASE /\ batch[t].kind = "none" \/ store' = batch[t].ops
               /\ acked' = [k \in Key |-> IF batch[t].ops[k] > acked[k] THEN batch[t].ops[k] ELSE acked[k]]
        BY <2>2, Numbers DEF Inv, StoreInv, BatchInv
    <2>3. QED
        BY <2>1, <2>2
<1>12. StoreInv'
    <2>1. ASSUME NEW u \in Task, Pending(u)', NEW k \in Key, batch[u].ops[k] # Same PROVE store'[k] <= batch[u].ops[k]
        <3>1. u # t /\ Pending(u)
            BY <1>2, <2>1 DEF Pending, Inv, QueueInv
        <3>2. CASE store' = store
            BY <2>1, <3>1, <3>2 DEF Inv, StoreInv
        <3>3. CASE pc[t] = "full" /\ store' = batch[t].ops
            BY <2>1, <3>1, <3>3, WholeWritten
        <3>4. QED
            BY <3>2, <3>3
    <2>2. QED
        BY <1>10, <1>11, <2>1 DEF StoreInv
<1>13. CoverInv'
    <2> SUFFICES ASSUME ~ Abandoned' PROVE CoverInv'
        BY DEF CoverInv
    <2>1. ~ Abandoned
        BY <1>3
    <2>2. ASSUME NEW k \in Key, NEW v \in Int, v <= mem[k], Covered(k, v) PROVE Covered(k, v)'
        <3>1. \A j \in Key : store[j] <= store'[j]
            BY <1>10
        <3>2. needFull => needFull'
            OBVIOUS
        <3>3. \A u \in Task : batch[u].kind = "full" /\ Held(u) =>
                \/ needFull'
                \/ batch'[u] = batch[u] /\ Held(u)'
                \/ \A j \in Key : batch[u].ops[j] <= store'[j]
            BY <1>2, Numbers
        <3>4. QED
            BY <2>2, <3>1, <3>2, <3>3, CoveredStays
    <2>3. ASSUME NEW k \in Key PROVE Covered(k, acked[k])'
        BY <1>11, <2>1, <2>2, Numbers, NumbersAfter DEF Inv, CoverInv, StoreInv, Covered
    <2>4. ASSUME NEW u \in Task, Taken(u)', batch'[u].epoch < epoch' \/ done'[u] = "ok", NEW k \in Key
          PROVE  Covered(k, batch[u].ops[k])'
        <3>1. CASE epoch' = epoch
            <4>1. Covered(k, batch[u].ops[k]) /\ batch[u].ops[k] <= mem[k]
                BY <1>2, <2>1, <2>4, <3>1 DEF Inv, CoverInv, BatchInv
            <4>2. QED
                BY <2>2, <4>1, Numbers DEF Covered
        <3>2. CASE needFull'
            BY <3>2 DEF Covered
        <3>3. QED
            BY <3>1, <3>2
    <2>5. QED
        BY <2>3, <2>4 DEF CoverInv, Covered
<1>14. WaitInv'
    BY <1>1, <1>2, <1>3 DEF Inv, WaitInv
<1>15. NoChangeForgotten'
    <2> SUFFICES ASSUME ~ Abandoned', ~ needFull', NEW k \in Key
                 PROVE  store'[k] = mem'[k] \/ k \in dirty' \/ \E u \in Task : Carries(u, k)'
        BY DEF NoChangeForgotten
    <2>1. ~ Abandoned /\ ~ needFull
        BY <1>3
    <2>2. CASE store[k] = mem[k]
        BY <1>10, <2>2, Numbers, NumbersAfter
    <2>3. CASE k \in dirty
        BY <2>3
    <2>4. CASE \E u \in Task : Carries(u, k)
        <3>1. PICK u \in Task : Carries(u, k)
            BY <2>4
        <3>2. CASE u = t
            <4>1. batch[t].ops[k] = mem[k] /\ batch[t].kind # "none"
                BY <3>1, <3>2, Numbers DEF Carries, Inv, BatchInv
            <4>2. QED
                BY <4>1
        <3>3. CASE u # t
            BY <1>1, <3>1, <3>3 DEF Carries
        <3>4. QED
            BY <3>2, <3>3
    <2>5. QED
        BY <2>1, <2>2, <2>3, <2>4 DEF Inv, NoChangeForgotten
<1>16. QED
    BY <1>6, <1>8, <1>9, <1>12, <1>13, <1>14, <1>15, Frame DEF Inv

\* A slab could not be flushed.
LEMMA SyncFailsStep == ASSUME Inv, NEW t \in Task, SyncFails(t) PROVE Inv'
<1> TypeOK
    BY DEF Inv
<1>1. /\ pc[t] = "sync" /\ Held(t) /\ errors < MaxErrors /\ errors' = errors + 1 /\ Release(ticket[t])
      /\ pc' = [pc EXCEPT ![t] = "failed"]
      /\ UNCHANGED <<mem, dirty, queue, running, done, record, store, batch, ticket, acked, changes>>
      /\ IF batch[t].kind = "none" THEN UNCHANGED <<needFull, epoch>> ELSE needFull' = TRUE /\ epoch' = epoch + 1
    BY DEF SyncFails, DropRecords, WrittenWholeNext, Goto, Held, commit, sinkState
<1>2. TypeOK'
    <2>1. turn' \in 0..nextTicket' /\ finished' \subseteq turn' + 1..nextTicket' /\ nextTicket' \in Nat
        BY <1>1, ReleaseFacts, Numbers
    <2>2. epoch' \in Nat /\ errors' \in 0..MaxErrors
        BY <1>1, Numbers, BoundsAssumption DEF TypeOK
    <2>3. needFull' \in BOOLEAN
        BY <1>1 DEF TypeOK
    <2>4. QED
        BY <1>1, <2>1, <2>2, <2>3 DEF TypeOK
<1>3. QED
    BY <1>1, <1>2, ReleaseStep

\* The store is written whole.
LEMMA WriteFullStep == ASSUME Inv, NEW t \in Task, WriteFull(t) PROVE Inv'
<1> TypeOK
    BY DEF Inv
<1>1. /\ pc[t] = "full" /\ Held(t) /\ Release(ticket[t]) /\ store' = batch[t].ops
      /\ pc' = [pc EXCEPT ![t] = "ok"]
      /\ acked' = [k \in Key |-> IF batch[t].ops[k] > acked[k] THEN batch[t].ops[k] ELSE acked[k]]
      /\ UNCHANGED <<mem, dirty, needFull, epoch, queue, running, done, record, batch, ticket, changes, errors>>
    BY DEF WriteFull, Answer, Goto, Held, commit, sinkState, bounds
<1>2. batch[t].ops \in [Key -> 0..MaxChanges]
    BY <1>1, WholeWritten
<1>3. TypeOK'
    <2>1. turn' \in 0..nextTicket' /\ finished' \subseteq turn' + 1..nextTicket' /\ nextTicket' \in Nat
        BY <1>1, ReleaseFacts, Numbers
    <2>2. acked' \in [Key -> 0..MaxChanges] /\ store' \in [Key -> 0..MaxChanges]
        BY <1>1, <1>2 DEF TypeOK
    <2>3. QED
        BY <1>1, <2>1, <2>2 DEF TypeOK
<1>4. QED
    BY <1>1, <1>3, ReleaseStep

\* The whole write fails.
LEMMA WriteFullFailsStep == ASSUME Inv, NEW t \in Task, WriteFullFails(t) PROVE Inv'
<1> TypeOK
    BY DEF Inv
<1>1. /\ pc[t] = "full" /\ Held(t) /\ Release(ticket[t]) /\ store' \in {store, batch[t].ops}
      /\ pc' = [pc EXCEPT ![t] = "failed"]
      /\ needFull' = TRUE /\ epoch' = epoch + 1 /\ errors < MaxErrors /\ errors' = errors + 1
      /\ UNCHANGED <<mem, dirty, queue, running, done, record, batch, ticket, acked, changes>>
    BY DEF WriteFullFails, MayFail, WrittenWholeNext, Goto, Held, commit
<1>2. batch[t].ops \in [Key -> 0..MaxChanges]
    BY <1>1, WholeWritten
<1>3. TypeOK'
    <2>1. turn' \in 0..nextTicket' /\ finished' \subseteq turn' + 1..nextTicket' /\ nextTicket' \in Nat
        BY <1>1, ReleaseFacts, Numbers
    <2>2. store' \in [Key -> 0..MaxChanges] /\ epoch' \in Nat /\ errors' \in 0..MaxErrors
        BY <1>1, <1>2, Numbers, BoundsAssumption DEF TypeOK
    <2>3. QED
        BY <1>1, <2>1, <2>2 DEF TypeOK
<1>4. QED
    BY <1>1, <1>3, ReleaseStep

\* A persist in its turn queues its changes, or comes to write the store whole, or
\* has nothing to write.
LEMMA TurnStep == ASSUME Inv, NEW t \in Task, Turn(t) PROVE Inv'
<1> TypeOK
    BY DEF Inv
<1>1. /\ pc[t] = "turn" /\ turn = ticket[t] /\ Held(t)
      /\ UNCHANGED <<mem, dirty, needFull, epoch, store, batch, ticket, changes, errors>>
    BY DEF Turn, Held, sinkState, bounds
<1>2. CASE batch[t].kind = "full" /\ Goto(t, "drain") /\ UNCHANGED <<order, commit, acked>>
    BY <1>1, <1>2, OnwardStep DEF Goto, order, commit
<1>3. CASE batch[t].kind = "none" /\ Release(ticket[t]) /\ Answer(t) /\ UNCHANGED commit
    <2>1. /\ pc' = [pc EXCEPT ![t] = "ok"]
          /\ acked' = [k \in Key |-> IF batch[t].ops[k] > acked[k] THEN batch[t].ops[k] ELSE acked[k]]
          /\ UNCHANGED <<queue, running, done, record>>
        BY <1>3 DEF Answer, Goto, commit
    <2>2. acked' = acked
        <3>1. \A k \in Key : batch[t].ops[k] = Same
            BY <1>3 DEF Inv, BatchInv
        <3>2. \A k \in Key : acked'[k] = acked[k]
            BY <2>1, <3>1, Numbers
        <3>3. QED
            BY <2>1, <3>2 DEF TypeOK
    <2>3. TypeOK'
        <3>1. turn' \in 0..nextTicket' /\ finished' \subseteq turn' + 1..nextTicket' /\ nextTicket' \in Nat
            BY <1>1, <1>3, ReleaseFacts, Numbers
        <3>2. QED
            BY <1>1, <2>1, <2>2, <3>1 DEF TypeOK
    <2>4. QED
        BY <1>1, <1>3, <2>1, <2>2, <2>3, ReleaseStep
<1>4. CASE /\ batch[t].kind = "ops" /\ queue' = Append(queue, t) /\ Release(ticket[t]) /\ Goto(t, "queued")
           /\ UNCHANGED <<running, done, record, acked>>
    <2>1. pc'[t] = "queued" /\ \A u \in Task \ {t} : pc'[u] = pc[u]
        BY <1>4 DEF TypeOK, Goto
    <2>2. /\ \A u \in Task \ {t} : (Held(u)' <=> Held(u)) /\ (Taken(u)' <=> Taken(u))
          /\ Taken(t)' /\ Taken(t) /\ ~ Held(t)'
        BY <1>1, <2>1 DEF Held, Taken
    <2>3. Abandoned' <=> Abandoned
        BY <1>1, <2>1 DEF Abandoned
    <2>4. /\ nextTicket' = nextTicket /\ turn' \in Nat /\ turn <= turn' /\ turn' <= nextTicket /\ ticket[t] < turn'
          /\ \A n \in finished' : n \in Nat /\ turn' < n /\ n < nextTicket
          /\ \A u \in Task : Held(u) /\ u # t => turn' <= ticket[u] /\ ticket[u] \notin finished'
        BY <1>1, <1>4, ReleaseFacts
    <2>5. /\ queue' \in Seq(Task) /\ Len(queue') = Len(queue) + 1 /\ queue'[Len(queue) + 1] = t
          /\ \A i \in DOMAIN queue : queue'[i] = queue[i] /\ queue[i] \in Task
          /\ DOMAIN queue = 1..Len(queue) /\ DOMAIN queue' = 1..Len(queue) + 1 /\ Len(queue) \in Nat
        BY <1>4, SMTT(30) DEF TypeOK
    <2>6. Queued' = Queued \cup {t} /\ \A i \in DOMAIN queue : queue[i] \in Queued
        BY <2>5 DEF Queued, Range
    <2>7. \A u \in Queued \cup record.tasks : u # t /\ u \in Task /\ ticket[u] < turn
        BY <1>1 DEF Inv, QueueInv, Queued, Range, TypeOK
    <2>8. TypeOK'
        <3>1. turn' \in 0..nextTicket' /\ finished' \subseteq turn' + 1..nextTicket' /\ nextTicket' \in Nat
            BY <2>4, Numbers
        <3>2. QED
            BY <1>1, <1>4, <2>5, <3>1 DEF TypeOK, Goto
    <2>9. BatchInv'
        BY <1>1, <1>4, <2>1 DEF Inv, BatchInv
    <2>10. OrderInv'
        <3>1. \A u \in Task : pc'[u] \in {"drain", "draining", "full"} => FALSE
            BY <1>1, <2>1, <2>2 DEF Inv, OrderInv, Taken
        <3>2. QED
            BY <1>1, <2>2, <2>4, <3>1 DEF Inv, OrderInv
    <2>11. QueueInv'
        <3>1. \A i, j \in DOMAIN queue' : i < j => ticket[queue'[i]] < ticket[queue'[j]]
            <4>1. ASSUME NEW i \in DOMAIN queue', NEW j \in DOMAIN queue', i < j
                  PROVE  ticket[queue'[i]] < ticket[queue'[j]]
                <5>1. i \in DOMAIN queue
                    BY <2>5, <4>1
                <5>2. CASE j \in DOMAIN queue
                    BY <2>5, <4>1, <5>1, <5>2 DEF Inv, QueueInv
                <5>3. CASE j = Len(queue) + 1
                    <6>1. queue[i] \in Queued /\ queue'[i] = queue[i] /\ queue'[j] = t
                        BY <2>5, <2>6, <5>1, <5>3
                    <6>2. QED
                        BY <1>1, <2>7, <6>1
                <5>4. QED
                    BY <2>5, <5>2, <5>3
            <4>2. QED
                BY <4>1
        <3>2. \A u \in Queued' \cup record.tasks : Taken(u)' /\ ~ Held(u)' /\ ticket[u] < turn'
            BY <2>2, <2>4, <2>6, <2>7, Numbers DEF Inv, QueueInv
        <3>3. \A u \in record.tasks : \A w \in Queued' : ticket[u] < ticket[w]
            BY <1>1, <2>6, <2>7 DEF Inv, QueueInv
        <3>4. \A u \in Task : pc'[u] \in {"draining", "writing"} <=> running = u
            BY <1>1, <2>1 DEF Inv, QueueInv
        <3>5. \A u \in Task : pc'[u] \notin {"draining", "full"}
            BY <1>1, <2>1, <2>2 DEF Inv, OrderInv, Taken
        <3>6. QED
            BY <1>1, <1>4, <3>1, <3>2, <3>3, <3>4, <3>5 DEF Inv, QueueInv
    <2>12. StoreInv'
        <3>1. \A u \in Task : Pending(u)' => Pending(u)
            BY <1>1, <1>4, <2>2, <2>6 DEF Pending
        <3>2. QED
            BY <1>1, <1>4, <3>1 DEF Inv, StoreInv
    <2>13. CoverInv'
        <3> SUFFICES ASSUME ~ Abandoned' PROVE CoverInv'
            BY DEF CoverInv
        <3>1. \A k \in Key : \A v : Covered(k, v) => Covered(k, v)'
            BY <1>1, <1>4, <2>2 DEF Covered
        <3>2. \A k \in Key : Covered(k, acked[k])'
            BY <1>4, <2>3, <3>1 DEF Inv, CoverInv, Covered
        <3>3. ASSUME NEW u \in Task, Taken(u)', batch'[u].epoch < epoch' \/ done'[u] = "ok", NEW k \in Key
              PROVE  Covered(k, batch[u].ops[k])'
            <4>1. Covered(k, batch[u].ops[k])
                BY <1>1, <1>4, <2>2, <2>3, <3>3 DEF Inv, CoverInv
            <4>2. QED
                BY <1>1, <3>1, <4>1 DEF Covered
        <3>4. QED
            BY <3>2, <3>3 DEF CoverInv, Covered
    <2>14. WaitInv'
        BY <1>4, <2>1, <2>3, <2>6 DEF Inv, WaitInv
    <2>15. NoChangeForgotten'
        BY <1>1, <2>1, <2>3 DEF Inv, NoChangeForgotten, Carries
    <2>16. QED
        BY <1>1, <2>8, <2>9, <2>10, <2>11, <2>12, <2>13, <2>14, <2>15, Frame DEF Inv
<1>5. QED
    BY <1>2, <1>3, <1>4 DEF Turn

-----------------------------------------------------------------------------
\* What a record makes of a key is as new as what any batch in it has, and comes
\* from one of them.
LEMMA QueuedOpsFacts ==
    ASSUME Inv
    PROVE  /\ QueuedOps \in [Key -> Same..MaxChanges]
           /\ \A k \in Key, u \in InRecord : batch[u].ops[k] <= QueuedOps[k]
           /\ \A k \in Key : QueuedOps[k] # Same => \E u \in InRecord : QueuedOps[k] = batch[u].ops[k]
<1> TypeOK
    BY DEF Inv
<1>1. DOMAIN queue = 1..Len(queue) /\ Len(queue) \in Nat /\ \A i \in DOMAIN queue : queue[i] \in Task
    BY DEF TypeOK
<1>2. ASSUME NEW k \in Key
      PROVE  /\ QueuedOps[k] \in Same..MaxChanges
             /\ \A u \in InRecord : batch[u].ops[k] <= QueuedOps[k]
             /\ QueuedOps[k] # Same => \E u \in InRecord : QueuedOps[k] = batch[u].ops[k]
    <2>1. CASE Writing(k) = {}
        <3>1. QueuedOps[k] = Same
            BY <2>1 DEF QueuedOps
        <3>2. \A u \in InRecord : batch[u].ops[k] = Same
            BY <2>1 DEF Writing, InRecord, Queued, Range
        <3>3. QED
            BY <3>1, <3>2, Numbers, BoundsAssumption
    <2>2. CASE Writing(k) # {}
        <3>1. Writing(k) \in SUBSET (0..Len(queue))
            BY <1>1 DEF Writing
        <3>2. PICK last \in Writing(k) : last = Max(Writing(k)) /\ \A i \in Writing(k) : i <= last
            BY <1>1, <2>2, <3>1, MaxIsMember
        <3>3. QueuedOps[k] = batch[queue[last]].ops[k]
            BY <2>2, <3>2 DEF QueuedOps
        <3>4. /\ last \in DOMAIN queue /\ queue[last] \in InRecord /\ queue[last] \in Task
              /\ batch[queue[last]].ops[k] # Same /\ Taken(queue[last])
            BY <1>1, <3>2 DEF Writing, Inv, QueueInv, InRecord
        <3>5. ASSUME NEW u \in InRecord PROVE batch[u].ops[k] <= batch[queue[last]].ops[k]
            <4>1. PICK i \in DOMAIN queue : u = queue[i]
                BY DEF InRecord, Queued, Range
            <4>2. u \in Task /\ Taken(u)
                BY <1>1, <4>1, <3>5 DEF Inv, QueueInv, InRecord
            <4>3. CASE batch[u].ops[k] = Same
                BY <3>4, <4>3, Numbers
            <4>4. CASE batch[u].ops[k] # Same
                <5>1. i \in Writing(k)
                    BY <3>5, <4>1, <4>4 DEF Writing
                <5>2. i < last \/ i = last
                    BY <1>1, <3>2, <3>4, <5>1
                <5>3. CASE i = last
                    BY <3>4, <4>1, <5>3, Numbers
                <5>4. CASE i < last
                    <6>1. ticket[u] < ticket[queue[last]]
                        BY <3>4, <4>1, <5>4 DEF Inv, QueueInv
                    <6>2. QED
                        BY <3>4, <4>2, <6>1 DEF Inv, OrderInv
                <5>5. QED
                    BY <5>2, <5>3, <5>4
            <4>5. QED
                BY <4>3, <4>4
        <3>6. batch[queue[last]].ops[k] \in Same..MaxChanges
            BY <3>4 DEF TypeOK
        <3>7. QED
            BY <3>3, <3>4, <3>5, <3>6
    <2>3. QED
        BY <2>1, <2>2
<1>3. QueuedOps = [k \in Key |-> QueuedOps[k]]
    BY DEF QueuedOps
<1>4. QED
    BY <1>2, <1>3

\* Who has `running` takes everything queued for one record, or finds nothing.
LEMMA WriteQueuedStep == ASSUME Inv, NEW t \in Task, WriteQueued(t) PROVE Inv'
<1> TypeOK
    BY DEF Inv
<1>1. /\ pc[t] \in {"drain", "locking"} /\ running = None /\ queue' = <<>>
      /\ done' = [u \in Task |-> IF u \in Queued \ InRecord THEN "ok" ELSE done[u]]
      /\ UNCHANGED <<mem, dirty, needFull, epoch, nextTicket, turn, finished, store, batch, ticket, acked, changes, errors>>
    BY DEF WriteQueued, sinkState, order, bounds
<1>2. PICK where \in {"draining", "full", "writing", "written"} :
        /\ pc' = [pc EXCEPT ![t] = where]
        /\ where \in {"draining", "full"} <=> pc[t] = "drain"
        /\ where \in {"draining", "writing"} <=> InRecord # {}
        /\ IF InRecord = {} THEN UNCHANGED <<running, record>>
           ELSE running' = t /\ record' = [ops |-> QueuedOps, epoch |-> epoch, tasks |-> InRecord]
    BY <1>1 DEF WriteQueued, Goto
<1>3. pc'[t] = where /\ \A u \in Task \ {t} : pc'[u] = pc[u]
    BY <1>2 DEF TypeOK
<1>4. /\ \A u \in Task : (Held(u)' <=> Held(u)) /\ (Taken(u)' <=> Taken(u))
      /\ Queued' = {} /\ InRecord \subseteq Queued /\ \A u \in Queued : u \in Task
    BY <1>1, <1>2, <1>3, SMTT(30) DEF Held, Taken, Queued, Range, InRecord, TypeOK
<1>5. Abandoned' <=> Abandoned
    BY <1>1, <1>2, <1>3 DEF Abandoned
<1>6. record.tasks = {} /\ \A u \in Task : pc[u] \notin {"draining", "writing"}
    BY <1>1, TaskAssumption DEF Inv, QueueInv
<1>7. /\ record'.tasks = InRecord
      /\ \A k \in Key, u \in InRecord : batch[u].ops[k] <= record'.ops[k] /\ batch[u].epoch = record'.epoch
      /\ \A k \in Key : record'.ops[k] # Same => \E u \in InRecord : record'.ops[k] = batch[u].ops[k]
      /\ record' \in [ops : [Key -> Same..MaxChanges], epoch : Nat, tasks : SUBSET Task]
    <2>1. CASE InRecord = {}
        BY <1>2, <1>6, <2>1 DEF Inv, QueueInv, TypeOK
    <2>2. CASE InRecord # {}
        <3>1. record' = [ops |-> QueuedOps, epoch |-> epoch, tasks |-> InRecord]
            BY <1>2, <2>2
        <3>2. InRecord \in SUBSET Task /\ \A u \in InRecord : batch[u].epoch = epoch
            BY <1>4 DEF InRecord
        <3>3. QED
            BY <3>1, <3>2, QueuedOpsFacts DEF TypeOK
    <2>3. QED
        BY <2>1, <2>2
<1>8. TypeOK'
    <2>1. running' \in Task \cup {None} /\ queue' \in Seq(Task) /\ done' \in [Task -> {"none", "ok", "err"}]
        BY <1>1, <1>2 DEF TypeOK
    <2>2. QED
        BY <1>1, <1>2, <1>7, <2>1 DEF TypeOK
<1>9. BatchInv'
    BY <1>1, <1>2, <1>3, <1>4 DEF Inv, BatchInv, QueueInv, Taken
<1>10. OrderInv'
    BY <1>1, <1>2, <1>3, <1>4 DEF Inv, OrderInv
<1>11. QueueInv'
    <2>1. \A u \in Queued' \cup record'.tasks : Taken(u)' /\ ~ Held(u)' /\ ticket'[u] < turn'
        BY <1>1, <1>4, <1>7 DEF Inv, QueueInv
    <2>2. running' = None => record'.tasks = {}
        BY <1>2, <1>7, TaskAssumption
    <2>3. \A u \in Task : pc'[u] \in {"draining", "writing"} <=> running' = u
        BY <1>1, <1>2, <1>3, <1>6, TaskAssumption
    <2>4. \A u \in Task : pc'[u] = "full" => running' = None
        <3>1. ASSUME NEW u \in Task, pc'[u] = "full" PROVE InRecord = {}
            <4>1. CASE u = t
                BY <1>2, <1>3, <3>1, <4>1
            <4>2. CASE u # t
                <5>1. queue = <<>>
                    BY <1>3, <3>1, <4>2 DEF Inv, QueueInv
                <5>2. QED
                    BY <5>1 DEF InRecord, Queued, Range
            <4>3. QED
                BY <4>1, <4>2
        <3>2. QED
            BY <1>1, <1>2, <3>1
    <2>5. DOMAIN queue' = {}
        BY <1>1
    <2>6. \A u \in record'.tasks :
            /\ \A w \in Queued' : ticket'[u] < ticket'[w]
            /\ batch'[u].epoch = record'.epoch
            /\ \A k \in Key : batch'[u].ops[k] <= record'.ops[k]
        <3>1. ASSUME NEW u \in InRecord PROVE batch[u].epoch = record'.epoch
            <4>1. CASE InRecord = {}
                BY <4>1
            <4>2. CASE InRecord # {}
                BY <1>2, <4>2 DEF InRecord
            <4>3. QED
                BY <4>1, <4>2
        <3>2. QED
            BY <1>1, <1>4, <1>7, <3>1
    <2>7. \A k \in Key : record'.ops[k] # Same => \E u \in record'.tasks : record'.ops[k] = batch'[u].ops[k]
        BY <1>1, <1>7
    <2>8. \A i, j \in DOMAIN queue' : i < j => ticket'[queue'[i]] < ticket'[queue'[j]]
        BY <2>5
    <2>9. QED
        BY <1>1, <2>1, <2>2, <2>3, <2>4, <2>6, <2>7, <2>8 DEF QueueInv
<1>12. StoreInv'
    <2>1. \A u \in Task : Pending(u)' => Pending(u)
        BY <1>4, <1>7 DEF Pending
    <2>2. QED
        BY <1>1, <2>1 DEF Inv, StoreInv
<1>13. CoverInv'
    <2> SUFFICES ASSUME ~ Abandoned' PROVE CoverInv'
        BY DEF CoverInv
    <2>1. \A k \in Key : \A v : Covered(k, v) => Covered(k, v)'
        BY <1>1, <1>4 DEF Covered
    <2>2. \A k \in Key : Covered(k, acked[k])'
        BY <1>1, <1>5, <2>1 DEF Inv, CoverInv, Covered
    <2>3. ASSUME NEW u \in Task, Taken(u)', batch'[u].epoch < epoch' \/ done'[u] = "ok", NEW k \in Key
          PROVE  Covered(k, batch[u].ops[k])'
        <3>1. batch[u].epoch < epoch \/ done[u] = "ok"
            <4>1. CASE u \in Queued \ InRecord
                BY <4>1, Numbers DEF InRecord, Inv, BatchInv
            <4>2. CASE u \notin Queued \ InRecord
                BY <1>1, <2>3, <4>2
            <4>3. QED
                BY <4>1, <4>2
        <3>2. Covered(k, batch[u].ops[k])
            BY <1>4, <1>5, <2>3, <3>1 DEF Inv, CoverInv
        <3>3. QED
            BY <1>1, <2>1, <3>2 DEF Covered
    <2>4. QED
        BY <2>2, <2>3 DEF CoverInv, Covered
<1>14. WaitInv'
    <2> SUFFICES ASSUME ~ Abandoned', NEW u \in Task, pc'[u] \in {"queued", "locking", "writing", "written"}
                 PROVE  u \in record'.tasks \/ done'[u] # "none"
        BY DEF WaitInv
    <2>1. u \in Queued \/ done[u] # "none"
        BY <1>1, <1>2, <1>3, <1>5, <1>6 DEF Inv, WaitInv
    <2>2. QED
        BY <1>1, <1>7, <2>1
<1>15. NoChangeForgotten'
    BY <1>1, <1>2, <1>3, <1>5 DEF Inv, NoChangeForgotten, Carries
<1>16. QED
    BY <1>1, <1>8, <1>9, <1>10, <1>11, <1>12, <1>13, <1>14, <1>15, Frame DEF Inv

\* A record's write ends, well or not: those in it are told, and what it brought
\* is in the store unless the store had been given up since.
LEMMA EndRecordStep ==
    ASSUME Inv, NEW t \in Task, NEW how \in {"ok", "err"}, EndRecord(t, how), errors' \in 0..MaxErrors,
           store' = store \/ store' = Over(store, record.ops),
           how = "ok" /\ record.epoch = epoch => store' = Over(store, record.ops)
    PROVE  Inv'
<1> TypeOK
    BY DEF Inv
<1>1. /\ pc[t] \in {"draining", "writing"} /\ running' = None /\ record' = NoRecord
      /\ done' = [u \in Task |-> IF u \in record.tasks THEN how ELSE done[u]]
      /\ UNCHANGED <<mem, dirty, needFull, epoch, nextTicket, turn, finished, queue, batch, ticket, acked, changes>>
    BY DEF EndRecord, sinkState, order
<1>2. PICK where \in {"full", "written"} :
        pc' = [pc EXCEPT ![t] = where] /\ (where = "full" <=> pc[t] = "draining")
    BY <1>1 DEF EndRecord, Goto
<1>3. pc'[t] = where /\ \A u \in Task \ {t} : pc'[u] = pc[u]
    BY <1>2 DEF TypeOK
<1>4. \A u \in Task : (Held(u)' <=> Held(u)) /\ (Taken(u)' <=> Taken(u))
    BY <1>1, <1>2, <1>3 DEF Held, Taken
<1>5. Queued' = Queued /\ (\A u \in Queued : u \in Task) /\ (Abandoned' <=> Abandoned)
    BY <1>1, <1>2, <1>3 DEF Queued, Range, TypeOK, Abandoned
<1>6. record'.tasks = {} /\ \A k \in Key : record'.ops[k] = Same
    BY <1>1 DEF NoRecord, NoOps
<1>7. running = t
    BY <1>1 DEF Inv, QueueInv
<1>8. /\ store' \in [Key -> 0..MaxChanges]
      /\ \A k \in Key : store[k] <= store'[k] /\ store'[k] <= mem[k]
      /\ \A u \in Task, k \in Key : (Held(u) \/ u \in Queued) /\ batch[u].ops[k] # Same => store'[k] <= batch[u].ops[k]
    <2>1. CASE store' = store
        <3>1. StoreInv
            BY DEF Inv
        <3>2. \A k \in Key : store[k] <= store[k]
            BY Numbers
        <3>3. store \in [Key -> 0..MaxChanges]
            BY DEF TypeOK
        <3>4. QED
            BY <2>1, <3>1, <3>2, <3>3 DEF StoreInv, Pending
    <2>2. CASE store' = Over(store, record.ops)
        BY <2>2, RecordWritten
    <2>3. QED
        BY <2>1, <2>2
<1>9. TypeOK'
    <2>1. record' \in [ops : [Key -> Same..MaxChanges], epoch : Nat, tasks : SUBSET Task]
        BY <1>1, BoundsAssumption DEF NoRecord, NoOps, Same
    <2>2. done' \in [Task -> {"none", "ok", "err"}]
        BY <1>1 DEF TypeOK
    <2>3. QED
        BY <1>1, <1>2, <1>8, <2>1, <2>2 DEF TypeOK
<1>10. BatchInv'
    <2>1. \A u \in Task : pc'[u] = "idle" => done'[u] = "none"
        <3>1. \A u \in record.tasks : pc[u] # "idle"
            BY DEF Inv, QueueInv, Taken
        <3>2. QED
            BY <1>1, <1>2, <1>3, <3>1 DEF Inv, BatchInv
    <2>2. \A u \in Task : pc'[u] \in {"drain", "draining", "full"} => batch[u].kind = "full"
        BY <1>1, <1>2, <1>3 DEF Inv, BatchInv
    <2>3. QED
        BY <1>1, <2>1, <2>2 DEF Inv, BatchInv
<1>11. OrderInv'
    <2>1. \A u \in Task : pc'[u] \in {"drain", "draining", "full"} => ticket[u] = turn
        BY <1>1, <1>2, <1>3 DEF Inv, OrderInv
    <2>2. QED
        BY <1>1, <1>4, <2>1 DEF Inv, OrderInv
<1>12. QueueInv'
    <2>1. \A u \in Task : pc'[u] \in {"draining", "writing"} <=> running' = u
        BY <1>1, <1>2, <1>3, <1>7, TaskAssumption DEF Inv, QueueInv
    <2>2. \A u \in Task : pc'[u] \in {"draining", "full"} => queue' = <<>>
        BY <1>1, <1>2, <1>3 DEF Inv, QueueInv
    <2>3. \A u \in Queued' \cup record'.tasks : Taken(u)' /\ ~ Held(u)' /\ ticket'[u] < turn'
        BY <1>1, <1>4, <1>5, <1>6 DEF Inv, QueueInv
    <2>4. \A i, j \in DOMAIN queue' : i < j => ticket'[queue'[i]] < ticket'[queue'[j]]
        BY <1>1 DEF Inv, QueueInv
    <2>5. QED
        BY <1>1, <1>6, <2>1, <2>2, <2>3, <2>4 DEF QueueInv
<1>13. StoreInv'
    <2>1. \A u \in Task : Pending(u)' => Held(u) \/ u \in Queued
        BY <1>4, <1>5, <1>6 DEF Pending
    <2>2. \A k \in Key : acked[k] <= mem[k]
        BY DEF Inv, StoreInv
    <2>3. QED
        BY <1>1, <1>8, <2>1, <2>2 DEF StoreInv
<1>14. CoverInv'
    <2> SUFFICES ASSUME ~ Abandoned' PROVE CoverInv'
        BY DEF CoverInv
    <2>1. CoverInv /\ ~ Abandoned
        BY <1>5 DEF Inv
    <2>2. ASSUME NEW k \in Key, NEW v \in Int, v <= mem[k], Covered(k, v) PROVE Covered(k, v)'
        <3>1. \A u \in Task : Held(u) => batch'[u] = batch[u] /\ Held(u)'
            BY <1>1, <1>4
        <3>2. QED
            BY <1>1, <1>8, <1>9, <2>2, <3>1, CoveredStays
    <2>3. ASSUME NEW k \in Key PROVE Covered(k, acked[k])'
        <3>1. Covered(k, acked[k]) /\ acked[k] <= mem[k] /\ acked[k] \in Int
            BY <2>1, Numbers DEF CoverInv, Inv, StoreInv
        <3>2. QED
            BY <1>1, <2>2, <3>1 DEF Covered
    <2>4. ASSUME NEW u \in Task, Taken(u)', batch'[u].epoch < epoch' \/ done'[u] = "ok", NEW k \in Key
          PROVE  Covered(k, batch[u].ops[k])'
        <3>1. batch[u].ops[k] \in Int /\ batch[u].ops[k] <= mem[k] /\ Taken(u)
            BY <1>4, <2>4, Numbers DEF Inv, BatchInv
        <3>2. CASE batch[u].epoch < epoch \/ done[u] = "ok"
            <4>1. Covered(k, batch[u].ops[k])
                BY <2>1, <3>1, <3>2 DEF CoverInv
            <4>2. QED
                BY <1>1, <2>2, <3>1, <4>1 DEF Covered
        <3>3. CASE ~ (batch[u].epoch < epoch \/ done[u] = "ok")
            <4>1. u \in record.tasks /\ how = "ok"
                BY <1>1, <2>4, <3>3
            <4>2. batch[u].epoch = record.epoch /\ batch[u].ops[k] <= record.ops[k]
                BY <4>1 DEF Inv, QueueInv
            <4>3. batch[u].epoch <= epoch
                BY DEF Inv, BatchInv
            <4>4. record.epoch = epoch
                BY <3>3, <4>2, <4>3, Numbers
            <4>5. store' = Over(store, record.ops)
                BY <4>1, <4>4
            <4>6. record.ops[k] <= store'[k]
                BY <4>5, RecordWritten
            <4>7. store'[k] >= batch[u].ops[k]
                BY <4>2, <4>6, <1>9, Numbers, NumbersAfter
            <4>8. QED
                BY <1>1, <4>7 DEF Covered
        <3>4. QED
            BY <3>2, <3>3
    <2>5. QED
        BY <1>1, <2>3, <2>4 DEF CoverInv, Covered
<1>15. WaitInv'
    <2> SUFFICES ASSUME ~ Abandoned', NEW u \in Task, pc'[u] \in {"queued", "locking", "writing", "written"}
                 PROVE  u \in Queued' \/ done'[u] # "none"
        BY DEF WaitInv
    <2>1. u \in Queued \/ u \in record.tasks \/ done[u] # "none"
        BY <1>1, <1>2, <1>3, <1>5 DEF Inv, WaitInv
    <2>2. QED
        BY <1>1, <1>5, <2>1
<1>16. NoChangeForgotten'
    <2> SUFFICES ASSUME ~ Abandoned', ~ needFull', NEW k \in Key
                 PROVE  store'[k] = mem'[k] \/ k \in dirty' \/ \E u \in Task : Carries(u, k)'
        BY DEF NoChangeForgotten
    <2>1. store[k] = mem[k] \/ k \in dirty \/ \E u \in Task : Carries(u, k)
        BY <1>1, <1>5 DEF Inv, NoChangeForgotten
    <2>2. CASE store[k] = mem[k]
        BY <1>1, <1>8, <1>9, <2>2, Numbers, NumbersAfter
    <2>3. CASE k \in dirty
        BY <1>1, <2>3
    <2>4. CASE \E u \in Task : Carries(u, k)
        BY <1>1, <1>2, <1>3, <2>4 DEF Carries
    <2>5. QED
        BY <2>1, <2>2, <2>3, <2>4
<1>17. QED
    BY <1>1, <1>9, <1>10, <1>11, <1>12, <1>13, <1>14, <1>15, <1>16, Frame DEF Inv

\* The record is written, or dropped when the store was given up since.
LEMMA WriteRecordStep == ASSUME Inv, NEW t \in Task, WriteRecord(t) PROVE Inv'
<1>1. errors' \in 0..MaxErrors
    BY DEF WriteRecord, Inv, TypeOK
<1>2. EndRecord(t, "ok") /\ store' = IF record.epoch = epoch THEN Over(store, record.ops) ELSE store
    BY DEF WriteRecord
<1>3. QED
    BY <1>1, <1>2, EndRecordStep

\* The record's write fails.
LEMMA WriteRecordFailsStep == ASSUME Inv, NEW t \in Task, WriteRecordFails(t) PROVE Inv'
<1>1. errors' \in 0..MaxErrors
    BY BoundsAssumption DEF WriteRecordFails, MayFail, Inv, TypeOK
<1>2. EndRecord(t, "err") /\ (store' = store \/ store' = Over(store, record.ops))
    BY DEF WriteRecordFails
<1>3. QED
    BY <1>1, <1>2, EndRecordStep

\* A queued batch has ended: what it had is covered when it is answered Ok, and
\* written whole next time when it is not.
LEMMA EndedStep == ASSUME Inv, NEW t \in Task, Ended(t) PROVE Inv'
<1> TypeOK
    BY DEF Inv
<1>1. /\ pc[t] \in {"written", "queued"}
      /\ UNCHANGED <<mem, dirty, nextTicket, turn, finished, queue, running, done, record, store, batch, ticket, changes, errors>>
    BY DEF Ended, order, commit, bounds
<1>2. PICK where \in {"ok", "failed"} :
        /\ pc' = [pc EXCEPT ![t] = where]
        /\ where = "ok" => /\ done[t] = "ok" /\ UNCHANGED <<needFull, epoch>>
                           /\ acked' = [k \in Key |-> IF batch[t].ops[k] > acked[k] THEN batch[t].ops[k] ELSE acked[k]]
        /\ where = "failed" => acked' = acked /\ needFull' = TRUE /\ epoch' = epoch + 1
    BY DEF Ended, Answer, Goto, WrittenWholeNext, sinkState
<1>3. pc'[t] = where /\ \A u \in Task \ {t} : pc'[u] = pc[u]
    BY <1>2 DEF TypeOK
<1>4. /\ \A u \in Task : (Held(u)' <=> Held(u)) /\ (Taken(u)' <=> Taken(u)) /\ (Pending(u)' <=> Pending(u))
      /\ ~ Held(t) /\ Taken(t) /\ (Abandoned' <=> Abandoned) /\ Queued' = Queued
    BY <1>1, <1>3 DEF Held, Taken, Pending, Queued, Abandoned
<1>5. epoch' \in Nat /\ epoch <= epoch' /\ needFull' \in BOOLEAN
    <2>1. CASE where = "ok"
        BY <1>2, <2>1, Numbers DEF TypeOK
    <2>2. CASE where = "failed"
        <3>1. epoch' \in Nat /\ epoch <= epoch'
            BY <1>2, <2>2, Numbers
        <3>2. needFull' \in BOOLEAN
            BY <1>2, <2>2
        <3>3. QED
            BY <3>1, <3>2
    <2>3. QED
        BY <2>1, <2>2
<1>6. /\ \A k \in Key : acked'[k] = acked[k] \/ (where = "ok" /\ acked'[k] = batch[t].ops[k])
      /\ \A k \in Key : acked'[k] <= mem[k]
      /\ acked' \in [Key -> 0..MaxChanges]
    <2>1. CASE where = "ok"
        <3>1. \A k \in Key : batch[t].ops[k] <= mem[k] /\ acked[k] <= mem[k]
            BY DEF Inv, BatchInv, StoreInv
        <3>2. acked' = [k \in Key |-> IF batch[t].ops[k] > acked[k] THEN batch[t].ops[k] ELSE acked[k]]
            BY <1>2, <2>1
        <3>3. ASSUME NEW k \in Key PROVE acked'[k] \in 0..MaxChanges
            <4>1. mem[k] <= MaxChanges
                BY DEF TypeOK
            <4>2. QED
                BY <3>1, <3>2, <4>1, Numbers, BoundsAssumption
        <3>4. QED
            BY <2>1, <3>1, <3>2, <3>3
    <2>2. CASE where = "failed"
        BY <1>2, <2>2 DEF Inv, StoreInv, TypeOK
    <2>3. QED
        BY <2>1, <2>2
<1>7. TypeOK'
    BY <1>1, <1>2, <1>5, <1>6 DEF TypeOK
<1>8. BatchInv'
    <2>1. \A u \in Task : batch[u].epoch <= epoch'
        BY <1>5, Numbers DEF Inv, BatchInv
    <2>2. QED
        BY <1>1, <1>3, <2>1 DEF Inv, BatchInv
<1>9. OrderInv'
    BY <1>1, <1>3, <1>4 DEF Inv, OrderInv
<1>10. QueueInv'
    <2>1. \A u \in Task : /\ pc'[u] \in {"draining", "writing"} <=> pc[u] \in {"draining", "writing"}
                          /\ pc'[u] \in {"draining", "full"} <=> pc[u] \in {"draining", "full"}
                          /\ pc'[u] = "full" <=> pc[u] = "full"
        BY <1>1, <1>3
    <2>2. \A u \in Queued \cup record.tasks : u \in Task
        BY DEF Queued, Range, TypeOK
    <2>3. QED
        BY <1>1, <1>4, <2>1, <2>2 DEF Inv, QueueInv
<1>11. StoreInv'
    BY <1>1, <1>4, <1>6 DEF Inv, StoreInv
<1>12. ASSUME NEW k \in Key, NEW v, Covered(k, v) PROVE Covered(k, v)'
    BY <1>1, <1>2, <1>4, <1>12 DEF Covered
<1>13. CoverInv'
    <2> SUFFICES ASSUME ~ Abandoned' PROVE CoverInv'
        BY DEF CoverInv
    <2>1. CoverInv /\ ~ Abandoned
        BY <1>4 DEF Inv
    <2>2. ASSUME NEW k \in Key PROVE Covered(k, acked[k])' /\ (where = "ok" => Covered(k, batch[t].ops[k])')
        <3>1. Covered(k, acked[k]) /\ (where = "ok" => Covered(k, batch[t].ops[k]))
            BY <1>2, <1>4, <2>1 DEF CoverInv
        <3>2. \A v : Covered(k, v) => store'[k] >= v \/ needFull' \/ \E u \in Task : batch'[u].kind = "full" /\ batch'[u].ops[k] >= v /\ Held(u)'
            BY <1>12 DEF Covered
        <3>3. QED
            BY <1>1, <1>6, <3>1, <3>2 DEF Covered
    <2>3. ASSUME NEW u \in Task, Taken(u)', batch'[u].epoch < epoch' \/ done'[u] = "ok", NEW k \in Key
          PROVE  Covered(k, batch[u].ops[k])'
        <3>1. CASE where = "failed"
            BY <1>2, <3>1 DEF Covered
        <3>2. CASE where = "ok"
            <4>1. Covered(k, batch[u].ops[k])
                BY <1>1, <1>2, <1>4, <2>1, <2>3, <3>2 DEF CoverInv
            <4>2. QED
                BY <1>1, <1>12, <4>1 DEF Covered
        <3>3. QED
            BY <3>1, <3>2
    <2>4. QED
        BY <1>1, <2>2, <2>3 DEF CoverInv, Covered
<1>14. WaitInv'
    BY <1>1, <1>3, <1>4 DEF Inv, WaitInv
<1>15. NoChangeForgotten'
    <2> SUFFICES ASSUME ~ Abandoned', ~ needFull', NEW k \in Key
                 PROVE  store'[k] = mem'[k] \/ k \in dirty' \/ \E u \in Task : Carries(u, k)'
        BY DEF NoChangeForgotten
    <2>1. ~ Abandoned /\ ~ needFull /\ where = "ok" /\ done[t] = "ok"
        BY <1>2, <1>4
    <2>2. store[k] = mem[k] \/ k \in dirty \/ \E u \in Task : Carries(u, k)
        BY <2>1 DEF Inv, NoChangeForgotten
    <2>3. CASE \E u \in Task : Carries(u, k)
        <3>1. PICK u \in Task : Carries(u, k)
            BY <2>3
        <3>2. CASE u # t
            BY <1>1, <1>3, <3>1, <3>2 DEF Carries
        <3>3. CASE u = t
            <4>1. batch[t].ops[k] = mem[k]
                BY <3>1, <3>3 DEF Carries
            <4>2. Covered(k, batch[t].ops[k])
                BY <1>4, <2>1 DEF Inv, CoverInv
            <4>3. CASE store[k] >= mem[k]
                BY <1>1, <4>3, Numbers DEF Inv, StoreInv
            <4>4. CASE \E w \in Task : batch[w].kind = "full" /\ batch[w].ops[k] >= mem[k] /\ Held(w)
                <5>1. PICK w \in Task : batch[w].ops[k] >= mem[k] /\ Held(w)
                    BY <4>4
                <5>2. batch[w].ops[k] = mem[k] /\ w # t
                    BY <1>4, <5>1, Numbers DEF Inv, BatchInv
                <5>3. Carries(w, k)'
                    BY <1>1, <1>3, <5>1, <5>2 DEF Carries, Held
                <5>4. QED
                    BY <5>3
            <4>5. QED
                BY <2>1, <4>1, <4>2, <4>3, <4>4 DEF Covered
        <3>4. QED
            BY <3>2, <3>3
    <2>4. QED
        BY <1>1, <2>2, <2>3
<1>16. QED
    BY <1>1, <1>7, <1>8, <1>9, <1>10, <1>11, <1>13, <1>14, <1>15, Frame DEF Inv

\* A caller is abandoned, with the ticket and the lock it holds: what remains to be
\* written is in order, and the store is not ahead of it.
LEMMA AbandonStep == ASSUME Inv, NEW t \in Task, Abandon(t) PROVE Inv'
<1> TypeOK
    BY DEF Inv
<1>1. /\ pc[t] \in {"sync", "turn", "drain", "draining", "full", "queued", "locking", "writing"}
      /\ pc' = [pc EXCEPT ![t] = "abandoned"]
      /\ IF running = t THEN running' = None /\ record' = NoRecord ELSE UNCHANGED <<running, record>>
      /\ UNCHANGED <<mem, dirty, queue, done, batch, ticket, acked, changes, errors>>
    BY DEF Abandon, Goto, bounds
<1>2. (needFull' = TRUE /\ epoch' = epoch + 1) \/ UNCHANGED <<needFull, epoch>>
    BY DEF Abandon, DropRecords, WrittenWholeNext, sinkState
<1>3. (Held(t) /\ Release(ticket[t])) \/ (~ Held(t) /\ UNCHANGED <<nextTicket, turn, finished>>)
    BY <1>1 DEF Abandon, DropRecords, Held, order
<1>4. \/ store' = store
      \/ running = t /\ store' = Over(store, record.ops)
      \/ pc[t] = "full" /\ store' = batch[t].ops
    BY DEF Abandon
<1>5. pc'[t] = "abandoned" /\ \A u \in Task \ {t} : pc'[u] = pc[u]
    BY <1>1 DEF TypeOK
<1>6. /\ \A u \in Task \ {t} : (Held(u)' <=> Held(u)) /\ (Taken(u)' <=> Taken(u))
      /\ Taken(t)' /\ Taken(t) /\ ~ Held(t)' /\ Queued' = Queued /\ Abandoned'
      /\ \A u \in Queued \cup record.tasks : u \in Task
    BY <1>1, <1>5 DEF Held, Taken, Queued, Abandoned, Range, TypeOK
<1>7. /\ nextTicket' = nextTicket /\ turn' \in Nat /\ turn <= turn' /\ turn' <= nextTicket
      /\ \A n \in finished' : n \in Nat /\ turn' < n /\ n < nextTicket
      /\ \A u \in Task : Held(u) /\ u # t => turn' <= ticket[u] /\ ticket[u] \notin finished'
    <2>1. CASE Held(t) /\ Release(ticket[t])
        BY <2>1, ReleaseFacts
    <2>2. CASE ~ Held(t) /\ UNCHANGED <<nextTicket, turn, finished>>
        BY <2>2, Numbers DEF Inv, OrderInv, TypeOK
    <2>3. QED
        BY <1>3, <2>1, <2>2
<1>8. /\ \A k \in Key : store[k] <= store'[k] /\ store'[k] <= mem[k]
      /\ store' \in [Key -> 0..MaxChanges]
    <2>1. CASE store' = store
        BY <2>1, Numbers DEF Inv, StoreInv, TypeOK
    <2>2. CASE store' = Over(store, record.ops)
        BY <2>2, RecordWritten
    <2>3. CASE pc[t] = "full" /\ store' = batch[t].ops
        BY <2>3, WholeWritten
    <2>4. QED
        BY <1>4, <2>1, <2>2, <2>3
<1>9. /\ record'.tasks \subseteq record.tasks
      /\ record' = record \/ (record'.tasks = {} /\ \A k \in Key : record'.ops[k] = Same)
      /\ record' \in [ops : [Key -> Same..MaxChanges], epoch : Nat, tasks : SUBSET Task]
    <2>1. CASE running = t
        BY <1>1, <2>1, BoundsAssumption DEF NoRecord, NoOps, Same
    <2>2. CASE running # t
        BY <1>1, <2>2 DEF TypeOK
    <2>3. QED
        BY <2>1, <2>2
<1>10. TypeOK'
    <2>1. turn' \in 0..nextTicket' /\ finished' \subseteq turn' + 1..nextTicket' /\ nextTicket' \in Nat
        BY <1>7, Numbers
    <2>2. epoch' \in Nat
        BY <1>2, Numbers
    <2>3. epoch' \in Nat /\ needFull' \in BOOLEAN
        <3>1. CASE needFull' = TRUE
            BY <2>2, <3>1
        <3>2. CASE needFull' = needFull
            BY <2>2, <3>2 DEF TypeOK
        <3>3. QED
            BY <1>2, <3>1, <3>2
    <2>4. running' \in Task \cup {None}
        BY <1>1 DEF TypeOK
    <2>5. QED
        BY <1>1, <1>8, <1>9, <2>1, <2>3, <2>4 DEF TypeOK
<1>11. BatchInv'
    <2>1. \A u \in Task : batch[u].epoch <= epoch'
        BY <1>2, Numbers DEF Inv, BatchInv
    <2>2. QED
        BY <1>1, <1>5, <2>1 DEF Inv, BatchInv
<1>12. OrderInv'
    <2>1. ASSUME NEW u \in Task, pc'[u] \in {"drain", "draining", "full"} PROVE ticket[u] = turn'
        <3>1. u # t /\ pc[u] \in {"drain", "draining", "full"}
            BY <1>5, <2>1
        <3>2. ticket[u] = turn /\ Held(u)
            BY <3>1 DEF Inv, OrderInv, Held
        <3>3. turn' <= ticket[u]
            BY <1>7, <3>1, <3>2
        <3>4. QED
            BY <1>7, <3>2, <3>3, Numbers
    <2>2. QED
        BY <1>1, <1>6, <1>7, <2>1 DEF Inv, OrderInv
<1>13. QueueInv'
    <2>1. \A u \in Queued' \cup record'.tasks : Taken(u)' /\ ~ Held(u)' /\ ticket'[u] < turn'
        <3>1. \A u \in Queued \cup record.tasks : Taken(u) /\ ~ Held(u) /\ ticket[u] < turn
            BY DEF Inv, QueueInv
        <3>2. QED
            BY <1>1, <1>6, <1>7, <1>9, <3>1, Numbers
    <2>2. \A u \in Task : pc'[u] \in {"draining", "writing"} <=> running' = u
        <3>1. \A u \in Task : pc[u] \in {"draining", "writing"} <=> running = u
            BY DEF Inv, QueueInv
        <3>2. QED
            BY <1>1, <1>5, <3>1, TaskAssumption
    <2>3. \A u \in Task : pc'[u] \in {"draining", "full"} => queue' = <<>>
        BY <1>1, <1>5 DEF Inv, QueueInv
    <2>4. \A u \in Task : pc'[u] = "full" => running' = None
        BY <1>1, <1>5 DEF Inv, QueueInv
    <2>5. running' = None => record'.tasks = {}
        <3>1. running = None => record.tasks = {}
            BY DEF Inv, QueueInv
        <3>2. QED
            BY <1>1, <3>1 DEF NoRecord
    <2>6. \A i, j \in DOMAIN queue' : i < j => ticket'[queue'[i]] < ticket'[queue'[j]]
        BY <1>1 DEF Inv, QueueInv
    <2>7. \A u \in record'.tasks :
            /\ \A w \in Queued' : ticket'[u] < ticket'[w]
            /\ batch'[u].epoch = record'.epoch
            /\ \A k \in Key : batch'[u].ops[k] <= record'.ops[k]
        BY <1>1, <1>6, <1>9 DEF Inv, QueueInv
    <2>8. \A k \in Key : record'.ops[k] # Same => \E u \in record'.tasks : record'.ops[k] = batch'[u].ops[k]
        BY <1>1, <1>9 DEF Inv, QueueInv
    <2>9. QED
        BY <2>1, <2>2, <2>3, <2>4, <2>5, <2>6, <2>7, <2>8 DEF QueueInv
<1>14. StoreInv'
    <2>1. ASSUME NEW u \in Task, Pending(u)', NEW k \in Key, batch[u].ops[k] # Same PROVE store'[k] <= batch[u].ops[k]
        <3>1. Pending(u)
            BY <1>6, <1>9, <2>1 DEF Pending
        <3>2. CASE store' = store
            BY <2>1, <3>1, <3>2 DEF Inv, StoreInv
        <3>3. CASE running = t /\ store' = Over(store, record.ops)
            <4>1. Held(u) \/ u \in Queued
                BY <1>1, <1>6, <2>1, <3>3 DEF Pending, NoRecord
            <4>2. QED
                BY <2>1, <3>3, <4>1, RecordWritten
        <3>4. CASE pc[t] = "full" /\ store' = batch[t].ops
            <4>1. t \notin Queued /\ t \notin record.tasks
                BY <3>4 DEF Inv, QueueInv, Held
            <4>2. u # t
                BY <1>6, <1>9, <2>1, <4>1 DEF Pending
            <4>3. QED
                BY <2>1, <3>1, <3>4, <4>2, WholeWritten
        <3>5. QED
            BY <1>4, <3>2, <3>3, <3>4
    <2>2. QED
        BY <1>1, <1>8, <2>1 DEF Inv, StoreInv
<1>15. CoverInv' /\ WaitInv' /\ NoChangeForgotten'
    BY <1>6 DEF CoverInv, WaitInv, NoChangeForgotten
<1>16. QED
    BY <1>1, <1>10, <1>11, <1>12, <1>13, <1>14, <1>15, Frame DEF Inv

-----------------------------------------------------------------------------
\* At first nothing is taken, and the first persist writes the store whole.
LEMMA InitInv == Init => Inv
<1> SUFFICES ASSUME Init PROVE Inv
    OBVIOUS
<1>1. /\ mem = [k \in Key |-> 0] /\ dirty = {} /\ needFull = TRUE /\ epoch = 0
      /\ nextTicket = 0 /\ turn = 0 /\ finished = {} /\ queue = <<>> /\ running = None
      /\ done = [t \in Task |-> "none"] /\ store = [k \in Key |-> 0] /\ pc = [t \in Task |-> "idle"]
      /\ batch = [t \in Task |-> NoBatch] /\ ticket = [t \in Task |-> 0] /\ record = NoRecord
      /\ acked = [k \in Key |-> 0] /\ changes = 0 /\ errors = 0
    BY DEF Init
<1>2. /\ NoBatch.kind = "none" /\ NoBatch.epoch = 0 /\ \A k \in Key : NoBatch.ops[k] = Same
      /\ NoBatch \in [kind : {"none", "full", "ops"}, ops : [Key -> Same..MaxChanges], epoch : Nat]
    BY BoundsAssumption DEF NoBatch, NoOps, Same
<1>3. /\ record.tasks = {} /\ \A k \in Key : record.ops[k] = Same
      /\ record \in [ops : [Key -> Same..MaxChanges], epoch : Nat, tasks : SUBSET Task]
    BY <1>1, BoundsAssumption DEF NoRecord, NoOps, Same
<1>4. TypeOK
    <2>1. batch \in [Task -> [kind : {"none", "full", "ops"}, ops : [Key -> Same..MaxChanges], epoch : Nat]]
        BY <1>1, <1>2
    <2>2. QED
        BY <1>1, <1>3, <2>1, BoundsAssumption DEF TypeOK
<1>5. \A t \in Task : ~ Held(t) /\ ~ Taken(t) /\ pc[t] = "idle"
    BY <1>1 DEF Held, Taken
<1>6. ChangesInv
    BY <1>1 DEF ChangesInv
<1>7. BatchInv
    BY <1>1, <1>2, <1>5 DEF BatchInv, Same
<1>8. OrderInv
    BY <1>1, <1>5 DEF OrderInv
<1>9. DOMAIN queue = {} /\ Queued = {}
    BY <1>1 DEF Queued, Range
<1>10. QueueInv
    BY <1>1, <1>3, <1>5, <1>9, TaskAssumption DEF QueueInv
<1>11. StoreInv
    BY <1>1, <1>3, <1>5, <1>9 DEF StoreInv, Pending
<1>12. CoverInv
    BY <1>1, <1>5 DEF CoverInv, Covered
<1>13. WaitInv
    BY <1>5 DEF WaitInv
<1>14. NoChangeForgotten
    BY <1>1 DEF NoChangeForgotten
<1>15. QED
    BY <1>4, <1>6, <1>7, <1>8, <1>10, <1>11, <1>12, <1>13, <1>14 DEF Inv

\* Nothing changes.
LEMMA StutterStep == ASSUME Inv, UNCHANGED vars PROVE Inv'
<1>1. UNCHANGED <<mem, dirty, needFull, epoch, nextTicket, turn, finished, queue, running, done, record, store, pc, batch,
                  ticket, acked, changes, errors>>
    BY DEF vars, sinkState, order, commit, persist, bounds
<1>2. TypeOK'
    BY <1>1 DEF Inv, TypeOK
<1>3. QED
    BY <1>1, <1>2, Frame DEF Inv

\* Every step keeps the invariant.
LEMMA NextInv == ASSUME Inv, [Next]_vars PROVE Inv'
<1>1. CASE \E k \in Key : Change(k)
    BY <1>1, ChangeStep
<1>2. ASSUME NEW t \in Task, Take(t) PROVE Inv'
    BY <1>2, TakeStep
<1>3. ASSUME NEW t \in Task, Step(t) PROVE Inv'
    <2>1. CASE Sync(t)
        BY <2>1, SyncStep
    <2>2. CASE SyncFails(t)
        BY <2>2, SyncFailsStep
    <2>3. CASE Turn(t)
        BY <2>3, TurnStep
    <2>4. CASE WaitToWrite(t)
        BY <2>4, WaitToWriteStep
    <2>5. CASE WriteQueued(t)
        BY <2>5, WriteQueuedStep
    <2>6. CASE WriteRecord(t)
        BY <2>6, WriteRecordStep
    <2>7. CASE WriteRecordFails(t)
        BY <2>7, WriteRecordFailsStep
    <2>8. CASE WriteFull(t)
        BY <2>8, WriteFullStep
    <2>9. CASE WriteFullFails(t)
        BY <2>9, WriteFullFailsStep
    <2>10. CASE Ended(t)
        BY <2>10, EndedStep
    <2>11. QED
        BY <1>3, <2>1, <2>2, <2>3, <2>4, <2>5, <2>6, <2>7, <2>8, <2>9, <2>10 DEF Step
<1>4. ASSUME NEW t \in Task, Abandon(t) PROVE Inv'
    BY <1>4, AbandonStep
<1>5. CASE UNCHANGED vars
    BY <1>5, StutterStep
<1>6. QED
    BY <1>1, <1>2, <1>3, <1>4, <1>5 DEF Next

\* No step brings the store an older value.
LEMMA StoreGrows == ASSUME Inv, [Next]_vars, NEW k \in Key PROVE store[k] <= store'[k]
<1>1. store[k] <= store[k] /\ store[k] <= Over(store, record.ops)[k]
    BY RecordWritten, Numbers DEF Inv
<1>2. \A t \in Task : pc[t] = "full" => store[k] <= batch[t].ops[k]
    BY WholeWritten
<1>3. \/ store' = store
      \/ store' = Over(store, record.ops)
      \/ \E t \in Task : pc[t] = "full" /\ store' = batch[t].ops
    <2>1. CASE UNCHANGED vars
        BY <2>1 DEF vars
    <2>2. CASE \E j \in Key : Change(j)
        BY <2>2 DEF Change
    <2>3. ASSUME NEW t \in Task, Take(t) \/ Step(t) \/ Abandon(t)
          PROVE  store' = store \/ store' = Over(store, record.ops) \/ (pc[t] = "full" /\ store' = batch[t].ops)
        <3>1. CASE Take(t) \/ Sync(t) \/ SyncFails(t) \/ Turn(t) \/ WaitToWrite(t) \/ WriteQueued(t) \/ Ended(t)
            BY <3>1 DEF Take, Sync, SyncFails, Turn, WaitToWrite, WriteQueued, Ended
        <3>2. CASE WriteRecord(t) \/ WriteRecordFails(t)
            BY <3>2 DEF WriteRecord, WriteRecordFails
        <3>3. CASE WriteFull(t) \/ WriteFullFails(t)
            BY <3>3 DEF WriteFull, WriteFullFails
        <3>4. CASE Abandon(t)
            BY <3>4 DEF Abandon
        <3>5. QED
            BY <2>3, <3>1, <3>2, <3>3, <3>4 DEF Step
    <2>4. QED
        BY <2>1, <2>2, <2>3 DEF Next
<1>4. QED
    BY <1>1, <1>2, <1>3

\* The invariant holds in every state.
THEOREM Correct == Spec => []Inv
<1>1. QED
    BY InitInv, NextInv, PTL DEF Spec

\* The types of the variables (V2State, Order, Commit, Queued and a persist's own).
THEOREM AlwaysTypeOK == Spec => []TypeOK
<1>1. Inv => TypeOK
    BY DEF Inv
<1>2. QED
    BY <1>1, Correct, PTL

\* What a persist answered Ok had taken is in the store or a whole write covers it,
\* whatever was dropped or failed before (persist_v2.rs:19).
THEOREM AlwaysAnsweredIsCovered == Spec => []AnsweredIsCovered
<1>1. Inv => AnsweredIsCovered
    BY DEF Inv, CoverInv, Covered, Held, AnsweredIsCovered
<1>2. QED
    BY <1>1, Correct, PTL

\* No change is forgotten by a persist that fails (persist_v2.rs:308).
THEOREM AlwaysNoChangeForgotten == Spec => []NoChangeForgotten
<1>1. Inv => NoChangeForgotten
    BY DEF Inv
<1>2. QED
    BY <1>1, Correct, PTL

\* When quiet says so the store holds what it was last given (persist_v2.rs:169).
THEOREM AlwaysQuietMeansWritten == Spec => []QuietMeansWritten
<1>1. ASSUME Inv PROVE QuietMeansWritten
    <2> SUFFICES ASSUME Quiet, ~ FailureUnmarked, ~ Abandoned, NEW k \in Key, k \notin dirty
                 PROVE  store[k] = mem[k]
        BY DEF QuietMeansWritten
    <2> TypeOK
        BY <1>1 DEF Inv
    <2>1. turn = nextTicket /\ ~ needFull /\ queue = <<>> /\ running = None
        BY DEF Quiet
    <2>2. \A t \in Task : ~ Held(t)
        <3>1. \A t \in Task : Held(t) => turn <= ticket[t] /\ ticket[t] < nextTicket
            BY <1>1 DEF Inv, OrderInv, Held, Taken
        <3>2. QED
            BY <2>1, <3>1, Numbers
    <2>3. Queued = {} /\ record.tasks = {}
        BY <1>1, <2>1 DEF Queued, Range, Inv, QueueInv
    <2>4. ASSUME NEW t \in Task, Carries(t, k) PROVE store[k] = mem[k]
        <3>1. pc[t] \in {"queued", "locking", "writing", "written"} /\ batch[t].ops[k] = mem[k]
            BY <2>2, <2>4 DEF Carries, Held
        <3>2. done[t] # "none"
            BY <1>1, <2>3, <3>1 DEF Inv, WaitInv
        <3>3. done[t] = "ok"
            BY <3>1, <3>2 DEF FailureUnmarked, TypeOK
        <3>4. Covered(k, batch[t].ops[k])
            BY <1>1, <3>1, <3>3 DEF Inv, CoverInv, Taken
        <3>5. store[k] >= mem[k]
            BY <2>1, <2>2, <3>1, <3>4 DEF Covered
        <3>6. QED
            BY <1>1, <3>5, Numbers DEF Inv, StoreInv
    <2>5. QED
        BY <1>1, <2>1, <2>4 DEF Inv, NoChangeForgotten
<1>2. QED
    BY <1>1, Correct, PTL

\* Batches reach the store in the order they were taken: an older value never
\* replaces a newer one (persist_v2.rs:15-19).
THEOREM AlwaysNeverOlder == Spec => NeverOlder
<1>1. ASSUME Inv, [Next]_vars PROVE [\A k \in Key : store'[k] >= store[k]]_vars
    <2>1. TypeOK /\ TypeOK'
        BY <1>1, NextInv DEF Inv
    <2>2. \A k \in Key : store[k] \in Nat /\ store'[k] \in Nat
        BY <2>1, Numbers, NumbersAfter
    <2>3. \A k \in Key : store[k] <= store'[k]
        BY <1>1, StoreGrows
    <2>4. QED
        BY <2>2, <2>3
<1>2. QED
    BY <1>1, Correct, PTL DEF Spec, NeverOlder
=============================================================================
