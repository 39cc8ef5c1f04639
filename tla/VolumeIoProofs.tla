--------------------------- MODULE VolumeIoProofs ---------------------------
(* Type correctness and exclusion of VolumeIo, for any number of volumes,   *)
(* slabs, slots, blocks and tasks, and with every operation allowed; then,  *)
(* layer on layer, the share counts (CInv), who is alone on a slot (AInv),  *)
(* what the blocks hold (DInv) and what reads return (RInv), under the      *)
(* conditions VolumeIo ends with.                                           *)
EXTENDS VolumeIo, FiniteSetTheorems, TLAPS

\* What a task's place in its operation says of its registers.
Local(r) ==
    /\ r.pc /= "idle" => r.vol \in Volume
    /\ r.pc \in {"hold", "recheck", "decide", "copy", "unmap", "release", "refs", "exclusive", "publish"}
        => r.loc \in Slot
    /\ r.pc \in {"fill", "remap", "publish"} => r.new \in Slot
    /\ r.exclusive => /\ r.held = r.loc /\ r.loc \in Slot /\ r.kind = "move"
                      /\ r.pc \in {"copy", "alloc", "fill", "publish"}
    /\ r.pc \in {"lookup", "hold", "recheck"} => r.kind \in {"read", "write", "discard"}
    /\ r.kind \in {"move", "retier"} => r.loc \in Slot
    /\ r.pc \in {"exclusive", "publish"} => r.kind = "move"
    /\ r.pc = "decide" => r.kind = "write"
    /\ r.pc = "alone?" => r.kind = "discard"
    /\ r.pc = "lock" \/ r.locked => r.kind \in {"write", "discard"}

\* The inductive invariant.
IInv == StateOK /\ (\A p \in Task : Local(t[p])) /\ Exclusion

\* An empty slot's content is a content.
LEMMA ZeroesTyped == Zeroes \in Content
  BY DEF Zeroes, Content

\* A task between operations is well formed.
LEMMA IdleTyped == Idle \in TaskState /\ Local(Idle)
  BY ZeroesTyped, SlotAssumption DEF Idle, TaskState, Local

\* The invariant holds at the start, whether the root volume is mapped or not.
LEMMA InitIInv == Init => IInv
<1> SUFFICES ASSUME Init PROVE IInv
  OBVIOUS
<1>1. Image \in Content
  BY DEF Image, Content
<1>2. StateOK
  <2> PICK m \in {None} \cup {s \in Slot : SlabOf[s] \in load.leaving} :
        LET taken == {m} \ {None}
        IN  /\ map = [v \in Volume |-> IF v = Root THEN m ELSE None]
            /\ refs = [v \in Volume |-> IF v = Root THEN Cardinality(taken) ELSE 0]
            /\ count = [s \in Slot |-> IF s \in taken THEN 1 ELSE 0]
            /\ owner = [s \in Slot |-> IF s \in taken THEN Root ELSE None]
            /\ free = Slot \ taken
            /\ data = [s \in Slot |-> IF s \in taken THEN Image ELSE Zeroes]
            /\ last = [v \in Volume |-> IF v = Root /\ m /= None THEN Image ELSE Zeroes]
    BY DEF Init
  <2>1. Cardinality({m} \ {None}) \in Nat
    <3>1. {m} \ {None} = {} \/ {m} \ {None} = {m}
      OBVIOUS
    <3>2. Cardinality({}) = 0 /\ Cardinality({m}) = 1
      BY FS_EmptySet, FS_Singleton
    <3> QED
      BY <3>1, <3>2
  <2>2. load.leaving \in SUBSET Slab
    BY LoadsAssumption DEF Init, Load
  <2> QED
    BY <1>1, <2>1, <2>2, ZeroesTyped, IdleTyped, VolumeAssumption DEF Init, StateOK
<1>3. \A p \in Task : t[p] = Idle
  BY DEF Init
<1> QED
  BY <1>2, <1>3, IdleTyped DEF IInv, Exclusion, Idle

-----------------------------------------------------------------------------
(* Steps of one task. *)

\* A task's new registers take no lock and no fence it did not have.
Quiet(p, r) ==
    /\ r \in TaskState /\ Local(r)
    /\ r.held = t[p].held \/ r.held = None
    /\ r.exclusive => t[p].exclusive /\ r.held = t[p].held
    /\ r.locked => t[p].locked /\ r.vol = t[p].vol

\* What such a step keeps.
TasksOK == t \in [Task -> TaskState] /\ (\A p \in Task : Local(t[p])) /\ Exclusion

\* Registers that take nothing leave every other task's fences and locks alone.
LEMMA QuietStep ==
    ASSUME IInv, NEW p \in Task, NEW r, Quiet(p, r), t' = [t EXCEPT ![p] = r]
    PROVE  TasksOK'
<1> t \in [Task -> TaskState]
  BY DEF IInv, StateOK
<1>1. t' \in [Task -> TaskState]
  BY DEF Quiet
<1>2. ASSUME NEW q \in Task PROVE Local(t'[q])
  BY DEF Quiet, IInv
<1>3. ASSUME NEW a \in Task, NEW b \in Task, a /= b
      PROVE  /\ t'[a].exclusive => t'[b].held /= t'[a].held
             /\ t'[a].locked /\ t'[b].locked => t'[a].vol /= t'[b].vol
  <2>1. /\ t[a].exclusive => t[b].held /= t[a].held
        /\ t[a].locked /\ t[b].locked => t[a].vol /= t[b].vol
    BY <1>3 DEF IInv, Exclusion
  <2>2. /\ t[a].exclusive => t[a].held /= None
        /\ t'[a].exclusive => t'[a].held /= None
    BY <1>2, SlotAssumption DEF IInv, Local
  <2>3. CASE a = p
    BY <1>3, <2>1, <2>2, <2>3 DEF Quiet
  <2>4. CASE b = p
    BY <1>3, <2>1, <2>2, <2>4 DEF Quiet
  <2>5. CASE a /= p /\ b /= p
    BY <2>1, <2>5
  <2> QED
    BY <2>3, <2>4, <2>5
<1> QED
  BY <1>1, <1>2, <1>3 DEF TasksOK, Exclusion

\* A task that ends lets everything go.
LEMMA FinishStep ==
    ASSUME IInv, NEW p \in Task, t' = [t EXCEPT ![p] = Idle]
    PROVE  TasksOK'
<1>1. Quiet(p, Idle)
  BY IdleTyped DEF Quiet, Idle
<1> QED
  BY <1>1, QuietStep

-----------------------------------------------------------------------------
(* The actions. *)

RestOK ==
    /\ live \in SUBSET Volume
    /\ map \in [Volume -> Slot \cup {None}]
    /\ refs \in [Volume -> Nat]
    /\ count \in [Slot -> Nat]
    /\ owner \in [Slot -> Volume \cup {None}]
    /\ free \in SUBSET Slot /\ freeing \in SUBSET Slot /\ owed \in SUBSET Slot
    /\ data \in [Slot -> Content]
    /\ quarantined \in SUBSET Slab
    /\ moves \in Nat /\ writes \in Nat /\ snapshots \in Nat /\ quarantines \in Nat
    /\ last \in [Volume -> Content]

\* The invariant, in its two halves.
LEMMA Split == IInv <=> RestOK /\ TasksOK
  BY DEF IInv, StateOK, RestOK, TasksOK

\* The same, after a step.
LEMMA SplitNext == IInv' <=> RestOK' /\ TasksOK'
  BY DEF IInv, StateOK, RestOK, TasksOK

\* What a task is known by.
LEMMA TaskKnown == ASSUME IInv, NEW p \in Task PROVE t[p] \in TaskState /\ Local(t[p])
  BY DEF IInv, StateOK

\* What a look at the map leads to takes nothing.
LEMMA FoundQuiet ==
    ASSUME IInv, NEW p \in Task, NEW s \in Slot \cup {None}, t[p].pc \in {"lookup", "recheck"},
           ~t[p].exclusive
    PROVE  Quiet(p, Found(p, s))
<1>1. t[p] \in TaskState /\ Local(t[p])
  BY TaskKnown
<1>2. CASE s /= None
  BY ZenonT(40), <1>1, <1>2 DEF Found, TaskState, Local, Quiet
<1>3. CASE s = None
  <2> DEFINE laid == [Zeroes EXCEPT ![t[p].block] = t[p].val]
  <2>1. laid \in Content
    BY <1>1, ZeroesTyped DEF TaskState, Content
  <2>2. t[p].kind \in {"read", "write", "discard"}
    BY <1>1 DEF Local
  <2>3. CASE t[p].kind = "read"
    <3>1. Found(p, s) = [t[p] EXCEPT !.held = None, !.loc = None, !.pc = "io"]
      BY <1>3, <2>3 DEF Found
    <3> QED
      BY ZenonT(40), <1>1, <2>1, <2>3, <3>1 DEF TaskState, Local, Quiet
  <2>4. CASE t[p].kind = "discard"
    <3>1. Found(p, s) = [t[p] EXCEPT !.held = None, !.loc = None, !.pc = "done"]
      BY <1>3, <2>4 DEF Found
    <3> QED
      BY ZenonT(40), <1>1, <2>1, <2>4, <3>1 DEF TaskState, Local, Quiet
  <2>5. CASE t[p].kind = "write" /\ t[p].locked
    <3>1. Found(p, s) = [t[p] EXCEPT !.held = None, !.loc = None, !.pc = "alloc", !.buf = laid]
      BY <1>3, <2>5 DEF Found
    <3> HIDE DEF laid
    <3>2. Found(p, s) \in TaskState
      BY ZenonT(40), <1>1, <2>1, <3>1 DEF TaskState
    <3>3. /\ Found(p, s).pc = "alloc" /\ Found(p, s).held = None /\ Found(p, s).loc = None
          /\ Found(p, s).vol = t[p].vol /\ Found(p, s).kind = "write"
          /\ Found(p, s).exclusive = t[p].exclusive /\ Found(p, s).locked = t[p].locked
      BY <1>1, <2>5, <3>1 DEF TaskState
    <3> QED
      BY <1>1, <3>2, <3>3 DEF Local, Quiet
  <2>6. CASE t[p].kind = "write" /\ ~t[p].locked
    <3>1. Found(p, s) = [t[p] EXCEPT !.held = None, !.loc = None, !.pc = "lock", !.buf = laid]
      BY <1>3, <2>6 DEF Found
    <3> HIDE DEF laid
    <3>2. Found(p, s) \in TaskState
      BY ZenonT(40), <1>1, <2>1, <3>1 DEF TaskState
    <3>3. /\ Found(p, s).pc = "lock" /\ Found(p, s).held = None /\ Found(p, s).loc = None
          /\ Found(p, s).vol = t[p].vol /\ Found(p, s).kind = "write"
          /\ Found(p, s).exclusive = t[p].exclusive /\ Found(p, s).locked = t[p].locked
      BY <1>1, <2>6, <3>1 DEF TaskState
    <3> QED
      BY <1>1, <3>2, <3>3 DEF Local, Quiet
  <2> QED
    BY <2>2, <2>3, <2>4, <2>5, <2>6
<1> QED
  BY <1>2, <1>3

\* Lookup keeps the invariant.
LEMMA LookupKeeps == ASSUME IInv, NEW p \in Task, Lookup(p) PROVE IInv'
<1>1. t[p].pc = "lookup" /\ ~t[p].exclusive /\ map[t[p].vol] \in Slot \cup {None}
  BY TaskKnown, Split DEF Lookup, RestOK, Local
<1>2. TasksOK'
  BY <1>1, FoundQuiet, QuietStep DEF Lookup, Step
<1>3. RestOK'
  BY Split DEF Lookup, RestOK, mapVars, slabVars, countVars
<1> QED
  BY <1>2, <1>3, SplitNext

\* Hold keeps the invariant.
LEMMA HoldKeeps == ASSUME IInv, NEW p \in Task, Hold(p) PROVE IInv'
<1> DEFINE r == [t[p] EXCEPT !.pc = "recheck", !.held = t[p].loc]
<1>1. t[p] \in TaskState /\ Local(t[p]) /\ t[p].pc = "hold"
  BY TaskKnown DEF Hold
<1>2. r \in TaskState /\ Local(r) /\ ~r.exclusive /\ r.held = t[p].loc
      /\ r.locked = t[p].locked /\ r.vol = t[p].vol
  BY ZenonT(40), <1>1 DEF TaskState, Local
<1>3. t' = [t EXCEPT ![p] = r] /\ t \in [Task -> TaskState]
  BY DEF Hold, Step, IInv, StateOK
<1>4. t' \in [Task -> TaskState] /\ \A q \in Task : Local(t'[q])
  BY <1>2, <1>3, TaskKnown
<1>5. ASSUME NEW a \in Task, NEW b \in Task, a /= b
      PROVE  /\ t'[a].exclusive => t'[b].held /= t'[a].held
             /\ t'[a].locked /\ t'[b].locked => t'[a].vol /= t'[b].vol
  <2>1. /\ t[a].exclusive => t[b].held /= t[a].held
        /\ t[a].locked /\ t[b].locked => t[a].vol /= t[b].vol
    BY <1>5 DEF IInv, Exclusion
  <2>2. t[a].exclusive => t[a].held = t[a].loc
    BY TaskKnown DEF Local
  <2>3. t[a].loc = t[p].loc => ~t[a].exclusive
    BY DEF Hold
  <2> QED
    BY <1>2, <1>3, <1>5, <2>1, <2>2, <2>3
<1>6. TasksOK'
  BY <1>4, <1>5 DEF TasksOK, Exclusion
<1>7. RestOK'
  BY Split DEF Hold, RestOK, mapVars, slabVars, countVars
<1> QED
  BY <1>6, <1>7, SplitNext

\* Recheck keeps the invariant.
LEMMA RecheckKeeps == ASSUME IInv, NEW p \in Task, Recheck(p) PROVE IInv'
<1> DEFINE v == t[p].vol
           r == [t[p] EXCEPT !.refs = refs[v],
                             !.pc = CASE t[p].kind = "read" -> "io"
                                      [] t[p].kind = "discard" -> "unmap"
                                      [] OTHER -> "decide"]
<1>1. t[p] \in TaskState /\ Local(t[p]) /\ t[p].pc = "recheck" /\ ~t[p].exclusive /\ v \in Volume
  BY TaskKnown DEF Recheck, Local
<1>2. refs[v] \in Nat /\ map[v] \in Slot \cup {None}
  BY <1>1, Split DEF RestOK
<1>3. TasksOK'
  <2>1. CASE map[v] = t[p].held
    <3>1. Quiet(p, r)
      BY ZenonT(40), <1>1, <1>2 DEF TaskState, Local, Quiet
    <3> QED
      BY <2>1, <3>1, QuietStep DEF Recheck, Step
  <2>2. CASE map[v] /= t[p].held
    BY <1>1, <1>2, <2>2, FoundQuiet, QuietStep DEF Recheck, Step
  <2> QED
    BY <2>1, <2>2
<1>4. RestOK'
  BY Split DEF Recheck, RestOK, mapVars, slabVars, countVars
<1> QED
  BY <1>3, <1>4, SplitNext

\* ReadSlot keeps the invariant.
LEMMA ReadSlotKeeps == ASSUME IInv, NEW p \in Task, ReadSlot(p) PROVE IInv'
<1>1. TasksOK'
  BY FinishStep DEF ReadSlot, Finish
<1>2. RestOK'
  BY Split DEF ReadSlot, RestOK, mapVars, slabVars, countVars
<1> QED
  BY <1>1, <1>2, SplitNext

\* Decide keeps the invariant.
LEMMA DecideKeeps == ASSUME IInv, NEW p \in Task, Decide(p) PROVE IInv'
<1> DEFINE r == IF t[p].refs = 1 /\ ~OnLeavingSlab(t[p].held) THEN [t[p] EXCEPT !.pc = "io"]
                ELSE IF t[p].locked THEN [t[p] EXCEPT !.pc = "copy"]
                ELSE [t[p] EXCEPT !.pc = "lock", !.held = None]
<1>1. t[p] \in TaskState /\ Local(t[p]) /\ t[p].pc = "decide"
  BY TaskKnown DEF Decide
<1>2. Quiet(p, r)
  <2>1. CASE t[p].refs = 1 /\ ~OnLeavingSlab(t[p].held)
    BY <1>1, <2>1 DEF TaskState, Local, Quiet
  <2>2. CASE ~(t[p].refs = 1 /\ ~OnLeavingSlab(t[p].held)) /\ t[p].locked
    BY <1>1, <2>2 DEF TaskState, Local, Quiet
  <2>3. CASE ~(t[p].refs = 1 /\ ~OnLeavingSlab(t[p].held)) /\ ~t[p].locked
    BY <1>1, <2>3 DEF TaskState, Local, Quiet
  <2> QED
    BY <2>1, <2>2, <2>3
<1>3. TasksOK'
  BY <1>2, QuietStep DEF Decide, Step
<1>4. RestOK'
  BY Split DEF Decide, RestOK, mapVars, slabVars, countVars
<1> QED
  BY <1>3, <1>4, SplitNext

\* LockVolume keeps the invariant.
LEMMA LockVolumeKeeps == ASSUME IInv, NEW p \in Task, LockVolume(p) PROVE IInv'
<1> DEFINE r == [t[p] EXCEPT !.locked = TRUE,
                             !.pc = IF t[p].kind = "discard" THEN "alone?" ELSE "lookup"]
<1>1. t[p] \in TaskState /\ Local(t[p]) /\ t[p].pc = "lock"
  BY TaskKnown DEF LockVolume
<1>2. t' = [t EXCEPT ![p] = r] /\ t \in [Task -> TaskState]
  BY DEF LockVolume, Step, IInv, StateOK
<1>3. r \in TaskState /\ Local(r) /\ ~r.exclusive /\ r.held = t[p].held /\ r.vol = t[p].vol
  <2>1. r \in TaskState
    <3>1. CASE t[p].kind = "discard"
      <4>1. r = [t[p] EXCEPT !.locked = TRUE, !.pc = "alone?"]
        BY <3>1
      <4> HIDE DEF r
      <4> QED
        BY <1>1, <4>1 DEF TaskState
    <3>2. CASE t[p].kind /= "discard"
      <4>1. r = [t[p] EXCEPT !.locked = TRUE, !.pc = "lookup"]
        BY <3>2
      <4> HIDE DEF r
      <4> QED
        BY <1>1, <4>1 DEF TaskState
    <3> QED
      BY <3>1, <3>2
  <2>2. r.pc \in {"alone?", "lookup"} /\ r.pc = IF t[p].kind = "discard" THEN "alone?" ELSE "lookup"
    BY <1>1 DEF TaskState
  <2>3. r.exclusive = t[p].exclusive /\ r.held = t[p].held /\ r.vol = t[p].vol /\ r.kind = t[p].kind
    BY <1>1 DEF TaskState
  <2>4. ~t[p].exclusive
    BY <1>1 DEF Local
  <2>5. Local(r)
    BY <1>1, <2>2, <2>3, <2>4 DEF Local
  <2> QED
    BY <2>1, <2>3, <2>4, <2>5
<1>4. t' \in [Task -> TaskState] /\ \A q \in Task : Local(t'[q])
  BY <1>2, <1>3, TaskKnown
<1>5. ASSUME NEW a \in Task, NEW b \in Task, a /= b
      PROVE  /\ t'[a].exclusive => t'[b].held /= t'[a].held
             /\ t'[a].locked /\ t'[b].locked => t'[a].vol /= t'[b].vol
  <2>1. /\ t[a].exclusive => t[b].held /= t[a].held
        /\ t[a].locked /\ t[b].locked => t[a].vol /= t[b].vol
    BY <1>5 DEF IInv, Exclusion
  <2>2. \A q \in Task : t[q].vol = t[p].vol => ~t[q].locked
    BY TaskKnown DEF LockVolume, Doing, Local
  <2> QED
    BY <1>2, <1>3, <1>5, <2>1, <2>2
<1>6. TasksOK'
  BY <1>4, <1>5 DEF TasksOK, Exclusion
<1>7. RestOK'
  BY Split DEF LockVolume, RestOK, mapVars, slabVars, countVars
<1> QED
  BY <1>6, <1>7, SplitNext

\* One block written in one slot or one volume's contents.
LEMMA WriteTyped ==
    ASSUME NEW S, NEW f \in [S -> Content], NEW s, NEW b, NEW x \in Nat
    PROVE  [f EXCEPT ![s][b] = x] \in [S -> Content]
  BY DEF Content

\* WriteInPlace keeps the invariant.
LEMMA WriteInPlaceKeeps == ASSUME IInv, NEW p \in Task, WriteInPlace(p) PROVE IInv'
<1>1. TasksOK'
  BY FinishStep DEF WriteInPlace, Finish
<1>2. t[p].val \in Nat /\ data \in [Slot -> Content] /\ last \in [Volume -> Content]
  BY TaskKnown, Split DEF TaskState, RestOK
<1>3. data' \in [Slot -> Content] /\ last' \in [Volume -> Content]
  BY <1>2, WriteTyped DEF WriteInPlace, Acknowledge
<1>4. RestOK'
  BY <1>3, Split DEF WriteInPlace, RestOK, mapVars, slabVars, countVars
<1> QED
  BY <1>1, <1>4, SplitNext

\* CopySlot keeps the invariant.
LEMMA CopySlotKeeps == ASSUME IInv, NEW p \in Task, CopySlot(p) PROVE IInv'
<1> DEFINE c == IF t[p].kind = "write" THEN [data[t[p].loc] EXCEPT ![t[p].block] = t[p].val]
                ELSE data[t[p].loc]
           r == [t[p] EXCEPT !.pc = "alloc", !.buf = c]
<1>1. t[p] \in TaskState /\ Local(t[p]) /\ t[p].pc = "copy" /\ t[p].loc \in Slot /\ t[p].val \in Nat
  BY TaskKnown DEF CopySlot, Local, TaskState
<1>2. data[t[p].loc] \in Content
  BY <1>1, Split DEF RestOK
<1>3. c \in Content
  BY <1>1, <1>2 DEF Content
<1>4. t' = [t EXCEPT ![p] = r]
  BY DEF CopySlot, Step
<1> HIDE DEF c
<1>5. Quiet(p, r)
  <2>1. r \in TaskState
    BY <1>1, <1>3 DEF TaskState
  <2>2. r.pc = "alloc" /\ r.vol = t[p].vol /\ r.kind = t[p].kind /\ r.loc = t[p].loc
        /\ r.held = t[p].held /\ r.exclusive = t[p].exclusive /\ r.locked = t[p].locked
    BY <1>1 DEF TaskState
  <2> HIDE DEF r
  <2> QED
    BY <1>1, <1>3, <2>1, <2>2 DEF Local, Quiet
<1>6. TasksOK'
  BY <1>4, <1>5, QuietStep
<1>7. RestOK'
  BY Split DEF CopySlot, RestOK, mapVars, slabVars, countVars
<1> QED
  BY <1>6, <1>7, SplitNext

\* Allocate keeps the invariant.
LEMMA AllocateKeeps == ASSUME IInv, NEW p \in Task, Allocate(p) PROVE IInv'
<1> PICK s \in Room(p) : /\ free' = free \ {s}
                         /\ count' = [count EXCEPT ![s] = 1]
                         /\ owner' = [owner EXCEPT ![s] = OwnerFor(p)]
                         /\ t' = [t EXCEPT ![p] = [t[p] EXCEPT !.pc = "fill", !.new = s]]
  BY DEF Allocate, Step
<1> DEFINE r == [t[p] EXCEPT !.pc = "fill", !.new = s]
<1>1. t[p] \in TaskState /\ Local(t[p]) /\ t[p].pc = "alloc"
  BY TaskKnown DEF Allocate
<1>2. s \in Slot
  BY Split DEF Room, RestOK
<1>3. Quiet(p, r)
  <2>1. r \in TaskState
    BY <1>1, <1>2 DEF TaskState
  <2>2. r.pc = "fill" /\ r.vol = t[p].vol /\ r.kind = t[p].kind /\ r.loc = t[p].loc
        /\ r.held = t[p].held /\ r.exclusive = t[p].exclusive /\ r.locked = t[p].locked /\ r.new = s
    BY <1>1 DEF TaskState
  <2> HIDE DEF r
  <2> QED
    BY <1>1, <1>2, <2>1, <2>2 DEF Local, Quiet
<1>4. TasksOK'
  BY <1>3, QuietStep
<1>5. OwnerFor(p) \in Volume \cup {None}
  BY <1>1, Split DEF OwnerFor, Local, TaskState, RestOK
<1>6. RestOK'
  BY <1>2, <1>5, Split DEF Allocate, RestOK, mapVars, countVars
<1> QED
  BY <1>4, <1>6, SplitNext

\* NoSpace keeps the invariant.
LEMMA NoSpaceKeeps == ASSUME IInv, NEW p \in Task, NoSpace(p) PROVE IInv'
<1> DEFINE r == [t[p] EXCEPT !.pc = "io"]
<1>1. t[p] \in TaskState /\ Local(t[p]) /\ t[p].pc = "alloc"
  BY TaskKnown DEF NoSpace
<1>2. TasksOK'
  <2>1. CASE t[p].kind = "write" /\ t[p].loc /= None /\ t[p].refs = 1
    <3>1. Quiet(p, r)
      BY <1>1, <2>1 DEF TaskState, Local, Quiet
    <3> QED
      BY <2>1, <3>1, QuietStep DEF NoSpace, Step
  <2>2. CASE ~(t[p].kind = "write" /\ t[p].loc /= None /\ t[p].refs = 1)
    BY <2>2, FinishStep DEF NoSpace, Finish
  <2> QED
    BY <2>1, <2>2
<1>3. RestOK'
  BY Split DEF NoSpace, RestOK, mapVars, slabVars, countVars
<1> QED
  BY <1>2, <1>3, SplitNext

\* Fill keeps the invariant.
LEMMA FillKeeps == ASSUME IInv, NEW p \in Task, Fill(p) PROVE IInv'
<1> DEFINE next == IF t[p].kind = "move" THEN "publish" ELSE "remap"
           r == [t[p] EXCEPT !.pc = next]
<1>1. t[p] \in TaskState /\ Local(t[p]) /\ t[p].pc = "fill"
  BY TaskKnown DEF Fill
<1>2. next \in {"publish", "remap"} /\ (next = "publish" <=> t[p].kind = "move")
  OBVIOUS
<1>3. t' = [t EXCEPT ![p] = r]
  BY DEF Fill, Step
<1> HIDE DEF next
<1>4. Quiet(p, r)
  BY <1>1, <1>2 DEF TaskState, Local, Quiet
<1>5. TasksOK'
  BY <1>3, <1>4, QuietStep
<1>6. t[p].buf \in Content
  BY <1>1 DEF TaskState
<1>7. RestOK'
  BY <1>6, Split DEF Fill, RestOK, mapVars, slabVars, countVars
<1> QED
  BY <1>5, <1>7, SplitNext

\* FillError keeps the invariant.
LEMMA FillErrorGives == ASSUME IInv, NEW p \in Task, FillError(p) PROVE IInv'
<1>1. TasksOK'
  BY FinishStep DEF FillError, Finish
<1>2. t[p].new \in Slot
  BY TaskKnown DEF FillError, Local
<1>3. RestOK'
  BY <1>2, Split DEF FillError, RestOK, mapVars, countVars
<1> QED
  BY <1>1, <1>3, SplitNext

\* Remap keeps the invariant.
LEMMA RemapKeeps == ASSUME IInv, NEW p \in Task, Remap(p) PROVE IInv'
<1> DEFINE r == [t[p] EXCEPT !.pc = "release"]
<1>1. t[p] \in TaskState /\ Local(t[p]) /\ t[p].pc = "remap" /\ t[p].new \in Slot /\ t[p].val \in Nat
  BY TaskKnown DEF Remap, Local, TaskState
<1>2. TasksOK'
  <2>1. CASE t[p].loc = None
    BY <2>1, FinishStep DEF Remap, Finish
  <2>2. CASE t[p].loc /= None
    <3>1. Quiet(p, r)
      BY <1>1, <2>2 DEF TaskState, Local, Quiet
    <3> QED
      BY <2>2, <3>1, QuietStep DEF Remap, Step
  <2> QED
    BY <2>1, <2>2
<1>3. last' \in [Volume -> Content]
  <2>1. last \in [Volume -> Content]
    BY Split DEF RestOK
  <2>2. [last EXCEPT ![t[p].vol][t[p].block] = t[p].val] \in [Volume -> Content]
    BY <1>1, <2>1, WriteTyped
  <2> QED
    BY <2>1, <2>2 DEF Remap, Acknowledge
<1>4. RestOK'
  BY <1>1, <1>3, Split DEF Remap, RestOK, slabVars, countVars
<1> QED
  BY <1>2, <1>4, SplitNext

\* Giving back a share, the last one or not.
LEMMA RetireTyped ==
    ASSUME RestOK, NEW s \in Slot, NEW n \in Nat, Retire(s, n)
    PROVE  /\ count' \in [Slot -> Nat]
           /\ owner' \in [Slot -> Volume \cup {None}]
           /\ freeing' \in SUBSET Slot
           /\ data' \in [Slot -> Content]
  BY ZeroesTyped DEF Retire, RestOK

\* Release keeps the invariant.
LEMMA ReleaseKeeps == ASSUME IInv, NEW p \in Task, Release(p) PROVE IInv'
<1> DEFINE s == t[p].loc
           n == count[s] - 1
           next == IF t[p].kind = "discard" \/ count[s] = 1 THEN "done" ELSE "refs"
           r == [t[p] EXCEPT !.pc = next, !.shares = n, !.of = owner[s]]
           q == [t[p] EXCEPT !.pc = "done"]
<1>1. t[p] \in TaskState /\ Local(t[p]) /\ t[p].pc = "release" /\ s \in Slot /\ ~t[p].exclusive
  BY TaskKnown DEF Release, Local
<1>2. RestOK /\ count[s] \in Nat /\ owner[s] \in Volume \cup {None}
  BY <1>1, Split DEF RestOK
<1>3. CASE count[s] = 0
  <2>1. Quiet(p, q)
    BY <1>1 DEF TaskState, Local, Quiet
  <2>2. TasksOK'
    BY <1>3, <2>1, QuietStep DEF Release, Step
  <2>3. RestOK'
    BY <1>2, <1>3 DEF Release, RestOK, mapVars, countVars
  <2> QED
    BY <2>2, <2>3, SplitNext
<1>4. CASE count[s] /= 0
  <2>1. n \in Nat /\ next \in {"done", "refs"}
    BY <1>2, <1>4
  <2>2. t' = [t EXCEPT ![p] = r] /\ Retire(s, n)
    BY <1>4 DEF Release, Step
  <2>3. RestOK'
    <3>1. /\ count' \in [Slot -> Nat]
          /\ owner' \in [Slot -> Volume \cup {None}]
          /\ freeing' \in SUBSET Slot
          /\ data' \in [Slot -> Content]
      BY <1>1, <1>2, <2>1, <2>2, RetireTyped
    <3> QED
      BY <1>2, <3>1 DEF Release, RestOK, mapVars, countVars
  <2> HIDE DEF n, next
  <2>4. r \in TaskState
    BY <1>1, <1>2, <2>1 DEF TaskState
  <2>5. r.pc = next /\ r.vol = t[p].vol /\ r.kind = t[p].kind /\ r.loc = t[p].loc
        /\ r.held = t[p].held /\ r.exclusive = t[p].exclusive /\ r.locked = t[p].locked
    BY <1>1 DEF TaskState
  <2> HIDE DEF r
  <2>6. Quiet(p, r)
    BY <1>1, <2>1, <2>4, <2>5 DEF Local, Quiet
  <2>7. TasksOK'
    BY <2>2, <2>6, QuietStep
  <2> QED
    BY <2>3, <2>7, SplitNext
<1> QED
  BY <1>3, <1>4

\* SyncRefs keeps the invariant.
LEMMA SyncRefsKeeps == ASSUME IInv, NEW p \in Task, SyncRefs(p) PROVE IInv'
<1> DEFINE r == [t[p] EXCEPT !.pc = "done"]
<1>1. t[p] \in TaskState /\ Local(t[p]) /\ t[p].pc = "refs" /\ t[p].shares \in Nat
  BY TaskKnown DEF SyncRefs, TaskState
<1>2. Quiet(p, r)
  BY <1>1 DEF TaskState, Local, Quiet
<1>3. TasksOK'
  BY <1>2, QuietStep DEF SyncRefs, Step
<1>4. RestOK'
  BY <1>1, Split DEF SyncRefs, RestOK, slabVars, countVars
<1> QED
  BY <1>3, <1>4, SplitNext

\* Done keeps the invariant.
LEMMA DoneKeeps == ASSUME IInv, NEW p \in Task, Done(p) PROVE IInv'
<1>1. TasksOK'
  BY FinishStep DEF Done, Finish
<1>2. t[p].val \in Nat /\ last \in [Volume -> Content]
  BY TaskKnown, Split DEF TaskState, RestOK
<1>3. [last EXCEPT ![t[p].vol][t[p].block] = t[p].val] \in [Volume -> Content]
  BY <1>2, WriteTyped
<1>4. last' \in [Volume -> Content]
  BY <1>2, <1>3 DEF Done, Acknowledge
<1>5. RestOK'
  BY <1>4, Split DEF Done, RestOK, mapVars, slabVars, countVars
<1> QED
  BY <1>1, <1>5, SplitNext

\* DiscardAlone keeps the invariant.
LEMMA DiscardAloneKeeps == ASSUME IInv, NEW p \in Task, DiscardAlone(p) PROVE IInv'
<1> DEFINE next == IF refs[t[p].vol] > 1 THEN "done" ELSE "lookup"
           r == [t[p] EXCEPT !.pc = next]
<1>1. t[p] \in TaskState /\ Local(t[p]) /\ t[p].pc = "alone?"
  BY TaskKnown DEF DiscardAlone
<1>2. next \in {"done", "lookup"}
  OBVIOUS
<1>3. t' = [t EXCEPT ![p] = r]
  BY DEF DiscardAlone, Step
<1> HIDE DEF next
<1>4. Quiet(p, r)
  BY <1>1, <1>2 DEF TaskState, Local, Quiet
<1>5. TasksOK'
  BY <1>3, <1>4, QuietStep
<1>6. RestOK'
  BY Split DEF DiscardAlone, RestOK, mapVars, slabVars, countVars
<1> QED
  BY <1>5, <1>6, SplitNext

\* Unmap keeps the invariant.
LEMMA UnmapKeeps == ASSUME IInv, NEW p \in Task, Unmap(p) PROVE IInv'
<1> DEFINE r == [t[p] EXCEPT !.pc = "release"]
<1>1. t[p] \in TaskState /\ Local(t[p]) /\ t[p].pc = "unmap"
  BY TaskKnown DEF Unmap
<1>2. Quiet(p, r)
  BY <1>1 DEF TaskState, Local, Quiet
<1>3. TasksOK'
  BY <1>2, QuietStep DEF Unmap, Step
<1>4. RestOK'
  BY ZeroesTyped, Split DEF Unmap, RestOK, slabVars, countVars
<1> QED
  BY <1>3, <1>4, SplitNext

\* Exclusive keeps the invariant.
LEMMA ExclusiveKeeps == ASSUME IInv, NEW p \in Task, Exclusive(p) PROVE IInv'
<1> DEFINE r == [t[p] EXCEPT !.pc = "copy", !.held = t[p].loc, !.exclusive = TRUE]
<1>1. t[p] \in TaskState /\ Local(t[p]) /\ t[p].pc = "exclusive" /\ t[p].loc \in Slot
  BY TaskKnown DEF Exclusive, Local
<1>2. RestOK'
  BY Split DEF Exclusive, RestOK, mapVars, slabVars, countVars
<1>3. CASE map[t[p].vol] = t[p].loc
  <2>1. t' = [t EXCEPT ![p] = r] /\ t \in [Task -> TaskState]
    BY <1>3 DEF Exclusive, Step, IInv, StateOK
  <2>2. r \in TaskState
    BY <1>1 DEF TaskState
  <2>3. r.pc = "copy" /\ r.held = t[p].loc /\ r.loc = t[p].loc /\ r.kind = t[p].kind
        /\ r.vol = t[p].vol /\ r.locked = t[p].locked /\ r.exclusive
    BY <1>1 DEF TaskState
  <2> HIDE DEF r
  <2>4. Local(r)
    BY <1>1, <2>3 DEF Local
  <2>5. t' \in [Task -> TaskState] /\ \A q \in Task : Local(t'[q])
    BY <2>1, <2>2, <2>4, TaskKnown
  <2>6. ASSUME NEW a \in Task, NEW b \in Task, a /= b
        PROVE  /\ t'[a].exclusive => t'[b].held /= t'[a].held
               /\ t'[a].locked /\ t'[b].locked => t'[a].vol /= t'[b].vol
    <3>1. /\ t[a].exclusive => t[b].held /= t[a].held
          /\ t[a].locked /\ t[b].locked => t[a].vol /= t[b].vol
      BY <2>6 DEF IInv, Exclusion
    <3>2. t[a].held /= t[p].loc /\ t[b].held /= t[p].loc
      BY DEF Exclusive
    <3> QED
      BY <2>1, <2>3, <2>6, <3>1, <3>2
  <2>7. TasksOK'
    BY <2>5, <2>6 DEF TasksOK, Exclusion
  <2> QED
    BY <1>2, <2>7, SplitNext
<1>4. CASE map[t[p].vol] /= t[p].loc
  <2>1. TasksOK'
    BY <1>4, FinishStep DEF Exclusive, Step
  <2> QED
    BY <1>2, <2>1, SplitNext
<1> QED
  BY <1>3, <1>4

\* Publish keeps the invariant.
LEMMA PublishKeeps == ASSUME IInv, NEW p \in Task, Publish(p) PROVE IInv'
<1>1. TasksOK'
  BY FinishStep DEF Publish, Finish
<1>2. t[p].new \in Slot /\ t[p].loc \in Slot
  BY TaskKnown DEF Publish, Local
<1>3. RestOK'
  <2>1. CASE map[t[p].vol] = t[p].loc /\ count[t[p].loc] > 0
    BY <1>2, <2>1, Split DEF Publish, RestOK, countVars
  <2>2. CASE ~(map[t[p].vol] = t[p].loc /\ count[t[p].loc] > 0)
    BY <1>2, <2>2, Split DEF Publish, RestOK, countVars
  <2> QED
    BY <2>1, <2>2
<1> QED
  BY <1>1, <1>3, SplitNext

-----------------------------------------------------------------------------
(* Operations begin. *)

\* A step that takes and drops no lock and no fence.
LEMMA SameLocks ==
    ASSUME IInv, t' \in [Task -> TaskState],
           \A q \in Task : /\ Local(t'[q])
                           /\ t'[q].held = t[q].held /\ t'[q].exclusive = t[q].exclusive
                           /\ t'[q].locked = t[q].locked /\ (t[q].locked => t'[q].vol = t[q].vol)
    PROVE  TasksOK'
  BY DEF TasksOK, IInv, Exclusion

\* Reads learn what they may return; nothing else about them changes.
LEMMA ValidTyped ==
    ASSUME NEW r \in TaskState, Local(r), NEW n \in Nat
    PROVE  LET u == [r EXCEPT !.valid = @ \cup {n}]
           IN  /\ u \in TaskState /\ Local(u) /\ u.held = r.held /\ u.exclusive = r.exclusive
               /\ u.locked = r.locked /\ u.vol = r.vol
<1> DEFINE u == [r EXCEPT !.valid = @ \cup {n}]
<1>1. u \in TaskState
  BY DEF TaskState
<1>2. /\ u.pc = r.pc /\ u.kind = r.kind /\ u.vol = r.vol /\ u.loc = r.loc /\ u.new = r.new
      /\ u.held = r.held /\ u.exclusive = r.exclusive /\ u.locked = r.locked
  BY DEF TaskState
<1> HIDE DEF u
<1>3. Local(u)
  BY <1>2 DEF Local
<1> QED
  BY <1>1, <1>2, <1>3 DEF u

\* StartWrite keeps the invariant.
LEMMA StartWriteKeeps ==
    ASSUME IInv, NEW p \in Task, NEW v \in Volume, NEW b \in Block, StartWrite(p, v, b) PROVE IInv'
<1> DEFINE n == writes + 2
           r == [Idle EXCEPT !.pc = "lookup", !.kind = "write", !.vol = v, !.block = b, !.val = n]
           hears(q) == t[q].kind = "read" /\ t[q].vol = v /\ t[q].block = b
<1>1. n \in Nat /\ RestOK
  BY Split DEF RestOK
<1>2. t[p] = Idle /\ t' = [q \in Task |-> IF q = p THEN r
                                         ELSE IF hears(q) THEN [t[q] EXCEPT !.valid = @ \cup {n}] ELSE t[q]]
  BY DEF StartWrite
<1>3. r \in TaskState /\ Local(r) /\ r.held = Idle.held /\ r.exclusive = Idle.exclusive
      /\ r.locked = Idle.locked /\ ~Idle.locked
  <2> HIDE DEF n
  <2> QED
    BY <1>1, ZeroesTyped, SlotAssumption DEF Idle, TaskState, Local
<1> HIDE DEF n, r, hears
<1>4. ASSUME NEW q \in Task
      PROVE  /\ t'[q] \in TaskState /\ Local(t'[q])
             /\ t'[q].held = t[q].held /\ t'[q].exclusive = t[q].exclusive
             /\ t'[q].locked = t[q].locked /\ (t[q].locked => t'[q].vol = t[q].vol)
  <2>1. CASE q = p
    BY <1>2, <1>3, <2>1
  <2>2. CASE q /= p /\ hears(q)
    <3>1. t'[q] = [t[q] EXCEPT !.valid = @ \cup {n}] /\ t[q] \in TaskState /\ Local(t[q])
      BY <1>2, <2>2, TaskKnown
    <3> QED
      BY <1>1, <3>1, ValidTyped
  <2>3. CASE q /= p /\ ~hears(q)
    BY <1>2, <2>3, TaskKnown
  <2> QED
    BY <2>1, <2>2, <2>3
<1>5. t' \in [Task -> TaskState]
  <2>1. t' = [q \in Task |-> t'[q]]
    BY <1>2
  <2> QED
    BY <1>4, <2>1
<1>6. TasksOK'
  BY <1>4, <1>5, SameLocks
<1>7. RestOK'
  BY <1>1 DEF StartWrite, RestOK, mapVars, slabVars, n
<1> QED
  BY <1>6, <1>7, SplitNext

\* StartRead keeps the invariant.
LEMMA StartReadKeeps ==
    ASSUME IInv, NEW p \in Task, NEW v \in Volume, NEW b \in Block, StartRead(p, v, b) PROVE IInv'
<1> DEFINE may == {last[v][b]}
                  \cup {t[q].val : q \in {q \in Doing({"write"}, v) : t[q].block = b}}
                  \cup {0 : q \in Doing({"discard"}, v)}
           r == [Idle EXCEPT !.pc = "lookup", !.kind = "read", !.vol = v, !.block = b, !.valid = may]
<1>1. last[v][b] \in Nat /\ \A q \in Task : t[q].val \in Nat
  BY TaskKnown, Split DEF RestOK, Content, TaskState
<1>2. may \in SUBSET Nat
  BY <1>1 DEF Doing
<1>3. t[p] = Idle /\ t' = [t EXCEPT ![p] = r]
  BY DEF StartRead, Step
<1> HIDE DEF may
<1>4. Quiet(p, r)
  BY <1>2, <1>3, ZeroesTyped, SlotAssumption DEF Idle, TaskState, Local, Quiet
<1>5. TasksOK'
  BY <1>3, <1>4, QuietStep
<1>6. RestOK'
  BY Split DEF StartRead, RestOK, mapVars, slabVars, countVars
<1> QED
  BY <1>5, <1>6, SplitNext

\* StartDiscard keeps the invariant.
LEMMA StartDiscardKeeps ==
    ASSUME IInv, NEW p \in Task, NEW v \in Volume, StartDiscard(p, v) PROVE IInv'
<1> DEFINE r == [Idle EXCEPT !.pc = "lock", !.kind = "discard", !.vol = v]
           hears(q) == t[q].kind = "read" /\ t[q].vol = v
<1>1. RestOK
  BY Split
<1>2. t[p] = Idle /\ t' = [q \in Task |-> IF q = p THEN r
                                         ELSE IF hears(q) THEN [t[q] EXCEPT !.valid = @ \cup {0}] ELSE t[q]]
  BY DEF StartDiscard
<1>3. r \in TaskState /\ Local(r) /\ r.held = Idle.held /\ r.exclusive = Idle.exclusive
      /\ r.locked = Idle.locked /\ ~Idle.locked
  BY ZeroesTyped, SlotAssumption DEF Idle, TaskState, Local
<1> HIDE DEF r, hears
<1>4. ASSUME NEW q \in Task
      PROVE  /\ t'[q] \in TaskState /\ Local(t'[q])
             /\ t'[q].held = t[q].held /\ t'[q].exclusive = t[q].exclusive
             /\ t'[q].locked = t[q].locked /\ (t[q].locked => t'[q].vol = t[q].vol)
  <2>1. CASE q = p
    BY <1>2, <1>3, <2>1
  <2>2. CASE q /= p /\ hears(q)
    <3>1. t'[q] = [t[q] EXCEPT !.valid = @ \cup {0}] /\ t[q] \in TaskState /\ Local(t[q])
      BY <1>2, <2>2, TaskKnown
    <3> QED
      BY <3>1, ValidTyped
  <2>3. CASE q /= p /\ ~hears(q)
    BY <1>2, <2>3, TaskKnown
  <2> QED
    BY <2>1, <2>2, <2>3
<1>5. t' \in [Task -> TaskState]
  <2>1. t' = [q \in Task |-> t'[q]]
    BY <1>2
  <2> QED
    BY <1>4, <2>1
<1>6. TasksOK'
  BY <1>4, <1>5, SameLocks
<1>7. RestOK'
  BY <1>1 DEF StartDiscard, RestOK, mapVars, slabVars, countVars
<1> QED
  BY <1>6, <1>7, SplitNext

\* StartMove keeps the invariant.
LEMMA StartMoveKeeps ==
    ASSUME IInv, NEW p \in Task, NEW v \in Volume, StartMove(p, v) PROVE IInv'
<1> DEFINE r == [Idle EXCEPT !.pc = "exclusive", !.kind = "move", !.vol = v, !.loc = map[v]]
<1>1. t[p] = Idle /\ map[v] \in Slot /\ t' = [t EXCEPT ![p] = r]
  BY Split DEF StartMove, Step, RestOK
<1>2. Quiet(p, r)
  BY <1>1, ZeroesTyped, SlotAssumption DEF Idle, TaskState, Local, Quiet
<1>3. TasksOK'
  BY <1>1, <1>2, QuietStep
<1>4. RestOK'
  BY Split DEF StartMove, RestOK, mapVars, slabVars
<1> QED
  BY <1>3, <1>4, SplitNext

\* StartRetier keeps the invariant.
LEMMA StartRetierKeeps ==
    ASSUME IInv, NEW p \in Task, NEW v \in Volume, StartRetier(p, v) PROVE IInv'
<1> DEFINE r == [Idle EXCEPT !.pc = "copy", !.kind = "retier", !.vol = v,
                             !.loc = map[v], !.refs = refs[v]]
<1>1. t[p] = Idle /\ map[v] \in Slot /\ refs[v] \in Nat /\ t' = [t EXCEPT ![p] = r]
  BY Split DEF StartRetier, Step, RestOK
<1>2. Quiet(p, r)
  BY <1>1, ZeroesTyped, SlotAssumption DEF Idle, TaskState, Local, Quiet
<1>3. TasksOK'
  BY <1>1, <1>2, QuietStep
<1>4. RestOK'
  BY Split DEF StartRetier, RestOK, mapVars, slabVars
<1> QED
  BY <1>3, <1>4, SplitNext

-----------------------------------------------------------------------------
(* Steps of no task. *)

\* A step of no task.
LEMMA TasksStay == ASSUME IInv, UNCHANGED t PROVE TasksOK'
  BY DEF IInv, StateOK, TasksOK, Exclusion

\* ReleaseOwed keeps the invariant.
LEMMA ReleaseOwedKeeps == ASSUME IInv, ReleaseOwed PROVE IInv'
<1>1. TasksOK'
  BY TasksStay DEF ReleaseOwed
<1>2. RestOK'
  BY Split, ZeroesTyped DEF ReleaseOwed, RestOK, mapVars, countVars
<1> QED
  BY <1>1, <1>2, SplitNext

\* Snapshot keeps the invariant.
LEMMA SnapshotKeeps ==
    ASSUME IInv, NEW v \in Volume, NEW w \in Volume, Snapshot(v, w) PROVE IInv'
<1>1. TasksOK'
  BY TasksStay DEF Snapshot
<1>2. RestOK
  BY Split
<1>3. refs' \in [Volume -> Nat] /\ count' \in [Slot -> Nat]
  <2>1. CASE map[v] = None
    BY <1>2, <2>1 DEF Snapshot, RestOK
  <2>2. CASE map[v] /= None
    BY <1>2, <2>2 DEF Snapshot, RestOK
  <2> QED
    BY <2>1, <2>2
<1>4. RestOK'
  BY <1>2, <1>3 DEF Snapshot, RestOK
<1> QED
  BY <1>1, <1>4, SplitNext

\* Delete keeps the invariant.
LEMMA DeleteKeeps == ASSUME IInv, NEW v \in Volume, Delete(v) PROVE IInv'
<1>1. TasksOK'
  BY TasksStay DEF Delete
<1>2. RestOK
  BY Split
<1>3. /\ count' \in [Slot -> Nat]
      /\ owner' \in [Slot -> Volume \cup {None}]
      /\ freeing' \in SUBSET Slot
      /\ data' \in [Slot -> Content]
  <2>1. CASE map[v] = None \/ count[map[v]] = 0
    BY <1>2, <2>1 DEF Delete, RestOK
  <2>2. CASE ~(map[v] = None \/ count[map[v]] = 0)
    <3>1. map[v] \in Slot /\ count[map[v]] - 1 \in Nat
      BY <1>2, <2>2 DEF RestOK
    <3> QED
      BY <1>2, <2>2, <3>1, RetireTyped DEF Delete
  <2> QED
    BY <2>1, <2>2
<1>4. RestOK'
  BY <1>2, <1>3, ZeroesTyped DEF Delete, RestOK, countVars
<1> QED
  BY <1>1, <1>4, SplitNext

\* SetQuarantined keeps the invariant.
LEMMA SetQuarantinedKeeps == ASSUME IInv, NEW d \in Slab, SetQuarantined(d) PROVE IInv'
<1>1. TasksOK'
  BY TasksStay DEF SetQuarantined
<1>2. RestOK'
  BY Split DEF SetQuarantined, RestOK, mapVars
<1> QED
  BY <1>1, <1>2, SplitNext

\* Sync keeps the invariant.
LEMMA SyncKeeps == ASSUME IInv, Sync PROVE IInv'
<1>1. TasksOK'
  BY TasksStay DEF Sync
<1>2. RestOK'
  BY Split DEF Sync, RestOK, mapVars, countVars
<1> QED
  BY <1>1, <1>2, SplitNext

-----------------------------------------------------------------------------
\* Every step keeps the invariant.
LEMMA NextIInv == IInv /\ [Next]_vars => IInv'
<1> SUFFICES ASSUME IInv, [Next]_vars PROVE IInv'
  OBVIOUS
<1>1. ASSUME NEW p \in Task, Advance(p) PROVE IInv'
  BY <1>1, LookupKeeps, HoldKeeps, RecheckKeeps, ReadSlotKeeps, DecideKeeps, LockVolumeKeeps,
     WriteInPlaceKeeps, CopySlotKeeps, AllocateKeeps, NoSpaceKeeps, FillKeeps, FillErrorGives,
     RemapKeeps, ReleaseKeeps, SyncRefsKeeps, DoneKeeps, DiscardAloneKeeps, UnmapKeeps,
     ExclusiveKeeps, PublishKeeps DEF Advance
<1>2. ASSUME NEW p \in Task, NEW v \in Volume, NEW b \in Block, StartWrite(p, v, b) \/ StartRead(p, v, b)
      PROVE  IInv'
  BY <1>2, StartWriteKeeps, StartReadKeeps
<1>3. ASSUME NEW p \in Task, NEW v \in Volume,
             StartDiscard(p, v) \/ StartMove(p, v) \/ StartRetier(p, v)
      PROVE  IInv'
  BY <1>3, StartDiscardKeeps, StartMoveKeeps, StartRetierKeeps
<1>4. CASE \/ \E v, w \in Volume : Snapshot(v, w)
           \/ \E v \in Volume : Delete(v)
           \/ \E d \in Slab : SetQuarantined(d)
           \/ ReleaseOwed
           \/ Sync
  BY <1>4, SnapshotKeeps, DeleteKeeps, SetQuarantinedKeeps, ReleaseOwedKeeps, SyncKeeps
<1>5. CASE UNCHANGED vars
  <2>1. TasksOK'
    BY <1>5, TasksStay DEF vars, ioVars
  <2>2. RestOK'
    BY <1>5, Split DEF RestOK, vars, ioVars
  <2> QED
    BY <2>1, <2>2, SplitNext
<1> QED
  BY <1>1, <1>2, <1>3, <1>4, <1>5 DEF Next, Operate

\* IInv is an invariant.
LEMMA Invariance == Spec => []IInv
<1>1. Init => IInv
  BY InitIInv
<1>2. IInv /\ [Next]_vars => IInv'
  BY NextIInv
<1> QED
  BY <1>1, <1>2, PTL DEF Spec

\* Every variable keeps its type, and no share count falls below zero
\* (Slab::dec_ref, VolumeManager::delete_volume), whatever operations run.
THEOREM Typed == Spec => []TypeOK
<1> DEFINE GhostsOK == load \in Loads /\ overtaken \in SUBSET Volume
<1>1. Init => GhostsOK
  BY DEF Init
<1>2. GhostsOK /\ [Next]_vars => GhostsOK'
  BY DEF Next, vars
<1>3. IInv /\ GhostsOK => TypeOK
  BY DEF IInv, TypeOK
<1> QED
  BY <1>1, <1>2, <1>3, Invariance, PTL DEF Spec

\* A move that has a slot has it alone, and a volume's lock has one holder
\* (fence::hold, fence::exclusive, write_blocks, discard), for any number of
\* tasks, volumes and slots.
THEOREM MovesAlone == Spec => []Exclusion
<1>1. IInv => Exclusion
  BY DEF IInv
<1> QED
  BY <1>1, Invariance, PTL

-----------------------------------------------------------------------------
(* Share counts. *)

\* The maps that name a slot, and the tasks that have a share of it to publish
\* or to give back.
Names(s) == {v \in Volume : map[v] = s}

Claims(r, s) ==
    \/ r.pc = "release" /\ r.loc = s
    \/ r.pc \in {"fill", "remap", "publish"} /\ r.new = s

InFlight(s) == {p \in Task : Claims(t[p], s)}

\* A slot's share count is the maps that name it and the shares in flight,
\* unless it was moved and is yet to be freed; a slot without shares is free.
Counted(s) ==
    /\ s \notin owed => count[s] = Cardinality(Names(s)) + Cardinality(InFlight(s))
    /\ s \in owed => Names(s) = {} /\ InFlight(s) = {} /\ count[s] > 0
    /\ (count[s] = 0) <=> (s \in free \cup freeing)

\* What a task's place says of its kind, its lock and its fence.
Form(r) ==
    /\ (r.pc = "idle") <=> (r.kind = "none")
    /\ r.pc \in {"copy", "alloc", "fill"} => r.kind \in {"write", "move", "retier"}
    /\ r.pc \in {"remap", "refs"} => r.kind \in {"write", "retier"}
    /\ r.pc = "release" => r.kind \in {"write", "retier", "discard"}
    /\ r.pc = "unmap" => r.kind = "discard"
    /\ r.pc = "io" => r.kind \in {"read", "write"}
    /\ r.kind = "write" /\ r.pc \in {"copy", "alloc", "fill", "remap", "release", "refs"} => r.locked
    /\ r.kind = "discard" /\ r.pc /= "lock" => r.locked
    /\ r.kind = "move" /\ r.pc /= "exclusive" => r.exclusive
    /\ r.pc \in {"recheck", "decide", "unmap"} => r.held = r.loc
    /\ r.kind = "write" /\ r.pc \in {"copy", "alloc", "fill", "remap", "release"} => r.held = r.loc
    /\ r.kind = "discard" /\ r.pc = "release" => r.held = r.loc
    /\ r.pc = "refs" => r.shares >= 1

\* What its place says of the maps and the slots: under the volume lock the
\* map stays as it was found, and a slot just allocated is nobody else's.
Placed(r) ==
    /\ r.kind \in {"read", "write", "discard", "retier"} => r.vol \in live
    /\ r.kind = "write" /\ r.locked /\ r.pc \in {"decide", "copy", "alloc", "fill", "remap"}
        => map[r.vol] = r.loc
    /\ r.kind = "retier" /\ r.pc \in {"copy", "alloc", "fill", "remap"} => map[r.vol] = r.loc
    /\ r.pc = "unmap" => map[r.vol] = r.loc
    /\ r.pc \in {"fill", "remap", "publish"} => count[r.new] = 1 /\ r.new \notin owed

\* The inductive invariant of the share counts.
CInv ==
    /\ \A s \in Slot : Counted(s)
    /\ \A p \in Task : Form(t[p]) /\ Placed(t[p])
    /\ free \cap freeing = {}
    /\ \A v \in Volume : map[v] /= None => v \in live /\ refs[v] >= 1

\* The sets that are counted are finite.
LEMMA FiniteCounted ==
    ASSUME NEW s
    PROVE  /\ IsFiniteSet(Names(s)) /\ Cardinality(Names(s)) \in Nat
           /\ IsFiniteSet(InFlight(s)) /\ Cardinality(InFlight(s)) \in Nat
<1>1. Names(s) \in SUBSET Volume /\ InFlight(s) \in SUBSET Task
  BY DEF Names, InFlight
<1> QED
  BY <1>1, FS_Subset, FS_CardinalityType, FiniteAssumption

\* One element comes or goes.
LEMMA Swapped ==
    ASSUME NEW S, IsFiniteSet(S), NEW x, NEW T, T = S \cup {x} \/ T = S \ {x}
    PROVE  Cardinality(T) = Cardinality(S) - (IF x \in S THEN 1 ELSE 0) + (IF x \in T THEN 1 ELSE 0)
<1>1. Cardinality(S) \in Nat
  BY FS_CardinalityType
<1>2. CASE T = S \cup {x}
  <2>1. Cardinality(S \cup {x}) = IF x \in S THEN Cardinality(S) ELSE Cardinality(S) + 1
    BY FS_AddElement
  <2>2. x \in T
    BY <1>2
  <2> QED
    BY <1>1, <1>2, <2>1, <2>2
<1>3. CASE T = S \ {x}
  <2>1. Cardinality(S \ {x}) = IF x \in S THEN Cardinality(S) - 1 ELSE Cardinality(S)
    BY FS_RemoveElement
  <2>2. x \notin T
    BY <1>3
  <2> QED
    BY <1>1, <1>3, <2>1, <2>2
<1> QED
  BY <1>2, <1>3

\* A volume's map entry changes: one slot's names fall, another's rise.
LEMMA NamesCount ==
    ASSUME map \in [Volume -> Slot \cup {None}], NEW v \in Volume, NEW x, map' = [map EXCEPT ![v] = x], NEW s
    PROVE  /\ Names(s)' = IF x = s THEN Names(s) \cup {v} ELSE Names(s) \ {v}
           /\ Cardinality(Names(s)') = Cardinality(Names(s)) - (IF map[v] = s THEN 1 ELSE 0)
                                                             + (IF x = s THEN 1 ELSE 0)
<1>1. Names(s)' = IF x = s THEN Names(s) \cup {v} ELSE Names(s) \ {v}
  <2>1. \A u \in Volume : map'[u] = IF u = v THEN x ELSE map[u]
    OBVIOUS
  <2>2. CASE x = s
    BY <2>1, <2>2 DEF Names
  <2>3. CASE x /= s
    BY <2>1, <2>3 DEF Names
  <2> QED
    BY <2>2, <2>3
<1>2. v \in Names(s) <=> map[v] = s
  BY DEF Names
<1>3. v \in Names(s)' <=> x = s
  BY <1>1
<1>4. Cardinality(Names(s)') = Cardinality(Names(s)) - (IF v \in Names(s) THEN 1 ELSE 0)
                                                      + (IF v \in Names(s)' THEN 1 ELSE 0)
  BY <1>1, FiniteCounted, Swapped
<1> QED
  BY <1>1, <1>2, <1>3, <1>4

\* A task's registers change: so do the shares it has in flight.
LEMMA ClaimsCount ==
    ASSUME t \in [Task -> TaskState], NEW p \in Task, NEW r, t' = [t EXCEPT ![p] = r], NEW s
    PROVE  /\ InFlight(s)' = IF Claims(r, s) THEN InFlight(s) \cup {p} ELSE InFlight(s) \ {p}
           /\ Cardinality(InFlight(s)') = Cardinality(InFlight(s)) - (IF Claims(t[p], s) THEN 1 ELSE 0)
                                                                   + (IF Claims(r, s) THEN 1 ELSE 0)
<1>1. InFlight(s)' = IF Claims(r, s) THEN InFlight(s) \cup {p} ELSE InFlight(s) \ {p}
  <2>1. \A q \in Task : t'[q] = IF q = p THEN r ELSE t[q]
    OBVIOUS
  <2>2. InFlight(s)' = {q \in Task : Claims(t'[q], s)}
    BY DEF InFlight, Claims
  <2>3. CASE Claims(r, s)
    BY <2>1, <2>2, <2>3 DEF InFlight
  <2>4. CASE ~Claims(r, s)
    BY <2>1, <2>2, <2>4 DEF InFlight
  <2> QED
    BY <2>3, <2>4
<1>2. p \in InFlight(s) <=> Claims(t[p], s)
  BY DEF InFlight
<1>3. p \in InFlight(s)' <=> Claims(r, s)
  BY <1>1
<1>4. Cardinality(InFlight(s)') = Cardinality(InFlight(s)) - (IF p \in InFlight(s) THEN 1 ELSE 0)
                                                            + (IF p \in InFlight(s)' THEN 1 ELSE 0)
  BY <1>1, FiniteCounted, Swapped
<1> QED
  BY <1>1, <1>2, <1>3, <1>4

\* A slot just allocated is named by no map, and claimed by its task alone.
LEMMA NewIsPrivate ==
    ASSUME IInv, CInv, NEW p \in Task, t[p].pc \in {"fill", "remap", "publish"}
    PROVE  /\ t[p].new \in Slot /\ t[p].new \notin owed /\ count[t[p].new] = 1
           /\ Names(t[p].new) = {} /\ InFlight(t[p].new) = {p}
<1> DEFINE s == t[p].new
<1>1. s \in Slot /\ s \notin owed /\ count[s] = 1
  BY TaskKnown DEF CInv, Placed, Local
<1>2. count[s] = Cardinality(Names(s)) + Cardinality(InFlight(s))
  BY <1>1 DEF CInv, Counted
<1>3. p \in InFlight(s)
  BY DEF InFlight, Claims
<1> HIDE DEF s
<1>4. /\ IsFiniteSet(InFlight(s) \ {p})
      /\ Cardinality(InFlight(s) \ {p}) = Cardinality(InFlight(s)) - 1
      /\ Cardinality(InFlight(s) \ {p}) \in Nat
  BY <1>3, FiniteCounted, FS_RemoveElement, FS_CardinalityType
<1>5. Cardinality(Names(s)) = 0 /\ Cardinality(InFlight(s) \ {p}) = 0
  BY <1>1, <1>2, <1>4, FiniteCounted
<1>6. Names(s) = {} /\ InFlight(s) \ {p} = {}
  BY <1>4, <1>5, FiniteCounted, FS_EmptySet
<1> QED
  BY <1>1, <1>3, <1>6 DEF s

\* A slot a map names is owned, and not owed.
LEMMA NamedIsOwned ==
    ASSUME IInv, CInv, NEW v \in Volume, map[v] /= None
    PROVE  /\ map[v] \in Slot /\ map[v] \notin owed /\ count[map[v]] >= 1 /\ v \in Names(map[v])
           /\ map[v] \notin free \cup freeing
<1> DEFINE s == map[v]
<1>1. s \in Slot /\ v \in Names(s) /\ count[s] \in Nat
  BY Split DEF RestOK, Names
<1>2. s \notin owed /\ count[s] = Cardinality(Names(s)) + Cardinality(InFlight(s))
  BY <1>1 DEF CInv, Counted
<1> HIDE DEF s
<1>3. Cardinality(Names(s)) /= 0
  BY <1>1, FiniteCounted, FS_EmptySet
<1>4. count[s] >= 1
  BY <1>1, <1>2, <1>3, FiniteCounted
<1>5. s \notin free \cup freeing
  BY <1>1, <1>4 DEF CInv, Counted
<1> QED
  BY <1>1, <1>2, <1>4, <1>5 DEF s

\* A slot in flight is owned, and not owed.
LEMMA ClaimedIsOwned ==
    ASSUME IInv, CInv, NEW p \in Task, NEW s \in Slot, Claims(t[p], s)
    PROVE  s \notin owed /\ count[s] >= 1 /\ p \in InFlight(s) /\ s \notin free \cup freeing
<1>1. p \in InFlight(s) /\ count[s] \in Nat
  BY Split DEF RestOK, InFlight
<1>2. s \notin owed /\ count[s] = Cardinality(Names(s)) + Cardinality(InFlight(s))
  BY <1>1 DEF CInv, Counted
<1>3. Cardinality(InFlight(s)) /= 0
  BY <1>1, FiniteCounted, FS_EmptySet
<1>4. count[s] >= 1
  BY <1>1, <1>2, <1>3, FiniteCounted
<1>5. s \notin free \cup freeing
  BY <1>1, <1>4 DEF CInv, Counted
<1> QED
  BY <1>1, <1>2, <1>4, <1>5

\* A step of one task that leaves maps, counts and claims alone.
LEMMA CalmStep ==
    ASSUME IInv, CInv, NEW p \in Task, NEW r, t' = [t EXCEPT ![p] = r],
           UNCHANGED <<live, map, refs, count, free, freeing, owed>>,
           \A s \in Slot : Claims(r, s) <=> Claims(t[p], s),
           Form(r), Placed(r)
    PROVE  CInv'
<1> t \in [Task -> TaskState]
  BY DEF IInv, StateOK
<1>1. \A s \in Slot : Names(s)' = Names(s) /\ InFlight(s)' = InFlight(s)
  <2> SUFFICES ASSUME NEW s \in Slot PROVE Names(s)' = Names(s) /\ InFlight(s)' = InFlight(s)
    OBVIOUS
  <2>1. \A q \in Task : Claims(t'[q], s) <=> Claims(t[q], s)
    OBVIOUS
  <2> QED
    BY <2>1 DEF Names, InFlight, Claims
<1>2. \A s \in Slot : Counted(s)'
  BY <1>1 DEF CInv, Counted
<1>3. \A q \in Task : Form(t'[q]) /\ Placed(t'[q])
  BY DEF CInv
<1>4. \A q \in Task : (Form(t[q]) /\ Placed(t[q]))'
  BY <1>3 DEF Form, Placed
<1> QED
  BY <1>2, <1>4 DEF CInv

\* A task that ends without a share in flight.
LEMMA CalmFinish ==
    ASSUME IInv, CInv, NEW p \in Task, t' = [t EXCEPT ![p] = Idle],
           UNCHANGED <<live, map, refs, count, free, freeing, owed>>,
           t[p].pc \notin {"release", "fill", "remap", "publish"}
    PROVE  CInv'
<1>1. Form(Idle) /\ Placed(Idle) /\ \A s \in Slot : ~Claims(Idle, s) /\ ~Claims(t[p], s)
  BY DEF Form, Placed, Claims, Idle
<1> QED
  BY <1>1, CalmStep

\* Lookup keeps the counts.
LEMMA LookupCounts == ASSUME IInv, CInv, NEW p \in Task, Lookup(p) PROVE CInv'
<1> DEFINE s == map[t[p].vol]
           r == Found(p, s)
<1>1. t[p] \in TaskState /\ Local(t[p]) /\ Form(t[p]) /\ Placed(t[p]) /\ t[p].pc = "lookup"
  BY TaskKnown DEF CInv, Lookup
<1>2. Form(r) /\ Placed(r) /\ \A x \in Slot : ~Claims(r, x) /\ ~Claims(t[p], x)
  BY <1>1 DEF Found, TaskState, Local, Form, Placed, Claims
<1> QED
  BY <1>2, CalmStep DEF Lookup, Step, mapVars, slabVars

\* Hold keeps the counts.
LEMMA HoldCounts == ASSUME IInv, CInv, NEW p \in Task, Hold(p) PROVE CInv'
<1> DEFINE r == [t[p] EXCEPT !.pc = "recheck", !.held = t[p].loc]
<1>1. t[p] \in TaskState /\ Local(t[p]) /\ Form(t[p]) /\ Placed(t[p]) /\ t[p].pc = "hold"
  BY TaskKnown DEF CInv, Hold
<1>2. Form(r) /\ Placed(r) /\ \A x \in Slot : ~Claims(r, x) /\ ~Claims(t[p], x)
  BY <1>1 DEF TaskState, Local, Form, Placed, Claims
<1> QED
  BY <1>2, CalmStep DEF Hold, Step, mapVars, slabVars

\* Recheck keeps the counts.
LEMMA RecheckCounts == ASSUME IInv, CInv, NEW p \in Task, Recheck(p) PROVE CInv'
<1> DEFINE v == t[p].vol
           r == [t[p] EXCEPT !.refs = refs[v],
                             !.pc = CASE t[p].kind = "read" -> "io"
                                      [] t[p].kind = "discard" -> "unmap"
                                      [] OTHER -> "decide"]
<1>1. t[p] \in TaskState /\ Local(t[p]) /\ Form(t[p]) /\ Placed(t[p]) /\ t[p].pc = "recheck"
  BY TaskKnown DEF CInv, Recheck
<1>2. CASE map[v] = t[p].held
  <2>1. Form(r) /\ Placed(r) /\ \A x \in Slot : ~Claims(r, x) /\ ~Claims(t[p], x)
    BY <1>1, <1>2 DEF TaskState, Local, Form, Placed, Claims
  <2> QED
    BY <1>2, <2>1, CalmStep DEF Recheck, Step, mapVars, slabVars
<1>3. CASE map[v] /= t[p].held
  <2> DEFINE f == Found(p, map[v])
  <2>1. Form(f) /\ Placed(f) /\ \A x \in Slot : ~Claims(f, x) /\ ~Claims(t[p], x)
    BY <1>1, <1>3 DEF Found, TaskState, Local, Form, Placed, Claims
  <2> QED
    BY <1>3, <2>1, CalmStep DEF Recheck, Step, mapVars, slabVars
<1> QED
  BY <1>2, <1>3

\* ReadSlot keeps the counts.
LEMMA ReadSlotCounts == ASSUME IInv, CInv, NEW p \in Task, ReadSlot(p) PROVE CInv'
  BY CalmFinish DEF ReadSlot, Finish, mapVars, slabVars

\* Decide keeps the counts.
LEMMA DecideCounts == ASSUME IInv, CInv, NEW p \in Task, Decide(p) PROVE CInv'
<1> DEFINE r == IF t[p].refs = 1 /\ ~OnLeavingSlab(t[p].held) THEN [t[p] EXCEPT !.pc = "io"]
                ELSE IF t[p].locked THEN [t[p] EXCEPT !.pc = "copy"]
                ELSE [t[p] EXCEPT !.pc = "lock", !.held = None]
<1>1. t[p] \in TaskState /\ Local(t[p]) /\ Form(t[p]) /\ Placed(t[p]) /\ t[p].pc = "decide"
  BY TaskKnown DEF CInv, Decide
<1>2. Form(r) /\ Placed(r) /\ \A x \in Slot : ~Claims(r, x) /\ ~Claims(t[p], x)
  BY <1>1 DEF TaskState, Local, Form, Placed, Claims
<1> QED
  BY <1>2, CalmStep DEF Decide, Step, mapVars, slabVars

\* LockVolume keeps the counts.
LEMMA LockVolumeCounts == ASSUME IInv, CInv, NEW p \in Task, LockVolume(p) PROVE CInv'
<1> DEFINE r == [t[p] EXCEPT !.locked = TRUE,
                             !.pc = IF t[p].kind = "discard" THEN "alone?" ELSE "lookup"]
<1>1. t[p] \in TaskState /\ Local(t[p]) /\ Form(t[p]) /\ Placed(t[p]) /\ t[p].pc = "lock"
  BY TaskKnown DEF CInv, LockVolume
<1>2. Form(r) /\ Placed(r) /\ \A x \in Slot : ~Claims(r, x) /\ ~Claims(t[p], x)
  BY <1>1 DEF TaskState, Local, Form, Placed, Claims
<1> QED
  BY <1>2, CalmStep DEF LockVolume, Step, mapVars, slabVars

\* WriteInPlace keeps the counts.
LEMMA WriteInPlaceCounts == ASSUME IInv, CInv, NEW p \in Task, WriteInPlace(p) PROVE CInv'
  BY CalmFinish DEF WriteInPlace, Finish, mapVars, slabVars

\* CopySlot keeps the counts.
LEMMA CopySlotCounts == ASSUME IInv, CInv, NEW p \in Task, CopySlot(p) PROVE CInv'
<1> DEFINE c == IF t[p].kind = "write" THEN [data[t[p].loc] EXCEPT ![t[p].block] = t[p].val]
                ELSE data[t[p].loc]
           r == [t[p] EXCEPT !.pc = "alloc", !.buf = c]
<1>1. t[p] \in TaskState /\ Local(t[p]) /\ Form(t[p]) /\ Placed(t[p]) /\ t[p].pc = "copy"
  BY TaskKnown DEF CInv, CopySlot
<1>2. t' = [t EXCEPT ![p] = r]
  BY DEF CopySlot, Step
<1> HIDE DEF c
<1>3. Form(r) /\ Placed(r) /\ \A x \in Slot : ~Claims(r, x) /\ ~Claims(t[p], x)
  BY <1>1 DEF TaskState, Local, Form, Placed, Claims
<1> QED
  BY <1>2, <1>3, CalmStep DEF CopySlot, mapVars, slabVars

\* NoSpace keeps the counts.
LEMMA NoSpaceCounts == ASSUME IInv, CInv, NEW p \in Task, NoSpace(p) PROVE CInv'
<1> DEFINE r == [t[p] EXCEPT !.pc = "io"]
<1>1. t[p] \in TaskState /\ Local(t[p]) /\ Form(t[p]) /\ Placed(t[p]) /\ t[p].pc = "alloc"
  BY TaskKnown DEF CInv, NoSpace
<1>2. CASE t[p].kind = "write" /\ t[p].loc /= None /\ t[p].refs = 1
  <2>1. Form(r) /\ Placed(r) /\ \A x \in Slot : ~Claims(r, x) /\ ~Claims(t[p], x)
    BY <1>1, <1>2 DEF TaskState, Local, Form, Placed, Claims
  <2> QED
    BY <1>2, <2>1, CalmStep DEF NoSpace, Step, mapVars, slabVars
<1>3. CASE ~(t[p].kind = "write" /\ t[p].loc /= None /\ t[p].refs = 1)
  BY <1>1, <1>3, CalmFinish DEF NoSpace, Finish, mapVars, slabVars
<1> QED
  BY <1>2, <1>3

\* Fill keeps the counts.
LEMMA FillCounts == ASSUME IInv, CInv, NEW p \in Task, Fill(p) PROVE CInv'
<1> DEFINE r == [t[p] EXCEPT !.pc = IF t[p].kind = "move" THEN "publish" ELSE "remap"]
<1>1. t[p] \in TaskState /\ Local(t[p]) /\ Form(t[p]) /\ Placed(t[p]) /\ t[p].pc = "fill"
  BY TaskKnown DEF CInv, Fill
<1>2. Form(r) /\ Placed(r) /\ \A x \in Slot : Claims(r, x) <=> Claims(t[p], x)
  BY <1>1 DEF TaskState, Local, Form, Placed, Claims
<1> QED
  BY <1>2, CalmStep DEF Fill, Step, mapVars, slabVars

\* Done keeps the counts.
LEMMA DoneCounts == ASSUME IInv, CInv, NEW p \in Task, Done(p) PROVE CInv'
  BY CalmFinish DEF Done, Finish, mapVars, slabVars

\* DiscardAlone keeps the counts.
LEMMA DiscardAloneCounts == ASSUME IInv, CInv, NEW p \in Task, DiscardAlone(p) PROVE CInv'
<1> DEFINE r == [t[p] EXCEPT !.pc = IF refs[t[p].vol] > 1 THEN "done" ELSE "lookup"]
<1>1. t[p] \in TaskState /\ Local(t[p]) /\ Form(t[p]) /\ Placed(t[p]) /\ t[p].pc = "alone?"
  BY TaskKnown DEF CInv, DiscardAlone
<1>2. Form(r) /\ Placed(r) /\ \A x \in Slot : ~Claims(r, x) /\ ~Claims(t[p], x)
  BY <1>1 DEF TaskState, Local, Form, Placed, Claims
<1> QED
  BY <1>2, CalmStep DEF DiscardAlone, Step, mapVars, slabVars

\* Exclusive keeps the counts.
LEMMA ExclusiveCounts == ASSUME IInv, CInv, NEW p \in Task, Exclusive(p) PROVE CInv'
<1> DEFINE r == [t[p] EXCEPT !.pc = "copy", !.held = t[p].loc, !.exclusive = TRUE]
<1>1. t[p] \in TaskState /\ Local(t[p]) /\ Form(t[p]) /\ Placed(t[p]) /\ t[p].pc = "exclusive"
  BY TaskKnown DEF CInv, Exclusive
<1>2. CASE map[t[p].vol] = t[p].loc
  <2>1. Form(r) /\ Placed(r) /\ \A x \in Slot : ~Claims(r, x) /\ ~Claims(t[p], x)
    BY <1>1, <1>2 DEF TaskState, Local, Form, Placed, Claims
  <2> QED
    BY <1>2, <2>1, CalmStep DEF Exclusive, Step, mapVars, slabVars
<1>3. CASE map[t[p].vol] /= t[p].loc
  BY <1>1, <1>3, CalmFinish DEF Exclusive, Step, mapVars, slabVars
<1> QED
  BY <1>2, <1>3

\* StartRead keeps the counts.
LEMMA StartReadCounts ==
    ASSUME IInv, CInv, NEW p \in Task, NEW v \in Volume, NEW b \in Block, StartRead(p, v, b) PROVE CInv'
<1> DEFINE may == {last[v][b]}
                  \cup {t[q].val : q \in {q \in Doing({"write"}, v) : t[q].block = b}}
                  \cup {0 : q \in Doing({"discard"}, v)}
           r == [Idle EXCEPT !.pc = "lookup", !.kind = "read", !.vol = v, !.block = b, !.valid = may]
<1>1. t[p] = Idle /\ v \in live /\ t' = [t EXCEPT ![p] = r]
  BY DEF StartRead, Step
<1> HIDE DEF may
<1>2. Form(r) /\ Placed(r) /\ \A x \in Slot : ~Claims(r, x) /\ ~Claims(t[p], x)
  BY <1>1 DEF Idle, Form, Placed, Claims
<1> QED
  BY <1>1, <1>2, CalmStep DEF StartRead, mapVars, slabVars

\* StartMove keeps the counts.
LEMMA StartMoveCounts ==
    ASSUME IInv, CInv, NEW p \in Task, NEW v \in Volume, StartMove(p, v) PROVE CInv'
<1> DEFINE r == [Idle EXCEPT !.pc = "exclusive", !.kind = "move", !.vol = v, !.loc = map[v]]
<1>1. t[p] = Idle /\ t' = [t EXCEPT ![p] = r]
  BY DEF StartMove, Step
<1>2. Form(r) /\ Placed(r) /\ \A x \in Slot : ~Claims(r, x) /\ ~Claims(t[p], x)
  BY <1>1 DEF Idle, Form, Placed, Claims
<1> QED
  BY <1>1, <1>2, CalmStep DEF StartMove, mapVars, slabVars

\* StartRetier keeps the counts.
LEMMA StartRetierCounts ==
    ASSUME IInv, CInv, NEW p \in Task, NEW v \in Volume, StartRetier(p, v) PROVE CInv'
<1> DEFINE r == [Idle EXCEPT !.pc = "copy", !.kind = "retier", !.vol = v,
                             !.loc = map[v], !.refs = refs[v]]
<1>1. t[p] = Idle /\ v \in live /\ t' = [t EXCEPT ![p] = r]
  BY DEF StartRetier, Step
<1>2. Form(r) /\ Placed(r) /\ \A x \in Slot : ~Claims(r, x) /\ ~Claims(t[p], x)
  BY <1>1 DEF Idle, Form, Placed, Claims
<1> QED
  BY <1>1, <1>2, CalmStep DEF StartRetier, mapVars, slabVars

\* A request that reads in flight hear of.
LEMMA HeardStep ==
    ASSUME IInv, CInv, NEW p \in Task, t[p] = Idle, NEW r, Form(r), Placed(r), \A s \in Slot : ~Claims(r, s),
           NEW n, t'[p] = r,
           \A q \in Task \ {p} : t'[q] = t[q] \/ t'[q] = [t[q] EXCEPT !.valid = @ \cup {n}],
           UNCHANGED <<live, map, refs, count, free, freeing, owed>>
    PROVE  CInv'
<1>1. \A q \in Task \ {p} : /\ Form(t'[q]) <=> Form(t[q])
                            /\ Placed(t'[q]) <=> Placed(t[q])
                            /\ \A s \in Slot : Claims(t'[q], s) <=> Claims(t[q], s)
  <2> SUFFICES ASSUME NEW q \in Task \ {p}, t'[q] = [t[q] EXCEPT !.valid = @ \cup {n}]
               PROVE  /\ Form(t'[q]) <=> Form(t[q])
                      /\ Placed(t'[q]) <=> Placed(t[q])
                      /\ \A s \in Slot : Claims(t'[q], s) <=> Claims(t[q], s)
    OBVIOUS
  <2>1. t[q] \in TaskState
    BY TaskKnown
  <2>2. /\ t'[q].pc = t[q].pc /\ t'[q].kind = t[q].kind /\ t'[q].vol = t[q].vol /\ t'[q].loc = t[q].loc
        /\ t'[q].new = t[q].new /\ t'[q].held = t[q].held /\ t'[q].exclusive = t[q].exclusive
        /\ t'[q].locked = t[q].locked /\ t'[q].shares = t[q].shares
    BY <2>1 DEF TaskState
  <2> QED
    BY <2>2 DEF Form, Placed, Claims
<1>2. \A s \in Slot : Names(s)' = Names(s) /\ InFlight(s)' = InFlight(s)
  <2>1. \A s \in Slot : ~Claims(t[p], s) /\ ~Claims(t'[p], s)
    BY DEF Claims, Idle
  <2>2. \A s \in Slot : \A q \in Task : Claims(t'[q], s) <=> Claims(t[q], s)
    BY <1>1, <2>1
  <2>3. \A s \in Slot : InFlight(s)' = {q \in Task : Claims(t'[q], s)}
    BY DEF InFlight, Claims
  <2> QED
    BY <2>2, <2>3 DEF Names, InFlight
<1>3. \A s \in Slot : Counted(s)'
  BY <1>2 DEF CInv, Counted
<1>4. \A q \in Task : Form(t'[q]) /\ Placed(t'[q])
  BY <1>1 DEF CInv
<1>5. \A q \in Task : (Form(t[q]) /\ Placed(t[q]))'
  BY <1>4 DEF Form, Placed
<1> QED
  BY <1>3, <1>5 DEF CInv

\* StartWrite keeps the counts.
LEMMA StartWriteCounts ==
    ASSUME IInv, CInv, NEW p \in Task, NEW v \in Volume, NEW b \in Block, StartWrite(p, v, b) PROVE CInv'
<1> DEFINE n == writes + 2
           r == [Idle EXCEPT !.pc = "lookup", !.kind = "write", !.vol = v, !.block = b, !.val = n]
<1>1. /\ t[p] = Idle /\ v \in live /\ t'[p] = r
      /\ \A q \in Task \ {p} : t'[q] = t[q] \/ t'[q] = [t[q] EXCEPT !.valid = @ \cup {n}]
  BY DEF StartWrite
<1> HIDE DEF n
<1>2. Form(r) /\ Placed(r) /\ \A x \in Slot : ~Claims(r, x)
  BY <1>1 DEF Idle, Form, Placed, Claims
<1> QED
  BY <1>1, <1>2, HeardStep DEF StartWrite, mapVars, slabVars

\* StartDiscard keeps the counts.
LEMMA StartDiscardCounts ==
    ASSUME IInv, CInv, NEW p \in Task, NEW v \in Volume, StartDiscard(p, v) PROVE CInv'
<1> DEFINE r == [Idle EXCEPT !.pc = "lock", !.kind = "discard", !.vol = v]
<1>1. /\ t[p] = Idle /\ v \in live /\ t'[p] = r
      /\ \A q \in Task \ {p} : t'[q] = t[q] \/ t'[q] = [t[q] EXCEPT !.valid = @ \cup {0}]
  BY DEF StartDiscard
<1>2. Form(r) /\ Placed(r) /\ \A x \in Slot : ~Claims(r, x)
  BY <1>1 DEF Idle, Form, Placed, Claims
<1> QED
  BY <1>1, <1>2, HeardStep DEF StartDiscard, mapVars, slabVars

\* Another task's slot is not one that is free, named, owed, or a third task's.
LEMMA NewsDiffer ==
    ASSUME IInv, CInv, NEW q \in Task, t[q].pc \in {"fill", "remap", "publish"}
    PROVE  /\ t[q].new \notin free \cup freeing \cup owed
           /\ \A v \in Volume : map[v] /= t[q].new
           /\ \A p \in Task, s \in Slot : p /= q /\ Claims(t[p], s) => t[q].new /= s
<1>1. /\ t[q].new \in Slot /\ t[q].new \notin owed /\ count[t[q].new] = 1
      /\ Names(t[q].new) = {} /\ InFlight(t[q].new) = {q}
  BY NewIsPrivate
<1>2. t[q].new \notin free \cup freeing
  BY <1>1 DEF CInv, Counted
<1> QED
  BY <1>1, <1>2 DEF Names, InFlight

\* Allocate keeps the counts.
LEMMA AllocateCounts == ASSUME IInv, CInv, NEW p \in Task, Allocate(p) PROVE CInv'
<1> PICK s \in Room(p) : /\ free' = free \ {s}
                         /\ count' = [count EXCEPT ![s] = 1]
                         /\ t' = [t EXCEPT ![p] = [t[p] EXCEPT !.pc = "fill", !.new = s]]
  BY DEF Allocate, Step
<1> DEFINE r == [t[p] EXCEPT !.pc = "fill", !.new = s]
<1>1. t[p] \in TaskState /\ Local(t[p]) /\ Form(t[p]) /\ Placed(t[p]) /\ t[p].pc = "alloc"
  BY TaskKnown DEF CInv, Allocate
<1>2. UNCHANGED <<live, map, refs, freeing, owed>>
  BY DEF Allocate, mapVars
<1>3. /\ s \in Slot /\ s \in free /\ count[s] = 0 /\ s \notin owed /\ s \notin freeing
      /\ count \in [Slot -> Nat] /\ t \in [Task -> TaskState]
  BY Split DEF Room, RestOK, TasksOK, CInv, Counted
<1>4. r.pc = "fill" /\ r.new = s
  BY <1>1 DEF TaskState
<1>5. \A x \in Slot : /\ Names(x)' = Names(x)
                      /\ InFlight(x)' = IF x = s THEN InFlight(x) \cup {p} ELSE InFlight(x) \ {p}
                      /\ Cardinality(InFlight(x)') = Cardinality(InFlight(x)) + (IF x = s THEN 1 ELSE 0)
  <2> SUFFICES ASSUME NEW x \in Slot
               PROVE  /\ Names(x)' = Names(x)
                      /\ InFlight(x)' = IF x = s THEN InFlight(x) \cup {p} ELSE InFlight(x) \ {p}
                      /\ Cardinality(InFlight(x)') = Cardinality(InFlight(x)) + (IF x = s THEN 1 ELSE 0)
    OBVIOUS
  <2>1. ~Claims(t[p], x) /\ (Claims(r, x) <=> x = s)
    BY <1>1, <1>4 DEF Claims
  <2>2. /\ InFlight(x)' = IF Claims(r, x) THEN InFlight(x) \cup {p} ELSE InFlight(x) \ {p}
        /\ Cardinality(InFlight(x)') = Cardinality(InFlight(x)) - (IF Claims(t[p], x) THEN 1 ELSE 0)
                                                                + (IF Claims(r, x) THEN 1 ELSE 0)
    BY <1>3, ClaimsCount
  <2>3. Names(x)' = Names(x)
    BY <1>2 DEF Names
  <2> HIDE DEF r
  <2> QED
    BY <2>1, <2>2, <2>3, FiniteCounted
<1>6. ASSUME NEW x \in Slot PROVE Counted(x)'
  <2>1. Counted(x) /\ Cardinality(InFlight(x)) \in Nat /\ Cardinality(Names(x)) \in Nat
    BY FiniteCounted DEF CInv
  <2>2. CASE x = s
    BY <1>2, <1>3, <1>5, <2>1, <2>2 DEF Counted
  <2>3. CASE x /= s
    BY <1>2, <1>3, <1>5, <2>1, <2>3 DEF Counted
  <2> QED
    BY <2>2, <2>3
<1>7. Form(r) /\ Placed(r)'
  BY <1>1, <1>2, <1>3 DEF TaskState, Form, Placed
<1>8. ASSUME NEW q \in Task, q /= p PROVE Form(t[q]) /\ Placed(t[q])'
  <2>1. t[q].pc \in {"fill", "remap", "publish"} => t[q].new \in Slot /\ t[q].new /= s
    BY <1>3, NewsDiffer, NewIsPrivate
  <2> QED
    BY <1>2, <1>3, <1>8, <2>1 DEF CInv, Placed
<1>9. \A q \in Task : (Form(t[q]) /\ Placed(t[q]))'
  BY <1>3, <1>7, <1>8 DEF Form, Placed
<1> QED
  BY <1>2, <1>6, <1>9 DEF CInv

\* A task between operations has no share in flight.
LEMMA IdleClaims == \A s : ~Claims(Idle, s)
  BY DEF Claims, Idle

\* SyncRefs keeps the counts.
LEMMA SyncRefsCounts == ASSUME IInv, CInv, NEW p \in Task, SyncRefs(p) PROVE CInv'
<1> DEFINE r == [t[p] EXCEPT !.pc = "done"]
<1>1. t[p] \in TaskState /\ Local(t[p]) /\ Form(t[p]) /\ Placed(t[p]) /\ t[p].pc = "refs"
  BY TaskKnown DEF CInv, SyncRefs
<1>2. t' = [t EXCEPT ![p] = r] /\ t \in [Task -> TaskState] /\ refs \in [Volume -> Nat]
  BY Split DEF SyncRefs, Step, TasksOK, RestOK
<1>3. UNCHANGED <<live, map, count, free, freeing, owed>>
  BY DEF SyncRefs, slabVars
<1>4. Form(r) /\ Placed(r) /\ \A x \in Slot : ~Claims(r, x) /\ ~Claims(t[p], x)
  BY <1>1 DEF TaskState, Local, Form, Placed, Claims
<1>5. \A s \in Slot : Names(s)' = Names(s) /\ InFlight(s)' = InFlight(s)
  <2>1. \A s \in Slot : \A q \in Task : Claims(t'[q], s) <=> Claims(t[q], s)
    BY <1>2, <1>4
  <2> QED
    BY <1>3, <2>1 DEF Names, InFlight, Claims
<1>6. \A s \in Slot : Counted(s)'
  BY <1>3, <1>5 DEF CInv, Counted
<1>7. \A q \in Task : Form(t'[q]) /\ Placed(t'[q])
  BY <1>2, <1>4 DEF CInv
<1>8. \A q \in Task : (Form(t[q]) /\ Placed(t[q]))'
  BY <1>3, <1>7 DEF Form, Placed
<1>9. \A v \in Volume : map'[v] /= None => v \in live' /\ refs'[v] >= 1
  <2>1. t[p].shares >= 1
    BY <1>1 DEF Form
  <2> QED
    BY <1>2, <1>3, <2>1 DEF SyncRefs, CInv
<1> QED
  BY <1>3, <1>6, <1>8, <1>9 DEF CInv

\* A task works on the same request; the count it knows is the one it knew or
\* its volume's.
Same(r, q) ==
    /\ r.kind = q.kind /\ r.vol = q.vol /\ r.block = q.block /\ r.val = q.val /\ r.valid = q.valid
    /\ r.refs \in {q.refs, refs[q.vol]}

\* A task works on its request until it ends.
LEMMA RequestStays ==
    ASSUME IInv, NEW p \in Task, Advance(p)
    PROVE  /\ t' = [t EXCEPT ![p] = t'[p]]
           /\ t'[p] = Idle \/ Same(t'[p], t[p])
<1>1. t \in [Task -> TaskState] /\ t[p] \in TaskState
  BY TaskKnown, Split DEF TasksOK
<1>2. \A s \in Slot \cup {None} : Same(Found(p, s), t[p])
  BY <1>1 DEF Found, TaskState, Same
<1>3. ASSUME NEW r, t' = [t EXCEPT ![p] = r], r = Idle \/ Same(r, t[p])
      PROVE  /\ t' = [t EXCEPT ![p] = t'[p]]
             /\ t'[p] = Idle \/ Same(t'[p], t[p])
  BY <1>1, <1>3
<1>4. CASE Lookup(p)
  <2>1. map[t[p].vol] \in Slot \cup {None}
    BY <1>4, TaskKnown, Split DEF Lookup, Local, RestOK
  <2> QED
    BY <1>2, <1>3, <1>4, <2>1 DEF Lookup, Step
<1>5. CASE Recheck(p)
  <2> DEFINE r == [t[p] EXCEPT !.refs = refs[t[p].vol],
                               !.pc = CASE t[p].kind = "read" -> "io"
                                        [] t[p].kind = "discard" -> "unmap"
                                        [] OTHER -> "decide"]
  <2>1. map[t[p].vol] \in Slot \cup {None}
    BY <1>5, TaskKnown, Split DEF Recheck, Local, RestOK
  <2>2. Same(r, t[p])
    BY <1>1 DEF TaskState, Same
  <2>3. t' = [t EXCEPT ![p] = r] \/ t' = [t EXCEPT ![p] = Found(p, map[t[p].vol])]
    BY <1>5 DEF Recheck, Step
  <2> HIDE DEF r
  <2> QED
    BY <1>2, <1>3, <2>1, <2>2, <2>3
<1>6. CASE Hold(p)
  BY <1>1, <1>6 DEF Hold, Step, TaskState, Same
<1>7. CASE Decide(p)
  BY <1>1, <1>7 DEF Decide, Step, TaskState, Same
<1>8. CASE LockVolume(p)
  BY <1>1, <1>8 DEF LockVolume, Step, TaskState, Same
<1>9. CASE CopySlot(p)
  <2> DEFINE c == IF t[p].kind = "write" THEN [data[t[p].loc] EXCEPT ![t[p].block] = t[p].val]
                  ELSE data[t[p].loc]
  <2>1. t' = [t EXCEPT ![p] = [t[p] EXCEPT !.pc = "alloc", !.buf = c]]
    BY <1>9 DEF CopySlot, Step
  <2> HIDE DEF c
  <2> QED
    BY <1>1, <2>1 DEF TaskState, Same
<1>10. CASE Allocate(p)
  <2> PICK s \in Room(p) : t' = [t EXCEPT ![p] = [t[p] EXCEPT !.pc = "fill", !.new = s]]
    BY <1>10 DEF Allocate, Step
  <2> QED
    BY <1>1 DEF TaskState, Same
<1>11. CASE NoSpace(p)
  BY <1>1, <1>11 DEF NoSpace, Step, Finish, TaskState, Same
<1>12. CASE Fill(p)
  BY <1>1, <1>12 DEF Fill, Step, TaskState, Same
<1>13. CASE Remap(p)
  BY <1>1, <1>13 DEF Remap, Step, Finish, TaskState, Same
<1>14. CASE Release(p)
  <2> DEFINE n == count[t[p].loc]
             r == [t[p] EXCEPT !.pc = IF t[p].kind = "discard" \/ n = 1 THEN "done" ELSE "refs",
                               !.shares = n - 1, !.of = owner[t[p].loc]]
             u == [t[p] EXCEPT !.pc = "done"]
  <2>1. t' = [t EXCEPT ![p] = r] \/ t' = [t EXCEPT ![p] = u]
    BY <1>14 DEF Release, Step
  <2>2. Same(r, t[p]) /\ Same(u, t[p])
    BY <1>1 DEF TaskState, Same
  <2> HIDE DEF r, u
  <2> QED
    BY <1>3, <2>1, <2>2
<1>15. CASE SyncRefs(p) \/ DiscardAlone(p) \/ Unmap(p)
  BY <1>1, <1>15 DEF SyncRefs, DiscardAlone, Unmap, Step, TaskState, Same
<1>16. CASE Exclusive(p)
  BY <1>1, <1>16 DEF Exclusive, Step, TaskState, Same
<1>17. CASE ReadSlot(p) \/ WriteInPlace(p) \/ FillError(p) \/ Done(p) \/ Publish(p)
  BY <1>1, <1>17 DEF ReadSlot, WriteInPlace, FillError, Done, Publish, Finish
<1> QED
  BY <1>4, <1>5, <1>6, <1>7, <1>8, <1>9, <1>10, <1>11, <1>12, <1>13, <1>14, <1>15, <1>16, <1>17 DEF Advance

\* Retiers hold the volume manager: one at a time.
OneRetier == \A p, q \in Task : t[p].kind = "retier" /\ t[q].kind = "retier" => p = q

\* They do, from the first step on.
LEMMA RetiersQueue == IInv /\ OneRetier /\ [Next]_vars => OneRetier'
<1> SUFFICES ASSUME IInv, OneRetier, [Next]_vars PROVE OneRetier'
  OBVIOUS
<1>1. t \in [Task -> TaskState] /\ Idle.kind = "none"
  BY Split DEF TasksOK, Idle
<1>2. ASSUME \A q \in Task : t'[q].kind = "retier" => t[q].kind = "retier" PROVE OneRetier'
  BY <1>2 DEF OneRetier
<1>3. ASSUME NEW p \in Task, Advance(p) PROVE OneRetier'
  <2>1. \A q \in Task : t'[q].kind = "retier" => t[q].kind = "retier"
    BY <1>1, <1>3, RequestStays DEF Same
  <2> QED
    BY <1>2, <2>1
<1>4. ASSUME NEW p \in Task, NEW v \in Volume, NEW b \in Block, StartWrite(p, v, b)
      PROVE  OneRetier'
  <2>1. ASSUME NEW q \in Task, t'[q].kind = "retier" PROVE t[q].kind = "retier"
    <3>1. t[q] \in TaskState
      BY TaskKnown
    <3> QED
      BY <1>4, <2>1, <3>1 DEF StartWrite, Idle, TaskState
  <2> QED
    BY <1>2, <2>1
<1>5. ASSUME NEW p \in Task, NEW v \in Volume, NEW b \in Block, StartRead(p, v, b)
      PROVE  OneRetier'
  <2>1. \E x : t' = [t EXCEPT ![p] = [Idle EXCEPT !.pc = "lookup", !.kind = "read", !.vol = v,
                                                  !.block = b, !.valid = x]]
    BY <1>5 DEF StartRead, Step
  <2>2. ASSUME NEW q \in Task, t'[q].kind = "retier" PROVE t[q].kind = "retier"
    BY <1>1, <2>1, <2>2 DEF Idle
  <2> QED
    BY <1>2, <2>2
<1>6. ASSUME NEW p \in Task, NEW v \in Volume, StartDiscard(p, v) PROVE OneRetier'
  <2>1. ASSUME NEW q \in Task, t'[q].kind = "retier" PROVE t[q].kind = "retier"
    <3>1. t[q] \in TaskState
      BY TaskKnown
    <3> QED
      BY <1>6, <2>1, <3>1 DEF StartDiscard, Idle, TaskState
  <2> QED
    BY <1>2, <2>1
<1>7. ASSUME NEW p \in Task, NEW v \in Volume, StartMove(p, v) PROVE OneRetier'
  <2>1. \A q \in Task : t'[q].kind = "retier" => t[q].kind = "retier"
    BY <1>1, <1>7 DEF StartMove, Step, Idle
  <2> QED
    BY <1>2, <2>1
<1>8. ASSUME NEW p \in Task, NEW v \in Volume, StartRetier(p, v) PROVE OneRetier'
  <2>1. \A q \in Task : q /= p => t'[q].kind /= "retier"
    BY <1>1, <1>8 DEF StartRetier, ManagerFree, Step
  <2> QED
    BY <2>1 DEF OneRetier
<1>9. CASE \/ \E v, w \in Volume : Snapshot(v, w)
           \/ \E v \in Volume : Delete(v)
           \/ \E d \in Slab : SetQuarantined(d)
           \/ ReleaseOwed
           \/ Sync
           \/ UNCHANGED vars
  BY <1>9 DEF Snapshot, Delete, SetQuarantined, ReleaseOwed, Sync, vars, ioVars, OneRetier
<1> QED
  BY <1>3, <1>4, <1>5, <1>6, <1>7, <1>8, <1>9 DEF Next, Operate

\* Under the volume lock, or as the one retier of a volume nobody writes to or
\* discards, a task has its volume's map for itself.
LEMMA LockedAlone ==
    ASSUME IInv, OneRetier, RetiersAlone, NEW p \in Task, NEW q \in Task, q /= p,
           t[p].kind \in {"write", "discard", "retier"}, t[p].kind /= "retier" => t[p].locked,
           t[q].kind \in {"write", "discard", "retier"}, t[q].kind /= "retier" => t[q].locked
    PROVE  t[q].vol /= t[p].vol
<1>1. t[p].locked /\ t[q].locked => t[p].vol /= t[q].vol
  BY DEF IInv, Exclusion
<1> QED
  BY <1>1 DEF RetiersAlone, OneRetier

\* Remap keeps the counts: the map's share goes from the old slot to the new,
\* and the task has the old one to give back.
LEMMA RemapCounts ==
    ASSUME IInv, CInv, OneRetier, RetiersAlone, NEW p \in Task, Remap(p) PROVE CInv'
<1> DEFINE v == t[p].vol
           n == t[p].new
           l == t[p].loc
           r == IF l = None THEN Idle ELSE [t[p] EXCEPT !.pc = "release"]
<1>1. t[p] \in TaskState /\ Local(t[p]) /\ Form(t[p]) /\ Placed(t[p]) /\ t[p].pc = "remap"
  BY TaskKnown DEF CInv, Remap
<1>2. /\ t \in [Task -> TaskState] /\ map \in [Volume -> Slot \cup {None}] /\ refs \in [Volume -> Nat]
      /\ t' = [t EXCEPT ![p] = r] /\ map' = [map EXCEPT ![v] = n] /\ refs' = [refs EXCEPT ![v] = 1]
      /\ UNCHANGED <<live, count, free, freeing, owed>>
  BY Split DEF Remap, Step, Finish, slabVars, TasksOK, RestOK
<1>3. /\ v \in Volume /\ v \in live /\ map[v] = l /\ l \in Slot \cup {None}
      /\ t[p].kind \in {"write", "retier"} /\ (t[p].kind = "write" => t[p].locked)
  BY <1>1 DEF Local, Form, Placed, TaskState
<1>4. n \in Slot /\ n /= None /\ n \notin owed /\ Names(n) = {} /\ n /= l
  BY <1>1, <1>3, NewIsPrivate, SlotAssumption DEF Names
<1>5. l /= None => l \notin owed
  BY <1>3, NamedIsOwned
<1>6. \A x \in Slot : /\ Claims(t[p], x) <=> n = x
                      /\ Claims(r, x) <=> l = x
  BY <1>1, <1>3, SlotAssumption DEF Claims, TaskState, Idle
<1>7. Form(r) /\ r.kind \in {"none", "write", "retier"} /\ r.vol \in {v, None} /\ r.pc \in {"idle", "release"}
      /\ (r.kind /= "none" => r.vol = v)
  BY <1>1 DEF Form, TaskState, Idle
<1> HIDE DEF r
<1>8. ASSUME NEW x \in Slot PROVE Counted(x)'
  <2>1. /\ Names(x)' = IF n = x THEN Names(x) \cup {v} ELSE Names(x) \ {v}
        /\ Cardinality(Names(x)') = Cardinality(Names(x)) - (IF map[v] = x THEN 1 ELSE 0)
                                                          + (IF n = x THEN 1 ELSE 0)
    <3> HIDE DEF v, n
    <3>1. map \in [Volume -> Slot \cup {None}] /\ v \in Volume /\ map' = [map EXCEPT ![v] = n]
      BY <1>2, <1>3
    <3> QED
      BY <3>1, NamesCount
  <2>2. /\ InFlight(x)' = IF Claims(r, x) THEN InFlight(x) \cup {p} ELSE InFlight(x) \ {p}
        /\ Cardinality(InFlight(x)') = Cardinality(InFlight(x)) - (IF Claims(t[p], x) THEN 1 ELSE 0)
                                                                + (IF Claims(r, x) THEN 1 ELSE 0)
    BY <1>2, ClaimsCount
  <2>3. Counted(x) /\ Cardinality(Names(x)) \in Nat /\ Cardinality(InFlight(x)) \in Nat
    BY FiniteCounted DEF CInv
  <2>4. Cardinality(Names(x)') + Cardinality(InFlight(x)') = Cardinality(Names(x)) + Cardinality(InFlight(x))
    BY <1>3, <1>6, <2>1, <2>2, <2>3
  <2>5. CASE x \in owed
    <3>1. x /= n /\ x /= l
      BY <1>4, <1>5, <2>5, SlotAssumption
    <3>2. Names(x)' = {} /\ InFlight(x)' = {}
      BY <1>6, <2>1, <2>2, <2>3, <2>5, <3>1 DEF Counted
    <3> QED
      BY <1>2, <2>3, <2>5, <3>2 DEF Counted
  <2>6. CASE x \notin owed
    BY <1>2, <2>3, <2>4, <2>6 DEF Counted
  <2> QED
    BY <2>5, <2>6
<1>9. ASSUME NEW q \in Task, q /= p PROVE Form(t[q]) /\ Placed(t[q])'
  <2>1. Form(t[q]) /\ Placed(t[q]) /\ t'[q] = t[q]
    BY <1>2, <1>9 DEF CInv
  <2>2. t[q].kind \in {"write", "discard", "retier"} /\ (t[q].kind /= "retier" => t[q].locked)
        => map'[t[q].vol] = map[t[q].vol]
    BY <1>2, <1>3, <1>9, LockedAlone
  <2> QED
    BY <1>2, <2>1, <2>2 DEF Form, Placed
<1>10. Form(t'[p]) /\ Placed(t[p])'
  BY <1>2, <1>3, <1>7 DEF Placed
<1>11. \A q \in Task : (Form(t[q]) /\ Placed(t[q]))'
  BY <1>2, <1>9, <1>10 DEF Form
<1>12. \A u \in Volume : map'[u] /= None => u \in live' /\ refs'[u] >= 1
  BY <1>2, <1>3 DEF CInv
<1> QED
  BY <1>2, <1>8, <1>11, <1>12 DEF CInv

\* Unmap keeps the counts.
LEMMA UnmapCounts ==
    ASSUME IInv, CInv, OneRetier, RetiersAlone, NEW p \in Task, Unmap(p) PROVE CInv'
<1> DEFINE v == t[p].vol
           l == t[p].loc
           r == [t[p] EXCEPT !.pc = "release"]
<1>1. t[p] \in TaskState /\ Local(t[p]) /\ Form(t[p]) /\ Placed(t[p]) /\ t[p].pc = "unmap"
  BY TaskKnown DEF CInv, Unmap
<1>2. /\ t \in [Task -> TaskState] /\ map \in [Volume -> Slot \cup {None}] /\ refs \in [Volume -> Nat]
      /\ t' = [t EXCEPT ![p] = r] /\ map' = [map EXCEPT ![v] = None] /\ refs' = [refs EXCEPT ![v] = 0]
      /\ UNCHANGED <<live, count, free, freeing, owed>>
  BY Split DEF Unmap, Step, slabVars, TasksOK, RestOK
<1>3. v \in Volume /\ map[v] = l /\ l \in Slot /\ t[p].kind = "discard" /\ t[p].locked
  BY <1>1 DEF Local, Form, Placed
<1>4. l \notin owed
  BY <1>3, NamedIsOwned, SlotAssumption
<1>5. \A x \in Slot : ~Claims(t[p], x) /\ (Claims(r, x) <=> l = x)
  BY <1>1 DEF Claims, TaskState
<1>6. Form(r) /\ Placed(r)
  BY <1>1, <1>3 DEF Form, Placed, TaskState
<1>7. r.kind = "discard" /\ r.pc = "release" /\ r.vol = v
  BY <1>1, <1>3 DEF TaskState
<1> HIDE DEF r
<1>8. ASSUME NEW x \in Slot PROVE Counted(x)'
  <2>1. /\ Names(x)' = IF None = x THEN Names(x) \cup {v} ELSE Names(x) \ {v}
        /\ Cardinality(Names(x)') = Cardinality(Names(x)) - (IF map[v] = x THEN 1 ELSE 0)
                                                          + (IF None = x THEN 1 ELSE 0)
    <3> HIDE DEF v
    <3>1. map \in [Volume -> Slot \cup {None}] /\ v \in Volume /\ map' = [map EXCEPT ![v] = None]
      BY <1>2, <1>3
    <3> QED
      BY <3>1, NamesCount
  <2>2. /\ InFlight(x)' = IF Claims(r, x) THEN InFlight(x) \cup {p} ELSE InFlight(x) \ {p}
        /\ Cardinality(InFlight(x)') = Cardinality(InFlight(x)) - (IF Claims(t[p], x) THEN 1 ELSE 0)
                                                                + (IF Claims(r, x) THEN 1 ELSE 0)
    BY <1>2, ClaimsCount
  <2>3. Counted(x) /\ Cardinality(Names(x)) \in Nat /\ Cardinality(InFlight(x)) \in Nat /\ None /= x
    BY FiniteCounted, SlotAssumption DEF CInv
  <2>4. Cardinality(Names(x)') + Cardinality(InFlight(x)') = Cardinality(Names(x)) + Cardinality(InFlight(x))
    BY <1>3, <1>5, <2>1, <2>2, <2>3
  <2>5. CASE x \in owed
    <3>1. Names(x)' = {} /\ InFlight(x)' = {}
      BY <1>4, <1>5, <2>1, <2>2, <2>3, <2>5 DEF Counted
    <3> QED
      BY <1>2, <2>3, <2>5, <3>1 DEF Counted
  <2>6. CASE x \notin owed
    BY <1>2, <2>3, <2>4, <2>6 DEF Counted
  <2> QED
    BY <2>5, <2>6
<1>9. ASSUME NEW q \in Task, q /= p PROVE Form(t[q]) /\ Placed(t[q])'
  <2>1. Form(t[q]) /\ Placed(t[q]) /\ t'[q] = t[q]
    BY <1>2, <1>9 DEF CInv
  <2>2. t[q].kind \in {"write", "discard", "retier"} /\ (t[q].kind /= "retier" => t[q].locked)
        => map'[t[q].vol] = map[t[q].vol]
    BY <1>2, <1>3, <1>9, LockedAlone
  <2> QED
    BY <1>2, <2>1, <2>2 DEF Form, Placed
<1>10. Form(t'[p]) /\ Placed(t[p])'
  BY <1>2, <1>6, <1>7 DEF Placed
<1>11. \A q \in Task : (Form(t[q]) /\ Placed(t[q]))'
  BY <1>2, <1>9, <1>10 DEF Form
<1>12. \A u \in Volume : map'[u] /= None => u \in live' /\ refs'[u] >= 1
  BY <1>2, <1>3 DEF CInv
<1> QED
  BY <1>2, <1>8, <1>11, <1>12 DEF CInv

\* Release keeps the counts.
LEMMA ReleaseCounts == ASSUME IInv, CInv, NEW p \in Task, Release(p) PROVE CInv'
<1> DEFINE s == t[p].loc
           n == count[s] - 1
           next == IF t[p].kind = "discard" \/ count[s] = 1 THEN "done" ELSE "refs"
           r == [t[p] EXCEPT !.pc = next, !.shares = n, !.of = owner[s]]
<1>1. t[p] \in TaskState /\ Local(t[p]) /\ Form(t[p]) /\ Placed(t[p]) /\ t[p].pc = "release"
  BY TaskKnown DEF CInv, Release
<1>2. s \in Slot /\ Claims(t[p], s) /\ s \notin owed /\ count[s] >= 1 /\ s \notin free \cup freeing
      /\ count \in [Slot -> Nat] /\ t \in [Task -> TaskState] /\ count[s] \in Nat
  BY <1>1, ClaimedIsOwned, Split DEF Claims, Local, TasksOK, RestOK
<1>3. /\ t' = [t EXCEPT ![p] = r] /\ UNCHANGED <<live, map, refs, free, owed>>
      /\ count' = [count EXCEPT ![s] = n] /\ freeing' = IF n = 0 THEN freeing \cup {s} ELSE freeing
  BY <1>2 DEF Release, Step, Retire, mapVars
<1>4. n \in Nat /\ next \in {"done", "refs"} /\ (next = "refs" => n >= 1 /\ t[p].kind /= "discard")
  BY <1>2
<1> HIDE DEF n, next
<1>5. /\ r.pc = next /\ r.kind = t[p].kind /\ r.vol = t[p].vol /\ r.shares = n
      /\ r.locked = t[p].locked /\ r.held = t[p].held /\ r.loc = t[p].loc /\ r.exclusive = t[p].exclusive
  BY <1>1 DEF TaskState
<1> HIDE DEF r
<1>6. Form(r) /\ Placed(r) /\ \A x \in Slot : ~Claims(r, x) /\ (Claims(t[p], x) <=> s = x)
  BY <1>1, <1>4, <1>5 DEF Form, Placed, Claims
<1>7. ASSUME NEW x \in Slot PROVE Counted(x)'
  <2>1. Names(x)' = Names(x)
    BY <1>3 DEF Names
  <2>2. /\ InFlight(x)' = IF Claims(r, x) THEN InFlight(x) \cup {p} ELSE InFlight(x) \ {p}
        /\ Cardinality(InFlight(x)') = Cardinality(InFlight(x)) - (IF Claims(t[p], x) THEN 1 ELSE 0)
                                                                + (IF Claims(r, x) THEN 1 ELSE 0)
    BY <1>2, <1>3, ClaimsCount
  <2>3. Counted(x) /\ Cardinality(Names(x)) \in Nat /\ Cardinality(InFlight(x)) \in Nat
    BY FiniteCounted DEF CInv
  <2>4. CASE x = s
    BY <1>2, <1>3, <1>6, <2>1, <2>2, <2>3, <2>4 DEF Counted, n
  <2>5. CASE x /= s
    <3>1. InFlight(x)' = InFlight(x) \ {p} /\ Cardinality(InFlight(x)') = Cardinality(InFlight(x))
      BY <1>6, <2>2, <2>3, <2>5
    <3> QED
      BY <1>2, <1>3, <2>1, <2>3, <2>5, <3>1 DEF Counted
  <2> QED
    BY <2>4, <2>5
<1>8. ASSUME NEW q \in Task, q /= p PROVE Form(t[q]) /\ Placed(t[q])'
  <2>1. t[q].pc \in {"fill", "remap", "publish"} => t[q].new \in Slot /\ t[q].new /= s
    BY <1>2, <1>8, NewsDiffer, NewIsPrivate
  <2> QED
    BY <1>2, <1>3, <1>8, <2>1 DEF CInv, Placed
<1>9. Form(t'[p]) /\ Placed(t[p])'
  BY <1>2, <1>3, <1>4, <1>5, <1>6 DEF Placed
<1>10. \A q \in Task : (Form(t[q]) /\ Placed(t[q]))'
  BY <1>2, <1>3, <1>8, <1>9 DEF Form
<1> QED
  BY <1>2, <1>3, <1>7, <1>10 DEF CInv

\* A slot that was never published goes back: as FillError, so Publish when
\* the extent has gone from the source.
LEMMA GivenBackCounts ==
    ASSUME IInv, CInv, NEW p \in Task, t[p].pc \in {"fill", "publish"}, t' = [t EXCEPT ![p] = Idle],
           UNCHANGED <<live, map, refs, freeing, owed>>,
           free' = free \cup {t[p].new}, count' = [count EXCEPT ![t[p].new] = 0]
    PROVE  CInv'
<1> DEFINE s == t[p].new
<1>1. t \in [Task -> TaskState] /\ count \in [Slot -> Nat]
  BY Split DEF TasksOK, RestOK
<1>3. s \in Slot /\ s \notin owed /\ count[s] = 1 /\ Names(s) = {} /\ InFlight(s) = {p} /\ s \notin free \cup freeing
  BY <1>1, NewIsPrivate, NewsDiffer
<1> HIDE DEF s
<1>4. ASSUME NEW x \in Slot PROVE Counted(x)'
  <2>1. Names(x)' = Names(x)
    BY DEF Names
  <2>2. InFlight(x)' = InFlight(x) \ {p}
    BY <1>1, ClaimsCount, IdleClaims
  <2>3. CASE x = s
    <3>1. Names(x)' = {} /\ InFlight(x)' = {}
      BY <1>3, <2>1, <2>2, <2>3
    <3> QED
      BY <1>1, <1>3, <2>3, <3>1, FS_EmptySet DEF Counted, s
  <2>4. CASE x /= s
    <3>1. p \notin InFlight(x)
      BY <2>4 DEF InFlight, Claims, s
    <3>2. InFlight(x)' = InFlight(x) /\ Counted(x)
      BY <2>2, <3>1 DEF CInv
    <3> QED
      BY <1>1, <2>1, <2>4, <3>2 DEF Counted, s
  <2> QED
    BY <2>3, <2>4
<1>5. Form(Idle) /\ Placed(Idle)'
  BY DEF Form, Placed, Idle
<1>6. ASSUME NEW q \in Task, q /= p PROVE Form(t[q]) /\ Placed(t[q])'
  <2>1. t[q].pc \in {"fill", "remap", "publish"} => t[q].new \in Slot /\ t[q].new /= s
    BY <1>3, <1>6, NewIsPrivate
  <2> QED
    BY <1>1, <1>6, <2>1 DEF CInv, Placed, s
<1>7. \A q \in Task : (Form(t[q]) /\ Placed(t[q]))'
  BY <1>1, <1>5, <1>6 DEF Form, Placed
<1> QED
  BY <1>3, <1>4, <1>7 DEF CInv, s

\* FillError keeps the counts.
LEMMA FillErrorCounts == ASSUME IInv, CInv, NEW p \in Task, FillError(p) PROVE CInv'
  BY GivenBackCounts DEF FillError, Finish, mapVars

\* The source of a move about to be published is named, and nobody has a share
\* of it in flight: the move has the fence.
LEMMA SourceIsMapped ==
    ASSUME IInv, CInv, RetiersAlone, NEW p \in Task, t[p].pc = "publish", map[t[p].vol] = t[p].loc
    PROVE  /\ t[p].loc \in Slot /\ t[p].loc \notin owed /\ t[p].loc \notin free \cup freeing
           /\ t[p].loc /= t[p].new /\ InFlight(t[p].loc) = {}
           /\ \A q \in Task : q /= p => t[q].held /= t[p].loc
           /\ \A q \in Task : t[q].kind = "retier" => t[q].loc /= t[p].loc
<1> DEFINE l == t[p].loc
<1>1. /\ t[p].kind = "move" /\ t[p].exclusive /\ t[p].held = l /\ l \in Slot
      /\ t[p].vol \in Volume /\ t[p].new \in Slot
  BY TaskKnown DEF Local, CInv, Form
<1>2. l \notin owed /\ l \notin free \cup freeing /\ l /= t[p].new
  BY <1>1, NamedIsOwned, NewsDiffer, SlotAssumption
<1>3. \A q \in Task : q /= p => t[q].held /= l
  BY <1>1 DEF IInv, Exclusion
<1>4. \A q \in Task : t[q].kind = "retier" => t[q].loc /= l
  BY <1>1 DEF RetiersAlone
<1>5. ASSUME NEW q \in Task, Claims(t[q], l) PROVE FALSE
  <2>1. CASE q = p
    BY <1>2, <1>5, <2>1 DEF Claims
  <2>2. CASE q /= p /\ t[q].pc = "release"
    <3>1. t[q].loc = l /\ Form(t[q])
      BY <1>5, <2>2 DEF Claims, CInv
    <3> QED
      BY <1>3, <1>4, <2>2, <3>1 DEF Form
  <2>3. CASE q /= p /\ t[q].pc /= "release"
    <3>1. t[q].pc \in {"fill", "remap", "publish"} /\ t[q].new = l
      BY <1>5, <2>3 DEF Claims
    <3> QED
      BY <1>1, <3>1, NewsDiffer
  <2> QED
    BY <2>1, <2>2, <2>3
<1>6. InFlight(l) = {}
  BY <1>5 DEF InFlight
<1> QED
  BY <1>1, <1>2, <1>3, <1>4, <1>6

\* Publish keeps the counts: the copy takes the source's share count along
\* with the maps that name it.
LEMMA PublishCounts ==
    ASSUME IInv, CInv, RetiersAlone, NEW p \in Task, Publish(p) PROVE CInv'
<1> DEFINE l == t[p].loc
           n == t[p].new
<1>1. t[p].pc = "publish" /\ t' = [t EXCEPT ![p] = Idle] /\ t \in [Task -> TaskState]
      /\ count \in [Slot -> Nat] /\ map \in [Volume -> Slot \cup {None}]
  BY Split DEF Publish, Finish, TasksOK, RestOK
<1>2. CASE map[t[p].vol] = l /\ count[l] > 0
  <2>1. /\ map' = [u \in Volume |-> IF map[u] = l THEN n ELSE map[u]]
        /\ count' = [count EXCEPT ![n] = count[l]]
        /\ owed' = owed \cup {l}
        /\ UNCHANGED <<live, refs, free, freeing>>
    BY <1>2 DEF Publish
  <2>2. /\ l \in Slot /\ l \notin owed /\ l \notin free \cup freeing /\ l /= n /\ InFlight(l) = {}
        /\ \A q \in Task : q /= p => t[q].held /= l
        /\ \A q \in Task : t[q].kind = "retier" => t[q].loc /= l
    BY <1>1, <1>2, SourceIsMapped
  <2>3. n \in Slot /\ n \notin owed /\ count[n] = 1 /\ Names(n) = {} /\ InFlight(n) = {p} /\ n \notin free \cup freeing
    BY <1>1, NewIsPrivate, NewsDiffer
  <2>4. \A x \in Slot : /\ Names(x)' = IF x = n THEN Names(l) ELSE IF x = l THEN {} ELSE Names(x)
                        /\ InFlight(x)' = IF x = n THEN {} ELSE InFlight(x)
    <3> SUFFICES ASSUME NEW x \in Slot
                 PROVE  /\ Names(x)' = IF x = n THEN Names(l) ELSE IF x = l THEN {} ELSE Names(x)
                        /\ InFlight(x)' = IF x = n THEN {} ELSE InFlight(x)
      OBVIOUS
    <3>1. InFlight(x)' = InFlight(x) \ {p}
      BY <1>1, ClaimsCount, IdleClaims
    <3>2. x /= n => p \notin InFlight(x)
      BY <1>1 DEF InFlight, Claims
    <3>3. InFlight(x)' = IF x = n THEN {} ELSE InFlight(x)
      BY <2>3, <3>1, <3>2
    <3>4. \A u \in Volume : map'[u] = x <=> IF x = n THEN map[u] = l ELSE x /= l /\ map[u] = x
      BY <2>1, <2>2, <2>3 DEF Names
    <3> QED
      BY <3>3, <3>4 DEF Names
  <2> HIDE DEF n, l
  <2>5. ASSUME NEW x \in Slot PROVE Counted(x)'
    <3>1. Counted(x) /\ Counted(l)
      BY <2>2 DEF CInv
    <3>2. Cardinality({}) = 0 /\ Cardinality(Names(l)) \in Nat
      BY FiniteCounted, FS_EmptySet
    <3>3. CASE x = n
      BY <1>1, <1>2, <2>1, <2>2, <2>3, <2>4, <3>1, <3>2, <3>3 DEF Counted
    <3>4. CASE x = l
      BY <1>1, <1>2, <2>1, <2>2, <2>3, <2>4, <3>1, <3>4 DEF Counted
    <3>5. CASE x /= n /\ x /= l
      BY <1>1, <2>1, <2>2, <2>3, <2>4, <3>1, <3>5 DEF Counted
    <3> QED
      BY <3>3, <3>4, <3>5
  <2>6. ASSUME NEW q \in Task, q /= p PROVE Form(t[q]) /\ Placed(t[q])'
    <3>1. Form(t[q]) /\ Placed(t[q]) /\ t'[q] = t[q] /\ t[q] \in TaskState /\ Local(t[q])
      BY <1>1, <2>6, TaskKnown DEF CInv
    <3>2. t[q].pc \in {"fill", "remap", "publish"}
          => t[q].new \in Slot /\ t[q].new /= n /\ t[q].new /= l
      BY <1>1, <1>2, <2>3, <2>6, NewIsPrivate, NewsDiffer, TaskKnown, SMTT(40) DEF Local, l
    <3>3. t[q].vol \in Volume /\ map[t[q].vol] = t[q].loc /\ t[q].loc /= l => map'[t[q].vol] = t[q].loc
      BY <2>1
    <3>4. t[q].loc = l => t[q].held /= t[q].loc /\ t[q].kind /= "retier"
      BY <2>2, <2>6
    <3>5. t[q].pc /= "idle" => t[q].vol \in Volume
      BY <3>1 DEF Local
    <3> QED
      BY <1>1, <2>1, <2>2, <3>1, <3>2, <3>3, <3>4, <3>5 DEF Form, Placed
  <2>7. Form(Idle) /\ Placed(Idle)'
    BY DEF Form, Placed, Idle
  <2>8. \A q \in Task : (Form(t[q]) /\ Placed(t[q]))'
    BY <1>1, <2>6, <2>7 DEF Form, Placed
  <2>9. \A u \in Volume : map'[u] /= None => u \in live' /\ refs'[u] >= 1
    BY <2>1, <2>2, SlotAssumption DEF CInv
  <2> QED
    BY <2>1, <2>5, <2>8, <2>9 DEF CInv
<1>3. CASE ~(map[t[p].vol] = l /\ count[l] > 0)
  BY <1>1, <1>3, GivenBackCounts DEF Publish
<1> QED
  BY <1>2, <1>3

\* ReleaseOwed keeps the counts.
LEMMA ReleaseOwedCounts == ASSUME IInv, CInv, ReleaseOwed PROVE CInv'
<1>1. \A s \in owed : s \in Slot /\ count[s] > 0 /\ Names(s) = {} /\ InFlight(s) = {}
  BY Split DEF RestOK, CInv, Counted
<1>2. /\ count' = [s \in Slot |-> IF s \in owed THEN 0 ELSE count[s]]
      /\ freeing' = freeing \cup owed /\ owed' = {}
      /\ UNCHANGED <<live, map, refs, free, t>>
  BY <1>1 DEF ReleaseOwed, mapVars
<1>3. \A s \in Slot : Names(s)' = Names(s) /\ InFlight(s)' = InFlight(s)
  BY <1>2 DEF Names, InFlight
<1>4. ASSUME NEW s \in Slot PROVE Counted(s)'
  <2>1. Counted(s) /\ Cardinality({}) = 0
    BY FS_EmptySet DEF CInv
  <2>2. CASE s \in owed
    BY <1>1, <1>2, <1>3, <2>1, <2>2 DEF Counted
  <2>3. CASE s \notin owed
    BY <1>2, <1>3, <2>1, <2>3 DEF Counted
  <2> QED
    BY <2>2, <2>3
<1>5. free' \cap freeing' = {}
  BY <1>1, <1>2 DEF CInv, Counted
<1>6. \A q \in Task : (Form(t[q]) /\ Placed(t[q]))'
  <2> SUFFICES ASSUME NEW q \in Task PROVE Form(t[q]) /\ Placed(t[q])'
    BY <1>2 DEF Form
  <2>1. t[q].pc \in {"fill", "remap", "publish"} => t[q].new \in Slot
    BY TaskKnown DEF Local
  <2> QED
    BY <1>2, <2>1 DEF CInv, Placed
<1> QED
  BY <1>2, <1>4, <1>5, <1>6 DEF CInv

\* Snapshot keeps the counts.
LEMMA SnapshotCounts ==
    ASSUME IInv, CInv, NEW v \in Volume, NEW w \in Volume, Snapshot(v, w) PROVE CInv'
<1> DEFINE s == map[v]
<1>1. /\ count \in [Slot -> Nat] /\ map \in [Volume -> Slot \cup {None}] /\ refs \in [Volume -> Nat]
      /\ t \in [Task -> TaskState] /\ s \in Slot \cup {None}
  BY Split DEF RestOK, TasksOK
<1>2. /\ map' = [map EXCEPT ![w] = s] /\ live' = live \cup {w}
      /\ UNCHANGED <<free, freeing, owed, t>>
      /\ s = None => UNCHANGED <<refs, count>>
      /\ s /= None => /\ refs' = [refs EXCEPT ![v] = @ + 1, ![w] = refs[v] + 1]
                      /\ count' = [count EXCEPT ![s] = @ + 1]
  BY DEF Snapshot
<1>3. w \notin live /\ map[w] = None /\ v /= w /\ \A q \in Task : t[q].vol /= w
  BY DEF Snapshot, FreshId, CInv
<1>4. s /= None => s \in Slot /\ s \notin owed /\ count[s] >= 1 /\ s \notin free \cup freeing
  BY NamedIsOwned
<1> HIDE DEF s
<1>5. ASSUME NEW x \in Slot PROVE Counted(x)'
  <2>1. /\ Names(x)' = IF s = x THEN Names(x) \cup {w} ELSE Names(x) \ {w}
        /\ Cardinality(Names(x)') = Cardinality(Names(x)) - (IF map[w] = x THEN 1 ELSE 0)
                                                          + (IF s = x THEN 1 ELSE 0)
    BY ZenonT(40), <1>1, <1>2, NamesCount
  <2>2. InFlight(x)' = InFlight(x)
    BY <1>2 DEF InFlight
  <2>3. Counted(x) /\ Cardinality(Names(x)) \in Nat /\ Cardinality(InFlight(x)) \in Nat /\ x /= None
    BY FiniteCounted, SlotAssumption DEF CInv
  <2>4. CASE x = s
    BY <1>1, <1>2, <1>3, <1>4, <2>1, <2>2, <2>3, <2>4 DEF Counted
  <2>5. CASE x /= s
    <3>1. count'[x] = count[x] /\ Cardinality(Names(x)') = Cardinality(Names(x)) /\ Names(x)' = Names(x) \ {w}
      BY <1>1, <1>2, <1>3, <2>1, <2>3, <2>5
    <3> QED
      BY <1>2, <2>2, <2>3, <3>1 DEF Counted
  <2> QED
    BY <2>4, <2>5
<1>6. \A q \in Task : (Form(t[q]) /\ Placed(t[q]))'
  <2> SUFFICES ASSUME NEW q \in Task PROVE Form(t[q]) /\ Placed(t[q])'
    BY <1>2 DEF Form
  <2>1. t[q].pc \in {"fill", "remap", "publish"} => t[q].new \in Slot /\ t[q].new /= s
    BY NewsDiffer, TaskKnown DEF Local, s
  <2>2. map'[t[q].vol] = map[t[q].vol]
    BY <1>1, <1>2, <1>3
  <2>3. t[q].pc \in {"fill", "remap", "publish"} => count'[t[q].new] = count[t[q].new]
    BY <1>1, <1>2, <2>1
  <2> QED
    BY <1>2, <2>1, <2>2, <2>3 DEF CInv, Placed
<1>7. \A u \in Volume : map'[u] /= None => u \in live' /\ refs'[u] >= 1
  <2>1. v \in live
    BY DEF Snapshot
  <2>2. \A u \in Volume : map[u] /= None => u \in live /\ refs[u] >= 1
    BY DEF CInv
  <2>3. CASE s = None
    BY <1>1, <1>2, <2>1, <2>2, <2>3
  <2>4. CASE s /= None
    BY <1>1, <1>2, <1>3, <2>1, <2>2, <2>4
  <2> QED
    BY <2>3, <2>4
<1> QED
  BY <1>2, <1>5, <1>6, <1>7 DEF CInv

\* Delete keeps the counts.
LEMMA DeleteCounts == ASSUME IInv, CInv, NEW v \in Volume, Delete(v) PROVE CInv'
<1> DEFINE s == map[v]
<1>1. /\ count \in [Slot -> Nat] /\ map \in [Volume -> Slot \cup {None}] /\ refs \in [Volume -> Nat]
      /\ s \in Slot \cup {None}
  BY Split DEF RestOK
<1>2. s /= None => s \in Slot /\ s \notin owed /\ count[s] >= 1 /\ count[s] /= 0 /\ s \notin free \cup freeing
  BY <1>1, NamedIsOwned
<1>3. /\ map' = [map EXCEPT ![v] = None] /\ live' = live \ {v} /\ refs' = [refs EXCEPT ![v] = 0]
      /\ UNCHANGED <<free, owed, t>>
      /\ s = None => UNCHANGED <<count, freeing>>
      /\ s /= None => /\ count' = [count EXCEPT ![s] = count[s] - 1]
                      /\ freeing' = IF count[s] - 1 = 0 THEN freeing \cup {s} ELSE freeing
  BY <1>2 DEF Delete, Retire
<1> HIDE DEF s
<1>4. ASSUME NEW x \in Slot PROVE Counted(x)'
  <2>1. /\ Names(x)' = IF None = x THEN Names(x) \cup {v} ELSE Names(x) \ {v}
        /\ Cardinality(Names(x)') = Cardinality(Names(x)) - (IF map[v] = x THEN 1 ELSE 0)
                                                          + (IF None = x THEN 1 ELSE 0)
    BY ZenonT(40), <1>1, <1>3, NamesCount
  <2>2. InFlight(x)' = InFlight(x)
    BY <1>3 DEF InFlight
  <2>3. Counted(x) /\ Cardinality(Names(x)) \in Nat /\ Cardinality(InFlight(x)) \in Nat /\ x /= None
    BY FiniteCounted, SlotAssumption DEF CInv
  <2>4. CASE x = s
    <3>1. /\ count'[x] = count[x] - 1 /\ count[x] \in Nat /\ count[x] >= 1
          /\ Cardinality(Names(x)') = Cardinality(Names(x)) - 1
          /\ freeing' = IF count[x] - 1 = 0 THEN freeing \cup {x} ELSE freeing
      BY <1>1, <1>2, <1>3, <2>1, <2>3, <2>4 DEF s
    <3> QED
      BY <1>2, <1>3, <2>2, <2>3, <2>4, <3>1 DEF Counted
  <2>5. CASE x /= s
    <3>1. /\ count'[x] = count[x] /\ Cardinality(Names(x)') = Cardinality(Names(x))
          /\ Names(x)' = Names(x) \ {v} /\ (x \in freeing' <=> x \in freeing)
      BY <1>1, <1>3, <2>1, <2>3, <2>5 DEF s
    <3> QED
      BY <1>3, <2>2, <2>3, <3>1 DEF Counted
  <2> QED
    BY <2>4, <2>5
<1>5. \A q \in Task : (Form(t[q]) /\ Placed(t[q]))'
  <2> SUFFICES ASSUME NEW q \in Task PROVE Form(t[q]) /\ Placed(t[q])'
    BY <1>3 DEF Form
  <2>1. t[q].pc \in {"fill", "remap", "publish"} => t[q].new \in Slot /\ t[q].new /= s
    BY NewsDiffer, TaskKnown DEF Local, s
  <2>2. t[q].kind \in {"read", "write", "discard", "retier"} => t[q].vol /= v
    BY DEF Delete, GateOpen, Doing, ManagerFree
  <2>3. t[q].kind \in {"read", "write", "discard", "retier"} => map'[t[q].vol] = map[t[q].vol]
    BY <1>1, <1>3, <2>2
  <2>4. t[q].pc \in {"fill", "remap", "publish"} => count'[t[q].new] = count[t[q].new]
    BY <1>1, <1>3, <2>1
  <2>5. t[q].pc = "unmap" => t[q].kind = "discard"
    BY DEF CInv, Form
  <2> QED
    BY <1>3, <2>1, <2>2, <2>3, <2>4, <2>5 DEF CInv, Placed
<1>6. \A u \in Volume : map'[u] /= None => u \in live' /\ refs'[u] >= 1
  BY <1>1, <1>3 DEF CInv
<1>7. free' \cap freeing' = {}
  BY <1>2, <1>3 DEF CInv
<1> QED
  BY <1>3, <1>4, <1>5, <1>6, <1>7 DEF CInv

\* A step that changes none of it keeps the counts.
LEMMA StillCounts ==
    ASSUME CInv, UNCHANGED <<live, map, refs, count, owed, t>>, free' \cup freeing' = free \cup freeing,
           free' \cap freeing' = {}
    PROVE  CInv'
<1>1. \A s \in Slot : Names(s)' = Names(s) /\ InFlight(s)' = InFlight(s)
  BY DEF Names, InFlight
<1>2. \A s \in Slot : Counted(s)'
  BY <1>1 DEF CInv, Counted
<1>3. \A q \in Task : (Form(t[q]) /\ Placed(t[q]))'
  BY DEF CInv, Form, Placed
<1> QED
  BY <1>2, <1>3 DEF CInv

\* Every step keeps the counts, retiers alone with their extents.
LEMMA NextCounts ==
    IInv /\ CInv /\ OneRetier /\ RetiersAlone /\ [Next]_vars => CInv'
<1> SUFFICES ASSUME IInv, CInv, OneRetier, RetiersAlone, [Next]_vars PROVE CInv'
  OBVIOUS
<1>1. ASSUME NEW p \in Task, Advance(p) PROVE CInv'
  BY <1>1, LookupCounts, HoldCounts, RecheckCounts, ReadSlotCounts, DecideCounts, LockVolumeCounts,
     WriteInPlaceCounts, CopySlotCounts, AllocateCounts, NoSpaceCounts, FillCounts, FillErrorCounts,
     RemapCounts, ReleaseCounts, SyncRefsCounts, DoneCounts, DiscardAloneCounts, UnmapCounts,
     ExclusiveCounts, PublishCounts DEF Advance
<1>2. ASSUME NEW p \in Task, NEW v \in Volume, NEW b \in Block, StartWrite(p, v, b) \/ StartRead(p, v, b)
      PROVE  CInv'
  BY <1>2, StartWriteCounts, StartReadCounts
<1>3. ASSUME NEW p \in Task, NEW v \in Volume,
             StartDiscard(p, v) \/ StartMove(p, v) \/ StartRetier(p, v)
      PROVE  CInv'
  BY <1>3, StartDiscardCounts, StartMoveCounts, StartRetierCounts
<1>4. CASE (\E v, w \in Volume : Snapshot(v, w)) \/ (\E v \in Volume : Delete(v)) \/ ReleaseOwed
  BY <1>4, SnapshotCounts, DeleteCounts, ReleaseOwedCounts
<1>5. CASE (\E d \in Slab : SetQuarantined(d)) \/ Sync \/ UNCHANGED vars
  <2>1. free \cap freeing = {}
    BY DEF CInv
  <2> QED
    BY <1>5, <2>1, StillCounts DEF SetQuarantined, Sync, mapVars, vars, ioVars
<1> QED
  BY <1>1, <1>2, <1>3, <1>4, <1>5 DEF Next, Operate

\* The counts are right at the start.
LEMMA InitCounts == Init => CInv /\ OneRetier
<1> SUFFICES ASSUME Init PROVE CInv /\ OneRetier
  OBVIOUS
<1> PICK m \in {None} \cup {s \in Slot : SlabOf[s] \in load.leaving} :
      LET taken == {m} \ {None}
      IN  /\ map = [v \in Volume |-> IF v = Root THEN m ELSE None]
          /\ refs = [v \in Volume |-> IF v = Root THEN Cardinality(taken) ELSE 0]
          /\ count = [s \in Slot |-> IF s \in taken THEN 1 ELSE 0]
          /\ free = Slot \ taken
  BY DEF Init
<1>1. live = {Root} /\ freeing = {} /\ owed = {} /\ \A p \in Task : t[p] = Idle
  BY DEF Init
<1>2. Cardinality({m}) = 1 /\ Cardinality({}) = 0 /\ Cardinality({Root}) = 1
  BY FS_Singleton, FS_EmptySet
<1>3. m /= None => {m} \ {None} = {m}
  OBVIOUS
<1>4. ASSUME NEW s \in Slot PROVE Counted(s)
  <2>1. s /= None /\ Root \in Volume
    BY SlotAssumption, VolumeAssumption
  <2>2. Names(s) = IF s = m THEN {Root} ELSE {}
    BY <2>1 DEF Names
  <2>3. InFlight(s) = {}
    BY <1>1, IdleClaims DEF InFlight
  <2> QED
    BY <1>1, <1>2, <2>1, <2>2, <2>3 DEF Counted
<1>5. \A p \in Task : Form(t[p]) /\ Placed(t[p])
  BY <1>1 DEF Form, Placed, Idle
<1>6. \A v \in Volume : map[v] /= None => v \in live /\ refs[v] >= 1
  BY <1>1, <1>2, <1>3
<1>7. OneRetier
  BY <1>1 DEF OneRetier, Idle
<1> QED
  BY <1>1, <1>4, <1>5, <1>6, <1>7 DEF CInv

\* The counts stay right as long as retiers are alone with their extents.
LEMMA CountsInvariant == Spec /\ []RetiersAlone => [](IInv /\ CInv)
<1>1. Init => IInv /\ CInv /\ OneRetier
  BY InitIInv, InitCounts
<1>2. IInv /\ CInv /\ OneRetier /\ RetiersAlone /\ [Next]_vars => (IInv /\ CInv /\ OneRetier)'
  BY NextIInv, NextCounts, RetiersQueue
<1> QED
  BY <1>1, <1>2, PTL DEF Spec

\* A slot's share count covers the maps that name it and no map names a free
\* slot (dec_ref, inc_ref, publish, delete_volume), for any number of volumes,
\* tasks and slots, as long as retiers are alone with their extents.
THEOREM CountsCover == Spec /\ []RetiersAlone => []CountsCoverMaps
<1>1. IInv /\ CInv => CountsCoverMaps
  <2> SUFFICES ASSUME IInv, CInv, NEW s \in Slot
               PROVE  /\ count[s] >= Cardinality({v \in Volume : map[v] = s})
                      /\ count[s] > 0 => s \notin free \cup freeing
    BY DEF CountsCoverMaps
  <2>1. Counted(s) /\ count[s] \in Nat
    BY Split DEF CInv, RestOK
  <2>2. Cardinality({}) = 0 /\ Cardinality(Names(s)) \in Nat /\ Cardinality(InFlight(s)) \in Nat
    BY FiniteCounted, FS_EmptySet
  <2>3. {v \in Volume : map[v] = s} = Names(s)
    BY DEF Names
  <2>4. count[s] >= Cardinality(Names(s))
    BY <2>1, <2>2 DEF Counted
  <2>5. count[s] > 0 => s \notin free \cup freeing
    BY <2>1 DEF Counted
  <2> QED
    BY <2>3, <2>4, <2>5
<1> QED
  BY <1>1, CountsInvariant, PTL

\* Once the operations are over every slot is owned by the maps that name it or
\* owed, and free otherwise: no copy that failed, no release and no delete
\* leaks one (free_unpublished, dec_ref, release_owed).
THEOREM SlotsReturn == Spec /\ []RetiersAlone => []NothingLeaks
<1>1. IInv /\ CInv => NothingLeaks
  <2> SUFFICES ASSUME IInv, CInv, \A p \in Task : t[p] = Idle, NEW s \in Slot \ owed
               PROVE  /\ count[s] = Cardinality({v \in Volume : map[v] = s})
                      /\ (count[s] = 0) = (s \in free \cup freeing)
    BY DEF NothingLeaks
  <2>1. Counted(s) /\ InFlight(s) = {} /\ Cardinality({}) = 0 /\ Cardinality(Names(s)) \in Nat
    BY IdleClaims, FS_EmptySet, FiniteCounted DEF CInv, InFlight
  <2>2. {v \in Volume : map[v] = s} = Names(s)
    BY DEF Names
  <2>3. count[s] = Cardinality(Names(s))
    BY <2>1 DEF Counted
  <2> QED
    BY <2>1, <2>2, <2>3 DEF Counted
<1> QED
  BY <1>1, CountsInvariant, PTL

-----------------------------------------------------------------------------
(* A volume that believes it is alone on its slot is. *)

Alone(v) == \A w \in Volume : map[v] /= None /\ map[w] = map[v] => w = v

\* A volume's count says alone, or a write has read that it does: it is alone,
\* unless a count was overtaken.
AInv ==
    /\ \A v \in Volume \ overtaken : refs[v] = 1 => Alone(v)
    /\ \A p \in Task : t[p].kind = "write" /\ t[p].refs = 1 /\ t[p].vol \notin overtaken => Alone(t[p].vol)

\* A count that is overtaken is noticed.
Noticed == \A v \in Volume : Outdated(v) => v \in overtaken

\* What the steps of a task do to the maps.
LEMMA MapSteps ==
    ASSUME NEW p \in Task, Advance(p)
    PROVE  UNCHANGED <<map, refs>> \/ Remap(p) \/ Unmap(p) \/ Publish(p) \/ SyncRefs(p)
  BY DEF Advance, Lookup, Hold, Recheck, ReadSlot, Decide, LockVolume, WriteInPlace, CopySlot,
         Allocate, NoSpace, Fill, FillError, Release, Done, DiscardAlone, Exclusive, mapVars

\* No step but a snapshot brings two volumes together on a slot.
LEMMA AloneStays ==
    ASSUME IInv, CInv, NEW p \in Task, Advance(p), NEW v \in Volume, Alone(v) PROVE Alone(v)'
<1>1. map \in [Volume -> Slot \cup {None}]
  BY Split DEF RestOK
<1>2. CASE UNCHANGED map
  BY <1>2 DEF Alone
<1>3. CASE Remap(p)
  <2>1. map' = [map EXCEPT ![t[p].vol] = t[p].new] /\ \A w \in Volume : map[w] /= t[p].new
    BY <1>3, NewsDiffer DEF Remap
  <2> QED
    BY <1>1, <2>1 DEF Alone
<1>4. CASE Unmap(p)
  <2>1. map' = [map EXCEPT ![t[p].vol] = None]
    BY <1>4 DEF Unmap
  <2> QED
    BY <1>1, <2>1 DEF Alone
<1>5. CASE Publish(p)
  <2>1. /\ map' = map \/ map' = [u \in Volume |-> IF map[u] = t[p].loc THEN t[p].new ELSE map[u]]
        /\ \A w \in Volume : map[w] /= t[p].new
        /\ t[p].loc \in Slot
    BY <1>5, NewsDiffer, TaskKnown DEF Publish, Local
  <2> QED
    BY <1>1, <2>1, SlotAssumption DEF Alone
<1>6. CASE SyncRefs(p)
  BY <1>6 DEF SyncRefs, Alone
<1> QED
  BY <1>2, <1>3, <1>4, <1>5, <1>6, MapSteps

\* A step of a task keeps the counts the maps believe apart from one.
LEMMA AdvanceAlone ==
    ASSUME IInv, CInv, AInv, Noticed, NEW p \in Task, Advance(p), overtaken \subseteq overtaken'
    PROVE  AInv'
<1>1. /\ map \in [Volume -> Slot \cup {None}] /\ refs \in [Volume -> Nat]
      /\ count \in [Slot -> Nat] /\ t \in [Task -> TaskState]
  BY Split DEF RestOK, TasksOK
<1>2. ASSUME NEW v \in Volume, v \notin overtaken', refs'[v] = 1 PROVE Alone(v)'
  <2>1. CASE refs[v] = 1
    BY <1>2, <2>1, AloneStays DEF AInv
  <2>2. CASE refs[v] /= 1 /\ Remap(p)
    <3>1. /\ map' = [map EXCEPT ![t[p].vol] = t[p].new] /\ refs' = [refs EXCEPT ![t[p].vol] = 1]
          /\ \A w \in Volume : map[w] /= t[p].new
      BY <2>2, NewsDiffer DEF Remap
    <3> QED
      BY <1>1, <1>2, <2>2, <3>1 DEF Alone
  <2>3. CASE refs[v] /= 1 /\ SyncRefs(p)
    <3>1. /\ map' = map /\ t[p].pc = "refs" /\ map[t[p].of] = t[p].loc
          /\ refs' = [refs EXCEPT ![t[p].of] = t[p].shares]
      BY <1>2, <2>3 DEF SyncRefs
    <3>2. v = t[p].of /\ t[p].shares = 1 /\ map[v] = t[p].loc /\ t[p].loc \in Slot
      BY <1>1, <1>2, <2>3, <3>1, TaskKnown DEF Local
    <3>3. count[t[p].loc] <= 1
      <4>1. ~Outdated(v) /\ count[t[p].loc] \in Nat
        BY <1>1, <1>2, <3>2 DEF Noticed
      <4> QED
        BY <3>1, <3>2, <4>1 DEF Outdated
    <3>4. Cardinality(Names(map[v])) <= 1
      <4>1. map[v] \in Slot /\ map[v] \notin owed
        BY <3>2, NamedIsOwned, SlotAssumption
      <4>2. count[map[v]] = Cardinality(Names(map[v])) + Cardinality(InFlight(map[v]))
        BY <4>1 DEF CInv, Counted
      <4> QED
        BY <3>2, <3>3, <4>2, FiniteCounted
    <3>5. ASSUME NEW w \in Volume, map[w] = map[v] PROVE w = v
      <4>1. Names(map[v]) \ {v} = {}
        <5>1. v \in Names(map[v])
          BY DEF Names
        <5>2. /\ IsFiniteSet(Names(map[v]) \ {v})
              /\ Cardinality(Names(map[v]) \ {v}) = Cardinality(Names(map[v])) - 1
          BY <5>1, FiniteCounted, FS_RemoveElement
        <5>3. Cardinality(Names(map[v]) \ {v}) = 0
          BY <3>4, <5>2, FiniteCounted, FS_CardinalityType
        <5> QED
          BY <5>2, <5>3, FS_EmptySet
      <4> QED
        BY <3>5, <4>1 DEF Names
    <3> QED
      BY <3>1, <3>5 DEF Alone
  <2>4. CASE refs[v] /= 1 /\ Unmap(p)
    <3>1. refs' = [refs EXCEPT ![t[p].vol] = 0]
      BY <2>4 DEF Unmap
    <3> QED
      BY <1>1, <1>2, <2>4, <3>1
  <2>5. CASE refs[v] /= 1 /\ Publish(p)
    BY <1>2, <2>5 DEF Publish
  <2> QED
    BY <1>2, <2>1, <2>2, <2>3, <2>4, <2>5, MapSteps
<1>3. ASSUME NEW q \in Task, t'[q].kind = "write", t'[q].refs = 1, t'[q].vol \notin overtaken'
      PROVE  Alone(t[q].vol)'
  <2>1. /\ t[q].kind = "write" /\ t'[q].vol = t[q].vol /\ t[q].vol \notin overtaken
        /\ t[q].refs = 1 \/ refs[t[q].vol] = 1
    BY <1>1, <1>3, RequestStays DEF Same, Idle
  <2>2. t[q].vol \in Volume
    BY <2>1, TaskKnown DEF Local, CInv, Form
  <2>3. Alone(t[q].vol)
    BY <2>1, <2>2 DEF AInv
  <2>4. \A w \in Volume : map'[t[q].vol] /= None /\ map'[w] = map'[t[q].vol] => w = t[q].vol
    BY <2>2, <2>3, AloneStays DEF Alone
  <2> QED
    BY <2>1, <2>4 DEF Alone
<1> QED
  BY <1>2, <1>3 DEF AInv

\* A step that leaves the maps alone, and after which no write knows a count
\* it did not know.
LEMMA MapsStayAlone ==
    ASSUME AInv, UNCHANGED <<map, refs>>, overtaken \subseteq overtaken',
           \A q \in Task : t'[q].kind = "write" /\ t'[q].refs = 1
                           => t[q].kind = "write" /\ t[q].refs = 1 /\ t'[q].vol = t[q].vol
    PROVE  AInv'
<1>1. \A v \in Volume \ overtaken' : refs'[v] = 1 => Alone(v)'
  BY DEF AInv, Alone
<1>2. \A q \in Task : t'[q].kind = "write" /\ t'[q].refs = 1 /\ t'[q].vol \notin overtaken' => Alone(t[q].vol)'
  BY DEF AInv, Alone
<1> QED
  BY <1>1, <1>2 DEF AInv

\* A snapshot shares the slot of a volume no write of which is in flight.
LEMMA SnapshotAlone ==
    ASSUME IInv, CInv, AInv, NEW v \in Volume, NEW w \in Volume, Snapshot(v, w), overtaken \subseteq overtaken'
    PROVE  AInv'
<1>1. map \in [Volume -> Slot \cup {None}] /\ refs \in [Volume -> Nat]
  BY Split DEF RestOK
<1>2. /\ map' = [map EXCEPT ![w] = map[v]] /\ UNCHANGED t
      /\ map[v] = None => UNCHANGED refs
      /\ map[v] /= None => refs' = [refs EXCEPT ![v] = @ + 1, ![w] = refs[v] + 1]
  BY DEF Snapshot
<1>3. /\ w \notin live /\ map[w] = None /\ v /= w
      /\ \A q \in Task : t[q].vol /= w /\ (t[q].kind = "write" => t[q].vol /= v)
  BY DEF Snapshot, FreshId, CInv, GateOpen, Doing
<1>4. map[v] /= None => refs[v] >= 1
  BY DEF CInv
<1>5. ASSUME NEW u \in Volume, Alone(u), u /= v, u /= w PROVE Alone(u)'
  BY <1>1, <1>2, <1>3, <1>5 DEF Alone
<1>6. CASE map[v] = None
  <2>1. map' = map
    BY <1>1, <1>2, <1>3, <1>6
  <2> QED
    BY <1>2, <1>6, <2>1, MapsStayAlone
<1>7. CASE map[v] /= None
  <2>1. refs'[v] /= 1 /\ refs'[w] /= 1 /\ \A u \in Volume : u /= v /\ u /= w => refs'[u] = refs[u]
    BY <1>1, <1>2, <1>3, <1>4, <1>7
  <2>2. \A u \in Volume \ overtaken' : refs'[u] = 1 => Alone(u)'
    BY <1>5, <2>1 DEF AInv
  <2>3. ASSUME NEW q \in Task, t[q].kind = "write", t[q].refs = 1, t[q].vol \notin overtaken'
        PROVE  Alone(t[q].vol)'
    <3>1. t[q].vol \in Volume /\ t[q].vol /= v /\ t[q].vol /= w /\ Alone(t[q].vol)
      BY <1>3, <2>3, TaskKnown DEF AInv, Local, CInv, Form
    <3> QED
      BY <1>1, <1>2, <1>3, <3>1 DEF Alone
  <2> QED
    BY <1>2, <2>2, <2>3 DEF AInv
<1> QED
  BY <1>6, <1>7

\* Every step keeps it.
LEMMA NextAlone ==
    IInv /\ CInv /\ AInv /\ Noticed /\ [Next]_vars => AInv' /\ Noticed'
<1> SUFFICES ASSUME IInv, CInv, AInv, Noticed, [Next]_vars PROVE AInv' /\ Noticed'
  OBVIOUS
<1>1. CASE UNCHANGED vars
  <2>1. Noticed'
    BY <1>1 DEF Noticed, Outdated, vars, ioVars
  <2> QED
    BY <1>1, <2>1, MapsStayAlone DEF vars, ioVars
<1>2. CASE Next
  <2>1. overtaken \subseteq overtaken' /\ Noticed'
    BY <1>2 DEF Next, Noticed
  <2>2. ASSUME NEW p \in Task, Advance(p) PROVE AInv'
    BY <2>1, <2>2, AdvanceAlone
  <2>3. ASSUME NEW p \in Task, NEW v \in Volume, NEW b \in Block, StartWrite(p, v, b)
        PROVE  AInv'
    <3>1. ASSUME NEW q \in Task, t'[q].kind = "write", t'[q].refs = 1
          PROVE  t[q].kind = "write" /\ t[q].refs = 1 /\ t'[q].vol = t[q].vol
      <4>1. t[q] \in TaskState
        BY TaskKnown
      <4> QED
        BY <2>3, <3>1, <4>1 DEF StartWrite, Idle, TaskState
    <3> QED
      BY <2>1, <2>3, <3>1, MapsStayAlone DEF StartWrite, mapVars
  <2>4. ASSUME NEW p \in Task, NEW v \in Volume, NEW b \in Block, StartRead(p, v, b)
        PROVE  AInv'
    <3>1. \E x : t' = [t EXCEPT ![p] = [Idle EXCEPT !.pc = "lookup", !.kind = "read", !.vol = v,
                                                    !.block = b, !.valid = x]]
      BY <2>4 DEF StartRead, Step
    <3>2. ASSUME NEW q \in Task, t'[q].kind = "write", t'[q].refs = 1
          PROVE  t[q].kind = "write" /\ t[q].refs = 1 /\ t'[q].vol = t[q].vol
      <4>1. t \in [Task -> TaskState]
        BY Split DEF TasksOK
      <4> QED
        BY <3>1, <3>2, <4>1 DEF Idle
    <3> QED
      BY <2>1, <2>4, <3>2, MapsStayAlone DEF StartRead, mapVars
  <2>5. ASSUME NEW p \in Task, NEW v \in Volume, StartDiscard(p, v) PROVE AInv'
    <3>1. ASSUME NEW q \in Task, t'[q].kind = "write", t'[q].refs = 1
          PROVE  t[q].kind = "write" /\ t[q].refs = 1 /\ t'[q].vol = t[q].vol
      <4>1. t[q] \in TaskState
        BY TaskKnown
      <4> QED
        BY <2>5, <3>1, <4>1 DEF StartDiscard, Idle, TaskState
    <3> QED
      BY <2>1, <2>5, <3>1, MapsStayAlone DEF StartDiscard, mapVars
  <2>6. ASSUME NEW p \in Task, NEW v \in Volume, StartMove(p, v) \/ StartRetier(p, v) PROVE AInv'
    <3>1. ASSUME NEW q \in Task, t'[q].kind = "write", t'[q].refs = 1
          PROVE  t[q].kind = "write" /\ t[q].refs = 1 /\ t'[q].vol = t[q].vol
      <4>1. t \in [Task -> TaskState]
        BY Split DEF TasksOK
      <4>2. t'[p].kind \in {"move", "retier"} /\ \A u \in Task : u /= p => t'[u] = t[u]
        <5>1. CASE StartMove(p, v)
          BY <4>1, <5>1 DEF StartMove, Step, Idle
        <5>2. CASE StartRetier(p, v)
          BY <4>1, <5>2 DEF StartRetier, Step, Idle
        <5> QED
          BY <2>6, <5>1, <5>2
      <4> QED
        BY <3>1, <4>2
    <3> QED
      BY <2>1, <2>6, <3>1, MapsStayAlone DEF StartMove, StartRetier, mapVars
  <2>7. CASE (\E d \in Slab : SetQuarantined(d)) \/ ReleaseOwed \/ Sync
    BY <2>1, <2>7, MapsStayAlone DEF SetQuarantined, ReleaseOwed, Sync, mapVars
  <2>8. ASSUME NEW v \in Volume, Delete(v) PROVE AInv'
    <3>1. /\ map' = [map EXCEPT ![v] = None] /\ refs' = [refs EXCEPT ![v] = 0] /\ UNCHANGED t
          /\ map \in [Volume -> Slot \cup {None}] /\ refs \in [Volume -> Nat]
      BY <2>8, Split DEF Delete, RestOK
    <3>2. \A u \in Volume : Alone(u) => Alone(u)'
      BY <3>1 DEF Alone
    <3>3. \A u \in Volume \ overtaken' : refs'[u] = 1 => Alone(u)'
      BY <2>1, <3>1, <3>2 DEF AInv
    <3>4. ASSUME NEW q \in Task, t[q].kind = "write", t[q].refs = 1, t[q].vol \notin overtaken'
          PROVE  Alone(t[q].vol)'
      <4>1. t[q].vol \in Volume /\ Alone(t[q].vol)
        BY <2>1, <3>4, TaskKnown DEF AInv, Local, CInv, Form
      <4> QED
        BY <3>1, <4>1 DEF Alone
    <3> QED
      BY <3>1, <3>3, <3>4 DEF AInv
  <2>9. ASSUME NEW v \in Volume, NEW w \in Volume, Snapshot(v, w) PROVE AInv'
    BY <2>1, <2>9, SnapshotAlone
  <2> QED
    BY <1>2, <2>1, <2>2, <2>3, <2>4, <2>5, <2>6, <2>7, <2>8, <2>9 DEF Next, Operate
<1> QED
  BY <1>1, <1>2

\* It holds at the start.
LEMMA InitAlone == Init => AInv /\ Noticed
<1> SUFFICES ASSUME Init PROVE AInv /\ Noticed
  OBVIOUS
<1>1. \A v \in Volume : map[v] /= None => v = Root
  BY DEF Init
<1>2. \A p \in Task : t[p] = Idle
  BY DEF Init
<1> QED
  BY <1>1, <1>2 DEF AInv, Alone, Noticed, Outdated, Idle

\* All of it is invariant.
LEMMA AloneInvariant == Spec /\ []RetiersAlone => [](IInv /\ CInv /\ OneRetier /\ AInv /\ Noticed)
<1> DEFINE J == IInv /\ CInv /\ OneRetier /\ AInv /\ Noticed
<1>1. Init => J
  BY InitIInv, InitCounts, InitAlone
<1>2. J /\ RetiersAlone /\ [Next]_vars => J'
  BY NextIInv, NextCounts, RetiersQueue, NextAlone
<1> QED
  BY <1>1, <1>2, PTL DEF Spec

\* A volume whose map says one reference is alone on its slot, unless sync_refs
\* was overtaken: the count write_blocks decides by never says alone when a
\* snapshot shares the slot.
THEOREM BelievesAlone == Spec /\ []RetiersAlone => []AloneMeansAlone
<1>1. AInv => AloneMeansAlone
  BY DEF AInv, Alone, AloneMeansAlone
<1> QED
  BY <1>1, AloneInvariant, PTL

-----------------------------------------------------------------------------
(* What the blocks hold. *)

\* A write whose data its volume's map names, and that is not acknowledged yet.
Landed(r) == r.kind = "write" /\ r.pc \in {"release", "refs", "done"}

\* A block reads as it was last acknowledged, or as the write that landed on it.
Latest(v, b) ==
    /\ \A q \in Task : Landed(t[q]) /\ t[q].vol = v /\ t[q].block = b => Through(v, b) = t[q].val
    /\ (\A q \in Task : Landed(t[q]) /\ t[q].vol = v => t[q].block /= b) => Through(v, b) = last[v][b]

\* What a copy has read is what its slot holds still, with the write over it,
\* and what it has filled its new slot with.
Buffered(r) ==
    /\ r.kind = "write" /\ r.pc \in {"alloc", "fill", "remap"}
        => \A b \in Block : r.buf[b] = IF b = r.block THEN r.val
                                       ELSE IF r.loc = None THEN 0 ELSE data[r.loc][b]
    /\ r.kind = "retier" /\ r.pc \in {"alloc", "fill", "remap"} => r.buf = data[r.loc]
    /\ r.kind = "move" /\ r.pc \in {"alloc", "fill", "publish"} /\ map[r.vol] = r.loc => r.buf = data[r.loc]
    /\ r.pc \in {"remap", "publish"} => data[r.new] = r.buf
    /\ r.kind = "move" /\ r.pc /= "exclusive" => map[r.vol] = r.loc \/ r.vol \notin live

\* The block a request is for; a write in place has its slot and was alone on it.
Asked(r) ==
    /\ r.kind \in {"read", "write"} => r.block \in Block
    /\ r.kind = "write" /\ r.pc = "io" => r.held \in Slot /\ r.refs = 1

\* No two writes of a block, no write beside a discard.
Apart(r, q) ==
    r.kind = "write" /\ q.vol = r.vol => /\ q.kind = "write" => q.block /= r.block
                                         /\ q.kind /= "discard"

DInv ==
    /\ \A p, q \in Task : p /= q => Apart(t[p], t[q])
    /\ \A p \in Task : Asked(t[p]) /\ Buffered(t[p])
    /\ \A v \in live, b \in Block : Latest(v, b)

\* A task's new registers are of the same request, or of none.
Successor(r, q) == r = Idle \/ (r.kind = q.kind /\ r.vol = q.vol /\ r.block = q.block /\ r.val = q.val)

\* A slot whose content matters: named by a map, or filled and not yet published.
InUse(s) == (\E v \in Volume : map[v] = s) \/ (\E q \in Task : t[q].pc \in {"remap", "publish"} /\ t[q].new = s)

\* A step of one task that changes no map and no content in use, and lands no write.
LEMMA CalmData ==
    ASSUME IInv, CInv, DInv, NEW p \in Task, NEW r, t' = [t EXCEPT ![p] = r],
           Successor(r, t[p]), Landed(r) <=> Landed(t[p]), Asked(r), Buffered(t[p])',
           UNCHANGED <<live, map, last>>, \A s \in Slot : InUse(s) => data'[s] = data[s]
    PROVE  DInv'
<1>1. t \in [Task -> TaskState] /\ map \in [Volume -> Slot \cup {None}] /\ live \in SUBSET Volume
  BY Split DEF TasksOK, RestOK
<1>2. \A q \in Task : q /= p => t'[q] = t[q]
  BY <1>1
<1>3. ASSUME NEW a \in Task, NEW b \in Task, a /= b PROVE Apart(t'[a], t'[b])
  <2>1. Apart(t[a], t[b])
    BY <1>3 DEF DInv
  <2>2. Successor(t'[a], t[a]) /\ Successor(t'[b], t[b])
    BY <1>2 DEF Successor
  <2> QED
    BY <2>1, <2>2 DEF Apart, Successor, Idle
<1>4. ASSUME NEW q \in Task, q /= p PROVE Asked(t'[q]) /\ Buffered(t[q])'
  <2>1. Asked(t[q]) /\ Buffered(t[q]) /\ Placed(t[q]) /\ Form(t[q]) /\ Local(t[q])
    BY TaskKnown DEF DInv, CInv
  <2>2. t[q].pc /= "idle" => t[q].vol \in Volume
    BY <2>1 DEF Local
  <2>3. t[q].pc /= "idle" /\ t[q].loc \in Slot /\ map[t[q].vol] = t[q].loc => data'[t[q].loc] = data[t[q].loc]
    BY <2>2 DEF InUse
  <2>4. t[q].pc \in {"remap", "publish"} => data'[t[q].new] = data[t[q].new]
    <3>1. t[q].pc \in {"remap", "publish"} => t[q].new \in Slot
      BY <2>1 DEF Local
    <3> QED
      BY <3>1 DEF InUse
  <2>5. t[q].kind = "write" /\ t[q].pc \in {"alloc", "fill", "remap"} => map[t[q].vol] = t[q].loc
    BY <2>1 DEF Placed, Form
  <2>6. t[q].loc \in Slot \cup {None}
    BY <1>1 DEF TaskState
  <2>7. t'[q] = t[q]
    BY <1>2, <1>4
  <2>8. /\ t[q].kind = "write" /\ t[q].pc \in {"alloc", "fill", "remap"}
            => t[q].loc = None \/ data'[t[q].loc] = data[t[q].loc]
        /\ t[q].kind = "retier" /\ t[q].pc \in {"alloc", "fill", "remap"} => data'[t[q].loc] = data[t[q].loc]
        /\ t[q].kind = "move" /\ t[q].pc \in {"alloc", "fill", "publish"} /\ map[t[q].vol] = t[q].loc
            => data'[t[q].loc] = data[t[q].loc]
    BY <2>1, <2>3, <2>5, <2>6 DEF Placed, Local
  <2>9. Buffered(t[q])'
    BY <2>1, <2>4, <2>7, <2>8 DEF Buffered
  <2> QED
    BY <2>1, <2>7, <2>9
<1>5. ASSUME NEW v \in live, NEW b \in Block PROVE Latest(v, b)'
  <2>1. Latest(v, b) /\ v \in Volume
    BY <1>1 DEF DInv
  <2>2. Through(v, b)' = Through(v, b)
    <3>1. map[v] /= None => map[v] \in Slot /\ data'[map[v]] = data[map[v]]
      BY <1>1, <2>1 DEF InUse
    <3> QED
      BY <3>1 DEF Through
  <2>3. \A q \in Task : /\ Landed(t'[q]) <=> Landed(t[q])
                        /\ Landed(t[q]) => t'[q].vol = t[q].vol /\ t'[q].block = t[q].block /\ t'[q].val = t[q].val
    BY <1>2 DEF Successor, Landed, Idle
  <2>4. last'[v][b] = last[v][b]
    OBVIOUS
  <2> QED
    BY <2>1, <2>2, <2>3, <2>4 DEF Latest, Landed
<1>6. \A q \in Task : (Asked(t[q]) /\ Buffered(t[q]))'
  BY <1>1, <1>4 DEF Asked
<1>7. \A a, b \in Task : a /= b => Apart(t[a], t[b])'
  BY <1>3 DEF Apart
<1> QED
  BY <1>5, <1>6, <1>7 DEF DInv

\* The same, for the steps of an operation in flight.
LEMMA AdvanceData ==
    ASSUME IInv, CInv, DInv, NEW p \in Task, Advance(p),
           Landed(t'[p]) <=> Landed(t[p]), Asked(t'[p]), Buffered(t[p])',
           UNCHANGED <<live, map, last>>, \A s \in Slot : InUse(s) => data'[s] = data[s]
    PROVE  DInv'
<1>1. t' = [t EXCEPT ![p] = t'[p]] /\ Successor(t'[p], t[p])
  BY RequestStays DEF Same, Successor
<1> QED
  BY <1>1, CalmData

\* An operation that ends without having landed anything.
LEMMA FinishData ==
    ASSUME IInv, CInv, DInv, NEW p \in Task, Advance(p), t'[p] = Idle, ~Landed(t[p]),
           UNCHANGED <<live, map, last>>, \A s \in Slot : InUse(s) => data'[s] = data[s]
    PROVE  DInv'
<1>1. ~Landed(t'[p]) /\ Asked(t'[p]) /\ Buffered(t[p])'
  BY DEF Landed, Asked, Buffered, Idle
<1> QED
  BY <1>1, AdvanceData

\* What is known of a task.
LEMMA Known ==
    ASSUME IInv, CInv, DInv, NEW p \in Task
    PROVE  /\ t \in [Task -> TaskState] /\ t[p] \in TaskState /\ Local(t[p])
           /\ Form(t[p]) /\ Placed(t[p]) /\ Asked(t[p]) /\ Buffered(t[p])
  BY TaskKnown, Split DEF CInv, DInv, TasksOK

\* Lookup, and a look that finds another slot, keep the data.
LEMMA FoundData ==
    ASSUME IInv, CInv, DInv, NEW p \in Task, Advance(p), t[p].pc \in {"lookup", "recheck"},
           t' = [t EXCEPT ![p] = Found(p, map[t[p].vol])], UNCHANGED <<live, map, data, last>>
    PROVE  DInv'
<1> DEFINE s == map[t[p].vol]
<1>1. t \in [Task -> TaskState] /\ t[p] \in TaskState /\ Local(t[p]) /\ Form(t[p]) /\ Asked(t[p])
  BY Known
<1>2. t'[p] = Found(p, s) /\ t[p].kind \in {"read", "write", "discard"}
  BY <1>1 DEF Local
<1>3. CASE s /= None
  <2>1. t'[p] = [t[p] EXCEPT !.pc = "hold", !.held = None, !.loc = s]
    BY <1>2, <1>3 DEF Found
  <2>2. t'[p].pc = "hold" /\ t'[p].kind = t[p].kind /\ t'[p].block = t[p].block
    BY <1>1, <2>1 DEF TaskState
  <2>3. ~Landed(t'[p]) /\ ~Landed(t[p]) /\ Asked(t'[p]) /\ Buffered(t[p])'
    BY <1>1, <1>2, <2>2 DEF Landed, Asked, Buffered
  <2> QED
    BY <2>3, AdvanceData
<1>4. CASE s = None /\ t[p].kind /= "write"
  <2>1. t'[p] = [t[p] EXCEPT !.held = None, !.loc = None, !.pc = IF t[p].kind = "read" THEN "io" ELSE "done"]
    BY <1>2, <1>4 DEF Found
  <2>2. t'[p].kind = t[p].kind /\ t'[p].block = t[p].block
    BY <1>1, <2>1 DEF TaskState
  <2>3. t'[p].pc \in {"io", "done"}
    BY <1>1, <2>1 DEF TaskState
  <2>4. ~Landed(t'[p]) /\ ~Landed(t[p]) /\ Asked(t'[p]) /\ Buffered(t[p])'
    BY <1>1, <1>2, <1>4, <2>2, <2>3 DEF Landed, Asked, Buffered
  <2> QED
    BY <2>4, AdvanceData
<1>5. CASE s = None /\ t[p].kind = "write"
  <2> DEFINE laid == [Zeroes EXCEPT ![t[p].block] = t[p].val]
             next == IF t[p].locked THEN "alloc" ELSE "lock"
  <2>1. t'[p] = [t[p] EXCEPT !.held = None, !.loc = None, !.pc = next, !.buf = laid]
    BY <1>2, <1>5 DEF Found
  <2>2. \A b \in Block : laid[b] = IF b = t[p].block THEN t[p].val ELSE 0
    BY DEF Zeroes
  <2>3. next \in {"alloc", "lock"}
    OBVIOUS
  <2> HIDE DEF laid, next
  <2>4. /\ t'[p].kind = "write" /\ t'[p].block = t[p].block /\ t'[p].val = t[p].val
        /\ t'[p].loc = None /\ t'[p].buf = laid /\ t'[p].pc = next
    BY ZenonT(40), <1>1, <1>5, <2>1 DEF TaskState
  <2>5. ~Landed(t'[p]) /\ ~Landed(t[p]) /\ Asked(t'[p])
    BY <1>1, <1>5, <2>3, <2>4 DEF Landed, Asked
  <2>6. Buffered(t[p])'
    BY <2>2, <2>3, <2>4 DEF Buffered
  <2> QED
    BY <2>5, <2>6, AdvanceData
<1> QED
  BY <1>3, <1>4, <1>5

\* Steps to a place where nothing has been read yet.
LEMMA EarlyData ==
    ASSUME IInv, CInv, DInv, NEW p \in Task, Advance(p), ~Landed(t[p]), t[p].kind /= "move",
           t'[p].pc \in {"recheck", "decide", "lock", "lookup", "alone?", "unmap", "copy"},
           UNCHANGED <<live, map, data, last>>
    PROVE  DInv'
<1>1. t'[p] = Idle \/ (t'[p].kind = t[p].kind /\ t'[p].block = t[p].block)
  BY RequestStays DEF Same
<1>2. ~Landed(t'[p]) /\ Asked(t'[p]) /\ Buffered(t[p])'
  BY <1>1, Known DEF Landed, Asked, Buffered, Idle
<1> QED
  BY <1>2, AdvanceData

\* Lookup keeps the data.
LEMMA LookupData == ASSUME IInv, CInv, DInv, NEW p \in Task, Lookup(p) PROVE DInv'
  BY FoundData DEF Lookup, Step, mapVars, Advance

\* Hold keeps the data.
LEMMA HoldData == ASSUME IInv, CInv, DInv, NEW p \in Task, Hold(p) PROVE DInv'
<1>1. t'[p].pc = "recheck" /\ ~Landed(t[p]) /\ t[p].kind /= "move"
  BY Known DEF Hold, Step, TaskState, Landed, Local
<1> QED
  BY <1>1, EarlyData DEF Hold, mapVars, Advance

\* Recheck keeps the data.
LEMMA RecheckData == ASSUME IInv, CInv, DInv, NEW p \in Task, Recheck(p) PROVE DInv'
<1> DEFINE v == t[p].vol
           r == [t[p] EXCEPT !.refs = refs[v],
                             !.pc = CASE t[p].kind = "read" -> "io"
                                      [] t[p].kind = "discard" -> "unmap"
                                      [] OTHER -> "decide"]
<1>1. /\ t \in [Task -> TaskState] /\ t[p] \in TaskState /\ t[p].pc = "recheck" /\ Asked(t[p])
      /\ t[p].kind \in {"read", "write", "discard"} /\ ~Landed(t[p])
  BY Known DEF Recheck, Local, Landed
<1>2. CASE map[v] = t[p].held
  <2>1. t' = [t EXCEPT ![p] = r]
    BY <1>2 DEF Recheck, Step
  <2>2. r.kind = t[p].kind /\ r.block = t[p].block
        /\ r.pc = CASE t[p].kind = "read" -> "io" [] t[p].kind = "discard" -> "unmap" [] OTHER -> "decide"
    BY <1>1 DEF TaskState
  <2>3. r.pc \in {"io", "unmap", "decide"} /\ (r.kind = "write" => r.pc = "decide")
    BY <1>1, <2>2
  <2> HIDE DEF r
  <2>4. t'[p] = r
    BY <1>1, <2>1
  <2>5. ~Landed(t'[p]) /\ Asked(t'[p]) /\ Buffered(t[p])'
    BY <1>1, <2>2, <2>3, <2>4 DEF Landed, Asked, Buffered
  <2> QED
    BY <1>1, <2>5, AdvanceData DEF Recheck, mapVars, Advance
<1>3. CASE map[v] /= t[p].held
  BY <1>1, <1>3, FoundData DEF Recheck, Step, mapVars, Advance
<1> QED
  BY <1>2, <1>3

\* ReadSlot keeps the data.
LEMMA ReadSlotData == ASSUME IInv, CInv, DInv, NEW p \in Task, ReadSlot(p) PROVE DInv'
<1>1. t'[p] = Idle /\ ~Landed(t[p])
  BY Known DEF ReadSlot, Finish, Landed
<1> QED
  BY <1>1, FinishData DEF ReadSlot, mapVars, Advance

\* Decide keeps the data.
LEMMA DecideData == ASSUME IInv, CInv, DInv, NEW p \in Task, Decide(p) PROVE DInv'
<1>1. /\ t \in [Task -> TaskState] /\ t[p] \in TaskState /\ t[p].pc = "decide" /\ Asked(t[p])
      /\ t[p].kind = "write" /\ ~Landed(t[p]) /\ t[p].held \in Slot
  BY Known DEF Decide, Local, Form, Landed
<1>2. CASE t[p].refs = 1 /\ ~OnLeavingSlab(t[p].held)
  <2>1. t'[p] = [t[p] EXCEPT !.pc = "io"]
    BY <1>1, <1>2 DEF Decide, Step
  <2>2. /\ t'[p].kind = "write" /\ t'[p].pc = "io" /\ t'[p].held = t[p].held /\ t'[p].refs = t[p].refs
        /\ t'[p].block = t[p].block
    BY <1>1, <2>1 DEF TaskState
  <2>3. ~Landed(t'[p]) /\ Asked(t'[p]) /\ Buffered(t[p])'
    BY <1>1, <1>2, <2>2 DEF Landed, Asked, Buffered
  <2> QED
    BY <1>1, <2>3, AdvanceData DEF Decide, mapVars, Advance
<1>3. CASE ~(t[p].refs = 1 /\ ~OnLeavingSlab(t[p].held))
  <2>1. t'[p].pc \in {"copy", "lock"}
    BY <1>1, <1>3 DEF Decide, Step, TaskState
  <2> QED
    BY <1>1, <2>1, EarlyData DEF Decide, mapVars, Advance
<1> QED
  BY <1>2, <1>3

\* LockVolume keeps the data.
LEMMA LockVolumeData == ASSUME IInv, CInv, DInv, NEW p \in Task, LockVolume(p) PROVE DInv'
<1>1. t'[p].pc \in {"alone?", "lookup"} /\ ~Landed(t[p]) /\ t[p].kind /= "move"
  BY Known DEF LockVolume, Step, TaskState, Landed, Local
<1> QED
  BY <1>1, EarlyData DEF LockVolume, mapVars, Advance

\* DiscardAlone keeps the data.
LEMMA DiscardAloneData == ASSUME IInv, CInv, DInv, NEW p \in Task, DiscardAlone(p) PROVE DInv'
<1>1. /\ t \in [Task -> TaskState] /\ t[p] \in TaskState /\ t[p].kind = "discard"
      /\ t'[p] = [t[p] EXCEPT !.pc = IF refs[t[p].vol] > 1 THEN "done" ELSE "lookup"]
  BY Known DEF DiscardAlone, Local, Step
<1>2. t'[p].kind = "discard" /\ t'[p].pc \in {"done", "lookup"}
  BY <1>1 DEF TaskState
<1>3. ~Landed(t'[p]) /\ ~Landed(t[p]) /\ Asked(t'[p]) /\ Buffered(t[p])'
  BY <1>1, <1>2 DEF Landed, Asked, Buffered
<1> QED
  BY <1>3, AdvanceData DEF DiscardAlone, mapVars, Advance

\* SyncRefs keeps the data.
LEMMA SyncRefsData == ASSUME IInv, CInv, DInv, NEW p \in Task, SyncRefs(p) PROVE DInv'
<1>1. /\ t \in [Task -> TaskState] /\ t[p] \in TaskState /\ t[p].pc = "refs" /\ Asked(t[p])
      /\ t[p].kind \in {"write", "retier"} /\ t'[p] = [t[p] EXCEPT !.pc = "done"]
  BY Known DEF SyncRefs, Form, Step
<1>2. t'[p].kind = t[p].kind /\ t'[p].pc = "done" /\ t'[p].block = t[p].block
  BY <1>1 DEF TaskState
<1>3. (Landed(t'[p]) <=> Landed(t[p])) /\ Asked(t'[p]) /\ Buffered(t[p])'
  BY <1>1, <1>2 DEF Landed, Asked, Buffered
<1> QED
  BY <1>3, AdvanceData DEF SyncRefs, Advance

\* Exclusive keeps the data.
LEMMA ExclusiveData == ASSUME IInv, CInv, DInv, NEW p \in Task, Exclusive(p) PROVE DInv'
<1>1. /\ t \in [Task -> TaskState] /\ t[p] \in TaskState /\ t[p].pc = "exclusive"
      /\ t[p].kind = "move" /\ ~Landed(t[p])
  BY Known DEF Exclusive, Local, Landed
<1>2. CASE map[t[p].vol] = t[p].loc
  <2>1. t'[p] = [t[p] EXCEPT !.pc = "copy", !.held = t[p].loc, !.exclusive = TRUE]
    BY <1>1, <1>2 DEF Exclusive, Step
  <2>2. t'[p].kind = "move" /\ t'[p].pc = "copy" /\ t'[p].loc = t[p].loc /\ t'[p].vol = t[p].vol
    BY <1>1, <2>1 DEF TaskState
  <2>3. ~Landed(t'[p]) /\ Asked(t'[p]) /\ Buffered(t[p])'
    BY <1>2, <2>2 DEF Landed, Asked, Buffered, Exclusive, mapVars
  <2> QED
    BY <1>1, <2>3, AdvanceData DEF Exclusive, mapVars, Advance
<1>3. CASE map[t[p].vol] /= t[p].loc
  <2>1. t'[p] = Idle
    BY <1>1, <1>3 DEF Exclusive, Step
  <2> QED
    BY <1>1, <2>1, FinishData DEF Exclusive, mapVars, Advance
<1> QED
  BY <1>2, <1>3

\* CopySlot keeps the data.
LEMMA CopySlotData == ASSUME IInv, CInv, DInv, NEW p \in Task, CopySlot(p) PROVE DInv'
<1> DEFINE c == IF t[p].kind = "write" THEN [data[t[p].loc] EXCEPT ![t[p].block] = t[p].val]
                ELSE data[t[p].loc]
<1>1. /\ t \in [Task -> TaskState] /\ t[p] \in TaskState /\ t[p].pc = "copy" /\ Asked(t[p]) /\ Buffered(t[p])
      /\ t[p].kind \in {"write", "move", "retier"} /\ ~Landed(t[p]) /\ t[p].loc \in Slot
      /\ t'[p] = [t[p] EXCEPT !.pc = "alloc", !.buf = c]
  BY Known DEF CopySlot, Step, Local, Form, Landed
<1>2. t[p].kind = "write" => \A b \in Block : c[b] = IF b = t[p].block THEN t[p].val ELSE data[t[p].loc][b]
  <2>1. data[t[p].loc] \in Content
    BY <1>1, Split DEF RestOK
  <2> QED
    BY <2>1 DEF Content
<1>3. t[p].kind /= "write" => c = data[t[p].loc]
  OBVIOUS
<1> HIDE DEF c
<1>4. /\ t'[p].kind = t[p].kind /\ t'[p].pc = "alloc" /\ t'[p].loc = t[p].loc /\ t'[p].vol = t[p].vol
      /\ t'[p].buf = c /\ t'[p].block = t[p].block /\ t'[p].val = t[p].val
  BY <1>1 DEF TaskState
<1>5. ~Landed(t'[p]) /\ Asked(t'[p])
  BY <1>1, <1>4 DEF Landed, Asked
<1>6. Buffered(t[p])'
  BY <1>1, <1>2, <1>3, <1>4, SlotAssumption DEF Buffered, CopySlot, mapVars
<1> QED
  BY <1>1, <1>5, <1>6, AdvanceData DEF CopySlot, mapVars, Advance

\* Allocate keeps the data.
LEMMA AllocateData == ASSUME IInv, CInv, DInv, NEW p \in Task, Allocate(p) PROVE DInv'
<1> PICK s \in Room(p) : t' = [t EXCEPT ![p] = [t[p] EXCEPT !.pc = "fill", !.new = s]]
  BY DEF Allocate, Step
<1>1. /\ t \in [Task -> TaskState] /\ t[p] \in TaskState /\ t[p].pc = "alloc" /\ Asked(t[p]) /\ Buffered(t[p])
      /\ t[p].kind \in {"write", "move", "retier"} /\ ~Landed(t[p])
      /\ t'[p] = [t[p] EXCEPT !.pc = "fill", !.new = s]
  BY Known DEF Allocate, Form, Landed
<1>2. /\ t'[p].kind = t[p].kind /\ t'[p].pc = "fill" /\ t'[p].loc = t[p].loc /\ t'[p].vol = t[p].vol
      /\ t'[p].buf = t[p].buf /\ t'[p].block = t[p].block /\ t'[p].val = t[p].val
  BY <1>1 DEF TaskState
<1>3. ~Landed(t'[p]) /\ Asked(t'[p]) /\ UNCHANGED <<map, live, data, last>>
  BY <1>1, <1>2 DEF Landed, Asked, Allocate, mapVars
<1>4. Buffered(t[p])'
  BY <1>1, <1>2, <1>3 DEF Buffered
<1> QED
  BY <1>1, <1>3, <1>4, AdvanceData DEF Advance

\* NoSpace keeps the data.
LEMMA NoSpaceData == ASSUME IInv, CInv, DInv, NEW p \in Task, NoSpace(p) PROVE DInv'
<1>1. /\ t \in [Task -> TaskState] /\ t[p] \in TaskState /\ t[p].pc = "alloc" /\ Asked(t[p]) /\ Form(t[p])
      /\ ~Landed(t[p])
  BY Known DEF NoSpace, Landed
<1>2. CASE t[p].kind = "write" /\ t[p].loc /= None /\ t[p].refs = 1
  <2>1. t'[p] = [t[p] EXCEPT !.pc = "io"]
    BY <1>1, <1>2 DEF NoSpace, Step
  <2>2. /\ t'[p].kind = "write" /\ t'[p].pc = "io" /\ t'[p].held = t[p].held /\ t'[p].refs = t[p].refs
        /\ t'[p].block = t[p].block
    BY <1>1, <1>2, <2>1 DEF TaskState
  <2>3. t[p].held \in Slot
    BY <1>1, <1>2 DEF Form, TaskState
  <2>4. ~Landed(t'[p]) /\ Asked(t'[p]) /\ Buffered(t[p])'
    BY <1>1, <1>2, <2>2, <2>3 DEF Landed, Asked, Buffered
  <2> QED
    BY <1>1, <2>4, AdvanceData DEF NoSpace, mapVars, Advance
<1>3. CASE ~(t[p].kind = "write" /\ t[p].loc /= None /\ t[p].refs = 1)
  <2>1. t'[p] = Idle
    BY <1>1, <1>3 DEF NoSpace, Finish
  <2> QED
    BY <1>1, <2>1, FinishData DEF NoSpace, mapVars, Advance
<1> QED
  BY <1>2, <1>3

\* Fill keeps the data: its slot is nobody else's.
LEMMA FillData == ASSUME IInv, CInv, DInv, NEW p \in Task, Fill(p) PROVE DInv'
<1> DEFINE n == t[p].new
           next == IF t[p].kind = "move" THEN "publish" ELSE "remap"
<1>1. /\ t \in [Task -> TaskState] /\ t[p] \in TaskState /\ t[p].pc = "fill" /\ Asked(t[p]) /\ Buffered(t[p])
      /\ t[p].kind \in {"write", "move", "retier"} /\ ~Landed(t[p]) /\ Form(t[p]) /\ Placed(t[p]) /\ Local(t[p])
      /\ t'[p] = [t[p] EXCEPT !.pc = next]
  BY Known DEF Fill, Step, Form, Landed
<1>2. next \in {"publish", "remap"} /\ (next = "publish" <=> t[p].kind = "move")
  OBVIOUS
<1> HIDE DEF next
<1>3. /\ t'[p].kind = t[p].kind /\ t'[p].pc = next /\ t'[p].loc = t[p].loc /\ t'[p].vol = t[p].vol
      /\ t'[p].buf = t[p].buf /\ t'[p].block = t[p].block /\ t'[p].val = t[p].val /\ t'[p].new = n
  BY <1>1 DEF TaskState
<1>4. /\ n \in Slot /\ data \in [Slot -> Content] /\ data' = [data EXCEPT ![n] = t[p].buf]
      /\ UNCHANGED <<live, map, last>> /\ t[p].vol \in Volume
  BY <1>1, Split DEF Fill, mapVars, RestOK, Local
<1>5. \A v \in Volume : map[v] /= n
  BY <1>1, NewsDiffer
<1>6. ASSUME NEW s \in Slot, InUse(s) PROVE data'[s] = data[s]
  <2>1. s /= n
    <3>1. ASSUME NEW q \in Task, t[q].pc \in {"remap", "publish"}, t[q].new = s PROVE s /= n
      <4>1. q /= p /\ Claims(t[p], n)
        BY <1>1, <3>1 DEF Claims
      <4> QED
        BY <1>4, <3>1, <4>1, NewsDiffer
    <3> QED
      BY <1>5, <1>6, <3>1 DEF InUse
  <2> QED
    BY <1>4, <2>1
<1>7. ~Landed(t'[p]) /\ Asked(t'[p])
  BY <1>1, <1>2, <1>3 DEF Landed, Asked
<1>8. Buffered(t[p])'
  <2>1. data'[n] = t[p].buf
    BY <1>4
  <2>2. t[p].kind = "write" => map[t[p].vol] = t[p].loc
    BY <1>1 DEF Placed, Form
  <2>3. t[p].loc /= None /\ map[t[p].vol] = t[p].loc => data'[t[p].loc] = data[t[p].loc]
    BY <1>1, <1>4, <1>6 DEF InUse, TaskState
  <2>4. t[p].kind \in {"move", "retier"} => t[p].loc \in Slot /\ t[p].loc /= None
    BY <1>1, SlotAssumption DEF Local
  <2>5. t[p].kind = "retier" => map[t[p].vol] = t[p].loc
    BY <1>1 DEF Placed
  <2> QED
    BY <1>1, <1>2, <1>3, <1>4, <2>1, <2>2, <2>3, <2>4, <2>5 DEF Buffered
<1> QED
  BY <1>1, <1>4, <1>6, <1>7, <1>8, AdvanceData DEF Advance

\* FillError keeps the data.
LEMMA FillErrorData == ASSUME IInv, CInv, DInv, NEW p \in Task, FillError(p) PROVE DInv'
<1>1. t'[p] = Idle /\ ~Landed(t[p])
  BY Known DEF FillError, Finish, Landed
<1> QED
  BY <1>1, FinishData DEF FillError, mapVars, Advance

\* Release keeps the data: a slot that is named or filled is not the one whose
\* last share goes.
LEMMA ReleaseData == ASSUME IInv, CInv, DInv, NEW p \in Task, Release(p) PROVE DInv'
<1> DEFINE s == t[p].loc
<1>1. /\ t \in [Task -> TaskState] /\ t[p] \in TaskState /\ t[p].pc = "release" /\ Asked(t[p]) /\ s \in Slot
      /\ t[p].kind \in {"write", "discard", "retier"} /\ Claims(t[p], s)
  BY Known DEF Release, Form, Local, Claims
<1>2. s \notin owed /\ count[s] >= 1 /\ p \in InFlight(s) /\ data \in [Slot -> Content] /\ count[s] \in Nat
  BY <1>1, ClaimedIsOwned, Split DEF RestOK
<1>3. /\ UNCHANGED <<live, map, last>> /\ Retire(s, count[s] - 1)
      /\ t'[p] = [t[p] EXCEPT !.pc = IF t[p].kind = "discard" \/ count[s] = 1 THEN "done" ELSE "refs",
                              !.shares = count[s] - 1, !.of = owner[s]]
  BY <1>1, <1>2 DEF Release, Step, mapVars
<1>4. ASSUME NEW x \in Slot, InUse(x) PROVE data'[x] = data[x]
  <2>1. CASE x = s /\ count[s] = 1
    <3>1. Names(s) = {} /\ InFlight(s) = {p}
      <4>1. count[s] = Cardinality(Names(s)) + Cardinality(InFlight(s))
        BY <1>1, <1>2 DEF CInv, Counted
      <4> HIDE DEF s
      <4>2. /\ IsFiniteSet(InFlight(s) \ {p})
            /\ Cardinality(InFlight(s) \ {p}) = Cardinality(InFlight(s)) - 1
            /\ Cardinality(InFlight(s) \ {p}) \in Nat
        BY <1>2, FiniteCounted, FS_RemoveElement, FS_CardinalityType
      <4>3. Cardinality(Names(s)) = 0 /\ Cardinality(InFlight(s) \ {p}) = 0
        BY <2>1, <4>1, <4>2, FiniteCounted
      <4>4. Names(s) = {} /\ InFlight(s) \ {p} = {}
        BY <4>2, <4>3, FiniteCounted, FS_EmptySet
      <4> QED
        BY <1>2, <4>4
    <3>2. \A q \in Task : t[q].pc \in {"remap", "publish"} => t[q].new /= s
      BY <1>1, <3>1 DEF InFlight, Claims
    <3> QED
      BY <1>4, <2>1, <3>1, <3>2 DEF InUse, Names
  <2>2. CASE ~(x = s /\ count[s] = 1)
    BY <1>2, <1>3, <2>2 DEF Retire
  <2> QED
    BY <2>1, <2>2
<1>5. t'[p].kind = t[p].kind /\ t'[p].pc \in {"done", "refs"} /\ t'[p].block = t[p].block
  <2> DEFINE next == IF t[p].kind = "discard" \/ count[s] = 1 THEN "done" ELSE "refs"
  <2>1. next \in {"done", "refs"} /\ t'[p] = [t[p] EXCEPT !.pc = next, !.shares = count[s] - 1, !.of = owner[s]]
    BY <1>3
  <2> HIDE DEF next
  <2> QED
    BY <1>1, <2>1 DEF TaskState
<1>6. (Landed(t'[p]) <=> Landed(t[p])) /\ Asked(t'[p]) /\ Buffered(t[p])'
  BY <1>1, <1>5 DEF Landed, Asked, Buffered
<1> QED
  BY <1>3, <1>4, <1>6, AdvanceData DEF Advance

\* The registers that say what a task has read and written.
Alike(r, q) ==
    /\ r.pc = q.pc /\ r.kind = q.kind /\ r.vol = q.vol /\ r.block = q.block /\ r.val = q.val
    /\ r.loc = q.loc /\ r.refs = q.refs /\ r.held = q.held /\ r.new = q.new /\ r.buf = q.buf

\* What another task has read is right still, when the slots it depends on and
\* the map its move goes by have not changed.
LEMMA BufferStays ==
    ASSUME IInv, CInv, DInv, NEW q \in Task, Alike(t'[q], t[q]),
           t[q].kind \in {"write", "retier"} /\ t[q].pc \in {"alloc", "fill", "remap"} /\ t[q].loc \in Slot
               => data'[t[q].loc] = data[t[q].loc],
           t[q].kind = "move" /\ t[q].pc /= "exclusive" /\ map'[t[q].vol] = t[q].loc
               => map[t[q].vol] = t[q].loc /\ data'[t[q].loc] = data[t[q].loc],
           t[q].kind = "move" /\ t[q].pc /= "exclusive" /\ map[t[q].vol] = t[q].loc
               => map'[t[q].vol] = t[q].loc \/ t[q].vol \notin live',
           t[q].kind = "move" /\ t[q].vol \notin live => t[q].vol \notin live',
           t[q].pc \in {"remap", "publish"} => data'[t[q].new] = data[t[q].new]
    PROVE  (Asked(t[q]) /\ Buffered(t[q]))'
<1>1. Asked(t[q]) /\ Buffered(t[q]) /\ t[q] \in TaskState /\ Local(t[q])
  BY Known
<1>2. Asked(t[q])'
  BY <1>1 DEF Asked, Alike
<1>3. t[q].kind = "retier" => t[q].loc \in Slot
  BY <1>1 DEF Local
<1>4. t[q].loc = None \/ t[q].loc \in Slot
  BY <1>1 DEF TaskState
<1>5. Buffered(t[q])'
  BY <1>1, <1>3, <1>4 DEF Buffered, Alike
<1> QED
  BY <1>2, <1>5

\* A block reads the same, and the same write has landed on it.
LEMMA LatestStays ==
    ASSUME NEW v, NEW b, Latest(v, b), Through(v, b)' = Through(v, b), last'[v][b] = last[v][b],
           \A q \in Task : /\ Landed(t'[q]) <=> Landed(t[q])
                           /\ Landed(t[q]) => t'[q].vol = t[q].vol /\ t'[q].block = t[q].block /\ t'[q].val = t[q].val
    PROVE  Latest(v, b)'
  BY DEF Latest, Landed

\* Requests stay apart when every task has the request it had, or none.
LEMMA ApartStays ==
    ASSUME DInv, \A q \in Task : Successor(t'[q], t[q])
    PROVE  \A p, q \in Task : p /= q => Apart(t[p], t[q])'
<1> SUFFICES ASSUME NEW p \in Task, NEW q \in Task, p /= q PROVE Apart(t'[p], t'[q])
  BY DEF Apart
<1>1. Apart(t[p], t[q])
  BY DEF DInv
<1> QED
  BY <1>1 DEF Apart, Successor, Idle

\* A task that has ended has nothing to keep.
LEMMA IdleBuffered == ASSUME NEW p \in Task, t'[p] = Idle PROVE (Asked(t[p]) /\ Buffered(t[p]))' /\ ~Landed(t'[p])
  BY DEF Asked, Buffered, Idle, Landed

\* A slot whose volume is alone on it is no copy's new slot and no other
\* volume's.
LEMMA WriteInPlaceData ==
    ASSUME IInv, CInv, DInv, AInv, overtaken = {}, RetiersAlone, CopiesAlone, NEW p \in Task, WriteInPlace(p)
    PROVE  DInv'
<1> DEFINE s == t[p].held
           v == t[p].vol
           b == t[p].block
<1>1. /\ t \in [Task -> TaskState] /\ t[p].pc = "io" /\ t[p].kind = "write" /\ v \in Volume /\ b \in Block
      /\ s \in Slot /\ t[p].refs = 1 /\ t[p].val \in Nat /\ v \in live
  BY Known DEF WriteInPlace, Local, Asked, TaskState, Placed
<1>2. /\ data' = [data EXCEPT ![s][b] = t[p].val] /\ data \in [Slot -> Content]
      /\ last' = [last EXCEPT ![v][b] = t[p].val] /\ last \in [Volume -> Content]
      /\ t' = [t EXCEPT ![p] = Idle] /\ UNCHANGED <<live, map>>
      /\ live \in SUBSET Volume /\ map \in [Volume -> Slot \cup {None}]
  BY Split DEF WriteInPlace, Acknowledge, Finish, mapVars, RestOK
<1>3. map[v] = s /\ \A w \in Volume : map[w] = s => w = v
  <2>1. Alone(v)
    BY <1>1 DEF AInv
  <2> QED
    BY <1>1, <2>1, SlotAssumption DEF CopiesAlone, Alone
<1>4. \A x \in Slot : x /= s => data'[x] = data[x]
  BY <1>2
<1>5. /\ data'[s] \in Content /\ data'[s][b] = t[p].val
      /\ \A c \in Block : c /= b => data'[s][c] = data[s][c]
  BY <1>1, <1>2 DEF Content
<1>6. \A q \in Task : q /= p => t'[q] = t[q]
  BY <1>1, <1>2
<1>7. t'[p] = Idle
  BY <1>1, <1>2
<1> HIDE DEF s, v, b
<1>8. ASSUME NEW q \in Task, q /= p PROVE (Asked(t[q]) /\ Buffered(t[q]))'
  <2>1. t'[q] = t[q] /\ Placed(t[q]) /\ Local(t[q]) /\ Form(t[q]) /\ Buffered(t[q])
    BY <1>6, <1>8, Known
  <2>2. t[q].kind = "write" /\ t[q].pc \in {"alloc", "fill", "remap"} => t[q].loc /= s
    <3>1. SUFFICES ASSUME t[q].kind = "write", t[q].pc \in {"alloc", "fill", "remap"}, t[q].loc = s PROVE FALSE
      OBVIOUS
    <3>2. map[t[q].vol] = s /\ t[q].vol \in Volume
      BY <2>1, <3>1 DEF Placed, Form, Local
    <3>3. t[q].vol = v
      BY <1>3, <3>2
    <3> QED
      BY <1>1, <1>8, <3>1, <3>3 DEF CopiesAlone, s, v
  <2>3. t[q].kind = "retier" /\ t[q].pc \in {"alloc", "fill", "remap"} => t[q].loc /= s
    <3>1. SUFFICES ASSUME t[q].kind = "retier", t[q].pc \in {"alloc", "fill", "remap"}, t[q].loc = s PROVE FALSE
      OBVIOUS
    <3>2. map[t[q].vol] = s /\ t[q].vol \in Volume
      BY <2>1, <3>1 DEF Placed, Local
    <3>3. t[q].vol = v
      BY <1>3, <3>2
    <3> QED
      BY <1>1, <3>1, <3>3 DEF RetiersAlone, v
  <2>4. t[q].kind = "move" /\ t[q].pc /= "exclusive" => t[q].loc /= s /\ t[q].loc \in Slot
    <3>1. SUFFICES ASSUME t[q].kind = "move", t[q].pc /= "exclusive" PROVE t[q].loc /= s /\ t[q].loc \in Slot
      OBVIOUS
    <3>2. t[q].exclusive /\ t[q].held = t[q].loc /\ t[q].loc \in Slot
      BY <2>1, <3>1 DEF Form, Local
    <3> QED
      BY <1>8, <3>2 DEF IInv, Exclusion, s
  <2>5. t[q].pc \in {"remap", "publish"} => t[q].new \in Slot /\ t[q].new /= s
    BY <1>1, <1>3, NewsDiffer, NewIsPrivate
  <2>6. Alike(t'[q], t[q])
    BY <2>1 DEF Alike
  <2> QED
    BY <1>2, <1>4, <2>2, <2>3, <2>4, <2>5, <2>6, BufferStays
<1>9. ASSUME NEW u \in live, NEW c \in Block PROVE Latest(u, c)'
  <2>1. Latest(u, c) /\ u \in Volume
    BY <1>2 DEF DInv
  <2>2. \A q \in Task : q /= p => /\ Landed(t'[q]) <=> Landed(t[q])
                                  /\ t'[q].vol = t[q].vol /\ t'[q].block = t[q].block /\ t'[q].val = t[q].val
    BY <1>6
  <2>3. ~Landed(t'[p]) /\ ~Landed(t[p])
    BY <1>1, <1>7 DEF Landed, Idle
  <2>4. CASE u = v /\ c = b
    <3>1. \A q \in Task : Landed(t[q]) /\ t[q].vol = v => t[q].block /= b
      <4>1. SUFFICES ASSUME NEW q \in Task, Landed(t[q]), t[q].vol = v PROVE t[q].block /= b
        OBVIOUS
      <4>2. q /= p /\ t[q].kind = "write"
        BY <2>3, <4>1 DEF Landed
      <4>3. Apart(t[p], t[q])
        BY <4>2 DEF DInv
      <4> QED
        BY <1>1, <4>1, <4>2, <4>3 DEF Apart, v, b
    <3>2. \A q \in Task : Landed(t'[q]) /\ t'[q].vol = v => t'[q].block /= b
      BY <2>2, <2>3, <3>1
    <3>3. Through(u, c)' = t[p].val
      BY <1>1, <1>2, <1>3, <1>5, <2>4, SlotAssumption DEF Through
    <3>4. last'[u][c] = t[p].val
      BY <1>1, <1>2, <2>4 DEF Content
    <3> QED
      BY <2>4, <3>2, <3>3, <3>4 DEF Latest, Landed
  <2>5. CASE ~(u = v /\ c = b)
    <3>1. last'[u][c] = last[u][c]
      BY <1>1, <1>2, <2>1, <2>5 DEF Content
    <3>2. Through(u, c)' = Through(u, c)
      <4>1. CASE u = v
        <5>1. c /= b /\ map'[u] = s /\ map[u] = s
          BY <1>2, <1>3, <2>5, <4>1
        <5> QED
          BY <1>5, <5>1 DEF Through
      <4>2. CASE u /= v
        <5>1. map[u] /= s /\ map'[u] = map[u] /\ map[u] \in Slot \cup {None}
          BY <1>2, <1>3, <2>1, <4>2
        <5> QED
          BY <1>4, <5>1 DEF Through
      <4> QED
        BY <4>1, <4>2
    <3> QED
      BY <2>1, <2>2, <2>3, <3>1, <3>2, LatestStays
  <2> QED
    BY <2>4, <2>5
<1>10. \A a, q \in Task : a /= q => Apart(t[a], t[q])'
  BY <1>6, <1>7, ApartStays DEF Successor
<1>11. \A q \in Task : (Asked(t[q]) /\ Buffered(t[q]))'
  BY <1>7, <1>8, IdleBuffered
<1> QED
  BY <1>2, <1>9, <1>10, <1>11 DEF DInv

\* A task that has its volume's slot for itself meets no move of that volume.
LEMMA NoMoveBeside ==
    ASSUME IInv, CInv, DInv, RetiersAlone, NEW p \in Task, NEW q \in Task, q /= p,
           t[p].kind \in {"write", "discard", "retier"}, t[p].vol \in live, map[t[p].vol] = t[p].loc,
           t[p].kind = "retier" \/ t[p].held = t[p].loc,
           t[q].kind = "move", t[q].pc /= "exclusive"
    PROVE  t[q].vol /= t[p].vol /\ t[q].loc /= t[p].loc
<1>1. /\ t[q].exclusive /\ t[q].held = t[q].loc
      /\ map[t[q].vol] = t[q].loc \/ t[q].vol \notin live
  BY Known DEF Form, Local, Buffered
<1>2. t[p].kind = "retier" => t[q].loc /= t[p].loc
  BY DEF RetiersAlone
<1>3. t[p].kind /= "retier" => t[q].loc /= t[p].loc
  BY <1>1 DEF IInv, Exclusion
<1> QED
  BY <1>1, <1>2, <1>3

\* Remap keeps the data: the new slot reads as the old one did, with the write.
LEMMA RemapData ==
    ASSUME IInv, CInv, DInv, RetiersAlone, NEW p \in Task, Remap(p) PROVE DInv'
<1> DEFINE v == t[p].vol
           n == t[p].new
           l == t[p].loc
           r == IF l = None THEN Idle ELSE [t[p] EXCEPT !.pc = "release"]
<1>1. /\ t \in [Task -> TaskState] /\ t[p] \in TaskState /\ Local(t[p]) /\ Form(t[p]) /\ Placed(t[p])
      /\ t[p].pc = "remap" /\ Buffered(t[p]) /\ Asked(t[p])
  BY Known DEF Remap
<1>2. /\ map \in [Volume -> Slot \cup {None}] /\ last \in [Volume -> Content] /\ live \in SUBSET Volume
      /\ t' = [t EXCEPT ![p] = r] /\ map' = [map EXCEPT ![v] = n] /\ UNCHANGED <<live, data>>
      /\ last' = IF l = None THEN [last EXCEPT ![v][t[p].block] = t[p].val] ELSE last
  BY Split DEF Remap, Step, Finish, Acknowledge, RestOK
<1>3. /\ v \in Volume /\ v \in live /\ map[v] = l /\ l \in Slot \cup {None} /\ n \in Slot /\ n /= None
      /\ t[p].kind \in {"write", "retier"} /\ (t[p].kind = "retier" \/ t[p].held = l)
      /\ (t[p].kind = "retier" => l /= None)
  BY <1>1, SlotAssumption DEF Local, Form, Placed, TaskState
<1>4. /\ r.pc \in {"idle", "release"} /\ (l = None => r = Idle)
      /\ l /= None => r.pc = "release" /\ r.kind = t[p].kind /\ r.vol = v /\ r.block = t[p].block /\ r.val = t[p].val
  BY <1>1 DEF TaskState, Idle
<1>5. /\ t[p].kind = "write" => t[p].block \in Block
      /\ \A c \in Block : data[n][c] = IF t[p].kind = "write" /\ c = t[p].block THEN t[p].val
                                      ELSE Through(v, c)
  BY <1>1, <1>3 DEF Buffered, Through, Asked
<1> HIDE DEF r, v, n, l
<1>6. t'[p] = r /\ \A q \in Task : q /= p => t'[q] = t[q]
  BY <1>1, <1>2
<1>7. \A u \in live, c \in Block : u = v => Through(u, c)' = data[n][c]
  BY <1>2, <1>3 DEF Through
<1>8. \A u \in live, c \in Block : u /= v => Through(u, c)' = Through(u, c)
  BY <1>2, <1>3 DEF Through
<1>9. ASSUME NEW q \in Task, q /= p PROVE (Asked(t[q]) /\ Buffered(t[q]))'
  <2>1. t'[q] = t[q] /\ Alike(t'[q], t[q])
    BY <1>6, <1>9 DEF Alike
  <2>2. t[q].kind = "move" /\ t[q].pc /= "exclusive" => t[q].vol /= v
    BY <1>3, <1>9, NoMoveBeside DEF v, l
  <2>3. t[q].kind = "move" /\ t[q].pc /= "exclusive" => map'[t[q].vol] = map[t[q].vol]
    BY <1>2, <2>2
  <2> QED
    BY <1>2, <2>1, <2>3, BufferStays
<1>10. (Asked(t[p]) /\ Buffered(t[p]))'
  <2>1. t'[p] = Idle \/ (t'[p].pc = "release" /\ t'[p].kind = t[p].kind /\ t'[p].block = t[p].block)
    BY <1>4, <1>6
  <2>2. t'[p] = Idle => (Asked(t[p]) /\ Buffered(t[p]))'
    BY IdleBuffered
  <2>3. CASE t'[p].pc = "release" /\ t'[p].kind = t[p].kind /\ t'[p].block = t[p].block
    BY <1>1, <1>3, <2>3 DEF Asked, Buffered
  <2> QED
    BY <2>1, <2>2, <2>3
<1>11. \A a, q \in Task : a /= q => Apart(t[a], t[q])'
  <2>1. \A q \in Task : Successor(t'[q], t[q])
    BY <1>4, <1>6 DEF Successor, v
  <2> QED
    BY <2>1, ApartStays
<1>12. ASSUME NEW u \in live, NEW c \in Block PROVE Latest(u, c)'
  <2>1. Latest(u, c) /\ u \in Volume
    BY <1>2 DEF DInv
  <2>2. \A q \in Task : q /= p => /\ Landed(t'[q]) <=> Landed(t[q])
                                  /\ t'[q].vol = t[q].vol /\ t'[q].block = t[q].block /\ t'[q].val = t[q].val
    BY <1>6
  <2>3. /\ ~Landed(t[p])
        /\ Landed(t'[p]) => /\ t[p].kind = "write" /\ l /= None
                            /\ t'[p].vol = v /\ t'[p].block = t[p].block /\ t'[p].val = t[p].val
    BY <1>1, <1>4, <1>6 DEF Landed, Idle
  <2>4. t[p].kind = "write" /\ l /= None => Landed(t'[p])
    BY <1>4, <1>6 DEF Landed
  <2>5. CASE u = v /\ t[p].kind = "write" /\ c = t[p].block
    <3>1. \A q \in Task : q /= p /\ Landed(t'[q]) /\ t'[q].vol = v => t'[q].block /= c
      <4>1. SUFFICES ASSUME NEW q \in Task, q /= p, Landed(t[q]), t[q].vol = v PROVE t[q].block /= c
        BY <1>6
      <4>2. Apart(t[p], t[q]) /\ t[q].kind = "write"
        BY <4>1 DEF DInv, Landed
      <4> QED
        BY <2>5, <4>1, <4>2 DEF Apart, v
    <3>2. Through(u, c)' = t[p].val
      BY <1>5, <1>7, <2>5
    <3>3. l = None => last'[u][c] = t[p].val
      BY <1>2, <1>3, <2>5 DEF Content
    <3>4. \A q \in Task : Landed(t'[q]) /\ t'[q].vol = v /\ t'[q].block = c => t'[q].val = t[p].val
      BY <2>3, <3>1
    <3>5. l /= None => Landed(t'[p]) /\ t'[p].vol = v /\ t'[p].block = c
      BY <2>3, <2>4, <2>5
    <3> QED
      BY <2>5, <3>2, <3>3, <3>4, <3>5 DEF Latest, Landed
  <2>6. CASE ~(u = v /\ t[p].kind = "write" /\ c = t[p].block)
    <3>1. Through(u, c)' = Through(u, c)
      BY <1>5, <1>7, <1>8, <2>6
    <3>2. last'[u][c] = last[u][c]
      BY <1>2, <1>3, <1>5, <2>1, <2>6 DEF Content
    <3>3. \A q \in Task : Landed(t'[q]) /\ t'[q].vol = u /\ t'[q].block = c
                            <=> Landed(t[q]) /\ t[q].vol = u /\ t[q].block = c
      BY <2>2, <2>3, <2>6
    <3>4. \A q \in Task : Landed(t[q]) => t'[q].val = t[q].val
      BY <2>2, <2>3
    <3> QED
      BY <2>1, <3>1, <3>2, <3>3, <3>4 DEF Latest, Landed
  <2> QED
    BY <2>5, <2>6
<1>13. \A q \in Task : (Asked(t[q]) /\ Buffered(t[q]))'
  BY <1>9, <1>10
<1> QED
  BY <1>2, <1>11, <1>12, <1>13 DEF DInv

\* Unmap keeps the data: the volume reads as zeroes, and is acknowledged so.
LEMMA UnmapData ==
    ASSUME IInv, CInv, DInv, RetiersAlone, NEW p \in Task, Unmap(p) PROVE DInv'
<1> DEFINE v == t[p].vol
           r == [t[p] EXCEPT !.pc = "release"]
<1>1. /\ t \in [Task -> TaskState] /\ t[p] \in TaskState /\ Local(t[p]) /\ Form(t[p]) /\ Placed(t[p])
      /\ t[p].pc = "unmap" /\ t[p].kind = "discard" /\ t[p].held = t[p].loc /\ map[v] = t[p].loc
      /\ v \in Volume /\ v \in live
  BY Known DEF Unmap, Form, Placed, Local
<1>2. /\ map \in [Volume -> Slot \cup {None}] /\ last \in [Volume -> Content] /\ live \in SUBSET Volume
      /\ t' = [t EXCEPT ![p] = r] /\ map' = [map EXCEPT ![v] = None] /\ UNCHANGED <<live, data>>
      /\ last' = [last EXCEPT ![v] = Zeroes]
  BY Split DEF Unmap, Step, RestOK
<1>3. r.pc = "release" /\ r.kind = "discard" /\ r.vol = v /\ r.block = t[p].block /\ r.val = t[p].val
  BY <1>1 DEF TaskState
<1> HIDE DEF r, v
<1>4. t'[p] = r /\ \A q \in Task : q /= p => t'[q] = t[q]
  BY <1>1, <1>2
<1>5. ASSUME NEW q \in Task, q /= p PROVE (Asked(t[q]) /\ Buffered(t[q]))'
  <2>1. t'[q] = t[q] /\ Alike(t'[q], t[q])
    BY <1>4, <1>5 DEF Alike
  <2>2. t[q].kind = "move" /\ t[q].pc /= "exclusive" => t[q].vol /= v
    BY <1>1, <1>5, NoMoveBeside DEF v
  <2>3. t[q].kind = "move" /\ t[q].pc /= "exclusive" => map'[t[q].vol] = map[t[q].vol]
    BY <1>2, <2>2
  <2> QED
    BY <1>2, <2>1, <2>3, BufferStays
<1>6. (Asked(t[p]) /\ Buffered(t[p]))' /\ ~Landed(t[p]) /\ ~Landed(t'[p])
  BY <1>1, <1>3, <1>4 DEF Asked, Buffered, Landed
<1>7. \A a, q \in Task : a /= q => Apart(t[a], t[q])'
  <2>1. \A q \in Task : Successor(t'[q], t[q])
    BY <1>1, <1>3, <1>4 DEF Successor, v
  <2> QED
    BY <2>1, ApartStays
<1>8. ASSUME NEW u \in live, NEW c \in Block PROVE Latest(u, c)'
  <2>1. Latest(u, c) /\ u \in Volume
    BY <1>2 DEF DInv
  <2>2. \A q \in Task : /\ Landed(t'[q]) <=> Landed(t[q])
                        /\ Landed(t[q]) => t'[q].vol = t[q].vol /\ t'[q].block = t[q].block /\ t'[q].val = t[q].val
    BY <1>4, <1>6
  <2>3. CASE u = v
    <3>1. \A q \in Task : Landed(t[q]) => t[q].vol /= v
      BY <1>1, <1>6 DEF DInv, Apart, Landed, v
    <3>2. Through(u, c)' = 0 /\ last'[u][c] = 0
      BY <1>1, <1>2, <2>3 DEF Through, Zeroes
    <3> QED
      BY <2>2, <2>3, <3>1, <3>2 DEF Latest, Landed
  <2>4. CASE u /= v
    <3>1. Through(u, c)' = Through(u, c) /\ last'[u][c] = last[u][c]
      BY <1>2, <2>1, <2>4 DEF Through
    <3> QED
      BY <2>1, <2>2, <3>1, LatestStays
  <2> QED
    BY <2>3, <2>4
<1>9. \A q \in Task : (Asked(t[q]) /\ Buffered(t[q]))'
  BY <1>5, <1>6
<1> QED
  BY <1>2, <1>7, <1>8, <1>9 DEF DInv

\* Publish keeps the data: the copy reads as the source.
LEMMA PublishData ==
    ASSUME IInv, CInv, DInv, RetiersAlone, NEW p \in Task, Publish(p) PROVE DInv'
<1> DEFINE l == t[p].loc
           n == t[p].new
<1>1. /\ t \in [Task -> TaskState] /\ t[p].pc = "publish" /\ t[p].kind = "move" /\ t' = [t EXCEPT ![p] = Idle]
      /\ l \in Slot /\ n \in Slot /\ Buffered(t[p]) /\ t[p].vol \in Volume
      /\ UNCHANGED <<live, data, last>> /\ map \in [Volume -> Slot \cup {None}] /\ live \in SUBSET Volume
  BY Known, Split DEF Publish, Finish, Local, RestOK
<1>2. t'[p] = Idle /\ (\A q \in Task : q /= p => t'[q] = t[q]) /\ ~Landed(t[p])
  BY <1>1 DEF Landed
<1>3. CASE ~(map[t[p].vol] = l /\ count[l] > 0)
  <2>1. UNCHANGED map
    BY <1>3 DEF Publish
  <2> QED
    BY <1>1, <1>2, <2>1, FinishData DEF Advance
<1>4. CASE map[t[p].vol] = l /\ count[l] > 0
  <2>1. map' = [u \in Volume |-> IF map[u] = l THEN n ELSE map[u]]
    BY <1>4 DEF Publish
  <2>2. data[n] = data[l] /\ l /= None /\ n /= None
    BY <1>1, <1>4, SlotAssumption DEF Buffered
  <2>3. \A u \in Volume : map[u] /= n
    BY <1>1, NewsDiffer
  <2>4. \A q \in Task : q /= p => t[q].held /= l
    BY <1>1, <1>4, SourceIsMapped
  <2> HIDE DEF l, n
  <2>5. ASSUME NEW q \in Task, q /= p PROVE (Asked(t[q]) /\ Buffered(t[q]))'
    <3>1. t'[q] = t[q] /\ Alike(t'[q], t[q])
      BY <1>2, <2>5 DEF Alike
    <3>2. t[q].kind = "move" /\ t[q].pc /= "exclusive" => map'[t[q].vol] = map[t[q].vol]
      <4>1. SUFFICES ASSUME t[q].kind = "move", t[q].pc /= "exclusive" PROVE map'[t[q].vol] = map[t[q].vol]
        OBVIOUS
      <4>2. /\ t[q].held = t[q].loc /\ t[q].vol \in Volume
            /\ map[t[q].vol] = t[q].loc \/ map[t[q].vol] = None
        BY <4>1, Known DEF Form, Local, Buffered, CInv
      <4>3. t[q].loc /= l
        BY <2>4, <2>5, <4>2
      <4> QED
        BY <2>1, <2>2, <4>2, <4>3
    <3> QED
      BY <1>1, <3>1, <3>2, BufferStays
  <2>6. ASSUME NEW u \in live, NEW c \in Block PROVE Latest(u, c)'
    <3>1. Latest(u, c) /\ u \in Volume
      BY <1>1 DEF DInv
    <3>2. Through(u, c)' = Through(u, c)
      BY <1>1, <2>1, <2>2, <3>1 DEF Through
    <3>3. \A q \in Task : /\ Landed(t'[q]) <=> Landed(t[q])
                          /\ Landed(t[q]) => t'[q].vol = t[q].vol /\ t'[q].block = t[q].block /\ t'[q].val = t[q].val
      BY <1>2 DEF Landed, Idle
    <3> QED
      BY <1>1, <3>1, <3>2, <3>3, LatestStays
  <2>7. \A a, q \in Task : a /= q => Apart(t[a], t[q])'
    BY <1>2, ApartStays DEF Successor
  <2>8. \A q \in Task : (Asked(t[q]) /\ Buffered(t[q]))'
    BY <1>2, <2>5, IdleBuffered
  <2> QED
    BY <1>1, <2>6, <2>7, <2>8 DEF DInv
<1> QED
  BY <1>3, <1>4

\* Done keeps the data: what landed is acknowledged.
LEMMA DoneData == ASSUME IInv, CInv, DInv, NEW p \in Task, Done(p) PROVE DInv'
<1> DEFINE v == t[p].vol
           b == t[p].block
<1>1. /\ t \in [Task -> TaskState] /\ t[p].pc = "done" /\ t' = [t EXCEPT ![p] = Idle] /\ v \in Volume
      /\ UNCHANGED <<live, map, data>> /\ last \in [Volume -> Content] /\ live \in SUBSET Volume
      /\ t[p].kind = "write" => b \in Block
  BY Known, Split DEF Done, Finish, mapVars, RestOK, Local, Asked
<1>2. t'[p] = Idle /\ \A q \in Task : q /= p => t'[q] = t[q]
  BY <1>1
<1>3. CASE t[p].kind /= "write"
  BY <1>1, <1>2, <1>3, FinishData DEF Done, Advance, Landed
<1>4. CASE t[p].kind = "write"
  <2>1. last' = [last EXCEPT ![v][b] = t[p].val] /\ Landed(t[p])
    BY <1>1, <1>4 DEF Done, Acknowledge, Landed
  <2> HIDE DEF v, b
  <2>2. ASSUME NEW q \in Task, q /= p PROVE (Asked(t[q]) /\ Buffered(t[q]))'
    <3>1. t'[q] = t[q] /\ Alike(t'[q], t[q])
      BY <1>2, <2>2 DEF Alike
    <3> QED
      BY <1>1, <3>1, BufferStays
  <2>3. ASSUME NEW u \in live, NEW c \in Block PROVE Latest(u, c)'
    <3>1. Latest(u, c) /\ u \in Volume
      BY <1>1 DEF DInv
    <3>2. Through(u, c)' = Through(u, c)
      BY <1>1 DEF Through
    <3>3. /\ ~Landed(t'[p])
          /\ \A q \in Task : q /= p => /\ Landed(t'[q]) <=> Landed(t[q])
                                       /\ t'[q].vol = t[q].vol /\ t'[q].block = t[q].block /\ t'[q].val = t[q].val
      BY <1>2 DEF Landed, Idle
    <3>4. CASE u = v /\ c = b
      <4>1. Through(u, c) = t[p].val
        BY <2>1, <3>1, <3>4 DEF Latest, v, b
      <4>2. last'[u][c] = t[p].val
        BY <1>1, <1>4, <2>1, <3>4 DEF Content
      <4>3. \A q \in Task : q /= p /\ Landed(t[q]) /\ t[q].vol = v => t[q].block /= b
        BY <1>4 DEF DInv, Apart, Landed, v, b
      <4>4. \A q \in Task : Landed(t'[q]) /\ t'[q].vol = v => t'[q].block /= b
        BY <3>3, <4>3
      <4> QED
        BY <3>2, <3>4, <4>1, <4>2, <4>4 DEF Latest, Landed
    <3>5. CASE ~(u = v /\ c = b)
      <4>1. last'[u][c] = last[u][c]
        BY <1>1, <1>4, <2>1, <3>1, <3>5 DEF Content
      <4>2. \A q \in Task : Landed(t'[q]) /\ t'[q].vol = u /\ t'[q].block = c
                              <=> Landed(t[q]) /\ t[q].vol = u /\ t[q].block = c
        BY <3>3, <3>5 DEF v, b
      <4>3. \A q \in Task : Landed(t'[q]) => t'[q].val = t[q].val
        BY <3>3
      <4> QED
        BY <3>1, <3>2, <4>1, <4>2, <4>3 DEF Latest, Landed
    <3> QED
      BY <3>4, <3>5
  <2>4. \A a, q \in Task : a /= q => Apart(t[a], t[q])'
    BY <1>2, ApartStays DEF Successor
  <2>5. \A q \in Task : (Asked(t[q]) /\ Buffered(t[q]))'
    BY <1>2, <2>2, IdleBuffered
  <2> QED
    BY <1>1, <2>3, <2>4, <2>5 DEF DInv
<1> QED
  BY <1>3, <1>4

\* An operation that begins has read nothing yet; the others' registers are as
\* they were, but for what a read may return.
LEMMA BeginData ==
    ASSUME IInv, CInv, DInv, NEW p \in Task, t[p] = Idle,
           t'[p].pc \in {"lookup", "lock", "exclusive", "copy"},
           t'[p].kind = "move" => t'[p].pc = "exclusive",
           t'[p].kind \in {"read", "write"} => t'[p].block \in Block,
           \A q \in Task : q /= p => Alike(t'[q], t[q]),
           \A q \in Task : q /= p => Apart(t'[p], t[q]) /\ Apart(t[q], t'[p]),
           UNCHANGED <<live, map, data, last>>
    PROVE  DInv'
<1>1. Asked(t[p])' /\ Buffered(t[p])' /\ ~Landed(t'[p]) /\ ~Landed(t[p])
  BY DEF Asked, Buffered, Landed, Idle
<1>2. ASSUME NEW q \in Task, q /= p PROVE (Asked(t[q]) /\ Buffered(t[q]))'
  BY <1>2, BufferStays
<1>3. ASSUME NEW a \in Task, NEW q \in Task, a /= q PROVE Apart(t'[a], t'[q])
  <2>1. Apart(t[a], t[q])
    BY <1>3 DEF DInv
  <2>2. CASE a = p
    BY <1>3, <2>2 DEF Apart, Alike
  <2>3. CASE q = p
    BY <1>3, <2>3 DEF Apart, Alike
  <2>4. CASE a /= p /\ q /= p
    BY <2>1, <2>4 DEF Apart, Alike
  <2> QED
    BY <2>2, <2>3, <2>4
<1>4. ASSUME NEW v \in live, NEW b \in Block PROVE Latest(v, b)'
  <2>1. Latest(v, b)
    BY DEF DInv
  <2>2. Through(v, b)' = Through(v, b)
    BY DEF Through
  <2>3. \A q \in Task : /\ Landed(t'[q]) <=> Landed(t[q])
                        /\ Landed(t[q]) => t'[q].vol = t[q].vol /\ t'[q].block = t[q].block /\ t'[q].val = t[q].val
    BY <1>1 DEF Landed, Alike
  <2> QED
    BY <2>1, <2>2, <2>3, LatestStays
<1>5. \A a, q \in Task : a /= q => Apart(t[a], t[q])'
  BY <1>3 DEF Apart
<1>6. \A q \in Task : (Asked(t[q]) /\ Buffered(t[q]))'
  BY <1>1, <1>2
<1> QED
  BY <1>4, <1>5, <1>6 DEF DInv

\* StartWrite keeps the data.
LEMMA StartWriteData ==
    ASSUME IInv, CInv, DInv, NEW p \in Task, NEW v \in Volume, NEW b \in Block, StartWrite(p, v, b) PROVE DInv'
<1>1. t \in [Task -> TaskState] /\ t[p] = Idle /\ ~Changing(v, b) /\ UNCHANGED <<live, map, data, last>>
  BY Split DEF StartWrite, mapVars, TasksOK
<1>2. t'[p] = [Idle EXCEPT !.pc = "lookup", !.kind = "write", !.vol = v, !.block = b, !.val = writes + 2]
  BY DEF StartWrite
<1>3. t'[p].pc = "lookup" /\ t'[p].kind = "write" /\ t'[p].vol = v /\ t'[p].block = b
  BY <1>2 DEF Idle
<1>4. ASSUME NEW q \in Task, q /= p PROVE Alike(t'[q], t[q]) /\ Apart(t'[p], t[q]) /\ Apart(t[q], t'[p])
  <2>1. t'[q] = IF t[q].kind = "read" /\ t[q].vol = v /\ t[q].block = b
                THEN [t[q] EXCEPT !.valid = @ \cup {writes + 2}] ELSE t[q]
    BY <1>4 DEF StartWrite
  <2>2. t[q] \in TaskState
    BY <1>1
  <2>3. Alike(t'[q], t[q])
    BY <2>1, <2>2 DEF Alike, TaskState
  <2> QED
    BY <1>1, <1>3, <2>3 DEF Apart, Changing
<1> QED
  BY <1>1, <1>3, <1>4, BeginData

\* StartDiscard keeps the data.
LEMMA StartDiscardData ==
    ASSUME IInv, CInv, DInv, NEW p \in Task, NEW v \in Volume, StartDiscard(p, v) PROVE DInv'
<1>1. /\ t \in [Task -> TaskState] /\ t[p] = Idle /\ (\A b \in Block : ~Changing(v, b))
      /\ UNCHANGED <<live, map, data, last>>
  BY Split DEF StartDiscard, mapVars, TasksOK
<1>2. t'[p] = [Idle EXCEPT !.pc = "lock", !.kind = "discard", !.vol = v]
  BY DEF StartDiscard
<1>3. t'[p].pc = "lock" /\ t'[p].kind = "discard" /\ t'[p].vol = v
  BY <1>2 DEF Idle
<1>4. ASSUME NEW q \in Task, q /= p PROVE Alike(t'[q], t[q]) /\ Apart(t'[p], t[q]) /\ Apart(t[q], t'[p])
  <2>1. t'[q] = IF t[q].kind = "read" /\ t[q].vol = v THEN [t[q] EXCEPT !.valid = @ \cup {0}] ELSE t[q]
    BY <1>4 DEF StartDiscard
  <2>2. t[q] \in TaskState /\ Asked(t[q])
    BY Known
  <2>3. Alike(t'[q], t[q])
    BY <2>1, <2>2 DEF Alike, TaskState
  <2> QED
    BY <1>1, <1>3, <2>2, <2>3 DEF Apart, Changing, Asked
<1> QED
  BY <1>1, <1>3, <1>4, BeginData

\* StartRead keeps the data.
LEMMA StartReadData ==
    ASSUME IInv, CInv, DInv, NEW p \in Task, NEW v \in Volume, NEW b \in Block, StartRead(p, v, b) PROVE DInv'
<1> PICK x : t' = [t EXCEPT ![p] = [Idle EXCEPT !.pc = "lookup", !.kind = "read", !.vol = v,
                                                !.block = b, !.valid = x]]
  BY DEF StartRead, Step
<1>1. t \in [Task -> TaskState] /\ t[p] = Idle /\ UNCHANGED <<live, map, data, last>>
  BY Split DEF StartRead, mapVars, TasksOK
<1>2. t'[p].pc = "lookup" /\ t'[p].kind = "read" /\ t'[p].block = b /\ \A q \in Task : q /= p => t'[q] = t[q]
  BY <1>1 DEF Idle
<1>3. \A q \in Task : q /= p => Alike(t'[q], t[q]) /\ Apart(t'[p], t[q]) /\ Apart(t[q], t'[p])
  BY <1>2 DEF Alike, Apart
<1> QED
  BY <1>1, <1>2, <1>3, BeginData

\* A move and a retier begin.
LEMMA StartCopyData ==
    ASSUME IInv, CInv, DInv, NEW p \in Task, NEW v \in Volume, StartMove(p, v) \/ StartRetier(p, v) PROVE DInv'
<1>1. t \in [Task -> TaskState] /\ t[p] = Idle /\ UNCHANGED <<live, map, data, last>>
  BY Split DEF StartMove, StartRetier, mapVars, TasksOK
<1>2. /\ t'[p].pc \in {"exclusive", "copy"} /\ t'[p].kind \in {"move", "retier"}
      /\ t'[p].kind = "move" => t'[p].pc = "exclusive"
      /\ \A q \in Task : q /= p => t'[q] = t[q]
  <2>1. CASE StartMove(p, v)
    BY <1>1, <2>1 DEF StartMove, Step, Idle
  <2>2. CASE StartRetier(p, v)
    BY <1>1, <2>2 DEF StartRetier, Step, Idle
  <2> QED
    BY <2>1, <2>2
<1>3. \A q \in Task : q /= p => Alike(t'[q], t[q]) /\ Apart(t'[p], t[q]) /\ Apart(t[q], t'[p])
  BY <1>2 DEF Alike, Apart
<1> QED
  BY <1>1, <1>2, <1>3, BeginData

\* A step of no task, that changes no content in use, keeps the data.
LEMMA StillData ==
    ASSUME IInv, CInv, DInv, UNCHANGED <<t, live, map, last>>, \A s \in Slot : InUse(s) => data'[s] = data[s]
    PROVE  DInv'
<1>1. ASSUME NEW q \in Task PROVE (Asked(t[q]) /\ Buffered(t[q]))'
  <2>1. t' = [t EXCEPT ![q] = t[q]] /\ t \in [Task -> TaskState]
    BY Split DEF TasksOK
  <2>2. t[q] \in TaskState /\ Local(t[q]) /\ Form(t[q]) /\ Placed(t[q])
    BY Known
  <2>3. /\ t[q].kind \in {"write", "retier"} /\ t[q].pc \in {"alloc", "fill", "remap"}
            => map[t[q].vol] = t[q].loc /\ t[q].vol \in Volume
        /\ t[q].kind = "move" => t[q].vol \in Volume /\ t[q].loc \in Slot
        /\ t[q].pc \in {"remap", "publish"} => t[q].new \in Slot
    BY <2>2 DEF Local, Form, Placed
  <2>4. Alike(t'[q], t[q])
    BY DEF Alike
  <2>5. \A v \in Volume : map[v] \in Slot => data'[map[v]] = data[map[v]]
    BY DEF InUse
  <2>6. t[q].pc \in {"remap", "publish"} => data'[t[q].new] = data[t[q].new]
    BY <2>3 DEF InUse
  <2>7. t[q].kind = "move" /\ map[t[q].vol] = t[q].loc => data'[t[q].loc] = data[t[q].loc]
    BY <2>3, <2>5
  <2>8. t[q].kind \in {"write", "retier"} /\ t[q].pc \in {"alloc", "fill", "remap"} /\ t[q].loc \in Slot
           => data'[t[q].loc] = data[t[q].loc]
    BY <2>3, <2>5
  <2> QED
    BY <2>4, <2>6, <2>7, <2>8, BufferStays
<1>2. ASSUME NEW v \in live, NEW b \in Block PROVE Latest(v, b)'
  <2>1. Latest(v, b) /\ map \in [Volume -> Slot \cup {None}] /\ v \in Volume
    BY Split DEF DInv, RestOK
  <2>2. Through(v, b)' = Through(v, b)
    <3>1. map[v] /= None => map[v] \in Slot /\ data'[map[v]] = data[map[v]]
      BY <2>1 DEF InUse
    <3> QED
      BY <3>1 DEF Through
  <2> QED
    BY <2>1, <2>2, LatestStays
<1>3. \A a, q \in Task : a /= q => Apart(t[a], t[q])'
  BY DEF DInv, Apart
<1> QED
  BY <1>1, <1>2, <1>3 DEF DInv

\* ReleaseOwed keeps the data: a slot that was moved is in no use.
LEMMA ReleaseOwedData == ASSUME IInv, CInv, DInv, ReleaseOwed PROVE DInv'
<1>1. UNCHANGED <<t, live, map, last>> /\ data \in [Slot -> Content]
  BY Split DEF ReleaseOwed, mapVars, RestOK
<1>2. ASSUME NEW s \in Slot, InUse(s) PROVE data'[s] = data[s]
  <2>1. s \notin owed
    <3>1. CASE \E v \in Volume : map[v] = s
      BY <1>2, <3>1, NamedIsOwned, SlotAssumption
    <3>2. CASE \E q \in Task : t[q].pc \in {"remap", "publish"} /\ t[q].new = s
      BY <3>2, NewsDiffer
    <3> QED
      BY <1>2, <3>1, <3>2 DEF InUse
  <2> QED
    BY <1>1, <2>1 DEF ReleaseOwed
<1> QED
  BY <1>1, <1>2, StillData

\* Snapshot keeps the data: with no write in flight, the volume reads as it was
\* acknowledged, and so does its snapshot.
LEMMA SnapshotData ==
    ASSUME IInv, CInv, DInv, NEW v \in Volume, NEW w \in Volume, Snapshot(v, w) PROVE DInv'
<1>1. /\ map \in [Volume -> Slot \cup {None}] /\ last \in [Volume -> Content] /\ live \in SUBSET Volume
      /\ map' = [map EXCEPT ![w] = map[v]] /\ last' = [last EXCEPT ![w] = last[v]] /\ live' = live \cup {w}
      /\ UNCHANGED <<t, data>> /\ v \in live
  BY Split DEF Snapshot, RestOK
<1>2. /\ w \notin live /\ v /= w
      /\ \A q \in Task : t[q].vol /= w /\ (t[q].kind = "write" => t[q].vol /= v)
  BY DEF Snapshot, FreshId, GateOpen, Doing
<1>3. ASSUME NEW q \in Task PROVE (Asked(t[q]) /\ Buffered(t[q]))'
  <2>1. Alike(t'[q], t[q])
    BY <1>1 DEF Alike
  <2>2. map'[t[q].vol] = map[t[q].vol] /\ (t[q].vol \notin live => t[q].vol \notin live')
    BY <1>1, <1>2
  <2> QED
    BY <1>1, <2>1, <2>2, BufferStays
<1>4. ASSUME NEW u \in live', NEW b \in Block PROVE Latest(u, b)'
  <2>1. CASE u /= w
    <3>1. Latest(u, b) /\ u \in Volume
      BY <1>1, <2>1 DEF DInv
    <3>2. Through(u, b)' = Through(u, b) /\ last'[u][b] = last[u][b]
      BY <1>1, <2>1, <3>1 DEF Through
    <3> QED
      BY <1>1, <3>1, <3>2, LatestStays
  <2>2. CASE u = w
    <3>1. Latest(v, b)
      BY <1>1 DEF DInv
    <3>2. Through(v, b) = last[v][b]
      BY <1>2, <3>1 DEF Latest, Landed
    <3>3. Through(u, b)' = last'[u][b]
      BY <1>1, <2>2, <3>2 DEF Through
    <3>4. \A q \in Task : t'[q].vol /= u
      BY <1>1, <1>2, <2>2
    <3> QED
      BY <3>3, <3>4 DEF Latest, Landed
  <2> QED
    BY <2>1, <2>2
<1>5. \A a, q \in Task : a /= q => Apart(t[a], t[q])'
  BY <1>1 DEF DInv, Apart
<1> QED
  BY <1>3, <1>4, <1>5 DEF DInv

\* Delete keeps the data: the slot that is erased was the volume's alone.
LEMMA DeleteData == ASSUME IInv, CInv, DInv, NEW v \in Volume, Delete(v) PROVE DInv'
<1> DEFINE s == map[v]
<1>1. /\ map \in [Volume -> Slot \cup {None}] /\ last \in [Volume -> Content] /\ live \in SUBSET Volume
      /\ map' = [map EXCEPT ![v] = None] /\ last' = [last EXCEPT ![v] = Zeroes] /\ live' = live \ {v}
      /\ UNCHANGED t /\ data \in [Slot -> Content] /\ count \in [Slot -> Nat]
  BY Split DEF Delete, RestOK
<1>2. \A q \in Task : t[q].kind \in {"read", "write", "discard", "retier"} => t[q].vol /= v
  BY DEF Delete, GateOpen, Doing, ManagerFree
<1>3. ASSUME NEW x \in Slot, data'[x] /= data[x] PROVE x = s /\ Names(x) = {v} /\ InFlight(x) = {}
  <2>1. x = s /\ count[s] = 1
    BY <1>1, <1>3 DEF Delete, Retire
  <2>2. s /= None /\ s \in Slot /\ s \notin owed /\ v \in Names(s)
    BY <1>3, <2>1, NamedIsOwned, SlotAssumption
  <2> HIDE DEF s
  <2>3. count[s] = Cardinality(Names(s)) + Cardinality(InFlight(s))
    BY <2>2 DEF CInv, Counted
  <2>4. /\ IsFiniteSet(Names(s) \ {v})
        /\ Cardinality(Names(s) \ {v}) = Cardinality(Names(s)) - 1
        /\ Cardinality(Names(s) \ {v}) \in Nat
    BY <2>2, FiniteCounted, FS_RemoveElement, FS_CardinalityType
  <2>5. Cardinality(InFlight(s)) = 0 /\ Cardinality(Names(s) \ {v}) = 0
    BY <2>1, <2>3, <2>4, FiniteCounted
  <2>6. InFlight(s) = {} /\ Names(s) \ {v} = {}
    BY <2>4, <2>5, FiniteCounted, FS_EmptySet
  <2> QED
    BY <2>1, <2>2, <2>6
<1> HIDE DEF s
<1>4. \A u \in Volume : u /= v /\ map[u] \in Slot => data'[map[u]] = data[map[u]]
  BY <1>3 DEF Names
<1>5. ASSUME NEW q \in Task PROVE (Asked(t[q]) /\ Buffered(t[q]))'
  <2>1. t[q] \in TaskState /\ Local(t[q]) /\ Form(t[q]) /\ Placed(t[q]) /\ Alike(t'[q], t[q])
    BY <1>1, Known DEF Alike
  <2>2. /\ t[q].kind \in {"write", "retier"} /\ t[q].pc \in {"alloc", "fill", "remap"}
            => map[t[q].vol] = t[q].loc /\ t[q].vol \in Volume
        /\ t[q].kind = "move" => t[q].vol \in Volume /\ t[q].loc \in Slot
        /\ t[q].pc \in {"remap", "publish"} => t[q].new \in Slot
    BY <2>1 DEF Local, Form, Placed
  <2>3. t[q].kind \in {"write", "retier"} /\ t[q].pc \in {"alloc", "fill", "remap"} /\ t[q].loc \in Slot
           => data'[t[q].loc] = data[t[q].loc]
    BY <1>2, <1>4, <2>2
  <2>4. t[q].kind = "move" /\ map'[t[q].vol] = t[q].loc
           => t[q].vol /= v /\ map[t[q].vol] = t[q].loc /\ data'[t[q].loc] = data[t[q].loc]
    BY <1>1, <1>4, <2>2, SlotAssumption
  <2>5. t[q].kind = "move" => map'[t[q].vol] = map[t[q].vol] \/ t[q].vol \notin live'
    BY <1>1, <2>2
  <2>6. t[q].pc \in {"remap", "publish"} => data'[t[q].new] = data[t[q].new]
    <3>1. t[q].pc \in {"remap", "publish"} => Claims(t[q], t[q].new)
      BY DEF Claims
    <3> QED
      BY <1>3, <2>2, <3>1 DEF InFlight
  <2> QED
    BY <1>1, <2>1, <2>3, <2>4, <2>5, <2>6, BufferStays
<1>6. ASSUME NEW u \in live', NEW b \in Block PROVE Latest(u, b)'
  <2>1. u /= v /\ u \in live /\ u \in Volume /\ Latest(u, b)
    BY <1>1 DEF DInv
  <2>2. Through(u, b)' = Through(u, b) /\ last'[u][b] = last[u][b]
    BY <1>1, <1>4, <2>1 DEF Through
  <2> QED
    BY <1>1, <2>1, <2>2, LatestStays
<1>7. \A a, q \in Task : a /= q => Apart(t[a], t[q])'
  BY <1>1 DEF DInv, Apart
<1> QED
  BY <1>5, <1>6, <1>7 DEF DInv

\* Every step keeps the data, as long as no count is overtaken and neither a
\* retier nor a copy meets a write it does not know of.
LEMMA NextData ==
    /\ IInv /\ CInv /\ AInv /\ (overtaken = {} => DInv)
    /\ RetiersAlone /\ CopiesAlone /\ [Next]_vars
    => (overtaken = {} => DInv)'
<1> SUFFICES ASSUME IInv, CInv, AInv, overtaken = {} => DInv, RetiersAlone, CopiesAlone, [Next]_vars,
                    overtaken' = {}
             PROVE  DInv'
  OBVIOUS
<1>1. DInv /\ overtaken = {}
  <2>1. overtaken = {}
    BY DEF Next, vars
  <2> QED
    BY <2>1
<1>2. ASSUME NEW p \in Task, Advance(p) PROVE DInv'
  BY <1>1, <1>2, LookupData, HoldData, RecheckData, ReadSlotData, DecideData, LockVolumeData,
     WriteInPlaceData, CopySlotData, AllocateData, NoSpaceData, FillData, FillErrorData,
     RemapData, ReleaseData, SyncRefsData, DoneData, DiscardAloneData, UnmapData,
     ExclusiveData, PublishData DEF Advance
<1>3. ASSUME NEW p \in Task, NEW v \in Volume, NEW b \in Block, StartWrite(p, v, b) \/ StartRead(p, v, b)
      PROVE  DInv'
  BY <1>1, <1>3, StartWriteData, StartReadData
<1>4. ASSUME NEW p \in Task, NEW v \in Volume,
             StartDiscard(p, v) \/ StartMove(p, v) \/ StartRetier(p, v)
      PROVE  DInv'
  BY <1>1, <1>4, StartDiscardData, StartCopyData
<1>5. CASE (\E v, w \in Volume : Snapshot(v, w)) \/ (\E v \in Volume : Delete(v)) \/ ReleaseOwed
  BY <1>1, <1>5, SnapshotData, DeleteData, ReleaseOwedData
<1>6. CASE (\E d \in Slab : SetQuarantined(d)) \/ Sync \/ UNCHANGED vars
  BY <1>1, <1>6, StillData DEF SetQuarantined, Sync, mapVars, vars, ioVars
<1> QED
  BY <1>2, <1>3, <1>4, <1>5, <1>6 DEF Next, Operate

\* The data is right at the start.
LEMMA InitData == Init => DInv
<1> SUFFICES ASSUME Init PROVE DInv
  OBVIOUS
<1> PICK m \in {None} \cup {s \in Slot : SlabOf[s] \in load.leaving} :
      LET taken == {m} \ {None}
      IN  /\ map = [v \in Volume |-> IF v = Root THEN m ELSE None]
          /\ data = [s \in Slot |-> IF s \in taken THEN Image ELSE Zeroes]
          /\ last = [v \in Volume |-> IF v = Root /\ m /= None THEN Image ELSE Zeroes]
  BY DEF Init
<1>1. live = {Root} /\ Root \in Volume /\ \A p \in Task : t[p] = Idle
  BY VolumeAssumption DEF Init
<1>2. \A p \in Task : Asked(t[p]) /\ Buffered(t[p])
  BY <1>1 DEF Asked, Buffered, Idle
<1>3. \A p, q \in Task : p /= q => Apart(t[p], t[q])
  BY <1>1 DEF Apart, Idle
<1>4. ASSUME NEW v \in live, NEW b \in Block PROVE Latest(v, b)
  <2>1. Through(v, b) = last[v][b]
    BY <1>1 DEF Through, Zeroes, Image
  <2> QED
    BY <1>1, <2>1 DEF Latest, Landed, Idle
<1> QED
  BY <1>2, <1>3, <1>4 DEF DInv

\* All of it is invariant.
LEMMA DataInvariant ==
    Spec /\ []RetiersAlone /\ []CopiesAlone
    => [](IInv /\ CInv /\ OneRetier /\ AInv /\ Noticed /\ (overtaken = {} => DInv))
<1> DEFINE J == IInv /\ CInv /\ OneRetier /\ AInv /\ Noticed /\ (overtaken = {} => DInv)
<1>1. Init => J
  BY InitIInv, InitCounts, InitAlone, InitData
<1>2. J /\ RetiersAlone /\ CopiesAlone /\ [Next]_vars => J'
  BY NextIInv, NextCounts, RetiersQueue, NextAlone, NextData
<1> QED
  BY <1>1, <1>2, PTL DEF Spec

\* Every acknowledged write reads back through copies, moves, retiers,
\* snapshots, discards and deletes (write_blocks, cow_write, migrate_leg_unlocked,
\* relocate_extent, create_snapshot), as long as no retier and no copy meets a
\* write in place it does not know of.
THEOREM WritesSurvive == Spec /\ []RetiersAlone /\ []CopiesAlone => []NoLostWrite
<1>1. (overtaken = {} => DInv) => NoLostWrite
  <2> SUFFICES ASSUME overtaken = {}, DInv, NEW v \in live, NEW b \in Block, ~Changing(v, b)
               PROVE  Through(v, b) = last[v][b]
    BY DEF NoLostWrite
  <2>1. \A q \in Task : Landed(t[q]) /\ t[q].vol = v => t[q].block /= b
    BY DEF Changing, Landed
  <2> QED
    BY <2>1 DEF DInv, Latest
<1> QED
  BY <1>1, DataInvariant, PTL

-----------------------------------------------------------------------------
(* What reads return. *)

\* A read may return what its block was last acknowledged with, and what is
\* being written to it.
Valid(r) ==
    r.kind = "read" =>
        /\ last[r.vol][r.block] \in r.valid
        /\ \A q \in Task : t[q].kind = "write" /\ t[q].vol = r.vol /\ t[q].block = r.block => t[q].val \in r.valid
        /\ \A q \in Task : t[q].kind = "discard" /\ t[q].vol = r.vol => 0 \in r.valid

\* What a read is about to return is one of these, and its slot is not one a
\* copy is about to fill.
Replies(p) ==
    t[p].kind = "read" /\ t[p].pc = "io" =>
        /\ Answer(p) \in t[p].valid
        /\ \A q \in Task : t[q].pc \in {"fill", "remap", "publish"} => t[q].new /= t[p].held

RInv == \A p \in Task : Valid(t[p]) /\ Replies(p)

\* What the steps of a task acknowledge.
LEMMA LastSteps ==
    ASSUME IInv, CInv, NEW p \in Task, Advance(p)
    PROVE  \/ UNCHANGED last
           \/ t[p].kind = "write" /\ last' = [last EXCEPT ![t[p].vol][t[p].block] = t[p].val]
           \/ t[p].kind = "discard" /\ last' = [last EXCEPT ![t[p].vol] = Zeroes]
<1>1. CASE Remap(p)
  <2>1. t[p].kind = "write" \/ t[p].loc /= None
    BY <1>1, TaskKnown, SlotAssumption DEF Remap, CInv, Form, Local
  <2> QED
    BY <1>1, <2>1 DEF Remap, Acknowledge
<1>2. CASE Unmap(p)
  BY <1>2 DEF Unmap, CInv, Form
<1>3. CASE WriteInPlace(p) \/ Done(p)
  BY <1>3 DEF WriteInPlace, Done, Acknowledge
<1> QED
  BY <1>1, <1>2, <1>3 DEF Advance, Lookup, Hold, Recheck, ReadSlot, Decide, LockVolume, CopySlot,
         Allocate, NoSpace, Fill, FillError, Release, SyncRefs, DiscardAlone, Exclusive, Publish

\* They keep what reads may return.
LEMMA AdvanceValid ==
    ASSUME IInv, CInv, DInv, RInv, NEW p \in Task, Advance(p), NEW q \in Task PROVE Valid(t[q])'
<1>1. /\ t \in [Task -> TaskState] /\ last \in [Volume -> Content]
      /\ \A x \in Task : t[x] \in TaskState /\ Local(t[x]) /\ Asked(t[x]) /\ Form(t[x])
  BY Split, Known DEF TasksOK, RestOK
<1>2. \A x \in Task : \/ t'[x] = Idle
                      \/ /\ t'[x].kind = t[x].kind /\ t'[x].vol = t[x].vol /\ t'[x].block = t[x].block
                         /\ t'[x].val = t[x].val /\ t'[x].valid = t[x].valid
  BY <1>1, RequestStays DEF Same
<1> SUFFICES ASSUME t'[q].kind = "read" PROVE Valid(t[q])'
  BY DEF Valid
<1>3. /\ t'[q].vol = t[q].vol /\ t'[q].block = t[q].block /\ t'[q].valid = t[q].valid /\ t[q].kind = "read"
      /\ t[q].vol \in Volume /\ t[q].block \in Block /\ Valid(t[q])
  BY <1>1, <1>2 DEF Idle, Asked, Local, RInv, Form
<1>4. last'[t[q].vol][t[q].block] \in t[q].valid
  <2>1. CASE UNCHANGED last
    BY <1>3, <2>1 DEF Valid
  <2>2. CASE t[p].kind = "write" /\ last' = [last EXCEPT ![t[p].vol][t[p].block] = t[p].val]
    <3>1. CASE t[p].vol = t[q].vol /\ t[p].block = t[q].block
      BY <1>1, <1>3, <2>2, <3>1 DEF Valid, Content
    <3>2. CASE ~(t[p].vol = t[q].vol /\ t[p].block = t[q].block)
      <4>1. last'[t[q].vol][t[q].block] = last[t[q].vol][t[q].block]
        BY <1>1, <1>3, <2>2, <3>2 DEF Content
      <4> QED
        BY <1>3, <4>1 DEF Valid
    <3> QED
      BY <3>1, <3>2
  <2>3. CASE t[p].kind = "discard" /\ last' = [last EXCEPT ![t[p].vol] = Zeroes]
    <3>1. CASE t[p].vol = t[q].vol
      BY <1>1, <1>3, <2>3, <3>1 DEF Valid, Zeroes
    <3>2. CASE t[p].vol /= t[q].vol
      BY <1>1, <1>3, <2>3, <3>2 DEF Valid
    <3> QED
      BY <3>1, <3>2
  <2> QED
    BY <2>1, <2>2, <2>3, LastSteps
<1>5. \A x \in Task : t'[x].kind = "write" /\ t'[x].vol = t[q].vol /\ t'[x].block = t[q].block
                        => t'[x].val \in t[q].valid
  BY <1>2, <1>3 DEF Valid, Idle
<1>6. \A x \in Task : t'[x].kind = "discard" /\ t'[x].vol = t[q].vol => 0 \in t[q].valid
  BY <1>2, <1>3 DEF Valid, Idle
<1> QED
  BY <1>3, <1>4, <1>5, <1>6 DEF Valid

\* A write that begins is one of what the reads of its block may return.
LEMMA StartWriteValid ==
    ASSUME IInv, CInv, RInv, NEW p \in Task, NEW v \in Volume, NEW b \in Block, StartWrite(p, v, b), NEW q \in Task
    PROVE  Valid(t[q])'
<1>1. t \in [Task -> TaskState] /\ \A x \in Task : t[x] \in TaskState
  BY Split DEF TasksOK
<1>2. t'[p] = [Idle EXCEPT !.pc = "lookup", !.kind = "write", !.vol = v, !.block = b, !.val = writes + 2]
      /\ UNCHANGED last
  BY DEF StartWrite
<1>3. t'[p].kind = "write" /\ t'[p].vol = v /\ t'[p].block = b /\ t'[p].val = writes + 2
  BY <1>2 DEF Idle
<1>4. ASSUME NEW x \in Task, x /= p
      PROVE  /\ t'[x].kind = t[x].kind /\ t'[x].vol = t[x].vol /\ t'[x].block = t[x].block /\ t'[x].val = t[x].val
             /\ t[x].valid \subseteq t'[x].valid
             /\ t[x].kind = "read" /\ t[x].vol = v /\ t[x].block = b => writes + 2 \in t'[x].valid
  <2>1. t'[x] = IF t[x].kind = "read" /\ t[x].vol = v /\ t[x].block = b
                THEN [t[x] EXCEPT !.valid = @ \cup {writes + 2}] ELSE t[x]
    BY <1>4 DEF StartWrite
  <2>2. t[x] \in TaskState
    BY <1>1
  <2> QED
    BY <2>1, <2>2 DEF TaskState
<1> SUFFICES ASSUME t'[q].kind = "read" PROVE Valid(t[q])'
  BY DEF Valid
<1>5. q /= p /\ t[q].kind = "read" /\ Valid(t[q])
  BY <1>3, <1>4 DEF RInv
<1>6. ASSUME NEW x \in Task, t'[x].kind = "write", t'[x].vol = t'[q].vol, t'[x].block = t'[q].block
      PROVE  t'[x].val \in t'[q].valid
  <2>1. CASE x = p
    BY <1>3, <1>4, <1>5, <1>6, <2>1
  <2>2. CASE x /= p
    BY <1>4, <1>5, <1>6, <2>2 DEF Valid
  <2> QED
    BY <2>1, <2>2
<1>7. \A x \in Task : t'[x].kind = "discard" /\ t'[x].vol = t'[q].vol => 0 \in t'[q].valid
  BY <1>3, <1>4, <1>5 DEF Valid
<1> QED
  BY <1>2, <1>4, <1>5, <1>6, <1>7 DEF Valid

\* So are the zeroes a discard leaves.
LEMMA StartDiscardValid ==
    ASSUME IInv, CInv, RInv, NEW p \in Task, NEW v \in Volume, StartDiscard(p, v), NEW q \in Task
    PROVE  Valid(t[q])'
<1>1. t \in [Task -> TaskState] /\ \A x \in Task : t[x] \in TaskState
  BY Split DEF TasksOK
<1>2. t'[p] = [Idle EXCEPT !.pc = "lock", !.kind = "discard", !.vol = v] /\ UNCHANGED last
  BY DEF StartDiscard
<1>3. t'[p].kind = "discard" /\ t'[p].vol = v
  BY <1>2 DEF Idle
<1>4. ASSUME NEW x \in Task, x /= p
      PROVE  /\ t'[x].kind = t[x].kind /\ t'[x].vol = t[x].vol /\ t'[x].block = t[x].block /\ t'[x].val = t[x].val
             /\ t[x].valid \subseteq t'[x].valid
             /\ t[x].kind = "read" /\ t[x].vol = v => 0 \in t'[x].valid
  <2>1. t'[x] = IF t[x].kind = "read" /\ t[x].vol = v THEN [t[x] EXCEPT !.valid = @ \cup {0}] ELSE t[x]
    BY <1>4 DEF StartDiscard
  <2>2. t[x] \in TaskState
    BY <1>1
  <2> QED
    BY <2>1, <2>2 DEF TaskState
<1> SUFFICES ASSUME t'[q].kind = "read" PROVE Valid(t[q])'
  BY DEF Valid
<1>5. q /= p /\ t[q].kind = "read" /\ Valid(t[q])
  BY <1>3, <1>4 DEF RInv
<1>6. \A x \in Task : t'[x].kind = "write" /\ t'[x].vol = t'[q].vol /\ t'[x].block = t'[q].block
                        => t'[x].val \in t'[q].valid
  BY <1>3, <1>4, <1>5 DEF Valid
<1>7. \A x \in Task : t'[x].kind = "discard" /\ t'[x].vol = t'[q].vol => 0 \in t'[q].valid
  BY <1>3, <1>4, <1>5 DEF Valid
<1> QED
  BY <1>2, <1>4, <1>5, <1>6, <1>7 DEF Valid

\* A read begins with what its block holds and what is being written to it.
LEMMA StartReadValid ==
    ASSUME IInv, CInv, RInv, NEW p \in Task, NEW v \in Volume, NEW b \in Block, StartRead(p, v, b), NEW q \in Task
    PROVE  Valid(t[q])'
<1> DEFINE x == {last[v][b]} \cup {t[a].val : a \in {a \in Doing({"write"}, v) : t[a].block = b}}
                             \cup {0 : a \in Doing({"discard"}, v)}
<1>1. t \in [Task -> TaskState] /\ t[p] = Idle /\ UNCHANGED last
  BY Split DEF TasksOK, StartRead
<1>2. t' = [t EXCEPT ![p] = [Idle EXCEPT !.pc = "lookup", !.kind = "read", !.vol = v, !.block = b, !.valid = x]]
  BY DEF StartRead, Step
<1>3. /\ last[v][b] \in x
      /\ \A a \in Task : t[a].kind = "write" /\ t[a].vol = v /\ t[a].block = b => t[a].val \in x
      /\ \A a \in Task : t[a].kind = "discard" /\ t[a].vol = v => 0 \in x
  BY DEF Doing
<1> HIDE DEF x
<1>4. /\ t'[p].kind = "read" /\ t'[p].vol = v /\ t'[p].block = b /\ t'[p].valid = x
      /\ \A a \in Task : a /= p => t'[a] = t[a]
  BY <1>1, <1>2 DEF Idle
<1>5. CASE q = p
  BY <1>1, <1>3, <1>4, <1>5 DEF Valid
<1>6. CASE q /= p
  <2>1. Valid(t[q]) /\ t'[q] = t[q]
    BY <1>4, <1>6 DEF RInv
  <2> QED
    BY <1>1, <1>4, <2>1 DEF Valid
<1> QED
  BY <1>5, <1>6

\* A move and a retier change nothing a read may return.
LEMMA StartCopyValid ==
    ASSUME IInv, CInv, RInv, NEW p \in Task, NEW v \in Volume, StartMove(p, v) \/ StartRetier(p, v), NEW q \in Task
    PROVE  Valid(t[q])'
<1>1. t \in [Task -> TaskState] /\ UNCHANGED last
  BY Split DEF StartMove, StartRetier, TasksOK
<1>2. t'[p].kind \in {"move", "retier"} /\ \A x \in Task : x /= p => t'[x] = t[x]
  <2>1. CASE StartMove(p, v)
    BY <1>1, <2>1 DEF StartMove, Step, Idle
  <2>2. CASE StartRetier(p, v)
    BY <1>1, <2>2 DEF StartRetier, Step, Idle
  <2> QED
    BY <2>1, <2>2
<1>3. CASE q = p
  BY <1>2, <1>3 DEF Valid
<1>4. CASE q /= p
  <2>1. Valid(t[q]) /\ t'[q] = t[q]
    BY <1>2, <1>4 DEF RInv
  <2> QED
    BY <1>1, <1>2, <2>1 DEF Valid
<1> QED
  BY <1>3, <1>4

\* Nor do a snapshot, a delete and the rest: no read is of the volume that
\* comes or goes.
LEMMA GlobalValid ==
    ASSUME IInv, CInv, RInv, UNCHANGED t, NEW q \in Task,
           \/ \E v, w \in Volume : Snapshot(v, w)
           \/ \E v \in Volume : Delete(v)
           \/ UNCHANGED last
    PROVE  Valid(t[q])'
<1>1. Valid(t[q]) /\ t'[q] = t[q] /\ last \in [Volume -> Content]
  BY Split DEF RInv, RestOK
<1>2. t[q].kind = "read" => last'[t[q].vol] = last[t[q].vol]
  <2>1. ASSUME NEW v \in Volume, NEW w \in Volume, Snapshot(v, w), t[q].kind = "read"
        PROVE  last'[t[q].vol] = last[t[q].vol]
    BY <1>1, <2>1 DEF Snapshot, FreshId
  <2>2. ASSUME NEW v \in Volume, Delete(v), t[q].kind = "read" PROVE last'[t[q].vol] = last[t[q].vol]
    BY <1>1, <2>2 DEF Delete, Doing
  <2> QED
    BY <2>1, <2>2
<1> QED
  BY <1>1, <1>2 DEF Valid

\* The place a step of a task leads to.
LEMMA Places ==
    ASSUME IInv, CInv, NEW p \in Task, Advance(p)
    PROVE  /\ t'[p].pc \in {"fill", "remap", "publish"} =>
                \/ t[p].pc \in {"fill", "remap", "publish"} /\ t'[p].new = t[p].new
                \/ t'[p].new \in free
           /\ t'[p].kind = "read" /\ t'[p].pc = "io" => map'[t'[p].vol] = t'[p].held
<1> DEFINE R == /\ t'[p].pc \in {"fill", "remap", "publish"} =>
                     \/ t[p].pc \in {"fill", "remap", "publish"} /\ t'[p].new = t[p].new
                     \/ t'[p].new \in free
                /\ t'[p].kind = "read" /\ t'[p].pc = "io" => map'[t'[p].vol] = t'[p].held
<1>1. t \in [Task -> TaskState] /\ t[p] \in TaskState /\ Local(t[p]) /\ Form(t[p])
  BY TaskKnown, Split DEF TasksOK, CInv
<1>2. ASSUME t' = [t EXCEPT ![p] = Found(p, map[t[p].vol])], UNCHANGED map PROVE R
  <2> DEFINE s == map[t[p].vol]
  <2>1. t'[p] = Found(p, s)
    BY <1>1, <1>2
  <2>2. CASE s /= None
    <3>1. t'[p] = [t[p] EXCEPT !.pc = "hold", !.held = None, !.loc = s]
      BY <2>1, <2>2 DEF Found
    <3>2. t'[p].pc = "hold"
      BY <1>1, <3>1 DEF TaskState
    <3> QED
      BY <3>2
  <2>3. CASE s = None /\ t[p].kind = "write"
    <3> DEFINE c == [Zeroes EXCEPT ![t[p].block] = t[p].val]
               next == IF t[p].locked THEN "alloc" ELSE "lock"
    <3>1. t'[p] = [t[p] EXCEPT !.held = None, !.loc = None, !.pc = next, !.buf = c] /\ next \in {"alloc", "lock"}
      BY <2>1, <2>3 DEF Found
    <3> HIDE DEF c, next
    <3>2. t'[p].pc = next
      BY <1>1, <3>1 DEF TaskState
    <3> QED
      BY <3>1, <3>2
  <2>4. CASE s = None /\ t[p].kind /= "write"
    <3>1. t'[p] = [t[p] EXCEPT !.held = None, !.loc = None, !.pc = IF t[p].kind = "read" THEN "io" ELSE "done"]
      BY <2>1, <2>4 DEF Found
    <3>2. t'[p].pc \in {"io", "done"} /\ t'[p].held = None /\ t'[p].vol = t[p].vol
      BY <1>1, <3>1 DEF TaskState
    <3> QED
      BY <1>2, <2>4, <3>2
  <2> QED
    BY <2>2, <2>3, <2>4
<1>3. CASE Lookup(p)
  BY <1>2, <1>3 DEF Lookup, Step, mapVars
<1>4. CASE Recheck(p)
  <2>1. CASE map[t[p].vol] /= t[p].held
    BY <1>2, <1>4, <2>1 DEF Recheck, Step, mapVars
  <2>2. CASE map[t[p].vol] = t[p].held
    <3> DEFINE next == CASE t[p].kind = "read" -> "io" [] t[p].kind = "discard" -> "unmap" [] OTHER -> "decide"
    <3>1. t'[p] = [t[p] EXCEPT !.refs = refs[t[p].vol], !.pc = next] /\ UNCHANGED map
      BY <1>1, <1>4, <2>2 DEF Recheck, Step, mapVars
    <3>2. next \in {"io", "unmap", "decide"}
      OBVIOUS
    <3> HIDE DEF next
    <3>3. t'[p].pc = next /\ t'[p].held = t[p].held /\ t'[p].vol = t[p].vol
      BY <1>1, <3>1 DEF TaskState
    <3> QED
      BY <2>2, <3>1, <3>2, <3>3
  <2> QED
    BY <2>1, <2>2
<1>5. CASE Hold(p) \/ LockVolume(p) \/ SyncRefs(p) \/ DiscardAlone(p) \/ Unmap(p)
  <2>1. CASE Hold(p)
    <3>1. t'[p].pc = "recheck"
      BY <1>1, <2>1 DEF Hold, Step, TaskState
    <3> QED
      BY <3>1
  <2>4. CASE SyncRefs(p)
    <3>1. t'[p].pc = "done"
      BY <1>1, <2>4 DEF SyncRefs, Step, TaskState
    <3> QED
      BY <3>1
  <2>5. CASE Unmap(p)
    <3>1. t'[p].pc = "release"
      BY <1>1, <2>5 DEF Unmap, Step, TaskState
    <3> QED
      BY <3>1
  <2>2. CASE LockVolume(p)
    <3>1. t'[p].pc \in {"alone?", "lookup"}
      BY <1>1, <2>2 DEF LockVolume, Step, TaskState
    <3> QED
      BY <3>1
  <2>3. CASE DiscardAlone(p)
    <3>1. t'[p].pc \in {"done", "lookup"}
      BY <1>1, <2>3 DEF DiscardAlone, Step, TaskState
    <3> QED
      BY <3>1
  <2> QED
    BY <1>5, <2>1, <2>2, <2>3, <2>4, <2>5
<1>6. CASE Decide(p) \/ NoSpace(p)
  <2>1. CASE Decide(p)
    <3>1. t'[p].pc \in {"io", "copy", "lock"} /\ t'[p].kind = "write"
      BY <1>1, <2>1 DEF Decide, Step, TaskState, Local
    <3> QED
      BY <3>1
  <2>2. CASE NoSpace(p)
    <3>1. t'[p].pc \in {"io", "idle"} /\ t'[p].kind /= "read"
      BY <1>1, <2>2 DEF NoSpace, Step, Finish, Idle, TaskState, Form
    <3> QED
      BY <3>1
  <2> QED
    BY <1>6, <2>1, <2>2
<1>7. CASE CopySlot(p)
  <2> DEFINE c == IF t[p].kind = "write" THEN [data[t[p].loc] EXCEPT ![t[p].block] = t[p].val]
                  ELSE data[t[p].loc]
  <2>1. t'[p] = [t[p] EXCEPT !.pc = "alloc", !.buf = c]
    BY <1>1, <1>7 DEF CopySlot, Step
  <2> HIDE DEF c
  <2>2. t'[p].pc = "alloc"
    BY <1>1, <2>1 DEF TaskState
  <2> QED
    BY <2>2
<1>8. CASE Allocate(p)
  <2> PICK s \in Room(p) : t' = [t EXCEPT ![p] = [t[p] EXCEPT !.pc = "fill", !.new = s]]
    BY <1>8 DEF Allocate, Step
  <2>1. t'[p].pc = "fill" /\ t'[p].new = s /\ s \in free
    BY <1>1 DEF TaskState, Room
  <2> QED
    BY <2>1
<1>9. CASE Fill(p)
  <2>1. t[p].pc = "fill" /\ t'[p].new = t[p].new /\ t'[p].pc \in {"publish", "remap"}
    BY <1>1, <1>9 DEF Fill, Step, TaskState
  <2> QED
    BY <2>1
<1>10. CASE Remap(p)
  <2>1. t'[p].pc \in {"idle", "release"}
    BY <1>1, <1>10 DEF Remap, Step, Finish, Idle, TaskState
  <2> QED
    BY <2>1
<1>11. CASE Release(p)
  <2> DEFINE n == count[t[p].loc]
             next == IF t[p].kind = "discard" \/ n = 1 THEN "done" ELSE "refs"
  <2>1. \/ t'[p] = [t[p] EXCEPT !.pc = next, !.shares = n - 1, !.of = owner[t[p].loc]]
        \/ t'[p] = [t[p] EXCEPT !.pc = "done"]
    BY <1>1, <1>11 DEF Release, Step
  <2>2. next \in {"done", "refs"}
    OBVIOUS
  <2> HIDE DEF next, n
  <2>3. t'[p].pc \in {"done", "refs"}
    BY <1>1, <2>1, <2>2 DEF TaskState
  <2> QED
    BY <2>3
<1>12. CASE Exclusive(p)
  <2>1. t'[p].pc \in {"copy", "idle"}
    BY <1>1, <1>12 DEF Exclusive, Step, Idle, TaskState
  <2> QED
    BY <2>1
<1>13. CASE ReadSlot(p) \/ WriteInPlace(p) \/ FillError(p) \/ Done(p) \/ Publish(p)
  <2>1. t'[p].pc = "idle"
    BY <1>1, <1>13 DEF ReadSlot, WriteInPlace, FillError, Done, Publish, Finish, Idle
  <2> QED
    BY <2>1
<1> QED
  BY <1>3, <1>4, <1>5, <1>6, <1>7, <1>8, <1>9, <1>10, <1>11, <1>12, <1>13 DEF Advance

\* What changes in a slot that stays owned is written in place, or to a copy.
LEMMA DataSteps ==
    ASSUME IInv, Next, NEW x \in Slot, count'[x] > 0, data'[x] /= data[x]
    PROVE  \E p \in Task : \/ WriteInPlace(p) /\ t[p].held = x
                           \/ Fill(p) /\ t[p].new = x
<1>1. data \in [Slot -> Content] /\ count \in [Slot -> Nat]
  BY Split DEF RestOK
<1>2. ASSUME NEW s, NEW n, Retire(s, n) PROVE FALSE
  BY <1>1, <1>2 DEF Retire
<1>3. ASSUME NEW p \in Task, Advance(p) PROVE (WriteInPlace(p) /\ t[p].held = x) \/ (Fill(p) /\ t[p].new = x)
  <2>1. CASE WriteInPlace(p)
    BY <1>1, <2>1 DEF WriteInPlace
  <2>2. CASE Fill(p)
    BY <1>1, <2>2 DEF Fill
  <2>3. CASE Release(p)
    BY <1>2, <2>3 DEF Release
  <2> QED
    BY <1>3, <2>1, <2>2, <2>3 DEF Advance, Lookup, Hold, Recheck, ReadSlot, Decide, LockVolume, CopySlot,
         Allocate, NoSpace, FillError, Remap, SyncRefs, Done, DiscardAlone, Unmap, Exclusive, Publish
<1>4. ASSUME NEW p \in Task, NEW v \in Volume, NEW b \in Block, StartWrite(p, v, b) \/ StartRead(p, v, b)
      PROVE  FALSE
  BY <1>4 DEF StartWrite, StartRead
<1>5. ASSUME NEW p \in Task, NEW v \in Volume,
             StartDiscard(p, v) \/ StartMove(p, v) \/ StartRetier(p, v)
      PROVE  FALSE
  BY <1>5 DEF StartDiscard, StartMove, StartRetier
<1>6. ASSUME NEW v \in Volume, Delete(v) PROVE FALSE
  BY <1>2, <1>6 DEF Delete
<1>7. CASE ReleaseOwed
  BY <1>1, <1>7 DEF ReleaseOwed
<1>8. CASE (\E v, w \in Volume : Snapshot(v, w)) \/ (\E d \in Slab : SetQuarantined(d)) \/ Sync
  BY <1>8 DEF Snapshot, SetQuarantined, Sync
<1> QED
  BY <1>3, <1>4, <1>5, <1>6, <1>7, <1>8 DEF Next, Operate

\* A slot that is filled is named by no map.
LEMMA NewsUnnamed ==
    IInv /\ CInv => \A q \in Task : t[q].pc \in {"fill", "remap", "publish"}
                                    => t[q].new \in Slot /\ \A v \in Volume : map[v] /= t[q].new
  BY NewsDiffer, NewIsPrivate

\* A read that holds the slot its volume's map names returns what it may.
LEMMA MappedReplies ==
    IInv /\ CInv /\ DInv =>
        \A q \in Task : Valid(t[q]) /\ t[q].kind = "read" /\ map[t[q].vol] = t[q].held
                        => Answer(q) \in t[q].valid
<1> SUFFICES ASSUME IInv, CInv, DInv, NEW q \in Task, Valid(t[q]), t[q].kind = "read", map[t[q].vol] = t[q].held
             PROVE  Answer(q) \in t[q].valid
  OBVIOUS
<1> DEFINE v == t[q].vol
           b == t[q].block
<1>1. v \in live /\ b \in Block
  BY Known DEF Placed, Asked
<1>2. Answer(q) = Through(v, b)
  BY DEF Answer, Through
<1>3. Latest(v, b)
  BY <1>1 DEF DInv
<1>4. CASE \E x \in Task : Landed(t[x]) /\ t[x].vol = v /\ t[x].block = b
  BY <1>2, <1>3, <1>4 DEF Latest, Valid, Landed
<1>5. CASE \A x \in Task : Landed(t[x]) /\ t[x].vol = v => t[x].block /= b
  BY <1>2, <1>3, <1>5 DEF Latest, Valid
<1> QED
  BY <1>4, <1>5

\* A read about to answer was so before, or the map names the slot it holds.
LEMMA ReadsAnswer ==
    ASSUME IInv, CInv, Next, NEW q \in Task, t'[q].kind = "read", t'[q].pc = "io"
    PROVE  \/ /\ t[q].kind = "read" /\ t[q].pc = "io" /\ t'[q].held = t[q].held /\ t'[q].vol = t[q].vol
              /\ t'[q].block = t[q].block /\ t[q].valid \subseteq t'[q].valid
           \/ map'[t'[q].vol] = t'[q].held
<1>1. t \in [Task -> TaskState] /\ t[q] \in TaskState
  BY Split DEF TasksOK
<1>2. ASSUME NEW p \in Task, Advance(p)
      PROVE  t'[q] = t[q] \/ map'[t'[q].vol] = t'[q].held
  <2>1. CASE q = p
    BY <1>2, <2>1, Places
  <2>2. CASE q /= p
    BY <1>1, <1>2, <2>2, RequestStays
  <2> QED
    BY <2>1, <2>2
<1>3. ASSUME NEW p \in Task, NEW v \in Volume, NEW b \in Block, StartWrite(p, v, b)
      PROVE  /\ t[q].kind = "read" /\ t[q].pc = "io" /\ t'[q].held = t[q].held /\ t'[q].vol = t[q].vol
             /\ t'[q].block = t[q].block /\ t[q].valid \subseteq t'[q].valid
  BY <1>1, <1>3 DEF StartWrite, Idle, TaskState
<1>4. ASSUME NEW p \in Task, NEW v \in Volume, StartDiscard(p, v)
      PROVE  /\ t[q].kind = "read" /\ t[q].pc = "io" /\ t'[q].held = t[q].held /\ t'[q].vol = t[q].vol
             /\ t'[q].block = t[q].block /\ t[q].valid \subseteq t'[q].valid
  BY <1>1, <1>4 DEF StartDiscard, Idle, TaskState
<1>5. ASSUME NEW p \in Task, NEW v \in Volume, NEW b \in Block, StartRead(p, v, b)
      PROVE  t'[q] = t[q]
  <2> PICK x : t' = [t EXCEPT ![p] = [Idle EXCEPT !.pc = "lookup", !.kind = "read", !.vol = v,
                                                  !.block = b, !.valid = x]]
    BY <1>5 DEF StartRead, Step
  <2> QED
    BY <1>1 DEF Idle
<1>6. ASSUME NEW p \in Task, NEW v \in Volume, StartMove(p, v) PROVE t'[q] = t[q]
  BY <1>1, <1>6 DEF StartMove, Step, Idle
<1>7. ASSUME NEW p \in Task, NEW v \in Volume, StartRetier(p, v) PROVE t'[q] = t[q]
  BY <1>1, <1>7 DEF StartRetier, Step, Idle
<1>8. CASE \/ \E v, w \in Volume : Snapshot(v, w)
           \/ \E v \in Volume : Delete(v)
           \/ \E d \in Slab : SetQuarantined(d)
           \/ ReleaseOwed \/ Sync
  BY <1>8 DEF Snapshot, Delete, SetQuarantined, ReleaseOwed, Sync
<1> QED
  BY <1>2, <1>3, <1>4, <1>5, <1>6, <1>7, <1>8 DEF Next, Operate

\* A slot to fill was one to fill before, or free.
LEMMA NewSteps ==
    ASSUME IInv, CInv, Next, NEW q \in Task, t'[q].pc \in {"fill", "remap", "publish"}
    PROVE  \/ t[q].pc \in {"fill", "remap", "publish"} /\ t'[q].new = t[q].new
           \/ t'[q].new \in free
<1>1. t \in [Task -> TaskState] /\ t[q] \in TaskState
  BY Split DEF TasksOK
<1>2. ASSUME NEW p \in Task, Advance(p)
      PROVE  t'[q] = t[q] \/ (t[q].pc \in {"fill", "remap", "publish"} /\ t'[q].new = t[q].new) \/ t'[q].new \in free
  <2>1. CASE q = p
    BY <1>2, <2>1, Places
  <2>2. CASE q /= p
    BY <1>1, <1>2, <2>2, RequestStays
  <2> QED
    BY <2>1, <2>2
<1>3. ASSUME NEW p \in Task, NEW v \in Volume, NEW b \in Block, StartWrite(p, v, b)
      PROVE  t[q].pc \in {"fill", "remap", "publish"} /\ t'[q].new = t[q].new
  BY <1>1, <1>3 DEF StartWrite, Idle, TaskState
<1>4. ASSUME NEW p \in Task, NEW v \in Volume, StartDiscard(p, v)
      PROVE  t[q].pc \in {"fill", "remap", "publish"} /\ t'[q].new = t[q].new
  BY <1>1, <1>4 DEF StartDiscard, Idle, TaskState
<1>5. ASSUME NEW p \in Task, NEW v \in Volume, NEW b \in Block, StartRead(p, v, b)
      PROVE  t'[q] = t[q]
  <2> PICK x : t' = [t EXCEPT ![p] = [Idle EXCEPT !.pc = "lookup", !.kind = "read", !.vol = v,
                                                  !.block = b, !.valid = x]]
    BY <1>5 DEF StartRead, Step
  <2> QED
    BY <1>1 DEF Idle
<1>6. ASSUME NEW p \in Task, NEW v \in Volume, StartMove(p, v) PROVE t'[q] = t[q]
  BY <1>1, <1>6 DEF StartMove, Step, Idle
<1>7. ASSUME NEW p \in Task, NEW v \in Volume, StartRetier(p, v) PROVE t'[q] = t[q]
  BY <1>1, <1>7 DEF StartRetier, Step, Idle
<1>8. CASE \/ \E v, w \in Volume : Snapshot(v, w)
           \/ \E v \in Volume : Delete(v)
           \/ \E d \in Slab : SetQuarantined(d)
           \/ ReleaseOwed \/ Sync
  BY <1>8 DEF Snapshot, Delete, SetQuarantined, ReleaseOwed, Sync
<1> QED
  BY <1>2, <1>3, <1>4, <1>5, <1>6, <1>7, <1>8 DEF Next, Operate

\* Every step keeps what reads may return.
LEMMA NextValid ==
    ASSUME IInv, CInv, DInv, RInv, Next, NEW q \in Task PROVE Valid(t[q])'
<1>1. ASSUME NEW p \in Task, Advance(p) PROVE Valid(t[q])'
  BY <1>1, AdvanceValid
<1>2. ASSUME NEW p \in Task, NEW v \in Volume, NEW b \in Block, StartWrite(p, v, b) \/ StartRead(p, v, b)
      PROVE  Valid(t[q])'
  BY <1>2, StartWriteValid, StartReadValid
<1>3. ASSUME NEW p \in Task, NEW v \in Volume,
             StartDiscard(p, v) \/ StartMove(p, v) \/ StartRetier(p, v)
      PROVE  Valid(t[q])'
  BY <1>3, StartDiscardValid, StartCopyValid
<1>4. CASE (\E v, w \in Volume : Snapshot(v, w)) \/ (\E v \in Volume : Delete(v))
  <2>1. UNCHANGED t
    BY <1>4 DEF Snapshot, Delete
  <2> QED
    BY <1>4, <2>1, GlobalValid
<1>5. CASE (\E d \in Slab : SetQuarantined(d)) \/ ReleaseOwed \/ Sync
  BY <1>5, GlobalValid DEF SetQuarantined, ReleaseOwed, Sync
<1> QED
  BY <1>1, <1>2, <1>3, <1>4, <1>5 DEF Next, Operate

\* A slot that is read stays owned.
LEMMA ReadIsOwned ==
    ASSUME IInv, CInv, ReadsAlone, NEW q \in Task, t[q].kind = "read", t[q].pc = "io", t[q].held \in Slot
    PROVE  t[q].held \notin free
<1>1. t[q].vol \in Volume /\ count[t[q].held] \in Nat /\ t[q].held /= None
  BY TaskKnown, Split, SlotAssumption DEF Local, RestOK
<1>2. CASE map[t[q].vol] = t[q].held
  BY <1>1, <1>2, NamedIsOwned
<1>3. CASE map[t[q].vol] /= t[q].held
  <2>1. count[t[q].held] > 0
    BY <1>1, <1>3 DEF ReadsAlone
  <2> QED
    BY <1>1, <2>1 DEF CInv, Counted
<1> QED
  BY <1>2, <1>3

\* Every step keeps what reads are about to return.
LEMMA NextReplies ==
    ASSUME IInv, CInv, DInv, RInv, ReadsAlone, Next, (IInv /\ CInv /\ DInv /\ ReadsAlone)', NEW q \in Task,
           (\A x \in Task : t[x].pc \in {"fill", "remap", "publish"}
                            => t[x].new \in Slot /\ \A v \in Volume : map[v] /= t[x].new)',
           (\A x \in Task : Valid(t[x]) /\ t[x].kind = "read" /\ map[t[x].vol] = t[x].held
                            => Answer(x) \in t[x].valid)'
    PROVE  Replies(q)'
<1> SUFFICES ASSUME t'[q].kind = "read", t'[q].pc = "io"
             PROVE  /\ Answer(q)' \in t'[q].valid
                    /\ \A x \in Task : t'[x].pc \in {"fill", "remap", "publish"} => t'[x].new /= t'[q].held
  BY DEF Replies
<1>1. Valid(t[q])' /\ t'[q].vol \in Volume
  <2>1. t'[q].vol \in Volume
    <3>1. Local(t'[q])
      BY DEF IInv, Local
    <3> QED
      BY <3>1 DEF Local
  <2> QED
    BY <2>1, NextValid
<1>2. CASE map'[t'[q].vol] = t'[q].held
  BY <1>1, <1>2
<1>3. CASE map'[t'[q].vol] /= t'[q].held
  <2>1. /\ t[q].kind = "read" /\ t[q].pc = "io" /\ t'[q].held = t[q].held /\ t'[q].vol = t[q].vol
        /\ t'[q].block = t[q].block /\ t[q].valid \subseteq t'[q].valid
    BY <1>3, ReadsAnswer
  <2>2. Replies(q) /\ t[q] \in TaskState /\ t[q].held \in Slot \cup {None}
    BY TaskKnown DEF RInv, TaskState
  <2>3. CASE t[q].held = None
    <3>1. Answer(q)' \in t'[q].valid
      BY <2>1, <2>2, <2>3 DEF Replies, Answer
    <3> QED
      BY <2>1, <2>3, <3>1, SlotAssumption
  <2>4. CASE t[q].held \in Slot
    <3> DEFINE s == t[q].held
    <3>1. count'[s] > 0 /\ s /= None
      BY <1>3, <2>1, <2>4, SlotAssumption DEF ReadsAlone
    <3>2. data'[s] = data[s]
      <4> SUFFICES ASSUME data'[s] /= data[s] PROVE FALSE
        OBVIOUS
      <4>1. PICK p \in Task : \/ WriteInPlace(p) /\ t[p].held = s
                              \/ Fill(p) /\ t[p].new = s
        BY <2>4, <3>1, DataSteps
      <4>2. ~Fill(p) \/ t[p].new /= s
        BY <2>1, <2>2 DEF Replies, Fill
      <4>3. WriteInPlace(p) /\ t[p].held = s
        BY <4>1, <4>2
      <4>4. map' = map /\ t[p].kind = "write" /\ t[p].pc = "io"
        BY <4>3 DEF WriteInPlace, mapVars
      <4> QED
        BY <1>3, <2>1, <3>1, <4>3, <4>4 DEF ReadsAlone
    <3>3. Answer(q)' \in t'[q].valid
      BY <2>1, <2>2, <3>1, <3>2 DEF Replies, Answer
    <3>4. ASSUME NEW x \in Task, t'[x].pc \in {"fill", "remap", "publish"} PROVE t'[x].new /= t'[q].held
      <4>1. s \notin free
        BY <2>1, <2>4, ReadIsOwned
      <4> QED
        BY <2>1, <2>2, <3>4, <4>1, NewSteps DEF Replies
    <3> QED
      BY <3>3, <3>4
  <2> QED
    BY <2>2, <2>3, <2>4
<1> QED
  BY <1>2, <1>3

\* A read's answer stays one it may give.
LEMMA NextReads ==
    /\ IInv /\ CInv /\ DInv /\ RInv /\ ReadsAlone /\ [Next]_vars
    /\ (IInv /\ CInv /\ DInv /\ ReadsAlone)'
    /\ (IInv /\ CInv => \A q \in Task : t[q].pc \in {"fill", "remap", "publish"}
                                    => t[q].new \in Slot /\ \A v \in Volume : map[v] /= t[q].new)'
    /\ (IInv /\ CInv /\ DInv =>
            \A q \in Task : Valid(t[q]) /\ t[q].kind = "read" /\ map[t[q].vol] = t[q].held
                            => Answer(q) \in t[q].valid)'
    => RInv'
<1>1. CASE Next
  BY <1>1, NextValid, NextReplies DEF RInv
<1>2. CASE UNCHANGED vars
  BY <1>2 DEF RInv, Valid, Replies, Answer, vars, ioVars
<1> QED
  BY <1>1, <1>2

\* No read runs at the start.
LEMMA InitReads == Init => RInv
  BY DEF Init, RInv, Valid, Replies, Idle

\* A read returns what its block held at some moment while it ran
\* (read_blocks under the shared fence), as long as in addition no slot is
\* freed or written in place by another volume while it is read.
THEOREM ReadsHold ==
    Spec /\ []RetiersAlone /\ []CopiesAlone /\ []ReadsAlone /\ [](overtaken = {}) => ReadsAreFresh
<1> DEFINE J == IInv /\ CInv /\ DInv
           N == \A q \in Task : t[q].pc \in {"fill", "remap", "publish"}
                                => t[q].new \in Slot /\ \A v \in Volume : map[v] /= t[q].new
           M == \A q \in Task : Valid(t[q]) /\ t[q].kind = "read" /\ map[t[q].vol] = t[q].held
                                => Answer(q) \in t[q].valid
           A == \A p \in Task : ReadSlot(p) => Answer(p) \in t[p].valid
<1>1. (IInv /\ CInv /\ OneRetier /\ AInv /\ Noticed /\ (overtaken = {} => DInv)) /\ overtaken = {} => J
  OBVIOUS
<1>2. Spec /\ []RetiersAlone /\ []CopiesAlone /\ [](overtaken = {}) => []J
  BY <1>1, DataInvariant, PTL
<1>3. (IInv /\ CInv => N) /\ (J => M)
  BY NewsUnnamed, MappedReplies
<1>4. /\ J /\ RInv /\ ReadsAlone /\ [Next]_vars /\ J' /\ ReadsAlone'
      /\ (IInv /\ CInv => N)' /\ (J => M)'
      => RInv'
  BY NextReads
<1>5. RInv => A
  BY DEF RInv, Replies, ReadSlot
<1>6. Init => RInv
  BY InitReads
<1>7. [](J /\ ReadsAlone) /\ Init /\ [][Next]_vars => []RInv
  <2> HIDE DEF J, N, M
  <2> QED
    BY <1>3, <1>4, <1>6, PTL
<1>8. []RInv => [][A]_vars
  BY <1>5, PTL
<1> QED
  BY <1>2, <1>7, <1>8, PTL DEF Spec, ReadsAreFresh
=============================================================================
