--------------------------- MODULE RaidArrayProofs ---------------------------
(***************************************************************************)
(* What a RAID-1 set promises, for every number of slots, units, drives and *)
(* requests and every budget of faults.                                     *)
(*                                                                          *)
(* The argument: with one spare at most the drives the set was created with *)
(* keep their slots, in memory and in every superblock (PlaceInv), so of    *)
(* two members that hold a unit one was never zeroed: its bitmap has the     *)
(* bits of every write past its intent (BitInv).  Writes that land are apart *)
(* from each other and from the unit being rebuilt, each has reached, will   *)
(* reach or has failed to reach every member that holds its range           *)
(* (LandInv), and what the rebuild copies is the last write (RebuildInv).    *)
(* So members agree on a unit nobody writes (Agree), and neither they nor    *)
(* what is on its way to them is older than what was answered (OwedInv).     *)
(***************************************************************************)
EXTENDS RaidArray, Integers, FiniteSetsExt, FiniteSetTheorems, WellFoundedInduction, TLAPS

-----------------------------------------------------------------------------
(* The least and the greatest member of a set of numbers                    *)

\* A set of numbers that is not empty has a least member, and Min is it.
LEMMA MinIsMember ==
    ASSUME NEW S \in SUBSET Nat, S # {}
    PROVE  Min(S) \in S /\ \A y \in S : Min(S) <= y
<1> DEFINE R == {ss \in Nat \X Nat : ss[1] < ss[2]}
<1>1. R = OpToRel(<, Nat)
    BY Zenon DEF OpToRel
<1>2. IsWellFoundedOn(R, Nat)
    BY <1>1, NatLessThanWellFounded
<1>3. \A x, y \in Nat : x < y => <<x, y>> \in R
    OBVIOUS
<1> HIDE DEF R
<1>4. PICK x \in S : \A y \in S : ~ (<<y, x>> \in R)
    BY <1>2, WFMin
<1>5. \A y \in S : ~ (y < x)
    BY <1>3, <1>4, Zenon
<1>6. \A y \in S : x =< y
    BY <1>5
<1>7. QED
    BY <1>6 DEF Min

\* The greater of two numbers.
LEMMA MaxOfTwo ==
    ASSUME NEW a \in Nat, NEW b \in Nat
    PROVE  Max({a, b}) = (IF a >= b THEN a ELSE b)
BY DEF Max

-----------------------------------------------------------------------------
(* Types                                                                    *)

Member == [id : Drive, here : BOOLEAN, state : State, to : 0..Units, missing : BOOLEAN, at : Nat]
WriteRecord ==
    [op : {"write"}, range : SUBSET Unit, ok : BOOLEAN, bad : SUBSET Slot, todo : SUBSET WriteLandings,
     pc : {"intent", "intending", "lock", "land", "check", "persist", "round"}, v : Nat]
FlushRecord ==
    [op : {"flush"}, pc : {"sync", "page", "paging", "check", "persist", "round"}, todo : SUBSET Landings,
     ok : BOOLEAN, bad : SUBSET Slot, fresh : SUBSET Unit, owed : [Unit -> Nat]]
OtherRecord == [op : {"reads", "reports"}, pc : {"check", "persist", "round"}, ok : BOOLEAN]
PageRecord == [by : Task, image : SUBSET Unit, bad : SUBSET Slot, any : BOOLEAN, todo : SUBSET Landings]
RoundRecord ==
    [by : Callers, desc : Desc, todo : SUBSET Landings, bad : SUBSET Slot, again : BOOLEAN, err : BOOLEAN]
RebuildRecord ==
    [pc : {"idle", "unit", "copy", "check", "persist", "round", "activate", "ended"},
     targets : SUBSET Slot, key : 0..Units, copies : SUBSET Landings, v : Nat, next : {"idle", "unit", "ended"}]

\* The type invariant by parts, with the functions' domains, and with whom a page
\* or a round of superblocks is written for: its step is the caller's next.
SetOK ==
    /\ phase \in {"up", "down", "opening", "describing"}
    /\ members \in [Slot -> Member]
    /\ events \in Nat /\ sbDirty \in BOOLEAN /\ pool \subseteq Drive
BitsOK == wanted \subseteq Unit /\ durable \subseteq Unit /\ stale \in BOOLEAN
MediaOK ==
    /\ sb \in [Drive -> Desc \cup {None}]
    /\ bm \in [Drive -> Cell(SUBSET Unit)]
    /\ data \in [Drive -> [Unit -> Cell(Nat)]]
TasksOK == task \in [Task -> TaskType]
PageOK == io # None => io \in PageRecord /\ task[io.by].pc \in {"intending", "paging"}
RoundOK == sbw # None => sbw \in RoundRecord /\ (sbw.by \in Task => task[sbw.by].pc = "round")
RebuildOK == rb \in RebuildRecord /\ (rb.pc = "copy" => rb.key < Units)
SupOK == sup \in [pc : {"idle", "persist", "round"}] \cup [pc : {"zero"}, slot : Slot]
HistOK ==
    /\ budget \in Budgets /\ spent \in [Event -> Nat]
    /\ latest \in [Unit -> Nat] /\ acked \in [Unit -> Nat] /\ flushed \in [Unit -> Nat]
    /\ torn \subseteq Unit /\ ticket \in Nat /\ excused \subseteq Shortcoming
TInv == SetOK /\ BitsOK /\ MediaOK /\ TasksOK /\ PageOK /\ RoundOK /\ RebuildOK /\ SupOK /\ HistOK

\* It implies the type invariant of the module.
LEMMA TypesImply == TInv => TypeOK
<1> SUFFICES ASSUME TInv PROVE TypeOK
  OBVIOUS
<1>1. \A S, c : c \in Cell(S) => CellOf(S, c)
  BY DEF Cell, CellOf
<1>2. (\A d \in Drive : CellOf(SUBSET Unit, bm[d])) /\ \A d \in Drive, u \in Unit : CellOf(Nat, data[d][u])
  BY <1>1 DEF TInv, MediaOK
<1>3. \A d \in Drive : sb[d] = None \/ sb[d] \in Desc
  BY DEF TInv, MediaOK
<1>4. sup.pc \in {"idle", "zero", "persist", "round"} /\ (sup.pc = "zero" => sup.slot \in Slot)
  BY DEF TInv, SupOK
<1>5. \A t \in Task : task[t] \in TaskType
  BY DEF TInv, TasksOK
<1> QED
  BY <1>2, <1>3, <1>4, <1>5
     DEF TInv, SetOK, BitsOK, PageOK, RoundOK, RebuildOK, HistOK, TypeOK, Member, PageRecord, RoundRecord, RebuildRecord

\* What the parts say of one request.
LEMMA Kinds ==
    ASSUME TasksOK, NEW t \in Task
    PROVE  /\ task[t] = Idle \/ task[t] \in WriteRecord \/ task[t] \in FlushRecord \/ task[t] \in OtherRecord
           /\ task[t].pc = "idle" => task[t] = Idle
           /\ task[t].pc \in {"intent", "intending", "lock", "land"} => task[t] \in WriteRecord
           /\ task[t].pc \in {"sync", "page", "paging"} => task[t] \in FlushRecord
           /\ task[t].pc # "idle" /\ task[t].op = "write" => task[t] \in WriteRecord
           /\ task[t].pc # "idle" /\ task[t].op = "flush" => task[t] \in FlushRecord
<1>1. task[t] = Idle \/ task[t] \in WriteRecord \/ task[t] \in FlushRecord \/ task[t] \in OtherRecord
  BY DEF TasksOK, TaskType, WriteRecord, FlushRecord, OtherRecord
<1>2. CASE task[t] = Idle
  BY <1>2 DEF Idle
<1>3. CASE task[t] \in WriteRecord
  BY <1>3 DEF WriteRecord
<1>4. CASE task[t] \in FlushRecord
  BY <1>4 DEF FlushRecord
<1>5. CASE task[t] \in OtherRecord
  BY <1>5 DEF OtherRecord
<1> QED
  BY <1>1, <1>2, <1>3, <1>4, <1>5

LEMMA RecordsAreTasks ==
    /\ Idle \in TaskType /\ WriteRecord \subseteq TaskType /\ FlushRecord \subseteq TaskType
    /\ OtherRecord \subseteq TaskType
  BY DEF TaskType, WriteRecord, FlushRecord, OtherRecord

-----------------------------------------------------------------------------
(* Cells                                                                    *)

LEMMA CellSteps ==
    ASSUME NEW S, NEW c \in Cell(S), NEW v \in S
    PROVE  /\ Put(c, v) \in Cell(S) /\ Put(c, v).cur = v
           /\ Flushed(c) \in Cell(S) /\ Flushed(c).cur = c.cur
           /\ Durable(v) \in Cell(S) /\ Durable(v).cur = v
           /\ c.cur \in S /\ c.may \subseteq S
  BY DEF Cell, Put, Flushed, Durable

\* A flush changes nothing that is read.
LEMMA FlushKeeps ==
    ASSUME MediaOK, NEW D, FlushDrives(D)
    PROVE  /\ bm' \in [Drive -> Cell(SUBSET Unit)] /\ data' \in [Drive -> [Unit -> Cell(Nat)]]
           /\ \A d \in Drive : bm'[d].cur = bm[d].cur
           /\ \A d \in Drive, u \in Unit : data'[d][u].cur = data[d][u].cur
<1>1. \A d \in Drive : bm[d] \in Cell(SUBSET Unit) /\ data[d] \in [Unit -> Cell(Nat)]
  BY DEF MediaOK
<1>2. \A d \in Drive : Flushed(bm[d]) \in Cell(SUBSET Unit) /\ Flushed(bm[d]).cur = bm[d].cur
  BY <1>1 DEF Cell, Flushed, Durable
<1>3. \A d \in Drive : /\ FlushAll(data[d]) \in [Unit -> Cell(Nat)]
                       /\ \A u \in Unit : FlushAll(data[d])[u].cur = data[d][u].cur
  BY <1>1 DEF Cell, Flushed, FlushAll, Durable
<1> QED
  BY <1>1, <1>2, <1>3 DEF FlushDrives

\* A cut leaves of each cell a value it may be.
LEMMA CutKeeps ==
    ASSUME NEW D, NEW V, NEW cells \in [D -> Cell(V)], NEW m \in Cut(cells)
    PROVE  m \in [D -> V] /\ \A i \in D : m[i] \in cells[i].may
<1> DEFINE loose == {i \in DOMAIN cells : cells[i].may /= {cells[i].cur}}
           values == UNION {cells[i].may : i \in loose}
<1>1. PICK f \in [loose -> values] : /\ \A i \in loose : f[i] \in cells[i].may
                                     /\ m = [i \in DOMAIN cells |-> IF i \in loose THEN f[i] ELSE cells[i].cur]
  BY DEF Cut
<1>2. DOMAIN cells = D /\ \A i \in D : cells[i].cur \in cells[i].may /\ cells[i].may \subseteq V
  BY DEF Cell
<1> HIDE DEF loose, values
<1>3. \A i \in D : m[i] \in cells[i].may
  BY <1>1, <1>2
<1> QED
  BY <1>1, <1>2, <1>3

-----------------------------------------------------------------------------
(* Steps keep the types                                                     *)

\* What a description, a list of devices and a range's targets are made of.
LEMMA Lists ==
    ASSUME SetOK
    PROVE  /\ AttachedDevices \subseteq Landings /\ Description \in Desc
           /\ \A range \in SUBSET Unit : Targets(range) \subseteq WriteLandings
<1>1. \A i \in Slot : members[i] \in Member
  BY DEF SetOK
<1>2. AttachedDevices \subseteq Landings
  BY <1>1 DEF AttachedDevices, Landings, Member
<1>3. Description \in Desc
  BY <1>1 DEF SetOK, Description, Desc, Record, Member
<1>4. ASSUME NEW range \in SUBSET Unit PROVE Targets(range) \subseteq WriteLandings
  BY <1>2 DEF Targets, WriteLandings, Landings
<1> QED
  BY <1>2, <1>3, <1>4

\* fail_member_as changes one slot's state.
LEMMA FailTyped ==
    ASSUME SetOK, NEW i \in Slot, NEW missing \in BOOLEAN, FailMember(i, missing), UNCHANGED <<phase, pool>>
    PROVE  /\ SetOK'
           /\ \A j \in Slot \ {i} : members'[j] = members[j]
           /\ members'[i].state = "Failed" /\ members'[i].id = members[i].id /\ members'[i].here = members[i].here
           /\ members'[i].to = members[i].to
           /\ events' = events + 1 /\ sbDirty'
<1> DEFINE b == missing /\ members[i].state # "Rebuilding"
           m == [members[i] EXCEPT !.state = "Failed", !.missing = b, !.at = events + 1]
<1>1. members' = [members EXCEPT ![i] = m] /\ events' = events + 1 /\ sbDirty' = TRUE
  BY DEF FailMember
<1>2. members[i] \in Member /\ events + 1 \in Nat /\ members \in [Slot -> Member] /\ b \in BOOLEAN
  BY DEF SetOK
<1> HIDE DEF b
<1>3. m \in Member /\ m.state = "Failed" /\ m.id = members[i].id /\ m.here = members[i].here /\ m.to = members[i].to
  BY <1>2 DEF Member, State
<1> HIDE DEF m
<1> QED
  BY <1>1, <1>2, <1>3 DEF SetOK

\* A step of a request for which neither a page nor a round is written.
LEMMA TaskStep ==
    ASSUME TasksOK, PageOK, RoundOK, NEW t \in Task, NEW r \in TaskType, task' = [task EXCEPT ![t] = r],
           task[t].pc \notin {"intending", "paging", "round"}, UNCHANGED <<io, sbw>>
    PROVE  /\ TasksOK' /\ PageOK' /\ RoundOK'
           /\ task'[t] = r /\ \A x \in Task \ {t} : task'[x] = task[x]
  BY DEF TasksOK, PageOK, RoundOK, PageRecord

\* A request that is at the beginning of one of its steps.
LEMMA MovedTo ==
    ASSUME NEW r, NEW pc
    PROVE  /\ r \in WriteRecord /\ pc \in {"intent", "intending", "lock", "land", "check", "persist", "round"}
                => [r EXCEPT !.pc = pc] \in WriteRecord /\ [r EXCEPT !.pc = pc].pc = pc
           /\ r \in FlushRecord /\ pc \in {"sync", "page", "paging", "check", "persist", "round"}
                => [r EXCEPT !.pc = pc] \in FlushRecord /\ [r EXCEPT !.pc = pc].pc = pc
           /\ r \in OtherRecord /\ pc \in {"check", "persist", "round"}
                => [r EXCEPT !.pc = pc] \in OtherRecord /\ [r EXCEPT !.pc = pc].pc = pc
  BY DEF WriteRecord, FlushRecord, OtherRecord

LEMMA InitTypes == Init => TInv
<1> SUFFICES ASSUME Init PROVE TInv
  OBVIOUS
<1>1. SetOK
  <2>1. \A i \in Slot : [id |-> Home[i], here |-> TRUE, state |-> "Active", to |-> 0, missing |-> FALSE, at |-> 0] \in Member
    BY SizesAssumption, HomeAssumption DEF Member, State
  <2> QED
    BY <2>1 DEF Init, SetOK
<1>2. Description \in Desc
  BY <1>1, Lists
<1>3. \A d \in Drive : Durable({}) \in Cell(SUBSET Unit) /\ Durable(0) \in Cell(Nat) /\ Durable(1) \in Cell(Nat)
  BY DEF Durable, Cell
<1>4. MediaOK
  BY <1>2, <1>3 DEF Init, MediaOK
<1>5. TasksOK
  BY RecordsAreTasks DEF Init, TasksOK
<1>6. RebuildOK /\ SupOK
  BY SizesAssumption DEF Init, RebuildOK, RebuildRecord, NoRebuild, SupOK
<1>7. PageOK /\ RoundOK /\ BitsOK
  BY DEF Init, PageOK, RoundOK, BitsOK
<1>8. HistOK
  BY DEF Init, HistOK
<1> QED
  BY <1>1, <1>4, <1>5, <1>6, <1>7, <1>8 DEF TInv

\* What a budget allows is counted.
LEMMA SpendTyped == ASSUME HistOK, NEW e \in Event, Spend(e) PROVE spent' \in [Event -> Nat] /\ spent'[e] = spent[e] + 1
                                                    /\ \A x \in Event \ {e} : spent'[x] = spent[x]
  BY DEF HistOK, Spend

LEMMA BeginWriteTypes ==
    ASSUME TInv, NEW t \in Task, NEW r \in SUBSET Unit, BeginWrite(t, r) PROVE TInv'
<1> USE DEF TInv
<1> DEFINE k == [op |-> "write", range |-> r, ok |-> FALSE, bad |-> {}, todo |-> {},
                 pc |-> IF r \subseteq durable THEN "lock" ELSE "intent", v |-> 0]
<1>1. k \in WriteRecord /\ task' = [task EXCEPT ![t] = k] /\ task[t].pc = "idle" /\ UNCHANGED <<io, sbw>>
  BY DEF BeginWrite, WriteRecord, Idle
<1> HIDE DEF k
<1>2. TasksOK' /\ PageOK' /\ RoundOK'
  BY <1>1, TaskStep, RecordsAreTasks
<1>3. spent' \in [Event -> Nat] /\ excused' \subseteq Shortcoming
  BY SpendTyped DEF BeginWrite, Excuse, Event, HistOK, Shortcoming
<1>4. HistOK' /\ BitsOK'
  BY <1>3 DEF HistOK, BitsOK, BeginWrite
<1>5. SetOK' /\ MediaOK' /\ RebuildOK' /\ SupOK'
  BY DEF BeginWrite, SetOK, MediaOK, RebuildOK, SupOK, memVars, mediaVars
<1> QED
  BY <1>2, <1>4, <1>5

LEMMA IntentDurableTypes == ASSUME TInv, NEW t \in Task, IntentDurable(t) PROVE TInv'
<1> USE DEF TInv
<1>1. task[t] \in WriteRecord /\ task' = [task EXCEPT ![t] = [task[t] EXCEPT !.pc = "lock"]] /\ task[t].pc = "intent"
  BY Kinds DEF IntentDurable
<1>2. TasksOK' /\ PageOK' /\ RoundOK'
  BY <1>1, MovedTo, TaskStep, RecordsAreTasks DEF IntentDurable
<1> QED
  BY <1>2 DEF IntentDurable, SetOK, BitsOK, MediaOK, RebuildOK, SupOK, HistOK, memVars, mapVars, mediaVars, histVars

LEMMA StartPageTypes == ASSUME TInv, NEW t \in Task, StartPage(t) PROVE TInv'
<1> USE DEF TInv
<1>1. CASE wanted # durable \/ stale
  <2> DEFINE pc == IF task[t].pc = "page" THEN "paging" ELSE "intending"
             p == [by |-> t, image |-> wanted, bad |-> {}, any |-> FALSE, todo |-> AttachedDevices]
  <2>1. /\ io' = p /\ io = None
        /\ task' = [task EXCEPT ![t] = [task[t] EXCEPT !.pc = pc]]
        /\ task[t].pc \in {"page", "intent"} /\ UNCHANGED sbw
    BY <1>1 DEF StartPage
  <2>2. p \in PageRecord
    BY Lists DEF PageRecord, BitsOK
  <2>3. [task[t] EXCEPT !.pc = pc] \in TaskType /\ [task[t] EXCEPT !.pc = pc].pc = pc
    BY <2>1, Kinds, MovedTo, RecordsAreTasks
  <2>4. TasksOK' /\ task'[t].pc = pc /\ \A x \in Task \ {t} : task'[x] = task[x]
    BY <2>1, <2>3 DEF TasksOK
  <2>5. PageOK' /\ RoundOK'
    BY <2>1, <2>2, <2>4 DEF PageOK, RoundOK
  <2> QED
    BY <2>4, <2>5 DEF StartPage, SetOK, BitsOK, MediaOK, RebuildOK, SupOK, HistOK, memVars, mapVars, mediaVars,
                      Excuse, Shortcoming
<1>2. CASE ~ (wanted # durable \/ stale)
  <2>1. /\ task' = [task EXCEPT ![t] = [task[t] EXCEPT !.pc = "check"]]
        /\ task[t].pc \in {"page", "intent"} /\ UNCHANGED <<io, sbw>>
    BY <1>2 DEF StartPage
  <2>2. [task[t] EXCEPT !.pc = "check"] \in TaskType
    BY <2>1, Kinds, MovedTo, RecordsAreTasks
  <2>3. TasksOK' /\ PageOK' /\ RoundOK'
    BY <2>1, <2>2, TaskStep
  <2> QED
    BY <2>3 DEF StartPage, SetOK, BitsOK, MediaOK, RebuildOK, SupOK, HistOK, memVars, mapVars, mediaVars,
                Excuse, Shortcoming
<1> QED
  BY <1>1, <1>2

LEMMA LandPageTypes == ASSUME TInv, NEW l \in Landings, LandPage(l) PROVE TInv'
<1> USE DEF TInv
<1>1. io \in PageRecord /\ l.drive \in Drive /\ l.slot \in Slot
  BY DEF LandPage, PageOK, Landings
<1>2. io' # None => io' \in PageRecord /\ io'.by = io.by
  <2>1. CASE io' = [io EXCEPT !.todo = @ \ {l}, !.any = TRUE]
    BY <1>1, <2>1 DEF PageRecord
  <2>2. CASE io' = [io EXCEPT !.todo = @ \ {l}, !.bad = @ \cup {l.slot}]
    BY <1>1, <2>2 DEF PageRecord
  <2> QED
    BY <2>1, <2>2 DEF LandPage
<1>3. PageOK' /\ TasksOK' /\ RoundOK'
  BY <1>2 DEF PageOK, TasksOK, RoundOK, LandPage
<1>4. MediaOK'
  <2>1. Durable(io.image) \in Cell(SUBSET Unit)
    BY <1>1 DEF Durable, Cell, PageRecord
  <2>2. FlushAll(data[l.drive]) \in [Unit -> Cell(Nat)]
    BY <1>1 DEF FlushAll, Flushed, Durable, Cell, MediaOK
  <2>3. CASE UNCHANGED <<bm, data>>
    BY <2>3 DEF MediaOK, LandPage
  <2>4. CASE bm' = [bm EXCEPT ![l.drive] = Durable(io.image)] /\ data' = [data EXCEPT ![l.drive] = FlushAll(@)]
    <3>1. bm' \in [Drive -> Cell(SUBSET Unit)]
      BY <1>1, <2>1, <2>4 DEF MediaOK
    <3>2. data' \in [Drive -> [Unit -> Cell(Nat)]]
      BY <1>1, <2>2, <2>4 DEF MediaOK
    <3>3. sb' = sb
      BY DEF LandPage
    <3> QED
      BY <3>1, <3>2, <3>3 DEF MediaOK
  <2> QED
    BY <2>3, <2>4 DEF LandPage
<1>5. HistOK'
  <2>1. spent' \in [Event -> Nat]
    BY SpendTyped DEF LandPage, HistOK, Event
  <2> QED
    BY <2>1 DEF LandPage, HistOK, histVars
<1> QED
  BY <1>3, <1>4, <1>5 DEF LandPage, SetOK, BitsOK, RebuildOK, SupOK, memVars, mapVars

\* The least of the slots that failed is one of them.
LEMMA LeastSlot == ASSUME NEW S \in SUBSET Slot, S # {} PROVE Min(S) \in S /\ \A i \in S : Min(S) <= i
  BY MinIsMember, SizesAssumption DEF Slot

LEMMA JudgePageTypes == ASSUME TInv, JudgePage PROVE TInv'
<1> USE DEF TInv
<1>1. io \in PageRecord /\ io.by \in Task /\ io.bad \subseteq Slot /\ task[io.by].pc \in {"intending", "paging"}
  BY DEF JudgePage, PageOK, PageRecord
<1>2. CASE io.bad # {} /\ Failable(Min(io.bad))
  <2>1. /\ FailMember(Min(io.bad), FALSE) /\ io' = [io EXCEPT !.bad = @ \ {Min(io.bad)}]
        /\ UNCHANGED <<phase, pool, task, sbw>>
    BY <1>2 DEF JudgePage
  <2>2. SetOK'
    BY <1>1, <1>2, <2>1, LeastSlot, FailTyped
  <2>3. io' \in PageRecord /\ io'.by = io.by
    BY <1>1, <2>1 DEF PageRecord
  <2> QED
    BY <1>1, <2>1, <2>2, <2>3
       DEF JudgePage, PageOK, TasksOK, RoundOK, BitsOK, MediaOK, RebuildOK, SupOK, HistOK, mapVars, mediaVars, histVars
<1>3. CASE ~ (io.bad # {} /\ Failable(Min(io.bad)))
  <2> DEFINE r == IF task[io.by].op = "write" THEN Idle ELSE [task[io.by] EXCEPT !.pc = "check"]
  <2>1. io' = None /\ task' = [task EXCEPT ![io.by] = r] /\ UNCHANGED <<memVars, sbw>>
    BY <1>3 DEF JudgePage
  <2>2. r \in TaskType
    <3>1. task[io.by].pc = "paging" => task[io.by] \in FlushRecord
      BY <1>1, Kinds
    <3>2. task[io.by].pc = "intending" => task[io.by].op = "write"
      BY <1>1, Kinds DEF WriteRecord
    <3> QED
      BY <1>1, <3>1, <3>2, MovedTo, RecordsAreTasks
  <2> HIDE DEF r
  <2>3. TasksOK' /\ PageOK' /\ RoundOK'
    BY <1>1, <2>1, <2>2 DEF TasksOK, PageOK, RoundOK
  <2> QED
    BY <2>1, <2>3 DEF JudgePage, SetOK, BitsOK, MediaOK, RebuildOK, SupOK, HistOK, memVars, mapVars, mediaVars, histVars
<1> QED
  BY <1>2, <1>3

LEMMA CommitPageTypes == ASSUME TInv, CommitPage PROVE TInv'
<1> USE DEF TInv
<1> DEFINE pc == IF task[io.by].pc = "paging" THEN "check" ELSE "intent"
           r == [task[io.by] EXCEPT !.pc = pc]
<1>1. io \in PageRecord /\ io.by \in Task /\ task[io.by].pc \in {"intending", "paging"} /\ io.image \subseteq Unit
  BY DEF CommitPage, PageOK, PageRecord
<1>2. io' = None /\ task' = [task EXCEPT ![io.by] = r] /\ durable' = io.image /\ stale' = FALSE /\ UNCHANGED <<wanted, sbw>>
  BY DEF CommitPage
<1>3. r \in TaskType
  BY <1>1, Kinds, MovedTo, RecordsAreTasks
<1> HIDE DEF r
<1>4. TasksOK' /\ PageOK' /\ RoundOK' /\ BitsOK'
  BY <1>1, <1>2, <1>3 DEF TasksOK, PageOK, RoundOK, BitsOK
<1> QED
  BY <1>4 DEF CommitPage, SetOK, MediaOK, RebuildOK, SupOK, HistOK, memVars, mediaVars, histVars

LEMMA LockRangeTypes == ASSUME TInv, NEW t \in Task, LockRange(t) PROVE TInv'
<1> USE DEF TInv
<1> DEFINE n == ticket + 1
           todo == Targets(task[t].range)
           k == [task[t] EXCEPT !.pc = "land", !.v = n, !.todo = todo]
<1>1. task[t] \in WriteRecord /\ task[t].pc = "lock" /\ ticket' = n /\ n \in Nat
  BY Kinds DEF LockRange, HistOK
<1>2. task' = [task EXCEPT ![t] = k] /\ UNCHANGED <<io, sbw>>
  BY <1>1 DEF LockRange, WriteRecord, TasksOK
<1>3. todo \subseteq WriteLandings
  BY <1>1, Lists DEF WriteRecord
<1> HIDE DEF n, todo
<1>4. k \in WriteRecord
  BY <1>1, <1>3 DEF WriteRecord
<1> HIDE DEF k
<1>5. TasksOK' /\ PageOK' /\ RoundOK'
  BY <1>1, <1>2, <1>4, TaskStep, RecordsAreTasks
<1>6. HistOK'
  BY <1>1 DEF LockRange, HistOK
<1> QED
  BY <1>5, <1>6 DEF LockRange, SetOK, BitsOK, MediaOK, RebuildOK, SupOK, memVars, mapVars, mediaVars

\* What a request becomes when one member answers it.
LEMMA LandDataTask ==
    ASSUME TInv, NEW t \in Task, NEW l, LandData(t, l)
    PROVE  /\ task[t] \in WriteRecord /\ l \in WriteLandings /\ l \in task[t].todo /\ task[t].pc = "land"
           /\ \A x \in Task \ {t} : task'[x] = task[x]
           /\ task'[t] \in WriteRecord /\ task'[t].pc = "land" /\ task'[t].v = task[t].v
           /\ task'[t].range = task[t].range /\ task'[t].todo = task[t].todo \ {l}
           /\ \/ task'[t].bad = task[t].bad
              \/ task'[t].bad = task[t].bad \cup {l.slot} /\ task'[t].ok = task[t].ok
           /\ task' = [task EXCEPT ![t] = task'[t]]
<1>1. task[t] \in WriteRecord /\ l \in WriteLandings /\ l \in task[t].todo /\ task[t].pc = "land" /\ task \in [Task -> TaskType]
  BY Kinds DEF TInv, LandData, WriteRecord, TasksOK
<1>2. l.slot \in Slot
  BY <1>1 DEF WriteLandings
<1>3. CASE task' = [task EXCEPT ![t].todo = @ \ {l}, ![t].ok = @ \/ l.part = task[t].range]
  <2> DEFINE b == task[t].ok \/ l.part = task[t].range
             k == [task[t] EXCEPT !.todo = @ \ {l}, !.ok = b]
  <2>1. b \in BOOLEAN
    OBVIOUS
  <2>2. task'[t] = k /\ task' = [task EXCEPT ![t] = k]
    BY <1>1, <1>3 DEF WriteRecord
  <2> HIDE DEF b
  <2>3. /\ k \in WriteRecord /\ k.pc = "land" /\ k.v = task[t].v /\ k.range = task[t].range
        /\ k.todo = task[t].todo \ {l} /\ k.bad = task[t].bad
    BY <1>1, <2>1 DEF WriteRecord
  <2> HIDE DEF k
  <2> QED
    BY <1>1, <2>2, <2>3
<1>4. CASE task' = [task EXCEPT ![t].todo = @ \ {l}, ![t].bad = @ \cup {l.slot}]
  <2> DEFINE k == [task[t] EXCEPT !.todo = @ \ {l}, !.bad = @ \cup {l.slot}]
  <2>2. task'[t] = k /\ task' = [task EXCEPT ![t] = k]
    BY <1>1, <1>4 DEF WriteRecord
  <2>3. /\ k \in WriteRecord /\ k.pc = "land" /\ k.v = task[t].v /\ k.range = task[t].range
        /\ k.todo = task[t].todo \ {l} /\ k.bad = task[t].bad \cup {l.slot} /\ k.ok = task[t].ok
    BY <1>1, <1>2 DEF WriteRecord
  <2> HIDE DEF k
  <2> QED
    BY <1>1, <2>2, <2>3
<1> QED
  BY <1>3, <1>4 DEF LandData

\* What it does to the drives: the units of the landing get the write, or nothing.
LEMMA LandDataMedia ==
    ASSUME TInv, NEW t \in Task, NEW l, LandData(t, l)
    PROVE  /\ data' \in [Drive -> [Unit -> Cell(Nat)]]
           /\ \A d \in Drive, u \in Unit : d # l.drive \/ u \notin l.part => data'[d][u] = data[d][u]
           /\ \/ \A u \in l.part : data'[l.drive][u].cur = task[t].v
              \/ task'[t].bad = task[t].bad \cup {l.slot} /\ data' = data
<1> DEFINE cells == [u \in Unit |-> IF u \in l.part THEN Put(data[l.drive][u], task[t].v) ELSE data[l.drive][u]]
           landed == [data EXCEPT ![l.drive] = cells]
<1>1. /\ task[t] \in WriteRecord /\ l \in WriteLandings /\ task[t].v \in Nat /\ l.drive \in Drive /\ l.part \subseteq Unit
      /\ data \in [Drive -> [Unit -> Cell(Nat)]] /\ task \in [Task -> TaskType]
  BY LandDataTask DEF WriteRecord, WriteLandings, TInv, MediaOK, TasksOK
<1>2. \A u \in Unit : /\ Put(data[l.drive][u], task[t].v) \in Cell(Nat)
                      /\ Put(data[l.drive][u], task[t].v).cur = task[t].v
  <2>1. \A u \in Unit : data[l.drive][u] \in Cell(Nat)
    BY <1>1
  <2> QED
    BY <1>1, <2>1 DEF Put, Cell
<1>3. cells \in [Unit -> Cell(Nat)] /\ \A u \in l.part : cells[u].cur = task[t].v
  BY <1>1, <1>2
<1>4. \A u \in Unit \ l.part : cells[u] = data[l.drive][u]
  OBVIOUS
<1>5. data' = landed \/ (data' = data /\ task' = [task EXCEPT ![t].todo = @ \ {l}, ![t].bad = @ \cup {l.slot}])
  BY Zenon DEF LandData
<1> HIDE DEF cells
<1>6. CASE data' = landed
  BY <1>1, <1>3, <1>4, <1>6
<1>7. CASE data' = data /\ task' = [task EXCEPT ![t].todo = @ \ {l}, ![t].bad = @ \cup {l.slot}]
  <2>1. task'[t].bad = task[t].bad \cup {l.slot}
    BY <1>1, <1>7 DEF WriteRecord
  <2> QED
    BY <1>1, <1>7, <2>1
<1> QED
  BY <1>5, <1>6, <1>7

LEMMA LandDataTypes == ASSUME TInv, NEW t \in Task, NEW l, LandData(t, l) PROVE TInv'
<1> USE DEF TInv
<1>1. TasksOK' /\ PageOK' /\ RoundOK'
  <2>1. UNCHANGED <<io, sbw>>
    BY DEF LandData
  <2> QED
    BY <2>1, LandDataTask, TaskStep, RecordsAreTasks
<1>2. MediaOK'
  BY LandDataMedia DEF MediaOK, LandData
<1>3. spent' \in [Event -> Nat]
  <2>1. Spend("faults") \/ UNCHANGED spent
    BY DEF LandData
  <2> QED
    BY <2>1, SpendTyped DEF HistOK, Event
<1> QED
  BY <1>1, <1>2, <1>3 DEF LandData, SetOK, BitsOK, RebuildOK, SupOK, HistOK, memVars, mapVars, histVars

\* What a judgement does: a slot fails, or the request does.
LEMMA JudgeTask ==
    ASSUME TInv, NEW t \in Task, Judge(t)
    PROVE  /\ task[t].pc \in {"land", "sync"} /\ task[t].todo = {} /\ task[t].bad # {} /\ task[t].bad \subseteq Slot
           /\ task' = [task EXCEPT ![t] = task'[t]] /\ task'[t] \in TaskType
           /\ \A x \in Task \ {t} : task'[x] = task[x]
           /\ task[t] \in WriteRecord => task'[t] \in WriteRecord /\ task'[t].v = task[t].v /\ task'[t].range = task[t].range
           /\ task[t] \in FlushRecord => task'[t] \in FlushRecord /\ task'[t].owed = task[t].owed /\ task'[t].fresh = task[t].fresh
           /\ task'[t].pc = task[t].pc /\ task'[t].todo = {}
           /\ \/ \E i \in task[t].bad : /\ Failable(i) /\ FailMember(i, FALSE)
                                        /\ task'[t].bad = task[t].bad \ {i} /\ task'[t].ok = task[t].ok
              \/ UNCHANGED memVars /\ task'[t].bad = {} /\ ~ task'[t].ok
<1>1. /\ task[t].pc \in {"land", "sync"} /\ task[t].todo = {} /\ task[t].bad # {} /\ task \in [Task -> TaskType]
      /\ task[t] \in WriteRecord \/ task[t] \in FlushRecord
  BY Kinds DEF TInv, Judge, TasksOK
<1>2. task[t].bad \subseteq Slot
  BY <1>1 DEF WriteRecord, FlushRecord
<1> DEFINE i == Min(task[t].bad)
<1>3. i \in task[t].bad
  BY <1>1, <1>2, LeastSlot
<1>4. CASE Failable(i)
  <2> DEFINE k == [task[t] EXCEPT !.bad = @ \ {i}]
  <2>1. FailMember(i, FALSE) /\ task' = [task EXCEPT ![t] = k]
    BY <1>4 DEF Judge
  <2> HIDE DEF i
  <2>2. CASE task[t] \in WriteRecord
    <3>1. /\ k \in WriteRecord /\ k.bad = task[t].bad \ {i} /\ k.ok = task[t].ok /\ k.pc = task[t].pc /\ k.todo = {}
          /\ k.v = task[t].v /\ k.range = task[t].range
      BY <1>1, <2>2 DEF WriteRecord
    <3>2. task[t] \notin FlushRecord
      BY <2>2 DEF WriteRecord, FlushRecord
    <3> HIDE DEF k
    <3> QED
      BY <1>1, <1>2, <1>3, <1>4, <2>1, <2>2, <3>1, <3>2, RecordsAreTasks
  <2>3. CASE task[t] \in FlushRecord
    <3>1. /\ k \in FlushRecord /\ k.bad = task[t].bad \ {i} /\ k.ok = task[t].ok /\ k.pc = task[t].pc /\ k.todo = {}
          /\ k.owed = task[t].owed /\ k.fresh = task[t].fresh
      BY <1>1, <2>3 DEF FlushRecord
    <3>2. task[t] \notin WriteRecord
      BY <2>3 DEF WriteRecord, FlushRecord
    <3> HIDE DEF k
    <3> QED
      BY <1>1, <1>2, <1>3, <1>4, <2>1, <2>3, <3>1, <3>2, RecordsAreTasks
  <2> QED
    BY <1>1, <2>2, <2>3
<1>5. CASE ~ Failable(i)
  <2> DEFINE k == [task[t] EXCEPT !.bad = {}, !.ok = FALSE]
  <2>1. UNCHANGED memVars /\ task' = [task EXCEPT ![t].bad = {}, ![t].ok = FALSE]
    BY <1>5 DEF Judge
  <2> HIDE DEF i
  <2>2. CASE task[t] \in WriteRecord
    <3>1. /\ k \in WriteRecord /\ k.bad = {} /\ ~ k.ok /\ k.pc = task[t].pc /\ k.todo = {}
          /\ k.v = task[t].v /\ k.range = task[t].range
      BY <1>1, <2>2 DEF WriteRecord
    <3>2. task[t] \notin FlushRecord
      BY <2>2 DEF WriteRecord, FlushRecord
    <3>3. task' = [task EXCEPT ![t] = k]
      BY <1>1, <2>1, <2>2 DEF WriteRecord
    <3> HIDE DEF k
    <3> QED
      BY <1>1, <1>2, <2>1, <2>2, <3>1, <3>2, <3>3, RecordsAreTasks
  <2>3. CASE task[t] \in FlushRecord
    <3>1. /\ k \in FlushRecord /\ k.bad = {} /\ ~ k.ok /\ k.pc = task[t].pc /\ k.todo = {}
          /\ k.owed = task[t].owed /\ k.fresh = task[t].fresh
      BY <1>1, <2>3 DEF FlushRecord
    <3>2. task[t] \notin WriteRecord
      BY <2>3 DEF WriteRecord, FlushRecord
    <3>3. task' = [task EXCEPT ![t] = k]
      BY <1>1, <2>1, <2>3 DEF FlushRecord
    <3> HIDE DEF k
    <3> QED
      BY <1>1, <1>2, <2>1, <2>3, <3>1, <3>2, <3>3, RecordsAreTasks
  <2> QED
    BY <1>1, <2>2, <2>3
<1> QED
  BY <1>4, <1>5

\* A step that changes the slot table only by a failure, or not at all.
LEMMA MaybeFailTyped ==
    ASSUME SetOK, NEW i \in Slot, FailMember(i, FALSE) \/ UNCHANGED memVars, UNCHANGED <<phase, pool>>
    PROVE  SetOK'
  BY FailTyped DEF SetOK, memVars

LEMMA JudgeTypes == ASSUME TInv, NEW t \in Task, Judge(t) PROVE TInv'
<1>0. /\ task' = [task EXCEPT ![t] = task'[t]] /\ task'[t] \in TaskType /\ UNCHANGED <<io, sbw>>
      /\ task[t].pc \notin {"intending", "paging", "round"}
  <2>1. task[t].pc \in {"land", "sync"} /\ UNCHANGED <<io, sbw>>
    BY DEF Judge
  <2>2. task' = [task EXCEPT ![t] = task'[t]] /\ task'[t] \in TaskType
    BY JudgeTask, ZenonT(40)
  <2> QED
    BY <2>1, <2>2
<1> USE DEF TInv
<1>1. TasksOK' /\ PageOK' /\ RoundOK'
  BY <1>0, TaskStep, ZenonT(40)
<1>2. SetOK'
  BY JudgeTask, FailTyped DEF Judge, SetOK, memVars
<1> QED
  BY <1>1, <1>2 DEF Judge, BitsOK, MediaOK, RebuildOK, SupOK, HistOK, mapVars, mediaVars, histVars

\* The end of a write: flushes that run are told that its range is not idle.
LEMMA EndWriteTask ==
    ASSUME TInv, NEW t \in Task, EndWrite(t)
    PROVE  /\ task[t] \in WriteRecord /\ task[t].pc = "land" /\ task[t].todo = {} /\ task[t].bad = {}
           /\ task' \in [Task -> TaskType]
           /\ task'[t] = [task[t] EXCEPT !.pc = "check"] /\ task'[t] \in WriteRecord
           /\ \A x \in Task \ {t} :
                \/ task'[x] = task[x] /\ x \notin Running("flush")
                \/ /\ task[x] \in FlushRecord /\ task'[x] \in FlushRecord /\ task'[x].owed = task[x].owed
                   /\ task'[x].pc = task[x].pc /\ task'[x].ok = task[x].ok /\ task'[x].todo = task[x].todo
                   /\ task'[x].bad = task[x].bad
<1> DEFINE range == task[t].range
           f(x) == CASE x = t -> [task[t] EXCEPT !.pc = "check"]
                     [] x # t /\ x \in Running("flush") -> [task[x] EXCEPT !.fresh = @ \cup range]
                     [] OTHER -> task[x]
<1>1. task[t] \in WriteRecord /\ task[t].pc = "land" /\ task[t].todo = {} /\ task[t].bad = {} /\ range \subseteq Unit
  BY Kinds DEF TInv, EndWrite, WriteRecord
<1>2. task' = [x \in Task |-> f(x)]
  BY DEF EndWrite
<1>3. f(t) = [task[t] EXCEPT !.pc = "check"] /\ f(t) \in WriteRecord
  BY <1>1, MovedTo
<1>4. ASSUME NEW x \in Task \ {t}
      PROVE  \/ f(x) = task[x] /\ x \notin Running("flush")
             \/ /\ task[x] \in FlushRecord /\ f(x) \in FlushRecord /\ f(x).owed = task[x].owed
                /\ f(x).pc = task[x].pc /\ f(x).ok = task[x].ok /\ f(x).todo = task[x].todo /\ f(x).bad = task[x].bad
  <2>1. CASE x \in Running("flush")
    <3>1. task[x] \in FlushRecord /\ f(x) = [task[x] EXCEPT !.fresh = @ \cup range]
      BY <2>1, Kinds DEF Running, TInv
    <3> HIDE DEF f, range
    <3> QED
      BY <1>1, <3>1 DEF FlushRecord
  <2>2. CASE x \notin Running("flush")
    BY <2>2
  <2> QED
    BY <2>1, <2>2
<1> HIDE DEF f, range
<1>5. \A x \in Task : f(x) \in TaskType
  BY <1>3, <1>4, RecordsAreTasks DEF TInv, TasksOK
<1> QED
  BY <1>1, <1>2, <1>3, <1>4, <1>5

LEMMA EndWriteTypes == ASSUME TInv, NEW t \in Task, EndWrite(t) PROVE TInv'
<1> USE DEF TInv
<1>1. TasksOK' /\ \A x \in Task \ {t} : task'[x].pc = task[x].pc
  BY EndWriteTask DEF TasksOK
<1>2. PageOK' /\ RoundOK'
  BY <1>1, EndWriteTask DEF PageOK, RoundOK, PageRecord, EndWrite
<1>3. task[t].v \in Nat /\ task[t].range \subseteq Unit
  BY EndWriteTask DEF WriteRecord
<1>4. latest' \in [Unit -> Nat] /\ torn' \subseteq Unit
  BY <1>3 DEF EndWrite, HistOK
<1> QED
  BY <1>1, <1>2, <1>4 DEF EndWrite, SetOK, BitsOK, MediaOK, RebuildOK, SupOK, HistOK, memVars, mapVars, mediaVars

LEMMA StartFlushTypes == ASSUME TInv, NEW t \in Task, StartFlush(t) PROVE TInv'
<1> USE DEF TInv
<1> DEFINE k == [op |-> "flush", pc |-> "sync", todo |-> AttachedDevices, ok |-> TRUE, bad |-> {}, fresh |-> {},
                 owed |-> acked]
<1>1. k \in FlushRecord /\ task' = [task EXCEPT ![t] = k] /\ task[t].pc = "idle" /\ UNCHANGED <<io, sbw>>
  BY Lists DEF StartFlush, FlushRecord, Idle, HistOK
<1> HIDE DEF k
<1>2. TasksOK' /\ PageOK' /\ RoundOK'
  BY <1>1, TaskStep, RecordsAreTasks
<1>3. HistOK'
  BY SpendTyped DEF StartFlush, HistOK, Event, histVars
<1> QED
  BY <1>2, <1>3 DEF StartFlush, SetOK, BitsOK, MediaOK, RebuildOK, SupOK, memVars, mapVars, mediaVars

\* What a flush becomes when one member answers it.
LEMMA SyncMemberTask ==
    ASSUME TInv, NEW t \in Task, NEW l \in Landings, SyncMember(t, l)
    PROVE  /\ task[t] \in FlushRecord /\ task[t].pc = "sync" /\ task'[t] \in FlushRecord /\ task'[t].pc = "sync"
           /\ task'[t].owed = task[t].owed /\ task'[t].fresh = task[t].fresh
           /\ task' = [task EXCEPT ![t] = task'[t]]
<1>1. task[t] \in FlushRecord /\ task[t].pc = "sync" /\ task \in [Task -> TaskType] /\ l.slot \in Slot
  BY Kinds DEF TInv, SyncMember, TasksOK, Landings
<1>2. CASE task' = [task EXCEPT ![t].todo = @ \ {l}]
  <2> DEFINE k == [task[t] EXCEPT !.todo = @ \ {l}]
  <2>1. k \in FlushRecord /\ k.pc = "sync" /\ k.owed = task[t].owed /\ k.fresh = task[t].fresh
    BY <1>1 DEF FlushRecord
  <2>2. task' = [task EXCEPT ![t] = k]
    BY <1>2
  <2> HIDE DEF k
  <2> QED
    BY <1>1, <2>1, <2>2
<1>3. CASE task' = [task EXCEPT ![t].todo = @ \ {l}, ![t].bad = @ \cup {l.slot}]
  <2> DEFINE k == [task[t] EXCEPT !.todo = @ \ {l}, !.bad = @ \cup {l.slot}]
  <2>1. k \in FlushRecord /\ k.pc = "sync" /\ k.owed = task[t].owed /\ k.fresh = task[t].fresh
    BY <1>1 DEF FlushRecord
  <2>2. task' = [task EXCEPT ![t] = k]
    BY <1>1, <1>3 DEF FlushRecord
  <2> HIDE DEF k
  <2> QED
    BY <1>1, <2>1, <2>2
<1> QED
  BY <1>2, <1>3 DEF SyncMember

\* It changes nothing that is read.
LEMMA SyncMemberMedia ==
    ASSUME MediaOK, NEW t, NEW l, SyncMember(t, l)
    PROVE  /\ bm' \in [Drive -> Cell(SUBSET Unit)] /\ data' \in [Drive -> [Unit -> Cell(Nat)]] /\ sb' = sb
           /\ \A d \in Drive : bm'[d].cur = bm[d].cur
           /\ \A d \in Drive, u \in Unit : data'[d][u].cur = data[d][u].cur
<1>1. sb' = sb /\ (FlushDrives({l.drive}) \/ UNCHANGED <<data, bm>>)
  BY DEF SyncMember
<1> QED
  BY <1>1, FlushKeeps DEF MediaOK

LEMMA SyncMemberTypes == ASSUME TInv, NEW t \in Task, NEW l \in Landings, SyncMember(t, l) PROVE TInv'
<1> USE DEF TInv
<1>1. TasksOK' /\ PageOK' /\ RoundOK'
  <2>1. UNCHANGED <<io, sbw>>
    BY DEF SyncMember
  <2> QED
    BY <2>1, SyncMemberTask, TaskStep, RecordsAreTasks
<1>2. MediaOK'
  BY SyncMemberMedia DEF MediaOK
<1>3. spent' \in [Event -> Nat]
  <2>1. Spend("faults") \/ UNCHANGED spent
    BY DEF SyncMember
  <2> QED
    BY <2>1, SpendTyped DEF HistOK, Event
<1> QED
  BY <1>1, <1>2, <1>3 DEF SyncMember, SetOK, BitsOK, RebuildOK, SupOK, HistOK, memVars, mapVars, histVars

LEMMA ClearIdleTypes == ASSUME TInv, NEW t \in Task, ClearIdle(t) PROVE TInv'
<1> USE DEF TInv
<1>1. task[t] \in FlushRecord /\ task[t].pc = "sync"
  BY Kinds DEF ClearIdle
<1>2. PICK C : /\ wanted' = wanted \ C /\ durable' = durable \ C /\ stale' = (stale \/ C # {})
               /\ task' = [task EXCEPT ![t] = [task[t] EXCEPT !.pc = IF C # {} THEN "page" ELSE "check"]]
               /\ Excuse("unrecorded", C # {} /\ Unrecorded # {})
  BY DEF ClearIdle
<1>3. [task[t] EXCEPT !.pc = IF C # {} THEN "page" ELSE "check"] \in TaskType
  BY <1>1, MovedTo, RecordsAreTasks
<1>4. TasksOK' /\ PageOK' /\ RoundOK'
  BY <1>1, <1>2, <1>3, TaskStep DEF ClearIdle
<1>5. BitsOK'
  BY <1>2 DEF BitsOK
<1>6. HistOK'
  BY <1>2 DEF HistOK, ClearIdle, Excuse, Shortcoming
<1> QED
  BY <1>4, <1>5, <1>6 DEF ClearIdle, SetOK, MediaOK, RebuildOK, SupOK, memVars, mediaVars

LEMMA FailOnRequestTypes ==
    ASSUME TInv, NEW t \in Task, NEW i \in Slot, NEW op \in {"reads", "reports"}, NEW missing \in BOOLEAN,
           FailOnRequest(t, i, op, missing)
    PROVE  TInv'
<1> USE DEF TInv
<1> DEFINE k == [op |-> op, pc |-> "check", ok |-> TRUE]
<1>1. k \in OtherRecord /\ task' = [task EXCEPT ![t] = k] /\ task[t].pc = "idle" /\ UNCHANGED <<io, sbw>>
  BY DEF FailOnRequest, OtherRecord, Idle
<1> HIDE DEF k
<1>2. TasksOK' /\ PageOK' /\ RoundOK'
  BY <1>1, TaskStep, RecordsAreTasks
<1>3. SetOK'
  <2>1. FailMember(i, missing) \/ UNCHANGED memVars
    BY DEF FailOnRequest
  <2>2. UNCHANGED <<phase, pool>>
    BY DEF FailOnRequest
  <2> QED
    BY <2>1, <2>2, FailTyped DEF SetOK, memVars
<1>4. HistOK'
  BY SpendTyped DEF FailOnRequest, HistOK, Event, histVars
<1> QED
  BY <1>2, <1>3, <1>4 DEF FailOnRequest, BitsOK, MediaOK, RebuildOK, SupOK, mapVars, mediaVars

\* What an answer does to the history.
LEMMA Answered ==
    ASSUME TInv, NEW t \in Task, task[t].pc # "idle", Answer(t)
    PROVE  /\ acked' \in [Unit -> Nat] /\ flushed' \in [Unit -> Nat]
           /\ task' = [task EXCEPT ![t] = Idle] /\ task'[t] = Idle
           /\ \A x \in Task \ {t} : task'[x] = task[x]
           /\ \A u \in Unit : \/ acked'[u] = acked[u]
                              \/ /\ task[t] \in WriteRecord /\ task[t].ok /\ u \in task[t].range
                                 /\ acked'[u] = task[t].v /\ acked[u] <= task[t].v
           /\ \A u \in Unit : \/ flushed'[u] = flushed[u]
                              \/ task[t] \in FlushRecord /\ flushed'[u] = task[t].owed[u]
           /\ task[t] \in WriteRecord /\ task[t].ok => \A u \in task[t].range : acked'[u] >= task[t].v
<1>1. acked \in [Unit -> Nat] /\ flushed \in [Unit -> Nat] /\ task \in [Task -> TaskType]
  BY DEF TInv, HistOK, TasksOK
<1>2. task' = [task EXCEPT ![t] = Idle] /\ task'[t] = Idle /\ \A x \in Task \ {t} : task'[x] = task[x]
  BY <1>1 DEF Answer
<1>3. CASE task[t].op = "write"
  <2>1. task[t] \in WriteRecord /\ task[t].v \in Nat /\ task[t].range \subseteq Unit /\ flushed' = flushed
    BY <1>3, Kinds DEF TInv, WriteRecord, Answer
  <2>2. \A u \in Unit : Max({acked[u], task[t].v}) = IF acked[u] >= task[t].v THEN acked[u] ELSE task[t].v
    BY <1>1, <2>1, MaxOfTwo
  <2>3. CASE task[t].ok
    <3>1. acked' = [u \in Unit |-> IF u \in task[t].range THEN Max({acked[u], task[t].v}) ELSE acked[u]]
      BY <1>3, <2>3 DEF Answer
    <3> QED
      BY <1>1, <1>2, <2>1, <2>2, <2>3, <3>1
  <2>4. CASE ~ task[t].ok
    <3>1. acked' = acked
      BY <2>4 DEF Answer
    <3> QED
      BY <1>1, <1>2, <2>1, <2>4, <3>1
  <2> QED
    BY <2>3, <2>4
<1>4. CASE task[t].op # "write"
  <2>1. acked' = acked /\ task[t] \notin WriteRecord
    BY <1>4 DEF Answer, WriteRecord
  <2>2. CASE task[t].op = "flush" /\ task[t].ok
    <3>1. task[t] \in FlushRecord /\ task[t].owed \in [Unit -> Nat]
      BY <2>2, Kinds DEF TInv, FlushRecord
    <3>2. \A u \in Unit : Max({flushed[u], task[t].owed[u]}) = IF flushed[u] >= task[t].owed[u] THEN flushed[u] ELSE task[t].owed[u]
      BY <1>1, <3>1, MaxOfTwo
    <3>3. flushed' = [u \in Unit |-> Max({flushed[u], task[t].owed[u]})]
      BY <2>2 DEF Answer
    <3> QED
      BY <1>1, <1>2, <2>1, <3>1, <3>2, <3>3
  <2>3. CASE ~ (task[t].op = "flush" /\ task[t].ok)
    <3>1. flushed' = flushed
      BY <2>3 DEF Answer
    <3> QED
      BY <1>1, <1>2, <2>1, <3>1
  <2> QED
    BY <2>2, <2>3
<1> QED
  BY <1>3, <1>4

LEMMA CheckTypes == ASSUME TInv, NEW t \in Task, Check(t) PROVE TInv'
<1> USE DEF TInv
<1>1. CASE sbDirty
  <2>1. /\ task' = [task EXCEPT ![t] = [task[t] EXCEPT !.pc = "persist"]] /\ UNCHANGED <<acked, flushed, io, sbw>>
        /\ task[t].pc = "check"
    BY <1>1 DEF Check
  <2>2. [task[t] EXCEPT !.pc = "persist"] \in TaskType
    BY <2>1, Kinds, MovedTo, RecordsAreTasks DEF Idle
  <2>3. TasksOK' /\ PageOK' /\ RoundOK'
    BY <2>1, <2>2, TaskStep
  <2> QED
    BY <2>1, <2>3 DEF Check, SetOK, BitsOK, MediaOK, RebuildOK, SupOK, HistOK, memVars, mapVars, mediaVars,
                      Excuse, Shortcoming
<1>2. CASE ~ sbDirty
  <2>1. Answer(t) /\ task[t].pc = "check" /\ UNCHANGED <<io, sbw>>
    BY <1>2 DEF Check
  <2>2. acked' \in [Unit -> Nat] /\ flushed' \in [Unit -> Nat] /\ task' = [task EXCEPT ![t] = Idle]
    BY <2>1, Answered
  <2>3. TasksOK' /\ PageOK' /\ RoundOK'
    BY <2>1, <2>2, TaskStep, RecordsAreTasks
  <2> QED
    BY <2>2, <2>3 DEF Check, SetOK, BitsOK, MediaOK, RebuildOK, SupOK, HistOK, memVars, mapVars, mediaVars,
                      Excuse, Shortcoming
<1> QED
  BY <1>1, <1>2

\* A new round describes the set as it is.
LEMMA RoundTyped ==
    ASSUME SetOK, NEW c \in Callers, Round(c)
    PROVE  /\ sbw' \in RoundRecord /\ sbw'.by = c /\ sbw'.desc = Description /\ sbw'.todo = AttachedDevices
           /\ sbw'.bad = {} /\ ~ sbw'.again /\ ~ sbw'.err
  BY Lists DEF Round, RoundRecord

LEMMA StartRoundTypes == ASSUME TInv, NEW c \in Callers, StartRound(c) PROVE TInv'
<1> USE DEF TInv
<1>1. sbw' \in RoundRecord /\ sbw'.by = c /\ sbw = None
  BY RoundTyped DEF StartRound
<1>2. PageOK' /\ RoundOK' /\ TasksOK'
  <2>1. CASE c \in Task
    <3>1. task[c].pc = "persist" /\ task' = [task EXCEPT ![c] = [task[c] EXCEPT !.pc = "round"]] /\ io' = io
      <4>1. c \notin {"rebuild", "supervisor", "assembly"}
        BY <2>1, TaskAssumption
      <4>2. Wants(c) /\ task' = [task EXCEPT ![c] = [task[c] EXCEPT !.pc = "round"]] /\ io' = io
        BY <2>1 DEF StartRound
      <4> QED
        BY <4>1, <4>2 DEF Wants
    <3>2. [task[c] EXCEPT !.pc = "round"] \in TaskType /\ [task[c] EXCEPT !.pc = "round"].pc = "round"
      BY <2>1, <3>1, Kinds, MovedTo, RecordsAreTasks DEF Idle
    <3> QED
      BY <1>1, <2>1, <3>1, <3>2 DEF PageOK, RoundOK, TasksOK, PageRecord
  <2>2. CASE c \notin Task
    BY <1>1, <2>2 DEF StartRound, PageOK, RoundOK, TasksOK
  <2> QED
    BY <2>1, <2>2
<1>3. RebuildOK' /\ SupOK'
  <2>1. rb' = rb \/ rb' = [rb EXCEPT !.pc = "round"]
    BY DEF StartRound
  <2>2. sup' = sup \/ (sup.pc = "persist" /\ sup' = [sup EXCEPT !.pc = "round"])
    BY DEF StartRound, Wants
  <2> QED
    BY <2>1, <2>2 DEF RebuildOK, RebuildRecord, SupOK
<1>4. SetOK'
  BY DEF StartRound, SetOK
<1> QED
  BY <1>2, <1>3, <1>4 DEF StartRound, BitsOK, MediaOK, HistOK, mapVars, mediaVars, histVars

\* A superblock lands; nothing that is read changes.
LEMMA LandSbMedia ==
    ASSUME TInv, NEW l \in Landings, LandSb(l)
    PROVE  /\ MediaOK'
           /\ \A d \in Drive : bm'[d].cur = bm[d].cur
           /\ \A d \in Drive, u \in Unit : data'[d][u].cur = data[d][u].cur
           /\ sbw \in RoundRecord /\ l \in sbw.todo
           /\ sbw' \in RoundRecord /\ sbw'.by = sbw.by /\ sbw'.desc = sbw.desc /\ sbw'.todo = sbw.todo \ {l}
           /\ sbw'.again = sbw.again /\ sbw'.err = sbw.err
           /\ \/ sb' = [sb EXCEPT ![l.drive] = sbw.desc] /\ sbw'.bad = sbw.bad
              \/ sb' = sb /\ sbw'.bad = sbw.bad \cup {l.slot}
<1>1. sbw \in RoundRecord /\ l \in sbw.todo /\ sbw.desc \in Desc /\ l.slot \in Slot /\ l.drive \in Drive
  BY DEF TInv, LandSb, RoundOK, RoundRecord, Landings
<1>2. CASE sb' = [sb EXCEPT ![l.drive] = sbw.desc] /\ FlushDrives({l.drive}) /\ sbw' = [sbw EXCEPT !.todo = @ \ {l}]
  <2>1. /\ sbw' \in RoundRecord /\ sbw'.by = sbw.by /\ sbw'.desc = sbw.desc /\ sbw'.todo = sbw.todo \ {l}
        /\ sbw'.again = sbw.again /\ sbw'.err = sbw.err /\ sbw'.bad = sbw.bad
    BY <1>1, <1>2 DEF RoundRecord
  <2>2. /\ bm' \in [Drive -> Cell(SUBSET Unit)] /\ data' \in [Drive -> [Unit -> Cell(Nat)]]
        /\ \A d \in Drive : bm'[d].cur = bm[d].cur
        /\ \A d \in Drive, u \in Unit : data'[d][u].cur = data[d][u].cur
    BY <1>2, FlushKeeps DEF TInv
  <2>3. sb' \in [Drive -> Desc \cup {None}]
    BY <1>1, <1>2 DEF TInv, MediaOK
  <2> QED
    BY <1>1, <1>2, <2>1, <2>2, <2>3 DEF MediaOK
<1>3. CASE sbw' = [sbw EXCEPT !.todo = @ \ {l}, !.bad = @ \cup {l.slot}] /\ UNCHANGED mediaVars
  <2>1. /\ sbw' \in RoundRecord /\ sbw'.by = sbw.by /\ sbw'.desc = sbw.desc /\ sbw'.todo = sbw.todo \ {l}
        /\ sbw'.again = sbw.again /\ sbw'.err = sbw.err /\ sbw'.bad = sbw.bad \cup {l.slot}
    BY <1>1, <1>3 DEF RoundRecord
  <2> QED
    BY <1>1, <1>3, <2>1 DEF MediaOK, mediaVars, TInv
<1> QED
  BY <1>2, <1>3 DEF LandSb

LEMMA LandSbTypes == ASSUME TInv, NEW l \in Landings, LandSb(l) PROVE TInv'
<1> USE DEF TInv
<1>1. UNCHANGED <<phase, memVars, pool, mapVars, io, task, rb, sup, budget, histVars>>
  BY DEF LandSb
<1>2. RoundOK' /\ MediaOK'
  BY <1>1, LandSbMedia DEF RoundOK, LandSb
<1>3. spent' \in [Event -> Nat]
  <2>1. Spend("faults") \/ UNCHANGED spent
    BY DEF LandSb
  <2> QED
    BY <2>1, SpendTyped DEF HistOK, Event
<1> QED
  BY <1>1, <1>2, <1>3 DEF SetOK, BitsOK, TasksOK, PageOK, RebuildOK, SupOK, HistOK, memVars, mapVars, histVars

\* The members that did not take a superblock are failed one by one.
LEMMA JudgeSbRound ==
    ASSUME TInv, JudgeSb
    PROVE  /\ sbw \in RoundRecord /\ sbw # None /\ sbw.todo = {} /\ sbw.bad # {} /\ sbw.bad \subseteq Slot
           /\ sbw' \in RoundRecord /\ sbw'.by = sbw.by /\ sbw'.desc = sbw.desc /\ sbw'.todo = {}
           /\ \/ /\ \E i \in sbw.bad : FailMember(i, FALSE)
                 /\ sbw'.again
              \/ UNCHANGED memVars /\ sbw'.err
<1>1. sbw \in RoundRecord /\ sbw # None /\ sbw.todo = {} /\ sbw.bad # {} /\ sbw.bad \subseteq Slot
  BY DEF TInv, JudgeSb, RoundOK, RoundRecord
<1> DEFINE i == Min(sbw.bad)
<1>2. i \in sbw.bad
  BY <1>1, LeastSlot
<1>3. \/ FailMember(i, FALSE) /\ sbw' = [sbw EXCEPT !.bad = @ \ {i}, !.again = TRUE]
      \/ sbw' = [sbw EXCEPT !.bad = {}, !.again = FALSE, !.err = TRUE] /\ UNCHANGED memVars
  BY DEF JudgeSb
<1> HIDE DEF i
<1>4. CASE FailMember(i, FALSE) /\ sbw' = [sbw EXCEPT !.bad = @ \ {i}, !.again = TRUE]
  <2>1. sbw' \in RoundRecord /\ sbw'.by = sbw.by /\ sbw'.desc = sbw.desc /\ sbw'.todo = {} /\ sbw'.again
    BY <1>1, <1>4 DEF RoundRecord
  <2> QED
    BY <1>1, <1>2, <1>4, <2>1
<1>5. CASE sbw' = [sbw EXCEPT !.bad = {}, !.again = FALSE, !.err = TRUE] /\ UNCHANGED memVars
  <2>1. sbw' \in RoundRecord /\ sbw'.by = sbw.by /\ sbw'.desc = sbw.desc /\ sbw'.todo = {} /\ sbw'.err
    BY <1>1, <1>5 DEF RoundRecord
  <2> QED
    BY <1>1, <1>5, <2>1
<1> QED
  BY <1>3, <1>4, <1>5

LEMMA JudgeSbTypes == ASSUME TInv, JudgeSb PROVE TInv'
<1> USE DEF TInv
<1>1. UNCHANGED <<phase, pool, mapVars, mediaVars, io, task, rb, sup, budget, spent, histVars>>
  BY DEF JudgeSb
<1>2. SetOK'
  BY <1>1, JudgeSbRound, FailTyped DEF SetOK, memVars
<1>3. RoundOK'
  BY <1>1, JudgeSbRound DEF RoundOK
<1> QED
  BY <1>1, <1>2, <1>3 DEF BitsOK, MediaOK, TasksOK, PageOK, RebuildOK, SupOK, HistOK, mapVars, mediaVars, histVars

LEMMA RepeatRoundTypes == ASSUME TInv, RepeatRound PROVE TInv'
<1> USE DEF TInv
<1>1. UNCHANGED <<phase, members, events, pool, mapVars, mediaVars, io, task, rb, sup, budget, spent, histVars>>
  BY DEF RepeatRound
<1>2. sbw.by \in Callers /\ Round(sbw.by) /\ sbw # None /\ sbDirty' = FALSE
  BY DEF RepeatRound, RoundOK, RoundRecord
<1>3. RoundOK'
  BY <1>1, <1>2, RoundTyped DEF RoundOK
<1> QED
  BY <1>1, <1>2, <1>3 DEF SetOK, BitsOK, MediaOK, TasksOK, PageOK, RebuildOK, SupOK, HistOK, mapVars, mediaVars, histVars

LEMMA EndRoundTypes == ASSUME TInv, EndRound PROVE TInv'
<1> USE DEF TInv
<1>1. /\ UNCHANGED <<memVars, pool, mapVars, mediaVars, io, budget, spent, latest, torn, ticket>>
      /\ sbw # None /\ sbw' = None
  BY DEF EndRound
<1>2. TasksOK' /\ PageOK' /\ acked' \in [Unit -> Nat] /\ flushed' \in [Unit -> Nat]
  <2>1. CASE sbw.by \in Task
    <3>1. Answer(sbw.by) /\ task[sbw.by].pc = "round"
      BY <1>1, <2>1 DEF EndRound, RoundOK
    <3>2. /\ acked' \in [Unit -> Nat] /\ flushed' \in [Unit -> Nat] /\ task'[sbw.by] = Idle
          /\ task' = [task EXCEPT ![sbw.by] = Idle] /\ \A x \in Task \ {sbw.by} : task'[x] = task[x]
      BY <2>1, <3>1, Answered
    <3>3. TasksOK'
      BY <3>2, RecordsAreTasks DEF TasksOK
    <3>4. PageOK'
      BY <1>1, <2>1, <3>1, <3>2 DEF PageOK, PageRecord
    <3> QED
      BY <3>2, <3>3, <3>4
  <2>2. CASE sbw.by \notin Task
    BY <1>1, <2>2 DEF EndRound, TasksOK, PageOK, HistOK
  <2> QED
    BY <2>1, <2>2
<1>3. RebuildOK' /\ SupOK'
  <2>1. rb' = rb \/ rb' = [rb EXCEPT !.pc = rb.next]
    BY DEF EndRound
  <2>2. sup' = sup \/ sup' = [pc |-> "idle"]
    BY DEF EndRound
  <2> QED
    BY <2>1, <2>2 DEF RebuildOK, RebuildRecord, SupOK
<1>4. phase' \in {"up", phase}
  BY DEF EndRound
<1>5. excused' \subseteq Shortcoming
  BY DEF EndRound, Excuse, Shortcoming, HistOK
<1> QED
  BY <1>1, <1>2, <1>3, <1>4, <1>5 DEF SetOK, BitsOK, MediaOK, RoundOK, HistOK, memVars, mapVars, mediaVars

LEMMA SuperviseTypes == ASSUME TInv, Supervise PROVE TInv'
  BY DEF TInv, Supervise, SetOK, BitsOK, MediaOK, TasksOK, PageOK, RoundOK, RebuildOK, SupOK, HistOK, memVars, mapVars,
         mediaVars, histVars

\* A spare takes the place of a failed member, and holds nothing yet.
LEMMA SpareTaken ==
    ASSUME TInv, NEW d \in Drive, TakeSpare(d)
    PROVE  \E i \in Slot :
             /\ members[i].state = "Failed" /\ d \in pool /\ pool' = pool \ {d}
             /\ members' \in [Slot -> Member] /\ \A j \in Slot \ {i} : members'[j] = members[j]
             /\ members'[i] = [id |-> d, here |-> TRUE, state |-> "Rebuilding", to |-> 0, missing |-> FALSE, at |-> 0]
             /\ sup' = [pc |-> "zero", slot |-> i] /\ events' = events + 1
             /\ spent' \in [Event -> Nat] /\ spent'["spares"] = spent["spares"] + 1
             /\ \A e \in Event \ {"spares"} : spent'[e] = spent[e]
<1> DEFINE i == Min({j \in Slot : members[j].state = "Failed"})
           m == [id |-> d, here |-> TRUE, state |-> "Rebuilding", to |-> 0, missing |-> FALSE, at |-> 0]
<1>1. i \in {j \in Slot : members[j].state = "Failed"}
  BY LeastSlot DEF TakeSpare
<1>2. /\ members' = [members EXCEPT ![i] = m] /\ sup' = [pc |-> "zero", slot |-> i] /\ events' = events + 1
      /\ d \in pool /\ pool' = pool \ {d}
  BY DEF TakeSpare
<1>3. m \in Member
  BY SizesAssumption DEF Member, State
<1>4. /\ spent' \in [Event -> Nat] /\ spent'["spares"] = spent["spares"] + 1
      /\ \A e \in Event \ {"spares"} : spent'[e] = spent[e]
  BY SpendTyped DEF TakeSpare, TInv, Event
<1>5. members \in [Slot -> Member]
  BY DEF TInv, SetOK
<1> HIDE DEF i, m
<1>6. i \in Slot /\ members[i].state = "Failed"
  BY <1>1
<1>7. members' \in [Slot -> Member] /\ members'[i] = m /\ \A j \in Slot \ {i} : members'[j] = members[j]
  BY <1>2, <1>3, <1>5, <1>6
<1> QED
  BY <1>2, <1>4, <1>6, <1>7 DEF m

LEMMA TakeSpareTypes == ASSUME TInv, NEW d \in Drive, TakeSpare(d) PROVE TInv'
<1> USE DEF TInv
<1>1. UNCHANGED <<phase, sbDirty, mapVars, mediaVars, io, sbw, task, rb, budget, histVars>>
  BY DEF TakeSpare
<1>2. PICK i \in Slot : /\ members' \in [Slot -> Member] /\ sup' = [pc |-> "zero", slot |-> i] /\ events' = events + 1
                         /\ pool' = pool \ {d} /\ spent' \in [Event -> Nat]
  BY SpareTaken
<1>3. SetOK'
  BY <1>1, <1>2 DEF SetOK
<1>4. SupOK'
  BY <1>2 DEF SupOK
<1> QED
  BY <1>1, <1>2, <1>3, <1>4 DEF BitsOK, MediaOK, TasksOK, PageOK, RoundOK, RebuildOK, HistOK, mapVars, mediaVars, histVars

\* The bitmap of the new member is zeroed, or the member is failed.
LEMMA BitmapZeroed ==
    ASSUME TInv, ZeroBitmap
    PROVE  /\ sup.pc = "zero" /\ sup.slot \in Slot /\ sup' = [pc |-> "persist"]
           /\ UNCHANGED memVars \/ FailMember(sup.slot, FALSE)
           /\ bm' \in [Drive -> Cell(SUBSET Unit)]
           /\ \A d \in Drive : d # members[sup.slot].id => bm'[d] = bm[d]
           /\ spent' = spent \/ Spend("faults")
<1>1. sup.pc = "zero" /\ sup.slot \in Slot /\ sup' = [pc |-> "persist"]
  BY DEF TInv, SupOK, ZeroBitmap
<1>2. members[sup.slot].id \in Drive /\ bm \in [Drive -> Cell(SUBSET Unit)]
  BY <1>1 DEF TInv, SetOK, MediaOK, Member
<1>3. Put(bm[members[sup.slot].id], {}) \in Cell(SUBSET Unit)
  BY <1>2 DEF Put, Cell
<1>4. (UNCHANGED memVars \/ FailMember(sup.slot, FALSE)) /\ (spent' = spent \/ Spend("faults"))
  BY DEF ZeroBitmap
<1>5. bm' = bm \/ bm' = [bm EXCEPT ![members[sup.slot].id] = Put(@, {})]
  BY DEF ZeroBitmap
<1>6. bm' \in [Drive -> Cell(SUBSET Unit)] /\ \A d \in Drive : d # members[sup.slot].id => bm'[d] = bm[d]
  BY <1>2, <1>3, <1>5
<1> QED
  BY <1>1, <1>4, <1>6

LEMMA ZeroBitmapTypes == ASSUME TInv, ZeroBitmap PROVE TInv'
<1> USE DEF TInv
<1>1. UNCHANGED <<phase, pool, mapVars, sb, data, io, sbw, task, rb, budget, histVars>>
  BY DEF ZeroBitmap
<1>2. /\ sup.slot \in Slot /\ sup' = [pc |-> "persist"] /\ (FailMember(sup.slot, FALSE) \/ UNCHANGED memVars)
      /\ bm' \in [Drive -> Cell(SUBSET Unit)] /\ (spent' = spent \/ Spend("faults"))
  BY BitmapZeroed
<1>4. SetOK'
  BY <1>1, <1>2, MaybeFailTyped
<1>5. SupOK'
  BY <1>2 DEF SupOK
<1>6. MediaOK'
  BY <1>1, <1>2 DEF MediaOK
<1>3. spent' \in [Event -> Nat]
  BY <1>2, SpendTyped DEF HistOK, Event
<1> QED
  BY <1>1, <1>3, <1>4, <1>5, <1>6 DEF BitsOK, TasksOK, PageOK, RoundOK, RebuildOK, HistOK, mapVars, histVars

\* A rebuild begins at the lowest watermark.
LEMMA Spawned ==
    ASSUME TInv, SpawnRebuild
    PROVE  \/ rb' = NoRebuild
           \/ /\ rb' \in RebuildRecord /\ rb'.pc = "unit" /\ rb'.targets = Rebuilding /\ rb'.copies = {}
              /\ \A i \in Rebuilding : rb'.key <= members[i].to
<1>1. CASE Rebuilding # {} /\ DataIntact(members)
  <2> DEFINE S == {members[i].to : i \in Rebuilding}
  <2>1. rb' = [NoRebuild EXCEPT !.pc = "unit", !.targets = Rebuilding, !.key = Min(S)]
    BY <1>1 DEF SpawnRebuild
  <2>2. S \subseteq 0..Units /\ S # {} /\ 0..Units \subseteq Nat /\ Rebuilding \subseteq Slot
    BY <1>1, SizesAssumption DEF Rebuilding, TInv, SetOK, Member
  <2>3. \A i \in Rebuilding : members[i].to \in S
    OBVIOUS
  <2> HIDE DEF S
  <2>4. Min(S) \in S /\ \A y \in S : Min(S) <= y
    BY <2>2, MinIsMember
  <2>5. Min(S) \in 0..Units /\ \A i \in Rebuilding : Min(S) <= members[i].to
    BY <2>2, <2>3, <2>4
  <2>6. rb' = [pc |-> "unit", targets |-> Rebuilding, key |-> Min(S), copies |-> {}, v |-> 0, next |-> "idle"]
    BY <2>1 DEF NoRebuild
  <2> QED
    BY <2>2, <2>5, <2>6 DEF RebuildRecord
<1> QED
  BY <1>1 DEF SpawnRebuild

LEMMA IdleRebuild == NoRebuild \in RebuildRecord /\ NoRebuild.pc = "idle" /\ NoRebuild.copies = {} /\ NoRebuild.targets = {}
  BY SizesAssumption DEF NoRebuild, RebuildRecord

LEMMA SpawnRebuildTypes == ASSUME TInv, SpawnRebuild PROVE TInv'
<1> USE DEF TInv
<1>1. UNCHANGED <<phase, memVars, pool, mapVars, mediaVars, io, sbw, task, sup, budget, spent, histVars>>
  BY DEF SpawnRebuild
<1>2. RebuildOK'
  BY Spawned, IdleRebuild DEF RebuildOK
<1> QED
  BY <1>1, <1>2 DEF SetOK, BitsOK, MediaOK, TasksOK, PageOK, RoundOK, SupOK, HistOK, memVars, mapVars, mediaVars, histVars

\* The units a rebuild has to do for its targets, and from where.
Behind(i) == i \in rb.targets \cap Rebuilding /\ members[i].to <= rb.key
Copies == {l \in AttachedDevices : l.slot \in rb.targets \cap Rebuilding /\ members[l.slot].to <= rb.key}
Sources == {i \in Slot \ rb.targets : Holds(members[i], rb.key + 1)}

\* A unit is read for the targets, or a source fails and is failed.
LEMMA UnitCopied ==
    ASSUME TInv, CopyUnit
    PROVE  /\ rb.pc = "unit" /\ rb.key < Units /\ ~ Locked(rb.key + 1) /\ rb.key + 1 \in Unit
           /\ rb' \in RebuildRecord /\ rb'.targets = rb.targets /\ rb'.key = rb.key
           /\ spent' = spent \/ Spend("faults")
           /\ \/ /\ rb'.pc = "copy" /\ rb'.copies = {} /\ Copies = {} /\ UNCHANGED memVars
              \/ /\ rb'.pc = "copy" /\ rb'.copies = Copies /\ UNCHANGED memVars
                 /\ \E i \in Sources : rb'.v = data[members[i].id][rb.key + 1].cur
              \/ /\ rb'.pc \in {"unit", "check"} /\ rb'.copies = rb.copies
                 /\ UNCHANGED memVars \/ \E i \in Sources : FailMember(i, FALSE)
<1>1. /\ rb.pc = "unit" /\ rb.key < Units /\ ~ Locked(rb.key + 1) /\ rb \in RebuildRecord
  BY DEF CopyUnit, TInv, RebuildOK
<1>2. rb.key + 1 \in Unit
  BY <1>1, SizesAssumption DEF RebuildRecord, Unit
<1>3. Copies \subseteq Landings
  BY Lists DEF Copies, TInv
<1>4. \A i \in Sources : data[members[i].id][rb.key + 1].cur \in Nat
  <2> SUFFICES ASSUME NEW i \in Sources PROVE data[members[i].id][rb.key + 1].cur \in Nat
    OBVIOUS
  <2>1. members[i].id \in Drive
    BY DEF Sources, TInv, SetOK, Member
  <2>2. data[members[i].id][rb.key + 1] \in Cell(Nat)
    BY <1>2, <2>1 DEF TInv, MediaOK
  <2> QED
    BY <2>2 DEF Cell
<1>5. \/ rb' = [rb EXCEPT !.pc = "copy", !.copies = {}, !.v = 0] /\ Copies = {} /\ UNCHANGED <<memVars, spent>>
      \/ \E i \in Sources :
           \/ /\ rb' = [rb EXCEPT !.pc = "copy", !.copies = Copies, !.v = data[members[i].id][rb.key + 1].cur]
              /\ UNCHANGED <<memVars, spent>>
           \/ /\ Spend("faults") /\ (FailMember(i, FALSE) \/ UNCHANGED memVars)
              /\ rb' = rb \/ rb' = [rb EXCEPT !.pc = "check", !.next = "ended"]
  BY Zenon DEF CopyUnit, Copies, Sources
<1>6. CASE rb' = [rb EXCEPT !.pc = "copy", !.copies = {}, !.v = 0] /\ Copies = {} /\ UNCHANGED <<memVars, spent>>
  <2>1. /\ rb' \in RebuildRecord /\ rb'.targets = rb.targets /\ rb'.key = rb.key /\ rb'.pc = "copy" /\ rb'.copies = {}
    BY <1>1, <1>6 DEF RebuildRecord
  <2> QED
    BY <1>1, <1>2, <1>6, <2>1
<1>7. ASSUME NEW i \in Sources, UNCHANGED <<memVars, spent>>,
             rb' = [rb EXCEPT !.pc = "copy", !.copies = Copies, !.v = data[members[i].id][rb.key + 1].cur]
      PROVE  /\ rb' \in RebuildRecord /\ rb'.targets = rb.targets /\ rb'.key = rb.key /\ rb'.pc = "copy"
             /\ rb'.copies = Copies /\ rb'.v = data[members[i].id][rb.key + 1].cur
  <2> DEFINE v == data[members[i].id][rb.key + 1].cur
  <2>1. v \in Nat
    BY <1>4, <1>7
  <2>2. rb' = [rb EXCEPT !.pc = "copy", !.copies = Copies, !.v = v]
    BY <1>7
  <2> HIDE DEF v
  <2>3. /\ rb' \in RebuildRecord /\ rb'.targets = rb.targets /\ rb'.key = rb.key /\ rb'.pc = "copy"
        /\ rb'.copies = Copies /\ rb'.v = v
    BY <1>1, <1>3, <2>1, <2>2 DEF RebuildRecord
  <2> QED
    BY <2>3 DEF v
<1>8. ASSUME rb' = rb \/ rb' = [rb EXCEPT !.pc = "check", !.next = "ended"]
      PROVE  /\ rb' \in RebuildRecord /\ rb'.targets = rb.targets /\ rb'.key = rb.key /\ rb'.pc \in {"unit", "check"}
             /\ rb'.copies = rb.copies
  BY <1>1, <1>8 DEF RebuildRecord
<1> QED
  BY <1>1, <1>2, <1>5, <1>6, <1>7, <1>8

LEMMA CopyUnitTypes == ASSUME TInv, CopyUnit PROVE TInv'
<1> USE DEF TInv
<1>1. UNCHANGED <<phase, pool, mapVars, mediaVars, io, sbw, task, sup, budget, histVars>>
  BY DEF CopyUnit
<1>2. RebuildOK'
  BY UnitCopied DEF RebuildOK
<1>3. spent' \in [Event -> Nat]
  BY UnitCopied, SpendTyped DEF HistOK, Event
<1>4. SetOK'
  BY <1>1, UnitCopied, FailTyped DEF Sources, SetOK, memVars
<1> QED
  BY <1>1, <1>2, <1>3, <1>4 DEF BitsOK, MediaOK, TasksOK, PageOK, RoundOK, SupOK, HistOK, mapVars, mediaVars, histVars

\* A copy lands, or its target is failed.
LEMMA CopyLanded ==
    ASSUME TInv, NEW l \in Landings, LandCopy(l)
    PROVE  /\ rb.pc = "copy" /\ l \in rb.copies /\ rb.key + 1 \in Unit /\ rb.key < Units
           /\ rb' \in RebuildRecord /\ rb'.targets = rb.targets /\ rb'.key = rb.key /\ rb'.pc = "copy"
           /\ rb'.copies = rb.copies \ {l} /\ rb'.v = rb.v
           /\ spent' = spent \/ Spend("faults")
           /\ data' \in [Drive -> [Unit -> Cell(Nat)]]
           /\ \A d \in Drive, u \in Unit : d # l.drive \/ u # rb.key + 1 => data'[d][u] = data[d][u]
           /\ \/ data'[l.drive][rb.key + 1].cur = rb.v /\ UNCHANGED memVars
              \/ data' = data /\ (FailMember(l.slot, FALSE) \/ (~ Failable(l.slot) /\ UNCHANGED memVars))
<1>1. rb.pc = "copy" /\ l \in rb.copies /\ rb.key < Units /\ rb \in RebuildRecord /\ rb' = [rb EXCEPT !.copies = @ \ {l}]
  BY DEF LandCopy, TInv, RebuildOK
<1>2. rb.key + 1 \in Unit /\ rb.v \in Nat /\ l.drive \in Drive
  BY <1>1, SizesAssumption DEF RebuildRecord, Unit, Landings
<1>3. /\ rb' \in RebuildRecord /\ rb'.targets = rb.targets /\ rb'.key = rb.key /\ rb'.pc = "copy"
      /\ rb'.copies = rb.copies \ {l} /\ rb'.v = rb.v
  BY <1>1 DEF RebuildRecord
<1>4. spent' = spent \/ Spend("faults")
  BY DEF LandCopy
<1>5. data \in [Drive -> [Unit -> Cell(Nat)]]
  BY DEF TInv, MediaOK
<1>6. CASE data' = [data EXCEPT ![l.drive][rb.key + 1] = Put(@, rb.v)] /\ UNCHANGED memVars
  <2>1. Put(data[l.drive][rb.key + 1], rb.v) \in Cell(Nat) /\ Put(data[l.drive][rb.key + 1], rb.v).cur = rb.v
    <3>1. data[l.drive][rb.key + 1] \in Cell(Nat)
      BY <1>2, <1>5
    <3> QED
      BY <1>2, <3>1 DEF Put, Cell
  <2> DEFINE c == Put(data[l.drive][rb.key + 1], rb.v)
             u1 == rb.key + 1
  <2>2. data' = [data EXCEPT ![l.drive] = [data[l.drive] EXCEPT ![u1] = c]] /\ c \in Cell(Nat) /\ c.cur = rb.v /\ u1 \in Unit
    BY <1>2, <1>6, <2>1
  <2> HIDE DEF c, u1
  <2>3. /\ data' \in [Drive -> [Unit -> Cell(Nat)]] /\ data'[l.drive][u1].cur = rb.v
        /\ \A d \in Drive, u \in Unit : d # l.drive \/ u # u1 => data'[d][u] = data[d][u]
    BY <1>2, <1>5, <2>2
  <2> QED
    BY <1>1, <1>2, <1>3, <1>4, <1>6, <2>3 DEF u1
<1>7. CASE data' = data /\ (FailMember(l.slot, FALSE) \/ (~ Failable(l.slot) /\ UNCHANGED memVars))
  BY <1>1, <1>2, <1>3, <1>4, <1>5, <1>7
<1> QED
  BY <1>6, <1>7 DEF LandCopy

LEMMA LandCopyTypes == ASSUME TInv, NEW l \in Landings, LandCopy(l) PROVE TInv'
<1> USE DEF TInv
<1>1. UNCHANGED <<phase, pool, mapVars, sb, bm, io, sbw, task, sup, budget, histVars>>
  BY DEF LandCopy
<1>2. RebuildOK' /\ MediaOK'
  BY <1>1, CopyLanded DEF RebuildOK, MediaOK
<1>3. spent' \in [Event -> Nat]
  BY CopyLanded, SpendTyped DEF HistOK, Event
<1>4. SetOK'
  <2>1. l.slot \in Slot
    BY DEF Landings
  <2> QED
    BY <1>1, <2>1, CopyLanded, FailTyped DEF SetOK, memVars
<1> QED
  BY <1>1, <1>2, <1>3, <1>4 DEF BitsOK, TasksOK, PageOK, RoundOK, SupOK, HistOK, mapVars, histVars

\* The targets that were behind have the unit now.
LEMMA WatermarkRaised ==
    ASSUME TInv, RaiseWatermark
    PROVE  /\ rb.pc = "copy" /\ rb.copies = {} /\ rb.key < Units
           /\ members' \in [Slot -> Member]
           /\ \A i \in Slot : Behind(i) => members'[i] = [members[i] EXCEPT !.to = rb.key + 1]
           /\ \A i \in Slot : ~ Behind(i) => members'[i] = members[i]
           /\ rb' \in RebuildRecord /\ rb'.targets = rb.targets /\ rb'.key = rb.key + 1 /\ rb'.pc = "check" /\ rb'.copies = {}
<1>1. rb.pc = "copy" /\ rb.copies = {} /\ rb.key < Units /\ rb \in RebuildRecord /\ members \in [Slot -> Member]
  BY DEF RaiseWatermark, TInv, RebuildOK, SetOK
<1>2. rb.key + 1 \in 0..Units
  BY <1>1, SizesAssumption DEF RebuildRecord
<1>3. members' = [i \in Slot |-> IF Behind(i) THEN [members[i] EXCEPT !.to = rb.key + 1] ELSE members[i]]
  BY DEF RaiseWatermark, Behind
<1>4. \A i \in Slot : [members[i] EXCEPT !.to = rb.key + 1] \in Member
  BY <1>1, <1>2 DEF Member
<1>5. rb' = [rb EXCEPT !.pc = "check", !.key = rb.key + 1, !.v = 0, !.next = "unit"]
  BY DEF RaiseWatermark
<1>6. rb' \in RebuildRecord /\ rb'.targets = rb.targets /\ rb'.key = rb.key + 1 /\ rb'.pc = "check" /\ rb'.copies = {}
  <2> DEFINE k == rb.key + 1
  <2>1. rb' = [rb EXCEPT !.pc = "check", !.key = k, !.v = 0, !.next = "unit"] /\ k \in 0..Units
    BY <1>2, <1>5
  <2> HIDE DEF k
  <2>2. rb' \in RebuildRecord /\ rb'.targets = rb.targets /\ rb'.key = k /\ rb'.pc = "check" /\ rb'.copies = {}
    BY <1>1, <2>1 DEF RebuildRecord
  <2> QED
    BY <2>2 DEF k
<1> QED
  BY <1>1, <1>3, <1>4, <1>6

LEMMA RaiseWatermarkTypes == ASSUME TInv, RaiseWatermark PROVE TInv'
<1> USE DEF TInv
<1>1. UNCHANGED <<phase, events, sbDirty, pool, mapVars, mediaVars, io, sbw, task, sup, budget, spent, histVars>>
  BY DEF RaiseWatermark
<1>2. RebuildOK' /\ SetOK'
  BY <1>1, WatermarkRaised DEF RebuildOK, SetOK
<1> QED
  BY <1>1, <1>2 DEF BitsOK, MediaOK, TasksOK, PageOK, RoundOK, SupOK, HistOK, mapVars, mediaVars, histVars

\* The rebuild goes on with what is next, or has its position persisted.
LEMMA RebuildChecked ==
    ASSUME TInv, CheckRebuild
    PROVE  /\ rb.pc = "check" /\ rb' \in RebuildRecord /\ rb'.targets = rb.targets /\ rb'.key = rb.key /\ rb'.copies = rb.copies
           /\ rb'.pc \in {"idle", "unit", "ended", "persist"}
<1>1. rb.pc = "check" /\ rb \in RebuildRecord /\ (rb' = [rb EXCEPT !.pc = rb.next] \/ rb' = [rb EXCEPT !.pc = "persist"])
  BY DEF CheckRebuild, TInv, RebuildOK
<1> QED
  BY <1>1 DEF RebuildRecord

LEMMA CheckRebuildTypes == ASSUME TInv, CheckRebuild PROVE TInv'
<1> USE DEF TInv
<1>1. UNCHANGED <<phase, memVars, pool, mapVars, mediaVars, io, sbw, task, sup, budget, spent, histVars>>
  BY DEF CheckRebuild
<1>2. RebuildOK'
  BY RebuildChecked DEF RebuildOK
<1> QED
  BY <1>1, <1>2 DEF SetOK, BitsOK, MediaOK, TasksOK, PageOK, RoundOK, SupOK, HistOK, memVars, mapVars, mediaVars, histVars

\* The targets are flushed, or one of them is failed; nothing that is read changes.
LEMMA TargetsFlushed ==
    ASSUME TInv, FlushTargets
    PROVE  /\ rb.pc = "unit" /\ rb.key = Units
           /\ rb' \in RebuildRecord /\ rb'.targets = rb.targets /\ rb'.key = rb.key /\ rb'.pc = "activate"
           /\ rb'.copies = rb.copies
           /\ bm' \in [Drive -> Cell(SUBSET Unit)] /\ data' \in [Drive -> [Unit -> Cell(Nat)]]
           /\ \A d \in Drive : bm'[d].cur = bm[d].cur
           /\ \A d \in Drive, u \in Unit : data'[d][u].cur = data[d][u].cur
           /\ UNCHANGED memVars \/ \E i \in rb.targets : FailMember(i, FALSE)
           /\ spent' = spent \/ Spend("faults")
<1>1. rb.pc = "unit" /\ rb.key = Units /\ rb \in RebuildRecord /\ rb' = [rb EXCEPT !.pc = "activate"]
  BY DEF FlushTargets, TInv, RebuildOK
<1>2. rb' \in RebuildRecord /\ rb'.targets = rb.targets /\ rb'.key = rb.key /\ rb'.pc = "activate" /\ rb'.copies = rb.copies
  BY <1>1 DEF RebuildRecord
<1>3. \E D : FlushDrives(D)
  BY DEF FlushTargets
<1>4. (UNCHANGED memVars \/ \E i \in rb.targets : FailMember(i, FALSE)) /\ (spent' = spent \/ Spend("faults"))
  BY DEF FlushTargets
<1> QED
  BY <1>1, <1>2, <1>3, <1>4, FlushKeeps DEF TInv

LEMMA FlushTargetsTypes == ASSUME TInv, FlushTargets PROVE TInv'
<1> USE DEF TInv
<1>1. UNCHANGED <<phase, pool, mapVars, sb, io, sbw, task, sup, budget, histVars>>
  BY DEF FlushTargets
<1>2. RebuildOK' /\ MediaOK'
  BY <1>1, TargetsFlushed DEF RebuildOK, MediaOK
<1>3. spent' \in [Event -> Nat]
  BY TargetsFlushed, SpendTyped DEF HistOK, Event
<1>4. SetOK'
  <2>1. rb.targets \subseteq Slot
    BY DEF RebuildOK, RebuildRecord
  <2> QED
    BY <1>1, <2>1, TargetsFlushed, FailTyped DEF SetOK, memVars
<1> QED
  BY <1>1, <1>2, <1>3, <1>4 DEF BitsOK, TasksOK, PageOK, RoundOK, SupOK, HistOK, mapVars, histVars

\* The targets are Active.
LEMMA Activated ==
    ASSUME TInv, Activate
    PROVE  /\ rb.pc = "activate"
           /\ members' \in [Slot -> Member] /\ events' = events + 1
           /\ \A i \in Slot : i \in rb.targets \cap Rebuilding
                => members'[i] = [members[i] EXCEPT !.state = "Active", !.to = 0]
           /\ \A i \in Slot : i \notin rb.targets \cap Rebuilding => members'[i] = members[i]
           /\ rb' \in RebuildRecord /\ rb'.targets = rb.targets /\ rb'.key = rb.key /\ rb'.pc = "persist"
           /\ rb'.copies = rb.copies
<1>1. rb.pc = "activate" /\ rb \in RebuildRecord /\ members \in [Slot -> Member] /\ events' = events + 1
  BY DEF Activate, TInv, RebuildOK, SetOK
<1>2. members' = [i \in Slot |-> IF i \in rb.targets \cap Rebuilding
                                 THEN [members[i] EXCEPT !.state = "Active", !.to = 0] ELSE members[i]]
  BY DEF Activate
<1>3. \A i \in Slot : [members[i] EXCEPT !.state = "Active", !.to = 0] \in Member
  <2> SUFFICES ASSUME NEW i \in Slot PROVE [members[i] EXCEPT !.state = "Active", !.to = 0] \in Member
    OBVIOUS
  <2>1. members[i] \in Member /\ 0 \in 0..Units
    BY <1>1, SizesAssumption
  <2> QED
    BY <2>1 DEF Member, State
<1>4. rb' = [rb EXCEPT !.pc = "persist", !.next = "ended"]
  BY DEF Activate
<1>5. /\ rb' \in RebuildRecord /\ rb'.targets = rb.targets /\ rb'.key = rb.key /\ rb'.pc = "persist"
      /\ rb'.copies = rb.copies
  BY <1>1, <1>4 DEF RebuildRecord
<1> QED
  BY <1>1, <1>2, <1>3, <1>5

LEMMA ActivateTypes == ASSUME TInv, Activate PROVE TInv'
<1> USE DEF TInv
<1>1. UNCHANGED <<phase, sbDirty, pool, mapVars, mediaVars, io, sbw, task, sup, budget, spent, histVars>>
  BY DEF Activate
<1>2. rb' \in RebuildRecord /\ rb'.pc = "persist" /\ members' \in [Slot -> Member] /\ events' = events + 1
  BY Activated
<1>3. RebuildOK'
  BY <1>2 DEF RebuildOK
<1>4. SetOK'
  BY <1>1, <1>2 DEF SetOK
<1> QED
  BY <1>1, <1>3, <1>4 DEF BitsOK, MediaOK, TasksOK, PageOK, RoundOK, SupOK, HistOK, mapVars, mediaVars, histVars

\* What a cut leaves: the superblocks, the bitmaps and the units each hold
\* something they held or were being sent.
LEMMA CutMedia ==
    ASSUME TInv, PowerCut
    PROVE  /\ MediaOK'
           /\ \A d \in Drive : sb'[d] = sb[d] \/ (sbw # None /\ sb'[d] = sbw.desc)
<1>1. sb' \in [Drive -> Desc \cup {None}] /\ \A d \in Drive : sb'[d] = sb[d] \/ (sbw # None /\ sb'[d] = sbw.desc)
  <2> DEFINE cells == [d \in Drive |-> [cur |-> sb[d], may |-> {sb[d]} \cup InFlightSb(d)]]
  <2>1. \A d \in Drive : InFlightSb(d) \subseteq Desc
    BY DEF TInv, RoundOK, RoundRecord, InFlightSb
  <2>2. \A d \in Drive : sb[d] \in Desc \cup {None}
    BY DEF TInv, MediaOK
  <2>3. cells \in [Drive -> Cell(Desc \cup {None})]
    BY <2>1, <2>2 DEF Cell
  <2>4. sb' \in Cut(cells)
    BY DEF PowerCut
  <2>5. \A d \in Drive : cells[d].may = {sb[d]} \cup InFlightSb(d)
    OBVIOUS
  <2> HIDE DEF cells
  <2>6. sb' \in [Drive -> Desc \cup {None}] /\ \A d \in Drive : sb'[d] \in cells[d].may
    BY <2>3, <2>4, CutKeeps
  <2> QED
    BY <2>5, <2>6 DEF InFlightSb
<1>2. bm' \in [Drive -> Cell(SUBSET Unit)]
  <2> DEFINE cells == [d \in Drive |-> [bm[d] EXCEPT !.may = @ \cup InFlightPage(d)]]
  <2>1. \A d \in Drive : InFlightPage(d) \subseteq SUBSET Unit
    BY DEF TInv, PageOK, PageRecord, InFlightPage
  <2>2. \A d \in Drive : bm[d] \in Cell(SUBSET Unit)
    BY DEF TInv, MediaOK
  <2>3. cells \in [Drive -> Cell(SUBSET Unit)]
    <3> SUFFICES ASSUME NEW d \in Drive PROVE [bm[d] EXCEPT !.may = @ \cup InFlightPage(d)] \in Cell(SUBSET Unit)
      OBVIOUS
    <3> QED
      BY <2>1, <2>2 DEF Cell
  <2>4. PICK m \in Cut(cells) : bm' = [d \in Drive |-> Durable(m[d])]
    BY DEF PowerCut
  <2> HIDE DEF cells
  <2>5. m \in [Drive -> SUBSET Unit]
    BY <2>3, CutKeeps
  <2>6. \A d \in Drive : Durable(m[d]) \in Cell(SUBSET Unit)
    BY <2>5 DEF Durable, Cell
  <2> QED
    BY <2>4, <2>6
<1>3. data' \in [Drive -> [Unit -> Cell(Nat)]]
  <2> DEFINE cells == [x \in Drive \X Unit |-> [data[x[1]][x[2]] EXCEPT !.may = @ \cup InFlightData(x[1], x[2])]]
  <2>1. \A d \in Drive, u \in Unit : InFlightData(d, u) \subseteq Nat
    <3>1. \A t \in Running("write") : task[t].v \in Nat
      BY Kinds DEF TInv, Running, WriteRecord
    <3>2. rb.v \in Nat
      BY DEF TInv, RebuildOK, RebuildRecord
    <3> QED
      BY <3>1, <3>2 DEF InFlightData
  <2>2. \A d \in Drive, u \in Unit : data[d][u] \in Cell(Nat)
    BY DEF TInv, MediaOK
  <2>3. cells \in [Drive \X Unit -> Cell(Nat)]
    <3>1. ASSUME NEW d \in Drive, NEW u \in Unit
          PROVE  [data[d][u] EXCEPT !.may = @ \cup InFlightData(d, u)] \in Cell(Nat)
      BY <2>1, <2>2 DEF Cell
    <3> QED
      BY <3>1
  <2>4. PICK m \in Cut(cells) : data' = [d \in Drive |-> [u \in Unit |-> Durable(m[<<d, u>>])]]
    BY DEF PowerCut
  <2> HIDE DEF cells
  <2>5. m \in [Drive \X Unit -> Nat]
    BY <2>3, CutKeeps
  <2>6. \A d \in Drive, u \in Unit : Durable(m[<<d, u>>]) \in Cell(Nat)
    BY <2>5 DEF Durable, Cell
  <2> QED
    BY <2>4, <2>6
<1> QED
  BY <1>1, <1>2, <1>3 DEF MediaOK

LEMMA PowerCutTypes == ASSUME TInv, PowerCut PROVE TInv'
<1> USE DEF TInv
<1>1. /\ UNCHANGED <<memVars, pool, mapVars, budget, latest, torn, acked, flushed, ticket>>
      /\ phase' = "down" /\ io' = None /\ sbw' = None /\ task' = [t \in Task |-> Idle] /\ rb' = NoRebuild
      /\ sup' = [pc |-> "idle"] /\ Spend("cuts")
  BY DEF PowerCut
<1>2. excused' \subseteq Shortcoming
  BY DEF PowerCut, HistOK, Shortcoming
<1>3. spent' \in [Event -> Nat]
  BY <1>1, SpendTyped DEF Event
<1>4. HistOK'
  BY <1>1, <1>2, <1>3 DEF HistOK
<1>5. TasksOK' /\ PageOK' /\ RoundOK'
  BY <1>1, RecordsAreTasks DEF TasksOK, PageOK, RoundOK
<1>6. RebuildOK' /\ SupOK'
  BY <1>1, IdleRebuild DEF RebuildOK, SupOK
<1>7. SetOK' /\ BitsOK'
  BY <1>1 DEF SetOK, BitsOK, memVars, mapVars
<1> QED
  BY <1>4, <1>5, <1>6, <1>7, CutMedia

\* The slot table that an assembly reads from a superblock.
LEMMA FromRecordTyped ==
    ASSUME NEW F, NEW n \in Desc, NEW i \in Slot
    PROVE  /\ FromRecord(F, n, i) \in Member /\ FromRecord(F, n, i).id = n.slots[i].id
<1> DEFINE r == n.slots[i]
           h == r.id \in F /\ sb[r.id] # None
           m == [id |-> r.id, here |-> h, state |-> r.state, to |-> r.to, missing |-> r.missing, at |-> r.at]
           g == [m EXCEPT !.state = "Failed", !.missing = TRUE, !.at = n.events + 1]
<1>1. r \in Record /\ n.events + 1 \in Nat /\ h \in BOOLEAN
  BY DEF Desc
<1>2. FromRecord(F, n, i) = IF h \/ r.state = "Failed" THEN m ELSE g
  BY DEF FromRecord
<1> HIDE DEF r, h
<1>3. m \in Member /\ m.id = r.id
  BY <1>1 DEF Record, Member
<1> HIDE DEF m
<1>4. g \in Member /\ g.id = r.id
  BY <1>1, <1>3 DEF Member, State
<1> HIDE DEF g
<1> QED
  BY <1>2, <1>3, <1>4 DEF r

\* What an assembly does: the slots of a superblock it found, the units copied
\* from the first holder, the bitmaps zeroed.
LEMMA Assembled ==
    ASSUME TInv, NEW F \in SUBSET Drive, Assemble(F)
    PROVE  /\ members' \in [Slot -> Member] /\ events' \in Nat /\ sbDirty' = TRUE
           /\ \E d \in Drive : sb[d] # None /\ \A i \in Slot : members'[i].id = sb[d].slots[i].id
           /\ MediaOK' /\ latest' \in [Unit -> Nat] /\ spent' \in [Event -> Nat] /\ spent'["spares"] = spent["spares"]
           /\ phase = "down" /\ phase' = "opening" /\ wanted' = {} /\ durable' = {} /\ stale' = FALSE
           /\ pool' = {d \in F : sb[d] = None} /\ acked' = flushed
           /\ UNCHANGED <<sb, io, sbw, task, rb, sup, budget, torn, flushed, ticket, excused>>
<1> DEFINE ms(n) == [i \in Slot |-> FromRecord(F, sb[n], i)]
           changed(n) == \E i \in Slot : ms(n)[i].state # sb[n].slots[i].state
           back(n) == Readds(ms(n))
           dirty(n) == UNION {bm[ms(n)[i].id].cur : i \in {j \in Slot : Attached(ms(n)[j])}}
           whole(n) == [i \in Slot |-> IF i \in back(n) THEN [ms(n)[i] EXCEPT !.state = "Active", !.to = 0,
                                                              !.missing = FALSE, !.at = 0] ELSE ms(n)[i]]
           first(n, u) == data[ms(n)[Min({i \in Slot : Holds(ms(n)[i], u)})].id][u].cur
           gets(n, d, u) == u \in dirty(n) /\ \E i \in Slot : ms(n)[i].id = d /\ (Holds(ms(n)[i], u) \/ i \in back(n))
<1>1. PICK n \in F :
        /\ sb[n] # None /\ DataIntact(ms(n)) /\ members' = whole(n)
        /\ events' = sb[n].events + (IF changed(n) THEN 1 ELSE 0) + Cardinality(back(n))
        /\ data' = [d \in Drive |-> [u \in Unit |->
                      IF gets(n, d, u) /\ data[d][u].cur # first(n, u) THEN Put(data[d][u], first(n, u))
                      ELSE data[d][u]]]
        /\ bm' = [d \in Drive |-> IF /\ dirty(n) # {} /\ ~ KeepsBitmap(whole(n))
                                     /\ \E i \in Slot : whole(n)[i].id = d /\ Attached(whole(n)[i])
                                  THEN Put(bm[d], {}) ELSE bm[d]]
        /\ latest' = [u \in Unit |-> first(n, u)]
  BY DEF Assemble
<1>2. sb[n] \in Desc /\ sb[n].events \in Nat
  BY <1>1 DEF TInv, MediaOK, Desc
<1>3. \A i \in Slot : ms(n)[i] \in Member /\ ms(n)[i].id = sb[n].slots[i].id
  BY <1>2, FromRecordTyped
<1>4. \A u \in Unit : first(n, u) \in Nat
  <2> SUFFICES ASSUME NEW u \in Unit PROVE first(n, u) \in Nat
    OBVIOUS
  <2> DEFINE S == {i \in Slot : Holds(ms(n)[i], u)}
  <2>1. PICK j \in Slot : Serving(ms(n)[j])
    BY <1>1 DEF DataIntact
  <2>2. j \in S
    BY <2>1 DEF Serving, Holds
  <2>3. Min(S) \in S
    BY <2>2, LeastSlot
  <2>4. Min(S) \in Slot
    BY <2>3
  <2>5. first(n, u) = data[ms(n)[Min(S)].id][u].cur
    OBVIOUS
  <2> HIDE DEF S, first
  <2>6. ms(n)[Min(S)].id \in Drive
    BY <1>3, <2>4 DEF Member
  <2> HIDE DEF ms
  <2>7. data[ms(n)[Min(S)].id][u] \in Cell(Nat)
    BY <2>6 DEF TInv, MediaOK
  <2> QED
    BY <2>5, <2>7 DEF Cell
<1>5. Cardinality(back(n)) \in Nat
  <2>1. back(n) \subseteq Slot
    BY DEF Readds
  <2>2. IsFiniteSet(Slot)
    BY SizesAssumption, FS_Interval DEF Slot
  <2> HIDE DEF back
  <2> QED
    BY <2>1, <2>2, FS_Subset, FS_CardinalityType
<1> HIDE DEF first, changed, gets, dirty, ms, back
<1>6. whole(n) \in [Slot -> Member] /\ \A i \in Slot : whole(n)[i].id = sb[n].slots[i].id
  <2>1. ASSUME NEW i \in Slot
        PROVE  /\ [ms(n)[i] EXCEPT !.state = "Active", !.to = 0, !.missing = FALSE, !.at = 0] \in Member
               /\ [ms(n)[i] EXCEPT !.state = "Active", !.to = 0, !.missing = FALSE, !.at = 0].id = ms(n)[i].id
    <3>1. ms(n)[i] \in Member /\ 0 \in 0..Units
      BY <1>3, SizesAssumption
    <3> QED
      BY <3>1 DEF Member, State
  <2> QED
    BY <1>3, <2>1
<1> HIDE DEF whole
<1>7. events' \in Nat
  BY <1>1, <1>2, <1>5
<1>8. data' \in [Drive -> [Unit -> Cell(Nat)]]
  <2>1. \A d \in Drive, u \in Unit : data[d][u] \in Cell(Nat)
    BY DEF TInv, MediaOK
  <2>2. \A d \in Drive, u \in Unit : Put(data[d][u], first(n, u)) \in Cell(Nat)
    BY <1>4, <2>1 DEF Put, Cell
  <2> QED
    BY <1>1, <2>1, <2>2
<1>9. bm' \in [Drive -> Cell(SUBSET Unit)]
  <2>1. \A d \in Drive : bm[d] \in Cell(SUBSET Unit)
    BY DEF TInv, MediaOK
  <2>2. \A d \in Drive : Put(bm[d], {}) \in Cell(SUBSET Unit)
    BY <2>1 DEF Put, Cell
  <2> QED
    BY <1>1, <2>1, <2>2
<1>10. spent' \in [Event -> Nat] /\ spent'["spares"] = spent["spares"]
  <2>1. spent' = [spent EXCEPT !["absences"] = IF F = Drive THEN spent["absences"] ELSE spent["absences"] + 1]
    BY DEF Assemble
  <2>2. spent \in [Event -> Nat] /\ "absences" \in Event /\ "spares" \in Event
    BY DEF TInv, HistOK, Event
  <2> QED
    BY <2>1, <2>2
<1>11. /\ phase = "down" /\ phase' = "opening" /\ wanted' = {} /\ durable' = {} /\ stale' = FALSE /\ sbDirty' = TRUE
       /\ pool' = {d \in F : sb[d] = None} /\ acked' = flushed
       /\ UNCHANGED <<sb, io, sbw, task, rb, sup, budget, torn, flushed, ticket, excused>>
  BY DEF Assemble
<1>12. MediaOK'
  BY <1>8, <1>9, <1>11 DEF TInv, MediaOK
<1>13. latest' \in [Unit -> Nat]
  BY <1>1, <1>4
<1>14. members' \in [Slot -> Member] /\ \A i \in Slot : members'[i].id = sb[n].slots[i].id
  BY <1>1, <1>6
<1>15. n \in Drive /\ sb[n] # None
  BY <1>1
<1> QED
  BY <1>7, <1>10, <1>11, <1>12, <1>13, <1>14, <1>15

LEMMA AssembleTypes == ASSUME TInv, NEW F \in SUBSET Drive, Assemble(F) PROVE TInv'
<1> USE DEF TInv
<1>1. /\ members' \in [Slot -> Member] /\ events' \in Nat /\ sbDirty' = TRUE
      /\ MediaOK' /\ latest' \in [Unit -> Nat] /\ spent' \in [Event -> Nat]
      /\ phase' = "opening" /\ wanted' = {} /\ durable' = {} /\ stale' = FALSE
      /\ pool' \subseteq Drive /\ acked' = flushed
      /\ UNCHANGED <<sb, io, sbw, task, rb, sup, budget, torn, flushed, ticket, excused>>
  BY Assembled
<1>2. SetOK' /\ BitsOK'
  BY <1>1 DEF SetOK, BitsOK
<1>3. HistOK'
  BY <1>1 DEF HistOK
<1> QED
  BY <1>1, <1>2, <1>3 DEF TasksOK, PageOK, RoundOK, RebuildOK, SupOK

LEMMA RangesAreUnits == Ranges \subseteq SUBSET Unit
  BY SizesAssumption DEF Ranges, Unit

LEMMA NextTypes == ASSUME TInv, [Next]_vars PROVE TInv'
<1>1. ASSUME NEW t \in Task, NEW r \in Ranges, BeginWrite(t, r) PROVE TInv'
  BY <1>1, BeginWriteTypes, RangesAreUnits
<1>2. ASSUME NEW t \in Task, IntentDurable(t) \/ StartPage(t) \/ LockRange(t) \/ Judge(t) \/ EndWrite(t) PROVE TInv'
  BY <1>2, IntentDurableTypes, StartPageTypes, LockRangeTypes, JudgeTypes, EndWriteTypes
<1>3. ASSUME NEW t \in Task, StartFlush(t) \/ ClearIdle(t) \/ Check(t) PROVE TInv'
  BY <1>3, StartFlushTypes, ClearIdleTypes, CheckTypes
<1>4. ASSUME NEW t \in Task, NEW i \in Slot, ReadFails(t, i) \/ DriveReport(t, i) PROVE TInv'
  <2>1. \E op \in {"reads", "reports"}, missing \in BOOLEAN : FailOnRequest(t, i, op, missing)
    BY <1>4, Zenon DEF ReadFails, DriveReport
  <2> QED
    BY <2>1, FailOnRequestTypes
<1>5. ASSUME NEW t \in Task, NEW l, LandData(t, l) PROVE TInv'
  BY <1>5, LandDataTypes
<1>6. ASSUME NEW t \in Task, NEW l \in Landings, SyncMember(t, l) PROVE TInv'
  BY <1>6, SyncMemberTypes
<1>7. ASSUME NEW l \in Landings, LandPage(l) \/ LandSb(l) \/ LandCopy(l) PROVE TInv'
  BY <1>7, LandPageTypes, LandSbTypes, LandCopyTypes
<1>8. CASE JudgePage \/ CommitPage \/ JudgeSb \/ RepeatRound \/ EndRound
  BY <1>8, JudgePageTypes, CommitPageTypes, JudgeSbTypes, RepeatRoundTypes, EndRoundTypes
<1>9. ASSUME NEW c \in Callers, StartRound(c) PROVE TInv'
  BY <1>9, StartRoundTypes
<1>10. ASSUME Supervise \/ ZeroBitmap \/ \E d \in Drive : TakeSpare(d) PROVE TInv'
  BY <1>10, SuperviseTypes, ZeroBitmapTypes, TakeSpareTypes
<1>11. CASE SpawnRebuild \/ CopyUnit \/ RaiseWatermark \/ CheckRebuild \/ FlushTargets \/ Activate
  BY <1>11, SpawnRebuildTypes, CopyUnitTypes, RaiseWatermarkTypes, CheckRebuildTypes, FlushTargetsTypes, ActivateTypes
<1>12. ASSUME PowerCut \/ \E F \in SUBSET Drive : Assemble(F) PROVE TInv'
  BY <1>12, PowerCutTypes, AssembleTypes
<1>13. CASE UNCHANGED vars
  <2>1. SetOK' /\ BitsOK' /\ MediaOK'
    BY <1>13 DEF vars, TInv, SetOK, BitsOK, MediaOK
  <2>2. TasksOK' /\ PageOK' /\ RoundOK'
    BY <1>13 DEF vars, TInv, TasksOK, PageOK, RoundOK
  <2>3. RebuildOK' /\ SupOK' /\ HistOK'
    BY <1>13 DEF vars, TInv, RebuildOK, SupOK, HistOK
  <2> QED
    BY <2>1, <2>2, <2>3 DEF TInv
<1> QED
  BY <1>1, <1>2, <1>3, <1>4, <1>5, <1>6, <1>7, <1>8, <1>9, <1>10, <1>11, <1>12, <1>13 DEF Next

LEMMA TypesHold == Spec => []TInv
<1>1. TInv /\ [Next]_vars => TInv'
  BY NextTypes
<1> QED
  BY InitTypes, <1>1, PTL DEF Spec

-----------------------------------------------------------------------------
(* Where the drives are                                                     *)

\* A set that has taken one spare has the drives it was created with in their own
\* slots, and at most one other.
Orig(d) == \E i \in Slot : Home[i] = d
SlotsOK(s) ==
    /\ \A i \in Slot : Orig(s[i].id) => s[i].id = Home[i]
    /\ \A i, j \in Slot : ~ Orig(s[i].id) /\ ~ Orig(s[j].id) => i = j
    /\ spent["spares"] = 0 => \A i \in Slot : Orig(s[i].id)
OneSpare == spent["spares"] <= 1

\* Nothing runs but an assembly.
Quiet ==
    /\ io = None /\ (\A t \in Task : task[t] = Idle) /\ sup.pc = "idle" /\ rb.pc = "idle"
    /\ sbw # None => sbw.by = "assembly"

PlaceInv ==
    /\ SlotsOK(members)
    /\ \A d \in Drive : sb[d] # None => SlotsOK(sb[d].slots)
    /\ sbw # None => SlotsOK(sbw.desc.slots)
    /\ \A d \in Drive : Orig(d) => sb[d] # None /\ d \notin pool
    /\ sup.pc = "zero" => ~ Orig(members[sup.slot].id)
QuietInv == (phase # "up" => Quiet) /\ (phase = "down" => sbw = None)

\* The steps of a request, and of everything else.
RequestStep ==
    \E t \in Task :
       \/ \E r \in Ranges : BeginWrite(t, r)
       \/ IntentDurable(t) \/ StartPage(t) \/ LockRange(t) \/ Judge(t) \/ EndWrite(t)
       \/ StartFlush(t) \/ ClearIdle(t) \/ Check(t)
       \/ \E i \in Slot : ReadFails(t, i) \/ DriveReport(t, i)
       \/ \E l \in task[t].todo : LandData(t, l)
       \/ \E l \in Landings : SyncMember(t, l)

\* A step leaves the drives in their slots, unless it takes a spare or assembles.
DrivesStay ==
    /\ \A i \in Slot : members'[i].id = members[i].id
    /\ spent'["spares"] = spent["spares"] /\ pool' = pool

LEMMA FailDrivesStay ==
    ASSUME TInv, \/ UNCHANGED memVars \/ \E i \in Slot, missing \in BOOLEAN : FailMember(i, missing),
           UNCHANGED <<phase, pool>>
    PROVE  \A i \in Slot : members'[i].id = members[i].id
<1>1. CASE UNCHANGED memVars
  BY <1>1 DEF memVars
<1>2. ASSUME NEW i \in Slot, NEW missing \in BOOLEAN, FailMember(i, missing)
      PROVE  \A j \in Slot : members'[j].id = members[j].id
  BY <1>2, FailTyped DEF TInv
<1> QED
  BY <1>1, <1>2

LEMMA SpendSpares ==
    ASSUME TInv, UNCHANGED spent \/ \E e \in Event \ {"spares"} : Spend(e)
    PROVE  spent'["spares"] = spent["spares"]
<1>1. "spares" \in Event
  BY DEF Event
<1> QED
  BY <1>1, SpendTyped DEF TInv

LEMMA RequestDrives == ASSUME TInv, RequestStep PROVE DrivesStay
<1> PICK t \in Task :
       \/ \E r \in Ranges : BeginWrite(t, r)
       \/ IntentDurable(t) \/ StartPage(t) \/ LockRange(t) \/ Judge(t) \/ EndWrite(t)
       \/ StartFlush(t) \/ ClearIdle(t) \/ Check(t)
       \/ \E i \in Slot : ReadFails(t, i) \/ DriveReport(t, i)
       \/ \E l \in task[t].todo : LandData(t, l)
       \/ \E l \in Landings : SyncMember(t, l)
  BY DEF RequestStep
<1> USE DEF DrivesStay
<1>1. CASE \E r \in Ranges : BeginWrite(t, r)
  BY <1>1, SpendSpares DEF BeginWrite, memVars, Event
<1>2. CASE IntentDurable(t) \/ StartPage(t) \/ LockRange(t) \/ EndWrite(t) \/ ClearIdle(t) \/ Check(t)
  BY <1>2 DEF IntentDurable, StartPage, LockRange, EndWrite, ClearIdle, Check, memVars
<1>3. CASE Judge(t)
  <2>1. UNCHANGED memVars \/ \E i \in Slot, missing \in BOOLEAN : FailMember(i, missing)
    BY <1>3, JudgeTask
  <2> QED
    BY <1>3, <2>1, FailDrivesStay DEF Judge
<1>4. CASE StartFlush(t)
  BY <1>4, SpendSpares DEF StartFlush, memVars, Event
<1>5. CASE \E i \in Slot : ReadFails(t, i) \/ DriveReport(t, i)
  <2>1. PICK i \in Slot, op \in {"reads", "reports"}, missing \in BOOLEAN : FailOnRequest(t, i, op, missing)
    BY <1>5, Zenon DEF ReadFails, DriveReport
  <2>2. (UNCHANGED memVars \/ FailMember(i, missing)) /\ Spend(op) /\ UNCHANGED <<phase, pool>>
    BY <2>1 DEF FailOnRequest
  <2>3. op \in Event \ {"spares"}
    BY DEF Event
  <2> QED
    BY <2>2, <2>3, SpendSpares, FailDrivesStay
<1>6. CASE \E l \in task[t].todo : LandData(t, l)
  BY <1>6, SpendSpares DEF LandData, memVars, Event
<1>7. CASE \E l \in Landings : SyncMember(t, l)
  BY <1>7, SpendSpares DEF SyncMember, memVars, Event
<1> QED
  BY <1>1, <1>2, <1>3, <1>4, <1>5, <1>6, <1>7

\* What else leaves the drives in their slots.
LEMMA OtherDrives ==
    ASSUME TInv,
           \/ \E l \in Landings : LandPage(l) \/ LandSb(l) \/ LandCopy(l)
           \/ JudgePage \/ CommitPage \/ JudgeSb \/ RepeatRound \/ EndRound
           \/ \E c \in Callers : StartRound(c)
           \/ Supervise \/ ZeroBitmap
           \/ SpawnRebuild \/ CopyUnit \/ RaiseWatermark \/ CheckRebuild \/ FlushTargets \/ Activate
           \/ PowerCut
    PROVE  DrivesStay
<1> USE DEF DrivesStay
<1>1. ASSUME NEW l \in Landings, LandPage(l) \/ LandSb(l) PROVE DrivesStay
  BY <1>1, SpendSpares DEF LandPage, LandSb, memVars, Event
<1>2. ASSUME NEW l \in Landings, LandCopy(l) PROVE DrivesStay
  <2>1. l.slot \in Slot
    BY DEF Landings
  <2>2. /\ UNCHANGED memVars \/ FailMember(l.slot, FALSE)
        /\ spent' = spent \/ Spend("faults")
        /\ UNCHANGED <<phase, pool>>
    BY <1>2 DEF LandCopy
  <2> QED
    BY <2>1, <2>2, SpendSpares, FailDrivesStay DEF Event
<1>3. CASE JudgePage
  <2>1. io.bad # {} /\ Failable(Min(io.bad)) => Min(io.bad) \in Slot
    BY <1>3, LeastSlot DEF JudgePage, TInv, PageOK, PageRecord
  <2>2. UNCHANGED memVars \/ \E i \in Slot, missing \in BOOLEAN : FailMember(i, missing)
    BY <1>3, <2>1 DEF JudgePage
  <2> QED
    BY <1>3, <2>2, FailDrivesStay DEF JudgePage
<1>4. CASE JudgeSb
  <2>1. UNCHANGED memVars \/ \E i \in Slot, missing \in BOOLEAN : FailMember(i, missing)
    BY <1>4, JudgeSbRound
  <2> QED
    BY <1>4, <2>1, FailDrivesStay DEF JudgeSb
<1>5. CASE CommitPage \/ RepeatRound \/ EndRound \/ Supervise \/ SpawnRebuild \/ CheckRebuild
  BY <1>5 DEF CommitPage, RepeatRound, EndRound, Supervise, SpawnRebuild, CheckRebuild, memVars
<1>6. ASSUME NEW c \in Callers, StartRound(c) PROVE DrivesStay
  BY <1>6 DEF StartRound
<1>7. CASE ZeroBitmap
  <2>1. UNCHANGED <<phase, pool>>
    BY <1>7 DEF ZeroBitmap
  <2>2. /\ UNCHANGED memVars \/ \E i \in Slot, missing \in BOOLEAN : FailMember(i, missing)
        /\ spent' = spent \/ Spend("faults")
    BY <1>7, BitmapZeroed
  <2> QED
    BY <2>1, <2>2, FailDrivesStay, SpendSpares DEF Event
<1>8. CASE CopyUnit
  <2>1. UNCHANGED <<phase, pool>>
    BY <1>8 DEF CopyUnit
  <2>2. /\ UNCHANGED memVars \/ \E i \in Slot, missing \in BOOLEAN : FailMember(i, missing)
        /\ spent' = spent \/ Spend("faults")
    BY <1>8, UnitCopied DEF Sources
  <2> QED
    BY <2>1, <2>2, FailDrivesStay, SpendSpares DEF Event
<1>9. CASE RaiseWatermark
  <2>1. \A i \in Slot : members[i] \in Member
    BY DEF TInv, SetOK
  <2>2. \A i \in Slot : members'[i] = members[i] \/ members'[i] = [members[i] EXCEPT !.to = rb.key + 1]
    BY <1>9, WatermarkRaised
  <2> QED
    BY <1>9, <2>1, <2>2 DEF Member, RaiseWatermark
<1>10. CASE Activate
  <2>1. \A i \in Slot : members[i] \in Member
    BY DEF TInv, SetOK
  <2>2. \A i \in Slot : members'[i] = members[i] \/ members'[i] = [members[i] EXCEPT !.state = "Active", !.to = 0]
    BY <1>10, Activated
  <2> QED
    BY <1>10, <2>1, <2>2 DEF Member, Activate
<1>11. CASE FlushTargets
  <2>1. UNCHANGED <<phase, pool>> /\ rb.targets \subseteq Slot
    BY <1>11 DEF FlushTargets, TInv, RebuildOK, RebuildRecord
  <2>2. /\ UNCHANGED memVars \/ \E i \in Slot, missing \in BOOLEAN : FailMember(i, missing)
        /\ spent' = spent \/ Spend("faults")
    BY <1>11, <2>1, TargetsFlushed
  <2> QED
    BY <2>1, <2>2, FailDrivesStay, SpendSpares DEF Event
<1>12. CASE PowerCut
  BY <1>12, SpendSpares DEF PowerCut, memVars, Event
<1> QED
  BY <1>1, <1>2, <1>3, <1>4, <1>5, <1>6, <1>7, <1>8, <1>9, <1>10, <1>11, <1>12

LEMMA Drives ==
    ASSUME TInv, [Next]_vars
    PROVE  DrivesStay \/ (\E d \in Drive : TakeSpare(d)) \/ \E F \in SUBSET Drive : Assemble(F)
<1>1. CASE RequestStep
  BY <1>1, RequestDrives
<1>2. CASE \/ \E l \in Landings : LandPage(l) \/ LandSb(l) \/ LandCopy(l)
           \/ JudgePage \/ CommitPage \/ JudgeSb \/ RepeatRound \/ EndRound
           \/ \E c \in Callers : StartRound(c)
           \/ Supervise \/ ZeroBitmap
           \/ SpawnRebuild \/ CopyUnit \/ RaiseWatermark \/ CheckRebuild \/ FlushTargets \/ Activate
           \/ PowerCut
  BY <1>2, OtherDrives
<1>3. CASE UNCHANGED vars
  BY <1>3 DEF vars, DrivesStay
<1> QED
  BY <1>1, <1>2, <1>3, Zenon DEF Next, RequestStep

\* A request changes neither the superblocks nor the workers.
LEMMA RequestLeaves == ASSUME RequestStep PROVE UNCHANGED <<phase, pool, sb, sbw, rb, sup>>
<1> PICK t \in Task :
       \/ \E r \in Ranges : BeginWrite(t, r)
       \/ IntentDurable(t) \/ StartPage(t) \/ LockRange(t) \/ Judge(t) \/ EndWrite(t)
       \/ StartFlush(t) \/ ClearIdle(t) \/ Check(t)
       \/ \E i \in Slot : ReadFails(t, i) \/ DriveReport(t, i)
       \/ \E l \in task[t].todo : LandData(t, l)
       \/ \E l \in Landings : SyncMember(t, l)
  BY DEF RequestStep
<1> USE DEF mediaVars
<1>1. CASE \E r \in Ranges : BeginWrite(t, r)
  BY <1>1 DEF BeginWrite
<1>2. CASE IntentDurable(t) \/ LockRange(t)
  BY <1>2 DEF IntentDurable, LockRange
<1>3. CASE StartPage(t)
  BY <1>3 DEF StartPage
<1>4. CASE Judge(t)
  BY <1>4 DEF Judge
<1>5. CASE EndWrite(t)
  BY <1>5 DEF EndWrite
<1>6. CASE StartFlush(t) \/ ClearIdle(t) \/ Check(t)
  BY <1>6 DEF StartFlush, ClearIdle, Check
<1>7. CASE \E i \in Slot : ReadFails(t, i) \/ DriveReport(t, i)
  BY <1>7 DEF ReadFails, DriveReport, FailOnRequest
<1>8. CASE \E l \in task[t].todo : LandData(t, l)
  BY <1>8 DEF LandData
<1>9. CASE \E l \in Landings : SyncMember(t, l)
  BY <1>9 DEF SyncMember
<1> QED
  BY <1>1, <1>2, <1>3, <1>4, <1>5, <1>6, <1>7, <1>8, <1>9

\* What a step writes on a drive is what was described, and what it describes is
\* what was being written, or the set as it is.
SuperblockStep ==
    /\ \A d \in Drive : sb'[d] = sb[d] \/ (sbw # None /\ sb'[d] = sbw.desc)
    /\ sbw' # None => (sbw # None /\ sbw'.desc = sbw.desc) \/ sbw'.desc = Description

LEMMA Superblocks == ASSUME TInv, [Next]_vars PROVE SuperblockStep
<1> USE DEF SuperblockStep
<1>1. CASE UNCHANGED <<sb, sbw>>
  BY <1>1
<1>2. CASE RequestStep
  BY <1>1, <1>2, RequestLeaves
<1>3. ASSUME NEW l \in Landings, LandPage(l) \/ LandCopy(l) PROVE SuperblockStep
  BY <1>1, <1>3 DEF LandPage, LandCopy
<1>4. ASSUME NEW l \in Landings, LandSb(l) PROVE SuperblockStep
  <2>1. l.drive \in Drive /\ sb \in [Drive -> Desc \cup {None}]
    BY DEF Landings, TInv, MediaOK
  <2> QED
    BY <1>4, <2>1, LandSbMedia DEF LandSb
<1>5. CASE JudgePage \/ CommitPage \/ Supervise \/ ZeroBitmap \/ \E d \in Drive : TakeSpare(d)
  BY <1>1, <1>5 DEF JudgePage, CommitPage, Supervise, ZeroBitmap, TakeSpare, mediaVars
<1>6. CASE SpawnRebuild \/ CopyUnit \/ RaiseWatermark \/ CheckRebuild \/ FlushTargets \/ Activate
  BY <1>1, <1>6 DEF SpawnRebuild, CopyUnit, RaiseWatermark, CheckRebuild, FlushTargets, Activate, mediaVars
<1>7. CASE JudgeSb
  BY <1>7, JudgeSbRound DEF JudgeSb, mediaVars
<1>8. CASE RepeatRound
  <2>1. sbw.by \in Callers
    BY <1>8 DEF RepeatRound, TInv, RoundOK, RoundRecord
  <2> QED
    BY <1>8, <2>1, RoundTyped DEF RepeatRound, TInv, mediaVars
<1>9. CASE EndRound
  BY <1>9 DEF EndRound, mediaVars
<1>10. ASSUME NEW c \in Callers, StartRound(c) PROVE SuperblockStep
  BY <1>10, RoundTyped DEF StartRound, TInv, mediaVars
<1>11. CASE PowerCut
  BY <1>11, CutMedia DEF PowerCut
<1>12. CASE \E F \in SUBSET Drive : Assemble(F)
  BY <1>1, <1>12 DEF Assemble
<1>13. CASE UNCHANGED vars
  BY <1>1, <1>13 DEF vars
<1> QED
  BY <1>2, <1>3, <1>4, <1>5, <1>6, <1>7, <1>8, <1>9, <1>10, <1>11, <1>12, <1>13, Zenon DEF Next, RequestStep

\* The supervisor zeroes the slot it gave a spare.
LEMMA ZeroingSlot ==
    ASSUME TInv, [Next]_vars, sup'.pc = "zero", ~ \E d \in Drive : TakeSpare(d)
    PROVE  sup' = sup
<1>2. CASE RequestStep
  BY <1>2, RequestLeaves
<1>3. CASE \E l \in Landings : LandPage(l) \/ LandSb(l) \/ LandCopy(l)
  BY <1>3 DEF LandPage, LandCopy, LandSb
<1>4. CASE JudgePage \/ CommitPage \/ JudgeSb \/ RepeatRound \/ Supervise \/ ZeroBitmap
  <2>1. CASE JudgePage \/ CommitPage \/ JudgeSb \/ RepeatRound
    <3>1. UNCHANGED sup
      BY <2>1, Zenon DEF JudgePage, CommitPage, JudgeSb, RepeatRound
    <3> QED
      BY <3>1
  <2>2. CASE Supervise \/ ZeroBitmap
    <3>1. sup' = [pc |-> "persist"]
      BY <2>2 DEF Supervise, ZeroBitmap
    <3> QED
      BY <3>1
  <2> QED
    BY <1>4, <2>1, <2>2
<1>5. CASE SpawnRebuild \/ CopyUnit \/ RaiseWatermark \/ CheckRebuild \/ FlushTargets \/ Activate
  BY <1>5 DEF SpawnRebuild, CopyUnit, RaiseWatermark, CheckRebuild, FlushTargets, Activate
<1>6. CASE EndRound
  BY <1>6 DEF EndRound
<1>7. ASSUME NEW c \in Callers, StartRound(c) PROVE sup' = sup
  <2>1. sup' = sup \/ (sup.pc = "persist" /\ sup' = [sup EXCEPT !.pc = "round"])
    BY <1>7 DEF StartRound, Wants
  <2> QED
    BY <2>1 DEF TInv, SupOK
<1>8. CASE PowerCut
  <2>1. sup' = [pc |-> "idle"]
    BY <1>8 DEF PowerCut
  <2> QED
    BY <2>1
<1>10. CASE \E F \in SUBSET Drive : Assemble(F)
  BY <1>10 DEF Assemble
<1>9. CASE UNCHANGED vars
  BY <1>9 DEF vars
<1> QED
  BY <1>2, <1>3, <1>4, <1>5, <1>6, <1>7, <1>8, <1>9, <1>10, Zenon DEF Next, RequestStep

LEMMA InitPlace == Init => PlaceInv /\ QuietInv
<1> SUFFICES ASSUME Init PROVE PlaceInv /\ QuietInv
  OBVIOUS
<1>1. \A i \in Slot : members[i].id = Home[i]
  BY DEF Init
<1>2. \A d \in Drive : ~ Orig(d) <=> d \in pool
  BY DEF Init, Orig
<1>3. SlotsOK(members)
  BY <1>1 DEF SlotsOK, Orig
<1>4. \A i \in Slot : Description.slots[i].id = members[i].id
  BY DEF Description
<1>5. SlotsOK(Description.slots)
  BY <1>3, <1>4 DEF SlotsOK
<1>6. \A d \in Drive : sb[d] = IF d \in pool THEN None ELSE Description
  BY DEF Init
<1>7. None # Description
  BY InitTypes, Lists, NoneAssumption DEF TInv
<1>8. phase = "up" /\ sbw = None /\ sup.pc = "idle"
  BY DEF Init
<1> QED
  BY <1>2, <1>3, <1>5, <1>6, <1>7, <1>8 DEF PlaceInv, QuietInv

LEMMA PlaceStep ==
    ASSUME TInv, QuietInv, PlaceInv, [Next]_vars, OneSpare'
    PROVE  PlaceInv'
<1> USE DEF PlaceInv
<1>1. \A i \in Slot : Description.slots[i].id = members[i].id
  BY DEF Description
<1>2. ASSUME NEW s, NEW r, \A i \in Slot : r[i].id = s[i].id, SlotsOK(s) PROVE SlotsOK(r)
  BY <1>2 DEF SlotsOK
<1>3. SlotsOK(Description.slots)
  BY <1>1, <1>2
<1>4. SuperblockStep
  BY Superblocks
<1>5. (\A d \in Drive : sb'[d] # None => SlotsOK(sb'[d].slots)) /\ (sbw' # None => SlotsOK(sbw'.desc.slots))
  BY <1>3, <1>4 DEF SuperblockStep
<1>6. \A d \in Drive : Orig(d) => sb'[d] # None
  <2>1. sbw # None => sbw.desc # None
    BY NoneAssumption DEF TInv, RoundOK, RoundRecord
  <2> QED
    BY <1>4, <2>1 DEF SuperblockStep
<1>7. CASE DrivesStay /\ ~ \E d \in Drive : TakeSpare(d)
  <2>1. \A s : SlotsOK(s) => SlotsOK(s)'
    BY <1>7 DEF DrivesStay, SlotsOK, Orig
  <2>2. SlotsOK(members)' /\ (\A d \in Drive : Orig(d) => d \notin pool')
    BY <1>7 DEF DrivesStay, SlotsOK, Orig
  <2>3. (\A d \in Drive : sb'[d] # None => SlotsOK(sb[d].slots)') /\ (sbw' # None => SlotsOK(sbw.desc.slots)')
    BY <1>5, <1>7 DEF DrivesStay, SlotsOK, Orig
  <2>4. sup'.pc = "zero" => ~ Orig(members'[sup'.slot].id)
    <3> SUFFICES ASSUME sup'.pc = "zero" PROVE ~ Orig(members'[sup'.slot].id)
      OBVIOUS
    <3>1. sup' = sup
      BY <1>7, ZeroingSlot
    <3>2. sup.slot \in Slot
      BY <3>1 DEF TInv, SupOK
    <3> QED
      BY <1>7, <3>1, <3>2 DEF DrivesStay
  <2> QED
    BY <1>6, <2>2, <2>3, <2>4 DEF Orig
<1>8. ASSUME NEW d \in Drive, TakeSpare(d) PROVE PlaceInv'
  <2>1. PICK i \in Slot :
             /\ d \in pool /\ pool' = pool \ {d}
             /\ \A j \in Slot \ {i} : members'[j] = members[j]
             /\ members'[i] = [id |-> d, here |-> TRUE, state |-> "Rebuilding", to |-> 0, missing |-> FALSE, at |-> 0]
             /\ sup' = [pc |-> "zero", slot |-> i]
             /\ spent'["spares"] = spent["spares"] + 1
    BY <1>8, SpareTaken
  <2>2. members'[i].id = d /\ ~ Orig(d)
    BY <2>1
  <2>3. spent["spares"] = 0 /\ spent'["spares"] = 1
    <3>1. spent["spares"] \in Nat
      BY DEF TInv, HistOK, Event
    <3> QED
      BY <2>1, <3>1 DEF OneSpare
  <2>4. \A j \in Slot : Orig(members[j].id)
    BY <2>3 DEF SlotsOK
  <2>5. SlotsOK(members)'
    <3>1. \A j \in Slot : j # i => members'[j].id = Home[j] /\ Orig(members'[j].id)
      BY <2>1, <2>4 DEF SlotsOK
    <3>2. \A j \in Slot : Orig(members'[j].id) => members'[j].id = Home[j]
      BY <2>2, <3>1
    <3>3. \A j, k \in Slot : ~ Orig(members'[j].id) /\ ~ Orig(members'[k].id) => j = k
      BY <3>1
    <3> QED
      BY <2>3, <3>2, <3>3 DEF SlotsOK, Orig
  <2>6. (\A x \in Drive : sb'[x] # None => SlotsOK(sb[x].slots)') /\ (sbw' # None => SlotsOK(sbw.desc.slots)')
    BY <1>5, <2>3 DEF SlotsOK, Orig
  <2>7. sup'.slot = i
    BY <2>1
  <2> QED
    BY <1>6, <2>1, <2>2, <2>5, <2>6, <2>7 DEF Orig
<1>9. ASSUME NEW F \in SUBSET Drive, Assemble(F) PROVE PlaceInv'
  <2>1. /\ \E d \in Drive : sb[d] # None /\ \A i \in Slot : members'[i].id = sb[d].slots[i].id
        /\ spent'["spares"] = spent["spares"] /\ pool' = {d \in F : sb[d] = None}
        /\ UNCHANGED <<sb, sup>>
    BY <1>9, Assembled
  <2>2. SlotsOK(members')
    BY <1>2, <2>1
  <2>3. SlotsOK(members)'
    BY <2>1, <2>2 DEF SlotsOK, Orig
  <2>4. (\A x \in Drive : sb'[x] # None => SlotsOK(sb[x].slots)') /\ (sbw' # None => SlotsOK(sbw.desc.slots)')
    <3>1. spent'["spares"] = spent["spares"]
      BY <2>1
    <3> QED
      BY <1>5, <3>1 DEF SlotsOK, Orig
  <2>5. sup'.pc # "zero"
    <3>1. phase = "down"
      BY <1>9, Assembled
    <3>2. sup.pc = "idle"
      BY <3>1 DEF QuietInv, Quiet
    <3> QED
      BY <2>1, <3>2
  <2> QED
    BY <1>6, <2>1, <2>3, <2>4, <2>5 DEF Orig
<1> QED
  BY <1>7, <1>8, <1>9, Drives

\* Whatever runs besides an assembly runs while the set is up.
LEMMA QuietStep == ASSUME TInv, QuietInv, [Next]_vars, phase' # "up" PROVE Quiet'
<1>1. ASSUME phase # "up" PROVE Quiet
  BY <1>1 DEF QuietInv
<1>2. CASE UNCHANGED <<phase, io, task, sup, rb, sbw>>
  BY <1>1, <1>2 DEF Quiet
<1>3. ASSUME NEW t \in Task, task[t].pc # "idle" PROVE phase = "up"
  BY <1>1, <1>3 DEF Quiet, Idle
<1>4. CASE RequestStep
  <2>1. PICK t \in Task : phase = "up" \/ task[t].pc # "idle"
    <3>1. PICK t \in Task :
           \/ \E r \in Ranges : BeginWrite(t, r)
           \/ IntentDurable(t) \/ StartPage(t) \/ LockRange(t) \/ Judge(t) \/ EndWrite(t)
           \/ StartFlush(t) \/ ClearIdle(t) \/ Check(t)
           \/ \E i \in Slot : ReadFails(t, i) \/ DriveReport(t, i)
           \/ \E l \in task[t].todo : LandData(t, l)
           \/ \E l \in Landings : SyncMember(t, l)
      BY <1>4 DEF RequestStep
    <3>2. (\E r \in Ranges : BeginWrite(t, r)) \/ StartFlush(t) \/ (\E i \in Slot : ReadFails(t, i) \/ DriveReport(t, i))
            => phase = "up"
      BY DEF BeginWrite, StartFlush, ReadFails, DriveReport, FailOnRequest
    <3>3. IntentDurable(t) \/ StartPage(t) \/ LockRange(t) => task[t].pc # "idle"
      BY DEF IntentDurable, StartPage, LockRange
    <3>4. Judge(t) \/ EndWrite(t) \/ ClearIdle(t) \/ Check(t) => task[t].pc # "idle"
      BY DEF Judge, EndWrite, ClearIdle, Check
    <3>5. (\E l \in task[t].todo : LandData(t, l)) \/ (\E l \in Landings : SyncMember(t, l)) => task[t].pc # "idle"
      BY DEF LandData, SyncMember
    <3> QED
      BY <3>1, <3>2, <3>3, <3>4, <3>5, Zenon
  <2>2. phase' = phase
    BY <1>4, RequestLeaves
  <2> QED
    BY <1>3, <2>1, <2>2
<1>5. CASE \E l \in Landings : LandPage(l) \/ LandCopy(l)
  <2>1. phase' = phase /\ (io # None \/ rb.pc # "idle")
    BY <1>5 DEF LandPage, LandCopy
  <2> QED
    BY <1>1, <2>1 DEF Quiet
<1>6. CASE JudgePage \/ CommitPage
  <2>1. phase' = phase /\ io # None
    BY <1>6 DEF JudgePage, CommitPage
  <2> QED
    BY <1>1, <2>1 DEF Quiet
<1>7. CASE (\E l \in Landings : LandSb(l)) \/ JudgeSb \/ RepeatRound
  <2>1. UNCHANGED <<phase, io, task, sup, rb>> /\ sbw # None
    BY <1>7, Zenon DEF LandSb, JudgeSb, RepeatRound
  <2>2. sbw'.by = sbw.by
    <3>1. CASE \E l \in Landings : LandSb(l)
      BY <3>1, LandSbMedia
    <3>2. CASE JudgeSb
      BY <3>2, JudgeSbRound
    <3>3. CASE RepeatRound
      BY <3>3 DEF RepeatRound, Round
    <3> QED
      BY <1>7, <3>1, <3>2, <3>3
  <2> QED
    BY <1>1, <2>1, <2>2 DEF Quiet
<1>8. CASE EndRound
  <2>1. phase' = phase /\ sbw.by # "assembly" /\ sbw # None
    BY <1>8 DEF EndRound
  <2> QED
    BY <1>1, <2>1 DEF Quiet
<1>9. ASSUME NEW c \in Callers, StartRound(c) PROVE Quiet'
  <2>1. Wants(c) /\ phase # "up"
    <3>1. c = "assembly" /\ Wants(c) => phase = "opening"
      BY DEF Wants
    <3>2. Wants(c) /\ phase' = IF c = "assembly" THEN "describing" ELSE phase
      BY <1>9 DEF StartRound
    <3> QED
      BY <3>1, <3>2
  <2>2. Quiet
    BY <1>1, <2>1
  <2>3. c = "assembly"
    <3>1. c # "rebuild" /\ c # "supervisor"
      BY <2>1, <2>2 DEF Wants, Quiet
    <3>2. c \notin Task
      BY <2>1, <2>2, TaskAssumption DEF Wants, Quiet, Idle
    <3> QED
      BY <3>1, <3>2 DEF Callers
  <2>4. UNCHANGED <<io, task, rb, sup>>
    BY <1>9, <2>3, TaskAssumption DEF StartRound
  <2>5. sbw'.by = "assembly"
    BY <1>9, <2>3 DEF StartRound, Round
  <2> QED
    BY <2>2, <2>4, <2>5 DEF Quiet
<1>10. CASE Supervise \/ (\E d \in Drive : TakeSpare(d)) \/ SpawnRebuild
  <2>1. phase' = phase /\ phase = "up"
    BY <1>10 DEF Supervise, TakeSpare, SpawnRebuild
  <2> QED
    BY <2>1
<1>11. CASE ZeroBitmap
  <2>1. phase' = phase /\ sup.pc = "zero"
    BY <1>11 DEF ZeroBitmap
  <2> QED
    BY <1>1, <2>1 DEF Quiet
<1>12. CASE CopyUnit \/ RaiseWatermark \/ CheckRebuild \/ FlushTargets \/ Activate
  <2>1. phase' = phase /\ rb.pc # "idle"
    BY <1>12 DEF CopyUnit, RaiseWatermark, CheckRebuild, FlushTargets, Activate
  <2> QED
    BY <1>1, <2>1 DEF Quiet
<1>13. CASE PowerCut
  <2>1. io' = None /\ sbw' = None /\ task' = [t \in Task |-> Idle] /\ rb' = NoRebuild /\ sup' = [pc |-> "idle"]
    BY <1>13 DEF PowerCut
  <2> QED
    BY <2>1 DEF Quiet, NoRebuild
<1>14. CASE \E F \in SUBSET Drive : Assemble(F)
  <2>1. phase = "down" /\ UNCHANGED <<io, sbw, task, rb, sup>>
    BY <1>14 DEF Assemble
  <2> QED
    BY <1>1, <2>1 DEF Quiet
<1>15. CASE UNCHANGED vars
  BY <1>2, <1>15 DEF vars
<1> QED
  BY <1>4, <1>5, <1>6, <1>7, <1>8, <1>9, <1>10, <1>11, <1>12, <1>13, <1>14, <1>15, Zenon DEF Next, RequestStep

LEMMA DownStep == ASSUME TInv, QuietInv, [Next]_vars, phase' = "down" PROVE sbw' = None
<1>1. CASE phase = "down"
  <2>1. sbw = None /\ Quiet
    BY <1>1 DEF QuietInv
  <2>2. ASSUME NEW c \in Callers, StartRound(c) PROVE FALSE
    <3>1. Wants(c)
      BY <2>2 DEF StartRound
    <3>2. c \notin {"rebuild", "supervisor", "assembly"}
      BY <1>1, <2>1, <3>1 DEF Wants, Quiet
    <3>3. c \in Task /\ task[c].pc = "persist"
      BY <3>1, <3>2 DEF Wants, Callers
    <3> QED
      BY <2>1, <3>3 DEF Quiet, Idle
  <2>3. CASE UNCHANGED sbw
    BY <2>1, <2>3
  <2>4. CASE RequestStep
    BY <2>3, <2>4, RequestLeaves
  <2>5. CASE \E l \in Landings : LandPage(l) \/ LandCopy(l)
    BY <2>3, <2>5 DEF LandPage, LandCopy
  <2>6. CASE (\E l \in Landings : LandSb(l)) \/ JudgeSb \/ RepeatRound \/ EndRound
    BY <2>1, <2>6, Zenon DEF LandSb, JudgeSb, RepeatRound, EndRound
  <2>7. CASE JudgePage \/ CommitPage \/ Supervise \/ ZeroBitmap \/ (\E d \in Drive : TakeSpare(d))
    BY <2>3, <2>7 DEF JudgePage, CommitPage, Supervise, ZeroBitmap, TakeSpare
  <2>8. CASE SpawnRebuild \/ CopyUnit \/ RaiseWatermark \/ CheckRebuild \/ FlushTargets \/ Activate
    BY <2>3, <2>8 DEF SpawnRebuild, CopyUnit, RaiseWatermark, CheckRebuild, FlushTargets, Activate
  <2>9. CASE PowerCut
    BY <2>9 DEF PowerCut
  <2>10. CASE \E F \in SUBSET Drive : Assemble(F)
    BY <2>3, <2>10 DEF Assemble
  <2>11. CASE UNCHANGED vars
    BY <2>3, <2>11 DEF vars
  <2> QED
    BY <2>2, <2>4, <2>5, <2>6, <2>7, <2>8, <2>9, <2>10, <2>11, Zenon DEF Next, RequestStep
<1>2. CASE phase # "down"
  <2>1. CASE phase' = phase
    BY <1>2, <2>1
  <2>2. CASE RequestStep
    BY <2>1, <2>2, RequestLeaves
  <2>3. CASE \E l \in Landings : LandPage(l) \/ LandCopy(l) \/ LandSb(l)
    BY <2>1, <2>3 DEF LandPage, LandCopy, LandSb
  <2>4. CASE JudgePage \/ CommitPage \/ JudgeSb \/ RepeatRound \/ Supervise \/ ZeroBitmap \/ (\E d \in Drive : TakeSpare(d))
    BY <2>1, <2>4 DEF JudgePage, CommitPage, JudgeSb, RepeatRound, Supervise, ZeroBitmap, TakeSpare
  <2>5. CASE EndRound \/ (\E c \in Callers : StartRound(c)) \/ (\E F \in SUBSET Drive : Assemble(F))
    <3>1. phase' \in {phase, "up", "describing", "opening"}
      BY <2>5 DEF EndRound, StartRound, Assemble
    <3> QED
      BY <1>2, <3>1
  <2>6. CASE SpawnRebuild \/ CopyUnit \/ RaiseWatermark \/ CheckRebuild \/ FlushTargets \/ Activate
    BY <2>1, <2>6 DEF SpawnRebuild, CopyUnit, RaiseWatermark, CheckRebuild, FlushTargets, Activate
  <2>7. CASE PowerCut
    BY <2>7 DEF PowerCut
  <2>8. CASE UNCHANGED vars
    BY <2>1, <2>8 DEF vars
  <2> QED
    BY <2>2, <2>3, <2>4, <2>5, <2>6, <2>7, <2>8, Zenon DEF Next, RequestStep
<1> QED
  BY <1>1, <1>2

-----------------------------------------------------------------------------
(* The bitmap                                                               *)

\* "Its bits are on disk before the data": the page on its way to the drives has
\* every bit that writes may rely on (bitmap.rs:10).  A flush that clears bits
\* while a page with them is being written breaks it.
PagesKeepBits == io # None => durable \subseteq io.image

\* The writes counted into the bitmap, and those that wait no longer for their bits.
Counted(t) == task[t].pc \in {"intent", "intending", "lock", "land"}
Past(t) == task[t].pc \in {"lock", "land"}
Page(i) == [slot |-> i, drive |-> members[i].id]

\* The bits a write relies on are wanted, in the page that is being written, and
\* on every attached drive the set was created with.
Wanted == \A t \in Task : Counted(t) => task[t].range \subseteq wanted
PartsInRange == \A t \in Task : task[t].pc = "land" => \A l \in task[t].todo : l.part \subseteq task[t].range
InPage == io # None => \A t \in Task : Past(t) => task[t].range \subseteq io.image
OnDrive(i) ==
    LET bits == bm[members[i].id].cur IN
    /\ durable \subseteq bits
    /\ \A t \in Task : Past(t) => task[t].range \subseteq bits
    /\ io # None => Page(i) \in io.todo \/ i \in io.bad \/ io.image \subseteq bits
OnDrives == phase # "down" => \A i \in Slot : Attached(members[i]) /\ Orig(members[i].id) => OnDrive(i)
BitInv == Wanted /\ PartsInRange /\ InPage /\ OnDrives

\* A step under which writes, pages and drives are as they were, or fewer.
LEMMA BitsStay ==
    ASSUME TInv, BitInv,
           \A t \in Task : Past(t)' => Past(t) /\ task'[t].range = task[t].range,
           \A i \in Slot : Attached(members'[i]) /\ Orig(members'[i].id)
               => /\ Attached(members[i]) /\ members'[i].id = members[i].id
                  /\ bm'[members[i].id].cur = bm[members[i].id].cur,
           durable' \subseteq durable, io' = io \/ io' = None, phase' # "down" => phase # "down"
    PROVE  InPage' /\ OnDrives'
<1>1. InPage'
  BY DEF BitInv, InPage
<1>2. ASSUME phase' # "down", NEW i \in Slot, Attached(members'[i]), Orig(members'[i].id) PROVE OnDrive(i)'
  <2>1. /\ Attached(members[i]) /\ members'[i].id = members[i].id
        /\ bm'[members[i].id].cur = bm[members[i].id].cur
    BY <1>2
  <2>2. OnDrive(i)
    BY <1>2, <2>1 DEF BitInv, OnDrives
  <2>3. Page(i)' = Page(i)
    BY <2>1 DEF Page
  <2> QED
    BY <2>1, <2>2, <2>3 DEF OnDrive
<1> QED
  BY <1>1, <1>2 DEF OnDrives, Attached, Orig

\* One request takes a step that makes it rely on no more bits.
PastStays == \A t \in Task : Past(t)' => Past(t) /\ task'[t].range = task[t].range

LEMMA RequestBits ==
    ASSUME BitInv, NEW t \in Task, \A x \in Task \ {t} : task'[x] = task[x], wanted \subseteq wanted',
           Counted(t)' => task'[t].range \subseteq wanted',
           Past(t)' => Past(t) /\ task'[t].range = task[t].range,
           task'[t].pc = "land" => \A l \in task'[t].todo : l.part \subseteq task'[t].range
    PROVE  Wanted' /\ PartsInRange' /\ PastStays
<1>1. \A x \in Task \ {t} : (Past(x)' <=> Past(x)) /\ (Counted(x)' <=> Counted(x))
  BY DEF Past, Counted
<1>2. Wanted'
  BY <1>1 DEF BitInv, Wanted
<1>3. PartsInRange'
  BY DEF BitInv, PartsInRange
<1>4. PastStays
  BY <1>1 DEF PastStays
<1> QED
  BY <1>2, <1>3, <1>4

LEMMA NoRequestBits ==
    ASSUME BitInv, UNCHANGED <<task, wanted>> PROVE Wanted' /\ PartsInRange' /\ PastStays
  BY DEF BitInv, Wanted, PartsInRange, PastStays, Past, Counted

\* The attached drives that the set was created with stay, and what their bitmaps read.
MapsStay ==
    \A i \in Slot : Attached(members'[i]) /\ Orig(members'[i].id)
        => /\ Attached(members[i]) /\ members'[i].id = members[i].id
           /\ bm'[members[i].id].cur = bm[members[i].id].cur

LEMMA FailMaps ==
    ASSUME TInv, \/ UNCHANGED memVars \/ \E i \in Slot, missing \in BOOLEAN : FailMember(i, missing),
           UNCHANGED <<phase, pool>>, \A d \in Drive : bm'[d].cur = bm[d].cur
    PROVE  MapsStay
<1>1. \A i \in Slot : members[i].id \in Drive
  BY DEF TInv, SetOK, Member
<1>2. CASE UNCHANGED memVars
  BY <1>1, <1>2 DEF memVars, MapsStay
<1>3. ASSUME NEW i \in Slot, NEW missing \in BOOLEAN, FailMember(i, missing) PROVE MapsStay
  <2>1. members'[i].state = "Failed" /\ \A j \in Slot \ {i} : members'[j] = members[j]
    BY <1>3, FailTyped DEF TInv
  <2> QED
    BY <1>1, <2>1 DEF MapsStay, Attached
<1> QED
  BY <1>2, <1>3

\* A step whose writes rely on nothing new.
LEMMA QuietBits ==
    ASSUME TInv, BitInv, Wanted', PartsInRange', PastStays, MapsStay, durable' \subseteq durable, io' = io \/ io' = None,
           phase' # "down" => phase # "down"
    PROVE  BitInv'
<1>1. InPage' /\ OnDrives'
  BY BitsStay DEF PastStays, MapsStay
<1> QED
  BY <1>1 DEF BitInv

\* A write that relies on bits that are durable.
LEMMA NewlyRelies ==
    ASSUME TInv, BitInv, PagesKeepBits, Wanted', PartsInRange', NEW t \in Task, \A x \in Task \ {t} : task'[x] = task[x],
           Past(t)' => task'[t].range \subseteq durable, UNCHANGED <<phase, members, durable, io, bm>>
    PROVE  BitInv'
<1>1. \A x \in Task \ {t} : Past(x)' <=> Past(x)
  BY DEF Past
<1>2. InPage'
  BY <1>1 DEF BitInv, InPage, PagesKeepBits
<1>3. ASSUME phase # "down", NEW i \in Slot, Attached(members[i]), Orig(members[i].id) PROVE OnDrive(i)'
  <2>1. OnDrive(i) /\ Page(i)' = Page(i)
    BY <1>3 DEF BitInv, OnDrives, Page
  <2> QED
    BY <1>1, <2>1 DEF OnDrive
<1>4. OnDrives'
  BY <1>3 DEF OnDrives, Attached, Orig
<1> QED
  BY <1>2, <1>4 DEF BitInv

LEMMA BeginWriteBits ==
    ASSUME TInv, BitInv, PagesKeepBits, NEW t \in Task, NEW r \in SUBSET Unit, BeginWrite(t, r) PROVE BitInv'
<1> DEFINE pc == IF r \subseteq durable THEN "lock" ELSE "intent"
           k == [op |-> "write", range |-> r, ok |-> FALSE, bad |-> {}, todo |-> {}, pc |-> pc, v |-> 0]
<1>1. /\ task' = [task EXCEPT ![t] = k] /\ task[t] = Idle /\ wanted' = wanted \cup r
      /\ UNCHANGED <<phase, memVars, durable, io, bm>>
  BY DEF BeginWrite, mediaVars
<1>2. k.range = r /\ k.pc = pc
  OBVIOUS
<1> HIDE DEF k
<1>3. task'[t] = k /\ \A x \in Task \ {t} : task'[x] = task[x]
  BY <1>1 DEF TInv, TasksOK
<1>4. Wanted' /\ PartsInRange'
  <2>1. \A x \in Task \ {t} : Counted(x)' <=> Counted(x)
    BY <1>3 DEF Counted
  <2>2. Wanted'
    BY <1>1, <1>2, <1>3, <2>1 DEF BitInv, Wanted
  <2>3. PartsInRange'
    BY <1>2, <1>3 DEF BitInv, PartsInRange
  <2> QED
    BY <2>2, <2>3
<1>5. Past(t)' => r \subseteq durable
  BY <1>2, <1>3 DEF Past
<1> QED
  BY <1>1, <1>2, <1>3, <1>4, <1>5, NewlyRelies DEF memVars

LEMMA IntentDurableBits ==
    ASSUME TInv, BitInv, PagesKeepBits, NEW t \in Task, IntentDurable(t) PROVE BitInv'
<1> DEFINE k == [task[t] EXCEPT !.pc = "lock"]
<1>1. /\ task' = [task EXCEPT ![t] = k] /\ task[t].pc = "intent" /\ task[t].range \subseteq durable
      /\ UNCHANGED <<phase, memVars, mapVars, io, bm>>
  BY DEF IntentDurable, mediaVars
<1>2. k.range = task[t].range /\ k.pc = "lock"
  BY <1>1, Kinds DEF TInv, WriteRecord
<1> HIDE DEF k
<1>3. task'[t] = k /\ \A x \in Task \ {t} : task'[x] = task[x]
  BY <1>1 DEF TInv, TasksOK
<1>4. Wanted' /\ PartsInRange'
  <2>1. \A x \in Task \ {t} : Counted(x)' <=> Counted(x)
    BY <1>3 DEF Counted
  <2>2. Wanted'
    BY <1>1, <1>2, <1>3, <2>1 DEF BitInv, Wanted, Counted, mapVars
  <2>3. PartsInRange'
    BY <1>2, <1>3 DEF BitInv, PartsInRange
  <2> QED
    BY <2>2, <2>3
<1> QED
  BY <1>1, <1>2, <1>3, <1>4, NewlyRelies DEF memVars, mapVars

LEMMA StartPageBits == ASSUME TInv, BitInv, NEW t \in Task, StartPage(t) PROVE BitInv'
<1>1. task[t].pc \in {"page", "intent"} /\ UNCHANGED <<phase, memVars, mapVars, mediaVars>> /\ io = None
  BY DEF StartPage
<1>2. PICK pc \in {"paging", "intending", "check"} :
        /\ task' = [task EXCEPT ![t] = [task[t] EXCEPT !.pc = pc]]
        /\ task[t].pc = "page" => pc # "intending"
        /\ \/ io' = [by |-> t, image |-> wanted, bad |-> {}, any |-> FALSE, todo |-> AttachedDevices]
           \/ io' = None
  BY <1>1 DEF StartPage
<1> DEFINE k == [task[t] EXCEPT !.pc = pc]
<1>3. k.pc = pc /\ (pc = "intending" => k.range = task[t].range)
  BY <1>1, <1>2, Kinds DEF TInv, WriteRecord, FlushRecord
<1>4. task'[t] = k /\ \A x \in Task \ {t} : task'[x] = task[x]
  BY <1>2 DEF TInv, TasksOK
<1> HIDE DEF k
<1>5. Wanted' /\ PartsInRange' /\ PastStays
  <2>1. Counted(t)' => task'[t].range \subseteq wanted
    <3> SUFFICES ASSUME Counted(t)' PROVE task'[t].range \subseteq wanted
      OBVIOUS
    <3>1. pc = "intending" /\ task[t].pc = "intent"
      BY <1>1, <1>2, <1>3, <1>4 DEF Counted
    <3>2. Counted(t)
      BY <3>1 DEF Counted
    <3> QED
      BY <1>3, <1>4, <3>1, <3>2 DEF BitInv, Wanted
  <2>2. ~ Past(t)' /\ task'[t].pc # "land"
    BY <1>3, <1>4 DEF Past
  <2> QED
    BY <1>1, <1>4, <2>1, <2>2, RequestBits DEF mapVars
<1>6. CASE io' = None
  <2>1. MapsStay
    BY <1>1, FailMaps DEF mediaVars, MapsStay, memVars
  <2> QED
    BY <1>1, <1>5, <1>6, <2>1, QuietBits DEF mapVars
<1>7. CASE io' = [by |-> t, image |-> wanted, bad |-> {}, any |-> FALSE, todo |-> AttachedDevices]
  <2>1. io'.image = wanted /\ io'.todo = AttachedDevices
    BY <1>7
  <2>2. \A x \in Task : Past(x)' => task'[x].range \subseteq wanted
    BY <1>1, <1>5 DEF Wanted, Past, Counted, mapVars
  <2>3. InPage'
    BY <2>1, <2>2 DEF InPage
  <2>4. ASSUME phase # "down", NEW i \in Slot, Attached(members[i]), Orig(members[i].id) PROVE OnDrive(i)'
    <3>1. OnDrive(i) /\ Page(i)' = Page(i)
      BY <1>1, <2>4 DEF BitInv, OnDrives, Page, memVars
    <3>2. Page(i) \in AttachedDevices
      BY <2>4 DEF AttachedDevices, Page
    <3>3. UNCHANGED <<durable, members, bm>>
      BY <1>1 DEF mapVars, memVars, mediaVars
    <3> QED
      BY <1>5, <2>1, <3>1, <3>2, <3>3 DEF OnDrive, PastStays
  <2>5. OnDrives'
    BY <1>1, <2>4 DEF OnDrives, Attached, Orig, memVars
  <2> QED
    BY <1>5, <2>3, <2>5 DEF BitInv
<1> QED
  BY <1>2, <1>6, <1>7

LEMMA LandPageBits ==
    ASSUME TInv, BitInv, PagesKeepBits, NEW l \in Landings, LandPage(l) PROVE BitInv'
<1>1. /\ io # None /\ io \in PageRecord /\ l \in io.todo /\ l.drive \in Drive /\ l.slot \in Slot
      /\ UNCHANGED <<phase, memVars, mapVars, task>>
  BY DEF LandPage, TInv, PageOK, Landings
<1>2. Wanted' /\ PartsInRange' /\ PastStays
  BY <1>1, NoRequestBits DEF mapVars
<1>3. \/ /\ bm' = [bm EXCEPT ![l.drive] = Durable(io.image)] /\ io' = [io EXCEPT !.todo = @ \ {l}, !.any = TRUE]
      \/ bm' = bm /\ io' = [io EXCEPT !.todo = @ \ {l}, !.bad = @ \cup {l.slot}]
  BY DEF LandPage
<1>4. io'.image = io.image /\ io'.todo = io.todo \ {l} /\ io.bad \subseteq io'.bad /\ (bm' = bm => l.slot \in io'.bad \/ io'.bad = io.bad)
  BY <1>1, <1>3 DEF PageRecord
<1>5. InPage'
  BY <1>1, <1>2, <1>4 DEF BitInv, InPage, PastStays
<1>6. ASSUME phase # "down", NEW i \in Slot, Attached(members[i]), Orig(members[i].id) PROVE OnDrive(i)'
  <2>1. OnDrive(i) /\ Page(i)' = Page(i) /\ members' = members /\ durable' = durable
    BY <1>1, <1>6 DEF BitInv, OnDrives, Page, memVars, mapVars
  <2>2. members[i].id \in Drive
    BY DEF TInv, SetOK, Member
  <2>3. CASE bm'[members[i].id].cur = io.image
    BY <1>1, <1>2, <1>4, <2>1, <2>3 DEF OnDrive, PastStays, PagesKeepBits, BitInv, InPage
  <2>4. CASE bm'[members[i].id] = bm[members[i].id] /\ (l = Page(i) => i \in io'.bad)
    BY <1>1, <1>2, <1>4, <2>1, <2>4 DEF OnDrive, PastStays
  <2>5. CASE bm' = [bm EXCEPT ![l.drive] = Durable(io.image)]
    <3>1. CASE l.drive = members[i].id
      BY <2>2, <2>3, <2>5, <3>1 DEF TInv, MediaOK, Durable
    <3>2. CASE l.drive # members[i].id
      BY <2>2, <2>4, <2>5, <3>2 DEF Page, TInv, MediaOK
    <3> QED
      BY <3>1, <3>2
  <2>6. CASE bm' = bm /\ io' = [io EXCEPT !.todo = @ \ {l}, !.bad = @ \cup {l.slot}]
    <3>1. l.slot \in io'.bad
      BY <1>1, <2>6 DEF PageRecord
    <3> QED
      BY <2>4, <2>6, <3>1 DEF Page
  <2> QED
    BY <1>3, <2>5, <2>6
<1>7. OnDrives'
  BY <1>1, <1>6 DEF OnDrives, Attached, Orig, memVars
<1> QED
  BY <1>2, <1>5, <1>7 DEF BitInv

LEMMA JudgePageBits == ASSUME TInv, BitInv, JudgePage PROVE BitInv'
<1>1. /\ io # None /\ io \in PageRecord /\ io.by \in Task /\ io.bad \subseteq Slot
      /\ UNCHANGED <<phase, pool, mapVars, mediaVars>>
  BY DEF JudgePage, TInv, PageOK, PageRecord
<1>2. CASE io.bad # {} /\ Failable(Min(io.bad))
  <2> DEFINE m == Min(io.bad)
  <2>1. m \in io.bad /\ m \in Slot
    BY <1>1, <1>2, LeastSlot
  <2>2. FailMember(m, FALSE) /\ io' = [io EXCEPT !.bad = @ \ {m}] /\ task' = task
    BY <1>2 DEF JudgePage
  <2> HIDE DEF m
  <2>3. Wanted' /\ PartsInRange' /\ PastStays
    BY <1>1, <2>2, NoRequestBits DEF mapVars
  <2>4. io'.image = io.image /\ io'.todo = io.todo /\ io'.bad = io.bad \ {m}
    BY <1>1, <2>2 DEF PageRecord
  <2>5. members'[m].state = "Failed" /\ \A i \in Slot \ {m} : members'[i] = members[i]
    BY <1>1, <2>1, <2>2, FailTyped DEF TInv
  <2>6. InPage'
    BY <1>1, <2>3, <2>4 DEF BitInv, InPage, PastStays
  <2>7. ASSUME phase # "down", NEW i \in Slot, Attached(members'[i]), Orig(members'[i].id) PROVE OnDrive(i)'
    <3>1. i # m /\ members'[i] = members[i]
      BY <2>5, <2>7 DEF Attached
    <3>2. OnDrive(i) /\ Page(i)' = Page(i) /\ UNCHANGED <<bm, durable>>
      BY <1>1, <2>7, <3>1 DEF BitInv, OnDrives, Page, mapVars, mediaVars
    <3> QED
      BY <1>1, <2>3, <2>4, <3>1, <3>2 DEF OnDrive, PastStays
  <2>8. OnDrives'
    BY <1>1, <2>7 DEF OnDrives, Attached, Orig
  <2> QED
    BY <2>3, <2>6, <2>8 DEF BitInv
<1>3. CASE ~ (io.bad # {} /\ Failable(Min(io.bad)))
  <2>0. PICK t \in Task : t = io.by
    BY <1>1
  <2> DEFINE r == IF task[t].op = "write" THEN Idle ELSE [task[t] EXCEPT !.pc = "check"]
  <2>1. io' = None /\ task' = [task EXCEPT ![t] = r] /\ UNCHANGED memVars
    BY <1>3, <2>0 DEF JudgePage
  <2>2. r.pc \in {"idle", "check"}
    <3>1. task[t].op # "write" => task[t] \in FlushRecord
      BY <1>1, <2>0, Kinds DEF TInv, PageOK, PageRecord, WriteRecord
    <3> QED
      BY <3>1 DEF FlushRecord, Idle
  <2> HIDE DEF r
  <2>3. task'[t] = r /\ \A x \in Task \ {t} : task'[x] = task[x]
    BY <1>1, <2>1 DEF TInv, TasksOK
  <2>4. ~ Past(t)' /\ ~ Counted(t)' /\ task'[t].pc # "land"
    BY <2>2, <2>3 DEF Past, Counted
  <2>5. Wanted' /\ PartsInRange' /\ PastStays
    BY <1>1, <2>3, <2>4, RequestBits DEF mapVars
  <2>6. MapsStay
    BY <1>1, <2>1, FailMaps DEF mediaVars
  <2> QED
    BY <1>1, <2>1, <2>5, <2>6, QuietBits DEF mapVars
<1> QED
  BY <1>2, <1>3

LEMMA CommitPageBits == ASSUME TInv, BitInv, CommitPage PROVE BitInv'
<1>0. PICK t \in Task : t = io.by
  BY DEF CommitPage, TInv, PageOK, PageRecord
<1> DEFINE pc == IF task[t].pc = "paging" THEN "check" ELSE "intent"
           r == [task[t] EXCEPT !.pc = pc]
<1>1. /\ io # None /\ io \in PageRecord  /\ io.todo = {} /\ io.bad = {}
      /\ UNCHANGED <<phase, memVars, wanted, mediaVars>>
      /\ durable' = io.image /\ io' = None /\ task' = [task EXCEPT ![t] = r]
  BY <1>0 DEF CommitPage, TInv, PageOK, PageRecord
<1>2. r.pc = pc /\ (pc = "intent" => r.range = task[t].range /\ task[t].pc = "intending")
  BY <1>0, <1>1, Kinds DEF TInv, PageOK, WriteRecord, FlushRecord
<1> HIDE DEF r
<1>3. task'[t] = r /\ \A x \in Task \ {t} : task'[x] = task[x]
  BY <1>1 DEF TInv, TasksOK
<1>4. Wanted' /\ PartsInRange' /\ PastStays
  <2>1. ~ Past(t)' /\ task'[t].pc # "land"
    BY <1>2, <1>3 DEF Past
  <2>2. Counted(t)' => task'[t].range \subseteq wanted
    <3>1. Counted(t)' => pc = "intent"
      BY <1>2, <1>3 DEF Counted
    <3>2. pc = "intent" => Counted(t)
      BY <1>2 DEF Counted
    <3> QED
      BY <1>1, <1>2, <1>3, <3>1, <3>2 DEF BitInv, Wanted
  <2> QED
    BY <1>1, <1>3, <2>1, <2>2, RequestBits
<1>5. InPage'
  BY <1>1 DEF InPage
<1>6. ASSUME phase # "down", NEW i \in Slot, Attached(members[i]), Orig(members[i].id) PROVE OnDrive(i)'
  <2>1. OnDrive(i) /\ UNCHANGED <<bm, members>>
    BY <1>1, <1>6 DEF BitInv, OnDrives, mediaVars, memVars
  <2> QED
    BY <1>1, <1>4, <2>1 DEF OnDrive, PastStays
<1>7. OnDrives'
  BY <1>1, <1>6 DEF OnDrives, Attached, Orig, memVars
<1> QED
  BY <1>4, <1>5, <1>7 DEF BitInv

LEMMA LockRangeBits == ASSUME TInv, BitInv, NEW t \in Task, LockRange(t) PROVE BitInv'
<1> DEFINE n == ticket + 1
           todo == Targets(task[t].range)
           k == [task[t] EXCEPT !.pc = "land", !.v = n, !.todo = todo]
<1>1. task[t] \in WriteRecord /\ task[t].pc = "lock" /\ UNCHANGED <<phase, memVars, pool, mapVars, mediaVars, io>>
  BY Kinds DEF LockRange, TInv
<1>2. task' = [task EXCEPT ![t] = k]
  BY <1>1 DEF LockRange, WriteRecord, TInv, TasksOK
<1>3. \A l \in todo : l.part \subseteq task[t].range
  BY DEF Targets
<1> HIDE DEF n, todo
<1>4. k.pc = "land" /\ k.range = task[t].range /\ k.todo = todo
  BY <1>1 DEF WriteRecord
<1> HIDE DEF k
<1>5. task'[t] = k /\ \A x \in Task \ {t} : task'[x] = task[x]
  BY <1>2 DEF TInv, TasksOK
<1>6. Past(t) /\ Counted(t)
  BY <1>1 DEF Past, Counted
<1>7. task[t].range \subseteq wanted
  BY <1>6 DEF BitInv, Wanted
<1>8. Wanted' /\ PartsInRange' /\ PastStays
  BY <1>1, <1>3, <1>4, <1>5, <1>6, <1>7, RequestBits DEF mapVars
<1>9. MapsStay
  BY <1>1, FailMaps DEF mediaVars
<1> QED
  BY <1>1, <1>8, <1>9, QuietBits DEF mapVars

LEMMA LandDataBits == ASSUME TInv, BitInv, NEW t \in Task, NEW l, LandData(t, l) PROVE BitInv'
<1>1. UNCHANGED <<phase, memVars, pool, mapVars, bm, io>>
  BY DEF LandData
<1>2. /\ task[t].pc = "land" /\ \A x \in Task \ {t} : task'[x] = task[x]
      /\ task'[t].range = task[t].range /\ task'[t].todo \subseteq task[t].todo
  BY LandDataTask
<1>3. Past(t) /\ Counted(t)
  BY <1>2 DEF Past, Counted
<1>4. Wanted' /\ PartsInRange' /\ PastStays
  BY <1>1, <1>2, <1>3, RequestBits DEF mapVars, BitInv, Wanted, PartsInRange
<1>5. MapsStay
  BY <1>1, FailMaps
<1> QED
  BY <1>1, <1>4, <1>5, QuietBits DEF mapVars

LEMMA JudgeBits == ASSUME TInv, BitInv, NEW t \in Task, Judge(t) PROVE BitInv'
<1>1. UNCHANGED <<phase, pool, mapVars, mediaVars, io>>
  BY DEF Judge
<1>2. /\ task[t].pc \in {"land", "sync"} /\ \A x \in Task \ {t} : task'[x] = task[x]
      /\ task'[t].pc = task[t].pc /\ task'[t].todo = {}
      /\ task[t] \in WriteRecord => task'[t].range = task[t].range
      /\ UNCHANGED memVars \/ \E i \in Slot, missing \in BOOLEAN : FailMember(i, missing)
  BY JudgeTask
<1>3. Counted(t)' => Counted(t) /\ Past(t) /\ task'[t].range = task[t].range
  BY <1>2, Kinds DEF TInv, Past, Counted
<1>4. Past(t)' => Counted(t)'
  BY DEF Past, Counted
<1>5. Wanted' /\ PartsInRange' /\ PastStays
  BY <1>1, <1>2, <1>3, <1>4, RequestBits DEF mapVars, BitInv, Wanted
<1>6. MapsStay
  BY <1>1, <1>2, FailMaps DEF mediaVars
<1> QED
  BY <1>1, <1>5, <1>6, QuietBits DEF mapVars

\* A step that counts no request in.
LEMMA CountedOut ==
    ASSUME TInv, BitInv, wanted' = wanted, MapsStay, durable' \subseteq durable, io' = io, phase' # "down" => phase # "down",
           \A x \in Task : Counted(x)' => task'[x] = task[x]
    PROVE  BitInv'
<1>1. \A x \in Task : (Counted(x)' => Counted(x)) /\ (Past(x)' => Past(x) /\ Counted(x)')
  BY DEF Counted, Past
<1>2. Wanted' /\ PartsInRange' /\ PastStays
  BY <1>1 DEF BitInv, Wanted, PartsInRange, PastStays, Counted
<1> QED
  BY <1>2, QuietBits

LEMMA EndWriteBits == ASSUME TInv, BitInv, NEW t \in Task, EndWrite(t) PROVE BitInv'
<1>1. UNCHANGED <<phase, memVars, pool, mapVars, mediaVars, io>>
  BY DEF EndWrite
<1>2. \A x \in Task : Counted(x)' => task'[x] = task[x]
  <2> SUFFICES ASSUME NEW x \in Task, Counted(x)' PROVE task'[x] = task[x]
    OBVIOUS
  <2>1. x # t
    <3>1. task[t] \in WriteRecord /\ task'[t] = [task[t] EXCEPT !.pc = "check"]
      BY EndWriteTask, ZenonT(40)
    <3>2. task'[t].pc = "check"
      BY <3>1 DEF WriteRecord
    <3> QED
      BY <3>2 DEF Counted
  <2>2. \/ task'[x] = task[x]
        \/ task'[x] \in FlushRecord
    BY <2>1, EndWriteTask
  <2> QED
    BY <2>2 DEF Counted, FlushRecord
<1>3. MapsStay
  BY <1>1, FailMaps DEF mediaVars
<1> QED
  BY <1>1, <1>2, <1>3, CountedOut DEF mapVars

LEMMA FlushBits ==
    ASSUME TInv, BitInv, NEW t \in Task, StartFlush(t) \/ \E l \in Landings : SyncMember(t, l) PROVE BitInv'
<1>1. UNCHANGED <<phase, memVars, pool, mapVars, io>>
  BY DEF StartFlush, SyncMember
<1>2. MapsStay
  <2>1. \A d \in Drive : bm'[d].cur = bm[d].cur
    BY SyncMemberMedia DEF StartFlush, mediaVars, TInv
  <2> QED
    BY <1>1, <2>1, FailMaps
<1>3. task'[t].pc = "sync" /\ \A x \in Task \ {t} : task'[x] = task[x]
  <2>1. CASE StartFlush(t)
    BY <2>1 DEF StartFlush, TInv, TasksOK
  <2>2. ASSUME NEW l \in Landings, SyncMember(t, l) PROVE task'[t].pc = "sync" /\ \A x \in Task \ {t} : task'[x] = task[x]
    <3>1. task' = [task EXCEPT ![t] = task'[t]] /\ task'[t].pc = "sync"
      BY <2>2, SyncMemberTask
    <3> QED
      BY <3>1 DEF TInv, TasksOK
  <2> QED
    BY <2>1, <2>2
<1>4. \A x \in Task : Counted(x)' => task'[x] = task[x]
  BY <1>3 DEF Counted
<1> QED
  BY <1>1, <1>2, <1>4, CountedOut DEF mapVars

LEMMA ClearIdleBits == ASSUME TInv, BitInv, NEW t \in Task, ClearIdle(t) PROVE BitInv'
<1>1. task[t] \in FlushRecord /\ task[t].pc = "sync" /\ UNCHANGED <<phase, memVars, pool, mediaVars, io>>
  BY Kinds DEF ClearIdle, TInv
<1>2. PICK C : /\ C \subseteq Clearable(t) /\ wanted' = wanted \ C /\ durable' = durable \ C
               /\ task' = [task EXCEPT ![t] = [task[t] EXCEPT !.pc = IF C # {} THEN "page" ELSE "check"]]
  <2>1. PICK C \in IF task[t].ok /\ ~ KeepsBitmap(members) THEN SUBSET Clearable(t) ELSE {{}} :
               /\ wanted' = wanted \ C /\ durable' = durable \ C
               /\ task' = [task EXCEPT ![t] = [task[t] EXCEPT !.pc = IF C # {} THEN "page" ELSE "check"]]
    BY DEF ClearIdle
  <2> QED
    BY <2>1
<1>3. task'[t].pc \in {"page", "check"} /\ \A x \in Task \ {t} : task'[x] = task[x]
  BY <1>1, <1>2 DEF TInv, TasksOK, FlushRecord
<1>4. \A x \in Task : Counted(x)' => Counted(x) /\ x # t /\ task'[x] = task[x]
  BY <1>3 DEF Counted
<1>5. Wanted'
  <2> SUFFICES ASSUME NEW x \in Task, Counted(x)', NEW u \in task'[x].range PROVE u \in wanted'
    BY DEF Wanted
  <2>1. Counted(x) /\ task'[x] = task[x] /\ u \in wanted
    BY <1>4 DEF BitInv, Wanted
  <2>2. Writing(u)
    <3>1. task[x] \in WriteRecord
      BY <2>1, Kinds DEF TInv, Counted
    <3>2. x \in Running("write")
      BY <2>1, <3>1 DEF Running, WriteRecord, Counted
    <3> QED
      BY <2>1, <3>2 DEF Writing, Counted
  <2>3. u \notin C
    BY <1>2, <2>2 DEF Clearable
  <2> QED
    BY <1>2, <2>1, <2>3
<1>6. PartsInRange' /\ PastStays
  <2>1. \A x \in Task : Past(x)' => Counted(x)' /\ (task'[x] = task[x] => Past(x))
    BY DEF Past, Counted
  <2>2. PastStays
    BY <1>4, <2>1 DEF PastStays
  <2>3. PartsInRange'
    BY <1>3 DEF PartsInRange, BitInv
  <2> QED
    BY <2>2, <2>3
<1>7. MapsStay
  BY <1>1, FailMaps DEF mediaVars
<1> QED
  BY <1>1, <1>2, <1>5, <1>6, <1>7, QuietBits

LEMMA FailOnRequestBits ==
    ASSUME TInv, BitInv, NEW t \in Task, NEW i \in Slot, NEW op, NEW missing \in BOOLEAN, FailOnRequest(t, i, op, missing)
    PROVE  BitInv'
<1>1. UNCHANGED <<phase, pool, mapVars, mediaVars, io>> /\ (UNCHANGED memVars \/ FailMember(i, missing))
  BY DEF FailOnRequest
<1>2. task'[t].pc = "check" /\ \A x \in Task \ {t} : task'[x] = task[x]
  BY DEF FailOnRequest, TInv, TasksOK
<1>3. \A x \in Task : Counted(x)' => task'[x] = task[x]
  BY <1>2 DEF Counted
<1>4. MapsStay
  BY <1>1, FailMaps DEF mediaVars
<1> QED
  BY <1>1, <1>3, <1>4, CountedOut DEF mapVars

LEMMA CheckBits == ASSUME TInv, BitInv, NEW t \in Task, Check(t) PROVE BitInv'
<1>1. UNCHANGED <<phase, memVars, pool, mapVars, mediaVars, io>> /\ task[t].pc = "check"
  BY DEF Check
<1>2. task'[t].pc \in {"persist", "idle"} /\ \A x \in Task \ {t} : task'[x] = task[x]
  <2>1. CASE sbDirty
    <3>1. task' = [task EXCEPT ![t] = [task[t] EXCEPT !.pc = "persist"]]
      BY <2>1 DEF Check
    <3>2. [task[t] EXCEPT !.pc = "persist"].pc = "persist"
      BY <1>1, Kinds, MovedTo DEF TInv, Idle
    <3> QED
      BY <3>1, <3>2 DEF TInv, TasksOK
  <2>2. CASE ~ sbDirty
    <3>1. Answer(t)
      BY <2>2 DEF Check
    <3> QED
      BY <1>1, <3>1, Answered DEF Idle
  <2> QED
    BY <2>1, <2>2
<1>3. \A x \in Task : Counted(x)' => task'[x] = task[x]
  BY <1>2 DEF Counted
<1>4. MapsStay
  BY <1>1, FailMaps DEF mediaVars
<1> QED
  BY <1>1, <1>3, <1>4, CountedOut DEF mapVars

\* Superblocks: the callers wait or are answered.
LEMMA RoundBits ==
    ASSUME TInv, QuietInv, BitInv,
           \/ (\E c \in Callers : StartRound(c)) \/ EndRound \/ JudgeSb \/ RepeatRound \/ \E l \in Landings : LandSb(l)
    PROVE  BitInv'
<1>1. CASE \E c \in Callers : StartRound(c)
  <2>1. PICK c \in Callers : StartRound(c)
    BY <1>1
  <2>2. UNCHANGED <<members, events, pool, mapVars, mediaVars, io>> /\ Wants(c)
    BY <2>1 DEF StartRound
  <2>3. phase' # "down" => phase # "down"
    BY <2>1 DEF StartRound, Wants
  <2>4. \A x \in Task : Counted(x)' => task'[x] = task[x]
    <3>1. CASE c \in Task
      <4>1. task[c].pc = "persist" /\ task' = [task EXCEPT ![c] = [task[c] EXCEPT !.pc = "round"]]
        <5>1. c \notin {"rebuild", "supervisor", "assembly"}
          BY <3>1, TaskAssumption
        <5> QED
          BY <2>1, <2>2, <3>1, <5>1 DEF StartRound, Wants
      <4>2. [task[c] EXCEPT !.pc = "round"].pc = "round"
        BY <3>1, <4>1, Kinds, MovedTo DEF TInv, Idle
      <4>3. task'[c].pc = "round" /\ \A x \in Task \ {c} : task'[x] = task[x]
        BY <3>1, <4>1, <4>2 DEF TInv, TasksOK
      <4> QED
        BY <4>3 DEF Counted
    <3>2. CASE c \notin Task
      BY <2>1, <3>2 DEF StartRound
    <3> QED
      BY <3>1, <3>2
  <2>5. MapsStay
    <3>1. \A i \in Slot : members[i].id \in Drive
      BY DEF TInv, SetOK, Member
    <3> QED
      BY <2>2, <3>1 DEF MapsStay, mediaVars
  <2> QED
    BY <2>2, <2>3, <2>4, <2>5, CountedOut DEF mapVars
<1>2. CASE EndRound
  <2>1. UNCHANGED <<memVars, pool, mapVars, mediaVars, io>> /\ sbw # None
    BY <1>2 DEF EndRound
  <2>2. phase # "down"
    BY <2>1 DEF QuietInv
  <2>3. \A x \in Task : Counted(x)' => task'[x] = task[x]
    <3>1. CASE sbw.by \in Task
      <4>1. Answer(sbw.by) /\ task[sbw.by].pc = "round"
        BY <1>2, <3>1 DEF EndRound, TInv, RoundOK
      <4>2. task'[sbw.by] = Idle /\ \A x \in Task \ {sbw.by} : task'[x] = task[x]
        BY <3>1, <4>1, Answered
      <4> QED
        BY <4>2 DEF Counted, Idle
    <3>2. CASE sbw.by \notin Task
      BY <1>2, <3>2 DEF EndRound
    <3> QED
      BY <3>1, <3>2
  <2>4. MapsStay
    <3>1. \A i \in Slot : members[i].id \in Drive
      BY DEF TInv, SetOK, Member
    <3> QED
      BY <2>1, <3>1 DEF MapsStay, mediaVars, memVars
  <2> QED
    BY <2>1, <2>2, <2>3, <2>4, CountedOut DEF mapVars
<1>3. CASE JudgeSb
  <2>1. UNCHANGED <<phase, pool, mapVars, mediaVars, io, task>>
    BY <1>3 DEF JudgeSb
  <2>2. UNCHANGED memVars \/ \E i \in Slot, missing \in BOOLEAN : FailMember(i, missing)
    BY <1>3, JudgeSbRound
  <2>3. MapsStay
    BY <2>1, <2>2, FailMaps DEF mediaVars
  <2> QED
    BY <2>1, <2>3, CountedOut DEF mapVars
<1>4. CASE RepeatRound
  <2>1. UNCHANGED <<phase, members, pool, mapVars, mediaVars, io, task>>
    BY <1>4 DEF RepeatRound
  <2>2. MapsStay
    <3>1. \A i \in Slot : members[i].id \in Drive
      BY DEF TInv, SetOK, Member
    <3> QED
      BY <2>1, <3>1 DEF MapsStay, mediaVars
  <2> QED
    BY <2>1, <2>2, CountedOut DEF mapVars
<1>5. CASE \E l \in Landings : LandSb(l)
  <2>1. UNCHANGED <<phase, memVars, pool, mapVars, io, task>> /\ \A d \in Drive : bm'[d].cur = bm[d].cur
    BY <1>5, LandSbMedia DEF LandSb
  <2>2. MapsStay
    BY <2>1, FailMaps
  <2> QED
    BY <2>1, <2>2, CountedOut DEF mapVars
<1> QED
  BY <1>1, <1>2, <1>3, <1>4, <1>5

\* Spares: the new drive is not one that the bits are counted on.
LEMMA SpareBits ==
    ASSUME TInv, PlaceInv, PlaceInv', BitInv, Supervise \/ ZeroBitmap \/ \E d \in Drive : TakeSpare(d)
    PROVE  BitInv'
<1>1. UNCHANGED <<phase, mapVars, io, task>>
  BY DEF Supervise, ZeroBitmap, TakeSpare
<1>2. MapsStay
  <2>0. \A i \in Slot : members[i].id \in Drive
    BY DEF TInv, SetOK, Member
  <2>1. CASE Supervise
    BY <2>0, <2>1 DEF Supervise, MapsStay, memVars, mediaVars
  <2>2. CASE ZeroBitmap
    <3>1. /\ sup.pc = "zero" /\ sup.slot \in Slot
          /\ UNCHANGED memVars \/ FailMember(sup.slot, FALSE)
          /\ \A d \in Drive : d # members[sup.slot].id => bm'[d] = bm[d]
      BY <2>2, BitmapZeroed
    <3>2. ~ Orig(members[sup.slot].id)
      BY <3>1 DEF PlaceInv
    <3>3. \A i \in Slot : members'[i] = members[i] \/ members'[i].state = "Failed"
      <4>1. CASE UNCHANGED memVars
        BY <4>1 DEF memVars
      <4>2. CASE FailMember(sup.slot, FALSE)
        <5>1. UNCHANGED <<phase, pool>>
          BY <2>2 DEF ZeroBitmap
        <5> QED
          BY <3>1, <4>2, <5>1, FailTyped DEF TInv
      <4> QED
        BY <3>1, <4>1, <4>2
    <3> QED
      BY <2>0, <3>1, <3>2, <3>3 DEF MapsStay, Attached
  <2>3. ASSUME NEW d \in Drive, TakeSpare(d) PROVE MapsStay
    <3>1. PICK i \in Slot :
             /\ d \in pool /\ \A j \in Slot \ {i} : members'[j] = members[j]
             /\ members'[i] = [id |-> d, here |-> TRUE, state |-> "Rebuilding", to |-> 0, missing |-> FALSE, at |-> 0]
      BY <2>3, SpareTaken
    <3>2. members'[i].id = d /\ ~ Orig(d)
      BY <3>1 DEF PlaceInv
    <3>3. bm' = bm
      BY <2>3 DEF TakeSpare, mediaVars
    <3> QED
      BY <3>1, <3>2, <3>3 DEF MapsStay
  <2> QED
    BY <2>1, <2>2, <2>3
<1> QED
  BY <1>1, <1>2, CountedOut DEF mapVars

LEMMA RebuildBits ==
    ASSUME TInv, BitInv,
           SpawnRebuild \/ CopyUnit \/ (\E l \in Landings : LandCopy(l)) \/ RaiseWatermark \/ CheckRebuild \/ FlushTargets \/ Activate
    PROVE  BitInv'
<1>1. UNCHANGED <<phase, pool, mapVars, io, task>>
  BY DEF SpawnRebuild, CopyUnit, LandCopy, RaiseWatermark, CheckRebuild, FlushTargets, Activate
<1>2. \A d \in Drive : bm'[d].cur = bm[d].cur
  <2>1. CASE FlushTargets
    BY <2>1, TargetsFlushed
  <2>2. CASE ~ FlushTargets
    BY <2>2 DEF SpawnRebuild, CopyUnit, LandCopy, RaiseWatermark, CheckRebuild, Activate, mediaVars
  <2> QED
    BY <2>1, <2>2
<1>3. MapsStay
  <2>0. \A i \in Slot : members[i] \in Member /\ members[i].id \in Drive
    BY DEF TInv, SetOK, Member
  <2>1. CASE SpawnRebuild \/ CheckRebuild
    BY <1>1, <1>2, <2>1, FailMaps DEF SpawnRebuild, CheckRebuild
  <2>2. CASE CopyUnit
    <3>1. UNCHANGED memVars \/ \E i \in Slot, missing \in BOOLEAN : FailMember(i, missing)
      BY <2>2, UnitCopied DEF Sources
    <3> QED
      BY <1>1, <1>2, <3>1, FailMaps
  <2>3. CASE \E l \in Landings : LandCopy(l)
    <3>1. UNCHANGED memVars \/ \E i \in Slot, missing \in BOOLEAN : FailMember(i, missing)
      BY <2>3 DEF LandCopy, Landings
    <3> QED
      BY <1>1, <1>2, <3>1, FailMaps
  <2>4. CASE FlushTargets
    <3>1. UNCHANGED memVars \/ \E i \in Slot, missing \in BOOLEAN : FailMember(i, missing)
      BY <2>4, TargetsFlushed DEF TInv, RebuildOK, RebuildRecord
    <3> QED
      BY <1>1, <1>2, <3>1, FailMaps
  <2>5. CASE RaiseWatermark \/ Activate
    <3>1. \A i \in Slot : \/ members'[i] = members[i]
                          \/ members'[i] = [members[i] EXCEPT !.to = rb.key + 1]
                          \/ members'[i] = [members[i] EXCEPT !.state = "Active", !.to = 0] /\ i \in Rebuilding
      BY <2>5, WatermarkRaised, Activated
    <3>2. \A i \in Slot : /\ members'[i].id = members[i].id
                          /\ Attached(members'[i]) => Attached(members[i])
      <4> SUFFICES ASSUME NEW i \in Slot
                   PROVE  members'[i].id = members[i].id /\ (Attached(members'[i]) => Attached(members[i]))
        OBVIOUS
      <4>1. members[i] \in Member
        BY <2>0
      <4>2. CASE members'[i] = members[i]
        BY <4>2
      <4>3. CASE members'[i] = [members[i] EXCEPT !.to = rb.key + 1]
        BY <4>1, <4>3 DEF Member, Attached
      <4>4. CASE members'[i] = [members[i] EXCEPT !.state = "Active", !.to = 0] /\ i \in Rebuilding
        BY <4>1, <4>4 DEF Member, Attached, Rebuilding
      <4> QED
        BY <3>1, <4>2, <4>3, <4>4
    <3> QED
      BY <1>2, <2>0, <3>2 DEF MapsStay
  <2> QED
    BY <2>1, <2>2, <2>3, <2>4, <2>5
<1> QED
  BY <1>1, <1>3, CountedOut DEF mapVars

LEMMA CutBits ==
    ASSUME TInv, QuietInv, BitInv, PowerCut \/ \E F \in SUBSET Drive : Assemble(F)
    PROVE  BitInv'
<1>1. io' = None /\ (\A t \in Task : task'[t] = Idle) /\ (phase' = "down" \/ durable' = {})
  <2>1. CASE PowerCut
    BY <2>1 DEF PowerCut
  <2>2. ASSUME NEW F \in SUBSET Drive, Assemble(F)
        PROVE io' = None /\ (\A t \in Task : task'[t] = Idle) /\ (phase' = "down" \/ durable' = {})
    <3>1. phase = "down" /\ UNCHANGED <<io, task>> /\ durable' = {}
      BY <2>2, Assembled
    <3> QED
      BY <3>1 DEF QuietInv, Quiet
  <2> QED
    BY <2>1, <2>2
<1>2. \A t \in Task : ~ Past(t)' /\ ~ Counted(t)' /\ task'[t].pc # "land"
  BY <1>1 DEF Past, Counted, Idle
<1> QED
  BY <1>1, <1>2 DEF BitInv, Wanted, PartsInRange, InPage, OnDrives, OnDrive

LEMMA BitStep ==
    ASSUME TInv, QuietInv, PlaceInv, PlaceInv', PagesKeepBits, BitInv, [Next]_vars
    PROVE  BitInv'
<1>1. ASSUME NEW t \in Task, NEW r \in Ranges, BeginWrite(t, r) PROVE BitInv'
  BY <1>1, BeginWriteBits, RangesAreUnits
<1>2. ASSUME NEW t \in Task, IntentDurable(t) \/ StartPage(t) \/ LockRange(t) \/ Judge(t) \/ EndWrite(t) PROVE BitInv'
  BY <1>2, IntentDurableBits, StartPageBits, LockRangeBits, JudgeBits, EndWriteBits
<1>3. ASSUME NEW t \in Task, StartFlush(t) \/ ClearIdle(t) \/ Check(t) \/ \E l \in Landings : SyncMember(t, l) PROVE BitInv'
  BY <1>3, FlushBits, ClearIdleBits, CheckBits
<1>4. ASSUME NEW t \in Task, NEW i \in Slot, ReadFails(t, i) \/ DriveReport(t, i) PROVE BitInv'
  <2>1. \E op \in {"reads", "reports"}, missing \in BOOLEAN : FailOnRequest(t, i, op, missing)
    BY <1>4, Zenon DEF ReadFails, DriveReport
  <2> QED
    BY <2>1, FailOnRequestBits
<1>5. ASSUME NEW t \in Task, NEW l, LandData(t, l) PROVE BitInv'
  BY <1>5, LandDataBits
<1>6. ASSUME NEW l \in Landings, LandPage(l) PROVE BitInv'
  BY <1>6, LandPageBits
<1>7. CASE JudgePage \/ CommitPage
  BY <1>7, JudgePageBits, CommitPageBits
<1>8. CASE \/ (\E c \in Callers : StartRound(c)) \/ EndRound \/ JudgeSb \/ RepeatRound \/ \E l \in Landings : LandSb(l)
  BY <1>8, RoundBits
<1>9. CASE Supervise \/ ZeroBitmap \/ \E d \in Drive : TakeSpare(d)
  BY <1>9, SpareBits
<1>10. CASE \/ SpawnRebuild \/ CopyUnit \/ (\E l \in Landings : LandCopy(l)) \/ RaiseWatermark \/ CheckRebuild
            \/ FlushTargets \/ Activate
  BY <1>10, RebuildBits
<1>11. CASE PowerCut \/ \E F \in SUBSET Drive : Assemble(F)
  BY <1>11, CutBits
<1>12. CASE UNCHANGED vars
  BY <1>12 DEF vars, BitInv, Wanted, PartsInRange, InPage, OnDrives, OnDrive, Counted, Past, Page, Attached, Orig
<1> QED
  BY <1>1, <1>2, <1>3, <1>4, <1>5, <1>6, <1>7, <1>8, <1>9, <1>10, <1>11, <1>12, Zenon DEF Next

LEMMA InitBits == Init => BitInv
<1> SUFFICES ASSUME Init PROVE BitInv
  OBVIOUS
<1>1. io = None /\ durable = {} /\ \A t \in Task : task[t].pc = "idle"
  BY DEF Init, Idle
<1> QED
  BY <1>1 DEF BitInv, Wanted, PartsInRange, InPage, OnDrives, OnDrive, Counted, Past

\* Of two members that hold a unit one has a drive the set was created with.
LEMMA BitsImply == ASSUME TInv, QuietInv, PlaceInv, BitInv PROVE WriteUnderItsBit
<1> SUFFICES ASSUME NEW t \in Running("write"), task[t].pc = "land", NEW l \in task[t].todo, NEW u \in l.part,
                    Cardinality({i \in Slot : Holds(members[i], u)}) > 1
             PROVE  \E i \in Slot : Attached(members[i]) /\ u \in bm[members[i].id].cur
  BY DEF WriteUnderItsBit
<1>1. t \in Task /\ u \in task[t].range /\ Past(t)
  BY DEF Running, BitInv, PartsInRange, Past
<1> DEFINE S == {i \in Slot : Holds(members[i], u)}
<1>2. \E i, j \in S : i # j
  <2> SUFFICES ASSUME \A i, j \in S : i = j PROVE FALSE
    OBVIOUS
  <2> HIDE DEF S
  <2>1. S = {} \/ \E i \in S : S = {i}
    OBVIOUS
  <2>2. Cardinality(S) \in {0, 1}
    BY <2>1, FS_EmptySet, FS_Singleton
  <2> QED
    BY <2>2 DEF S
<1>3. PICK i \in S : Orig(members[i].id)
  BY <1>2 DEF PlaceInv, SlotsOK
<1>4. i \in Slot /\ Attached(members[i])
  BY <1>3 DEF Holds, Attached
<1>5. phase # "down"
  BY <1>1 DEF QuietInv, Quiet, Idle, Past
<1>6. OnDrive(i)
  BY <1>3, <1>4, <1>5 DEF BitInv, OnDrives
<1> QED
  BY <1>1, <1>4, <1>6 DEF OnDrive

-----------------------------------------------------------------------------
(* What the members hold                                                    *)

Land(t) == task[t].pc = "land"
Busy(u) == \E t \in Task : Land(t) /\ u \in task[t].range

\* Members that hold a unit hold its last write, but for a unit that is being
\* written or whose last write returned an error.
Agree == \A u \in Unit \ torn : ~ Busy(u) => \A i \in Slot : Holds(members[i], u) => ReadAs(i, u) = latest[u]

\* The writes that land are apart from each other and from the rebuild, and each
\* has reached, will reach or has failed to reach every member that holds its
\* range, unless its failure to was not recorded and is returned.
Refused(r) == ~ r.ok /\ r.bad = {} /\ r.todo = {}
Reached(t, i, u) ==
    \/ \E l \in task[t].todo : l.slot = i /\ l.drive = members[i].id /\ u \in l.part
    \/ i \in task[t].bad
    \/ ReadAs(i, u) = task[t].v
Apart == \A t, x \in Task : Land(t) /\ Land(x) /\ t # x => task[t].range \cap task[x].range = {}
OffTheCopy == \A t \in Task : Land(t) /\ rb.pc = "copy" => rb.key + 1 \notin task[t].range
Landed == \A t \in Task : Land(t) =>
            Refused(task[t]) \/ \A u \in task[t].range, i \in Slot : Holds(members[i], u) => Reached(t, i, u)
LandInv == PartsInRange /\ Apart /\ OffTheCopy /\ Landed

\* A target of the rebuild holds what is below its position; what is copied to
\* those behind is the last write.
Copied == rb.copies # {} \/ \E i \in Slot : Behind(i)
RebuildInv ==
    /\ \A i \in Slot : members[i].here
    /\ spent["spares"] = 0 => rb.targets = {} /\ rb.copies = {} /\ \A i \in Slot : members[i].state # "Rebuilding"
    /\ rb.copies # {} => rb.pc = "copy"
    /\ rb.pc = "activate" => rb.key = Units
    /\ \A i \in rb.targets \cap Rebuilding : members[i].to >= rb.key
    /\ \A l \in rb.copies : l = Page(l.slot) /\ members[l.slot].state # "Active" /\ members[l.slot].to <= rb.key
    /\ rb.pc = "copy" => \A i \in Slot : Behind(i) => Page(i) \in rb.copies \/ ReadAs(i, rb.key + 1) = rb.v
    /\ rb.pc = "copy" /\ Copied /\ rb.key + 1 \notin torn => rb.v = latest[rb.key + 1]
DataInv == Agree /\ LandInv /\ RebuildInv

\* A unit's members, and the writes and copies on their way to it, are no older
\* than the write x, which has been numbered.
Kept(u, x) ==
    /\ x <= ticket
    /\ \A i \in Slot : Holds(members[i], u) => ReadAs(i, u) >= x
    /\ \A t \in Task : Land(t) /\ u \in task[t].range => task[t].v >= x
    /\ rb.pc = "copy" /\ Copied /\ rb.key + 1 = u => rb.v >= x
KeptStays == \A u \in Unit, x \in Nat : Kept(u, x) => Kept(u, x)'

\* No two slots have the same drive.
LEMMA DrivesDiffer ==
    ASSUME PlaceInv, NEW i \in Slot, NEW j \in Slot, members[i].id = members[j].id PROVE i = j
  BY HomeAssumption DEF PlaceInv, SlotsOK

\* A step that at most fails members.
OnlyFails ==
    \A i \in Slot :
        \/ members'[i] = members[i]
        \/ /\ members'[i].state = "Failed" /\ members'[i].id = members[i].id
           /\ members'[i].here = members[i].here /\ members'[i].to = members[i].to
ReadsStay == \A d \in Drive, u \in Unit : data'[d][u].cur = data[d][u].cur
LandsStay == \A t \in Task : (Land(t)' <=> Land(t)) /\ (Land(t) => task'[t] = task[t])
CopyStays ==
    \/ rb' = rb
    \/ /\ rb.pc # "copy" /\ rb'.pc # "copy" /\ (rb'.pc = "activate" => rb.key = Units)
       /\ rb'.targets = rb.targets /\ rb'.key = rb.key /\ rb'.copies = rb.copies

StillStep ==
    /\ OnlyFails /\ ReadsStay /\ LandsStay /\ CopyStays /\ UNCHANGED <<latest, torn, ticket>>
    /\ spent'["spares"] = spent["spares"]

LEMMA FailOnly ==
    ASSUME TInv, UNCHANGED memVars \/ \E i \in Slot, missing \in BOOLEAN : FailMember(i, missing), UNCHANGED <<phase, pool>>
    PROVE  OnlyFails
<1>1. CASE UNCHANGED memVars
  BY <1>1 DEF memVars, OnlyFails
<1>2. ASSUME NEW i \in Slot, NEW missing \in BOOLEAN, FailMember(i, missing) PROVE OnlyFails
  BY <1>2, FailTyped DEF TInv, OnlyFails
<1> QED
  BY <1>1, <1>2

\* Then a member that holds a unit held it before, and a target that is behind was.
LEMMA HoldersBefore ==
    ASSUME OnlyFails, NEW i \in Slot
    PROVE  /\ \A u : Holds(members'[i], u) => Holds(members[i], u)
           /\ i \in Rebuilding' => i \in Rebuilding /\ members'[i] = members[i]
           /\ members'[i].id = members[i].id /\ members'[i].here = members[i].here /\ members'[i].to = members[i].to
  BY DEF OnlyFails, Holds, Rebuilding

\* Where a step at most fails members, and nothing that is read or is being written changes.
LEMMA StillAgree ==
    ASSUME TInv, DataInv, OnlyFails, ReadsStay, LandsStay, UNCHANGED <<latest, torn>> PROVE Agree'
<1> SUFFICES ASSUME NEW u \in Unit \ torn, ~ Busy(u)', NEW i \in Slot, Holds(members'[i], u)
             PROVE  ReadAs(i, u)' = latest[u]
  BY DEF Agree, Holds
<1>1. ~ Busy(u)
  BY DEF Busy, LandsStay
<1>2. Holds(members[i], u) /\ members'[i].id = members[i].id
  BY HoldersBefore
<1>3. members[i].id \in Drive
  BY DEF TInv, SetOK, Member
<1> QED
  BY <1>1, <1>2, <1>3 DEF DataInv, Agree, ReadAs, ReadsStay

LEMMA StillLand ==
    ASSUME TInv, DataInv, OnlyFails, ReadsStay, LandsStay, CopyStays PROVE LandInv'
<1>1. PartsInRange'
  BY DEF DataInv, LandInv, PartsInRange, LandsStay, Land
<1>2. Apart'
  BY DEF DataInv, LandInv, Apart, LandsStay
<1>3. OffTheCopy'
  BY DEF DataInv, LandInv, OffTheCopy, LandsStay, CopyStays
<1>4. Landed'
  <2> SUFFICES ASSUME NEW t \in Task, Land(t)', ~ Refused(task'[t]), NEW u \in task'[t].range, NEW i \in Slot,
                      Holds(members'[i], u)
               PROVE  Reached(t, i, u)'
    BY DEF Landed, Refused, Holds
  <2>1. Land(t) /\ task'[t] = task[t]
    BY DEF LandsStay
  <2>2. Holds(members[i], u) /\ members'[i].id = members[i].id
    BY HoldersBefore
  <2>3. Reached(t, i, u)
    BY <2>1, <2>2 DEF DataInv, LandInv, Landed
  <2>4. members[i].id \in Drive /\ u \in Unit
    BY <2>1, Kinds DEF TInv, SetOK, Member, Land, WriteRecord
  <2> QED
    BY <2>1, <2>2, <2>3, <2>4 DEF Reached, ReadAs, ReadsStay
<1> QED
  BY <1>1, <1>2, <1>3, <1>4 DEF LandInv

LEMMA StillRebuild ==
    ASSUME TInv, DataInv, OnlyFails, ReadsStay, CopyStays, UNCHANGED <<latest, torn>>,
           spent'["spares"] = spent["spares"]
    PROVE  RebuildInv'
<1> USE DEF DataInv, RebuildInv
<1>1. \A i \in Slot : members'[i].here
  BY HoldersBefore
<1>2. spent'["spares"] = 0 => rb'.targets = {} /\ rb'.copies = {} /\ \A i \in Slot : members'[i].state # "Rebuilding"
  BY DEF OnlyFails, CopyStays
<1>3. /\ rb'.copies # {} => rb'.pc = "copy"
      /\ rb'.pc = "activate" => rb'.key = Units
      /\ rb'.targets = rb.targets /\ rb'.key = rb.key /\ rb'.copies = rb.copies
      /\ rb'.pc = "copy" => rb' = rb
  BY DEF CopyStays
<1>4. \A i \in rb'.targets \cap Rebuilding' : members'[i].to >= rb'.key
  BY <1>3, HoldersBefore DEF Rebuilding
<1>5. \A l \in rb'.copies : l = Page(l.slot)' /\ members'[l.slot].state # "Active" /\ members'[l.slot].to <= rb'.key
  <2> SUFFICES ASSUME NEW l \in rb.copies
               PROVE  l = Page(l.slot)' /\ members'[l.slot].state # "Active" /\ members'[l.slot].to <= rb.key
    BY <1>3
  <2>1. l.slot \in Slot
    BY DEF TInv, RebuildOK, RebuildRecord, Landings
  <2> QED
    BY <2>1, HoldersBefore DEF OnlyFails, Page
<1>6. \A i \in Slot : Behind(i)' => Behind(i)
  BY <1>3, HoldersBefore DEF Behind
<1>7. ASSUME rb'.pc = "copy", NEW i \in Slot, Behind(i)' PROVE Page(i)' \in rb'.copies \/ ReadAs(i, rb.key + 1)' = rb'.v
  <2>1. Page(i) \in rb.copies \/ ReadAs(i, rb.key + 1) = rb.v
    BY <1>3, <1>6, <1>7
  <2>2. Page(i)' = Page(i) /\ members'[i].id = members[i].id
    BY HoldersBefore DEF Page
  <2>3. members[i].id \in Drive /\ rb.key + 1 \in Unit
    BY <1>3, <1>7, SizesAssumption DEF TInv, SetOK, Member, RebuildOK, RebuildRecord, Unit
  <2>4. rb' = rb
    BY <1>3, <1>7
  <2> QED
    BY <2>1, <2>2, <2>3, <2>4 DEF ReadAs, ReadsStay
<1>8. rb'.pc = "copy" /\ Copied' /\ rb'.key + 1 \notin torn' => rb'.v = latest'[rb'.key + 1]
  BY <1>3, <1>6 DEF Copied
<1> QED
  BY <1>1, <1>2, <1>3, <1>4, <1>5, <1>7, <1>8

LEMMA StillKept == ASSUME TInv, StillStep PROVE KeptStays
<1> SUFFICES ASSUME NEW u \in Unit, NEW x \in Nat, Kept(u, x) PROVE Kept(u, x)'
  BY DEF KeptStays
<1>1. x <= ticket'
  BY DEF Kept, StillStep
<1>2. ASSUME NEW i \in Slot, Holds(members'[i], u) PROVE ReadAs(i, u)' >= x
  <2>1. Holds(members[i], u) /\ members'[i].id = members[i].id
    BY <1>2, HoldersBefore DEF StillStep
  <2>2. members[i].id \in Drive
    BY DEF TInv, SetOK, Member
  <2> QED
    BY <2>1, <2>2 DEF Kept, ReadAs, StillStep, ReadsStay
<1>3. ASSUME NEW t \in Task, Land(t)', u \in task'[t].range PROVE task'[t].v >= x
  BY <1>3 DEF Kept, StillStep, LandsStay
<1>4. ASSUME rb'.pc = "copy", Copied', rb'.key + 1 = u PROVE rb'.v >= x
  <2>1. rb' = rb
    BY <1>4 DEF StillStep, CopyStays
  <2>2. Copied
    <3>1. \A i \in Slot : Behind(i)' => Behind(i)
      BY <2>1, HoldersBefore DEF Behind, StillStep
    <3> QED
      BY <1>4, <2>1, <3>1 DEF Copied
  <2> QED
    BY <1>4, <2>1, <2>2 DEF Kept
<1> QED
  BY <1>1, <1>2, <1>3, <1>4 DEF Kept, Holds

LEMMA Still == ASSUME TInv, DataInv, StillStep PROVE DataInv' /\ KeptStays
<1>1. Agree' /\ LandInv' /\ RebuildInv'
  BY StillAgree, StillLand, StillRebuild DEF StillStep
<1> QED
  BY <1>1, StillKept DEF DataInv

LEMMA OneStays ==
    ASSUME NEW t \in Task, \A x \in Task \ {t} : task'[x] = task[x], ~ Land(t), ~ Land(t)' PROVE LandsStay
  BY DEF LandsStay, Land

LEMMA AllStay == ASSUME task' = task PROVE LandsStay
  BY DEF LandsStay, Land

\* The requests that neither begin nor end to land.
CalmRequest(t) ==
    \/ \E r \in Ranges : BeginWrite(t, r)
    \/ IntentDurable(t) \/ StartPage(t) \/ StartFlush(t) \/ ClearIdle(t) \/ Check(t)
    \/ \E i \in Slot : ReadFails(t, i) \/ DriveReport(t, i)
    \/ \E l \in Landings : SyncMember(t, l)

LEMMA CalmLands == ASSUME TInv, NEW t \in Task, CalmRequest(t) PROVE LandsStay
<1>1. CASE \E r \in Ranges : BeginWrite(t, r)
  <2>1. PICK r \in Ranges : BeginWrite(t, r)
    BY <1>1
  <2> DEFINE pc == IF r \subseteq durable THEN "lock" ELSE "intent"
             k == [op |-> "write", range |-> r, ok |-> FALSE, bad |-> {}, todo |-> {}, pc |-> pc, v |-> 0]
  <2>2. task' = [task EXCEPT ![t] = k] /\ task[t] = Idle
    BY <2>1 DEF BeginWrite
  <2>3. task'[t].pc = pc /\ \A x \in Task \ {t} : task'[x] = task[x]
    BY <2>2 DEF TInv, TasksOK
  <2> QED
    BY <2>2, <2>3, OneStays DEF Land, Idle
<1>2. CASE IntentDurable(t)
  <2>1. task' = [task EXCEPT ![t] = [task[t] EXCEPT !.pc = "lock"]] /\ task[t].pc = "intent"
    BY <1>2 DEF IntentDurable
  <2>2. [task[t] EXCEPT !.pc = "lock"].pc = "lock"
    BY <2>1, Kinds, MovedTo DEF TInv
  <2>3. task'[t].pc = "lock" /\ \A x \in Task \ {t} : task'[x] = task[x]
    BY <2>1, <2>2 DEF TInv, TasksOK
  <2> QED
    BY <2>1, <2>3, OneStays DEF Land
<1>3. CASE StartPage(t)
  <2>1. task[t].pc \in {"page", "intent"}
    BY <1>3 DEF StartPage
  <2>2. PICK pc \in {"paging", "intending", "check"} :
          task' = [task EXCEPT ![t] = [task[t] EXCEPT !.pc = pc]] /\ (task[t].pc = "page" => pc # "intending")
                                                                  /\ (task[t].pc = "intent" => pc # "paging")
    BY <1>3, <2>1 DEF StartPage
  <2>3. [task[t] EXCEPT !.pc = pc].pc = pc
    BY <2>1, <2>2, Kinds, MovedTo DEF TInv
  <2>4. task'[t].pc = pc /\ \A x \in Task \ {t} : task'[x] = task[x]
    BY <2>2, <2>3 DEF TInv, TasksOK
  <2> QED
    BY <2>1, <2>4, OneStays DEF Land
<1>4. CASE StartFlush(t)
  <2>1. task'[t].pc = "sync" /\ task[t] = Idle /\ \A x \in Task \ {t} : task'[x] = task[x]
    BY <1>4 DEF StartFlush, TInv, TasksOK
  <2> QED
    BY <2>1, OneStays DEF Land, Idle
<1>5. CASE ClearIdle(t)
  <2>1. task[t] \in FlushRecord /\ task[t].pc = "sync"
    BY <1>5, Kinds DEF ClearIdle, TInv
  <2>2. PICK pc \in {"page", "check"} : task' = [task EXCEPT ![t] = [task[t] EXCEPT !.pc = pc]]
    BY <1>5 DEF ClearIdle
  <2>3. task'[t].pc = pc /\ \A x \in Task \ {t} : task'[x] = task[x]
    BY <2>1, <2>2, MovedTo DEF TInv, TasksOK
  <2> QED
    BY <2>1, <2>3, OneStays DEF Land
<1>6. CASE Check(t)
  <2>0. task[t].pc = "check"
    BY <1>6 DEF Check
  <2>1. task'[t].pc \in {"persist", "idle"} /\ \A x \in Task \ {t} : task'[x] = task[x]
    <3>1. CASE sbDirty
      <4>1. task' = [task EXCEPT ![t] = [task[t] EXCEPT !.pc = "persist"]]
        BY <1>6, <3>1 DEF Check
      <4>2. [task[t] EXCEPT !.pc = "persist"].pc = "persist"
        BY <2>0, Kinds, MovedTo DEF TInv, Idle
      <4> QED
        BY <4>1, <4>2 DEF TInv, TasksOK
    <3>2. CASE ~ sbDirty
      <4>1. Answer(t)
        BY <1>6, <3>2 DEF Check
      <4> QED
        BY <2>0, <4>1, Answered DEF Idle
    <3> QED
      BY <3>1, <3>2
  <2> QED
    BY <2>0, <2>1, OneStays DEF Land
<1>7. CASE \E i \in Slot : ReadFails(t, i) \/ DriveReport(t, i)
  <2>1. PICK i \in Slot, op \in {"reads", "reports"}, missing \in BOOLEAN : FailOnRequest(t, i, op, missing)
    BY <1>7, Zenon DEF ReadFails, DriveReport
  <2>2. task' = [task EXCEPT ![t] = [op |-> op, pc |-> "check", ok |-> TRUE]] /\ task[t] = Idle
    BY <2>1 DEF FailOnRequest
  <2>3. task'[t].pc = "check" /\ \A x \in Task \ {t} : task'[x] = task[x]
    BY <2>2 DEF TInv, TasksOK
  <2> QED
    BY <2>2, <2>3, OneStays DEF Land, Idle
<1>8. CASE \E l \in Landings : SyncMember(t, l)
  <2>1. task' = [task EXCEPT ![t] = task'[t]] /\ task'[t].pc = "sync" /\ task[t].pc = "sync"
    BY <1>8, SyncMemberTask
  <2>2. \A x \in Task \ {t} : task'[x] = task[x]
    BY <2>1 DEF TInv, TasksOK
  <2> QED
    BY <2>1, <2>2, OneStays DEF Land
<1> QED
  BY <1>1, <1>2, <1>3, <1>4, <1>5, <1>6, <1>7, <1>8 DEF CalmRequest

LEMMA CalmStill == ASSUME TInv, NEW t \in Task, CalmRequest(t) PROVE StillStep
<1>1. LandsStay
  BY CalmLands
<1>2. RequestStep
  BY DEF CalmRequest, RequestStep
<1>3. UNCHANGED <<phase, pool, rb>> /\ spent'["spares"] = spent["spares"]
  BY <1>2, RequestLeaves, RequestDrives DEF DrivesStay
<1>4. UNCHANGED memVars \/ \E i \in Slot, missing \in BOOLEAN : FailMember(i, missing)
  <2>1. CASE (\E r \in Ranges : BeginWrite(t, r)) \/ IntentDurable(t) \/ StartPage(t) \/ StartFlush(t) \/ ClearIdle(t) \/ Check(t)
    BY <2>1 DEF BeginWrite, IntentDurable, StartPage, StartFlush, ClearIdle, Check
  <2>2. ASSUME NEW i \in Slot, ReadFails(t, i) \/ DriveReport(t, i)
        PROVE  UNCHANGED memVars \/ \E j \in Slot, missing \in BOOLEAN : FailMember(j, missing)
    <3>1. PICK op \in {"reads", "reports"}, missing \in BOOLEAN : FailOnRequest(t, i, op, missing)
      BY <2>2, Zenon DEF ReadFails, DriveReport
    <3>2. UNCHANGED memVars \/ FailMember(i, missing)
      BY <3>1 DEF FailOnRequest
    <3> QED
      BY <3>2
  <2>3. CASE \E l \in Landings : SyncMember(t, l)
    BY <2>3 DEF SyncMember
  <2> QED
    BY <2>1, <2>2, <2>3 DEF CalmRequest
<1>5. OnlyFails
  BY <1>3, <1>4, FailOnly
<1>6. ReadsStay /\ UNCHANGED <<latest, torn, ticket>>
  <2>1. CASE (\E r \in Ranges : BeginWrite(t, r)) \/ IntentDurable(t) \/ StartPage(t)
    BY <2>1 DEF BeginWrite, IntentDurable, StartPage, mediaVars, histVars, ReadsStay
  <2>2. CASE StartFlush(t) \/ ClearIdle(t) \/ Check(t) \/ \E i \in Slot : ReadFails(t, i) \/ DriveReport(t, i)
    BY <2>2 DEF StartFlush, ClearIdle, Check, ReadFails, DriveReport, FailOnRequest, mediaVars, histVars, ReadsStay
  <2>3. ASSUME NEW l \in Landings, SyncMember(t, l) PROVE ReadsStay /\ UNCHANGED <<latest, torn, ticket>>
    <3>1. UNCHANGED <<latest, torn, ticket>>
      BY <2>3 DEF SyncMember, histVars
    <3> QED
      BY <2>3, <3>1, SyncMemberMedia DEF TInv, ReadsStay
  <2> QED
    BY <2>1, <2>2, <2>3 DEF CalmRequest
<1>7. CopyStays
  BY <1>3 DEF CopyStays
<1> QED
  BY <1>1, <1>3, <1>5, <1>6, <1>7 DEF StillStep

LEMMA PageStill ==
    ASSUME TInv, JudgePage \/ CommitPage \/ \E l \in Landings : LandPage(l) PROVE StillStep
<1>1. spent'["spares"] = spent["spares"]
  BY OtherDrives DEF DrivesStay
<1>2. UNCHANGED <<phase, pool, rb, latest, torn, ticket>>
  BY DEF JudgePage, CommitPage, LandPage, histVars
<1>3. UNCHANGED memVars \/ \E i \in Slot, missing \in BOOLEAN : FailMember(i, missing)
  <2>1. CASE JudgePage
    <3>1. io.bad # {} /\ Failable(Min(io.bad)) => Min(io.bad) \in Slot
      BY <2>1, LeastSlot DEF JudgePage, TInv, PageOK, PageRecord
    <3> QED
      BY <2>1, <3>1 DEF JudgePage
  <2>2. CASE CommitPage \/ \E l \in Landings : LandPage(l)
    BY <2>2 DEF CommitPage, LandPage
  <2> QED
    BY <2>1, <2>2
<1>4. OnlyFails
  BY <1>2, <1>3, FailOnly
<1>5. ReadsStay
  <2>1. ASSUME NEW l \in Landings, LandPage(l) PROVE ReadsStay
    <3>1. \/ data' = data
          \/ data' = [data EXCEPT ![l.drive] = FlushAll(data[l.drive])]
      BY <2>1 DEF LandPage
    <3>2. l.drive \in Drive /\ data \in [Drive -> [Unit -> Cell(Nat)]]
      BY DEF Landings, TInv, MediaOK
    <3>3. \A u \in Unit : FlushAll(data[l.drive])[u].cur = data[l.drive][u].cur
      BY <3>2 DEF FlushAll, Flushed, Durable
    <3> QED
      BY <3>1, <3>2, <3>3 DEF ReadsStay
  <2>2. CASE JudgePage \/ CommitPage
    BY <2>2 DEF JudgePage, CommitPage, mediaVars, ReadsStay
  <2> QED
    BY <2>1, <2>2
<1>6. LandsStay
  <2>1. CASE \E l \in Landings : LandPage(l)
    BY <2>1, AllStay DEF LandPage
  <2>2. CASE JudgePage /\ task' = task
    BY <2>2, AllStay
  <2>3. CASE JudgePage /\ task' # task
    <3>0. PICK t \in Task : t = io.by /\ task[t].pc \in {"intending", "paging"}
      BY <2>3 DEF JudgePage, TInv, PageOK, PageRecord
    <3> DEFINE r == IF task[t].op = "write" THEN Idle ELSE [task[t] EXCEPT !.pc = "check"]
    <3>1. task' = [task EXCEPT ![t] = r]
      BY <2>3, <3>0 DEF JudgePage
    <3>2. r.pc \in {"idle", "check"}
      <4>1. task[t].op # "write" => task[t] \in FlushRecord
        BY <3>0, Kinds DEF TInv, WriteRecord
      <4> QED
        BY <4>1 DEF FlushRecord, Idle
    <3> HIDE DEF r
    <3>3. task'[t] = r /\ \A x \in Task \ {t} : task'[x] = task[x]
      BY <3>1 DEF TInv, TasksOK
    <3> QED
      BY <3>0, <3>2, <3>3, OneStays DEF Land
  <2>4. CASE CommitPage
    <3>0. PICK t \in Task : t = io.by /\ task[t].pc \in {"intending", "paging"}
      BY <2>4 DEF CommitPage, TInv, PageOK, PageRecord
    <3>1. PICK pc \in {"check", "intent"} : /\ task' = [task EXCEPT ![t] = [task[t] EXCEPT !.pc = pc]]
                                            /\ (task[t].pc = "paging" => pc = "check")
      BY <2>4, <3>0 DEF CommitPage
    <3>2. [task[t] EXCEPT !.pc = pc].pc = pc
      BY <3>0, <3>1, Kinds, MovedTo DEF TInv
    <3>3. task'[t].pc = pc /\ \A x \in Task \ {t} : task'[x] = task[x]
      BY <3>1, <3>2 DEF TInv, TasksOK
    <3> QED
      BY <3>0, <3>3, OneStays DEF Land
  <2> QED
    BY <2>1, <2>2, <2>3, <2>4
<1>7. CopyStays
  BY <1>2 DEF CopyStays
<1> QED
  BY <1>1, <1>2, <1>4, <1>5, <1>6, <1>7 DEF StillStep

\* A round of superblocks for the rebuild is the step the rebuild is at.
ForRebuild == sbw # None /\ sbw.by = "rebuild" => rb.pc = "round"

LEMMA ForRebuildStep == ASSUME TInv, ForRebuild, [Next]_vars PROVE ForRebuild'
<1> USE DEF ForRebuild
<1>1. CASE UNCHANGED <<sbw, rb>>
  BY <1>1
<1>2. CASE RequestStep
  BY <1>1, <1>2, RequestLeaves
<1>3. ASSUME NEW l \in Landings, LandPage(l) PROVE ForRebuild'
  BY <1>1, <1>3 DEF LandPage
<1>4. ASSUME NEW l \in Landings, LandSb(l) PROVE ForRebuild'
  BY <1>4, LandSbMedia DEF LandSb
<1>5. ASSUME NEW l \in Landings, LandCopy(l) PROVE ForRebuild'
  BY <1>5 DEF LandCopy
<1>6. CASE JudgePage \/ CommitPage \/ Supervise \/ ZeroBitmap \/ \E d \in Drive : TakeSpare(d)
  BY <1>1, <1>6 DEF JudgePage, CommitPage, Supervise, ZeroBitmap, TakeSpare
<1>7. CASE JudgeSb
  BY <1>7, JudgeSbRound DEF JudgeSb
<1>8. CASE RepeatRound
  BY <1>8 DEF RepeatRound, Round
<1>9. CASE EndRound \/ PowerCut
  BY <1>9 DEF EndRound, PowerCut
<1>10. ASSUME NEW c \in Callers, StartRound(c) PROVE ForRebuild'
  <2>1. sbw'.by = c
    BY <1>10 DEF StartRound, Round
  <2>2. c = "rebuild" => rb'.pc = "round"
    BY <1>10 DEF StartRound, TInv, RebuildOK, RebuildRecord
  <2> QED
    BY <2>1, <2>2
<1>11. CASE SpawnRebuild \/ CopyUnit \/ RaiseWatermark \/ CheckRebuild \/ FlushTargets \/ Activate
  BY <1>11 DEF SpawnRebuild, CopyUnit, RaiseWatermark, CheckRebuild, FlushTargets, Activate
<1>12. ASSUME NEW F \in SUBSET Drive, Assemble(F) PROVE ForRebuild'
  BY <1>1, <1>12 DEF Assemble
<1>13. CASE UNCHANGED vars
  BY <1>1, <1>13 DEF vars
<1>14. ASSUME NEW t \in Task, NEW l, LandData(t, l) PROVE ForRebuild'
  BY <1>1, <1>14 DEF LandData
<1> QED
  BY <1>2, <1>3, <1>4, <1>5, <1>6, <1>7, <1>8, <1>9, <1>10, <1>11, <1>12, <1>13, <1>14, Zenon DEF Next, RequestStep

\* A round of superblocks changes nothing that is read.
LEMMA RoundStill ==
    ASSUME TInv, ForRebuild,
           \/ (\E c \in Callers : StartRound(c)) \/ EndRound \/ JudgeSb \/ RepeatRound \/ \E l \in Landings : LandSb(l)
    PROVE  StillStep
<1>1. spent'["spares"] = spent["spares"] /\ UNCHANGED pool
  BY OtherDrives DEF DrivesStay
<1>2. CASE JudgeSb
  <2>1. UNCHANGED memVars \/ \E i \in Slot, missing \in BOOLEAN : FailMember(i, missing)
    BY <1>2, JudgeSbRound
  <2>2. UNCHANGED <<phase, pool, task, rb, latest, torn, ticket>> /\ ReadsStay
    BY <1>2 DEF JudgeSb, histVars, mediaVars, ReadsStay
  <2>3. OnlyFails /\ LandsStay /\ CopyStays
    BY <2>1, <2>2, FailOnly, AllStay DEF CopyStays
  <2> QED
    BY <1>1, <2>2, <2>3 DEF StillStep
<1>3. CASE RepeatRound
  <2>1. UNCHANGED <<members, task, rb, latest, torn, ticket>> /\ ReadsStay
    BY <1>3 DEF RepeatRound, histVars, mediaVars, ReadsStay
  <2>2. OnlyFails /\ LandsStay /\ CopyStays
    BY <2>1, AllStay DEF CopyStays, OnlyFails
  <2> QED
    BY <1>1, <2>1, <2>2 DEF StillStep
<1>4. ASSUME NEW l \in Landings, LandSb(l) PROVE StillStep
  <2>1. UNCHANGED <<members, task, rb, latest, torn, ticket>>
    BY <1>4 DEF LandSb, histVars, memVars
  <2>2. OnlyFails /\ LandsStay /\ CopyStays
    BY <2>1, AllStay DEF CopyStays, OnlyFails
  <2>3. ReadsStay
    BY <1>4, LandSbMedia DEF ReadsStay
  <2> QED
    BY <1>1, <2>1, <2>2, <2>3 DEF StillStep
<1>5. CASE EndRound
  <2>1. UNCHANGED <<members, latest, torn, ticket>> /\ ReadsStay /\ sbw # None
    BY <1>5 DEF EndRound, memVars, mediaVars, ReadsStay
  <2>2. OnlyFails
    BY <2>1 DEF OnlyFails
  <2>3. CopyStays
    <3>1. CASE sbw.by = "rebuild"
      <4>1. rb.pc = "round" /\ rb' = [rb EXCEPT !.pc = rb.next] /\ rb \in RebuildRecord
        BY <1>5, <2>1, <3>1 DEF EndRound, ForRebuild, TInv, RebuildOK
      <4> QED
        BY <4>1 DEF CopyStays, RebuildRecord
    <3>2. CASE sbw.by # "rebuild"
      BY <1>5, <3>2 DEF EndRound, CopyStays
    <3> QED
      BY <3>1, <3>2
  <2>4. LandsStay
    <3>1. CASE sbw.by \in Task
      <4>1. Answer(sbw.by) /\ task[sbw.by].pc = "round"
        BY <1>5, <2>1, <3>1 DEF EndRound, TInv, RoundOK
      <4>2. task'[sbw.by] = Idle /\ \A x \in Task \ {sbw.by} : task'[x] = task[x]
        BY <3>1, <4>1, Answered
      <4> QED
        BY <3>1, <4>1, <4>2, OneStays DEF Land, Idle
    <3>2. CASE sbw.by \notin Task
      BY <1>5, <3>2, AllStay DEF EndRound
    <3> QED
      BY <3>1, <3>2
  <2> QED
    BY <1>1, <2>1, <2>2, <2>3, <2>4 DEF StillStep
<1>6. ASSUME NEW c \in Callers, StartRound(c) PROVE StillStep
  <2>1. UNCHANGED <<members, latest, torn, ticket>> /\ ReadsStay
    BY <1>6 DEF StartRound, histVars, mediaVars, ReadsStay
  <2>2. OnlyFails
    BY <2>1 DEF OnlyFails
  <2>3. CopyStays
    <3>1. CASE c = "rebuild"
      <4>1. rb.pc = "persist" /\ rb' = [rb EXCEPT !.pc = "round"] /\ rb \in RebuildRecord
        BY <1>6, <3>1 DEF StartRound, Wants, TInv, RebuildOK
      <4> QED
        BY <4>1 DEF CopyStays, RebuildRecord
    <3>2. CASE c # "rebuild"
      BY <1>6, <3>2 DEF StartRound, CopyStays
    <3> QED
      BY <3>1, <3>2
  <2>4. LandsStay
    <3>1. CASE c \in Task
      <4>1. task[c].pc = "persist" /\ task' = [task EXCEPT ![c] = [task[c] EXCEPT !.pc = "round"]]
        BY <1>6, <3>1, TaskAssumption DEF StartRound, Wants
      <4>2. [task[c] EXCEPT !.pc = "round"].pc = "round"
        BY <3>1, <4>1, Kinds, MovedTo DEF TInv, Idle
      <4>3. task'[c].pc = "round" /\ \A x \in Task \ {c} : task'[x] = task[x]
        BY <3>1, <4>1, <4>2 DEF TInv, TasksOK
      <4> QED
        BY <3>1, <4>1, <4>3, OneStays DEF Land
    <3>2. CASE c \notin Task
      BY <1>6, <3>2, AllStay DEF StartRound
    <3> QED
      BY <3>1, <3>2
  <2> QED
    BY <1>1, <2>1, <2>2, <2>3, <2>4 DEF StillStep
<1> QED
  BY <1>2, <1>3, <1>4, <1>5, <1>6

LEMMA SupervisorStill == ASSUME TInv, Supervise \/ ZeroBitmap PROVE StillStep
<1>1. spent'["spares"] = spent["spares"]
  BY OtherDrives DEF DrivesStay
<1>2. UNCHANGED <<phase, pool, task, rb, latest, torn, ticket>> /\ ReadsStay
  BY DEF Supervise, ZeroBitmap, histVars, mediaVars, ReadsStay
<1>3. UNCHANGED memVars \/ \E i \in Slot, missing \in BOOLEAN : FailMember(i, missing)
  BY BitmapZeroed DEF Supervise
<1>4. OnlyFails /\ LandsStay /\ CopyStays
  BY <1>2, <1>3, FailOnly, AllStay DEF CopyStays
<1> QED
  BY <1>1, <1>2, <1>4 DEF StillStep

\* The steps of the rebuild that neither lock, copy nor count a unit.
LEMMA RebuildStill ==
    ASSUME TInv, CheckRebuild \/ FlushTargets \/ (CopyUnit /\ rb'.pc # "copy") PROVE StillStep
<1>1. spent'["spares"] = spent["spares"]
  BY OtherDrives DEF DrivesStay
<1>2. UNCHANGED <<phase, pool, task, latest, torn, ticket>>
  BY DEF CheckRebuild, FlushTargets, CopyUnit, histVars
<1>3. UNCHANGED memVars \/ \E i \in Slot, missing \in BOOLEAN : FailMember(i, missing)
  <2>1. CASE CheckRebuild
    BY <2>1 DEF CheckRebuild
  <2>2. CASE FlushTargets
    BY <2>2, TargetsFlushed DEF TInv, RebuildOK, RebuildRecord
  <2>3. CASE CopyUnit
    BY <2>3, UnitCopied DEF Sources
  <2> QED
    BY <2>1, <2>2, <2>3
<1>4. ReadsStay
  <2>1. CASE CheckRebuild \/ CopyUnit
    BY <2>1 DEF CheckRebuild, CopyUnit, mediaVars, ReadsStay
  <2>2. CASE FlushTargets
    BY <2>2, TargetsFlushed DEF ReadsStay
  <2> QED
    BY <2>1, <2>2
<1>5. CopyStays
  <2>1. CASE CheckRebuild
    BY <2>1, RebuildChecked DEF CopyStays
  <2>2. CASE FlushTargets
    BY <2>2, TargetsFlushed DEF CopyStays
  <2>3. CASE CopyUnit /\ rb'.pc # "copy"
    BY <2>3, UnitCopied DEF CopyStays
  <2> QED
    BY <2>1, <2>2, <2>3
<1>6. OnlyFails /\ LandsStay
  BY <1>2, <1>3, FailOnly, AllStay
<1> QED
  BY <1>1, <1>2, <1>4, <1>5, <1>6 DEF StillStep

-----------------------------------------------------------------------------
(* The steps of a write that lands                                          *)

LEMMA LockedBusy == ASSUME TInv, NEW u PROVE LockedByWrite(u) <=> Busy(u)
<1>1. ASSUME NEW t \in Task, Land(t) PROVE t \in Running("write") /\ task[t].pc = "land"
  BY <1>1, Kinds DEF Land, Running, TInv, WriteRecord
<1>2. \A t \in Running("write") : t \in Task
  BY DEF Running
<1> QED
  BY <1>1, <1>2 DEF LockedByWrite, Busy, Land

\* Where a step changes only units that are being written and still are.
LEMMA AgreeStays ==
    ASSUME TInv, DataInv, OnlyFails, \A u \in Unit : Busy(u) => Busy(u)',
           \A u \in Unit : ~ Busy(u) => \A d \in Drive : data'[d][u].cur = data[d][u].cur, UNCHANGED <<latest, torn>>
    PROVE  Agree'
<1> SUFFICES ASSUME NEW u \in Unit \ torn, ~ Busy(u)', NEW i \in Slot, Holds(members'[i], u)
             PROVE  ReadAs(i, u)' = latest[u]
  BY DEF Agree, Holds
<1>2. Holds(members[i], u) /\ members'[i].id = members[i].id
  BY HoldersBefore
<1>3. members[i].id \in Drive
  BY DEF TInv, SetOK, Member
<1> QED
  BY <1>2, <1>3 DEF DataInv, Agree, ReadAs

LEMMA LockRangeData == ASSUME TInv, DataInv, NEW t \in Task, LockRange(t) PROVE DataInv' /\ KeptStays
<1> DEFINE n == ticket + 1
           todo == Targets(task[t].range)
           k == [task[t] EXCEPT !.pc = "land", !.v = n, !.todo = todo]
<1>1. task[t] \in WriteRecord /\ task[t].pc = "lock" /\ UNCHANGED <<members, rb, data, spent, latest, torn>>
  BY Kinds DEF LockRange, TInv, memVars, mediaVars
<1>2. task' = [task EXCEPT ![t] = k]
  BY <1>1 DEF LockRange, WriteRecord, TInv, TasksOK
<1>3. \A l \in todo : l.part \subseteq task[t].range
  BY DEF Targets
<1>4. ASSUME NEW i \in Slot, NEW u \in task[t].range, Holds(members[i], u)
      PROVE  \E l \in todo : l.slot = i /\ l.drive = members[i].id /\ u \in l.part
  <2> DEFINE a == [slot |-> i, drive |-> members[i].id]
             p == {x \in task[t].range : Holds(members[i], x)}
             l == [slot |-> i, drive |-> members[i].id, part |-> p]
  <2>1. a \in AttachedDevices
    BY <1>4 DEF AttachedDevices, Attached, Holds
  <2>2. u \in p
    BY <1>4
  <2>3. l = [slot |-> a.slot, drive |-> a.drive, part |-> {x \in task[t].range : Holds(members[a.slot], x)}]
    OBVIOUS
  <2> HIDE DEF a, p
  <2>4. l \in todo
    BY <2>1, <2>2, <2>3 DEF Targets
  <2> QED
    BY <2>2, <2>4
<1> HIDE DEF n, todo
<1>5. k.pc = "land" /\ k.range = task[t].range /\ k.todo = todo /\ k.v = n
  BY <1>1 DEF WriteRecord
<1> HIDE DEF k
<1>6. task'[t] = k /\ \A x \in Task \ {t} : task'[x] = task[x]
  BY <1>2 DEF TInv, TasksOK
<1>7. Land(t)' /\ ~ Land(t) /\ (\A x \in Task \ {t} : Land(x)' <=> Land(x)) /\ task'[t].range = task[t].range
  BY <1>1, <1>5, <1>6 DEF Land
<1>8. \A u \in task[t].range : ~ Busy(u) /\ (rb.pc = "copy" => rb.key + 1 # u)
  BY LockedBusy DEF LockRange, Locked
<1>9. Agree'
  BY <1>1, <1>6, <1>7, AgreeStays DEF Busy, OnlyFails
<1>10. PartsInRange'
  BY <1>3, <1>5, <1>6 DEF DataInv, LandInv, PartsInRange
<1>11. Apart' /\ OffTheCopy'
  BY <1>1, <1>6, <1>7, <1>8 DEF DataInv, LandInv, Apart, OffTheCopy, Busy
<1>12. Landed'
  <2> SUFFICES ASSUME NEW x \in Task, Land(x)', ~ Refused(task'[x]), NEW u \in task'[x].range, NEW i \in Slot,
                      Holds(members[i], u)
               PROVE  Reached(x, i, u)'
    BY <1>1 DEF Landed, Refused, Holds
  <2>1. CASE x = t
    BY <1>1, <1>4, <1>5, <1>6, <2>1 DEF Reached
  <2>2. CASE x # t
    BY <1>1, <1>6, <1>7, <2>2 DEF DataInv, LandInv, Landed, Reached, ReadAs
  <2> QED
    BY <2>1, <2>2
<1>13. RebuildInv'
  BY <1>1, StillRebuild DEF OnlyFails, ReadsStay, CopyStays
<1>14. KeptStays
  <2> SUFFICES ASSUME NEW u \in Unit, NEW x \in Nat, Kept(u, x) PROVE Kept(u, x)'
    BY DEF KeptStays
  <2>1. x <= ticket /\ ticket' = ticket + 1 /\ n = ticket + 1 /\ ticket \in Nat
    BY DEF Kept, LockRange, n, TInv, HistOK
  <2>2. x <= ticket' /\ n >= x
    BY <2>1
  <2>3. \A y \in Task : Land(y)' /\ u \in task'[y].range => task'[y].v >= x
    BY <1>5, <1>6, <1>7, <2>2 DEF Kept
  <2> QED
    BY <1>1, <2>2, <2>3 DEF Kept, Holds, ReadAs, Copied, Behind, Rebuilding
<1> QED
  BY <1>9, <1>10, <1>11, <1>12, <1>13, <1>14 DEF DataInv, LandInv

\* The units of a landing are in a range that is apart from the others and from
\* the rebuild's.
LEMMA LandDataData == ASSUME TInv, DataInv, NEW t \in Task, NEW l, LandData(t, l) PROVE DataInv' /\ KeptStays
<1>1. UNCHANGED <<members, rb, latest, torn, ticket>>
  BY DEF LandData, memVars, histVars
<1>2. spent'["spares"] = spent["spares"]
  BY SpendSpares DEF LandData, Event
<1>3. /\ Land(t) /\ Land(t)' /\ \A x \in Task \ {t} : task'[x] = task[x] /\ (Land(x)' <=> Land(x))
      /\ task'[t].range = task[t].range /\ task'[t].todo = task[t].todo \ {l} /\ task'[t].v = task[t].v
      /\ task[t].bad \subseteq task'[t].bad /\ l \in task[t].todo /\ l.drive \in Drive
      /\ task[t].range \subseteq Unit
  BY LandDataTask DEF Land, WriteLandings, WriteRecord
<1>4. l.part \subseteq task[t].range
  BY <1>3 DEF DataInv, LandInv, PartsInRange, Land
<1>5. \A d \in Drive, u \in Unit : u \notin task[t].range => data'[d][u].cur = data[d][u].cur
  BY <1>4, LandDataMedia
<1>6. \A i \in Slot : members[i].id \in Drive
  BY DEF TInv, SetOK, Member
<1>7. Agree'
  BY <1>1, <1>3, <1>5, AgreeStays DEF Busy, OnlyFails
<1>8. PartsInRange' /\ Apart' /\ OffTheCopy'
  BY <1>1, <1>3 DEF DataInv, LandInv, PartsInRange, Apart, OffTheCopy, Land
<1>9. Landed'
  <2> SUFFICES ASSUME NEW x \in Task, Land(x)', ~ Refused(task'[x]), NEW u \in task'[x].range, NEW i \in Slot,
                      Holds(members[i], u)
               PROVE  Reached(x, i, u)'
    BY <1>1 DEF Landed, Refused, Holds
  <2>1. CASE x = t
    <3>1. Reached(t, i, u) /\ u \in Unit
      BY <1>3, <2>1 DEF DataInv, LandInv, Landed, Refused
    <3>2. \/ data'[members[i].id][u] = data[members[i].id][u]
          \/ l.drive = members[i].id /\ u \in l.part
      BY <1>6, <3>1, LandDataMedia
    <3>3. \/ \A w \in l.part : data'[l.drive][w].cur = task[t].v
          \/ l.slot \in task'[t].bad /\ data' = data
      BY LandDataMedia
    <3> QED
      BY <1>1, <1>3, <2>1, <3>1, <3>2, <3>3 DEF Reached, ReadAs
  <2>2. CASE x # t
    <3>1. u \notin task[t].range /\ u \in Unit
      BY <1>3, <2>2, Kinds DEF DataInv, LandInv, Apart, Land, TInv, WriteRecord
    <3>2. Reached(x, i, u) /\ task'[x] = task[x]
      BY <1>3, <2>2 DEF DataInv, LandInv, Landed
    <3> QED
      BY <1>1, <1>5, <1>6, <3>1, <3>2 DEF Reached, ReadAs
  <2> QED
    BY <2>1, <2>2
<1>10. RebuildInv'
  <2>1. rb.pc = "copy" => \A i \in Slot : ReadAs(i, rb.key + 1)' = ReadAs(i, rb.key + 1)
    <3> SUFFICES ASSUME rb.pc = "copy", NEW i \in Slot PROVE ReadAs(i, rb.key + 1)' = ReadAs(i, rb.key + 1)
      OBVIOUS
    <3>1. rb.key + 1 \in Unit /\ rb.key + 1 \notin task[t].range
      BY <1>3, SizesAssumption DEF DataInv, LandInv, OffTheCopy, TInv, RebuildOK, RebuildRecord, Unit
    <3> QED
      BY <1>1, <1>5, <1>6, <3>1 DEF ReadAs
  <2> QED
    BY <1>1, <1>2, <2>1 DEF DataInv, RebuildInv, Behind, Copied, Page, Rebuilding
<1>11. KeptStays
  <2> SUFFICES ASSUME NEW u \in Unit, NEW x \in Nat, Kept(u, x) PROVE Kept(u, x)'
    BY DEF KeptStays
  <2>1. ASSUME NEW i \in Slot, Holds(members'[i], u) PROVE ReadAs(i, u)' >= x
    <3>1. Holds(members[i], u) /\ ReadAs(i, u) >= x
      BY <1>1, <2>1 DEF Kept
    <3>2. \/ data'[members[i].id][u].cur = data[members[i].id][u].cur
          \/ data'[members[i].id][u].cur = task[t].v /\ u \in task[t].range
      BY <1>4, <1>6, LandDataMedia
    <3> QED
      BY <1>1, <1>3, <3>1, <3>2 DEF Kept, ReadAs
  <2>2. \A y \in Task : Land(y)' /\ u \in task'[y].range => task'[y].v >= x
    BY <1>3 DEF Kept
  <2> QED
    BY <1>1, <2>1, <2>2 DEF Kept, Holds, Copied, Behind, Rebuilding
<1> QED
  BY <1>7, <1>8, <1>9, <1>10, <1>11 DEF DataInv, LandInv

LEMMA JudgeData == ASSUME TInv, DataInv, NEW t \in Task, Judge(t) PROVE DataInv' /\ KeptStays
<1>1. UNCHANGED <<phase, pool, data, rb, spent, latest, torn, ticket>>
  BY DEF Judge, mediaVars, histVars
<1>2. UNCHANGED memVars \/ \E i \in Slot, missing \in BOOLEAN : FailMember(i, missing)
  BY JudgeTask
<1>3. OnlyFails /\ ReadsStay /\ CopyStays
  BY <1>1, <1>2, FailOnly DEF ReadsStay, CopyStays
<1>4. CASE ~ Land(t)
  <2>1. LandsStay
    BY <1>4, JudgeTask, OneStays DEF Land
  <2> QED
    BY <1>1, <1>3, <2>1, Still DEF StillStep
<1>5. CASE Land(t)
  <2>1. /\ Land(t)' /\ \A x \in Task \ {t} : task'[x] = task[x] /\ (Land(x)' <=> Land(x))
        /\ task'[t].range = task[t].range /\ task'[t].todo = {} /\ task'[t].v = task[t].v /\ task[t].todo = {}
        /\ task[t].bad # {}
    BY <1>5, JudgeTask, Kinds DEF Land, TInv
  <2>2. Agree'
    BY <1>1, <1>3, <2>1, AgreeStays DEF Busy
  <2>3. PartsInRange' /\ Apart' /\ OffTheCopy'
    <3>1. PartsInRange'
      BY <2>1 DEF DataInv, LandInv, PartsInRange, Land
    <3>2. Apart' /\ OffTheCopy'
      BY <1>1, <1>5, <2>1 DEF DataInv, LandInv, Apart, OffTheCopy
    <3> QED
      BY <3>1, <3>2
  <2>4. Landed'
    <3> SUFFICES ASSUME NEW x \in Task, Land(x)', ~ Refused(task'[x]), NEW u \in task'[x].range, NEW i \in Slot,
                        Holds(members'[i], u)
                 PROVE  Reached(x, i, u)'
      BY DEF Landed, Refused, Holds
    <3>1. Holds(members[i], u) /\ members'[i].id = members[i].id
      BY <1>3, HoldersBefore
    <3>2. CASE x = t
      <4>1. Reached(t, i, u) /\ \A l \in task[t].todo : FALSE
        BY <1>5, <2>1, <3>1, <3>2 DEF DataInv, LandInv, Landed, Refused
      <4>2. PICK j \in task[t].bad : FailMember(j, FALSE) /\ task'[t].bad = task[t].bad \ {j}
        BY <2>1, <3>2, JudgeTask DEF Refused
      <4>3. j \in Slot /\ members'[j].state = "Failed"
        BY <1>1, <4>2, JudgeTask, FailTyped DEF TInv
      <4>4. i # j
        BY <4>3 DEF Holds
      <4> QED
        BY <1>1, <2>1, <3>1, <3>2, <4>1, <4>2, <4>4 DEF Reached, ReadAs
    <3>3. CASE x # t
      <4>1. Reached(x, i, u) /\ task'[x] = task[x]
        BY <2>1, <3>1, <3>3 DEF DataInv, LandInv, Landed
      <4> QED
        BY <1>1, <3>1, <4>1 DEF Reached, ReadAs
    <3> QED
      BY <3>2, <3>3
  <2>5. RebuildInv'
    BY <1>1, <1>3, StillRebuild
  <2>6. KeptStays
    <3> SUFFICES ASSUME NEW u \in Unit, NEW x \in Nat, Kept(u, x) PROVE Kept(u, x)'
      BY DEF KeptStays
    <3>1. ASSUME NEW i \in Slot, Holds(members'[i], u) PROVE ReadAs(i, u)' >= x
      BY <1>1, <1>3, <3>1, HoldersBefore DEF Kept, ReadAs
    <3>2. \A y \in Task : Land(y)' /\ u \in task'[y].range => task'[y].v >= x
      BY <1>5, <2>1 DEF Kept
    <3>3. Copied' => Copied
      BY <1>1, <1>3, HoldersBefore DEF Copied, Behind
    <3> QED
      BY <1>1, <3>1, <3>2, <3>3 DEF Kept, Holds
  <2> QED
    BY <2>2, <2>3, <2>4, <2>5, <2>6 DEF DataInv, LandInv
<1> QED
  BY <1>4, <1>5

\* A write that ended Ok has reached every member that holds its range.
LEMMA EndWriteData ==
    ASSUME TInv, DataInv, NEW t \in Task, EndWrite(t)
    PROVE  /\ DataInv' /\ KeptStays
           /\ task[t].ok /\ task[t].v <= ticket => \A u \in task[t].range, x \in Nat : x = task[t].v => Kept(u, x)'
<1>1. UNCHANGED <<members, data, rb, spent, ticket>>
  BY DEF EndWrite, memVars, mediaVars
<1>2. /\ Land(t) /\ task[t].todo = {} /\ task[t].bad = {} /\ task[t] \in WriteRecord
      /\ ~ Land(t)' /\ \A x \in Task \ {t} : (Land(x)' <=> Land(x)) /\ (Land(x) => task'[x] = task[x])
  <2>1. Land(t) /\ task[t].todo = {} /\ task[t].bad = {} /\ task[t] \in WriteRecord
    BY EndWriteTask DEF Land
  <2>2. task'[t].pc = "check"
    <3>1. task'[t] = [task[t] EXCEPT !.pc = "check"]
      BY EndWriteTask
    <3> QED
      BY <2>1, <3>1 DEF WriteRecord
  <2>3. ASSUME NEW x \in Task \ {t} PROVE (Land(x)' <=> Land(x)) /\ (Land(x) => task'[x] = task[x])
    <3>1. \/ task'[x] = task[x]
          \/ task[x] \in FlushRecord /\ task'[x].pc = task[x].pc
      BY EndWriteTask
    <3> QED
      BY <3>1 DEF Land, FlushRecord
  <2> QED
    BY <2>1, <2>2, <2>3 DEF Land
<1>3. \A u \in Unit \ task[t].range : latest'[u] = latest[u] /\ (u \in torn' <=> u \in torn)
  BY DEF EndWrite, TInv, HistOK
<1>4. \A u \in task[t].range : u \notin torn' => task[t].ok /\ latest'[u] = task[t].v
  BY <1>2 DEF EndWrite, WriteRecord
<1>5. Agree'
  <2> SUFFICES ASSUME NEW u \in Unit \ torn', ~ Busy(u)', NEW i \in Slot, Holds(members[i], u)
               PROVE  ReadAs(i, u) = latest'[u]
    BY <1>1 DEF Agree, Holds, ReadAs
  <2>1. CASE u \in task[t].range
    <3>1. task[t].ok /\ latest'[u] = task[t].v
      BY <1>4, <2>1
    <3> QED
      BY <1>2, <2>1, <3>1 DEF DataInv, LandInv, Landed, Reached, Refused
  <2>2. CASE u \notin task[t].range
    BY <1>2, <1>3, <2>2 DEF DataInv, Agree, Busy
  <2> QED
    BY <2>1, <2>2
<1>6. LandInv'
  <2>1. \A x \in Task : Land(x)' => Land(x) /\ task'[x] = task[x]
    BY <1>2
  <2>2. PartsInRange' /\ Apart' /\ OffTheCopy'
    BY <1>1, <2>1 DEF DataInv, LandInv, PartsInRange, Apart, OffTheCopy, Land
  <2>3. Landed'
    BY <1>1, <2>1 DEF DataInv, LandInv, Landed, Reached, ReadAs, Refused, Holds
  <2> QED
    BY <2>2, <2>3 DEF LandInv
<1>7. RebuildInv'
  <2>1. rb.pc = "copy" => rb.key + 1 \in Unit \ task[t].range
    BY <1>2, SizesAssumption DEF DataInv, LandInv, OffTheCopy, TInv, RebuildOK, RebuildRecord, Unit
  <2>2. rb.pc = "copy" => latest'[rb.key + 1] = latest[rb.key + 1] /\ (rb.key + 1 \in torn' <=> rb.key + 1 \in torn)
    BY <1>3, <2>1
  <2> QED
    BY <1>1, <2>2 DEF DataInv, RebuildInv, Behind, Copied, Page, Rebuilding, ReadAs
<1>8. KeptStays
  BY <1>1, <1>2 DEF KeptStays, Kept, Holds, ReadAs, Copied, Behind, Rebuilding
<1>9. ASSUME task[t].ok, task[t].v <= ticket, NEW u \in task[t].range, NEW v \in Nat, v = task[t].v PROVE Kept(u, v)'
  <2>1. \A i \in Slot : Holds(members[i], u) => ReadAs(i, u) = v
    BY <1>2, <1>9 DEF DataInv, LandInv, Landed, Reached, Refused
  <2>2. \A y \in Task : ~ (Land(y)' /\ u \in task'[y].range)
    BY <1>2 DEF DataInv, LandInv, Apart
  <2>3. ~ (rb.pc = "copy" /\ rb.key + 1 = u)
    BY <1>2 DEF DataInv, LandInv, OffTheCopy
  <2>5. v <= ticket' /\ \A i \in Slot : Holds(members'[i], u) => ReadAs(i, u)' >= v
    BY <1>1, <1>9, <2>1 DEF ReadAs
  <2> QED
    BY <1>1, <2>2, <2>3, <2>5 DEF Kept, Holds
<1> QED
  BY <1>5, <1>6, <1>7, <1>8, <1>9 DEF DataInv

-----------------------------------------------------------------------------
(* The steps of the rebuild                                                 *)

\* Where data and requests stay, and a member that holds a unit held it before or
\* has the last write of it and no write lands there.
LEMMA AsBefore ==
    ASSUME DataInv, UNCHANGED <<data, task, latest, torn>>,
           \A i \in Slot, u \in Unit : Holds(members'[i], u) =>
              /\ members'[i].id = members[i].id
              /\ Holds(members[i], u) \/ (~ Busy(u) /\ (u \notin torn => ReadAs(i, u) = latest[u]))
    PROVE  Agree' /\ ((\A t \in Task : Land(t) => task[t].range \subseteq Unit) => Landed')
<1>1. Agree'
  <2> SUFFICES ASSUME NEW u \in Unit \ torn, ~ Busy(u)', NEW i \in Slot, Holds(members'[i], u)
               PROVE  ReadAs(i, u)' = latest[u]
    BY DEF Agree, Holds
  <2>1. ~ Busy(u)
    BY DEF Busy, Land
  <2> QED
    BY <2>1 DEF DataInv, Agree, ReadAs
<1>2. ASSUME \A t \in Task : Land(t) => task[t].range \subseteq Unit PROVE Landed'
  <2> SUFFICES ASSUME NEW t \in Task, Land(t)', ~ Refused(task'[t]), NEW u \in task'[t].range, NEW i \in Slot,
                      Holds(members'[i], u)
               PROVE  Reached(t, i, u)'
    BY DEF Landed, Refused, Holds
  <2>1. Land(t) /\ task'[t] = task[t] /\ u \in Unit /\ Busy(u)
    BY <1>2 DEF Land, Busy
  <2>2. Holds(members[i], u) /\ members'[i].id = members[i].id
    BY <2>1
  <2> QED
    BY <2>1, <2>2 DEF DataInv, LandInv, Landed, Reached, ReadAs
<1> QED
  BY <1>1, <1>2

LEMMA LandRanges == ASSUME TInv PROVE \A t \in Task : Land(t) => task[t].range \subseteq Unit
  BY Kinds DEF Land, TInv, WriteRecord

LEMMA LandStays ==
    ASSUME DataInv, UNCHANGED task, rb'.pc = "copy" => ~ Busy(rb'.key + 1) PROVE PartsInRange' /\ Apart' /\ OffTheCopy'
  BY DEF DataInv, LandInv, PartsInRange, Apart, OffTheCopy, Land, Busy

\* The same of how old the unit's members are.
LEMMA KeptBefore ==
    ASSUME UNCHANGED <<data, task, ticket>>, rb'.pc = "copy" => ~ Copied' \/ (rb' = rb /\ Copied),
           \A i \in Slot, u \in Unit : Holds(members'[i], u) =>
              /\ members'[i].id = members[i].id
              /\ Holds(members[i], u) \/ (rb.pc = "copy" /\ Copied /\ rb.key + 1 = u /\ ReadAs(i, u) = rb.v)
    PROVE  KeptStays
<1> SUFFICES ASSUME NEW u \in Unit, NEW x \in Nat, Kept(u, x) PROVE Kept(u, x)'
  BY DEF KeptStays
<1>1. ASSUME NEW i \in Slot, Holds(members'[i], u) PROVE ReadAs(i, u)' >= x
  BY <1>1 DEF Kept, ReadAs
<1>2. \A t \in Task : Land(t)' /\ u \in task'[t].range => task'[t].v >= x
  BY DEF Kept, Land
<1>3. rb'.pc = "copy" /\ Copied' /\ rb'.key + 1 = u => rb'.v >= x
  BY DEF Kept
<1> QED
  BY <1>1, <1>2, <1>3 DEF Kept, Holds

\* The first spare: nothing is being rebuilt.
LEMMA TakeSpareData == ASSUME TInv, DataInv, NEW d \in Drive, TakeSpare(d), OneSpare' PROVE DataInv' /\ KeptStays
<1>1. UNCHANGED <<data, task, rb, latest, torn, ticket>>
  BY DEF TakeSpare, mediaVars, histVars
<1>2. PICK i \in Slot :
        /\ \A j \in Slot \ {i} : members'[j] = members[j]
        /\ members'[i] = [id |-> d, here |-> TRUE, state |-> "Rebuilding", to |-> 0, missing |-> FALSE, at |-> 0]
        /\ spent'["spares"] = spent["spares"] + 1
  BY SpareTaken
<1>3. spent["spares"] = 0 /\ spent'["spares"] = 1
  BY <1>2 DEF OneSpare, TInv, HistOK, Event
<1>4. rb.targets = {} /\ rb.copies = {}
  BY <1>3 DEF DataInv, RebuildInv
<1>5. \A u \in Unit : ~ Holds(members'[i], u)
  BY <1>2 DEF Holds, Unit
<1>6. Agree' /\ Landed'
  BY <1>1, <1>2, <1>5, AsBefore, LandRanges
<1>7. PartsInRange' /\ Apart' /\ OffTheCopy'
  BY <1>1 DEF DataInv, LandInv, PartsInRange, Apart, OffTheCopy, Land
<1>8. RebuildInv'
  <2>1. \A j \in Slot : members'[j].here
    BY <1>2 DEF DataInv, RebuildInv
  <2>2. \A j \in Slot : ~ Behind(j)'
    BY <1>1, <1>4 DEF Behind
  <2> QED
    BY <1>1, <1>3, <1>4, <2>1, <2>2 DEF DataInv, RebuildInv, Copied
<1>9. KeptStays
  <2>1. ~ Copied'
    BY <1>1, <1>4 DEF Copied, Behind
  <2> QED
    BY <1>1, <1>2, <1>5, <2>1, KeptBefore
<1> QED
  BY <1>6, <1>7, <1>8, <1>9 DEF DataInv, LandInv

LEMMA SpawnData == ASSUME TInv, DataInv, SpawnRebuild PROVE DataInv' /\ KeptStays
<1>1. UNCHANGED <<members, data, task, spent, latest, torn, ticket>>
  BY DEF SpawnRebuild, memVars, mediaVars, histVars
<1>2. /\ rb'.pc \in {"idle", "unit"} /\ rb'.copies = {}
      /\ rb'.targets = {} \/ (rb'.targets = Rebuilding /\ \A i \in Rebuilding : rb'.key <= members[i].to)
  BY Spawned, IdleRebuild
<1>3. Agree' /\ Landed'
  BY <1>1, AsBefore, LandRanges
<1>4. PartsInRange' /\ Apart' /\ OffTheCopy'
  BY <1>1, <1>2, LandStays
<1>5. RebuildInv'
  <2>1. \A i \in Rebuilding : members[i].to \in Nat /\ i \in Slot
    BY SizesAssumption DEF TInv, SetOK, Member, Rebuilding
  <2>2. rb'.key \in Nat
    BY Spawned, IdleRebuild, SizesAssumption DEF RebuildRecord
  <2>3. Rebuilding' = Rebuilding
    BY <1>1 DEF Rebuilding
  <2>4. \A i \in rb'.targets \cap Rebuilding' : members'[i].to >= rb'.key
    BY <1>1, <1>2, <2>1, <2>2, <2>3
  <2>5. spent'["spares"] = 0 => rb'.targets = {}
    BY <1>1, <1>2 DEF DataInv, RebuildInv, Rebuilding
  <2> QED
    BY <1>1, <1>2, <2>4, <2>5 DEF DataInv, RebuildInv
<1>6. KeptStays
  BY <1>1, <1>2, KeptBefore
<1> QED
  BY <1>3, <1>4, <1>5, <1>6 DEF DataInv, LandInv

\* What is read for the targets is what their unit was last written.
LEMMA CopyUnitData == ASSUME TInv, DataInv, CopyUnit PROVE DataInv' /\ KeptStays
<1>1. CASE rb'.pc # "copy"
  BY <1>1, RebuildStill, Still
<1>2. CASE rb'.pc = "copy"
  <2>1. UNCHANGED <<data, task, latest, torn, ticket>> /\ spent'["spares"] = spent["spares"]
    BY OtherDrives DEF CopyUnit, mediaVars, histVars, DrivesStay
  <2>2. /\ rb'.targets = rb.targets /\ rb'.key = rb.key /\ UNCHANGED members /\ rb.key + 1 \in Unit
        /\ ~ Locked(rb.key + 1) /\ rb'.copies = Copies
        /\ Copies # {} => \E i \in Sources : rb'.v = data[members[i].id][rb.key + 1].cur
    BY <1>2, UnitCopied DEF memVars
  <2>3. ~ Busy(rb.key + 1)
    BY <2>2, LockedBusy DEF Locked
  <2>4. Agree' /\ Landed'
    BY <2>1, <2>2, AsBefore, LandRanges
  <2>5. PartsInRange' /\ Apart' /\ OffTheCopy'
    BY <2>1, <2>2, <2>3, LandStays
  <2>6. ASSUME NEW i \in Slot, Behind(i)' PROVE Page(i) \in Copies
    <3>1. i \in rb.targets \cap Rebuilding /\ members[i].to <= rb.key
      BY <2>2, <2>6 DEF Behind, Rebuilding
    <3>2. Page(i) \in AttachedDevices
      BY <3>1 DEF AttachedDevices, Attached, Rebuilding, Page
    <3>3. Page(i).slot = i
      BY DEF Page
    <3> QED
      BY <3>1, <3>2, <3>3 DEF Copies
  <2>7. ASSUME NEW l \in Copies PROVE l = Page(l.slot) /\ members[l.slot].state # "Active" /\ members[l.slot].to <= rb.key
    BY <2>7 DEF Copies, AttachedDevices, Page, Rebuilding
  <2>8. Copied' => Copies # {}
    BY <2>2, <2>6 DEF Copied
  <2>9. ASSUME Copies # {}, rb.key + 1 \notin torn PROVE rb'.v = latest[rb.key + 1]
    <3>1. PICK i \in Sources : rb'.v = data[members[i].id][rb.key + 1].cur
      BY <2>2, <2>9
    <3>2. i \in Slot /\ Holds(members[i], rb.key + 1)
      BY DEF Sources
    <3> QED
      BY <2>2, <2>3, <2>9, <3>1, <3>2 DEF DataInv, Agree, ReadAs
  <2>10. spent'["spares"] = 0 => Copies = {}
    BY <2>1 DEF DataInv, RebuildInv, Copies
  <2>11. RebuildInv'
    <3>1. \A i \in Slot : Page(i)' = Page(i)
      BY <2>2 DEF Page
    <3>2. Rebuilding' = Rebuilding
      BY <2>2 DEF Rebuilding
    <3>3. \A l \in Copies : l.slot \in Slot
      BY DEF Copies, AttachedDevices
    <3>4. \A l \in rb'.copies : l = Page(l.slot)' /\ members'[l.slot].state # "Active" /\ members'[l.slot].to <= rb'.key
      BY <2>2, <2>7, <3>1, <3>3
    <3>5. \A i \in Slot : Behind(i)' => Page(i)' \in rb'.copies
      BY <2>2, <2>6, <3>1
    <3>6. Copied' /\ rb'.key + 1 \notin torn' => rb'.v = latest'[rb'.key + 1]
      BY <2>1, <2>2, <2>8, <2>9
    <3> QED
      BY <1>2, <2>1, <2>2, <2>10, <3>2, <3>4, <3>5, <3>6 DEF DataInv, RebuildInv
  <2>12. KeptStays
    <3> SUFFICES ASSUME NEW u \in Unit, NEW x \in Nat, Kept(u, x) PROVE Kept(u, x)'
      BY DEF KeptStays
    <3>1. ASSUME Copied', rb'.key + 1 = u PROVE rb'.v >= x
      <4>1. PICK i \in Sources : rb'.v = data[members[i].id][rb.key + 1].cur
        BY <2>2, <2>8, <3>1
      <4>2. i \in Slot /\ Holds(members[i], u) /\ rb'.v = ReadAs(i, u)
        BY <2>2, <3>1, <4>1 DEF Sources, ReadAs
      <4> QED
        BY <4>2 DEF Kept
    <3> QED
      BY <2>1, <2>2, <3>1 DEF Kept, Holds, ReadAs, Land
  <2> QED
    BY <2>4, <2>5, <2>11, <2>12 DEF DataInv, LandInv
<1> QED
  BY <1>1, <1>2

\* The target does not hold the unit yet, and no other slot has its drive.
LEMMA LandCopyData == ASSUME TInv, PlaceInv, DataInv, NEW l \in Landings, LandCopy(l) PROVE DataInv' /\ KeptStays
<1>1. UNCHANGED <<phase, pool, task, latest, torn, ticket>> /\ spent'["spares"] = spent["spares"]
  BY OtherDrives DEF LandCopy, mediaVars, histVars, DrivesStay
<1>2. /\ rb.pc = "copy" /\ l \in rb.copies /\ rb.key + 1 \in Unit /\ rb.key \in Nat
      /\ rb'.targets = rb.targets /\ rb'.key = rb.key /\ rb'.pc = "copy"
      /\ rb'.copies = rb.copies \ {l} /\ rb'.v = rb.v
      /\ l.slot \in Slot /\ l.drive \in Drive
  <2>1. rb.key \in Nat
    BY SizesAssumption DEF TInv, RebuildOK, RebuildRecord
  <2>2. l.slot \in Slot /\ l.drive \in Drive
    BY DEF Landings
  <2> QED
    BY <2>1, <2>2, CopyLanded
<1>3. l = Page(l.slot) /\ l.drive = members[l.slot].id /\ members[l.slot].state # "Active" /\ members[l.slot].to <= rb.key
  BY <1>2 DEF DataInv, RebuildInv, Page
<1>4. \A i \in Slot : members[i].id \in Drive /\ members[i].to \in Nat
  BY SizesAssumption DEF TInv, SetOK, Member
<1>5. UNCHANGED memVars \/ FailMember(l.slot, FALSE)
  BY CopyLanded
<1>6. OnlyFails
  BY <1>1, <1>2, <1>5, FailOnly
<1>7. ASSUME NEW i \in Slot, NEW u \in Unit, i # l.slot \/ u # rb.key + 1 PROVE data'[members[i].id][u] = data[members[i].id][u]
  <2>1. members[i].id # l.drive \/ u # rb.key + 1
    BY <1>2, <1>3, <1>7, DrivesDiffer
  <2> QED
    BY <1>4, <2>1, CopyLanded
<1>8. ~ Holds(members[l.slot], rb.key + 1)
  BY <1>2, <1>3, <1>4 DEF Holds
<1>9. ASSUME NEW i \in Slot, NEW u \in Unit, Holds(members'[i], u)
      PROVE  Holds(members[i], u) /\ members'[i].id = members[i].id /\ ReadAs(i, u)' = ReadAs(i, u)
  <2>1. Holds(members[i], u) /\ members'[i].id = members[i].id
    BY <1>6, <1>9, HoldersBefore
  <2> QED
    BY <1>7, <1>8, <2>1 DEF ReadAs
<1>10. Agree'
  BY <1>1, <1>9 DEF DataInv, Agree, Busy, Land
<1>11. PartsInRange' /\ Apart' /\ OffTheCopy'
  BY <1>1, <1>2 DEF DataInv, LandInv, PartsInRange, Apart, OffTheCopy, Land
<1>12. Landed'
  <2> SUFFICES ASSUME NEW t \in Task, Land(t)', ~ Refused(task'[t]), NEW u \in task'[t].range, NEW i \in Slot,
                      Holds(members'[i], u)
               PROVE  Reached(t, i, u)'
    BY DEF Landed, Refused, Holds
  <2>1. Land(t) /\ task'[t] = task[t] /\ u \in Unit
    BY <1>1, LandRanges DEF Land
  <2> QED
    BY <1>9, <2>1 DEF DataInv, LandInv, Landed, Reached
<1>13. RebuildInv'
  <2> USE DEF DataInv, RebuildInv
  <2>1. \A i \in Slot : members'[i].here /\ (i \in Rebuilding' => i \in Rebuilding) /\ (Behind(i)' => Behind(i))
    BY <1>2, <1>6, HoldersBefore DEF Behind
  <2>2. spent'["spares"] = 0 => rb'.targets = {} /\ rb'.copies = {} /\ \A i \in Slot : members'[i].state # "Rebuilding"
    BY <1>1, <1>2, <1>6 DEF OnlyFails
  <2>3. \A i \in rb'.targets \cap Rebuilding' : members'[i].to >= rb'.key
    BY <1>2, <1>6, HoldersBefore DEF Rebuilding
  <2>4. \A c \in rb'.copies : c = Page(c.slot)' /\ members'[c.slot].state # "Active" /\ members'[c.slot].to <= rb'.key
    <3> SUFFICES ASSUME NEW c \in rb.copies
                 PROVE  c = Page(c.slot)' /\ members'[c.slot].state # "Active" /\ members'[c.slot].to <= rb.key
      BY <1>2
    <3>1. c.slot \in Slot
      BY DEF TInv, RebuildOK, RebuildRecord, Landings
    <3> QED
      BY <1>6, <3>1, HoldersBefore DEF OnlyFails, Page
  <2>5. ASSUME NEW i \in Slot, Behind(i)' PROVE Page(i)' \in rb'.copies \/ ReadAs(i, rb.key + 1)' = rb.v
    <3>1. Behind(i) /\ members'[i].id = members[i].id /\ Page(i)' = Page(i)
      BY <1>6, <2>1, <2>5, HoldersBefore DEF Page
    <3>2. Page(i) \in rb.copies \/ ReadAs(i, rb.key + 1) = rb.v
      BY <1>2, <3>1
    <3>3. CASE i # l.slot
      <4>1. ReadAs(i, rb.key + 1)' = ReadAs(i, rb.key + 1)
        BY <1>2, <1>7, <3>1, <3>3 DEF ReadAs
      <4>2. Page(i) # l
        BY <3>3 DEF Page
      <4> QED
        BY <1>2, <3>1, <3>2, <4>1, <4>2
    <3>4. CASE i = l.slot
      <4>1. members'[i].state = "Rebuilding"
        BY <2>5 DEF Behind, Rebuilding
      <4>2. ~ FailMember(i, FALSE)
        BY <1>1, <4>1, FailTyped DEF TInv
      <4>3. Failable(i) \/ data'[l.drive][rb.key + 1].cur = rb.v
        <5>1. members[i].state = "Rebuilding"
          BY <3>1 DEF Behind, Rebuilding
        <5> QED
          BY <5>1 DEF Failable
      <4>4. data'[l.drive][rb.key + 1].cur = rb.v
        BY <3>4, <4>2, <4>3, CopyLanded
      <4> QED
        BY <1>2, <1>3, <3>1, <3>4, <4>4 DEF ReadAs
    <3> QED
      BY <3>3, <3>4
  <2>6. Copied' => Copied
    BY <1>2, <2>1 DEF Copied
  <2> QED
    BY <1>1, <1>2, <2>1, <2>2, <2>3, <2>4, <2>5, <2>6
<1>14. KeptStays
  <2> SUFFICES ASSUME NEW u \in Unit, NEW x \in Nat, Kept(u, x) PROVE Kept(u, x)'
    BY DEF KeptStays
  <2>1. Copied' => Copied
    BY <1>2, <1>6, HoldersBefore DEF Copied, Behind
  <2>2. \A i \in Slot : Holds(members'[i], u) => ReadAs(i, u)' >= x
    BY <1>9 DEF Kept
  <2> QED
    BY <1>1, <1>2, <2>1, <2>2 DEF Kept, Holds, Land
<1> QED
  BY <1>10, <1>11, <1>12, <1>13, <1>14 DEF DataInv, LandInv

\* Every target that is behind has the unit, and it is the last write.
LEMMA WatermarkData == ASSUME TInv, DataInv, RaiseWatermark PROVE DataInv' /\ KeptStays
<1>1. UNCHANGED <<data, task, latest, torn, spent, ticket>>
  BY DEF RaiseWatermark, mediaVars, histVars
<1>2. /\ rb.pc = "copy" /\ rb.copies = {} /\ rb.key \in Nat /\ rb.key + 1 \in Unit
      /\ rb'.targets = rb.targets /\ rb'.key = rb.key + 1 /\ rb'.pc = "check" /\ rb'.copies = {}
      /\ \A i \in Slot : ~ Behind(i) => members'[i] = members[i]
  BY WatermarkRaised, SizesAssumption DEF TInv, RebuildOK, RebuildRecord, Unit
<1>3. \A i \in Slot : members[i].to \in Nat /\ members[i] \in Member
  BY SizesAssumption DEF TInv, SetOK, Member
<1>4. ASSUME NEW i \in Slot, Behind(i)
      PROVE  /\ members'[i].id = members[i].id /\ members'[i].here = members[i].here
             /\ members'[i].state = "Rebuilding" /\ members'[i].to = rb.key + 1
             /\ members[i].state = "Rebuilding" /\ members[i].to = rb.key /\ members[i].here
             /\ ReadAs(i, rb.key + 1) = rb.v /\ Copied
  <2>1. members[i].state = "Rebuilding" /\ members[i].here /\ members[i].to <= rb.key /\ i \in rb.targets \cap Rebuilding
    BY <1>4 DEF Behind, Rebuilding
  <2>2. members[i].to >= rb.key
    BY <2>1 DEF DataInv, RebuildInv
  <2>3. members'[i] = [members[i] EXCEPT !.to = rb.key + 1]
    BY <1>4, WatermarkRaised
  <2>4. ReadAs(i, rb.key + 1) = rb.v /\ Copied
    BY <1>2, <1>4 DEF DataInv, RebuildInv, Copied
  <2>5. /\ members'[i].id = members[i].id /\ members'[i].here = members[i].here
        /\ members'[i].state = members[i].state /\ members'[i].to = rb.key + 1
    BY <1>3, <2>3 DEF Member
  <2>6. members[i].to = rb.key
    BY <1>2, <1>3, <2>1, <2>2
  <2> QED
    BY <2>1, <2>4, <2>5, <2>6
<1>5. ~ Busy(rb.key + 1)
  BY <1>2 DEF DataInv, LandInv, OffTheCopy, Busy
<1>6. ASSUME NEW i \in Slot, NEW u \in Unit, Holds(members'[i], u)
      PROVE  /\ members'[i].id = members[i].id
             /\ Holds(members[i], u) \/ (~ Busy(u) /\ (u \notin torn => ReadAs(i, u) = latest[u]))
             /\ Holds(members[i], u) \/ (Copied /\ rb.key + 1 = u /\ ReadAs(i, u) = rb.v)
  <2>1. CASE ~ Behind(i)
    BY <1>2, <1>6, <2>1
  <2>2. CASE Behind(i)
    <3>1. u <= rb.key \/ u = rb.key + 1
      BY <1>2, <1>4, <1>6, <2>2 DEF Holds, Unit
    <3>2. u <= rb.key => Holds(members[i], u)
      BY <1>4, <2>2 DEF Holds
    <3>3. rb.key + 1 \notin torn => ReadAs(i, rb.key + 1) = latest[rb.key + 1]
      BY <1>2, <1>4, <2>2 DEF DataInv, RebuildInv
    <3> QED
      BY <1>4, <1>5, <2>2, <3>1, <3>2, <3>3
  <2> QED
    BY <2>1, <2>2
<1>7. Agree' /\ Landed'
  BY <1>1, <1>6, AsBefore, LandRanges
<1>8. PartsInRange' /\ Apart' /\ OffTheCopy'
  BY <1>1, <1>2, LandStays
<1>9. RebuildInv'
  <2>1. ASSUME NEW i \in Slot PROVE members'[i].here /\ members'[i].state = members[i].state
    BY <1>2, <1>4 DEF DataInv, RebuildInv
  <2>2. ASSUME NEW i \in rb.targets \cap Rebuilding' PROVE members'[i].to >= rb.key + 1
    <3>1. i \in Slot /\ i \in rb.targets \cap Rebuilding
      BY <2>1 DEF Rebuilding, DataInv, RebuildInv
    <3>2. ~ Behind(i) => members[i].to >= rb.key + 1
      BY <1>2, <1>3, <3>1 DEF Behind
    <3> QED
      BY <1>2, <1>4, <3>1, <3>2
  <2> QED
    BY <1>1, <1>2, <2>1, <2>2 DEF DataInv, RebuildInv
<1>10. KeptStays
  BY <1>1, <1>2, <1>6, KeptBefore
<1> QED
  BY <1>7, <1>8, <1>9, <1>10 DEF DataInv, LandInv

\* A target that is called whole held every unit.
LEMMA ActivateData == ASSUME TInv, DataInv, Activate PROVE DataInv' /\ KeptStays
<1>1. UNCHANGED <<data, task, latest, torn, spent, ticket>>
  BY DEF Activate, mediaVars, histVars
<1>2. /\ rb.pc = "activate" /\ rb.key = Units /\ rb.copies = {} /\ rb'.copies = {}
      /\ rb'.targets = rb.targets /\ rb'.key = rb.key /\ rb'.pc = "persist"
  BY Activated DEF DataInv, RebuildInv
<1>3. ASSUME NEW i \in Slot, i \in rb.targets \cap Rebuilding
      PROVE  /\ members'[i].id = members[i].id /\ members'[i].here /\ members'[i].state = "Active"
             /\ \A u \in Unit : Holds(members[i], u)
  <2>1. members'[i] = [members[i] EXCEPT !.state = "Active", !.to = 0] /\ members[i] \in Member
    BY <1>3, Activated DEF TInv, SetOK
  <2>2. members[i].to >= Units /\ members[i].state = "Rebuilding" /\ members[i].here /\ members[i].to \in Nat
    BY <1>2, <1>3, <2>1, SizesAssumption DEF DataInv, RebuildInv, Rebuilding, Member
  <2>3. \A u \in Unit : u <= members[i].to
    BY <2>2, SizesAssumption DEF Unit
  <2> QED
    BY <2>1, <2>2, <2>3 DEF Member, Holds
<1>4. \A i \in Slot : i \notin rb.targets \cap Rebuilding => members'[i] = members[i]
  BY Activated
<1>5. \A i \in Slot, u \in Unit : Holds(members'[i], u) => members'[i].id = members[i].id /\ Holds(members[i], u)
  BY <1>3, <1>4
<1>6. Agree' /\ Landed'
  BY <1>1, <1>5, AsBefore, LandRanges
<1>7. PartsInRange' /\ Apart' /\ OffTheCopy'
  BY <1>1, <1>2, LandStays
<1>8. RebuildInv'
  <2>1. \A i \in rb.targets \cap Rebuilding' : FALSE
    BY <1>3, <1>4 DEF Rebuilding
  <2>2. \A i \in Slot : members'[i].here
    BY <1>3, <1>4 DEF DataInv, RebuildInv
  <2>3. spent["spares"] = 0 => \A i \in Slot : members'[i] = members[i]
    BY <1>4 DEF DataInv, RebuildInv
  <2> QED
    BY <1>1, <1>2, <2>1, <2>2, <2>3 DEF DataInv, RebuildInv
<1>9. KeptStays
  BY <1>1, <1>2, <1>5, KeptBefore
<1> QED
  BY <1>6, <1>7, <1>8, <1>9 DEF DataInv, LandInv

-----------------------------------------------------------------------------
(* What is owed                                                             *)

\* What a unit's readers may count on: what was answered, and the writes that
\* ended Ok and are about to be.
Ended(t) == task[t].pc \in {"check", "persist", "round"} /\ task[t].op = "write" /\ task[t].ok
Owes(u, x) == x = acked[u] \/ \E t \in Task : Ended(t) /\ u \in task[t].range /\ x = task[t].v

Promised ==
    /\ \A t \in Task : task[t] \in FlushRecord => \A u \in Unit : task[t].owed[u] <= acked[u]
    /\ \A u \in Unit : 1 <= acked[u] /\ flushed[u] <= acked[u]
    /\ \A t \in Task : task[t].pc \in {"intent", "intending", "lock"} => ~ task[t].ok
Recent == \A t \in Task : Land(t) => task[t].v <= ticket
OwedInv == Promised /\ Recent /\ \A u \in Unit, x \in Nat : Owes(u, x) => Kept(u, x)

OwesStay == \A u \in Unit, x \in Nat : Owes(u, x)' => Owes(u, x)

LEMMA NothingAnswered == ASSUME Promised, UNCHANGED <<task, acked, flushed>> PROVE Promised' /\ OwesStay
  BY DEF Promised, OwesStay, Owes, Ended

\* One request goes on, and does not end a write.
LEMMA OneGoesOn ==
    ASSUME TInv, Promised, NEW t \in Task, \A x \in Task \ {t} : task'[x] = task[x], UNCHANGED <<acked, flushed>>,
           task'[t] \in FlushRecord => \/ task'[t].owed = acked
                                       \/ task[t] \in FlushRecord /\ task'[t].owed = task[t].owed,
           task'[t].pc \in {"intent", "intending", "lock"} => ~ task'[t].ok,
           Ended(t)' => Ended(t) /\ task'[t].range = task[t].range /\ task'[t].v = task[t].v
    PROVE  Promised' /\ OwesStay
<1>1. \A u \in Unit : acked[u] \in Nat
  BY DEF TInv, HistOK
<1>2. Promised'
  <2>1. ASSUME NEW x \in Task, task'[x] \in FlushRecord, NEW u \in Unit PROVE task'[x].owed[u] <= acked[u]
    <3>1. CASE x = t
      BY <1>1, <2>1, <3>1 DEF Promised
    <3>2. CASE x # t
      BY <2>1, <3>2 DEF Promised
    <3> QED
      BY <3>1, <3>2
  <2>2. ASSUME NEW x \in Task, task'[x].pc \in {"intent", "intending", "lock"} PROVE ~ task'[x].ok
    BY <2>2 DEF Promised
  <2> QED
    BY <2>1, <2>2 DEF Promised
<1>3. OwesStay
  <2>1. \A x \in Task : Ended(x)' => Ended(x) /\ task'[x].range = task[x].range /\ task'[x].v = task[x].v
    BY DEF Ended
  <2> QED
    BY <2>1 DEF OwesStay, Owes
<1> QED
  BY <1>2, <1>3

\* An answer tells what a write that ended is owed already.
LEMMA AnswerPromised ==
    ASSUME TInv, Promised, NEW t \in Task, task[t].pc \in {"check", "round"}, Answer(t) PROVE Promised' /\ OwesStay
<1>1. /\ task'[t] = Idle /\ \A x \in Task \ {t} : task'[x] = task[x]
      /\ \A u \in Unit : \/ acked'[u] = acked[u]
                         \/ /\ task[t] \in WriteRecord /\ task[t].ok /\ u \in task[t].range
                            /\ acked'[u] = task[t].v /\ acked[u] <= task[t].v
      /\ \A u \in Unit : flushed'[u] = flushed[u] \/ (task[t] \in FlushRecord /\ flushed'[u] = task[t].owed[u])
  BY Answered
<1>2. \A u \in Unit : acked[u] \in Nat /\ flushed[u] \in Nat
  BY DEF TInv, HistOK
<1>3. \A x \in Task : task[x] \in FlushRecord => \A u \in Unit : task[x].owed[u] \in Nat
  BY DEF FlushRecord
<1>4. \A u \in Unit : acked'[u] \in Nat /\ acked[u] <= acked'[u]
  BY <1>1, <1>2 DEF WriteRecord
<1>5. Promised'
  <2>1. ASSUME NEW x \in Task, task'[x] \in FlushRecord, NEW u \in Unit PROVE task'[x].owed[u] <= acked'[u]
    <3>1. x # t
      BY <1>1, <2>1 DEF Idle, FlushRecord
    <3>2. task[x].owed[u] <= acked[u] /\ task'[x] = task[x]
      BY <1>1, <2>1, <3>1 DEF Promised
    <3> QED
      BY <1>1, <1>2, <1>3, <1>4, <2>1, <3>2
  <2>0. \A u \in Unit : 1 <= acked'[u]
    BY <1>2, <1>4 DEF Promised
  <2>2. ASSUME NEW u \in Unit PROVE flushed'[u] <= acked'[u]
    <3>1. CASE flushed'[u] = flushed[u]
      BY <1>2, <1>4, <3>1 DEF Promised
    <3>2. CASE task[t] \in FlushRecord /\ flushed'[u] = task[t].owed[u]
      <4>1. task[t].owed[u] <= acked[u]
        BY <3>2 DEF Promised
      <4> QED
        BY <1>2, <1>3, <1>4, <3>2, <4>1
    <3> QED
      BY <1>1, <3>1, <3>2
  <2>3. ASSUME NEW x \in Task, task'[x].pc \in {"intent", "intending", "lock"} PROVE ~ task'[x].ok
    BY <1>1, <2>3 DEF Promised, Idle
  <2> QED
    BY <2>0, <2>1, <2>2, <2>3 DEF Promised
<1>6. OwesStay
  <2>1. \A x \in Task : Ended(x)' => Ended(x) /\ task'[x] = task[x]
    BY <1>1 DEF Ended, Idle
  <2>2. task[t] \in WriteRecord /\ task[t].ok => Ended(t)
    BY DEF Ended, WriteRecord
  <2>3. ASSUME NEW u \in Unit, NEW x, x = acked'[u] PROVE Owes(u, x)
    BY <1>1, <2>2, <2>3 DEF Owes
  <2> QED
    BY <2>1, <2>3 DEF OwesStay, Owes
<1> QED
  BY <1>5, <1>6

\* A request moves to its next step.
LEMMA MovesOn ==
    ASSUME TInv, Promised, NEW t \in Task, NEW pc, task' = [task EXCEPT ![t] = [task[t] EXCEPT !.pc = pc]],
           UNCHANGED <<acked, flushed>>, task[t] \in WriteRecord \/ task[t] \in FlushRecord \/ task[t] \in OtherRecord,
           pc \in {"intent", "intending", "lock"} => task[t].pc \in {"intent", "intending", "lock"},
           pc \in {"check", "persist", "round"} =>
              task[t] \notin WriteRecord \/ ~ task[t].ok \/ task[t].pc \in {"check", "persist", "round"}
    PROVE  Promised' /\ OwesStay
<1> DEFINE k == [task[t] EXCEPT !.pc = pc]
<1>1. task'[t] = k /\ \A x \in Task \ {t} : task'[x] = task[x]
  BY DEF TInv, TasksOK
<1>2. k.pc = pc /\ k.op = task[t].op /\ k.ok = task[t].ok
  BY DEF WriteRecord, FlushRecord, OtherRecord
<1>3. task[t] \in WriteRecord => k.range = task[t].range /\ k.v = task[t].v
  BY DEF WriteRecord
<1>4. task[t] \in FlushRecord => k.owed = task[t].owed
  BY DEF FlushRecord
<1> HIDE DEF k
<1>5. k \in FlushRecord => task[t].op = "flush"
  BY <1>2 DEF FlushRecord
<1>6. k \in FlushRecord => task[t] \in FlushRecord
  BY <1>5 DEF WriteRecord, OtherRecord
<1>7. task[t].op = "write" => task[t] \in WriteRecord
  BY DEF FlushRecord, OtherRecord
<1>8. Ended(t)' => Ended(t) /\ task'[t].range = task[t].range /\ task'[t].v = task[t].v
  BY <1>1, <1>2, <1>3, <1>7 DEF Ended
<1>9. task'[t].pc \in {"intent", "intending", "lock"} => ~ task'[t].ok
  BY <1>1, <1>2 DEF Promised
<1> QED
  BY <1>1, <1>4, <1>6, <1>8, <1>9, OneGoesOn

LEMMA CalmPromised == ASSUME TInv, Promised, NEW t \in Task, CalmRequest(t) PROVE Promised' /\ OwesStay
<1>1. CASE \E r \in Ranges : BeginWrite(t, r)
  <2>1. PICK r \in Ranges : BeginWrite(t, r)
    BY <1>1
  <2> DEFINE pc == IF r \subseteq durable THEN "lock" ELSE "intent"
             k == [op |-> "write", range |-> r, ok |-> FALSE, bad |-> {}, todo |-> {}, pc |-> pc, v |-> 0]
  <2>2. task' = [task EXCEPT ![t] = k] /\ UNCHANGED <<acked, flushed>>
    BY <2>1 DEF BeginWrite
  <2>3. k.op = "write" /\ ~ k.ok
    OBVIOUS
  <2> HIDE DEF k
  <2>4. task'[t] = k /\ \A x \in Task \ {t} : task'[x] = task[x]
    BY <2>2 DEF TInv, TasksOK
  <2>5. k \notin FlushRecord
    BY <2>3 DEF FlushRecord
  <2> QED
    BY <2>2, <2>3, <2>4, <2>5, OneGoesOn DEF Ended
<1>2. CASE IntentDurable(t)
  <2>1. /\ task' = [task EXCEPT ![t] = [task[t] EXCEPT !.pc = "lock"]] /\ task[t].pc = "intent"
        /\ UNCHANGED <<acked, flushed>>
    BY <1>2 DEF IntentDurable, histVars
  <2> QED
    BY <2>1, Kinds, MovesOn DEF TInv
<1>3. CASE StartPage(t)
  <2>1. task[t].pc \in {"page", "intent"}
    BY <1>3 DEF StartPage
  <2>2. PICK pc \in {"paging", "intending", "check"} :
          task' = [task EXCEPT ![t] = [task[t] EXCEPT !.pc = pc]] /\ (task[t].pc = "page" => pc # "intending")
    BY <1>3, <2>1 DEF StartPage
  <2>3. UNCHANGED <<acked, flushed>>
    BY <1>3 DEF StartPage
  <2>4. task[t] \in WriteRecord => ~ task[t].ok
    BY <2>1, Kinds DEF Promised, TInv, WriteRecord
  <2>5. task[t] \in WriteRecord \/ task[t] \in FlushRecord
    BY <2>1, Kinds DEF TInv
  <2> QED
    BY <2>1, <2>2, <2>3, <2>4, <2>5, MovesOn
<1>4. CASE StartFlush(t)
  <2> DEFINE k == [op |-> "flush", pc |-> "sync", todo |-> AttachedDevices, ok |-> TRUE, bad |-> {}, fresh |-> {}, owed |-> acked]
  <2>1. task' = [task EXCEPT ![t] = k] /\ UNCHANGED <<acked, flushed>>
    BY <1>4 DEF StartFlush, histVars
  <2>2. k.pc = "sync" /\ k.owed = acked
    OBVIOUS
  <2> HIDE DEF k
  <2>3. task'[t] = k /\ \A x \in Task \ {t} : task'[x] = task[x]
    BY <2>1 DEF TInv, TasksOK
  <2> QED
    BY <2>1, <2>2, <2>3, OneGoesOn DEF Ended
<1>5. CASE ClearIdle(t)
  <2>1. task[t] \in FlushRecord
    BY <1>5, Kinds DEF ClearIdle, TInv
  <2>2. PICK pc \in {"page", "check"} : task' = [task EXCEPT ![t] = [task[t] EXCEPT !.pc = pc]]
    BY <1>5 DEF ClearIdle
  <2>3. task[t] \notin WriteRecord /\ UNCHANGED <<acked, flushed>>
    BY <1>5, <2>1 DEF FlushRecord, WriteRecord, ClearIdle
  <2> QED
    BY <2>1, <2>2, <2>3, MovesOn
<1>6. CASE Check(t)
  <2>0. task[t].pc = "check"
    BY <1>6 DEF Check
  <2>1. CASE sbDirty
    <3>1. task' = [task EXCEPT ![t] = [task[t] EXCEPT !.pc = "persist"]] /\ UNCHANGED <<acked, flushed>>
      BY <1>6, <2>1 DEF Check
    <3>2. task[t] \in WriteRecord \/ task[t] \in FlushRecord \/ task[t] \in OtherRecord
      BY <2>0, Kinds DEF TInv, Idle
    <3> QED
      BY <2>0, <3>1, <3>2, MovesOn
  <2>2. CASE ~ sbDirty
    BY <1>6, <2>0, <2>2, AnswerPromised DEF Check
  <2> QED
    BY <2>1, <2>2
<1>7. CASE \E i \in Slot : ReadFails(t, i) \/ DriveReport(t, i)
  <2>1. PICK i \in Slot, op \in {"reads", "reports"}, missing \in BOOLEAN : FailOnRequest(t, i, op, missing)
    BY <1>7, Zenon DEF ReadFails, DriveReport
  <2> DEFINE k == [op |-> op, pc |-> "check", ok |-> TRUE]
  <2>2. task' = [task EXCEPT ![t] = k] /\ UNCHANGED <<acked, flushed>>
    BY <2>1 DEF FailOnRequest, histVars
  <2>3. k.pc = "check" /\ k.op \notin {"write", "flush"}
    OBVIOUS
  <2> HIDE DEF k
  <2>4. task'[t] = k /\ \A x \in Task \ {t} : task'[x] = task[x]
    BY <2>2 DEF TInv, TasksOK
  <2>5. k \notin FlushRecord
    BY <2>3 DEF FlushRecord
  <2> QED
    BY <2>2, <2>3, <2>4, <2>5, OneGoesOn DEF Ended
<1>8. CASE \E l \in Landings : SyncMember(t, l)
  <2>1. /\ task[t] \in FlushRecord /\ task'[t].pc = "sync" /\ task'[t].owed = task[t].owed
        /\ task' = [task EXCEPT ![t] = task'[t]]
    BY <1>8, SyncMemberTask
  <2>2. \A x \in Task \ {t} : task'[x] = task[x]
    BY <2>1 DEF TInv, TasksOK
  <2>3. UNCHANGED <<acked, flushed>>
    BY <1>8 DEF SyncMember, histVars
  <2> QED
    BY <2>1, <2>2, <2>3, OneGoesOn DEF Ended
<1> QED
  BY <1>1, <1>2, <1>3, <1>4, <1>5, <1>6, <1>7, <1>8 DEF CalmRequest

LEMMA LandingPromised ==
    ASSUME TInv, Promised, NEW t \in Task, LockRange(t) \/ Judge(t) \/ \E l \in task[t].todo : LandData(t, l)
    PROVE  Promised' /\ OwesStay
<1>1. CASE LockRange(t)
  <2> DEFINE n == ticket + 1
             todo == Targets(task[t].range)
             k == [task[t] EXCEPT !.pc = "land", !.v = n, !.todo = todo]
  <2>1. task[t] \in WriteRecord /\ UNCHANGED <<acked, flushed>>
    BY <1>1, Kinds DEF LockRange, TInv
  <2>2. task' = [task EXCEPT ![t] = k]
    BY <1>1, <2>1 DEF LockRange, WriteRecord, TInv, TasksOK
  <2> HIDE DEF n, todo
  <2>3. k.pc = "land" /\ k.op = "write"
    BY <2>1 DEF WriteRecord
  <2> HIDE DEF k
  <2>4. task'[t] = k /\ \A x \in Task \ {t} : task'[x] = task[x]
    BY <2>2 DEF TInv, TasksOK
  <2>5. k \notin FlushRecord
    BY <2>3 DEF FlushRecord
  <2> QED
    BY <2>1, <2>3, <2>4, <2>5, OneGoesOn DEF Ended
<1>2. ASSUME NEW l \in task[t].todo, LandData(t, l) PROVE Promised' /\ OwesStay
  <2>1. task'[t] \in WriteRecord /\ task'[t].pc = "land" /\ \A x \in Task \ {t} : task'[x] = task[x]
    BY <1>2, LandDataTask
  <2>2. task'[t] \notin FlushRecord /\ UNCHANGED <<acked, flushed>>
    BY <1>2, <2>1 DEF FlushRecord, WriteRecord, LandData, histVars
  <2> QED
    BY <2>1, <2>2, OneGoesOn DEF Ended
<1>3. CASE Judge(t)
  <2>1. /\ \A x \in Task \ {t} : task'[x] = task[x]
        /\ task'[t].pc \in {"land", "sync"} /\ task[t].pc \in {"land", "sync"}
        /\ task[t] \in WriteRecord => task'[t] \in WriteRecord
        /\ task[t] \in FlushRecord => task'[t].owed = task[t].owed
    BY <1>3, JudgeTask
  <2>2. task[t] \in WriteRecord \/ task[t] \in FlushRecord
    BY <2>1, Kinds DEF TInv
  <2>3. task'[t] \in FlushRecord => task[t] \in FlushRecord
    BY <2>1, <2>2 DEF FlushRecord, WriteRecord
  <2>4. UNCHANGED <<acked, flushed>>
    BY <1>3 DEF Judge, histVars
  <2> QED
    BY <2>1, <2>3, <2>4, OneGoesOn DEF Ended
<1> QED
  BY <1>1, <1>2, <1>3

LEMMA PagePromised == ASSUME TInv, Promised, JudgePage \/ CommitPage PROVE Promised' /\ OwesStay
<1>1. UNCHANGED <<acked, flushed>>
  BY DEF JudgePage, CommitPage, histVars
<1>2. CASE task' = task
  BY <1>1, <1>2, NothingAnswered
<1>3. PICK t \in Task : t = io.by /\ task[t].pc \in {"intending", "paging"}
  BY DEF JudgePage, CommitPage, TInv, PageOK, PageRecord
<1>4. /\ task[t].pc = "intending" => task[t] \in WriteRecord /\ ~ task[t].ok
      /\ task[t].pc = "paging" => task[t] \in FlushRecord /\ task[t] \notin WriteRecord
      /\ task[t].op = "write" => task[t].pc = "intending"
  BY <1>3, Kinds DEF TInv, Promised, FlushRecord, WriteRecord
<1>5. CASE JudgePage /\ task' # task
  <2>1. task' = [task EXCEPT ![t] = IF task[t].op = "write" THEN Idle ELSE [task[t] EXCEPT !.pc = "check"]]
    BY <1>3, <1>5 DEF JudgePage
  <2>2. CASE task[t].op = "write"
    <3>1. task'[t] = Idle /\ \A x \in Task \ {t} : task'[x] = task[x]
      BY <2>1, <2>2 DEF TInv, TasksOK
    <3>2. Idle.pc = "idle" /\ Idle \notin FlushRecord
      BY DEF Idle, FlushRecord
    <3> QED
      BY <1>1, <3>1, <3>2, OneGoesOn DEF Ended
  <2>3. CASE task[t].op # "write"
    <3>1. task' = [task EXCEPT ![t] = [task[t] EXCEPT !.pc = "check"]]
      BY <2>1, <2>3
    <3>2. task[t] \in FlushRecord /\ task[t] \notin WriteRecord
      BY <1>3, <1>4, <2>3 DEF WriteRecord
    <3> QED
      BY <1>1, <3>1, <3>2, MovesOn
  <2> QED
    BY <2>2, <2>3
<1>6. CASE CommitPage
  <2>1. PICK pc \in {"check", "intent"} : /\ task' = [task EXCEPT ![t] = [task[t] EXCEPT !.pc = pc]]
                                          /\ (task[t].pc = "paging" => pc = "check")
    BY <1>3, <1>6 DEF CommitPage
  <2> QED
    BY <1>1, <1>3, <1>4, <2>1, MovesOn
<1> QED
  BY <1>2, <1>5, <1>6

LEMMA RoundPromised ==
    ASSUME TInv, Promised, (\E c \in Callers : StartRound(c)) \/ EndRound PROVE Promised' /\ OwesStay
<1>1. CASE EndRound
  <2>1. CASE sbw.by \in Task
    <3>1. Answer(sbw.by) /\ task[sbw.by].pc = "round"
      BY <1>1, <2>1 DEF EndRound, TInv, RoundOK
    <3> QED
      BY <2>1, <3>1, AnswerPromised
  <2>2. CASE sbw.by \notin Task
    BY <1>1, <2>2, NothingAnswered DEF EndRound
  <2> QED
    BY <2>1, <2>2
<1>2. ASSUME NEW c \in Callers, StartRound(c) PROVE Promised' /\ OwesStay
  <2>0. UNCHANGED <<acked, flushed>>
    BY <1>2 DEF StartRound, histVars
  <2>1. CASE c \in Task
    <3>1. task[c].pc = "persist" /\ task' = [task EXCEPT ![c] = [task[c] EXCEPT !.pc = "round"]]
      BY <1>2, <2>1, TaskAssumption DEF StartRound, Wants
    <3>2. task[c] \in WriteRecord \/ task[c] \in FlushRecord \/ task[c] \in OtherRecord
      BY <2>1, <3>1, Kinds DEF TInv, Idle
    <3> QED
      BY <2>0, <2>1, <3>1, <3>2, MovesOn
  <2>2. CASE c \notin Task
    BY <1>2, <2>0, <2>2, NothingAnswered DEF StartRound
  <2> QED
    BY <2>1, <2>2
<1> QED
  BY <1>1, <1>2

\* What else answers nothing.
LEMMA OtherPromised ==
    ASSUME Promised,
           \/ \E l \in Landings : LandPage(l) \/ LandSb(l) \/ LandCopy(l)
           \/ JudgeSb \/ RepeatRound \/ Supervise \/ ZeroBitmap \/ \E d \in Drive : TakeSpare(d)
           \/ SpawnRebuild \/ CopyUnit \/ RaiseWatermark \/ CheckRebuild \/ FlushTargets \/ Activate
    PROVE  Promised' /\ OwesStay
<1>1. UNCHANGED <<task, acked, flushed>>
  BY DEF LandPage, LandSb, LandCopy, JudgeSb, RepeatRound, Supervise, ZeroBitmap, TakeSpare, SpawnRebuild, CopyUnit,
         RaiseWatermark, CheckRebuild, FlushTargets, Activate, histVars
<1> QED
  BY <1>1, NothingAnswered

\* A write that ends Ok is owed from then on.
LEMMA EndWritePromised ==
    ASSUME TInv, Promised, NEW t \in Task, EndWrite(t)
    PROVE  /\ Promised'
           /\ \A u \in Unit, x \in Nat : Owes(u, x)' =>
                Owes(u, x) \/ (task[t].ok /\ u \in task[t].range /\ x = task[t].v)
<1>1. UNCHANGED <<acked, flushed>>
  BY DEF EndWrite
<1>2. task'[t].pc = "check" /\ task'[t].v = task[t].v /\ task'[t].range = task[t].range /\ task'[t].ok = task[t].ok
      /\ task'[t] \in WriteRecord
  <2>1. task[t] \in WriteRecord /\ task'[t] = [task[t] EXCEPT !.pc = "check"] /\ task'[t] \in WriteRecord
    BY EndWriteTask
  <2> QED
    BY <2>1 DEF WriteRecord
<1>3. ASSUME NEW x \in Task \ {t}
      PROVE  \/ task'[x] = task[x]
             \/ /\ task[x] \in FlushRecord /\ task'[x] \in FlushRecord /\ task'[x].owed = task[x].owed
                /\ task'[x].pc = task[x].pc
  BY EndWriteTask
<1>4. Promised'
  <2>1. ASSUME NEW x \in Task, task'[x] \in FlushRecord, NEW u \in Unit PROVE task'[x].owed[u] <= acked[u]
    <3>1. x # t
      BY <1>2, <2>1 DEF FlushRecord, WriteRecord
    <3> QED
      BY <1>3, <2>1, <3>1 DEF Promised
  <2>2. ASSUME NEW x \in Task, task'[x].pc \in {"intent", "intending", "lock"} PROVE ~ task'[x].ok
    <3>1. x # t
      BY <1>2, <2>2
    <3>2. task'[x] = task[x]
      BY <1>3, <2>2, <3>1 DEF FlushRecord
    <3> QED
      BY <2>2, <3>2 DEF Promised
  <2> QED
    BY <1>1, <2>1, <2>2 DEF Promised
<1>5. \A x \in Task \ {t} : Ended(x)' => Ended(x) /\ task'[x] = task[x]
  <2> SUFFICES ASSUME NEW x \in Task \ {t}, Ended(x)' PROVE Ended(x) /\ task'[x] = task[x]
    OBVIOUS
  <2>1. task'[x] \notin FlushRecord
    BY DEF Ended, FlushRecord
  <2> QED
    BY <1>3, <2>1 DEF Ended
<1> QED
  BY <1>1, <1>2, <1>4, <1>5 DEF Owes, Ended

-----------------------------------------------------------------------------
(* A step of a set that is up                                               *)

LEMMA OwedStays == ASSUME OwedInv, Promised', OwesStay, KeptStays, Recent' PROVE OwedInv'
  BY DEF OwedInv, OwesStay, KeptStays

LEMMA StillOwed ==
    ASSUME TInv, DataInv, OwedInv, StillStep, Promised', OwesStay PROVE DataInv' /\ OwedInv'
<1>1. DataInv' /\ KeptStays
  BY Still
<1>2. Recent'
  BY DEF OwedInv, Recent, StillStep, LandsStay
<1> QED
  BY <1>1, <1>2, OwedStays

LEMMA SameOwed ==
    ASSUME OwedInv, UNCHANGED <<task, ticket>>, Promised', OwesStay, DataInv', KeptStays PROVE DataInv' /\ OwedInv'
<1>1. Recent'
  BY DEF OwedInv, Recent, Land
<1> QED
  BY <1>1, OwedStays

LEMMA LandingOwed ==
    ASSUME TInv, DataInv, OwedInv, NEW t \in Task, LockRange(t) \/ Judge(t) \/ \E l \in task[t].todo : LandData(t, l)
    PROVE  DataInv' /\ OwedInv'
<1>1. Promised' /\ OwesStay
  BY LandingPromised DEF OwedInv
<1>2. DataInv' /\ KeptStays
  BY LockRangeData, JudgeData, LandDataData
<1>3. Recent'
  <2> USE DEF OwedInv, Recent
  <2>1. CASE LockRange(t)
    <3> DEFINE n == ticket + 1
               todo == Targets(task[t].range)
               k == [task[t] EXCEPT !.pc = "land", !.v = n, !.todo = todo]
    <3>1. task[t] \in WriteRecord /\ ticket' = n /\ ticket \in Nat
      BY <2>1, Kinds DEF LockRange, TInv, HistOK
    <3>2. task' = [task EXCEPT ![t] = k]
      BY <2>1, <3>1 DEF LockRange, WriteRecord, TInv, TasksOK
    <3>3. n \in Nat /\ \A m \in Nat : m <= ticket => m <= n
      BY <3>1
    <3> HIDE DEF n, todo
    <3>4. k.v = n
      BY <3>1 DEF WriteRecord
    <3> HIDE DEF k
    <3>5. task'[t] = k /\ \A x \in Task \ {t} : task'[x] = task[x]
      BY <3>2 DEF TInv, TasksOK
    <3>6. \A x \in Task : Land(x) => task[x].v \in Nat
      BY Kinds DEF TInv, Land, WriteRecord
    <3>7. \A x \in Task : Land(x)' => task'[x].v <= ticket'
      BY <3>1, <3>3, <3>4, <3>5, <3>6 DEF Land
    <3> QED
      BY <3>7
  <2>2. CASE Judge(t)
    <3>1. task[t].pc = "land" => task'[t].v = task[t].v
      BY <2>2, JudgeTask, Kinds DEF TInv
    <3>2. task'[t].pc = task[t].pc /\ ticket' = ticket /\ \A x \in Task \ {t} : task'[x] = task[x]
      BY <2>2, JudgeTask DEF Judge, histVars
    <3> QED
      BY <3>1, <3>2 DEF Land
  <2>3. ASSUME NEW l \in task[t].todo, LandData(t, l) PROVE Recent'
    <3>1. task'[t].v = task[t].v /\ task[t].pc = "land" /\ \A x \in Task \ {t} : task'[x] = task[x]
      BY <2>3, LandDataTask
    <3>2. ticket' = ticket
      BY <2>3 DEF LandData, histVars
    <3> QED
      BY <3>1, <3>2 DEF Land
  <2> QED
    BY <2>1, <2>2, <2>3
<1> QED
  BY <1>1, <1>2, <1>3, OwedStays

LEMMA EndWriteOwed == ASSUME TInv, DataInv, OwedInv, NEW t \in Task, EndWrite(t) PROVE DataInv' /\ OwedInv'
<1>1. task[t].pc = "land" /\ ticket' = ticket /\ task[t].v <= ticket
  BY DEF EndWrite, OwedInv, Recent, Land
<1>2. /\ DataInv' /\ KeptStays
      /\ task[t].ok => \A u \in task[t].range, x \in Nat : x = task[t].v => Kept(u, x)'
  BY <1>1, EndWriteData
<1>3. /\ Promised'
      /\ \A u \in Unit, x \in Nat : Owes(u, x)' =>
            Owes(u, x) \/ (task[t].ok /\ u \in task[t].range /\ x = task[t].v)
  BY EndWritePromised DEF OwedInv
<1>4. Recent'
  <2> SUFFICES ASSUME NEW x \in Task, Land(x)' PROVE task'[x].v <= ticket'
    BY DEF Recent
  <2>1. x # t
    <3>1. task[t] \in WriteRecord /\ task'[t] = [task[t] EXCEPT !.pc = "check"]
      BY EndWriteTask
    <3>2. task'[t].pc = "check"
      BY <3>1 DEF WriteRecord
    <3> QED
      BY <3>2 DEF Land
  <2>2. task'[x] = task[x]
    <3>1. \/ task'[x] = task[x]
          \/ task[x] \in FlushRecord /\ task'[x].pc = task[x].pc
      BY <2>1, EndWriteTask
    <3> QED
      BY <3>1 DEF Land, FlushRecord
  <2> QED
    BY <1>1, <2>2 DEF OwedInv, Recent, Land
<1> QED
  BY <1>2, <1>3, <1>4 DEF OwedInv, KeptStays

LEMMA UpStep ==
    ASSUME TInv, ForRebuild, PlaceInv, DataInv, OwedInv, phase = "up", [Next]_vars, ~ PowerCut, OneSpare'
    PROVE  DataInv' /\ OwedInv'
<1>1. ASSUME NEW t \in Task, CalmRequest(t) PROVE DataInv' /\ OwedInv'
  BY <1>1, CalmStill, CalmPromised, StillOwed DEF OwedInv
<1>2. ASSUME NEW t \in Task, LockRange(t) \/ Judge(t) \/ \E l \in task[t].todo : LandData(t, l) PROVE DataInv' /\ OwedInv'
  BY <1>2, LandingOwed
<1>3. ASSUME NEW t \in Task, EndWrite(t) PROVE DataInv' /\ OwedInv'
  BY <1>3, EndWriteOwed
<1>4. CASE JudgePage \/ CommitPage \/ \E l \in Landings : LandPage(l)
  <2>1. Promised' /\ OwesStay
    BY <1>4, PagePromised, OtherPromised DEF OwedInv
  <2> QED
    BY <1>4, <2>1, PageStill, StillOwed
<1>5. CASE (\E c \in Callers : StartRound(c)) \/ EndRound \/ JudgeSb \/ RepeatRound \/ \E l \in Landings : LandSb(l)
  <2>1. Promised' /\ OwesStay
    BY <1>5, RoundPromised, OtherPromised DEF OwedInv
  <2> QED
    BY <1>5, <2>1, RoundStill, StillOwed
<1>6. CASE Supervise \/ ZeroBitmap
  <2>1. Promised' /\ OwesStay
    BY <1>6, OtherPromised DEF OwedInv
  <2> QED
    BY <1>6, <2>1, SupervisorStill, StillOwed
<1>7. CASE CheckRebuild \/ FlushTargets
  <2>1. Promised' /\ OwesStay
    BY <1>7, OtherPromised DEF OwedInv
  <2> QED
    BY <1>7, <2>1, RebuildStill, StillOwed
<1>8. CASE \/ (\E d \in Drive : TakeSpare(d)) \/ SpawnRebuild \/ CopyUnit \/ (\E l \in Landings : LandCopy(l))
           \/ RaiseWatermark \/ Activate
  <2>1. Promised' /\ OwesStay
    BY <1>8, OtherPromised DEF OwedInv
  <2>2. DataInv' /\ KeptStays
    BY <1>8, TakeSpareData, SpawnData, CopyUnitData, LandCopyData, WatermarkData, ActivateData
  <2>3. UNCHANGED <<task, ticket>>
    BY <1>8 DEF TakeSpare, SpawnRebuild, CopyUnit, LandCopy, RaiseWatermark, Activate, histVars
  <2> QED
    BY <2>1, <2>2, <2>3, SameOwed
<1>9. ASSUME NEW F \in SUBSET Drive, Assemble(F) PROVE FALSE
  BY <1>9 DEF Assemble
<1>10. CASE UNCHANGED vars
  <2>1. StillStep
    BY <1>10, AllStay DEF vars, StillStep, OnlyFails, ReadsStay, CopyStays
  <2>2. Promised' /\ OwesStay
    BY <1>10, NothingAnswered DEF vars, OwedInv
  <2> QED
    BY <2>1, <2>2, StillOwed
<1> QED
  BY <1>1, <1>2, <1>3, <1>4, <1>5, <1>6, <1>7, <1>8, <1>9, <1>10, Zenon DEF Next, CalmRequest

\* The set is up until the power is cut, and a cut is counted.
NoCut == spent["cuts"] = 0

LEMMA SpentStep ==
    ASSUME [Next]_vars
    PROVE  \/ UNCHANGED spent \/ (\E e \in Event : Spend(e)) \/ \E F \in SUBSET Drive : Assemble(F)
<1> USE DEF Event
<1>1. ASSUME NEW t \in Task, NEW r \in Ranges, BeginWrite(t, r) PROVE \E e \in Event : Spend(e)
  BY <1>1 DEF BeginWrite
<1>2. ASSUME NEW t \in Task, IntentDurable(t) \/ StartPage(t) \/ LockRange(t) \/ Judge(t) \/ EndWrite(t) \/ ClearIdle(t) \/ Check(t)
      PROVE  UNCHANGED spent
  BY <1>2 DEF IntentDurable, StartPage, LockRange, Judge, EndWrite, ClearIdle, Check
<1>3. ASSUME NEW t \in Task, StartFlush(t) PROVE \E e \in Event : Spend(e)
  BY <1>3 DEF StartFlush
<1>4. ASSUME NEW t \in Task, NEW i \in Slot, ReadFails(t, i) \/ DriveReport(t, i) PROVE \E e \in Event : Spend(e)
  BY <1>4 DEF ReadFails, DriveReport, FailOnRequest
<1>5. ASSUME NEW t \in Task, NEW l, LandData(t, l) \/ SyncMember(t, l) PROVE UNCHANGED spent \/ \E e \in Event : Spend(e)
  BY <1>5 DEF LandData, SyncMember
<1>6. ASSUME NEW l \in Landings, LandPage(l) \/ LandSb(l) \/ LandCopy(l) PROVE UNCHANGED spent \/ \E e \in Event : Spend(e)
  BY <1>6 DEF LandPage, LandSb, LandCopy
<1>7. CASE JudgePage \/ CommitPage \/ JudgeSb \/ RepeatRound \/ EndRound \/ (\E c \in Callers : StartRound(c)) \/ Supervise
  BY <1>7 DEF JudgePage, CommitPage, JudgeSb, RepeatRound, EndRound, StartRound, Supervise
<1>8. CASE ZeroBitmap \/ (\E d \in Drive : TakeSpare(d)) \/ CopyUnit \/ FlushTargets \/ PowerCut
  BY <1>8 DEF ZeroBitmap, TakeSpare, CopyUnit, FlushTargets, PowerCut
<1>9. CASE SpawnRebuild \/ RaiseWatermark \/ CheckRebuild \/ Activate
  BY <1>9 DEF SpawnRebuild, RaiseWatermark, CheckRebuild, Activate
<1>10. CASE UNCHANGED vars
  BY <1>10 DEF vars
<1> QED
  BY <1>1, <1>2, <1>3, <1>4, <1>5, <1>6, <1>7, <1>8, <1>9, <1>10, Zenon DEF Next

LEMMA SpentGrows == ASSUME TInv, [Next]_vars PROVE \A e \in Event : spent'[e] >= spent[e]
<1>1. spent \in [Event -> Nat]
  BY DEF TInv, HistOK
<1>2. ASSUME NEW e \in Event, Spend(e) PROVE \A x \in Event : spent'[x] >= spent[x]
  <2>1. spent'[e] = spent[e] + 1 /\ \A x \in Event \ {e} : spent'[x] = spent[x]
    BY <1>2, SpendTyped DEF TInv
  <2> QED
    BY <1>1, <2>1
<1>3. ASSUME NEW F \in SUBSET Drive, Assemble(F) PROVE \A x \in Event : spent'[x] >= spent[x]
  <2>1. spent' = [spent EXCEPT !["absences"] = IF F = Drive THEN spent["absences"] ELSE spent["absences"] + 1]
    BY <1>3 DEF Assemble
  <2> QED
    BY <1>1, <2>1 DEF Event
<1>4. CASE UNCHANGED spent
  BY <1>1, <1>4
<1> QED
  BY <1>2, <1>3, <1>4, SpentStep

LEMMA BudgetsHold == ASSUME TInv, [Next]_vars PROVE (OneSpare' => OneSpare) /\ (NoCut' => NoCut /\ ~ PowerCut)
<1>1. spent'["spares"] >= spent["spares"] /\ spent'["cuts"] >= spent["cuts"]
  BY SpentGrows DEF Event
<1>2. spent["spares"] \in Nat /\ spent["cuts"] \in Nat /\ spent'["spares"] \in Nat /\ spent'["cuts"] \in Nat
  BY NextTypes DEF TInv, HistOK, Event
<1>3. PowerCut => spent'["cuts"] = spent["cuts"] + 1
  BY SpendTyped DEF PowerCut, TInv, Event
<1> QED
  BY <1>1, <1>2, <1>3 DEF OneSpare, NoCut

LEMMA StaysUp == ASSUME phase = "up", [Next]_vars, ~ PowerCut PROVE phase' = "up"
<1>1. CASE UNCHANGED phase
  BY <1>1
<1>2. CASE RequestStep
  BY <1>1, <1>2, RequestLeaves
<1>3. ASSUME NEW t \in Task, NEW l, LandData(t, l) PROVE phase' = "up"
  BY <1>3 DEF LandData
<1>4. ASSUME NEW l \in Landings, LandPage(l) \/ LandSb(l) \/ LandCopy(l) PROVE phase' = "up"
  BY <1>4 DEF LandPage, LandSb, LandCopy
<1>5. CASE JudgePage \/ CommitPage \/ JudgeSb \/ RepeatRound \/ EndRound \/ Supervise
  BY <1>5 DEF JudgePage, CommitPage, JudgeSb, RepeatRound, EndRound, Supervise
<1>6. ASSUME NEW c \in Callers, StartRound(c) PROVE phase' = "up"
  BY <1>6 DEF StartRound, Wants
<1>7. CASE ZeroBitmap \/ (\E d \in Drive : TakeSpare(d)) \/ CopyUnit \/ FlushTargets
  BY <1>7 DEF ZeroBitmap, TakeSpare, CopyUnit, FlushTargets
<1>8. CASE SpawnRebuild \/ RaiseWatermark \/ CheckRebuild \/ Activate
  BY <1>8 DEF SpawnRebuild, RaiseWatermark, CheckRebuild, Activate
<1>9. ASSUME NEW F \in SUBSET Drive, Assemble(F) PROVE FALSE
  BY <1>9 DEF Assemble
<1>10. CASE UNCHANGED vars
  BY <1>10 DEF vars
<1> QED
  BY <1>2, <1>3, <1>4, <1>5, <1>6, <1>7, <1>8, <1>9, <1>10, Zenon DEF Next, RequestStep

LEMMA InitData == Init => ForRebuild /\ DataInv /\ OwedInv
<1> SUFFICES ASSUME Init PROVE ForRebuild /\ DataInv /\ OwedInv
  OBVIOUS
<1>1. /\ io = None /\ sbw = None /\ rb = NoRebuild /\ torn = {} /\ ticket = 1
      /\ latest = [u \in Unit |-> 1] /\ acked = latest /\ flushed = latest
      /\ \A t \in Task : task[t] = Idle
  BY DEF Init
<1>2. \A t \in Task : task[t].pc = "idle" /\ ~ Land(t) /\ ~ Ended(t) /\ task[t] \notin FlushRecord
  BY <1>1 DEF Idle, Land, Ended, FlushRecord
<1>3. rb.pc = "idle" /\ rb.targets = {} /\ rb.copies = {}
  BY <1>1, IdleRebuild
<1>4. \A i \in Slot : members[i].here /\ members[i].state = "Active" /\ members[i].id = Home[i]
  BY DEF Init
<1>5. \A i \in Slot, u \in Unit : ReadAs(i, u) = 1
  <2> SUFFICES ASSUME NEW i \in Slot, NEW u \in Unit PROVE ReadAs(i, u) = 1
    OBVIOUS
  <2>1. Home[i] \in Drive /\ Home[i] \notin pool
    BY HomeAssumption DEF Init
  <2>2. data[Home[i]][u] = Durable(1)
    BY <2>1 DEF Init
  <2> QED
    BY <1>4, <2>2 DEF ReadAs, Durable
<1>6. Agree /\ LandInv
  BY <1>1, <1>2, <1>5 DEF Agree, LandInv, PartsInRange, Apart, OffTheCopy, Landed, Land
<1>7. RebuildInv
  BY <1>3, <1>4 DEF RebuildInv
<1>8. Promised /\ Recent
  BY <1>1, <1>2 DEF Promised, Recent
<1>9. ASSUME NEW u \in Unit, NEW x \in Nat, Owes(u, x) PROVE Kept(u, x)
  <2>1. x = 1
    BY <1>1, <1>2, <1>9 DEF Owes
  <2> QED
    BY <1>1, <1>2, <1>3, <1>5, <2>1 DEF Kept
<1> QED
  BY <1>1, <1>6, <1>7, <1>8, <1>9 DEF ForRebuild, DataInv, OwedInv

-----------------------------------------------------------------------------
(* What the superblocks say                                                 *)

\* A description on a drive, or on its way to one.
Described(n) == (\E d \in Drive : sb[d] # None /\ n = sb[d]) \/ (sbw # None /\ n = sbw.desc)

\* Two descriptions with the same counter name the same drives in the same states,
\* and the older one's rebuilds are no further.
Repeats(n, m) ==
    n.events = m.events => \A i \in Slot :
        /\ n.slots[i].id = m.slots[i].id /\ n.slots[i].state = m.slots[i].state
        /\ n.slots[i].state = "Rebuilding" => n.slots[i].to <= m.slots[i].to

\* A drive that is still in its slot and not failed holds what a description says
\* it holds; the spare stays where it is.
Follows(n, i) ==
    /\ members[i].id = n.slots[i].id /\ members[i].state # "Failed" =>
         /\ n.slots[i].state = "Active" => members[i].state = "Active"
         /\ n.slots[i].state = "Rebuilding" => members[i].state = "Active" \/ members[i].to >= n.slots[i].to
    /\ ~ Orig(n.slots[i].id) => members[i].id = n.slots[i].id

\* No description is ahead of the slot table, nor of the round being written; the
\* round's names no drive that has since failed, unless the table says it changed.
Table ==
    /\ \A n : Described(n) => /\ n.events <= events /\ Repeats(n, Description)
                              /\ sbw # None => n.events <= sbw.desc.events
                              /\ \A i \in Slot : Follows(n, i)
    /\ sbw # None => \A d \in Drive : sb[d] # None => Repeats(sb[d], sbw.desc)
    /\ sbw # None /\ ~ sbDirty => \A i \in Slot : sbw.desc.slots[i].state # "Failed" =>
         members[i].id = sbw.desc.slots[i].id /\ members[i].state # "Failed"

\* How the slot table changes while the set is up.
Forward(i) ==
    /\ members'[i].id = members[i].id
    /\ \/ members'[i].state = "Failed"
       \/ members'[i].state = "Active" /\ members[i].state # "Failed"
       \/ members'[i].state = "Rebuilding" /\ members[i].state = "Rebuilding" /\ members'[i].to >= members[i].to
GrowStep ==
    /\ events' >= events
    /\ events' > events \/ \A i \in Slot : members'[i].id = members[i].id /\ members'[i].state = members[i].state
    /\ \A i \in Slot : Forward(i) \/ (members[i].state = "Failed" /\ ~ Orig(members'[i].id) /\ spent["spares"] = 0)
    /\ ~ sbDirty' => ~ sbDirty /\ \A i \in Slot : members[i].state # "Failed" => members'[i].state # "Failed"

LEMMA DescribedTyped == ASSUME TInv, NEW n, Described(n) PROVE n \in Desc /\ n.events \in Nat /\ \A i \in Slot : n.slots[i] \in Record
<1>1. n \in Desc
  BY DEF Described, TInv, MediaOK, RoundOK, RoundRecord
<1> QED
  BY <1>1 DEF Desc

LEMMA RecordTyped ==
    ASSUME NEW r \in Record PROVE r.id \in Drive /\ r.state \in State /\ r.to \in Nat
  BY SizesAssumption DEF Record

LEMMA DescriptionSays ==
    ASSUME NEW i \in Slot
    PROVE  /\ Description.slots[i].id = members[i].id /\ Description.slots[i].state = members[i].state
           /\ Description.slots[i].to = members[i].to /\ Description.events = events
  BY DEF Description

LEMMA MemberTyped == ASSUME TInv, NEW i \in Slot PROVE members[i].id \in Drive /\ members[i].to \in Nat /\ members[i].state \in State
  BY SizesAssumption DEF TInv, SetOK, Member

\* A description is about drives that are in their places.
LEMMA DescribedPlaces == ASSUME TInv, PlaceInv, NEW n, Described(n) PROVE SlotsOK(n.slots)
  BY DEF Described, PlaceInv

LEMMA FollowsStays ==
    ASSUME TInv, TInv', PlaceInv, GrowStep, NEW n, Described(n), NEW i \in Slot, Follows(n, i) PROVE Follows(n, i)'
<1>1. CASE Forward(i)
  <2>1. members[i].to \in Nat /\ members'[i].to \in Nat /\ n.slots[i].to \in Nat /\ n.slots[i].state \in State
    BY MemberTyped, DescribedTyped, RecordTyped DEF TInv, SetOK, Member
  <2>2. members'[i].id = members[i].id
    BY <1>1 DEF Forward
  <2>3. ASSUME members'[i].id = n.slots[i].id, members'[i].state # "Failed", n.slots[i].state = "Active"
        PROVE  members'[i].state = "Active"
    <3>1. members[i].state # "Failed"
      BY <1>1, <2>3 DEF Forward
    <3>2. members[i].state = "Active"
      BY <2>2, <2>3, <3>1 DEF Follows
    <3> QED
      BY <1>1, <2>3, <3>2 DEF Forward
  <2>4. ASSUME members'[i].id = n.slots[i].id, members'[i].state # "Failed", n.slots[i].state = "Rebuilding",
               members'[i].state # "Active"
        PROVE  members'[i].to >= n.slots[i].to
    <3>1. members[i].state = "Rebuilding" /\ members'[i].to >= members[i].to
      BY <1>1, <2>4 DEF Forward
    <3>2. members[i].to >= n.slots[i].to
      BY <2>2, <2>4, <3>1 DEF Follows
    <3> QED
      BY <2>1, <3>1, <3>2
  <2> QED
    BY <2>2, <2>3, <2>4 DEF Follows, Orig
<1>2. CASE ~ Orig(members'[i].id) /\ spent["spares"] = 0
  <2>1. Orig(n.slots[i].id)
    BY <1>2, DescribedPlaces DEF SlotsOK
  <2> QED
    BY <1>2, <2>1 DEF Follows, Orig
<1> QED
  BY <1>1, <1>2 DEF GrowStep

\* The slot table moves on, and a drive may get the description of the round.
LEMMA TableGrows ==
    ASSUME TInv, TInv', PlaceInv, Table, GrowStep,
           \A d \in Drive : sb'[d] = sb[d] \/ (sbw # None /\ sb'[d] = sbw.desc),
           sbw' # None => sbw # None /\ sbw'.desc = sbw.desc
    PROVE  Table'
<1>1. \A n : Described(n)' => Described(n)
  BY DEF Described
<1>2. events \in Nat /\ events' \in Nat
  BY DEF TInv, SetOK
<1>3. ASSUME NEW n, Described(n)
      PROVE  n.events <= events' /\ Repeats(n, Description') /\ \A i \in Slot : Follows(n, i)'
  <2>1. n.events \in Nat /\ n.events <= events /\ Repeats(n, Description) /\ \A i \in Slot : Follows(n, i)
    BY <1>3, DescribedTyped DEF Table
  <2>2. n.events <= events'
    BY <1>2, <2>1 DEF GrowStep
  <2>3. Repeats(n, Description')
    <3> SUFFICES ASSUME n.events = Description'.events, NEW i \in Slot
                 PROVE  /\ n.slots[i].id = Description'.slots[i].id /\ n.slots[i].state = Description'.slots[i].state
                        /\ n.slots[i].state = "Rebuilding" => n.slots[i].to <= Description'.slots[i].to
      BY DEF Repeats
    <3>0. Description'.events = events' /\ events' >= events
      BY DEF Description, GrowStep
    <3>1. n.events = events' /\ events' = events
      BY <1>2, <2>1, <3>0
    <3>2. members'[i].id = members[i].id /\ members'[i].state = members[i].state
      BY <1>2, <3>1 DEF GrowStep
    <3>3. /\ n.slots[i].id = members[i].id /\ n.slots[i].state = members[i].state
          /\ n.slots[i].state = "Rebuilding" => n.slots[i].to <= members[i].to
      BY <2>1, <3>1, DescriptionSays DEF Repeats
    <3>4. members[i].state = "Rebuilding" => members'[i].to >= members[i].to
      BY <3>2 DEF GrowStep, Forward
    <3>5. members[i].to \in Nat /\ members'[i].to \in Nat /\ n.slots[i].to \in Nat
      BY <1>3, MemberTyped, DescribedTyped, RecordTyped DEF TInv, SetOK, Member
    <3>6. /\ Description'.slots[i].id = members'[i].id /\ Description'.slots[i].state = members'[i].state
          /\ Description'.slots[i].to = members'[i].to
      BY DEF Description
    <3> QED
      BY <3>2, <3>3, <3>4, <3>5, <3>6
  <2>4. \A i \in Slot : Follows(n, i)'
    BY <1>3, <2>1, FollowsStays
  <2> QED
    BY <2>2, <2>3, <2>4
<1>4. ASSUME sbw' # None, NEW d \in Drive, sb'[d] # None PROVE Repeats(sb'[d], sbw'.desc)
  <2>1. Described(sbw.desc) /\ sbw'.desc = sbw.desc /\ sbw # None
    BY <1>4 DEF Described
  <2>2. \A i \in Slot : sbw.desc.slots[i].to \in Nat
    BY <2>1, DescribedTyped, RecordTyped
  <2>3. Repeats(sbw.desc, sbw.desc)
    BY <2>2 DEF Repeats
  <2> QED
    BY <1>4, <2>1, <2>3 DEF Table
<1>5. ASSUME sbw' # None, ~ sbDirty', NEW i \in Slot, sbw'.desc.slots[i].state # "Failed"
      PROVE  members'[i].id = sbw'.desc.slots[i].id /\ members'[i].state # "Failed"
  <2>1. members[i].id = sbw.desc.slots[i].id /\ members[i].state # "Failed" /\ sbw'.desc = sbw.desc
    BY <1>5 DEF Table, GrowStep
  <2> QED
    BY <1>5, <2>1 DEF GrowStep, Forward
<1>6. ASSUME NEW n, Described(n)' PROVE sbw' # None => n.events <= sbw'.desc.events
  BY <1>1, <1>6 DEF Table
<1> QED
  BY <1>1, <1>3, <1>4, <1>5, <1>6 DEF Table

\* A round begins with the slot table as it is.
LEMMA TableDescribed ==
    ASSUME TInv, TInv', Table, UNCHANGED <<sb, members, events>>, sbw'.desc = Description PROVE Table'
<1>1. \A n : Described(n)' => Described(n) \/ n = Description
  BY DEF Described
<1>2. Description' = Description /\ events \in Nat
  BY DEF Description, TInv, SetOK
<1>3. \A i \in Slot : members[i].to \in Nat
  BY MemberTyped
<1>4. Repeats(Description, Description)
  BY <1>3, DescriptionSays DEF Repeats
<1>5. \A i \in Slot : Follows(Description, i)
  BY <1>3, DescriptionSays DEF Follows
<1>6. Description.events = events
  BY DEF Description
<1>7. ASSUME NEW n, Described(n)'
      PROVE  n.events <= events /\ Repeats(n, Description) /\ \A i \in Slot : Follows(n, i)
  <2>1. CASE Described(n)
    BY <2>1 DEF Table
  <2>2. CASE n = Description
    BY <1>2, <1>4, <1>5, <1>6, <2>2
  <2> QED
    BY <1>1, <1>7, <2>1, <2>2
<1>8. \A n, i : Follows(n, i)' <=> Follows(n, i)
  BY DEF Follows, Orig
<1>9. ASSUME NEW d \in Drive, sb'[d] # None PROVE Repeats(sb'[d], Description)
  BY <1>9 DEF Table, Described
<1>10. \A i \in Slot : Description.slots[i].state # "Failed" =>
          members'[i].id = Description.slots[i].id /\ members'[i].state # "Failed"
  BY DescriptionSays
<1> QED
  BY <1>2, <1>6, <1>7, <1>8, <1>9, <1>10 DEF Table

-----------------------------------------------------------------------------
(* How the slot table changes                                               *)

\* A step of a set that is up leaves the table alone, fails a member that may be
\* failed or the spare whose bitmap could not be zeroed, or is one of five others.
TableStep ==
    \/ UNCHANGED memVars
    \/ \E i \in Slot, missing \in BOOLEAN :
          FailMember(i, missing) /\ UNCHANGED <<phase, pool>> /\ (Failable(i) \/ (ZeroBitmap /\ i = sup.slot))
    \/ (\E c \in Callers : StartRound(c)) \/ RepeatRound
    \/ (\E d \in Drive : TakeSpare(d)) \/ RaiseWatermark \/ Activate

LEMMA TableSteps == ASSUME TInv, phase = "up", [Next]_vars, ~ PowerCut PROVE TableStep
<1> USE DEF TableStep
<1>1. ASSUME NEW t \in Task, NEW r \in Ranges, BeginWrite(t, r) PROVE TableStep
  BY <1>1 DEF BeginWrite
<1>2. ASSUME NEW t \in Task, IntentDurable(t) \/ StartPage(t) \/ LockRange(t) \/ EndWrite(t) \/ StartFlush(t) \/ ClearIdle(t) \/ Check(t)
      PROVE  TableStep
  BY <1>2 DEF IntentDurable, StartPage, LockRange, EndWrite, StartFlush, ClearIdle, Check
<1>3. ASSUME NEW t \in Task, Judge(t) PROVE TableStep
  <2>1. task[t].bad \subseteq Slot /\ (UNCHANGED memVars \/ \E i \in task[t].bad : Failable(i) /\ FailMember(i, FALSE))
    BY <1>3, JudgeTask
  <2>2. UNCHANGED <<phase, pool>>
    BY <1>3 DEF Judge
  <2> QED
    BY <2>1, <2>2
<1>4. ASSUME NEW t \in Task, NEW i \in Slot, ReadFails(t, i) \/ DriveReport(t, i) PROVE TableStep
  <2>1. \E op \in {"reads", "reports"}, missing \in BOOLEAN : FailOnRequest(t, i, op, missing)
    BY <1>4, Zenon DEF ReadFails, DriveReport
  <2> QED
    BY <2>1 DEF FailOnRequest
<1>5. ASSUME NEW t \in Task, NEW l, LandData(t, l) \/ SyncMember(t, l) PROVE TableStep
  BY <1>5 DEF LandData, SyncMember
<1>6. ASSUME NEW l \in Landings, LandPage(l) \/ LandSb(l) PROVE TableStep
  BY <1>6 DEF LandPage, LandSb
<1>7. ASSUME NEW l \in Landings, LandCopy(l) PROVE TableStep
  BY <1>7 DEF LandCopy, Landings
<1>8. CASE JudgePage
  <2>1. io.bad \subseteq Slot
    BY <1>8 DEF JudgePage, TInv, PageOK, PageRecord
  <2>2. io.bad # {} => Min(io.bad) \in Slot
    BY <2>1, LeastSlot
  <2> QED
    BY <1>8, <2>2 DEF JudgePage
<1>9. CASE CommitPage \/ EndRound \/ Supervise \/ SpawnRebuild \/ CheckRebuild
  BY <1>9 DEF CommitPage, EndRound, Supervise, SpawnRebuild, CheckRebuild
<1>10. CASE JudgeSb
  <2>1. sbw.bad \subseteq Slot /\ sbw.bad # {}
    BY <1>10, JudgeSbRound
  <2>2. Min(sbw.bad) \in Slot
    BY <2>1, LeastSlot
  <2> QED
    BY <1>10, <2>2 DEF JudgeSb
<1>11. CASE ZeroBitmap
  <2>1. sup.slot \in Slot /\ (UNCHANGED memVars \/ FailMember(sup.slot, FALSE))
    BY <1>11, BitmapZeroed
  <2>2. UNCHANGED <<phase, pool>>
    BY <1>11 DEF ZeroBitmap
  <2> QED
    BY <1>11, <2>1, <2>2
<1>12. CASE CopyUnit
  <2>1. UNCHANGED <<phase, pool>>
    BY <1>12 DEF CopyUnit
  <2>2. UNCHANGED memVars \/ \E i \in Slot : Failable(i) /\ FailMember(i, FALSE)
    BY <1>12 DEF CopyUnit
  <2> QED
    BY <2>1, <2>2
<1>13. CASE FlushTargets
  <2>1. UNCHANGED <<phase, pool>> /\ rb.targets \subseteq Slot
    BY <1>13 DEF FlushTargets, TInv, RebuildOK, RebuildRecord
  <2>2. UNCHANGED memVars \/ \E i \in rb.targets : Failable(i) /\ FailMember(i, FALSE)
    BY <1>13 DEF FlushTargets
  <2> QED
    BY <2>1, <2>2
<1>14. ASSUME NEW F \in SUBSET Drive, Assemble(F) PROVE FALSE
  BY <1>14 DEF Assemble
<1>15. CASE UNCHANGED vars
  BY <1>15 DEF vars, memVars
<1> QED
  BY <1>1, <1>2, <1>3, <1>4, <1>5, <1>6, <1>7, <1>8, <1>9, <1>10, <1>11, <1>12, <1>13, <1>14, <1>15, Zenon DEF Next

\* The table grows with every step that does not begin a round.
LEMMA TableStepGrows ==
    ASSUME TInv, TInv', PlaceInv, OneSpare', TableStep
    PROVE  GrowStep \/ (\E c \in Callers : StartRound(c)) \/ RepeatRound
<1> USE DEF GrowStep
<1>0. /\ events \in Nat /\ \A i \in Slot : members[i] \in Member /\ members[i].to \in Nat /\ members[i].state \in State
      /\ members' \in [Slot -> Member] /\ members \in [Slot -> Member]
  BY SizesAssumption DEF TInv, SetOK, Member
<1>1. ASSUME NEW i \in Slot, members'[i] = members[i] PROVE Forward(i)
  BY <1>0, <1>1 DEF Forward, State
<1>2. CASE UNCHANGED memVars
  BY <1>0, <1>1, <1>2 DEF memVars
<1>3. ASSUME NEW i \in Slot, NEW missing \in BOOLEAN, FailMember(i, missing), UNCHANGED <<phase, pool>> PROVE GrowStep
  <2>1. /\ \A j \in Slot \ {i} : members'[j] = members[j]
        /\ members'[i].state = "Failed" /\ members'[i].id = members[i].id /\ events' = events + 1 /\ sbDirty'
    BY <1>3, FailTyped DEF TInv
  <2>2. Forward(i)
    BY <2>1 DEF Forward
  <2>3. \A j \in Slot : Forward(j)
    BY <1>1, <2>1, <2>2
  <2> QED
    BY <1>0, <2>1, <2>3
<1>4. ASSUME NEW d \in Drive, TakeSpare(d) PROVE GrowStep
  <2>1. PICK i \in Slot :
             /\ members[i].state = "Failed" /\ d \in pool
             /\ \A j \in Slot \ {i} : members'[j] = members[j]
             /\ members'[i] = [id |-> d, here |-> TRUE, state |-> "Rebuilding", to |-> 0, missing |-> FALSE, at |-> 0]
             /\ events' = events + 1 /\ spent'["spares"] = spent["spares"] + 1
    BY <1>4, SpareTaken
  <2>2. sbDirty' = sbDirty
    BY <1>4 DEF TakeSpare
  <2>3. ~ Orig(d) /\ spent["spares"] = 0
    <3>1. spent["spares"] \in Nat
      BY DEF TInv, HistOK, Event
    <3> QED
      BY <2>1, <3>1 DEF PlaceInv, OneSpare
  <2>4. members'[i].id = d
    BY <2>1
  <2>5. \A j \in Slot : Forward(j) \/ (members[j].state = "Failed" /\ ~ Orig(members'[j].id) /\ spent["spares"] = 0)
    BY <1>1, <2>1, <2>3, <2>4
  <2>6. \A j \in Slot : members[j].state # "Failed" => members'[j].state # "Failed"
    BY <2>1
  <2> QED
    BY <1>0, <2>1, <2>2, <2>5, <2>6
<1>5. CASE RaiseWatermark
  <2>1. /\ \A i \in Slot : Behind(i) => members'[i] = [members[i] EXCEPT !.to = rb.key + 1]
        /\ \A i \in Slot : ~ Behind(i) => members'[i] = members[i]
    BY <1>5, WatermarkRaised
  <2>2. events' = events /\ sbDirty' = sbDirty /\ rb.key \in Nat
    BY <1>5, SizesAssumption DEF RaiseWatermark, TInv, RebuildOK, RebuildRecord
  <2>3. ASSUME NEW i \in Slot PROVE Forward(i) /\ members'[i].id = members[i].id /\ members'[i].state = members[i].state
    <3>1. CASE ~ Behind(i)
      BY <1>1, <2>1, <3>1
    <3>2. CASE Behind(i)
      <4>1. members[i].state = "Rebuilding" /\ members[i].to <= rb.key
        BY <3>2 DEF Behind, Rebuilding
      <4>2. members'[i].id = members[i].id /\ members'[i].state = members[i].state /\ members'[i].to = rb.key + 1
        BY <1>0, <2>1, <3>2 DEF Member
      <4>3. members'[i].to >= members[i].to
        BY <1>0, <2>2, <4>1, <4>2
      <4> QED
        BY <4>1, <4>2, <4>3 DEF Forward
    <3> QED
      BY <3>1, <3>2
  <2> QED
    BY <1>0, <2>2, <2>3
<1>6. CASE Activate
  <2>1. /\ \A i \in Slot : i \in rb.targets \cap Rebuilding
             => members'[i] = [members[i] EXCEPT !.state = "Active", !.to = 0]
        /\ \A i \in Slot : i \notin rb.targets \cap Rebuilding => members'[i] = members[i]
        /\ events' = events + 1
    BY <1>6, Activated
  <2>2. sbDirty' = sbDirty
    BY <1>6 DEF Activate
  <2>3. ASSUME NEW i \in Slot PROVE Forward(i) /\ (members[i].state # "Failed" => members'[i].state # "Failed")
    <3>1. CASE i \notin rb.targets \cap Rebuilding
      BY <1>1, <2>1, <3>1
    <3>2. CASE i \in rb.targets \cap Rebuilding
      <4>1. members'[i].id = members[i].id /\ members'[i].state = "Active"
        BY <1>0, <2>1, <3>2 DEF Member
      <4>2. members[i].state = "Rebuilding"
        BY <3>2 DEF Rebuilding
      <4> QED
        BY <4>1, <4>2 DEF Forward
    <3> QED
      BY <3>1, <3>2
  <2>0. events' = events + 1 /\ events \in Nat
    BY <1>6 DEF Activate, TInv, SetOK
  <2>4. events' >= events /\ events' > events
    BY <2>0
  <2>5. \A i \in Slot : Forward(i)
    BY <2>3
  <2>6. \A i \in Slot : members[i].state # "Failed" => members'[i].state # "Failed"
    BY <2>3
  <2> QED
    BY <2>2, <2>4, <2>5, <2>6
<1> QED
  BY <1>2, <1>3, <1>4, <1>5, <1>6 DEF TableStep

\* Some member serves: the last is not failed, and the spare whose bitmap is being
\* zeroed is not rebuilt yet.
Serves == \E i \in Slot : Serving(members[i])
ZeroInv ==
    /\ sup.pc = "zero" => rb.pc = "idle" /\ members[sup.slot].state # "Active"
    /\ spent["spares"] = 0 => rb.pc = "idle"

LEMMA ServesStays == ASSUME TInv, ZeroInv, Serves, TableStep PROVE Serves'
<1> USE DEF Serves
<1>0. PICK i \in Slot : Serving(members[i])
  OBVIOUS
<1>1. CASE members'[i] = members[i]
  BY <1>0, <1>1 DEF Serving
<1>2. CASE UNCHANGED memVars
  BY <1>1, <1>2 DEF memVars
<1>3. ASSUME NEW j \in Slot, NEW missing \in BOOLEAN, FailMember(j, missing), UNCHANGED <<phase, pool>>,
             Failable(j) \/ (ZeroBitmap /\ j = sup.slot)
      PROVE  Serves'
  <2>1. \A k \in Slot \ {j} : members'[k] = members[k]
    BY <1>3, FailTyped DEF TInv
  <2>2. CASE i # j
    BY <1>1, <2>1, <2>2
  <2>3. CASE i = j /\ Failable(j)
    <3>1. PICK k \in Slot \ {j} : Serving(members[k])
      BY <1>0, <2>3 DEF Failable, CanLose, Serving
    <3> QED
      BY <2>1, <3>1 DEF Serving
  <2>4. CASE i = j /\ ZeroBitmap /\ j = sup.slot
    BY <1>0, <2>4 DEF ZeroInv, ZeroBitmap, Serving
  <2> QED
    BY <1>3, <2>2, <2>3, <2>4
<1>4. CASE (\E c \in Callers : StartRound(c)) \/ RepeatRound
  BY <1>1, <1>4 DEF StartRound, RepeatRound
<1>5. ASSUME NEW d \in Drive, TakeSpare(d) PROVE Serves'
  <2>1. PICK j \in Slot : members[j].state = "Failed" /\ \A k \in Slot \ {j} : members'[k] = members[k]
    BY <1>5, SpareTaken
  <2> QED
    BY <1>0, <1>1, <2>1 DEF Serving
<1>6. CASE RaiseWatermark
  <2>1. ~ Behind(i)
    BY <1>0 DEF Behind, Rebuilding, Serving
  <2> QED
    BY <1>1, <1>6, <2>1, WatermarkRaised
<1>7. CASE Activate
  <2>1. i \notin rb.targets \cap Rebuilding
    BY <1>0 DEF Rebuilding, Serving
  <2> QED
    BY <1>1, <1>7, <2>1, Activated
<1> QED
  BY <1>2, <1>3, <1>4, <1>5, <1>6, <1>7 DEF TableStep

\* A rebuild that is idle begins only with a slot to rebuild and the supervisor idle.
LEMMA IdleStays ==
    ASSUME TInv, ForRebuild, phase = "up", [Next]_vars, ~ PowerCut, rb.pc = "idle"
    PROVE  rb'.pc = "idle" \/ (SpawnRebuild /\ sup.pc = "idle" /\ Rebuilding # {})
<1>1. CASE UNCHANGED rb
  BY <1>1
<1>2. CASE RequestStep
  BY <1>1, <1>2, RequestLeaves
<1>3. ASSUME NEW t \in Task, NEW l, LandData(t, l) PROVE rb'.pc = "idle"
  BY <1>3 DEF LandData
<1>4. ASSUME NEW l \in Landings, LandPage(l) \/ LandSb(l) \/ LandCopy(l) PROVE rb'.pc = "idle"
  BY <1>4 DEF LandPage, LandSb, LandCopy
<1>5. CASE JudgePage \/ CommitPage \/ JudgeSb \/ RepeatRound \/ Supervise \/ ZeroBitmap \/ \E d \in Drive : TakeSpare(d)
  BY <1>5 DEF JudgePage, CommitPage, JudgeSb, RepeatRound, Supervise, ZeroBitmap, TakeSpare
<1>6. CASE EndRound
  <2>1. sbw.by # "rebuild"
    BY <1>6 DEF EndRound, ForRebuild
  <2> QED
    BY <1>6, <2>1 DEF EndRound
<1>7. ASSUME NEW c \in Callers, StartRound(c) PROVE rb'.pc = "idle"
  <2>1. c # "rebuild"
    BY <1>7 DEF StartRound, Wants
  <2> QED
    BY <1>7, <2>1 DEF StartRound
<1>8. CASE SpawnRebuild
  BY <1>8 DEF SpawnRebuild
<1>9. CASE CopyUnit \/ RaiseWatermark \/ CheckRebuild \/ FlushTargets \/ Activate
  BY <1>9 DEF CopyUnit, RaiseWatermark, CheckRebuild, FlushTargets, Activate
<1>10. ASSUME NEW F \in SUBSET Drive, Assemble(F) PROVE FALSE
  BY <1>10 DEF Assemble
<1>11. CASE UNCHANGED vars
  BY <1>11 DEF vars
<1> QED
  BY <1>2, <1>3, <1>4, <1>5, <1>6, <1>7, <1>8, <1>9, <1>10, <1>11, Zenon DEF Next, RequestStep

\* The supervisor zeroes a bitmap only where it has just put a spare.
LEMMA ZeroStays ==
    ASSUME TInv, phase = "up", [Next]_vars, ~ PowerCut, sup'.pc = "zero"
    PROVE  (\E d \in Drive : TakeSpare(d)) \/ (sup' = sup /\ ~ ZeroBitmap)
<1>0. Supervise \/ ZeroBitmap => FALSE
  <2>1. Supervise \/ ZeroBitmap => sup' = [pc |-> "persist"]
    BY DEF Supervise, ZeroBitmap
  <2> QED
    BY <2>1
<1>1. CASE UNCHANGED sup
  BY <1>0, <1>1
<1>2. CASE RequestStep
  BY <1>1, <1>2, RequestLeaves
<1>3. ASSUME NEW t \in Task, NEW l, LandData(t, l) PROVE UNCHANGED sup
  BY <1>3 DEF LandData
<1>4. ASSUME NEW l \in Landings, LandPage(l) \/ LandSb(l) \/ LandCopy(l) PROVE UNCHANGED sup
  BY <1>4 DEF LandPage, LandSb, LandCopy
<1>5. CASE JudgePage \/ CommitPage \/ JudgeSb \/ RepeatRound
  BY <1>1, <1>5 DEF JudgePage, CommitPage, JudgeSb, RepeatRound
<1>7. CASE EndRound
  BY <1>1, <1>7 DEF EndRound
<1>8. ASSUME NEW c \in Callers, StartRound(c) PROVE UNCHANGED sup
  <2>1. CASE c # "supervisor"
    BY <1>8, <2>1 DEF StartRound
  <2>2. CASE c = "supervisor"
    <3>1. sup.pc = "persist" /\ sup' = [sup EXCEPT !.pc = "round"]
      BY <1>8, <2>2 DEF StartRound, Wants
    <3> QED
      BY <3>1
  <2> QED
    BY <2>1, <2>2
<1>9. CASE SpawnRebuild \/ CopyUnit \/ RaiseWatermark \/ CheckRebuild \/ FlushTargets \/ Activate
  BY <1>1, <1>9 DEF SpawnRebuild, CopyUnit, RaiseWatermark, CheckRebuild, FlushTargets, Activate
<1>10. ASSUME NEW F \in SUBSET Drive, Assemble(F) PROVE FALSE
  BY <1>10 DEF Assemble
<1>11. CASE UNCHANGED vars
  BY <1>1, <1>11 DEF vars
<1> QED
  BY <1>0, <1>1, <1>2, <1>3, <1>4, <1>5, <1>7, <1>8, <1>9, <1>10, <1>11, Zenon DEF Next, RequestStep

LEMMA ZeroStep ==
    ASSUME TInv, ForRebuild, DataInv, phase = "up", [Next]_vars, ~ PowerCut, OneSpare', ZeroInv PROVE ZeroInv'
<1>0. spent["spares"] \in Nat /\ spent'["spares"] \in Nat /\ spent'["spares"] >= spent["spares"]
  BY NextTypes, SpentGrows DEF TInv, HistOK, Event
<1>1. ASSUME spent'["spares"] = 0 PROVE rb'.pc = "idle"
  <2>1. spent["spares"] = 0 /\ rb.pc = "idle"
    BY <1>0, <1>1 DEF ZeroInv
  <2>2. Rebuilding = {}
    BY <2>1 DEF DataInv, RebuildInv, Rebuilding
  <2> QED
    BY <2>1, <2>2, IdleStays
<1>2. ASSUME sup'.pc = "zero" PROVE rb'.pc = "idle" /\ members'[sup'.slot].state # "Active"
  <2>1. ASSUME NEW d \in Drive, TakeSpare(d) PROVE rb'.pc = "idle" /\ members'[sup'.slot].state # "Active"
    <3>1. PICK i \in Slot :
             /\ members'[i] = [id |-> d, here |-> TRUE, state |-> "Rebuilding", to |-> 0, missing |-> FALSE, at |-> 0]
             /\ sup' = [pc |-> "zero", slot |-> i] /\ spent'["spares"] = spent["spares"] + 1
      BY <2>1, SpareTaken
    <3>2. spent["spares"] = 0 /\ rb' = rb
      BY <1>0, <2>1, <3>1 DEF OneSpare, TakeSpare
    <3> QED
      BY <3>1, <3>2 DEF ZeroInv
  <2>2. CASE sup' = sup /\ ~ ZeroBitmap
    <3>1. rb.pc = "idle" /\ members[sup.slot].state # "Active" /\ sup.slot \in Slot /\ sup.pc = "zero"
      BY <1>2, <2>2 DEF ZeroInv, TInv, SupOK
    <3>2. rb'.pc = "idle"
      BY <3>1, IdleStays
    <3>3. members'[sup.slot].state # "Active"
      <4>1. TableStep
        BY TableSteps
      <4>2. ASSUME NEW j \in Slot, NEW missing \in BOOLEAN, FailMember(j, missing), UNCHANGED <<phase, pool>>
            PROVE  members'[sup.slot].state # "Active"
        <5>1. members'[j].state = "Failed" /\ \A k \in Slot \ {j} : members'[k] = members[k]
          BY <4>2, FailTyped DEF TInv
        <5> QED
          BY <3>1, <5>1
      <4>3. CASE (\E c \in Callers : StartRound(c)) \/ RepeatRound
        BY <3>1, <4>3 DEF StartRound, RepeatRound
      <4>4. ~ RaiseWatermark /\ ~ Activate /\ \A d \in Drive : ~ TakeSpare(d)
        BY <3>1 DEF RaiseWatermark, Activate, TakeSpare
      <4> QED
        BY <3>1, <4>1, <4>2, <4>3, <4>4 DEF TableStep, memVars
    <3> QED
      BY <2>2, <3>2, <3>3
  <2> QED
    BY <1>2, <2>1, <2>2, ZeroStays
<1> QED
  BY <1>1, <1>2 DEF ZeroInv

-----------------------------------------------------------------------------
(* The superblocks and the answers                                          *)

\* The steps that write superblocks; no other touches them, the round or, but for
\* an answer, what was answered.
SbStep ==
    \/ (\E c \in Callers : StartRound(c)) \/ RepeatRound \/ EndRound \/ JudgeSb \/ \E l \in Landings : LandSb(l)

LEMMA RecordSteps ==
    ASSUME phase = "up", [Next]_vars, ~ PowerCut
    PROVE  UNCHANGED <<sb, sbw, acked>> \/ (\E t \in Task : Check(t)) \/ SbStep
<1> USE DEF SbStep
<1>1. ASSUME NEW t \in Task, NEW r \in Ranges, BeginWrite(t, r) PROVE UNCHANGED <<sb, sbw, acked>>
  BY <1>1 DEF BeginWrite, mediaVars
<1>2. ASSUME NEW t \in Task, IntentDurable(t) \/ StartPage(t) \/ LockRange(t) \/ Judge(t) \/ EndWrite(t)
      PROVE  UNCHANGED <<sb, sbw, acked>>
  BY <1>2 DEF IntentDurable, StartPage, LockRange, Judge, EndWrite, mediaVars, histVars
<1>3. ASSUME NEW t \in Task, StartFlush(t) \/ ClearIdle(t) PROVE UNCHANGED <<sb, sbw, acked>>
  BY <1>3 DEF StartFlush, ClearIdle, mediaVars, histVars
<1>4. ASSUME NEW t \in Task, NEW i \in Slot, ReadFails(t, i) \/ DriveReport(t, i) PROVE UNCHANGED <<sb, sbw, acked>>
  BY <1>4 DEF ReadFails, DriveReport, FailOnRequest, mediaVars, histVars
<1>5. ASSUME NEW t \in Task, NEW l, LandData(t, l) \/ SyncMember(t, l) PROVE UNCHANGED <<sb, sbw, acked>>
  BY <1>5 DEF LandData, SyncMember, histVars
<1>6. ASSUME NEW l \in Landings, LandPage(l) \/ LandCopy(l) PROVE UNCHANGED <<sb, sbw, acked>>
  BY <1>6 DEF LandPage, LandCopy, histVars
<1>7. CASE JudgePage \/ CommitPage \/ Supervise \/ ZeroBitmap \/ \E d \in Drive : TakeSpare(d)
  BY <1>7 DEF JudgePage, CommitPage, Supervise, ZeroBitmap, TakeSpare, mediaVars, histVars
<1>8. CASE SpawnRebuild \/ CopyUnit \/ RaiseWatermark \/ CheckRebuild \/ FlushTargets \/ Activate
  BY <1>8 DEF SpawnRebuild, CopyUnit, RaiseWatermark, CheckRebuild, FlushTargets, Activate, mediaVars, histVars
<1>9. ASSUME NEW F \in SUBSET Drive, Assemble(F) PROVE FALSE
  BY <1>9 DEF Assemble
<1>10. CASE UNCHANGED vars
  BY <1>10 DEF vars
<1> QED
  BY <1>1, <1>2, <1>3, <1>4, <1>5, <1>6, <1>7, <1>8, <1>9, <1>10, Zenon DEF Next

\* What a behaviour was excused for stays.
LEMMA ExcusedGrows == ASSUME [Next]_vars PROVE excused \subseteq excused'
<1>1. ASSUME NEW t \in Task, NEW r \in Ranges, BeginWrite(t, r) PROVE excused \subseteq excused'
  BY <1>1 DEF BeginWrite, Excuse
<1>2. ASSUME NEW t \in Task, IntentDurable(t) \/ StartPage(t) \/ LockRange(t) \/ Judge(t) \/ EndWrite(t)
      PROVE  excused \subseteq excused'
  BY <1>2 DEF IntentDurable, StartPage, LockRange, Judge, EndWrite, histVars, Excuse
<1>3. ASSUME NEW t \in Task, StartFlush(t) \/ ClearIdle(t) \/ Check(t) PROVE excused \subseteq excused'
  BY <1>3 DEF StartFlush, ClearIdle, Check, histVars, Excuse
<1>4. ASSUME NEW t \in Task, NEW i \in Slot, ReadFails(t, i) \/ DriveReport(t, i) PROVE excused \subseteq excused'
  BY <1>4 DEF ReadFails, DriveReport, FailOnRequest, histVars
<1>5. ASSUME NEW t \in Task, NEW l, LandData(t, l) \/ SyncMember(t, l) PROVE excused \subseteq excused'
  BY <1>5 DEF LandData, SyncMember, histVars
<1>6. ASSUME NEW l \in Landings, LandPage(l) \/ LandSb(l) \/ LandCopy(l) PROVE excused \subseteq excused'
  BY <1>6 DEF LandPage, LandSb, LandCopy, histVars
<1>7. CASE JudgePage \/ CommitPage \/ JudgeSb \/ RepeatRound \/ EndRound \/ (\E c \in Callers : StartRound(c))
  BY <1>7 DEF JudgePage, CommitPage, JudgeSb, RepeatRound, EndRound, StartRound, histVars, Excuse
<1>8. CASE Supervise \/ ZeroBitmap \/ (\E d \in Drive : TakeSpare(d)) \/ PowerCut \/ \E F \in SUBSET Drive : Assemble(F)
  BY <1>8 DEF Supervise, ZeroBitmap, TakeSpare, PowerCut, Assemble, histVars
<1>9. CASE SpawnRebuild \/ CopyUnit \/ RaiseWatermark \/ CheckRebuild \/ FlushTargets \/ Activate
  BY <1>9 DEF SpawnRebuild, CopyUnit, RaiseWatermark, CheckRebuild, FlushTargets, Activate, histVars
<1>10. CASE UNCHANGED vars
  BY <1>10 DEF vars
<1> QED
  BY <1>1, <1>2, <1>3, <1>4, <1>5, <1>6, <1>7, <1>8, <1>9, <1>10, Zenon DEF Next

\* A round that is over without an error has reached a drive, or is repeated.
RoundReaches ==
    sbw # None => sbw.err \/ sbw.again \/ sbw.bad # {} \/ sbw.todo # {} \/ \E d \in Drive : sb[d] = sbw.desc

LEMMA RoundLands ==
    ASSUME TInv, NEW l \in Landings, LandSb(l)
    PROVE  /\ sbw # None /\ sbw'.desc = sbw.desc /\ sbw'.by = sbw.by /\ UNCHANGED <<task, acked>>
           /\ \/ sb' = [sb EXCEPT ![l.drive] = sbw.desc]
              \/ sbw'.bad # {} /\ UNCHANGED sb
<1>1. sbw # None /\ sbw \in RoundRecord /\ UNCHANGED <<task, acked>>
  BY DEF LandSb, TInv, RoundOK, histVars
<1>2. CASE sb' = [sb EXCEPT ![l.drive] = sbw.desc] /\ sbw' = [sbw EXCEPT !.todo = @ \ {l}]
  <2>1. sbw' \in RoundRecord /\ sbw'.desc = sbw.desc /\ sbw'.by = sbw.by
    BY <1>1, <1>2 DEF RoundRecord
  <2> QED
    BY <1>1, <1>2, <2>1 DEF RoundRecord
<1>3. CASE sbw' = [sbw EXCEPT !.todo = @ \ {l}, !.bad = @ \cup {l.slot}] /\ UNCHANGED sb
  <2>1. sbw'.desc = sbw.desc /\ sbw'.by = sbw.by /\ l.slot \in sbw'.bad
    BY <1>1, <1>3 DEF RoundRecord
  <2> QED
    BY <1>1, <1>3, <2>1 DEF RoundRecord
<1> QED
  BY <1>2, <1>3 DEF LandSb, mediaVars

LEMMA ReachesStep ==
    ASSUME TInv, Serves, phase = "up", [Next]_vars, ~ PowerCut, RoundReaches PROVE RoundReaches'
<1> USE DEF RoundReaches
<1>1. CASE UNCHANGED <<sb, sbw>>
  BY <1>1
<1>2. ASSUME NEW t \in Task, Check(t) PROVE UNCHANGED <<sb, sbw>>
  BY <1>2 DEF Check, mediaVars
<1>3. ASSUME NEW c, Round(c) PROVE RoundReaches'
  <2>1. sbw'.todo = AttachedDevices
    BY <1>3 DEF Round
  <2>2. AttachedDevices # {}
    <3>1. PICK i \in Slot : Serving(members[i])
      BY DEF Serves
    <3> QED
      BY <3>1 DEF AttachedDevices, Attached, Serving
  <2> QED
    BY <2>1, <2>2
<1>4. CASE (\E c \in Callers : StartRound(c)) \/ RepeatRound
  BY <1>3, <1>4 DEF StartRound, RepeatRound
<1>5. CASE EndRound
  BY <1>5 DEF EndRound
<1>6. CASE JudgeSb
  BY <1>6, JudgeSbRound
<1>7. ASSUME NEW l \in Landings, LandSb(l) PROVE RoundReaches'
  <2>1. l.drive \in Drive /\ sb \in [Drive -> Desc \cup {None}]
    BY DEF Landings, TInv, MediaOK
  <2> QED
    BY <1>7, <2>1, RoundLands
<1> QED
  BY <1>1, <1>2, <1>4, <1>5, <1>6, <1>7, RecordSteps DEF SbStep

\* Whoever waits for a round waits until it is over.
LEMMA CalmAlone ==
    ASSUME TInv, NEW t \in Task, CalmRequest(t)
    PROVE  task[t].pc # "round" /\ \A x \in Task \ {t} : task'[x] = task[x]
<1>0. ASSUME NEW r, task' = [task EXCEPT ![t] = r] PROVE \A x \in Task \ {t} : task'[x] = task[x]
  BY <1>0 DEF TInv, TasksOK
<1>1. CASE \E r \in Ranges : BeginWrite(t, r)
  <2>1. PICK r \in Ranges : BeginWrite(t, r)
    BY <1>1
  <2> DEFINE pc == IF r \subseteq durable THEN "lock" ELSE "intent"
             k == [op |-> "write", range |-> r, ok |-> FALSE, bad |-> {}, todo |-> {}, pc |-> pc, v |-> 0]
  <2>2. task' = [task EXCEPT ![t] = k] /\ task[t] = Idle
    BY <2>1 DEF BeginWrite
  <2> QED
    BY <1>0, <2>2 DEF Idle
<1>2. CASE IntentDurable(t)
  <2>1. task' = [task EXCEPT ![t] = [task[t] EXCEPT !.pc = "lock"]] /\ task[t].pc = "intent"
    BY <1>2 DEF IntentDurable
  <2> QED
    BY <1>0, <2>1
<1>3. CASE StartPage(t)
  <2>1. task[t].pc \in {"page", "intent"}
    BY <1>3 DEF StartPage
  <2>2. PICK pc \in {"paging", "intending", "check"} : task' = [task EXCEPT ![t] = [task[t] EXCEPT !.pc = pc]]
    BY <1>3, <2>1 DEF StartPage
  <2> QED
    BY <1>0, <2>1, <2>2
<1>4. CASE StartFlush(t)
  BY <1>4 DEF StartFlush, TInv, TasksOK, Idle
<1>5. CASE ClearIdle(t)
  <2>1. PICK pc \in {"page", "check"} : task' = [task EXCEPT ![t] = [task[t] EXCEPT !.pc = pc]]
    BY <1>5 DEF ClearIdle
  <2>2. task[t].pc = "sync"
    BY <1>5 DEF ClearIdle
  <2> QED
    BY <1>0, <2>1, <2>2
<1>6. CASE Check(t)
  <2>0. task[t].pc = "check"
    BY <1>6 DEF Check
  <2>1. CASE sbDirty
    <3>1. task' = [task EXCEPT ![t] = [task[t] EXCEPT !.pc = "persist"]]
      BY <1>6, <2>1 DEF Check
    <3> QED
      BY <1>0, <2>0, <3>1
  <2>2. CASE ~ sbDirty
    <3>1. Answer(t)
      BY <1>6, <2>2 DEF Check
    <3> QED
      BY <2>0, <3>1, Answered
  <2> QED
    BY <2>1, <2>2
<1>7. CASE \E i \in Slot : ReadFails(t, i) \/ DriveReport(t, i)
  <2>1. PICK i \in Slot, op \in {"reads", "reports"}, missing \in BOOLEAN : FailOnRequest(t, i, op, missing)
    BY <1>7, Zenon DEF ReadFails, DriveReport
  <2>2. task' = [task EXCEPT ![t] = [op |-> op, pc |-> "check", ok |-> TRUE]] /\ task[t] = Idle
    BY <2>1 DEF FailOnRequest
  <2> QED
    BY <1>0, <2>2 DEF Idle
<1>8. CASE \E l \in Landings : SyncMember(t, l)
  <2>1. task' = [task EXCEPT ![t] = task'[t]] /\ task[t].pc = "sync"
    BY <1>8, SyncMemberTask
  <2> QED
    BY <1>0, <2>1
<1> QED
  BY <1>1, <1>2, <1>3, <1>4, <1>5, <1>6, <1>7, <1>8 DEF CalmRequest

LEMMA RoundWaits ==
    ASSUME TInv, phase = "up", [Next]_vars, ~ PowerCut, ~ EndRound, NEW x \in Task, task[x].pc = "round"
    PROVE  task'[x] = task[x] \/ task'[x].op = "flush"
<1>0. ASSUME NEW t \in Task, task[t].pc # "round", \A y \in Task \ {t} : task'[y] = task[y] PROVE task'[x] = task[x]
  BY <1>0
<1>1. ASSUME NEW t \in Task, CalmRequest(t) PROVE task'[x] = task[x]
  BY <1>0, <1>1, CalmAlone
<1>2. ASSUME NEW t \in Task, LockRange(t) PROVE task'[x] = task[x]
  <2>1. /\ task[t].pc = "lock"
        /\ task' = [task EXCEPT ![t] = [task[t] EXCEPT !.pc = "land", !.v = ticket + 1, !.todo = Targets(task[t].range)]]
    BY <1>2 DEF LockRange
  <2> QED
    BY <2>1 DEF TInv, TasksOK
<1>3. ASSUME NEW t \in Task, Judge(t) PROVE task'[x] = task[x]
  BY <1>0, <1>3, JudgeTask
<1>4. ASSUME NEW t \in Task, NEW l, LandData(t, l) PROVE task'[x] = task[x]
  BY <1>0, <1>4, LandDataTask
<1>5. ASSUME NEW t \in Task, EndWrite(t) PROVE task'[x] = task[x] \/ task'[x].op = "flush"
  <2>1. task[t].pc = "land" /\ x # t
    BY <1>5 DEF EndWrite
  <2>2. CASE x \in Running("flush")
    <3>1. task[x] \in FlushRecord
      BY <2>2, Kinds DEF TInv, Running, WriteRecord, OtherRecord
    <3>2. task'[x] = [task[x] EXCEPT !.fresh = @ \cup task[t].range]
      BY <1>5, <2>1, <2>2 DEF EndWrite
    <3> QED
      BY <3>1, <3>2 DEF FlushRecord
  <2>3. CASE x \notin Running("flush")
    BY <1>5, <2>1, <2>3 DEF EndWrite
  <2> QED
    BY <2>2, <2>3
<1>6. CASE JudgePage \/ CommitPage
  <2>0. PICK t \in Task : t = io.by /\ task[t].pc \in {"intending", "paging"}
    BY <1>6 DEF JudgePage, CommitPage, TInv, PageOK, PageRecord
  <2>1. CASE CommitPage
    <3>1. PICK pc \in {"check", "intent"} : task' = [task EXCEPT ![t] = [task[t] EXCEPT !.pc = pc]]
      BY <2>0, <2>1 DEF CommitPage
    <3> QED
      BY <2>0, <3>1 DEF TInv, TasksOK
  <2>2. CASE JudgePage
    <3> DEFINE r == IF task[t].op = "write" THEN Idle ELSE [task[t] EXCEPT !.pc = "check"]
    <3>1. task' = [task EXCEPT ![t] = r] \/ task' = task
      BY <2>0, <2>2 DEF JudgePage
    <3> HIDE DEF r
    <3> QED
      BY <2>0, <3>1 DEF TInv, TasksOK
  <2> QED
    BY <1>6, <2>1, <2>2
<1>7. ASSUME NEW c \in Callers, StartRound(c) PROVE task'[x] = task[x]
  <2>1. CASE c \in Task
    <3>1. task[c].pc = "persist" /\ task' = [task EXCEPT ![c] = [task[c] EXCEPT !.pc = "round"]]
      BY <1>7, <2>1, TaskAssumption DEF StartRound, Wants
    <3> QED
      BY <2>1, <3>1 DEF TInv, TasksOK
  <2>2. CASE c \notin Task
    BY <1>7, <2>2 DEF StartRound
  <2> QED
    BY <2>1, <2>2
<1>8. ASSUME NEW l \in Landings, LandPage(l) \/ LandSb(l) \/ LandCopy(l) PROVE task' = task
  BY <1>8 DEF LandPage, LandSb, LandCopy
<1>9. CASE JudgeSb \/ RepeatRound \/ Supervise \/ ZeroBitmap \/ \E d \in Drive : TakeSpare(d)
  BY <1>9 DEF JudgeSb, RepeatRound, Supervise, ZeroBitmap, TakeSpare
<1>10. CASE SpawnRebuild \/ CopyUnit \/ RaiseWatermark \/ CheckRebuild \/ FlushTargets \/ Activate
  BY <1>10 DEF SpawnRebuild, CopyUnit, RaiseWatermark, CheckRebuild, FlushTargets, Activate
<1>11. ASSUME NEW F \in SUBSET Drive, Assemble(F) PROVE FALSE
  BY <1>11 DEF Assemble
<1>12. CASE UNCHANGED vars
  BY <1>12 DEF vars
<1> QED
  BY <1>1, <1>2, <1>3, <1>4, <1>5, <1>6, <1>7, <1>8, <1>9, <1>10, <1>11, <1>12, Zenon DEF Next, CalmRequest

-----------------------------------------------------------------------------
(* What a restart would read                                                *)

\* A unit that is no older than what its members owe stays so, on any drive.
LEMMA FloorStep ==
    ASSUME TInv, ForRebuild, DataInv, phase = "up", [Next]_vars, ~ PowerCut,
           NEW d \in Drive, NEW u \in Unit, NEW x \in Nat, Kept(u, x), data[d][u].cur >= x
    PROVE  data'[d][u].cur >= x
<1>1. CASE data'[d][u].cur = data[d][u].cur
  BY <1>1
<1>2. CASE StillStep \/ UNCHANGED data
  BY <1>1, <1>2 DEF StillStep, ReadsStay
<1>3. ASSUME NEW t \in Task, CalmRequest(t) PROVE data'[d][u].cur >= x
  BY <1>2, <1>3, CalmStill
<1>4. ASSUME NEW t \in Task, LockRange(t) \/ Judge(t) \/ EndWrite(t) PROVE data'[d][u].cur >= x
  BY <1>2, <1>4 DEF LockRange, Judge, EndWrite, mediaVars
<1>5. ASSUME NEW t \in Task, NEW l, LandData(t, l) PROVE data'[d][u].cur >= x
  <2>1. Land(t) /\ l.part \subseteq task[t].range
    BY <1>5, LandDataTask DEF Land, DataInv, LandInv, PartsInRange
  <2>2. data'[d][u].cur = data[d][u].cur \/ (data'[d][u].cur = task[t].v /\ u \in task[t].range)
    BY <1>5, <2>1, LandDataMedia
  <2> QED
    BY <1>1, <2>1, <2>2 DEF Kept
<1>6. CASE JudgePage \/ CommitPage \/ \E l \in Landings : LandPage(l)
  BY <1>2, <1>6, PageStill
<1>7. CASE (\E c \in Callers : StartRound(c)) \/ EndRound \/ JudgeSb \/ RepeatRound \/ \E l \in Landings : LandSb(l)
  BY <1>2, <1>7, RoundStill
<1>8. CASE Supervise \/ ZeroBitmap
  BY <1>2, <1>8, SupervisorStill
<1>9. CASE CheckRebuild \/ FlushTargets
  BY <1>2, <1>9, RebuildStill
<1>10. CASE (\E e \in Drive : TakeSpare(e)) \/ SpawnRebuild \/ CopyUnit \/ RaiseWatermark \/ Activate
  BY <1>2, <1>10 DEF TakeSpare, SpawnRebuild, CopyUnit, RaiseWatermark, Activate, mediaVars
<1>11. ASSUME NEW l \in Landings, LandCopy(l) PROVE data'[d][u].cur >= x
  <2>1. rb.pc = "copy" /\ Copied
    BY <1>11 DEF LandCopy, Copied
  <2>2. data'[d][u].cur = data[d][u].cur \/ (data'[d][u].cur = rb.v /\ u = rb.key + 1)
    BY <1>11, CopyLanded
  <2> QED
    BY <1>1, <2>1, <2>2 DEF Kept
<1>12. ASSUME NEW F \in SUBSET Drive, Assemble(F) PROVE FALSE
  BY <1>12 DEF Assemble
<1>13. CASE UNCHANGED vars
  BY <1>2, <1>13 DEF vars
<1> QED
  BY <1>3, <1>4, <1>5, <1>6, <1>7, <1>8, <1>9, <1>10, <1>11, <1>12, <1>13, Zenon DEF Next, CalmRequest

\* The drives an assembly would read a unit from have the write x.
Trusts(n, d, u) ==
    \E i \in Slot : /\ n.slots[i].id = d
                    /\ n.slots[i].state = "Active" \/ (n.slots[i].state = "Rebuilding" /\ u <= n.slots[i].to)
AtLeast(n, u, x) == \A d \in Drive : Trusts(n, d, u) => data[d][u].cur >= x

\* What has to be there when a round ends: what was answered, and the write that
\* waits for it.
Due(u, x) ==
    \/ x = acked[u]
    \/ sbw.by \in Task /\ Ended(sbw.by) /\ u \in task[sbw.by].range /\ x = task[sbw.by].v
RoundFloor == sbw # None => \A u \in Unit, x \in Nat : Due(u, x) => AtLeast(sbw.desc, u, x)
RecordFloor == excused = {} => \A n \in Newest, u \in Unit : AtLeast(n, u, acked[u])

\* No drive that a description names has failed since.
Stands(n) == \A i \in Slot : n.slots[i].state # "Failed" => members[i].id = n.slots[i].id /\ members[i].state # "Failed"

LEMMA StandingHas ==
    ASSUME TInv, DataInv, OwedInv, NEW n, Stands(n), \A i \in Slot : Follows(n, i) /\ n.slots[i].to \in Nat,
           NEW u \in Unit, NEW x \in Nat, Owes(u, x)
    PROVE  AtLeast(n, u, x)
<1> SUFFICES ASSUME NEW d \in Drive, Trusts(n, d, u) PROVE data[d][u].cur >= x
  BY DEF AtLeast
<1>1. PICK i \in Slot : /\ n.slots[i].id = d
                        /\ n.slots[i].state = "Active" \/ (n.slots[i].state = "Rebuilding" /\ u <= n.slots[i].to)
  BY DEF Trusts
<1>2. members[i].id = d /\ members[i].state # "Failed" /\ members[i].here
  BY <1>1 DEF Stands, DataInv, RebuildInv
<1>3. members[i].state \in State /\ members[i].to \in Nat /\ n.slots[i].to \in Nat /\ u \in Nat
  BY MemberTyped DEF Unit
<1>4. members[i].state = "Active" \/ (members[i].state = "Rebuilding" /\ u <= members[i].to)
  <2>1. CASE n.slots[i].state = "Active"
    BY <1>1, <1>2, <2>1 DEF Follows
  <2>2. CASE n.slots[i].state = "Rebuilding" /\ u <= n.slots[i].to
    <3>1. members[i].state = "Active" \/ members[i].to >= n.slots[i].to
      BY <1>1, <1>2, <2>2 DEF Follows
    <3> QED
      BY <1>2, <1>3, <2>2, <3>1 DEF State
  <2> QED
    BY <1>1, <2>1, <2>2
<1>5. Holds(members[i], u) /\ Kept(u, x)
  BY <1>2, <1>4 DEF Holds, OwedInv
<1> QED
  BY <1>2, <1>5 DEF Kept, ReadAs

\* When no failure is missing from the drives, the newest description stands.
LEMMA RecordedStands ==
    ASSUME TInv, PlaceInv, Table, Unrecorded = {}, NEW n \in Newest PROVE Stands(n)
<1>1. Described(n)
  BY DEF Described, Newest
<1> SUFFICES ASSUME NEW i \in Slot, n.slots[i].state # "Failed"
             PROVE  members[i].id = n.slots[i].id /\ members[i].state # "Failed"
  BY DEF Stands
<1>2. n.slots[i].id \in Drive /\ SlotsOK(n.slots) /\ SlotsOK(members) /\ Follows(n, i)
  BY <1>1, DescribedTyped, RecordTyped, DescribedPlaces DEF PlaceInv, Table
<1>3. PICK j \in Slot : members[j].id = n.slots[i].id /\ members[j].state # "Failed"
  BY <1>2 DEF Unrecorded
<1>4. i = j
  <2>1. CASE Orig(n.slots[i].id)
    BY <1>2, <1>3, <2>1, HomeAssumption DEF SlotsOK
  <2>2. CASE ~ Orig(n.slots[i].id)
    <3>1. members[i].id = n.slots[i].id
      BY <1>2, <2>2 DEF Follows
    <3> QED
      BY <1>3, <3>1, DrivesDiffer
  <2> QED
    BY <2>1, <2>2
<1> QED
  BY <1>3, <1>4

LEMMA RecordedHas ==
    ASSUME TInv, PlaceInv, DataInv, OwedInv, Table, Unrecorded = {}, NEW n \in Newest,
           NEW u \in Unit, NEW x \in Nat, Owes(u, x)
    PROVE  AtLeast(n, u, x)
<1>1. Described(n)
  BY DEF Described, Newest
<1>2. \A i \in Slot : Follows(n, i) /\ n.slots[i].to \in Nat
  BY <1>1, DescribedTyped, RecordTyped DEF Table
<1> QED
  BY <1>2, RecordedStands, StandingHas

\* A round that reached a drive is what the newest description says.
LEMMA ReachedHas ==
    ASSUME TInv, Table, RoundFloor, sbw # None, NEW e \in Drive, sb[e] = sbw.desc, NEW n \in Newest,
           NEW u \in Unit, NEW x \in Nat, Due(u, x)
    PROVE  AtLeast(n, u, x)
<1>1. PICK d \in Drive : n = sb[d] /\ sb[d] # None /\ \A y \in Drive : sb[y] # None => sb[y].events <= sb[d].events
  BY DEF Newest
<1>2. sb[e] # None /\ Described(n) /\ Described(sbw.desc)
  BY <1>1, NoneAssumption DEF Described, TInv, RoundOK, RoundRecord
<1>3. n.events \in Nat /\ sbw.desc.events \in Nat /\ n.events = sbw.desc.events
  <2>1. n.events \in Nat /\ sbw.desc.events \in Nat
    BY <1>2, DescribedTyped
  <2>2. n.events <= sbw.desc.events /\ sbw.desc.events <= n.events
    BY <1>1, <1>2 DEF Table
  <2> QED
    BY <2>1, <2>2
<1>4. Repeats(n, sbw.desc)
  BY <1>1 DEF Table
<1>5. \A i \in Slot : n.slots[i].to \in Nat /\ sbw.desc.slots[i].to \in Nat
  BY <1>2, DescribedTyped, RecordTyped
<1>6. u \in Nat /\ AtLeast(sbw.desc, u, x)
  BY DEF RoundFloor, Unit
<1> SUFFICES ASSUME NEW c \in Drive, Trusts(n, c, u) PROVE data[c][u].cur >= x
  BY DEF AtLeast
<1>7. Trusts(sbw.desc, c, u)
  <2>1. PICK i \in Slot : /\ n.slots[i].id = c
                          /\ n.slots[i].state = "Active" \/ (n.slots[i].state = "Rebuilding" /\ u <= n.slots[i].to)
    BY DEF Trusts
  <2>2. /\ n.slots[i].id = sbw.desc.slots[i].id /\ n.slots[i].state = sbw.desc.slots[i].state
        /\ n.slots[i].state = "Rebuilding" => n.slots[i].to <= sbw.desc.slots[i].to
    BY <1>3, <1>4 DEF Repeats
  <2>3. n.slots[i].state = "Rebuilding" /\ u <= n.slots[i].to => u <= sbw.desc.slots[i].to
    BY <1>5, <1>6, <2>2
  <2> QED
    BY <2>1, <2>2, <2>3 DEF Trusts
<1> QED
  BY <1>6, <1>7 DEF AtLeast

-----------------------------------------------------------------------------
(* Every step keeps what a restart would read                               *)

LEMMA TableHolds ==
    ASSUME TInv, TInv', PlaceInv, OneSpare', Table, phase = "up", [Next]_vars, ~ PowerCut PROVE Table'
<1>1. CASE (\E c \in Callers : StartRound(c)) \/ RepeatRound
  <2>1. UNCHANGED <<sb, members, events>> /\ sbw'.desc = Description
    BY <1>1 DEF StartRound, RepeatRound, Round, mediaVars
  <2> QED
    BY <2>1, TableDescribed
<1>2. CASE ~ ((\E c \in Callers : StartRound(c)) \/ RepeatRound)
  <2>1. GrowStep
    BY <1>2, TableSteps, TableStepGrows
  <2>2. \A d \in Drive : sb'[d] = sb[d] \/ (sbw # None /\ sb'[d] = sbw.desc)
    BY Superblocks DEF SuperblockStep
  <2>3. sbw' # None => sbw # None /\ sbw'.desc = sbw.desc
    <3>1. CASE UNCHANGED sbw
      BY <3>1
    <3>2. CASE EndRound
      BY <3>2 DEF EndRound
    <3>3. CASE JudgeSb
      BY <3>3, JudgeSbRound
    <3>4. ASSUME NEW l \in Landings, LandSb(l) PROVE sbw # None /\ sbw'.desc = sbw.desc
      BY <3>4, RoundLands
    <3>5. ASSUME NEW t \in Task, Check(t) PROVE UNCHANGED sbw
      BY <3>5 DEF Check
    <3> QED
      BY <1>2, <3>1, <3>2, <3>3, <3>4, <3>5, RecordSteps DEF SbStep
  <2> QED
    BY <2>1, <2>2, <2>3, TableGrows
<1> QED
  BY <1>1, <1>2

\* The newest description after a drive took its superblock.
LEMMA NewestAfter ==
    ASSUME TInv, Table, NEW l \in Landings, LandSb(l), NEW n, n \in Newest' PROVE n \in Newest \/ n = sbw.desc
<1>1. CASE UNCHANGED sb
  BY <1>1 DEF Newest
<1>2. CASE sb' = [sb EXCEPT ![l.drive] = sbw.desc]
  <2>1. l.drive \in Drive /\ sb \in [Drive -> Desc \cup {None}] /\ sbw # None /\ sbw.desc \in Desc
    BY RoundLands DEF Landings, TInv, MediaOK, RoundOK, RoundRecord
  <2>2. sb'[l.drive] = sbw.desc /\ sbw.desc # None /\ \A y \in Drive \ {l.drive} : sb'[y] = sb[y]
    BY <1>2, <2>1, NoneAssumption
  <2>3. PICK d \in Drive : n = sb'[d] /\ sb'[d] # None /\ \A y \in Drive : sb'[y] # None => sb'[y].events <= sb'[d].events
    BY DEF Newest
  <2>4. CASE d = l.drive
    BY <2>2, <2>3, <2>4
  <2>5. CASE d # l.drive
    <3>1. n = sb[d] /\ sb[d] # None /\ \A y \in Drive \ {l.drive} : sb[y] # None => sb[y].events <= sb[d].events
      BY <2>2, <2>3, <2>5
    <3>2. sb[l.drive] # None => sb[l.drive].events <= sb[d].events
      <4>1. sbw.desc.events <= sb[d].events
        BY <2>1, <2>2, <2>3, <2>5
      <4>2. ASSUME sb[l.drive] # None
            PROVE  sb[l.drive].events <= sbw.desc.events /\ sb[l.drive].events \in Nat
        BY <2>1, <4>2, DescribedTyped DEF Table, Described
      <4>3. sbw.desc.events \in Nat /\ sb[d].events \in Nat
        BY <2>1, <3>1, DescribedTyped DEF Described
      <4> QED
        BY <4>1, <4>2, <4>3
    <3> QED
      BY <3>1, <3>2 DEF Newest
  <2> QED
    BY <2>4, <2>5
<1> QED
  BY <1>1, <1>2, RoundLands

LEMMA DescriptionHas ==
    ASSUME TInv, DataInv, OwedInv, NEW u \in Unit, NEW x \in Nat, Owes(u, x) PROVE AtLeast(Description, u, x)
<1>1. \A i \in Slot : members[i].to \in Nat
  BY MemberTyped
<1>2. \A i \in Slot : Follows(Description, i) /\ Description.slots[i].to \in Nat
  BY <1>1, DescriptionSays DEF Follows
<1>3. Stands(Description)
  BY DescriptionSays DEF Stands
<1> QED
  BY <1>2, <1>3, StandingHas

\* What an answer promises was due when the round it waited for began.
LEMMA AnswerDue ==
    ASSUME TInv, EndRound, NEW u \in Unit PROVE Due(u, acked'[u]) /\ acked'[u] \in Nat
<1>1. acked \in [Unit -> Nat] /\ sbw # None
  BY DEF TInv, HistOK, EndRound
<1>2. CASE sbw.by \in Task
  <2>1. Answer(sbw.by) /\ task[sbw.by].pc = "round"
    BY <1>1, <1>2 DEF EndRound, TInv, RoundOK
  <2>2. /\ acked' \in [Unit -> Nat]
        /\ \/ acked'[u] = acked[u]
           \/ /\ task[sbw.by] \in WriteRecord /\ task[sbw.by].ok /\ u \in task[sbw.by].range
              /\ acked'[u] = task[sbw.by].v
    BY <1>2, <2>1, Answered
  <2> QED
    BY <1>2, <2>1, <2>2 DEF Due, Ended, WriteRecord
<1>3. CASE sbw.by \notin Task
  BY <1>1, <1>3 DEF EndRound, Due
<1> QED
  BY <1>2, <1>3

LEMMA FloorsStep ==
    ASSUME TInv, TInv', ForRebuild, PlaceInv, DataInv, OwedInv, RoundReaches, Table, RoundFloor, RecordFloor,
           phase = "up", [Next]_vars, ~ PowerCut
    PROVE  RoundFloor' /\ RecordFloor'
<1> DEFINE Later(n, u, x) == \A d \in Drive : Trusts(n, d, u) => data'[d][u].cur >= x
<1>1. ASSUME NEW n, NEW u \in Unit, NEW x \in Nat, Owes(u, x), AtLeast(n, u, x) PROVE Later(n, u, x)
  <2>1. Kept(u, x)
    BY <1>1 DEF OwedInv
  <2> QED
    BY <1>1, <2>1, FloorStep DEF AtLeast
<1>2. \A u \in Unit : acked[u] \in Nat /\ acked'[u] \in Nat /\ Owes(u, acked[u])
  BY DEF TInv, HistOK, Owes
<1>3. ASSUME \A u \in Unit, x \in Nat : sbw' # None /\ Due(u, x)' => Later(sbw'.desc, u, x) PROVE RoundFloor'
  BY <1>3 DEF RoundFloor, AtLeast, Trusts
<1>4. ASSUME excused' = {} => \A n \in Newest', u \in Unit : Later(n, u, acked'[u]) PROVE RecordFloor'
  BY <1>4 DEF RecordFloor, AtLeast, Trusts
<1>5. excused' = {} => excused = {}
  BY ExcusedGrows
<1>6. \A u \in Unit, x \in Nat : Due(u, x)' => Owes(u, x)'
  BY DEF Due, Owes
<1>7. \A u \in Unit, x \in Nat : Due(u, x) => Owes(u, x)
  BY DEF Due, Owes
<1> HIDE DEF Later
<1>8. ASSUME UNCHANGED acked, excused = {}, NEW n \in Newest, NEW u \in Unit PROVE Later(n, u, acked'[u])
  BY <1>1, <1>2, <1>8 DEF RecordFloor
<1>9. ASSUME sbw # None, sbw'.desc = sbw.desc, sbw'.by = sbw.by, UNCHANGED acked, ~ EndRound
      PROVE  RoundFloor' /\ \A u \in Unit : Later(sbw.desc, u, acked[u])
  <2>1. ASSUME NEW u \in Unit, NEW x \in Nat, Due(u, x) PROVE Later(sbw.desc, u, x)
    BY <1>1, <1>7, <1>9, <2>1 DEF RoundFloor
  <2>2. ASSUME NEW u \in Unit, NEW x \in Nat, Due(u, x)' PROVE Due(u, x)
    <3>1. sbw.by \in Task => task[sbw.by].pc = "round"
      BY <1>9 DEF TInv, RoundOK
    <3>2. sbw.by \in Task /\ Ended(sbw.by)' => task'[sbw.by] = task[sbw.by]
      BY <1>9, <3>1, RoundWaits DEF Ended
    <3> QED
      BY <1>9, <2>2, <3>2 DEF Due, Ended
  <2>3. \A u \in Unit : Later(sbw.desc, u, acked[u])
    BY <1>2, <2>1 DEF Due
  <2> QED
    BY <1>3, <1>9, <2>1, <2>2, <2>3
<1>10. CASE UNCHANGED <<sb, sbw, acked>>
  <2>1. RecordFloor'
    BY <1>4, <1>5, <1>8, <1>10 DEF Newest
  <2>2. CASE sbw # None
    <3>1. ~ EndRound
      BY <1>10, <2>2 DEF EndRound
    <3> QED
      BY <1>9, <1>10, <2>1, <2>2, <3>1
  <2>3. CASE sbw = None
    BY <1>10, <2>1, <2>3 DEF RoundFloor
  <2> QED
    BY <2>2, <2>3
<1>11. ASSUME NEW t \in Task, Check(t) PROVE RoundFloor' /\ RecordFloor'
  <2>1. UNCHANGED <<sb, sbw>> /\ task[t].pc = "check"
    BY <1>11 DEF Check, mediaVars
  <2>2. CASE sbDirty
    BY <1>10, <1>11, <2>1, <2>2 DEF Check
  <2>3. CASE ~ sbDirty
    <3>1. OwesStay
      BY <1>11, CalmPromised DEF OwedInv, CalmRequest
    <3>2. \A u \in Unit : Owes(u, acked'[u])
      <4>1. \A u \in Unit, x \in Nat : x = acked'[u] => Owes(u, x)'
        BY DEF Owes
      <4>2. \A u \in Unit, x \in Nat : x = acked'[u] => Owes(u, x)
        BY <3>1, <4>1 DEF OwesStay
      <4> QED
        BY <1>2, <4>2
    <3>3. excused' = {} => Unrecorded = {}
      BY <1>11, <2>3 DEF Check, Excuse
    <3>4. RecordFloor'
      <4>1. ASSUME excused' = {}, NEW n \in Newest, NEW u \in Unit PROVE Later(n, u, acked'[u])
        <5>1. AtLeast(n, u, acked'[u])
          BY <1>2, <3>2, <3>3, <4>1, RecordedHas
        <5> QED
          BY <1>1, <1>2, <3>2, <5>1
      <4> QED
        BY <1>4, <2>1, <4>1 DEF Newest
    <3>5. ASSUME sbw # None, NEW u \in Unit, NEW x \in Nat, Due(u, x)' PROVE Later(sbw.desc, u, x)
      <4>1. Owes(u, x)
        BY <1>6, <3>1, <3>5 DEF OwesStay
      <4>2. Stands(sbw.desc) /\ Described(sbw.desc)
        BY <2>3, <3>5 DEF Table, Stands, Described
      <4>3. \A i \in Slot : Follows(sbw.desc, i) /\ sbw.desc.slots[i].to \in Nat
        BY <4>2, DescribedTyped, RecordTyped DEF Table
      <4>4. AtLeast(sbw.desc, u, x)
        BY <4>1, <4>2, <4>3, StandingHas
      <4> QED
        BY <1>1, <4>1, <4>4
    <3> QED
      BY <1>3, <2>1, <3>4, <3>5
  <2> QED
    BY <2>2, <2>3
<1>12. CASE (\E c \in Callers : StartRound(c)) \/ RepeatRound
  <2>1. UNCHANGED <<sb, acked>> /\ sbw'.desc = Description
    BY <1>12 DEF StartRound, RepeatRound, Round, mediaVars, histVars
  <2>2. OwesStay
    BY <1>12, RoundPromised, OtherPromised DEF OwedInv
  <2>3. ASSUME NEW u \in Unit, NEW x \in Nat, Due(u, x)' PROVE Later(Description, u, x)
    <3>1. Owes(u, x)
      BY <1>6, <2>2, <2>3 DEF OwesStay
    <3> QED
      BY <1>1, <3>1, DescriptionHas
  <2>4. RoundFloor'
    BY <1>3, <2>1, <2>3
  <2> QED
    BY <1>4, <1>5, <1>8, <2>1, <2>4 DEF Newest
<1>13. CASE JudgeSb
  <2>1. UNCHANGED <<sb, acked>> /\ ~ EndRound
    BY <1>13 DEF JudgeSb, EndRound, mediaVars, histVars
  <2> QED
    BY <1>4, <1>5, <1>8, <1>9, <1>13, <2>1, JudgeSbRound DEF Newest
<1>14. ASSUME NEW l \in Landings, LandSb(l) PROVE RoundFloor' /\ RecordFloor'
  <2>1. sbw # None /\ sbw'.desc = sbw.desc /\ sbw'.by = sbw.by /\ UNCHANGED acked
    BY <1>14, RoundLands
  <2>2. ~ EndRound
    BY <1>14 DEF LandSb, EndRound
  <2>3. RoundFloor' /\ \A u \in Unit : Later(sbw.desc, u, acked[u])
    BY <1>9, <2>1, <2>2
  <2>4. ASSUME excused' = {}, NEW n \in Newest', NEW u \in Unit PROVE Later(n, u, acked'[u])
    BY <1>5, <1>8, <1>14, <2>1, <2>3, <2>4, NewestAfter
  <2> QED
    BY <1>4, <2>3, <2>4
<1>15. CASE EndRound
  <2>1. /\ sbw # None /\ sbw.todo = {} /\ sbw.bad = {} /\ ~ sbw.again /\ sbw' = None /\ UNCHANGED sb
        /\ excused' = {} => ~ sbw.err \/ Unrecorded = {}
    BY <1>15 DEF EndRound, mediaVars, Excuse
  <2>2. ASSUME excused' = {}, NEW n \in Newest, NEW u \in Unit PROVE Later(n, u, acked'[u])
    <3>1. Due(u, acked'[u]) /\ acked'[u] \in Nat
      BY <1>15, AnswerDue
    <3>2. Owes(u, acked'[u])
      BY <1>7, <3>1
    <3>3. AtLeast(n, u, acked'[u])
      <4>1. CASE Unrecorded = {}
        BY <3>1, <3>2, <4>1, RecordedHas
      <4>2. CASE ~ sbw.err
        <5>1. PICK e \in Drive : sb[e] = sbw.desc
          BY <2>1, <4>2 DEF RoundReaches
        <5> QED
          BY <2>1, <3>1, <5>1, ReachedHas
      <4> QED
        BY <2>1, <2>2, <4>1, <4>2
    <3> QED
      BY <1>1, <3>1, <3>2, <3>3
  <2>3. RecordFloor'
    BY <1>4, <2>1, <2>2 DEF Newest
  <2> QED
    BY <2>1, <2>3 DEF RoundFloor
<1> QED
  BY <1>10, <1>11, <1>12, <1>13, <1>14, <1>15, RecordSteps DEF SbStep

\* All that the drives' descriptions are kept by.
RecordInv == Serves /\ ZeroInv /\ RoundReaches /\ Table /\ RoundFloor /\ RecordFloor

LEMMA RecordStep ==
    ASSUME TInv, TInv', ForRebuild, PlaceInv, DataInv, OwedInv, RecordInv, phase = "up", [Next]_vars, ~ PowerCut, OneSpare'
    PROVE  RecordInv'
<1> USE DEF RecordInv
<1>1. Serves'
  BY TableSteps, ServesStays
<1>2. ZeroInv'
  BY ZeroStep
<1>3. RoundReaches'
  BY ReachesStep
<1>4. Table'
  BY TableHolds
<1>5. RoundFloor' /\ RecordFloor'
  BY FloorsStep
<1> QED
  BY <1>1, <1>2, <1>3, <1>4, <1>5

LEMMA InitRecord == Init => RecordInv
<1> SUFFICES ASSUME Init PROVE RecordInv
  OBVIOUS
<1>1. /\ sbw = None /\ events = 1 /\ spent["spares"] = 0 /\ rb.pc = "idle" /\ sup.pc = "idle"
      /\ \A d \in Drive : sb[d] # None => sb[d] = Description
  BY DEF Init, Event, NoRebuild
<1>2. \A i \in Slot : members[i].id = Home[i] /\ members[i].here /\ members[i].state = "Active" /\ members[i].to = 0
  BY DEF Init
<1>3. \A u \in Unit : acked[u] = 1
  BY DEF Init
<1>4. \A i \in Slot, u \in Unit : data[Home[i]][u].cur = 1
  BY HomeAssumption DEF Init, Durable
<1>5. Serves
  <2>1. 1 \in Slot
    BY SizesAssumption DEF Slot
  <2> QED
    BY <1>2, <2>1 DEF Serves, Serving
<1>6. ZeroInv /\ RoundReaches /\ RoundFloor
  BY <1>1 DEF ZeroInv, RoundReaches, RoundFloor
<1>7. Table
  <2>1. \A n : Described(n) => n = Description
    BY <1>1 DEF Described
  <2>2. Repeats(Description, Description)
    BY <1>2, DescriptionSays DEF Repeats
  <2>3. \A i \in Slot : Follows(Description, i)
    BY <1>2, DescriptionSays DEF Follows
  <2>4. Description.events <= events
    BY <1>1 DEF Description
  <2> QED
    BY <1>1, <2>1, <2>2, <2>3, <2>4 DEF Table
<1>8. RecordFloor
  <2> SUFFICES ASSUME NEW n \in Newest, NEW u \in Unit, NEW d \in Drive, Trusts(n, d, u) PROVE data[d][u].cur >= acked[u]
    BY DEF RecordFloor, AtLeast
  <2>1. n = Description
    BY <1>1 DEF Newest
  <2>2. PICK i \in Slot : d = Home[i]
    BY <1>2, <2>1, DescriptionSays DEF Trusts
  <2> QED
    BY <1>3, <1>4, <2>2
<1> QED
  BY <1>5, <1>6, <1>7, <1>8 DEF RecordInv

-----------------------------------------------------------------------------
(* Theorems                                                                 *)

\* The types of the slot table, of what the drives hold and of what runs, in
\* every behaviour of the set.
THEOREM AlwaysTypeOK == Spec => []TypeOK
  BY TypesHold, TypesImply, PTL

\* The invariants of a set that has taken one spare at most, and of one whose
\* power has not been cut either.
PlacesInv == TInv /\ QuietInv /\ (OneSpare => PlaceInv)
RunInv == PlacesInv /\ ForRebuild /\ (OneSpare /\ NoCut => phase = "up" /\ DataInv /\ OwedInv /\ RecordInv)

LEMMA PlacesStep == ASSUME PlacesInv, [Next]_vars PROVE PlacesInv'
<1> USE DEF PlacesInv
<1>1. TInv'
  BY NextTypes
<1>2. QuietInv'
  BY QuietStep, DownStep DEF QuietInv
<1>3. OneSpare' => PlaceInv'
  BY BudgetsHold, PlaceStep
<1> QED
  BY <1>1, <1>2, <1>3

LEMMA PlacesHold == Spec => []PlacesInv
<1>1. Init => PlacesInv
  BY InitTypes, InitPlace DEF PlacesInv
<1>2. PlacesInv /\ [Next]_vars => PlacesInv'
  BY PlacesStep
<1> QED
  BY <1>1, <1>2, PTL DEF Spec

\* A write's data is on its way to a unit that two members hold only while the
\* bitmap of an attached drive marks the unit, for sets of any number of slots,
\* as long as pages keep the bits that writes rely on and one spare at most has
\* been taken: through failures, rebuilds, power cuts and assemblies.
THEOREM DataUnderItsBit ==
    Spec /\ []PagesKeepBits => [](OneSpare => WriteUnderItsBit)
<1> DEFINE I == PlacesInv /\ (OneSpare => BitInv)
<1>1. Init => I
  BY InitTypes, InitPlace, InitBits DEF PlacesInv
<1>2. I /\ [Next]_vars /\ PagesKeepBits => I'
  <2> SUFFICES ASSUME I, [Next]_vars, PagesKeepBits PROVE I'
    OBVIOUS
  <2>1. PlacesInv'
    BY PlacesStep
  <2>2. OneSpare' => BitInv'
    BY <2>1, BudgetsHold, BitStep DEF PlacesInv
  <2> QED
    BY <2>1, <2>2
<1>3. I => (OneSpare => WriteUnderItsBit)
  BY BitsImply DEF PlacesInv
<1> QED
  BY <1>1, <1>2, <1>3, PTL DEF Spec

LEMMA RunHolds == Spec => []RunInv
<1> USE DEF RunInv
<1>1. Init => RunInv
  <2> SUFFICES ASSUME Init PROVE RunInv
    OBVIOUS
  <2>1. PlacesInv
    BY InitTypes, InitPlace DEF PlacesInv
  <2>2. phase = "up"
    BY DEF Init
  <2> QED
    BY <2>1, <2>2, InitData, InitRecord
<1>2. RunInv /\ [Next]_vars => RunInv'
  <2> SUFFICES ASSUME RunInv, [Next]_vars PROVE RunInv'
    OBVIOUS
  <2>1. PlacesInv'
    BY PlacesStep
  <2>2. ForRebuild'
    BY ForRebuildStep DEF PlacesInv
  <2>3. ASSUME OneSpare', NoCut' PROVE phase' = "up" /\ DataInv' /\ OwedInv' /\ RecordInv'
    <3>1. OneSpare /\ NoCut /\ ~ PowerCut
      BY <2>3, BudgetsHold DEF PlacesInv
    <3>2. TInv /\ TInv' /\ PlaceInv /\ DataInv /\ OwedInv /\ RecordInv /\ phase = "up"
      BY <2>1, <3>1 DEF PlacesInv
    <3>3. DataInv' /\ OwedInv'
      BY <2>3, <3>1, <3>2, UpStep
    <3>4. RecordInv'
      BY <2>3, <3>1, <3>2, RecordStep
    <3> QED
      BY <3>1, <3>2, <3>3, <3>4, StaysUp
  <2> QED
    BY <2>1, <2>2, <2>3
<1> QED
  BY <1>1, <1>2, PTL DEF Spec

\* Until the power is first cut, whichever member a read picks returns the last
\* write of the unit that ended: with writes that overlap, members that fail at
\* any step, a spare that is rebuilt under the writes, for sets of any size.
THEOREM ReadersAgree == Spec => [](OneSpare /\ NoCut => HoldersAgree)
<1>1. RunInv => (OneSpare /\ NoCut => HoldersAgree)
  <2> SUFFICES ASSUME RunInv, OneSpare, NoCut PROVE HoldersAgree
    OBVIOUS
  <2>1. TInv /\ Agree
    BY DEF RunInv, PlacesInv, DataInv
  <2> QED
    BY <2>1, LockedBusy DEF Agree, HoldersAgree
<1> QED
  BY <1>1, RunHolds, PTL

\* Until then no member that may be read is older than what has been answered.
AnsweredHeld == \A u \in Unit, i \in Slot : Holds(members[i], u) => ReadAs(i, u) >= acked[u]

THEOREM AnswersHold == Spec => [](OneSpare /\ NoCut => AnsweredHeld)
<1>1. RunInv => (OneSpare /\ NoCut => AnsweredHeld)
  <2> SUFFICES ASSUME RunInv, OneSpare, NoCut, NEW u \in Unit, NEW i \in Slot, Holds(members[i], u)
               PROVE  ReadAs(i, u) >= acked[u]
    BY DEF AnsweredHeld
  <2>1. TInv /\ OwedInv
    BY DEF RunInv, PlacesInv
  <2>2. acked[u] \in Nat
    BY <2>1 DEF TInv, HistOK
  <2> QED
    BY <2>1, <2>2 DEF OwedInv, Owes, Kept
<1> QED
  BY <1>1, RunHolds, PTL

\* So none is older than what an Ok flush covered, and none returns what a spare
\* held before it was one.
THEOREM FlushesHold == Spec => [](OneSpare /\ NoCut => FlushedSurvives /\ NeverReadsUnfilled)
<1>1. RunInv /\ AnsweredHeld => (OneSpare /\ NoCut => FlushedSurvives /\ NeverReadsUnfilled)
  <2> SUFFICES ASSUME RunInv, AnsweredHeld, OneSpare, NoCut PROVE FlushedSurvives /\ NeverReadsUnfilled
    OBVIOUS
  <2>1. TInv /\ OwedInv
    BY DEF RunInv, PlacesInv
  <2>2. ASSUME NEW u \in Unit, NEW i \in Slot, Holds(members[i], u)
        PROVE  ReadAs(i, u) >= flushed[u] /\ ReadAs(i, u) # 0
    <3>1. acked[u] \in Nat /\ flushed[u] \in Nat /\ flushed[u] <= acked[u] /\ 1 <= acked[u]
      BY <2>1 DEF TInv, HistOK, OwedInv, Promised
    <3>2. ReadAs(i, u) >= acked[u]
      BY <2>2 DEF AnsweredHeld
    <3>3. members[i].id \in Drive
      BY <2>1 DEF TInv, SetOK, Member
    <3>4. ReadAs(i, u) \in Nat
      BY <2>1, <3>3 DEF ReadAs, TInv, MediaOK, Cell
    <3> QED
      BY <3>1, <3>2, <3>4
  <2> QED
    BY <2>2 DEF FlushedSurvives, NeverReadsUnfilled
<1> QED
  BY <1>1, RunHolds, AnswersHold, PTL

\* Until then a restart would read no unit from a drive that lacks a write that was
\* answered: a member that failed at any step, during the round that says so too,
\* is not in the newest description on the drives before the answer is given,
\* unless the answer is given without it being there, which is excused.
THEOREM RestartsTrust == Spec => [](OneSpare /\ NoCut => RestartTrustsOnlyCurrent)
<1>1. RunInv => (OneSpare /\ NoCut => RestartTrustsOnlyCurrent)
  <2> SUFFICES ASSUME RunInv, OneSpare, NoCut PROVE RestartTrustsOnlyCurrent
    OBVIOUS
  <2>1. RecordFloor
    BY DEF RunInv, RecordInv
  <2> QED
    BY <2>1 DEF RecordFloor, AtLeast, Trusts, RestartTrustsOnlyCurrent
<1> QED
  BY <1>1, RunHolds, PTL
=============================================================================
