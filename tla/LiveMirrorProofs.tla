-------------------------- MODULE LiveMirrorProofs --------------------------
(***************************************************************************)
(* What a live mirror promises, for every number of extents, requests,      *)
(* mirrors, targets and callers.                                            *)
(*                                                                          *)
(* The argument: a request is past the gate with the live mirror or no      *)
(* mirror is live (GateInv), and holds the locks of every extent it writes  *)
(* to the volume and has yet to write to the target (TaskInv, LockInv).  So  *)
(* for an extent nobody has locked the target has the volume's content, or   *)
(* it still reads as zeros and the copy has it on its list (ContentInv), and *)
(* once the list is empty the target has everything.  A stop has the gate    *)
(* alone, so this is still so when the target is flushed (StopInv) and no    *)
(* mirror writes to it after that (HandedInv).                              *)
(***************************************************************************)
EXTENDS LiveMirror, Integers, FiniteSetsExt, WellFoundedInduction, TLAPS

-----------------------------------------------------------------------------
(* The least and the greatest member of a set of numbers                    *)

\* A set of numbers that is not empty has a least member, and Min is it.
LEMMA MinIsMember ==
    ASSUME NEW S \in SUBSET Nat, S # {}
    PROVE  Min(S) \in S /\ \A y \in S : Min(S) <= y
<1> DEFINE R == {ss \in Nat \X Nat : ss[1] < ss[2]}
<1>1. R = OpToRel(<, Nat)
    BY Zenon DEF OpToRel
<1>2. IsWellFoundedOn(R, Nat)
    BY <1>1, NatLessThanWellFounded
<1>3. \A x, y \in Nat : x < y => <<x, y>> \in R
    OBVIOUS
<1> HIDE DEF R
<1>4. PICK x \in S : \A y \in S : ~ (<<y, x>> \in R)
    BY <1>2, WFMin
<1>5. \A y \in S : ~ (y < x)
    BY <1>3, <1>4, Zenon
<1>6. \A y \in S : x =< y
    BY <1>5
<1>7. QED
    BY <1>6 DEF Min

\* The greater of two numbers.
LEMMA MaxOfTwo ==
    ASSUME NEW a \in Nat, NEW b \in Nat
    PROVE  Max({a, b}) = (IF a >= b THEN a ELSE b)
BY DEF Max

-----------------------------------------------------------------------------
\* A request past the gate.
Busy(r) == r.pc \in {"lock", "land", "send"}

\* What a busy request has made of the volume and the target may not have yet.
Written(r) == IF r.op = "discard" THEN (IF r.pc = "send" THEN r.todo ELSE {}) ELSE r.range \ r.todo

\* A request locks before it lands, lands before it sends, and the kernel is told to
\* write mapped extents only.
Local(r) ==
    /\ r.held \subseteq r.range /\ r.todo \subseteq r.range
    /\ r.pc = "lock" => r.m \in Mirror /\ r.held # r.range /\ r.todo = r.range
    /\ r.pc \in {"land", "send"} /\ r.m # None => r.held = r.range
    /\ r.pc = "land" /\ r.op # "discard" => r.todo # {}
    /\ r.pc = "send" /\ r.op # "discard" => r.todo = {}
    /\ r.op = "discard" => r.v = Blank
    /\ r.pc = "kernel" => r.range \subseteq mapped /\ r.held = {} /\ r.todo = {}
    /\ r.start <= completed

\* Every request is so.
TaskInv == \A t \in Task : Local(task[t])

\* A mirror has its list to the end of its copy and is synced after it; at most one
\* mirror of a target is fresh, and a target no mirror had is blank.
MirrorInv ==
    /\ \A m \in Mirror : LET r == mir[m] IN
        /\ r.pc = "send" => r.list # {}
        /\ r.pc = "flushed" => r.list = {}
        /\ r.synced => r.pc = "ended" /\ r.list = {}
        /\ r.pc = "none" => r = Unused
        /\ r.pc # "none" => r.target \in Target
    /\ \A m, n \in Mirror : m # n /\ mir[m].pc # "none" /\ mir[m].target = mir[n].target => ~ (mir[m].fresh /\ mir[n].fresh)
    /\ \A g \in Target : (\A m \in Mirror : mir[m].target # g) => \A e \in Extent : tgt[g][e] = Durable(Blank)
    /\ slot # None => /\ mir[slot].pc # "none" /\ ~ mir[slot].stopping
                      /\ mir[slot].fresh => \A m \in Mirror \ {slot} : mir[m].target # mir[slot].target

\* While a mirror is live every request at the volume has it; while a stop flushes
\* its target there is no request and no mirror.
GateInv ==
    /\ \A t \in Task : Busy(task[t]) => task[t].m \in {None, slot}
    /\ IsLive(slot) => \A t \in Task : task[t].pc # "kernel" /\ (Busy(task[t]) => task[t].m = slot)
    /\ \A c \in Caller : call[c].pc = "stopping" =>
        /\ slot = None /\ \A t \in Task : task[t].pc \notin {"lock", "land", "send", "kernel"}
        /\ \A d \in Caller \ {c} : call[d].pc # "stopping"
        /\ call[c].m \in Mirror /\ mir[call[c].m].stopping /\ mir[call[c].m].pc # "none"
        /\ mir[call[c].m].fresh => \A m \in Mirror \ {call[c].m} : mir[m].target # mir[call[c].m].target
    /\ \A c \in Caller : call[c].pc \in {"record", "set"} => call[c].target \in Target

\* An extent is locked by one request, or by the copy that is sending it.
LockInv ==
    /\ \A t, u \in Task : t # u /\ Busy(task[t]) /\ Busy(task[u]) /\ task[t].m = task[u].m /\ task[t].m # None =>
        task[t].held \cap task[u].held = {}
    /\ \A t \in Task : Busy(task[t]) /\ task[t].m # None /\ mir[task[t].m].pc = "send" =>
        Min(mir[task[t].m].list) \notin task[t].held

\* What is not mapped reads as zeros.
MappedInv == \A e \in Extent \ mapped : vol[e] = Blank

\* A live mirror's target has the volume's content, but for what a request has not
\* sent yet and for what the copy has still to send.
ContentInv ==
    IsLive(slot) /\ mir[slot].fresh =>
        /\ \A t \in Task : Busy(task[t]) => \A e \in Written(task[t]) : vol[e] = task[t].v
        /\ \A e \in Extent \ torn : (\A t \in Task : Busy(task[t]) => e \notin Written(task[t])) =>
             \/ tgt[mir[slot].target][e].cur = vol[e]
             \/ e \in mir[slot].list /\ tgt[mir[slot].target][e].cur = Blank
        /\ mir[slot].pc = "send" => mir[slot].read = vol[Min(mir[slot].list)]

\* So has the target a stop is about to flush, once the copy was through.
StopInv ==
    \A c \in Caller : LET m == call[c].m IN
        call[c].pc = "stopping" /\ call[c].live /\ ~ mir[m].failed /\ mir[m].fresh
        /\ (mir[m].pc = "flushed" \/ mir[m].synced) =>
            \A e \in Extent \ torn : tgt[mir[m].target][e].cur = vol[e]

\* A target that was switched to is left alone.
HandedInv ==
    \A g \in Target : handed[g] # None /\ (\A m \in Mirror : mir[m].target = g => mir[m].fresh) =>
        /\ \A m \in Mirror : mir[m].target = g => mir[m].stopping /\ mir[m].pc = "ended"
        /\ \A e \in DOMAIN handed[g] : e \in Extent /\ tgt[g][e] = Durable(handed[g][e])

\* What is not flushed there was finished after the flush that last began.
DirtyInv ==
    /\ synced <= completed
    /\ IsLive(slot) /\ mir[slot].fresh /\ (mir[slot].pc = "flushed" \/ mir[slot].synced) /\ synced = completed
       /\ (\A t \in Task : task[t].pc # "mirror")
       => \A e \in Extent : tgt[mir[slot].target][e].may = {tgt[mir[slot].target][e].cur}

\* One call at a time: a mirror is set only once it is recorded.
RecordInv ==
    ~ overlap =>
        /\ \A c, d \in Caller : call[c] # NoCall /\ call[d] # NoCall => c = d
        /\ \A c \in Caller : call[c].pc \in {"record", "set"} => slot = None
        /\ \A c \in Caller : call[c].pc = "set" => recorded # None
        /\ \A c \in Caller : call[c].pc # "undo"
        /\ standing => recorded # None /\ \A c \in Caller : call[c].pc \notin {"stopping", "forget"}

\* The inductive invariant.
Inv == /\ TypeOK /\ TaskInv /\ MirrorInv /\ GateInv /\ LockInv /\ MappedInv
       /\ ContentInv /\ StopInv /\ HandedInv /\ DirtyInv /\ RecordInv

-----------------------------------------------------------------------------
\* Ranges are sets of extents, and not empty.
LEMMA RangesType == \A r \in Ranges : r \in SUBSET Extent /\ r # {}
BY ExtentsAssumption DEF Ranges, Extent

\* Extents are numbers, so a set of them that is not empty has its least in it.
LEMMA MinExtent == ASSUME NEW S \in SUBSET Extent, S # {} PROVE Min(S) \in S /\ Min(S) \in Extent
<1>1. S \in SUBSET Nat
    BY ExtentsAssumption DEF Extent
<1>2. QED
    BY <1>1, MinIsMember

\* What a target has taken is well typed.
LEMMA SentType ==
    ASSUME TypeOK, NEW m \in Mirror, mir[m].target \in Target, NEW R \in SUBSET Extent, NEW v \in Nat
    PROVE  Sent(m, R, v) \in TargetState
BY DEF TypeOK, TargetState, Sent, Put, Cell

\* A flushed target is well typed.
LEMMA FlushType ==
    ASSUME TypeOK, NEW g \in Target
    PROVE  [tgt EXCEPT ![g] = FlushAll(@)] \in TargetState
BY DEF TypeOK, TargetState, FlushAll, Flushed, Durable, Cell

-----------------------------------------------------------------------------
\* A part of the invariant holds on as long as what it speaks of does not change.
LEMMA Frame ==
    ASSUME Inv
    PROVE  /\ UNCHANGED <<task, mapped, completed>> => TaskInv'
           /\ UNCHANGED <<mir, tgt, slot>> => MirrorInv'
           /\ UNCHANGED <<task, slot, mir, call>> => GateInv'
           /\ UNCHANGED <<task, mir>> => LockInv'
           /\ UNCHANGED <<mapped, vol>> => MappedInv'
           /\ UNCHANGED <<slot, mir, task, vol, tgt, torn>> => ContentInv'
           /\ UNCHANGED <<call, mir, tgt, vol, torn>> => StopInv'
           /\ UNCHANGED <<handed, mir, tgt>> => HandedInv'
           /\ UNCHANGED <<synced, completed, slot, mir, task, tgt>> => DirtyInv'
           /\ UNCHANGED <<overlap, call, slot, recorded, standing>> => RecordInv'
<1> USE DEF Inv
<1>1. UNCHANGED <<task, mapped, completed>> => TaskInv'
    BY DEF TaskInv, Local
<1>2. UNCHANGED <<mir, tgt, slot>> => MirrorInv'
    BY DEF MirrorInv
<1>3. UNCHANGED <<task, slot, mir, call>> => GateInv'
    BY DEF GateInv, IsLive
<1>4. UNCHANGED <<task, mir>> => LockInv'
    BY DEF LockInv
<1>5. UNCHANGED <<mapped, vol>> => MappedInv'
    BY DEF MappedInv
<1>6. UNCHANGED <<slot, mir, task, vol, tgt, torn>> => ContentInv'
    BY DEF ContentInv, IsLive
<1>7. UNCHANGED <<call, mir, tgt, vol, torn>> => StopInv'
    BY DEF StopInv
<1>8. UNCHANGED <<handed, mir, tgt>> => HandedInv'
    BY DEF HandedInv
<1>9. UNCHANGED <<synced, completed, slot, mir, task, tgt>> => DirtyInv'
    BY DEF DirtyInv, IsLive
<1>10. UNCHANGED <<overlap, call, slot, recorded, standing>> => RecordInv'
    BY DEF RecordInv
<1>11. QED
    BY <1>1, <1>2, <1>3, <1>4, <1>5, <1>6, <1>7, <1>8, <1>9, <1>10

\* Spending from the budget keeps the counts counts.
LEMMA SpendType == ASSUME TypeOK, NEW e \in Event, Spend(e) PROVE spent' \in [Event -> Nat]
BY DEF TypeOK, Spend

\* The states calls are put in.
LEMMA CallTypes ==
    /\ NoCall \in CallState /\ Forgetting \in CallState
    /\ \A g \in Target : [NoCall EXCEPT !.pc = "record", !.target = g] \in CallState
    /\ \A m \in Mirror, b \in BOOLEAN : [NoCall EXCEPT !.pc = "stopping", !.m = m, !.live = b] \in CallState
    /\ \A r \in CallState : [r EXCEPT !.pc = "set"] \in CallState /\ [r EXCEPT !.pc = "undo"] \in CallState
BY DEF NoCall, Forgetting, CallState

-----------------------------------------------------------------------------
(* Calls of the API *)

\* A call may begin when the volume has no mirror.
LEMMA StartStep == ASSUME Inv, NEW c \in Caller, NEW g \in Target, Start(c, g) PROVE Inv'
<1> TypeOK
    BY DEF Inv
<1> USE DEF Start, BeginCall, volVars, countVars
<1>1. call' \in [Caller -> CallState] /\ overlap' \in BOOLEAN /\ spent' \in [Event -> Nat]
    BY SpendType, CallTypes DEF TypeOK, Event
<1>2. TypeOK'
    BY <1>1 DEF TypeOK
<1>3. \A d \in Caller : call'[d] = IF d = c THEN [NoCall EXCEPT !.pc = "record", !.target = g] ELSE call[d]
    BY DEF TypeOK
<1>4. GateInv'
    BY <1>3 DEF Inv, GateInv, NoCall, IsLive
<1>5. StopInv'
    BY <1>3, SMTT(40) DEF Inv, StopInv, NoCall
<1>6. RecordInv'
    <2> SUFFICES ASSUME ~ overlap' PROVE RecordInv'
        BY DEF RecordInv
    <2>1. ~ overlap /\ \A d \in Caller \ {c} : call[d] = NoCall
        OBVIOUS
    <2>2. NoCall.pc = "idle" /\ [NoCall EXCEPT !.pc = "record", !.target = g].pc = "record"
        BY DEF NoCall
    <2>3. slot = None /\ \A d \in Caller \ {c} : call'[d] = NoCall
        BY <1>3, <2>1
    <2>4. call'[c].pc = "record"
        BY <1>3, <2>2
    <2>5. QED
        BY <2>1, <2>2, <2>3, <2>4 DEF Inv, RecordInv
<1>7. QED
    BY <1>2, <1>4, <1>5, <1>6, Frame DEF Inv

\* A start is recorded before anything else, or refused.
LEMMA RecordStartStep == ASSUME Inv, NEW c \in Caller, RecordStart(c) PROVE Inv'
<1> TypeOK
    BY DEF Inv
<1> USE DEF RecordStart, volVars, countVars, histVars
<1>1. PICK r \in CallState :
        /\ call' = [call EXCEPT ![c] = r]
        /\ \/ r = [call[c] EXCEPT !.pc = "set"] /\ recorded' = call[c].target /\ UNCHANGED spent
           \/ r = NoCall /\ recorded' = recorded /\ Spend("faults")
    BY CallTypes DEF TypeOK
<1>2. call[c].target \in Target
    BY DEF Inv, GateInv
<1>3. TypeOK'
    <2>1. spent' \in [Event -> Nat]
        BY <1>1, SpendType DEF TypeOK, Event
    <2>2. QED
        BY <1>1, <1>2, <2>1 DEF TypeOK
<1>4. \A d \in Caller : call'[d] = IF d = c THEN r ELSE call[d]
    BY <1>1 DEF TypeOK
<1>5. /\ r.pc \in {"idle", "set"} /\ r.target \in {None, call[c].target}
      /\ r.pc = "set" => r.target = call[c].target
    BY <1>1 DEF NoCall, TypeOK, CallState
<1>6. GateInv'
    BY <1>2, <1>4, <1>5 DEF Inv, GateInv, IsLive
<1>7. StopInv'
    BY <1>4, <1>5 DEF Inv, StopInv
<1>8. RecordInv'
    <2> SUFFICES ASSUME ~ overlap' PROVE RecordInv'
        BY DEF RecordInv
    <2>1. call[c] # NoCall /\ NoCall.pc = "idle"
        BY DEF NoCall
    <2>2. slot = None /\ \A d \in Caller \ {c} : call'[d] = NoCall
        BY <1>4, <2>1 DEF Inv, RecordInv
    <2>3. r.pc = "set" => recorded' # None
        BY <1>1, <1>2, <2>1, NoneAssumption
    <2>4. standing => recorded' # None
        BY <1>1, <1>2, NoneAssumption DEF Inv, RecordInv
    <2>5. QED
        BY <1>4, <1>5, <2>1, <2>2, <2>3, <2>4 DEF RecordInv
<1>9. QED
    BY <1>3, <1>6, <1>7, <1>8, Frame DEF Inv

\* The record goes.
LEMMA ForgetStep == ASSUME Inv, NEW c \in Caller, Forget(c) PROVE Inv'
<1> TypeOK
    BY DEF Inv
<1> USE DEF Forget, volVars, countVars, histVars
<1>1. call' = [call EXCEPT ![c] = NoCall] /\ recorded' \in {recorded, None}
    OBVIOUS
<1>2. TypeOK'
    <2>1. spent' \in [Event -> Nat]
        BY SpendType DEF TypeOK, Event
    <2>2. QED
        BY <1>1, <2>1, CallTypes DEF TypeOK
<1>3. \A d \in Caller : call'[d] = IF d = c THEN NoCall ELSE call[d]
    BY <1>1 DEF TypeOK
<1>4. GateInv'
    BY <1>3 DEF Inv, GateInv, IsLive, NoCall
<1>5. StopInv'
    BY <1>3 DEF Inv, StopInv, NoCall
<1>6. RecordInv'
    <2> SUFFICES ASSUME ~ overlap' PROVE RecordInv'
        BY DEF RecordInv
    <2>1. call[c] # NoCall /\ NoCall.pc = "idle"
        BY DEF NoCall
    <2>2. ~ standing /\ \A d \in Caller : call'[d] = NoCall
        BY <1>3, <2>1 DEF Inv, RecordInv
    <2>3. QED
        BY <2>1, <2>2 DEF RecordInv
<1>7. QED
    BY <1>2, <1>4, <1>5, <1>6, Frame DEF Inv

-----------------------------------------------------------------------------
(* The copy *)

\* The states a mirror is put in.
LEMMA MirrorTypes ==
    ASSUME NEW r \in MirrorState
    PROVE  /\ [r EXCEPT !.pc = "ended"] \in MirrorState
           /\ [r EXCEPT !.pc = "ended", !.failed = TRUE] \in MirrorState
           /\ [r EXCEPT !.failed = TRUE] \in MirrorState
           /\ [r EXCEPT !.pc = "flushed"] \in MirrorState
           /\ [r EXCEPT !.pc = "ended", !.synced = TRUE] \in MirrorState
           /\ [r EXCEPT !.stopping = TRUE] \in MirrorState
           /\ [r EXCEPT !.pc = "ended", !.list = {}] \in MirrorState
           /\ \A v \in Nat : [r EXCEPT !.pc = "send", !.read = v] \in MirrorState
           /\ \A L \in SUBSET Extent :
                /\ [r EXCEPT !.pc = "copy", !.list = L, !.read = Blank] \in MirrorState
                /\ [r EXCEPT !.pc = "ended", !.list = L, !.read = Blank, !.failed = TRUE] \in MirrorState
BY DEF MirrorState, Blank

\* A mirror's next state, of a step of its copy or of an error of its target.
Onward(m, r) ==
    /\ r \in MirrorState /\ mir[m].pc # "none" /\ r.pc # "none"
    /\ r.target = mir[m].target /\ r.fresh = mir[m].fresh /\ r.stopping = mir[m].stopping
    /\ mir[m].failed => r.failed
    /\ r.pc = "send" => r.list # {}
    /\ r.pc = "flushed" => r.list = {}
    /\ r.synced => r.pc = "ended" /\ r.list = {}

\* What such a step keeps, when it writes to no target but the mirror's own.
LEMMA OnwardStep ==
    ASSUME Inv, NEW m \in Mirror, NEW r, Onward(m, r), mir' = [mir EXCEPT ![m] = r],
           tgt' \in TargetState, \A g \in Target : g # mir[m].target => tgt'[g] = tgt[g],
           UNCHANGED slot
    PROVE  /\ mir' \in [Mirror -> MirrorState]
           /\ \A n \in Mirror : /\ mir'[n].target = mir[n].target /\ mir'[n].fresh = mir[n].fresh
                                /\ mir'[n].stopping = mir[n].stopping /\ (mir[n].failed => mir'[n].failed)
                                /\ n # m => mir'[n] = mir[n]
           /\ mir'[m] = r
           /\ MirrorInv'
           /\ UNCHANGED <<task, call>> => GateInv'
           /\ IsLive(slot)' => IsLive(slot)
<1> TypeOK /\ mir[m].target \in Target
    BY DEF Inv, MirrorInv, Onward
<1>1. mir' \in [Mirror -> MirrorState] /\ mir'[m] = r /\ \A n \in Mirror \ {m} : mir'[n] = mir[n]
    BY DEF TypeOK, Onward
<1>2. \A n \in Mirror : /\ mir'[n].target = mir[n].target /\ mir'[n].fresh = mir[n].fresh
                        /\ mir'[n].stopping = mir[n].stopping /\ (mir[n].failed => mir'[n].failed)
                        /\ (mir'[n].pc = "none" <=> mir[n].pc = "none")
    BY <1>1 DEF Onward
<1>3. MirrorInv'
    <2>1. \A n \in Mirror :
            /\ mir'[n].pc = "send" => mir'[n].list # {}
            /\ mir'[n].pc = "flushed" => mir'[n].list = {}
            /\ mir'[n].synced => mir'[n].pc = "ended" /\ mir'[n].list = {}
            /\ mir'[n].pc # "none" => mir'[n].target \in Target
        BY <1>1 DEF Inv, MirrorInv, Onward
    <2>2. \A n \in Mirror : mir'[n].pc = "none" => mir'[n] = Unused
        BY <1>1 DEF Inv, MirrorInv, Onward
    <2>3. \A k, n \in Mirror : k # n /\ mir'[k].pc # "none" /\ mir'[k].target = mir'[n].target
                => ~ (mir'[k].fresh /\ mir'[n].fresh)
        BY <1>2 DEF Inv, MirrorInv
    <2>4. \A g \in Target : (\A n \in Mirror : mir'[n].target # g) => \A e \in Extent : tgt'[g][e] = Durable(Blank)
        BY <1>2 DEF Inv, MirrorInv
    <2>5. slot # None => slot \in Mirror
        BY DEF TypeOK
    <2>6. slot # None => /\ mir'[slot].pc # "none" /\ ~ mir'[slot].stopping
                         /\ mir'[slot].fresh => \A n \in Mirror \ {slot} : mir'[n].target # mir'[slot].target
        BY <1>2, <2>5 DEF Inv, MirrorInv
    <2>7. QED
        BY <2>1, <2>2, <2>3, <2>4, <2>6 DEF MirrorInv
<1>4. IsLive(slot)' => IsLive(slot)
    BY <1>2 DEF IsLive, TypeOK
<1>5. UNCHANGED <<task, call>> => GateInv'
    BY <1>2, <1>4 DEF Inv, GateInv
<1>6. QED
    BY <1>1, <1>2, <1>3, <1>4, <1>5

\* A mirror that was stopped is not written to any more, once it is synced.
LEMMA OnwardTargets ==
    ASSUME Inv, NEW m \in Mirror, NEW r, Onward(m, r), mir' = [mir EXCEPT ![m] = r],
           tgt' \in TargetState, \A g \in Target : g # mir[m].target => tgt'[g] = tgt[g],
           UNCHANGED <<vol, slot, call, torn, handed>>,
           mir[m].pc = "ended" => ~ mir[m].stopping,
           mir[m].stopping /\ (r.pc = "flushed" \/ r.synced) => mir[m].pc = "flushed" /\ UNCHANGED tgt
    PROVE  StopInv' /\ HandedInv'
<1> TypeOK /\ mir[m].target \in Target
    BY DEF Inv, MirrorInv, Onward
<1>1. /\ mir'[m] = r
      /\ \A n \in Mirror : /\ mir'[n].target = mir[n].target /\ mir'[n].fresh = mir[n].fresh
                           /\ mir'[n].stopping = mir[n].stopping /\ (mir[n].failed => mir'[n].failed)
                           /\ n # m => mir'[n] = mir[n]
    BY OnwardStep
<1>2. StopInv'
    <2> SUFFICES ASSUME NEW c \in Caller, call[c].pc = "stopping", call[c].live,
                        ~ mir'[call[c].m].failed, mir'[call[c].m].fresh,
                        mir'[call[c].m].pc = "flushed" \/ mir'[call[c].m].synced,
                        NEW e \in Extent \ torn
                 PROVE  tgt'[mir'[call[c].m].target][e].cur = vol[e]
        BY DEF StopInv
    <2> DEFINE n == call[c].m
    <2>1. /\ n \in Mirror /\ mir[n].stopping /\ mir[n].pc # "none"
          /\ mir[n].fresh => \A k \in Mirror \ {n} : mir[k].target # mir[n].target
        BY DEF Inv, GateInv
    <2>2. mir[n].target \in Target
        BY <2>1 DEF Inv, MirrorInv
    <2>3. tgt'[mir[n].target] = tgt[mir[n].target] /\ (mir[n].pc = "flushed" \/ mir[n].synced)
        BY <1>1, <2>1, <2>2
    <2>4. QED
        BY <1>1, <2>1, <2>3, SMTT(40) DEF Inv, StopInv
<1>3. HandedInv'
    <2> SUFFICES ASSUME NEW g \in Target, handed[g] # None, \A n \in Mirror : mir'[n].target = g => mir'[n].fresh
                 PROVE  /\ \A n \in Mirror : mir'[n].target = g => mir'[n].stopping /\ mir'[n].pc = "ended"
                        /\ \A e \in DOMAIN handed[g] : e \in Extent /\ tgt'[g][e] = Durable(handed[g][e])
        BY DEF HandedInv
    <2>1. /\ \A n \in Mirror : mir[n].target = g => mir[n].stopping /\ mir[n].pc = "ended"
          /\ \A e \in DOMAIN handed[g] : e \in Extent /\ tgt[g][e] = Durable(handed[g][e])
        BY <1>1 DEF Inv, HandedInv
    <2>2. mir[m].target # g
        BY <2>1
    <2>3. QED
        BY <1>1, <2>1, <2>2
<1>4. QED
    BY <1>2, <1>3

\* An extent of a mirror's list is found.
LEMMA ListMin ==
    ASSUME Inv, NEW m \in Mirror, mir[m].list # {}
    PROVE  Min(mir[m].list) \in mir[m].list /\ Min(mir[m].list) \in Extent
<1>1. mir[m].list \in SUBSET Extent
    BY DEF Inv, TypeOK, MirrorState
<1>2. QED
    BY <1>1, MinExtent

\* The copy locks and reads an extent, or ends.
LEMMA CopyReadStep == ASSUME Inv, NEW m \in Mirror, CopyRead(m) PROVE Inv'
<1> TypeOK
    BY DEF Inv
<1> USE DEF CopyRead, volVars, countVars, histVars
<1>1. mir[m] \in MirrorState /\ mir[m].pc = "copy" /\ ~ mir[m].synced
    BY DEF TypeOK, Inv, MirrorInv
<1>2. PICK r \in MirrorState :
        /\ mir' = [mir EXCEPT ![m] = r]
        /\ \/ r = [mir[m] EXCEPT !.pc = "ended"] /\ ~ IsLive(m)
           \/ r = [mir[m] EXCEPT !.pc = "ended", !.failed = TRUE]
           \/ /\ r = [mir[m] EXCEPT !.pc = "send", !.read = vol[Min(mir[m].list)]]
              /\ mir[m].list # {} /\ ~ Locked(m, Min(mir[m].list))
    <2>1. mir[m].list # {} => vol[Min(mir[m].list)] \in Nat
        BY ListMin DEF TypeOK
    <2>2. QED
        BY <1>1, <2>1, MirrorTypes, ZenonT(40)
<1>3. Onward(m, r) /\ r.list = mir[m].list /\ ~ r.synced /\ r.pc \in {"ended", "send"}
    BY <1>1, <1>2 DEF Onward, MirrorState
<1>a. r.pc = "send" => r.read = vol[Min(mir[m].list)] /\ ~ Locked(m, Min(mir[m].list))
    BY <1>1, <1>2 DEF MirrorState
<1>4. /\ mir' \in [Mirror -> MirrorState] /\ mir'[m] = r /\ \A n \in Mirror \ {m} : mir'[n] = mir[n]
      /\ \A n \in Mirror : mir'[n].target = mir[n].target /\ mir'[n].fresh = mir[n].fresh
      /\ MirrorInv' /\ GateInv' /\ (IsLive(slot)' => IsLive(slot))
    BY <1>2, <1>3, OnwardStep DEF TypeOK
<1>5. StopInv' /\ HandedInv'
    BY <1>1, <1>2, <1>3, OnwardTargets DEF TypeOK
<1>6. TypeOK'
    <2>1. spent' \in [Event -> Nat]
        BY SpendType DEF TypeOK, Event
    <2>2. QED
        BY <1>4, <2>1 DEF TypeOK
<1>7. LockInv'
    <2>1. ASSUME NEW t \in Task, Busy(task[t]), task[t].m # None, mir'[task[t].m].pc = "send"
          PROVE  Min(mir'[task[t].m].list) \notin task[t].held
        <3>1. task[t].m \in Mirror
            BY <2>1 DEF TypeOK, TaskState
        <3>2. CASE task[t].m = m
            BY <1>a, <1>3, <1>4, <2>1, <3>2 DEF Locked, Busy
        <3>3. CASE task[t].m # m
            BY <1>4, <2>1, <3>1, <3>3 DEF Inv, LockInv
        <3>4. QED
            BY <3>2, <3>3
    <2>2. QED
        BY <2>1 DEF Inv, LockInv
<1>8. ContentInv'
    <2> SUFFICES ASSUME IsLive(slot)', mir'[slot].fresh PROVE ContentInv'
        BY DEF ContentInv
    <2>1. IsLive(slot) /\ slot \in Mirror /\ mir[slot].fresh
        BY <1>4 DEF TypeOK, IsLive
    <2>2. mir'[slot].list = mir[slot].list /\ mir'[slot].target = mir[slot].target
        BY <1>3, <1>4, <2>1
    <2>3. mir'[slot].pc = "send" => mir'[slot].read = vol[Min(mir[slot].list)]
        <3>1. CASE slot = m
            BY <1>a, <1>4, <3>1
        <3>2. CASE slot # m
            BY <1>4, <2>1, <3>2 DEF Inv, ContentInv
        <3>3. QED
            BY <3>1, <3>2
    <2>4. QED
        BY <2>1, <2>2, <2>3 DEF Inv, ContentInv
<1>9. DirtyInv'
    <2>1. IsLive(slot)' /\ mir'[slot].fresh /\ (mir'[slot].pc = "flushed" \/ mir'[slot].synced) =>
            IsLive(slot) /\ slot \in Mirror /\ mir[slot].fresh /\ (mir[slot].pc = "flushed" \/ mir[slot].synced)
            /\ mir'[slot].target = mir[slot].target
        BY <1>3, <1>4 DEF TypeOK, IsLive
    <2>2. QED
        BY <2>1 DEF Inv, DirtyInv
<1>10. QED
    BY <1>4, <1>5, <1>6, <1>7, <1>8, <1>9, Frame DEF Inv

\* What is sent reaches one target.
LEMMA SentElsewhere ==
    ASSUME TypeOK, NEW m \in Mirror, mir[m].target \in Target, NEW R \in SUBSET Extent, NEW v \in Nat
    PROVE  \A g \in Target : g # mir[m].target => Sent(m, R, v)[g] = tgt[g]
BY DEF Sent, TypeOK, TargetState

\* The target has what was sent.
LEMMA SentThere ==
    ASSUME TypeOK, NEW m \in Mirror, mir[m].target \in Target, NEW R \in SUBSET Extent, NEW v \in Nat
    PROVE  \A e \in R : Sent(m, R, v)[mir[m].target][e].cur = v
BY DEF Sent, TypeOK, TargetState, Put

\* Nothing else there changes.
LEMMA SentKeeps ==
    ASSUME TypeOK, NEW m \in Mirror, mir[m].target \in Target, NEW R \in SUBSET Extent, NEW v \in Nat
    PROVE  \A e \in Extent \ R : Sent(m, R, v)[mir[m].target][e] = tgt[mir[m].target][e]
BY DEF Sent, TypeOK, TargetState

\* What a target holds after a flush.
LEMMA FlushFacts ==
    ASSUME TypeOK, NEW g \in Target
    PROVE  LET f == [tgt EXCEPT ![g] = FlushAll(@)]
           IN  /\ f \in TargetState
               /\ \A h \in Target : h # g => f[h] = tgt[h]
               /\ \A e \in Extent : f[g][e].cur = tgt[g][e].cur /\ f[g][e] = Durable(tgt[g][e].cur)
               /\ \A e \in Extent : f[g][e].may = {f[g][e].cur}
<1>1. [tgt EXCEPT ![g] = FlushAll(@)] \in TargetState
    BY FlushType
<1>2. [tgt EXCEPT ![g] = FlushAll(@)][g] = [e \in Extent |-> Durable(tgt[g][e].cur)]
    BY DEF TypeOK, TargetState, FlushAll, Flushed
<1>3. QED
    BY <1>1, <1>2 DEF Durable, TypeOK, TargetState

\* What a request with a mirror has written is locked.
LEMMA WrittenHeld ==
    ASSUME Inv, NEW t \in Task, Busy(task[t]), task[t].m # None
    PROVE  Written(task[t]) \subseteq task[t].held
BY DEF Inv, TaskInv, Local, Busy, Written

\* The copy sends what it read, and lets the extent go.
LEMMA CopySendStep == ASSUME Inv, NEW m \in Mirror, CopySend(m) PROVE Inv'
<1> TypeOK
    BY DEF Inv
<1> USE DEF CopySend, volVars, countVars, histVars
<1> DEFINE e0 == Min(mir[m].list)
<1>1. /\ mir[m] \in MirrorState /\ mir[m].pc = "send" /\ ~ mir[m].synced /\ mir[m].list # {}
      /\ mir[m].read \in Nat /\ mir[m].target \in Target /\ mir[m].list \in SUBSET Extent
    BY DEF TypeOK, Inv, MirrorInv, MirrorState
<1>2. e0 \in mir[m].list /\ e0 \in Extent /\ {e0} \in SUBSET Extent
    BY <1>1, ListMin
<1>3. PICK r \in MirrorState :
        /\ mir' = [mir EXCEPT ![m] = r]
        /\ \/ /\ r = [mir[m] EXCEPT !.pc = "copy", !.list = mir[m].list \ {e0}, !.read = Blank]
              /\ tgt' = IF mir[m].read = Blank THEN tgt ELSE Sent(m, {e0}, mir[m].read)
           \/ /\ r = [mir[m] EXCEPT !.pc = "ended", !.list = mir[m].list \ {e0}, !.read = Blank, !.failed = TRUE]
              /\ tgt' \in {tgt, Sent(m, {e0}, mir[m].read)}
    <2>1. mir[m].list \ {e0} \in SUBSET Extent
        BY <1>1
    <2>2. /\ [mir[m] EXCEPT !.pc = "copy", !.list = mir[m].list \ {e0}, !.read = Blank] \in MirrorState
          /\ [mir[m] EXCEPT !.pc = "ended", !.list = mir[m].list \ {e0}, !.read = Blank, !.failed = TRUE] \in MirrorState
        BY <1>1, <2>1, MirrorTypes
    <2> DEFINE done == [mir[m] EXCEPT !.pc = "copy", !.list = @ \ {e0}, !.read = Blank]
    <2>3. [done EXCEPT !.pc = "ended", !.failed = TRUE] =
             [mir[m] EXCEPT !.pc = "ended", !.list = mir[m].list \ {e0}, !.read = Blank, !.failed = TRUE]
        BY <1>1 DEF MirrorState
    <2>4. \/ mir' = [mir EXCEPT ![m] = done] /\ tgt' = IF mir[m].read = Blank THEN tgt ELSE Sent(m, {e0}, mir[m].read)
          \/ /\ mir' = [mir EXCEPT ![m] = [done EXCEPT !.pc = "ended", !.failed = TRUE]]
             /\ tgt' \in {tgt, Sent(m, {e0}, mir[m].read)}
        OBVIOUS
    <2>5. QED
        BY <2>2, <2>3, <2>4, Zenon
<1> HIDE DEF e0
<1>4. /\ Onward(m, r) /\ r.list = mir[m].list \ {e0} /\ ~ r.synced /\ r.pc \in {"copy", "ended"}
      /\ ~ r.failed => tgt' = IF mir[m].read = Blank THEN tgt ELSE Sent(m, {e0}, mir[m].read)
    BY <1>1, <1>3, ZenonT(40) DEF Onward, MirrorState
<1> DEFINE S == Sent(m, {e0}, mir[m].read)
<1>b. /\ S \in TargetState
      /\ \A g \in Target : g # mir[m].target => S[g] = tgt[g]
      /\ S[mir[m].target][e0].cur = mir[m].read
      /\ \A e \in Extent \ {e0} : S[mir[m].target][e] = tgt[mir[m].target][e]
    <2>1. S \in TargetState
        BY <1>1, <1>2, SentType
    <2>2. \A g \in Target : g # mir[m].target => S[g] = tgt[g]
        BY <1>1, <1>2, SentElsewhere
    <2>3. S[mir[m].target][e0].cur = mir[m].read
        BY <1>1, <1>2 DEF Sent, TypeOK, TargetState, Put
    <2>4. \A e \in Extent \ {e0} : S[mir[m].target][e] = tgt[mir[m].target][e]
        BY <1>1, <1>2, SentKeeps
    <2>5. QED
        BY <2>1, <2>2, <2>3, <2>4
<1> HIDE DEF S
<1>c. tgt' \in {tgt, S} /\ (~ r.failed => tgt' = IF mir[m].read = Blank THEN tgt ELSE S)
    BY <1>3, <1>4 DEF S
<1>5. /\ tgt' \in TargetState
      /\ \A g \in Target : g # mir[m].target => tgt'[g] = tgt[g]
    BY <1>b, <1>c DEF TypeOK
<1>6. /\ mir' \in [Mirror -> MirrorState] /\ mir'[m] = r /\ \A n \in Mirror \ {m} : mir'[n] = mir[n]
      /\ \A n \in Mirror : mir'[n].target = mir[n].target /\ mir'[n].fresh = mir[n].fresh
      /\ MirrorInv' /\ GateInv' /\ (IsLive(slot)' => IsLive(slot))
    BY <1>3, <1>4, <1>5, OnwardStep
<1>7. StopInv' /\ HandedInv'
    BY <1>1, <1>3, <1>4, <1>5, OnwardTargets
<1>8. TypeOK'
    <2>1. spent' \in [Event -> Nat]
        BY SpendType DEF TypeOK, Event
    <2>2. QED
        BY <1>5, <1>6, <2>1 DEF TypeOK
<1>9. LockInv'
    BY <1>4, <1>6 DEF Inv, LockInv, TypeOK, TaskState
<1>10. ContentInv'
    <2> SUFFICES ASSUME IsLive(slot)', mir'[slot].fresh PROVE ContentInv'
        BY DEF ContentInv
    <2>1. IsLive(slot) /\ slot \in Mirror /\ mir[slot].fresh /\ mir'[slot].target = mir[slot].target
        BY <1>6 DEF TypeOK, IsLive
    <2>2. CASE slot # m
        <3>1. mir'[slot] = mir[slot] /\ tgt'[mir[slot].target] = tgt[mir[slot].target]
            BY <1>5, <1>6, <2>1, <2>2 DEF Inv, MirrorInv, IsLive
        <3>2. QED
            BY <2>1, <3>1 DEF Inv, ContentInv
    <2>3. CASE slot = m
        <3>1. mir[m].read = vol[e0] /\ tgt' = IF mir[m].read = Blank THEN tgt ELSE S
            BY <1>1, <1>c, <1>6, <2>1, <2>3 DEF Inv, ContentInv, IsLive, e0
        <3>2. \A t \in Task : Busy(task[t]) => e0 \notin Written(task[t])
            BY <1>1, <2>1, <2>3, WrittenHeld DEF Inv, GateInv, LockInv, IsLive, e0
        <3>3. \A e \in Extent \ {e0} : tgt'[mir[m].target][e].cur = tgt[mir[m].target][e].cur
            BY <1>b, <3>1
        <3>4. e0 \notin torn => tgt'[mir[m].target][e0].cur = vol[e0]
            <4>1. CASE mir[m].read = Blank
                BY <1>2, <2>1, <2>3, <3>1, <3>2, <4>1 DEF Inv, ContentInv
            <4>2. CASE mir[m].read # Blank
                BY <1>b, <1>2, <3>1, <4>2
            <4>3. QED
                BY <4>1, <4>2
        <3>5. mir'[slot].list = mir[m].list \ {e0} /\ mir'[slot].pc # "send"
            BY <1>4, <1>6, <2>3
        <3>6. ASSUME NEW e \in Extent \ torn, \A t \in Task : Busy(task[t]) => e \notin Written(task[t])
              PROVE  \/ tgt'[mir[m].target][e].cur = vol[e]
                     \/ e \in mir'[slot].list /\ tgt'[mir[m].target][e].cur = Blank
            BY <2>1, <2>3, <3>3, <3>4, <3>5, <3>6 DEF Inv, ContentInv
        <3>7. QED
            BY <2>1, <2>3, <3>5, <3>6 DEF Inv, ContentInv
    <2>4. QED
        BY <2>2, <2>3
<1>11. DirtyInv'
    <2> SUFFICES ASSUME IsLive(slot)', mir'[slot].fresh, mir'[slot].pc = "flushed" \/ mir'[slot].synced PROVE DirtyInv'
        BY DEF Inv, DirtyInv
    <2>1. slot # m /\ slot \in Mirror
        BY <1>4, <1>6 DEF TypeOK, IsLive
    <2>2. mir'[slot] = mir[slot] /\ tgt'[mir[slot].target] = tgt[mir[slot].target]
        BY <1>5, <1>6, <2>1 DEF Inv, MirrorInv, IsLive
    <2>3. QED
        BY <1>6, <2>2 DEF Inv, DirtyInv
<1>12. QED
    BY <1>6, <1>7, <1>8, <1>9, <1>10, <1>11, Frame DEF Inv

\* The copy flushes the target once it is through.
LEMMA CopyDoneStep == ASSUME Inv, NEW m \in Mirror, CopyDone(m) PROVE Inv'
<1> TypeOK
    BY DEF Inv
<1> USE DEF CopyDone, volVars, countVars, histVars
<1> DEFINE F == [tgt EXCEPT ![mir[m].target] = FlushAll(@)]
<1>1. /\ mir[m] \in MirrorState /\ mir[m].pc = "copy" /\ ~ mir[m].synced /\ mir[m].list = {}
      /\ mir[m].target \in Target /\ ~ mir[m].stopping
    BY DEF TypeOK, Inv, MirrorInv, MirrorState, IsLive
<1>2. /\ F \in TargetState
      /\ \A g \in Target : g # mir[m].target => F[g] = tgt[g]
      /\ \A e \in Extent : F[mir[m].target][e].cur = tgt[mir[m].target][e].cur
      /\ \A e \in Extent : F[mir[m].target][e].may = {F[mir[m].target][e].cur}
    BY <1>1, FlushFacts
<1>3. PICK r \in MirrorState :
        /\ mir' = [mir EXCEPT ![m] = r]
        /\ \/ r = [mir[m] EXCEPT !.pc = "flushed"] /\ tgt' = F
           \/ r = [mir[m] EXCEPT !.pc = "ended", !.failed = TRUE] /\ tgt' = tgt
    BY <1>1, MirrorTypes DEF TypeOK
<1> HIDE DEF F
<1>4. /\ Onward(m, r) /\ r.list = mir[m].list /\ ~ r.synced /\ r.pc \in {"flushed", "ended"}
      /\ r.pc = "flushed" => tgt' = F
    BY <1>1, <1>3 DEF Onward, MirrorState
<1>5. /\ tgt' \in TargetState
      /\ \A g \in Target : g # mir[m].target => tgt'[g] = tgt[g]
      /\ \A e \in Extent : tgt'[mir[m].target][e].cur = tgt[mir[m].target][e].cur
    BY <1>2, <1>3 DEF TypeOK
<1>6. /\ mir' \in [Mirror -> MirrorState] /\ mir'[m] = r /\ \A n \in Mirror \ {m} : mir'[n] = mir[n]
      /\ \A n \in Mirror : mir'[n].target = mir[n].target /\ mir'[n].fresh = mir[n].fresh
      /\ MirrorInv' /\ GateInv' /\ (IsLive(slot)' => IsLive(slot))
    BY <1>3, <1>4, <1>5, OnwardStep
<1>7. StopInv' /\ HandedInv'
    BY <1>1, <1>3, <1>4, <1>5, OnwardTargets
<1>8. TypeOK'
    <2>1. spent' \in [Event -> Nat]
        BY SpendType DEF TypeOK, Event
    <2>2. QED
        BY <1>5, <1>6, <2>1 DEF TypeOK
<1>9. LockInv'
    BY <1>4, <1>6 DEF Inv, LockInv, TypeOK, TaskState
<1>10. ContentInv'
    <2> SUFFICES ASSUME IsLive(slot)', mir'[slot].fresh PROVE ContentInv'
        BY DEF ContentInv
    <2>1. IsLive(slot) /\ slot \in Mirror /\ mir[slot].fresh /\ mir'[slot].target = mir[slot].target
        BY <1>6 DEF TypeOK, IsLive
    <2>2. mir'[slot].list = mir[slot].list /\ (mir'[slot].pc = "send" => mir'[slot] = mir[slot])
        BY <1>4, <1>6, <2>1
    <2>3. mir[slot].target \in Target
        BY <2>1 DEF Inv, MirrorInv, IsLive
    <2>4. \A e \in Extent : tgt'[mir[slot].target][e].cur = tgt[mir[slot].target][e].cur
        BY <1>5, <2>3
    <2>5. QED
        BY <2>1, <2>2, <2>4 DEF Inv, ContentInv
<1>11. DirtyInv'
    <2> SUFFICES ASSUME IsLive(slot)', mir'[slot].fresh, mir'[slot].pc = "flushed" \/ mir'[slot].synced PROVE DirtyInv'
        BY DEF Inv, DirtyInv
    <2>1. slot \in Mirror
        BY DEF TypeOK, IsLive
    <2>2. CASE slot = m
        BY <1>2, <1>4, <1>6, <2>2 DEF Inv, DirtyInv
    <2>3. CASE slot # m
        <3>1. mir'[slot] = mir[slot] /\ tgt'[mir[slot].target] = tgt[mir[slot].target]
            BY <1>5, <1>6, <2>1, <2>3 DEF Inv, MirrorInv, IsLive
        <3>2. QED
            BY <1>6, <3>1 DEF Inv, DirtyInv
    <2>4. QED
        BY <2>2, <2>3
<1>12. QED
    BY <1>6, <1>7, <1>8, <1>9, <1>10, <1>11, Frame DEF Inv

\* A mirror through with its copy is synced.
LEMMA MarkSyncedStep == ASSUME Inv, NEW m \in Mirror, MarkSynced(m) PROVE Inv'
<1> TypeOK
    BY DEF Inv
<1> USE DEF MarkSynced, volVars, countVars, histVars
<1> DEFINE r == [mir[m] EXCEPT !.pc = "ended", !.synced = TRUE]
<1>1. mir[m] \in MirrorState /\ mir[m].pc = "flushed" /\ mir[m].list = {}
    BY DEF TypeOK, Inv, MirrorInv
<1>2. r \in MirrorState /\ mir' = [mir EXCEPT ![m] = r]
    BY <1>1, MirrorTypes DEF TypeOK
<1>3. Onward(m, r) /\ r.list = mir[m].list /\ r.pc = "ended" /\ r.failed = mir[m].failed
    BY <1>1, <1>2 DEF Onward, MirrorState
<1> HIDE DEF r
<1>4. /\ mir' \in [Mirror -> MirrorState] /\ mir'[m] = r /\ \A n \in Mirror \ {m} : mir'[n] = mir[n]
      /\ \A n \in Mirror : mir'[n].target = mir[n].target /\ mir'[n].fresh = mir[n].fresh
      /\ MirrorInv' /\ GateInv' /\ (IsLive(slot)' => IsLive(slot))
    BY <1>2, <1>3, OnwardStep, ZenonT(40) DEF TypeOK
<1>5. StopInv' /\ HandedInv'
    BY <1>1, <1>2, <1>3, OnwardTargets DEF TypeOK
<1>6. TypeOK'
    BY <1>4 DEF TypeOK
<1>7. LockInv'
    BY <1>3, <1>4 DEF Inv, LockInv, TypeOK, TaskState
<1>8. ContentInv'
    <2> SUFFICES ASSUME IsLive(slot)', mir'[slot].fresh PROVE ContentInv'
        BY DEF ContentInv
    <2>1. IsLive(slot) /\ slot \in Mirror /\ mir[slot].fresh /\ mir'[slot].target = mir[slot].target
        BY <1>4 DEF TypeOK, IsLive
    <2>2. mir'[slot].list = mir[slot].list /\ (mir'[slot].pc = "send" => mir'[slot] = mir[slot])
        BY <1>3, <1>4, <2>1
    <2>3. QED
        BY <2>1, <2>2 DEF Inv, ContentInv
<1>9. DirtyInv'
    <2>1. IsLive(slot)' /\ mir'[slot].fresh /\ (mir'[slot].pc = "flushed" \/ mir'[slot].synced) =>
            IsLive(slot) /\ slot \in Mirror /\ mir[slot].fresh /\ (mir[slot].pc = "flushed" \/ mir[slot].synced)
            /\ mir'[slot].target = mir[slot].target
        BY <1>1, <1>4 DEF TypeOK, IsLive
    <2>2. QED
        BY <2>1 DEF Inv, DirtyInv
<1>10. QED
    BY <1>4, <1>5, <1>6, <1>7, <1>8, <1>9, Frame DEF Inv

-----------------------------------------------------------------------------
(* Calls of the API that have the gate alone *)

\* The mirror is set.
LEMMA SetMirrorStep == ASSUME Inv, NEW c \in Caller, SetMirror(c) PROVE Inv'
<1> TypeOK
    BY DEF Inv
<1> DEFINE g == call[c].target
<1>1. g \in Target /\ g # None /\ call[c].pc = "set"
    BY NoneAssumption DEF Inv, GateInv, SetMirror
<1>2. /\ \A t \in Task : task[t].pc \notin {"lock", "land", "send", "kernel"} /\ ~ Busy(task[t])
      /\ \A d \in Caller : call[d].pc # "stopping"
    BY DEF SetMirror, GateEmpty, GateFree, Busy
<1>3. CASE slot = None
    <2>0. PICK m \in Mirror :
            /\ mir[m] = Unused /\ slot' = m
            /\ mir' = [mir EXCEPT ![m] = [Unused EXCEPT
                          !.pc = "copy", !.target = g, !.list = mapped,
                          !.fresh = \A old \in Mirror : mir[old].target # g]]
        BY <1>3 DEF SetMirror
    <2>1. PICK r :
            /\ mir[m] = Unused /\ slot' = m /\ mir' = [mir EXCEPT ![m] = r]
            /\ r = [Unused EXCEPT !.pc = "copy", !.target = g, !.list = mapped,
                                  !.fresh = \A old \in Mirror : mir[old].target # g]
        BY <2>0
    <2>a. UNCHANGED <<vol, mapped, tgt, recorded, completed, synced, task, budget, spent, ticket, overlap>>
        BY DEF SetMirror, volVars, countVars
    <2> USE <2>a
    <2>2. /\ r \in MirrorState /\ r.pc = "copy" /\ r.target = g /\ r.list = mapped /\ ~ r.stopping /\ ~ r.synced
          /\ r.fresh => \A old \in Mirror : mir[old].target # g
        <3>1. r = [pc |-> "copy", target |-> g, list |-> mapped, read |-> Blank, failed |-> FALSE, synced |-> FALSE,
                   stopping |-> FALSE, fresh |-> \A old \in Mirror : mir[old].target # g]
            BY <2>1 DEF Unused
        <3>2. QED
            BY <1>1, <3>1 DEF MirrorState, TypeOK, Blank
    <2> HIDE DEF g
    <2>3. mir' \in [Mirror -> MirrorState] /\ mir'[m] = r /\ \A n \in Mirror \ {m} : mir'[n] = mir[n]
        BY <2>1, <2>2 DEF TypeOK
    <2>4. m # None /\ mir[m].pc = "none" /\ mir[m].target = None
        <3>1. Unused.pc = "none" /\ Unused.target = None
            BY DEF Unused
        <3>2. QED
            BY <2>1, <3>1, NoneAssumption
    <2>5. /\ \A d \in Caller : call'[d] = IF d = c THEN NoCall ELSE call[d]
          /\ call' \in [Caller -> CallState] /\ NoCall.pc = "idle"
        BY <1>3, CallTypes DEF SetMirror, TypeOK, NoCall
    <2>6. handed' = [handed EXCEPT ![g] = None] /\ torn' = {} /\ standing' = TRUE
        BY <1>3 DEF SetMirror, g
    <2>7. TypeOK'
        BY <2>1, <2>3, <2>5, <2>6 DEF TypeOK
    <2>8. MirrorInv'
        <3>1. \A n \in Mirror :
                /\ mir'[n].pc = "send" => mir'[n].list # {}
                /\ mir'[n].pc = "flushed" => mir'[n].list = {}
                /\ mir'[n].synced => mir'[n].pc = "ended" /\ mir'[n].list = {}
                /\ mir'[n].pc # "none" => mir'[n].target \in Target
            BY <1>1, <2>2, <2>3 DEF Inv, MirrorInv
        <3>2. \A n \in Mirror : mir'[n].pc = "none" => mir'[n] = Unused
            BY <2>2, <2>3 DEF Inv, MirrorInv
        <3>3. \A k, n \in Mirror : k # n /\ mir'[k].pc # "none" /\ mir'[k].target = mir'[n].target
                => ~ (mir'[k].fresh /\ mir'[n].fresh)
            BY <2>2, <2>3 DEF Inv, MirrorInv
        <3>4. \A h \in Target : (\A n \in Mirror : mir'[n].target # h) => \A e \in Extent : tgt'[h][e] = Durable(Blank)
            <4> SUFFICES ASSUME NEW h \in Target, \A n \in Mirror : mir'[n].target # h
                         PROVE  \A e \in Extent : tgt[h][e] = Durable(Blank)
                OBVIOUS
            <4>1. \A n \in Mirror : mir[n].target # h
                BY <2>3, <2>4, NoneAssumption
            <4>2. QED
                BY <4>1 DEF Inv, MirrorInv
        <3>5. /\ mir'[m].pc # "none" /\ ~ mir'[m].stopping
              /\ mir'[m].fresh => \A n \in Mirror \ {m} : mir'[n].target # mir'[m].target
            BY <2>2, <2>3
        <3>6. QED
            BY <2>1, <3>1, <3>2, <3>3, <3>4, <3>5 DEF MirrorInv
    <2>9. GateInv'
        BY <1>2, <2>5 DEF Inv, GateInv
    <2>10. LockInv'
        BY <1>2 DEF LockInv
    <2>11. ContentInv'
        <3> SUFFICES ASSUME mir'[m].fresh PROVE ContentInv'
            BY <2>1 DEF ContentInv
        <3>1. \A e \in Extent : tgt[g][e] = Durable(Blank)
            BY <1>1, <2>2, <2>3 DEF Inv, MirrorInv
        <3>2. \A e \in Extent : tgt[g][e].cur = Blank
            BY <3>1 DEF Durable
        <3>3. \A e \in Extent : tgt[g][e].cur = vol[e] \/ (e \in mapped /\ tgt[g][e].cur = Blank)
            BY <3>2 DEF Inv, MappedInv
        <3>4. QED
            BY <1>2, <2>1, <2>2, <2>3, <3>3 DEF ContentInv
    <2>12. StopInv'
        BY <1>2, <2>5 DEF StopInv
    <2>13. HandedInv'
        <3> SUFFICES ASSUME NEW h \in Target, handed'[h] # None, \A n \in Mirror : mir'[n].target = h => mir'[n].fresh
                     PROVE  /\ \A n \in Mirror : mir'[n].target = h => mir'[n].stopping /\ mir'[n].pc = "ended"
                            /\ \A e \in DOMAIN handed'[h] : e \in Extent /\ tgt'[h][e] = Durable(handed'[h][e])
            BY DEF HandedInv
        <3>1. h # g /\ handed'[h] = handed[h]
            BY <1>1, <2>6 DEF TypeOK
        <3>2. \A n \in Mirror : mir[n].target = h => n # m /\ mir'[n] = mir[n]
            BY <2>3, <2>4, NoneAssumption
        <3>3. \A n \in Mirror : mir[n].target = h => mir[n].fresh
            BY <3>2
        <3>4. QED
            BY <2>2, <2>3, <3>1, <3>2, <3>3 DEF Inv, HandedInv
    <2>14. DirtyInv'
        BY <2>1, <2>2, <2>3 DEF Inv, DirtyInv
    <2>15. RecordInv'
        <3> SUFFICES ASSUME ~ overlap PROVE RecordInv'
            BY DEF RecordInv
        <3>1. call[c] # NoCall
            BY <1>1, <2>5
        <3>2. recorded # None /\ \A d \in Caller : call'[d] = NoCall
            BY <1>1, <2>5, <3>1 DEF Inv, RecordInv
        <3>3. QED
            BY <2>5, <3>2 DEF RecordInv
    <2>16. QED
        BY <2>7, <2>8, <2>9, <2>10, <2>11, <2>12, <2>13, <2>14, <2>15, Frame DEF Inv
<1>4. CASE slot # None
    <2>1. UNCHANGED <<vol, mapped, tgt, slot, mir, recorded, completed, synced, task, budget, spent, ticket, torn,
                      handed, standing, overlap>>
        BY <1>4 DEF SetMirror, volVars, countVars
    <2>2. /\ \A d \in Caller : call'[d] = IF d = c THEN [call[c] EXCEPT !.pc = "undo"] ELSE call[d]
          /\ call' \in [Caller -> CallState]
        BY <1>4, CallTypes, ZenonT(60) DEF SetMirror, TypeOK
    <2>3. call'[c].pc = "undo"
        BY <2>2 DEF TypeOK, CallState
    <2>4. TypeOK'
        BY <2>1, <2>2 DEF TypeOK
    <2>5. GateInv'
        BY <2>1, <2>2, <2>3 DEF Inv, GateInv, IsLive
    <2>6. StopInv'
        BY <2>1, <2>2, <2>3 DEF Inv, StopInv
    <2>7. RecordInv'
        <3>1. overlap'
            BY <1>1, <1>4, <2>1 DEF Inv, RecordInv, TypeOK
        <3>2. QED
            BY <3>1 DEF RecordInv
    <2>8. QED
        BY <2>1, <2>4, <2>5, <2>6, <2>7, Frame DEF Inv
<1>5. QED
    BY <1>3, <1>4

\* The mirror is taken out, or there is none.
LEMMA StopStep == ASSUME Inv, NEW c \in Caller, Stop(c) PROVE Inv'
<1> TypeOK
    BY DEF Inv
<1>1. /\ \A t \in Task : task[t].pc \notin {"lock", "land", "send", "kernel"} /\ ~ Busy(task[t])
      /\ \A d \in Caller : call[d].pc # "stopping"
      /\ call[c] = NoCall /\ NoCall.pc = "idle" /\ Forgetting.pc = "forget"
    BY DEF Stop, GateEmpty, GateFree, Busy, NoCall, Forgetting
<1>2. /\ UNCHANGED <<vol, mapped, tgt, recorded, completed, synced, task, budget, ticket, torn, handed>>
      /\ standing' = FALSE /\ overlap' \in BOOLEAN /\ spent' \in [Event -> Nat]
    BY SpendType DEF Stop, volVars, countVars, BeginCall, TypeOK, Event
<1>3. ASSUME ~ overlap' PROVE ~ overlap /\ \A d \in Caller \ {c} : call[d] = NoCall
    BY <1>3 DEF Stop, BeginCall
<1>4. ASSUME NEW r \in CallState, call' = [call EXCEPT ![c] = r], r.pc \in {"idle", "stopping", "forget"},
             UNCHANGED slot \/ slot' = None
      PROVE  RecordInv'
    <2>1. \A d \in Caller : call'[d] = IF d = c THEN r ELSE call[d]
        BY <1>4 DEF TypeOK
    <2>2. QED
        BY <1>1, <1>2, <1>3, <1>4, <2>1 DEF RecordInv
<1>5. CASE slot = None
    <2>1. PICK r \in CallState : r \in {NoCall, Forgetting} /\ call' = [call EXCEPT ![c] = r]
        BY <1>5, CallTypes DEF Stop, BeginCall
    <2>2. UNCHANGED <<slot, mir>>
        BY <1>5 DEF Stop
    <2>3. /\ \A d \in Caller : call'[d] = IF d = c THEN r ELSE call[d]
          /\ call' \in [Caller -> CallState] /\ r.pc \in {"idle", "forget"}
        BY <1>1, <2>1 DEF TypeOK
    <2>4. TypeOK'
        BY <1>2, <2>2, <2>3 DEF TypeOK
    <2>5. GateInv'
        BY <1>1, <1>2, <2>2, <2>3 DEF Inv, GateInv, IsLive
    <2>6. StopInv'
        BY <1>1, <2>3 DEF StopInv
    <2>7. RecordInv'
        BY <1>4, <2>1, <2>2, <2>3
    <2>8. QED
        BY <1>2, <2>2, <2>4, <2>5, <2>6, <2>7, Frame DEF Inv
<1>6. CASE slot # None
    <2> DEFINE r == [NoCall EXCEPT !.pc = "stopping", !.m = slot, !.live = IsLive(slot)]
               x == [mir[slot] EXCEPT !.stopping = TRUE]
    <2>1. call' = [call EXCEPT ![c] = r] /\ mir' = [mir EXCEPT ![slot].stopping = TRUE] /\ slot' = None
        BY <1>6 DEF Stop, BeginCall
    <2>2. slot \in Mirror /\ mir[slot] \in MirrorState /\ slot # None
        BY <1>6 DEF TypeOK
    <2>3. x \in MirrorState /\ mir' = [mir EXCEPT ![slot] = x]
        BY <2>1, <2>2, MirrorTypes DEF TypeOK
    <2>4. r \in CallState
        BY <2>2, CallTypes DEF IsLive
    <2>5. /\ x.stopping /\ x.pc = mir[slot].pc /\ x.target = mir[slot].target /\ x.list = mir[slot].list
          /\ x.fresh = mir[slot].fresh /\ x.synced = mir[slot].synced /\ x.failed = mir[slot].failed
        BY <2>2 DEF MirrorState
    <2>6. r.pc = "stopping" /\ r.m = slot /\ r.live = IsLive(slot)
        BY DEF NoCall
    <2> HIDE DEF r, x
    <2>7. mir' \in [Mirror -> MirrorState] /\ mir'[slot] = x /\ \A n \in Mirror \ {slot} : mir'[n] = mir[n]
        BY <2>2, <2>3 DEF TypeOK
    <2>8. call' \in [Caller -> CallState] /\ call'[c] = r /\ \A d \in Caller \ {c} : call'[d] = call[d]
        BY <2>1, <2>4 DEF TypeOK
    <2>9. TypeOK'
        BY <1>2, <2>1, <2>7, <2>8 DEF TypeOK
    <2>10. \A n \in Mirror : /\ mir'[n].pc = mir[n].pc /\ mir'[n].target = mir[n].target /\ mir'[n].list = mir[n].list
                             /\ mir'[n].fresh = mir[n].fresh /\ mir'[n].synced = mir[n].synced
                             /\ mir[n].stopping => mir'[n].stopping
        BY <2>5, <2>7
    <2>11. /\ mir[slot].pc # "none"
           /\ mir[slot].fresh => \A n \in Mirror \ {slot} : mir[n].target # mir[slot].target
        BY <2>2 DEF Inv, MirrorInv
    <2>12. MirrorInv'
        <3>1. \A n \in Mirror : mir'[n].pc = "none" => mir'[n] = Unused
            BY <2>5, <2>7, <2>11 DEF Inv, MirrorInv
        <3>2. QED
            BY <1>2, <2>1, <2>10, <3>1 DEF Inv, MirrorInv
    <2>13. GateInv'
        <3>1. \A d \in Caller : call'[d].pc = "stopping" => d = c
            BY <1>1, <2>8
        <3>2. \A t \in Task : ~ Busy(task'[t])
            BY <1>1, <1>2
        <3>3. ~ IsLive(slot)'
            BY <2>1 DEF IsLive
        <3>4. call'[c].m = slot /\ mir'[slot].stopping /\ mir'[slot].pc # "none" /\ call'[c].pc = "stopping"
            BY <2>5, <2>6, <2>7, <2>8, <2>11
        <3>5. mir'[slot].fresh => \A n \in Mirror \ {slot} : mir'[n].target # mir'[slot].target
            BY <2>2, <2>10, <2>11
        <3>6. \A d \in Caller : call'[d].pc \in {"record", "set"} => call'[d].target \in Target
            BY <2>8, <3>4 DEF Inv, GateInv
        <3>7. QED
            BY <1>1, <1>2, <2>1, <2>2, <3>1, <3>2, <3>3, <3>4, <3>5, <3>6 DEF GateInv
    <2>14. LockInv'
        BY <1>1, <1>2 DEF LockInv
    <2>15. ContentInv'
        BY <2>1 DEF ContentInv, IsLive
    <2>16. StopInv'
        <3> SUFFICES ASSUME IsLive(slot), mir[slot].fresh, mir[slot].pc = "flushed" \/ mir[slot].synced,
                            NEW e \in Extent \ torn
                     PROVE  tgt[mir[slot].target][e].cur = vol[e]
            BY <1>1, <1>2, <2>2, <2>6, <2>8, <2>10 DEF StopInv
        <3>1. mir[slot].list = {}
            BY <2>2 DEF Inv, MirrorInv
        <3>2. QED
            BY <1>1, <3>1 DEF Inv, ContentInv
    <2>17. HandedInv'
        BY <1>2, <2>10 DEF Inv, HandedInv
    <2>18. DirtyInv'
        BY <1>2, <2>1 DEF Inv, DirtyInv, IsLive
    <2>19. RecordInv'
        BY <1>4, <2>1, <2>4, <2>6
    <2>20. QED
        BY <1>2, <2>9, <2>12, <2>13, <2>14, <2>15, <2>16, <2>17, <2>18, <2>19, Frame DEF Inv
<1>7. QED
    BY <1>5, <1>6

\* The target is flushed, and may be switched to.
LEMMA FlushAtStopStep == ASSUME Inv, NEW c \in Caller, FlushAtStop(c) PROVE Inv'
<1> TypeOK
    BY DEF Inv
<1> DEFINE m == call[c].m
           g == mir[m].target
           F == [tgt EXCEPT ![g] = FlushAll(@)]
<1>1. /\ call[c].pc = "stopping" /\ slot = None
      /\ \A t \in Task : task[t].pc \notin {"lock", "land", "send", "kernel"} /\ ~ Busy(task[t])
      /\ \A d \in Caller \ {c} : call[d].pc # "stopping"
      /\ m \in Mirror /\ mir[m].stopping /\ mir[m].pc # "none" /\ mir[m] \in MirrorState
      /\ mir[m].fresh => \A n \in Mirror \ {m} : mir[n].target # g
    BY DEF FlushAtStop, Inv, GateInv, Busy, TypeOK
<1>2. g \in Target
    BY <1>1 DEF Inv, MirrorInv
<1>3. /\ F \in TargetState
      /\ \A h \in Target : h # g => F[h] = tgt[h]
      /\ \A e \in Extent : F[g][e] = Durable(tgt[g][e].cur)
    BY <1>2, FlushFacts
<1>4. /\ UNCHANGED <<vol, mapped, slot, recorded, completed, synced, task, budget, ticket, torn, standing, overlap>>
      /\ call' = [call EXCEPT ![c] = Forgetting]
    BY DEF FlushAtStop, volVars, countVars
<1>5. /\ call' \in [Caller -> CallState] /\ Forgetting.pc = "forget"
      /\ \A d \in Caller : call'[d] = IF d = c THEN Forgetting ELSE call[d]
    BY <1>4, CallTypes DEF TypeOK, Forgetting, NoCall
<1>6. PICK r \in MirrorState :
        /\ r \in {mir[m], [mir[m] EXCEPT !.failed = TRUE]} /\ mir' = [mir EXCEPT ![m] = r]
        /\ call[c].live /\ ~ r.failed => tgt' = F
        /\ tgt' \in {tgt, F} /\ spent' \in [Event -> Nat]
        /\ handed' = IF call[c].live /\ ~ r.failed /\ r.synced
                     THEN [handed EXCEPT ![g] = [e \in Extent \ torn |-> vol[e]]] ELSE handed
    <2> DEFINE bad == [mir[m] EXCEPT !.failed = TRUE]
    <2>1. bad \in MirrorState /\ bad.failed /\ [mir EXCEPT ![m] = bad][m] = bad
        <3>1. bad \in MirrorState
            BY <1>1, MirrorTypes
        <3>2. bad.failed
            BY <1>1 DEF MirrorState
        <3>3. [mir EXCEPT ![m] = bad][m] = bad
            BY <1>1 DEF TypeOK
        <3>4. QED
            BY <3>1, <3>2, <3>3
    <2>2. mir = [mir EXCEPT ![m] = mir[m]]
        BY <1>1 DEF TypeOK
    <2>3. CASE ~ call[c].live
        <3>1. UNCHANGED <<tgt, mir, spent>> /\ handed' = handed
            BY <2>3 DEF FlushAtStop
        <3>2. QED
            BY <1>1, <2>2, <2>3, <3>1 DEF TypeOK
    <2>4. CASE call[c].live
        <3>1. handed' = IF ~ mir'[m].failed /\ mir'[m].synced
                        THEN [handed EXCEPT ![g] = [e \in Extent \ torn |-> vol[e]]] ELSE handed
            BY <2>4 DEF FlushAtStop
        <3>2. CASE tgt' = F /\ UNCHANGED <<mir, spent>>
            BY <1>1, <2>2, <2>4, <3>1, <3>2 DEF TypeOK
        <3>3. CASE Spend("lost") /\ mir' = [mir EXCEPT ![m].failed = TRUE] /\ UNCHANGED tgt
            <4>1. spent' \in [Event -> Nat]
                BY <3>3, SpendType DEF Event
            <4>2. mir' = [mir EXCEPT ![m] = bad] /\ mir'[m] = bad
                BY <2>1, <3>3
            <4>3. handed' = handed
                BY <2>1, <3>1, <4>2
            <4>4. QED
                BY <2>1, <2>4, <3>3, <4>1, <4>2, <4>3
        <3>4. QED
            BY <2>4, <3>2, <3>3 DEF FlushAtStop, FlushTarget
    <2>5. QED
        BY <2>3, <2>4
<1>7. Onward(m, r) /\ r.pc = mir[m].pc /\ r.synced = mir[m].synced
    BY <1>1, <1>6, ZenonT(40) DEF Onward, MirrorState, Inv, MirrorInv
<1> HIDE DEF F
<1>8. tgt' \in TargetState /\ \A h \in Target : h # g => tgt'[h] = tgt[h]
    BY <1>3, <1>6 DEF TypeOK
<1>9. /\ mir' \in [Mirror -> MirrorState] /\ mir'[m] = r /\ MirrorInv'
      /\ \A n \in Mirror : /\ mir'[n].target = mir[n].target /\ mir'[n].fresh = mir[n].fresh
                           /\ mir'[n].stopping = mir[n].stopping /\ (n # m => mir'[n] = mir[n])
    <2>1. UNCHANGED slot
        BY <1>4
    <2>2. m \in Mirror
        BY <1>1
    <2> HIDE DEF m
    <2>3. QED
        BY <1>6, <1>7, <1>8, <2>1, <2>2, OnwardStep
<1>10. TypeOK'
    BY <1>2, <1>4, <1>5, <1>6, <1>8, <1>9 DEF TypeOK
<1>11. GateInv'
    BY <1>1, <1>4, <1>5 DEF Inv, GateInv, IsLive
<1>12. LockInv'
    BY <1>1, <1>4 DEF LockInv
<1>13. ContentInv'
    BY <1>1, <1>4 DEF ContentInv, IsLive
<1>14. StopInv'
    BY <1>1, <1>5 DEF StopInv
<1>15. HandedInv'
    <2> SUFFICES ASSUME NEW h \in Target, handed'[h] # None, \A n \in Mirror : mir'[n].target = h => mir'[n].fresh
                 PROVE  /\ \A n \in Mirror : mir'[n].target = h => mir'[n].stopping /\ mir'[n].pc = "ended"
                        /\ \A e \in DOMAIN handed'[h] : e \in Extent /\ tgt'[h][e] = Durable(handed'[h][e])
        BY DEF HandedInv
    <2>1. \A n \in Mirror : mir[n].target = h => mir[n].fresh
        BY <1>9
    <2>2. \A n \in Mirror : mir'[n].pc = mir[n].pc
        BY <1>7, <1>9
    <2>3. CASE h = g /\ call[c].live /\ ~ r.failed /\ r.synced
        <3>1. handed'[g] = [e \in Extent \ torn |-> vol[e]] /\ tgt' = F
            BY <1>2, <1>6, <2>3 DEF TypeOK
        <3>2. mir[m].fresh /\ ~ mir[m].failed /\ mir[m].synced
            BY <1>1, <1>7, <2>1, <2>3 DEF Onward
        <3>3. \A e \in Extent \ torn : tgt[g][e].cur = vol[e]
            BY <1>1, <2>3, <3>2 DEF Inv, StopInv
        <3>4. \A n \in Mirror : mir'[n].target = h => n = m /\ mir'[n].stopping /\ mir'[n].pc = "ended"
            BY <1>1, <1>9, <2>2, <2>3, <3>2 DEF Inv, MirrorInv
        <3>5. QED
            BY <1>3, <2>3, <3>1, <3>3, <3>4
    <2>4. CASE ~ (h = g /\ call[c].live /\ ~ r.failed /\ r.synced)
        <3>1. handed'[h] = handed[h]
            BY <1>6, <2>4 DEF TypeOK
        <3>2. /\ \A n \in Mirror : mir[n].target = h => mir[n].stopping /\ mir[n].pc = "ended"
              /\ \A e \in DOMAIN handed[h] : e \in Extent /\ tgt[h][e] = Durable(handed[h][e])
            BY <2>1, <3>1 DEF Inv, HandedInv
        <3>3. \A e \in DOMAIN handed[h] : tgt'[h][e] = tgt[h][e]
            <4>1. \A e \in DOMAIN handed[h] : Durable(tgt[h][e].cur) = tgt[h][e]
                <5>1. \A v : Durable(v).cur = v
                    BY DEF Durable
                <5>2. QED
                    BY <3>2, <5>1
            <4>2. QED
                BY <1>3, <1>6, <1>8, <3>2, <4>1
        <3>4. QED
            BY <1>9, <2>2, <3>1, <3>2, <3>3
    <2>5. QED
        BY <2>3, <2>4
<1>16. DirtyInv'
    BY <1>1, <1>4 DEF Inv, DirtyInv, IsLive
<1>17. RecordInv'
    <2> SUFFICES ASSUME ~ overlap PROVE RecordInv'
        BY <1>4 DEF RecordInv
    <2>1. call[c] # NoCall /\ NoCall.pc = "idle"
        BY <1>1 DEF NoCall
    <2>2. ~ standing /\ \A d \in Caller \ {c} : call'[d] = NoCall
        BY <1>1, <1>5, <2>1 DEF Inv, RecordInv
    <2>3. QED
        BY <1>4, <1>5, <2>1, <2>2 DEF RecordInv
<1>18. QED
    BY <1>4, <1>9, <1>10, <1>11, <1>12, <1>13, <1>14, <1>15, <1>16, <1>17, Frame DEF Inv

-----------------------------------------------------------------------------
(* A restart *)

\* What was in memory is gone: no request, no call, no mirror.
LEMMA RestartStep == ASSUME Inv, Restart PROVE Inv'
<1> TypeOK
    BY DEF Inv
<1>1. /\ UNCHANGED <<vol, mapped, tgt, recorded, budget, ticket, torn, handed, standing, overlap>>
      /\ slot' = None /\ completed' = 0 /\ synced' = 0
      /\ task' = [t \in Task |-> Idle] /\ call' = [c \in Caller |-> NoCall]
    BY DEF Restart, volVars, histVars
<1>2. /\ Idle \in TaskState /\ NoCall \in CallState /\ NoCall.pc = "idle" /\ ~ Busy(Idle)
      /\ Idle.pc = "idle" /\ Idle.op = "none" /\ Idle.start = 0 /\ Idle.held = {} /\ Idle.todo = {}
      /\ Idle.range = {}
    BY CallTypes DEF Idle, TaskState, NoCall, Busy, Blank
<1>3. \A n \in Mirror :
        /\ mir'[n] \in MirrorState
        /\ mir'[n].target = mir[n].target /\ mir'[n].fresh = mir[n].fresh /\ mir'[n].stopping = mir[n].stopping
        /\ mir'[n].list = {} /\ mir'[n].pc \in {"none", "ended"}
        /\ mir'[n].pc = "none" => mir'[n] = Unused
        /\ mir'[n].pc = "none" <=> mir[n].pc = "none"
        /\ mir'[n].synced => mir'[n].pc = "ended"
    <2> TAKE n \in Mirror
    <2>1. mir[n] \in MirrorState /\ (mir[n].pc = "none" => mir[n] = Unused)
        BY DEF Inv, MirrorInv, TypeOK
    <2>2. Unused.pc = "none" /\ Unused.list = {} /\ Unused.synced = FALSE
        BY DEF Unused
    <2>3. CASE mir[n] = Unused
        <3>1. mir'[n] = Unused
            BY <2>3 DEF Restart
        <3>2. QED
            BY <2>1, <2>2, <2>3, <3>1
    <2>4. CASE mir[n] # Unused
        <3> DEFINE x == [mir[n] EXCEPT !.pc = "ended", !.list = {}]
        <3>1. mir'[n] = x
            BY <2>4 DEF Restart
        <3>2. /\ x \in MirrorState /\ x.pc = "ended" /\ x.list = {}
              /\ x.target = mir[n].target /\ x.fresh = mir[n].fresh /\ x.stopping = mir[n].stopping
            <4>1. x \in MirrorState
                BY <2>1, MirrorTypes
            <4>2. QED
                BY <2>1 DEF MirrorState
        <3>3. QED
            BY <2>1, <2>4, <3>1, <3>2
    <2>5. QED
        BY <2>3, <2>4
<1>4. TypeOK'
    <2>1. spent' \in [Event -> Nat]
        BY SpendType DEF Restart, Event
    <2>2. DOMAIN mir' = Mirror /\ mir' = [n \in Mirror |-> mir'[n]]
        BY DEF Restart
    <2>3. QED
        BY <1>1, <1>2, <1>3, <2>1, <2>2 DEF TypeOK
<1>5. TaskInv'
    BY <1>1, <1>2 DEF TaskInv, Local
<1>6. MirrorInv'
    BY <1>1, <1>3 DEF Inv, MirrorInv
<1>7. GateInv'
    BY <1>1, <1>2 DEF GateInv, IsLive
<1>8. LockInv'
    BY <1>1, <1>2 DEF LockInv
<1>9. ContentInv'
    BY <1>1 DEF ContentInv, IsLive
<1>10. StopInv'
    BY <1>1, <1>2 DEF StopInv
<1>11. HandedInv'
    BY <1>1, <1>3 DEF Inv, HandedInv
<1>12. DirtyInv'
    BY <1>1 DEF DirtyInv, IsLive
<1>13. RecordInv'
    BY <1>1, <1>2 DEF Inv, RecordInv
<1>14. QED
    BY <1>1, <1>4, <1>5, <1>6, <1>7, <1>8, <1>9, <1>10, <1>11, <1>12, <1>13, Frame DEF Inv

-----------------------------------------------------------------------------
(* Requests *)

\* The states a request is put in.
LEMMA TaskTypes ==
    /\ Idle \in TaskState
    /\ \A R \in SUBSET Extent : Zeroing(R) \in TaskState
    /\ \A n \in Nat : [Idle EXCEPT !.pc = "sync", !.start = n] \in TaskState
    /\ \A e \in Extent, n \in Nat : [Idle EXCEPT !.pc = "kernel", !.range = {e}, !.v = n] \in TaskState
    /\ \A op \in {"write", "discard", "zeroes"}, R, S \in SUBSET Extent, n \in Nat :
         slot \in Mirror \cup {None} => Request(op, R, n, S) \in TaskState
BY DEF TaskState, Idle, Zeroing, Request, LiveMirrorNow, Blank

\* A request takes a lock that is free, and passes the gate with the live mirror
\* or with none.
Allowed(t, r) ==
    /\ Busy(r) => r.m \in {None, slot} /\ (IsLive(slot) => r.m = slot)
    /\ r.pc = "kernel" => ~ IsLive(slot)
    /\ Busy(r) \/ r.pc = "kernel" => \A c \in Caller : call[c].pc # "stopping"
    /\ Busy(r) /\ r.m # None => \A e \in r.held : \/ Busy(task[t]) /\ task[t].m = r.m /\ e \in task[t].held
                                                  \/ ~ Locked(r.m, e)

\* The other requests go on as they were; only what the kernel was told may shrink.
Others(t) == \A u \in Task \ {t} : /\ task'[u].pc = task[u].pc
                                   /\ task[u].pc # "kernel" => task'[u] = task[u]

\* Such a step keeps what the gate and the locks promise.
LEMMA TaskStep ==
    ASSUME Inv, NEW t \in Task, NEW r \in TaskState, task'[t] = r, Allowed(t, r), Others(t),
           UNCHANGED <<slot, call>>, IsLive(slot)' => IsLive(slot),
           \A n \in Mirror : /\ mir'[n].pc = mir[n].pc /\ mir'[n].list = mir[n].list
                             /\ mir'[n].stopping = mir[n].stopping /\ mir'[n].fresh = mir[n].fresh
                             /\ mir'[n].target = mir[n].target
    PROVE  GateInv' /\ LockInv'
<1> TypeOK
    BY DEF Inv
<1>1. /\ task'[t] = r
      /\ \A u \in Task \ {t} : /\ task'[u].pc = task[u].pc
                               /\ Busy(task'[u]) => Busy(task[u]) /\ task'[u] = task[u]
    BY DEF Others, Busy
<1>2. GateInv'
    <2>1. \A u \in Task : Busy(task'[u]) => task'[u].m \in {None, slot'}
        BY <1>1 DEF Inv, GateInv, Allowed
    <2>2. IsLive(slot)' => \A u \in Task : task'[u].pc # "kernel" /\ (Busy(task'[u]) => task'[u].m = slot')
        BY <1>1 DEF Inv, GateInv, Allowed
    <2>3. ASSUME NEW c \in Caller, call[c].pc = "stopping"
          PROVE  /\ slot = None /\ \A u \in Task : task'[u].pc \notin {"lock", "land", "send", "kernel"}
                 /\ \A d \in Caller \ {c} : call[d].pc # "stopping"
                 /\ call[c].m \in Mirror /\ mir'[call[c].m].stopping /\ mir'[call[c].m].pc # "none"
                 /\ mir'[call[c].m].fresh => \A m \in Mirror \ {call[c].m} : mir'[m].target # mir'[call[c].m].target
        BY <1>1, <2>3 DEF Inv, GateInv, Allowed, Busy
    <2>4. QED
        BY <2>1, <2>2, <2>3 DEF Inv, GateInv
<1>3. LockInv'
    <2>1. ASSUME NEW u \in Task, NEW w \in Task, u # w, Busy(task'[u]), Busy(task'[w]),
                 task'[u].m = task'[w].m, task'[u].m # None
          PROVE  task'[u].held \cap task'[w].held = {}
        <3>1. ASSUME NEW x \in Task, x # t, Busy(task[x]), Busy(r), task[x].m = r.m, r.m # None
              PROVE  task[x].held \cap r.held = {}
            <4> SUFFICES ASSUME NEW e, e \in task[x].held, e \in r.held PROVE FALSE
                OBVIOUS
            <4>1. Locked(r.m, e)
                BY <3>1 DEF Locked, Busy
            <4>2. Busy(task[t]) /\ task[t].m = r.m /\ e \in task[t].held
                BY <3>1, <4>1 DEF Allowed
            <4>3. QED
                BY <3>1, <4>2 DEF Inv, LockInv
        <3>2. QED
            BY <1>1, <2>1, <3>1 DEF Inv, LockInv
    <2>2. ASSUME NEW u \in Task, Busy(task'[u]), task'[u].m # None, mir'[task'[u].m].pc = "send"
          PROVE  Min(mir'[task'[u].m].list) \notin task'[u].held
        <3>1. task'[u].m \in Mirror
            BY <1>1, <2>2 DEF TaskState, TypeOK
        <3>2. mir'[task'[u].m].list = mir[task'[u].m].list /\ mir[task'[u].m].pc = "send"
            BY <2>2, <3>1
        <3>3. CASE u # t
            BY <1>1, <2>2, <3>2, <3>3 DEF Inv, LockInv
        <3>4. CASE u = t
            <4>1. Busy(r) /\ r.m # None /\ mir[r.m].pc = "send"
                BY <1>1, <2>2, <3>2, <3>4
            <4> SUFFICES ASSUME Min(mir[r.m].list) \in r.held PROVE FALSE
                BY <1>1, <3>2, <3>4
            <4>2. Locked(r.m, Min(mir[r.m].list))
                BY <4>1 DEF Locked
            <4>3. Busy(task[t]) /\ task[t].m = r.m /\ Min(mir[r.m].list) \in task[t].held
                BY <4>1, <4>2 DEF Allowed
            <4>4. QED
                BY <4>1, <4>3 DEF Inv, LockInv
        <3>5. QED
            BY <3>3, <3>4
    <2>3. QED
        BY <2>1, <2>2 DEF LockInv
<1>4. QED
    BY <1>2, <1>3

\* A step of a request that writes nothing and has written nothing.
QuietStep(t, r) ==
    /\ task' = [task EXCEPT ![t] = r] /\ Allowed(t, r)
    /\ UNCHANGED <<vol, mapped, tgt, slot, mir, recorded, call, budget, torn, handed, standing, overlap>>
    /\ completed' \in Nat /\ completed' >= completed
    /\ synced' \in Nat /\ synced' <= completed'
    /\ spent' \in [Event -> Nat] /\ ticket' \in Nat
    /\ Local(r)'
    /\ Busy(r) => Written(r) = {}
    /\ Busy(task[t]) => Written(task[t]) = {}
    /\ synced' = completed' /\ r.pc # "mirror" => synced = completed /\ task[t].pc # "mirror"

\* Such a step keeps the invariant.
LEMMA QuietTask ==
    ASSUME Inv, NEW t \in Task, NEW r \in TaskState, QuietStep(t, r)
    PROVE  Inv'
<1> USE DEF QuietStep
<1> TypeOK
    BY DEF Inv
<1>1. /\ task' \in [Task -> TaskState] /\ task'[t] = r /\ \A u \in Task \ {t} : task'[u] = task[u]
    BY DEF TypeOK
<1>a. GateInv' /\ LockInv'
    <2>1. (IsLive(slot)' => IsLive(slot)) /\ Others(t)
        BY <1>1 DEF IsLive, Others
    <2>2. QED
        BY <1>1, <2>1, TaskStep
<1>2. TypeOK'
    BY <1>1 DEF TypeOK
<1>3. TaskInv'
    <2>1. ASSUME NEW u \in Task, u # t PROVE Local(task[u])'
        <3>1. task'[u] = task[u] /\ Local(task[u])
            BY <1>1, <2>1 DEF Inv, TaskInv
        <3>2. task[u].start \in Nat
            BY DEF TypeOK, TaskState
        <3>3. QED
            BY <3>1, <3>2 DEF Local, TypeOK
    <2>2. QED
        BY <1>1, <2>1 DEF TaskInv
<1>4. ContentInv'
    <2> SUFFICES ASSUME IsLive(slot), mir[slot].fresh PROVE ContentInv'
        BY DEF ContentInv, IsLive
    <2>1. \A u \in Task : Busy(task'[u]) => \A e \in Written(task'[u]) : vol[e] = task'[u].v
        BY <1>1 DEF Inv, ContentInv
    <2>2. \A e \in Extent \ torn : (\A u \in Task : Busy(task'[u]) => e \notin Written(task'[u])) =>
            (\A u \in Task : Busy(task[u]) => e \notin Written(task[u]))
        BY <1>1
    <2>3. QED
        BY <2>1, <2>2 DEF Inv, ContentInv
<1>5. DirtyInv'
    BY <1>1 DEF Inv, DirtyInv, IsLive
<1>6. QED
    BY <1>a, <1>2, <1>3, <1>4, <1>5, Frame DEF Inv

\* The counts of finished requests.
LEMMA Counts == ASSUME Inv PROVE completed \in Nat /\ synced \in Nat /\ synced <= completed /\ ticket \in Nat
BY DEF Inv, TypeOK, DirtyInv

\* A request just past the gate.
LEMMA RequestFacts ==
    ASSUME Inv, GateFree, NEW op \in {"write", "discard", "zeroes"}, NEW R \in SUBSET Extent, R # {},
           NEW v \in Nat, op = "discard" => v = Blank, NEW rest \in SUBSET Extent, NEW t \in Task
    PROVE  LET r == Request(op, R, v, rest)
           IN  r \in TaskState /\ Allowed(t, r) /\ Local(r) /\ r.start = 0 /\ r.pc \notin {"kernel", "mirror"}
               /\ (Busy(r) => Written(r) = {})
<1> DEFINE r == Request(op, R, v, rest)
<1> TypeOK
    BY DEF Inv
<1>1. r \in TaskState
    BY TaskTypes DEF TypeOK
<1>2. /\ r.pc = (IF LiveMirrorNow = None THEN "land" ELSE "lock") /\ r.op = op /\ r.range = R /\ r.held = {}
      /\ r.todo = R /\ r.m = LiveMirrorNow /\ r.v = v /\ r.start = 0
    BY DEF Request
<1>3. LiveMirrorNow \in Mirror \cup {None} /\ LiveMirrorNow = IF IsLive(slot) THEN slot ELSE None
    BY DEF LiveMirrorNow, TypeOK
<1> HIDE DEF r
<1>4. Allowed(t, r)
    BY <1>2, <1>3 DEF Allowed, GateFree, Busy
<1>5. Local(r)
    BY <1>2, <1>3 DEF Local, TypeOK
<1>6. Busy(r) => Written(r) = {}
    BY <1>2 DEF Written, Busy
<1>7. QED
    BY <1>1, <1>2, <1>4, <1>5, <1>6 DEF r

\* A write passes the gate.
LEMMA BeginWriteStep == ASSUME Inv, NEW t \in Task, NEW R \in Ranges, BeginWrite(t, R) PROVE Inv'
<1> TypeOK
    BY DEF Inv
<1> USE DEF BeginWrite, BeginRequest, volVars, countVars
<1>1. PICK r \in TaskState : r = Request("write", R, ticket + 1, {}) /\ Allowed(t, r) /\ Local(r)
                             /\ r.pc # "mirror" /\ (Busy(r) => Written(r) = {})
    <2>1. GateFree /\ R \in SUBSET Extent /\ R # {}
        BY RangesType
    <2>2. PICK v \in Nat : v = ticket + 1
        BY Counts
    <2>3. QED
        BY <2>1, <2>2, RequestFacts
<1>2. task' = [task EXCEPT ![t] = r]
    BY <1>1
<1>3. Local(r)'
    BY <1>1 DEF Local
<1>4. task[t].pc = "idle" /\ ~ Busy(task[t])
    BY DEF Idle, Busy
<1>5. spent' \in [Event -> Nat] /\ ticket' \in Nat
    BY SpendType DEF TypeOK, Event
<1>6. QuietStep(t, r)
    BY <1>1, <1>2, <1>3, <1>4, <1>5, Counts DEF QuietStep, TypeOK
<1>7. QED
    BY <1>6, QuietTask

\* A discard passes the gate.
LEMMA BeginDiscardStep == ASSUME Inv, NEW t \in Task, NEW R \in Ranges, BeginDiscard(t, R) PROVE Inv'
<1> TypeOK
    BY DEF Inv
<1> USE DEF BeginDiscard, BeginRequest, volVars, countVars
<1>1. PICK r \in TaskState : r = Request("discard", R, Blank, {}) /\ Allowed(t, r) /\ Local(r)
                             /\ r.pc # "mirror" /\ (Busy(r) => Written(r) = {})
    BY RangesType, RequestFacts DEF TypeOK, Blank
<1>2. task' = [task EXCEPT ![t] = r]
    BY <1>1
<1>3. Local(r)'
    BY <1>1 DEF Local
<1>4. task[t].pc = "idle" /\ ~ Busy(task[t])
    BY DEF Idle, Busy
<1>5. spent' \in [Event -> Nat] /\ ticket' \in Nat
    BY SpendType DEF TypeOK, Event
<1>6. QuietStep(t, r)
    BY <1>1, <1>2, <1>3, <1>4, <1>5, Counts DEF QuietStep, TypeOK
<1>7. QED
    BY <1>6, QuietTask

\* A request for zeros looks up what is mapped.
LEMMA BeginZeroesStep == ASSUME Inv, NEW t \in Task, NEW R \in Ranges, BeginZeroes(t, R) PROVE Inv'
<1> TypeOK
    BY DEF Inv
<1> USE DEF BeginZeroes, volVars, countVars, histVars
<1>1. PICK r \in TaskState : r = Zeroing(R \cap mapped)
    BY RangesType, TaskTypes DEF TypeOK
<1>2. r.pc = "zeroes" /\ Allowed(t, r) /\ Local(r) /\ ~ Busy(r)
    BY <1>1 DEF Zeroing, Idle, Allowed, Local, Busy, TypeOK
<1>3. task' = [task EXCEPT ![t] = r] /\ Local(r)'
    BY <1>1, <1>2 DEF Local
<1>4. task[t].pc = "idle" /\ ~ Busy(task[t])
    BY DEF Idle, Busy
<1>5. spent' \in [Event -> Nat]
    BY SpendType DEF TypeOK, Event
<1>6. QuietStep(t, r)
    BY <1>1, <1>2, <1>3, <1>4, <1>5, Counts DEF QuietStep, TypeOK
<1>7. QED
    BY <1>6, QuietTask

\* Its next extent passes the gate, or it is through.
LEMMA NextZeroesStep == ASSUME Inv, NEW t \in Task, NextZeroes(t) PROVE Inv'
<1> TypeOK
    BY DEF Inv
<1>1. /\ task[t].pc = "zeroes" /\ ~ Busy(task[t]) /\ task[t].rest \in SUBSET Extent
      /\ UNCHANGED <<vol, mapped, tgt, slot, mir, recorded, synced, call, budget, spent, ticket, torn, handed,
                     standing, overlap>>
    BY DEF NextZeroes, Busy, TypeOK, TaskState, volVars, histVars
<1>2. CASE task[t].rest = {}
    <2>1. PICK r \in TaskState : r = Idle
        BY TaskTypes
    <2>2. task' = [task EXCEPT ![t] = r] /\ completed' = completed + 1
        BY <1>2, <2>1 DEF NextZeroes
    <2>3. r.pc = "idle" /\ Allowed(t, r) /\ Local(r)' /\ ~ Busy(r)
        BY <1>1, <2>1, <2>2 DEF Idle, Allowed, Local, Busy, TypeOK
    <2>4. QuietStep(t, r)
        BY <1>1, <2>2, <2>3, Counts DEF QuietStep, TypeOK
    <2>5. QED
        BY <2>4, QuietTask
<1>3. CASE task[t].rest # {}
    <2> DEFINE e == Min(task[t].rest)
    <2>1. e \in Extent /\ {e} \in SUBSET Extent /\ task[t].rest \ {e} \in SUBSET Extent
        BY <1>1, <1>3, MinExtent
    <2>2. GateFree /\ completed' = completed
        BY <1>3 DEF NextZeroes
    <2>a. task' = [task EXCEPT ![t] = Request("zeroes", {e}, Blank, task[t].rest \ {e})]
        BY <1>3 DEF NextZeroes
    <2> HIDE DEF e
    <2>3. PICK R \in SUBSET Extent, rest \in SUBSET Extent : R = {e} /\ rest = task[t].rest \ {e} /\ R # {}
        BY <2>1
    <2>4. PICK r \in TaskState : /\ r = Request("zeroes", R, Blank, rest) /\ Allowed(t, r) /\ Local(r)
                                 /\ r.pc # "mirror" /\ (Busy(r) => Written(r) = {})
        BY <2>2, <2>3, RequestFacts DEF Blank
    <2>5. task' = [task EXCEPT ![t] = r] /\ Local(r)'
        BY <1>1, <2>2, <2>a, <2>3, <2>4 DEF Local
    <2>b. Allowed(t, r) /\ r.pc # "mirror" /\ (Busy(r) => Written(r) = {})
        BY <2>4
    <2>6. QuietStep(t, r)
        BY <1>1, <2>2, <2>b, <2>5, Counts DEF QuietStep, TypeOK
    <2>7. QED
        BY <2>6, QuietTask
<1>4. QED
    BY <1>2, <1>3

\* It locks its next extent.
LEMMA LockExtentsStep == ASSUME Inv, NEW t \in Task, LockExtents(t) PROVE Inv'
<1> TypeOK
    BY DEF Inv
<1> DEFINE e == Min(task[t].range \ task[t].held)
           held == task[t].held \cup {e}
<1>1. /\ task[t].pc = "lock" /\ ~ Locked(task[t].m, e)
      /\ task' = [task EXCEPT ![t].held = held, ![t].pc = IF held = task[t].range THEN "land" ELSE "lock"]
      /\ UNCHANGED <<vol, mapped, tgt, slot, mir, recorded, completed, synced, call, budget, spent, ticket, torn, handed,
                     standing, overlap>>
    BY DEF LockExtents, volVars, countVars, histVars
<1>2. task[t] \in TaskState /\ Local(task[t]) /\ task[t].m \in Mirror
    BY <1>1 DEF Inv, TaskInv, TypeOK, Local
<1>3. e \in task[t].range \ task[t].held /\ held \in SUBSET Extent
    <2>1. task[t].range \ task[t].held \in SUBSET Extent /\ task[t].range \ task[t].held # {}
        BY <1>1, <1>2 DEF Local, TaskState
    <2>2. QED
        BY <1>2, <2>1, MinExtent DEF TaskState
<1> HIDE DEF e
<1>4. PICK r \in TaskState : /\ task' = [task EXCEPT ![t] = r] /\ r.held = held
                             /\ r.pc = IF held = task[t].range THEN "land" ELSE "lock"
                             /\ r.op = task[t].op /\ r.range = task[t].range /\ r.todo = task[t].todo
                             /\ r.m = task[t].m /\ r.v = task[t].v /\ r.start = task[t].start
    <2> DEFINE x == [task[t] EXCEPT !.held = held, !.pc = IF held = task[t].range THEN "land" ELSE "lock"]
    <2> HIDE DEF held
    <2>1. x \in TaskState
        BY <1>2, <1>3 DEF TaskState
    <2>2. task' = [task EXCEPT ![t] = x]
        BY <1>1 DEF TypeOK
    <2>3. /\ x.held = held /\ x.pc = (IF held = task[t].range THEN "land" ELSE "lock")
          /\ x.op = task[t].op /\ x.range = task[t].range /\ x.todo = task[t].todo
          /\ x.m = task[t].m /\ x.v = task[t].v /\ x.start = task[t].start
        BY <1>2 DEF TaskState
    <2> HIDE DEF x
    <2>4. QED
        BY <2>1, <2>2, <2>3
<1>5. Busy(task[t]) /\ task[t].m \in {None, slot} /\ (IsLive(slot) => task[t].m = slot)
      /\ \A c \in Caller : call[c].pc # "stopping"
    BY <1>1 DEF Busy, Inv, GateInv
<1>6. Allowed(t, r)
    BY <1>1, <1>4, <1>5 DEF Allowed
<1>7. Local(r) /\ Local(r)'
    BY <1>1, <1>2, <1>3, <1>4 DEF Local
<1>8. Written(r) = {} /\ Written(task[t]) = {}
    BY <1>1, <1>2, <1>4 DEF Written, Local
<1>9. /\ UNCHANGED <<vol, mapped, tgt, slot, mir, recorded, completed, synced, call, budget, spent, ticket, torn, handed,
                     standing, overlap>>
      /\ r.pc # "mirror" /\ task[t].pc # "mirror"
    BY <1>1, <1>4
<1>10. task' = [task EXCEPT ![t] = r]
    BY <1>4
<1>11. QuietStep(t, r)
    BY <1>6, <1>7, <1>8, <1>9, <1>10, Counts DEF QuietStep, TypeOK
<1>12. QED
    BY <1>11, QuietTask

\* The kernel is told to write.
LEMMA PlanWriteStep == ASSUME Inv, NEW t \in Task, NEW e \in Extent, PlanWrite(t, e) PROVE Inv'
<1> TypeOK
    BY DEF Inv
<1>1. /\ task[t] = Idle /\ GateFree /\ ~ IsLive(slot) /\ e \in mapped
      /\ ticket' = ticket + 1 /\ Spend("plans")
      /\ UNCHANGED <<vol, mapped, tgt, slot, mir, recorded, completed, synced, call, budget, torn, handed, standing,
                     overlap>>
    BY DEF PlanWrite, volVars, countVars
<1>2. PICK n \in Nat : n = ticket + 1
    BY Counts
<1>3. PICK r \in TaskState : r = [Idle EXCEPT !.pc = "kernel", !.range = {e}, !.v = n]
    BY TaskTypes
<1>4. /\ r.pc = "kernel" /\ r.range = {e} /\ r.held = {} /\ r.todo = {} /\ r.op = "none" /\ r.start = 0
      /\ ~ Busy(r)
    BY <1>3 DEF Idle, Busy
<1>5. task' = [task EXCEPT ![t] = r]
    BY <1>2, <1>3 DEF PlanWrite
<1>6. Allowed(t, r)
    BY <1>1, <1>4 DEF Allowed, GateFree
<1>7. Local(r)'
    BY <1>1, <1>4, Counts DEF Local
<1>8. task[t].pc = "idle" /\ ~ Busy(task[t])
    BY <1>1 DEF Idle, Busy
<1>9. spent' \in [Event -> Nat] /\ ticket' \in Nat
    BY <1>1, <1>2, SpendType DEF Event
<1>10. QuietStep(t, r)
    BY <1>1, <1>4, <1>5, <1>6, <1>7, <1>8, <1>9, Counts DEF QuietStep
<1>11. QED
    BY <1>10, QuietTask

\* A flush begins, or finds nothing to do.
LEMMA BeginFlushStep == ASSUME Inv, NEW t \in Task, BeginFlush(t) PROVE Inv'
<1> TypeOK
    BY DEF Inv
<1>1. /\ task[t] = Idle /\ Spend("flushes")
      /\ UNCHANGED <<vol, mapped, tgt, slot, mir, recorded, completed, synced, call, budget, ticket, torn, handed,
                     standing, overlap>>
    BY DEF BeginFlush, volVars, countVars, histVars
<1>2. PICK r \in TaskState : /\ r = Idle \/ r = [Idle EXCEPT !.pc = "sync", !.start = completed]
                             /\ task' = [task EXCEPT ![t] = r]
    BY TaskTypes, Counts DEF BeginFlush
<1>3. /\ r.pc \in {"idle", "sync"} /\ r.range = {} /\ r.held = {} /\ r.todo = {} /\ r.op = "none"
      /\ r.start \in {0, completed} /\ ~ Busy(r)
    <2>1. CASE r = Idle
        BY <2>1 DEF Idle, Busy
    <2>2. CASE r = [Idle EXCEPT !.pc = "sync", !.start = completed]
        BY <2>2 DEF Idle, Busy
    <2>3. QED
        BY <1>2, <2>1, <2>2
<1>4. Allowed(t, r) /\ Local(r)'
    BY <1>1, <1>3, Counts DEF Allowed, Local
<1>5. task[t].pc = "idle" /\ ~ Busy(task[t])
    BY <1>1 DEF Idle, Busy
<1>6. spent' \in [Event -> Nat]
    BY <1>1, SpendType DEF Event
<1>7. task' = [task EXCEPT ![t] = r]
    BY <1>2
<1>8. QuietStep(t, r)
    BY <1>1, <1>3, <1>4, <1>5, <1>6, <1>7, Counts DEF QuietStep
<1>9. QED
    BY <1>8, QuietTask

\* The slabs are synced.
LEMMA SyncVolumeStep == ASSUME Inv, NEW t \in Task, SyncVolume(t) PROVE Inv'
<1> TypeOK
    BY DEF Inv
<1> USE DEF SyncVolume, volVars, countVars, histVars
<1>1. task[t] \in TaskState /\ task[t].start \in Nat /\ task[t].pc = "sync" /\ Local(task[t]) /\ ~ Busy(task[t])
    BY DEF TypeOK, TaskState, Inv, TaskInv, Busy
<1>2. spent' \in [Event -> Nat] /\ UNCHANGED <<completed, ticket>>
    BY SpendType DEF TypeOK, Event
<1>3. CASE synced' = Max({synced, task[t].start}) /\ task' = [task EXCEPT ![t].pc = "mirror"]
    <2>1. synced' \in Nat /\ synced' <= completed
        BY <1>1, <1>3, Counts, MaxOfTwo DEF Local
    <2>2. PICK r \in TaskState : task' = [task EXCEPT ![t] = r] /\ r = [task[t] EXCEPT !.pc = "mirror"]
        <3>1. [task[t] EXCEPT !.pc = "mirror"] \in TaskState
            BY <1>1 DEF TaskState
        <3>2. QED
            BY <1>3, <3>1
    <2>3. /\ r.pc = "mirror" /\ r.held = task[t].held /\ r.range = task[t].range /\ r.todo = task[t].todo
          /\ r.op = task[t].op /\ r.v = task[t].v /\ r.start = task[t].start /\ ~ Busy(r)
        BY <1>1, <2>2 DEF TaskState, Busy
    <2>4. Allowed(t, r) /\ Local(r)'
        BY <1>1, <1>2, <2>3 DEF Allowed, Local
    <2>5. QuietStep(t, r)
        BY <1>1, <1>2, <2>1, <2>2, <2>3, <2>4, Counts DEF QuietStep
    <2>6. QED
        BY <2>5, QuietTask
<1>4. CASE task' = [task EXCEPT ![t] = Idle] /\ UNCHANGED synced
    <2>1. PICK r \in TaskState : r = Idle
        BY TaskTypes
    <2>2. r.pc = "idle" /\ Allowed(t, r) /\ Local(r)' /\ ~ Busy(r)
        BY <2>1, Counts, <1>2 DEF Idle, Allowed, Local, Busy
    <2>3. QuietStep(t, r)
        BY <1>1, <1>2, <1>4, <2>1, <2>2, Counts DEF QuietStep
    <2>4. QED
        BY <2>3, QuietTask
<1>5. QED
    BY <1>3, <1>4

\* The locks a busy request has taken keep every other request, and the copy, off.
LEMMA HeldApart ==
    ASSUME Inv, IsLive(slot), NEW t \in Task, Busy(task[t]), NEW e \in task[t].held
    PROVE  /\ \A u \in Task \ {t} : Busy(task[u]) => e \notin Written(task[u])
           /\ mir[slot].pc = "send" => Min(mir[slot].list) # e
<1>1. \A u \in Task : Busy(task[u]) => task[u].m = slot
    BY DEF Inv, GateInv
<1>2. slot # None
    BY DEF IsLive
<1>3. ASSUME NEW u \in Task \ {t}, Busy(task[u]) PROVE e \notin Written(task[u])
    <2>1. Written(task[u]) \subseteq task[u].held
        BY <1>1, <1>2, <1>3, WrittenHeld
    <2>2. task[t].held \cap task[u].held = {}
        BY <1>1, <1>2, <1>3 DEF Inv, LockInv
    <2>3. QED
        BY <2>1, <2>2
<1>4. mir[slot].pc = "send" => Min(mir[slot].list) # e
    BY <1>1, <1>2 DEF Inv, LockInv
<1>5. QED
    BY <1>3, <1>4

\* A write lands on an extent, or ends with an error.
LEMMA LandWriteStep == ASSUME Inv, NEW t \in Task, LandWrite(t) PROVE Inv'
<1> TypeOK
    BY DEF Inv
<1> DEFINE e == Min(task[t].todo)
           v == task[t].v
<1>1. /\ task[t].pc = "land" /\ task[t].op # "discard" /\ Busy(task[t])
      /\ UNCHANGED <<tgt, slot, mir, recorded, synced, call, budget, ticket, handed, standing, overlap>>
    BY DEF LandWrite, Busy
<1>2. task[t] \in TaskState /\ Local(task[t]) /\ task[t].todo # {} /\ v \in Nat
    BY <1>1 DEF Inv, TaskInv, TypeOK, Local, TaskState
<1>3. e \in task[t].todo /\ e \in task[t].range /\ e \in Extent
    BY <1>2, MinExtent DEF Local, TaskState
<1>4. \A c \in Caller : call[c].pc # "stopping"
    BY <1>1 DEF Inv, GateInv
<1>5. task[t].m \in {None, slot} /\ (IsLive(slot) => task[t].m = slot /\ slot # None /\ task[t].held = task[t].range)
    BY <1>1, <1>2 DEF Inv, GateInv, IsLive, Local
<1>6. StopInv'
    BY <1>1, <1>4 DEF StopInv
<1>7. PICK r \in TaskState, new \in [Extent -> Nat] :
        /\ task' = [task EXCEPT ![t] = r] /\ vol' = new
        /\ \A x \in Extent : x # e => new[x] = vol[x]
        /\ \A x \in Extent \ mapped' : new[x] = Blank
        /\ mapped' \in SUBSET Extent /\ mapped \subseteq mapped' /\ spent' \in [Event -> Nat]
        /\ \/ /\ r.pc = (IF task[t].todo = {e} THEN "send" ELSE "land") /\ r.todo = task[t].todo \ {e} /\ new[e] = v
              /\ r.op = task[t].op /\ r.range = task[t].range /\ r.held = task[t].held
              /\ r.m = task[t].m /\ r.v = v /\ r.start = task[t].start
              /\ torn' = torn /\ completed' = completed
           \/ r = Idle /\ torn' = torn \cup task[t].range /\ completed' = completed + 1
    <2> HIDE DEF e
    <2>1. [vol EXCEPT ![e] = v] \in [Extent -> Nat] /\ vol \in [Extent -> Nat]
        BY <1>2, <1>3 DEF TypeOK
    <2>2. /\ \A x \in Extent : x # e => [vol EXCEPT ![e] = v][x] = vol[x]
          /\ [vol EXCEPT ![e] = v][e] = v
          /\ \A x \in Extent \ (mapped \cup {e}) : [vol EXCEPT ![e] = v][x] = Blank
          /\ \A x \in Extent \ mapped : vol[x] = Blank
          /\ mapped \in SUBSET Extent /\ mapped \cup {e} \in SUBSET Extent
        BY <1>2, <1>3 DEF TypeOK, Inv, MappedInv
    <2>3. CASE /\ vol' = [vol EXCEPT ![e] = v] /\ mapped' = mapped \cup {e}
               /\ task' = [task EXCEPT ![t].todo = @ \ {e}, ![t].pc = IF task[t].todo = {e} THEN "send" ELSE "land"]
               /\ UNCHANGED <<torn, spent, completed>>
        <3> DEFINE x == [task[t] EXCEPT !.todo = @ \ {e}, !.pc = IF task[t].todo = {e} THEN "send" ELSE "land"]
        <3>1. x \in TaskState
            BY <1>2 DEF TaskState
        <3>2. task' = [task EXCEPT ![t] = x]
            BY <2>3 DEF TypeOK
        <3>3. /\ x.pc = (IF task[t].todo = {e} THEN "send" ELSE "land") /\ x.todo = task[t].todo \ {e}
              /\ x.op = task[t].op /\ x.range = task[t].range /\ x.held = task[t].held
              /\ x.m = task[t].m /\ x.v = v /\ x.start = task[t].start
            BY <1>2 DEF TaskState
        <3> HIDE DEF x
        <3>4. spent' \in [Event -> Nat] /\ torn' = torn /\ completed' = completed
            BY <2>3 DEF TypeOK
        <3>5. QED
            BY <2>1, <2>2, <2>3, <3>1, <3>2, <3>3, <3>4
    <2>4. CASE /\ Spend("faults") /\ vol' \in {vol, [vol EXCEPT ![e] = v]}
               /\ mapped' = IF vol' = vol THEN mapped ELSE mapped \cup {e}
               /\ torn' = torn \cup task[t].range /\ Finish(t)
        <3>1. spent' \in [Event -> Nat] /\ Idle \in TaskState
            BY <2>4, SpendType, TaskTypes DEF Event
        <3>2. task' = [task EXCEPT ![t] = Idle] /\ completed' = completed + 1
            BY <2>4 DEF Finish
        <3>3. QED
            BY <2>1, <2>2, <2>4, <3>1, <3>2
    <2>5. QED
        BY <2>3, <2>4 DEF LandWrite, e
<1> HIDE DEF e
<1>8. task' \in [Task -> TaskState] /\ task'[t] = r /\ \A u \in Task \ {t} : task'[u] = task[u]
    BY <1>7 DEF TypeOK
<1>9. completed' \in Nat /\ completed' >= completed /\ torn \subseteq torn' /\ torn' \in SUBSET Extent
    BY <1>2, <1>7, Counts DEF TypeOK, TaskState
<1>10. TypeOK'
    BY <1>1, <1>7, <1>8, <1>9 DEF TypeOK
<1>11. Idle.pc = "idle" /\ ~ Busy(Idle) /\ Idle.held = {} /\ Idle.todo = {} /\ Idle.range = {} /\ Idle.op = "none"
       /\ Idle.start = 0
    BY DEF Idle, Busy
<1>12. Allowed(t, r)
    BY <1>1, <1>4, <1>5, <1>7, <1>11 DEF Allowed
<1>13. GateInv' /\ LockInv'
    <2>1. Others(t) /\ (IsLive(slot)' => IsLive(slot))
        BY <1>1, <1>8 DEF Others, IsLive
    <2>2. QED
        BY <1>1, <1>8, <1>12, <2>1, TaskStep
<1>14. TaskInv'
    <2>1. ASSUME NEW u \in Task, u # t PROVE Local(task[u])'
        <3>1. task'[u] = task[u] /\ Local(task[u]) /\ task[u].start \in Nat
            BY <1>8, <2>1 DEF Inv, TaskInv, TypeOK, TaskState
        <3>2. QED
            BY <1>7, <1>9, <3>1, Counts DEF Local
    <2>2. Local(task[t])'
        <3>1. CASE r = Idle
            BY <1>8, <1>9, <1>11, <3>1 DEF Local
        <3>2. CASE r # Idle
            BY <1>1, <1>2, <1>3, <1>7, <1>8, <3>2 DEF Local
        <3>3. QED
            BY <3>1, <3>2
    <2>3. QED
        BY <2>1, <2>2 DEF TaskInv
<1>15. MappedInv'
    BY <1>7 DEF MappedInv
<1>16. ContentInv'
    <2> SUFFICES ASSUME IsLive(slot), mir[slot].fresh PROVE ContentInv'
        BY <1>1 DEF ContentInv, IsLive
    <2> DEFINE g == mir[slot].target
    <2>0. ContentInv
        BY DEF Inv
    <2>a. \A x \in Extent \ torn : (\A u \in Task : Busy(task[u]) => x \notin Written(task[u])) =>
            tgt[g][x].cur = vol[x] \/ (x \in mir[slot].list /\ tgt[g][x].cur = Blank)
        BY <2>0 DEF ContentInv
    <2>1. e \in task[t].held /\ task[t].held = task[t].range
        BY <1>3, <1>5
    <2>2. /\ \A u \in Task \ {t} : Busy(task[u]) => e \notin Written(task[u])
          /\ mir[slot].pc = "send" => Min(mir[slot].list) # e
        BY <1>1, <2>1, HeldApart
    <2>3. mir[slot].pc = "send" => Min(mir[slot].list) \in Extent
        <3>1. slot \in Mirror
            BY DEF TypeOK, IsLive
        <3>2. QED
            BY <3>1, ListMin DEF Inv, MirrorInv
    <2>4. mir[slot].pc = "send" => mir[slot].read = new[Min(mir[slot].list)]
        BY <1>7, <2>2, <2>3 DEF Inv, ContentInv
    <2>5. ASSUME NEW u \in Task, Busy(task'[u]), NEW x \in Written(task'[u]) PROVE new[x] = task'[u].v
        <3>1. CASE u # t
            <4>1. task'[u] = task[u] /\ Written(task[u]) \subseteq task[u].range /\ task[u].range \subseteq Extent
                BY <1>8, <3>1 DEF Written, TypeOK, TaskState, Inv, TaskInv, Local
            <4>2. x # e /\ vol[x] = task[u].v
                BY <2>2, <2>5, <3>1, <4>1 DEF Inv, ContentInv
            <4>3. QED
                BY <1>7, <2>5, <4>1, <4>2
        <3>2. CASE u = t
            <4>1. r # Idle
                BY <1>8, <1>11, <2>5, <3>2
            <4>2. Written(r) \subseteq Written(task[t]) \cup {e} /\ r.v = v /\ new[e] = v /\ x \in Written(r)
                BY <1>1, <1>7, <1>8, <2>5, <3>2, <4>1 DEF Written
            <4>3. Written(task[t]) \subseteq Extent
                BY <1>2 DEF Written, TaskState
            <4>4. QED
                BY <1>1, <1>7, <1>8, <3>2, <4>2, <4>3 DEF Inv, ContentInv
        <3>3. QED
            BY <3>1, <3>2
    <2>6. ASSUME NEW x \in Extent \ torn', \A u \in Task : Busy(task'[u]) => x \notin Written(task'[u])
          PROVE  tgt[g][x].cur = new[x] \/ (x \in mir[slot].list /\ tgt[g][x].cur = Blank)
        <3>1. x # e /\ x \notin Written(task[t])
            <4>1. CASE r = Idle
                <5>1. x \notin task[t].range
                    BY <1>7, <1>1, <1>11, <2>6, <4>1
                <5>2. QED
                    BY <1>2, <1>3, <5>1 DEF Written, Local
            <4>2. CASE r # Idle
                <5>1. Busy(r) /\ Written(task[t]) \cup {e} \subseteq Written(r)
                    BY <1>1, <1>3, <1>7, <4>2 DEF Written, Busy
                <5>2. QED
                    BY <1>8, <2>6, <5>1
            <4>3. QED
                BY <4>1, <4>2
        <3>2. \A u \in Task : Busy(task[u]) => x \notin Written(task[u])
            BY <1>8, <2>6, <3>1
        <3>3. x \in Extent \ torn /\ new[x] = vol[x]
            BY <1>7, <1>9, <2>6, <3>1
        <3>4. tgt[g][x].cur = vol[x] \/ (x \in mir[slot].list /\ tgt[g][x].cur = Blank)
            BY <2>a, <3>2, <3>3
        <3>5. QED
            BY <3>3, <3>4
    <2>7. QED
        BY <1>1, <1>7, <2>4, <2>5, <2>6 DEF ContentInv
<1>17. DirtyInv'
    <2>1. synced <= completed' /\ (synced = completed' => completed' = completed)
        BY <1>9, Counts
    <2>2. \A u \in Task : task'[u].pc = "mirror" <=> task[u].pc = "mirror"
        BY <1>1, <1>7, <1>8, <1>11
    <2>3. QED
        BY <1>1, <2>1, <2>2 DEF Inv, DirtyInv, IsLive
<1>18. QED
    BY <1>1, <1>6, <1>10, <1>13, <1>14, <1>15, <1>16, <1>17, Frame DEF Inv

\* A discard unmaps extents, and what the kernel was told to write there is lost.
LEMMA LandDiscardStep == ASSUME Inv, NEW t \in Task, LandDiscard(t) PROVE Inv'
<1> TypeOK
    BY DEF Inv
<1>1. /\ task[t].pc = "land" /\ task[t].op = "discard" /\ Busy(task[t])
      /\ UNCHANGED <<tgt, slot, mir, recorded, completed, synced, call, budget, spent, ticket, torn, handed, standing,
                     overlap>>
    BY DEF LandDiscard, Busy, countVars, histVars
<1>2. task[t] \in TaskState /\ Local(task[t]) /\ task[t].v = Blank
    BY <1>1 DEF Inv, TaskInv, TypeOK, Local
<1>3. PICK gone \in SUBSET Extent :
        /\ gone \subseteq task[t].range \cap mapped
        /\ vol' = [e \in Extent |-> IF e \in gone THEN Blank ELSE vol[e]] /\ mapped' = mapped \ gone
        /\ task' = [u \in Task |-> IF u = t THEN [task[t] EXCEPT !.pc = "send", !.todo = gone]
                                 ELSE IF task[u].pc = "kernel" THEN [task[u] EXCEPT !.range = @ \ gone] ELSE task[u]]
    <2>1. PICK kept \in SUBSET (task[t].range \cap mapped) :
            LET gone == (task[t].range \cap mapped) \ kept IN
            /\ vol' = [e \in Extent |-> IF e \in gone THEN Blank ELSE vol[e]]
            /\ mapped' = mapped \ gone
            /\ task' = [u \in Task |-> IF u = t THEN [task[t] EXCEPT !.pc = "send", !.todo = gone]
                                     ELSE IF task[u].pc = "kernel" THEN [task[u] EXCEPT !.range = @ \ gone] ELSE task[u]]
        BY DEF LandDiscard
    <2>2. (task[t].range \cap mapped) \ kept \in SUBSET Extent
        BY DEF TypeOK
    <2>3. QED
        BY <2>1, <2>2
<1>4. /\ vol' \in [Extent -> Nat] /\ mapped' \in SUBSET Extent
      /\ \A x \in gone : vol'[x] = Blank
      /\ \A x \in Extent \ gone : vol'[x] = vol[x]
    BY <1>3 DEF TypeOK, Blank
<1>5. PICK r \in TaskState :
        /\ task'[t] = r /\ r.pc = "send" /\ r.todo = gone /\ r.op = "discard" /\ r.range = task[t].range
        /\ r.held = task[t].held /\ r.m = task[t].m /\ r.v = Blank /\ r.start = task[t].start
    <2> DEFINE x == [task[t] EXCEPT !.pc = "send", !.todo = gone]
    <2>1. x \in TaskState /\ task'[t] = x
        BY <1>2, <1>3 DEF TaskState
    <2>2. /\ x.pc = "send" /\ x.todo = gone /\ x.op = "discard" /\ x.range = task[t].range
          /\ x.held = task[t].held /\ x.m = task[t].m /\ x.v = Blank /\ x.start = task[t].start
        BY <1>1, <1>2 DEF TaskState
    <2> HIDE DEF x
    <2>3. QED
        BY <2>1, <2>2
<1>6. ASSUME NEW u \in Task, u # t
      PROVE  /\ task'[u] \in TaskState /\ task'[u].pc = task[u].pc
             /\ task[u].pc # "kernel" => task'[u] = task[u]
             /\ task[u].pc = "kernel" => /\ task'[u].range = task[u].range \ gone /\ task'[u].held = task[u].held
                                         /\ task'[u].todo = task[u].todo /\ task'[u].op = task[u].op
                                         /\ task'[u].v = task[u].v /\ task'[u].start = task[u].start
    <2>1. task[u] \in TaskState
        BY DEF TypeOK
    <2>2. CASE task[u].pc = "kernel"
        <3>1. task'[u] = [task[u] EXCEPT !.range = @ \ gone]
            BY <1>3, <1>6, <2>2
        <3>2. QED
            BY <2>1, <2>2, <3>1 DEF TaskState
    <2>3. CASE task[u].pc # "kernel"
        BY <1>3, <1>6, <2>1, <2>3
    <2>4. QED
        BY <2>2, <2>3
<1>7. \A c \in Caller : call[c].pc # "stopping"
    BY <1>1 DEF Inv, GateInv
<1>8. /\ task[t].m \in {None, slot}
      /\ IsLive(slot) => task[t].m = slot /\ slot # None /\ task[t].held = task[t].range
    BY <1>1, <1>2 DEF Inv, GateInv, IsLive, Local
<1>9. TypeOK'
    <2>1. DOMAIN task' = Task /\ task' = [u \in Task |-> task'[u]]
        BY <1>3
    <2>2. \A u \in Task : task'[u] \in TaskState
        BY <1>5, <1>6
    <2>3. QED
        BY <1>1, <1>4, <2>1, <2>2 DEF TypeOK
<1>10. GateInv' /\ LockInv'
    <2>1. Allowed(t, r)
        BY <1>1, <1>5, <1>7, <1>8 DEF Allowed
    <2>2. Others(t) /\ (IsLive(slot)' => IsLive(slot))
        BY <1>1, <1>6 DEF Others, IsLive
    <2>3. QED
        BY <1>1, <1>5, <2>1, <2>2, TaskStep
<1>11. TaskInv'
    <2>1. ASSUME NEW u \in Task, u # t PROVE Local(task[u])'
        <3>1. Local(task[u])
            BY DEF Inv, TaskInv
        <3>2. CASE task[u].pc = "kernel"
            BY <1>1, <1>3, <1>6, <2>1, <3>1, <3>2 DEF Local
        <3>3. CASE task[u].pc # "kernel"
            BY <1>1, <1>6, <2>1, <3>1, <3>3 DEF Local
        <3>4. QED
            BY <3>2, <3>3
    <2>2. Local(task[t])'
        BY <1>1, <1>2, <1>3, <1>5 DEF Local
    <2>3. QED
        BY <2>1, <2>2 DEF TaskInv
<1>12. MappedInv'
    BY <1>3, <1>4 DEF Inv, MappedInv
<1>13. StopInv'
    BY <1>1, <1>7 DEF StopInv
<1>14. ContentInv'
    <2> SUFFICES ASSUME IsLive(slot), mir[slot].fresh PROVE ContentInv'
        BY <1>1 DEF ContentInv, IsLive
    <2> DEFINE g == mir[slot].target
    <2>0. ContentInv
        BY DEF Inv
    <2>a. \A x \in Extent \ torn : (\A u \in Task : Busy(task[u]) => x \notin Written(task[u])) =>
            tgt[g][x].cur = vol[x] \/ (x \in mir[slot].list /\ tgt[g][x].cur = Blank)
        BY <2>0 DEF ContentInv
    <2>1. ASSUME NEW x \in gone
          PROVE  /\ \A u \in Task \ {t} : Busy(task[u]) => x \notin Written(task[u])
                 /\ mir[slot].pc = "send" => Min(mir[slot].list) # x
        <3>1. x \in task[t].held
            BY <1>3, <1>8
        <3>2. QED
            BY <1>1, <3>1, HeldApart
    <2>2. mir[slot].pc = "send" => Min(mir[slot].list) \in Extent
        <3>1. slot \in Mirror
            BY DEF TypeOK, IsLive
        <3>2. QED
            BY <3>1, ListMin DEF Inv, MirrorInv
    <2>3. mir[slot].pc = "send" => mir[slot].read = vol'[Min(mir[slot].list)]
        BY <1>4, <2>1, <2>2 DEF Inv, ContentInv
    <2>4. Written(r) = gone /\ Written(task[t]) = {}
        BY <1>1, <1>5 DEF Written
    <2>5. ASSUME NEW u \in Task, u # t, Busy(task'[u]) PROVE Busy(task[u]) /\ task'[u] = task[u]
        BY <1>6, <2>5 DEF Busy
    <2>6. ASSUME NEW u \in Task, Busy(task'[u]), NEW x \in Written(task'[u]) PROVE vol'[x] = task'[u].v
        <3>1. CASE u # t
            <4>1. Busy(task[u]) /\ task'[u] = task[u]
                BY <2>5, <2>6, <3>1
            <4>2. Written(task[u]) \subseteq Extent
                BY DEF Written, TypeOK, TaskState
            <4>3. x \in Extent \ gone /\ vol[x] = task[u].v
                BY <2>1, <2>6, <3>1, <4>1, <4>2 DEF Inv, ContentInv
            <4>4. QED
                BY <1>4, <4>1, <4>3
        <3>2. CASE u = t
            BY <1>4, <1>5, <2>4, <2>6, <3>2
        <3>3. QED
            BY <3>1, <3>2
    <2>7. ASSUME NEW x \in Extent \ torn, \A u \in Task : Busy(task'[u]) => x \notin Written(task'[u])
          PROVE  tgt[g][x].cur = vol'[x] \/ (x \in mir[slot].list /\ tgt[g][x].cur = Blank)
        <3>1. Busy(r)
            BY <1>5 DEF Busy
        <3>2. x \notin gone
            BY <1>5, <2>4, <2>7, <3>1
        <3>3. \A u \in Task : Busy(task[u]) => x \notin Written(task[u])
            BY <1>6, <2>4, <2>7 DEF Busy
        <3>4. tgt[g][x].cur = vol[x] \/ (x \in mir[slot].list /\ tgt[g][x].cur = Blank)
            BY <2>a, <3>3
        <3>5. QED
            BY <1>4, <3>2, <3>4
    <2>8. QED
        BY <1>1, <2>3, <2>6, <2>7 DEF ContentInv
<1>15. DirtyInv'
    <2>1. \A u \in Task : task'[u].pc = "mirror" <=> task[u].pc = "mirror"
        BY <1>1, <1>5, <1>6
    <2>2. QED
        BY <1>1, <2>1 DEF Inv, DirtyInv, IsLive
<1>16. QED
    BY <1>1, <1>9, <1>10, <1>11, <1>12, <1>13, <1>14, <1>15, Frame DEF Inv

\* What reaches the target of the mirror that is set leaves the other targets, and
\* those that were switched to, alone; an error there only fails the mirror.
LEMMA SlotStep ==
    ASSUME Inv, slot # None, mir' \in {mir, [mir EXCEPT ![slot].failed = TRUE]},
           tgt' \in TargetState, \A g \in Target : g # mir[slot].target => tgt'[g] = tgt[g],
           UNCHANGED <<slot, handed>>
    PROVE  /\ mir' \in [Mirror -> MirrorState]
           /\ \A n \in Mirror : /\ mir'[n].pc = mir[n].pc /\ mir'[n].list = mir[n].list
                                /\ mir'[n].stopping = mir[n].stopping /\ mir'[n].fresh = mir[n].fresh
                                /\ mir'[n].target = mir[n].target
           /\ MirrorInv' /\ HandedInv'
           /\ IsLive(slot)' => IsLive(slot) /\ mir' = mir
<1> TypeOK /\ slot \in Mirror
    BY DEF Inv, TypeOK
<1>1. mir[slot] \in MirrorState /\ mir[slot].pc # "none" /\ ~ mir[slot].stopping
    BY DEF TypeOK, Inv, MirrorInv
<1>2. PICK r \in MirrorState : /\ mir' = [mir EXCEPT ![slot] = r]
                               /\ r = mir[slot] \/ r = [mir[slot] EXCEPT !.failed = TRUE]
    <2>1. CASE mir' = mir
        <3>1. mir = [mir EXCEPT ![slot] = mir[slot]]
            BY DEF TypeOK
        <3>2. QED
            BY <1>1, <2>1, <3>1
    <2>2. CASE mir' = [mir EXCEPT ![slot].failed = TRUE]
        BY <1>1, <2>2, MirrorTypes
    <2>3. QED
        BY <2>1, <2>2
<1>3. /\ r.pc = mir[slot].pc /\ r.list = mir[slot].list /\ r.stopping = mir[slot].stopping
      /\ r.fresh = mir[slot].fresh /\ r.target = mir[slot].target /\ r.synced = mir[slot].synced
      /\ mir[slot].failed => r.failed
    BY <1>1, <1>2 DEF MirrorState
<1>4. Onward(slot, r)
    BY <1>1, <1>3 DEF Onward, Inv, MirrorInv
<1>5. /\ mir' \in [Mirror -> MirrorState] /\ mir'[slot] = r /\ \A n \in Mirror \ {slot} : mir'[n] = mir[n]
      /\ MirrorInv' /\ (IsLive(slot)' => IsLive(slot))
    BY <1>2, <1>4, OnwardStep
<1>6. \A n \in Mirror : /\ mir'[n].pc = mir[n].pc /\ mir'[n].list = mir[n].list
                        /\ mir'[n].stopping = mir[n].stopping /\ mir'[n].fresh = mir[n].fresh
                        /\ mir'[n].target = mir[n].target
    BY <1>3, <1>5
<1>7. HandedInv'
    BY <1>1, <1>6 DEF Inv, HandedInv
<1>8. IsLive(slot)' => mir' = mir
    <2> SUFFICES ASSUME mir' # mir PROVE mir'[slot].failed
        BY DEF IsLive
    <2>1. mir' = [mir EXCEPT ![slot].failed = TRUE]
        OBVIOUS
    <2>2. QED
        BY <1>1, <2>1 DEF TypeOK, MirrorState
<1>9. QED
    BY <1>5, <1>6, <1>7, <1>8

\* A request ends: it lets its locks and the gate go.
LEMMA RestFacts ==
    ASSUME Inv, NEW t \in Task, NEW r \in TaskState, r = Idle \/ \E S \in SUBSET Extent : r = Zeroing(S)
    PROVE  Allowed(t, r) /\ ~ Busy(r) /\ r.pc \in {"idle", "zeroes"} /\ (completed' \in Nat => Local(r)')
<1>1. r.pc \in {"idle", "zeroes"} /\ r.held = {} /\ r.todo = {} /\ r.range = {} /\ r.op = "none" /\ r.start = 0
    <2>1. CASE r = Idle
        BY <2>1 DEF Idle
    <2>2. CASE \E S \in SUBSET Extent : r = Zeroing(S)
        <3>1. PICK S \in SUBSET Extent : r = Zeroing(S)
            BY <2>2
        <3>2. QED
            BY <3>1 DEF Idle, Zeroing
    <2>3. QED
        BY <2>1, <2>2
<1>2. QED
    BY <1>1 DEF Allowed, Busy, Local

\* The target gets it too, and the request is answered.
LEMMA SendOnStep == ASSUME Inv, NEW t \in Task, SendOn(t) PROVE Inv'
<1> TypeOK
    BY DEF Inv
<1> DEFINE R == Written(task[t])
<1>1. /\ task[t] \in TaskState /\ task[t].pc = "send" /\ Busy(task[t]) /\ task[t].v \in Nat /\ Local(task[t])
      /\ UNCHANGED <<vol, mapped, slot, recorded, synced, call, budget, ticket, handed, standing, overlap>>
      /\ completed' = completed + 1
    BY DEF SendOn, Busy, volVars, TypeOK, TaskState, Inv, TaskInv
<1>2. R = (IF task[t].op = "discard" THEN task[t].todo ELSE task[t].range) /\ R \in SUBSET Extent
    BY <1>1 DEF Written, Local, TaskState
<1>3. /\ torn' = torn \ R
      /\ IF task[t].m = None \/ R = {} THEN UNCHANGED <<tgt, mir, spent>> ELSE Send(task[t].m, R, task[t].v)
    BY <1>2 DEF SendOn
<1>4. \A c \in Caller : call[c].pc # "stopping"
    BY <1>1 DEF Inv, GateInv, Busy
<1>5. task[t].m \in {None, slot} /\ (IsLive(slot) => task[t].m = slot /\ slot # None)
    BY <1>1 DEF Inv, GateInv, IsLive
<1>6. PICK r \in TaskState : /\ task' = [task EXCEPT ![t] = r]
                             /\ r = Idle \/ \E S \in SUBSET Extent : r = Zeroing(S)
    <2>1. task[t].rest \in SUBSET Extent
        BY <1>1 DEF TaskState
    <2>2. QED
        BY <2>1, TaskTypes DEF SendOn
<1>7. Allowed(t, r) /\ ~ Busy(r) /\ r.pc \in {"idle", "zeroes"} /\ Local(r)'
    BY <1>1, <1>6, Counts, RestFacts
<1>8. task' \in [Task -> TaskState] /\ task'[t] = r /\ \A u \in Task \ {t} : task'[u] = task[u]
    BY <1>6 DEF TypeOK
<1> HIDE DEF R
<1>9. \/ UNCHANGED <<tgt, mir, spent>> /\ (IsLive(slot) => R = {})
      \/ /\ slot \in Mirror /\ IsLive(slot) /\ mir' \in {mir, [mir EXCEPT ![slot].failed = TRUE]}
         /\ \E S \in SUBSET R : tgt' = Sent(slot, S, task[t].v) /\ (mir' = mir => S = R \/ ~ IsLive(slot)')
         /\ spent' \in [Event -> Nat]
    <2>1. CASE task[t].m = None \/ R = {} \/ ~ IsLive(task[t].m)
        BY <1>3, <1>5, <2>1 DEF Send
    <2>2. CASE task[t].m # None /\ R # {} /\ IsLive(task[t].m)
        <3>1. slot \in Mirror /\ task[t].m = slot /\ IsLive(slot)
            BY <1>5, <2>2 DEF TypeOK
        <3>2. CASE tgt' = Sent(slot, R, task[t].v) /\ UNCHANGED <<mir, spent>>
            BY <3>1, <3>2 DEF TypeOK
        <3>3. CASE /\ Spend("lost") /\ mir' = [mir EXCEPT ![slot].failed = TRUE]
                   /\ \E took \in SUBSET R : tgt' = Sent(slot, took, task[t].v)
            <4>1. spent' \in [Event -> Nat]
                BY <3>3, SpendType DEF Event
            <4>2. mir'[slot].failed
                BY <3>1, <3>3 DEF TypeOK, MirrorState
            <4>3. ~ IsLive(slot)'
                BY <1>1, <4>2 DEF IsLive
            <4>4. QED
                BY <3>1, <3>3, <4>1, <4>3
        <3>4. QED
            BY <1>3, <2>2, <3>1, <3>2, <3>3 DEF Send
    <2>3. QED
        BY <2>1, <2>2
<1>10. TaskInv'
    <2>1. ASSUME NEW u \in Task, u # t PROVE Local(task[u])'
        <3>1. task'[u] = task[u] /\ Local(task[u]) /\ task[u].start \in Nat
            BY <1>8, <2>1 DEF Inv, TaskInv, TypeOK, TaskState
        <3>2. QED
            BY <1>1, <3>1, Counts DEF Local
    <2>2. QED
        BY <1>7, <1>8, <2>1 DEF TaskInv
<1>11. StopInv'
    BY <1>1, <1>4 DEF StopInv
<1>12. DirtyInv'
    BY <1>1, Counts DEF DirtyInv
<1>13. Others(t) /\ torn' \in SUBSET Extent /\ completed' \in Nat
    BY <1>1, <1>3, <1>8, Counts DEF Others, TypeOK
<1>14. CASE UNCHANGED <<tgt, mir, spent>> /\ (IsLive(slot) => R = {})
    <2>1. TypeOK'
        BY <1>1, <1>8, <1>13, <1>14 DEF TypeOK
    <2>2. GateInv' /\ LockInv'
        <3>1. IsLive(slot)' => IsLive(slot)
            BY <1>1, <1>14 DEF IsLive
        <3>2. QED
            BY <1>1, <1>7, <1>8, <1>13, <1>14, <3>1, TaskStep
    <2>3. ContentInv'
        <3> SUFFICES ASSUME IsLive(slot), mir[slot].fresh PROVE ContentInv'
            BY <1>1, <1>14 DEF ContentInv, IsLive
        <3>1. torn' = torn /\ \A x : x \notin Written(task[t])
            BY <1>3, <1>14 DEF R
        <3>2. ContentInv
            BY DEF Inv
        <3>3. \A u \in Task : Busy(task'[u]) => Busy(task[u]) /\ task'[u] = task[u]
            BY <1>7, <1>8
        <3>4. \A x \in Extent : (\A u \in Task : Busy(task'[u]) => x \notin Written(task'[u])) =>
                (\A u \in Task : Busy(task[u]) => x \notin Written(task[u]))
            BY <1>8, <3>1
        <3>5. QED
            BY <1>1, <1>14, <3>1, <3>2, <3>3, <3>4 DEF ContentInv
    <2>4. QED
        BY <1>1, <1>10, <1>11, <1>12, <1>14, <2>1, <2>2, <2>3, Frame DEF Inv
<1>15. CASE /\ slot \in Mirror /\ IsLive(slot) /\ mir' \in {mir, [mir EXCEPT ![slot].failed = TRUE]}
            /\ \E S \in SUBSET R : tgt' = Sent(slot, S, task[t].v) /\ (mir' = mir => S = R \/ ~ IsLive(slot)')
            /\ spent' \in [Event -> Nat]
    <2> DEFINE g == mir[slot].target
    <2>1. PICK S \in SUBSET R : tgt' = Sent(slot, S, task[t].v) /\ (mir' = mir => S = R \/ ~ IsLive(slot)')
        BY <1>15
    <2>2. slot # None /\ slot \in Mirror /\ g \in Target /\ S \in SUBSET Extent
        BY <1>2, <1>15 DEF IsLive, Inv, MirrorInv
    <2>3. /\ tgt' \in TargetState /\ \A h \in Target : h # g => tgt'[h] = tgt[h]
          /\ \A x \in S : tgt'[g][x].cur = task[t].v
          /\ \A x \in Extent \ S : tgt'[g][x] = tgt[g][x]
        <3>1. task[t].v \in Nat
            BY <1>1
        <3>2. tgt' \in TargetState /\ \A h \in Target : h # g => tgt'[h] = tgt[h]
            BY <2>1, <2>2, <3>1, SentType, SentElsewhere
        <3>3. \A x \in S : tgt'[g][x].cur = task[t].v
            BY <2>1, <2>2, <3>1, SentThere
        <3>4. \A x \in Extent \ S : tgt'[g][x] = tgt[g][x]
            BY <2>1, <2>2, <3>1, SentKeeps
        <3>5. QED
            BY <3>2, <3>3, <3>4
    <2>4. /\ mir' \in [Mirror -> MirrorState]
          /\ \A n \in Mirror : /\ mir'[n].pc = mir[n].pc /\ mir'[n].list = mir[n].list
                               /\ mir'[n].stopping = mir[n].stopping /\ mir'[n].fresh = mir[n].fresh
                               /\ mir'[n].target = mir[n].target
          /\ MirrorInv' /\ HandedInv'
          /\ IsLive(slot)' => IsLive(slot) /\ mir' = mir
        BY <1>1, <1>15, <2>2, <2>3, SlotStep
    <2>5. TypeOK'
        BY <1>1, <1>8, <1>13, <1>15, <2>3, <2>4 DEF TypeOK
    <2>6. GateInv' /\ LockInv'
        BY <1>1, <1>7, <1>8, <1>13, <2>4, TaskStep
    <2>7. ContentInv'
        <3> SUFFICES ASSUME IsLive(slot)', mir'[slot'].fresh PROVE ContentInv'
            BY DEF ContentInv
        <3>1. /\ mir' = mir /\ slot' = slot /\ IsLive(slot) /\ mir[slot].fresh /\ S = R
            BY <1>1, <2>1, <2>4 DEF IsLive
        <3>2. ContentInv
            BY DEF Inv
        <3>3. \A u \in Task : Busy(task'[u]) => Busy(task[u]) /\ task'[u] = task[u]
            BY <1>7, <1>8
        <3>4. \A x \in R : vol[x] = task[t].v
            BY <1>1, <3>1, <3>2 DEF ContentInv, R
        <3>5. ASSUME NEW x \in Extent \ torn', \A u \in Task : Busy(task'[u]) => x \notin Written(task'[u])
              PROVE  tgt'[g][x].cur = vol[x] \/ (x \in mir[slot].list /\ tgt'[g][x].cur = Blank)
            <4>1. CASE x \in R
                BY <2>3, <3>1, <3>4, <4>1
            <4>2. CASE x \notin R
                <5>1. x \in Extent \ torn /\ tgt'[g][x] = tgt[g][x]
                    BY <1>3, <2>3, <3>1, <3>5, <4>2
                <5>2. \A u \in Task : Busy(task[u]) => x \notin Written(task[u])
                    BY <1>8, <3>5, <4>2 DEF R
                <5>3. tgt[g][x].cur = vol[x] \/ (x \in mir[slot].list /\ tgt[g][x].cur = Blank)
                    BY <3>1, <3>2, <5>1, <5>2 DEF ContentInv
                <5>4. QED
                    BY <5>1, <5>3
            <4>3. QED
                BY <4>1, <4>2
        <3>6. QED
            BY <1>1, <3>1, <3>2, <3>3, <3>5 DEF ContentInv
    <2>8. QED
        BY <1>1, <1>10, <1>11, <1>12, <2>4, <2>5, <2>6, <2>7, Frame DEF Inv
<1>16. QED
    BY <1>9, <1>14, <1>15

\* The kernel has done what it was told: no mirror is live.
LEMMA KernelWritesStep == ASSUME Inv, NEW t \in Task, KernelWrites(t) PROVE Inv'
<1> TypeOK
    BY DEF Inv
<1>1. /\ task[t] \in TaskState /\ task[t].pc = "kernel" /\ task[t].v \in Nat
      /\ UNCHANGED <<mapped, tgt, slot, mir, recorded, synced, call, budget, spent, ticket, handed, standing, overlap>>
      /\ completed' = completed + 1 /\ torn' = torn \ task[t].range
      /\ vol' = [e \in Extent |-> IF e \in task[t].range THEN task[t].v ELSE vol[e]]
      /\ task' = [task EXCEPT ![t] = Idle]
    BY DEF KernelWrites, Finish, TypeOK, TaskState
<1>2. PICK r \in TaskState : r = Idle
    BY TaskTypes
<1>3. Allowed(t, r) /\ ~ Busy(r) /\ r.pc \in {"idle", "zeroes"} /\ Local(r)'
    BY <1>1, <1>2, Counts, RestFacts
<1>4. task' \in [Task -> TaskState] /\ task'[t] = r /\ \A u \in Task \ {t} : task'[u] = task[u]
    BY <1>1, <1>2 DEF TypeOK
<1>5. ~ IsLive(slot) /\ ~ IsLive(slot)' /\ \A c \in Caller : call[c].pc # "stopping"
    BY <1>1 DEF Inv, GateInv, IsLive
<1>6. task[t].range \subseteq mapped /\ vol' \in [Extent -> Nat] /\ torn' \in SUBSET Extent /\ completed' \in Nat
    BY <1>1, Counts DEF Inv, TaskInv, Local, TypeOK
<1>7. TypeOK'
    BY <1>1, <1>4, <1>6 DEF TypeOK
<1>8. GateInv' /\ LockInv'
    <2>1. Others(t)
        BY <1>4 DEF Others
    <2>2. QED
        BY <1>1, <1>3, <1>4, <1>5, <2>1, TaskStep
<1>9. TaskInv'
    <2>1. ASSUME NEW u \in Task, u # t PROVE Local(task[u])'
        <3>1. task'[u] = task[u] /\ Local(task[u]) /\ task[u].start \in Nat
            BY <1>4, <2>1 DEF Inv, TaskInv, TypeOK, TaskState
        <3>2. QED
            BY <1>1, <3>1, Counts DEF Local
    <2>2. QED
        BY <1>3, <1>4, <2>1 DEF TaskInv
<1>10. MappedInv'
    BY <1>1, <1>6 DEF Inv, MappedInv
<1>11. ContentInv' /\ StopInv'
    BY <1>1, <1>5 DEF ContentInv, StopInv
<1>12. DirtyInv'
    BY <1>1, Counts DEF DirtyInv
<1>13. QED
    BY <1>1, <1>7, <1>8, <1>9, <1>10, <1>11, <1>12, Frame DEF Inv

\* The target is flushed as the volume was.
LEMMA FlushMirrorStep == ASSUME Inv, NEW t \in Task, FlushMirror(t) PROVE Inv'
<1> TypeOK
    BY DEF Inv
<1>1. /\ task[t].pc = "mirror" /\ ~ Busy(task[t])
      /\ UNCHANGED <<vol, mapped, slot, recorded, completed, synced, call, budget, ticket, torn, handed, standing,
                     overlap>>
      /\ task' = [task EXCEPT ![t] = Idle]
    BY DEF FlushMirror, Busy, volVars, countVars, histVars
<1>2. PICK r \in TaskState : r = Idle
    BY TaskTypes
<1>3. Allowed(t, r) /\ ~ Busy(r) /\ r.pc \in {"idle", "zeroes"} /\ Local(r)'
    BY <1>1, <1>2, Counts, RestFacts
<1>4. task' \in [Task -> TaskState] /\ task'[t] = r /\ \A u \in Task \ {t} : task'[u] = task[u]
    BY <1>1, <1>2 DEF TypeOK
<1>5. Others(t) /\ \A u \in Task : (Busy(task'[u]) <=> Busy(task[u])) /\ (Busy(task[u]) => task'[u] = task[u])
    BY <1>1, <1>3, <1>4 DEF Others
<1>6. TaskInv'
    BY <1>1, <1>3, <1>4 DEF Inv, TaskInv, Local
<1>7. CASE ~ IsLive(slot)
    <2>1. UNCHANGED <<tgt, mir, spent>> /\ ~ IsLive(slot)'
        BY <1>1, <1>7 DEF FlushMirror, IsLive
    <2>2. TypeOK'
        BY <1>1, <1>4, <2>1 DEF TypeOK
    <2>3. GateInv' /\ LockInv'
        BY <1>1, <1>3, <1>4, <1>5, <2>1, TaskStep
    <2>4. ContentInv' /\ DirtyInv'
        BY <1>1, <2>1, Counts DEF ContentInv, DirtyInv
    <2>5. QED
        BY <1>1, <1>6, <2>1, <2>2, <2>3, <2>4, Frame DEF Inv
<1>8. CASE IsLive(slot)
    <2> DEFINE g == mir[slot].target
               F == [tgt EXCEPT ![g] = FlushAll(@)]
    <2>1. slot # None /\ slot \in Mirror /\ g \in Target
        BY <1>8 DEF IsLive, TypeOK, Inv, MirrorInv
    <2>2. /\ F \in TargetState /\ \A h \in Target : h # g => F[h] = tgt[h]
          /\ \A e \in Extent : F[g][e].cur = tgt[g][e].cur
          /\ \A e \in Extent : F[g][e].may = {F[g][e].cur}
        BY <2>1, FlushFacts
    <2>3. \/ tgt' = F /\ UNCHANGED <<mir, spent>>
          \/ Spend("lost") /\ mir' = [mir EXCEPT ![slot].failed = TRUE] /\ UNCHANGED tgt
        BY <1>8 DEF FlushMirror, FlushTarget
    <2> HIDE DEF F
    <2>4. mir' \in {mir, [mir EXCEPT ![slot].failed = TRUE]} /\ spent' \in [Event -> Nat]
        BY <2>3, SpendType DEF Event, TypeOK
    <2>5. /\ tgt' \in TargetState /\ \A h \in Target : h # g => tgt'[h] = tgt[h]
          /\ \A e \in Extent : tgt'[g][e].cur = tgt[g][e].cur
        BY <2>2, <2>3 DEF TypeOK
    <2>6. /\ mir' \in [Mirror -> MirrorState]
          /\ \A n \in Mirror : /\ mir'[n].pc = mir[n].pc /\ mir'[n].list = mir[n].list
                               /\ mir'[n].stopping = mir[n].stopping /\ mir'[n].fresh = mir[n].fresh
                               /\ mir'[n].target = mir[n].target
          /\ MirrorInv' /\ HandedInv'
          /\ IsLive(slot)' => IsLive(slot) /\ mir' = mir
        BY <1>1, <2>1, <2>4, <2>5, SlotStep
    <2>7. TypeOK'
        BY <1>1, <1>4, <2>4, <2>5, <2>6 DEF TypeOK
    <2>8. GateInv' /\ LockInv'
        BY <1>1, <1>3, <1>4, <1>5, <2>6, TaskStep
    <2>9. StopInv'
        <3>1. \A c \in Caller : call[c].pc # "stopping"
            BY <2>1 DEF Inv, GateInv
        <3>2. QED
            BY <1>1, <3>1 DEF StopInv
    <2>10. ContentInv'
        <3> SUFFICES ASSUME IsLive(slot)', mir'[slot'].fresh PROVE ContentInv'
            BY DEF ContentInv
        <3>1. mir' = mir /\ slot' = slot /\ mir[slot].fresh
            BY <1>1, <2>6
        <3>2. ContentInv
            BY DEF Inv
        <3>3. \A e \in Extent : tgt'[g][e].cur = tgt[g][e].cur
            BY <2>5
        <3>4. QED
            BY <1>1, <1>5, <1>8, <3>1, <3>2, <3>3 DEF ContentInv
    <2>11. DirtyInv'
        <3> SUFFICES ASSUME IsLive(slot)' PROVE DirtyInv'
            BY <1>1, Counts DEF DirtyInv
        <3>1. mir' = mir /\ slot' = slot
            BY <1>1, <2>6
        <3>2. tgt' = F
            <4> SUFFICES ASSUME mir' = [mir EXCEPT ![slot].failed = TRUE] PROVE FALSE
                BY <2>3
            <4>1. mir'[slot].failed
                BY <2>1 DEF TypeOK, MirrorState
            <4>2. QED
                BY <3>1, <4>1 DEF IsLive
        <3>3. QED
            BY <1>1, <2>2, <3>1, <3>2, Counts DEF DirtyInv
    <2>12. QED
        BY <1>1, <1>6, <2>6, <2>7, <2>8, <2>9, <2>10, <2>11, Frame DEF Inv
<1>9. QED
    BY <1>7, <1>8

-----------------------------------------------------------------------------
(* The theorems *)

\* The invariant holds before anything has happened.
LEMMA InitInv == Init => Inv
<1> SUFFICES ASSUME Init PROVE Inv
    OBVIOUS
<1> USE DEF Init
<1>1. /\ \A t \in Task : task[t] = Idle
      /\ \A c \in Caller : call[c] = NoCall
      /\ \A m \in Mirror : mir[m] = Unused
    OBVIOUS
<1>2. /\ Idle.pc = "idle" /\ ~ Busy(Idle) /\ Idle.held = {} /\ Idle.todo = {} /\ Idle.range = {} /\ Idle.op = "none"
      /\ Idle.start = 0
      /\ NoCall.pc = "idle"
      /\ Unused.pc = "none" /\ ~ Unused.synced /\ Unused.target = None
    BY DEF Idle, Busy, NoCall, Unused
<1>3. TypeOK
    <2>1. Unused \in MirrorState
        BY DEF Unused, MirrorState, Blank
    <2>2. tgt \in TargetState
        BY DEF TargetState, Cell, Durable, Blank
    <2>3. vol \in [Extent -> Nat]
        BY DEF Blank
    <2>4. QED
        BY <2>1, <2>2, <2>3, TaskTypes, CallTypes DEF TypeOK
<1>4. TaskInv
    BY <1>1, <1>2 DEF TaskInv, Local
<1>5. MirrorInv
    BY <1>1, <1>2 DEF MirrorInv
<1>6. GateInv /\ LockInv /\ StopInv
    BY <1>1, <1>2 DEF GateInv, LockInv, StopInv, IsLive
<1>7. MappedInv
    BY DEF MappedInv
<1>8. ContentInv /\ HandedInv /\ DirtyInv /\ RecordInv
    BY <1>1, <1>2 DEF ContentInv, HandedInv, DirtyInv, RecordInv, IsLive
<1>9. QED
    BY <1>3, <1>4, <1>5, <1>6, <1>7, <1>8 DEF Inv

\* A step of a request, of a copy, of a call or of the engine keeps it.
LEMMA NextInv == Inv /\ [Next]_vars => Inv'
<1> SUFFICES ASSUME Inv, [Next]_vars PROVE Inv'
    OBVIOUS
<1>1. ASSUME UNCHANGED vars PROVE Inv'
    <2>1. TypeOK'
        BY <1>1 DEF vars, Inv, TypeOK
    <2>2. QED
        BY <1>1, <2>1, Frame DEF vars, Inv
<1>2. ASSUME NEW t \in Task,
             \/ \E r \in Ranges : BeginWrite(t, r) \/ BeginZeroes(t, r) \/ BeginDiscard(t, r)
             \/ NextZeroes(t) \/ LockExtents(t) \/ LandWrite(t) \/ LandDiscard(t) \/ SendOn(t)
             \/ KernelWrites(t) \/ \E e \in Extent : PlanWrite(t, e)
             \/ BeginFlush(t) \/ SyncVolume(t) \/ FlushMirror(t)
      PROVE  Inv'
    BY <1>2, BeginWriteStep, BeginZeroesStep, BeginDiscardStep, NextZeroesStep, LockExtentsStep, LandWriteStep,
       LandDiscardStep, SendOnStep, KernelWritesStep, PlanWriteStep, BeginFlushStep, SyncVolumeStep, FlushMirrorStep
<1>3. ASSUME NEW m \in Mirror, CopyRead(m) \/ CopySend(m) \/ CopyDone(m) \/ MarkSynced(m) PROVE Inv'
    BY <1>3, CopyReadStep, CopySendStep, CopyDoneStep, MarkSyncedStep
<1>4. ASSUME NEW c \in Caller,
             \/ \E g \in Target : Start(c, g)
             \/ RecordStart(c) \/ SetMirror(c) \/ Forget(c) \/ Stop(c) \/ FlushAtStop(c)
      PROVE  Inv'
    BY <1>4, StartStep, RecordStartStep, SetMirrorStep, ForgetStep, StopStep, FlushAtStopStep
<1>5. QED
    BY <1>1, <1>2, <1>3, <1>4, RestartStep DEF Next, Quiet

\* So the invariant always holds.
LEMMA AlwaysInv == Spec => []Inv
BY InitInv, NextInv, PTL DEF Spec

\* The requests, the mirrors and the calls are always in one of the states the code
\* gives them, and every count is a number.
THEOREM AlwaysTypeOK == Spec => []TypeOK
<1>1. Inv => TypeOK
    BY DEF Inv
<1>2. QED
    BY <1>1, AlwaysInv, PTL

\* However many extents, requests, mirrors and targets there are: a mirror to a
\* fresh target that calls itself synced has every byte, but for extents a request
\* is on and for those whose last request ended with an error.
THEOREM AlwaysSyncedMeansSame == Spec => []SyncedMeansSame
<1>1. Inv => SyncedMeansSame
    <2> SUFFICES ASSUME Inv, IsSynced(slot), mir[slot].fresh, NEW e \in Extent \ torn, ~ InFlight(e)
                 PROVE  tgt[mir[slot].target][e].cur = vol[e]
        BY DEF SyncedMeansSame
    <2>1. IsLive(slot) /\ slot \in Mirror /\ mir[slot].list = {}
        BY DEF IsSynced, IsLive, Inv, MirrorInv, TypeOK
    <2>2. \A t \in Task : Busy(task[t]) => e \notin Written(task[t])
        BY DEF InFlight, Busy, Written, Inv, TaskInv, Local
    <2>3. ContentInv
        BY DEF Inv
    <2>4. QED
        BY <2>1, <2>2, <2>3 DEF ContentInv
<1>2. QED
    BY <1>1, AlwaysInv, PTL

\* A target that was switched to holds, durably and from then on, what the volume
\* held.
THEOREM AlwaysSwitchedHasEverything == Spec => []SwitchedHasEverything
<1>1. Inv => SwitchedHasEverything
    BY DEF Inv, HandedInv, SwitchedHasEverything
<1>2. QED
    BY <1>1, AlwaysInv, PTL

\* A flush that finds nothing to do owes the target nothing.
THEOREM AlwaysSkippedFlushIsDone == Spec => []SkippedFlushIsDone
<1>1. Inv => SkippedFlushIsDone
    <2> SUFFICES ASSUME Inv, IsSynced(slot), mir[slot].fresh, synced >= completed,
                        \A t \in Task : task[t].pc # "mirror", NEW e \in Extent
                 PROVE  tgt[mir[slot].target][e].may = {tgt[mir[slot].target][e].cur}
        BY DEF SkippedFlushIsDone
    <2>1. synced = completed /\ IsLive(slot) /\ mir[slot].synced
        BY Counts DEF IsSynced
    <2>2. DirtyInv
        BY DEF Inv
    <2>3. QED
        BY <2>1, <2>2 DEF DirtyInv
<1>2. QED
    BY <1>1, AlwaysInv, PTL

\* A mirror that was started and not stopped is recorded, across restarts and
\* failed starts, as long as the API has one call at a time.
THEOREM AlwaysNeverVanishes == Spec => []NeverVanishes
<1>1. Inv => NeverVanishes
    BY DEF Inv, RecordInv, NeverVanishes
<1>2. QED
    BY <1>1, AlwaysInv, PTL
=============================================================================
