------------------------- MODULE ParityStripesProofs -------------------------
(***************************************************************************)
(* What holds of parity volumes for every width, number of stripes, slabs   *)
(* and requests, through deaths of slabs, power cuts and starts with slabs  *)
(* absent.                                                                  *)
(*                                                                          *)
(* The tables and the record.  A leg's slot is taken in its slab's table,   *)
(* and as of its last sync on the drive; one that waits to be freed is no   *)
(* leg's (Tabled, OwedOut).  So whatever frees a cut undoes and whatever    *)
(* record it finds, a stripe the start does not set back has every leg      *)
(* where it was last synced (PowerCutLegs).  The record never has more      *)
(* slabs failed than the volume (Records): a start adds none.               *)
(*                                                                          *)
(* Two legs of a stripe are never on one slab.  A leg is placed apart from  *)
(* the legs of the map; but a power cut takes the map back to what was      *)
(* synced, so that must be apart too, and a sync of a slab is where one     *)
(* becomes the other (MapsApart).  Contents are made of writes that were    *)
(* begun (StateOK), and a stripe has one request at a time (Locked).        *)
(*                                                                          *)
(* What a stripe reads as.  There is one content D of the stripe that its   *)
(* members hold and its parity is the XOR of, but for the change a request  *)
(* has still to fold in; each member of D is what may be read (Sound).      *)
(* That is not enough for a cut, which takes every slot back to what its    *)
(* drive may have kept: what a start finds of a member is among what was    *)
(* kept, and once a flush has passed the member's slab, among what the      *)
(* flush will keep (Kept).  A stripe the log's file does not name is not    *)
(* verified after a cut: nobody is at work on it and a cut leaves it as it  *)
(* is, its parity too (Calm and the last part of Sound).  Around these, the *)
(* books: where members are, what requests and flushes carry, when a start  *)
(* has the volume to itself, and that a mark of a stripe at work is in the  *)
(* file, or excused, or about to be written (Book).                         *)
(***************************************************************************)
EXTENDS ParityStripes, FiniteSetTheorems, TLAPS

\* What a slot can hold: the writes begun so far.
Content == SUBSET (1..ticket)

\* A request on a member, and a flush.
RequestType == [pc : {"persist", "land", "data", "unmap", "parity"}, op : {"write", "discard"}, s : Stripe,
                i : Member, v : Content, old : Content, set : SUBSET Stripe]
FlushType == [pc : {"sync", "forget", "clear"}, slabs : SUBSET Slab, base : [Stripe -> [Member -> SUBSET Content]],
              lost : BOOLEAN, set : SUBSET Stripe]
TaskType == {Idle} \cup RequestType \cup FlushType

Map == [Stripe -> [Leg -> Slab \cup {None}]]
Readings == [Stripe -> [Member -> SUBSET Content]]
Slots == [Slab -> [Stripe -> [Leg -> Cell(Content)]]]

\* Every variable has its type.
StateOK ==
    /\ ticket \in Nat /\ ticket >= Width
    /\ cell \in Slots
    /\ leg \in Map /\ disk \in Map
    /\ attached \in SUBSET Slab /\ failed \in SUBSET Slab /\ dead \in SUBSET Slab
    /\ dirty \in SUBSET Stripe /\ file \in Cell(SUBSET Stripe)
    /\ task \in [Task -> TaskType]
    /\ budget \in [Event -> Nat] /\ spent \in [Event -> Nat]
    /\ allow \in Readings /\ keep \in Readings
    /\ unlogged \in SUBSET Stripe /\ holed \in SUBSET Stripe /\ dropped \in SUBSET Stripe

\* A stripe's lock has one holder.
Locked == \A s \in Stripe : \A t, u \in Task : Holds(t, s) /\ Holds(u, s) => t = u

\* The tables, the record and what is on its way there have their types.
Generations == [Slab -> [Stripe -> [Leg -> Nat]]]
Places == Slab \X Stripe \X Leg
TableOK ==
    /\ entry \in Generations /\ table \in Generations
    /\ rec \in [leg : Map, failed : SUBSET Slab]
    /\ owed \in SUBSET Places
    /\ snap # None => snap \in [leg : Map, failed : SUBSET Slab, slabs : SUBSET Slab, owed : SUBSET Places]

\* The record knows of no slab more than the volume that is failed.
Records == rec.failed \subseteq failed /\ (snap # None => snap.failed \subseteq failed)

\* The slot of a leg is taken in its slab's table, and what was synced is there.
Tabled == \A s \in Stripe, i \in Leg : s \notin dropped =>
              /\ leg[s][i] # None => entry[leg[s][i]][s][i] > 0
              /\ disk[s][i] # None => table[disk[s][i]][s][i] > 0

\* A slot that is to be freed is taken and is no leg's.
Owing(x) == x \in owed \/ (snap # None /\ x \in snap.owed)
OwedOut == \A k \in Slab, s \in Stripe, i \in Leg : Owing(<<k, s, i>>) /\ s \notin dropped =>
              leg[s][i] # k /\ entry[k][s][i] > 0

TablesInv == TableOK /\ Records /\ Tabled /\ OwedOut

\* The legs of a stripe are apart in the map and in what was synced of it.
MapApart(m, D) == \A s \in Stripe \ D : \A i, j \in Leg : i # j /\ m[s][i] # None => m[s][i] # m[s][j]
MapsApart == MapApart(leg, dropped) /\ MapApart(disk, dropped)

-----------------------------------------------------------------------------
(* Contents                                                                 *)

\* What is put together by XOR is made of the same writes.
LEMMA XorType ==
    ASSUME NEW C, NEW f, \A i \in DOMAIN f : f[i] \in SUBSET C
    PROVE  Xor(f) \in SUBSET C
BY DEF Xor

\* Members are legs, and the parity is none of them.
LEMMA Legs == Width \in Nat /\ P \in Leg /\ P \notin Member /\ Member \subseteq Leg
BY WidthAssumption DEF Leg, Member, P

\* Cells hold what is put into them.
LEMMA Cells ==
    ASSUME NEW V, NEW c \in Cell(V), NEW v \in V
    PROVE  /\ c.cur \in V /\ c.may \in SUBSET V /\ c.cur \in c.may
           /\ Durable(v) \in Cell(V) /\ Durable(v).cur = v /\ Durable(v).may = {v}
           /\ Put(c, v) \in Cell(V) /\ Put(c, v).cur = v /\ Put(c, v).may = c.may \cup {v}
           /\ Flushed(c) \in Cell(V) /\ Flushed(c).cur = c.cur /\ Flushed(c).may = {c.cur}
BY DEF Cell, Durable, Put, Flushed

\* A cut leaves a value a cell may hold.
LEMMA CutKeeps ==
    ASSUME NEW V, NEW S, NEW cells \in [S -> Cell(V)], NEW f \in Cut(cells)
    PROVE  \A x \in S : f[x] \in cells[x].may /\ f[x] \in V
<1> DEFINE loose == {x \in DOMAIN cells : cells[x].may /= {cells[x].cur}}
           values == UNION {cells[x].may : x \in loose}
           keeps == {h \in [loose -> values] : \A x \in loose : h[x] \in cells[x].may}
<1>1. Cut(cells) = {[x \in DOMAIN cells |-> IF x \in loose THEN h[x] ELSE cells[x].cur] : h \in keeps}
    BY DEF Cut
<1>2. PICK h \in keeps : f = [x \in DOMAIN cells |-> IF x \in loose THEN h[x] ELSE cells[x].cur]
    BY <1>1
<1>3. \A x \in S : cells[x].cur \in cells[x].may /\ cells[x].may \in SUBSET V
    BY DEF Cell
<1>4. QED
    BY <1>2, <1>3

\* A stripe that can be put together is made of writes that were begun.
LEMMA AssembleType ==
    ASSUME StateOK, NEW s \in Stripe
    PROVE  /\ Recoverable(s) => Assemble(s) \in [Member -> Content]
           /\ \A i \in Member \ Lost(s) : Assemble(s)[i] \in Content
<1> DEFINE read == [i \in Member |-> IF leg[s][i] = None THEN Blank ELSE cell[leg[s][i]][s][i].cur]
           parity(i) == [j \in Leg \ {i} |-> IF j = P THEN cell[leg[s][P]][s][P].cur ELSE read[j]]
<1>1. Assemble(s) = [i \in Member |-> IF i \in Lost(s) THEN Xor(parity(i)) ELSE read[i]]
    BY Zenon DEF Assemble
<1>2. ASSUME NEW i \in Member PROVE read[i] \in Content
    <2>1. leg[s][i] # None => cell[leg[s][i]][s][i] \in Cell(Content)
        BY Legs DEF StateOK, Map, Slots
    <2>2. QED
        BY <2>1 DEF Cell, Blank, Content
<1> HIDE DEF read
<1>3. ASSUME Recoverable(s), NEW i \in Member, i \in Lost(s) PROVE Xor(parity(i)) \in Content
    <2>1. leg[s][P] # None
        BY <1>3 DEF Recoverable
    <2>2. cell[leg[s][P]][s][P] \in Cell(Content)
        BY <2>1, Legs DEF StateOK, Map, Slots
    <2>3. cell[leg[s][P]][s][P].cur \in Content
        BY <2>2 DEF Cell
    <2>4. \A j \in DOMAIN parity(i) : parity(i)[j] \in SUBSET (1..ticket)
        BY <1>2, <2>3 DEF Leg, Content
    <2> HIDE DEF parity
    <2>5. QED
        BY <2>4, XorType DEF Content
<1> HIDE DEF parity
<1>4. QED
    BY <1>1, <1>2, <1>3

-----------------------------------------------------------------------------
(* Types                                                                    *)

\* The types depend on the last write's number alone.
LEMMA SameTypes ==
    ASSUME ticket' = ticket
    PROVE  Content' = Content /\ TaskType' = TaskType /\ Readings' = Readings /\ Slots' = Slots
BY DEF Content, TaskType, Readings, Slots, RequestType, FlushType, Cell, Idle

\* A write's number comes on top.
LEMMA MoreContent ==
    ASSUME StateOK, ticket' = ticket + 1
    PROVE  /\ Content \subseteq Content' /\ {ticket + 1} \in Content'
           /\ TaskType \subseteq TaskType' /\ Readings \subseteq Readings' /\ Slots \subseteq Slots'
<1>1. Content \subseteq Content' /\ {ticket + 1} \in Content'
    BY DEF StateOK, Content
<1>2. Cell(Content) \subseteq Cell(Content')
    BY <1>1 DEF Cell
<1>3. Readings \subseteq Readings' /\ Slots \subseteq Slots'
    BY <1>1, <1>2 DEF Readings, Slots
<1>4. RequestType \subseteq RequestType'
    BY <1>1 DEF RequestType
<1>5. FlushType \subseteq FlushType'
    BY <1>3 DEF FlushType, Readings
<1>6. QED
    BY <1>1, <1>3, <1>4, <1>5 DEF TaskType, Idle

\* A step that begins no write keeps the types when what it changes is of its type.
LEMMA StateStep ==
    ASSUME StateOK, ticket' = ticket, cell' \in Slots, leg' \in Map, disk' \in Map,
           attached' \in SUBSET Slab, failed' \in SUBSET Slab, dead' \in SUBSET Slab,
           dirty' \in SUBSET Stripe, file' \in Cell(SUBSET Stripe), task' \in [Task -> TaskType],
           budget' = budget, spent' \in [Event -> Nat], allow' \in Readings, keep' \in Readings,
           unlogged' \in SUBSET Stripe, holed' \in SUBSET Stripe, dropped' \in SUBSET Stripe
    PROVE  StateOK'
BY SameTypes DEF StateOK, Map

\* Spending one of a kind.
LEMMA SpendType == ASSUME StateOK, NEW e \in Event, Spend(e) PROVE spent' \in [Event -> Nat]
BY DEF StateOK, Spend

\* A request of its kind is a task of its type.
LEMMA RequestTyped ==
    ASSUME StateOK, NEW t \in Task, task[t].pc \in {"persist", "land", "data", "unmap", "parity"}
    PROVE  /\ task[t] \in RequestType
           /\ task[t].s \in Stripe /\ task[t].i \in Member /\ task[t].v \in Content /\ task[t].old \in Content
           /\ task[t].set \in SUBSET Stripe /\ task[t].op \in {"write", "discard"}
<1>1. task[t] \in TaskType
    BY DEF StateOK
<1>2. task[t] # Idle /\ task[t] \notin FlushType
    BY DEF Idle, FlushType
<1>3. QED
    BY <1>1, <1>2 DEF TaskType, RequestType

\* So is a flush.
LEMMA FlushTyped ==
    ASSUME StateOK, NEW t \in Task, task[t].pc \in {"sync", "forget", "clear"}
    PROVE  /\ task[t] \in FlushType
           /\ task[t].slabs \in SUBSET Slab /\ task[t].base \in Readings /\ task[t].set \in SUBSET Stripe
<1>1. task[t] \in TaskType
    BY DEF StateOK
<1>2. task[t] # Idle /\ task[t] \notin RequestType
    BY DEF Idle, RequestType
<1>3. QED
    BY <1>1, <1>2 DEF TaskType, FlushType, Readings

\* The registers of the tasks a request, its end and its beginning leave.
LEMMA RequestStep ==
    ASSUME StateOK, ticket' \in Nat, Content \subseteq Content', TaskType \subseteq TaskType', Readings \subseteq Readings',
           NEW t \in Task, NEW op \in {"write", "discard"}, NEW pc \in {"persist", "data", "unmap"},
           NEW s \in Stripe, NEW i \in Member, NEW v \in Content', Request(t, op, pc, s, i, v)
    PROVE  task' \in [Task -> TaskType'] /\ allow' \in Readings' /\ keep' \in Readings'
<1>1. allow' \in Readings' /\ keep' \in Readings'
    BY DEF StateOK, Request, Readings
<1>2. ASSUME NEW x \in Task, x # t, Flushing(x) PROVE [task[x] EXCEPT !.base[s][i] = @ \cup {v}] \in TaskType'
    <2>1. task[x] \in FlushType /\ task[x].base \in Readings'
        BY <1>2, FlushTyped DEF Flushing
    <2> DEFINE b == [task[x].base EXCEPT ![s] = [task[x].base[s] EXCEPT ![i] = task[x].base[s][i] \cup {v}]]
    <2>2. b \in [Stripe -> [Member -> SUBSET Content']]
        BY <2>1 DEF Readings
    <2>3. [task[x] EXCEPT !.base[s][i] = @ \cup {v}] = [task[x] EXCEPT !.base = b]
        BY <2>1 DEF FlushType
    <2> HIDE DEF b
    <2>4. [task[x] EXCEPT !.base = b] \in FlushType'
        BY <2>1, <2>2 DEF FlushType
    <2>5. QED
        BY <2>3, <2>4 DEF TaskType
<1>3. [pc |-> pc, op |-> op, s |-> s, i |-> i, v |-> v, old |-> Blank, set |-> {}] \in TaskType'
    BY DEF TaskType, RequestType, Blank, Content
<1>4. QED
    BY <1>1, <1>2, <1>3 DEF StateOK, Request

\* A slot takes a content.
LEMMA PutType ==
    ASSUME StateOK, NEW k \in Slab, NEW s \in Stripe, NEW i \in Leg, NEW v \in Content
    PROVE  [cell EXCEPT ![k][s][i] = Put(@, v)] \in Slots
<1>1. cell[k][s][i] \in Cell(Content)
    BY DEF StateOK, Slots
<1>2. Put(cell[k][s][i], v) \in Cell(Content)
    BY <1>1, Cells
<1>3. QED
    BY <1>2 DEF StateOK, Slots

\* The log's file takes a set of stripes.
LEMMA LandedType ==
    ASSUME StateOK, NEW set \in SUBSET Stripe
    PROVE  Landed(set) \in Cell(SUBSET Stripe)
BY Cells DEF StateOK, Landed

\* A task that goes on, and one that ends.
LEMMA TaskSteps ==
    ASSUME StateOK, NEW t \in Task, task[t].pc \in {"persist", "land", "data", "unmap", "parity"}
    PROVE  /\ [task EXCEPT ![t].pc = "data"] \in [Task -> TaskType]
           /\ \A set \in SUBSET Stripe : [task EXCEPT ![t].pc = "land", ![t].set = set] \in [Task -> TaskType]
           /\ \A old \in Content : [task EXCEPT ![t].pc = "parity", ![t].old = old] \in [Task -> TaskType]
           /\ [task EXCEPT ![t] = Idle] \in [Task -> TaskType]
<1>1. task[t] \in RequestType
    BY RequestTyped
<1>2. task \in [Task -> TaskType]
    BY DEF StateOK
<1>3. /\ [task[t] EXCEPT !.pc = "data"] \in RequestType
      /\ \A set \in SUBSET Stripe : [task[t] EXCEPT !.pc = "land", !.set = set] \in RequestType
      /\ \A old \in Content : [task[t] EXCEPT !.pc = "parity", !.old = old] \in RequestType
    BY <1>1 DEF RequestType
<1>4. QED
    BY <1>2, <1>3 DEF TaskType

\* Of a flush.
LEMMA FlushSteps ==
    ASSUME StateOK, NEW t \in Task, task[t].pc \in {"sync", "forget", "clear"}
    PROVE  /\ \A pc \in {"forget", "clear"}, set \in SUBSET Stripe :
                /\ [task EXCEPT ![t].pc = pc] \in [Task -> TaskType]
                /\ [task EXCEPT ![t].pc = pc, ![t].set = set] \in [Task -> TaskType]
           /\ \A k \in Slab, lost \in BOOLEAN : [task EXCEPT ![t].slabs = @ \ {k}, ![t].lost = lost] \in [Task -> TaskType]
           /\ [task EXCEPT ![t] = Idle] \in [Task -> TaskType]
<1>1. task[t] \in FlushType
    BY FlushTyped
<1>2. task \in [Task -> TaskType]
    BY DEF StateOK
<1>3. ASSUME NEW pc \in {"forget", "clear"}, NEW set \in SUBSET Stripe
      PROVE  [task[t] EXCEPT !.pc = pc] \in FlushType /\ [task[t] EXCEPT !.pc = pc, !.set = set] \in FlushType
    BY <1>1 DEF FlushType
<1>4. ASSUME NEW k \in Slab, NEW lost \in BOOLEAN
      PROVE  [task[t] EXCEPT !.slabs = task[t].slabs \ {k}, !.lost = lost] \in FlushType
    BY <1>1 DEF FlushType
<1>5. QED
    BY <1>2, <1>3, <1>4 DEF TaskType

\* A sync leaves the types, and of the slabs' tables what the map says of its slab.
LEMMA SyncType ==
    ASSUME StateOK, NEW k \in Slab, Sync(k)
    PROVE  cell' \in Slots /\ disk' \in Map
<1>1. cell' \in Slots
    <2>1. ASSUME NEW s \in Stripe PROVE FlushAll(cell[k][s]) \in [Leg -> Cell(Content)]
        <3>1. cell[k][s] \in [Leg -> Cell(Content)]
            BY DEF StateOK, Slots
        <3>2. \A i \in Leg : Flushed(cell[k][s][i]) \in Cell(Content)
            BY <3>1 DEF Flushed, Durable, Cell
        <3>3. QED
            BY <3>1, <3>2 DEF FlushAll
    <2>2. cell' = [cell EXCEPT ![k] = [s \in Stripe |-> FlushAll(cell[k][s])]]
        BY DEF Sync
    <2>3. QED
        BY <2>1, <2>2 DEF StateOK, Slots
<1>2. disk' \in Map
    BY DEF StateOK, Sync, Map
<1>3. QED
    BY <1>1, <1>2

\* A write begins.
LEMMA BeginWriteState ==
    ASSUME StateOK, NEW t \in Task, NEW s \in Stripe, NEW i \in Member, BeginWrite(t, s, i)
    PROVE  StateOK'
<1>1. ticket' = ticket + 1 /\ ticket' \in Nat /\ ticket' >= Width
    BY Legs DEF StateOK, BeginWrite
<1>2. /\ Content \subseteq Content' /\ {ticket + 1} \in Content'
      /\ TaskType \subseteq TaskType' /\ Readings \subseteq Readings' /\ Slots \subseteq Slots'
    BY <1>1, MoreContent
<1>3. \E pc \in {"persist", "data"} : Request(t, "write", pc, s, i, {ticket + 1})
    BY DEF BeginWrite
<1>4. task' \in [Task -> TaskType'] /\ allow' \in Readings' /\ keep' \in Readings'
    BY <1>1, <1>2, <1>3, RequestStep
<1>5. spent' \in [Event -> Nat]
    BY SpendType DEF BeginWrite, Event
<1>6. /\ cell' = cell /\ leg' = leg /\ disk' = disk /\ attached' = attached /\ failed' = failed /\ dead' = dead
      /\ dirty' = dirty \cup {s} /\ file' = file /\ budget' = budget
      /\ unlogged' = unlogged /\ holed' = holed /\ dropped' = dropped
    BY DEF BeginWrite, mapVars, slabVars
<1>7. QED
    BY <1>1, <1>2, <1>4, <1>5, <1>6 DEF StateOK, Map

\* A discard begins.
LEMMA BeginDiscardState ==
    ASSUME StateOK, NEW t \in Task, NEW s \in Stripe, NEW i \in Member, BeginDiscard(t, s, i)
    PROVE  StateOK'
<1>1. ticket' = ticket /\ ticket' \in Nat
    BY DEF StateOK, BeginDiscard
<1>2. Content' = Content /\ TaskType' = TaskType /\ Readings' = Readings
    BY <1>1, SameTypes
<1>3. Request(t, "discard", "unmap", s, i, Blank) /\ Blank \in Content'
    BY DEF BeginDiscard, Blank, Content
<1>4. task' \in [Task -> TaskType'] /\ allow' \in Readings' /\ keep' \in Readings'
    BY <1>1, <1>2, <1>3, RequestStep
<1>5. spent' \in [Event -> Nat]
    BY SpendType DEF BeginDiscard, Event
<1>6. QED
    BY <1>1, <1>2, <1>4, <1>5, StateStep DEF StateOK, BeginDiscard, mapVars, slabVars, logVars

\* The steps of a request.
LEMMA RequestState ==
    ASSUME StateOK, NEW t \in Task,
           \/ ReadMarks(t) \/ LandMarks(t) \/ WriteData(t) \/ DiesInWrite(t) \/ Unmap(t)
           \/ UpdateParity(t) \/ NewGroup(t) \/ DropGroup(t)
    PROVE  StateOK'
<1> DEFINE s == task[t].s
           i == task[t].i
<1>1. task[t].pc \in {"persist", "land", "data", "unmap", "parity"}
    BY Zenon DEF ReadMarks, LandMarks, WriteData, DiesInWrite, Unmap, UpdateParity, NewGroup, DropGroup
<1>2. s \in Stripe /\ i \in Member /\ task[t].v \in Content /\ task[t].old \in Content /\ task[t].set \in SUBSET Stripe
    BY <1>1, RequestTyped
<1>3. /\ [task EXCEPT ![t].pc = "data"] \in [Task -> TaskType]
      /\ \A set \in SUBSET Stripe : [task EXCEPT ![t].pc = "land", ![t].set = set] \in [Task -> TaskType]
      /\ \A old \in Content : [task EXCEPT ![t].pc = "parity", ![t].old = old] \in [Task -> TaskType]
      /\ [task EXCEPT ![t] = Idle] \in [Task -> TaskType]
    BY <1>1, TaskSteps
<1>4. [allow EXCEPT ![s][i] = {task[t].v}] \in Readings
    BY <1>2 DEF StateOK, Readings
<1>5. i \in Leg /\ P \in Leg
    BY <1>2, Legs
<1>6. \A L \in SUBSET Leg : Noticed(s, L) \in SUBSET Slab
    BY DEF StateOK, Noticed
<1>7. CASE ReadMarks(t)
    BY <1>3, <1>7, StateStep DEF StateOK, ReadMarks, ReadDirty, mapVars, slabVars, logVars, histVars
<1>8. CASE LandMarks(t)
    <2>1. file' \in Cell(SUBSET Stripe) /\ spent' \in [Event -> Nat]
        BY <1>2, <1>8, LandedType, SpendType DEF LandMarks, StateOK, Event
    <2>2. unlogged' \in SUBSET Stripe
        BY <1>8 DEF LandMarks, StateOK, Overtaken
    <2>3. QED
        BY <1>3, <1>8, <2>1, <2>2, StateStep DEF StateOK, LandMarks, mapVars, slabVars
<1>9. CASE WriteData(t)
    <2> DEFINE k == leg[s][i]
               inPlace == k # None /\ Answers(k)
    <2>1. failed' \in SUBSET Slab
        BY Zenon, <1>6, <1>9, Legs DEF WriteData, StateOK
    <2>2. \/ /\ \E to \in Slab : /\ cell' = [cell EXCEPT ![to][s][i] = Put(@, task[t].v)]
                                 /\ leg' = [leg EXCEPT ![s][i] = to]
             /\ inPlace \/ k = None \/ Recoverable(s)
             /\ task' = [task EXCEPT ![t].pc = "parity", ![t].old = Assemble(s)[i]]
          \/ task' = [task EXCEPT ![t] = Idle] /\ cell' = cell /\ leg' = leg
        <3>1. k # None => k \in Slab
            BY <1>2, <1>5 DEF StateOK, Map
        <3>2. Apart(s, i) \subseteq Slab
            BY DEF Apart, StateOK
        <3>3. QED
            BY Zenon, <1>9, <3>1, <3>2 DEF WriteData, End
    <2>3. inPlace \/ k = None \/ Recoverable(s) => Assemble(s)[i] \in Content
        BY <1>2, AssembleType DEF Lost
    <2>4. cell' \in Slots /\ leg' \in Map /\ task' \in [Task -> TaskType]
        <3>1. \A to \in Slab : [leg EXCEPT ![s][i] = to] \in Map
            BY <1>2, <1>5 DEF StateOK, Map
        <3>2. \A to \in Slab : [cell EXCEPT ![to][s][i] = Put(@, task[t].v)] \in Slots
            BY <1>2, <1>5, PutType
        <3>3. cell \in Slots /\ leg \in Map
            BY DEF StateOK
        <3> HIDE DEF s, i, k, inPlace
        <3>4. QED
            BY <1>3, <2>2, <2>3, <3>1, <3>2, <3>3, ZenonT(60)
    <2>5. QED
        BY Zenon, <1>9, <2>1, <2>4, StateStep DEF StateOK, WriteData, logVars, histVars
<1>10. CASE DiesInWrite(t)
    <2>1. leg[s][i] # None => leg[s][i] \in Slab
        BY <1>2, <1>5 DEF StateOK, Map
    <2>2. spent' \in [Event -> Nat]
        BY <1>10, SpendType DEF DiesInWrite, Event
    <2>3. QED
        BY Zenon, <1>3, <1>10, <2>1, <2>2, StateStep DEF StateOK, DiesInWrite, End, mapVars, logVars, histVars
<1>11. CASE Unmap(t)
    <2>1. failed' \in SUBSET Slab
        <3>1. failed' = failed \cup Noticed(s, IF Lost(s) = {} THEN Member ELSE Leg)
            BY <1>11 DEF Unmap
        <3>2. QED
            BY <1>6, <3>1, Legs DEF StateOK
    <2>2. \/ /\ Recoverable(s) /\ task' = [task EXCEPT ![t].pc = "parity", ![t].old = Assemble(s)[i]]
             /\ leg' = [leg EXCEPT ![s][i] = None] /\ unlogged' = unlogged \cup ({s} \ file.cur)
          \/ task' = [task EXCEPT ![t] = Idle] /\ leg' = leg /\ unlogged' = unlogged
        BY <1>11 DEF Unmap, End
    <2>3. Recoverable(s) => Assemble(s)[i] \in Content
        BY <1>2, AssembleType
    <2>4. leg' \in Map /\ task' \in [Task -> TaskType] /\ unlogged' \in SUBSET Stripe
        <3>1. [leg EXCEPT ![s][i] = None] \in Map /\ leg \in Map
            BY <1>2, <1>5 DEF StateOK, Map
        <3>2. unlogged \in SUBSET Stripe
            BY DEF StateOK
        <3>3. QED
            BY <1>2, <1>3, <2>2, <2>3, <3>1, <3>2, ZenonT(60)
    <2>5. QED
        BY <1>11, <2>1, <2>4, StateStep DEF StateOK, Unmap, logVars
<1>12. CASE UpdateParity(t)
    <2> DEFINE k == leg[s][P]
               x == Xor(<<cell[k][s][P].cur, task[t].old, task[t].v>>)
    <2>1. k \in Slab /\ k = leg[s][P] /\ task[t].s = s
        <3>1. leg \in Map
            BY DEF StateOK
        <3>2. k # None
            BY Zenon, <1>12 DEF UpdateParity
        <3>3. P \in Leg
            BY <1>5
        <3>4. k \in Slab \cup {None}
            BY <1>2, <3>1, <3>3 DEF Map
        <3>5. QED
            BY <3>2, <3>4
    <2>2. failed' \in SUBSET Slab
        BY <1>5, <1>6, <1>12 DEF UpdateParity, StateOK
    <2>3. cell[k][s][P].cur \in Content
        <3>1. cell[k][s][P] \in Cell(Content)
            BY <1>2, <1>5, <2>1 DEF StateOK, Slots
        <3>2. QED
            BY <3>1 DEF Cell
    <2>4. x \in Content
        <3> DEFINE f == <<cell[k][s][P].cur, task[t].old, task[t].v>>
        <3>a. cell[k][s][P].cur \in SUBSET (1..ticket) /\ task[t].old \in SUBSET (1..ticket)
                /\ task[t].v \in SUBSET (1..ticket)
            BY <1>2, <2>3 DEF Content
        <3> HIDE DEF k, s
        <3>1. \A j \in DOMAIN f : f[j] \in SUBSET (1..ticket)
            BY <3>a
        <3> HIDE DEF f
        <3>2. Xor(f) \in SUBSET (1..ticket)
            BY <3>1, XorType
        <3>3. QED
            BY <3>2 DEF f, Content
    <2>5. cell' \in {cell, [cell EXCEPT ![k][s][P] = Put(@, x)]}
        BY Zenon, <1>12, <2>1 DEF UpdateParity
    <2>6. cell' \in Slots
        <3>1. cell \in Slots
            BY DEF StateOK
        <3> HIDE DEF k, s, x
        <3>2. [cell EXCEPT ![k][s][P] = Put(@, x)] \in Slots
            BY <1>2, <1>5, <2>1, <2>4, <3>1, PutType
        <3>3. QED
            BY <2>5, <3>1, <3>2
    <2>7. QED
        BY Zenon, <1>3, <1>4, <1>12, <2>2, <2>6, StateStep DEF StateOK, UpdateParity, Done, End, mapVars, logVars
<1>13. CASE NewGroup(t)
    <2>1. failed' \in SUBSET Slab
        BY <1>6, <1>13, Legs DEF NewGroup, StateOK
    <2>2. \/ /\ Recoverable(s)
             /\ \E to \in Slab : /\ cell' = [cell EXCEPT ![to][s][P] = Put(@, Xor(Assemble(s)))]
                                 /\ leg' = [leg EXCEPT ![s][P] = to]
             /\ allow' = [allow EXCEPT ![s][i] = {task[t].v}]
          \/ cell' = cell /\ leg' = leg /\ allow' = allow
        <3>1. Apart(s, P) \subseteq Slab
            BY DEF Apart, StateOK
        <3>2. QED
            BY Zenon, <1>13, <3>1 DEF NewGroup, Done
    <2>3. Recoverable(s) => Xor(Assemble(s)) \in Content
        <3>1. Recoverable(s) => Assemble(s) \in [Member -> Content]
            BY <1>2, AssembleType
        <3>2. QED
            BY <3>1, XorType DEF Content
    <2>4. cell' \in Slots /\ leg' \in Map /\ allow' \in Readings
        <3>1. \A to \in Slab : [leg EXCEPT ![s][P] = to] \in Map
            BY <1>2, <1>5 DEF StateOK, Map
        <3>2. Recoverable(s) => \A to \in Slab : [cell EXCEPT ![to][s][P] = Put(@, Xor(Assemble(s)))] \in Slots
            BY <1>2, <1>5, <2>3, PutType
        <3>3. cell \in Slots /\ leg \in Map /\ allow \in Readings
            BY DEF StateOK
        <3>4. QED
            BY <1>4, <2>2, <3>1, <3>2, <3>3
    <2>5. task' = [task EXCEPT ![t] = Idle]
        BY <1>13 DEF NewGroup, End
    <2>6. QED
        BY Zenon, <1>3, <1>13, <2>1, <2>4, <2>5, StateStep DEF StateOK, NewGroup, logVars
<1>14. CASE DropGroup(t)
    <2>1. [leg EXCEPT ![s][P] = None] \in Map
        BY <1>2, <1>5 DEF StateOK, Map
    <2>2. QED
        BY <1>3, <1>4, <1>14, <2>1, StateStep DEF StateOK, DropGroup, Done, End, slabVars, logVars
<1>15. QED
    BY <1>7, <1>8, <1>9, <1>10, <1>11, <1>12, <1>13, <1>14

\* The steps of a flush.
LEMMA FlushState ==
    ASSUME StateOK, NEW t \in Task,
           \/ BeginFlush(t) \/ FlushFails(t) \/ ClearMarks(t) \/ ReadCleared(t) \/ LandCleared(t)
           \/ \E k \in Slab : SyncSlab(t, k)
    PROVE  StateOK'
<1>1. CASE BeginFlush(t)
    <2> DEFINE f == [pc |-> "sync", slabs |-> {leg[s][i] : s \in Stripe, i \in Leg} \ {None},
                     base |-> allow, lost |-> FALSE, set |-> {}]
    <2>1. {leg[s][i] : s \in Stripe, i \in Leg} \ {None} \in SUBSET Slab
        BY DEF StateOK, Map
    <2>2. f \in FlushType
        BY <2>1 DEF StateOK, FlushType, Readings
    <2>3. task' = [task EXCEPT ![t] = f]
        BY <1>1 DEF BeginFlush
    <2> HIDE DEF f
    <2>4. task' \in [Task -> TaskType]
        BY <2>2, <2>3 DEF StateOK, TaskType
    <2>5. spent' \in [Event -> Nat]
        BY <1>1, SpendType DEF BeginFlush, Event
    <2>6. QED
        BY <1>1, <2>4, <2>5, StateStep DEF StateOK, BeginFlush, mapVars, slabVars, logVars, histVars
<1>2. CASE FlushFails(t)
    BY <1>2, FlushSteps, StateStep DEF StateOK, FlushFails, End, mapVars, slabVars, logVars, histVars
<1>3. CASE ClearMarks(t)
    <2>1. [task EXCEPT ![t].pc = "forget"] \in [Task -> TaskType]
        BY <1>3, FlushSteps DEF ClearMarks
    <2>2. QED
        BY <1>3, <2>1, StateStep DEF StateOK, ClearMarks, mapVars, slabVars, histVars
<1>4. CASE ReadCleared(t)
    <2>1. [task EXCEPT ![t].pc = "clear", ![t].set = dirty] \in [Task -> TaskType]
        BY <1>4, FlushSteps DEF ReadCleared, StateOK
    <2>2. QED
        BY <1>4, <2>1, StateStep DEF StateOK, ReadCleared, ReadDirty, mapVars, slabVars, logVars, histVars
<1>5. CASE LandCleared(t)
    <2>1. task[t].set \in SUBSET Stripe /\ task[t].pc = "clear"
        BY <1>5, FlushTyped DEF LandCleared
    <2>2. file' \in Cell(SUBSET Stripe)
        BY <1>5, <2>1, LandedType DEF LandCleared
    <2>3. task' \in [Task -> TaskType]
        BY <1>5, <2>1, FlushSteps DEF LandCleared, End
    <2>4. keep' \in Readings
        BY <1>5 DEF LandCleared, StateOK, Readings
    <2>5. unlogged' \in SUBSET Stripe
        BY <1>5 DEF LandCleared, StateOK, Overtaken
    <2>6. QED
        BY <1>5, <2>2, <2>3, <2>4, <2>5, StateStep DEF StateOK, LandCleared, mapVars, slabVars
<1>6. CASE \E k \in Slab : SyncSlab(t, k)
    <2>1. PICK k \in Slab : SyncSlab(t, k)
        BY <1>6
    <2>2. cell' \in Slots /\ disk' \in Map
        BY <2>1, SyncType DEF SyncSlab, StateOK
    <2>3. task' \in [Task -> TaskType]
        <3>1. (task[t].lost \/ (Trusted(k) /\ k \in dead)) \in BOOLEAN
            OBVIOUS
        <3>2. task[t].pc \in {"sync", "forget", "clear"}
            BY <2>1 DEF SyncSlab
        <3>3. task' = [task EXCEPT ![t].slabs = @ \ {k}, ![t].lost = task[t].lost \/ (Trusted(k) /\ k \in dead)]
            BY <2>1 DEF SyncSlab, StateOK
        <3>4. QED
            BY <3>1, <3>2, <3>3, FlushSteps
    <2>4. failed' \in SUBSET Slab /\ unlogged' \in SUBSET Stripe
        BY <2>1 DEF SyncSlab, StateOK, Excuse
    <2>5. QED
        BY <2>1, <2>2, <2>3, <2>4, StateStep DEF StateOK, SyncSlab, logVars
<1>7. QED
    BY <1>1, <1>2, <1>3, <1>4, <1>5, <1>6

\* A resync.
LEMMA ResyncState ==
    ASSUME StateOK, NEW s \in Stripe, Resync(s)
    PROVE  StateOK'
<1>1. PICK to \in Rebuilt(s) :
          /\ leg' = [leg EXCEPT ![s] = to]
          /\ cell' = [k \in Slab |-> [cell[k] EXCEPT ![s] = [i \in Leg |->
                         IF to[i] = k /\ leg[s][i] # k
                         THEN Put(@[i], IF i = P THEN Xor(Assemble(s)) ELSE Assemble(s)[i])
                         ELSE @[i]]]]
    BY DEF Resync
<1>2. Assemble(s) \in [Member -> Content]
    BY AssembleType DEF Resync
<1>3. Xor(Assemble(s)) \in Content
    BY <1>2, XorType DEF Content
<1>4. leg' \in Map
    BY <1>1 DEF StateOK, Map, Rebuilt
<1>5. cell' \in Slots
    <2> DEFINE new(k) == [i \in Leg |-> IF to[i] = k /\ leg[s][i] # k
                                        THEN Put(cell[k][s][i], IF i = P THEN Xor(Assemble(s)) ELSE Assemble(s)[i])
                                        ELSE cell[k][s][i]]
    <2>1. ASSUME NEW k \in Slab PROVE new(k) \in [Leg -> Cell(Content)]
        <3>1. ASSUME NEW i \in Leg
              PROVE  cell[k][s][i] \in Cell(Content)
                     /\ Put(cell[k][s][i], IF i = P THEN Xor(Assemble(s)) ELSE Assemble(s)[i]) \in Cell(Content)
            <4>1. cell[k][s][i] \in Cell(Content)
                BY DEF StateOK, Slots
            <4>2. (IF i = P THEN Xor(Assemble(s)) ELSE Assemble(s)[i]) \in Content
                BY <1>2, <1>3 DEF Leg
            <4>3. QED
                BY <4>1, <4>2, Cells
        <3>2. QED
            BY <3>1
    <2>2. cell' = [k \in Slab |-> [cell[k] EXCEPT ![s] = new(k)]]
        <3>1. \A k \in Slab : s \in DOMAIN cell[k]
            BY DEF StateOK, Slots
        <3>2. QED
            BY <1>1, <3>1
    <2> HIDE DEF new
    <2>3. QED
        BY <2>1, <2>2 DEF StateOK, Slots
<1>6. spent' \in [Event -> Nat]
    BY SpendType DEF Resync, Event
<1>7. QED
    BY <1>4, <1>5, <1>6, StateStep DEF StateOK, Resync, slabVars, logVars, histVars

\* A slab's death, a sync for another volume, a record and the verifying of a start.
LEMMA OtherState ==
    ASSUME StateOK, \/ \E s \in Stripe : Verify(s)
                    \/ \E k \in Slab : SyncByOther(k) \/ SlabDies(k) \/ PersistSync(k)
                    \/ TakeRecord \/ WriteRecord
                    \/ Verified
    PROVE  StateOK'
<1>1. ASSUME NEW s \in Stripe, Verify(s) PROVE StateOK'
    <2>1. failed' \in SUBSET Slab /\ holed' \in SUBSET Stripe
        BY <1>1 DEF Verify, StateOK, Noticed
    <2>2. leg[s][P] # None => leg[s][P] \in Slab
        BY Legs DEF StateOK, Map
    <2>3. Recoverable(s) => Xor(Assemble(s)) \in Content
        <3>1. Recoverable(s) => Assemble(s) \in [Member -> Content]
            BY AssembleType
        <3>2. QED
            BY <3>1, XorType DEF Content
    <2>4. cell' \in Slots
        <3>1. CASE leg[s][P] # None /\ Answers(leg[s][P]) /\ Recoverable(s)
            BY <1>1, <2>2, <2>3, <3>1, Legs, PutType DEF Verify
        <3>2. CASE ~ (leg[s][P] # None /\ Answers(leg[s][P]) /\ Recoverable(s))
            BY <1>1, <3>2 DEF Verify, StateOK
        <3>3. QED
            BY <3>1, <3>2
    <2>5. QED
        BY <1>1, <2>1, <2>4, StateStep DEF StateOK, Verify, mapVars, logVars
<1>2. ASSUME NEW k \in Slab, SyncByOther(k) PROVE StateOK'
    <2>1. cell' \in Slots /\ disk' \in Map
        BY <1>2, SyncType DEF SyncByOther
    <2>2. unlogged' \in SUBSET Stripe
        BY <1>2 DEF SyncByOther, StateOK, Excuse
    <2>3. spent' \in [Event -> Nat]
        BY <1>2, SpendType DEF SyncByOther, Event
    <2>4. QED
        BY <1>2, <2>1, <2>2, <2>3, StateStep DEF StateOK, SyncByOther, slabVars, logVars
<1>3. ASSUME NEW k \in Slab, SlabDies(k) PROVE StateOK'
    <2>1. spent' \in [Event -> Nat]
        BY <1>3, SpendType DEF SlabDies, Event
    <2>2. QED
        BY <1>3, <2>1, StateStep DEF StateOK, SlabDies, mapVars, logVars, histVars
<1>4. ASSUME Verified PROVE StateOK'
    <2>1. file' \in Cell(SUBSET Stripe)
        BY <1>4, LandedType DEF Verified
    <2>2. unlogged' \in SUBSET Stripe
        BY <1>4 DEF Verified
    <2>3. QED
        BY <1>4, <2>1, <2>2, StateStep DEF StateOK, Verified, mapVars, slabVars
<1>5. ASSUME NEW k \in Slab, PersistSync(k) PROVE StateOK'
    <2>1. cell' \in Slots /\ disk' \in Map
        <3>1. CASE k \in dead
            BY <1>5, <3>1 DEF PersistSync, StateOK
        <3>2. CASE k \notin dead
            BY <1>5, <3>2, SyncType DEF PersistSync
        <3>3. QED
            BY <3>1, <3>2
    <2>2. unlogged' \in SUBSET Stripe
        BY <1>5 DEF PersistSync, StateOK, Excuse
    <2>3. QED
        BY <1>5, <2>1, <2>2, StateStep DEF StateOK, PersistSync, slabVars, logVars
<1>6. ASSUME TakeRecord PROVE StateOK'
    <2>1. spent' \in [Event -> Nat]
        BY <1>6, SpendType DEF TakeRecord, Event
    <2>2. QED
        BY <1>6, <2>1, StateStep DEF StateOK, TakeRecord, mapVars, slabVars, logVars, histVars
<1>7. ASSUME WriteRecord PROVE StateOK'
    BY <1>7, StateStep DEF StateOK, WriteRecord, slabVars, logVars, histVars
<1>8. QED
    BY <1>1, <1>2, <1>3, <1>4, <1>5, <1>6, <1>7

\* A start puts a leg where the tables and the record leave it.
LEMMA MapsPlace ==
    ASSUME TableOK, NEW found, NEW up \in SUBSET Slab, NEW m \in Maps(found, up)
    PROVE  /\ m \in Map
           /\ \A s \in Stripe, i \in Leg : m[s][i] \in Restored(s, i, found, up)
<1> DEFINE legs == Stripe \X Leg
           open == {x \in legs : Cardinality(Restored(x[1], x[2], found, up)) > 1}
           picks == {f \in [open -> Slab] : \A x \in open : f[x] \in Restored(x[1], x[2], found, up)}
<1>1. PICK f \in picks : m = [s \in Stripe |-> [i \in Leg |-> IF <<s, i>> \in open THEN f[<<s, i>>]
                                         ELSE CHOOSE k \in Restored(s, i, found, up) : TRUE]]
    BY Zenon DEF Maps
<1>2. ASSUME NEW s \in Stripe, NEW i \in Leg
      PROVE  /\ Restored(s, i, found, up) # {}
             /\ Restored(s, i, found, up) \subseteq Slab \cup {None}
    <2>1. rec.leg[s][i] \in Slab \cup {None}
        BY DEF TableOK, Map
    <2>2. Named(s, i, found, up) \subseteq Slab
        BY DEF Named
    <2>3. QED
        BY <2>1, <2>2 DEF Restored
<1>3. ASSUME NEW s \in Stripe, NEW i \in Leg PROVE m[s][i] \in Restored(s, i, found, up)
    <2>1. CASE <<s, i>> \in open
        <3>1. f[<<s, i>>] \in Restored(<<s, i>>[1], <<s, i>>[2], found, up)
            BY <2>1
        <3>2. QED
            BY <1>1, <2>1, <3>1
    <2>2. CASE <<s, i>> \notin open
        <3>1. m[s][i] = CHOOSE k \in Restored(s, i, found, up) : TRUE
            BY <1>1, <2>2
        <3>2. QED
            BY <1>2, <3>1
    <2>3. QED
        BY <2>1, <2>2
<1> HIDE DEF open
<1>4. QED
    BY <1>1, <1>2, <1>3 DEF Map

\* A power cut and the restore behind it.
LEMMA PowerCutState ==
    ASSUME StateOK, TableOK, NEW n \in 0..1, NEW absent \in kSubset(n, Slab), PowerCut(absent)
    PROVE  StateOK'
<1> DEFINE S == Slab \X Stripe \X Leg
           cells == [x \in S |-> cell[x[1]][x[2]][x[3]]]
<1>1. PICK contents \in Cut(cells), marks \in file.may :
          /\ cell' = [k \in Slab |-> [s \in Stripe |-> [i \in Leg |-> Durable(contents[<<k, s, i>>])]]]
          /\ file' = Durable(marks) /\ dirty' = marks /\ holed' = holed \cup (unlogged \ marks)
    BY DEF PowerCut
<1>2. cells \in [S -> Cell(Content)]
    BY DEF StateOK, Slots
<1>3. \A x \in S : contents[x] \in Content
    <2> HIDE DEF cells, S
    <2>1. QED
        BY <1>2, CutKeeps
<1>4. cell' \in Slots
    <2>1. ASSUME NEW k \in Slab, NEW s \in Stripe, NEW i \in Leg PROVE Durable(contents[<<k, s, i>>]) \in Cell(Content)
        <3>1. contents[<<k, s, i>>] \in Content
            BY <1>3
        <3>2. QED
            BY <3>1 DEF Durable, Cell
    <2>2. QED
        BY <1>1, <2>1 DEF Slots
<1>5. marks \in SUBSET Stripe /\ file' \in Cell(SUBSET Stripe) /\ holed' \in SUBSET Stripe
    BY <1>1 DEF StateOK, Cell, Durable
<1>6. attached' \in SUBSET Slab /\ leg' \in Map /\ disk' \in Map /\ failed' \in SUBSET Slab
    <2>1. attached' \in SUBSET Slab /\ leg' \in Maps(entry', attached') /\ disk' = leg' /\ failed' = rec.failed
        BY DEF PowerCut
    <2>2. QED
        BY <2>1, MapsPlace DEF TableOK
<1>7. spent' \in [Event -> Nat]
    <2>1. Cardinality(absent) = n
        BY DEF kSubset
    <2>2. spent \in [Event -> Nat] /\ n \in Nat /\ "cuts" \in Event /\ "absences" \in Event
        BY DEF StateOK, Event
    <2>3. spent' = [spent EXCEPT !["cuts"] = @ + 1, !["absences"] = @ + n]
        BY <2>1 DEF PowerCut
    <2>4. QED
        BY <2>2, <2>3
<1>8. unlogged' \in SUBSET Stripe /\ task' \in [Task -> TaskType]
    BY DEF PowerCut, StateOK, TaskType
<1>10. dropped' \in SUBSET Stripe
    BY Zenon DEF PowerCut, StateOK
<1>9. QED
    BY <1>1, <1>4, <1>5, <1>6, <1>7, <1>8, <1>10, StateStep DEF StateOK, PowerCut

\* Every step keeps the types.
LEMMA StateNext == StateOK /\ TablesInv /\ [Next]_vars => StateOK'
<1> SUFFICES ASSUME StateOK, TablesInv, TableOK, [Next]_vars PROVE StateOK'
    BY DEF TablesInv
<1>1. CASE Next
    BY <1>1, BeginWriteState, BeginDiscardState, RequestState, FlushState, ResyncState, OtherState, PowerCutState
       DEF Next
<1>2. CASE UNCHANGED vars
    BY <1>2, StateStep DEF vars, StateOK
<1>3. QED
    BY <1>1, <1>2

\* The types hold at first.
LEMMA InitState == Init => StateOK
<1> SUFFICES ASSUME Init PROVE StateOK
    OBVIOUS
<1>1. PICK full \in SUBSET Stripe, to \in Laid :
          /\ leg = [s \in Stripe |-> IF s \in full THEN to ELSE [i \in Leg |-> None]]
          /\ allow = [s \in Stripe |-> [i \in Member |-> {IF s \in full THEN {i} ELSE Blank}]]
          /\ cell = [k \in Slab |-> [s \in Stripe |-> [i \in Leg |->
                        Durable(IF s \notin full \/ to[i] # k THEN Blank ELSE IF i = P THEN Member ELSE {i})]]]
    BY DEF Init
<1>2. ticket = Width /\ Width \in Nat /\ Content = SUBSET Member
    BY Legs DEF Init, Content, Member
<1>3. allow \in Readings /\ keep \in Readings
    BY <1>1, <1>2 DEF Init, Readings, Blank
<1>4. leg \in Map /\ disk \in Map
    BY <1>1 DEF Init, Map, Laid
<1>5. cell \in Slots
    <2>1. ASSUME NEW k \in Slab, NEW s \in Stripe, NEW i \in Leg
          PROVE  Durable(IF s \notin full \/ to[i] # k THEN Blank ELSE IF i = P THEN Member ELSE {i}) \in Cell(Content)
        <3>1. (IF s \notin full \/ to[i] # k THEN Blank ELSE IF i = P THEN Member ELSE {i}) \in Content
            BY <1>2 DEF Blank, Leg
        <3>2. QED
            BY <3>1 DEF Durable, Cell
    <2>2. QED
        BY <1>1, <2>1 DEF Slots
<1>6. file \in Cell(SUBSET Stripe)
    BY DEF Init, Durable, Cell
<1>7. budget \in [Event -> Nat] /\ spent \in [Event -> Nat]
    BY BudgetsAssumption DEF Init
<1>8. QED
    BY <1>2, <1>3, <1>4, <1>5, <1>6, <1>7 DEF Init, StateOK, TaskType

-----------------------------------------------------------------------------
(* Tables and the record                                                    *)

\* Nothing changes but that slabs are marked failed.
LEMMA TablesFrame ==
    ASSUME TablesInv, failed \subseteq failed', dropped' = dropped,
           leg' = leg, disk' = disk, entry' = entry, table' = table, rec' = rec, snap' = snap, owed' = owed
    PROVE  TablesInv'
BY DEF TablesInv, TableOK, Records, Tabled, OwedOut, Owing, Map, Generations

\* What moving a leg does to the tables in memory.
LEMMA MovedEntries ==
    ASSUME StateOK, TableOK, NEW s \in Stripe, NEW i \in Leg, NEW to \in Slab \cup {None}
    PROVE  /\ Moved(s, i, to) \in Generations
           /\ to # None => Moved(s, i, to)[to][s][i] > 0
           /\ \A k \in Slab, r \in Stripe, j \in Leg :
                 r # s \/ j # i \/ (k # to /\ k # leg[s][i]) => Moved(s, i, to)[k][r][j] = entry[k][r][j]
<1> DEFINE g == Generation(s, i) + 1
           f(k) == IF k = to THEN [entry[k] EXCEPT ![s][i] = g]
                   ELSE IF k = leg[s][i] /\ k \in attached THEN [entry[k] EXCEPT ![s][i] = 0]
                   ELSE entry[k]
<1>1. entry \in Generations /\ leg[s][i] \in Slab \cup {None} /\ None \notin Slab
    BY NoneAssumption DEF TableOK, StateOK, Map
<1>2. g \in Nat /\ g > 0
    BY <1>1 DEF Generation, Generations
<1>3. Moved(s, i, to) = [k \in Slab |-> f(k)]
    BY DEF Moved
<1> HIDE DEF g
<1>4. ASSUME NEW k \in Slab
      PROVE  /\ f(k) \in [Stripe -> [Leg -> Nat]]
             /\ k = to => f(k)[s][i] = g
             /\ \A r \in Stripe, j \in Leg : r # s \/ j # i \/ (k # to /\ k # leg[s][i]) => f(k)[r][j] = entry[k][r][j]
    <2>1. entry[k] \in [Stripe -> [Leg -> Nat]]
        BY <1>1 DEF Generations
    <2>2. QED
        BY <1>2, <2>1
<1> HIDE DEF f
<1>5. QED
    BY <1>1, <1>2, <1>3, <1>4 DEF Generations

\* A leg goes to a slot that was free, or nowhere.
LEMMA TablesMoved ==
    ASSUME StateOK, TablesInv, NEW s \in Stripe, NEW i \in Leg, NEW to \in Slab \cup {None},
           to # None => entry[to][s][i] = 0,
           leg' = [leg EXCEPT ![s][i] = to], entry' = Moved(s, i, to), failed \subseteq failed', dropped' = dropped,
           disk' = disk, table' = table, rec' = rec, snap' = snap, owed' = owed
    PROVE  TablesInv'
<1>1. leg \in Map /\ None \notin Slab /\ TableOK /\ entry \in Generations
    BY NoneAssumption DEF StateOK, TablesInv, TableOK
<1>2. /\ entry' \in Generations
      /\ to # None => entry'[to][s][i] > 0
      /\ \A k \in Slab, r \in Stripe, j \in Leg :
            r # s \/ j # i \/ (k # to /\ k # leg[s][i]) => entry'[k][r][j] = entry[k][r][j]
    BY <1>1, MovedEntries
<1>3. \A r \in Stripe, j \in Leg : leg'[r][j] = IF r = s /\ j = i THEN to ELSE leg[r][j]
    BY <1>1 DEF Map
<1>4. TableOK' /\ Records'
    BY <1>2 DEF TablesInv, TableOK, Records, Map
<1>5. ASSUME NEW r \in Stripe, NEW j \in Leg, r \notin dropped
      PROVE  /\ leg'[r][j] # None => entry'[leg'[r][j]][r][j] > 0
             /\ disk'[r][j] # None => table'[disk'[r][j]][r][j] > 0
    <2>1. /\ leg[r][j] # None => entry[leg[r][j]][r][j] > 0
          /\ disk[r][j] # None => table[disk[r][j]][r][j] > 0
        BY <1>5 DEF TablesInv, Tabled
    <2>2. leg[r][j] \in Slab \cup {None}
        BY <1>1 DEF Map
    <2>3. CASE r = s /\ j = i
        BY <1>2, <1>3, <2>1, <2>3
    <2>4. CASE ~ (r = s /\ j = i)
        BY <1>2, <1>3, <2>1, <2>2, <2>4
    <2>5. QED
        BY <2>3, <2>4
<1>6. ASSUME NEW k \in Slab, NEW r \in Stripe, NEW j \in Leg, Owing(<<k, r, j>>)', r \notin dropped
      PROVE  leg'[r][j] # k /\ entry'[k][r][j] > 0
    <2>1. Owing(<<k, r, j>>)
        BY <1>6 DEF Owing
    <2>2. leg[r][j] # k /\ entry[k][r][j] > 0
        BY <1>6, <2>1 DEF TablesInv, OwedOut
    <2>3. CASE r = s /\ j = i
        <3>1. to # k
            BY <1>1, <2>2, <2>3
        <3>2. QED
            BY <1>2, <1>3, <2>2, <2>3, <3>1
    <2>4. CASE ~ (r = s /\ j = i)
        BY <1>2, <1>3, <2>2, <2>4
    <2>5. QED
        BY <2>3, <2>4
<1>7. QED
    BY <1>4, <1>5, <1>6 DEF TablesInv, Tabled, OwedOut

\* A sync writes what the table in memory says.
LEMMA TablesSynced ==
    ASSUME StateOK, TablesInv, NEW k \in Slab, Sync(k), failed \subseteq failed', dropped' = dropped,
           leg' = leg, entry' = entry, rec' = rec, owed' = owed,
           snap' = snap \/ (snap # None /\ snap' = [snap EXCEPT !.slabs = @ \ {k}])
    PROVE  TablesInv'
<1>1. leg \in Map /\ disk \in Map /\ None \notin Slab /\ entry \in Generations /\ table \in Generations
    BY NoneAssumption DEF StateOK, TablesInv, TableOK
<1>2. /\ table' \in Generations
      /\ \A x \in Slab, r \in Stripe, j \in Leg : table'[x][r][j] = IF x = k THEN entry[k][r][j] ELSE table[x][r][j]
    BY <1>1 DEF Sync, Generations
<1>3. \A r \in Stripe, j \in Leg : disk'[r][j] = IF leg[r][j] = k THEN k ELSE IF disk[r][j] = k THEN None ELSE disk[r][j]
    BY DEF Sync
<1>4. TableOK' /\ Records' /\ (\A x : Owing(x)' => Owing(x))
    <2>1. CASE snap' = snap
        BY <1>2, <2>1 DEF TablesInv, TableOK, Records, Owing, Map
    <2>2. CASE snap # None /\ snap' = [snap EXCEPT !.slabs = @ \ {k}]
        <3>1. snap \in [leg : Map, failed : SUBSET Slab, slabs : SUBSET Slab, owed : SUBSET Places]
            BY <2>2 DEF TablesInv, TableOK
        <3>2. /\ snap' \in [leg : Map, failed : SUBSET Slab, slabs : SUBSET Slab, owed : SUBSET Places]
              /\ snap'.failed = snap.failed /\ snap'.owed = snap.owed
            BY <2>2, <3>1
        <3>3. QED
            BY <1>2, <2>2, <3>2 DEF TablesInv, TableOK, Records, Owing, Map
    <2>3. QED
        BY <2>1, <2>2
<1>5. ASSUME NEW r \in Stripe, NEW j \in Leg, r \notin dropped
      PROVE  /\ leg'[r][j] # None => entry'[leg'[r][j]][r][j] > 0
             /\ disk'[r][j] # None => table'[disk'[r][j]][r][j] > 0
    <2>1. /\ leg[r][j] # None => entry[leg[r][j]][r][j] > 0
          /\ disk[r][j] # None => table[disk[r][j]][r][j] > 0
        BY <1>5 DEF TablesInv, Tabled
    <2>2. leg[r][j] \in Slab \cup {None} /\ disk[r][j] \in Slab \cup {None}
        BY <1>1 DEF Map
    <2>3. QED
        BY <1>1, <1>2, <1>3, <2>1, <2>2
<1>6. QED
    BY <1>4, <1>5 DEF TablesInv, Tabled, OwedOut

\* A resync takes slots that were free, and owes those it replaced.
LEMMA ResyncTables ==
    ASSUME StateOK, TablesInv, NEW s \in Stripe, Resync(s)
    PROVE  TablesInv'
<1>1. PICK to \in Rebuilt(s) :
          /\ leg' = [leg EXCEPT ![s] = to]
          /\ entry' = [k \in Slab |-> [entry[k] EXCEPT ![s] = [i \in Leg |->
                         IF to[i] = k /\ leg[s][i] # k THEN Max({Generation(s, i), 1}) ELSE @[i]]]]
          /\ owed' = owed \cup {<<leg[s][i], s, i>> : i \in {j \in Leg : leg[s][j] \notin {to[j], None}}}
    BY DEF Resync
<1>2. /\ disk' = disk /\ table' = table /\ rec' = rec /\ snap' = snap /\ failed' = failed /\ dropped' = dropped
    BY DEF Resync, slabVars, histVars
<1>3. leg \in Map /\ None \notin Slab /\ entry \in Generations
    BY NoneAssumption DEF StateOK, TablesInv, TableOK
<1>4. to \in [Leg -> Slab \cup {None}]
    BY DEF Rebuilt
<1>5. ASSUME NEW i \in Leg, to[i] # None, to[i] # leg[s][i] PROVE to[i] \in Slab /\ entry[to[i]][s][i] = 0
    <2>1. to[i] \in Apart(s, i)
        BY <1>5 DEF Rebuilt
    <2>2. QED
        BY <1>4, <1>5, <2>1 DEF Apart
<1>6. ASSUME NEW i \in Leg PROVE Max({Generation(s, i), 1}) \in Nat /\ Max({Generation(s, i), 1}) > 0
    <2>1. Generation(s, i) \in Nat
        BY <1>3 DEF Generation, Generations, Map
    <2>2. \E x \in {Generation(s, i), 1} : \A y \in {Generation(s, i), 1} : x >= y
        BY <2>1
    <2>3. Max({Generation(s, i), 1}) \in {Generation(s, i), 1}
          /\ \A y \in {Generation(s, i), 1} : Max({Generation(s, i), 1}) >= y
        BY <2>2 DEF Max
    <2>4. QED
        BY <2>1, <2>3
<1> DEFINE g(i) == Max({Generation(s, i), 1})
           new(k) == [i \in Leg |-> IF to[i] = k /\ leg[s][i] # k THEN g(i) ELSE entry[k][s][i]]
<1>7. \A r \in Stripe, i \in Leg : leg'[r][i] = IF r = s THEN to[i] ELSE leg[r][i]
    BY <1>1, <1>3, <1>4 DEF Map
<1>8. entry' = [k \in Slab |-> [entry[k] EXCEPT ![s] = new(k)]]
    <2>1. \A k \in Slab : s \in DOMAIN entry[k]
        BY <1>3 DEF Generations
    <2>2. QED
        BY <1>1, <2>1
<1>9. \A i \in Leg : g(i) \in Nat /\ g(i) > 0
    BY <1>6
<1> HIDE DEF g
<1>10. \A k \in Slab : new(k) \in [Leg -> Nat]
    BY <1>3, <1>9 DEF Generations
<1>11. \A k \in Slab, i \in Leg : new(k)[i] = IF to[i] = k /\ leg[s][i] # k THEN g(i) ELSE entry[k][s][i]
    OBVIOUS
<1> HIDE DEF new
<1>12. /\ entry' \in Generations
       /\ \A k \in Slab, r \in Stripe, i \in Leg : entry'[k][r][i] = IF r = s THEN new(k)[i] ELSE entry[k][r][i]
    BY <1>3, <1>8, <1>10 DEF Generations
<1>13. owed' \in SUBSET Places
    BY <1>1, <1>3 DEF TablesInv, TableOK, Places, Map
<1>14. TableOK' /\ Records'
    BY <1>2, <1>12, <1>13 DEF TablesInv, TableOK, Records, Map
<1>15. ASSUME NEW r \in Stripe, NEW j \in Leg, r \notin dropped
       PROVE  /\ leg'[r][j] # None => entry'[leg'[r][j]][r][j] > 0
              /\ disk'[r][j] # None => table'[disk'[r][j]][r][j] > 0
    <2>1. /\ leg[r][j] # None => entry[leg[r][j]][r][j] > 0
          /\ disk[r][j] # None => table[disk[r][j]][r][j] > 0
        BY <1>15 DEF TablesInv, Tabled
    <2>2. leg[r][j] \in Slab \cup {None} /\ to[j] \in Slab \cup {None}
        BY <1>3, <1>4 DEF Map
    <2>3. QED
        BY <1>2, <1>7, <1>9, <1>11, <1>12, <2>1, <2>2
<1>16. ASSUME NEW k \in Slab, NEW r \in Stripe, NEW j \in Leg, Owing(<<k, r, j>>)', r \notin dropped
       PROVE  leg'[r][j] # k /\ entry'[k][r][j] > 0
    <2>1. CASE Owing(<<k, r, j>>)
        <3>1. leg[r][j] # k /\ entry[k][r][j] > 0
            BY <1>16, <2>1 DEF TablesInv, OwedOut
        <3>2. r = s => to[j] # k
            BY <1>3, <1>5, <3>1
        <3>3. QED
            BY <1>7, <1>11, <1>12, <3>1, <3>2
    <2>2. CASE ~ Owing(<<k, r, j>>)
        <3>1. <<k, r, j>> \in {<<leg[s][i], s, i>> : i \in {h \in Leg : leg[s][h] \notin {to[h], None}}}
            BY <1>1, <1>2, <1>16, <2>2 DEF Owing
        <3>2. r = s /\ k = leg[s][j] /\ k # to[j]
            BY <3>1
        <3>3. entry[k][s][j] > 0
            BY <1>3, <1>16, <3>2 DEF TablesInv, Tabled
        <3>4. QED
            BY <1>7, <1>11, <1>12, <3>2, <3>3
    <2>3. QED
        BY <2>1, <2>2
<1>17. QED
    BY <1>2, <1>14, <1>15, <1>16 DEF TablesInv, Tabled, OwedOut

\* The record is taken and written; what a resync owed is freed then.
LEMMA RecordTables ==
    ASSUME StateOK, TablesInv, \/ TakeRecord \/ WriteRecord \/ \E k \in Slab : PersistSync(k)
    PROVE  TablesInv'
<1>1. leg \in Map /\ None \notin Slab /\ entry \in Generations /\ failed \in SUBSET Slab /\ attached \in SUBSET Slab
    BY NoneAssumption DEF StateOK, TablesInv, TableOK
<1>2. CASE TakeRecord
    <2>1. PICK own \in {owed, {}} : snap' = [leg |-> leg, failed |-> failed, slabs |-> attached, owed |-> own]
        BY <1>2 DEF TakeRecord
    <2>2. /\ leg' = leg /\ disk' = disk /\ entry' = entry /\ table' = table /\ rec' = rec /\ owed' = owed
          /\ failed' = failed /\ dropped' = dropped
        BY <1>2 DEF TakeRecord, mapVars, slabVars, histVars
    <2>3. /\ snap' \in [leg : Map, failed : SUBSET Slab, slabs : SUBSET Slab, owed : SUBSET Places]
          /\ snap'.failed = failed /\ snap'.owed \subseteq owed
        BY <1>1, <2>1 DEF TablesInv, TableOK
    <2>4. TableOK' /\ Records' /\ (\A x : Owing(x)' => Owing(x))
        BY <2>2, <2>3 DEF TablesInv, TableOK, Records, Owing, Map
    <2>5. QED
        BY <2>2, <2>4 DEF TablesInv, Tabled, OwedOut
<1>3. CASE WriteRecord
    <2>1. snap # None /\ snap \in [leg : Map, failed : SUBSET Slab, slabs : SUBSET Slab, owed : SUBSET Places]
        BY <1>3 DEF WriteRecord, TablesInv, TableOK
    <2>2. /\ leg' = leg /\ disk' = disk /\ table' = table /\ failed' = failed /\ dropped' = dropped
          /\ rec' = [leg |-> snap.leg, failed |-> snap.failed] /\ snap' = None /\ owed' = owed \ snap.owed
          /\ entry' = [k \in Slab |-> [s \in Stripe |-> [i \in Leg |->
                          IF k \in attached /\ <<k, s, i>> \in snap.owed THEN 0 ELSE entry[k][s][i]]]]
        BY <1>3 DEF WriteRecord, slabVars, histVars
    <2>3. /\ entry' \in Generations
          /\ \A k \in Slab, s \in Stripe, i \in Leg : <<k, s, i>> \notin snap.owed => entry'[k][s][i] = entry[k][s][i]
        BY <1>1, <2>2 DEF Generations
    <2>4. TableOK' /\ Records'
        BY <2>1, <2>2, <2>3 DEF TablesInv, TableOK, Records, Map
    <2>5. ASSUME NEW r \in Stripe, NEW j \in Leg, r \notin dropped
          PROVE  /\ leg'[r][j] # None => entry'[leg'[r][j]][r][j] > 0
                 /\ disk'[r][j] # None => table'[disk'[r][j]][r][j] > 0
        <3>1. /\ leg[r][j] # None => entry[leg[r][j]][r][j] > 0
              /\ disk[r][j] # None => table[disk[r][j]][r][j] > 0
            BY <2>5 DEF TablesInv, Tabled
        <3>2. leg[r][j] # None => leg[r][j] \in Slab /\ <<leg[r][j], r, j>> \notin snap.owed
            BY <1>1, <2>1, <2>5 DEF TablesInv, OwedOut, Owing, Map
        <3>3. QED
            BY <2>2, <2>3, <3>1, <3>2
    <2>6. ASSUME NEW k \in Slab, NEW r \in Stripe, NEW j \in Leg, Owing(<<k, r, j>>)', r \notin dropped
          PROVE  leg'[r][j] # k /\ entry'[k][r][j] > 0
        <3>1. <<k, r, j>> \in owed /\ <<k, r, j>> \notin snap.owed
            BY <2>2, <2>6 DEF Owing
        <3>2. leg[r][j] # k /\ entry[k][r][j] > 0
            BY <2>6, <3>1 DEF TablesInv, OwedOut, Owing
        <3>3. QED
            BY <2>2, <2>3, <3>1, <3>2
    <2>7. QED
        BY <2>2, <2>4, <2>5, <2>6 DEF TablesInv, Tabled, OwedOut
<1>4. ASSUME NEW k \in Slab, PersistSync(k) PROVE TablesInv'
    <2>1. /\ leg' = leg /\ entry' = entry /\ failed' = failed /\ dropped' = dropped /\ rec' = rec /\ snap # None
        BY <1>4 DEF PersistSync, slabVars
    <2>2. CASE k \in dead
        <3>1. disk' = disk /\ table' = table /\ snap' = None /\ owed' = owed \ snap.owed
            BY <1>4, <2>2 DEF PersistSync
        <3>2. TableOK' /\ Records' /\ (\A x : Owing(x)' => Owing(x))
            BY <2>1, <3>1 DEF TablesInv, TableOK, Records, Owing, Map
        <3>3. QED
            BY <2>1, <3>1, <3>2 DEF TablesInv, Tabled, OwedOut
    <2>3. CASE k \notin dead
        <3>1. Sync(k) /\ owed' = owed /\ snap' = [snap EXCEPT !.slabs = @ \ {k}]
            BY <1>4, <2>3 DEF PersistSync
        <3>2. QED
            BY <2>1, <3>1, TablesSynced
    <2>4. QED
        BY <2>2, <2>3
<1>5. QED
    BY <1>2, <1>3, <1>4


\* A start finds the legs of a stripe it does not set back where they were synced; or
\* nowhere, when the slab is missing or the leg had been let go.
LEMMA PowerCutLegs ==
    ASSUME StateOK, TablesInv, NEW absent, PowerCut(absent), NEW s \in Stripe, s \notin dropped', NEW i \in Leg
    PROVE  /\ s \notin dropped
           /\ leg'[s][i] # None => /\ leg'[s][i] = disk[s][i]
                                   /\ i \in Member => leg'[s][i] \in attached'
                                   /\ entry'[leg'[s][i]][s][i] > 0
                                   /\ leg'[s][i] \in failed => leg'[s][i] \in failed'
           /\ i \in Member /\ leg'[s][i] = None /\ disk[s][i] \in attached' => leg[s][i] # disk[s][i]
           /\ i \in Member => leg'[s][i] = leg[s][i] \/ attached' = Slab
<1>1. /\ attached' \in SUBSET Slab /\ failed' = rec.failed
      /\ leg' \in Maps(entry', attached')
    BY DEF PowerCut
<1>2. s \notin dropped /\ ~ SetBack(s)
    <2>1. dropped' = IF \E r \in Stripe : Regrouped(r) /\ entry[rec.leg[r][P]][r][P] = 0 THEN Stripe
                     ELSE dropped \cup {r \in Stripe : SetBack(r)}
        BY DEF PowerCut
    <2>2. QED
        BY <2>1, Zenon
<1>3. PICK gone \in SUBSET Loose :
          entry' = [k \in Slab |-> [r \in Stripe |-> [j \in Leg |-> IF <<k, r, j>> \in gone THEN 0 ELSE table[k][r][j]]]]
    BY DEF PowerCut
<1>4. /\ disk[s][i] \in Slab \cup {None} /\ rec.leg[s][i] \in Slab \cup {None} /\ None \notin Slab
      /\ \A k \in Slab : table[k][s][i] \in Nat /\ entry[k][s][i] \in Nat
    BY NoneAssumption DEF StateOK, TablesInv, TableOK, Map, Generations
<1>5. leg'[s][i] \in Restored(s, i, entry', attached')
    BY <1>1, MapsPlace DEF TablesInv
<1>6. ASSUME NEW k \in Slab, entry[k][s][i] > 0, table[k][s][i] > 0 PROVE entry'[k][s][i] > 0
    <2>1. <<k, s, i>> \notin Loose
        BY <1>4, <1>6 DEF Loose
    <2>2. QED
        BY <1>3, <1>6, <2>1
<1>7. disk[s][i] # None => table[disk[s][i]][s][i] > 0
    BY <1>2 DEF TablesInv, Tabled
<1>8. \A k \in Slab : entry'[k][s][i] \in Nat
    BY <1>3, <1>4
<1> DEFINE seen == {k \in attached' : entry'[k][s][i] > 0}
<1>9. CASE i \in Member
    <2>1. i # P
        BY <1>9, Legs
    <2>2. Named(s, i, entry', attached') = {k \in seen : \A x \in seen : entry'[x][s][i] <= entry'[k][s][i]}
        BY <2>1 DEF Named
    <2>3. ASSUME NEW k \in seen, k # disk[s][i]
          PROVE  disk[s][i] \in attached' /\ entry'[k][s][i] < entry'[disk[s][i]][s][i]
        BY <1>2, <1>9, <2>3 DEF SetBack, Outlived
    <2>4. Named(s, i, entry', attached') \subseteq {disk[s][i]}
        <3>1. ASSUME NEW k \in seen, k # disk[s][i], \A x \in seen : entry'[x][s][i] <= entry'[k][s][i] PROVE FALSE
            <4>1. disk[s][i] \in attached' /\ entry'[k][s][i] < entry'[disk[s][i]][s][i]
                BY <2>3, <3>1
            <4>2. k \in Slab /\ disk[s][i] \in Slab
                BY <1>1, <4>1
            <4>3. entry'[disk[s][i]][s][i] > 0
                BY <1>8, <4>1, <4>2
            <4>4. disk[s][i] \in seen
                BY <4>1, <4>3
            <4>5. QED
                BY <1>8, <3>1, <4>1, <4>2, <4>4
        <3>2. QED
            BY <2>2, <3>1
    <2>5. leg'[s][i] # None => leg'[s][i] = disk[s][i] /\ leg'[s][i] \in seen
        BY <1>5, <2>1, <2>2, <2>4 DEF Restored
    <2>6. ASSUME leg'[s][i] = None, disk[s][i] \in attached', leg[s][i] = disk[s][i] PROVE FALSE
        <3>1. disk[s][i] \in Slab
            BY <1>1, <2>6
        <3>2. entry[disk[s][i]][s][i] > 0
            BY <1>2, <1>4, <2>6, <3>1 DEF TablesInv, Tabled
        <3>3. disk[s][i] \in seen
            BY <1>4, <1>6, <1>7, <2>6, <3>1, <3>2
        <3>4. \A x \in seen : entry'[x][s][i] <= entry'[disk[s][i]][s][i]
            BY <1>1, <1>8, <2>3, <3>1
        <3>5. disk[s][i] \in Named(s, i, entry', attached')
            BY <2>2, <3>3, <3>4
        <3>6. QED
            BY <1>1, <1>4, <1>5, <2>1, <2>2, <2>6, <3>5 DEF Restored
    <2>7. leg'[s][i] \in failed => leg'[s][i] \in failed'
        BY <1>1, <1>2 DEF SetBack
    <2>8. leg'[s][i] = leg[s][i] \/ attached' = Slab
        BY <1>2, <1>9 DEF SetBack
    <2>9. QED
        BY <1>2, <2>5, <2>6, <2>7, <2>8
<1>10. CASE i = P
    <2>1. i \notin Member
        BY <1>10, Legs
    <2>2. leg'[s][i] \in failed => leg'[s][i] \in failed'
        BY <1>1, <1>2 DEF SetBack
    <2>3. CASE rec.leg[s][P] # None
        <3>1. rec.leg[s][P] = disk[s][P] /\ entry[rec.leg[s][P]][s][P] # 0
            BY <1>2, <2>3 DEF SetBack, Regrouped
        <3>2. leg'[s][P] = rec.leg[s][P]
            BY <1>5, <1>10, <2>3 DEF Restored
        <3>3. disk[s][P] \in Slab /\ entry[disk[s][P]][s][P] > 0
            BY <1>4, <1>10, <2>3, <3>1
        <3>4. QED
            BY <1>2, <1>4, <1>6, <1>7, <1>10, <2>1, <2>2, <2>3, <3>1, <3>2, <3>3
    <2>4. CASE rec.leg[s][P] = None
        <3>1. seen \subseteq {disk[s][P]}
            BY <1>2, <1>10, <2>4 DEF SetBack, Outlived
        <3>2. Named(s, i, entry', attached') = seen
            BY <1>10 DEF Named
        <3>3. leg'[s][P] # None => leg'[s][P] \in seen
            BY <1>5, <1>10, <2>4, <3>2 DEF Restored
        <3>4. QED
            BY <1>2, <1>10, <2>1, <2>2, <3>1, <3>3
    <2>5. QED
        BY <2>3, <2>4
<1>11. QED
    BY <1>9, <1>10 DEF Leg

\* After a start the tables are as found and the record is what it was.
LEMMA PowerCutTables ==
    ASSUME StateOK, TablesInv, NEW absent, PowerCut(absent)
    PROVE  TablesInv'
<1>1. /\ attached' \in SUBSET Slab /\ failed' = rec.failed /\ rec' = rec
      /\ snap' = None /\ owed' = {} /\ table' = entry' /\ disk' = leg'
    BY DEF PowerCut
<1>2. PICK gone \in SUBSET Loose :
          entry' = [k \in Slab |-> [r \in Stripe |-> [j \in Leg |-> IF <<k, r, j>> \in gone THEN 0 ELSE table[k][r][j]]]]
    BY DEF PowerCut
<1>3. entry' \in Generations
    BY <1>2 DEF TablesInv, TableOK, Generations
<1>4. TableOK' /\ Records'
    BY <1>1, <1>3 DEF TablesInv, TableOK, Records, Map
<1>5. Tabled'
    BY <1>1, PowerCutLegs DEF Tabled
<1>6. OwedOut'
    BY <1>1 DEF OwedOut, Owing
<1>7. QED
    BY <1>4, <1>5, <1>6 DEF TablesInv

\* Every step keeps the tables and the record.
LEMMA TablesNext == StateOK /\ TablesInv /\ [Next]_vars => TablesInv'
<1> SUFFICES ASSUME StateOK, TablesInv, [Next]_vars PROVE TablesInv'
    OBVIOUS
<1>1. ASSUME UNCHANGED <<mapVars, recVars>>, failed \subseteq failed', dropped' = dropped PROVE TablesInv'
    BY <1>1, TablesFrame DEF mapVars, recVars
<1>2. ASSUME NEW t \in Task, NEW s \in Stripe, NEW i \in Member, BeginWrite(t, s, i) \/ BeginDiscard(t, s, i) PROVE TablesInv'
    <2>1. UNCHANGED <<mapVars, recVars, failed, dropped>>
        BY <1>2 DEF BeginWrite, BeginDiscard, slabVars
    <2>2. QED
        BY <1>1, <2>1
<1>3. ASSUME NEW t \in Task, ReadMarks(t) \/ LandMarks(t) \/ DiesInWrite(t) \/ UpdateParity(t) PROVE TablesInv'
    <2>1. UNCHANGED <<mapVars, recVars, dropped>> /\ failed \subseteq failed'
        BY Zenon, <1>3 DEF ReadMarks, LandMarks, DiesInWrite, UpdateParity, slabVars, histVars
    <2>2. QED
        BY <1>1, <2>1
<1>4. ASSUME NEW t \in Task, WriteData(t) \/ Unmap(t) \/ NewGroup(t) \/ DropGroup(t) PROVE TablesInv'
    <2> DEFINE s == task[t].s
               i == task[t].i
    <2>1. s \in Stripe /\ i \in Member /\ i \in Leg /\ P \in Leg
        <3>1. task[t].pc \in {"persist", "land", "data", "unmap", "parity"}
            BY Zenon, <1>4 DEF WriteData, Unmap, NewGroup, DropGroup
        <3>2. QED
            BY <3>1, RequestTyped, Legs
    <2>2. /\ UNCHANGED <<disk, table, rec, snap, owed, dropped>>
          /\ failed \subseteq failed'
        BY Zenon, <1>4 DEF WriteData, Unmap, NewGroup, DropGroup, slabVars, recVars, histVars
    <2>3. leg \in Map
        BY DEF StateOK
    <2>4. ASSUME leg' = leg, entry' = entry PROVE TablesInv'
        BY <2>2, <2>4, TablesFrame
    <2>5. ASSUME NEW j \in Leg, NEW to \in Slab \cup {None}, to # None => entry[to][s][j] = 0,
                 leg' = [leg EXCEPT ![s][j] = to], entry' = Moved(s, j, to)
          PROVE  TablesInv'
        BY <2>1, <2>2, <2>5, TablesMoved
    <2>6. CASE WriteData(t)
        <3>1. \/ leg' = leg /\ entry' = entry
              \/ \E to \in Slab : entry[to][s][i] = 0 /\ leg' = [leg EXCEPT ![s][i] = to] /\ entry' = Moved(s, i, to)
            <4>1. CASE leg[s][i] # None /\ Answers(leg[s][i])
                <5>1. leg' = [leg EXCEPT ![s][i] = leg[s][i]] /\ entry' = entry
                    BY Zenon, <2>6, <4>1 DEF WriteData
                <5>2. QED
                    BY <2>1, <2>3, <5>1 DEF Map
            <4>2. CASE ~ (leg[s][i] # None /\ Answers(leg[s][i]))
                <5>1. \/ leg' = leg /\ entry' = entry
                      \/ \E to \in Apart(s, i) : leg' = [leg EXCEPT ![s][i] = to] /\ entry' = Moved(s, i, to)
                    BY Zenon, <2>6, <4>2 DEF WriteData
                <5>2. QED
                    BY <5>1 DEF Apart, StateOK
            <4>3. QED
                BY <4>1, <4>2
        <3>2. QED
            BY <2>1, <2>4, <2>5, <3>1
    <2>7. CASE Unmap(t)
        <3>1. \/ leg' = leg /\ entry' = entry
              \/ leg' = [leg EXCEPT ![s][i] = None] /\ entry' = Moved(s, i, None)
            BY <2>7 DEF Unmap
        <3>2. QED
            BY <2>1, <2>4, <2>5, <3>1
    <2>8. CASE NewGroup(t)
        <3>1. \/ leg' = leg /\ entry' = entry
              \/ \E to \in Apart(s, P) : leg' = [leg EXCEPT ![s][P] = to] /\ entry' = Moved(s, P, to)
            BY <2>8 DEF NewGroup
        <3>2. \A to \in Apart(s, P) : to \in Slab /\ entry[to][s][P] = 0
            BY DEF Apart, StateOK
        <3>3. QED
            BY <2>1, <2>4, <2>5, <3>1, <3>2
    <2>9. CASE DropGroup(t)
        <3>1. leg' = [leg EXCEPT ![s][P] = None] /\ entry' = Moved(s, P, None)
            BY <2>9 DEF DropGroup
        <3>2. QED
            BY <2>1, <2>5, <3>1
    <2>10. QED
        BY <1>4, <2>6, <2>7, <2>8, <2>9
<1>5. ASSUME NEW t \in Task, BeginFlush(t) \/ FlushFails(t) \/ ClearMarks(t) \/ ReadCleared(t) \/ LandCleared(t) PROVE TablesInv'
    <2>1. UNCHANGED <<mapVars, recVars, failed, dropped>>
        BY <1>5 DEF BeginFlush, FlushFails, ClearMarks, ReadCleared, LandCleared, slabVars, histVars
    <2>2. QED
        BY <1>1, <2>1
<1>6. ASSUME NEW t \in Task, NEW k \in Slab, SyncSlab(t, k) PROVE TablesInv'
    <2>1. UNCHANGED <<leg, entry, rec, snap, owed, dropped>> /\ failed \subseteq failed'
        BY <1>6 DEF SyncSlab, recVars
    <2>2. CASE Answers(k)
        <3>1. Sync(k)
            BY <1>6, <2>2 DEF SyncSlab
        <3>2. QED
            BY <2>1, <3>1, TablesSynced
    <2>3. CASE ~ Answers(k)
        <3>1. UNCHANGED <<disk, table>>
            BY <1>6, <2>3 DEF SyncSlab
        <3>2. QED
            BY <2>1, <3>1, TablesFrame
    <2>4. QED
        BY <2>2, <2>3
<1>7. ASSUME NEW s \in Stripe, Verify(s) PROVE TablesInv'
    <2>1. UNCHANGED <<mapVars, recVars, dropped>> /\ failed \subseteq failed'
        BY <1>7 DEF Verify
    <2>2. QED
        BY <1>1, <2>1
<1>8. ASSUME NEW k \in Slab, SyncByOther(k) PROVE TablesInv'
    <2>1. UNCHANGED <<leg, entry, rec, snap, owed, dropped, failed>> /\ Sync(k)
        BY <1>8 DEF SyncByOther, recVars, slabVars
    <2>2. QED
        BY <2>1, TablesSynced
<1>9. ASSUME NEW k \in Slab, SlabDies(k) PROVE TablesInv'
    <2>1. UNCHANGED <<mapVars, recVars, failed, dropped>>
        BY <1>9 DEF SlabDies, histVars
    <2>2. QED
        BY <1>1, <2>1
<1>10. ASSUME Verified PROVE TablesInv'
    <2>1. UNCHANGED <<mapVars, recVars, failed, dropped>>
        BY <1>10 DEF Verified, slabVars
    <2>2. QED
        BY <1>1, <2>1
<1>11. ASSUME UNCHANGED vars PROVE TablesInv'
    BY <1>11, TablesFrame DEF vars
<1>12. QED
    BY <1>2, <1>3, <1>4, <1>5, <1>6, <1>7, <1>8, <1>9, <1>10, <1>11, ResyncTables, RecordTables, PowerCutTables DEF Next

\* At first the tables and the record say what the map says.
LEMMA InitTables == Init => TablesInv
<1> SUFFICES ASSUME Init PROVE TablesInv
    OBVIOUS
<1>1. /\ disk = leg /\ table = entry /\ rec = [leg |-> leg, failed |-> {}] /\ snap = None /\ owed = {} /\ failed = {}
      /\ entry = [k \in Slab |-> [s \in Stripe |-> [i \in Leg |-> IF leg[s][i] = k THEN 1 ELSE 0]]]
    BY DEF Init
<1>2. leg \in Map
    BY InitState DEF StateOK
<1>3. entry \in Generations
    BY <1>1 DEF Generations
<1>4. TableOK /\ Records
    BY <1>1, <1>2, <1>3 DEF TableOK, Records
<1>5. Tabled
    BY <1>1, <1>2 DEF Tabled, Map
<1>6. OwedOut
    BY <1>1 DEF OwedOut, Owing
<1>7. QED
    BY <1>4, <1>5, <1>6 DEF TablesInv


-----------------------------------------------------------------------------
(* Locks                                                                    *)

\* A stripe is locked by a request that begins on it when nobody has it.
LEMMA BeginLocked ==
    ASSUME StateOK, Locked, NEW t \in Task, NEW op, NEW pc, NEW s \in Stripe, NEW i, NEW v,
           task[t] = Idle, Free(s), Request(t, op, pc, s, i, v)
    PROVE  Locked'
<1>1. ASSUME NEW x \in Task, x # t PROVE task'[x].pc = task[x].pc /\ (Holds(x, task[x].s) => task'[x].s = task[x].s)
    <2>1. CASE Flushing(x)
        <3>1. task[x] \in FlushType
            BY <2>1, FlushTyped DEF Flushing
        <3>2. task'[x] = [task[x] EXCEPT !.base[s][i] = @ \cup {v}]
            BY <1>1, <2>1 DEF Request, StateOK
        <3>3. task'[x].pc = task[x].pc
            BY <3>1, <3>2 DEF FlushType
        <3>4. QED
            BY <2>1, <3>3 DEF Flushing, Holds
    <2>2. CASE ~ Flushing(x)
        BY <1>1, <2>2 DEF Request, StateOK
    <2>3. QED
        BY <2>1, <2>2
<1>2. task'[t].s = s
    BY DEF Request, StateOK
<1>3. ASSUME NEW r \in Stripe, NEW x \in Task, x # t, Holds(x, r)' PROVE Holds(x, r)
    <2>1. task'[x].pc \in {"persist", "land", "data", "unmap", "parity"} /\ task'[x].s = r
        BY <1>3 DEF Holds
    <2>2. Holds(x, task[x].s)
        BY <1>1, <1>3, <2>1 DEF Holds
    <2>3. QED
        BY <1>1, <1>3, <2>1, <2>2 DEF Holds
<1>4. ASSUME NEW r \in Stripe, Holds(t, r)' PROVE r = s
    BY <1>2, <1>4 DEF Holds
<1>5. QED
    BY <1>3, <1>4 DEF Locked, Free


\* Every step keeps the locks.
LEMMA LockedNext == StateOK /\ TablesInv /\ Locked /\ [Next]_vars => Locked'
<1> SUFFICES ASSUME StateOK, TablesInv, Locked, [Next]_vars PROVE Locked'
    OBVIOUS
<1>1. task' \in [Task -> TaskType'] /\ task \in [Task -> TaskType]
    BY StateNext DEF StateOK
<1>2. ASSUME NEW t \in Task, NEW s \in Stripe, NEW i \in Member, BeginWrite(t, s, i) \/ BeginDiscard(t, s, i) PROVE Locked'
    BY <1>2, BeginLocked DEF BeginWrite, BeginDiscard
<1>3. ASSUME NEW t \in Task,
             \/ ReadMarks(t) \/ LandMarks(t) \/ WriteData(t) \/ DiesInWrite(t) \/ Unmap(t)
             \/ UpdateParity(t) \/ NewGroup(t) \/ DropGroup(t)
      PROVE  Locked'
    <2>1. task[t].pc \in {"persist", "land", "data", "unmap", "parity"}
        BY Zenon, <1>3 DEF ReadMarks, LandMarks, WriteData, DiesInWrite, Unmap, UpdateParity, NewGroup, DropGroup
    <2>2. task[t] \in RequestType
        BY <2>1, RequestTyped
    <2>3. \/ task' = [task EXCEPT ![t] = Idle]
          \/ \E pc \in {"land", "data", "parity"} : task' = [task EXCEPT ![t].pc = pc]
          \/ \E set : \E pc \in {"land", "data", "parity"} : task' = [task EXCEPT ![t].pc = pc, ![t].set = set]
          \/ \E old : \E pc \in {"land", "data", "parity"} : task' = [task EXCEPT ![t].pc = pc, ![t].old = old]
        BY Zenon, <1>3
           DEF ReadMarks, ReadDirty, LandMarks, WriteData, DiesInWrite, Unmap, UpdateParity, NewGroup, DropGroup, End
    <2>4. \/ task'[t] = Idle
          \/ task'[t].s = task[t].s
        BY <1>1, <2>2, <2>3 DEF RequestType
    <2>5. \A x \in Task \ {t} : task'[x] = task[x]
        BY <1>1, <2>3
    <2>6. \A s \in Stripe : Holds(t, s)' => Holds(t, s)
        BY <2>1, <2>4 DEF Holds, Idle
    <2>7. ASSUME NEW s \in Stripe, NEW x \in Task, Holds(x, s)' PROVE Holds(x, s)
        BY <2>5, <2>6, <2>7 DEF Holds
    <2>8. QED
        BY <2>7 DEF Locked
<1>4. ASSUME NEW t \in Task,
             \/ BeginFlush(t) \/ FlushFails(t) \/ ClearMarks(t) \/ ReadCleared(t) \/ LandCleared(t)
             \/ \E k \in Slab : SyncSlab(t, k)
      PROVE  Locked'
    <2>1. task'[t].pc \in {"idle", "sync", "forget", "clear"}
        <3>1. CASE BeginFlush(t)
            BY <1>1, <3>1 DEF BeginFlush
        <3>2. CASE FlushFails(t) \/ LandCleared(t)
            BY <1>1, <3>2 DEF FlushFails, LandCleared, End, Idle
        <3>3. CASE ClearMarks(t) \/ ReadCleared(t)
            <4>1. task[t].pc \in {"sync", "forget", "clear"}
                BY <3>3 DEF ClearMarks, ReadCleared
            <4>2. task[t] \in FlushType
                BY <4>1, FlushTyped
            <4>3. QED
                BY <1>1, <3>3, <4>2 DEF ClearMarks, ReadCleared, ReadDirty, FlushType
        <3>4. ASSUME NEW k \in Slab, SyncSlab(t, k) PROVE task'[t].pc = "sync"
            <4>1. task[t] \in FlushType /\ task[t].pc = "sync"
                BY <3>4, FlushTyped DEF SyncSlab
            <4>2. task' = [task EXCEPT ![t].slabs = @ \ {k}, ![t].lost = @ \/ (Trusted(k) /\ k \in dead)]
                BY <3>4 DEF SyncSlab
            <4>3. QED
                BY <1>1, <4>1, <4>2 DEF FlushType
        <3>5. QED
            BY <1>4, <3>1, <3>2, <3>3, <3>4
    <2>2. \A x \in Task \ {t} : task'[x] = task[x]
        <3>1. ASSUME NEW k \in Slab, SyncSlab(t, k) PROVE \A x \in Task \ {t} : task'[x] = task[x]
            <4>1. task' = [task EXCEPT ![t].slabs = @ \ {k}, ![t].lost = @ \/ (Trusted(k) /\ k \in dead)]
                BY <3>1 DEF SyncSlab
            <4>2. QED
                BY <1>1, <4>1
        <3>2. CASE BeginFlush(t) \/ FlushFails(t) \/ ClearMarks(t) \/ ReadCleared(t) \/ LandCleared(t)
            BY <1>1, <3>2 DEF BeginFlush, FlushFails, ClearMarks, ReadCleared, ReadDirty, LandCleared, End
        <3>3. QED
            BY <1>4, <3>1, <3>2
    <2>3. ASSUME NEW s \in Stripe, NEW x \in Task, Holds(x, s)' PROVE Holds(x, s)
        BY <2>1, <2>2, <2>3 DEF Holds
    <2>4. QED
        BY <2>3 DEF Locked
<1>5. ASSUME task' = task PROVE Locked'
    BY <1>5 DEF Locked, Holds
<1>6. ASSUME task' = [t \in Task |-> Idle] PROVE Locked'
    BY <1>6 DEF Locked, Holds, Idle
<1>7. CASE Next
    <2>1. ASSUME \/ \E s \in Stripe : Resync(s) \/ Verify(s)
                 \/ \E k \in Slab : SyncByOther(k) \/ SlabDies(k) \/ PersistSync(k)
                 \/ TakeRecord \/ WriteRecord
                 \/ Verified
          PROVE  task' = task
        BY <2>1 DEF Resync, Verify, SyncByOther, SlabDies, PersistSync, TakeRecord, WriteRecord, Verified
    <2>2. ASSUME NEW absent, PowerCut(absent) PROVE task' = [t \in Task |-> Idle]
        BY <2>2 DEF PowerCut
    <2>3. QED
        BY <1>2, <1>3, <1>4, <1>5, <1>6, <1>7, <2>1, <2>2 DEF Next
<1>8. CASE UNCHANGED vars
    BY <1>5, <1>8 DEF vars
<1>9. QED
    BY <1>7, <1>8

-----------------------------------------------------------------------------
(* Legs apart                                                               *)

\* A leg goes to a slab of its own, or from the map.
LEMMA OneMoved ==
    ASSUME StateOK, MapsApart, NEW s \in Stripe, NEW i \in Leg, NEW to,
           to = None \/ \A j \in Leg \ {i} : leg[s][j] # to,
           leg' = [leg EXCEPT ![s][i] = to], disk' = disk, dropped' = dropped
    PROVE  MapsApart'
<1>1. \A r \in Stripe, j \in Leg : leg'[r][j] = IF r = s /\ j = i THEN to ELSE leg[r][j]
    BY DEF StateOK, Map
<1>2. MapApart(leg', dropped')
    BY <1>1 DEF MapsApart, MapApart
<1>3. QED
    BY <1>2 DEF MapsApart, MapApart

\* The tables say after a sync what the map says of the slab: as both were apart,
\* they are.
LEMMA SyncApart ==
    ASSUME StateOK, MapsApart, NEW k \in Slab, Sync(k), leg' = leg, dropped' = dropped
    PROVE  MapsApart'
<1>1. \A s \in Stripe, i \in Leg : disk'[s][i] = IF leg[s][i] = k THEN k ELSE IF disk[s][i] = k THEN None ELSE disk[s][i]
    BY DEF Sync
<1>2. k # None
    BY NoneAssumption
<1>3. MapApart(disk', dropped')
    <2> SUFFICES ASSUME NEW s \in Stripe \ dropped, NEW i \in Leg, NEW j \in Leg, i # j, disk'[s][i] # None, disk'[s][i] = disk'[s][j]
                 PROVE  FALSE
        BY DEF MapApart
    <2>1. leg[s][i] # None => leg[s][i] # leg[s][j]
        BY DEF MapsApart, MapApart
    <2>2. disk[s][i] # None => disk[s][i] # disk[s][j]
        BY DEF MapsApart, MapApart
    <2>3. QED
        BY <1>1, <1>2, <2>1, <2>2
<1>4. QED
    BY <1>3 DEF MapsApart, MapApart

\* Every step keeps the legs apart.
LEMMA ApartNext == StateOK /\ TablesInv /\ MapsApart /\ [Next]_vars => MapsApart'
<1> SUFFICES ASSUME StateOK, TablesInv, MapsApart, [Next]_vars PROVE MapsApart'
    OBVIOUS
<1>1. ASSUME leg' = leg, disk' = disk, dropped' = dropped PROVE MapsApart'
    BY <1>1 DEF MapsApart, MapApart
<1>2. ASSUME NEW t \in Task, WriteData(t) PROVE MapsApart'
    <2> DEFINE s == task[t].s
               i == task[t].i
    <2>1. s \in Stripe /\ i \in Leg
        BY Zenon, <1>2, RequestTyped, Legs DEF WriteData
    <2>2. \/ leg' = leg
          \/ leg' = [leg EXCEPT ![s][i] = leg[s][i]] /\ leg[s][i] # None
          \/ \E to \in Apart(s, i) : leg' = [leg EXCEPT ![s][i] = to]
        BY Zenon, <1>2 DEF WriteData
    <2>3. disk' = disk /\ dropped' = dropped
        BY Zenon, <1>2 DEF WriteData, histVars
    <2>4. leg' = [leg EXCEPT ![s][i] = leg[s][i]] => leg' = leg
        BY <2>1 DEF StateOK, Map
    <2>5. \A to \in Apart(s, i) : \A j \in Leg \ {i} : leg[s][j] # to
        BY DEF Apart
    <2> HIDE DEF s, i
    <2>6. QED
        BY <1>1, <2>1, <2>2, <2>3, <2>4, <2>5, OneMoved
<1>3. ASSUME NEW t \in Task, Unmap(t) \/ DropGroup(t) PROVE MapsApart'
    <2> DEFINE s == task[t].s
    <2>1. s \in Stripe /\ task[t].i \in Leg /\ P \in Leg
        BY <1>3, RequestTyped, Legs DEF Unmap, DropGroup
    <2>2. leg' = leg \/ \E i \in Leg : leg' = [leg EXCEPT ![s][i] = None]
        BY <1>3, <2>1 DEF Unmap, DropGroup
    <2>3. disk' = disk /\ dropped' = dropped
        BY <1>3 DEF Unmap, DropGroup, histVars
    <2>4. QED
        BY <1>1, <2>1, <2>2, <2>3, OneMoved
<1>4. ASSUME NEW t \in Task, NewGroup(t) PROVE MapsApart'
    <2> DEFINE s == task[t].s
    <2>1. s \in Stripe /\ P \in Leg
        BY <1>4, RequestTyped, Legs DEF NewGroup
    <2>2. leg' = leg \/ \E to \in Apart(s, P) : leg' = [leg EXCEPT ![s][P] = to]
        BY <1>4 DEF NewGroup
    <2>3. disk' = disk /\ dropped' = dropped
        BY <1>4 DEF NewGroup, histVars
    <2>4. \A to \in Apart(s, P) : \A j \in Leg \ {P} : leg[s][j] # to
        BY DEF Apart
    <2> HIDE DEF s
    <2>5. QED
        BY <1>1, <2>1, <2>2, <2>3, <2>4, OneMoved
<1>5. ASSUME NEW s \in Stripe, Resync(s) PROVE MapsApart'
    <2>1. PICK to \in Rebuilt(s) : leg' = [leg EXCEPT ![s] = to]
        BY <1>5 DEF Resync
    <2>2. \A i, j \in Leg : i # j /\ to[i] # None => to[i] # to[j]
        BY DEF Rebuilt
    <2>3. \A r \in Stripe : leg'[r] = IF r = s THEN to ELSE leg[r]
        BY <2>1 DEF StateOK, Map
    <2>4. disk' = disk /\ dropped' = dropped
        BY <1>5 DEF Resync, histVars
    <2>5. QED
        BY <2>2, <2>3, <2>4 DEF MapsApart, MapApart
<1>6. ASSUME NEW absent, PowerCut(absent) PROVE MapsApart'
    <2>1. disk' = leg'
        BY <1>6 DEF PowerCut
    <2>2. \A s \in Stripe \ dropped', i \in Leg : s \notin dropped /\ leg'[s][i] \in {None, disk[s][i]}
        BY <1>6, PowerCutLegs
    <2>3. MapApart(leg', dropped')
        <3> SUFFICES ASSUME NEW s \in Stripe \ dropped', NEW i \in Leg, NEW j \in Leg, i # j,
                            leg'[s][i] # None, leg'[s][i] = leg'[s][j]
                     PROVE  FALSE
            BY DEF MapApart
        <3>1. leg'[s][i] = disk[s][i] /\ leg'[s][j] = disk[s][j] /\ s \notin dropped
            BY <2>2
        <3>2. QED
            BY <3>1 DEF MapsApart, MapApart
    <2>4. QED
        BY <2>1, <2>3 DEF MapsApart
<1>7. ASSUME NEW t \in Task, NEW k \in Slab, SyncSlab(t, k) PROVE MapsApart'
    BY <1>1, <1>7, SyncApart DEF SyncSlab
<1>8. ASSUME NEW k \in Slab, SyncByOther(k) PROVE MapsApart'
    BY <1>8, SyncApart DEF SyncByOther
<1>12. ASSUME NEW k \in Slab, PersistSync(k) PROVE MapsApart'
    <2>1. leg' = leg /\ dropped' = dropped /\ (disk' = disk \/ Sync(k))
        BY <1>12 DEF PersistSync
    <2>2. QED
        BY <1>1, <2>1, SyncApart
<1>9. CASE Next
    <2>1. ASSUME NEW t \in Task, NEW s \in Stripe, NEW i \in Member, BeginWrite(t, s, i) \/ BeginDiscard(t, s, i)
          PROVE  leg' = leg /\ disk' = disk /\ dropped' = dropped
        BY <2>1 DEF BeginWrite, BeginDiscard, mapVars, histVars
    <2>2. ASSUME NEW t \in Task, ReadMarks(t) \/ LandMarks(t) \/ DiesInWrite(t) \/ UpdateParity(t)
          PROVE  leg' = leg /\ disk' = disk /\ dropped' = dropped
        BY Zenon, <2>2 DEF ReadMarks, LandMarks, DiesInWrite, UpdateParity, mapVars, histVars
    <2>3. ASSUME NEW t \in Task, BeginFlush(t) \/ FlushFails(t) \/ ClearMarks(t) \/ ReadCleared(t) \/ LandCleared(t)
          PROVE  leg' = leg /\ disk' = disk /\ dropped' = dropped
        <3>1. CASE BeginFlush(t) \/ FlushFails(t)
            BY <3>1 DEF BeginFlush, FlushFails, mapVars, histVars
        <3>2. CASE ClearMarks(t) \/ ReadCleared(t)
            BY <3>2 DEF ClearMarks, ReadCleared, mapVars, histVars
        <3>3. CASE LandCleared(t)
            BY <3>3 DEF LandCleared, mapVars, histVars
        <3>4. QED
            BY <2>3, <3>1, <3>2, <3>3
    <2>4. ASSUME \/ \E s \in Stripe : Verify(s)
                 \/ \E k \in Slab : SlabDies(k)
                 \/ TakeRecord \/ WriteRecord \/ Verified
          PROVE  leg' = leg /\ disk' = disk /\ dropped' = dropped
        BY <2>4 DEF Verify, SlabDies, TakeRecord, WriteRecord, Verified, mapVars, histVars
    <2>5. QED
        BY <1>1, <1>2, <1>3, <1>4, <1>5, <1>6, <1>7, <1>8, <1>9, <1>12, <2>1, <2>2, <2>3, <2>4 DEF Next
<1>10. CASE UNCHANGED vars
    BY <1>1, <1>10 DEF vars
<1>11. QED
    BY <1>9, <1>10

\* The invariants hold at first.
LEMMA InitApart == Init => Locked /\ MapsApart
<1> SUFFICES ASSUME Init PROVE Locked /\ MapsApart
    OBVIOUS
<1>1. Locked
    BY DEF Init, Locked, Holds, Idle
<1>2. PICK full \in SUBSET Stripe, to \in Laid : leg = [s \in Stripe |-> IF s \in full THEN to ELSE [i \in Leg |-> None]]
    BY DEF Init
<1>3. MapApart(leg, dropped) /\ disk = leg
    BY <1>2 DEF Init, MapApart, Laid
<1>4. QED
    BY <1>1, <1>3 DEF MapsApart

\* Types, locks and places, for every behaviour.
THEOREM PlacesHold == Spec => [](StateOK /\ TablesInv /\ Locked /\ MapsApart)
<1>1. Init => StateOK /\ TablesInv /\ Locked /\ MapsApart
    BY InitState, InitTables, InitApart
<1>2. StateOK /\ TablesInv /\ Locked /\ MapsApart /\ [Next]_vars => (StateOK /\ TablesInv /\ Locked /\ MapsApart)'
    BY StateNext, TablesNext, LockedNext, ApartNext
<1>3. QED
    BY <1>1, <1>2, PTL DEF Spec

\* The state is as the code's types and locks have it, one request at a time on a
\* stripe (thin.rs, shard).
THEOREM AlwaysTypeOK == Spec => []TypeOK
<1>1. StateOK /\ Locked => TypeOK
    <2> SUFFICES ASSUME StateOK, Locked PROVE TypeOK
        OBVIOUS
    <2>1. ASSUME NEW k \in Slab, NEW s \in Stripe, NEW i \in Leg
          PROVE  cell[k][s][i].cur \in cell[k][s][i].may /\ cell[k][s][i].cur \subseteq 1..ticket
        <3>1. cell[k][s][i] \in Cell(Content)
            BY DEF StateOK, Slots
        <3>2. QED
            BY <3>1 DEF Cell, Content
    <2>2. ASSUME NEW s \in Stripe PROVE Cardinality({t \in Task : Holds(t, s)}) <= 1
        <3> DEFINE H == {t \in Task : Holds(t, s)}
        <3>1. CASE H = {}
            BY <3>1, FS_EmptySet
        <3>2. CASE H # {}
            <4>1. PICK t \in H : TRUE
                BY <3>2
            <4>2. H = {t}
                BY <4>1 DEF Locked
            <4>3. QED
                BY <4>2, FS_Singleton
        <3>3. QED
            BY <3>1, <3>2
    <2>3. file.cur \in file.may
        BY DEF StateOK, Cell
    <2>4. QED
        BY <2>1, <2>2, <2>3 DEF TypeOK, StateOK, Map
<1>2. QED
    BY <1>1, PlacesHold, PTL

\* Two legs of a stripe are never on one slab, through writes that rehome a member,
\* discards, new groups, resyncs, deaths of slabs and the maps power cuts leave.
THEOREM AlwaysLegsApart == Spec => []LegsApart
<1>1. MapsApart => LegsApart
    BY DEF MapsApart, MapApart, LegsApart
<1>2. QED
    BY <1>1, PlacesHold, PTL

-----------------------------------------------------------------------------
(* XOR                                                                      *)

\* The difference of two contents.
Plus(a, b) == (a \ b) \cup (b \ a)

\* A number and the next are not both odd.
LEMMA Odd == \A n \in Nat : (n + 1) % 2 = 1 <=> n % 2 # 1
OBVIOUS

\* What one more leg does to the XOR of others.
LEMMA XorOne ==
    ASSUME NEW S, IsFiniteSet(S), NEW f, DOMAIN f = S, NEW j, j \notin S, NEW g, DOMAIN g = S \cup {j},
           \A i \in S : g[i] = f[i]
    PROVE  Xor(g) = Plus(Xor(f), g[j])
<1> DEFINE C(h, n) == {i \in DOMAIN h : n \in h[i]}
<1>1. ASSUME NEW n PROVE IsFiniteSet(C(f, n)) /\ Cardinality(C(f, n)) \in Nat
    <2>1. C(f, n) \subseteq S
        OBVIOUS
    <2>2. IsFiniteSet(C(f, n))
        BY <2>1, FS_Subset
    <2>3. QED
        BY <2>2, FS_CardinalityType
<1>2. ASSUME NEW n PROVE /\ n \in g[j] => Cardinality(C(g, n)) = Cardinality(C(f, n)) + 1
                         /\ n \notin g[j] => C(g, n) = C(f, n)
    <2>1. CASE n \in g[j]
        <3>1. C(g, n) = C(f, n) \cup {j} /\ j \notin C(f, n)
            BY <2>1
        <3>2. IsFiniteSet(C(f, n))
            BY <1>1
        <3> HIDE DEF C
        <3>3. Cardinality(C(f, n) \cup {j}) = Cardinality(C(f, n)) + 1
            BY <3>1, <3>2, FS_AddElement
        <3>4. QED
            BY <2>1, <3>1, <3>3
    <2>2. CASE n \notin g[j]
        BY <2>2
    <2>3. QED
        BY <2>1, <2>2
<1>3. ASSUME NEW h, NEW n, IsFiniteSet(DOMAIN h) PROVE n \in Xor(h) <=> Cardinality(C(h, n)) % 2 = 1
    <2>1. Cardinality(C(h, n)) % 2 = 1 => C(h, n) # {}
        <3>1. Cardinality({}) = 0
            BY FS_EmptySet
        <3> HIDE DEF C
        <3>2. QED
            BY <3>1
    <2>2. C(h, n) # {} => n \in UNION {h[i] : i \in DOMAIN h}
        OBVIOUS
    <2>3. QED
        BY <2>1, <2>2 DEF Xor
<1>4. IsFiniteSet(S \cup {j})
    BY FS_AddElement
<1>5. ASSUME NEW n PROVE n \in Xor(g) <=> n \in Plus(Xor(f), g[j])
    <2>1. (n \in Xor(g) <=> Cardinality(C(g, n)) % 2 = 1) /\ (n \in Xor(f) <=> Cardinality(C(f, n)) % 2 = 1)
        BY <1>3, <1>4
    <2>2. n \in Plus(Xor(f), g[j]) <=> (n \in Xor(f) /\ n \notin g[j]) \/ (n \notin Xor(f) /\ n \in g[j])
        BY DEF Plus
    <2> HIDE DEF C
    <2>3. CASE n \in g[j]
        BY <1>1, <1>2, <2>1, <2>2, <2>3, Odd
    <2>4. CASE n \notin g[j]
        BY <1>2, <2>1, <2>2, <2>4
    <2>5. QED
        BY <2>3, <2>4
<1>6. QED
    BY <1>5

\* Legs are finitely many.
LEMMA FiniteLegs == IsFiniteSet(Member) /\ IsFiniteSet(Leg)
<1>1. Leg = 1..(Width + 1)
    BY WidthAssumption DEF Leg, Member, P
<1>2. QED
    BY <1>1, FS_Interval, WidthAssumption DEF Member

\* A member is what parity and the other members make of it (reconstruct_legs).
LEMMA Reconstructed ==
    ASSUME NEW D, DOMAIN D = Member, NEW i \in Member, NEW h, DOMAIN h = Leg \ {i},
           h[P] = Xor(D), \A j \in Member \ {i} : h[j] = D[j]
    PROVE  Xor(h) = D[i]
<1> DEFINE S == Member \ {i}
           f == [j \in S |-> D[j]]
<1>1. IsFiniteSet(S)
    BY FiniteLegs, FS_Subset
<1>2. Member = S \cup {i} /\ i \notin S /\ Leg \ {i} = S \cup {P} /\ P \notin S
    BY Legs DEF Leg
<1>3. Xor(D) = Plus(Xor(f), D[i])
    BY <1>1, <1>2, XorOne
<1>4. Xor(h) = Plus(Xor(f), h[P])
    BY <1>1, <1>2, XorOne
<1>5. QED
    BY <1>3, <1>4 DEF Plus

\* The change of one member, folded in, gives the parity of the new members
\* (apply_delta_leg).
LEMMA DeltaApplied ==
    ASSUME NEW D, D = [j \in Member |-> D[j]], NEW i \in Member, NEW old
    PROVE  Xor(<<Xor([D EXCEPT ![i] = old]), old, D[i]>>) = Xor(D)
<1> DEFINE S == Member \ {i}
           f == [j \in S |-> D[j]]
           d == [D EXCEPT ![i] = old]
           a == Xor(d)
           e == [j \in {} |-> {}]
<1>1. IsFiniteSet(S) /\ Member = S \cup {i} /\ i \notin S
    BY FiniteLegs, FS_Subset
<1>2. Xor(D) = Plus(Xor(f), D[i])
    BY <1>1, XorOne
<1>3. Xor(d) = Plus(Xor(f), old)
    <2>1. DOMAIN d = S \cup {i} /\ d[i] = old /\ \A j \in S : d[j] = f[j]
        BY <1>1
    <2> HIDE DEF d
    <2>2. QED
        BY <1>1, <2>1, XorOne
<1> HIDE DEF a
<1>4. Xor(<<a, old, D[i]>>) = Plus(Plus(a, old), D[i])
    <2>1. IsFiniteSet({}) /\ IsFiniteSet({1}) /\ IsFiniteSet({1, 2}) /\ {1} \cup {2} = {1, 2}
        <3>1. IsFiniteSet({})
            BY FS_EmptySet
        <3>2. IsFiniteSet({1})
            BY FS_Singleton
        <3>3. IsFiniteSet({1} \cup {2}) /\ {1} \cup {2} = {1, 2}
            BY <3>2, FS_AddElement
        <3>4. QED
            BY <3>1, <3>2, <3>3
    <2>2. Xor(e) = {}
        BY DEF Xor
    <2>3. Xor(<<a>>) = Plus(Xor(e), a)
        <3>1. DOMAIN e = {} /\ DOMAIN <<a>> = {} \cup {1} /\ <<a>>[1] = a
            OBVIOUS
        <3> HIDE DEF e
        <3>2. QED
            BY <2>1, <3>1, XorOne
    <2>4. Xor(<<a, old>>) = Plus(Xor(<<a>>), old)
        <3>1. DOMAIN <<a>> = {1} /\ DOMAIN <<a, old>> = {1} \cup {2} /\ <<a, old>>[2] = old /\ \A j \in {1} : <<a, old>>[j] = <<a>>[j]
            OBVIOUS
        <3>2. QED
            BY <2>1, <3>1, XorOne
    <2>5. Xor(<<a, old, D[i]>>) = Plus(Xor(<<a, old>>), D[i])
        <3>1. /\ DOMAIN <<a, old>> = {1, 2} /\ DOMAIN <<a, old, D[i]>> = {1, 2} \cup {3} /\ <<a, old, D[i]>>[3] = D[i]
              /\ \A j \in {1, 2} : <<a, old, D[i]>>[j] = <<a, old>>[j]
            OBVIOUS
        <3>2. QED
            BY <2>1, <3>1, XorOne
    <2>6. Plus({}, a) = a
        BY DEF Plus
    <2>7. QED
        BY <2>2, <2>3, <2>4, <2>5, <2>6
<1>5. QED
    BY <1>2, <1>3, <1>4 DEF Plus, a

-----------------------------------------------------------------------------
(* What a stripe holds                                                      *)

\* A slab the volume has not found out about and that answers when it is there.
Good(k) == k \notin failed /\ k \notin dead

\* The members of stripe s hold D where they can be read, and its parity is D's.
Members(s, D) ==
    \A i \in Member : /\ leg[s][i] = None => D[i] = Blank
                      /\ leg[s][i] # None /\ leg[s][i] \notin dead => cell[leg[s][i]][s][i].cur = D[i]
ParityIs(s, D) == leg[s][P] # None /\ Good(leg[s][P]) => cell[leg[s][P]][s][P].cur = Xor(D)

\* Requests at work, and between a member and its parity.
InRequest(t) == task[t].pc \in {"persist", "land", "data", "unmap", "parity"}
AtParity(t, s) == task[t].pc = "parity" /\ task[t].s = s
Changing(s) == \E t \in Task : task[t].pc \in {"data", "parity"} /\ task[t].s = s

\* A cut now is followed by a verify of the stripe, or excused.
Logged(s) == s \in file.cur \/ s \in unlogged
Whole(s) == s \notin holed /\ s \notin dropped

\* Member slabs are there, and failed only when dead.
Home(m) == m # None => m \in attached /\ (m \in failed => m \in dead)
Homes == \A s \in Stripe \ dropped, i \in Member : Home(leg[s][i]) /\ Home(disk[s][i])

\* What may be read now may be read after a cut, and from what any flush under way
\* will keep; a request's value may be read from its beginning.
Bases == \A s \in Stripe, i \in Member :
            /\ allow[s][i] \subseteq keep[s][i]
            /\ \A t \in Task : Flushing(t) => allow[s][i] \subseteq task[t].base[s][i]
Wants == \A t \in Task : InRequest(t) => task[t].v \in allow[task[t].s][task[t].i]
Kinds == \A t \in Task : /\ task[t].pc = "unmap" => task[t].v = Blank
                         /\ task[t].pc \in {"forget", "clear"} => task[t].slabs = {}

\* A start has the volume to itself, and verifies stripes the file names.
Starts == ~ Serving => (\A t \in Task : task[t] = Idle) /\ todo \subseteq file.cur

\* A log file that names a stripe is durable (stripelog.rs persist).
Files == file.cur # {} => file.may = {file.cur}

\* A marked stripe is in the file, or excused, or its writer has still to write it.
Marks == \A s \in dirty : Logged(s) \/ \E t \in Task : task[t].pc \in {"persist", "land"} /\ task[t].s = s

Book == Homes /\ Bases /\ Wants /\ Kinds /\ Starts /\ Files /\ Marks

\* The members that answer hold D.
LEMMA Read ==
    ASSUME StateOK, NEW s \in Stripe, NEW D \in [Member -> Content], Members(s, D)
    PROVE  \A i \in Member \ Lost(s) : Assemble(s)[i] = D[i]
<1> DEFINE read == [i \in Member |-> IF leg[s][i] = None THEN Blank ELSE cell[leg[s][i]][s][i].cur]
           parity(i) == [j \in Leg \ {i} |-> IF j = P THEN cell[leg[s][P]][s][P].cur ELSE read[j]]
<1>1. Assemble(s) = [i \in Member |-> IF i \in Lost(s) THEN Xor(parity(i)) ELSE read[i]]
    BY Zenon DEF Assemble
<1>2. ASSUME NEW i \in Member \ Lost(s) PROVE read[i] = D[i]
    BY DEF Lost, Members, Answers
<1> HIDE DEF read, parity
<1>3. QED
    BY <1>1, <1>2

\* A stripe all of whose members answer is put together as D.
LEMMA ReadAll ==
    ASSUME StateOK, NEW s \in Stripe, NEW D \in [Member -> Content], Members(s, D), Lost(s) = {}
    PROVE  Assemble(s) = D
<1>1. \A i \in Member : Assemble(s)[i] = D[i]
    BY Read
<1>2. Assemble(s) \in [Member -> Content]
    BY AssembleType DEF Recoverable
<1>3. QED
    BY <1>1, <1>2

\* So is one that lost a member and has its parity.
LEMMA PutTogether ==
    ASSUME StateOK, NEW s \in Stripe, NEW D \in [Member -> Content], Members(s, D), ParityIs(s, D), Recoverable(s)
    PROVE  Assemble(s) = D
<1>1. CASE Lost(s) = {}
    BY <1>1, ReadAll
<1>2. CASE Lost(s) # {}
    <2>1. Cardinality(Lost(s)) = 1 /\ leg[s][P] # None /\ Answers(leg[s][P])
        BY <1>2 DEF Recoverable
    <2>2. IsFiniteSet(Lost(s))
        BY FiniteLegs, FS_Subset DEF Lost
    <2>3. PICK i \in Member : Lost(s) = {i}
        <3>1. PICK i : Lost(s) = {i}
            BY <2>1, <2>2, FS_Singleton
        <3>2. QED
            BY <3>1 DEF Lost
    <2> DEFINE read == [j \in Member |-> IF leg[s][j] = None THEN Blank ELSE cell[leg[s][j]][s][j].cur]
               h == [j \in Leg \ {i} |-> IF j = P THEN cell[leg[s][P]][s][P].cur ELSE read[j]]
    <2>4. Assemble(s)[i] = Xor(h)
        BY <2>3, Zenon DEF Assemble
    <2>5. cell[leg[s][P]][s][P].cur = Xor(D)
        BY <2>1 DEF ParityIs, Good, Answers, Trusted
    <2>6. \A j \in Member \ {i} : read[j] = D[j]
        BY <2>3 DEF Lost, Members, Answers
    <2> HIDE DEF read
    <2>7. DOMAIN h = Leg \ {i} /\ h[P] = Xor(D) /\ \A j \in Member \ {i} : h[j] = D[j]
        BY <2>5, <2>6, Legs
    <2> HIDE DEF h
    <2>8. Assemble(s)[i] = D[i]
        BY <2>4, <2>7, Reconstructed
    <2>9. \A j \in Member : Assemble(s)[j] = D[j]
        BY <2>3, <2>8, Read
    <2>10. Assemble(s) \in [Member -> Content]
        BY AssembleType
    <2>11. QED
        BY <2>9, <2>10
<1>3. QED
    BY <1>1, <1>2

-----------------------------------------------------------------------------
(* What a step does to the tasks                                            *)

\* The steps of a request, and of a flush.
Advances(t) == \/ ReadMarks(t) \/ LandMarks(t) \/ WriteData(t) \/ DiesInWrite(t)
               \/ Unmap(t) \/ UpdateParity(t) \/ NewGroup(t) \/ DropGroup(t)
Flushes(t) == \/ BeginFlush(t) \/ FlushFails(t) \/ ClearMarks(t) \/ ReadCleared(t) \/ LandCleared(t)
              \/ \E k \in Slab : SyncSlab(t, k)

\* A request goes on, or ends.
LEMMA AdvanceTask ==
    ASSUME StateOK, NEW t \in Task, Advances(t)
    PROVE  /\ InRequest(t)
           /\ \A x \in Task \ {t} : task'[x] = task[x]
           /\ \/ task'[t] = Idle /\ ~ ReadMarks(t) /\ ~ LandMarks(t)
              \/ /\ \/ ReadMarks(t) /\ task'[t].pc = "land"
                    \/ LandMarks(t) /\ task'[t].pc = "data"
                    \/ (WriteData(t) \/ Unmap(t)) /\ task'[t].pc = "parity" /\ task'[t].old = Assemble(task[t].s)[task[t].i]
                 /\ task'[t].s = task[t].s /\ task'[t].i = task[t].i /\ task'[t].v = task[t].v
<1>1. task \in [Task -> TaskType]
    BY DEF StateOK
<1>2. InRequest(t)
    BY Zenon
       DEF Advances, ReadMarks, LandMarks, WriteData, DiesInWrite, Unmap, UpdateParity, NewGroup, DropGroup, InRequest
<1>3. task[t] \in RequestType
    BY <1>2, RequestTyped DEF InRequest
<1>4. \/ task' = [task EXCEPT ![t] = Idle] /\ ~ ReadMarks(t) /\ ~ LandMarks(t)
      \/ ReadMarks(t) /\ task' = [task EXCEPT ![t].pc = "land", ![t].set = dirty]
      \/ LandMarks(t) /\ task' = [task EXCEPT ![t].pc = "data"]
      \/ /\ WriteData(t) \/ Unmap(t)
         /\ task' = [task EXCEPT ![t].pc = "parity", ![t].old = Assemble(task[t].s)[task[t].i]]
    <2>1. CASE ReadMarks(t)
        BY <2>1 DEF ReadMarks, ReadDirty
    <2>2. CASE LandMarks(t)
        BY <2>2 DEF LandMarks
    <2>3. ASSUME task[t].pc \in {"data", "unmap", "parity"} PROVE ~ ReadMarks(t) /\ ~ LandMarks(t)
        BY <2>3 DEF ReadMarks, LandMarks
    <2>4. CASE WriteData(t)
        BY Zenon, <2>3, <2>4 DEF WriteData, End
    <2>5. CASE Unmap(t)
        BY <2>3, <2>5 DEF Unmap, End
    <2>6. CASE DiesInWrite(t) \/ UpdateParity(t) \/ NewGroup(t) \/ DropGroup(t)
        BY Zenon, <2>3, <2>6 DEF DiesInWrite, UpdateParity, NewGroup, DropGroup, End
    <2>7. QED
        BY <2>1, <2>2, <2>4, <2>5, <2>6 DEF Advances
<1>5. QED
    BY <1>1, <1>2, <1>3, <1>4 DEF RequestType

\* A flush goes on, or ends.
LEMMA FlushTask ==
    ASSUME StateOK, NEW t \in Task, Flushes(t)
    PROVE  /\ ~ InRequest(t) /\ ~ InRequest(t)'
           /\ \A x \in Task \ {t} : task'[x] = task[x]
           /\ \/ task'[t] = Idle /\ (FlushFails(t) \/ LandCleared(t))
              \/ BeginFlush(t) /\ task'[t].pc = "sync" /\ task'[t].base = allow /\ task'[t].slabs = {leg[s][i] : s \in Stripe, i \in Leg} \ {None}
              \/ ClearMarks(t) /\ task'[t].pc = "forget" /\ task'[t].base = task[t].base /\ task'[t].slabs = task[t].slabs /\ task[t].slabs = {}
              \/ ReadCleared(t) /\ task'[t].pc = "clear" /\ task'[t].base = task[t].base /\ task'[t].slabs = task[t].slabs
              \/ \E k \in Slab : SyncSlab(t, k) /\ task'[t].pc = "sync" /\ task'[t].base = task[t].base /\ task'[t].slabs = task[t].slabs \ {k}
           /\ BeginFlush(t) \/ Flushing(t)
<1>1. task \in [Task -> TaskType]
    BY DEF StateOK
<1>2. CASE BeginFlush(t)
    BY <1>1, <1>2 DEF BeginFlush, InRequest, Idle
<1>3. CASE FlushFails(t) \/ LandCleared(t)
    BY <1>1, <1>3 DEF FlushFails, LandCleared, End, InRequest, Idle, Flushing
<1>4. CASE ClearMarks(t) \/ ReadCleared(t)
    <2>1. task[t].pc \in {"sync", "forget", "clear"}
        BY <1>4 DEF ClearMarks, ReadCleared
    <2>2. task[t] \in FlushType
        BY <2>1, FlushTyped
    <2>3. \/ ClearMarks(t) /\ task[t].slabs = {} /\ task' = [task EXCEPT ![t].pc = "forget"]
          \/ ReadCleared(t) /\ task' = [task EXCEPT ![t].pc = "clear", ![t].set = dirty]
        BY <1>4 DEF ClearMarks, ReadCleared, ReadDirty
    <2>4. QED
        BY <1>1, <2>1, <2>2, <2>3 DEF FlushType, InRequest, Flushing
<1>5. ASSUME NEW k \in Slab, SyncSlab(t, k)
      PROVE  /\ task[t].pc = "sync"
             /\ \A x \in Task \ {t} : task'[x] = task[x]
             /\ task'[t].pc = "sync" /\ task'[t].base = task[t].base /\ task'[t].slabs = task[t].slabs \ {k}
    <2>1. task[t] \in FlushType /\ task[t].pc = "sync"
        BY <1>5, FlushTyped DEF SyncSlab
    <2>2. task' = [task EXCEPT ![t].slabs = @ \ {k}, ![t].lost = @ \/ (Trusted(k) /\ k \in dead)]
        BY <1>5 DEF SyncSlab
    <2>3. QED
        BY <1>1, <2>1, <2>2 DEF FlushType
<1>6. CASE \E k \in Slab : SyncSlab(t, k)
    BY <1>5, <1>6 DEF InRequest, Flushing
<1>7. QED
    BY <1>2, <1>3, <1>4, <1>6 DEF Flushes

\* Member i of stripe s may also be v.
Widened(f, g, s, i, v) == \A r \in Stripe, j \in Member : g[r][j] = IF r = s /\ j = i THEN f[r][j] \cup {v} ELSE f[r][j]

\* A request on member i of stripe s that leaves it at v begins: its value may be
\* read and kept, by the flushes under way too.
Begins(t, s, i, v) ==
    /\ task'[t].s = s /\ task'[t].i = i /\ task'[t].v = v
    /\ \A x \in Task \ {t} : ~ Flushing(x) => task'[x] = task[x]
    /\ \A x \in Task \ {t} : Flushing(x) => /\ task'[x].pc = task[x].pc /\ task'[x].slabs = task[x].slabs
                                            /\ Widened(task[x].base, task'[x].base, s, i, v)
    /\ Widened(allow, allow', s, i, v) /\ Widened(keep, keep', s, i, v)

\* So does every request.
LEMMA BeginTask ==
    ASSUME StateOK, NEW t \in Task, NEW op, NEW pc, NEW s \in Stripe, NEW i \in Member, NEW v, Request(t, op, pc, s, i, v)
    PROVE  task'[t].pc = pc /\ Begins(t, s, i, v)
<1>1. task' = [x \in Task |->
          IF x = t THEN [pc |-> pc, op |-> op, s |-> s, i |-> i, v |-> v, old |-> Blank, set |-> {}]
          ELSE IF Flushing(x) THEN [task[x] EXCEPT !.base[s][i] = @ \cup {v}] ELSE task[x]]
    BY DEF Request
<1>2. ASSUME NEW x \in Task \ {t}, Flushing(x)
      PROVE  /\ task'[x].pc = task[x].pc /\ task'[x].slabs = task[x].slabs
             /\ Widened(task[x].base, task'[x].base, s, i, v)
    <2>1. task[x] \in FlushType /\ task[x].base \in Readings
        BY <1>2, FlushTyped DEF Flushing
    <2> DEFINE b == [task[x].base EXCEPT ![s] = [task[x].base[s] EXCEPT ![i] = task[x].base[s][i] \cup {v}]]
    <2>2. task'[x] = [task[x] EXCEPT !.base = b]
        BY <1>1, <1>2, <2>1 DEF FlushType
    <2>3. Widened(task[x].base, b, s, i, v)
        BY <2>1 DEF Readings, Widened
    <2> HIDE DEF b
    <2>4. task'[x].base = b /\ task'[x].pc = task[x].pc /\ task'[x].slabs = task[x].slabs
        BY <2>1, <2>2 DEF FlushType
    <2>5. QED
        BY <2>3, <2>4
<1>3. Widened(allow, allow', s, i, v) /\ Widened(keep, keep', s, i, v)
    BY DEF Request, StateOK, Readings, Widened
<1>4. QED
    BY <1>1, <1>2, <1>3 DEF Begins

-----------------------------------------------------------------------------
(* The books: places, requests, starts and the log                          *)

\* Requests are at work only while the volume is served.
LEMMA OnlyServed ==
    ASSUME Starts, NEW t \in Task
    PROVE  Advances(t) \/ Flushes(t) => Serving
<1> SUFFICES ASSUME Advances(t) \/ Flushes(t), ~ Serving PROVE FALSE
    OBVIOUS
<1>1. task[t] = Idle
    BY DEF Starts
<1>2. task[t].pc = "idle"
    BY <1>1 DEF Idle
<1>3. CASE Advances(t)
    BY <1>2, <1>3 DEF Advances, ReadMarks, LandMarks, WriteData, DiesInWrite, Unmap, UpdateParity, NewGroup, DropGroup
<1>4. CASE Flushes(t)
    BY <1>2, <1>4 DEF Flushes, BeginFlush, FlushFails, ClearMarks, ReadCleared, LandCleared, SyncSlab
<1>5. QED
    BY <1>3, <1>4

\* What a request that ends leaves its member to read as.
LEMMA DoneAllows ==
    ASSUME StateOK, Wants, NEW t \in Task, InRequest(t), Done(t)
    PROVE  \A s \in Stripe, i \in Member :
              /\ allow'[s][i] = IF s = task[t].s /\ i = task[t].i THEN {task[t].v} ELSE allow[s][i]
              /\ allow'[s][i] \subseteq allow[s][i]
<1>1. task[t].s \in Stripe /\ task[t].i \in Member
    BY RequestTyped DEF InRequest
<1>2. task[t].v \in allow[task[t].s][task[t].i]
    BY DEF Wants
<1>3. QED
    BY <1>1, <1>2 DEF Done, StateOK, Readings

\* Members stay at home: they move only to slabs that are there and trusted, and
\* a slab is failed only when it is found dead or gone.
LEMMA HomesStep ==
    ASSUME StateOK, Homes, attached' = attached, dead \subseteq dead', dropped' = dropped,
           \A k \in failed' : k \in failed \/ k \in dead' \/ k \notin attached,
           \A s \in Stripe, i \in Member : \/ leg'[s][i] \in {leg[s][i], None}
                                           \/ leg'[s][i] \in attached /\ leg'[s][i] \notin failed',
           \A s \in Stripe, i \in Member : disk'[s][i] \in {disk[s][i], leg[s][i], None}
    PROVE  Homes'
<1> SUFFICES ASSUME NEW s \in Stripe \ dropped, NEW i \in Member
             PROVE  Home(leg[s][i])' /\ Home(disk[s][i])'
    BY DEF Homes, Home
<1>1. Home(leg[s][i]) /\ Home(disk[s][i])
    BY DEF Homes
<1>2. QED
    BY <1>1 DEF Home

\* Every step keeps members at home.
LEMMA HomesNext == StateOK /\ TablesInv /\ Homes /\ [Next]_vars => Homes'
<1> SUFFICES ASSUME StateOK, TablesInv, Homes, [Next]_vars PROVE Homes'
    OBVIOUS
<1>1. ASSUME leg' = leg, disk' = disk, attached' = attached, dead \subseteq dead', dropped' = dropped,
             \A k \in failed' : k \in failed \/ k \in dead' \/ k \notin attached
      PROVE  Homes'
    BY <1>1, HomesStep
<1>2. ASSUME NEW s, NEW L PROVE \A k \in Noticed(s, L) : k \in dead \/ k \notin attached
    BY DEF Noticed
<1>3. ASSUME NEW t \in Task, NEW s \in Stripe, NEW i \in Member, BeginWrite(t, s, i) \/ BeginDiscard(t, s, i)
      PROVE  Homes'
    BY <1>1, <1>3 DEF BeginWrite, BeginDiscard, mapVars, slabVars
<1>4. ASSUME NEW t \in Task, ReadMarks(t) \/ LandMarks(t) PROVE Homes'
    BY <1>1, <1>4 DEF ReadMarks, LandMarks, mapVars, slabVars, histVars
<1>5. ASSUME NEW t \in Task, WriteData(t) PROVE Homes'
    <2> DEFINE s == task[t].s
               i == task[t].i
    <2>1. s \in Stripe /\ i \in Member
        BY Zenon, <1>5, RequestTyped DEF WriteData
    <2>2. /\ attached' = attached /\ dead' = dead /\ disk' = disk /\ dropped' = dropped
          /\ \A k \in failed' : k \in failed \/ k \in dead \/ k \notin attached
        BY Zenon, <1>2, <1>5 DEF WriteData, histVars
    <2>3. \/ leg' = leg
          \/ leg' = [leg EXCEPT ![s][i] = leg[s][i]]
          \/ \E to \in attached \ failed' : leg' = [leg EXCEPT ![s][i] = to]
        BY Zenon, <1>5 DEF WriteData, Apart
    <2>4. ASSUME NEW r \in Stripe, NEW j \in Member
          PROVE  leg'[r][j] \in {leg[r][j], None} \/ (leg'[r][j] \in attached /\ leg'[r][j] \notin failed')
        <3>1. j \in Leg
            BY Legs
        <3> HIDE DEF s, i
        <3>2. QED
            BY <2>1, <2>3, <3>1, Legs DEF StateOK, Map
    <2>5. QED
        BY <2>2, <2>4, HomesStep
<1>6. ASSUME NEW t \in Task, DiesInWrite(t) PROVE Homes'
    BY <1>1, <1>6 DEF DiesInWrite, mapVars, histVars
<1>7. ASSUME NEW t \in Task, Unmap(t) \/ DropGroup(t) \/ NewGroup(t) PROVE Homes'
    <2> DEFINE s == task[t].s
    <2>1. s \in Stripe /\ task[t].i \in Member
        BY <1>7, RequestTyped DEF Unmap, DropGroup, NewGroup
    <2>2. /\ attached' = attached /\ dead' = dead /\ disk' = disk /\ dropped' = dropped
          /\ \A k \in failed' : k \in failed \/ k \in dead \/ k \notin attached
        BY <1>2, <1>7 DEF Unmap, DropGroup, NewGroup, slabVars, histVars
    <2>3. \/ leg' = leg
          \/ leg' = [leg EXCEPT ![s][task[t].i] = None]
          \/ \E to : leg' = [leg EXCEPT ![s][P] = to]
        BY <1>7 DEF Unmap, DropGroup, NewGroup
    <2>4. ASSUME NEW r \in Stripe, NEW j \in Member PROVE leg'[r][j] \in {leg[r][j], None}
        <3>1. j \in Leg /\ task[t].i \in Leg /\ P \in Leg /\ j # P /\ leg \in Map
            BY <2>1, Legs DEF StateOK
        <3> HIDE DEF s
        <3>2. CASE leg' = [leg EXCEPT ![s][task[t].i] = None]
            BY <2>1, <3>1, <3>2 DEF Map
        <3>3. ASSUME NEW to, leg' = [leg EXCEPT ![s][P] = to] PROVE leg'[r][j] = leg[r][j]
            BY <2>1, <3>1, <3>3 DEF Map
        <3>4. QED
            BY <2>3, <3>2, <3>3
    <2>5. QED
        BY <2>2, <2>4, HomesStep
<1>8. ASSUME NEW t \in Task, UpdateParity(t) PROVE Homes'
    BY Zenon, <1>1, <1>2, <1>8 DEF UpdateParity, mapVars
<1>9. ASSUME NEW t \in Task, BeginFlush(t) \/ FlushFails(t) \/ ClearMarks(t) \/ ReadCleared(t) \/ LandCleared(t)
      PROVE  Homes'
    <2>1. leg' = leg /\ disk' = disk /\ attached' = attached /\ dead' = dead /\ failed' = failed /\ dropped' = dropped
        BY <1>9 DEF BeginFlush, FlushFails, ClearMarks, ReadCleared, LandCleared, mapVars, slabVars, histVars
    <2>2. QED
        BY <1>1, <2>1
<1>10. ASSUME NEW k \in Slab, Sync(k) \/ disk' = disk, leg' = leg, attached' = attached, dead' = dead, dropped' = dropped,
              \A m \in failed' : m \in failed \/ m \in dead
       PROVE  Homes'
    <2>1. ASSUME NEW s \in Stripe, NEW i \in Member PROVE disk'[s][i] \in {disk[s][i], leg[s][i], None}
        BY <1>10, Legs DEF Sync
    <2>2. QED
        BY <1>10, <2>1, HomesStep
<1>11. ASSUME NEW t \in Task, NEW k \in Slab, SyncSlab(t, k) PROVE Homes'
    <2>1. Sync(k) \/ disk' = disk
        BY <1>11 DEF SyncSlab
    <2>2. leg' = leg /\ attached' = attached /\ dead' = dead /\ dropped' = dropped /\ \A m \in failed' : m \in failed \/ m \in dead
        BY <1>11 DEF SyncSlab
    <2>3. QED
        BY <1>10, <2>1, <2>2
<1>12. ASSUME NEW k \in Slab, SyncByOther(k) PROVE Homes'
    BY <1>10, <1>12 DEF SyncByOther, slabVars
<1>13. ASSUME NEW s \in Stripe, Resync(s) PROVE Homes'
    <2>1. disk' = disk /\ attached' = attached /\ dead' = dead /\ failed' = failed /\ dropped' = dropped
        BY <1>13 DEF Resync, slabVars, histVars
    <2>2. PICK to \in Rebuilt(s) : leg' = [leg EXCEPT ![s] = to]
        BY <1>13 DEF Resync
    <2>3. ASSUME NEW i \in Member PROVE to[i] \in {leg[s][i], None} \/ (to[i] \in attached /\ to[i] \notin failed)
        BY Legs DEF Rebuilt, Apart
    <2>4. ASSUME NEW r \in Stripe, NEW j \in Member
          PROVE  leg'[r][j] \in {leg[r][j], None} \/ (leg'[r][j] \in attached /\ leg'[r][j] \notin failed)
        BY <2>2, <2>3, Legs DEF StateOK, Map
    <2>5. QED
        BY <2>1, <2>4, HomesStep
<1>14. ASSUME NEW s \in Stripe, Verify(s) PROVE Homes'
    BY <1>1, <1>2, <1>14 DEF Verify, mapVars
<1>15. ASSUME NEW k \in Slab, SlabDies(k) PROVE Homes'
    BY <1>1, <1>15 DEF SlabDies, mapVars, histVars
<1>16. CASE Verified
    BY <1>1, <1>16 DEF Verified, mapVars, slabVars
<1>17. ASSUME NEW absent, PowerCut(absent) PROVE Homes'
    <2>1. attached' \cap dead' = {} /\ failed' = rec.failed /\ dead' = dead /\ disk' = leg'
        BY <1>17 DEF PowerCut
    <2>2. ASSUME NEW s \in Stripe \ dropped', NEW i \in Member
          PROVE  Home(leg[s][i])' /\ Home(disk[s][i])'
        <3>1. /\ s \notin dropped
              /\ leg'[s][i] # None => leg'[s][i] = disk[s][i] /\ leg'[s][i] \in attached'
            BY <1>17, PowerCutLegs, Legs
        <3>2. Home(disk[s][i])
            BY <3>1 DEF Homes
        <3>3. QED
            BY <2>1, <3>1, <3>2 DEF Home, TablesInv, Records
    <2>3. QED
        BY <2>2 DEF Homes
<1>18. ASSUME NEW k \in Slab, PersistSync(k) PROVE Homes'
    <2>1. Sync(k) \/ disk' = disk
        BY <1>18 DEF PersistSync
    <2>2. leg' = leg /\ attached' = attached /\ dead' = dead /\ failed' = failed /\ dropped' = dropped
        BY <1>18 DEF PersistSync, slabVars
    <2>3. QED
        BY <1>10, <2>1, <2>2
<1>19. CASE TakeRecord \/ WriteRecord
    <2>1. /\ leg' = leg /\ disk' = disk /\ attached' = attached /\ dead' = dead
          /\ failed' = failed /\ dropped' = dropped
        BY <1>19 DEF TakeRecord, WriteRecord, mapVars, slabVars, histVars
    <2>2. QED
        BY <1>1, <2>1
<1>20. CASE UNCHANGED vars
    BY <1>1, <1>20 DEF vars
<1>21. QED
    BY <1>3, <1>4, <1>5, <1>6, <1>7, <1>8, <1>9, <1>11, <1>12, <1>13, <1>14, <1>15, <1>16, <1>17, <1>18, <1>19, <1>20
    DEF Next

\* The steps that neither begin, advance nor flush: of resync, start, other volumes,
\* the slabs and the record.
Others == \/ \E s \in Stripe : Resync(s) \/ Verify(s)
          \/ \E k \in Slab : SyncByOther(k) \/ SlabDies(k) \/ PersistSync(k)
          \/ TakeRecord \/ WriteRecord
          \/ Verified

\* The kinds of steps.
LEMMA NextKinds ==
    [Next]_vars => \/ \E t \in Task, s \in Stripe, i \in Member : BeginWrite(t, s, i) \/ BeginDiscard(t, s, i)
                   \/ \E t \in Task : Advances(t) \/ Flushes(t)
                   \/ Others
                   \/ \E absent : PowerCut(absent)
                   \/ UNCHANGED vars
<1> SUFFICES ASSUME [Next]_vars
             PROVE  \/ \E t \in Task, s \in Stripe, i \in Member : BeginWrite(t, s, i) \/ BeginDiscard(t, s, i)
                    \/ \E t \in Task : Advances(t) \/ Flushes(t)
                    \/ Others
                    \/ \E absent : PowerCut(absent)
                    \/ UNCHANGED vars
    OBVIOUS
<1>1. ASSUME NEW t \in Task,
             \/ ReadMarks(t) \/ LandMarks(t)
             \/ WriteData(t) \/ DiesInWrite(t) \/ Unmap(t)
             \/ UpdateParity(t) \/ NewGroup(t) \/ DropGroup(t)
             \/ BeginFlush(t) \/ FlushFails(t) \/ ClearMarks(t) \/ ReadCleared(t) \/ LandCleared(t)
             \/ \E k \in Slab : SyncSlab(t, k)
      PROVE  Advances(t) \/ Flushes(t)
    BY <1>1 DEF Advances, Flushes
<1>2. QED
    BY <1>1 DEF Next, Others

\* A request begins on a stripe nobody is at, and changes the log in memory alone.
LEMMA Begun ==
    ASSUME StateOK, NEW t \in Task, NEW s \in Stripe, NEW i \in Member, BeginWrite(t, s, i) \/ BeginDiscard(t, s, i)
    PROVE  /\ task[t] = Idle /\ Serving /\ Free(s)
           /\ task'[t].pc \in {"persist", "data", "unmap"} /\ \E v : Begins(t, s, i, v) /\ (task'[t].pc = "unmap" => v = Blank)
           /\ task'[t].pc = "data" => s \in dirty
           /\ dirty' = IF task'[t].pc = "unmap" THEN dirty ELSE dirty \cup {s}
           /\ cell' = cell /\ leg' = leg /\ disk' = disk /\ attached' = attached /\ failed' = failed /\ dead' = dead
           /\ file' = file /\ todo' = todo /\ unlogged' = unlogged /\ holed' = holed /\ dropped' = dropped
<1>1. CASE BeginWrite(t, s, i)
    <2> DEFINE pc == IF s \in dirty THEN "data" ELSE "persist"
               v == {ticket + 1}
    <2>1. task[t] = Idle /\ Request(t, "write", pc, s, i, v)
        BY <1>1 DEF BeginWrite
    <2>2. /\ Serving /\ Free(s) /\ dirty' = dirty \cup {s}
          /\ cell' = cell /\ leg' = leg /\ disk' = disk /\ attached' = attached /\ failed' = failed /\ dead' = dead
          /\ file' = file /\ todo' = todo /\ unlogged' = unlogged /\ holed' = holed /\ dropped' = dropped
        BY <1>1 DEF BeginWrite, mapVars, slabVars
    <2>3. pc \in {"persist", "data"} /\ (pc = "data" => s \in dirty)
        OBVIOUS
    <2> HIDE DEF pc, v
    <2>4. task'[t].pc = pc /\ Begins(t, s, i, v)
        BY <2>1, BeginTask
    <2>5. QED
        BY <2>1, <2>2, <2>3, <2>4
<1>2. CASE BeginDiscard(t, s, i)
    <2>1. task[t] = Idle /\ Request(t, "discard", "unmap", s, i, Blank)
        BY <1>2 DEF BeginDiscard
    <2>2. /\ Serving /\ Free(s) /\ dirty' = dirty
          /\ cell' = cell /\ leg' = leg /\ disk' = disk /\ attached' = attached /\ failed' = failed /\ dead' = dead
          /\ file' = file /\ todo' = todo /\ unlogged' = unlogged /\ holed' = holed /\ dropped' = dropped
        BY <1>2 DEF BeginDiscard, mapVars, slabVars, logVars
    <2>3. task'[t].pc = "unmap" /\ Begins(t, s, i, Blank)
        BY <2>1, BeginTask
    <2>4. QED
        BY <2>1, <2>2, <2>3
<1>3. QED
    BY <1>1, <1>2

\* The steps that are none of a task's leave the tasks and what may be read.
LEMMA OthersLeave ==
    Others => task' = task /\ allow' = allow /\ keep' = keep
BY DEF Others, Resync, Verify, SyncByOther, SlabDies, PersistSync, TakeRecord, WriteRecord, Verified, histVars

\* What a request's step does to what may be read.
LEMMA AdvanceAllows ==
    ASSUME StateOK, Wants, NEW t \in Task, Advances(t)
    PROVE  /\ keep' = keep
           /\ \/ allow' = allow
              \/ /\ task'[t] = Idle
                 /\ \A s \in Stripe, i \in Member :
                      /\ allow'[s][i] = IF s = task[t].s /\ i = task[t].i THEN {task[t].v} ELSE allow[s][i]
                      /\ allow'[s][i] \subseteq allow[s][i]
<1>1. keep' = keep
    BY Zenon
       DEF Advances, ReadMarks, LandMarks, WriteData, DiesInWrite, Unmap, UpdateParity, NewGroup, DropGroup, histVars
<1>2. CASE ReadMarks(t) \/ LandMarks(t) \/ WriteData(t) \/ DiesInWrite(t) \/ Unmap(t)
    BY Zenon, <1>1, <1>2 DEF ReadMarks, LandMarks, WriteData, DiesInWrite, Unmap, histVars
<1>3. CASE UpdateParity(t) \/ NewGroup(t) \/ DropGroup(t)
    <2>1. (allow' = allow \/ Done(t)) /\ End(t)
        BY Zenon, <1>3 DEF UpdateParity, NewGroup, DropGroup
    <2>2. InRequest(t)
        BY AdvanceTask
    <2>3. task'[t] = Idle
        BY <2>1 DEF End, StateOK
    <2>4. QED
        BY <1>1, <2>1, <2>2, <2>3, DoneAllows
<1>4. QED
    BY <1>2, <1>3 DEF Advances

\* Flushes leave what may be read now; the last step of one lets go of what it
\* need not keep.
LEMMA FlushAllows ==
    ASSUME StateOK, NEW t \in Task, Flushes(t)
    PROVE  /\ allow' = allow
           /\ ~ LandCleared(t) => keep' = keep
           /\ LandCleared(t) => \A s \in Stripe, i \in Member :
                 keep'[s][i] = IF Blank \in task[t].base[s][i] THEN keep[s][i] ELSE keep[s][i] \cap task[t].base[s][i]
<1>1. allow' = allow
    <2>1. CASE BeginFlush(t) \/ FlushFails(t) \/ ClearMarks(t) \/ ReadCleared(t)
        BY <2>1 DEF BeginFlush, FlushFails, ClearMarks, ReadCleared, histVars
    <2>2. CASE LandCleared(t) \/ \E k \in Slab : SyncSlab(t, k)
        BY <2>2 DEF LandCleared, SyncSlab
    <2>3. QED
        BY <2>1, <2>2 DEF Flushes
<1>2. ~ LandCleared(t) => keep' = keep
    <2>1. CASE BeginFlush(t) \/ FlushFails(t) \/ ClearMarks(t) \/ ReadCleared(t)
        BY <2>1 DEF BeginFlush, FlushFails, ClearMarks, ReadCleared, histVars
    <2>2. CASE \E k \in Slab : SyncSlab(t, k)
        BY <2>2 DEF SyncSlab
    <2>3. QED
        BY <2>1, <2>2 DEF Flushes
<1>3. LandCleared(t) => \A s \in Stripe, i \in Member :
         keep'[s][i] = IF Blank \in task[t].base[s][i] THEN keep[s][i] ELSE keep[s][i] \cap task[t].base[s][i]
    BY DEF LandCleared
<1>4. QED
    BY <1>1, <1>2, <1>3

\* Every step keeps what may be read among what is kept.
LEMMA BasesNext == StateOK /\ TablesInv /\ Wants /\ Bases /\ [Next]_vars => Bases'
<1> SUFFICES ASSUME StateOK, TablesInv, Wants, Bases, [Next]_vars PROVE Bases'
    OBVIOUS
<1>1. ASSUME \A s \in Stripe, i \in Member : allow'[s][i] \subseteq allow[s][i] /\ keep[s][i] \subseteq keep'[s][i],
             \A x \in Task : Flushing(x)' => Flushing(x) /\ task'[x].base = task[x].base
      PROVE  Bases'
    BY <1>1 DEF Bases
<1>2. ASSUME NEW t \in Task, NEW s \in Stripe, NEW i \in Member, BeginWrite(t, s, i) \/ BeginDiscard(t, s, i) PROVE Bases'
    <2>1. PICK v : Begins(t, s, i, v)
        BY <1>2, Begun
    <2>2. ASSUME NEW r \in Stripe, NEW j \in Member, NEW x \in Task, Flushing(x)'
          PROVE  allow'[r][j] \subseteq task'[x].base[r][j]
        <3>1. x # t
            BY <1>2, <2>2, Begun DEF Flushing
        <3>2. Flushing(x)
            BY <2>1, <2>2, <3>1 DEF Flushing, Begins
        <3>3. Widened(task[x].base, task'[x].base, s, i, v) /\ Widened(allow, allow', s, i, v)
            BY <2>1, <3>1, <3>2 DEF Begins
        <3>4. QED
            BY <3>2, <3>3, ZenonT(60) DEF Bases, Widened
    <2>3. ASSUME NEW r \in Stripe, NEW j \in Member PROVE allow'[r][j] \subseteq keep'[r][j]
        <3>1. Widened(allow, allow', s, i, v) /\ Widened(keep, keep', s, i, v) /\ allow[r][j] \subseteq keep[r][j]
            BY <2>1 DEF Begins, Bases
        <3>2. QED
            BY <3>1 DEF Widened
    <2>4. QED
        BY <2>2, <2>3 DEF Bases
<1>3. ASSUME NEW t \in Task, Advances(t) PROVE Bases'
    <2>1. \A s \in Stripe, i \in Member : allow'[s][i] \subseteq allow[s][i] /\ keep[s][i] \subseteq keep'[s][i]
        BY <1>3, AdvanceAllows
    <2>2. \A x \in Task : Flushing(x)' => Flushing(x) /\ task'[x].base = task[x].base
        BY <1>3, AdvanceTask DEF Flushing, Idle
    <2>3. QED
        BY <1>1, <2>1, <2>2
<1>4. ASSUME NEW t \in Task, Flushes(t) PROVE Bases'
    <2>1. \A x \in Task \ {t} : task'[x] = task[x]
        BY <1>4, FlushTask
    <2>2. Flushing(t)' => (Flushing(t) /\ task'[t].base = task[t].base) \/ task'[t].base = allow
        <3>1. /\ \/ task'[t] = Idle \/ task'[t].base = task[t].base
                 \/ BeginFlush(t) /\ task'[t].base = allow
              /\ BeginFlush(t) \/ Flushing(t)
            BY <1>4, FlushTask
        <3>2. task'[t] = Idle => ~ Flushing(t)'
            BY DEF Flushing, Idle
        <3>3. BeginFlush(t) => task'[t].base = allow
            BY DEF BeginFlush, StateOK
        <3>4. QED
            BY <3>1, <3>2, <3>3
    <2>3. allow' = allow
        BY <1>4, FlushAllows
    <2>4. ASSUME NEW s \in Stripe, NEW i \in Member PROVE allow[s][i] \subseteq keep'[s][i]
        <3>1. CASE LandCleared(t)
            <4>1. Flushing(t)
                BY <3>1 DEF LandCleared, Flushing
            <4>2. keep'[s][i] = IF Blank \in task[t].base[s][i] THEN keep[s][i] ELSE keep[s][i] \cap task[t].base[s][i]
                BY <1>4, <3>1, FlushAllows, ZenonT(40)
            <4>3. QED
                BY <4>1, <4>2 DEF Bases
        <3>2. CASE ~ LandCleared(t)
            BY <1>4, <3>2, FlushAllows DEF Bases
        <3>3. QED
            BY <3>1, <3>2
    <2>5. ASSUME NEW s \in Stripe, NEW i \in Member, NEW x \in Task, Flushing(x)'
          PROVE  allow[s][i] \subseteq task'[x].base[s][i]
        BY <2>1, <2>2, <2>5 DEF Bases, Flushing
    <2>6. QED
        BY <2>3, <2>4, <2>5 DEF Bases
<1>5. CASE Others
    BY <1>1, <1>5, OthersLeave DEF Flushing
<1>6. ASSUME NEW absent, PowerCut(absent) PROVE Bases'
    <2>1. task' = [t \in Task |-> Idle] /\ allow' = keep /\ keep' = keep
        BY <1>6 DEF PowerCut
    <2>2. \A x \in Task : ~ Flushing(x)'
        BY <2>1 DEF Flushing, Idle
    <2>3. QED
        BY <2>1, <2>2 DEF Bases
<1>7. CASE UNCHANGED vars
    BY <1>1, <1>7 DEF vars, Flushing
<1>8. QED
    BY <1>2, <1>3, <1>4, <1>5, <1>6, <1>7, NextKinds

\* Every step keeps a request's value among those that may be read: the end of
\* another has its own stripe.
LEMMA WantsNext == StateOK /\ TablesInv /\ Locked /\ Wants /\ [Next]_vars => Wants'
<1> SUFFICES ASSUME StateOK, TablesInv, Locked, Wants, [Next]_vars PROVE Wants'
    OBVIOUS
<1>1. ASSUME NEW x \in Task, InRequest(x)
      PROVE  task[x].s \in Stripe /\ task[x].i \in Member /\ task[x].v \in allow[task[x].s][task[x].i]
    BY <1>1, RequestTyped DEF InRequest, Wants
<1>2. ASSUME NEW t \in Task, NEW s \in Stripe, NEW i \in Member, BeginWrite(t, s, i) \/ BeginDiscard(t, s, i) PROVE Wants'
    <2>1. PICK v : Begins(t, s, i, v)
        BY <1>2, Begun
    <2>2. ASSUME NEW x \in Task, x # t, InRequest(x)' PROVE task'[x].v \in allow'[task'[x].s][task'[x].i]
        <3>1. ~ Flushing(x)
            BY <2>1, <2>2 DEF InRequest, Flushing, Begins
        <3>2. task'[x] = task[x] /\ InRequest(x)
            BY <2>1, <2>2, <3>1 DEF InRequest, Begins
        <3>3. Widened(allow, allow', s, i, v)
            BY <2>1 DEF Begins
        <3>4. task[x].s \in Stripe /\ task[x].i \in Member /\ task[x].v \in allow[task[x].s][task[x].i]
            BY <1>1, <3>2
        <3>5. allow[task[x].s][task[x].i] \subseteq allow'[task[x].s][task[x].i]
            BY <3>3, <3>4 DEF Widened
        <3>6. QED
            BY <3>2, <3>4, <3>5
    <2>3. task'[t].v \in allow'[task'[t].s][task'[t].i]
        BY <2>1 DEF Begins, Widened
    <2>4. QED
        BY <2>2, <2>3 DEF Wants
<1>3. ASSUME NEW t \in Task, Advances(t) PROVE Wants'
    <2>1. ASSUME NEW x \in Task, InRequest(x)' PROVE task'[x].v \in allow'[task'[x].s][task'[x].i]
        <3>1. InRequest(x) /\ task'[x].s = task[x].s /\ task'[x].i = task[x].i /\ task'[x].v = task[x].v
            BY <1>3, <2>1, AdvanceTask DEF InRequest, Idle
        <3>2. CASE allow' = allow
            BY <1>1, <3>1, <3>2
        <3>3. CASE allow' # allow
            <4>1. /\ task'[t] = Idle
                  /\ \A s \in Stripe, i \in Member :
                        /\ allow'[s][i] = IF s = task[t].s /\ i = task[t].i THEN {task[t].v} ELSE allow[s][i]
                        /\ allow'[s][i] \subseteq allow[s][i]
                BY <1>3, <3>3, AdvanceAllows
            <4>2. x # t /\ InRequest(t)
                BY <1>3, <2>1, <4>1, AdvanceTask DEF InRequest, Idle
            <4>3. task[x].s \in Stripe /\ task[t].s \in Stripe
                BY <1>1, <3>1, <4>2
            <4>4. task[x].s # task[t].s
                BY <3>1, <4>2, <4>3 DEF Locked, Holds, InRequest
            <4>5. QED
                BY <1>1, <3>1, <4>1, <4>4
        <3>4. QED
            BY <3>2, <3>3
    <2>2. QED
        BY <2>1 DEF Wants
<1>4. ASSUME NEW t \in Task, Flushes(t) PROVE Wants'
    <2>1. /\ allow' = allow /\ ~ InRequest(t)' /\ \A x \in Task \ {t} : task'[x] = task[x]
        BY <1>4, FlushAllows, FlushTask
    <2>2. QED
        BY <2>1 DEF Wants, InRequest
<1>5. CASE Others
    BY <1>5, OthersLeave DEF Wants, InRequest
<1>6. ASSUME NEW absent, PowerCut(absent) PROVE Wants'
    <2>1. \A x \in Task : task'[x] = Idle
        BY <1>6 DEF PowerCut
    <2>2. \A x \in Task : ~ InRequest(x)'
        BY <2>1 DEF InRequest, Idle
    <2>3. QED
        BY <2>2 DEF Wants
<1>7. CASE UNCHANGED vars
    BY <1>7 DEF vars, Wants, InRequest
<1>8. QED
    BY <1>2, <1>3, <1>4, <1>5, <1>6, <1>7, NextKinds

\* Discards discard, and a flush that clears the marks is through with its slabs.
LEMMA KindsNext == StateOK /\ TablesInv /\ Kinds /\ [Next]_vars => Kinds'
<1> SUFFICES ASSUME StateOK, TablesInv, Kinds, [Next]_vars PROVE Kinds'
    OBVIOUS
<1>1. ASSUME NEW t \in Task, NEW s \in Stripe, NEW i \in Member, BeginWrite(t, s, i) \/ BeginDiscard(t, s, i) PROVE Kinds'
    <2>1. PICK v : Begins(t, s, i, v) /\ (task'[t].pc = "unmap" => v = Blank)
        BY <1>1, Begun
    <2>2. task'[t].pc \in {"persist", "data", "unmap"} /\ (task'[t].pc = "unmap" => task'[t].v = Blank)
        BY <1>1, <2>1, Begun DEF Begins
    <2>3. \A x \in Task \ {t} : task'[x] = task[x] \/ (Flushing(x) /\ task'[x].pc = task[x].pc /\ task'[x].slabs = task[x].slabs)
        BY <2>1 DEF Begins
    <2>4. QED
        BY <2>2, <2>3 DEF Kinds, Flushing
<1>2. ASSUME NEW t \in Task, Advances(t) PROVE Kinds'
    BY <1>2, AdvanceTask DEF Kinds, Idle
<1>3. ASSUME NEW t \in Task, Flushes(t) PROVE Kinds'
    <2>1. \A x \in Task \ {t} : task'[x] = task[x]
        BY <1>3, FlushTask
    <2>2. /\ ~ InRequest(t)'
          /\ \/ task'[t] = Idle \/ task'[t].pc = "sync"
             \/ task'[t].slabs = task[t].slabs /\ task[t].slabs = {}
             \/ ReadCleared(t) /\ task'[t].slabs = task[t].slabs
        BY <1>3, FlushTask
    <2>3. ReadCleared(t) => task[t].slabs = {}
        BY DEF ReadCleared, Kinds
    <2>4. task'[t].pc # "unmap" /\ (task'[t].pc \in {"forget", "clear"} => task'[t].slabs = {})
        BY <2>2, <2>3 DEF InRequest, Idle
    <2>5. QED
        BY <2>1, <2>4 DEF Kinds
<1>4. CASE Others
    BY <1>4, OthersLeave DEF Kinds
<1>5. ASSUME NEW absent, PowerCut(absent) PROVE Kinds'
    <2>1. \A x \in Task : task'[x] = Idle
        BY <1>5 DEF PowerCut
    <2>2. QED
        BY <2>1 DEF Kinds, Idle
<1>6. CASE UNCHANGED vars
    BY <1>6 DEF vars, Kinds
<1>7. QED
    BY <1>1, <1>2, <1>3, <1>4, <1>5, <1>6, NextKinds

\* What the steps of requests and flushes do to the start.
LEMMA TasksLeaveStart ==
    ASSUME NEW t \in Task
    PROVE  Advances(t) \/ Flushes(t) => todo' = todo
<1>1. Advances(t) => todo' = todo
    BY Zenon DEF Advances, ReadMarks, LandMarks, WriteData, DiesInWrite, Unmap, UpdateParity, NewGroup, DropGroup
<1>2. Flushes(t) => todo' = todo
    <2>1. BeginFlush(t) \/ FlushFails(t) \/ ClearMarks(t) \/ ReadCleared(t) \/ LandCleared(t) => todo' = todo
        BY DEF BeginFlush, FlushFails, ClearMarks, ReadCleared, LandCleared
    <2>2. (\E k \in Slab : SyncSlab(t, k)) => todo' = todo
        BY DEF SyncSlab
    <2>3. QED
        BY <2>1, <2>2 DEF Flushes
<1>3. QED
    BY <1>1, <1>2

\* A start has the volume to itself until it is through.
LEMMA StartsNext == StateOK /\ TablesInv /\ Starts /\ [Next]_vars => Starts'
<1> SUFFICES ASSUME StateOK, TablesInv, Starts, [Next]_vars PROVE Starts'
    OBVIOUS
<1>1. ASSUME Serving, todo' = todo PROVE Starts'
    BY <1>1 DEF Starts, Serving
<1>2. ASSUME NEW t \in Task, NEW s \in Stripe, NEW i \in Member, BeginWrite(t, s, i) \/ BeginDiscard(t, s, i) PROVE Starts'
    BY <1>1, <1>2, Begun
<1>3. ASSUME NEW t \in Task, Advances(t) \/ Flushes(t) PROVE Starts'
    BY <1>1, <1>3, OnlyServed, TasksLeaveStart
<1>4. ASSUME task' = task, file' = file, ~ Serving => todo' \subseteq todo, Serving => todo' = todo PROVE Starts'
    BY <1>4 DEF Starts, Serving
<1>5. CASE Others
    <2>1. ASSUME NEW s \in Stripe, Resync(s) PROVE Starts'
        BY <1>1, <2>1 DEF Resync
    <2>2. ASSUME NEW s \in Stripe, Verify(s) PROVE Starts'
        BY <1>4, <2>2 DEF Verify, logVars
    <2>3. ASSUME NEW k \in Slab, SyncByOther(k) PROVE Starts'
        BY <1>4, <2>3 DEF SyncByOther, logVars
    <2>4. ASSUME NEW k \in Slab, SlabDies(k) PROVE Starts'
        BY <1>4, <2>4 DEF SlabDies, logVars
    <2>5. CASE Verified
        BY <2>5 DEF Verified, Starts, Serving
    <2>6. ASSUME NEW k \in Slab, PersistSync(k) PROVE Starts'
        BY <1>4, <2>6 DEF PersistSync, logVars
    <2>7. CASE TakeRecord \/ WriteRecord
        BY <1>4, <2>7 DEF TakeRecord, WriteRecord, logVars
    <2>8. QED
        BY <1>5, <2>1, <2>2, <2>3, <2>4, <2>5, <2>6, <2>7 DEF Others
<1>6. ASSUME NEW absent, PowerCut(absent) PROVE Starts'
    <2>1. PICK marks \in file.may : file' = Durable(marks) /\ todo' = marks /\ task' = [t \in Task |-> Idle]
        BY <1>6 DEF PowerCut
    <2>2. file'.cur = marks /\ \A t \in Task : task'[t] = Idle
        BY <2>1 DEF Durable
    <2>3. QED
        BY <2>1, <2>2 DEF Starts
<1>7. CASE UNCHANGED vars
    BY <1>4, <1>7 DEF vars
<1>8. QED
    BY <1>2, <1>3, <1>5, <1>6, <1>7, NextKinds

\* Steps that leave the log's file.
LEMMA FileLeft ==
    ASSUME NEW t \in Task
    PROVE  /\ Advances(t) => LandMarks(t) \/ (file' = file /\ dirty' = dirty /\ unlogged \subseteq unlogged')
           /\ Flushes(t) => \/ LandCleared(t)
                            \/ file' = file /\ dirty' \subseteq dirty /\ (unlogged' = unlogged \/ (dirty' = dirty /\ Excuse))
<1>1. Advances(t) => LandMarks(t) \/ (file' = file /\ dirty' = dirty /\ unlogged \subseteq unlogged')
    BY Zenon DEF Advances, ReadMarks, WriteData, DiesInWrite, Unmap, UpdateParity, NewGroup, DropGroup, logVars, histVars
<1>2. ASSUME Flushes(t), ~ LandCleared(t)
      PROVE  file' = file /\ dirty' \subseteq dirty /\ (unlogged' = unlogged \/ (dirty' = dirty /\ Excuse))
    <2>1. CASE BeginFlush(t) \/ FlushFails(t) \/ ClearMarks(t) \/ ReadCleared(t)
        BY <2>1 DEF BeginFlush, FlushFails, ClearMarks, ReadCleared, histVars, logVars
    <2>2. CASE \E k \in Slab : SyncSlab(t, k)
        BY <2>2 DEF SyncSlab, logVars
    <2>3. QED
        BY <1>2, <2>1, <2>2 DEF Flushes
<1>3. QED
    BY <1>1, <1>2

\* What lands in the file.
LEMMA LandsDurable ==
    ASSUME StateOK, NEW set, file' = Landed(set)
    PROVE  file'.cur # {} => file'.may = {file'.cur}
BY DEF Landed, Durable, Put

\* A file that names a stripe is durable.
LEMMA FilesNext == StateOK /\ TablesInv /\ Files /\ [Next]_vars => Files'
<1> SUFFICES ASSUME StateOK, TablesInv, Files, [Next]_vars PROVE Files'
    OBVIOUS
<1>1. ASSUME file' = file PROVE Files'
    BY <1>1 DEF Files
<1>2. ASSUME NEW set, file' = Landed(set) PROVE Files'
    BY <1>2, LandsDurable DEF Files
<1>3. ASSUME NEW t \in Task, NEW s \in Stripe, NEW i \in Member, BeginWrite(t, s, i) \/ BeginDiscard(t, s, i) PROVE Files'
    BY <1>1, <1>3, Begun
<1>4. ASSUME NEW t \in Task, LandMarks(t) \/ LandCleared(t) PROVE Files'
    BY <1>1, <1>2, <1>4 DEF LandMarks, LandCleared
<1>5. ASSUME NEW t \in Task, Advances(t) \/ Flushes(t) PROVE Files'
    BY <1>1, <1>4, <1>5, FileLeft
<1>6. CASE Others
    <2>1. (\E set : file' = Landed(set)) \/ file' = file
        BY <1>6
           DEF Others, Resync, Verify, SyncByOther, SlabDies, PersistSync, TakeRecord, WriteRecord, Verified, logVars
    <2>2. QED
        BY <1>1, <1>2, <2>1
<1>7. ASSUME NEW absent, PowerCut(absent) PROVE Files'
    BY <1>7 DEF PowerCut, Files, Durable
<1>8. CASE UNCHANGED vars
    BY <1>1, <1>8 DEF vars
<1>9. QED
    BY <1>3, <1>5, <1>6, <1>7, <1>8, NextKinds

\* When a file lands, what it does not name and needs its mark is excused, and so is
\* a marked stripe nobody is at.
LEMMA LandsMarked ==
    ASSUME StateOK, Overtaken, dirty' = dirty
    PROVE  Marks'
<1> SUFFICES ASSUME NEW s \in dirty, ~ Logged(s)'
             PROVE  \E t \in Task : task'[t].pc \in {"persist", "land"} /\ task'[t].s = s
    BY DEF Marks
<1>1. s \in Stripe
    BY DEF StateOK
<1>2. ~ Needed(s)' /\ ~ Free(s)'
    BY <1>1 DEF Overtaken, Logged
<1>3. PICK t \in Task : task'[t].pc \in {"persist", "land", "data", "unmap", "parity"} /\ task'[t].s = s
    BY <1>2 DEF Free, Holds
<1>4. ~ (task'[t].pc \in {"data", "unmap", "parity"} /\ task'[t].s = s)
    BY <1>2 DEF Needed
<1>5. QED
    BY <1>3, <1>4

\* Every step keeps marked stripes logged, or about to be.
LEMMA MarksNext == StateOK /\ TablesInv /\ Marks /\ [Next]_vars => Marks'
<1> SUFFICES ASSUME StateOK, TablesInv, Marks, [Next]_vars PROVE Marks'
    OBVIOUS
<1>1. ASSUME file' = file, dirty' \subseteq dirty, unlogged \subseteq unlogged' \/ (dirty' = dirty /\ Excuse),
             \A t \in Task : task[t].pc \in {"persist", "land"} => task'[t].pc \in {"persist", "land"} /\ task'[t].s = task[t].s
      PROVE  Marks'
    <2> SUFFICES ASSUME NEW s \in dirty', ~ Logged(s)' PROVE \E t \in Task : task'[t].pc \in {"persist", "land"} /\ task'[t].s = s
        BY DEF Marks
    <2>1. ~ Logged(s)
        BY <1>1 DEF Logged, Excuse
    <2>2. PICK t \in Task : task[t].pc \in {"persist", "land"} /\ task[t].s = s
        BY <1>1, <2>1 DEF Marks
    <2>3. QED
        BY <1>1, <2>2
<1>2. ASSUME NEW t \in Task, NEW s \in Stripe, NEW i \in Member, BeginWrite(t, s, i) \/ BeginDiscard(t, s, i) PROVE Marks'
    <2>1. PICK v : Begins(t, s, i, v)
        BY <1>2, Begun
    <2>2. /\ task[t] = Idle /\ task'[t].pc \in {"persist", "data", "unmap"} /\ (task'[t].pc = "data" => s \in dirty)
          /\ dirty' = IF task'[t].pc = "unmap" THEN dirty ELSE dirty \cup {s}
          /\ file' = file /\ unlogged' = unlogged
        BY <1>2, Begun
    <2>3. task'[t].s = s /\ \A x \in Task \ {t} : ~ Flushing(x) => task'[x] = task[x]
        BY <2>1 DEF Begins
    <2>4. \A x \in Task : task[x].pc \in {"persist", "land"} => task'[x].pc \in {"persist", "land"} /\ task'[x].s = task[x].s
        BY <2>2, <2>3 DEF Flushing, Idle
    <2>5. CASE task'[t].pc # "persist"
        BY <1>1, <2>2, <2>4, <2>5
    <2>6. CASE task'[t].pc = "persist"
        <3> SUFFICES ASSUME NEW r \in dirty', ~ Logged(r)' PROVE \E x \in Task : task'[x].pc \in {"persist", "land"} /\ task'[x].s = r
            BY DEF Marks
        <3>1. CASE r = s
            BY <2>3, <2>6, <3>1
        <3>2. CASE r # s
            <4>1. r \in dirty /\ ~ Logged(r)
                BY <2>2, <3>2 DEF Logged
            <4>2. QED
                BY <2>4, <4>1 DEF Marks
        <3>3. QED
            BY <3>1, <3>2
    <2>7. QED
        BY <2>5, <2>6
<1>3. ASSUME NEW t \in Task, LandMarks(t) PROVE Marks'
    BY <1>3, LandsMarked DEF LandMarks
<1>4. ASSUME NEW t \in Task, LandCleared(t) PROVE Marks'
    BY <1>4, LandsMarked DEF LandCleared
<1>5. ASSUME NEW t \in Task, Advances(t), ~ LandMarks(t) PROVE Marks'
    <2>1. file' = file /\ dirty' = dirty /\ unlogged \subseteq unlogged'
        BY <1>5, FileLeft
    <2>2. InRequest(t) /\ \A x \in Task \ {t} : task'[x] = task[x]
        BY <1>5, AdvanceTask
    <2>3. task[t].pc \in {"persist", "land"} => ReadMarks(t)
        BY Zenon, <1>5 DEF Advances, LandMarks, WriteData, DiesInWrite, Unmap, UpdateParity, NewGroup, DropGroup
    <2>4. ReadMarks(t) => task'[t].pc = "land" /\ task'[t].s = task[t].s
        <3> SUFFICES ASSUME ReadMarks(t) PROVE task'[t].pc = "land" /\ task'[t].s = task[t].s
            OBVIOUS
        <3>1. task[t].pc = "persist"
            BY DEF ReadMarks
        <3>2. ~ WriteData(t) /\ ~ Unmap(t) /\ ~ LandMarks(t)
            BY <3>1 DEF WriteData, Unmap, LandMarks
        <3>3. QED
            BY <1>5, <3>2, AdvanceTask
    <2>5. QED
        BY <1>1, <2>1, <2>2, <2>3, <2>4
<1>6. ASSUME NEW t \in Task, Flushes(t), ~ LandCleared(t) PROVE Marks'
    <2>1. file' = file /\ dirty' \subseteq dirty /\ (unlogged \subseteq unlogged' \/ (dirty' = dirty /\ Excuse))
        BY <1>6, FileLeft
    <2>2. ~ InRequest(t) /\ \A x \in Task \ {t} : task'[x] = task[x]
        BY <1>6, FlushTask
    <2>3. \A x \in Task : task[x].pc \in {"persist", "land"} => task'[x].pc \in {"persist", "land"} /\ task'[x].s = task[x].s
        BY <2>2 DEF InRequest
    <2>4. QED
        BY <1>1, <2>1, <2>3
<1>7. CASE Others
    <2>1. CASE Verified
        BY <2>1 DEF Verified, Marks
    <2>2. CASE ~ Verified
        <3>1. file' = file /\ dirty' = dirty /\ (unlogged' = unlogged \/ Excuse) /\ task' = task
            BY <1>7, <2>2
            DEF Others, Resync, Verify, SyncByOther, SlabDies, PersistSync, TakeRecord, WriteRecord, logVars, histVars
        <3>2. QED
            BY <1>1, <3>1
    <2>3. QED
        BY <2>1, <2>2
<1>8. ASSUME NEW absent, PowerCut(absent) PROVE Marks'
    <2>1. \E marks \in file.may : file' = Durable(marks) /\ dirty' = marks
        BY <1>8 DEF PowerCut
    <2>2. QED
        BY <2>1 DEF Marks, Logged, Durable
<1>9. CASE UNCHANGED vars
    BY <1>1, <1>9 DEF vars
<1>10. QED
    BY <1>2, <1>3, <1>4, <1>5, <1>6, <1>7, <1>8, <1>9, NextKinds

\* Every step keeps the books.
LEMMA BookNext == StateOK /\ TablesInv /\ Locked /\ Book /\ [Next]_vars => Book'
BY HomesNext, BasesNext, WantsNext, KindsNext, StartsNext, FilesNext, MarksNext DEF Book

-----------------------------------------------------------------------------
(* A stripe: what it holds, what a cut keeps, what the log need not say     *)

\* A start has verified the stripe, or need not.
Known(s) == Serving \/ s \notin todo

\* The parity a cut leaves is D's.
ParityKept(s, D) == disk[s][P] # None /\ Good(disk[s][P]) => cell[disk[s][P]][s][P].may = {Xor(D)}

\* The stripe's contents are D: each may be read, the members hold it and so does the
\* parity, but for the change a request has yet to fold in; a stripe that is not
\* logged has the same parity after a cut.
Sound(s, D) ==
    /\ \A i \in Member : D[i] \in allow[s][i]
    /\ Members(s, D)
    /\ \A t \in Task : AtParity(t, s) => /\ D[task[t].i] = task[t].v
                                         /\ ParityIs(s, [D EXCEPT ![task[t].i] = task[t].old])
    /\ Known(s) /\ (\A t \in Task : ~ AtParity(t, s)) => ParityIs(s, D)
    /\ ~ Logged(s) => ParityKept(s, D)

\* The slot a start finds a member in, unless it sets the member back.
Found(s, i) == disk[s][i] # None /\ disk[s][i] \notin dead /\ (leg[s][i] = disk[s][i] \/ dead = {})

\* Whatever a cut leaves of a member is kept; and once a flush has been at the
\* member's slab, it is among what the flush will keep.
KeptAt(s, i) ==
    /\ Found(s, i) => cell[disk[s][i]][s][i].may \subseteq keep[s][i]
    /\ dead = {} /\ leg[s][i] # disk[s][i] => Blank \in keep[s][i]
    /\ \A t \in Task : Flushing(t) /\ Blank \notin task[t].base[s][i] /\ leg[s][i] \notin task[t].slabs =>
          /\ dead = {} => leg[s][i] = disk[s][i]
          /\ Found(s, i) => cell[disk[s][i]][s][i].may \subseteq task[t].base[s][i]
Kept(s) == \A i \in Member : KeptAt(s, i)

\* Nobody is changing the stripe, and a cut leaves its members as they are.
Calm(s) ==
    /\ ~ Changing(s)
    /\ \A i \in Member : /\ leg[s][i] # disk[s][i] => dead # {}
                         /\ leg[s][i] = disk[s][i] /\ leg[s][i] # None /\ leg[s][i] \notin dead =>
                              cell[leg[s][i]][s][i].may = {cell[leg[s][i]][s][i].cur}

StripeInv(s) == Whole(s) => /\ \E D \in [Member -> Content] : Sound(s, D)
                            /\ Kept(s)
                            /\ ~ Logged(s) => Calm(s)

\* What a step leaves of stripe r.
LegStays(r, i) == /\ leg'[r][i] = leg[r][i] /\ disk'[r][i] = disk[r][i]
                  /\ \A k \in Slab : cell'[k][r][i] = cell[k][r][i]
MembersStay(r) == \A i \in Member : LegStays(r, i)
ParityStays(r) == LegStays(r, P)
FlushersStay(r) == \A x \in Task : Flushing(x)' => /\ Flushing(x) /\ task[x].slabs \subseteq task'[x].slabs
                                                   /\ \A i \in Member : task[x].base[r][i] \subseteq task'[x].base[r][i]
ParityTasksStay(r) == \A x \in Task : /\ AtParity(x, r)' <=> AtParity(x, r)
                                      /\ AtParity(x, r) => /\ task'[x].i = task[x].i /\ task'[x].v = task[x].v
                                                           /\ task'[x].old = task[x].old
MayStillRead(r) == \A i \in Member : allow[r][i] \subseteq allow'[r][i]
MayStillKeep(r) == \A i \in Member : keep[r][i] \subseteq keep'[r][i]
LoggedStays(r) == Logged(r)' \/ ~ Logged(r) \/ (~ Needed(r)' /\ Known(r)')

\* The contents stay when the slots do.
LEMMA SoundFrame ==
    ASSUME StateOK, StateOK', NEW r \in Stripe, NEW D \in [Member -> Content], Sound(r, D), MembersStay(r), ParityStays(r),
           failed \subseteq failed', dead \subseteq dead', ParityTasksStay(r), MayStillRead(r), Known(r)' => Known(r), LoggedStays(r)
    PROVE  Sound(r, D)'
<1>1. P \in Leg /\ leg[r][P] \in Slab \cup {None} /\ disk[r][P] \in Slab \cup {None}
    BY Legs DEF StateOK, Map
<1>2. \A i \in Member : leg[r][i] \in Slab \cup {None}
    BY Legs DEF StateOK, Map
<1>3. \A i \in Member : D[i] \in allow'[r][i]
    BY DEF Sound, MayStillRead
<1>4. Members(r, D)'
    <2>1. Members(r, D)
        BY DEF Sound
    <2>2. QED
        BY <1>2, <2>1 DEF Members, MembersStay, LegStays
<1>5. ASSUME NEW E, ParityIs(r, E) PROVE ParityIs(r, E)'
    BY <1>1, <1>5 DEF ParityIs, ParityStays, LegStays, Good
<1>6. ASSUME NEW t \in Task, AtParity(t, r)'
      PROVE  D[task'[t].i] = task'[t].v /\ ParityIs(r, [D EXCEPT ![task[t].i] = task[t].old])'
    <2>1. AtParity(t, r) /\ task'[t].i = task[t].i /\ task'[t].v = task[t].v /\ task'[t].old = task[t].old
        BY <1>6 DEF ParityTasksStay
    <2>2. D[task[t].i] = task[t].v /\ ParityIs(r, [D EXCEPT ![task[t].i] = task[t].old])
        BY <2>1 DEF Sound
    <2>3. PICK E : E = [D EXCEPT ![task[t].i] = task[t].old]
        OBVIOUS
    <2>4. ParityIs(r, E)'
        BY <1>5, <2>2, <2>3
    <2>5. QED
        BY <2>1, <2>2, <2>3, <2>4 DEF ParityIs
<1>7. ASSUME Known(r)', \A t \in Task : ~ AtParity(t, r)' PROVE ParityIs(r, D)'
    <2>1. \A t \in Task : ~ AtParity(t, r)
        BY <1>7 DEF ParityTasksStay
    <2>2. ParityIs(r, D)
        BY <1>7, <2>1 DEF Sound
    <2>3. QED
        BY <1>5, <2>2
<1>8. ASSUME ~ Logged(r)' PROVE ParityKept(r, D)'
    <2>1. CASE ~ Logged(r)
        <3>1. ParityKept(r, D)
            BY <2>1 DEF Sound
        <3>2. QED
            BY <1>1, <3>1 DEF ParityKept, ParityStays, LegStays, Good
    <2>2. CASE ~ Needed(r)' /\ Known(r)'
        <3>1. \A t \in Task : ~ AtParity(t, r)'
            BY <2>2 DEF Needed, AtParity
        <3>2. ParityIs(r, D)'
            BY <1>7, <2>2, <3>1
        <3>3. Settled(r)'
            BY <2>2 DEF Needed
        <3>4. leg'[r][P] = disk'[r][P] /\ (leg'[r][P] # None => LET c == cell'[leg'[r][P]][r][P] IN c.may = {c.cur})
            BY <1>1, <3>3 DEF Settled
        <3>5. QED
            BY <3>2, <3>4 DEF ParityIs, ParityKept, Good
    <2>3. QED
        BY <1>8, <2>1, <2>2 DEF LoggedStays
<1>9. QED
    BY <1>3, <1>4, <1>6, <1>7, <1>8 DEF Sound

\* What is kept stays when the members do.
LEMMA KeptFrame ==
    ASSUME StateOK, NEW r \in Stripe, NEW i \in Member, KeptAt(r, i), LegStays(r, i), dead \subseteq dead', FlushersStay(r), MayStillKeep(r)
    PROVE  KeptAt(r, i)'
<1>1. leg'[r][i] = leg[r][i] /\ disk'[r][i] = disk[r][i] /\ \A k \in Slab : cell'[k][r][i] = cell[k][r][i]
    BY DEF LegStays
<1>2. disk[r][i] \in Slab \cup {None}
    BY Legs DEF StateOK, Map
<1>3. Found(r, i)' => Found(r, i) /\ cell'[disk'[r][i]][r][i] = cell[disk[r][i]][r][i]
    BY <1>1, <1>2 DEF Found
<1>4. dead' = {} => dead = {}
    OBVIOUS
<1>5. keep[r][i] \subseteq keep'[r][i]
    BY DEF MayStillKeep
<1>6. ASSUME NEW t \in Task, Flushing(t)', Blank \notin task'[t].base[r][i], leg'[r][i] \notin task'[t].slabs
      PROVE  /\ dead' = {} => leg'[r][i] = disk'[r][i]
             /\ Found(r, i)' => cell'[disk'[r][i]][r][i].may \subseteq task'[t].base[r][i]
    <2>1. Flushing(t) /\ task[t].slabs \subseteq task'[t].slabs /\ task[t].base[r][i] \subseteq task'[t].base[r][i]
        BY <1>6 DEF FlushersStay
    <2>2. Blank \notin task[t].base[r][i] /\ leg[r][i] \notin task[t].slabs
        BY <1>1, <1>6, <2>1
    <2>3. /\ dead = {} => leg[r][i] = disk[r][i]
          /\ Found(r, i) => cell[disk[r][i]][r][i].may \subseteq task[t].base[r][i]
        BY <2>1, <2>2 DEF KeptAt
    <2>4. QED
        BY <1>1, <1>3, <1>4, <2>1, <2>3
<1>7. /\ Found(r, i) => cell[disk[r][i]][r][i].may \subseteq keep[r][i]
      /\ dead = {} /\ leg[r][i] # disk[r][i] => Blank \in keep[r][i]
    BY DEF KeptAt
<1>8. QED
    BY <1>1, <1>3, <1>4, <1>5, <1>6, <1>7 DEF KeptAt

\* A stripe stays calm while its members stay and nobody comes to change it, and is
\* calm when it needs no mark.
LEMMA CalmFrame ==
    ASSUME StateOK, StateOK', NEW r \in Stripe, ~ Logged(r)', ~ Logged(r) => Calm(r), MembersStay(r), dead \subseteq dead',
           Changing(r)' => Changing(r) \/ Logged(r)', LoggedStays(r)
    PROVE  Calm(r)'
<1>1. CASE ~ Logged(r)
    <2>1. \A i \in Member : leg[r][i] \in Slab \cup {None}
        BY Legs DEF StateOK, Map
    <2>2. Calm(r)
        BY <1>1
    <2>3. ~ Changing(r)'
        BY <2>2 DEF Calm
    <2>4. QED
        BY <2>1, <2>2, <2>3 DEF Calm, MembersStay, LegStays
<1>2. CASE ~ Needed(r)'
    <2>1. ~ Changing(r)'
        BY <1>2 DEF Needed, Changing
    <2>2. Settled(r)'
        BY <1>2 DEF Needed
    <2>3. \A i \in Member : leg'[r][i] = disk'[r][i] /\ (leg'[r][i] # None => LET c == cell'[leg'[r][i]][r][i] IN c.may = {c.cur})
        BY <2>2, Legs DEF Settled
    <2>4. QED
        BY <2>1, <2>3 DEF Calm
<1>3. QED
    BY <1>1, <1>2 DEF LoggedStays

\* A stripe a step leaves alone.
LEMMA StripeFrame ==
    ASSUME StateOK, StateOK', NEW r \in Stripe, StripeInv(r), Content \subseteq Content', MembersStay(r), ParityStays(r),
           failed \subseteq failed', dead \subseteq dead', holed \subseteq holed', dropped \subseteq dropped',
           FlushersStay(r), ParityTasksStay(r), Changing(r)' => Changing(r) \/ Logged(r)',
           MayStillRead(r), MayStillKeep(r), Known(r)' => Known(r), LoggedStays(r)
    PROVE  StripeInv(r)'
<1> SUFFICES ASSUME Whole(r)'
             PROVE  /\ (\E D \in [Member -> Content] : Sound(r, D))'
                    /\ Kept(r)'
                    /\ (~ Logged(r) => Calm(r))'
    BY DEF StripeInv
<1>1. Whole(r)
    BY DEF Whole
<1>2. PICK D \in [Member -> Content] : Sound(r, D)
    BY <1>1 DEF StripeInv
<1>3. D \in [Member -> Content'] /\ Sound(r, D)'
    BY <1>2, SoundFrame
<1>4. Kept(r)'
    BY <1>1, KeptFrame DEF StripeInv, Kept, MembersStay
<1>5. (~ Logged(r) => Calm(r))'
    BY <1>1, CalmFrame DEF StripeInv
<1>6. QED
    BY <1>3, <1>4, <1>5

\* A step of a request changes one slot and one leg of its stripe at most.
OneSlot(s) ==
    /\ cell' = cell \/ \E k \in Slab, i \in Leg : \E c : cell' = [cell EXCEPT ![k][s][i] = c]
    /\ leg' = leg \/ \E i \in Leg : \E to : leg' = [leg EXCEPT ![s][i] = to]
    /\ disk' = disk

\* Other stripes are as they were.
LEMMA OtherSlots ==
    ASSUME StateOK, NEW s \in Stripe, OneSlot(s), NEW r \in Stripe, r # s
    PROVE  MembersStay(r) /\ ParityStays(r)
<1>1. \A k \in Slab, i \in Leg : cell'[k][r][i] = cell[k][r][i]
    BY DEF OneSlot, StateOK, Slots
<1>2. \A i \in Leg : leg'[r][i] = leg[r][i] /\ disk'[r][i] = disk[r][i]
    BY DEF OneSlot, StateOK, Map
<1>3. QED
    BY <1>1, <1>2, Legs DEF MembersStay, ParityStays, LegStays

\* A request leaves the flushes, and the requests on other stripes.
LEMMA AdvanceElse ==
    ASSUME StateOK, NEW t \in Task, Advances(t), NEW r \in Stripe
    PROVE  /\ FlushersStay(r)
           /\ r # task[t].s => ParityTasksStay(r) /\ (Changing(r)' => Changing(r))
           /\ task'[t] = Idle /\ task[t].pc # "parity" => ParityTasksStay(r) /\ (Changing(r)' => Changing(r))
<1>1. \A x \in Task \ {t} : task'[x] = task[x]
    BY AdvanceTask
<1>2. ~ Flushing(t)'
    BY AdvanceTask DEF Flushing, Idle
<1>3. FlushersStay(r)
    BY <1>1, <1>2 DEF FlushersStay, Flushing
<1>4. ASSUME r # task[t].s PROVE ParityTasksStay(r) /\ (Changing(r)' => Changing(r))
    <2>1. ~ AtParity(t, r) /\ (task'[t] = Idle \/ task'[t].s # r)
        BY <1>4, AdvanceTask DEF AtParity
    <2>2. ~ AtParity(t, r)' /\ ~ (task'[t].pc \in {"data", "parity"} /\ task'[t].s = r)
        BY <2>1 DEF AtParity, Idle
    <2>3. QED
        BY <1>1, <2>1, <2>2 DEF ParityTasksStay, AtParity, Changing
<1>5. ASSUME task'[t] = Idle, task[t].pc # "parity" PROVE ParityTasksStay(r) /\ (Changing(r)' => Changing(r))
    <2>1. ~ AtParity(t, r) /\ ~ AtParity(t, r)' /\ ~ (task'[t].pc \in {"data", "parity"} /\ task'[t].s = r)
        BY <1>5 DEF AtParity, Idle
    <2>2. QED
        BY <1>1, <2>1 DEF ParityTasksStay, AtParity, Changing
<1>6. QED
    BY <1>3, <1>4, <1>5

\* What the steps of a request, the landing of marks aside, leave.
LEMMA AdvanceLeaves ==
    ASSUME StateOK, NEW t \in Task, Advances(t)
    PROVE  /\ OneSlot(task[t].s) /\ ticket' = ticket /\ keep' = keep /\ holed' = holed /\ dropped' = dropped /\ todo' = todo
           /\ failed \subseteq failed' /\ dead \subseteq dead' /\ attached' = attached
<1>1. task[t].s \in Stripe /\ task[t].i \in Leg /\ P \in Leg
    BY AdvanceTask, RequestTyped, Legs DEF InRequest
<1>2. CASE ReadMarks(t) \/ LandMarks(t)
    BY <1>2 DEF ReadMarks, LandMarks, OneSlot, mapVars, slabVars, histVars
<1>3. CASE WriteData(t)
    <2> DEFINE s == task[t].s
               i == task[t].i
    <2>1. \/ UNCHANGED <<cell, leg>>
          \/ \E to \in Slab : /\ cell' = [cell EXCEPT ![to][s][i] = Put(@, task[t].v)]
                              /\ leg' = [leg EXCEPT ![s][i] = to]
        <3>1. \A to \in Apart(s, i) : to \in Slab
            BY DEF Apart, StateOK
        <3>2. leg[s][i] # None => leg[s][i] \in Slab
            BY <1>1 DEF StateOK, Map
        <3>3. QED
            BY Zenon, <1>3, <3>1, <3>2 DEF WriteData
    <2>2. OneSlot(s)
        <3>1. disk' = disk
            BY Zenon, <1>3 DEF WriteData
        <3> HIDE DEF s, i
        <3>2. i \in Leg
            BY <1>1 DEF i
        <3>3. QED
            BY <2>1, <3>1, <3>2 DEF OneSlot
    <2>3. QED
        BY Zenon, <1>3, <2>2 DEF WriteData, histVars
<1>4. CASE DiesInWrite(t)
    BY <1>4 DEF DiesInWrite, OneSlot, mapVars, histVars
<1>5. CASE Unmap(t)
    BY <1>1, <1>5 DEF Unmap, OneSlot
<1>6. CASE UpdateParity(t)
    <2> DEFINE s == task[t].s
               k == leg[s][P]
    <2>1. k \in Slab
        <3>1. leg \in Map
            BY DEF StateOK
        <3>2. k # None
            BY Zenon, <1>6 DEF UpdateParity
        <3>3. k \in Slab \cup {None}
            BY <1>1, <3>1 DEF Map
        <3>4. QED
            BY <3>2, <3>3
    <2>2. cell' = cell \/ cell' = [cell EXCEPT ![k][s][P] = Put(@, Xor(<<@.cur, task[t].old, task[t].v>>))]
        BY Zenon, <1>6 DEF UpdateParity
    <2>3. leg' = leg /\ disk' = disk
        BY Zenon, <1>6 DEF UpdateParity, mapVars
    <2>4. OneSlot(s)
        BY Zenon, <1>1, <2>1, <2>2, <2>3 DEF OneSlot
    <2>5. QED
        BY Zenon, <1>6, <2>4 DEF UpdateParity
<1>7. CASE NewGroup(t)
    <2> DEFINE s == task[t].s
    <2>1. \/ UNCHANGED <<cell, leg>>
          \/ \E to \in Slab : /\ cell' = [cell EXCEPT ![to][s][P] = Put(@, Xor(Assemble(s)))]
                              /\ leg' = [leg EXCEPT ![s][P] = to]
        BY <1>7 DEF NewGroup, Apart, StateOK
    <2>2. disk' = disk
        BY <1>7 DEF NewGroup
    <2>3. OneSlot(s)
        <3>1. CASE UNCHANGED <<cell, leg>>
            BY <2>2, <3>1 DEF OneSlot
        <3>2. ASSUME NEW to \in Slab, cell' = [cell EXCEPT ![to][s][P] = Put(@, Xor(Assemble(s)))],
                     leg' = [leg EXCEPT ![s][P] = to]
              PROVE  OneSlot(s)
            BY <1>1, <2>2, <3>2 DEF OneSlot
        <3>3. QED
            BY <2>1, <3>1, <3>2
    <2>4. QED
        BY <1>7, <2>3 DEF NewGroup
<1>8. CASE DropGroup(t)
    BY <1>1, <1>8 DEF DropGroup, OneSlot, slabVars
<1>9. QED
    BY <1>2, <1>3, <1>4, <1>5, <1>6, <1>7, <1>8 DEF Advances

\* What all stripes have of the steps of a request.
LEMMA AdvanceAll ==
    ASSUME StateOK, StateOK', Wants, NEW t \in Task, Advances(t), NEW r \in Stripe
    PROVE  /\ Content' = Content /\ failed \subseteq failed' /\ dead \subseteq dead' /\ holed \subseteq holed' /\ dropped \subseteq dropped'
           /\ MayStillKeep(r) /\ (Known(r)' <=> Known(r))
           /\ ~ LandMarks(t) => file' = file /\ (Logged(r) => Logged(r)')
           /\ r # task[t].s => MayStillRead(r)
<1>1. ticket' = ticket /\ keep' = keep /\ todo' = todo /\ failed \subseteq failed' /\ dead \subseteq dead' /\ holed' = holed /\ dropped' = dropped
    BY AdvanceLeaves
<1>2. ~ LandMarks(t) => file' = file /\ unlogged \subseteq unlogged'
    BY FileLeft
<1>3. r # task[t].s => MayStillRead(r)
    <2>1. CASE allow' = allow
        BY <2>1 DEF MayStillRead
    <2>2. ASSUME \A s \in Stripe, i \in Member :
                    allow'[s][i] = IF s = task[t].s /\ i = task[t].i THEN {task[t].v} ELSE allow[s][i]
          PROVE  r # task[t].s => MayStillRead(r)
        BY <2>2 DEF MayStillRead
    <2>3. \/ allow' = allow
          \/ \A s \in Stripe, i \in Member :
                /\ allow'[s][i] = IF s = task[t].s /\ i = task[t].i THEN {task[t].v} ELSE allow[s][i]
                /\ allow'[s][i] \subseteq allow[s][i]
        BY AdvanceAllows
    <2>4. QED
        BY <2>1, <2>2, <2>3
<1>4. Content' = Content
    BY <1>1, SameTypes
<1>5. QED
    BY <1>1, <1>2, <1>3, <1>4 DEF MayStillKeep, Known, Serving, Logged

\* A request leaves other stripes alone.
LEMMA AdvanceOthers ==
    ASSUME StateOK, StateOK', Wants, NEW t \in Task, Advances(t), ~ LandMarks(t), NEW r \in Stripe, r # task[t].s, StripeInv(r)
    PROVE  StripeInv(r)'
<1>1. task[t].s \in Stripe
    BY AdvanceTask, RequestTyped DEF InRequest
<1>2. OneSlot(task[t].s)
    BY AdvanceLeaves
<1>3. MembersStay(r) /\ ParityStays(r)
    BY <1>1, <1>2, OtherSlots
<1>4. FlushersStay(r) /\ ParityTasksStay(r) /\ (Changing(r)' => Changing(r))
    BY AdvanceElse
<1>5. /\ Content' = Content /\ failed \subseteq failed' /\ dead \subseteq dead' /\ holed \subseteq holed' /\ dropped \subseteq dropped'
      /\ MayStillKeep(r) /\ (Known(r)' <=> Known(r)) /\ (Logged(r) => Logged(r)') /\ MayStillRead(r)
    BY AdvanceAll
<1>6. LoggedStays(r)
    BY <1>5 DEF LoggedStays
<1>7. QED
    BY <1>3, <1>4, <1>5, <1>6, StripeFrame

\* A request that ends before it changed anything leaves its stripe alone.
LEMMA NothingDone ==
    ASSUME StateOK, StateOK', Wants, NEW t \in Task, Advances(t), ~ LandMarks(t), task'[t] = Idle, task[t].pc # "parity",
           cell' = cell, leg' = leg, disk' = disk, NEW r \in Stripe, StripeInv(r)
    PROVE  StripeInv(r)'
<1>1. MembersStay(r) /\ ParityStays(r)
    BY DEF MembersStay, ParityStays, LegStays
<1>2. FlushersStay(r) /\ ParityTasksStay(r) /\ (Changing(r)' => Changing(r))
    BY AdvanceElse
<1>3. /\ Content' = Content /\ failed \subseteq failed' /\ dead \subseteq dead' /\ holed \subseteq holed' /\ dropped \subseteq dropped'
      /\ MayStillKeep(r) /\ (Known(r)' <=> Known(r)) /\ (Logged(r) => Logged(r)')
    BY AdvanceAll
<1>4. MayStillRead(r)
    <2>1. allow' = allow
        BY Zenon
           DEF Advances, ReadMarks, LandMarks, WriteData, DiesInWrite, Unmap, UpdateParity, NewGroup, DropGroup, histVars
    <2>2. QED
        BY <2>1 DEF MayStillRead
<1>5. LoggedStays(r)
    BY <1>3 DEF LoggedStays
<1>6. QED
    BY <1>1, <1>2, <1>3, <1>4, <1>5, StripeFrame

\* A request begins: the stripe is as it was.  One that goes on at once finds the
\* stripe marked, and nobody about to write the mark.
LEMMA BeginStripe ==
    ASSUME StateOK, StateOK', Marks, NEW t \in Task, NEW s \in Stripe, NEW i \in Member,
           BeginWrite(t, s, i) \/ BeginDiscard(t, s, i), NEW r \in Stripe, StripeInv(r)
    PROVE  StripeInv(r)'
<1>1. PICK v : Begins(t, s, i, v)
    BY Begun
<1>2. /\ task[t] = Idle /\ Free(s)
      /\ task'[t].pc \in {"persist", "data", "unmap"} /\ (task'[t].pc = "data" => s \in dirty)
      /\ cell' = cell /\ leg' = leg /\ disk' = disk /\ failed' = failed /\ dead' = dead
      /\ file' = file /\ todo' = todo /\ unlogged' = unlogged /\ holed' = holed /\ dropped' = dropped
    BY Begun
<1>3. MembersStay(r) /\ ParityStays(r)
    BY <1>2 DEF MembersStay, ParityStays, LegStays
<1>4. Content \subseteq Content'
    <2>1. CASE BeginWrite(t, s, i)
        BY <2>1, MoreContent DEF BeginWrite
    <2>2. CASE BeginDiscard(t, s, i)
        BY <2>2, SameTypes DEF BeginDiscard
    <2>3. QED
        BY <2>1, <2>2
<1>5. MayStillRead(r) /\ MayStillKeep(r)
    BY <1>1, ZenonT(60) DEF Begins, Widened, MayStillRead, MayStillKeep
<1>6. /\ task'[t].s = s
      /\ \A x \in Task \ {t} : ~ Flushing(x) => task'[x] = task[x]
      /\ \A x \in Task \ {t} : Flushing(x) => /\ task'[x].pc = task[x].pc /\ task'[x].slabs = task[x].slabs
                                              /\ Widened(task[x].base, task'[x].base, s, i, v)
    BY <1>1 DEF Begins
<1>7. FlushersStay(r)
    <2> SUFFICES ASSUME NEW x \in Task, Flushing(x)'
                 PROVE  Flushing(x) /\ task[x].slabs \subseteq task'[x].slabs /\ \A j \in Member : task[x].base[r][j] \subseteq task'[x].base[r][j]
        BY DEF FlushersStay
    <2>1. x # t
        BY <1>2 DEF Flushing
    <2>2. Flushing(x)
        BY <1>6, <2>1 DEF Flushing
    <2>3. Widened(task[x].base, task'[x].base, s, i, v) /\ task'[x].slabs = task[x].slabs
        BY <1>6, <2>1, <2>2
    <2>4. QED
        BY <2>2, <2>3 DEF Widened
<1>8. \A x \in Task \ {t} : task'[x] = task[x] \/ (task[x].pc \in {"sync", "forget", "clear"} /\ task'[x].pc = task[x].pc)
    BY <1>6 DEF Flushing
<1>9. ParityTasksStay(r)
    BY <1>2, <1>8 DEF ParityTasksStay, AtParity, Idle
<1>10. ASSUME Changing(r)' PROVE Changing(r) \/ Logged(r)'
    <2>1. PICK x \in Task : task'[x].pc \in {"data", "parity"} /\ task'[x].s = r
        BY <1>10 DEF Changing
    <2>2. CASE x # t
        BY <1>8, <2>1, <2>2 DEF Changing
    <2>3. CASE x = t
        <3>1. r = s /\ s \in dirty
            BY <1>2, <1>6, <2>1, <2>3
        <3>2. \A y \in Task : ~ (task[y].pc \in {"persist", "land"} /\ task[y].s = s)
            BY <1>2 DEF Free, Holds
        <3>3. Logged(s)
            BY <3>1, <3>2 DEF Marks
        <3>4. QED
            BY <1>2, <3>1, <3>3 DEF Logged
    <2>4. QED
        BY <2>2, <2>3
<1>11. LoggedStays(r) /\ (Known(r)' => Known(r))
    BY <1>2 DEF LoggedStays, Logged, Known, Serving
<1>12. QED
    BY <1>2, <1>3, <1>4, <1>5, <1>7, <1>9, <1>10, <1>11, StripeFrame

\* The marks are read, and land: a stripe the file does not name now is excused, or
\* needs no mark.
LEMMA MarkStripe ==
    ASSUME StateOK, StateOK', Wants, Starts, NEW t \in Task, ReadMarks(t) \/ LandMarks(t), NEW r \in Stripe, StripeInv(r)
    PROVE  StripeInv(r)'
<1>1. Advances(t) /\ cell' = cell /\ leg' = leg /\ disk' = disk /\ allow' = allow
    BY DEF Advances, ReadMarks, LandMarks, mapVars, histVars
<1>2. MembersStay(r) /\ ParityStays(r)
    BY <1>1 DEF MembersStay, ParityStays, LegStays
<1>3. /\ Content' = Content /\ failed \subseteq failed' /\ dead \subseteq dead' /\ holed \subseteq holed' /\ dropped \subseteq dropped'
      /\ MayStillKeep(r) /\ (Known(r)' <=> Known(r)) /\ (~ LandMarks(t) => (Logged(r) => Logged(r)'))
    BY <1>1, AdvanceAll
<1>4. FlushersStay(r) /\ MayStillRead(r)
    BY <1>1, AdvanceElse DEF MayStillRead
<1>5. task[t].pc \in {"persist", "land"}
    BY DEF ReadMarks, LandMarks
<1>6. ~ WriteData(t) /\ ~ Unmap(t) /\ (ReadMarks(t) => ~ LandMarks(t))
    BY <1>5 DEF WriteData, Unmap, ReadMarks, LandMarks
<1>7. /\ \A x \in Task \ {t} : task'[x] = task[x]
      /\ \/ ReadMarks(t) /\ task'[t].pc = "land"
         \/ LandMarks(t) /\ task'[t].pc = "data"
    BY <1>1, <1>6, AdvanceTask
<1>8. ParityTasksStay(r)
    BY <1>5, <1>7 DEF ParityTasksStay, AtParity
<1>9. CASE ReadMarks(t)
    <2>1. Changing(r)' => Changing(r)
        BY <1>6, <1>7, <1>9 DEF Changing
    <2>2. LoggedStays(r)
        BY <1>3, <1>6, <1>9 DEF LoggedStays
    <2>3. QED
        BY <1>2, <1>3, <1>4, <1>8, <2>1, <2>2, StripeFrame
<1>10. CASE LandMarks(t)
    <2>1. ASSUME Needed(r)' PROVE Logged(r)'
        BY <1>10, <2>1 DEF LandMarks, Overtaken, Logged
    <2>2. Changing(r)' => Logged(r)'
        BY <2>1 DEF Changing, Needed
    <2>3. Known(r)'
        BY <1>1, <1>3, OnlyServed DEF Known
    <2>4. LoggedStays(r)
        BY <2>1, <2>3 DEF LoggedStays
    <2>5. QED
        BY <1>2, <1>3, <1>4, <1>8, <2>2, <2>4, StripeFrame
<1>11. QED
    BY <1>9, <1>10

\* A request that works on a stripe has it alone.
LEMMA Alone ==
    ASSUME StateOK, Locked, NEW t \in Task, InRequest(t)
    PROVE  /\ task[t].s \in Stripe /\ task[t].i \in Member
           /\ \A x \in Task \ {t} : ~ AtParity(x, task[t].s) /\ ~ (InRequest(x) /\ task[x].s = task[t].s)
<1>1. task[t].s \in Stripe /\ task[t].i \in Member
    BY RequestTyped DEF InRequest
<1>2. QED
    BY <1>1 DEF Locked, Holds, InRequest, AtParity

\* Before its parity is changed, the stripe's parity is its members'.
LEMMA Consistent ==
    ASSUME StateOK, Locked, Starts, NEW t \in Task, Advances(t), NEW D \in [Member -> Content], Sound(task[t].s, D), task[t].pc # "parity"
    PROVE  ParityIs(task[t].s, D)
<1>1. InRequest(t)
    BY AdvanceTask
<1>2. \A x \in Task : ~ AtParity(x, task[t].s)
    BY <1>1, Alone DEF AtParity
<1>3. Known(task[t].s)
    BY OnlyServed DEF Known
<1>4. QED
    BY <1>2, <1>3 DEF Sound

\* A stripe whose request is between its data and the end is logged.
LEMMA ChangingIsLogged ==
    ASSUME StateOK, StateOK', Wants, NEW t \in Task, Advances(t), task[t].pc \in {"data", "parity"},
           NEW s \in Stripe, s = task[t].s, StripeInv(s), Whole(s)
    PROVE  Logged(s) /\ Logged(s)'
<1>1. Changing(s)
    BY DEF Changing
<1>2. Logged(s)
    BY <1>1 DEF StripeInv, Calm
<1>3. ~ LandMarks(t)
    BY DEF LandMarks
<1>4. QED
    BY <1>2, <1>3, AdvanceAll

\* The slots of a member that is written: in its place, or in another than a start
\* would find it in.
LEMMA WriteDataSlots ==
    ASSUME StateOK, TablesInv, Homes, NEW t \in Task, WriteData(t), task'[t] # Idle,
           NEW s \in Stripe, s = task[t].s, s \notin dropped, NEW i \in Member, i = task[t].i
    PROVE  \E to \in Slab :
              /\ \A k \in Slab, j \in Leg : cell'[k][s][j] = IF k = to /\ j = i THEN Put(cell[k][s][j], task[t].v) ELSE cell[k][s][j]
              /\ \A j \in Leg : leg'[s][j] = IF j = i THEN to ELSE leg[s][j]
              /\ disk' = disk /\ dead' = dead /\ to \notin dead
              /\ \/ to = leg[s][i] /\ i \notin Lost(s)
                 \/ leg[s][i] = None /\ to # disk[s][i] /\ i \notin Lost(s)
                 \/ leg[s][i] \in dead /\ to # disk[s][i] /\ to # leg[s][i] /\ Recoverable(s)
<1>1. i \in Leg /\ leg[s][i] \in Slab \cup {None}
    BY Legs DEF StateOK, Map
<1>2. ~ End(t)
    BY DEF End, StateOK
<1>3. PICK to : /\ \/ to = leg[s][i] /\ leg[s][i] # None /\ Answers(leg[s][i])
                   \/ /\ to \in Apart(s, i) /\ to \notin failed' \cup dead /\ ~ (leg[s][i] # None /\ Answers(leg[s][i]))
                      /\ leg[s][i] = None \/ Recoverable(s)
                /\ cell' = [cell EXCEPT ![to][s][i] = Put(@, task[t].v)]
                /\ leg' = [leg EXCEPT ![s][i] = to]
                /\ disk' = disk /\ dead' = dead
    BY Zenon, <1>2 DEF WriteData
<1>4. to \in Slab /\ to # None
    BY <1>1, <1>3, NoneAssumption DEF Apart, StateOK
<1>5. \A k \in Slab, j \in Leg : cell'[k][s][j] = IF k = to /\ j = i THEN Put(cell[k][s][j], task[t].v) ELSE cell[k][s][j]
    BY <1>1, <1>3, <1>4 DEF StateOK, Slots
<1>6. \A j \in Leg : leg'[s][j] = IF j = i THEN to ELSE leg[s][j]
    BY <1>1, <1>3 DEF StateOK, Map
<1>7. CASE to = leg[s][i] /\ leg[s][i] # None /\ Answers(leg[s][i])
    BY Zenon, <1>3, <1>4, <1>5, <1>6, <1>7 DEF Answers, Lost
<1>8. CASE leg[s][i] = None /\ to \in Apart(s, i) /\ to \notin dead
    <2>1. to # disk[s][i]
        BY <1>1, <1>4, <1>8 DEF Apart, TablesInv, Tabled
    <2>2. QED
        BY <1>3, <1>4, <1>5, <1>6, <1>8, <2>1 DEF Lost
<1>9. CASE leg[s][i] # None /\ ~ Answers(leg[s][i]) /\ to \in Apart(s, i) /\ to \notin dead /\ Recoverable(s)
    <2>1. leg[s][i] \in dead
        BY <1>9 DEF Homes, Home, Answers, Trusted
    <2>2. to # disk[s][i] /\ to # leg[s][i]
        BY <1>1, <1>4, <1>9, <2>1 DEF Apart, TablesInv, Tabled
    <2>3. QED
        BY Zenon, <1>3, <1>4, <1>5, <1>6, <1>9, <2>1, <2>2
<1>10. QED
    BY Zenon, <1>3, <1>7, <1>8, <1>9

\* What is kept of a member takes in what is written to it.
LEMMA WriteDataKept ==
    ASSUME StateOK, TablesInv, Book, NEW t \in Task, WriteData(t), task'[t] # Idle,
           NEW s \in Stripe, s = task[t].s, s \notin dropped, NEW D \in [Member -> Content], Sound(s, D), Kept(s)
    PROVE  Kept(s)'
<1>1. PICK i \in Member : i = task[t].i
    BY Zenon, RequestTyped DEF WriteData
<1>2. PICK v \in Content : v = task[t].v
    BY Zenon, RequestTyped DEF WriteData
<1>3. PICK to \in Slab :
         /\ \A k \in Slab, j \in Leg : cell'[k][s][j] = IF k = to /\ j = i THEN Put(cell[k][s][j], v) ELSE cell[k][s][j]
         /\ \A j \in Leg : leg'[s][j] = IF j = i THEN to ELSE leg[s][j]
         /\ disk' = disk /\ dead' = dead /\ to \notin dead
         /\ \/ to = leg[s][i] /\ i \notin Lost(s)
            \/ leg[s][i] = None /\ to # disk[s][i] /\ i \notin Lost(s)
            \/ leg[s][i] \in dead /\ to # disk[s][i] /\ to # leg[s][i] /\ Recoverable(s)
    BY <1>1, <1>2, WriteDataSlots DEF Book
<1>4. Advances(t)
    BY DEF Advances
<1>5. FlushersStay(s) /\ keep' = keep
    BY <1>4, AdvanceElse, AdvanceLeaves
<1>6. v \in allow[s][i] /\ InRequest(t)
    BY <1>1, <1>2, <1>4, AdvanceTask DEF Book, Wants
<1>7. v \in keep[s][i] /\ \A x \in Task : Flushing(x) => v \in task[x].base[s][i]
    BY <1>6 DEF Book, Bases
<1>8. ASSUME NEW j \in Member, j # i PROVE KeptAt(s, j)'
    <2>1. LegStays(s, j)
        BY <1>3, <1>8, Legs DEF LegStays
    <2>2. QED
        BY <1>3, <1>5, <2>1, KeptFrame DEF Kept, MayStillKeep
<1>9. KeptAt(s, i)'
    <2>1. KeptAt(s, i) /\ i \in Leg
        BY Legs DEF Kept
    <2>2. leg'[s][i] = to /\ disk'[s][i] = disk[s][i] /\ dead' = dead /\ keep' = keep
        BY <1>3, <1>5, <2>1
    <2>3. disk[s][i] \in Slab => cell'[disk[s][i]][s][i].may \subseteq cell[disk[s][i]][s][i].may \cup {v}
        <3>1. disk[s][i] \in Slab => cell'[disk[s][i]][s][i] \in {cell[disk[s][i]][s][i], Put(cell[disk[s][i]][s][i], v)}
            BY Zenon, <1>3, <2>1
        <3>2. Put(cell[disk[s][i]][s][i], v).may = cell[disk[s][i]][s][i].may \cup {v}
            BY DEF Put
        <3>3. QED
            BY Zenon, <3>1, <3>2
    <2>4. to # disk[s][i] /\ disk[s][i] \in Slab => cell'[disk[s][i]][s][i] = cell[disk[s][i]][s][i]
        BY <1>3, <2>1
    <2>5. disk[s][i] \in Slab \cup {None}
        BY <2>1 DEF StateOK, Map
    <2>6. \A x \in Task : Flushing(x)' => /\ Flushing(x) /\ task[x].slabs \subseteq task'[x].slabs
                                          /\ task[x].base[s][i] \subseteq task'[x].base[s][i]
        BY <1>5 DEF FlushersStay
    <2>7. CASE to = leg[s][i]
        <3>1. Found(s, i)' => Found(s, i)
            BY <2>2, <2>7 DEF Found
        <3>2. Found(s, i) => cell'[disk[s][i]][s][i].may \subseteq cell[disk[s][i]][s][i].may \cup {v}
            BY Zenon, <2>3, <2>5 DEF Found
        <3>3. Found(s, i) => cell[disk[s][i]][s][i].may \subseteq keep[s][i]
            BY <2>1 DEF KeptAt
        <3>4. dead = {} /\ leg[s][i] # disk[s][i] => Blank \in keep[s][i]
            BY <2>1 DEF KeptAt
        <3>5. ASSUME NEW x \in Task, Flushing(x)', Blank \notin task'[x].base[s][i], leg'[s][i] \notin task'[x].slabs
              PROVE  /\ dead' = {} => leg'[s][i] = disk'[s][i]
                     /\ Found(s, i)' => cell'[disk'[s][i]][s][i].may \subseteq task'[x].base[s][i]
            <4>1. Flushing(x) /\ Blank \notin task[x].base[s][i] /\ leg[s][i] \notin task[x].slabs
                BY <2>2, <2>6, <2>7, <3>5
            <4>2. /\ dead = {} => leg[s][i] = disk[s][i]
                  /\ Found(s, i) => cell[disk[s][i]][s][i].may \subseteq task[x].base[s][i]
                BY Zenon, <2>1, <4>1 DEF KeptAt
            <4>3. v \in task[x].base[s][i] /\ task[x].base[s][i] \subseteq task'[x].base[s][i]
                BY <1>7, <2>6, <3>5, <4>1
            <4>4. QED
                BY Zenon, <2>2, <2>7, <3>1, <3>2, <4>2, <4>3
        <3>6. QED
            BY Zenon, <1>7, <2>2, <2>7, <3>1, <3>2, <3>3, <3>4, <3>5 DEF KeptAt
    <2>8. CASE leg[s][i] = None /\ to # disk[s][i]
        <3>1. Blank \in allow[s][i]
            BY <2>8 DEF Sound, Members
        <3>2. Blank \in keep[s][i] /\ \A x \in Task : Flushing(x) => Blank \in task[x].base[s][i]
            BY <3>1 DEF Book, Bases
        <3>3. \A x \in Task : Flushing(x)' => Blank \in task'[x].base[s][i]
            BY <2>6, <3>2
        <3>4. Found(s, i)' => dead = {} /\ disk[s][i] # None
            BY <2>2, <2>8 DEF Found
        <3>5. dead = {} /\ disk[s][i] # None => Found(s, i)
            BY DEF Found
        <3>6. Found(s, i) => cell[disk[s][i]][s][i].may \subseteq keep[s][i]
            BY <2>1 DEF KeptAt
        <3>7. QED
            BY Zenon, <2>2, <2>4, <2>5, <2>8, <3>2, <3>3, <3>4, <3>5, <3>6 DEF KeptAt
    <2>9. CASE leg[s][i] \in dead /\ to # disk[s][i]
        <3>1. ~ Found(s, i)' /\ dead' # {}
            BY <2>2, <2>9 DEF Found
        <3>2. QED
            BY <3>1 DEF KeptAt
    <2>10. QED
        BY <1>3, <2>7, <2>8, <2>9
<1>10. QED
    BY <1>8, <1>9 DEF Kept

\* Data is written: the contents change in the member that is written, and the parity
\* is that of what the request found there.
LEMMA WriteDataStripe ==
    ASSUME StateOK, StateOK', TablesInv, Locked, Book, NEW t \in Task, WriteData(t), NEW s \in Stripe, s = task[t].s, StripeInv(s)
    PROVE  StripeInv(s)'
<1>1. Advances(t) /\ task[t].pc = "data" /\ ~ LandMarks(t)
    BY Zenon DEF Advances, WriteData, LandMarks
<1>2. CASE task'[t] = Idle
    <2>1. cell' = cell /\ leg' = leg /\ disk' = disk
        <3>1. task[t] \in RequestType
            BY <1>1, RequestTyped
        <3>2. task' # [task EXCEPT ![t].pc = "parity", ![t].old = Assemble(task[t].s)[task[t].i]]
            BY <1>2, <3>1 DEF RequestType, Idle, StateOK
        <3>3. QED
            BY Zenon, <3>2 DEF WriteData
    <2>2. QED
        BY <1>1, <1>2, <2>1, NothingDone DEF Book
<1>3. CASE task'[t] # Idle
    <2> SUFFICES ASSUME Whole(s)'
                 PROVE  /\ (\E D \in [Member -> Content] : Sound(s, D))'
                        /\ Kept(s)'
                        /\ (~ Logged(s) => Calm(s))'
        BY DEF StripeInv
    <2>1. Whole(s) /\ Content' = Content
        BY <1>1, AdvanceAll DEF Whole, Book
    <2>2. Logged(s)'
        BY <1>1, <2>1, ChangingIsLogged DEF Book
    <2>3. PICK D \in [Member -> Content] : Sound(s, D)
        BY <2>1 DEF StripeInv
    <2>4. Kept(s)'
        BY <1>3, <2>1, <2>3, WriteDataKept DEF StripeInv, Whole
    <2>5. ParityIs(s, D) /\ Members(s, D)
        BY <1>1, <2>3, Consistent DEF Sound, Book
    <2>6. PICK i \in Member : i = task[t].i
        BY <1>1, RequestTyped
    <2>7. PICK v \in Content : v = task[t].v
        BY <1>1, RequestTyped
    <2>8. PICK to \in Slab :
             /\ \A k \in Slab, j \in Leg : cell'[k][s][j] = IF k = to /\ j = i THEN Put(cell[k][s][j], v) ELSE cell[k][s][j]
             /\ \A j \in Leg : leg'[s][j] = IF j = i THEN to ELSE leg[s][j]
             /\ disk' = disk /\ dead' = dead /\ to \notin dead
             /\ \/ to = leg[s][i] /\ i \notin Lost(s)
                \/ leg[s][i] = None /\ to # disk[s][i] /\ i \notin Lost(s)
                \/ leg[s][i] \in dead /\ to # disk[s][i] /\ to # leg[s][i] /\ Recoverable(s)
        BY <1>3, <2>1, <2>6, <2>7, WriteDataSlots DEF Book, Whole
    <2>9. Assemble(s)[i] = D[i]
        <3>1. Recoverable(s) => Assemble(s) = D
            BY <2>5, PutTogether
        <3>2. i \notin Lost(s) => Assemble(s)[i] = D[i]
            BY <2>5, Read
        <3>3. QED
            BY <2>8, <3>1, <3>2
    <2>10. /\ \A x \in Task \ {t} : task'[x] = task[x]
           /\ task'[t].pc = "parity" /\ task'[t].old = D[i] /\ task'[t].s = s /\ task'[t].i = i /\ task'[t].v = v
        <3>1. ~ ReadMarks(t)
            BY <1>1 DEF ReadMarks
        <3>2. QED
            BY <1>1, <1>3, <2>6, <2>7, <2>9, <3>1, AdvanceTask
    <2>11. PICK E \in [Member -> Content] : E = [D EXCEPT ![i] = v]
        BY <2>7
    <2>12. Sound(s, E)'
        <3>1. allow' = allow /\ v \in allow[s][i]
            <4>1. InRequest(t)
                BY <1>1, AdvanceTask
            <4>2. QED
                BY Zenon, <2>6, <2>7, <4>1 DEF Book, Wants, WriteData, histVars
        <3>2. \A j \in Member : E[j] \in allow'[s][j]
            BY <2>3, <2>11, <3>1 DEF Sound
        <3>3. Members(s, E)'
            <4> SUFFICES ASSUME NEW j \in Member
                         PROVE  /\ leg'[s][j] = None => E[j] = Blank
                                /\ leg'[s][j] # None /\ leg'[s][j] \notin dead' => cell'[leg'[s][j]][s][j].cur = E[j]
                BY DEF Members
            <4>1. j \in Leg /\ i \in Leg /\ leg[s][j] \in Slab \cup {None} /\ to # None
                BY Legs, NoneAssumption DEF StateOK, Map
            <4>2. CASE j = i
                <5>1. leg'[s][j] = to /\ cell'[to][s][j] = Put(cell[to][s][i], v) /\ E[j] = v
                    BY <2>8, <2>11, <4>1, <4>2
                <5>2. QED
                    BY <4>1, <5>1 DEF Put
            <4>3. CASE j # i
                <5>1. leg'[s][j] = leg[s][j] /\ E[j] = D[j] /\ dead' = dead
                    BY <2>8, <2>11, <4>1, <4>3
                <5>2. leg[s][j] \in Slab => cell'[leg[s][j]][s][j] = cell[leg[s][j]][s][j]
                    BY <2>8, <4>1, <4>3
                <5>3. QED
                    BY <2>5, <4>1, <5>1, <5>2, ZenonT(40) DEF Members
            <4>4. QED
                BY <4>2, <4>3
        <3>4. \A x \in Task : AtParity(x, s)' <=> x = t
            <4>1. \A x \in Task \ {t} : ~ AtParity(x, s)
                BY <1>1, AdvanceTask, Alone
            <4>2. QED
                BY <2>10, <4>1 DEF AtParity
        <3>5. ParityIs(s, D)'
            <4>1. P \in Leg /\ P # i /\ leg[s][P] \in Slab \cup {None} /\ failed \subseteq failed'
                BY <1>1, AdvanceLeaves, Legs DEF StateOK, Map
            <4>2. leg'[s][P] = leg[s][P] /\ (leg[s][P] \in Slab => cell'[leg[s][P]][s][P] = cell[leg[s][P]][s][P]) /\ dead' = dead
                BY <2>8, <4>1
            <4>3. QED
                BY <2>5, <4>1, <4>2 DEF ParityIs, Good
        <3>6. E[task'[t].i] = task'[t].v /\ [E EXCEPT ![task'[t].i] = task'[t].old] = D
            BY <2>10, <2>11
        <3>7. ParityIs(s, [E EXCEPT ![task[t].i] = task[t].old])'
            BY <3>5, <3>6 DEF ParityIs
        <3>8. QED
            BY <2>2, <3>2, <3>3, <3>4, <3>6, <3>7 DEF Sound
    <2>13. QED
        BY <2>1, <2>2, <2>4, <2>12
<1>4. QED
    BY <1>2, <1>3

\* A member is unmapped: it reads as zeros, and the parity is that of what it held.
LEMMA UnmapStripe ==
    ASSUME StateOK, StateOK', Locked, Book, NEW t \in Task, Unmap(t), NEW s \in Stripe, s = task[t].s, StripeInv(s)
    PROVE  StripeInv(s)'
<1>1. Advances(t) /\ task[t].pc = "unmap" /\ ~ LandMarks(t) /\ ~ ReadMarks(t)
    BY DEF Advances, Unmap, LandMarks, ReadMarks
<1>2. cell' = cell /\ disk' = disk /\ dead' = dead /\ file' = file /\ allow' = allow /\ keep' = keep
    BY DEF Unmap, logVars
<1>3. CASE ~ Recoverable(s)
    <2>1. leg' = leg /\ task'[t] = Idle
        BY <1>3 DEF Unmap, End, StateOK
    <2>2. QED
        BY <1>1, <1>2, <2>1, NothingDone DEF Book
<1>4. CASE Recoverable(s)
    <2> SUFFICES ASSUME Whole(s)'
                 PROVE  /\ (\E D \in [Member -> Content] : Sound(s, D))'
                        /\ Kept(s)'
                        /\ (~ Logged(s) => Calm(s))'
        BY DEF StripeInv
    <2>1. Whole(s) /\ Content' = Content /\ failed \subseteq failed'
        BY <1>1, AdvanceAll DEF Whole, Book
    <2>2. Logged(s)'
        BY <1>2, <1>4 DEF Unmap, Logged
    <2>3. PICK D \in [Member -> Content] : Sound(s, D)
        BY <2>1 DEF StripeInv
    <2>4. ParityIs(s, D) /\ Members(s, D)
        BY <1>1, <2>3, Consistent DEF Sound, Book
    <2>5. Assemble(s) = D
        BY <1>4, <2>4, PutTogether
    <2>6. PICK i \in Member : i = task[t].i
        BY <1>1, RequestTyped
    <2>7. task[t].v = Blank
        BY <1>1 DEF Book, Kinds
    <2>8. i \in Leg /\ P \in Leg /\ P # i /\ Member \subseteq Leg
        BY Legs
    <2>9. \A j \in Leg : leg'[s][j] = IF j = i THEN None ELSE leg[s][j]
        BY <1>4, <2>6, <2>8 DEF Unmap, StateOK, Map
    <2>10. /\ \A x \in Task \ {t} : task'[x] = task[x]
           /\ task'[t].pc = "parity" /\ task'[t].old = D[i] /\ task'[t].s = s /\ task'[t].i = i /\ task'[t].v = Blank
        <3>1. task[t] \in RequestType
            BY <1>1, RequestTyped
        <3>2. task' = [task EXCEPT ![t].pc = "parity", ![t].old = Assemble(s)[i]]
            BY <1>4, <2>6 DEF Unmap
        <3>3. QED
            BY <2>5, <2>6, <2>7, <3>1, <3>2 DEF RequestType, StateOK
    <2>11. Blank \in allow[s][i]
        <3>1. InRequest(t)
            BY <1>1, AdvanceTask
        <3>2. QED
            BY <2>6, <2>7, <3>1 DEF Book, Wants
    <2>12. PICK E \in [Member -> Content] : E = [D EXCEPT ![i] = Blank]
        BY DEF Blank, Content
    <2>13. Sound(s, E)'
        <3>1. \A j \in Member : E[j] \in allow'[s][j]
            BY <1>2, <2>3, <2>11, <2>12 DEF Sound
        <3>2. Members(s, E)'
            <4> SUFFICES ASSUME NEW j \in Member
                         PROVE  /\ leg'[s][j] = None => E[j] = Blank
                                /\ leg'[s][j] # None /\ leg'[s][j] \notin dead' => cell'[leg'[s][j]][s][j].cur = E[j]
                BY DEF Members
            <4>1. CASE j = i
                BY <2>8, <2>9, <2>12, <4>1
            <4>2. CASE j # i
                <5>1. leg'[s][j] = leg[s][j] /\ E[j] = D[j]
                    BY <2>8, <2>9, <2>12, <4>2
                <5>2. QED
                    BY <1>2, <2>4, <5>1 DEF Members
            <4>3. QED
                BY <4>1, <4>2
        <3>3. \A x \in Task : AtParity(x, s)' <=> x = t
            <4>1. \A x \in Task \ {t} : ~ AtParity(x, s)
                BY <1>1, AdvanceTask, Alone
            <4>2. QED
                BY <2>10, <4>1 DEF AtParity
        <3>4. ParityIs(s, D)'
            <4>1. leg'[s][P] = leg[s][P]
                BY <2>8, <2>9
            <4>2. QED
                BY <1>2, <2>1, <2>4, <4>1 DEF ParityIs, Good
        <3>5. E[task'[t].i] = task'[t].v /\ [E EXCEPT ![task'[t].i] = task'[t].old] = D
            BY <2>10, <2>12
        <3>6. ParityIs(s, [E EXCEPT ![task[t].i] = task[t].old])'
            BY <3>4, <3>5 DEF ParityIs
        <3>7. QED
            BY <2>2, <3>1, <3>2, <3>3, <3>5, <3>6 DEF Sound
    <2>14. Kept(s)'
        <3>1. FlushersStay(s)
            BY <1>1, AdvanceElse
        <3>2. Kept(s)
            BY <2>1 DEF StripeInv
        <3>3. ASSUME NEW j \in Member, j # i PROVE KeptAt(s, j)'
            <4>1. LegStays(s, j)
                BY <1>2, <2>8, <2>9, <3>3 DEF LegStays
            <4>2. QED
                BY <1>2, <3>1, <3>2, <4>1, KeptFrame DEF Kept, MayStillKeep
        <3>4. KeptAt(s, i)'
            <4>1. Blank \in keep[s][i] /\ \A x \in Task : Flushing(x) => Blank \in task[x].base[s][i]
                BY <2>11 DEF Book, Bases
            <4>2. \A x \in Task : Flushing(x)' => Blank \in task'[x].base[s][i]
                BY <3>1, <4>1 DEF FlushersStay
            <4>3. leg'[s][i] = None
                BY <2>8, <2>9
            <4>4. Found(s, i)' => Found(s, i)
                BY <1>2, <4>3 DEF Found
            <4>5. Found(s, i) => cell[disk[s][i]][s][i].may \subseteq keep[s][i]
                BY <3>2 DEF Kept, KeptAt
            <4>6. QED
                BY Zenon, <1>2, <4>1, <4>2, <4>4, <4>5 DEF KeptAt
        <3>5. QED
            BY <3>3, <3>4 DEF Kept
    <2>15. QED
        BY <2>1, <2>2, <2>13, <2>14
<1>5. QED
    BY <1>3, <1>4

\* The change is folded into the parity, or the parity computed anew, or let go: it is
\* that of the members, and the request ends.
LEMMA ParityStripe ==
    ASSUME StateOK, StateOK', Locked, Book, NEW t \in Task, UpdateParity(t) \/ NewGroup(t) \/ DropGroup(t),
           NEW s \in Stripe, s = task[t].s, StripeInv(s)
    PROVE  StripeInv(s)'
<1>1. Advances(t) /\ task[t].pc = "parity" /\ ~ LandMarks(t) /\ ~ ReadMarks(t)
    BY Zenon DEF Advances, UpdateParity, NewGroup, DropGroup, LandMarks, ReadMarks
<1> SUFFICES ASSUME Whole(s)'
             PROVE  /\ (\E D \in [Member -> Content] : Sound(s, D))'
                    /\ Kept(s)'
                    /\ (~ Logged(s) => Calm(s))'
    BY DEF StripeInv
<1>2. Whole(s) /\ Content' = Content /\ failed \subseteq failed' /\ dead \subseteq dead' /\ MayStillKeep(s)
    BY <1>1, AdvanceAll DEF Whole, Book
<1>3. Logged(s)'
    BY <1>1, <1>2, ChangingIsLogged DEF Book
<1>4. PICK D \in [Member -> Content] : Sound(s, D)
    BY <1>2 DEF StripeInv
<1>5. PICK i \in Member : i = task[t].i
    BY <1>1, RequestTyped
<1>6. PICK v \in Content : v = task[t].v
    BY <1>1, RequestTyped
<1>7. PICK old \in Content : old = task[t].old
    BY <1>1, RequestTyped
<1>8. AtParity(t, s) /\ D[i] = v /\ ParityIs(s, [D EXCEPT ![i] = old])
    BY <1>1, <1>4, <1>5, <1>6, <1>7 DEF Sound, AtParity
<1>9. Members(s, D)
    BY <1>4 DEF Sound
<1>10. P \in Leg /\ P \notin Member /\ Member \subseteq Leg /\ leg[s][P] \in Slab \cup {None}
    BY Legs DEF StateOK, Map
<1>11. dead' = dead /\ disk' = disk
    BY Zenon DEF UpdateParity, NewGroup, DropGroup, mapVars, slabVars
<1>12. task'[t] = Idle /\ \A x \in Task : ~ AtParity(x, s)'
    <2>1. task'[t] = Idle /\ \A x \in Task \ {t} : task'[x] = task[x]
        BY Zenon DEF UpdateParity, NewGroup, DropGroup, End, StateOK
    <2>2. \A x \in Task \ {t} : ~ AtParity(x, s)
        BY <1>1, AdvanceTask, Alone
    <2>3. QED
        BY <2>1, <2>2 DEF AtParity, Idle
<1>13. \A j \in Member : D[j] \in allow'[s][j]
    <2>1. \A j \in Member : D[j] \in allow[s][j]
        BY <1>4 DEF Sound
    <2>2. CASE allow' = allow
        BY <2>1, <2>2
    <2>3. CASE Done(t)
        <3>1. \A j \in Member : allow'[s][j] = IF j = i THEN {v} ELSE allow[s][j]
            BY <1>5, <1>6, <2>3 DEF Done, StateOK, Readings
        <3>2. QED
            BY <1>8, <2>1, <3>1
    <2>4. QED
        BY Zenon, <2>2, <2>3 DEF UpdateParity, NewGroup, DropGroup
<1>14. MembersStay(s) /\ ParityIs(s, D)'
    <2>1. CASE UpdateParity(t)
        <3>1. PICK k \in Slab : k = leg[s][P]
            BY Zenon, <1>10, <2>1 DEF UpdateParity
        <3>2. leg' = leg /\ failed' = failed \cup Noticed(s, {P})
            BY Zenon, <2>1 DEF UpdateParity, mapVars
        <3>3. CASE Answers(k)
            <4>1. cell' = [cell EXCEPT ![k][s][P] = Put(@, Xor(<<@.cur, old, v>>))]
                BY Zenon, <1>6, <1>7, <2>1, <3>1, <3>3 DEF UpdateParity
            <4>2. \A m \in Slab, j \in Leg :
                     cell'[m][s][j] = IF m = k /\ j = P THEN Put(cell[k][s][P], Xor(<<cell[k][s][P].cur, old, v>>)) ELSE cell[m][s][j]
                <5>1. PICK c : c = Put(cell[k][s][P], Xor(<<cell[k][s][P].cur, old, v>>))
                    OBVIOUS
                <5>2. cell' = [cell EXCEPT ![k][s][P] = c]
                    BY <4>1, <5>1
                <5>3. \A m \in Slab, j \in Leg : cell'[m][s][j] = IF m = k /\ j = P THEN c ELSE cell[m][s][j]
                    BY <1>10, <5>2 DEF StateOK, Slots
                <5>4. QED
                    BY <5>1, <5>3
            <4>3. MembersStay(s)
                BY <1>10, <1>11, <3>2, <4>2 DEF MembersStay, LegStays
            <4>4. cell[k][s][P].cur = Xor([D EXCEPT ![i] = old])
                BY <1>8, <3>1, <3>3, NoneAssumption DEF ParityIs, Good, Answers, Trusted
            <4>5. Xor(<<Xor([D EXCEPT ![i] = old]), old, D[i]>>) = Xor(D)
                BY DeltaApplied
            <4>6. cell'[k][s][P].cur = Xor(D)
                BY <1>8, <1>10, <4>2, <4>4, <4>5 DEF Put
            <4>7. QED
                BY <3>1, <3>2, <4>3, <4>6 DEF ParityIs
        <3>4. CASE ~ Answers(k)
            <4>1. cell' = cell
                BY <2>1, <3>1, <3>4 DEF UpdateParity
            <4>2. k \in failed' \/ k \in dead'
                BY <1>11, <3>1, <3>2, <3>4 DEF Noticed, Answers, Trusted
            <4>3. QED
                BY <1>11, <3>1, <3>2, <4>1, <4>2 DEF MembersStay, LegStays, ParityIs, Good
        <3>5. QED
            BY <3>3, <3>4
    <2>2. CASE NewGroup(t)
        <3>1. leg[s][P] = None
            BY <2>2 DEF NewGroup
        <3>2. CASE UNCHANGED <<cell, leg>>
            BY <1>11, <3>1, <3>2 DEF MembersStay, LegStays, ParityIs
        <3>3. CASE ~ UNCHANGED <<cell, leg>>
            <4>1. Recoverable(s)
                BY <2>2, <3>3 DEF NewGroup
            <4>2. PICK to \in Slab : /\ cell' = [cell EXCEPT ![to][s][P] = Put(@, Xor(Assemble(s)))]
                                     /\ leg' = [leg EXCEPT ![s][P] = to]
                BY Zenon, <2>2, <3>3 DEF NewGroup, Apart, StateOK
            <4>3. Lost(s) = {}
                BY <3>1, <4>1 DEF Recoverable
            <4>4. Assemble(s) = D
                BY <1>9, <4>3, ReadAll
            <4>5. \A m \in Slab, j \in Leg :
                     cell'[m][s][j] = IF m = to /\ j = P THEN Put(cell[to][s][P], Xor(D)) ELSE cell[m][s][j]
                BY <1>10, <4>2, <4>4 DEF StateOK, Slots
            <4>6. \A j \in Leg : leg'[s][j] = IF j = P THEN to ELSE leg[s][j]
                BY <1>10, <4>2 DEF StateOK, Map
            <4>7. MembersStay(s)
                BY <1>10, <1>11, <4>5, <4>6 DEF MembersStay, LegStays
            <4>8. leg'[s][P] = to /\ cell'[to][s][P].cur = Xor(D)
                BY <1>10, <4>5, <4>6 DEF Put
            <4>9. QED
                BY <4>7, <4>8 DEF ParityIs
        <3>4. QED
            BY <3>2, <3>3
    <2>3. CASE DropGroup(t)
        <3>1. cell' = cell /\ leg' = [leg EXCEPT ![s][P] = None]
            BY <2>3 DEF DropGroup
        <3>2. \A j \in Leg : leg'[s][j] = IF j = P THEN None ELSE leg[s][j]
            BY <1>10, <3>1 DEF StateOK, Map
        <3>3. QED
            BY <1>10, <1>11, <3>1, <3>2 DEF MembersStay, LegStays, ParityIs
    <2>4. QED
        BY <2>1, <2>2, <2>3
<1>15. Members(s, D)'
    <2>1. \A j \in Member : leg[s][j] \in Slab \cup {None}
        BY <1>10 DEF StateOK, Map
    <2>2. ASSUME NEW j \in Member
          PROVE  /\ leg'[s][j] = None => D[j] = Blank
                 /\ leg'[s][j] # None /\ leg'[s][j] \notin dead' => cell'[leg'[s][j]][s][j].cur = D[j]
        <3>1. leg'[s][j] = leg[s][j] /\ \A m \in Slab : cell'[m][s][j] = cell[m][s][j]
            BY <1>14 DEF MembersStay, LegStays
        <3>2. QED
            BY <1>9, <1>11, <2>1, <3>1 DEF Members
    <2>3. QED
        BY <2>2 DEF Members
<1>16. Sound(s, D)'
    BY <1>3, <1>12, <1>13, <1>14, <1>15 DEF Sound
<1>17. Kept(s)'
    <2>1. FlushersStay(s)
        BY <1>1, AdvanceElse
    <2>2. QED
        BY <1>2, <1>14, <2>1, KeptFrame DEF StripeInv, Kept, MembersStay
<1>18. QED
    BY <1>2, <1>3, <1>16, <1>17

\* Every step of a request keeps what is said of every stripe.
LEMMA AdvanceStripe ==
    ASSUME StateOK, StateOK', TablesInv, Locked, Book, NEW t \in Task, Advances(t), NEW r \in Stripe, StripeInv(r)
    PROVE  StripeInv(r)'
<1>1. CASE ReadMarks(t) \/ LandMarks(t)
    BY <1>1, MarkStripe DEF Book
<1>2. CASE ~ LandMarks(t) /\ r # task[t].s
    BY <1>2, AdvanceOthers DEF Book
<1>3. CASE DiesInWrite(t)
    <2>1. cell' = cell /\ leg' = leg /\ disk' = disk /\ task[t].pc = "data" /\ task'[t] = Idle
        BY <1>3 DEF DiesInWrite, mapVars, End, StateOK
    <2>2. ~ LandMarks(t)
        BY <2>1 DEF LandMarks
    <2>3. QED
        BY <2>1, <2>2, NothingDone DEF Book
<1>4. CASE WriteData(t) /\ r = task[t].s
    BY <1>4, WriteDataStripe
<1>5. CASE Unmap(t) /\ r = task[t].s
    BY <1>5, UnmapStripe
<1>6. CASE (UpdateParity(t) \/ NewGroup(t) \/ DropGroup(t)) /\ r = task[t].s
    BY <1>6, ParityStripe
<1>7. QED
    BY <1>1, <1>2, <1>3, <1>4, <1>5, <1>6 DEF Advances

-----------------------------------------------------------------------------
(* Flushes                                                                  *)

\* A flush leaves requests alone.
LEMMA FlushElse ==
    ASSUME StateOK, NEW t \in Task, Flushes(t), NEW r \in Stripe
    PROVE  /\ ParityTasksStay(r) /\ (Changing(r)' <=> Changing(r))
           /\ \A x \in Task \ {t} : task'[x] = task[x]
<1>1. \A x \in Task \ {t} : task'[x] = task[x]
    BY FlushTask
<1>2. ~ InRequest(t) /\ ~ InRequest(t)'
    BY FlushTask
<1>3. ~ AtParity(t, r) /\ ~ AtParity(t, r)' /\ task[t].pc \notin {"data", "parity"} /\ task'[t].pc \notin {"data", "parity"}
    BY <1>2 DEF InRequest, AtParity
<1>4. ParityTasksStay(r)
    BY <1>1, <1>3 DEF ParityTasksStay, AtParity
<1>5. Changing(r)' <=> Changing(r)
    BY <1>1, <1>3 DEF Changing
<1>6. QED
    BY <1>1, <1>4, <1>5

\* A flush begins: what it will keep is what may be read, which is what the
\* stripe's members hold.
LEMMA BeginFlushKept ==
    ASSUME StateOK, NEW t \in Task, BeginFlush(t), NEW r \in Stripe, NEW D \in [Member -> Content], Sound(r, D), Kept(r)
    PROVE  Kept(r)'
<1>1. /\ cell' = cell /\ leg' = leg /\ disk' = disk /\ dead' = dead /\ keep' = keep
      /\ task[t] = Idle
    BY DEF BeginFlush, mapVars, slabVars, histVars
<1>2. task'[t].base = allow /\ task'[t].slabs = {leg[s][i] : s \in Stripe, i \in Leg} \ {None}
    BY DEF BeginFlush, StateOK
<1>3. \A x \in Task \ {t} : task'[x] = task[x]
    BY DEF BeginFlush, StateOK
<1> SUFFICES ASSUME NEW i \in Member PROVE KeptAt(r, i)'
    BY DEF Kept
<1>4. KeptAt(r, i)
    BY DEF Kept
<1>5. i \in Leg
    BY Legs
<1>6. Blank \notin allow[r][i] => leg[r][i] \in task'[t].slabs
    <2>1. leg[r][i] = None => D[i] = Blank
        BY DEF Sound, Members
    <2>2. D[i] \in allow[r][i]
        BY DEF Sound
    <2>3. QED
        BY <1>2, <1>5, <2>1, <2>2
<1>7. ASSUME NEW x \in Task, Flushing(x)', Blank \notin task'[x].base[r][i], leg'[r][i] \notin task'[x].slabs
      PROVE  /\ dead' = {} => leg'[r][i] = disk'[r][i]
             /\ Found(r, i)' => cell'[disk'[r][i]][r][i].may \subseteq task'[x].base[r][i]
    <2>1. x # t
        BY <1>1, <1>2, <1>6, <1>7
    <2>2. task'[x] = task[x] /\ Flushing(x)
        BY <1>3, <1>7, <2>1 DEF Flushing
    <2>3. QED
        BY <1>1, <1>4, <1>7, <2>2 DEF KeptAt, Found
<1>8. QED
    BY <1>1, <1>4, <1>7 DEF KeptAt, Found

\* A flush that ends keeps what it found, and a start finds nothing else.
LEMMA LandClearedKept ==
    ASSUME StateOK, Kinds, NEW t \in Task, LandCleared(t), NEW r \in Stripe, Kept(r)
    PROVE  Kept(r)'
<1>1. /\ cell' = cell /\ leg' = leg /\ disk' = disk /\ dead' = dead
      /\ task[t].pc = "clear"
    BY DEF LandCleared, mapVars, slabVars
<1>2. Flushes(t) /\ Flushing(t) /\ task[t].slabs = {}
    BY <1>1 DEF Flushes, Flushing, Kinds
<1>3. task'[t] = Idle /\ \A x \in Task \ {t} : task'[x] = task[x]
    BY DEF LandCleared, End, StateOK
<1> SUFFICES ASSUME NEW i \in Member PROVE KeptAt(r, i)'
    BY DEF Kept
<1>4. KeptAt(r, i)
    BY DEF Kept
<1>5. keep'[r][i] = IF Blank \in task[t].base[r][i] THEN keep[r][i] ELSE keep[r][i] \cap task[t].base[r][i]
    BY <1>2, FlushAllows
<1>6. Blank \notin task[t].base[r][i] =>
          /\ dead = {} => leg[r][i] = disk[r][i]
          /\ Found(r, i) => cell[disk[r][i]][r][i].may \subseteq task[t].base[r][i]
    BY <1>2, <1>4 DEF KeptAt
<1>7. Found(r, i)' <=> Found(r, i)
    BY <1>1 DEF Found
<1>8. /\ Found(r, i)' => cell'[disk'[r][i]][r][i].may \subseteq keep'[r][i]
      /\ dead' = {} /\ leg'[r][i] # disk'[r][i] => Blank \in keep'[r][i]
    BY <1>1, <1>4, <1>5, <1>6, <1>7 DEF KeptAt
<1>9. ASSUME NEW x \in Task, Flushing(x)' PROVE task'[x] = task[x] /\ Flushing(x)
    BY <1>3, <1>9 DEF Flushing, Idle
<1>10. QED
    BY <1>1, <1>4, <1>7, <1>8, <1>9 DEF KeptAt

\* The steps of a flush but for the syncs of slabs.
LEMMA FlushStripe ==
    ASSUME StateOK, StateOK', Book, NEW t \in Task,
           BeginFlush(t) \/ FlushFails(t) \/ ClearMarks(t) \/ ReadCleared(t) \/ LandCleared(t), NEW r \in Stripe, StripeInv(r)
    PROVE  StripeInv(r)'
<1>1. Flushes(t)
    BY DEF Flushes
<1>2. /\ cell' = cell /\ leg' = leg /\ disk' = disk /\ dead' = dead /\ failed' = failed /\ holed' = holed
      /\ dropped' = dropped /\ todo' = todo /\ ticket' = ticket
    BY DEF BeginFlush, FlushFails, ClearMarks, ReadCleared, LandCleared, mapVars, slabVars, histVars
<1>3. MembersStay(r) /\ ParityStays(r) /\ Content' = Content
    BY <1>2, SameTypes DEF MembersStay, ParityStays, LegStays
<1>4. allow' = allow /\ MayStillRead(r)
    BY <1>1, FlushAllows DEF MayStillRead
<1>5. Known(r)' /\ Known(r)
    BY <1>1, <1>2, OnlyServed DEF Book, Known, Serving
<1>6. LoggedStays(r)
    <2>1. CASE LandCleared(t)
        <3>1. Needed(r)' => Logged(r)'
            BY <2>1 DEF LandCleared, Overtaken, Logged
        <3>2. QED
            BY <1>5, <3>1 DEF LoggedStays
    <2>2. CASE ~ LandCleared(t)
        <3>1. file' = file /\ unlogged' = unlogged
            BY <2>2 DEF BeginFlush, FlushFails, ClearMarks, ReadCleared, logVars, histVars
        <3>2. QED
            BY <3>1 DEF LoggedStays, Logged
    <2>3. QED
        BY <2>1, <2>2
<1>7. ParityTasksStay(r) /\ (Changing(r)' <=> Changing(r))
    BY <1>1, FlushElse
<1>8. CASE FlushFails(t) \/ ClearMarks(t) \/ ReadCleared(t)
    <2>1. keep' = keep
        BY <1>8 DEF FlushFails, ClearMarks, ReadCleared, histVars
    <2>2. \/ task'[t] = Idle
          \/ Flushing(t) /\ task'[t].base = task[t].base /\ task'[t].slabs = task[t].slabs
        <3>1. task[t].pc \in {"sync", "forget", "clear"}
            BY <1>8 DEF FlushFails, ClearMarks, ReadCleared
        <3>2. task[t] \in FlushType
            BY <3>1, FlushTyped
        <3>3. \/ task' = [task EXCEPT ![t] = Idle]
              \/ task' = [task EXCEPT ![t].pc = "forget"]
              \/ task' = [task EXCEPT ![t].pc = "clear", ![t].set = dirty]
            BY <1>8 DEF FlushFails, ClearMarks, ReadCleared, ReadDirty, End
        <3>4. QED
            BY <3>1, <3>2, <3>3 DEF FlushType, StateOK, Flushing
    <2>3. FlushersStay(r)
        <3>1. \A x \in Task \ {t} : task'[x] = task[x]
            BY <1>1, FlushElse
        <3>2. task'[t] = Idle => ~ Flushing(t)'
            BY DEF Flushing, Idle
        <3>3. QED
            BY <2>2, <3>1, <3>2 DEF FlushersStay, Flushing
    <2>4. QED
        BY <1>2, <1>3, <1>4, <1>5, <1>6, <1>7, <2>1, <2>3, StripeFrame DEF MayStillKeep
<1>9. CASE BeginFlush(t) \/ LandCleared(t)
    <2> SUFFICES ASSUME Whole(r)'
                 PROVE  /\ (\E D \in [Member -> Content] : Sound(r, D))'
                        /\ Kept(r)'
                        /\ (~ Logged(r) => Calm(r))'
        BY DEF StripeInv
    <2>1. Whole(r)
        BY <1>2 DEF Whole
    <2>2. PICK D \in [Member -> Content] : Sound(r, D)
        BY <2>1 DEF StripeInv
    <2>3. Sound(r, D)'
        BY <1>2, <1>3, <1>4, <1>5, <1>6, <1>7, <2>2, SoundFrame
    <2>4. Kept(r)'
        BY <1>9, <2>1, <2>2, BeginFlushKept, LandClearedKept DEF StripeInv, Book
    <2>5. (~ Logged(r) => Calm(r))'
        BY <1>2, <1>3, <1>6, <1>7, <2>1, CalmFrame DEF StripeInv
    <2>6. QED
        BY <1>3, <2>3, <2>4, <2>5
<1>10. QED
    BY <1>8, <1>9

\* Flushes go on, and one of them may be done with slab k.
FlushersPass(r, k) == \A x \in Task : Flushing(x)' => /\ Flushing(x) /\ task[x].slabs \subseteq task'[x].slabs \cup {k}
                                                      /\ \A i \in Member : task'[x].base[r][i] = task[x].base[r][i]

\* What a sync does to a leg.
LEMMA SyncLeg ==
    ASSUME StateOK, NEW k \in Slab, Sync(k), NEW r \in Stripe, NEW i \in Leg
    PROVE  /\ disk'[r][i] = IF leg[r][i] = k THEN k ELSE IF disk[r][i] = k THEN None ELSE disk[r][i]
           /\ \A m \in Slab \ {k} : cell'[m][r][i] = cell[m][r][i]
           /\ \A m \in Slab : cell'[m][r][i].cur = cell[m][r][i].cur
           /\ cell'[k][r][i].may = {cell[k][r][i].cur}
<1>1. cell[k][r] \in [Leg -> Cell(Content)]
    BY DEF StateOK, Slots
<1>2. cell' = [cell EXCEPT ![k] = [s \in Stripe |-> FlushAll(cell[k][s])]]
    BY DEF Sync
<1>3. cell'[k][r] = FlushAll(cell[k][r]) /\ \A m \in Slab \ {k} : cell'[m] = cell[m]
    BY <1>2 DEF StateOK, Slots
<1>4. cell'[k][r][i] = Flushed(cell[k][r][i])
    BY <1>1, <1>3 DEF FlushAll
<1>5. cell'[k][r][i].cur = cell[k][r][i].cur /\ cell'[k][r][i].may = {cell[k][r][i].cur}
    BY <1>4 DEF Flushed, Durable
<1>6. QED
    BY <1>3, <1>5 DEF Sync

\* A mark that is excused no longer is not needed, or is still there.
LEMMA Excused ==
    ASSUME Starts, NEW r \in Stripe, file' = file, todo' = todo, Excuse
    PROVE  LoggedStays(r) /\ (~ Logged(r)' => Known(r)' /\ Known(r)) /\ (Logged(r)' => Logged(r))
<1>1. ~ Logged(r)' => Known(r)' /\ Known(r)
    BY DEF Starts, Known, Serving, Logged
<1>2. ~ Logged(r)' /\ Logged(r) => ~ Needed(r)'
    BY DEF Excuse, Logged
<1>3. QED
    BY <1>1, <1>2 DEF LoggedStays, Logged, Excuse

\* A slab is synced: its slots and its entries are as the volume has them.
LEMMA SyncStripe ==
    ASSUME StateOK, StateOK', Book, NEW k \in Slab, k \notin dead, Sync(k), leg' = leg, dead' = dead, failed' = failed, allow' = allow,
           keep' = keep, holed' = holed, dropped' = dropped, todo' = todo, ticket' = ticket, file' = file, Excuse,
           NEW r \in Stripe, FlushersPass(r, k), ParityTasksStay(r), Changing(r)' => Changing(r), StripeInv(r)
    PROVE  StripeInv(r)'
<1> SUFFICES ASSUME Whole(r)'
             PROVE  /\ (\E D \in [Member -> Content] : Sound(r, D))'
                    /\ Kept(r)'
                    /\ (~ Logged(r) => Calm(r))'
    BY DEF StripeInv
<1>1. Whole(r) /\ Content' = Content /\ k \notin dead /\ k # None
    BY SameTypes, NoneAssumption DEF Whole
<1>2. PICK D \in [Member -> Content] : Sound(r, D)
    BY <1>1 DEF StripeInv
<1>3. LoggedStays(r) /\ (~ Logged(r)' => Known(r)' /\ Known(r))
    BY Excused DEF Book
<1>4. P \in Leg /\ \A i \in Leg : leg[r][i] \in Slab \cup {None} /\ disk[r][i] \in Slab \cup {None}
    BY Legs DEF StateOK, Map
<1>5. \A i \in Leg :
          /\ disk'[r][i] = IF leg[r][i] = k THEN k ELSE IF disk[r][i] = k THEN None ELSE disk[r][i]
          /\ \A m \in Slab \ {k} : cell'[m][r][i] = cell[m][r][i]
          /\ \A m \in Slab : cell'[m][r][i].cur = cell[m][r][i].cur
          /\ cell'[k][r][i].may = {cell[k][r][i].cur}
    BY SyncLeg
<1>6. Members(r, D)'
    <2>1. Members(r, D)
        BY <1>2 DEF Sound
    <2>2. ASSUME NEW i \in Member
          PROVE  /\ leg'[r][i] = None => D[i] = Blank
                 /\ leg'[r][i] # None /\ leg'[r][i] \notin dead' => cell'[leg'[r][i]][r][i].cur = D[i]
        <3>1. i \in Leg
            BY Legs
        <3>2. QED
            BY <1>4, <1>5, <2>1, <3>1 DEF Members
    <2>3. QED
        BY <2>2 DEF Members
<1>7. ASSUME NEW E, ParityIs(r, E) PROVE ParityIs(r, E)'
    BY <1>4, <1>5, <1>7 DEF ParityIs, Good
<1>8. ASSUME ~ Needed(r)' PROVE (\A t \in Task : ~ AtParity(t, r)') /\ ~ Changing(r)' /\ Settled(r)'
    BY <1>8 DEF Needed, AtParity, Changing
<1>9. ASSUME ~ Logged(r)', ~ Logged(r)
      PROVE  Calm(r) /\ (\A t \in Task : ~ AtParity(t, r)) /\ ParityIs(r, D) /\ ParityKept(r, D)
    <2>1. Calm(r)
        BY <1>1, <1>9 DEF StripeInv
    <2>2. \A t \in Task : ~ AtParity(t, r)
        BY <2>1 DEF Calm, Changing, AtParity
    <2>3. QED
        BY <1>2, <1>3, <1>9, <2>1, <2>2 DEF Sound
<1>10. Sound(r, D)'
    <2>1. \A i \in Member : D[i] \in allow'[r][i]
        BY <1>2 DEF Sound
    <2>2. ASSUME NEW t \in Task, AtParity(t, r)'
          PROVE  D[task'[t].i] = task'[t].v /\ ParityIs(r, [D EXCEPT ![task[t].i] = task[t].old])'
        <3>1. AtParity(t, r) /\ task'[t].i = task[t].i /\ task'[t].v = task[t].v /\ task'[t].old = task[t].old
            BY <2>2 DEF ParityTasksStay
        <3>2. D[task[t].i] = task[t].v /\ ParityIs(r, [D EXCEPT ![task[t].i] = task[t].old])
            BY <1>2, <3>1 DEF Sound
        <3>3. PICK E : E = [D EXCEPT ![task[t].i] = task[t].old]
            OBVIOUS
        <3>4. ParityIs(r, E)'
            BY <1>7, <3>2, <3>3
        <3>5. QED
            BY <3>1, <3>2, <3>3, <3>4 DEF ParityIs
    <2>3. ASSUME Known(r)', \A t \in Task : ~ AtParity(t, r)' PROVE ParityIs(r, D)'
        <3>1. \A t \in Task : ~ AtParity(t, r)
            BY <2>3 DEF ParityTasksStay
        <3>2. Known(r)
            BY <2>3 DEF Known, Serving
        <3>3. ParityIs(r, D)
            BY <1>2, <3>1, <3>2 DEF Sound
        <3>4. QED
            BY <1>7, <3>3
    <2>4. ASSUME ~ Logged(r)' PROVE ParityKept(r, D)'
        <3>1. CASE ~ Logged(r)
            <4>1. ParityIs(r, D) /\ ParityKept(r, D)
                BY <1>9, <2>4, <3>1
            <4>2. CASE leg[r][P] = k
                <5>1. disk'[r][P] = k /\ cell'[k][r][P].may = {cell[k][r][P].cur}
                    BY <1>4, <1>5, <4>2
                <5>2. Good(k) => cell[k][r][P].cur = Xor(D)
                    BY <1>1, <4>1, <4>2 DEF ParityIs
                <5>3. QED
                    BY <5>1, <5>2 DEF ParityKept, Good
            <4>3. CASE leg[r][P] # k /\ disk[r][P] = k
                BY <1>4, <1>5, <4>3 DEF ParityKept
            <4>4. CASE leg[r][P] # k /\ disk[r][P] # k
                BY <1>4, <1>5, <4>1, <4>4 DEF ParityKept, Good
            <4>5. QED
                BY <4>2, <4>3, <4>4
        <3>2. CASE Logged(r)
            <4>1. ~ Needed(r)' /\ Known(r)'
                BY <1>3, <2>4, <3>2 DEF LoggedStays
            <4>2. ParityIs(r, D)' /\ Settled(r)'
                BY <1>8, <2>3, <4>1
            <4>3. leg'[r][P] = disk'[r][P] /\ (leg'[r][P] # None => LET c == cell'[leg'[r][P]][r][P] IN c.may = {c.cur})
                BY <1>4, <4>2 DEF Settled
            <4>4. QED
                BY <4>2, <4>3 DEF ParityIs, ParityKept, Good
        <3>3. QED
            BY <3>1, <3>2
    <2>5. QED
        BY <1>6, <2>1, <2>2, <2>3, <2>4 DEF Sound
<1>11. Kept(r)'
    <2> SUFFICES ASSUME NEW i \in Member PROVE KeptAt(r, i)'
        BY DEF Kept
    <2>1. KeptAt(r, i) /\ i \in Leg
        BY <1>1, Legs DEF StripeInv, Kept
    <2>2. allow[r][i] \subseteq keep[r][i] /\ \A x \in Task : Flushing(x) => allow[r][i] \subseteq task[x].base[r][i]
        BY DEF Book, Bases
    <2>3. D[i] \in allow[r][i] /\ (leg[r][i] = k => cell[k][r][i].cur = D[i])
        BY <1>1, <1>2 DEF Sound, Members
    <2>4. /\ disk'[r][i] = IF leg[r][i] = k THEN k ELSE IF disk[r][i] = k THEN None ELSE disk[r][i]
          /\ \A m \in Slab \ {k} : cell'[m][r][i] = cell[m][r][i]
          /\ cell'[k][r][i].may = {cell[k][r][i].cur}
          /\ disk[r][i] \in Slab \cup {None}
        BY <1>4, <1>5, <2>1
    <2>5. CASE leg[r][i] = k
        <3>1. disk'[r][i] = k /\ leg'[r][i] = k /\ cell'[k][r][i].may = {D[i]}
            BY <2>3, <2>4, <2>5
        <3>2. \A x \in Task : Flushing(x)' => D[i] \in task'[x].base[r][i]
            BY <2>2, <2>3 DEF FlushersPass
        <3>3. QED
            BY <2>2, <2>3, <3>1, <3>2 DEF KeptAt
    <2>6. ASSUME leg[r][i] # k, NEW x \in Task, Flushing(x)', leg'[r][i] \notin task'[x].slabs
          PROVE  Flushing(x) /\ leg[r][i] \notin task[x].slabs /\ task'[x].base[r][i] = task[x].base[r][i]
        BY <2>6 DEF FlushersPass
    <2>7. CASE leg[r][i] # k /\ disk[r][i] = k
        <3>1. disk'[r][i] = None /\ leg'[r][i] = leg[r][i] /\ leg[r][i] # disk[r][i]
            BY <2>4, <2>7
        <3>2. ~ Found(r, i)'
            BY <3>1 DEF Found
        <3>3. dead = {} => Blank \in keep[r][i]
            BY <2>1, <3>1 DEF KeptAt
        <3>4. ASSUME NEW x \in Task, Flushing(x)', Blank \notin task'[x].base[r][i], leg'[r][i] \notin task'[x].slabs
              PROVE  dead # {}
            <4>1. Flushing(x) /\ leg[r][i] \notin task[x].slabs /\ task'[x].base[r][i] = task[x].base[r][i]
                BY <2>6, <2>7, <3>4
            <4>2. QED
                BY <2>1, <3>1, <3>4, <4>1 DEF KeptAt
        <3>5. QED
            BY <3>2, <3>3, <3>4 DEF KeptAt
    <2>8. CASE leg[r][i] # k /\ disk[r][i] # k
        <3>1. disk'[r][i] = disk[r][i] /\ leg'[r][i] = leg[r][i]
            BY <2>4, <2>8
        <3>2. Found(r, i)' => Found(r, i) /\ cell'[disk'[r][i]][r][i] = cell[disk[r][i]][r][i]
            BY <2>4, <2>8, <3>1 DEF Found
        <3>3. ASSUME NEW x \in Task, Flushing(x)', Blank \notin task'[x].base[r][i], leg'[r][i] \notin task'[x].slabs
              PROVE  /\ dead' = {} => leg'[r][i] = disk'[r][i]
                     /\ Found(r, i)' => cell'[disk'[r][i]][r][i].may \subseteq task'[x].base[r][i]
            <4>1. Flushing(x) /\ leg[r][i] \notin task[x].slabs /\ task'[x].base[r][i] = task[x].base[r][i]
                BY <2>6, <2>8, <3>3
            <4>2. QED
                BY <2>1, <3>1, <3>2, <3>3, <4>1 DEF KeptAt
        <3>4. QED
            BY <2>1, <3>1, <3>2, <3>3 DEF KeptAt
    <2>9. QED
        BY <2>5, <2>7, <2>8
<1>12. ASSUME ~ Logged(r)' PROVE Calm(r)'
    <2>1. CASE ~ Logged(r)
        <3>1. Calm(r)
            BY <1>9, <1>12, <2>1
        <3>2. ~ Changing(r)'
            BY <3>1 DEF Calm
        <3>3. ASSUME NEW i \in Member
              PROVE  /\ leg'[r][i] # disk'[r][i] => dead' # {}
                     /\ leg'[r][i] = disk'[r][i] /\ leg'[r][i] # None /\ leg'[r][i] \notin dead' =>
                          cell'[leg'[r][i]][r][i].may = {cell'[leg'[r][i]][r][i].cur}
            <4>1. i \in Leg
                BY Legs
            <4>2. /\ leg[r][i] # disk[r][i] => dead # {}
                  /\ leg[r][i] = disk[r][i] /\ leg[r][i] # None /\ leg[r][i] \notin dead => cell[leg[r][i]][r][i].may = {cell[leg[r][i]][r][i].cur}
                BY <3>1 DEF Calm
            <4>3. CASE leg[r][i] = k
                BY <1>5, <4>1, <4>3
            <4>4. CASE leg[r][i] # k
                BY <1>1, <1>4, <1>5, <4>1, <4>2, <4>4
            <4>5. QED
                BY <4>3, <4>4
        <3>4. QED
            BY <3>2, <3>3 DEF Calm
    <2>2. CASE Logged(r)
        <3>1. ~ Changing(r)' /\ Settled(r)'
            BY <1>3, <1>8, <1>12, <2>2 DEF LoggedStays
        <3>2. \A i \in Member : leg'[r][i] = disk'[r][i] /\ (leg'[r][i] # None => LET c == cell'[leg'[r][i]][r][i] IN c.may = {c.cur})
            BY <3>1, Legs DEF Settled
        <3>3. QED
            BY <3>1, <3>2 DEF Calm
    <2>3. QED
        BY <2>1, <2>2
<1>13. QED
    BY <1>1, <1>10, <1>11, <1>12

\* A flush comes to a slab: it is synced, or is dead, and then nothing is found there.
LEMMA SyncSlabStripe ==
    ASSUME StateOK, StateOK', Book, NEW t \in Task, NEW k \in Slab, SyncSlab(t, k), NEW r \in Stripe, StripeInv(r)
    PROVE  StripeInv(r)'
<1>1. Flushes(t)
    BY DEF Flushes
<1>2. /\ leg' = leg /\ dead' = dead /\ allow' = allow /\ keep' = keep /\ holed' = holed /\ dropped' = dropped
      /\ todo' = todo /\ ticket' = ticket /\ file' = file /\ Excuse /\ failed' = failed \cup ({k} \cap dead \cap attached)
    BY DEF SyncSlab, logVars
<1>3. task[t].pc = "sync" /\ task[t] \in FlushType
    BY FlushTyped DEF SyncSlab
<1>4. task'[t].base = task[t].base /\ task'[t].slabs = task[t].slabs \ {k} /\ Flushing(t)
    <2>1. task' = [task EXCEPT ![t].slabs = @ \ {k}, ![t].lost = @ \/ (Trusted(k) /\ k \in dead)]
        BY DEF SyncSlab
    <2>2. QED
        BY <1>3, <2>1 DEF FlushType, StateOK, Flushing
<1>5. FlushersPass(r, k)
    <2>1. \A x \in Task \ {t} : task'[x] = task[x]
        BY <1>1, FlushElse
    <2>2. QED
        BY <1>4, <2>1 DEF FlushersPass, Flushing
<1>6. ParityTasksStay(r) /\ (Changing(r)' => Changing(r))
    BY <1>1, FlushElse
<1>7. CASE Answers(k)
    <2>1. Sync(k) /\ failed' = failed /\ k \notin dead
        BY <1>2, <1>7 DEF SyncSlab, Answers
    <2>2. QED
        BY <1>2, <1>5, <1>6, <2>1, SyncStripe
<1>8. CASE ~ Answers(k)
    <2> SUFFICES ASSUME Whole(r)'
                 PROVE  /\ (\E D \in [Member -> Content] : Sound(r, D))'
                        /\ Kept(r)'
                        /\ (~ Logged(r) => Calm(r))'
        BY DEF StripeInv
    <2>1. Whole(r) /\ Content' = Content
        BY <1>2, SameTypes DEF Whole
    <2>2. PICK D \in [Member -> Content] : Sound(r, D)
        BY <2>1 DEF StripeInv
    <2>3. cell' = cell /\ disk' = disk
        BY <1>8 DEF SyncSlab
    <2>4. MembersStay(r) /\ ParityStays(r) /\ MayStillRead(r)
        BY <1>2, <2>3 DEF MembersStay, ParityStays, LegStays, MayStillRead
    <2>5. LoggedStays(r) /\ (Known(r)' => Known(r))
        BY <1>2, Excused DEF Book, Known, Serving
    <2>6. Sound(r, D)'
        BY <1>2, <1>6, <2>2, <2>4, <2>5, SoundFrame
    <2>7. (~ Logged(r) => Calm(r))'
        BY <1>2, <1>6, <2>1, <2>4, <2>5, CalmFrame DEF StripeInv
    <2>8. ASSUME NEW i \in Member PROVE KeptAt(r, i)'
        <3>1. KeptAt(r, i)
            BY <2>1 DEF StripeInv, Kept
        <3>2. leg[r][i] = k => k \in dead
            BY <1>8, <2>1, NoneAssumption DEF Book, Homes, Home, Answers, Trusted, Whole
        <3>3. Found(r, i)' <=> Found(r, i)
            BY <1>2, <2>3 DEF Found
        <3>4. ASSUME NEW x \in Task, Flushing(x)', Blank \notin task'[x].base[r][i], leg'[r][i] \notin task'[x].slabs
              PROVE  /\ dead' = {} => leg'[r][i] = disk'[r][i]
                     /\ Found(r, i)' => cell'[disk'[r][i]][r][i].may \subseteq task'[x].base[r][i]
            <4>1. CASE leg[r][i] = k
                BY <1>2, <3>2, <3>3, <4>1 DEF Found
            <4>2. CASE leg[r][i] # k
                <5>1. Flushing(x) /\ leg[r][i] \notin task[x].slabs /\ task'[x].base[r][i] = task[x].base[r][i]
                    BY <1>2, <1>5, <3>4, <4>2 DEF FlushersPass
                <5>2. QED
                    BY <1>2, <2>3, <3>1, <3>3, <3>4, <5>1 DEF KeptAt
            <4>3. QED
                BY <4>1, <4>2
        <3>5. QED
            BY <1>2, <2>3, <3>1, <3>3, <3>4 DEF KeptAt
    <2>9. QED
        BY <2>1, <2>6, <2>7, <2>8 DEF Kept
<1>9. QED
    BY <1>7, <1>8

\* A slab is synced for another volume.
LEMMA SyncByOtherStripe ==
    ASSUME StateOK, StateOK', Book, NEW k \in Slab, SyncByOther(k), NEW r \in Stripe, StripeInv(r)
    PROVE  StripeInv(r)'
<1>1. /\ leg' = leg /\ dead' = dead /\ failed' = failed /\ allow' = allow /\ keep' = keep /\ holed' = holed /\ dropped' = dropped
      /\ todo' = todo /\ ticket' = ticket /\ file' = file /\ task' = task
      /\ k \notin dead /\ Sync(k) /\ Excuse
    BY DEF SyncByOther, Answers, slabVars, logVars
<1>2. FlushersPass(r, k) /\ ParityTasksStay(r) /\ (Changing(r)' => Changing(r))
    BY <1>1 DEF FlushersPass, Flushing, ParityTasksStay, AtParity, Changing
<1>3. QED
    BY <1>1, <1>2, SyncStripe

\* A slab is synced for a record, trusted or not.
LEMMA PersistSyncStripe ==
    ASSUME StateOK, StateOK', Book, NEW k \in Slab, PersistSync(k), NEW r \in Stripe, StripeInv(r)
    PROVE  StripeInv(r)'
<1>1. /\ leg' = leg /\ dead' = dead /\ failed' = failed /\ allow' = allow /\ keep' = keep /\ holed' = holed /\ dropped' = dropped
      /\ todo' = todo /\ ticket' = ticket /\ file' = file /\ task' = task /\ Excuse
    BY DEF PersistSync, slabVars, logVars
<1>2. FlushersPass(r, k) /\ ParityTasksStay(r) /\ (Changing(r)' => Changing(r))
    BY <1>1 DEF FlushersPass, Flushing, ParityTasksStay, AtParity, Changing
<1>3. CASE k \notin dead
    <2>1. Sync(k)
        BY <1>3 DEF PersistSync
    <2>2. QED
        BY <1>1, <1>2, <1>3, <2>1, SyncStripe
<1>4. CASE k \in dead
    <2>1. cell' = cell /\ disk' = disk
        BY <1>4 DEF PersistSync
    <2>2. MembersStay(r) /\ ParityStays(r) /\ MayStillRead(r) /\ MayStillKeep(r)
        BY <1>1, <2>1 DEF MembersStay, ParityStays, LegStays, MayStillRead, MayStillKeep
    <2>3. FlushersStay(r)
        BY <1>1 DEF FlushersStay, Flushing
    <2>4. LoggedStays(r) /\ (Known(r)' => Known(r)) /\ Content' = Content
        BY <1>1, Excused, SameTypes DEF Book, Known, Serving
    <2>5. QED
        BY <1>1, <1>2, <2>2, <2>3, <2>4, StripeFrame
<1>5. QED
    BY <1>3, <1>4

\* A record is taken, or written: the stripes are as they were.
LEMMA RecordStripe ==
    ASSUME StateOK, StateOK', TakeRecord \/ WriteRecord, NEW r \in Stripe, StripeInv(r)
    PROVE  StripeInv(r)'
<1>1. /\ cell' = cell /\ leg' = leg /\ disk' = disk /\ failed' = failed /\ dead' = dead /\ task' = task /\ todo' = todo
      /\ file' = file /\ unlogged' = unlogged /\ allow' = allow /\ keep' = keep /\ holed' = holed /\ dropped' = dropped
      /\ ticket' = ticket
    BY DEF TakeRecord, WriteRecord, mapVars, slabVars, logVars, histVars
<1>2. MembersStay(r) /\ ParityStays(r) /\ MayStillRead(r) /\ MayStillKeep(r)
    BY <1>1 DEF MembersStay, ParityStays, LegStays, MayStillRead, MayStillKeep
<1>3. FlushersStay(r) /\ ParityTasksStay(r) /\ (Changing(r)' <=> Changing(r))
    BY <1>1 DEF FlushersStay, ParityTasksStay, Changing, AtParity, Flushing
<1>4. LoggedStays(r) /\ (Known(r)' => Known(r)) /\ Content' = Content
    BY <1>1, SameTypes DEF LoggedStays, Logged, Known, Serving
<1>5. QED
    BY <1>1, <1>2, <1>3, <1>4, StripeFrame

-----------------------------------------------------------------------------
(* Resyncs, deaths and starts                                               *)

\* A step that leaves requests and flushes alone.
LEMMA TasksStay ==
    ASSUME task' = task, NEW r \in Stripe
    PROVE  FlushersStay(r) /\ ParityTasksStay(r) /\ (Changing(r)' <=> Changing(r))
BY DEF FlushersStay, ParityTasksStay, Changing, AtParity, Flushing

\* A slab dies, and the volume does not know yet.
LEMMA SlabDiesStripe ==
    ASSUME StateOK, StateOK', NEW k \in Slab, SlabDies(k), NEW r \in Stripe, StripeInv(r)
    PROVE  StripeInv(r)'
<1>1. /\ cell' = cell /\ leg' = leg /\ disk' = disk /\ failed' = failed /\ dead \subseteq dead' /\ task' = task /\ todo' = todo
      /\ file' = file /\ unlogged' = unlogged /\ allow' = allow /\ keep' = keep /\ holed' = holed /\ dropped' = dropped
      /\ ticket' = ticket
    BY DEF SlabDies, mapVars, logVars, histVars
<1>2. MembersStay(r) /\ ParityStays(r) /\ MayStillRead(r) /\ MayStillKeep(r)
    BY <1>1 DEF MembersStay, ParityStays, LegStays, MayStillRead, MayStillKeep
<1>3. FlushersStay(r) /\ ParityTasksStay(r) /\ (Changing(r)' <=> Changing(r))
    BY <1>1, TasksStay
<1>4. LoggedStays(r) /\ (Known(r)' => Known(r))
    BY <1>1 DEF LoggedStays, Logged, Known, Serving
<1>5. Content' = Content
    BY <1>1, SameTypes
<1>6. QED
    BY <1>1, <1>2, <1>3, <1>4, <1>5, StripeFrame

\* A start is through: the log is cleared, and a stripe with parity still in its
\* slab's cache is excused.
LEMMA VerifiedStripe ==
    ASSUME StateOK, StateOK', Book, Verified, NEW r \in Stripe, StripeInv(r)
    PROVE  StripeInv(r)'
<1>1. /\ cell' = cell /\ leg' = leg /\ disk' = disk /\ failed' = failed /\ dead' = dead /\ task' = task
      /\ todo = {} /\ unlogged' = {s \in Stripe : ~ Settled(s)}
      /\ allow' = allow /\ keep' = keep /\ holed' = holed /\ dropped' = dropped /\ ticket' = ticket
    BY DEF Verified, mapVars, slabVars
<1>2. MembersStay(r) /\ ParityStays(r) /\ MayStillRead(r) /\ MayStillKeep(r)
    BY <1>1 DEF MembersStay, ParityStays, LegStays, MayStillRead, MayStillKeep
<1>3. FlushersStay(r) /\ ParityTasksStay(r) /\ (Changing(r)' <=> Changing(r))
    BY <1>1, TasksStay
<1>4. Known(r) /\ Known(r)'
    BY <1>1 DEF Verified, Known, Serving
<1>5. \A t \in Task : task[t] = Idle
    <2>1. ~ Serving
        BY <1>1, NoneAssumption DEF Serving
    <2>2. QED
        BY <2>1 DEF Book, Starts
<1>6. ~ Logged(r)' => ~ Needed(r)'
    <2>1. ~ Logged(r)' => Settled(r)
        BY <1>1 DEF Logged
    <2>2. Settled(r)' <=> Settled(r)
        BY <1>1 DEF Settled
    <2>3. \A t \in Task : task'[t].pc = "idle"
        BY <1>1, <1>5 DEF Idle
    <2>4. QED
        BY <2>1, <2>2, <2>3 DEF Needed
<1>7. LoggedStays(r)
    BY <1>4, <1>6 DEF LoggedStays
<1>8. Content' = Content
    BY <1>1, SameTypes
<1>9. QED
    BY <1>1, <1>2, <1>3, <1>4, <1>7, <1>8, StripeFrame

\* A start verifies a stripe: its parity is that of its members, when they and the
\* parity are there.
LEMMA VerifyStripe ==
    ASSUME StateOK, StateOK', Book, NEW s \in Stripe, Verify(s), NEW r \in Stripe, StripeInv(r)
    PROVE  StripeInv(r)'
<1>1. /\ leg' = leg /\ disk' = disk /\ failed \subseteq failed' /\ dead' = dead /\ task' = task /\ todo' = todo \ {s}
      /\ file' = file /\ unlogged' = unlogged /\ allow' = allow /\ keep' = keep /\ holed \subseteq holed' /\ dropped' = dropped
      /\ ticket' = ticket /\ ~ Serving /\ s \in todo
    BY DEF Verify, mapVars, logVars
<1>2. P \in Leg /\ P \notin Member /\ Member \subseteq Leg /\ leg[s][P] \in Slab \cup {None}
    BY Legs DEF StateOK, Map
<1>3. cell' = cell \/ (leg[s][P] \in Slab /\ \E c : cell' = [cell EXCEPT ![leg[s][P]][s][P] = c])
    BY <1>2 DEF Verify
<1>4. \A m \in Slab, i \in Leg : r # s \/ i # P => cell'[m][r][i] = cell[m][r][i]
    <2>1. ASSUME NEW k \in Slab, NEW c, cell' = [cell EXCEPT ![k][s][P] = c]
          PROVE  \A m \in Slab, i \in Leg : r # s \/ i # P => cell'[m][r][i] = cell[m][r][i]
        BY <1>2, <2>1 DEF StateOK, Slots
    <2>2. QED
        BY <1>3, <2>1
<1>5. MembersStay(r) /\ MayStillRead(r) /\ MayStillKeep(r)
    BY <1>1, <1>2, <1>4 DEF MembersStay, LegStays, MayStillRead, MayStillKeep
<1>6. FlushersStay(r) /\ ParityTasksStay(r) /\ (Changing(r)' <=> Changing(r))
    BY <1>1, TasksStay
<1>7. Content' = Content /\ (Logged(r)' <=> Logged(r))
    BY <1>1, SameTypes DEF Logged
<1>8. todo \subseteq file.cur /\ \A t \in Task : task[t] = Idle
    BY <1>1 DEF Book, Starts
<1>9. CASE r # s
    <2>1. ParityStays(r)
        BY <1>1, <1>2, <1>4, <1>9 DEF ParityStays, LegStays
    <2>2. ~ Serving'
        <3>1. file.cur \in SUBSET Stripe
            BY DEF StateOK, Cell
        <3>2. todo' \in SUBSET Stripe
            BY <1>1, <1>8, <3>1
        <3>3. QED
            BY <3>2, NoneAssumption DEF Serving
    <2>3. LoggedStays(r) /\ (Known(r)' => Known(r))
        BY <1>1, <1>7, <1>9, <2>2 DEF LoggedStays, Known
    <2>4. QED
        BY <1>1, <1>5, <1>6, <1>7, <2>1, <2>3, StripeFrame
<1>10. CASE r = s
    <2> SUFFICES ASSUME Whole(s)'
                 PROVE  /\ (\E D \in [Member -> Content] : Sound(s, D))'
                        /\ Kept(s)'
                        /\ (~ Logged(s) => Calm(s))'
        BY <1>10 DEF StripeInv
    <2>1. Whole(s) /\ Lost(s) = {} /\ leg[s][P] \notin Slab \ (attached \cup failed)
        BY DEF Whole, Verify
    <2>2. Logged(s)'
        BY <1>1, <1>8 DEF Logged
    <2>3. PICK D \in [Member -> Content] : Sound(s, D)
        BY <1>10, <2>1 DEF StripeInv
    <2>4. Assemble(s) = D /\ Recoverable(s)
        BY <2>1, <2>3, ReadAll DEF Sound, Recoverable
    <2>5. \A t \in Task : ~ AtParity(t, s)'
        BY <1>1, <1>8 DEF AtParity, Idle
    <2>6. ParityIs(s, D)'
        <3> SUFFICES ASSUME leg[s][P] # None, leg[s][P] \notin failed', leg[s][P] \notin dead
                     PROVE  cell'[leg[s][P]][s][P].cur = Xor(D)
            BY <1>1 DEF ParityIs, Good
        <3>1. PICK k \in Slab : k = leg[s][P]
            BY <1>2
        <3>2. Answers(k)
            BY <1>1, <2>1, <3>1 DEF Answers, Trusted
        <3>3. cell' = [cell EXCEPT ![k][s][P] = Put(@, Xor(D))]
            BY <2>4, <3>1, <3>2 DEF Verify
        <3>4. cell'[k][s][P] = Put(cell[k][s][P], Xor(D))
            BY <1>2, <3>3 DEF StateOK, Slots
        <3>5. QED
            BY <3>1, <3>4 DEF Put
    <2>7. Members(s, D)'
        <3>1. Members(s, D)
            BY <2>3 DEF Sound
        <3>2. ASSUME NEW j \in Member
              PROVE  /\ leg'[s][j] = None => D[j] = Blank
                     /\ leg'[s][j] # None /\ leg'[s][j] \notin dead' => cell'[leg'[s][j]][s][j].cur = D[j]
            <4>1. leg[s][j] \in Slab \cup {None} /\ \A m \in Slab : cell'[m][s][j] = cell[m][s][j]
                BY <1>2, <1>4, <1>10 DEF StateOK, Map
            <4>2. QED
                BY <1>1, <3>1, <4>1 DEF Members
        <3>3. QED
            BY <3>2 DEF Members
    <2>8. \A i \in Member : D[i] \in allow'[s][i]
        BY <1>1, <2>3 DEF Sound
    <2>9. Sound(s, D)'
        BY <2>2, <2>5, <2>6, <2>7, <2>8 DEF Sound
    <2>10. Kept(s)'
        BY <1>1, <1>5, <1>6, <1>10, <2>1, KeptFrame DEF StripeInv, Kept, MembersStay
    <2>11. QED
        BY <1>7, <2>2, <2>9, <2>10
<1>11. QED
    BY <1>9, <1>10

\* A resync puts what was on slabs that are gone on others: the stripe holds the
\* same, in slots no table names.
LEMMA ResyncStripe ==
    ASSUME StateOK, StateOK', TablesInv, Book, NEW s \in Stripe, Resync(s), NEW r \in Stripe, StripeInv(r)
    PROVE  StripeInv(r)'
<1>1. /\ disk' = disk /\ attached' = attached /\ failed' = failed /\ dead' = dead /\ task' = task /\ todo' = todo
      /\ file' = file /\ unlogged' = unlogged /\ allow' = allow /\ keep' = keep /\ holed' = holed /\ dropped' = dropped
      /\ ticket' = ticket /\ Serving /\ Free(s) /\ Recoverable(s)
    BY DEF Resync, slabVars, logVars, histVars
<1>2. PICK to \in Rebuilt(s) :
          /\ leg' = [leg EXCEPT ![s] = to]
          /\ cell' = [k \in Slab |-> [cell[k] EXCEPT ![s] = [i \in Leg |->
                         IF to[i] = k /\ leg[s][i] # k
                         THEN Put(@[i], IF i = P THEN Xor(Assemble(s)) ELSE Assemble(s)[i])
                         ELSE @[i]]]]
    BY DEF Resync
<1>3. MayStillRead(r) /\ MayStillKeep(r) /\ FlushersStay(r) /\ ParityTasksStay(r) /\ (Changing(r)' <=> Changing(r))
    BY <1>1, TasksStay DEF MayStillRead, MayStillKeep
<1>4. Content' = Content /\ (Logged(r)' <=> Logged(r)) /\ (Known(r)' <=> Known(r))
    BY <1>1, SameTypes DEF Logged, Known, Serving
<1>5. CASE r # s
    <2>1. \A i \in Leg : leg'[r][i] = leg[r][i]
        BY <1>2, <1>5 DEF StateOK, Map
    <2>2. \A k \in Slab : cell'[k][r] = cell[k][r]
        BY <1>2, <1>5 DEF StateOK, Slots
    <2>3. MembersStay(r) /\ ParityStays(r)
        BY <1>1, <2>1, <2>2, Legs DEF MembersStay, ParityStays, LegStays
    <2>4. LoggedStays(r)
        BY <1>4 DEF LoggedStays
    <2>5. QED
        BY <1>1, <1>3, <1>4, <2>3, <2>4, StripeFrame
<1>6. CASE r = s
    <2> SUFFICES ASSUME Whole(s)'
                 PROVE  /\ (\E D \in [Member -> Content] : Sound(s, D))'
                        /\ Kept(s)'
                        /\ (~ Logged(s) => Calm(s))'
        BY <1>6 DEF StripeInv
    <2>1. Whole(s)
        BY <1>1 DEF Whole
    <2>2. PICK D \in [Member -> Content] : Sound(s, D)
        BY <1>6, <2>1 DEF StripeInv
    <2>3. \A t \in Task : ~ AtParity(t, s)
        BY <1>1 DEF Free, Holds, AtParity
    <2>4. ParityIs(s, D) /\ Members(s, D)
        BY <1>1, <2>2, <2>3 DEF Sound, Known
    <2>5. Assemble(s) = D
        BY <1>1, <2>4, PutTogether
    <2>6. P \in Leg /\ P \notin Member /\ Member \subseteq Leg
        BY Legs
    <2> DEFINE new(i) == IF i = P THEN Xor(D) ELSE D[i]
    <2>7. ASSUME NEW k \in Slab, NEW i \in Leg
          PROVE  cell'[k][s][i] = IF to[i] = k /\ leg[s][i] # k THEN Put(cell[k][s][i], new(i)) ELSE cell[k][s][i]
        <3>1. cell'[k] = [cell[k] EXCEPT ![s] = [j \in Leg |->
                         IF to[j] = k /\ leg[s][j] # k
                         THEN Put(cell[k][s][j], IF j = P THEN Xor(Assemble(s)) ELSE Assemble(s)[j])
                         ELSE cell[k][s][j]]]
            BY <1>2
        <3>2. cell[k] \in [Stripe -> [Leg -> Cell(Content)]]
            BY DEF StateOK, Slots
        <3>3. cell'[k][s][i] = IF to[i] = k /\ leg[s][i] # k
                               THEN Put(cell[k][s][i], IF i = P THEN Xor(Assemble(s)) ELSE Assemble(s)[i])
                               ELSE cell[k][s][i]
            BY <3>1, <3>2
        <3>4. QED
            BY <2>5, <3>3
    <2>8. \A i \in Leg : leg'[s][i] = to[i] /\ leg[s][i] \in Slab \cup {None} /\ disk[s][i] \in Slab \cup {None}
        BY <1>2 DEF StateOK, Map
    <2>9. ASSUME NEW i \in Leg, to[i] # leg[s][i]
          PROVE  /\ to[i] \in Slab /\ to[i] # None /\ to[i] # disk[s][i]
                 /\ ~ (leg[s][i] # None /\ Trusted(leg[s][i])) /\ (i \in Member => leg[s][i] # None)
        <3>1. to[i] \in Apart(s, i) /\ ~ (leg[s][i] # None /\ Trusted(leg[s][i])) /\ (i \in Member => leg[s][i] # None)
            BY <2>9 DEF Rebuilt
        <3>2. to[i] \in Slab /\ table[to[i]][s][i] = 0
            BY <3>1 DEF Apart, StateOK
        <3>3. disk[s][i] # None => table[disk[s][i]][s][i] > 0
            BY <2>1 DEF TablesInv, Tabled, Whole
        <3>4. QED
            BY <3>1, <3>2, <3>3, NoneAssumption
    <2>10. ASSUME NEW i \in Member, to[i] # leg[s][i] PROVE dead # {}
        BY <2>1, <2>6, <2>9, <2>10 DEF Book, Homes, Home, Trusted, Whole
    <2>11. ASSUME NEW i \in Leg, to[i] = leg[s][i] PROVE \A k \in Slab : cell'[k][s][i] = cell[k][s][i]
        BY <2>7, <2>11
    <2>12. ASSUME NEW i \in Leg, to[i] # leg[s][i] PROVE cell'[to[i]][s][i].cur = new(i)
        <3>1. to[i] \in Slab
            BY <2>9, <2>12
        <3>2. cell'[to[i]][s][i] = Put(cell[to[i]][s][i], new(i))
            BY <2>7, <2>12, <3>1
        <3> HIDE DEF new
        <3>3. QED
            BY <3>2 DEF Put
    <2>13. ASSUME NEW i \in Leg, disk[s][i] # None PROVE cell'[disk[s][i]][s][i] = cell[disk[s][i]][s][i]
        <3>1. disk[s][i] \in Slab
            BY <2>8, <2>13
        <3>2. CASE to[i] = leg[s][i]
            BY <2>11, <3>1, <3>2
        <3>3. CASE to[i] # leg[s][i]
            <4>1. to[i] # disk[s][i]
                BY <2>9, <3>3
            <4> HIDE DEF new
            <4>2. QED
                BY <2>7, <3>1, <4>1
        <3>4. QED
            BY <3>2, <3>3
    <2>14. Members(s, D)'
        <3> SUFFICES ASSUME NEW i \in Member
                     PROVE  /\ leg'[s][i] = None => D[i] = Blank
                            /\ leg'[s][i] # None /\ leg'[s][i] \notin dead' => cell'[leg'[s][i]][s][i].cur = D[i]
            BY DEF Members
        <3>1. i \in Leg /\ i # P
            BY <2>6
        <3>2. CASE to[i] = leg[s][i]
            BY <1>1, <2>4, <2>8, <2>11, <3>1, <3>2 DEF Members
        <3>3. CASE to[i] # leg[s][i]
            BY <2>8, <2>9, <2>12, <3>1, <3>3
        <3>4. QED
            BY <3>2, <3>3
    <2>15. ParityIs(s, D)'
        <3>1. CASE to[P] = leg[s][P]
            <4>1. leg'[s][P] = leg[s][P] /\ leg[s][P] \in Slab \cup {None} /\ \A k \in Slab : cell'[k][s][P] = cell[k][s][P]
                BY <2>6, <2>8, <2>11, <3>1
            <4>2. QED
                BY <1>1, <2>4, <4>1 DEF ParityIs, Good
        <3>2. CASE to[P] # leg[s][P]
            BY <2>6, <2>8, <2>12, <3>2 DEF ParityIs
        <3>3. QED
            BY <3>1, <3>2
    <2>16. Sound(s, D)'
        <3>1. \A i \in Member : D[i] \in allow'[s][i]
            BY <1>1, <2>2 DEF Sound
        <3>2. \A t \in Task : ~ AtParity(t, s)'
            BY <1>1, <2>3 DEF AtParity
        <3>3. ~ Logged(s)' => ParityKept(s, D)'
            <4>1. ~ Logged(s)' => ParityKept(s, D)
                BY <1>4, <1>6, <2>2 DEF Sound
            <4>2. disk[s][P] # None => cell'[disk[s][P]][s][P] = cell[disk[s][P]][s][P]
                BY <2>6, <2>13
            <4>3. QED
                BY <1>1, <4>1, <4>2 DEF ParityKept, Good
        <3>4. QED
            BY <2>14, <2>15, <3>1, <3>2, <3>3 DEF Sound
    <2>17. Kept(s)'
        <3> SUFFICES ASSUME NEW i \in Member PROVE KeptAt(s, i)'
            BY DEF Kept
        <3>1. KeptAt(s, i) /\ i \in Leg
            BY <1>6, <2>1, <2>6 DEF StripeInv, Kept
        <3>2. CASE to[i] = leg[s][i]
            <4>1. LegStays(s, i)
                BY <1>1, <2>8, <2>11, <3>1, <3>2 DEF LegStays
            <4>2. QED
                BY <1>1, <1>3, <1>6, <3>1, <4>1, KeptFrame
        <3>3. CASE to[i] # leg[s][i]
            <4>1. dead' # {} /\ leg'[s][i] # disk'[s][i]
                BY <1>1, <2>8, <2>9, <2>10, <3>1, <3>3
            <4>2. ~ Found(s, i)'
                BY <4>1 DEF Found
            <4>3. QED
                BY <4>1, <4>2 DEF KeptAt
        <3>4. QED
            BY <3>2, <3>3
    <2>18. ASSUME ~ Logged(s)' PROVE Calm(s)'
        <3>1. Calm(s)
            BY <1>4, <1>6, <2>1, <2>18 DEF StripeInv
        <3>2. ~ Changing(s)'
            BY <1>3, <1>6, <3>1 DEF Calm
        <3>3. ASSUME NEW i \in Member
              PROVE  /\ leg'[s][i] # disk'[s][i] => dead' # {}
                     /\ leg'[s][i] = disk'[s][i] /\ leg'[s][i] # None /\ leg'[s][i] \notin dead' =>
                          cell'[leg'[s][i]][s][i].may = {cell'[leg'[s][i]][s][i].cur}
            <4>1. i \in Leg
                BY <2>6
            <4>2. CASE to[i] = leg[s][i]
                <5>1. /\ leg[s][i] # disk[s][i] => dead # {}
                      /\ leg[s][i] = disk[s][i] /\ leg[s][i] # None /\ leg[s][i] \notin dead =>
                           cell[leg[s][i]][s][i].may = {cell[leg[s][i]][s][i].cur}
                    BY <3>1 DEF Calm
                <5>2. leg'[s][i] = leg[s][i] /\ leg[s][i] \in Slab \cup {None} /\ \A k \in Slab : cell'[k][s][i] = cell[k][s][i]
                    BY <2>8, <2>11, <4>1, <4>2
                <5>3. QED
                    BY <1>1, <5>1, <5>2
            <4>3. CASE to[i] # leg[s][i]
                BY <1>1, <2>8, <2>9, <2>10, <4>1, <4>3
            <4>4. QED
                BY <4>2, <4>3
        <3>4. QED
            BY <3>2, <3>3 DEF Calm
    <2>19. QED
        BY <1>4, <2>16, <2>17, <2>18
<1>7. QED
    BY <1>5, <1>6

\* A power cut: of a stripe the log names anything that is kept may be read, and its
\* parity is verified; a stripe it does not name is as it was, its parity too.
LEMMA PowerCutStripe ==
    ASSUME StateOK, StateOK', TablesInv, Book, NEW absent, PowerCut(absent), NEW s \in Stripe, StripeInv(s)
    PROVE  StripeInv(s)'
<1> SUFFICES ASSUME Whole(s)'
             PROVE  /\ (\E D \in [Member -> Content] : Sound(s, D))'
                    /\ Kept(s)'
                    /\ (~ Logged(s) => Calm(s))'
    BY DEF StripeInv
<1> DEFINE S == Slab \X Stripe \X Leg
           cells == [x \in S |-> cell[x[1]][x[2]][x[3]]]
<1>1. PICK contents \in Cut(cells), marks \in file.may :
          /\ cell' = [k \in Slab |-> [r \in Stripe |-> [i \in Leg |-> Durable(contents[<<k, r, i>>])]]]
          /\ file' = Durable(marks) /\ todo' = marks /\ holed' = holed \cup (unlogged \ marks)
    BY DEF PowerCut
<1>2. /\ attached' = Slab \ (absent \cup dead) /\ dead' = dead /\ disk' = leg' /\ allow' = keep /\ keep' = keep
      /\ unlogged' = {} /\ ticket' = ticket /\ \A t \in Task : task'[t] = Idle
    BY DEF PowerCut
<1>3. \A k \in Slab, i \in Leg : /\ cell'[k][s][i].cur \in cell[k][s][i].may
                                 /\ cell'[k][s][i].may = {cell'[k][s][i].cur}
    <2>1. cells \in [S -> Cell(Content)]
        BY DEF StateOK, Slots
    <2>2. \A x \in S : contents[x] \in cells[x].may
        <3> HIDE DEF cells, S
        <3>1. QED
            BY <2>1, CutKeeps
    <2>3. ASSUME NEW k \in Slab, NEW i \in Leg
          PROVE  /\ cell'[k][s][i].cur \in cell[k][s][i].may
                 /\ cell'[k][s][i].may = {cell'[k][s][i].cur}
        <3>1. <<k, s, i>> \in S /\ cells[<<k, s, i>>] = cell[k][s][i]
            OBVIOUS
        <3>2. contents[<<k, s, i>>] \in cell[k][s][i].may
            BY <2>2, <3>1
        <3>3. cell'[k][s][i] = Durable(contents[<<k, s, i>>])
            BY <1>1
        <3>4. QED
            BY <3>2, <3>3 DEF Durable
    <2>4. QED
        BY <2>3
<1> HIDE DEF S, cells
<1>4. Whole(s) /\ (s \in unlogged => s \in marks)
    <2>1. s \notin dropped
        BY PowerCutLegs, Legs DEF Whole
    <2>2. QED
        BY <1>1, <2>1 DEF Whole
<1>5. attached' = Slab => dead = {}
    BY <1>2 DEF StateOK
<1>6. Member \subseteq Leg /\ P \in Leg /\ P \notin Member
    BY Legs
<1>7. /\ leg'[s][P] # None => leg'[s][P] = disk[s][P] /\ (leg'[s][P] \in failed => leg'[s][P] \in failed')
      /\ \A i \in Leg : (leg'[s][i] = None \/ leg'[s][i] = disk[s][i]) /\ disk'[s][i] = leg'[s][i]
    BY <1>2, <1>6, PowerCutLegs DEF Whole
<1>8. \A i \in Leg : leg[s][i] \in Slab \cup {None} /\ disk[s][i] \in Slab \cup {None}
    BY DEF StateOK, Map
<1>9. Logged(s)' <=> s \in marks
    BY <1>1, <1>2 DEF Logged, Durable
<1>10. Known(s)' <=> s \notin marks
    <2>1. marks \in SUBSET Stripe
        BY DEF StateOK, Cell
    <2>2. QED
        BY <1>1, <2>1, NoneAssumption DEF Known, Serving
<1>11. (\A t \in Task : ~ AtParity(t, s)') /\ ~ Changing(s)' /\ \A t \in Task : ~ Flushing(t)'
    BY <1>2 DEF AtParity, Changing, Flushing, Idle
<1>12. PICK D \in [Member -> Content] : Sound(s, D)
    BY <1>4 DEF StripeInv
<1>13. PICK E \in [Member -> Content'] : E = [i \in Member |-> IF leg'[s][i] = None THEN Blank ELSE cell'[leg'[s][i]][s][i].cur]
    <2>1. ASSUME NEW i \in Member, leg'[s][i] # None PROVE cell'[leg'[s][i]][s][i].cur \in Content'
        <3>1. leg'[s][i] \in Slab /\ i \in Leg
            BY <1>6, <1>7, <1>8, <2>1
        <3>2. cell'[leg'[s][i]][s][i] \in Cell(Content')
            BY <3>1 DEF StateOK, Slots
        <3>3. QED
            BY <3>2 DEF Cell
    <2>2. Blank \in Content'
        BY DEF Blank, Content
    <2>3. QED
        BY <2>1, <2>2
<1>14. ASSUME NEW i \in Member
       PROVE  \/ leg'[s][i] = None /\ leg[s][i] = None
              \/ leg'[s][i] = None /\ dead = {} /\ leg[s][i] # disk[s][i]
              \/ leg'[s][i] # None /\ leg'[s][i] = disk[s][i] /\ Found(s, i) /\ (dead # {} => leg[s][i] = disk[s][i])
    <2>1. /\ leg'[s][i] # None => leg'[s][i] = disk[s][i] /\ leg'[s][i] \in attached'
          /\ leg'[s][i] = None /\ disk[s][i] \in attached' => leg[s][i] # disk[s][i]
          /\ leg'[s][i] = leg[s][i] \/ attached' = Slab
        BY <1>6, PowerCutLegs DEF Whole
    <2>2. disk[s][i] \in Slab \cup {None} /\ \A k \in attached' : k \notin dead
        BY <1>2, <1>6, <1>8
    <2>3. CASE leg'[s][i] # None
        BY <1>5, <2>1, <2>2, <2>3 DEF Found
    <2>4. CASE leg'[s][i] = None
        BY <1>5, <2>1, <2>2, <2>4
    <2>5. QED
        BY <2>3, <2>4
<1>15. ASSUME NEW i \in Member PROVE E[i] \in keep[s][i]
    <2>1. KeptAt(s, i) /\ i \in Leg
        BY <1>4, <1>6 DEF StripeInv, Kept
    <2>2. D[i] \in keep[s][i] /\ (leg[s][i] = None => D[i] = Blank)
        BY <1>12 DEF Sound, Members, Book, Bases
    <2>3. CASE leg'[s][i] = None
        <3>1. E[i] = Blank
            BY <1>13, <2>3
        <3>2. CASE leg[s][i] = None
            BY <2>2, <3>1, <3>2
        <3>3. CASE leg[s][i] # None
            <4>1. dead = {} /\ leg[s][i] # disk[s][i]
                BY <1>14, <2>3, <3>3
            <4>2. QED
                BY <2>1, <3>1, <4>1 DEF KeptAt
        <3>4. QED
            BY <3>2, <3>3
    <2>4. CASE leg'[s][i] # None
        <3>1. leg'[s][i] = disk[s][i] /\ Found(s, i) /\ disk[s][i] \in Slab
            BY <1>8, <1>14, <2>1, <2>4
        <3>2. E[i] = cell'[disk[s][i]][s][i].cur
            BY <1>13, <2>4, <3>1
        <3>3. E[i] \in cell[disk[s][i]][s][i].may
            BY <1>3, <2>1, <3>1, <3>2
        <3>4. QED
            BY <2>1, <3>1, <3>3 DEF KeptAt
    <2>5. QED
        BY <2>3, <2>4
<1>16. ASSUME s \notin marks PROVE ~ Logged(s) /\ Calm(s) /\ ParityKept(s, D)
    <2>1. s \notin file.cur
        <3>1. file.cur # {} => marks = file.cur
            BY DEF Book, Files
        <3>2. QED
            BY <1>16, <3>1
    <2>2. ~ Logged(s)
        BY <1>4, <1>16, <2>1 DEF Logged
    <2>3. QED
        BY <1>4, <1>12, <2>2 DEF StripeInv, Sound
<1>17. ASSUME s \notin marks PROVE E = D
    <2>1. ASSUME NEW i \in Member PROVE E[i] = D[i]
        <3>1. i \in Leg /\ Calm(s) /\ Members(s, D)
            BY <1>6, <1>12, <1>16, <1>17 DEF Sound
        <3>2. leg[s][i] # disk[s][i] => dead # {}
            BY <3>1 DEF Calm
        <3>3. CASE leg'[s][i] = None
            <4>1. leg[s][i] = None
                BY <1>14, <3>2, <3>3
            <4>2. QED
                BY <1>13, <3>1, <3>3, <4>1 DEF Members
        <3>4. CASE leg'[s][i] # None
            <4>1. leg[s][i] = disk[s][i] /\ leg'[s][i] = disk[s][i] /\ disk[s][i] \in Slab /\ disk[s][i] # None /\ disk[s][i] \notin dead
                BY <1>8, <1>14, <3>1, <3>2, <3>4 DEF Found
            <4>2. cell[disk[s][i]][s][i].may = {D[i]}
                BY <3>1, <4>1 DEF Calm, Members
            <4>3. QED
                BY <1>3, <1>13, <3>1, <3>4, <4>1, <4>2
        <3>5. QED
            BY <3>3, <3>4
    <2>2. E = [i \in Member |-> E[i]] /\ D = [i \in Member |-> D[i]]
        OBVIOUS
    <2>3. QED
        BY <2>1, <2>2
<1>18. ASSUME s \notin marks PROVE ParityIs(s, E)' /\ ParityKept(s, E)'
    <2>1. ParityKept(s, E)
        BY <1>16, <1>17, <1>18
    <2>2. CASE leg'[s][P] = None
        BY <1>6, <1>7, <2>2 DEF ParityIs, ParityKept
    <2>3. CASE leg'[s][P] # None
        <3>1. PICK k \in Slab : k = disk[s][P] /\ k = leg'[s][P]
            BY <1>6, <1>7, <1>8, <2>3
        <3>2. cell'[k][s][P].cur \in cell[k][s][P].may /\ cell'[k][s][P].may = {cell'[k][s][P].cur}
            BY <1>3, <1>6
        <3>3. Good(k) => cell[k][s][P].may = {Xor(E)}
            BY <2>1, <2>3, <3>1, NoneAssumption DEF ParityKept
        <3>4. Good(k) => cell'[k][s][P].cur = Xor(E) /\ cell'[k][s][P].may = {Xor(E)}
            BY <3>2, <3>3
        <3>5. leg'[s][P] = k /\ disk'[s][P] = k /\ (k \notin failed' /\ k \notin dead' => Good(k))
            BY <1>2, <1>6, <1>7, <2>3, <3>1 DEF Good
        <3>6. QED
            BY <3>4, <3>5 DEF ParityIs, ParityKept, Good
    <2>4. QED
        BY <2>2, <2>3
<1>19. Sound(s, E)'
    <2>1. \A i \in Member : E[i] \in allow'[s][i]
        BY <1>2, <1>15
    <2>2. Members(s, E)'
        BY <1>13 DEF Members
    <2>3. QED
        BY <1>9, <1>10, <1>11, <1>18, <2>1, <2>2 DEF Sound
<1>20. ASSUME NEW i \in Member, leg'[s][i] # None
       PROVE  cell'[leg'[s][i]][s][i].may = {cell'[leg'[s][i]][s][i].cur} /\ cell'[leg'[s][i]][s][i].cur = E[i]
    <2>1. leg'[s][i] \in Slab /\ i \in Leg
        BY <1>6, <1>7, <1>8, <1>20
    <2>2. QED
        BY <1>3, <1>13, <1>20, <2>1
<1>21. Kept(s)'
    <2> SUFFICES ASSUME NEW i \in Member PROVE KeptAt(s, i)'
        BY DEF Kept
    <2>1. disk'[s][i] = leg'[s][i]
        BY <1>6, <1>7
    <2>2. ASSUME leg'[s][i] # None PROVE cell'[disk'[s][i]][s][i].may \subseteq keep'[s][i]
        <3>1. cell'[disk'[s][i]][s][i].may = {E[i]}
            BY <1>20, <2>1, <2>2
        <3>2. E[i] \in keep'[s][i]
            BY <1>2, <1>15
        <3>3. QED
            BY <3>1, <3>2
    <2>3. QED
        BY <1>11, <2>1, <2>2 DEF KeptAt, Found
<1>22. Calm(s)'
    <2>1. \A i \in Member : disk'[s][i] = leg'[s][i]
        BY <1>6, <1>7
    <2>2. QED
        BY <1>11, <1>20, <2>1 DEF Calm
<1>23. QED
    BY <1>13, <1>19, <1>21, <1>22

-----------------------------------------------------------------------------
(* Every behaviour                                                          *)

\* Every step keeps what is said of every stripe.
LEMMA StripeNext ==
    ASSUME StateOK, StateOK', TablesInv, Locked, Book, [Next]_vars, NEW r \in Stripe, StripeInv(r)
    PROVE  StripeInv(r)'
<1>1. ASSUME NEW t \in Task, NEW s \in Stripe, NEW i \in Member, BeginWrite(t, s, i) \/ BeginDiscard(t, s, i) PROVE StripeInv(r)'
    BY <1>1, BeginStripe DEF Book
<1>2. ASSUME NEW t \in Task, Advances(t) PROVE StripeInv(r)'
    BY <1>2, AdvanceStripe
<1>3. ASSUME NEW t \in Task, Flushes(t) PROVE StripeInv(r)'
    BY <1>3, FlushStripe, SyncSlabStripe DEF Flushes
<1>4. CASE Others
    BY <1>4, ResyncStripe, VerifyStripe, SyncByOtherStripe, SlabDiesStripe, PersistSyncStripe, RecordStripe, VerifiedStripe
       DEF Others
<1>5. ASSUME NEW absent, PowerCut(absent) PROVE StripeInv(r)'
    BY <1>5, PowerCutStripe
<1>6. CASE UNCHANGED vars
    <2>1. /\ cell' = cell /\ leg' = leg /\ disk' = disk /\ failed' = failed /\ dead' = dead /\ task' = task /\ todo' = todo
          /\ file' = file /\ unlogged' = unlogged /\ allow' = allow /\ keep' = keep /\ holed' = holed /\ dropped' = dropped
          /\ ticket' = ticket
        BY <1>6 DEF vars
    <2>2. MembersStay(r) /\ ParityStays(r) /\ MayStillRead(r) /\ MayStillKeep(r)
        BY <2>1 DEF MembersStay, ParityStays, LegStays, MayStillRead, MayStillKeep
    <2>3. FlushersStay(r) /\ ParityTasksStay(r) /\ (Changing(r)' <=> Changing(r))
        BY <2>1, TasksStay
    <2>4. LoggedStays(r) /\ (Known(r)' => Known(r)) /\ Content' = Content
        BY <2>1, SameTypes DEF LoggedStays, Logged, Known, Serving
    <2>5. QED
        BY <2>1, <2>2, <2>3, <2>4, StripeFrame
<1>7. QED
    BY <1>1, <1>2, <1>3, <1>4, <1>5, <1>6, NextKinds

\* The parity of members that hold their first write.
LEMMA FirstParity == Xor([i \in Member |-> {i}]) = Member
<1> DEFINE f == [i \in Member |-> {i}]
<1>1. ASSUME NEW n \in Member PROVE {i \in DOMAIN f : n \in f[i]} = {n}
    OBVIOUS
<1>2. ASSUME NEW n \in Member PROVE Cardinality({i \in DOMAIN f : n \in f[i]}) % 2 = 1
    <2>1. Cardinality({n}) = 1
        BY FS_Singleton
    <2>2. Cardinality({i \in DOMAIN f : n \in f[i]}) = 1
        BY <1>1, <2>1
    <2> HIDE DEF f
    <2>3. QED
        BY <2>2
<1>3. UNION {f[i] : i \in DOMAIN f} = Member
    OBVIOUS
<1> HIDE DEF f
<1>4. Xor(f) = Member
    BY <1>2, <1>3 DEF Xor
<1>5. QED
    BY <1>4 DEF f

\* The books are right at first.
LEMMA InitBook == Init => Book
<1> SUFFICES ASSUME Init PROVE Book
    OBVIOUS
<1>1. \A t \in Task : task[t].pc = "idle"
    BY DEF Init, Idle
<1>2. Homes
    <2>1. StateOK
        BY InitState
    <2>2. \A s \in Stripe, i \in Member : leg[s][i] \in Slab \cup {None} /\ disk[s][i] \in Slab \cup {None}
        BY <2>1, Legs DEF StateOK, Map
    <2>3. QED
        BY <2>2 DEF Init, Homes, Home
<1>3. Bases /\ Wants /\ Kinds
    BY <1>1 DEF Init, Bases, Wants, Kinds, Flushing, InRequest
<1>4. Starts /\ Files /\ Marks
    BY DEF Init, Starts, Serving, Files, Marks, Durable
<1>5. QED
    BY <1>2, <1>3, <1>4 DEF Book

\* So is what is said of a stripe: it is written and flushed, or blank.
LEMMA InitStripe ==
    ASSUME Init, NEW s \in Stripe
    PROVE  StripeInv(s)
<1>1. PICK full \in SUBSET Stripe, to \in Laid :
          /\ leg = [r \in Stripe |-> IF r \in full THEN to ELSE [i \in Leg |-> None]]
          /\ allow = [r \in Stripe |-> [i \in Member |-> {IF r \in full THEN {i} ELSE Blank}]]
          /\ cell = [k \in Slab |-> [r \in Stripe |-> [i \in Leg |->
                        Durable(IF r \notin full \/ to[i] # k THEN Blank ELSE IF i = P THEN Member ELSE {i})]]]
    BY DEF Init
<1>2. disk = leg /\ keep = allow /\ (\A t \in Task : task[t] = Idle) /\ todo = None /\ ticket = Width
    BY DEF Init
<1>3. P \in Leg /\ P \notin Member /\ Member \subseteq Leg
    BY Legs
<1>4. (\A t \in Task : ~ AtParity(t, s)) /\ ~ Changing(s) /\ \A t \in Task : ~ Flushing(t)
    BY <1>2 DEF AtParity, Changing, Flushing, Idle
<1>5. PICK D \in [Member -> Content] : D = [i \in Member |-> IF s \in full THEN {i} ELSE Blank]
    <2>1. \A i \in Member : {i} \in Content /\ Blank \in Content
        BY <1>2, Legs DEF Content, Member, Blank
    <2>2. QED
        BY <2>1
<1>6. ASSUME NEW i \in Leg, s \in full PROVE /\ leg[s][i] = to[i] /\ to[i] \in Slab
                                             /\ cell[to[i]][s][i].cur = (IF i = P THEN Member ELSE {i})
                                             /\ cell[to[i]][s][i].may = {cell[to[i]][s][i].cur}
    <2>1. leg[s][i] = to[i] /\ to[i] \in Slab
        BY <1>1, <1>6 DEF Laid
    <2>2. cell[to[i]][s][i] = Durable(IF i = P THEN Member ELSE {i})
        BY <1>1, <1>6, <2>1
    <2>3. QED
        BY <2>1, <2>2 DEF Durable
<1>7. ASSUME NEW i \in Leg, s \notin full PROVE leg[s][i] = None
    BY <1>1, <1>7
<1>8. \A i \in Member : allow[s][i] = {D[i]}
    BY <1>1, <1>5
<1>9. Members(s, D)
    <2> SUFFICES ASSUME NEW i \in Member
                 PROVE  /\ leg[s][i] = None => D[i] = Blank
                        /\ leg[s][i] # None /\ leg[s][i] \notin dead => cell[leg[s][i]][s][i].cur = D[i]
        BY DEF Members
    <2>1. i \in Leg /\ i # P
        BY <1>3
    <2>2. CASE s \in full
        BY <1>5, <1>6, <2>1, <2>2, NoneAssumption
    <2>3. CASE s \notin full
        BY <1>5, <1>7, <2>1, <2>3
    <2>4. QED
        BY <2>2, <2>3
<1>10. ParityIs(s, D) /\ ParityKept(s, D)
    <2>1. CASE s \in full
        <3>1. D = [i \in Member |-> {i}]
            BY <1>5, <2>1
        <3>2. Xor(D) = Member
            BY <3>1, FirstParity
        <3>3. leg[s][P] = to[P] /\ cell[to[P]][s][P].cur = Member /\ cell[to[P]][s][P].may = {Member}
            BY <1>3, <1>6, <2>1
        <3>4. QED
            BY <1>2, <3>2, <3>3 DEF ParityIs, ParityKept
    <2>2. CASE s \notin full
        BY <1>2, <1>3, <1>7, <2>2 DEF ParityIs, ParityKept
    <2>3. QED
        BY <2>1, <2>2
<1>11. Sound(s, D)
    <2>1. \A i \in Member : D[i] \in allow[s][i]
        BY <1>8
    <2>2. QED
        BY <1>4, <1>9, <1>10, <2>1 DEF Sound
<1>12. ASSUME NEW i \in Member, leg[s][i] # None
       PROVE  cell[leg[s][i]][s][i].may = {cell[leg[s][i]][s][i].cur} /\ cell[leg[s][i]][s][i].cur = D[i]
    <2>1. i \in Leg /\ i # P
        BY <1>3
    <2>2. s \in full
        BY <1>7, <1>12, <2>1
    <2>3. QED
        BY <1>5, <1>6, <2>1, <2>2
<1>13. Kept(s)
    <2> SUFFICES ASSUME NEW i \in Member PROVE KeptAt(s, i)
        BY DEF Kept
    <2>1. leg[s][i] # None => cell[disk[s][i]][s][i].may \subseteq keep[s][i]
        BY <1>2, <1>8, <1>12
    <2>2. QED
        BY <1>2, <1>4, <2>1 DEF KeptAt, Found
<1>14. Calm(s)
    BY <1>2, <1>4, <1>12 DEF Calm
<1>15. QED
    BY <1>11, <1>13, <1>14 DEF StripeInv

\* The books and every stripe, for every behaviour.
THEOREM StripesHold == Spec => [](Book /\ \A s \in Stripe : StripeInv(s))
<1> DEFINE Inv == StateOK /\ TablesInv /\ Locked /\ MapsApart
           Stripes == Book /\ \A s \in Stripe : StripeInv(s)
<1>1. Init => Stripes
    BY InitBook, InitStripe
<1>2. Inv /\ Inv' /\ Stripes /\ [Next]_vars => Stripes'
    <2> SUFFICES ASSUME Inv, Inv', Stripes, [Next]_vars PROVE Stripes'
        OBVIOUS
    <2>1. Book'
        BY BookNext
    <2>2. ASSUME NEW s \in Stripe PROVE StripeInv(s)'
        BY StripeNext
    <2>3. QED
        BY <2>1, <2>2
<1>3. Spec => []Inv
    BY PlacesHold
<1> HIDE DEF Inv, Stripes
<1>4. Spec => []Stripes
    BY <1>1, <1>2, <1>3, PTL DEF Spec
<1>5. QED
    BY <1>4 DEF Stripes

\* A stripe that can be put together reads as what was written and answered, through
\* deaths of slabs, resyncs, cuts and starts (thin.rs assemble_stripe, reconstruct_legs).
THEOREM AlwaysReadsAnswered == Spec => []ReadsAnswered
<1>1. StateOK /\ (\A s \in Stripe : StripeInv(s)) => ReadsAnswered
    <2> SUFFICES ASSUME StateOK, NEW s \in Stripe, StripeInv(s), Intact(s), Recoverable(s), NEW i \in Member
                 PROVE  Assemble(s)[i] \in allow[s][i]
        BY DEF ReadsAnswered
    <2>1. PICK D \in [Member -> Content] : Sound(s, D)
        BY DEF StripeInv, Intact, Whole
    <2>2. \A t \in Task : ~ AtParity(t, s)
        BY DEF Intact, Free, Holds, AtParity
    <2>3. Members(s, D) /\ ParityIs(s, D)
        BY <2>1, <2>2 DEF Sound, Known, Intact
    <2>4. Assemble(s) = D
        BY <2>3, PutTogether
    <2>5. QED
        BY <2>1, <2>4 DEF Sound
<1>2. QED
    BY <1>1, PlacesHold, StripesHold, PTL

\* The parity of a stripe that has all its legs is the XOR of its members: any leg may
\* be lost next (thin.rs update_parity, verify_stripes; stripelog.rs).
THEOREM AlwaysParityTrue == Spec => []ParityTrue
<1>1. StateOK /\ (\A s \in Stripe : StripeInv(s)) => ParityTrue
    <2> SUFFICES ASSUME StateOK, NEW s \in Stripe, StripeInv(s), Intact(s),
                        \A i \in Leg : leg[s][i] # None => Answers(leg[s][i]), leg[s][P] # None
                 PROVE  cell[leg[s][P]][s][P].cur = Xor(Assemble(s))
        BY DEF ParityTrue
    <2>1. PICK D \in [Member -> Content] : Sound(s, D)
        BY DEF StripeInv, Intact, Whole
    <2>2. \A t \in Task : ~ AtParity(t, s)
        BY DEF Intact, Free, Holds, AtParity
    <2>3. Members(s, D) /\ ParityIs(s, D)
        BY <2>1, <2>2 DEF Sound, Known, Intact
    <2>4. Lost(s) = {}
        BY Legs DEF Lost
    <2>5. Assemble(s) = D
        BY <2>3, <2>4, ReadAll
    <2>6. Good(leg[s][P])
        BY Legs DEF Good, Answers, Trusted
    <2>7. QED
        BY <2>3, <2>5, <2>6 DEF ParityIs
<1>2. QED
    BY <1>1, PlacesHold, StripesHold, PTL
=============================================================================
