------------------------------- MODULE MetaV2 -------------------------------
(* volume/metav2.rs: a metadata store, as one sink's persists drive it.     *)
(*                                                                          *)
(* A region is two superblocks, a ring of log pages and the pages of a      *)
(* copy-on-write tree.  A persist appends what changed to the log; a        *)
(* checkpoint folds the log into new tree pages and turns to the other      *)
(* superblock; after a start, and after a failure, the store is written     *)
(* whole.  The tree here has a root naming one leaf per key.                *)
(*                                                                          *)
(* The store's lock makes one operation run at a time.  Its device writes   *)
(* between two flushes are one step: a cut keeps any part of them, and an   *)
(* error leaves any part of them written.                                   *)
EXTENDS Integers, FiniteSets, FiniteSetsExt, WriteCache

CONSTANTS Key,
          Pages,       \* pages of the tree's area, at most: 0..Pages-1
          LogLen,      \* pages of the log
          None,        \* no superblock, no page, nothing in a page
          Torn,        \* a page that fails its checksum
          Setups       \* the stores, faults and bounds to consider

DeviceCall == {"record", "recordflush", "tree", "treeflush", "super", "superflush"}

\* keys: what the map holds; pages: the length of the tree's area; sizes: the
\* log pages a record may need; errors: the device calls that may fail;
\* kills: may the process end while the power stays on; drops: may a caller go
\* away.  The numbers bound the changes of the map, the failing calls and dropped
\* callers, and the cuts and restarts.
Setup == [keys : SUBSET Key, pages : 0..Pages, sizes : SUBSET (1..LogLen), errors : SUBSET DeviceCall,
          kills : BOOLEAN, drops : BOOLEAN, changes : Nat, faults : Nat, cuts : Nat]

ASSUME SizesAssumption == LogLen \in Nat /\ Pages \in Nat
ASSUME SetupsAssumption == Setups \subseteq Setup

Page == 0..Pages - 1
At == 0..LogLen - 1

VARIABLES
    \* the device
    super, log, page,
    \* MetaV2
    gen, root,       \* sb_gen and root of the superblock in force
    used,            \* pages taken
    fresh, retired,  \* of the checkpoint being written
    start, tail, nextSeq, logUsed, overlay,
    \* the operation: where it is, what it writes, the root it made
    pc, op, newRoot,
    \* the sink: the map, what of it no persist took, whether all of it goes
    mem, dirty, needFull,
    opened,          \* whether nothing was persisted since the store was opened
    changes, errors, cuts,
    setup,           \* the store, faults and bounds of this behaviour
    struck,          \* ghost: what has failed so far
    allowed          \* ghost: what a start may find

device == <<super, log, page>>
pages == <<used, fresh, retired>>
ring == <<start, tail, nextSeq, logUsed, overlay>>
sink == <<mem, dirty, needFull, opened>>
bounds == <<changes, errors, cuts, struck>>
vars == <<device, gen, root, pages, ring, pc, op, newRoot, sink, bounds, setup, allowed>>

-----------------------------------------------------------------------------
(* Contents: the value of each key, 0 for a key not there.  Changes: the    *)
(* value of the keys they touch, Same for the others.                       *)

Same == -1
Nothing == [k \in Key |-> 0]
NoChange == [k \in Key |-> Same]
Over(content, change) == [k \in Key |-> IF change[k] = Same THEN content[k] ELSE change[k]]

\* What a write may leave on the media, torn included: a drive of 512-byte
\* sectors keeps a part of a page (drive/crashdev.rs:16).  A superblock's 84
\* bytes are within one sector and do not tear.
PutTorn(cell, v) == [cur |-> v, may |-> cell.may \cup {v, Torn}]

\* Log pages of a record: its header, and the rest of its bytes.
Record(seq, size, kind, change) == [seq |-> seq, size |-> size, kind |-> kind, change |-> change]
RecordPages(at, rec) == [i \in at..at + rec.size - 1 |-> [rec |-> rec, part |-> i - at]]

-----------------------------------------------------------------------------
(* open: the newer superblock that checks, its tree, the log after it. *)

Checks(v) == v /= None /\ v /= Torn

\* The superblock of the newer generation; None when neither checks.
NewerSuper(supers) ==
    LET good == {i \in 0..1 : Checks(supers[i])}
    IN  IF good = {} THEN None
        ELSE supers[CHOOSE i \in good : \A j \in good : supers[i].gen >= supers[j].gen]

IsRoot(v) == Checks(v) /\ v.kind = "root"
IsLeaf(v) == Checks(v) /\ v.kind = "leaf"

\* The pages a tree names.
Reachable(pagev, r) ==
    IF r = None THEN {} ELSE {r} \cup ({pagev[r].child[k] : k \in Key} \ {None})

\* The tree's content; None when a page it names is not one of a tree.
TreeContent(pagev, r) ==
    IF r = None THEN Nothing
    ELSE IF ~IsRoot(pagev[r]) \/ \E k \in Key : pagev[r].child[k] /= None /\ ~IsLeaf(pagev[pagev[r].child[k]])
    THEN None
    ELSE [k \in Key |-> IF pagev[r].child[k] = None THEN 0 ELSE pagev[pagev[r].child[k]].val[k]]

\* A record of sequence seq that checks, at a place in the log.
RecordAt(logv, at, seq) ==
    LET v == logv[at]
    IN  IF Checks(v) /\ v.part = 0 /\ v.rec.seq = seq /\ at + v.rec.size <= LogLen
           /\ \A i \in 1..v.rec.size - 1 : logv[at + i] = [rec |-> v.rec, part |-> i]
        THEN v.rec ELSE None

Wrap(r) == IF r.at >= LogLen THEN [r EXCEPT !.at = 0, !.used = @ + (LogLen - r.at)] ELSE r

\* One turn of replay's loop: done when nothing more follows.
ReplayStep(logv, r0) ==
    LET r == Wrap(r0)
        rec == IF r.used >= LogLen THEN None ELSE RecordAt(logv, r.at, r.seq)
    IN  IF rec = None THEN [r EXCEPT !.done = TRUE]
        ELSE IF rec.kind = "wrap"
        THEN [r EXCEPT !.used = @ + (LogLen - r.at), !.at = 0, !.seq = @ + 1]
        ELSE [r EXCEPT !.at = @ + rec.size, !.used = @ + rec.size, !.seq = @ + 1,
                       !.overlay = Over(@, rec.change)]

Replay(logv, sb) ==
    LET turns[n \in 0..LogLen + 2] ==
            IF n = 0 THEN [at |-> sb.start, seq |-> sb.seq, used |-> 0, overlay |-> NoChange, done |-> FALSE]
            ELSE LET r == turns[n - 1] IN IF r.done THEN r ELSE ReplayStep(logv, r)
    IN  turns[LogLen + 2]

\* What a start reads from a region; None when it cannot.
Recovered(supers, logv, pagev) ==
    LET sb == NewerSuper(supers)
    IN  IF sb = None THEN None
        ELSE LET tree == TreeContent(pagev, sb.root)
             IN  IF tree = None THEN None ELSE Over(tree, Replay(logv, sb).overlay)

Cur(cells) == [i \in DOMAIN cells |-> cells[i].cur]

-----------------------------------------------------------------------------
\* then: what follows the tree; fold: whether a checkpoint ends the operation.
NoOp == [kind |-> "none", size |-> 0, change |-> NoChange, content |-> Nothing,
         then |-> "done", fold |-> FALSE]

\* format: an empty store.
Init ==
    /\ super = [i \in 0..1 |-> Durable(IF i = 0 THEN [gen |-> 1, root |-> None, start |-> 0, seq |-> 1]
                                       ELSE None)]
    /\ log = [i \in At |-> Durable(None)]
    /\ page = [i \in Page |-> Durable(None)]
    /\ gen = 1 /\ root = None
    /\ used = {} /\ fresh = {} /\ retired = {}
    /\ start = 0 /\ tail = 0 /\ nextSeq = 1 /\ logUsed = 0 /\ overlay = NoChange
    /\ pc = "idle" /\ op = NoOp /\ newRoot = None
    /\ mem = Nothing /\ dirty = {} /\ needFull = TRUE /\ opened = TRUE
    /\ changes = 0 /\ errors = 0 /\ cuts = 0 /\ struck = {}
    /\ setup \in Setups
    /\ allowed = {Nothing}

FlushDevice ==
    /\ super' = FlushAll(super)
    /\ log' = FlushAll(log)
    /\ page' = FlushAll(page)

\* A key of the map changes: a value never seen before, or gone.  A change
\* made while a persist runs is the next one's, as one made after it.
Change(k) ==
    /\ pc = "idle"
    /\ k \in setup.keys
    /\ changes < setup.changes
    /\ changes' = changes + 1
    /\ \E v \in {changes + 1, 0} : mem' = [mem EXCEPT ![k] = v]
    /\ dirty' = dirty \cup {k}
    /\ UNCHANGED <<device, gen, root, pages, ring, pc, op, newRoot, needFull, opened, errors, cuts, struck, allowed>>

-----------------------------------------------------------------------------
(* A persist begins: the whole map, or what changed. *)

Fits(size) ==
    LET wasted == IF tail + size > LogLen THEN LogLen - tail ELSE 0
    IN  logUsed + wasted + size + 1 <= LogLen

Take ==
    /\ dirty' = {} /\ needFull' = FALSE /\ opened' = FALSE
    /\ UNCHANGED mem

\* Ghost: what a start may find after a change, of all it may find before.
Changed(change) == {Over(c, change) : c \in allowed}

StartReplace ==
    /\ pc = "idle" /\ needFull
    /\ Take
    /\ allowed' = allowed \cup {mem}
    /\ op' = [NoOp EXCEPT !.kind = "replace", !.content = mem]
    /\ pc' = "tree"
    /\ UNCHANGED <<device, gen, root, pages, ring, newRoot, bounds>>

\* A record too big for the log goes straight into the tree.
Append(size, change, content, fold) ==
    LET big == size > LogLen \div 4
    IN  /\ op' = [kind |-> "append", size |-> size, change |-> change, content |-> content,
                  then |-> IF big \/ Fits(size) THEN "done" ELSE "record", fold |-> fold]
        /\ pc' = IF ~big /\ Fits(size) THEN "record" ELSE "tree"
        /\ overlay' = IF big THEN Over(overlay, change) ELSE overlay
        /\ allowed' = allowed \cup Changed(change)
        /\ UNCHANGED <<device, gen, root, pages, start, tail, nextSeq, logUsed, newRoot, bounds>>

StartAppend(size) ==
    /\ pc = "idle" /\ ~needFull /\ dirty /= {}
    /\ Take
    /\ Append(size, [k \in Key |-> IF k \in dirty THEN mem[k] ELSE Same], mem, FALSE)

\* drop_volumes: an install takes a record out of a store it opened and no
\* engine serves yet: an append, then a checkpoint.
StartDrop(k) ==
    /\ pc = "idle" /\ opened /\ dirty = {} /\ mem[k] /= 0
    /\ Append(1, [NoChange EXCEPT ![k] = 0], [mem EXCEPT ![k] = 0], TRUE)
    /\ UNCHANGED sink

\* The operation answers Ok, after the checkpoint that ends it if there is one.
Finish ==
    IF op.fold
    THEN /\ pc' = "tree" /\ op' = [op EXCEPT !.then = "done", !.fold = FALSE]
         /\ UNCHANGED <<mem, allowed>>
    ELSE /\ pc' = "idle" /\ op' = NoOp
         /\ allowed' = IF op.kind = "replace" THEN {op.content} ELSE Changed(op.change)
         /\ mem' = IF opened THEN op.content ELSE mem

\* The operation fails: the sink writes the store whole next, and an install
\* ends here.
Fail ==
    /\ pc' = IF opened THEN "closed" ELSE "idle"
    /\ op' = NoOp
    /\ needFull' = TRUE
    /\ UNCHANGED <<mem, dirty, opened, allowed>>

\* A device call fails.
MayFail(call) ==
    /\ call \in setup.errors
    /\ errors < setup.faults
    /\ errors' = errors + 1
    /\ struck' = struck \cup {call}
    /\ Fail
    /\ UNCHANGED <<changes, cuts>>

-----------------------------------------------------------------------------
(* append: one record, one flush. *)

\* Where the record goes, and the record that says the ring was wrapped.
WrapsHere == tail + op.size > LogLen
WrapRecord == IF WrapsHere /\ tail + 1 <= LogLen
              THEN RecordPages(tail, Record(nextSeq, 1, "wrap", NoChange)) ELSE <<>>
RecordSeq == IF WrapsHere /\ tail + 1 <= LogLen THEN nextSeq + 1 ELSE nextSeq

RecordTail == IF WrapsHere THEN 0 ELSE tail

RecordWrites == LET body == RecordPages(RecordTail, Record(RecordSeq, op.size, "ops", op.change))
                IN  [i \in DOMAIN body \cup DOMAIN WrapRecord |->
                        IF i \in DOMAIN body THEN body[i] ELSE WrapRecord[i]]

\* Any part of the writes, all of them when none fails.
PutSome(cells, writes, which) ==
    [i \in DOMAIN cells |-> IF i \in which THEN PutTorn(cells[i], writes[i]) ELSE cells[i]]

WriteRecord ==
    /\ pc = "record"
    /\ log' = PutSome(log, RecordWrites, DOMAIN RecordWrites)
    /\ pc' = "recordflush"
    /\ UNCHANGED <<super, page, gen, root, pages, ring, op, newRoot, sink, bounds, allowed>>

WriteRecordError ==
    /\ pc = "record"
    /\ MayFail("record")
    /\ \E some \in SUBSET DOMAIN RecordWrites : log' = PutSome(log, RecordWrites, some)
    /\ UNCHANGED <<super, page, gen, root, pages, ring, newRoot>>

\* The record is durable; a log more than half full is folded in.
FlushRecord ==
    /\ pc = "recordflush"
    /\ FlushDevice
    /\ LET used1 == logUsed + op.size + IF WrapsHere THEN LogLen - tail ELSE 0
       IN  /\ tail' = RecordTail + op.size
           /\ nextSeq' = RecordSeq + 1
           /\ logUsed' = used1
           /\ overlay' = Over(overlay, op.change)
           /\ IF used1 > LogLen \div 2
              THEN pc' = "tree" /\ op' = [op EXCEPT !.then = "done"] /\ UNCHANGED <<mem, allowed>>
              ELSE Finish
    /\ UNCHANGED <<gen, root, pages, start, newRoot, dirty, needFull, opened, bounds>>

FlushRecordError ==
    /\ pc = "recordflush"
    /\ MayFail("recordflush")
    /\ UNCHANGED <<device, gen, root, pages, ring, newRoot>>

-----------------------------------------------------------------------------
(* checkpoint and replace_all: new pages, flush, the other superblock,      *)
(* flush; then the pages no longer named are free.                          *)

\* The n first free pages.
FreePages == 0..setup.pages - 1 \ used
FirstFree(n) == CHOOSE S \in kSubset(n, FreePages) : \A p \in S, q \in FreePages \ S : p < q

OldLeaf(k) == IF root = None THEN None ELSE page[root].cur.child[k]

\* The keys whose leaves are written, the content they get, and the leaves
\* that stay.
Rewritten == IF op.kind = "replace" THEN Key ELSE {k \in Key : overlay[k] /= Same}
NewValue(k) == IF op.kind = "replace" THEN op.content[k] ELSE overlay[k]
Fresh == {k \in Rewritten : NewValue(k) /= 0}
Kept == {k \in Key \ Rewritten : OldLeaf(k) /= None}
Needed == IF Rewritten = {} \/ Fresh \cup Kept = {} THEN 0 ELSE Cardinality(Fresh) + 1

\* An empty log over an empty overlay: nothing to fold in.
NothingToFold == op.kind = "append" /\ overlay = NoChange /\ logUsed = 0

Continue == IF op.then = "done" THEN Finish ELSE pc' = op.then /\ UNCHANGED <<op, mem, allowed>>

SkipTree ==
    /\ pc = "tree" /\ NothingToFold
    /\ Continue
    /\ UNCHANGED <<device, gen, root, pages, ring, newRoot, dirty, needFull, opened, bounds>>

BlankLeaf == [kind |-> "leaf", child |-> [k \in Key |-> None], val |-> Nothing]

\* New leaves and a new root in the first free pages, written leaves first.
TreeWrites(S) ==
    LET leafOf == CHOOSE f \in [Fresh -> S] : \A j, k \in Fresh : j /= k => f[j] /= f[k]
        rootPage == CHOOSE p \in S : \A k \in Fresh : leafOf[k] /= p
    IN  [root |-> rootPage,
         writes |-> [p \in S |->
            IF p = rootPage
            THEN [kind |-> "root", val |-> Nothing,
                  child |-> [k \in Key |-> IF k \in Fresh THEN leafOf[k]
                                           ELSE IF k \in Kept THEN OldLeaf(k) ELSE None]]
            ELSE [BlankLeaf EXCEPT !.val = [k \in Key |-> IF k \in Fresh /\ leafOf[k] = p THEN NewValue(k) ELSE 0]]]]

Retiring == IF Rewritten = {} THEN {} ELSE Reachable(Cur(page), root) \ {OldLeaf(k) : k \in Kept}

WriteTree ==
    /\ pc = "tree" /\ ~NothingToFold
    /\ Cardinality(FreePages) >= Needed
    /\ IF Needed = 0
       THEN /\ newRoot' = IF Rewritten = {} THEN root ELSE None
            /\ UNCHANGED <<page, used, fresh>>
       ELSE LET S == FirstFree(Needed)
                tree == TreeWrites(S)
            IN  /\ newRoot' = tree.root
                /\ page' = PutSome(page, tree.writes, S)
                /\ fresh' = fresh \cup S
                /\ used' = used \cup S
    /\ retired' = retired \cup Retiring
    /\ struck' = struck \cup (IF "drop" \in struck THEN {"dropped"} ELSE {})
    /\ pc' = "treeflush"
    /\ UNCHANGED <<super, log, gen, root, ring, op, sink, changes, errors, cuts, allowed>>

\* Mutant: undo_fresh frees the pages the checkpoint would have retired too.
UndoRetired ==
    /\ used' = used \ (fresh \cup retired)
    /\ fresh' = {} /\ retired' = {}
    /\ newRoot' = None

\* undo_fresh: the pages of a checkpoint that failed are free again.
Undo ==
    /\ used' = used \ fresh
    /\ fresh' = {} /\ retired' = {}
    /\ newRoot' = None

WriteTreeError ==
    /\ pc = "tree" /\ ~NothingToFold
    /\ MayFail("tree")
    /\ IF Needed = 0 \/ Cardinality(FreePages) < Needed THEN UNCHANGED page
       ELSE LET S == FirstFree(Needed)
            IN  \E some \in SUBSET S : page' = PutSome(page, TreeWrites(S).writes, some)
    /\ Undo
    /\ UNCHANGED <<super, log, gen, root, ring>>

\* No page left: "metadata region full", after leaves nothing will name were
\* written into the pages that were free.
RegionFull ==
    /\ pc = "tree" /\ ~NothingToFold
    /\ Cardinality(FreePages) < Needed
    /\ page' = [p \in Page |-> IF p \in FreePages THEN PutTorn(page[p], BlankLeaf) ELSE page[p]]
    /\ Fail
    /\ Undo
    /\ UNCHANGED <<super, log, gen, root, ring, bounds>>

FlushTree ==
    /\ pc = "treeflush"
    /\ FlushDevice
    /\ pc' = "super"
    /\ UNCHANGED <<gen, root, pages, ring, op, newRoot, sink, bounds, allowed>>

FlushTreeError ==
    /\ pc = "treeflush"
    /\ MayFail("treeflush")
    /\ Undo
    /\ UNCHANGED <<device, gen, root, ring>>

NewSuper == [gen |-> gen + 1, root |-> newRoot, start |-> tail, seq |-> nextSeq]

PutSuper == super' = [super EXCEPT ![(gen + 1) % 2] = Put(@, NewSuper)]

WriteSuper ==
    /\ pc = "super"
    /\ PutSuper
    /\ pc' = "superflush"
    /\ UNCHANGED <<log, page, gen, root, pages, ring, op, newRoot, sink, bounds, allowed>>

WriteSuperError ==
    /\ pc = "super"
    /\ MayFail("super")
    /\ PutSuper \/ UNCHANGED super
    /\ Undo
    /\ UNCHANGED <<log, page, gen, root, ring>>

\* Mutant: the pages of the old tree are never freed.
FlushSuperLeaking ==
    /\ pc = "superflush"
    /\ FlushDevice
    /\ gen' = gen + 1 /\ root' = newRoot
    /\ start' = tail /\ logUsed' = 0 /\ overlay' = NoChange
    /\ UNCHANGED used
    /\ fresh' = {} /\ retired' = {}
    /\ newRoot' = None
    /\ Continue
    /\ UNCHANGED <<tail, nextSeq, dirty, needFull, opened, bounds>>

\* The new superblock is in force, the log is empty.
FlushSuper ==
    /\ pc = "superflush"
    /\ FlushDevice
    /\ gen' = gen + 1 /\ root' = newRoot
    /\ start' = tail /\ logUsed' = 0 /\ overlay' = NoChange
    /\ used' = used \ retired
    /\ fresh' = {} /\ retired' = {}
    /\ newRoot' = None
    /\ Continue
    /\ UNCHANGED <<tail, nextSeq, dirty, needFull, opened, bounds>>

FlushSuperError ==
    /\ pc = "superflush"
    /\ MayFail("superflush")
    /\ Undo
    /\ UNCHANGED <<device, gen, root, ring>>

\* A caller goes away and its future is dropped: a checkpoint that has begun has
\* taken the overlay, and its pages stay in `fresh` and `retired`.
DropTree ==
    /\ \E n \in 0..Needed, gone \in SUBSET (IF op.kind = "append" THEN Retiring ELSE {}) :
          /\ n <= Cardinality(FreePages)
          /\ page' = [p \in Page |-> IF p \in FirstFree(n) THEN PutTorn(page[p], BlankLeaf) ELSE page[p]]
          /\ fresh' = fresh \cup FirstFree(n)
          /\ used' = used \cup FirstFree(n)
          /\ retired' = retired \cup gone
    /\ overlay' \in IF op.kind = "replace" THEN {overlay, NoChange} ELSE {NoChange}
    /\ UNCHANGED <<super, log>>

Drop ==
    /\ setup.drops /\ errors < setup.faults /\ ~opened
    /\ \/ /\ pc = "record"
          /\ \E some \in SUBSET DOMAIN RecordWrites : log' = PutSome(log, RecordWrites, some)
          /\ UNCHANGED <<super, page, pages, overlay>>
       \/ pc = "recordflush" /\ UNCHANGED <<device, pages, overlay>>
       \/ pc = "tree" /\ ~NothingToFold /\ DropTree
       \/ /\ pc \in {"treeflush", "super", "superflush"}
          /\ (pc = "super" /\ PutSuper) \/ UNCHANGED super
          /\ overlay' = NoChange
          /\ UNCHANGED <<log, page, pages>>
    /\ errors' = errors + 1
    /\ struck' = struck \cup {"drop"} \cup (IF pc \in {"record", "recordflush"} /\ WrapRecord /= <<>> THEN {"wrap"} ELSE {})
    /\ pc' = "idle" /\ op' = NoOp /\ newRoot' = None
    /\ UNCHANGED <<gen, root, start, tail, nextSeq, logUsed, sink, changes, cuts, allowed>>

-----------------------------------------------------------------------------
\* A start on what the media kept, if it can be read.
Open(supers, logv, pagev) ==
    LET sb == NewerSuper(supers)
        found == Recovered(supers, logv, pagev)
        log1 == Replay(logv, sb)
    IN  /\ op' = NoOp /\ newRoot' = None /\ fresh' = {} /\ retired' = {}
        /\ dirty' = {} /\ needFull' = TRUE /\ opened' = TRUE
        /\ IF found = None
           THEN /\ pc' = "unreadable"
                /\ UNCHANGED <<gen, root, used, ring, mem>>
           ELSE /\ pc' = "idle"
                /\ gen' = sb.gen /\ root' = sb.root
                /\ used' = Reachable(pagev, sb.root)
                /\ start' = sb.start /\ tail' = log1.at /\ nextSeq' = log1.seq
                /\ logUsed' = log1.used /\ overlay' = log1.overlay
                /\ mem' = found

\* A cut may keep a record without the wrap record before it, or what a killed
\* process never flushed.
CutStrikes == {x \in {"wrap", "killed"} :
                  \/ x = "wrap" /\ pc = "recordflush" /\ WrapRecord /= <<>>
                  \/ x = "killed" /\ "kill" \in struck}

\* The power goes: what is left is any part of what was not flushed.
PowerCut ==
    /\ cuts < setup.cuts
    /\ cuts' = cuts + 1
    /\ struck' = (struck \cup CutStrikes) \ {"drop"}
    /\ pc /= "unreadable"
    /\ \E s \in Cut(super), l \in Cut(log), p \in Cut(page) :
          /\ super' = [i \in 0..1 |-> Durable(s[i])]
          /\ log' = [i \in At |-> Durable(l[i])]
          /\ page' = [i \in Page |-> Durable(p[i])]
          /\ Open(s, l, p)
          /\ allowed' = allowed \cap {Recovered(s, l, p)}
    /\ UNCHANGED <<changes, errors>>

\* Another process opens the store, after an install that failed or one that
\* was killed wherever it was: the drive still has all it was sent.
Restart ==
    /\ \/ pc = "closed" /\ UNCHANGED <<cuts, struck>>
       \/ /\ setup.kills /\ pc \notin {"closed", "unreadable"} /\ cuts < setup.cuts
          /\ cuts' = cuts + 1
          /\ struck' = (struck \cup {"kill"}) \ {"drop"}
    /\ Open(Cur(super), Cur(log), Cur(page))
    /\ UNCHANGED <<device, changes, errors, allowed>>

Step ==
    \/ \E k \in Key : Change(k)
    \/ StartReplace
    \/ \E n \in setup.sizes : StartAppend(n)
    \/ \E k \in Key : StartDrop(k)
    \/ WriteRecord \/ WriteRecordError \/ FlushRecord \/ FlushRecordError
    \/ SkipTree \/ WriteTree \/ WriteTreeError \/ RegionFull
    \/ FlushTree \/ FlushTreeError
    \/ WriteSuper \/ WriteSuperError \/ FlushSuper \/ FlushSuperError
    \/ Drop \/ PowerCut \/ Restart

Next == Step /\ setup' = setup

Spec == Init /\ [][Next]_vars
-----------------------------------------------------------------------------
Value == 0..setup.changes
Content == [Key -> Value]
ChangeSet == [Key -> Value \cup {Same}]
SuperValue == [gen : Nat, root : Page \cup {None}, start : 0..LogLen, seq : Nat] \cup {None, Torn}
LogValue == [rec : [seq : Nat, size : setup.sizes \cup {1}, kind : {"wrap", "ops"}, change : ChangeSet],
             part : At] \cup {None, Torn}
PageValue == [kind : {"root", "leaf"}, child : [Key -> Page \cup {None}], val : Content] \cup {None, Torn}

\* The type of every variable.  The log's tail and what is used of the log
\* stay within the ring (append, replay: metav2.rs:637-758).
TypeOK ==
    /\ super \in [0..1 -> Cell(SuperValue)]
    /\ log \in [At -> Cell(LogValue)]
    /\ page \in [Page -> Cell(PageValue)]
    /\ gen \in Nat /\ root \in Page \cup {None}
    /\ used \subseteq Page /\ fresh \subseteq used /\ retired \subseteq Page
    /\ {start, tail, logUsed} \subseteq 0..LogLen
    /\ nextSeq \in Nat /\ overlay \in ChangeSet
    /\ pc \in {"idle", "record", "recordflush", "tree", "treeflush", "super", "superflush", "closed", "unreadable"}
    /\ op \in [kind : {"none", "replace", "append"}, size : setup.sizes \cup {0, 1}, change : ChangeSet,
               content : Content, then : {"done", "record"}, fold : BOOLEAN]
    /\ newRoot \in Page \cup {None}
    /\ mem \in Content /\ dirty \subseteq Key /\ needFull \in BOOLEAN /\ opened \in BOOLEAN
    /\ setup \in Setups
    /\ changes \in 0..setup.changes /\ errors \in 0..setup.faults /\ cuts \in 0..setup.cuts
    /\ struck \subseteq DeviceCall \cup {"kill", "wrap", "killed", "drop", "dropped"}
    /\ allowed \subseteq Content

\* A start reads what the last answered persist wrote, or one begun since:
\* never an older map, never a part of one, never nothing (metav2.rs:12-25,
\* durability rule 1).  A power cut's outcome is the state after it.
StartFindsWhatWasAnswered == Recovered(Cur(super), Cur(log), Cur(page)) \in allowed

\* The same until one of the failures the store does not survive: a log record
\* or a superblock whose write or flush failed and that is on the disk all the
\* same, a cut between a wrap record and the record behind it, a cut after a
\* process was killed, a tree written after a caller went away.  A tree that
\* could not be written, a region that is full, an install that failed, a kill,
\* a caller that goes away, and a cut anywhere else are all survived (checkpoint,
\* replace_all, append, open: metav2.rs:470-900).
AnsweredSurvives ==
    struck \subseteq {"tree", "treeflush", "kill", "drop"} => StartFindsWhatWasAnswered

\* Between operations the pages taken are exactly the tree's and those a dropped
\* checkpoint took: a checkpoint that succeeded, failed, was cut or dropped neither
\* leaks a page nor hands out one the tree names (metav2.rs:2188,
\* a_deep_tree_matches_a_model_and_leaks_no_page), until a tree is written after a
\* caller went away.
PagesAccountedFor ==
    pc = "idle" /\ "dropped" \notin struck => used = Reachable(Cur(page), root) \cup fresh
=============================================================================
