------------------------------- MODULE MCSlab -------------------------------
(* Small slabs: slots are taken first fit, so two of them already meet in a *)
(* page of the table and in every queue.                                   *)
EXTENDS Slab, TLC

CONSTANTS p1, p2

Perms == Permutations(Syncer)

Plain == [erase |-> FALSE, errors |-> FALSE, drops |-> FALSE,
          tenancies |-> 2, refs |-> 1, asks |-> 2, cuts |-> 1]

\* A slot is taken a second time while the other is held.
Reusing == [Plain EXCEPT !.tenancies = 3]
\* A slot is taken a second time, through a failing device.
Failing == [Plain EXCEPT !.errors = TRUE]
\* Counts go up and down between two syncs.
Sharing == [Plain EXCEPT !.refs = 2, !.tenancies = 1, !.errors = TRUE]
\* Freed slots are overwritten first.
Shredding == [Plain EXCEPT !.erase = TRUE, !.errors = TRUE, !.asks = 1]
\* Callers go away.
Dropping == [Plain EXCEPT !.drops = TRUE]

SlabSetups == {Reusing, Failing, Sharing, Shredding, Dropping}

\* One slot, counted, taken and erased.
LiveSetups == {[Plain EXCEPT !.erase = TRUE, !.tenancies = 1, !.refs = 2]}

\* One slot, erased.
ErasedSetups == {[Plain EXCEPT !.erase = TRUE, !.tenancies = 1, !.asks = 1]}

\* "Its entry is written either way, so an erase a power cut interrupts is resumed"
\* (slab.rs:1515): the media never has a slot as Free while it holds what was to be
\* erased.  Not so for one retired before its first entry is on the media: the
\* Erasing entry is sent and not flushed.
EraseSurvivesCut == \A s \in Slot : Unerased(s) => Free \notin table[s].may

PublishSetups == {[Plain EXCEPT !.tenancies = 1, !.asks = 1, !.cuts = 0]}
=============================================================================
