------------------------------ MODULE MCMetaV2 ------------------------------
(* Small instances of MetaV2: two keys, a log of eight pages. *)
EXTENDS MetaV2, TLC

CONSTANTS k1, k2

\* Records of one page, and of three, which are too big for the log.
Cutting == [keys |-> {k1, k2}, pages |-> 6, sizes |-> {1, 3}, errors |-> {}, kills |-> FALSE, drops |-> FALSE,
            changes |-> 3, faults |-> 0, cuts |-> 2]
\* The log goes round, with wrap records and without.
Wrapping == [Cutting EXCEPT !.keys = {k1}, !.sizes = {1, 2}, !.changes = 5, !.cuts = 1]
\* A region too small for two trees, and a process that is killed.
Full == [Cutting EXCEPT !.pages = 5, !.sizes = {1}, !.kills = TRUE, !.changes = 4, !.cuts = 1]
\* Any device call may fail, and one after it.
Failing == [Cutting EXCEPT !.sizes = {1}, !.errors = DeviceCall, !.changes = 2, !.faults = 2,
                           !.cuts = 1]

\* Callers go away, and the power after them.
Dropping == [Cutting EXCEPT !.drops = TRUE, !.faults = 1, !.cuts = 1]

MetaSetups == {Cutting, Wrapping, Full, Failing, Dropping}

StaleSetups == {[Cutting EXCEPT !.sizes = {1}, !.errors = {"record", "recordflush"}, !.faults = 1,
                                !.cuts = 0]}
=============================================================================
