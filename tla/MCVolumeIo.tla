------------------------------ MODULE MCVolumeIo ------------------------------
(* Two slabs: one slot on the first, the rest on the second.                  *)
EXTENDS VolumeIo, TLC

CONSTANTS p1, p2, p3, d1, d2

MCSlabOf == [s \in Slot |-> IF s = 1 THEN d1 ELSE d2]

Perms == Permutations(Task)

Writing == [ops |-> {"write"}, volumes |-> {"v1"}, blocks |-> {1, 2}, leaving |-> {},
            width |-> 2, writes |-> 2, moves |-> 0, snapshots |-> 0, quarantines |-> 0]

\* Reads, writes and moves of one block, three at a time.
Reading == [Writing EXCEPT !.ops = @ \cup {"read", "move"}, !.blocks = {1}, !.width = 3, !.moves = 2]
\* Writes to neighbours while the extent moves, and moves again.
Moving == [Writing EXCEPT !.ops = @ \cup {"move"}, !.width = 3, !.writes = 3, !.moves = 2]
\* Two volumes share slots that are written, discarded, moved and deleted.
Sharing == [Writing EXCEPT !.ops = @ \cup {"move", "snapshot", "delete", "discard"},
                           !.volumes = {"v1", "v2"}, !.blocks = {1}, !.moves = 1,
                           !.snapshots = 2]
\* Three volumes share a slot: counts on their way to the maps.
Cloning == [Writing EXCEPT !.ops = @ \cup {"snapshot"}, !.volumes = {"v1", "v2", "v3"},
                           !.blocks = {1}, !.writes = 3, !.snapshots = 2]
\* A volume that begins on a slab being emptied, snapshotted or discarded.
Leaving == [Writing EXCEPT !.ops = @ \cup {"move", "snapshot"}, !.volumes = {"v1", "v2"},
                           !.leaving = {d1}, !.moves = 1, !.snapshots = 1]
Trimming == [Leaving EXCEPT !.ops = {"write", "move", "discard"}, !.volumes = {"v1"}]
\* Every operation, one at a time, while drains begin and end.
Sequential == [Writing EXCEPT !.ops = Op, !.volumes = {"v1", "v2"}, !.blocks = {1}, !.width = 1,
                              !.moves = 1, !.snapshots = 1, !.quarantines = 1]

IoLoads == {Reading, Moving, Sharing, Cloning, Leaving, Trimming, Sequential}

LiveLoads == {[Trimming EXCEPT !.width = 3]}

\* Writes to one volume while a drain begins.
DrainLoads == {[Writing EXCEPT !.ops = {"write", "quarantine"}, !.writes = 3, !.quarantines = 1]}
===============================================================================
