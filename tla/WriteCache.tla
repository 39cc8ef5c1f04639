----------------------------- MODULE WriteCache -----------------------------
(* A drive with a write-back cache, one cell at a time.  A cell is what     *)
(* reads see (cur) and everything the media may turn out to hold if the    *)
(* power goes now (may): a write joins `may`, and only a flush takes the   *)
(* older values out of it.  A cut keeps any value of each cell,            *)
(* independently: "a drive with a write-back cache may keep any subset of  *)
(* what it was sent when the power goes" (drive/slab.rs:1051).             *)
(*                                                                         *)
(* A flush is one step.  What another task writes while a flush runs is    *)
(* the same as written after it, and a cut during a flush is the same as a *)
(* cut before it.                                                          *)

Durable(v) == [cur |-> v, may |-> {v}]

Put(cell, v) == [cur |-> v, may |-> cell.may \cup {v}]

\* A discard is a hint: the drive may zero the range or keep what it holds.
Discarded(cell) == {cell, Put(cell, 0)}

Flushed(cell) == Durable(cell.cur)

FlushAll(cells) == [i \in DOMAIN cells |-> Flushed(cells[i])]

\* Every way a power cut can leave a set of cells.
Cut(cells) ==
    LET loose == {i \in DOMAIN cells : cells[i].may /= {cells[i].cur}}
        values == UNION {cells[i].may : i \in loose}
        keeps == {f \in [loose -> values] : \A i \in loose : f[i] \in cells[i].may}
    IN  {[i \in DOMAIN cells |-> IF i \in loose THEN f[i] ELSE cells[i].cur] : f \in keeps}

Cell(V) == {c \in [cur : V, may : SUBSET V] : c.cur \in c.may}
=============================================================================
