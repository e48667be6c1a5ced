------------------------------- MODULE MCDisks -------------------------------
(***************************************************************************)
(* Small instances of Disks: metadata that sets one tag, that sets another *)
(* and the disk-id label, that gives the disk-id of the disk still to be   *)
(* created, and that has a value Kubernetes rejects.                       *)
(***************************************************************************)
EXTENDS Disks, TLC

CONSTANTS t1, t2, v1, x2

MCMetadata ==
    { [k \in {IdKey, t1, t2} |-> IF k = t1 THEN v1 ELSE Absent],
      [k \in {IdKey, t1, t2} |-> IF k = t1 THEN Absent ELSE v1],
      [k \in {IdKey, t1, t2} |-> IF k = IdKey THEN x2 ELSE Absent],
      [k \in {IdKey, t1, t2} |-> IF k = t2 THEN Bad ELSE v1] }

Sym == Permutations(Procs)
=============================================================================
