--------------------------- MODULE MCVolumeManager ---------------------------
(***************************************************************************)
(* Small instances of VolumeManager.  Processes, disks and addresses are   *)
(* interchangeable, hence the symmetry of the safety runs; a run with      *)
(* liveness uses none.                                                     *)
(***************************************************************************)
EXTENDS VolumeManagerImpl, FiniteSets, TLC

CONSTANTS Foreign   \* the VMs and disks of a second context

MCCreators == Procs \cup {CreateVM}
MCContextOf == [x \in Agents \cup Disks |-> IF x \in Foreign THEN "c2" ELSE "c1"]

Sym == Permutations(Procs) \cup Permutations(Disks \ Foreign) \cup Permutations(IPs)
=============================================================================
