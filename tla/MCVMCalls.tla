------------------------------ MODULE MCVMCalls ------------------------------
(***************************************************************************)
(* A small instance of VMCalls.                                            *)
(***************************************************************************)
EXTENDS VMCalls, TLC

MCCreators == Procs \cup {CreateVM}
MCContextOf == [x \in Agents \cup Disks |-> "c1"]

Sym == Permutations(Procs) \cup Permutations(Others) \cup Permutations(Disks)
=============================================================================
