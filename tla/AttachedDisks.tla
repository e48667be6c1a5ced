---------------------------- MODULE AttachedDisks ----------------------------
(***************************************************************************)
(* What attach_disk and detach_disk promise a director that has at most    *)
(* one of them at work on a VM: no pods, no watches, no versions.          *)
(*                                                                         *)
(* A VM has the disks its machine runs with and the disks its settings     *)
(* name.  A call records the change in the settings, stops the machine,    *)
(* and starts it with exactly the disks it was stopped with plus or minus  *)
(* the one asked for; only then may it answer that it succeeded.  It may   *)
(* fail after any of these, leaving what it has done.                      *)
(***************************************************************************)
CONSTANTS
    Calls,        \* one call each
    VMs,
    Disks,
    Requests,     \* records [op |-> "Add" or "Remove", vm, disk]
    NoRequest,    \* of a call that has not been made
    Down          \* of a VM whose machine does not run

VARIABLES
    machine,      \* the disks a VM runs with, or Down
    settings,     \* the disks the agent is told of
    asked,        \* what a call was asked for
    progress,     \* how far it is
    before        \* the disks of the machine it has stopped

vars == <<machine, settings, asked, progress, before>>

TypeOK ==
    /\ machine \in [VMs -> (SUBSET Disks) \cup {Down}]
    /\ settings \in [VMs -> SUBSET Disks]
    /\ asked \in [Calls -> Requests \cup {NoRequest}]
    /\ progress \in [Calls -> {"none", "asked", "recorded", "stopped", "started",
                               "ok", "failed"}]
    /\ before \in [Calls -> SUBSET Disks]

With(disks, r) == IF r.op = "Add" THEN disks \cup {r.disk} ELSE disks \ {r.disk}

Working(c) == progress[c] \in {"asked", "recorded", "stopped", "started"}

\* A step of a call gets it to the next stage, or is its last.
Reaches(c, stage) == \/ progress' = [progress EXCEPT ![c] = stage]
                     \/ progress' = [progress EXCEPT ![c] = "failed"]

Init ==
    /\ machine = [a \in VMs |-> {}]
    /\ settings = [a \in VMs |-> {}]
    /\ asked = [c \in Calls |-> NoRequest]
    /\ progress = [c \in Calls |-> "none"]
    /\ before = [c \in Calls |-> {}]

Ask(c) ==
    /\ progress[c] = "none"
    /\ \E r \in Requests :
        /\ ~\E other \in Calls : Working(other) /\ asked[other].vm = r.vm
        /\ asked' = [asked EXCEPT ![c] = r]
    /\ Reaches(c, "asked")
    /\ UNCHANGED <<machine, settings, before>>

Record(c) ==
    /\ progress[c] = "asked"
    /\ settings' = [settings EXCEPT ![asked[c].vm] = With(@, asked[c])]
    /\ Reaches(c, "recorded")
    /\ UNCHANGED <<machine, asked, before>>

\* A call that stops the machine and fails at that has forgotten its disks.
Stop(c) ==
    /\ progress[c] = "recorded" /\ machine[asked[c].vm] # Down
    /\ machine' = [machine EXCEPT ![asked[c].vm] = Down]
    /\ \/ /\ progress' = [progress EXCEPT ![c] = "stopped"]
          /\ before' = [before EXCEPT ![c] = machine[asked[c].vm]]
       \/ /\ progress' = [progress EXCEPT ![c] = "failed"]
          /\ UNCHANGED before
    /\ UNCHANGED <<settings, asked>>

Start(c) ==
    /\ progress[c] = "stopped" /\ machine[asked[c].vm] = Down
    /\ asked[c].op = "Add" => asked[c].disk \notin before[c]
    /\ machine' = [machine EXCEPT ![asked[c].vm] = With(before[c], asked[c])]
    /\ before' = [before EXCEPT ![c] = {}]
    /\ Reaches(c, "started")
    /\ UNCHANGED <<settings, asked>>

Succeed(c) ==
    /\ progress[c] = "started"
    /\ progress' = [progress EXCEPT ![c] = "ok"]
    /\ UNCHANGED <<machine, settings, asked, before>>

Fail(c) ==
    /\ Working(c)
    /\ progress' = [progress EXCEPT ![c] = "failed"]
    /\ before' = [before EXCEPT ![c] = {}]
    /\ UNCHANGED <<machine, settings, asked>>

Next == \E c \in Calls : \/ Ask(c) \/ Record(c) \/ Stop(c) \/ Start(c)
                         \/ Succeed(c) \/ Fail(c)

Spec == Init /\ [][Next]_vars
=============================================================================
