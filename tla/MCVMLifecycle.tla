---------------------------- MODULE MCVMLifecycle ----------------------------
(***************************************************************************)
(* Small instances of VMLifecycle: cloud properties that share names, that *)
(* use every kind of object, and that fail early and late.                 *)
(***************************************************************************)
EXTENDS VMLifecycle, FiniteSets, TLC

CONSTANTS n1, n2

Svc(n)    == [kind |-> "service", name |-> n, bad |-> FALSE]
Ingr(n)   == [kind |-> "ingress", name |-> n, bad |-> FALSE]
Secret(n) == [kind |-> "secret", name |-> n, bad |-> FALSE]

Vm(services, secrets, launch) ==
    [networks |-> 1, services |-> services, secrets |-> secrets,
     launch |-> launch, bad |-> FALSE]

TwoServices == Vm(<<Svc(n1), Svc(n2)>>, <<>>, "pod")
WithSecret  == Vm(<<Svc(n2)>>, <<Secret(n1)>>, "pod")
WithIngress == Vm(<<Ingr(n1), Svc(n1)>>, <<>>, "pod")
Replicated  == Vm(<<Svc(n1)>>, <<>>, "deployment")
NoReplicas  == [Replicated EXCEPT !.bad = TRUE]
Unreadable  == Vm(<<>>, <<[Secret(n1) EXCEPT !.bad = TRUE]>>, "pod")
SecretTwice == Vm(<<>>, <<Secret(n1), Secret(n1)>>, "pod")
NoNetwork   == [TwoServices EXCEPT !.networks = 0]

DeployedProps == {Replicated}
SharingProps  == {TwoServices, WithSecret, WithIngress, SecretTwice}
EveryProps    == {TwoServices, WithSecret, WithIngress, Replicated,
                  NoReplicas, Unreadable, NoNetwork}

Sym == Permutations(Procs) \cup Permutations(Agents)
=============================================================================
