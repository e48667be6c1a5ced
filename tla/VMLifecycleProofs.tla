-------------------------- MODULE VMLifecycleProofs ---------------------------
(***************************************************************************)
(* Proofs about VMLifecycle: what create_vm and delete_vm keep of the      *)
(* family of objects a VM is, first in any overlap of calls and then when  *)
(* the director makes one call at a time on a VM.                          *)
(***************************************************************************)
EXTENDS VMLifecycle, TLAPS

\* The plan of a create_vm: the namespace, the config map, the services and
\* secrets, and at the end the pod or Deployment; nothing of these twice but what
\* the cloud properties name twice (create_vm.go:140-184).
LEMMA PlanShape ==
    ASSUME NEW r \in Request, r.op = "create"
    PROVE  /\ Len(Plan(r)) \in Nat /\ Len(Plan(r)) > 2
           /\ \A n \in 1 .. Len(Plan(r)) :
                /\ Plan(r)[n] \in Item
                /\ Plan(r)[n].kind = "namespace" <=> n = 1
                /\ Plan(r)[n].kind = "configmap" <=> n = 2
                /\ Plan(r)[n].kind \in {"pod", "deployment"} <=> n = Len(Plan(r))
                /\ Plan(r)[n].kind \in {"service", "ingress", "secret"} =>
                      Plan(r)[n].name \in Names
                /\ Plan(r)[n].kind \in {"configmap", "pod", "deployment"} =>
                      Plan(r)[n].name = r.vm
                /\ Plan(r)[n].kind = "namespace" => Plan(r)[n].name = Namespace
                /\ Plan(r)[n].kind # "replica"
<1> DEFINE nsp == [kind |-> "namespace", name |-> Namespace, bad |-> FALSE]
           cfm == [kind |-> "configmap", name |-> r.vm, bad |-> FALSE]
           lau == [kind |-> r.props.launch, name |-> r.vm, bad |-> r.props.bad]
           svc == r.props.services
           sec == r.props.secrets
<1>1. r \in [op : {"create"}, vm : Agents, props : CloudProps]
  BY DEF Request
<1>2. r.vm \in Agents /\ r.props \in Props
  BY <1>1, PropsAssumption
<1>3. /\ svc \in Seq(ServiceItem) /\ sec \in Seq(SecretItem)
      /\ r.props.launch \in {"pod", "deployment"} /\ r.props.bad \in BOOLEAN
  BY <1>2 DEF Props
<1>4. nsp \in Item /\ cfm \in Item /\ lau \in Item
  BY <1>2, <1>3 DEF Item, Kinds
<1>5. svc \in Seq(Item) /\ sec \in Seq(Item)
  <2>1. ServiceItem \subseteq Item /\ SecretItem \subseteq Item
    BY DEF Item, Kinds, ServiceItem, SecretItem
  <2> QED
    BY <1>3, <2>1
<1>6. Plan(r) = <<nsp, cfm>> \o svc \o sec \o <<lau>>
  BY DEF Plan
<1> HIDE DEF nsp, cfm, lau, svc, sec
<1>7. /\ <<nsp, cfm>> \in Seq(Item) /\ <<lau>> \in Seq(Item)
      /\ <<nsp, cfm>> \o svc \in Seq(Item)
      /\ <<nsp, cfm>> \o svc \o sec \in Seq(Item)
      /\ Plan(r) \in Seq(Item)
  BY <1>4, <1>5, <1>6
<1>8. /\ Len(svc) \in Nat /\ Len(sec) \in Nat
      /\ Len(Plan(r)) = 3 + Len(svc) + Len(sec)
  BY <1>4, <1>5, <1>6, <1>7
<1>9. ASSUME NEW n \in 1 .. Len(Plan(r))
      PROVE  \/ n = 1 /\ Plan(r)[n] = nsp
             \/ n = 2 /\ Plan(r)[n] = cfm
             \/ n > 2 /\ n < Len(Plan(r)) /\ Plan(r)[n] \in ServiceItem
             \/ n > 2 /\ n < Len(Plan(r)) /\ Plan(r)[n] \in SecretItem
             \/ n = Len(Plan(r)) /\ Plan(r)[n] = lau
  <2>1. CASE n <= 2
    BY <1>4, <1>5, <1>6, <1>7, <1>8, <2>1
  <2>2. CASE n > 2 /\ n <= 2 + Len(svc)
    <3>1. n - 2 \in 1 .. Len(svc)
      BY <1>8, <2>2
    <3>2. Plan(r)[n] = svc[n - 2]
      BY <1>4, <1>5, <1>6, <1>7, <1>8, <2>2
    <3> QED
      BY <1>3, <1>8, <2>2, <3>1, <3>2
  <2>3. CASE n > 2 + Len(svc) /\ n <= 2 + Len(svc) + Len(sec)
    <3>1. n - 2 - Len(svc) \in 1 .. Len(sec)
      BY <1>8, <2>3
    <3>2. Plan(r)[n] = sec[n - 2 - Len(svc)]
      BY <1>4, <1>5, <1>6, <1>7, <1>8, <2>3
    <3> QED
      <4>1. sec[n - 2 - Len(svc)] \in SecretItem
        BY <1>3, <3>1
      <4>2. n > 2 /\ n < Len(Plan(r))
        BY <1>8, <2>3
      <4> QED
        BY <3>2, <4>1, <4>2
  <2>4. CASE n = 3 + Len(svc) + Len(sec)
    BY <1>4, <1>5, <1>6, <1>7, <1>8, <2>4
  <2> QED
    BY <1>8, <2>1, <2>2, <2>3, <2>4
<1>10. /\ nsp.kind = "namespace" /\ nsp.name = Namespace
       /\ cfm.kind = "configmap" /\ cfm.name = r.vm
       /\ lau.kind \in {"pod", "deployment"} /\ lau.name = r.vm
  BY <1>3 DEF nsp, cfm, lau
<1>11. ASSUME NEW i \in ServiceItem \cup SecretItem
       PROVE  i \in Item /\ i.kind \in {"service", "ingress", "secret"} /\ i.name \in Names
  BY DEF ServiceItem, SecretItem, Item, Kinds
<1>12. Len(Plan(r)) \in Nat /\ Len(Plan(r)) > 2
  BY <1>8
<1>13. ASSUME NEW n \in 1 .. Len(Plan(r))
       PROVE  /\ Plan(r)[n] \in Item
              /\ Plan(r)[n].kind = "namespace" <=> n = 1
              /\ Plan(r)[n].kind = "configmap" <=> n = 2
              /\ Plan(r)[n].kind \in {"pod", "deployment"} <=> n = Len(Plan(r))
              /\ Plan(r)[n].kind \in {"service", "ingress", "secret"} =>
                      Plan(r)[n].name \in Names
              /\ Plan(r)[n].kind \in {"configmap", "pod", "deployment"} =>
                      Plan(r)[n].name = r.vm
              /\ Plan(r)[n].kind = "namespace" => Plan(r)[n].name = Namespace
              /\ Plan(r)[n].kind # "replica"
  BY <1>4, <1>9, <1>10, <1>11, <1>12
<1> QED
  BY <1>12, <1>13

-----------------------------------------------------------------------------
Creates(p) == pc[p] # "idle" /\ req[p].op = "create"

Last(p) == Len(Plan(req[p]))

\* create_vm has the n-th object of its plan behind it: it made it, or passed it
\* over because it was there.
Past(p, n) == \/ n < at[p]
              \/ n = at[p] /\ (pc[p] = "wait" \/ outcome[p] = "ok")

\* It may have made it.
MayHaveMade(p, n) == Past(p, n) \/ (n = at[p] /\ outcome[p] = "broken")

\* Where a call is in its plan.
PlanAt(p) ==
    /\ pc[p] = "idle" => at[p] = 1 /\ outcome[p] = "running"
    /\ pc[p] \in {"get", "create", "wait"} =>
          req[p].op = "create" /\ at[p] \in 1 .. Last(p)
    /\ pc[p] \in {"del_pod", "list", "del_svc"} => req[p].op = "delete"
    /\ pc[p] = "get" => Doing(p).kind \in {"namespace", "service", "secret"}
    /\ pc[p] = "wait" => Doing(p).kind = "deployment"
    /\ outcome[p] = "ok" /\ Creates(p) => at[p] = Last(p)
    /\ outcome[p] = "ok" /\ ~Creates(p) => pc[p] = "del_svc"

PlanInv == \A p \in Procs : PlanAt(p)

\* Every object but the namespace and what the controller makes is in the plan
\* of a create_vm that got that far.
MadeBy(o, q) ==
    /\ Creates(q) /\ o.label = req[q].vm
    /\ \E n \in 1 .. Last(q) : /\ MayHaveMade(q, n)
                               /\ Plan(req[q])[n].kind = o.kind
                               /\ Plan(req[q])[n].name = o.name

Origins ==
    \A o \in objects : o.kind \notin {"namespace", "replica"} =>
        \E q \in Procs : MadeBy(o, q)

NamesAreUnique ==
    \A o1, o2 \in objects : o1.kind = o2.kind /\ o1.name = o2.name => o1 = o2

\* A create_vm made every secret it has behind it, alone.
HasSecret(p, n, s) ==
    /\ Creates(p) /\ n \in 1 .. Last(p) /\ Past(p, n)
    /\ Plan(req[p])[n].kind = "secret" /\ Plan(req[p])[n].name = s

SecretInv ==
    \A p \in Procs, n \in Nat, s \in Names : HasSecret(p, n, s) =>
        /\ Exists("secret", s)
        /\ \A q \in Procs \ {p}, k \in Nat : ~HasSecret(q, k, s)

AnyInv == TypeOK /\ PlanInv /\ NamesAreUnique /\ Origins

-----------------------------------------------------------------------------
(* What a step of create_vm is *)

CreateStep(p) == Get(p) \/ Create(p) \/ CreateFails(p) \/ DeploymentReady(p) \/ TimesOut(p)

DeleteStep(p) == DeletePod(p) \/ ListServices(p) \/ DeleteService(p) \/ DeleteConfigMap(p)

\* It stays with its object, turning to the Create or ending in one of the ways
\* of how; or it has done with it.
Stays(p, how) ==
    /\ UNCHANGED at
    /\ \/ pc[p] = "get" /\ Goto(p, "create") /\ UNCHANGED outcome
       \/ UNCHANGED pc /\ \E h \in how : Ends(p, h)

Passes(p) ==
    \/ Advance(p)
    \/ /\ pc[p] = "create" /\ Doing(p).kind = "deployment"
       /\ Goto(p, "wait") /\ UNCHANGED <<at, outcome>>

\* The object was there, and may be; it was made.
Shared(p) == /\ Exists(Doing(p).kind, Doing(p).name)
             /\ Doing(p).kind \in {"namespace", "service"}
             /\ UNCHANGED objects

Clashes(p) == /\ Exists(Doing(p).kind, Doing(p).name)
              /\ Doing(p).kind # "namespace"

Makes(p) ==
    /\ pc[p] = "create" /\ ~Exists(Doing(p).kind, Doing(p).name)
    /\ objects' = objects \cup {[kind |-> Doing(p).kind, name |-> Doing(p).name,
                                 label |-> Labels(p, Doing(p))]}

CreateMove(p) ==
    /\ UNCHANGED <<req, todo, latest>>
    /\ outcome[p] = "running" /\ pc[p] \in {"get", "create", "wait"}
    /\ \/ UNCHANGED objects /\ Stays(p, {"invalid", "timeout"})
       \/ UNCHANGED objects /\ Clashes(p) /\ Stays(p, {"refused"})
       \/ Shared(p) /\ Passes(p)
       \/ Makes(p) /\ (Passes(p) \/ Stays(p, {"broken"}))
       \/ UNCHANGED objects /\ pc[p] = "wait" /\ Passes(p)

LEMMA CreateSteps ==
    ASSUME TypeOK, PlanInv, NEW p \in Procs, CreateStep(p)
    PROVE  CreateMove(p)
<1>1. CASE Get(p)
  <2>1. Doing(p).kind \in {"namespace", "service", "secret"}
    BY <1>1 DEF Get, At, PlanInv, PlanAt
  <2>2. ASSUME Exists(Doing(p).kind, Doing(p).name) /\ Doing(p).kind # "secret" /\ Advance(p)
      PROVE  CreateMove(p)
    BY <1>1, <2>1, <2>2 DEF Get, At, Shared, Passes, CreateMove
  <2>3. ASSUME /\ Exists(Doing(p).kind, Doing(p).name) /\ Doing(p).kind = "secret"
               /\ Ends(p, "refused") /\ UNCHANGED <<pc, at>>
      PROVE  CreateMove(p)
    BY <1>1, <2>3 DEF Get, At, Clashes, Stays, CreateMove
  <2>4. ASSUME Goto(p, "create") /\ UNCHANGED <<at, outcome>>
      PROVE  CreateMove(p)
    BY <1>1, <2>4 DEF Get, At, Stays, CreateMove
  <2> QED
    BY <1>1, <2>2, <2>3, <2>4 DEF Get
<1>2. CASE Create(p)
  <2>1. Makes(p)
    BY <1>2 DEF Create, At, Makes
  <2>2. Passes(p) \/ Stays(p, {"broken"})
    BY <1>2 DEF Create, At, Passes, Stays, AnswerLost
  <2> QED
    BY <1>2, <2>1, <2>2 DEF Create, At, CreateMove
<1>3. CASE CreateFails(p)
  <2> USE DEF CreateFails, At, Tolerated
  <2>1. ASSUME Doing(p).bad /\ Ends(p, "invalid") /\ UNCHANGED <<pc, at>>
      PROVE  CreateMove(p)
    BY <1>3, <2>1 DEF Stays, CreateMove
  <2>2. ASSUME /\ Exists(Doing(p).kind, Doing(p).name) /\ Doing(p).kind = "namespace"
               /\ Advance(p)
      PROVE  CreateMove(p)
    BY <1>3, <2>2 DEF Shared, Passes, CreateMove
  <2>3. ASSUME /\ Exists(Doing(p).kind, Doing(p).name) /\ Doing(p).kind # "namespace"
               /\ Ends(p, "refused") /\ UNCHANGED <<pc, at>>
      PROVE  CreateMove(p)
    BY <1>3, <2>3 DEF Clashes, Stays, CreateMove
  <2> QED
    BY <1>3, <2>1, <2>2, <2>3
<1>4. CASE DeploymentReady(p)
  BY <1>4 DEF DeploymentReady, At, Passes, CreateMove
<1>5. CASE TimesOut(p)
  BY <1>5 DEF TimesOut, At, Stays, CreateMove
<1> QED
  BY <1>1, <1>2, <1>3, <1>4, <1>5 DEF CreateStep

\* What a step of p leaves alone.
Elsewhere(p) ==
    \A q \in Procs \ {p} :
        pc'[q] = pc[q] /\ at'[q] = at[q] /\ outcome'[q] = outcome[q] /\ todo'[q] = todo[q]
        /\ req'[q] = req[q]

LEMMA PlanOf ==
    ASSUME TypeOK, PlanInv, NEW p \in Procs, Creates(p)
    PROVE  /\ req[p] \in Request /\ req[p].vm \in Agents
           /\ pc[p] \in {"get", "create", "wait"}
           /\ Last(p) \in Nat /\ Last(p) > 2 /\ at[p] \in 1 .. Last(p)
<1>1. req[p] \in Request /\ req[p].vm \in Agents
  BY DEF TypeOK, Creates, Request
<1>2. Last(p) \in Nat /\ Last(p) > 2
  BY <1>1, PlanShape DEF Creates, Last
<1>3. pc[p] \in {"get", "create", "wait"}
  BY DEF TypeOK, PlanInv, PlanAt, Creates
<1> QED
  BY <1>1, <1>2, <1>3 DEF PlanInv, PlanAt

LEMMA StaysAt ==
    ASSUME TypeOK, PlanInv, NEW p \in Procs, Creates(p), UNCHANGED <<req, todo>>,
           outcome[p] = "running",
           NEW how \in SUBSET {"invalid", "refused", "timeout", "broken"}, Stays(p, how)
    PROVE  /\ Elsewhere(p) /\ Creates(p)' /\ at'[p] = at[p]
           /\ pc'[p] \in {"get", "create", "wait"} /\ (pc'[p] = "wait" <=> pc[p] = "wait")
           /\ outcome'[p] \in {"running"} \cup how
           /\ pc'[p] # pc[p] => outcome'[p] = "running"
<1>1. pc[p] \in {"get", "create", "wait"}
  BY PlanOf
<1> QED
  BY <1>1 DEF Stays, Goto, Ends, Elsewhere, Creates, TypeOK

LEMMA PassesAt ==
    ASSUME TypeOK, PlanInv, NEW p \in Procs, Creates(p), UNCHANGED <<req, todo>>,
           outcome[p] = "running", Passes(p)
    PROVE  /\ Elsewhere(p) /\ Creates(p)'
           /\ at'[p] \in 1 .. Last(p) /\ pc'[p] \in {"get", "create", "wait"}
           /\ outcome'[p] \in {"running", "ok"}
           /\ \/ at'[p] = at[p] /\ at[p] = Last(p) /\ outcome'[p] = "ok" /\ pc'[p] = pc[p]
              \/ at'[p] = at[p] + 1 /\ outcome'[p] = "running"
                 /\ pc'[p] = FirstRequest(Plan(req[p])[at[p] + 1])
              \/ at'[p] = at[p] /\ outcome'[p] = "running" /\ pc'[p] = "wait"
                 /\ Doing(p).kind = "deployment"
<1>1. /\ pc[p] \in {"get", "create", "wait"} /\ pc[p] # "idle"
      /\ Last(p) \in Nat /\ at[p] \in 1 .. Last(p)
  BY PlanOf
<1>2. CASE Advance(p) /\ at[p] = Last(p)
  BY <1>1, <1>2 DEF Advance, Last, Goto, Ends, Elsewhere, Creates, TypeOK
<1>3. CASE Advance(p) /\ at[p] # Last(p)
  <2>1. /\ at' = [at EXCEPT ![p] = @ + 1]
        /\ pc' = [pc EXCEPT ![p] = FirstRequest(Plan(req[p])[at[p] + 1])]
        /\ UNCHANGED outcome
    BY <1>3 DEF Advance, Last, Goto
  <2>2. FirstRequest(Plan(req[p])[at[p] + 1]) \in {"get", "create"}
    BY DEF FirstRequest
  <2> QED
    BY <1>1, <1>3, <2>1, <2>2 DEF Elsewhere, Creates, TypeOK
<1>4. CASE Doing(p).kind = "deployment" /\ Goto(p, "wait") /\ UNCHANGED <<at, outcome>>
  BY <1>1, <1>4 DEF Goto, Elsewhere, Creates, TypeOK
<1> QED
  BY <1>2, <1>3, <1>4 DEF Passes

-----------------------------------------------------------------------------
(* What any step is *)

\* The director makes a call; a delete_vm takes a step.
Begins(p) ==
    /\ pc[p] = "idle" /\ outcome[p] = "running"
    /\ Elsewhere(p) /\ UNCHANGED <<objects, at, todo>>
    /\ req'[p] \in Request /\ outcome'[p] \in {"running", "invalid"}
    /\ latest' = [latest EXCEPT ![req'[p].vm] = p]
    /\ Serialised => \A q \in Procs : ~(InProgress(q) /\ req[q].vm = req'[p].vm)
    /\ \/ req'[p].op = "create" /\ pc'[p] = "get"
       \/ req'[p].op = "delete" /\ pc'[p] = "del_pod" /\ outcome'[p] = "running"

Deletes(p) ==
    /\ pc[p] \in {"del_pod", "list", "del_svc"} /\ outcome[p] = "running"
    /\ Elsewhere(p) /\ UNCHANGED <<req, at, latest>>
    /\ pc'[p] \in {"del_pod", "list", "del_svc"}
    /\ outcome'[p] = "ok" => pc'[p] = "del_svc"
    /\ objects' \subseteq objects
    /\ \A o \in objects \ objects' : o.kind \in {"pod", "service", "configmap"}

LEMMA BeginSteps ==
    ASSUME TypeOK, PlanInv, NEW p \in Procs, Begin(p)
    PROVE  Begins(p)
<1>1. /\ pc[p] = "idle" /\ outcome[p] = "running"
      /\ UNCHANGED <<objects, at, todo>>
  BY DEF Begin, At
<1>2. PICK r \in Request :
        /\ req' = [req EXCEPT ![p] = r]
        /\ Serialised => \A q \in Procs : ~(InProgress(q) /\ req[q].vm = r.vm)
        /\ latest' = [latest EXCEPT ![r.vm] = p]
        /\ pc' = [pc EXCEPT ![p] = IF r.op = "create" THEN "get" ELSE "del_pod"]
        /\ \/ r.op = "create" /\ outcome' = [outcome EXCEPT ![p] = "invalid"]
           \/ UNCHANGED outcome
  BY DEF Begin, Goto, Ends
<1>3. r.op \in {"create", "delete"}
  BY DEF Request
<1>4. req'[p] = r /\ Elsewhere(p)
  BY <1>1, <1>2 DEF Elsewhere, TypeOK
<1>5. /\ pc'[p] = (IF r.op = "create" THEN "get" ELSE "del_pod")
      /\ \/ r.op = "create" /\ outcome'[p] = "invalid"
         \/ outcome'[p] = "running"
  BY <1>1, <1>2 DEF TypeOK
<1> QED
  BY <1>1, <1>2, <1>3, <1>4, <1>5 DEF Begins

LEMMA DeleteSteps ==
    ASSUME TypeOK, PlanInv, NEW p \in Procs, DeleteStep(p)
    PROVE  Deletes(p)
<1> USE DEF At, Goto, Ends, Elsewhere, TypeOK
<1>1. CASE DeletePod(p)
  BY <1>1 DEF DeletePod, Deletes, Without
<1>2. CASE ListServices(p)
  BY <1>2 DEF ListServices, Deletes
<1>3. CASE DeleteService(p)
  BY <1>3 DEF DeleteService, Deletes, Without
<1>4. CASE DeleteConfigMap(p)
  BY <1>4 DEF DeleteConfigMap, Deletes, Without
<1> QED
  BY <1>1, <1>2, <1>3, <1>4 DEF DeleteStep

\* A step is one of these, the end of a call or the controller's.
Broken(p) ==
    /\ pc[p] # "idle" /\ outcome[p] = "running" /\ outcome'[p] = "broken"
    /\ Elsewhere(p) /\ UNCHANGED <<objects, req, pc, at, todo, latest>>

Controls ==
    /\ UNCHANGED <<req, pc, at, todo, outcome, latest>>
    /\ \E a \in Agents : /\ ~Exists("replica", a)
                         /\ objects' = objects \cup {[kind |-> "replica", name |-> a, label |-> a]}

LEMMA Steps ==
    ASSUME TypeOK, PlanInv, Next
    PROVE  \/ \E p \in Procs : /\ pc[p] # "idle" => req[p].op \in {"create", "delete"}
                               /\ Begins(p) \/ CreateMove(p) \/ Deletes(p) \/ Broken(p)
           \/ Controls
<1>1. ASSUME NEW p \in Procs, Begin(p) \/ Step(p) \/ Breaks(p)
      PROVE  /\ pc[p] # "idle" => req[p].op \in {"create", "delete"}
             /\ Begins(p) \/ CreateMove(p) \/ Deletes(p) \/ Broken(p)
  <2>1. pc[p] # "idle" => req[p].op \in {"create", "delete"}
    BY DEF TypeOK, Request
  <2>2. ASSUME Breaks(p) PROVE Broken(p)
    BY <2>2 DEF Breaks, InProgress, Ends, Broken, Elsewhere, TypeOK
  <2> QED
    BY <1>1, <2>1, <2>2, BeginSteps, DeleteSteps, CreateSteps DEF Step, CreateStep, DeleteStep
<1>2. ASSUME NEW a \in Agents, ControllerRuns(a)
      PROVE  Controls
  BY <1>2 DEF ControllerRuns, Controls
<1> QED
  BY <1>1, <1>2 DEF Next

LEMMA PlanFrame ==
    ASSUME NEW p, PlanAt(p), pc'[p] = pc[p], at'[p] = at[p], outcome'[p] = outcome[p],
           req'[p] = req[p]
    PROVE  PlanAt(p)'
BY DEF PlanAt, Doing, Last, Creates

\* A call stays inside its plan, and ends well only at its end.
LEMMA NextPlan == TypeOK /\ PlanInv /\ [Next]_vars => PlanInv'
<1> SUFFICES ASSUME TypeOK, PlanInv, [Next]_vars
             PROVE  PlanInv'
  OBVIOUS
<1>0. ASSUME UNCHANGED vars \/ Controls
      PROVE  PlanInv'
  BY <1>0, PlanFrame DEF vars, Controls, PlanInv
<1>q. ASSUME NEW p \in Procs, Elsewhere(p), PlanAt(p)'
      PROVE  PlanInv'
  BY <1>q, PlanFrame DEF PlanInv, Elsewhere
<1>1. ASSUME NEW p \in Procs, Begins(p)
      PROVE  PlanInv'
  <2>1. CASE req'[p].op = "create" /\ pc'[p] = "get"
    <3>1. at'[p] = 1 /\ Last(p)' \in Nat /\ Last(p)' > 2 /\ Doing(p)'.kind = "namespace"
      <4>1. at'[p] = 1
        BY <1>1 DEF Begins, PlanInv, PlanAt
      <4>2. /\ Len(Plan(req'[p])) \in Nat /\ Len(Plan(req'[p])) > 2
            /\ Plan(req'[p])[1].kind = "namespace"
        BY <1>1, <2>1, PlanShape DEF Begins
      <4> QED
        BY <4>1, <4>2 DEF Last, Doing
    <3>2. outcome'[p] \in {"running", "invalid"}
      BY <1>1 DEF Begins
    <3> QED
      BY <1>1, <1>q, <2>1, <3>1, <3>2 DEF Begins, PlanAt
  <2>2. CASE req'[p].op = "delete" /\ pc'[p] = "del_pod" /\ outcome'[p] = "running"
    BY <1>1, <1>q, <2>2 DEF Begins, PlanAt, Creates
  <2> QED
    BY <1>1, <2>1, <2>2 DEF Begins
<1>2. ASSUME NEW p \in Procs, Deletes(p) \/ Broken(p)
      PROVE  PlanInv'
  <2>1. Elsewhere(p) /\ PlanAt(p) /\ req'[p] = req[p] /\ at'[p] = at[p]
    BY <1>2 DEF Deletes, Broken, PlanInv
  <2>2. CASE Deletes(p)
    <3>1. req[p].op = "delete"
      BY <2>1, <2>2 DEF Deletes, PlanAt
    <3> QED
      BY <1>q, <2>1, <2>2, <3>1 DEF Deletes, PlanAt, Creates
  <2>3. CASE Broken(p)
    <3>1. pc'[p] = pc[p] /\ outcome'[p] = "broken" /\ pc[p] # "idle"
      BY <2>3 DEF Broken
    <3>2. PlanAt(p)'
      BY <2>1, <3>1 DEF PlanAt, Doing, Last
    <3> QED
      BY <1>q, <2>1, <3>2
  <2> QED
    BY <1>2, <2>2, <2>3
<1>3. ASSUME NEW p \in Procs, CreateMove(p)
      PROVE  PlanInv'
  <2>1. /\ Creates(p) /\ outcome[p] = "running" /\ UNCHANGED <<req, todo>> /\ PlanAt(p)
        /\ pc[p] \in {"get", "create", "wait"}
    BY <1>3 DEF CreateMove, PlanInv, PlanAt, Creates
  <2>2. Last(p)' = Last(p) /\ req'[p] = req[p] /\ req[p].op = "create"
    BY <2>1 DEF Last, Creates
  <2>3. ASSUME NEW how \in SUBSET {"invalid", "refused", "timeout", "broken"}, Stays(p, how)
        PROVE  PlanInv'
    <3>1. /\ Elsewhere(p) /\ at'[p] = at[p] /\ pc'[p] \in {"get", "create", "wait"}
          /\ pc'[p] = "wait" <=> pc[p] = "wait"
          /\ outcome'[p] # "ok"
      BY <2>1, <2>3, StaysAt
    <3>2. pc'[p] \in {pc[p], "create"}
      BY <2>3 DEF Stays, Goto, TypeOK
    <3>3. PlanAt(p)'
      BY <2>1, <2>2, <3>1, <3>2 DEF PlanAt, Doing, Last
    <3> QED
      BY <1>q, <3>1, <3>3
  <2>4. ASSUME Passes(p)
        PROVE  PlanInv'
    <3>0. /\ Elsewhere(p) /\ pc'[p] \in {"get", "create", "wait"} /\ at'[p] \in 1 .. Last(p)
          /\ outcome'[p] \in {"running", "ok"}
      BY <2>1, <2>4, PassesAt
    <3>1. CASE at'[p] = at[p] /\ at[p] = Last(p) /\ outcome'[p] = "ok" /\ pc'[p] = pc[p]
      <4>1. PlanAt(p)'
        BY <2>1, <2>2, <3>0, <3>1 DEF PlanAt, Doing, Last, Creates
      <4> QED
        BY <1>q, <3>0, <4>1
    <3>2. CASE /\ at'[p] = at[p] + 1 /\ outcome'[p] = "running"
               /\ pc'[p] = FirstRequest(Plan(req[p])[at[p] + 1])
      <4>1. pc'[p] = FirstRequest(Doing(p)')
        BY <2>2, <3>2 DEF Doing
      <4>2. pc'[p] # "wait" /\ (pc'[p] = "get" => Doing(p)'.kind \in {"namespace", "service", "secret"})
        BY <4>1 DEF FirstRequest
      <4> QED
        BY <1>q, <2>1, <2>2, <3>0, <3>2, <4>2 DEF PlanAt
    <3>3. CASE /\ at'[p] = at[p] /\ outcome'[p] = "running" /\ pc'[p] = "wait"
               /\ Doing(p).kind = "deployment"
      <4>1. PlanAt(p)'
        BY <2>1, <2>2, <3>0, <3>3 DEF PlanAt, Doing, Last
      <4> QED
        BY <1>q, <3>0, <4>1
    <3> QED
      BY <2>1, <2>4, <3>1, <3>2, <3>3, PassesAt
  <2>5. Passes(p) \/ \E how \in SUBSET {"invalid", "refused", "timeout", "broken"} : Stays(p, how)
    BY <1>3 DEF CreateMove
  <2> QED
    BY <2>3, <2>4, <2>5
<1> QED
  BY <1>0, <1>1, <1>2, <1>3, Steps

LEMMA MoveElsewhere ==
    ASSUME TypeOK, PlanInv, NEW p \in Procs, CreateMove(p)
    PROVE  Elsewhere(p) /\ Creates(p)
<1>1. /\ outcome[p] = "running" /\ UNCHANGED <<req, todo>> /\ Creates(p)
  BY DEF CreateMove, Creates, PlanInv, PlanAt
<1>2. Passes(p) \/ \E how \in SUBSET {"invalid", "refused", "timeout", "broken"} : Stays(p, how)
  BY DEF CreateMove
<1> QED
  BY <1>1, <1>2, StaysAt, PassesAt

\* What a create_vm has behind it stays behind it,
LEMMA PastStays ==
    ASSUME TypeOK, PlanInv, [Next]_vars, NEW q \in Procs, Creates(q)
    PROVE  /\ Creates(q)' /\ req'[q] = req[q]
           /\ \A n \in 1 .. Last(q) : /\ Past(q, n) => Past(q, n)'
                                      /\ MayHaveMade(q, n) => MayHaveMade(q, n)'
<1> DEFINE Kept == /\ Creates(q)' /\ req'[q] = req[q]
                   /\ \A n \in 1 .. Last(q) : /\ Past(q, n) => Past(q, n)'
                                              /\ MayHaveMade(q, n) => MayHaveMade(q, n)'
<1>0. ASSUME /\ pc'[q] = pc[q] /\ at'[q] = at[q] /\ req'[q] = req[q]
             /\ outcome'[q] = outcome[q] \/ (outcome[q] = "running" /\ outcome'[q] = "broken")
      PROVE  Kept
  BY <1>0 DEF Creates, Past, MayHaveMade
<1>1. ASSUME NEW p \in Procs \ {q}, Elsewhere(p)
      PROVE  Kept
  BY <1>0, <1>1 DEF Elsewhere
<1>2. ASSUME Begins(q) \/ Deletes(q)
      PROVE  Kept
  BY <1>2 DEF Begins, Deletes, Creates, PlanInv, PlanAt
<1>3. ASSUME Broken(q)
      PROVE  Kept
  BY <1>0, <1>3 DEF Broken
<1>4. ASSUME CreateMove(q)
      PROVE  Kept
  <2>1. outcome[q] = "running" /\ UNCHANGED <<req, todo>>
    BY <1>4 DEF CreateMove
  <2>2. at[q] \in 1 .. Last(q) /\ Last(q) \in Nat
    BY PlanOf
  <2>3. ASSUME NEW how \in SUBSET {"invalid", "refused", "timeout", "broken"}, Stays(q, how)
        PROVE  Kept
    <3>1. Creates(q)' /\ at'[q] = at[q] /\ (pc'[q] = "wait" <=> pc[q] = "wait")
      BY <2>1, <2>3, StaysAt
    <3> QED
      BY <2>1, <3>1 DEF Past, MayHaveMade
  <2>4. ASSUME Passes(q)
        PROVE  Kept
    <3>1. Creates(q)'
      BY <2>1, <2>4, PassesAt
    <3>2. ASSUME NEW n \in 1 .. Last(q), Past(q, n)
          PROVE  Past(q, n)'
      <4>1. n < at[q] \/ n = at[q]
        BY <3>2 DEF Past
      <4>2. \/ at'[q] = at[q] /\ (outcome'[q] = "ok" \/ pc'[q] = "wait")
            \/ at'[q] = at[q] + 1
        BY <2>1, <2>4, PassesAt
      <4> QED
        BY <2>2, <4>1, <4>2 DEF Past
    <3> QED
      BY <2>1, <3>1, <3>2 DEF MayHaveMade
  <2>5. Passes(q) \/ \E how \in SUBSET {"invalid", "refused", "timeout", "broken"} : Stays(q, how)
    BY <1>4 DEF CreateMove
  <2> QED
    BY <2>3, <2>4, <2>5
<1>5. ASSUME UNCHANGED vars \/ Controls
      PROVE  Kept
  BY <1>0, <1>5 DEF vars, Controls
<1>6. ASSUME NEW p \in Procs, Begins(p) \/ CreateMove(p) \/ Deletes(p) \/ Broken(p)
      PROVE  Kept
  <2>1. CASE p = q
    BY <1>2, <1>3, <1>4, <1>6, <2>1
  <2>2. CASE p # q
    <3>1. Elsewhere(p)
      BY <1>6, MoveElsewhere DEF Begins, Deletes, Broken
    <3> QED
      BY <1>1, <2>2, <3>1
  <2> QED
    BY <2>1, <2>2
<1> QED
  BY <1>5, <1>6, Steps

\* and it grows by the object the call was at.
LEMMA PastGrows ==
    ASSUME TypeOK, PlanInv, [Next]_vars, NEW q \in Procs, Creates(q)',
           NEW n \in 1 .. Last(q)', Past(q, n)'
    PROVE  /\ Creates(q) /\ req'[q] = req[q] /\ n \in 1 .. Last(q)
           /\ Past(q, n) \/ (n = at[q] /\ CreateMove(q) /\ Passes(q))
<1> DEFINE Kept == /\ Creates(q) /\ req'[q] = req[q] /\ n \in 1 .. Last(q)
                   /\ Past(q, n) \/ (n = at[q] /\ CreateMove(q) /\ Passes(q))
<1>n. n \in Nat /\ n > 0
  OBVIOUS
<1>0. ASSUME /\ pc'[q] = pc[q] /\ at'[q] = at[q] /\ req'[q] = req[q]
             /\ outcome'[q] = outcome[q] \/ outcome'[q] = "broken"
      PROVE  Kept
  BY <1>0 DEF Creates, Past, Last
<1>1. ASSUME NEW p \in Procs \ {q}, Elsewhere(p)
      PROVE  Kept
  BY <1>0, <1>1 DEF Elsewhere
<1>2. ASSUME Begins(q)
      PROVE  Kept
  <2>1. at'[q] = 1
    BY <1>2 DEF Begins, PlanInv, PlanAt
  <2>2. pc'[q] # "wait" /\ outcome'[q] # "ok"
    BY <1>2 DEF Begins
  <2> QED
    BY <1>n, <2>1, <2>2 DEF Past
<1>3. ASSUME Deletes(q)
      PROVE  Kept
  BY <1>3 DEF Deletes, Creates, PlanInv, PlanAt
<1>4. ASSUME Broken(q)
      PROVE  Kept
  BY <1>0, <1>4 DEF Broken
<1>5. ASSUME CreateMove(q)
      PROVE  Kept
  <2>1. /\ outcome[q] = "running" /\ UNCHANGED <<req, todo>> /\ Creates(q)
    BY <1>5 DEF CreateMove, Creates, PlanInv, PlanAt
  <2>2. at[q] \in 1 .. Last(q) /\ Last(q) \in Nat /\ n \in 1 .. Last(q)
    BY <2>1, PlanOf DEF Last
  <2>3. ASSUME NEW how \in SUBSET {"invalid", "refused", "timeout", "broken"}, Stays(q, how)
        PROVE  Past(q, n)
    <3>1. at'[q] = at[q] /\ (pc'[q] = "wait" <=> pc[q] = "wait") /\ outcome'[q] # "ok"
      BY <2>1, <2>3, StaysAt
    <3> QED
      BY <3>1 DEF Past
  <2>4. ASSUME Passes(q)
        PROVE  n < at[q] \/ n = at[q]
    <3>1. \/ at'[q] = at[q]
          \/ at'[q] = at[q] + 1 /\ outcome'[q] = "running"
             /\ pc'[q] = FirstRequest(Plan(req[q])[at[q] + 1])
      BY <2>1, <2>4, PassesAt
    <3>2. FirstRequest(Plan(req[q])[at[q] + 1]) # "wait"
      BY DEF FirstRequest
    <3> QED
      BY <2>2, <3>1, <3>2 DEF Past
  <2>5. Passes(q) \/ \E how \in SUBSET {"invalid", "refused", "timeout", "broken"} : Stays(q, how)
    BY <1>5 DEF CreateMove
  <2> QED
    BY <1>5, <2>1, <2>2, <2>3, <2>4, <2>5 DEF Past
<1>6. ASSUME UNCHANGED vars \/ Controls
      PROVE  Kept
  BY <1>0, <1>6 DEF vars, Controls
<1>7. ASSUME NEW p \in Procs, Begins(p) \/ CreateMove(p) \/ Deletes(p) \/ Broken(p)
      PROVE  Kept
  <2>1. CASE p = q
    BY <1>2, <1>3, <1>4, <1>5, <1>7, <2>1
  <2>2. CASE p # q
    <3>1. Elsewhere(p)
      BY <1>7, MoveElsewhere DEF Begins, Deletes, Broken
    <3> QED
      BY <1>1, <2>2, <3>1
  <2> QED
    BY <2>1, <2>2
<1> QED
  BY <1>6, <1>7, Steps

-----------------------------------------------------------------------------
(* Objects *)

\* Any step but a Create only takes objects away; a Create adds one whose name
\* was free.
Adds(o) ==
    /\ objects' = objects \cup {o}
    /\ \A x \in objects : ~(x.kind = o.kind /\ x.name = o.name)

LEMMA ObjectMoves ==
    ASSUME TypeOK, PlanInv, [Next]_vars
    PROVE  \/ /\ objects' \subseteq objects
              /\ \A o \in objects \ objects' : o.kind \in {"pod", "service", "configmap"}
           \/ \E o \in Object :
                /\ Adds(o)
                /\ \/ o.kind \in {"replica", "namespace"}
                   \/ \E p \in Procs :
                        /\ CreateMove(p)
                        /\ Passes(p) \/ (Stays(p, {"broken"}) /\ pc[p] = "create")
                        /\ o.label = req[p].vm
                        /\ o.kind = Doing(p).kind /\ o.name = Doing(p).name
<1> DEFINE Less == /\ objects' \subseteq objects
                   /\ \A o \in objects \ objects' : o.kind \in {"pod", "service", "configmap"}
           From(o, p) == /\ CreateMove(p)
                         /\ Passes(p) \/ (Stays(p, {"broken"}) /\ pc[p] = "create")
                         /\ o.label = req[p].vm
                         /\ o.kind = Doing(p).kind /\ o.name = Doing(p).name
           More == \E o \in Object :
                     /\ Adds(o)
                     /\ o.kind \in {"replica", "namespace"} \/ \E p \in Procs : From(o, p)
<1>1. ASSUME NEW p \in Procs, Begins(p) \/ Deletes(p) \/ Broken(p)
      PROVE  Less
  BY <1>1 DEF Begins, Deletes, Broken
<1>2. ASSUME NEW p \in Procs, CreateMove(p)
      PROVE  Less \/ More
  <2>1. CASE UNCHANGED objects
    BY <2>1
  <2>2. CASE Makes(p) /\ (Passes(p) \/ Stays(p, {"broken"}))
    <3> DEFINE i == Doing(p)
               o == [kind |-> i.kind, name |-> i.name, label |-> Labels(p, i)]
    <3>1. Creates(p)
      BY <1>2, MoveElsewhere
    <3>2. req[p] \in Request /\ req[p].op = "create" /\ at[p] \in 1 .. Last(p) /\ req[p].vm \in Agents
      BY <3>1, PlanOf DEF Creates
    <3>3. i \in Item
      BY <3>2, PlanShape DEF Doing, Last
    <3>4. Labels(p, i) \in Agents \cup {Namespace}
      BY <3>2 DEF Labels
    <3>5. o \in Object
      BY <3>3, <3>4 DEF Object, Item
    <3>6. Adds(o)
      BY <2>2 DEF Makes, Adds, Exists
    <3>7. o.kind = "namespace" \/ From(o, p)
      BY <1>2, <2>2 DEF Makes, Labels
    <3> QED
      BY <3>5, <3>6, <3>7
  <2> QED
    BY <1>2, <2>1, <2>2 DEF CreateMove, Shared
<1>3. ASSUME Controls
      PROVE  More
  <2>1. PICK a \in Agents : /\ ~Exists("replica", a)
                            /\ objects' = objects \cup {[kind |-> "replica", name |-> a, label |-> a]}
    BY <1>3 DEF Controls
  <2>2. [kind |-> "replica", name |-> a, label |-> a] \in Object
    BY DEF Object, Kinds
  <2> QED
    BY <2>1, <2>2 DEF Exists, Adds
<1>4. CASE UNCHANGED vars
  BY <1>4 DEF vars
<1> QED
  BY <1>1, <1>2, <1>3, <1>4, Steps

\* No two objects of a kind have one name (Kubernetes sees to it, and the model).
LEMMA NextUnique ==
    TypeOK /\ PlanInv /\ NamesAreUnique /\ [Next]_vars => NamesAreUnique'
BY ObjectMoves DEF NamesAreUnique, Adds

LEMMA OriginStays ==
    ASSUME TypeOK, PlanInv, [Next]_vars, NEW q \in Procs, NEW o, MadeBy(o, q)
    PROVE  MadeBy(o, q)'
<1>1. /\ Creates(q)' /\ req'[q] = req[q]
      /\ \A n \in 1 .. Last(q) : MayHaveMade(q, n) => MayHaveMade(q, n)'
  BY PastStays DEF MadeBy
<1>2. Last(q)' = Last(q)
  BY <1>1 DEF Last
<1>3. PICK n \in 1 .. Last(q) : /\ MayHaveMade(q, n)
                                /\ Plan(req[q])[n].kind = o.kind
                                /\ Plan(req[q])[n].name = o.name
  BY DEF MadeBy
<1> QED
  BY <1>1, <1>2, <1>3 DEF MadeBy

\* Every object was made by a create_vm that still has it in its plan.
LEMMA NextOrigins ==
    TypeOK /\ PlanInv /\ Origins /\ [Next]_vars => Origins'
<1> SUFFICES ASSUME TypeOK, PlanInv, Origins, [Next]_vars,
                    NEW o \in objects', o.kind \notin {"namespace", "replica"}
             PROVE  \E q \in Procs : MadeBy(o, q)'
  BY DEF Origins
<1>1. CASE o \in objects
  BY <1>1, OriginStays DEF Origins
<1>2. CASE o \notin objects
  <2>1. PICK p \in Procs :
          /\ CreateMove(p)
          /\ Passes(p) \/ (Stays(p, {"broken"}) /\ pc[p] = "create")
          /\ o.label = req[p].vm
          /\ o.kind = Doing(p).kind /\ o.name = Doing(p).name
    BY <1>2, ObjectMoves DEF Adds
  <2>2. Creates(p) /\ outcome[p] = "running" /\ UNCHANGED <<req, todo>>
    BY <2>1, MoveElsewhere DEF CreateMove
  <2>3. at[p] \in 1 .. Last(p) /\ Last(p)' = Last(p) /\ req'[p] = req[p]
    BY <2>2, PlanOf DEF Last
  <2>n. PICK n \in 1 .. Last(p) : n = at[p]
    BY <2>3
  <2>4. Creates(p)' /\ MayHaveMade(p, n)'
    <3>1. CASE Passes(p)
      <4>1. /\ Creates(p)'
            /\ \/ at'[p] = at[p] /\ (outcome'[p] = "ok" \/ pc'[p] = "wait")
               \/ at'[p] = at[p] + 1
        BY <2>2, <3>1, PassesAt
      <4> QED
        BY <2>n, <2>3, <4>1 DEF MayHaveMade, Past
    <3>2. CASE Stays(p, {"broken"}) /\ pc[p] = "create"
      <4>1. Creates(p)' /\ at'[p] = at[p]
        BY <2>2, <3>2, StaysAt
      <4>2. outcome'[p] = "broken"
        BY <3>2 DEF Stays, Ends, TypeOK
      <4> QED
        BY <2>n, <4>1, <4>2 DEF MayHaveMade
    <3> QED
      BY <2>1, <3>1, <3>2
  <2> QED
    BY <2>1, <2>n, <2>3, <2>4 DEF MadeBy, Doing
<1> QED
  BY <1>1, <1>2

LEMMA ServiceNames ==
    ASSUME TypeOK, PlanInv, Origins, NEW o \in objects, o.kind = "service"
    PROVE  o.name \in Names
<1>1. PICK q \in Procs : MadeBy(o, q)
  BY DEF Origins
<1>2. PICK n \in 1 .. Last(q) : /\ Plan(req[q])[n].kind = "service"
                                /\ Plan(req[q])[n].name = o.name
  BY <1>1 DEF MadeBy
<1>3. req[q] \in Request /\ req[q].op = "create"
  BY <1>1, PlanOf DEF MadeBy, Creates
<1> QED
  BY <1>2, <1>3, PlanShape DEF Last

LEMMA NextType ==
    TypeOK /\ PlanInv /\ Origins /\ [Next]_vars => TypeOK'
<1> SUFFICES ASSUME TypeOK, PlanInv, Origins, [Next]_vars
             PROVE  TypeOK'
  OBVIOUS
<1>1. objects' \subseteq Object
  BY ObjectMoves DEF TypeOK, Adds
<1>2. ASSUME NEW p \in Procs, Begin(p)
      PROVE  TypeOK'
  <2>1. PICK r \in Request :
          /\ req' = [req EXCEPT ![p] = r]
          /\ latest' = [latest EXCEPT ![r.vm] = p]
          /\ \/ r.op = "create" /\ pc' = [pc EXCEPT ![p] = "get"]
             \/ pc' = [pc EXCEPT ![p] = "del_pod"]
          /\ outcome' \in {outcome, [outcome EXCEPT ![p] = "invalid"]}
    BY <1>2 DEF Begin, Goto, Ends
  <2>2. r.vm \in Agents
    BY DEF Request
  <2> QED
    BY <1>1, <1>2, <2>1, <2>2 DEF Begin, TypeOK
<1>3. ASSUME NEW p \in Procs, CreateMove(p)
      PROVE  TypeOK'
  <2>1. Creates(p) /\ outcome[p] = "running" /\ UNCHANGED <<req, todo, latest>>
    BY <1>3, MoveElsewhere DEF CreateMove
  <2>2. at[p] \in 1 .. Last(p) /\ Last(p) \in Nat
    BY <2>1, PlanOf
  <2>3. /\ pc' \in [Procs -> {"idle", "get", "create", "wait", "del_pod", "list", "del_svc"}]
        /\ at' \in [Procs -> Nat \ {0}]
        /\ outcome' \in [Procs -> {"running", "ok", "invalid", "refused", "broken", "timeout"}]
    <3>1. FirstRequest(Plan(req[p])[at[p] + 1]) \in {"get", "create"}
      BY DEF FirstRequest
    <3>2. CASE Passes(p)
      <4> DEFINE next == FirstRequest(Plan(req[p])[at[p] + 1])
      <4>1. /\ \/ UNCHANGED pc
               \/ pc' = [pc EXCEPT ![p] = next]
               \/ pc' = [pc EXCEPT ![p] = "wait"]
            /\ UNCHANGED at \/ at' = [at EXCEPT ![p] = @ + 1]
            /\ UNCHANGED outcome \/ outcome' = [outcome EXCEPT ![p] = "ok"]
        BY <3>2 DEF Passes, Advance, Goto, Ends
      <4> HIDE DEF next
      <4>2. pc' \in [Procs -> {"idle", "get", "create", "wait", "del_pod", "list", "del_svc"}]
        BY <3>1, <4>1 DEF TypeOK, next
      <4>3. at' \in [Procs -> Nat \ {0}]
        BY <2>2, <4>1 DEF TypeOK
      <4>4. outcome' \in [Procs -> {"running", "ok", "invalid", "refused", "broken", "timeout"}]
        BY <4>1 DEF TypeOK
      <4> QED
        BY <4>2, <4>3, <4>4
    <3>3. CASE \E how \in SUBSET {"invalid", "refused", "timeout", "broken"} : Stays(p, how)
      BY <3>3 DEF Stays, Goto, Ends, TypeOK
    <3> QED
      BY <1>3, <3>2, <3>3 DEF CreateMove
  <2>4. req[p].op = "create" /\ (\A q \in Procs \ {p} : pc'[q] = pc[q] /\ outcome'[q] = outcome[q])
    BY <1>3, MoveElsewhere DEF Creates, Elsewhere
  <2> QED
    BY <1>1, <2>1, <2>3, <2>4 DEF TypeOK, Creates
<1>4. ASSUME NEW p \in Procs, DeleteStep(p)
      PROVE  TypeOK'
  <2>1. todo' \in [Procs -> SUBSET Names]
    <3>1. CASE ListServices(p)
      <4>1. {o.name : o \in Labelled("service", req[p].vm)} \subseteq Names
        BY ServiceNames DEF Labelled
      <4> QED
        BY <3>1, <4>1 DEF ListServices, TypeOK
    <3> QED
      BY <1>4, <3>1 DEF DeleteStep, DeletePod, DeleteService, DeleteConfigMap, TypeOK
  <2>2. /\ pc' \in [Procs -> {"idle", "get", "create", "wait", "del_pod", "list", "del_svc"}]
        /\ outcome' \in [Procs -> {"running", "ok", "invalid", "refused", "broken", "timeout"}]
    BY <1>4 DEF DeleteStep, DeletePod, ListServices, DeleteService, DeleteConfigMap, Goto, Ends, TypeOK
  <2>3. Deletes(p)
    BY <1>4, DeleteSteps
  <2> QED
    BY <1>1, <2>1, <2>2, <2>3 DEF Deletes, Elsewhere, TypeOK
<1>5. ASSUME NEW p \in Procs, Breaks(p)
      PROVE  TypeOK'
  BY <1>1, <1>5 DEF Breaks, InProgress, Ends, TypeOK
<1>6. CASE (\E a \in Agents : ControllerRuns(a)) \/ UNCHANGED vars
  BY <1>1, <1>6 DEF ControllerRuns, vars, TypeOK
<1> QED
  BY <1>2, <1>3, <1>4, <1>5, <1>6, CreateSteps DEF Next, Step, CreateStep, DeleteStep

LEMMA InitAny == Init => AnyInv
<1> SUFFICES ASSUME Init
             PROVE  AnyInv
  OBVIOUS
<1>1. TypeOK
  BY DEF Init, TypeOK
<1>2. PlanInv
  BY DEF Init, PlanInv, PlanAt, Creates
<1>3. NamesAreUnique /\ Origins
  BY DEF Init, NamesAreUnique, Origins
<1> QED
  BY <1>1, <1>2, <1>3 DEF AnyInv

\* The state of create_vm and delete_vm keeps its types, a call stays inside the
\* plan of its request (create_vm.go:119-222), names are unique and every object
\* comes from a create_vm's plan, whatever calls overlap.
THEOREM LifecycleTypeCorrect == Spec => [](TypeOK /\ AnyInv)
<1>1. AnyInv /\ [Next]_vars => AnyInv'
  BY NextType, NextPlan, NextUnique, NextOrigins DEF AnyInv
<1>2. AnyInv => TypeOK
  BY DEF AnyInv
<1> QED
  BY <1>1, <1>2, InitAny, PTL DEF Spec

-----------------------------------------------------------------------------
(* Names, in any overlap of calls *)

\* A create_vm is refused over an object that is there, which some create_vm has
\* in its plan; if that one is the call itself, it has it earlier.
LEMMA NextRefused ==
    AnyInv /\ RefusalsHaveACause /\ [Next]_vars => RefusalsHaveACause'
<1> SUFFICES ASSUME TypeOK, PlanInv, Origins, RefusalsHaveACause, [Next]_vars,
                    NEW p \in Procs, pc'[p] \in {"get", "create"}, outcome'[p] = "refused"
             PROVE  (\/ NamedBefore(p)
                     \/ \E q \in Procs \ {p} :
                           /\ pc[q] # "idle" /\ req[q].op = "create"
                           /\ <<Doing(p).kind, Doing(p).name>> \in Wanted(req[q]))'
  BY DEF AnyInv, RefusalsHaveACause
<1> DEFINE i == Doing(p)
           Cause == \/ NamedBefore(p)
                    \/ \E q \in Procs \ {p} :
                          Creates(q) /\ <<Doing(p).kind, Doing(p).name>> \in Wanted(req[q])
<1>1. ASSUME pc'[p] = pc[p], at'[p] = at[p], req'[p] = req[p], Creates(p), Cause
      PROVE  Cause'
  <2>1. CASE NamedBefore(p)
    BY <1>1, <2>1 DEF NamedBefore, Doing
  <2>2. ASSUME NEW q \in Procs \ {p}, Creates(q),
               <<Doing(p).kind, Doing(p).name>> \in Wanted(req[q])
        PROVE  Cause'
    <3>1. Creates(q)' /\ req'[q] = req[q]
      BY <2>2, PastStays
    <3> QED
      BY <1>1, <2>2, <3>1 DEF Doing
  <2> QED
    BY <1>1, <2>1, <2>2
<1>2. ASSUME outcome[p] = "refused", pc'[p] = pc[p], at'[p] = at[p], req'[p] = req[p]
      PROVE  Cause'
  <2>1. Creates(p) /\ Cause
    BY <1>2 DEF PlanInv, PlanAt, RefusalsHaveACause, Creates
  <2> QED
    BY <1>1, <1>2, <2>1
<1>3. ASSUME CreateMove(p)
      PROVE  Cause'
  <2>1. Creates(p) /\ outcome[p] = "running" /\ UNCHANGED <<req, todo>>
    BY <1>3, MoveElsewhere DEF CreateMove
  <2>2. at[p] \in 1 .. Last(p) /\ Last(p) \in Nat
    BY <2>1, PlanOf
  <2>3. ~Passes(p)
    BY <2>1, PassesAt
  <2>4. Clashes(p) /\ Stays(p, {"refused"})
    <3>1. ASSUME NEW how \in SUBSET {"invalid", "timeout", "broken"}, Stays(p, how)
          PROVE  FALSE
      BY <2>1, <3>1, StaysAt
    <3> QED
      BY <1>3, <2>3, <3>1 DEF CreateMove
  <2>5. pc'[p] = pc[p] /\ at'[p] = at[p] /\ req'[p] = req[p]
    BY <2>1, <2>4, StaysAt
  <2>6. PICK o \in objects : o.kind = Doing(p).kind /\ o.name = Doing(p).name
    BY <2>4 DEF Clashes, Exists
  <2>7. o.kind # "namespace" /\ o.kind # "replica"
    <3>1. req[p] \in Request /\ req[p].op = "create"
      BY <2>1, PlanOf DEF Creates
    <3> QED
      BY <2>2, <2>4, <2>6, <3>1, PlanShape DEF Clashes, Doing, Last
  <2>8. PICK q \in Procs : MadeBy(o, q)
    BY <2>7 DEF Origins
  <2>9. PICK n \in 1 .. Last(q) : /\ MayHaveMade(q, n)
                                  /\ Plan(req[q])[n].kind = o.kind
                                  /\ Plan(req[q])[n].name = o.name
    BY <2>8 DEF MadeBy
  <2>10. CASE q = p
    <3>1. n < at[p]
      BY <1>2, <2>1, <2>5, <2>9, <2>10 DEF MayHaveMade, Past
    <3>2. NamedBefore(p)
      BY <2>2, <2>6, <2>9, <2>10, <3>1 DEF NamedBefore
    <3> QED
      BY <1>1, <2>1, <2>5, <3>2
  <2>11. CASE q # p
    <3>1. <<Plan(req[q])[n].kind, Plan(req[q])[n].name>> \in Wanted(req[q])
      BY <2>7, <2>9 DEF Wanted, Last
    <3>2. <<Doing(p).kind, Doing(p).name>> \in Wanted(req[q])
      BY <2>6, <2>9, <3>1
    <3> QED
      BY <1>1, <2>1, <2>5, <2>8, <2>11, <3>2 DEF MadeBy
  <2> QED
    BY <2>10, <2>11
<1>4. ASSUME NEW q \in Procs \ {p}, Elsewhere(q)
      PROVE  Cause'
  BY <1>2, <1>4 DEF Elsewhere
<1>5. ASSUME UNCHANGED vars \/ Controls
      PROVE  Cause'
  BY <1>2, <1>5 DEF vars, Controls
<1>6. ASSUME NEW q \in Procs, Begins(q) \/ CreateMove(q) \/ Deletes(q) \/ Broken(q)
      PROVE  Cause'
  <2>1. CASE q = p
    <3>1. CreateMove(p)
      BY <1>6, <2>1 DEF Begins, Deletes, Broken, PlanInv, PlanAt
    <3> QED
      BY <1>3, <3>1
  <2>2. CASE q # p
    <3>1. Elsewhere(q)
      BY <1>6, MoveElsewhere DEF Begins, Deletes, Broken
    <3> QED
      BY <1>4, <2>2, <3>1
  <2> QED
    BY <2>1, <2>2
<1> QED
  BY <1>5, <1>6, Steps DEF Creates

\* RefusalsHaveACause: an object in create_vm's way is one that another create_vm
\* asked for, or the same one twice (create_vm.go:227-404).
THEOREM RefusalsAreCaused == Spec => []RefusalsHaveACause
<1>1. Init => RefusalsHaveACause
  BY DEF Init, RefusalsHaveACause
<1> QED
  BY <1>1, LifecycleTypeCorrect, NextRefused, PTL DEF Spec, AnyInv

LEMMA PassMove ==
    ASSUME TypeOK, PlanInv, NEW p \in Procs, CreateMove(p), Passes(p)
    PROVE  Shared(p) \/ Makes(p) \/ (UNCHANGED objects /\ pc[p] = "wait")
<1>1. Creates(p) /\ outcome[p] = "running" /\ UNCHANGED <<req, todo>>
  BY MoveElsewhere DEF CreateMove
<1>2. at[p] \in Nat
  BY DEF TypeOK
<1>3. ASSUME NEW how \in SUBSET {"invalid", "refused", "timeout"}, Stays(p, how)
      PROVE  FALSE
  <2>1. at'[p] = at[p] /\ outcome'[p] # "ok" /\ (pc'[p] = "wait" <=> pc[p] = "wait")
    BY <1>1, <1>3, StaysAt
  <2>2. outcome'[p] = "running" /\ pc'[p] = "wait" /\ pc[p] = "create"
    BY <1>1, <1>2, <2>1, PassesAt DEF Passes, Advance, Ends, TypeOK
  <2> QED
    BY <2>1, <2>2
<1> QED
  BY <1>3 DEF CreateMove

\* A secret comes behind a call only by its own Create, on a free name.
LEMMA SecretIsMade ==
    ASSUME TypeOK, PlanInv, [Next]_vars, NEW p \in Procs, NEW n \in Nat, NEW s \in Names,
           HasSecret(p, n, s)', ~HasSecret(p, n, s)
    PROVE  Elsewhere(p) /\ ~Exists("secret", s) /\ Exists("secret", s)'
<1>1. /\ Creates(p) /\ req'[p] = req[p] /\ n \in 1 .. Last(p)
      /\ Past(p, n) \/ (n = at[p] /\ CreateMove(p) /\ Passes(p))
  BY PastGrows DEF HasSecret
<1>2. Plan(req[p])[n].kind = "secret" /\ Plan(req[p])[n].name = s
  BY <1>1 DEF HasSecret
<1>3. n = at[p] /\ CreateMove(p) /\ Passes(p)
  BY <1>1, <1>2 DEF HasSecret
<1>4. Doing(p).kind = "secret" /\ Doing(p).name = s
  BY <1>2, <1>3 DEF Doing
<1>5. Makes(p)
  BY <1>3, <1>4, PassMove DEF Shared, PlanInv, PlanAt
<1> QED
  <2>1. Elsewhere(p)
    BY <1>3, MoveElsewhere
  <2>2. ~Exists("secret", s)
    BY <1>4, <1>5 DEF Makes
  <2>3. [kind |-> "secret", name |-> s, label |-> Labels(p, Doing(p))] \in objects'
    BY <1>4, <1>5 DEF Makes
  <2>4. Exists("secret", s)'
    BY <2>3 DEF Exists
  <2> QED
    BY <2>1, <2>2, <2>4

LEMMA NextSecret ==
    AnyInv /\ SecretInv /\ [Next]_vars => SecretInv'
<1> SUFFICES ASSUME TypeOK, PlanInv, SecretInv, [Next]_vars,
                    NEW p \in Procs, NEW n \in Nat, NEW s \in Names, HasSecret(p, n, s)'
             PROVE  /\ Exists("secret", s)'
                    /\ \A q \in Procs \ {p}, k \in Nat : ~HasSecret(q, k, s)'
  BY DEF AnyInv, SecretInv
<1>1. Exists("secret", s)'
  <2>1. CASE HasSecret(p, n, s)
    <3>1. PICK o \in objects : o.kind = "secret" /\ o.name = s
      BY <2>1 DEF SecretInv, Exists
    <3>2. o \in objects'
      BY <3>1, ObjectMoves DEF Adds
    <3> QED
      BY <3>1, <3>2 DEF Exists
  <2> QED
    BY <2>1, SecretIsMade
<1>2. ASSUME NEW q \in Procs \ {p}, NEW k \in Nat, HasSecret(q, k, s)'
      PROVE  FALSE
  <2>1. CASE HasSecret(p, n, s) /\ HasSecret(q, k, s)
    BY <2>1 DEF SecretInv
  <2>2. CASE HasSecret(p, n, s) /\ ~HasSecret(q, k, s)
    BY <1>2, <2>2, SecretIsMade DEF SecretInv
  <2>3. CASE ~HasSecret(p, n, s)
    <3>1. Elsewhere(p) /\ ~Exists("secret", s)
      BY <2>3, SecretIsMade
    <3>2. HasSecret(q, k, s)
      BY <1>2, <3>1 DEF Elsewhere, HasSecret, Creates, Past, Last
    <3> QED
      BY <3>1, <3>2 DEF SecretInv
  <2> QED
    BY <2>1, <2>2, <2>3
<1> QED
  BY <1>1, <1>2

\* SecretAdmitsOneVM: no two create_vm calls succeed with a secret of one name
\* (create_vm.go:351-404).
THEOREM SecretsAdmitOneVM == Spec => []SecretAdmitsOneVM
<1>1. Init => SecretInv
  BY DEF Init, SecretInv, HasSecret, Creates
<1>2. AnyInv /\ SecretInv => SecretAdmitsOneVM
  <2> SUFFICES ASSUME TypeOK, PlanInv, SecretInv, NEW p \in Procs, NEW q \in Procs, p # q,
                      Creates(p), Creates(q), outcome[p] = "ok", outcome[q] = "ok",
                      NEW w \in Wanted(req[p]) \cap Wanted(req[q]), w[1] = "secret"
               PROVE  FALSE
    BY DEF AnyInv, SecretAdmitsOneVM, Creates
  <2>1. ASSUME NEW x \in {p, q}
        PROVE  w[2] \in Names /\ \E n \in Nat : HasSecret(x, n, w[2])
    <3>1. PICK i \in {Plan(req[x])[n] : n \in 1 .. Last(x)} : w = <<i.kind, i.name>>
      BY <2>1 DEF Wanted, Last
    <3>2. PICK n \in 1 .. Last(x) : i = Plan(req[x])[n]
      BY <3>1
    <3>3. /\ req[x] \in Request /\ req[x].op = "create" /\ at[x] = Last(x) /\ Last(x) \in Nat
          /\ n \in Nat
      BY <2>1, PlanOf DEF PlanInv, PlanAt, Creates
    <3>4. Past(x, n)
      BY <2>1, <3>3 DEF Past
    <3>5. i.kind = "secret" /\ i.name = w[2] /\ i.name \in Names
      BY <3>1, <3>2, <3>3, PlanShape DEF Last
    <3> QED
      BY <2>1, <3>2, <3>3, <3>4, <3>5 DEF HasSecret
  <2> QED
    BY <2>1 DEF SecretInv
<1> QED
  BY <1>1, <1>2, LifecycleTypeCorrect, NextSecret, PTL DEF Spec

-----------------------------------------------------------------------------
(* What holds when the director makes one call at a time on a VM *)

\* The call at work on a VM is the last one made on it.
OneAtATime ==
    /\ \A p \in Procs : InProgress(p) => latest[req[p].vm] = p
    /\ \A a \in Agents, p \in Procs : latest[a] = p => pc[p] # "idle" /\ req[p].vm = a

\* What a create_vm has behind it is there.
MadeInv ==
    \A p \in Procs : Creates(p) /\ latest[req[p].vm] = p =>
        \A n \in 1 .. Last(p) : Past(p, n) /\ Plan(req[p])[n].kind # "namespace" =>
            \/ \E o \in objects : /\ o.kind = Plan(req[p])[n].kind
                                  /\ o.name = Plan(req[p])[n].name
                                  /\ o.label = req[p].vm
            \/ /\ Plan(req[p])[n].kind = "service"
               /\ OthersService(req[p].vm, Plan(req[p])[n].name)

\* What a delete_vm has behind it is gone, and what it has before it is there.
GoneAt(p, a) ==
    /\ pc[p] \in {"list", "del_svc"} => ~Exists("pod", a)
    /\ pc[p] = "del_svc" => \A o \in Labelled("service", a) : o.name \in todo[p]
    /\ pc[p] = "del_svc" /\ outcome[p] \in {"running", "ok"} =>
          \A n \in todo[p] : \E o \in Labelled("service", a) : o.name = n
    /\ pc[p] = "del_svc" /\ outcome[p] = "ok" => todo[p] = {} /\ ~Exists("configmap", a)

GoneInv ==
    \A p \in Procs, a \in Agents :
        pc[p] # "idle" /\ req[p].vm = a /\ latest[a] = p => GoneAt(p, a)

SerialInv == /\ AnyInv /\ OneAtATime /\ MadeInv /\ GoneInv
             /\ PodHasItsSettings /\ DeleteIsNotRefused

\* A call in the way of p's on its VM is p's own.
LEMMA OneOnly ==
    ASSUME OneAtATime, NEW p \in Procs, NEW q \in Procs,
           latest[req[p].vm] = p, InProgress(q), req[q].vm = req[p].vm
    PROVE  q = p
BY DEF OneAtATime

LEMMA NextOne ==
    ASSUME Serialised, TypeOK, PlanInv, OneAtATime, [Next]_vars
    PROVE  OneAtATime'
<1>1. ASSUME NEW p \in Procs, Begins(p)
      PROVE  OneAtATime'
  <2>1. /\ req'[p].vm \in Agents /\ latest' = [latest EXCEPT ![req'[p].vm] = p]
        /\ Elsewhere(p) /\ pc[p] = "idle" /\ pc'[p] # "idle"
        /\ \A q \in Procs : ~(InProgress(q) /\ req[q].vm = req'[p].vm)
    BY <1>1 DEF Begins, Request
  <2>2. latest \in [Agents -> Procs \cup {NoCall}] /\ (\A q \in Procs : pc[q] # "idle" => req[q].vm \in Agents)
    BY DEF TypeOK, Request
  <2>3. ASSUME NEW q \in Procs, InProgress(q)'
        PROVE  latest'[req'[q].vm] = q
    <3>1. CASE q = p
      BY <2>1, <2>2, <3>1
    <3>2. CASE q # p
      <4>1. InProgress(q) /\ req'[q] = req[q] /\ req[q].vm \in Agents
        BY <2>1, <2>2, <2>3, <3>2 DEF Elsewhere, InProgress
      <4> QED
        BY <2>1, <2>2, <4>1 DEF OneAtATime
    <3> QED
      BY <3>1, <3>2
  <2>4. ASSUME NEW a \in Agents, NEW q \in Procs, latest'[a] = q
        PROVE  pc'[q] # "idle" /\ req'[q].vm = a
    <3>1. CASE a = req'[p].vm
      BY <2>1, <2>2, <2>4, <3>1
    <3>2. CASE a # req'[p].vm
      BY <2>1, <2>2, <2>4, <3>2 DEF OneAtATime, Elsewhere
    <3> QED
      BY <3>1, <3>2
  <2> QED
    BY <2>3, <2>4 DEF OneAtATime
<1>2. ASSUME NEW p \in Procs, Elsewhere(p), UNCHANGED <<req, latest>>, InProgress(p), pc'[p] # "idle"
      PROVE  OneAtATime'
  BY <1>2 DEF Elsewhere, OneAtATime, InProgress
<1>3. ASSUME NEW p \in Procs, CreateMove(p) \/ Deletes(p) \/ Broken(p)
      PROVE  OneAtATime'
  <2>1. CASE CreateMove(p)
    <3>1. Elsewhere(p) /\ Creates(p)' /\ InProgress(p) /\ UNCHANGED <<req, latest>>
      BY <2>1, PastStays, MoveElsewhere DEF CreateMove, InProgress
    <3> QED
      BY <1>2, <3>1 DEF Creates
  <2>2. CASE Deletes(p) \/ Broken(p)
    BY <1>2, <2>2 DEF Deletes, Broken, InProgress
  <2> QED
    BY <1>3, <2>1, <2>2
<1>4. ASSUME UNCHANGED vars \/ Controls
      PROVE  OneAtATime'
  BY <1>4 DEF vars, Controls, OneAtATime, InProgress
<1> QED
  BY <1>1, <1>3, <1>4, Steps

\* A pod, a config map and a Deployment carry the label of the VM they are named
\* after.
LEMMA OwnNames ==
    ASSUME TypeOK, PlanInv, Origins, NEW o \in objects, o.kind \in {"pod", "configmap", "deployment"}
    PROVE  o.name = o.label
<1>1. PICK q \in Procs : MadeBy(o, q)
  BY DEF Origins
<1>2. PICK n \in 1 .. Last(q) : /\ Plan(req[q])[n].kind = o.kind
                                /\ Plan(req[q])[n].name = o.name
  BY <1>1 DEF MadeBy
<1>3. req[q] \in Request /\ req[q].op = "create" /\ o.label = req[q].vm
  BY <1>1, PlanOf DEF MadeBy, Creates
<1> QED
  BY <1>2, <1>3, PlanShape DEF Last

\* An object goes only by a delete_vm on the VM whose label it has: the services
\* it deletes by name are those it found by label.
Takes(q, o) ==
    /\ outcome[q] = "running" /\ pc[q] \in {"del_pod", "del_svc"} /\ o.label = req[q].vm
    /\ o.kind = "pod" => pc[q] = "del_pod"
    /\ o.kind # "pod" => pc[q] = "del_svc"

LEMMA TakenByOwner ==
    ASSUME AnyInv, OneAtATime, GoneInv, [Next]_vars, NEW o \in objects, o \notin objects'
    PROVE  \E q \in Procs : DeleteStep(q) /\ Takes(q, o)
<1> USE DEF AnyInv
<1>1. PICK q \in Procs : DeleteStep(q)
  <2>1. ASSUME UNCHANGED objects \/ \E x : objects' = objects \cup {x}
        PROVE  FALSE
    BY <2>1
  <2>2. ASSUME NEW p \in Procs, Begin(p) \/ Breaks(p)
        PROVE  FALSE
    BY <2>1, <2>2 DEF Begin, Breaks
  <2>3. ASSUME NEW p \in Procs, CreateMove(p)
        PROVE  FALSE
    BY <2>1, <2>3 DEF CreateMove, Shared, Makes
  <2>4. ASSUME NEW a \in Agents, ControllerRuns(a)
        PROVE  FALSE
    BY <2>1, <2>4 DEF ControllerRuns
  <2> QED
    BY <2>1, <2>2, <2>3, <2>4, CreateSteps DEF Next, vars, Step, CreateStep, DeleteStep
<1>2. CASE DeletePod(q)
  <2>1. o.kind = "pod" /\ o.name = req[q].vm
    BY <1>2 DEF DeletePod, Without
  <2> QED
    BY <1>1, <1>2, <2>1, OwnNames DEF DeletePod, At, Takes
<1>3. CASE DeleteConfigMap(q)
  <2>1. o.kind = "configmap" /\ o.name = req[q].vm
    BY <1>3 DEF DeleteConfigMap, Without
  <2> QED
    BY <1>1, <1>3, <2>1, OwnNames DEF DeleteConfigMap, At, Takes
<1>4. CASE DeleteService(q)
  <2>1. PICK n \in todo[q] : o.kind = "service" /\ o.name = n
    BY <1>4 DEF DeleteService, Without
  <2>2. At(q, "del_svc") /\ latest[req[q].vm] = q
    BY <1>4 DEF DeleteService, At, OneAtATime, InProgress
  <2>3. PICK x \in Labelled("service", req[q].vm) : x.name = n
    <3>1. req[q].vm \in Agents /\ GoneAt(q, req[q].vm)
      BY <2>2 DEF TypeOK, Request, GoneInv, At
    <3> QED
      BY <2>1, <2>2, <3>1 DEF GoneAt, At
  <2>4. o = x
    BY <2>1, <2>3 DEF NamesAreUnique, Labelled
  <2> QED
    BY <1>1, <2>1, <2>2, <2>3, <2>4 DEF Labelled, At, Takes
<1>5. ~ListServices(q)
  BY DEF ListServices
<1> QED
  BY <1>1, <1>2, <1>3, <1>4, <1>5 DEF DeleteStep

\* A call that has begun stays the call it is.
LEMMA CallStays ==
    ASSUME TypeOK, PlanInv, [Next]_vars, NEW p \in Procs, pc[p] # "idle"
    PROVE  pc'[p] # "idle" /\ req'[p] = req[p]
<1>1. req[p].op \in {"create", "delete"}
  BY DEF TypeOK, Request
<1>2. ASSUME NEW q \in Procs, Begins(q) \/ Deletes(q) \/ Broken(q)
      PROVE  pc'[p] # "idle" /\ req'[p] = req[p]
  BY <1>2 DEF Begins, Deletes, Broken, Elsewhere
<1>3. ASSUME NEW q \in Procs, CreateMove(q)
      PROVE  pc'[p] # "idle" /\ req'[p] = req[p]
  <2>1. Elsewhere(q) /\ Creates(q)
    BY <1>3, MoveElsewhere
  <2>2. Creates(q)' /\ req'[q] = req[q]
    BY <2>1, PastStays
  <2> QED
    BY <2>1, <2>2 DEF Elsewhere, Creates
<1>4. ASSUME UNCHANGED vars \/ Controls
      PROVE  pc'[p] # "idle" /\ req'[p] = req[p]
  BY <1>4 DEF vars, Controls
<1> QED
  BY <1>2, <1>3, <1>4, Steps

\* What a create_vm that is still the last call on its VM has made stays,
LEMMA LatestBefore ==
    ASSUME TypeOK, PlanInv, OneAtATime, [Next]_vars, NEW p \in Procs, pc[p] # "idle",
           req'[p] = req[p], latest'[req'[p].vm] = p
    PROVE  latest[req[p].vm] = p
<1>1. req[p].vm \in Agents
  BY DEF TypeOK, Request
<1>2. ASSUME NEW q \in Procs, Begins(q)
      PROVE  latest[req[p].vm] = p
  <2>1. q # p /\ latest' = [latest EXCEPT ![req'[q].vm] = q] /\ req'[q].vm \in Agents
    BY <1>2 DEF Begins, Request
  <2> QED
    BY <1>1, <2>1 DEF TypeOK
<1>3. ASSUME NEW q \in Procs, CreateMove(q) \/ Deletes(q) \/ Broken(q)
      PROVE  UNCHANGED latest
  BY <1>3 DEF CreateMove, Deletes, Broken
<1>4. ASSUME UNCHANGED vars \/ Controls
      PROVE  UNCHANGED latest
  BY <1>4 DEF vars, Controls
<1> QED
  BY <1>2, <1>3, <1>4, Steps

\* and what another VM's create_vm has made, until a delete_vm of that VM.
LEMMA OthersStays ==
    ASSUME AnyInv, OneAtATime, GoneInv, [Next]_vars, NEW a \in Agents, NEW n, OthersService(a, n)
    PROVE  OthersService(a, n)'
<1> USE DEF AnyInv
<1>1. PICK q \in Procs :
        /\ pc[q] # "idle" /\ req[q].op = "create" /\ req[q].vm # a
        /\ <<"service", n>> \in Wanted(req[q])
        /\ \/ \E o \in Labelled("service", req[q].vm) : o.name = n
           \/ \E d \in Procs : pc[d] # "idle" /\ req[d].op = "delete" /\ req[d].vm = req[q].vm
  BY DEF OthersService
<1>2. pc'[q] # "idle" /\ req'[q] = req[q]
  BY <1>1, CallStays
<1>3. ASSUME NEW d \in Procs, pc[d] # "idle", req[d].op = "delete", req[d].vm = req[q].vm
      PROVE  OthersService(a, n)'
  <2>1. pc'[d] # "idle" /\ req'[d] = req[d]
    BY <1>3, CallStays
  <2> QED
    BY <1>1, <1>2, <1>3, <2>1 DEF OthersService
<1>4. ASSUME NEW o \in Labelled("service", req[q].vm), o.name = n
      PROVE  OthersService(a, n)'
  <2>1. o \in objects /\ o.kind = "service" /\ o.label = req[q].vm
    BY <1>4 DEF Labelled
  <2>2. CASE o \in objects'
    BY <1>1, <1>2, <1>4, <2>1, <2>2 DEF OthersService, Labelled
  <2>3. CASE o \notin objects'
    <3>1. PICK d \in Procs : DeleteStep(d) /\ Takes(d, o)
      BY <2>1, <2>3, TakenByOwner
    <3>2. pc[d] # "idle" /\ req[d].op = "delete" /\ req[d].vm = req[q].vm
      BY <2>1, <3>1 DEF Takes, PlanInv, PlanAt
    <3> QED
      BY <1>3, <3>2
  <2> QED
    BY <2>2, <2>3
<1> QED
  BY <1>1, <1>3, <1>4

LEMMA NextMade ==
    ASSUME AnyInv, OneAtATime, GoneInv, MadeInv, [Next]_vars
    PROVE  MadeInv'
<1> USE DEF AnyInv
<1> SUFFICES ASSUME NEW p \in Procs, Creates(p)', latest'[req'[p].vm] = p,
                    NEW n \in 1 .. Last(p)', Past(p, n)', Plan(req'[p])[n].kind # "namespace",
                    NEW a, a = req'[p].vm, NEW i, i = Plan(req'[p])[n]
             PROVE  \/ \E o \in objects' : o.kind = i.kind /\ o.name = i.name /\ o.label = a
                    \/ i.kind = "service" /\ OthersService(a, i.name)'
  BY DEF MadeInv, OthersService
<1>1. /\ Creates(p) /\ req'[p] = req[p] /\ n \in 1 .. Last(p)
      /\ Past(p, n) \/ (n = at[p] /\ CreateMove(p) /\ Passes(p))
  BY PastGrows
<1>2. latest[req[p].vm] = p
  BY <1>1, LatestBefore DEF Creates
<1>s. req[p] \in Request /\ req[p].op = "create"
  BY <1>1, PlanOf DEF Creates
<1>i. i = Plan(req[p])[n] /\ a = req[p].vm /\ a \in Agents
  BY <1>1, <1>s DEF Request
<1> DEFINE There == \E o \in objects : o.kind = i.kind /\ o.name = i.name /\ o.label = a
           Theirs == i.kind = "service" /\ OthersService(a, i.name)
<1>3. ASSUME There
      PROVE  There'
  <2>1. PICK o \in objects : o.kind = i.kind /\ o.name = i.name /\ o.label = a
    BY <1>3
  <2>2. ASSUME o \notin objects'
        PROVE  FALSE
    <3>1. PICK q \in Procs : Takes(q, o)
      BY <2>2, TakenByOwner
    <3>2. q = p
      BY <1>2, <1>i, <2>1, <3>1, OneOnly DEF Takes, InProgress
    <3> QED
      BY <1>s, <3>1, <3>2 DEF Takes, PlanInv, PlanAt
  <2> QED
    BY <2>1, <2>2
<1>4. ASSUME Theirs
      PROVE  Theirs'
  BY <1>4, <1>i, OthersStays
<1>5. CASE Past(p, n)
  <2>1. There \/ Theirs
    BY <1>1, <1>2, <1>5, <1>i DEF MadeInv
  <2> QED
    BY <1>1, <1>3, <1>4, <2>1
<1>6. CASE n = at[p] /\ CreateMove(p) /\ Passes(p) /\ ~Past(p, n)
  <2>1. i = Doing(p) /\ i.kind # "namespace"
    BY <1>1, <1>6, <1>i DEF Doing
  <2>2. pc[p] # "wait"
    BY <1>6 DEF Past
  <2>3. CASE Makes(p)
    <3>1. [kind |-> i.kind, name |-> i.name, label |-> a] \in objects'
      BY <1>i, <2>1, <2>3 DEF Makes, Labels
    <3> QED
      BY <1>1, <3>1
  <2>4. CASE Shared(p)
    <3>1. i.kind = "service"
      BY <2>1, <2>4 DEF Shared
    <3>2. PICK o \in objects : o.kind = "service" /\ o.name = i.name
      BY <2>1, <2>4, <3>1 DEF Shared, Exists
    <3>3. PICK q \in Procs : MadeBy(o, q)
      BY <3>2 DEF Origins
    <3>4. PICK k \in 1 .. Last(q) : /\ Plan(req[q])[k].kind = "service"
                                    /\ Plan(req[q])[k].name = i.name
      BY <3>2, <3>3 DEF MadeBy
    <3>5. <<"service", i.name>> \in Wanted(req[q]) /\ Creates(q) /\ o.label = req[q].vm
      BY <3>3, <3>4 DEF Wanted, Last, MadeBy
    <3>6. There \/ Theirs
      BY <3>1, <3>2, <3>5 DEF OthersService, Labelled, Creates
    <3> QED
      BY <1>1, <1>3, <1>4, <3>6
  <2> QED
    BY <1>6, <2>2, <2>3, <2>4, PassMove
<1> QED
  BY <1>1, <1>5, <1>6

\* What is new on a VM a call of its own made.
LEMMA NewIsOwn ==
    ASSUME AnyInv, [Next]_vars, NEW o \in objects', o \notin objects,
           o.kind \in {"pod", "configmap", "service"}
    PROVE  \E p \in Procs : /\ CreateMove(p) /\ InProgress(p) /\ o.label = req[p].vm
                            /\ o.kind = Doing(p).kind /\ o.name = Doing(p).name
                            /\ o.kind # "service" => o.name = o.label
                            /\ objects \subseteq objects'
<1> USE DEF AnyInv
<1>1. PICK p \in Procs : /\ CreateMove(p) /\ o.label = req[p].vm
                         /\ o.kind = Doing(p).kind /\ o.name = Doing(p).name
                         /\ objects \subseteq objects'
  BY ObjectMoves DEF Adds
<1>2. Creates(p) /\ InProgress(p)
  BY <1>1, MoveElsewhere DEF CreateMove, Creates, InProgress
<1>3. req[p] \in Request /\ req[p].op = "create" /\ at[p] \in 1 .. Last(p)
  BY <1>2, PlanOf DEF Creates
<1>4. o.kind # "service" => o.name = o.label
  BY <1>1, <1>3, PlanShape DEF Doing, Last
<1> QED
  BY <1>1, <1>2, <1>4

LEMMA NextSettings ==
    ASSUME AnyInv, OneAtATime, GoneInv, MadeInv, PodHasItsSettings, [Next]_vars
    PROVE  PodHasItsSettings'
<1> USE DEF AnyInv
<1> SUFFICES ASSUME NEW a \in Agents, NEW o \in objects', o.kind = "pod", o.name = a
             PROVE  \E x \in objects' : x.kind = "configmap" /\ x.name = a
  BY DEF PodHasItsSettings, Exists
<1>1. CASE o \in objects
  <2>1. PICK x \in objects : x.kind = "configmap" /\ x.name = a
    BY <1>1 DEF PodHasItsSettings, Exists
  <2>2. ASSUME x \notin objects'
        PROVE  FALSE
    <3>1. PICK q \in Procs : Takes(q, x)
      BY <2>2, TakenByOwner
    <3>2. pc[q] = "del_svc" /\ latest[req[q].vm] = q /\ req[q].vm = a
      BY <2>1, <3>1, OwnNames DEF Takes, OneAtATime, InProgress
    <3> QED
      BY <1>1, <3>2 DEF GoneInv, GoneAt, Exists
  <2> QED
    BY <2>1, <2>2
<1>2. CASE o \notin objects
  <2>1. PICK p \in Procs : /\ CreateMove(p) /\ InProgress(p) /\ a = req[p].vm
                           /\ Doing(p).kind = "pod" /\ objects \subseteq objects'
    BY <1>2, NewIsOwn
  <2>2. Creates(p) /\ latest[req[p].vm] = p
    BY <2>1, MoveElsewhere DEF OneAtATime
  <2>3. /\ req[p] \in Request /\ req[p].op = "create"
        /\ at[p] \in 1 .. Last(p) /\ Last(p) \in Nat /\ Last(p) > 2
    BY <2>2, PlanOf DEF Creates
  <2>4. at[p] = Last(p)
    BY <2>1, <2>3, PlanShape DEF Doing, Last
  <2>n. PICK n \in 1 .. Last(p) : n = 2
    BY <2>3
  <2>5. Past(p, n)
    BY <2>n, <2>3, <2>4 DEF Past
  <2>6. Plan(req[p])[n].kind = "configmap" /\ Plan(req[p])[n].name = a
    BY <2>1, <2>n, <2>3, PlanShape DEF Last
  <2>7. PICK x \in objects : x.kind = Plan(req[p])[n].kind /\ x.name = Plan(req[p])[n].name
    <3>1. Plan(req[p])[n].kind # "namespace" /\ Plan(req[p])[n].kind # "service"
      BY <2>6
    <3> QED
      BY <2>2, <2>5, <3>1 DEF MadeInv
  <2> QED
    BY <2>1, <2>6, <2>7
<1> QED
  BY <1>1, <1>2

\* A delete_vm's own steps do what GoneInv says,
LEMMA GoneByDelete ==
    ASSUME AnyInv, GoneInv, NEW p \in Procs, DeleteStep(p),
           NEW a \in Agents, a = req[p].vm, latest[a] = p
    PROVE  GoneAt(p, a)'
<1>t. TypeOK
  BY DEF AnyInv
<1>g. pc[p] # "idle" => GoneAt(p, a)
  BY DEF GoneInv
<1>1. CASE DeletePod(p)
  <2>1. pc[p] = "del_pod" /\ objects' = Without("pod", a) /\ pc'[p] \in {"list", "del_pod"}
    BY <1>1, <1>t DEF DeletePod, At, Goto, TypeOK
  <2>2. ~Exists("pod", a)'
    BY <2>1 DEF Without, Exists
  <2> QED
    BY <2>1, <2>2 DEF GoneAt
<1>2. CASE ListServices(p)
  <2>1. /\ pc[p] = "list" /\ objects' = objects /\ pc'[p] = "del_svc" /\ outcome'[p] = "running"
        /\ todo'[p] = {o.name : o \in Labelled("service", a)}
    BY <1>2, <1>t DEF ListServices, At, Goto, TypeOK
  <2>2. ~Exists("pod", a)'
    BY <1>g, <2>1 DEF GoneAt, Exists
  <2>3. Labelled("service", a)' = Labelled("service", a)
    BY <2>1 DEF Labelled
  <2> QED
    BY <2>1, <2>2, <2>3 DEF GoneAt
<1>3. CASE DeleteService(p)
  <2>1. pc[p] = "del_svc" /\ pc'[p] = "del_svc" /\ outcome[p] = "running"
    BY <1>3, <1>t DEF DeleteService, At
  <2>2. PICK n \in todo[p] :
          \/ /\ objects' = Without("service", n)
             /\ \/ todo'[p] = todo[p] \ {n} /\ outcome'[p] = "running"
                \/ outcome'[p] = "broken" /\ todo'[p] = todo[p]
          \/ objects' = objects /\ todo'[p] = todo[p] /\ outcome'[p] = "refused"
    BY <1>3, <1>t, <2>1 DEF DeleteService, Ends, TypeOK
  <2>3. /\ ~Exists("pod", a)
        /\ \A o \in Labelled("service", a) : o.name \in todo[p]
        /\ \A m \in todo[p] : \E o \in Labelled("service", a) : o.name = m
    BY <1>g, <2>1 DEF GoneAt
  <2>4. ~Exists("pod", a)'
    BY <2>2, <2>3 DEF Exists, Without
  <2>5. ASSUME NEW o \in Labelled("service", a)'
        PROVE  o.name \in todo'[p]
    <3>1. o \in Labelled("service", a) /\ (objects' = Without("service", n) => o.name # n)
      BY <2>2, <2>5 DEF Labelled, Without
    <3> QED
      BY <2>2, <2>3, <3>1
  <2>6. ASSUME NEW m \in todo'[p], outcome'[p] \in {"running", "ok"}
        PROVE  \E o \in Labelled("service", a)' : o.name = m
    <3>1. m \in todo[p] /\ m # n /\ objects' = Without("service", n)
      BY <2>2, <2>6
    <3>2. PICK o \in Labelled("service", a) : o.name = m
      BY <2>3, <3>1
    <3> QED
      BY <3>1, <3>2 DEF Labelled, Without
  <2>7. outcome'[p] # "ok"
    BY <2>2
  <2> QED
    BY <2>1, <2>4, <2>5, <2>6, <2>7 DEF GoneAt
<1>4. CASE DeleteConfigMap(p)
  <2>1. /\ pc[p] = "del_svc" /\ todo[p] = {} /\ todo' = todo
        /\ objects' = Without("configmap", a)
    BY <1>4 DEF DeleteConfigMap, At
  <2>2. ~Exists("pod", a) /\ (\A o \in Labelled("service", a) : o.name \in todo[p])
    BY <1>g, <2>1 DEF GoneAt
  <2>3. ~Exists("pod", a)' /\ ~Exists("configmap", a)'
    BY <2>1, <2>2 DEF Exists, Without
  <2>4. \A o \in Labelled("service", a)' : o.name \in todo'[p]
    BY <2>1, <2>2 DEF Labelled, Without
  <2> QED
    BY <2>1, <2>3, <2>4 DEF GoneAt
<1> QED
  BY <1>1, <1>2, <1>3, <1>4 DEF DeleteStep

\* What a step is to a given call.
LEMMA StepTo ==
    ASSUME TypeOK, PlanInv, [Next]_vars, NEW p \in Procs
    PROVE  \/ Begins(p) \/ CreateMove(p) \/ DeleteStep(p)
           \/ /\ pc'[p] = pc[p] /\ todo'[p] = todo[p] /\ req'[p] = req[p]
              /\ outcome'[p] \in {outcome[p], "broken"}
<1> DEFINE Rests == /\ pc'[p] = pc[p] /\ todo'[p] = todo[p] /\ req'[p] = req[p]
                    /\ outcome'[p] \in {outcome[p], "broken"}
<1>1. ASSUME NEW q \in Procs \ {p}, Elsewhere(q)
      PROVE  Rests
  BY <1>1 DEF Elsewhere
<1>2. ASSUME NEW q \in Procs \ {p}, Begin(q) \/ Step(q)
      PROVE  Rests
  <2>1. Elsewhere(q)
    BY <1>2, BeginSteps, CreateSteps, DeleteSteps, MoveElsewhere
       DEF Step, CreateStep, DeleteStep, Begins, Deletes
  <2> QED
    BY <1>1, <2>1
<1>3. ASSUME NEW q \in Procs, Breaks(q)
      PROVE  Rests
  BY <1>3 DEF Breaks, Ends, TypeOK
<1>4. ASSUME NEW a \in Agents, ControllerRuns(a)
      PROVE  Rests
  BY <1>4 DEF ControllerRuns
<1>5. CASE UNCHANGED vars
  BY <1>5 DEF vars
<1>6. ASSUME Begin(p) \/ Step(p)
      PROVE  Begins(p) \/ CreateMove(p) \/ DeleteStep(p)
  BY <1>6, BeginSteps, CreateSteps DEF Step, CreateStep, DeleteStep
<1> QED
  BY <1>2, <1>3, <1>4, <1>5, <1>6 DEF Next

\* and no other step undoes it.
LEMMA NextGone ==
    ASSUME AnyInv, OneAtATime, GoneInv, [Next]_vars
    PROVE  GoneInv'
<1> USE DEF AnyInv
<1> SUFFICES ASSUME NEW p \in Procs, NEW a \in Agents,
                    pc'[p] # "idle", req'[p].vm = a, latest'[a] = p
             PROVE  GoneAt(p, a)'
  BY DEF GoneInv
<1>1. CASE Begins(p)
  BY <1>1 DEF Begins, GoneAt
<1>2. CASE CreateMove(p)
  <2>1. pc'[p] \in {"get", "create", "wait"}
    <3>1. Creates(p) /\ Creates(p)'
      BY <1>2, MoveElsewhere, PastStays
    <3>2. PlanInv' /\ TypeOK'
      BY NextPlan, NextType
    <3> QED
      BY <3>1, <3>2 DEF PlanInv, PlanAt, Creates, TypeOK
  <2> QED
    BY <2>1 DEF GoneAt
<1>3. CASE DeleteStep(p)
  <2>1. req'[p] = req[p] /\ pc[p] # "idle" /\ UNCHANGED latest
    BY <1>3, DeleteSteps DEF Deletes
  <2> QED
    BY <1>3, <2>1, GoneByDelete
<1>4. CASE /\ ~DeleteStep(p) /\ pc'[p] = pc[p] /\ todo'[p] = todo[p] /\ req'[p] = req[p]
           /\ outcome'[p] \in {outcome[p], "broken"} /\ pc[p] \in {"list", "del_svc"}
  <2>1. latest[a] = p /\ req[p].vm = a
    BY <1>4, LatestBefore
  <2>2. GoneAt(p, a)
    BY <1>4, <2>1 DEF GoneInv
  <2>3. ASSUME NEW o \in objects', o \notin objects, o.kind \in {"pod", "configmap", "service"},
               o.label = a \/ (o.kind # "service" /\ o.name = a)
        PROVE  FALSE
    <3>1. PICK q \in Procs : /\ CreateMove(q) /\ InProgress(q) /\ o.label = req[q].vm
                             /\ o.kind # "service" => o.name = o.label
      BY <2>3, NewIsOwn
    <3>2. q = p
      BY <2>1, <2>3, <3>1, OneOnly
    <3>3. Creates(p)
      BY <3>1, <3>2, MoveElsewhere
    <3> QED
      BY <1>4, <3>3 DEF PlanInv, PlanAt, Creates
  <2>4. ASSUME NEW o \in objects, o.label = a
        PROVE  o \in objects'
    <3>1. ASSUME NEW q \in Procs, Takes(q, o), DeleteStep(q)
          PROVE  FALSE
      <4>1. q = p
        BY <2>1, <2>4, <3>1, OneOnly DEF Takes, InProgress
      <4> QED
        BY <1>4, <3>1, <4>1
    <3> QED
      BY <3>1, TakenByOwner
  <2>5. ~Exists("pod", a) => ~Exists("pod", a)'
    BY <2>3 DEF Exists
  <2>6. ~Exists("configmap", a) => ~Exists("configmap", a)'
    BY <2>3 DEF Exists
  <2>7. Labelled("service", a)' = Labelled("service", a)
    <3>1. ASSUME NEW o
          PROVE  o \in Labelled("service", a)' <=> o \in Labelled("service", a)
      BY <2>3, <2>4 DEF Labelled
    <3> QED
      BY <3>1 DEF Labelled
  <2> QED
    BY <1>4, <2>2, <2>5, <2>6, <2>7 DEF GoneAt
<1>5. CASE pc'[p] \notin {"list", "del_svc"}
  BY <1>5 DEF GoneAt
<1> QED
  BY <1>1, <1>2, <1>3, <1>4, <1>5, StepTo

LEMMA NextNotRefused ==
    ASSUME AnyInv, OneAtATime, GoneInv, DeleteIsNotRefused, [Next]_vars
    PROVE  DeleteIsNotRefused'
<1> USE DEF AnyInv
<1> SUFFICES ASSUME NEW p \in Procs, outcome'[p] = "refused"
             PROVE  req'[p].op = "create"
  BY DEF DeleteIsNotRefused
<1>1. CASE Begins(p)
  BY <1>1 DEF Begins
<1>2. CASE CreateMove(p)
  BY <1>2, MoveElsewhere DEF CreateMove, Creates
<1>3. CASE DeleteStep(p)
  <2>1. DeleteService(p) /\ outcome[p] = "running"
    BY <1>3 DEF DeleteStep, DeletePod, ListServices, DeleteService, DeleteConfigMap, At, Ends, TypeOK
  <2>2. pc[p] = "del_svc" /\ latest[req[p].vm] = p /\ req[p].vm \in Agents
    BY <2>1 DEF DeleteService, At, OneAtATime, InProgress, TypeOK, Request
  <2>3. PICK n \in todo[p] : ~Exists("service", n)
    BY <2>1, <1>3 DEF DeleteService, Ends, TypeOK
  <2>4. \E o \in Labelled("service", req[p].vm) : o.name = n
    BY <2>1, <2>2 DEF GoneInv, GoneAt
  <2> QED
    BY <2>3, <2>4 DEF Labelled, Exists
<1>4. CASE req'[p] = req[p] /\ outcome'[p] = outcome[p]
  BY <1>4 DEF DeleteIsNotRefused
<1> QED
  BY <1>1, <1>2, <1>3, <1>4, StepTo

\* SerialInv is inductive when the director makes one call at a time on a VM.
LEMMA SerialCalls == ASSUME Serialised PROVE Spec => []SerialInv
<1>1. Init => SerialInv
  <2> SUFFICES ASSUME Init
               PROVE  SerialInv
    OBVIOUS
  <2>1. OneAtATime
    BY NoCallAssumption DEF Init, OneAtATime, InProgress
  <2>2. MadeInv /\ GoneInv
    BY DEF Init, MadeInv, GoneInv, Creates
  <2>3. PodHasItsSettings /\ DeleteIsNotRefused
    BY DEF Init, PodHasItsSettings, DeleteIsNotRefused, Exists
  <2> QED
    BY <2>1, <2>2, <2>3, InitAny DEF SerialInv
<1>2. SerialInv /\ [Next]_vars => SerialInv'
  BY NextType, NextPlan, NextUnique, NextOrigins, NextOne, NextMade, NextGone, NextSettings,
     NextNotRefused DEF SerialInv, AnyInv
<1> QED
  BY <1>1, <1>2, PTL DEF Spec

\* PodHasItsSettings: the config map is there before the pod that mounts it and
\* as long (create_vm.go:156-184, delete_vm.go:28-41).
THEOREM PodsHaveSettings == ASSUME Serialised PROVE Spec => []PodHasItsSettings
BY SerialCalls, PTL DEF SerialInv

\* CreateIsComplete: a create_vm that answers a CID has made all it was asked
\* for, or uses a service that was made for another VM, which goes only after a
\* delete_vm was called on that VM (create_vm.go:140-222, 338-345).
THEOREM CreatesAreComplete == ASSUME Serialised PROVE Spec => []CreateIsComplete
<1>1. SerialInv => CreateIsComplete
  <2> SUFFICES ASSUME SerialInv, NEW a \in Agents, NEW p \in Procs, LastOn(a, p, "create"),
                      NEW w \in Wanted(req[p])
               PROVE  \/ \E o \in Labelled(w[1], a) : o.name = w[2]
                      \/ w[1] = "service" /\ OthersService(a, w[2])
    BY DEF CreateIsComplete
  <2>t. TypeOK /\ PlanInv /\ OneAtATime /\ MadeInv
    BY DEF SerialInv, AnyInv
  <2>1. Creates(p) /\ req[p].vm = a /\ latest[a] = p /\ outcome[p] = "ok"
    BY <2>t DEF LastOn, OneAtATime, Creates
  <2>2. req[p] \in Request /\ req[p].op = "create" /\ at[p] = Last(p) /\ Last(p) \in Nat
    BY <2>t, <2>1, PlanOf DEF PlanInv, PlanAt, Creates
  <2>3. PICK n \in 1 .. Last(p) : w = <<Plan(req[p])[n].kind, Plan(req[p])[n].name>>
    BY DEF Wanted, Last
  <2>4. w[1] = Plan(req[p])[n].kind /\ w[2] = Plan(req[p])[n].name
    BY <2>3
  <2>5. Past(p, n)
    BY <2>1, <2>2 DEF Past
  <2>6. Plan(req[p])[n].kind # "namespace"
    <3>1. Plan(req[p])[n].kind = "namespace" => Plan(req[p])[n].name = Namespace
      BY <2>2, PlanShape DEF Last
    <3>2. w # <<"namespace", Namespace>>
      BY DEF Wanted
    <3> QED
      BY <2>3, <3>1, <3>2
  <2>7. \/ \E o \in objects : /\ o.kind = Plan(req[p])[n].kind
                              /\ o.name = Plan(req[p])[n].name
                              /\ o.label = req[p].vm
        \/ /\ Plan(req[p])[n].kind = "service"
           /\ OthersService(a, Plan(req[p])[n].name)
    BY <2>t, <2>1, <2>5, <2>6 DEF MadeInv
  <2> QED
    BY <2>1, <2>3, <2>4, <2>7 DEF Labelled, Creates
<1> QED
  BY <1>1, SerialCalls, PTL

\* DeleteIsComplete: a delete_vm that succeeds leaves no pod, no config map and
\* no service of the VM, whatever earlier calls left behind (delete_vm.go:13-85).
THEOREM DeletesAreComplete == ASSUME Serialised PROVE Spec => []DeleteIsComplete
<1>1. SerialInv => DeleteIsComplete
  <2> SUFFICES ASSUME SerialInv, NEW a \in Agents, NEW p \in Procs, LastOn(a, p, "delete")
               PROVE  /\ ~Exists("pod", a) /\ ~Exists("configmap", a)
                      /\ Labelled("service", a) = {}
    BY DEF DeleteIsComplete
  <2>1. pc[p] = "del_svc" /\ outcome[p] = "ok" /\ GoneAt(p, a)
    BY DEF LastOn, SerialInv, AnyInv, OneAtATime, GoneInv, PlanInv, PlanAt, Creates
  <2> QED
    BY <2>1 DEF GoneAt
<1> QED
  BY <1>1, SerialCalls, PTL

\* DeleteIsNotRefused: a delete_vm finds every service it has listed
\* (delete_vm.go:56-75).
THEOREM DeletesAreNotRefused == ASSUME Serialised PROVE Spec => []DeleteIsNotRefused
BY SerialCalls, PTL DEF SerialInv

\* DeletionIsolated: a delete_vm deletes only services with its VM's label,
\* although it deletes them by name (delete_vm.go:56-75).
THEOREM DeletionsAreIsolated == ASSUME Serialised PROVE Spec => DeletionIsolated
<1>1. SerialInv /\ [Next]_vars => [DeletesOnlyItsOwn]_vars
  <2> SUFFICES ASSUME SerialInv, [Next]_vars,
                      NEW o \in objects, o.kind = "service", o \notin objects'
               PROVE  \E p \in Procs : At(p, "del_svc") /\ req[p].vm = o.label
    BY DEF DeletesOnlyItsOwn
  <2>1. PICK q \in Procs : Takes(q, o)
    BY TakenByOwner DEF SerialInv
  <2> QED
    BY <2>1 DEF Takes, At
<1> QED
  BY <1>1, SerialCalls, PTL DEF Spec, DeletionIsolated

=============================================================================
