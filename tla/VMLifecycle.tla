----------------------------- MODULE VMLifecycle -----------------------------
(***************************************************************************)
(* create_vm, delete_vm and has_vm (actions/create_vm.go, delete_vm.go,    *)
(* has_vm.go).                                                             *)
(*                                                                         *)
(* A VM is a family of Kubernetes objects that no transaction holds        *)
(* together: a config map and a pod or a Deployment named after the agent, *)
(* and the services, Ingresses and secrets of its cloud properties, under  *)
(* names the operator chose, labelled with the agent ID.  create_vm makes  *)
(* them one request at a time and stops at the first error without undoing *)
(* anything; delete_vm removes the pod, then the labelled services, then   *)
(* the config map.                                                         *)
(*                                                                         *)
(* Each call is a process, as in VolumeManager.  Of an object the model    *)
(* keeps its kind, its name and its label.  All VMs here are in one        *)
(* context; kinds have name spaces of their own, shared by all VMs.        *)
(***************************************************************************)
EXTENDS Naturals, Sequences

CONSTANTS
    Procs,        \* CPI processes, one call each
    Agents,       \* VMs, named by their agent ID
    Names,        \* names for services, Ingresses and secrets
    CloudProps,   \* the cloud properties and networks create_vm is given
    Namespace,    \* the name of the context's namespace, which has no label
    NoRequest,    \* of a process that has not begun
    NoCall,       \* no call has named the VM yet
    Serialised    \* TRUE: the director has one call at work on a VM

Kinds == {"namespace", "configmap", "service", "ingress", "secret", "pod",
          "deployment", "replica"}

\* A thing create_vm makes; bad: the CPI itself finds fault with it before the
\* Create (an unreadable dockercfg file, a quantity that does not parse, a
\* number of replicas below one).
Item == [kind : Kinds, name : Agents \cup Names \cup {Namespace}, bad : BOOLEAN]

\* A service of the cloud properties is an Ingress when its type says so.
ServiceItem == [kind : {"service", "ingress"}, name : Names, bad : BOOLEAN]
SecretItem  == [kind : {"secret"}, name : Names, bad : BOOLEAN]

\* One network is what create_vm can do with; the launch item is a pod when
\* Replicas is absent and a Deployment otherwise.  Its name is the agent's.
Props == [networks : Nat, services : Seq(ServiceItem), secrets : Seq(SecretItem),
          launch : {"pod", "deployment"}, bad : BOOLEAN]

ASSUME PropsAssumption == CloudProps \subseteq Props
ASSUME SerialisedAssumption == Serialised \in BOOLEAN
ASSUME NoCallAssumption == NoCall \notin Procs
ASSUME NamesAssumption == Agents \cap Names = {} /\ Namespace \notin Agents \cup Names

Object == [kind : Kinds, name : Agents \cup Names \cup {Namespace},
           label : Agents \cup {Namespace}]

Request == [op : {"create"}, vm : Agents, props : CloudProps]
           \cup [op : {"delete"}, vm : Agents]

VARIABLES
    objects,      \* what the API server stores
    req,          \* the arguments of the call
    pc,           \* the request it is at
    at,           \* create_vm: the position in its plan
    todo,         \* delete_vm: the listed services not deleted yet
    outcome,      \* how the call ended, or "running"
    latest        \* history: the call the director last made on a VM

vars == <<objects, req, pc, at, todo, outcome, latest>>

At(p, step) == pc[p] = step /\ outcome[p] = "running"

InProgress(p) == pc[p] # "idle" /\ outcome[p] = "running"

TypeOK ==
    /\ objects \subseteq Object
    /\ req \in [Procs -> Request \cup {NoRequest}]
    /\ pc \in [Procs -> {"idle", "get", "create", "wait",
                         "del_pod", "list", "del_svc"}]
    /\ at \in [Procs -> Nat \ {0}]
    /\ todo \in [Procs -> SUBSET Names]
    /\ outcome \in [Procs -> {"running", "ok", "invalid", "refused", "broken", "timeout"}]
    /\ latest \in [Agents -> Procs \cup {NoCall}]
    /\ \A p \in Procs : pc[p] # "idle" => req[p] \in Request
    /\ \A p \in Procs : pc[p] \in {"get", "create", "wait"} /\ outcome[p] = "running" =>
          req[p].op = "create"

-----------------------------------------------------------------------------
\* The objects create_vm makes, in the order it makes them.
Plan(r) ==
       << [kind |-> "namespace", name |-> Namespace, bad |-> FALSE],
          [kind |-> "configmap", name |-> r.vm, bad |-> FALSE] >>
    \o r.props.services
    \o r.props.secrets
    \o << [kind |-> r.props.launch, name |-> r.vm, bad |-> r.props.bad] >>

Doing(p) == Plan(req[p])[at[p]]

Exists(kind, name) == \E o \in objects : o.kind = kind /\ o.name = name

\* The objects of a kind that carry an agent's label.
Labelled(kind, a) == {o \in objects : o.kind = kind /\ o.label = a}

\* has_vm lists the pods with the label; a Deployment's pods carry it too.
HasVM(a) == Labelled("pod", a) \cup Labelled("replica", a) # {}

Ends(p, how) == outcome' = [outcome EXCEPT ![p] = how]
Goto(p, step) == pc' = [pc EXCEPT ![p] = step]

\* Namespaces, services and secrets are looked up before they are created.
FirstRequest(i) == IF i.kind \in {"namespace", "service", "secret"} THEN "get" ELSE "create"

\* On to the next object; after the last one create_vm answers the VM CID.
Advance(p) ==
    IF at[p] = Len(Plan(req[p]))
    THEN Ends(p, "ok") /\ UNCHANGED <<pc, at>>
    ELSE /\ at' = [at EXCEPT ![p] = @ + 1]
         /\ Goto(p, FirstRequest(Plan(req[p])[at[p] + 1]))
         /\ UNCHANGED outcome

\* The server has carried a request out, but the client sees an error.
AnswerLost(p) == Ends(p, "broken") /\ UNCHANGED <<pc, at>>

-----------------------------------------------------------------------------
Init ==
    /\ objects = {}
    /\ req = [p \in Procs |-> NoRequest]
    /\ pc = [p \in Procs |-> "idle"]
    /\ at = [p \in Procs |-> 1]
    /\ todo = [p \in Procs |-> {}]
    /\ outcome = [p \in Procs |-> "running"]
    /\ latest = [a \in Agents |-> NoCall]

\* The director makes a call.  create_vm refuses anything but one network
\* before it makes any request.
Begin(p) ==
    /\ At(p, "idle")
    /\ \E r \in Request :
        /\ Serialised => ~\E q \in Procs : InProgress(q) /\ req[q].vm = r.vm
        /\ req' = [req EXCEPT ![p] = r]
        /\ latest' = [latest EXCEPT ![r.vm] = p]
        /\ Goto(p, IF r.op = "create" THEN "get" ELSE "del_pod")
        /\ IF r.op = "create" /\ r.props.networks # 1
           THEN Ends(p, "invalid") ELSE UNCHANGED outcome
    /\ UNCHANGED <<objects, at, todo>>

-----------------------------------------------------------------------------
(* create_vm *)

MutGet(p) ==                    \* a service that is there ends the loop
    /\ At(p, "get")
    /\ LET i == Doing(p)
           n == Len(Plan(req[p])) IN
       \/ /\ Exists(i.kind, i.name) /\ i.kind = "service"
          /\ at' = [at EXCEPT ![p] = n]
          /\ Goto(p, FirstRequest(Plan(req[p])[n])) /\ UNCHANGED outcome
       \/ /\ Exists(i.kind, i.name) /\ i.kind = "namespace"
          /\ Advance(p)
       \/ /\ Exists(i.kind, i.name) /\ i.kind = "secret"
          /\ Ends(p, "refused") /\ UNCHANGED <<pc, at>>
       \/ Goto(p, "create") /\ UNCHANGED <<at, outcome>>
    /\ UNCHANGED <<objects, req, todo, latest>>

\* A namespace or a service that is there is left as it is, whoever made it;
\* a secret that is there is an error.  An error of the Get, whatever it is,
\* leads to the Create: this is also where a failed lookup goes.
Get(p) ==
    /\ At(p, "get")
    /\ LET i == Doing(p) IN
       \/ /\ Exists(i.kind, i.name) /\ i.kind # "secret"
          /\ Advance(p)
       \/ /\ Exists(i.kind, i.name) /\ i.kind = "secret"
          /\ Ends(p, "refused") /\ UNCHANGED <<pc, at>>
       \/ Goto(p, "create") /\ UNCHANGED <<at, outcome>>
    /\ UNCHANGED <<objects, req, todo, latest>>

MutTolerated(i) == FALSE

MutToleratesSecret(i) == i.kind \in {"namespace", "secret"}

\* createNamespace takes AlreadyExists for success; the others do not.
Tolerated(i) == i.kind = "namespace"

Labels(p, i) == IF i.kind = "namespace" THEN Namespace ELSE req[p].vm

Create(p) ==
    /\ At(p, "create")
    /\ LET i == Doing(p) IN
       /\ ~i.bad /\ ~Exists(i.kind, i.name)
       /\ objects' = objects \cup {[kind |-> i.kind, name |-> i.name, label |-> Labels(p, i)]}
       /\ \/ /\ i.kind = "deployment"
             /\ Goto(p, "wait") /\ UNCHANGED <<at, outcome>>
          \/ i.kind # "deployment" /\ Advance(p)
          \/ AnswerLost(p)
    /\ UNCHANGED <<req, todo, latest>>

CreateFails(p) ==
    /\ At(p, "create")
    /\ LET i == Doing(p) IN
       \/ i.bad /\ Ends(p, "invalid") /\ UNCHANGED <<pc, at>>
       \/ ~i.bad /\ Exists(i.kind, i.name) /\ Tolerated(i) /\ Advance(p)
       \/ /\ ~i.bad /\ Exists(i.kind, i.name) /\ ~Tolerated(i)
          /\ Ends(p, "refused") /\ UNCHANGED <<pc, at>>
    /\ UNCHANGED <<objects, req, todo, latest>>

\* waitForDeployment, the loop of waitForPod over Deployment events: it sees
\* as many replicas available as the Deployment asks for,
DeploymentReady(p) ==
    /\ At(p, "wait")
    /\ Exists("replica", req[p].vm)
    /\ Advance(p)
    /\ UNCHANGED <<objects, req, todo, latest>>

MutTimesOut(p) == FALSE

\* or its timer fires.
TimesOut(p) ==
    /\ At(p, "wait")
    /\ Ends(p, "timeout")
    /\ UNCHANGED <<objects, req, pc, at, todo, latest>>

-----------------------------------------------------------------------------
(* delete_vm *)

Without(kind, name) == {o \in objects : ~(o.kind = kind /\ o.name = name)}

MutDeletePod(p) ==              \* an error of the Delete is ignored
    /\ At(p, "del_pod")
    /\ objects' \in {objects, Without("pod", req[p].vm)}
    /\ Goto(p, "list") /\ UNCHANGED outcome
    /\ UNCHANGED <<req, at, todo, latest>>

\* NotFound is as good as success, here and for the config map.
DeletePod(p) ==
    /\ At(p, "del_pod")
    /\ objects' = Without("pod", req[p].vm)
    /\ \/ Goto(p, "list") /\ UNCHANGED outcome
       \/ Ends(p, "broken") /\ UNCHANGED pc
    /\ UNCHANGED <<req, at, todo, latest>>

MutListServices(p) ==           \* the selector is lost
    /\ At(p, "list")
    /\ todo' = [todo EXCEPT ![p] = {o.name : o \in {x \in objects : x.kind = "service"}}]
    /\ Goto(p, "del_svc")
    /\ UNCHANGED <<objects, req, at, outcome, latest>>

MutListObjects(p) ==            \* objects of every kind are listed
    /\ At(p, "list")
    /\ todo' = [todo EXCEPT ![p] = {o.name : o \in {x \in objects : x.label = req[p].vm}}]
    /\ Goto(p, "del_svc")
    /\ UNCHANGED <<objects, req, at, outcome, latest>>

MutListNothing(p) ==            \* the selector matches nothing
    /\ At(p, "list")
    /\ Goto(p, "del_svc")
    /\ UNCHANGED <<objects, req, at, todo, outcome, latest>>

ListServices(p) ==
    /\ At(p, "list")
    /\ todo' = [todo EXCEPT ![p] = {o.name : o \in Labelled("service", req[p].vm)}]
    /\ Goto(p, "del_svc")
    /\ UNCHANGED <<objects, req, at, outcome, latest>>

\* A service of the list is deleted by name, whosever it is by now; one that
\* is gone by now ends the call.
DeleteService(p) ==
    /\ At(p, "del_svc")
    /\ \E n \in todo[p] :
        \/ /\ Exists("service", n)
           /\ objects' = Without("service", n)
           /\ \/ todo' = [todo EXCEPT ![p] = @ \ {n}] /\ UNCHANGED outcome
              \/ Ends(p, "broken") /\ UNCHANGED todo
        \/ /\ ~Exists("service", n)
           /\ Ends(p, "refused")
           /\ UNCHANGED <<objects, todo>>
    /\ UNCHANGED <<req, pc, at, latest>>

DeleteConfigMap(p) ==
    /\ At(p, "del_svc") /\ todo[p] = {}
    /\ objects' = Without("configmap", req[p].vm)
    /\ Ends(p, "ok") \/ Ends(p, "broken")
    /\ UNCHANGED <<req, pc, at, todo, latest>>

-----------------------------------------------------------------------------
(* What the process has no part in *)

\* The connection fails and the request is not carried out (at "wait", the
\* closed channel hands over an event with no type), or the process dies.
Breaks(p) ==
    /\ InProgress(p)
    /\ Ends(p, "broken")
    /\ UNCHANGED <<objects, req, pc, at, todo, latest>>

\* The Deployment's controller keeps labelled pods as long as it exists.
ControllerRuns(a) ==
    /\ Exists("deployment", a) /\ ~Exists("replica", a)
    /\ objects' = objects \cup {[kind |-> "replica", name |-> a, label |-> a]}
    /\ UNCHANGED <<req, pc, at, todo, outcome, latest>>

-----------------------------------------------------------------------------
Step(p) ==
    \/ Get(p) \/ Create(p) \/ CreateFails(p) \/ DeploymentReady(p) \/ TimesOut(p)
    \/ DeletePod(p) \/ ListServices(p) \/ DeleteService(p) \/ DeleteConfigMap(p)

Next ==
    \/ \E p \in Procs : Begin(p) \/ Step(p) \/ Breaks(p)
    \/ \E a \in Agents : ControllerRuns(a)

Spec == Init /\ [][Next]_vars

\* The process runs, and waitForDeployment does not outlive its timer.
\* Nothing is assumed of the director, the controller or the network.
Fairness == \A p \in Procs : WF_vars(Step(p))

FairSpec == Spec /\ Fairness

-----------------------------------------------------------------------------
(* Safety, whatever calls are at work *)

Wanted(r) == {<<i.kind, i.name>> : i \in {Plan(r)[n] : n \in 1 .. Len(Plan(r))}}
             \ {<<"namespace", Namespace>>}

NamedBefore(p) ==
    \E n \in 1 .. at[p] - 1 : /\ Plan(req[p])[n].kind = Doing(p).kind
                             /\ Plan(req[p])[n].name = Doing(p).name

\* A create_vm that meets an object it did not expect shares that name with
\* another call, or names it twice itself: VMs whose agent IDs and names differ
\* never fail each other, in particular not by racing to create the namespace
\* (227-246).
RefusalsHaveACause ==
    \A p \in Procs : pc[p] \in {"get", "create"} /\ outcome[p] = "refused" =>
        \/ NamedBefore(p)
        \/ \E q \in Procs \ {p} : /\ pc[q] # "idle" /\ req[q].op = "create"
                                  /\ <<Doing(p).kind, Doing(p).name>> \in Wanted(req[q])

\* A secret's name admits one create_vm for the life of the cluster: nothing
\* deletes secrets, and the lookup and the Create both refuse one that is
\* there, so no second VM is ever given another's credentials (351-404).
SecretAdmitsOneVM ==
    \A p, q \in Procs : p # q /\ pc[p] # "idle" /\ pc[q] # "idle"
                        /\ req[p].op = "create" /\ req[q].op = "create"
                        /\ outcome[p] = "ok" /\ outcome[q] = "ok" =>
        ~\E w \in Wanted(req[p]) \cap Wanted(req[q]) : w[1] = "secret"

-----------------------------------------------------------------------------
(* Safety when the director serialises the calls on a VM *)

\* The config map is made before the pod that mounts it and outlives it: the
\* agent always finds its settings, whichever request failed (156-172, 28-41).
PodHasItsSettings ==
    \A a \in Agents : Exists("pod", a) => Exists("configmap", a)

LastOn(a, p, op) == latest[a] = p /\ req[p].op = op /\ outcome[p] = "ok"

\* The service of that name was made for another VM that asked for it too, and is
\* there, unless a delete_vm was called on that VM.
OthersService(a, n) ==
    \E q \in Procs :
        /\ pc[q] # "idle" /\ req[q].op = "create" /\ req[q].vm # a
        /\ <<"service", n>> \in Wanted(req[q])
        /\ \/ \E o \in Labelled("service", req[q].vm) : o.name = n
           \/ \E d \in Procs : pc[d] # "idle" /\ req[d].op = "delete" /\ req[d].vm = req[q].vm

\* After create_vm answered a CID, the VM is there with all it asked for; only
\* a service can be another VM's, and it stays as long as that VM.
CreateIsComplete ==
    \A a \in Agents, p \in Procs : LastOn(a, p, "create") =>
        \A w \in Wanted(req[p]) :
            \/ \E o \in Labelled(w[1], a) : o.name = w[2]
            \/ w[1] = "service" /\ OthersService(a, w[2])

\* After delete_vm succeeded the agent's pod, its config map and the services
\* with its label are gone, also when earlier calls on it broke half way.
DeleteIsComplete ==
    \A a \in Agents, p \in Procs : LastOn(a, p, "delete") =>
        /\ ~Exists("pod", a) /\ ~Exists("configmap", a)
        /\ Labelled("service", a) = {}

\* delete_vm finds every service it listed: it fails only when the connection
\* or the process does, so the director's retry gets further (56-75).
DeleteIsNotRefused ==
    \A p \in Procs : outcome[p] = "refused" => req[p].op = "create"

\* delete_vm deletes services by name after listing them by label; no other
\* VM's service ever goes with them.
DeletesOnlyItsOwn ==
    \A o \in objects : o.kind = "service" /\ o \notin objects' =>
        \E p \in Procs : At(p, "del_svc") /\ req[p].vm = o.label

DeletionIsolated == [][DeletesOnlyItsOwn]_vars

-----------------------------------------------------------------------------
(* Liveness *)

\* Every call ends, also when the Deployment never becomes available.
EveryCallEnds == \A p \in Procs : InProgress(p) ~> ~InProgress(p)

\* create_vm answered the VM's CID, and the last call made on it is a delete_vm
\* that succeeded.
Deleted(a) ==
    /\ \E p \in Procs : LastOn(a, p, "delete")
    /\ \E q \in Procs : /\ pc[q] # "idle" /\ req[q].op = "create"
                       /\ req[q].vm = a /\ outcome[q] = "ok"

\* A VM that create_vm made has no pods left after delete_vm succeeded, as
\* integration/vm/delete_vm_test.go expects, unless the director calls again.
DeletedVMGoes == \A a \in Agents : Deleted(a) ~> ~Deleted(a) \/ ~HasVM(a)
=============================================================================
