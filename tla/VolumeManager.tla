---------------------------- MODULE VolumeManager ----------------------------
(***************************************************************************)
(* attach_disk and detach_disk (actions/volume_manager.go).                *)
(*                                                                         *)
(* Each CPI call is a process of its own (cmd/cpi/main.go runs one action  *)
(* and exits), so a process here makes one call: it reads the agent's pod, *)
(* records the disk in the agent's config map, deletes the pod, creates it *)
(* again with the changed volumes, and waits for the new pod on a watch.   *)
(* Every request to the API server is one step; between two of them the    *)
(* other calls, the kubelet and the timer move, and the process may die.   *)
(*                                                                         *)
(* A request fails in two ways: the server refuses it (Refused), or the    *)
(* client sees an error although the request may have been carried out     *)
(* (Breaks when it was not, the second disjunct of Answer when it was).    *)
(* Either ends the call; pc[p] stays at the request that failed, which is  *)
(* what the wrapped error of recreatePod names.                            *)
(***************************************************************************)
EXTENDS KubeObjects

CONSTANTS
    Procs,        \* CPI processes, one call each
    Agents,       \* VMs, named by their agent ID
    ContextOf,    \* the context in the CID of a VM or of a disk
    CreateVM,     \* the creator of the pods there are at the start
    NoRequest,    \* of a process that has not begun
    NoCall,       \* no call has named the disk yet
    Serialised,   \* TRUE: the director has one call at work on a VM
    MaxEvents     \* bound: the kubelet is quiet while a watch has this many
                  \* undelivered events

ASSUME CreatorsAssumption == Creators = Procs \cup {CreateVM} /\ CreateVM \notin Procs
ASSUME NoRequestAssumption == NoRequest \notin [op : {"Add", "Remove"}, vm : Agents, disk : Disks]
ASSUME NoCallAssumption == NoCall \notin Procs
ASSUME SerialisedAssumption == Serialised \in BOOLEAN
ASSUME MaxEventsAssumption == MaxEvents \in Nat

VARIABLES
    (* the cluster *)
    pods,         \* the pod "agent-"+a, or NoPod
    configMaps,   \* the config map "agent-"+a: the disks of its settings
                  \* and its resource version, or NoConfigMap
    (* the calls *)
    req,          \* the arguments of the call
    pc,           \* the request it is at
    copy,         \* the pod as recreatePod read it, until it is of no more use
    cm,           \* the config map as updateConfigMapDisks read it
    stream,       \* the events after the version its Create returned that
                  \* it has not been handed yet
    timer,        \* the timer of waitForPod
    outcome,      \* how the call ended, or "running"
    (* history, read by properties only *)
    latest,       \* if calls are serialised, the last that named a VM and a disk
    address       \* the address last recorded in a VM's annotation

cluster == <<pods, configMaps>>
history == <<latest, address>>
vars == <<pods, configMaps, req, pc, copy, cm, stream, timer, outcome,
          latest, address>>

Request   == [op : {"Add", "Remove"}, vm : Agents, disk : Disks]
ConfigMap == [disks : SUBSET Disks, rv : Nat]
Calls     == {"get_pod", "get_cm", "update_cm", "delete", "create", "watch", "wait"}

At(p, step) == pc[p] = step /\ outcome[p] = "running"

InProgress(p) == pc[p] # "idle" /\ outcome[p] = "running"

TypeOK ==
    /\ pods \in [Agents -> Pod \cup {NoPod}]
    /\ configMaps \in [Agents -> ConfigMap]
    /\ req \in [Procs -> Request \cup {NoRequest}]
    /\ pc \in [Procs -> Calls \cup {"idle", "sleep"}]
    /\ copy \in [Procs -> Pod \cup {NoPod}]
    /\ cm \in [Procs -> ConfigMap]
    /\ stream \in [Procs -> Seq(Event)]
    /\ timer \in [Procs -> {"off", "armed", "fired"}]
    /\ outcome \in [Procs -> {"running", "ok", "mismatch", "refused", "broken",
                              "unexpected", "timeout"}]
    /\ latest \in [Agents -> [Disks -> Procs \cup {NoCall}]]
    /\ address \in [Agents -> Address]
    /\ \A p \in Procs : pc[p] # "idle" => req[p] \in Request
    /\ \A p \in Procs :
          InProgress(p) /\ pc[p] \in {"get_cm", "update_cm", "delete", "create"} =>
              copy[p] \in Pod

-----------------------------------------------------------------------------
\* From its Create on, a call is owed every later event of the agent's pods:
\* waitForPod watches the agent's label from the version Create returned.
Watches(p, a) == InProgress(p) /\ pc[p] \in {"watch", "wait"} /\ req[p].vm = a

Notify(a, type, pod) ==
    stream' = [p \in Procs |-> IF Watches(p, a)
                               THEN Append(stream[p], [type |-> type, pod |-> pod])
                               ELSE stream[p]]

Ends(p, how) == outcome' = [outcome EXCEPT ![p] = how]
Goto(p, step) == pc' = [pc EXCEPT ![p] = step]

\* Leaving waitForPod stops the watch and the timer.
StopWaiting(p) == /\ stream' = [stream EXCEPT ![p] = <<>>]
                  /\ timer' = [timer EXCEPT ![p] = "off"]

\* No config map has the name; of a call, it has read none or has used it.
NoConfigMap == [disks |-> {}, rv |-> 0]

Forgets(p) == copy' = [copy EXCEPT ![p] = NoPod]

\* The server has carried a request out; the client gets the answer or not.
Answer(p, next) == \/ Goto(p, next) /\ UNCHANGED <<outcome, copy>>
                   \/ Ends(p, "broken") /\ Forgets(p) /\ UNCHANGED pc

MutResubmitted(p) ==            \* the labels are not copied
    [KeepAddress(UpdateVolumes(req[p].op, copy[p], req[p].disk)) EXCEPT !.meta = NoMeta]

MutResubmittedAsRead(p) ==      \* the changed volumes are not used
    KeepAddress(copy[p])

\* What recreatePod makes of the pod it read, before it deletes that pod.
Resubmitted(p) == KeepAddress(UpdateVolumes(req[p].op, copy[p], req[p].disk))

MutAcceptsNoPod(p) ==           \* Delete tolerates NotFound
    LET a == req[p].vm IN
    /\ pc[p] = "get_pod" => pods[a] # NoPod
    /\ pc[p] = "get_cm" => configMaps[a] # NoConfigMap
    /\ pc[p] = "update_cm" => cm[p].rv = configMaps[a].rv
    /\ pc[p] = "create" => pods[a] = NoPod /\ Admissible(Resubmitted(p))

MutAcceptsAnyVersion(p) ==      \* Update does not send the version it read
    LET a == req[p].vm IN
    /\ pc[p] \in {"get_pod", "delete"} => pods[a] # NoPod
    /\ pc[p] = "get_cm" => configMaps[a] # NoConfigMap
    /\ pc[p] = "create" => pods[a] = NoPod /\ Admissible(Resubmitted(p))

\* What the API server requires to carry out the request p is at.
Accepts(p) ==
    LET a == req[p].vm IN
    /\ pc[p] \in {"get_pod", "delete"} => pods[a] # NoPod
    /\ pc[p] = "get_cm" => configMaps[a] # NoConfigMap
    /\ pc[p] = "update_cm" => cm[p].rv = configMaps[a].rv
    /\ pc[p] = "create" => pods[a] = NoPod /\ Admissible(Resubmitted(p))

-----------------------------------------------------------------------------
Init ==
    /\ pods \in [Agents -> {FreshPod(CreateVM, i) : i \in Address}]
    /\ configMaps = [a \in Agents |-> [disks |-> {}, rv |-> 1]]
    /\ req = [p \in Procs |-> NoRequest]
    /\ pc = [p \in Procs |-> "idle"]
    /\ copy = [p \in Procs |-> NoPod]
    /\ cm = [p \in Procs |-> NoConfigMap]
    /\ stream = [p \in Procs |-> <<>>]
    /\ timer = [p \in Procs |-> "off"]
    /\ outcome = [p \in Procs |-> "running"]
    /\ latest = [a \in Agents |-> [d \in Disks |-> NoCall]]
    /\ address = [a \in Agents |-> pods[a].ann]

MutSameContext(r) == TRUE

\* The director makes a call.  AttachDisk and DetachDisk refuse a disk of
\* another context before they make any request.
SameContext(r) == ContextOf[r.vm] = ContextOf[r.disk]

Begin(p) ==
    /\ At(p, "idle")
    /\ \E r \in Request :
        /\ Serialised => ~\E q \in Procs : InProgress(q) /\ req[q].vm = r.vm
        /\ req' = [req EXCEPT ![p] = r]
        /\ latest' = IF Serialised THEN [latest EXCEPT ![r.vm][r.disk] = p] ELSE latest
        /\ Goto(p, "get_pod")
        /\ IF SameContext(r) THEN UNCHANGED outcome ELSE Ends(p, "mismatch")
    /\ UNCHANGED <<cluster, copy, cm, stream, timer, address>>

GetPod(p) ==
    /\ At(p, "get_pod") /\ Accepts(p)
    /\ copy' = [copy EXCEPT ![p] = pods[req[p].vm]]
    /\ Goto(p, "get_cm")
    /\ UNCHANGED <<cluster, req, cm, stream, timer, outcome, history>>

GetConfigMap(p) ==
    /\ At(p, "get_cm") /\ Accepts(p)
    /\ cm' = [cm EXCEPT ![p] = configMaps[req[p].vm]]
    /\ Goto(p, "update_cm")
    /\ UNCHANGED <<cluster, req, copy, stream, timer, outcome, history>>

MutRecord(r, disks) == disks \cup {r.disk}

\* The disks of the settings, with the request's disk in or out.
Record(r, disks) ==
    IF r.op = "Add" THEN disks \cup {r.disk} ELSE disks \ {r.disk}

UpdateConfigMap(p) ==
    /\ At(p, "update_cm") /\ Accepts(p)
    /\ LET a == req[p].vm IN
       configMaps' = [configMaps EXCEPT ![a] =
                        [disks |-> Record(req[p], cm[p].disks), rv |-> @.rv + 1]]
    /\ cm' = [cm EXCEPT ![p] = NoConfigMap]
    /\ Answer(p, "delete")
    /\ UNCHANGED <<pods, req, stream, timer, history>>

\* With a grace period of zero the object is gone when Delete answers.
DeletePod(p) ==
    /\ At(p, "delete") /\ Accepts(p)
    /\ LET a == req[p].vm IN
       /\ pods' = [pods EXCEPT ![a] = NoPod]
       /\ Notify(a, "DELETED", pods[a])
    /\ Answer(p, "create")
    /\ UNCHANGED <<configMaps, req, cm, timer, history>>

CreatePod(p) ==
    /\ At(p, "create") /\ Accepts(p)
    /\ LET a   == req[p].vm
           pod == Stored(Resubmitted(p), p) IN
       /\ pods' = [pods EXCEPT ![a] = pod]
       /\ Notify(a, "ADDED", pod)
       /\ address' = [address EXCEPT ![a] = IF pod.ann = NoIP THEN @ ELSE pod.ann]
    /\ \/ Goto(p, "watch") /\ UNCHANGED outcome
       \/ Ends(p, "broken") /\ UNCHANGED pc
    /\ Forgets(p)
    /\ UNCHANGED <<configMaps, req, cm, timer, latest>>

MutOpenWatchNow(p) ==           \* the watch starts at the current version
    /\ At(p, "watch") /\ Accepts(p)
    /\ timer' = [timer EXCEPT ![p] = "armed"]
    /\ stream' = [stream EXCEPT ![p] = <<>>]
    /\ Goto(p, "wait")
    /\ UNCHANGED <<cluster, req, copy, cm, outcome, history>>

MutOpenWatchUntimed(p) ==
    /\ At(p, "watch") /\ Accepts(p)
    /\ Goto(p, "wait")
    /\ UNCHANGED <<cluster, req, copy, cm, stream, timer, outcome, history>>

\* The timer is made before the watch is asked for; if it fires during that
\* request, the first select sees it as if it had fired just after.
OpenWatch(p) ==
    /\ At(p, "watch") /\ Accepts(p)
    /\ timer' = [timer EXCEPT ![p] = "armed"]
    /\ Goto(p, "wait")
    /\ UNCHANGED <<cluster, req, copy, cm, stream, outcome, history>>

MutReadEvent(p) ==              \* events of another type are skipped
    /\ At(p, "wait") /\ stream[p] # <<>>
    /\ LET e == Head(stream[p]) IN
       \/ /\ e.type = "MODIFIED" /\ IsAgentContainerRunning(e.pod)
          /\ Goto(p, "sleep") /\ StopWaiting(p) /\ UNCHANGED outcome
       \/ /\ e.type # "MODIFIED" \/ ~IsAgentContainerRunning(e.pod)
          /\ stream' = [stream EXCEPT ![p] = Tail(@)]
          /\ UNCHANGED <<pc, timer, outcome>>
    /\ UNCHANGED <<cluster, req, copy, cm, history>>

\* One turn of the select, when it takes an event.
ReadEvent(p) ==
    /\ At(p, "wait") /\ stream[p] # <<>>
    /\ LET e == Head(stream[p]) IN
       \/ /\ e.type = "MODIFIED" /\ IsAgentContainerRunning(e.pod)
          /\ Goto(p, "sleep") /\ StopWaiting(p) /\ UNCHANGED outcome
       \/ /\ e.type = "MODIFIED" /\ ~IsAgentContainerRunning(e.pod)
          /\ stream' = [stream EXCEPT ![p] = Tail(@)]
          /\ UNCHANGED <<pc, timer, outcome>>
       \/ /\ e.type # "MODIFIED"
          /\ Ends(p, "unexpected") /\ StopWaiting(p) /\ UNCHANGED pc
    /\ UNCHANGED <<cluster, req, copy, cm, history>>

\* One turn of the select, when it takes the timer.
TimesOut(p) ==
    /\ At(p, "wait") /\ timer[p] = "fired"
    /\ Ends(p, "timeout") /\ StopWaiting(p)
    /\ UNCHANGED <<cluster, req, pc, copy, cm, history>>

\* The delay after the pod is ready, and the end of the call.
Sleep(p) ==
    /\ At(p, "sleep")
    /\ Ends(p, "ok")
    /\ UNCHANGED <<cluster, req, pc, copy, cm, stream, timer, history>>

\* AttachedTwice looks at the copy that Create refused.
Refused(p) ==
    /\ InProgress(p) /\ pc[p] \in Calls /\ ~Accepts(p)
    /\ Ends(p, "refused")
    /\ IF pc[p] = "create" THEN UNCHANGED copy ELSE Forgets(p)
    /\ cm' = [cm EXCEPT ![p] = NoConfigMap]
    /\ UNCHANGED <<cluster, req, pc, stream, timer, history>>

-----------------------------------------------------------------------------
(* What the process has no part in *)

\* The connection fails and the request is not carried out (at "wait", the
\* watch ends and the closed channel hands over an event with no type), or
\* the process dies.
Breaks(p) ==
    /\ InProgress(p)
    /\ Ends(p, "broken") /\ StopWaiting(p) /\ Forgets(p)
    /\ cm' = [cm EXCEPT ![p] = NoConfigMap]
    /\ UNCHANGED <<cluster, req, pc, history>>

TimerFires(p) ==
    /\ At(p, "wait") /\ timer[p] = "armed"
    /\ timer' = [timer EXCEPT ![p] = "fired"]
    /\ UNCHANGED <<cluster, req, pc, copy, cm, stream, outcome, history>>

KubeletReports(a) ==
    /\ pods[a] # NoPod
    /\ \A p \in Procs : Watches(p, a) => Len(stream[p]) < MaxEvents
    /\ \E pod \in Reports(pods[a]) :
        /\ pods' = [pods EXCEPT ![a] = pod]
        /\ Notify(a, "MODIFIED", pod)
    /\ UNCHANGED <<configMaps, req, pc, copy, cm, timer, outcome, history>>

-----------------------------------------------------------------------------
\* A step of the call itself, other than taking the timer in the select.
Step(p) ==
    \/ GetPod(p) \/ GetConfigMap(p) \/ UpdateConfigMap(p)
    \/ DeletePod(p) \/ CreatePod(p)
    \/ OpenWatch(p) \/ ReadEvent(p) \/ Sleep(p)
    \/ Refused(p)

Next ==
    \/ \E p \in Procs : \/ Begin(p) \/ Step(p) \/ TimesOut(p)
                        \/ Breaks(p) \/ TimerFires(p)
    \/ \E a \in Agents : KubeletReports(a)

Spec == Init /\ [][Next]_vars

\* The process runs and the clock advances.  Go's select picks at random
\* among the channels that are ready, so it does not pass a fired timer over
\* for ever, however many events arrive: hence fairness of TimesOut by itself.
\* Nothing is assumed of the director, the kubelet or the network.
Fairness ==
    \A p \in Procs : /\ WF_vars(Step(p))
                     /\ WF_vars(TimerFires(p))
                     /\ WF_vars(TimesOut(p))

FairSpec == Spec /\ Fairness

-----------------------------------------------------------------------------
(* Safety, whatever calls are at work on a VM *)

\* Between the Delete and the Create of recreatePod the VM has no pod, and no
\* second call is between its own Delete and Create of the same VM: Delete
\* does not tolerate NotFound (lines 106-109), so only one of two racing
\* calls gets past it and no Create meets a pod.
WindowExclusive ==
    \A p \in Procs : At(p, "create") =>
        /\ pods[req[p].vm] = NoPod
        /\ \A q \in Procs : At(q, "create") /\ req[q].vm = req[p].vm => q = p

\* updateConfigMapDisks reads, changes and writes back the settings in three
\* steps, yet a config map only ever changes by one call's disk going in or
\* out of what is stored at that moment: no call's entry is lost (126-164).
AtomicUpdate ==
    \A a \in Agents : configMaps'[a] # configMaps[a] =>
        \E p \in Procs :
            /\ At(p, "update_cm") /\ req[p].vm = a
            /\ configMaps'[a].disks = Record(req[p], configMaps[a].disks)

UpdatesAreAtomic == [][AtomicUpdate]_vars

\* A call that stops waiting with success has been shown the pod it created
\* itself, with the disk mounted if it attached and gone if it detached, and
\* never the pod of a call that replaced it (237-253).
AcceptsOwnPod ==
    \A p \in Procs : At(p, "wait") /\ pc'[p] = "sleep" =>
        LET pod  == Head(stream[p]).pod
            want == IF req[p].op = "Add" THEN 1 ELSE 0
        IN  /\ pod.uid = p
            /\ pod.volumes[req[p].disk] = want
            /\ pod.mounts[req[p].disk] = want

SuccessIsOwnPod == [][AcceptsOwnPod]_vars

\* A call with nothing to read waits for something still to come: its pod is
\* there, is the one it created, and has not been ready unnoticed between
\* Create and Watch (111-116, 222-231).
IdleWatchIsRight ==
    \A p \in Procs : At(p, "wait") /\ stream[p] = <<>> =>
        LET pod == pods[req[p].vm] IN
        pod # NoPod /\ pod.uid = p /\ ~IsAgentContainerRunning(pod)

\* A VM without a pod is one that some call is about to create again, or that
\* a call lost between Delete and Create (106-114): it died or its connection
\* failed there, or it attached a disk the pod already had, which addVolume
\* appends a second time and Create refuses.  No other call loses a VM.
DiedInWindow(p) == pc[p] \in {"delete", "create"} /\ outcome[p] = "broken"

AttachedTwice(p) ==
    /\ pc[p] = "create" /\ outcome[p] = "refused"
    /\ req[p].op = "Add" /\ copy[p].volumes[req[p].disk] = 1

NoSilentLoss ==
    \A a \in Agents : pods[a] = NoPod =>
        \E p \in Procs : /\ pc[p] # "idle" /\ req[p].vm = a
                         /\ At(p, "create") \/ DiedInWindow(p) \/ AttachedTwice(p)

\* No pod and no settings name a disk of another context (36-41, 56-61).
NoForeignDisk ==
    \A a \in Agents, d \in Disks : ContextOf[a] # ContextOf[d] =>
        /\ d \notin configMaps[a].disks
        /\ pods[a] # NoPod => pods[a].volumes[d] = 0

-----------------------------------------------------------------------------
(* Safety when the director serialises the calls on a VM *)

\* The settings the agent reads and the pod's volumes differ about a disk
\* only while the last call that named this disk is at work or after it
\* failed: a call that succeeds leaves them agreeing, and no call on another
\* disk disturbs them (83-88).
Agree(a, d) == \A n \in {pods[a].volumes[d], pods[a].mounts[d]} :
                    n = (IF d \in configMaps[a].disks THEN 1 ELSE 0)

DisagreeOnlyAfterFailure ==
    \A a \in Agents, d \in Disks : pods[a] # NoPod /\ ~Agree(a, d) =>
        latest[a][d] # NoCall /\ outcome[latest[a][d]] # "ok"

\* Once an address is recorded in the annotation, every later pod of the VM
\* carries it: the VM keeps its address over any number of calls (90-103).
AddressKept ==
    \A a \in Agents : pods[a] # NoPod /\ address[a] # NoIP =>
        pods[a].ann = address[a]

-----------------------------------------------------------------------------
(* Liveness *)

\* Every call ends, even on a pod that never becomes ready: the timer is
\* armed before the wait, and the select reaches it (228, 237-257).
EveryCallEnds == \A p \in Procs : InProgress(p) ~> ~InProgress(p)
=============================================================================
