------------------------------- MODULE VMCalls -------------------------------
(***************************************************************************)
(* The calls on a VM that exists: attach_disk and detach_disk, which are   *)
(* VolumeManager, with delete_vm, has_vm, get_disks and set_vm_metadata    *)
(* (actions/delete_vm.go, has_vm.go, get_disks.go, set_vm_metadata.go).    *)
(*                                                                         *)
(* They meet in the pod and the config map.  The director makes one call   *)
(* at a time on a VM, but it can give up on one (it restarts, or its task  *)
(* is cancelled) whose process lives on: its lock is free then, and the    *)
(* abandoned call is at work next to the ones that follow.                 *)
(*                                                                         *)
(* The VM was created as a pod.  VMLifecycle has what is left out here:    *)
(* create_vm, and the services delete_vm removes between pod and config    *)
(* map; that these requests can fail is part of OtherBreaks.               *)
(***************************************************************************)
EXTENDS VolumeManager, FiniteSets

CONSTANTS
    Others,       \* CPI processes that do not attach or detach
    Invalid,      \* a value that is not valid as a label
    NotAsked,     \* of a process that has not begun
    NotSeen,      \* of a call that has not met a VM without a pod
    MaxAbandoned, \* bound on the calls the director gives up on
    MaxCalls      \* bound on the calls it makes

Ask == [op : {"delete", "has", "disks"}, vm : Agents]
       \cup [op : {"tag"}, vm : Agents, meta : (Metas \ {NoMeta}) \cup {Invalid}]

ASSUME BoundsAssumption == MaxAbandoned \in Nat /\ MaxCalls \in Nat
ASSUME NotAskedAssumption == NotAsked \notin Ask
ASSUME NotSeenAssumption == \A ps \in SUBSET Procs : NotSeen # ps

VARIABLES
    claims,       \* the disks whose claim exists
    ask,          \* the arguments of the call
    place,        \* the request it is at
    seen,         \* set_vm_metadata: the label in the pod it read
    left,         \* get_disks: the volumes it has yet to look up
    listed,       \* get_disks: the disks it has found
    result,       \* how the call ended, or "running"
    abandoned,    \* the calls the director does not wait for
    (* history, read by properties only *)
    window,       \* the calls between Delete and Create of the VM when this
                  \* one removed its pod or found it had none
    label,        \* the label the last patch carried out left in the pod
    outrun        \* whether a patch changed a pod that recreatePod had read

others == <<claims, ask, place, seen, left, listed, result, abandoned,
            window, label, outrun>>
diskCalls == <<req, pc, copy, cm, timer, outcome, latest, address>>
allVars == <<vars, others>>

CallsTypeOK ==
    /\ TypeOK
    /\ claims \subseteq Disks
    /\ ask \in [Others -> Ask \cup {NotAsked}]
    /\ place \in [Others -> {"idle", "del_pod", "del_cm", "list", "get_pod", "claims",
                             "read", "patch"}]
    /\ seen \in [Others -> Metas]
    /\ left \in [Others -> SUBSET Disks]
    /\ listed \in [Others -> SUBSET Disks]
    /\ result \in [Others -> {"running", "ok", "yes", "no", "refused", "broken"}]
    /\ abandoned \subseteq Procs \cup Others
    /\ window \in [Others -> (SUBSET Procs) \cup {NotSeen}]
    /\ label \in [Agents -> Metas]
    /\ outrun \in [Agents -> BOOLEAN]

-----------------------------------------------------------------------------
Asks(o, step) == place[o] = step /\ result[o] = "running"

Working(o) == place[o] # "idle" /\ result[o] = "running"

On(p, a) == pc[p] # "idle" /\ req[p].vm = a
OtherOn(o, a) == place[o] # "idle" /\ ask[o].vm = a

\* The director waits for a call on the VM.
Locked(a) == \/ \E p \in Procs \ abandoned : InProgress(p) /\ On(p, a)
             \/ \E o \in Others \ abandoned : Working(o) /\ OtherOn(o, a)

\* The director makes no more than MaxCalls.
HasNext == Cardinality({p \in Procs : pc[p] # "idle"} \cup {o \in Others : place[o] # "idle"})
             < MaxCalls

\* It is free to make a call on the VM.
Free(a) == ~Locked(a) /\ HasNext

InWindow(a) == {p \in Procs : At(p, "create") /\ req[p].vm = a}

Turns(o, step) == place' = [place EXCEPT ![o] = step]
Results(o, how) == result' = [result EXCEPT ![o] = how]

\* The server has carried a request out; the client gets the answer or not.
Answered(o, step) == \/ Turns(o, step) /\ UNCHANGED result
                     \/ Results(o, "broken") /\ UNCHANGED place

Concludes(o) == (Results(o, "ok") \/ Results(o, "broken")) /\ UNCHANGED place

\* Addresses are VolumeManager's question: here no VM starts with a static one.
CallsInit ==
    /\ Init
    /\ \A a \in Agents : pods[a].ann = NoIP
    /\ claims = Disks
    /\ ask = [o \in Others |-> NotAsked]
    /\ place = [o \in Others |-> "idle"]
    /\ seen = [o \in Others |-> NoMeta]
    /\ left = [o \in Others |-> {}]
    /\ listed = [o \in Others |-> {}]
    /\ result = [o \in Others |-> "running"]
    /\ abandoned = {}
    /\ window = [o \in Others |-> NotSeen]
    /\ label = [a \in Agents |-> NoMeta]
    /\ outrun = [a \in Agents |-> FALSE]

\* The director makes a call: attach_disk or detach_disk,
BeginDisk(p) ==
    /\ Begin(p)
    /\ Free(req'[p].vm)
    /\ UNCHANGED others

\* or one of the others.
BeginOther(o) ==
    /\ Asks(o, "idle")
    /\ \E r \in Ask :
        /\ Free(r.vm)
        /\ ask' = [ask EXCEPT ![o] = r]
        /\ \/ r.op = "delete" /\ Turns(o, "del_pod")
           \/ r.op = "has" /\ Turns(o, "list")
           \/ r.op = "disks" /\ Turns(o, "get_pod")
           \/ r.op = "tag" /\ Turns(o, "read")
    /\ UNCHANGED <<vars, claims, seen, left, listed, result, abandoned, window, label, outrun>>

-----------------------------------------------------------------------------
(* delete_vm *)

\* NotFound is as good as success, here and for the config map.
DeleteVMPod(o) ==
    /\ Asks(o, "del_pod")
    /\ LET a == ask[o].vm IN
       /\ pods' = [pods EXCEPT ![a] = NoPod]
       /\ IF pods[a] = NoPod THEN UNCHANGED stream ELSE Notify(a, "DELETED", pods[a])
       /\ window' = [window EXCEPT ![o] = InWindow(a)]
    /\ Answered(o, "del_cm")
    /\ UNCHANGED <<configMaps, diskCalls, claims, ask, seen, left, listed, abandoned,
                   label, outrun>>

MutDeleteVMConfigMap(o) ==      \* the settings go first
    /\ Asks(o, "del_cm") \/ Asks(o, "del_pod")
    /\ configMaps' = [configMaps EXCEPT ![ask[o].vm] = NoConfigMap]
    /\ IF place[o] = "del_cm" THEN Concludes(o) ELSE UNCHANGED <<place, result>>
    /\ UNCHANGED <<pods, stream, diskCalls, claims, ask, seen, left, listed, abandoned,
                   window, label, outrun>>

DeleteVMConfigMap(o) ==
    /\ Asks(o, "del_cm")
    /\ configMaps' = [configMaps EXCEPT ![ask[o].vm] = NoConfigMap]
    /\ Concludes(o)
    /\ UNCHANGED <<pods, stream, diskCalls, claims, ask, seen, left, listed, abandoned,
                   window, label, outrun>>

-----------------------------------------------------------------------------
(* has_vm *)

MutListed(a) == pods[a] # NoPod /\ pods[a].phase = "Running"

\* What the list of the pods with the agent's label has in it.
Listed(a) == pods[a] # NoPod

HasVM(o) ==
    /\ Asks(o, "list")
    /\ LET a == ask[o].vm IN
       \/ Listed(a) /\ Results(o, "yes") /\ UNCHANGED window
       \/ ~Listed(a) /\ Results(o, "no") /\ window' = [window EXCEPT ![o] = InWindow(a)]
    /\ UNCHANGED <<vars, claims, ask, place, seen, left, listed, abandoned, label, outrun>>

-----------------------------------------------------------------------------
(* get_disks *)

\* A VM without a pod has no disks.
GetDisksPod(o) ==
    /\ Asks(o, "get_pod")
    /\ LET a == ask[o].vm IN
       \/ /\ pods[a] = NoPod
          /\ Results(o, "ok")
          /\ window' = [window EXCEPT ![o] = InWindow(a)]
          /\ UNCHANGED <<place, left>>
       \/ /\ pods[a] # NoPod
          /\ left' = [left EXCEPT ![o] = {d \in Disks : pods[a].volumes[d] > 0}]
          /\ Turns(o, "claims")
          /\ UNCHANGED <<result, window>>
    /\ UNCHANGED <<vars, claims, ask, seen, listed, abandoned, label, outrun>>

\* A volume whose claim is gone is passed over.  Disks is where a claim can
\* have lost its disk-id label; here every claim has it.
LookUp(o) ==
    /\ Asks(o, "claims")
    /\ \E d \in left[o] :
        /\ left' = [left EXCEPT ![o] = @ \ {d}]
        /\ listed' = [listed EXCEPT ![o] = @ \cup ({d} \cap claims)]
    /\ UNCHANGED <<vars, claims, ask, place, seen, result, abandoned, window, label, outrun>>

MutAnswerDisks(o) ==            \* the loop may end before the last volume
    /\ Asks(o, "claims")
    /\ Results(o, "ok")
    /\ UNCHANGED <<vars, claims, ask, place, seen, left, listed, abandoned, window,
                   label, outrun>>

AnswerDisks(o) ==
    /\ Asks(o, "claims") /\ left[o] = {}
    /\ Results(o, "ok")
    /\ UNCHANGED <<vars, claims, ask, place, seen, left, listed, abandoned, window,
                   label, outrun>>

-----------------------------------------------------------------------------
(* set_vm_metadata *)

ReadLabels(o) ==
    /\ Asks(o, "read") /\ pods[ask[o].vm] # NoPod
    /\ seen' = [seen EXCEPT ![o] = pods[ask[o].vm].meta]
    /\ Turns(o, "patch")
    /\ UNCHANGED <<vars, claims, ask, left, listed, result, abandoned, window, label, outrun>>

MutPatched(o, meta) ==          \* values are not validated
    IF ask[o].meta = seen[o] THEN meta ELSE ask[o].meta

\* A label with an invalid value is dropped without an error.  The patch has
\* what differs from the pod that was read, so it may have nothing in it.
Patched(o, meta) ==
    IF ask[o].meta \in {Invalid, seen[o]} THEN meta ELSE ask[o].meta

\* Patch names the pod and no version: it is carried out on whatever pod has
\* the name by now.  A patch that changes nothing is no event.
Patch(o) ==
    /\ Asks(o, "patch") /\ pods[ask[o].vm] # NoPod
    /\ LET a   == ask[o].vm
           new == Patched(o, pods[a].meta)
           pod == [pods[a] EXCEPT !.meta = new] IN
       /\ pods' = [pods EXCEPT ![a] = pod]
       /\ label' = [label EXCEPT ![a] = new]
       /\ IF pod = pods[a]
          THEN UNCHANGED <<stream, outrun>>
          ELSE /\ Notify(a, "MODIFIED", pod)
               /\ outrun' = [outrun EXCEPT ![a] = @ \/
                    \E p \in Procs : InProgress(p) /\ req[p].vm = a
                                     /\ pc[p] \in {"get_cm", "update_cm", "delete"}]
    /\ Concludes(o)
    /\ UNCHANGED <<configMaps, diskCalls, claims, ask, seen, left, listed, abandoned, window>>

\* Get and Patch of a pod that is not there.
NoPodToTag(o) ==
    /\ Asks(o, "read") \/ Asks(o, "patch")
    /\ pods[ask[o].vm] = NoPod
    /\ Results(o, "refused")
    /\ UNCHANGED <<vars, claims, ask, place, seen, left, listed, abandoned, window, label, outrun>>

-----------------------------------------------------------------------------
(* What the processes have no part in *)

OtherBreaks(o) ==
    /\ Working(o)
    /\ Results(o, "broken")
    /\ UNCHANGED <<vars, claims, ask, place, seen, left, listed, abandoned, window, label, outrun>>

\* Of interest only while a call is to come.
GivesUp ==
    /\ Cardinality(abandoned) < MaxAbandoned /\ HasNext
    /\ \/ \E p \in Procs \ abandoned : InProgress(p) /\ abandoned' = abandoned \cup {p}
       \/ \E o \in Others \ abandoned : Working(o) /\ abandoned' = abandoned \cup {o}
    /\ UNCHANGED <<vars, claims, ask, place, seen, left, listed, result, window, label, outrun>>

\* delete_disk, whatever the disk is attached to.  Only get_disks looks at
\* claims, so only while it does is it of interest when one goes.
ClaimGoes(d) ==
    /\ d \in claims
    /\ \E o \in Others : Asks(o, "claims")
    /\ claims' = claims \ {d}
    /\ UNCHANGED <<vars, ask, place, seen, left, listed, result, abandoned, window, label, outrun>>

-----------------------------------------------------------------------------
OtherStep(o) ==
    \/ BeginOther(o) \/ OtherBreaks(o)
    \/ DeleteVMPod(o) \/ DeleteVMConfigMap(o)
    \/ HasVM(o)
    \/ GetDisksPod(o) \/ LookUp(o) \/ AnswerDisks(o)
    \/ ReadLabels(o) \/ Patch(o) \/ NoPodToTag(o)

\* What the kubelet reports is of interest only to a call that waits for it;
\* that recreatePod records the address in it is a question of other runs.
DiskStep ==
    /\ \/ \E p \in Procs : Step(p) \/ TimesOut(p) \/ Breaks(p) \/ TimerFires(p)
       \/ \E a \in Agents : KubeletReports(a) /\ \E p \in Procs : Watches(p, a)
    /\ UNCHANGED others

CallsNext ==
    \/ \E p \in Procs : BeginDisk(p)
    \/ DiskStep
    \/ \E o \in Others : OtherStep(o)
    \/ GivesUp
    \/ \E d \in Disks : ClaimGoes(d)

CallsSpec == CallsInit /\ [][CallsNext]_allVars

-----------------------------------------------------------------------------
(* Safety, also when the director gave up on calls *)

\* Once delete_vm's Delete was carried out the VM comes back only by a
\* recreatePod that was between its own Delete and Create at that moment; one
\* that has read the pod but not deleted it, however stale its copy, fails
\* (delete_vm.go:77-85, volume_manager.go:106-114).
DeletedVMReturnsOnlyFromWindow ==
    \A o \in Others : OtherOn(o, ask[o].vm) /\ ask[o].op = "delete"
                      /\ window[o] = {} => pods[ask[o].vm] = NoPod

\* A pod is never without the settings it mounts, except one that came back
\* under delete_vm in that way (delete_vm.go:28-41).
PodKeepsItsSettings ==
    \A a \in Agents : pods[a] # NoPod /\ configMaps[a] = NoConfigMap =>
        \E o \in Others : OtherOn(o, a) /\ window[o] \notin {{}, NotSeen}

\* When has_vm answered no, or get_disks found no pod and answered no disks,
\* the VM is gone for good, unless a recreatePod was between Delete and
\* Create at that moment (has_vm.go:34-43, get_disks.go:26-34).
AbsenceIsFinal ==
    \A o \in Others : result[o] \in {"no", "ok"} /\ window[o] = {} =>
        pods[ask[o].vm] = NoPod

\* The labels set_vm_metadata put in the pod are in every later pod of the
\* VM, unless a patch met a recreatePod that had read the pod before
\* (set_vm_metadata.go:38-58, volume_manager.go:98-103).
MetadataLostOnlyByOverlap ==
    \A a \in Agents : pods[a] # NoPod /\ pods[a].meta # label[a] => outrun[a]

-----------------------------------------------------------------------------
(* Safety when the director gave up on no call on the VM *)

Undisturbed(a) ==
    /\ \A p \in Procs : On(p, a) => outcome[p] = "ok" /\ p \notin abandoned
    /\ \A o \in Others : OtherOn(o, a) => ask[o].op # "delete" /\ o \notin abandoned

\* If every attach and detach succeeded, get_disks answers the disks in the
\* settings, except that it may leave out those whose claim is deleted; it
\* passes over such a claim and does not stop at it (get_disks.go:36-52).
DiskListIsRight ==
    \A o \in Others : result[o] = "running" /\ result'[o] = "ok" /\ ask[o].op = "disks" =>
        LET a == ask[o].vm IN
        Undisturbed(a) => /\ listed'[o] \subseteq configMaps[a].disks
                          /\ configMaps[a].disks \cap claims \subseteq listed'[o]

DiskListsAreRight == [][DiskListIsRight]_allVars
=============================================================================
