----------------------------- MODULE KubeObjects -----------------------------
(***************************************************************************)
(* The Kubernetes objects the CPI keeps a VM in, as far as the actions     *)
(* tell them apart, and the pure functions of actions/volume_manager.go    *)
(* over them.                                                              *)
(*                                                                         *)
(* A pod's volume list and the mount list of its "bosh-job" container are  *)
(* bags: how many entries are named "disk-"+d, for each disk d.  A count   *)
(* above one is a list with a duplicate, which addVolume can build and the *)
(* API server refuses.  The two volumes every pod has ("bosh-config" and   *)
(* "bosh-ephemeral") never change and are left out.                        *)
(*                                                                         *)
(* In every module, an operator whose name starts with Mut is not the      *)
(* code: it is the definition that follows it with one plausible mistake,  *)
(* kept to show which property would notice that mistake.                  *)
(***************************************************************************)
EXTENDS Naturals, Sequences

CONSTANTS
    Disks,      \* disk IDs: the suffix of a disk CID
    IPs,        \* addresses a pod can be given
    Creators,   \* who can have created a pod; stands for the pod's UID
    NoIP,       \* an empty address string
    Metas,      \* values of the label that stands for a pod's metadata
    NoMeta,     \* the label is not there
    NoPod       \* the answer of the server when no pod has the name

Address == IPs \cup {NoIP}

Bag == [Disks -> Nat]

Pod == [ uid     : Creators,
         volumes : Bag,                         \* Spec.Volumes
         mounts  : Bag,                         \* bosh-job's VolumeMounts
         meta    : Metas,                       \* a label set_vm_metadata sets
         ann     : Address,                     \* the ip-address annotation
         ip      : Address,                     \* Status.PodIP
         phase   : {"Pending", "Running"},      \* Status.Phase
         job     : {"waiting", "running", "ready"} ]  \* bosh-job's status

ASSUME NoIPAssumption  == NoIP \notin IPs
ASSUME MetasAssumption == NoMeta \in Metas
ASSUME NoPodAssumption == NoPod \notin Pod

Event == [type : {"ADDED", "MODIFIED", "DELETED"}, pod : Pod]

EmptyBag == [d \in Disks |-> 0]

\* An agent's pod as createPod submits it: no disk, no label but the agent's
\* identity, and the address of a static network in the annotation.
FreshPod(creator, ann) ==
    [ uid |-> creator, volumes |-> EmptyBag, mounts |-> EmptyBag,
      meta |-> NoMeta, ann |-> ann, ip |-> NoIP, phase |-> "Pending", job |-> "waiting" ]

-----------------------------------------------------------------------------
(* Functions of volume_manager.go *)

\* Appending to a list, whatever it holds, and taking the first match out of
\* it, if there is one.
OneMore(bag, d) == [bag EXCEPT ![d] = @ + 1]

MutOneLess(bag, d) == [bag EXCEPT ![d] = @ - 1]

OneLess(bag, d) == [bag EXCEPT ![d] = IF @ = 0 THEN 0 ELSE @ - 1]

AddVolume(pod, d) ==
    [pod EXCEPT !.volumes = OneMore(@, d), !.mounts = OneMore(@, d)]

MutRemoveVolume(pod, d) ==      \* the mount stays
    [pod EXCEPT !.volumes = OneLess(@, d)]

RemoveVolume(pod, d) ==
    [pod EXCEPT !.volumes = OneLess(@, d), !.mounts = OneLess(@, d)]

UpdateVolumes(op, pod, d) ==
    IF op = "Add" THEN AddVolume(pod, d) ELSE RemoveVolume(pod, d)

MutKeepAddress(pod) == [pod EXCEPT !.ann = pod.ip]

\* The annotation keeps the address the pod had, unless one is recorded.
KeepAddress(pod) ==
    [pod EXCEPT !.ann = IF @ = NoIP THEN pod.ip ELSE @]

IsAgentContainerRunning(pod) == pod.phase = "Running" /\ pod.job = "ready"

-----------------------------------------------------------------------------
(* The API server *)

\* Names are unique in a pod's volume list, paths in a container's mounts,
\* and a mount names a volume of the pod.
Admissible(pod) ==
    \A d \in Disks : pod.volumes[d] <= 1 /\ pod.mounts[d] <= pod.volumes[d]

\* What Create stores: a new object, with the metadata and spec sent to it.
Stored(pod, creator) ==
    [pod EXCEPT !.uid = creator, !.ip = NoIP, !.phase = "Pending",
                !.job = "waiting"]

\* What the kubelet may report next.  A started pod does not go back to
\* Pending; its job container may become ready and may lose readiness.
Reports(pod) ==
    LET report == [ ip  : IF pod.ip = NoIP THEN IPs ELSE {pod.ip},
                    job : {"running", "ready"} \ {pod.job} ]
    IN  { [pod EXCEPT !.ip = r.ip, !.phase = "Running", !.job = r.job] : r \in report }
=============================================================================
