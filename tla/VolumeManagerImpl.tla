-------------------------- MODULE VolumeManagerImpl --------------------------
(***************************************************************************)
(* VolumeManager implements AttachedDisks when the director serialises the *)
(* calls on a VM.  recreatePod reads the pod first and submits its copy    *)
(* last, so what has to be shown is above all that the copy is still the   *)
(* pod it deletes: the machine is started with the disks it was stopped    *)
(* with, the one asked for apart, whatever failed in earlier calls.        *)
(***************************************************************************)
EXTENDS VolumeManager

CONSTANT Down    \* the machine of a VM that has no pod

ASSUME DownAssumption == \A disks \in SUBSET Disks : Down # disks

\* A machine runs with the disks that are both a volume of the pod and
\* mounted in the job's container.
DisksOf(pod) == {d \in Disks : pod.volumes[d] > 0 /\ pod.mounts[d] > 0}

machine  == [a \in Agents |-> IF pods[a] = NoPod THEN Down ELSE DisksOf(pods[a])]
settings == [a \in Agents |-> configMaps[a].disks]

\* pc names the request a call is at; what it has done are those before it.
progress == [p \in Procs |->
    IF pc[p] = "idle" /\ outcome[p] = "running" THEN "none"
    ELSE IF outcome[p] = "ok" THEN "ok"
    ELSE IF outcome[p] # "running" THEN "failed"
    ELSE IF pc[p] \in {"get_pod", "get_cm", "update_cm"} THEN "asked"
    ELSE IF pc[p] = "delete" THEN "recorded"
    ELSE IF pc[p] = "create" THEN "stopped" ELSE "started"]

\* Between Delete and Create only the call's copy holds the pod.
before == [p \in Procs |-> IF At(p, "create") THEN DisksOf(copy[p]) ELSE {}]

Promise == INSTANCE AttachedDisks
           WITH Calls <- Procs, VMs <- Agents, Requests <- Request, asked <- req

\* Seen from the director, attach_disk and detach_disk keep the promise of
\* AttachedDisks (36-124): no request of theirs, no failure and nothing the
\* kubelet does changes a VM's disks or settings in any other way.
ImplementsAttachedDisks == Promise!Spec
=============================================================================
