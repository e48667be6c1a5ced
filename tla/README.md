# A TLA+ development of kubernetes-cpi

kubernetes-cpi is the program a BOSH director runs to keep its VMs and disks in
a Kubernetes cluster. Each run of `cpi` reads one request, performs one action
against the API server and exits (`cmd/cpi/main.go`). It keeps no state: what it
knows of a VM or a disk is the cloud ID it gave out and the objects it finds in
the cluster. This directory specifies those actions in TLA+, checks them with
TLC on small instances and proves the main results with TLAPS.

## 1. The system

| component | source | state | operations |
|---|---|---|---|
| attach_disk, detach_disk | `actions/volume_manager.go` | the pod `agent-<id>`, the `instance_settings` of the config map `agent-<id>` | recreatePod, updateConfigMapDisks, waitForPod |
| create_vm | `actions/create_vm.go` | namespace, config map, services, Ingresses, secrets, pod or Deployment | createNamespace ... waitForDeployment |
| delete_vm, has_vm | `actions/delete_vm.go`, `has_vm.go` | the same | deletePod, deleteServices, deleteConfigMap; FindVM |
| create_disk, delete_disk, has_disk, set_disk_metadata | the files of these names | the claim `disk-<guid>` | Create and waitForDisk; Delete; List; Get and Update |
| cloud IDs, contexts | `actions/util.go`, `kubecluster/provider.go`, `config/kubernetes.go` | the configuration, read afresh by every run | NewVMCID, ParseVMCID, ..., Provider.New |
| get_disks, set_vm_metadata | the files of these names | pod, claims | read; patch of the pod's labels |
| dispatch | `cpi/dispatch.go`, `cmd/cpi/main.go` | none | decode, call by reflection, encode |
| stemcells, info, agent settings, client | `actions/stemcell.go`, `info.go`, `agent/`, `kubecluster/client.go` | none | constants, document types, forwarding |

**How they interact.** Not by calls: two actions meet only in the cluster, and
through the director, which passes a cloud ID from the answer of one to the
request of another. create_vm makes the config map and the pod that attach_disk
and detach_disk read, delete and create again; create_disk makes the claim that
attach_disk only names in a pod.

**What is hard.** (a) An operation is a sequence of requests without a
transaction; the process, the connection or the server can fail at each, with
or without effect, and nothing is undone. (b) The director serialises calls on
a VM by a lock, but a call it gave up on may still be at work, and calls on
different VMs overlap. (c) The pod is deleted and created again from memory, so
between two requests the only copy of its definition is in a process. (d) Three
operations wait on a watch with a timer, and what they wait for may happen before
the watch is open, to another object with the same label, or never. (e) Objects
are found by name in one place and by label in another.

## 2. Modules

| module | what it is |
|---|---|
| `KubeObjects` | the pod as the actions see it, and the pure functions of `volume_manager.go` on it |
| `VolumeManager`, `MCVolumeManager` | attach_disk and detach_disk |
| `VolumeManagerProofs`, `VMRaceProofs` | theorems about it, whatever calls overlap |
| `AttachedDisks` | what these two promise a director that serialises them: an abstract specification |
| `VolumeManagerImpl` | the refinement mapping from `VolumeManager` to `AttachedDisks` |
| `VMSerialProofs` | theorems about `VolumeManager` when calls are serialised, and the refinement |
| `VMCalls`, `MCVMCalls` | delete_vm, has_vm, get_disks and set_vm_metadata composed with `VolumeManager` |
| `VMCallsProofs` | theorems about it |
| `VMLifecycle`, `MCVMLifecycle` | create_vm, delete_vm, has_vm |
| `VMLifecycleProofs` | theorems about it |
| `Disks`, `MCDisks` | create_disk, delete_disk, has_disk, set_disk_metadata |
| `DisksProofs` | theorems about it |
| `Contexts`, `MCContexts` | cloud IDs and the resolution of contexts |
| `ContextsProofs` | theorems about it |
| `Dispatch`, `MCDispatch` | `main` and the dispatch of a request by reflection |
| `DispatchProofs` | theorems about it |

In every module an operator whose name starts with `Mut` is the definition below
it with one plausible mistake. Nothing uses these; they record which property
notices which mistake.

### Correspondence with the code

A process of a model is a run of `cpi`: `pc[p]` is the request it is at,
`outcome[p]` how it ended, `req[p]` its arguments. Every request is one action,
since the server serialises requests on an object. Three kinds of failure are
possible at each: the server refuses (`Refused`, or a disjunct of the action),
the request is carried out but the answer is lost (`Answer`, `AnswerLost`, the
`"broken"` disjuncts), or it is not carried out, or the process dies (`Breaks`).

*VolumeManager.* `GetPod`, `GetConfigMap`, `UpdateConfigMap`, `DeletePod`,
`CreatePod`, `OpenWatch`, `ReadEvent`/`TimesOut` and `Sleep` are, in this order,
the requests and waits of `recreatePod` and its helpers. `copy[p]` is the Go
variable `pod`, `cm[p]` the variable `cm` with its resource version, `stream[p]`
the channel of the watch, `timer[p]` the timer. A watch delivers what happens
after the version `Create` returned, so a stream collects events from the Create
on, before `OpenWatch`. A pod's volumes and mounts are counts per disk. With a
grace period of zero a deleted pod is gone at once. Variables a call has no
more use for are reset (`Forgets`, `NoConfigMap`), so that states that differ only
in them are one. `latest` and `address` are history.

*AttachedDisks.* A VM is a machine, which runs with some disks or is down, and
settings. `machine` is the pod (its disks are those with a volume and a mount),
`settings` the disks in the config map, `progress` the requests behind `pc`, and
`before` the disks in `copy` while the pod does not exist. A VM can stay down:
a call that stopped the machine may fail, and then no later call succeeds on the
VM. That is the code's weak point, and the promise says it rather than hide it.

*VMCalls.* A second set of processes, with variables of their own, makes the
other four calls: `ask[o]` is the request, `place[o]` what it is at, `result[o]`
how it ended. The director makes a call only when it waits for none on the VM
(`Locked`); `GivesUp` makes it stop waiting for one that goes on. `window[o]`
remembers which calls were between Delete and Create when a call of `o` removed
the pod or found none, since those alone can still bring the pod back. `label[a]` is
what the last patch left and `outrun[a]` whether a patch came between the Get and
the Delete of a recreatePod. Metadata is one label key: the keys of a patch are
independent of each other.

*VMLifecycle.* `Plan(r)` is the list of objects create_vm makes for a request;
`Get`, `Create`, `CreateFails` go through it. `Props` is what cloud properties can
be: any list of services and Ingresses (`ServiceItem`) and of secrets
(`SecretItem`). An object is its kind, name and label. delete_vm is `DeletePod`, `ListServices`, `DeleteService` and
`DeleteConfigMap`. The order within the list of services is left open.

*Disks.* A claim is its labels, whether it is bound, and its version. The CID of
a claim is in `Known` once create_disk answered it; the director deletes and
tags only known disks. set_disk_metadata takes any valid value for any key, so the
metadata may have the GUID of another disk for `disk-id`. has_disk and the watch of
create_disk look by that label: `Seen` is what a watch with a label selector hears of
a claim that has, gets or loses the label, and `WatchersHear` sends it to every
create_disk that waits. `Relabelled(id)` and `GivenAway(id)` say that a
set_disk_metadata replaced a disk's own label, or wrote its GUID on another disk.

*Contexts.* `usable` and `current` are the configuration, `minted` the cloud IDs
given out. Strings are sequences of characters, because the question is where
they are cut. A configuration is any set of usable contexts with any
`current_context`. No code looks at names, so a context may have a colon in its
name, or be named by the empty string, and so may an ID: `BeforeColon` is what
becomes of such a name.

*Dispatch.* `Methods` are the signatures of the functions in main's switch,
`Switch`, `Convert`, `Call` and `Respond` what `Dispatch` and `main` do in turn. A
JSON value is its kind, or `"malformed"`. Every error before or after the call is a panic of
`main`, which prints no response. `Breaks` is a process that dies, or whose response
does not get out, at any point: after the call, what the action did stays done and
the director is not told.

## 3. Runs

| run | instance | shows |
|---|---|---|
| `VMRace` | 2 calls, 1 VM, 2 disks and one of another context, 2 addresses, overlapping | `WindowExclusive`, `UpdatesAreAtomic`, `IdleWatchIsRight`, `SuccessIsOwnPod`, `NoSilentLoss`, `NoForeignDisk` |
| `VMSerial` | 3 calls, 1 VM, 2 disks, one after the other | `DisagreeOnlyAfterFailure`, `AddressKept`, `ImplementsAttachedDisks` |
| `VMEnds` | 2 calls, overlapping, fair | `EveryCallEnds` |
| `VMCalls` | 3 calls on 1 VM out of 2 attach or detach and 2 others, one of which the director may give up on; 2 disks | `DeletedVMReturnsOnlyFromWindow`, `PodKeepsItsSettings`, `AbsenceIsFinal`, `MetadataLostOnlyByOverlap`, `DiskListsAreRight` |
| `LCSerial` | 3 calls, 2 VMs, 7 cloud properties, serialised per VM | `PodHasItsSettings`, `CreateIsComplete`, `DeleteIsComplete`, `DeleteIsNotRefused`, `DeletionIsolated` |
| `LCRace` | 3 calls, 2 VMs, 4 cloud properties, overlapping | `RefusalsHaveACause`, `SecretAdmitsOneVM` |
| `LCEnds` | 2 calls, fair | `EveryCallEnds` |
| `LCDeployed` | 1 VM with replicas, fair | `DeletedVMGoes` is **violated** |
| `Disks` | 3 calls, one old and one new disk, 4 metadata | `BindingIsNoticed`, `CreatedDiskIsBound`, `MetadataKeepsTheRest`, `DeletedStaysDeleted`, `HasDiskIsRight` |
| `DisksEnds` | 2 calls, fair | `EveryCallEnds` |
| `Contexts` | 4 context names, 2 IDs, 3 cloud IDs | `FindsItsContext`, `ContextsCompare` |
| `Dispatch` | 1 request: any method, up to 7 arguments of any kind | `CalledOnlyIfItFits` |

`VMRace`, `VMCalls`, `LCSerial`, `Disks`, `Contexts` and `Dispatch` also check
the type invariant of their module. Deadlock is not checked: when every process has made its call the system
is done.

**What the violation says.** In the counterexample a create_vm with `replicas`
answers success, a delete_vm of the same VM after it answers success, and the
Deployment and its pods stay, with no call at work. delete_vm deletes a pod named
`agent-<id>`, which does not exist then, takes NotFound for success and never looks
for a Deployment, while has_vm, which looks by label, says that the VM is there. The
property asks only about a VM that a create_vm made and for which the last call is a
delete_vm that succeeded; it holds of a delete_vm that also removes the Deployment
and its pods. `integration/vm/delete_vm_test.go:96-114` expects no pod to be left
after delete_vm, of a VM made without `replicas`; `create_vm_test.go:279-292` makes
one with them, and removes it with kubectl (262). No test puts the two together.

**What `Disks` and `Contexts` say of names.** set_disk_metadata does not spare the
`disk-id` label nor refuse another disk's GUID. `HasDiskIsRight` and
`CreatedDiskIsBound` state what follows: has_disk says no of a disk whose label was
replaced, says yes of a deleted disk whose GUID was given to another, and a
create_disk may take the binding of that other claim for its own; nothing else makes
them wrong. A context whose name has a colon is cut in two: `FindsItsContext` says
its VMs and disks are looked up in the context named by what is before the colon, and
`ContextsCompare` that attach_disk cannot tell two contexts apart that agree up to a
colon.

**What `VMCalls` says.** A call the director gave up on can undo a later one.
The properties say exactly how: a VM that delete_vm removed comes back, without
settings, only when a recreatePod was between its own Delete and Create at that
moment, and an answer of has_vm or get_disks that there is nothing is wrong only in that window;
metadata is lost only when the patch came between the Get and the Delete of a
recreatePod. A recreatePod that holds an older copy and has yet to delete the pod
does no harm, because its Delete fails when there is nothing to delete.

**Bounds.** Two calls are enough to race in `VolumeManager`: its hazards are
between one call and one intruder, and what a third adds is the state an
earlier one left behind, for which the serialised run has three (one fails, one
repairs, one disturbs). `MaxEvents` stops the kubelet while a watch has that
many undelivered events: three in the race (running, ready, unready again),
one where events are not the question. In `VMCalls`, `MaxAbandoned` and
`MaxCalls` allow one call that outlives the director's patience and two that follow
it, so a deletion and a look at what came of it. Four more bounds leave out steps
no property there is about: a claim goes only while a get_disks looks at claims, the
kubelet reports only while a call waits for it, the director gives up on a call only
while it has another to make, and no VM starts with a static address. In
`VMLifecycle` three calls allow
create, delete, create on one VM, and a second VM interfering with either.
The cloud properties share one service name in different roles, use every kind
of object, name one secret twice, and fail before the first request (no network),
in the middle (an unreadable secret) and last (invalid replicas). In `Disks`, `MaxVersion` lets
the binder annotate a claim and bind it, around one update of its labels; the metadata
sets one tag, replaces the disk-id label, gives the disk-id of the disk still to be
created, or has a value Kubernetes rejects. In `Contexts`, one name is the beginning
of another, one has a colon in it and one is empty, one name is asked for that no
configuration defines, and one ID has a colon. In
`Dispatch`, seven arguments are one more than any method takes.
Processes, disks and addresses are interchangeable, and safety runs use that
symmetry; runs with liveness use none.

**Fairness.** A running process takes its next step, and its timer fires
(`WF` of `Step` and of `TimerFires`). `TimesOut` is weakly fair by itself
because Go's `select` chooses at random among ready cases: a channel that always
has an event does not hide the fired timer for ever. Nothing is assumed of the
director, the kubelet, the binder, the Deployment's controller or the network.
The exception is a request that never returns, which fairness of `Step` rules
out: client-go's requests are taken to return or to fail.

**Assumptions about Kubernetes.** A Get, List, Create, Update or Delete is
atomic; Update carries the version read and is refused when it is not current;
Create is refused when the name is taken; a pod with two volumes of one name is
refused; a watch delivers every event of the selected objects after its
version, in order, or ends, and hears of an object that gets or loses the label as
of one that comes or goes; a Patch is applied to whatever pod has the name, and is no event
when it changes nothing.

## 4. Proofs

Every safety property that a run checks is also a theorem, for every value of the
constants the modules' assumptions allow: any number of processes, VMs, disks,
addresses, contexts, names and IDs, any cloud properties, and any bound. No
theorem needs more than those assumptions, except that those about a director that
makes one call at a time on a VM have `ASSUME Serialised`, which is the constant
that makes the specification say so. Each invariant below was first checked by TLC
on the instances of section 3.

**`VolumeManagerProofs`**, about calls that overlap
- `TypeCorrect`: `Spec => []TypeOK`. `TypeOK` is inductive because it says that a
  call past its Get has read a pod. The lemmas say that taking a disk out of a
  pod's lists, putting it in and recording the address make a pod again.
- `WindowIsExclusive`. Inductive with `TypeOK`: a call enters the window only by
  deleting a pod, so nobody else is in it, and a pod appears only by the Create of
  the one that is.
- `ConfigMapUpdatesAreAtomic`. The property is about a step; it needs
  `VersionInv`, that a call which holds a config map of the current version holds
  its current content, which is inductive because every change raises the version.

**`VMRaceProofs`**, the same calls
- `NoDiskIsForeign`. The contexts are compared before the first request, so
  `ForeignInv` carries the result through a call: a call at work is for a disk of
  its VM's context, and what it has read names no other.
- `NoLossIsSilent`. By `Sound`: every pod in the cluster, and every copy, has no
  duplicate, because the server admitted it. `ResubmittedAdmissible` then says
  what a refused Create means: the disk to attach was there.
- `IdleWatchesAreRight` and `SuccessesAreOwnPods`. Both from `StreamInv`, which says
  what a waiting call has yet to read. Either (`Mine`) all of it are changes of the
  pod it created, with the disk as asked, and the last of them is what the pod is
  now; or (`Replaced`) there is a deletion in it, and what comes before that are such
  changes. In the second case the call ends with an error before it sees a foreign
  pod. One lemma each says how an event keeps `Mine`, turns it into `Replaced`, keeps
  `Replaced`, and how reading on keeps both.

**`VMSerialProofs`**, when calls on a VM are serialised
- `AddressesAreKept` and `SuccessMeansAgreement`, from `SerialInv`: there is one call
  at a time, until its Delete its copy is the pod, from then until its Create its
  copy has the VM's address and the settled disks, and from the Update on the
  settings are as asked. The properties alone are not inductive: what has to be
  known is the copy from which the pod will be made again.
- `PromiseIsKept`: `Spec => ImplementsAttachedDisks`. Every step of a call is mapped
  to one step of `AttachedDisks` or a stutter (`MoveImplements`, one case per
  request); a step that ends a call in any other way than success is a failure the
  abstract specification admits at that point (`EndFails`).

**`VMCallsProofs`**, all calls on a VM, any number of which the director gave up on
- `CallsTypeCorrect`, with `AskInv`: where a call is fits what it was asked for.
- `DeletionsHold` and `AbsencesHold`, from `GoneInv`: after a call removed the pod or
  found none while the window was empty there is no pod and the window stays empty,
  for it is entered only by deleting a pod.
- `SettingsOutliveThePod`, from `SettingsInv`: a config map is missing only if a
  delete_vm is past its pod.
- `MetadataIsLostByOverlapOnly`, from `MetaInv`: unless a patch outran a copy, the
  pod and every copy a pod may be made of have the label last patched.
- `AnsweredListsAreRight`: `CallsSpec => DiskListsAreRight`, from `QuietInv`. A VM is
  `Quiet` when every call on it is waited for, has not failed and is no delete_vm. A
  quiet VM was quiet before, and the director's lock then makes calls on it one at a
  time, although it may have given up on any number of calls on other VMs; so pod
  and settings agree but between an Update and the Create that follows, what a call
  read stays true, and a get_disks in progress has found, or has yet to look up, each
  disk of the settings whose claim is there.
- `WindowsStayExclusive`, `ForeignDisksStayOut`, `WatchesStayRight`,
  `SuccessesStayOwnPods`: what is proved of overlapping attach and detach calls in
  `VolumeManagerProofs` and `VMRaceProofs` also holds next to the other calls. The
  same invariants are preserved, since delete_vm takes away only and a patch changes
  a label and is one more event. `NoSilentLoss` is not among these: a VM is lost to
  delete_vm as well.

**`VMLifecycleProofs`**
- `LifecycleTypeCorrect`, whatever calls overlap: types, and `AnyInv`. A call is
  inside the plan of its request (`PlanInv`, which rests on `PlanShape`, what kinds
  of objects come where in a plan of any length), names are unique, and every object
  is in the plan of a create_vm that got that far (`Origins`).
- `RefusalsAreCaused`. The proof attempt showed a case the property had not: a
  create_vm whose own cloud properties name a secret or Ingress twice is refused the
  second. The code has it (an Ingress is created without a look, `create_vm.go:302-314`,
  and a secret that is there is refused, `351-356`), so the property names it now and
  `SecretTwice` puts it in the run `LCRace`.
- `SecretsAdmitOneVM`, from `SecretInv`: a secret a create_vm has behind it exists
  and no other create_vm has it behind it. Nothing deletes secrets.
- Serialised: `PodsHaveSettings`, `CreatesAreComplete`, `DeletesAreComplete`,
  `DeletesAreNotRefused`, `DeletionsAreIsolated`, from `SerialInv`: the call at work
  on a VM is the last one made on it; what a create_vm has behind it is there, or is a
  service of another VM, which stays until a delete_vm is called on that VM
  (`MadeInv`; `OthersService` is stable, since delete_vm takes away only services
  with its own VM's label); what a delete_vm has behind it is gone,
  and what it has yet to delete is there with its VM's label (`GoneInv`).

**`DisksProofs`**
- `DisksTypeCorrect`; that labels stay labels is the check of the metadata before
  the Update.
- `DiskStaysDeleted`, by `DrawnOnce`: no two create_disk calls have one GUID, and a
  delete_disk is for a disk the director knows of, whose create_disk is over. So
  nobody is about to create what was deleted.
- `MetadataIsKept`, by `CopyIsCurrent`: a copy with the version of the claim is
  equal to it.
- `AnswersAreRight`: `Spec => HasDiskIsRight`, by `LabelInv`: a claim's disk-id label
  is its own GUID, or a set_disk_metadata replaced it, and if it is the GUID of another
  disk then that was given away. Nothing is assumed of the metadata's values.
- `BindingsAreNoticed` and `CreatedDisksAreBound`, by `WatchInv`: of a waiting
  create_disk the claim is there under its own label, a binding is among its events
  if it is bound, and none is if it is not, unless its disk-id was given away. The step
  of any writer is split by what `Seen` hears of the claim before and after it.

**`DispatchProofs`**
- `OnlyFittingCalls` and `DispatchTypeCorrect`, from an invariant which says that
  every argument converted so far fits the parameter at its place.

**`ContextsProofs`**
- `CloudIDsAreStable`, `ComparisonsAreExact` and `ContextsTypeCorrect`, by the
  invariant `Readable` (every minted cloud ID is cut to what it was made of, or to what
  is before the colon of its context's name) and the lemma `RoundTrip`, what cutting such a string at its first colon gives back: both
  parts, also when the ID has colons, unless the context has one, and then what is
  before it. That a string with a colon has a first one (`FirstColonIsFirst`) rests on
  every nonempty set of natural numbers having a least one. Nothing is assumed of names.

**Only model-checked:** the liveness properties, `EveryCallEnds` of `VolumeManager`,
`VMLifecycle` and `Disks` (and the violated `DeletedVMGoes`): they need fairness and
`ENABLED`, which the proof system does not handle.

## 5. Not modelled

- *Contents of objects* other than those named above: images, resources, ports,
  quantities. Nothing reads them back.
- *kubecluster/client.go, stemcells, info, the document types*: no state.
- *Deployments and services in `VMCalls`*: its VMs are pods, as attach_disk needs
  them to be; `VMLifecycle` has both.
- *Metadata that replaces the agent-id label*, by which the pod is found: the
  director sends no such key.
- *A claim whose disk-id label was replaced* is in `Disks`, not in `VMCalls`, where
  get_disks reads the label of every claim.
- *Vendored code, fakes, integration helpers*: Kubernetes is modelled from how
  `actions` uses it.

## 6. Plan

1. Done: `KubeObjects`, `VolumeManager` and its first theorems; `VMLifecycle`;
   `Disks`; `Contexts`, with their runs.
2. Done: `VMCalls`, `AttachedDisks` with its refinement, `Dispatch`.
3. Done: every safety property of the runs, and that `VolumeManager` implements
   `AttachedDisks`, as theorems.
4. Left: abstract specifications of the disks (a claim is absent, pending,
   bound or deleted) and of a VM's family of objects, which `Disks` and
   `VMLifecycle` would implement as `VolumeManager` does `AttachedDisks`; which
   promises of section 4 for serialised calls survive next to calls on other
   VMs and delete_vm.

Line numbers of every definition are in `PROJECT.json` under `map`; the things
that are hard to test in this code, and the properties that cover them, are
there under `hazards`.
