----------------------------- MODULE VMRaceProofs -----------------------------
(***************************************************************************)
(* What holds however many calls are at work on a VM at once: no disk of   *)
(* another context gets into it, and it is left without a pod only as the  *)
(* two known ways allow.                                                   *)
(***************************************************************************)
EXTENDS VolumeManagerProofs

-----------------------------------------------------------------------------
(* No disk of another context.  The check of the contexts is made once,    *)
(* before the first request (volume_manager.go:36-41 and 56-61); what has  *)
(* to be shown is that it holds for all that a call does afterwards from   *)
(* the pod and the config map it read, whatever other calls do to these in *)
(* between.                                                                *)

Own(a, pod) == \A d \in Disks : ContextOf[a] # ContextOf[d] => pod.volumes[d] = 0

OwnDisks(a, disks) == \A d \in Disks : ContextOf[a] # ContextOf[d] => d \notin disks

\* The objects of a VM, and what a call has read of them.
Clean(a) == OwnDisks(a, configMaps[a].disks) /\ (pods[a] # NoPod => Own(a, pods[a]))

CleanCall(p) ==
    /\ SameContext(req[p])
    /\ OwnDisks(req[p].vm, cm[p].disks)
    /\ copy[p] # NoPod => Own(req[p].vm, copy[p])

ForeignInv ==
    /\ \A a \in Agents : Clean(a)
    /\ \A p \in Procs : InProgress(p) => CleanCall(p)
    /\ \A p \in Procs : pc[p] = "idle" => cm[p] = NoConfigMap /\ copy[p] = NoPod

-----------------------------------------------------------------------------
\* Putting a disk in or taking it out leaves the other disks alone.
LEMMA ResubmittedOwn ==
    ASSUME NEW pod \in Pod, NEW r \in Request, NEW c \in Creators,
           SameContext(r), Own(r.vm, pod)
    PROVE  Own(r.vm, Stored(KeepAddress(UpdateVolumes(r.op, pod, r.disk)), c))
<1> SUFFICES ASSUME NEW d \in Disks, ContextOf[r.vm] # ContextOf[d]
             PROVE  Stored(KeepAddress(UpdateVolumes(r.op, pod, r.disk)), c).volumes[d] = 0
  BY DEF Own
<1>1. d # r.disk /\ pod.volumes[d] = 0 /\ pod.volumes \in Bag
  BY DEF SameContext, Own, Pod
<1>2. /\ OneMore(pod.volumes, r.disk)[d] = 0
      /\ OneLess(pod.volumes, r.disk)[d] = 0
  BY <1>1 DEF OneMore, OneLess, Bag
<1>3. UpdateVolumes(r.op, pod, r.disk).volumes[d] = 0
  BY <1>2 DEF UpdateVolumes, AddVolume, RemoveVolume, Pod
<1>4. UpdateVolumes(r.op, pod, r.disk) \in Pod
      /\ KeepAddress(UpdateVolumes(r.op, pod, r.disk)) \in Pod
  BY UpdatedType, ResubmittedType DEF Request
<1>5. KeepAddress(UpdateVolumes(r.op, pod, r.disk)).volumes
        = UpdateVolumes(r.op, pod, r.disk).volumes
  BY <1>4 DEF KeepAddress, Pod
<1>6. Stored(KeepAddress(UpdateVolumes(r.op, pod, r.disk)), c).volumes
        = KeepAddress(UpdateVolumes(r.op, pod, r.disk)).volumes
  BY <1>4 DEF Stored, Pod
<1> QED
  BY <1>3, <1>5, <1>6

LEMMA ReportsOwn ==
    ASSUME NEW a \in Agents, NEW pod \in Pod, Own(a, pod), NEW new \in Reports(pod)
    PROVE  Own(a, new)
BY ReportsKeep DEF Own

LEMMA NothingIsOwn == \A a : OwnDisks(a, NoConfigMap.disks)
  BY DEF OwnDisks, NoConfigMap

\* A step that only removes pods and only forgets what calls have read.
LEMMA ForeignFrame ==
    ASSUME ForeignInv,
           \A a \in Agents : pods'[a] \in {pods[a], NoPod},
           configMaps' = configMaps,
           \A p \in Procs : InProgress(p)' =>
                /\ InProgress(p) /\ req'[p] = req[p]
                /\ cm'[p] \in {cm[p], NoConfigMap} /\ copy'[p] \in {copy[p], NoPod},
           \A p \in Procs : pc'[p] = "idle" =>
                pc[p] = "idle" /\ cm'[p] = cm[p] /\ copy'[p] = copy[p]
    PROVE  ForeignInv'
<1>1. \A a \in Agents : Clean(a)'
  BY DEF ForeignInv, Clean
<1>2. \A p \in Procs : InProgress(p)' => CleanCall(p)'
  <2> SUFFICES ASSUME NEW p \in Procs, InProgress(p)'
               PROVE  CleanCall(p)'
    OBVIOUS
  <2>1. CleanCall(p) /\ req'[p] = req[p]
        /\ cm'[p] \in {cm[p], NoConfigMap} /\ copy'[p] \in {copy[p], NoPod}
    BY DEF ForeignInv
  <2> QED
    BY <2>1, NothingIsOwn DEF CleanCall
<1>3. \A p \in Procs : pc'[p] = "idle" => cm'[p] = NoConfigMap /\ copy'[p] = NoPod
  BY DEF ForeignInv
<1> QED
  BY <1>1, <1>2, <1>3 DEF ForeignInv

LEMMA InitForeign == Init => ForeignInv
<1> SUFFICES ASSUME Init PROVE ForeignInv
  OBVIOUS
<1>1. \A a \in Agents : Clean(a)
  BY DEF Init, Clean, Own, OwnDisks, FreshPod, EmptyBag
<1> QED
  BY <1>1 DEF Init, ForeignInv, InProgress

LEMMA NextForeign == TypeOK /\ ForeignInv /\ [Next]_vars => ForeignInv'
<1> SUFFICES ASSUME TypeOK, ForeignInv, [Next]_vars
             PROVE  ForeignInv'
  OBVIOUS
<1> USE DEF At, Goto, Ends, cluster, history
<1>1. ASSUME NEW p \in Procs, Begin(p)
      PROVE  ForeignInv'
  <2>1. PICK r \in Request :
          /\ req' = [req EXCEPT ![p] = r]
          /\ pc' = [pc EXCEPT ![p] = "get_pod"]
          /\ \/ SameContext(r) /\ outcome' = outcome
             \/ outcome' = [outcome EXCEPT ![p] = "mismatch"]
          /\ pc[p] = "idle" /\ UNCHANGED <<pods, configMaps, copy, cm>>
    BY <1>1 DEF Begin
  <2>2. \A a \in Agents : Clean(a)'
    BY <2>1 DEF ForeignInv, Clean
  <2>3. ASSUME NEW q \in Procs, InProgress(q)'
        PROVE  CleanCall(q)'
    <3>1. CASE q = p
      <4>1. SameContext(r) /\ req'[p] = r
        BY <2>1, <2>3, <3>1 DEF InProgress, TypeOK
      <4>2. cm'[p] = NoConfigMap /\ copy'[p] = NoPod
        BY <2>1 DEF ForeignInv
      <4> QED
        BY <3>1, <4>1, <4>2, NothingIsOwn DEF CleanCall
    <3>2. CASE q # p
      <4>1. InProgress(q) /\ req'[q] = req[q] /\ cm'[q] = cm[q] /\ copy'[q] = copy[q]
        BY <2>1, <2>3, <3>2 DEF InProgress, TypeOK
      <4> QED
        BY <4>1 DEF ForeignInv, CleanCall
    <3> QED
      BY <3>1, <3>2
  <2>4. \A q \in Procs : pc'[q] = "idle" => cm'[q] = NoConfigMap /\ copy'[q] = NoPod
    BY <2>1 DEF ForeignInv, TypeOK
  <2> QED
    BY <2>2, <2>3, <2>4 DEF ForeignInv
<1>2. ASSUME NEW p \in Procs, GetPod(p)
      PROVE  ForeignInv'
  <2>1. /\ copy' = [copy EXCEPT ![p] = pods[req[p].vm]]
        /\ pc' = [pc EXCEPT ![p] = "get_cm"]
        /\ UNCHANGED <<pods, configMaps, req, cm, outcome>>
        /\ pc[p] = "get_pod" /\ outcome[p] = "running" /\ req[p].vm \in Agents
    BY <1>2 DEF GetPod, TypeOK, Request
  <2>2. \A a \in Agents : Clean(a)'
    BY <2>1 DEF ForeignInv, Clean
  <2>3. \A q \in Procs : InProgress(q)' => CleanCall(q)'
    BY <2>1 DEF ForeignInv, Clean, CleanCall, InProgress, TypeOK
  <2>4. \A q \in Procs : pc'[q] = "idle" => cm'[q] = NoConfigMap /\ copy'[q] = NoPod
    BY <2>1 DEF ForeignInv, TypeOK
  <2> QED
    BY <2>2, <2>3, <2>4 DEF ForeignInv
<1>3. ASSUME NEW p \in Procs, GetConfigMap(p)
      PROVE  ForeignInv'
  <2>1. /\ cm' = [cm EXCEPT ![p] = configMaps[req[p].vm]]
        /\ pc' = [pc EXCEPT ![p] = "update_cm"]
        /\ UNCHANGED <<pods, configMaps, req, copy, outcome>>
        /\ pc[p] = "get_cm" /\ outcome[p] = "running" /\ req[p].vm \in Agents
    BY <1>3 DEF GetConfigMap, TypeOK, Request
  <2>2. \A a \in Agents : Clean(a)'
    BY <2>1 DEF ForeignInv, Clean
  <2>3. \A q \in Procs : InProgress(q)' => CleanCall(q)'
    BY <2>1 DEF ForeignInv, Clean, CleanCall, InProgress, TypeOK
  <2>4. \A q \in Procs : pc'[q] = "idle" => cm'[q] = NoConfigMap /\ copy'[q] = NoPod
    BY <2>1 DEF ForeignInv, TypeOK
  <2> QED
    BY <2>2, <2>3, <2>4 DEF ForeignInv
<1>4. ASSUME NEW p \in Procs, UpdateConfigMap(p)
      PROVE  ForeignInv'
  <2> DEFINE a == req[p].vm
             new == [disks |-> Record(req[p], cm[p].disks), rv |-> configMaps[a].rv + 1]
  <2>1. /\ configMaps' = [configMaps EXCEPT ![a] = new]
        /\ cm' = [cm EXCEPT ![p] = NoConfigMap]
        /\ UNCHANGED <<pods, req>>
        /\ pc[p] = "update_cm" /\ outcome[p] = "running"
        /\ req[p] \in Request
        /\ Answer(p, "delete")
    BY <1>4 DEF UpdateConfigMap, TypeOK
  <2>2. OwnDisks(a, new.disks)
    <3>1. SameContext(req[p]) /\ OwnDisks(a, cm[p].disks)
      BY <2>1 DEF ForeignInv, CleanCall, InProgress
    <3> QED
      BY <3>1 DEF OwnDisks, Record, SameContext
  <2>3. \A b \in Agents : Clean(b)'
    <3> SUFFICES ASSUME NEW b \in Agents
                 PROVE  Clean(b)'
      OBVIOUS
    <3>1. configMaps'[b] = (IF b = a THEN new ELSE configMaps[b]) /\ pods'[b] = pods[b]
      BY <2>1 DEF TypeOK
    <3> HIDE DEF new
    <3> QED
      BY <2>2, <3>1 DEF ForeignInv, Clean
  <2>4. /\ \A q \in Procs : InProgress(q)' =>
             /\ InProgress(q) /\ req'[q] = req[q]
             /\ cm'[q] \in {cm[q], NoConfigMap} /\ copy'[q] \in {copy[q], NoPod}
        /\ \A q \in Procs : pc'[q] = "idle" =>
             pc[q] = "idle" /\ cm'[q] = cm[q] /\ copy'[q] = copy[q]
    BY <2>1 DEF Answer, Forgets, InProgress, TypeOK
  <2>5. \A q \in Procs : InProgress(q)' => CleanCall(q)'
    BY <2>4, NothingIsOwn DEF ForeignInv, CleanCall
  <2>6. \A q \in Procs : pc'[q] = "idle" => cm'[q] = NoConfigMap /\ copy'[q] = NoPod
    BY <2>4 DEF ForeignInv
  <2> QED
    BY <2>3, <2>5, <2>6 DEF ForeignInv
<1>5. ASSUME NEW p \in Procs, CreatePod(p)
      PROVE  ForeignInv'
  <2> DEFINE a == req[p].vm
             new == Stored(Resubmitted(p), p)
  <2>1. /\ pods' = [pods EXCEPT ![a] = new]
        /\ UNCHANGED <<configMaps, req, cm>>
        /\ pc[p] = "create" /\ outcome[p] = "running" /\ InProgress(p)
        /\ req[p] \in Request /\ copy[p] \in Pod
        /\ copy' = [copy EXCEPT ![p] = NoPod]
        /\ \/ pc' = [pc EXCEPT ![p] = "watch"] /\ outcome' = outcome
           \/ pc' = pc /\ outcome' = [outcome EXCEPT ![p] = "broken"]
    BY <1>5 DEF CreatePod, Forgets, InProgress, TypeOK
  <2>2. Own(a, new)
    <3>1. SameContext(req[p]) /\ Own(a, copy[p])
      BY <2>1, NoPodAssumption DEF ForeignInv, CleanCall
    <3> QED
      BY <2>1, <3>1, ResubmittedOwn, CreatorsAssumption DEF Resubmitted
  <2>3. \A b \in Agents : Clean(b)'
    <3> SUFFICES ASSUME NEW b \in Agents
                 PROVE  Clean(b)'
      OBVIOUS
    <3>1. pods'[b] = (IF b = a THEN new ELSE pods[b]) /\ configMaps'[b] = configMaps[b]
      BY <2>1 DEF TypeOK
    <3> HIDE DEF new
    <3> QED
      BY <2>2, <3>1 DEF ForeignInv, Clean
  <2>4. /\ \A q \in Procs : InProgress(q)' =>
             /\ InProgress(q) /\ req'[q] = req[q]
             /\ cm'[q] = cm[q] /\ copy'[q] \in {copy[q], NoPod}
        /\ \A q \in Procs : pc'[q] = "idle" =>
             pc[q] = "idle" /\ cm'[q] = cm[q] /\ copy'[q] = copy[q]
    BY <2>1 DEF InProgress, TypeOK
  <2>5. \A q \in Procs : InProgress(q)' => CleanCall(q)'
    BY <2>4 DEF ForeignInv, CleanCall
  <2>6. \A q \in Procs : pc'[q] = "idle" => cm'[q] = NoConfigMap /\ copy'[q] = NoPod
    BY <2>4 DEF ForeignInv
  <2> QED
    BY <2>3, <2>5, <2>6 DEF ForeignInv
<1>6. ASSUME NEW a \in Agents, KubeletReports(a)
      PROVE  ForeignInv'
  <2>1. PICK new \in Reports(pods[a]) :
          /\ pods[a] # NoPod /\ pods' = [pods EXCEPT ![a] = new]
          /\ UNCHANGED <<configMaps, req, pc, copy, cm, outcome>>
    BY <1>6 DEF KubeletReports
  <2>2. Own(a, new)
    BY <2>1, ReportsOwn DEF ForeignInv, Clean, TypeOK
  <2>3. \A b \in Agents : Clean(b)'
    BY <2>1, <2>2 DEF ForeignInv, Clean, TypeOK
  <2>4. \A q \in Procs : InProgress(q)' => CleanCall(q)'
    BY <2>1 DEF ForeignInv, CleanCall, InProgress
  <2> QED
    BY <2>1, <2>3, <2>4 DEF ForeignInv
<1>7. ASSUME NEW p \in Procs, DeletePod(p)
      PROVE  ForeignInv'
  <2>1. /\ pods' = [pods EXCEPT ![req[p].vm] = NoPod]
        /\ UNCHANGED <<configMaps, req, cm>>
        /\ pc[p] = "delete" /\ outcome[p] = "running" /\ Answer(p, "create")
    BY <1>7 DEF DeletePod
  <2> QED
    BY <2>1, ForeignFrame DEF Answer, Forgets, InProgress, TypeOK
<1>8. ASSUME NEW p \in Procs, OpenWatch(p) \/ ReadEvent(p) \/ Sleep(p) \/ TimesOut(p)
      PROVE  ForeignInv'
  <2>1. /\ UNCHANGED <<pods, configMaps, req, cm, copy>>
        /\ pc[p] \in {"watch", "wait", "sleep"} /\ outcome[p] = "running"
        /\ \A q \in Procs : q # p => pc'[q] = pc[q] /\ outcome'[q] = outcome[q]
        /\ pc'[p] # "idle"
    BY <1>8 DEF OpenWatch, ReadEvent, Sleep, TimesOut, TypeOK
  <2> QED
    BY <2>1, ForeignFrame DEF InProgress
<1>9. ASSUME NEW p \in Procs, Refused(p) \/ Breaks(p)
      PROVE  ForeignInv'
  <2>1. /\ UNCHANGED <<pods, configMaps, req, pc>>
        /\ InProgress(p)
        /\ outcome' \in {[outcome EXCEPT ![p] = "refused"], [outcome EXCEPT ![p] = "broken"]}
        /\ cm' = [cm EXCEPT ![p] = NoConfigMap]
        /\ copy' = copy \/ copy' = [copy EXCEPT ![p] = NoPod]
    BY <1>9 DEF Refused, Breaks, Forgets
  <2> QED
    BY <2>1, ForeignFrame DEF InProgress, TypeOK
<1>10. ASSUME NEW p \in Procs, TimerFires(p)
       PROVE  ForeignInv'
  BY <1>10, ForeignFrame DEF TimerFires, InProgress
<1>11. CASE UNCHANGED vars
  BY <1>11, ForeignFrame DEF vars, InProgress
<1> QED
  BY <1>1, <1>2, <1>3, <1>4, <1>5, <1>6, <1>7, <1>8, <1>9, <1>10, <1>11 DEF Next, Step

\* No pod and no settings ever name a disk of another context, with any number
\* of calls at work on a VM at once (volume_manager.go:36-41, 56-61).
THEOREM NoDiskIsForeign == Spec => []NoForeignDisk
<1>1. ForeignInv => NoForeignDisk
  BY DEF ForeignInv, Clean, Own, OwnDisks, NoForeignDisk
<1> QED
  BY <1>1, InitForeign, NextForeign, TypeCorrect, PTL DEF Spec

-----------------------------------------------------------------------------
(* A VM is not lost silently.  Every stored pod is one the server admitted,  *)
(* so a call that reads it can be refused its Create for one reason only.    *)

Sound ==
    /\ \A a \in Agents : pods[a] # NoPod => Admissible(pods[a])
    /\ \A p \in Procs : copy[p] # NoPod => Admissible(copy[p])

Loses(p, a) == /\ pc[p] # "idle" /\ req[p].vm = a
               /\ At(p, "create") \/ DiedInWindow(p) \/ AttachedTwice(p)

\* Of a pod without duplicates recreatePod makes another one (166-214), except
\* by adding a disk the pod has.
LEMMA ResubmittedAdmissible ==
    ASSUME NEW pod \in Pod, NEW r \in Request, Admissible(pod),
           ~Admissible(KeepAddress(UpdateVolumes(r.op, pod, r.disk)))
    PROVE  r.op = "Add" /\ pod.volumes[r.disk] = 1
<1> DEFINE new == UpdateVolumes(r.op, pod, r.disk)
<1>1. pod.volumes \in Bag /\ pod.mounts \in Bag /\ r.disk \in Disks /\ r.op \in {"Add", "Remove"}
  BY DEF Pod, Request
<1>2. new \in Pod
  BY <1>1, UpdatedType
<1>3. KeepAddress(new).volumes = new.volumes /\ KeepAddress(new).mounts = new.mounts
  BY <1>2 DEF KeepAddress, Pod
<1>4. ~Admissible(new)
  BY <1>3 DEF Admissible
<1>5. CASE r.op = "Remove"
  <2>1. /\ new.volumes = OneLess(pod.volumes, r.disk)
        /\ new.mounts = OneLess(pod.mounts, r.disk)
    BY <1>5 DEF UpdateVolumes, RemoveVolume, Pod
  <2>2. ASSUME NEW d \in Disks
        PROVE  new.volumes[d] <= 1 /\ new.mounts[d] <= new.volumes[d]
    <3>1. /\ pod.volumes[d] \in Nat /\ pod.mounts[d] \in Nat
          /\ pod.volumes[d] <= 1 /\ pod.mounts[d] <= pod.volumes[d]
      BY <1>1 DEF Bag, Admissible
    <3>2. CASE d = r.disk
      BY <1>1, <2>1, <3>1, <3>2 DEF OneLess, Bag
    <3>3. CASE d # r.disk
      BY <1>1, <2>1, <3>1, <3>3 DEF OneLess, Bag
    <3> QED
      BY <3>2, <3>3
  <2> QED
    BY <1>4, <2>2 DEF Admissible
<1>6. CASE r.op = "Add"
  <2>1. /\ new.volumes = OneMore(pod.volumes, r.disk)
        /\ new.mounts = OneMore(pod.mounts, r.disk)
    BY <1>6 DEF UpdateVolumes, AddVolume, Pod
  <2>2. PICK d \in Disks : ~(new.volumes[d] <= 1 /\ new.mounts[d] <= new.volumes[d])
    BY <1>4 DEF Admissible
  <2>3. /\ pod.volumes[d] \in Nat /\ pod.mounts[d] \in Nat
        /\ pod.volumes[d] <= 1 /\ pod.mounts[d] <= pod.volumes[d]
    BY <1>1 DEF Bag, Admissible
  <2>4. d = r.disk
    BY <1>1, <2>1, <2>2, <2>3 DEF OneMore, Bag
  <2>5. new.volumes[d] = pod.volumes[d] + 1 /\ new.mounts[d] = pod.mounts[d] + 1
    BY <1>1, <2>1, <2>4 DEF OneMore, Bag
  <2> QED
    BY <1>6, <2>2, <2>3, <2>4, <2>5
<1> QED
  BY <1>1, <1>5, <1>6

LEMMA StoredAdmissible ==
    ASSUME NEW pod \in Pod, NEW c, Admissible(pod)
    PROVE  Admissible(Stored(pod, c))
<1>1. Stored(pod, c).volumes = pod.volumes /\ Stored(pod, c).mounts = pod.mounts
  BY DEF Stored, Pod
<1> QED
  BY <1>1 DEF Admissible

LEMMA ReportsAdmissible ==
    ASSUME NEW pod \in Pod, NEW new \in Reports(pod), Admissible(pod)
    PROVE  Admissible(new)
BY ReportsKeep DEF Admissible

LEMMA InitSound == Init => Sound
BY DEF Init, Sound, FreshPod, EmptyBag, Admissible

LEMMA NextSound == TypeOK /\ Sound /\ [Next]_vars => Sound'
<1> SUFFICES ASSUME TypeOK, Sound, [Next]_vars
             PROVE  Sound'
  OBVIOUS
<1> USE DEF At, Goto, Ends, cluster, history
<1>1. ASSUME NEW p \in Procs, GetPod(p)
      PROVE  Sound'
  <2>1. /\ copy' = [copy EXCEPT ![p] = pods[req[p].vm]] /\ pods' = pods
        /\ req[p].vm \in Agents
    BY <1>1 DEF GetPod, TypeOK, Request
  <2> QED
    BY <2>1 DEF Sound, TypeOK
<1>2. ASSUME NEW p \in Procs, CreatePod(p)
      PROVE  Sound'
  <2>1. /\ pods' = [pods EXCEPT ![req[p].vm] = Stored(Resubmitted(p), p)]
        /\ copy' = [copy EXCEPT ![p] = NoPod]
        /\ Admissible(Resubmitted(p)) /\ Resubmitted(p) \in Pod
    BY <1>2, ResubmittedOfCall DEF CreatePod, Accepts, Forgets
  <2>2. Admissible(Stored(Resubmitted(p), p))
    BY <2>1, StoredAdmissible
  <2>3. \A a \in Agents : pods'[a] \in {pods[a], Stored(Resubmitted(p), p)}
    BY <2>1 DEF TypeOK
  <2>4. \A q \in Procs : copy'[q] \in {copy[q], NoPod}
    BY <2>1 DEF TypeOK
  <2> QED
    BY <2>2, <2>3, <2>4 DEF Sound
<1>3. ASSUME NEW a \in Agents, KubeletReports(a)
      PROVE  Sound'
  <2>1. PICK new \in Reports(pods[a]) :
          /\ pods[a] # NoPod /\ pods' = [pods EXCEPT ![a] = new] /\ copy' = copy
    BY <1>3 DEF KubeletReports
  <2>2. Admissible(new)
    BY <2>1, ReportsAdmissible DEF Sound, TypeOK
  <2>3. \A b \in Agents : pods'[b] \in {pods[b], new}
    BY <2>1 DEF TypeOK
  <2> QED
    BY <2>1, <2>2, <2>3 DEF Sound
<1>4. ASSUME NEW p \in Procs, DeletePod(p)
      PROVE  Sound'
  <2>1. /\ pods' = [pods EXCEPT ![req[p].vm] = NoPod]
        /\ copy' = copy \/ copy' = [copy EXCEPT ![p] = NoPod]
    BY <1>4 DEF DeletePod, Answer, Forgets
  <2> QED
    BY <2>1 DEF Sound, TypeOK
<1>5. ASSUME NEW p \in Procs, UpdateConfigMap(p) \/ Refused(p) \/ Breaks(p)
      PROVE  Sound'
  <2>1. pods' = pods /\ (copy' = copy \/ copy' = [copy EXCEPT ![p] = NoPod])
    BY <1>5 DEF UpdateConfigMap, Answer, Refused, Breaks, Forgets
  <2> QED
    BY <2>1 DEF Sound, TypeOK
<1>6. ASSUME NEW p \in Procs,
             \/ Begin(p) \/ GetConfigMap(p) \/ OpenWatch(p) \/ ReadEvent(p)
             \/ Sleep(p) \/ TimesOut(p) \/ TimerFires(p)
      PROVE  Sound'
  <2>1. pods' = pods /\ copy' = copy
    BY <1>6 DEF Begin, GetConfigMap, OpenWatch, ReadEvent, Sleep, TimesOut, TimerFires
  <2> QED
    BY <2>1 DEF Sound
<1>7. CASE UNCHANGED vars
  BY <1>7 DEF vars, Sound
<1> QED
  BY <1>1, <1>2, <1>3, <1>4, <1>5, <1>6, <1>7 DEF Next, Step

\* A step of one call keeps what is known of a VM that another call lost.
LEMMA LossFrame ==
    ASSUME NoSilentLoss, NEW p \in Procs, outcome[p] = "running",
           \A q \in Procs : q # p => /\ pc'[q] = pc[q] /\ req'[q] = req[q]
                                    /\ outcome'[q] = outcome[q] /\ copy'[q] = copy[q],
           NEW a \in Agents, pods[a] = NoPod, ~(At(p, "create") /\ req[p].vm = a)
    PROVE  \E q \in Procs : Loses(q, a)'
<1>1. PICK q \in Procs : Loses(q, a)
  BY DEF NoSilentLoss, Loses
<1>2. q # p
  BY <1>1 DEF Loses, DiedInWindow, AttachedTwice
<1>3. Loses(q, a)'
  BY <1>1, <1>2 DEF Loses, At, DiedInWindow, AttachedTwice
<1> QED
  BY <1>3

LEMMA NextLoss ==
    TypeOK /\ WindowExclusive /\ Sound /\ NoSilentLoss /\ [Next]_vars => NoSilentLoss'
<1> SUFFICES ASSUME TypeOK, WindowExclusive, Sound, NoSilentLoss, [Next]_vars,
                    NEW a \in Agents, pods'[a] = NoPod
             PROVE  \E q \in Procs : Loses(q, a)'
  BY DEF NoSilentLoss, Loses
<1> USE DEF Goto, Ends, cluster, history
<1>1. ASSUME NEW p \in Procs, DeletePod(p)
      PROVE  \E q \in Procs : Loses(q, a)'
  <2>1. /\ pc[p] = "delete" /\ outcome[p] = "running" /\ req' = req
        /\ pods' = [pods EXCEPT ![req[p].vm] = NoPod]
        /\ \/ pc' = [pc EXCEPT ![p] = "create"] /\ outcome' = outcome /\ copy' = copy
           \/ /\ pc' = pc /\ outcome' = [outcome EXCEPT ![p] = "broken"]
              /\ copy' = [copy EXCEPT ![p] = NoPod]
    BY <1>1 DEF DeletePod, Answer, At, Forgets
  <2>2. CASE a = req[p].vm
    <3>1. Loses(p, a)'
      BY <2>1, <2>2 DEF Loses, At, DiedInWindow, TypeOK
    <3> QED
      BY <3>1
  <2>3. CASE a # req[p].vm
    <3>1. pods[a] = NoPod
      BY <2>1, <2>3 DEF TypeOK
    <3> QED
      BY <2>1, <2>3, <3>1, LossFrame DEF TypeOK
  <2> QED
    BY <2>2, <2>3
<1>2. ASSUME NEW p \in Procs, CreatePod(p)
      PROVE  \E q \in Procs : Loses(q, a)'
  <2>1. /\ pc[p] = "create" /\ outcome[p] = "running" /\ req' = req
        /\ pods' = [pods EXCEPT ![req[p].vm] = Stored(Resubmitted(p), p)]
        /\ Stored(Resubmitted(p), p) # NoPod
        /\ copy' = [copy EXCEPT ![p] = NoPod]
        /\ \/ pc' = [pc EXCEPT ![p] = "watch"] /\ outcome' = outcome
           \/ pc' = pc /\ outcome' = [outcome EXCEPT ![p] = "broken"]
    BY <1>2, ResubmittedOfCall, NoPodAssumption DEF CreatePod, Forgets, At
  <2>2. a # req[p].vm /\ pods[a] = NoPod
    BY <2>1 DEF TypeOK
  <2> QED
    BY <2>1, <2>2, LossFrame DEF TypeOK
<1>3. ASSUME NEW p \in Procs, Refused(p)
      PROVE  \E q \in Procs : Loses(q, a)'
  <2>1. /\ InProgress(p) /\ ~Accepts(p) /\ UNCHANGED <<pods, req, pc>>
        /\ outcome' = [outcome EXCEPT ![p] = "refused"]
        /\ pc[p] = "create" => copy' = copy
        /\ \A q \in Procs : q # p => copy'[q] = copy[q]
    BY <1>3 DEF Refused, Forgets, TypeOK
  <2>2. CASE pc[p] = "create" /\ req[p].vm = a
    <3>1. At(p, "create") /\ req[p] \in Request /\ copy[p] \in Pod
      BY <2>1, <2>2 DEF At, InProgress, TypeOK
    <3>2. ~Admissible(Resubmitted(p))
      BY <2>1, <2>2, <3>1 DEF Accepts, WindowExclusive
    <3>3. req[p].op = "Add" /\ copy[p].volumes[req[p].disk] = 1
      BY <3>1, <3>2, ResubmittedAdmissible, NoPodAssumption DEF Sound, Resubmitted
    <3>4. Loses(p, a)'
      BY <2>1, <2>2, <3>3 DEF Loses, AttachedTwice, TypeOK
    <3> QED
      BY <3>4
  <2>3. CASE ~(pc[p] = "create" /\ req[p].vm = a)
    BY <2>1, <2>3, LossFrame DEF At, InProgress, TypeOK
  <2> QED
    BY <2>2, <2>3
<1>4. ASSUME NEW p \in Procs, Breaks(p)
      PROVE  \E q \in Procs : Loses(q, a)'
  <2>1. /\ InProgress(p) /\ UNCHANGED <<pods, req, pc>>
        /\ outcome' = [outcome EXCEPT ![p] = "broken"]
        /\ copy' = [copy EXCEPT ![p] = NoPod]
    BY <1>4 DEF Breaks, Forgets
  <2>2. CASE pc[p] = "create" /\ req[p].vm = a
    <3>1. Loses(p, a)'
      BY <2>1, <2>2 DEF Loses, DiedInWindow, TypeOK
    <3> QED
      BY <3>1
  <2>3. CASE ~(pc[p] = "create" /\ req[p].vm = a)
    BY <2>1, <2>3, LossFrame DEF At, InProgress, TypeOK
  <2> QED
    BY <2>2, <2>3
<1>5. ASSUME NEW p \in Procs, Begin(p)
      PROVE  \E q \in Procs : Loses(q, a)'
  <2>1. /\ pc[p] = "idle" /\ outcome[p] = "running" /\ pods' = pods
        /\ \A q \in Procs : q # p => /\ pc'[q] = pc[q] /\ req'[q] = req[q]
                                     /\ outcome'[q] = outcome[q] /\ copy'[q] = copy[q]
    BY <1>5 DEF Begin, At, TypeOK
  <2> QED
    BY <2>1, LossFrame DEF At
<1>6. ASSUME NEW p \in Procs,
             \/ GetPod(p) \/ GetConfigMap(p) \/ UpdateConfigMap(p)
             \/ OpenWatch(p) \/ TimerFires(p)
      PROVE  \E q \in Procs : Loses(q, a)'
  <2>1. /\ pc[p] # "create" /\ outcome[p] = "running" /\ pods' = pods /\ req' = req
        /\ \A q \in Procs : q # p => /\ pc'[q] = pc[q]
                                     /\ outcome'[q] = outcome[q] /\ copy'[q] = copy[q]
    BY <1>6 DEF GetPod, GetConfigMap, UpdateConfigMap, Answer, Forgets, OpenWatch,
                TimerFires, At, TypeOK
  <2> QED
    BY <2>1, LossFrame DEF At
<1>7. ASSUME NEW p \in Procs, ReadEvent(p) \/ Sleep(p) \/ TimesOut(p)
      PROVE  \E q \in Procs : Loses(q, a)'
  <2>1. /\ pc[p] # "create" /\ outcome[p] = "running"
        /\ UNCHANGED <<pods, req, copy>>
        /\ \A q \in Procs : q # p => pc'[q] = pc[q] /\ outcome'[q] = outcome[q]
    BY <1>7 DEF ReadEvent, Sleep, TimesOut, At, TypeOK
  <2> QED
    BY <2>1, LossFrame DEF At
<1>8. CASE \/ \E b \in Agents : KubeletReports(b)
           \/ UNCHANGED vars
  <2>1. UNCHANGED <<req, pc, copy, outcome>>
    BY <1>8 DEF KubeletReports, vars
  <2>2. pods[a] = NoPod
    <3>1. CASE UNCHANGED vars
      BY <3>1 DEF vars
    <3>2. ASSUME NEW b \in Agents, KubeletReports(b)
          PROVE  pods[a] = NoPod
      <4>1. PICK new \in Reports(pods[b]) : pods' = [pods EXCEPT ![b] = new] /\ pods[b] \in Pod
        BY <3>2 DEF KubeletReports, TypeOK
      <4>2. new # NoPod
        BY <4>1, ReportsType, NoPodAssumption
      <4> QED
        BY <4>1, <4>2 DEF TypeOK
    <3> QED
      BY <1>8, <3>1, <3>2
  <2>3. PICK q \in Procs : Loses(q, a)
    BY <2>2 DEF NoSilentLoss, Loses
  <2>4. Loses(q, a)'
    BY <2>1, <2>3 DEF Loses, At, DiedInWindow, AttachedTwice
  <2> QED
    BY <2>4
<1> QED
  BY <1>1, <1>2, <1>3, <1>4, <1>5, <1>6, <1>7, <1>8 DEF Next, Step

\* However calls overlap, a VM without a pod is being created again by some
\* call, or was lost by one that died in the window or attached a disk the pod
\* already had (volume_manager.go:106-114).
THEOREM NoLossIsSilent == Spec => []NoSilentLoss
<1>1. Init => NoSilentLoss
  <2> SUFFICES ASSUME Init PROVE \A a \in Agents : pods[a] # NoPod
    BY DEF NoSilentLoss
  <2>1. TypeOK /\ \A i \in Address : FreshPod(CreateVM, i).job = "waiting"
    BY InitType DEF FreshPod
  <2>2. \A i \in Address : FreshPod(CreateVM, i) \in Pod
    BY CreatorsAssumption, MetasAssumption DEF FreshPod, Pod, Address, Bag, EmptyBag
  <2> QED
    BY <2>2, NoPodAssumption DEF Init
<1>2. Spec => [](TypeOK /\ WindowExclusive)
  BY TypeCorrect, WindowIsExclusive, PTL
<1> QED
  BY <1>1, <1>2, InitSound, NextSound, NextLoss, PTL DEF Spec

-----------------------------------------------------------------------------
(* What a call is shown on its watch.  Its stream has changes of its own     *)
(* pod in it and ends with what that pod is now, or the deletion of that pod *)
(* comes after them and keeps the call from reading on.                      *)

Wanted(r) == IF r.op = "Add" THEN 1 ELSE 0

AsAsked(p, r, pod) == /\ pod.uid = p
                      /\ pod.volumes[r.disk] = Wanted(r)
                      /\ pod.mounts[r.disk] = Wanted(r)

OwnEvent(p, r, e) == e.type = "MODIFIED" /\ AsAsked(p, r, e.pod)

Mine(p, r, s, pod) ==
    /\ pod # NoPod /\ AsAsked(p, r, pod)
    /\ \A k \in 1 .. Len(s) : OwnEvent(p, r, s[k])
    /\ s = <<>> => ~IsAgentContainerRunning(pod)
    /\ s # <<>> => s[Len(s)].pod = pod

Replaced(p, r, s) ==
    \E k \in 1 .. Len(s) :
        /\ s[k].type = "DELETED"
        /\ \A j \in 1 .. Len(s) : j < k => OwnEvent(p, r, s[j])

Watching(p) == InProgress(p) /\ pc[p] \in {"watch", "wait"}

WatchOK(p) ==
    /\ Watching(p) => \/ Mine(p, req[p], stream[p], pods[req[p].vm])
                      \/ Replaced(p, req[p], stream[p])
    /\ ~Watching(p) => stream[p] = <<>>

StreamInv == \A p \in Procs : WatchOK(p)

\* A pod that Create accepts has the disk once if it was to be put in and not
\* at all if it was to be taken out (83-88, 166-214).
LEMMA StoredAsAsked ==
    ASSUME NEW pod \in Pod, NEW r \in Request, NEW c \in Creators, Admissible(pod),
           Admissible(KeepAddress(UpdateVolumes(r.op, pod, r.disk)))
    PROVE  LET new == Stored(KeepAddress(UpdateVolumes(r.op, pod, r.disk)), c)
           IN  AsAsked(c, r, new) /\ ~IsAgentContainerRunning(new)
<1> DEFINE mid == UpdateVolumes(r.op, pod, r.disk)
           sub == KeepAddress(mid)
           new == Stored(sub, c)
<1>1. /\ pod.volumes \in Bag /\ pod.mounts \in Bag
      /\ r.disk \in Disks /\ r.op \in {"Add", "Remove"}
  BY DEF Pod, Request
<1>2. mid \in Pod /\ sub \in Pod
  BY <1>1, UpdatedType, ResubmittedType
<1>3. sub.volumes = mid.volumes /\ sub.mounts = mid.mounts
  BY <1>2 DEF KeepAddress, Pod
<1>4. /\ new.volumes = mid.volumes /\ new.mounts = mid.mounts
      /\ new.uid = c /\ new.phase = "Pending"
  BY <1>2, <1>3 DEF Stored, Pod
<1>5. /\ mid.volumes[r.disk] <= 1 /\ mid.mounts[r.disk] <= mid.volumes[r.disk]
      /\ pod.volumes[r.disk] <= 1 /\ pod.mounts[r.disk] <= pod.volumes[r.disk]
      /\ pod.volumes[r.disk] \in Nat /\ pod.mounts[r.disk] \in Nat
  BY <1>1, <1>3 DEF Admissible, Bag
<1>6. mid.volumes[r.disk] = Wanted(r) /\ mid.mounts[r.disk] = Wanted(r)
  <2>1. CASE r.op = "Add"
    <3>1. /\ mid.volumes = OneMore(pod.volumes, r.disk)
          /\ mid.mounts = OneMore(pod.mounts, r.disk)
      BY <2>1 DEF UpdateVolumes, AddVolume, Pod
    <3>2. /\ mid.volumes[r.disk] = pod.volumes[r.disk] + 1
          /\ mid.mounts[r.disk] = pod.mounts[r.disk] + 1
      BY <1>1, <3>1 DEF OneMore, Bag
    <3> HIDE DEF mid
    <3> QED
      BY <1>5, <2>1, <3>2 DEF Wanted
  <2>2. CASE r.op = "Remove"
    <3>1. /\ mid.volumes = OneLess(pod.volumes, r.disk)
          /\ mid.mounts = OneLess(pod.mounts, r.disk)
      BY <2>2 DEF UpdateVolumes, RemoveVolume, Pod
    <3>2. /\ mid.volumes[r.disk] =
                (IF pod.volumes[r.disk] = 0 THEN 0 ELSE pod.volumes[r.disk] - 1)
          /\ mid.mounts[r.disk] =
                (IF pod.mounts[r.disk] = 0 THEN 0 ELSE pod.mounts[r.disk] - 1)
      BY <1>1, <3>1 DEF OneLess, Bag
    <3> HIDE DEF mid
    <3> QED
      BY <1>5, <2>2, <3>2 DEF Wanted
  <2> QED
    BY <1>1, <2>1, <2>2
<1> HIDE DEF new, sub, mid
<1>7. AsAsked(c, r, new) /\ ~IsAgentContainerRunning(new)
  BY <1>4, <1>6 DEF AsAsked, IsAgentContainerRunning
<1> QED
  BY <1>7 DEF new, sub, mid

AgreeOn(pod, disks, d) ==
    /\ pod.volumes[d] = (IF d \in disks THEN 1 ELSE 0)
    /\ pod.mounts[d] = (IF d \in disks THEN 1 ELSE 0)

\* Adding or taking out one disk leaves the pod's other disks as they were, and
\* keeps the address it has.
LEMMA ResubmittedKeeps ==
    ASSUME NEW pod \in Pod, NEW r \in Request, NEW c \in Creators
    PROVE  LET new == Stored(KeepAddress(UpdateVolumes(r.op, pod, r.disk)), c)
           IN  /\ \A d \in Disks : d # r.disk => /\ new.volumes[d] = pod.volumes[d]
                                                 /\ new.mounts[d] = pod.mounts[d]
               /\ pod.ann # NoIP => new.ann = pod.ann
<1> DEFINE mid == UpdateVolumes(r.op, pod, r.disk)
           sub == KeepAddress(mid)
           new == Stored(sub, c)
<1>1. pod.volumes \in Bag /\ pod.mounts \in Bag /\ r.disk \in Disks /\ r.op \in {"Add", "Remove"}
  BY DEF Pod, Request
<1>2. mid \in Pod /\ sub \in Pod
  BY <1>1, UpdatedType, ResubmittedType
<1>3. /\ sub.volumes = mid.volumes /\ sub.mounts = mid.mounts
      /\ mid.ann # NoIP => sub.ann = mid.ann
  BY <1>2 DEF KeepAddress, Pod
<1>4. new.volumes = sub.volumes /\ new.mounts = sub.mounts /\ new.ann = sub.ann
  BY <1>2 DEF Stored, Pod
<1>5. \A bag \in Bag, d \in Disks : d # r.disk =>
          OneMore(bag, r.disk)[d] = bag[d] /\ OneLess(bag, r.disk)[d] = bag[d]
  BY <1>1 DEF OneMore, OneLess, Bag
<1>6. /\ mid.volumes \in {OneMore(pod.volumes, r.disk), OneLess(pod.volumes, r.disk)}
      /\ mid.mounts \in {OneMore(pod.mounts, r.disk), OneLess(pod.mounts, r.disk)}
      /\ mid.ann = pod.ann
  BY <1>1 DEF UpdateVolumes, AddVolume, RemoveVolume, Pod
<1> HIDE DEF new, sub, mid
<1>7. /\ \A d \in Disks : d # r.disk => /\ new.volumes[d] = pod.volumes[d]
                                        /\ new.mounts[d] = pod.mounts[d]
      /\ pod.ann # NoIP => new.ann = pod.ann
  BY <1>1, <1>3, <1>4, <1>5, <1>6
<1> QED
  BY <1>7 DEF new, sub, mid

\* An event that follows the deletion of the pod changes nothing.
LEMMA ReplacedStays ==
    ASSUME NEW p, NEW r, NEW s \in Seq(Event), NEW e \in Event, Replaced(p, r, s)
    PROVE  Replaced(p, r, Append(s, e))
<1>1. /\ Len(Append(s, e)) = Len(s) + 1
      /\ \A k \in 1 .. Len(s) : Append(s, e)[k] = s[k]
  OBVIOUS
<1>2. PICK k \in 1 .. Len(s) : /\ s[k].type = "DELETED"
                               /\ \A j \in 1 .. Len(s) : j < k => OwnEvent(p, r, s[j])
  BY DEF Replaced
<1>3. k \in 1 .. Len(Append(s, e)) /\ Append(s, e)[k].type = "DELETED"
  BY <1>1, <1>2
<1>4. ASSUME NEW j \in 1 .. Len(Append(s, e)), j < k
      PROVE  OwnEvent(p, r, Append(s, e)[j])
  <2>1. j \in 1 .. Len(s)
    BY <1>1, <1>2, <1>4
  <2> QED
    BY <1>1, <1>2, <1>4, <2>1
<1> QED
  BY <1>3, <1>4 DEF Replaced

\* The pod of a call is deleted by another call.
LEMMA MineReplaced ==
    ASSUME NEW p, NEW r, NEW s \in Seq(Event), NEW e \in Event, NEW pod,
           Mine(p, r, s, pod), e.type = "DELETED"
    PROVE  Replaced(p, r, Append(s, e))
<1>1. /\ Len(Append(s, e)) = Len(s) + 1 /\ Len(s) \in Nat
      /\ \A k \in 1 .. Len(s) : Append(s, e)[k] = s[k]
      /\ Append(s, e)[Len(s) + 1] = e
  OBVIOUS
<1>2. Len(s) + 1 \in 1 .. Len(Append(s, e))
  BY <1>1
<1>3. ASSUME NEW j \in 1 .. Len(Append(s, e)), j < Len(s) + 1
      PROVE  OwnEvent(p, r, Append(s, e)[j])
  <2>1. j \in 1 .. Len(s)
    BY <1>1, <1>3
  <2> QED
    BY <1>1, <2>1 DEF Mine
<1> QED
  BY <1>1, <1>2, <1>3 DEF Replaced

\* The kubelet reports a change of the call's pod.
LEMMA MineReported ==
    ASSUME NEW p, NEW r, NEW s \in Seq(Event), NEW pod \in Pod, NEW new \in Pod,
           Mine(p, r, s, pod), AsAsked(p, r, new)
    PROVE  Mine(p, r, Append(s, [type |-> "MODIFIED", pod |-> new]), new)
<1> DEFINE e == [type |-> "MODIFIED", pod |-> new]
           t == Append(s, e)
<1>1. e.type = "MODIFIED" /\ e.pod = new /\ e \in Event
  BY DEF Event
<1> HIDE DEF e
<1>2. /\ Len(t) = Len(s) + 1 /\ Len(s) \in Nat /\ t # <<>>
      /\ \A k \in 1 .. Len(s) : t[k] = s[k]
      /\ t[Len(s) + 1] = e
  BY <1>1
<1>3. ASSUME NEW k \in 1 .. Len(t)
      PROVE  OwnEvent(p, r, t[k])
  <2>1. CASE k = Len(s) + 1
    BY <1>1, <1>2, <2>1 DEF OwnEvent
  <2>2. CASE k # Len(s) + 1
    <3>1. k \in 1 .. Len(s)
      BY <1>2, <2>2
    <3> QED
      BY <1>2, <3>1 DEF Mine
  <2> QED
    BY <2>1, <2>2
<1>4. t[Len(t)].pod = new
  BY <1>1, <1>2
<1> HIDE DEF t
<1>5. Mine(p, r, t, new)
  BY <1>2, <1>3, <1>4, NoPodAssumption DEF Mine
<1> QED
  BY <1>5 DEF t, e

\* The call reads an event that does not end its wait.
LEMMA ReadOn ==
    ASSUME NEW p, NEW r, NEW s \in Seq(Event), NEW pod, s # <<>>,
           Head(s).type = "MODIFIED", ~IsAgentContainerRunning(Head(s).pod)
    PROVE  /\ Mine(p, r, s, pod) => Mine(p, r, Tail(s), pod)
           /\ Replaced(p, r, s) => Replaced(p, r, Tail(s))
<1> DEFINE t == Tail(s)
<1>1. /\ t \in Seq(Event) /\ Len(t) = Len(s) - 1 /\ Len(s) \in Nat /\ Len(s) >= 1
      /\ \A k \in 1 .. Len(t) : t[k] = s[k + 1]
      /\ Head(s) = s[1]
  OBVIOUS
<1> HIDE DEF t
<1>2. ASSUME Mine(p, r, s, pod)
      PROVE  Mine(p, r, t, pod)
  <2>1. \A k \in 1 .. Len(t) : OwnEvent(p, r, t[k])
    <3> SUFFICES ASSUME NEW k \in 1 .. Len(t)
                 PROVE  OwnEvent(p, r, t[k])
      OBVIOUS
    <3>1. k + 1 \in 1 .. Len(s)
      BY <1>1
    <3> QED
      BY <1>1, <1>2, <3>1 DEF Mine
  <2>2. CASE t = <<>>
    <3>1. Len(s) = 1
      BY <1>1, <2>2
    <3>2. pod = Head(s).pod
      BY <1>1, <1>2, <3>1 DEF Mine
    <3> QED
      BY <1>2, <2>1, <2>2, <3>2 DEF Mine
  <2>3. CASE t # <<>>
    <3>1. Len(t) \in 1 .. Len(t) /\ Len(t) + 1 = Len(s)
      BY <1>1, <2>3
    <3>2. t[Len(t)] = s[Len(s)]
      BY <1>1, <3>1
    <3> QED
      BY <1>2, <2>1, <2>3, <3>2 DEF Mine
  <2> QED
    BY <2>2, <2>3
<1>3. ASSUME Replaced(p, r, s)
      PROVE  Replaced(p, r, t)
  <2>1. PICK k \in 1 .. Len(s) : /\ s[k].type = "DELETED"
                                 /\ \A j \in 1 .. Len(s) : j < k => OwnEvent(p, r, s[j])
    BY <1>3 DEF Replaced
  <2>2. k # 1
    BY <1>1, <2>1
  <2>3. k - 1 \in 1 .. Len(t) /\ t[k - 1] = s[k]
    BY <1>1, <2>1, <2>2
  <2>4. ASSUME NEW j \in 1 .. Len(t), j < k - 1
        PROVE  OwnEvent(p, r, t[j])
    <3>1. j + 1 \in 1 .. Len(s) /\ j + 1 < k
      BY <1>1, <2>4
    <3> QED
      BY <1>1, <2>1, <3>1
  <2> QED
    BY <2>1, <2>3, <2>4 DEF Replaced
<1> QED
  BY <1>2, <1>3 DEF t

\* A call whose stream and pod a step leaves alone.
LEMMA WatchFrame ==
    ASSUME TypeOK, NEW p \in Procs, WatchOK(p),
           pc'[p] = pc[p], req'[p] = req[p], outcome'[p] = outcome[p],
           stream'[p] = stream[p], Watching(p) => pods'[req[p].vm] = pods[req[p].vm]
    PROVE  WatchOK(p)'
BY DEF WatchOK, Watching, InProgress

\* A call that is not waiting after a step and has nothing to read.
LEMMA NotWatching ==
    ASSUME NEW p \in Procs, ~Watching(p)', stream'[p] = <<>>
    PROVE  WatchOK(p)'
BY DEF WatchOK

LEMMA NextStream == TypeOK /\ Sound /\ StreamInv /\ [Next]_vars => StreamInv'
<1> SUFFICES ASSUME TypeOK, Sound, StreamInv, [Next]_vars, NEW q \in Procs
             PROVE  WatchOK(q)'
  BY DEF StreamInv
<1> USE DEF Goto, Ends, cluster, history
<1>q. /\ WatchOK(q) /\ stream[q] \in Seq(Event)
      /\ Watching(q) => req[q] \in Request /\ req[q].vm \in Agents
  BY DEF StreamInv, TypeOK, Watching, InProgress, Request
<1>1. ASSUME NEW p \in Procs, DeletePod(p)
      PROVE  WatchOK(q)'
  <2> DEFINE a == req[p].vm
             e == [type |-> "DELETED", pod |-> pods[a]]
  <2>1. /\ pc[p] = "delete" /\ outcome[p] = "running" /\ req' = req
        /\ pods' = [pods EXCEPT ![a] = NoPod] /\ e \in Event
        /\ stream' = [x \in Procs |-> IF Watches(x, a) THEN Append(stream[x], e)
                                      ELSE stream[x]]
        /\ \A x \in Procs : x # p => pc'[x] = pc[x] /\ outcome'[x] = outcome[x]
        /\ \/ pc'[p] = "create"
           \/ outcome'[p] = "broken"
    <3>1. pods[a] \in Pod
      BY <1>1 DEF DeletePod, Accepts, At, TypeOK, Request
    <3> QED
      BY <1>1, <3>1 DEF DeletePod, Accepts, Answer, At, Notify, Event, TypeOK
  <2> HIDE DEF e
  <2>2. CASE q = p
    <3>1. ~Watching(p) /\ ~Watching(p)' /\ ~Watches(p, a)
      BY <2>1 DEF Watching, Watches, InProgress
    <3>2. stream'[p] = <<>>
      BY <1>q, <2>1, <2>2, <3>1 DEF WatchOK
    <3> QED
      BY <2>2, <3>1, <3>2, NotWatching
  <2>3. CASE q # p /\ Watches(q, a)
    <3>1. stream'[q] = Append(stream[q], e) /\ Watching(q) /\ Watching(q)' /\ req'[q] = req[q]
      BY <2>1, <2>3 DEF Watches, Watching, InProgress
    <3>2. e.type = "DELETED" /\ e \in Event
      BY <2>1 DEF e
    <3>3. Replaced(q, req[q], Append(stream[q], e))
      BY <1>q, <3>1, <3>2, ReplacedStays, MineReplaced DEF WatchOK
    <3> QED
      BY <3>1, <3>3 DEF WatchOK
  <2>4. CASE q # p /\ ~Watches(q, a)
    <3>1. Watching(q) => pods'[req[q].vm] = pods[req[q].vm]
      BY <1>q, <2>1, <2>4 DEF Watches, Watching, TypeOK
    <3> QED
      BY <1>q, <2>1, <2>4, <3>1, WatchFrame
  <2> QED
    BY <2>2, <2>3, <2>4
<1>2. ASSUME NEW p \in Procs, CreatePod(p)
      PROVE  WatchOK(q)'
  <2> DEFINE a == req[p].vm
             new == Stored(Resubmitted(p), p)
             e == [type |-> "ADDED", pod |-> new]
  <2>1. /\ At(p, "create") /\ req' = req /\ pods[a] = NoPod /\ a \in Agents
        /\ new \in Pod /\ copy[p] \in Pod /\ req[p] \in Request
        /\ Admissible(Resubmitted(p)) /\ Admissible(copy[p])
    BY <1>2, ResubmittedOfCall, NoPodAssumption
       DEF CreatePod, Accepts, At, Sound, InProgress, TypeOK, Request
  <2>2. AsAsked(p, req[p], new) /\ ~IsAgentContainerRunning(new)
    BY <2>1, StoredAsAsked, CreatorsAssumption DEF Resubmitted
  <2>3. /\ pods' = [pods EXCEPT ![a] = new] /\ e \in Event
        /\ stream' = [x \in Procs |-> IF Watches(x, a) THEN Append(stream[x], e)
                                      ELSE stream[x]]
        /\ \A x \in Procs : x # p => pc'[x] = pc[x] /\ outcome'[x] = outcome[x]
        /\ \/ pc'[p] = "watch" /\ outcome'[p] = "running"
           \/ outcome'[p] = "broken"
    BY <1>2, <2>1 DEF CreatePod, Notify, Event, At, TypeOK
  <2> HIDE DEF e, new
  <2>4. CASE q = p
    <3>1. ~Watching(p) /\ ~Watches(p, a)
      BY <2>1 DEF At, Watching, Watches
    <3>2. stream'[p] = <<>>
      BY <1>q, <2>3, <2>4, <3>1 DEF WatchOK
    <3>3. Mine(p, req[p], <<>>, new)
      BY <2>1, <2>2, NoPodAssumption DEF Mine
    <3>4. pods'[a] = new
      BY <2>1, <2>3 DEF TypeOK
    <3> QED
      BY <2>1, <2>4, <3>2, <3>3, <3>4 DEF WatchOK
  <2>5. CASE q # p /\ Watches(q, a)
    <3>1. stream'[q] = Append(stream[q], e) /\ Watching(q) /\ Watching(q)'
          /\ req'[q] = req[q] /\ req[q].vm = a
      BY <2>1, <2>3, <2>5 DEF Watches, Watching, InProgress
    <3>2. Replaced(q, req[q], stream[q])
      BY <1>q, <2>1, <3>1 DEF WatchOK, Mine
    <3>3. Replaced(q, req[q], Append(stream[q], e))
      BY <1>q, <2>3, <3>2, ReplacedStays
    <3> QED
      BY <3>1, <3>3 DEF WatchOK
  <2>6. CASE q # p /\ ~Watches(q, a)
    <3>1. Watching(q) => pods'[req[q].vm] = pods[req[q].vm]
      BY <1>q, <2>3, <2>6 DEF Watches, Watching, TypeOK
    <3> QED
      BY <1>q, <2>1, <2>3, <2>6, <3>1, WatchFrame
  <2> QED
    BY <2>4, <2>5, <2>6
<1>3. ASSUME NEW p \in Procs, ReadEvent(p)
      PROVE  WatchOK(q)'
  <2>1. /\ At(p, "wait") /\ stream[p] # <<>> /\ req' = req /\ pods' = pods
        /\ \A x \in Procs : x # p => /\ pc'[x] = pc[x] /\ outcome'[x] = outcome[x]
                                     /\ stream'[x] = stream[x]
        /\ \/ pc'[p] = "sleep" /\ stream'[p] = <<>>
           \/ outcome'[p] = "unexpected" /\ stream'[p] = <<>>
           \/ /\ pc'[p] = pc[p] /\ outcome'[p] = outcome[p]
              /\ stream'[p] = Tail(stream[p])
              /\ Head(stream[p]).type = "MODIFIED"
              /\ ~IsAgentContainerRunning(Head(stream[p]).pod)
    BY <1>3 DEF ReadEvent, StopWaiting, At, TypeOK
  <2>2. CASE q # p
    BY <1>q, <2>1, <2>2, WatchFrame
  <2>3. CASE q = p /\ stream'[p] = <<>> /\ (pc'[p] = "sleep" \/ outcome'[p] = "unexpected")
    BY <2>3, NotWatching DEF Watching, InProgress
  <2>4. CASE /\ q = p /\ pc'[p] = pc[p] /\ outcome'[p] = outcome[p]
             /\ stream'[p] = Tail(stream[p])
             /\ Head(stream[p]).type = "MODIFIED"
             /\ ~IsAgentContainerRunning(Head(stream[p]).pod)
    <3>1. Watching(q) /\ Watching(q)'
      BY <2>1, <2>4 DEF At, Watching, InProgress
    <3>2. \/ Mine(q, req[q], Tail(stream[q]), pods[req[q].vm])
          \/ Replaced(q, req[q], Tail(stream[q]))
      BY <1>q, <2>1, <2>4, <3>1, ReadOn DEF WatchOK
    <3> QED
      BY <2>1, <2>4, <3>1, <3>2 DEF WatchOK
  <2> QED
    BY <2>1, <2>2, <2>3, <2>4
<1>4. ASSUME NEW a \in Agents, KubeletReports(a)
      PROVE  WatchOK(q)'
  <2>1. PICK new \in Reports(pods[a]) :
          /\ pods[a] \in Pod /\ pods' = [pods EXCEPT ![a] = new]
          /\ stream' = [x \in Procs |->
                IF Watches(x, a) THEN Append(stream[x], [type |-> "MODIFIED", pod |-> new])
                ELSE stream[x]]
          /\ UNCHANGED <<req, pc, outcome>>
    BY <1>4 DEF KubeletReports, Notify, TypeOK
  <2>2. /\ new \in Pod /\ new.uid = pods[a].uid
        /\ new.volumes = pods[a].volumes /\ new.mounts = pods[a].mounts
    BY <2>1, ReportsType, ReportsKeep
  <2>3. [type |-> "MODIFIED", pod |-> new] \in Event
    BY <2>2 DEF Event
  <2>4. CASE Watches(q, a)
    <3>1. Watching(q) /\ Watching(q)' /\ req[q].vm = a /\ pods'[a] = new
          /\ stream'[q] = Append(stream[q], [type |-> "MODIFIED", pod |-> new])
      BY <2>1, <2>4 DEF Watches, Watching, InProgress, TypeOK
    <3>2. CASE Replaced(q, req[q], stream[q])
      BY <1>q, <2>1, <2>3, <3>1, <3>2, ReplacedStays DEF WatchOK
    <3>3. CASE Mine(q, req[q], stream[q], pods[a])
      <4>1. AsAsked(q, req[q], new)
        BY <2>2, <3>3 DEF Mine, AsAsked
      <4>2. Mine(q, req[q], Append(stream[q], [type |-> "MODIFIED", pod |-> new]), new)
        BY <1>q, <2>1, <2>2, <3>3, <4>1, MineReported
      <4> QED
        BY <2>1, <3>1, <4>2 DEF WatchOK
    <3> QED
      BY <1>q, <3>1, <3>2, <3>3 DEF WatchOK
  <2>5. CASE ~Watches(q, a)
    <3>1. Watching(q) => pods'[req[q].vm] = pods[req[q].vm]
      BY <1>q, <2>1, <2>5 DEF Watches, Watching, TypeOK
    <3> QED
      BY <1>q, <2>1, <2>5, <3>1, WatchFrame
  <2> QED
    BY <2>4, <2>5
<1>5. ASSUME NEW p \in Procs, TimesOut(p) \/ Breaks(p)
      PROVE  WatchOK(q)'
  <2>1. /\ req' = req /\ pods' = pods /\ pc' = pc
        /\ \A x \in Procs : x # p => outcome'[x] = outcome[x] /\ stream'[x] = stream[x]
        /\ outcome'[p] # "running" /\ stream'[p] = <<>>
    BY <1>5 DEF TimesOut, Breaks, StopWaiting, TypeOK
  <2>2. CASE q = p
    BY <2>1, <2>2, NotWatching DEF Watching, InProgress
  <2>3. CASE q # p
    BY <1>q, <2>1, <2>3, WatchFrame
  <2> QED
    BY <2>2, <2>3
<1>6. ASSUME NEW p \in Procs,
             \/ Begin(p) \/ GetPod(p) \/ GetConfigMap(p) \/ UpdateConfigMap(p)
             \/ Sleep(p) \/ Refused(p)
      PROVE  WatchOK(q)'
  <2>1. /\ ~Watching(p) /\ ~Watching(p)' /\ stream' = stream /\ pods' = pods
        /\ \A x \in Procs : x # p => /\ pc'[x] = pc[x] /\ outcome'[x] = outcome[x]
                                     /\ req'[x] = req[x]
    <3>1. CASE Begin(p)
      BY <3>1 DEF Begin, Watching, InProgress, At, TypeOK
    <3>2. CASE GetPod(p) \/ GetConfigMap(p) \/ UpdateConfigMap(p)
      BY <3>2 DEF GetPod, GetConfigMap, UpdateConfigMap, Answer, Watching, InProgress, At, TypeOK
    <3>3. CASE Sleep(p)
      BY <3>3 DEF Sleep, Watching, InProgress, At, TypeOK
    <3>4. CASE Refused(p)
      <4>1. pc[p] \notin {"watch", "wait"}
        BY <3>4 DEF Refused, Accepts
      <4> QED
        BY <3>4, <4>1 DEF Refused, Watching, InProgress, TypeOK
    <3> QED
      BY <1>6, <3>1, <3>2, <3>3, <3>4
  <2>2. CASE q = p
    BY <1>q, <2>1, <2>2, NotWatching DEF WatchOK
  <2>3. CASE q # p
    BY <1>q, <2>1, <2>3, WatchFrame
  <2> QED
    BY <2>2, <2>3
<1>7. ASSUME NEW p \in Procs, OpenWatch(p) \/ TimerFires(p)
      PROVE  WatchOK(q)'
  <2>1. /\ UNCHANGED <<pods, req, stream, outcome>>
        /\ \/ pc'[q] = pc[q]
           \/ pc[q] = "watch" /\ pc'[q] = "wait"
    BY <1>7 DEF OpenWatch, TimerFires, At, TypeOK
  <2> QED
    BY <1>q, <2>1 DEF WatchOK, Watching, InProgress
<1>8. CASE UNCHANGED vars
  BY <1>q, <1>8, WatchFrame DEF vars
<1> QED
  BY <1>1, <1>2, <1>3, <1>4, <1>5, <1>6, <1>7, <1>8 DEF Next, Step

LEMMA StreamsAreRight == Spec => []StreamInv
<1>1. Init => StreamInv
  BY DEF Init, StreamInv, WatchOK, Watching, InProgress
<1> QED
  BY <1>1, TypeCorrect, InitSound, NextSound, NextStream, PTL DEF Spec

LEMMA StreamMeansWatch == StreamInv => IdleWatchIsRight
<1> SUFFICES ASSUME StreamInv, NEW p \in Procs, At(p, "wait"), stream[p] = <<>>
             PROVE  LET pod == pods[req[p].vm] IN
                    pod # NoPod /\ pod.uid = p /\ ~IsAgentContainerRunning(pod)
  BY DEF IdleWatchIsRight
<1>1. Watching(p)
  BY DEF At, Watching, InProgress
<1>2. ~Replaced(p, req[p], stream[p])
  BY DEF Replaced
<1> QED
  BY <1>1, <1>2 DEF StreamInv, WatchOK, Mine, AsAsked

\* A call that has nothing to read waits for a change still to come: its own
\* pod is there and not ready, so no readiness was lost between Create and
\* Watch, however calls overlap (volume_manager.go:111-116, 222-231).
THEOREM IdleWatchesAreRight == Spec => []IdleWatchIsRight
BY StreamMeansWatch, StreamsAreRight, PTL

\* A step that ends a wait with success takes a change of the call's own pod.
LEMMA StepAcceptsOwn == TypeOK /\ StreamInv /\ [Next]_vars => [AcceptsOwnPod]_vars
<1> SUFFICES ASSUME TypeOK, StreamInv, [Next]_vars,
                    NEW p \in Procs, At(p, "wait"), pc'[p] = "sleep"
             PROVE  AsAsked(p, req[p], Head(stream[p]).pod)
  BY DEF AcceptsOwnPod, AsAsked, Wanted
<1> USE DEF Goto, Ends, cluster, history
<1>1. stream[p] # <<>> /\ Head(stream[p]).type = "MODIFIED"
  <2>1. ASSUME NEW q \in Procs, ReadEvent(q)
        PROVE  stream[p] # <<>> /\ Head(stream[p]).type = "MODIFIED"
    <3>1. q = p
      BY <2>1 DEF ReadEvent, At, TypeOK
    <3> QED
      BY <2>1, <3>1 DEF ReadEvent, At
  <2>2. ASSUME NEW q \in Procs,
               \/ Begin(q) \/ GetPod(q) \/ GetConfigMap(q) \/ UpdateConfigMap(q)
               \/ DeletePod(q) \/ CreatePod(q) \/ OpenWatch(q)
        PROVE  FALSE
    BY <2>2 DEF Begin, GetPod, GetConfigMap, UpdateConfigMap, DeletePod, CreatePod,
                OpenWatch, Answer, At, TypeOK
  <2>3. ASSUME NEW q \in Procs,
               \/ Sleep(q) \/ Refused(q) \/ TimesOut(q) \/ Breaks(q) \/ TimerFires(q)
        PROVE  FALSE
    BY <2>3 DEF Sleep, Refused, TimesOut, Breaks, TimerFires, At
  <2>4. ASSUME NEW a \in Agents, KubeletReports(a)
        PROVE  FALSE
    BY <2>4 DEF KubeletReports, At
  <2>5. CASE UNCHANGED vars
    BY <2>5 DEF vars, At
  <2> QED
    BY <2>1, <2>2, <2>3, <2>4, <2>5 DEF Next, Step
<1>2. Watching(p) /\ stream[p] \in Seq(Event) /\ WatchOK(p)
  BY DEF Watching, InProgress, At, TypeOK, StreamInv
<1>3. Len(stream[p]) \in Nat /\ Len(stream[p]) >= 1 /\ Head(stream[p]) = stream[p][1]
  BY <1>1, <1>2
<1>4. OwnEvent(p, req[p], stream[p][1])
  <2>1. CASE Mine(p, req[p], stream[p], pods[req[p].vm])
    BY <1>3, <2>1 DEF Mine
  <2>2. CASE Replaced(p, req[p], stream[p])
    <3>1. PICK k \in 1 .. Len(stream[p]) :
            /\ stream[p][k].type = "DELETED"
            /\ \A j \in 1 .. Len(stream[p]) : j < k => OwnEvent(p, req[p], stream[p][j])
      BY <2>2 DEF Replaced
    <3>2. 1 < k
      BY <1>1, <1>3, <3>1
    <3> QED
      BY <1>3, <3>1, <3>2
  <2> QED
    BY <1>2, <2>1, <2>2 DEF WatchOK
<1> QED
  BY <1>3, <1>4 DEF OwnEvent

\* A call that succeeds was shown the pod it created itself, with the disk
\* mounted or gone as it was asked, whatever other calls replaced meanwhile
\* (volume_manager.go:237-253).
THEOREM SuccessesAreOwnPods == Spec => SuccessIsOwnPod
BY TypeCorrect, StreamsAreRight, StepAcceptsOwn, PTL DEF Spec, SuccessIsOwnPod

-----------------------------------------------------------------------------
(* Which call a step is of *)

\* What a request of one call leaves alone: the other calls, the other VMs.
Elsewhere(p) ==
    /\ req' = req /\ latest' = latest
    /\ \A q \in Procs : q # p => /\ pc'[q] = pc[q] /\ outcome'[q] = outcome[q]
                                 /\ copy'[q] = copy[q] /\ cm'[q] = cm[q]
    /\ \A b \in Agents : b # req[p].vm => /\ pods'[b] = pods[b] /\ address'[b] = address[b]
                                          /\ configMaps'[b] = configMaps[b]

Moves(p) == Step(p) \/ TimesOut(p) \/ Breaks(p) \/ TimerFires(p)

LEMMA MovesElsewhere ==
    ASSUME TypeOK, NEW p \in Procs, Moves(p)
    PROVE  InProgress(p) /\ pc'[p] # "idle" /\ Elsewhere(p)
<1> USE DEF At, Goto, Ends, InProgress, cluster, history, Elsewhere
<1>1. CASE GetPod(p) \/ GetConfigMap(p) \/ OpenWatch(p)
  BY <1>1 DEF GetPod, GetConfigMap, OpenWatch, TypeOK
<1>2. CASE UpdateConfigMap(p)
  BY <1>2 DEF UpdateConfigMap, Answer, Forgets, TypeOK
<1>3. CASE DeletePod(p)
  BY <1>3 DEF DeletePod, Answer, Forgets, TypeOK
<1>4. CASE CreatePod(p)
  BY <1>4 DEF CreatePod, Forgets, TypeOK
<1>5. CASE ReadEvent(p) \/ Sleep(p) \/ TimesOut(p) \/ TimerFires(p)
  BY <1>5 DEF ReadEvent, Sleep, TimesOut, TimerFires, TypeOK
<1>6. CASE Refused(p) \/ Breaks(p)
  BY <1>6 DEF Refused, Breaks, Forgets, TypeOK
<1> QED
  BY <1>1, <1>2, <1>3, <1>4, <1>5, <1>6 DEF Moves, Step

LEMMA CallTypes ==
    ASSUME TypeOK, NEW p \in Procs, InProgress(p)
    PROVE  req[p] \in Request /\ req[p].vm \in Agents /\ req[p].disk \in Disks
BY DEF TypeOK, InProgress, Request
=============================================================================
