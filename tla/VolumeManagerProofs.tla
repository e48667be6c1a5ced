------------------------ MODULE VolumeManagerProofs ------------------------
(***************************************************************************)
(* Proofs about VolumeManager for any number of processes, VMs, disks and  *)
(* addresses, any contexts and any bound on undelivered events.            *)
(***************************************************************************)
EXTENDS VolumeManager, SequenceTheorems, TLAPS

(* What the functions of KubeObjects return *)

\* The pod recreatePod submits is a pod: no count goes below zero (166-214),
\* and the address it records is one the pod had (94-96).
LEMMA UpdatedType ==
    ASSUME NEW pod \in Pod, NEW d \in Disks, NEW op \in {"Add", "Remove"}
    PROVE  UpdateVolumes(op, pod, d) \in Pod
  <1>1. \A bag \in Bag : OneMore(bag, d) \in Bag /\ OneLess(bag, d) \in Bag
    BY DEF OneMore, OneLess, Bag
  <1>2. AddVolume(pod, d) \in Pod
    BY <1>1 DEF AddVolume, Pod
  <1>3. RemoveVolume(pod, d) \in Pod
    BY <1>1 DEF RemoveVolume, Pod
  <1>4. QED
    BY <1>2, <1>3 DEF UpdateVolumes

LEMMA ResubmittedType ==
    ASSUME NEW pod \in Pod, NEW d \in Disks, NEW op \in {"Add", "Remove"}
    PROVE  KeepAddress(UpdateVolumes(op, pod, d)) \in Pod
  <1>1. \A x \in Pod : KeepAddress(x) \in Pod
    BY DEF KeepAddress, Pod
  <1>2. QED
    BY <1>1, UpdatedType

\* What the server stores, and what the kubelet makes of it, is a pod.
LEMMA StoredType ==
    ASSUME NEW pod \in Pod, NEW c \in Creators
    PROVE  Stored(pod, c) \in Pod
  BY DEF Stored, Pod, Address

LEMMA ReportsType ==
    ASSUME NEW pod \in Pod, NEW new \in Reports(pod)
    PROVE  new \in Pod
  <1>1. PICK r \in [ ip  : IF pod.ip = NoIP THEN IPs ELSE {pod.ip},
                     job : {"running", "ready"} \ {pod.job} ] :
             new = [pod EXCEPT !.ip = r.ip, !.phase = "Running", !.job = r.job]
    BY DEF Reports
  <1>2. r.ip \in Address /\ r.job \in {"running", "ready"}
    BY DEF Pod, Address
  <1>3. QED
    BY <1>1, <1>2 DEF Pod

\* The kubelet changes a pod's status alone.
LEMMA ReportsKeep ==
    ASSUME NEW pod \in Pod, NEW new \in Reports(pod)
    PROVE  /\ new.uid = pod.uid /\ new.volumes = pod.volumes /\ new.mounts = pod.mounts
           /\ new.meta = pod.meta /\ new.ann = pod.ann
  BY DEF Reports, Pod

-----------------------------------------------------------------------------
(* Type correctness *)

\* Telling the watches of an event keeps every stream a sequence of events.
LEMMA NotifyType ==
    ASSUME TypeOK, NEW a \in Agents, NEW pod \in Pod,
           NEW type \in {"ADDED", "MODIFIED", "DELETED"}, Notify(a, type, pod)
    PROVE  stream' \in [Procs -> Seq(Event)]
  <1> DEFINE e == [type |-> type, pod |-> pod]
  <1>1. e \in Event
    BY DEF Event
  <1>2. \A p \in Procs : stream[p] \in Seq(Event) /\ Append(stream[p], e) \in Seq(Event)
    BY <1>1 DEF TypeOK
  <1>3. QED
    BY <1>2 DEF Notify

\* The pod a call is about to create is a pod.
LEMMA ResubmittedOfCall ==
    ASSUME TypeOK, NEW p \in Procs, At(p, "create")
    PROVE  Resubmitted(p) \in Pod /\ Stored(Resubmitted(p), p) \in Pod
  <1>1. copy[p] \in Pod /\ req[p] \in Request
    BY DEF TypeOK, At, InProgress
  <1>2. Resubmitted(p) \in Pod
    BY <1>1, ResubmittedType DEF Resubmitted, Request
  <1>3. QED
    BY <1>2, StoredType, CreatorsAssumption

LEMMA InitType == Init => TypeOK
  <1> SUFFICES ASSUME Init PROVE TypeOK
    OBVIOUS
  <1>1. \A i \in Address : FreshPod(CreateVM, i) \in Pod
    BY CreatorsAssumption, MetasAssumption DEF FreshPod, Pod, Address, Bag, EmptyBag
  <1>2. pods \in [Agents -> Pod \cup {NoPod}]
    BY <1>1 DEF Init
  <1>3. address \in [Agents -> Address]
    <2>1. \A a \in Agents : pods[a].ann \in Address
      BY DEF Init, FreshPod
    <2>2. QED
      BY <2>1 DEF Init
  <1>4. QED
    BY <1>2, <1>3 DEF Init, TypeOK, ConfigMap, NoConfigMap, Calls, InProgress

\* A call whose request was carried out is at the next one or has ended.
LEMMA AnswerType ==
    ASSUME TypeOK, NEW p \in Procs, At(p, "update_cm") \/ At(p, "delete"),
           NEW next \in {"delete", "create"}, Answer(p, next), req' = req
    PROVE  /\ pc' \in [Procs -> Calls \cup {"idle", "sleep"}]
           /\ outcome' \in [Procs -> {"running", "ok", "mismatch", "refused", "broken",
                                      "unexpected", "timeout"}]
           /\ copy' \in [Procs -> Pod \cup {NoPod}]
           /\ \A q \in Procs : pc'[q] # "idle" => req'[q] \in Request
           /\ \A q \in Procs :
                InProgress(q)' /\ pc'[q] \in {"get_cm", "update_cm", "delete", "create"} =>
                    copy'[q] \in Pod
  <1> USE DEF At, InProgress, Goto, Ends, Forgets
  <1>1. CASE pc' = [pc EXCEPT ![p] = next] /\ UNCHANGED <<outcome, copy>>
    BY <1>1 DEF TypeOK, Calls
  <1>2. CASE /\ outcome' = [outcome EXCEPT ![p] = "broken"] /\ pc' = pc
             /\ copy' = [copy EXCEPT ![p] = NoPod]
    BY <1>2 DEF TypeOK, Calls
  <1>3. QED
    BY <1>1, <1>2 DEF Answer

LEMMA NextType == TypeOK /\ [Next]_vars => TypeOK'
  <1> SUFFICES ASSUME TypeOK, [Next]_vars PROVE TypeOK'
    OBVIOUS
  <1> USE DEF At, InProgress, Goto, Ends, cluster, history
  <1>1. ASSUME NEW p \in Procs, Begin(p) PROVE TypeOK'
    <2>1. PICK r \in Request :
            /\ req' = [req EXCEPT ![p] = r]
            /\ latest' = IF Serialised THEN [latest EXCEPT ![r.vm][r.disk] = p] ELSE latest
            /\ pc' = [pc EXCEPT ![p] = "get_pod"]
            /\ outcome' \in {outcome, [outcome EXCEPT ![p] = "mismatch"]}
      BY <1>1 DEF Begin
    <2>2. latest' \in [Agents -> [Disks -> Procs \cup {NoCall}]]
      <3>1. r.vm \in Agents /\ r.disk \in Disks
        BY DEF Request
      <3>2. latest[r.vm] \in [Disks -> Procs \cup {NoCall}]
        BY <3>1 DEF TypeOK
      <3>3. [latest[r.vm] EXCEPT ![r.disk] = p] \in [Disks -> Procs \cup {NoCall}]
        BY <3>2
      <3>4. QED
        BY <2>1, <3>1, <3>3 DEF TypeOK
    <2>3. QED
      BY <1>1, <2>1, <2>2 DEF Begin, TypeOK, Calls
  <1>2. ASSUME NEW p \in Procs, GetPod(p) PROVE TypeOK'
    BY <1>2 DEF GetPod, Accepts, TypeOK, Calls, Request
  <1>3. ASSUME NEW p \in Procs, GetConfigMap(p) PROVE TypeOK'
    BY <1>3 DEF GetConfigMap, TypeOK, Calls, Request
  <1>4. ASSUME NEW p \in Procs, UpdateConfigMap(p) PROVE TypeOK'
    <2>1. req[p] \in Request /\ cm[p] \in ConfigMap
      BY <1>4 DEF UpdateConfigMap, TypeOK
    <2>2. Record(req[p], cm[p].disks) \in SUBSET Disks
      BY <2>1 DEF Record, Request, ConfigMap
    <2>3. configMaps[req[p].vm].rv + 1 \in Nat
      BY <2>1 DEF TypeOK, Request, ConfigMap
    <2>4. configMaps' \in [Agents -> ConfigMap] /\ cm' \in [Procs -> ConfigMap]
      BY <1>4, <2>2, <2>3 DEF UpdateConfigMap, TypeOK, ConfigMap, NoConfigMap
    <2>5. Answer(p, "delete") /\ At(p, "update_cm")
          /\ UNCHANGED <<pods, req, stream, timer, latest, address>>
      BY <1>4 DEF UpdateConfigMap
    <2>6. QED
      BY <2>4, <2>5, AnswerType DEF TypeOK
  <1>5. ASSUME NEW p \in Procs, DeletePod(p) PROVE TypeOK'
    <2>1. stream' \in [Procs -> Seq(Event)]
      BY <1>5, NotifyType DEF DeletePod, Accepts, TypeOK, Request, Calls
    <2>2. Answer(p, "create") /\ At(p, "delete")
          /\ UNCHANGED <<configMaps, req, cm, timer, latest, address>>
      BY <1>5 DEF DeletePod
    <2>3. pods' \in [Agents -> Pod \cup {NoPod}]
      BY <1>5 DEF DeletePod, TypeOK
    <2>4. QED
      BY <2>1, <2>2, <2>3, AnswerType DEF TypeOK
  <1>6. ASSUME NEW p \in Procs, CreatePod(p) PROVE TypeOK'
    <2>1. Stored(Resubmitted(p), p) \in Pod
      BY <1>6, ResubmittedOfCall DEF CreatePod
    <2>2. stream' \in [Procs -> Seq(Event)]
      BY <1>6, <2>1, NotifyType DEF CreatePod, TypeOK, Request
    <2>3. Stored(Resubmitted(p), p).ann \in Address
      BY <2>1 DEF Pod
    <2>4. pods' \in [Agents -> Pod \cup {NoPod}] /\ address' \in [Agents -> Address]
      BY <1>6, <2>1, <2>3 DEF CreatePod, TypeOK
    <2>5. /\ pc[p] = "create" /\ outcome[p] = "running"
          /\ copy' = [copy EXCEPT ![p] = NoPod]
          /\ UNCHANGED <<configMaps, req, cm, timer, latest>>
          /\ \/ pc' = [pc EXCEPT ![p] = "watch"] /\ outcome' = outcome
             \/ pc' = pc /\ outcome' = [outcome EXCEPT ![p] = "broken"]
      BY <1>6 DEF CreatePod, Forgets
    <2>6. CASE pc' = [pc EXCEPT ![p] = "watch"] /\ outcome' = outcome
      BY <2>2, <2>4, <2>5, <2>6 DEF TypeOK, Calls
    <2>7. CASE pc' = pc /\ outcome' = [outcome EXCEPT ![p] = "broken"]
      BY <2>2, <2>4, <2>5, <2>7 DEF TypeOK, Calls
    <2>8. QED
      BY <2>5, <2>6, <2>7
  <1>7. ASSUME NEW p \in Procs, OpenWatch(p) PROVE TypeOK'
    BY <1>7 DEF OpenWatch, TypeOK, Calls
  <1>8. ASSUME NEW p \in Procs, ReadEvent(p) PROVE TypeOK'
    <2>1. <<>> \in Seq(Event) /\ Tail(stream[p]) \in Seq(Event)
      BY <1>8 DEF ReadEvent, TypeOK
    <2>2. /\ pc[p] = "wait" /\ outcome[p] = "running"
          /\ UNCHANGED <<pods, configMaps, req, copy, cm, latest, address>>
      BY <1>8 DEF ReadEvent
    <2>3. \/ /\ pc' = [pc EXCEPT ![p] = "sleep"] /\ outcome' = outcome
             /\ stream' = [stream EXCEPT ![p] = <<>>]
             /\ timer' = [timer EXCEPT ![p] = "off"]
          \/ /\ UNCHANGED <<pc, timer, outcome>>
             /\ stream' = [stream EXCEPT ![p] = Tail(stream[p])]
          \/ /\ pc' = pc /\ outcome' = [outcome EXCEPT ![p] = "unexpected"]
             /\ stream' = [stream EXCEPT ![p] = <<>>]
             /\ timer' = [timer EXCEPT ![p] = "off"]
      BY <1>8 DEF ReadEvent, StopWaiting
    <2>4. CASE /\ pc' = [pc EXCEPT ![p] = "sleep"] /\ outcome' = outcome
               /\ stream' = [stream EXCEPT ![p] = <<>>]
               /\ timer' = [timer EXCEPT ![p] = "off"]
      BY <2>1, <2>2, <2>4 DEF TypeOK
    <2>5. CASE /\ UNCHANGED <<pc, timer, outcome>>
               /\ stream' = [stream EXCEPT ![p] = Tail(stream[p])]
      BY <2>1, <2>2, <2>5 DEF TypeOK
    <2>6. CASE /\ pc' = pc /\ outcome' = [outcome EXCEPT ![p] = "unexpected"]
               /\ stream' = [stream EXCEPT ![p] = <<>>]
               /\ timer' = [timer EXCEPT ![p] = "off"]
      BY <2>1, <2>2, <2>6 DEF TypeOK
    <2>7. QED
      BY <2>3, <2>4, <2>5, <2>6
  <1>9. ASSUME NEW p \in Procs, TimesOut(p) PROVE TypeOK'
    BY <1>9 DEF TimesOut, StopWaiting, TypeOK
  <1>10. ASSUME NEW p \in Procs, Sleep(p) PROVE TypeOK'
    BY <1>10 DEF Sleep, TypeOK
  <1>11. ASSUME NEW p \in Procs, Refused(p) PROVE TypeOK'
    BY <1>11 DEF Refused, Forgets, TypeOK, ConfigMap, NoConfigMap
  <1>12. ASSUME NEW p \in Procs, Breaks(p) PROVE TypeOK'
    BY <1>12 DEF Breaks, StopWaiting, Forgets, TypeOK, ConfigMap, NoConfigMap
  <1>13. ASSUME NEW p \in Procs, TimerFires(p) PROVE TypeOK'
    BY <1>13 DEF TimerFires, TypeOK
  <1>14. ASSUME NEW a \in Agents, KubeletReports(a) PROVE TypeOK'
    <2>1. PICK pod \in Reports(pods[a]) :
            pods' = [pods EXCEPT ![a] = pod] /\ Notify(a, "MODIFIED", pod)
      BY <1>14 DEF KubeletReports
    <2>2. pod \in Pod
      BY <1>14, <2>1, ReportsType DEF KubeletReports, TypeOK
    <2>3. stream' \in [Procs -> Seq(Event)]
      BY <2>1, <2>2, NotifyType
    <2>4. QED
      BY <1>14, <2>1, <2>2, <2>3 DEF KubeletReports, TypeOK
  <1>15. CASE UNCHANGED vars
    BY <1>15 DEF vars, TypeOK
  <1>16. QED
    BY <1>1, <1>2, <1>3, <1>4, <1>5, <1>6, <1>7, <1>8, <1>9, <1>10, <1>11,
       <1>12, <1>13, <1>14, <1>15 DEF Next, Step

\* The variables of VolumeManager keep their types.
THEOREM TypeCorrect == Spec => []TypeOK
  BY InitType, NextType, PTL DEF Spec

-----------------------------------------------------------------------------
(* The window between Delete and Create *)

\* A step other than DeletePod and CreatePod brings no call into the window
\* and no VM's pod into existence.
LEMMA WindowFrame ==
    ASSUME TypeOK, [Next]_vars,
           ~\E p \in Procs : DeletePod(p) \/ CreatePod(p)
    PROVE  /\ \A p \in Procs : At(p, "create")' => At(p, "create") /\ req'[p] = req[p]
           /\ \A a \in Agents : pods[a] = NoPod => pods'[a] = NoPod
  <1> DEFINE Frame == /\ \A p \in Procs : At(p, "create")' => At(p, "create") /\ req'[p] = req[p]
                      /\ \A a \in Agents : pods[a] = NoPod => pods'[a] = NoPod
  <1> USE DEF At, InProgress, Goto, Ends, cluster, history, TypeOK
  <1>1. ASSUME NEW p \in Procs, Begin(p) PROVE Frame
    BY <1>1 DEF Begin
  <1>2. ASSUME NEW p \in Procs, GetPod(p) \/ GetConfigMap(p) \/ OpenWatch(p) PROVE Frame
    BY <1>2 DEF GetPod, GetConfigMap, OpenWatch
  <1>3. ASSUME NEW p \in Procs, UpdateConfigMap(p) PROVE Frame
    BY <1>3 DEF UpdateConfigMap, Answer
  <1>4. ASSUME NEW p \in Procs, ReadEvent(p) PROVE Frame
    BY <1>4 DEF ReadEvent
  <1>5. ASSUME NEW p \in Procs, TimesOut(p) \/ Sleep(p) \/ Refused(p) PROVE Frame
    BY <1>5 DEF TimesOut, Sleep, Refused
  <1>6. ASSUME NEW p \in Procs, Breaks(p) \/ TimerFires(p) PROVE Frame
    BY <1>6 DEF Breaks, TimerFires
  <1>7. ASSUME NEW a \in Agents, KubeletReports(a) PROVE Frame
    BY <1>7 DEF KubeletReports
  <1>8. CASE UNCHANGED vars
    BY <1>8 DEF vars
  <1>9. QED
    BY <1>1, <1>2, <1>3, <1>4, <1>5, <1>6, <1>7, <1>8 DEF Next, Step

\* Only one call at a time is between Delete and Create of a VM, and the VM
\* has no pod then: WindowExclusive is inductive over TypeOK, because a
\* Delete needs a pod and a Create ends the only window there is.
LEMMA NextWindow == TypeOK /\ WindowExclusive /\ [Next]_vars => WindowExclusive'
  <1> SUFFICES ASSUME TypeOK, WindowExclusive, [Next]_vars PROVE WindowExclusive'
    OBVIOUS
  <1>1. ASSUME NEW p \in Procs, DeletePod(p) PROVE WindowExclusive'
    <2>1. /\ pc[p] = "delete" /\ pods[req[p].vm] # NoPod
          /\ req[p].vm \in Agents
          /\ pods' = [pods EXCEPT ![req[p].vm] = NoPod] /\ req' = req
          /\ \/ pc' = [pc EXCEPT ![p] = "create"] /\ outcome' = outcome
             \/ pc' = pc /\ outcome' = [outcome EXCEPT ![p] = "broken"]
      BY <1>1 DEF DeletePod, At, Accepts, Answer, Goto, Ends, TypeOK, Request
    <2>2. \A q \in Procs : At(q, "create") => req[q].vm # req[p].vm
      BY <2>1 DEF WindowExclusive
    <2>3. \A q \in Procs : At(q, "create")' => At(q, "create") \/ q = p
      BY <2>1 DEF At, TypeOK
    <2>4. \A q \in Procs : At(q, "create")' => pods'[req[q].vm] = NoPod
      BY <2>1, <2>3 DEF WindowExclusive, TypeOK
    <2>5. QED
      BY <2>1, <2>2, <2>3, <2>4 DEF WindowExclusive
  <1>2. ASSUME NEW p \in Procs, CreatePod(p) PROVE WindowExclusive'
    <2>1. /\ At(p, "create") /\ req' = req
          /\ \A a \in Agents : a # req[p].vm => pods'[a] = pods[a]
          /\ \/ pc' = [pc EXCEPT ![p] = "watch"] /\ outcome' = outcome
             \/ pc' = pc /\ outcome' = [outcome EXCEPT ![p] = "broken"]
      BY <1>2 DEF CreatePod, Answer, Goto, Ends, TypeOK
    <2>2. \A q \in Procs : At(q, "create")' => At(q, "create") /\ q # p
      BY <2>1 DEF At, TypeOK
    <2>3. \A q \in Procs : At(q, "create") => req[q].vm \in Agents
      BY DEF At, InProgress, TypeOK, Request
    <2>4. QED
      BY <2>1, <2>2, <2>3 DEF WindowExclusive
  <1>3. CASE ~\E p \in Procs : DeletePod(p) \/ CreatePod(p)
    <2>1. \A q \in Procs : At(q, "create") => req[q].vm \in Agents
      BY DEF At, InProgress, TypeOK, Request
    <2>2. QED
      BY <1>3, <2>1, WindowFrame DEF WindowExclusive
  <1>4. QED
    BY <1>1, <1>2, <1>3

\* recreatePod's window between Delete (106) and Create (111) is exclusive.
THEOREM WindowIsExclusive == Spec => []WindowExclusive
  <1>1. Init => WindowExclusive
    BY DEF Init, WindowExclusive, At
  <1>2. QED
    BY <1>1, TypeCorrect, NextWindow, PTL DEF Spec

-----------------------------------------------------------------------------
(* The settings in the config map *)

\* The config map a call has read is an earlier version or the current one,
\* and versions identify contents: what lets the server tell, by the version
\* alone, that the call would write over something it has not seen.
VersionInv ==
    \A p \in Procs : At(p, "update_cm") =>
        LET now == configMaps[req[p].vm] IN
        cm[p].rv <= now.rv /\ (cm[p].rv = now.rv => cm[p].disks = now.disks)

\* A step other than GetConfigMap and UpdateConfigMap leaves alone the config
\* maps and what the calls about to update one have read.
LEMMA VersionFrame ==
    ASSUME TypeOK, [Next]_vars,
           ~\E p \in Procs : GetConfigMap(p) \/ UpdateConfigMap(p)
    PROVE  /\ configMaps' = configMaps
           /\ \A p \in Procs : At(p, "update_cm")' =>
                At(p, "update_cm") /\ req'[p] = req[p] /\ cm'[p] = cm[p]
  <1> DEFINE Frame == /\ configMaps' = configMaps
                      /\ \A p \in Procs : At(p, "update_cm")' =>
                           At(p, "update_cm") /\ req'[p] = req[p] /\ cm'[p] = cm[p]
  <1> USE DEF At, InProgress, Goto, Ends, cluster, history, TypeOK
  <1>1. ASSUME NEW p \in Procs, Begin(p) PROVE Frame
    BY <1>1 DEF Begin
  <1>2. ASSUME NEW p \in Procs, GetPod(p) \/ OpenWatch(p) PROVE Frame
    BY <1>2 DEF GetPod, OpenWatch
  <1>3. ASSUME NEW p \in Procs, DeletePod(p) \/ CreatePod(p) PROVE Frame
    BY <1>3 DEF DeletePod, CreatePod, Answer
  <1>4. ASSUME NEW p \in Procs, ReadEvent(p) PROVE Frame
    BY <1>4 DEF ReadEvent
  <1>5. ASSUME NEW p \in Procs, TimesOut(p) \/ Sleep(p) \/ Refused(p) PROVE Frame
    BY <1>5 DEF TimesOut, Sleep, Refused
  <1>6. ASSUME NEW p \in Procs, Breaks(p) \/ TimerFires(p) PROVE Frame
    BY <1>6 DEF Breaks, TimerFires
  <1>7. ASSUME NEW a \in Agents, KubeletReports(a) PROVE Frame
    BY <1>7 DEF KubeletReports
  <1>8. CASE UNCHANGED vars
    BY <1>8 DEF vars
  <1>9. QED
    BY <1>1, <1>2, <1>3, <1>4, <1>5, <1>6, <1>7, <1>8 DEF Next, Step

LEMMA NextVersion == TypeOK /\ VersionInv /\ [Next]_vars => VersionInv'
  <1> SUFFICES ASSUME TypeOK, VersionInv, [Next]_vars PROVE VersionInv'
    OBVIOUS
  <1>1. \A q \in Procs : At(q, "update_cm") =>
           req[q].vm \in Agents /\ cm[q].rv \in Nat /\ configMaps[req[q].vm].rv \in Nat
    BY DEF At, InProgress, TypeOK, Request, ConfigMap
  <1>2. ASSUME NEW p \in Procs, GetConfigMap(p) PROVE VersionInv'
    <2>1. /\ configMaps' = configMaps /\ req' = req
          /\ cm' = [cm EXCEPT ![p] = configMaps[req[p].vm]]
          /\ pc' = [pc EXCEPT ![p] = "update_cm"] /\ outcome' = outcome
          /\ req[p].vm \in Agents
      BY <1>2 DEF GetConfigMap, At, InProgress, Goto, cluster, TypeOK, Request
    <2>2. configMaps[req[p].vm].rv \in Nat
      BY <2>1 DEF TypeOK, ConfigMap
    <2>3. \A q \in Procs : At(q, "update_cm")' => At(q, "update_cm") \/ q = p
      BY <2>1 DEF At, TypeOK
    <2>4. QED
      BY <1>1, <2>1, <2>2, <2>3 DEF VersionInv, TypeOK
  <1>3. ASSUME NEW p \in Procs, UpdateConfigMap(p) PROVE VersionInv'
    <2> DEFINE a == req[p].vm
    <2>1. /\ At(p, "update_cm") /\ req' = req
          /\ cm' = [cm EXCEPT ![p] = NoConfigMap]
          /\ configMaps' = [configMaps EXCEPT ![a] =
                [disks |-> Record(req[p], cm[p].disks), rv |-> configMaps[a].rv + 1]]
          /\ \/ pc' = [pc EXCEPT ![p] = "delete"] /\ outcome' = outcome
             \/ pc' = pc /\ outcome' = [outcome EXCEPT ![p] = "broken"]
      BY <1>3 DEF UpdateConfigMap, Answer, Goto, Ends
    <2>2. \A q \in Procs : At(q, "update_cm")' => At(q, "update_cm") /\ q # p
      BY <2>1 DEF At, TypeOK
    <2>3. configMaps'[a].rv = configMaps[a].rv + 1
      BY <1>1, <2>1 DEF TypeOK
    <2>4. ASSUME NEW q \in Procs, At(q, "update_cm")'
          PROVE  LET now == configMaps'[req'[q].vm] IN
                 cm'[q].rv <= now.rv /\ (cm'[q].rv = now.rv => cm'[q].disks = now.disks)
      <3>1. At(q, "update_cm") /\ q # p /\ cm'[q] = cm[q] /\ req'[q] = req[q]
        BY <2>1, <2>2, <2>4 DEF TypeOK
      <3>2. CASE req[q].vm = a
        BY <1>1, <2>3, <3>1, <3>2 DEF VersionInv
      <3>3. CASE req[q].vm # a
        BY <1>1, <2>1, <3>1, <3>3 DEF VersionInv, TypeOK
      <3>4. QED
        BY <3>2, <3>3
    <2>5. QED
      BY <2>4 DEF VersionInv
  <1>4. CASE ~\E p \in Procs : GetConfigMap(p) \/ UpdateConfigMap(p)
    BY <1>4, VersionFrame DEF VersionInv
  <1>5. QED
    BY <1>2, <1>3, <1>4

\* A step changes a config map only by one request, applied to what is stored.
LEMMA StepIsAtomic == TypeOK /\ VersionInv /\ [Next]_vars => [AtomicUpdate]_vars
  <1> SUFFICES ASSUME TypeOK, VersionInv, [Next]_vars PROVE AtomicUpdate
    OBVIOUS
  <1>1. ASSUME NEW p \in Procs, UpdateConfigMap(p) PROVE AtomicUpdate
    <2> DEFINE a == req[p].vm
    <2>1. /\ At(p, "update_cm") /\ cm[p].rv = configMaps[a].rv
          /\ configMaps' = [configMaps EXCEPT ![a] =
                [disks |-> Record(req[p], cm[p].disks), rv |-> configMaps[a].rv + 1]]
      BY <1>1 DEF UpdateConfigMap, Accepts, At
    <2>2. cm[p].disks = configMaps[a].disks
      BY <2>1 DEF VersionInv
    <2>3. QED
      BY <2>1, <2>2 DEF AtomicUpdate, TypeOK
  <1>2. ASSUME NEW p \in Procs, GetConfigMap(p) PROVE AtomicUpdate
    BY <1>2 DEF GetConfigMap, AtomicUpdate, cluster
  <1>3. CASE ~\E p \in Procs : GetConfigMap(p) \/ UpdateConfigMap(p)
    BY <1>3, VersionFrame DEF AtomicUpdate
  <1>4. QED
    BY <1>1, <1>2, <1>3

\* updateConfigMapDisks is atomic although it is three steps (126-164).
THEOREM ConfigMapUpdatesAreAtomic == Spec => UpdatesAreAtomic
  <1>1. Init => VersionInv
    BY DEF Init, VersionInv, At
  <1>2. QED
    BY <1>1, TypeCorrect, NextVersion, StepIsAtomic, PTL DEF Spec, UpdatesAreAtomic

=============================================================================
