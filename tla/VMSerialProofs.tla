---------------------------- MODULE VMSerialProofs ----------------------------
(***************************************************************************)
(* What attach_disk and detach_disk guarantee a director that makes one    *)
(* call at a time on a VM, and that they then implement AttachedDisks.     *)
(*                                                                         *)
(* The argument is that nobody else touches a VM during a call: what the   *)
(* call read of the pod still describes the pod it deletes, so creating    *)
(* the copy undoes nothing.                                                *)
(***************************************************************************)
EXTENDS VolumeManagerImpl, VMRaceProofs

SameSpec(x, y) == x.volumes = y.volumes /\ x.mounts = y.mounts /\ x.ann = y.ann

\* The last call that named the disk succeeded, or there was none.
Settled(a, d) == latest[a][d] = NoCall \/ outcome[latest[a][d]] = "ok"

OneAtATime ==
    \A p, q \in Procs : InProgress(p) /\ InProgress(q) /\ req[p].vm = req[q].vm => p = q

\* Of a call in progress: until its Delete its copy is the pod; until its
\* Create the copy has the VM's address and, of the settled disks, those in the
\* settings; from its Update on the settings are as it was asked, and from its
\* Create on the pod is.
CallOK(p) ==
    LET a == req[p].vm IN
    /\ latest[a][req[p].disk] = p
    /\ pc[p] \in {"get_cm", "update_cm", "delete"} =>
          pods[a] # NoPod /\ SameSpec(copy[p], pods[a])
    /\ pc[p] \in {"get_cm", "update_cm", "delete", "create"} =>
          (address[a] # NoIP => copy[p].ann = address[a])
    /\ pc[p] \in {"delete", "create", "watch", "wait", "sleep"} =>
          (req[p].disk \in configMaps[a].disks <=> req[p].op = "Add")
    /\ pc[p] = "create" =>
          \A d \in Disks : d # req[p].disk /\ Settled(a, d) =>
              AgreeOn(copy[p], configMaps[a].disks, d)
    /\ pc[p] \in {"watch", "wait", "sleep"} =>
          pods[a] # NoPod /\ AsAsked(p, req[p], pods[a])

VMOK(a) ==
    /\ pods[a] # NoPod /\ address[a] # NoIP => pods[a].ann = address[a]
    /\ \A d \in Disks : latest[a][d] # NoCall =>
          /\ pc[latest[a][d]] # "idle"
          /\ req[latest[a][d]].vm = a /\ req[latest[a][d]].disk = d
    /\ \A d \in Disks : pods[a] # NoPod /\ Settled(a, d) =>
          AgreeOn(pods[a], configMaps[a].disks, d)

SerialInv ==
    /\ OneAtATime
    /\ \A p \in Procs : InProgress(p) => CallOK(p)
    /\ \A a \in Agents : VMOK(a)

-----------------------------------------------------------------------------
\* Whether a disk of another VM is settled does not change.
LEMMA SettledElsewhere ==
    ASSUME TypeOK, NEW p \in Procs, Elsewhere(p),
           NEW b \in Agents, b # req[p].vm, VMOK(b), NEW d \in Disks
    PROVE  Settled(b, d)' <=> Settled(b, d)
<1>1. latest[b][d] \in Procs \cup {NoCall} /\ latest' = latest
  BY DEF TypeOK, Elsewhere
<1>2. CASE latest[b][d] = NoCall
  BY <1>1, <1>2 DEF Settled
<1>3. CASE latest[b][d] # NoCall
  <2>1. latest[b][d] # p /\ latest[b][d] \in Procs
    BY <1>1, <1>3 DEF VMOK
  <2> QED
    BY <1>1, <1>3, <2>1 DEF Settled, Elsewhere
<1> QED
  BY <1>2, <1>3

LEMMA OtherCallsKeep ==
    ASSUME TypeOK, SerialInv, NEW p \in Procs, InProgress(p), Elsewhere(p),
           NEW q \in Procs, q # p, InProgress(q)'
    PROVE  CallOK(q)'
<1>1. /\ InProgress(q) /\ pc'[q] = pc[q] /\ req'[q] = req[q] /\ copy'[q] = copy[q]
      /\ latest' = latest
  BY DEF Elsewhere, InProgress
<1>2. req[q].vm \in Agents /\ req[q].vm # req[p].vm
  BY <1>1, CallTypes DEF SerialInv, OneAtATime
<1>3. CallOK(q) /\ VMOK(req[q].vm)
  BY <1>1, <1>2 DEF SerialInv
<1>4. /\ pods'[req[q].vm] = pods[req[q].vm] /\ address'[req[q].vm] = address[req[q].vm]
      /\ configMaps'[req[q].vm] = configMaps[req[q].vm]
  BY <1>2 DEF Elsewhere
<1>5. \A d \in Disks : Settled(req[q].vm, d)' <=> Settled(req[q].vm, d)
  <2>1. PICK b \in Agents : b = req[q].vm
    BY <1>2
  <2>2. \A d \in Disks : /\ Settled(req[q].vm, d) <=> Settled(b, d)
                         /\ Settled(req[q].vm, d)' <=> Settled(b, d)'
    BY <1>1, <2>1 DEF Settled
  <2> QED
    BY <1>2, <1>3, <2>1, <2>2, SettledElsewhere
<1> QED
  BY <1>1, <1>3, <1>4, <1>5 DEF CallOK

LEMMA OtherVMsKeep ==
    ASSUME TypeOK, SerialInv, NEW p \in Procs, InProgress(p), pc'[p] # "idle", Elsewhere(p),
           NEW b \in Agents, b # req[p].vm
    PROVE  VMOK(b)'
<1>1. VMOK(b) /\ req' = req /\ latest' = latest
  BY DEF SerialInv, Elsewhere
<1>2. /\ pods'[b] = pods[b] /\ address'[b] = address[b] /\ configMaps'[b] = configMaps[b]
  BY DEF Elsewhere
<1>3. \A d \in Disks : Settled(b, d)' <=> Settled(b, d)
  BY <1>1, SettledElsewhere
<1>4. \A l \in Procs : pc[l] # "idle" => pc'[l] # "idle"
  BY DEF Elsewhere
<1>5. \A d \in Disks : latest[b][d] \in Procs \cup {NoCall}
  BY DEF TypeOK
<1> QED
  BY <1>1, <1>2, <1>3, <1>4, <1>5 DEF VMOK

\* No call has become successful, and the VM's objects are as they were or the
\* pod is gone.
LEMMA VMFrame ==
    ASSUME TypeOK, NEW a \in Agents, VMOK(a),
           pods'[a] \in {pods[a], NoPod}, configMaps'[a] = configMaps[a],
           address'[a] = address[a], latest' = latest, req' = req,
           \A l \in Procs : outcome'[l] = "ok" => outcome[l] = "ok",
           \A l \in Procs : pc[l] # "idle" => pc'[l] # "idle"
    PROVE  VMOK(a)'
<1>1. \A d \in Disks : latest[a][d] \in Procs \cup {NoCall}
  BY DEF TypeOK
<1>2. \A d \in Disks : Settled(a, d)' => Settled(a, d)
  BY <1>1 DEF Settled
<1> QED
  BY <1>1, <1>2 DEF VMOK

-----------------------------------------------------------------------------
\* A request of one call: only the call and its VM are left to look at.
LEMMA MoveKeeps ==
    ASSUME TypeOK, SerialInv, NEW p \in Procs, Moves(p),
           NEW a \in Agents, a = req[p].vm,
           InProgress(p)' => CallOK(p)', VMOK(a)'
    PROVE  SerialInv'
<1>1. InProgress(p) /\ pc'[p] # "idle" /\ Elsewhere(p)
  BY MovesElsewhere
<1>2. \A q \in Procs : InProgress(q)' => InProgress(q) /\ req'[q] = req[q]
  BY <1>1 DEF Elsewhere, InProgress
<1>3. OneAtATime'
  BY <1>2 DEF SerialInv, OneAtATime
<1>4. \A q \in Procs : InProgress(q)' => CallOK(q)'
  BY <1>1, OtherCallsKeep
<1>5. \A b \in Agents : VMOK(b)'
  BY <1>1, OtherVMsKeep
<1> QED
  BY <1>3, <1>4, <1>5 DEF SerialInv

LEMMA BeginSerial ==
    ASSUME Serialised, TypeOK, SerialInv, NEW p \in Procs, Begin(p)
    PROVE  SerialInv'
<1> USE DEF At, Goto, Ends, cluster
<1>1. PICK r \in Request :
        /\ ~\E q \in Procs : InProgress(q) /\ req[q].vm = r.vm
        /\ req' = [req EXCEPT ![p] = r]
        /\ latest' = [latest EXCEPT ![r.vm][r.disk] = p]
        /\ pc' = [pc EXCEPT ![p] = "get_pod"]
        /\ outcome' = outcome \/ outcome' = [outcome EXCEPT ![p] = "mismatch"]
        /\ pc[p] = "idle" /\ outcome[p] = "running"
        /\ UNCHANGED <<pods, configMaps, copy, address>>
  BY DEF Begin
<1>2. /\ r.vm \in Agents /\ r.disk \in Disks
      /\ \A a \in Agents, d \in Disks :
           latest'[a][d] = IF a = r.vm /\ d = r.disk THEN p ELSE latest[a][d]
      /\ \A a \in Agents, d \in Disks : latest[a][d] \in Procs \cup {NoCall}
  BY <1>1 DEF TypeOK, Request
<1>3. \A a \in Agents, d \in Disks : latest[a][d] # p
  BY <1>1, <1>2, NoCallAssumption DEF SerialInv, VMOK
<1>4. /\ req'[p] = r /\ pc'[p] = "get_pod" /\ outcome'[p] \in {"running", "mismatch"}
      /\ \A q \in Procs : q # p => /\ pc'[q] = pc[q] /\ outcome'[q] = outcome[q]
                                   /\ req'[q] = req[q]
  BY <1>1 DEF TypeOK
<1>5. \A q \in Procs : q # p /\ InProgress(q)' =>
          InProgress(q) /\ req[q].vm # r.vm /\ req[q].vm \in Agents
  BY <1>1, <1>4, CallTypes DEF InProgress
<1>6. OneAtATime'
  BY <1>4, <1>5 DEF SerialInv, OneAtATime, InProgress
<1>7. \A a \in Agents, d \in Disks :
          Settled(a, d)' <=> Settled(a, d) /\ ~(a = r.vm /\ d = r.disk)
  <2> SUFFICES ASSUME NEW a \in Agents, NEW d \in Disks
               PROVE  Settled(a, d)' <=> Settled(a, d) /\ ~(a = r.vm /\ d = r.disk)
    OBVIOUS
  <2>1. CASE a = r.vm /\ d = r.disk
    BY <1>2, <1>4, <2>1, NoCallAssumption DEF Settled
  <2>2. CASE ~(a = r.vm /\ d = r.disk)
    BY <1>2, <1>3, <1>4, <2>2 DEF Settled
  <2> QED
    BY <2>1, <2>2
<1>8. ASSUME NEW q \in Procs, InProgress(q)'
      PROVE  CallOK(q)'
  <2>1. CASE q = p
    BY <1>2, <1>4, <2>1 DEF CallOK
  <2>2. CASE q # p
    <3>1. CallOK(q) /\ req[q].vm \in Agents /\ req[q].vm # r.vm /\ req[q].disk \in Disks
      BY <1>5, <1>8, <2>2, CallTypes DEF SerialInv
    <3>2. /\ latest'[req[q].vm][req[q].disk] = latest[req[q].vm][req[q].disk]
          /\ pc'[q] = pc[q] /\ req'[q] = req[q]
      BY <1>2, <1>4, <2>2, <3>1
    <3>3. \A d \in Disks : Settled(req[q].vm, d)' => Settled(req[q].vm, d)
      <4>1. PICK b \in Agents : b = req[q].vm
        BY <3>1
      <4>2. \A d \in Disks : /\ Settled(req[q].vm, d) <=> Settled(b, d)
                             /\ Settled(req[q].vm, d)' <=> Settled(b, d)'
        BY <3>2, <4>1 DEF Settled
      <4> QED
        BY <1>7, <4>2
    <3> QED
      BY <1>1, <3>1, <3>2, <3>3 DEF CallOK
  <2> QED
    BY <2>1, <2>2
<1>9. ASSUME NEW a \in Agents
      PROVE  VMOK(a)'
  <2>1. VMOK(a)
    BY DEF SerialInv
  <2>2. ASSUME NEW d \in Disks, latest'[a][d] # NoCall
        PROVE  /\ pc'[latest'[a][d]] # "idle"
               /\ req'[latest'[a][d]].vm = a /\ req'[latest'[a][d]].disk = d
    <3>1. CASE a = r.vm /\ d = r.disk
      BY <1>2, <1>4, <3>1
    <3>2. CASE ~(a = r.vm /\ d = r.disk)
      <4>1. latest'[a][d] = latest[a][d] /\ latest[a][d] # p /\ latest[a][d] \in Procs
        BY <1>2, <1>3, <2>2, <3>2
      <4> QED
        BY <1>4, <2>1, <2>2, <4>1 DEF VMOK
    <3> QED
      BY <3>1, <3>2
  <2>3. \A d \in Disks : pods'[a] # NoPod /\ Settled(a, d)' =>
            AgreeOn(pods'[a], configMaps'[a].disks, d)
    BY <1>1, <1>7, <2>1 DEF VMOK
  <2> QED
    BY <1>1, <2>1, <2>2, <2>3 DEF VMOK
<1> QED
  BY <1>6, <1>8, <1>9 DEF SerialInv

LEMMA ReportsSerial ==
    ASSUME TypeOK, SerialInv, NEW a \in Agents, KubeletReports(a)
    PROVE  SerialInv'
<1> USE DEF history
<1>1. PICK new \in Reports(pods[a]) :
        /\ pods[a] \in Pod /\ pods[a] # NoPod /\ pods' = [pods EXCEPT ![a] = new]
        /\ UNCHANGED <<configMaps, req, pc, copy, outcome, latest, address>>
  BY DEF KubeletReports, TypeOK
<1>2. /\ new # NoPod /\ SameSpec(new, pods[a]) /\ new.uid = pods[a].uid
  BY <1>1, ReportsType, ReportsKeep, NoPodAssumption DEF SameSpec
<1>3. \A b \in Agents : /\ pods'[b] # NoPod <=> pods[b] # NoPod
                        /\ SameSpec(pods'[b], pods[b]) /\ pods'[b].uid = pods[b].uid
  <2> SUFFICES ASSUME NEW b \in Agents
               PROVE  /\ pods'[b] # NoPod <=> pods[b] # NoPod
                      /\ SameSpec(pods'[b], pods[b]) /\ pods'[b].uid = pods[b].uid
    OBVIOUS
  <2>1. CASE b = a
    BY <1>1, <1>2, <2>1 DEF TypeOK
  <2>2. CASE b # a
    BY <1>1, <2>2 DEF TypeOK, SameSpec
  <2> QED
    BY <2>1, <2>2
<1>4. \A b, d : Settled(b, d)' <=> Settled(b, d)
  BY <1>1 DEF Settled
<1>5. ASSUME NEW q \in Procs, InProgress(q)'
      PROVE  CallOK(q)'
  <2>1. CallOK(q) /\ req[q].vm \in Agents
    BY <1>1, <1>5, CallTypes DEF SerialInv, InProgress
  <2>2. \A d \in Disks : Settled(req[q].vm, d)' <=> Settled(req[q].vm, d)
    BY <1>1 DEF Settled
  <2> QED
    BY <1>1, <1>3, <2>1, <2>2 DEF CallOK, SameSpec, AsAsked
<1>6. ASSUME NEW b \in Agents
      PROVE  VMOK(b)'
  <2>1. VMOK(b)
    BY DEF SerialInv
  <2> QED
    BY <1>1, <1>3, <1>4, <2>1 DEF VMOK, SameSpec, AgreeOn
<1>7. OneAtATime'
  BY <1>1 DEF SerialInv, OneAtATime, InProgress
<1> QED
  BY <1>5, <1>6, <1>7 DEF SerialInv

\* The requests of one call, each with what it does to the call and its VM.
LEMMA MoveSerial ==
    ASSUME TypeOK, Sound, VersionInv, SerialInv, NEW p \in Procs, Moves(p)
    PROVE  SerialInv'
<1>a. PICK a \in Agents, d \in Disks : a = req[p].vm /\ d = req[p].disk
  BY MovesElsewhere, CallTypes
<1> USE DEF At, Goto, Ends, cluster, history
<1>i. /\ InProgress(p) /\ pc'[p] # "idle" /\ req' = req /\ latest' = latest
      /\ req[p] \in Request
      /\ CallOK(p) /\ VMOK(a) /\ outcome[p] = "running"
      /\ \A q \in Procs : q # p => pc'[q] = pc[q] /\ outcome'[q] = outcome[q]
  BY <1>a, MovesElsewhere, CallTypes DEF SerialInv, Elsewhere, InProgress
<1>n. latest[a][d] = p /\ p # NoCall
  BY <1>i, <1>a, NoCallAssumption DEF CallOK
<1>l. ASSUME NEW e \in Disks, e # d
      PROVE  latest[a][e] # p
  BY <1>i, <1>a, <1>l, NoCallAssumption DEF VMOK
<1>s. ASSUME outcome'[p] # "ok", NEW e \in Disks
      PROVE  Settled(a, e)' <=> e # d /\ Settled(a, e)
  <2>1. latest[a][e] \in Procs \cup {NoCall}
    BY <1>i DEF TypeOK
  <2>2. CASE e = d
    BY <1>i, <1>n, <1>s, <2>2 DEF Settled
  <2>3. CASE e # d
    BY <1>i, <1>l, <2>1, <2>3 DEF Settled
  <2> QED
    BY <2>2, <2>3
<1> SUFFICES (InProgress(p)' => CallOK(p)') /\ VMOK(a)'
  BY <1>a, MoveKeeps
<1>1. ASSUME GetPod(p) \/ GetConfigMap(p)
      PROVE  CallOK(p)' /\ VMOK(a)'
  <2>1. /\ UNCHANGED <<pods, configMaps, outcome, address>>
        /\ \/ /\ pods[a] # NoPod /\ copy' = [copy EXCEPT ![p] = pods[a]]
              /\ pc'[p] = "get_cm"
           \/ copy' = copy /\ pc[p] = "get_cm" /\ pc'[p] = "update_cm"
    BY <1>1, <1>a DEF GetPod, GetConfigMap, Accepts, TypeOK
  <2>2. VMOK(a)'
    BY <1>i, <2>1, VMFrame
  <2>3. CallOK(p)'
    <3>1. CASE /\ pods[a] # NoPod /\ copy' = [copy EXCEPT ![p] = pods[a]]
               /\ pc'[p] = "get_cm"
      <4>1. copy'[p] = pods[a]
        BY <3>1 DEF TypeOK
      <4> QED
        BY <1>i, <1>n, <1>a, <2>1, <3>1, <4>1 DEF CallOK, VMOK, SameSpec
    <3>2. CASE copy' = copy /\ pc[p] = "get_cm" /\ pc'[p] = "update_cm"
      BY <1>i, <1>n, <1>a, <2>1, <3>2 DEF CallOK
    <3> QED
      BY <2>1, <3>1, <3>2
  <2> QED
    BY <2>2, <2>3
<1>2. ASSUME UpdateConfigMap(p)
      PROVE  (InProgress(p)' => CallOK(p)') /\ VMOK(a)'
  <2>1. /\ UNCHANGED <<pods, address>> /\ pc[p] = "update_cm"
        /\ cm[p].rv = configMaps[a].rv
        /\ configMaps'[a].disks = Record(req[p], cm[p].disks)
        /\ \/ pc'[p] = "delete" /\ outcome' = outcome /\ copy' = copy
           \/ outcome'[p] = "broken"
    BY <1>i, <1>2, <1>a DEF UpdateConfigMap, Accepts, Answer, TypeOK
  <2>2. configMaps'[a].disks = Record(req[p], configMaps[a].disks)
    BY <1>i, <1>a, <2>1 DEF VersionInv
  <2>3. /\ d \in configMaps'[a].disks <=> req[p].op = "Add"
        /\ \A e \in Disks : e # d => (e \in configMaps'[a].disks <=> e \in configMaps[a].disks)
    BY <1>a, <2>2 DEF Record
  <2>4. outcome'[p] # "ok"
    BY <1>i, <2>1
  <2>5. VMOK(a)'
    BY <1>i, <1>s, <2>1, <2>3, <2>4 DEF VMOK, AgreeOn, TypeOK
  <2>6. InProgress(p)' => CallOK(p)'
    <3> SUFFICES ASSUME InProgress(p)'
                 PROVE  CallOK(p)'
      OBVIOUS
    <3>1. pc'[p] = "delete" /\ copy' = copy
      BY <2>1 DEF InProgress
    <3> QED
      BY <1>i, <1>n, <1>a, <2>1, <2>3, <3>1 DEF CallOK
  <2> QED
    BY <2>5, <2>6
<1>3. ASSUME DeletePod(p)
      PROVE  (InProgress(p)' => CallOK(p)') /\ VMOK(a)'
  <2>1. /\ UNCHANGED <<configMaps, address>> /\ pc[p] = "delete" /\ pods[a] # NoPod
        /\ pods'[a] = NoPod
        /\ \/ pc'[p] = "create" /\ outcome' = outcome /\ copy' = copy
           \/ outcome'[p] = "broken"
    BY <1>i, <1>3, <1>a DEF DeletePod, Accepts, Answer, TypeOK
  <2>2. VMOK(a)'
    BY <1>i, <2>1, VMFrame
  <2>3. InProgress(p)' => CallOK(p)'
    <3> SUFFICES ASSUME InProgress(p)'
                 PROVE  CallOK(p)'
      OBVIOUS
    <3>1. pc'[p] = "create" /\ copy' = copy /\ outcome' = outcome
      BY <2>1 DEF InProgress
    <3>2. SameSpec(copy[p], pods[a])
      BY <1>i, <1>a, <2>1 DEF CallOK
    <3>3. \A e \in Disks : Settled(a, e) => AgreeOn(copy[p], configMaps[a].disks, e)
      BY <1>i, <2>1, <3>2 DEF VMOK, AgreeOn, SameSpec
    <3>4. \A e \in Disks : Settled(a, e)' <=> Settled(a, e)
      BY <1>i, <3>1 DEF Settled
    <3> QED
      BY <1>i, <1>n, <1>a, <2>1, <3>1, <3>3, <3>4 DEF CallOK, Settled
  <2> QED
    BY <2>2, <2>3
<1>4. ASSUME CreatePod(p)
      PROVE  (InProgress(p)' => CallOK(p)') /\ VMOK(a)'
  <2> DEFINE new == Stored(Resubmitted(p), p)
  <2>1. /\ UNCHANGED configMaps /\ pc[p] = "create"
        /\ pods'[a] = new /\ address'[a] = (IF new.ann = NoIP THEN address[a] ELSE new.ann)
        /\ \/ pc'[p] = "watch" /\ outcome' = outcome
           \/ outcome'[p] = "broken"
        /\ copy[p] \in Pod /\ Admissible(copy[p]) /\ Admissible(Resubmitted(p))
        /\ new # NoPod
    BY <1>i, <1>4, <1>a, ResubmittedOfCall, NoPodAssumption
       DEF CreatePod, Accepts, InProgress, TypeOK, Sound
  <2>2. /\ AsAsked(p, req[p], new)
        /\ \A e \in Disks : e # d => /\ new.volumes[e] = copy[p].volumes[e]
                                     /\ new.mounts[e] = copy[p].mounts[e]
        /\ copy[p].ann # NoIP => new.ann = copy[p].ann
    BY <1>i, <1>a, <2>1, StoredAsAsked, ResubmittedKeeps, CreatorsAssumption DEF Resubmitted
  <2> HIDE DEF new
  <2>3. outcome'[p] # "ok"
    BY <1>i, <2>1
  <2>4. VMOK(a)'
    <3>1. address'[a] # NoIP => pods'[a].ann = address'[a]
      BY <1>i, <1>a, <2>1, <2>2 DEF CallOK
    <3>2. \A e \in Disks : Settled(a, e)' => AgreeOn(pods'[a], configMaps'[a].disks, e)
      BY <1>i, <1>s, <1>a, <2>1, <2>2, <2>3 DEF CallOK, AgreeOn
    <3> QED
      BY <1>i, <3>1, <3>2 DEF VMOK, TypeOK
  <2>5. InProgress(p)' => CallOK(p)'
    <3> SUFFICES ASSUME InProgress(p)'
                 PROVE  CallOK(p)'
      OBVIOUS
    <3>1. pc'[p] = "watch"
      BY <2>1 DEF InProgress
    <3> QED
      BY <1>i, <1>n, <1>a, <2>1, <2>2, <3>1 DEF CallOK
  <2> QED
    BY <2>4, <2>5
<1>5. ASSUME OpenWatch(p) \/ ReadEvent(p) \/ TimerFires(p)
      PROVE  (InProgress(p)' => CallOK(p)') /\ VMOK(a)'
  <2>1. /\ UNCHANGED <<pods, configMaps, copy, address>>
        /\ pc[p] \in {"watch", "wait"} /\ pc'[p] \in {"watch", "wait", "sleep"}
        /\ outcome'[p] # "ok"
    BY <1>i, <1>5 DEF OpenWatch, ReadEvent, TimerFires, TypeOK
  <2>2. VMOK(a)'
    BY <1>i, <2>1, VMFrame
  <2>3. CallOK(p)'
    BY <1>i, <1>n, <1>a, <2>1 DEF CallOK
  <2> QED
    BY <2>2, <2>3
<1>6. ASSUME Sleep(p)
      PROVE  ~InProgress(p)' /\ VMOK(a)'
  <2>1. /\ UNCHANGED <<pods, configMaps, pc, address>>
        /\ pc[p] = "sleep" /\ outcome'[p] = "ok"
    BY <1>i, <1>6 DEF Sleep, TypeOK
  <2>2. pods[a] # NoPod /\ AgreeOn(pods[a], configMaps[a].disks, d)
    BY <1>i, <1>a, <2>1 DEF CallOK, AsAsked, Wanted, AgreeOn
  <2>3. ASSUME NEW e \in Disks, Settled(a, e)'
        PROVE  AgreeOn(pods'[a], configMaps'[a].disks, e)
    <3>1. CASE e = d
      BY <2>1, <2>2, <3>1
    <3>2. CASE e # d
      <4>1. latest[a][e] \in Procs \cup {NoCall}
        BY <1>i DEF TypeOK
      <4>2. Settled(a, e)
        BY <1>i, <1>l, <2>3, <3>2, <4>1 DEF Settled
      <4> QED
        BY <1>i, <2>1, <2>2, <4>2 DEF VMOK
    <3> QED
      BY <3>1, <3>2
  <2>4. VMOK(a)'
    BY <1>i, <2>1, <2>3 DEF VMOK
  <2> QED
    BY <2>1, <2>4 DEF InProgress
<1>7. ASSUME TimesOut(p) \/ Refused(p) \/ Breaks(p)
      PROVE  ~InProgress(p)' /\ VMOK(a)'
  <2>1. /\ UNCHANGED <<pods, configMaps, pc, address>>
        /\ outcome'[p] \in {"timeout", "refused", "broken"}
    BY <1>i, <1>7 DEF TimesOut, Refused, Breaks, TypeOK
  <2>2. VMOK(a)'
    BY <1>i, <2>1, VMFrame
  <2> QED
    BY <2>1, <2>2 DEF InProgress
<1> QED
  BY <1>1, <1>2, <1>3, <1>4, <1>5, <1>6, <1>7 DEF Moves, Step

LEMMA UnchangedSerial == ASSUME SerialInv, UNCHANGED vars PROVE SerialInv'
BY DEF vars, SerialInv, OneAtATime, InProgress, CallOK, VMOK, Settled

LEMMA NextSerial ==
    ASSUME Serialised
    PROVE  TypeOK /\ Sound /\ VersionInv /\ SerialInv /\ [Next]_vars => SerialInv'
BY BeginSerial, MoveSerial, ReportsSerial, UnchangedSerial DEF Next, Moves

LEMMA InitSerial == Init => SerialInv
<1> SUFFICES ASSUME Init
             PROVE  SerialInv
  OBVIOUS
<1>1. \A p \in Procs : ~InProgress(p)
  BY DEF Init, InProgress
<1>2. \A a \in Agents : VMOK(a)
  BY DEF Init, VMOK, AgreeOn, FreshPod, EmptyBag
<1> QED
  BY <1>1, <1>2 DEF SerialInv, OneAtATime

LEMMA SerialCalls == ASSUME Serialised PROVE Spec => [](TypeOK /\ Sound /\ VersionInv /\ SerialInv)
<1>1. Init => VersionInv
  BY DEF Init, VersionInv, At
<1>2. TypeOK /\ Sound /\ VersionInv /\ SerialInv /\ [Next]_vars
        => (TypeOK /\ Sound /\ VersionInv /\ SerialInv)'
  BY NextType, NextSound, NextVersion, NextSerial
<1> QED
  BY <1>1, <1>2, InitType, InitSound, InitSerial, PTL DEF Spec

\* If calls on a VM are made one at a time, every pod of the VM carries the
\* address last recorded, over any number of calls (volume_manager.go:90-103).
THEOREM AddressesAreKept == ASSUME Serialised PROVE Spec => []AddressKept
<1>1. SerialInv => AddressKept
  BY DEF SerialInv, VMOK, AddressKept
<1> QED
  BY <1>1, SerialCalls, PTL

\* If calls on a VM are made one at a time, its settings and its pod differ
\* about a disk only while the last call that named it is at work or if it
\* failed (volume_manager.go:83-88).
THEOREM SuccessMeansAgreement == ASSUME Serialised PROVE Spec => []DisagreeOnlyAfterFailure
<1>1. SerialInv => DisagreeOnlyAfterFailure
  <2> SUFFICES ASSUME SerialInv, NEW a \in Agents, NEW d \in Disks,
                      pods[a] # NoPod, Settled(a, d)
               PROVE  Agree(a, d)
    BY DEF DisagreeOnlyAfterFailure, Settled
  <2>1. AgreeOn(pods[a], configMaps[a].disks, d)
    BY DEF SerialInv, VMOK
  <2> QED
    BY <2>1 DEF Agree, AgreeOn
<1> QED
  BY <1>1, SerialCalls, PTL

-----------------------------------------------------------------------------
(* The refinement *)

Stage(p) ==
    IF pc[p] = "idle" /\ outcome[p] = "running" THEN "none"
    ELSE IF outcome[p] = "ok" THEN "ok"
    ELSE IF outcome[p] # "running" THEN "failed"
    ELSE IF pc[p] \in {"get_pod", "get_cm", "update_cm"} THEN "asked"
    ELSE IF pc[p] = "delete" THEN "recorded"
    ELSE IF pc[p] = "create" THEN "stopped" ELSE "started"

Held(p) == IF At(p, "create") THEN DisksOf(copy[p]) ELSE {}

LEMMA Mapping ==
    /\ progress = [p \in Procs |-> Stage(p)]
    /\ before = [p \in Procs |-> Held(p)]
    /\ \A p \in Procs : progress[p] = Stage(p) /\ before[p] = Held(p)
    /\ \A a \in Agents : /\ machine[a] = (IF pods[a] = NoPod THEN Down ELSE DisksOf(pods[a]))
                         /\ settings[a] = configMaps[a].disks
BY DEF progress, before, machine, settings, Stage, Held

\* The disks a machine can run with are a set, and so not Down.
LEMMA NotDown == \A pod : DisksOf(pod) # Down
BY DownAssumption DEF DisksOf

\* A step of one call changes only its own stage and what it holds.
LEMMA OneMoves ==
    ASSUME NEW p \in Procs,
           \A q \in Procs : q # p => /\ pc'[q] = pc[q] /\ outcome'[q] = outcome[q]
                                     /\ copy'[q] = copy[q]
    PROVE  /\ progress' = [progress EXCEPT ![p] = Stage(p)']
           /\ before' = [before EXCEPT ![p] = Held(p)']
<1>1. \A q \in Procs : q # p => Stage(q)' = Stage(q) /\ Held(q)' = Held(q)
  BY DEF Stage, Held, At
<1>2. /\ progress' = [q \in Procs |-> Stage(q)']
      /\ before' = [q \in Procs |-> Held(q)']
  BY DEF progress, before, Stage, Held
<1> QED
  BY <1>1, <1>2, Mapping

LEMMA SameMachines == ASSUME pods' = pods PROVE machine' = machine
BY DEF machine

LEMMA SameSettings == ASSUME configMaps' = configMaps PROVE settings' = settings
BY DEF settings

LEMMA OneMachine ==
    ASSUME TypeOK, NEW a \in Agents, NEW new, pods' = [pods EXCEPT ![a] = new]
    PROVE  machine' = [machine EXCEPT ![a] = IF new = NoPod THEN Down ELSE DisksOf(new)]
BY DEF machine, TypeOK

\* The machine of the new pod runs with the disks of the copy, and the one
\* asked for in or out.
LEMMA StartedWith ==
    ASSUME NEW p \in Procs, NEW pod \in Pod, NEW r \in Request, Admissible(pod),
           Admissible(KeepAddress(UpdateVolumes(r.op, pod, r.disk)))
    PROVE  /\ DisksOf(Stored(KeepAddress(UpdateVolumes(r.op, pod, r.disk)), p))
                = Promise!With(DisksOf(pod), r)
           /\ r.op = "Add" => r.disk \notin DisksOf(pod)
<1> DEFINE new == Stored(KeepAddress(UpdateVolumes(r.op, pod, r.disk)), p)
<1>1. /\ AsAsked(p, r, new)
      /\ \A d \in Disks : d # r.disk => /\ new.volumes[d] = pod.volumes[d]
                                        /\ new.mounts[d] = pod.mounts[d]
  BY StoredAsAsked, ResubmittedKeeps, CreatorsAssumption
<1>2. r.op = "Add" => r.disk \notin DisksOf(pod)
  <2> SUFFICES ASSUME r.op = "Add", pod.volumes[r.disk] > 0
               PROVE  FALSE
    BY DEF DisksOf
  <2> DEFINE sub == KeepAddress(UpdateVolumes(r.op, pod, r.disk))
  <2>1. pod.volumes \in Bag /\ r.disk \in Disks
    BY DEF Pod, Request
  <2>2. AddVolume(pod, r.disk) \in Pod
    BY UpdatedType DEF UpdateVolumes, Request
  <2>3. sub.volumes = OneMore(pod.volumes, r.disk)
    BY <2>2 DEF KeepAddress, UpdateVolumes, AddVolume, Pod
  <2>4. sub.volumes[r.disk] = pod.volumes[r.disk] + 1 /\ pod.volumes[r.disk] \in Nat
    BY <2>1, <2>3 DEF OneMore, Bag
  <2> QED
    BY <2>1, <2>4 DEF Admissible
<1> HIDE DEF new
<1>3. DisksOf(new) = Promise!With(DisksOf(pod), r)
  <2>1. \A d \in Disks : d # r.disk => (d \in DisksOf(new) <=> d \in DisksOf(pod))
    BY <1>1 DEF DisksOf
  <2>2. r.disk \in DisksOf(new) <=> r.op = "Add"
    BY <1>1 DEF DisksOf, AsAsked, Wanted, Request
  <2>3. DisksOf(new) \subseteq Disks /\ DisksOf(pod) \subseteq Disks
    BY DEF DisksOf
  <2> QED
    BY <2>1, <2>2, <2>3 DEF Promise!With, Request
<1> QED
  BY <1>2, <1>3 DEF new

\* Which calls are at work.
LEMMA WorkingIs ==
    ASSUME TypeOK, NEW p \in Procs
    PROVE  Promise!Working(p) <=> InProgress(p)
<1>1. Promise!Working(p) <=> Stage(p) \in {"asked", "recorded", "stopped", "started"}
  BY Mapping DEF Promise!Working
<1> QED
  BY <1>1 DEF Stage, InProgress, TypeOK

LEMMA BeginAsks ==
    ASSUME Serialised, TypeOK, NEW p \in Procs, Begin(p)
    PROVE  Promise!Ask(p)
<1> USE DEF At, Goto, Ends, cluster
<1>1. PICK r \in Request :
        /\ ~\E q \in Procs : InProgress(q) /\ req[q].vm = r.vm
        /\ req' = [req EXCEPT ![p] = r]
        /\ pc' = [pc EXCEPT ![p] = "get_pod"]
        /\ outcome' = outcome \/ outcome' = [outcome EXCEPT ![p] = "mismatch"]
        /\ pc[p] = "idle" /\ outcome[p] = "running"
        /\ UNCHANGED <<pods, configMaps, copy>>
  BY DEF Begin
<1>2. Stage(p) = "none" /\ Stage(p)' \in {"asked", "failed"}
  BY <1>1 DEF Stage, TypeOK
<1>3. Held(p) = {} /\ Held(p)' = {}
  BY <1>1 DEF Held, TypeOK
<1>4. /\ progress' = [progress EXCEPT ![p] = Stage(p)']
      /\ before' = [before EXCEPT ![p] = Held(p)']
  BY <1>1, OneMoves DEF TypeOK
<1>5. before' = before
  BY <1>3, <1>4, Mapping
<1>6. ~\E q \in Procs : Promise!Working(q) /\ req[q].vm = r.vm
  BY <1>1, WorkingIs
<1>7. progress[p] = "none" /\ Promise!Reaches(p, "asked")
  BY <1>2, <1>4, Mapping DEF Promise!Reaches
<1>8. machine' = machine /\ settings' = settings
  BY <1>1, SameMachines, SameSettings
<1> QED
  BY <1>1, <1>5, <1>6, <1>7, <1>8 DEF Promise!Ask

\* A step that ends a call without success.
LEMMA EndFails ==
    ASSUME TypeOK, NEW p \in Procs, Moves(p), UNCHANGED <<pods, configMaps>>,
           outcome'[p] \notin {"running", "ok"}
    PROVE  Promise!Fail(p)
<1>1. InProgress(p) /\ Elsewhere(p)
  BY MovesElsewhere
<1>2. /\ progress' = [progress EXCEPT ![p] = Stage(p)']
      /\ before' = [before EXCEPT ![p] = Held(p)']
  BY <1>1, OneMoves DEF Elsewhere
<1>3. Stage(p)' = "failed" /\ Held(p)' = {}
  BY DEF Stage, Held, At
<1> QED
  BY <1>1, <1>2, <1>3, WorkingIs, SameMachines, SameSettings DEF Promise!Fail, Elsewhere

\* A step that takes a call no further as far as the director is concerned.
LEMMA MoveStutters ==
    ASSUME TypeOK, NEW p \in Procs, Moves(p), UNCHANGED <<pods, configMaps>>,
           Stage(p)' = Stage(p), Held(p)' = Held(p)
    PROVE  UNCHANGED Promise!vars
<1>1. Elsewhere(p)
  BY MovesElsewhere
<1>2. /\ progress' = [progress EXCEPT ![p] = Stage(p)']
      /\ before' = [before EXCEPT ![p] = Held(p)']
  BY <1>1, OneMoves DEF Elsewhere
<1>3. progress' = progress /\ before' = before
  BY <1>2, Mapping
<1> QED
  BY <1>1, <1>3, SameMachines, SameSettings DEF Promise!vars, Elsewhere

LEMMA MoveImplements ==
    ASSUME TypeOK, Sound, VersionInv, SerialInv, NEW p \in Procs, Moves(p)
    PROVE  [Promise!Next]_(Promise!vars)
<1>a. PICK a \in Agents : a = req[p].vm
  BY MovesElsewhere, CallTypes
<1> USE DEF At, Goto, Ends, cluster, history
<1>i. /\ InProgress(p) /\ outcome[p] = "running" /\ req' = req /\ req[p] \in Request
      /\ CallOK(p)
  BY MovesElsewhere, CallTypes DEF SerialInv, Elsewhere, InProgress
<1>m. /\ progress' = [progress EXCEPT ![p] = Stage(p)']
      /\ before' = [before EXCEPT ![p] = Held(p)']
  BY MovesElsewhere, OneMoves DEF Elsewhere
<1> SUFFICES \/ \/ Promise!Record(p) \/ Promise!Stop(p) \/ Promise!Start(p)
                \/ Promise!Succeed(p) \/ Promise!Fail(p)
             \/ UNCHANGED Promise!vars
  BY DEF Promise!Next
<1>1. ASSUME GetPod(p) \/ GetConfigMap(p) \/ OpenWatch(p) \/ TimerFires(p)
      PROVE  UNCHANGED Promise!vars
  <2>1. /\ UNCHANGED <<pods, configMaps, outcome>>
        /\ \/ pc[p] = "get_pod" /\ pc'[p] = "get_cm"
           \/ pc[p] = "get_cm" /\ pc'[p] = "update_cm"
           \/ pc[p] = "watch" /\ pc'[p] = "wait"
           \/ pc[p] = "wait" /\ pc'[p] = "wait"
    BY <1>1 DEF GetPod, GetConfigMap, OpenWatch, TimerFires, TypeOK
  <2>2. Stage(p)' = Stage(p) /\ Held(p)' = Held(p)
    BY <1>i, <2>1 DEF Stage, Held
  <2> QED
    BY <2>1, <2>2, MoveStutters
<1>2. ASSUME UpdateConfigMap(p)
      PROVE  Promise!Record(p)
  <2>1. /\ pods' = pods /\ pc[p] = "update_cm" /\ cm[p].rv = configMaps[a].rv
        /\ configMaps' = [configMaps EXCEPT ![a] =
              [disks |-> Record(req[p], cm[p].disks), rv |-> @.rv + 1]]
        /\ \/ pc'[p] = "delete" /\ outcome' = outcome
           \/ pc'[p] = "update_cm" /\ outcome'[p] = "broken"
    BY <1>a, <1>i, <1>2 DEF UpdateConfigMap, Accepts, Answer, TypeOK
  <2>2. cm[p].disks = configMaps[a].disks
    BY <1>a, <1>i, <2>1 DEF VersionInv
  <2>3. settings' = [settings EXCEPT ![a] = Record(req[p], configMaps[a].disks)]
    BY <2>1, <2>2 DEF settings, TypeOK
  <2>4. settings' = [settings EXCEPT ![a] = Promise!With(@, req[p])]
    BY <2>3, Mapping DEF Record, Promise!With
  <2>5. Stage(p) = "asked" /\ Stage(p)' \in {"recorded", "failed"} /\ Held(p)' = {} /\ Held(p) = {}
    BY <1>i, <2>1 DEF Stage, Held
  <2>6. before' = before
    BY <1>m, <2>5, Mapping
  <2> QED
    BY <1>a, <1>i, <1>m, <2>1, <2>4, <2>5, <2>6, Mapping, SameMachines
       DEF Promise!Record, Promise!Reaches
<1>3. ASSUME DeletePod(p)
      PROVE  Promise!Stop(p)
  <2>1. /\ configMaps' = configMaps /\ pc[p] = "delete" /\ pods[a] # NoPod
        /\ pods' = [pods EXCEPT ![a] = NoPod]
        /\ \/ pc'[p] = "create" /\ outcome' = outcome /\ copy' = copy
           \/ pc'[p] = "delete" /\ outcome'[p] = "broken"
    BY <1>a, <1>i, <1>3 DEF DeletePod, Accepts, Answer, TypeOK
  <2>2. machine' = [machine EXCEPT ![a] = Down] /\ machine[a] = DisksOf(pods[a])
    BY <2>1, OneMachine, Mapping
  <2>3. DisksOf(copy[p]) = DisksOf(pods[a])
    BY <1>a, <1>i, <2>1 DEF CallOK, SameSpec, DisksOf
  <2>4. Stage(p) = "recorded" /\ Held(p) = {}
    BY <1>i, <2>1 DEF Stage, Held
  <2>5. \/ Stage(p)' = "stopped" /\ Held(p)' = machine[a]
        \/ Stage(p)' = "failed" /\ Held(p)' = {}
    <3>1. CASE pc'[p] = "create" /\ outcome' = outcome /\ copy' = copy
      BY <1>i, <2>2, <2>3, <3>1 DEF Stage, Held
    <3>2. CASE pc'[p] = "delete" /\ outcome'[p] = "broken"
      BY <3>2 DEF Stage, Held
    <3> QED
      BY <2>1, <3>1, <3>2
  <2>6. \/ /\ progress' = [progress EXCEPT ![p] = "stopped"]
           /\ before' = [before EXCEPT ![p] = machine[a]]
        \/ /\ progress' = [progress EXCEPT ![p] = "failed"]
           /\ before' = before
    BY <1>m, <2>4, <2>5, Mapping
  <2>7. machine[a] # Down
    BY <2>2, NotDown
  <2>8. progress[p] = "recorded" /\ settings' = settings
    BY <2>1, <2>4, Mapping, SameSettings
  <2> QED
    BY <1>a, <1>i, <2>2, <2>6, <2>7, <2>8 DEF Promise!Stop
<1>4. ASSUME CreatePod(p)
      PROVE  Promise!Start(p)
  <2> DEFINE new == Stored(Resubmitted(p), p)
  <2>1. /\ configMaps' = configMaps /\ pc[p] = "create" /\ pods[a] = NoPod
        /\ pods' = [pods EXCEPT ![a] = new] /\ new # NoPod
        /\ \/ pc'[p] = "watch" /\ outcome' = outcome
           \/ pc'[p] = "create" /\ outcome'[p] = "broken"
        /\ copy[p] \in Pod /\ Admissible(copy[p]) /\ Admissible(Resubmitted(p))
    BY <1>a, <1>i, <1>4, ResubmittedOfCall, NoPodAssumption
       DEF CreatePod, Accepts, TypeOK, Sound
  <2>2. /\ DisksOf(new) = Promise!With(DisksOf(copy[p]), req[p])
        /\ req[p].op = "Add" => req[p].disk \notin DisksOf(copy[p])
    BY <1>i, <2>1, StartedWith DEF Resubmitted
  <2> HIDE DEF new
  <2>3. machine' = [machine EXCEPT ![a] = DisksOf(new)] /\ machine[a] = Down
    BY <2>1, OneMachine, Mapping
  <2>4. /\ Stage(p) = "stopped" /\ Held(p) = DisksOf(copy[p])
        /\ Stage(p)' \in {"started", "failed"} /\ Held(p)' = {}
    BY <1>i, <2>1 DEF Stage, Held
  <2>5. progress[p] = "stopped" /\ before[p] = DisksOf(copy[p]) /\ settings' = settings
    BY <2>1, <2>4, Mapping, SameSettings
  <2>6. before' = [before EXCEPT ![p] = {}] /\ Promise!Reaches(p, "started")
    BY <1>m, <2>4 DEF Promise!Reaches
  <2> QED
    BY <1>a, <1>i, <2>2, <2>3, <2>5, <2>6 DEF Promise!Start
<1>5. ASSUME ReadEvent(p)
      PROVE  Promise!Fail(p) \/ UNCHANGED Promise!vars
  <2>1. /\ UNCHANGED <<pods, configMaps>> /\ pc[p] = "wait"
        /\ \/ outcome' = outcome /\ pc'[p] \in {"wait", "sleep"}
           \/ outcome'[p] = "unexpected"
    BY <1>5 DEF ReadEvent, TypeOK
  <2>2. CASE outcome' = outcome /\ pc'[p] \in {"wait", "sleep"}
    <3>1. Stage(p)' = Stage(p) /\ Held(p)' = Held(p)
      BY <1>i, <2>1, <2>2 DEF Stage, Held
    <3> QED
      BY <2>1, <3>1, MoveStutters
  <2>3. CASE outcome'[p] = "unexpected"
    BY <2>1, <2>3, EndFails
  <2> QED
    BY <2>1, <2>2, <2>3
<1>6. ASSUME Sleep(p)
      PROVE  Promise!Succeed(p)
  <2>1. /\ UNCHANGED <<pods, configMaps>> /\ pc[p] = "sleep" /\ pc'[p] = "sleep"
        /\ outcome'[p] = "ok"
    BY <1>6 DEF Sleep, TypeOK
  <2>2. Stage(p) = "started" /\ Stage(p)' = "ok" /\ Held(p) = {} /\ Held(p)' = {}
    BY <1>i, <2>1 DEF Stage, Held
  <2>3. before' = before /\ progress[p] = "started"
    BY <1>m, <2>2, Mapping
  <2> QED
    BY <1>i, <1>m, <2>1, <2>2, <2>3, SameMachines, SameSettings DEF Promise!Succeed
<1>7. ASSUME TimesOut(p) \/ Refused(p) \/ Breaks(p)
      PROVE  Promise!Fail(p)
  <2>1. /\ UNCHANGED <<pods, configMaps>>
        /\ outcome'[p] \in {"timeout", "refused", "broken"}
    BY <1>7 DEF TimesOut, Refused, Breaks, TypeOK
  <2> QED
    BY <2>1, EndFails
<1> QED
  BY <1>1, <1>2, <1>3, <1>4, <1>5, <1>6, <1>7 DEF Moves, Step

LEMMA ReportsStutter ==
    ASSUME TypeOK, NEW a \in Agents, KubeletReports(a)
    PROVE  UNCHANGED Promise!vars
<1>1. PICK new \in Reports(pods[a]) :
        /\ pods[a] \in Pod /\ pods[a] # NoPod /\ pods' = [pods EXCEPT ![a] = new]
        /\ UNCHANGED <<configMaps, req, pc, copy, outcome>>
  BY DEF KubeletReports, TypeOK
<1>2. new # NoPod /\ new.volumes = pods[a].volumes /\ new.mounts = pods[a].mounts
  BY <1>1, ReportsType, ReportsKeep, NoPodAssumption
<1>3. DisksOf(new) = machine[a]
  BY <1>1, <1>2, Mapping DEF DisksOf
<1>4. machine' = [machine EXCEPT ![a] = DisksOf(new)]
  BY <1>1, <1>2, OneMachine
<1>5. machine' = machine
  BY <1>3, <1>4 DEF machine
<1>6. progress' = progress /\ before' = before
  BY <1>1 DEF progress, before, At
<1> QED
  BY <1>1, <1>5, <1>6, SameSettings DEF Promise!vars

LEMMA InitImplements == Init => Promise!Init
<1> SUFFICES ASSUME Init
             PROVE  Promise!Init
  OBVIOUS
<1>1. \A i \in Address : /\ FreshPod(CreateVM, i) \in Pod
                         /\ DisksOf(FreshPod(CreateVM, i)) = {}
  BY CreatorsAssumption, MetasAssumption
     DEF FreshPod, Pod, Address, Bag, EmptyBag, DisksOf
<1>2. \A a \in Agents : pods[a] # NoPod /\ DisksOf(pods[a]) = {}
  BY <1>1, NoPodAssumption DEF Init
<1>3. machine = [a \in Agents |-> {}]
  BY <1>2 DEF machine
<1>4. /\ settings = [a \in Agents |-> {}]
      /\ progress = [p \in Procs |-> "none"] /\ before = [p \in Procs |-> {}]
  BY DEF Init, settings, progress, before, At
<1> QED
  BY <1>3, <1>4 DEF Promise!Init, Init

\* If calls on a VM are made one at a time, every step of an attach_disk or a
\* detach_disk is a step of what AttachedDisks promises or of no concern to the
\* director, whatever fails (volume_manager.go:36-124).
THEOREM PromiseIsKept == ASSUME Serialised PROVE Spec => ImplementsAttachedDisks
<1>1. TypeOK /\ Sound /\ VersionInv /\ SerialInv /\ [Next]_vars => [Promise!Next]_(Promise!vars)
  <2> SUFFICES ASSUME TypeOK, Sound, VersionInv, SerialInv, [Next]_vars
               PROVE  [Promise!Next]_(Promise!vars)
    OBVIOUS
  <2>1. ASSUME NEW p \in Procs, Begin(p)
        PROVE  [Promise!Next]_(Promise!vars)
    BY <2>1, BeginAsks DEF Promise!Next
  <2>2. CASE UNCHANGED vars
    <3>1. UNCHANGED <<machine, settings, req, progress, before>>
      BY <2>2 DEF vars, machine, settings, progress, before, At
    <3> QED
      BY <3>1 DEF Promise!vars
  <2> QED
    BY <2>1, <2>2, MoveImplements, ReportsStutter DEF Next, Moves
<1> QED
  BY <1>1, InitImplements, SerialCalls, PTL DEF Spec, ImplementsAttachedDisks, Promise!Spec

===============================================================================
