---------------------------- MODULE VMCallsProofs -----------------------------
(***************************************************************************)
(* Proofs about VMCalls: what the calls on a VM guarantee each other when  *)
(* the director may have given up on any number of them.                   *)
(***************************************************************************)
EXTENDS VMCalls, VMRaceProofs

\* What a call of the other four was asked for, and what it has met.
AskInv ==
    \A o \in Others :
        /\ place[o] # "idle" => ask[o] \in Ask
        /\ place[o] \in {"read", "patch"} => ask[o].op = "tag"
        /\ place[o] \in {"del_pod", "del_cm"} => ask[o].op = "delete"
        /\ place[o] \in {"get_pod", "claims"} => ask[o].op = "disks"
        /\ place[o] = "idle" => window[o] = NotSeen
        /\ place[o] = "del_cm" => window[o] # NotSeen

\* A step is one of an attach_disk or detach_disk, which changes nothing of the
\* other calls, or one of those.
DiskMove == [Next]_vars /\ UNCHANGED others

OtherMove == \/ \E o \in Others : OtherStep(o)
             \/ GivesUp
             \/ \E d \in Disks : ClaimGoes(d)

LEMMA CallsSteps == [CallsNext]_allVars => DiskMove \/ OtherMove
<1>1. ASSUME NEW p \in Procs, BeginDisk(p)
      PROVE  DiskMove
  BY <1>1 DEF BeginDisk, DiskMove, Next
<1>2. ASSUME DiskStep
      PROVE  DiskMove
  BY <1>2 DEF DiskStep, DiskMove, Next
<1>3. CASE UNCHANGED allVars
  BY <1>3 DEF allVars, DiskMove
<1> QED
  BY <1>1, <1>2, <1>3 DEF CallsNext, OtherMove

\* Only delete_vm and set_vm_metadata change what VolumeManager knows of.
LEMMA OtherLeaves ==
    ASSUME OtherMove, ~\E o \in Others : DeleteVMPod(o) \/ DeleteVMConfigMap(o) \/ Patch(o)
    PROVE  UNCHANGED vars
<1>1. ASSUME NEW o \in Others, BeginOther(o) \/ OtherBreaks(o) \/ HasVM(o) \/ GetDisksPod(o)
      PROVE  UNCHANGED vars
  BY <1>1 DEF BeginOther, OtherBreaks, HasVM, GetDisksPod
<1>2. ASSUME NEW o \in Others, LookUp(o) \/ AnswerDisks(o) \/ ReadLabels(o) \/ NoPodToTag(o)
      PROVE  UNCHANGED vars
  BY <1>2 DEF LookUp, AnswerDisks, ReadLabels, NoPodToTag
<1>3. ASSUME GivesUp \/ \E d \in Disks : ClaimGoes(d)
      PROVE  UNCHANGED vars
  BY <1>3 DEF GivesUp, ClaimGoes
<1> QED
  BY <1>1, <1>2, <1>3 DEF OtherMove, OtherStep

LEMMA CallTypesAt ==
    ASSUME TypeOK, NEW p \in Procs, At(p, "create")
    PROVE  req[p].vm \in Agents
BY DEF TypeOK, At, Request

LEMMA AskTypes ==
    ASSUME CallsTypeOK, AskInv, NEW o \in Others, place[o] # "idle"
    PROVE  ask[o] \in Ask /\ ask[o].vm \in Agents
BY DEF AskInv, Ask

-----------------------------------------------------------------------------
(* Type correctness *)

\* What a patch leaves in the label is valid (set_vm_metadata.go:41-58).
LEMMA PatchedType ==
    ASSUME CallsTypeOK, AskInv, NEW o \in Others, place[o] = "patch", NEW m \in Metas
    PROVE  Patched(o, m) \in Metas
<1>1. ask[o] \in Ask /\ ask[o].op = "tag"
  BY DEF AskInv
<1>2. ask[o].meta \in Metas \cup {Invalid}
  BY <1>1 DEF Ask
<1> QED
  BY <1>2 DEF Patched

\* TypeOK speaks of the objects only through these two variables and streams.
LEMMA ClusterType ==
    ASSUME TypeOK, pods' \in [Agents -> Pod \cup {NoPod}],
           configMaps' \in [Agents -> ConfigMap], stream' \in [Procs -> Seq(Event)],
           UNCHANGED diskCalls
    PROVE  TypeOK'
BY DEF TypeOK, diskCalls, InProgress

LEMMA NextCallsType ==
    CallsTypeOK /\ AskInv /\ [CallsNext]_allVars => CallsTypeOK' /\ AskInv'
<1> SUFFICES ASSUME CallsTypeOK, AskInv, [CallsNext]_allVars
             PROVE  CallsTypeOK' /\ AskInv'
  OBVIOUS
<1>t. TypeOK
  BY DEF CallsTypeOK
<1> USE DEF Asks, Turns, Results
<1>1. CASE DiskMove
  <2>1. TypeOK' /\ UNCHANGED others
    BY <1>1, <1>t, NextType DEF DiskMove
  <2> QED
    BY <2>1 DEF CallsTypeOK, AskInv, others
<1>2. ASSUME NEW o \in Others, BeginOther(o)
      PROVE  CallsTypeOK' /\ AskInv'
  <2>1. PICK r \in Ask :
          /\ ask' = [ask EXCEPT ![o] = r]
          /\ \/ r.op = "delete" /\ place' = [place EXCEPT ![o] = "del_pod"]
             \/ place' = [place EXCEPT ![o] = "list"]
             \/ r.op = "disks" /\ place' = [place EXCEPT ![o] = "get_pod"]
             \/ r.op = "tag" /\ place' = [place EXCEPT ![o] = "read"]
          /\ UNCHANGED <<vars, claims, seen, left, listed, result, abandoned, window,
                         label, outrun>>
    BY <1>2 DEF BeginOther
  <2>2. TypeOK'
    BY <1>t, <2>1, NextType
  <2> QED
    BY <2>1, <2>2 DEF CallsTypeOK, AskInv
<1>3. ASSUME NEW o \in Others, DeleteVMPod(o)
      PROVE  CallsTypeOK' /\ AskInv'
  <2>1. ask[o] \in Ask /\ ask[o].vm \in Agents /\ place[o] = "del_pod"
    BY <1>3, AskTypes DEF DeleteVMPod
  <2>2. pods' \in [Agents -> Pod \cup {NoPod}]
    BY <1>3, <1>t DEF DeleteVMPod, TypeOK
  <2>3. stream' \in [Procs -> Seq(Event)]
    <3>1. CASE pods[ask[o].vm] = NoPod
      BY <1>3, <1>t, <3>1 DEF DeleteVMPod, TypeOK
    <3>2. CASE pods[ask[o].vm] # NoPod
      <4>1. Notify(ask[o].vm, "DELETED", pods[ask[o].vm]) /\ pods[ask[o].vm] \in Pod
        BY <1>3, <1>t, <2>1, <3>2 DEF DeleteVMPod, TypeOK
      <4> QED
        BY <1>t, <2>1, <4>1, NotifyType
    <3> QED
      BY <3>1, <3>2
  <2>4. TypeOK'
    BY <1>3, <1>t, <2>2, <2>3, ClusterType DEF DeleteVMPod, TypeOK
  <2>5. InWindow(ask[o].vm) \in SUBSET Procs
    BY DEF InWindow
  <2>6. /\ window' = [window EXCEPT ![o] = InWindow(ask[o].vm)]
        /\ \/ place' = [place EXCEPT ![o] = "del_cm"] /\ result' = result
           \/ result' = [result EXCEPT ![o] = "broken"] /\ place' = place
        /\ UNCHANGED <<claims, ask, seen, left, listed, abandoned, label, outrun>>
    BY <1>3 DEF DeleteVMPod, Answered
  <2>7. CallsTypeOK'
    BY <2>4, <2>5, <2>6 DEF CallsTypeOK
  <2>8. AskInv'
    BY <2>1, <2>5, <2>6, NotSeenAssumption DEF AskInv, CallsTypeOK
  <2> QED
    BY <2>7, <2>8
<1>4. ASSUME NEW o \in Others, DeleteVMConfigMap(o)
      PROVE  CallsTypeOK' /\ AskInv'
  <2>1. configMaps' \in [Agents -> ConfigMap] /\ UNCHANGED <<pods, stream, diskCalls>>
    BY <1>4, <1>t DEF DeleteVMConfigMap, TypeOK, ConfigMap, NoConfigMap
  <2>2. TypeOK'
    BY <1>t, <2>1, ClusterType DEF TypeOK
  <2>3. /\ \/ result' = [result EXCEPT ![o] = "ok"]
           \/ result' = [result EXCEPT ![o] = "broken"]
        /\ UNCHANGED <<place, claims, ask, seen, left, listed, abandoned, window, label, outrun>>
    BY <1>4 DEF DeleteVMConfigMap, Concludes
  <2> QED
    BY <2>2, <2>3 DEF CallsTypeOK, AskInv
<1>5. ASSUME NEW o \in Others, Patch(o)
      PROVE  CallsTypeOK' /\ AskInv'
  <2> DEFINE a == ask[o].vm
             new == Patched(o, pods[a].meta)
             pod == [pods[a] EXCEPT !.meta = new]
  <2>1. a \in Agents /\ place[o] = "patch" /\ pods[a] \in Pod
    BY <1>5, <1>t, AskTypes DEF Patch, TypeOK
  <2>2. new \in Metas
    BY <2>1, PatchedType DEF Pod
  <2>3. pod \in Pod
    BY <2>1, <2>2 DEF Pod
  <2> HIDE DEF new, pod
  <2>4. /\ pods' = [pods EXCEPT ![a] = pod] /\ label' = [label EXCEPT ![a] = new]
        /\ \/ UNCHANGED <<stream, outrun>>
           \/ /\ Notify(a, "MODIFIED", pod)
              /\ outrun' = [outrun EXCEPT ![a] = @ \/
                    \E p \in Procs : InProgress(p) /\ req[p].vm = a
                                     /\ pc[p] \in {"get_cm", "update_cm", "delete"}]
        /\ \/ result' = [result EXCEPT ![o] = "ok"]
           \/ result' = [result EXCEPT ![o] = "broken"]
        /\ UNCHANGED <<configMaps, diskCalls, claims, ask, seen, left, listed, abandoned,
                       window, place>>
    BY <1>5 DEF Patch, Concludes, new, pod
  <2>5. stream' \in [Procs -> Seq(Event)]
    BY <1>t, <2>1, <2>3, <2>4, NotifyType DEF TypeOK
  <2>6. outrun' \in [Agents -> BOOLEAN]
    <3>1. outrun \in [Agents -> BOOLEAN]
      BY DEF CallsTypeOK
    <3> QED
      BY <2>4, <3>1, Zenon
  <2>7. pods' \in [Agents -> Pod \cup {NoPod}]
    BY <1>t, <2>3, <2>4 DEF TypeOK
  <2>8. TypeOK'
    BY <1>t, <2>4, <2>5, <2>7, ClusterType DEF TypeOK
  <2>9. label' \in [Agents -> Metas]
    BY <2>2, <2>4 DEF CallsTypeOK
  <2>10. CallsTypeOK'
    BY <2>4, <2>6, <2>8, <2>9 DEF CallsTypeOK
  <2>11. AskInv'
    BY <2>4 DEF AskInv
  <2> QED
    BY <2>10, <2>11
<1>6. ASSUME UNCHANGED vars,
             \/ \E o \in Others :
                   \/ OtherBreaks(o) \/ HasVM(o) \/ GetDisksPod(o)
                   \/ LookUp(o) \/ AnswerDisks(o) \/ ReadLabels(o) \/ NoPodToTag(o)
             \/ GivesUp \/ \E d \in Disks : ClaimGoes(d)
      PROVE  CallsTypeOK' /\ AskInv'
  <2>t. TypeOK'
    BY <1>t, <1>6, NextType
  <2>1. ASSUME NEW o \in Others, HasVM(o) \/ GetDisksPod(o)
        PROVE  CallsTypeOK' /\ AskInv'
    <3>1. /\ InWindow(ask[o].vm) \in SUBSET Procs
          /\ \/ window' = window
             \/ window' = [window EXCEPT ![o] = InWindow(ask[o].vm)]
          /\ \/ place' = place
             \/ place' = [place EXCEPT ![o] = "claims"] /\ place[o] = "get_pod"
          /\ \/ result' = result
             \/ result' = [result EXCEPT ![o] = "yes"]
             \/ result' = [result EXCEPT ![o] = "no"]
             \/ result' = [result EXCEPT ![o] = "ok"]
          /\ \/ left' = left
             \/ left' = [left EXCEPT ![o] = {d \in Disks : pods[ask[o].vm].volumes[d] > 0}]
          /\ UNCHANGED <<claims, ask, seen, listed, abandoned, label, outrun>>
          /\ place[o] \in {"list", "get_pod"}
      BY <2>1 DEF HasVM, GetDisksPod, InWindow
    <3>2. left' \in [Others -> SUBSET Disks]
      BY <3>1 DEF CallsTypeOK
    <3>3. window' \in [Others -> (SUBSET Procs) \cup {NotSeen}]
      BY <3>1 DEF CallsTypeOK
    <3>4. place' \in [Others -> {"idle", "del_pod", "del_cm", "list", "get_pod", "claims",
                                 "read", "patch"}]
      BY <3>1 DEF CallsTypeOK
    <3>5. result' \in [Others -> {"running", "ok", "yes", "no", "refused", "broken"}]
      BY <3>1 DEF CallsTypeOK
    <3>6. CallsTypeOK'
      BY <2>t, <3>1, <3>2, <3>3, <3>4, <3>5 DEF CallsTypeOK
    <3>7. AskInv'
      BY <3>1 DEF AskInv, CallsTypeOK
    <3> QED
      BY <3>6, <3>7
  <2>2. ASSUME NEW o \in Others, LookUp(o)
        PROVE  CallsTypeOK' /\ AskInv'
    <3>1. PICK d \in left[o] :
            /\ left' = [left EXCEPT ![o] = @ \ {d}]
            /\ listed' = [listed EXCEPT ![o] = @ \cup ({d} \cap claims)]
            /\ UNCHANGED <<claims, ask, place, seen, result, abandoned, window, label, outrun>>
      BY <2>2 DEF LookUp
    <3>2. claims \subseteq Disks
      BY DEF CallsTypeOK
    <3>3. left' \in [Others -> SUBSET Disks] /\ listed' \in [Others -> SUBSET Disks]
      BY <3>1, <3>2 DEF CallsTypeOK
    <3> QED
      BY <2>t, <3>1, <3>3 DEF CallsTypeOK, AskInv
  <2>3. ASSUME NEW o \in Others, ReadLabels(o)
        PROVE  CallsTypeOK' /\ AskInv'
    <3>1. /\ place[o] = "read" /\ place' = [place EXCEPT ![o] = "patch"]
          /\ seen' = [seen EXCEPT ![o] = pods[ask[o].vm].meta]
          /\ pods[ask[o].vm] # NoPod
          /\ UNCHANGED <<claims, ask, left, listed, result, abandoned, window, label, outrun>>
      BY <2>3 DEF ReadLabels
    <3>2. pods[ask[o].vm].meta \in Metas
      BY <1>t, <3>1, AskTypes DEF TypeOK, Pod
    <3> QED
      BY <2>t, <3>1, <3>2 DEF CallsTypeOK, AskInv
  <2>4. ASSUME NEW o \in Others, OtherBreaks(o) \/ AnswerDisks(o) \/ NoPodToTag(o)
        PROVE  CallsTypeOK' /\ AskInv'
    <3>1. /\ result' \in {[result EXCEPT ![o] = "broken"], [result EXCEPT ![o] = "ok"],
                          [result EXCEPT ![o] = "refused"]}
          /\ UNCHANGED <<claims, ask, place, seen, left, listed, abandoned, window, label,
                         outrun>>
      BY <2>4 DEF OtherBreaks, AnswerDisks, NoPodToTag
    <3> QED
      BY <2>t, <3>1 DEF CallsTypeOK, AskInv
  <2>5. CASE GivesUp
    <3>1. /\ abandoned' \subseteq Procs \cup Others
          /\ UNCHANGED <<claims, ask, place, seen, left, listed, result, window, label, outrun>>
      BY <2>5 DEF GivesUp, CallsTypeOK
    <3> QED
      BY <2>t, <3>1 DEF CallsTypeOK, AskInv
  <2>6. ASSUME NEW d \in Disks, ClaimGoes(d)
        PROVE  CallsTypeOK' /\ AskInv'
    BY <2>6, <2>t DEF ClaimGoes, CallsTypeOK, AskInv
  <2> QED
    BY <1>6, <2>1, <2>2, <2>3, <2>4, <2>5, <2>6
<1>7. CASE OtherMove /\ ~\E o \in Others : DeleteVMPod(o) \/ DeleteVMConfigMap(o) \/ Patch(o)
  BY <1>2, <1>6, <1>7, OtherLeaves DEF OtherMove, OtherStep
<1> QED
  BY <1>1, <1>3, <1>4, <1>5, <1>7, CallsSteps

LEMMA InitCallsType == CallsInit => CallsTypeOK /\ AskInv
<1> SUFFICES ASSUME CallsInit
             PROVE  CallsTypeOK /\ AskInv
  OBVIOUS
<1>1. TypeOK
  BY InitType DEF CallsInit
<1> QED
  BY <1>1, MetasAssumption DEF CallsInit, CallsTypeOK, AskInv

\* The variables of VMCalls keep their types.
THEOREM CallsTypeCorrect == CallsSpec => [](CallsTypeOK /\ AskInv)
BY InitCallsType, NextCallsType, PTL DEF CallsSpec

-----------------------------------------------------------------------------
(* The window between Delete and Create, next to the other calls *)

\* delete_vm only removes pods, and a patch is of a pod that is there: neither
\* brings a call into the window or a pod into existence.
LEMMA OtherFrame ==
    ASSUME CallsTypeOK, AskInv, OtherMove
    PROVE  /\ UNCHANGED <<req, pc, outcome>>
           /\ \A a \in Agents : pods[a] = NoPod => pods'[a] = NoPod
<1>t. TypeOK
  BY DEF CallsTypeOK
<1>1. ASSUME NEW o \in Others, DeleteVMPod(o)
      PROVE  UNCHANGED <<req, pc, outcome>> /\ \A a \in Agents : pods[a] = NoPod => pods'[a] = NoPod
  BY <1>1, <1>t DEF DeleteVMPod, diskCalls, TypeOK
<1>2. ASSUME NEW o \in Others, DeleteVMConfigMap(o)
      PROVE  UNCHANGED <<req, pc, outcome>> /\ \A a \in Agents : pods[a] = NoPod => pods'[a] = NoPod
  BY <1>2 DEF DeleteVMConfigMap, diskCalls
<1>3. ASSUME NEW o \in Others, Patch(o)
      PROVE  UNCHANGED <<req, pc, outcome>> /\ \A a \in Agents : pods[a] = NoPod => pods'[a] = NoPod
  BY <1>3, <1>t DEF Patch, diskCalls, TypeOK
<1>4. CASE UNCHANGED vars
  BY <1>4 DEF vars
<1> QED
  BY <1>1, <1>2, <1>3, <1>4, OtherLeaves

LEMMA NextCallsWindow ==
    CallsTypeOK /\ AskInv /\ WindowExclusive /\ [CallsNext]_allVars => WindowExclusive'
<1> SUFFICES ASSUME CallsTypeOK, AskInv, WindowExclusive, [CallsNext]_allVars
             PROVE  WindowExclusive'
  OBVIOUS
<1>1. CASE DiskMove
  BY <1>1, NextWindow DEF DiskMove, CallsTypeOK
<1>2. CASE OtherMove
  <2>1. \A p \in Procs : At(p, "create") => req[p].vm \in Agents
    BY CallTypesAt DEF CallsTypeOK
  <2> QED
    BY <1>2, <2>1, OtherFrame DEF WindowExclusive, At
<1> QED
  BY <1>1, <1>2, CallsSteps

\* A call that removed the VM's pod or found none when no recreatePod was in
\* its window: there is no pod and nobody about to create one.
Gone(o) ==
    window[o] = {} => /\ pods[ask[o].vm] = NoPod
                      /\ InWindow(ask[o].vm) = {}

GoneInv == \A o \in Others : Gone(o)

\* Nothing creates a pod of the VM then, and nobody gets to the point.
LEMMA GoneFrame ==
    ASSUME CallsTypeOK, AskInv, NEW o \in Others, Gone(o), ask'[o] = ask[o], window'[o] = window[o],
           DiskMove \/ OtherMove
    PROVE  Gone(o)'
<1> SUFFICES ASSUME window[o] = {}
             PROVE  Gone(o)'
  BY DEF Gone
<1>1. PICK a \in Agents : a = ask[o].vm
  BY AskTypes, NotSeenAssumption DEF AskInv
<1>2. pods[a] = NoPod /\ ~\E p \in Procs : At(p, "create") /\ req[p].vm = a
  BY <1>1 DEF Gone, InWindow
<1>3. pods'[a] = NoPod /\ ~\E p \in Procs : At(p, "create")' /\ req'[p].vm = a
  <2>1. CASE OtherMove
    BY <1>2, <2>1, OtherFrame DEF At
  <2>2. ASSUME DiskMove, ~\E p \in Procs : DeletePod(p) \/ CreatePod(p)
        PROVE  pods'[a] = NoPod /\ ~\E p \in Procs : At(p, "create")' /\ req'[p].vm = a
    BY <1>2, <2>2, WindowFrame DEF DiskMove, CallsTypeOK
  <2>3. ASSUME NEW p \in Procs, DeletePod(p)
        PROVE  pods'[a] = NoPod /\ ~\E q \in Procs : At(q, "create")' /\ req'[q].vm = a
    <3>1. /\ pods[req[p].vm] # NoPod /\ pods' = [pods EXCEPT ![req[p].vm] = NoPod]
          /\ req' = req /\ \A q \in Procs : q # p => pc'[q] = pc[q] /\ outcome'[q] = outcome[q]
      BY <2>3 DEF DeletePod, Accepts, Answer, At, Goto, Ends, CallsTypeOK, TypeOK
    <3>2. req[p].vm # a
      BY <1>2, <3>1
    <3> QED
      BY <1>2, <3>1, <3>2 DEF At, CallsTypeOK, TypeOK
  <2>4. ASSUME NEW p \in Procs, CreatePod(p)
        PROVE  pods'[a] = NoPod /\ ~\E q \in Procs : At(q, "create")' /\ req'[q].vm = a
    <3>1. /\ At(p, "create") /\ req' = req
          /\ \A b \in Agents : b # req[p].vm => pods'[b] = pods[b]
          /\ \A q \in Procs : q # p => pc'[q] = pc[q] /\ outcome'[q] = outcome[q]
      BY <2>4 DEF CreatePod, At, Goto, Ends, CallsTypeOK, TypeOK
    <3>2. req[p].vm # a
      BY <1>2, <3>1
    <3> QED
      BY <1>2, <3>1, <3>2 DEF At
  <2> QED
    BY <2>1, <2>2, <2>3, <2>4
<1> QED
  BY <1>1, <1>3 DEF Gone, InWindow, At

LEMMA NextGone ==
    CallsTypeOK /\ AskInv /\ WindowExclusive /\ GoneInv /\ [CallsNext]_allVars => GoneInv'
<1> SUFFICES ASSUME CallsTypeOK, AskInv, WindowExclusive, GoneInv, [CallsNext]_allVars,
                    NEW o \in Others
             PROVE  Gone(o)'
  BY DEF GoneInv
<1>o. Gone(o)
  BY DEF GoneInv
<1> USE DEF Asks, Turns, Results
<1>1. ASSUME NEW q \in Others, BeginOther(q)
      PROVE  Gone(o)'
  <2>1. /\ place[q] = "idle" /\ UNCHANGED <<vars, window>>
        /\ \A x \in Others : x # q => ask'[x] = ask[x]
    BY <1>1 DEF BeginOther, CallsTypeOK
  <2>2. CASE o = q
    BY <2>1, <2>2, NotSeenAssumption DEF AskInv, Gone
  <2>3. CASE o # q
    BY <1>o, <2>1, <2>3 DEF Gone, InWindow, At, vars
  <2> QED
    BY <2>2, <2>3
<1>2. ASSUME NEW q \in Others, DeleteVMPod(q) \/ HasVM(q) \/ GetDisksPod(q)
      PROVE  Gone(o)'
  <2>1. /\ ask' = ask /\ ask[q].vm \in Agents
        /\ \/ window' = window
           \/ window' = [window EXCEPT ![q] = InWindow(ask[q].vm)] /\ pods'[ask[q].vm] = NoPod
    BY <1>2, AskTypes DEF DeleteVMPod, HasVM, GetDisksPod, Listed, CallsTypeOK, TypeOK, vars
  <2>2. OtherMove
    BY <1>2 DEF OtherMove, OtherStep
  <2>3. CASE window'[o] = window[o]
    BY <1>o, <2>1, <2>2, <2>3, GoneFrame
  <2>4. CASE o = q /\ window' = [window EXCEPT ![q] = InWindow(ask[q].vm)]
             /\ pods'[ask[q].vm] = NoPod
    <3>1. PICK a \in Agents : a = ask[q].vm
      BY <2>1
    <3>2. InWindow(a)' = InWindow(a)
      BY <2>2, OtherFrame DEF InWindow, At
    <3>3. window'[q] = InWindow(a)
      BY <2>4, <3>1 DEF CallsTypeOK
    <3> QED
      BY <2>1, <2>4, <3>1, <3>2, <3>3 DEF Gone, InWindow, At
  <2> QED
    BY <2>1, <2>3, <2>4 DEF CallsTypeOK
<1>3. ASSUME NEW q \in Others,
             \/ OtherBreaks(q) \/ DeleteVMConfigMap(q) \/ LookUp(q) \/ AnswerDisks(q)
             \/ ReadLabels(q) \/ Patch(q) \/ NoPodToTag(q)
      PROVE  Gone(o)'
  <2>1. ask' = ask /\ window' = window
    BY <1>3 DEF OtherBreaks, DeleteVMConfigMap, LookUp, AnswerDisks, ReadLabels, Patch, NoPodToTag
  <2>2. OtherMove
    BY <1>3 DEF OtherMove, OtherStep
  <2> QED
    BY <1>o, <2>1, <2>2, GoneFrame
<1>4. CASE GivesUp \/ \E d \in Disks : ClaimGoes(d)
  <2>1. ask' = ask /\ window' = window /\ OtherMove
    BY <1>4 DEF GivesUp, ClaimGoes, OtherMove
  <2> QED
    BY <1>o, <2>1, GoneFrame
<1>5. CASE DiskMove
  BY <1>o, <1>5, GoneFrame DEF DiskMove, others
<1> QED
  BY <1>1, <1>2, <1>3, <1>4, <1>5, CallsSteps DEF OtherMove, OtherStep

LEMMA CallsInWindow == CallsSpec => [](CallsTypeOK /\ AskInv /\ WindowExclusive /\ GoneInv)
<1>1. CallsInit => WindowExclusive /\ GoneInv
  BY NotSeenAssumption DEF CallsInit, Init, WindowExclusive, At, GoneInv, Gone
<1> QED
  BY <1>1, InitCallsType, NextCallsType, NextCallsWindow, NextGone, PTL DEF CallsSpec

\* A VM whose pod delete_vm removed comes back only by a recreatePod that was
\* between its own Delete and Create at that moment, however many calls the
\* director gave up on (delete_vm.go:77-85, volume_manager.go:106-114).
THEOREM DeletionsHold == CallsSpec => []DeletedVMReturnsOnlyFromWindow
<1>1. GoneInv => DeletedVMReturnsOnlyFromWindow
  BY DEF GoneInv, Gone, DeletedVMReturnsOnlyFromWindow
<1> QED
  BY <1>1, CallsInWindow, PTL

\* An answer that a VM is not there, or has no disks because it is not, stays
\* true under the same condition (has_vm.go:34-43, get_disks.go:26-34).
THEOREM AbsencesHold == CallsSpec => []AbsenceIsFinal
<1>1. GoneInv => AbsenceIsFinal
  BY DEF GoneInv, Gone, AbsenceIsFinal
<1> QED
  BY <1>1, CallsInWindow, PTL

-----------------------------------------------------------------------------
(* Settings outlive the pod *)

\* Only a delete_vm that has dealt with the pod removes the settings.
SettingsInv ==
    \A a \in Agents : configMaps[a] = NoConfigMap =>
        \E o \in Others : OtherOn(o, a) /\ window[o] # NotSeen

LEMMA NextSettings ==
    CallsTypeOK /\ AskInv /\ SettingsInv /\ [CallsNext]_allVars => SettingsInv'
<1> SUFFICES ASSUME CallsTypeOK, AskInv, SettingsInv, [CallsNext]_allVars,
                    NEW a \in Agents, configMaps'[a] = NoConfigMap
             PROVE  \E o \in Others : OtherOn(o, a)' /\ window'[o] # NotSeen
  BY DEF SettingsInv
<1> USE DEF Asks, Turns, Results
<1>1. \A o \in Others : OtherOn(o, a) /\ window[o] # NotSeen =>
          OtherOn(o, a)' /\ window'[o] # NotSeen
  <2> SUFFICES ASSUME NEW o \in Others, OtherOn(o, a), window[o] # NotSeen
               PROVE  OtherOn(o, a)' /\ window'[o] # NotSeen
    OBVIOUS
  <2>1. ASSUME NEW q \in Others, BeginOther(q)
        PROVE  OtherOn(o, a)' /\ window'[o] # NotSeen
    <3>1. o # q
      BY <2>1 DEF BeginOther, OtherOn
    <3> QED
      BY <2>1, <3>1 DEF BeginOther, OtherOn, CallsTypeOK
  <2>2. ASSUME NEW q \in Others, DeleteVMPod(q) \/ HasVM(q) \/ GetDisksPod(q)
        PROVE  OtherOn(o, a)' /\ window'[o] # NotSeen
    <3>1. /\ ask' = ask
          /\ place' = place \/ \E s \in {"del_cm", "claims"} : place' = [place EXCEPT ![q] = s]
          /\ \/ window' = window
             \/ window' = [window EXCEPT ![q] = InWindow(ask[q].vm)]
      BY <2>2 DEF DeleteVMPod, HasVM, GetDisksPod, Answered
    <3>2. InWindow(ask[q].vm) # NotSeen
      BY NotSeenAssumption DEF InWindow
    <3> QED
      BY <3>1, <3>2 DEF OtherOn, CallsTypeOK
  <2>3. ASSUME NEW q \in Others,
               \/ OtherBreaks(q) \/ DeleteVMConfigMap(q) \/ LookUp(q) \/ AnswerDisks(q)
               \/ Patch(q) \/ NoPodToTag(q)
        PROVE  OtherOn(o, a)' /\ window'[o] # NotSeen
    <3>1. UNCHANGED <<ask, window, place>>
      BY <2>3 DEF OtherBreaks, DeleteVMConfigMap, LookUp, AnswerDisks, Patch, NoPodToTag, Concludes
    <3> QED
      BY <3>1 DEF OtherOn
  <2>4. ASSUME NEW q \in Others, ReadLabels(q)
        PROVE  OtherOn(o, a)' /\ window'[o] # NotSeen
    BY <2>4 DEF ReadLabels, OtherOn, CallsTypeOK
  <2>5. CASE GivesUp \/ \E d \in Disks : ClaimGoes(d)
    BY <2>5 DEF GivesUp, ClaimGoes, OtherOn
  <2>6. CASE DiskMove
    BY <2>6 DEF DiskMove, others, OtherOn
  <2> QED
    BY <2>1, <2>2, <2>3, <2>4, <2>5, <2>6, CallsSteps DEF OtherMove, OtherStep
<1>2. CASE configMaps[a] = NoConfigMap
  BY <1>1, <1>2 DEF SettingsInv
<1>3. CASE configMaps[a] # NoConfigMap
  <2>1. ASSUME NEW o \in Others, DeleteVMConfigMap(o)
        PROVE  OtherOn(o, a) /\ window[o] # NotSeen
    <3>1. place[o] = "del_cm" /\ ask[o].vm = a
      BY <1>3, <2>1 DEF DeleteVMConfigMap, CallsTypeOK, TypeOK
    <3> QED
      BY <3>1 DEF AskInv, OtherOn
  <2>2. ASSUME NEW p \in Procs, UpdateConfigMap(p)
        PROVE  FALSE
    <3>1. \/ configMaps'[a] = configMaps[a]
          \/ configMaps'[a].rv = configMaps[a].rv + 1
      BY <2>2 DEF UpdateConfigMap, CallsTypeOK, TypeOK
    <3>2. configMaps[a].rv \in Nat
      BY DEF CallsTypeOK, TypeOK, ConfigMap
    <3> QED
      BY <1>3, <3>1, <3>2 DEF NoConfigMap
  <2>3. ASSUME NEW p \in Procs, GetConfigMap(p)
        PROVE  FALSE
    BY <1>3, <2>3 DEF GetConfigMap, cluster
  <2>4. CASE DiskMove
    BY <1>3, <2>2, <2>3, <2>4, VersionFrame DEF DiskMove, CallsTypeOK
  <2>5. CASE OtherMove
    <3>1. ASSUME NEW o \in Others, DeleteVMPod(o) \/ Patch(o)
          PROVE  FALSE
      BY <1>3, <3>1 DEF DeleteVMPod, Patch
    <3>2. ~UNCHANGED vars
      BY <1>3 DEF vars
    <3> QED
      BY <1>1, <2>1, <2>5, <3>1, <3>2, OtherLeaves
  <2> QED
    BY <2>4, <2>5, CallsSteps
<1> QED
  BY <1>2, <1>3

\* A pod without settings is one that came back under a delete_vm, out of the
\* window of a recreatePod (delete_vm.go:28-41).
THEOREM SettingsOutliveThePod == CallsSpec => []PodKeepsItsSettings
<1>1. CallsInit => SettingsInv
  BY DEF CallsInit, Init, SettingsInv, NoConfigMap
<1>2. GoneInv /\ SettingsInv => PodKeepsItsSettings
  BY DEF GoneInv, Gone, SettingsInv, PodKeepsItsSettings, OtherOn
<1> QED
  BY <1>1, <1>2, CallsInWindow, NextSettings, PTL DEF CallsSpec

-----------------------------------------------------------------------------
(* Metadata *)

Holds(p) == InProgress(p) /\ pc[p] \in {"get_cm", "update_cm", "delete", "create"}

\* The pod, and the copies of it from which it will be made again, have the
\* label the last patch left.
MetaOK(a) ==
    /\ pods[a] # NoPod => pods[a].meta = label[a]
    /\ \A p \in Procs : Holds(p) /\ req[p].vm = a => copy[p].meta = label[a]

MetaInv == \A a \in Agents : outrun[a] \/ MetaOK(a)

\* recreatePod copies the labels of the pod it read (98-103).
LEMMA ResubmittedMeta ==
    ASSUME NEW pod \in Pod, NEW r \in Request, NEW c
    PROVE  Stored(KeepAddress(UpdateVolumes(r.op, pod, r.disk)), c).meta = pod.meta
<1>1. UpdateVolumes(r.op, pod, r.disk).meta = pod.meta
  BY DEF UpdateVolumes, AddVolume, RemoveVolume, Pod
<1>2. /\ UpdateVolumes(r.op, pod, r.disk) \in Pod
      /\ KeepAddress(UpdateVolumes(r.op, pod, r.disk)) \in Pod
  BY UpdatedType, ResubmittedType DEF Request
<1>3. KeepAddress(UpdateVolumes(r.op, pod, r.disk)).meta = UpdateVolumes(r.op, pod, r.disk).meta
  BY <1>2 DEF KeepAddress, Pod
<1> QED
  BY <1>1, <1>2, <1>3 DEF Stored, Pod

LEMMA DiskMeta ==
    ASSUME TypeOK, [Next]_vars, label' = label, NEW a \in Agents, MetaOK(a)
    PROVE  MetaOK(a)'
<1> USE DEF At, Goto, Ends, cluster, history
<1>1. ASSUME NEW p \in Procs, GetPod(p)
      PROVE  MetaOK(a)'
  <2>1. /\ pods' = pods /\ req' = req /\ outcome' = outcome
        /\ copy' = [copy EXCEPT ![p] = pods[req[p].vm]]
        /\ pc' = [pc EXCEPT ![p] = "get_cm"] /\ pods[req[p].vm] # NoPod
    BY <1>1 DEF GetPod, Accepts
  <2> QED
    BY <2>1 DEF MetaOK, Holds, InProgress, TypeOK
<1>2. ASSUME NEW p \in Procs, CreatePod(p)
      PROVE  MetaOK(a)'
  <2>1. /\ pods' = [pods EXCEPT ![req[p].vm] = Stored(Resubmitted(p), p)]
        /\ Holds(p) /\ copy[p] \in Pod /\ req[p] \in Request /\ req' = req
        /\ \A q \in Procs : q # p => /\ pc'[q] = pc[q] /\ outcome'[q] = outcome[q]
                                     /\ copy'[q] = copy[q]
        /\ ~Holds(p)'
    BY <1>2 DEF CreatePod, Forgets, Holds, InProgress, TypeOK
  <2>2. Stored(Resubmitted(p), p).meta = copy[p].meta
    BY <2>1, ResubmittedMeta DEF Resubmitted
  <2>3. pods'[a] # NoPod => pods'[a].meta = label[a]
    BY <2>1, <2>2 DEF MetaOK, TypeOK
  <2>4. \A q \in Procs : Holds(q)' => q # p /\ Holds(q)
    BY <2>1 DEF Holds, InProgress
  <2> QED
    BY <2>1, <2>3, <2>4 DEF MetaOK
<1>3. ASSUME NEW b \in Agents, KubeletReports(b)
      PROVE  MetaOK(a)'
  <2>1. PICK new \in Reports(pods[b]) :
          /\ pods[b] \in Pod /\ pods' = [pods EXCEPT ![b] = new] /\ pods[b] # NoPod
          /\ UNCHANGED <<req, pc, copy, outcome>>
    BY <1>3 DEF KubeletReports, TypeOK
  <2>2. new.meta = pods[b].meta
    BY <2>1, ReportsKeep
  <2> QED
    BY <2>1, <2>2 DEF MetaOK, Holds, InProgress, TypeOK
<1>4. ASSUME NEW p \in Procs, GetConfigMap(p) \/ UpdateConfigMap(p) \/ DeletePod(p)
      PROVE  MetaOK(a)'
  <2>1. /\ Holds(p) /\ req' = req
        /\ \A q \in Procs : q # p => /\ pc'[q] = pc[q] /\ outcome'[q] = outcome[q]
                                     /\ copy'[q] = copy[q]
        /\ Holds(p)' => copy'[p] = copy[p]
        /\ \A b \in Agents : pods'[b] \in {pods[b], NoPod}
    BY <1>4 DEF GetConfigMap, UpdateConfigMap, DeletePod, Answer, Forgets, Holds, InProgress, TypeOK
  <2>2. \A q \in Procs : Holds(q)' => Holds(q) /\ copy'[q] = copy[q]
    BY <2>1 DEF Holds, InProgress
  <2> QED
    BY <2>1, <2>2 DEF MetaOK
<1>5. ASSUME NEW p \in Procs,
             \/ Begin(p) \/ OpenWatch(p) \/ ReadEvent(p) \/ Sleep(p) \/ TimesOut(p)
             \/ TimerFires(p)
      PROVE  MetaOK(a)'
  <2>1. /\ UNCHANGED <<pods, copy>> /\ ~Holds(p)'
        /\ \A q \in Procs : q # p => /\ pc'[q] = pc[q] /\ outcome'[q] = outcome[q]
                                     /\ req'[q] = req[q]
    BY <1>5 DEF Begin, OpenWatch, ReadEvent, Sleep, TimesOut, TimerFires, Holds, InProgress, TypeOK
  <2>2. \A q \in Procs : Holds(q)' => Holds(q) /\ req'[q] = req[q]
    BY <2>1 DEF Holds, InProgress
  <2> QED
    BY <2>1, <2>2 DEF MetaOK
<1>6. ASSUME NEW p \in Procs, Refused(p) \/ Breaks(p)
      PROVE  MetaOK(a)'
  <2>1. /\ UNCHANGED <<pods, req, pc>> /\ ~Holds(p)'
        /\ \A q \in Procs : q # p => outcome'[q] = outcome[q] /\ copy'[q] = copy[q]
    BY <1>6 DEF Refused, Breaks, Forgets, Holds, InProgress, TypeOK
  <2>2. \A q \in Procs : Holds(q)' => Holds(q) /\ copy'[q] = copy[q]
    BY <2>1 DEF Holds, InProgress
  <2> QED
    BY <2>1, <2>2 DEF MetaOK
<1>7. CASE UNCHANGED vars
  BY <1>7 DEF vars, MetaOK, Holds, InProgress
<1> QED
  BY <1>1, <1>2, <1>3, <1>4, <1>5, <1>6, <1>7 DEF Next, Step

\* A patch that nobody is to be undone by leaves its label in the pod, and there
\* is no copy of that pod.
LEMMA PatchMeta ==
    ASSUME CallsTypeOK, AskInv, WindowExclusive, MetaInv, NEW o \in Others, Patch(o),
           NEW a \in Agents
    PROVE  outrun'[a] \/ MetaOK(a)'
<1> DEFINE b == ask[o].vm
           new == Patched(o, pods[b].meta)
           pod == [pods[b] EXCEPT !.meta = new]
           late == \E p \in Procs : InProgress(p) /\ req[p].vm = b
                                    /\ pc[p] \in {"get_cm", "update_cm", "delete"}
<1>1. /\ b \in Agents /\ pods[b] \in Pod /\ place[o] = "patch" /\ pods[b] # NoPod
      /\ pods \in [Agents -> Pod \cup {NoPod}] /\ label \in [Agents -> Metas]
      /\ outrun \in [Agents -> BOOLEAN]
  BY AskTypes DEF Patch, Asks, CallsTypeOK, TypeOK
<1>2. new \in Metas
  BY <1>1, PatchedType DEF Pod
<1>3. pod.meta = new /\ (new = pods[b].meta => pod = pods[b]) /\ pod \in Pod
  BY <1>1, <1>2 DEF Pod
<1> HIDE DEF new, pod, late
<1>4. /\ pods' = [pods EXCEPT ![b] = pod] /\ label' = [label EXCEPT ![b] = new]
      /\ UNCHANGED <<req, pc, copy, outcome>>
      /\ IF pod = pods[b] THEN outrun' = outrun
         ELSE outrun' = [outrun EXCEPT ![b] = @ \/ late]
  BY DEF Patch, diskCalls, new, pod, late
<1>5. CASE a # b
  <2>1. pods'[a] = pods[a] /\ label'[a] = label[a]
    BY <1>1, <1>4, <1>5
  <2>2. outrun'[a] = outrun[a]
    BY <1>1, <1>4, <1>5
  <2>3. outrun[a] \/ MetaOK(a)
    BY DEF MetaInv
  <2>4. MetaOK(a) => MetaOK(a)'
    BY <1>4, <2>1 DEF MetaOK, Holds, InProgress
  <2> QED
    BY <2>2, <2>3, <2>4
<1>6. CASE a = b /\ pod = pods[b]
  <2>1. pods'[a] = pods[a] /\ label'[a] = pods[a].meta
    BY <1>1, <1>3, <1>4, <1>6
  <2>2. outrun'[a] = outrun[a]
    BY <1>4, <1>6
  <2>3. outrun[a] \/ MetaOK(a)
    BY DEF MetaInv
  <2>4. MetaOK(a) => MetaOK(a)'
    BY <1>1, <1>4, <1>6, <2>1 DEF MetaOK, Holds, InProgress
  <2> QED
    BY <2>2, <2>3, <2>4
<1>7. CASE a = b /\ pod # pods[b]
  <2>1. pods'[a] = pod /\ label'[a] = new
    BY <1>1, <1>4, <1>7
  <2>2. outrun'[a] <=> outrun[a] \/ late
    <3>1. outrun' = [outrun EXCEPT ![b] = @ \/ late]
      BY <1>4, <1>7
    <3> QED
      BY <1>1, <1>7, <3>1, Zenon
  <2>3. CASE late
    BY <2>2, <2>3
  <2>4. CASE ~late
    <3>1. ~\E p \in Procs : Holds(p) /\ req[p].vm = b
      BY <1>1, <2>4 DEF Holds, InProgress, late, WindowExclusive, At
    <3>2. ~\E p \in Procs : Holds(p)' /\ req'[p].vm = a
      BY <1>4, <1>7, <3>1 DEF Holds, InProgress
    <3> QED
      BY <1>3, <2>1, <3>2 DEF MetaOK
  <2> QED
    BY <2>3, <2>4
<1> QED
  BY <1>5, <1>6, <1>7

LEMMA NextMeta ==
    CallsTypeOK /\ AskInv /\ WindowExclusive /\ MetaInv /\ [CallsNext]_allVars => MetaInv'
<1> SUFFICES ASSUME CallsTypeOK, AskInv, WindowExclusive, MetaInv, [CallsNext]_allVars,
                    NEW a \in Agents
             PROVE  outrun'[a] \/ MetaOK(a)'
  BY DEF MetaInv
<1>m. outrun[a] \/ MetaOK(a)
  BY DEF MetaInv
<1>1. CASE DiskMove
  <2>1. outrun' = outrun /\ label' = label
    BY <1>1 DEF DiskMove, others
  <2>2. MetaOK(a) => MetaOK(a)'
    BY <1>1, <2>1, DiskMeta DEF DiskMove, CallsTypeOK
  <2> QED
    BY <1>m, <2>1, <2>2
<1>2. ASSUME NEW o \in Others, Patch(o)
      PROVE  outrun'[a] \/ MetaOK(a)'
  BY <1>2, PatchMeta
<1>3. ASSUME NEW o \in Others, DeleteVMPod(o) \/ DeleteVMConfigMap(o)
      PROVE  outrun'[a] \/ MetaOK(a)'
  <2>1. /\ UNCHANGED <<req, pc, copy, outcome, label, outrun>>
        /\ pods'[a] \in {pods[a], NoPod}
    BY <1>3 DEF DeleteVMPod, DeleteVMConfigMap, diskCalls, CallsTypeOK, TypeOK
  <2>2. MetaOK(a) => MetaOK(a)'
    BY <2>1 DEF MetaOK, Holds, InProgress
  <2> QED
    BY <1>m, <2>1, <2>2
<1>4. CASE OtherMove /\ ~\E o \in Others : DeleteVMPod(o) \/ DeleteVMConfigMap(o) \/ Patch(o)
  <2>1. UNCHANGED vars
    BY <1>4, OtherLeaves
  <2>2. label' = label /\ outrun' = outrun
    BY <1>4 DEF OtherMove, OtherStep, BeginOther, OtherBreaks, HasVM, GetDisksPod, LookUp,
                AnswerDisks, ReadLabels, NoPodToTag, GivesUp, ClaimGoes
  <2>3. MetaOK(a) => MetaOK(a)'
    BY <2>1, <2>2 DEF vars, MetaOK, Holds, InProgress
  <2> QED
    BY <1>m, <2>2, <2>3
<1> QED
  BY <1>1, <1>2, <1>3, <1>4, CallsSteps

\* The labels set_vm_metadata put in the pod stay, unless its patch changed a
\* pod that a recreatePod had read and had yet to delete
\* (set_vm_metadata.go:38-58, volume_manager.go:98-103).
THEOREM MetadataIsLostByOverlapOnly == CallsSpec => []MetadataLostOnlyByOverlap
<1>1. CallsInit => MetaInv
  BY DEF CallsInit, Init, MetaInv, MetaOK, Holds, InProgress, FreshPod
<1>2. MetaInv => MetadataLostOnlyByOverlap
  BY DEF MetaInv, MetaOK, MetadataLostOnlyByOverlap
<1> QED
  BY <1>1, <1>2, CallsInWindow, NextMeta, PTL DEF CallsSpec

-----------------------------------------------------------------------------
(* The disks get_disks answers.  As long as the director waits for every     *)
(* call on a VM and none fails, the calls on it are one at a time, and each  *)
(* leaves the settings and the pod agreeing for the next one to read.        *)

\* Every call made on the VM is waited for, has not failed and is no delete_vm.
Quiet(a) ==
    /\ \A p \in Procs : On(p, a) => p \notin abandoned /\ outcome[p] \in {"running", "ok"}
    /\ \A o \in Others : OtherOn(o, a) => o \notin abandoned /\ ask[o].op # "delete"

Alone(a) ==
    /\ \A p, q \in Procs : InProgress(p) /\ On(p, a) /\ InProgress(q) /\ On(q, a) => p = q
    /\ \A o, x \in Others : Working(o) /\ OtherOn(o, a) /\ Working(x) /\ OtherOn(x, a) => o = x
    /\ \A p \in Procs, o \in Others : InProgress(p) /\ On(p, a) => ~(Working(o) /\ OtherOn(o, a))

SameDisks(x, y) == x.volumes = y.volumes /\ x.mounts = y.mounts

\* Pod and settings differ only while a call has changed the one and not yet
\* the other.
PodAgrees(a) ==
    /\ pods[a] = NoPod => \E p \in Procs : At(p, "create") /\ req[p].vm = a
    /\ \A d \in Disks : pods[a] # NoPod =>
          \/ AgreeOn(pods[a], configMaps[a].disks, d)
          \/ \E p \in Procs : At(p, "delete") /\ req[p].vm = a /\ req[p].disk = d

\* What a call has read describes the VM until it changes it.
DiskCallOK(p, a) ==
    /\ pc[p] \in {"get_cm", "update_cm", "delete"} => pods[a] # NoPod /\ SameDisks(copy[p], pods[a])
    /\ pc[p] \in {"get_cm", "update_cm", "delete", "create"} => Admissible(copy[p])
    /\ pc[p] = "update_cm" => cm[p].disks = configMaps[a].disks
    /\ pc[p] \in {"delete", "create"} => (req[p].disk \in configMaps[a].disks <=> req[p].op = "Add")
    /\ pc[p] = "create" => \A d \in Disks : d # req[p].disk => AgreeOn(copy[p], configMaps[a].disks, d)

Steady(a) == /\ Alone(a)
             /\ PodAgrees(a)
             /\ \A p \in Procs : InProgress(p) /\ On(p, a) => DiskCallOK(p, a)

\* A get_disks has found disks of the settings only, and those it has not are
\* still to be looked up or their claim is gone.
ListOK(o, a) ==
    ask[o].op = "disks" =>
        /\ left[o] \cup listed[o] \subseteq configMaps[a].disks
        /\ place[o] = "claims" => configMaps[a].disks \cap claims \subseteq listed[o] \cup left[o]

Lists(a) == \A o \in Others : Working(o) /\ OtherOn(o, a) => ListOK(o, a)

FreshLists ==
    \A o \in Others : place[o] \in {"idle", "get_pod"} => left[o] = {} /\ listed[o] = {}

QuietInv == FreshLists /\ \A a \in Agents : Quiet(a) => Steady(a) /\ Lists(a)

\* What a step of one of the other calls leaves alone.
LEMMA OtherElsewhere ==
    ASSUME CallsTypeOK, NEW o \in Others, OtherStep(o)
    PROVE  /\ result[o] = "running" /\ place'[o] # "idle"
           /\ place[o] # "idle" => ask'[o] = ask[o]
           /\ place[o] = "idle" => BeginOther(o) /\ UNCHANGED vars
           /\ \A x \in Others : x # o => /\ ask'[x] = ask[x] /\ place'[x] = place[x]
                                         /\ result'[x] = result[x] /\ left'[x] = left[x]
                                         /\ listed'[x] = listed[x]
           /\ UNCHANGED <<abandoned, claims, req, pc, copy, cm, outcome>>
           /\ \A b \in Agents : b # ask[o].vm => /\ pods'[b] = pods[b]
                                                 /\ configMaps'[b] = configMaps[b]
<1> USE DEF Asks, Turns, Results, CallsTypeOK, vars, diskCalls
<1>1. CASE BeginOther(o)
  BY <1>1 DEF BeginOther
<1>2. CASE OtherBreaks(o) \/ HasVM(o)
  BY <1>2 DEF OtherBreaks, HasVM, Working
<1>3. CASE DeleteVMPod(o)
  BY <1>3 DEF DeleteVMPod, Answered, TypeOK
<1>4. CASE DeleteVMConfigMap(o)
  BY <1>4 DEF DeleteVMConfigMap, Concludes, TypeOK
<1>5. CASE GetDisksPod(o) \/ LookUp(o) \/ AnswerDisks(o)
  BY <1>5 DEF GetDisksPod, LookUp, AnswerDisks
<1>6. CASE ReadLabels(o) \/ NoPodToTag(o)
  BY <1>6 DEF ReadLabels, NoPodToTag
<1>7. CASE Patch(o)
  BY <1>7 DEF Patch, Concludes, TypeOK
<1> QED
  BY <1>1, <1>2, <1>3, <1>4, <1>5, <1>6, <1>7 DEF OtherStep

\* A call that was made stays made, and one that was given up stays given up:
\* a quiet VM has always been quiet.
LEMMA QuietBefore ==
    ASSUME CallsTypeOK, AskInv, [CallsNext]_allVars, NEW a \in Agents, Quiet(a)'
    PROVE  Quiet(a)
<1>t. TypeOK
  BY DEF CallsTypeOK
<1>1. ASSUME NEW p \in Procs, On(p, a)
      PROVE  On(p, a)' /\ (outcome'[p] = outcome[p] \/ outcome[p] = "running")
  <2>1. ASSUME NEW q \in Procs, Begin(q)
        PROVE  On(p, a)' /\ outcome'[p] = outcome[p]
    <3>1. q # p
      BY <1>1, <2>1 DEF Begin, At, On
    <3>2. pc'[p] = pc[p] /\ req'[p] = req[p] /\ outcome'[p] = outcome[p]
      BY <1>t, <2>1, <3>1 DEF Begin, Goto, Ends, TypeOK
    <3> QED
      BY <1>1, <3>2 DEF On
  <2>2. ASSUME NEW q \in Procs, Moves(q)
        PROVE  On(p, a)' /\ (outcome'[p] = outcome[p] \/ outcome[p] = "running")
    <3>1. InProgress(q) /\ pc'[q] # "idle" /\ Elsewhere(q)
      BY <1>t, <2>2, MovesElsewhere
    <3> QED
      BY <1>1, <3>1 DEF On, Elsewhere, InProgress
  <2>3. CASE UNCHANGED <<req, pc, outcome>>
    BY <1>1, <2>3 DEF On
  <2>4. CASE OtherMove
    BY <2>3, <2>4, OtherFrame
  <2>5. ASSUME NEW b \in Agents, KubeletReports(b)
        PROVE  UNCHANGED <<req, pc, outcome>>
    BY <2>5 DEF KubeletReports
  <2>6. CASE UNCHANGED vars
    BY <2>3, <2>6 DEF vars
  <2> QED
    BY <2>1, <2>2, <2>3, <2>4, <2>5, <2>6, CallsSteps DEF DiskMove, Next, Moves
<1>2. ASSUME NEW o \in Others, OtherOn(o, a)
      PROVE  OtherOn(o, a)' /\ ask'[o] = ask[o]
  <2>1. ASSUME NEW x \in Others, OtherStep(x)
        PROVE  OtherOn(o, a)' /\ ask'[o] = ask[o]
    BY <1>2, <2>1, OtherElsewhere DEF OtherOn
  <2>2. CASE UNCHANGED <<ask, place>>
    BY <1>2, <2>2 DEF OtherOn
  <2>3. ASSUME DiskMove \/ GivesUp \/ \E d \in Disks : ClaimGoes(d)
        PROVE  UNCHANGED <<ask, place>>
    BY <2>3 DEF DiskMove, others, GivesUp, ClaimGoes
  <2> QED
    BY <2>1, <2>2, <2>3, CallsSteps DEF OtherMove
<1>3. abandoned \subseteq abandoned'
  <2>1. ASSUME NEW x \in Others, OtherStep(x)
        PROVE  abandoned' = abandoned
    BY <2>1, OtherElsewhere
  <2>2. ASSUME DiskMove \/ GivesUp \/ \E d \in Disks : ClaimGoes(d)
        PROVE  abandoned \subseteq abandoned'
    BY <2>2 DEF DiskMove, others, GivesUp, ClaimGoes
  <2> QED
    BY <2>1, <2>2, CallsSteps DEF OtherMove
<1> QED
  BY <1>1, <1>2, <1>3 DEF Quiet

\* A step that leaves the disks of a VM alone, and of the calls on it at most
\* ends some or brings them past their Create.
LEMMA SteadyFrame ==
    ASSUME NEW a \in Agents, Steady(a),
           pods'[a] = NoPod <=> pods[a] = NoPod,
           pods[a] # NoPod => SameDisks(pods'[a], pods[a]),
           configMaps'[a].disks = configMaps[a].disks,
           \A p \in Procs : InProgress(p)' /\ On(p, a)' =>
               /\ InProgress(p) /\ On(p, a) /\ req'[p] = req[p]
               /\ \/ pc'[p] \in {"watch", "wait", "sleep"}
                  \/ pc'[p] = pc[p] /\ copy'[p] = copy[p] /\ cm'[p] = cm[p],
           \A p \in Procs : On(p, a) /\ (At(p, "delete") \/ At(p, "create")) =>
               pc'[p] = pc[p] /\ outcome'[p] = outcome[p] /\ req'[p] = req[p],
           \A o \in Others : Working(o)' /\ OtherOn(o, a)' => Working(o) /\ OtherOn(o, a)
    PROVE  Steady(a)'
<1>1. Alone(a)'
  BY DEF Steady, Alone
<1>2. PodAgrees(a)'
  <2>1. \A p \in Procs : At(p, "create") /\ req[p].vm = a =>
            At(p, "create")' /\ req'[p].vm = a
    BY DEF At, On
  <2>2. \A p \in Procs : At(p, "delete") /\ req[p].vm = a =>
            At(p, "delete")' /\ req'[p] = req[p]
    BY DEF At, On
  <2>3. pods'[a] # NoPod => \A d \in Disks : AgreeOn(pods[a], configMaps[a].disks, d) =>
                                             AgreeOn(pods'[a], configMaps'[a].disks, d)
    BY DEF AgreeOn, SameDisks
  <2> QED
    BY <2>1, <2>2, <2>3 DEF Steady, PodAgrees
<1>3. ASSUME NEW p \in Procs, InProgress(p)', On(p, a)'
      PROVE  DiskCallOK(p, a)'
  <2>1. DiskCallOK(p, a) /\ req'[p] = req[p]
    BY <1>3 DEF Steady
  <2>2. CASE pc'[p] \in {"watch", "wait", "sleep"}
    BY <2>2 DEF DiskCallOK
  <2>3. CASE pc'[p] = pc[p] /\ copy'[p] = copy[p] /\ cm'[p] = cm[p]
    BY <2>1, <2>3 DEF DiskCallOK, SameDisks, AgreeOn
  <2> QED
    BY <1>3, <2>2, <2>3
<1> QED
  BY <1>1, <1>2, <1>3 DEF Steady

LEMMA ListsFrame ==
    ASSUME NEW a \in Agents, Lists(a),
           configMaps'[a].disks = configMaps[a].disks, claims' \subseteq claims,
           \A o \in Others : Working(o)' /\ OtherOn(o, a)' =>
               /\ Working(o) /\ OtherOn(o, a)
               /\ ask'[o] = ask[o] /\ place'[o] = place[o]
               /\ left'[o] = left[o] /\ listed'[o] = listed[o]
    PROVE  Lists(a)'
BY DEF Lists, ListOK

\* The director begins a call on a VM only when it waits for no other, and on
\* a quiet VM it has given up on none: there is no call the new one could meet.
LEMMA NobodyAtWork ==
    ASSUME NEW a \in Agents, Quiet(a), Free(a)
    PROVE  /\ \A p \in Procs : ~(InProgress(p) /\ On(p, a))
           /\ \A o \in Others : ~(Working(o) /\ OtherOn(o, a))
BY DEF Quiet, Free, Locked

LEMMA BeginDiskQuiet ==
    ASSUME CallsTypeOK, NEW p \in Procs, BeginDisk(p),
           NEW a \in Agents, Quiet(a), Steady(a), Lists(a)
    PROVE  Steady(a)' /\ Lists(a)'
<1>1. PICK r \in Request :
        /\ Free(r.vm) /\ req' = [req EXCEPT ![p] = r] /\ pc' = [pc EXCEPT ![p] = "get_pod"]
        /\ pc[p] = "idle" /\ outcome' \in {outcome, [outcome EXCEPT ![p] = "mismatch"]}
        /\ UNCHANGED <<pods, configMaps, copy, cm>>
  <2>1. PICK r \in Request :
          /\ req' = [req EXCEPT ![p] = r] /\ pc' = [pc EXCEPT ![p] = "get_pod"]
          /\ pc[p] = "idle" /\ outcome' \in {outcome, [outcome EXCEPT ![p] = "mismatch"]}
          /\ UNCHANGED <<pods, configMaps, copy, cm>>
    BY DEF BeginDisk, Begin, At, Goto, Ends, cluster
  <2>2. req'[p] = r
    BY <2>1 DEF CallsTypeOK, TypeOK
  <2> QED
    BY <2>1, <2>2 DEF BeginDisk
<1>2. /\ req'[p] = r /\ pc'[p] = "get_pod"
      /\ \A q \in Procs : q # p => req'[q] = req[q] /\ pc'[q] = pc[q] /\ outcome'[q] = outcome[q]
  BY <1>1 DEF CallsTypeOK, TypeOK
<1>3. UNCHANGED <<claims, ask, place, left, listed, result>>
  BY DEF BeginDisk, others
<1>4. Lists(a)'
  BY <1>1, <1>3, ListsFrame DEF Working, OtherOn
<1>5. CASE r.vm # a
  <2>1. \A q \in Procs : InProgress(q)' /\ On(q, a)' =>
            InProgress(q) /\ On(q, a) /\ req'[q] = req[q] /\ pc'[q] = pc[q]
    BY <1>2, <1>5 DEF InProgress, On
  <2>2. \A q \in Procs : On(q, a) => q # p
    BY <1>1 DEF On
  <2>3. SameDisks(pods'[a], pods[a])
    BY <1>1 DEF SameDisks
  <2> QED
    BY <1>1, <1>2, <1>3, <1>4, <2>1, <2>2, <2>3, SteadyFrame DEF Working, OtherOn
<1>6. CASE r.vm = a
  <2>1. /\ \A q \in Procs : ~(InProgress(q) /\ On(q, a))
        /\ \A o \in Others : ~(Working(o) /\ OtherOn(o, a))
    BY <1>1, <1>6, NobodyAtWork
  <2>2. \A q \in Procs : InProgress(q)' /\ On(q, a)' => q = p
    BY <1>2, <2>1 DEF InProgress, On
  <2>3. Alone(a)'
    BY <1>3, <2>1, <2>2 DEF Alone, Working, OtherOn
  <2>4. pods[a] # NoPod /\ \A d \in Disks : AgreeOn(pods[a], configMaps[a].disks, d)
    BY <2>1 DEF Steady, PodAgrees, At, InProgress, On
  <2>5. PodAgrees(a)'
    BY <1>1, <2>4 DEF PodAgrees, AgreeOn
  <2>6. DiskCallOK(p, a)'
    BY <1>2 DEF DiskCallOK
  <2> QED
    BY <1>4, <2>2, <2>3, <2>5, <2>6 DEF Steady
<1> QED
  BY <1>5, <1>6

\* The requests of one call, on another VM or on this one.
LEMMA MoveElsewhereQuiet ==
    ASSUME CallsTypeOK, NEW p \in Procs, Moves(p), UNCHANGED others,
           NEW a \in Agents, req[p].vm # a, Steady(a), Lists(a)
    PROVE  Steady(a)' /\ Lists(a)'
<1>1. InProgress(p) /\ Elsewhere(p)
  BY MovesElsewhere DEF CallsTypeOK
<1>2. pods'[a] = pods[a] /\ configMaps'[a] = configMaps[a] /\ req' = req
  BY <1>1 DEF Elsewhere
<1>3. ~On(p, a) /\ ~On(p, a)'
  BY <1>2 DEF On
<1>4. \A q \in Procs : On(q, a) \/ On(q, a)' =>
          /\ On(q, a) /\ pc'[q] = pc[q] /\ outcome'[q] = outcome[q]
          /\ copy'[q] = copy[q] /\ cm'[q] = cm[q]
  BY <1>1, <1>2, <1>3 DEF Elsewhere, On
<1>5. \A o \in Others : /\ Working(o)' <=> Working(o)
                        /\ OtherOn(o, a)' <=> OtherOn(o, a)
                        /\ ask'[o] = ask[o] /\ place'[o] = place[o]
                        /\ left'[o] = left[o] /\ listed'[o] = listed[o]
  BY DEF others, Working, OtherOn
<1>6. Lists(a)'
  BY <1>2, <1>5, ListsFrame DEF others
<1>7. SameDisks(pods'[a], pods[a])
  BY <1>2 DEF SameDisks
<1> QED
  BY <1>2, <1>4, <1>5, <1>6, <1>7, SteadyFrame DEF InProgress

\* What a request does to the disks of its VM, when the call goes on.
LEMMA MoveHereQuiet ==
    ASSUME CallsTypeOK, NEW p \in Procs, Moves(p), UNCHANGED others,
           NEW a \in Agents, req[p].vm = a, Quiet(a)', Steady(a)
    PROVE  Steady(a)' /\ Lists(a)'
<1>t. TypeOK
  BY DEF CallsTypeOK
<1> USE DEF At, Goto, Ends, cluster, history
<1>1. /\ InProgress(p) /\ On(p, a) /\ On(p, a)' /\ Elsewhere(p) /\ req' = req
      /\ req[p] \in Request
  BY <1>t, MovesElsewhere, CallTypes DEF On, InProgress, Elsewhere
<1>2. /\ \A q \in Procs : InProgress(q) /\ On(q, a) => q = p
      /\ \A o \in Others : ~(Working(o) /\ OtherOn(o, a))
  BY <1>1 DEF Steady, Alone
<1>3. /\ \A q \in Procs : InProgress(q)' /\ On(q, a)' => q = p
      /\ \A o \in Others : ~(Working(o)' /\ OtherOn(o, a)')
  BY <1>1, <1>2 DEF Elsewhere, InProgress, On, Working, OtherOn, others
<1>4. Alone(a)' /\ Lists(a)'
  BY <1>3 DEF Alone, Lists
<1>5. DiskCallOK(p, a) /\ PodAgrees(a)
  BY <1>1 DEF Steady
<1>6. outcome'[p] \in {"running", "ok"} /\ outcome[p] = "running"
  BY <1>1 DEF Quiet, InProgress
<1> SUFFICES PodAgrees(a)' /\ (InProgress(p)' => DiskCallOK(p, a)')
  BY <1>3, <1>4 DEF Steady
\* Nobody but the call itself is at its Delete or Create on the VM.
<1>7. ASSUME pc[p] \notin {"delete", "create"}
      PROVE  /\ pods[a] # NoPod
             /\ \A d \in Disks : AgreeOn(pods[a], configMaps[a].disks, d)
  BY <1>2, <1>5, <1>7 DEF PodAgrees, InProgress, On
<1>8. CASE GetPod(p)
  <2>1. /\ UNCHANGED <<pods, configMaps, outcome>> /\ pc[p] = "get_pod" /\ pc'[p] = "get_cm"
        /\ copy'[p] = pods[a]
    BY <1>t, <1>8 DEF GetPod, TypeOK
  <2>2. pods[a] # NoPod /\ \A d \in Disks : AgreeOn(pods[a], configMaps[a].disks, d)
    BY <1>7, <2>1
  <2>3. Admissible(pods[a])
    BY <2>2 DEF AgreeOn, Admissible
  <2> QED
    BY <2>1, <2>2, <2>3 DEF PodAgrees, DiskCallOK, SameDisks, AgreeOn
<1>9. CASE GetConfigMap(p)
  <2>1. /\ UNCHANGED <<pods, configMaps, copy>> /\ pc[p] = "get_cm" /\ pc'[p] = "update_cm"
        /\ cm'[p] = configMaps[a]
    BY <1>t, <1>9 DEF GetConfigMap, TypeOK
  <2>2. pods[a] # NoPod /\ \A d \in Disks : AgreeOn(pods[a], configMaps[a].disks, d)
    BY <1>7, <2>1
  <2> QED
    BY <1>5, <2>1, <2>2 DEF PodAgrees, DiskCallOK, AgreeOn, SameDisks
<1>10. CASE UpdateConfigMap(p)
  <2>1. /\ pods' = pods /\ pc[p] = "update_cm" /\ pc'[p] = "delete" /\ copy' = copy
        /\ outcome' = outcome
        /\ configMaps'[a].disks = Record(req[p], cm[p].disks)
    <3>1. /\ pods' = pods /\ pc[p] = "update_cm"
          /\ \/ pc' = [pc EXCEPT ![p] = "delete"] /\ copy' = copy /\ outcome' = outcome
             \/ outcome' = [outcome EXCEPT ![p] = "broken"]
          /\ configMaps' = [configMaps EXCEPT ![a] =
                              [disks |-> Record(req[p], cm[p].disks), rv |-> @.rv + 1]]
      BY <1>10 DEF UpdateConfigMap, Answer
    <3>2. outcome' # [outcome EXCEPT ![p] = "broken"]
      BY <1>t, <1>6 DEF TypeOK
    <3> QED
      BY <1>t, <3>1, <3>2 DEF TypeOK
  <2>2. pods[a] # NoPod /\ \A d \in Disks : AgreeOn(pods[a], configMaps[a].disks, d)
    BY <1>7, <2>1
  <2>3. /\ \A d \in Disks : d # req[p].disk =>
              (d \in configMaps'[a].disks <=> d \in configMaps[a].disks)
        /\ req[p].disk \in configMaps'[a].disks <=> req[p].op = "Add"
    BY <1>1, <1>5, <2>1 DEF DiskCallOK, Record, Request
  <2>4. PodAgrees(a)'
    <3>1. At(p, "delete")' /\ req'[p].vm = a /\ req'[p].disk = req[p].disk
      BY <1>1, <1>6, <2>1
    <3>2. \A d \in Disks : d # req[p].disk => AgreeOn(pods'[a], configMaps'[a].disks, d)
      BY <2>1, <2>2, <2>3 DEF AgreeOn
    <3> QED
      BY <2>1, <2>2, <3>1, <3>2 DEF PodAgrees
  <2> QED
    BY <1>1, <1>5, <2>1, <2>2, <2>3, <2>4 DEF DiskCallOK, SameDisks
<1>11. CASE DeletePod(p)
  <2>1. /\ pods'[a] = NoPod /\ configMaps' = configMaps /\ pc[p] = "delete"
        /\ pc'[p] = "create" /\ copy' = copy /\ outcome' = outcome
    <3>1. /\ pods' = [pods EXCEPT ![a] = NoPod] /\ pc[p] = "delete"
          /\ \/ pc' = [pc EXCEPT ![p] = "create"] /\ copy' = copy /\ outcome' = outcome
             \/ outcome' = [outcome EXCEPT ![p] = "broken"]
          /\ configMaps' = configMaps
      BY <1>11 DEF DeletePod, Answer
    <3>2. outcome' # [outcome EXCEPT ![p] = "broken"]
      BY <1>t, <1>6 DEF TypeOK
    <3> QED
      BY <1>t, <3>1, <3>2 DEF TypeOK
  <2>2. At(p, "create")' /\ req'[p].vm = a
    BY <1>1, <1>6, <2>1
  <2>3. \A d \in Disks : d # req[p].disk => AgreeOn(pods[a], configMaps[a].disks, d)
    BY <1>2, <1>5, <2>1 DEF PodAgrees, DiskCallOK, InProgress, On
  <2>4. SameDisks(copy[p], pods[a])
    BY <1>5, <2>1 DEF DiskCallOK
  <2>5. \A d \in Disks : d # req[p].disk => AgreeOn(copy[p], configMaps[a].disks, d)
    BY <2>3, <2>4 DEF AgreeOn, SameDisks
  <2> QED
    BY <1>1, <1>5, <2>1, <2>2, <2>5 DEF PodAgrees, DiskCallOK
<1>12. CASE CreatePod(p)
  <2> DEFINE new == Stored(Resubmitted(p), p)
  <2>1. /\ pods'[a] = new /\ configMaps' = configMaps /\ pc[p] = "create"
        /\ Admissible(Resubmitted(p)) /\ outcome' = outcome /\ pc'[p] = "watch"
    <3>1. /\ pods' = [pods EXCEPT ![a] = Stored(Resubmitted(p), p)] /\ pc[p] = "create"
          /\ \/ pc' = [pc EXCEPT ![p] = "watch"] /\ outcome' = outcome
             \/ outcome' = [outcome EXCEPT ![p] = "broken"]
          /\ configMaps' = configMaps /\ Admissible(Resubmitted(p))
      BY <1>12 DEF CreatePod, Accepts
    <3>2. outcome' # [outcome EXCEPT ![p] = "broken"]
      BY <1>t, <1>6 DEF TypeOK
    <3> QED
      BY <1>t, <3>1, <3>2 DEF TypeOK
  <2>2. copy[p] \in Pod /\ Admissible(copy[p])
    BY <1>t, <1>1, <1>5, <2>1 DEF TypeOK, DiskCallOK
  <2>3. AsAsked(p, req[p], new)
    BY <1>1, <2>1, <2>2, StoredAsAsked, CreatorsAssumption DEF Resubmitted
  <2>4. \A d \in Disks : d # req[p].disk => /\ new.volumes[d] = copy[p].volumes[d]
                                            /\ new.mounts[d] = copy[p].mounts[d]
    BY <1>1, <2>2, ResubmittedKeeps, CreatorsAssumption DEF Resubmitted
  <2> HIDE DEF new
  <2>5. \A d \in Disks : AgreeOn(new, configMaps[a].disks, d)
    BY <1>1, <1>5, <2>1, <2>3, <2>4 DEF AsAsked, Wanted, DiskCallOK, AgreeOn
  <2>6. pods'[a] # NoPod
    BY <1>t, <1>6, <2>1, ResubmittedOfCall, NoPodAssumption DEF new
  <2> QED
    BY <2>1, <2>5, <2>6 DEF PodAgrees, DiskCallOK
<1>13. CASE OpenWatch(p) \/ ReadEvent(p) \/ Sleep(p) \/ TimerFires(p)
  <2>1. /\ UNCHANGED <<pods, configMaps>> /\ pc'[p] \in {"watch", "wait", "sleep"}
        /\ pc[p] \notin {"delete", "create"}
    BY <1>t, <1>13 DEF OpenWatch, ReadEvent, Sleep, TimerFires, TypeOK
  <2>2. pods[a] # NoPod /\ \A d \in Disks : AgreeOn(pods[a], configMaps[a].disks, d)
    BY <1>7, <2>1
  <2> QED
    BY <2>1, <2>2 DEF PodAgrees, DiskCallOK, AgreeOn
<1>14. ASSUME Refused(p) \/ TimesOut(p) \/ Breaks(p)
       PROVE  FALSE
  BY <1>t, <1>6, <1>14 DEF Refused, TimesOut, Breaks, TypeOK
<1> QED
  BY <1>8, <1>9, <1>10, <1>11, <1>12, <1>13, <1>14 DEF Moves, Step

LEMMA ReportsQuiet ==
    ASSUME CallsTypeOK, NEW b \in Agents, KubeletReports(b), UNCHANGED others,
           NEW a \in Agents, Steady(a), Lists(a)
    PROVE  Steady(a)' /\ Lists(a)'
<1>0. pods[b] \in Pod
  BY DEF KubeletReports, CallsTypeOK, TypeOK
<1>1. PICK new \in Reports(pods[b]) :
        /\ pods[b] \in Pod /\ pods' = [pods EXCEPT ![b] = new]
        /\ UNCHANGED <<configMaps, req, pc, copy, cm, outcome>>
  BY <1>0, Zenon DEF KubeletReports
<1>2. new # NoPod /\ SameDisks(new, pods[b])
  BY <1>1, ReportsType, ReportsKeep, NoPodAssumption DEF SameDisks
<1>3. /\ pods'[a] = NoPod <=> pods[a] = NoPod
      /\ SameDisks(pods'[a], pods[a])
  <2>1. CASE b = a
    BY <1>1, <1>2, <2>1, NoPodAssumption DEF CallsTypeOK, TypeOK
  <2>2. CASE b # a
    BY <1>1, <2>2 DEF CallsTypeOK, TypeOK, SameDisks
  <2> QED
    BY <2>1, <2>2
<1>4. /\ \A p \in Procs : InProgress(p)' /\ On(p, a)' => InProgress(p) /\ On(p, a)
      /\ \A o \in Others : Working(o)' /\ OtherOn(o, a)' => Working(o) /\ OtherOn(o, a)
  BY <1>1 DEF InProgress, On, Working, OtherOn, others
<1>5. Steady(a)'
  BY <1>1, <1>3, <1>4, SteadyFrame
<1>6. Lists(a)'
  BY <1>1, <1>4, ListsFrame DEF others
<1> QED
  BY <1>5, <1>6

\* The other calls on another VM.
LEMMA OtherElsewhereQuiet ==
    ASSUME CallsTypeOK, NEW o \in Others, OtherStep(o),
           NEW a \in Agents, ask'[o].vm # a, Steady(a), Lists(a)
    PROVE  Steady(a)' /\ Lists(a)'
<1>1. pods'[a] = pods[a] /\ configMaps'[a] = configMaps[a]
  BY OtherElsewhere DEF vars
<1>2. /\ UNCHANGED <<claims, req, pc, copy, cm, outcome>>
      /\ \A x \in Others : Working(x)' /\ OtherOn(x, a)' =>
            /\ Working(x) /\ OtherOn(x, a)
            /\ ask'[x] = ask[x] /\ place'[x] = place[x]
            /\ left'[x] = left[x] /\ listed'[x] = listed[x]
  BY OtherElsewhere DEF Working, OtherOn
<1>3. SameDisks(pods'[a], pods[a])
  BY <1>1 DEF SameDisks
<1>4. Lists(a)'
  BY <1>1, <1>2, ListsFrame
<1>5. Steady(a)'
  BY <1>1, <1>2, <1>3, SteadyFrame DEF InProgress, On
<1> QED
  BY <1>4, <1>5

\* The only call in progress on a quiet VM finds its pod there, with the disks
\* of its settings.
LEMMA AloneMeansAgreed ==
    ASSUME NEW o \in Others, Working(o), NEW a \in Agents, OtherOn(o, a), Steady(a)
    PROVE  /\ \A p \in Procs : ~(InProgress(p) /\ On(p, a))
           /\ \A x \in Others : Working(x) /\ OtherOn(x, a) => x = o
           /\ pods[a] # NoPod
           /\ \A d \in Disks : AgreeOn(pods[a], configMaps[a].disks, d)
<1>1. /\ \A p \in Procs : ~(InProgress(p) /\ On(p, a))
      /\ \A x \in Others : Working(x) /\ OtherOn(x, a) => x = o
  BY DEF Steady, Alone
<1> QED
  BY <1>1 DEF Steady, PodAgrees, At, InProgress, On

LEMMA BeginOtherQuiet ==
    ASSUME CallsTypeOK, FreshLists, NEW o \in Others, BeginOther(o),
           NEW a \in Agents, ask'[o].vm = a, Quiet(a), Steady(a)
    PROVE  Steady(a)' /\ Lists(a)'
<1> USE DEF Asks, Turns
<1>1. PICK r \in Ask : Free(r.vm) /\ ask' = [ask EXCEPT ![o] = r]
  BY DEF BeginOther
<1>2. Free(a)
  BY <1>1 DEF CallsTypeOK
<1>3. /\ \A p \in Procs : ~(InProgress(p) /\ On(p, a))
      /\ \A x \in Others : ~(Working(x) /\ OtherOn(x, a))
  BY <1>2, NobodyAtWork
<1>4. /\ UNCHANGED <<pods, configMaps, req, pc, copy, cm, outcome, left, listed>>
      /\ place[o] = "idle" /\ place'[o] # "claims"
  BY DEF BeginOther, vars, CallsTypeOK
<1>5. \A x \in Others : Working(x)' /\ OtherOn(x, a)' => x = o
  BY <1>3, OtherElsewhere DEF OtherStep, Working, OtherOn
<1>6. \A p \in Procs : ~(InProgress(p)' /\ On(p, a)')
  BY <1>3, <1>4 DEF InProgress, On
<1>7. Alone(a)'
  BY <1>5, <1>6 DEF Alone
<1>8. PodAgrees(a)'
  BY <1>4 DEF Steady, PodAgrees, At, AgreeOn
<1>9. ListOK(o, a)'
  BY <1>4 DEF ListOK, FreshLists
<1> QED
  BY <1>5, <1>6, <1>7, <1>8, <1>9 DEF Steady, Lists

LEMMA OtherHereQuiet ==
    ASSUME CallsTypeOK, AskInv, FreshLists, NEW o \in Others, OtherStep(o), place[o] # "idle",
           NEW a \in Agents, ask[o].vm = a, Quiet(a), Steady(a), Lists(a)
    PROVE  Steady(a)' /\ Lists(a)'
<1>t. TypeOK
  BY DEF CallsTypeOK
<1> USE DEF Asks, Turns, Results
<1>1. Working(o) /\ OtherOn(o, a) /\ ask[o].op # "delete" /\ ask'[o] = ask[o]
  BY OtherElsewhere DEF Working, OtherOn, Quiet
<1>2. /\ \A p \in Procs : ~(InProgress(p) /\ On(p, a))
      /\ \A x \in Others : Working(x) /\ OtherOn(x, a) => x = o
      /\ pods[a] # NoPod
      /\ \A d \in Disks : AgreeOn(pods[a], configMaps[a].disks, d)
  BY <1>1, AloneMeansAgreed
<1>3. /\ UNCHANGED <<claims, req, pc, copy, cm, outcome>>
      /\ \A x \in Others : Working(x)' /\ OtherOn(x, a)' => Working(x) /\ OtherOn(x, a)
  BY <1>1, OtherElsewhere DEF Working, OtherOn
<1>4. ~(DeleteVMPod(o) \/ DeleteVMConfigMap(o) \/ BeginOther(o))
  BY <1>1 DEF DeleteVMPod, DeleteVMConfigMap, BeginOther, AskInv
<1>5. /\ configMaps' = configMaps
      /\ pods'[a] # NoPod /\ SameDisks(pods'[a], pods[a])
  <2>1. CASE Patch(o)
    <3>1. /\ configMaps' = configMaps
          /\ pods' = [pods EXCEPT ![a] = [pods[a] EXCEPT !.meta = Patched(o, pods[a].meta)]]
      BY <2>1 DEF Patch
    <3>2. place[o] = "patch" /\ pods[a] \in Pod
      BY <1>t, <1>2, <2>1 DEF Patch, TypeOK
    <3>3. Patched(o, pods[a].meta) \in Metas
      BY <3>2, PatchedType DEF Pod
    <3>4. /\ [pods[a] EXCEPT !.meta = Patched(o, pods[a].meta)] \in Pod
          /\ SameDisks([pods[a] EXCEPT !.meta = Patched(o, pods[a].meta)], pods[a])
      BY <3>2, <3>3 DEF Pod, SameDisks
    <3> QED
      BY <1>t, <3>1, <3>4, NoPodAssumption DEF TypeOK
  <2>2. CASE OtherBreaks(o) \/ HasVM(o) \/ GetDisksPod(o) \/ LookUp(o)
    BY <1>2, <2>2 DEF OtherBreaks, HasVM, GetDisksPod, LookUp, vars, SameDisks
  <2>3. CASE AnswerDisks(o) \/ ReadLabels(o) \/ NoPodToTag(o)
    BY <1>2, <2>3 DEF AnswerDisks, ReadLabels, NoPodToTag, vars, SameDisks
  <2> QED
    BY <1>4, <2>1, <2>2, <2>3 DEF OtherStep
<1>6. Steady(a)'
  BY <1>2, <1>3, <1>5, SteadyFrame DEF InProgress, On
<1>7. Working(o)' => ListOK(o, a)'
  <2>1. CASE GetDisksPod(o)
    <3>1. /\ left'[o] = {d \in Disks : pods[a].volumes[d] > 0}
          /\ listed' = listed /\ place[o] = "get_pod"
      BY <1>2, <2>1 DEF GetDisksPod, CallsTypeOK
    <3>2. listed'[o] = {}
      BY <3>1 DEF FreshLists
    <3>3. configMaps[a].disks \subseteq Disks
      BY <1>t DEF TypeOK, ConfigMap
    <3>4. left'[o] = configMaps[a].disks
      BY <1>2, <3>1, <3>3 DEF AgreeOn
    <3> QED
      BY <1>5, <3>2, <3>4 DEF ListOK
  <2>2. CASE LookUp(o)
    <3>1. PICK d \in left[o] : /\ left' = [left EXCEPT ![o] = @ \ {d}]
                               /\ listed' = [listed EXCEPT ![o] = @ \cup ({d} \cap claims)]
      BY <2>2 DEF LookUp
    <3>2. left'[o] = left[o] \ {d} /\ listed'[o] = listed[o] \cup ({d} \cap claims)
      BY <3>1 DEF CallsTypeOK
    <3>3. ListOK(o, a) /\ place' = place /\ place[o] = "claims"
      BY <1>1, <2>2 DEF Lists, LookUp
    <3> QED
      BY <1>1, <1>3, <1>5, <3>1, <3>2, <3>3 DEF ListOK
  <2>3. CASE ReadLabels(o)
    BY <1>1, <2>3 DEF ReadLabels, AskInv, ListOK
  <2>4. ASSUME OtherBreaks(o) \/ HasVM(o) \/ AnswerDisks(o) \/ NoPodToTag(o)
        PROVE  ~Working(o)'
    BY <2>4 DEF OtherBreaks, HasVM, AnswerDisks, NoPodToTag, Working, CallsTypeOK
  <2>5. ASSUME Patch(o)
        PROVE  ~Working(o)'
    BY <2>5 DEF Patch, Concludes, Working, CallsTypeOK
  <2> QED
    BY <1>4, <2>1, <2>2, <2>3, <2>4, <2>5 DEF OtherStep
<1>8. Lists(a)'
  BY <1>2, <1>3, <1>7 DEF Lists
<1> QED
  BY <1>6, <1>8

LEMMA NextFreshLists ==
    CallsTypeOK /\ AskInv /\ FreshLists /\ [CallsNext]_allVars => FreshLists'
<1> SUFFICES ASSUME CallsTypeOK, AskInv, FreshLists, [CallsNext]_allVars,
                    NEW x \in Others, place'[x] \in {"idle", "get_pod"}
             PROVE  left'[x] = {} /\ listed'[x] = {}
  BY DEF FreshLists
<1> USE DEF Asks, Turns, Results, CallsTypeOK
<1>1. ASSUME NEW o \in Others, OtherStep(o)
      PROVE  left'[x] = {} /\ listed'[x] = {}
  <2>1. CASE x # o
    BY <1>1, <2>1, OtherElsewhere DEF FreshLists
  <2>2. ASSUME x = o, BeginOther(o) \/ OtherBreaks(o) \/ HasVM(o) \/ GetDisksPod(o)
        PROVE  left'[x] = {} /\ listed'[x] = {}
    BY <2>2 DEF BeginOther, OtherBreaks, HasVM, GetDisksPod, FreshLists
  <2>3. ASSUME x = o,
               \/ DeleteVMPod(o) \/ DeleteVMConfigMap(o) \/ LookUp(o) \/ AnswerDisks(o)
               \/ ReadLabels(o) \/ Patch(o) \/ NoPodToTag(o)
        PROVE  FALSE
    BY <2>3 DEF DeleteVMPod, DeleteVMConfigMap, LookUp, AnswerDisks, ReadLabels, Patch,
                NoPodToTag, Answered, Concludes
  <2> QED
    BY <1>1, <2>1, <2>2, <2>3 DEF OtherStep
<1>2. ASSUME DiskMove \/ GivesUp \/ \E d \in Disks : ClaimGoes(d)
      PROVE  UNCHANGED <<place, left, listed>>
  BY <1>2 DEF DiskMove, others, GivesUp, ClaimGoes
<1> QED
  BY <1>1, <1>2, CallsSteps DEF OtherMove, FreshLists

LEMMA NextQuiet == CallsTypeOK /\ AskInv /\ QuietInv /\ [CallsNext]_allVars => QuietInv'
<1> SUFFICES ASSUME CallsTypeOK, AskInv, QuietInv, [CallsNext]_allVars,
                    NEW a \in Agents, Quiet(a)'
             PROVE  Steady(a)' /\ Lists(a)'
  BY NextFreshLists DEF QuietInv
<1>1. Quiet(a) /\ Steady(a) /\ Lists(a) /\ FreshLists
  BY QuietBefore DEF QuietInv
<1>2. ASSUME NEW p \in Procs, BeginDisk(p)
      PROVE  Steady(a)' /\ Lists(a)'
  BY <1>1, <1>2, BeginDiskQuiet
<1>3. ASSUME NEW p \in Procs, Moves(p), UNCHANGED others
      PROVE  Steady(a)' /\ Lists(a)'
  BY <1>1, <1>3, MoveElsewhereQuiet, MoveHereQuiet
<1>4. ASSUME NEW b \in Agents, KubeletReports(b), UNCHANGED others
      PROVE  Steady(a)' /\ Lists(a)'
  BY <1>1, <1>4, ReportsQuiet
<1>5. ASSUME NEW o \in Others, OtherStep(o)
      PROVE  Steady(a)' /\ Lists(a)'
  <2>1. CASE ask'[o].vm # a
    BY <1>1, <1>5, <2>1, OtherElsewhereQuiet
  <2>2. CASE ask'[o].vm = a /\ place[o] = "idle"
    BY <1>1, <1>5, <2>2, OtherElsewhere, BeginOtherQuiet
  <2>3. CASE ask'[o].vm = a /\ place[o] # "idle"
    <3>1. ask'[o] = ask[o]
      BY <1>5, <2>3, OtherElsewhere
    <3> QED
      BY <1>1, <1>5, <2>3, <3>1, OtherHereQuiet
  <2> QED
    BY <2>1, <2>2, <2>3
<1>6. ASSUME GivesUp \/ (\E d \in Disks : ClaimGoes(d)) \/ UNCHANGED allVars
      PROVE  Steady(a)' /\ Lists(a)'
  <2>1. /\ UNCHANGED <<pods, configMaps, req, pc, copy, cm, outcome>>
        /\ UNCHANGED <<ask, place, left, listed, result>> /\ claims' \subseteq claims
    BY <1>6 DEF GivesUp, ClaimGoes, allVars, vars, others
  <2>2. SameDisks(pods'[a], pods[a])
    BY <2>1 DEF SameDisks
  <2>3. Lists(a)'
    BY <1>1, <2>1, ListsFrame DEF Working, OtherOn
  <2>4. Steady(a)'
    BY <1>1, <2>1, <2>2, SteadyFrame DEF Working, OtherOn, InProgress, On
  <2> QED
    BY <2>3, <2>4
<1> QED
  BY <1>2, <1>3, <1>4, <1>5, <1>6 DEF CallsNext, DiskStep, Moves

LEMMA StepLists ==
    CallsTypeOK /\ AskInv /\ QuietInv /\ [CallsNext]_allVars => [DiskListIsRight]_allVars
<1> SUFFICES ASSUME CallsTypeOK, AskInv, QuietInv, [CallsNext]_allVars, NEW o \in Others,
                    result[o] = "running", result'[o] = "ok", ask[o].op = "disks",
                    Undisturbed(ask[o].vm)
             PROVE  /\ listed'[o] \subseteq configMaps[ask[o].vm].disks
                    /\ configMaps[ask[o].vm].disks \cap claims \subseteq listed'[o]
  BY DEF DiskListIsRight
<1> USE DEF Asks, Turns, Results, CallsTypeOK
<1>1. OtherStep(o)
  <2>1. ASSUME NEW x \in Others, x # o, OtherStep(x)
        PROVE  FALSE
    BY <2>1, OtherElsewhere
  <2>2. ASSUME DiskMove \/ GivesUp \/ \E d \in Disks : ClaimGoes(d)
        PROVE  FALSE
    BY <2>2 DEF DiskMove, others, GivesUp, ClaimGoes
  <2> QED
    BY <2>1, <2>2, CallsSteps DEF OtherMove
<1>2. \/ AnswerDisks(o)
      \/ GetDisksPod(o) /\ pods[ask[o].vm] = NoPod
  <2>1. ~(BeginOther(o) \/ OtherBreaks(o) \/ HasVM(o) \/ LookUp(o) \/ ReadLabels(o) \/ NoPodToTag(o))
    BY DEF BeginOther, OtherBreaks, HasVM, LookUp, ReadLabels, NoPodToTag
  <2>2. ~(DeleteVMPod(o) \/ DeleteVMConfigMap(o) \/ Patch(o))
    BY DEF DeleteVMPod, DeleteVMConfigMap, Patch, Answered, AskInv
  <2>3. GetDisksPod(o) => pods[ask[o].vm] = NoPod
    BY DEF GetDisksPod
  <2> QED
    BY <1>1, <2>1, <2>2, <2>3 DEF OtherStep
<1>3. place[o] \in {"get_pod", "claims"}
  BY <1>2 DEF AnswerDisks, GetDisksPod
<1>4. PICK a \in Agents : a = ask[o].vm
  BY <1>3, AskTypes
<1>5. Working(o) /\ OtherOn(o, a) /\ Quiet(a)
  BY <1>3, <1>4 DEF Working, OtherOn, Undisturbed, Quiet
<1>6. Steady(a) /\ ListOK(o, a)
  BY <1>5 DEF QuietInv, Lists
<1>7. AnswerDisks(o)
  BY <1>2, <1>4, <1>5, <1>6, AloneMeansAgreed
<1>8. place[o] = "claims" /\ left[o] = {} /\ listed' = listed
  BY <1>7 DEF AnswerDisks
<1> QED
  BY <1>4, <1>6, <1>8 DEF ListOK

\* While every attach and detach succeeded and the director gave up on none,
\* get_disks answers the disks of the settings, except that it may leave out
\* those whose claim delete_disk takes away, whenever it does so
\* (get_disks.go:36-52).
THEOREM AnsweredListsAreRight == CallsSpec => DiskListsAreRight
<1>0. \A i \in Address : FreshPod(CreateVM, i) \in Pod
  BY CreatorsAssumption, MetasAssumption DEF FreshPod, Pod, Address, Bag, EmptyBag
<1>1. CallsInit => QuietInv
  <2> SUFFICES ASSUME CallsInit
               PROVE  QuietInv
    OBVIOUS
  <2>1. FreshLists
    BY DEF CallsInit, FreshLists
  <2>2. /\ \A p \in Procs : ~InProgress(p)
        /\ \A o \in Others : ~Working(o)
    BY DEF CallsInit, Init, InProgress, Working
  <2>3. ASSUME NEW a \in Agents
        PROVE  PodAgrees(a)
    <3>1. /\ configMaps[a].disks = {}
          /\ \E i \in Address : pods[a] = FreshPod(CreateVM, i)
      BY DEF CallsInit, Init
    <3>2. pods[a] # NoPod
      BY <1>0, <3>1, NoPodAssumption
    <3>3. \A d \in Disks : pods[a].volumes[d] = 0 /\ pods[a].mounts[d] = 0
      <4>1. PICK i \in Address : pods[a] = FreshPod(CreateVM, i)
        BY <3>1
      <4>2. pods[a].volumes = EmptyBag /\ pods[a].mounts = EmptyBag
        BY <4>1 DEF FreshPod
      <4> QED
        BY <4>2 DEF EmptyBag
    <3> QED
      BY <3>1, <3>2, <3>3 DEF PodAgrees, AgreeOn
  <2> QED
    BY <2>1, <2>2, <2>3 DEF QuietInv, Steady, Alone, Lists
<1> QED
  BY <1>1, InitCallsType, NextCallsType, NextQuiet, StepLists, PTL
     DEF CallsSpec, DiskListsAreRight

-----------------------------------------------------------------------------
(* What attach_disk and detach_disk guarantee each other they guarantee next *)
(* to the other calls too: delete_vm only takes pods and settings away, and  *)
(* a patch changes a label.                                                  *)

LEMMA OtherCluster ==
    ASSUME CallsTypeOK, AskInv, OtherMove
    PROVE  /\ UNCHANGED diskCalls
           /\ \A a \in Agents : configMaps'[a] \in {configMaps[a], NoConfigMap}
           /\ \A a \in Agents :
                 \/ pods'[a] \in {pods[a], NoPod}
                 \/ /\ pods[a] # NoPod
                    /\ pods'[a].volumes = pods[a].volumes /\ pods'[a].mounts = pods[a].mounts
<1>t. TypeOK
  BY DEF CallsTypeOK
<1>1. ASSUME NEW o \in Others, DeleteVMPod(o) \/ DeleteVMConfigMap(o)
      PROVE  /\ UNCHANGED diskCalls
             /\ \A a \in Agents : configMaps'[a] \in {configMaps[a], NoConfigMap}
             /\ \A a \in Agents : pods'[a] \in {pods[a], NoPod}
  BY <1>1, <1>t DEF DeleteVMPod, DeleteVMConfigMap, TypeOK
<1>2. ASSUME NEW o \in Others, Patch(o), NEW a \in Agents
      PROVE  /\ UNCHANGED <<configMaps, diskCalls>>
             /\ \/ pods'[a] \in {pods[a], NoPod}
                \/ /\ pods[a] # NoPod
                   /\ pods'[a].volumes = pods[a].volumes /\ pods'[a].mounts = pods[a].mounts
  <2>1. /\ UNCHANGED <<configMaps, diskCalls>> /\ pods[ask[o].vm] # NoPod
        /\ pods' = [pods EXCEPT ![ask[o].vm] =
                      [pods[ask[o].vm] EXCEPT !.meta = Patched(o, pods[ask[o].vm].meta)]]
    BY <1>2 DEF Patch
  <2>2. CASE a = ask[o].vm
    <3>1. pods[a] \in Pod /\ place[o] = "patch"
      BY <1>t, <1>2, <2>1, <2>2 DEF Patch, Asks, TypeOK
    <3>2. pods'[a] = [pods[a] EXCEPT !.meta = Patched(o, pods[a].meta)]
      BY <1>t, <2>1, <2>2 DEF TypeOK
    <3> QED
      BY <2>1, <2>2, <3>1, <3>2 DEF Pod
  <2>3. CASE a # ask[o].vm
    BY <1>t, <2>1, <2>3 DEF TypeOK
  <2> QED
    BY <2>1, <2>2, <2>3
<1>3. CASE UNCHANGED vars
  BY <1>3 DEF vars, diskCalls
<1>4. ASSUME NEW o \in Others, Patch(o)
      PROVE  UNCHANGED <<configMaps, diskCalls>>
  BY <1>4 DEF Patch
<1> QED
  BY <1>1, <1>2, <1>3, <1>4, OtherLeaves

LEMMA NextCallsForeign ==
    CallsTypeOK /\ AskInv /\ ForeignInv /\ [CallsNext]_allVars => ForeignInv'
<1> SUFFICES ASSUME CallsTypeOK, AskInv, ForeignInv, [CallsNext]_allVars
             PROVE  ForeignInv'
  OBVIOUS
<1>1. CASE DiskMove
  BY <1>1, NextForeign DEF DiskMove, CallsTypeOK
<1>2. CASE OtherMove
  <2>1. \A a \in Agents : Clean(a)'
    BY <1>2, OtherCluster, NothingIsOwn DEF ForeignInv, Clean, Own, OwnDisks
  <2>2. UNCHANGED <<req, pc, copy, cm, outcome>>
    BY <1>2, OtherCluster DEF diskCalls
  <2> QED
    BY <2>1, <2>2 DEF ForeignInv, CleanCall, SameContext, InProgress
<1> QED
  BY <1>1, <1>2, CallsSteps

LEMMA NextCallsSound ==
    CallsTypeOK /\ AskInv /\ Sound /\ [CallsNext]_allVars => Sound'
<1> SUFFICES ASSUME CallsTypeOK, AskInv, Sound, [CallsNext]_allVars
             PROVE  Sound'
  OBVIOUS
<1>1. CASE DiskMove
  BY <1>1, NextSound DEF DiskMove, CallsTypeOK
<1>2. CASE OtherMove
  <2>1. \A a \in Agents : pods'[a] # NoPod => Admissible(pods'[a])
    BY <1>2, OtherCluster DEF Sound, Admissible
  <2>2. copy' = copy
    BY <1>2, OtherCluster DEF diskCalls
  <2> QED
    BY <2>1, <2>2 DEF Sound
<1> QED
  BY <1>1, <1>2, CallsSteps

\* A waiting call reads the patch of its pod as it reads a report of the
\* kubelet, and the deletion by delete_vm as the one by another call.
LEMMA NextCallsStream ==
    CallsTypeOK /\ AskInv /\ Sound /\ StreamInv /\ [CallsNext]_allVars => StreamInv'
<1> SUFFICES ASSUME CallsTypeOK, AskInv, Sound, StreamInv, [CallsNext]_allVars, NEW q \in Procs
             PROVE  WatchOK(q)'
  BY DEF StreamInv
<1>t. TypeOK
  BY DEF CallsTypeOK
<1>q. /\ WatchOK(q) /\ stream[q] \in Seq(Event)
      /\ Watching(q) => req[q] \in Request /\ req[q].vm \in Agents
  BY <1>t DEF StreamInv, TypeOK, Watching, InProgress, Request
<1>1. CASE DiskMove
  BY <1>t, <1>1, NextStream DEF DiskMove, StreamInv
<1>2. ASSUME UNCHANGED <<req, pc, outcome>>, stream'[q] = stream[q],
             Watching(q) => pods'[req[q].vm] = pods[req[q].vm]
      PROVE  WatchOK(q)'
  BY <1>t, <1>q, <1>2, WatchFrame
<1>3. ASSUME NEW o \in Others, DeleteVMPod(o)
      PROVE  WatchOK(q)'
  <2> DEFINE a == ask[o].vm
             e == [type |-> "DELETED", pod |-> pods[a]]
  <2>1. UNCHANGED <<req, pc, outcome>> /\ pods' = [pods EXCEPT ![a] = NoPod] /\ a \in Agents
    BY <1>3, AskTypes DEF DeleteVMPod, Asks, diskCalls
  <2>2. CASE pods[a] # NoPod /\ Watches(q, a)
    <3>1. /\ stream' = [x \in Procs |-> IF Watches(x, a) THEN Append(stream[x], e)
                                        ELSE stream[x]]
          /\ pods[a] \in Pod
      BY <1>t, <1>3, <2>1, <2>2 DEF DeleteVMPod, Notify, TypeOK
    <3>2. e \in Event /\ e.type = "DELETED"
      BY <3>1 DEF Event
    <3> HIDE DEF e
    <3>3. stream'[q] = Append(stream[q], e) /\ Watching(q) /\ Watching(q)' /\ req'[q] = req[q]
      BY <2>1, <2>2, <3>1 DEF Watches, Watching, InProgress
    <3>4. Replaced(q, req[q], Append(stream[q], e))
      BY <1>q, <3>2, <3>3, ReplacedStays, MineReplaced DEF WatchOK
    <3> QED
      BY <3>3, <3>4 DEF WatchOK
  <2>3. CASE pods[a] # NoPod /\ ~Watches(q, a)
    <3>1. stream'[q] = stream[q]
      BY <1>3, <2>3 DEF DeleteVMPod, Notify
    <3>2. Watching(q) => pods'[req[q].vm] = pods[req[q].vm]
      BY <1>t, <1>q, <2>1, <2>3 DEF Watches, Watching, TypeOK
    <3> QED
      BY <1>2, <2>1, <3>1, <3>2
  <2>4. CASE pods[a] = NoPod
    <3>1. stream' = stream /\ pods' = pods
      BY <1>t, <1>3, <2>1, <2>4 DEF DeleteVMPod, TypeOK
    <3> QED
      BY <1>2, <2>1, <3>1
  <2> QED
    BY <2>2, <2>3, <2>4
<1>4. ASSUME NEW o \in Others, Patch(o)
      PROVE  WatchOK(q)'
  <2> DEFINE a == ask[o].vm
             new == [pods[a] EXCEPT !.meta = Patched(o, pods[a].meta)]
  <2>1. /\ UNCHANGED <<req, pc, outcome>> /\ pods' = [pods EXCEPT ![a] = new]
        /\ IF new = pods[a] THEN stream' = stream ELSE Notify(a, "MODIFIED", new)
        /\ a \in Agents /\ pods[a] \in Pod /\ place[o] = "patch"
    BY <1>t, <1>4, AskTypes DEF Patch, Asks, diskCalls, TypeOK
  <2>2. Patched(o, pods[a].meta) \in Metas
    BY <2>1, PatchedType DEF Pod
  <2>3. /\ new \in Pod /\ new.uid = pods[a].uid
        /\ new.volumes = pods[a].volumes /\ new.mounts = pods[a].mounts
    BY <2>1, <2>2 DEF Pod
  <2> HIDE DEF new
  <2>4. CASE new = pods[a]
    <3>1. stream' = stream /\ pods' = pods
      BY <1>t, <2>1, <2>4 DEF TypeOK
    <3> QED
      BY <1>2, <2>1, <3>1
  <2>5. CASE new # pods[a] /\ Watches(q, a)
    <3>1. Watching(q) /\ Watching(q)' /\ req[q].vm = a /\ pods'[a] = new
          /\ stream'[q] = Append(stream[q], [type |-> "MODIFIED", pod |-> new])
      BY <1>t, <2>1, <2>5 DEF Notify, Watches, Watching, InProgress, TypeOK
    <3>2. [type |-> "MODIFIED", pod |-> new] \in Event
      BY <2>3 DEF Event
    <3>3. CASE Replaced(q, req[q], stream[q])
      BY <1>q, <2>1, <3>1, <3>2, <3>3, ReplacedStays DEF WatchOK
    <3>4. CASE Mine(q, req[q], stream[q], pods[a])
      <4>1. AsAsked(q, req[q], new)
        BY <2>3, <3>4 DEF Mine, AsAsked
      <4>2. Mine(q, req[q], Append(stream[q], [type |-> "MODIFIED", pod |-> new]), new)
        BY <1>q, <2>1, <2>3, <3>4, <4>1, MineReported
      <4> QED
        BY <2>1, <3>1, <4>2 DEF WatchOK
    <3> QED
      BY <1>q, <3>1, <3>3, <3>4 DEF WatchOK
  <2>6. CASE new # pods[a] /\ ~Watches(q, a)
    <3>1. stream'[q] = stream[q]
      BY <2>1, <2>6 DEF Notify
    <3>2. Watching(q) => pods'[req[q].vm] = pods[req[q].vm]
      BY <1>t, <1>q, <2>1, <2>6 DEF Watches, Watching, TypeOK
    <3> QED
      BY <1>2, <2>1, <3>1, <3>2
  <2> QED
    BY <2>4, <2>5, <2>6
<1>5. ASSUME NEW o \in Others, DeleteVMConfigMap(o)
      PROVE  WatchOK(q)'
  BY <1>2, <1>5 DEF DeleteVMConfigMap, diskCalls
<1>6. CASE UNCHANGED vars
  BY <1>2, <1>6 DEF vars
<1> QED
  BY <1>1, <1>3, <1>4, <1>5, <1>6, CallsSteps, OtherLeaves

\* Between Delete and Create of a recreatePod there is no pod and no second
\* one at that point, whatever delete_vm and set_vm_metadata do meanwhile
\* (volume_manager.go:106-114).
THEOREM WindowsStayExclusive == CallsSpec => []WindowExclusive
BY CallsInWindow, PTL

\* No call, and no overlap of calls, brings a disk of another context into a
\* VM (volume_manager.go:36-41, 56-61).
THEOREM ForeignDisksStayOut == CallsSpec => []NoForeignDisk
<1>1. CallsInit => ForeignInv
  BY InitForeign DEF CallsInit
<1>2. ForeignInv /\ TypeOK => NoForeignDisk
  BY DEF ForeignInv, Clean, Own, OwnDisks, NoForeignDisk
<1>3. CallsTypeOK => TypeOK
  BY DEF CallsTypeOK
<1> QED
  BY <1>1, <1>2, <1>3, CallsTypeCorrect, NextCallsForeign, PTL DEF CallsSpec

LEMMA CallStreamsAreRight == CallsSpec => [](CallsTypeOK /\ AskInv /\ StreamInv)
<1>1. CallsInit => Sound /\ StreamInv
  BY InitSound DEF CallsInit, Init, StreamInv, WatchOK, Watching, InProgress
<1> QED
  BY <1>1, CallsTypeCorrect, NextCallsSound, NextCallsStream, PTL DEF CallsSpec

\* A patch or a delete_vm of an overlapping call does not make an attach or
\* detach wait for nothing either: what they do to its pod it is told
\* (volume_manager.go:111-116, 222-231).
THEOREM WatchesStayRight == CallsSpec => []IdleWatchIsRight
BY CallStreamsAreRight, StreamMeansWatch, PTL

\* An attach or detach that stops waiting with success was shown its own pod
\* also when a patch or a delete_vm of an overlapping call put events in its
\* watch (volume_manager.go:237-253).
THEOREM SuccessesStayOwnPods == CallsSpec => SuccessIsOwnPod
<1>1. CallsTypeOK /\ AskInv /\ StreamInv /\ [CallsNext]_allVars => [AcceptsOwnPod]_vars
  <2> SUFFICES ASSUME CallsTypeOK, AskInv, StreamInv, [CallsNext]_allVars
               PROVE  [AcceptsOwnPod]_vars
    OBVIOUS
  <2>1. CASE DiskMove
    BY <2>1, StepAcceptsOwn DEF DiskMove, CallsTypeOK
  <2>2. CASE OtherMove
    BY <2>2, OtherFrame DEF AcceptsOwnPod, At
  <2> QED
    BY <2>1, <2>2, CallsSteps
<1> QED
  BY <1>1, CallStreamsAreRight, PTL DEF CallsSpec, SuccessIsOwnPod

===============================================================================
