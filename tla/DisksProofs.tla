----------------------------- MODULE DisksProofs -----------------------------
(***************************************************************************)
(* Proofs about Disks for any number of processes and disks, any metadata  *)
(* and any bound on versions.                                              *)
(***************************************************************************)
EXTENDS Disks, SequenceTheorems, TLAPS

(* Type correctness *)

\* A claim create_disk submits is a claim.
LEMMA NewClaimType ==
    ASSUME NEW id \in IDs, NEW phase \in {"Pending", "Bound"}
    PROVE  NewClaim(id, phase) \in Claim
  BY DEF NewClaim, Claim, Labels, Keys

\* Valid metadata over labels gives labels (set_disk_metadata.go:39-56).
LEMMA MergedType ==
    ASSUME NEW labels \in Labels, NEW metadata \in Metadata, ~Invalid(metadata)
    PROVE  Merged(labels, metadata) \in Labels
  <1>1. \A k \in Keys : metadata[k] \in IDs \cup Values \cup {Absent}
    BY MetadataAssumption DEF Invalid
  <1>2. \A k \in Keys : labels[k] \in IDs \cup Values \cup {Absent}
    BY DEF Labels
  <1>3. QED
    BY <1>1, <1>2 DEF Merged, Labels

\* What a watch hears of a claim are events.
LEMMA SeenType ==
    ASSUME NEW id, NEW old \in Claim \cup {NoClaim}, NEW new \in Claim \cup {NoClaim}
    PROVE  Seen(id, old, new) \in Seq(Event)
  <1> DEFINE was == old # NoClaim /\ old.labels[IdKey] = id
             is  == new # NoClaim /\ new.labels[IdKey] = id
  <1>1. \A type \in {"ADDED", "MODIFIED", "DELETED"}, claim \in Claim :
            <<[type |-> type, phase |-> claim.phase]>> \in Seq(Event)
    BY DEF Claim, Event
  <1>2. CASE was /\ is
    BY <1>1, <1>2 DEF Seen
  <1>3. CASE ~was /\ is
    BY <1>1, <1>3 DEF Seen
  <1>4. CASE was /\ ~is
    BY <1>1, <1>4 DEF Seen
  <1>5. CASE ~was /\ ~is
    BY <1>5 DEF Seen
  <1>6. QED
    BY <1>2, <1>3, <1>4, <1>5

LEMMA HearType ==
    ASSUME TypeOK, NEW id \in IDs, claims' \in [IDs -> Claim \cup {NoClaim}], WatchersHear(id)
    PROVE  stream' \in [Procs -> Seq(Event)]
  <1>1. \A p \in Procs : Seen(req[p].disk, claims[id], claims'[id]) \in Seq(Event)
    BY SeenType DEF TypeOK
  <1>2. \A p \in Procs : stream[p] \o Seen(req[p].disk, claims[id], claims'[id]) \in Seq(Event)
    BY <1>1, ConcatProperties DEF TypeOK
  <1>3. QED
    BY <1>2 DEF WatchersHear, TypeOK

LEMMA InitType == Init => TypeOK
  <1> SUFFICES ASSUME Init PROVE TypeOK
    OBVIOUS
  <1>1. claims \in [IDs -> Claim \cup {NoClaim}]
    BY NewClaimType DEF Init
  <1>2. stream \in [Procs -> Seq(Event)]
    BY DEF Init
  <1>3. QED
    BY <1>1, <1>2 DEF Init, TypeOK, At

\* The updated copy of a call that sends it.
LEMMA UpdatedType ==
    ASSUME TypeOK, NEW p \in Procs, At(p, "update"), ~Invalid(req[p].metadata)
    PROVE  Written(copy[p], Merged(copy[p].labels, req[p].metadata), copy[p].phase) \in Claim
  <1>1. req[p] \in Request /\ req[p].op = "tag" /\ copy[p] \in Claim
    BY DEF TypeOK, At
  <1>2. req[p].metadata \in Metadata
    BY <1>1 DEF Request
  <1>3. Merged(copy[p].labels, req[p].metadata) \in Labels
    BY <1>1, <1>2, MergedType DEF Claim
  <1>4. QED
    BY <1>1, <1>3 DEF Claim, Written

LEMMA NextType == TypeOK /\ [Next]_vars => TypeOK'
  <1> SUFFICES ASSUME TypeOK, [Next]_vars PROVE TypeOK'
    OBVIOUS
  <1> USE DEF At, InProgress, Goto, Ends
  <1>1. ASSUME NEW p \in Procs, Begin(p) PROVE TypeOK'
    <2>1. PICK r \in Request :
            /\ req' = [req EXCEPT ![p] = r]
            /\ \/ r.op = "create" /\ pc' = [pc EXCEPT ![p] = "create"]
               \/ r.op = "has" /\ pc' = [pc EXCEPT ![p] = "list"]
               \/ r.op = "delete" /\ pc' = [pc EXCEPT ![p] = "delete"]
               \/ r.op = "tag" /\ pc' = [pc EXCEPT ![p] = "get"]
      BY <1>1 DEF Begin
    <2>2. pc[p] = "idle" /\ UNCHANGED <<claims, copy, stream, outcome>>
      BY <1>1 DEF Begin
    <2>3. req' \in [Procs -> Request \cup {NoRequest}]
      BY <2>1 DEF TypeOK
    <2>4. pc' \in [Procs -> {"idle", "create", "watch", "wait", "list", "delete", "get", "update"}]
      BY <2>1 DEF TypeOK
    <2>5. \A q \in Procs \ {p} : pc'[q] = pc[q] /\ req'[q] = req[q]
      BY <2>1 DEF TypeOK
    <2>6. /\ req'[p] = r
          /\ \/ r.op = "create" /\ pc'[p] = "create"
             \/ r.op = "has" /\ pc'[p] = "list"
             \/ r.op = "delete" /\ pc'[p] = "delete"
             \/ r.op = "tag" /\ pc'[p] = "get"
      BY <2>1 DEF TypeOK
    <2>7. ASSUME NEW q \in Procs
          PROVE  /\ pc'[q] # "idle" => req'[q] \in Request
                 /\ pc'[q] \in {"create", "watch", "wait"} => req'[q].op = "create"
                 /\ pc'[q] = "list" => req'[q].op = "has"
                 /\ pc'[q] = "delete" => req'[q].op = "delete"
                 /\ pc'[q] \in {"get", "update"} => req'[q].op = "tag"
                 /\ pc'[q] = "update" /\ outcome'[q] = "running" => copy'[q] \in Claim
      <3>1. CASE q = p
        BY <2>6, <3>1
      <3>2. CASE q # p
        BY <2>2, <2>5, <3>2 DEF TypeOK
      <3>3. QED
        BY <3>1, <3>2
    <2>8. QED
      BY <2>2, <2>3, <2>4, <2>7 DEF TypeOK
  <1>2. ASSUME NEW p \in Procs, CreateClaim(p) PROVE TypeOK'
    <2>1. req[p].disk \in IDs
      BY <1>2 DEF CreateClaim, TypeOK, Request
    <2>2. NewClaim(req[p].disk, "Pending") \in Claim
      BY <2>1, NewClaimType
    <2>3. claims' \in [IDs -> Claim \cup {NoClaim}]
      BY <1>2, <2>2 DEF CreateClaim, TypeOK
    <2>4. /\ UNCHANGED <<req, copy, stream>>
          /\ pc[p] = "create" /\ outcome[p] = "running"
          /\ \/ pc' = [pc EXCEPT ![p] = "watch"] /\ outcome' = outcome
             \/ pc' = pc /\ outcome' = [outcome EXCEPT ![p] = "broken"]
             \/ pc' = pc /\ outcome' = [outcome EXCEPT ![p] = "refused"]
      BY <1>2 DEF CreateClaim
    <2>5. CASE pc' = [pc EXCEPT ![p] = "watch"] /\ outcome' = outcome
      BY <2>3, <2>4, <2>5 DEF TypeOK
    <2>6. CASE pc' = pc /\ outcome' = [outcome EXCEPT ![p] = "broken"]
      BY <2>3, <2>4, <2>6 DEF TypeOK
    <2>7. CASE pc' = pc /\ outcome' = [outcome EXCEPT ![p] = "refused"]
      BY <2>3, <2>4, <2>7 DEF TypeOK
    <2>8. QED
      BY <2>4, <2>5, <2>6, <2>7
  <1>3. ASSUME NEW p \in Procs, OpenWatch(p) PROVE TypeOK'
    BY <1>3 DEF OpenWatch, TypeOK
  <1>4. ASSUME NEW p \in Procs, ReadEvent(p) PROVE TypeOK'
    <2>1. Tail(stream[p]) \in Seq(Event)
      BY <1>4 DEF ReadEvent, TypeOK
    <2>2. outcome' \in {outcome, [outcome EXCEPT ![p] = "ok"], [outcome EXCEPT ![p] = "unexpected"]}
      BY <1>4 DEF ReadEvent
    <2>3. QED
      BY <1>4, <2>1, <2>2 DEF ReadEvent, TypeOK
  <1>5. ASSUME NEW p \in Procs, TimesOut(p) PROVE TypeOK'
    BY <1>5 DEF TimesOut, TypeOK
  <1>6. ASSUME NEW p \in Procs, ListClaims(p) PROVE TypeOK'
    BY <1>6 DEF ListClaims, TypeOK
  <1>7. ASSUME NEW p \in Procs, DeleteClaim(p) PROVE TypeOK'
    <2>1. req[p].disk \in IDs /\ claims' \in [IDs -> Claim \cup {NoClaim}]
      BY <1>7 DEF DeleteClaim, TypeOK, Request
    <2>2. stream' \in [Procs -> Seq(Event)]
      BY <1>7, <2>1, HearType DEF DeleteClaim
    <2>3. \E how \in {"refused", "ok", "broken"} : outcome' = [outcome EXCEPT ![p] = how]
      BY <1>7 DEF DeleteClaim
    <2>4. QED
      BY <1>7, <2>1, <2>2, <2>3 DEF DeleteClaim, TypeOK
  <1>8. ASSUME NEW p \in Procs, GetClaim(p) PROVE TypeOK'
    <2>1. req[p].disk \in IDs
      BY <1>8 DEF GetClaim, TypeOK, Request
    <2>2. /\ UNCHANGED <<claims, req, stream>>
          /\ pc[p] = "get" /\ outcome[p] = "running"
          /\ \/ outcome' = [outcome EXCEPT ![p] = "refused"] /\ UNCHANGED <<copy, pc>>
             \/ /\ claims[req[p].disk] # NoClaim
                /\ copy' = [copy EXCEPT ![p] = claims[req[p].disk]]
                /\ pc' = [pc EXCEPT ![p] = "update"] /\ UNCHANGED outcome
      BY <1>8 DEF GetClaim
    <2>3. CASE outcome' = [outcome EXCEPT ![p] = "refused"] /\ UNCHANGED <<copy, pc>>
      BY <2>2, <2>3 DEF TypeOK
    <2>4. CASE /\ claims[req[p].disk] # NoClaim
               /\ copy' = [copy EXCEPT ![p] = claims[req[p].disk]]
               /\ pc' = [pc EXCEPT ![p] = "update"] /\ UNCHANGED outcome
      <3>1. claims[req[p].disk] \in Claim
        BY <2>1, <2>4 DEF TypeOK
      <3>2. copy' \in [Procs -> Claim \cup {NoClaim}] /\ copy'[p] \in Claim
        BY <2>4, <3>1 DEF TypeOK
      <3>3. \A q \in Procs \ {p} : copy'[q] = copy[q] /\ pc'[q] = pc[q]
        BY <2>4 DEF TypeOK
      <3>4. pc'[p] = "update" /\ req[p] \in Request /\ req[p].op = "tag"
        BY <2>2, <2>4 DEF TypeOK
      <3>5. QED
        BY <2>2, <2>4, <3>2, <3>3, <3>4 DEF TypeOK
    <2>5. QED
      BY <2>2, <2>3, <2>4
  <1>9. ASSUME NEW p \in Procs, UpdateClaim(p) PROVE TypeOK'
    <2>1. claims' \in [IDs -> Claim \cup {NoClaim}]
      <3>1. CASE UNCHANGED claims
        BY <3>1 DEF TypeOK
      <3>2. CASE ~Invalid(req[p].metadata) /\ claims' = [claims EXCEPT ![req[p].disk] =
                   Written(copy[p], Merged(copy[p].labels, req[p].metadata), copy[p].phase)]
        BY <1>9, <3>2, UpdatedType DEF UpdateClaim, TypeOK
      <3>3. QED
        BY <1>9, <3>1, <3>2 DEF UpdateClaim
    <2>2. \E how \in {"invalid", "refused", "ok", "broken"} :
            outcome' = [outcome EXCEPT ![p] = how]
      BY <1>9 DEF UpdateClaim
    <2>3. stream' \in [Procs -> Seq(Event)]
      <3>1. req[p].disk \in IDs
        BY <1>9 DEF UpdateClaim, TypeOK, Request
      <3>2. UNCHANGED stream \/ WatchersHear(req[p].disk)
        BY <1>9 DEF UpdateClaim
      <3>3. QED
        BY <2>1, <3>1, <3>2, HearType DEF TypeOK
    <2>4. QED
      BY <1>9, <2>1, <2>2, <2>3 DEF UpdateClaim, TypeOK
  <1>10. ASSUME NEW p \in Procs, Breaks(p) PROVE TypeOK'
    BY <1>10 DEF Breaks, TypeOK
  <1>11. ASSUME NEW id \in IDs, BinderWrites(id) PROVE TypeOK'
    <2>1. PICK phase \in {"Bound", claims[id].phase} :
            claims' = [claims EXCEPT ![id] = Written(claims[id], claims[id].labels, phase)]
      BY <1>11 DEF BinderWrites
    <2>2. claims[id] \in Claim
      BY <1>11 DEF BinderWrites, TypeOK
    <2>3. phase \in {"Pending", "Bound"}
      BY <2>2 DEF Claim
    <2>4. Written(claims[id], claims[id].labels, phase) \in Claim
      BY <2>2, <2>3 DEF Claim, Written
    <2>5. claims' \in [IDs -> Claim \cup {NoClaim}]
      BY <2>1, <2>4 DEF TypeOK
    <2>6. stream' \in [Procs -> Seq(Event)]
      BY <1>11, <2>5, HearType DEF BinderWrites
    <2>7. QED
      BY <1>11, <2>5, <2>6 DEF BinderWrites, TypeOK
  <1>12. CASE UNCHANGED vars
    BY <1>12 DEF vars, TypeOK
  <1>13. QED
    BY <1>1, <1>2, <1>3, <1>4, <1>5, <1>6, <1>7, <1>8, <1>9, <1>10, <1>11, <1>12
       DEF Next, Step

\* The variables of Disks keep their types; in particular no label Kubernetes
\* rejects is ever stored, and a call about to send a claim has read one.
THEOREM DisksTypeCorrect == Spec => []TypeOK
  BY InitType, NextType, PTL DEF Spec

-----------------------------------------------------------------------------
(* One GUID, one claim *)

Draws(p, id) == pc[p] # "idle" /\ req[p].op = "create" /\ req[p].disk = id

\* A GUID is drawn by one create_disk; a call that names a disk by its CID has
\* it from a create_disk that is over; a claim is made by the call that drew
\* its GUID, which finds none there.
DrawnOnce ==
    /\ \A p \in Procs : pc[p] = "idle" => outcome[p] = "running"
    /\ \A p, q \in Procs, id \in IDs : Draws(p, id) /\ Draws(q, id) => p = q
    /\ \A p \in Procs, id \in IDs : Draws(p, id) => id \notin Existing
    /\ \A p \in Procs : pc[p] \in {"delete", "get", "update"} => req[p].disk \in Known
    /\ \A p \in Procs : At(p, "create") => claims[req[p].disk] = NoClaim
    /\ \A id \in IDs : claims[id] # NoClaim => id \in Drawn

LEMMA KnownMeans ==
    \A id : id \in Known <=> id \in Existing \/ \E p \in Procs : Draws(p, id) /\ outcome[p] = "ok"
  BY DEF Known, Draws

LEMMA DrawnMeans == \A id : id \in Drawn <=> id \in Existing \/ \E p \in Procs : Draws(p, id)
  BY DEF Drawn, Draws

\* Every step but Begin leaves the calls as they are: who has begun, with what
\* arguments, and how the ended ones ended.
Continues ==
    /\ UNCHANGED req
    /\ \A q \in Procs :
        /\ pc'[q] = "idle" <=> pc[q] = "idle"
        /\ outcome[q] # "running" => outcome'[q] = outcome[q] /\ pc'[q] = pc[q]
        /\ pc[q] = "idle" => outcome'[q] = outcome[q]
        /\ pc'[q] \in {"create", "delete", "get"} => pc'[q] = pc[q]
        /\ pc'[q] = "update" => pc[q] \in {"get", "update"}
        /\ pc[q] = "update" => pc'[q] = "update"

LEMMA Frame ==
    ASSUME TypeOK, [Next]_vars, \A p \in Procs : ~Begin(p)
    PROVE  Continues
  <1> USE DEF At, InProgress, Goto, Ends, Continues
  <1>1. ASSUME NEW p \in Procs, CreateClaim(p) PROVE Continues
    BY <1>1 DEF CreateClaim, TypeOK
  <1>2. ASSUME NEW p \in Procs, OpenWatch(p) PROVE Continues
    BY <1>2 DEF OpenWatch, TypeOK
  <1>3. ASSUME NEW p \in Procs, ReadEvent(p) PROVE Continues
    BY <1>3 DEF ReadEvent, TypeOK
  <1>4. ASSUME NEW p \in Procs, TimesOut(p) PROVE Continues
    BY <1>4 DEF TimesOut, TypeOK
  <1>5. ASSUME NEW p \in Procs, ListClaims(p) PROVE Continues
    BY <1>5 DEF ListClaims, TypeOK
  <1>6. ASSUME NEW p \in Procs, DeleteClaim(p) PROVE Continues
    BY <1>6 DEF DeleteClaim, TypeOK
  <1>7. ASSUME NEW p \in Procs, GetClaim(p) PROVE Continues
    BY <1>7 DEF GetClaim, TypeOK
  <1>8. ASSUME NEW p \in Procs, UpdateClaim(p) PROVE Continues
    <2>1. /\ pc[p] = "update" /\ outcome[p] = "running" /\ UNCHANGED <<req, pc>>
          /\ \E how \in {"invalid", "refused", "ok", "broken"} :
               outcome' = [outcome EXCEPT ![p] = how]
      BY <1>8 DEF UpdateClaim
    <2>2. QED
      BY <2>1 DEF TypeOK
  <1>9. ASSUME NEW p \in Procs, Breaks(p) PROVE Continues
    BY <1>9 DEF Breaks, TypeOK
  <1>10. ASSUME NEW id \in IDs, BinderWrites(id) PROVE Continues
    BY <1>10 DEF BinderWrites, TypeOK
  <1>11. CASE UNCHANGED vars
    BY <1>11 DEF vars, TypeOK
  <1>12. QED
    BY <1>1, <1>2, <1>3, <1>4, <1>5, <1>6, <1>7, <1>8, <1>9, <1>10, <1>11
       DEF Next, Step

\* What a step may do to a claim.
LEMMA ClaimSteps ==
    ASSUME TypeOK, DrawnOnce, [Next]_vars, NEW id \in IDs, claims'[id] # claims[id]
    PROVE  \/ \E p \in Procs : CreateClaim(p) /\ req[p].disk = id /\ claims[id] = NoClaim
           \/ \E p \in Procs : DeleteClaim(p) /\ req[p].disk = id /\ claims'[id] = NoClaim
           \/ \E p \in Procs :
                /\ UpdateClaim(p) /\ req[p].disk = id /\ Accepts(p) /\ ~Invalid(req[p].metadata)
                /\ claims'[id] = Written(copy[p], Merged(copy[p].labels, req[p].metadata),
                                         copy[p].phase)
           \/ /\ BinderWrites(id) /\ claims[id] # NoClaim
              /\ \E phase \in {"Bound", claims[id].phase} :
                   claims'[id] = Written(claims[id], claims[id].labels, phase)
  <1> USE DEF At, InProgress, Goto, Ends
  <1>1. ASSUME NEW p \in Procs, CreateClaim(p) PROVE req[p].disk = id /\ claims[id] = NoClaim
    BY <1>1 DEF CreateClaim, TypeOK, DrawnOnce
  <1>2. ASSUME NEW p \in Procs, DeleteClaim(p) PROVE req[p].disk = id /\ claims'[id] = NoClaim
    BY <1>2 DEF DeleteClaim, TypeOK
  <1>3. ASSUME NEW p \in Procs, UpdateClaim(p)
        PROVE  /\ req[p].disk = id /\ Accepts(p) /\ ~Invalid(req[p].metadata)
               /\ claims'[id] = Written(copy[p], Merged(copy[p].labels, req[p].metadata),
                                        copy[p].phase)
    <2>1. /\ Accepts(p) /\ ~Invalid(req[p].metadata)
          /\ claims' = [claims EXCEPT ![req[p].disk] =
                          Written(copy[p], Merged(copy[p].labels, req[p].metadata), copy[p].phase)]
      BY <1>3 DEF UpdateClaim
    <2>2. QED
      BY <2>1 DEF TypeOK
  <1>4. ASSUME NEW x \in IDs, BinderWrites(x)
        PROVE  /\ BinderWrites(id) /\ claims[id] # NoClaim
               /\ \E phase \in {"Bound", claims[id].phase} :
                    claims'[id] = Written(claims[id], claims[id].labels, phase)
    <2>1. PICK phase \in {"Bound", claims[x].phase} :
            claims' = [claims EXCEPT ![x] = Written(claims[x], claims[x].labels, phase)]
      BY <1>4 DEF BinderWrites
    <2>2. x = id /\ claims[x] # NoClaim
      BY <1>4, <2>1 DEF BinderWrites, TypeOK
    <2>3. QED
      BY <1>4, <2>1, <2>2 DEF TypeOK
  <1>5. (\E p \in Procs : CreateClaim(p) \/ DeleteClaim(p) \/ UpdateClaim(p))
        \/ \E x \in IDs : BinderWrites(x)
    BY DEF Next, Step, Begin, OpenWatch, ReadEvent, TimesOut, ListClaims, GetClaim, Breaks, vars
  <1>6. QED
    BY <1>1, <1>2, <1>3, <1>4, <1>5

LEMMA InitDrawn == Init => DrawnOnce
  <1> SUFFICES ASSUME Init PROVE DrawnOnce
    OBVIOUS
  <1>1. \A p \in Procs : pc[p] = "idle" /\ outcome[p] = "running"
    BY DEF Init
  <1>2. \A id \in IDs : claims[id] # NoClaim => id \in Existing
    BY DEF Init
  <1>3. QED
    BY <1>1, <1>2, DrawnMeans DEF DrawnOnce, Draws, At

LEMMA NextDrawn == TypeOK /\ DrawnOnce /\ [Next]_vars => DrawnOnce'
  <1> SUFFICES ASSUME TypeOK, DrawnOnce, [Next]_vars PROVE DrawnOnce'
    OBVIOUS
  <1>1. ASSUME NEW p \in Procs, Begin(p) PROVE DrawnOnce'
    <2>1. PICK r \in Request :
            /\ req' = [req EXCEPT ![p] = r]
            /\ \/ r.op = "create" /\ r.disk \notin Drawn /\ pc' = [pc EXCEPT ![p] = "create"]
               \/ r.op = "has" /\ pc' = [pc EXCEPT ![p] = "list"]
               \/ r.op = "delete" /\ r.disk \in Known /\ pc' = [pc EXCEPT ![p] = "delete"]
               \/ r.op = "tag" /\ r.disk \in Known /\ pc' = [pc EXCEPT ![p] = "get"]
      BY <1>1 DEF Begin, Goto
    <2>2. pc[p] = "idle" /\ outcome[p] = "running" /\ UNCHANGED <<claims, outcome>>
      BY <1>1 DEF Begin, At
    <2>3. \A q \in Procs \ {p} : pc'[q] = pc[q] /\ req'[q] = req[q]
      BY <2>1 DEF TypeOK
    <2>4. /\ req'[p] = r
          /\ \/ r.op = "create" /\ r.disk \notin Drawn /\ pc'[p] = "create"
             \/ r.op = "has" /\ pc'[p] = "list"
             \/ r.op = "delete" /\ r.disk \in Known /\ pc'[p] = "delete"
             \/ r.op = "tag" /\ r.disk \in Known /\ pc'[p] = "get"
      BY <2>1 DEF TypeOK
    <2>5. \A q \in Procs \ {p} : \A id : Draws(q, id)' <=> Draws(q, id)
      BY <2>3 DEF Draws
    <2>6. \A id : ~Draws(p, id)
      BY <2>2 DEF Draws
    <2>7. \A id : Draws(p, id)' => id \notin Drawn
      BY <2>4 DEF Draws
    <2>8. \A id : id \in Known => id \in Known'
      <3>1. \A id : id \in Known' <=>
              id \in Existing \/ \E q \in Procs : Draws(q, id)' /\ outcome'[q] = "ok"
        BY DEF Known, Draws
      <3>2. QED
        BY <3>1, <2>2, <2>5, <2>6, KnownMeans
    <2>9. \A id : id \in Drawn => id \in Drawn'
      <3>1. \A id : id \in Drawn' <=> id \in Existing \/ \E q \in Procs : Draws(q, id)'
        BY DEF Drawn, Draws
      <3>2. QED
        BY <3>1, <2>5, <2>6, DrawnMeans
    <2>10. (\A q \in Procs : pc[q] = "idle" => outcome[q] = "running")'
      BY <2>2, <2>3, <2>4 DEF DrawnOnce
    <2>11. (\A q, x \in Procs, id \in IDs : Draws(q, id) /\ Draws(x, id) => q = x)'
      BY <2>5, <2>7, DrawnMeans DEF DrawnOnce
    <2>12. (\A q \in Procs, id \in IDs : Draws(q, id) => id \notin Existing)'
      BY <2>5, <2>7, DrawnMeans DEF DrawnOnce
    <2>13. (\A q \in Procs : pc[q] \in {"delete", "get", "update"} => req[q].disk \in Known)'
      BY <2>3, <2>4, <2>8 DEF DrawnOnce
    <2>14. (\A q \in Procs : At(q, "create") => claims[req[q].disk] = NoClaim)'
      <3>1. r.disk \in IDs
        BY DEF Request
      <3>2. r.disk \notin Drawn => claims[r.disk] = NoClaim
        BY <3>1 DEF DrawnOnce
      <3>3. QED
        BY <2>2, <2>3, <2>4, <3>2 DEF DrawnOnce, At
    <2>15. (\A id \in IDs : claims[id] # NoClaim => id \in Drawn)'
      BY <2>2, <2>9 DEF DrawnOnce
    <2>16. QED
      BY <2>10, <2>11, <2>12, <2>13, <2>14, <2>15 DEF DrawnOnce
  <1>2. CASE \A p \in Procs : ~Begin(p)
    <2>1. Continues
      BY <1>2, Frame
    <2>2. \A q \in Procs : \A id : Draws(q, id)' <=> Draws(q, id)
      BY <2>1 DEF Continues, Draws
    <2>3. \A id : id \in Known => id \in Known'
      <3>1. \A id : id \in Known' <=>
              id \in Existing \/ \E q \in Procs : Draws(q, id)' /\ outcome'[q] = "ok"
        BY DEF Known, Draws
      <3>2. \A q \in Procs : outcome[q] = "ok" => outcome'[q] = "ok"
        BY <2>1 DEF Continues
      <3>3. QED
        BY <3>1, <3>2, <2>2, KnownMeans
    <2>4. \A id : id \in Drawn' <=> id \in Drawn
      <3>1. \A id : id \in Drawn' <=> id \in Existing \/ \E q \in Procs : Draws(q, id)'
        BY DEF Drawn, Draws
      <3>2. QED
        BY <3>1, <2>2, DrawnMeans
    <2>5. (\A q \in Procs : pc[q] = "idle" => outcome[q] = "running")'
      BY <2>1 DEF Continues, DrawnOnce
    <2>6. (\A q, x \in Procs, id \in IDs : Draws(q, id) /\ Draws(x, id) => q = x)'
      BY <2>2 DEF DrawnOnce
    <2>7. (\A q \in Procs, id \in IDs : Draws(q, id) => id \notin Existing)'
      BY <2>2 DEF DrawnOnce
    <2>8. (\A q \in Procs : pc[q] \in {"delete", "get", "update"} => req[q].disk \in Known)'
      BY <2>1, <2>3 DEF Continues, DrawnOnce
    <2>9. (\A q \in Procs : At(q, "create") => claims[req[q].disk] = NoClaim)'
      <3> SUFFICES ASSUME NEW q \in Procs, At(q, "create")' PROVE claims'[req[q].disk] = NoClaim
        BY <2>1 DEF Continues
      <3>1. At(q, "create")
        BY <2>1 DEF Continues, At, TypeOK
      <3>2. req[q].disk \in IDs /\ Draws(q, req[q].disk) /\ claims[req[q].disk] = NoClaim
        BY <3>1 DEF At, TypeOK, Request, Draws, DrawnOnce
      <3>3. ASSUME NEW p \in Procs, CreateClaim(p), req[p].disk = req[q].disk PROVE FALSE
        <4>1. Draws(p, req[q].disk)
          BY <3>3 DEF CreateClaim, At, TypeOK, Draws
        <4>2. p = q
          BY <4>1, <3>2 DEF DrawnOnce
        <4>3. ~At(p, "create")'
          BY <3>3 DEF CreateClaim, At, Goto, Ends, TypeOK
        <4>4. QED
          BY <4>2, <4>3
      <3>4. ASSUME NEW p \in Procs, Accepts(p), req[p].disk = req[q].disk PROVE FALSE
        BY <3>2, <3>4 DEF Accepts
      <3>5. QED
        BY <3>2, <3>3, <3>4, ClaimSteps
    <2>10. (\A id \in IDs : claims[id] # NoClaim => id \in Drawn)'
      <3> SUFFICES ASSUME NEW id \in IDs, claims'[id] # NoClaim PROVE id \in Drawn
        BY <2>4
      <3>1. CASE claims[id] # NoClaim
        BY <3>1 DEF DrawnOnce
      <3>2. CASE claims[id] = NoClaim
        <4>1. PICK p \in Procs : CreateClaim(p) /\ req[p].disk = id
          BY <3>2, ClaimSteps DEF Accepts
        <4>2. Draws(p, id)
          BY <4>1 DEF CreateClaim, At, TypeOK, Draws
        <4>3. QED
          BY <4>2, DrawnMeans
      <3>3. QED
        BY <3>1, <3>2
    <2>11. QED
      BY <2>5, <2>6, <2>7, <2>8, <2>9, <2>10 DEF DrawnOnce
  <1>3. QED
    BY <1>1, <1>2

-----------------------------------------------------------------------------
(* A deleted disk stays deleted *)

\* A disk that is known is not about to be created.
LEMMA KnownIsNotCreated ==
    ASSUME TypeOK, DrawnOnce, NEW p \in Procs, NEW id \in Known, CreateClaim(p)
    PROVE  req[p].disk # id
  <1> SUFFICES ASSUME req[p].disk = id PROVE FALSE
    OBVIOUS
  <1>1. Draws(p, id) /\ outcome[p] = "running" /\ id \in IDs
    BY DEF CreateClaim, At, TypeOK, Request, Draws
  <1>2. id \notin Existing
    BY <1>1 DEF DrawnOnce
  <1>3. PICK q \in Procs : Draws(q, id) /\ outcome[q] = "ok"
    BY <1>2, KnownMeans
  <1>4. p = q
    BY <1>1, <1>3 DEF DrawnOnce
  <1>5. QED
    BY <1>1, <1>3, <1>4

LEMMA NextDeleted ==
    TypeOK /\ DrawnOnce /\ DeletedStaysDeleted /\ [Next]_vars => DeletedStaysDeleted'
  <1> SUFFICES ASSUME TypeOK, DrawnOnce, DeletedStaysDeleted, [Next]_vars,
                      NEW p \in Procs, outcome'[p] \in {"ok", "refused"}, req'[p].op = "delete"
               PROVE  claims'[req'[p].disk] = NoClaim
    BY DEF DeletedStaysDeleted
  <1>1. ASSUME NEW q \in Procs, Begin(q) PROVE claims'[req'[p].disk] = NoClaim
    <2>1. outcome[q] = "running" /\ UNCHANGED <<claims, outcome>>
      BY <1>1 DEF Begin, At
    <2>2. p # q
      BY <2>1
    <2>3. PICK r \in Request : req' = [req EXCEPT ![q] = r]
      BY <1>1 DEF Begin
    <2>4. req'[p] = req[p]
      BY <2>2, <2>3 DEF TypeOK
    <2>5. QED
      BY <2>1, <2>4 DEF DeletedStaysDeleted
  <1>2. CASE \A q \in Procs : ~Begin(q)
    <2>1. Continues
      BY <1>2, Frame
    <2>2. pc[p] # "idle" /\ req' = req
      BY <2>1 DEF Continues, DrawnOnce
    <2>3. req[p] \in Request /\ req[p].op = "delete" /\ pc[p] = "delete"
      BY <2>2 DEF TypeOK
    <2>4. req[p].disk \in Known /\ req[p].disk \in IDs
      BY <2>3 DEF DrawnOnce, Request
    <2>5. CASE outcome[p] # "running"
      <3>1. claims[req[p].disk] = NoClaim
        BY <2>1, <2>2, <2>5 DEF Continues, DeletedStaysDeleted
      <3>2. ASSUME NEW q \in Procs, Accepts(q) PROVE req[q].disk # req[p].disk
        BY <3>1, <3>2 DEF Accepts
      <3>3. QED
        BY <2>2, <2>4, <3>1, <3>2, ClaimSteps, KnownIsNotCreated
    <2>6. CASE outcome[p] = "running"
      <3>1. DeleteClaim(p)
        <4> USE DEF At, Goto, Ends
        <4>1. ASSUME NEW q \in Procs, UpdateClaim(q) PROVE outcome'[p] = outcome[p]
          <5>1. pc[q] = "update" /\ \E how \in {"invalid", "refused", "ok", "broken"} :
                                      outcome' = [outcome EXCEPT ![q] = how]
            BY <4>1 DEF UpdateClaim
          <5>2. QED
            BY <2>3, <5>1 DEF TypeOK
        <4>2. ASSUME NEW q \in Procs, q # p, DeleteClaim(q) PROVE outcome'[p] = outcome[p]
          BY <4>2 DEF DeleteClaim, TypeOK
        <4>3. ASSUME NEW q \in Procs, Breaks(q) PROVE outcome'[p] \in {outcome[p], "broken"}
          BY <4>3 DEF Breaks, TypeOK
        <4>4. ASSUME NEW q \in Procs, CreateClaim(q) \/ OpenWatch(q) \/ ReadEvent(q) \/ TimesOut(q)
                                      \/ ListClaims(q) \/ GetClaim(q)
              PROVE  outcome'[p] = outcome[p]
          BY <2>3, <4>4 DEF CreateClaim, OpenWatch, ReadEvent, TimesOut, ListClaims, GetClaim, TypeOK
        <4>5. QED
          BY <1>2, <2>6, <4>1, <4>2, <4>3, <4>4 DEF Next, Step, BinderWrites, vars
      <3>2. QED
        BY <2>2, <2>4, <3>1 DEF DeleteClaim, TypeOK
    <2>7. QED
      BY <2>5, <2>6
  <1>3. QED
    BY <1>1, <1>2

\* A disk that delete_disk deleted, or found deleted, is gone for good, however
\* many calls still work on it (delete_disk.go:22, set_disk_metadata.go:30-58).
THEOREM DiskStaysDeleted == Spec => []DeletedStaysDeleted
  <1>1. Init => DeletedStaysDeleted
    BY DEF Init, DeletedStaysDeleted
  <1>2. QED
    BY <1>1, InitType, NextType, InitDrawn, NextDrawn, NextDeleted, PTL DEF Spec

-----------------------------------------------------------------------------
(* set_disk_metadata undoes nothing *)

\* The version of a copy tells whether the copy is the claim.
CopyIsCurrent ==
    \A p \in Procs : At(p, "update") /\ claims[req[p].disk] # NoClaim =>
        /\ copy[p].rv <= claims[req[p].disk].rv
        /\ copy[p].rv = claims[req[p].disk].rv => copy[p] = claims[req[p].disk]

\* Only GetClaim gives a call a copy to send.
LEMMA CopyFrame ==
    ASSUME TypeOK, [Next]_vars, NEW p \in Procs, At(p, "update")'
    PROVE  \/ GetClaim(p)
           \/ At(p, "update") /\ UNCHANGED <<copy[p], req[p]>> /\ ~UpdateClaim(p)
  <1> SUFFICES ASSUME ~GetClaim(p)
               PROVE  At(p, "update") /\ UNCHANGED <<copy[p], req[p]>> /\ ~UpdateClaim(p)
    OBVIOUS
  <1> USE DEF At, Goto, Ends, InProgress
  <1>1. ASSUME NEW q \in Procs, UpdateClaim(q)
        PROVE  q # p /\ At(p, "update") /\ UNCHANGED <<copy[p], req[p]>>
    <2>1. /\ copy' = [copy EXCEPT ![q] = NoClaim] /\ UNCHANGED <<req, pc>>
          /\ \E how \in {"invalid", "refused", "ok", "broken"} :
               outcome' = [outcome EXCEPT ![q] = how]
      BY <1>1 DEF UpdateClaim
    <2>2. QED
      BY <2>1 DEF TypeOK
  <1>2. ASSUME NEW q \in Procs, Begin(q) PROVE At(p, "update") /\ UNCHANGED <<copy[p], req[p]>>
    <2>1. /\ \E r \in Request : req' = [req EXCEPT ![q] = r]
          /\ \E step \in {"create", "list", "delete", "get"} : pc' = [pc EXCEPT ![q] = step]
          /\ UNCHANGED <<copy, outcome>>
      BY <1>2 DEF Begin
    <2>2. QED
      BY <2>1 DEF TypeOK
  <1>3. ASSUME NEW q \in Procs, GetClaim(q) PROVE At(p, "update") /\ UNCHANGED <<copy[p], req[p]>>
    BY <1>3 DEF GetClaim, TypeOK
  <1>4. ASSUME NEW q \in Procs, Breaks(q) PROVE At(p, "update") /\ UNCHANGED <<copy[p], req[p]>>
    BY <1>4 DEF Breaks, TypeOK
  <1>5. ASSUME NEW q \in Procs, CreateClaim(q) \/ OpenWatch(q) \/ ReadEvent(q) \/ TimesOut(q)
                                \/ ListClaims(q) \/ DeleteClaim(q)
        PROVE  At(p, "update") /\ UNCHANGED <<copy[p], req[p]>>
    BY <1>5 DEF CreateClaim, OpenWatch, ReadEvent, TimesOut, ListClaims, DeleteClaim, TypeOK
  <1>6. At(p, "update") /\ UNCHANGED <<copy[p], req[p]>>
    BY <1>1, <1>2, <1>3, <1>4, <1>5 DEF Next, Step, BinderWrites, vars
  <1>7. QED
    BY <1>1, <1>6

\* A write leaves a version above the one it replaces.
LEMMA WrittenIsNewer ==
    ASSUME NEW claim \in Claim, NEW labels, NEW phase
    PROVE  Written(claim, labels, phase).rv > claim.rv /\ claim.rv \in Nat
  BY DEF Written, Claim

LEMMA NextCopy == TypeOK /\ DrawnOnce /\ CopyIsCurrent /\ [Next]_vars => CopyIsCurrent'
  <1> SUFFICES ASSUME TypeOK, DrawnOnce, CopyIsCurrent, [Next]_vars,
                      NEW p \in Procs, At(p, "update")', claims'[req'[p].disk] # NoClaim
               PROVE  /\ copy'[p].rv <= claims'[req'[p].disk].rv
                      /\ copy'[p].rv = claims'[req'[p].disk].rv => copy'[p] = claims'[req'[p].disk]
    BY DEF CopyIsCurrent
  <1>1. CASE GetClaim(p)
    <2>1. pc[p] = "get" /\ outcome[p] = "running" /\ UNCHANGED <<claims, req>>
      BY <1>1 DEF GetClaim, At
    <2>2. req[p].disk \in IDs
      BY <2>1 DEF TypeOK, Request
    <2>3. claims[req[p].disk] \in Claim /\ copy'[p] = claims[req[p].disk]
      BY <1>1, <2>1, <2>2 DEF GetClaim, At, Ends, TypeOK
    <2>4. QED
      BY <2>1, <2>3 DEF Claim
  <1>2. CASE At(p, "update") /\ UNCHANGED <<copy[p], req[p]>> /\ ~UpdateClaim(p)
    <2> DEFINE id == req[p].disk
    <2>1. id \in IDs /\ id \in Known /\ copy[p] \in Claim
      BY <1>2 DEF At, TypeOK, Request, DrawnOnce
    <2>2. CASE claims'[id] = claims[id]
      BY <1>2, <2>2 DEF CopyIsCurrent
    <2>3. CASE claims'[id] # claims[id]
      <3>1. claims[id] \in Claim /\ claims'[id].rv > claims[id].rv
        <4>1. ASSUME NEW q \in Procs, UpdateClaim(q), req[q].disk = id, Accepts(q),
                     NEW l, claims'[id] = Written(copy[q], l, copy[q].phase)
              PROVE  claims[id] \in Claim /\ claims'[id].rv > claims[id].rv
          <5>1. claims[id] \in Claim /\ claims[id].rv = copy[q].rv
            BY <2>1, <4>1 DEF Accepts, TypeOK
          <5>2. copy[q] \in Claim
            BY <4>1 DEF UpdateClaim, TypeOK
          <5>3. QED
            BY <4>1, <5>1, <5>2, WrittenIsNewer
        <4>2. ASSUME claims[id] # NoClaim, NEW phase,
                     claims'[id] = Written(claims[id], claims[id].labels, phase)
              PROVE  claims[id] \in Claim /\ claims'[id].rv > claims[id].rv
          <5>1. claims[id] \in Claim
            BY <2>1, <4>2 DEF TypeOK
          <5>2. QED
            BY <4>2, <5>1, WrittenIsNewer
        <4>3. QED
          BY <1>2, <2>1, <2>3, <4>1, <4>2, ClaimSteps, KnownIsNotCreated
      <3>2. claims'[id].rv \in Nat
        BY <1>2, <2>1, NextType DEF TypeOK, Claim
      <3>3. copy[p].rv <= claims[id].rv
        BY <1>2, <3>1, NoClaimAssumption DEF CopyIsCurrent
      <3>4. QED
        BY <1>2, <2>1, <3>1, <3>2, <3>3 DEF Claim
    <2>4. QED
      BY <2>2, <2>3
  <1>3. QED
    BY <1>1, <1>2, CopyFrame

LEMMA StepKeepsTheRest ==
    TypeOK /\ DrawnOnce /\ CopyIsCurrent /\ [Next]_vars => [OnlyItsLabels]_vars
  <1> SUFFICES ASSUME TypeOK, DrawnOnce, CopyIsCurrent, [Next]_vars, NEW id \in IDs,
                      claims[id] # NoClaim, claims'[id] # NoClaim,
                      claims'[id].labels # claims[id].labels
               PROVE  \E p \in Procs :
                        /\ At(p, "update") /\ req[p].disk = id
                        /\ claims'[id].phase = claims[id].phase
                        /\ \A k \in Keys : \/ claims'[id].labels[k] = claims[id].labels[k]
                                           \/ claims'[id].labels[k] = req[p].metadata[k]
    BY DEF OnlyItsLabels
  <1>1. ASSUME NEW phase, claims'[id] = Written(claims[id], claims[id].labels, phase) PROVE FALSE
    <2>1. claims'[id].labels = claims[id].labels
      BY <1>1 DEF Written
    <2>2. QED
      BY <2>1
  <1>2. PICK p \in Procs :
          /\ UpdateClaim(p) /\ req[p].disk = id /\ Accepts(p)
          /\ claims'[id] = Written(copy[p], Merged(copy[p].labels, req[p].metadata), copy[p].phase)
    BY <1>1, ClaimSteps
  <1>3. At(p, "update")
    BY <1>2 DEF UpdateClaim
  <1>4. copy[p] = claims[id]
    BY <1>2, <1>3 DEF CopyIsCurrent, Accepts
  <1>5. QED
    BY <1>2, <1>3, <1>4 DEF Written, Merged

\* set_disk_metadata sends back a whole claim, yet changes only the labels it
\* was given, whatever was written since it read the claim
\* (set_disk_metadata.go:30-58).
THEOREM MetadataIsKept == Spec => MetadataKeepsTheRest
  <1>1. Init => CopyIsCurrent
    BY DEF Init, CopyIsCurrent, At
  <1>2. QED
    BY <1>1, InitType, NextType, InitDrawn, NextDrawn, NextCopy, StepKeepsTheRest, PTL
       DEF Spec, MetadataKeepsTheRest

-----------------------------------------------------------------------------
(* Which claim has which disk-id label *)

\* A claim has its GUID as its disk-id label until a set_disk_metadata replaces
\* the label; it has the GUID of another disk only if a set_disk_metadata gave
\* that one away.
LabelInv ==
    \A id \in IDs : claims[id] # NoClaim =>
        \/ claims[id].labels[IdKey] = id
        \/ /\ Relabelled(id)
           /\ claims[id].labels[IdKey] \in IDs => GivenAway(claims[id].labels[IdKey])

LEMMA BeginMeans ==
    ASSUME TypeOK, NEW p \in Procs, Begin(p)
    PROVE  /\ UNCHANGED <<claims, copy, stream, outcome>>
           /\ pc[p] = "idle" /\ outcome[p] = "running"
           /\ pc'[p] \in {"create", "list", "delete", "get"}
           /\ \A q \in Procs \ {p} : pc'[q] = pc[q] /\ req'[q] = req[q]
  <1>1. /\ pc[p] = "idle" /\ outcome[p] = "running"
        /\ UNCHANGED <<claims, copy, stream, outcome>>
        /\ \E r \in Request : req' = [req EXCEPT ![p] = r]
        /\ \E step \in {"create", "list", "delete", "get"} : pc' = [pc EXCEPT ![p] = step]
    BY DEF Begin, At, Goto
  <1>2. QED
    BY <1>1 DEF TypeOK

\* A call that has come to its update stays there, with the metadata it has.
LEMMA UpdateStays ==
    ASSUME TypeOK, [Next]_vars, NEW p \in Procs, pc[p] = "update"
    PROVE  pc'[p] = "update" /\ req'[p] = req[p]
  <1>1. ASSUME NEW q \in Procs, Begin(q) PROVE pc'[p] = "update" /\ req'[p] = req[p]
    BY <1>1, BeginMeans
  <1>2. CASE \A q \in Procs : ~Begin(q)
    BY <1>2, Frame DEF Continues
  <1>3. QED
    BY <1>1, <1>2

LEMMA MarksStay ==
    ASSUME TypeOK, [Next]_vars, NEW id
    PROVE  /\ Relabelled(id) => Relabelled(id)'
           /\ GivenAway(id) => GivenAway(id)'
  BY UpdateStays DEF Relabelled, GivenAway

LEMMA NextLabel == TypeOK /\ DrawnOnce /\ CopyIsCurrent /\ LabelInv /\ [Next]_vars => LabelInv'
  <1> DEFINE Right(claim, id) ==
                \/ claim.labels[IdKey] = id
                \/ /\ Relabelled(id)
                   /\ claim.labels[IdKey] \in IDs => GivenAway(claim.labels[IdKey])
             StillRight(claim, id) ==
                \/ claim.labels[IdKey] = id
                \/ /\ Relabelled(id)'
                   /\ claim.labels[IdKey] \in IDs => GivenAway(claim.labels[IdKey])'
  <1> SUFFICES ASSUME TypeOK, DrawnOnce, CopyIsCurrent, LabelInv, [Next]_vars,
                      NEW id \in IDs, NEW claim, claim = claims'[id], claim # NoClaim
               PROVE  StillRight(claim, id)
    BY DEF LabelInv, Relabelled, GivenAway
  <1>1. ASSUME NEW c, Right(c, id) PROVE StillRight(c, id)
    BY <1>1, MarksStay
  <1>0. claims[id] # NoClaim => Right(claims[id], id)
    BY DEF LabelInv
  <1>2. IdKey \in Keys
    BY DEF Keys
  <1>3. CASE claims'[id] = claims[id]
    BY <1>0, <1>1, <1>3
  <1>4. ASSUME NEW p \in Procs, CreateClaim(p), req[p].disk = id
        PROVE  claim.labels[IdKey] = id
    <2>1. claims'[id] = NewClaim(id, "Pending") \/ claims'[id] = claims[id]
      BY <1>4 DEF CreateClaim, TypeOK
    <2>2. claims[id] = NoClaim
      BY <1>4 DEF CreateClaim, DrawnOnce
    <2>3. QED
      BY <1>2, <2>1, <2>2 DEF NewClaim
  <1>5. ASSUME NEW p \in Procs, UpdateClaim(p), req[p].disk = id, Accepts(p), ~Invalid(req[p].metadata),
               claim = Written(copy[p], Merged(copy[p].labels, req[p].metadata), copy[p].phase)
        PROVE  StillRight(claim, id)
    <2>1. pc[p] = "update" /\ At(p, "update") /\ req[p] \in Request /\ req[p].op = "tag"
      BY <1>5 DEF UpdateClaim, At, TypeOK
    <2>2. copy[p] = claims[id] /\ claims[id] # NoClaim
      BY <1>5, <2>1 DEF CopyIsCurrent, Accepts
    <2>3. claim.labels[IdKey] = IF req[p].metadata[IdKey] = Absent
                                THEN claims[id].labels[IdKey] ELSE req[p].metadata[IdKey]
      BY <1>2, <1>5, <2>2 DEF Written, Merged
    <2>4. CASE req[p].metadata[IdKey] = Absent
      BY <1>0, <1>1, <2>2, <2>3, <2>4
    <2>5. CASE req[p].metadata[IdKey] # Absent
      <3>1. Relabelled(id)
        BY <1>5, <2>1, <2>5 DEF Relabelled
      <3>2. claim.labels[IdKey] # id => GivenAway(claim.labels[IdKey])
        BY <1>5, <2>1, <2>3, <2>5 DEF GivenAway
      <3>3. QED
        BY <1>1, <3>1, <3>2
    <2>6. QED
      BY <2>4, <2>5
  <1>6. ASSUME claims[id] # NoClaim, NEW phase,
               claim = Written(claims[id], claims[id].labels, phase)
        PROVE  StillRight(claim, id)
    <2>1. claim.labels = claims[id].labels
      BY <1>6 DEF Written
    <2>2. Right(claim, id)
      BY <1>0, <1>6, <2>1
    <2>3. QED
      BY <1>1, <2>2
  <1>7. QED
    BY <1>3, <1>4, <1>5, <1>6, ClaimSteps

LEMMA InitLabel == Init => LabelInv
  BY DEF Init, LabelInv, NewClaim, Keys

-----------------------------------------------------------------------------
(* create_disk answers a bound claim and misses no event *)

Waits(p) == At(p, "watch") \/ At(p, "wait")

\* The watch tells of a binding somewhere in s.
HasReady(s) == \E i \in 1..Len(s) : s[i].type = "MODIFIED" /\ s[i].phase = "Bound"

\* The events a waiting call has yet to read tell what became of its claim: the
\* claim is there under its own label, one of the events tells that it is bound
\* if it is, and none of them does if it is not, unless another claim was given
\* the label.
WatchInv ==
    \A p \in Procs :
        /\ pc[p] \in {"idle", "create"} => stream[p] = <<>>
        /\ Waits(p) =>
            LET id == req[p].disk IN
            /\ claims[id] # NoClaim /\ claims[id].labels[IdKey] = id
            /\ claims[id].phase = "Bound" => HasReady(stream[p])
            /\ HasReady(stream[p]) => claims[id].phase = "Bound" \/ GivenAway(id)

LEMMA ReadyAppended ==
    ASSUME NEW s \in Seq(Event), NEW t \in Seq(Event)
    PROVE  HasReady(s \o t) <=> HasReady(s) \/ HasReady(t)
  <1>1. /\ Len(s \o t) = Len(s) + Len(t) /\ Len(s) \in Nat /\ Len(t) \in Nat
        /\ \A i \in 1..Len(s) + Len(t) : (s \o t)[i] = IF i <= Len(s) THEN s[i] ELSE t[i - Len(s)]
    BY ConcatProperties
  <1>2. ASSUME HasReady(s \o t) PROVE HasReady(s) \/ HasReady(t)
    <2>1. PICK i \in 1..Len(s) + Len(t) : (s \o t)[i].type = "MODIFIED" /\ (s \o t)[i].phase = "Bound"
      BY <1>1, <1>2 DEF HasReady
    <2>2. CASE i <= Len(s)
      BY <1>1, <2>1, <2>2 DEF HasReady
    <2>3. CASE ~(i <= Len(s))
      <3>1. i - Len(s) \in 1..Len(t) /\ (s \o t)[i] = t[i - Len(s)]
        BY <1>1, <2>1, <2>3
      <3>2. QED
        BY <2>1, <3>1 DEF HasReady
    <2>4. QED
      BY <2>2, <2>3
  <1>3. ASSUME HasReady(s) PROVE HasReady(s \o t)
    <2>1. PICK i \in 1..Len(s) : s[i].type = "MODIFIED" /\ s[i].phase = "Bound"
      BY <1>3 DEF HasReady
    <2>2. i \in 1..Len(s \o t) /\ (s \o t)[i] = s[i]
      BY <1>1
    <2>3. QED
      BY <2>1, <2>2 DEF HasReady
  <1>4. ASSUME HasReady(t) PROVE HasReady(s \o t)
    <2>1. PICK i \in 1..Len(t) : t[i].type = "MODIFIED" /\ t[i].phase = "Bound"
      BY <1>4 DEF HasReady
    <2>2. Len(s) + i \in 1..Len(s \o t) /\ (s \o t)[Len(s) + i] = t[i]
      BY <1>1
    <2>3. QED
      BY <2>1, <2>2 DEF HasReady
  <1>5. QED
    BY <1>2, <1>3, <1>4

LEMMA ReadyRead ==
    ASSUME NEW s \in Seq(Event), s # <<>>
    PROVE  /\ Head(s).type = "MODIFIED" /\ Head(s).phase = "Bound" => HasReady(s)
           /\ HasReady(s) => \/ Head(s).type = "MODIFIED" /\ Head(s).phase = "Bound"
                             \/ HasReady(Tail(s))
           /\ HasReady(Tail(s)) => HasReady(s)
  <1>1. /\ Len(s) \in Nat \ {0} /\ Head(s) = s[1]
        /\ Len(Tail(s)) = Len(s) - 1
        /\ \A i \in 1..Len(s) - 1 : Tail(s)[i] = s[i + 1] /\ i + 1 \in 1..Len(s)
    BY HeadTailProperties
  <1>2. ASSUME HasReady(s), ~HasReady(Tail(s))
        PROVE  Head(s).type = "MODIFIED" /\ Head(s).phase = "Bound"
    <2>1. PICK i \in 1..Len(s) : s[i].type = "MODIFIED" /\ s[i].phase = "Bound"
      BY <1>2 DEF HasReady
    <2>2. CASE i = 1
      BY <1>1, <2>1, <2>2
    <2>3. CASE i # 1
      <3>1. i - 1 \in 1..Len(Tail(s)) /\ Tail(s)[i - 1] = s[i]
        BY <1>1, <2>3
      <3>2. QED
        BY <1>2, <2>1, <3>1 DEF HasReady
    <2>4. QED
      BY <2>2, <2>3
  <1>3. ASSUME HasReady(Tail(s)) PROVE HasReady(s)
    BY <1>1, <1>3 DEF HasReady
  <1>4. 1 \in 1..Len(s)
    BY <1>1
  <1>5. QED
    BY <1>1, <1>2, <1>3, <1>4 DEF HasReady

\* The watch hears of a binding when a claim that has the label is written and
\* is bound.
LEMMA SeenReady ==
    ASSUME NEW id, NEW old, NEW new
    PROVE  HasReady(Seen(id, old, new)) <=>
              /\ old # NoClaim /\ old.labels[IdKey] = id
              /\ new # NoClaim /\ new.labels[IdKey] = id
              /\ new.phase = "Bound"
  <1> DEFINE was == old # NoClaim /\ old.labels[IdKey] = id
             is  == new # NoClaim /\ new.labels[IdKey] = id
             Of(type, claim) == <<[type |-> type, phase |-> claim.phase]>>
  <1>1. \A type, claim : HasReady(Of(type, claim)) <=> type = "MODIFIED" /\ claim.phase = "Bound"
    BY DEF HasReady
  <1>2. ~HasReady(<<>>)
    BY DEF HasReady
  <1>3. CASE was /\ is
    <2>1. Seen(id, old, new) = Of("MODIFIED", new)
      BY <1>3 DEF Seen
    <2>2. QED
      BY <1>1, <1>3, <2>1
  <1>4. CASE ~was /\ is
    <2>1. Seen(id, old, new) = Of("ADDED", new)
      BY <1>4 DEF Seen
    <2>2. QED
      BY <1>1, <1>4, <2>1
  <1>5. CASE was /\ ~is
    <2>1. Seen(id, old, new) = Of("DELETED", old)
      BY <1>5 DEF Seen
    <2>2. QED
      BY <1>1, <1>5, <2>1
  <1>6. CASE ~was /\ ~is
    <2>1. Seen(id, old, new) = <<>>
      BY <1>6 DEF Seen
    <2>2. QED
      BY <1>2, <1>6, <2>1
  <1>7. QED
    BY <1>3, <1>4, <1>5, <1>6

\* Nobody else can name the disk of a call that waits.
LEMMA WaitingIsUnknown ==
    ASSUME TypeOK, DrawnOnce, NEW p \in Procs, Waits(p)
    PROVE  req[p].disk \in IDs /\ Draws(p, req[p].disk) /\ req[p].disk \notin Known
  <1>1. req[p].disk \in IDs /\ Draws(p, req[p].disk) /\ outcome[p] = "running"
    BY DEF Waits, At, TypeOK, Request, Draws
  <1>2. req[p].disk \notin Existing
    BY <1>1 DEF DrawnOnce
  <1>3. QED
    BY <1>1, <1>2, KnownMeans DEF DrawnOnce

\* A call comes to wait by making its claim; what it has to read changes only as
\* it reads an event or its watch hears of a claim.
LEMMA WaitSteps ==
    ASSUME TypeOK, [Next]_vars, NEW p \in Procs, \A q \in Procs : ~Begin(q)
    PROVE  /\ Waits(p)' => \/ Waits(p)
                           \/ CreateClaim(p) /\ claims'[req[p].disk] = NewClaim(req[p].disk, "Pending")
           /\ \/ stream'[p] = stream[p]
              \/ /\ ReadEvent(p) /\ UNCHANGED claims /\ stream[p] # <<>>
                 /\ stream'[p] = Tail(stream[p])
                 /\ outcome'[p] = "running" =>
                      ~(Head(stream[p]).type = "MODIFIED" /\ Head(stream[p]).phase = "Bound")
              \/ /\ Waits(p)
                 /\ \E x \in IDs :
                      stream'[p] = stream[p] \o Seen(req[p].disk, claims[x], claims'[x])
  <1> USE DEF At, InProgress, Goto, Ends
  <1> DEFINE Goal1 == Waits(p)' => Waits(p)
             Goal2 == stream'[p] = stream[p]
             Goal3 == /\ Waits(p)
                      /\ \E x \in IDs :
                           stream'[p] = stream[p] \o Seen(req[p].disk, claims[x], claims'[x])
  <1>0. ASSUME NEW x \in IDs, WatchersHear(x) PROVE Goal2 \/ Goal3
    BY <1>0 DEF WatchersHear, Waits
  <1>1. ASSUME NEW q \in Procs, CreateClaim(q)
        PROVE  Goal2 /\ (Goal1 \/ (CreateClaim(p) /\ claims'[req[p].disk] = NewClaim(req[p].disk, "Pending")))
    <2>1. Goal2 /\ (q # p => Goal1)
      BY <1>1 DEF CreateClaim, TypeOK, Waits
    <2>2. CASE q = p
      <3>1. req[p].disk \in IDs
        BY <1>1, <2>2 DEF CreateClaim, TypeOK, Request
      <3>2. /\ pc[p] = "create" /\ CreateClaim(p)
            /\ \/ claims' = [claims EXCEPT ![req[p].disk] = NewClaim(req[p].disk, "Pending")]
               \/ UNCHANGED pc
        BY <1>1, <2>2 DEF CreateClaim
      <3>3. CASE claims' = [claims EXCEPT ![req[p].disk] = NewClaim(req[p].disk, "Pending")]
        <4>1. claims'[req[p].disk] = NewClaim(req[p].disk, "Pending")
          BY <3>1, <3>3 DEF TypeOK
        <4>2. QED
          BY <2>1, <3>2, <4>1
      <3>4. CASE UNCHANGED pc
        BY <2>1, <3>2, <3>4 DEF Waits
      <3>5. QED
        BY <3>2, <3>3, <3>4
    <2>3. QED
      BY <2>1, <2>2
  <1>2. ASSUME NEW q \in Procs, OpenWatch(q) PROVE Goal1 /\ Goal2
    BY <1>2 DEF OpenWatch, TypeOK, Waits
  <1>3. ASSUME NEW q \in Procs, ReadEvent(q)
        PROVE  Goal1 /\ (Goal2 \/ (/\ ReadEvent(p) /\ UNCHANGED claims /\ stream[p] # <<>>
                                   /\ stream'[p] = Tail(stream[p])
                                   /\ outcome'[p] = "running" =>
                                        ~(/\ Head(stream[p]).type = "MODIFIED"
                                          /\ Head(stream[p]).phase = "Bound")))
    <2>1. /\ q = p \/ Goal2
          /\ q = p => UNCHANGED claims /\ stream[p] # <<>> /\ stream'[p] = Tail(stream[p])
      BY <1>3 DEF ReadEvent, TypeOK
    <2>2. q = p => (outcome'[p] = "running" =>
                      ~(Head(stream[p]).type = "MODIFIED" /\ Head(stream[p]).phase = "Bound"))
      BY <1>3 DEF ReadEvent, TypeOK
    <2>3. Goal1
      <3>1. /\ UNCHANGED <<req, pc>>
            /\ \E how \in {"running", "ok", "unexpected"} :
                 outcome' \in {outcome, [outcome EXCEPT ![q] = how]}
            /\ pc[q] = "wait" /\ outcome[q] = "running"
        BY <1>3 DEF ReadEvent
      <3>2. QED
        BY <3>1 DEF TypeOK, Waits
    <2>4. QED
      BY <1>3, <2>1, <2>2, <2>3
  <1>4. ASSUME NEW q \in Procs, UpdateClaim(q) PROVE Goal1 /\ (Goal2 \/ Goal3)
    <2>1. /\ pc[q] = "update" /\ UNCHANGED <<req, pc>>
          /\ \E how \in {"invalid", "refused", "ok", "broken"} :
               outcome' = [outcome EXCEPT ![q] = how]
      BY <1>4 DEF UpdateClaim
    <2>2. Goal1
      BY <2>1 DEF TypeOK, Waits
    <2>3. req[q].disk \in IDs /\ (UNCHANGED stream \/ WatchersHear(req[q].disk))
      BY <1>4 DEF UpdateClaim, TypeOK, Request
    <2>4. QED
      BY <1>0, <2>2, <2>3
  <1>5. ASSUME NEW q \in Procs, TimesOut(q) \/ Breaks(q) \/ ListClaims(q)
        PROVE  Goal1 /\ Goal2
    <2>1. /\ UNCHANGED <<req, pc, stream>>
          /\ \E how \in {"timeout", "broken", "yes", "no"} :
               outcome' = [outcome EXCEPT ![q] = how]
      BY <1>5 DEF TimesOut, Breaks, ListClaims
    <2>2. QED
      BY <2>1 DEF TypeOK, Waits
  <1>6. ASSUME NEW q \in Procs, DeleteClaim(q) PROVE Goal1 /\ (Goal2 \/ Goal3)
    <2>1. /\ pc[q] = "delete" /\ UNCHANGED <<req, pc>>
          /\ \E how \in {"refused", "ok", "broken"} : outcome' = [outcome EXCEPT ![q] = how]
      BY <1>6 DEF DeleteClaim
    <2>2. Goal1
      BY <2>1 DEF TypeOK, Waits
    <2>3. req[q].disk \in IDs /\ WatchersHear(req[q].disk)
      BY <1>6 DEF DeleteClaim, TypeOK, Request
    <2>4. QED
      BY <1>0, <2>2, <2>3
  <1>7. ASSUME NEW q \in Procs, GetClaim(q) PROVE Goal1 /\ Goal2
    BY <1>7 DEF GetClaim, TypeOK, Waits
  <1>8. ASSUME NEW x \in IDs, BinderWrites(x) PROVE Goal1 /\ (Goal2 \/ Goal3)
    <2>1. UNCHANGED <<req, pc, outcome>> /\ WatchersHear(x)
      BY <1>8 DEF BinderWrites
    <2>2. Goal1
      BY <2>1 DEF Waits
    <2>3. QED
      BY <1>0, <2>1, <2>2
  <1>9. CASE UNCHANGED vars
    BY <1>9 DEF vars, Waits
  <1>10. \/ UNCHANGED vars
         \/ \E x \in IDs : BinderWrites(x)
         \/ \E q \in Procs :
              \/ CreateClaim(q) \/ OpenWatch(q) \/ ReadEvent(q) \/ TimesOut(q) \/ ListClaims(q)
              \/ DeleteClaim(q) \/ GetClaim(q) \/ UpdateClaim(q) \/ Breaks(q)
    BY DEF Next, Step
  <1>11. QED
    BY <1>1, <1>2, <1>3, <1>4, <1>5, <1>6, <1>7, <1>8, <1>9, <1>10

\* What the binder does to a claim and to what its creator has to read.
LEMMA BinderMeans ==
    ASSUME TypeOK, NEW id \in IDs, BinderWrites(id)
    PROVE  /\ claims[id] # NoClaim
           /\ \E phase \in {"Bound", claims[id].phase} :
                claims'[id] = Written(claims[id], claims[id].labels, phase)
           /\ \A p \in Procs : Waits(p) /\ req[p].disk = id =>
                stream'[p] = stream[p] \o Seen(id, claims[id], claims'[id])
  <1>1. PICK phase \in {"Bound", claims[id].phase} :
          claims' = [claims EXCEPT ![id] = Written(claims[id], claims[id].labels, phase)]
    BY DEF BinderWrites
  <1>2. claims'[id] = Written(claims[id], claims[id].labels, phase)
    BY <1>1 DEF TypeOK
  <1>3. \A p \in Procs : Waits(p) /\ req[p].disk = id =>
                stream'[p] = stream[p] \o Seen(id, claims[id], claims'[id])
    BY DEF BinderWrites, WatchersHear, Waits
  <1>4. QED
    BY <1>2, <1>3 DEF BinderWrites

LEMMA NextWatch == TypeOK /\ DrawnOnce /\ LabelInv /\ WatchInv /\ [Next]_vars => WatchInv'
  <1> SUFFICES ASSUME TypeOK, DrawnOnce, LabelInv, WatchInv, [Next]_vars PROVE WatchInv'
    OBVIOUS
  <1>1. ASSUME NEW q \in Procs, Begin(q) PROVE WatchInv'
    <2>1. \A p \in Procs : /\ pc'[p] \in {"idle", "create"} => pc[p] \in {"idle", "create"}
                           /\ Waits(p)' => Waits(p) /\ req'[p] = req[p]
      BY <1>1, BeginMeans DEF Waits, At
    <2>2. UNCHANGED <<claims, stream>>
      BY <1>1, BeginMeans
    <2>3. \A id : GivenAway(id) => GivenAway(id)'
      BY MarksStay
    <2>4. ASSUME NEW p \in Procs
          PROVE  /\ pc'[p] \in {"idle", "create"} => stream'[p] = <<>>
                 /\ Waits(p)' =>
                    /\ claims'[req'[p].disk] # NoClaim
                    /\ claims'[req'[p].disk].labels[IdKey] = req'[p].disk
                    /\ claims'[req'[p].disk].phase = "Bound" => HasReady(stream'[p])
                    /\ HasReady(stream'[p]) =>
                         claims'[req'[p].disk].phase = "Bound" \/ GivenAway(req[p].disk)'
      BY <2>1, <2>2, <2>3 DEF WatchInv
    <2>5. \A p \in Procs : Waits(p)' => req'[p].disk = req[p].disk
      BY <2>1
    <2>6. QED
      BY <2>4, <2>5 DEF WatchInv, HasReady, GivenAway
  <1>2. ASSUME \A q \in Procs : ~Begin(q) PROVE WatchInv'
    <2>1. Continues /\ req' = req
      BY <1>2, Frame DEF Continues
    <2> SUFFICES ASSUME NEW p \in Procs, NEW id, id = req[p].disk
                 PROVE  /\ pc'[p] \in {"idle", "create"} => stream'[p] = <<>>
                        /\ Waits(p)' =>
                            /\ claims'[id] # NoClaim /\ claims'[id].labels[IdKey] = id
                            /\ claims'[id].phase = "Bound" => HasReady(stream'[p])
                            /\ HasReady(stream'[p]) => claims'[id].phase = "Bound" \/ GivenAway(id)'
      BY <2>1 DEF WatchInv, HasReady, GivenAway
    <2>2. pc'[p] \in {"idle", "create"} => stream'[p] = <<>>
      <3> SUFFICES ASSUME pc'[p] \in {"idle", "create"} PROVE stream'[p] = <<>>
        OBVIOUS
      <3>1. pc[p] \in {"idle", "create"}
        BY <2>1 DEF Continues
      <3>2. ~ReadEvent(p) /\ ~Waits(p)
        BY <3>1 DEF ReadEvent, Waits, At
      <3>3. QED
        BY <1>2, <3>1, <3>2, WaitSteps DEF WatchInv
    <2>3. ASSUME Waits(p)', ~Waits(p)
          PROVE  claims'[id] = NewClaim(id, "Pending") /\ id \in IDs /\ stream'[p] = <<>>
      <3>1. CreateClaim(p) /\ claims'[id] = NewClaim(id, "Pending")
        BY <1>2, <2>3, WaitSteps
      <3>2. pc[p] = "create" /\ UNCHANGED stream /\ id \in IDs
        BY <3>1 DEF CreateClaim, At, TypeOK, Request
      <3>3. QED
        BY <3>1, <3>2 DEF WatchInv
    <2>4. CASE ~Waits(p)
      <3> SUFFICES ASSUME Waits(p)'
                   PROVE  /\ claims'[id] # NoClaim /\ claims'[id].labels[IdKey] = id
                          /\ claims'[id].phase # "Bound" /\ ~HasReady(stream'[p])
        BY <2>2
      <3>1. claims'[id] = NewClaim(id, "Pending") /\ id \in IDs /\ stream'[p] = <<>>
        BY <2>3, <2>4
      <3>2. NewClaim(id, "Pending") \in Claim
        BY <3>1, NewClaimType
      <3>3. NewClaim(id, "Pending").phase = "Pending" /\ NewClaim(id, "Pending").labels[IdKey] = id
        BY DEF NewClaim, Keys
      <3>4. ~HasReady(stream'[p])
        BY <3>1 DEF HasReady
      <3>5. QED
        BY <3>1, <3>2, <3>3, <3>4, NoClaimAssumption
    <2>5. ASSUME Waits(p), Waits(p)'
          PROVE  /\ claims'[id] # NoClaim /\ claims'[id].labels[IdKey] = id
                 /\ claims'[id].phase = "Bound" => HasReady(stream'[p])
                 /\ HasReady(stream'[p]) => claims'[id].phase = "Bound" \/ GivenAway(id)'
      <3>1. /\ id \in IDs /\ id \notin Known /\ stream[p] \in Seq(Event)
            /\ claims[id] # NoClaim /\ claims[id].labels[IdKey] = id
            /\ claims[id].phase = "Bound" => HasReady(stream[p])
            /\ HasReady(stream[p]) => claims[id].phase = "Bound" \/ GivenAway(id)
            /\ claims[id] \in Claim /\ claims'[id] \in Claim \cup {NoClaim}
        <4>1. id \in IDs /\ id \notin Known
          BY <2>5, WaitingIsUnknown
        <4>2. stream[p] \in Seq(Event) /\ claims'[id] \in Claim \cup {NoClaim}
          BY <4>1, NextType DEF TypeOK
        <4>3. QED
          BY <2>5, <4>1, <4>2 DEF WatchInv, TypeOK
      <3>2. GivenAway(id) => GivenAway(id)'
        BY MarksStay
      <3>3. \A x \in IDs : Seen(id, claims[x], claims'[x]) \in Seq(Event)
        BY SeenType, NextType DEF TypeOK
      <3>4. CASE BinderWrites(id)
        <4>1. PICK phase \in {"Bound", claims[id].phase} :
                claims'[id] = Written(claims[id], claims[id].labels, phase)
          BY <3>1, <3>4, BinderMeans
        <4>2. stream'[p] = stream[p] \o Seen(id, claims[id], claims'[id])
          BY <2>5, <3>1, <3>4, BinderMeans
        <4>3. /\ Written(claims[id], claims[id].labels, phase).phase = phase
              /\ Written(claims[id], claims[id].labels, phase).labels = claims[id].labels
              /\ Written(claims[id], claims[id].labels, phase) \in Claim
          BY <3>1 DEF Written, Claim
        <4>4. claims'[id] # NoClaim /\ claims'[id].labels[IdKey] = id /\ claims'[id].phase = phase
          BY <3>1, <4>1, <4>3, NoClaimAssumption
        <4>5. HasReady(stream'[p]) <=> HasReady(stream[p]) \/ phase = "Bound"
          BY <3>1, <3>3, <4>2, <4>4, ReadyAppended, SeenReady
        <4>6. QED
          BY <3>1, <3>2, <4>1, <4>4, <4>5
      <3>5. CASE ~BinderWrites(id)
        <4>1. ASSUME NEW q \in Procs, UpdateClaim(q) \/ DeleteClaim(q) PROVE req[q].disk # id
          <5>1. req[q].disk \in Known
            BY <4>1 DEF UpdateClaim, DeleteClaim, At, DrawnOnce
          <5>2. QED
            BY <3>1, <5>1
        <4>2. claims'[id] = claims[id]
          BY <3>1, <3>5, <4>1, ClaimSteps
        <4>3. (HasReady(stream'[p]) <=> HasReady(stream[p]))
              \/ (HasReady(stream'[p]) /\ (claims[id].phase = "Bound" \/ GivenAway(id)))
          <5>1. CASE stream'[p] = stream[p]
            BY <5>1
          <5>2. CASE /\ stream[p] # <<>> /\ stream'[p] = Tail(stream[p])
                     /\ outcome'[p] = "running" =>
                          ~(Head(stream[p]).type = "MODIFIED" /\ Head(stream[p]).phase = "Bound")
            BY <2>5, <3>1, <5>2, ReadyRead DEF Waits, At
          <5>3. CASE \E x \in IDs : stream'[p] = stream[p] \o Seen(id, claims[x], claims'[x])
            <6>1. PICK x \in IDs : stream'[p] = stream[p] \o Seen(id, claims[x], claims'[x])
              BY <5>3
            <6>2. HasReady(stream'[p]) <=>
                    HasReady(stream[p]) \/ HasReady(Seen(id, claims[x], claims'[x]))
              BY <3>1, <3>3, <6>1, ReadyAppended
            <6>3. ASSUME HasReady(Seen(id, claims[x], claims'[x]))
                  PROVE  claims[id].phase = "Bound" \/ GivenAway(id)
              <7>1. /\ claims[x] # NoClaim /\ claims[x].labels[IdKey] = id
                    /\ claims'[x].phase = "Bound"
                BY <6>3, SeenReady
              <7>2. QED
                BY <3>1, <4>2, <7>1 DEF LabelInv
            <6>4. QED
              BY <6>2, <6>3
          <5>4. QED
            BY <1>2, <5>1, <5>2, <5>3, WaitSteps
        <4>4. QED
          BY <3>1, <3>2, <4>2, <4>3
      <3>6. QED
        BY <3>4, <3>5
    <2>6. QED
      BY <2>2, <2>4, <2>5
  <1>3. QED
    BY <1>1, <1>2

\* A waiting create_disk with nothing to read has missed nothing: its claim is
\* there and not bound, not even since before the watch was opened, for the
\* watch begins at the version Create answered (create_disk.go:102-128).
THEOREM BindingsAreNoticed == Spec => []BindingIsNoticed
  <1>1. Init => CopyIsCurrent /\ WatchInv
    BY DEF Init, CopyIsCurrent, WatchInv, Waits, At
  <1>2. TypeOK /\ DrawnOnce /\ WatchInv => BindingIsNoticed
    <2> SUFFICES ASSUME TypeOK, DrawnOnce, WatchInv, NEW p \in Procs, At(p, "wait"), stream[p] = <<>>
                 PROVE  claims[req[p].disk] # NoClaim /\ claims[req[p].disk].phase = "Pending"
      BY DEF BindingIsNoticed
    <2>1. claims[req[p].disk] # NoClaim /\ claims[req[p].disk].phase # "Bound"
      BY DEF WatchInv, Waits, HasReady
    <2>2. claims[req[p].disk] \in Claim
      BY <2>1, WaitingIsUnknown DEF TypeOK, Waits
    <2>3. QED
      BY <2>1, <2>2 DEF Claim
  <1>3. QED
    BY <1>1, <1>2, InitLabel, InitType, NextType, InitDrawn, NextDrawn, NextCopy, NextLabel,
       NextWatch, PTL DEF Spec

\* create_disk succeeds only by reading that a claim with its label is bound.
LEMMA SuccessReads ==
    ASSUME TypeOK, [Next]_vars, NEW p \in Procs, \A q \in Procs : ~Begin(q),
           outcome[p] = "running", outcome'[p] = "ok", req[p].op = "create", pc[p] # "idle"
    PROVE  Waits(p) /\ UNCHANGED claims /\ HasReady(stream[p])
  <1> USE DEF At, InProgress, Goto, Ends
  <1>1. ASSUME NEW q \in Procs, ReadEvent(q)
        PROVE  Waits(p) /\ UNCHANGED claims /\ HasReady(stream[p])
    <2>1. /\ q = p /\ UNCHANGED claims /\ pc[p] = "wait"
          /\ stream[p] # <<>> /\ stream[p] \in Seq(Event)
          /\ Head(stream[p]).type = "MODIFIED" /\ Head(stream[p]).phase = "Bound"
      BY <1>1 DEF ReadEvent, TypeOK
    <2>2. QED
      BY <2>1, ReadyRead DEF Waits
  <1>2. ASSUME NEW q \in Procs, UpdateClaim(q) PROVE outcome'[p] = outcome[p]
    <2>1. pc[q] = "update" /\ \E how \in {"invalid", "refused", "ok", "broken"} :
                                outcome' = [outcome EXCEPT ![q] = how]
      BY <1>2 DEF UpdateClaim
    <2>2. QED
      BY <2>1 DEF TypeOK
  <1>3. ASSUME NEW q \in Procs, DeleteClaim(q) \/ GetClaim(q) PROVE outcome'[p] = outcome[p]
    BY <1>3 DEF DeleteClaim, GetClaim, TypeOK
  <1>4. ASSUME NEW q \in Procs, CreateClaim(q) \/ OpenWatch(q) \/ TimesOut(q)
                                \/ ListClaims(q) \/ Breaks(q)
        PROVE  outcome'[p] # "ok"
    BY <1>4 DEF CreateClaim, OpenWatch, TimesOut, ListClaims, Breaks, TypeOK
  <1>5. QED
    BY <1>1, <1>2, <1>3, <1>4 DEF Next, Step, BinderWrites, vars

LEMMA NextBound ==
    /\ TypeOK /\ DrawnOnce /\ CopyIsCurrent /\ WatchInv /\ CreatedDiskIsBound
    /\ [Next]_vars
    => CreatedDiskIsBound'
  <1> SUFFICES ASSUME TypeOK, DrawnOnce, CopyIsCurrent, WatchInv, CreatedDiskIsBound, [Next]_vars
               PROVE  CreatedDiskIsBound'
    OBVIOUS
  <1>0. \A id : id \in Known' <=> id \in Existing \/ \E q \in Procs : Draws(q, id)' /\ outcome'[q] = "ok"
    BY DEF Known, Draws
  <1> DEFINE Asked(id) == \E p \in Procs : pc[p] # "idle" /\ req[p].op = "delete" /\ req[p].disk = id
             AskedNow(id) == \E p \in Procs : pc'[p] # "idle" /\ req'[p].op = "delete" /\ req'[p].disk = id
             Bound(id) == claims[id] # NoClaim /\ (claims[id].phase = "Bound" \/ GivenAway(id))
             BoundNow(id) == claims'[id] # NoClaim /\ (claims'[id].phase = "Bound" \/ GivenAway(id)')
  <1> SUFFICES ASSUME NEW id \in Known'
               PROVE  BoundNow(id) \/ AskedNow(id)
    BY DEF CreatedDiskIsBound, GivenAway
  <1>a. GivenAway(id) => GivenAway(id)'
    BY MarksStay
  <1>1. ASSUME NEW q \in Procs, Begin(q)
        PROVE  BoundNow(id) \/ AskedNow(id)
    <2>1. /\ UNCHANGED <<claims, outcome>> /\ pc[q] = "idle" /\ outcome[q] = "running"
          /\ \A x \in Procs \ {q} : pc'[x] = pc[x] /\ req'[x] = req[x]
      BY <1>1, BeginMeans
    <2>2. id \in Known
      BY <1>0, <2>1, KnownMeans DEF Draws
    <2>3. Bound(id) \/ Asked(id)
      BY <2>2 DEF CreatedDiskIsBound
    <2>4. QED
      BY <1>a, <2>1, <2>3
  <1>2. ASSUME \A q \in Procs : ~Begin(q)
        PROVE  BoundNow(id) \/ AskedNow(id)
    <2>1. Continues /\ req' = req
      BY <1>2, Frame DEF Continues
    <2>2. ASSUME Asked(id) PROVE AskedNow(id)
      BY <2>1, <2>2 DEF Continues
    <2>3. ASSUME id \notin Known PROVE BoundNow(id)
      <3>1. PICK q \in Procs : Draws(q, id)' /\ outcome'[q] = "ok" /\ outcome[q] # "ok"
        <4>1. \A q \in Procs : Draws(q, id)' <=> Draws(q, id)
          BY <2>1 DEF Continues, Draws
        <4>2. QED
          BY <1>0, <2>3, <4>1, KnownMeans
      <3>2. Draws(q, id) /\ outcome[q] = "running"
        BY <2>1, <3>1 DEF Continues, Draws
      <3>3. Waits(q) /\ UNCHANGED claims /\ HasReady(stream[q])
        BY <1>2, <3>1, <3>2, SuccessReads DEF Draws
      <3>4. Bound(id)
        BY <3>2, <3>3 DEF WatchInv, Draws
      <3>5. QED
        BY <1>a, <3>3, <3>4
    <2>4. ASSUME id \in Known, Bound(id)
          PROVE  BoundNow(id) \/ AskedNow(id)
      <3>1. id \in IDs
        BY <2>4, ExistingAssumption, KnownMeans DEF Draws, TypeOK, Request
      <3>2. claims[id] \in Claim
        BY <2>4, <3>1 DEF TypeOK
      <3>3. ASSUME NEW q \in Procs, UpdateClaim(q), req[q].disk = id, Accepts(q),
                   ~Invalid(req[q].metadata),
                   claims'[id] = Written(copy[q], Merged(copy[q].labels, req[q].metadata), copy[q].phase)
            PROVE  claims'[id] \in Claim /\ claims'[id].phase \in {"Bound", claims[id].phase}
        <4>1. At(q, "update")
          BY <3>3 DEF UpdateClaim
        <4>2. copy[q] = claims[id]
          BY <3>3, <4>1 DEF CopyIsCurrent, Accepts
        <4>3. claims'[id] \in Claim
          BY <3>3, <4>1, UpdatedType
        <4>4. QED
          BY <2>4, <3>3, <4>2, <4>3 DEF Written
      <3>4. ASSUME NEW phase \in {"Bound", claims[id].phase},
                   claims'[id] = Written(claims[id], claims[id].labels, phase)
            PROVE  claims'[id] \in Claim /\ claims'[id].phase \in {"Bound", claims[id].phase}
        BY <2>4, <3>2, <3>4 DEF Written, Claim
      <3>5. ASSUME NEW q \in Procs, DeleteClaim(q), req[q].disk = id PROVE Asked(id)
        BY <3>5 DEF DeleteClaim, At, TypeOK
      <3>6. \/ claims'[id] = claims[id]
            \/ claims'[id].phase \in {"Bound", claims[id].phase} /\ claims'[id] # NoClaim
            \/ Asked(id)
        BY <2>4, <3>1, <3>3, <3>4, <3>5, NoClaimAssumption, ClaimSteps
      <3>7. QED
        BY <1>a, <2>2, <2>4, <3>6
    <2>5. QED
      BY <2>2, <2>3, <2>4 DEF CreatedDiskIsBound
  <1>3. QED
    BY <1>1, <1>2

\* A disk whose CID create_disk answered is a bound claim until the director
\* asks to delete it: no metadata call, sent late or twice, makes it anything
\* else.  If a metadata call wrote its GUID on another disk, whose events
\* create_disk then hears too, it is a claim that may still be pending
\* (create_disk.go:37-107, 109-149, set_disk_metadata.go:30-58).
THEOREM CreatedDisksAreBound == Spec => []CreatedDiskIsBound
  <1>1. Init => CopyIsCurrent /\ WatchInv
    BY DEF Init, CopyIsCurrent, WatchInv, Waits, At
  <1>2. Init => CreatedDiskIsBound
    <2> SUFFICES ASSUME Init, NEW id \in Known
                 PROVE  claims[id] # NoClaim /\ claims[id].phase = "Bound"
      BY DEF CreatedDiskIsBound
    <2>1. id \in Existing /\ id \in IDs
      BY ExistingAssumption, KnownMeans DEF Init, Draws
    <2>2. claims[id] = NewClaim(id, "Bound") /\ claims[id] \in Claim
      BY <2>1, NewClaimType DEF Init
    <2>3. QED
      BY <2>2, NoClaimAssumption DEF NewClaim
  <1>3. QED
    BY <1>1, <1>2, InitLabel, InitType, NextType, InitDrawn, NextDrawn, NextCopy, NextLabel,
       NextWatch, NextBound, PTL DEF Spec

-----------------------------------------------------------------------------
(* has_disk finds the disk it is asked for *)

LEMMA StepAnswers == TypeOK /\ LabelInv /\ [Next]_vars => [HonestAnswer]_vars
  <1> SUFFICES ASSUME TypeOK, LabelInv, [Next]_vars, NEW p \in Procs, At(p, "list")
               PROVE  /\ outcome'[p] = "yes" => claims[req[p].disk] # NoClaim \/ GivenAway(req[p].disk)
                      /\ outcome'[p] = "no" => claims[req[p].disk] = NoClaim \/ Relabelled(req[p].disk)
    BY DEF HonestAnswer
  <1> DEFINE id == req[p].disk
             found == {x \in IDs : claims[x] # NoClaim /\ claims[x].labels[IdKey] = id}
  <1>1. id \in IDs
    BY DEF At, TypeOK, Request
  <1>2. outcome'[p] \in {"yes", "no"} => outcome'[p] = (IF found # {} THEN "yes" ELSE "no")
    <2> USE DEF At, InProgress, Goto, Ends
    <2>1. ASSUME NEW q \in Procs, ListClaims(q)
          PROVE  outcome'[p] \in {"yes", "no"} => outcome'[p] = (IF found # {} THEN "yes" ELSE "no")
      BY <2>1 DEF ListClaims, TypeOK
    <2>2. ASSUME NEW q \in Procs, UpdateClaim(q) PROVE outcome'[p] \notin {"yes", "no"}
      <3>1. \E how \in {"invalid", "refused", "ok", "broken"} : outcome' = [outcome EXCEPT ![q] = how]
        BY <2>2 DEF UpdateClaim
      <3>2. QED
        BY <3>1 DEF TypeOK
    <2>3. ASSUME NEW q \in Procs, Begin(q) \/ CreateClaim(q) \/ OpenWatch(q) \/ ReadEvent(q)
                                  \/ TimesOut(q) \/ DeleteClaim(q) \/ GetClaim(q) \/ Breaks(q)
          PROVE  outcome'[p] \notin {"yes", "no"}
      BY <2>3 DEF Begin, CreateClaim, OpenWatch, ReadEvent, TimesOut, DeleteClaim, GetClaim, Breaks, TypeOK
    <2>4. QED
      BY <2>1, <2>2, <2>3 DEF Next, Step, BinderWrites, vars
  <1>3. found # {} => claims[id] # NoClaim \/ GivenAway(id)
    BY <1>1 DEF LabelInv
  <1>4. found = {} => claims[id] = NoClaim \/ Relabelled(id)
    BY <1>1 DEF LabelInv
  <1>5. QED
    BY <1>2, <1>3, <1>4

\* has_disk asks for a label where everything else asks for a name, yet its
\* answer is the truth at that moment, but for a disk whose GUID a
\* set_disk_metadata wrote on another disk, which may be found in its place, and
\* for one whose own disk-id label a set_disk_metadata replaced, which may not be
\* found (has_disk.go:14-34, set_disk_metadata.go:39-56).
THEOREM AnswersAreRight == Spec => HasDiskIsRight
  <1>1. Init => CopyIsCurrent
    BY DEF Init, CopyIsCurrent, At
  <1>2. QED
    BY <1>1, InitLabel, InitType, NextType, InitDrawn, NextDrawn, NextCopy, NextLabel, StepAnswers, PTL
       DEF Spec, HasDiskIsRight
=============================================================================
