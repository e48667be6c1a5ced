-------------------------------- MODULE Disks --------------------------------
(***************************************************************************)
(* create_disk, delete_disk, has_disk and set_disk_metadata                *)
(* (actions/create_disk.go, delete_disk.go, has_disk.go,                   *)
(* set_disk_metadata.go).                                                  *)
(*                                                                         *)
(* A disk is a persistent volume claim named after a fresh GUID, with the  *)
(* GUID as its disk-id label.  create_disk makes the claim and waits for   *)
(* it to be bound; delete_disk and set_disk_metadata find it by name,      *)
(* has_disk and the watch of create_disk find it by label, and a           *)
(* set_disk_metadata can give any claim any label.  As in VolumeManager, a *)
(* process makes one call, every request is one step, and either side may  *)
(* fail in between.                                                        *)
(***************************************************************************)
EXTENDS Naturals, Sequences

CONSTANTS
    Procs,        \* CPI processes, one call each
    IDs,          \* GUIDs
    Existing,     \* the disks there are at the start
    IdKey,        \* the label key bosh.cloudfoundry.org/disk-id
    Tags,         \* other label keys the director's metadata can have
    Values,       \* other label values that are valid
    Bad,          \* a value, or a key with it, that Kubernetes rejects
    Absent,       \* of a key that a claim or the metadata does not have
    Metadata,     \* the metadata the director passes to set_disk_metadata
    NoClaim,      \* no claim has the name
    NoRequest,    \* of a process that has not begun
    MaxVersion    \* bound on the versions the binder gives a claim

Keys   == Tags \cup {IdKey}
Labels == [Keys -> IDs \cup Values \cup {Absent}]
Claim  == [labels : Labels, phase : {"Pending", "Bound"}, rv : Nat]

Event == [type : {"ADDED", "MODIFIED", "DELETED"}, phase : {"Pending", "Bound"}]

Request == [op : {"create", "has", "delete"}, disk : IDs]
           \cup [op : {"tag"}, disk : IDs, metadata : Metadata]

ASSUME ExistingAssumption == Existing \subseteq IDs
ASSUME KeysAssumption == IdKey \notin Tags
ASSUME MetadataAssumption == Metadata \subseteq [Keys -> IDs \cup Values \cup {Bad, Absent}]
ASSUME ValuesAssumption == Absent \notin IDs \cup Values /\ Bad \notin IDs \cup Values \cup {Absent}
ASSUME NoClaimAssumption == NoClaim \notin Claim
ASSUME MaxVersionAssumption == MaxVersion \in Nat

VARIABLES
    claims,       \* the claim "disk-"+id, or NoClaim
    req,          \* the arguments of the call; for create_disk, the GUID it drew
    pc,           \* the request it is at
    copy,         \* the claim as set_disk_metadata read it
    stream,       \* the watch events create_disk has yet to read
    outcome       \* how the call ended, or "running"

vars == <<claims, req, pc, copy, stream, outcome>>

At(p, step) == pc[p] = step /\ outcome[p] = "running"

InProgress(p) == pc[p] # "idle" /\ outcome[p] = "running"

TypeOK ==
    /\ claims \in [IDs -> Claim \cup {NoClaim}]
    /\ req \in [Procs -> Request \cup {NoRequest}]
    /\ pc \in [Procs -> {"idle", "create", "watch", "wait", "list", "delete", "get", "update"}]
    /\ copy \in [Procs -> Claim \cup {NoClaim}]
    /\ stream \in [Procs -> Seq(Event)]
    /\ outcome \in [Procs -> {"running", "ok", "yes", "no", "invalid", "refused",
                              "broken", "timeout", "unexpected"}]
    /\ \A p \in Procs :
        /\ pc[p] # "idle" => req[p] \in Request
        /\ pc[p] \in {"create", "watch", "wait"} => req[p].op = "create"
        /\ pc[p] = "list" => req[p].op = "has"
        /\ pc[p] = "delete" => req[p].op = "delete"
        /\ pc[p] \in {"get", "update"} => req[p].op = "tag"
        /\ At(p, "update") => copy[p] \in Claim

-----------------------------------------------------------------------------
Ends(p, how) == outcome' = [outcome EXCEPT ![p] = how]
Goto(p, step) == pc' = [pc EXCEPT ![p] = step]

NewClaim(id, phase) ==
    [labels |-> [k \in Keys |-> IF k = IdKey THEN id ELSE Absent], phase |-> phase, rv |-> 0]

\* Every write raises the version.
Written(claim, labels, phase) == [labels |-> labels, phase |-> phase, rv |-> claim.rv + 1]

\* What a watch for the label id hears when a claim is written or deleted.
Seen(id, old, new) ==
    LET was == old # NoClaim /\ old.labels[IdKey] = id
        is  == new # NoClaim /\ new.labels[IdKey] = id
        Of(type, claim) == <<[type |-> type, phase |-> claim.phase]>>
    IN  CASE was /\ is   -> Of("MODIFIED", new)
          [] ~was /\ is  -> Of("ADDED", new)
          [] was /\ ~is  -> Of("DELETED", old)
          [] ~was /\ ~is -> <<>>

\* The watch of create_disk selects by its own label: it hears of every claim
\* that has it, under whatever name.
WatchersHear(id) ==
    stream' = [p \in Procs |-> IF At(p, "watch") \/ At(p, "wait")
                               THEN stream[p] \o Seen(req[p].disk, claims[id], claims'[id])
                               ELSE stream[p]]

\* The disks the director has been told of.
Known == Existing \cup {req[p].disk : p \in {q \in Procs :
            pc[q] # "idle" /\ req[q].op = "create" /\ outcome[q] = "ok"}}

Drawn == Existing \cup {req[p].disk : p \in {q \in Procs :
            pc[q] # "idle" /\ req[q].op = "create"}}

Init ==
    /\ claims = [id \in IDs |-> IF id \in Existing THEN NewClaim(id, "Bound") ELSE NoClaim]
    /\ req = [p \in Procs |-> NoRequest]
    /\ pc = [p \in Procs |-> "idle"]
    /\ copy = [p \in Procs |-> NoClaim]
    /\ stream = [p \in Procs |-> <<>>]
    /\ outcome = [p \in Procs |-> "running"]

\* The director makes a call.  A GUID is drawn once.
Begin(p) ==
    /\ At(p, "idle")
    /\ \E r \in Request :
        /\ \/ r.op = "create" /\ r.disk \notin Drawn /\ Goto(p, "create")
           \/ r.op = "has" /\ Goto(p, "list")
           \/ r.op = "delete" /\ r.disk \in Known /\ Goto(p, "delete")
           \/ r.op = "tag" /\ r.disk \in Known /\ Goto(p, "get")
        /\ req' = [req EXCEPT ![p] = r]
    /\ UNCHANGED <<claims, copy, stream, outcome>>

-----------------------------------------------------------------------------
(* create_disk *)

\* The server may refuse the claim (a name it does not take, which an empty
\* GUID makes; a quota); if it carries the request out, the answer may be lost.
CreateClaim(p) ==
    /\ At(p, "create")
    /\ \/ /\ claims' = [claims EXCEPT ![req[p].disk] = NewClaim(req[p].disk, "Pending")]
          /\ \/ Goto(p, "watch") /\ UNCHANGED outcome
             \/ Ends(p, "broken") /\ UNCHANGED pc
       \/ Ends(p, "refused") /\ UNCHANGED <<claims, pc>>
    /\ UNCHANGED <<req, copy, stream>>

MutOpenWatchNow(p) ==           \* the watch starts at the current version
    /\ At(p, "watch")
    /\ stream' = [stream EXCEPT ![p] = <<>>]
    /\ Goto(p, "wait")
    /\ UNCHANGED <<claims, req, copy, outcome>>

\* The watch hands over what happened after the version Create answered.
OpenWatch(p) ==
    /\ At(p, "watch")
    /\ Goto(p, "wait")
    /\ UNCHANGED <<claims, req, copy, stream, outcome>>

MutReadEvent(p) ==              \* any change of the claim will do
    /\ At(p, "wait") /\ stream[p] # <<>>
    /\ Ends(p, "ok")
    /\ stream' = [stream EXCEPT ![p] = Tail(@)]
    /\ UNCHANGED <<claims, req, pc, copy>>

\* An event that a claim has come or gone is an error.
ReadEvent(p) ==
    /\ At(p, "wait") /\ stream[p] # <<>>
    /\ LET event == Head(stream[p]) IN
       \/ event.type = "MODIFIED" /\ event.phase = "Bound" /\ Ends(p, "ok")
       \/ event.type = "MODIFIED" /\ event.phase = "Pending" /\ UNCHANGED outcome
       \/ event.type # "MODIFIED" /\ Ends(p, "unexpected")
    /\ stream' = [stream EXCEPT ![p] = Tail(@)]
    /\ UNCHANGED <<claims, req, pc, copy>>

MutTimesOut(p) == FALSE

\* The timer is armed before the watch; it fires at any moment after that.
TimesOut(p) ==
    /\ At(p, "wait")
    /\ Ends(p, "timeout")
    /\ UNCHANGED <<claims, req, pc, copy, stream>>

-----------------------------------------------------------------------------
(* has_disk and delete_disk *)

\* has_disk asks for the claims with the label, whatever their name.
ListClaims(p) ==
    /\ At(p, "list")
    /\ LET found == {id \in IDs : claims[id] # NoClaim /\ claims[id].labels[IdKey] = req[p].disk}
       IN  Ends(p, IF found # {} THEN "yes" ELSE "no")
    /\ UNCHANGED <<claims, req, pc, copy, stream>>

DeleteClaim(p) ==
    /\ At(p, "delete")
    /\ claims' = [claims EXCEPT ![req[p].disk] = NoClaim]
    /\ IF claims[req[p].disk] = NoClaim THEN Ends(p, "refused")
                                        ELSE Ends(p, "ok") \/ Ends(p, "broken")
    /\ WatchersHear(req[p].disk)
    /\ UNCHANGED <<req, pc, copy>>

-----------------------------------------------------------------------------
(* set_disk_metadata *)

GetClaim(p) ==
    LET claim == claims[req[p].disk] IN
    /\ At(p, "get")
    /\ IF claim = NoClaim
       THEN Ends(p, "refused") /\ UNCHANGED <<copy, pc>>
       ELSE /\ copy' = [copy EXCEPT ![p] = claim]
            /\ Goto(p, "update") /\ UNCHANGED outcome
    /\ UNCHANGED <<claims, req, stream>>

MutMerged(labels, metadata) == metadata     \* the old labels are dropped

\* The metadata over the labels that were read, the disk-id label not spared.
Merged(labels, metadata) ==
    [k \in Keys |-> IF metadata[k] = Absent THEN labels[k] ELSE metadata[k]]

MutAccepts(p) == claims[req[p].disk] # NoClaim

MutAcceptsGone(p) == TRUE

\* Update carries the version that was read: the server takes it only if the
\* claim is there and still has that version.
Accepts(p) == LET claim == claims[req[p].disk] IN claim # NoClaim /\ claim.rv = copy[p].rv

MutInvalid(metadata) == FALSE   \* the values are not checked

Invalid(metadata) == \E k \in Keys : metadata[k] = Bad

\* The copy is changed key by key and sent as a whole, unless a key or a value
\* is found invalid on the way.  No value is refused for being another disk's
\* GUID.
UpdateClaim(p) ==
    /\ At(p, "update")
    /\ LET metadata == req[p].metadata
           labels   == Merged(copy[p].labels, metadata) IN
       \/ Invalid(metadata) /\ Ends(p, "invalid") /\ UNCHANGED <<claims, stream>>
       \/ ~Invalid(metadata) /\ ~Accepts(p) /\ Ends(p, "refused") /\ UNCHANGED <<claims, stream>>
       \/ /\ ~Invalid(metadata) /\ Accepts(p)
          /\ claims' = [claims EXCEPT ![req[p].disk] = Written(copy[p], labels, copy[p].phase)]
          /\ WatchersHear(req[p].disk)
          /\ Ends(p, "ok") \/ Ends(p, "broken")
    /\ copy' = [copy EXCEPT ![p] = NoClaim]
    /\ UNCHANGED <<req, pc>>

-----------------------------------------------------------------------------
(* What the process has no part in *)

\* The connection fails and the request is not carried out (at "wait", the
\* closed channel hands over an event with no type), or the process dies.
Breaks(p) ==
    /\ InProgress(p)
    /\ Ends(p, "broken")
    /\ copy' = [copy EXCEPT ![p] = NoClaim]
    /\ UNCHANGED <<claims, req, pc, stream>>

\* The volume controller binds a claim or annotates it.
BinderWrites(id) ==
    /\ claims[id] # NoClaim /\ claims[id].rv < MaxVersion
    /\ \E phase \in {"Bound", claims[id].phase} :
        claims' = [claims EXCEPT ![id] = Written(@, @.labels, phase)]
    /\ WatchersHear(id)
    /\ UNCHANGED <<req, pc, copy, outcome>>

-----------------------------------------------------------------------------
Step(p) == \/ CreateClaim(p) \/ OpenWatch(p) \/ ReadEvent(p)
           \/ ListClaims(p) \/ DeleteClaim(p) \/ GetClaim(p) \/ UpdateClaim(p)

Next ==
    \/ \E p \in Procs : Begin(p) \/ Step(p) \/ TimesOut(p) \/ Breaks(p)
    \/ \E id \in IDs : BinderWrites(id)

Spec == Init /\ [][Next]_vars

\* The process runs, and the select does not pass a fired timer over for ever.
\* Nothing is assumed of the director, the binder or the network.
Fairness == \A p \in Procs : WF_vars(Step(p)) /\ WF_vars(TimesOut(p))

FairSpec == Spec /\ Fairness

-----------------------------------------------------------------------------
\* A waiting create_disk with nothing to read has missed nothing: its claim is
\* not bound yet, not even since before the watch was opened (102-128).
BindingIsNoticed ==
    \A p \in Procs : At(p, "wait") /\ stream[p] = <<>> =>
        claims[req[p].disk] # NoClaim /\ claims[req[p].disk].phase = "Pending"

\* A set_disk_metadata wrote this disk's GUID on another disk as its disk-id.
GivenAway(id) ==
    \E p \in Procs : /\ pc[p] = "update" /\ req[p].disk # id
                     /\ req[p].metadata[IdKey] = id

\* A disk whose CID create_disk answered is a bound claim until the director
\* has asked to delete it (37-107); only if another claim has its disk-id too
\* can it still be pending, as create_disk hears of both.
CreatedDiskIsBound ==
    \A id \in Known :
        \/ claims[id] # NoClaim /\ claims[id].phase = "Bound"
        \/ claims[id] # NoClaim /\ GivenAway(id)
        \/ \E p \in Procs : pc[p] # "idle" /\ req[p].op = "delete" /\ req[p].disk = id

\* set_disk_metadata writes back a whole claim it read earlier, yet it changes
\* only the labels it was given: what the binder or another call wrote in
\* between stays (set_disk_metadata.go:30-58).
OnlyItsLabels ==
    \A id \in IDs :
        claims[id] # NoClaim /\ claims'[id] # NoClaim /\ claims'[id].labels # claims[id].labels =>
        \E p \in Procs :
            /\ At(p, "update") /\ req[p].disk = id
            /\ claims'[id].phase = claims[id].phase
            /\ \A k \in Keys : \/ claims'[id].labels[k] = claims[id].labels[k]
                               \/ claims'[id].labels[k] = req[p].metadata[k]

MetadataKeepsTheRest == [][OnlyItsLabels]_vars

\* Once delete_disk succeeded, or was refused because the claim was gone, the
\* disk is gone for good: a set_disk_metadata that read it before does not
\* bring it back, and a retry that is refused has nothing left to delete.
DeletedStaysDeleted ==
    \A p \in Procs : outcome[p] \in {"ok", "refused"} /\ req[p].op = "delete" =>
        claims[req[p].disk] = NoClaim

\* has_disk looks for a label, everything else for a name.  Its yes is wrong
\* only about a disk whose GUID a set_disk_metadata gave to another disk, its no
\* only about a disk whose own disk-id label a set_disk_metadata replaced.
Relabelled(id) ==
    \E p \in Procs : /\ pc[p] = "update" /\ req[p].disk = id
                     /\ req[p].metadata[IdKey] # Absent

HonestAnswer ==
    \A p \in Procs : At(p, "list") =>
        /\ outcome'[p] = "yes" => claims[req[p].disk] # NoClaim \/ GivenAway(req[p].disk)
        /\ outcome'[p] = "no" => claims[req[p].disk] = NoClaim \/ Relabelled(req[p].disk)

HasDiskIsRight == [][HonestAnswer]_vars

\* Every call ends, also when the claim is never bound (121, 148).
EveryCallEnds == \A p \in Procs : InProgress(p) ~> ~InProgress(p)
=============================================================================
