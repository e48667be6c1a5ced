------------------------------- MODULE Contexts -------------------------------
(***************************************************************************)
(* Contexts and cloud IDs (actions/util.go, kubecluster/provider.go,       *)
(* config/kubernetes.go).                                                  *)
(*                                                                         *)
(* Nothing remembers where a VM or a disk lives but its cloud ID, which is *)
(* made of the context it was created in, a colon and an ID.  Every later  *)
(* call splits the cloud ID, and asks the provider for a client of that    *)
(* context, in whatever configuration the director passes it by then.      *)
(*                                                                         *)
(* Strings are sequences of characters here, since what can go wrong is    *)
(* where they are cut.                                                     *)
(***************************************************************************)
EXTENDS Integers, Sequences, FiniteSets

CONSTANTS
    Chars,          \* characters
    Colon,          \* the separator of a cloud ID
    ContextNames,   \* names that contexts can have
    AskedNames,     \* what cloud properties can give as the context, defined or not
    IDs,            \* agent IDs and disk IDs
    NoClient,       \* the provider's error
    MaxMinted       \* bound: how many cloud IDs are made

DefaultContext == <<>>    \* the empty string

\* Nothing checks the names in a configuration: one may have a colon in it, or
\* be empty, and so may an ID.
ASSUME NamesAssumption ==
    /\ Colon \in Chars
    /\ ContextNames \subseteq Seq(Chars) /\ AskedNames \subseteq Seq(Chars)
    /\ IDs \subseteq Seq(Chars)
    /\ NoClient \notin Seq(Chars)

VARIABLES
    usable,     \* the contexts the configuration defines, with their cluster
                \* and user
    current,    \* its current_context
    minted      \* the cloud IDs handed out, with where they were made

vars == <<usable, current, minted>>

CID == Seq(Chars)

TypeOK ==
    /\ usable \subseteq ContextNames
    /\ current \in ContextNames \cup {DefaultContext}
    /\ minted \subseteq [cid : CID, context : ContextNames, id : IDs]

-----------------------------------------------------------------------------
NewCID(context, id) == context \o <<Colon>> \o id

FirstColon(s) ==
    CHOOSE k \in 1 .. Len(s) : s[k] = Colon /\ \A j \in 1 .. k - 1 : s[j] # Colon

LastColon(s) ==
    CHOOSE k \in 1 .. Len(s) : s[k] = Colon /\ \A j \in k + 1 .. Len(s) : s[j] # Colon

MutParseCID(s) ==               \* cut at the last colon
    LET k == LastColon(s) IN [context |-> SubSeq(s, 1, k - 1),
                              id |-> SubSeq(s, k + 1, Len(s))]

\* SplitN(cid, ":", 2).  Without a colon there is no second part, and the Go
\* code panics: every cloud ID below has one.
ParseCID(s) ==
    LET k == FirstColon(s) IN [context |-> SubSeq(s, 1, k - 1),
                               id |-> SubSeq(s, k + 1, Len(s))]

\* The context a client is made for.
Resolve(context) == IF context = DefaultContext THEN current ELSE context

MutNew(context) == Resolve(context)     \* nothing looks whether it is defined

\* Provider.New: a client of a context the configuration defines, or an error.
New(context) == IF Resolve(context) \in usable THEN Resolve(context) ELSE NoClient

-----------------------------------------------------------------------------
Init ==
    /\ usable \in SUBSET ContextNames
    /\ current \in ContextNames \cup {DefaultContext}
    /\ minted = {}

MutMint(asked, id) ==           \* the cloud ID has the context asked for
    /\ New(asked) # NoClient
    /\ minted' = minted \cup {[cid |-> NewCID(asked, id), context |-> New(asked), id |-> id]}

\* create_vm and create_disk put the context the client resolved to in the
\* cloud ID, not the one they were asked for, which may be the default.
Mint(asked, id) ==
    /\ New(asked) # NoClient
    /\ minted' = minted \cup {[cid |-> NewCID(New(asked), id), context |-> New(asked), id |-> id]}

Create ==
    /\ Cardinality(minted) < MaxMinted
    /\ \E asked \in AskedNames, id \in IDs : Mint(asked, id)
    /\ UNCHANGED <<usable, current>>

\* The operator changes the configuration; every call loads it afresh.
Reconfigure ==
    /\ usable' \in SUBSET ContextNames
    /\ current' \in ContextNames \cup {DefaultContext}
    /\ UNCHANGED minted

Next == Create \/ Reconfigure

Spec == Init /\ [][Next]_vars

-----------------------------------------------------------------------------
HasColon(s) == \E k \in 1 .. Len(s) : s[k] = Colon

\* What a name is cut to in a cloud ID.
BeforeColon(s) == IF HasColon(s) THEN SubSeq(s, 1, FirstColon(s) - 1) ELSE s

\* A cloud ID finds what it was made for in every later configuration, or no
\* client at all: changing current_context does not send the calls on a VM or
\* disk that was created in the default context elsewhere.  That fails for two
\* kinds of names, which no code refuses: of a name with a colon only what is
\* before the colon is looked up, and an empty one means the current context.
FindsItsContext ==
    \A m \in minted :
        LET parsed == ParseCID(m.cid) IN
        /\ ~HasColon(m.context) => parsed.id = m.id
        /\ ~HasColon(m.context) /\ m.context # DefaultContext =>
               New(parsed.context) \in {m.context, NoClient}
        /\ HasColon(m.context) =>
               /\ parsed.context = BeforeColon(m.context) /\ parsed.context # m.context
               /\ Len(parsed.id) > Len(m.id)

\* The contexts AttachDisk and DetachDisk compare (39, 59 of volume_manager.go)
\* are equal when the VM and the disk were made in the same context, and
\* otherwise only if the names of the two agree up to a colon.
ContextsCompare ==
    \A vm, disk \in minted :
        LET equal == ParseCID(vm.cid).context = ParseCID(disk.cid).context IN
        /\ equal <=> BeforeColon(vm.context) = BeforeColon(disk.context)
        /\ ~HasColon(vm.context) /\ ~HasColon(disk.context) =>
               (equal <=> vm.context = disk.context)
=============================================================================
