---------------------------- MODULE ContextsProofs ----------------------------
(***************************************************************************)
(* Proofs about Contexts, for any names and any IDs, colons in them or     *)
(* not.                                                                    *)
(***************************************************************************)
EXTENDS Contexts, SequenceTheorems, WellFoundedInduction, TLAPS

-----------------------------------------------------------------------------
(* The first colon *)

\* A set of natural numbers that is not empty has a least element.
LEMMA HasLeast ==
    ASSUME NEW T, T \subseteq Nat, T # {}
    PROVE  \E x \in T : \A y \in T : x <= y
  <1> DEFINE Less == {z \in Nat \X Nat : z[1] < z[2]}
  <1>1. OpToRel(<, Nat) = Less
    BY DEF OpToRel
  <1>2. IsWellFoundedOn(Less, Nat)
    BY <1>1, NatLessThanWellFounded
  <1>3. \A y, x \in Nat : y < x => <<y, x>> \in Less
    OBVIOUS
  <1> HIDE DEF Less
  <1>4. PICK x \in T : \A y \in T : <<y, x>> \notin Less
    BY <1>2, WFMin
  <1>5. ASSUME NEW y \in T PROVE x <= y
    <2>1. ~(y < x)
      BY <1>3, <1>4
    <2>2. QED
      BY <2>1
  <1>6. QED
    BY <1>5

\* A string with a colon has a first one, and that is the one SplitN cuts at.
LEMMA FirstColonIsFirst ==
    ASSUME NEW s \in Seq(Chars), HasColon(s)
    PROVE  /\ FirstColon(s) \in 1 .. Len(s) /\ s[FirstColon(s)] = Colon
           /\ \A j \in 1 .. FirstColon(s) - 1 : s[j] # Colon
  <1> DEFINE T == {k \in 1 .. Len(s) : s[k] = Colon}
  <1>1. T \subseteq Nat /\ T # {}
    BY DEF HasColon
  <1>2. PICK x \in T : \A y \in T : x <= y
    <2> HIDE DEF T
    <2>1. QED
      BY <1>1, HasLeast
  <1>3. x \in 1 .. Len(s) /\ s[x] = Colon /\ \A j \in 1 .. x - 1 : s[j] # Colon
    BY <1>2
  <1>4. QED
    BY <1>3 DEF FirstColon

LEMMA FirstColonIsTheOne ==
    ASSUME NEW s \in Seq(Chars), NEW n \in 1 .. Len(s), s[n] = Colon,
           \A j \in 1 .. n - 1 : s[j] # Colon
    PROVE  FirstColon(s) = n
  <1>1. HasColon(s)
    BY DEF HasColon
  <1>2. /\ FirstColon(s) \in 1 .. Len(s) /\ s[FirstColon(s)] = Colon
        /\ \A j \in 1 .. FirstColon(s) - 1 : s[j] # Colon
    BY <1>1, FirstColonIsFirst
  <1>3. QED
    BY <1>2

\* What ParseVMCID and ParseDiskCID read of what NewVMCID and NewDiskCID wrote
\* (util.go 10-26).
CutRight(m) ==
    LET parsed == ParseCID(m.cid) IN
    /\ parsed.context = BeforeColon(m.context)
    /\ ~HasColon(m.context) => parsed.id = m.id
    /\ HasColon(m.context) => parsed.context # m.context /\ Len(parsed.id) > Len(m.id)

\* It is the context and the ID again, unless the context has a colon: then the
\* context is cut there, and the rest of it has become part of the ID.
LEMMA RoundTrip ==
    ASSUME NEW c \in Seq(Chars), NEW id \in Seq(Chars)
    PROVE  /\ NewCID(c, id) \in CID
           /\ CutRight([cid |-> NewCID(c, id), context |-> c, id |-> id])
  <1> DEFINE s == NewCID(c, id)
             n == Len(c) + 1
  <1>1. <<Colon>> \in Seq(Chars) /\ c \o <<Colon>> \in Seq(Chars)
    BY NamesAssumption
  <1>2. s \in Seq(Chars)
    BY <1>1 DEF NewCID
  <1>3. /\ Len(s) = n + Len(id)
        /\ \A i \in 1 .. Len(c) : s[i] = c[i]
        /\ s[n] = Colon
        /\ \A i \in 1 .. Len(id) : s[n + i] = id[i]
    BY <1>1 DEF NewCID
  <1> HIDE DEF s
  <1>4. CASE ~HasColon(c)
    <2>1. FirstColon(s) = n
      <3>1. n \in 1 .. Len(s) /\ s[n] = Colon /\ \A j \in 1 .. n - 1 : s[j] # Colon
        BY <1>3, <1>4 DEF HasColon
      <3>2. QED
        BY <1>2, <3>1, FirstColonIsTheOne
    <2>2. SubSeq(s, 1, n - 1) = c
      BY <1>2, <1>3
    <2>3. SubSeq(s, n + 1, Len(s)) = id
      BY <1>2, <1>3
    <2>4. ParseCID(s).context = c /\ ParseCID(s).id = id
      BY <2>1, <2>2, <2>3 DEF ParseCID
    <2>5. QED
      BY <1>2, <1>4, <2>4 DEF CutRight, BeforeColon, CID, s
  <1>5. CASE HasColon(c)
    <2> DEFINE k == FirstColon(c)
    <2>1. k \in 1 .. Len(c) /\ c[k] = Colon /\ \A j \in 1 .. k - 1 : c[j] # Colon
      BY <1>5, FirstColonIsFirst
    <2>2. FirstColon(s) = k
      <3>1. k \in 1 .. Len(s) /\ s[k] = Colon /\ \A j \in 1 .. k - 1 : s[j] # Colon
        BY <1>3, <2>1
      <3>2. QED
        BY <1>2, <3>1, FirstColonIsTheOne
    <2> HIDE DEF k
    <2>3. /\ SubSeq(s, 1, k - 1) = SubSeq(c, 1, k - 1)
          /\ Len(SubSeq(s, 1, k - 1)) = k - 1
      BY <1>2, <1>3, <2>1
    <2>4. Len(SubSeq(s, k + 1, Len(s))) = Len(s) - k
      BY <1>2, <1>3, <2>1
    <2>5. /\ ParseCID(s).context = SubSeq(c, 1, k - 1)
          /\ Len(ParseCID(s).context) = k - 1
          /\ Len(ParseCID(s).id) = Len(s) - k
      BY <2>2, <2>3, <2>4 DEF ParseCID
    <2>6. ParseCID(s).context # c /\ Len(ParseCID(s).id) > Len(id)
      BY <1>3, <2>1, <2>5
    <2>7. QED
      BY <1>2, <1>5, <2>5, <2>6 DEF CutRight, BeforeColon, CID, s, k
  <1>6. QED
    BY <1>4, <1>5

-----------------------------------------------------------------------------
(* The invariant *)

Readable == \A m \in minted : CutRight(m)

\* Each step that makes a cloud ID makes it of the name the client was resolved
\* to; the type invariant comes along.
LEMMA NextReadable == TypeOK /\ Readable /\ [Next]_vars => TypeOK' /\ Readable'
  <1> SUFFICES ASSUME TypeOK, Readable, [Next]_vars PROVE TypeOK' /\ Readable'
    OBVIOUS
  <1>1. CASE Create
    <2>1. PICK asked \in AskedNames, id \in IDs :
            /\ New(asked) # NoClient
            /\ minted' = minted \cup {[cid |-> NewCID(New(asked), id),
                                       context |-> New(asked), id |-> id]}
      BY <1>1 DEF Create, Mint
    <2> DEFINE m == [cid |-> NewCID(New(asked), id), context |-> New(asked), id |-> id]
    <2>2. New(asked) \in ContextNames
      BY <2>1 DEF New, TypeOK
    <2>3. New(asked) \in Seq(Chars) /\ id \in Seq(Chars)
      BY <2>2, NamesAssumption
    <2>4. NewCID(New(asked), id) \in CID /\ CutRight(m)
      BY <2>3, RoundTrip
    <2>5. TypeOK'
      <3>1. m \in [cid : CID, context : ContextNames, id : IDs]
        BY <2>2, <2>4
      <3>2. QED
        BY <1>1, <2>1, <3>1 DEF Create, TypeOK
    <2>6. Readable'
      BY <2>1, <2>4 DEF Readable
    <2>7. QED
      BY <2>5, <2>6
  <1>2. CASE Reconfigure
    BY <1>2 DEF Reconfigure, TypeOK, Readable
  <1>3. CASE UNCHANGED vars
    BY <1>3 DEF vars, TypeOK, Readable
  <1>4. QED
    BY <1>1, <1>2, <1>3 DEF Next

\* A name without a colon that is not empty resolves to itself.
LEMMA ReadableSuffices == TypeOK /\ Readable => FindsItsContext /\ ContextsCompare
  <1> SUFFICES ASSUME TypeOK, Readable PROVE FindsItsContext /\ ContextsCompare
    OBVIOUS
  <1>1. ASSUME NEW m \in minted
        PROVE  LET parsed == ParseCID(m.cid) IN
               /\ ~HasColon(m.context) => parsed.id = m.id
               /\ ~HasColon(m.context) /\ m.context # DefaultContext =>
                      New(parsed.context) \in {m.context, NoClient}
               /\ HasColon(m.context) =>
                      /\ parsed.context = BeforeColon(m.context) /\ parsed.context # m.context
                      /\ Len(parsed.id) > Len(m.id)
    <2>1. CutRight(m)
      BY DEF Readable
    <2>2. ASSUME ~HasColon(m.context), m.context # DefaultContext
          PROVE  New(ParseCID(m.cid).context) \in {m.context, NoClient}
      <3>1. ParseCID(m.cid).context = m.context
        BY <2>1, <2>2 DEF CutRight, BeforeColon
      <3>2. QED
        BY <2>2, <3>1 DEF New, Resolve
    <2>3. QED
      BY <2>1, <2>2 DEF CutRight
  <1>2. FindsItsContext
    BY <1>1 DEF FindsItsContext
  <1>3. ContextsCompare
    BY DEF Readable, CutRight, ContextsCompare, BeforeColon
  <1>4. QED
    BY <1>2, <1>3

LEMMA ReadableAlways == Spec => [](TypeOK /\ Readable)
  <1>1. Init => TypeOK /\ Readable
    BY DEF Init, TypeOK, Readable
  <1>2. QED
    BY <1>1, NextReadable, PTL DEF Spec

\* Every cloud ID is made in a context the configuration defines, and not in
\* the default one unless that is its name, whatever was asked for
\* (provider.go:22-51).
THEOREM ContextsTypeCorrect == Spec => []TypeOK
  BY ReadableAlways, PTL

\* In every later configuration a cloud ID leads to the context it was made
\* in or to an error, if the name of that is not empty and has no colon; with a
\* colon it leads to what is before it (util.go:10-26, provider.go:22-51).
THEOREM CloudIDsAreStable == Spec => []FindsItsContext
  BY ReadableAlways, ReadableSuffices, PTL

\* The comparison by which AttachDisk and DetachDisk refuse the disk of another
\* context never refuses one of the same, and admits one of another only when
\* the names agree up to a colon (volume_manager.go:39, 59).
THEOREM ComparisonsAreExact == Spec => []ContextsCompare
  BY ReadableAlways, ReadableSuffices, PTL
=============================================================================
