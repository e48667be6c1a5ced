---------------------------- MODULE DispatchProofs ----------------------------
(***************************************************************************)
(* What Dispatch does with a request, for any function it is given and any *)
(* number of arguments.                                                    *)
(***************************************************************************)
EXTENDS Dispatch, TLAPS

LEMMA FunctionType ==
    ASSUME NEW params \in Seq(Params),
           NEW results \in {<<"value">>, <<"error">>, <<"value", "error">>}
    PROVE  Function(params, results) \in Signature /\ ~Function(params, results).variadic
<1>1. results \in Seq({"value", "error"})
  <2>1. CASE results = <<"value">>
    BY <2>1
  <2>2. CASE results = <<"error">>
    BY <2>2
  <2>3. CASE results = <<"value", "error">>
    BY <2>3
  <2> QED
    BY <2>1, <2>2, <2>3
<1> QED
  BY <1>1 DEF Function, Signature

\* The methods of main are functions that are not variadic.
LEMMA MethodsType ==
    \A f \in DOMAIN Methods : Methods[f] \in Signature /\ ~Methods[f].variadic
<1> SUFFICES ASSUME NEW f \in DOMAIN Methods
             PROVE  \E params \in Seq(Params),
                       results \in {<<"value">>, <<"error">>, <<"value", "error">>} :
                       Methods[f] = Function(params, results)
  BY FunctionType
<1>1. /\ << >> \in Seq(Params) /\ <<"string">> \in Seq(Params)
      /\ <<"string", "object">> \in Seq(Params) /\ <<"string", "string">> \in Seq(Params)
      /\ <<"number", "object", "string">> \in Seq(Params)
      /\ <<"string", "string", "object", "object", "array", "object">> \in Seq(Params)
  BY DEF Params
<1>2. f \in {"info", "create_stemcell", "delete_stemcell", "create_vm", "delete_vm",
             "has_vm", "set_vm_metadata", "create_disk", "attach_disk",
             "set_disk_metadata", "has_disk", "delete_disk", "detach_disk", "get_disks"}
  BY DEF Methods
<1>3. CASE f = "info"
  BY <1>1, <1>3 DEF Methods
<1>4. CASE f = "create_stemcell"
  BY <1>1, <1>4 DEF Methods
<1>5. CASE f = "delete_stemcell"
  BY <1>1, <1>5 DEF Methods
<1>6. CASE f = "create_vm"
  BY <1>1, <1>6 DEF Methods
<1>7. CASE f = "delete_vm"
  BY <1>1, <1>7 DEF Methods
<1>8. CASE f = "has_vm"
  BY <1>1, <1>8 DEF Methods
<1>9. CASE f = "set_vm_metadata"
  BY <1>1, <1>9 DEF Methods
<1>10. CASE f = "create_disk"
  BY <1>1, <1>10 DEF Methods
<1>11. CASE f = "attach_disk"
  BY <1>1, <1>11 DEF Methods
<1>12. CASE f = "set_disk_metadata"
  BY <1>1, <1>12 DEF Methods
<1>13. CASE f = "has_disk"
  BY <1>1, <1>13 DEF Methods
<1>14. CASE f = "delete_disk"
  BY <1>1, <1>14 DEF Methods
<1>15. CASE f = "detach_disk"
  BY <1>1, <1>15 DEF Methods
<1>16. CASE f = "get_disks"
  BY <1>1, <1>16 DEF Methods
<1> QED
  BY <1>2, <1>3, <1>4, <1>5, <1>6, <1>7, <1>8, <1>9, <1>10,
     <1>11, <1>12, <1>13, <1>14, <1>15, <1>16

-----------------------------------------------------------------------------
\* What the arguments converted so far and the count of them say of the
\* method, once main has dispatched it.
Dispatched == pc \in {"args", "respond", "done"} \/ called

Position(i) == IF i < Len(Target.params) THEN i ELSE Len(Target.params)

Accepted ==
    /\ method \in Names
    /\ count >= Required /\ (count > Required => Target.variadic)
    /\ Len(args) <= count
    /\ \A i \in 1 .. Len(args) : args[i] \in {"null", Target.params[Position(i)]}

Inv ==
    /\ TypeOK
    /\ Dispatched => Accepted
    /\ called => Len(args) = count
    /\ pc \in {"load", "switch"} => args = << >>
    /\ pc \in {"load", "switch", "args"} => ~called
    /\ pc \in {"respond", "done"} => called

LEMMA TargetIsSignature ==
    method \in Names => /\ Target \in Signature
                        /\ Target.variadic => Target.params # << >>
  BY MethodsType, DelegatesAssumption DEF Target, Names

\* Inv is inductive: main converts one argument after the other into the
\* parameter at its place, and calls the action when there is none left.
LEMMA InvHolds == Spec => []Inv
<1>1. Init => Inv
  BY DEF Init, Inv, TypeOK, Dispatched, called
<1>2. Inv /\ [Next]_vars => Inv'
  <2> SUFFICES ASSUME Inv, [Next]_vars
               PROVE  Inv'
    OBVIOUS
  <2>1. CASE Load
    BY <2>1 DEF Load, Panics, Inv, TypeOK, Dispatched, Accepted, called
  <2>2. CASE Switch
    <3>1. CASE Panics
      BY <2>2, <3>1 DEF Switch, Panics, Inv, TypeOK, Dispatched, called
    <3>2. CASE /\ method \in Names
               /\ count >= Required /\ (count > Required => Target.variadic)
               /\ pc' = "args"
               /\ UNCHANGED <<method, count, args, returned, response>>
      <4>1. TypeOK /\ args = << >> /\ ~called
        BY <2>2 DEF Switch, Inv
      <4>2. /\ Names' = Names /\ Required' = Required /\ Target' = Target
            /\ Len(args') = 0 /\ count' \in Nat
        BY <3>2, <4>1 DEF Names, Required, Target, TypeOK
      <4>3. Accepted'
        BY <3>2, <4>2 DEF Accepted
      <4> QED
        BY <3>2, <4>1, <4>3 DEF Inv, TypeOK, Dispatched, called
    <3> QED
      BY <2>2, <3>1, <3>2 DEF Switch
  <2>3. CASE Convert
    <3>1. PICK arg \in Params \cup {"null", "malformed"} :
            \/ /\ Decodes(arg, ParamAt(Len(args) + 1))
               /\ args' = Append(args, arg)
               /\ UNCHANGED <<method, count, pc, returned, response>>
            \/ /\ ~Decodes(arg, ParamAt(Len(args) + 1))
               /\ Panics
      BY <2>3 DEF Convert
    <3>2. /\ pc = "args" /\ Len(args) < count /\ ~called
          /\ Accepted /\ TypeOK
      BY <2>3 DEF Convert, Inv, Dispatched
    <3>3. CASE Panics
      BY <3>2, <3>3 DEF Panics, Inv, TypeOK, Dispatched, called
    <3>4. CASE /\ Decodes(arg, ParamAt(Len(args) + 1))
               /\ args' = Append(args, arg)
               /\ UNCHANGED <<method, count, pc, returned, response>>
      <4>1. /\ ParamAt(Len(args) + 1) = Target.params[Position(Len(args) + 1)]
            /\ ParamAt(Len(args) + 1) \in Params
        BY <3>2, TargetIsSignature
           DEF Accepted, Required, TypeOK, ParamAt, Position, Signature
      <4>2. arg \in {"null", ParamAt(Len(args) + 1)}
        BY <3>4 DEF Decodes
      <4>3. TypeOK'
        BY <3>2, <3>4, <4>1, <4>2 DEF TypeOK, Names
      <4>4. /\ Len(args') = Len(args) + 1
            /\ \A i \in 1 .. Len(args') :
                args'[i] = IF i = Len(args) + 1 THEN arg ELSE args[i]
        BY <3>2, <3>4, <4>1, <4>2 DEF TypeOK
      <4>5. /\ Names' = Names /\ Required' = Required /\ Target' = Target
            /\ \A i : Position(i)' = Position(i)
        BY <3>4 DEF Names, Required, Target, Position
      <4>6. \A i \in 1 .. Len(args') :
                args'[i] \in {"null", Target.params[Position(i)]}
        BY <3>2, <4>1, <4>2, <4>4 DEF Accepted, TypeOK
      <4>7. Accepted'
        BY <3>2, <3>4, <4>4, <4>5, <4>6 DEF Accepted, TypeOK
      <4> QED
        BY <3>2, <3>4, <4>3, <4>7
           DEF Inv, Dispatched, called
    <3> QED
      BY <3>1, <3>3, <3>4
  <2>4. CASE Call
    BY <2>4 DEF Call, Inv, TypeOK, Dispatched, Accepted, Required, Target, Position,
                called
  <2>5. CASE Respond
    <3>1. pc = "respond" /\ called /\ Accepted /\ TypeOK /\ Len(args) = count
      BY <2>5 DEF Respond, Inv, Dispatched
    <3>2. Accepted'
      BY <3>1, <2>5 DEF Respond, Panics, Accepted, Required, Target, Position
    <3>3. TypeOK'
      BY <3>1, <2>5 DEF Respond, Panics, TypeOK
    <3> QED
      BY <2>5, <3>1, <3>2, <3>3 DEF Respond, Panics, Inv, Dispatched, called
  <2>6. CASE Breaks
    BY <2>6 DEF Breaks, Inv, TypeOK, Dispatched, Accepted, called, Required, Target, Position
  <2>7. CASE UNCHANGED vars
    BY <2>7 DEF vars, Inv, TypeOK, Dispatched, Accepted, called, Required, Target, Position
  <2> QED
    BY <2>1, <2>2, <2>3, <2>4, <2>5, <2>6, <2>7 DEF Next
<1> QED
  BY <1>1, <1>2, PTL DEF Spec

\* Dispatch calls an action only for a request that fits it: whatever the
\* function, nothing is done for one that does not (dispatch.go:28-65).
THEOREM OnlyFittingCalls == Spec => []CalledOnlyIfItFits
<1>1. Inv => CalledOnlyIfItFits
  BY TargetIsSignature
     DEF Inv, TypeOK, Dispatched, Accepted, Required, Position, CalledOnlyIfItFits, Fits,
         Signature
<1> QED
  BY <1>1, InvHolds, PTL

\* The variables of Dispatch keep their types: what an action is called with
\* are values of its parameters' kinds, never a malformed one (dispatch.go:40-65).
THEOREM DispatchTypeCorrect == Spec => []TypeOK
<1>1. Inv => TypeOK
  BY DEF Inv
<1> QED
  BY <1>1, InvHolds, PTL
=============================================================================
