------------------------------- MODULE Dispatch -------------------------------
(***************************************************************************)
(* One run of the cpi command (cmd/cpi/main.go): it reads its              *)
(* configuration and one request, chooses the action by the method's name, *)
(* converts the arguments by reflection (cpi/dispatch.go), calls the       *)
(* action and prints the response.                                         *)
(*                                                                         *)
(* What goes wrong before or after the call makes the process panic, and   *)
(* it may die at any moment: the director gets no response then, and       *)
(* cannot tell from that how far the process was.  An argument is the kind of its JSON value; a "malformed"  *)
(* one has the right kind but does not decode (a negative size, a field of *)
(* another type).  Its kind is chosen when Dispatch gets to it.            *)
(***************************************************************************)
EXTENDS Naturals, Sequences

CONSTANTS
    Delegates,    \* signatures of other functions Dispatch could be given
    MaxArgs       \* bound on the number of arguments in a request

Params == {"string", "number", "object", "array"}

\* A Go function, as reflection shows it: its parameters, of which the last
\* stands for any number if it is variadic, and its results.
Signature == [params : Seq(Params), variadic : BOOLEAN, results : Seq({"value", "error"})]

Function(params, results) == [params |-> params, variadic |-> FALSE, results |-> results]

\* What main dispatches to.  A cloud ID is a string; cloud properties,
\* networks, metadata and the environment are objects.
Methods ==
    [ info              |-> Function(<< >>, <<"value">>),
      create_stemcell   |-> Function(<<"string", "object">>, <<"value", "error">>),
      delete_stemcell   |-> Function(<<"string">>, <<"error">>),
      create_vm         |-> Function(<<"string", "string", "object", "object", "array", "object">>,
                                     <<"value", "error">>),
      delete_vm         |-> Function(<<"string">>, <<"error">>),
      has_vm            |-> Function(<<"string">>, <<"value", "error">>),
      set_vm_metadata   |-> Function(<<"string", "object">>, <<"error">>),
      create_disk       |-> Function(<<"number", "object", "string">>, <<"value", "error">>),
      attach_disk       |-> Function(<<"string", "string">>, <<"error">>),
      set_disk_metadata |-> Function(<<"string", "object">>, <<"error">>),
      has_disk          |-> Function(<<"string">>, <<"value", "error">>),
      delete_disk       |-> Function(<<"string">>, <<"error">>),
      detach_disk       |-> Function(<<"string", "string">>, <<"error">>),
      get_disks         |-> Function(<<"string">>, <<"value", "error">>) ]

\* Methods main knows only to refuse, and one it does not know.
Refused == {"configure_networks", "reboot_vm", "snapshot_disk", "delete_snapshot", "unknown"}

ASSUME DelegatesAssumption ==
    /\ DOMAIN Delegates \cap (DOMAIN Methods \cup Refused) = {}
    /\ \A f \in DOMAIN Delegates :
        Delegates[f] \in Signature /\ (Delegates[f].variadic => Delegates[f].params # << >>)
ASSUME MaxArgsAssumption == MaxArgs \in Nat

VARIABLES
    method,       \* of the request
    count,        \* how many arguments it has
    pc,           \* where main is
    args,         \* the arguments converted so far
    returned,     \* how the action returned: "value", "error", "panic"
    response      \* what is printed on stdout

vars == <<method, count, pc, args, returned, response>>

Names == DOMAIN Methods \cup DOMAIN Delegates
Target == IF method \in DOMAIN Methods THEN Methods[method] ELSE Delegates[method]

TypeOK ==
    /\ method \in Names \cup Refused
    /\ count \in 0 .. MaxArgs
    /\ pc \in {"load", "switch", "args", "respond", "done", "panic", "dead"}
    /\ args \in Seq(Params \cup {"null"})
    /\ returned \in {"nothing", "value", "error", "panic"}
    /\ response \in {"nothing", "result", "error"}

-----------------------------------------------------------------------------
Init ==
    /\ method \in Names \cup Refused
    /\ count \in 0 .. MaxArgs
    /\ pc = "load"
    /\ args = << >>
    /\ returned = "nothing"
    /\ response = "nothing"

Panics == pc' = "panic" /\ UNCHANGED <<method, count, args, returned, response>>

\* The two configuration files and the request itself.
Load ==
    /\ pc = "load"
    /\ \/ Panics
       \/ pc' = "switch" /\ UNCHANGED <<method, count, args, returned, response>>

Required == Len(Target.params) - (IF Target.variadic THEN 1 ELSE 0)

\* A method that is refused makes main panic with the error, as any error does.
Switch ==
    /\ pc = "switch"
    /\ \/ method \in Refused /\ Panics
       \/ /\ method \in Names
          /\ count < Required \/ (count > Required /\ ~Target.variadic)
          /\ Panics
       \/ /\ method \in Names
          /\ count >= Required /\ (count > Required => Target.variadic)
          /\ pc' = "args"
          /\ UNCHANGED <<method, count, args, returned, response>>

MutParamAt(i) ==                \* the variadic parameter is taken once
    Target.params[IF i > Len(Target.params) THEN 1 ELSE i]

\* The parameter that takes the i-th argument.
ParamAt(i) ==
    IF Target.variadic /\ i >= Len(Target.params)
    THEN Target.params[Len(Target.params)]
    ELSE Target.params[i]

MutDecodes(arg, param) ==       \* the error of Unmarshal is not looked at
    arg \in {param, "null", "malformed"}

\* encoding/json leaves a target as it is when it decodes null, so null is an
\* argument of any type: its zero value.
Decodes(arg, param) == arg = param \/ arg = "null"

Convert ==
    /\ pc = "args" /\ Len(args) < count
    /\ \E arg \in Params \cup {"null", "malformed"} :
        \/ /\ Decodes(arg, ParamAt(Len(args) + 1))
           /\ args' = Append(args, arg)
           /\ UNCHANGED <<method, count, pc, returned, response>>
        \/ /\ ~Decodes(arg, ParamAt(Len(args) + 1))
           /\ Panics

HasError == "error" \in {Target.results[i] : i \in 1 .. Len(Target.results)}

\* The action returns, with an error if it has one to return, or panics (on a
\* cloud ID without a colon, for one).
Call ==
    /\ pc = "args" /\ Len(args) = count
    /\ \/ returned' = "value" /\ pc' = "respond"
       \/ HasError /\ returned' = "error" /\ pc' = "respond"
       \/ returned' = "panic" /\ pc' = "panic"
    /\ UNCHANGED <<method, count, args, response>>

\* One result, or two of which the second is the error.
WellShaped(results) ==
    \/ Len(results) = 1
    \/ Len(results) = 2 /\ results[2] = "error"

\* newResponse and the printing.  The response has no type for an error.
Respond ==
    /\ pc = "respond"
    /\ \/ /\ WellShaped(Target.results)
          /\ response' = IF returned = "error" THEN "error" ELSE "result"
          /\ pc' = "done"
          /\ UNCHANGED <<method, count, args, returned>>
       \/ ~WellShaped(Target.results) /\ Panics

\* The process dies, or the response does not get out.
Breaks ==
    /\ pc \notin {"done", "panic", "dead"}
    /\ pc' = "dead"
    /\ UNCHANGED <<method, count, args, returned, response>>

Next == Load \/ Switch \/ Convert \/ Call \/ Respond \/ Breaks

Spec == Init /\ [][Next]_vars

-----------------------------------------------------------------------------
called == returned # "nothing"

\* The action was called only if the request had as many arguments as it
\* takes, and every one decoded into the parameter at its place: nothing is
\* done to the cluster for a request that is wrong (dispatch.go:28-65).
Fits(f) ==
    /\ Len(args) = count
    /\ IF f.variadic THEN count >= Len(f.params) - 1 ELSE count = Len(f.params)
    /\ \A i \in 1 .. count :
        args[i] \in {"null", f.params[IF i < Len(f.params) THEN i ELSE Len(f.params)]}

CalledOnlyIfItFits == called => method \in Names /\ Fits(Target)
=============================================================================
