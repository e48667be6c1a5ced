------------------------------ MODULE MCDispatch ------------------------------
(***************************************************************************)
(* main's methods, and functions like those of cpi/dispatch_test.go: a     *)
(* variadic one, and two whose results newResponse does not take.          *)
(***************************************************************************)
EXTENDS Dispatch

MCDelegates ==
    [ VariadicStrings     |-> [params |-> <<"string", "object">>, variadic |-> TRUE,
                               results |-> <<"value", "error">>],
      TooManyReturnValues |-> Function(<< >>, <<"value", "value", "error">>),
      LastNotError        |-> Function(<< >>, <<"value", "value">>) ]
=============================================================================
