------------------------------ MODULE MCContexts ------------------------------
(***************************************************************************)
(* Context names of which one is the beginning of another, one has a colon *)
(* in it and one is empty; what can be asked for is these, and a name of   *)
(* no context.  Two IDs, one with a colon.                                 *)
(***************************************************************************)
EXTENDS Contexts

MCChars == {"a", "b", ":"}
MCContextNames == {<<"a">>, <<"a", "b">>, <<"a", ":", "b">>, <<>>}
MCAskedNames == MCContextNames \cup {<<"b">>}
MCIDs == {<<"b">>, <<"b", ":", "a">>}
=============================================================================
