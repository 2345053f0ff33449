-------------------------------- MODULE Calls --------------------------------
(***************************************************************************)
(* Functions without lasting state are checked one call at a time: call    *)
(* holds the function, its arguments and what it returned.                 *)
(***************************************************************************)
VARIABLE call

Idle == [fn |-> "none"]
CallInit == call = Idle
Called(fn, args, result) ==
    /\ call = Idle
    /\ call' = [fn |-> fn, args |-> args, result |-> result]
=============================================================================
