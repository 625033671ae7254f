------------------------- MODULE MCServerLifecycle --------------------------
(* The instance of ServerLifecycle TLC checks: two servers, of which one    *)
(* purges its store at the start and is followed to its end.               *)
EXTENDS ServerLifecycle
=============================================================================
