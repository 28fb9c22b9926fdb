------------------------- MODULE MCServerLifecycle -------------------------
(***************************************************************************)
(* Instances of ServerLifecycle: two clients, one of them without the      *)
(* token; two datagrams; one signal.                                       *)
(***************************************************************************)
EXTENDS ServerLifecycle, TLC

CONSTANTS good, bad

MCRequests == good :> "command" @@ bad :> "refused"
=============================================================================
