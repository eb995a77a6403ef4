----------------------------- MODULE MCKVCache -----------------------------
(***************************************************************************)
(* A small cache for TLC.  No prompt fills its last block, the prompt of   *)
(* r2 continues where the output of r1 ends (a later turn of the same      *)
(* session), and r3 shares nothing.                                        *)
(***************************************************************************)
EXTENDS KVCache, TLC

CONSTANTS r1, r2, r3

SessionInput == (r1 :> <<1, 1, 2>>) @@ (r2 :> <<1, 1, 2, 2, 1>>) @@ (r3 :> <<2>>)
SessionOutput == (r1 :> <<2, 1>>) @@ (r2 :> <<1>>) @@ (r3 :> <<1, 1>>)
=============================================================================
