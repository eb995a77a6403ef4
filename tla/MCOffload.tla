----------------------------- MODULE MCOffload ------------------------------
(***************************************************************************)
(* Four requests over three GPU blocks and two CPU blocks: the second      *)
(* pushes the first one's prompt out of both, and the last two want it     *)
(* back, one after the other.                                              *)
(***************************************************************************)
EXTENDS Offload, TLC

SharedPrompt == <<<<1, 2>>, <<3, 4>>, <<1, 2>>, <<1, 2>>>>
SharedOutput == <<1, 2, 2, 1>>
=============================================================================
