------------------------------ MODULE MCEngine ------------------------------
(***************************************************************************)
(* Small instances for TLC.  Entry r of a tuple belongs to request r.      *)
(***************************************************************************)
EXTENDS Engine, TLC

CONSTANTS x, y    \* adapters

(* Four requests on a cache that holds any one of them but not two: a      *)
(* prompt in two chunks, two that die early, one without output; two       *)
(* adapters and the base model on one slot.                                *)
MixedInput == <<3, 2, 2, 1>>
MixedOutput == <<3, 2, 3, 0>>
MixedTimeout == <<0, 3, 2, 3>>
MixedAdapter == <<x, y, x, NoAdapter>>
Flat == <<1, 1, 1, 1>>
None == <<0, 0, 0, 0>>
Base == <<NoAdapter, NoAdapter, NoAdapter, NoAdapter>>

(* A background request, a critical one, a standard one with a client      *)
(* budget; the last does not fit the model length at all.                  *)
TierInput == <<1, 2, 1, 6>>
TierOutput == <<5, 3, 4, 1>>
TierBudget == <<0, 0, 4, 0>>
TierPriority == <<5, 0, 1, 0>>
TierTimeout == <<0, 0, 4, 0>>
=============================================================================
