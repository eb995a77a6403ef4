------------------------------ MODULE MCDisagg ------------------------------
(* Model values of Disagg for TLC.                                         *)
EXTENDS Disagg

(* One prefill pod, one pod of both roles, one encode pod.                 *)
SmallCaches == <<3, 5, 1>>
Prompts == <<2, 2, 4>>
Outputs == <<3, 1, 1>>
Deadlines == <<0, 5, 0>>

(* Two requests whose reservations fill the decode pod.                    *)
TightCaches == <<4, 4>>
EvenPrompts == <<2, 2>>
EvenOutputs == <<2, 2>>
NoDeadlines == <<0, 0>>
=============================================================================
