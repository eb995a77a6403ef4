------------------------------ MODULE Emission ------------------------------
(***************************************************************************)
(* What a request source promises (cluster.RequestSource): the requests of *)
(* the eager plan, each once and in plan order, then the end of the        *)
(* source.  A plan whose generation fails promises only an order by        *)
(* arrival time; the caller must then find the error.                      *)
(***************************************************************************)
EXTENDS Naturals, Sequences

VARIABLES plan,         \* [requests, bad]
          emitted,      \* what Next returned so far
          finished,     \* Next returned false
          candidates    \* the requests a failing plan may still hand out
vars == <<plan, emitted, finished, candidates>>

Init == emitted = <<>> /\ finished = FALSE

InOrder(r) == emitted # <<>> => emitted[Len(emitted)].at <= r.at
EmitPlanned ==
    /\ ~plan.bad /\ Len(emitted) < Len(plan.requests)
    /\ emitted' = Append(emitted, plan.requests[Len(emitted) + 1])
EmitOther == plan.bad /\ \E r \in candidates : InOrder(r) /\ emitted' = Append(emitted, r)
Emit == ~finished /\ (EmitPlanned \/ EmitOther) /\ UNCHANGED <<plan, finished>>

Finish ==
    /\ ~finished
    /\ plan.bad \/ Len(emitted) = Len(plan.requests)
    /\ finished' = TRUE
    /\ UNCHANGED <<plan, emitted>>

Next == Emit \/ Finish
Spec == Init /\ [][Next]_<<plan, emitted, finished>> /\ <>finished
=============================================================================
