----------------------------- MODULE MCObserve ------------------------------
(***************************************************************************)
(* Small instances for TLC.                                                *)
(***************************************************************************)
EXTENDS Observe

CONSTANTS chat1, chat2, chat3, openChat    \* openChat is open-loop, the others are closed-loop or pooled

(* Two sessions around a request of none.                                  *)
ClosedLoop ==
  [source |-> <<Request(chat1, 0), Request(NoSession, 2), Request(chat2, 0)>>,
   pool |-> <<>>, managed |-> {chat1, chat2}]

(* A closed-loop session and two rounds of an open-loop one.               *)
Mixed ==
  [source |-> <<Request(chat1, 0), Request(openChat, 0), Request(openChat, 1)>>,
   pool |-> <<>>, managed |-> {chat1}]

(* Two pooled sessions wait for the first to end.                          *)
Pooled ==
  [source |-> <<Request(chat1, 0)>>, pool |-> <<chat2, chat3>>, managed |-> {chat1, chat2, chat3}]

ClosedLoopOnly == {ClosedLoop}
AllWorkloads == {ClosedLoop, Mixed, Pooled}
=============================================================================
