----------------------------- MODULE MCWorkload -----------------------------
(* Workload on small specs: windows that overlap or are listed out of order,
   sessions that overtake each other, caps that cut a session in half. *)
EXTENDS Workload, TLC

Cl(kind, closed, win, rounds, think) ==
    [kind |-> kind, closed |-> closed, win |-> win, rounds |-> rounds, think |-> think,
     frac |-> 1, users |-> IF kind = "conc" THEN 2 ELSE 0, acc |-> kind = "multi", prefix |-> 1]
Win(s, e, tr) == [s |-> s, e |-> e, tr |-> tr]
MCNone == -1      \* NoRate, Bad and NoReset
Plain == <<>>
Early == <<Win(1, 3, NoRate), Win(2, 5, NoRate)>>
Backwards == <<Win(5, 9, 1), Win(0, 2, NoRate), Win(1, 3, 1)>>

Specs == {
    <<Cl("shot", "unset", Early, 0, 0), Cl("shot", "yes", Plain, 0, 0)>>,
    <<Cl("multi", "unset", Plain, 3, 1), Cl("shot", "unset", Plain, 0, 0)>>,
    <<Cl("multi", "no", Early, 2, 2), Cl("single", "unset", Early, 2, 0)>>,
    <<Cl("conc", "unset", Plain, 0, 2), Cl("shot", "unset", Plain, 0, 0)>>,
    <<Cl("conc", "unset", Plain, 0, 2), Cl("multi", "unset", Plain, 2, 1)>>}
Varying == {
    <<Cl("multi", "unset", Backwards, 2, 1), Cl("shot", "unset", Plain, 0, 0)>>,
    <<Cl("shot", "unset", Backwards, 0, 0), Cl("single", "no", Early, 2, 1)>>}

Draw(iat, gap) == [iat |-> iat, gap |-> gap]
Draws == {Draw(<<1, 1, 1, 2>>, <<3, 1>>), Draw(<<2, 3>>, <<1>>), Draw(<<2, 1>>, <<1, Bad>>)}

MCWorkloads ==
    {[cs |-> cs, agg |-> 2, ds |-> ds, max |-> m] : cs \in Specs, ds \in [1..2 -> Draws], m \in {0, 2, 3}}
    \cup {[cs |-> cs, agg |-> a, ds |-> ds, max |-> m] : cs \in Varying, a \in {0, 2}, ds \in [1..2 -> Draws], m \in {0, 3}}

Round(in, o, gap) == [abs |-> in, out |-> o, think |-> gap]
S1 == <<"a", 0>>
S2 == <<"b", 0>>
MCCorpora ==
    {[ids |-> <<S1, S2>>, prefix |-> p, acc |-> a,
      rounds |-> (S1 :> <<Round(1, 1, 0), Round(3, 1, 1), Round(2, 1, 0)>>) @@ (S2 :> <<Round(2, 1, 0), Round(3, 0, 1)>>)]
        : p \in {0, 1}, a \in BOOLEAN}
MCPools == {[concurrent |-> 2, total |-> 3], [concurrent |-> 1, total |-> 3]}
=============================================================================
