----------------------------- MODULE MCSession ------------------------------
(***************************************************************************)
(* Instances of Session for TLC.  The pins are those of testDefaultSchema  *)
(* (flyspore.cpp:52-85): an entry pin, a processing pin "in" and an OUT    *)
(* pin "out" of the same spore; "in2" is a second processing pin for the   *)
(* instances with fan-out.                                                 *)
(***************************************************************************)
EXTENDS Session, TLC

CONSTANTS c1, c2, k1, k2, k3, k4, k5, entry, in, in2, out

Clients == {c1, c2}
Pins == {entry, in, in2, out}

\* the graph of the demonstration
DemoOut == [p \in Pins |-> IF p \in {entry, out} THEN <<in>> ELSE <<>>]
DemoOutPins == [p \in Pins |-> IF p = in THEN {out} ELSE {}]

\* the entry pin feeds two processing pins, the second of which sends
FanOut == [p \in Pins |-> CASE p = entry -> <<in, in2>>
                            [] p = out -> <<in>>
                            [] OTHER -> <<>>]
FanOutPins == [p \in Pins |-> IF p = in2 THEN {out} ELSE {}]

OneProcess == {in}
TwoProcess == {in, in2}

\* one client of the demonstration, and a second one that joins as well
DemoScript == c1 :> <<"submit", "join">> @@ c2 :> <<"join">>

\* a submit, with a stop and the second join by another client
LiveScript == c1 :> <<"submit", "join">> @@ c2 :> <<"stop", "join">>

Tasks2 == {k1, k2}
Tasks3 == {k1, k2, k3}
Tasks5 == {k1, k2, k3, k4, k5}

TaskSymmetry == Permutations(Task)
=============================================================================
