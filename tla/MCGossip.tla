------------------------------ MODULE MCGossip ------------------------------
(***************************************************************************)
(* Instances of Gossip for TLC.                                            *)
(***************************************************************************)
EXTENDS Gossip, TLC

CONSTANTS n1, n2, n3, roster, forum

TwoNodes == {n1, n2}
ThreeNodes == {n1, n2, n3}
TwoAreas == {roster, forum}

\* Every node federates every area.
CarryAll == [n \in Node |-> Area]

\* Strangers hold their own NODE record only; friends hold every one.
Strangers == [n \in Node |-> {n}]
Friends == [n \in Node |-> Node]

\* Whose users write to the forum.
Write1 == [n \in Node |-> IF n = n1 THEN {forum} ELSE {}]
=============================================================================
