--------------------------- MODULE ReplicatedLog ---------------------------
(***************************************************************************)
(* What the record log and its federation promise (docs/design.md, 6.2.1   *)
(* and 7.3), without messages: only an author creates a record, under a    *)
(* number it reserved before and that no record anywhere has; a node       *)
(* otherwise only gains records that some node holds; nothing is lost.     *)
(***************************************************************************)
EXTENDS Integers

CONSTANTS Node, Area, MaxSeq, InitHeld, InitReserved

VARIABLES held,      \* held[n][a]: the <<origin, seq>> coordinates n holds
          reserved   \* reserved[n][a]: the last number n reserved

rlVars == <<held, reserved>>

Init == held = InitHeld /\ reserved = InitReserved

Reserve(n, a) ==
    /\ reserved' = [reserved EXCEPT ![n][a] = @ + 1]
    /\ UNCHANGED held

Create(n, a, s) ==
    /\ s =< reserved[n][a]
    /\ \A m \in Node : <<n, s>> \notin held[m][a]
    /\ held' = [held EXCEPT ![n][a] = @ \cup {<<n, s>>}]
    /\ UNCHANGED reserved

Copy(n, a, records) ==
    /\ records \subseteq UNION {held[m][a] : m \in Node}
    /\ held' = [held EXCEPT ![n][a] = @ \cup records]
    /\ UNCHANGED reserved

Next ==
    \E n \in Node, a \in Area :
       \/ Reserve(n, a)
       \/ \E s \in 1 .. MaxSeq : Create(n, a, s)
       \/ \E records \in SUBSET (Node \X (1 .. MaxSeq)) : Copy(n, a, records)

Spec == Init /\ [][Next]_rlVars
=============================================================================
