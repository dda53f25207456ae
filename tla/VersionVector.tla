--------------------------- MODULE VersionVector ---------------------------
(***************************************************************************)
(* Per-area version vectors (internal/vv) and the contiguous high-water    *)
(* marks the store derives them from (internal/store/gossipstore.go).      *)
(*                                                                         *)
(* A record is known here by its coordinate <<origin, seq>> inside one     *)
(* area.  A Go vector is a map from origins to positive numbers in which   *)
(* an absent origin reads as zero; it is modelled by the total function    *)
(* that Get computes.  The four-byte Hash is modelled by the vector        *)
(* itself, so two vectors have the same hash exactly when they are equal.  *)
(***************************************************************************)
EXTENDS Integers, FiniteSets
LOCAL INSTANCE FiniteSetsExt

CONSTANTS Node,    \* identity.NodeID: origins of records and gossip peers
          MaxSeq   \* bound: the largest sequence number of an area

ASSUME MaxSeqAssumption == MaxSeq \in Nat \ {0}

Coord == Node \X (1 .. MaxSeq)

Vectors == [Node -> 0 .. MaxSeq]

\* An origin's stretch of sequence numbers, both ends included.
Ranges == [origin : Node, from : 1 .. MaxSeq, to : 1 .. MaxSeq]

Empty == [o \in Node |-> 0]

Larger(x, y) == IF x >= y THEN x ELSE y

Set(v, origin, seq) == [v EXCEPT ![origin] = Larger(@, seq)]

Merged(a, b) == [o \in Node |-> Larger(a[o], b[o])]

Dominates(v, other) == \A o \in Node : v[o] >= other[o]

\* Mutant: a range runs to the end of the area.
MissingOpenEnded(v, other) ==
    {[origin |-> o, from |-> v[o] + 1, to |-> MaxSeq] :
        o \in {p \in Node : other[p] > v[p]}}

\* The ranges v needs from other.
Missing(v, other) ==
    {[origin |-> o, from |-> v[o] + 1, to |-> other[o]] :
        o \in {p \in Node : other[p] > v[p]}}

\* The number of records a vector accounts for.
Count(v) == MapThenSumSet(LAMBDA o : v[o], Node)

----------------------------------------------------------------------------
(* What vectors and ranges say about records. *)

\* The records a vector claims are held.
Covers(v) == {c \in Coord : c[2] =< v[c[1]]}

InRange(c, r) == c[1] = r.origin /\ r.from =< c[2] /\ c[2] =< r.to

\* The sequence numbers of one origin in a log.
SeqsOf(log, origin) == {s \in 1 .. MaxSeq : <<origin, s>> \in log}

\* Mutant: the highest number, gaps or not.
Highest(S) == IF S = {} THEN 0 ELSE Max(S)

\* The length of the run 1, 2, ... that a set of sequence numbers starts with.
Contiguous(S) == CHOOSE k \in 0 .. MaxSeq : 1 .. k \subseteq S /\ k + 1 \notin S

\* GossipStore.Vector: holding 1, 2 and 4 puts the entry at 2.
VectorOf(log) == [o \in Node |-> Contiguous(SeqsOf(log, o))]

----------------------------------------------------------------------------
(* The laws the engine relies on, against the sets of records meant. *)

\* Merging vectors unites what they claim.
MergeLaw(v, w) == Covers(Merged(v, w)) = Covers(v) \cup Covers(w)

\* Dominating means claiming at least as much.
DominatesLaw(v, w) == Dominates(v, w) <=> Covers(w) \subseteq Covers(v)

\* The missing ranges are exactly the records only the other vector claims.
MissingLaw(v, w) ==
    {c \in Coord : \E r \in Missing(v, w) : InRange(c, r)} = Covers(w) \ Covers(v)

\* A log's vector claims only what the log holds, and stops at a gap.
VectorLaw(log) ==
    /\ Covers(VectorOf(log)) \subseteq log
    /\ \A o \in Node : <<o, VectorOf(log)[o] + 1>> \notin log

\* The count is the number of records claimed.
CountLaw(v) == Count(v) = Cardinality(Covers(v))

=============================================================================
