------------------------ MODULE VersionVectorProofs ------------------------
(***************************************************************************)
(* The laws of version vectors, for every set of nodes and every bound.    *)
(* Count is a fold over a set and stays with TLC.                          *)
(***************************************************************************)
EXTENDS VersionVector, WellFoundedInduction, TLAPS

\* A non-empty set of numbers has a least element.
LEMMA LeastNat ==
    ASSUME NEW T \in SUBSET Nat, T # {}
    PROVE  \E x \in T : \A y \in T : x =< y
<1> DEFINE R == {ss \in Nat \X Nat : ss[1] < ss[2]}
<1>1. IsWellFoundedOn(R, Nat)
  BY NatLessThanWellFounded, Zenon DEF OpToRel
<1>2. \E x \in T : \A y \in T : ~(<<y, x>> \in R)
  <2> HIDE DEF R
  <2> QED BY <1>1, WFMin
<1>3. PICK x \in T : \A y \in T : ~(<<y, x>> \in R)
  BY <1>2
<1>4. ASSUME NEW y \in T PROVE x =< y
  <2>1. x \in Nat /\ y \in Nat
    OBVIOUS
  <2>2. <<y, x>> \notin R
    BY <1>3
  <2>3. ~(y < x)
    BY <2>1, <2>2
  <2> QED BY <2>1, <2>3
<1> QED BY <1>4

\* Every set of sequence numbers has a contiguous run, and it ends at a gap:
\* the choice GossipStore.Vector makes is well defined.
LEMMA ContiguousPrefix ==
    ASSUME NEW S \in SUBSET (1 .. MaxSeq)
    PROVE  /\ Contiguous(S) \in 0 .. MaxSeq
           /\ 1 .. Contiguous(S) \subseteq S
           /\ Contiguous(S) + 1 \notin S
<1> USE MaxSeqAssumption
<1> DEFINE T == {k \in Nat : k + 1 \notin S}
<1>1. MaxSeq \in T
  OBVIOUS
<1>2. T \in SUBSET Nat /\ T # {}
  BY <1>1
<1>3. \E x \in T : \A y \in T : x =< y
  <2> HIDE DEF T
  <2> QED BY <1>2, LeastNat
<1>4. PICK k \in T : \A y \in T : k =< y
  BY <1>3
<1>5. k \in 0 .. MaxSeq /\ k + 1 \notin S
  BY <1>1, <1>4
<1>6. ASSUME NEW j \in 1 .. k PROVE j \in S
  <2>1. j - 1 \in Nat /\ ~(k =< j - 1)
    BY <1>5
  <2>2. j - 1 \notin T
    BY <1>4, <2>1
  <2>3. (j - 1) + 1 \in S
    BY <2>1, <2>2
  <2> QED BY <2>3, <1>5
<1>7. 1 .. k \subseteq S
  BY <1>6
<1> QED BY <1>5, <1>7 DEF Contiguous

\* The vector of a log is a vector.
LEMMA VectorOfType ==
    ASSUME NEW log \in SUBSET Coord
    PROVE  VectorOf(log) \in Vectors
<1>1. ASSUME NEW o \in Node PROVE Contiguous(SeqsOf(log, o)) \in 0 .. MaxSeq
  BY ContiguousPrefix DEF SeqsOf
<1> QED BY <1>1 DEF VectorOf, Vectors

\* A log's vector claims only records the log holds, and stops at the first
\* gap (GossipStore.Vector).
THEOREM VectorStopsAtFirstGap ==
    ASSUME NEW log \in SUBSET Coord
    PROVE  VectorLaw(log)
<1>1. ASSUME NEW o \in Node
      PROVE  /\ VectorOf(log)[o] \in 0 .. MaxSeq
             /\ 1 .. VectorOf(log)[o] \subseteq SeqsOf(log, o)
             /\ VectorOf(log)[o] + 1 \notin SeqsOf(log, o)
  <2>1. SeqsOf(log, o) \in SUBSET (1 .. MaxSeq)
    BY DEF SeqsOf
  <2>2. VectorOf(log)[o] = Contiguous(SeqsOf(log, o))
    BY DEF VectorOf
  <2> QED BY <2>1, <2>2, ContiguousPrefix
<1>2. ASSUME NEW c \in Covers(VectorOf(log)) PROVE c \in log
  <2>1. /\ c[1] \in Node /\ c[2] \in 1 .. MaxSeq
        /\ c[2] =< VectorOf(log)[c[1]] /\ c = <<c[1], c[2]>>
    BY DEF Covers, Coord
  <2>2. VectorOf(log)[c[1]] \in 0 .. MaxSeq
    BY <1>1, <2>1
  <2>3. c[2] \in 1 .. VectorOf(log)[c[1]]
    BY <2>1, <2>2, MaxSeqAssumption
  <2>4. c[2] \in SeqsOf(log, c[1])
    BY <1>1, <2>1, <2>3
  <2> QED BY <2>1, <2>4 DEF SeqsOf
<1>3. ASSUME NEW o \in Node PROVE <<o, VectorOf(log)[o] + 1>> \notin log
  <2>1. SUFFICES ASSUME <<o, VectorOf(log)[o] + 1>> \in log PROVE FALSE
    OBVIOUS
  <2>2. VectorOf(log)[o] + 1 \in 1 .. MaxSeq
    BY <2>1 DEF Coord
  <2>3. VectorOf(log)[o] + 1 \in SeqsOf(log, o)
    BY <2>1, <2>2 DEF SeqsOf
  <2> QED BY <1>1, <2>3
<1> QED BY <1>2, <1>3 DEF VectorLaw

\* A log that grows has a vector that never goes backwards (vv.Set).
THEOREM VectorGrowsWithLog ==
    ASSUME NEW log \in SUBSET Coord, NEW more \in SUBSET Coord, log \subseteq more
    PROVE  Dominates(VectorOf(more), VectorOf(log))
<1>1. ASSUME NEW o \in Node PROVE VectorOf(more)[o] >= VectorOf(log)[o]
  <2> DEFINE j == VectorOf(log)[o]
             k == VectorOf(more)[o]
  <2>1. j \in 0 .. MaxSeq /\ k \in 0 .. MaxSeq
    BY VectorOfType DEF Vectors
  <2>2. 1 .. j \subseteq SeqsOf(log, o)
    BY ContiguousPrefix DEF SeqsOf, VectorOf
  <2>3. k + 1 \notin SeqsOf(more, o)
    BY ContiguousPrefix DEF SeqsOf, VectorOf
  <2>4. SeqsOf(log, o) \subseteq SeqsOf(more, o)
    BY DEF SeqsOf
  <2>5. k + 1 \notin 1 .. j
    BY <2>2, <2>3, <2>4
  <2> QED BY <2>1, <2>5, MaxSeqAssumption
<1> QED BY <1>1 DEF Dominates

\* Merging is the union of claims (vv.Merge).
THEOREM MergeUnites ==
    ASSUME NEW v \in Vectors, NEW w \in Vectors
    PROVE  MergeLaw(v, w)
<1>1. ASSUME NEW c \in Coord
      PROVE  c[2] =< Merged(v, w)[c[1]] <=> (c[2] =< v[c[1]] \/ c[2] =< w[c[1]])
  <2>1. c[1] \in Node /\ c[2] \in Int /\ v[c[1]] \in Int /\ w[c[1]] \in Int
    BY MaxSeqAssumption DEF Coord, Vectors
  <2>2. Merged(v, w)[c[1]] = Larger(v[c[1]], w[c[1]])
    BY <2>1 DEF Merged
  <2> QED BY <2>1, <2>2 DEF Larger
<1> QED BY <1>1 DEF MergeLaw, Covers

\* Domination is inclusion of claims (vv.Dominates).
THEOREM DominatesIncludes ==
    ASSUME NEW v \in Vectors, NEW w \in Vectors
    PROVE  DominatesLaw(v, w)
<1>1. ASSUME Dominates(v, w), NEW c \in Covers(w) PROVE c \in Covers(v)
  <2>1. c \in Coord /\ c[1] \in Node /\ c[2] \in Int /\ c[2] =< w[c[1]]
    BY DEF Covers, Coord
  <2>2. v[c[1]] \in Int /\ w[c[1]] \in Int /\ v[c[1]] >= w[c[1]]
    BY <1>1, <2>1, MaxSeqAssumption DEF Dominates, Vectors
  <2> QED BY <2>1, <2>2 DEF Covers
<1>2. ASSUME Covers(w) \subseteq Covers(v), NEW o \in Node PROVE v[o] >= w[o]
  <2>1. v[o] \in 0 .. MaxSeq /\ w[o] \in 0 .. MaxSeq
    BY DEF Vectors
  <2>2. CASE w[o] = 0
    BY <2>1, <2>2
  <2>3. CASE w[o] # 0
    <3>1. w[o] \in 1 .. MaxSeq
      BY <2>1, <2>3
    <3>2. <<o, w[o]>> \in Covers(w)
      BY <3>1 DEF Covers, Coord
    <3>3. <<o, w[o]>> \in Covers(v)
      BY <1>2, <3>2
    <3> QED BY <3>3, <2>1 DEF Covers
  <2> QED BY <2>2, <2>3
<1> QED BY <1>1, <1>2 DEF DominatesLaw, Dominates

\* A delta request is well formed.
LEMMA MissingType ==
    ASSUME NEW v \in Vectors, NEW w \in Vectors
    PROVE  Missing(v, w) \in SUBSET Ranges
<1>1. ASSUME NEW o \in Node, w[o] > v[o]
      PROVE  v[o] + 1 \in 1 .. MaxSeq /\ w[o] \in 1 .. MaxSeq
  BY <1>1, MaxSeqAssumption DEF Vectors
<1> QED BY <1>1 DEF Missing, Ranges

\* A delta request asks for exactly the records the peer claims and we do
\* not (vv.Missing).
THEOREM MissingIsExact ==
    ASSUME NEW v \in Vectors, NEW w \in Vectors
    PROVE  MissingLaw(v, w)
<1>1. ASSUME NEW c \in Coord
      PROVE  (\E r \in Missing(v, w) : InRange(c, r)) <=> (c \in Covers(w) /\ c \notin Covers(v))
  <2> DEFINE o == c[1]
             s == c[2]
  <2>1. o \in Node /\ s \in 1 .. MaxSeq /\ v[o] \in 0 .. MaxSeq /\ w[o] \in 0 .. MaxSeq
    BY DEF Coord, Vectors
  <2>2. (c \in Covers(w) /\ c \notin Covers(v)) <=> (s =< w[o] /\ ~(s =< v[o]))
    BY DEF Covers
  <2>3. ASSUME NEW r \in Missing(v, w), InRange(c, r)
        PROVE  s =< w[o] /\ ~(s =< v[o])
    <3>1. PICK p \in Node : w[p] > v[p] /\ r = [origin |-> p, from |-> v[p] + 1, to |-> w[p]]
      BY DEF Missing
    <3>2. o = p /\ v[p] + 1 =< s /\ s =< w[p]
      BY <2>3, <3>1 DEF InRange
    <3> QED BY <2>1, <3>2
  <2>4. ASSUME s =< w[o], ~(s =< v[o])
        PROVE  \E r \in Missing(v, w) : InRange(c, r)
    <3> DEFINE r == [origin |-> o, from |-> v[o] + 1, to |-> w[o]]
    <3>1. w[o] > v[o] /\ v[o] + 1 =< s
      BY <2>1, <2>4
    <3>2. r \in Missing(v, w)
      BY <2>1, <3>1 DEF Missing
    <3>3. InRange(c, r)
      BY <2>4, <3>1 DEF InRange
    <3> QED BY <3>2, <3>3
  <2> QED BY <2>2, <2>3, <2>4
<1> QED BY <1>1 DEF MissingLaw, Covers

=============================================================================
