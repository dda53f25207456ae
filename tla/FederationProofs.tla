------------------------- MODULE FederationProofs --------------------------
(***************************************************************************)
(* Proofs about what passes between boards, for every number of nodes,     *)
(* bundles, stations, accounts and ticks.  Each part has an inductive      *)
(* invariant of its own, and a step of one part leaves the others alone.   *)
(***************************************************************************)
EXTENDS MCFederation, VersionVectorProofs, FiniteSetTheorems, TLAPS

----------------------------------------------------------------------------
(***************************************************************************)
(* A carrier that is imported to the end spares its board a second trip.   *)
(***************************************************************************)
\* What a carrier has in its bundles.
Goods(c) == {x \in Coord : \E i \in DOMAIN c.bundles : x \in c.bundles[i]}

\* An import command at work.
Imports == [on : {TRUE}, next : Nat \ {0}, clean : BOOLEAN, carrier : carriers]

\* A carrier claims what its writer holds, and has all of it that the board it
\* answers did not claim; an import has applied what it has passed, unless it
\* skipped some; what was imported in full is held.
TripInv ==
    /\ held \in [Node -> SUBSET Coord]
    /\ imported \in [Node -> SUBSET carriers]
    /\ job \in [Node -> {NoJob} \cup Imports]
    /\ \A c \in carriers :
          /\ c.bundles \in Seq(SUBSET Coord) /\ c.vector \in Vectors
          /\ c.from \in Node /\ Covers(c.vector) \subseteq held[c.from]
          /\ c.to = Anybody => Covers(c.vector) \subseteq Goods(c)
          /\ c.to # Anybody => c.to \in Node /\ Covers(c.vector) \subseteq Goods(c) \cup held[c.to]
    /\ \A n \in Node : job[n].on /\ job[n].clean =>
          \A i \in DOMAIN job[n].carrier.bundles :
             i < job[n].next => job[n].carrier.bundles[i] \subseteq held[n]
    /\ \A n \in Node : \A c \in imported[n] : Goods(c) \subseteq held[n]

\* A log that holds what a vector claims has a vector that claims as much.
LEMMA HoldingDominates ==
    ASSUME NEW log \in SUBSET Coord, NEW v \in Vectors, Covers(v) \subseteq log
    PROVE  Dominates(VectorOf(log), v)
<1>1. VectorOf(log) \in Vectors /\ VectorLaw(log)
  BY VectorOfType, VectorStopsAtFirstGap
<1>2. ASSUME NEW o \in Node PROVE VectorOf(log)[o] >= v[o]
  <2> DEFINE k == VectorOf(log)[o]
  <2>1. k \in 0 .. MaxSeq /\ v[o] \in 0 .. MaxSeq
    BY <1>1 DEF Vectors
  <2>2. <<o, k + 1>> \notin log
    BY <1>1 DEF VectorLaw
  <2>3. ASSUME k < v[o] PROVE <<o, k + 1>> \in Covers(v)
    BY <2>1, <2>3, MaxSeqAssumption DEF Covers, Coord
  <2> QED BY <2>1, <2>2, <2>3
<1> QED BY <1>2 DEF Dominates

\* The sequences that list a set.
Listings(S) ==
    {sq \in [1 .. Cardinality(S) -> S] : \A x \in S : \E i \in DOMAIN sq : sq[i] = x}

\* A finite set can be listed: what RecordsFor chooses is there.
LEMMA ListingExists ==
    ASSUME NEW U, IsFiniteSet(U)
    PROVE  \A S \in SUBSET U : Listings(S) # {}
<1> DEFINE Bare == {S \in SUBSET U : Listings(S) = {}}
           T == {Cardinality(S) : S \in Bare}
<1>1. \A S \in SUBSET U : IsFiniteSet(S) /\ Cardinality(S) \in Nat
  BY FS_Subset, FS_CardinalityType
<1>2. SUFFICES ASSUME T # {} PROVE FALSE
  OBVIOUS
<1>3. T \in SUBSET Nat
  BY <1>1
<1>4. PICK m \in T : \A k \in T : m =< k
  <2> HIDE DEF T
  <2> QED BY <1>2, <1>3, LeastNat
<1>5. PICK S \in SUBSET U : Listings(S) = {} /\ Cardinality(S) = m
  BY <1>4
<1>6. S # {}
  <2> SUFFICES ASSUME S = {} PROVE FALSE
    OBVIOUS
  <2>1. Cardinality(S) = 0
    BY FS_EmptySet
  <2>2. [i \in 1 .. 0 |-> i] \in [1 .. 0 -> S]
    OBVIOUS
  <2> QED BY <1>5, <2>1, <2>2 DEF Listings
<1>7. PICK x \in S : TRUE
  BY <1>6
<1> DEFINE R == S \ {x}
<1>8. R \in SUBSET U /\ Cardinality(R) = m - 1 /\ m \in Nat /\ m - 1 \in Nat
  BY <1>1, <1>5, <1>7, FS_RemoveElement
<1>9. Listings(R) # {}
  <2> HIDE DEF R
  <2> SUFFICES ASSUME Listings(R) = {} PROVE FALSE
    OBVIOUS
  <2>1. m - 1 \in T
    BY <1>8
  <2> QED BY <1>4, <1>8, <2>1
<1>10. PICK sq \in Listings(R) : TRUE
  BY <1>9
<1> DEFINE longer == [i \in 1 .. m |-> IF i = m THEN x ELSE sq[i]]
<1>11. sq \in [1 .. m - 1 -> R] /\ \A y \in R : \E i \in 1 .. m - 1 : sq[i] = y
  BY <1>8, <1>10 DEF Listings
<1>12. longer \in [1 .. m -> S]
  BY <1>7, <1>8, <1>11
<1>13. ASSUME NEW y \in S PROVE \E i \in 1 .. m : longer[i] = y
  <2>1. CASE y = x
    <3>1. m \in 1 .. m /\ longer[m] = x
      BY <1>8
    <3> QED BY <2>1, <3>1
  <2>2. CASE y # x
    <3>1. PICK i \in 1 .. m - 1 : sq[i] = y
      BY <1>11, <2>2
    <3>2. i \in 1 .. m /\ i # m
      BY <1>8
    <3>3. longer[i] = sq[i]
      BY <3>2
    <3> QED BY <3>1, <3>2, <3>3
  <2> QED BY <2>1, <2>2
<1> QED BY <1>5, <1>12, <1>13 DEF Listings

LEMMA CoordIsFinite == IsFiniteSet(Coord)
<1>1. IsFiniteSet(1 .. MaxSeq)
  BY MaxSeqAssumption, FS_Interval
<1> QED BY <1>1, CarrierAssumption, FS_Product DEF Coord

\* The records of an answer are the ones the other vector does not claim.
LEMMA RecordsForIsExact ==
    ASSUME NEW theirs \in Vectors, NEW mine \in Vectors
    PROVE  /\ RecordsFor(theirs, mine) \in Seq(Coord)
           /\ \A x \in Covers(mine) \ Covers(theirs) :
                 \E i \in DOMAIN RecordsFor(theirs, mine) : RecordsFor(theirs, mine)[i] = x
<1> DEFINE S == {c \in Coord : \E rg \in Missing(theirs, mine) : InRange(c, rg)}
<1>1. S = Covers(mine) \ Covers(theirs)
  BY MissingIsExact DEF MissingLaw
<1>2. IsFiniteSet(S)
  BY CoordIsFinite, FS_Subset
<1>3. Cardinality(S) \in Nat
  BY <1>2, FS_CardinalityType
<1>4. RecordsFor(theirs, mine) \in Listings(S)
  <2>1. RecordsFor(theirs, mine) =
           CHOOSE sq \in [1 .. Cardinality(S) -> S] : \A x \in S : \E i \in DOMAIN sq : sq[i] = x
    BY DEF RecordsFor
  <2> HIDE DEF S
  <2>2. Listings(S) # {}
    BY <1>2, ListingExists
  <2> QED BY <2>1, <2>2 DEF Listings
<1>5. S \subseteq Coord
  OBVIOUS
<1> HIDE DEF S
<1>6. RecordsFor(theirs, mine) \in Seq(Coord)
  BY <1>3, <1>4, <1>5 DEF Listings
<1> QED BY <1>1, <1>4, <1>6 DEF Listings

\* Whole division from below and from above.
LEMMA DivBounds ==
    ASSUME NEW xx \in Nat, NEW dv \in Nat \ {0}
    PROVE  xx \div dv \in Nat /\ (xx \div dv) * dv =< xx /\ xx < (xx \div dv + 1) * dv
OBVIOUS

LEMMA DivStep ==
    ASSUME NEW dv \in Nat \ {0}, NEW xx \in Nat, NEW yy \in Nat, xx + dv =< yy
    PROVE  xx \div dv + 1 =< yy \div dv
<1> DEFINE qx == xx \div dv
           qy == yy \div dv
<1>1. qx \in Nat /\ qy \in Nat /\ qx * dv =< xx /\ yy < (qy + 1) * dv
  BY DivBounds
<1> HIDE DEF qx, qy
<1>2. (qx + 1) * dv = qx * dv + dv
  BY <1>1
<1>3. (qx + 1) * dv < (qy + 1) * dv
  BY <1>1, <1>2
<1>4. qx + 1 < qy + 1
  BY <1>1, <1>3
<1> QED BY <1>1, <1>4 DEF qx, qy

\* Packing loses no record, the last batch included.
LEMMA PackKeepsAll ==
    ASSUME NEW recs \in Seq(Coord)
    PROVE  /\ Pack(recs) \in Seq(SUBSET Coord)
           /\ \A i \in DOMAIN recs : \E bt \in DOMAIN Pack(recs) : recs[i] \in Pack(recs)[bt]
<1> DEFINE bn == Batches(recs)
<1>1. BundleRecords \in Nat \ {0}
  BY CarrierAssumption
<1>2. Len(recs) \in Nat /\ DOMAIN recs = 1 .. Len(recs)
  OBVIOUS
<1>3. bn \in Nat
  <2>1. Len(recs) + BundleRecords - 1 \in Nat
    BY <1>1, <1>2
  <2> QED BY <1>1, <2>1 DEF Batches
<1>4. Pack(recs) \in [1 .. bn -> SUBSET Coord]
  BY DEF Pack
<1>5. Pack(recs) \in Seq(SUBSET Coord)
  <2> HIDE DEF bn
  <2> QED BY <1>3, <1>4
<1>6. ASSUME NEW i \in DOMAIN recs
      PROVE  \E bt \in DOMAIN Pack(recs) : recs[i] \in Pack(recs)[bt]
  <2> DEFINE qt == (i - 1) \div BundleRecords
  <2>1. i \in 1 .. Len(recs)
    BY <1>2, <1>6
  <2>2. qt \in Nat /\ qt * BundleRecords =< i - 1
    BY <1>1, <1>2, <2>1
  <2>3. qt + 1 =< bn
    <3>1. (i - 1) + BundleRecords =< Len(recs) + BundleRecords - 1
      BY <1>1, <1>2, <2>1
    <3>2. i - 1 \in Nat /\ Len(recs) + BundleRecords - 1 \in Nat
      BY <1>1, <1>2, <2>1
    <3>3. (i - 1) \div BundleRecords + 1 =< (Len(recs) + BundleRecords - 1) \div BundleRecords
      BY <1>1, <3>1, <3>2, DivStep
    <3> QED BY <3>3 DEF Batches
  <2>4. qt + 1 \in 1 .. bn
    BY <1>3, <2>2, <2>3
  <2>5. recs[i] \in Pack(recs)[qt + 1]
    BY <1>6, <2>2, <2>4 DEF Pack
  <2> QED BY <1>4, <2>4, <2>5
<1> QED BY <1>5, <1>6

----------------------------------------------------------------------------
LEMMA TripStarts == SneakInit => TripInv
BY DEF SneakInit, TripInv, NoJob

\* An answer to what somebody claims and holds keeps the invariant.
LEMMA ExportKeeps ==
    ASSUME TripInv, NEW n \in Node, NEW to, NEW theirs \in Vectors, NEW bodies,
           ExportCarrier(n, to, theirs, bodies),
           \/ to = Anybody /\ theirs = Empty
           \/ to \in Node /\ Covers(theirs) \subseteq held[to]
    PROVE  TripInv'
<1> DEFINE mine == VectorOf(held[n])
           cc == [from |-> n, to |-> to, vector |-> mine, min |-> dict[n],
                  bundles |-> Pack(RecordsFor(theirs, mine)), bodies |-> bodies]
<1>1. held[n] \in SUBSET Coord
  BY DEF TripInv
<1>2. mine \in Vectors /\ Covers(mine) \subseteq held[n]
  BY <1>1, VectorOfType, VectorStopsAtFirstGap DEF VectorLaw
<1>3. /\ Pack(RecordsFor(theirs, mine)) \in Seq(SUBSET Coord)
      /\ Covers(mine) \ Covers(theirs) \subseteq Goods(cc)
  <2> HIDE DEF mine
  <2>1. RecordsFor(theirs, mine) \in Seq(Coord)
    BY <1>2, RecordsForIsExact
  <2>2. Pack(RecordsFor(theirs, mine)) \in Seq(SUBSET Coord)
    BY <2>1, PackKeepsAll
  <2>3. ASSUME NEW x \in Covers(mine) \ Covers(theirs) PROVE x \in Goods(cc)
    <3>1. PICK i \in DOMAIN RecordsFor(theirs, mine) : RecordsFor(theirs, mine)[i] = x
      BY <1>2, RecordsForIsExact
    <3>2. PICK bt \in DOMAIN Pack(RecordsFor(theirs, mine)) :
             x \in Pack(RecordsFor(theirs, mine))[bt]
      BY <2>1, <3>1, PackKeepsAll
    <3> QED BY <3>2 DEF Goods, Covers
  <2> QED BY <2>2, <2>3
<1>4. carriers' = carriers \cup {cc} /\ UNCHANGED <<held, dict, job, imported>>
  BY DEF ExportCarrier
<1>5. Covers(Empty) = {}
  BY MaxSeqAssumption DEF Covers, Empty, Coord
<1>6. /\ cc.bundles \in Seq(SUBSET Coord) /\ cc.vector \in Vectors
      /\ cc.from \in Node /\ Covers(cc.vector) \subseteq held[cc.from]
      /\ cc.to = Anybody => Covers(cc.vector) \subseteq Goods(cc)
      /\ cc.to # Anybody => cc.to \in Node /\ Covers(cc.vector) \subseteq Goods(cc) \cup held[cc.to]
  <2> HIDE DEF mine
  <2> QED BY <1>2, <1>3, <1>5, CarrierAssumption DEF Anybody
<1> HIDE DEF cc
<1> QED BY <1>4, <1>6 DEF TripInv, Goods, Imports

LEMMA RunningImport ==
    ASSUME TripInv, NEW n \in Node, job[n].on
    PROVE  /\ job[n] \in Imports
           /\ job[n].next \in Nat \ {0} /\ job[n].carrier \in carriers
           /\ job[n].clean \in BOOLEAN
<1>1. job[n] \in {NoJob} \cup Imports
  BY DEF TripInv
<1>2. job[n] # NoJob
  BY DEF NoJob
<1>3. job[n] \in Imports
  BY <1>1, <1>2
<1> QED BY <1>3 DEF Imports

LEMMA NextOfImport ==
    ASSUME NEW jb \in Imports
    PROVE  /\ [jb EXCEPT !.next = @ + 1] \in Imports
           /\ [jb EXCEPT !.next = @ + 1, !.clean = FALSE] \in Imports
<1>1. jb.next + 1 \in Nat \ {0}
  BY DEF Imports
<1>2. [jb EXCEPT !.next = @ + 1] \in Imports
  BY <1>1 DEF Imports
<1>3. ASSUME NEW jk \in Imports PROVE [jk EXCEPT !.clean = FALSE] \in Imports
  BY DEF Imports
<1> QED BY <1>2, <1>3

LEMMA TripSteps == TripInv /\ [SneakNext]_sneakVars => TripInv'
<1> SUFFICES ASSUME TripInv, [SneakNext]_sneakVars PROVE TripInv'
  OBVIOUS
<1>1. CASE UNCHANGED sneakVars
  BY <1>1 DEF sneakVars, TripInv, Goods, Imports
<1>2. ASSUME NEW n \in Node, Write(n) PROVE TripInv'
  <2> DEFINE seq == Cardinality(SeqsOf(held[n], n)) + 1
  <2>1. seq =< MaxSeq /\ held' = [held EXCEPT ![n] = @ \cup {<<n, seq>>}]
        /\ UNCHANGED <<dict, carriers, job, imported>>
    BY <1>2 DEF Write
  <2>2. seq \in 1 .. MaxSeq
    <3>1. IsFiniteSet(SeqsOf(held[n], n))
      <4>1. IsFiniteSet(1 .. MaxSeq) /\ SeqsOf(held[n], n) \subseteq 1 .. MaxSeq
        BY MaxSeqAssumption, FS_Interval DEF SeqsOf
      <4> QED BY <4>1, FS_Subset
    <3> QED BY <2>1, <3>1, FS_CardinalityType, MaxSeqAssumption
  <2> HIDE DEF seq
  <2>3. held' \in [Node -> SUBSET Coord] /\ \A m \in Node : held[m] \subseteq held'[m]
    BY <2>1, <2>2 DEF TripInv, Coord
  <2> QED BY <2>1, <2>3 DEF TripInv, Goods, Imports
<1>3. ASSUME NEW n \in Node, Upgrade(n) PROVE TripInv'
  BY <1>3 DEF Upgrade, TripInv, Goods, Imports
<1>4. ASSUME NEW n \in Node, ApplyBundle(n) PROVE TripInv'
  <2> DEFINE nx == job[n].next
             cc == job[n].carrier
  <2>1. /\ job[n].on /\ nx =< Len(cc.bundles)
        /\ held' = [held EXCEPT ![n] = @ \cup cc.bundles[nx]]
        /\ job' = [job EXCEPT ![n].next = @ + 1]
        /\ UNCHANGED <<dict, carriers, imported>>
    BY <1>4 DEF ApplyBundle, More
  <2>2. nx \in Nat \ {0} /\ cc \in carriers /\ cc.bundles \in Seq(SUBSET Coord)
    BY <2>1, RunningImport DEF TripInv
  <2>3. nx \in DOMAIN cc.bundles /\ cc.bundles[nx] \in SUBSET Coord
    BY <2>1, <2>2
  <2> HIDE DEF nx, cc
  <2>4. held' \in [Node -> SUBSET Coord] /\ \A m \in Node : held[m] \subseteq held'[m]
    BY <2>1, <2>3 DEF TripInv
  <2>5. job' \in [Node -> {NoJob} \cup Imports]
    <3>1. job' = [job EXCEPT ![n] = [job[n] EXCEPT !.next = @ + 1]]
      BY <2>1
    <3>2. job[n] \in Imports
      BY <2>1, RunningImport
    <3>3. [job[n] EXCEPT !.next = @ + 1] \in Imports
      BY <3>2, NextOfImport
    <3> HIDE DEF Imports
    <3> QED BY <3>1, <3>3 DEF TripInv
  <2>6. ASSUME NEW m \in Node, job'[m].on /\ job'[m].clean,
               NEW i \in DOMAIN job'[m].carrier.bundles, i < job'[m].next
        PROVE  job'[m].carrier.bundles[i] \subseteq held'[m]
    <3>1. CASE m # n
      <4>1. job'[m] = job[m]
        BY <2>1, <3>1 DEF TripInv
      <4> QED BY <2>4, <2>6, <4>1 DEF TripInv
    <3>2. CASE m = n
      <4>1. job'[n].carrier = cc /\ job'[n].next = nx + 1 /\ job'[n].clean = job[n].clean
        BY <2>1, RunningImport DEF TripInv, Imports, nx, cc
      <4>2. i \in Nat
        BY <2>2, <2>6, <3>2, <4>1
      <4>3. CASE i = nx
        BY <2>1, <2>3, <3>2, <4>1, <4>3 DEF TripInv
      <4>4. CASE i # nx
        <5>1. i < nx /\ i \in DOMAIN cc.bundles
          BY <2>2, <2>6, <3>2, <4>1, <4>2, <4>4
        <5> QED BY <2>1, <2>4, <2>6, <3>2, <4>1, <5>1 DEF TripInv, nx, cc
      <4> QED BY <4>3, <4>4
    <3> QED BY <3>1, <3>2
  <2> QED BY <2>1, <2>4, <2>5, <2>6 DEF TripInv, Goods, Imports
<1>5. ASSUME NEW n \in Node, SkipBundle(n) PROVE TripInv'
  <2>1. /\ job[n].on
        /\ job' = [job EXCEPT ![n].next = @ + 1, ![n].clean = FALSE]
        /\ UNCHANGED <<held, dict, carriers, imported>>
    BY <1>5 DEF SkipBundle, More
  <2>2. job' = [job EXCEPT ![n] = [job[n] EXCEPT !.next = @ + 1, !.clean = FALSE]]
    BY <2>1
  <2>3. job' \in [Node -> {NoJob} \cup Imports]
    <3>1. job[n] \in Imports
      BY <2>1, RunningImport
    <3>2. [job[n] EXCEPT !.next = @ + 1, !.clean = FALSE] \in Imports
      BY <3>1, NextOfImport
    <3> QED BY <2>2, <3>2 DEF TripInv
  <2>4. job'[n].clean = FALSE /\ \A m \in Node : m # n => job'[m] = job[m]
    BY <2>1, <2>2, RunningImport DEF TripInv, Imports
  <2> QED BY <2>1, <2>3, <2>4 DEF TripInv, Goods, Imports
<1>6. ASSUME NEW n \in Node, ImportEnds(n) PROVE TripInv'
  <2> DEFINE cc == job[n].carrier
  <2>1. /\ job[n].on /\ ~(job[n].next =< Len(cc.bundles))
        /\ imported' = IF job[n].clean THEN [imported EXCEPT ![n] = {cc}] ELSE imported
        /\ job' = [job EXCEPT ![n] = NoJob]
        /\ UNCHANGED <<held, dict, carriers>>
    BY <1>6 DEF ImportEnds, More
  <2>2. cc \in carriers /\ job[n].next \in Nat
    BY <2>1, RunningImport
  <2>3. cc.bundles \in Seq(SUBSET Coord)
    BY <2>2 DEF TripInv
  <2>4. ASSUME job[n].clean PROVE Goods(cc) \subseteq held[n]
    <3>1. \A i \in DOMAIN cc.bundles : i < job[n].next
      BY <2>1, <2>2, <2>3
    <3> QED BY <2>1, <2>4, <3>1 DEF TripInv, Goods, Imports
  <2> HIDE DEF cc
  <2>5. imported' \in [Node -> SUBSET carriers]
        /\ \A m \in Node : \A c \in imported'[m] : Goods(c) \subseteq held[m]
    BY <2>1, <2>2, <2>4 DEF TripInv
  <2>6. job' \in [Node -> {NoJob} \cup Imports]
        /\ \A m \in Node : job'[m].on => job'[m] = job[m]
    BY <2>1 DEF TripInv, NoJob
  <2> QED BY <2>1, <2>5, <2>6 DEF TripInv, Goods, Imports
<1>7. ASSUME NEW n \in Node, ImportAborts(n) PROVE TripInv'
  <2>1. job' = [job EXCEPT ![n] = NoJob] /\ UNCHANGED <<held, dict, carriers, imported>>
    BY <1>7 DEF ImportAborts
  <2>2. job' \in [Node -> {NoJob} \cup Imports]
        /\ \A m \in Node : job'[m].on => job'[m] = job[m]
    BY <2>1 DEF TripInv, NoJob
  <2> QED BY <2>1, <2>2 DEF TripInv, Goods, Imports
<1>8. ASSUME NEW n \in Node, NEW c \in carriers, ImportCarrier(n, c) PROVE TripInv'
  <2>1. /\ job' = [job EXCEPT ![n] = [on |-> TRUE, next |-> 1, clean |-> TRUE, carrier |-> c]]
        /\ UNCHANGED <<held, dict, carriers, imported>>
    BY <1>8 DEF ImportCarrier
  <2>2. job' \in [Node -> {NoJob} \cup Imports]
    <3>1. [on |-> TRUE, next |-> 1, clean |-> TRUE, carrier |-> c] \in Imports
      BY DEF Imports
    <3> QED BY <2>1, <3>1 DEF TripInv
  <2>3. c.bundles \in Seq(SUBSET Coord)
    BY DEF TripInv
  <2>4. ASSUME NEW m \in Node, job'[m].on /\ job'[m].clean,
               NEW i \in DOMAIN job'[m].carrier.bundles, i < job'[m].next
        PROVE  job'[m].carrier.bundles[i] \subseteq held[m]
    <3>1. CASE m # n
      BY <2>1, <2>4, <3>1 DEF TripInv
    <3>2. CASE m = n
      BY <2>1, <2>3, <2>4, <3>2 DEF TripInv
    <3> QED BY <3>1, <3>2
  <2> QED BY <2>1, <2>2, <2>4 DEF TripInv, Goods, Imports
<1>9. ASSUME NEW n \in Node, NEW bodies \in FileSets, ExportCarrier(n, Anybody, Empty, bodies)
      PROVE  TripInv'
  <2>1. Empty \in Vectors
    BY MaxSeqAssumption DEF Empty, Vectors
  <2> QED BY <1>9, <2>1, ExportKeeps
<1>10. ASSUME NEW n \in Node, NEW bodies \in FileSets, NEW c \in carriers, Answer(n, c, bodies)
       PROVE  TripInv'
  <2>1. c.vector \in Vectors /\ c.from \in Node /\ Covers(c.vector) \subseteq held[c.from]
    BY DEF TripInv
  <2> QED BY <1>10, <2>1, ExportKeeps DEF Answer
<1> QED
  BY <1>1, <1>2, <1>3, <1>4, <1>5, <1>6, <1>7, <1>8, <1>9, <1>10 DEF SneakNext

LEMMA TripHolds == TripInv => TripIsEnough
<1> SUFFICES ASSUME TripInv, NEW n \in Node, NEW c \in imported[n], c.to \in {Anybody, n}
             PROVE  Dominates(VectorOf(held[n]), c.vector)
  BY DEF TripIsEnough
<1>1. c \in carriers /\ Goods(c) \subseteq held[n] /\ held[n] \in SUBSET Coord
      /\ c.vector \in Vectors
  BY DEF TripInv
<1>2. Covers(c.vector) \subseteq held[n]
  BY <1>1, CarrierAssumption DEF TripInv, Anybody
<1> QED BY <1>1, <1>2, HoldingDominates

----------------------------------------------------------------------------
(***************************************************************************)
(* Airtime: the sum over an hour.                                          *)
(***************************************************************************)

\* The sums of UsedWithinHour for any spending.
Totals(ff) ==
    LET upTo[t \in Times] == ff[t] + IF t = 0 THEN 0 ELSE upTo[t - 1]
    IN  upTo

LEMMA TimesAreNumbers == Times \subseteq Nat /\ 0 \in Times /\ MaxTime \in Times /\ MaxTime \in Nat
BY GovernorAssumption DEF Times

LEMMA TotalsExist ==
    ASSUME NEW ff
    PROVE  \E g : g = [t \in Times |-> ff[t] + IF t = 0 THEN 0 ELSE g[t - 1]]
<1> DEFINE Upto(n) == \E g : g = [t \in 0 .. n |-> ff[t] + IF t = 0 THEN 0 ELSE g[t - 1]]
           T == {n \in Nat : ~Upto(n)}
<1>1. SUFFICES ASSUME ~Upto(MaxTime) PROVE FALSE
  BY DEF Times
<1>2. MaxTime \in T
  BY <1>1, TimesAreNumbers
<1>3. PICK n \in T : \A k \in T : n =< k
  <2> HIDE DEF T
  <2>1. T \in SUBSET Nat
    BY DEF T
  <2> QED BY <1>2, <2>1, LeastNat
<1>4. CASE n = 0
  <2> DEFINE g == [t \in 0 .. 0 |-> ff[t] + 0]
  <2>1. g = [t \in 0 .. 0 |-> ff[t] + IF t = 0 THEN 0 ELSE g[t - 1]]
    OBVIOUS
  <2>2. Upto(0)
    BY <2>1
  <2> QED BY <1>3, <1>4, <2>2
<1>5. CASE n # 0
  <2>1. n \in Nat /\ n - 1 \in Nat
    BY <1>3, <1>5
  <2>2. Upto(n - 1)
    <3> HIDE DEF Upto
    <3> QED BY <1>3, <2>1
  <2>3. PICK g : g = [t \in 0 .. n - 1 |-> ff[t] + IF t = 0 THEN 0 ELSE g[t - 1]]
    BY <2>2
  <2> DEFINE h == [t \in 0 .. n |-> IF t = n THEN ff[n] + g[n - 1] ELSE g[t]]
  <2>4. ASSUME NEW t \in 0 .. n
        PROVE  h[t] = ff[t] + IF t = 0 THEN 0 ELSE h[t - 1]
    <3>1. CASE t = n
      <4>1. n - 1 \in 0 .. n /\ n - 1 # n
        BY <2>1
      <4>2. h[n] = ff[n] + g[n - 1] /\ h[n - 1] = g[n - 1]
        BY <2>1, <4>1
      <4> HIDE DEF h
      <4>3. (IF n = 0 THEN 0 ELSE h[n - 1]) = g[n - 1]
        BY <1>5, <4>2
      <4>4. h[n] = ff[n] + IF n = 0 THEN 0 ELSE h[n - 1]
        BY <4>2, <4>3, Zenon
      <4> QED BY <3>1, <4>4, Zenon
    <3>2. CASE t # n
      <4>1. t \in 0 .. n - 1 /\ (t # 0 => t - 1 \in 0 .. n - 1)
        BY <2>1, <3>2
      <4>2. g[t] = ff[t] + IF t = 0 THEN 0 ELSE g[t - 1]
        BY <2>3, <4>1
      <4>3. h[t] = g[t] /\ (t # 0 => h[t - 1] = g[t - 1])
        BY <2>1, <3>2, <4>1
      <4> QED BY <4>2, <4>3
    <3> QED BY <3>1, <3>2
  <2>5. h = [t \in 0 .. n |-> ff[t] + IF t = 0 THEN 0 ELSE h[t - 1]]
    BY <2>4
  <2>6. Upto(n)
    BY <2>5
  <2> QED BY <1>3, <2>6
<1> QED BY <1>4, <1>5

LEMMA TotalsAre ==
    ASSUME NEW ff, NEW t \in Times
    PROVE  Totals(ff)[t] = ff[t] + IF t = 0 THEN 0 ELSE Totals(ff)[t - 1]
<1> DEFINE Is(g) == g = [u \in Times |-> ff[u] + IF u = 0 THEN 0 ELSE g[u - 1]]
<1>1. Totals(ff) = CHOOSE g : Is(g)
  BY DEF Totals
<1>2. \E g : Is(g)
  BY TotalsExist
<1> HIDE DEF Is
<1>3. Is(Totals(ff))
  BY <1>1, <1>2
<1> QED BY <1>3 DEF Is

\* Who spends no less in any tick spends no less.
LEMMA TotalsGrow ==
    ASSUME NEW ff \in [Times -> Nat], NEW gg \in [Times -> Nat], \A t \in Times : ff[t] =< gg[t]
    PROVE  \A t \in Times : Totals(ff)[t] \in Nat /\ Totals(ff)[t] =< Totals(gg)[t] /\ Totals(gg)[t] \in Nat
<1> DEFINE Good(t) == Totals(ff)[t] \in Nat /\ Totals(ff)[t] =< Totals(gg)[t] /\ Totals(gg)[t] \in Nat
           T == {t \in Times : ~Good(t)}
<1>1. SUFFICES ASSUME T # {} PROVE FALSE
  OBVIOUS
<1>2. PICK t \in T : \A k \in T : t =< k
  <2>1. T \in SUBSET Nat
    BY TimesAreNumbers
  <2> HIDE DEF T
  <2> QED BY <1>1, <2>1, LeastNat
<1>3. t \in Times /\ t \in Nat
  BY <1>2, TimesAreNumbers
<1>4. /\ Totals(ff)[t] = ff[t] + IF t = 0 THEN 0 ELSE Totals(ff)[t - 1]
      /\ Totals(gg)[t] = gg[t] + IF t = 0 THEN 0 ELSE Totals(gg)[t - 1]
  BY <1>3, TotalsAre
<1>5. t # 0 => Good(t - 1)
  <2> HIDE DEF Good
  <2> SUFFICES ASSUME t # 0 PROVE Good(t - 1)
    OBVIOUS
  <2>1. t - 1 \in Times /\ t - 1 < t
    BY <1>3, GovernorAssumption DEF Times
  <2> QED BY <1>2, <1>3, <2>1
<1>6. ff[t] \in Nat /\ gg[t] \in Nat /\ ff[t] =< gg[t]
  BY <1>3
<1>7. Good(t)
  BY <1>3, <1>4, <1>5, <1>6
<1> QED BY <1>2, <1>7

\* One packet adds its own time on air.
LEMMA TotalsOfOneMore ==
    ASSUME NEW ff \in [Times -> Nat], NEW k \in Times, NEW ss \in Nat
    PROVE  Totals([ff EXCEPT ![k] = @ + ss])[MaxTime] = Totals(ff)[MaxTime] + ss
<1> DEFINE gg == [ff EXCEPT ![k] = @ + ss]
           Good(t) == /\ Totals(ff)[t] \in Nat
                      /\ Totals(gg)[t] = Totals(ff)[t] + IF t >= k THEN ss ELSE 0
           T == {t \in Times : ~Good(t)}
<1>1. SUFFICES T = {}
  <2>1. MaxTime \in Times /\ MaxTime >= k
    BY TimesAreNumbers, GovernorAssumption DEF Times
  <2> QED BY <2>1
<1>2. SUFFICES ASSUME T # {} PROVE FALSE
  OBVIOUS
<1>3. PICK t \in T : \A j \in T : t =< j
  <2>1. T \in SUBSET Nat
    BY TimesAreNumbers
  <2> HIDE DEF T
  <2> QED BY <1>2, <2>1, LeastNat
<1>4. t \in Times /\ t \in Nat /\ k \in Nat
  BY <1>3, TimesAreNumbers
<1>5. /\ Totals(ff)[t] = ff[t] + IF t = 0 THEN 0 ELSE Totals(ff)[t - 1]
      /\ Totals(gg)[t] = gg[t] + IF t = 0 THEN 0 ELSE Totals(gg)[t - 1]
  <2> HIDE DEF gg
  <2> QED BY <1>4, TotalsAre
<1>6. t # 0 => Good(t - 1)
  <2> HIDE DEF Good
  <2> SUFFICES ASSUME t # 0 PROVE Good(t - 1)
    OBVIOUS
  <2>1. t - 1 \in Times /\ t - 1 < t
    BY <1>4, GovernorAssumption DEF Times
  <2> QED BY <1>3, <1>4, <2>1
<1>7. ff[t] \in Nat /\ gg[t] = IF t = k THEN ff[t] + ss ELSE ff[t]
  BY <1>4
<1>8. Good(t)
  <2> HIDE DEF gg
  <2>1. CASE t = 0
    BY <1>4, <1>5, <1>7, <2>1
  <2>2. CASE t # 0
    <3>1. t - 1 \in Nat /\ (t >= k <=> t - 1 >= k \/ t = k) /\ (t = k => ~(t - 1 >= k))
      BY <1>4, <2>2
    <3> QED BY <1>4, <1>5, <1>6, <1>7, <2>2, <3>1
  <2> QED BY <2>1, <2>2
<1> QED BY <1>3, <1>8

LEMMA NothingSpent ==
    ASSUME NEW ff, \A t \in Times : ff[t] = 0
    PROVE  Totals(ff)[MaxTime] = 0
<1> DEFINE T == {t \in Times : Totals(ff)[t] # 0}
<1>1. SUFFICES ASSUME T # {} PROVE FALSE
  BY TimesAreNumbers
<1>2. PICK t \in T : \A k \in T : t =< k
  <2>1. T \in SUBSET Nat
    BY TimesAreNumbers
  <2> HIDE DEF T
  <2> QED BY <1>1, <2>1, LeastNat
<1>3. t \in Times /\ t \in Nat
  BY <1>2, TimesAreNumbers
<1>4. Totals(ff)[t] = 0 + IF t = 0 THEN 0 ELSE Totals(ff)[t - 1]
  BY <1>3, TotalsAre
<1>5. t # 0 => Totals(ff)[t - 1] = 0
  <2> SUFFICES ASSUME t # 0 PROVE Totals(ff)[t - 1] = 0
    OBVIOUS
  <2>1. t - 1 \in Times /\ t - 1 < t
    BY <1>3, GovernorAssumption DEF Times
  <2> QED BY <1>2, <1>3, <2>1
<1> QED BY <1>2, <1>4, <1>5

LEMMA UsedIsTotal == UsedWithinHour = Totals(Pruned)[MaxTime]
BY DEF UsedWithinHour, Totals

----------------------------------------------------------------------------
(***************************************************************************)
(* Airtime: the governor.                                                  *)
(***************************************************************************)
GovTypes ==
    /\ now \in Times /\ refilledAt \in Nat /\ refilledAt =< now
    /\ instances \in Instances /\ r \in Nat /\ penalty \in Nat \ {0}
    /\ tokens \in Int /\ capacity \in Nat /\ allowance \in Int
    /\ tx \in [Times -> Nat] /\ originated \in Nat /\ echoes \in Nat

\* What the bucket holds and what has accrued since its last refill are earned.
Earned == tokens + RateFor(instances) * (now - refilledAt) =< allowance

\* The multiplier never falls below the configured one, so the bucket always
\* has room for three full packets at that one.
RoomForThree == r >= R0 /\ capacity >= 3 * (Full * R0)

AirInv ==
    /\ GovTypes
    /\ Earned
    /\ RoomForThree
    /\ UsedWithinHour =< DutyLimit
    /\ bulk /\ r = R0 => tokens >= Full * R0

LEMMA FullIsSize == Full \in Sizes /\ Full \in Nat \ {0} /\ \A size \in Sizes : size \in Nat \ {0}
BY GovernorAssumption DEF Full

LEMMA RateIsNat == \A count \in Instances : RateFor(count) \in Nat
BY GovernorAssumption DEF RateFor

LEMMA ProductGrows ==
    ASSUME NEW aa \in Nat, NEW bb \in Nat, NEW cc \in Nat, bb =< cc
    PROVE  aa * bb \in Nat /\ aa * cc \in Nat /\ aa * bb =< aa * cc
OBVIOUS

LEMMA QuotientIsLess ==
    ASSUME NEW aa \in Nat, NEW dv \in Nat \ {0}
    PROVE  aa \div dv \in Nat /\ aa \div dv =< aa
OBVIOUS

\* A refill adds no more than was earned and takes nothing that fits.
LEMMA RefilledIsEarned ==
    ASSUME AirInv
    PROVE  /\ Refilled \in Int /\ Refilled =< allowance /\ Refilled =< capacity
           /\ Refilled = capacity \/ Refilled >= tokens
<1> DEFINE won == RateFor(instances) * (now - refilledAt)
<1>1. RateFor(instances) \in Nat /\ now - refilledAt \in Nat /\ penalty \in Nat \ {0}
  BY RateIsNat, TimesAreNumbers DEF AirInv, GovTypes
<1>2. won \in Nat
  BY <1>1
<1>3. won \div penalty \in Nat /\ won \div penalty =< won
  <2> HIDE DEF won
  <2> QED BY <1>1, <1>2, QuotientIsLess
<1>4. tokens \in Int /\ capacity \in Nat /\ allowance \in Int /\ tokens + won =< allowance
  BY DEF AirInv, GovTypes, Earned
<1>5. Refilled = AtMost(capacity, tokens + won \div penalty)
  BY DEF Refilled
<1> HIDE DEF won
<1> QED BY <1>2, <1>3, <1>4, <1>5 DEF AtMost

\* What was sent an hour ago is forgotten once.
LEMMA PrunedIsTotal ==
    ASSUME GovTypes
    PROVE  /\ Pruned \in [Times -> Nat]
           /\ tx' = Pruned /\ now' = now => Pruned' = Pruned
<1>1. Pruned \in [Times -> Nat]
  BY DEF GovTypes, Pruned
<1>2. ASSUME tx' = Pruned, now' = now PROVE Pruned' = Pruned
  <2>1. Pruned' = [t \in Times |-> IF t > now - Hour THEN Pruned[t] ELSE 0]
    BY <1>2 DEF Pruned
  <2>2. \A t \in Times : (IF t > now - Hour THEN Pruned[t] ELSE 0) = Pruned[t]
    BY DEF Pruned
  <2>3. Pruned = [t \in Times |-> Pruned[t]]
    BY DEF Pruned
  <2> QED BY <2>1, <2>2, <2>3
<1> QED BY <1>1, <1>2

LEMMA UsedStays ==
    ASSUME GovTypes, tx' = Pruned \/ tx' = tx, now' = now, UsedWithinHour =< DutyLimit
    PROVE  UsedWithinHour' =< DutyLimit
<1>1. Pruned' = Pruned
  <2>1. CASE tx' = tx
    BY <2>1 DEF Pruned
  <2> QED BY <2>1, PrunedIsTotal
<1>2. UsedWithinHour' = UsedWithinHour
  BY <1>1 DEF UsedWithinHour
<1> QED BY <1>2

----------------------------------------------------------------------------
LEMMA AirStarts == GovInit => AirInv
<1> SUFFICES ASSUME GovInit PROVE AirInv
  OBVIOUS
<1>1. R0 \in Nat \ {0} /\ Full \in Nat /\ Hour \in Nat /\ DutyLimit \in Nat /\ 0 \in Times
  BY GovernorAssumption, FullIsSize, TimesAreNumbers
<1>2. instances \in Instances /\ RateFor(instances) \in Nat
  BY RateIsNat DEF GovInit
<1>3. capacity = AtLeast(RateFor(instances) * Hour, 3 * (Full * R0))
  BY DEF GovInit, Burst
<1>4. RateFor(instances) * Hour \in Nat /\ Full * R0 \in Nat
  BY <1>1, <1>2
<1>5. capacity \in Nat /\ capacity >= 3 * (Full * R0)
  BY <1>3, <1>4 DEF AtLeast
<1>6. GovTypes
  BY <1>1, <1>2, <1>5 DEF GovInit, GovTypes
<1>7. Earned
  <2>1. RateFor(instances) * (0 - 0) = 0
    BY <1>2
  <2> QED BY <1>5, <2>1 DEF GovInit, Earned
<1>8. UsedWithinHour =< DutyLimit
  <2>1. \A t \in Times : Pruned[t] = 0
    BY DEF GovInit, Pruned
  <2>2. UsedWithinHour = 0
    BY <2>1, NothingSpent, UsedIsTotal
  <2> QED BY <1>1, <2>2
<1> QED BY <1>1, <1>5, <1>6, <1>7, <1>8 DEF GovInit, AirInv, RoomForThree

\* The bucket is brought up to date: what a refill leaves is earned.
LEMMA RefillKeeps ==
    ASSUME AirInv, tokens' \in Int, tokens' =< Refilled, refilledAt' = now, now' = now,
           tx' = Pruned, allowance' = allowance, instances' \in Instances,
           penalty' \in Nat \ {0}, capacity' \in Nat,
           UNCHANGED <<r, originated, echoes, bulk>>,
           RoomForThree', bulk /\ r = R0 => tokens' >= Full * R0
    PROVE  AirInv'
<1>1. GovTypes'
  <2>1. Pruned \in [Times -> Nat]
    BY PrunedIsTotal DEF AirInv
  <2>2. now \in Nat
    BY TimesAreNumbers DEF AirInv, GovTypes
  <2> QED BY <2>1, <2>2 DEF AirInv, GovTypes
<1>2. Earned'
  <2>1. RateFor(instances') \in Nat /\ now \in Nat
    BY RateIsNat, TimesAreNumbers DEF AirInv, GovTypes
  <2>2. RateFor(instances') * (now - now) = 0
    BY <2>1
  <2>3. Earned' <=> tokens' + RateFor(instances') * (now - now) =< allowance
    BY DEF Earned, RateFor
  <2> QED BY <2>2, <2>3, RefilledIsEarned DEF AirInv, GovTypes
<1>3. UsedWithinHour' =< DutyLimit
  BY UsedStays DEF AirInv
<1> QED BY <1>1, <1>2, <1>3 DEF AirInv

\* A refill leaves the room a bulk packet had to leave.
LEMMA RefillLeavesRoom ==
    ASSUME AirInv, NEW tk \in Int, NEW cp \in Nat, cp >= 3 * (Full * R0),
           tk = Refilled \/ (tk = AtMost(Refilled, cp))
    PROVE  bulk /\ r = R0 => tk >= Full * R0
<1>1. Full * R0 \in Nat
  BY FullIsSize, GovernorAssumption
<1>2. capacity \in Nat /\ tokens \in Int /\ capacity >= 3 * (Full * R0)
      /\ (bulk /\ r = R0 => tokens >= Full * R0)
  BY DEF AirInv, RoomForThree, GovTypes
<1>3. Refilled \in Int /\ (Refilled = capacity \/ Refilled >= tokens)
  BY RefilledIsEarned
<1> QED BY <1>1, <1>2, <1>3 DEF AtMost

LEMMA AirSteps == AirInv /\ [GovNext]_govVars => AirInv'
<1> SUFFICES ASSUME AirInv, [GovNext]_govVars PROVE AirInv'
  OBVIOUS
<1> USE TimesAreNumbers
<1>1. /\ GovTypes /\ Refilled \in Int /\ Refilled =< allowance
      /\ r \in Nat /\ penalty \in Nat \ {0} /\ capacity \in Nat /\ instances \in Instances
      /\ R0 \in Nat \ {0} /\ Full \in Nat \ {0} /\ Full * R0 \in Nat
      /\ now \in Nat /\ now \in Times
  BY RefilledIsEarned, FullIsSize, GovernorAssumption DEF AirInv, GovTypes
<1>2. CASE UNCHANGED govVars
  <2>1. Pruned' = Pruned
    BY <1>2 DEF govVars, Pruned
  <2> QED BY <1>2, <2>1 DEF govVars, budget, AirInv, GovTypes, Earned, RateFor, RoomForThree,
                            UsedWithinHour
<1>3. ASSUME NEW size \in Sizes, NEW class \in Classes, NEW areas,
             Charge(size, class, areas)
      PROVE  AirInv'
  <2>1. /\ Check(size, class)
        /\ tokens' = Refilled - Cost(size)
        /\ refilledAt' = now
        /\ tx' = [Pruned EXCEPT ![now] = @ + size]
        /\ originated' = originated + 1
        /\ bulk' = (class \in Bulk)
        /\ allowance' = allowance - Cost(size)
        /\ UNCHANGED <<now, capacity, penalty, echoes, r, instances>>
    BY <1>3 DEF Charge
  <2>2. size \in Nat \ {0} /\ Cost(size) \in Nat
    BY <1>1, FullIsSize DEF Cost
  <2>3. Pruned \in [Times -> Nat]
    BY <1>1, PrunedIsTotal
  <2>4. GovTypes'
    BY <1>1, <2>1, <2>2, <2>3 DEF GovTypes
  <2>5. Earned'
    <3>1. RateFor(instances') \in Nat
      BY <1>1, <2>1, RateIsNat
    <3>2. RateFor(instances') * (now - now) = 0
      BY <1>1, <3>1
    <3>3. Earned' <=> tokens' + RateFor(instances') * (now - now) =< allowance'
      BY <2>1 DEF Earned, RateFor
    <3> QED BY <1>1, <2>1, <2>2, <3>2, <3>3 DEF GovTypes
  <2>6. RoomForThree'
    BY <2>1 DEF AirInv, RoomForThree, Full
  <2>7. UsedWithinHour' =< DutyLimit
    <3>1. Pruned' = [Pruned EXCEPT ![now] = @ + size]
      <4>1. Pruned' = [t \in Times |-> IF t > now - Hour THEN tx'[t] ELSE 0]
        BY <2>1 DEF Pruned
      <4>2. ASSUME NEW t \in Times
            PROVE  (IF t > now - Hour THEN tx'[t] ELSE 0) = [Pruned EXCEPT ![now] = @ + size][t]
        <5>1. CASE t = now
          <6>1. t > now - Hour
            BY <1>1, <5>1, GovernorAssumption
          <6> QED BY <2>1, <2>3, <5>1, <6>1
        <5>2. CASE t # now
          <6>1. tx'[t] = Pruned[t] /\ [Pruned EXCEPT ![now] = @ + size][t] = Pruned[t]
            BY <2>1, <2>3, <5>2
          <6>2. ~(t > now - Hour) => Pruned[t] = 0
            BY DEF Pruned
          <6> QED BY <6>1, <6>2
        <5> QED BY <5>1, <5>2
      <4> QED BY <4>1, <4>2, <2>3
    <3>2. Totals(Pruned')[MaxTime] = Totals(Pruned)[MaxTime] + size
      BY <1>1, <2>2, <2>3, <3>1, TotalsOfOneMore
    <3>3. UsedWithinHour' = Totals(Pruned')[MaxTime]
      BY DEF UsedWithinHour, Totals
    <3>4. UsedWithinHour + size =< DutyLimit
      BY <2>1 DEF Check, DutyAllows
    <3> QED BY <3>2, <3>3, <3>4, UsedIsTotal
  <2>8. ASSUME bulk', r' = R0 PROVE tokens' >= Full * R0
    <3>1. r = R0 /\ class \in {"forum", "files", "door"}
      BY <2>1, <2>8 DEF Bulk
    <3>2. Reserve[class] \in Nat /\ Reserve[class] >= 35
      BY <3>1 DEF Reserve
    <3>3. capacity >= 3 * (Full * R0)
      BY DEF AirInv, RoomForThree
    <3>4. 100 * Refilled >= 100 * Cost(size) + Reserve[class] * capacity
      BY <2>1 DEF Check
    <3>5. Reserve[class] * capacity >= 35 * capacity
      <4>1. capacity * 35 =< capacity * Reserve[class]
        BY <1>1, <3>2, ProductGrows
      <4> QED BY <1>1, <3>2, <4>1
    <3> DEFINE need == Full * R0
               held2 == Reserve[class] * capacity
    <3>6. held2 \in Nat
      BY <1>1, <3>2
    <3> HIDE DEF need, held2
    <3>7. Refilled - Cost(size) >= need
      BY <1>1, <2>2, <3>3, <3>4, <3>5, <3>6 DEF need, held2
    <3> QED BY <2>1, <3>7 DEF need
  <2> QED BY <2>4, <2>5, <2>6, <2>7, <2>8 DEF AirInv
<1>4. ASSUME Refill, UNCHANGED <<now, capacity, penalty, originated, echoes, r, instances, bulk, allowance>>
      PROVE  AirInv'
  <2>1. RoomForThree'
    BY <1>4 DEF AirInv, RoomForThree
  <2>2. bulk /\ r = R0 => tokens' >= Full * R0
    BY <1>1, <1>4, RefillLeavesRoom DEF Refill, AirInv, RoomForThree
  <2> QED BY <1>1, <1>4, <2>1, <2>2, RefillKeeps DEF Refill
<1>5. ASSUME NEW size, NEW class, NEW areas, Refuse(size, class, areas) PROVE AirInv'
  BY <1>4, <1>5 DEF Refuse
<1>6. CASE Budget
  BY <1>4, <1>6 DEF Budget
<1>7. ASSUME NEW count \in Instances, SetInstances(count) PROVE AirInv'
  <2>1. /\ instances' = count
        /\ capacity' = Burst(RateFor(count), Cost(Full))
        /\ tokens' = AtMost(Refilled, capacity')
        /\ refilledAt' = now /\ tx' = Pruned
        /\ UNCHANGED <<now, penalty, originated, echoes, r, bulk, allowance>>
    BY <1>7 DEF SetInstances
  <2>2. RateFor(count) \in Nat /\ Hour \in Nat
    BY RateIsNat, GovernorAssumption
  <2>3. RateFor(count) * Hour \in Nat /\ Full * r \in Nat /\ Full * r >= Full * R0
    <3>1. r >= R0
      BY DEF AirInv, RoomForThree
    <3> QED BY <1>1, <2>2, <3>1, ProductGrows
  <2>4. capacity' \in Nat /\ capacity' >= 3 * (Full * R0)
    BY <1>1, <2>1, <2>3 DEF Burst, AtLeast, Cost
  <2>5. RoomForThree'
    BY <2>1, <2>4 DEF AirInv, RoomForThree
  <2>6. tokens' \in Int /\ tokens' =< Refilled
    BY <1>1, <2>1, <2>4 DEF AtMost
  <2>7. bulk /\ r = R0 => tokens' >= Full * R0
    BY <2>1, <2>4, <2>6, RefillLeavesRoom
  <2> QED BY <1>1, <2>1, <2>4, <2>5, <2>6, <2>7, RefillKeeps
<1>8. ASSUME NEW new, SetAreaShares(new) PROVE AirInv'
  <2>1. UNCHANGED <<now, budget, penalty, tx, originated, echoes, r, instances, bulk, allowance>>
    BY <1>8 DEF SetAreaShares
  <2>2. Pruned' = Pruned
    BY <2>1 DEF Pruned
  <2> QED BY <2>1, <2>2 DEF budget, AirInv, GovTypes, Earned, RateFor, RoomForThree, UsedWithinHour
<1>9. CASE Observe
  <2>1. /\ Refill
        /\ penalty' = IF reading = "clear" THEN AtLeast(penalty \div 2, 1)
                                           ELSE AtMost(penalty * 2, MaxPenalty)
        /\ UNCHANGED <<now, capacity, originated, echoes, r, instances, bulk, allowance>>
    BY <1>9 DEF Observe
  <2>2. penalty' \in Nat \ {0}
    <3>1. penalty \div 2 \in Nat /\ penalty * 2 \in Nat \ {0} /\ MaxPenalty \in Nat \ {0}
      BY <1>1, GovernorAssumption
    <3> QED BY <2>1, <3>1 DEF AtLeast, AtMost
  <2>3. RoomForThree'
    BY <2>1 DEF AirInv, RoomForThree
  <2>4. bulk /\ r = R0 => tokens' >= Full * R0
    BY <1>1, <2>1, RefillLeavesRoom DEF Refill, AirInv, RoomForThree
  <2> QED BY <1>1, <2>1, <2>2, <2>3, <2>4, RefillKeeps DEF Refill
<1>10. CASE NoteEcho
  <2>1. /\ originated > 0 /\ echoes' = echoes + 1 /\ r' = Reestimated
        /\ UNCHANGED <<now, budget, penalty, tx, originated, instances, bulk, allowance>>
    BY <1>10 DEF NoteEcho
  <2>2. r' \in Nat /\ r' >= r
    <3>1. originated \in Nat \ {0} /\ echoes + 1 \in Nat
      BY <1>1, <2>1 DEF GovTypes
    <3>2. 1 + (echoes + 1) \div originated \in Nat
      BY <3>1, QuotientIsLess
    <3> QED BY <1>1, <2>1, <3>2 DEF Reestimated, AtLeast
  <2>3. r >= R0
    BY DEF AirInv, RoomForThree
  <2>4. r' >= R0 /\ (r' = R0 => r = R0)
    BY <1>1, <2>2, <2>3
  <2>5. Pruned' = Pruned
    BY <2>1 DEF Pruned
  <2> QED BY <2>1, <2>2, <2>4, <2>5
          DEF budget, AirInv, GovTypes, Earned, RateFor, RoomForThree, UsedWithinHour
<1>11. CASE ChannelChanges \/ Attach
  <2>1. UNCHANGED <<now, budget, penalty, tx, originated, echoes, r, instances, bulk, allowance>>
    BY <1>11 DEF ChannelChanges, Attach
  <2>2. Pruned' = Pruned
    BY <2>1 DEF Pruned
  <2> QED BY <2>1, <2>2 DEF budget, AirInv, GovTypes, Earned, RateFor, RoomForThree, UsedWithinHour
<1>12. CASE GovTick
  <2>1. /\ now < MaxTime /\ now' = now + 1 /\ allowance' = allowance + RateFor(instances)
        /\ UNCHANGED <<budget, penalty, tx, originated, echoes, r, instances, bulk>>
    BY <1>12 DEF GovTick
  <2>2. now' \in Times
    BY <1>1, <2>1 DEF Times
  <2>3. RateFor(instances) \in Nat /\ refilledAt \in Nat
    BY <1>1, RateIsNat DEF GovTypes
  <2>4. GovTypes'
    BY <1>1, <2>1, <2>2, <2>3 DEF budget, GovTypes
  <2>5. Earned'
    <3> DEFINE rate == RateFor(instances)
               dt == now - refilledAt
    <3>1. rate \in Nat /\ dt \in Int /\ now + 1 - refilledAt = dt + 1
      BY <1>1, <2>3
    <3>2. tokens \in Int /\ allowance \in Int /\ tokens + rate * dt =< allowance
      BY DEF AirInv, Earned, GovTypes
    <3>3. tokens' = tokens /\ refilledAt' = refilledAt /\ instances' = instances
      BY <2>1 DEF budget
    <3>4. RateFor(instances)' = rate /\ allowance' = allowance + rate
      BY <2>1, <3>3, Zenon DEF RateFor
    <3>5. now' - refilledAt' = dt + 1
      BY <1>1, <2>1, <2>3, <3>1, <3>3
    <3> HIDE DEF rate, dt
    <3>6. rate * (dt + 1) = rate * dt + rate
      BY <3>1
    <3>7. tokens + rate * (dt + 1) =< allowance + rate
      BY <3>1, <3>2, <3>6
    <3> QED BY <3>3, <3>4, <3>5, <3>7 DEF Earned
  <2>6. UsedWithinHour' =< DutyLimit
    <3>1. Pruned \in [Times -> Nat] /\ Pruned' \in [Times -> Nat]
      BY <1>1, <2>4, PrunedIsTotal DEF GovTypes, Pruned
    <3>2. \A t \in Times : Pruned'[t] =< Pruned[t]
      <4>1. ASSUME NEW t \in Times PROVE Pruned'[t] =< Pruned[t]
        <5>1. Pruned'[t] = IF t > now' - Hour THEN tx'[t] ELSE 0
          BY DEF Pruned
        <5>2. Pruned[t] = IF t > now - Hour THEN tx[t] ELSE 0
          BY DEF Pruned
        <5>3. tx[t] \in Nat /\ t \in Nat /\ Hour \in Nat
          BY <1>1, GovernorAssumption DEF GovTypes
        <5> QED BY <1>1, <2>1, <5>1, <5>2, <5>3
      <4> QED BY <4>1
    <3>3. /\ Totals(Pruned')[MaxTime] \in Nat /\ Totals(Pruned)[MaxTime] \in Nat
          /\ Totals(Pruned')[MaxTime] =< Totals(Pruned)[MaxTime]
      BY <3>1, <3>2, TotalsGrow
    <3>4. UsedWithinHour' = Totals(Pruned')[MaxTime]
      BY DEF UsedWithinHour, Totals
    <3>5. Totals(Pruned)[MaxTime] =< DutyLimit /\ DutyLimit \in Nat
      BY UsedIsTotal, GovernorAssumption DEF AirInv
    <3> QED BY <3>3, <3>4, <3>5
  <2>7. RoomForThree' /\ (bulk' /\ r' = R0 => tokens' >= Full * R0)
    BY <2>1 DEF budget, AirInv, RoomForThree
  <2> QED BY <2>4, <2>5, <2>6, <2>7 DEF AirInv
<1> QED
  BY <1>2, <1>3, <1>5, <1>6, <1>7, <1>8, <1>9, <1>10, <1>11, <1>12 DEF GovNext, AllowCharge

LEMMA AirHolds == AirInv => DutyRespected /\ SpentWithinShare /\ ControlRoom
<1> SUFFICES ASSUME AirInv PROVE DutyRespected /\ SpentWithinShare /\ ControlRoom
  OBVIOUS
<1>1. ControlRoom
  BY DEF AirInv, ControlRoom, Cost
<1> QED BY <1>1, RefilledIsEarned DEF AirInv, DutyRespected, SpentWithinShare

----------------------------------------------------------------------------
(***************************************************************************)
(* Airtime: the survey.                                                    *)
(***************************************************************************)
Phases == [name : {"probe", "baseline", "load", "closing"}, hop : Nat, start : Nat, prev : Uptime,
           n : Nat, sum : Nat, first : Nat, last : Nat, sent : Nat, nextTx : Nat, oldest : Nat]

\* A reading that the phase has not counted was reported during it; what was
\* sent is paced, and a packet that is being tried again was due when it was
\* first tried.
PacedInv ==
    /\ clock \in Nat /\ retry \in Nat /\ phase \in Phases
    /\ radio \in [up : Uptime, level : Nat, at : Nat]
    /\ phase.start =< clock /\ phase.oldest >= phase.start
    /\ radio.at >= phase.start \/ radio.up = phase.prev
    /\ phase.nextTx = phase.start + phase.sent * TxEvery
    /\ retry > 0 => step # "wait" /\ clock >= phase.nextTx
    /\ DutyIsKept

LEMMA StartedIsFresh ==
    ASSUME PacedInv, NEW name \in {"probe", "baseline", "load", "closing"}, NEW hop \in Nat
    PROVE  /\ Started(name, hop) \in Phases
           /\ Started(name, hop).start = clock /\ Started(name, hop).oldest = clock
           /\ Started(name, hop).prev = radio.up /\ Started(name, hop).sent = 0
           /\ Started(name, hop).nextTx = clock
<1>1. clock \in Nat /\ radio.up \in Uptime
  BY DEF PacedInv
<1> QED BY <1>1 DEF Started, Phases

LEMMA SurveyStarts == SurveyInit => PacedInv
<1> SUFFICES ASSUME SurveyInit PROVE PacedInv
  OBVIOUS
<1>1. TxEvery \in Nat /\ 0 \in Uptime
  BY SurveyAssumption DEF Uptime
<1> QED BY <1>1 DEF SurveyInit, PacedInv, Started, Phases, DutyIsKept

\* A new phase begins with nothing sent and no reading of its own.
LEMMA PhaseStarts ==
    ASSUME PacedInv, step = "wait", NEW name \in {"probe", "baseline", "load", "closing"},
           NEW hop \in Nat, Continues(name, hop)
    PROVE  PacedInv'
<1>1. phase' = Started(name, hop) /\ UNCHANGED <<clock, radio, retry, step>>
  BY DEF Continues
<1>2. TxEvery \in Nat /\ clock \in Nat /\ retry \in Nat /\ ~(retry > 0)
      /\ radio \in [up : Uptime, level : Nat, at : Nat]
  BY SurveyAssumption DEF PacedInv
<1>3. phase'.nextTx = phase'.start + phase'.sent * TxEvery
  BY <1>1, <1>2, StartedIsFresh
<1> QED BY <1>1, <1>2, <1>3, StartedIsFresh DEF PacedInv, DutyIsKept

LEMMA SurveySteps == PacedInv /\ [SurveyNext]_surveyVars => PacedInv'
<1> SUFFICES ASSUME PacedInv, [SurveyNext]_surveyVars PROVE PacedInv'
  OBVIOUS
<1>1. /\ TxEvery \in Nat \ {0} /\ clock \in Nat /\ retry \in Nat /\ phase \in Phases
      /\ radio \in [up : Uptime, level : Nat, at : Nat]
      /\ phase.start \in Nat /\ phase.sent \in Nat /\ phase.nextTx \in Nat /\ phase.oldest \in Nat
      /\ phase.n \in Nat /\ phase.sum \in Nat
      /\ radio.up \in Uptime /\ radio.level \in Nat /\ radio.at \in Nat
  BY SurveyAssumption DEF PacedInv, Phases
<1>2. CASE UNCHANGED surveyVars
  BY <1>2 DEF surveyVars, PacedInv, DutyIsKept
<1>3. ASSUME NEW up \in Uptime, NEW level \in Levels, Report(up, level) PROVE PacedInv'
  <2>1. radio' = [up |-> up, level |-> level, at |-> clock] /\ level \in Nat
        /\ UNCHANGED <<clock, phase, base, retry, step>>
    BY <1>3, SurveyAssumption DEF Report
  <2> QED BY <1>1, <2>1 DEF PacedInv, DutyIsKept
<1>4. CASE Sample
  <2>1. /\ step = "wait" /\ clock' = clock + 1 /\ phase' = Read(phase)
        /\ UNCHANGED <<radio, base, retry>>
    BY <1>4 DEF Sample
  <2>2. ~(retry > 0) /\ ~(retry' > 0)
    BY <2>1 DEF PacedInv
  <2>3. CASE ~Fresh(phase)
    <3>1. phase' = phase
      BY <2>1, <2>3 DEF Read
    <3> QED BY <1>1, <2>1, <2>2, <3>1 DEF PacedInv, DutyIsKept
  <2>4. CASE Fresh(phase)
    <3> DEFINE fst == IF phase.n = 0 THEN clock' ELSE phase.first
               old == IF radio.at < phase.oldest THEN radio.at ELSE phase.oldest
    <3>1. phase' = [phase EXCEPT !.prev = radio.up, !.n = phase.n + 1,
                      !.sum = phase.sum + radio.level, !.first = fst, !.last = clock', !.oldest = old]
      BY <2>1, <2>4 DEF Read
    <3>2. fst \in Nat /\ old \in Nat /\ old >= phase.start /\ clock' \in Nat
          /\ phase.sum + radio.level \in Nat /\ phase.n + 1 \in Nat
      BY <1>1, <2>1, <2>4 DEF Fresh, PacedInv, Phases
    <3> HIDE DEF fst, old
    <3>3. phase' \in Phases /\ phase'.start = phase.start /\ phase'.sent = phase.sent
          /\ phase'.nextTx = phase.nextTx /\ phase'.prev = radio.up /\ phase'.oldest = old
      BY <1>1, <3>1, <3>2 DEF Phases
    <3> QED BY <1>1, <2>1, <2>2, <3>2, <3>3 DEF PacedInv, DutyIsKept
  <2> QED BY <2>3, <2>4
<1>5. CASE Transmit
  <2>1. /\ Due \/ retry > 0
        /\ phase' = [phase EXCEPT !.sent = @ + 1, !.nextTx = NextTx]
        /\ retry' = 0 /\ UNCHANGED <<clock, radio, base, step>>
    BY <1>5 DEF Transmit
  <2>2. clock >= phase.nextTx
    BY <2>1 DEF Due, PacedInv
  <2>3. NextTx = phase.nextTx + TxEvery /\ NextTx \in Nat
    BY <1>1 DEF NextTx
  <2>4. /\ phase' \in Phases /\ phase'.start = phase.start /\ phase'.sent = phase.sent + 1
        /\ phase'.nextTx = phase.nextTx + TxEvery /\ phase'.prev = phase.prev
        /\ phase'.oldest = phase.oldest
    <3> DEFINE more == [phase EXCEPT !.sent = phase.sent + 1]
    <3>1. more \in Phases /\ more.start = phase.start /\ more.sent = phase.sent + 1
          /\ more.prev = phase.prev /\ more.oldest = phase.oldest
      BY <1>1 DEF Phases
    <3>2. phase' = [more EXCEPT !.nextTx = NextTx]
      BY <2>1
    <3> HIDE DEF more
    <3> QED BY <2>3, <3>1, <3>2 DEF Phases
  <2> DEFINE st == phase.start
             sn == phase.sent
             paced == sn * TxEvery
  <2>5. paced \in Nat /\ (sn + 1) * TxEvery = paced + TxEvery /\ sn + 1 - 1 = sn
    BY <1>1
  <2>6. phase.nextTx = st + paced
    BY DEF PacedInv
  <2> HIDE DEF paced
  <2>7. phase'.nextTx = phase'.start + phase'.sent * TxEvery
    BY <1>1, <2>4, <2>5, <2>6
  <2>8. (phase'.sent - 1) * TxEvery =< clock' - phase'.start
    BY <1>1, <2>1, <2>2, <2>4, <2>5, <2>6 DEF paced
  <2> QED BY <1>1, <2>1, <2>4, <2>7, <2>8 DEF PacedInv, DutyIsKept
<1>6. CASE TransmitFails
  <2>1. /\ step = "send"
        /\ \/ step' # "wait" /\ clock' = clock /\ retry' = retry
           \/ retry' = retry + 1 /\ clock' = clock + retry + 1 /\ step' = step
        /\ radio' = radio /\ phase' = phase
    BY <1>6 DEF TransmitFails
  <2>2. clock >= phase.nextTx
    BY <1>6 DEF TransmitFails, Due, PacedInv
  <2>3. clock' \in Nat /\ retry' \in Nat /\ clock' >= clock /\ step' # "wait"
    BY <1>1, <2>1
  <2> DEFINE paced == (phase.sent - 1) * TxEvery
  <2>4. paced \in Int
    BY <1>1
  <2>5. phase.sent > 0 => paced =< clock - phase.start
    BY DEF PacedInv, DutyIsKept
  <2> HIDE DEF paced
  <2>6. phase.sent > 0 => paced =< clock' - phase.start
    BY <1>1, <2>3, <2>4, <2>5
  <2> QED BY <1>1, <2>1, <2>2, <2>3, <2>6 DEF PacedInv, DutyIsKept, paced
<1>7. CASE NothingDue
  BY <1>7 DEF NothingDue, PacedInv, DutyIsKept
<1>8. ASSUME NEW why, why # "wait", Stops(why) PROVE PacedInv'
  BY <1>8 DEF Stops, PacedInv, DutyIsKept
<1>9. CASE ProbeEnds
  BY <1>8, <1>9, PhaseStarts DEF ProbeEnds, Over
<1>10. CASE BaselineEnds
  BY <1>8, <1>10, PhaseStarts DEF BaselineEnds, Over
<1>11. CASE LoadEnds
  <2>1. phase.hop + 1 \in Nat
    BY <1>1 DEF Phases
  <2> QED BY <1>8, <1>11, <2>1, PhaseStarts DEF LoadEnds, Over
<1>12. CASE ClosingEnds
  BY <1>8, <1>12 DEF ClosingEnds, Over
<1> QED
  BY <1>2, <1>3, <1>4, <1>5, <1>6, <1>7, <1>9, <1>10, <1>11, <1>12 DEF SurveyNext

----------------------------------------------------------------------------
(***************************************************************************)
(* Bundles: what one may cost, and what comes out of what arrives.         *)
(***************************************************************************)
Sending(c, b) == Busy(c) /\ call[c].bundle = b

\* No two calls send one bundle at a time, as with a single caller.
SendsApart == \A c, d \in Caller, b \in Bundle : Sending(c, b) /\ Sending(d, b) => c = d

Calls == {Idle} \cup {cl \in [bundle : Bundle, next : Nat, total : Nat] :
                         cl.next =< cl.total /\ cl.total =< MaxSymbols}

\* Where a call stands is what its bundle has cost, and where no call stands
\* the cursor is.
CostInv ==
    /\ call \in [Caller -> Calls]
    /\ cursor \in [Bundle -> 0 .. MaxSymbols]
    /\ spent \in [Bundle -> Nat]
    /\ \A b \in Bundle :
          /\ \A c \in Caller : Sending(c, b) => spent[b] = call[c].next
          /\ (\A c \in Caller : ~Sending(c, b)) => spent[b] = cursor[b]

\* What the outbox holds whoever else sends.
OutboxInv ==
    /\ call \in [Caller -> {Idle} \cup [bundle : Bundle, next : Nat, total : Nat]]
    /\ cursor \in [Bundle -> Nat]

Decoders == [rows : SUBSET Nat, spoilt : BOOLEAN, age : Nat]

\* The decoders a node holds are open, few, and none of them finished.
Held(open, finished) ==
    /\ IsFiniteSet(DOMAIN open) /\ Cardinality(DOMAIN open) =< MaxOpen
    /\ open \in [DOMAIN open -> Decoders]
    /\ \A b \in DOMAIN open : b \notin DOMAIN finished /\ ~Determined(open[b].rows)

InboxInv ==
    /\ air \in [Receiver -> SUBSET [bundle : Bundle, index : Nat, good : BOOLEAN]]
    /\ decoding = [rc \in Receiver |-> decoding[rc]]
    /\ done = [rc \in Receiver |-> done[rc]]
    /\ handed \in [Receiver -> SUBSET (Bundle \X {TRUE})]
    /\ \A rc \in Receiver : Held(decoding[rc], done[rc])

LEMMA IdleIsNoCall == \A c \in Caller : CostInv /\ Busy(c) =>
    /\ call[c] \in [bundle : Bundle, next : Nat, total : Nat]
    /\ call[c].bundle \in Bundle /\ call[c].next \in Nat /\ call[c].total \in Nat
    /\ call[c].next =< call[c].total /\ call[c].total =< MaxSymbols
BY DEF CostInv, Busy, Calls

LEMMA CostStarts == BsmpInit => CostInv
<1> SUFFICES ASSUME BsmpInit PROVE CostInv
  OBVIOUS
<1>1. MaxSymbols \in Nat
  BY OutboxAssumption
<1>2. \A c \in Caller : ~Busy(c)
  BY DEF BsmpInit, Busy
<1> QED BY <1>1, <1>2 DEF BsmpInit, CostInv, Sending, Calls

LEMMA InboxStarts == BsmpInit => InboxInv
<1> SUFFICES ASSUME BsmpInit PROVE InboxInv
  OBVIOUS
<1>1. IsFiniteSet({}) /\ Cardinality({}) = 0 /\ MaxOpen \in Nat
  BY FS_EmptySet, InboxAssumption
<1>2. DOMAIN Nothing = {}
  BY DEF Nothing
<1>3. Nothing \in [{} -> Decoders]
  BY DEF Nothing
<1>4. Held(Nothing, Nothing)
  BY <1>1, <1>2, <1>3 DEF Held
<1> HIDE DEF Nothing
<1> QED BY <1>4 DEF BsmpInit, InboxInv

----------------------------------------------------------------------------
\* A call that stands still, or one that ends where its bundle is left.
LEMMA OutboxRests ==
    ASSUME CostInv, UNCHANGED <<cursor, call, spent>>
    PROVE  CostInv'
BY DEF CostInv, Sending, Busy

LEMMA CallEnds ==
    ASSUME CostInv, SendsApart, NEW c \in Caller, Busy(c),
           cursor' = [cursor EXCEPT ![call[c].bundle] = call[c].next],
           call' = [call EXCEPT ![c] = Idle], spent' = spent
    PROVE  CostInv'
<1> DEFINE bb == call[c].bundle
<1>1. bb \in Bundle /\ call[c].next \in Nat /\ call[c].next =< MaxSymbols /\ MaxSymbols \in Nat
  BY IdleIsNoCall, OutboxAssumption
<1>2. call' \in [Caller -> Calls] /\ cursor' \in [Bundle -> 0 .. MaxSymbols]
  BY <1>1 DEF CostInv, Calls
<1>3. \A d \in Caller, b \in Bundle : Sending(d, b)' => d # c /\ Sending(d, b) /\ call'[d] = call[d]
  BY DEF Sending, Busy, CostInv
<1>4. \A d \in Caller, b \in Bundle : d # c /\ Sending(d, b) => Sending(d, b)'
  BY DEF Sending, Busy, CostInv
<1>5. Sending(c, bb)
  BY DEF Sending
<1> HIDE DEF bb
<1>6. ASSUME NEW b \in Bundle, \A d \in Caller : ~Sending(d, b)'
      PROVE  spent[b] = cursor'[b]
  <2>1. CASE b = bb
    BY <1>1, <1>5, <2>1 DEF CostInv, bb
  <2>2. CASE b # bb
    <3>1. \A d \in Caller : ~Sending(d, b)
      BY <1>4, <1>6, <2>2 DEF Sending, bb
    <3> QED BY <2>2, <3>1 DEF CostInv, bb
  <2> QED BY <2>1, <2>2
<1>7. \A b \in Bundle, d \in Caller : Sending(d, b)' => spent[b] = call'[d].next
  BY <1>3 DEF CostInv
<1> QED BY <1>2, <1>6, <1>7 DEF CostInv

LEMMA CallBegins ==
    ASSUME CostInv, SendsApart', NEW c \in Caller, NEW b \in Bundle, NEW rp \in Repairs,
           ~Busy(c), cursor[b] < MaxSymbols,
           call' = [call EXCEPT ![c] =
                      [bundle |-> b, next |-> cursor[b], total |-> Total(cursor[b], rp)]],
           UNCHANGED <<cursor, spent>>
    PROVE  CostInv'
<1> DEFINE cl == [bundle |-> b, next |-> cursor[b], total |-> Total(cursor[b], rp)]
<1>1. cursor[b] \in Nat /\ cursor[b] < MaxSymbols /\ K \in Nat \ {0} /\ rp \in Nat \ {0}
      /\ MaxSymbols \in Nat /\ MaxSymbols >= K
  <2>1. cursor[b] \in 0 .. MaxSymbols
    BY DEF CostInv
  <2> QED BY <2>1, OutboxAssumption
<1>2. Total(cursor[b], rp) \in Nat \ {0} /\ cursor[b] =< Total(cursor[b], rp)
      /\ Total(cursor[b], rp) =< MaxSymbols
  <2> DEFINE wanted == IF cursor[b] >= K + rp THEN cursor[b] + rp ELSE K + rp
  <2>1. wanted \in Nat \ {0} /\ cursor[b] =< wanted
    BY <1>1
  <2>2. Total(cursor[b], rp) = IF wanted > MaxSymbols THEN MaxSymbols ELSE wanted
    BY DEF Total
  <2> HIDE DEF wanted
  <2> QED BY <1>1, <2>1, <2>2
<1>3. cl \in Calls /\ cl # Idle
  BY <1>1, <1>2 DEF Calls, Idle
<1> HIDE DEF cl
<1>4. call' \in [Caller -> Calls] /\ call'[c] = cl /\ \A d \in Caller : d # c => call'[d] = call[d]
  BY <1>3 DEF CostInv, cl
<1>5. cl.bundle = b /\ cl.next = cursor[b]
  BY DEF cl
<1>6. Sending(c, b)' /\ \A bb \in Bundle : Sending(c, bb)' => bb = b
  BY <1>3, <1>4, <1>5 DEF Sending, Busy
<1>7. \A d \in Caller, bb \in Bundle : d # c => (Sending(d, bb)' <=> Sending(d, bb))
  BY <1>4 DEF Sending, Busy
<1>8. \A d \in Caller : ~Sending(d, b)
  <2> SUFFICES ASSUME NEW d \in Caller, Sending(d, b) PROVE FALSE
    OBVIOUS
  <2>1. d # c
    BY DEF Sending
  <2> QED BY <1>6, <1>7, <2>1 DEF SendsApart
<1>9. spent[b] = cursor[b]
  BY <1>8 DEF CostInv
<1>10. \A bb \in Bundle, d \in Caller : Sending(d, bb)' => spent[bb] = call'[d].next
  <2> TAKE bb \in Bundle, d \in Caller
  <2>1. CASE d = c
    BY <1>4, <1>5, <1>6, <1>9, <2>1
  <2>2. CASE d # c
    BY <1>4, <1>7, <2>2 DEF CostInv
  <2> QED BY <2>1, <2>2
<1>11. \A bb \in Bundle : (\A d \in Caller : ~Sending(d, bb)') => spent[bb] = cursor[bb]
  <2> TAKE bb \in Bundle
  <2> SUFFICES ASSUME \A d \in Caller : ~Sending(d, bb)' PROVE spent[bb] = cursor[bb]
    OBVIOUS
  <2>1. \A d \in Caller : ~Sending(d, bb)
    BY <1>7 DEF Sending
  <2> QED BY <2>1 DEF CostInv
<1> QED BY <1>4, <1>10, <1>11 DEF CostInv

LEMMA SymbolCosts ==
    ASSUME CostInv, SendsApart, NEW c \in Caller, SendSymbol(c)
    PROVE  CostInv'
<1> DEFINE bb == call[c].bundle
<1>1. /\ Busy(c) /\ call[c].next < call[c].total
      /\ call' = [call EXCEPT ![c].next = call[c].next + 1]
      /\ spent' = [spent EXCEPT ![bb] = IF @ > MaxSymbols THEN @ ELSE @ + 1]
      /\ UNCHANGED cursor
  BY DEF SendSymbol
<1>2. /\ bb \in Bundle /\ call[c].next \in Nat /\ call[c].total \in Nat /\ call[c].total =< MaxSymbols
      /\ MaxSymbols \in Nat /\ call[c] \in [bundle : Bundle, next : Nat, total : Nat]
  BY <1>1, IdleIsNoCall, OutboxAssumption
<1>3. Sending(c, bb) /\ spent[bb] = call[c].next
  BY <1>1, <1>2 DEF Sending, CostInv
<1> DEFINE cl == [call[c] EXCEPT !.next = call[c].next + 1]
<1>4. cl \in Calls /\ cl # Idle /\ cl.bundle = bb /\ cl.next = call[c].next + 1
  BY <1>1, <1>2 DEF Calls, Idle
<1> HIDE DEF cl
<1>5. call' = [call EXCEPT ![c] = cl]
  BY <1>1 DEF cl
<1>6. call' \in [Caller -> Calls] /\ call'[c] = cl /\ \A d \in Caller : d # c => call'[d] = call[d]
  BY <1>4, <1>5 DEF CostInv
<1> HIDE DEF bb
<1>7. \A d \in Caller, b \in Bundle : Sending(d, b)' <=> Sending(d, b)
  BY <1>1, <1>4, <1>6 DEF Sending, Busy, bb
<1>8. spent' \in [Bundle -> Nat] /\ spent'[bb] = call[c].next + 1
      /\ \A b \in Bundle : b # bb => spent'[b] = spent[b]
  BY <1>1, <1>2, <1>3 DEF CostInv
<1>9. \A b \in Bundle, d \in Caller : Sending(d, b)' => spent'[b] = call'[d].next
  <2> SUFFICES ASSUME NEW b \in Bundle, NEW d \in Caller, Sending(d, b)
               PROVE  spent'[b] = call'[d].next
    BY <1>7
  <2>1. CASE d = c
    BY <1>3, <1>4, <1>6, <1>8, <2>1 DEF Sending
  <2>2. CASE d # c
    <3>1. b # bb
      BY <1>3, <2>2 DEF SendsApart
    <3> QED BY <1>6, <1>8, <2>2, <3>1 DEF CostInv
  <2> QED BY <2>1, <2>2
<1>10. \A b \in Bundle : (\A d \in Caller : ~Sending(d, b)') => spent'[b] = cursor'[b]
  <2> SUFFICES ASSUME NEW b \in Bundle, \A d \in Caller : ~Sending(d, b)
               PROVE  spent'[b] = cursor[b]
    BY <1>1, <1>7
  <2>1. b # bb
    BY <1>3
  <2> QED BY <1>8, <2>1 DEF CostInv
<1> QED BY <1>1, <1>6, <1>8, <1>9, <1>10 DEF CostInv

LEMMA CostSteps == CostInv /\ SendsApart /\ SendsApart' /\ [BsmpNext]_bsmpVars => CostInv'
<1> SUFFICES ASSUME CostInv, SendsApart, SendsApart', [BsmpNext]_bsmpVars PROVE CostInv'
  OBVIOUS
<1>1. CASE UNCHANGED bsmpVars
  BY <1>1, OutboxRests DEF bsmpVars, outbox
<1>2. ASSUME NEW c \in Caller, NEW b \in Bundle, StartSend(c, b) \/ DropSend(c, b) PROVE CostInv'
  <2>1. CASE DropSend(c, b)
    BY <2>1, OutboxRests DEF DropSend, bsmpVars, outbox
  <2>2. CASE StartSend(c, b)
    BY <2>2, CallBegins DEF StartSend
  <2> QED BY <1>2, <2>1, <2>2
<1>3. ASSUME NEW c \in Caller, SendSymbol(c) PROVE CostInv'
  BY <1>3, SymbolCosts
<1>4. ASSUME NEW c \in Caller, SendRefused(c) PROVE CostInv'
  BY <1>4, CallEnds DEF SendRefused
<1>5. ASSUME NEW c \in Caller, FinishSend(c) PROVE CostInv'
  BY <1>5, CallEnds DEF FinishSend
<1>6. CASE CrashSender
  <2>1. MaxSymbols \in Nat
    BY OutboxAssumption
  <2>2. \A c \in Caller : ~Busy(c)'
    BY <1>6 DEF CrashSender, Busy
  <2> QED BY <1>6, <2>1, <2>2 DEF CrashSender, CostInv, Sending, Calls
<1>7. ASSUME NEW rc \in Receiver, Receive(rc) \/ KeyArrives(rc) \/ CrashReceiver(rc) PROVE CostInv'
  BY <1>7, OutboxRests DEF Receive, Deliver, KeyArrives, CrashReceiver, outbox
<1>8. CASE HoursPass
  BY <1>8, OutboxRests DEF HoursPass, outbox
<1> QED
  BY <1>1, <1>2, <1>3, <1>4, <1>5, <1>6, <1>7, <1>8 DEF BsmpNext, PromptNext, Send

LEMMA OutboxSteps == OutboxInv /\ [BsmpNext]_bsmpVars => OutboxInv'
<1> SUFFICES ASSUME OutboxInv, [BsmpNext]_bsmpVars PROVE OutboxInv'
  OBVIOUS
<1>1. ASSUME UNCHANGED <<call, cursor>> PROVE OutboxInv'
  BY <1>1 DEF OutboxInv
<1>2. CASE UNCHANGED bsmpVars
  BY <1>1, <1>2 DEF bsmpVars, outbox
<1>3. ASSUME NEW c \in Caller, NEW b \in Bundle, DropSend(c, b) PROVE OutboxInv'
  BY <1>1, <1>3 DEF DropSend, bsmpVars, outbox
<1>4. ASSUME NEW c \in Caller, NEW b \in Bundle, StartSend(c, b) PROVE OutboxInv'
  <2>1. PICK rp \in Repairs : call' = [call EXCEPT ![c] =
           [bundle |-> b, next |-> cursor[b], total |-> Total(cursor[b], rp)]]
    BY <1>4 DEF StartSend
  <2>2. cursor[b] \in Nat /\ rp \in Nat /\ K \in Nat /\ MaxSymbols \in Nat
    BY OutboxAssumption DEF OutboxInv
  <2>3. Total(cursor[b], rp) \in Nat
    BY <2>2 DEF Total
  <2> QED BY <1>4, <2>1, <2>2, <2>3 DEF StartSend, OutboxInv
<1>5. ASSUME NEW c \in Caller, SendSymbol(c) PROVE OutboxInv'
  <2>1. call[c] \in [bundle : Bundle, next : Nat, total : Nat]
    BY <1>5 DEF SendSymbol, Busy, OutboxInv
  <2>2. [call[c] EXCEPT !.next = call[c].next + 1] \in [bundle : Bundle, next : Nat, total : Nat]
    BY <2>1
  <2> QED BY <1>5, <2>2 DEF SendSymbol, OutboxInv
<1>6. ASSUME NEW c \in Caller, SendRefused(c) \/ FinishSend(c) PROVE OutboxInv'
  <2>1. call[c] \in [bundle : Bundle, next : Nat, total : Nat]
    BY <1>6 DEF SendRefused, FinishSend, Busy, OutboxInv
  <2> QED BY <1>6, <2>1 DEF SendRefused, FinishSend, OutboxInv
<1>7. CASE CrashSender
  BY <1>7 DEF CrashSender, OutboxInv
<1>8. ASSUME NEW rc \in Receiver, Receive(rc) \/ KeyArrives(rc) \/ CrashReceiver(rc)
      PROVE  OutboxInv'
  BY <1>1, <1>8 DEF Receive, Deliver, KeyArrives, CrashReceiver, outbox
<1>9. CASE HoursPass
  BY <1>1, <1>9 DEF HoursPass, outbox
<1> QED
  BY <1>2, <1>3, <1>4, <1>5, <1>6, <1>7, <1>8, <1>9 DEF BsmpNext, PromptNext, Send

----------------------------------------------------------------------------
\* What is left of the decoders a node held is held.
LEMMA FewerAreHeld ==
    ASSUME NEW open, NEW finished, NEW later, Held(open, finished),
           NEW S \in SUBSET DOMAIN open, \A b \in S : b \notin DOMAIN later
    PROVE  /\ Held(Only(open, S), later)
           /\ DOMAIN Only(open, S) = S /\ \A b \in S : Only(open, S)[b] = open[b]
<1>1. DOMAIN Only(open, S) = S /\ \A b \in S : Only(open, S)[b] = open[b]
  BY DEF Only
<1>2. IsFiniteSet(S) /\ Cardinality(S) =< Cardinality(DOMAIN open)
  BY FS_Subset DEF Held
<1>3. Cardinality(S) \in Nat /\ Cardinality(DOMAIN open) \in Nat /\ MaxOpen \in Nat
  BY <1>2, FS_CardinalityType, InboxAssumption DEF Held
<1>4. Only(open, S) \in [S -> Decoders]
  BY DEF Held, Only
<1> QED BY <1>1, <1>2, <1>3, <1>4 DEF Held

\* A decoder is added and the node is brought back to its cap.
LEMMA OneMoreIsHeld ==
    ASSUME NEW open, NEW finished, Held(open, finished), NEW b, NEW e \in Decoders,
           NEW kept \in Evicted(With(open, b, e), b)
    PROVE  /\ IsFiniteSet(DOMAIN kept) /\ Cardinality(DOMAIN kept) =< MaxOpen
           /\ DOMAIN kept \subseteq DOMAIN open \cup {b}
           /\ kept \in [DOMAIN kept -> Decoders]
           /\ \A x \in DOMAIN kept : kept[x] = IF x = b THEN e ELSE open[x]
<1> DEFINE more == With(open, b, e)
<1>1. /\ DOMAIN more = DOMAIN open \cup {b}
      /\ \A x \in DOMAIN more : more[x] = IF x = b THEN e ELSE open[x]
  BY DEF With
<1>2. more \in [DOMAIN more -> Decoders]
  BY <1>1 DEF With, Held
<1>3. IsFiniteSet(DOMAIN more) /\ Cardinality(DOMAIN more) \in Nat
      /\ Cardinality(DOMAIN more) =< MaxOpen + 1 /\ MaxOpen \in Nat
  <2>1. IsFiniteSet(DOMAIN open) /\ Cardinality(DOMAIN open) \in Nat /\ MaxOpen \in Nat
        /\ Cardinality(DOMAIN open) =< MaxOpen
    BY FS_CardinalityType, InboxAssumption DEF Held
  <2>2. IsFiniteSet(DOMAIN more) /\ Cardinality(DOMAIN more) =
          IF b \in DOMAIN open THEN Cardinality(DOMAIN open) ELSE Cardinality(DOMAIN open) + 1
    BY <1>1, <2>1, FS_AddElement
  <2> QED BY <2>1, <2>2
<1> HIDE DEF more
<1>4. CASE Cardinality(DOMAIN more) =< MaxOpen
  <2>1. kept = more
    BY <1>4 DEF Evicted, more
  <2> QED BY <1>1, <1>2, <1>3, <1>4, <2>1
<1>5. CASE ~(Cardinality(DOMAIN more) =< MaxOpen)
  <2>1. PICK v \in DOMAIN more : kept = Only(more, DOMAIN more \ {v})
    BY <1>5 DEF Evicted, more
  <2>2. DOMAIN kept = DOMAIN more \ {v} /\ \A x \in DOMAIN kept : kept[x] = more[x]
    BY <2>1 DEF Only
  <2>3. kept \in [DOMAIN kept -> Decoders]
    BY <1>2, <2>1 DEF Only
  <2>4. IsFiniteSet(DOMAIN kept) /\ Cardinality(DOMAIN kept) = Cardinality(DOMAIN more) - 1
    BY <1>3, <2>2, FS_RemoveElement
  <2> QED BY <1>1, <1>3, <2>2, <2>3, <2>4
<1> QED BY <1>4, <1>5

LEMMA DeliverKeeps ==
    ASSUME InboxInv, NEW rc \in Receiver, NEW s \in air[rc], Deliver(rc, s)
    PROVE  InboxInv'
<1> DEFINE b == s.bundle
           open == Unexpired(decoding[rc])
           over == Unexpired(done[rc])
           fed == Fed(open, s)
<1>1. /\ s \in [bundle : Bundle, index : Nat, good : BOOLEAN]
      /\ b \in Bundle /\ s.index \in Nat /\ s.good \in BOOLEAN
  BY DEF InboxInv
<1>2. /\ air' \in [Receiver -> SUBSET [bundle : Bundle, index : Nat, good : BOOLEAN]]
  BY DEF InboxInv, Deliver
<1>3. CASE b \in DOMAIN done[rc]
  <2>1. UNCHANGED <<decoding, done, handed>>
    BY <1>3 DEF Deliver
  <2> QED BY <1>2, <2>1 DEF InboxInv
<1>4. CASE b \notin DOMAIN done[rc]
  <2>1. PICK kept \in Evicted(With(open, b, fed), b) :
           IF Determined(fed.rows)
           THEN /\ decoding' = [decoding EXCEPT ![rc] = Without(kept, b)]
                /\ Decode(rc, b, fed.spoilt, over)
           ELSE /\ decoding' = [decoding EXCEPT ![rc] = kept]
                /\ done' = [done EXCEPT ![rc] = over]
                /\ UNCHANGED <<handed, stored>>
    BY <1>4 DEF Deliver
  <2>2. Held(decoding[rc], done[rc])
    BY DEF InboxInv
  <2>3. DOMAIN over \subseteq DOMAIN done[rc]
    BY DEF Unexpired, Only
  <2>4. Held(open, done[rc])
    <3> DEFINE young == {x \in DOMAIN decoding[rc] : decoding[rc][x].age =< TTL}
    <3>1. young \in SUBSET DOMAIN decoding[rc] /\ open = Only(decoding[rc], young)
      BY DEF Unexpired
    <3> HIDE DEF young, open
    <3>2. \A x \in young : x \notin DOMAIN done[rc]
      BY <2>2, <3>1 DEF Held
    <3> QED BY <2>2, <3>1, <3>2, FewerAreHeld
  <2>5. fed \in Decoders
    <3>1. b \in DOMAIN open => open[b] \in Decoders
      BY <2>4 DEF Held
    <3> HIDE DEF open
    <3> QED BY <1>1, <3>1 DEF Fed, Decoders
  <2> HIDE DEF open, over, fed, b
  <2>6. /\ IsFiniteSet(DOMAIN kept) /\ Cardinality(DOMAIN kept) =< MaxOpen
        /\ DOMAIN kept \subseteq DOMAIN open \cup {b}
        /\ kept \in [DOMAIN kept -> Decoders]
        /\ \A x \in DOMAIN kept : kept[x] = IF x = b THEN fed ELSE open[x]
    BY <2>1, <2>4, <2>5, OneMoreIsHeld
  <2>7. \A x \in DOMAIN kept : x # b => x \notin DOMAIN done[rc] /\ ~Determined(kept[x].rows)
    BY <2>4, <2>6 DEF Held
  <2>8. CASE ~Determined(fed.rows)
    <3>1. Held(kept, over)
      BY <1>4, <2>3, <2>6, <2>7, <2>8 DEF Held
    <3>2. decoding' = [decoding EXCEPT ![rc] = kept] /\ done' = [done EXCEPT ![rc] = over]
          /\ handed' = handed
      BY <2>1, <2>8
    <3> QED BY <1>2, <3>1, <3>2 DEF InboxInv
  <2>9. CASE Determined(fed.rows)
    <3>1. decoding' = [decoding EXCEPT ![rc] = Without(kept, b)] /\ Decode(rc, b, fed.spoilt, over)
      BY <2>1, <2>9
    <3>2. /\ DOMAIN Without(kept, b) = DOMAIN kept \ {b}
          /\ \A x \in DOMAIN kept \ {b} : Without(kept, b)[x] = kept[x]
          /\ Without(kept, b) \in [DOMAIN kept \ {b} -> Decoders]
      BY <2>6 DEF Without, Only
    <3>3. IsFiniteSet(DOMAIN kept \ {b}) /\ Cardinality(DOMAIN kept \ {b}) =< MaxOpen
      <4>1. IsFiniteSet(DOMAIN kept \ {b}) /\ Cardinality(DOMAIN kept \ {b}) =< Cardinality(DOMAIN kept)
        BY <2>6, FS_Subset
      <4> QED BY <2>6, <4>1, FS_CardinalityType, InboxAssumption
    <3>4. ASSUME NEW later, DOMAIN later \subseteq DOMAIN done[rc] \cup {b}
          PROVE  Held(Without(kept, b), later)
      BY <2>7, <3>2, <3>3, <3>4 DEF Held
    <3>5. \/ /\ done' = [done EXCEPT ![rc] = With(over, b, [age |-> 0])]
             /\ handed' = [handed EXCEPT ![rc] = @ \cup {<<b, TRUE>>}]
          \/ done' = [done EXCEPT ![rc] = over] /\ handed' = handed
      BY <3>1 DEF Decode, Intact
    <3>6. Held(Without(kept, b), With(over, b, [age |-> 0])) /\ Held(Without(kept, b), over)
      <4>1. DOMAIN With(over, b, [age |-> 0]) = DOMAIN over \cup {b}
        BY DEF With
      <4> QED BY <2>3, <3>4, <4>1
    <3>7. handed' \in [Receiver -> SUBSET (Bundle \X {TRUE})]
      <4>1. handed \in [Receiver -> SUBSET (Bundle \X {TRUE})]
        BY DEF InboxInv
      <4>2. <<b, TRUE>> \in Bundle \X {TRUE}
        BY <1>1 DEF b
      <4>3. handed[rc] \cup {<<b, TRUE>>} \in SUBSET (Bundle \X {TRUE})
        BY <4>1, <4>2
      <4> QED BY <3>5, <4>1, <4>3
    <3> QED BY <1>2, <3>1, <3>5, <3>6, <3>7 DEF InboxInv
  <2> QED BY <2>8, <2>9
<1> QED BY <1>3, <1>4

LEMMA HoursKeep == ASSUME InboxInv, HoursPass PROVE InboxInv'
<1>1. ASSUME NEW rc \in Receiver
      PROVE  Held(Older(decoding[rc]), Older(done[rc]))
  <2> DEFINE open == decoding[rc]
  <2>1. Held(open, done[rc])
    BY DEF InboxInv
  <2> HIDE DEF open
  <2>2. DOMAIN Older(open) = DOMAIN open /\ DOMAIN Older(done[rc]) = DOMAIN done[rc]
    BY DEF Older
  <2>3. \A b \in DOMAIN open : Older(open)[b] \in Decoders /\ Older(open)[b].rows = open[b].rows
    <3> TAKE b \in DOMAIN open
    <3>1. open[b] \in Decoders
      BY <2>1 DEF Held
    <3>2. Older(open)[b] = [open[b] EXCEPT !.age = IF @ > TTL THEN @ ELSE @ + 1]
      BY DEF Older
    <3> QED BY <3>1, <3>2 DEF Decoders
  <2>4. Older(open) \in [DOMAIN open -> Decoders]
    BY <2>2, <2>3 DEF Older
  <2>5. Held(Older(open), Older(done[rc]))
    BY <2>1, <2>2, <2>3, <2>4 DEF Held
  <2> QED BY <2>5 DEF open
<1> QED BY <1>1 DEF HoursPass, InboxInv

LEMMA InboxSteps == InboxInv /\ OutboxInv /\ [BsmpNext]_bsmpVars => InboxInv'
<1> SUFFICES ASSUME InboxInv, OutboxInv, [BsmpNext]_bsmpVars PROVE InboxInv'
  OBVIOUS
<1>1. ASSUME UNCHANGED <<air, decoding, done, handed>> PROVE InboxInv'
  BY <1>1 DEF InboxInv
<1>2. CASE UNCHANGED bsmpVars
  BY <1>1, <1>2 DEF bsmpVars, inbox
<1>3. ASSUME NEW c \in Caller, NEW b \in Bundle, StartSend(c, b) \/ DropSend(c, b) PROVE InboxInv'
  BY <1>1, <1>3 DEF StartSend, DropSend, bsmpVars, inbox
<1>4. ASSUME NEW c \in Caller, SendSymbol(c) PROVE InboxInv'
  <2>1. call[c].bundle \in Bundle /\ call[c].next \in Nat
    BY <1>4 DEF SendSymbol, Busy, OutboxInv
  <2>2. PICK fate \in [Receiver -> {"heard", "damaged", "missed"}] :
           air' = [rc \in Receiver |->
                     IF fate[rc] = "missed" THEN air[rc]
                     ELSE air[rc] \cup {[bundle |-> call[c].bundle, index |-> call[c].next,
                                        good |-> fate[rc] = "heard"]}]
    BY <1>4 DEF SendSymbol
  <2>3. \A rc \in Receiver : [bundle |-> call[c].bundle, index |-> call[c].next,
                              good |-> fate[rc] = "heard"] \in [bundle : Bundle, index : Nat, good : BOOLEAN]
    BY <2>1
  <2>4. air' \in [Receiver -> SUBSET [bundle : Bundle, index : Nat, good : BOOLEAN]]
    BY <2>2, <2>3 DEF InboxInv
  <2> QED BY <1>4, <2>4 DEF SendSymbol, inbox, InboxInv
<1>5. ASSUME NEW c \in Caller, SendRefused(c) \/ FinishSend(c) PROVE InboxInv'
  BY <1>1, <1>5 DEF SendRefused, FinishSend, inbox
<1>6. CASE CrashSender
  BY <1>1, <1>6 DEF CrashSender, inbox
<1>7. ASSUME NEW rc \in Receiver, Receive(rc) PROVE InboxInv'
  BY <1>7, DeliverKeeps DEF Receive
<1>8. ASSUME NEW rc \in Receiver, KeyArrives(rc) PROVE InboxInv'
  BY <1>1, <1>8 DEF KeyArrives
<1>9. ASSUME NEW rc \in Receiver, CrashReceiver(rc) PROVE InboxInv'
  <2>1. Held(Nothing, Nothing)
    <3>1. IsFiniteSet({}) /\ Cardinality({}) = 0 /\ MaxOpen \in Nat
      BY FS_EmptySet, InboxAssumption
    <3> QED BY <3>1 DEF Held, Nothing
  <2> HIDE DEF Nothing
  <2> QED BY <1>9, <2>1 DEF CrashReceiver, InboxInv
<1>10. CASE HoursPass
  BY <1>10, HoursKeep
<1> QED
  BY <1>2, <1>3, <1>4, <1>5, <1>6, <1>7, <1>8, <1>9, <1>10 DEF BsmpNext, PromptNext, Send

LEMMA CostHolds == CostInv => CostIsBounded
<1> SUFFICES ASSUME CostInv, NEW b \in Bundle PROVE spent[b] =< MaxSymbols
  BY DEF CostIsBounded
<1>1. MaxSymbols \in Nat
  BY OutboxAssumption
<1>2. CASE \A c \in Caller : ~Sending(c, b)
  BY <1>1, <1>2 DEF CostInv
<1>3. ASSUME NEW c \in Caller, Sending(c, b) PROVE spent[b] =< MaxSymbols
  <2>1. spent[b] = call[c].next /\ Busy(c)
    BY <1>3 DEF CostInv, Sending
  <2> QED BY <1>1, <2>1, IdleIsNoCall
<1> QED BY <1>2, <1>3

LEMMA InboxHolds == InboxInv => GenuineOnly /\ OpenIsUnfinished
<1>1. InboxInv => GenuineOnly
  BY DEF GenuineOnly, InboxInv
<1>2. InboxInv => OpenIsUnfinished
  BY DEF OpenIsUnfinished, InboxInv, Held
<1> QED BY <1>1, <1>2

----------------------------------------------------------------------------
(***************************************************************************)
(* The harness: its queue is in order, and its logs say what was done to   *)
(* them.                                                                   *)
(***************************************************************************)
\* Nothing waits that was due, and nobody has sent more than was earned.
QueueInv ==
    /\ instant \in Nat
    /\ \A e \in events : /\ e.at \in Int /\ e.at >= instant
                         /\ e.to \in Station /\ e.rec \in Signable
    /\ onAir \in [Station -> Nat]
    /\ \A s \in Station : onAir[s] =< instant
    /\ inboxes \in [Station -> Seq(Signable)]

Stored == [body : {rec.body : rec \in Signable}, origin : Station, seq : 1..MaxSlot,
           whole : BOOLEAN]
Log == [1..MaxSlot -> {Vacant} \cup Stored]
Harms == [kind : {"drop", "replace", "tamper"}, at : Station,
          slot : Station \X (1..MaxSlot), under : BOOLEAN]

LogTypes ==
    /\ logs \in [Station -> [Station -> Log]]
    /\ marks \in [Station -> [Station -> 0..MaxSlot]]
    /\ harm \in {Unharmed} \cup Harms

\* Slots 1 to q are taken and the next is not.
TakenUpTo(log, q) ==
    /\ \A i \in 1..q : log[i] # Vacant
    /\ q = MaxSlot \/ log[q + 1] = Vacant

\* A log nobody harmed verifies, and its marks are at the end of what it has.
UnharmedInv ==
    \A s \in Station : harm.kind = "none" \/ harm.at # s =>
        VerifyAll(s) /\ \A o \in Station : TakenUpTo(logs[s][o], marks[s][o])

\* What was done stays where it was done: a slot that is taken is not written.
Harmed == logs[harm.at][harm.slot[1]][harm.slot[2]]
HarmedInv ==
    /\ harm.kind = "replace" => Harmed \in Stored /\ <<Harmed.origin, Harmed.seq>> # harm.slot
    /\ harm.kind = "tamper" => Harmed \in Stored /\ Harmed.whole = FALSE
    /\ harm.kind = "drop" /\ harm.under => harm.slot[2] =< marks[harm.at][harm.slot[1]]

LogInv == LogTypes /\ UnharmedInv /\ HarmedInv

----------------------------------------------------------------------------
LEMMA StoredIsTaken == Vacant \notin Stored
<1> SUFFICES ASSUME NEW st \in Stored, st = Vacant PROVE FALSE
  OBVIOUS
<1>1. "whole" \in DOMAIN st
  BY DEF Stored
<1>2. DOMAIN st = {"body"}
  BY DEF Vacant
<1> QED BY <1>1, <1>2

LEMMA MarkIsHighWater ==
    ASSUME NEW log, NEW q \in 0..MaxSlot, TakenUpTo(log, q)
    PROVE  ContiguousHighWater(log) = q
<1>1. MaxSlot \in Nat
  BY HarnessAssumption
<1>2. ASSUME NEW x \in 0..MaxSlot, TakenUpTo(log, x) PROVE x = q
  <2>1. CASE x < q
    BY <1>1, <1>2, <2>1 DEF TakenUpTo
  <2>2. CASE q < x
    BY <1>1, <1>2, <2>2 DEF TakenUpTo
  <2> QED BY <1>1, <2>1, <2>2
<1>3. ContiguousHighWater(log) = CHOOSE x \in 0..MaxSlot : TakenUpTo(log, x)
  BY DEF ContiguousHighWater, TakenUpTo
<1> QED BY <1>2, <1>3

\* What a mark is below the end of the run it is in.
LEMMA HighWaterExists ==
    ASSUME NEW log, NEW q \in 0..MaxSlot
    PROVE  \E x \in q..MaxSlot : /\ \A i \in q + 1..x : log[i] # Vacant
                                 /\ x = MaxSlot \/ log[x + 1] = Vacant
<1>1. MaxSlot \in Nat
  BY HarnessAssumption
<1> DEFINE Ends == {x \in q..MaxSlot : x = MaxSlot \/ log[x + 1] = Vacant}
<1>2. Ends \subseteq Nat /\ MaxSlot \in Ends
  BY <1>1
<1>3. PICK x \in Ends : \A y \in Ends : x =< y
  BY <1>2, LeastNat
<1>4. ASSUME NEW i \in q + 1..x, log[i] = Vacant PROVE FALSE
  <2>1. i - 1 \in q..MaxSlot /\ (i - 1) + 1 = i /\ i - 1 < x
    BY <1>1, <1>3
  <2>2. i - 1 \in Ends
    BY <1>4, <2>1
  <2> QED BY <1>1, <1>3, <2>1, <2>2
<1> QED BY <1>3, <1>4

\* The end of the run that goes on from q.
RunEndsAt(log, q, x) ==
    /\ \A i \in q + 1..x : log[i] # Vacant
    /\ x = MaxSlot \/ log[x + 1] = Vacant

LEMMA AdvancedIsOn ==
    ASSUME NEW log, NEW q \in 0..MaxSlot
    PROVE  Advanced(q, log) \in q..MaxSlot /\ RunEndsAt(log, q, Advanced(q, log))
<1>1. \E x \in q..MaxSlot : RunEndsAt(log, q, x)
  BY HighWaterExists DEF RunEndsAt
<1>2. Advanced(q, log) = CHOOSE x \in q..MaxSlot : RunEndsAt(log, q, x)
  BY DEF Advanced, RunEndsAt
<1> QED BY <1>1, <1>2

\* Of what a log holds there is a first.
LEMMA FirstIsHeld ==
    ASSUME NEW s \in Station, Slots(s) # {}
    PROVE  First(s) \in Slots(s)
<1>1. Station \subseteq Nat /\ MaxSlot \in Nat
  BY HarnessAssumption
<1>2. \A x \in Slots(s) : x[1] \in Nat /\ x[2] \in Nat /\ x = <<x[1], x[2]>>
  <2> TAKE x \in Slots(s)
  <2>1. x \in Station \X (1..MaxSlot)
    BY DEF Slots
  <2>2. x[1] \in Station /\ x[2] \in 1..MaxSlot /\ x = <<x[1], x[2]>>
    BY <2>1
  <2> QED BY <1>1, <2>2
<1> DEFINE Firsts == {x[1] : x \in Slots(s)}
<1>3. PICK o \in Firsts : \A y \in Firsts : o =< y
  BY <1>2, LeastNat
<1> DEFINE Seconds == {x[2] : x \in {y \in Slots(s) : y[1] = o}}
<1>4. PICK q \in Seconds : \A y \in Seconds : q =< y
  <2>1. Seconds \subseteq Nat /\ Seconds # {}
    BY <1>2, <1>3
  <2> HIDE DEF Seconds
  <2> QED BY <2>1, LeastNat
<1>5. PICK x \in Slots(s) : x[1] = o /\ x[2] = q
  BY <1>4
<1>6. \A y \in Slots(s) : x[1] < y[1] \/ (x[1] = y[1] /\ x[2] <= y[2])
  <2> TAKE y \in Slots(s)
  <2>1. o =< y[1]
    BY <1>3
  <2>2. CASE y[1] = o
    <3>1. y[2] \in Seconds
      BY <2>2
    <3> QED BY <1>4, <1>5, <2>2, <3>1
  <2> QED BY <1>2, <1>5, <2>1, <2>2
<1> QED BY <1>5, <1>6 DEF First

LEMMA OneSlotChanges ==
    ASSUME LogTypes, NEW s \in Station, NEW o \in Station, NEW q \in 1..MaxSlot,
           NEW st \in {Vacant} \cup Stored
    PROVE  LET later == [logs EXCEPT ![s][o][q] = st]
           IN  /\ later \in [Station -> [Station -> Log]]
               /\ later[s][o][q] = st
               /\ \A t \in Station : t # s => later[t] = logs[t]
               /\ \A oo \in Station : oo # o => later[s][oo] = logs[s][oo]
               /\ \A x \in 1..MaxSlot : x # q => later[s][o][x] = logs[s][o][x]
<1>1. logs \in [Station -> [Station -> Log]] /\ logs[s] \in [Station -> Log] /\ logs[s][o] \in Log
  BY DEF LogTypes
<1>2. [logs[s][o] EXCEPT ![q] = st] \in Log
  BY <1>1 DEF Log
<1> DEFINE log == [logs[s][o] EXCEPT ![q] = st]
           ofs == [logs[s] EXCEPT ![o] = log]
<1>3. ofs \in [Station -> Log] /\ ofs[o] = log /\ \A oo \in Station : oo # o => ofs[oo] = logs[s][oo]
  BY <1>1, <1>2
<1> DEFINE later == [logs EXCEPT ![s] = ofs]
<1>4. /\ later \in [Station -> [Station -> Log]] /\ later[s] = ofs
      /\ \A t \in Station : t # s => later[t] = logs[t]
  BY <1>1, <1>3
<1>5. log[q] = st /\ \A x \in 1..MaxSlot : x # q => log[x] = logs[s][o][x]
  BY <1>1 DEF Log
<1>6. later = [logs EXCEPT ![s][o][q] = st]
  BY Zenon
<1> HIDE DEF log, ofs, later
<1> QED BY <1>3, <1>4, <1>5, <1>6

----------------------------------------------------------------------------
LEMMA LogsRest ==
    ASSUME LogInv, UNCHANGED <<logs, marks, harm>>
    PROVE  LogInv'
<1>1. LogTypes'
  BY DEF LogInv, LogTypes
<1>2. \A s \in Station : VerifyAll(s) => VerifyAll(s)'
  BY DEF VerifyAll, Slots
<1>3. UnharmedInv'
  BY <1>2 DEF LogInv, UnharmedInv
<1>4. Harmed' = Harmed
  BY DEF Harmed
<1>5. HarmedInv'
  BY <1>4 DEF LogInv, HarmedInv
<1> QED BY <1>1, <1>3, <1>5 DEF LogInv

LEMMA AppliesKeeps ==
    ASSUME LogInv, NEW s \in Station, NEW rec \in Signable, Applies(s, rec), harm' = harm
    PROVE  LogInv'
<1>1. CASE ~Admitted(s, rec)
  <2>1. UNCHANGED <<logs, marks, harm>>
    BY <1>1 DEF Applies
  <2> QED BY <2>1, LogsRest
<1>2. CASE Admitted(s, rec)
  <2> DEFINE st == [body |-> rec.body, origin |-> rec.origin, seq |-> rec.seq, whole |-> TRUE]
             o == rec.origin
             q == rec.seq
  <2>1. o \in Station /\ q \in 1..MaxSlot /\ MaxSlot \in Nat
    BY HarnessAssumption
  <2>2. st \in Stored /\ st # Vacant /\ st.whole /\ st.origin = o /\ st.seq = q
    <3>1. rec.body \in {rc.body : rc \in Signable}
      OBVIOUS
    <3>2. st \in Stored
      BY <2>1, <3>1 DEF Stored
    <3> QED BY <3>2, StoredIsTaken
  <2>3. /\ logs[s][o][q] = Vacant /\ o \in Trusts[s]
        /\ logs' = [logs EXCEPT ![s][o][q] = st]
        /\ marks' = [marks EXCEPT ![s] = [oo \in Station |-> Advanced(marks[s][oo], logs'[s][oo])]]
    BY <1>2 DEF Applies, Admitted
  <2> HIDE DEF st, o, q
  <2>4. LogTypes
    BY DEF LogInv
  <2>5. /\ logs' \in [Station -> [Station -> Log]]
        /\ logs'[s][o][q] = st
        /\ \A t \in Station : t # s => logs'[t] = logs[t]
        /\ \A oo \in Station : oo # o => logs'[s][oo] = logs[s][oo]
        /\ \A x \in 1..MaxSlot : x # q => logs'[s][o][x] = logs[s][o][x]
    BY <2>1, <2>2, <2>3, <2>4, OneSlotChanges
  <2>6. ASSUME NEW t \in Station, NEW oo \in Station, NEW x \in 1..MaxSlot, logs[t][oo][x] # Vacant
        PROVE  logs'[t][oo][x] = logs[t][oo][x]
    BY <2>3, <2>5, <2>6
  <2>7. ASSUME NEW oo \in Station
        PROVE  /\ Advanced(marks[s][oo], logs'[s][oo]) \in marks[s][oo]..MaxSlot
               /\ Advanced(marks[s][oo], logs'[s][oo]) \in 0..MaxSlot
               /\ RunEndsAt(logs'[s][oo], marks[s][oo], Advanced(marks[s][oo], logs'[s][oo]))
    <3>1. marks[s][oo] \in 0..MaxSlot
      BY <2>4 DEF LogTypes
    <3>2. /\ Advanced(marks[s][oo], logs'[s][oo]) \in marks[s][oo]..MaxSlot
          /\ RunEndsAt(logs'[s][oo], marks[s][oo], Advanced(marks[s][oo], logs'[s][oo]))
      BY <3>1, AdvancedIsOn
    <3> QED BY <2>1, <3>1, <3>2
  <2>8. /\ marks' \in [Station -> [Station -> 0..MaxSlot]]
        /\ \A t \in Station : t # s => marks'[t] = marks[t]
        /\ \A oo \in Station : marks'[s][oo] = Advanced(marks[s][oo], logs'[s][oo])
    <3>1. [oo \in Station |-> Advanced(marks[s][oo], logs'[s][oo])] \in [Station -> 0..MaxSlot]
      BY <2>7
    <3> QED BY <2>3, <2>4, <3>1 DEF LogTypes
  <2>9. LogTypes'
    BY <2>4, <2>5, <2>8 DEF LogTypes
  <2>10. ASSUME NEW t \in Station, harm.kind = "none" \/ harm.at # t
         PROVE  VerifyAll(t)' /\ \A oo \in Station : TakenUpTo(logs'[t][oo], marks'[t][oo])
    <3>1. VerifyAll(t) /\ \A oo \in Station : TakenUpTo(logs[t][oo], marks[t][oo])
      BY <2>10 DEF LogInv, UnharmedInv
    <3>2. CASE t # s
      <4>1. logs'[t] = logs[t] /\ marks'[t] = marks[t]
        BY <2>5, <2>8, <3>2
      <4> QED BY <3>1, <4>1 DEF VerifyAll, Slots
    <3>3. CASE t = s
      <4>1. ASSUME NEW x \in Slots(s)'
            PROVE  LET sr == logs'[s][x[1]][x[2]]
                   IN  x[1] \in Trusts[s] /\ sr.whole /\ <<sr.origin, sr.seq>> = x
        <5>1. x \in Station \X (1..MaxSlot) /\ logs'[s][x[1]][x[2]] # Vacant /\ x = <<x[1], x[2]>>
          BY DEF Slots
        <5>2. CASE x = <<o, q>>
          BY <2>2, <2>3, <2>5, <5>2
        <5>3. CASE x # <<o, q>>
          <6>1. logs'[s][x[1]][x[2]] = logs[s][x[1]][x[2]]
            BY <2>5, <5>1, <5>3
          <6>2. x \in Slots(s)
            BY <5>1, <6>1 DEF Slots
          <6> QED BY <3>1, <3>3, <6>1, <6>2 DEF VerifyAll
        <5> QED BY <5>2, <5>3
      <4>2. ASSUME NEW oo \in Station PROVE TakenUpTo(logs'[s][oo], marks'[s][oo])
        <5>1. marks[s][oo] \in 0..MaxSlot /\ TakenUpTo(logs[s][oo], marks[s][oo])
          BY <2>4, <3>1, <3>3 DEF LogTypes
        <5> DEFINE x == Advanced(marks[s][oo], logs'[s][oo])
        <5>2. /\ x \in marks[s][oo]..MaxSlot
              /\ \A i \in marks[s][oo] + 1..x : logs'[s][oo][i] # Vacant
              /\ x = MaxSlot \/ logs'[s][oo][x + 1] = Vacant
          BY <2>7 DEF RunEndsAt
        <5>3. marks'[s][oo] = x
          BY <2>8
        <5> HIDE DEF x
        <5>4. \A i \in 1..x : logs'[s][oo][i] # Vacant
          <6> TAKE i \in 1..x
          <6>1. CASE i =< marks[s][oo]
            <7>1. i \in 1..MaxSlot /\ i \in 1..marks[s][oo]
              BY <2>1, <5>1, <5>2, <6>1
            <7> QED BY <2>6, <5>1, <7>1 DEF TakenUpTo
          <6>2. CASE i > marks[s][oo]
            <7>1. i \in marks[s][oo] + 1..x
              BY <5>1, <5>2, <6>2
            <7> QED BY <5>2, <7>1
          <6> QED BY <5>1, <6>1, <6>2
        <5> QED BY <5>2, <5>3, <5>4 DEF TakenUpTo
      <4> QED BY <3>3, <4>1, <4>2 DEF VerifyAll
    <3> QED BY <3>2, <3>3
  <2>11. HarmedInv'
    <3>1. CASE harm.kind = "none"
      BY <3>1 DEF HarmedInv
    <3>2. CASE harm.kind # "none"
      <4>1. /\ harm.at \in Station /\ harm.slot[1] \in Station /\ harm.slot[2] \in 1..MaxSlot
        BY <2>4, <3>2 DEF LogTypes, Harms, Unharmed
      <4>2. Harmed \in Stored => Harmed' = Harmed
        BY <2>6, <4>1, StoredIsTaken DEF Harmed
      <4>3. marks[harm.at][harm.slot[1]] =< marks'[harm.at][harm.slot[1]]
        <5>1. CASE harm.at = s
          <6>1. Advanced(marks[s][harm.slot[1]], logs'[s][harm.slot[1]]) \in marks[s][harm.slot[1]]..MaxSlot
            BY <2>7, <4>1
          <6>2. marks[s][harm.slot[1]] \in 0..MaxSlot
            BY <2>4, <4>1 DEF LogTypes
          <6> QED BY <2>1, <2>8, <4>1, <5>1, <6>1, <6>2
        <5>2. CASE harm.at # s
          <6>1. marks[harm.at][harm.slot[1]] \in 0..MaxSlot
            BY <2>4, <4>1 DEF LogTypes
          <6> QED BY <2>1, <2>8, <4>1, <5>2, <6>1
        <5> QED BY <5>1, <5>2
      <4>4. marks[harm.at][harm.slot[1]] \in Nat /\ marks'[harm.at][harm.slot[1]] \in Nat
            /\ harm.slot[2] \in Nat
        BY <2>1, <2>4, <2>8, <4>1 DEF LogTypes
      <4>5. HarmedInv
        BY DEF LogInv
      <4>6. harm.kind = "replace" => Harmed' \in Stored /\ <<Harmed'.origin, Harmed'.seq>> # harm.slot
        BY <4>2, <4>5 DEF HarmedInv
      <4>7. harm.kind = "tamper" => Harmed' \in Stored /\ Harmed'.whole = FALSE
        BY <4>2, <4>5 DEF HarmedInv
      <4>8. harm.kind = "drop" /\ harm.under => harm.slot[2] =< marks'[harm.at][harm.slot[1]]
        BY <4>3, <4>4, <4>5 DEF HarmedInv
      <4> QED BY <4>6, <4>7, <4>8 DEF HarmedInv
    <3> QED BY <3>1, <3>2
  <2> QED BY <2>9, <2>10, <2>11 DEF LogInv, UnharmedInv
<1> QED BY <1>1, <1>2

LEMMA CorruptKeeps ==
    ASSUME LogInv, NEW s \in Station, NEW kind \in {"drop", "replace", "tamper"},
           NEW st \in {Vacant} \cup Stored, Corrupt(s, kind, st),
           kind = "replace" => st \in Stored /\ <<st.origin, st.seq>> # First(s),
           kind = "tamper" => st \in Stored /\ st.whole = FALSE
    PROVE  LogInv'
<1> DEFINE o == First(s)[1]
           q == First(s)[2]
           low == q <= marks[s][o]
           hh == [kind |-> kind, at |-> s, slot |-> First(s), under |-> low]
<1>1. /\ Slots(s) # {} /\ harm = Unharmed /\ harm' = hh /\ marks' = marks
      /\ logs' = [logs EXCEPT ![s][o][q] = st]
  BY DEF Corrupt
<1>2. First(s) \in Station \X (1..MaxSlot)
  BY <1>1, FirstIsHeld DEF Slots
<1>3. o \in Station /\ q \in 1..MaxSlot
  BY <1>2
<1>4. hh \in Harms /\ hh.kind = kind /\ hh.at = s /\ hh.slot = First(s)
      /\ hh.under = low
  <2>1. low \in BOOLEAN
    OBVIOUS
  <2> HIDE DEF low
  <2> QED BY <1>2, <2>1 DEF Harms
<1> HIDE DEF hh
<1>5. LogTypes /\ UnharmedInv
  BY DEF LogInv
<1>6. /\ logs' \in [Station -> [Station -> Log]]
      /\ logs'[s][o][q] = st
      /\ \A t \in Station : t # s => logs'[t] = logs[t]
  BY <1>1, <1>3, <1>5, OneSlotChanges
<1>7. LogTypes'
  BY <1>1, <1>4, <1>5, <1>6 DEF LogTypes
<1>8. UnharmedInv'
  <2> SUFFICES ASSUME NEW t \in Station, t # s
               PROVE  VerifyAll(t)' /\ \A oo \in Station : TakenUpTo(logs'[t][oo], marks'[t][oo])
    BY <1>1, <1>4 DEF UnharmedInv
  <2>1. VerifyAll(t) /\ \A oo \in Station : TakenUpTo(logs[t][oo], marks[t][oo])
    BY <1>1, <1>5 DEF UnharmedInv, Unharmed
  <2>2. logs'[t] = logs[t] /\ marks'[t] = marks[t]
    BY <1>1, <1>6
  <2> QED BY <2>1, <2>2 DEF VerifyAll, Slots
<1>9. HarmedInv'
  <2>1. Harmed' = st
    BY <1>1, <1>4, <1>6 DEF Harmed
  <2> QED BY <1>1, <1>4, <2>1 DEF HarmedInv
<1> QED BY <1>7, <1>8, <1>9 DEF LogInv

LEMMA HarnessStarts == SimInit => QueueInv /\ LogInv
<1> SUFFICES ASSUME SimInit PROVE QueueInv /\ LogInv
  OBVIOUS
<1>1. QueueInv
  BY DEF SimInit, QueueInv
<1>2. MaxSlot \in Nat
  BY HarnessAssumption
<1>3. \A s, o \in Station : logs[s][o] = [q \in 1..MaxSlot |-> Vacant] /\ marks[s][o] = 0
  BY DEF SimInit
<1>4. LogTypes
  <2>1. [q \in 1..MaxSlot |-> Vacant] \in Log
    BY DEF Log
  <2> QED BY <1>2, <2>1 DEF SimInit, LogTypes
<1>5. \A s \in Station : Slots(s) = {}
  <2> SUFFICES ASSUME NEW s \in Station, NEW x \in Slots(s) PROVE FALSE
    OBVIOUS
  <2>1. x \in Station \X (1..MaxSlot) /\ logs[s][x[1]][x[2]] # Vacant
    BY DEF Slots
  <2>2. x[1] \in Station /\ x[2] \in 1..MaxSlot
    BY <2>1
  <2>3. logs[s][x[1]] = [q \in 1..MaxSlot |-> Vacant]
    BY <1>3, <2>2
  <2>4. logs[s][x[1]][x[2]] = Vacant
    BY <2>2, <2>3
  <2> QED BY <2>1, <2>4
<1>6. \A s, o \in Station : TakenUpTo(logs[s][o], marks[s][o])
  <2> SUFFICES ASSUME NEW s \in Station, NEW o \in Station
               PROVE  TakenUpTo(logs[s][o], 0)
    BY <1>3
  <2> QED BY <1>2, <1>3 DEF TakenUpTo
<1>7. UnharmedInv
  BY <1>5, <1>6 DEF UnharmedInv, VerifyAll
<1>8. HarmedInv
  BY DEF SimInit, HarmedInv, Unharmed
<1> QED BY <1>1, <1>4, <1>7, <1>8 DEF LogInv

LEMMA QueueSteps == QueueInv /\ [SimNext]_simVars => QueueInv'
<1> SUFFICES ASSUME QueueInv, [SimNext]_simVars PROVE QueueInv'
  OBVIOUS
<1>1. ASSUME UNCHANGED <<instant, events, onAir, inboxes>> PROVE QueueInv'
  BY <1>1 DEF QueueInv
<1>2. CASE UNCHANGED simVars
  BY <1>1, <1>2 DEF simVars
<1>3. ASSUME NEW s \in Station, NEW t \in Station, Sends(s, t) PROVE QueueInv'
  <2>1. PICK rec \in Signable : SimSend(s, t, rec)
    BY <1>3 DEF Sends
  <2>2. onAir' \in [Station -> Nat] /\ \A x \in Station : onAir'[x] =< instant
    BY <2>1 DEF SimSend, QueueInv, Allowance
  <2>3. \A e \in events' : e.at \in Int /\ e.at >= instant /\ e.to \in Station /\ e.rec \in Signable
    <3>1. CASE events' = events
      BY <3>1 DEF QueueInv
    <3>2. ASSUME NEW l \in Latency, NEW d \in Latency, NEW j \in Jitter \cup {0}, NEW twice \in BOOLEAN,
                 events' = events
                    \cup {Event(s, t, rec, instant + Delay(l, j), scheduled + 1)}
                    \cup (IF twice THEN {Event(s, t, rec, instant + Delay(l, j) + d,
                                               scheduled + 2)} ELSE {})
          PROVE  \A e \in events' : e.at \in Int /\ e.at >= instant /\ e.to \in Station /\ e.rec \in Signable
      <4>1. l \in Nat /\ d \in Nat /\ j \in Int /\ instant \in Nat
        BY HarnessAssumption DEF QueueInv
      <4>2. Delay(l, j) \in Nat
        BY <4>1 DEF Delay
      <4> QED BY <3>2, <4>1, <4>2 DEF QueueInv, Event
    <3> QED BY <2>1, <3>1, <3>2 DEF SimSend
  <2> QED BY <2>1, <2>2, <2>3 DEF SimSend, QueueInv
<1>4. CASE StepEvent
  <2>1. PICK e \in events : /\ \A f \in events \ {e} : Precedes(e, f)
                            /\ events' = events \ {e}
                            /\ instant' = IF e.at > instant THEN e.at ELSE instant
                            /\ inboxes' = Received(e)
    BY <1>4 DEF StepEvent
  <2>2. e.at \in Int /\ e.at >= instant /\ e.to \in Station /\ e.rec \in Signable /\ instant \in Nat
    BY DEF QueueInv
  <2>3. instant' = e.at /\ instant' \in Nat
    BY <2>1, <2>2
  <2>4. \A f \in events' : f.at >= instant'
    BY <2>1, <2>2, <2>3 DEF Precedes, QueueInv
  <2>5. inboxes' \in [Station -> Seq(Signable)]
    <3>1. inboxes[e.to] \in Seq(Signable)
      BY <2>2 DEF QueueInv
    <3>2. Append(inboxes[e.to], e.rec) \in Seq(Signable)
      BY <2>2, <3>1
    <3> QED BY <2>1, <3>2 DEF Received, QueueInv
  <2>6. \A s \in Station : onAir[s] =< instant'
    BY <2>2, <2>3 DEF QueueInv
  <2> QED BY <1>4, <2>1, <2>3, <2>4, <2>5, <2>6 DEF StepEvent, QueueInv
<1>5. CASE RunEnds
  BY <1>5 DEF RunEnds, QueueInv
<1>6. CASE Heal
  BY <1>1, <1>6 DEF Heal
<1>7. ASSUME NEW s \in Station, SetUp(s) \/ Partition(s, 1) PROVE QueueInv'
  BY <1>1, <1>7 DEF SetUp, Partition
<1>8. ASSUME NEW s \in Station, Pump(s) PROVE QueueInv'
  <2>1. Tail(inboxes[s]) \in Seq(Signable)
    BY <1>8 DEF Pump, QueueInv
  <2> QED BY <1>8, <2>1 DEF Pump, QueueInv
<1>9. ASSUME NEW s \in Station, CorruptDropOne(s) \/ CorruptTamperOne(s) PROVE QueueInv'
  BY <1>1, <1>9 DEF CorruptDropOne, CorruptTamperOne, Corrupt
<1>10. ASSUME NEW rec \in Signable, Insert(rec) PROVE QueueInv'
  BY <1>1, <1>10 DEF Insert
<1>11. ASSUME NEW rec \in Signable, NEW s \in Station, CorruptReplaceOne(s, rec) PROVE QueueInv'
  BY <1>1, <1>11 DEF CorruptReplaceOne, Corrupt
<1> QED
  BY <1>2, <1>3, <1>4, <1>5, <1>6, <1>7, <1>8, <1>9, <1>10, <1>11 DEF SimNext

LEMMA LogSteps == QueueInv /\ LogInv /\ [SimNext]_simVars => LogInv'
<1> SUFFICES ASSUME QueueInv, LogInv, [SimNext]_simVars PROVE LogInv'
  OBVIOUS
<1>1. CASE UNCHANGED simVars
  BY <1>1, LogsRest DEF simVars
<1>2. ASSUME NEW s \in Station, NEW t \in Station, Sends(s, t) PROVE LogInv'
  BY <1>2, LogsRest DEF Sends, SimSend
<1>3. CASE StepEvent \/ RunEnds \/ Heal
  BY <1>3, LogsRest DEF StepEvent, RunEnds, Heal
<1>4. ASSUME NEW s \in Station, SetUp(s) \/ Partition(s, 1) PROVE LogInv'
  BY <1>4, LogsRest DEF SetUp, Partition
<1>5. ASSUME NEW s \in Station, Pump(s) PROVE LogInv'
  <2>1. inboxes[s] \in Seq(Signable) /\ inboxes[s] # <<>> /\ Applies(s, Head(inboxes[s])) /\ harm' = harm
    BY <1>5 DEF Pump, QueueInv
  <2>2. Head(inboxes[s]) \in Signable
    BY <2>1
  <2> QED BY <2>1, <2>2, AppliesKeeps
<1>6. ASSUME NEW rec \in Signable, Insert(rec) PROVE LogInv'
  <2>1. rec.origin \in Station
    BY HarnessAssumption
  <2> QED BY <1>6, <2>1, AppliesKeeps DEF Insert
<1>7. ASSUME NEW s \in Station, CorruptDropOne(s) PROVE LogInv'
  BY <1>7, CorruptKeeps DEF CorruptDropOne
<1>8. ASSUME NEW s \in Station, CorruptTamperOne(s) PROVE LogInv'
  <2> DEFINE was == logs[s][First(s)[1]][First(s)[2]]
             st == [was EXCEPT !.whole = FALSE]
  <2>1. First(s) \in Slots(s) /\ Corrupt(s, "tamper", st)
    BY <1>8, FirstIsHeld DEF CorruptTamperOne
  <2>2. was \in Stored
    <3>1. First(s)[1] \in Station /\ First(s)[2] \in 1..MaxSlot /\ was # Vacant
      BY <2>1 DEF Slots
    <3>2. logs[s][First(s)[1]] \in Log
      BY <3>1 DEF LogInv, LogTypes
    <3> QED BY <3>1, <3>2 DEF Log
  <2> HIDE DEF was
  <2>3. st \in Stored /\ st.whole = FALSE
    BY <2>2 DEF Stored
  <2> HIDE DEF st
  <2> QED BY <2>1, <2>3, CorruptKeeps
<1>9. ASSUME NEW rec \in Signable, NEW s \in Station, CorruptReplaceOne(s, rec) PROVE LogInv'
  <2> DEFINE st == [body |-> rec.body, origin |-> rec.origin, seq |-> rec.seq, whole |-> TRUE]
  <2>1. Corrupt(s, "replace", st) /\ <<rec.origin, rec.seq>> # First(s)
    BY <1>9 DEF CorruptReplaceOne
  <2>2. st \in Stored /\ st.origin = rec.origin /\ st.seq = rec.seq
    BY HarnessAssumption DEF Stored
  <2> HIDE DEF st
  <2> QED BY <2>1, <2>2, CorruptKeeps
<1> QED
  BY <1>1, <1>2, <1>3, <1>4, <1>5, <1>6, <1>7, <1>8, <1>9 DEF SimNext

LEMMA HarnessHolds == QueueInv /\ LogInv => HarnessIsHonest
<1> SUFFICES ASSUME QueueInv, LogInv PROVE HarnessIsHonest
  OBVIOUS
<1>1. NothingOverdue
  BY DEF NothingOverdue, QueueInv
<1>2. WithinDuty
  BY DEF WithinDuty, QueueInv, Allowance
<1>3. LogsAreHonest
  <2> SUFFICES ASSUME NEW s \in Station, harm.kind = "none" \/ harm.at # s
               PROVE  VerifyAll(s) /\ \A o \in Station : marks[s][o] = ContiguousHighWater(logs[s][o])
    BY DEF LogsAreHonest
  <2>1. VerifyAll(s) /\ \A o \in Station : TakenUpTo(logs[s][o], marks[s][o])
    BY DEF LogInv, UnharmedInv
  <2>2. \A o \in Station : marks[s][o] \in 0..MaxSlot
    BY DEF LogInv, LogTypes
  <2> QED BY <2>1, <2>2, MarkIsHighWater
<1>4. ASSUME harm.kind # "none"
      PROVE  /\ harm.at \in Station /\ harm.slot[1] \in Station /\ harm.slot[2] \in 1..MaxSlot
             /\ harm.slot \in Station \X (1..MaxSlot)
  <2>1. harm \in Harms
    BY <1>4 DEF LogInv, LogTypes, Unharmed
  <2>2. harm.at \in Station /\ harm.slot \in Station \X (1..MaxSlot)
    BY <2>1 DEF Harms
  <2> QED BY <2>2
<1>5. CorruptionIsSeen
  <2> SUFFICES ASSUME harm.kind \in {"replace", "tamper"} PROVE ~VerifyAll(harm.at)
    BY DEF CorruptionIsSeen
  <2>1. Harmed \in Stored
    BY DEF LogInv, HarmedInv
  <2>2. Harmed # Vacant
    BY <2>1, StoredIsTaken
  <2>3. harm.slot \in Slots(harm.at)
    BY <1>4, <2>2 DEF Slots, Harmed
  <2>4. <<Harmed.origin, Harmed.seq>> # harm.slot \/ Harmed.whole = FALSE
    BY DEF LogInv, HarmedInv
  <2>5. VerifyAll(harm.at) => Harmed.whole /\ <<Harmed.origin, Harmed.seq>> = harm.slot
    BY <2>3 DEF VerifyAll, Harmed
  <2> QED BY <2>4, <2>5
<1>6. DropIsSeen
  <2> SUFFICES ASSUME harm.kind = "drop", harm.under, Harmed = Vacant
               PROVE  ContiguousHighWater(logs[harm.at][harm.slot[1]]) < marks[harm.at][harm.slot[1]]
    BY DEF DropIsSeen, Harmed
  <2> DEFINE log == logs[harm.at][harm.slot[1]]
  <2>1. MaxSlot \in Nat /\ marks[harm.at][harm.slot[1]] \in 0..MaxSlot
        /\ harm.slot[2] =< marks[harm.at][harm.slot[1]] /\ harm.slot[2] \in 1..MaxSlot
    BY <1>4, HarnessAssumption DEF LogInv, LogTypes, HarmedInv
  <2>2. log[harm.slot[2]] = Vacant
    BY DEF Harmed
  <2> HIDE DEF log
  <2>3. PICK x \in 0..MaxSlot : TakenUpTo(log, x)
    <3>1. 0 \in 0..MaxSlot
      BY <2>1
    <3>2. \E x \in 0..MaxSlot : /\ \A i \in 0 + 1..x : log[i] # Vacant
                                /\ x = MaxSlot \/ log[x + 1] = Vacant
      BY <3>1, HighWaterExists
    <3> QED BY <3>2 DEF TakenUpTo
  <2>4. ContiguousHighWater(log) = x
    BY <2>3, MarkIsHighWater
  <2>5. x < harm.slot[2]
    BY <2>1, <2>2, <2>3 DEF TakenUpTo
  <2> QED BY <2>1, <2>4, <2>5 DEF log
<1> QED BY <1>1, <1>2, <1>3, <1>5, <1>6 DEF HarnessIsHonest

----------------------------------------------------------------------------
(***************************************************************************)
(* Profiles: who is named was willing, and stays so in this account.       *)
(***************************************************************************)
\* Who has been published was willing when it began.
ProfInv ==
    /\ account \in [User -> [key : BOOLEAN, unlisted : BOOLEAN]]
    /\ published \in [User -> {"never", "listed", "unlisted"}]
    /\ profiles \in Seq([user : User, flags : {"listed", "unlisted"}])
    /\ \A u \in User : published[u] # "never" => u \in willing
    /\ OnlyTheWilling

LEMMA ProfilesStart == ProfInit => ProfInv
<1> SUFFICES ASSUME ProfInit PROVE ProfInv
  OBVIOUS
<1>1. profiles = <<>> /\ profiles \in Seq([user : User, flags : {"listed", "unlisted"}])
  BY DEF ProfInit
<1>2. OnlyTheWilling
  BY <1>1 DEF OnlyTheWilling, ProfInit
<1> QED BY <1>1, <1>2 DEF ProfInit, ProfInv

LEMMA ConsideredIsWilling ==
    ASSUME ProfInv, NEW u \in User, NEW t \in Trigger, Consider(u, t)
    PROVE  ProfInv'
<1>1. account' = account /\ entries' = entries /\ willing \subseteq willing'
  BY DEF Consider
<1>2. account[u].unlisted \in BOOLEAN /\ account[u].key \in BOOLEAN
  BY DEF ProfInv
<1>3. CASE Publishes(u, t)
  <2>1. Flags(u) \in {"listed", "unlisted"}
    BY DEF Flags
  <2>2. published' = [published EXCEPT ![u] = Flags(u)]
        /\ profiles' = Append(profiles, [user |-> u, flags |-> Flags(u)])
    BY <1>3 DEF Consider
  <2>3. u \in willing'
    <3>1. CASE account[u].unlisted
      BY <1>1, <1>3, <3>1 DEF Publishes, ProfInv
    <3>2. CASE ~account[u].unlisted
      BY <1>3, <3>2 DEF Consider, Publishes
    <3> QED BY <3>1, <3>2
  <2>4. published' \in [User -> {"never", "listed", "unlisted"}]
        /\ \A uu \in User : published'[uu] # "never" => uu \in willing'
    BY <1>1, <2>1, <2>2, <2>3 DEF ProfInv
  <2> DEFINE pr == [user |-> u, flags |-> Flags(u)]
  <2>5. pr \in [user : User, flags : {"listed", "unlisted"}] /\ pr.user = u
    BY <2>1
  <2>6. profiles' = Append(profiles, pr)
    BY <2>2
  <2> HIDE DEF pr
  <2>7. profiles' \in Seq([user : User, flags : {"listed", "unlisted"}])
    BY <2>5, <2>6 DEF ProfInv
  <2>8. \A i \in DOMAIN profiles' : profiles'[i].user \in willing'
    BY <1>1, <2>3, <2>5, <2>6 DEF ProfInv, OnlyTheWilling
  <2>9. OnlyTheWilling'
    BY <1>1, <2>8 DEF ProfInv, OnlyTheWilling
  <2> QED BY <1>1, <2>4, <2>7, <2>9 DEF ProfInv
<1>4. CASE ~Publishes(u, t)
  <2>1. UNCHANGED <<account, published, profiles, entries>>
    BY <1>4 DEF Consider
  <2> QED BY <1>1, <2>1 DEF ProfInv, OnlyTheWilling
<1> QED BY <1>3, <1>4

LEMMA ProfileSteps == ProfInv /\ [ProfNext]_profVars => ProfInv'
<1> SUFFICES ASSUME ProfInv, [ProfNext]_profVars PROVE ProfInv'
  OBVIOUS
<1>1. CASE UNCHANGED profVars
  BY <1>1 DEF profVars, ProfInv, OnlyTheWilling
<1>2. ASSUME NEW u \in User, Forget(u) PROVE ProfInv'
  BY <1>2 DEF Forget, ProfInv, OnlyTheWilling
<1>3. ASSUME NEW u \in User, NEW t \in Trigger, Consider(u, t) PROVE ProfInv'
  BY <1>3, ConsideredIsWilling
<1>4. ASSUME NEW u \in User, NEW a \in [key : BOOLEAN, unlisted : BOOLEAN], SetAccount(u, a)
      PROVE  ProfInv'
  BY <1>4 DEF SetAccount, ProfInv, OnlyTheWilling
<1>5. ASSUME NEW i \in DOMAIN profiles, AddEntry(i) PROVE ProfInv'
  <2>1. profiles[i].user \in willing /\ entries \subseteq willing
    BY DEF ProfInv, OnlyTheWilling
  <2> QED BY <1>5, <2>1 DEF AddEntry, ProfInv, OnlyTheWilling
<1> QED BY <1>1, <1>2, <1>3, <1>4, <1>5 DEF ProfNext

----------------------------------------------------------------------------
(* The run's specification: every part moves as it would alone. *)

LEMMA PartsMove ==
    ASSUME [Next]_vars
    PROVE  /\ [BsmpNext]_bsmpVars /\ [GovNext]_govVars /\ [SurveyNext]_surveyVars
           /\ [SneakNext]_sneakVars /\ [SimNext]_simVars /\ [ProfNext]_profVars
BY DEF Next, vars

LEMMA PartsStart ==
    ASSUME Init
    PROVE  BsmpInit /\ GovInit /\ SurveyInit /\ SneakInit /\ SimInit /\ ProfInit
BY DEF Init

\* A carrier that a board imports to the end, however late and whatever was
\* lost, skipped or imported twice before it, leaves the board with everything
\* the writer had, if it was written for that board or for anybody (Export,
\* Import).
THEOREM OneTripIsEnough == Spec => []TripIsEnough
<1>1. Init => TripInv
  BY PartsStart, TripStarts
<1>2. TripInv /\ [Next]_vars => TripInv'
  BY PartsMove, TripSteps
<1> QED BY <1>1, <1>2, TripHolds, PTL DEF Spec

\* Airtime is never spent that was not there, whatever order sends, telemetry
\* and changes of the network's size come in, and whatever fails while the flood
\* multiplier is measured: the region's hour, the node's share, the room a
\* control packet needs (AllowCharge), and the survey's own duty cycle and
\* readings (measure, transmitWithRetry).
THEOREM AirtimeIsEarned == Spec => []AirtimeIsKept
<1>1. Init => AirInv /\ PacedInv
  BY PartsStart, AirStarts, SurveyStarts
<1>2. AirInv /\ PacedInv /\ [Next]_vars => AirInv' /\ PacedInv'
  BY PartsMove, AirSteps, SurveySteps
<1>3. AirInv /\ PacedInv => AirtimeIsKept
  BY AirHolds DEF PacedInv, OwnReadings, AirtimeIsKept
<1> QED BY <1>1, <1>2, <1>3, PTL DEF Spec

\* What a node decodes is what was sent, and its open decoders are few and
\* unfinished, whatever arrives; and while no two goroutines send one bundle
\* at a time, as when there is one, no bundle costs more airtime than its
\* allowance, however often it is resumed (Outbox.SendRecords, Inbox.symbol,
\* expire, evictToCap).  The run "overlap" shows what two goroutines do.
THEOREM BundlesAreSound ==
    Spec => /\ [](GenuineOnly /\ OpenIsUnfinished)
            /\ []SendsApart => []BundlesHold
            /\ (\A c, d \in Caller : c = d) => []BundlesHold
<1>1. Init => CostInv /\ OutboxInv /\ InboxInv
  <2>1. BsmpInit => OutboxInv
    BY DEF BsmpInit, OutboxInv
  <2> QED BY <2>1, PartsStart, CostStarts, InboxStarts
<1>2. OutboxInv /\ InboxInv /\ [Next]_vars => OutboxInv' /\ InboxInv'
  BY PartsMove, OutboxSteps, InboxSteps
<1>3. CostInv /\ SendsApart /\ SendsApart' /\ [Next]_vars => CostInv'
  BY PartsMove, CostSteps
<1>4. CostIsBounded /\ GenuineOnly /\ OpenIsUnfinished => BundlesHold
  BY DEF BundlesHold
<1>5. Spec => [](GenuineOnly /\ OpenIsUnfinished)
  BY <1>1, <1>2, InboxHolds, PTL DEF Spec
<1>6. Spec /\ []SendsApart => []BundlesHold
  BY <1>1, <1>2, <1>3, <1>4, CostHolds, InboxHolds, PTL DEF Spec
<1>7. ASSUME \A c, d \in Caller : c = d PROVE Spec => []BundlesHold
  <2>1. SendsApart
    BY <1>7 DEF SendsApart
  <2> QED BY <1>6, <2>1, PTL
<1> QED BY <1>5, <1>6, <1>7

\* However datagrams are lost, delayed, reordered and repeated, the queue's next
\* event is never in the past and no link spends more than it earned; a log that
\* nobody harmed verifies and its marks are right, and one that was harmed shows
\* it (Network.step, Link.Send, MemStore.VerifyAll and CorruptDropOne, ReplaceOne
\* and TamperOne).
THEOREM HarnessKeepsFaith == Spec => []HarnessIsHonest
<1>1. Init => QueueInv /\ LogInv
  BY PartsStart, HarnessStarts
<1>2. QueueInv /\ LogInv /\ [Next]_vars => QueueInv' /\ LogInv'
  BY PartsMove, QueueSteps, LogSteps
<1> QED BY <1>1, <1>2, HarnessHolds, PTL DEF Spec

\* No record and no directory ever names a user who did nothing federated while
\* listed, whatever is changed, forgotten, reordered and repeated (Consider,
\* Forget, Directory.Add).
THEOREM NobodyIsNamedUnasked == Spec => []OnlyTheWilling
<1>1. Init => ProfInv
  BY PartsStart, ProfilesStart
<1>2. ProfInv /\ [Next]_vars => ProfInv'
  BY PartsMove, ProfileSteps
<1>3. ProfInv => OnlyTheWilling
  BY DEF ProfInv
<1> QED BY <1>1, <1>2, <1>3, PTL DEF Spec

=============================================================================
