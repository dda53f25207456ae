---------------------------- MODULE QueueProofs ----------------------------
(***************************************************************************)
(* Proofs about the league events of a door, for any number of sessions,   *)
(* groups, events and faults and every setting of the policy.              *)
(***************************************************************************)
EXTENDS DoorEvents, FiniteSetTheorems, FunctionTheorems, SequenceTheorems,
        WellFoundedInduction, TLAPS

----------------------------------------------------------------------------
(* The invariant. *)

Event == [id : Nat \ {0}, group : Group, age : 0 .. MaxAge]
Record == [group : Group, events : Seq(Event)]

QueueType ==
    /\ queue \subseteq Event /\ IsFiniteSet(queue)
    /\ nextId \in Nat \ {0}
    /\ counted \in [Session -> [group : Group, count : Nat] \cup {NotCounted}]
    /\ step \in {"wait", "next", "expire", "publish", "delete"}
    /\ groupsLeft \subseteq Group
    /\ decision \in [group : Group \cup {"none"}, expire : SUBSET Event, flush : Seq(Event)]
    /\ log \in Seq(Record)
    /\ polled \in 0 .. Len(log)
    /\ faults \in Nat

\* Ids are given once.
IdsAreUnique ==
    /\ \A q \in queue : q.id < nextId
    /\ \A q, r \in queue : q.id = r.id => q = r

Increasing(events) == \A j, k \in DOMAIN events : j < k => events[j].id < events[k].id

\* What the policy makes of a group.
Batch(events) ==
    /\ Increasing(events) /\ Len(events) =< BatchMax
    /\ \A k \in DOMAIN events : events[k].id < nextId /\ events[k].age < MaxAge
    /\ events # <<>> => Len(events) = BatchMax \/ events[1].age >= Window

\* Nothing older of the group, and still to be sent, was left out.
OldestWereTaken(events, g) ==
    \A e \in Carried(events) : \A q \in queue :
       q.group = g /\ q.id < e /\ q.age < MaxAge => q.id \in Carried(events)

\* The order in which records were made.
AfterWhatItCarries(i, events) ==
    \A e \in Carried(log[i].events), f \in Carried(events) :
       f < e => f \in Carried(log[i].events)

RecordsAreBatches ==
    /\ \A i \in DOMAIN log :
          /\ Batch(log[i].events) /\ OldestWereTaken(log[i].events, log[i].group)
          /\ \A q \in queue : q.id \in Carried(log[i].events) => q.group = log[i].group
    /\ \A i, j \in DOMAIN log :
          i < j /\ log[i].group = log[j].group => AfterWhatItCarries(i, log[j].events)

Deciding == step \in {"expire", "publish", "delete"}

\* The batch on its way: its rows are still queued, and every row of the group that
\* was sent before, and might be again, is among them.
DecisionStands ==
    Deciding =>
       LET batch == decision.flush
           g == decision.group
       IN  /\ g \in Group /\ Batch(batch) /\ OldestWereTaken(batch, g)
           /\ step # "expire" => batch # <<>>
           /\ \A e \in Carried(batch) : \E q \in queue : q.id = e /\ q.group = g
           /\ \A e \in Carried(batch) : e \notin Ids(decision.expire)
           /\ batch # <<>> => \A q \in queue :
                 q.group = g /\ q.age < MaxAge /\ q.id \in Published => q.id \in Carried(batch)
           /\ step # "delete" => \A i \in DOMAIN log : log[i].group = g => AfterWhatItCarries(i, batch)
           /\ step = "delete" => Carried(batch) \subseteq Published

\* Rows that were sent and may be sent again.
Pending(q) ==
    /\ q.id \in Published
    /\ q.age < MaxAge \/ (step \in {"expire", "publish"} /\ q.id \in Carried(decision.flush))
    /\ ~(step = "delete" /\ q.group = decision.group)

Owing == {g \in Group : \E q \in queue : q.group = g /\ Pending(q)}

\* A fault pays for every repeat, and for every group that may yet repeat.
RepeatsArePaid == Cardinality(Repeats) + Cardinality(Owing) =< faults

\* Sessions that have counted and may insert.
Admitted == {s \in Session : counted[s] # NotCounted /\ ~Full(counted[s].count)}

RoomIsLeft ==
    Cardinality(queue) + Cardinality(Admitted) =< MaxQueued + Cardinality(Session) - 1

QueueInv ==
    /\ QueueType /\ IdsAreUnique /\ RecordsAreBatches /\ DecisionStands
    /\ RepeatsArePaid /\ RoomIsLeft /\ NothingLost /\ NothingSkipped

----------------------------------------------------------------------------
(* Finite sets. *)

\* Every set of natural numbers that is not empty has a least element.
LEMMA LeastNumber ==
    ASSUME NEW S, S \subseteq Nat, S # {}
    PROVE  \E n \in S : \A k \in S : n =< k
<1> DEFINE less == {pair \in Nat \X Nat : pair[1] < pair[2]}
<1>1. IsWellFoundedOn(less, Nat)
  BY NatLessThanWellFounded DEF OpToRel
<1>2. PICK n \in S : \A k \in S : <<k, n>> \notin less
  BY <1>1, WFMin
<1>3. \A k \in S : ~(k < n)
  BY <1>2
<1>4. QED
  BY <1>3

\* An image is finite, and no larger than what it is the image of.
LEMMA ImageIsSmaller ==
    ASSUME NEW S, NEW T, IsFiniteSet(S), NEW f \in [S -> T], \A t \in T : \E x \in S : f[x] = t
    PROVE  IsFiniteSet(T) /\ Cardinality(T) =< Cardinality(S)
<1>1. f \in Surjection(S, T)
  BY Fun_IsSurj
<1>2. QED
  BY <1>1, FS_Surjection

----------------------------------------------------------------------------
(* Rows in the order they were queued in. *)

\* Rows of the table: each has an id of its own.
AreRows(rows) ==
    /\ IsFiniteSet(rows) /\ \A q \in rows : q.id \in Nat
    /\ \A q, r \in rows : q.id = r.id => q = r

\* A row that is not the oldest has fewer older than it than there are rows, and of
\* two rows the later has more.
LEMMA OlderIsSmaller ==
    ASSUME NEW rows, AreRows(rows), NEW q \in rows
    PROVE  /\ IsFiniteSet(Older(rows, q))
           /\ Cardinality(Older(rows, q)) \in Nat
           /\ Cardinality(Older(rows, q)) < Cardinality(rows)
           /\ \A r \in rows : q.id < r.id =>
                 Cardinality(Older(rows, q)) < Cardinality(Older(rows, r))
<1> DEFINE upto == Older(rows, q) \cup {q}
<1>1. Older(rows, q) \subseteq rows /\ q \notin Older(rows, q) /\ upto \subseteq rows
  BY DEF Older, AreRows
<1>2. IsFiniteSet(Older(rows, q)) /\ IsFiniteSet(rows)
  BY <1>1, FS_Subset DEF AreRows
<1>3. /\ Cardinality(Older(rows, q)) \in Nat /\ Cardinality(rows) \in Nat
      /\ Cardinality(upto) = Cardinality(Older(rows, q)) + 1
  BY <1>1, <1>2, FS_AddElement, FS_CardinalityType
<1>4. Cardinality(upto) =< Cardinality(rows)
  BY <1>1, <1>2, FS_Subset
<1>5. ASSUME NEW r \in rows, q.id < r.id
      PROVE  Cardinality(Older(rows, q)) < Cardinality(Older(rows, r))
  <2>1. Older(rows, r) \subseteq rows /\ upto \subseteq Older(rows, r)
    BY <1>5 DEF Older, AreRows
  <2>2. IsFiniteSet(Older(rows, r)) /\ Cardinality(Older(rows, r)) \in Nat
    BY <1>2, <2>1, FS_Subset, FS_CardinalityType
  <2>3. Cardinality(upto) =< Cardinality(Older(rows, r))
    BY <2>1, <2>2, FS_Subset
  <2>4. QED
    BY <1>3, <2>2, <2>3
<1>6. QED
  BY <1>2, <1>3, <1>4, <1>5

\* Every place in the order is somebody's.
LEMMA PlacesAreTaken ==
    ASSUME NEW rows, AreRows(rows), NEW n \in Nat, n < Cardinality(rows)
    PROVE  \E q \in rows : Cardinality(Older(rows, q)) = n
<1> DEFINE empty == {m \in Nat : /\ m < Cardinality(rows)
                                 /\ \A q \in rows : Cardinality(Older(rows, q)) # m}
<1>1. SUFFICES ASSUME empty # {} PROVE FALSE
  BY DEF empty
<1>2. PICK m \in empty : \A k \in empty : m =< k
  BY <1>1, LeastNumber
<1>3. m \in Nat /\ m < Cardinality(rows) /\ \A q \in rows : Cardinality(Older(rows, q)) # m
  OBVIOUS
<1>4. Cardinality(rows) \in Nat /\ Cardinality({}) = 0 /\ IsFiniteSet({})
  BY FS_CardinalityType, FS_EmptySet DEF AreRows
<1> DEFINE taken == {q \in rows : Cardinality(Older(rows, q)) < m}
           left == rows \ taken
<1>5. ASSUME left # {}, NEW upto \in SUBSET rows, \A q \in upto : q \in taken,
             IsFiniteSet(upto), Cardinality(upto) = m, \A q \in taken : q \in upto
      PROVE  FALSE
  <2>1. PICK r \in left : \A k \in left : r.id =< k.id
    <3> DEFINE ids == {q.id : q \in left}
    <3>1. ids \subseteq Nat /\ ids # {}
      BY <1>5 DEF AreRows
    <3>2. PICK i \in ids : \A k \in ids : i =< k
      BY <3>1, LeastNumber
    <3>3. QED
      BY <3>2
  <2>2. r \in rows /\ ~(Cardinality(Older(rows, r)) < m)
    OBVIOUS
  <2>3. \A q \in Older(rows, r) : q \in upto
    <3>1. SUFFICES ASSUME NEW q \in Older(rows, r), q \notin taken PROVE FALSE
      BY <1>5
    <3>2. q \in left /\ q.id < r.id /\ q.id \in Nat /\ r.id \in Nat
      BY <2>2, <3>1 DEF Older, AreRows
    <3>3. QED
      BY <2>1, <3>2
  <2>4. Cardinality(Older(rows, r)) =< m /\ Cardinality(Older(rows, r)) \in Nat
    <3>1. Older(rows, r) \in SUBSET upto
      BY <2>3
    <3>2. QED
      BY <1>5, <2>2, <3>1, FS_Subset, OlderIsSmaller
  <2>5. QED
    BY <1>3, <2>2, <2>4
<1>6. CASE m = 0
  <2>1. rows # {}
    BY <1>3, <1>4, <1>6
  <2>2. taken = {}
    BY <1>6, OlderIsSmaller
  <2>3. left # {}
    BY <2>1, <2>2
  <2>4. QED
    BY <1>4, <1>5, <1>6, <2>2, <2>3
<1>7. CASE m # 0
  <2>1. m - 1 \in Nat /\ m - 1 < Cardinality(rows) /\ m - 1 \notin empty
    BY <1>2, <1>3, <1>4, <1>7
  <2>2. PICK r \in rows : Cardinality(Older(rows, r)) = m - 1
    BY <2>1
  <2> DEFINE upto == Older(rows, r) \cup {r}
  <2>3. IsFiniteSet(Older(rows, r)) /\ r \notin Older(rows, r) /\ upto \in SUBSET rows
    BY OlderIsSmaller DEF Older, AreRows
  <2>4. IsFiniteSet(upto) /\ Cardinality(upto) = m
    BY <1>3, <2>2, <2>3, FS_AddElement
  <2>5. \A q \in upto : q \in taken
    <3>1. ASSUME NEW q \in Older(rows, r) PROVE q \in taken
      <4>1. q \in rows /\ q.id < r.id
        BY DEF Older
      <4>2. Cardinality(Older(rows, q)) < Cardinality(Older(rows, r))
        BY <4>1, OlderIsSmaller
      <4>3. Cardinality(Older(rows, q)) \in Nat
        BY <4>1, OlderIsSmaller
      <4>4. QED
        BY <1>3, <2>2, <4>1, <4>2, <4>3
    <3>2. r \in taken
      BY <1>3, <2>2
    <3>3. QED
      BY <3>1, <3>2
  <2>6. \A q \in taken : q \in upto
    <3>1. SUFFICES ASSUME NEW q \in rows, Cardinality(Older(rows, q)) < m, q \notin upto
                   PROVE  FALSE
      OBVIOUS
    <3>2. q.id \in Nat /\ r.id \in Nat /\ q.id # r.id /\ ~(q.id < r.id)
      BY <3>1 DEF Older, AreRows
    <3>3. Cardinality(Older(rows, r)) < Cardinality(Older(rows, q))
      BY <3>2, OlderIsSmaller
    <3>4. Cardinality(Older(rows, q)) \in Nat
      BY OlderIsSmaller
    <3>5. QED
      BY <1>3, <2>2, <3>1, <3>3, <3>4
  <2>7. left # {}
    <3>1. upto # rows
      BY <1>3, <2>4
    <3>2. QED
      BY <2>3, <2>6, <3>1
  <2>8. QED
    BY <1>5, <2>3, <2>4, <2>5, <2>6, <2>7
<1>8. QED
  BY <1>6, <1>7

\* The order holds every row once, the older before the younger, and the first n of
\* it are those with fewer than n older ones.
LEMMA OldestFirstIsInOrder ==
    ASSUME NEW rows, AreRows(rows)
    PROVE  LET seq == OldestFirst(rows)
               n == Cardinality(rows)
           IN  /\ n \in Nat /\ seq \in [1 .. n -> rows]
               /\ \A j, k \in 1 .. n : j < k => seq[j].id < seq[k].id
               /\ \A q \in rows : LET k == Cardinality(Older(rows, q)) + 1
                                  IN  k \in 1 .. n /\ seq[k] = q
<1> DEFINE seq == OldestFirst(rows)
           n == Cardinality(rows)
<1>1. n \in Nat
  BY FS_CardinalityType DEF AreRows
<1>2. \A k \in 1 .. n : seq[k] \in rows /\ Cardinality(Older(rows, seq[k])) = k - 1
  <2>1. SUFFICES ASSUME NEW k \in 1 .. n
                 PROVE  \E q \in rows : Cardinality(Older(rows, q)) = k - 1
    BY DEF OldestFirst
  <2>2. k - 1 \in Nat /\ k - 1 < n
    BY <1>1
  <2>3. QED
    BY <2>2, PlacesAreTaken
<1>3. seq \in [1 .. n -> rows]
  BY <1>2 DEF OldestFirst
<1>4. ASSUME NEW j \in 1 .. n, NEW k \in 1 .. n, j < k PROVE seq[j].id < seq[k].id
  <2>1. SUFFICES ASSUME ~(seq[j].id < seq[k].id) PROVE FALSE
    OBVIOUS
  <2>2. seq[j] \in rows /\ seq[k] \in rows /\ seq[j].id \in Nat /\ seq[k].id \in Nat
    BY <1>2 DEF AreRows
  <2>3. seq[k].id < seq[j].id \/ seq[k] = seq[j]
    BY <2>1, <2>2 DEF AreRows
  <2>4. CASE seq[k].id < seq[j].id
    <3>1. Cardinality(Older(rows, seq[k])) < Cardinality(Older(rows, seq[j]))
      BY <2>2, <2>4, OlderIsSmaller
    <3>2. QED
      BY <1>1, <1>2, <1>4, <3>1
  <2>5. CASE seq[k] = seq[j]
    <3>1. k - 1 = j - 1
      BY <1>2, <2>5
    <3>2. QED
      BY <1>4, <3>1
  <2>6. QED
    BY <2>3, <2>4, <2>5
<1>5. ASSUME NEW q \in rows
      PROVE  Cardinality(Older(rows, q)) + 1 \in 1 .. n
             /\ seq[Cardinality(Older(rows, q)) + 1] = q
  <2> DEFINE k == Cardinality(Older(rows, q)) + 1
  <2>1. k \in 1 .. n /\ Cardinality(Older(rows, q)) \in Nat
    BY <1>1, OlderIsSmaller
  <2>2. seq[k] \in rows /\ Cardinality(Older(rows, seq[k])) = Cardinality(Older(rows, q))
    BY <1>2, <2>1
  <2>3. /\ ~(seq[k].id < q.id) /\ ~(q.id < seq[k].id)
    <3>1. seq[k].id < q.id => Cardinality(Older(rows, seq[k])) < Cardinality(Older(rows, q))
      BY <2>2, OlderIsSmaller
    <3>2. q.id < seq[k].id => Cardinality(Older(rows, q)) < Cardinality(Older(rows, seq[k]))
      BY <2>2, OlderIsSmaller
    <3>3. QED
      BY <2>1, <2>2, <3>1, <3>2
  <2>4. seq[k] = q
    BY <2>2, <2>3 DEF AreRows
  <2>5. QED
    BY <2>1, <2>4
<1>6. QED
  BY <1>1, <1>3, <1>4, <1>5

----------------------------------------------------------------------------
(* The batch the policy makes of a group. *)

\* The rows of a group that are not too old.
FreshOf(g) == {q \in GroupRows(g) : q.age < MaxAge}

\* A batch begins with the group's oldest row, leaves none out, and is not cut before
\* the record is full.
LEMMA FlushIsABatch ==
    ASSUME QueueType, IdsAreUnique, NEW g \in Group
    PROVE  LET batch == Flush(Fresh(GroupRows(g)))
           IN  /\ batch \in Seq(Event) /\ Batch(batch) /\ OldestWereTaken(batch, g)
               /\ \A e \in Carried(batch) : \E q \in FreshOf(g) : q.id = e
               /\ batch # <<>> => \A q \in FreshOf(g) :
                     Cardinality(Older(FreshOf(g), q)) < BatchMax => q.id \in Carried(batch)
<1> DEFINE seq == Fresh(GroupRows(g))
           n == Cardinality(FreshOf(g))
           batch == Flush(seq)
<1>0. BatchMax \in Nat \ {0} /\ Window \in Nat \ {0} /\ MaxAge \in Nat \ {0}
  BY DoorEventsAssumption
<1>1. AreRows(FreshOf(g)) /\ FreshOf(g) \subseteq queue /\ FreshOf(g) \subseteq Event
  <2>1. FreshOf(g) \subseteq queue /\ FreshOf(g) \subseteq Event
    BY DEF FreshOf, GroupRows, QueueType
  <2>2. IsFiniteSet(FreshOf(g))
    BY <2>1, FS_Subset DEF QueueType
  <2>3. QED
    BY <2>1, <2>2 DEF AreRows, IdsAreUnique, Event
<1>2. seq = OldestFirst(FreshOf(g))
  BY DEF Fresh, FreshOf
<1>3. /\ n \in Nat /\ seq \in [1 .. n -> FreshOf(g)]
      /\ \A j, k \in 1 .. n : j < k => seq[j].id < seq[k].id
      /\ \A q \in FreshOf(g) : LET k == Cardinality(Older(FreshOf(g), q)) + 1
                               IN  k \in 1 .. n /\ seq[k] = q
  BY <1>1, <1>2, OldestFirstIsInOrder
<1>4. seq \in Seq(Event) /\ Len(seq) = n
  BY <1>1, <1>3
<1> HIDE DEF seq, n
<1>5. PICK m \in 0 .. n :
         /\ batch \in Seq(Event) /\ Len(batch) = m /\ m =< BatchMax
         /\ \A i \in 1 .. m : batch[i] = seq[i]
         /\ m = 0 \/ m = BatchMax \/ (m = n /\ seq[1].age >= Window)
  <2>1. CASE n >= BatchMax
    <3>1. batch = SubSeq(seq, 1, BatchMax)
      BY <1>4, <2>1 DEF Flush
    <3>2. \A i \in 1 .. BatchMax : seq[i] \in Event
      BY <1>0, <1>3, <1>4, <2>1
    <3>3. /\ batch \in Seq(Event) /\ Len(batch) = BatchMax
          /\ \A i \in 1 .. BatchMax : batch[i] = seq[i]
      <4>1. /\ SubSeq(seq, 1, BatchMax) \in Seq(Event)
            /\ Len(SubSeq(seq, 1, BatchMax)) = BatchMax - 1 + 1
            /\ \A i \in 1 .. BatchMax - 1 + 1 : SubSeq(seq, 1, BatchMax)[i] = seq[1 + i - 1]
        BY <1>0, <3>2, SubSeqProperties
      <4>2. BatchMax - 1 + 1 = BatchMax /\ \A i \in 1 .. BatchMax : 1 + i - 1 = i
        BY <1>0
      <4>3. QED
        BY <3>1, <4>1, <4>2
    <3>4. QED
      BY <1>0, <1>3, <2>1, <3>3
  <2>2. CASE ~(n >= BatchMax) /\ seq # <<>> /\ Head(seq).age >= Window
    <3>1. batch = seq
      BY <1>4, <2>2 DEF Flush
    <3>2. Head(seq) = seq[1]
      BY <1>4
    <3>3. QED
      BY <1>0, <1>3, <1>4, <2>2, <3>1, <3>2
  <2>3. CASE ~(n >= BatchMax) /\ ~(seq # <<>> /\ Head(seq).age >= Window)
    <3>1. batch = <<>>
      BY <1>4, <2>3 DEF Flush
    <3>2. QED
      BY <1>0, <1>3, <3>1
  <2>4. QED
    BY <2>1, <2>2, <2>3
<1> HIDE DEF batch
<1>6. DOMAIN batch = 1 .. m
  BY <1>5
<1>7. \A i \in 1 .. m : /\ i \in 1 .. n /\ batch[i] \in FreshOf(g) /\ batch[i] \in Event
                        /\ batch[i] \in queue /\ batch[i].age < MaxAge /\ batch[i].group = g
  BY <1>1, <1>3, <1>5 DEF FreshOf, GroupRows
<1>8. Batch(batch)
  <2>1. \A i \in DOMAIN batch : batch[i].id < nextId /\ batch[i].age < MaxAge
    BY <1>6, <1>7 DEF IdsAreUnique
  <2>2. Increasing(batch)
    BY <1>3, <1>5, <1>6, <1>7 DEF Increasing
  <2>3. batch # <<>> => Len(batch) = BatchMax \/ batch[1].age >= Window
    BY <1>5
  <2>4. QED
    BY <1>5, <2>1, <2>2, <2>3 DEF Batch
<1>9. ASSUME NEW q \in FreshOf(g), NEW i \in 1 .. m, q.id < batch[i].id
      PROVE  q.id \in Carried(batch)
  <2> DEFINE k == Cardinality(Older(FreshOf(g), q)) + 1
  <2>1. k \in 1 .. n /\ seq[k] = q
    BY <1>3
  <2>2. q.id \in Nat /\ batch[i].id \in Nat /\ batch[i] = seq[i] /\ i \in 1 .. n
    BY <1>1, <1>5, <1>7, <1>9 DEF Event
  <2>3. ~(i =< k)
    BY <1>3, <1>9, <2>1, <2>2
  <2>4. k \in 1 .. m
    BY <2>1, <2>2, <2>3
  <2>5. batch[k] = q
    BY <1>5, <2>1, <2>4
  <2>6. QED
    BY <1>6, <2>4, <2>5 DEF Carried
<1>10. OldestWereTaken(batch, g)
  BY <1>6, <1>9 DEF OldestWereTaken, Carried, FreshOf, GroupRows
<1>11. \A e \in Carried(batch) : \E q \in FreshOf(g) : q.id = e
  BY <1>6, <1>7 DEF Carried
<1>12. ASSUME batch # <<>>, NEW q \in FreshOf(g), Cardinality(Older(FreshOf(g), q)) < BatchMax
       PROVE  q.id \in Carried(batch)
  <2> DEFINE k == Cardinality(Older(FreshOf(g), q)) + 1
  <2>1. k \in 1 .. n /\ seq[k] = q /\ Cardinality(Older(FreshOf(g), q)) \in Nat
    BY <1>1, <1>3, OlderIsSmaller
  <2>2. m # 0
    BY <1>5, <1>12
  <2>3. k \in 1 .. m
    BY <1>0, <1>5, <1>12, <2>1, <2>2
  <2>4. batch[k] = q
    BY <1>5, <2>1, <2>3
  <2>5. QED
    BY <1>6, <2>3, <2>4 DEF Carried
<1>13. QED
  BY <1>5, <1>8, <1>10, <1>11, <1>12 DEF batch, seq

----------------------------------------------------------------------------
(* The counts of the invariant are of finite sets. *)

LEMMA CountsAreNumbers ==
    ASSUME QueueType
    PROVE  /\ IsFiniteSet(Repeats) /\ Cardinality(Repeats) \in Nat
           /\ IsFiniteSet(Owing) /\ Cardinality(Owing) \in Nat
           /\ IsFiniteSet(Admitted) /\ Cardinality(Admitted) \in Nat
           /\ IsFiniteSet(queue) /\ Cardinality(queue) \in Nat
           /\ Cardinality(Session) \in Nat \ {0}
           /\ Cardinality(Admitted) =< Cardinality(Session)
<1>1. IsFiniteSet(Repeats)
  <2>1. Len(log) \in Nat /\ Repeats \subseteq 1 .. Len(log)
    BY DEF QueueType, Repeats
  <2>2. IsFiniteSet(1 .. Len(log))
    BY <2>1, FS_Interval
  <2>3. QED
    BY <2>1, <2>2, FS_Subset
<1>2. IsFiniteSet(queue)
  BY DEF QueueType
<1>3. IsFiniteSet(Owing)
  <2> DEFINE groups == {q.group : q \in queue}
             group == [q \in queue |-> q.group]
  <2>1. group \in [queue -> groups] /\ \A g \in groups : \E q \in queue : group[q] = g
    OBVIOUS
  <2>2. IsFiniteSet(groups)
    BY <1>2, <2>1, ImageIsSmaller
  <2>3. Owing \subseteq groups
    BY DEF Owing
  <2>4. QED
    BY <2>2, <2>3, FS_Subset
<1>4. IsFiniteSet(Session) /\ Session # {}
  BY DoorEventsAssumption
<1>5. IsFiniteSet(Admitted) /\ Cardinality(Admitted) =< Cardinality(Session)
  BY <1>4, FS_Subset DEF Admitted
<1>6. Cardinality(Session) \in Nat \ {0}
  BY <1>4, FS_CardinalityType, FS_EmptySet
<1>7. QED
  BY <1>1, <1>2, <1>3, <1>5, <1>6, FS_CardinalityType

\* What the records carry are ids the table has given.
LEMMA CarriedAreIds ==
    ASSUME QueueType, RecordsAreBatches
    PROVE  /\ \A i \in DOMAIN log : /\ log[i] \in Record /\ log[i].events \in Seq(Event)
                                    /\ Carried(log[i].events) \subseteq Published
           /\ \A e \in Published : e \in Nat /\ e < nextId
<1>1. ASSUME NEW i \in DOMAIN log
      PROVE  /\ log[i] \in Record /\ log[i].events \in Seq(Event)
             /\ Carried(log[i].events) \subseteq Published
  <2>1. log[i] \in Record
    BY DEF QueueType
  <2>2. log[i].events \in Seq(Event)
    BY <2>1 DEF Record
  <2>3. Carried(log[i].events) \in {Carried(log[j].events) : j \in DOMAIN log}
    OBVIOUS
  <2>4. QED
    BY <2>1, <2>2, <2>3, Zenon DEF Published
<1>2. ASSUME NEW e \in Published PROVE e \in Nat /\ e < nextId
  <2>1. PICK i \in DOMAIN log : e \in Carried(log[i].events)
    BY DEF Published
  <2>2. PICK k \in DOMAIN log[i].events : e = log[i].events[k].id
    BY <2>1 DEF Carried
  <2>3. log[i].events[k] \in Event
    BY <1>1, <2>1, <2>2
  <2>4. Batch(log[i].events)
    BY <2>1 DEF RecordsAreBatches
  <2>5. QED
    BY <2>2, <2>3, <2>4 DEF Batch, Event
<1>3. QED
  BY <1>1, <1>2

\* A record is made: what it carries joins what was published, and it repeats something
\* only if it carries what was published before.
LEMMA LogAppends ==
    ASSUME QueueType, NEW r \in Record, log' = Append(log, r)
    PROVE  LET n == Len(log)
           IN  /\ n \in Nat /\ DOMAIN log = 1 .. n /\ DOMAIN log' = 1 .. n + 1
               /\ Len(log') = n + 1 /\ log' \in Seq(Record)
               /\ \A i \in 1 .. n : log'[i] = log[i]
               /\ log'[n + 1] = r
               /\ Published' = Published \cup Carried(r.events)
               /\ Repeats' \subseteq Repeats \cup {n + 1}
               /\ n + 1 \in Repeats' => Carried(r.events) \cap Published # {}
<1> DEFINE n == Len(log)
<1>1. /\ n \in Nat /\ DOMAIN log = 1 .. n /\ DOMAIN log' = 1 .. n + 1
      /\ Len(log') = n + 1 /\ log' \in Seq(Record)
      /\ \A i \in 1 .. n : log'[i] = log[i]
      /\ log'[n + 1] = r
  BY DEF QueueType
<1> HIDE DEF n
<1>2. Published' = Published \cup Carried(r.events)
  <2>1. \A i \in 1 .. n : Carried(log'[i].events) = Carried(log[i].events)
    BY <1>1
  <2>2. 1 .. n + 1 = 1 .. n \cup {n + 1}
    BY <1>1
  <2>3. Published' = UNION {Carried(log'[i].events) : i \in 1 .. n + 1}
    BY <1>1 DEF Published, Carried
  <2>4. Published = UNION {Carried(log[i].events) : i \in 1 .. n}
    BY <1>1 DEF Published
  <2>5. QED
    BY <1>1, <2>1, <2>2, <2>3, <2>4
<1>3. \A i \in DOMAIN log' : i \in Repeats' <=>
         \E k \in 1 .. i - 1 : Carried(log'[i].events) \cap Carried(log'[k].events) # {}
  BY DEF Repeats, Carried
<1>4. Repeats' \subseteq Repeats \cup {n + 1}
  <2>1. SUFFICES ASSUME NEW i \in Repeats', i # n + 1 PROVE i \in Repeats
    OBVIOUS
  <2>2. i \in DOMAIN log'
    BY DEF Repeats
  <2>3. i \in 1 .. n
    BY <1>1, <2>1, <2>2
  <2>4. PICK k \in 1 .. i - 1 : Carried(log'[i].events) \cap Carried(log'[k].events) # {}
    BY <1>3, <2>2
  <2>5. k \in 1 .. n
    BY <1>1, <2>3
  <2>6. Carried(log[i].events) \cap Carried(log[k].events) # {}
    BY <1>1, <2>3, <2>4, <2>5
  <2>7. QED
    BY <1>1, <2>3, <2>6 DEF Repeats
<1>5. ASSUME n + 1 \in Repeats' PROVE Carried(r.events) \cap Published # {}
  <2>1. PICK i \in DOMAIN log' : i = n + 1 /\ i \in Repeats'
    BY <1>1, <1>5
  <2>2. PICK k \in 1 .. i - 1 : Carried(log'[i].events) \cap Carried(log'[k].events) # {}
    BY <1>3, <2>1
  <2>3. k \in 1 .. n
    BY <1>1, <2>1
  <2>4. Carried(r.events) \cap Carried(log[k].events) # {}
    BY <1>1, <2>1, <2>2, <2>3
  <2>5. Carried(log[k].events) \subseteq Published
    <3>1. k \in DOMAIN log
      BY <1>1, <2>3
    <3>2. Carried(log[k].events) \in {Carried(log[j].events) : j \in DOMAIN log}
      BY <3>1
    <3>3. QED
      BY <3>2, Zenon DEF Published
  <2>6. QED
    BY <2>4, <2>5
<1>6. QED
  BY <1>1, <1>2, <1>4, <1>5 DEF n

\* A row that was sent is among the oldest of its group: a record that carried it
\* carried everything older that is still queued, and carries at most BatchMax.
LEMMA SentAreOldest ==
    ASSUME QueueType, IdsAreUnique, RecordsAreBatches, NEW g \in Group,
           NEW q \in FreshOf(g), q.id \in Published
    PROVE  Cardinality(Older(FreshOf(g), q)) < BatchMax
<1>0. BatchMax \in Nat \ {0}
  BY DoorEventsAssumption
<1>1. PICK i \in DOMAIN log : q.id \in Carried(log[i].events)
  BY DEF Published
<1>2. /\ q \in queue /\ q.group = g /\ q.age < MaxAge
      /\ FreshOf(g) \subseteq queue /\ FreshOf(g) \subseteq Event
  BY DEF FreshOf, GroupRows, QueueType
<1>3. AreRows(FreshOf(g))
  <2>1. IsFiniteSet(FreshOf(g))
    BY <1>2, FS_Subset DEF QueueType
  <2>2. QED
    BY <1>2, <2>1 DEF AreRows, IdsAreUnique, Event
<1>4. /\ Batch(log[i].events) /\ OldestWereTaken(log[i].events, log[i].group)
      /\ log[i].group = g /\ log[i].events \in Seq(Event)
  BY <1>1, <1>2, CarriedAreIds DEF RecordsAreBatches
<1> DEFINE sent == Older(FreshOf(g), q) \cup {q}
           m == Len(log[i].events)
<1>5. \A r \in sent : r.id \in Carried(log[i].events)
  <2>1. ASSUME NEW r \in Older(FreshOf(g), q) PROVE r.id \in Carried(log[i].events)
    <3>1. r \in queue /\ r.group = g /\ r.age < MaxAge /\ r.id < q.id
      BY DEF Older, FreshOf, GroupRows
    <3>2. QED
      BY <1>1, <1>4, <3>1 DEF OldestWereTaken
  <2>2. QED
    BY <1>1, <2>1
<1>6. m \in Nat /\ DOMAIN log[i].events = 1 .. m /\ m =< BatchMax
  BY <1>4 DEF Batch
<1>7. \A r \in sent : \E k \in 1 .. m : log[i].events[k].id = r.id
  BY <1>5, <1>6 DEF Carried
<1>8. \A r, s \in sent : r.id = s.id => r = s
  BY <1>2 DEF Older, IdsAreUnique
<1>9. IsFiniteSet(Older(FreshOf(g), q)) /\ q \notin Older(FreshOf(g), q)
      /\ Cardinality(Older(FreshOf(g), q)) \in Nat
  BY <1>2, <1>3, OlderIsSmaller DEF Older, Event
<1>10. IsFiniteSet(sent) /\ Cardinality(sent) = Cardinality(Older(FreshOf(g), q)) + 1
  BY <1>9, FS_AddElement
<1> DEFINE where == [r \in sent |-> CHOOSE k \in 1 .. m : log[i].events[k].id = r.id]
<1>11. \A r \in sent : where[r] \in 1 .. m /\ log[i].events[where[r]].id = r.id
  BY <1>7
<1>12. where \in Injection(sent, 1 .. m)
  <2>1. where \in [sent -> 1 .. m]
    BY <1>11
  <2> HIDE DEF where, sent
  <2>2. ASSUME NEW r \in sent, NEW s \in sent, where[r] = where[s] PROVE r = s
    <3>1. r.id = log[i].events[where[r]].id /\ s.id = log[i].events[where[s]].id
      BY <1>11
    <3>2. r.id = s.id
      BY <2>2, <3>1
    <3>3. QED
      BY <1>8, <3>2
  <2>3. QED
    BY <2>1, <2>2, Fun_IsInj
<1>13. IsFiniteSet(1 .. m) /\ Cardinality(1 .. m) = m
  BY <1>6, FS_Interval
<1>14. Cardinality(sent) =< m
  <2> HIDE DEF where, sent
  <2>1. Cardinality(sent) =< Cardinality(1 .. m)
    BY <1>12, <1>13, FS_Injection
  <2>2. QED
    BY <1>13, <2>1
<1>15. QED
  BY <1>0, <1>6, <1>9, <1>10, <1>14

----------------------------------------------------------------------------
(* What a step leaves alone. *)

LEMMA RecordsStay ==
    ASSUME QueueInv, UNCHANGED <<queue, nextId, log>>
    PROVE  /\ IdsAreUnique' /\ RecordsAreBatches' /\ Published' = Published /\ Repeats' = Repeats
           /\ aged' = aged => NothingLost'
<1>1. IdsAreUnique'
  BY DEF QueueInv, IdsAreUnique
<1>2. RecordsAreBatches'
  BY DEF QueueInv, RecordsAreBatches, Batch, Increasing, OldestWereTaken, AfterWhatItCarries,
         Carried
<1>3. Published' = Published /\ Repeats' = Repeats
  BY DEF Published, Repeats, Carried
<1>4. aged' = aged => NothingLost'
  BY <1>3 DEF QueueInv, NothingLost, Accepted, Ids
<1>5. QED
  BY <1>1, <1>2, <1>3, <1>4

LEMMA LoopStays ==
    ASSUME QueueInv, UNCHANGED <<queue, nextId, log, loop>>
    PROVE  DecisionStands' /\ Owing' = Owing
<1>1. Published' = Published
  BY DEF Published, Carried
<1>2. DecisionStands'
  BY <1>1 DEF QueueInv, DecisionStands, Deciding, Batch, Increasing, OldestWereTaken,
              AfterWhatItCarries, Carried, Ids, loop
<1>3. Owing' = Owing
  BY <1>1 DEF Owing, Pending, Carried, loop
<1>4. QED
  BY <1>2, <1>3

\* No new repeat, and no group more that may repeat unless a fault pays for it.
LEMMA StillPaid ==
    ASSUME QueueInv, Repeats' \subseteq Repeats, NEW g, Owing' \subseteq Owing \cup {g},
           \/ faults' = faults /\ Owing' \subseteq Owing
           \/ faults' = faults + 1
    PROVE  RepeatsArePaid'
<1>1. /\ IsFiniteSet(Repeats) /\ IsFiniteSet(Owing) /\ faults \in Nat
      /\ Cardinality(Repeats) \in Nat /\ Cardinality(Owing) \in Nat
  BY CountsAreNumbers DEF QueueInv, QueueType
<1>2. Cardinality(Repeats') =< Cardinality(Repeats) /\ Cardinality(Repeats') \in Nat
  BY <1>1, FS_Subset, FS_CardinalityType
<1>3. IsFiniteSet(Owing \cup {g}) /\ Cardinality(Owing \cup {g}) =< Cardinality(Owing) + 1
      /\ Cardinality(Owing \cup {g}) \in Nat
  <2>1. IsFiniteSet(Owing \cup {g})
    BY <1>1, FS_AddElement
  <2>2. g \in Owing => Owing \cup {g} = Owing
    OBVIOUS
  <2>3. g \notin Owing => Cardinality(Owing \cup {g}) = Cardinality(Owing) + 1
    BY <1>1, FS_AddElement
  <2>4. QED
    BY <1>1, <2>1, <2>2, <2>3
<1>4. Cardinality(Owing') =< Cardinality(Owing \cup {g}) /\ Cardinality(Owing') \in Nat
  BY <1>3, FS_Subset, FS_CardinalityType
<1>5. Owing' \subseteq Owing => Cardinality(Owing') =< Cardinality(Owing)
  BY <1>1, FS_Subset
<1>6. Cardinality(Repeats) + Cardinality(Owing) =< faults
  BY DEF QueueInv, RepeatsArePaid
<1>7. Cardinality(Repeats') + Cardinality(Owing') =< faults'
  BY <1>1, <1>2, <1>3, <1>4, <1>5, <1>6
<1>8. QED
  BY <1>7 DEF RepeatsArePaid

----------------------------------------------------------------------------
(* Sessions. *)

LEMMA EmitPreserves ==
    ASSUME QueueInv, NEW s \in Session, NEW g \in Group, Emit(s, g)
    PROVE  QueueInv'
<1>1. /\ UNCHANGED <<queue, nextId, log, loop, reader, aged, faults, federated>>
      /\ counted' = [counted EXCEPT ![s] = [group |-> g, count |-> Cardinality(queue)]]
  BY DEF Emit
<1>2. QueueType /\ MaxQueued \in Nat \ {0}
  BY DoorEventsAssumption DEF QueueInv
<1>3. QueueType'
  <2>1. [group |-> g, count |-> Cardinality(queue)] \in [group : Group, count : Nat]
    BY <1>2, CountsAreNumbers
  <2>2. counted' \in [Session -> [group : Group, count : Nat] \cup {NotCounted}]
    BY <1>1, <1>2, <2>1 DEF QueueType
  <2>3. QED
    BY <1>1, <1>2, <2>2 DEF QueueType, loop, reader
<1>4. IdsAreUnique' /\ RecordsAreBatches' /\ NothingLost' /\ DecisionStands'
      /\ Owing' = Owing /\ Repeats' = Repeats
  BY <1>1, RecordsStay, LoopStays
<1>5. RepeatsArePaid'
  BY <1>1, <1>4, StillPaid
<1>6. NothingSkipped'
  BY <1>1 DEF QueueInv, NothingSkipped, reader
<1>7. RoomIsLeft'
  <2>1. \A t \in Session : t # s => counted'[t] = counted[t]
    BY <1>1, <1>2 DEF QueueType
  <2>2. counted'[s].count = Cardinality(queue)
    BY <1>1, <1>2 DEF QueueType
  <2>3. Admitted' = {t \in Session : counted'[t] # NotCounted /\ ~(counted'[t].count >= MaxQueued)}
    BY DEF Admitted, NotCounted, Full
  <2>4. Admitted = {t \in Session : counted[t] # NotCounted /\ ~(counted[t].count >= MaxQueued)}
    BY DEF Admitted, NotCounted, Full
  <2>5. CASE Cardinality(queue) >= MaxQueued
    <3>1. Admitted' \subseteq Admitted
      BY <2>1, <2>2, <2>3, <2>4, <2>5
    <3>2. Cardinality(Admitted') =< Cardinality(Admitted) /\ Cardinality(Admitted') \in Nat
      BY <1>2, <3>1, CountsAreNumbers, FS_Subset, FS_CardinalityType
    <3>3. Cardinality(queue) + Cardinality(Admitted) =< MaxQueued + Cardinality(Session) - 1
      BY DEF QueueInv, RoomIsLeft
    <3>4. Cardinality(queue) + Cardinality(Admitted') =< MaxQueued + Cardinality(Session) - 1
      BY <1>2, <3>2, <3>3, CountsAreNumbers
    <3>5. QED
      BY <1>1, <3>4 DEF RoomIsLeft
  <2>6. CASE ~(Cardinality(queue) >= MaxQueued)
    <3>1. Admitted' \subseteq Session /\ IsFiniteSet(Session)
      BY <2>3, DoorEventsAssumption
    <3>2. Cardinality(Admitted') =< Cardinality(Session) /\ Cardinality(Admitted') \in Nat
      BY <3>1, FS_Subset, FS_CardinalityType
    <3>3. Cardinality(queue) + Cardinality(Admitted') =< MaxQueued + Cardinality(Session) - 1
      BY <1>2, <2>6, <3>2, CountsAreNumbers
    <3>4. QED
      BY <1>1, <3>3 DEF RoomIsLeft
  <2>7. QED
    BY <2>5, <2>6
<1>8. QED
  BY <1>3, <1>4, <1>5, <1>6, <1>7 DEF QueueInv

\* The queue takes a new row: its id is new, so nothing that was sent or is on its way
\* is about it.
LEMMA InsertPreserves ==
    ASSUME QueueInv, NEW s \in Session, Insert(s)
    PROVE  QueueInv'
<1>1. /\ UNCHANGED <<log, loop, reader, aged, faults, federated>>
      /\ counted[s] # NotCounted /\ counted' = [counted EXCEPT ![s] = NotCounted]
  BY DEF Insert
<1>2. QueueType /\ MaxQueued \in Nat \ {0}
  BY DoorEventsAssumption DEF QueueInv
<1>3. /\ counted' \in [Session -> [group : Group, count : Nat] \cup {NotCounted}]
      /\ counted[s].group \in Group
  BY <1>1, <1>2 DEF QueueType
<1>4. Admitted' \subseteq Admitted \ {s}
  <2>1. \A t \in Session : t # s => counted'[t] = counted[t]
    BY <1>1, <1>2 DEF QueueType
  <2>2. counted'[s] = NotCounted
    BY <1>1, <1>2 DEF QueueType
  <2>3. Admitted' = {t \in Session : counted'[t] # NotCounted /\ ~(counted'[t].count >= MaxQueued)}
    BY DEF Admitted, NotCounted, Full
  <2>4. Admitted = {t \in Session : counted[t] # NotCounted /\ ~(counted[t].count >= MaxQueued)}
    BY DEF Admitted, NotCounted, Full
  <2>5. QED
    BY <2>1, <2>2, <2>3, <2>4
<1>5. NothingSkipped'
  BY <1>1 DEF QueueInv, NothingSkipped, reader
<1>6. CASE UNCHANGED <<queue, nextId>>
  <2>1. QueueType'
    BY <1>1, <1>2, <1>3, <1>6 DEF QueueType, loop, reader
  <2>2. IdsAreUnique' /\ RecordsAreBatches' /\ NothingLost' /\ DecisionStands'
        /\ Owing' = Owing /\ Repeats' = Repeats
    BY <1>1, <1>6, RecordsStay, LoopStays
  <2>3. RepeatsArePaid'
    BY <1>1, <2>2, StillPaid
  <2>4. RoomIsLeft'
    <3>1. Cardinality(Admitted') =< Cardinality(Admitted) /\ Cardinality(Admitted') \in Nat
      BY <1>2, <1>4, CountsAreNumbers, FS_Subset, FS_CardinalityType
    <3>2. Cardinality(queue) + Cardinality(Admitted) =< MaxQueued + Cardinality(Session) - 1
      BY DEF QueueInv, RoomIsLeft
    <3>3. Cardinality(queue) + Cardinality(Admitted') =< MaxQueued + Cardinality(Session) - 1
      BY <1>2, <3>1, <3>2, CountsAreNumbers
    <3>4. QED
      BY <1>6, <3>3 DEF RoomIsLeft
  <2>5. QED
    BY <1>5, <2>1, <2>2, <2>3, <2>4 DEF QueueInv
<1>7. CASE /\ ~Full(counted[s].count)
           /\ queue' = queue \cup {[id |-> nextId, group |-> counted[s].group, age |-> 0]}
           /\ nextId' = nextId + 1
  <2> DEFINE new == [id |-> nextId, group |-> counted[s].group, age |-> 0]
  <2>1. /\ new \in Event /\ new.id = nextId /\ queue' = queue \cup {new}
        /\ nextId \in Nat \ {0} /\ nextId' \in Nat \ {0} /\ nextId < nextId'
    BY <1>2, <1>3, <1>7, DoorEventsAssumption DEF QueueType, Event
  <2>2. /\ \A q \in queue : q \in Event /\ q.id \in Nat /\ q.id < nextId
        /\ new \notin queue
    BY <2>1 DEF QueueInv, QueueType, IdsAreUnique, Event
  <2> HIDE DEF new
  <2>3. QueueType'
    <3>1. IsFiniteSet(queue')
      BY <1>2, <2>1, FS_AddElement DEF QueueType
    <3>2. queue' \subseteq Event
      BY <2>1, <2>2
    <3>3. QED
      BY <1>1, <1>2, <1>3, <2>1, <3>1, <3>2 DEF QueueType, loop, reader
  <2>4. IdsAreUnique'
    BY <2>1, <2>2 DEF QueueInv, IdsAreUnique
  <2>5. /\ \A i \in DOMAIN log : /\ log[i] \in Record /\ log[i].events \in Seq(Event)
                                 /\ Carried(log[i].events) \subseteq Published
        /\ \A e \in Published : e \in Nat /\ e < nextId
    BY CarriedAreIds DEF QueueInv
  <2>6. Published' = Published /\ Repeats' = Repeats
    BY <1>1 DEF Published, Repeats, Carried
  <2>7. ASSUME NEW events \in Seq(Event), Batch(events) PROVE Batch(events)'
    <3>1. \A k \in DOMAIN events : events[k].id < nextId'
      <4>1. ASSUME NEW k \in DOMAIN events PROVE events[k].id < nextId'
        <5>1. events[k] \in Event
          OBVIOUS
        <5>2. events[k].id \in Nat /\ events[k].id < nextId
          BY <2>7, <5>1 DEF Batch, Event
        <5>3. QED
          BY <2>1, <5>2
      <4>2. QED
        BY <4>1
    <3>2. QED
      BY <2>7, <3>1 DEF Batch, Increasing
  <2>8. ASSUME NEW events \in Seq(Event), NEW g, Batch(events), OldestWereTaken(events, g)
        PROVE  OldestWereTaken(events, g)'
    <3>1. SUFFICES ASSUME NEW e \in Carried(events), NEW q \in queue',
                          q.group = g /\ q.id < e /\ q.age < MaxAge
                   PROVE  q.id \in Carried(events)
      BY DEF OldestWereTaken, Carried
    <3>2. e \in Nat /\ e < nextId
      <4>1. PICK k \in DOMAIN events : e = events[k].id
        BY DEF Carried
      <4>2. events[k] \in Event
        OBVIOUS
      <4>3. QED
        BY <2>8, <4>1, <4>2 DEF Batch, Event
    <3>3. q \in queue
      BY <2>1, <3>1, <3>2
    <3>4. QED
      BY <2>8, <3>1, <3>3 DEF OldestWereTaken
  <2>9. RecordsAreBatches'
    <3>1. ASSUME NEW i \in DOMAIN log
          PROVE  /\ Batch(log[i].events)' /\ OldestWereTaken(log[i].events, log[i].group)'
                 /\ \A q \in queue' : q.id \in Carried(log[i].events) => q.group = log[i].group
      <4>1. Batch(log[i].events) /\ OldestWereTaken(log[i].events, log[i].group)
        BY DEF QueueInv, RecordsAreBatches
      <4>2. Batch(log[i].events)' /\ OldestWereTaken(log[i].events, log[i].group)'
        BY <1>1, <2>5, <2>7, <2>8, <4>1
      <4>3. nextId \notin Carried(log[i].events)
        BY <2>1, <2>5
      <4>4. \A q \in queue' : q.id \in Carried(log[i].events) => q \in queue
        BY <2>1, <4>3
      <4>5. QED
        BY <4>2, <4>4 DEF QueueInv, RecordsAreBatches
    <3>2. QED
      BY <1>1, <3>1 DEF QueueInv, RecordsAreBatches, AfterWhatItCarries, Carried
  <2>10. DecisionStands'
    <3>1. decision.flush \in Seq(Event)
      BY <1>2 DEF QueueType
    <3>2. SUFFICES ASSUME Deciding PROVE DecisionStands'
      BY <1>1 DEF DecisionStands, Deciding, loop
    <3>3. Batch(decision.flush) /\ OldestWereTaken(decision.flush, decision.group)
      BY <3>2 DEF QueueInv, DecisionStands
    <3>4. Batch(decision.flush)' /\ OldestWereTaken(decision.flush, decision.group)'
      BY <1>1, <2>7, <2>8, <3>1, <3>3 DEF loop
    <3>5. \A q \in queue' : q.id \in Published => q \in queue
      BY <2>1, <2>5
    <3> DEFINE batch == decision.flush
               g == decision.group
    <3>6. /\ g \in Group
          /\ step # "expire" => batch # <<>>
          /\ \A e \in Carried(batch) : \E q \in queue : q.id = e /\ q.group = g
          /\ \A e \in Carried(batch) : e \notin Ids(decision.expire)
          /\ batch # <<>> => \A q \in queue :
                q.group = g /\ q.age < MaxAge /\ q.id \in Published => q.id \in Carried(batch)
          /\ step # "delete" => \A i \in DOMAIN log : log[i].group = g => AfterWhatItCarries(i, batch)
          /\ step = "delete" => Carried(batch) \subseteq Published
      BY <3>2 DEF QueueInv, DecisionStands
    <3>7. \A e \in Carried(batch) : \E q \in queue' : q.id = e /\ q.group = g
      BY <2>1, <3>6
    <3>8. batch # <<>> => \A q \in queue' :
             q.group = g /\ q.age < MaxAge /\ q.id \in Published => q.id \in Carried(batch)
      BY <3>5, <3>6
    <3>9. QED
      BY <1>1, <2>6, <3>4, <3>6, <3>7, <3>8
      DEF DecisionStands, AfterWhatItCarries, Carried, Ids, loop
  <2>11. Owing' \subseteq Owing
    <3>1. \A q \in queue' : Pending(q)' => q \in queue /\ Pending(q)
      BY <1>1, <2>1, <2>5, <2>6 DEF Pending, Carried, loop
    <3>2. QED
      BY <3>1 DEF Owing
  <2>12. RepeatsArePaid'
    BY <1>1, <2>6, <2>11, StillPaid
  <2>13. RoomIsLeft'
    <3>1. s \in Admitted
      BY <1>1, <1>7 DEF Admitted
    <3>2. /\ IsFiniteSet(Admitted \ {s})
          /\ Cardinality(Admitted \ {s}) = Cardinality(Admitted) - 1
      BY <1>2, <3>1, CountsAreNumbers, FS_RemoveElement
    <3>3. Cardinality(Admitted') =< Cardinality(Admitted) - 1 /\ Cardinality(Admitted') \in Nat
      BY <1>4, <3>2, FS_Subset, FS_CardinalityType
    <3>4. Cardinality(queue') = Cardinality(queue) + 1
      BY <1>2, <2>1, <2>2, CountsAreNumbers, FS_AddElement
    <3>5. Cardinality(queue) + Cardinality(Admitted) =< MaxQueued + Cardinality(Session) - 1
      BY DEF QueueInv, RoomIsLeft
    <3>6. Cardinality(queue') + Cardinality(Admitted') =< MaxQueued + Cardinality(Session) - 1
      BY <1>2, <3>3, <3>4, <3>5, CountsAreNumbers
    <3>7. QED
      BY <3>6 DEF RoomIsLeft
  <2>14. NothingLost'
    <3>1. \A n \in Accepted' : n \in Accepted \/ n = nextId
      BY <1>7, <2>1 DEF Accepted
    <3>2. nextId \in Ids(queue')
      BY <2>1 DEF Ids
    <3>3. Ids(queue) \subseteq Ids(queue')
      BY <2>1 DEF Ids
    <3>4. Accepted' \subseteq Ids(queue') \cup Published \cup aged
      BY <3>1, <3>2, <3>3 DEF QueueInv, NothingLost
    <3>5. QED
      BY <1>1, <2>6, <3>4 DEF NothingLost, Ids
  <2>15. QED
    BY <1>5, <2>3, <2>4, <2>9, <2>10, <2>12, <2>13, <2>14 DEF QueueInv
<1>8. QED
  BY <1>6, <1>7 DEF Insert

\* Whether a league is on the mesh is looked at when a record is made, and only then.
LEMMA SetFederatedPreserves ==
    ASSUME QueueInv, NEW g \in Group, SetFederated(g)
    PROVE  QueueInv'
<1>1. UNCHANGED <<queue, nextId, counted, log, loop, reader, aged, faults>>
  BY DEF SetFederated
<1>2. QueueType'
  BY <1>1 DEF QueueInv, QueueType, loop, reader
<1>3. IdsAreUnique' /\ RecordsAreBatches' /\ NothingLost' /\ DecisionStands'
      /\ Owing' = Owing /\ Repeats' = Repeats
  BY <1>1, RecordsStay, LoopStays
<1>4. RepeatsArePaid'
  BY <1>1, <1>3, StillPaid
<1>5. NothingSkipped' /\ RoomIsLeft'
  BY <1>1 DEF QueueInv, NothingSkipped, RoomIsLeft, Admitted, reader
<1>6. QED
  BY <1>2, <1>3, <1>4, <1>5 DEF QueueInv

\* The next page follows the cursor, and the cursor ends with the page.
LEMMA PollPreserves ==
    ASSUME QueueInv, Poll
    PROVE  QueueInv'
<1>1. /\ UNCHANGED <<queue, nextId, counted, log, loop, aged, faults>>
      /\ polled < Len(log)
      /\ seen' = seen \cup {i \in DOMAIN log : i > polled /\ i =< polled + PageLimit}
      /\ polled' = CursorAfter(polled)
  BY DEF Poll
<1>2. Len(log) \in Nat /\ DOMAIN log = 1 .. Len(log) /\ polled \in 0 .. Len(log) /\ PageLimit \in Nat
  BY DoorEventsAssumption DEF QueueInv, QueueType
<1>3. /\ polled' \in 0 .. Len(log) /\ polled' =< polled + PageLimit
  BY <1>1, <1>2 DEF CursorAfter
<1>4. QueueType'
  BY <1>1, <1>3 DEF QueueInv, QueueType, loop
<1>5. IdsAreUnique' /\ RecordsAreBatches' /\ NothingLost' /\ DecisionStands'
      /\ Owing' = Owing /\ Repeats' = Repeats
  BY <1>1, RecordsStay, LoopStays
<1>6. RepeatsArePaid'
  BY <1>1, <1>5, StillPaid
<1>7. NothingSkipped'
  <2>1. ASSUME NEW i \in 1 .. polled' PROVE i \in seen'
    <3>1. i \in DOMAIN log /\ i =< polled + PageLimit
      BY <1>2, <1>3
    <3>2. CASE i > polled
      BY <1>1, <3>1, <3>2
    <3>3. CASE ~(i > polled)
      <4>1. i \in 1 .. polled
        BY <1>2, <3>1, <3>3
      <4>2. QED
        BY <1>1, <4>1 DEF QueueInv, NothingSkipped
    <3>4. QED
      BY <3>2, <3>3
  <2>2. QED
    BY <2>1 DEF NothingSkipped
<1>8. RoomIsLeft'
  BY <1>1 DEF QueueInv, RoomIsLeft, Admitted
<1>9. QED
  BY <1>4, <1>5, <1>6, <1>7, <1>8 DEF QueueInv

----------------------------------------------------------------------------
(* The loop. *)

LEMMA ListGroupsPreserves ==
    ASSUME QueueInv, ListGroups
    PROVE  QueueInv'
<1>1. /\ UNCHANGED <<queue, nextId, counted, log, decision, reader, aged, faults>>
      /\ step = "wait" /\ step' = "next" /\ groupsLeft' = {q.group : q \in queue}
  BY DEF ListGroups
<1>2. groupsLeft' \subseteq Group
  BY <1>1 DEF QueueInv, QueueType, Event
<1>3. QueueType'
  BY <1>1, <1>2 DEF QueueInv, QueueType, reader
<1>4. /\ IdsAreUnique' /\ RecordsAreBatches' /\ NothingLost' /\ Repeats' = Repeats
      /\ Published' = Published
  BY <1>1, RecordsStay
<1>5. DecisionStands'
  BY <1>1 DEF DecisionStands, Deciding
<1>6. Owing' = Owing
  BY <1>1, <1>4 DEF Owing, Pending
<1>7. RepeatsArePaid'
  BY <1>1, <1>4, <1>6, StillPaid
<1>8. NothingSkipped' /\ RoomIsLeft'
  BY <1>1 DEF QueueInv, NothingSkipped, RoomIsLeft, Admitted, reader
<1>9. QED
  BY <1>3, <1>4, <1>5, <1>7, <1>8 DEF QueueInv

\* What is decided is a batch, and has in it every row of the group that was sent
\* before and may be sent again.
LEMMA DecidePreserves ==
    ASSUME QueueInv, Decide
    PROVE  QueueInv'
<1>1. UNCHANGED <<queue, nextId, counted, log, reader, aged, faults>> /\ step = "next"
  BY DEF Decide
<1>2. /\ IdsAreUnique' /\ RecordsAreBatches' /\ NothingLost' /\ Repeats' = Repeats
      /\ Published' = Published
  BY <1>1, RecordsStay
<1>3. NothingSkipped' /\ RoomIsLeft'
  BY <1>1 DEF QueueInv, NothingSkipped, RoomIsLeft, Admitted, reader
<1>4. CASE groupsLeft = {} /\ step' = "wait" /\ decision' = Idle /\ groupsLeft' = groupsLeft
  <2>1. Idle \in [group : Group \cup {"none"}, expire : SUBSET Event, flush : Seq(Event)]
    BY DEF Idle
  <2>2. QueueType'
    BY <1>1, <1>4, <2>1 DEF QueueInv, QueueType, reader
  <2>3. DecisionStands'
    BY <1>4 DEF DecisionStands, Deciding
  <2>4. Owing' = Owing
    BY <1>1, <1>2, <1>4 DEF Owing, Pending
  <2>5. RepeatsArePaid'
    BY <1>1, <1>2, <2>4, StillPaid
  <2>6. QED
    BY <1>2, <1>3, <2>2, <2>3, <2>5 DEF QueueInv
<1>5. ASSUME NEW g \in groupsLeft, groupsLeft' = groupsLeft \ {g}, decision' = Consider(g),
             step' = IF Consider(g).expire # {} THEN "expire"
                     ELSE IF Consider(g).flush # <<>> THEN "publish" ELSE "next"
      PROVE  QueueInv'
  <2>0. PICK batch, expire : batch = Flush(Fresh(GroupRows(g))) /\ expire = {q \in GroupRows(g) : q.age >= MaxAge}
    OBVIOUS
  <2>1. /\ decision' = [group |-> g, flush |-> batch, expire |-> expire]
        /\ g \in Group /\ step' \in {"expire", "publish", "next"}
        /\ step' = "publish" => batch # <<>>
    BY <1>5, <2>0 DEF Consider, QueueInv, QueueType
  <2>2. /\ batch \in Seq(Event) /\ Batch(batch) /\ OldestWereTaken(batch, g)
        /\ \A e \in Carried(batch) : \E q \in FreshOf(g) : q.id = e
        /\ batch # <<>> => \A q \in FreshOf(g) :
              Cardinality(Older(FreshOf(g), q)) < BatchMax => q.id \in Carried(batch)
    BY <2>0, <2>1, FlushIsABatch DEF QueueInv
  <2>3. /\ decision'.group = g /\ decision'.flush = batch /\ decision'.expire = expire
    BY <2>1
  <2>4. QueueType'
    <3>1. expire \in SUBSET Event /\ groupsLeft' \subseteq Group
      BY <1>5, <2>0 DEF QueueInv, QueueType, GroupRows
    <3>2. decision' \in [group : Group \cup {"none"}, expire : SUBSET Event, flush : Seq(Event)]
      BY <2>1, <2>2, <3>1
    <3>3. QED
      BY <1>1, <2>1, <3>1, <3>2 DEF QueueInv, QueueType, reader
  <2>5. \A q \in queue : q.group = g /\ q.id \in Carried(batch) => q.age < MaxAge
    BY <2>2 DEF FreshOf, GroupRows, QueueInv, IdsAreUnique
  <2>6. DecisionStands'
    <3>1. Batch(batch)' /\ OldestWereTaken(batch, g)'
      BY <1>1, <2>2 DEF Batch, Increasing, OldestWereTaken, Carried
    <3>2. \A e \in Carried(batch) : \E q \in queue : q.id = e /\ q.group = g
      BY <2>2 DEF FreshOf, GroupRows
    <3>3. \A e \in Carried(batch) : e \notin Ids(expire)
      <4>1. SUFFICES ASSUME NEW e \in Carried(batch), NEW r \in expire, r.id = e PROVE FALSE
        BY DEF Ids
      <4>2. r \in queue /\ r.group = g /\ r.age >= MaxAge /\ r.age \in Nat /\ MaxAge \in Nat
        BY <2>0, DoorEventsAssumption DEF GroupRows, QueueInv, QueueType, Event
      <4>3. QED
        BY <2>5, <4>1, <4>2
    <3>4. ASSUME batch # <<>>, NEW q \in queue, q.group = g, q.age < MaxAge, q.id \in Published
          PROVE  q.id \in Carried(batch)
      <4>1. q \in FreshOf(g)
        BY <3>4 DEF FreshOf, GroupRows
      <4>2. Cardinality(Older(FreshOf(g), q)) < BatchMax
        BY <2>1, <3>4, <4>1, SentAreOldest DEF QueueInv
      <4>3. QED
        BY <2>2, <3>4, <4>1, <4>2
    <3>5. ASSUME NEW i \in DOMAIN log, log[i].group = g
          PROVE  AfterWhatItCarries(i, batch)
      <4>1. SUFFICES ASSUME NEW e \in Carried(log[i].events), NEW f \in Carried(batch), f < e
                     PROVE  f \in Carried(log[i].events)
        BY DEF AfterWhatItCarries
      <4>2. PICK q \in FreshOf(g) : q.id = f
        BY <2>2
      <4>3. q \in queue /\ q.group = g /\ q.age < MaxAge
        BY DEF FreshOf, GroupRows
      <4>4. QED
        BY <3>5, <4>1, <4>2, <4>3 DEF QueueInv, RecordsAreBatches, OldestWereTaken
    <3>6. Batch(decision.flush)' /\ OldestWereTaken(decision.flush, decision.group)'
      BY <2>3, <3>1 DEF Batch, Increasing, OldestWereTaken, Carried
    <3>7. \A i \in DOMAIN log' : log'[i].group = g => AfterWhatItCarries(i, decision.flush)'
      BY <1>1, <2>3, <3>5 DEF AfterWhatItCarries, Carried
    <3>8. /\ Carried(decision.flush)' = Carried(batch) /\ Ids(decision.expire)' = Ids(expire)
          /\ step' # "delete"
      BY <2>1, <2>3 DEF Carried, Ids
    <3>9. step' # "expire" /\ Deciding' => batch # <<>>
      BY <2>1 DEF Deciding
    <3>10. QED
      BY <1>1, <1>2, <2>1, <2>3, <3>2, <3>3, <3>4, <3>6, <3>7, <3>8, <3>9
      DEF DecisionStands
  <2>7. Owing' \subseteq Owing
    <3>1. SUFFICES ASSUME NEW h \in Group, NEW q \in queue, q.group = h, Pending(q)'
                   PROVE  Pending(q)
      BY <1>1 DEF Owing
    <3>2. q.id \in Published
      BY <1>2, <3>1 DEF Pending
    <3>3. q.age < MaxAge \/ q.id \in Carried(batch)
      BY <2>3, <3>1 DEF Pending, Carried
    <3>4. q.age < MaxAge
      BY <2>2, <3>3 DEF FreshOf, GroupRows, QueueInv, IdsAreUnique
    <3>5. QED
      BY <1>1, <3>2, <3>4 DEF Pending
  <2>8. RepeatsArePaid'
    BY <1>1, <1>2, <2>7, StillPaid
  <2>9. QED
    BY <1>2, <1>3, <2>4, <2>6, <2>8 DEF QueueInv
<1>6. QED
  BY <1>1, <1>4, <1>5 DEF Decide

\* Rows leave the queue.
LEMMA RowsLeave ==
    ASSUME QueueInv, queue' \subseteq queue, UNCHANGED <<nextId, counted, log>>
    PROVE  /\ queue' \subseteq Event /\ IsFiniteSet(queue')
           /\ IdsAreUnique' /\ RecordsAreBatches' /\ RoomIsLeft'
           /\ Published' = Published /\ Repeats' = Repeats
<1>1. queue \subseteq Event /\ IsFiniteSet(queue) /\ MaxQueued \in Nat /\ QueueType
  BY DoorEventsAssumption DEF QueueInv, QueueType
<1>2. queue' \subseteq Event /\ IsFiniteSet(queue') /\ Cardinality(queue') =< Cardinality(queue)
      /\ Cardinality(queue') \in Nat
  BY <1>1, FS_Subset, FS_CardinalityType
<1>3. Published' = Published /\ Repeats' = Repeats
  BY DEF Published, Repeats, Carried
<1>4. IdsAreUnique'
  BY DEF QueueInv, IdsAreUnique
<1>5. RecordsAreBatches'
  <2>1. ASSUME NEW i \in DOMAIN log
        PROVE  /\ Batch(log[i].events)' /\ OldestWereTaken(log[i].events, log[i].group)'
               /\ \A q \in queue' : q.id \in Carried(log[i].events) => q.group = log[i].group
    <3>1. /\ Batch(log[i].events) /\ OldestWereTaken(log[i].events, log[i].group)
          /\ \A q \in queue : q.id \in Carried(log[i].events) => q.group = log[i].group
      BY DEF QueueInv, RecordsAreBatches
    <3>2. Batch(log[i].events)'
      BY <3>1 DEF Batch, Increasing
    <3>3. OldestWereTaken(log[i].events, log[i].group)'
      BY <3>1 DEF OldestWereTaken, Carried
    <3>4. QED
      BY <3>1, <3>2, <3>3
  <2>2. \A i, j \in DOMAIN log :
           i < j /\ log[i].group = log[j].group => AfterWhatItCarries(i, log[j].events)'
    BY DEF QueueInv, RecordsAreBatches, AfterWhatItCarries, Carried
  <2>3. QED
    BY <2>1, <2>2 DEF RecordsAreBatches, Carried
<1>6. RoomIsLeft'
  <2>1. Admitted' = Admitted
    BY DEF Admitted
  <2>2. Cardinality(queue) + Cardinality(Admitted) =< MaxQueued + Cardinality(Session) - 1
    BY DEF QueueInv, RoomIsLeft
  <2>3. Cardinality(queue') + Cardinality(Admitted) =< MaxQueued + Cardinality(Session) - 1
    BY <1>1, <1>2, <2>2, CountsAreNumbers
  <2>4. QED
    BY <2>1, <2>3 DEF RoomIsLeft
<1>7. QED
  BY <1>2, <1>3, <1>4, <1>5, <1>6

\* Rows that go for their age are never those of the batch.
LEMMA DropExpiredPreserves ==
    ASSUME QueueInv, DropExpired
    PROVE  QueueInv'
<1>1. /\ UNCHANGED <<nextId, counted, groupsLeft, decision, log, reader>>
      /\ step = "expire" /\ step' = IF decision.flush # <<>> THEN "publish" ELSE "next"
  BY DEF DropExpired
<1>2. \/ /\ queue' = {q \in queue : q.id \notin Ids(decision.expire)}
         /\ aged' = aged \cup Ids(decision.expire)
         /\ faults' = faults
      \/ Fault /\ queue' = queue /\ aged' = aged
  BY DEF DropExpired
<1>3. queue' \subseteq queue
  BY <1>2
<1>4. faults \in Nat /\ (faults' = faults \/ faults' = faults + 1)
  BY <1>2 DEF Fault, QueueInv, QueueType
<1>5. /\ queue' \subseteq Event /\ IsFiniteSet(queue')
      /\ IdsAreUnique' /\ RecordsAreBatches' /\ RoomIsLeft'
      /\ Published' = Published /\ Repeats' = Repeats
  BY <1>1, <1>3, RowsLeave
<1>6. QueueType'
  BY <1>1, <1>4, <1>5 DEF QueueInv, QueueType, reader
<1>7. NothingSkipped'
  BY <1>1 DEF QueueInv, NothingSkipped, reader
<1>8. NothingLost'
  BY <1>1, <1>2, <1>5 DEF QueueInv, NothingLost, Accepted, Ids
<1>9. DecisionStands'
  <2> DEFINE batch == decision.flush
             g == decision.group
  <2>1. /\ g \in Group /\ Batch(batch) /\ OldestWereTaken(batch, g)
        /\ \A e \in Carried(batch) : \E q \in queue : q.id = e /\ q.group = g
        /\ \A e \in Carried(batch) : e \notin Ids(decision.expire)
        /\ batch # <<>> => \A q \in queue :
              q.group = g /\ q.age < MaxAge /\ q.id \in Published => q.id \in Carried(batch)
        /\ \A i \in DOMAIN log : log[i].group = g => AfterWhatItCarries(i, batch)
    BY <1>1 DEF QueueInv, DecisionStands, Deciding
  <2>2. \A e \in Carried(batch) : \E q \in queue' : q.id = e /\ q.group = g
    BY <1>2, <2>1
  <2>3. Batch(batch)' /\ OldestWereTaken(batch, g)'
    <3>1. Batch(batch)'
      BY <1>1, <2>1 DEF Batch, Increasing
    <3>2. OldestWereTaken(batch, g)'
      BY <1>1, <1>3, <2>1 DEF OldestWereTaken, Carried
    <3>3. QED
      BY <3>1, <3>2
  <2>4. \A i \in DOMAIN log : log[i].group = g => AfterWhatItCarries(i, batch)'
    BY <1>1, <2>1 DEF AfterWhatItCarries, Carried
  <2>5. step' # "delete" /\ (Deciding' => batch # <<>>)
    BY <1>1 DEF Deciding
  <2>6. QED
    BY <1>1, <1>3, <1>5, <2>1, <2>2, <2>3, <2>4, <2>5 DEF DecisionStands, Carried, Ids
<1>10. Owing' \subseteq Owing
  <2>1. \A q \in queue' : Pending(q)' => Pending(q)
    BY <1>1, <1>5 DEF Pending, Carried
  <2>2. QED
    BY <1>3, <2>1 DEF Owing
<1>11. RepeatsArePaid'
  BY <1>4, <1>5, <1>10, StillPaid
<1>12. QED
  BY <1>5, <1>6, <1>7, <1>8, <1>9, <1>11 DEF QueueInv

\* A record is made of rows that are still queued.  If one of them was sent before, its
\* group could repeat, and now it has.
LEMMA PublishPreserves ==
    ASSUME QueueInv, Publish
    PROVE  QueueInv'
<1>1. /\ UNCHANGED <<queue, nextId, counted, groupsLeft, decision, reader, aged>>
      /\ step = "publish" /\ faults \in Nat
  BY DEF Publish, QueueInv, QueueType
<1> DEFINE batch == decision.flush
           g == decision.group
<1>2. /\ g \in Group /\ Batch(batch) /\ OldestWereTaken(batch, g) /\ batch # <<>>
      /\ \A e \in Carried(batch) : \E q \in queue : q.id = e /\ q.group = g
      /\ \A e \in Carried(batch) : e \notin Ids(decision.expire)
      /\ \A q \in queue :
            q.group = g /\ q.age < MaxAge /\ q.id \in Published => q.id \in Carried(batch)
      /\ \A i \in DOMAIN log : log[i].group = g => AfterWhatItCarries(i, batch)
  BY <1>1 DEF QueueInv, DecisionStands, Deciding
<1>3. RoomIsLeft'
  BY <1>1 DEF QueueInv, RoomIsLeft, Admitted
<1>4. CASE log' = log /\ step' = "next" /\ (faults' = faults \/ faults' = faults + 1)
  <2>1. QueueType' /\ NothingSkipped'
    BY <1>1, <1>4 DEF QueueInv, QueueType, NothingSkipped, reader
  <2>2. /\ IdsAreUnique' /\ RecordsAreBatches' /\ NothingLost' /\ Repeats' = Repeats
        /\ Published' = Published
    BY <1>1, <1>4, RecordsStay
  <2>3. DecisionStands'
    BY <1>4 DEF DecisionStands, Deciding
  <2>4. Owing' \subseteq Owing
    BY <1>1, <1>4, <2>2 DEF Owing, Pending
  <2>5. RepeatsArePaid'
    BY <1>4, <2>2, <2>4, StillPaid
  <2>6. QED
    BY <1>3, <2>1, <2>2, <2>3, <2>5 DEF QueueInv
<1>5. CASE /\ log' = Append(log, [group |-> g, events |-> batch])
           /\ step' = "delete" /\ faults' = faults
  <2> DEFINE r == [group |-> g, events |-> batch]
             n == Len(log)
  <2>1. r \in Record /\ batch \in Seq(Event)
    BY <1>2 DEF Record, QueueInv, QueueType
  <2>2. /\ n \in Nat /\ DOMAIN log = 1 .. n /\ DOMAIN log' = 1 .. n + 1
        /\ Len(log') = n + 1 /\ log' \in Seq(Record)
        /\ \A i \in 1 .. n : log'[i] = log[i]
        /\ log'[n + 1] = r
        /\ Published' = Published \cup Carried(batch)
        /\ Repeats' \subseteq Repeats \cup {n + 1}
        /\ n + 1 \in Repeats' => Carried(batch) \cap Published # {}
    BY <1>5, <2>1, LogAppends DEF QueueInv
  <2> HIDE DEF n
  <2>3. QueueType'
    BY <1>1, <1>5, <2>2 DEF QueueInv, QueueType, reader
  <2>4. IdsAreUnique' /\ NothingSkipped'
    BY <1>1 DEF QueueInv, IdsAreUnique, NothingSkipped, reader
  <2>5. NothingLost'
    BY <1>1, <2>2 DEF QueueInv, NothingLost, Accepted, Ids
  <2>6. RecordsAreBatches'
    <3>1. ASSUME NEW i \in 1 .. n + 1
          PROVE  /\ Batch(log[i].events)' /\ OldestWereTaken(log[i].events, log[i].group)'
                 /\ \A q \in queue' : q.id \in Carried(log'[i].events) => q.group = log'[i].group
      <4>1. CASE i \in 1 .. n
        <5>1. log'[i] = log[i]
          BY <2>2, <4>1
        <5>2. /\ Batch(log[i].events) /\ OldestWereTaken(log[i].events, log[i].group)
              /\ \A q \in queue : q.id \in Carried(log[i].events) => q.group = log[i].group
          BY <2>2, <4>1 DEF QueueInv, RecordsAreBatches
        <5>3. QED
          BY <1>1, <5>1, <5>2 DEF Batch, Increasing, OldestWereTaken, Carried
      <4>2. CASE i = n + 1
        <5>1. log'[i].events = batch /\ log'[i].group = g
          BY <2>2, <4>2
        <5>2. \A q \in queue : q.id \in Carried(batch) => q.group = g
          BY <1>2 DEF QueueInv, IdsAreUnique
        <5>3. QED
          BY <1>1, <1>2, <5>1, <5>2 DEF Batch, Increasing, OldestWereTaken, Carried
      <4>3. QED
        BY <2>2, <4>1, <4>2
    <3>2. ASSUME NEW i \in 1 .. n + 1, NEW j \in 1 .. n + 1, i < j, log'[i].group = log'[j].group
          PROVE  AfterWhatItCarries(i, log[j].events)'
      <4>1. i \in 1 .. n /\ log'[i] = log[i]
        BY <2>2, <3>2
      <4>2. CASE j \in 1 .. n
        <5>1. log'[j] = log[j]
          BY <2>2, <4>2
        <5>2. AfterWhatItCarries(i, log[j].events)
          BY <2>2, <3>2, <4>1, <4>2, <5>1 DEF QueueInv, RecordsAreBatches
        <5>3. QED
          BY <4>1, <5>1, <5>2 DEF AfterWhatItCarries, Carried
      <4>3. CASE j = n + 1
        <5>1. log'[j].events = batch /\ log'[j].group = g
          BY <2>2, <4>3
        <5>2. AfterWhatItCarries(i, batch)
          BY <1>2, <2>2, <3>2, <4>1, <5>1
        <5>3. QED
          BY <4>1, <5>1, <5>2 DEF AfterWhatItCarries, Carried
      <4>4. QED
        BY <2>2, <4>2, <4>3
    <3>3. QED
      BY <2>2, <3>1, <3>2 DEF RecordsAreBatches
  <2>7. DecisionStands'
    <3>1. Batch(batch)' /\ OldestWereTaken(batch, g)'
      BY <1>1, <1>2 DEF Batch, Increasing, OldestWereTaken, Carried
    <3>2. \A q \in queue : q.group = g /\ q.age < MaxAge /\ q.id \in Published'
             => q.id \in Carried(batch)
      BY <1>2, <2>2
    <3>3. QED
      BY <1>1, <1>2, <1>5, <2>2, <3>1, <3>2 DEF DecisionStands, Carried, Ids
  <2>8. Owing' \subseteq Owing \ {g}
    <3>1. SUFFICES ASSUME NEW h \in Group, NEW q \in queue, q.group = h, Pending(q)'
                   PROVE  h # g /\ Pending(q)
      BY <1>1 DEF Owing
    <3>2. h # g /\ q.age < MaxAge /\ q.id \in Published'
      BY <1>1, <1>5, <3>1 DEF Pending
    <3>3. q.id \notin Carried(batch)
      BY <1>2, <3>1, <3>2 DEF QueueInv, IdsAreUnique
    <3>4. q.id \in Published
      BY <2>2, <3>2, <3>3
    <3>5. QED
      BY <1>1, <3>2, <3>4 DEF Pending
  <2>9. RepeatsArePaid'
    <3>1. CASE n + 1 \notin Repeats'
      <4>1. Repeats' \subseteq Repeats
        BY <2>2, <3>1
      <4>2. QED
        BY <1>5, <2>8, <4>1, StillPaid
    <3>2. CASE n + 1 \in Repeats'
      <4>1. PICK e \in Carried(batch) : e \in Published
        BY <2>2, <3>2
      <4>2. PICK q \in queue : q.id = e /\ q.group = g
        BY <1>2, <4>1
      <4>3. Pending(q)
        BY <1>1, <4>1, <4>2 DEF Pending
      <4>4. g \in Owing
        BY <1>2, <4>2, <4>3 DEF Owing
      <4>5. /\ IsFiniteSet(Repeats) /\ IsFiniteSet(Owing)
            /\ Cardinality(Repeats) \in Nat /\ Cardinality(Owing) \in Nat
        BY CountsAreNumbers DEF QueueInv
      <4>6. IsFiniteSet(Owing \ {g}) /\ Cardinality(Owing \ {g}) = Cardinality(Owing) - 1
        BY <4>4, <4>5, FS_RemoveElement
      <4>7. Cardinality(Owing') =< Cardinality(Owing) - 1 /\ Cardinality(Owing') \in Nat
        BY <2>8, <4>6, FS_Subset, FS_CardinalityType
      <4>8. n + 1 \notin Repeats
        BY <2>2 DEF Repeats
      <4>9. /\ IsFiniteSet(Repeats \cup {n + 1})
            /\ Cardinality(Repeats \cup {n + 1}) = Cardinality(Repeats) + 1
        BY <4>5, <4>8, FS_AddElement
      <4>10. Cardinality(Repeats') =< Cardinality(Repeats) + 1 /\ Cardinality(Repeats') \in Nat
        BY <2>2, <4>9, FS_Subset, FS_CardinalityType
      <4>11. Cardinality(Repeats) + Cardinality(Owing) =< faults
        BY DEF QueueInv, RepeatsArePaid
      <4>12. Cardinality(Repeats') + Cardinality(Owing') =< faults'
        BY <1>1, <1>5, <4>5, <4>7, <4>10, <4>11
      <4>13. QED
        BY <4>12 DEF RepeatsArePaid
    <3>3. QED
      BY <3>1, <3>2
  <2>10. QED
    BY <1>3, <2>3, <2>4, <2>5, <2>6, <2>7, <2>9 DEF QueueInv
<1>6. QED
  BY <1>1, <1>4, <1>5 DEF Publish, Fault

\* What leaves the queue was published.  Every row of the group that was sent before was
\* in the batch, so that afterwards the group owes nothing; a failed call leaves one
\* group that will repeat, and is the fault that pays for it.
LEMMA DequeuePreserves ==
    ASSUME QueueInv, Dequeue
    PROVE  QueueInv'
<1>1. /\ UNCHANGED <<nextId, counted, groupsLeft, decision, log, reader, aged>>
      /\ step = "delete" /\ step' = "next"
  BY DEF Dequeue
<1>2. \/ queue' = Unqueued(queue, decision.flush) /\ faults' = faults
      \/ Fault /\ queue' = queue
  BY DEF Dequeue
<1> DEFINE batch == decision.flush
           g == decision.group
<1>3. /\ g \in Group /\ batch # <<>> /\ Carried(batch) \subseteq Published
      /\ \A q \in queue :
            q.group = g /\ q.age < MaxAge /\ q.id \in Published => q.id \in Carried(batch)
  BY <1>1 DEF QueueInv, DecisionStands, Deciding
<1>4. Unqueued(queue, batch) = {q \in queue : q.id \notin Carried(batch)}
  BY DEF Unqueued, Carried
<1>5. queue' \subseteq queue /\ faults \in Nat /\ (faults' = faults \/ faults' = faults + 1)
  BY <1>2, <1>4 DEF Fault, QueueInv, QueueType
<1>6. /\ queue' \subseteq Event /\ IsFiniteSet(queue')
      /\ IdsAreUnique' /\ RecordsAreBatches' /\ RoomIsLeft'
      /\ Published' = Published /\ Repeats' = Repeats
  BY <1>1, <1>5, RowsLeave
<1>7. QueueType' /\ NothingSkipped'
  BY <1>1, <1>5, <1>6 DEF QueueInv, QueueType, NothingSkipped, reader
<1>8. NothingLost'
  <2>1. \A n \in Ids(queue) : n \in Ids(queue') \/ n \in Published
    BY <1>2, <1>3, <1>4 DEF Ids
  <2>2. Accepted' = Accepted /\ aged' = aged
    BY <1>1 DEF Accepted
  <2>3. Accepted \subseteq Ids(queue') \cup Published \cup aged
    BY <2>1 DEF QueueInv, NothingLost
  <2>4. QED
    BY <1>6, <2>2, <2>3 DEF NothingLost, Ids
<1>9. DecisionStands'
  BY <1>1 DEF DecisionStands, Deciding
<1>10. Owing' \subseteq Owing \cup {g}
  BY <1>1, <1>5, <1>6 DEF Owing, Pending
<1>11. queue' = Unqueued(queue, batch) => Owing' \subseteq Owing
  BY <1>1, <1>3, <1>4, <1>6 DEF Owing, Pending
<1>12. RepeatsArePaid'
  <2>1. \/ faults' = faults /\ Owing' \subseteq Owing
        \/ faults' = faults + 1
    BY <1>2, <1>11 DEF Fault
  <2>2. QED
    BY <1>6, <1>10, <2>1, StillPaid
<1>13. QED
  BY <1>6, <1>7, <1>8, <1>9, <1>12 DEF QueueInv

\* A restart between a record and the removal of its rows leaves one group that will
\* repeat, and is the fault that pays for it.
LEMMA RestartPreserves ==
    ASSUME QueueInv, Restart
    PROVE  QueueInv'
<1>1. /\ UNCHANGED <<queue, nextId, federated, log, reader, aged>>
      /\ counted' = [s \in Session |-> NotCounted]
      /\ step' = "wait" /\ groupsLeft' = {} /\ decision' = Idle
      /\ faults' = faults + 1 /\ faults \in Nat
  BY DEF Restart, Fault, QueueInv, QueueType
<1>2. QueueType'
  <2>1. Idle \in [group : Group \cup {"none"}, expire : SUBSET Event, flush : Seq(Event)]
    BY DEF Idle
  <2>2. QED
    BY <1>1, <2>1 DEF QueueInv, QueueType, reader
<1>3. /\ IdsAreUnique' /\ RecordsAreBatches' /\ NothingLost' /\ Repeats' = Repeats
      /\ Published' = Published
  BY <1>1, RecordsStay
<1>4. DecisionStands' /\ NothingSkipped'
  BY <1>1 DEF DecisionStands, Deciding, QueueInv, NothingSkipped, reader
<1>5. Owing' \subseteq Owing \cup {decision.group}
  BY <1>1, <1>3 DEF Owing, Pending
<1>6. RepeatsArePaid'
  BY <1>1, <1>3, <1>5, StillPaid
<1>7. RoomIsLeft'
  <2>1. Admitted' = {}
    BY <1>1 DEF Admitted
  <2>2. Cardinality({}) = 0
    BY FS_EmptySet
  <2>3. Cardinality(queue) + Cardinality(Admitted) =< MaxQueued + Cardinality(Session) - 1
    BY DEF QueueInv, RoomIsLeft
  <2>4. MaxQueued \in Nat /\ QueueType
    BY DoorEventsAssumption DEF QueueInv
  <2>5. Cardinality(queue) + 0 =< MaxQueued + Cardinality(Session) - 1
    BY <2>3, <2>4, CountsAreNumbers
  <2>6. QED
    BY <1>1, <2>1, <2>2, <2>5 DEF RoomIsLeft
<1>8. QED
  BY <1>2, <1>3, <1>4, <1>6, <1>7 DEF QueueInv

----------------------------------------------------------------------------
(* The league, and time. *)

LEMMA PeerRecordPreserves ==
    ASSUME QueueInv, NEW g \in Group, PeerRecord(g)
    PROVE  QueueInv'
<1> DEFINE r == [group |-> g, events |-> <<>>]
           n == Len(log)
<1>1. /\ UNCHANGED <<queue, nextId, counted, loop, reader, aged, faults>>
      /\ log' = Append(log, r)
  BY DEF PeerRecord
<1>0. UNCHANGED <<queue, nextId, step, decision>>
  BY <1>1 DEF loop
<1>2. r \in Record /\ Carried(<<>>) = {} /\ BatchMax \in Nat
  BY DoorEventsAssumption DEF Record, Carried
<1>3. /\ n \in Nat /\ DOMAIN log = 1 .. n /\ DOMAIN log' = 1 .. n + 1
      /\ Len(log') = n + 1 /\ log' \in Seq(Record)
      /\ \A i \in 1 .. n : log'[i] = log[i]
      /\ log'[n + 1] = r
      /\ Published' = Published \cup Carried(r.events)
      /\ Repeats' \subseteq Repeats \cup {n + 1}
      /\ n + 1 \in Repeats' => Carried(r.events) \cap Published # {}
  BY <1>1, <1>2, LogAppends DEF QueueInv
<1>4. Published' = Published /\ Repeats' \subseteq Repeats
  BY <1>2, <1>3
<1> HIDE DEF n
<1>5. QueueType'
  BY <1>1, <1>3 DEF QueueInv, QueueType, loop, reader
<1>6. IdsAreUnique' /\ NothingSkipped' /\ RoomIsLeft'
  BY <1>1 DEF QueueInv, IdsAreUnique, NothingSkipped, RoomIsLeft, Admitted, reader
<1>7. NothingLost'
  BY <1>1, <1>4 DEF QueueInv, NothingLost, Accepted, Ids
<1>8. RecordsAreBatches'
  <2>1. ASSUME NEW i \in 1 .. n + 1
        PROVE  /\ Batch(log[i].events)' /\ OldestWereTaken(log[i].events, log[i].group)'
               /\ \A q \in queue' : q.id \in Carried(log'[i].events) => q.group = log'[i].group
    <3>1. CASE i \in 1 .. n
      <4>1. log'[i] = log[i]
        BY <1>3, <3>1
      <4>2. /\ Batch(log[i].events) /\ OldestWereTaken(log[i].events, log[i].group)
            /\ \A q \in queue : q.id \in Carried(log[i].events) => q.group = log[i].group
        BY <1>3, <3>1 DEF QueueInv, RecordsAreBatches
      <4>3. QED
        BY <1>0, <4>1, <4>2 DEF Batch, Increasing, OldestWereTaken, Carried
    <3>2. CASE i = n + 1
      <4>1. log'[i].events = <<>>
        BY <1>3, <3>2
      <4>2. QED
        BY <1>2, <4>1 DEF Batch, Increasing, OldestWereTaken, Carried
    <3>3. QED
      BY <1>3, <3>1, <3>2
  <2>2. ASSUME NEW i \in 1 .. n + 1, NEW j \in 1 .. n + 1, i < j, log'[i].group = log'[j].group
        PROVE  AfterWhatItCarries(i, log[j].events)'
    <3>1. i \in 1 .. n /\ log'[i] = log[i]
      BY <1>3, <2>2
    <3>2. CASE j \in 1 .. n
      <4>1. log'[j] = log[j]
        BY <1>3, <3>2
      <4>2. AfterWhatItCarries(i, log[j].events)
        BY <1>3, <2>2, <3>1, <3>2, <4>1 DEF QueueInv, RecordsAreBatches
      <4>3. QED
        BY <3>1, <4>1, <4>2 DEF AfterWhatItCarries, Carried
    <3>3. CASE j = n + 1
      <4>1. log'[j].events = <<>>
        BY <1>3, <3>3
      <4>2. QED
        BY <4>1 DEF AfterWhatItCarries, Carried
    <3>4. QED
      BY <1>3, <3>2, <3>3
  <2>3. QED
    BY <1>3, <2>1, <2>2 DEF RecordsAreBatches
<1>9. DecisionStands'
  <2> DEFINE batch == decision.flush
             h == decision.group
  <2>1. SUFFICES ASSUME Deciding PROVE DecisionStands'
    BY <1>1 DEF DecisionStands, Deciding, loop
  <2>2. /\ h \in Group /\ Batch(batch) /\ OldestWereTaken(batch, h)
        /\ step # "expire" => batch # <<>>
        /\ \A e \in Carried(batch) : \E q \in queue : q.id = e /\ q.group = h
        /\ \A e \in Carried(batch) : e \notin Ids(decision.expire)
        /\ batch # <<>> => \A q \in queue :
              q.group = h /\ q.age < MaxAge /\ q.id \in Published => q.id \in Carried(batch)
        /\ step # "delete" => \A i \in DOMAIN log : log[i].group = h => AfterWhatItCarries(i, batch)
        /\ step = "delete" => Carried(batch) \subseteq Published
    BY <2>1 DEF QueueInv, DecisionStands
  <2>3. Batch(batch)' /\ OldestWereTaken(batch, h)'
    BY <1>1, <2>2 DEF Batch, Increasing, OldestWereTaken, Carried, loop
  <2>4. ASSUME step # "delete", NEW i \in 1 .. n + 1, log'[i].group = h
        PROVE  AfterWhatItCarries(i, batch)'
    <3>1. CASE i \in 1 .. n
      <4>1. log'[i] = log[i]
        BY <1>3, <3>1
      <4>2. AfterWhatItCarries(i, batch)
        BY <1>3, <2>2, <2>4, <3>1, <4>1
      <4>3. QED
        BY <1>0, <4>1, <4>2 DEF AfterWhatItCarries, Carried
    <3>2. CASE i = n + 1
      <4>1. log'[i].events = <<>>
        BY <1>3, <3>2
      <4>2. QED
        BY <4>1 DEF AfterWhatItCarries, Carried
    <3>3. QED
      BY <1>3, <3>1, <3>2
  <2>5. QED
    BY <1>1, <1>3, <1>4, <2>2, <2>3, <2>4 DEF DecisionStands, Carried, Ids, loop
<1>10. Owing' = Owing
  BY <1>1, <1>4 DEF Owing, Pending, Carried, loop
<1>11. RepeatsArePaid'
  BY <1>1, <1>4, <1>10, StillPaid
<1>12. QED
  BY <1>5, <1>6, <1>7, <1>8, <1>9, <1>11 DEF QueueInv

\* Rows grow older, and stay the same rows.
LEMMA AdvancePreserves ==
    ASSUME QueueInv, Advance
    PROVE  QueueInv'
<1> DEFINE older(q) == [q EXCEPT !.age = IF @ < MaxAge THEN @ + 1 ELSE @]
<1>1. /\ UNCHANGED <<nextId, counted, federated, log, loop, reader, aged, faults>>
      /\ queue' = {older(q) : q \in queue}
  BY DEF Advance
<1>2. MaxAge \in Nat \ {0} /\ MaxQueued \in Nat /\ QueueType
  BY DoorEventsAssumption DEF QueueInv
<1>3. ASSUME NEW q \in queue
      PROVE  /\ q \in Event /\ older(q) \in Event
             /\ older(q).id = q.id /\ older(q).group = q.group
             /\ older(q).age < MaxAge => q.age < MaxAge
  <2>1. q \in Event /\ q.age \in 0 .. MaxAge
    BY <1>2 DEF QueueType, Event
  <2> DEFINE age == IF q.age < MaxAge THEN q.age + 1 ELSE q.age
  <2>2. age \in 0 .. MaxAge /\ (age < MaxAge => q.age < MaxAge)
    BY <1>2, <2>1
  <2>3. older(q) = [q EXCEPT !.age = age]
    OBVIOUS
  <2> HIDE DEF age
  <2>4. /\ [q EXCEPT !.age = age] \in Event /\ [q EXCEPT !.age = age].id = q.id
        /\ [q EXCEPT !.age = age].group = q.group /\ [q EXCEPT !.age = age].age = age
    BY <2>1, <2>2 DEF Event
  <2> HIDE DEF older
  <2>5. QED
    BY <2>1, <2>2, <2>3, <2>4
<1> HIDE DEF older
<1>4. \A r \in queue' : \E q \in queue : r = older(q) /\ r.id = q.id /\ r.group = q.group
                                         /\ (r.age < MaxAge => q.age < MaxAge)
  BY <1>1, <1>3
<1>5. /\ queue' \subseteq Event /\ IsFiniteSet(queue')
      /\ Cardinality(queue') =< Cardinality(queue) /\ Cardinality(queue') \in Nat
  <2> DEFINE f == [q \in queue |-> older(q)]
  <2>1. f \in [queue -> queue'] /\ \A r \in queue' : \E q \in queue : f[q] = r
    BY <1>1
  <2>2. IsFiniteSet(queue') /\ Cardinality(queue') =< Cardinality(queue)
    BY <1>2, <2>1, ImageIsSmaller DEF QueueType
  <2>3. QED
    BY <1>1, <1>3, <2>2, FS_CardinalityType
<1>6. QueueType'
  BY <1>1, <1>2, <1>5 DEF QueueType, loop, reader
<1>7. IdsAreUnique'
  BY <1>1, <1>4 DEF QueueInv, IdsAreUnique
<1>8. Published' = Published /\ Repeats' = Repeats
  BY <1>1 DEF Published, Repeats, Carried
<1>9. RecordsAreBatches'
  <2>1. ASSUME NEW i \in DOMAIN log
        PROVE  /\ Batch(log[i].events)' /\ OldestWereTaken(log[i].events, log[i].group)'
               /\ \A q \in queue' : q.id \in Carried(log[i].events) => q.group = log[i].group
    <3>1. /\ Batch(log[i].events) /\ OldestWereTaken(log[i].events, log[i].group)
          /\ \A q \in queue : q.id \in Carried(log[i].events) => q.group = log[i].group
      BY DEF QueueInv, RecordsAreBatches
    <3>2. Batch(log[i].events)'
      BY <1>1, <3>1 DEF Batch, Increasing
    <3>3. OldestWereTaken(log[i].events, log[i].group)'
      BY <1>1, <1>4, <3>1 DEF OldestWereTaken, Carried
    <3>4. QED
      BY <1>4, <3>1, <3>2, <3>3
  <2>2. \A i, j \in DOMAIN log :
           i < j /\ log[i].group = log[j].group => AfterWhatItCarries(i, log[j].events)'
    BY <1>1 DEF QueueInv, RecordsAreBatches, AfterWhatItCarries, Carried
  <2>3. QED
    BY <1>1, <2>1, <2>2 DEF RecordsAreBatches, Carried
<1>10. DecisionStands'
  <2> DEFINE batch == decision.flush
             h == decision.group
  <2>1. SUFFICES ASSUME Deciding PROVE DecisionStands'
    BY <1>1 DEF DecisionStands, Deciding, loop
  <2>2. /\ h \in Group /\ Batch(batch) /\ OldestWereTaken(batch, h)
        /\ step # "expire" => batch # <<>>
        /\ \A e \in Carried(batch) : \E q \in queue : q.id = e /\ q.group = h
        /\ \A e \in Carried(batch) : e \notin Ids(decision.expire)
        /\ batch # <<>> => \A q \in queue :
              q.group = h /\ q.age < MaxAge /\ q.id \in Published => q.id \in Carried(batch)
        /\ step # "delete" => \A i \in DOMAIN log : log[i].group = h => AfterWhatItCarries(i, batch)
        /\ step = "delete" => Carried(batch) \subseteq Published
    BY <2>1 DEF QueueInv, DecisionStands
  <2>3. Batch(batch)'
    BY <1>1, <2>2 DEF Batch, Increasing, loop
  <2>4. OldestWereTaken(batch, h)'
    BY <1>1, <1>4, <2>2 DEF OldestWereTaken, Carried, loop
  <2>5. \A e \in Carried(batch) : \E q \in queue' : q.id = e /\ q.group = h
    BY <1>1, <1>3, <2>2
  <2>6. batch # <<>> => \A q \in queue' :
           q.group = h /\ q.age < MaxAge /\ q.id \in Published => q.id \in Carried(batch)
    BY <1>4, <2>2
  <2>7. step # "delete" =>
           \A i \in DOMAIN log : log[i].group = h => AfterWhatItCarries(i, batch)'
    BY <1>1, <2>2 DEF AfterWhatItCarries, Carried, loop
  <2>8. QED
    BY <1>1, <1>8, <2>2, <2>3, <2>4, <2>5, <2>6, <2>7 DEF DecisionStands, Carried, Ids, loop
<1>11. Owing' \subseteq Owing
  <2>1. SUFFICES ASSUME NEW g \in Group, NEW r \in queue', r.group = g, Pending(r)'
                 PROVE  g \in Owing
    BY DEF Owing
  <2>2. PICK q \in queue : r.id = q.id /\ r.group = q.group /\ (r.age < MaxAge => q.age < MaxAge)
    BY <1>4
  <2>3. Pending(q)
    BY <1>1, <1>8, <2>1, <2>2 DEF Pending, Carried, loop
  <2>4. QED
    BY <2>1, <2>2, <2>3 DEF Owing
<1>12. RepeatsArePaid'
  BY <1>1, <1>8, <1>11, StillPaid
<1>13. RoomIsLeft'
  <2>1. Admitted' = Admitted
    BY <1>1 DEF Admitted
  <2>2. Cardinality(queue) + Cardinality(Admitted) =< MaxQueued + Cardinality(Session) - 1
    BY DEF QueueInv, RoomIsLeft
  <2>3. Cardinality(queue') + Cardinality(Admitted) =< MaxQueued + Cardinality(Session) - 1
    BY <1>2, <1>5, <2>2, CountsAreNumbers
  <2>4. QED
    BY <2>1, <2>3 DEF RoomIsLeft
<1>14. NothingLost'
  <2>1. Ids(queue') = Ids(queue)
    BY <1>1, <1>3 DEF Ids
  <2>2. QED
    BY <1>1, <1>8, <2>1 DEF QueueInv, NothingLost, Accepted, Ids
<1>15. NothingSkipped'
  BY <1>1 DEF QueueInv, NothingSkipped, reader
<1>16. QED
  BY <1>6, <1>7, <1>9, <1>10, <1>12, <1>13, <1>14, <1>15 DEF QueueInv

----------------------------------------------------------------------------
(* The theorem. *)

LEMMA InitQueue == QueueInit => QueueInv
<1> SUFFICES ASSUME QueueInit PROVE QueueInv
  OBVIOUS
<1>1. /\ queue = {} /\ nextId = 1 /\ counted = [s \in Session |-> NotCounted]
      /\ step = "wait" /\ groupsLeft = {} /\ decision = Idle /\ log = <<>>
      /\ polled = 0 /\ faults = 0
  BY DEF QueueInit
<1>2. QueueType
  <2>1. Idle \in [group : Group \cup {"none"}, expire : SUBSET Event, flush : Seq(Event)]
    BY DEF Idle
  <2>2. IsFiniteSet({})
    BY FS_EmptySet
  <2>3. QED
    BY <1>1, <2>1, <2>2 DEF QueueType
<1>3. IdsAreUnique /\ RecordsAreBatches /\ DecisionStands /\ NothingLost /\ NothingSkipped
  BY <1>1 DEF IdsAreUnique, RecordsAreBatches, DecisionStands, Deciding, NothingLost, Accepted,
              NothingSkipped
<1>4. Repeats = {} /\ Owing = {} /\ Admitted = {} /\ Cardinality({}) = 0
  BY <1>1, FS_EmptySet DEF Repeats, Owing, Admitted
<1>5. RepeatsArePaid
  BY <1>1, <1>4 DEF RepeatsArePaid
<1>6. RoomIsLeft
  <2>1. MaxQueued \in Nat \ {0} /\ Cardinality(Session) \in Nat \ {0}
    BY <1>2, CountsAreNumbers, DoorEventsAssumption
  <2>2. QED
    BY <1>1, <1>4, <2>1 DEF RoomIsLeft
<1>7. QED
  BY <1>2, <1>3, <1>5, <1>6 DEF QueueInv

LEMMA NextQueue == QueueInv /\ [QueueNext]_queueVars => QueueInv'
<1> SUFFICES ASSUME QueueInv, [QueueNext]_queueVars PROVE QueueInv'
  OBVIOUS
<1>1. CASE \E s \in Session, g \in Group : Emit(s, g)
  BY <1>1, EmitPreserves
<1>2. CASE \E s \in Session : Insert(s)
  BY <1>2, InsertPreserves
<1>3. CASE \E g \in Group : SetFederated(g) \/ PeerRecord(g)
  BY <1>3, SetFederatedPreserves, PeerRecordPreserves
<1>4. CASE FlushStep
  BY <1>4, ListGroupsPreserves, DecidePreserves, DropExpiredPreserves, PublishPreserves,
     DequeuePreserves DEF FlushStep
<1>5. CASE Restart
  BY <1>5, RestartPreserves
<1>6. CASE Poll
  BY <1>6, PollPreserves
<1>7. CASE Advance
  BY <1>7, AdvancePreserves
<1>8. CASE UNCHANGED queueVars
  <2>1. UNCHANGED <<queue, nextId, counted, log, loop, reader, aged, faults>>
    BY <1>8 DEF queueVars, loop, reader
  <2>2. QueueType' /\ NothingSkipped' /\ RoomIsLeft'
    BY <2>1 DEF QueueInv, QueueType, NothingSkipped, RoomIsLeft, Admitted, loop, reader
  <2>3. IdsAreUnique' /\ RecordsAreBatches' /\ NothingLost' /\ DecisionStands'
        /\ Owing' = Owing /\ Repeats' = Repeats
    BY <2>1, RecordsStay, LoopStays
  <2>4. RepeatsArePaid'
    BY <2>1, <2>3, StillPaid
  <2>5. QED
    BY <2>2, <2>3, <2>4 DEF QueueInv
<1>9. QED
  BY <1>1, <1>2, <1>3, <1>4, <1>5, <1>6, <1>7, <1>8 DEF QueueNext

\* What the invariant says of every record, every repeat and every session is what the
\* queue promises.
LEMMA PromiseFollows == QueueInv => EventsSurvive
<1> SUFFICES ASSUME QueueInv PROVE EventsSurvive
  OBVIOUS
<1>1. NothingLost /\ NothingSkipped
  BY DEF QueueInv
<1>2. WireOrder
  <2>1. ASSUME NEW i \in DOMAIN log, NEW k \in 2 .. Len(log[i].events)
        PROVE  log[i].events[k - 1].id < log[i].events[k].id
    <3>1. log[i].events \in Seq(Event) /\ Increasing(log[i].events)
      BY CarriedAreIds DEF QueueInv, RecordsAreBatches, Batch
    <3>2. k - 1 \in DOMAIN log[i].events /\ k \in DOMAIN log[i].events /\ k - 1 < k
      BY <3>1
    <3>3. QED
      BY <3>1, <3>2 DEF Increasing
  <2>2. ASSUME NEW i \in DOMAIN log, NEW j \in DOMAIN log, i < j, log[i].group = log[j].group,
               NEW e \in Carried(log[i].events), NEW f \in Carried(log[j].events), f < e
        PROVE  \E k \in 1 .. i : f \in Carried(log[k].events)
    <3>1. f \in Carried(log[i].events)
      BY <2>2 DEF QueueInv, RecordsAreBatches, AfterWhatItCarries
    <3>2. i \in 1 .. i
      BY DEF QueueInv, QueueType
    <3>3. QED
      BY <3>1, <3>2
  <2>3. QED
    BY <2>1, <2>2 DEF WireOrder
<1>3. RecordsPay
  BY DEF QueueInv, RecordsAreBatches, Batch, RecordsPay
<1>4. OnlyFaultsRepeat
  <2>1. Cardinality(Repeats) \in Nat /\ Cardinality(Owing) \in Nat /\ faults \in Nat
    BY CountsAreNumbers DEF QueueInv, QueueType
  <2>2. QED
    BY <2>1 DEF QueueInv, RepeatsArePaid, OnlyFaultsRepeat
<1>5. QueueIsBounded
  <2>1. /\ Cardinality(queue) \in Nat /\ Cardinality(Admitted) \in Nat
        /\ Cardinality(Session) \in Nat /\ MaxQueued \in Nat
    BY CountsAreNumbers, DoorEventsAssumption DEF QueueInv
  <2>2. QED
    BY <2>1 DEF QueueInv, RoomIsLeft, QueueIsBounded
<1>6. QED
  BY <1>1, <1>2, <1>3, <1>4, <1>5 DEF EventsSurvive

\* Whatever sessions, sysops, failed calls, restarts and the clock do between two
\* statements of the loop, an accepted event is queued, on the air or dropped for its
\* age, first reaches the wire in order and in records that pay, is repeated only
\* after a fault, reaches every reader, and the queue stays bounded.
THEOREM EventsAreKept == QueueSpec => []EventsSurvive
<1>1. QueueSpec => []QueueInv
  BY InitQueue, NextQueue, PTL DEF QueueSpec
<1>2. QED
  BY <1>1, PromiseFollows, PTL

=============================================================================
