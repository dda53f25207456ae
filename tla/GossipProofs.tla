---------------------------- MODULE GossipProofs ----------------------------
(***************************************************************************)
(* The safety properties of the gossip engine, for every set of nodes and  *)
(* areas, every federation of areas and every bound.                       *)
(***************************************************************************)
EXTENDS Gossip, VersionVectorProofs

\* What an author has reserved bounds what anybody holds of it; a number under
\* way in a session is used by that post alone.
SeqReserved ==
    /\ \A n \in Node, a \in Area : \A c \in log[n][a] : c[2] =< highWater[c[1]][a]
    /\ \A n \in Node : \A p \in session[n] :
          /\ p.seq =< highWater[n][p.area]
          /\ p.stage = "reserved" => <<n, p.seq>> \notin log[n][p.area]
          /\ p.stage = "stored" => <<n, p.seq>> \in log[n][p.area] /\ p.area \in Carried[n]
          /\ \A q \in session[n] : p.area = q.area /\ p.seq = q.seq => p = q

\* A node holds its own key, and the roster has one NODE record per origin.
RosterOnce ==
    \A n \in Node :
       /\ n \in keys[n]
       /\ highWater[n][Roster] = 1
       /\ \A p \in session[n] : p.area # Roster

\* What a message claims or asks for is held by the node it names.
Sound(m) ==
    /\ Honest(m)
    /\ m.type = "rangeReq" =>
          \A r \in m.ranges : \A s \in r.from .. r.to : <<r.origin, s>> \in log[m.to][m.area]

SoundAsk(ask) == Covers(ask.want) \subseteq log[ask.peer][ask.area]

\* The inductive invariant.
Inv ==
    /\ TypeOK
    /\ ClaimsAreHeld
    /\ RequestsAreAnswerable
    /\ AuthorHolds
    /\ KeyBeforeRecord
    /\ SeqReserved
    /\ RosterOnce

----------------------------------------------------------------------------
(* Messages. *)

\* The fields of a message.
LEMMA MessageFields ==
    ASSUME NEW m \in Message
    PROVE  /\ m.from \in Node /\ m.to \in Node
           /\ m.type = "digest" => m.areas \in SUBSET AreaState
           /\ m.type \in {"vectorReq", "vector", "rangeReq", "bundle"} => m.area \in Area
           /\ m.type = "vector" => m.vector \in Vectors
           /\ m.type = "rangeReq" => m.ranges \in SUBSET Ranges
           /\ m.type = "bundle" => m.records \in SUBSET Coord
BY DEF Message

\* A log's vector is a vector.
LEMMA VectorType ==
    ASSUME TypeOK, NEW n \in Node, NEW a \in Area
    PROVE  Vector(n, a) \in Vectors /\ log[n][a] \in SUBSET Coord
BY VectorOfType DEF TypeOK, Vector

\* The messages the engine builds are messages.
LEMMA ConstructorTypes ==
    ASSUME TypeOK, NEW n \in Node, NEW m \in Node, NEW a \in Area
    PROVE  /\ Digest(n, m) \in Message
           /\ VectorReq(n, m, a) \in Message
           /\ VectorMsg(n, m, a) \in Message
           /\ \A ranges \in SUBSET Ranges : RangeReq(n, m, a, ranges) \in Message
           /\ \A records \in SUBSET Coord : Bundle(n, m, a, records) \in Message
<1>1. Digest(n, m).areas \in SUBSET AreaState
  <2>1. ASSUME NEW b \in Carried[n] PROVE [area |-> b, vector |-> Vector(n, b)] \in AreaState
    BY AreaAssumption, VectorType DEF AreaState
  <2> QED BY <2>1 DEF Digest
<1>2. Digest(n, m) \in Message
  BY <1>1 DEF Digest, Message
<1>3. VectorReq(n, m, a) \in Message
  BY DEF VectorReq, Message
<1>4. VectorMsg(n, m, a) \in Message
  BY VectorType DEF VectorMsg, Message
<1>5. ASSUME NEW ranges \in SUBSET Ranges PROVE RangeReq(n, m, a, ranges) \in Message
  BY DEF RangeReq, Message
<1>6. ASSUME NEW records \in SUBSET Coord PROVE Bundle(n, m, a, records) \in Message
  BY DEF Bundle, Message
<1> QED BY <1>2, <1>3, <1>4, <1>5, <1>6

\* A transmission of messages leaves messages on the air.
LEMMA TransmitType ==
    ASSUME net \in SUBSET Message, NEW heard \in SUBSET Message, NEW gone,
           Transmit(heard, gone)
    PROVE  net' \in SUBSET Message
BY DEF Transmit

\* The requests of due asks are messages.
LEMMA RequestsType ==
    ASSUME TypeOK, NEW n \in Node, NEW due \in SUBSET pending[n]
    PROVE  Requests(n, due) \in SUBSET Message
<1>1. ASSUME NEW ask \in Unanswered(n, due)
      PROVE  VectorReq(n, ask.peer, ask.area) \in Message
  <2>1. ask.peer \in Node /\ ask.area \in Area
    BY DEF Unanswered, TypeOK, Ask
  <2> QED BY <2>1, ConstructorTypes
<1> QED BY <1>1 DEF Requests

----------------------------------------------------------------------------
(* Type correctness. *)

\* Every step keeps the shape of the state.
LEMMA TypeStep ==
    ASSUME TypeOK, [Next]_vars
    PROVE  TypeOK'
<1> USE AreaAssumption, BoundAssumption, MaxSeqAssumption
<1>1. ASSUME NEW n \in Node, NEW a \in Area, NextSeq(n, a) PROVE TypeOK'
  <2>1. highWater[n][a] + 1 \in 1 .. MaxSeq
    BY <1>1 DEF TypeOK, NextSeq
  <2>2. [area |-> a, seq |-> highWater[n][a] + 1, stage |-> "reserved"] \in Session
    BY <2>1 DEF Session
  <2>3. session' \in [Node -> SUBSET Session]
    BY <1>1, <2>2 DEF TypeOK, NextSeq
  <2>4. highWater' \in [Node -> [Area -> 0 .. MaxSeq]]
    BY <1>1, <2>1 DEF TypeOK, NextSeq
  <2> QED BY <1>1, <2>3, <2>4 DEF TypeOK, NextSeq
<1>2. ASSUME NEW n \in Node, NEW p \in session[n], PutRecord(n, p) PROVE TypeOK'
  <2>1. p \in Session /\ p.area \in Area /\ <<n, p.seq>> \in Coord
    BY DEF TypeOK, Session, Coord
  <2>2. [p EXCEPT !.stage = "stored"] \in Session
    BY <2>1 DEF Session
  <2>3. session' \in [Node -> SUBSET Session]
    BY <1>2, <2>2 DEF TypeOK, PutRecord
  <2>4. log' \in [Node -> [Area -> SUBSET Coord]]
    <3>1. log' = [log EXCEPT ![n][p.area] = @ \cup {<<n, p.seq>>}]
      BY <1>2 DEF PutRecord
    <3>2. log \in [Node -> [Area -> SUBSET Coord]]
      BY DEF TypeOK
    <3>3. log[n][p.area] \cup {<<n, p.seq>>} \in SUBSET Coord
      BY <2>1, <3>2
    <3> QED BY <2>1, <3>1, <3>2, <3>3
  <2> QED BY <1>2, <2>3, <2>4 DEF TypeOK, PutRecord
<1>3. ASSUME NEW n \in Node, NEW p \in session[n], AbandonPost(n, p) PROVE TypeOK'
  BY <1>3 DEF TypeOK, AbandonPost
<1>4. ASSUME NEW n \in Node, NEW p \in session[n], Publish(n, p) PROVE TypeOK'
  <2>1. p.area \in Area /\ <<n, p.seq>> \in Coord
    BY DEF TypeOK, Session, Coord
  <2>2. net' \in SUBSET Message
    <3>1. CASE UNCHANGED net
      BY <3>1 DEF TypeOK
    <3>2. CASE \E hearers \in SUBSET Others(n) :
                 Transmit({Bundle(n, m, p.area, {<<n, p.seq>>}) : m \in hearers}, {})
      <4>1. PICK hearers \in SUBSET Others(n) :
                 Transmit({Bundle(n, m, p.area, {<<n, p.seq>>}) : m \in hearers}, {})
        BY <3>2
      <4>2. {Bundle(n, m, p.area, {<<n, p.seq>>}) : m \in hearers} \in SUBSET Message
        BY <2>1, ConstructorTypes DEF Others
      <4> QED BY <4>1, <4>2, TransmitType DEF TypeOK
    <3> QED BY <1>4, <3>1, <3>2 DEF Publish
  <2>3. heardMatching' \in [Node -> BOOLEAN]
    BY <1>4 DEF TypeOK, Publish
  <2> QED BY <1>4, <2>2, <2>3 DEF TypeOK, Publish
<1>5. ASSUME NEW n \in Node, Crash(n) PROVE TypeOK'
  BY <1>5 DEF TypeOK, Crash
<1>6. ASSUME NEW n \in Node, Tick(n) PROVE TypeOK'
  <2>1. PICK due \in SUBSET pending[n] : \E sent \in SUBSET Requests(n, due) :
           /\ pending' = [pending EXCEPT ![n] = @ \ due]
           /\ \/ Transmit(sent, {}) /\ UNCHANGED heardMatching
              \/ Transmit(sent, {}) /\ heardMatching' = [heardMatching EXCEPT ![n] = FALSE]
              \/ \E hearers \in SUBSET Others(n) :
                   /\ Transmit(sent \cup {Digest(n, m) : m \in hearers}, {})
                   /\ heardMatching' = [heardMatching EXCEPT ![n] = FALSE]
    BY <1>6 DEF Tick
  <2>2. PICK sent \in SUBSET Requests(n, due) :
           \/ Transmit(sent, {})
           \/ \E hearers \in SUBSET Others(n) :
                Transmit(sent \cup {Digest(n, m) : m \in hearers}, {})
    BY <2>1
  <2>3. sent \in SUBSET Message
    BY RequestsType
  <2>4. net' \in SUBSET Message
    <3>1. CASE Transmit(sent, {})
      BY <2>3, <3>1, TransmitType DEF TypeOK
    <3>2. ASSUME NEW hearers \in SUBSET Others(n),
                 Transmit(sent \cup {Digest(n, m) : m \in hearers}, {})
          PROVE  net' \in SUBSET Message
      <4>1. {Digest(n, m) : m \in hearers} \in SUBSET Message
        BY ConstructorTypes DEF Others
      <4>2. sent \cup {Digest(n, m) : m \in hearers} \in SUBSET Message
        BY <2>3, <4>1
      <4> QED BY <3>2, <4>2, TransmitType DEF TypeOK
    <3> QED BY <2>2, <3>1, <3>2
  <2>5. heardMatching' \in [Node -> BOOLEAN]
    <3>1. \/ UNCHANGED heardMatching
          \/ heardMatching' = [heardMatching EXCEPT ![n] = FALSE]
      BY <2>1
    <3> QED BY <3>1 DEF TypeOK
  <2>6. pending' \in [Node -> SUBSET Ask]
    <3>1. pending' = [pending EXCEPT ![n] = @ \ due]
      BY <2>1
    <3> QED BY <3>1 DEF TypeOK
  <2> QED BY <1>6, <2>4, <2>5, <2>6 DEF TypeOK, Tick
<1>7. ASSUME NEW n \in Node, TickFails(n) PROVE TypeOK'
  <2>1. PICK handled \in SUBSET pending[n] : \E sent \in SUBSET Requests(n, handled) :
           /\ \E lost \in SUBSET handled : pending' = [pending EXCEPT ![n] = @ \ lost]
           /\ Transmit(sent, {})
    BY <1>7 DEF TickFails
  <2>2. PICK sent \in SUBSET Requests(n, handled) : Transmit(sent, {})
    BY <2>1
  <2>3. net' \in SUBSET Message
    BY <2>2, RequestsType, TransmitType DEF TypeOK
  <2>4. pending' \in [Node -> SUBSET Ask]
    BY <2>1 DEF TypeOK
  <2> QED BY <1>7, <2>3, <2>4 DEF TypeOK, TickFails
<1>8. ASSUME NEW n \in Node, NEW m \in net, m.to = n, ReceiveDigest(n, m) PROVE TypeOK'
  <2>1. m \in Message /\ m.type = "digest" /\ m.from \in Node /\ m.areas \in SUBSET AreaState
    BY <1>8, MessageFields DEF TypeOK, ReceiveDigest
  <2>2. NewAsks(n, m) \in SUBSET Ask
    BY <2>1 DEF NewAsks, Shared, AreaState, Ask
  <2>3. pending' \in [Node -> SUBSET Ask] /\ heardMatching' \in [Node -> BOOLEAN]
    BY <1>8, <2>2 DEF TypeOK, ReceiveDigest, AgreesEverywhere
  <2>4. net' \in SUBSET Message
    BY <1>8 DEF TypeOK, ReceiveDigest, Transmit
  <2> QED BY <1>8, <2>3, <2>4 DEF TypeOK, ReceiveDigest
<1>9. ASSUME NEW n \in Node, NEW m \in net, m.to = n, ReceiveVectorReq(n, m) PROVE TypeOK'
  <2>1. m \in Message /\ m.from \in Node /\ m.area \in Area
    BY <1>9, MessageFields DEF TypeOK, ReceiveVectorReq
  <2>2. VectorMsg(n, m.from, m.area) \in Message
    BY <2>1, ConstructorTypes
  <2>3. net' \in SUBSET Message
    BY <1>9, <2>2 DEF TypeOK, ReceiveVectorReq, Transmit
  <2> QED BY <1>9, <2>3 DEF TypeOK, ReceiveVectorReq
<1>10. ASSUME NEW n \in Node, NEW m \in net, m.to = n, ReceiveVector(n, m) PROVE TypeOK'
  <2>1. m \in Message /\ m.from \in Node /\ m.area \in Area /\ m.vector \in Vectors
    BY <1>10, MessageFields DEF TypeOK, ReceiveVector
  <2>2. Missing(Vector(n, m.area), m.vector) \in SUBSET Ranges
    BY <2>1, VectorType, MissingType
  <2>3. ASSUME NEW rs \in Asked(Missing(Vector(n, m.area), m.vector))
        PROVE  RangeReq(n, m.from, m.area, rs) \in Message
    BY <2>1, <2>2, ConstructorTypes DEF Asked
  <2>4. net' \in SUBSET Message
    BY <1>10, <2>3 DEF TypeOK, ReceiveVector, Transmit
  <2> QED BY <1>10, <2>4 DEF TypeOK, ReceiveVector
<1>11. ASSUME NEW n \in Node, NEW m \in net, m.to = n, ReceiveRangeReq(n, m) PROVE TypeOK'
  <2>1. m \in Message /\ m.area \in Area /\ m.ranges \in SUBSET Ranges
    BY <1>11, MessageFields DEF TypeOK, ReceiveRangeReq
  <2>2. ASSUME NEW recs \in Served(Records(n, m.area, m.ranges), m.ranges), NEW h \in Others(n)
        PROVE  Bundle(n, h, m.area, recs) \in Message
    <3>1. recs \in SUBSET Coord
      BY <2>1, VectorType DEF Served, Records
    <3> QED BY <2>1, <3>1, ConstructorTypes DEF Others
  <2>3. net' \in SUBSET Message
    BY <1>11, <2>2 DEF TypeOK, ReceiveRangeReq, Transmit
  <2>4. heardMatching' \in [Node -> BOOLEAN]
    BY <1>11 DEF TypeOK, ReceiveRangeReq
  <2> QED BY <1>11, <2>3, <2>4 DEF TypeOK, ReceiveRangeReq
<1>12. ASSUME NEW n \in Node, NEW m \in net, m.to = n, ReceiveBundle(n, m) PROVE TypeOK'
  <2>1. m \in Message /\ m.area \in Area /\ m.records \in SUBSET Coord
    BY <1>12, MessageFields DEF TypeOK, ReceiveBundle
  <2>2. Accepted(n, m.area, m.records) \in SUBSET Coord
    BY <2>1 DEF Accepted
  <2>3. log' \in [Node -> [Area -> SUBSET Coord]]
    BY <1>12, <2>1, <2>2 DEF TypeOK, ReceiveBundle
  <2>4. {c[1] : c \in m.records} \in SUBSET Node
    BY <2>1 DEF Coord
  <2>5. keys' \in [Node -> SUBSET Node]
    BY <1>12, <2>4 DEF TypeOK, ReceiveBundle
  <2>6. net' \in SUBSET Message
    BY <1>12 DEF TypeOK, ReceiveBundle, Transmit
  <2> QED BY <1>12, <2>3, <2>5, <2>6 DEF TypeOK, ReceiveBundle
<1>13. CASE UNCHANGED vars
  BY <1>13 DEF TypeOK, vars
<1> QED BY <1>1, <1>2, <1>3, <1>4, <1>5, <1>6, <1>7, <1>8, <1>9, <1>10, <1>11, <1>12, <1>13
        DEF Next, Receive

----------------------------------------------------------------------------
(* Claims. *)

\* No step removes a record from a log.
LEMMA LogGrows ==
    ASSUME TypeOK, [Next]_vars, NEW n \in Node, NEW a \in Area
    PROVE  log[n][a] \subseteq log'[n][a]
<1>1. ASSUME NEW k \in Node, NEW p \in session[k], PutRecord(k, p)
      PROVE  log[n][a] \subseteq log'[n][a]
  BY <1>1 DEF TypeOK, PutRecord
<1>2. ASSUME NEW k \in Node, NEW m \in net, ReceiveBundle(k, m)
      PROVE  log[n][a] \subseteq log'[n][a]
  BY <1>2 DEF TypeOK, ReceiveBundle
<1>3. CASE UNCHANGED log
  BY <1>3
<1> QED BY <1>1, <1>2, <1>3 DEF Next, Receive, NextSeq, AbandonPost, Publish, Crash, Tick,
          TickFails, ReceiveDigest, ReceiveVectorReq, ReceiveVector, ReceiveRangeReq, vars

\* A vector computed from a log is a true claim about it.
LEMMA VectorIsHonest ==
    ASSUME TypeOK, NEW n \in Node, NEW a \in Area
    PROVE  Covers(Vector(n, a)) \subseteq log[n][a]
BY VectorType, VectorStopsAtFirstGap DEF Vector, VectorLaw

\* What the engine puts on the air is sound when it is sent.
LEMMA SentIsSound ==
    ASSUME TypeOK, NEW n \in Node, NEW m \in Node, NEW a \in Area
    PROVE  /\ Sound(Digest(n, m))
           /\ Sound(VectorReq(n, m, a))
           /\ Sound(VectorMsg(n, m, a))
           /\ \A records \in SUBSET log[n][a] : Sound(Bundle(n, m, a, records))
<1>1. Sound(Digest(n, m))
  <2>1. ASSUME NEW b \in Carried[n] PROVE Covers(Vector(n, b)) \subseteq log[n][b]
    BY AreaAssumption, VectorIsHonest
  <2> QED BY <2>1 DEF Sound, Honest, Digest
<1>2. Sound(VectorReq(n, m, a))
  BY DEF Sound, Honest, VectorReq
<1>3. Sound(VectorMsg(n, m, a))
  BY VectorIsHonest DEF Sound, Honest, VectorMsg
<1>4. ASSUME NEW records \in SUBSET log[n][a] PROVE Sound(Bundle(n, m, a, records))
  BY DEF Sound, Honest, Bundle
<1> QED BY <1>1, <1>2, <1>3, <1>4

\* The request that answers a true vector asks for records its sender holds.
LEMMA RangeReqIsSound ==
    ASSUME TypeOK, NEW n \in Node, NEW m \in Message, m.type = "vector", Honest(m),
           NEW rs \in Asked(Missing(Vector(n, m.area), m.vector))
    PROVE  Sound(RangeReq(n, m.from, m.area, rs))
<1>1. m.area \in Area /\ m.vector \in Vectors /\ m.from \in Node
  BY MessageFields
<1>2. Vector(n, m.area) \in Vectors
  BY <1>1, VectorType
<1>3. ASSUME NEW r \in rs, NEW s \in r.from .. r.to
      PROVE  <<r.origin, s>> \in log[m.from][m.area]
  <2>1. r \in Missing(Vector(n, m.area), m.vector)
    BY DEF Asked
  <2>2. r \in Ranges
    BY <1>1, <1>2, <2>1, MissingType
  <2>3. <<r.origin, s>> \in Coord /\ InRange(<<r.origin, s>>, r)
    <3>1. r.origin \in Node /\ r.from \in 1 .. MaxSeq /\ r.to \in 1 .. MaxSeq
      BY <2>2 DEF Ranges
    <3>2. s \in 1 .. MaxSeq /\ r.from =< s /\ s =< r.to
      BY <3>1, MaxSeqAssumption
    <3> QED BY <3>1, <3>2 DEF Coord, InRange
  <2>4. <<r.origin, s>> \in Covers(m.vector)
    BY <1>1, <1>2, <2>1, <2>3, MissingIsExact DEF MissingLaw
  <2> QED BY <2>4 DEF Honest
<1> QED BY <1>3 DEF Sound, Honest, RangeReq

\* The requests of due asks are sound.
LEMMA RequestsAreSound ==
    ASSUME TypeOK, NEW n \in Node, NEW due \in SUBSET pending[n], NEW m \in Requests(n, due)
    PROVE  Sound(m)
<1>1. PICK ask \in Unanswered(n, due) : m = VectorReq(n, ask.peer, ask.area)
  BY DEF Requests
<1>2. ask.peer \in Node /\ ask.area \in Area
  BY DEF Unanswered, TypeOK, Ask
<1> QED BY <1>1, <1>2, SentIsSound

\* Every message a step leaves on the air was there before or is sound.
LEMMA NewMessagesSound ==
    ASSUME TypeOK, ClaimsAreHeld, SeqReserved, [Next]_vars, NEW m \in net'
    PROVE  m \in net \/ Sound(m)
<1>1. ASSUME NEW n \in Node, NEW p \in session[n], Publish(n, p)
      PROVE  m \in net \/ Sound(m)
  <2>1. p.area \in Area /\ {<<n, p.seq>>} \in SUBSET log[n][p.area]
    BY <1>1 DEF TypeOK, Session, Publish, SeqReserved
  <2>2. ASSUME NEW h \in Others(n) PROVE Sound(Bundle(n, h, p.area, {<<n, p.seq>>}))
    BY <2>1, SentIsSound DEF Others
  <2>3. ASSUME NEW hearers \in SUBSET Others(n),
               Transmit({Bundle(n, h, p.area, {<<n, p.seq>>}) : h \in hearers}, {})
        PROVE  m \in net \/ Sound(m)
    BY <2>2, <2>3 DEF Transmit
  <2> QED BY <1>1, <2>3 DEF Publish
<1>2. ASSUME NEW n \in Node, Tick(n) PROVE m \in net \/ Sound(m)
  <2>1. ASSUME NEW h \in Others(n) PROVE Sound(Digest(n, h))
    BY SentIsSound, AreaAssumption DEF Others
  <2> QED BY <1>2, <2>1, RequestsAreSound DEF Tick, Transmit
<1>3. ASSUME NEW n \in Node, TickFails(n) PROVE m \in net \/ Sound(m)
  BY <1>3, RequestsAreSound DEF TickFails, Transmit
<1>4. ASSUME NEW n \in Node, NEW q \in net, ReceiveVectorReq(n, q) PROVE m \in net \/ Sound(m)
  <2>1. q.area \in Area /\ q.from \in Node
    BY <1>4, MessageFields DEF TypeOK, ReceiveVectorReq
  <2>2. Sound(VectorMsg(n, q.from, q.area))
    BY <2>1, SentIsSound
  <2> QED BY <1>4, <2>2 DEF ReceiveVectorReq, Transmit
<1>5. ASSUME NEW n \in Node, NEW q \in net, ReceiveVector(n, q) PROVE m \in net \/ Sound(m)
  <2>1. q \in Message /\ q.type = "vector" /\ Honest(q)
    BY <1>5 DEF TypeOK, ReceiveVector, ClaimsAreHeld
  <2>2. ASSUME NEW rs \in Asked(Missing(Vector(n, q.area), q.vector))
        PROVE  Sound(RangeReq(n, q.from, q.area, rs))
    BY <2>1, RangeReqIsSound
  <2> QED BY <1>5, <2>2 DEF ReceiveVector, Transmit
<1>6. ASSUME NEW n \in Node, NEW q \in net, ReceiveRangeReq(n, q) PROVE m \in net \/ Sound(m)
  <2>1. q.area \in Area
    BY <1>6, MessageFields DEF TypeOK, ReceiveRangeReq
  <2>2. ASSUME NEW recs \in Served(Records(n, q.area, q.ranges), q.ranges), NEW h \in Others(n)
        PROVE  Sound(Bundle(n, h, q.area, recs))
    <3>1. recs \in SUBSET log[n][q.area]
      BY DEF Served, Records
    <3> QED BY <2>1, <3>1, SentIsSound DEF Others
  <2> QED BY <1>6, <2>2 DEF ReceiveRangeReq, Transmit
<1>7. ASSUME NEW n \in Node, NEW q \in net, ReceiveDigest(n, q) \/ ReceiveBundle(n, q)
      PROVE  m \in net
  BY <1>7 DEF ReceiveDigest, ReceiveBundle, Transmit
<1>8. CASE UNCHANGED net
  BY <1>8
<1> QED BY <1>1, <1>2, <1>3, <1>4, <1>5, <1>6, <1>7, <1>8
        DEF Next, Receive, NextSeq, PutRecord, AbandonPost, Crash, vars

\* Every ask a step leaves queued was queued before or is sound.
LEMMA NewAsksSound ==
    ASSUME TypeOK, ClaimsAreHeld, [Next]_vars, NEW n \in Node, NEW ask \in pending'[n]
    PROVE  ask \in pending[n] \/ SoundAsk(ask)
<1>1. ASSUME NEW k \in Node, NEW m \in net, ReceiveDigest(k, m)
      PROVE  ask \in pending[n] \/ SoundAsk(ask)
  <2>1. m.type = "digest" /\ Honest(m)
    BY <1>1 DEF ReceiveDigest, ClaimsAreHeld
  <2>2. ASSUME NEW new \in NewAsks(k, m) PROVE SoundAsk(new)
    BY <2>1 DEF NewAsks, Shared, SoundAsk, Honest
  <2> QED BY <1>1, <2>2 DEF TypeOK, ReceiveDigest
<1>2. ASSUME NEW k \in Node, Crash(k) \/ Tick(k) \/ TickFails(k) PROVE ask \in pending[n]
  BY <1>2 DEF TypeOK, Crash, Tick, TickFails
<1>3. CASE UNCHANGED pending
  BY <1>3
<1> QED BY <1>1, <1>2, <1>3 DEF Next, Receive, NextSeq, PutRecord, AbandonPost, Publish,
          ReceiveVectorReq, ReceiveVector, ReceiveRangeReq, ReceiveBundle, vars

----------------------------------------------------------------------------
(* Preservation of the inductive invariant. *)

\* Which actions change which part of the database and of the sessions.
LEMMA Frames ==
    ASSUME [Next]_vars
    PROVE  /\ \/ UNCHANGED log
              \/ \E n \in Node : \E p \in session[n] : PutRecord(n, p)
              \/ \E n \in Node : \E m \in net : ReceiveBundle(n, m)
           /\ UNCHANGED keys \/ \E n \in Node : \E m \in net : ReceiveBundle(n, m)
           /\ UNCHANGED highWater \/ \E n \in Node, a \in Area : NextSeq(n, a)
           /\ \/ UNCHANGED session
              \/ \E n \in Node, a \in Area : NextSeq(n, a)
              \/ \E n \in Node : \E p \in session[n] :
                    PutRecord(n, p) \/ AbandonPost(n, p) \/ Publish(n, p)
              \/ \E n \in Node : Crash(n)
<1>1. ASSUME NEW n \in Node, Tick(n) \/ TickFails(n)
      PROVE  UNCHANGED <<log, keys, highWater, session>>
  BY <1>1 DEF Tick, TickFails
<1>2. ASSUME NEW n \in Node, NEW m \in net, ReceiveDigest(n, m) \/ ReceiveVectorReq(n, m)
                 \/ ReceiveVector(n, m) \/ ReceiveRangeReq(n, m)
      PROVE  UNCHANGED <<log, keys, highWater, session>>
  BY <1>2 DEF ReceiveDigest, ReceiveVectorReq, ReceiveVector, ReceiveRangeReq
<1>3. ASSUME NEW n \in Node, NEW m \in net, ReceiveBundle(n, m)
      PROVE  UNCHANGED <<highWater, session>>
  BY <1>3 DEF ReceiveBundle
<1>4. ASSUME NEW n \in Node, NEW p \in session[n], PutRecord(n, p)
      PROVE  UNCHANGED <<keys, highWater>>
  BY <1>4 DEF PutRecord
<1>5. ASSUME NEW n \in Node, NEW p \in session[n], AbandonPost(n, p) \/ Publish(n, p)
      PROVE  UNCHANGED <<log, keys, highWater>>
  BY <1>5 DEF AbandonPost, Publish
<1>6. ASSUME NEW n \in Node, Crash(n) PROVE UNCHANGED <<log, keys, highWater>>
  BY <1>6 DEF Crash
<1>7. ASSUME NEW n \in Node, NEW a \in Area, NextSeq(n, a) PROVE UNCHANGED <<log, keys>>
  BY <1>7 DEF NextSeq
<1>8. CASE UNCHANGED vars
  BY <1>8 DEF vars
<1> QED BY <1>1, <1>2, <1>3, <1>4, <1>5, <1>6, <1>7, <1>8 DEF Next, Receive

\* Claims and requests stay true: new ones are, and logs only grow.
LEMMA ClaimsStep ==
    ASSUME Inv, [Next]_vars
    PROVE  ClaimsAreHeld' /\ RequestsAreAnswerable'
<1>1. TypeOK /\ TypeOK'
  BY TypeStep DEF Inv
<1>2. ASSUME NEW m \in net' PROVE Sound(m)'
  <2>1. m \in Message
    BY <1>1 DEF TypeOK
  <2>2. Sound(m)
    BY NewMessagesSound DEF Inv, ClaimsAreHeld, RequestsAreAnswerable, Sound
  <2>3. Honest(m)'
    <3>1. CASE m.type = "digest"
      <4>1. ASSUME NEW st \in m.areas PROVE Covers(st.vector) \subseteq log'[m.from][st.area]
        <5>1. st.area \in Area /\ m.from \in Node
          BY <2>1, <3>1, MessageFields DEF AreaState
        <5> QED BY <1>1, <2>2, <3>1, <5>1, LogGrows DEF Sound, Honest
      <4> QED BY <3>1, <4>1 DEF Honest
    <3>2. CASE m.type = "vector" \/ m.type = "bundle"
      <4>1. m.area \in Area /\ m.from \in Node
        BY <2>1, <3>2, MessageFields
      <4>2. log[m.from][m.area] \subseteq log'[m.from][m.area]
        BY <1>1, <4>1, LogGrows
      <4> QED BY <2>2, <3>2, <4>2 DEF Sound, Honest
    <3> QED BY <3>1, <3>2 DEF Honest
  <2>4. ASSUME m.type = "rangeReq", NEW r \in m.ranges, NEW s \in r.from .. r.to
        PROVE  <<r.origin, s>> \in log'[m.to][m.area]
    <3>1. m.area \in Area /\ m.to \in Node
      BY <2>1, <2>4, MessageFields
    <3> QED BY <1>1, <2>2, <2>4, <3>1, LogGrows DEF Sound
  <2> QED BY <2>3, <2>4 DEF Sound
<1>3. ASSUME NEW n \in Node, NEW ask \in pending'[n]
      PROVE  Covers(ask.want) \subseteq log'[ask.peer][ask.area]
  <2>1. ask.peer \in Node /\ ask.area \in Area
    BY <1>1 DEF TypeOK, Ask
  <2>2. SoundAsk(ask)
    BY NewAsksSound DEF Inv, ClaimsAreHeld, SoundAsk
  <2> QED BY <1>1, <2>1, <2>2, LogGrows DEF SoundAsk
<1> QED BY <1>2, <1>3 DEF ClaimsAreHeld, RequestsAreAnswerable, Sound

\* A received record is in the log of its sender and of its author.
LEMMA ReceivedIsHeld ==
    ASSUME Inv, NEW n \in Node, NEW m \in net, ReceiveBundle(n, m)
    PROVE  /\ m.area \in Area
           /\ m.records \in SUBSET Coord
           /\ \A c \in m.records : /\ c \in log[m.from][m.area] /\ m.from \in Node
                                   /\ c[1] \in Node /\ c \in log[c[1]][m.area]
                                   /\ c[2] \in 1 .. MaxSeq
                                   /\ c[2] =< highWater[c[1]][m.area]
<1>1. m \in Message /\ m.type = "bundle" /\ Honest(m)
  BY DEF Inv, TypeOK, ReceiveBundle, ClaimsAreHeld
<1>2. m.area \in Area /\ m.from \in Node /\ m.records \in SUBSET Coord
  BY <1>1, MessageFields
<1>3. ASSUME NEW c \in m.records
      PROVE  /\ c \in log[m.from][m.area]
             /\ c[1] \in Node /\ c[2] \in 1 .. MaxSeq
             /\ c \in log[c[1]][m.area]
             /\ c[2] =< highWater[c[1]][m.area]
  <2>1. c \in log[m.from][m.area]
    BY <1>1 DEF Honest
  <2>2. c[1] \in Node /\ c[2] \in 1 .. MaxSeq
    BY <1>2 DEF Coord
  <2> QED BY <1>2, <2>1, <2>2 DEF Inv, AuthorHolds, SeqReserved
<1> QED BY <1>2, <1>3

\* Authors keep what others hold of them.
LEMMA AuthorStep ==
    ASSUME Inv, [Next]_vars
    PROVE  AuthorHolds'
<1> SUFFICES ASSUME NEW n \in Node, NEW a \in Area, NEW c \in log'[n][a]
             PROVE  c \in log'[c[1]][a]
  BY DEF AuthorHolds
<1>0. TypeOK /\ TypeOK'
  BY TypeStep DEF Inv
<1>1. c \in Coord /\ c[1] \in Node
  BY <1>0 DEF TypeOK, Coord
<1>2. CASE c \in log[n][a]
  <2>1. c \in log[c[1]][a]
    BY <1>2 DEF Inv, AuthorHolds
  <2> QED BY <1>0, <1>1, <2>1, LogGrows
<1>3. ASSUME NEW k \in Node, NEW p \in session[k], PutRecord(k, p), c \notin log[n][a]
      PROVE  c \in log'[c[1]][a]
  <2>1. k = n /\ a = p.area /\ c = <<n, p.seq>>
    BY <1>0, <1>3 DEF TypeOK, PutRecord
  <2> QED BY <2>1
<1>4. ASSUME NEW k \in Node, NEW m \in net, ReceiveBundle(k, m), c \notin log[n][a]
      PROVE  c \in log'[c[1]][a]
  <2>1. k = n /\ a = m.area /\ c \in m.records
    BY <1>0, <1>4 DEF TypeOK, ReceiveBundle, Accepted
  <2>2. c \in log[c[1]][a]
    BY <1>4, <2>1, ReceivedIsHeld
  <2> QED BY <1>0, <1>1, <2>2, LogGrows
<1> QED BY <1>2, <1>3, <1>4, Frames

\* Reservations stay ahead of every log, and posts keep their numbers apart.
LEMMA SeqStep ==
    ASSUME Inv, [Next]_vars
    PROVE  SeqReserved'
<1> USE MaxSeqAssumption
<1>0. TypeOK /\ TypeOK'
  BY TypeStep DEF Inv
<1>1. ASSUME NEW n \in Node, NEW a \in Area PROVE highWater[n][a] =< highWater'[n][a]
  <2>1. ASSUME NEW k \in Node, NEW b \in Area, NextSeq(k, b)
        PROVE  highWater[n][a] =< highWater'[n][a]
    BY <1>0, <2>1 DEF TypeOK, NextSeq
  <2> QED BY <1>0, <2>1, Frames DEF TypeOK
<1>2. ASSUME NEW n \in Node, NEW a \in Area, NEW c \in log'[n][a]
      PROVE  c[2] =< highWater'[c[1]][a]
  <2>1. c[1] \in Node /\ c[2] \in 1 .. MaxSeq
    BY <1>0 DEF TypeOK, Coord
  <2>2. c[2] =< highWater[c[1]][a]
    <3>1. CASE c \in log[n][a]
      BY <3>1 DEF Inv, SeqReserved
    <3>2. ASSUME NEW k \in Node, NEW p \in session[k], PutRecord(k, p), c \notin log[n][a]
          PROVE  c[2] =< highWater[c[1]][a]
      <4>1. k = n /\ a = p.area /\ c = <<n, p.seq>>
        BY <1>0, <3>2 DEF TypeOK, PutRecord
      <4> QED BY <4>1 DEF Inv, SeqReserved
    <3>3. ASSUME NEW k \in Node, NEW m \in net, ReceiveBundle(k, m), c \notin log[n][a]
          PROVE  c[2] =< highWater[c[1]][a]
      <4>1. k = n /\ a = m.area /\ c \in m.records
        BY <1>0, <3>3 DEF TypeOK, ReceiveBundle, Accepted
      <4> QED BY <3>3, <4>1, ReceivedIsHeld
    <3> QED BY <3>1, <3>2, <3>3, Frames
  <2>3. highWater[c[1]][a] \in Nat /\ highWater'[c[1]][a] \in Nat
    BY <1>0, <2>1 DEF TypeOK
  <2> QED BY <1>1, <2>1, <2>2, <2>3
<1> DEFINE PostOK(n, p, q) ==
      /\ p.seq =< highWater'[n][p.area]
      /\ p.stage = "reserved" => <<n, p.seq>> \notin log'[n][p.area]
      /\ p.stage = "stored" => <<n, p.seq>> \in log'[n][p.area] /\ p.area \in Carried[n]
      /\ p.area = q.area /\ p.seq = q.seq => p = q
<1>3. ASSUME NEW n \in Node, NEW p \in session'[n], NEW q \in session'[n] PROVE PostOK(n, p, q)
  <2>1. /\ p \in Session /\ q \in Session
        /\ p.area \in Area /\ p.seq \in 1 .. MaxSeq
        /\ q.area \in Area /\ q.seq \in 1 .. MaxSeq
    BY <1>0 DEF TypeOK, Session
  <2>2. \A x \in session[n] :
          /\ x \in Session /\ x.area \in Area /\ x.seq \in 1 .. MaxSeq
          /\ x.seq =< highWater[n][x.area]
          /\ x.stage = "reserved" => <<n, x.seq>> \notin log[n][x.area]
          /\ x.stage = "stored" => <<n, x.seq>> \in log[n][x.area] /\ x.area \in Carried[n]
          /\ \A y \in session[n] : x.area = y.area /\ x.seq = y.seq => x = y
    BY <1>0 DEF Inv, SeqReserved, TypeOK, Session
  <2>3. highWater[n][p.area] \in Nat /\ highWater'[n][p.area] \in Nat
        /\ highWater[n][p.area] =< highWater'[n][p.area]
    BY <1>0, <1>1, <2>1 DEF TypeOK
  <2>4. log[n][p.area] \subseteq log'[n][p.area]
    BY <1>0, <2>1, LogGrows
  <2>5. ASSUME p \in session[n], q \in session[n],
               p.stage = "reserved" => <<n, p.seq>> \notin log'[n][p.area]
        PROVE  PostOK(n, p, q)
    BY <2>1, <2>2, <2>3, <2>4, <2>5
  <2>6. ASSUME NEW k \in Node, NEW a \in Area, NextSeq(k, a) PROVE PostOK(n, p, q)
    <3> DEFINE new == [area |-> a, seq |-> highWater[k][a] + 1, stage |-> "reserved"]
    <3>1. UNCHANGED log
      BY <2>6 DEF NextSeq
    <3>2. session'[n] = IF n = k THEN session[n] \cup {new} ELSE session[n]
      BY <1>0, <2>6 DEF NextSeq, TypeOK
    <3>3. highWater'[k][a] = highWater[k][a] + 1 /\ highWater[k][a] \in Nat
      BY <1>0, <2>6 DEF NextSeq, TypeOK
    <3>4. ASSUME NEW x \in session[k] PROVE ~(x.area = a /\ x.seq = highWater[k][a] + 1)
      <4>1. x.seq =< highWater[k][x.area] /\ x.seq \in 1 .. MaxSeq
        <5>1. x \in Session
          BY <1>0 DEF TypeOK
        <5> QED BY <5>1 DEF Inv, SeqReserved, Session
      <4> QED BY <3>3, <4>1
    <3>5. <<k, highWater[k][a] + 1>> \notin log[k][a]
      <4>1. ASSUME NEW c \in log[k][a], c[1] = k PROVE c[2] =< highWater[k][a] /\ c[2] \in Int
        BY <1>0, <4>1 DEF Inv, SeqReserved, TypeOK, Coord
      <4> QED BY <3>3, <4>1
    <3>6. CASE p \in session[n] /\ q \in session[n]
      BY <2>2, <2>5, <3>1, <3>6
    <3>7. CASE n = k /\ p = new
      <4>1. p.area = a /\ p.seq = highWater[k][a] + 1 /\ p.stage = "reserved"
        BY <3>7
      <4>2. p.area = q.area /\ p.seq = q.seq => p = q
        BY <3>2, <3>4, <3>7, <4>1
      <4> QED BY <3>1, <3>3, <3>5, <3>7, <4>1, <4>2
    <3>8. CASE n = k /\ p \in session[n] /\ q = new
      <4>1. ~(p.area = q.area /\ p.seq = q.seq)
        BY <3>4, <3>8
      <4> QED BY <2>1, <2>2, <2>3, <2>4, <3>1, <3>8, <4>1
    <3> QED BY <3>2, <3>6, <3>7, <3>8
  <2>7. ASSUME NEW k \in Node, NEW r \in session[k], PutRecord(k, r) PROVE PostOK(n, p, q)
    <3> DEFINE done == [r EXCEPT !.stage = "stored"]
    <3>1. r \in Session /\ r.stage = "reserved" /\ r.area \in Area /\ r.seq \in 1 .. MaxSeq
      BY <1>0, <2>7 DEF PutRecord, TypeOK, Session
    <3>2. done.area = r.area /\ done.seq = r.seq /\ done.stage = "stored"
      BY <3>1 DEF Session
    <3>3. log'[n] = IF n = k THEN [log[n] EXCEPT ![r.area] = @ \cup {<<k, r.seq>>}] ELSE log[n]
      BY <1>0, <2>7 DEF PutRecord, TypeOK
    <3>4. CASE n # k
      <4>1. session'[n] = session[n]
        BY <1>0, <2>7, <3>4 DEF PutRecord, TypeOK
      <4> QED BY <2>2, <2>5, <3>3, <3>4, <4>1
    <3>5. CASE n = k
      <4>1. /\ session'[n] \subseteq (session[n] \ {r}) \cup {done}
            /\ done \in session'[n] => r.area \in Carried[n] \/ done \in session[n]
        BY <1>0, <2>7, <3>5 DEF PutRecord, TypeOK
      <4>2. done \notin session[n]
        BY <2>2, <3>1, <3>2, <3>5
      <4>3. <<n, r.seq>> \in log'[n][r.area]
        BY <1>0, <3>1, <3>3, <3>5 DEF TypeOK
      <4>4. ASSUME NEW x \in session[n] \ {r} PROVE ~(x.area = r.area /\ x.seq = r.seq)
        BY <2>2, <3>5
      <4>5. ASSUME p \in session[n] \ {r}, p.stage = "reserved"
            PROVE  <<n, p.seq>> \notin log'[n][p.area]
        <5>1. <<n, p.seq>> \notin log[n][p.area]
          BY <2>2, <4>5
        <5>2. CASE p.area = r.area
          <6>1. p.seq # r.seq
            BY <4>4, <4>5, <5>2
          <6>2. log'[n][p.area] = log[n][p.area] \cup {<<n, r.seq>>}
            BY <1>0, <2>1, <3>3, <3>5, <5>2 DEF TypeOK
          <6> QED BY <5>1, <6>1, <6>2
        <5>3. CASE p.area # r.area
          <6>1. log'[n][p.area] = log[n][p.area]
            BY <1>0, <2>1, <3>1, <3>3, <3>5, <5>3 DEF TypeOK
          <6> QED BY <5>1, <6>1
        <5> QED BY <5>2, <5>3
      <4>6. CASE p \in session[n] \ {r} /\ q \in session[n] \ {r}
        BY <2>5, <4>5, <4>6
      <4>7. CASE p \in session[n] \ {r} /\ q = done
        <5>1. ~(p.area = q.area /\ p.seq = q.seq)
          BY <3>2, <4>4, <4>7
        <5> QED BY <2>2, <2>3, <2>4, <2>1, <4>5, <4>7, <5>1
      <4>8. CASE p = done
        <5>1. p.area = q.area /\ p.seq = q.seq => p = q
          BY <3>2, <4>1, <4>4, <4>8
        <5>2. p.seq =< highWater'[n][p.area]
          <6>1. r.seq =< highWater[n][r.area]
            BY <2>2, <3>5
          <6> QED BY <2>1, <2>3, <3>2, <4>8, <6>1
        <5>3. r.area \in Carried[n]
          BY <4>1, <4>2, <4>8
        <5> QED BY <3>2, <4>3, <4>8, <5>1, <5>2, <5>3
      <4> QED BY <4>1, <4>6, <4>7, <4>8
    <3> QED BY <3>4, <3>5
  <2>8. CASE session'[n] \subseteq session[n] /\ UNCHANGED log
    BY <2>2, <2>5, <2>8
  <2>9. ASSUME NEW k \in Node, NEW r \in session[k], AbandonPost(k, r) \/ Publish(k, r)
        PROVE  session'[n] \subseteq session[n] /\ UNCHANGED log
    <3>1. session' = [session EXCEPT ![k] = @ \ {r}] /\ UNCHANGED log
      BY <2>9 DEF AbandonPost, Publish
    <3>2. session \in [Node -> SUBSET Session]
      BY <1>0 DEF TypeOK
    <3> QED BY <3>1, <3>2
  <2>10. ASSUME NEW k \in Node, Crash(k)
         PROVE  session'[n] \subseteq session[n] /\ UNCHANGED log
    BY <1>0, <2>10 DEF Crash, TypeOK
  <2>11. ASSUME NEW k \in Node, NEW m \in net, ReceiveBundle(k, m) PROVE PostOK(n, p, q)
    <3>1. UNCHANGED session
      BY <2>11 DEF ReceiveBundle
    <3>2. ASSUME p.stage = "reserved" PROVE <<n, p.seq>> \notin log'[n][p.area]
      <4>1. <<n, p.seq>> \notin log[n][p.area]
        BY <2>2, <3>1, <3>2
      <4>2. SUFFICES ASSUME <<n, p.seq>> \in log'[n][p.area] PROVE FALSE
        OBVIOUS
      <4>3. k = n /\ p.area = m.area /\ <<n, p.seq>> \in m.records
        BY <1>0, <2>1, <2>11, <4>1, <4>2 DEF TypeOK, ReceiveBundle, Accepted
      <4>4. <<n, p.seq>> \in log[<<n, p.seq>>[1]][m.area]
        BY <2>11, <4>3, ReceivedIsHeld
      <4> QED BY <4>1, <4>3, <4>4
    <3> QED BY <2>5, <3>1, <3>2
  <2>12. CASE UNCHANGED <<session, log>>
    BY <2>8, <2>12
  <2> QED BY <2>6, <2>7, <2>8, <2>9, <2>10, <2>11, <2>12, Frames
<1> QED BY <1>2, <1>3 DEF SeqReserved

\* Keys come with NODE records, and records after keys.
LEMMA KeyStep ==
    ASSUME Inv, [Next]_vars
    PROVE  KeyBeforeRecord' /\ RosterOnce'
<1> USE MaxSeqAssumption
<1>0. TypeOK /\ TypeOK'
  BY TypeStep DEF Inv
<1>1. ASSUME NEW n \in Node PROVE keys[n] \subseteq keys'[n]
  <2>1. ASSUME NEW k \in Node, NEW m \in net, ReceiveBundle(k, m) PROVE keys[n] \subseteq keys'[n]
    BY <1>0, <2>1 DEF TypeOK, ReceiveBundle
  <2> QED BY <2>1, Frames
<1>2. ASSUME NEW n \in Node, NEW a \in Area \ {Roster}, NEW c \in log'[n][a]
      PROVE  c[1] \in keys'[n]
  <2>1. CASE c \in log[n][a]
    BY <1>1, <2>1 DEF Inv, KeyBeforeRecord
  <2>2. ASSUME NEW k \in Node, NEW p \in session[k], PutRecord(k, p), c \notin log[n][a]
        PROVE  c[1] \in keys'[n]
    <3>1. k = n /\ c = <<n, p.seq>>
      BY <1>0, <2>2 DEF TypeOK, PutRecord
    <3> QED BY <1>1, <3>1 DEF Inv, RosterOnce
  <2>3. ASSUME NEW k \in Node, NEW m \in net, ReceiveBundle(k, m), c \notin log[n][a]
        PROVE  c[1] \in keys'[n]
    <3>1. k = n /\ a = m.area /\ c \in Accepted(n, a, m.records)
      BY <1>0, <2>3 DEF TypeOK, ReceiveBundle
    <3> QED BY <1>1, <3>1 DEF Accepted
  <2> QED BY <2>1, <2>2, <2>3, Frames
<1>3. ASSUME NEW n \in Node, NEW o \in keys'[n] PROVE <<o, 1>> \in log'[n][Roster]
  <2>1. CASE o \in keys[n]
    <3>1. <<o, 1>> \in log[n][Roster]
      BY <2>1 DEF Inv, KeyBeforeRecord
    <3> QED BY <1>0, <3>1, LogGrows, AreaAssumption
  <2>2. ASSUME NEW k \in Node, NEW m \in net, ReceiveBundle(k, m), o \notin keys[n]
        PROVE  <<o, 1>> \in log'[n][Roster]
    <3>1. k = n /\ m.area = Roster /\ \E c \in m.records : o = c[1]
      BY <1>0, <2>2 DEF TypeOK, ReceiveBundle
    <3>2. PICK c \in m.records : o = c[1]
      BY <3>1
    <3>3. c \in Coord /\ c[2] \in 1 .. MaxSeq /\ c[2] =< highWater[o][Roster] /\ o \in Node
      BY <2>2, <3>1, <3>2, ReceivedIsHeld
    <3>4. highWater[o][Roster] = 1
      BY <3>3 DEF Inv, RosterOnce
    <3>5. c = <<o, 1>>
      <4>1. c[2] = 1
        BY <3>3, <3>4
      <4> QED BY <3>2, <3>3, <4>1 DEF Coord
    <3>6. c \in log'[n][Roster]
      BY <1>0, <2>2, <3>1, AreaAssumption DEF TypeOK, ReceiveBundle, Accepted
    <3> QED BY <3>5, <3>6
  <2> QED BY <2>1, <2>2, Frames
<1>4. ASSUME NEW n \in Node PROVE highWater'[n][Roster] = 1
  <2>1. ASSUME NEW k \in Node, NEW a \in Area, NextSeq(k, a) PROVE highWater'[n][Roster] = 1
    <3>1. a # Roster
      BY <2>1, AreaAssumption DEF NextSeq
    <3> QED BY <1>0, <2>1, <3>1, AreaAssumption DEF NextSeq, TypeOK, Inv, RosterOnce
  <2> QED BY <2>1, Frames DEF Inv, RosterOnce
<1>5. ASSUME NEW n \in Node, NEW p \in session'[n] PROVE p.area # Roster
  <2>1. CASE p \in session[n]
    BY <2>1 DEF Inv, RosterOnce
  <2>2. ASSUME NEW k \in Node, NEW a \in Area, NextSeq(k, a), p \notin session[n]
        PROVE  p.area # Roster
    <3>1. session'[n] \subseteq session[n] \cup
             {[area |-> a, seq |-> highWater[k][a] + 1, stage |-> "reserved"]}
      BY <1>0, <2>2 DEF NextSeq, TypeOK
    <3>2. p.area = a
      BY <2>2, <3>1
    <3> QED BY <2>2, <3>2, AreaAssumption DEF NextSeq
  <2>3. ASSUME NEW k \in Node, NEW r \in session[k], PutRecord(k, r), p \notin session[n]
        PROVE  p.area # Roster
    <3>1. k = n /\ p = [r EXCEPT !.stage = "stored"] /\ r \in Session
      BY <1>0, <2>3 DEF PutRecord, TypeOK
    <3>2. p.area = r.area
      BY <3>1 DEF Session
    <3> QED BY <3>1, <3>2 DEF Inv, RosterOnce
  <2>4. ASSUME NEW k \in Node, NEW r \in session[k],
               AbandonPost(k, r) \/ Publish(k, r) \/ Crash(k)
        PROVE  p \in session[n]
    BY <1>0, <2>4 DEF AbandonPost, Publish, Crash, TypeOK
  <2>5. ASSUME NEW k \in Node, Crash(k) PROVE p \in session[n]
    BY <1>0, <2>5 DEF Crash, TypeOK
  <2> QED BY <2>1, <2>2, <2>3, <2>4, <2>5, Frames
<1> QED BY <1>0, <1>1, <1>2, <1>3, <1>4, <1>5 DEF KeyBeforeRecord, RosterOnce, Inv

\* The initial states satisfy the invariant.
LEMMA InitInv == Init => Inv
<1> SUFFICES ASSUME Init PROVE Inv
  OBVIOUS
<1> USE AreaAssumption, MaxSeqAssumption, BoundAssumption DEF Init
<1>1. ASSUME NEW n \in Node, NEW a \in Area
      PROVE  log[n][a] = IF a = Roster THEN Known[n] \X {1} ELSE {}
  OBVIOUS
<1>2. ASSUME NEW n \in Node, NEW a \in Area PROVE log[n][a] \in SUBSET Coord
  BY <1>1 DEF Coord
<1>3. TypeOK
  <2>1. log \in [Node -> [Area -> SUBSET Coord]]
    BY <1>2
  <2>2. highWater \in [Node -> [Area -> 0 .. MaxSeq]]
    OBVIOUS
  <2> QED BY <2>1, <2>2 DEF TypeOK
<1>4. ClaimsAreHeld /\ RequestsAreAnswerable
  BY DEF ClaimsAreHeld, RequestsAreAnswerable
<1>5. ASSUME NEW n \in Node, NEW a \in Area, NEW c \in log[n][a]
      PROVE  a = Roster /\ c[1] \in Node /\ c = <<c[1], 1>> /\ c[1] \in Known[n]
  BY <1>1
<1>6. AuthorHolds
  <2>1. ASSUME NEW o \in Node PROVE <<o, 1>> \in log[o][Roster]
    BY <1>1
  <2> QED BY <1>5, <2>1 DEF AuthorHolds
<1>7. KeyBeforeRecord
  <2>1. ASSUME NEW n \in Node, NEW o \in keys[n] PROVE <<o, 1>> \in log[n][Roster]
    BY <1>1
  <2> QED BY <1>5, <2>1 DEF KeyBeforeRecord
<1>8. SeqReserved
  <2>1. ASSUME NEW n \in Node, NEW a \in Area, NEW c \in log[n][a]
        PROVE  c[2] =< highWater[c[1]][a]
    <3>1. c[2] = 1 /\ highWater[c[1]][a] = 1
      BY <1>5
    <3> QED BY <3>1
  <2> QED BY <2>1 DEF SeqReserved
<1>9. RosterOnce
  BY DEF RosterOnce
<1> QED BY <1>3, <1>4, <1>6, <1>7, <1>8, <1>9 DEF Inv

\* Every step preserves the invariant.
LEMMA InvStep == Inv /\ [Next]_vars => Inv'
<1> SUFFICES ASSUME Inv, [Next]_vars PROVE Inv'
  OBVIOUS
<1>1. TypeOK'
  BY TypeStep DEF Inv
<1> QED BY <1>1, ClaimsStep, AuthorStep, SeqStep, KeyStep DEF Inv

\* The invariant holds of every behaviour of the engine.
THEOREM Invariance == Spec => []Inv
BY InitInv, InvStep, PTL DEF Spec

----------------------------------------------------------------------------
(* The properties. *)

\* Type correctness.
THEOREM TypeCorrect == Spec => []TypeOK
BY Invariance, PTL DEF Inv

\* Nothing on the air or queued claims a record its sender does not hold
\* (GossipStore.Vector, Engine.Digest, onVectorReq, onRangeReq).
THEOREM ClaimsAreTrue == Spec => []ClaimsAreHeld
BY Invariance, PTL DEF Inv

\* A range request can be answered in full by the node it is sent to
\* (onVector, vv.Missing).
THEOREM RequestsCanBeAnswered == Spec => []RequestsAreAnswerable
BY Invariance, PTL DEF Inv

\* Whatever any node holds, its author still holds (PutRecord before publish).
THEOREM AuthorsKeepTheirRecords == Spec => []AuthorHolds
BY Invariance, PTL DEF Inv

\* A record is held only with its origin's key, and a key only with the NODE
\* record it came in (GossipStore.Apply).
THEOREM KeysComeFirst == Spec => []KeyBeforeRecord
BY Invariance, PTL DEF Inv

\* Vectors never go backwards (GossipStore.Vector, PutRecord).
THEOREM VectorsGrow == Spec => VectorsNeverRegress
<1>1. Inv /\ [Next]_vars =>
        [\A n \in Node, a \in Area : Dominates(Vector(n, a)', Vector(n, a))]_vars
  <2> SUFFICES ASSUME Inv, [Next]_vars, NEW n \in Node, NEW a \in Area
               PROVE  Dominates(Vector(n, a)', Vector(n, a))
    OBVIOUS
  <2>1. TypeOK /\ TypeOK'
    BY TypeStep DEF Inv
  <2>2. log[n][a] \in SUBSET Coord /\ log'[n][a] \in SUBSET Coord
    BY <2>1 DEF TypeOK
  <2>3. log[n][a] \subseteq log'[n][a]
    BY <2>1, LogGrows
  <2> QED BY <2>2, <2>3, VectorGrowsWithLog DEF Vector
<1> QED BY <1>1, Invariance, PTL DEF Spec, VectorsNeverRegress

\* A sequence number is handed out once: no log, session or message knows it
\* already (Store.NextSeq), restarts and failed posts included.
THEOREM SequenceNumbersAreFresh == Spec => FreshSeq
<1> DEFINE Fresh == \A n \in Node, a \in Area :
          \A p \in session'[n] \ session[n] :
             p.area = a /\ p.stage = "reserved" =>
                /\ \A m \in Node : <<n, p.seq>> \notin log[m][a]
                /\ \A q \in session[n] : ~(q.area = a /\ q.seq = p.seq)
                /\ \A m \in net : m.type = "bundle" /\ m.area = a => <<n, p.seq>> \notin m.records
<1>1. Inv /\ [Next]_vars => Fresh
  <2> SUFFICES ASSUME Inv, [Next]_vars, NEW n \in Node, NEW a \in Area,
                      NEW p \in session'[n] \ session[n], p.area = a, p.stage = "reserved"
               PROVE  /\ \A m \in Node : <<n, p.seq>> \notin log[m][a]
                      /\ \A q \in session[n] : ~(q.area = a /\ q.seq = p.seq)
                      /\ \A m \in net : m.type = "bundle" /\ m.area = a =>
                            <<n, p.seq>> \notin m.records
    OBVIOUS
  <2>1. TypeOK
    BY DEF Inv
  <2>2. \E k \in Node, b \in Area : NextSeq(k, b)
    <3>1. ASSUME NEW k \in Node, NEW r \in session[k], PutRecord(k, r) PROVE FALSE
      <4>1. r \in Session /\ p = [r EXCEPT !.stage = "stored"]
        BY <2>1, <3>1 DEF PutRecord, TypeOK
      <4>2. p.stage = "stored"
        BY <4>1 DEF Session
      <4> QED BY <4>2
    <3>2. ASSUME NEW k \in Node, NEW r \in session[k], AbandonPost(k, r) \/ Publish(k, r)
          PROVE  FALSE
      <4>1. session' = [session EXCEPT ![k] = @ \ {r}]
        BY <3>2 DEF AbandonPost, Publish
      <4> QED BY <2>1, <4>1 DEF TypeOK
    <3>3. ASSUME NEW k \in Node, Crash(k) PROVE FALSE
      BY <2>1, <3>3 DEF Crash, TypeOK
    <3> QED BY <3>1, <3>2, <3>3, Frames
  <2>3. a = p.area /\ highWater[n][a] \in Nat /\ p.seq = highWater[n][a] + 1
    <3>1. PICK k \in Node, b \in Area : NextSeq(k, b)
      BY <2>2
    <3>2. k = n /\ p = [area |-> b, seq |-> highWater[k][b] + 1, stage |-> "reserved"]
      BY <2>1, <3>1 DEF NextSeq, TypeOK
    <3>3. highWater[n][a] \in Nat
      BY <2>1, MaxSeqAssumption DEF TypeOK
    <3> QED BY <3>2, <3>3
  <2>4. ASSUME NEW m \in Node PROVE <<n, p.seq>> \notin log[m][a]
    <3>1. ASSUME NEW c \in log[m][a] PROVE c[2] =< highWater[c[1]][a] /\ c[2] \in Int
      BY <2>1, MaxSeqAssumption DEF Inv, SeqReserved, TypeOK, Coord
    <3> QED BY <2>3, <3>1
  <2>5. ASSUME NEW q \in session[n] PROVE ~(q.area = a /\ q.seq = p.seq)
    <3>1. q \in Session
      BY <2>1 DEF TypeOK
    <3>2. q.seq =< highWater[n][q.area]
      BY DEF Inv, SeqReserved
    <3>3. q.seq \in Int
      BY <3>1 DEF Session
    <3> QED BY <2>3, <3>2, <3>3
  <2>6. ASSUME NEW m \in net, m.type = "bundle", m.area = a PROVE <<n, p.seq>> \notin m.records
    <3>1. m \in Message
      BY <2>1 DEF TypeOK
    <3>2. m.records \subseteq log[m.from][a] /\ m.from \in Node
      BY <2>6, <3>1, MessageFields DEF Inv, ClaimsAreHeld, Honest
    <3> QED BY <2>4, <3>2
  <2> QED BY <2>4, <2>5, <2>6
<1>2. Inv /\ [Next]_vars => [Fresh]_vars
  BY <1>1
<1>3. FreshSeq <=> [][Fresh]_vars
  BY DEF FreshSeq
<1> HIDE DEF Fresh
<1> QED BY <1>2, <1>3, Invariance, PTL DEF Spec

\* The engine implements the abstract replicated log: reserving a number,
\* storing one's own record and accepting a bundle are its only steps.
THEOREM Refinement == Spec => ImplementsReplicatedLog
<1>1. Init => RL!Init
  BY DEF Init, RL!Init
<1>2. Inv /\ [Next]_vars => [RL!Next]_(RL!rlVars)
  <2> SUFFICES ASSUME Inv, [Next]_vars PROVE [RL!Next]_(RL!rlVars)
    OBVIOUS
  <2>1. ASSUME NEW n \in Node, NEW a \in Area, NextSeq(n, a) PROVE RL!Next
    <3>1. RL!Reserve(n, a)
      BY <2>1 DEF NextSeq, RL!Reserve
    <3> QED BY <3>1 DEF RL!Next
  <2>2. ASSUME NEW n \in Node, NEW p \in session[n], PutRecord(n, p) PROVE RL!Next
    <3>1. p.area \in Area /\ p.seq \in 1 .. MaxSeq /\ p.stage = "reserved"
      BY <2>2 DEF Inv, TypeOK, Session, PutRecord
    <3>2. ASSUME NEW m \in Node PROVE <<n, p.seq>> \notin log[m][p.area]
      <4>1. <<n, p.seq>> \notin log[n][p.area]
        BY <3>1 DEF Inv, SeqReserved
      <4>2. ASSUME <<n, p.seq>> \in log[m][p.area] PROVE <<n, p.seq>> \in log[n][p.area]
        BY <3>1, <4>2 DEF Inv, AuthorHolds
      <4> QED BY <4>1, <4>2
    <3>3. p.seq =< highWater[n][p.area]
      BY DEF Inv, SeqReserved
    <3>4. RL!Create(n, p.area, p.seq)
      BY <2>2, <3>2, <3>3 DEF PutRecord, RL!Create
    <3> QED BY <3>1, <3>4 DEF RL!Next
  <2>3. ASSUME NEW n \in Node, NEW m \in net, ReceiveBundle(n, m) PROVE RL!Next
    <3> DEFINE recs == Accepted(n, m.area, m.records)
    <3>1. m.area \in Area /\ recs \in SUBSET m.records /\ m.records \in SUBSET Coord
      BY <2>3, ReceivedIsHeld DEF Accepted
    <3>2. recs \subseteq UNION {log[k][m.area] : k \in Node}
      BY <2>3, <3>1, ReceivedIsHeld
    <3>3. RL!Copy(n, m.area, recs)
      BY <2>3, <3>2 DEF ReceiveBundle, RL!Copy
    <3>4. recs \in SUBSET (Node \X (1 .. MaxSeq))
      BY <3>1 DEF Coord
    <3> QED BY <3>1, <3>3, <3>4 DEF RL!Next
  <2>4. CASE UNCHANGED <<log, highWater>>
    BY <2>4 DEF RL!rlVars
  <2> QED BY <2>1, <2>2, <2>3, <2>4, Frames
<1> QED BY <1>1, <1>2, Invariance, PTL DEF Spec, ImplementsReplicatedLog, RL!Spec

=============================================================================
