------------------------------- MODULE Gossip -------------------------------
(***************************************************************************)
(* The anti-entropy engine (internal/gossip/engine.go and schedule.go)     *)
(* over the record log (internal/store), on a radio that loses, delays,    *)
(* reorders and duplicates messages.                                       *)
(*                                                                         *)
(* A node authors records under sequence numbers it reserves durably,      *)
(* pushes them, and repairs what the push missed: a digest tells peers     *)
(* what it holds, a peer that is behind queues an ask, asks for the full   *)
(* vector, requests the ranges it lacks, and the answer is broadcast.      *)
(*                                                                         *)
(* Time is abstracted: an ask's suppression window and the next digest may *)
(* be due in any Tick.  So is the airtime governor: CanSend may refuse any *)
(* send.  The loss estimate and the dictionary floor steer no step here.   *)
(***************************************************************************)
EXTENDS VersionVector

CONSTANTS Area,       \* record.AreaTag: the areas of the federation
          Roster,     \* RosterArea: NODE records, carried by every node
          Carried,    \* Carried[n]: the areas n federates (GossipStore.Areas)
          Writable,   \* Writable[n]: the areas n's users may post to
          Known,      \* Known[n]: the origins whose NODE record n starts with
          CountCap,   \* where AreaState.Count saturates
          MaxRanges,  \* ranges in one request
          MaxPush,    \* records in one answer
          MaxNet,     \* bound: messages in flight
          MaxCrash    \* bound: restarts

ASSUME AreaAssumption ==
    /\ Roster \in Area
    /\ Carried \in [Node -> SUBSET Area]
    /\ \A n \in Node : Roster \in Carried[n]
    /\ Writable \in [Node -> SUBSET (Area \ {Roster})]
    /\ Known \in [Node -> SUBSET Node]
    /\ \A n \in Node : n \in Known[n]

ASSUME BoundAssumption ==
    /\ CountCap \in Nat
    /\ MaxRanges \in Nat \ {0}
    /\ MaxPush \in Nat \ {0}
    /\ MaxNet \in Nat \ {0}
    /\ MaxCrash \in Nat

VARIABLES
    \* Durable: the database.
    log,            \* log[n][a]: coordinates of the records n holds in area a
    highWater,      \* highWater[n][a]: the last sequence number n reserved
    keys,           \* keys[n]: origins whose NODE record n has stored
    \* Volatile: the process.
    session,        \* session[n]: posts under way, see Session
    pending,        \* pending[n]: queued asks
    heardMatching,  \* heardMatching[n]: the scheduler's suppression flag
    \* The radio.
    net,            \* messages in flight
    crashes         \* restarts so far

vars == <<log, highWater, keys, session, pending, heardMatching, net, crashes>>

\* A post between NextSeq and PutRecord, or between PutRecord and publish.
Session == [area : Area, seq : 1 .. MaxSeq, stage : {"reserved", "stored"}]

\* pendingAsk; want is the advertised state whose hash motivated it.
Ask == [peer : Node, area : Area, want : Vectors]

AreaState == [area : Area, vector : Vectors]

Message ==
    [type : {"digest"}, from : Node, to : Node, areas : SUBSET AreaState]
    \cup [type : {"vectorReq"}, from : Node, to : Node, area : Area]
    \cup [type : {"vector"}, from : Node, to : Node, area : Area, vector : Vectors]
    \cup [type : {"rangeReq"}, from : Node, to : Node, area : Area, ranges : SUBSET Ranges]
    \cup [type : {"bundle"}, from : Node, to : Node, area : Area, records : SUBSET Coord]

Vector(n, a) == VectorOf(log[n][a])

SaturatingCount(v) == IF Count(v) > CountCap THEN CountCap ELSE Count(v)

----------------------------------------------------------------------------
(* Messages.  A broadcast puts one copy on the air per node that hears it. *)

Digest(n, m) ==
    [type |-> "digest", from |-> n, to |-> m,
     areas |-> {[area |-> a, vector |-> Vector(n, a)] : a \in Carried[n]}]

VectorReq(n, m, a) == [type |-> "vectorReq", from |-> n, to |-> m, area |-> a]

VectorMsg(n, m, a) ==
    [type |-> "vector", from |-> n, to |-> m, area |-> a, vector |-> Vector(n, a)]

RangeReq(n, m, a, ranges) ==
    [type |-> "rangeReq", from |-> n, to |-> m, area |-> a, ranges |-> ranges]

Bundle(n, m, a, records) ==
    [type |-> "bundle", from |-> n, to |-> m, area |-> a, records |-> records]

Others(n) == Node \ {n}

\* The radio takes the consumed messages off the air and puts the heard ones
\* on it.  A message that nobody hears, that the governor refuses or whose
\* send fails is not among the heard.
Transmit(heard, consumed) ==
    /\ net' = (net \ consumed) \cup heard
    /\ Cardinality(net') =< MaxNet

\* A received message leaves the air, or stays to be received again.
Consumed(m) == {{m}, {}}

----------------------------------------------------------------------------
\* meshbbs init authors the node's own NODE record and stores its own key.
\* Other NODE records may have come with an earlier exchange.
Init ==
    /\ log = [n \in Node |-> [a \in Area |-> IF a = Roster THEN Known[n] \X {1} ELSE {}]]
    /\ highWater = [n \in Node |-> [a \in Area |-> IF a = Roster THEN 1 ELSE 0]]
    /\ keys = Known
    /\ session = [n \in Node |-> {}]
    /\ pending = [n \in Node |-> {}]
    /\ heardMatching = [n \in Node |-> FALSE]
    /\ net = {}
    /\ crashes = 0

----------------------------------------------------------------------------
(* Authoring: Service.Post, on a session's own goroutine. *)

\* Post checks the area and its author's capability, then newRecord commits
\* the reservation before the record exists.
NextSeq(n, a) ==
    /\ a \in Writable[n]
    /\ highWater[n][a] < MaxSeq
    /\ highWater' = [highWater EXCEPT ![n][a] = @ + 1]
    /\ session' = [session EXCEPT ![n] = @ \cup
                     {[area |-> a, seq |-> highWater[n][a] + 1, stage |-> "reserved"]}]
    /\ UNCHANGED <<log, keys, pending, heardMatching, net, crashes>>

\* The record is signed and stored; only a federated area is published.
PutRecord(n, p) ==
    /\ p \in session[n] /\ p.stage = "reserved"
    /\ log' = [log EXCEPT ![n][p.area] = @ \cup {<<n, p.seq>>}]
    /\ session' = [session EXCEPT ![n] =
                     IF p.area \in Carried[n]
                     THEN (@ \ {p}) \cup {[p EXCEPT !.stage = "stored"]}
                     ELSE @ \ {p}]
    /\ UNCHANGED <<highWater, keys, pending, heardMatching, net, crashes>>

\* The post fails after its number was reserved: record.New refuses the body,
\* or the insert fails.  The number is burnt.
AbandonPost(n, p) ==
    /\ p \in session[n] /\ p.stage = "reserved"
    /\ session' = [session EXCEPT ![n] = @ \ {p}]
    /\ UNCHANGED <<log, highWater, keys, pending, heardMatching, net, crashes>>

\* Mutant: the record is published before it is stored.
PublishFirst(n, p) ==
    /\ p \in session[n]
    /\ session' = [session EXCEPT ![n] = @ \ {p}]
    /\ \E hearers \in SUBSET Others(n) :
            Transmit({Bundle(n, m, p.area, {<<n, p.seq>>}) : m \in hearers}, {})
    /\ UNCHANGED <<log, highWater, keys, pending, heardMatching, crashes>>

\* Engine.Publish: Apply finds the record held.  A refused or failed send is
\* left to anti-entropy; one that went out counts as an announcement.
Publish(n, p) ==
    /\ p \in session[n] /\ p.stage = "stored"
    /\ session' = [session EXCEPT ![n] = @ \ {p}]
    /\ \/ UNCHANGED <<heardMatching, net>>
       \/ \E hearers \in SUBSET Others(n) :
            /\ Transmit({Bundle(n, m, p.area, {<<n, p.seq>>}) : m \in hearers}, {})
            /\ heardMatching' = [heardMatching EXCEPT ![n] = FALSE]
    /\ UNCHANGED <<log, highWater, keys, pending, crashes>>

\* Mutant: records not yet flushed are lost with the process.
CrashLosingRecords(n) ==
    /\ crashes < MaxCrash
    /\ crashes' = crashes + 1
    /\ log' = [log EXCEPT ![n] = [a \in Area |-> IF a = Roster THEN @[a] ELSE {}]]
    /\ session' = [session EXCEPT ![n] = {}]
    /\ pending' = [pending EXCEPT ![n] = {}]
    /\ heardMatching' = [heardMatching EXCEPT ![n] = FALSE]
    /\ UNCHANGED <<highWater, keys, net>>

\* A crash and restart: the database survives, a new engine starts empty.
Crash(n) ==
    /\ crashes < MaxCrash
    /\ crashes' = crashes + 1
    /\ session' = [session EXCEPT ![n] = {}]
    /\ pending' = [pending EXCEPT ![n] = {}]
    /\ heardMatching' = [heardMatching EXCEPT ![n] = FALSE]
    /\ UNCHANGED <<log, highWater, keys, net>>

----------------------------------------------------------------------------
(* Engine.Tick. *)

\* Of the asks whose window expired, the ones our own state has not answered.
Unanswered(n, due) == {ask \in due : Vector(n, ask.area) # ask.want}

Requests(n, due) == {VectorReq(n, ask.peer, ask.area) : ask \in Unanswered(n, due)}

\* firePending takes every due ask off the queue, answered or sent.  Then the
\* heartbeat: not due or refused, suppressed, or broadcast.
Tick(n) ==
    \E due \in SUBSET pending[n] : \E sent \in SUBSET Requests(n, due) :
       /\ pending' = [pending EXCEPT ![n] = @ \ due]
       /\ \/ /\ Transmit(sent, {})
             /\ UNCHANGED heardMatching
          \/ /\ heardMatching[n]
             /\ Transmit(sent, {})
             /\ heardMatching' = [heardMatching EXCEPT ![n] = FALSE]
          \/ \E hearers \in SUBSET Others(n) :
             /\ ~heardMatching[n]
             /\ Transmit(sent \cup {Digest(n, m) : m \in hearers}, {})
             /\ heardMatching' = [heardMatching EXCEPT ![n] = FALSE]
       /\ UNCHANGED <<log, highWater, keys, session, crashes>>

\* A send of firePending fails: Tick returns with the queue half compacted.
\* The failing ask stays, and an ask handled before it may or may not.
TickFails(n) ==
    \E handled \in SUBSET pending[n] : \E sent \in SUBSET Requests(n, handled) :
       /\ Unanswered(n, pending[n] \ handled) # {}
       /\ \E overwritten \in SUBSET handled :
             pending' = [pending EXCEPT ![n] = @ \ overwritten]
       /\ Transmit(sent, {})
       /\ UNCHANGED <<log, highWater, keys, session, heardMatching, crashes>>

----------------------------------------------------------------------------
(* Engine.Receive. *)

\* The areas of a digest that n does not skip.
Shared(n, m) == {s \in m.areas : s.area \in Carried[n] \/ Vector(n, s.area) # Empty}

\* Mutant: a tie stays quiet.
BehindStrictly(n, s) ==
    SaturatingCount(Vector(n, s.area)) < SaturatingCount(s.vector)

\* The peer that is behind, or not ahead, asks.
Behind(n, s) ==
    /\ Vector(n, s.area) # s.vector
    /\ SaturatingCount(Vector(n, s.area)) =< SaturatingCount(s.vector)

\* scheduleAsk leaves an ask for the same peer and area as it is.
NewAsks(n, m) ==
    {[peer |-> m.from, area |-> s.area, want |-> s.vector] :
       s \in {t \in Shared(n, m) :
                /\ Behind(n, t)
                /\ \A ask \in pending[n] : ~(ask.peer = m.from /\ ask.area = t.area)}}

AgreesEverywhere(n, m) ==
    /\ Shared(n, m) # {}
    /\ \A s \in Shared(n, m) : Vector(n, s.area) = s.vector

ReceiveDigest(n, m) ==
    /\ m.type = "digest"
    /\ pending' = [pending EXCEPT ![n] = @ \cup NewAsks(n, m)]
    /\ heardMatching' = [heardMatching EXCEPT ![n] = @ \/ AgreesEverywhere(n, m)]
    /\ \E gone \in Consumed(m) : Transmit({}, gone)
    /\ UNCHANGED <<log, highWater, keys, session, crashes>>

ReceiveVectorReq(n, m) ==
    /\ m.type = "vectorReq"
    /\ \E gone \in Consumed(m) :
          \/ Transmit({}, gone)
          \/ m.area \in Carried[n] /\ Transmit({VectorMsg(n, m.from, m.area)}, gone)
    /\ UNCHANGED <<log, highWater, keys, session, pending, heardMatching, crashes>>

\* The ranges of a request: the lowest first, and no more than fit.
Asked(missing) ==
    {rs \in SUBSET missing :
        /\ rs # {}
        /\ Cardinality(rs) =< MaxRanges
        /\ \A r \in rs, left \in missing \ rs : r.from =< left.from}

ReceiveVector(n, m) ==
    /\ m.type = "vector"
    /\ \E gone \in Consumed(m) :
          \/ Transmit({}, gone)
          \/ /\ m.area \in Carried[n]
             /\ \E rs \in Asked(Missing(Vector(n, m.area), m.vector)) :
                   Transmit({RangeReq(n, m.from, m.area, rs)}, gone)
    /\ UNCHANGED <<log, highWater, keys, session, pending, heardMatching, crashes>>

\* GossipStore.Records for every range of a request.
Records(n, a, ranges) == {c \in log[n][a] : \E r \in ranges : InRange(c, r)}

\* What fits of an answer: the ranges in the order the request's encoding put
\* them in (by origin; any order here), each in sequence, cut at MaxPush, so
\* that at most one range is served in part.
Served(all, ranges) ==
    {recs \in SUBSET all :
        /\ recs # {}
        /\ Cardinality(recs) = IF Cardinality(all) > MaxPush THEN MaxPush ELSE Cardinality(all)
        /\ \A c \in recs, d \in all \ recs : \A r \in ranges :
              InRange(c, r) /\ InRange(d, r) => c[2] < d[2]
        /\ \A q, r \in ranges :
              (\E c \in recs, d \in all \ recs : InRange(c, q) /\ InRange(d, q))
              /\ (\E c \in recs, d \in all \ recs : InRange(c, r) /\ InRange(d, r))
                 => q = r}

\* The answer is broadcast, and counts as an announcement of our state.
ReceiveRangeReq(n, m) ==
    /\ m.type = "rangeReq"
    /\ \E gone \in Consumed(m) :
          \/ Transmit({}, gone) /\ UNCHANGED heardMatching
          \/ /\ m.area \in Carried[n]
             /\ \E recs \in Served(Records(n, m.area, m.ranges), m.ranges),
                   hearers \in SUBSET Others(n) :
                   Transmit({Bundle(n, h, m.area, recs) : h \in hearers}, gone)
             /\ heardMatching' = [heardMatching EXCEPT ![n] = FALSE]
    /\ UNCHANGED <<log, highWater, keys, session, pending, crashes>>

\* Mutant: a record is stored without the key that verifies it.
AcceptedUnverified(n, a, records) == records

\* GossipStore.Apply: a NODE record certifies itself and brings its origin's
\* key; any other record needs the key first.
Accepted(n, a, records) ==
    IF a = Roster THEN records ELSE {c \in records : c[1] \in keys[n]}

ReceiveBundle(n, m) ==
    /\ m.type = "bundle"
    /\ log' = [log EXCEPT ![n][m.area] = @ \cup Accepted(n, m.area, m.records)]
    /\ keys' = [keys EXCEPT ![n] =
                  IF m.area = Roster THEN @ \cup {c[1] : c \in m.records} ELSE @]
    /\ \E gone \in Consumed(m) : Transmit({}, gone)
    /\ UNCHANGED <<highWater, session, pending, heardMatching, crashes>>

Receive(n) ==
    \E m \in net :
       /\ m.to = n
       /\ \/ ReceiveDigest(n, m)
          \/ ReceiveVectorReq(n, m)
          \/ ReceiveVector(n, m)
          \/ ReceiveRangeReq(n, m)
          \/ ReceiveBundle(n, m)

----------------------------------------------------------------------------
Next ==
    \E n \in Node :
       \/ \E a \in Area : NextSeq(n, a)
       \/ \E p \in session[n] : PutRecord(n, p) \/ AbandonPost(n, p) \/ Publish(n, p)
       \/ Crash(n)
       \/ Tick(n)
       \/ TickFails(n)
       \/ Receive(n)

Spec == Init /\ [][Next]_vars

----------------------------------------------------------------------------
(* Fairness.  The radio loses what it likes for as long as it likes, but    *)
(* not for ever: from some point on every step is one of the following, in *)
(* which what is sent is heard, a message is handled once and answered,    *)
(* no send fails and nobody crashes.  serve's run loop ticks for ever and  *)
(* drains the link, and a digest that keeps coming due keeps being sent.   *)

PostFinishes(n) == \E p \in session[n] : PutRecord(n, p) \/ Publish(n, p)

\* The requests of the asks that leave the queue are heard.
HeardTick(n) == Tick(n) /\ Requests(n, pending[n] \ pending'[n]) \subseteq net'

AskSent(n, a) == HeardTick(n) /\ \E ask \in pending[n] \ pending'[n] : ask.area = a

DigestSent(n) ==
    /\ HeardTick(n)
    /\ ~heardMatching[n]
    /\ {Digest(n, m) : m \in Others(n)} \subseteq net'

DigestSuppressed(n) ==
    /\ HeardTick(n)
    /\ heardMatching[n] /\ ~heardMatching'[n]

\* A message is handled once, and an answer it calls for is heard.
Handled(n) ==
    /\ Receive(n)
    /\ \E m \in net \ net' :
          /\ m.to = n
          /\ m.type = "vectorReq" /\ m.area \in Carried[n] =>
                VectorMsg(n, m.from, m.area) \in net'
          /\ m.type = "vector" /\ m.area \in Carried[n]
                /\ Missing(Vector(n, m.area), m.vector) # {} =>
                   \E q \in net' : q.type = "rangeReq" /\ q.from = n /\ q.to = m.from
          /\ m.type = "rangeReq" /\ m.area \in Carried[n] =>
                \E q \in net' : q.type = "bundle" /\ q.from = n /\ q.to = m.from

Reliable ==
    \E n \in Node :
       \/ PostFinishes(n) \/ DigestSent(n) \/ DigestSuppressed(n) \/ Handled(n)
       \/ \E a \in Area : NextSeq(n, a) \/ AskSent(n, a)

FairSpec ==
    /\ Spec
    /\ <>[][Reliable]_vars
    /\ \A n \in Node :
          /\ WF_vars(PostFinishes(n))
          /\ WF_vars(Handled(n))
          /\ WF_vars(DigestSuppressed(n))
          /\ SF_vars(DigestSent(n))
          /\ \A a \in Area : SF_vars(AskSent(n, a))

----------------------------------------------------------------------------
(* Properties. *)

\* Every variable has the shape the engine and the store give it.
TypeOK ==
    /\ log \in [Node -> [Area -> SUBSET Coord]]
    /\ highWater \in [Node -> [Area -> 0 .. MaxSeq]]
    /\ keys \in [Node -> SUBSET Node]
    /\ session \in [Node -> SUBSET Session]
    /\ pending \in [Node -> SUBSET Ask]
    /\ heardMatching \in [Node -> BOOLEAN]
    /\ net \in SUBSET Message
    /\ crashes \in 0 .. MaxCrash

\* What a message or an ask in flight says about the log of node n in area a
\* is true: the log holds every record a vector covers or a bundle carries.
\* A vector that claimed more would make a gap permanent and silent.
Honest(m) ==
    /\ m.type = "digest" =>
         \A s \in m.areas : Covers(s.vector) \subseteq log[m.from][s.area]
    /\ m.type = "vector" => Covers(m.vector) \subseteq log[m.from][m.area]
    /\ m.type = "bundle" => m.records \subseteq log[m.from][m.area]

\* No claim about a node's log outruns that log (GossipStore.Vector, Digest,
\* onVectorReq, onRangeReq), however long the message is delayed or repeated
\* and however often the sender restarts.
ClaimsAreHeld ==
    /\ \A m \in net : Honest(m)
    /\ \A n \in Node : \A ask \in pending[n] : Covers(ask.want) \subseteq log[ask.peer][ask.area]

\* A range request only asks a peer for records that peer holds, so every
\* request that arrives can be answered in full (onVector, onRangeReq).
RequestsAreAnswerable ==
    \A m \in net : m.type = "rangeReq" =>
       \A r \in m.ranges : \A s \in r.from .. r.to : <<r.origin, s>> \in log[m.to][m.area]

\* Every record held anywhere is still in its author's own log: what the
\* mesh knows of a node, a restart of that node does not take back.
AuthorHolds ==
    \A n \in Node, a \in Area : \A c \in log[n][a] : c \in log[c[1]][a]

\* A record of an ordinary area is only held with the key that verified it,
\* and a key is only held with the NODE record it came in (Apply, keyFor).
KeyBeforeRecord ==
    \A n \in Node :
       /\ \A a \in Area \ {Roster} : \A c \in log[n][a] : c[1] \in keys[n]
       /\ \A o \in keys[n] : <<o, 1>> \in log[n][Roster]

\* A sequence number NextSeq hands out is fresh: no log, session or message
\* anywhere knows it.  Reuse would be divergence nobody can repair.
FreshSeq ==
    [][\A n \in Node, a \in Area :
          \A p \in session'[n] \ session[n] :
             p.area = a /\ p.stage = "reserved" =>
                /\ \A m \in Node : <<n, p.seq>> \notin log[m][a]
                /\ \A q \in session[n] : ~(q.area = a /\ q.seq = p.seq)
                /\ \A m \in net : m.type = "bundle" /\ m.area = a => <<n, p.seq>> \notin m.records]_vars

\* A node's vectors never go backwards, whatever is delivered twice, late or
\* never, and across restarts (vv.Set, PutRecord).
VectorsNeverRegress ==
    [][\A n \in Node, a \in Area : Dominates(Vector(n, a)', Vector(n, a))]_vars

\* The engine implements the abstract replicated log: no message, however
\* late, repeated or reordered, makes a record that its author did not create.
RL == INSTANCE ReplicatedLog WITH
        held <- log, reserved <- highWater,
        InitHeld <- [n \in Node |-> [a \in Area |-> IF a = Roster THEN Known[n] \X {1} ELSE {}]],
        InitReserved <- [n \in Node |-> [a \in Area |-> IF a = Roster THEN 1 ELSE 0]]

ImplementsReplicatedLog == RL!Spec

\* Anti-entropy repairs every loss: once the radio behaves, nodes that carry
\* an area come to agree on its vector and stay in agreement, restarts, burnt
\* numbers, refused sends and failed ticks notwithstanding.
Converges ==
    <>[](\A n, m \in Node : \A a \in Carried[n] \cap Carried[m] : Vector(n, a) = Vector(m, a))

\* Agreement is silent: once nothing differs the queue of asks runs empty
\* and stays empty (onDigest, firePending).
AsksDrain == <>[](\A n \in Node : pending[n] = {})

\* Every disturbance settles: the nodes agree, and then they are silent.
Settles == Converges /\ AsksDrain

----------------------------------------------------------------------------
(* What the repository says and the code does not do. *)

\* "Burning a sequence number on a crash is free" (store/seq.go:67): every
\* record a node has stored in a shared area still reaches its peers.
BurntNumbersAreFree ==
    <>[](\A n, m \in Node : \A a \in Carried[n] \cap Carried[m] : log[n][a] = log[m][a])

=============================================================================
