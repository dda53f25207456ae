----------------------------- MODULE Heartbeat -----------------------------
(***************************************************************************)
(* When a board speaks, and in which dictionary: the digest schedule with  *)
(* its suppression (gossip/schedule.go), what an engine knows of its peers *)
(* (gossip/engine.go), the loss estimate it draws from their digests, and  *)
(* the compression dictionary the federation loop chooses for the outbox.  *)
(*                                                                         *)
(* Module Gossip has the messages one by one; here a digest is heard when  *)
(* it is sent, an exchange of vectors is one step, and a bundle is heard   *)
(* whole or not at all.  A station writes at most one record on a topic,   *)
(* so the records of a topic are the set of their authors, two vectors     *)
(* hash alike when the sets are equal, and a count is a cardinality.       *)
(***************************************************************************)
EXTENDS Integers, FiniteSets
LOCAL INSTANCE FiniteSetsExt

CONSTANTS Station,
          Topic,
          Carries,       \* [Station -> SUBSET Topic]: what each federates
          Writers,       \* stations that write
          Dict,          \* [Station -> highest dictionary it holds]
          Timeout,       \* PeerTimeout
          BaseInterval, PeerDivisor, DigestCost, LongestInterval,   \* ScheduleConfig
          Jitter,
          MaxLoss        \* the loss estimate's ceiling, in steps

ASSUME HeartbeatAssumption ==
    /\ Carries \in [Station -> (SUBSET Topic) \ {{}}]
    /\ Writers \subseteq Station
    /\ Dict \in [Station -> Nat]
    /\ {Timeout, BaseInterval, DigestCost, LongestInterval, Jitter, MaxLoss} \subseteq Nat
    /\ PeerDivisor \in Nat \ {0}

VARIABLES
    has,       \* [Station -> [Topic -> SUBSET Station]]: the log
    beat,      \* [Station -> [due, matching]]: Scheduler.due and heardMatching
    told,      \* [Station -> what it heard the matching peers say] (history)
    known,     \* [Station -> [Station -> peer]]: Engine.peers
    wants,     \* [Station -> SUBSET [peer, topic, state]]: Engine.pending
    asked,     \* range requests on their way: [by, of, topic, recs]
    level,     \* [Station -> dictionary of the outbox]
    decoded,   \* [Station -> bundle IDs]: Inbox.done
    loss       \* [Station -> Engine.lossEstimate]

beatVars == <<has, beat, told, known, wants, asked, level, decoded, loss>>

Unknown == -1

\* A peer that was never heard, and one heard but for a digest.
Unheard == [age |-> Timeout, dict |-> Unknown,
            digest |-> [t \in Topic |-> Unknown], awaiting |-> [t \in Topic |-> 0]]

Count(n, t) == Cardinality(has[n][t])

\* PeerCount: the peers heard lately, and this station.
PeerCount(n) == 1 + Cardinality({p \in Station : known[n][p].age < Timeout})

\* ScheduleConfig.Interval: the larger of the heuristic and the airtime clamp,
\* under the cap.
Interval(peers) ==
    LET scaled == Max({BaseInterval, (BaseInterval * peers) \div PeerDivisor})
    IN  Min({LongestInterval, Max({scaled, peers * DigestCost})})

\* reschedule, with its jitter.
Rescheduled(n) ==
    {Max({1, Interval(PeerCount(n)) + j}) : j \in -Jitter .. Jitter}

BeatInit ==
    /\ has = [n \in Station |-> [t \in Topic |-> {}]]
    /\ beat = [n \in Station |-> [due |-> Interval(1), matching |-> FALSE]]
    /\ told = [n \in Station |-> {}]
    /\ known = [n \in Station |-> [p \in Station |-> Unheard]]
    /\ wants = [n \in Station |-> {}]
    /\ asked = {}
    /\ level = Dict
    /\ decoded = [n \in Station |-> {}]
    /\ loss = [n \in Station |-> 0]

----------------------------------------------------------------------------
(* Time, and what the federation loop does at each tick. *)

Passes ==
    /\ beat' = [n \in Station |-> [beat[n] EXCEPT !.due = Max({0, @ - 1})]]
    /\ known' = [n \in Station |-> [p \in Station |->
                   [known[n][p] EXCEPT !.age = Min({Timeout, @ + 1})]]]
    /\ UNCHANGED <<has, told, wants, asked, level, decoded, loss>>

\* DictionaryFloor: of the peers that said what they hold and are still heard.
DictionaryFloor(n) ==
    Min({Dict[n]} \cup {known[n][p].dict : p \in {q \in Station : known[n][q].age < Timeout
                                                                  /\ known[n][q].dict # Unknown}})

RefreshDictionary(n) ==
    /\ level[n] # DictionaryFloor(n)
    /\ level' = [level EXCEPT ![n] = DictionaryFloor(n)]
    /\ UNCHANGED <<has, beat, told, known, wants, asked, decoded, loss>>

----------------------------------------------------------------------------
(* Digests. *)

Shared(m, n) == Carries[m] \cap Carries[n]

\* What onDigest leaves in the sender's entry: the digest settles what was
\* awaited of each topic it names.
AfterDigest(peer, n) ==
    [age |-> 0, dict |-> Dict[n],
     digest |-> [t \in Topic |-> IF t \in Carries[n] THEN Count(n, t) ELSE peer.digest[t]],
     awaiting |-> [t \in Topic |-> IF t \in Carries[n] THEN 0 ELSE peer.awaiting[t]]]

\* settleAwaited and noteDelivery, topic by topic.
Estimate(m, n) ==
    FoldSet(LAMBDA t, l : IF known[m][n].awaiting[t] = 0 THEN l
                          ELSE IF Count(n, t) >= known[m][n].awaiting[t] THEN Max({0, l - 1})
                          ELSE Min({MaxLoss, l + 1}),
            loss[m], Carries[n])

\* The one behind asks, and on a tie both may; one ask for a peer and topic.
NewAsks(m, n) ==
    {[peer |-> n, topic |-> t, state |-> has[n][t]] :
        t \in {u \in Shared(m, n) : /\ has[m][u] # has[n][u]
                                    /\ Count(m, u) =< Count(n, u)
                                    /\ \A a \in wants[m] : ~(a.peer = n /\ a.topic = u)}}

\* The argument of NoteHeard.
Agrees(m, n) == Shared(m, n) # {} /\ \A t \in Shared(m, n) : has[m][t] = has[n][t]

Says(n) == {[topic |-> t, state |-> has[n][t]] : t \in Carries[n]}

\* Tick with the beat due: the digest goes out and the stations of hear get
\* it.  When the governor refuses, nothing happens.
Announce(n, hear) ==
    /\ beat[n].due = 0 /\ ~beat[n].matching
    /\ \E due \in Rescheduled(n) :
          beat' = [m \in Station |->
                     IF m = n THEN [due |-> due, matching |-> FALSE]
                     ELSE IF m \in hear /\ Agrees(m, n) THEN [beat[m] EXCEPT !.matching = TRUE]
                     ELSE beat[m]]
    /\ told' = [m \in Station |->
                  IF m = n THEN {} ELSE IF m \in hear /\ Agrees(m, n) THEN told[m] \cup Says(n) ELSE told[m]]
    /\ known' = [m \in Station |->
                   IF m \in hear THEN [known[m] EXCEPT ![n] = AfterDigest(@, n)] ELSE known[m]]
    /\ loss' = [m \in Station |-> IF m \in hear THEN Estimate(m, n) ELSE loss[m]]
    /\ wants' = [m \in Station |-> IF m \in hear THEN wants[m] \cup NewAsks(m, n) ELSE wants[m]]
    /\ UNCHANGED <<has, asked, level, decoded>>

\* Due with the flag up: the beat is skipped and the flag spent.
Suppress(n) ==
    /\ beat[n].due = 0 /\ beat[n].matching
    /\ \E due \in Rescheduled(n) : beat' = [beat EXCEPT ![n] = [due |-> due, matching |-> FALSE]]
    /\ told' = [told EXCEPT ![n] = {}]
    /\ UNCHANGED <<has, known, wants, asked, level, decoded, loss>>

----------------------------------------------------------------------------
(* Bundles. *)

\* Mutant: the ID is drawn from the records, not from the packed bytes.
BundleIDOfRecords(n, t, recs) == [from |-> n, topic |-> t, recs |-> recs, dict |-> 0]

\* bundleIDFor, with the decoder's key: the packed bytes differ when the
\* dictionary does.
BundleID(n, t, recs) == [from |-> n, topic |-> t, recs |-> recs, dict |-> level[n]]

\* The bundles a station was done with, of which the old ones may be gone.
StillDone(m, id) == IF id \in decoded[m] THEN {decoded[m]} ELSE {decoded[m], {}}

\* noteAwaited: every peer whose count is known ought to gain.
Awaiting(n, t, added) ==
    [p \in Station |-> IF known[n][p].digest[t] = Unknown THEN known[n][p]
                       ELSE [known[n][p] EXCEPT !.awaiting[t] = known[n][p].digest[t] + added]]

\* SendRecords, ApplyRecords at the stations that hear it and can read it,
\* and NotePiggybacked.
Push(n, t, recs, hear) ==
    LET id == BundleID(n, t, recs)
        reads == {m \in hear : id \notin decoded[m] /\ level[n] =< Dict[m] /\ t \in Carries[m]}
    IN  /\ has' = [m \in Station |->
                     IF m = n \/ m \in reads THEN [has[m] EXCEPT ![t] = @ \cup recs] ELSE has[m]]
        /\ \E done \in [hear -> UNION {StillDone(m, id) : m \in hear}] :
              /\ \A m \in hear : done[m] \in StillDone(m, id)
              /\ decoded' = [m \in Station |-> IF m \in hear THEN done[m] \cup {id} ELSE decoded[m]]
        /\ known' = [known EXCEPT ![n] = Awaiting(n, t, Cardinality(recs))]
        /\ \E due \in Rescheduled(n) : beat' = [beat EXCEPT ![n] = [due |-> due, matching |-> FALSE]]
        /\ told' = [told EXCEPT ![n] = {}]
        /\ UNCHANGED <<wants, level, loss>>

\* Engine.Publish; when the governor refuses, the record is only stored.
Publish(n, t, hear) ==
    /\ n \in Writers /\ t \in Carries[n] /\ n \notin has[n][t]
    /\ Push(n, t, {n}, hear)
    /\ UNCHANGED asked

PublishUnsent(n, t) ==
    /\ n \in Writers /\ t \in Carries[n] /\ n \notin has[n][t]
    /\ has' = [has EXCEPT ![n][t] = @ \cup {n}]
    /\ UNCHANGED <<beat, told, known, wants, asked, level, decoded, loss>>

\* firePending: an ask that was answered meanwhile is dropped, another starts
\* the exchange of vectors, of which each message says that its sender lives.
DropAsk(m, a) ==
    /\ a \in wants[m] /\ has[m][a.topic] = a.state
    /\ wants' = [wants EXCEPT ![m] = @ \ {a}]
    /\ UNCHANGED <<has, beat, told, known, asked, level, decoded, loss>>

Ask(m, a) ==
    /\ a \in wants[m] /\ has[m][a.topic] # a.state
    /\ wants' = [wants EXCEPT ![m] = @ \ {a}]
    /\ known' = [known EXCEPT ![m][a.peer].age = 0, ![a.peer][m].age = 0]
    /\ asked' = IF has[a.peer][a.topic] \subseteq has[m][a.topic] THEN asked
                ELSE asked \cup {[by |-> m, of |-> a.peer, topic |-> a.topic,
                                  recs |-> has[a.peer][a.topic] \ has[m][a.topic]]}
    /\ UNCHANGED <<has, beat, told, level, decoded, loss>>

\* A message of the exchange is lost.
AskLost(m, a) ==
    /\ a \in wants[m] /\ has[m][a.topic] # a.state
    /\ wants' = [wants EXCEPT ![m] = @ \ {a}]
    /\ UNCHANGED <<has, beat, told, known, asked, level, decoded, loss>>

\* onRangeReq, broadcast.
Answer(r, hear) ==
    /\ r \in asked
    /\ asked' = asked \ {r}
    /\ Push(r.of, r.topic, r.recs, hear)

\* The request was lost, or the governor refused.
Unanswered(r) ==
    /\ r \in asked
    /\ asked' = asked \ {r}
    /\ UNCHANGED <<has, beat, told, known, wants, level, decoded, loss>>

BeatNext ==
    \/ Passes
    \/ \E n \in Station :
          \/ RefreshDictionary(n) \/ Suppress(n)
          \/ \E hear \in SUBSET (Station \ {n}) :
                \/ Announce(n, hear)
                \/ \E t \in Topic : Publish(n, t, hear)
          \/ \E t \in Topic : PublishUnsent(n, t)
          \/ \E a \in wants[n] : DropAsk(n, a) \/ Ask(n, a) \/ AskLost(n, a)
    \/ \E r \in asked :
          \/ Unanswered(r)
          \/ \E hear \in SUBSET (Station \ {r.of}) : Answer(r, hear)

----------------------------------------------------------------------------
(* Properties. *)

\* Boards that carry the same topics come to hold the same records, however
\* their beats are suppressed and whichever dictionaries they hold: a
\* difference is spoken of (Scheduler.Due), and what a board could not read
\* comes again in a dictionary it has (DictionaryFloor, bundleIDFor).
CatchesUp ==
    <>[](\A m, n \in Station : \A t \in Shared(m, n) : has[m][t] = has[n][t])

\* A beat is skipped only when everything this board's digest would say was
\* said by others since it last spoke (Scheduler.NoteHeard, Due).
SkipsOnlyTheSaid ==
    [][\A n \in Station : Suppress(n) => Says(n) \subseteq told[n]]_beatVars

\* The loss estimate rises only while some peer lacks a record this board
\* sent (noteAwaited, settleAwaited).
ClimbsOnlyOnLoss ==
    [][\A n \in Station : loss'[n] > loss[n]
          => \E p \in Station : \E t \in Shared(n, p) : ~(has[n][t] \subseteq has[p][t])]_beatVars

============================================================================
