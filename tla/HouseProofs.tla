---------------------------- MODULE HouseProofs ----------------------------
(***************************************************************************)
(* Proofs about what a caller meets, for every number of calls, talkers,   *)
(* borrows and keys.  Each part has an inductive invariant of its own, and *)
(* a step of one part leaves the others alone.                             *)
(***************************************************************************)
EXTENDS MCHouse, FiniteSetTheorems, TLAPS

----------------------------------------------------------------------------
(* The line a door borrows. *)

\* The slot holds the next key or none; the pump reads only into an empty slot;
\* one port at a time is past the write lock, and what it was cleared to write
\* is stale only while nobody has drawn over it.
MuxInv ==
    /\ active \in Ports /\ borrows \in 0 .. MaxBorrows /\ shut \in BOOLEAN
    /\ pump \in {"slot", "read", "got", "done"}
    /\ typed \in Nat /\ got \in Nat /\ taken \in Seq(Nat)
    /\ pend = <<>> \/ pend = <<Len(taken) + 1>>
    /\ pump \in {"read", "got"} => pend = <<>>
    /\ pump # "got" => got = 0
    /\ got # 0 => got = typed
    /\ TypedOnce
    /\ writer \in [Ports -> {"idle", "locked", "cleared"}]
    /\ \A p, q \in Ports : writer[p] # "idle" /\ writer[q] # "idle" => p = q
    /\ \A p \in Ports : writer[p] = "cleared" /\ active # p => ~drawn
    /\ drawn \in BOOLEAN /\ spliced = FALSE

\* The line starts with the interface, and nothing typed.
LEMMA MuxStarts == MuxInit => MuxInv
BY MuxAssumption DEF MuxInit, MuxInv, TypedOnce, Ports

\* Every step of the line keeps its invariant.
LEMMA MuxSteps == MuxInv /\ [MuxNext]_muxVars => MuxInv'
<1> SUFFICES ASSUME MuxInv, [MuxNext]_muxVars PROVE MuxInv'
  OBVIOUS
<1> USE MuxAssumption DEF MuxInv, inVars, outVars
<1>1. CASE Activate
  <2>1. active' \in Ports /\ borrows' \in 0 .. MaxBorrows /\ drawn' = FALSE
    BY <1>1 DEF Activate, Ports
  <2>2. TypedOnce'
    BY <1>1 DEF Activate, TypedOnce
  <2>3. QED
    BY <1>1, <2>1, <2>2 DEF Activate
<1>2. CASE Restore
  <2>1. active' \in Ports /\ borrows' \in 0 .. MaxBorrows /\ drawn' = FALSE
    BY <1>2 DEF Restore, Ports
  <2>2. TypedOnce'
    BY <1>2 DEF Restore, TypedOnce
  <2>3. QED
    BY <1>2, <2>1, <2>2 DEF Restore
<1>3. CASE CloseMux
  BY <1>3 DEF CloseMux, TypedOnce
<1>4. CASE PumpWaits
  BY <1>4 DEF PumpWaits, SlotFree, TypedOnce
<1>5. CASE PumpDelivers
  BY <1>5 DEF PumpDelivers, TypedOnce
<1>6. ASSUME NEW eof \in BOOLEAN, PumpReads(eof) PROVE MuxInv'
  BY <1>6 DEF PumpReads, TypedOnce
<1>7. ASSUME NEW p \in Ports, ReadPort(p) PROVE MuxInv'
  <2>1. pend = <<Len(taken) + 1>> /\ taken' = Append(taken, Len(taken) + 1) /\ pend' = <<>>
    BY <1>7 DEF ReadPort
  <2>2. /\ taken' \in Seq(Nat) /\ Len(taken') = Len(taken) + 1
        /\ \A i \in DOMAIN taken' : taken'[i] = i
    BY <2>1 DEF TypedOnce
  <2>3. QED
    BY <1>7, <2>1, <2>2 DEF ReadPort, TypedOnce
<1>8. ASSUME NEW p \in Ports, ReadEnds(p) PROVE MuxInv'
  BY <1>8 DEF ReadEnds, TypedOnce
<1>9. ASSUME NEW p \in Ports, WriteLocks(p) PROVE MuxInv'
  BY <1>9 DEF WriteLocks, Lockable, TypedOnce
<1>10. ASSUME NEW p \in Ports, WriteChecks(p) PROVE MuxInv'
  BY <1>10 DEF WriteChecks, TypedOnce
<1>11. ASSUME NEW p \in Ports, WriteLands(p) PROVE MuxInv'
  BY <1>11 DEF WriteLands, TypedOnce
<1>12. CASE UNCHANGED muxVars
  BY <1>12 DEF muxVars, TypedOnce
<1>13. QED
  BY <1>1, <1>2, <1>3, <1>4, <1>5, <1>6, <1>7, <1>8, <1>9, <1>10, <1>11, <1>12 DEF MuxNext

\* The invariant is what the line promises, and more.
LEMMA MuxGoal == MuxInv => LineIsSound
BY DEF MuxInv, LineIsSound, NoStaleFrame

----------------------------------------------------------------------------
(* Chat. *)

\* Nobody waits on another's channel, who is at the chat screen is not gone, and no
\* wake-up is lost.
ChatInv ==
    /\ watchers \in [Watcher -> Channel \cup {0}]
    /\ pollers \in [Talker -> SUBSET Channel]
    /\ \A s, t \in Talker : s # t => pollers[s] \cap pollers[t] = {}
    /\ updates \in [Talker -> Nat] /\ since \in [Talker -> Nat]
    /\ said \in Nat
    /\ inChat \subseteq Talker /\ inChat \cap gone = {}
    /\ WakesForNews

\* What WakesForNews says of one session.
Woken(s) ==
    \/ UpdateComing(s)
    \/ LET c == watchers[TalkerId[s]]
       IN  c \in pollers[s] /\ (said > since[s] => c \in full \cup ringing)

\* Nobody is at the chat screen at the start.
LEMMA ChatStarts == ChatInit => ChatInv
BY ChatAssumption DEF ChatInit, ChatInv, WakesForNews

\* A step that leaves every other session's updates, goroutines and, unless it shares
\* its ID, its channel alone, keeps the signals in channels somebody else waits on and
\* signals every other channel for a new line, and wakes the session it moves or takes
\* it from the screen, loses no wake-up.
LEMMA OneTalkerMoves ==
    ASSUME ChatInv, NEW s \in Talker,
           inChat' \subseteq inChat \cup {s},
           \A t \in Talker \ {s} :
              /\ pollers'[t] = pollers[t] /\ updates'[t] = updates[t] /\ since'[t] = since[t]
              /\ TalkerId[t] # TalkerId[s] => watchers'[TalkerId[t]] = watchers[TalkerId[t]]
              /\ \A c \in pollers[t] : c \in full \cup ringing => c \in full' \cup ringing',
           \/ said' = said
           \/ \A t \in Talker : /\ TalkerId[t] # TalkerId[s]
                                /\ watchers[TalkerId[t]] # 0
                                => watchers[TalkerId[t]] \in ringing',
           s \in inChat' /\ TalksAlone(s) => Woken(s)'
    PROVE  WakesForNews'
<1>1. SUFFICES ASSUME NEW t \in inChat', TalksAlone(t), t # s PROVE Woken(t)'
  BY DEF WakesForNews, Woken, TalksAlone
<1>2. t \in Talker /\ t \in inChat /\ TalkerId[t] # TalkerId[s]
  BY <1>1 DEF TalksAlone, ChatInv
<1>3. Woken(t)
  BY <1>1, <1>2 DEF ChatInv, WakesForNews, Woken
<1>4. CASE UpdateComing(t)
  BY <1>1, <1>2, <1>4 DEF Woken, UpdateComing
<1> DEFINE c == watchers[TalkerId[t]]
<1>5. CASE c \in pollers[t] /\ (said > since[t] => c \in full \cup ringing)
  <2>1. watchers'[TalkerId[t]] = c /\ c \in pollers'[t] /\ since'[t] = since[t]
    BY <1>1, <1>2, <1>5
  <2>2. c # 0
    BY <1>2, <1>5, ChatAssumption DEF ChatInv
  <2>3. said' > since[t] => c \in full' \cup ringing'
    BY <1>1, <1>2, <1>5, <2>2
  <2>4. QED
    BY <2>1, <2>3 DEF Woken
<1>6. QED
  BY <1>3, <1>4, <1>5 DEF Woken

\* A channel newly registered is nobody's, and the session that registered it has
\* heard of every line so far.
LEMMA WatchingWakes ==
    ASSUME ChatInv, NEW s \in Talker, NEW c, Watches(s, c), said' \in Nat
    PROVE  /\ watchers' \in [Watcher -> Channel \cup {0}]
           /\ pollers' \in [Talker -> SUBSET Channel]
           /\ \A t, u \in Talker : t # u => pollers'[t] \cap pollers'[u] = {}
           /\ since' \in [Talker -> Nat]
           /\ \A t \in Talker \ {s} :
                 /\ pollers'[t] = pollers[t] /\ since'[t] = since[t]
                 /\ TalkerId[t] # TalkerId[s] => watchers'[TalkerId[t]] = watchers[TalkerId[t]]
                 /\ \A d \in pollers[t] : d \in full => d \in full'
           /\ Woken(s)'
<1>1. c \in Channel /\ \A t \in Talker : c \notin pollers[t]
  BY DEF Watches, InUse
<1>2. TalkerId[s] \in Watcher /\ \A t \in Talker : TalkerId[t] \in Watcher
  BY DEF Watcher
<1>3. /\ watchers' = [watchers EXCEPT ![TalkerId[s]] = c]
      /\ since' = [since EXCEPT ![s] = said']
      /\ full' = full \cap UNION {pollers[t] : t \in Talker}
      /\ pollers' = [pollers EXCEPT ![s] = (@ \cap (full \cup ringing)) \cup {c}]
  BY DEF Watches
<1>4. pollers'[s] \subseteq pollers[s] \cup {c} /\ c \in pollers'[s] /\ pollers'[s] \subseteq Channel
  BY <1>1, <1>3 DEF ChatInv
<1>5. \A t \in Talker \ {s} : pollers'[t] = pollers[t] /\ since'[t] = since[t]
  BY <1>3 DEF ChatInv
<1>6. /\ watchers' \in [Watcher -> Channel \cup {0}] /\ since' \in [Talker -> Nat]
      /\ pollers' \in [Talker -> SUBSET Channel]
  BY <1>1, <1>2, <1>3, <1>4 DEF ChatInv
<1>7. \A t, u \in Talker : t # u => pollers'[t] \cap pollers'[u] = {}
  BY <1>1, <1>4, <1>5 DEF ChatInv
<1>8. watchers'[TalkerId[s]] = c /\ since'[s] = said'
  BY <1>2, <1>3 DEF ChatInv
<1>9. Woken(s)'
  BY <1>4, <1>8 DEF Woken
<1>10. \A t \in Talker \ {s} :
          /\ TalkerId[t] # TalkerId[s] => watchers'[TalkerId[t]] = watchers[TalkerId[t]]
          /\ \A d \in pollers[t] : d \in full => d \in full'
  BY <1>2, <1>3 DEF ChatInv
<1>11. QED
  BY <1>5, <1>6, <1>7, <1>9, <1>10

\* Every step of the chat keeps its invariant.
LEMMA ChatSteps == ChatInv /\ [ChatNext]_chatVars => ChatInv'
<1> SUFFICES ASSUME ChatInv, [ChatNext]_chatVars PROVE ChatInv'
  OBVIOUS
<1> USE DEF room, ui
<1>1. \A t \in Talker : TalkerId[t] \in Watcher
  BY DEF Watcher
<1>2. ASSUME NEW c \in Channel, Rings(c) PROVE ChatInv'
  BY <1>2 DEF Rings, ChatInv, WakesForNews, TalksAlone, UpdateComing, Watcher
<1>3. ASSUME NEW s \in Talker, NEW c \in Channel, EnterChat(s, c) PROVE ChatInv'
  <2>1. /\ said' = said + 1 /\ ringing' = ringing \cup ({watchers[i] : i \in Watcher} \ {0})
        /\ Watches(s, c) /\ updates' = [updates EXCEPT ![s] = @ + 1] /\ gone' = gone
        /\ inChat' = inChat \cup {s} /\ s \notin gone
    BY <1>3 DEF EnterChat, Says
  <2>2. said' \in Nat
    BY <2>1 DEF ChatInv
  <2>3. WakesForNews'
    BY <1>1, <2>1, <2>2, WatchingWakes, OneTalkerMoves DEF ChatInv
  <2>4. /\ watchers' \in [Watcher -> Channel \cup {0}] /\ pollers' \in [Talker -> SUBSET Channel]
        /\ \A t, u \in Talker : t # u => pollers'[t] \cap pollers'[u] = {}
        /\ since' \in [Talker -> Nat]
    BY <2>1, <2>2, WatchingWakes
  <2>5. updates' \in [Talker -> Nat] /\ inChat' \subseteq Talker /\ inChat' \cap gone' = {}
    BY <2>1 DEF ChatInv
  <2>6. QED
    BY <2>2, <2>3, <2>4, <2>5 DEF ChatInv, Watcher
<1>4. ASSUME NEW s \in Talker, NEW c \in Channel, PollWakes(s, c) PROVE ChatInv'
  <2>1. /\ pollers' = [pollers EXCEPT ![s] = @ \ {c}] /\ full' = full \ {c} /\ c \in pollers[s]
        /\ updates' = [updates EXCEPT ![s] = @ + 1]
        /\ UNCHANGED <<said, watchers, ringing, inChat, gone, talking, since>>
    BY <1>4 DEF PollWakes
  <2>2. Woken(s)'
    BY <2>1 DEF Woken, UpdateComing, ChatInv
  <2>3. \A t \in Talker \ {s} : c \notin pollers[t]
    BY <2>1 DEF ChatInv
  <2>4. WakesForNews'
    BY <2>1, <2>2, <2>3, OneTalkerMoves DEF ChatInv
  <2>5. QED
    BY <2>1, <2>4 DEF ChatInv, Watcher
<1>5. ASSUME NEW s \in Talker, NEW c \in Channel \cup {0}, ChatUpdated(s, c) PROVE ChatInv'
  <2>1. /\ updates' = [updates EXCEPT ![s] = @ - 1] /\ updates[s] > 0
        /\ UNCHANGED <<said, ringing, inChat, gone, talking>>
    BY <1>5 DEF ChatUpdated
  <2>2. updates' \in [Talker -> Nat] /\ \A t \in Talker \ {s} : updates'[t] = updates[t]
    BY <2>1 DEF ChatInv
  <2>3. CASE s \in inChat
    <3>1. Watches(s, c) /\ said' \in Nat
      BY <1>5, <2>1, <2>3 DEF ChatUpdated, PollAgain, ChatInv
    <3>2. WakesForNews'
      BY <2>1, <2>2, <3>1, WatchingWakes, OneTalkerMoves
    <3>3. QED
      BY <2>1, <2>2, <3>1, <3>2, WatchingWakes DEF ChatInv, Watcher
  <2>4. CASE s \notin inChat
    <3>1. UNCHANGED <<watchers, full, pollers, since>>
      BY <1>5, <2>4 DEF ChatUpdated
    <3>2. WakesForNews'
      BY <2>1, <2>2, <2>4, <3>1, OneTalkerMoves
    <3>3. QED
      BY <2>1, <2>2, <3>1, <3>2 DEF ChatInv, Watcher
  <2>5. QED
    BY <2>3, <2>4
<1>6. ASSUME NEW s \in Talker, TypesLine(s) PROVE ChatInv'
  BY <1>6 DEF TypesLine, ChatInv, WakesForNews, TalksAlone, UpdateComing, Watcher
<1>7. ASSUME NEW s \in Talker, SendChat(s) PROVE ChatInv'
  <2>1. /\ said' = said + 1 /\ ringing' = ringing \cup ({watchers[i] : i \in Watcher} \ {0})
        /\ updates' = [updates EXCEPT ![s] = IF s \in gone THEN 0 ELSE @ + 1]
        /\ UNCHANGED <<watchers, full, inChat, gone, pollers, since>>
    BY <1>7 DEF SendChat, Says
  <2>2. s \in inChat' => Woken(s)'
    BY <2>1 DEF Woken, UpdateComing, ChatInv
  <2>3. WakesForNews'
    BY <1>1, <2>1, <2>2, OneTalkerMoves DEF ChatInv
  <2>4. QED
    BY <2>1, <2>3 DEF ChatInv, Watcher
<1>8. ASSUME NEW s \in Talker, LeaveChat(s) PROVE ChatInv'
  <2> DEFINE rest == [watchers EXCEPT ![TalkerId[s]] = 0]
  <2>1. /\ said' = said + 1 /\ ringing' = ringing \cup ({rest[i] : i \in Watcher} \ {0})
        /\ watchers' = rest /\ inChat' = inChat \ {s}
        /\ UNCHANGED <<full, gone, pollers, talking, updates, since>>
    BY <1>8 DEF LeaveChat, Says
  <2>2. /\ rest \in [Watcher -> Channel \cup {0}]
        /\ \A t \in Talker : TalkerId[t] # TalkerId[s] => rest[TalkerId[t]] = watchers[TalkerId[t]]
    BY <1>1 DEF ChatInv
  <2> HIDE DEF rest
  <2>3. WakesForNews'
    BY <1>1, <2>1, <2>2, OneTalkerMoves DEF ChatInv
  <2>4. QED
    BY <2>1, <2>2, <2>3 DEF ChatInv, Watcher
<1>9. ASSUME NEW s \in Talker, PulledAway(s) PROVE ChatInv'
  BY <1>9 DEF PulledAway, ChatInv, WakesForNews, TalksAlone, UpdateComing, Watcher
<1>10. ASSUME NEW s \in Talker, DropsOff(s) PROVE ChatInv'
  <2>1. /\ gone' = gone \cup {s} /\ inChat' = inChat \ {s}
        /\ pollers' = [pollers EXCEPT ![s] = {}] /\ updates' = [updates EXCEPT ![s] = 0]
        /\ UNCHANGED <<said, watchers, ringing, full, talking, since>>
    BY <1>10 DEF DropsOff
  <2>2. WakesForNews'
    BY <2>1, OneTalkerMoves DEF ChatInv
  <2>3. QED
    BY <2>1, <2>2 DEF ChatInv, Watcher
<1>11. CASE UNCHANGED chatVars
  BY <1>11 DEF chatVars, ChatInv, WakesForNews, TalksAlone, UpdateComing, Watcher
<1>12. QED
  BY <1>2, <1>3, <1>4, <1>5, <1>6, <1>7, <1>8, <1>9, <1>10, <1>11 DEF ChatNext, Deliveries

----------------------------------------------------------------------------
(* Sessions. *)

\* Every set of natural numbers that is not empty has a least element.
LEMMA LeastNumber ==
    ASSUME NEW S, S \subseteq Nat, S # {}
    PROVE  \E n \in S : \A k \in S : n =< k
<1> DEFINE less == {pair \in Nat \X Nat : pair[1] < pair[2]}
<1>1. IsWellFoundedOn(less, Nat)
  BY NatLessThanWellFounded DEF OpToRel
<1>2. PICK n \in S : \A k \in S : <<k, n>> \notin less
  BY <1>1, WFMin
<1>3. \A k \in S : ~(k < n)
  BY <1>2
<1>4. QED
  BY <1>3

\* A finite set does not hold every number up to one more than its size, so there
\* is a lowest free one.
LEMMA LowestFreeIsFree ==
    ASSUME NEW nodes, IsFiniteSet(nodes)
    PROVE  LowestFree(nodes) \in Nat \ {0} /\ LowestFree(nodes) \notin nodes
<1> DEFINE some == 1 .. Cardinality(nodes) + 1
<1>1. Cardinality(nodes) \in Nat
  BY FS_CardinalityType
<1>2. IsFiniteSet(some) /\ Cardinality(some) = Cardinality(nodes) + 1
  BY <1>1, FS_Interval
<1>3. some \ nodes # {}
  <2>1. SUFFICES ASSUME some \subseteq nodes PROVE FALSE
    OBVIOUS
  <2>2. Cardinality(some) =< Cardinality(nodes)
    BY <2>1, FS_Subset
  <2>3. QED
    BY <1>1, <1>2, <2>2
<1>4. some \subseteq Nat \ {0}
  BY <1>1
<1>5. PICK n \in some \ nodes : \A k \in some \ nodes : n =< k
  BY <1>3, <1>4, LeastNumber
<1>6. \A k \in 1 .. n - 1 : k \in nodes
  BY <1>1, <1>5
<1>7. QED
  BY <1>4, <1>5, <1>6 DEF LowestFree

\* Somebody who has not said goodbye, on the web, or is still on the line.
SomebodyOn(i) ==
    \E s \in Call : IdOf[s] = i /\ LiveCall(s) /\ (FrontOf[s] = "web" => phase[s] = "on")

\* The web lets nobody sign up, and a row of its own is shown while the model is at the
\* menu; no model joins after its connection has gone.
SessInv ==
    /\ phase \in [Call -> {"off", "on", "quitting", "over"}]
    /\ present \in [Id -> Nat]
    /\ who \in [Call -> {"guest", "signup", "user", "sysop"}]
    /\ pending \in [Call -> SUBSET {"unlock", "signup"}]
    /\ joined \subseteq Call
    /\ \A s \in Call : FrontOf[s] = "web" =>
          /\ who[s] # "signup" /\ "signup" \notin pending[s]
          /\ phase[s] # "over" /\ s \notin revoked
          /\ phase[s] = "on" => s \in joined
    /\ \A s \in Call : /\ phase[s] = "off" => s \notin joined \cup revoked
                       /\ phase[s] = "on" => s \notin revoked
    /\ \A i \in Id : present[i] # 0 => SomebodyOn(i)
    /\ NoGhosts

\* The number given out is nobody's.
LEMMA FreeNodeIsFree ==
    ASSUME SessInv
    PROVE  FreeNode \in Nat \ {0} /\ \A i \in Id : present[i] # FreeNode
<1>1. IsFiniteSet(Id)
  <2>1. [s \in Call |-> IdOf[s]] \in Surjection(Call, Id)
    BY DEF Surjection, Id
  <2>2. QED
    BY <2>1, SessionsAssumption, FS_Surjection
<1> DEFINE nodes == {present[i] : i \in Id}
<1>2. [i \in Id |-> present[i]] \in Surjection(Id, nodes)
  BY DEF Surjection
<1>3. IsFiniteSet(nodes \ {0})
  BY <1>1, <1>2, FS_Surjection, FS_Subset
<1>4. FreeNode \in Nat \ {0} /\ FreeNode \notin nodes \ {0}
  BY <1>3, LowestFreeIsFree DEF FreeNode
<1>5. QED
  BY <1>4

\* Nobody is online at the start.
LEMMA SessStarts == SessInit => SessInv
BY SessionsAssumption DEF SessInit, SessInv, NoGhosts, HasOwnId, Id

\* A step that leaves who is on the line, who has joined and who is shown alone.
LEMMA NothingMoves ==
    ASSUME SessInv, UNCHANGED <<phase, joined, revoked, present>>
    PROVE  /\ present' \in [Id -> Nat] /\ \A i \in Id : present'[i] # 0 => SomebodyOn(i)'
           /\ NoGhosts'
BY DEF SessInv, NoGhosts, SomebodyOn, LiveCall, HasOwnId, Id

\* A model that joins while its call is live gets a number of its own, once.
LEMMA JoinKeepsApart ==
    ASSUME SessInv, NEW s \in Call, Join(s), phase'[s] \in {"on", "quitting"},
           FrontOf[s] = "web" => phase'[s] = "on",
           phase'[s] = "on" => s \notin revoked,
           phase'[s] = "on" /\ s \in joined => phase[s] = "on",
           LiveCall(s) => phase' = phase,
           \A t \in Call \ {s} : phase'[t] = phase[t]
    PROVE  /\ present' \in [Id -> Nat] /\ \A i \in Id : present'[i] # 0 => SomebodyOn(i)'
           /\ NoGhosts'
<1> DEFINE i == IdOf[s]
<1>1. /\ FreeNode \in Nat \ {0} /\ \A j \in Id : present[j] # FreeNode
      /\ i \in Id /\ \A t \in Call : IdOf[t] \in Id
  BY FreeNodeIsFree DEF Id
<1>2. SomebodyOn(i)'
  BY DEF SomebodyOn, LiveCall
<1>3. ASSUME NEW j \in Id, j # i, SomebodyOn(j) PROVE SomebodyOn(j)'
  BY <1>3 DEF SomebodyOn, LiveCall
<1>4. \A j \in Id : SomebodyOn(j)' => \E t \in Call : IdOf[t] = j /\ LiveCall(t)'
  BY DEF SomebodyOn, Id, LiveCall
<1>5. CASE s \in joined \cup revoked
  <2>1. present' = present /\ joined' = joined \cup {s}
    BY <1>5 DEF Join
  <2>2. \A j \in Id : present'[j] # 0 => SomebodyOn(j)'
    BY <1>2, <1>3, <2>1 DEF SessInv
  <2>3. ASSUME NEW t \in joined', phase'[t] = "on", HasOwnId(t), t \in Call PROVE present'[IdOf[t]] # 0
    <3>1. t \in joined /\ phase[t] = "on"
      BY <1>5, <2>1, <2>3
    <3>2. QED
      BY <2>1, <2>3, <3>1 DEF SessInv, NoGhosts
  <2>4. QED
    BY <1>4, <2>1, <2>2, <2>3 DEF SessInv, NoGhosts, HasOwnId
<1>6. CASE s \notin joined \cup revoked
  <2>1. present' = [present EXCEPT ![i] = FreeNode] /\ joined' = joined \cup {s}
    BY <1>6 DEF Join
  <2>2. /\ present' \in [Id -> Nat] /\ present'[i] = FreeNode
        /\ \A j \in Id : j # i => present'[j] = present[j]
    BY <1>1, <2>1 DEF SessInv
  <2>3. \A j \in Id : present'[j] # 0 => SomebodyOn(j)'
    BY <1>2, <1>3, <2>2 DEF SessInv
  <2>4. \A j, k \in Id : j # k /\ present'[j] # 0 => present'[j] # present'[k]
    BY <1>1, <2>2 DEF SessInv, NoGhosts
  <2>5. ASSUME NEW t \in joined', phase'[t] = "on", HasOwnId(t), t \in Call PROVE present'[IdOf[t]] # 0
    <3>1. CASE t = s
      BY <1>1, <2>2, <3>1
    <3>2. CASE t # s
      BY <1>1, <2>1, <2>2, <2>5, <3>2 DEF SessInv, NoGhosts, HasOwnId
    <3>3. QED
      BY <3>1, <3>2
  <2>6. QED
    <3>1. joined' \subseteq Call
      BY <2>1 DEF SessInv
    <3>2. QED
      BY <1>4, <2>2, <2>3, <2>4, <2>5, <3>1 DEF NoGhosts, HasOwnId
<1>7. QED
  BY <1>5, <1>6

\* A row that is taken away under an ID leaves the others as they were.
LEMMA LeavingKeepsApart ==
    ASSUME SessInv, NEW s \in Call, LeavePresence(s), joined' \subseteq joined,
           phase' \in [Call -> {"off", "on", "quitting", "over"}],
           phase'[s] # "on" \/ s \notin joined',
           \A t \in Call \ {s} : phase'[t] = phase[t]
    PROVE  /\ present' \in [Id -> Nat] /\ \A i \in Id : present'[i] # 0 => SomebodyOn(i)'
           /\ NoGhosts'
<1>1. /\ IdOf[s] \in Id /\ present' = [present EXCEPT ![IdOf[s]] = 0]
      /\ \A t \in Call : IdOf[t] \in Id
  BY DEF LeavePresence, Id
<1>2. /\ present' \in [Id -> Nat] /\ present'[IdOf[s]] = 0
      /\ \A i \in Id : i # IdOf[s] => present'[i] = present[i]
  BY <1>1 DEF SessInv
<1>3. ASSUME NEW i \in Id, present'[i] # 0 PROVE SomebodyOn(i)'
  <2>1. i # IdOf[s] /\ SomebodyOn(i)
    BY <1>2, <1>3 DEF SessInv
  <2>2. QED
    BY <2>1 DEF SomebodyOn, LiveCall
<1>4. \A i \in Id : SomebodyOn(i)' => \E t \in Call : IdOf[t] = i /\ LiveCall(t)'
  BY DEF SomebodyOn, LiveCall
<1>5. \A i, j \in Id : i # j /\ present'[i] # 0 => present'[i] # present'[j]
  BY <1>2 DEF SessInv, NoGhosts
<1>6. ASSUME NEW t \in joined', phase'[t] = "on", HasOwnId(t) PROVE present'[IdOf[t]] # 0
  <2>1. t \in Call /\ t # s /\ t \in joined
    BY <1>6 DEF SessInv
  <2>2. IdOf[t] # IdOf[s] /\ present[IdOf[t]] # 0
    BY <1>6, <2>1 DEF SessInv, NoGhosts, HasOwnId
  <2>3. QED
    BY <1>1, <1>2, <2>1, <2>2
<1>7. QED
  BY <1>2, <1>3, <1>4, <1>5, <1>6 DEF NoGhosts, HasOwnId

\* Every step of the sessions keeps the invariant.
LEMMA SessSteps == SessInv /\ [SessNext]_sessVars => SessInv'
<1> SUFFICES ASSUME SessInv, [SessNext]_sessVars PROVE SessInv'
  OBVIOUS
<1> USE DEF times, shown
<1>1. ASSUME NEW s \in Call, Starts(s), phase[s] = "off", UNCHANGED <<who, pending>> PROVE SessInv'
  <2>1. /\ phase' \in [Call -> {"off", "on", "quitting", "over"}] /\ phase'[s] = "on"
        /\ \A t \in Call \ {s} : phase'[t] = phase[t]
    BY <1>1 DEF Starts, SessInv
  <2>2. CASE who[s] = "signup"
    <3>1. UNCHANGED <<joined, revoked, present>> /\ s \notin joined \cup revoked /\ FrontOf[s] # "web"
      BY <1>1, <2>2 DEF Starts, SessInv
    <3>2. \A i \in Id : SomebodyOn(i) => SomebodyOn(i)'
      BY <1>1, <2>1 DEF SomebodyOn, LiveCall
    <3>3. \A i \in Id : SomebodyOn(i)' => \E t \in Call : IdOf[t] = i /\ LiveCall(t)'
      BY DEF SomebodyOn, LiveCall
    <3>4. NoGhosts'
      BY <2>1, <3>1, <3>2, <3>3 DEF SessInv, NoGhosts, HasOwnId
    <3>5. QED
      BY <1>1, <2>1, <3>1, <3>2, <3>4 DEF SessInv
  <2>3. CASE who[s] # "signup"
    <3>1. Join(s) /\ s \notin joined \cup revoked
      BY <1>1, <2>3 DEF Starts, SessInv
    <3>2. joined' = joined \cup {s} /\ revoked' = revoked
      BY <3>1 DEF Join
    <3>3. ~LiveCall(s)
      BY <1>1 DEF LiveCall
    <3>4. /\ present' \in [Id -> Nat] /\ \A i \in Id : present'[i] # 0 => SomebodyOn(i)'
          /\ NoGhosts'
      BY <2>1, <3>1, <3>3, JoinKeepsApart
    <3>5. QED
      BY <1>1, <2>1, <3>1, <3>2, <3>4 DEF SessInv
  <2>4. QED
    BY <2>2, <2>3
<1>2. ASSUME NEW s \in Call, SSHConnects(s) \/ TelnetConnects(s) \/ WebOpens(s) PROVE SessInv'
  <2>1. phase[s] = "off"
    BY <1>2 DEF SSHConnects, TelnetConnects, WebOpens, SessInv, LiveCall
  <2>2. QED
    BY <1>1, <1>2, <2>1 DEF SSHConnects, TelnetConnects, WebOpens
<1>3. ASSUME UNCHANGED <<phase, who, joined, revoked, present>>,
             pending' \in [Call -> SUBSET {"unlock", "signup"}],
             \A s \in Call : FrontOf[s] = "web" => "signup" \notin pending'[s]
      PROVE  SessInv'
  BY <1>3, NothingMoves DEF SessInv
<1>4. ASSUME NEW i \in Id, WebSignsIn(i) \/ WebSignsOut(i) PROVE SessInv'
  BY <1>3, <1>4 DEF WebSignsIn, WebSignsOut, SessInv
<1>5. ASSUME NEW s \in Call, NEW cmd \in {"unlock", "signup"}, Presses(s, cmd) PROVE SessInv'
  BY <1>3, <1>5 DEF Presses, SessInv
<1>6. ASSUME NEW s \in Call, UnlockedArrives(s) PROVE SessInv'
  BY <1>3, <1>6 DEF UnlockedArrives, SessInv
<1>7. ASSUME NEW s \in Call, SignupDone(s) PROVE SessInv'
  <2>1. phase[s] \in {"on", "quitting"} /\ phase' = phase /\ Join(s)
    BY <1>7 DEF SignupDone, LiveCall
  <2>2. FrontOf[s] # "web"
    BY <1>7 DEF SignupDone, SessInv
  <2>3. /\ present' \in [Id -> Nat] /\ \A i \in Id : present'[i] # 0 => SomebodyOn(i)'
        /\ NoGhosts'
    BY <2>1, <2>2, JoinKeepsApart DEF SessInv
  <2>4. /\ joined' = joined \cup {s} /\ revoked' = revoked
        /\ who' = [who EXCEPT ![s] = "user"]
        /\ pending' = [pending EXCEPT ![s] = @ \ {"signup"}]
    BY <1>7 DEF SignupDone, Join
  <2>5. QED
    BY <2>1, <2>2, <2>3, <2>4 DEF SessInv
<1>8. ASSUME NEW s \in Call, phase[s] \in {"on", "quitting"}, Leave(s), UNCHANGED <<who, pending>>
      PROVE  SessInv'
  <2>1. /\ phase' \in [Call -> {"off", "on", "quitting", "over"}] /\ phase'[s] = "quitting"
        /\ \A t \in Call \ {s} : phase'[t] = phase[t]
        /\ joined' = joined /\ revoked' \subseteq revoked \cup {s}
        /\ FrontOf[s] = "web" => revoked' = revoked
    BY <1>8 DEF Leave, SessInv
  <2>2. CASE s \in joined
    <3>1. /\ present' \in [Id -> Nat] /\ \A i \in Id : present'[i] # 0 => SomebodyOn(i)'
          /\ NoGhosts'
      BY <1>8, <2>1, <2>2, LeavingKeepsApart DEF Leave
    <3>2. QED
      BY <1>8, <2>1, <3>1 DEF SessInv
  <2>3. CASE s \notin joined
    <3>1. present' = present /\ (FrontOf[s] = "web" => phase[s] # "on")
      BY <1>8, <2>3 DEF Leave, SessInv
    <3>2. \A i \in Id : SomebodyOn(i) => SomebodyOn(i)'
      BY <1>8, <2>1, <3>1 DEF SomebodyOn, LiveCall
    <3>3. \A i \in Id : SomebodyOn(i)' => \E t \in Call : IdOf[t] = i /\ LiveCall(t)'
      BY DEF SomebodyOn, LiveCall
    <3>4. NoGhosts'
      BY <2>1, <2>3, <3>1, <3>2, <3>3 DEF SessInv, NoGhosts, HasOwnId
    <3>5. QED
      BY <1>8, <2>1, <3>1, <3>2, <3>4 DEF SessInv
  <2>4. QED
    BY <2>2, <2>3
<1>9. ASSUME NEW s \in Call, Quits(s) PROVE SessInv'
  BY <1>8, <1>9 DEF Quits
<1>10. ASSUME NEW s \in Call, TimeCheck(s) PROVE SessInv'
  <2>1. phase[s] \in {"on", "quitting"} /\ UNCHANGED <<who, pending>>
    BY <1>10 DEF TimeCheck, LiveCall
  <2>2. CASE Leave(s)
    BY <1>8, <2>1, <2>2
  <2>3. CASE UNCHANGED <<phase, open, shown>>
    BY <1>3, <2>1, <2>3 DEF SessInv
  <2>4. QED
    BY <1>10, <2>2, <2>3 DEF TimeCheck
<1>11. ASSUME NEW s \in Call, ProgramEnds(s) PROVE SessInv'
  <2>1. /\ phase' = [phase EXCEPT ![s] = "over"] /\ pending' = [pending EXCEPT ![s] = {}]
        /\ revoked' = revoked \cup {s} /\ LeavePresence(s) /\ FrontOf[s] # "web"
        /\ UNCHANGED <<who, joined>>
    BY <1>11 DEF ProgramEnds, Forgets, Teardown
  <2>2. /\ phase' \in [Call -> {"off", "on", "quitting", "over"}] /\ phase'[s] = "over"
        /\ \A t \in Call \ {s} : phase'[t] = phase[t]
    BY <2>1 DEF SessInv
  <2>3. /\ present' \in [Id -> Nat] /\ \A i \in Id : present'[i] # 0 => SomebodyOn(i)'
        /\ NoGhosts'
    BY <2>1, <2>2, LeavingKeepsApart
  <2>4. QED
    BY <2>1, <2>2, <2>3 DEF SessInv
<1>12. ASSUME NEW s \in Call, DriverCloses(s) PROVE SessInv'
  <2>1. /\ phase' = [phase EXCEPT ![s] = "off"] /\ pending' = [pending EXCEPT ![s] = {}]
        /\ joined' = joined \ {s} /\ FrontOf[s] = "web" /\ phase[s] \in {"on", "quitting"}
        /\ UNCHANGED <<who, revoked>>
    BY <1>12 DEF DriverCloses, Forgets, LiveCall
  <2>2. /\ phase' \in [Call -> {"off", "on", "quitting", "over"}] /\ phase'[s] = "off"
        /\ \A t \in Call \ {s} : phase'[t] = phase[t]
    BY <2>1 DEF SessInv
  <2>3. /\ present' \in [Id -> Nat] /\ \A i \in Id : present'[i] # 0 => SomebodyOn(i)'
        /\ NoGhosts'
    <3>1. CASE phase[s] = "on"
      <4>1. LeavePresence(s)
        BY <1>12, <3>1 DEF DriverCloses
      <4>2. QED
        BY <2>1, <2>2, <4>1, LeavingKeepsApart
    <3>2. CASE phase[s] = "quitting"
      <4>1. present' = present
        BY <1>12, <3>2 DEF DriverCloses
      <4>2. \A i \in Id : SomebodyOn(i) => SomebodyOn(i)'
        BY <2>1, <2>2, <3>2 DEF SomebodyOn, LiveCall
      <4>3. \A i \in Id : SomebodyOn(i)' => \E t \in Call : IdOf[t] = i /\ LiveCall(t)'
        BY DEF SomebodyOn, LiveCall
      <4>4. NoGhosts'
        BY <2>1, <2>2, <4>1, <4>2, <4>3 DEF SessInv, NoGhosts, HasOwnId
      <4>5. QED
        BY <4>1, <4>2, <4>4 DEF SessInv
    <3>3. QED
      BY <2>1, <3>1, <3>2
  <2>4. QED
    BY <2>1, <2>2, <2>3 DEF SessInv
<1>13. CASE Tick
  BY <1>3, <1>13 DEF Tick, SessInv
<1>14. CASE UNCHANGED sessVars
  BY <1>3, <1>14 DEF sessVars, SessInv
<1>15. QED
  BY <1>2, <1>4, <1>5, <1>6, <1>7, <1>9, <1>10, <1>11, <1>12, <1>13, <1>14 DEF SessNext

----------------------------------------------------------------------------
(* What a door may do. *)

\* Of the turns taken, the ones of the last hour have not been forgotten.
ApiInv ==
    /\ tm \in Nat
    /\ spaced \in [Bucket -> SUBSET [number : Int, at : Nat]]
    /\ granted \in [Bucket -> SUBSET [number : Int, at : Nat]]
    /\ \A b \in Bucket :
          /\ IsFiniteSet(granted[b]) /\ spaced[b] \subseteq granted[b]
          /\ \A turn \in granted[b] : turn.at =< tm
          /\ \A turn \in granted[b] : Recent(turn.at) => turn \in spaced[b]
    /\ ApiHolds

\* No turn has been taken at the start.
LEMMA ApiStarts == ApiInit => ApiInv
<1> SUFFICES ASSUME ApiInit PROVE ApiInv
  OBVIOUS
<1> USE DoorApiAssumption
<1>1. IsFiniteSet({}) /\ Cardinality({}) = 0
  BY FS_EmptySet
<1>2. HourlyLimit
  <2>1. \A b \in Bucket, t \in 0 .. tm :
           {turn \in granted[b] : turn.at \in t .. t + Hour - 1} = {}
    BY DEF ApiInit
  <2>2. Cardinality({}) =< PerHour
    BY <1>1
  <2>3. QED
    BY <2>1, <2>2 DEF HourlyLimit
<1>3. QED
  BY <1>1, <1>2 DEF ApiInit, ApiInv, ApiHolds, StateHasADoor

\* A turn is taken only when fewer than PerHour are remembered, and every window
\* that the new turn is in holds but remembered ones besides.
LEMMA AllowKeepsTheLimit ==
    ASSUME ApiInv, NEW b \in Bucket, Allow(b), tm' = tm
    PROVE  /\ spaced' \in [Bucket -> SUBSET [number : Int, at : Nat]]
           /\ granted' \in [Bucket -> SUBSET [number : Int, at : Nat]]
           /\ \A d \in Bucket :
                 /\ IsFiniteSet(granted'[d]) /\ spaced'[d] \subseteq granted'[d]
                 /\ \A turn \in granted'[d] : turn.at =< tm'
                 /\ \A turn \in granted'[d] : Recent(turn.at)' => turn \in spaced'[d]
           /\ HourlyLimit'
<1> USE DoorApiAssumption DEF Bucket
<1> DEFINE kept == {turn \in spaced[b] : Recent(turn.at)}
           next == [number |-> Cardinality(granted[b]) + 1, at |-> tm]
           window(t) == {turn \in granted[b] : turn.at \in t .. t + Hour - 1}
<1>1. IsFiniteSet(granted[b]) /\ Cardinality(granted[b]) \in Nat
  BY FS_CardinalityType DEF ApiInv
<1>2. next \in [number : Int, at : Nat]
  BY <1>1 DEF ApiInv
<1>3. IsFiniteSet(kept) /\ Cardinality(kept) \in Nat
  <2>1. kept \subseteq granted[b]
    BY DEF ApiInv
  <2>2. QED
    BY <1>1, <2>1, FS_Subset, FS_CardinalityType
<1>4. Cardinality(kept) >= PerHour
      => spaced' = [spaced EXCEPT ![b] = kept] /\ granted' = granted
  BY DEF Allow
<1>5. ~(Cardinality(kept) >= PerHour)
      => /\ spaced' = [spaced EXCEPT ![b] = kept \cup {next}]
         /\ granted' = [granted EXCEPT ![b] = @ \cup {next}]
  BY DEF Allow
<1> HIDE DEF next
<1>6. spaced' \in [Bucket -> SUBSET [number : Int, at : Nat]]
  BY <1>2, <1>4, <1>5 DEF ApiInv
<1>7. granted' \in [Bucket -> SUBSET [number : Int, at : Nat]]
  BY <1>2, <1>4, <1>5 DEF ApiInv
<1>8. ASSUME NEW d \in Bucket
      PROVE  /\ IsFiniteSet(granted'[d]) /\ spaced'[d] \subseteq granted'[d]
             /\ \A turn \in granted'[d] : turn.at =< tm'
             /\ \A turn \in granted'[d] : Recent(turn.at)' => turn \in spaced'[d]
  <2>1. IsFiniteSet(granted[b] \cup {next})
    BY <1>1, FS_AddElement
  <2>2. next.at =< tm
    BY DEF next, ApiInv
  <2>3. CASE Cardinality(kept) >= PerHour
    <3>1. granted' = granted /\ spaced'[d] = IF d = b THEN kept ELSE spaced[d]
      BY <1>4, <2>3 DEF ApiInv
    <3>2. QED
      BY <3>1 DEF ApiInv, Recent
  <2>4. CASE ~(Cardinality(kept) >= PerHour)
    <3>1. /\ granted'[d] = IF d = b THEN granted[b] \cup {next} ELSE granted[d]
          /\ spaced'[d] = IF d = b THEN kept \cup {next} ELSE spaced[d]
      BY <1>5, <2>4 DEF ApiInv
    <3>2. IsFiniteSet(granted'[d])
      BY <2>1, <3>1 DEF ApiInv
    <3>3. spaced'[d] \subseteq granted'[d]
      BY <3>1 DEF ApiInv
    <3>4. \A turn \in granted'[d] : turn.at =< tm'
      BY <2>2, <3>1 DEF ApiInv
    <3>5. \A turn \in granted'[d] : Recent(turn.at)' => turn \in spaced'[d]
      BY <3>1 DEF ApiInv, Recent
    <3>6. QED
      BY <3>2, <3>3, <3>4, <3>5
  <2>5. QED
    BY <2>3, <2>4
<1>9. ASSUME NEW d \in Bucket, NEW t \in 0 .. tm
      PROVE  Cardinality({turn \in granted'[d] : turn.at \in t .. t + Hour - 1}) =< PerHour
  <2>1. Cardinality({turn \in granted[d] : turn.at \in t .. t + Hour - 1}) =< PerHour
    BY DEF ApiInv, ApiHolds, HourlyLimit
  <2>2. CASE granted'[d] = granted[d]
    BY <2>1, <2>2
  <2>3. CASE granted'[d] # granted[d]
    <3>1. /\ d = b /\ ~(Cardinality(kept) >= PerHour)
          /\ granted'[b] = granted[b] \cup {next}
      BY <1>4, <1>5, <2>3 DEF ApiInv
    <3>2. CASE tm \in t .. t + Hour - 1
      <4>1. window(t) \subseteq kept
        BY <3>2 DEF ApiInv, Recent
      <4>2. {turn \in granted'[d] : turn.at \in t .. t + Hour - 1} \subseteq kept \cup {next}
        BY <3>1, <4>1
      <4>3. /\ IsFiniteSet(kept \cup {next})
            /\ Cardinality(kept \cup {next}) =< Cardinality(kept) + 1
        BY <1>3, FS_AddElement
      <4>4. Cardinality(kept \cup {next}) \in Nat
        BY <4>3, FS_CardinalityType
      <4>5. /\ IsFiniteSet({turn \in granted'[d] : turn.at \in t .. t + Hour - 1})
            /\ Cardinality({turn \in granted'[d] : turn.at \in t .. t + Hour - 1})
                 =< Cardinality(kept \cup {next})
        BY <4>2, <4>3, FS_Subset
      <4>6. Cardinality({turn \in granted'[d] : turn.at \in t .. t + Hour - 1}) \in Nat
        BY <4>5, FS_CardinalityType
      <4>7. QED
        BY <1>3, <3>1, <4>3, <4>4, <4>5, <4>6
    <3>3. CASE tm \notin t .. t + Hour - 1
      <4>1. {turn \in granted'[d] : turn.at \in t .. t + Hour - 1} = window(t)
        BY <3>1, <3>3 DEF next
      <4>2. QED
        BY <2>1, <3>1, <4>1
    <3>4. QED
      BY <3>2, <3>3
  <2>4. QED
    BY <2>2, <2>3
<1>10. HourlyLimit'
  BY <1>9 DEF HourlyLimit
<1>11. QED
  BY <1>6, <1>7, <1>8, <1>10

\* Every step of the doors' interface keeps its invariant.
LEMMA ApiSteps == ApiInv /\ [ApiNext]_apiVars => ApiInv'
<1> SUFFICES ASSUME ApiInv, [ApiNext]_apiVars PROVE ApiInv'
  OBVIOUS
<1> USE DoorApiAssumption
<1>1. ASSUME UNCHANGED <<spaced, granted, tm>>, StateHasADoor' PROVE ApiInv'
  BY <1>1 DEF ApiInv, ApiHolds, HourlyLimit, Recent
<1>2. ASSUME NEW g \in Grants, PutDoor(g) PROVE ApiInv'
  BY <1>1, <1>2 DEF PutDoor, StateHasADoor
<1>3. CASE DeleteDoor
  BY <1>1, <1>3 DEF DeleteDoor, StateHasADoor
<1>4. CASE SetLocal
  BY <1>1, <1>4 DEF SetLocal, ApiInv, ApiHolds, StateHasADoor
<1>5. CASE ApiTick
  <2>1. tm' = tm + 1 /\ UNCHANGED <<row, spaced, granted, saved>>
    BY <1>5 DEF ApiTick
  <2>2. ASSUME NEW b \in Bucket, NEW t \in 0 .. tm'
        PROVE  Cardinality({turn \in granted'[b] : turn.at \in t .. t + Hour - 1}) =< PerHour
    <3>1. CASE t \in 0 .. tm
      BY <2>1, <3>1 DEF ApiInv, ApiHolds, HourlyLimit
    <3>2. CASE t = tm + 1
      <4>1. {turn \in granted'[b] : turn.at \in t .. t + Hour - 1} = {}
        BY <2>1, <3>2 DEF ApiInv
      <4>2. Cardinality({}) = 0 /\ 0 =< PerHour
        BY FS_EmptySet
      <4>3. QED
        BY <4>1, <4>2
    <3>3. QED
      BY <2>1, <3>1, <3>2 DEF ApiInv
  <2>3. \A b \in Bucket : \A turn \in granted[b] : turn.at =< tm' /\ (Recent(turn.at)' => Recent(turn.at))
    BY <2>1 DEF ApiInv, Recent
  <2>4. QED
    BY <2>1, <2>2, <2>3 DEF ApiInv, ApiHolds, HourlyLimit, StateHasADoor
<1>6. ASSUME NEW i \in Inv, NEW n \in Nicks, Invoke(i, n) PROVE ApiInv'
  BY <1>1, <1>6 DEF Invoke, ApiInv, ApiHolds, StateHasADoor
<1>7. ASSUME NEW i \in Inv, Finish(i) \/ AnnouncePosts(i) \/ ActAsUser(i) PROVE ApiInv'
  BY <1>1, <1>7 DEF Finish, AnnouncePosts, ActAsUser, ApiInv, ApiHolds, StateHasADoor
<1>8. ASSUME NEW i \in Inv, AnnounceAsks(i) PROVE ApiInv'
  <2>1. Allow("announce") /\ "announce" \in Bucket /\ UNCHANGED <<row, saved, tm>>
    BY <1>8 DEF AnnounceAsks, Bucket
  <2>2. QED
    BY <2>1, AllowKeepsTheLimit DEF ApiInv, ApiHolds, StateHasADoor
<1>9. ASSUME NEW i \in Inv, EventEmit(i) PROVE ApiInv'
  <2>1. Allow("league") /\ "league" \in Bucket /\ UNCHANGED <<row, saved, tm>>
    BY <1>9 DEF EventEmit, Bucket
  <2>2. QED
    BY <2>1, AllowKeepsTheLimit DEF ApiInv, ApiHolds, StateHasADoor
<1>10. ASSUME NEW i \in Inv, NEW scope \in {"user", "global"}, NEW k \in StateKeys,
              StateDelete(i, scope, k)
       PROVE  ApiInv'
  BY <1>1, <1>10 DEF StateDelete, ApiInv, ApiHolds, StateHasADoor
<1>11. ASSUME NEW i \in Inv, NEW scope \in {"user", "global"}, NEW k \in StateKeys,
              NEW size \in Sizes, StateSet(i, scope, k, size)
       PROVE  ApiInv'
  BY <1>1, <1>11 DEF StateSet, DoorThere, StateHasADoor
<1>12. CASE UNCHANGED apiVars
  BY <1>1, <1>12 DEF apiVars, ApiInv, ApiHolds, StateHasADoor
<1>13. QED
  BY <1>2, <1>3, <1>4, <1>5, <1>6, <1>7, <1>8, <1>9, <1>10, <1>11, <1>12 DEF ApiNext


----------------------------------------------------------------------------
(* Mail keys. *)

\* What waits between a read and its write, and what it was decided on.
Job == [op : {"ensure", "adopt", "reset"}, nick : Nicknames, saw : KeyPair \cup {NoKey},
        key : KeyPair \cup {NoKey}, replace : BOOLEAN, for : Visitor \cup {"cli", "session"}]

Signup == [at : {"no", "create", "enrol", "ensure", "ensuring", "done"},
           nick : Nicknames \cup {NoSignup.nick}, password : BOOLEAN]

\* A mailbox that has a key can be opened by somebody: the row wraps it, or the
\* owner's machine has it.
KeptSomewhere ==
    \A n \in Nicknames :
       /\ wrapped[n] # NoKey => wrapped[n] = pubKey[n]
       /\ pubKey[n] # NoKey => wrapped[n] = pubKey[n] \/ pubKey[n] \in machine[n]

\* A key is made for a row that had none; another one is adopted when the owner
\* has it, and over a key that is read only when that was asked for.
WellDecided(job) ==
    /\ job.op = "ensure" => job.saw = NoKey /\ job.key # NoKey
    /\ job.op = "adopt" => /\ job.key \in machine[job.nick]
                           /\ job.replace \/ job.saw \in {NoKey, job.key}

MailInv ==
    /\ users \subseteq Nicknames /\ made \in Nat
    /\ pubKey \in [Nicknames -> KeyPair \cup {NoKey}]
    /\ wrapped \in [Nicknames -> KeyPair \cup {NoKey}]
    /\ machine \in [Nicknames -> SUBSET KeyPair]
    /\ agreed \in [Nicknames -> SUBSET KeyPair] /\ overtaken \in [Nicknames -> SUBSET KeyPair]
    /\ signup \in [Visitor -> Signup]
    /\ \A v \in Visitor : signup[v].at # "no" => signup[v].nick \in Nicknames
    /\ jobs \subseteq Job /\ \A job \in jobs : WellDecided(job)
    /\ letters \subseteq [to : Nicknames, key : KeyPair, at : {"stored", "listed", "read"}]
    /\ KeptSomewhere
    /\ NothingStrandedQuietly

\* Nobody signing up.
LEMMA NobodySigningUp == NoSignup \in Signup /\ NoSignup.at = "no"
BY DEF NoSignup, Signup

\* One sign-up moves.
LEMMA SignupMoves ==
    ASSUME MailInv, NEW v \in Visitor, NEW s \in Signup,
           s.at # "no" => s.nick \in Nicknames, signup' = [signup EXCEPT ![v] = s]
    PROVE  /\ signup' \in [Visitor -> Signup]
           /\ \A w \in Visitor : signup'[w].at # "no" => signup'[w].nick \in Nicknames
BY DEF MailInv

\* There are no keys and no letters at the start.
LEMMA MailStarts == MailInit => MailInv
BY MailboxAssumption
   DEF MailInit, MailInv, NoSignup, Signup, KeptSomewhere, NothingStrandedQuietly, KeyPair, NoKey

\* The row is written as somebody decided before: what the letters are sealed to
\* is still there, or is among what was given up or overtaken.
LEMMA WritingStrandsNothing ==
    ASSUME MailInv, NEW job \in jobs, UNCHANGED <<machine, letters>>,
           SetDMKey(job) \/ Adopts(job) \/ Resets(job)
    PROVE  /\ users' = users
           /\ pubKey' \in [Nicknames -> KeyPair \cup {NoKey}]
           /\ wrapped' \in [Nicknames -> KeyPair \cup {NoKey}]
           /\ agreed' \in [Nicknames -> SUBSET KeyPair]
           /\ overtaken' \in [Nicknames -> SUBSET KeyPair]
           /\ KeptSomewhere' /\ NothingStrandedQuietly'
<1> USE DEF MailInv, NoKey, hist
<1>1. job \in Job /\ WellDecided(job)
  OBVIOUS
<1> DEFINE lost == {pubKey[job.nick]} \ {NoKey, job.key}
           stale == pubKey[job.nick] # job.saw
<1>2. lost \subseteq KeyPair
  BY <1>1 DEF Job
<1>3. CASE SetDMKey(job)
  <2>1. /\ users' = users
        /\ pubKey' = [pubKey EXCEPT ![job.nick] = job.key]
        /\ wrapped' = [wrapped EXCEPT ![job.nick] = job.key]
        /\ agreed' = [agreed EXCEPT ![job.nick] = @]
        /\ overtaken' = [overtaken EXCEPT ![job.nick] = IF stale THEN @ \cup lost ELSE @]
        /\ job.saw = NoKey
    BY <1>1, <1>3 DEF SetDMKey, Writes, WellDecided
  <2>2. KeptSomewhere'
    BY <1>1, <2>1 DEF KeptSomewhere, Job
  <2>3. NothingStrandedQuietly'
    BY <1>1, <2>1 DEF KeptSomewhere, NothingStrandedQuietly, Job, KeyPair
  <2>4. QED
    BY <1>1, <1>2, <2>1, <2>2, <2>3 DEF Job
<1>4. CASE Adopts(job)
  <2>1. /\ users' = users
        /\ pubKey' = [pubKey EXCEPT ![job.nick] = job.key]
        /\ wrapped' = [wrapped EXCEPT ![job.nick] = NoKey]
        /\ agreed' = [agreed EXCEPT ![job.nick] =
                        IF job.replace /\ ~stale THEN @ \cup lost ELSE @]
        /\ overtaken' = [overtaken EXCEPT ![job.nick] = IF stale THEN @ \cup lost ELSE @]
        /\ job.key \in machine[job.nick] /\ (job.replace \/ job.saw \in {NoKey, job.key})
    BY <1>1, <1>4 DEF Adopts, Writes, WellDecided
  <2>2. KeptSomewhere'
    BY <1>1, <2>1 DEF KeptSomewhere, Job
  <2>3. NothingStrandedQuietly'
    BY <1>1, <2>1 DEF KeptSomewhere, NothingStrandedQuietly, Job, KeyPair
  <2>4. QED
    BY <1>1, <1>2, <2>1, <2>2, <2>3 DEF Job
<1>5. CASE Resets(job) /\ job.replace
  <2>1. /\ users' = users
        /\ pubKey' = [pubKey EXCEPT ![job.nick] = NoKey]
        /\ wrapped' = [wrapped EXCEPT ![job.nick] = NoKey]
        /\ agreed' = [agreed EXCEPT ![job.nick] =
                        IF ~stale THEN @ \cup ({pubKey[job.nick]} \ {NoKey}) ELSE @]
        /\ overtaken' = [overtaken EXCEPT ![job.nick] =
                           IF stale THEN @ \cup ({pubKey[job.nick]} \ {NoKey}) ELSE @]
    BY <1>1, <1>5 DEF Resets, Writes
  <2>2. KeptSomewhere'
    BY <1>1, <2>1 DEF KeptSomewhere, Job
  <2>3. NothingStrandedQuietly'
    BY <1>1, <2>1 DEF KeptSomewhere, NothingStrandedQuietly, Job, KeyPair
  <2>4. QED
    BY <1>1, <2>1, <2>2, <2>3 DEF Job
<1>6. CASE Resets(job) /\ ~job.replace
  BY <1>6 DEF Resets, KeptSomewhere, NothingStrandedQuietly
<1>7. QED
  BY <1>3, <1>4, <1>5, <1>6

\* A step that leaves the rows, the machines and the letters alone.
LEMMA MailKept ==
    ASSUME MailInv, UNCHANGED <<pubKey, wrapped, machine, letters, hist>>,
           users' \subseteq Nicknames, made' \in Nat, signup' \in [Visitor -> Signup],
           \A v \in Visitor : signup'[v].at # "no" => signup'[v].nick \in Nicknames,
           jobs' \subseteq Job, \A job \in jobs' : WellDecided(job)
    PROVE  MailInv'
BY DEF MailInv, KeptSomewhere, NothingStrandedQuietly, WellDecided, hist

\* Making sure of a key starts an operation on a row that had none.
LEMMA EnsuringIsDecided ==
    ASSUME MailInv, NEW n, NEW for \in Visitor \cup {"session"}, EnsureDMKey(n, for)
    PROVE  made' \in Nat /\ jobs' \subseteq Job /\ \A job \in jobs' : WellDecided(job)
<1> DEFINE new == [op |-> "ensure", nick |-> n, saw |-> pubKey[n], key |-> made + 1,
                   replace |-> FALSE, for |-> for]
<1>1. n \in Nicknames
  BY DEF EnsureDMKey, MailInv
<1>2. CASE Missing(n) /\ made < MaxKeyPairs
  <2>1. made' = made + 1 /\ jobs' = jobs \cup {new}
    BY <1>2 DEF EnsureDMKey, Begin
  <2>2. new \in Job /\ WellDecided(new)
    BY <1>1, <1>2, MailboxAssumption DEF Job, WellDecided, MailInv, Missing, KeyPair, NoKey
  <2> HIDE DEF new
  <2>3. jobs \subseteq Job /\ made \in Nat /\ \A job \in jobs : WellDecided(job)
    BY DEF MailInv
  <2>4. QED
    BY <2>1, <2>2, <2>3
<1>3. CASE ~(Missing(n) /\ made < MaxKeyPairs)
  BY <1>3 DEF EnsureDMKey, MailInv
<1>4. QED
  BY <1>2, <1>3

\* Every step of the mailboxes keeps the invariant.
LEMMA MailSteps == MailInv /\ [MailNext]_mailVars => MailInv'
<1> SUFFICES ASSUME MailInv, [MailNext]_mailVars PROVE MailInv'
  OBVIOUS
<1> USE DEF rows
<1>1. ASSUME NEW job \in jobs, JobWrites(job) PROVE MailInv'
  <2>1. /\ SetDMKey(job) \/ Adopts(job) \/ Resets(job)
        /\ UNCHANGED <<machine, made, letters>> /\ jobs' = jobs \ {job}
        /\ signup' = [v \in Visitor |->
                        IF job.for = v /\ signup[v].at = "ensuring"
                        THEN [signup[v] EXCEPT !.at = "done"] ELSE signup[v]]
    BY <1>1 DEF JobWrites, Finished
  <2>2. /\ users' = users
        /\ pubKey' \in [Nicknames -> KeyPair \cup {NoKey}]
        /\ wrapped' \in [Nicknames -> KeyPair \cup {NoKey}]
        /\ agreed' \in [Nicknames -> SUBSET KeyPair]
        /\ overtaken' \in [Nicknames -> SUBSET KeyPair]
        /\ KeptSomewhere' /\ NothingStrandedQuietly'
    BY <2>1, WritingStrandsNothing
  <2>3. /\ signup' \in [Visitor -> Signup]
        /\ \A v \in Visitor : signup'[v].at # "no" => signup'[v].nick \in Nicknames
    BY <2>1 DEF MailInv, Signup
  <2>4. QED
    BY <2>1, <2>2, <2>3 DEF MailInv, WellDecided
<1>2. ASSUME NEW job \in jobs, JobFails(job) PROVE MailInv'
  <2>1. /\ signup' \in [Visitor -> Signup]
        /\ \A v \in Visitor : signup'[v].at # "no" => signup'[v].nick \in Nicknames
    BY <1>2 DEF JobFails, MailInv, Signup, NoSignup
  <2>2. QED
    BY <1>2, <2>1, MailKept DEF JobFails, MailInv
<1>3. ASSUME NEW v \in Visitor, NEW n \in Nicknames, NEW pw \in BOOLEAN, Acknowledge(v, n, pw)
      PROVE  MailInv'
  BY <1>3, MailKept DEF Acknowledge, MailInv, Signup
<1>4. ASSUME NEW v \in Visitor, CreateUser(v) PROVE MailInv'
  <2>1. /\ signup' \in [Visitor -> Signup]
        /\ \A w \in Visitor : signup'[w].at # "no" => signup'[w].nick \in Nicknames
    <3>1. signup' = [signup EXCEPT ![v] = NoSignup]
          \/ \E at \in {"enrol", "ensure"} :
                signup' = [signup EXCEPT ![v] = [signup[v] EXCEPT !.at = at]]
      BY <1>4 DEF CreateUser
    <3>2. signup[v].at # "no" /\ signup[v].nick \in Nicknames
      BY <1>4 DEF CreateUser, MailInv
    <3>3. \A at \in {"enrol", "ensure"} :
             /\ [signup[v] EXCEPT !.at = at] \in Signup
             /\ [signup[v] EXCEPT !.at = at].nick = signup[v].nick
      BY DEF MailInv, Signup
    <3>4. CASE signup' = [signup EXCEPT ![v] = NoSignup]
      BY <3>4, NobodySigningUp, SignupMoves
    <3>5. ASSUME NEW at \in {"enrol", "ensure"},
                 signup' = [signup EXCEPT ![v] = [signup[v] EXCEPT !.at = at]]
          PROVE  /\ signup' \in [Visitor -> Signup]
                 /\ \A w \in Visitor : signup'[w].at # "no" => signup'[w].nick \in Nicknames
      BY <3>2, <3>3, <3>5, SignupMoves
    <3>6. QED
      BY <3>1, <3>4, <3>5
  <2>2. users' \subseteq Nicknames
    BY <1>4 DEF CreateUser, MailInv
  <2>3. QED
    BY <1>4, <2>1, <2>2, MailKept DEF CreateUser, MailInv
<1>5. ASSUME NEW v \in Visitor, AddUserKey(v) PROVE MailInv'
  <2>1. /\ signup' \in [Visitor -> Signup]
        /\ \A w \in Visitor : signup'[w].at # "no" => signup'[w].nick \in Nicknames
    <3>1. signup' = [signup EXCEPT ![v] = NoSignup]
          \/ \E at \in {"enrol", "ensure"} :
                signup' = [signup EXCEPT ![v] = [signup[v] EXCEPT !.at = at]]
      BY <1>5 DEF AddUserKey
    <3>2. signup[v].at # "no" /\ signup[v].nick \in Nicknames
      BY <1>5 DEF AddUserKey, MailInv
    <3>3. \A at \in {"enrol", "ensure"} :
             /\ [signup[v] EXCEPT !.at = at] \in Signup
             /\ [signup[v] EXCEPT !.at = at].nick = signup[v].nick
      BY DEF MailInv, Signup
    <3>4. CASE signup' = [signup EXCEPT ![v] = NoSignup]
      BY <3>4, NobodySigningUp, SignupMoves
    <3>5. ASSUME NEW at \in {"enrol", "ensure"},
                 signup' = [signup EXCEPT ![v] = [signup[v] EXCEPT !.at = at]]
          PROVE  /\ signup' \in [Visitor -> Signup]
                 /\ \A w \in Visitor : signup'[w].at # "no" => signup'[w].nick \in Nicknames
      BY <3>2, <3>3, <3>5, SignupMoves
    <3>6. QED
      BY <3>1, <3>4, <3>5
  <2>2. QED
    BY <1>5, <2>1, MailKept DEF AddUserKey, MailInv
<1>6. ASSUME NEW v \in Visitor, SignupEnsures(v) PROVE MailInv'
  <2>1. /\ signup' \in [Visitor -> Signup]
        /\ \A w \in Visitor : signup'[w].at # "no" => signup'[w].nick \in Nicknames
    BY <1>6 DEF SignupEnsures, MailInv, Signup
  <2>2. made' \in Nat /\ jobs' \subseteq Job /\ \A job \in jobs' : WellDecided(job)
    BY <1>6, EnsuringIsDecided DEF SignupEnsures
  <2>3. QED
    BY <1>6, <2>1, <2>2, MailKept DEF SignupEnsures, MailInv
<1>7. ASSUME NEW l \in letters, IndexDM(l) PROVE MailInv'
  BY <1>7 DEF IndexDM, MailInv, KeptSomewhere, NothingStrandedQuietly, WellDecided, hist
<1>8. ASSUME NEW l \in letters, NEW n \in Nicknames, OpenMail(n, l) PROVE MailInv'
  BY <1>8 DEF OpenMail, MailInv, KeptSomewhere, NothingStrandedQuietly, WellDecided, hist
<1>9. ASSUME NEW n \in Nicknames, AddUser(n) PROVE MailInv'
  BY <1>9, MailKept DEF AddUser, MailInv
<1>10. ASSUME NEW n \in Nicknames, KeyInit(n) PROVE MailInv'
  <2>1. /\ machine' = [machine EXCEPT ![n] = @ \cup {made + 1}] /\ made + 1 \in KeyPair
        /\ UNCHANGED <<rows, jobs, signup, letters, place, hist>> /\ made' = made + 1
    BY <1>10, MailboxAssumption DEF KeyInit, Save, MailInv, KeyPair
  <2>2. \A m \in Nicknames : machine[m] \subseteq machine'[m]
    BY <2>1 DEF MailInv
  <2>3. \A job \in jobs : job.nick \in Nicknames
    BY DEF MailInv, Job
  <2>4. (\A job \in jobs : WellDecided(job))'
    BY <2>1, <2>2, <2>3 DEF MailInv, WellDecided
  <2>5. KeptSomewhere'
    BY <2>1, <2>2 DEF MailInv, KeptSomewhere
  <2>6. NothingStrandedQuietly'
    BY <2>1, <2>2 DEF MailInv, NothingStrandedQuietly, hist
  <2>7. QED
    BY <2>1, <2>4, <2>5, <2>6 DEF MailInv, hist
<1>11. ASSUME NEW n \in Nicknames, SendDM(n) PROVE MailInv'
  <2>1. letters' = letters \cup {[to |-> n, key |-> pubKey[n], at |-> "stored"]}
    BY <1>11 DEF SendDM, SealedTo
  <2>2. pubKey[n] # NoKey /\ pubKey[n] \in KeyPair
    BY <1>11 DEF SendDM, SealedTo, MailInv
  <2>3. NothingStrandedQuietly'
    BY <1>11, <2>1, <2>2 DEF SendDM, MailInv, KeptSomewhere, NothingStrandedQuietly, hist
  <2>4. QED
    BY <1>11, <2>1, <2>2, <2>3 DEF SendDM, MailInv, KeptSomewhere, WellDecided, hist
<1>12. ASSUME NEW n \in Nicknames, NEW k \in KeyPair, NEW yes \in BOOLEAN,
              SetClientHeldDMKey(n, k, yes)
       PROVE  MailInv'
  <2> DEFINE new == [op |-> "adopt", nick |-> n, saw |-> pubKey[n], key |-> k,
                     replace |-> yes, for |-> "cli"]
  <2>1. jobs' = jobs \cup {new}
    BY <1>12 DEF SetClientHeldDMKey, Begin
  <2>2. new \in Job /\ WellDecided(new)
    BY <1>12 DEF SetClientHeldDMKey, MayAdopt, Job, WellDecided, MailInv
  <2> HIDE DEF new
  <2>3. jobs' \subseteq Job /\ \A job \in jobs' : WellDecided(job)
    BY <2>1, <2>2 DEF MailInv
  <2>4. QED
    BY <1>12, <2>3, MailKept DEF SetClientHeldDMKey, MailInv
<1>13. ASSUME NEW n \in Nicknames, NEW yes \in BOOLEAN, ResetPasswordAsSysop(n, yes)
       PROVE  MailInv'
  <2> DEFINE new == [op |-> "reset", nick |-> n, saw |-> wrapped[n], key |-> NoKey,
                     replace |-> wrapped[n] # NoKey, for |-> "cli"]
  <2>1. jobs' = jobs \cup {new}
    BY <1>13 DEF ResetPasswordAsSysop, Begin
  <2>2. new \in Job /\ WellDecided(new)
    BY <1>13 DEF Job, WellDecided, MailInv
  <2> HIDE DEF new
  <2>3. jobs' \subseteq Job /\ \A job \in jobs' : WellDecided(job)
    BY <2>1, <2>2 DEF MailInv
  <2>4. QED
    BY <1>13, <2>3, MailKept DEF ResetPasswordAsSysop, MailInv
<1>14. ASSUME NEW n \in Nicknames, CheckMailAccess(n) \/ TryUnlock(n) \/ BackToMenu(n)
       PROVE  MailInv'
  BY <1>14, MailKept DEF CheckMailAccess, TryUnlock, BackToMenu, MailInv
<1>15. ASSUME NEW n \in Nicknames, CreateDMKey(n) PROVE MailInv'
  <2>1. made' \in Nat /\ jobs' \subseteq Job /\ \A job \in jobs' : WellDecided(job)
    BY <1>15, EnsuringIsDecided DEF CreateDMKey
  <2>2. QED
    BY <1>15, <2>1, MailKept DEF CreateDMKey, MailInv
<1>16. CASE UNCHANGED mailVars
  BY <1>16, MailKept DEF mailVars, MailInv
<1>17. QED
  BY <1>1, <1>2, <1>3, <1>4, <1>5, <1>6, <1>7, <1>8, <1>9, <1>10, <1>11, <1>12, <1>13,
     <1>14, <1>15, <1>16 DEF MailNext

----------------------------------------------------------------------------
(* Codes, ceremonies and passkeys. *)

\* A code is in one place at a time, and there once: in the table, at a request
\* that redeemed it, at a ceremony, or at the passkey that came of it.
OnePlace ==
    /\ \A m, n \in Member : \A c \in webCode[m], d \in webCode[n] : c.id = d.id => m = n /\ c = d
    /\ \A e, f \in enrolling : e.code = f.code => e = f
    /\ \A c, d \in ceremonies : c.code = d.code => c = d \/ c.code = 0
    /\ \A m \in Member : \A w \in webCode[m] :
          /\ \A e \in enrolling : e.code # w.id
          /\ \A c \in ceremonies : c.code # w.id
          /\ \A p \in passkeys : p.code # w.id
    /\ \A e \in enrolling :
          /\ \A c \in ceremonies : c.code # e.code
          /\ \A p \in passkeys : p.code # e.code
    /\ \A c \in ceremonies, p \in passkeys : c.code # p.code

\* An enrolment ceremony is an account's, for a code and with a handle.
CodeInv ==
    /\ tick \in Nat /\ codes \in Nat /\ handles \in Nat /\ begun \in Nat
    /\ webCode \in [Member -> SUBSET [id : Nat \ {0}, expires : Nat]]
    /\ \A m \in Member : \A c \in webCode[m] : c.id =< codes
    /\ enrolling \subseteq [nick : Member, code : 1 .. codes, saw : Nat]
    /\ ceremonies \subseteq [id : Nat, nick : Member \cup {Anybody}, code : 0 .. codes,
                             handle : Nat, expires : Nat]
    /\ \A c \in ceremonies : c.nick # Anybody => c.code # 0 /\ c.handle # NoHandle
    /\ IsFiniteSet(passkeys)
    /\ passkeys \subseteq [id : Nat, nick : Member, handle : Nat \ {NoHandle}, code : 1 .. codes,
                           stored : Nat]
    /\ handleOf \in [Member -> Nat]
    /\ OnePlace
    /\ OnePasskeyPerCode /\ PasskeysResolve

\* There is no code at the start.
LEMMA CodesStart == SignInInit => CodeInv
BY FS_EmptySet
   DEF SignInInit, CodeInv, OnePlace, OnePasskeyPerCode, PasskeysResolve, NoHandle

\* Every step of sign-in keeps codes and passkeys as they should be.
LEMMA CodeSteps == CodeInv /\ [SignInNext]_signInVars => CodeInv'
<1> SUFFICES ASSUME CodeInv, [SignInNext]_signInVars PROVE CodeInv'
  OBVIOUS
<1> USE SignInAssumption DEF codeVars, keyVars, ceremonyVars, NoHandle, Resolves
<1>1. CASE TickOn
  BY <1>1 DEF TickOn, CodeInv, OnePlace, OnePasskeyPerCode, PasskeysResolve
<1>2. ASSUME NEW m \in Member, IssueCode(m) PROVE CodeInv'
  <2>1. /\ webCode' = [webCode EXCEPT ![m] = {[id |-> codes + 1, expires |-> tick + CodeTTL]}]
        /\ codes' = codes + 1
        /\ UNCHANGED <<tick, limitVars, keyVars, ceremonyVars, enrolling>>
    BY <1>2 DEF IssueCode, PutCode
  <2>2. OnePlace'
    BY <2>1 DEF CodeInv, OnePlace
  <2>3. OnePasskeyPerCode' /\ PasskeysResolve'
    BY <2>1 DEF CodeInv, OnePasskeyPerCode, PasskeysResolve
  <2>4. QED
    BY <2>1, <2>2, <2>3 DEF CodeInv
<1>3. ASSUME NEW e \in enrolling, EnrolBegun(e) PROVE CodeInv'
  <2> DEFINE h == IF EnsureNeeded(e.saw) THEN handles + 1 ELSE e.saw
             new == [id |-> begun + 1, nick |-> e.nick, code |-> e.code, handle |-> h,
                     expires |-> tick + CeremonyTTL]
  <2>1. h \in Nat \ {0}
    BY DEF CodeInv, EnsureNeeded
  <2>2. /\ enrolling' = enrolling \ {e} /\ begun' = begun + 1
        /\ ceremonies' = {c \in ceremonies : tick < c.expires} \cup {new}
        /\ UNCHANGED <<tick, webCode, codes, passkeys>>
    BY <1>3 DEF EnrolBegun, Ceremonies
  <2>3. /\ handles' \in Nat /\ handleOf' \in [Member -> Nat] /\ PasskeysResolve'
    <3>1. CASE EnsureNeeded(e.saw)
      <4>1. /\ handles' = handles + 1 /\ handleOf' = [handleOf EXCEPT ![e.nick] = handles + 1]
            /\ stranded' = IF handleOf[e.nick] # e.saw
                           THEN stranded \cup {handleOf[e.nick]} ELSE stranded
            /\ e.saw = 0
        BY <1>3, <3>1 DEF EnrolBegun, EnsureNeeded
      <4>2. QED
        BY <2>2, <4>1 DEF CodeInv, PasskeysResolve
    <3>2. CASE ~EnsureNeeded(e.saw)
      BY <1>3, <2>2, <3>2 DEF EnrolBegun, CodeInv, PasskeysResolve
    <3>3. QED
      BY <3>1, <3>2
  <2>4. new \in [id : Nat, nick : Member \cup {Anybody}, code : 1 .. codes,
                 handle : Nat \ {0}, expires : Nat]
    BY <2>1 DEF CodeInv
  <2>5. new.code = e.code /\ new.handle = h
    OBVIOUS
  <2> HIDE DEF new, h
  <2>6. OnePlace'
    BY <2>2, <2>5 DEF CodeInv, OnePlace
  <2>7. QED
    BY <2>1, <2>2, <2>3, <2>4, <2>5, <2>6 DEF CodeInv, OnePasskeyPerCode
<1>4. ASSUME UNCHANGED <<tick, codeVars, keyVars, begun, enrolling>>, ceremonies' \subseteq ceremonies
      PROVE  CodeInv'
  BY <1>4 DEF CodeInv, OnePlace, OnePasskeyPerCode, PasskeysResolve
<1>5. ASSUME NEW o \in Origins, NEW l \in Limiters, Refused(l, o) PROVE CodeInv'
  BY <1>4, <1>5 DEF Refused
<1>6. ASSUME NEW o \in Origins, NEW l \in Limiters, NEW c \in ceremonies, AnswerFails(l, o, c)
      PROVE  CodeInv'
  BY <1>4, <1>6 DEF AnswerFails, Take
<1>7. ASSUME NEW o \in Origins, NEW m \in Member, NEW c \in webCode[m], EnrolBegin(o, m, c)
      PROVE  CodeInv'
  <2> DEFINE new == [nick |-> m, code |-> c.id, saw |-> handleOf[m]]
  <2>1. /\ webCode' = [webCode EXCEPT ![m] = {}]
        /\ enrolling' \subseteq enrolling \cup {new}
        /\ UNCHANGED <<tick, codes, keyVars, ceremonyVars>>
    BY <1>7 DEF EnrolBegin, Redeem
  <2>2. new \in [nick : Member, code : 1 .. codes, saw : Nat] /\ new.code = c.id
    BY DEF CodeInv
  <2> HIDE DEF new
  <2>3. OnePlace'
    BY <2>1, <2>2 DEF CodeInv, OnePlace
  <2>4. OnePasskeyPerCode' /\ PasskeysResolve'
    BY <2>1 DEF CodeInv, OnePasskeyPerCode, PasskeysResolve
  <2>5. QED
    BY <2>1, <2>2, <2>3, <2>4 DEF CodeInv
<1>8. ASSUME NEW o \in Origins, NEW c \in ceremonies, EnrolFinish(o, c) PROVE CodeInv'
  <2> DEFINE new == [id |-> Cardinality(passkeys) + 1, nick |-> c.nick, handle |-> c.handle,
                     code |-> c.code, stored |-> 0]
  <2>1. /\ ceremonies' \subseteq ceremonies \ {c}
        /\ UNCHANGED <<tick, codeVars, handleOf, handles, stranded, begun, enrolling>>
    BY <1>8 DEF EnrolFinish, Take
  <2>2. CASE passkeys' = passkeys
    BY <1>4, <2>1, <2>2
  <2>3. CASE passkeys' # passkeys
    <3>1. /\ passkeys' = passkeys \cup {new}
          /\ c.nick # Anybody /\ handleOf[c.nick] = c.handle
      BY <1>8, <2>3 DEF EnrolFinish, AddPasskey
    <3>2. IsFiniteSet(passkeys') /\ Cardinality(passkeys) \in Nat
      BY <3>1, FS_AddElement, FS_CardinalityType DEF CodeInv
    <3>3. new \in [id : Nat, nick : Member, handle : Nat \ {NoHandle}, code : 1 .. codes,
                   stored : Nat]
      BY <3>1, <3>2 DEF CodeInv
    <3>4. new.code = c.code /\ new.nick = c.nick /\ new.handle = c.handle
      OBVIOUS
    <3> HIDE DEF new
    <3>5. OnePlace'
      BY <2>1, <3>1, <3>3, <3>4 DEF CodeInv, OnePlace
    <3>6. OnePasskeyPerCode'
      BY <3>1, <3>4 DEF CodeInv, OnePlace, OnePasskeyPerCode
    <3>7. PasskeysResolve'
      BY <2>1, <3>1, <3>3, <3>4 DEF CodeInv, PasskeysResolve
    <3>8. QED
      BY <2>1, <3>1, <3>2, <3>3, <3>5, <3>6, <3>7 DEF CodeInv
  <2>4. QED
    BY <2>2, <2>3
<1>9. ASSUME NEW o \in Origins, LoginBegin(o) PROVE CodeInv'
  <2> DEFINE new == [id |-> begun + 1, nick |-> Anybody, code |-> 0, handle |-> NoHandle,
                     expires |-> tick + CeremonyTTL]
  <2>1. /\ begun' = begun + 1 /\ ceremonies' = {c \in ceremonies : tick < c.expires} \cup {new}
        /\ UNCHANGED <<tick, codeVars, keyVars, enrolling>>
    BY <1>9 DEF LoginBegin, Ceremonies
  <2>2. /\ new \in [id : Nat, nick : Member \cup {Anybody}, code : 0 .. codes,
                    handle : Nat, expires : Nat]
        /\ new.code = 0 /\ new.nick = Anybody
    BY DEF CodeInv
  <2> HIDE DEF new
  <2>3. OnePlace'
    BY <2>1, <2>2 DEF CodeInv, OnePlace
  <2>4. QED
    BY <2>1, <2>2, <2>3 DEF CodeInv, OnePasskeyPerCode, PasskeysResolve
<1>10. ASSUME NEW o \in Origins, NEW c \in ceremonies, NEW p \in passkeys, NEW count \in 0 .. 1,
              LoginFinish(o, c, p, count)
       PROVE  CodeInv'
  <2> DEFINE new == [p EXCEPT !.stored = count]
  <2>1. /\ ceremonies' \subseteq ceremonies
        /\ UNCHANGED <<tick, codeVars, handleOf, handles, stranded, begun, enrolling>>
    BY <1>10 DEF LoginFinish, Take
  <2>2. CASE passkeys' = passkeys
    BY <1>4, <2>1, <2>2
  <2>3. CASE passkeys' = (passkeys \ {p}) \cup {new}
    <3>1. /\ new \in [id : Nat, nick : Member, handle : Nat \ {NoHandle}, code : 1 .. codes,
                      stored : Nat]
          /\ new.code = p.code /\ new.nick = p.nick /\ new.handle = p.handle
      BY DEF CodeInv
    <3> HIDE DEF new
    <3>2. IsFiniteSet(passkeys')
      BY <2>3, FS_RemoveElement, FS_AddElement DEF CodeInv
    <3>3. OnePlace'
      BY <2>1, <2>3, <3>1 DEF CodeInv, OnePlace
    <3>4. OnePasskeyPerCode'
      BY <2>3, <3>1 DEF CodeInv, OnePasskeyPerCode
    <3>5. PasskeysResolve'
      BY <2>1, <2>3, <3>1 DEF CodeInv, PasskeysResolve
    <3>6. QED
      BY <2>1, <2>3, <3>1, <3>2, <3>3, <3>4, <3>5 DEF CodeInv
  <2>4. QED
    BY <1>10, <2>2, <2>3 DEF LoginFinish
<1>11. CASE UNCHANGED signInVars
  BY <1>4, <1>11 DEF signInVars
<1>12. QED
  BY <1>1, <1>2, <1>3, <1>5, <1>6, <1>7, <1>8, <1>9, <1>10, <1>11 DEF SignInNext

----------------------------------------------------------------------------
(* The limiter. *)

\* Products of numbers.
LEMMA Product ==
    ASSUME NEW a \in Nat, NEW x \in Int, NEW y \in Int
    PROVE  /\ a * x \in Int /\ a * (x + y) = a * x + a * y /\ a * (x - y) = a * x - a * y
           /\ a * 0 = 0 /\ a * 1 = a /\ x * a = a * x
           /\ x =< y => a * x =< a * y
OBVIOUS

\* One tick more.
LEMMA OneMore ==
    ASSUME NEW a \in Nat, NEW d \in Nat
    PROVE  (d + 1) * a = d * a + a /\ d * a \in Nat
OBVIOUS

\* What a key's bucket holds now; one that was never made, or was swept, is full.
Holds(bs, k) == IF k \in DOMAIN bs THEN Refilled(k, bs[k]).tokens ELSE Capacity(k)

BucketsAreSound(bs) ==
    /\ bs = [k \in DOMAIN bs |-> bs[k]]
    /\ \A k \in DOMAIN bs : /\ bs[k] \in [tokens : Nat, last : Nat]
                            /\ bs[k].tokens =< Capacity(k) /\ bs[k].last =< tick

\* Allowances, capacities and the price of an attempt are numbers.
LEMMA Numbers ==
    /\ TokenPrice \in Nat
    /\ \A k : Allowance(k) \in Nat /\ Capacity(k) \in Nat /\ Capacity(k) = HourLength * Allowance(k)
BY SignInAssumption DEF TokenPrice, Allowance, Capacity

\* A refilled bucket is not over its capacity; an hour fills any.
LEMMA RefillingFills ==
    ASSUME tick \in Nat, NEW k, NEW b \in [tokens : Nat, last : Nat], b.last =< tick,
           b.tokens =< Capacity(k)
    PROVE  /\ Refilled(k, b).tokens \in Nat /\ Refilled(k, b).tokens =< Capacity(k)
           /\ b.last = tick => Refilled(k, b).tokens = b.tokens
           /\ tick - b.last >= HourLength => Refilled(k, b).tokens = Capacity(k)
<1> DEFINE gained == (tick - b.last) * Allowance(k)
<1>1. /\ tick - b.last \in Nat /\ Allowance(k) \in Nat /\ Capacity(k) \in Nat
      /\ Capacity(k) = HourLength * Allowance(k) /\ HourLength \in Nat
  BY Numbers, SignInAssumption
<1>2. gained \in Nat
  BY <1>1
<1>3. tick - b.last >= HourLength => gained >= Capacity(k)
  BY <1>1, Product
<1>4. b.last = tick => gained = 0
  BY <1>1
<1>5. Refilled(k, b).tokens = IF b.tokens + gained < Capacity(k) THEN b.tokens + gained ELSE Capacity(k)
  BY DEF Refilled
<1> HIDE DEF gained
<1>6. QED
  BY <1>1, <1>2, <1>3, <1>4, <1>5

\* What a bucket holds is a number up to its capacity.
LEMMA HoldsIsBounded ==
    ASSUME tick \in Nat, NEW bs, BucketsAreSound(bs), NEW k
    PROVE  Holds(bs, k) \in Nat /\ Holds(bs, k) =< Capacity(k)
BY Numbers, RefillingFills DEF Holds, BucketsAreSound

\* An attempt takes a token off its own bucket when there is one, and nothing off
\* the others, the swept ones included.
LEMMA SpendingTakesOne ==
    ASSUME tick \in Nat, NEW bs, BucketsAreSound(bs), NEW k
    PROVE  /\ BucketsAreSound(Spent(bs, k))
           /\ (Affords(bs, k) <=> Holds(bs, k) >= TokenPrice)
           /\ Holds(Spent(bs, k), k) = Holds(bs, k) - (IF Affords(bs, k) THEN TokenPrice ELSE 0)
           /\ \A x : x # k => Holds(Spent(bs, k), x) = Holds(bs, x)
<1> DEFINE found == Found(bs, k)
<1>1. TokenPrice \in Nat /\ Capacity(k) \in Nat
  BY Numbers
<1>2. /\ found = [x \in DOMAIN found |-> found[x]] /\ k \in DOMAIN found
      /\ \A x \in DOMAIN found : \/ x \in DOMAIN bs /\ found[x] = bs[x]
                                 \/ x = k /\ k \notin DOMAIN bs
      /\ k \notin DOMAIN bs => found[k] = [tokens |-> Capacity(k), last |-> tick]
      /\ \A x \in DOMAIN bs \ DOMAIN found : tick - bs[x].last >= HourLength
  <2>1. CASE k \in DOMAIN bs
    BY <2>1 DEF Found, BucketsAreSound
  <2>2. CASE k \notin DOMAIN bs
    <3>1. /\ DOMAIN SweptBuckets(bs) \subseteq DOMAIN bs
          /\ \A x \in DOMAIN bs \ DOMAIN SweptBuckets(bs) : ~(tick - bs[x].last < HourLength)
      BY DEF SweptBuckets
    <3>2. found = [x \in DOMAIN SweptBuckets(bs) \cup {k} |->
                     IF x = k THEN [tokens |-> Capacity(k), last |-> tick] ELSE bs[x]]
      BY <2>2 DEF Found
    <3>3. \A x \in DOMAIN bs : tick - bs[x].last \in Int
      BY DEF BucketsAreSound
    <3>4. QED
      BY <2>2, <3>1, <3>2, <3>3, SignInAssumption
  <2>3. QED
    BY <2>1, <2>2
<1>3. Refilled(k, found[k]).tokens = Holds(bs, k) /\ Refilled(k, found[k]).last = tick
  BY <1>1, <1>2, RefillingFills DEF Holds, Refilled
<1>4. Affords(bs, k) <=> Holds(bs, k) >= TokenPrice
  BY <1>3 DEF Affords
<1>5. Holds(bs, k) \in Nat /\ Holds(bs, k) =< Capacity(k)
  BY HoldsIsBounded
<1> DEFINE left == Holds(bs, k) - (IF Affords(bs, k) THEN TokenPrice ELSE 0)
<1>6. left \in Nat /\ left =< Capacity(k)
  BY <1>1, <1>4, <1>5
<1>7. Spent(bs, k) = [found EXCEPT ![k] = [tokens |-> left, last |-> tick]]
  BY <1>3 DEF Spent
<1> HIDE DEF found, left
<1>8. BucketsAreSound(Spent(bs, k))
  <2>1. /\ Spent(bs, k) = [x \in DOMAIN Spent(bs, k) |-> Spent(bs, k)[x]]
        /\ DOMAIN Spent(bs, k) = DOMAIN found
    BY <1>2, <1>7
  <2>2. ASSUME NEW x \in DOMAIN found
        PROVE  /\ Spent(bs, k)[x] \in [tokens : Nat, last : Nat]
               /\ Spent(bs, k)[x].tokens =< Capacity(x) /\ Spent(bs, k)[x].last =< tick
    BY <1>2, <1>6, <1>7 DEF BucketsAreSound
  <2>3. QED
    BY <2>1, <2>2 DEF BucketsAreSound
<1>9. Holds(Spent(bs, k), k) = left
  BY <1>2, <1>6, <1>7, RefillingFills DEF Holds
<1>10. ASSUME NEW x, x # k PROVE Holds(Spent(bs, k), x) = Holds(bs, x)
  <2>1. DOMAIN Spent(bs, k) = DOMAIN found /\ (x \in DOMAIN found => Spent(bs, k)[x] = bs[x])
    BY <1>2, <1>7, <1>10
  <2>2. x \in DOMAIN bs \ DOMAIN found => Refilled(x, bs[x]).tokens = Capacity(x)
    BY <1>2, RefillingFills DEF BucketsAreSound
  <2>3. x \in DOMAIN found => x \in DOMAIN bs
    BY <1>2, <1>10
  <2>4. QED
    BY <2>1, <2>2, <2>3 DEF Holds
<1>11. QED
  BY <1>4, <1>8, <1>9, <1>10 DEF left

\* The attempts a key was allowed, in order, and what its bucket holds at now: none
\* of them has had more since than a full bucket and what it gained.
Paced(s, held, k, now) ==
    /\ \A i, j \in 1 .. Len(s) : i =< j =>
          /\ s[i] =< s[j]
          /\ TokenPrice * (j - i + 1) =< Capacity(k) + Allowance(k) * (s[j] - s[i])
    /\ \A i \in 1 .. Len(s) :
          /\ s[i] =< now
          /\ TokenPrice * (Len(s) - i + 1) + held =< Capacity(k) + Allowance(k) * (now - s[i])

\* A bucket that holds less is no worse.
LEMMA LessIsPaced ==
    ASSUME NEW k, NEW s \in Seq(Nat), NEW now \in Nat, NEW held \in Nat, NEW less \in Nat,
           Paced(s, held, k, now), less =< held
    PROVE  Paced(s, less, k, now)
<1>1. TokenPrice \in Nat /\ Allowance(k) \in Nat /\ Capacity(k) \in Nat
  BY Numbers
<1>2. ASSUME NEW i \in 1 .. Len(s)
      PROVE  TokenPrice * (Len(s) - i + 1) + less =< Capacity(k) + Allowance(k) * (now - s[i])
  <2> DEFINE used == TokenPrice * (Len(s) - i + 1)
             gained == Allowance(k) * (now - s[i])
  <2>1. used \in Int /\ gained \in Int
    BY <1>1
  <2>2. used + held =< Capacity(k) + gained
    BY DEF Paced
  <2> HIDE DEF used, gained
  <2>3. used + less =< Capacity(k) + gained
    BY <1>1, <2>1, <2>2
  <2>4. QED
    BY <2>3 DEF used, gained
<1>3. QED
  BY <1>2 DEF Paced

\* A tick fills a bucket by the allowance at most.
LEMMA LaterIsPaced ==
    ASSUME NEW k, NEW s \in Seq(Nat), NEW now \in Nat, NEW held \in Nat, NEW more \in Nat,
           Paced(s, held, k, now), more =< held + Allowance(k)
    PROVE  Paced(s, more, k, now + 1)
<1>1. TokenPrice \in Nat /\ Allowance(k) \in Nat /\ Capacity(k) \in Nat
  BY Numbers
<1>2. ASSUME NEW i \in 1 .. Len(s)
      PROVE  TokenPrice * (Len(s) - i + 1) + more
             =< Capacity(k) + Allowance(k) * (now + 1 - s[i])
  <2> DEFINE used == TokenPrice * (Len(s) - i + 1)
             gained == Allowance(k) * (now - s[i])
  <2>1. used \in Int /\ gained \in Int
    BY <1>1
  <2>2. used + held =< Capacity(k) + gained
    BY DEF Paced
  <2>3. Allowance(k) * (now + 1 - s[i]) = gained + Allowance(k)
    <3>1. now - s[i] \in Int /\ now + 1 - s[i] = (now - s[i]) + 1
      OBVIOUS
    <3>2. QED
      BY <1>1, <3>1, Product
  <2> HIDE DEF gained
  <2> HIDE DEF used
  <2>4. used + more =< Capacity(k) + (gained + Allowance(k))
    BY <1>1, <2>1, <2>2
  <2>5. QED
    BY <2>3, <2>4 DEF used
<1>3. QED
  BY <1>2 DEF Paced

\* A token is spent on one more attempt.
LEMMA SpendingIsPaced ==
    ASSUME NEW k, NEW s \in Seq(Nat), NEW now \in Nat, NEW held \in Nat, NEW left \in Nat,
           Paced(s, held, k, now), held =< Capacity(k), left + TokenPrice =< held
    PROVE  Paced(Append(s, now), left, k, now)
<1> DEFINE t == Append(s, now)
<1>1. TokenPrice \in Nat /\ Allowance(k) \in Nat /\ Capacity(k) \in Nat
  BY Numbers
<1>2. /\ Len(t) = Len(s) + 1 /\ t[Len(s) + 1] = now /\ Len(s) \in Nat
      /\ \A i \in 1 .. Len(s) : t[i] = s[i] /\ s[i] \in Nat
  OBVIOUS
<1>3. ASSUME NEW i \in 1 .. Len(s) + 1
      PROVE  /\ t[i] =< now
             /\ TokenPrice * (Len(s) + 1 - i + 1) + left
                  =< Capacity(k) + Allowance(k) * (now - t[i])
  <2>1. CASE i \in 1 .. Len(s)
    <3> DEFINE used == TokenPrice * (Len(s) - i + 1)
               gained == Allowance(k) * (now - s[i])
    <3>1. used \in Int /\ gained \in Int
      BY <1>1, <1>2, <2>1
    <3>2. used + held =< Capacity(k) + gained /\ s[i] =< now
      BY <2>1 DEF Paced
    <3>3. TokenPrice * (Len(s) + 1 - i + 1) = used + TokenPrice
      <4>1. Len(s) - i + 1 \in Int /\ Len(s) + 1 - i + 1 = (Len(s) - i + 1) + 1
        BY <1>2
      <4>2. QED
        BY <1>1, <4>1, Product
    <3> HIDE DEF used
    <3> HIDE DEF gained
    <3>4. used + TokenPrice + left =< Capacity(k) + gained
      BY <1>1, <3>1, <3>2
    <3>5. QED
      BY <1>2, <2>1, <3>2, <3>3, <3>4 DEF gained
  <2>2. CASE i = Len(s) + 1
    <3>1. /\ TokenPrice * (Len(s) + 1 - i + 1) = TokenPrice /\ Allowance(k) * (now - t[i]) = 0
          /\ t[i] = now
      BY <1>1, <1>2, <2>2
    <3>2. QED
      BY <1>1, <3>1
  <2>3. QED
    BY <1>2, <2>1, <2>2
<1>4. ASSUME NEW i \in 1 .. Len(s) + 1, NEW j \in 1 .. Len(s) + 1, i =< j
      PROVE  /\ t[i] =< t[j]
             /\ TokenPrice * (j - i + 1) =< Capacity(k) + Allowance(k) * (t[j] - t[i])
  <2>1. CASE j \in 1 .. Len(s)
    <3>1. i \in 1 .. Len(s)
      BY <1>4, <2>1
    <3>2. QED
      BY <1>2, <1>4, <2>1, <3>1 DEF Paced
  <2>2. CASE j = Len(s) + 1
    <3> DEFINE used == TokenPrice * (j - i + 1)
               gained == Allowance(k) * (now - t[i])
    <3>1. used \in Int /\ gained \in Int
      BY <1>1, <1>2, <2>2
    <3>2. used + left =< Capacity(k) + gained /\ t[i] =< now
      BY <1>3, <2>2
    <3> HIDE DEF used
    <3>3. used =< Capacity(k) + gained
      <4> HIDE DEF gained
      <4>1. QED
        BY <1>1, <3>1, <3>2
    <3>4. QED
      BY <1>2, <2>2, <3>2, <3>3 DEF used
  <2>3. QED
    BY <1>2, <2>1, <2>2
<1> HIDE DEF t
<1>5. Paced(t, left, k, now)
  BY <1>2, <1>3, <1>4 DEF Paced
<1>6. QED
  BY <1>5 DEF t

RateInv ==
    /\ tick \in Nat
    /\ buckets = [l \in Limiters |-> buckets[l]]
    /\ passed \in [Limiters -> [Keys -> Seq(Nat)]]
    /\ \A l \in Limiters :
          /\ BucketsAreSound(buckets[l])
          /\ \A k \in Keys : Paced(passed[l][k], Holds(buckets[l], k), k, tick)

\* Nobody has tried anything at the start.
LEMMA RateStarts == SignInInit => RateInv
<1> SUFFICES ASSUME SignInInit PROVE RateInv
  OBVIOUS
<1>1. \A k, held : Paced(<< >>, held, k, 0)
  BY DEF Paced
<1>2. BucketsAreSound(<< >>)
  BY DEF BucketsAreSound
<1>3. QED
  BY <1>1, <1>2 DEF SignInInit, RateInv

\* An attempt is paid for by the key it is counted for.
LEMMA AttemptIsPaid ==
    ASSUME RateInv, NEW l \in Limiters, NEW o \in Origins, Attempt(l, o), tick' = tick
    PROVE  RateInv'
<1> DEFINE k == ClientKey(o)
           mine == Spent(buckets[l], k)
           paid == IF ~Affords(buckets[l], k) THEN {}
                   ELSE {k} \cup (IF Affords(mine, Everyone) THEN {Everyone} ELSE {})
           new == IF k \in paid THEN Spent(mine, Everyone) ELSE mine
<1>1. /\ buckets' = [buckets EXCEPT ![l] = new]
      /\ passed' = [passed EXCEPT ![l] =
                      [x \in Keys |-> IF x \in paid THEN Append(@[x], tick) ELSE @[x]]]
  BY DEF Attempt
<1>2. BucketsAreSound(buckets[l]) /\ tick \in Nat /\ TokenPrice \in Nat
  BY Numbers DEF RateInv
<1>3. BucketsAreSound(mine)
  BY <1>2, SpendingTakesOne
<1>4. BucketsAreSound(new)
  BY <1>2, <1>3, SpendingTakesOne
<1>5. \A x : /\ Holds(buckets[l], x) \in Nat /\ Holds(buckets[l], x) =< Capacity(x)
             /\ Holds(mine, x) \in Nat /\ Holds(new, x) \in Nat
  BY <1>2, <1>3, <1>4, HoldsIsBounded
<1>6. \A x : Holds(new, x) =< Holds(mine, x) /\ Holds(mine, x) =< Holds(buckets[l], x)
  <2>1. \A x : Holds(mine, x) =< Holds(buckets[l], x)
    BY <1>2, <1>5, SpendingTakesOne
  <2>2. \A x : Holds(Spent(mine, Everyone), x) =< Holds(mine, x)
    <3>1. \A x : Holds(Spent(mine, Everyone), x) \in Nat
      BY <1>2, <1>3, SpendingTakesOne, HoldsIsBounded
    <3>2. QED
      BY <1>2, <1>3, <1>5, <3>1, SpendingTakesOne
  <2>3. QED
    BY <1>5, <2>1, <2>2
<1>7. ASSUME NEW x \in paid PROVE Holds(new, x) + TokenPrice =< Holds(buckets[l], x)
  <2>1. Affords(buckets[l], k) /\ k \in paid
    BY <1>7
  <2>2. CASE x = k
    <3>1. Holds(mine, k) = Holds(buckets[l], k) - TokenPrice
      BY <1>2, <2>1, SpendingTakesOne
    <3>2. Holds(new, k) =< Holds(mine, k)
      BY <1>6
    <3> HIDE DEF k, mine, paid, new
    <3>3. QED
      BY <1>2, <1>5, <2>2, <3>1, <3>2
  <2>3. CASE x # k
    <3>1. x = Everyone /\ Affords(mine, Everyone) /\ new = Spent(mine, Everyone)
      BY <1>7, <2>1, <2>3
    <3>2. Holds(new, x) = Holds(mine, x) - TokenPrice
      BY <1>2, <1>3, <3>1, SpendingTakesOne
    <3>3. Holds(mine, x) =< Holds(buckets[l], x)
      BY <1>6
    <3> HIDE DEF k, mine, paid, new
    <3>4. QED
      BY <1>2, <1>5, <3>2, <3>3
  <2>4. QED
    BY <2>2, <2>3
<1> HIDE DEF k, mine, paid, new
<1>8. ASSUME NEW x \in Keys
      PROVE  /\ passed'[l][x] \in Seq(Nat)
             /\ Paced(passed'[l][x], Holds(new, x), x, tick)
  <2>1. passed[l][x] \in Seq(Nat) /\ Paced(passed[l][x], Holds(buckets[l], x), x, tick)
    BY DEF RateInv
  <2>2. CASE x \in paid
    <3>1. passed'[l][x] = Append(passed[l][x], tick)
      BY <1>1, <2>2 DEF RateInv
    <3>2. QED
      BY <1>2, <1>5, <1>7, <2>1, <2>2, <3>1, SpendingIsPaced
  <2>3. CASE x \notin paid
    <3>1. passed'[l][x] = passed[l][x]
      BY <1>1, <2>3 DEF RateInv
    <3>2. Holds(new, x) =< Holds(buckets[l], x)
      BY <1>5, <1>6
    <3>3. QED
      BY <1>2, <1>5, <2>1, <3>1, <3>2, LessIsPaced
  <2>4. QED
    BY <2>2, <2>3
<1>9. passed' \in [Limiters -> [Keys -> Seq(Nat)]] /\ buckets' = [d \in Limiters |-> buckets'[d]]
  BY <1>1, <1>8 DEF RateInv
<1>10. \A d \in Limiters, x \in Keys : Holds(buckets[d], x)' = Holds(buckets'[d], x)
  BY DEF Holds, Refilled
<1>11. \A d \in Limiters : BucketsAreSound(buckets[d])' = BucketsAreSound(buckets'[d])
  BY DEF BucketsAreSound
<1>12. ASSUME NEW d \in Limiters
       PROVE  /\ BucketsAreSound(buckets'[d])
              /\ \A x \in Keys : Paced(passed'[d][x], Holds(buckets'[d], x), x, tick)
  <2>1. CASE d = l
    BY <1>1, <1>4, <1>8, <2>1 DEF RateInv
  <2>2. CASE d # l
    BY <1>1, <2>2 DEF RateInv
  <2>3. QED
    BY <2>1, <2>2
<1>13. QED
  BY <1>2, <1>9, <1>10, <1>11, <1>12 DEF RateInv

\* A tick adds the allowance at most to what a bucket holds.
LEMMA TickIsPaced == RateInv /\ TickOn => RateInv'
<1> SUFFICES ASSUME RateInv, TickOn PROVE RateInv'
  OBVIOUS
<1>1. tick \in Nat /\ tick' = tick + 1 /\ UNCHANGED <<buckets, passed>>
  BY DEF TickOn, RateInv, limitVars
<1>2. ASSUME NEW l \in Limiters PROVE BucketsAreSound(buckets[l])'
  BY <1>1 DEF RateInv, BucketsAreSound
<1>3. ASSUME NEW l \in Limiters, NEW k \in Keys
      PROVE  /\ Holds(buckets[l], k)' \in Nat
             /\ Holds(buckets[l], k)' =< Holds(buckets[l], k) + Allowance(k)
  <2>1. /\ Allowance(k) \in Nat /\ Capacity(k) \in Nat
        /\ BucketsAreSound(buckets[l])
    BY Numbers DEF RateInv
  <2>2. CASE k \in DOMAIN buckets[l]
    <3> DEFINE b == buckets[l][k]
               gained == (tick - b.last) * Allowance(k)
               more == (tick + 1 - b.last) * Allowance(k)
    <3>1. b.tokens \in Nat /\ b.last \in Nat /\ b.last =< tick
      BY <2>1, <2>2 DEF BucketsAreSound
    <3>2. more = gained + Allowance(k) /\ gained \in Nat
      <4>1. tick - b.last \in Nat /\ tick + 1 - b.last = (tick - b.last) + 1
        BY <1>1, <3>1
      <4>2. QED
        BY <2>1, <4>1, OneMore
    <3>3. Holds(buckets[l], k) =
            IF b.tokens + gained < Capacity(k) THEN b.tokens + gained ELSE Capacity(k)
      BY <2>2 DEF Holds, Refilled
    <3>4. Holds(buckets[l], k)' =
            IF b.tokens + more < Capacity(k) THEN b.tokens + more ELSE Capacity(k)
      <4> DEFINE later == (tick' - b.last) * Allowance(k)
      <4>1. Holds(buckets[l], k)' =
              IF b.tokens + later < Capacity(k) THEN b.tokens + later ELSE Capacity(k)
        BY <1>1, <2>2 DEF Holds, Refilled
      <4>2. later = more
        BY <1>1, <2>1, <3>1
      <4> HIDE DEF later, more
      <4>3. QED
        BY <4>1, <4>2
    <3> HIDE DEF gained, more
    <3>5. QED
      BY <2>1, <3>1, <3>2, <3>3, <3>4
  <2>3. CASE k \notin DOMAIN buckets[l]
    BY <1>1, <2>1, <2>3 DEF Holds
  <2>4. QED
    BY <2>2, <2>3
<1>4. ASSUME NEW l \in Limiters, NEW k \in Keys
      PROVE  Paced(passed[l][k], Holds(buckets[l], k), k, tick)'
  <2>1. /\ passed[l][k] \in Seq(Nat) /\ Holds(buckets[l], k) \in Nat
        /\ Paced(passed[l][k], Holds(buckets[l], k), k, tick)
    BY HoldsIsBounded DEF RateInv
  <2>2. Paced(passed[l][k], Holds(buckets[l], k)', k, tick + 1)
    BY <1>1, <1>3, <2>1, LaterIsPaced
  <2>3. QED
    BY <1>1, <2>2 DEF Paced
<1>5. QED
  BY <1>1, <1>2, <1>4 DEF RateInv

\* Every step of sign-in keeps the pace.
LEMMA RateSteps == RateInv /\ [SignInNext]_signInVars => RateInv'
<1> SUFFICES ASSUME RateInv, [SignInNext]_signInVars PROVE RateInv'
  OBVIOUS
<1>1. ASSUME UNCHANGED <<tick, limitVars>> PROVE RateInv'
  BY <1>1 DEF limitVars, RateInv, BucketsAreSound, Paced, Holds, Refilled
<1>2. CASE TickOn
  BY <1>2, TickIsPaced
<1>3. CASE \E m \in Member : IssueCode(m)
  BY <1>1, <1>3 DEF IssueCode
<1>4. CASE \E e \in enrolling : EnrolBegun(e)
  BY <1>1, <1>4 DEF EnrolBegun
<1>5. ASSUME NEW o \in Origins, NEW l \in Limiters,
             Refused(l, o) \/ \E c \in ceremonies : AnswerFails(l, o, c)
      PROVE  RateInv'
  BY <1>5, AttemptIsPaid DEF Refused, AnswerFails
<1>6. ASSUME NEW o \in Origins,
             \/ \E m \in Member : \E c \in webCode[m] : EnrolBegin(o, m, c)
             \/ \E c \in ceremonies : EnrolFinish(o, c)
             \/ LoginBegin(o)
             \/ \E c \in ceremonies, p \in passkeys, count \in 0 .. 1 : LoginFinish(o, c, p, count)
      PROVE  RateInv'
  <2>1. /\ tick' = tick
        /\ Attempt("enrol", o) \/ Attempt("auth", o)
    BY <1>6 DEF EnrolBegin, EnrolFinish, LoginBegin, LoginFinish
  <2>2. QED
    BY <2>1, AttemptIsPaid DEF Limiters
<1>7. CASE UNCHANGED signInVars
  BY <1>1, <1>7 DEF signInVars
<1>8. QED
  BY <1>2, <1>3, <1>4, <1>5, <1>6, <1>7 DEF SignInNext

\* What is no larger than a number of the set has a greatest element.
LEMMA GreatestNumber ==
    ASSUME NEW n \in Nat, NEW S, S \subseteq 1 .. n, S # {}
    PROVE  \E m \in S : \A k \in S : k =< m
<1> DEFINE below == {d \in 0 .. n : n - d \in S}
<1>1. \A k \in 1 .. n : n - k \in 0 .. n /\ n - (n - k) = k
  OBVIOUS
<1>2. ASSUME NEW k \in S PROVE k \in 1 .. n /\ n - k \in below
  <2>1. k \in 1 .. n /\ n - k \in 0 .. n /\ n - (n - k) \in S
    BY <1>1
  <2>2. QED
    BY <2>1
<1>3. \A d \in below : d \in Nat /\ n - d \in S
  OBVIOUS
<1> HIDE DEF below
<1>4. below \subseteq Nat /\ below # {}
  BY <1>2, <1>3
<1>5. PICK d \in below : \A k \in below : d =< k
  BY <1>4, LeastNumber
<1>6. d \in Nat /\ n - d \in S
  BY <1>3
<1>7. ASSUME NEW k \in S PROVE k =< n - d
  BY <1>2, <1>5, <1>6
<1>8. QED
  BY <1>6, <1>7

\* A bound on more events in less time is a bound on fewer in more.
LEMMA Within ==
    ASSUME NEW a \in Nat, NEW b \in Nat, NEW c \in Nat, NEW n \in Nat, NEW m \in Int,
           NEW d \in Int, NEW e \in Int, n =< m, d =< e, a * m =< c + b * d
    PROVE  a * n =< c + b * e
<1>1. a * n =< a * m /\ b * d =< b * e
  BY Product
<1> DEFINE x == a * n  y == a * m  z == b * d  w == b * e
<1>2. x \in Int /\ y \in Int /\ z \in Int /\ w \in Int
  BY Product
<1>3. x =< y /\ y =< c + z /\ z =< w
  BY <1>1
<1> HIDE DEF x, y, z, w
<1>4. x =< c + w
  BY <1>2, <1>3
<1>5. QED
  BY <1>4 DEF x, w

\* Attempts that were paid for keep within the limit.
LEMMA RateGoal == RateInv => AttemptsAreBounded
<1> SUFFICES ASSUME RateInv, NEW l \in Limiters, NEW k \in Keys,
                    NEW i \in DOMAIN passed[l][k]
             PROVE  TokenPrice * Cardinality({j \in DOMAIN passed[l][k] :
                                  passed[l][k][j] - passed[l][k][i] \in 0 .. (HourLength - 1)})
                    <= Capacity(k) + Allowance(k) * (HourLength - 1)
  BY DEF AttemptsAreBounded
<1> DEFINE s == passed[l][k]
           hour == {j \in DOMAIN s : s[j] - s[i] \in 0 .. (HourLength - 1)}
<1>1. s \in Seq(Nat) /\ Paced(s, Holds(buckets[l], k), k, tick)
  BY DEF RateInv
<1>2. /\ TokenPrice \in Nat /\ Allowance(k) \in Nat /\ Capacity(k) \in Nat
      /\ HourLength \in Nat \ {0}
  BY Numbers, SignInAssumption
<1>3. i \in DOMAIN s /\ DOMAIN s = 1 .. Len(s) /\ Len(s) \in Nat
  BY <1>1
<1> HIDE DEF s
<1>4. \A j \in 1 .. Len(s) : s[j] \in Nat
  BY <1>1
<1>5. hour \subseteq 1 .. Len(s) /\ i \in hour
  BY <1>2, <1>3, <1>4
<1>6. \A j \in hour : s[j] - s[i] \in 0 .. (HourLength - 1)
  OBVIOUS
<1> HIDE DEF hour
<1>7. PICK lo \in hour : \A j \in hour : lo =< j
  <2>1. hour \subseteq Nat /\ hour # {}
    BY <1>5
  <2>2. QED
    BY <2>1, LeastNumber
<1>8. PICK hi \in hour : \A j \in hour : j =< hi
  <2>1. hour # {}
    BY <1>5
  <2>2. QED
    BY <1>3, <1>5, <2>1, GreatestNumber
<1>9. lo \in 1 .. Len(s) /\ hi \in 1 .. Len(s) /\ lo =< hi /\ hour \subseteq lo .. hi
  BY <1>5, <1>7, <1>8
<1>10. s[hi] - s[lo] \in Int /\ s[hi] - s[lo] =< HourLength - 1
  BY <1>2, <1>3, <1>4, <1>6, <1>9
<1>11. Cardinality(hour) \in Nat /\ Cardinality(hour) =< hi - lo + 1
  <2>1. IsFiniteSet(lo .. hi) /\ Cardinality(lo .. hi) = hi - lo + 1
    BY <1>9, FS_Interval
  <2>2. QED
    BY <1>9, <2>1, FS_Subset, FS_CardinalityType
<1>12. TokenPrice * (hi - lo + 1) =< Capacity(k) + Allowance(k) * (s[hi] - s[lo])
  BY <1>1, <1>9 DEF Paced
<1>13. hi - lo + 1 \in Int /\ HourLength - 1 \in Int
  BY <1>2, <1>9
<1>14. TokenPrice * Cardinality(hour) =< Capacity(k) + Allowance(k) * (HourLength - 1)
  BY <1>2, <1>10, <1>11, <1>12, <1>13, Within
<1>15. QED
  BY <1>14 DEF s, hour

----------------------------------------------------------------------------
(* Screens. *)

Command == [id : Nat, op : {"load", "write", "describe", "request", "open", "door", "toggle"},
            list : Lists, area : Nat, row : Nat, step : {"asked", "done"}, rows : SUBSET Nat]

\* A row that is being written is in the area the load after it reads, and from
\* the write on it is there.
Sound(c) ==
    /\ IsFiniteSet(c.rows)
    /\ c.op = "write" \/ (c.op = "load" /\ c.row # 0) =>
          /\ c.list \in {"posts", "mail"}
          /\ c.list = "posts" => c.row \div 10 = c.area
    /\ c.op = "write" /\ c.step = "done" => c.row \in stored[c.list]
    /\ c.op = "load" /\ c.row # 0 =>
          /\ c.row \in stored[c.list]
          /\ c.step = "done" => c.row \in c.rows

UIInv ==
    /\ stored \in [Lists -> SUBSET Nat] /\ \A l \in Lists : IsFiniteSet(stored[l])
    /\ listed \in [Lists -> SUBSET Nat] /\ \A l \in Lists : IsFiniteSet(listed[l])
    /\ cursor \in [Lists -> Nat]
    /\ draft.area \in Nat /\ fileArea \in Nat /\ confirm \in Nat /\ started \in Nat
    /\ commands \subseteq Command /\ \A c \in commands : Sound(c)
    /\ CursorsPoint

\* Every place of a finite set of numbers has a number in it.
LEMMA EveryPlaceIsTaken ==
    ASSUME NEW S, S \subseteq Nat, IsFiniteSet(S), NEW n \in Nat, n < Cardinality(S)
    PROVE  \E r \in S : Cardinality({x \in S : x < r}) = n
<1> DEFINE below(r) == {x \in S : x < r}
           empty == {m \in Nat : m < Cardinality(S) /\ \A r \in S : Cardinality(below(r)) # m}
<1>1. SUFFICES ASSUME empty # {} PROVE FALSE
  BY DEF empty
<1>2. PICK m \in empty : \A k \in empty : m =< k
  BY <1>1, LeastNumber
<1>3. m \in Nat /\ m < Cardinality(S) /\ \A r \in S : Cardinality(below(r)) # m
  OBVIOUS
<1>4. Cardinality(S) \in Nat /\ Cardinality({}) = 0 /\ IsFiniteSet({})
  BY FS_CardinalityType, FS_EmptySet
<1>5. CASE m = 0
  <2>1. S # {}
    <3>1. Cardinality(S) # 0
      BY <1>3, <1>4, <1>5
    <3>2. QED
      BY <1>4, <3>1
  <2>2. PICK r \in S : \A k \in S : r =< k
    BY <2>1, LeastNumber
  <2>3. \A x \in S : ~(x < r)
    BY <2>2
  <2>4. below(r) = {}
    BY <2>3
  <2>5. QED
    BY <1>3, <1>4, <1>5, <2>4
<1>6. CASE m # 0
  <2>1. m - 1 \in Nat /\ m - 1 < Cardinality(S) /\ m - 1 \notin empty
    BY <1>2, <1>3, <1>4, <1>6
  <2>2. PICK r \in S : Cardinality(below(r)) = m - 1
    BY <2>1
  <2> DEFINE upto == below(r) \cup {r}
  <2>3. IsFiniteSet(below(r)) /\ r \notin below(r)
    <3>1. below(r) \subseteq S /\ r \notin below(r)
      OBVIOUS
    <3>2. QED
      BY <3>1, FS_Subset
  <2>4. IsFiniteSet(upto) /\ Cardinality(upto) = m
    <3> HIDE DEF below
    <3>1. IsFiniteSet(upto) /\ Cardinality(upto) = Cardinality(below(r)) + 1
      BY <2>3, FS_AddElement
    <3>2. QED
      BY <1>3, <2>2, <3>1
  <2>5. S \ upto # {}
    <3>1. upto \subseteq S /\ upto # S
      BY <1>3, <2>4
    <3>2. QED
      BY <3>1
  <2>6. PICK s \in S \ upto : \A k \in S \ upto : s =< k
    BY <2>5, LeastNumber
  <2>7. below(s) = upto
    <3>1. \A x \in S : x < s => x \in upto
      BY <2>6
    <3>2. \A x \in upto : x \in S /\ x < s
      BY <2>6
    <3>3. QED
      BY <3>1, <3>2
  <2>8. QED
    BY <1>3, <2>4, <2>6, <2>7
<1>7. QED
  BY <1>5, <1>6

\* A cursor that points at a row selects it.
LEMMA SelectedIsListed ==
    ASSUME UIInv, NEW l \in Lists, Points(l)
    PROVE  Selected(l) \in listed[l] /\ Selected(l) \in Nat
<1>1. \E r \in listed[l] : Cardinality({x \in listed[l] : x < r}) = cursor[l]
  BY EveryPlaceIsTaken DEF UIInv, Points
<1>2. QED
  BY <1>1 DEF Selected, UIInv

\* What a session starts is a command, and sound.
LEMMA StartedIsSound ==
    ASSUME UIInv, UNCHANGED stored, NEW op \in {"load", "write", "describe", "request", "open",
                                               "door", "toggle"},
           NEW l \in Lists, NEW a \in Nat, NEW r \in Nat, Start(op, l, a, r),
           op = "load" => r = 0,
           op = "write" => l \in {"posts", "mail"} /\ (l = "posts" => r \div 10 = a)
    PROVE  started' \in Nat /\ commands' \subseteq Command /\ \A c \in commands' : Sound(c)'
<1> DEFINE new == [id |-> started + 1, op |-> op, list |-> l, area |-> a, row |-> r,
                   step |-> "asked", rows |-> {}]
<1>1. commands' = commands \cup {new} /\ started' = started + 1
  BY DEF Start
<1>2. new \in Command
  BY DEF UIInv, Command
<1>3. ASSUME NEW c, c = new PROVE Sound(c)'
  BY <1>3, FS_EmptySet DEF Sound
<1> HIDE DEF new
<1>4. ASSUME NEW c \in commands PROVE Sound(c)'
  BY DEF UIInv, Sound
<1>5. QED
  BY <1>1, <1>2, <1>3, <1>4 DEF UIInv

\* A key that starts no command, or a sound one, and leaves the lists alone.
LEMMA KeyKeeps ==
    ASSUME UIInv, UNCHANGED <<stored, listed>>, cursor' \in [Lists -> Nat], CursorsPoint',
           draft'.area \in Nat, fileArea' \in Nat, confirm' \in Nat,
           UNCHANGED <<commands, started>>
           \/ (started' \in Nat /\ commands' \subseteq Command /\ \A c \in commands' : Sound(c)')
    PROVE  UIInv'
BY DEF UIInv, Sound

\* A key leaves the cursors where they point, on the screens that change nothing
\* else about the lists.
LEMMA CursorsKept ==
    ASSUME UIInv, UNCHANGED <<listed, cursor>>
    PROVE  cursor' \in [Lists -> Nat] /\ CursorsPoint'
BY DEF UIInv, CursorsPoint, Points

\* Up and down stay within the list.
LEMMA MovingPoints ==
    ASSUME UIInv, NEW l \in Lists, Moves(l)
    PROVE  /\ UNCHANGED <<listed, fileArea, draft, confirm, commands, started>>
           /\ cursor' \in [Lists -> Nat] /\ CursorsPoint'
<1>1. \A k \in Lists : Cardinality(listed[k]) \in Nat
  BY FS_CardinalityType DEF UIInv
<1>2. /\ listed' = listed /\ cursor[l] \in Nat
      /\ \/ cursor[l] > 0 /\ cursor' = [cursor EXCEPT ![l] = cursor[l] - 1]
         \/ /\ cursor[l] < Cardinality(listed[l]) - 1
            /\ cursor' = [cursor EXCEPT ![l] = cursor[l] + 1]
  BY DEF Moves, UIInv
<1>3. cursor' \in [Lists -> Nat]
  BY <1>2 DEF UIInv
<1>4. CursorsPoint'
  BY <1>1, <1>2 DEF UIInv, CursorsPoint, Points, Lists
<1>5. QED
  BY <1>3, <1>4 DEF Moves, NoCommand

\* Entering a list puts its cursor at the top.
LEMMA EnteringPoints ==
    ASSUME UIInv, NEW l \in Lists, NEW to, Enters(to, l), UNCHANGED stored
    PROVE  UIInv'
<1>1. cursor' = [cursor EXCEPT ![l] = 0] /\ UNCHANGED <<listed, fileArea, draft>>
  BY DEF Enters
<1>2. confirm' \in Nat
  BY DEF Enters, UIInv
<1>3. \A k \in Lists : Cardinality(listed[k]) \in Nat
  BY FS_CardinalityType DEF UIInv
<1>4. \A k \in Lists : listed[k] # {} => Cardinality(listed[k]) # 0
  BY FS_EmptySet DEF UIInv
<1>5. cursor' \in [Lists -> Nat] /\ CursorsPoint'
  BY <1>1, <1>3, <1>4 DEF UIInv, CursorsPoint, Points, Lists
<1>6. started' \in Nat /\ commands' \subseteq Command /\ \A c \in commands' : Sound(c)'
  BY StartedIsSound DEF Enters, Load
<1>7. QED
  BY <1>1, <1>2, <1>5, <1>6, KeyKeeps DEF UIInv

\* A key that leaves the lists and the cursors as they are.
LEMMA PressingKeeps ==
    ASSUME UIInv, UNCHANGED <<stored, listed, cursor>>,
           draft'.area \in Nat, fileArea' = fileArea, confirm' \in Nat,
           UNCHANGED <<commands, started>>
           \/ (started' \in Nat /\ commands' \subseteq Command /\ \A c \in commands' : Sound(c)')
    PROVE  UIInv'
BY CursorsKept, KeyKeeps DEF UIInv

\* Every key keeps the lists in order.
LEMMA KeySteps ==
    ASSUME UIInv,
           \/ MenuKey \/ AreaListKey \/ AreaReadKey \/ ComposeScreenKey \/ MailListKey
           \/ MailReadKey \/ FileAreaListKey \/ FileAreaKey \/ FileInfoKey \/ FileDescribeKey
           \/ DoorListKey \/ SysopKey
    PROVE  UIInv'
<1> USE DEF Lists, Goes, Stays, look, Load, NoCommand, Nothing
<1>1. ASSUME NEW l \in Lists, Moves(l), UNCHANGED stored PROVE UIInv'
  BY <1>1, MovingPoints, KeyKeeps DEF UIInv
<1>2. ASSUME NEW op \in {"load", "describe", "request", "open", "door", "toggle"},
             NEW l \in Lists, NEW a \in Nat, NEW r \in Nat, Start(op, l, a, r),
             op = "load" => r = 0, UNCHANGED stored
      PROVE  started' \in Nat /\ commands' \subseteq Command /\ \A c \in commands' : Sound(c)'
  BY <1>2, StartedIsSound
<1>3. CASE MenuKey
  <2>1. CASE \E to, l : l \in Lists /\ Enters(to, l)
    BY <1>3, <2>1, EnteringPoints DEF MenuKey
  <2>2. CASE Goes("maillist") /\ Load("mail", 0)
    BY <1>2, <1>3, <2>2, PressingKeeps DEF MenuKey, UIInv
  <2>3. QED
    BY <1>3, <2>1, <2>2 DEF MenuKey
<1>4. CASE AreaListKey
  <2>1. CASE Points("areas") /\ Goes("arearead") /\ Load("posts", Selected("areas"))
    BY <1>2, <1>4, <2>1, SelectedIsListed, PressingKeeps DEF AreaListKey, UIInv
  <2>2. QED
    BY <1>1, <1>4, <2>1, PressingKeeps DEF AreaListKey, UIInv
<1>5. CASE AreaReadKey
  <2>1. CASE Points("areas") /\ draft' = [area |-> Selected("areas"), file |-> 0]
             /\ UNCHANGED <<listed, cursor, fileArea, asked, confirm>> /\ NoCommand
    BY <1>5, <2>1, SelectedIsListed, PressingKeeps DEF AreaReadKey, UIInv
  <2>2. QED
    BY <1>1, <1>5, <2>1, PressingKeeps DEF AreaReadKey, UIInv
<1>6. CASE ComposeScreenKey
  <2>1. ASSUME NEW l \in {"posts", "mail"}, NEW a \in Nat, WriteSequence(l, a), UNCHANGED stored
        PROVE  started' \in Nat /\ commands' \subseteq Command /\ \A c \in commands' : Sound(c)'
    <3>1. started \in 0 .. 4
      BY <2>1, ScreensAssumption DEF WriteSequence, Start, UIInv
    <3>2. a * 10 + 4 + started \in Nat /\ (a * 10 + 4 + started) \div 10 = a
      BY <3>1
    <3>3. QED
      BY <2>1, <3>2, StartedIsSound DEF WriteSequence
  <2>2. draft.area \in Nat
    BY DEF UIInv
  <2>3. QED
    BY <1>6, <2>1, <2>2, PressingKeeps DEF ComposeScreenKey, UIInv
<1>7. CASE MailListKey
  <2>1. CASE Points("mail") /\ Stays /\ Start("open", "mail", 0, Selected("mail"))
    BY <1>2, <1>7, <2>1, SelectedIsListed, PressingKeeps DEF MailListKey, UIInv
  <2>2. QED
    BY <1>1, <1>7, <2>1, PressingKeeps DEF MailListKey, UIInv
<1>8. CASE MailReadKey
  BY <1>2, <1>8, PressingKeeps DEF MailReadKey, UIInv
<1>9. CASE FileAreaListKey
  <2>1. CASE Points("fileareas") /\ Goes("filearea") /\ Load("files", Selected("fileareas"))
    BY <1>2, <1>9, <2>1, SelectedIsListed, PressingKeeps DEF FileAreaListKey, UIInv
  <2>2. QED
    BY <1>1, <1>9, <2>1, PressingKeeps DEF FileAreaListKey, UIInv
<1>10. ASSUME StartDescribe, UNCHANGED stored PROVE UIInv'
  BY <1>10, PressingKeeps DEF StartDescribe, UIInv
<1>11. ASSUME StartRequest, UNCHANGED stored PROVE UIInv'
  BY <1>2, <1>11, SelectedIsListed, PressingKeeps DEF StartRequest, UIInv
<1>12. CASE FileAreaKey
  <2>1. CASE Goes("filearealist") /\ Load("fileareas", 0)
    BY <1>2, <1>12, <2>1, PressingKeeps DEF FileAreaKey, UIInv
  <2>2. QED
    BY <1>1, <1>10, <1>11, <1>12, <2>1, PressingKeeps DEF FileAreaKey, UIInv
<1>13. CASE FileInfoKey
  BY <1>10, <1>11, <1>13, PressingKeeps DEF FileInfoKey, UIInv
<1>14. CASE FileDescribeKey
  <2>1. CASE Points("files") /\ Goes("fileinfo")
             /\ Start("describe", "files", fileArea, Selected("files"))
    BY <1>2, <1>14, <2>1, SelectedIsListed, PressingKeeps DEF FileDescribeKey, UIInv
  <2>2. QED
    BY <1>14, <2>1, PressingKeeps DEF FileDescribeKey, UIInv
<1>15. CASE DoorListKey
  <2>1. CASE Points("doors") /\ Stays /\ Start("door", "doors", 0, Selected("doors"))
    BY <1>2, <1>15, <2>1, SelectedIsListed, PressingKeeps DEF DoorListKey, UIInv
  <2>2. QED
    BY <1>1, <1>15, <2>1, PressingKeeps DEF DoorListKey, UIInv
<1>16. CASE SysopKey
  <2>1. CASE Stays /\ Load("users", 0)
    BY <1>2, <1>16, <2>1, PressingKeeps DEF SysopKey, UIInv
  <2>2. CASE /\ \/ Points("users") /\ confirm' = Selected("users") /\ NoCommand
                \/ confirm' = 0 /\ NoCommand
                \/ confirm' = 0 /\ Start("toggle", "users", 0, confirm)
             /\ UNCHANGED <<screen, listed, cursor, fileArea, draft, asked>>
    <3>1. confirm' \in Nat /\ confirm \in Nat
      BY <2>2, SelectedIsListed DEF UIInv
    <3>2. QED
      BY <1>2, <1>16, <2>2, <3>1, PressingKeeps DEF SysopKey, UIInv
  <2>3. QED
    BY <1>1, <1>16, <2>1, <2>2, PressingKeeps DEF SysopKey, UIInv
<1>17. QED
  BY <1>3, <1>4, <1>5, <1>6, <1>7, <1>8, <1>9, <1>12, <1>13, <1>14, <1>15, <1>16

\* The rows a load reads are of the store.
LEMMA RowsAreStored ==
    ASSUME UIInv, NEW l \in Lists, NEW a \in Nat
    PROVE  /\ Rows(l, a) \subseteq Nat /\ IsFiniteSet(Rows(l, a))
           /\ \A r \in stored[l] : (l = "posts" => r \div 10 = a) /\ l # "files" => r \in Rows(l, a)
<1>1. Rows(l, a) \subseteq stored[l]
  BY DEF Rows, InArea
<1>2. IsFiniteSet(stored[l]) /\ stored[l] \subseteq Nat
  BY DEF UIInv
<1>3. QED
  BY <1>1, <1>2, FS_Subset DEF Rows, InArea

\* One command is replaced by a sound one, or by none, while the store grows.
LEMMA ReplacingKeeps ==
    ASSUME UIInv, NEW c \in commands, NEW new, commands' = (commands \ {c}) \cup new,
           new \subseteq Command, \A d \in new : Sound(d)',
           \A l \in Lists : stored[l] \subseteq stored'[l]
    PROVE  commands' \subseteq Command /\ \A d \in commands' : Sound(d)'
<1>1. ASSUME NEW d \in commands PROVE Sound(d)'
  <2>1. Sound(d) /\ d \in Command
    BY DEF UIInv
  <2>2. QED
    BY <2>1 DEF Sound, Command
<1>2. QED
  BY <1>1 DEF UIInv

\* What a command does at the store.
LEMMA StoreSteps ==
    ASSUME UIInv, NEW c \in commands, AtStore(c) \/ CommandFails(c)
    PROVE  UIInv'
<1> USE DEF look, Stays, Nothing
<1>1. c \in Command /\ Sound(c) /\ c.step = "asked"
  BY DEF UIInv, AtStore, CommandFails
<1>2. UNCHANGED <<listed, cursor, fileArea, draft, confirm, started>>
  BY DEF AtStore, CommandFails
<1>3. /\ Done(c) \in Command /\ Done(c).op = c.op /\ Done(c).list = c.list /\ Done(c).row = c.row
      /\ Done(c).area = c.area /\ Done(c).step = "done" /\ Done(c).rows = c.rows
  BY <1>1 DEF Done, Command
<1>4. ASSUME UNCHANGED stored, commands' \subseteq Command, \A d \in commands' : Sound(d)'
      PROVE  UIInv'
  BY <1>2, <1>4, CursorsKept, KeyKeeps DEF UIInv
<1>5. \A l \in Lists : stored[l] \subseteq stored[l]
  OBVIOUS
<1>6. CASE (Reads(c) \/ DescribesFile(c)) /\ AtStore(c)
  <2> DEFINE fetched == Rows(c.list, c.area)
             new == [Done(c) EXCEPT !.rows = fetched]
  <2>1. /\ fetched \subseteq Nat /\ IsFiniteSet(fetched)
        /\ \A r \in stored[c.list] :
              (c.list = "posts" => r \div 10 = c.area) /\ c.list # "files" => r \in fetched
    BY <1>1, RowsAreStored DEF Command
  <2>2. /\ commands' = (commands \ {c}) \cup {new} /\ stored' = stored
        /\ c.op \in {"load", "describe"}
    BY <1>6 DEF Reads, DescribesFile, Moved
  <2>3. /\ new \in Command /\ new.op = c.op /\ new.list = c.list /\ new.row = c.row
        /\ new.area = c.area /\ new.step = "done" /\ new.rows = fetched
    BY <1>3, <2>1 DEF Command
  <2> HIDE DEF fetched, new
  <2>4. ASSUME NEW d, d = new PROVE Sound(d)'
    BY <1>1, <2>1, <2>2, <2>3, <2>4 DEF Sound
  <2>5. commands' \subseteq Command /\ \A d \in commands' : Sound(d)'
    BY <1>5, <2>2, <2>3, <2>4, ReplacingKeeps
  <2>6. QED
    BY <1>4, <2>2, <2>5
<1>7. CASE WritesRow(c) /\ AtStore(c)
  <2>1. /\ c.op = "write" /\ stored' = [stored EXCEPT ![c.list] = @ \cup {c.row}]
        /\ commands' = (commands \ {c}) \cup {Done(c)}
    BY <1>7 DEF WritesRow, Moved
  <2>2. c.list \in Lists /\ c.row \in Nat
    BY <1>1 DEF Command
  <2>3. /\ stored' \in [Lists -> SUBSET Nat] /\ \A l \in Lists : IsFiniteSet(stored'[l])
        /\ \A l \in Lists : stored[l] \subseteq stored'[l]
        /\ c.row \in stored'[c.list]
    <3>1. IsFiniteSet(stored[c.list] \cup {c.row})
      BY <2>2, FS_AddElement DEF UIInv
    <3>2. stored' \in [Lists -> SUBSET Nat]
      BY <2>1, <2>2 DEF UIInv
    <3>3. \A l \in Lists : stored'[l] = stored[l] \/ (l = c.list /\ stored'[l] = stored[l] \cup {c.row})
      BY <2>1, <2>2 DEF UIInv
    <3>4. c.row \in stored'[c.list]
      BY <2>1, <2>2 DEF UIInv
    <3>5. QED
      BY <3>1, <3>2, <3>3, <3>4 DEF UIInv
  <2>4. ASSUME NEW d \in {Done(c)} PROVE Sound(d)'
    BY <1>1, <1>3, <2>1, <2>3 DEF Sound
  <2> DEFINE new == {Done(c)}
  <2>5. new \subseteq Command /\ commands' = (commands \ {c}) \cup new
    BY <1>3, <2>1
  <2>6. commands' \subseteq Command /\ \A d \in commands' : Sound(d)'
    <3>1. \A d \in new : Sound(d)'
      BY <2>4
    <3>2. \A l \in Lists : stored[l] \subseteq stored'[l]
      BY <2>3
    <3> HIDE DEF new
    <3>3. QED
      BY <2>5, <3>1, <3>2, ReplacingKeeps
  <2>7. QED
    BY <1>2, <2>3, <2>6, CursorsKept DEF UIInv
<1>8. CASE (RequestsFile(c) \/ RunsElsewhere(c)) /\ AtStore(c)
  <2>1. PICK new \in SUBSET {Done(c)} : commands' = (commands \ {c}) \cup new
    BY <1>8 DEF RequestsFile, RunsElsewhere, Moved
  <2>2. stored' = stored /\ c.op \in {"request", "open", "door", "toggle"}
    BY <1>8 DEF RequestsFile, RunsElsewhere
  <2>3. ASSUME NEW d \in new PROVE Sound(d)'
    BY <1>1, <1>3, <2>2 DEF Sound
  <2>4. commands' \subseteq Command /\ \A d \in commands' : Sound(d)'
    BY <1>3, <1>5, <2>1, <2>2, <2>3, ReplacingKeeps
  <2>5. QED
    BY <1>4, <2>2, <2>4
<1>9. CASE CommandFails(c)
  <2> DEFINE again == Reload(c, 0)
  <2>1. /\ again \in Command /\ again.op = "load" /\ again.row = 0 /\ again.rows = c.rows
        /\ again.list = c.list
    BY <1>1 DEF Reload, Command
  <2>2. PICK new \in SUBSET {again} : commands' = (commands \ {c}) \cup new
    BY <1>9 DEF CommandFails, Moved
  <2> HIDE DEF again
  <2>3. ASSUME NEW d \in new PROVE Sound(d)'
    BY <1>1, <2>1, <2>3 DEF Sound
  <2>4. stored' = stored
    BY <1>9 DEF CommandFails
  <2>5. commands' \subseteq Command /\ \A d \in commands' : Sound(d)'
    BY <1>5, <2>1, <2>2, <2>3, <2>4, ReplacingKeeps
  <2>6. QED
    BY <1>4, <2>4, <2>5
<1>10. QED
  BY <1>6, <1>7, <1>8, <1>9 DEF AtStore

\* A list is shown with a cursor that points at one of its rows.
LEMMA ShowingPoints ==
    ASSUME UIInv, NEW l \in Lists, NEW those \in SUBSET Nat, NEW at \in Nat, IsFiniteSet(those),
           Shows(l, those, at),
           l \in {"areas", "users"} \/ those = {} \/ at < Cardinality(those)
    PROVE  /\ listed' \in [Lists -> SUBSET Nat] /\ \A k \in Lists : IsFiniteSet(listed'[k])
           /\ cursor' \in [Lists -> Nat] /\ CursorsPoint'
<1>1. /\ listed' = [listed EXCEPT ![l] = those] /\ cursor' = [cursor EXCEPT ![l] = at]
  BY DEF Shows
<1>2. \A k \in Lists : /\ listed'[k] = IF k = l THEN those ELSE listed[k]
                       /\ cursor'[k] = IF k = l THEN at ELSE cursor[k]
  BY <1>1 DEF UIInv
<1>3. CursorsPoint'
  <2>1. ASSUME NEW k \in {"posts", "mail", "fileareas", "files", "doors"}
        PROVE  listed'[k] = {} \/ cursor'[k] < Cardinality(listed'[k])
    BY <1>2 DEF UIInv, CursorsPoint, Points, Lists
  <2>2. QED
    BY <2>1 DEF CursorsPoint, Points
<1>4. QED
  BY <1>1, <1>2, <1>3 DEF UIInv

\* What a result does to the screen.
LEMMA DeliverSteps ==
    ASSUME UIInv, NEW c \in commands, Deliver(c)
    PROVE  UIInv'
<1> USE DEF Nothing
<1>1. c \in Command /\ Sound(c) /\ c.step = "done"
  BY DEF UIInv, Deliver
<1>2. UNCHANGED <<stored, draft, confirm, started>>
  BY DEF Deliver
<1>3. /\ c.list \in Lists /\ c.rows \in SUBSET Nat /\ c.area \in Nat /\ IsFiniteSet(c.rows)
  BY <1>1 DEF Command, Sound
<1>4. Cardinality(c.rows) \in Nat /\ (c.rows # {} => Cardinality(c.rows) # 0)
  BY <1>3, FS_CardinalityType, FS_EmptySet
<1>5. ASSUME NEW new \in SUBSET Command, commands' = (commands \ {c}) \cup new,
             \A d \in new : Sound(d)'
      PROVE  commands' \subseteq Command /\ \A d \in commands' : Sound(d)'
  BY <1>2, <1>5, ReplacingKeeps
<1>6. ASSUME commands' = commands \ {c}
      PROVE  commands' \subseteq Command /\ \A d \in commands' : Sound(d)'
  BY <1>2, <1>6 DEF UIInv, Sound
<1>7. CASE ListLoaded(c)
  <2> DEFINE at == AfterLoad(c.list, c.rows)
  <2>1. /\ Shows(c.list, c.rows, at) /\ commands' = commands \ {c}
        /\ fileArea' = IF c.list = "files" THEN c.area ELSE fileArea
    BY <1>7 DEF ListLoaded, Moved
  <2>2. at \in Nat /\ (c.list \in {"areas", "users"} \/ c.rows = {} \/ at < Cardinality(c.rows))
    <3>1. cursor[c.list] \in Nat
      BY <1>3 DEF UIInv
    <3>2. QED
      BY <1>3, <1>4, <3>1 DEF AfterLoad, Lists
  <2> HIDE DEF at
  <2>3. /\ listed' \in [Lists -> SUBSET Nat] /\ \A k \in Lists : IsFiniteSet(listed'[k])
        /\ cursor' \in [Lists -> Nat] /\ CursorsPoint'
    BY <1>3, <2>1, <2>2, ShowingPoints
  <2>4. QED
    BY <1>2, <1>3, <1>6, <2>1, <2>3 DEF UIInv
<1>8. CASE FileDescribed(c)
  <2> DEFINE at == SameRow(c.rows)
  <2>1. /\ Shows("files", c.rows, at) /\ commands' = commands \ {c} /\ fileArea' = c.area
    BY <1>8 DEF FileDescribed, Moved
  <2>2. at \in Nat /\ (c.rows = {} \/ at < Cardinality(c.rows))
    <3>1. CASE Points("files") /\ Selected("files") \in c.rows
      <4> DEFINE r == Selected("files")
                 below == {x \in c.rows : x < r}
      <4>1. at = Cardinality(below) /\ r \in c.rows /\ r \in Nat
        BY <1>3, <3>1 DEF SameRow
      <4>2. below \subseteq c.rows \ {r}
        BY <1>3, <4>1
      <4>3. IsFiniteSet(c.rows \ {r}) /\ Cardinality(c.rows \ {r}) = Cardinality(c.rows) - 1
        BY <1>3, <4>1, FS_RemoveElement
      <4>4. Cardinality(below) \in Nat /\ Cardinality(below) =< Cardinality(c.rows) - 1
        BY <4>2, <4>3, FS_Subset, FS_CardinalityType
      <4>5. QED
        BY <1>4, <4>1, <4>4
    <3>2. CASE ~(Points("files") /\ Selected("files") \in c.rows)
      BY <1>4, <3>2 DEF SameRow
    <3>3. QED
      BY <3>1, <3>2
  <2> HIDE DEF at
  <2>3. /\ listed' \in [Lists -> SUBSET Nat] /\ \A k \in Lists : IsFiniteSet(listed'[k])
        /\ cursor' \in [Lists -> Nat] /\ CursorsPoint'
    BY <1>3, <2>1, <2>2, ShowingPoints DEF Lists
  <2>4. QED
    BY <1>2, <1>3, <1>6, <2>1, <2>3 DEF UIInv
<1>9. CASE FileRequested(c) \/ MailOpened(c)
  <2>1. commands' = commands \ {c} /\ UNCHANGED <<listed, cursor, fileArea>>
    BY <1>9 DEF FileRequested, MailOpened, Moved
  <2>2. QED
    BY <1>2, <1>6, <2>1, CursorsKept DEF UIInv
<1>10. CASE StatusShown(c)
  <2> DEFINE again == Reload(c, IF c.op = "write" THEN c.row ELSE 0)
  <2>1. /\ again \in Command /\ again.op = "load" /\ again.step = "asked" /\ again.rows = c.rows
        /\ again.list = c.list /\ again.area = c.area
        /\ again.row = IF c.op = "write" THEN c.row ELSE 0
    BY <1>1 DEF Reload, Command
  <2>2. UNCHANGED <<listed, cursor, fileArea>>
    BY <1>10 DEF StatusShown
  <2>3. PICK new \in SUBSET {again} : commands' = (commands \ {c}) \cup new
    BY <1>10 DEF StatusShown, Moved
  <2> HIDE DEF again
  <2>4. ASSUME NEW d \in new PROVE Sound(d)'
    BY <1>1, <1>2, <2>1, <2>4 DEF Sound
  <2>5. new \in SUBSET Command
    BY <2>1
  <2>6. commands' \subseteq Command /\ \A d \in commands' : Sound(d)'
    BY <1>5, <2>3, <2>4, <2>5
  <2>7. QED
    BY <1>2, <2>2, <2>6, CursorsKept DEF UIInv
<1>11. QED
  BY <1>7, <1>8, <1>9, <1>10 DEF Deliver

\* Lists are empty at the start, and the areas are asked for.
LEMMA ScreensStart == UIInit => UIInv
<1> SUFFICES ASSUME UIInit PROVE UIInv
  OBVIOUS
<1> DEFINE first == [id |-> 1, op |-> "load", list |-> "areas", area |-> 0, row |-> 0,
                     step |-> "asked", rows |-> {}]
<1>1. IsFiniteSet({})
  BY FS_EmptySet
<1>2. first \in Command /\ Sound(first)
  BY <1>1 DEF Command, Sound, Lists
<1> HIDE DEF first
<1>3. commands = {first}
  BY DEF UIInit, first
<1>4. stored \in [Lists -> SUBSET Nat] /\ \A l \in Lists : IsFiniteSet(stored[l])
  BY ScreensAssumption DEF UIInit
<1>5. CursorsPoint
  BY DEF UIInit, CursorsPoint, Lists
<1>6. QED
  BY <1>1, <1>2, <1>3, <1>4, <1>5 DEF UIInit, UIInv, NoDraft

\* Every step of a session's interface keeps the invariant.
LEMMA UISteps == UIInv /\ [UINext]_uiVars => UIInv'
<1> SUFFICES ASSUME UIInv, [UINext]_uiVars PROVE UIInv'
  OBVIOUS
<1>1. CASE Panics \/ Leaves
  <2>1. commands' = {} /\ UNCHANGED <<stored, look, started>>
    BY <1>1 DEF Panics, Leaves, Goes, Nothing
  <2>2. QED
    BY <2>1, CursorsKept DEF UIInv, look
<1>2. ASSUME NEW c \in commands, AtStore(c) \/ Deliver(c) \/ CommandFails(c) PROVE UIInv'
  BY <1>2, StoreSteps, DeliverSteps
<1>3. CASE OthersChange
  <2>1. PICK l \in Lists, those \in SUBSET Nat :
           /\ stored' = [stored EXCEPT ![l] = those] /\ IsFiniteSet(those)
           /\ stored[l] \subseteq those \/ l = "doors"
    <3>1. PICK l \in Lists :
             \/ \E r \in Arriving[l] \ stored[l] : stored' = [stored EXCEPT ![l] = @ \cup {r}]
             \/ l = "doors" /\ \E r \in stored[l] : stored' = [stored EXCEPT ![l] = @ \ {r}]
      BY <1>3 DEF OthersChange
    <3>2. IsFiniteSet(stored[l]) /\ stored[l] \subseteq Nat /\ Arriving[l] \subseteq Nat
      BY ScreensAssumption DEF UIInv
    <3>3. \A r : /\ IsFiniteSet(stored[l] \cup {r}) /\ IsFiniteSet(stored[l] \ {r})
      BY <3>2, FS_AddElement, FS_RemoveElement
    <3>4. CASE \E r \in Arriving[l] \ stored[l] : stored' = [stored EXCEPT ![l] = @ \cup {r}]
      <4>1. PICK r \in Arriving[l] : stored' = [stored EXCEPT ![l] = stored[l] \cup {r}]
        BY <3>4
      <4>2. /\ stored[l] \cup {r} \in SUBSET Nat /\ IsFiniteSet(stored[l] \cup {r})
            /\ stored[l] \subseteq stored[l] \cup {r}
        BY <3>2, <3>3
      <4>3. QED
        BY <4>1, <4>2
    <3>5. CASE l = "doors" /\ \E r \in stored[l] : stored' = [stored EXCEPT ![l] = @ \ {r}]
      <4>1. PICK r \in stored[l] : stored' = [stored EXCEPT ![l] = stored[l] \ {r}]
        BY <3>5
      <4>2. stored[l] \ {r} \in SUBSET Nat /\ IsFiniteSet(stored[l] \ {r})
        BY <3>2, <3>3
      <4>3. QED
        BY <3>5, <4>1, <4>2
    <3>6. QED
      BY <3>1, <3>4, <3>5
  <2>2. UNCHANGED <<look, commands, started>>
    BY <1>3 DEF OthersChange
  <2>3. ASSUME NEW c \in commands PROVE Sound(c)'
    <3>1. Sound(c) /\ c \in Command
      BY DEF UIInv
    <3>2. c.op = "write" \/ (c.op = "load" /\ c.row # 0) => c.list # "doors"
      BY <3>1 DEF Sound
    <3>3. c.op = "write" \/ (c.op = "load" /\ c.row # 0) => stored[c.list] \subseteq stored'[c.list]
      BY <2>1, <3>1, <3>2 DEF UIInv, Command
    <3>4. QED
      BY <3>1, <3>3 DEF Sound
  <2>4. stored' \in [Lists -> SUBSET Nat] /\ \A k \in Lists : IsFiniteSet(stored'[k])
    BY <2>1 DEF UIInv
  <2>5. QED
    BY <2>2, <2>3, <2>4, CursorsKept DEF UIInv, look
<1>4. CASE UNCHANGED uiVars
  BY <1>4, CursorsKept DEF uiVars, look, UIInv, Sound
<1>5. QED
  BY <1>1, <1>2, <1>3, <1>4, KeySteps DEF UINext

----------------------------------------------------------------------------
(* The theorems: a step of the house is a step of one part, and each part  *)
(* keeps its invariant.                                                    *)

\* What is typed reaches whoever has the line then, once and in order, and nothing
\* is drawn over a door by the screen it covers or the other way round, for any
\* number of borrows and keys (connMux).
THEOREM LineIsLent == Spec => []LineIsSound
<1>1. Init => MuxInv
  BY MuxStarts DEF Init
<1>2. MuxInv /\ [Next]_vars => MuxInv'
  BY MuxSteps DEF Next, vars
<1>3. MuxInv => LineIsSound
  BY MuxGoal
<1>4. QED
  BY <1>1, <1>2, <1>3, PTL DEF Spec

\* However many calls, browser tabs and talkers there are: a session ID that is shown
\* has somebody on the line and a node number of its own, whoever has joined under an ID
\* nobody shares is shown, and no wake-up of a talker with such an ID is lost
\* (Presence.Join and Leave, sessionPresence, Model.leave, Driver.Close, ChatRoom.Watch and Say).
THEOREM NobodyIsForgotten == Spec => []CallersHold
<1>1. Init => SessInv /\ ChatInv
  BY SessStarts, ChatStarts DEF Init
<1>2. SessInv /\ ChatInv /\ [Next]_vars => SessInv' /\ ChatInv'
  BY SessSteps, ChatSteps DEF Next, vars
<1>3. SessInv /\ ChatInv => CallersHold
  BY DEF SessInv, ChatInv, CallersHold
<1>4. QED
  BY <1>1, <1>2, <1>3, PTL DEF Spec

\* No hour holds more announcements or league events than the limit, and no saved
\* state outlives its door, for any number of invocations and grants
\* (allowPerHour, DeleteDoor, DoorStateSet).
THEOREM DoorsKeepTheirBounds == Spec => []ApiHolds
<1>1. Init => ApiInv
  BY ApiStarts DEF Init
<1>2. ApiInv /\ [Next]_vars => ApiInv'
  BY ApiSteps DEF Next, vars
<1>3. ApiInv => ApiHolds
  BY DEF ApiInv
<1>4. QED
  BY <1>1, <1>2, <1>3, PTL DEF Spec

\* No order of sign-ups, key set-ups, adoptions, resets and failures makes a letter
\* unreadable, unless somebody agreed to lose the key or two writes of one row
\* overlapped (EnsureDMKey, SetClientHeldDMKey, ResetPasswordAsSysop).
THEOREM NoMailIsLostQuietly == Spec => []NothingStrandedQuietly
<1>1. Init => MailInv
  BY MailStarts DEF Init
<1>2. MailInv /\ [Next]_vars => MailInv'
  BY MailSteps DEF Next, vars
<1>3. MailInv => NothingStrandedQuietly
  BY DEF MailInv
<1>4. QED
  BY <1>1, <1>2, <1>3, PTL DEF Spec

\* A code makes one passkey at most, a passkey keeps naming its account, and no hour
\* lets a client make more attempts than its bucket and what it gains, whoever
\* answers which ceremony when and whatever is swept (webd/auth.go, limiter.go).
THEOREM SigningInIsSound == Spec => []SignInIsSound
<1>1. Init => CodeInv /\ RateInv
  BY CodesStart, RateStarts DEF Init
<1>2. CodeInv /\ RateInv /\ [Next]_vars => CodeInv' /\ RateInv'
  BY CodeSteps, RateSteps DEF Next, vars
<1>3. CodeInv /\ RateInv => SignInIsSound
  BY RateGoal DEF CodeInv, SignInIsSound
<1>4. QED
  BY <1>1, <1>2, <1>3, PTL DEF Spec

\* The load that follows a write has what was written, and every list on the screen
\* has its cursor on a row, whatever keys are pressed and in whatever order results
\* come (Update, tea.Sequence).
THEOREM ScreensShowRealRows == Spec => []ScreensHold
<1>1. Init => UIInv
  BY ScreensStart DEF Init
<1>2. UIInv /\ [Next]_vars => UIInv'
  BY UISteps DEF Next, vars
<1>3. UIInv => ScreensHold
  BY DEF UIInv, Sound, ScreensHold, ReloadHasTheWrite
<1>4. QED
  BY <1>1, <1>2, <1>3, PTL DEF Spec

=============================================================================
