------------------------------ MODULE DoorRun ------------------------------
(***************************************************************************)
(* Running one door for several sessions (door/door.go, invocation.go and  *)
(* the server side of api.go): a place is reserved, the API socket is      *)
(* opened, the program runs until it exits, its time is up or the session  *)
(* ends, and everything is taken down again.                               *)
(*                                                                         *)
(* A door may start children in its process group.  Programs connect to    *)
(* the API when they like; what is in the listener's queue when it closes  *)
(* is gone.                                                                *)
(***************************************************************************)
EXTENDS Integers, FiniteSetTheorems, TLAPS

CONSTANTS Sess,            \* sessions that run the door
          NodeOf,          \* [Sess -> node number]
          MaxConcurrent,   \* 0 for no cap
          NodeLock,
          ApiConn          \* connections of one run to the API

ASSUME DoorRunAssumption == MaxConcurrent \in Nat /\ NodeLock \in BOOLEAN

VARIABLES
    run,       \* [Sess -> where Run is]
    leader,    \* sessions whose program is alive
    child,     \* sessions whose program has a child alive
    running,   \* Manager.running
    locked,    \* Manager.nodes
    apiConn,   \* [Sess -> [ApiConn -> "none", "queued", "accepted", "served" or "shut"]]
    tracked    \* [Sess -> SUBSET ApiConn]: apiServer.conns

procs == <<leader, child>>
api == <<apiConn, tracked>>
doorVars == <<run, procs, running, locked, api>>

DoorInit ==
    /\ run = [s \in Sess |-> "idle"]
    /\ leader = {} /\ child = {} /\ running = 0 /\ locked = {}
    /\ apiConn = [s \in Sess |-> [c \in ApiConn |-> "none"]]
    /\ tracked = [s \in Sess |-> {}]

To(s, where) == run' = [run EXCEPT ![s] = where]
RunStep(s, from, where) == run[s] = from /\ To(s, where)

----------------------------------------------------------------------------
(* Manager.Run. *)

Reserve(s) ==
    /\ MaxConcurrent > 0 => running < MaxConcurrent
    /\ NodeLock => NodeOf[s] \notin locked
    /\ RunStep(s, "idle", "reserved")
    /\ running' = running + 1
    /\ locked' = IF NodeLock THEN locked \cup {NodeOf[s]} ELSE locked
    /\ UNCHANGED <<procs, api>>

\* The private directory, the dropfile, the socket and the descriptor.
StartAPI(s) ==
    /\ RunStep(s, "reserved", "listening")
    /\ UNCHANGED <<procs, running, locked, api>>

StartTerminal(s) ==
    /\ RunStep(s, "listening", "running")
    /\ leader' = leader \cup {s}
    /\ UNCHANGED <<child, running, locked, api>>

\* Whatever was set up so far is taken down.
StartFails(s) ==
    /\ \/ RunStep(s, "reserved", "release")
       \/ RunStep(s, "listening", "close")
    /\ UNCHANGED <<procs, running, locked, api>>

\* Mutant: output is not waited for and what is left of the group is not killed.
AfterExitNoKill == "close"

AfterExit == "drain"

Exited(s) ==
    /\ run[s] \in {"running", "halting", "killing"} /\ s \notin leader
    /\ To(s, AfterExit)
    /\ UNCHANGED <<procs, running, locked, api>>

\* The wall clock or the session's end asks the group to stop.
Halt(s) ==
    /\ RunStep(s, "running", "halting")
    /\ UNCHANGED <<running, locked, api>>
    /\ leader' \in {leader, leader \ {s}}
    /\ child' \in {child, child \ {s}}

\* After the grace period it is not asked any more.
Kill(s) ==
    /\ RunStep(s, "halting", "killing")
    /\ leader' = leader \ {s} /\ child' = child \ {s}
    /\ UNCHANGED <<running, locked, api>>

\* The output or a child that holds the terminal was waited for long
\* enough; the group is killed either way.
KillGroup(s) ==
    /\ RunStep(s, "drain", "close")
    /\ leader' = leader \ {s} /\ child' = child \ {s}
    /\ UNCHANGED <<running, locked, api>>

ReleasePlace(s) ==
    /\ RunStep(s, "release", "idle")
    /\ running' = running - 1
    /\ locked' = locked \ {NodeOf[s]}
    /\ UNCHANGED <<procs, api>>

----------------------------------------------------------------------------
(* The API server: Close, and a goroutine per connection. *)

Moves(s, c, from, to) ==
    apiConn[s][c] = from /\ apiConn' = [apiConn EXCEPT ![s][c] = to]

Listening(s) == run[s] \in {"listening", "running", "halting", "killing", "drain", "close"}
Closing(s) == run[s] \in {"sweep", "wait"}

\* closing is closed, then the listener.
CloseListener(s) ==
    /\ RunStep(s, "close", "sweep")
    /\ apiConn' = [apiConn EXCEPT ![s] =
                     [c \in ApiConn |-> IF @[c] = "queued" THEN "none" ELSE @[c]]]
    /\ UNCHANGED <<procs, running, locked, tracked>>

Sweep(s) ==
    /\ RunStep(s, "sweep", "wait")
    /\ apiConn' = [apiConn EXCEPT ![s] =
                     [c \in ApiConn |-> IF c \in tracked[s] THEN "shut" ELSE @[c]]]
    /\ UNCHANGED <<procs, running, locked, tracked>>

\* The goroutines are gone; the directory with the spent token goes too.
ApiClosed(s) ==
    /\ RunStep(s, "wait", "release")
    /\ \A c \in ApiConn : apiConn[s][c] = "none"
    /\ UNCHANGED <<procs, running, locked, api>>

Accept(s, c) ==
    /\ Listening(s)
    /\ Moves(s, c, "queued", "accepted")
    /\ UNCHANGED <<run, procs, running, locked, tracked>>

\* Mutant: a connection that comes during the sweep is served.
TrackedAlways(s) == TRUE

Trackable(s) == ~Closing(s)

Track(s, c) ==
    /\ Moves(s, c, "accepted", IF Trackable(s) THEN "served" ELSE "none")
    /\ tracked' = IF Trackable(s) THEN [tracked EXCEPT ![s] = @ \cup {c}] ELSE tracked
    /\ UNCHANGED <<run, procs, running, locked>>

\* A bad hello, none in time, the far end gone, or a request too long.
Untrack(s, c) ==
    /\ Moves(s, c, "served", "none") \/ Moves(s, c, "shut", "none")
    /\ tracked' = [tracked EXCEPT ![s] = @ \ {c}]
    /\ UNCHANGED <<run, procs, running, locked>>

----------------------------------------------------------------------------
(* The program. *)

Alive(s) == s \in leader \cup child

DoorConnects(s, c) ==
    /\ Alive(s) /\ Listening(s)
    /\ Moves(s, c, "none", "queued")
    /\ UNCHANGED <<run, procs, running, locked, tracked>>

LeaderExits(s) ==
    /\ s \in leader
    /\ leader' = leader \ {s}
    /\ UNCHANGED <<run, child, running, locked, api>>

Forks(s) ==
    /\ Alive(s)
    /\ child' = child \cup {s}
    /\ UNCHANGED <<run, leader, running, locked, api>>

RunSteps(s) ==
    \/ StartAPI(s) \/ Exited(s) \/ Halt(s) \/ Kill(s) \/ KillGroup(s) \/ ReleasePlace(s)
    \/ CloseListener(s) \/ Sweep(s) \/ ApiClosed(s)

\* Both outcomes of starting the program.
Launches(s) == StartTerminal(s) \/ StartFails(s)

Ends(s, c) == (Closing(s) /\ Track(s, c)) \/ (apiConn[s][c] = "shut" /\ Untrack(s, c))

DoorNext ==
    \E s \in Sess :
       \/ Reserve(s) \/ RunSteps(s) \/ Launches(s)
       \/ LeaderExits(s) \/ Forks(s)
       \/ \E c \in ApiConn : Accept(s, c) \/ Track(s, c) \/ Untrack(s, c) \/ DoorConnects(s, c)

----------------------------------------------------------------------------
(* Properties. *)

\* "When it is over, nothing it started is still running": a place is only
\* given to the next session when every process of the one before is gone, so
\* doors that keep files per node are alone in them, and no more run than the
\* limit allows.
AloneOnNode ==
    /\ NodeLock => \A s, t \in Sess :
                      s # t /\ NodeOf[s] = NodeOf[t] => ~(Alive(s) /\ Alive(t))
    /\ MaxConcurrent > 0 => Cardinality(leader \cup child) =< MaxConcurrent

\* "A door cannot run forever": a run ends whatever the program, its children
\* and their connections do, a connection accepted while the server closes
\* included (halt, Close, track).
RunsEnd == \A s \in Sess : run[s] = "running" ~> run[s] = "idle"

----------------------------------------------------------------------------
(* Proof that a door is alone, for any number of sessions and any limit. *)

DoorSpec == DoorInit /\ [][DoorNext]_doorVars

Places == {"idle", "reserved", "listening", "running", "halting", "killing", "drain", "close",
           "sweep", "wait", "release"}

\* Sessions that hold a place.
Holding == {s \in Sess : run[s] # "idle"}

\* A place is held by every session whose program may be alive, and the counter
\* and the locks are those of the places held.
DoorInv ==
    /\ run \in [Sess -> Places]
    /\ leader \subseteq Sess /\ child \subseteq Sess
    /\ \A s \in leader \cup child : run[s] \in {"running", "halting", "killing", "drain"}
    /\ IsFiniteSet(Holding) /\ running = Cardinality(Holding)
    /\ MaxConcurrent > 0 => running =< MaxConcurrent
    /\ NodeLock => /\ \A s \in Holding : NodeOf[s] \in locked
                   /\ \A s, t \in Holding : NodeOf[s] = NodeOf[t] => s = t

\* A step between two places that are held.
LEMMA PlaceIsKept ==
    ASSUME DoorInv, NEW s \in Sess, NEW from \in Places \ {"idle"}, NEW to \in Places \ {"idle"},
           RunStep(s, from, to), UNCHANGED <<running, locked>>,
           leader' \subseteq leader \cup {s}, child' \subseteq child,
           s \in leader' \cup child' => to \in {"running", "halting", "killing", "drain"}
    PROVE  DoorInv'
<1> USE DEF DoorInv, RunStep, To
<1>1. run' \in [Sess -> Places]
  OBVIOUS
<1>2. Holding' = Holding
  BY DEF Holding
<1>3. leader' \subseteq Sess /\ child' \subseteq Sess
  OBVIOUS
<1>4. ASSUME NEW t \in leader' \cup child'
      PROVE  run'[t] \in {"running", "halting", "killing", "drain"}
  OBVIOUS
<1> QED
  BY <1>1, <1>2, <1>3, <1>4

\* A step that leaves the places alone and starts no program.
LEMMA ProgramsEnd ==
    ASSUME DoorInv, UNCHANGED <<run, running, locked>>,
           leader' \subseteq leader, child' \subseteq leader \cup child
    PROVE  DoorInv'
<1>1. Holding' = Holding
  BY DEF Holding
<1> QED
  BY <1>1 DEF DoorInv

\* A place is taken under the limit, on a node nobody has.
LEMMA ReserveKeeps ==
    ASSUME DoorInv, NEW s \in Sess, Reserve(s)
    PROVE  DoorInv'
<1> USE DoorRunAssumption DEF DoorInv, Reserve, RunStep, To, procs
<1>1. run' \in [Sess -> Places]
  BY DEF Places
<1>2. Holding' = Holding \cup {s} /\ s \notin Holding
  BY DEF Holding, Places
<1>3. IsFiniteSet(Holding') /\ Cardinality(Holding') = Cardinality(Holding) + 1
  BY <1>2, FS_AddElement
<1>4. Cardinality(Holding) \in Nat
  BY FS_CardinalityType
<1>5. running' = Cardinality(Holding') /\ (MaxConcurrent > 0 => running' =< MaxConcurrent)
  BY <1>3, <1>4
<1>6. ASSUME NEW t \in leader' \cup child'
      PROVE  run'[t] \in {"running", "halting", "killing", "drain"}
  OBVIOUS
<1>7. NodeLock => /\ \A t \in Holding' : NodeOf[t] \in locked'
                  /\ \A t, u \in Holding' : NodeOf[t] = NodeOf[u] => t = u
  BY <1>2
<1> QED
  BY <1>1, <1>3, <1>5, <1>6, <1>7

\* A place is given back when nothing runs on it.
LEMMA ReleaseKeeps ==
    ASSUME DoorInv, NEW s \in Sess, ReleasePlace(s)
    PROVE  DoorInv'
<1> USE DoorRunAssumption DEF DoorInv, ReleasePlace, RunStep, To, procs
<1>1. run' \in [Sess -> Places]
  BY DEF Places
<1>2. Holding' = Holding \ {s} /\ s \in Holding
  BY DEF Holding, Places
<1>3. IsFiniteSet(Holding') /\ Cardinality(Holding') = Cardinality(Holding) - 1
  BY <1>2, FS_RemoveElement
<1>4. Cardinality(Holding) \in Nat
  BY FS_CardinalityType
<1>5. running' = Cardinality(Holding') /\ (MaxConcurrent > 0 => running' =< MaxConcurrent)
  BY <1>3, <1>4
<1>6. ASSUME NEW t \in leader' \cup child'
      PROVE  run'[t] \in {"running", "halting", "killing", "drain"}
  OBVIOUS
<1>7. NodeLock => /\ \A t \in Holding' : NodeOf[t] \in locked'
                  /\ \A t, u \in Holding' : NodeOf[t] = NodeOf[u] => t = u
  BY <1>2
<1> QED
  BY <1>1, <1>3, <1>5, <1>6, <1>7

LEMMA DoorStarts == DoorInit => DoorInv
<1> SUFFICES ASSUME DoorInit PROVE DoorInv
  OBVIOUS
<1>1. Holding = {}
  BY DEF DoorInit, Holding
<1>2. IsFiniteSet(Holding) /\ Cardinality(Holding) = 0
  BY <1>1, FS_EmptySet
<1> QED
  BY <1>1, <1>2, DoorRunAssumption DEF DoorInv, DoorInit, Places

LEMMA DoorSteps == DoorInv /\ [DoorNext]_doorVars => DoorInv'
<1> SUFFICES ASSUME DoorInv, [DoorNext]_doorVars PROVE DoorInv'
  OBVIOUS
<1>1. CASE UNCHANGED doorVars
  BY <1>1, ProgramsEnd DEF doorVars, procs
<1>2. ASSUME NEW s \in Sess, RunSteps(s)
      PROVE  DoorInv'
  <2>1. CASE ReleasePlace(s)
    BY <2>1, ReleaseKeeps
  <2>2. CASE StartAPI(s)
    BY <2>2, PlaceIsKept DEF StartAPI, procs, Places, DoorInv, RunStep
  <2>3. CASE Exited(s)
    <3>1. RunStep(s, run[s], "drain")
      BY <2>3 DEF Exited, AfterExit, RunStep
    <3> QED
      BY <2>3, <3>1, PlaceIsKept DEF Exited, procs, Places, DoorInv
  <2>4. CASE Halt(s)
    BY <2>4, PlaceIsKept DEF Halt, Places
  <2>5. CASE Kill(s)
    BY <2>5, PlaceIsKept DEF Kill, Places
  <2>6. CASE KillGroup(s)
    BY <2>6, PlaceIsKept DEF KillGroup, Places
  <2>7. CASE CloseListener(s)
    BY <2>7, PlaceIsKept DEF CloseListener, procs, Places, DoorInv, RunStep
  <2>8. CASE Sweep(s)
    BY <2>8, PlaceIsKept DEF Sweep, procs, Places, DoorInv, RunStep
  <2>9. CASE ApiClosed(s)
    BY <2>9, PlaceIsKept DEF ApiClosed, procs, Places, DoorInv, RunStep
  <2> QED
    BY <1>2, <2>1, <2>2, <2>3, <2>4, <2>5, <2>6, <2>7, <2>8, <2>9 DEF RunSteps
<1>3. ASSUME NEW s \in Sess, Launches(s)
      PROVE  DoorInv'
  <2>1. CASE StartTerminal(s)
    BY <2>1, PlaceIsKept DEF StartTerminal, Places
  <2>2. CASE StartFails(s)
    BY <2>2, PlaceIsKept DEF StartFails, procs, Places, DoorInv, RunStep
  <2> QED
    BY <1>3, <2>1, <2>2 DEF Launches
<1>4. ASSUME NEW s \in Sess, LeaderExits(s) \/ Forks(s)
      PROVE  DoorInv'
  BY <1>4, ProgramsEnd DEF LeaderExits, Forks, Alive
<1>5. ASSUME NEW s \in Sess, NEW c \in ApiConn,
             Accept(s, c) \/ Track(s, c) \/ Untrack(s, c) \/ DoorConnects(s, c)
      PROVE  DoorInv'
  BY <1>5, ProgramsEnd DEF Accept, Track, Untrack, DoorConnects, procs
<1> QED
  BY <1>1, <1>2, <1>3, <1>4, <1>5, ReserveKeeps DEF DoorNext

\* A place is held by one session at a time and until nothing it started runs
\* (Manager.Run, Invocation.Wait), so no two programs are alive on one node of the
\* board, and no more of them than the limit.
THEOREM DoorsAreAlone == DoorSpec => []AloneOnNode
<1>1. DoorInv => AloneOnNode
  <2> SUFFICES ASSUME DoorInv PROVE AloneOnNode
    OBVIOUS
  <2>1. leader \cup child \subseteq Holding
    BY DEF DoorInv, Holding
  <2>2. Cardinality(leader \cup child) =< Cardinality(Holding)
    BY <2>1, FS_Subset DEF DoorInv
  <2>3. Cardinality(Holding) \in Nat /\ Cardinality(leader \cup child) \in Nat
    BY <2>1, FS_Subset, FS_CardinalityType DEF DoorInv
  <2> QED
    BY <2>1, <2>2, <2>3, DoorRunAssumption DEF AloneOnNode, Alive, DoorInv
<1> QED
  BY <1>1, DoorStarts, DoorSteps, PTL DEF DoorSpec

=============================================================================
