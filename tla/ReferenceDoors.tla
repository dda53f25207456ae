--------------------------- MODULE ReferenceDoors ---------------------------
(***************************************************************************)
(* The reference doors (door/example/example.go) over the door API's       *)
(* client (door/client.go): hello, which only greets; guess, which keeps a *)
(* best score per player and one record; and arena, which keeps a league   *)
(* table and the cursor it has read the league to.                         *)
(*                                                                         *)
(* A door is a process of its own: every call to the board is a step, and  *)
(* between any two of them the player may hang up, the wall clock may kill *)
(* it, or another player's copy may run.  What is queued by event.emit and *)
(* how records arrive is DoorEvents' business; here results simply arrive. *)
(***************************************************************************)
EXTENDS Integers, FiniteSets, Sequences

CONSTANTS Seat,          \* copies of a door that may run at once
          Player,        \* handles; Guest stands for none
          Guest,
          Fighter,       \* (nick, board) pairs the league names, as numbers
          Granted,       \* Granted[d]: the API level the sysop granted door d
          MaxTracked,    \* arenaMaxTracked
          Page,          \* events one poll returns
          Unreadable,    \* the keys whose reads may fail
          MaxTries,      \* bound: guesses of one game
          MaxLeague,     \* bound: results that arrive
          MaxRuns        \* bound: launches

ASSUME ReferenceDoorsAssumption ==
    /\ Guest \notin Player
    /\ Fighter \subseteq Nat
    /\ Granted \in [{"hello", "guess", "arena"} -> 1..4]
    /\ {MaxTracked, Page} \subseteq Nat \ {0}
    /\ Unreadable \subseteq {"best", "record", "cursor", "table"}

VARIABLES running,   \* running[s]: the run in that seat
          best,      \* best[p]: level-2 state of each player, 0 when unset
          record,    \* shared state: the record
          ranking,   \* shared state: the standings, by fighter
          position,  \* shared state: the league cursor
          results,   \* the league's results in arrival order
          launched   \* runs so far

exampleVars == <<running, best, record, ranking, position, results, launched>>
saved == <<best, record, ranking, position>>

Won == 1
Lost == 2
Other == 3     \* a kind some other version of the game reports

Score == [wins : Nat, losses : Nat]
Unfought == [wins |-> 0, losses |-> 0]

NoRun == [door |-> "none"]
NewRun(d, p) == [door |-> d, who |-> p, at |-> "open", best |-> 0, record |-> 0,
                 tries |-> 0, cursor |-> 0, next |-> 0, table |-> <<>>]

ExampleInit ==
    /\ running = [s \in Seat |-> NoRun]
    /\ best = [p \in Player |-> 0] /\ record = 0
    /\ ranking = <<>> /\ position = 0
    /\ results = <<>> /\ launched = 0

At(s, d, where) == running[s].door = d /\ running[s].at = where

Becomes(s, new) == running' = [running EXCEPT ![s] = new]
Goes(s, where) == Becomes(s, [running[s] EXCEPT !.at = where])
Leaves(s) == Becomes(s, NoRun)

----------------------------------------------------------------------------
(* The world around the doors. *)

\* A result reaches this node's log.
ResultArrives(f, kind) ==
    /\ Len(results) < MaxLeague
    /\ results' = Append(results, [who |-> f, kind |-> kind])
    /\ UNCHANGED <<running, saved, launched>>

\* A player (or a guest) starts a door.
LaunchDoor(s, d, p) ==
    /\ running[s] = NoRun /\ launched < MaxRuns
    /\ launched' = launched + 1
    /\ Becomes(s, NewRun(d, p))
    /\ UNCHANGED <<saved, results>>

\* The player hangs up or quits, a call breaks, or the wall clock runs out.
EndsEarly(s) ==
    /\ running[s] # NoRun
    /\ Leaves(s)
    /\ UNCHANGED <<saved, results, launched>>

\* Open and Session: the descriptor, the token, the level, who is playing.
\* hello says so and leaves; arena plays neither a guest nor below level 3.
OpenDoor(s) ==
    /\ running[s] # NoRun /\ running[s].at = "open"
    /\ CASE running[s].door = "hello" -> Leaves(s)
         [] running[s].door = "guess" -> Goes(s, "best")
         [] OTHER -> IF running[s].who = Guest \/ Granted["arena"] < 3
                     THEN Leaves(s)
                     ELSE Goes(s, "fight")
    /\ UNCHANGED <<saved, results, launched>>

----------------------------------------------------------------------------
(* Level-2 state. *)

\* StateGet: a key that is unset, refused or unreadable reads as zero.
Reads(s, key, val) ==
    IF Granted[running[s].door] < 2 THEN {0}
    ELSE {val} \cup IF key \in Unreadable THEN {0} ELSE {}

\* StateSet may be refused: the level is not granted, the quota is used up.
MaySet(s) == IF Granted[running[s].door] < 2 THEN {FALSE} ELSE BOOLEAN

----------------------------------------------------------------------------
(* guess *)

\* A guest has no state of their own.
ReadBest(s) ==
    /\ At(s, "guess", "best")
    /\ \E n \in IF running[s].who = Guest THEN {0}
                ELSE Reads(s, "best", best[running[s].who]) :
         Becomes(s, [running[s] EXCEPT !.best = n, !.at = "record"])
    /\ UNCHANGED <<saved, results, launched>>

ReadRecord(s) ==
    /\ At(s, "guess", "record")
    /\ \E n \in Reads(s, "record", record) :
         Becomes(s, [running[s] EXCEPT !.record = n, !.at = "play"])
    /\ UNCHANGED <<saved, results, launched>>

\* The number is found in so many tries.
FindsIt(s) ==
    /\ At(s, "guess", "play")
    /\ \E n \in 1..MaxTries :
         Becomes(s, [running[s] EXCEPT !.tries = n, !.at = "celebrate"])
    /\ UNCHANGED <<saved, results, launched>>

\* celebrate: a personal best is saved, or its refusal shown; either way the
\* record comes next.
SavesBest(s) ==
    LET r == running[s]
    IN /\ At(s, "guess", "celebrate")
       /\ \E ok \in MaySet(s) :
            best' = IF ok /\ r.who # Guest /\ (r.best = 0 \/ r.tries < r.best)
                    THEN [best EXCEPT ![r.who] = r.tries] ELSE best
       /\ IF r.record # 0 /\ r.tries >= r.record THEN Leaves(s) ELSE Goes(s, "crown")
       /\ UNCHANGED <<record, ranking, position, results, launched>>

\* The record, against the one read before the game, and then the announcement,
\* whose refusal changes nothing.
SavesRecord(s) ==
    /\ At(s, "guess", "crown")
    /\ \E ok \in MaySet(s) : record' = IF ok THEN running[s].tries ELSE record
    /\ Leaves(s)
    /\ UNCHANGED <<best, ranking, position, results, launched>>

----------------------------------------------------------------------------
(* arena *)

\* arenaFight and reportArena: the fight is reported before the table is read.
\* A refusal for want of a league ends the door; every other answer goes on.
Reports(s) ==
    /\ At(s, "arena", "fight")
    /\ \/ Goes(s, "cursor")
       \/ Leaves(s)
    /\ UNCHANGED <<saved, results, launched>>

\* readArenaTable: the cursor and then the table, each read on its own.
ReadCursor(s) ==
    /\ At(s, "arena", "cursor")
    /\ \E n \in Reads(s, "cursor", position) :
         Becomes(s, [running[s] EXCEPT !.cursor = n, !.at = "table"])
    /\ UNCHANGED <<saved, results, launched>>

ReadTable(s) ==
    /\ At(s, "arena", "table")
    /\ \E t \in {ranking} \cup IF "table" \in Unreadable THEN {<<>>} ELSE {} :
         Becomes(s, [running[s] EXCEPT !.table = t, !.at = "poll"])
    /\ UNCHANGED <<saved, results, launched>>

\* arenaRecord: only the actor is counted, and an unknown kind as nothing.
Recorded(t, ev) ==
    LET old == IF ev.who \in DOMAIN t THEN t[ev.who] ELSE Unfought
        new == [wins |-> old.wins + (IF ev.kind = Won THEN 1 ELSE 0),
                losses |-> old.losses + (IF ev.kind = Lost THEN 1 ELSE 0)]
    IN [f \in DOMAIN t \cup {ev.who} |-> IF f = ev.who THEN new ELSE t[f]]

\* sortArena: wins, then fewest losses, then the name.
Above(t, f, g) ==
    \/ t[f].wins > t[g].wins
    \/ t[f].wins = t[g].wins /\ t[f].losses < t[g].losses
    \/ t[f].wins = t[g].wins /\ t[f].losses = t[g].losses /\ f < g

\* formatArenaTable keeps the first MaxTracked, and parseArenaTable reads back
\* what it kept.
Kept(t) ==
    LET top == {f \in DOMAIN t : Cardinality({g \in DOMAIN t : Above(t, g, f)}) < MaxTracked}
    IN [f \in top |-> t[f]]

\* PollEvents: the results after the cursor, one page of them.
PageEnd(n) == IF n + Page =< Len(results) THEN n + Page ELSE Len(results)

\* A table with the results after one place, up to another.
Tallied(t, after, upto) ==
    LET folded[n \in after..upto] ==
            IF n = after THEN t ELSE Recorded(folded[n - 1], results[n])
    IN  folded[upto]

\* showArenaStandings folds them in, and saves when there was anything new.
Polls(s) ==
    LET r == running[s]
        upto == PageEnd(r.cursor)
    IN /\ At(s, "arena", "poll")
       /\ IF upto =< r.cursor THEN Leaves(s)
          ELSE Becomes(s, [r EXCEPT !.table = Tallied(r.table, r.cursor, upto), !.next = upto, !.at = "save"])
       /\ UNCHANGED <<saved, results, launched>>

\* Mutant: the refusal of the table does not stop the cursor.
SavesTableAnyway(s) ==
    /\ At(s, "arena", "save")
    /\ \E ok \in MaySet(s) : ranking' = IF ok THEN Kept(running[s].table) ELSE ranking
    /\ Goes(s, "advance")
    /\ UNCHANGED <<best, record, position, results, launched>>

\* saveArenaTable writes the table, and gives up when that is refused ...
SavesTable(s) ==
    /\ At(s, "arena", "save")
    /\ \E ok \in MaySet(s) :
         IF ok THEN ranking' = Kept(running[s].table) /\ Goes(s, "advance")
               ELSE UNCHANGED ranking /\ Leaves(s)
    /\ UNCHANGED <<best, record, position, results, launched>>

\* ... and the cursor last.
SavesCursor(s) ==
    /\ At(s, "arena", "advance")
    /\ \E ok \in MaySet(s) : position' = IF ok THEN running[s].next ELSE position
    /\ Leaves(s)
    /\ UNCHANGED <<best, record, ranking, results, launched>>

ExampleNext ==
    \/ \E f \in Fighter, kind \in {Won, Lost, Other} : ResultArrives(f, kind)
    \/ \E s \in Seat :
         \/ \E d \in {"hello", "guess", "arena"}, p \in Player \cup {Guest} : LaunchDoor(s, d, p)
         \/ EndsEarly(s) \/ OpenDoor(s)
         \/ ReadBest(s) \/ ReadRecord(s) \/ FindsIt(s) \/ SavesBest(s) \/ SavesRecord(s)
         \/ Reports(s) \/ ReadCursor(s) \/ ReadTable(s) \/ Polls(s)
         \/ SavesTable(s) \/ SavesCursor(s)

----------------------------------------------------------------------------
\* How many results of one kind the league names a fighter for, up to a place.
ResultsFor(f, kind, n) ==
    Cardinality({i \in 1..n : results[i] = [who |-> f, kind |-> kind]})

\* What the saved cursor has passed is in the saved table (example.go:699-706:
\* a door that saved the cursor first "would have recorded that it read events
\* it did not count, and those fights would be gone from the standings
\* forever"), wherever one copy of the door at a time was cut off and whichever
\* of its writes were refused.  It takes a table that is read when it is there:
\* a read that fails gives an empty table beside the cursor kept, although
\* example.go:634-637 says that it "starts over from cursor zero".  Of two
\* copies, the slower may save its older table under the cursor of the faster.
\* A table at its limit drops fighters on purpose.
ReadIsCounted ==
    Cardinality(DOMAIN ranking) < MaxTracked =>
        \A f \in Fighter :
            LET score == IF f \in DOMAIN ranking THEN ranking[f] ELSE Unfought
            IN /\ score.wins >= ResultsFor(f, Won, position)
               /\ score.losses >= ResultsFor(f, Lost, position)
=============================================================================
