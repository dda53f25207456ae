------------------------------ MODULE DoorSetup ------------------------------
(***************************************************************************)
(* From a sysop's `meshbbs door add` to the program a player gets          *)
(* (cli/door.go, cli/doorexample.go, store/doors.go, tui/doors.go,         *)
(* sshd/doors.go, door/door.go, limits*.go, dropfile.go, descriptor.go).   *)
(* The row is written and read by commands of their own, listed by a       *)
(* session, and launched from that session's list.                         *)
(*                                                                         *)
(* A duration is counted in halves of the unit the database keeps, so that *)
(* an odd one is rounded.  Text is a sequence of "c" for a character, "s"  *)
(* for a space, "n" for a line end and "x" for a control character.        *)
(***************************************************************************)
EXTENDS Integers, FiniteSets, Sequences

CONSTANTS Shelf,          \* names of doors
          Offer,          \* rows a sysop may give one of them
          Admin,          \* commands of the sysop's that may run at once
          Asker,         \* sessions
          Guests,         \* the ones that are not members
          Able,           \* [Asker -> capabilities at first]
          ServerEnv,      \* variables of the server
          Names,          \* what a caller may be called: a set of texts
          Enforced,       \* limits this platform can apply: of {"cpu", "mem"}
          LeagueArea,     \* the area given to `door examples`: "none", "absent", "local", "league"
          MaxSaves,       \* bound: rows written
          MaxLaunches     \* bound: doors started

ASSUME DoorSetupAssumption == Names \subseteq Seq({"c", "s", "n", "x"})

VARIABLES shelf,      \* shelf[d]: the row, or NoRow
          admin,      \* admin[p]: what a command holds between its read and its write
          able,       \* capabilities
          offered,    \* offered[s]: the rows on the session's screen
          playing,    \* doors that were started, and with what
          saves, launches

setupVars == <<shelf, admin, able, offered, playing, saves, launches>>

NoRow == [level |-> 0, enabled |-> FALSE, wall |-> 0, cpu |-> 0, mem |-> 0, needs |-> "",
          pass |-> {}, dropfile |-> "none", league |-> FALSE, asked |-> 0]
NotRunning == [door |-> "", row |-> NoRow, queue |-> <<>>]

SetupInit ==
    /\ shelf = [d \in Shelf |-> NoRow]
    /\ admin = [p \in Admin |-> NotRunning]
    /\ able = Able
    /\ offered = [s \in Asker |-> <<>>]
    /\ playing = {} /\ saves = 0 /\ launches = 0

----------------------------------------------------------------------------
(* The row. *)

\* Door.validate.
Storable(row) ==
    /\ row.level \in 1 .. 4 /\ row.wall > 0
    /\ row.dropfile \in {"none", "door.sys", "door32.sys", "dorinfo1.def"}

\* The columns are whole seconds.  asked is the limit the sysop gave (history).
Seconds(n) == n \div 2
Rounded(row) == [row EXCEPT !.wall = 2 * Seconds(@), !.cpu = 2 * Seconds(@)]

Saves(d, row) ==
    /\ saves < MaxSaves /\ saves' = saves + 1
    /\ Storable(row)
    /\ shelf' = [shelf EXCEPT ![d] = Rounded(row)]

\* door add
AddDoor(d, row) ==
    /\ Saves(d, [row EXCEPT !.enabled = TRUE, !.asked = row.cpu])
    /\ UNCHANGED <<admin, able, offered, playing, launches>>

\* door remove
RemoveDoor(d) ==
    /\ shelf[d] # NoRow
    /\ shelf' = [shelf EXCEPT ![d] = NoRow]
    /\ UNCHANGED <<admin, able, offered, playing, saves, launches>>

\* door enable, door disable: the row is read, and written back changed.
EnableReads(p, d) ==
    /\ admin[p] = NotRunning /\ shelf[d] # NoRow /\ saves < MaxSaves
    /\ admin' = [admin EXCEPT ![p] = [NotRunning EXCEPT !.door = d, !.row = shelf[d]]]
    /\ UNCHANGED <<shelf, able, offered, playing, saves, launches>>

EnableWrites(p, on) ==
    /\ admin[p].door # "" /\ admin[p].queue = <<>>
    /\ Saves(admin[p].door, [admin[p].row EXCEPT !.enabled = on])
    /\ admin' = [admin EXCEPT ![p] = NotRunning]
    /\ UNCHANGED <<able, offered, playing, launches>>

\* door examples: the area first, and then the doors one after the other.
Example(d) ==
    [NoRow EXCEPT !.level = IF d = "hello" THEN 1 ELSE 3, !.enabled = TRUE, !.wall = 2,
                  !.league = d = "arena" /\ LeagueArea # "none"]

ExamplesStart(p) ==
    /\ admin[p] = NotRunning /\ {"hello", "arena"} \subseteq Shelf /\ saves < MaxSaves
    /\ LeagueArea \in {"none", "league"}
    /\ admin' = [admin EXCEPT ![p].queue = <<"hello", "arena">>]
    /\ UNCHANGED <<shelf, able, offered, playing, saves, launches>>

ExampleSaved(p) ==
    /\ admin[p].queue # <<>>
    /\ Saves(Head(admin[p].queue), Example(Head(admin[p].queue)))
    /\ admin' = [admin EXCEPT ![p].queue = Tail(@)]
    /\ UNCHANGED <<able, offered, playing, launches>>

\* A command that fails or is stopped half way.
CommandStops(p) ==
    /\ admin[p] # NotRunning
    /\ admin' = [admin EXCEPT ![p] = NotRunning]
    /\ UNCHANGED <<shelf, able, offered, playing, saves, launches>>

\* user grant, user revoke
ChangesCapability(s, c) ==
    /\ able' = [able EXCEPT ![s] = IF c \in @ THEN @ \ {c} ELSE @ \cup {c}]
    /\ UNCHANGED <<shelf, admin, offered, playing, saves, launches>>

----------------------------------------------------------------------------
(* The session. *)

\* loadDoors leaves out what is disabled, not what this caller may not run.
ListDoors(s) ==
    /\ offered' = [offered EXCEPT ![s] = [d \in {x \in Shelf : shelf[x].enabled} |-> shelf[d]]]
    /\ offered'[s] # offered[s]
    /\ UNCHANGED <<shelf, admin, able, playing, saves, launches>>

\* mayRunDoor asks the store for the caller, and the list for the door.
MayRun(s, row) ==
    /\ s \notin Guests
    /\ "run_doors" \in able[s]
    /\ row.needs = "" \/ row.needs \in able[s]

\* Spec.validate and checkLimits: a limit nobody can apply is refused.
Launchable(row) ==
    /\ row.wall > 0
    /\ row.cpu > 0 => "cpu" \in Enforced
    /\ row.mem > 0 => "mem" \in Enforced

----------------------------------------------------------------------------
(* The dropfile. *)

\* sanitizeField: line ends and runs of white space become one space, other
\* control characters go, and no space leads or trails.
After(done, c) ==
    CASE c \in {"s", "n"} -> [done EXCEPT !.space = TRUE]
      [] c = "x" -> done
      [] OTHER -> [out |-> done.out \o (IF done.space /\ done.out # <<>> THEN <<"s">> ELSE <<>>) \o <<c>>,
                   space |-> FALSE]

Sanitized(text) ==
    LET done[i \in 0 .. Len(text)] ==
          IF i = 0 THEN [out |-> <<>>, space |-> FALSE] ELSE After(done[i - 1], text[i])
    IN  done[Len(text)].out

\* The lines that hold what a caller typed, by number; the others are fixed.
LineCount(format) ==
    CASE format = "door.sys" -> 52 [] format = "door32.sys" -> 11 [] format = "dorinfo1.def" -> 13
      [] OTHER -> 0
NameLine(format) ==
    CASE format = "door.sys" -> 36 [] format = "door32.sys" -> 7 [] format = "dorinfo1.def" -> 7
      [] OTHER -> 0

\* The file's lines as a program reads them: a line end within the name is one.
LinesRead(format, name) ==
    LineCount(format) + (IF NameLine(format) = 0 THEN 0
                         ELSE Cardinality({i \in DOMAIN Sanitized(name) : Sanitized(name)[i] = "n"}))

----------------------------------------------------------------------------
(* The environment. *)

Bound(var, by) == [var |-> var, by |-> by]

\* Spec.environ, one set after the other: the base and the session's terminal,
\* what the row passes through of the server's, the dropfile's and the
\* descriptor's.  No set has a name twice.
Layers(row) ==
    <<{Bound("PATH", "base"), Bound("TERM", "session")},
      {Bound(v, "server") : v \in row.pass \cap ServerEnv},
      IF row.dropfile = "none" THEN {} ELSE {Bound("MESHBBS_DROPFILE", "bbs")},
      {Bound("MESHBBS_USER", "bbs"), Bound("COLUMNS", "bbs")}>>

\* Mutant: the first of two wins.
DedupFirst(env) ==
    UNION {{b \in env[i] : \A j \in 1 .. i - 1 : \A c \in env[j] : c.var # b.var} : i \in DOMAIN env}

\* dedupEnv: of two with one name the last.
Dedup(env) ==
    UNION {{b \in env[i] : \A j \in i + 1 .. Len(env) : \A c \in env[j] : c.var # b.var} : i \in DOMAIN env}

----------------------------------------------------------------------------
(* Launching. *)

\* limitCommand and the helper: whole seconds, and none for zero.
Limits(row) == [cpu |-> Seconds(row.cpu), mem |-> row.mem]

Launch(s, d, name) ==
    /\ launches < MaxLaunches /\ launches' = launches + 1
    /\ d \in DOMAIN offered[s]
    /\ LET row == offered[s][d]
       IN  /\ MayRun(s, row) /\ Launchable(row)
           /\ playing' = playing \cup
                {[caller |-> s, door |-> d, row |-> row, current |-> shelf[d],
                  held |-> able[s], limits |-> Limits(row),
                  env |-> Dedup(Layers(row)), lines |-> LinesRead(row.dropfile, name)]}
    /\ UNCHANGED <<shelf, admin, able, offered, saves>>

DoorEnds(run) ==
    /\ run \in playing
    /\ playing' = playing \ {run}
    /\ UNCHANGED <<shelf, admin, able, offered, saves, launches>>

SetupNext ==
    \/ \E d \in Shelf : RemoveDoor(d) \/ \E row \in Offer : AddDoor(d, row)
    \/ \E p \in Admin :
         \/ \E d \in Shelf : EnableReads(p, d)
         \/ \E on \in BOOLEAN : EnableWrites(p, on)
         \/ ExamplesStart(p) \/ ExampleSaved(p) \/ CommandStops(p)
    \/ \E s \in Asker :
         \/ ListDoors(s)
         \/ \E c \in {"run_doors", "play"} : ChangesCapability(s, c)
         \/ \E d \in Shelf, name \in Names : Launch(s, d, name)
    \/ \E run \in playing : DoorEnds(run)

----------------------------------------------------------------------------
(* Properties. *)

\* Whoever plays was a member with the capabilities of the door they saw, when it
\* started (tui/doors.go:99-122).
PlayersAreAble ==
    \A run \in playing :
       run.caller \notin Guests /\ {"run_doors", run.row.needs} \ {""} \subseteq run.held

\* What the BBS tells a door, the server's environment does not replace, and of
\* the server's nothing comes but what the row names (door/door.go:468-479).
BBSSpeaksLast ==
    \A run \in playing :
       /\ \A b \in run.env :
             b.var \in {"MESHBBS_USER", "COLUMNS"}
                        \cup (IF run.row.dropfile = "none" THEN {} ELSE {"MESHBBS_DROPFILE"})
               => b.by = "bbs"
       /\ \A b \in run.env : b.by = "server" => b.var \in run.row.pass
       /\ \A a, b \in run.env : a.var = b.var => a = b

\* No name moves what follows it to another line (door/dropfile.go:139-151).
LinesStay == \A run \in playing : run.lines = LineCount(run.row.dropfile)

\* "A limit this platform cannot apply is refused when the door launches, with the
\* platform named. Silently ignoring it is the one option not available"
\* (door/limits.go:37-40): a limit in the row is a limit of the program.
LimitsApply ==
    \A run \in playing :
       /\ (run.row.asked > 0) = (run.limits.cpu > 0)
       /\ run.limits.mem = run.row.mem
       /\ run.row.cpu > 0 => "cpu" \in Enforced
       /\ run.row.mem > 0 => "mem" \in Enforced

\* A row that could be saved can be saved again, so a door can be disabled
\* (cli/door.go:276-287).
RowsStayStorable == \A d \in Shelf : shelf[d] = NoRow \/ Storable(shelf[d])

\* What a player gets is what the row says, whoever typed what, and in whatever
\* order rows, lists and launches come.
LaunchedAsSetUp == PlayersAreAble /\ BBSSpeaksLast /\ LinesStay /\ LimitsApply /\ RowsStayStorable

\* "a sysop turning one off means it is not on offer" (tui/doors.go:75-76): what
\* is started is enabled.
OffersAreCurrent == \A run \in playing : run.current.enabled

=============================================================================
