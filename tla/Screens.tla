------------------------------ MODULE Screens ------------------------------
(***************************************************************************)
(* One session's interface (tui/model.go, keys.go, commands.go, sysop.go,  *)
(* doors.go, run by driver.go).  A key changes the screen at once and may  *)
(* start a command; the command reads or writes the store on a goroutine   *)
(* of its own, and its result is delivered to Update later, on whatever    *)
(* screen the session is by then.  Results of different commands come in   *)
(* any order; the two halves of a sequence come in theirs.                 *)
(*                                                                         *)
(* A list on the screen is the set of rows it was read with, and a cursor. *)
(* Rows are numbers in the order in which they are listed; a post or a     *)
(* file r is in area r \div 10.                                            *)
(***************************************************************************)
EXTENDS Integers, FiniteSets

CONSTANTS AtFirst,       \* [Lists -> rows in the store when the session starts]
          Arriving,      \* [Lists -> rows that may come meanwhile]
          Rights,        \* of the session: a subset of {"member", "sysop", "unlocked"}
          Mine,          \* files this member uploaded; the others are held elsewhere
          MaxCommands,   \* bound: commands the session starts
          MaxArrivals    \* bound: changes of the store by others

Lists == {"areas", "posts", "mail", "fileareas", "files", "doors", "users"}

\* An area's ten rows have room for the ones the session writes.
ASSUME ScreensAssumption ==
    /\ AtFirst \in [Lists -> SUBSET Nat] /\ Arriving \in [Lists -> SUBSET Nat]
    /\ \A l \in Lists : IsFiniteSet(AtFirst[l]) /\ IsFiniteSet(Arriving[l])
    /\ MaxCommands \in 0 .. 5

VARIABLES
    screen,      \* where the session is
    stored,      \* [Lists -> rows in the store]
    listed,      \* [Lists -> rows on the screen]
    cursor,      \* [Lists -> index of the selected row]
    fileArea,    \* the area listed["files"] belongs to
    draft,       \* [area, file]: what is being written, and for which row
    asked,       \* files this session has asked for
    confirm,     \* the sysop's pending action, 0 for none
    commands,    \* commands not delivered yet
    started,     \* commands so far
    arrivals,    \* changes by others so far
    described    \* [opened, written]: the rows of finished descriptions (history)

uiVars == <<screen, stored, listed, cursor, fileArea, draft, asked, confirm,
            commands, started, arrivals, described>>
look == <<listed, cursor, fileArea, draft, asked, confirm>>

NoDraft == [area |-> 0, file |-> 0]

\* loadAreas is started with the session.
UIInit ==
    /\ screen = "menu"
    /\ stored = AtFirst
    /\ listed = [l \in Lists |-> {}] /\ cursor = [l \in Lists |-> 0]
    /\ fileArea = 0 /\ draft = NoDraft /\ asked = {} /\ confirm = 0
    /\ commands = {[id |-> 1, op |-> "load", list |-> "areas", area |-> 0, row |-> 0,
                    step |-> "asked", rows |-> {}]}
    /\ started = 1 /\ arrivals = 0 /\ described = {}

----------------------------------------------------------------------------
(* Lists and commands. *)

InArea(rows, a) == {r \in rows : r \div 10 = a}

\* What a load reads: the whole list, or the area's part of it.
Rows(list, a) == IF list \in {"posts", "files"} THEN InArea(stored[list], a) ELSE stored[list]

\* The selected row.  Only for a cursor that points at one.
Selected(list) ==
    CHOOSE r \in listed[list] : Cardinality({x \in listed[list] : x < r}) = cursor[list]

Points(list) == cursor[list] < Cardinality(listed[list])

\* row is what the command works on or writes.
Start(op, list, a, row) ==
    /\ started < MaxCommands
    /\ started' = started + 1
    /\ commands' = commands \cup
         {[id |-> started + 1, op |-> op, list |-> list, area |-> a, row |-> row,
           step |-> "asked", rows |-> {}]}

\* tea.Sequence: a write of a row of one's own; its load follows when the write
\* is delivered.
WriteSequence(list, a) == Start("write", list, a, a * 10 + 4 + started)

Load(list, a) == Start("load", list, a, 0)
NoCommand == UNCHANGED <<commands, started>>

Nothing == UNCHANGED <<stored, arrivals, described>>

----------------------------------------------------------------------------
(* Keys. *)

\* Up and down, in the list of the screen.
Moves(list) ==
    /\ \/ cursor[list] > 0 /\ cursor' = [cursor EXCEPT ![list] = @ - 1]
       \/ cursor[list] < Cardinality(listed[list]) - 1
          /\ cursor' = [cursor EXCEPT ![list] = @ + 1]
    /\ UNCHANGED <<screen, listed, fileArea, draft, asked, confirm>> /\ NoCommand

Goes(to) == screen' = to /\ UNCHANGED look
Stays == UNCHANGED <<screen, look>>

\* To the top of a list, which is loaded; what was listed before stays until the
\* answer comes.
Enters(to, list) ==
    /\ screen' = to /\ Load(list, 0)
    /\ cursor' = [cursor EXCEPT ![list] = 0]
    /\ confirm' = IF to = "sysop" THEN 0 ELSE confirm
    /\ UNCHANGED <<listed, fileArea, draft, asked>>

MenuKey ==
    /\ screen = "menu"
    /\ \/ Enters("arealist", "areas") \/ Enters("filearealist", "fileareas")
       \/ Enters("doorlist", "doors")
       \/ {"member", "unlocked"} \subseteq Rights /\ Goes("maillist") /\ Load("mail", 0)
       \/ "sysop" \in Rights /\ Enters("sysop", "users")
    /\ Nothing

AreaListKey ==
    /\ screen = "arealist"
    /\ \/ Moves("areas")
       \/ Points("areas") /\ Goes("arearead") /\ Load("posts", Selected("areas"))
       \/ Goes("menu") /\ NoCommand
    /\ Nothing

\* P takes the area from the list of areas, not from the posts shown.
AreaReadKey ==
    /\ screen = "arearead"
    /\ \/ Moves("posts")
       \/ /\ "member" \in Rights /\ Points("areas")
          /\ screen' = "compose" /\ draft' = [area |-> Selected("areas"), file |-> 0]
          /\ UNCHANGED <<listed, cursor, fileArea, asked, confirm>> /\ NoCommand
       \/ Goes("arealist") /\ NoCommand
    /\ Nothing

\* Ctrl-D sends and goes back to the list, which is loaded again after the
\* write; Esc only goes back.
ComposeScreenKey ==
    /\ \/ screen = "compose" /\ Goes("arearead") /\ (WriteSequence("posts", draft.area) \/ NoCommand)
       \/ screen = "mailcompose" /\ Goes("maillist") /\ (WriteSequence("mail", 0) \/ NoCommand)
    /\ Nothing

MailListKey ==
    /\ screen = "maillist"
    /\ \/ Moves("mail")
       \/ Points("mail") /\ Stays /\ Start("open", "mail", 0, Selected("mail"))
       \/ Goes("mailcompose") /\ NoCommand
       \/ Goes("menu") /\ NoCommand
    /\ Nothing

\* R answers whoever the cursor is on.
MailReadKey ==
    /\ screen = "mailread"
    /\ \/ Points("mail") /\ Goes("mailcompose") /\ NoCommand
       \/ Goes("maillist") /\ Load("mail", 0)
    /\ Nothing

FileAreaListKey ==
    /\ screen = "filearealist"
    /\ \/ Moves("fileareas")
       \/ Points("fileareas") /\ Goes("filearea") /\ Load("files", Selected("fileareas"))
       \/ Goes("menu") /\ NoCommand
    /\ Nothing

\* startDescribe: one's own files only, and the cursor is checked.
StartDescribe ==
    /\ Points("files") /\ Selected("files") \in Mine
    /\ screen' = "filedescribe"
    /\ draft' = [area |-> fileArea, file |-> Selected("files")]
    /\ UNCHANGED <<listed, cursor, fileArea, asked, confirm>> /\ NoCommand

\* startRequest: a file that is not here, and once.
StartRequest ==
    /\ "member" \in Rights
    /\ Points("files") /\ Selected("files") \notin Mine \cup asked
    /\ Stays /\ Start("request", "files", fileArea, Selected("files"))

FileAreaKey ==
    /\ screen = "filearea"
    /\ \/ Moves("files")
       \/ listed["files"] # {} /\ Goes("fileinfo") /\ NoCommand
       \/ StartDescribe \/ StartRequest
       \/ Goes("filearealist") /\ Load("fileareas", 0)
    /\ Nothing

FileInfoKey ==
    /\ screen = "fileinfo"
    /\ StartDescribe \/ StartRequest \/ (Goes("filearea") /\ NoCommand)
    /\ Nothing

\* Enter in the editor: the text goes to the row the cursor is on by now.
FileDescribeKey ==
    /\ screen = "filedescribe"
    /\ \/ Goes("fileinfo") /\ NoCommand /\ UNCHANGED described
       \/ /\ Points("files")
          /\ Goes("fileinfo") /\ Start("describe", "files", fileArea, Selected("files"))
          /\ described' = described \cup {[opened |-> draft.file, written |-> Selected("files")]}
       \/ ~Points("files") /\ Goes("filearea") /\ NoCommand /\ UNCHANGED described
    /\ UNCHANGED <<stored, arrivals>>

DoorListKey ==
    /\ screen = "doorlist"
    /\ \/ Moves("doors")
       \/ Points("doors") /\ Stays /\ Start("door", "doors", 0, Selected("doors"))
       \/ Goes("menu") /\ NoCommand
    /\ Nothing

\* A toggle asks first; any key but y cancels.  Another tab loads everything.
SysopKey ==
    /\ screen = "sysop"
    /\ \/ confirm = 0 /\ Moves("users")
       \/ confirm = 0 /\ Stays /\ Load("users", 0)
       \/ confirm = 0 /\ Goes("menu") /\ NoCommand
       \/ /\ \/ confirm = 0 /\ Points("users") /\ confirm' = Selected("users") /\ NoCommand
             \/ confirm # 0 /\ confirm' = 0 /\ NoCommand
             \/ confirm # 0 /\ confirm' = 0 /\ Start("toggle", "users", 0, confirm)
          /\ UNCHANGED <<screen, listed, cursor, fileArea, draft, asked>>
    /\ Nothing

\* The areas are indexed without a look: by the view of an area as soon as it is
\* drawn, by Enter, and by P; so is the mail by R.  The session dies there.
Panics ==
    /\ \/ screen \in {"arealist", "arearead"} /\ listed["areas"] # {} /\ ~Points("areas")
       \/ screen = "mailread" /\ ~Points("mail")
    /\ Goes("gone") /\ commands' = {}
    /\ UNCHANGED started /\ Nothing

Leaves ==
    /\ Goes("gone") /\ commands' = {}
    /\ UNCHANGED started /\ Nothing

----------------------------------------------------------------------------
(* Commands at the store. *)

Moved(c, new) == commands' = (commands \ {c}) \cup new

Done(c) == [c EXCEPT !.step = "done"]

\* The load of a sequence, or of an action of the sysop's.
Reload(c, row) == [c EXCEPT !.op = "load", !.step = "asked", !.row = row]

Reads(c) ==
    /\ c.op = "load"
    /\ Moved(c, {[Done(c) EXCEPT !.rows = Rows(c.list, c.area)]}) /\ UNCHANGED stored

WritesRow(c) ==
    /\ c.op = "write"
    /\ stored' = [stored EXCEPT ![c.list] = @ \cup {c.row}]
    /\ Moved(c, {Done(c)})

\* describeFile writes and reads in one.
DescribesFile(c) ==
    /\ c.op = "describe"
    /\ Moved(c, {[Done(c) EXCEPT !.rows = Rows(c.list, c.area)]}) /\ UNCHANGED stored

\* A request is refused for a file that is no longer offered.
RequestsFile(c) ==
    /\ c.op = "request"
    /\ Moved(c, IF c.row \in stored["files"] THEN {Done(c)} ELSE {}) /\ UNCHANGED stored

\* Opening a letter and running a door are in Mailbox and DoorRun.
RunsElsewhere(c) ==
    /\ c.op \in {"open", "door", "toggle"}
    /\ Moved(c, {Done(c)}) /\ UNCHANGED stored

AtStore(c) ==
    /\ c \in commands /\ c.step = "asked"
    /\ Reads(c) \/ WritesRow(c) \/ DescribesFile(c) \/ RequestsFile(c) \/ RunsElsewhere(c)
    /\ UNCHANGED <<screen, look, started, arrivals, described>>

\* An error becomes the status line; a sequence goes on all the same.
CommandFails(c) ==
    /\ c \in commands /\ c.step = "asked"
    /\ Moved(c, IF c.op = "write" THEN {Reload(c, 0)} ELSE {})
    /\ Stays /\ UNCHANGED started /\ Nothing

----------------------------------------------------------------------------
(* Results, on whatever screen the session is. *)

\* Mutant: a list that became shorter keeps the cursor.
AfterLoadKept(list, rows) == IF list \in {"doors"} THEN cursor[list] ELSE 0

\* The cursor after a load, as each case of Update sets it: on the newest post,
\* on the first letter or file, where it was if there is still a row there; the
\* areas and the sysop's tables do not look.
AfterLoad(list, rows) ==
    CASE list \in {"areas", "users"} -> cursor[list]
      [] list = "posts" -> IF rows = {} THEN 0 ELSE Cardinality(rows) - 1
      [] list \in {"mail", "files"} -> 0
      [] OTHER -> IF cursor[list] < Cardinality(rows) THEN cursor[list] ELSE 0

Shows(list, rows, at) ==
    /\ listed' = [listed EXCEPT ![list] = rows]
    /\ cursor' = [cursor EXCEPT ![list] = at]

ListLoaded(c) ==
    /\ c.op = "load"
    /\ Shows(c.list, c.rows, AfterLoad(c.list, c.rows))
    /\ fileArea' = IF c.list = "files" THEN c.area ELSE fileArea
    /\ Moved(c, {}) /\ UNCHANGED <<screen, asked>>

\* The cursor stays on the row of the same name, if there is one.
SameRow(rows) ==
    IF Points("files") /\ Selected("files") \in rows
    THEN Cardinality({x \in rows : x < Selected("files")}) ELSE 0

FileDescribed(c) ==
    /\ c.op = "describe"
    /\ Shows("files", c.rows, SameRow(c.rows)) /\ fileArea' = c.area
    /\ Moved(c, {}) /\ UNCHANGED <<screen, asked>>

FileRequested(c) ==
    /\ c.op = "request"
    /\ asked' = asked \cup {c.row}
    /\ Moved(c, {}) /\ UNCHANGED <<screen, listed, cursor, fileArea>>

MailOpened(c) ==
    /\ c.op = "open"
    /\ screen' = "mailread"
    /\ Moved(c, {}) /\ UNCHANGED <<listed, cursor, fileArea, asked>>

\* The status line.  A sequence goes on with its load, the sysop's action with one
\* of everything.
StatusShown(c) ==
    /\ c.op \in {"write", "toggle", "door"}
    /\ Moved(c, IF c.op = "door" THEN {}
                ELSE {Reload(c, IF c.op = "write" THEN c.row ELSE 0)})
    /\ UNCHANGED <<screen, listed, cursor, fileArea, asked>>

Deliver(c) ==
    /\ c \in commands /\ c.step = "done"
    /\ ListLoaded(c) \/ FileDescribed(c) \/ FileRequested(c) \/ MailOpened(c) \/ StatusShown(c)
    /\ UNCHANGED <<draft, confirm, started>> /\ Nothing

\* Other sessions, the mesh and the sysop's command line.
OthersChange ==
    /\ arrivals < MaxArrivals
    /\ arrivals' = arrivals + 1
    /\ \E l \in Lists :
          \/ \E r \in Arriving[l] \ stored[l] : stored' = [stored EXCEPT ![l] = @ \cup {r}]
          \/ l = "doors" /\ \E r \in stored[l] : stored' = [stored EXCEPT ![l] = @ \ {r}]
    /\ UNCHANGED <<screen, look, commands, started, described>>

UINext ==
    \/ /\ screen # "gone"
       /\ \/ MenuKey \/ AreaListKey \/ AreaReadKey \/ ComposeScreenKey \/ MailListKey
          \/ MailReadKey \/ FileAreaListKey \/ FileAreaKey \/ FileInfoKey \/ FileDescribeKey
          \/ DoorListKey \/ SysopKey \/ Panics \/ Leaves
    \/ \E c \in commands : AtStore(c) \/ Deliver(c) \/ CommandFails(c)
    \/ OthersChange

----------------------------------------------------------------------------
(* Properties. *)

\* The load that follows a write has the row that was written, whatever else is
\* on its way ("Sequence, not Batch", keys.go; Driver.exec).
ReloadHasTheWrite ==
    \A c \in commands : c.op = "load" /\ c.step = "done" /\ c.row # 0 => c.row \in c.rows

\* Wherever a key or a screen uses the cursor of these lists without looking,
\* there is a row under it, in whatever order results come (Update).
CursorsPoint ==
    \A l \in {"posts", "mail", "fileareas", "files", "doors"} : listed[l] = {} \/ Points(l)

\* Whatever order results come in, the screen shows and acts on real rows.
ScreensHold == ReloadHasTheWrite /\ CursorsPoint

\* "moving the selection out from under them would redraw it as a different
\* file" (model.go 382-386): a description goes to the file it was opened for.
DescribesTheOneOpened == \A d \in described : d.opened = d.written

=============================================================================
