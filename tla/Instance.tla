------------------------------ MODULE Instance ------------------------------
(***************************************************************************)
(* One installation on disk: how `meshbbs init` makes it (cli/init.go,     *)
(* identity/keys.go), how every command opens the database and migrates it *)
(* (store/store.go), how serve checks the sequence numbers (store/seq.go)  *)
(* and posts, and what a backup that is put back does to all of that.      *)
(*                                                                         *)
(* A command may be killed between any two steps, and two commands may run *)
(* at once.  SQLite transactions are atomic.  A record's body is a number  *)
(* of its own.                                                             *)
(***************************************************************************)
EXTENDS Integers, FiniteSets
LOCAL INSTANCE FiniteSetsExt

CONSTANTS Process,      \* commands that may run at once
          Place,        \* areas; Roster, where the NODE record goes, is one
          Roster,
          Latest,       \* migrations this build brings
          Whole,        \* a backup puts the whole database back, or only the
                        \*   rows that hold the sequence numbers
          MaxPosts,     \* bound: records written
          MaxSeq,       \* bound: MaxSeq[a], the numbers reserved in an area
          MaxRestores   \* bound: backups put back

ASSUME InstanceAssumption ==
    /\ Roster \in Place
    /\ Latest \in Nat \ {0}
    /\ Whole \in BOOLEAN
    /\ MaxSeq \in [Place -> Nat]
    /\ {MaxPosts, MaxRestores} \subseteq Nat

VARIABLES keyFile,      \* "none", "torn", "good"
          confFile,     \* config.toml exists
          db,           \* the database
          backup,       \* a copy of it
          command,      \* command[p]: what p runs and where it is
          peersHold,    \* what peers hold of ours: they keep the first they hear
          written,      \* bodies so far
          published,    \* everything that ever went out (history)
          ran,          \* ran[m]: how often migration m was applied (history)
          restores

instVars == <<keyFile, confFile, db, backup, command, peersHold, written, published, ran, restores>>
keyAndConfig == <<keyFile, confFile>>
outside == <<peersHold, published>>

Fresh == [schema |-> 0, high |-> [a \in Place |-> 0], own |-> {}, incarnation |-> 0,
          self |-> FALSE, sysop |-> FALSE, seeded |-> FALSE]

Nothing == [cmd |-> "none", at |-> "none", migration |-> 0, area |-> Roster, seq |-> 0]

InstInit ==
    /\ keyFile = "none" /\ confFile = FALSE
    /\ db = Fresh /\ backup = Fresh
    /\ command = [p \in Process |-> Nothing]
    /\ peersHold = {} /\ written = 0 /\ published = {}
    /\ ran = [m \in 1 .. Latest |-> 0]
    /\ restores = 0

Proceeds(p, where) == command' = [command EXCEPT ![p].at = where]
Stops(p) == command' = [command EXCEPT ![p] = Nothing]
AtStep(p, cmd, where) == command[p].cmd = cmd /\ command[p].at = where

----------------------------------------------------------------------------
(* Starting. *)

Begins(p, cmd) ==
    /\ command[p] = Nothing
    /\ command' = [command EXCEPT ![p].cmd = cmd, ![p].at = IF cmd = "init" THEN "save" ELSE "load"]
    /\ UNCHANGED <<keyAndConfig, db, backup, outside, written, ran, restores>>

\* A signal, a power cut, a failed call.
Killed(p) ==
    /\ command[p] # Nothing
    /\ Stops(p)
    /\ UNCHANGED <<keyAndConfig, db, backup, outside, written, ran, restores>>

\* SaveNodeKey refuses to overwrite; otherwise the file exists before it is
\* written (O_EXCL: of two at once one fails).
CreatesKey(p) ==
    /\ AtStep(p, "init", "save")
    /\ IF keyFile # "none" THEN Stops(p) /\ UNCHANGED keyFile
       ELSE keyFile' = "torn" /\ Proceeds(p, "seed")
    /\ UNCHANGED <<confFile, db, backup, outside, written, ran, restores>>

WritesKey(p) ==
    /\ AtStep(p, "init", "seed")
    /\ keyFile' = "good" /\ Proceeds(p, "config")
    /\ UNCHANGED <<confFile, db, backup, outside, written, ran, restores>>

WritesConfig(p) ==
    /\ AtStep(p, "init", "config")
    /\ confFile' = TRUE /\ Proceeds(p, "migrate")
    /\ UNCHANGED <<keyFile, db, backup, outside, written, ran, restores>>

\* LoadNodeKey: no key, or half of one, and nothing is served.
LoadsKey(p) ==
    /\ AtStep(p, "serve", "load")
    /\ IF keyFile = "good" THEN Proceeds(p, "migrate") ELSE Stops(p)
    /\ UNCHANGED <<keyAndConfig, db, backup, outside, written, ran, restores>>

----------------------------------------------------------------------------
(* migrate *)

\* The next migration that schema_migrations does not name, or the work that
\* comes after: the NODE record in init, the check of the numbers in serve.
LooksForMigration(p) ==
    /\ command[p].at = "migrate"
    /\ IF db.schema = Latest
       THEN Proceeds(p, IF command[p].cmd = "init" THEN "announce" ELSE "check")
       ELSE command' = [command EXCEPT ![p].at = "apply", ![p].migration = db.schema + 1]
    /\ UNCHANGED <<keyAndConfig, db, backup, outside, written, ran, restores>>

\* Body and row in one transaction.  A migration that another process applied
\* since the look fails, and the store does not open.
AppliesMigration(p) ==
    LET m == command[p].migration
    IN /\ command[p].at = "apply"
       /\ IF db.schema >= m
          THEN Stops(p) /\ UNCHANGED <<db, ran>>
          ELSE /\ db' = [db EXCEPT !.schema = m]
               /\ ran' = [ran EXCEPT ![m] = @ + 1]
               /\ Proceeds(p, "migrate")
       /\ UNCHANGED <<keyAndConfig, backup, outside, written, restores>>

----------------------------------------------------------------------------
(* Sequence numbers. *)

Stored(a) == {r.seq : r \in {x \in db.own : x.area = a}}
HighestStored(a) == Max(Stored(a) \cup {0})

\* Mutant: one mark for the whole log.
RegressedOverall == {a \in Place : HighestStored(a) > Max({db.high[b] : b \in Place})}

\* The areas whose mark is behind what is stored.
Regressed == {a \in Place : HighestStored(a) > db.high[a]}

\* CheckSeqIntegrity, on every start of serve: the marks are brought up to what
\* is stored and the incarnation counts the repair.  A second serve gets this
\* far, and then finds the ports taken.
ChecksSeq(p) ==
    /\ AtStep(p, "serve", "check")
    /\ db' = [db EXCEPT !.high = [a \in Place |-> IF a \in Regressed THEN HighestStored(a) ELSE @[a]],
                        !.incarnation = @ + (IF Regressed = {} THEN 0 ELSE 1),
                        !.seeded = TRUE]
    /\ IF \E q \in Process : command[q].cmd = "serve" /\ command[q].at \in {"up", "put"}
       THEN Stops(p) ELSE Proceeds(p, "up")
    /\ UNCHANGED <<keyAndConfig, backup, outside, written, ran, restores>>

\* NextSeq: committed before it is used.  init takes one for the NODE record.
Reserves(p, a) ==
    /\ \/ AtStep(p, "serve", "up")
       \/ AtStep(p, "init", "announce") /\ a = Roster
    /\ written < MaxPosts /\ db.high[a] < MaxSeq[a]
    /\ db' = [db EXCEPT !.high = [db.high EXCEPT ![a] = db.high[a] + 1]]
    /\ command' = [command EXCEPT ![p].at = "put", ![p].area = a, ![p].seq = db.high[a] + 1]
    /\ UNCHANGED <<keyAndConfig, backup, outside, written, ran, restores>>

\* PutRecord: a second record under the same number is refused.
Puts(p) ==
    LET c == command[p]
        r == [area |-> c.area, seq |-> c.seq, body |-> written + 1]
        taken == c.seq \in Stored(c.area)
    IN /\ c.at = "put"
       /\ db' = IF taken THEN db ELSE [db EXCEPT !.own = @ \cup {r}]
       /\ written' = IF taken THEN written ELSE written + 1
       /\ IF taken THEN (IF c.cmd = "init" THEN Stops(p) ELSE Proceeds(p, "up"))
          ELSE Proceeds(p, IF c.cmd = "init" THEN "finish" ELSE "up")
       /\ UNCHANGED <<keyAndConfig, backup, outside, ran, restores>>

\* init's last writes: the starter areas, its own row, the sysop's account.
Finishes(p) ==
    /\ AtStep(p, "init", "finish")
    /\ db' = [db EXCEPT !.seeded = TRUE, !.self = TRUE, !.sysop = TRUE]
    /\ Stops(p)
    /\ UNCHANGED <<keyAndConfig, backup, outside, written, ran, restores>>

\* The engine pushes, or a peer asks for, any record that is stored; a peer
\* that has the number keeps what it has.
PeerHears(r) ==
    /\ \E p \in Process : command[p].cmd = "serve" /\ command[p].at \in {"up", "put"}
    /\ r \in db.own
    /\ published' = published \cup {r}
    /\ peersHold' = IF \E x \in peersHold : x.area = r.area /\ x.seq = r.seq
                    THEN peersHold ELSE peersHold \cup {r}
    /\ UNCHANGED <<keyAndConfig, db, backup, command, written, ran, restores>>

\* Anti-entropy brings our own records back like anyone's.
OwnComesBack(r) ==
    /\ \E p \in Process : AtStep(p, "serve", "up")
    /\ r \in peersHold /\ r.seq \notin Stored(r.area)
    /\ db' = [db EXCEPT !.own = @ \cup {r}]
    /\ UNCHANGED <<keyAndConfig, backup, command, outside, written, ran, restores>>

----------------------------------------------------------------------------
(* The sysop. *)

BacksUp ==
    /\ db.schema = Latest /\ backup # db /\ restores < MaxRestores
    /\ backup' = db
    /\ UNCHANGED <<keyAndConfig, db, command, outside, written, ran, restores>>

Restores ==
    /\ backup.schema = Latest /\ restores < MaxRestores
    /\ \A p \in Process : command[p] = Nothing
    /\ restores' = restores + 1
    /\ db' = IF Whole THEN backup ELSE [db EXCEPT !.high = backup.high]
    /\ UNCHANGED <<keyAndConfig, backup, command, outside, written, ran>>

InstNext ==
    \/ \E p \in Process :
         \/ \E cmd \in {"init", "serve"} : Begins(p, cmd)
         \/ Killed(p) \/ CreatesKey(p) \/ WritesKey(p) \/ WritesConfig(p) \/ LoadsKey(p)
         \/ LooksForMigration(p) \/ AppliesMigration(p)
         \/ ChecksSeq(p) \/ Puts(p) \/ Finishes(p)
         \/ \E a \in Place : Reserves(p, a)
    \/ \E r \in db.own : PeerHears(r)
    \/ \E r \in peersHold : OwnComesBack(r)
    \/ BacksUp \/ Restores

----------------------------------------------------------------------------
\* A number means one record for ever (docs/design.md:448, "seq must never
\* regress, including across a restore from backup"; store/seq.go:96-108):
\* nothing goes out under a number that went out for something else.
NumbersAreForGood ==
    \A x, y \in published : x.area = y.area /\ x.seq = y.seq => x = y

\* Two commands that open one database at once, or one that is killed on the
\* way, apply every migration at most once, and what serves has them all
\* (store/store.go:116-214).
MigratedOnce ==
    /\ \A m \in 1 .. Latest : ran[m] =< 1
    /\ \A p \in Process : command[p].at \in {"check", "announce", "up", "put"} => db.schema = Latest

\* While serve is up no mark is behind what is stored, so the number a post is
\* given is free (store/seq.go:96-108).
MarksCover ==
    (\E p \in Process : AtStep(p, "serve", "up")) => \A a \in Place : HighestStored(a) =< db.high[a]

\* What an installation keeps through kills, second commands and marks that
\* fell behind: numbers mean one record, migrations run once, and serve starts
\* with marks that cover its log.
InstallationHolds == NumbersAreForGood /\ MigratedOnce /\ MarksCover
=============================================================================
