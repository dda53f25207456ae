------------------------------ MODULE Catalog ------------------------------
(***************************************************************************)
(* What a file area shows: the files table (store/files.go), the FILE      *)
(* records that announce a federated area's files to other boards          *)
(* (bbs/bbs.go), the merge of the two that a session, the file command and *)
(* the request command read (ListAreaContents), and the directory SFTP     *)
(* serves from the table alone (sshd/sftp.go).                             *)
(*                                                                         *)
(* Describing a file is four writes with the database free between them:   *)
(* the text, a sequence number and a record, the link from the row to the  *)
(* record.  Any of the later ones may fail, and another caller, an SFTP    *)
(* rename or a peer's record may come between.  Bytes and carriers belong  *)
(* to Files; here a content is held while some row has it.                 *)
(***************************************************************************)
EXTENDS Integers, Sequences, FiniteSets

CONSTANTS Area, Federated,
          FileName, Content,
          Truncate,        \* [Content -> what a FILE record carries of a hash]
          Text,            \* the descriptions
          NoText,          \* the empty one
          Board, Here,     \* boards that announce files; this one
          Uploader,        \* accounts
          MayFederate,     \* the ones with the post-federated capability
          Caller,          \* the sessions and commands that describe and upload
          MaxRows, MaxLog, MaxNumber, MaxClock

\* An account has a nickname.
ASSUME CatalogAssumption ==
    /\ "gone" \notin Area /\ "" \notin Uploader /\ Here \in Board
    /\ {MaxRows, MaxLog, MaxNumber, MaxClock} \subseteq Nat

VARIABLES
    rows,      \* table files: a sequence of rows, a removed one is Gone
    filed,     \* the FILE records of the log, in the order they arrived
    calls,     \* [Caller -> what it is in the middle of]
    numbers,   \* [Area -> the last sequence number handed out]
    clock,     \* seconds
    queued     \* what the request command asked for

catVars == <<rows, filed, calls, numbers, clock, queued>>

NoRecord == 0                  \* record_id is NULL
Gone == [area |-> "gone"]
Free == [at |-> "free"]

CatInit ==
    /\ rows = <<>> /\ filed = <<>> /\ clock = 1 /\ queued = {}
    /\ calls = [c \in Caller |-> Free] /\ numbers = [a \in Area |-> 0]

----------------------------------------------------------------------------
(* The table. *)

Rows(a) == {i \in DOMAIN rows : rows[i].area = a}
Called(a, n) == {i \in Rows(a) : rows[i].name = n}

\* GetFile: (area, name) is unique.
GetFile(a, n) == CHOOSE i \in Called(a, n) : TRUE

ListFiles(a) == {rows[i] : i \in Rows(a)}

\* A wire hash is looked up among the blobs of every area.
HoldsBlob(w) == \E a \in Area : \E f \in ListFiles(a) : Truncate[f.hash] = w

\* The sysop may describe anything here, an account only what it uploaded.
MayDescribeFile(who, nick, sysop) == sysop \/ (who # "" /\ who = nick)

CanUploadTo(a, nick) == a \in Federated => nick = "" \/ nick \in MayFederate

----------------------------------------------------------------------------
(* The announcement. *)

\* The record of a row as it was read.
NewFileRecord(f, seq) ==
    [origin |-> Here, area |-> f.area, name |-> f.name, hash |-> Truncate[f.hash],
     desc |-> f.desc, ts |-> clock, seq |-> seq]

\* AddFile up to the commit of the row; a federated area goes on to announce it.
AddRow(c, a, n, h, nick) ==
    LET f == [area |-> a, name |-> n, hash |-> h, desc |-> NoText,
              who |-> nick, rec |-> NoRecord, at |-> clock]
    IN  /\ calls[c].at = "free" /\ Len(rows) < MaxRows
        /\ CanUploadTo(a, nick) /\ Called(a, n) = {}
        /\ rows' = Append(rows, f)
        /\ calls' = [calls EXCEPT ![c] =
             IF a \in Federated THEN [at |-> "build", row |-> Len(rows) + 1, file |-> f]
             ELSE Free]
        /\ UNCHANGED <<filed, numbers, clock, queued>>

\* SetFileDescription: the row no longer says what its record says.
Described(f, text) == [f EXCEPT !.desc = text, !.rec = NoRecord]

\* DescribeFile: the write; a federated area goes on to announce it.
Describe(c, a, n, text, nick, sysop) ==
    /\ calls[c].at = "free" /\ Called(a, n) # {}
    /\ MayDescribeFile(rows[GetFile(a, n)].who, nick, sysop)
    /\ rows' = [rows EXCEPT ![GetFile(a, n)] = Described(@, text)]
    /\ calls' = [calls EXCEPT ![c] =
         IF a \in Federated THEN [at |-> "reread", area |-> a, name |-> n] ELSE Free]
    /\ UNCHANGED <<filed, numbers, clock, queued>>

\* The row is read again by name, and may be gone.
Reread(c) ==
    /\ calls[c].at = "reread"
    /\ calls' = [calls EXCEPT ![c] =
         IF Called(@.area, @.name) = {} THEN Free
         ELSE LET i == GetFile(@.area, @.name)
              IN  [at |-> "build", row |-> i, file |-> rows[i]]]
    /\ UNCHANGED <<rows, filed, numbers, clock, queued>>

\* A sequence number of the area, and the record.
Build(c) ==
    LET f == calls[c].file
    IN  /\ calls[c].at = "build" /\ numbers[f.area] < MaxNumber
        /\ numbers' = [numbers EXCEPT ![f.area] = @ + 1]
        /\ calls' = [calls EXCEPT ![c] = [at |-> "store", row |-> @.row,
                         rec |-> NewFileRecord(f, numbers[f.area] + 1)]]
        /\ UNCHANGED <<rows, filed, clock, queued>>

PutFileRecord(c) ==
    /\ calls[c].at = "store" /\ Len(filed) < MaxLog
    /\ filed' = Append(filed, calls[c].rec)
    /\ calls' = [calls EXCEPT ![c] =
         [at |-> "link", row |-> @.row, rec |-> Len(filed) + 1]]
    /\ UNCHANGED <<rows, numbers, clock, queued>>

\* SetFileRecord: by the row's id, which a removed row no longer has.
SetFileRecord(c) ==
    /\ calls[c].at = "link"
    /\ rows' = [rows EXCEPT ![calls[c].row] =
         IF @ = Gone THEN @ ELSE [@ EXCEPT !.rec = calls[c].rec]]
    /\ calls' = [calls EXCEPT ![c] = Free]
    /\ UNCHANGED <<filed, numbers, clock, queued>>

\* A step after the row's own write fails: reported, and the upload or the
\* description stands.
AnnounceFails(c) ==
    /\ calls[c].at \in {"reread", "build", "store", "link"}
    /\ calls' = [calls EXCEPT ![c] = Free]
    /\ UNCHANGED <<rows, filed, numbers, clock, queued>>

----------------------------------------------------------------------------
(* The rest of the world. *)

\* RenameFile over SFTP: the new name is announced by nobody.
Rename(a, n, b, m) ==
    /\ Called(a, n) # {} /\ Called(b, m) = {}
    /\ rows' = [rows EXCEPT ![GetFile(a, n)] =
                    [@ EXCEPT !.area = b, !.name = m, !.rec = NoRecord]]
    /\ UNCHANGED <<filed, calls, numbers, clock, queued>>

RemoveRow(a, n) ==
    /\ Called(a, n) # {}
    /\ rows' = [rows EXCEPT ![GetFile(a, n)] = Gone]
    /\ UNCHANGED <<filed, calls, numbers, clock, queued>>

\* A peer's FILE record of a federated area is applied.
PeerAnnounces(b, a, n, h, ts) ==
    /\ b # Here /\ a \in Federated /\ Len(filed) < MaxLog
    /\ filed' = Append(filed, [origin |-> b, area |-> a, name |-> n,
         hash |-> Truncate[h], desc |-> NoText, ts |-> ts,
         seq |-> 1 + Cardinality({j \in DOMAIN filed : filed[j].origin = b})])
    /\ UNCHANGED <<rows, calls, numbers, clock, queued>>

SecondPasses ==
    /\ clock < MaxClock
    /\ clock' = clock + 1
    /\ UNCHANGED <<rows, filed, calls, numbers, queued>>

----------------------------------------------------------------------------
(* The listing. *)

\* ListCatalog: by time, then by sequence number.
Before(i, j) == \/ filed[i].ts < filed[j].ts
                \/ filed[i].ts = filed[j].ts /\ filed[i].seq < filed[j].seq
                \/ filed[i].ts = filed[j].ts /\ filed[i].seq = filed[j].seq /\ i < j

Announced(a) == {i \in DOMAIN filed : filed[i].area = a}
LastOf(S) == CHOOSE i \in S : \A j \in S \ {i} : Before(j, i)

\* Mutant: the last announcement takes the row, whoever made it.
CarriesLast(S) == LastOf(S)

\* Of the entries with a name and a hash, the one the row is folded into: our
\* own latest, or the latest.
Carries(S) == LET own == {i \in S : filed[i].origin = Here}
              IN  LastOf(IF own # {} THEN own ELSE S)

Same(a, f) == {i \in Announced(a) : /\ filed[i].name = f.name
                                    /\ filed[i].hash = Truncate[f.hash]}

Folded(a, i) == {f \in ListFiles(a) : Same(a, f) # {} /\ Carries(Same(a, f)) = i}

CatalogEntry(a, i) ==
    [name |-> filed[i].name, hash |-> filed[i].hash, desc |-> filed[i].desc,
     origin |-> filed[i].origin, local |-> filed[i].origin = Here,
     held |-> HoldsBlob(filed[i].hash), ts |-> filed[i].ts,
     who |-> IF Folded(a, i) = {} THEN "" ELSE (CHOOSE f \in Folded(a, i) : TRUE).who]

Unannounced(a, f) ==
    [name |-> f.name, hash |-> Truncate[f.hash], desc |-> f.desc, origin |-> "",
     local |-> TRUE, held |-> TRUE, ts |-> f.at, who |-> f.who]

\* ListAreaContents.
Contents(a) ==
    {CatalogEntry(a, i) : i \in Announced(a)} \cup
    {Unannounced(a, f) : f \in {g \in ListFiles(a) : Same(a, g) = {}}}

\* CatalogEntry.MayDescribe, which decides whether a screen offers it.
MayDescribe(e, nick, sysop) == e.local /\ MayDescribeFile(e.who, nick, sysop)

\* fileAvailability: a held file has a command that fetches it by name.
Offered(a) == {e \in Contents(a) : e.held}

\* Fileread: a path of an area and a name, opened from the table.
Fileread(a, n) == IF Called(a, n) = {} THEN "not exist" ELSE rows[GetFile(a, n)].hash

\* Filelist of an area, and Stat of a path in it.
Filelist(a) == {f.name : f \in ListFiles(a)}

\* `file request`: of the entries with the name, one that is not held.
RequestByName(a, n) ==
    LET named == {e \in Contents(a) : e.name = n}
    IN  /\ named # {}
        /\ \E e \in named :
             /\ (\E d \in named : ~d.held) => ~e.held
             /\ ~HoldsBlob(e.hash) /\ Called(a, n) = {}
             /\ queued' = queued \cup {[area |-> a, name |-> n, hash |-> e.hash]}
        /\ UNCHANGED <<rows, filed, calls, numbers, clock>>

----------------------------------------------------------------------------
CatNext ==
    \/ \E c \in Caller, a \in Area, n \in FileName :
         \/ \E h \in Content, u \in Uploader : AddRow(c, a, n, h, u)
         \/ \E t \in Text, u \in Uploader : Describe(c, a, n, t, u, FALSE)
         \/ \E t \in Text : Describe(c, a, n, t, "", TRUE)
    \/ \E c \in Caller : Reread(c) \/ Build(c) \/ PutFileRecord(c)
                         \/ SetFileRecord(c) \/ AnnounceFails(c)
    \/ \E a, b \in Area, n, m \in FileName : Rename(a, n, b, m)
    \/ \E a \in Area, n \in FileName : RemoveRow(a, n) \/ RequestByName(a, n)
    \/ \E b \in Board, a \in Area, n \in FileName, h \in Content, ts \in 1..MaxClock :
         PeerAnnounces(b, a, n, h, ts)
    \/ SecondPasses

----------------------------------------------------------------------------
(* Properties. *)

\* The catalog: every file here is shown, opens over SFTP under the name it is
\* shown by, and the one who uploaded it can describe it from the screen, unless
\* only a peer announced that very file; whatever step of an announcement failed
\* and whatever peers announced since (store/files.go:552-578).
FilesAreShown ==
    \A a \in Area : \A f \in ListFiles(a) :
        /\ f.name \in Filelist(a) /\ Truncate[Fileread(a, f.name)] = Truncate[f.hash]
        /\ \E e \in Offered(a) :
             /\ e.name = f.name /\ e.hash = Truncate[f.hash]
             /\ \/ MayDescribe(e, f.who, FALSE)
                \/ \A i \in Same(a, f) : filed[i].origin # Here

\* A row that is marked as announced is announced as it stands: "leaving it
\* attached would mark the file as published when what is published no longer
\* matches" (bbs.go:216-218).  Two calls that overlap break it.
LinkedIsCurrent ==
    \A a \in Area : \A f \in ListFiles(a) : f.rec # NoRecord =>
        filed[f.rec].name = f.name /\ filed[f.rec].desc = f.desc
=============================================================================
