----------------------------- MODULE DeskProofs -----------------------------
(***************************************************************************)
(* Proofs about what the sysop sets up and looks after, for every number   *)
(* of areas, names, sessions, commands and doors.  Each part has an        *)
(* inductive invariant of its own, and a step of one part leaves the       *)
(* others alone.                                                           *)
(***************************************************************************)
EXTENDS MCDesk, FiniteSetTheorems, SequenceTheorems, TLAPS
LOCAL INSTANCE SequencesExt
Founded == INSTANCE WellFoundedInduction

\* A non-empty set of numbers has a least element.
LEMMA LeastOf ==
    ASSUME NEW T \in SUBSET Nat, T # {}
    PROVE  \E x \in T : \A y \in T : x =< y
<1> DEFINE R == {ss \in Nat \X Nat : ss[1] < ss[2]}
<1>1. Founded!IsWellFoundedOn(R, Nat)
  BY Founded!NatLessThanWellFounded, Zenon DEF Founded!OpToRel
<1>2. PICK x \in T : \A y \in T : ~(<<y, x>> \in R)
  <2> HIDE DEF R
  <2> QED BY <1>1, Founded!WFMin
<1>3. ASSUME NEW y \in T PROVE x =< y
  <2>1. x \in Nat /\ y \in Nat
    OBVIOUS
  <2>2. <<y, x>> \notin R
    BY <1>2
  <2>3. ~(y < x)
    BY <2>1, <2>2
  <2> QED BY <2>1, <2>3
<1> QED BY <1>3

\* The parts have no variable in common.
LEMMA PartsMove ==
    ASSUME [Next]_vars
    PROVE  /\ [FilesNext]_fileVars /\ [CatNext]_catVars /\ [AreasNext]_areaVars
           /\ [ServeNext]_serveVars /\ [ExampleNext]_exampleVars /\ [InstNext]_instVars
           /\ [SetNext]_setVars /\ [SetupNext]_setupVars /\ [RosterNext]_rosterVars
BY DEF Next, vars

LEMMA PartsStart ==
    ASSUME Init
    PROVE  /\ FilesInit /\ CatInit /\ AreasInit /\ ServeInit /\ ExampleInit /\ InstInit
           /\ SetInit /\ SetupInit /\ RosterInit
BY DEF Init

----------------------------------------------------------------------------
(***************************************************************************)
(* Areas: what the index says of a record is what the record says.         *)
(***************************************************************************)
IndexInv ==
    \A rec \in DOMAIN authored :
       authored[rec] = [author |-> rec.author, subject |-> rec.subject]

LEMMA IndexStarts == AreasInit => IndexInv
BY DEF AreasInit, IndexInv, Empty

LEMMA IndexSteps == IndexInv /\ [AreasNext]_areaVars => IndexInv'
<1> SUFFICES ASSUME IndexInv, [AreasNext]_areaVars PROVE IndexInv'
  OBVIOUS
<1>1. ASSUME NEW u \in Author, IndexPost(u) PROVE IndexInv'
  BY <1>1 DEF IndexPost, IndexInv, Indexed
<1>2. ASSUME authored' = authored PROVE IndexInv'
  BY <1>2 DEF IndexInv
<1>3. CASE UNCHANGED areaVars
  BY <1>2, <1>3 DEF areaVars
<1>4. CASE AreaCreateCmd \/ AreaFederateCmd \/ RefreshAreas \/ RefreshShares \/ RestartBoard
  BY <1>2, <1>4 DEF AreaCreateCmd, AreaFederateCmd, RefreshAreas, RefreshShares, RestartBoard,
                    CreateArea, SetAreaFederated, forum
<1>5. ASSUME NEW c \in Command, AreaShareCmd(c) \/ WriteShare(c) PROVE IndexInv'
  BY <1>2, <1>5 DEF AreaShareCmd, CheckShare, WriteShare, forum
<1>6. ASSUME NEW u \in Author, UserAddCmd(u) \/ GrantCapability(u) \/ RevokeCapability(u)
      PROVE  IndexInv'
  BY <1>2, <1>6 DEF UserAddCmd, UserAdd, GrantCapability, RevokeCapability, forum
<1>7. ASSUME NEW u \in Author, NEW n \in AreaName, NEW subject \in Subjects, StartPost(u, n, subject)
      PROVE  IndexInv'
  BY <1>2, <1>7 DEF StartPost
<1>8. ASSUME NEW u \in Author, StorePost(u) \/ PublishPost(u) \/ PostFails(u) PROVE IndexInv'
  BY <1>2, <1>8 DEF StorePost, PublishPost, PostFails
<1>9. ASSUME NEW u \in Author, NEW n \in AreaName, NEW type \in {"post", "event"},
             HearRecord(n, type, u)
      PROVE  IndexInv'
  BY <1>2, <1>9 DEF HearRecord
<1> QED BY <1>1, <1>3, <1>4, <1>5, <1>6, <1>7, <1>8, <1>9 DEF AreasNext

LEMMA IndexHolds == IndexInv => ListedAsSigned
BY DEF IndexInv, ListedAsSigned, ListPosts, Listed, Indexed

----------------------------------------------------------------------------
(***************************************************************************)
(* Files: the table of blobs against the entries.                          *)
(***************************************************************************)
Asked == [nick : Nick, name : Name, hash : Hash, state : {"open", "filed", "noted", "told"}]
Uploads == [at : {"staged", "adopted", "orphaned"}, name : Name, hash : Hash]
Waiting == UNION {[P -> Asked] : P \in SUBSET Nat}

\* An import's fields.
ImportFields(m) ==
    m = [at |-> m.at, left |-> m.left, hash |-> m.hash, open |-> m.open, notes |-> m.notes]

\* Whoever is about to write an entry has a name and a content for it: a session
\* the one it was given, the import command the request it is dealing with.
FileInv ==
    /\ files \in [Name -> Hash \cup {NoHash}]
    /\ BlobRowsAreUsed
    /\ sftp \in [Session -> Uploads \cup {AtRest}]
    /\ requests \in Seq(Asked)
    /\ reply \subseteq Hash
    /\ ImportFields(imp) /\ imp.open \in Waiting
    /\ imp.notes \in [Name -> {"new", "filed", "clash"}]
    /\ imp.at \in {"arrival", "close"} => DOMAIN imp.open # {} /\ imp.hash \in Hash

LEMMA FilesStart == FilesInit => FileInv
<1> SUFFICES ASSUME FilesInit PROVE FileInv
  OBVIOUS
<1>1. <<>> \in Waiting /\ <<>> \in Seq(Asked)
  <2>1. <<>> \in [{} -> Asked]
    OBVIOUS
  <2> QED BY <2>1 DEF Waiting
<1> QED BY <1>1 DEF FilesInit, FileInv, BlobRowsAreUsed, NoImport, AtRest, ImportFields

\* An entry for content that some other entry may have, under a free name.
LEMMA PutFileKeeps ==
    ASSUME FileInv, NEW n \in Name, NEW h \in Hash, files[n] = NoHash, PutFile(n, h)
    PROVE  files' \in [Name -> Hash \cup {NoHash}] /\ BlobRowsAreUsed'
<1>1. files' = [m \in Name |-> IF m = n THEN h ELSE files[m]]
  BY DEF FileInv, PutFile
<1>2. {files'[m] : m \in Name} = {files[m] : m \in Name \ {n}} \cup {h}
  BY <1>1
<1>3. {files[m] : m \in Name} = {files[m] : m \in Name \ {n}} \cup {NoHash}
  OBVIOUS
<1> QED BY <1>1, <1>2, <1>3, FilesAssumption DEF FileInv, BlobRowsAreUsed, PutFile

LEMMA RemoveFileKeeps ==
    ASSUME FileInv, NEW n \in Name, files[n] # NoHash, RemoveFile(n)
    PROVE  files' \in [Name -> Hash \cup {NoHash}] /\ BlobRowsAreUsed'
<1>1. files' = [m \in Name |-> IF m = n THEN NoHash ELSE files[m]]
  BY DEF FileInv, RemoveFile
<1>2. {files'[m] : m \in Name} = {files[m] : m \in Name \ {n}} \cup {NoHash}
  BY <1>1
<1>3. {files[m] : m \in Name} = {files[m] : m \in Name \ {n}} \cup {files[n]}
  OBVIOUS
<1>4. Orphaned(n) <=> files[n] \notin {files[m] : m \in Name \ {n}}
  BY DEF Orphaned
<1>5. blobRows = ({files[m] : m \in Name \ {n}} \cup {files[n]}) \ {NoHash}
  BY <1>3 DEF FileInv, BlobRowsAreUsed
<1>6. blobRows' = {files[m] : m \in Name \ {n}} \ {NoHash}
  BY <1>4, <1>5 DEF RemoveFile
<1>7. BlobRowsAreUsed'
  BY <1>2, <1>6 DEF BlobRowsAreUsed
<1> QED BY <1>1, <1>7 DEF FileInv

\* Of the requests an import deals with there is always an oldest.
LEMMA OldestIsThere ==
    ASSUME NEW found \in Waiting, DOMAIN found # {}
    PROVE  Oldest(found) \in DOMAIN found /\ found[Oldest(found)] \in Asked /\ Younger(found) \in Waiting
<1>1. PICK P \in SUBSET Nat : found \in [P -> Asked]
  BY DEF Waiting
<1>2. \E i \in P : \A j \in P : i =< j
  BY <1>1, LeastOf
<1>3. Oldest(found) \in P
  BY <1>1, <1>2 DEF Oldest
<1>4. Younger(found) \in [P \ {Oldest(found)} -> Asked]
  BY <1>1 DEF Younger
<1> QED BY <1>1, <1>3, <1>4 DEF Waiting

LEMMA SftpSteps ==
    ASSUME FileInv, NEW s \in Session,
           \/ TransferError(s) \/ Adopt(s) \/ AddFile(s) \/ RemoveBytes(s)
           \/ \E n \in Name : SftpRemove(s, n)
           \/ \E n \in Name, h \in Hash : Filewrite(s, n, h)
    PROVE  FileInv'
<1> USE DEF SftpAt, SftpGoes
<1>1. sftp[s].at # "idle" => sftp[s] \in Uploads
  BY DEF FileInv, AtRest
<1>2. CASE TransferError(s)
  BY <1>2 DEF TransferError, FileInv, BlobRowsAreUsed
<1>3. CASE Adopt(s)
  BY <1>1, <1>3 DEF Adopt, FileInv, BlobRowsAreUsed, Uploads
<1>4. CASE AddFile(s)
  <2>1. sftp[s].name \in Name /\ sftp[s].hash \in Hash
    BY <1>1, <1>4 DEF AddFile, Uploads
  <2>2. files' \in [Name -> Hash \cup {NoHash}] /\ BlobRowsAreUsed'
    <3>1. CASE files[sftp[s].name] = NoHash
      <4>1. PutFile(sftp[s].name, sftp[s].hash)
        BY <1>4, <3>1 DEF AddFile
      <4> QED BY <2>1, <3>1, <4>1, PutFileKeeps
    <3>2. CASE files[sftp[s].name] # NoHash
      BY <1>4, <3>2 DEF AddFile, FileInv, BlobRowsAreUsed
    <3> QED BY <3>1, <3>2
  <2> QED BY <1>4, <2>2 DEF AddFile, FileInv
<1>5. CASE RemoveBytes(s)
  BY <1>5 DEF RemoveBytes, FileInv, BlobRowsAreUsed
<1>6. ASSUME NEW n \in Name, SftpRemove(s, n) PROVE FileInv'
  <2>1. files[n] \in Hash
    BY <1>6 DEF SftpRemove, FileInv
  <2>2. files' \in [Name -> Hash \cup {NoHash}] /\ BlobRowsAreUsed'
    BY <1>6, RemoveFileKeeps DEF SftpRemove
  <2>3. sftp' \in [Session -> Uploads \cup {AtRest}]
    BY <1>6, <2>1 DEF SftpRemove, FileInv, Uploads
  <2> QED BY <1>6, <2>2, <2>3 DEF SftpRemove, FileInv
<1>7. ASSUME NEW n \in Name, NEW h \in Hash, Filewrite(s, n, h) PROVE FileInv'
  BY <1>7 DEF Filewrite, Temp, FileInv, BlobRowsAreUsed, Uploads
<1> QED BY <1>2, <1>3, <1>4, <1>5, <1>6, <1>7

LEMMA RenameSteps ==
    ASSUME FileInv, NEW n \in Name, NEW m \in Name, RenameFile(n, m)
    PROVE  FileInv'
<1>1. n # m /\ files[n] # NoHash /\ files[m] = NoHash
  BY DEF RenameFile
<1>2. files' = [x \in Name |-> IF x = m THEN files[n] ELSE IF x = n THEN NoHash ELSE files[x]]
  BY <1>1 DEF RenameFile, FileInv
<1>3. {files'[x] : x \in Name} = {files[x] : x \in Name}
  BY <1>1, <1>2
<1>4. BlobRowsAreUsed'
  BY <1>3 DEF RenameFile, FileInv, BlobRowsAreUsed
<1>5. files' \in [Name -> Hash \cup {NoHash}]
  BY <1>2 DEF FileInv
<1> QED BY <1>4, <1>5 DEF RenameFile, FileInv

LEMMA RequestSteps ==
    ASSUME FileInv,
           \/ \E k \in Nick, n \in Name, h \in Hash : RequestFile(k, n, h)
           \/ \E i \in DOMAIN requests : CancelFileRequest(i) \/ MarkNotified(i)
    PROVE  FileInv'
<1>1. SUFFICES requests' \in Seq(Asked) /\ UNCHANGED <<files, blobRows, sftp, reply, imp>>
  BY DEF FileInv, BlobRowsAreUsed
<1>2. requests \in Seq(Asked)
  BY DEF FileInv
<1>3. ASSUME NEW k \in Nick, NEW n \in Name, NEW h \in Hash, RequestFile(k, n, h)
      PROVE  requests' \in Seq(Asked) /\ UNCHANGED <<files, blobRows, sftp, reply, imp>>
  <2>1. [nick |-> k, name |-> n, hash |-> h, state |-> "open"] \in Asked
    BY DEF Asked
  <2> QED BY <1>2, <1>3, <2>1, AppendProperties DEF RequestFile
<1>4. ASSUME NEW i \in DOMAIN requests, CancelFileRequest(i)
      PROVE  requests' \in Seq(Asked) /\ UNCHANGED <<files, blobRows, sftp, reply, imp>>
  <2>1. requests' = SubSeq(requests, 1, i - 1) \o SubSeq(requests, i + 1, Len(requests))
    BY <1>4 DEF CancelFileRequest, RemoveAt
  <2>2. i \in 1 .. Len(requests) /\ Len(requests) \in Nat
    BY <1>2, LenProperties
  <2>3. SubSeq(requests, 1, i - 1) \in Seq(Asked) /\ SubSeq(requests, i + 1, Len(requests)) \in Seq(Asked)
    BY <1>2, <2>2
  <2> QED BY <1>4, <2>1, <2>3 DEF CancelFileRequest
<1>5. ASSUME NEW i \in DOMAIN requests, MarkNotified(i)
      PROVE  requests' \in Seq(Asked) /\ UNCHANGED <<files, blobRows, sftp, reply, imp>>
  <2>1. requests[i] \in Asked
    BY <1>2
  <2>2. [requests[i] EXCEPT !.state = "told"] \in Asked
    BY <2>1 DEF Asked
  <2> QED BY <1>2, <1>5, <2>2, ExceptSeq DEF MarkNotified
<1> QED BY <1>3, <1>4, <1>5

LEMMA CarrierSteps ==
    ASSUME FileInv, Export \/ AwayReplies \/ CarrierLost \/ ImportStarts \/ ImportFails
    PROVE  FileInv'
<1>1. <<>> \in Waiting
  <2>1. <<>> \in [{} -> Asked]
    OBVIOUS
  <2> QED BY <2>1 DEF Waiting
<1>2. CASE Export \/ AwayReplies \/ CarrierLost
  BY <1>2, FilesAssumption DEF Export, AwayReplies, CarrierLost, FileInv, BlobRowsAreUsed
<1>3. CASE ImportStarts
  BY <1>1, <1>3 DEF ImportStarts, NoImport, FileInv, BlobRowsAreUsed, ImportFields
<1>4. CASE ImportFails
  <2>1. imp' = [at |-> "failed", left |-> {}, hash |-> NoHash, open |-> <<>>,
                notes |-> [n \in Name |-> "new"]]
    BY <1>4 DEF ImportFails, NoImport
  <2>2. ImportFields(imp)' /\ imp'.at = "failed" /\ imp'.open \in Waiting
        /\ imp'.notes \in [Name -> {"new", "filed", "clash"}]
    BY <1>1, <2>1 DEF ImportFields
  <2>3. UNCHANGED <<files, blobRows, requests, sftp, reply>>
    BY <1>4 DEF ImportFails
  <2> QED BY <2>2, <2>3 DEF FileInv, BlobRowsAreUsed
<1> QED BY <1>2, <1>3, <1>4

LEMMA ArrivalSteps ==
    ASSUME FileInv, FileArrival \/ CloseRequest \/ \E h \in Hash : ReadBody(h) \/ Arrived(h)
    PROVE  FileInv'
<1> USE DEF ImportFields
<1>1. <<>> \in Waiting
  <2>1. <<>> \in [{} -> Asked]
    OBVIOUS
  <2> QED BY <2>1 DEF Waiting
<1>2. CASE FileArrival
  <2> DEFINE n == imp.open[Oldest(imp.open)].name
  <2>1. DOMAIN imp.open # {} /\ imp.hash \in Hash /\ imp.at = "arrival"
    BY <1>2 DEF FileArrival, FileInv
  <2>2. n \in Name
    BY <2>1, OldestIsThere DEF FileInv, Asked
  <2>3. files' \in [Name -> Hash \cup {NoHash}] /\ BlobRowsAreUsed'
    <3>1. CASE imp.notes[n] = "new" /\ files[n] = NoHash
      <4>1. PutFile(n, imp.hash)
        BY <1>2, <3>1 DEF FileArrival
      <4> QED BY <2>1, <2>2, <3>1, <4>1, PutFileKeeps
    <3>2. CASE ~(imp.notes[n] = "new" /\ files[n] = NoHash)
      BY <1>2, <3>2 DEF FileArrival, FileInv, BlobRowsAreUsed
    <3> QED BY <3>1, <3>2
  <2> DEFINE note == IF imp.notes[n] = "new" THEN NoteFor(n, imp.hash) ELSE imp.notes[n]
  <2>4. note \in {"new", "filed", "clash"}
    BY <2>2 DEF NoteFor, FileInv
  <2>5. imp' = [at |-> "close", left |-> imp.left, hash |-> imp.hash, open |-> imp.open,
                notes |-> [imp.notes EXCEPT ![n] = note]]
    BY <1>2, <2>2 DEF FileArrival, FileInv
  <2>6. imp.open \in Waiting /\ imp.notes \in [Name -> {"new", "filed", "clash"}]
        /\ UNCHANGED <<requests, sftp, reply>>
        /\ requests \in Seq(Asked) /\ reply \subseteq Hash /\ sftp \in [Session -> Uploads \cup {AtRest}]
    BY <1>2 DEF FileArrival, FileInv
  <2> HIDE DEF n, note
  <2> QED BY <2>1, <2>2, <2>3, <2>4, <2>5, <2>6 DEF FileInv
<1>3. CASE CloseRequest
  <2> DEFINE q == imp.open[Oldest(imp.open)]
  <2>1. DOMAIN imp.open # {} /\ imp.hash \in Hash
    BY <1>3 DEF CloseRequest, FileInv
  <2>2. q \in Asked /\ Younger(imp.open) \in Waiting
    BY <2>1, OldestIsThere DEF FileInv
  <2>3. [q EXCEPT !.state = Closed(q)] \in Asked
    BY <2>2 DEF Asked, Closed
  <2>4. requests' \in Seq(Asked)
    <3>1. requests \in Seq(Asked) /\ DOMAIN requests = 1 .. Len(requests)
      BY DEF FileInv
    <3>2. requests' = [i \in 1 .. Len(requests) |->
                         IF requests[i] = q THEN [q EXCEPT !.state = Closed(q)] ELSE requests[i]]
      BY <1>3, <3>1 DEF CloseRequest
    <3>3. \A i \in 1 .. Len(requests) : requests'[i] \in Asked
      <4> HIDE DEF q
      <4> QED BY <2>3, <3>1, <3>2
    <3> HIDE DEF q
    <3> QED BY <3>1, <3>2, <3>3, IsASeq
  <2>5. imp' \in {[imp EXCEPT !.open = Younger(@), !.at = "arrival"], NoImport,
                  [imp EXCEPT !.at = "file", !.open = <<>>]}
        /\ (imp' = [imp EXCEPT !.open = Younger(@), !.at = "arrival"] /\ DOMAIN Younger(imp.open) = {}
              => imp' = NoImport \/ imp' = [imp EXCEPT !.at = "file", !.open = <<>>])
    BY <1>3 DEF CloseRequest
  <2>6. UNCHANGED <<files, blobRows, sftp, reply>>
    BY <1>3 DEF CloseRequest
  <2>7. CASE imp' = NoImport
    BY <1>1, <2>4, <2>6, <2>7 DEF FileInv, BlobRowsAreUsed, NoImport
  <2>8. CASE imp' = [imp EXCEPT !.at = "file", !.open = <<>>]
    BY <1>1, <2>4, <2>6, <2>8 DEF FileInv, BlobRowsAreUsed
  <2>9. CASE /\ imp' = [imp EXCEPT !.open = Younger(@), !.at = "arrival"]
             /\ DOMAIN Younger(imp.open) # {}
    BY <2>1, <2>2, <2>4, <2>6, <2>9 DEF FileInv, BlobRowsAreUsed
  <2> QED BY <2>5, <2>7, <2>8, <2>9
<1>4. ASSUME NEW h \in Hash, ReadBody(h) PROVE FileInv'
  BY <1>4 DEF ReadBody, FileInv, BlobRowsAreUsed
<1>5. ASSUME NEW h \in Hash, Arrived(h) PROVE FileInv'
  <2> DEFINE P == {j \in DOMAIN requests : Open(requests[j]) /\ requests[j].hash = h}
             mine == [i \in P |-> requests[i]]
  <2>1. requests \in Seq(Asked) /\ DOMAIN requests = 1 .. Len(requests)
    BY DEF FileInv
  <2>2. mine \in Waiting /\ DOMAIN mine = P
    <3>1. P \in SUBSET Nat /\ mine \in [P -> Asked]
      BY <2>1
    <3> HIDE DEF P
    <3> QED BY <3>1 DEF Waiting
  <2>3. \/ imp' = NoImport
        \/ imp' = [imp EXCEPT !.left = @ \ {h}, !.hash = h, !.open = mine,
                              !.at = IF DOMAIN mine = {} THEN "file" ELSE "arrival",
                              !.notes = [n \in Name |-> "new"]]
    BY <1>5 DEF Arrived
  <2>4. UNCHANGED <<files, blobRows, requests, sftp, reply>>
    BY <1>5 DEF Arrived
  <2>5. CASE imp' = NoImport
    BY <1>1, <2>4, <2>5 DEF FileInv, BlobRowsAreUsed, NoImport
  <2>6. CASE imp' = [imp EXCEPT !.left = @ \ {h}, !.hash = h, !.open = mine,
                              !.at = IF DOMAIN mine = {} THEN "file" ELSE "arrival",
                              !.notes = [n \in Name |-> "new"]]
    <3>1. imp' = [left |-> imp.left \ {h}, hash |-> h, open |-> mine,
                  at |-> IF DOMAIN mine = {} THEN "file" ELSE "arrival",
                  notes |-> [n \in Name |-> "new"]]
      BY <2>6 DEF FileInv
    <3> HIDE DEF mine
    <3> QED BY <2>2, <2>4, <3>1 DEF FileInv, BlobRowsAreUsed
  <2> QED BY <2>3, <2>5, <2>6
<1> QED BY <1>2, <1>3, <1>4, <1>5

LEMMA FileSteps == FileInv /\ [FilesNext]_fileVars => FileInv'
<1> SUFFICES ASSUME FileInv, [FilesNext]_fileVars PROVE FileInv'
  OBVIOUS
<1>1. CASE UNCHANGED fileVars
  BY <1>1 DEF fileVars, FileInv, BlobRowsAreUsed
<1> QED BY <1>1, SftpSteps, RenameSteps, RequestSteps, CarrierSteps, ArrivalSteps
        DEF FilesNext, ImportSteps

----------------------------------------------------------------------------
(* Serving: the steps, and what each leaves open. *)

\* The names of the front ends' steps.
FrontSteps == {"telnet", "origin", "webauthn", "assets", "web", "listen"}

\* The names of the steps.
Label ==
    {"log", "key", "store", "sequence", "areas", "theme", "paths", "doors", "blobstore", "hostkey",
     "wish", "gossipstore", "dial", "configure", "presets", "governor", "meshlink", "linkup",
     "dictionaries", "outbox", "engine", "inbox", "shares", "doorevents", "loop", "publisher"}
      \cup FrontSteps

\* One sequence after another.
LEMMA Joined ==
  ASSUME NEW S, NEW s \in Seq(S), NEW t \in Seq(S)
  PROVE  /\ s \o t \in Seq(S) /\ Len(s \o t) = Len(s) + Len(t)
         /\ \A i \in 1 .. Len(s) : (s \o t)[i] = s[i]
         /\ \A i \in Len(s) + 1 .. Len(s) + Len(t) : (s \o t)[i] = t[i - Len(s)]
<1>1. \A i \in 1 .. Len(t) : (s \o t)[Len(s) + i] = t[i]
  BY ConcatProperties
<1>2. Len(s) \in Nat /\ Len(t) \in Nat
  OBVIOUS
<1>3. ASSUME NEW i \in Len(s) + 1 .. Len(s) + Len(t) PROVE (s \o t)[i] = t[i - Len(s)]
  <2>1. i - Len(s) \in 1 .. Len(t) /\ Len(s) + (i - Len(s)) = i
    BY <1>2
  <2> QED BY <1>1, <2>1
<1>4. s \o t \in Seq(S) /\ Len(s \o t) = Len(s) + Len(t) /\ \A i \in 1 .. Len(s) : (s \o t)[i] = s[i]
  BY ConcatProperties
<1> QED BY <1>3, <1>4

LEMMA LocalIs ==
    /\ Local \in Seq(Label) /\ Len(Local) = 11
    /\ Local[1] = "log" /\ Local[3] = "store"
    /\ \A i \in 1 .. 11 : i \notin {1, 3} =>
          Local[i] \in {"key", "sequence", "areas", "theme", "paths", "doors", "blobstore", "hostkey", "wish"}
<1> DEFINE s == <<"log", "key", "store", "sequence", "areas", "theme", "paths", "doors">>
           t == <<"blobstore", "hostkey", "wish">>
<1>1. s \in Seq(Label) /\ t \in Seq(Label) /\ Len(s) = 8 /\ Len(t) = 3
  BY DEF Label
<1>2. \A i \in 1 .. 8 : s[i] = IF i = 1 THEN "log" ELSE IF i = 2 THEN "key" ELSE IF i = 3 THEN "store"
              ELSE IF i = 4 THEN "sequence" ELSE IF i = 5 THEN "areas" ELSE IF i = 6 THEN "theme"
              ELSE IF i = 7 THEN "paths" ELSE "doors"
  OBVIOUS
<1>3. \A i \in 1 .. 3 : t[i] = IF i = 1 THEN "blobstore" ELSE IF i = 2 THEN "hostkey" ELSE "wish"
  OBVIOUS
<1>4. Local = s \o t
  BY DEF Local, SSHServer
<1> HIDE DEF s, t
<1>5. /\ Local \in Seq(Label) /\ Len(Local) = 11
      /\ \A i \in 1 .. 8 : Local[i] = s[i]
      /\ \A i \in 9 .. 11 : Local[i] = t[i - 8]
  <2>1. /\ Local \in Seq(Label) /\ Len(Local) = Len(s) + Len(t)
        /\ \A i \in 1 .. Len(s) : Local[i] = s[i]
        /\ \A i \in Len(s) + 1 .. Len(s) + Len(t) : Local[i] = t[i - Len(s)]
    BY <1>1, <1>4, Joined
  <2> QED BY <1>1, <2>1
<1>6. \A i \in 1 .. 8 : i \notin {1, 3} =>
         Local[i] \in {"key", "sequence", "areas", "theme", "paths", "doors"}
  BY <1>2, <1>5
<1>7. \A i \in 9 .. 11 : Local[i] \in {"blobstore", "hostkey", "wish"}
  <2>1. ASSUME NEW i \in 9 .. 11 PROVE i - 8 \in 1 .. 3
    OBVIOUS
  <2> QED BY <1>3, <1>5, <2>1
<1>8. Local[1] = "log" /\ Local[3] = "store"
  BY <1>2, <1>5
<1> QED BY <1>5, <1>6, <1>7, <1>8

LEMMA MeshedIs ==
    /\ Meshed \in Seq(Label)
    /\ ~MeshEnabled => Len(Meshed) = 0
    /\ MeshEnabled =>
       /\ Len(Meshed) = 15
       /\ Meshed[1] = "gossipstore" /\ Meshed[2] = "dial" /\ Meshed[3] = "configure"
       /\ Meshed[7] = "linkup" /\ Meshed[12] = "shares" /\ Meshed[14] = "loop" /\ Meshed[15] = "publisher"
       /\ \A i \in {4, 5, 6} : Meshed[i] \in {"presets", "governor", "meshlink"}
       /\ \A i \in {8, 9, 10, 11, 13} :
             Meshed[i] \in {"dictionaries", "outbox", "engine", "inbox", "doorevents"}
<1> DEFINE p == <<"publisher">>
<1>1. /\ Federation \in Seq(Label) /\ p \in Seq(Label) /\ Len(Federation) = 14 /\ Len(p) = 1
      /\ p[1] = "publisher"
  BY DEF Federation, Label
<1>2. /\ Federation[1] = "gossipstore" /\ Federation[2] = "dial" /\ Federation[3] = "configure"
      /\ Federation[4] = "presets" /\ Federation[5] = "governor" /\ Federation[6] = "meshlink"
      /\ Federation[7] = "linkup" /\ Federation[8] = "dictionaries" /\ Federation[9] = "outbox"
      /\ Federation[10] = "engine" /\ Federation[11] = "inbox" /\ Federation[12] = "shares"
      /\ Federation[13] = "doorevents" /\ Federation[14] = "loop"
  BY DEF Federation
<1>3. Meshed = IF MeshEnabled THEN Federation \o p ELSE <<>>
  BY DEF Meshed
<1> HIDE DEF p
<1>4. /\ Federation \o p \in Seq(Label) /\ Len(Federation \o p) = 15
      /\ \A i \in 1 .. 14 : (Federation \o p)[i] = Federation[i]
      /\ (Federation \o p)[15] = "publisher"
  <2>1. /\ Federation \o p \in Seq(Label) /\ Len(Federation \o p) = Len(Federation) + Len(p)
        /\ \A i \in 1 .. Len(Federation) : (Federation \o p)[i] = Federation[i]
        /\ \A i \in Len(Federation) + 1 .. Len(Federation) + Len(p) :
              (Federation \o p)[i] = p[i - Len(Federation)]
    BY <1>1, Joined
  <2>2. Len(Federation) + 1 = 15 /\ Len(Federation) + Len(p) = 15
    BY <1>1
  <2>3. (Federation \o p)[15] = p[15 - 14]
    BY <1>1, <2>1, <2>2
  <2>4. (Federation \o p)[15] = "publisher"
    BY <1>1, <2>3
  <2>5. \A i \in 1 .. 14 : (Federation \o p)[i] = Federation[i]
    BY <1>1, <2>1
  <2> QED BY <2>1, <2>2, <2>4, <2>5
<1>5. CASE ~MeshEnabled
  BY <1>3, <1>5
<1>6. CASE MeshEnabled
  <2>1. Meshed = Federation \o p
    BY <1>3, <1>6
  <2>2. \A i \in 1 .. 14 : Meshed[i] = Federation[i]
    BY <1>4, <2>1
  <2>3. /\ Meshed[1] = "gossipstore" /\ Meshed[2] = "dial" /\ Meshed[3] = "configure"
        /\ Meshed[7] = "linkup" /\ Meshed[12] = "shares" /\ Meshed[14] = "loop"
    BY <1>2, <2>2
  <2>4. \A i \in {4, 5, 6} : Meshed[i] \in {"presets", "governor", "meshlink"}
    BY <1>2, <2>2
  <2>5. \A i \in {8, 9, 10, 11, 13} :
           Meshed[i] \in {"dictionaries", "outbox", "engine", "inbox", "doorevents"}
    BY <1>2, <2>2
  <2> QED BY <1>4, <1>6, <2>1, <2>3, <2>4, <2>5
<1> QED BY <1>5, <1>6

LEMMA FrontsAre == Fronts \in Seq(FrontSteps)
<1> DEFINE t == IF TelnetEnabled THEN <<"telnet">> ELSE <<>>
           w == IF WebEnabled THEN WebServer \o <<"web">> ELSE <<>>
<1>1. WebServer \in Seq(FrontSteps)
  BY DEF FrontSteps, WebServer
<1>2. <<"web">> \in Seq(FrontSteps) /\ <<"listen">> \in Seq(FrontSteps)
      /\ <<"telnet">> \in Seq(FrontSteps) /\ <<>> \in Seq(FrontSteps)
  BY DEF FrontSteps
<1>3. t \in Seq(FrontSteps) /\ w \in Seq(FrontSteps)
  BY <1>1, <1>2, ConcatProperties
<1>4. Fronts = t \o (w \o <<"listen">>)
  BY DEF Fronts
<1> HIDE DEF t, w
<1>5. w \o <<"listen">> \in Seq(FrontSteps)
  BY <1>2, <1>3, ConcatProperties
<1> QED BY <1>3, <1>4, <1>5, ConcatProperties

\* The first step after the federation's.
Up == IF MeshEnabled THEN 26 ELSE 11

LEMMA StepsAre ==
    /\ Len(Steps) \in Nat /\ Len(Steps) >= Up
    /\ \A i \in 1 .. 11 : Steps[i] = Local[i]
    /\ \A i \in 12 .. Up : Steps[i] = Meshed[i - 11]
    /\ \A i \in Up + 1 .. Len(Steps) : Steps[i] \in FrontSteps
<1>1. Steps = (Local \o Meshed) \o Fronts
  BY DEF Steps
<1>2. Fronts \in Seq(Label) /\ \A i \in 1 .. Len(Fronts) : Fronts[i] \in FrontSteps
  BY FrontsAre DEF FrontSteps, Label
<1>3. /\ Local \o Meshed \in Seq(Label) /\ Len(Local \o Meshed) = Up
      /\ \A i \in 1 .. 11 : (Local \o Meshed)[i] = Local[i]
      /\ \A i \in 12 .. Up : (Local \o Meshed)[i] = Meshed[i - 11]
  <2>1. /\ Local \o Meshed \in Seq(Label) /\ Len(Local \o Meshed) = Len(Local) + Len(Meshed)
        /\ \A i \in 1 .. Len(Local) : (Local \o Meshed)[i] = Local[i]
        /\ \A i \in Len(Local) + 1 .. Len(Local) + Len(Meshed) :
              (Local \o Meshed)[i] = Meshed[i - Len(Local)]
    <3>1. Local \in Seq(Label) /\ Meshed \in Seq(Label)
      BY LocalIs, MeshedIs
    <3> QED BY <3>1, Joined, Zenon
  <2>2. Len(Local) = 11 /\ (MeshEnabled => Len(Meshed) = 15) /\ (~MeshEnabled => Len(Meshed) = 0)
    BY LocalIs, MeshedIs
  <2>3. Len(Local) + 1 = 12 /\ Len(Local) + Len(Meshed) = Up
    <3>1. CASE MeshEnabled
      <4>1. Len(Local) = 11 /\ Len(Meshed) = 15 /\ Up = 26
        BY <2>2, <3>1 DEF Up
      <4> QED BY <4>1
    <3>2. CASE ~MeshEnabled
      <4>1. Len(Local) = 11 /\ Len(Meshed) = 0 /\ Up = 11
        BY <2>2, <3>2 DEF Up
      <4> QED BY <4>1
    <3> QED BY <3>1, <3>2
  <2>4. \A i \in 1 .. 11 : (Local \o Meshed)[i] = Local[i]
    BY <2>1, <2>2
  <2>5. ASSUME NEW i \in 12 .. Up PROVE (Local \o Meshed)[i] = Meshed[i - 11]
    <3>1. i \in Len(Local) + 1 .. Len(Local) + Len(Meshed)
      BY <2>3
    <3> QED BY <2>1, <2>2, <3>1
  <2> QED BY <2>1, <2>3, <2>4, <2>5
<1>4. Len(Fronts) \in Nat /\ Up \in {11, 26}
  BY <1>2 DEF Up
<1>5. /\ Len(Steps) = Up + Len(Fronts)
      /\ \A i \in 1 .. Up : Steps[i] = (Local \o Meshed)[i]
      /\ \A i \in Up + 1 .. Up + Len(Fronts) : Steps[i] = Fronts[i - Up]
  <2> DEFINE h == Local \o Meshed
  <2>1. h \in Seq(Label) /\ Fronts \in Seq(Label) /\ Steps = h \o Fronts /\ Len(h) = Up
    BY <1>1, <1>2, <1>3
  <2> HIDE DEF h
  <2>2. /\ Len(h \o Fronts) = Len(h) + Len(Fronts)
        /\ \A i \in 1 .. Len(h) : (h \o Fronts)[i] = h[i]
        /\ \A i \in Len(h) + 1 .. Len(h) + Len(Fronts) : (h \o Fronts)[i] = Fronts[i - Len(h)]
    BY <2>1, Joined
  <2> QED BY <2>1, <2>2 DEF h
<1>6. ASSUME NEW i \in Up + 1 .. Len(Steps) PROVE Steps[i] \in FrontSteps
  <2>1. i - Up \in 1 .. Len(Fronts) /\ i \in Up + 1 .. Up + Len(Fronts)
    BY <1>4, <1>5
  <2> QED BY <1>2, <1>5, <2>1
<1>7. Len(Steps) \in Nat /\ Len(Steps) >= Up
  BY <1>4, <1>5
<1>8. \A i \in 1 .. 11 : i \in 1 .. Up
  BY <1>4
<1>9. \A i \in 12 .. Up : i \in 1 .. Up
  BY <1>4
<1> QED BY <1>3, <1>5, <1>6, <1>7, <1>8, <1>9

\* Which step is which.
LEMMA StepNames ==
    ASSUME NEW i \in 1 .. Len(Steps)
    PROVE  /\ Steps[i] = "log" <=> i = 1
           /\ Steps[i] = "store" <=> i = 3
           /\ Steps[i] = "dial" <=> MeshEnabled /\ i = 13
           /\ Steps[i] = "configure" <=> MeshEnabled /\ i = 14
           /\ Steps[i] = "linkup" <=> MeshEnabled /\ i = 18
           /\ Steps[i] = "loop" <=> MeshEnabled /\ i = 25
           /\ Steps[i] = "publisher" <=> MeshEnabled /\ i = 26
           /\ Steps[i] \in {"telnet", "web", "listen"} => i > Up
           /\ MeshEnabled /\ i \in 19 .. 26 =>
                 Steps[i] \in {"dictionaries", "outbox", "engine", "inbox", "doorevents"} \cup Certain
<1>1. CASE i \in 1 .. 11
  <2>1. /\ i = 1 => Steps[i] = "log"
        /\ i = 3 => Steps[i] = "store"
        /\ i \notin {1, 3} =>
           Steps[i] \in {"key", "sequence", "areas", "theme", "paths", "doors", "blobstore", "hostkey", "wish"}
    BY <1>1, StepsAre, LocalIs
  <2> QED BY <1>1, <2>1 DEF Certain
<1>2. CASE i \in 12 .. Up
  <2>1. MeshEnabled /\ Up = 26
    BY <1>2 DEF Up
  <2>2. Steps[i] = Meshed[i - 11]
    BY <1>2, StepsAre
  <2>3. i \in 12 .. 26
    BY <1>2, <2>1
  <2>4. CASE i \in 12 .. 14
    BY <2>1, <2>2, <2>4, MeshedIs DEF Certain
  <2>5. CASE i \in 15 .. 17
    <3>1. i - 11 \in {4, 5, 6}
      BY <2>5
    <3>2. Meshed[i - 11] \in {"presets", "governor", "meshlink"}
      BY <2>1, <3>1, MeshedIs
    <3> QED BY <2>1, <2>2, <2>5, <3>2
  <2>8. CASE i = 18
    BY <2>1, <2>2, <2>8, MeshedIs DEF Certain
  <2>6. CASE i \in 19 .. 22
    BY <2>1, <2>2, <2>6, MeshedIs DEF Certain
  <2>7. CASE i \in 23 .. 26
    BY <2>1, <2>2, <2>7, MeshedIs DEF Certain
  <2> QED BY <2>3, <2>4, <2>5, <2>6, <2>7, <2>8
<1>3. CASE i > Up
  <2>1. Steps[i] \in FrontSteps
    BY <1>3, StepsAre DEF Up
  <2>2. Up \in {11, 26} /\ (MeshEnabled => Up = 26)
    BY DEF Up
  <2> QED BY <1>3, <2>1, <2>2 DEF FrontSteps
<1> QED BY <1>1, <1>2, <1>3 DEF Up

\* What is open while the steps are taken, and what is still to be closed.
ServeInv ==
    /\ at \in 1 .. Len(Steps) + 1
    /\ opened \subseteq {"log", "store", "probe", "link"}
    /\ result = "running" =>
          /\ "log" \in opened <=> at > 1
          /\ "store" \in opened <=> at > 3
          /\ "probe" \in opened <=> MeshEnabled /\ at = 14
          /\ "link" \in opened <=> MeshEnabled /\ at > 18
          /\ MeshEnabled /\ at > 25 => loop # "off"
          /\ publisher <=> MeshEnabled /\ at > 26
          /\ accepting # {} => at > Up
    /\ result # "running" =>
          \/ unwinding = <<>> /\ opened = {}
          \/ unwinding = <<"log">> /\ opened = {"log"}
          \/ unwinding = <<"store", "log">> /\ opened = {"store", "log"}
          \/ unwinding = <<"link", "store", "log">> /\ opened = {"link", "store", "log"}

LEMMA UpIs == Up \in {11, 26} /\ (MeshEnabled <=> Up = 26)
  BY ServeAssumption DEF Up

LEMMA ServeStarts == ServeInit => ServeInv
<1>1. Len(Steps) \in Nat /\ Up \in Nat
  BY StepsAre, UpIs
<1> QED BY <1>1 DEF ServeInit, ServeInv

\* What appending makes of short tuples.
LEMMA AppendPair == ASSUME NEW S, NEW x \in S, NEW y \in S PROVE Append(<<x>>, y) = <<x, y>>
<1> DEFINE u == Append(<<x>>, y)
           v == <<x, y>>
<1>1. u \in Seq(S) /\ Len(u) = 2 /\ u[1] = x /\ u[2] = y
  OBVIOUS
<1>2. v \in Seq(S) /\ Len(v) = 2 /\ v[1] = x /\ v[2] = y
  OBVIOUS
<1> HIDE DEF u, v
<1>3. Len(u) = Len(v) /\ \A i \in 1 .. Len(u) : u[i] = v[i]
  BY <1>1, <1>2
<1>4. u = v
  BY <1>1, <1>2, <1>3, SeqEqual
<1> QED BY <1>4 DEF u, v

LEMMA AppendTriple == ASSUME NEW S, NEW x \in S, NEW y \in S, NEW z \in S PROVE Append(<<x, y>>, z) = <<x, y, z>>
<1> DEFINE u == Append(<<x, y>>, z)
           v == <<x, y, z>>
<1>1. u \in Seq(S) /\ Len(u) = 3 /\ u[1] = x /\ u[2] = y /\ u[3] = z
  OBVIOUS
<1>2. v \in Seq(S) /\ Len(v) = 3 /\ v[1] = x /\ v[2] = y /\ v[3] = z
  OBVIOUS
<1> HIDE DEF u, v
<1>3. Len(u) = Len(v) /\ \A i \in 1 .. Len(u) : u[i] = v[i]
  BY <1>1, <1>2
<1>4. u = v
  BY <1>1, <1>2, <1>3, SeqEqual
<1> QED BY <1>4 DEF u, v

\* The deferred closes leave nothing but the link, which they close too.
LEMMA DeferredIs ==
    ASSUME NEW left \in SUBSET {"log", "store", "link"},
           "store" \in left => "log" \in left,
           "link" \in left => "store" \in left /\ CloseDeferred("link")
    PROVE  \/ Deferred(left) = <<>> /\ left = {}
           \/ Deferred(left) = <<"log">> /\ left = {"log"}
           \/ Deferred(left) = <<"store", "log">> /\ left = {"store", "log"}
           \/ Deferred(left) = <<"link", "store", "log">> /\ left = {"link", "store", "log"}
<1>1. CloseDeferred("log") /\ CloseDeferred("store")
  BY DEF CloseDeferred
<1>6. Append(<<>>, "log") = <<"log">> /\ Append(<<>>, "store") = <<"store">> /\ Append(<<>>, "link") = <<"link">>
  OBVIOUS
<1>7. Append(<<"store">>, "log") = <<"store", "log">> /\ Append(<<"link">>, "store") = <<"link", "store">>
  BY AppendPair
<1>8. Append(<<"link", "store">>, "log") = <<"link", "store", "log">>
  BY AppendTriple
<1>2. CASE left = {}
  BY <1>2 DEF Deferred
<1>3. CASE left = {"log"}
  BY <1>1, <1>3 DEF Deferred
<1>4. CASE left = {"store", "log"}
  BY <1>1, <1>4, <1>6, <1>7, Zenon DEF Deferred
<1>5. CASE left = {"link", "store", "log"}
  BY <1>1, <1>5, <1>6, <1>7, <1>8, Zenon DEF Deferred
<1> QED BY <1>2, <1>3, <1>4, <1>5

LEMMA SuccessKeeps == ServeInv /\ StepSucceeds => ServeInv'
<1> SUFFICES ASSUME ServeInv, StepSucceeds PROVE ServeInv'
  OBVIOUS
<1>1. at \in 1 .. Len(Steps) /\ Len(Steps) \in Nat /\ Up \in {11, 26}
  BY StepsAre, UpIs DEF ServeInv, StepSucceeds
<1>2. at' = at + 1 /\ at' \in 1 .. Len(Steps) + 1 /\ result = "running" /\ result' = "running"
  BY <1>1 DEF StepSucceeds
<1> DEFINE s == Steps[at]
<1>3. /\ s = "log" <=> at = 1
      /\ s = "store" <=> at = 3
      /\ s = "dial" <=> MeshEnabled /\ at = 13
      /\ s = "configure" <=> MeshEnabled /\ at = 14
      /\ s = "linkup" <=> MeshEnabled /\ at = 18
      /\ s = "loop" <=> MeshEnabled /\ at = 25
      /\ s = "publisher" <=> MeshEnabled /\ at = 26
      /\ s \in {"telnet", "web", "listen"} => at > Up
  BY <1>1, StepNames
<1>4. opened' = (opened \cup OpenedBy(s)) \ {r \in {"probe"} : ProbeClosedBy(s)}
  BY DEF StepSucceeds, Step
<1>5. /\ loop' = IF s = "loop" THEN "on" ELSE loop
      /\ publisher' = (publisher \/ s = "publisher")
      /\ s \notin {"telnet", "web", "listen"} => accepting' = accepting
  BY DEF StepSucceeds, Step
<1> HIDE DEF s
<1>6. opened' \subseteq {"log", "store", "probe", "link"}
  BY <1>4 DEF ServeInv, OpenedBy
<1>7. "log" \in opened' <=> at' > 1
  BY <1>1, <1>2, <1>3, <1>4 DEF ServeInv, OpenedBy
<1>8. "store" \in opened' <=> at' > 3
  BY <1>1, <1>2, <1>3, <1>4 DEF ServeInv, OpenedBy
<1>9. "probe" \in opened' <=> MeshEnabled /\ at' = 14
  BY <1>1, <1>2, <1>3, <1>4 DEF ServeInv, OpenedBy, ProbeClosedBy
<1>10. "link" \in opened' <=> MeshEnabled /\ at' > 18
  BY <1>1, <1>2, <1>3, <1>4 DEF ServeInv, OpenedBy
<1>11. MeshEnabled /\ at' > 25 => loop' # "off"
  <2>1. CASE s = "loop"
    BY <1>5, <2>1
  <2>2. CASE s # "loop" /\ MeshEnabled /\ at' > 25
    <3>1. at > 25 /\ loop' = loop
      BY <1>1, <1>2, <1>3, <1>5, <2>2
    <3>2. loop # "off"
      BY <1>2, <2>2, <3>1 DEF ServeInv
    <3> QED BY <3>1, <3>2
  <2> QED BY <2>1, <2>2
<1>12. publisher' <=> MeshEnabled /\ at' > 26
  <2>1. publisher <=> MeshEnabled /\ at > 26
    BY <1>2 DEF ServeInv
  <2>2. publisher' <=> publisher \/ (MeshEnabled /\ at = 26)
    BY <1>3, <1>5
  <2> QED BY <1>1, <1>2, <2>1, <2>2
<1>13. accepting' # {} => at' > Up
  BY <1>1, <1>2, <1>3, <1>5 DEF ServeInv
<1> QED BY <1>2, <1>6, <1>7, <1>8, <1>9, <1>10, <1>11, <1>12, <1>13 DEF ServeInv

LEMMA FailureKeeps == ServeInv /\ StepFails => ServeInv'
<1> SUFFICES ASSUME ServeInv, StepFails PROVE ServeInv'
  OBVIOUS
<1>1. at \in 1 .. Len(Steps) /\ Len(Steps) \in Nat /\ at' = at
  BY StepsAre DEF ServeInv, StepFails
<1> DEFINE s == Steps[at]
<1>2. /\ s = "configure" <=> MeshEnabled /\ at = 14
      /\ MeshEnabled /\ at \in 19 .. 26 =>
            s \in {"dictionaries", "outbox", "engine", "inbox", "doorevents"} \cup Certain
  BY <1>1, StepNames
<1>3. /\ s \notin Certain /\ opened' = opened \ ClosedOnError(s) /\ unwinding' = Deferred(opened')
      /\ result = "running" /\ result' = "failed" /\ publisher' = publisher
  BY DEF StepFails, Step
<1> HIDE DEF s
<1>4. "probe" \notin opened'
  BY <1>1, <1>2, <1>3 DEF ServeInv, ClosedOnError, ProbeClosedBy
<1>5. opened' \in SUBSET {"log", "store", "link"}
  BY <1>3, <1>4 DEF ServeInv
<1>6. ("log" \in opened' <=> at > 1) /\ ("store" \in opened' <=> at > 3)
  BY <1>3 DEF ServeInv, ClosedOnError
<1>7. "link" \in opened' => "store" \in opened' /\ publisher
  <2> SUFFICES ASSUME "link" \in opened' PROVE at > 3 /\ publisher
    BY <1>6
  <2>1. "link" \in opened /\ ~LinkClosedBy(s)
    BY <1>3 DEF ClosedOnError
  <2>2. MeshEnabled /\ at > 18
    BY <1>3, <2>1 DEF ServeInv
  <2>3. at \notin 19 .. 26
    BY <1>2, <1>3, <2>1, <2>2 DEF LinkClosedBy
  <2>4. at > 26
    BY <1>1, <2>2, <2>3
  <2> QED BY <1>1, <1>3, <2>2, <2>4 DEF ServeInv
<1>8. "link" \in opened' => CloseDeferred("link")
  BY <1>7 DEF CloseDeferred
<1>9. "store" \in opened' => "log" \in opened'
  BY <1>1, <1>6
<1>10. \/ Deferred(opened') = <<>> /\ opened' = {}
       \/ Deferred(opened') = <<"log">> /\ opened' = {"log"}
       \/ Deferred(opened') = <<"store", "log">> /\ opened' = {"store", "log"}
       \/ Deferred(opened') = <<"link", "store", "log">> /\ opened' = {"link", "store", "log"}
  BY <1>5, <1>7, <1>8, <1>9, DeferredIs
<1> QED BY <1>1, <1>3, <1>5, <1>10 DEF ServeInv

LEMMA ReturnKeeps == ServeInv /\ ListenReturns => ServeInv'
<1> SUFFICES ASSUME ServeInv, ListenReturns PROVE ServeInv'
  OBVIOUS
<1>1. at \in 1 .. Len(Steps) + 1 /\ Len(Steps) \in Nat /\ at' = at /\ Up \in {11, 26}
      /\ (MeshEnabled <=> Up = 26)
  BY StepsAre, UpIs DEF ServeInv, ListenReturns
<1>2. /\ opened' = opened /\ unwinding' = Deferred(opened) /\ result = "running"
      /\ result' \in {"clean", "failed"} /\ accepting # {}
  BY DEF ListenReturns
<1>3. at > Up
  BY <1>2 DEF ServeInv
<1>4. opened \in SUBSET {"log", "store", "link"} /\ "log" \in opened /\ "store" \in opened
  BY <1>1, <1>2, <1>3 DEF ServeInv
<1>5. "link" \in opened => CloseDeferred("link")
  BY <1>1, <1>2, <1>3 DEF ServeInv, CloseDeferred
<1>6. \/ Deferred(opened) = <<>> /\ opened = {}
      \/ Deferred(opened) = <<"log">> /\ opened = {"log"}
      \/ Deferred(opened) = <<"store", "log">> /\ opened = {"store", "log"}
      \/ Deferred(opened) = <<"link", "store", "log">> /\ opened = {"link", "store", "log"}
  BY <1>4, <1>5, DeferredIs
<1> QED BY <1>1, <1>2, <1>4, <1>6 DEF ServeInv

LEMMA ServeSteps == ServeInv /\ [ServeNext]_serveVars => ServeInv'
<1> SUFFICES ASSUME ServeInv, [ServeNext]_serveVars PROVE ServeInv'
  OBVIOUS
<1>1. CASE StepSucceeds
  BY <1>1, SuccessKeeps
<1>2. CASE StepFails
  BY <1>2, FailureKeeps
<1>3. CASE Signal
  BY <1>3 DEF ServeInv, Signal
<1>4. CASE ListenReturns
  BY <1>4, ReturnKeeps
<1>5. CASE \E f \in accepting : FrontStops(f)
  BY <1>5 DEF ServeInv, FrontStops
<1>6. CASE CloseNext
  <2>1. result # "running" /\ result' = result /\ at' = at /\ unwinding # <<>>
        /\ opened' = opened \ {Head(unwinding)} /\ unwinding' = Tail(unwinding)
    BY <1>6 DEF CloseNext
  <2>2. CASE unwinding = <<"log">> /\ opened = {"log"}
    BY <2>1, <2>2 DEF ServeInv
  <2>3. CASE unwinding = <<"store", "log">> /\ opened = {"store", "log"}
    BY <2>1, <2>3 DEF ServeInv
  <2>4. CASE unwinding = <<"link", "store", "log">> /\ opened = {"link", "store", "log"}
    <3>1. Head(unwinding) = "link" /\ Tail(unwinding) = <<"store", "log">>
      BY <2>4
    <3> QED BY <2>1, <2>4, <3>1 DEF ServeInv
  <2> QED BY <2>1, <2>2, <2>3, <2>4 DEF ServeInv
<1>7. CASE LoopEnds
  BY <1>7 DEF ServeInv, LoopEnds
<1>8. CASE UNCHANGED serveVars
  BY <1>8 DEF ServeInv, serveVars
<1> QED BY <1>1, <1>2, <1>3, <1>4, <1>5, <1>6, <1>7, <1>8 DEF ServeNext

LEMMA ServeHolds == ServeInv => ServeIsSound
<1> SUFFICES ASSUME ServeInv PROVE ServeIsSound
  OBVIOUS
<1>1. at \in Nat /\ Up \in {11, 26} /\ (MeshEnabled <=> Up = 26)
  BY StepsAre, UpIs DEF ServeInv
<1>2. LeavesNothingOpen
  BY <1>1 DEF ServeInv, LeavesNothingOpen
<1>3. NoHalfBoard
  BY <1>1 DEF ServeInv, NoHalfBoard
<1> QED BY <1>2, <1>3 DEF ServeIsSound

\* A non-empty bounded set of numbers has a greatest element.
LEMMA GreatestOf ==
    ASSUME NEW T \in SUBSET Nat, T # {}, NEW b \in Nat, \A x \in T : x =< b
    PROVE  /\ Max(T) \in T
           /\ \A y \in T : y =< Max(T)
<1> DEFINE D == {b - x : x \in T}
<1>1. D \in SUBSET Nat /\ D # {}
  <2>1. ASSUME NEW x \in T PROVE b - x \in Nat
    <3>1. x \in Nat /\ x =< b
      OBVIOUS
    <3> QED BY <3>1
  <2> QED BY <2>1
<1>2. PICK d \in D : \A e \in D : d =< e
  BY <1>1, LeastOf
<1>3. PICK x \in T : d = b - x
  OBVIOUS
<1>4. ASSUME NEW y \in T PROVE x >= y
  <2>1. b - y \in D
    OBVIOUS
  <2>2. b - x =< b - y
    BY <1>2, <1>3, <2>1
  <2>3. x \in Nat /\ y \in Nat
    OBVIOUS
  <2> QED BY <2>2, <2>3
<1>5. \E z \in T : \A y \in T : z >= y
  BY <1>4
<1>6. Max(T) \in T /\ \A y \in T : Max(T) >= y
  <2> HIDE <1>1
  <2> QED BY <1>5 DEF Max
<1> QED BY <1>6

----------------------------------------------------------------------------
(* The installation. *)

Record == [area : Place, seq : Nat, body : Nat]
Database == [schema : 0 .. Latest, high : [Place -> Nat], own : SUBSET Record, incarnation : Nat,
             self : BOOLEAN, sysop : BOOLEAN, seeded : BOOLEAN]
Running == [cmd : {"none", "init", "serve"},
            at : {"none", "save", "seed", "config", "load", "migrate", "apply", "check", "announce",
                  "up", "put", "finish"},
            migration : Nat, area : Place, seq : Nat]

\* One record under one number.
OneEach(own) == \A x, y \in own : x.area = y.area /\ x.seq = y.seq => x = y

\* Some number is past them all.
Bounded(own) == \E b \in Nat : \A r \in own : r.seq =< b

\* What a command that has come this far may count on.
Fits(d, c) ==
    /\ c.at = "apply" => c.migration \in 1 .. d.schema + 1 /\ c.migration =< Latest
    /\ c.at \in {"check", "announce", "up", "put"} => d.schema = Latest
    /\ c.at = "put" => c.seq =< d.high[c.area] /\ c.cmd # "none"
    /\ c.at = "up" => c.cmd = "serve"
    /\ (c.at = "put" /\ c.cmd = "serve") \/ c.at = "up" => \A r \in d.own : r.seq =< d.high[r.area]

\* Nothing that runs is ahead of the database, and what is out is in it.
InstInv ==
    /\ db \in Database /\ backup \in Database /\ backup.schema =< db.schema
    /\ command \in [Process -> Running]
    /\ written \in Nat
    /\ OneEach(db.own) /\ Bounded(db.own)
    /\ peersHold \subseteq published /\ published \subseteq db.own
    /\ ran = [m \in 1 .. Latest |-> IF m =< db.schema THEN 1 ELSE 0]
    /\ \A p \in Process : Fits(db, command[p])

LEMMA HighestIs ==
    ASSUME db \in Database, Bounded(db.own), NEW a \in Place
    PROVE  /\ HighestStored(a) \in Nat
           /\ \A r \in db.own : r.area = a => r.seq =< HighestStored(a)
           /\ HighestStored(a) # 0 => \E r \in db.own : r.area = a /\ r.seq = HighestStored(a)
<1> DEFINE T == Stored(a) \cup {0}
<1>1. T \in SUBSET Nat /\ T # {}
  BY DEF Stored, Database, Record
<1>2. PICK b \in Nat : \A r \in db.own : r.seq =< b
  BY DEF Bounded
<1>3. \A x \in T : x =< b
  BY <1>2 DEF Stored
<1>4. \A r \in db.own : r.area = a => r.seq \in T
  BY DEF Stored
<1>5. \A x \in T : x # 0 => \E r \in db.own : r.area = a /\ r.seq = x
  BY DEF Stored
<1> HIDE DEF T
<1>6. Max(T) \in T /\ \A y \in T : y =< Max(T)
  BY <1>1, <1>3, GreatestOf
<1>7. HighestStored(a) = Max(T)
  BY DEF HighestStored, T
<1> QED BY <1>1, <1>4, <1>5, <1>6, <1>7

LEMMA InstStarts == InstInit => InstInv
<1> SUFFICES ASSUME InstInit PROVE InstInv
  OBVIOUS
<1>1. Fresh \in Database /\ Fresh.schema = 0 /\ Fresh.own = {}
  BY InstanceAssumption DEF Fresh, Database
<1>2. Nothing \in Running /\ Nothing.at = "none"
  BY InstanceAssumption DEF Nothing, Running
<1>3. db = Fresh /\ backup = Fresh /\ command = [p \in Process |-> Nothing] /\ written = 0
      /\ peersHold = {} /\ published = {} /\ ran = [m \in 1 .. Latest |-> 0]
  BY DEF InstInit
<1>4. OneEach(db.own) /\ Bounded(db.own)
  BY <1>1, <1>3 DEF OneEach, Bounded
<1>5. ran = [m \in 1 .. Latest |-> IF m =< db.schema THEN 1 ELSE 0]
  BY <1>1, <1>3, InstanceAssumption
<1> QED BY <1>1, <1>2, <1>3, <1>4, <1>5 DEF InstInv, Fits

LEMMA InstIs == ~Whole /\ InstInv => InstallationHolds
<1> SUFFICES ASSUME InstInv PROVE InstallationHolds
  OBVIOUS
<1>1. NumbersAreForGood
  BY DEF NumbersAreForGood, InstInv, OneEach
<1>2. MigratedOnce
  BY InstanceAssumption DEF MigratedOnce, InstInv, Database, Fits
<1>3. MarksCover
  <2> SUFFICES ASSUME NEW p \in Process, AtStep(p, "serve", "up"), NEW a \in Place
               PROVE  HighestStored(a) =< db.high[a]
    BY DEF MarksCover
  <2>1. \A r \in db.own : r.seq =< db.high[r.area]
    BY DEF InstInv, AtStep, Fits
  <2>2. db \in Database /\ Bounded(db.own) /\ db.high[a] \in Nat
    BY DEF InstInv, Database
  <2>3. /\ HighestStored(a) \in Nat
        /\ HighestStored(a) # 0 => \E r \in db.own : r.area = a /\ r.seq = HighestStored(a)
    BY <2>2, HighestIs
  <2> QED BY <2>1, <2>2, <2>3
<1> QED BY <1>1, <1>2, <1>3 DEF InstallationHolds

\* What a command counts on stays so while the database only grows.
LEMMA FitsLater ==
    ASSUME NEW d \in Database, NEW e \in Database, NEW c \in Running, Fits(d, c),
           d.schema =< e.schema, \A a \in Place : d.high[a] =< e.high[a],
           \A r \in e.own : r \in d.own \/ r.seq =< e.high[r.area]
    PROVE  Fits(e, c)
<1> USE InstanceAssumption
<1>1. d.schema \in Nat /\ e.schema \in Nat /\ e.schema =< Latest /\ c.area \in Place /\ c.seq \in Nat
      /\ d.high \in [Place -> Nat] /\ e.high \in [Place -> Nat] /\ c.migration \in Nat
      /\ d.own \subseteq Record /\ e.own \subseteq Record
  BY DEF Database, Running
<1>2. c.at = "apply" => c.migration \in 1 .. e.schema + 1 /\ c.migration =< Latest
  BY <1>1 DEF Fits
<1>3. c.at \in {"check", "announce", "up", "put"} => e.schema = Latest
  BY <1>1 DEF Fits
<1>4. c.at = "put" => c.seq =< e.high[c.area]
  <2> SUFFICES ASSUME c.at = "put" PROVE c.seq =< e.high[c.area]
    OBVIOUS
  <2>1. c.seq =< d.high[c.area] /\ d.high[c.area] =< e.high[c.area]
    BY <1>1 DEF Fits
  <2>2. d.high[c.area] \in Nat /\ e.high[c.area] \in Nat
    BY <1>1
  <2> QED BY <1>1, <2>1, <2>2
<1>5. ASSUME (c.at = "put" /\ c.cmd = "serve") \/ c.at = "up", NEW r \in e.own
      PROVE  r.seq =< e.high[r.area]
  <2>1. CASE r \in d.own
    <3>1. r.seq =< d.high[r.area]
      BY <1>5, <2>1 DEF Fits
    <3>2. r.area \in Place /\ r.seq \in Nat
      BY <1>1 DEF Record
    <3>3. d.high[r.area] =< e.high[r.area] /\ d.high[r.area] \in Nat /\ e.high[r.area] \in Nat
      BY <1>1, <3>2
    <3> QED BY <3>1, <3>2, <3>3
  <2> QED BY <2>1
<1>6. (c.at = "up" => c.cmd = "serve") /\ (c.at = "put" => c.cmd # "none")
  BY DEF Fits
<1> QED BY <1>2, <1>3, <1>4, <1>5, <1>6 DEF Fits

\* A command's step: it changes what p runs, and the database only grows.
LEMMA Advance ==
    ASSUME InstInv, NEW p \in Process, NEW c \in Running, command' = [command EXCEPT ![p] = c],
           db' \in Database, db.schema =< db'.schema, \A a \in Place : db.high[a] =< db'.high[a],
           \A r \in db'.own : r \in db.own \/ r.seq =< db'.high[r.area],
           db.own \subseteq db'.own, OneEach(db'.own), Bounded(db'.own), Fits(db', c),
           backup' = backup, UNCHANGED outside, written' \in Nat,
           ran' = [m \in 1 .. Latest |-> IF m =< db'.schema THEN 1 ELSE 0]
    PROVE  InstInv'
<1>1. command' \in [Process -> Running]
  BY DEF InstInv
<1>2. \A q \in Process : Fits(db', command'[q])
  <2> SUFFICES ASSUME NEW q \in Process, q # p PROVE Fits(db', command'[q])
    BY DEF InstInv
  <2>1. command'[q] = command[q] /\ command[q] \in Running /\ Fits(db, command[q]) /\ db \in Database
    BY DEF InstInv
  <2> QED BY <2>1, FitsLater
<1>3. backup'.schema =< db'.schema
  BY InstanceAssumption DEF InstInv, Database
<1>4. peersHold' \subseteq published' /\ published' \subseteq db'.own
  BY DEF InstInv, outside
<1>5. backup' \in Database
  BY DEF InstInv
<1> QED BY <1>1, <1>2, <1>3, <1>4, <1>5 DEF InstInv

\* A step that leaves the database alone.
LEMMA Onward ==
    ASSUME InstInv, NEW p \in Process, NEW c \in Running, command' = [command EXCEPT ![p] = c],
           Fits(db, c), db' = db, backup' = backup, UNCHANGED outside, written' = written, ran' = ran
    PROVE  InstInv'
<1>1. db \in Database /\ written \in Nat /\ OneEach(db.own) /\ Bounded(db.own)
      /\ ran = [m \in 1 .. Latest |-> IF m =< db.schema THEN 1 ELSE 0]
  BY DEF InstInv
<1>2. db.schema \in Nat /\ \A a \in Place : db.high[a] \in Nat
  BY <1>1, InstanceAssumption DEF Database
<1>3. db.schema =< db.schema /\ \A a \in Place : db.high[a] =< db.high[a]
  BY <1>2
<1> QED BY <1>1, <1>3, Advance

\* p is elsewhere, and runs the same.
LEMMA ProceedsTo ==
    ASSUME InstInv, NEW p \in Process, NEW w, Proceeds(p, w), w \in {"seed", "config", "migrate", "check",
             "announce", "up", "finish"}
    PROVE  \E c \in Running :
              /\ command' = [command EXCEPT ![p] = c]
              /\ c.at = w /\ c.cmd = command[p].cmd
<1> DEFINE c == [command[p] EXCEPT !.at = w]
<1>1. command \in [Process -> Running] /\ command[p] \in Running
  BY DEF InstInv
<1>2. c \in Running /\ c.at = w /\ c.cmd = command[p].cmd
  BY <1>1 DEF Running
<1>3. command' = [command EXCEPT ![p] = c]
  BY <1>1 DEF Proceeds
<1> QED BY <1>2, <1>3

LEMMA StopsIs ==
    ASSUME InstInv, NEW p \in Process, Stops(p), NEW d
    PROVE  /\ Nothing \in Running /\ command' = [command EXCEPT ![p] = Nothing]
           /\ Fits(d, Nothing)
BY InstanceAssumption DEF Stops, Nothing, Running, Fits

\* The steps of a command that leave the database alone.
LEMMA QuietSteps ==
    ASSUME InstInv, NEW p \in Process,
           \/ \E cmd \in {"init", "serve"} : Begins(p, cmd)
           \/ Killed(p) \/ CreatesKey(p) \/ WritesKey(p) \/ WritesConfig(p) \/ LoadsKey(p)
           \/ LooksForMigration(p)
    PROVE  InstInv'
<1>1. ASSUME Stops(p), db' = db, backup' = backup, UNCHANGED outside, written' = written, ran' = ran
      PROVE  InstInv'
  BY <1>1, StopsIs, Onward
<1>2. ASSUME NEW w \in {"seed", "config", "migrate"}, Proceeds(p, w), db' = db, backup' = backup,
             UNCHANGED outside, written' = written, ran' = ran
      PROVE  InstInv'
  <2>1. PICK c \in Running : command' = [command EXCEPT ![p] = c] /\ c.at = w
    BY <1>2, ProceedsTo
  <2>2. Fits(db, c)
    BY <2>1 DEF Fits
  <2> QED BY <1>2, <2>1, <2>2, Onward
<1>3. ASSUME NEW cmd \in {"init", "serve"}, Begins(p, cmd) PROVE InstInv'
  <2> DEFINE c == [command[p] EXCEPT !.cmd = cmd, !.at = IF cmd = "init" THEN "save" ELSE "load"]
  <2>1. command \in [Process -> Running] /\ command[p] \in Running
    BY DEF InstInv
  <2>2. c \in Running /\ c.at \in {"save", "load"}
    BY <2>1 DEF Running
  <2>3. command' = [command EXCEPT ![p] = c]
    BY <1>3, <2>1 DEF Begins
  <2> HIDE DEF c
  <2>4. Fits(db, c)
    BY <2>2 DEF Fits
  <2> QED BY <1>3, <2>2, <2>3, <2>4, Onward DEF Begins
<1>4. CASE Killed(p)
  BY <1>1, <1>4 DEF Killed
<1>5. CASE CreatesKey(p)
  BY <1>1, <1>2, <1>5 DEF CreatesKey
<1>6. CASE WritesKey(p) \/ WritesConfig(p) \/ LoadsKey(p)
  BY <1>1, <1>2, <1>6 DEF WritesKey, WritesConfig, LoadsKey
<1>7. CASE LooksForMigration(p)
  <2>1. db' = db /\ backup' = backup /\ UNCHANGED outside /\ written' = written /\ ran' = ran
    BY <1>7 DEF LooksForMigration
  <2>2. CASE db.schema = Latest
    <3> DEFINE w == IF command[p].cmd = "init" THEN "announce" ELSE "check"
    <3>1. Proceeds(p, w) /\ w \in {"announce", "check"}
      BY <1>7, <2>2 DEF LooksForMigration
    <3> HIDE DEF w
    <3>2. PICK c \in Running : command' = [command EXCEPT ![p] = c] /\ c.at = w
      BY <3>1, ProceedsTo
    <3>3. Fits(db, c)
      BY <2>2, <3>1, <3>2 DEF Fits
    <3> QED BY <2>1, <3>2, <3>3, Onward
  <2>3. CASE db.schema # Latest
    <3> DEFINE n == db.schema + 1
               c == [command[p] EXCEPT !.at = "apply", !.migration = n]
    <3>1. command \in [Process -> Running] /\ command[p] \in Running /\ db.schema \in 0 .. Latest
          /\ Latest \in Nat /\ n \in Nat
      BY InstanceAssumption DEF InstInv, Database
    <3>3. command' = [command EXCEPT ![p] = c]
      BY <1>7, <2>3, <3>1 DEF LooksForMigration
    <3> HIDE DEF n
    <3>2. c \in Running /\ c.at = "apply" /\ c.migration = n
      BY <3>1 DEF Running
    <3> HIDE DEF c
    <3> USE DEF n
    <3>4. Fits(db, c)
      BY <2>3, <3>1, <3>2 DEF Fits
    <3> QED BY <2>1, <3>2, <3>3, <3>4, Onward
  <2> QED BY <2>2, <2>3
<1> QED BY <1>3, <1>4, <1>5, <1>6, <1>7

LEMMA MigrationKeeps ==
    ASSUME InstInv, NEW p \in Process, AppliesMigration(p)
    PROVE  InstInv'
<1> DEFINE m == command[p].migration
<1>1. /\ db \in Database /\ db.schema \in 0 .. Latest /\ Latest \in Nat /\ m \in 1 .. db.schema + 1
      /\ m =< Latest /\ backup' = backup /\ UNCHANGED outside /\ written' = written
      /\ written \in Nat /\ command[p] \in Running
  BY InstanceAssumption DEF InstInv, Database, AppliesMigration, Fits
<1>2. CASE db.schema >= m
  BY <1>1, <1>2, StopsIs, Onward DEF AppliesMigration
<1>3. CASE ~(db.schema >= m)
  <2>1. m = db.schema + 1
    BY <1>1, <1>3
  <2>2. db' = [db EXCEPT !.schema = m] /\ ran' = [ran EXCEPT ![m] = ran[m] + 1] /\ Proceeds(p, "migrate")
    BY <1>3 DEF AppliesMigration
  <2>3. db' \in Database /\ db'.schema = db.schema + 1 /\ db'.high = db.high /\ db'.own = db.own
    BY <1>1, <2>1, <2>2 DEF Database
  <2>4. PICK c \in Running : command' = [command EXCEPT ![p] = c] /\ c.at = "migrate"
    BY <2>2, ProceedsTo
  <2>5. Fits(db', c)
    BY <2>4 DEF Fits
  <2>6. ran' = [n \in 1 .. Latest |-> IF n =< db'.schema THEN 1 ELSE 0]
    <3> HIDE DEF m
    <3>1. ran = [n \in 1 .. Latest |-> IF n =< db.schema THEN 1 ELSE 0]
      BY DEF InstInv
    <3>2. ran[m] = 0
      BY <1>1, <2>1, <3>1
    <3>3. ASSUME NEW n \in 1 .. Latest PROVE ran'[n] = IF n =< db'.schema THEN 1 ELSE 0
      BY <1>1, <2>1, <2>2, <2>3, <3>1, <3>2
    <3> QED BY <2>2, <3>1, <3>3
  <2>7. \A a \in Place : db.high[a] \in Nat
    BY <1>1 DEF Database
  <2>8. OneEach(db'.own) /\ Bounded(db'.own)
    BY <2>3 DEF InstInv
  <2>9. db.schema =< db'.schema /\ (\A a \in Place : db.high[a] =< db'.high[a])
    BY <1>1, <2>3, <2>7
  <2> QED BY <1>1, <2>3, <2>4, <2>5, <2>6, <2>8, <2>9, Advance
<1> QED BY <1>2, <1>3

LEMMA CheckKeeps ==
    ASSUME InstInv, NEW p \in Process, ChecksSeq(p)
    PROVE  InstInv'
<1>1. /\ db \in Database /\ db.schema = Latest /\ Latest \in Nat /\ command[p] \in Running
      /\ backup' = backup /\ UNCHANGED outside /\ written' = written /\ ran' = ran /\ written \in Nat
      /\ ran = [n \in 1 .. Latest |-> IF n =< db.schema THEN 1 ELSE 0]
      /\ command[p].cmd = "serve" /\ OneEach(db.own) /\ Bounded(db.own) /\ db.own \subseteq Record
      /\ db.high \in [Place -> Nat]
  BY InstanceAssumption DEF InstInv, Database, ChecksSeq, AtStep, Fits
<1> DEFINE h == [a \in Place |-> IF a \in Regressed THEN HighestStored(a) ELSE db.high[a]]
           i == db.incarnation + (IF Regressed = {} THEN 0 ELSE 1)
<1>2. db' = [db EXCEPT !.high = h, !.incarnation = i, !.seeded = TRUE]
  BY DEF ChecksSeq
<1>10. i \in Nat
  BY <1>1 DEF Database
<1>3. ASSUME NEW a \in Place
      PROVE  /\ h[a] \in Nat /\ db.high[a] =< h[a]
             /\ \A r \in db.own : r.area = a => r.seq =< h[a]
  <2>1. HighestStored(a) \in Nat /\ \A r \in db.own : r.area = a => r.seq =< HighestStored(a)
    BY <1>1, HighestIs
  <2>2. db.high[a] \in Nat
    BY <1>1
  <2>3. a \in Regressed <=> HighestStored(a) > db.high[a]
    BY DEF Regressed
  <2>4. CASE a \in Regressed
    BY <2>1, <2>2, <2>3, <2>4
  <2>5. CASE a \notin Regressed
    <3>1. h[a] = db.high[a] /\ HighestStored(a) =< h[a]
      BY <2>1, <2>2, <2>3, <2>5
    <3>2. ASSUME NEW r \in db.own, r.area = a PROVE r.seq =< h[a]
      <4>1. r.seq \in Nat /\ r.seq =< HighestStored(a)
        BY <1>1, <2>1, <3>2 DEF Record
      <4> QED BY <2>1, <2>2, <3>1, <4>1
    <3> QED BY <2>2, <3>1, <3>2
  <2> QED BY <2>4, <2>5
<1>4. h \in [Place -> Nat]
  BY <1>3
<1> HIDE DEF h, i
<1>5. db' \in Database /\ db'.schema = db.schema /\ db'.own = db.own /\ db'.high = h
  BY <1>1, <1>2, <1>4, <1>10 DEF Database
<1>6. \A r \in db'.own : r.seq =< db'.high[r.area]
  <2>1. \A r \in db.own : r.area \in Place
    BY <1>1 DEF Record
  <2> QED BY <1>3, <1>5, <2>1
<1>7. \E c \in Running : command' = [command EXCEPT ![p] = c] /\ Fits(db', c)
  <2>1. CASE Stops(p)
    BY <2>1, StopsIs
  <2>2. CASE Proceeds(p, "up")
    <3>1. PICK c \in Running : command' = [command EXCEPT ![p] = c] /\ c.at = "up" /\ c.cmd = "serve"
      BY <1>1, <2>2, ProceedsTo
    <3>2. Fits(db', c)
      BY <1>1, <1>5, <1>6, <3>1 DEF Fits
    <3> QED BY <3>1, <3>2
  <2> QED BY <2>1, <2>2 DEF ChecksSeq
<1>8. PICK c \in Running : command' = [command EXCEPT ![p] = c] /\ Fits(db', c)
  BY <1>7
<1>9. db.schema =< db'.schema /\ (\A a \in Place : db.high[a] =< db'.high[a])
  BY <1>1, <1>3, <1>5
<1> QED BY <1>1, <1>5, <1>6, <1>8, <1>9, Advance

LEMMA ReserveKeeps ==
    ASSUME InstInv, NEW p \in Process, NEW a \in Place, Reserves(p, a)
    PROVE  InstInv'
<1>1. /\ db \in Database /\ command[p] \in Running /\ command \in [Process -> Running]
      /\ db.schema = Latest /\ Latest \in Nat
      /\ backup' = backup /\ UNCHANGED outside /\ written' = written /\ ran' = ran /\ written \in Nat
      /\ ran = [n \in 1 .. Latest |-> IF n =< db.schema THEN 1 ELSE 0]
      /\ OneEach(db.own) /\ Bounded(db.own) /\ db.own \subseteq Record
      /\ db.high \in [Place -> Nat] /\ db.high[a] \in Nat
  BY InstanceAssumption DEF InstInv, Database, Reserves, AtStep, Fits
<1> DEFINE n == db.high[a] + 1
           c == [command[p] EXCEPT !.at = "put", !.area = a, !.seq = n]
           h == [db.high EXCEPT ![a] = db.high[a] + 1]
<1>3. command' = [command EXCEPT ![p] = c]
  BY <1>1 DEF Reserves
<1>10. n \in Nat
  BY <1>1
<1> HIDE DEF n
<1>2. c \in Running /\ c.at = "put" /\ c.area = a /\ c.seq = n /\ c.cmd = command[p].cmd
  BY <1>1, <1>10 DEF Running
<1> USE DEF n
<1>4. db' = [db EXCEPT !.high = h]
  BY DEF Reserves
<1>5. h \in [Place -> Nat] /\ h[a] = db.high[a] + 1 /\ \A b \in Place : db.high[b] =< h[b]
  BY <1>1
<1> HIDE DEF c, h
<1>6. db' \in Database /\ db'.schema = db.schema /\ db'.own = db.own /\ db'.high = h
  BY <1>1, <1>4, <1>5 DEF Database
<1>7. ASSUME c.cmd = "serve", NEW r \in db.own PROVE r.seq =< h[r.area]
  <2>1. AtStep(p, "serve", "up")
    BY <1>2, <1>7 DEF Reserves, AtStep
  <2>2. r.seq =< db.high[r.area] /\ r.area \in Place /\ r.seq \in Nat
    BY <1>1, <2>1 DEF InstInv, Fits, AtStep, Record
  <2>3. db.high[r.area] \in Nat /\ h[r.area] \in Nat /\ db.high[r.area] =< h[r.area]
    BY <1>1, <1>5, <2>2
  <2> QED BY <2>2, <2>3
<1>8. Fits(db', c)
  <2>1. c.cmd # "none" /\ c.seq = h[a]
    BY <1>2, <1>5 DEF Reserves, AtStep, n
  <2>2. c.seq =< db'.high[c.area]
    BY <1>1, <1>2, <1>5, <1>6, <2>1
  <2>3. db'.schema = Latest /\ (c.cmd = "serve" => \A r \in db'.own : r.seq =< db'.high[r.area])
    BY <1>1, <1>6, <1>7
  <2> QED BY <1>2, <2>1, <2>2, <2>3 DEF Fits
<1>9. db.schema =< db'.schema /\ (\A b \in Place : db.high[b] =< db'.high[b])
  BY <1>1, <1>5, <1>6
<1> QED BY <1>1, <1>2, <1>3, <1>6, <1>8, <1>9, Advance

LEMMA PutKeeps ==
    ASSUME InstInv, NEW p \in Process, Puts(p)
    PROVE  InstInv'
<1> DEFINE c == command[p]
           r == [area |-> c.area, seq |-> c.seq, body |-> written + 1]
           taken == c.seq \in Stored(c.area)
<1>1. /\ db \in Database /\ c \in Running /\ c.at = "put"
      /\ db.schema = Latest /\ Latest \in Nat /\ c.seq =< db.high[c.area] /\ c.area \in Place
      /\ c.cmd # "none"
      /\ backup' = backup /\ UNCHANGED outside /\ ran' = ran /\ written \in Nat
      /\ ran = [n \in 1 .. Latest |-> IF n =< db.schema THEN 1 ELSE 0]
      /\ OneEach(db.own) /\ Bounded(db.own) /\ db.own \subseteq Record
      /\ db.high \in [Place -> Nat] /\ c.seq \in Nat
      /\ c.cmd = "serve" => \A x \in db.own : x.seq =< db.high[x.area]
  BY InstanceAssumption DEF InstInv, Database, Running, Puts, Fits
<1>2. ASSUME NEW w \in {"up", "finish"}, Proceeds(p, w), w = "up" => c.cmd = "serve", db' \in Database,
             db'.schema = Latest, db'.high = db.high,
             \A x \in db'.own : x \in db.own \/ x.seq =< db'.high[x.area]
      PROVE  \E e \in Running : command' = [command EXCEPT ![p] = e] /\ Fits(db', e)
  <2>1. PICK e \in Running : command' = [command EXCEPT ![p] = e] /\ e.at = w /\ e.cmd = c.cmd
    BY <1>2, ProceedsTo
  <2>2. c.cmd = "serve" => \A x \in db'.own : x.seq =< db'.high[x.area]
    BY <1>1, <1>2
  <2>3. Fits(db', e)
    BY <1>2, <2>1, <2>2 DEF Fits
  <2> QED BY <2>1, <2>3
<1>3. c.cmd \in {"none", "init", "serve"}
  BY <1>1 DEF Running
<1>4. CASE taken
  <2>1. db' = db /\ written' = written /\ (Stops(p) \/ (c.cmd # "init" /\ Proceeds(p, "up")))
    BY <1>4 DEF Puts
  <2>2. CASE Stops(p)
    BY <1>1, <2>1, <2>2, StopsIs, Onward
  <2>3. CASE c.cmd # "init" /\ Proceeds(p, "up")
    <3>1. c.cmd = "serve"
      BY <1>1, <1>3, <2>3
    <3>2. \E e \in Running : command' = [command EXCEPT ![p] = e] /\ Fits(db', e)
      BY <1>1, <1>2, <2>1, <2>3, <3>1
    <3> QED BY <1>1, <2>1, <3>2, Onward
  <2> QED BY <2>1, <2>2, <2>3
<1>5. CASE ~taken
  <2>1. db' = [db EXCEPT !.own = db.own \cup {r}] /\ written' = written + 1
        /\ Proceeds(p, IF c.cmd = "init" THEN "finish" ELSE "up")
    BY <1>5 DEF Puts
  <2>2. r \in Record /\ r.seq = c.seq /\ r.area = c.area
    BY <1>1 DEF Record
  <2>3. \A x \in db.own : ~(x.area = r.area /\ x.seq = r.seq)
    BY <1>5, <2>2 DEF Stored
  <2> HIDE DEF r, taken
  <2>4. db' \in Database /\ db'.schema = db.schema /\ db'.own = db.own \cup {r} /\ db'.high = db.high
    BY <1>1, <2>1, <2>2 DEF Database
  <2>5. OneEach(db'.own)
    BY <1>1, <2>3, <2>4 DEF OneEach
  <2>6. Bounded(db'.own)
    <3>1. PICK b \in Nat : \A x \in db.own : x.seq =< b
      BY <1>1 DEF Bounded
    <3>2. CASE r.seq =< b
      BY <2>4, <3>1, <3>2 DEF Bounded
    <3>3. CASE ~(r.seq =< b)
      <4>1. ASSUME NEW x \in db'.own PROVE x.seq =< r.seq
        <5>1. x.seq \in Nat /\ r.seq \in Nat /\ (x \in db.own => x.seq =< b)
          BY <1>1, <2>2, <2>4, <3>1 DEF Record
        <5> QED BY <2>4, <3>3, <5>1
      <4> QED BY <1>1, <2>2, <4>1 DEF Bounded
    <3> QED BY <3>2, <3>3
  <2>7. \A x \in db'.own : x \in db.own \/ x.seq =< db'.high[x.area]
    BY <1>1, <2>2, <2>4
  <2>8. \E e \in Running : command' = [command EXCEPT ![p] = e] /\ Fits(db', e)
    <3>1. CASE c.cmd = "init"
      BY <1>1, <1>2, <2>1, <2>4, <2>7, <3>1
    <3>2. CASE c.cmd # "init"
      <4>1. c.cmd = "serve"
        BY <1>1, <1>3, <3>2
      <4> QED BY <1>1, <1>2, <2>1, <2>4, <2>7, <4>1
    <3> QED BY <3>1, <3>2
  <2>9. PICK e \in Running : command' = [command EXCEPT ![p] = e] /\ Fits(db', e)
    BY <2>8
  <2>10. db.schema =< db'.schema /\ (\A a \in Place : db.high[a] =< db'.high[a])
    BY <1>1, <2>4
  <2>11. written' \in Nat /\ db.own \subseteq db'.own
    BY <1>1, <2>1, <2>4
  <2> QED BY <1>1, <2>4, <2>5, <2>6, <2>7, <2>9, <2>10, <2>11, Advance
<1> QED BY <1>4, <1>5

LEMMA FinishKeeps ==
    ASSUME InstInv, NEW p \in Process, Finishes(p)
    PROVE  InstInv'
<1>1. /\ db \in Database /\ db.schema \in Nat /\ db.high \in [Place -> Nat]
      /\ backup' = backup /\ UNCHANGED outside /\ ran' = ran /\ written' = written /\ written \in Nat
      /\ ran = [n \in 1 .. Latest |-> IF n =< db.schema THEN 1 ELSE 0]
      /\ OneEach(db.own) /\ Bounded(db.own) /\ Stops(p)
      /\ db' = [db EXCEPT !.seeded = TRUE, !.self = TRUE, !.sysop = TRUE]
  BY InstanceAssumption DEF InstInv, Database, Finishes
<1>2. db' \in Database /\ db'.schema = db.schema /\ db'.own = db.own /\ db'.high = db.high
  BY <1>1 DEF Database
<1>3. db.schema =< db'.schema /\ (\A a \in Place : db.high[a] =< db'.high[a])
  BY <1>1, <1>2
<1>4. Nothing \in Running /\ command' = [command EXCEPT ![p] = Nothing] /\ Fits(db', Nothing)
  BY <1>1, StopsIs
<1> QED BY <1>1, <1>2, <1>3, <1>4, Advance

LEMMA RestoreKeeps == ~Whole /\ InstInv /\ Restores => InstInv'
<1> SUFFICES ASSUME ~Whole, InstInv, Restores PROVE InstInv'
  OBVIOUS
<1>1. /\ db \in Database /\ backup \in Database /\ command' = command /\ backup' = backup
      /\ UNCHANGED outside /\ written' = written /\ ran' = ran
      /\ db' = [db EXCEPT !.high = backup.high] /\ \A p \in Process : command[p] = Nothing
  BY DEF Restores, InstInv
<1>2. db' \in Database /\ db'.schema = db.schema /\ db'.own = db.own
  BY <1>1 DEF Database
<1>3. \A p \in Process : Fits(db', command'[p])
  BY <1>1 DEF Fits, Nothing
<1> QED BY <1>1, <1>2, <1>3 DEF InstInv, outside

LEMMA InstSteps == ~Whole /\ InstInv /\ [InstNext]_instVars => InstInv'
<1> SUFFICES ASSUME ~Whole, InstInv, [InstNext]_instVars PROVE InstInv'
  OBVIOUS
<1>1. ASSUME NEW p \in Process,
             \/ \E cmd \in {"init", "serve"} : Begins(p, cmd)
             \/ Killed(p) \/ CreatesKey(p) \/ WritesKey(p) \/ WritesConfig(p) \/ LoadsKey(p)
             \/ LooksForMigration(p) \/ AppliesMigration(p)
             \/ ChecksSeq(p) \/ Puts(p) \/ Finishes(p)
             \/ \E a \in Place : Reserves(p, a)
      PROVE  InstInv'
  BY <1>1, QuietSteps, MigrationKeeps, CheckKeeps, PutKeeps, FinishKeeps, ReserveKeeps
<1>2. ASSUME NEW r \in db.own, PeerHears(r) PROVE InstInv'
  BY <1>2 DEF InstInv, PeerHears, keyAndConfig
<1>3. ASSUME NEW r \in peersHold, OwnComesBack(r) PROVE InstInv'
  <2>1. r \in db.own
    BY DEF InstInv
  <2>2. r.seq \in Stored(r.area)
    BY <2>1 DEF Stored
  <2> QED BY <1>3, <2>2 DEF OwnComesBack
<1>4. CASE BacksUp
  <2>1. db \in Database /\ db.schema =< db.schema
    BY InstanceAssumption DEF InstInv, Database
  <2> QED BY <1>4, <2>1 DEF InstInv, BacksUp, outside
<1>5. CASE Restores
  BY <1>5, RestoreKeeps
<1>6. CASE UNCHANGED instVars
  BY <1>6 DEF InstInv, instVars
<1> QED BY <1>1, <1>2, <1>3, <1>4, <1>5, <1>6 DEF InstNext

----------------------------------------------------------------------------
(* The catalog. *)

Hashes == {Truncate[h] : h \in Content}
FileRow == [area : Area, name : FileName, hash : Content, desc : Text \cup {NoText}, who : Uploader,
        rec : Nat, at : Nat]
Filing == [origin : Board, area : Area, name : FileName, hash : Hashes, desc : Text \cup {NoText},
           ts : Nat, seq : Nat]
Call == {Free} \cup [at : {"reread"}, area : Area, name : FileName]
          \cup [at : {"build"}, row : Nat, file : FileRow]
          \cup [at : {"store"}, row : Nat, rec : Filing]
          \cup [at : {"link"}, row : Nat, rec : Nat]

\* An area has one row of a name.
CatInv ==
    /\ rows \in Seq(FileRow \cup {Gone}) /\ filed \in Seq(Filing)
    /\ calls \in [Caller -> Call] /\ numbers \in [Area -> Nat] /\ clock \in Nat
    /\ \A i, j \in DOMAIN rows : 
          rows[i] \in FileRow /\ rows[j] \in FileRow /\ rows[i].area = rows[j].area /\ rows[i].name = rows[j].name
             => i = j

LEMMA GoneIsNoRow == Gone \notin FileRow
<1>1. Gone.area = "gone"
  BY DEF Gone
<1> QED BY <1>1, CatalogAssumption DEF FileRow

LEMMA CatStarts == CatInit => CatInv
BY DEF CatInit, CatInv, Call

\* The row a name finds.
LEMMA NameFinds ==
    ASSUME CatInv, NEW a \in Area, NEW n
    PROVE  /\ \A i \in Called(a, n) : i \in DOMAIN rows /\ rows[i] \in FileRow /\ rows[i].area = a /\ rows[i].name = n
           /\ \A i \in DOMAIN rows : rows[i] \in FileRow /\ rows[i].area = a /\ rows[i].name = n => i \in Called(a, n)
           /\ Called(a, n) # {} => GetFile(a, n) \in Called(a, n)
<1>1. \A i \in Called(a, n) : i \in DOMAIN rows /\ rows[i].area = a /\ rows[i].name = n
  BY DEF Called, Rows
<1>2. ASSUME NEW i \in Called(a, n) PROVE rows[i] \in FileRow
  <2>1. rows[i] \in FileRow \cup {Gone}
    <3>1. rows \in Seq(FileRow \cup {Gone}) /\ i \in DOMAIN rows
      BY <1>1 DEF CatInv
    <3> QED BY <3>1
  <2>2. rows[i] # Gone
    <3>1. Gone.area = "gone" /\ "gone" \notin Area
      BY CatalogAssumption DEF Gone
    <3> QED BY <1>1, <3>1
  <2> QED BY <2>1, <2>2
<1>3. \A i \in DOMAIN rows : rows[i] \in FileRow /\ rows[i].area = a /\ rows[i].name = n => i \in Called(a, n)
  BY DEF Called, Rows
<1>4. Called(a, n) # {} => GetFile(a, n) \in Called(a, n)
  BY DEF GetFile
<1> QED BY <1>1, <1>2, <1>3, <1>4

\* A row is written over, under the same name or one nobody has.
LEMMA RowWritten ==
    ASSUME CatInv, NEW k \in DOMAIN rows, NEW f \in FileRow \cup {Gone}, rows' = [rows EXCEPT ![k] = f],
           \/ f = Gone
           \/ rows[k] \in FileRow /\ f.area = rows[k].area /\ f.name = rows[k].name
           \/ Called(f.area, f.name) = {}
    PROVE  /\ rows' \in Seq(FileRow \cup {Gone})
           /\ \A i, j \in DOMAIN rows' :
                 rows'[i] \in FileRow /\ rows'[j] \in FileRow /\ rows'[i].area = rows'[j].area
                 /\ rows'[i].name = rows'[j].name => i = j
<1>1. rows \in Seq(FileRow \cup {Gone}) /\ rows' \in Seq(FileRow \cup {Gone}) /\ DOMAIN rows' = DOMAIN rows
      /\ rows'[k] = f /\ \A i \in DOMAIN rows : i # k => rows'[i] = rows[i]
  BY DEF CatInv
<1>2. ASSUME NEW i \in DOMAIN rows, i # k, rows[i] \in FileRow, f \in FileRow, rows[i].area = f.area,
             rows[i].name = f.name
      PROVE  FALSE
  <2>1. f # Gone
    BY <1>2, GoneIsNoRow
  <2>2. f.area \in Area /\ f.name \in FileName
    BY <1>2 DEF FileRow
  <2>3. Called(f.area, f.name) # {}
    BY <1>2, <2>2, NameFinds
  <2>4. rows[k] \in FileRow /\ f.area = rows[k].area /\ f.name = rows[k].name
    BY <2>1, <2>3
  <2> QED BY <1>2, <2>4 DEF CatInv
<1>3. ASSUME NEW i \in DOMAIN rows', NEW j \in DOMAIN rows', rows'[i] \in FileRow, rows'[j] \in FileRow,
             rows'[i].area = rows'[j].area, rows'[i].name = rows'[j].name
      PROVE  i = j
  <2>1. CASE i = k
    BY <1>1, <1>2, <1>3, <2>1
  <2>2. CASE j = k
    BY <1>1, <1>2, <1>3, <2>2
  <2>3. CASE i # k /\ j # k
    BY <1>1, <1>3, <2>3 DEF CatInv
  <2> QED BY <2>1, <2>2, <2>3
<1> QED BY <1>1, <1>3

LEMMA FilingsCount ==
    ASSUME CatInv, NEW b
    PROVE  Cardinality({j \in DOMAIN filed : filed[j].origin = b}) \in Nat
<1>1. Len(filed) \in Nat /\ DOMAIN filed = 1 .. Len(filed)
  BY DEF CatInv
<1>2. IsFiniteSet(1 .. Len(filed))
  BY <1>1, FS_Interval
<1>3. {j \in DOMAIN filed : filed[j].origin = b} \in SUBSET (1 .. Len(filed))
  BY <1>1
<1> QED BY <1>2, <1>3, FS_Subset, FS_CardinalityType

\* What a call may be in the middle of.
LEMMA CallIs ==
    ASSUME CatInv, NEW c \in Caller
    PROVE  /\ calls[c].at = "build" => calls[c].file \in FileRow
           /\ calls[c].at = "store" => calls[c].rec \in Filing
           /\ calls[c].at = "link" => calls[c].rec \in Nat /\ calls[c].row \in Nat
           /\ calls[c].at = "build" => calls[c].row \in Nat
           /\ calls[c].at = "store" => calls[c].row \in Nat
           /\ calls[c].at = "reread" => calls[c].area \in Area /\ calls[c].name \in FileName
BY DEF CatInv, Call, Free

LEMMA DescribeKeeps ==
    ASSUME CatInv, NEW c \in Caller, NEW a \in Area, NEW n \in FileName, NEW t \in Text, NEW u, NEW s,
           Describe(c, a, n, t, u, s)
    PROVE  CatInv'
<1> DEFINE k == GetFile(a, n)
           f == Described(rows[k], t)
<1>1. k \in DOMAIN rows /\ rows[k] \in FileRow
  BY NameFinds DEF Describe
<1>2. rows' = [rows EXCEPT ![k] = f]
  BY DEF Describe
<1>3. f \in FileRow /\ f.area = rows[k].area /\ f.name = rows[k].name
  BY <1>1 DEF Described, FileRow, NoRecord
<1>4. calls' \in [Caller -> Call]
  <2>1. [at |-> "reread", area |-> a, name |-> n] \in Call /\ Free \in Call
    BY DEF Call
  <2> QED BY <2>1 DEF Describe, CatInv
<1> HIDE DEF k, f
<1>5. /\ rows' \in Seq(FileRow \cup {Gone})
      /\ \A i, j \in DOMAIN rows' :
            rows'[i] \in FileRow /\ rows'[j] \in FileRow /\ rows'[i].area = rows'[j].area
            /\ rows'[i].name = rows'[j].name => i = j
  BY <1>1, <1>2, <1>3, RowWritten
<1> QED BY <1>4, <1>5 DEF CatInv, Describe

LEMMA AddKeeps ==
    ASSUME CatInv, NEW c \in Caller, NEW a \in Area, NEW n \in FileName, NEW h \in Content, NEW u \in Uploader,
           AddRow(c, a, n, h, u)
    PROVE  CatInv'
<1> DEFINE f == [area |-> a, name |-> n, hash |-> h, desc |-> NoText, who |-> u, rec |-> NoRecord,
                 at |-> clock]
<1>1. f \in FileRow /\ f.area = a /\ f.name = n
  BY DEF FileRow, NoRecord, CatInv
<1>2. rows' = Append(rows, f) /\ Called(a, n) = {}
  BY DEF AddRow
<1>3. rows \in Seq(FileRow \cup {Gone}) /\ Len(rows) \in Nat
  BY DEF CatInv
<1>4. calls' \in [Caller -> Call]
  <2>1. [at |-> "build", row |-> Len(rows) + 1, file |-> f] \in Call /\ Free \in Call
    BY <1>1, <1>3 DEF Call
  <2>2. calls' = [calls EXCEPT ![c] =
             IF a \in Federated THEN [at |-> "build", row |-> Len(rows) + 1, file |-> f]
             ELSE Free]
    BY DEF AddRow
  <2> QED BY <2>1, <2>2 DEF CatInv
<1> HIDE DEF f
<1>5. /\ rows' \in Seq(FileRow \cup {Gone}) /\ DOMAIN rows' = DOMAIN rows \cup {Len(rows) + 1}
      /\ rows'[Len(rows) + 1] = f /\ \A i \in DOMAIN rows : rows'[i] = rows[i]
  BY <1>1, <1>2, <1>3
<1>6. ASSUME NEW i \in DOMAIN rows, rows[i] \in FileRow, rows[i].area = a, rows[i].name = n
      PROVE  FALSE
  BY <1>2, <1>6, NameFinds
<1>7. ASSUME NEW i \in DOMAIN rows', NEW j \in DOMAIN rows', rows'[i] \in FileRow, rows'[j] \in FileRow,
             rows'[i].area = rows'[j].area, rows'[i].name = rows'[j].name
      PROVE  i = j
  <2>1. CASE i \in DOMAIN rows /\ j \in DOMAIN rows
    BY <1>5, <1>7, <2>1 DEF CatInv
  <2>2. CASE i \in DOMAIN rows /\ j = Len(rows) + 1
    BY <1>1, <1>5, <1>6, <1>7, <2>2
  <2>3. CASE j \in DOMAIN rows /\ i = Len(rows) + 1
    BY <1>1, <1>5, <1>6, <1>7, <2>3
  <2> QED BY <1>5, <2>1, <2>2, <2>3
<1> QED BY <1>4, <1>5, <1>7 DEF CatInv, AddRow

LEMMA CallSteps ==
    ASSUME CatInv, NEW c \in Caller,
           Reread(c) \/ Build(c) \/ PutFileRecord(c) \/ SetFileRecord(c) \/ AnnounceFails(c)
    PROVE  CatInv'
<1>1. calls \in [Caller -> Call] /\ filed \in Seq(Filing) /\ numbers \in [Area -> Nat] /\ clock \in Nat
      /\ Free \in Call
  BY DEF CatInv, Call
<1>2. CASE Reread(c)
  <2> DEFINE a == calls[c].area
             n == calls[c].name
             i == GetFile(a, n)
  <2>1. a \in Area /\ n \in FileName
    BY <1>2, CallIs DEF Reread
  <2>2. Called(a, n) # {} => i \in DOMAIN rows /\ rows[i] \in FileRow /\ i \in Nat
    BY <2>1, NameFinds DEF CatInv
  <2>3. calls' = [calls EXCEPT ![c] =
           IF Called(a, n) = {} THEN Free ELSE [at |-> "build", row |-> i, file |-> rows[i]]]
    BY <1>2 DEF Reread
  <2> HIDE DEF i
  <2>4. Called(a, n) # {} => [at |-> "build", row |-> i, file |-> rows[i]] \in Call
    BY <2>2 DEF Call
  <2>5. calls' \in [Caller -> Call]
    BY <1>1, <2>3, <2>4
  <2> QED BY <1>2, <2>5 DEF CatInv, Reread
<1>3. CASE Build(c)
  <2> DEFINE f == calls[c].file
             w == calls[c].row
             s == numbers[f.area] + 1
             r == NewFileRecord(f, s)
             k == [at |-> "store", row |-> w, rec |-> r]
  <2>1. f \in FileRow /\ w \in Nat
    BY <1>3, CallIs DEF Build
  <2>2. numbers[f.area] \in Nat /\ s \in Nat
    BY <1>1, <2>1 DEF FileRow
  <2>3. r \in Filing
    <3>1. f.area \in Area /\ f.name \in FileName /\ f.hash \in Content /\ f.desc \in Text \cup {NoText}
      BY <2>1 DEF FileRow
    <3>2. Truncate[f.hash] \in Hashes /\ Here \in Board
      BY <3>1, CatalogAssumption DEF Hashes
    <3> HIDE DEF f, s
    <3> QED BY <1>1, <2>2, <3>1, <3>2 DEF NewFileRecord, Filing
  <2>4. numbers' = [numbers EXCEPT ![f.area] = numbers[f.area] + 1] /\ calls' = [calls EXCEPT ![c] = k]
    BY <1>3 DEF Build
  <2> HIDE DEF f, r, w
  <2>5. k \in Call
    <3>1. k \in [at : {"store"}, row : Nat, rec : Filing]
      BY <2>1, <2>3
    <3> HIDE DEF k
    <3> QED BY <3>1 DEF Call
  <2> HIDE DEF k
  <2>6. numbers' \in [Area -> Nat] /\ calls' \in [Caller -> Call]
    BY <1>1, <2>2, <2>4, <2>5
  <2> QED BY <1>3, <2>6 DEF CatInv, Build
<1>4. CASE PutFileRecord(c)
  <2>1. calls[c].rec \in Filing /\ calls[c].row \in Nat /\ Len(filed) + 1 \in Nat
    BY <1>1, <1>4, CallIs DEF PutFileRecord
  <2>2. [at |-> "link", row |-> calls[c].row, rec |-> Len(filed) + 1] \in Call
    BY <2>1 DEF Call
  <2>3. calls' \in [Caller -> Call] /\ filed' \in Seq(Filing)
    BY <1>1, <1>4, <2>1, <2>2 DEF PutFileRecord
  <2> QED BY <1>4, <2>3 DEF CatInv, PutFileRecord
<1>5. CASE SetFileRecord(c)
  <2> DEFINE k == calls[c].row
             f == IF rows[k] = Gone THEN rows[k] ELSE [rows[k] EXCEPT !.rec = calls[c].rec]
  <2>1. rows' = [rows EXCEPT ![k] = f] /\ calls' = [calls EXCEPT ![c] = Free]
    BY <1>5 DEF SetFileRecord
  <2>2. calls[c].rec \in Nat
    BY <1>5, CallIs DEF SetFileRecord
  <2>3. calls' \in [Caller -> Call]
    BY <1>1, <2>1
  <2>4. CASE k \in DOMAIN rows
    <3>1. rows \in Seq(FileRow \cup {Gone})
      BY DEF CatInv
    <3>2. rows[k] = Gone \/ rows[k] \in FileRow
      BY <2>4, <3>1
    <3>3. f = Gone \/ (rows[k] \in FileRow /\ f \in FileRow /\ f.area = rows[k].area /\ f.name = rows[k].name)
      BY <2>2, <3>2 DEF FileRow
    <3> HIDE DEF k, f
    <3>4. /\ rows' \in Seq(FileRow \cup {Gone})
          /\ \A i, j \in DOMAIN rows' :
                rows'[i] \in FileRow /\ rows'[j] \in FileRow /\ rows'[i].area = rows'[j].area
                /\ rows'[i].name = rows'[j].name => i = j
      BY <2>1, <2>4, <3>3, RowWritten
    <3> QED BY <1>5, <2>3, <3>4 DEF CatInv, SetFileRecord
  <2>5. CASE k \notin DOMAIN rows
    <3> HIDE DEF f, k
    <3>1. rows \in Seq(FileRow \cup {Gone})
      BY DEF CatInv
    <3>2. [rows EXCEPT ![k] = f] = rows
      BY <2>5, <3>1
    <3>4. rows' = rows
      BY <2>1, <3>2
    <3>5. /\ rows' \in Seq(FileRow \cup {Gone})
          /\ \A i, j \in DOMAIN rows' :
                rows'[i] \in FileRow /\ rows'[j] \in FileRow /\ rows'[i].area = rows'[j].area
                /\ rows'[i].name = rows'[j].name => i = j
      BY <3>4 DEF CatInv
    <3> QED BY <1>5, <2>3, <3>5 DEF CatInv, SetFileRecord
  <2> QED BY <2>4, <2>5
<1>6. CASE AnnounceFails(c)
  <2>1. calls' \in [Caller -> Call]
    BY <1>1, <1>6 DEF AnnounceFails
  <2> QED BY <1>6, <2>1 DEF CatInv, AnnounceFails
<1> QED BY <1>2, <1>3, <1>4, <1>5, <1>6

LEMMA PeerKeeps ==
    ASSUME CatInv, NEW b \in Board, NEW a \in Area, NEW n \in FileName, NEW h \in Content, NEW ts \in 1..MaxClock,
           PeerAnnounces(b, a, n, h, ts)
    PROVE  CatInv'
<1> DEFINE k == Cardinality({j \in DOMAIN filed : filed[j].origin = b})
           r == [origin |-> b, area |-> a, name |-> n, hash |-> Truncate[h], desc |-> NoText,
                 ts |-> ts, seq |-> 1 + k]
<1>1. k \in Nat /\ ts \in Nat
  <2>1. ts \in Nat
    <3>1. MaxClock \in Nat
      BY CatalogAssumption
    <3> QED BY <3>1
  <2>2. k \in Nat
    BY FilingsCount, Zenon
  <2> QED BY <2>1, <2>2
<1>2. filed' = Append(filed, r)
  BY DEF PeerAnnounces
<1> HIDE DEF k
<1>3. r \in Filing
  BY <1>1 DEF Filing, Hashes
<1> HIDE DEF r
<1>4. filed' \in Seq(Filing)
  BY <1>2, <1>3 DEF CatInv
<1> QED BY <1>4 DEF CatInv, PeerAnnounces

LEMMA WorldSteps ==
    ASSUME CatInv,
           \/ \E a, b \in Area, n, m \in FileName : Rename(a, n, b, m)
           \/ \E a \in Area, n \in FileName : RemoveRow(a, n) \/ RequestByName(a, n)
           \/ \E b \in Board, a \in Area, n \in FileName, h \in Content, ts \in 1..MaxClock :
                PeerAnnounces(b, a, n, h, ts)
           \/ SecondPasses
    PROVE  CatInv'
<1>1. ASSUME NEW a \in Area, NEW b \in Area, NEW n \in FileName, NEW m \in FileName, Rename(a, n, b, m)
      PROVE  CatInv'
  <2> DEFINE k == GetFile(a, n)
             f == [rows[k] EXCEPT !.area = b, !.name = m, !.rec = NoRecord]
  <2>1. k \in DOMAIN rows /\ rows[k] \in FileRow /\ Called(b, m) = {} /\ rows' = [rows EXCEPT ![k] = f]
    BY <1>1, NameFinds DEF Rename
  <2> HIDE DEF k
  <2>2. f \in FileRow /\ f.area = b /\ f.name = m
    BY <2>1 DEF FileRow, NoRecord
  <2> HIDE DEF f
  <2>3. /\ rows' \in Seq(FileRow \cup {Gone})
        /\ \A i, j \in DOMAIN rows' :
              rows'[i] \in FileRow /\ rows'[j] \in FileRow /\ rows'[i].area = rows'[j].area
              /\ rows'[i].name = rows'[j].name => i = j
    BY <2>1, <2>2, RowWritten
  <2> QED BY <1>1, <2>3 DEF CatInv, Rename
<1>2. ASSUME NEW a \in Area, NEW n \in FileName, RemoveRow(a, n) PROVE CatInv'
  <2> DEFINE k == GetFile(a, n)
  <2>1. k \in DOMAIN rows /\ rows' = [rows EXCEPT ![k] = Gone]
    BY <1>2, NameFinds DEF RemoveRow
  <2> HIDE DEF k
  <2>2. /\ rows' \in Seq(FileRow \cup {Gone})
        /\ \A i, j \in DOMAIN rows' :
              rows'[i] \in FileRow /\ rows'[j] \in FileRow /\ rows'[i].area = rows'[j].area
              /\ rows'[i].name = rows'[j].name => i = j
    BY <2>1, RowWritten
  <2> QED BY <1>2, <2>2 DEF CatInv, RemoveRow
<1>3. ASSUME NEW a \in Area, NEW n \in FileName, RequestByName(a, n) PROVE CatInv'
  BY <1>3 DEF CatInv, RequestByName
<1>4. ASSUME NEW b \in Board, NEW a \in Area, NEW n \in FileName, NEW h \in Content, NEW ts \in 1..MaxClock,
             PeerAnnounces(b, a, n, h, ts)
      PROVE  CatInv'
  BY <1>4, PeerKeeps, Zenon
<1>5. CASE SecondPasses
  BY <1>5 DEF CatInv, SecondPasses
<1> QED BY <1>1, <1>2, <1>3, <1>4, <1>5

LEMMA CatSteps == CatInv /\ [CatNext]_catVars => CatInv'
<1> SUFFICES ASSUME CatInv, [CatNext]_catVars PROVE CatInv'
  OBVIOUS
<1>1. ASSUME NEW c \in Caller, NEW a \in Area, NEW n \in FileName,
             \/ \E h \in Content, u \in Uploader : AddRow(c, a, n, h, u)
             \/ \E t \in Text, u \in Uploader : Describe(c, a, n, t, u, FALSE)
             \/ \E t \in Text : Describe(c, a, n, t, "", TRUE)
      PROVE  CatInv'
  BY <1>1, AddKeeps, DescribeKeeps
<1>2. ASSUME NEW c \in Caller, 
             Reread(c) \/ Build(c) \/ PutFileRecord(c) \/ SetFileRecord(c) \/ AnnounceFails(c)
      PROVE  CatInv'
  BY <1>2, CallSteps
<1>3. CASE UNCHANGED catVars
  BY <1>3 DEF CatInv, catVars
<1> QED BY <1>1, <1>2, <1>3, WorldSteps DEF CatNext

\* The records of an area have an order, so any of them have a last one.
LEMMA LastIs ==
    ASSUME CatInv, NEW S \in SUBSET DOMAIN filed, S # {}
    PROVE  LastOf(S) \in S
<1> DEFINE Has(T) == \E i \in T : \A j \in T \ {i} : Before(j, i)
           Fails(n) == \E T \in SUBSET (1 .. n) : T \subseteq DOMAIN filed /\ T # {} /\ ~Has(T)
           N == {n \in Nat : Fails(n)}
<1>1. DOMAIN filed = 1 .. Len(filed) /\ Len(filed) \in Nat
      /\ \A i \in DOMAIN filed : filed[i].ts \in Nat /\ filed[i].seq \in Nat /\ i \in Nat
  <2>1. filed \in Seq(Filing)
    BY DEF CatInv
  <2>2. \A i \in DOMAIN filed : filed[i] \in Filing
    BY <2>1
  <2> QED BY <2>1, <2>2 DEF Filing
<1>2. \A i, j \in DOMAIN filed : i # j => Before(i, j) \/ Before(j, i)
  BY <1>1 DEF Before
<1>3. \A i, j, k \in DOMAIN filed : Before(i, j) /\ Before(j, k) => Before(i, k)
  BY <1>1 DEF Before
<1>4. N = {}
  <2> SUFFICES ASSUME N # {} PROVE FALSE
    OBVIOUS
  <2>1. PICK n \in N : \A m \in N : n =< m
    <3> HIDE DEF N
    <3>1. N \in SUBSET Nat
      BY DEF N
    <3> QED BY <3>1, LeastOf
  <2>2. PICK T \in SUBSET (1 .. n) : T \subseteq DOMAIN filed /\ T # {} /\ ~Has(T)
    BY <2>1
  <2>3. n \in Nat /\ n # 0
    <3>1. n \in Nat
      BY <2>1
    <3>2. n # 0
      <4>1. n = 0 => 1 .. n = {}
        OBVIOUS
      <4> QED BY <2>2, <4>1
    <3> QED BY <3>1, <3>2
  <2>4. n - 1 \notin N /\ n - 1 \in Nat
    <3>1. ~(n =< n - 1) /\ n - 1 \in Nat
      BY <2>3
    <3> HIDE DEF N
    <3> QED BY <2>1, <3>1
  <2>5. T \ {n} \in SUBSET (1 .. n - 1) /\ T \ {n} \subseteq DOMAIN filed
    BY <2>2, <2>3
  <2>6. T \ {n} # {} => Has(T \ {n})
    BY <2>4, <2>5
  <2>7. n \in T
    <3> SUFFICES ASSUME n \notin T PROVE FALSE
      OBVIOUS
    <3>1. T \ {n} = T
      OBVIOUS
    <3> QED BY <2>2, <2>6, <3>1
  <2>8. CASE T \ {n} = {}
    BY <2>2, <2>7, <2>8
  <2>9. CASE T \ {n} # {}
    <3>1. PICK m \in T \ {n} : \A j \in (T \ {n}) \ {m} : Before(j, m)
      BY <2>6, <2>9
    <3>2. CASE Before(m, n)
      <4>1. \A j \in T \ {n} : Before(j, n)
        BY <1>3, <2>2, <2>7, <3>1, <3>2
      <4> QED BY <2>2, <2>7, <4>1
    <3>3. CASE Before(n, m)
      <4>1. \A j \in T \ {m} : Before(j, m)
        BY <3>1, <3>3
      <4> QED BY <2>2, <3>1, <4>1
    <3> QED BY <1>2, <2>2, <2>7, <3>1, <3>2, <3>3
  <2> QED BY <2>8, <2>9
<1>5. Has(S)
  BY <1>1, <1>4
<1> QED BY <1>5 DEF LastOf

LEMMA CatHolds == CatInv => FilesAreShown
<1> SUFFICES ASSUME CatInv, NEW a \in Area, NEW f \in ListFiles(a)
             PROVE  /\ f.name \in Filelist(a) /\ Truncate[Fileread(a, f.name)] = Truncate[f.hash]
                    /\ \E e \in Offered(a) :
                         /\ e.name = f.name /\ e.hash = Truncate[f.hash]
                         /\ \/ MayDescribe(e, f.who, FALSE)
                            \/ \A i \in Same(a, f) : filed[i].origin # Here
  BY DEF FilesAreShown
<1>1. PICK k \in Rows(a) : f = rows[k]
  BY DEF ListFiles
<1>2. k \in DOMAIN rows /\ f.area = a /\ k \in Called(a, f.name)
  BY <1>1 DEF Rows, Called
<1>3. f \in FileRow
  BY <1>1, <1>2, NameFinds
<1>4. \A j \in DOMAIN rows : rows[j] \in FileRow /\ rows[j].area = a /\ rows[j].name = f.name => j = k
  BY <1>1, <1>2, <1>3 DEF CatInv
<1>5. GetFile(a, f.name) = k
  BY <1>2, <1>4, NameFinds
<1>6. f.name \in Filelist(a)
  BY DEF Filelist
<1>7. Truncate[Fileread(a, f.name)] = Truncate[f.hash]
  BY <1>1, <1>2, <1>5 DEF Fileread
<1>8. HoldsBlob(Truncate[f.hash])
  BY DEF HoldsBlob
<1>9. f.who # ""
  BY <1>3, CatalogAssumption DEF FileRow
<1>10. CASE Same(a, f) = {}
  <2> DEFINE e == Unannounced(a, f)
  <2>1. e \in Contents(a)
    BY <1>10 DEF Contents
  <2>2. e.held /\ e.name = f.name /\ e.hash = Truncate[f.hash] /\ e.local /\ e.who = f.who
    BY DEF Unannounced
  <2> HIDE DEF e
  <2> QED BY <1>6, <1>7, <1>10, <2>1, <2>2 DEF Offered
<1>11. CASE Same(a, f) # {}
  <2> DEFINE own == {j \in Same(a, f) : filed[j].origin = Here}
             i == Carries(Same(a, f))
             e == CatalogEntry(a, i)
  <2>1. Same(a, f) \in SUBSET DOMAIN filed /\ own \in SUBSET DOMAIN filed
    BY DEF Same, Announced
  <2>2. i \in Same(a, f) /\ (own # {} => i \in own)
    BY <1>11, <2>1, LastIs DEF Carries
  <2> HIDE DEF i
  <2>3. i \in Announced(a) /\ filed[i].name = f.name /\ filed[i].hash = Truncate[f.hash]
    BY <2>2 DEF Same
  <2>4. e \in Contents(a)
    BY <2>3 DEF Contents
  <2>5. e.held = HoldsBlob(filed[i].hash) /\ e.name = filed[i].name /\ e.hash = filed[i].hash
        /\ e.local = (filed[i].origin = Here)
        /\ e.who = IF Folded(a, i) = {} THEN "" ELSE (CHOOSE g \in Folded(a, i) : TRUE).who
    BY DEF CatalogEntry
  <2>6. f \in Folded(a, i)
    BY <1>11 DEF Folded, i
  <2>7. ASSUME NEW g \in Folded(a, i) PROVE g = f
    <3>1. PICK j \in Rows(a) : g = rows[j]
      BY DEF Folded, ListFiles
    <3>2. i \in Same(a, g)
      <4>1. Same(a, g) # {} /\ Carries(Same(a, g)) = i
        BY DEF Folded
      <4>2. Same(a, g) \in SUBSET DOMAIN filed
        BY DEF Same, Announced
      <4> QED BY <4>1, <4>2, LastIs DEF Carries
    <3>3. g.name = f.name
      BY <2>3, <3>2 DEF Same
    <3>4. j \in DOMAIN rows /\ j \in Called(a, f.name)
      BY <3>1, <3>3 DEF Rows, Called
    <3>5. rows[j] \in FileRow /\ rows[j].area = a /\ rows[j].name = f.name
      BY <3>4, NameFinds
    <3> QED BY <1>1, <1>4, <3>1, <3>4, <3>5
  <2>8. (CHOOSE g \in Folded(a, i) : TRUE) = f
    BY <2>6, <2>7
  <2>9. e.who = f.who
    BY <2>5, <2>6, <2>8
  <2> HIDE DEF e
  <2>10. own # {} => MayDescribe(e, f.who, FALSE)
    BY <1>9, <2>2, <2>5, <2>9 DEF MayDescribe, MayDescribeFile
  <2>11. own = {} => \A j \in Same(a, f) : filed[j].origin # Here
    OBVIOUS
  <2>12. e \in Offered(a)
    BY <1>8, <2>3, <2>4, <2>5 DEF Offered
  <2> QED BY <1>6, <1>7, <2>3, <2>5, <2>10, <2>11, <2>12
<1> QED BY <1>10, <1>11

(***************************************************************************)
(* Settings: what is loaded was judged after the last layer.               *)
(***************************************************************************)
\* A layer holds, for each key it sets, something that can be written for it.
LayerOf(layer) == \A k \in DOMAIN layer : layer[k] \in Written(k)

ConfOf(c) == DOMAIN c = Key /\ \A k \in Key : c[k] \in Written(k) \cup {Default[k]}

\* What stands in a file parsed is what was loaded: the last command's settings
\* are of their keys and were judged together.
Judged(c) == ConfOf(c) /\ Validate(c) /\ \A k \in Typed : c[k] # "junk"

\* What is set holds, the environment's before the file's.
Follows(c, set, env) ==
    \A k \in Key :
       /\ k \in DOMAIN env => c[k] = env[k]
       /\ k \in DOMAIN set \ DOMAIN env => c[k] = set[k]

LastIsJudged == \A c : c = last.conf => Judged(c)

SettingsInv ==
    /\ LayerOf(shell) /\ DOMAIN onDisk = Dir /\ \A d \in Dir : LayerOf(onDisk[d].set)
    /\ LastIsJudged /\ LaterLayersWin

\* The directory is spelled as it is, and no variable names another.
Plainly == /\ "data_dir" \notin Touched /\ "" \notin Dir /\ Home \in Dir
           /\ \A s \in Spelling : s \in Dir /\ ExpandPath[s] = s

HomeOf(flag) == IF flag = "" THEN Home ELSE flag

HomeInv ==
    /\ "data_dir" \notin DOMAIN shell
    /\ \A d \in Dir : "data_dir" \notin DOMAIN onDisk[d].set
    /\ \A m \in made : m.dir = HomeOf(m.flag) /\ m.dir \in Dir /\ onDisk[m.dir].there
    /\ HomeIsFound

LEMMA KeysAre ==
    /\ Typed \subseteq Key /\ InitFlags \subseteq Key /\ "data_dir" \in Key \ Typed
    /\ Always \subseteq Key /\ OfMesh \subseteq Key /\ OfWeb \subseteq Key /\ "environment" \in Always
    /\ "data_dir" \notin InitFlags
    /\ {"mode", "tcp_host", "bind", "tls_cert", "tls_key", "mesh", "web", "telnet"} \subseteq Key
    /\ {"ssh_port", "telnet_port"} \subseteq Key
BY DEF Typed, Key, Plain, Always, OfTelnet, OfMesh, OfWeb, Enables, InitFlags

LEMMA WrittenAre ==
    /\ Written("mode") = {"auto", "tcp", "bad"} /\ Written("tcp_host") = {"", "set"}
    /\ Written("bind") = {"any", "loopback"}
    /\ Written("tls_cert") = {"", "set"} /\ Written("tls_key") = {"", "set"}
    /\ \A k \in InitFlags : "junk" \notin Written(k)
BY DEF Written, Typed, Plain, Always, OfTelnet, OfMesh, OfWeb, Enables, InitFlags

LEMMA DefaultsAre ==
    /\ DOMAIN Default = Key /\ Default["data_dir"] = "" 
    /\ \A k \in Typed : Default[k] # "junk"
    /\ \A k \in InitFlags : Default[k] \in Written(k)
    /\ \A k \in {"mode", "bind", "tcp_host", "tls_cert", "tls_key"} : Default[k] \in Written(k)
<1>1. \A k \in Key : Default[k] # "junk" /\ (k = "data_dir" => Default[k] = "")
  BY DEF Default, Plain, Always, OfTelnet, OfMesh, OfWeb, Enables
<1>2. \A k \in InitFlags : Default[k] \in Written(k)
  <2>1. Default["environment"] = "production" /\ "production" \in Written("environment")
    <3>1. Default["environment"] = "production"
      BY KeysAre DEF Default, Enables
    <3>2. "production" \in Written("environment")
      BY DEF Written, Enables
    <3> QED BY <3>1, <3>2
  <2>2. \A k \in {"display_name", "level"} :
          k \in Plain /\ k \in Key /\ k # "environment" /\ k # "origin" /\ k \notin Enables
    BY DEF Key, Plain, Always, Enables
  <2>3. \A k \in {"display_name", "level"} : Default[k] = "good"
    BY <2>2 DEF Default
  <2>4. \A k \in {"display_name", "level"} : "good" \in Written(k)
    BY <2>2 DEF Written
  <2> QED BY <2>1, <2>3, <2>4 DEF InitFlags
<1>3. \A k \in {"mode", "bind", "tcp_host", "tls_cert", "tls_key"} : Default[k] \in Written(k)
  <2>1. \A k \in {"mode", "bind", "tcp_host", "tls_cert", "tls_key"} :
          /\ k \in Key /\ k \notin Plain /\ k \notin Enables
          /\ k \notin {"environment", "origin", "ssh_port", "telnet_port", "theme"}
    BY DEF Key, Plain, Always, OfTelnet, OfMesh, OfWeb, Enables
  <2>2. Default["mode"] = "auto"
    BY <2>1 DEF Default
  <2>3. Default["bind"] = "any"
    BY <2>1 DEF Default
  <2>4. \A k \in {"tcp_host", "tls_cert", "tls_key"} : Default[k] = ""
    BY <2>1 DEF Default
  <2> QED BY <2>2, <2>3, <2>4, WrittenAre
<1> QED BY <1>1, <1>2, <1>3, KeysAre DEF Default

LEMMA JudgedIsSound == ASSUME LastIsJudged PROVE UsesAreSound
<1> DEFINE c == last.conf
<1>0. Judged(c)
  BY DEF LastIsJudged
<1> HIDE DEF c
<1>1. /\ AlwaysProblems(c) = {}
      /\ c["telnet"] = "true" => TelnetProblems(c) = {}
      /\ c["mesh"] = "true" => MeshProblems(c) = {}
      /\ c["web"] = "true" => WebProblems(c) = {}
  BY <1>0 DEF Judged, Validate, Problems
<1>2. \A k \in {"mode", "bind", "tcp_host", "tls_cert", "tls_key"} : c[k] \in Written(k)
  BY <1>0, DefaultsAre, KeysAre DEF Judged, ConfOf
<1>3. \A k \in Always : c[k] # "bad"
  BY <1>1 DEF AlwaysProblems
<1>4. c["mesh"] = "true" => /\ \A k \in OfMesh : c[k] # "bad"
                            /\ c["mode"] = "auto" \/ (c["mode"] = "tcp" /\ c["tcp_host"] # "")
  BY <1>1, <1>2, WrittenAre DEF MeshProblems
<1>5. c["web"] = "true" => /\ \A k \in OfWeb : c[k] # "bad"
                           /\ c["bind"] = "any" => c["tls_cert"] = "set"
                           /\ c["tls_cert"] = c["tls_key"]
  BY <1>1, <1>2, WrittenAre DEF WebProblems
<1>6. c["telnet"] = "true" => c["telnet_port"] \notin {"0", c["ssh_port"]}
  BY <1>1 DEF TelnetProblems
<1> QED BY <1>3, <1>4, <1>5, <1>6, <1>0 DEF UsesAreSound, Judged, c

\* One layer over another is a layer's, or the one below it.
LEMMA OverOf ==
    ASSUME NEW c, NEW layer, ConfOf(c), LayerOf(layer)
    PROVE  ConfOf(Over(c, layer))
BY DEF ConfOf, LayerOf, Over

\* What Load returns.
LEMMA LoadedIs ==
    ASSUME NEW file, NEW env, LayerOf(file.set), LayerOf(env), NEW c \in Loaded(file, env)
    PROVE  /\ Judged(c)
           /\ "data_dir" \notin DOMAIN env \cup DOMAIN file.set => c["data_dir"] = ""
           /\ Follows(c, file.set, env)
<1>1. /\ c = Over(Over(Default, file.set), env) /\ Validate(c)
      /\ Parses(file.set) /\ Parses(env)
  BY DEF Loaded
<1>2. ConfOf(Default)
  BY DefaultsAre DEF ConfOf
<1>3. ConfOf(c)
  BY <1>1, <1>2, OverOf
<1>4. \A k \in Key : c[k] = IF k \in DOMAIN env THEN env[k]
                            ELSE IF k \in DOMAIN file.set THEN file.set[k] ELSE Default[k]
  BY <1>1 DEF Over
<1>5. \A k \in Typed : c[k] # "junk"
  BY <1>1, <1>4, DefaultsAre, KeysAre DEF Parses
<1>6. "data_dir" \notin DOMAIN env \cup DOMAIN file.set => c["data_dir"] = ""
  BY <1>4, DefaultsAre, KeysAre
<1>7. Follows(c, file.set, env)
  BY <1>4 DEF Follows
<1> QED BY <1>1, <1>3, <1>5, <1>6, <1>7 DEF Judged

LEMMA NothingSet == DOMAIN NoFile.set = {} /\ ~NoFile.there /\ DOMAIN << >> = {}
BY DEF NoFile

\* What a command starts with.
LEMMA StartedIs ==
    ASSUME SettingsInv, NEW cmd, NEW flag, NEW confFlag, confFlag = "" \/ confFlag \in Dir,
           NEW s \in Started(cmd, flag, confFlag)
    PROVE  /\ s = [cmd |-> cmd, flag |-> flag, given |-> confFlag, path |-> Found(flag, confFlag),
                   dir |-> DataDir(s.conf, flag), conf |-> s.conf, layers |-> s.layers, port |-> ""]
           /\ Judged(s.conf)
           /\ Follows(s.conf, s.layers.file, s.layers.env)
           /\ HomeInv => s.conf["data_dir"] = ""
<1> DEFINE path == Found(flag, confFlag)
           file == IF path = "" THEN NoFile ELSE onDisk[path]
<1>1. PICK c \in Loaded(file, shell) :
        s = [cmd |-> cmd, flag |-> flag, given |-> confFlag, path |-> path,
             dir |-> DataDir(c, flag), conf |-> c,
             layers |-> [file |-> file.set, env |-> shell], port |-> ""]
  BY DEF Started
<1>2. path = "" \/ path \in Dir
  BY DEF Found
<1>3. LayerOf(file.set) /\ LayerOf(shell)
  <2>1. CASE path = ""
    BY <2>1, NothingSet DEF SettingsInv, LayerOf
  <2>2. CASE path # "" /\ path \in Dir
    BY <2>2 DEF SettingsInv
  <2> QED BY <1>2, <2>1, <2>2
<1>4. HomeInv => "data_dir" \notin DOMAIN shell \cup DOMAIN file.set
  <2>1. CASE path = ""
    BY <2>1, NothingSet DEF HomeInv
  <2>2. CASE path # "" /\ path \in Dir
    BY <2>2 DEF HomeInv
  <2> QED BY <1>2, <2>1, <2>2
<1> HIDE DEF path, file
<1>5. /\ s.cmd = cmd /\ s.flag = flag /\ s.given = confFlag /\ s.path = path /\ s.conf = c
      /\ s.dir = DataDir(c, flag) /\ s.layers.file = file.set /\ s.layers.env = shell
      /\ s.layers = [file |-> file.set, env |-> shell]
  BY <1>1
<1>6. s = [cmd |-> cmd, flag |-> flag, given |-> confFlag, path |-> path,
           dir |-> DataDir(s.conf, flag), conf |-> s.conf, layers |-> s.layers, port |-> ""]
  BY <1>1, <1>5
<1>7. /\ Judged(c)
      /\ HomeInv => c["data_dir"] = ""
      /\ Follows(c, file.set, shell)
  <2>1. c \in Loaded(file, shell)
    BY <1>1 DEF file
  <2>2. Judged(c)
    BY <2>1, <1>3, LoadedIs
  <2>3. "data_dir" \notin DOMAIN shell \cup DOMAIN file.set => c["data_dir"] = ""
    BY <2>1, <1>3, LoadedIs
  <2>4. Follows(c, file.set, shell)
    BY <2>1, <1>3, LoadedIs
  <2> QED BY <1>4, <2>2, <2>3, <2>4
<1> QED BY <1>5, <1>6, <1>7 DEF path

LEMMA StartedAt ==
    ASSUME NEW cmd, NEW flag, NEW confFlag, NEW s \in Started(cmd, flag, confFlag)
    PROVE  \E c, l : s = [cmd |-> cmd, flag |-> flag, given |-> confFlag,
                          path |-> Found(flag, confFlag), dir |-> DataDir(c, flag),
                          conf |-> c, layers |-> l, port |-> ""]
BY Zenon DEF Started

LEMMA SettingsStart == SetInit => SettingsInv
<1> SUFFICES ASSUME SetInit PROVE SettingsInv
  OBVIOUS
<1>1. LayerOf(shell)
  <2>1. CASE shell = << >>
    BY <2>1, NothingSet DEF LayerOf
  <2>2. ASSUME NEW k \in Touched, shell \in [{k} -> Written(k)] PROVE LayerOf(shell)
    BY <2>2 DEF LayerOf
  <2> QED BY <2>1, <2>2 DEF SetInit
<1>2. DOMAIN onDisk = Dir /\ \A d \in Dir : LayerOf(onDisk[d].set)
  BY NothingSet DEF SetInit, LayerOf
<1>3. Validate(Default)
  <2>1. \A k \in Enables : k \in Key /\ k \notin Plain /\ k # "environment" /\ k # "origin"
    BY DEF Key, Plain, Always, OfTelnet, OfMesh, OfWeb, Enables
  <2>2. ASSUME NEW k \in Enables PROVE Default[k] = "false"
    <3>1. k \in Key /\ k \notin Plain
      BY <2>1
    <3>2. k \notin {"environment", "origin", "ssh_port", "telnet_port", "mode", "bind", "theme"}
      BY DEF Enables
    <3> QED BY <3>1, <3>2 DEF Default
  <2>3. \A k \in Always : k \in Key /\ k \in Plain /\ k # "origin"
    BY DEF Key, Plain, Always
  <2>4. \A k \in Always : Default[k] # "bad"
    BY <2>3 DEF Default
  <2>5. Default["ssh_port"] = "2222"
    BY KeysAre DEF Default, Plain, Always, OfTelnet, OfMesh, OfWeb, Enables
  <2>6. AlwaysProblems(Default) = {}
    BY <2>4, <2>5 DEF AlwaysProblems
  <2> QED BY <2>2, <2>6 DEF Validate, Problems, Enables
<1>4. LastIsJudged
  BY <1>3, DefaultsAre DEF SetInit, NoCommandYet, LastIsJudged, Judged, ConfOf
<1>5. LaterLayersWin
  BY NothingSet DEF SetInit, NoCommandYet, LaterLayersWin
<1> QED BY <1>1, <1>2, <1>4, <1>5 DEF SettingsInv

LEMMA HomeStarts == ASSUME Plainly, SetInit PROVE HomeInv
<1>1. "data_dir" \notin DOMAIN shell
  <2>1. CASE shell = << >>
    BY <2>1, NothingSet
  <2>2. ASSUME NEW k \in Touched, shell \in [{k} -> Written(k)]
        PROVE  "data_dir" \notin DOMAIN shell
    BY <2>2 DEF Plainly
  <2> QED BY <2>1, <2>2 DEF SetInit
<1> QED BY <1>1, NothingSet DEF SetInit, HomeInv, HomeIsFound

----------------------------------------------------------------------------
(* The steps. *)

LEMMA SameSettings ==
    ASSUME SettingsInv, UNCHANGED <<onDisk, shell, last>>
    PROVE  SettingsInv'
BY DEF SettingsInv, LayerOf, LastIsJudged, LaterLayersWin

\* Another command was loaded.
LEMMA LastIsLoaded ==
    ASSUME SettingsInv, NEW s, Judged(s.conf), last'.conf = s.conf, last'.layers = s.layers,
           Follows(s.conf, s.layers.file, s.layers.env)
    PROVE  (LastIsJudged /\ LaterLayersWin)'
<1>1. LastIsJudged'
  BY DEF LastIsJudged
<1>2. ASSUME NEW k \in Key \ InitFlags
      PROVE  /\ k \in DOMAIN last'.layers.env => last'.conf[k] = last'.layers.env[k]
             /\ k \in DOMAIN last'.layers.file \ DOMAIN last'.layers.env
                  => last'.conf[k] = last'.layers.file[k]
  <2>1. /\ k \in DOMAIN s.layers.env => s.conf[k] = s.layers.env[k]
        /\ k \in DOMAIN s.layers.file \ DOMAIN s.layers.env => s.conf[k] = s.layers.file[k]
    BY Zenon DEF Follows
  <2> QED BY <2>1
<1>3. LaterLayersWin'
  BY <1>2 DEF LaterLayersWin
<1> QED BY <1>1, <1>3

LEMMA FilesStay == ASSUME SettingsInv, UNCHANGED <<onDisk, shell>>
                   PROVE  /\ LayerOf(shell)' /\ (DOMAIN onDisk = Dir)'
                          /\ (\A d \in Dir : LayerOf(onDisk[d].set))'
BY DEF SettingsInv, LayerOf

LEMMA InitKeepsSettings ==
    ASSUME SettingsInv, NEW flag, NEW development \in BOOLEAN, Initialises(flag, development)
    PROVE  SettingsInv'
<1>1. PICK s \in Started("init", flag, "") :
        LET c == IF development THEN [s.conf EXCEPT !["environment"] = "development"] ELSE s.conf
        IN  /\ Validate(c) /\ last' = [s EXCEPT !.conf = c]
            /\ \/ onDisk' = onDisk
               \/ onDisk' = [onDisk EXCEPT ![s.dir] =
                    [set |-> [k \in InitFlags |-> c[k]], unknown |-> FALSE, there |-> TRUE]]
  BY DEF Initialises
<1> DEFINE c == IF development THEN [s.conf EXCEPT !["environment"] = "development"] ELSE s.conf
<1>2. /\ s = [cmd |-> "init", flag |-> flag, given |-> "", path |-> Found(flag, ""),
              dir |-> DataDir(s.conf, flag), conf |-> s.conf, layers |-> s.layers, port |-> ""]
      /\ Judged(s.conf) /\ Follows(s.conf, s.layers.file, s.layers.env)
  BY StartedIs
<1>3. Validate(c) /\ last' = [s EXCEPT !.conf = c]
  BY <1>1
<1>4. /\ DOMAIN c = Key /\ \A k \in Key \ {"environment"} : c[k] = s.conf[k]
      /\ c["environment"] \in {"development", s.conf["environment"]}
  BY <1>2, KeysAre DEF Judged, ConfOf
<1>5. /\ "development" \in Written("environment") /\ Default["environment"] \in Written("environment")
      /\ "environment" \in Key
  BY KeysAre, DefaultsAre DEF Written, Enables, InitFlags
<1>6. Judged(c)
  <2>1. ConfOf(c)
    BY <1>2, <1>4, <1>5 DEF Judged, ConfOf
  <2>2. \A k \in Typed : c[k] # "junk"
    BY <1>2, <1>4, KeysAre DEF Judged
  <2> QED BY <1>3, <2>1, <2>2 DEF Judged
<1> HIDE DEF c
<1>7. last'.conf = c /\ last'.layers = s.layers
  BY <1>2, <1>3
<1>8. LastIsJudged'
  BY <1>6, <1>7 DEF LastIsJudged
<1>9. LaterLayersWin'
  <2>1. ASSUME NEW k \in Key \ InitFlags
        PROVE  /\ k \in DOMAIN last'.layers.env => last'.conf[k] = last'.layers.env[k]
               /\ k \in DOMAIN last'.layers.file \ DOMAIN last'.layers.env
                    => last'.conf[k] = last'.layers.file[k]
    <3>1. c[k] = s.conf[k]
      BY <1>4 DEF InitFlags
    <3>2. /\ k \in DOMAIN s.layers.env => s.conf[k] = s.layers.env[k]
          /\ k \in DOMAIN s.layers.file \ DOMAIN s.layers.env => s.conf[k] = s.layers.file[k]
      BY <1>2, Zenon DEF Follows
    <3> QED BY <3>1, <3>2, <1>7
  <2> QED BY <2>1 DEF LaterLayersWin
<1>10. LayerOf([k \in InitFlags |-> c[k]])
  BY <1>6, DefaultsAre, KeysAre DEF LayerOf, Judged, ConfOf
<1>11. shell' = shell
  BY DEF Initialises
<1>12. (DOMAIN onDisk = Dir)' /\ (\A d \in Dir : LayerOf(onDisk[d].set))'
  <2>1. CASE onDisk' = onDisk
    BY <2>1 DEF SettingsInv, LayerOf
  <2>2. CASE onDisk' = [onDisk EXCEPT ![s.dir] =
                [set |-> [k \in InitFlags |-> c[k]], unknown |-> FALSE, there |-> TRUE]]
    <3>1. DOMAIN onDisk' = Dir
      BY <2>2 DEF SettingsInv
    <3>2. ASSUME NEW d \in Dir PROVE onDisk'[d].set \in {onDisk[d].set, [k \in InitFlags |-> c[k]]}
      BY <2>2 DEF SettingsInv
    <3>3. ASSUME NEW d \in Dir PROVE LayerOf(onDisk'[d].set)
      BY <3>2, <1>10 DEF SettingsInv
    <3> QED BY <3>1, <3>3 DEF LayerOf
  <2> QED BY <2>1, <2>2, <1>1 DEF c
<1>13. LayerOf(shell)'
  BY <1>11 DEF SettingsInv, LayerOf
<1> QED BY <1>8, <1>9, <1>12, <1>13 DEF SettingsInv

\* A file with an edit is still one.
LEMMA EditIs ==
    ASSUME SettingsInv, NEW d \in Dir, EditsConfig(d)
    PROVE  \E e : /\ onDisk' = [onDisk EXCEPT ![d] = e] /\ LayerOf(e.set) /\ e.there
                  /\ "data_dir" \notin DOMAIN onDisk[d].set => "data_dir" \notin DOMAIN e.set
<1>1. CASE \E k \in Touched \ {"data_dir"} : \E v \in Written(k) :
             onDisk' = [onDisk EXCEPT
                ![d].set = [x \in DOMAIN @ \cup {k} |-> IF x = k THEN v ELSE @[x]],
                ![d].there = TRUE]
  <2>1. PICK k \in Touched \ {"data_dir"} : \E v \in Written(k) :
          onDisk' = [onDisk EXCEPT
             ![d].set = [x \in DOMAIN @ \cup {k} |-> IF x = k THEN v ELSE @[x]],
             ![d].there = TRUE]
    BY <1>1
  <2>2. PICK v \in Written(k) :
          onDisk' = [onDisk EXCEPT
             ![d].set = [x \in DOMAIN @ \cup {k} |-> IF x = k THEN v ELSE @[x]],
             ![d].there = TRUE]
    BY <2>1
  <2> DEFINE old == onDisk[d].set
             new == [x \in DOMAIN old \cup {k} |-> IF x = k THEN v ELSE old[x]]
             e == [[onDisk[d] EXCEPT !.set = new] EXCEPT !.there = TRUE]
  <2>3. LayerOf(new) /\ ("data_dir" \notin DOMAIN old => "data_dir" \notin DOMAIN new)
    BY DEF SettingsInv, LayerOf
  <2>4. onDisk' = [onDisk EXCEPT ![d] = e]
    BY <2>2
  <2>5. e.set = new /\ e.there
    BY DEF SettingsInv
  <2> HIDE DEF new, e
  <2> QED BY <2>3, <2>4, <2>5
<1>2. CASE onDisk' = [onDisk EXCEPT ![d].unknown = ~@, ![d].there = TRUE]
  <2> DEFINE e == [[onDisk[d] EXCEPT !.unknown = ~@] EXCEPT !.there = TRUE]
  <2>1. onDisk' = [onDisk EXCEPT ![d] = e]
    BY <1>2
  <2>2. e.set = onDisk[d].set /\ e.there
    BY DEF SettingsInv
  <2> HIDE DEF e
  <2> QED BY <2>1, <2>2 DEF SettingsInv
<1> QED BY <1>1, <1>2 DEF EditsConfig

LEMMA EditKeepsSettings ==
    ASSUME SettingsInv, NEW d \in Dir, EditsConfig(d)
    PROVE  SettingsInv'
<1>1. last' = last /\ shell' = shell
  BY DEF EditsConfig
<1>2. PICK e : onDisk' = [onDisk EXCEPT ![d] = e] /\ LayerOf(e.set)
  BY EditIs
<1> QED BY <1>1, <1>2 DEF SettingsInv, LayerOf, LastIsJudged, LaterLayersWin

\* The commands that load their settings and run with them, or say why not.
LEMMA RunKeepsSettings ==
    ASSUME SettingsInv, NEW cmd, NEW flag, NEW confFlag, confFlag = "" \/ confFlag \in Dir,
           NEW s \in Started(cmd, flag, confFlag), UNCHANGED <<onDisk, shell>>,
           last' = last \/ (last'.conf = s.conf /\ last'.layers = s.layers)
    PROVE  SettingsInv'
<1>1. CASE last' = last
  BY <1>1, SameSettings
<1>2. CASE last'.conf = s.conf /\ last'.layers = s.layers
  <2>1. Judged(s.conf) /\ Follows(s.conf, s.layers.file, s.layers.env)
    BY StartedIs
  <2>2. (LastIsJudged /\ LaterLayersWin)'
    BY <1>2, <2>1, LastIsLoaded
  <2>3. /\ LayerOf(shell)' /\ (DOMAIN onDisk = Dir)'
        /\ (\A d \in Dir : LayerOf(onDisk[d].set))'
    BY FilesStay
  <2> QED BY <2>2, <2>3 DEF SettingsInv
<1> QED BY <1>1, <1>2

LEMMA SettingsSteps == SettingsInv /\ [SetNext]_setVars => SettingsInv'
<1> SUFFICES ASSUME SettingsInv, [SetNext]_setVars PROVE SettingsInv'
  OBVIOUS
<1>1. CASE UNCHANGED setVars
  BY <1>1, SameSettings DEF setVars
<1>2. ASSUME NEW flag \in {""} \cup Spelling, NEW development \in BOOLEAN,
             Initialises(flag, development)
      PROVE  SettingsInv'
  BY <1>2, InitKeepsSettings
<1>3. ASSUME NEW cmd, NEW flag \in {""} \cup Spelling, Refused(cmd, flag, "") PROVE SettingsInv'
  BY <1>3, SameSettings DEF Refused
<1>4. ASSUME NEW flag \in {""} \cup Spelling, Develops(flag) PROVE SettingsInv'
  <2>1. PICK s \in Started("dev", flag, "") : last' \in {s, last}
    BY <1>4 DEF Develops
  <2>2. UNCHANGED <<onDisk, shell>>
    BY <1>4 DEF Develops
  <2> QED BY <2>1, <2>2, RunKeepsSettings
<1>5. ASSUME NEW flag \in {""} \cup Spelling, NEW confFlag \in {""} \cup Dir,
             Checks(flag, confFlag)
      PROVE  SettingsInv'
  <2>1. PICK s \in Started("check", flag, confFlag) : last' = s
    BY <1>5 DEF Checks
  <2>2. UNCHANGED <<onDisk, shell>>
    BY <1>5 DEF Checks
  <2> QED BY <2>1, <2>2, RunKeepsSettings
<1>6. ASSUME NEW flag \in {""} \cup Spelling, NEW confFlag \in {""} \cup Dir, NEW port \in Ports,
             Serves(flag, confFlag, port)
      PROVE  SettingsInv'
  <2>1. PICK s \in Started("serve", flag, confFlag) :
          last' = IF s.dir \in keys /\ s.conf["theme"] \in Themes
                  THEN [s EXCEPT !.port = IF port = "" THEN s.conf["ssh_port"] ELSE port]
                  ELSE last
    BY <1>6 DEF Serves
  <2>2. s = [cmd |-> "serve", flag |-> flag, given |-> confFlag, path |-> Found(flag, confFlag),
             dir |-> DataDir(s.conf, flag), conf |-> s.conf, layers |-> s.layers, port |-> ""]
    BY StartedIs
  <2>3. UNCHANGED <<onDisk, shell>>
    BY <1>6 DEF Serves
  <2>4. last' = last \/ (last'.conf = s.conf /\ last'.layers = s.layers)
    BY <2>1, <2>2
  <2> QED BY <2>3, <2>4, RunKeepsSettings
<1>7. ASSUME NEW d \in Dir, EditsConfig(d) PROVE SettingsInv'
  BY <1>7, EditKeepsSettings
<1> QED BY <1>1, <1>2, <1>3, <1>4, <1>5, <1>6, <1>7 DEF SetNext

----------------------------------------------------------------------------
(* Where they are found. *)

LEMMA HomeOfIs ==
    ASSUME Plainly, NEW flag \in {""} \cup Spelling
    PROVE  /\ HomeOf(flag) \in Dir /\ Probed(flag) = HomeOf(flag)
           /\ \A c : c["data_dir"] = "" => DataDir(c, flag) = HomeOf(flag)
BY DEF Plainly, HomeOf, Probed, DataDir

\* A command that moves no directory reads the one init made.
LEMMA RunFindsHome ==
    ASSUME Plainly, SettingsInv, HomeInv, NEW cmd, NEW flag \in {""} \cup Spelling,
           NEW confFlag \in {""} \cup Dir, NEW s \in Started(cmd, flag, confFlag),
           UNCHANGED <<onDisk, shell, made>>,
           last' = last \/ (/\ last'.flag = s.flag /\ last'.given = s.given
                            /\ last'.dir = s.dir /\ last'.path = s.path)
    PROVE  HomeInv'
<1>1. CASE last' = last
  BY <1>1 DEF HomeInv, HomeIsFound
<1>2. CASE /\ last'.flag = s.flag /\ last'.given = s.given
           /\ last'.dir = s.dir /\ last'.path = s.path
  <2>1. s.conf["data_dir"] = ""
    BY StartedIs
  <2>2. ASSUME NEW m \in made, confFlag = "", m.flag = flag
        PROVE  DataDir(s.conf, flag) = m.dir /\ Found(flag, confFlag) = m.dir
    <3>1. m.dir = HomeOf(flag) /\ m.dir \in Dir /\ onDisk[m.dir].there
      BY <2>2 DEF HomeInv
    <3>2. DataDir(s.conf, flag) = HomeOf(flag) /\ Probed(flag) = HomeOf(flag)
      BY <2>1, HomeOfIs
    <3> QED BY <2>2, <3>1, <3>2 DEF Found
  <2>3. /\ s.flag = flag /\ s.given = confFlag
        /\ s.path = Found(flag, confFlag) /\ s.dir = DataDir(s.conf, flag)
    <3>1. PICK c, l : s = [cmd |-> cmd, flag |-> flag, given |-> confFlag,
                          path |-> Found(flag, confFlag), dir |-> DataDir(c, flag),
                          conf |-> c, layers |-> l, port |-> ""]
      BY Zenon, StartedAt
    <3> QED BY <3>1
  <2>4. HomeIsFound'
    BY <1>2, <2>2, <2>3 DEF HomeIsFound
  <2> QED BY <2>4 DEF HomeInv
<1> QED BY <1>1, <1>2

LEMMA HomeSteps == ASSUME Plainly PROVE SettingsInv /\ HomeInv /\ [SetNext]_setVars => HomeInv'
<1> SUFFICES ASSUME SettingsInv, HomeInv, [SetNext]_setVars PROVE HomeInv'
  OBVIOUS
<1>1. CASE UNCHANGED setVars
  BY <1>1 DEF setVars, HomeInv, HomeIsFound
<1>2. ASSUME NEW flag \in {""} \cup Spelling, NEW development \in BOOLEAN,
             Initialises(flag, development)
      PROVE  HomeInv'
  <2>1. PICK s \in Started("init", flag, "") :
          LET c == IF development THEN [s.conf EXCEPT !["environment"] = "development"] ELSE s.conf
          IN  /\ last' = [s EXCEPT !.conf = c]
              /\ \/ UNCHANGED <<onDisk, made>>
                 \/ /\ made' = made \cup {[flag |-> flag, dir |-> s.dir]}
                    /\ \/ onDisk' = onDisk /\ onDisk[s.dir].there
                       \/ onDisk' = [onDisk EXCEPT ![s.dir] =
                            [set |-> [k \in InitFlags |-> c[k]], unknown |-> FALSE, there |-> TRUE]]
    BY <1>2 DEF Initialises
  <2>2. s.conf["data_dir"] = "" /\ s.dir = DataDir(s.conf, flag)
    <3>1. s.conf["data_dir"] = ""
      BY StartedIs
    <3>2. PICK c, l : s = [cmd |-> "init", flag |-> flag, given |-> "",
                          path |-> Found(flag, ""), dir |-> DataDir(c, flag),
                          conf |-> c, layers |-> l, port |-> ""]
      BY Zenon, StartedAt
    <3>3. s.dir = DataDir(s.conf, flag)
      BY <3>2
    <3> QED BY <3>1, <3>3
  <2>3. s.dir = HomeOf(flag) /\ s.dir \in Dir
    <3>1. DataDir(s.conf, flag) = HomeOf(flag) /\ HomeOf(flag) \in Dir
      BY <2>2, HomeOfIs
    <3> QED BY <2>2, <3>1
  <2>4. last'.cmd = "init"
    <3>1. PICK c : last' = [s EXCEPT !.conf = c]
      BY <2>1
    <3>2. PICK d, l, p, q :
            s = [cmd |-> "init", flag |-> flag, given |-> "", path |-> p, dir |-> d,
                 conf |-> q, layers |-> l, port |-> ""]
      BY DEF Started
    <3> QED BY <3>1, <3>2
  <2>5. HomeIsFound'
    BY <2>4 DEF HomeIsFound
  <2>6. shell' = shell
    BY <1>2 DEF Initialises
  <2>7. PICK h : /\ "data_dir" \notin DOMAIN h.set /\ h.there
                 /\ \/ UNCHANGED <<onDisk, made>>
                    \/ /\ made' = made \cup {[flag |-> flag, dir |-> s.dir]}
                       /\ \/ onDisk' = onDisk /\ onDisk[s.dir].there
                          \/ onDisk' = [onDisk EXCEPT ![s.dir] = h]
    <3> DEFINE c == IF development THEN [s.conf EXCEPT !["environment"] = "development"] ELSE s.conf
               h == [set |-> [k \in InitFlags |-> c[k]], unknown |-> FALSE, there |-> TRUE]
    <3>1. "data_dir" \notin DOMAIN h.set /\ h.there
      BY KeysAre
    <3>2. \/ UNCHANGED <<onDisk, made>>
          \/ /\ made' = made \cup {[flag |-> flag, dir |-> s.dir]}
             /\ \/ onDisk' = onDisk /\ onDisk[s.dir].there
                \/ onDisk' = [onDisk EXCEPT ![s.dir] = h]
      BY <2>1
    <3> QED BY <3>1, <3>2
  <2>8. \A d \in Dir : /\ onDisk'[d] \in {onDisk[d], h}
                       /\ onDisk[d].there => onDisk'[d].there
    BY <2>7 DEF SettingsInv
  <2>9. ASSUME NEW m \in made'
        PROVE  m.dir = HomeOf(m.flag) /\ m.dir \in Dir /\ onDisk'[m.dir].there
    <3>1. CASE m \in made
      BY <2>8, <3>1 DEF HomeInv
    <3>2. CASE m = [flag |-> flag, dir |-> s.dir] /\ m \notin made
      <4>1. onDisk'[s.dir].there
        BY <2>3, <2>7, <3>2 DEF SettingsInv
      <4> QED BY <2>3, <3>2, <4>1
    <3> QED BY <2>7, <3>1, <3>2
  <2>10. \A d \in Dir : "data_dir" \notin DOMAIN onDisk'[d].set
    BY <2>7, <2>8 DEF HomeInv
  <2> QED BY <2>5, <2>6, <2>9, <2>10 DEF HomeInv
<1>3. ASSUME NEW cmd, NEW flag \in {""} \cup Spelling, Refused(cmd, flag, "") PROVE HomeInv'
  BY <1>3 DEF Refused, HomeInv, HomeIsFound
<1>4. ASSUME NEW flag \in {""} \cup Spelling, Develops(flag) PROVE HomeInv'
  <2>1. PICK s \in Started("dev", flag, "") : last' \in {s, last}
    BY <1>4 DEF Develops
  <2>2. UNCHANGED <<onDisk, shell, made>>
    BY <1>4 DEF Develops
  <2> QED BY <2>1, <2>2, RunFindsHome
<1>5. ASSUME NEW flag \in {""} \cup Spelling, NEW confFlag \in {""} \cup Dir,
             Checks(flag, confFlag)
      PROVE  HomeInv'
  <2>1. PICK s \in Started("check", flag, confFlag) : last' = s
    BY <1>5 DEF Checks
  <2>2. UNCHANGED <<onDisk, shell, made>>
    BY <1>5 DEF Checks
  <2> QED BY <2>1, <2>2, RunFindsHome
<1>6. ASSUME NEW flag \in {""} \cup Spelling, NEW confFlag \in {""} \cup Dir, NEW port \in Ports,
             Serves(flag, confFlag, port)
      PROVE  HomeInv'
  <2>1. PICK s \in Started("serve", flag, confFlag) :
          last' = IF s.dir \in keys /\ s.conf["theme"] \in Themes
                  THEN [s EXCEPT !.port = IF port = "" THEN s.conf["ssh_port"] ELSE port]
                  ELSE last
    BY <1>6 DEF Serves
  <2>2. s = [cmd |-> "serve", flag |-> flag, given |-> confFlag, path |-> Found(flag, confFlag),
             dir |-> DataDir(s.conf, flag), conf |-> s.conf, layers |-> s.layers, port |-> ""]
    BY StartedIs
  <2>3. UNCHANGED <<onDisk, shell, made>>
    BY <1>6 DEF Serves
  <2>4. last' = last \/ (/\ last'.flag = s.flag /\ last'.given = s.given
                         /\ last'.dir = s.dir /\ last'.path = s.path)
    BY <2>1, <2>2
  <2> QED BY <2>3, <2>4, RunFindsHome
<1>7. ASSUME NEW d \in Dir, EditsConfig(d) PROVE HomeInv'
  <2>1. last' = last /\ shell' = shell /\ made' = made
    BY <1>7 DEF EditsConfig
  <2>2. PICK e : /\ onDisk' = [onDisk EXCEPT ![d] = e] /\ e.there
                 /\ "data_dir" \notin DOMAIN e.set
    BY <1>7, EditIs DEF HomeInv
  <2>3. \A x \in Dir : onDisk'[x] \in {onDisk[x], e} /\ (onDisk[x].there => onDisk'[x].there)
    BY <2>2 DEF SettingsInv
  <2> QED BY <2>1, <2>2, <2>3 DEF HomeInv, HomeIsFound
<1> QED BY <1>1, <1>2, <1>3, <1>4, <1>5, <1>6, <1>7 DEF SetNext

----------------------------------------------------------------------------
(***************************************************************************)
(* Doors: rows go through the database whole.                              *)
(***************************************************************************)
Even == {2 * n : n \in Nat}
RowOf(row) == DOMAIN row = DOMAIN NoRow /\ row.wall \in Even /\ row.cpu \in Even

\* The sysop's limits are whole seconds; the database keeps no others.
WholeUnits == \A row \in Offer : RowOf(row)

\* A row that was saved.
Saved(row) == RowOf(row) /\ Storable(row) /\ row.asked = row.cpu

SetupInv ==
    /\ DOMAIN shelf = Shelf /\ \A d \in Shelf : shelf[d] = NoRow \/ Saved(shelf[d])
    /\ DOMAIN admin = Admin /\ DOMAIN offered = Asker
    /\ \A p \in Admin : /\ DOMAIN admin[p] = {"door", "row", "queue"}
                        /\ admin[p].door # "" => Saved(admin[p].row)
    /\ \A s \in Asker : \A d \in DOMAIN offered[s] : Saved(offered[s][d])
    /\ PlayersAreAble /\ BBSSpeaksLast /\ LinesStay /\ LimitsApply

LEMMA NoRowIs ==
    /\ NoRow.wall = 0 /\ NoRow.cpu = 0 /\ NoRow.asked = 0 /\ NoRow.mem = 0 /\ ~NoRow.enabled
    /\ DOMAIN NoRow = {"level", "enabled", "wall", "cpu", "mem", "needs", "pass", "dropfile",
                       "league", "asked"}
    /\ 0 \in Even /\ 2 \in Even
<1>1. 0 = 2 * 0 /\ 2 = 2 * 1
  OBVIOUS
<1>2. 0 \in Even /\ 2 \in Even
  BY <1>1 DEF Even
<1> QED BY <1>2 DEF NoRow

LEMMA Halved ==
    ASSUME NEW e \in Even
    PROVE  e \in Nat /\ Seconds(e) \in Nat /\ 2 * Seconds(e) = e /\ (e > 0) = (Seconds(e) > 0)
<1>1. PICK n \in Nat : e = 2 * n
  BY DEF Even
<1>2. (2 * n) \div 2 = n /\ n * 2 = 2 * n /\ (2 * n > 0) = (n > 0) /\ 2 * n \in Nat
  OBVIOUS
<1> QED BY <1>1, <1>2 DEF Seconds

LEMMA LimitsAre ==
    ASSUME NEW row PROVE Limits(row).cpu = Seconds(row.cpu) /\ Limits(row).mem = row.mem
BY DEF Limits

LEMMA RoundedIs ==
    ASSUME NEW row, RowOf(row)
    PROVE  /\ RowOf(Rounded(row)) /\ Rounded(row).asked = row.asked /\ Rounded(row).cpu = row.cpu
           /\ Storable(row) => Storable(Rounded(row))
<1> DEFINE v == 2 * Seconds(row.wall)
           u == 2 * Seconds(row.cpu)
<1>1. v = row.wall /\ u = row.cpu
  BY Halved DEF RowOf
<1>2. Rounded(row) = [row EXCEPT !.wall = v, !.cpu = u]
  BY DEF Rounded
<1> HIDE DEF v, u
<1>3. /\ DOMAIN Rounded(row) = DOMAIN row
      /\ \A f \in DOMAIN row : Rounded(row)[f] = row[f]
  BY <1>1, <1>2
<1>4. /\ Rounded(row).asked = row.asked /\ Rounded(row).cpu = row.cpu
      /\ Rounded(row).wall = row.wall /\ Rounded(row).level = row.level
      /\ Rounded(row).dropfile = row.dropfile
  BY <1>3, NoRowIs DEF RowOf
<1> QED BY <1>3, <1>4 DEF RowOf, Storable

\* What was asked for is what is kept.
LEMMA SavesKeep ==
    ASSUME SetupInv, NEW d, NEW row, RowOf(row), row.asked = row.cpu, Saves(d, row)
    PROVE  /\ DOMAIN shelf' = Shelf
           /\ \A x \in Shelf : shelf'[x] = NoRow \/ Saved(shelf'[x])
<1>1. shelf' = [shelf EXCEPT ![d] = Rounded(row)] /\ Storable(row)
  BY DEF Saves
<1>2. Saved(Rounded(row))
  BY <1>1, RoundedIs DEF Saved
<1> QED BY <1>1, <1>2 DEF SetupInv

\* The names the BBS speaks for.
Told(row) == {"MESHBBS_USER", "COLUMNS"} \cup (IF row.dropfile = "none" THEN {} ELSE {"MESHBBS_DROPFILE"})

LEMMA BBSIsLast ==
    ASSUME NEW row
    PROVE  /\ \A b \in Dedup(Layers(row)) : b.var \in Told(row) => b.by = "bbs"
           /\ \A b \in Dedup(Layers(row)) : b.by = "server" => b.var \in row.pass
           /\ \A a, b \in Dedup(Layers(row)) : a.var = b.var => a = b
<1> DEFINE E == Layers(row)
<1>1. /\ Len(E) = 4 /\ DOMAIN E = 1 .. 4
      /\ E[1] = {Bound("PATH", "base"), Bound("TERM", "session")}
      /\ E[2] = {Bound(v, "server") : v \in row.pass \cap ServerEnv}
      /\ E[3] = IF row.dropfile = "none" THEN {} ELSE {Bound("MESHBBS_DROPFILE", "bbs")}
      /\ E[4] = {Bound("MESHBBS_USER", "bbs"), Bound("COLUMNS", "bbs")}
  BY DEF Layers
<1> HIDE DEF E
<1>2. ASSUME NEW b \in Dedup(E)
      PROVE  \E i \in 1 .. 4 : b \in E[i] /\ \A j \in i + 1 .. 4 : \A c \in E[j] : c.var # b.var
  BY <1>1 DEF Dedup
<1>3. \A v, w : Bound(v, w).var = v /\ Bound(v, w).by = w
  BY DEF Bound
<1>4. \A b \in E[1] : b.var \in {"PATH", "TERM"} /\ b.by \in {"base", "session"}
  BY <1>1, <1>3
<1>5. \A b \in E[2] : b = Bound(b.var, "server") /\ b.var \in row.pass /\ b.by = "server"
  BY <1>1, <1>3
<1>6. \A b \in E[3] \cup E[4] : b.by = "bbs" /\ b = Bound(b.var, "bbs")
  BY <1>1, <1>3
<1>7. \A v \in Told(row) : \E c \in E[3] \cup E[4] : c.var = v
  BY <1>1, <1>3 DEF Told
<1>8. ASSUME NEW b \in Dedup(E), b.var \in Told(row) PROVE b.by = "bbs"
  <2>1. PICK i \in 1 .. 4 : b \in E[i] /\ \A j \in i + 1 .. 4 : \A c \in E[j] : c.var # b.var
    BY <1>2
  <2>2. i # 1 /\ i # 2
    BY <1>7, <1>8, <2>1
  <2>3. i = 3 \/ i = 4
    BY <2>2
  <2> QED BY <1>6, <2>1, <2>3
<1>9. ASSUME NEW b \in Dedup(E), b.by = "server" PROVE b.var \in row.pass
  <2>1. PICK i \in 1 .. 4 : b \in E[i]
    BY <1>2
  <2>2. i = 1 \/ i = 2 \/ i = 3 \/ i = 4
    OBVIOUS
  <2> QED BY <1>4, <1>5, <1>6, <1>9, <2>1, <2>2
<1>10. ASSUME NEW i \in 1 .. 4, NEW a \in E[i], NEW b \in E[i], a.var = b.var PROVE a = b
  <2>1. i = 1 \/ i = 2 \/ i = 3 \/ i = 4
    OBVIOUS
  <2>2. CASE i = 1
    BY <1>1, <1>3, <1>10, <2>2
  <2> QED BY <1>5, <1>6, <1>10, <2>1, <2>2
<1>11. ASSUME NEW a \in Dedup(E), NEW b \in Dedup(E), a.var = b.var PROVE a = b
  <2>1. PICK i \in 1 .. 4 : a \in E[i] /\ \A j \in i + 1 .. 4 : \A c \in E[j] : c.var # a.var
    BY <1>2
  <2>2. PICK k \in 1 .. 4 : b \in E[k] /\ \A j \in k + 1 .. 4 : \A c \in E[j] : c.var # b.var
    BY <1>2
  <2>3. ~(i < k)
    <3>1. i < k => k \in i + 1 .. 4
      OBVIOUS
    <3> QED BY <1>11, <2>1, <2>2, <3>1
  <2>4. ~(k < i)
    <3>1. k < i => i \in k + 1 .. 4
      OBVIOUS
    <3> QED BY <1>11, <2>1, <2>2, <3>1
  <2>5. i = k
    BY <2>3, <2>4
  <2> QED BY <1>10, <1>11, <2>1, <2>2, <2>5
<1> QED BY <1>8, <1>9, <1>11 DEF E

\* What is left of a text so far.
Cleaned == [out : Seq({"c", "s"}), space : BOOLEAN]

Cleaning(g, text) ==
    g = [i \in 0 .. Len(text) |->
           IF i = 0 THEN [out |-> <<>>, space |-> FALSE] ELSE After(g[i - 1], text[i])]

LEMMA AfterCleans ==
    ASSUME NEW done \in Cleaned, NEW c \in {"c", "s", "n", "x"} PROVE After(done, c) \in Cleaned
<1>1. CASE c = "c"
  <2>1. After(done, c) = [out |-> done.out \o (IF done.space /\ done.out # <<>> THEN <<"s">> ELSE <<>>) \o <<c>>,
                          space |-> FALSE]
    BY <1>1 DEF After
  <2> DEFINE gap == IF done.space /\ done.out # <<>> THEN <<"s">> ELSE <<>>
  <2>2. gap \in Seq({"c", "s"}) /\ <<c>> \in Seq({"c", "s"}) /\ done.out \in Seq({"c", "s"})
    <3>1. <<>> \in Seq({"c", "s"}) /\ <<"s">> \in Seq({"c", "s"}) /\ <<"c">> \in Seq({"c", "s"})
      OBVIOUS
    <3>2. gap = <<>> \/ gap = <<"s">>
      OBVIOUS
    <3>3. done.out \in Seq({"c", "s"})
      BY DEF Cleaned
    <3> HIDE DEF gap
    <3> QED BY <1>1, <3>1, <3>2, <3>3
  <2> HIDE DEF gap
  <2>3. done.out \o gap \o <<c>> \in Seq({"c", "s"})
    BY <2>2
  <2> QED BY <2>1, <2>3 DEF Cleaned, gap
<1>2. CASE c \in {"s", "n"}
  BY <1>2 DEF After, Cleaned
<1>3. CASE c = "x"
  BY <1>3 DEF After, Cleaned
<1> QED BY <1>1, <1>2, <1>3

LEMMA CleaningExists ==
    ASSUME NEW text \in Seq({"c", "s", "n", "x"})
    PROVE  \E g : Cleaning(g, text)
<1> USE DEF Cleaning
<1> DEFINE Upto(g, k) ==
             g = [i \in 0 .. k |-> IF i = 0 THEN [out |-> <<>>, space |-> FALSE] ELSE After(g[i - 1], text[i])]
           Bad == {k \in 0 .. Len(text) : ~\E g : Upto(g, k)}
<1>1. SUFFICES Bad = {}
  <2>1. Len(text) \in 0 .. Len(text)
    OBVIOUS
  <2> QED BY <1>1, <2>1
<1>2. SUFFICES ASSUME Bad # {} PROVE FALSE
  OBVIOUS
<1>3. PICK k \in Bad : \A j \in Bad : k =< j
  <2>1. Bad \in SUBSET Nat
    OBVIOUS
  <2> HIDE DEF Bad
  <2> QED BY <1>2, <2>1, LeastOf
<1>4. k \in 0 .. Len(text) /\ ~\E g : Upto(g, k)
  OBVIOUS
<1>5. k # 0
  <2>1. Upto([i \in 0 .. 0 |-> [out |-> <<>>, space |-> FALSE]], 0)
    OBVIOUS
  <2> HIDE DEF Upto
  <2> QED BY <1>4, <2>1
<1>6. PICK h : Upto(h, k - 1)
  <2>1. k - 1 \in 0 .. Len(text) /\ k - 1 \notin Bad
    <3> HIDE DEF Bad
    <3> QED BY <1>3, <1>4, <1>5
  <2> QED BY <2>1
<1> DEFINE g == [i \in 0 .. k |-> IF i = k THEN After(h[k - 1], text[k]) ELSE h[i]]
<1>7. Upto(g, k)
  <2>1. ASSUME NEW i \in 0 .. k
        PROVE  g[i] = IF i = 0 THEN [out |-> <<>>, space |-> FALSE] ELSE After(g[i - 1], text[i])
    <3>1. CASE i = k
      <4>1. g[i] = After(h[k - 1], text[k])
        BY <3>1
      <4>2. k - 1 \in 0 .. k /\ k - 1 # k
        BY <1>4, <1>5
      <4>3. g[k - 1] = h[k - 1]
        BY <4>2
      <4> HIDE DEF g
      <4> QED BY <1>5, <3>1, <4>1, <4>3
    <3>2. CASE i # k
      <4>1. i \in 0 .. k - 1 /\ g[i] = h[i]
        BY <1>4, <3>2
      <4>2. h[i] = IF i = 0 THEN [out |-> <<>>, space |-> FALSE] ELSE After(h[i - 1], text[i])
        BY <1>6, <4>1
      <4>3. i # 0 => i - 1 \in 0 .. k /\ i - 1 # k
        BY <1>4
      <4>4. i # 0 => g[i - 1] = h[i - 1]
        BY <4>3
      <4> HIDE DEF g
      <4> QED BY <4>1, <4>2, <4>4
    <3> QED BY <3>1, <3>2
  <2> DEFINE F == [i \in 0 .. k |-> IF i = 0 THEN [out |-> <<>>, space |-> FALSE] ELSE After(g[i - 1], text[i])]
  <2>2. g = [i \in 0 .. k |-> g[i]]
    OBVIOUS
  <2>3. g = F
    <3> HIDE DEF g
    <3> QED BY <2>1, <2>2
  <2> QED BY <2>3
<1> QED
  <2> HIDE DEF Upto, g
  <2> QED BY <1>4, <1>7

\* No line end is left in a field.
LEMMA SanitizedIs ==
    ASSUME NEW text \in Seq({"c", "s", "n", "x"})
    PROVE  Sanitized(text) \in Seq({"c", "s"})
<1> DEFINE g == CHOOSE g : g = [i \in 0 .. Len(text) |->
                                  IF i = 0 THEN [out |-> <<>>, space |-> FALSE] ELSE After(g[i - 1], text[i])]
           Bad == {k \in 0 .. Len(text) : g[k] \notin Cleaned}
<1>1. g = [i \in 0 .. Len(text) |->
             IF i = 0 THEN [out |-> <<>>, space |-> FALSE] ELSE After(g[i - 1], text[i])]
  <2>1. \E f : Cleaning(f, text)
    BY CleaningExists
  <2> QED BY <2>1 DEF Cleaning
<1>2. Sanitized(text) = g[Len(text)].out
  BY DEF Sanitized
<1> HIDE DEF g
<1>3. Bad = {}
  <2>1. SUFFICES ASSUME Bad # {} PROVE FALSE
    OBVIOUS
  <2>2. PICK k \in Bad : \A j \in Bad : k =< j
    <3>1. Bad \in SUBSET Nat
      OBVIOUS
    <3> HIDE DEF Bad
    <3> QED BY <2>1, <3>1, LeastOf
  <2>3. k \in 0 .. Len(text) /\ g[k] \notin Cleaned
    OBVIOUS
  <2>4. k # 0
    <3>1. 0 \in 0 .. Len(text) /\ g[0] = [out |-> <<>>, space |-> FALSE]
      BY <1>1
    <3>2. g[0] \in Cleaned
      BY <3>1 DEF Cleaned
    <3> QED BY <2>3, <3>2
  <2>5. k - 1 \in 0 .. Len(text) /\ k - 1 \notin Bad
    <3> HIDE DEF Bad
    <3> QED BY <2>2, <2>3, <2>4
  <2>6. g[k - 1] \in Cleaned /\ text[k] \in {"c", "s", "n", "x"}
    BY <2>3, <2>4, <2>5
  <2>7. g[k] = After(g[k - 1], text[k])
    BY <1>1, <2>3, <2>4
  <2> QED BY <2>3, <2>6, <2>7, AfterCleans
<1>4. Len(text) \in 0 .. Len(text)
  OBVIOUS
<1>5. g[Len(text)] \in Cleaned
  BY <1>3, <1>4
<1> QED BY <1>2, <1>5 DEF Cleaned

LEMMA NoLineMoves ==
    ASSUME NEW format, NEW name \in Names PROVE LinesRead(format, name) = LineCount(format)
<1>1. Sanitized(name) \in Seq({"c", "s"})
  BY SanitizedIs, DoorSetupAssumption
<1>2. {i \in DOMAIN Sanitized(name) : Sanitized(name)[i] = "n"} = {}
  <2>1. \A i \in DOMAIN Sanitized(name) : Sanitized(name)[i] \in {"c", "s"}
    BY <1>1
  <2> QED BY <2>1
<1>3. Cardinality({i \in DOMAIN Sanitized(name) : Sanitized(name)[i] = "n"}) = 0
  BY <1>2, FS_EmptySet
<1>4. LineCount(format) + 0 = LineCount(format)
  BY DEF LineCount
<1> QED BY <1>3, <1>4 DEF LinesRead

LEMMA SetupStarts == SetupInit => SetupInv
<1> SUFFICES ASSUME SetupInit PROVE SetupInv
  OBVIOUS
<1>1. /\ DOMAIN shelf = Shelf /\ \A d \in Shelf : shelf[d] = NoRow
      /\ DOMAIN admin = Admin /\ \A p \in Admin : admin[p] = NotRunning
      /\ DOMAIN offered = Asker /\ \A s \in Asker : DOMAIN offered[s] = {}
      /\ playing = {}
  BY NothingSet DEF SetupInit
<1>2. NotRunning.door = "" /\ DOMAIN NotRunning = {"door", "row", "queue"}
  BY DEF NotRunning
<1> QED BY <1>1, <1>2 DEF SetupInv, PlayersAreAble, BBSSpeaksLast, LinesStay, LimitsApply

LEMMA SetupSteps == ASSUME WholeUnits PROVE SetupInv /\ [SetupNext]_setupVars => SetupInv'
<1> SUFFICES ASSUME SetupInv, [SetupNext]_setupVars PROVE SetupInv'
  OBVIOUS
<1> USE DEF SetupInv
<1>1. CASE UNCHANGED setupVars
  BY <1>1 DEF setupVars, PlayersAreAble, BBSSpeaksLast, LinesStay, LimitsApply
<1>2. ASSUME NEW d \in Shelf, RemoveDoor(d) PROVE SetupInv'
  BY <1>2 DEF RemoveDoor, PlayersAreAble, BBSSpeaksLast, LinesStay, LimitsApply
<1>3. ASSUME NEW d \in Shelf, NEW row \in Offer, AddDoor(d, row) PROVE SetupInv'
  <2> DEFINE r == [row EXCEPT !.enabled = TRUE, !.asked = row.cpu]
  <2>1. RowOf(row)
    BY DEF WholeUnits
  <2>2. RowOf(r) /\ r.asked = r.cpu
    BY <2>1, NoRowIs DEF RowOf
  <2>3. Saves(d, r) /\ UNCHANGED <<admin, offered, playing>>
    BY <1>3 DEF AddDoor
  <2> HIDE DEF r
  <2>4. DOMAIN shelf' = Shelf /\ \A x \in Shelf : shelf'[x] = NoRow \/ Saved(shelf'[x])
    BY <2>2, <2>3, SavesKeep
  <2> QED BY <2>3, <2>4 DEF PlayersAreAble, BBSSpeaksLast, LinesStay, LimitsApply
<1>4. ASSUME NEW p \in Admin, NEW d \in Shelf, EnableReads(p, d) PROVE SetupInv'
  <2> DEFINE e == [NotRunning EXCEPT !.door = d, !.row = shelf[d]]
  <2>1. admin' = [admin EXCEPT ![p] = e] /\ Saved(shelf[d])
    BY <1>4 DEF EnableReads
  <2>2. e.row = shelf[d] /\ DOMAIN e = {"door", "row", "queue"}
    BY DEF NotRunning
  <2>3. UNCHANGED <<shelf, offered, playing>>
    BY <1>4 DEF EnableReads
  <2> HIDE DEF e
  <2> QED BY <2>1, <2>2, <2>3 DEF PlayersAreAble, BBSSpeaksLast, LinesStay, LimitsApply
<1>5. ASSUME NEW p \in Admin, NEW on \in BOOLEAN, EnableWrites(p, on) PROVE SetupInv'
  <2> DEFINE r == [admin[p].row EXCEPT !.enabled = on]
  <2>1. Saved(admin[p].row)
    BY <1>5 DEF EnableWrites
  <2>2. RowOf(r) /\ r.asked = r.cpu
    BY <2>1, NoRowIs DEF RowOf, Saved
  <2>3. /\ Saves(admin[p].door, r) /\ UNCHANGED <<offered, playing>>
        /\ admin' = [admin EXCEPT ![p] = NotRunning]
    BY <1>5 DEF EnableWrites
  <2> HIDE DEF r
  <2>4. DOMAIN shelf' = Shelf /\ \A x \in Shelf : shelf'[x] = NoRow \/ Saved(shelf'[x])
    BY <2>2, <2>3, SavesKeep
  <2>5. NotRunning.door = "" /\ DOMAIN NotRunning = {"door", "row", "queue"}
    BY DEF NotRunning
  <2> QED BY <2>3, <2>4, <2>5 DEF PlayersAreAble, BBSSpeaksLast, LinesStay, LimitsApply
<1>6. ASSUME NEW p \in Admin, ExamplesStart(p) PROVE SetupInv'
  <2>1. admin' = [admin EXCEPT ![p].queue = <<"hello", "arena">>] /\ admin[p] = NotRunning
    BY <1>6 DEF ExamplesStart
  <2>2. /\ DOMAIN admin' = Admin
        /\ \A x \in Admin : /\ DOMAIN admin'[x] = DOMAIN admin[x]
                            /\ admin'[x].door = admin[x].door /\ admin'[x].row = admin[x].row
    BY <2>1
  <2>3. UNCHANGED <<shelf, offered, playing>>
    BY <1>6 DEF ExamplesStart
  <2> QED BY <2>2, <2>3 DEF PlayersAreAble, BBSSpeaksLast, LinesStay, LimitsApply
<1>7. ASSUME NEW p \in Admin, ExampleSaved(p) PROVE SetupInv'
  <2> DEFINE d == Head(admin[p].queue)
  <2>1. Saves(d, Example(d)) /\ UNCHANGED <<offered, playing>>
    BY <1>7 DEF ExampleSaved
  <2> DEFINE t == Tail(admin[p].queue)
  <2>5. admin' = [admin EXCEPT ![p].queue = t]
    BY <1>7 DEF ExampleSaved
  <2>2. /\ DOMAIN admin' = Admin
        /\ \A x \in Admin : /\ DOMAIN admin'[x] = DOMAIN admin[x]
                            /\ admin'[x].door = admin[x].door /\ admin'[x].row = admin[x].row
    <3> HIDE DEF t
    <3> QED BY <2>5
  <2>3. RowOf(Example(d)) /\ Example(d).asked = Example(d).cpu
    BY NoRowIs DEF Example, RowOf
  <2> HIDE DEF d
  <2>4. DOMAIN shelf' = Shelf /\ \A x \in Shelf : shelf'[x] = NoRow \/ Saved(shelf'[x])
    BY <2>1, <2>3, SavesKeep
  <2> QED BY <2>1, <2>2, <2>4 DEF PlayersAreAble, BBSSpeaksLast, LinesStay, LimitsApply
<1>8. ASSUME NEW p \in Admin, CommandStops(p) PROVE SetupInv'
  BY <1>8 DEF CommandStops, NotRunning, PlayersAreAble, BBSSpeaksLast, LinesStay, LimitsApply
<1>9. ASSUME NEW s \in Asker, ListDoors(s) PROVE SetupInv'
  <2> DEFINE l == [d \in {x \in Shelf : shelf[x].enabled} |-> shelf[d]]
  <2>1. offered' = [offered EXCEPT ![s] = l] /\ UNCHANGED <<shelf, admin, playing>>
    BY <1>9 DEF ListDoors
  <2>2. \A d \in DOMAIN l : Saved(l[d])
    BY NoRowIs
  <2> HIDE DEF l
  <2>3. \A x \in Asker : offered'[x] \in {offered[x], l}
    BY <2>1
  <2> QED BY <2>1, <2>2, <2>3 DEF PlayersAreAble, BBSSpeaksLast, LinesStay, LimitsApply
<1>10. ASSUME NEW s \in Asker, NEW c, ChangesCapability(s, c) PROVE SetupInv'
  BY <1>10 DEF ChangesCapability, PlayersAreAble, BBSSpeaksLast, LinesStay, LimitsApply
<1>11. ASSUME NEW s \in Asker, NEW d \in Shelf, NEW name \in Names, Launch(s, d, name)
       PROVE  SetupInv'
  <2> DEFINE row == offered[s][d]
  <2>1. /\ d \in DOMAIN offered[s] /\ MayRun(s, row) /\ Launchable(row)
        /\ UNCHANGED <<shelf, admin, offered>>
    BY <1>11 DEF Launch
  <2>2. PICK run : /\ playing' = playing \cup {run}
                   /\ run.caller = s /\ run.held = able[s] /\ run.row = row
                   /\ run.limits = Limits(row) /\ run.env = Dedup(Layers(row))
                   /\ run.lines = LinesRead(row.dropfile, name)
    <3> DEFINE run == [caller |-> s, door |-> d, row |-> row, current |-> shelf[d],
                       held |-> able[s], limits |-> Limits(row),
                       env |-> Dedup(Layers(row)), lines |-> LinesRead(row.dropfile, name)]
    <3>1. playing' = playing \cup {run}
      BY <1>11 DEF Launch
    <3>2. /\ run.caller = s /\ run.held = able[s] /\ run.row = row
          /\ run.limits = Limits(row) /\ run.env = Dedup(Layers(row))
          /\ run.lines = LinesRead(row.dropfile, name)
      OBVIOUS
    <3> HIDE DEF run
    <3> QED BY <3>1, <3>2
  <2>3. Saved(row)
    BY <2>1
  <2> HIDE DEF row
  <2>4. run.caller \notin Guests /\ {"run_doors", run.row.needs} \ {""} \subseteq run.held
    BY <2>1, <2>2 DEF MayRun
  <2>5. /\ (run.row.asked > 0) = (run.limits.cpu > 0)
        /\ run.limits.mem = run.row.mem
        /\ run.row.cpu > 0 => "cpu" \in Enforced
        /\ run.row.mem > 0 => "mem" \in Enforced
    <3>1. run.limits.cpu = Seconds(row.cpu) /\ run.limits.mem = row.mem
      BY <2>2, LimitsAre
    <3>2. row.asked = row.cpu /\ (row.cpu > 0) = (Seconds(row.cpu) > 0)
      BY <2>3, Halved DEF Saved, RowOf
    <3> QED BY <2>1, <2>2, <3>1, <3>2 DEF Launchable
  <2>6. PlayersAreAble'
    BY <2>2, <2>4 DEF PlayersAreAble
  <2>7. LimitsApply'
    BY <2>2, <2>5 DEF LimitsApply
  <2>8. BBSSpeaksLast'
    <3>1. /\ \A b \in run.env : b.var \in Told(run.row) => b.by = "bbs"
          /\ \A b \in run.env : b.by = "server" => b.var \in run.row.pass
          /\ \A a, b \in run.env : a.var = b.var => a = b
      <4> DEFINE env == run.env
      <4>1. env = Dedup(Layers(row)) /\ run.row = row
        BY <2>2
      <4> HIDE DEF env
      <4>2. /\ \A b \in env : b.var \in Told(row) => b.by = "bbs"
            /\ \A b \in env : b.by = "server" => b.var \in row.pass
            /\ \A a, b \in env : a.var = b.var => a = b
        BY <4>1, BBSIsLast
      <4>3. Told(run.row) = Told(row) /\ run.row.pass = row.pass
        BY <4>1
      <4>4. /\ \A b \in env : b.var \in Told(run.row) => b.by = "bbs"
            /\ \A b \in env : b.by = "server" => b.var \in run.row.pass
        BY <4>2, <4>3
      <4> QED BY <4>2, <4>4 DEF env
    <3> QED BY <2>2, <3>1 DEF BBSSpeaksLast, Told
  <2>9. LinesStay'
    <3>1. run.lines = LineCount(run.row.dropfile)
      BY <2>2, NoLineMoves
    <3> QED BY <2>2, <3>1 DEF LinesStay
  <2> QED BY <2>1, <2>6, <2>7, <2>8, <2>9
<1>12. ASSUME NEW run \in playing, DoorEnds(run) PROVE SetupInv'
  BY <1>12 DEF DoorEnds, PlayersAreAble, BBSSpeaksLast, LinesStay, LimitsApply
<1> QED BY <1>1, <1>2, <1>3, <1>4, <1>5, <1>6, <1>7, <1>8, <1>9, <1>10, <1>11, <1>12 DEF SetupNext

----------------------------------------------------------------------------
(***************************************************************************)
(* The roster: no alias in the table is read as an ID.                     *)
(***************************************************************************)
RosterInv ==
    /\ DOMAIN aliases = Alias
    /\ \A a \in Alias : aliases[a] # Unknown => ParseNodeID(a) = Unknown

LEMMA RosterStarts == RosterInit => RosterInv
BY DEF RosterInit, RosterInv

LEMMA RosterSteps == RosterInv /\ [RosterNext]_rosterVars => RosterInv'
<1> SUFFICES ASSUME RosterInv, [RosterNext]_rosterVars PROVE RosterInv'
  OBVIOUS
<1>1. ASSUME aliases' = aliases PROVE RosterInv'
  BY <1>1 DEF RosterInv
<1>2. ASSUME NEW a \in Alias, RemoveAlias(a) PROVE RosterInv'
  BY <1>2 DEF RemoveAlias, RosterInv
<1>3. ASSUME NEW a \in Alias, NEW ref, SetAlias(a, ref) PROVE RosterInv'
  <2>1. ParseNodeID(a) = Unknown /\ aliases' = [aliases EXCEPT ![a] = ParseNodeID(ref)]
    BY <1>3 DEF SetAlias, ValidateAlias
  <2> QED BY <2>1 DEF RosterInv
<1>4. ASSUME NEW id, NEW n, NEW i, PutNode(id, n, i) PROVE aliases' = aliases
  BY <1>4 DEF PutNode
<1>5. ASSUME NEW ref, Resolve(ref) PROVE aliases' = aliases
  BY <1>5 DEF Resolve
<1>6. ASSUME ResolveHere PROVE aliases' = aliases
  BY <1>6 DEF ResolveHere
<1>7. CASE UNCHANGED rosterVars
  BY <1>1, <1>7 DEF rosterVars
<1>8. CASE \E id \in NodeID, n \in DisplayNames, i \in 0 .. MaxIncarnation : PutNode(id, n, i)
  BY <1>1, <1>4, <1>8
<1>9. CASE \E a \in Alias : RemoveAlias(a) \/ \E id \in NodeID :
             \E ref \in Renderings(id) : SetAlias(a, ref)
  BY <1>2, <1>3, <1>9
<1>10. CASE \E ref \in TypedRefs : Resolve(ref)
  BY <1>1, <1>5, <1>10
<1>11. CASE ResolveHere
  BY <1>1, <1>6, <1>11
<1> QED BY <1>7, <1>8, <1>9, <1>10, <1>11 DEF RosterNext

LEMMA RosterHolds == RosterInv => AliasesReach /\ HolderResolves
<1> SUFFICES ASSUME RosterInv PROVE AliasesReach /\ HolderResolves
  OBVIOUS
<1>1. ASSUME NEW a \in Alias, aliases[a] # Unknown PROVE ResolveNodeRef(a) = aliases[a]
  BY <1>1 DEF RosterInv, ResolveNodeRef, ResolveAlias
<1>2. AliasesReach
  BY <1>1 DEF AliasesReach
<1>3. ASSUME NEW id \in NodeID, AliasesOf(id) # {} PROVE ResolveNodeRef(Holder(id)) = id
  <2>1. Holder(id) \in AliasesOf(id)
    BY <1>3 DEF Holder
  <2>2. Holder(id) \in Alias /\ aliases[Holder(id)] = id
    BY <2>1 DEF AliasesOf
  <2>3. id # Unknown
    <3>1. Len(id) = 8 /\ Len(<< >>) = 0
      BY RosterAssumption DEF NodeIDLen
    <3> QED BY <3>1 DEF Unknown
  <2> QED BY <1>1, <2>2, <2>3
<1> QED BY <1>2, <1>3 DEF HolderResolves

----------------------------------------------------------------------------
(***************************************************************************)
(* The reference doors: what the saved cursor has passed is in the saved   *)
(* table.                                                                  *)
(***************************************************************************)
ResultOf == [who : Fighter, kind : {Won, Lost, Other}]
TableOf(t) ==
    /\ t \in [DOMAIN t -> Score] /\ DOMAIN t \subseteq Fighter /\ IsFiniteSet(DOMAIN t)

ScoreIn(t, f) == IF f \in DOMAIN t THEN t[f] ELSE Unfought

\* A table that has dropped nobody has every result up to a place.
HasAll(t, n) ==
    Cardinality(DOMAIN t) < MaxTracked =>
        \A f \in Fighter : /\ ScoreIn(t, f).wins >= ResultsFor(f, Won, n)
                           /\ ScoreIn(t, f).losses >= ResultsFor(f, Lost, n)

UpToNow == 0 .. Len(results)

ArenaOf(r) ==
    /\ r.at = "table" => r.cursor \in UpToNow /\ r.cursor =< position
    /\ r.at = "poll" => /\ r.cursor \in UpToNow /\ TableOf(r.table)
                        /\ HasAll(r.table, r.cursor) /\ HasAll(r.table, position)
    /\ r.at = "save" => /\ r.next \in UpToNow /\ TableOf(r.table)
                        /\ HasAll(r.table, r.next) /\ HasAll(r.table, position)
    /\ r.at = "advance" => r.next \in UpToNow /\ HasAll(ranking, r.next)

RunFields == {"door", "who", "at", "best", "record", "tries", "cursor", "next", "table"}
RunOf(r) == r = NoRun \/ (DOMAIN r = RunFields /\ r.door # "none")

ArenaInv ==
    /\ DOMAIN running = Seat /\ \A s \in Seat : RunOf(running[s])
    /\ results \in Seq(ResultOf) /\ position \in UpToNow
    /\ TableOf(ranking) /\ HasAll(ranking, position)
    /\ \A s \in Seat : running[s].door = "arena" => ArenaOf(running[s])

\* One copy runs at a time, and its table can always be read.
PlayedAlone == (\A s, t \in Seat : s = t) /\ "table" \notin Unreadable

LEMMA ResultsAreNumbers ==
    ASSUME NEW f, NEW kind, NEW n \in Nat
    PROVE  ResultsFor(f, kind, n) \in Nat
<1>1. IsFiniteSet(1 .. n)
  BY FS_Interval
<1>2. IsFiniteSet({i \in 1 .. n : results[i] = [who |-> f, kind |-> kind]})
  BY <1>1, FS_Subset
<1> QED BY <1>2, FS_CardinalityType DEF ResultsFor

\* One result more.
LEMMA NextResult ==
    ASSUME NEW f, NEW kind, NEW n \in Nat
    PROVE  ResultsFor(f, kind, n + 1)
             = ResultsFor(f, kind, n) + (IF results[n + 1] = [who |-> f, kind |-> kind] THEN 1 ELSE 0)
<1> DEFINE P(i) == results[i] = [who |-> f, kind |-> kind]
           S == {i \in 1 .. n : P(i)}
           T == {i \in 1 .. n + 1 : P(i)}
<1>1. IsFiniteSet(S) /\ Cardinality(S) \in Nat
  <2>1. IsFiniteSet(1 .. n)
    BY FS_Interval
  <2>2. IsFiniteSet(S)
    BY <2>1, FS_Subset
  <2> QED BY <2>2, FS_CardinalityType
<1>2. n + 1 \notin S
  OBVIOUS
<1>3. CASE P(n + 1)
  <2>1. T = S \cup {n + 1}
    BY <1>3
  <2>2. Cardinality(T) = Cardinality(S) + 1
    <3> HIDE DEF S, T
    <3> QED BY <1>1, <1>2, <2>1, FS_AddElement
  <2> QED BY <1>3, <2>2 DEF ResultsFor
<1>4. CASE ~P(n + 1)
  <2>1. T = S
    BY <1>4
  <2>2. Cardinality(T) = Cardinality(S) + 0
    <3> HIDE DEF S, T
    <3> QED BY <1>1, <2>1
  <2> QED BY <1>4, <2>2 DEF ResultsFor
<1> QED BY <1>3, <1>4

\* Fewer results, up to an earlier place.
LEMMA EarlierIsFewer ==
    ASSUME NEW f, NEW kind, NEW m \in Nat, NEW n \in Nat, m =< n
    PROVE  ResultsFor(f, kind, m) =< ResultsFor(f, kind, n)
<1> DEFINE S == {i \in 1 .. m : results[i] = [who |-> f, kind |-> kind]}
           T == {i \in 1 .. n : results[i] = [who |-> f, kind |-> kind]}
<1>1. IsFiniteSet(1 .. n)
  BY FS_Interval
<1>2. IsFiniteSet(T)
  BY <1>1, FS_Subset
<1>3. S \subseteq T
  OBVIOUS
<1>4. Cardinality(S) =< Cardinality(T)
  <2> HIDE DEF S, T
  <2> QED BY <1>2, <1>3, FS_Subset
<1> QED BY <1>4 DEF ResultsFor

LEMMA CountsEarlier ==
    ASSUME NEW t, TableOf(t), NEW m \in Nat, NEW n \in Nat, m =< n, HasAll(t, n)
    PROVE  HasAll(t, m)
<1> SUFFICES ASSUME Cardinality(DOMAIN t) < MaxTracked, NEW f \in Fighter
             PROVE  /\ ScoreIn(t, f).wins >= ResultsFor(f, Won, m)
                    /\ ScoreIn(t, f).losses >= ResultsFor(f, Lost, m)
  BY DEF HasAll
<1>1. ScoreIn(t, f) \in Score
  BY DEF ScoreIn, TableOf, Score, Unfought
<1>2. ScoreIn(t, f).wins \in Nat /\ ScoreIn(t, f).losses \in Nat
  BY <1>1 DEF Score
<1>3. ScoreIn(t, f).wins >= ResultsFor(f, Won, n) /\ ScoreIn(t, f).losses >= ResultsFor(f, Lost, n)
  BY DEF HasAll
<1>4. ResultsFor(f, Won, m) =< ResultsFor(f, Won, n) /\ ResultsFor(f, Lost, m) =< ResultsFor(f, Lost, n)
  BY EarlierIsFewer
<1>5. \A k : ResultsFor(f, k, m) \in Nat /\ ResultsFor(f, k, n) \in Nat
  BY ResultsAreNumbers
<1> QED BY <1>2, <1>3, <1>4, <1>5

\* Counting one result.
LEMMA RecordedKeeps ==
    ASSUME NEW t, TableOf(t), NEW n \in Nat, results[n + 1] \in ResultOf, HasAll(t, n)
    PROVE  /\ TableOf(Recorded(t, results[n + 1]))
           /\ HasAll(Recorded(t, results[n + 1]), n + 1)
<1> DEFINE ev == results[n + 1]
           new == [wins |-> ScoreIn(t, ev.who).wins + (IF ev.kind = Won THEN 1 ELSE 0),
                   losses |-> ScoreIn(t, ev.who).losses + (IF ev.kind = Lost THEN 1 ELSE 0)]
           u == Recorded(t, ev)
<1>1. u = [f \in DOMAIN t \cup {ev.who} |-> IF f = ev.who THEN new ELSE t[f]]
  BY DEF Recorded, ScoreIn
<1>2. ev.who \in Fighter /\ ev.kind \in {Won, Lost, Other} /\ ev = [who |-> ev.who, kind |-> ev.kind]
  BY DEF ResultOf
<1>3. \A f : ScoreIn(t, f) \in Score
  BY DEF ScoreIn, TableOf, Score, Unfought
<1>4. \A f : ScoreIn(t, f).wins \in Nat /\ ScoreIn(t, f).losses \in Nat
  BY <1>3 DEF Score
<1>5. new \in Score
  BY <1>4 DEF Score
<1>6. DOMAIN u = DOMAIN t \cup {ev.who}
  BY <1>1
<1>7. u \in [DOMAIN t \cup {ev.who} -> Score]
  <2> HIDE DEF new, u, ev
  <2> QED BY <1>1, <1>5 DEF TableOf
<1>8. TableOf(u)
  <2> HIDE DEF new, u, ev
  <2>1. IsFiniteSet(DOMAIN t \cup {ev.who})
    BY FS_AddElement DEF TableOf
  <2> QED BY <1>2, <1>6, <1>7, <2>1 DEF TableOf
<1>9. ASSUME Cardinality(DOMAIN u) < MaxTracked, NEW f \in Fighter
      PROVE  /\ ScoreIn(u, f).wins >= ResultsFor(f, Won, n + 1)
             /\ ScoreIn(u, f).losses >= ResultsFor(f, Lost, n + 1)
  <2>1. Cardinality(DOMAIN t) < MaxTracked
    <3>1. DOMAIN t \subseteq DOMAIN u /\ IsFiniteSet(DOMAIN u)
      BY <1>6, <1>8 DEF TableOf
    <3>2. Cardinality(DOMAIN t) =< Cardinality(DOMAIN u)
      BY <3>1, FS_Subset
    <3>3. Cardinality(DOMAIN t) \in Nat /\ Cardinality(DOMAIN u) \in Nat
      BY <1>8, FS_CardinalityType DEF TableOf
    <3> HIDE DEF u
    <3> QED BY <1>9, <3>2, <3>3, ReferenceDoorsAssumption
  <2>2. ScoreIn(t, f).wins >= ResultsFor(f, Won, n) /\ ScoreIn(t, f).losses >= ResultsFor(f, Lost, n)
    BY <2>1 DEF HasAll
  <2>3. \A k : ResultsFor(f, k, n) \in Nat
    BY ResultsAreNumbers
  <2>4. \A k : ResultsFor(f, k, n + 1) = ResultsFor(f, k, n) + (IF ev = [who |-> f, kind |-> k] THEN 1 ELSE 0)
    BY NextResult
  <2>5. CASE f = ev.who
    <3>1. ScoreIn(u, f) = new
      <4> HIDE DEF new, ev, u
      <4> QED BY <1>1, <2>5 DEF ScoreIn
    <3>2. /\ new.wins = ScoreIn(t, f).wins + (IF ev.kind = Won THEN 1 ELSE 0)
          /\ new.losses = ScoreIn(t, f).losses + (IF ev.kind = Lost THEN 1 ELSE 0)
      <4> HIDE DEF ev
      <4> QED BY <2>5
    <3>3. \A k : (ev = [who |-> f, kind |-> k]) => ev.kind = k
      <4> HIDE DEF ev
      <4> QED OBVIOUS
    <3> HIDE DEF new, ev, u
    <3>4. ResultsFor(f, Won, n + 1) =< ResultsFor(f, Won, n) + (IF ev.kind = Won THEN 1 ELSE 0)
      BY <2>3, <2>4, <3>3
    <3>5. ResultsFor(f, Lost, n + 1) =< ResultsFor(f, Lost, n) + (IF ev.kind = Lost THEN 1 ELSE 0)
      BY <2>3, <2>4, <3>3
    <3>6. \A k : ResultsFor(f, k, n + 1) \in Nat
      BY ResultsAreNumbers
    <3> QED BY <1>4, <2>2, <2>3, <3>1, <3>2, <3>4, <3>5, <3>6
  <2>6. CASE f # ev.who
    <3>1. ScoreIn(u, f) = ScoreIn(t, f)
      <4> HIDE DEF new, ev, u
      <4> QED BY <1>1, <2>6 DEF ScoreIn
    <3>2. \A k : ev # [who |-> f, kind |-> k]
      <4> HIDE DEF ev
      <4> QED BY <2>6
    <3> HIDE DEF new, ev, u
    <3>3. \A k : ResultsFor(f, k, n + 1) = ResultsFor(f, k, n)
      BY <2>3, <2>4, <3>2
    <3> QED BY <2>2, <3>1, <3>3
  <2> QED BY <2>5, <2>6
<1> QED BY <1>8, <1>9 DEF HasAll

Folding(g, t, c, u) ==
    g = [n \in c .. u |-> IF n = c THEN t ELSE Recorded(g[n - 1], results[n])]

\* No result counted before is lost.
LEMMA RecordedGrows ==
    ASSUME NEW t, TableOf(t), NEW ev \in ResultOf, NEW p \in Nat, HasAll(t, p)
    PROVE  HasAll(Recorded(t, ev), p)
<1> DEFINE new == [wins |-> ScoreIn(t, ev.who).wins + (IF ev.kind = Won THEN 1 ELSE 0),
                   losses |-> ScoreIn(t, ev.who).losses + (IF ev.kind = Lost THEN 1 ELSE 0)]
           u == Recorded(t, ev)
<1>1. u = [f \in DOMAIN t \cup {ev.who} |-> IF f = ev.who THEN new ELSE t[f]]
  BY DEF Recorded, ScoreIn
<1>2. DOMAIN u = DOMAIN t \cup {ev.who}
  BY <1>1
<1>3. Cardinality(DOMAIN t) =< Cardinality(DOMAIN u) /\ Cardinality(DOMAIN t) \in Nat /\ Cardinality(DOMAIN u) \in Nat
  <2>1. IsFiniteSet(DOMAIN t) /\ IsFiniteSet(DOMAIN t \cup {ev.who})
    BY FS_AddElement DEF TableOf
  <2> HIDE DEF u
  <2> QED BY <1>2, <2>1, FS_Subset, FS_CardinalityType
<1>4. SUFFICES ASSUME Cardinality(DOMAIN u) < MaxTracked, NEW f \in Fighter
               PROVE  /\ ScoreIn(u, f).wins >= ResultsFor(f, Won, p)
                      /\ ScoreIn(u, f).losses >= ResultsFor(f, Lost, p)
  BY DEF HasAll
<1>5. ScoreIn(t, f).wins >= ResultsFor(f, Won, p) /\ ScoreIn(t, f).losses >= ResultsFor(f, Lost, p)
  <2> HIDE DEF u
  <2>1. Cardinality(DOMAIN t) < MaxTracked
    BY <1>3, <1>4, ReferenceDoorsAssumption
  <2> QED BY <2>1 DEF HasAll
<1>6. ScoreIn(t, f).wins \in Nat /\ ScoreIn(t, f).losses \in Nat
  <2>1. ScoreIn(t, f) \in Score
    BY DEF ScoreIn, TableOf, Score, Unfought
  <2> QED BY <2>1 DEF Score
<1>7. \A k : ResultsFor(f, k, p) \in Nat
  BY ResultsAreNumbers
<1>8. CASE f = ev.who
  <2>1. ScoreIn(u, f) = new
    <3> HIDE DEF new, u
    <3> QED BY <1>1, <1>8 DEF ScoreIn
  <2>2. /\ new.wins = ScoreIn(t, f).wins + (IF ev.kind = Won THEN 1 ELSE 0)
        /\ new.losses = ScoreIn(t, f).losses + (IF ev.kind = Lost THEN 1 ELSE 0)
    BY <1>8
  <2> HIDE DEF new, u
  <2> QED BY <1>5, <1>6, <1>7, <2>1, <2>2
<1>9. CASE f # ev.who
  <2>1. ScoreIn(u, f) = ScoreIn(t, f)
    <3> HIDE DEF new, u
    <3> QED BY <1>1, <1>9 DEF ScoreIn
  <2> HIDE DEF u
  <2> QED BY <1>5, <2>1
<1> QED BY <1>8, <1>9

\* There is such a function, whatever the table.
LEMMA FoldingExists ==
    ASSUME NEW t, NEW c \in Nat, NEW u \in Nat, c =< u
    PROVE  \E g : Folding(g, t, c, u)
<1> USE DEF Folding
<1> DEFINE Folds(g, k) == Folding(g, t, c, k)
           Bad == {k \in c .. u : ~\E g : Folds(g, k)}
<1>1. SUFFICES Bad = {}
  <2>1. u \in c .. u
    OBVIOUS
  <2> QED BY <1>1, <2>1
<1>2. SUFFICES ASSUME Bad # {} PROVE FALSE
  OBVIOUS
<1>3. PICK k \in Bad : \A j \in Bad : k =< j
  <2>1. Bad \in SUBSET Nat
    OBVIOUS
  <2> HIDE DEF Bad
  <2> QED BY <1>2, <2>1, LeastOf
<1>4. k \in c .. u /\ ~\E g : Folds(g, k)
  OBVIOUS
<1>5. k # c
  <2>1. Folds([n \in c .. c |-> t], c)
    OBVIOUS
  <2> HIDE DEF Folds
  <2> QED BY <1>4, <2>1
<1>6. PICK h : Folds(h, k - 1)
  <2>1. k - 1 \in c .. u /\ k - 1 \notin Bad
    <3> HIDE DEF Bad
    <3> QED BY <1>3, <1>4, <1>5
  <2> QED BY <2>1
<1> DEFINE g == [n \in c .. k |-> IF n = k THEN Recorded(h[k - 1], results[k]) ELSE h[n]]
<1>7. Folds(g, k)
  <2>1. ASSUME NEW n \in c .. k
        PROVE  g[n] = IF n = c THEN t ELSE Recorded(g[n - 1], results[n])
    <3>1. CASE n = k
      <4>1. g[n] = Recorded(h[k - 1], results[k])
        BY <3>1
      <4>2. k - 1 \in c .. k /\ k - 1 # k
        BY <1>4, <1>5
      <4>3. g[k - 1] = h[k - 1]
        BY <4>2
      <4> HIDE DEF g
      <4> QED BY <1>5, <3>1, <4>1, <4>3
    <3>2. CASE n # k
      <4>1. n \in c .. k - 1 /\ g[n] = h[n]
        BY <1>4, <3>2
      <4>2. h[n] = IF n = c THEN t ELSE Recorded(h[n - 1], results[n])
        BY <1>6, <4>1
      <4>3. n # c => n - 1 \in c .. k /\ n - 1 # k
        BY <1>4
      <4>4. n # c => g[n - 1] = h[n - 1]
        BY <4>3
      <4> HIDE DEF g
      <4> QED BY <4>1, <4>2, <4>4
    <3> QED BY <3>1, <3>2
  <2> DEFINE F == [n \in c .. k |-> IF n = c THEN t ELSE Recorded(g[n - 1], results[n])]
  <2>2. g = [n \in c .. k |-> g[n]]
    OBVIOUS
  <2>3. g = F
    <3> HIDE DEF g
    <3> QED BY <2>1, <2>2
  <2> QED BY <2>3
<1> QED
  <2> HIDE DEF Folds, g
  <2> QED BY <1>4, <1>7

\* Counting the results up to a place.
LEMMA TallyKeeps ==
    ASSUME NEW t, TableOf(t), results \in Seq(ResultOf),
           NEW c \in Nat, NEW u \in Nat, c =< u, u =< Len(results),
           NEW p \in Nat, HasAll(t, c), HasAll(t, p)
    PROVE  TableOf(Tallied(t, c, u)) /\ HasAll(Tallied(t, c, u), u) /\ HasAll(Tallied(t, c, u), p)
<1> DEFINE g == CHOOSE g : g = [n \in c .. u |-> IF n = c THEN t ELSE Recorded(g[n - 1], results[n])]
           Bad == {k \in c .. u : ~(TableOf(g[k]) /\ HasAll(g[k], k) /\ HasAll(g[k], p))}
<1>1. g = [n \in c .. u |-> IF n = c THEN t ELSE Recorded(g[n - 1], results[n])]
  <2>1. \E f : Folding(f, t, c, u)
    BY FoldingExists
  <2> QED BY <2>1 DEF Folding
<1>2. Tallied(t, c, u) = g[u]
  BY DEF Tallied
<1> HIDE DEF g
<1>3. Bad = {}
  <2>1. SUFFICES ASSUME Bad # {} PROVE FALSE
    OBVIOUS
  <2>2. PICK k \in Bad : \A j \in Bad : k =< j
    <3>1. Bad \in SUBSET Nat
      OBVIOUS
    <3> HIDE DEF Bad
    <3> QED BY <2>1, <3>1, LeastOf
  <2>3. k \in c .. u /\ ~(TableOf(g[k]) /\ HasAll(g[k], k) /\ HasAll(g[k], p))
    OBVIOUS
  <2>4. k # c
    <3>1. c \in c .. u /\ g[c] = t
      BY <1>1
    <3> QED BY <2>3, <3>1
  <2>5. k - 1 \in c .. u /\ k - 1 \notin Bad
    <3> HIDE DEF Bad
    <3> QED BY <2>2, <2>3, <2>4
  <2>6. TableOf(g[k - 1]) /\ HasAll(g[k - 1], k - 1) /\ HasAll(g[k - 1], p)
    BY <2>5
  <2>7. g[k] = Recorded(g[k - 1], results[k])
    BY <1>1, <2>3, <2>4
  <2>8. k - 1 \in Nat /\ (k - 1) + 1 = k /\ results[k] \in ResultOf
    BY <2>3, <2>4
  <2>9. results[(k - 1) + 1] \in ResultOf /\ g[k] = Recorded(g[k - 1], results[(k - 1) + 1])
    BY <2>7, <2>8
  <2>10. TableOf(g[k]) /\ HasAll(g[k], (k - 1) + 1)
    BY <2>6, <2>8, <2>9, RecordedKeeps
  <2>11. HasAll(g[k], p)
    BY <2>6, <2>9, RecordedGrows
  <2> QED BY <2>3, <2>8, <2>10, <2>11
<1>4. u \in c .. u
  OBVIOUS
<1> QED BY <1>2, <1>3, <1>4

LEMMA AboveIsTransitive ==
    ASSUME NEW t, TableOf(t), NEW x \in DOMAIN t, NEW y \in DOMAIN t, NEW z \in DOMAIN t,
           Above(t, x, y), Above(t, y, z)
    PROVE  Above(t, x, z)
<1>1. \A f \in DOMAIN t : t[f].wins \in Nat /\ t[f].losses \in Nat /\ f \in Nat
  <2>1. \A f \in DOMAIN t : t[f] \in Score /\ f \in Fighter
    BY DEF TableOf
  <2> QED BY <2>1, ReferenceDoorsAssumption DEF Score
<1> QED BY <1>1 DEF Above

LEMMA NobodyIsAboveThemselves ==
    ASSUME NEW t, TableOf(t), NEW x \in DOMAIN t PROVE ~Above(t, x, x)
<1>1. t[x].wins \in Nat /\ t[x].losses \in Nat /\ x \in Nat
  <2>1. t[x] \in Score /\ x \in Fighter
    BY DEF TableOf
  <2> QED BY <2>1, ReferenceDoorsAssumption DEF Score
<1> QED BY <1>1 DEF Above

\* A table that is below its limit when it is saved has lost nobody: of those
\* that were dropped the highest has only saved ones above it, as many as the
\* limit.
LEMMA KeptKeeps ==
    ASSUME NEW t, TableOf(t), NEW n \in Nat, HasAll(t, n)
    PROVE  TableOf(Kept(t)) /\ HasAll(Kept(t), n)
<1> DEFINE Higher(f) == {g \in DOMAIN t : Above(t, g, f)}
           top == {f \in DOMAIN t : Cardinality(Higher(f)) < MaxTracked}
           Dropped == DOMAIN t \ top
<1>1. Kept(t) = [f \in top |-> t[f]]
  BY DEF Kept
<1>2. \A f : IsFiniteSet(Higher(f)) /\ Cardinality(Higher(f)) \in Nat
  <2>1. ASSUME NEW f PROVE IsFiniteSet(Higher(f))
    <3>1. Higher(f) \subseteq DOMAIN t /\ IsFiniteSet(DOMAIN t)
      BY DEF TableOf
    <3> HIDE DEF Higher
    <3> QED BY <3>1, FS_Subset
  <2> HIDE DEF Higher
  <2> QED BY <2>1, FS_CardinalityType
<1>3. IsFiniteSet(top) /\ Cardinality(top) \in Nat /\ top \subseteq DOMAIN t
  <2>1. top \subseteq DOMAIN t /\ IsFiniteSet(DOMAIN t)
    BY DEF TableOf
  <2> HIDE DEF top
  <2> QED BY <2>1, FS_Subset, FS_CardinalityType
<1>4. DOMAIN Kept(t) = top
  BY <1>1
<1>5. TableOf(Kept(t))
  <2>1. Kept(t) \in [top -> Score]
    <3> HIDE DEF top
    <3> QED BY <1>1, <1>3 DEF TableOf
  <2> HIDE DEF top
  <2> QED BY <1>3, <1>4, <2>1 DEF TableOf
<1>6. ASSUME Cardinality(top) < MaxTracked PROVE Dropped = {}
  <2> DEFINE Places == {Cardinality(Higher(f)) : f \in Dropped}
  <2>1. SUFFICES ASSUME Dropped # {} PROVE FALSE
    OBVIOUS
  <2>2. Places \in SUBSET Nat /\ Places # {}
    <3> HIDE DEF Higher, Dropped
    <3> QED BY <1>2, <2>1
  <2>3. PICK p \in Places : \A q \in Places : p =< q
    <3> HIDE DEF Places
    <3> QED BY <2>2, LeastOf
  <2>4. PICK f \in Dropped : p = Cardinality(Higher(f))
    <3> HIDE DEF Higher, Dropped
    <3> QED BY <2>3
  <2>5. ASSUME NEW g \in Higher(f) PROVE g \in top
    <3>1. g \in DOMAIN t /\ Above(t, g, f) /\ f \in DOMAIN t
      OBVIOUS
    <3>2. Higher(g) \subseteq Higher(f)
      BY <3>1, AboveIsTransitive
    <3>3. g \notin Higher(g)
      BY <3>1, NobodyIsAboveThemselves
    <3>4. Cardinality(Higher(g)) < Cardinality(Higher(f))
      <4> HIDE DEF Higher
      <4>1. Higher(g) \subseteq Higher(f) /\ Higher(g) # Higher(f)
        BY <2>5, <3>2, <3>3
      <4> QED BY <1>2, <4>1, FS_Subset
    <3>5. g \notin Dropped
      <4> HIDE DEF Higher, Dropped
      <4>1. g \in Dropped => Cardinality(Higher(g)) \in Places
        OBVIOUS
      <4> HIDE DEF Places
      <4> QED BY <1>2, <2>2, <2>3, <2>4, <3>4, <4>1
    <3> QED BY <3>1, <3>5
  <2>6. Cardinality(Higher(f)) =< Cardinality(top)
    <3>1. Higher(f) \subseteq top
      BY <2>5
    <3> HIDE DEF Higher, top
    <3> QED BY <1>3, <3>1, FS_Subset
  <2>7. ~(Cardinality(Higher(f)) < MaxTracked)
    <3>1. f \in DOMAIN t /\ f \notin top
      BY <2>4
    <3> QED BY <3>1
  <2> HIDE DEF Higher, top
  <2> QED BY <1>2, <1>3, <1>6, <2>6, <2>7, ReferenceDoorsAssumption
<1>7. ASSUME Cardinality(top) < MaxTracked PROVE Kept(t) = t
  <2>1. top = DOMAIN t
    BY <1>6, <1>7
  <2> HIDE DEF top
  <2> QED BY <1>1, <2>1 DEF TableOf
<1>8. HasAll(Kept(t), n)
  <2> HIDE DEF top
  <2> QED BY <1>4, <1>7 DEF HasAll
<1> QED BY <1>5, <1>8

LEMMA PageEnds ==
    ASSUME results \in Seq(ResultOf), NEW n \in Nat
    PROVE  PageEnd(n) \in UpToNow
<1>1. Len(results) \in Nat /\ Page \in Nat
  BY ReferenceDoorsAssumption
<1> QED BY <1>1 DEF PageEnd, UpToNow

LEMMA PlaysStart == ExampleInit => ArenaInv
<1> SUFFICES ASSUME ExampleInit PROVE ArenaInv
  OBVIOUS
<1>1. results = <<>> /\ Len(results) = 0 /\ position = 0 /\ ranking = <<>> /\ results \in Seq(ResultOf)
  BY DEF ExampleInit
<1>2. DOMAIN ranking = {} /\ ranking \in [{} -> Score]
  BY <1>1
<1>3. TableOf(ranking)
  BY <1>2, FS_EmptySet DEF TableOf
<1>4. \A f \in Fighter : \A k : ResultsFor(f, k, 0) = 0
  <2>1. \A f, k : {i \in 1 .. 0 : results[i] = [who |-> f, kind |-> k]} = {}
    OBVIOUS
  <2> QED BY <2>1, FS_EmptySet DEF ResultsFor
<1>5. HasAll(ranking, 0)
  <2>1. \A f : ScoreIn(ranking, f) = Unfought
    BY <1>2 DEF ScoreIn
  <2> QED BY <1>4, <2>1 DEF HasAll, Unfought
<1>6. \A s \in Seat : running[s] = NoRun /\ running[s].door = "none"
  BY DEF ExampleInit, NoRun
<1> QED BY <1>1, <1>3, <1>5, <1>6 DEF ArenaInv, UpToNow, ExampleInit, RunOf

\* A result that arrives changes no count up to an earlier place.
LEMMA ArrivalsComeLater ==
    ASSUME results \in Seq(ResultOf), NEW e \in ResultOf, results' = Append(results, e)
    PROVE  /\ results' \in Seq(ResultOf) /\ UpToNow \subseteq UpToNow'
           /\ \A f, k, n : n \in UpToNow => (ResultsFor(f, k, n))' = ResultsFor(f, k, n)
<1>1. results' \in Seq(ResultOf) /\ Len(results') = Len(results) + 1 /\ Len(results) \in Nat
  OBVIOUS
<1>2. ASSUME NEW f, NEW k, NEW n \in UpToNow
      PROVE  (ResultsFor(f, k, n))' = ResultsFor(f, k, n)
  <2>1. \A i \in 1 .. n : results'[i] = results[i]
    BY <1>1 DEF UpToNow
  <2>2. {i \in 1 .. n : results'[i] = [who |-> f, kind |-> k]} = {i \in 1 .. n : results[i] = [who |-> f, kind |-> k]}
    BY <2>1
  <2> QED BY <2>2 DEF ResultsFor
<1>3. UpToNow \subseteq UpToNow'
  BY <1>1 DEF UpToNow
<1> QED BY <1>1, <1>2, <1>3

\* A step of one copy that leaves what is saved alone.
LEMMA CopyMoves ==
    ASSUME ArenaInv, NEW s \in Seat, NEW r, Becomes(s, r), UNCHANGED <<ranking, position, results>>,
           RunOf(r), r.door = "arena" => ArenaOf(r)
    PROVE  ArenaInv'
<1>1. DOMAIN running' = Seat /\ \A x \in Seat : running'[x] = IF x = s THEN r ELSE running[x]
  BY DEF Becomes, ArenaInv
<1>2. UpToNow' = UpToNow /\ TableOf(ranking)'
  BY DEF UpToNow, ArenaInv, TableOf
<1>3. \A t, n : HasAll(t, n)' <=> HasAll(t, n)
  BY DEF HasAll, ResultsFor, ScoreIn
<1>4. HasAll(ranking, position)'
  BY <1>3 DEF ArenaInv
<1>5. ASSUME NEW x \in Seat, (running[x].door = "arena")' PROVE ArenaOf(running[x])'
  <2>1. CASE x = s
    BY <1>1, <1>2, <1>3, <1>5, <2>1 DEF ArenaOf
  <2>2. CASE x # s
    BY <1>1, <1>2, <1>3, <1>5, <2>2 DEF ArenaOf, ArenaInv
  <2> QED BY <2>1, <2>2
<1>6. \A x \in Seat : RunOf(running'[x])
  BY <1>1 DEF ArenaInv
<1> QED BY <1>1, <1>2, <1>4, <1>5, <1>6 DEF ArenaInv, RunOf, NoRun

LEMMA FieldsOfARun ==
    ASSUME ArenaInv, NEW s \in Seat, running[s] # NoRun
    PROVE  /\ DOMAIN running[s] = RunFields /\ running[s].door # "none"
           /\ \A x : /\ RunOf([running[s] EXCEPT !.at = x])
                      /\ [running[s] EXCEPT !.at = x].door = running[s].door
                      /\ [running[s] EXCEPT !.at = x].at = x
BY DEF ArenaInv, RunOf, RunFields

LEMMA ArenaSteps ==
    ASSUME PlayedAlone, ArenaInv, [ExampleNext]_exampleVars
    PROVE  ArenaInv'
<1> USE FieldsOfARun
<1>0. position \in Nat /\ Len(results) \in Nat /\ UpToNow \subseteq Nat /\ 0 \in UpToNow /\ results \in Seq(ResultOf)
  BY DEF ArenaInv, UpToNow
<1>1. ASSUME UNCHANGED <<running, ranking, position, results>> PROVE ArenaInv'
  <2>1. \A t, n : HasAll(t, n)' <=> HasAll(t, n)
    BY <1>1 DEF HasAll, ResultsFor, ScoreIn
  <2>2. UpToNow' = UpToNow /\ TableOf(ranking)' /\ HasAll(ranking, position)'
    BY <1>1, <2>1 DEF UpToNow, ArenaInv, TableOf
  <2>3. ASSUME NEW s \in Seat, (running[s].door = "arena")' PROVE ArenaOf(running[s])'
    BY <1>1, <2>1, <2>2, <2>3 DEF ArenaInv, ArenaOf
  <2> QED BY <1>1, <2>2, <2>3 DEF ArenaInv, RunOf, NoRun
<1>2. ASSUME NEW f \in Fighter, NEW kind \in {Won, Lost, Other}, ResultArrives(f, kind) PROVE ArenaInv'
  <2> DEFINE e == [who |-> f, kind |-> kind]
  <2>1. e \in ResultOf /\ results' = Append(results, e) /\ UNCHANGED <<running, ranking, position>>
    BY <1>2 DEF ResultOf, ResultArrives, saved
  <2> HIDE DEF e
  <2>2. /\ results' \in Seq(ResultOf) /\ UpToNow \subseteq UpToNow'
        /\ \A g, k, n : n \in UpToNow => (ResultsFor(g, k, n))' = ResultsFor(g, k, n)
    BY <1>0, <2>1, ArrivalsComeLater
  <2>3. \A t, n : n \in UpToNow => (HasAll(t, n)' <=> HasAll(t, n))
    BY <2>2 DEF HasAll, ScoreIn
  <2>4. TableOf(ranking)' /\ HasAll(ranking, position)' /\ (position \in UpToNow)'
    BY <2>1, <2>2, <2>3 DEF ArenaInv, TableOf
  <2>5. ASSUME NEW s \in Seat, (running[s].door = "arena")' PROVE ArenaOf(running[s])'
    BY <2>1, <2>2, <2>3, <2>5 DEF ArenaInv, ArenaOf
  <2>6. (DOMAIN running = Seat)' /\ \A s \in Seat : RunOf(running[s])'
    BY <2>1 DEF ArenaInv, RunOf, NoRun
  <2> QED BY <2>2, <2>4, <2>5, <2>6 DEF ArenaInv
<1> DEFINE Still == UNCHANGED <<ranking, position, results>>
<1>3. ASSUME NEW s \in Seat, Leaves(s), Still PROVE ArenaInv'
  <2>1. RunOf(NoRun) /\ NoRun.door # "arena"
    BY DEF RunOf, NoRun
  <2> QED BY <1>3, <2>1, CopyMoves DEF Leaves
<1>4. ASSUME NEW s \in Seat, NEW d \in {"hello", "guess", "arena"}, NEW p \in Player \cup {Guest}, LaunchDoor(s, d, p)
      PROVE  ArenaInv'
  <2>1. RunOf(NewRun(d, p)) /\ ArenaOf(NewRun(d, p))
    BY DEF RunOf, NewRun, RunFields, ArenaOf
  <2> QED BY <1>4, <2>1, CopyMoves DEF LaunchDoor, saved
<1>5. ASSUME NEW s \in Seat, EndsEarly(s) PROVE ArenaInv'
  BY <1>3, <1>5 DEF EndsEarly, saved
\* Steps that change neither what is saved nor, of a run of arena, more than
\* how far it is.
<1>6. ASSUME NEW s \in Seat, NEW x \in {"fight", "cursor", "best", "record", "play", "celebrate", "crown"},
             running[s] # NoRun, Goes(s, x), Still
      PROVE  ArenaInv'
  <2> DEFINE r == [running[s] EXCEPT !.at = x]
  <2>1. RunOf(r) /\ r.at = x
    BY <1>6
  <2>2. ArenaOf(r)
    BY <2>1 DEF ArenaOf
  <2>3. Becomes(s, r)
    BY <1>6 DEF Goes
  <2> HIDE DEF r
  <2> QED BY <1>6, <2>1, <2>2, <2>3, CopyMoves
<1>7. ASSUME NEW s \in Seat, OpenDoor(s) PROVE ArenaInv'
  <2>1. running[s] # NoRun /\ Still
    BY <1>7 DEF OpenDoor, saved
  <2>2. Leaves(s) \/ Goes(s, "best") \/ Goes(s, "fight")
    BY <1>7 DEF OpenDoor
  <2> QED BY <1>3, <1>6, <2>1, <2>2
\* The game of guess.
<1>8. ASSUME NEW s \in Seat, NEW r, running[s].door = "guess", DOMAIN r = RunFields, r.door = "guess",
             Becomes(s, r), Still
      PROVE  ArenaInv'
  BY <1>8, CopyMoves DEF RunOf
<1>9. ASSUME NEW s \in Seat, ReadBest(s) \/ ReadRecord(s) \/ FindsIt(s) PROVE ArenaInv'
  <2>1. running[s].door = "guess" /\ Still
    BY <1>9 DEF ReadBest, ReadRecord, FindsIt, At, saved
  <2>2. running[s] # NoRun
    BY <2>1 DEF NoRun
  <2>3. DOMAIN running[s] = RunFields
    BY <2>2
  <2>4. PICK n, w : \/ Becomes(s, [running[s] EXCEPT !.best = n, !.at = w])
                    \/ Becomes(s, [running[s] EXCEPT !.record = n, !.at = w])
                    \/ Becomes(s, [running[s] EXCEPT !.tries = n, !.at = w])
    BY <1>9 DEF ReadBest, ReadRecord, FindsIt
  <2>5. CASE Becomes(s, [running[s] EXCEPT !.best = n, !.at = w])
    BY <1>8, <2>1, <2>3, <2>5 DEF RunFields
  <2>6. CASE Becomes(s, [running[s] EXCEPT !.record = n, !.at = w])
    BY <1>8, <2>1, <2>3, <2>6 DEF RunFields
  <2>7. CASE Becomes(s, [running[s] EXCEPT !.tries = n, !.at = w])
    BY <1>8, <2>1, <2>3, <2>7 DEF RunFields
  <2> QED BY <2>4, <2>5, <2>6, <2>7
<1>10. ASSUME NEW s \in Seat, SavesBest(s) \/ SavesRecord(s) \/ Reports(s) PROVE ArenaInv'
  <2>1. Still /\ running[s].door # "none"
    BY <1>10 DEF SavesBest, SavesRecord, Reports, At, saved
  <2>2. running[s] # NoRun
    BY <2>1 DEF NoRun
  <2>3. Leaves(s) \/ Goes(s, "crown") \/ Goes(s, "cursor")
    BY <1>10 DEF SavesBest, SavesRecord, Reports
  <2> QED BY <1>3, <1>6, <2>1, <2>2, <2>3
\* The standings.
<1>11. ASSUME NEW s \in Seat, ReadCursor(s) PROVE ArenaInv'
  <2>1. running[s].door = "arena" /\ Still
    BY <1>11 DEF ReadCursor, At, saved
  <2>2. running[s] # NoRun
    BY <2>1 DEF NoRun
  <2>3. PICK n \in {0, position} : Becomes(s, [running[s] EXCEPT !.cursor = n, !.at = "table"])
    BY <1>11 DEF ReadCursor, Reads
  <2> DEFINE r == [running[s] EXCEPT !.cursor = n, !.at = "table"]
  <2>4. DOMAIN r = RunFields /\ r.cursor = n /\ r.at = "table" /\ r.door = "arena"
    BY <2>1, <2>2 DEF RunFields
  <2>5. n \in UpToNow /\ n =< position
    BY <1>0 DEF ArenaInv
  <2>6. RunOf(r) /\ ArenaOf(r)
    BY <2>4, <2>5 DEF RunOf, ArenaOf
  <2> HIDE DEF r
  <2> QED BY <2>1, <2>3, <2>6, CopyMoves DEF r
<1>12. ASSUME NEW s \in Seat, ReadTable(s) PROVE ArenaInv'
  <2>1. running[s].door = "arena" /\ running[s].at = "table" /\ Still
    BY <1>12 DEF ReadTable, At, saved
  <2>2. running[s] # NoRun
    BY <2>1 DEF NoRun
  <2>3. Becomes(s, [running[s] EXCEPT !.table = ranking, !.at = "poll"])
    BY <1>12 DEF ReadTable, PlayedAlone
  <2> DEFINE r == [running[s] EXCEPT !.table = ranking, !.at = "poll"]
  <2>4. DOMAIN r = RunFields /\ r.cursor = running[s].cursor /\ r.table = ranking /\ r.at = "poll"
    BY <2>1, <2>2 DEF RunFields
  <2>5. running[s].cursor \in UpToNow /\ running[s].cursor =< position /\ TableOf(ranking) /\ HasAll(ranking, position)
    BY <2>1 DEF ArenaInv, ArenaOf
  <2>6. HasAll(ranking, running[s].cursor)
    BY <1>0, <2>5, CountsEarlier
  <2>7. RunOf(r) /\ ArenaOf(r)
    <3>1. r.door # "none"
      BY <2>1, <2>2 DEF RunFields
    <3> HIDE DEF r
    <3> QED BY <2>4, <2>5, <2>6, <3>1 DEF RunOf, ArenaOf
  <2>8. Becomes(s, r)
    BY <2>3
  <2> HIDE DEF r
  <2> QED BY <2>1, <2>7, <2>8, CopyMoves
<1>13. ASSUME NEW s \in Seat, Polls(s) PROVE ArenaInv'
  <2> DEFINE c == running[s].cursor
             u == PageEnd(c)
             r == [running[s] EXCEPT !.table = Tallied(running[s].table, c, u), !.next = u, !.at = "save"]
  <2>1. running[s].door = "arena" /\ running[s].at = "poll" /\ Still
    BY <1>13 DEF Polls, At, saved
  <2>2. running[s] # NoRun
    BY <2>1 DEF NoRun
  <2>3. CASE u =< c
    BY <1>3, <1>13, <2>1, <2>3 DEF Polls
  <2>4. CASE ~(u =< c)
    <3>1. Becomes(s, r)
      BY <1>13, <2>4 DEF Polls
    <3>2. /\ c \in UpToNow /\ TableOf(running[s].table)
          /\ HasAll(running[s].table, c) /\ HasAll(running[s].table, position)
      BY <2>1 DEF ArenaInv, ArenaOf
    <3>3. u \in UpToNow
      BY <1>0, <3>2, PageEnds
    <3>4. c =< u /\ u =< Len(results) /\ c \in Nat /\ u \in Nat
      <4> HIDE DEF c, u
      <4> QED BY <1>0, <2>4, <3>2, <3>3 DEF UpToNow
    <3>5. /\ DOMAIN r = RunFields /\ r.next = u /\ r.at = "save" /\ r.door = "arena"
          /\ r.table = Tallied(running[s].table, c, u)
      <4> HIDE DEF c, u
      <4> QED BY <2>1, <2>2 DEF RunFields
    <3> HIDE DEF c, u, r
    <3>6. TableOf(r.table) /\ HasAll(r.table, u) /\ HasAll(r.table, position)
      BY <1>0, <3>2, <3>4, <3>5, TallyKeeps
    <3>7. RunOf(r) /\ ArenaOf(r)
      BY <3>3, <3>5, <3>6 DEF RunOf, ArenaOf
    <3> QED BY <2>1, <3>1, <3>7, CopyMoves
  <2> QED BY <2>3, <2>4
<1>14. ASSUME NEW s \in Seat, SavesTable(s) PROVE ArenaInv'
  <2> DEFINE r == [running[s] EXCEPT !.at = "advance"]
  <2>1. running[s].door = "arena" /\ running[s].at = "save" /\ UNCHANGED <<position, results>>
    BY <1>14 DEF SavesTable, At
  <2>2. running[s] # NoRun
    BY <2>1 DEF NoRun
  <2>3. CASE UNCHANGED ranking /\ Leaves(s)
    BY <1>3, <2>1, <2>3
  <2>4. CASE ranking' = Kept(running[s].table) /\ Goes(s, "advance")
    <3>1. /\ running[s].next \in UpToNow /\ TableOf(running[s].table)
          /\ HasAll(running[s].table, running[s].next) /\ HasAll(running[s].table, position)
      BY <2>1 DEF ArenaInv, ArenaOf
    <3>2. \A n \in Nat : HasAll(running[s].table, n) => TableOf(ranking') /\ HasAll(ranking', n)
      BY <2>4, <3>1, KeptKeeps
    <3>3. TableOf(ranking') /\ HasAll(ranking', position) /\ HasAll(ranking', running[s].next)
      BY <1>0, <3>1, <3>2
    <3>4. \A t, n : HasAll(t, n)' <=> HasAll(t, n)
      BY <2>1 DEF HasAll, ResultsFor, ScoreIn
    <3>5. UpToNow' = UpToNow
      BY <2>1 DEF UpToNow
    <3>6. DOMAIN running' = Seat /\ \A x \in Seat : x = s /\ running'[x] = r
      BY <2>4 DEF Goes, Becomes, ArenaInv, PlayedAlone
    <3>7. RunOf(r) /\ r.next = running[s].next /\ r.at = "advance"
      BY <2>2 DEF RunFields
    <3> HIDE DEF r
    <3>8. TableOf(ranking)' /\ HasAll(ranking, position)' /\ (position \in UpToNow)'
      BY <2>1, <3>3, <3>4, <3>5 DEF ArenaInv, TableOf
    <3>9. ASSUME NEW x \in Seat PROVE ArenaOf(running[x])' /\ RunOf(running[x])'
      BY <3>1, <3>3, <3>4, <3>5, <3>6, <3>7 DEF ArenaOf, RunOf, NoRun
    <3> QED BY <2>1, <3>5, <3>6, <3>8, <3>9 DEF ArenaInv
  <2> QED BY <1>14, <2>3, <2>4 DEF SavesTable
<1>15. ASSUME NEW s \in Seat, SavesCursor(s) PROVE ArenaInv'
  <2>1. running[s].door = "arena" /\ running[s].at = "advance" /\ UNCHANGED <<ranking, results>>
    BY <1>15 DEF SavesCursor, At
  <2>2. Leaves(s) /\ position' \in {position, running[s].next}
    BY <1>15 DEF SavesCursor
  <2>3. running[s].next \in UpToNow /\ HasAll(ranking, running[s].next)
    BY <2>1 DEF ArenaInv, ArenaOf
  <2>4. \A t, n : HasAll(t, n)' <=> HasAll(t, n)
    BY <2>1 DEF HasAll, ResultsFor, ScoreIn
  <2>5. UpToNow' = UpToNow /\ TableOf(ranking)'
    BY <2>1 DEF UpToNow, ArenaInv, TableOf
  <2>6. position' \in UpToNow /\ HasAll(ranking, position')
    BY <2>2, <2>3 DEF ArenaInv
  <2>7. HasAll(ranking, position)'
    BY <2>1, <2>4, <2>6
  <2>8. DOMAIN running' = Seat /\ \A x \in Seat : running'[x] = NoRun
    BY <2>2 DEF Leaves, Becomes, ArenaInv, PlayedAlone
  <2> QED BY <2>1, <2>5, <2>6, <2>7, <2>8, <1>0 DEF ArenaInv, RunOf, NoRun
<1>16. CASE UNCHANGED exampleVars
  BY <1>1, <1>16 DEF exampleVars, saved
<1> QED BY <1>2, <1>4, <1>5, <1>7, <1>9, <1>10, <1>11, <1>12, <1>13, <1>14, <1>15, <1>16 DEF ExampleNext

LEMMA ArenaSays == ArenaInv => ReadIsCounted
BY DEF ArenaInv, ReadIsCounted, HasAll, ScoreIn

----------------------------------------------------------------------------
(* What holds of the board. *)

\* The index follows what each record says of the one before it, whatever
\* order they are indexed in and however the sysop changes the settings.
THEOREM RecordsAreListed == Spec => []ListedAsSigned
<1>1. Init => IndexInv
  BY PartsStart, IndexStarts
<1>2. IndexInv /\ [Next]_vars => IndexInv'
  BY PartsMove, IndexSteps
<1> QED BY <1>1, <1>2, IndexHolds, PTL DEF Spec

\* No row of a blob outlives the files, the requests and the imports that
\* use it, and no file row lacks its blob's.
THEOREM BlobsAreUsed == Spec => []BlobRowsAreUsed
<1>1. Init => FileInv
  BY PartsStart, FilesStart
<1>2. FileInv /\ [Next]_vars => FileInv'
  BY PartsMove, FileSteps
<1>3. FileInv => BlobRowsAreUsed
  BY DEF FileInv
<1> QED BY <1>1, <1>2, <1>3, PTL DEF Spec

\* Whatever step fails, whenever the signal comes, nothing stays open behind
\* serve, the radio has one client, and no call is taken on half a board.
THEOREM ServingIsSound == Spec => []ServeIsSound
<1>1. Init => ServeInv
  BY PartsStart, ServeStarts
<1>2. ServeInv /\ [Next]_vars => ServeInv'
  BY PartsMove, ServeSteps
<1> QED BY <1>1, <1>2, ServeHolds, PTL DEF Spec

\* Kills, second commands and marks that fell behind cost the installation
\* nothing.  A whole database put back may (Whole): numbers go out again.
THEOREM InstallationIsKept == ASSUME ~Whole PROVE Spec => []InstallationHolds
<1>1. Init => InstInv
  BY PartsStart, InstStarts
<1>2. InstInv /\ [Next]_vars => InstInv'
  BY PartsMove, InstSteps
<1>3. InstInv => InstallationHolds
  BY InstIs
<1> QED BY <1>1, <1>2, <1>3, PTL DEF Spec

\* Every file here is shown and opens under the name it is shown by, and its
\* uploader can describe it, unless only a peer announced that very file.
THEOREM CatalogIsShown == Spec => []FilesAreShown
<1>1. Init => CatInv
  BY PartsStart, CatStarts
<1>2. CatInv /\ [Next]_vars => CatInv'
  BY PartsMove, CatSteps
<1> QED BY <1>1, <1>2, CatHolds, PTL DEF Spec

\* Whatever each layer holds and whoever edits the file, a command runs with
\* settings that were judged together and are the ones the sysop set.
THEOREM SettingsAreSound == Spec => [](UsesAreSound /\ LaterLayersWin)
<1>1. Init => SettingsInv
  BY PartsStart, SettingsStart
<1>2. SettingsInv /\ [Next]_vars => SettingsInv'
  BY PartsMove, SettingsSteps
<1>3. SettingsInv => UsesAreSound /\ LaterLayersWin
  BY JudgedIsSound DEF SettingsInv
<1> QED BY <1>1, <1>2, <1>3, PTL DEF Spec

\* And where the directory is spelled as it is and no variable names another,
\* every command finds the installation that init made.
THEOREM SettingsAreFound == ASSUME Plainly PROVE Spec => []SettingsHold
<1>1. Init => SettingsInv /\ HomeInv
  BY PartsStart, SettingsStart, HomeStarts
<1>2. SettingsInv /\ HomeInv /\ [Next]_vars => (SettingsInv /\ HomeInv)'
  BY PartsMove, SettingsSteps, HomeSteps
<1>3. SettingsInv /\ HomeInv => SettingsHold
  BY JudgedIsSound DEF SettingsInv, HomeInv, SettingsHold
<1> QED BY <1>1, <1>2, <1>3, PTL DEF Spec

\* Whoever plays may, in an environment in which the BBS has the last word and with
\* a dropfile whose lines are where they belong; and where the sysop's limits are
\* whole seconds, a limit in the row is one of the program and a row that was
\* saved can be saved again.
THEOREM DoorsAreAsSetUp ==
    ASSUME WholeUnits PROVE Spec => []LaunchedAsSetUp
<1>1. Init => SetupInv
  BY PartsStart, SetupStarts
<1>2. SetupInv /\ [Next]_vars => SetupInv'
  BY PartsMove, SetupSteps
<1>3. SetupInv => LaunchedAsSetUp
  BY DEF SetupInv, LaunchedAsSetUp, RowsStayStorable, Saved
<1> QED BY <1>1, <1>2, <1>3, PTL DEF Spec

\* A fight the league's cursor has passed is in the standings, wherever a run of
\* the game is cut off and whatever it is refused, if no two copies run at once.
THEOREM StandingsAreKept == ASSUME PlayedAlone PROVE Spec => []ReadIsCounted
<1>1. Init => ArenaInv
  BY PartsStart, PlaysStart
<1>2. ArenaInv /\ [Next]_vars => ArenaInv'
  BY PartsMove, ArenaSteps
<1> QED BY <1>1, <1>2, ArenaSays, PTL DEF Spec

\* Every alias means the node it was given, and whoever a file is shown to be
\* with can be reached by the name shown.
THEOREM AliasesMeanOneNode == Spec => [](AliasesReach /\ HolderResolves)
<1>1. Init => RosterInv
  BY PartsStart, RosterStarts
<1>2. RosterInv /\ [Next]_vars => RosterInv'
  BY PartsMove, RosterSteps
<1> QED BY <1>1, <1>2, RosterHolds, PTL DEF Spec

=============================================================================
