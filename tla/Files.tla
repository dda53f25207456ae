------------------------------- MODULE Files -------------------------------
(***************************************************************************)
(* One board's file areas: the catalog (store/files.go), the bytes         *)
(* (blobstore), SFTP sessions that upload, rename and remove               *)
(* (sshd/sftp.go), and the queue of files asked of other boards            *)
(* (store/filerequests.go), which travels on carriers (cli/sneakernet.go)  *)
(* and is answered by the ones that come back.                             *)
(*                                                                         *)
(* There is one area.  A file is named by its content hash; the truncated  *)
(* hash of a request is taken to be unique.  The announcement of a file is *)
(* a record of the log and belongs to Gossip.                              *)
(***************************************************************************)
EXTENDS Integers, Sequences, FiniteSets
LOCAL INSTANCE SequencesExt

CONSTANTS Name, Hash, Nick, Session,
          MaxOpenRequests,     \* MaxOpenFileRequests
          MaxWants,    \* MaxRequests of a carrier
          AwayHolds,   \* what the other board has
          NoHash

ASSUME FilesAssumption ==
    /\ NoHash \notin Hash /\ AwayHolds \subseteq Hash
    /\ MaxOpenRequests \in Nat /\ MaxWants \in Nat

VARIABLES
    files,      \* [Name -> Hash or NoHash], table files
    blobRows,   \* table blobs
    disk,       \* blobs held by the blob store
    requests,   \* table file_requests, by age
    sftp,       \* [Session -> [at, name, hash]]
    ask,        \* the requests on the carrier going out
    reply,      \* the bodies on the carrier coming back
    imp         \* the import command

fileVars == <<files, blobRows, disk, requests, sftp, ask, reply, imp>>

AtRest == [at |-> "idle", name |-> NoHash, hash |-> NoHash]
NoImport == [at |-> "idle", left |-> {}, hash |-> NoHash, open |-> <<>>,
             notes |-> [n \in Name |-> "new"]]

FilesInit ==
    /\ files = [n \in Name |-> NoHash]
    /\ blobRows = {} /\ disk = {} /\ requests = <<>>
    /\ sftp = [s \in Session |-> AtRest]
    /\ ask = {} /\ reply = {} /\ imp = NoImport

----------------------------------------------------------------------------
(* The catalog. *)

\* The name is free: the blob row and the catalog row are one transaction.
PutFile(n, h) ==
    /\ files' = [files EXCEPT ![n] = h]
    /\ blobRows' = blobRows \cup {h}

\* Mutant: the blob row goes with the first entry that named it.
OrphanedAlways(n) == TRUE

\* No other entry has the content.
Orphaned(n) == \A m \in Name \ {n} : files[m] # files[n]

RemoveFile(n) ==
    /\ files' = [files EXCEPT ![n] = NoHash]
    /\ blobRows' = IF Orphaned(n) THEN blobRows \ {files[n]} ELSE blobRows

----------------------------------------------------------------------------
(* The blob store. *)

\* Written under another name, made durable and closed before the rename: a
\* blob is there whole or not at all, and one that is there is left as it is.
PutBlob(h) == disk' = disk \cup {h}

----------------------------------------------------------------------------
(* SFTP. *)

SftpAt(s, a) == sftp[s].at = a
SftpGoes(s, a, n, h) == sftp' = [sftp EXCEPT ![s] = [at |-> a, name |-> n, hash |-> h]]

\* A staging file of the session's own, written at whatever offsets come.
Temp(s, n, h) == SftpGoes(s, "staged", n, h)

\* The name is checked when the transfer starts and again when it is filed.
Filewrite(s, n, h) ==
    /\ SftpAt(s, "idle") /\ files[n] = NoHash
    /\ Temp(s, n, h)
    /\ UNCHANGED <<files, blobRows, disk, requests, ask, reply, imp>>

\* A transfer that fails is thrown away.
TransferError(s) ==
    /\ SftpAt(s, "staged")
    /\ sftp' = [sftp EXCEPT ![s] = AtRest]
    /\ UNCHANGED <<files, blobRows, disk, requests, ask, reply, imp>>

\* Content that is already held is not written again.
Adopt(s) ==
    /\ SftpAt(s, "staged")
    /\ PutBlob(sftp[s].hash)
    /\ SftpGoes(s, "adopted", sftp[s].name, sftp[s].hash)
    /\ UNCHANGED <<files, blobRows, requests, ask, reply, imp>>

AddFile(s) ==
    /\ SftpAt(s, "adopted")
    /\ IF files[sftp[s].name] = NoHash THEN PutFile(sftp[s].name, sftp[s].hash)
                                      ELSE UNCHANGED <<files, blobRows>>
    /\ sftp' = [sftp EXCEPT ![s] = AtRest]
    /\ UNCHANGED <<disk, requests, ask, reply, imp>>

\* The entry first; the bytes after, when no entry has them.
SftpRemove(s, n) ==
    /\ SftpAt(s, "idle") /\ files[n] # NoHash
    /\ RemoveFile(n)
    /\ IF Orphaned(n) THEN SftpGoes(s, "orphaned", n, files[n]) ELSE UNCHANGED sftp
    /\ UNCHANGED <<disk, requests, ask, reply, imp>>

\* The bytes may stay behind: that is logged and no more.
RemoveBytes(s) ==
    /\ SftpAt(s, "orphaned")
    /\ disk' \in {disk, disk \ {sftp[s].hash}}
    /\ sftp' = [sftp EXCEPT ![s] = AtRest]
    /\ UNCHANGED <<files, blobRows, requests, ask, reply, imp>>

RenameFile(n, m) ==
    /\ files[n] # NoHash /\ files[m] = NoHash
    /\ files' = [files EXCEPT ![n] = NoHash, ![m] = files[n]]
    /\ UNCHANGED <<blobRows, disk, requests, sftp, ask, reply, imp>>

----------------------------------------------------------------------------
(* Requests. *)

Open(q) == q.state = "open"
OpenRequests == SelectSeq(requests, Open)

RequestFile(k, n, h) ==
    /\ h \notin blobRows /\ files[n] = NoHash
    /\ Len(SelectSeq(requests, LAMBDA q : q.nick = k /\ Open(q))) < MaxOpenRequests
    /\ \A i \in DOMAIN requests : ~(requests[i].nick = k /\ requests[i].hash = h)
    /\ requests' = Append(requests, [nick |-> k, name |-> n, hash |-> h, state |-> "open"])
    /\ UNCHANGED <<files, blobRows, disk, sftp, ask, reply, imp>>

CancelFileRequest(i) ==
    /\ requests' = RemoveAt(requests, i)
    /\ UNCHANGED <<files, blobRows, disk, sftp, ask, reply, imp>>

\* Told at the next login, once the file has come.
MarkNotified(i) ==
    /\ requests[i].state \in {"filed", "noted"}
    /\ requests' = [requests EXCEPT ![i].state = "told"]
    /\ UNCHANGED <<files, blobRows, disk, sftp, ask, reply, imp>>

\* The hashes still waited for, by the oldest request for each.
WaitedFor == FoldLeft(LAMBDA seen, q : IF Contains(seen, q.hash) THEN seen
                                       ELSE Append(seen, q.hash), <<>>, OpenRequests)

\* Mutant: the newest are asked for.
OpenFileRequestHashesNewest ==
    {WaitedFor[i] : i \in {j \in DOMAIN WaitedFor : j > Len(WaitedFor) - MaxWants}}

\* The oldest of them, as many as a carrier takes.
OpenFileRequestHashes == {WaitedFor[i] : i \in {j \in DOMAIN WaitedFor : j =< MaxWants}}

----------------------------------------------------------------------------
(* Carriers. *)

NotImporting == imp.at \in {"idle", "failed"}

Export ==
    /\ ask' = OpenFileRequestHashes
    /\ UNCHANGED <<files, blobRows, disk, requests, sftp, reply, imp>>

\* The other board answers what it holds and nothing else; one stick goes back
\* and forth, so not while it is read here.  A reply without bodies is nothing
\* to this board.
AwayReplies ==
    /\ ask \cap AwayHolds # {} /\ NotImporting
    /\ reply' = ask \cap AwayHolds
    /\ UNCHANGED <<files, blobRows, disk, requests, sftp, ask, imp>>

CarrierLost ==
    /\ reply # {} /\ NotImporting
    /\ reply' = {}
    /\ UNCHANGED <<files, blobRows, disk, requests, sftp, ask, imp>>

ImportStarts ==
    /\ NotImporting /\ reply # {}
    /\ imp' = [NoImport EXCEPT !.at = "bodies", !.left = reply]
    /\ UNCHANGED <<files, blobRows, disk, requests, sftp, ask, reply>>

\* All bodies are stored before anything is filed.
ReadBody(h) ==
    /\ imp.at = "bodies" /\ h \in imp.left
    /\ PutBlob(h)
    /\ imp' = IF imp.left = {h} THEN [imp EXCEPT !.at = "file", !.left = reply]
                                ELSE [imp EXCEPT !.left = @ \ {h}]
    /\ UNCHANGED <<files, blobRows, requests, sftp, ask, reply>>

\* SatisfyFileRequests: who waits for this content.
Arrived(h) ==
    LET mine == [i \in {j \in DOMAIN requests : Open(requests[j]) /\ requests[j].hash = h} |->
                    requests[i]]
    IN  /\ imp.at = "file" /\ h \in imp.left
        /\ imp' = IF DOMAIN mine = {} /\ imp.left = {h} THEN NoImport
                  ELSE [imp EXCEPT !.left = @ \ {h}, !.hash = h, !.open = mine,
                                   !.at = IF DOMAIN mine = {} THEN "file" ELSE "arrival",
                                   !.notes = [n \in Name |-> "new"]]
        /\ UNCHANGED <<files, blobRows, disk, requests, sftp, ask, reply>>

\* Of the requests found, by age, the one that is dealt with.
Oldest(found) == CHOOSE i \in DOMAIN found : \A j \in DOMAIN found : i =< j
Younger(found) == [i \in DOMAIN found \ {Oldest(found)} |-> found[i]]

\* The same content under the name is what was wanted.
NoteFor(n, h) == IF files[n] \in {NoHash, h} THEN "filed" ELSE "clash"

\* The entry is written once for requests that name the same file.
FileArrival ==
    LET n == imp.open[Oldest(imp.open)].name
        note == IF imp.notes[n] = "new" THEN NoteFor(n, imp.hash) ELSE imp.notes[n]
    IN  /\ imp.at = "arrival"
        /\ IF imp.notes[n] = "new" /\ files[n] = NoHash
           THEN PutFile(n, imp.hash) ELSE UNCHANGED <<files, blobRows>>
        /\ imp' = [imp EXCEPT !.at = "close", !.notes[n] = note]
        /\ UNCHANGED <<disk, requests, sftp, ask, reply>>

Closed(q) == IF imp.notes[q.name] = "filed" THEN "filed" ELSE "noted"

CloseRequest ==
    LET q == imp.open[Oldest(imp.open)]
    IN  /\ imp.at = "close"
        /\ requests' = [i \in DOMAIN requests |->
                           IF requests[i] = q THEN [q EXCEPT !.state = Closed(q)]
                                              ELSE requests[i]]
        /\ imp' = IF DOMAIN Younger(imp.open) # {} THEN [imp EXCEPT !.open = Younger(@), !.at = "arrival"]
                  ELSE IF imp.left = {} THEN NoImport
                  ELSE [imp EXCEPT !.at = "file", !.open = <<>>]
        /\ UNCHANGED <<files, blobRows, disk, sftp, ask, reply>>

\* The command fails or is stopped between any two steps; what it wrote stays.
ImportFails ==
    /\ ~NotImporting
    /\ imp' = [NoImport EXCEPT !.at = "failed"]
    /\ UNCHANGED <<files, blobRows, disk, requests, sftp, ask, reply>>

----------------------------------------------------------------------------
ImportSteps ==
    \/ ImportStarts \/ FileArrival \/ CloseRequest
    \/ \E h \in Hash : ReadBody(h) \/ Arrived(h)

FilesNext ==
    \/ \E s \in Session : \/ TransferError(s) \/ Adopt(s) \/ AddFile(s) \/ RemoveBytes(s)
                          \/ \E n \in Name : SftpRemove(s, n)
                          \/ \E n \in Name, h \in Hash : Filewrite(s, n, h)
    \/ \E n, m \in Name : RenameFile(n, m)
    \/ \E k \in Nick, n \in Name, h \in Hash : RequestFile(k, n, h)
    \/ \E i \in DOMAIN requests : CancelFileRequest(i) \/ MarkNotified(i)
    \/ Export \/ AwayReplies \/ CarrierLost \/ ImportSteps \/ ImportFails

----------------------------------------------------------------------------
(* Properties. *)

\* The table of blobs lists exactly the content some entry has, whatever
\* uploads, renames, removals and arrivals come in between (PutFile,
\* RemoveFile): a row too many is bytes nothing reaches, and one too few lets
\* the file be asked for again.
BlobRowsAreUsed == blobRows = {files[n] : n \in Name} \ {NoHash}

\* The sessions and the importer write the bytes before the entry so that
\* there is never "a row promising content that was never written".
RowsHaveContent == \A n \in Name : files[n] # NoHash => files[n] \in disk

Waits(k, h) == \E i \in DOMAIN requests :
                  requests[i].nick = k /\ requests[i].hash = h /\ Open(requests[i])

\* What is waited for longer than h, and the other board does not have.
Ahead(h) ==
    {WaitedFor[i] : i \in {j \in DOMAIN WaitedFor :
        WaitedFor[j] \notin AwayHolds /\ \A k \in 1 .. j : WaitedFor[k] # h}}

\* A file that the other board holds and somebody waits for comes, or the
\* request is withdrawn, in as many trips as the queue takes, however often
\* carriers are lost and imports stop (carrier.go 106-112,
\* OpenFileRequestHashes: the queue "drains oldest-first over successive
\* hand-offs").  It drains up to the hashes the other board does not have:
\* with as many of those at the head as a carrier asks for, the rest waits
\* until one of them is withdrawn.
Answered ==
    \A k \in Nick, h \in AwayHolds :
       LET Reachable == Waits(k, h) /\ Cardinality(Ahead(h)) < MaxWants
       IN  Reachable ~> ~Reachable

=============================================================================
