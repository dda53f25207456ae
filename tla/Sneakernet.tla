----------------------------- MODULE Sneakernet -----------------------------
(***************************************************************************)
(* Boards that federate by carrying files (internal/sneakernet and the     *)
(* export and import commands of cli/sneakernet.go).  A carrier holds its  *)
(* writer's vector, bundles of records and the bodies of files.  With a    *)
(* carrier to answer, export writes what that carrier's writer misses;     *)
(* without one, everything.                                                *)
(*                                                                         *)
(* One area.  What import does with the bodies, and the requests a carrier *)
(* takes along, are in Files.  Sizes are in units of one bundle.           *)
(***************************************************************************)
EXTENDS VersionVector, Sequences
LOCAL INSTANCE SequencesExt

CONSTANTS BundleRecords,  \* bundle.MaxRecords
          MaxBundles,
          MaxCarrierBytes,
          MaxBlobBytes,
          FileSets,       \* the sequences of file sizes a board may carry
          MaxWritten,     \* bound: carriers written
          MaxUpgraded,    \* bound: boards that get a newer dictionary
          Prolific        \* bound: the boards that write more than one record

ASSUME CarrierAssumption ==
    /\ {BundleRecords, MaxBundles, MaxCarrierBytes, MaxBlobBytes} \subseteq Nat \ {0}
    /\ {MaxWritten, MaxUpgraded} \subseteq Nat
    /\ IsFiniteSet(Node) /\ "anybody" \notin Node

VARIABLES
    held,      \* [Node -> SUBSET Coord]: each board's log
    dict,      \* [Node -> Nat]: the newest compression dictionary it has
    carriers,  \* the carrier files written; a lost one is never imported
    job,       \* [Node -> the import command running there]
    imported   \* [Node -> the carrier last imported in full, if any]

sneakVars == <<held, dict, carriers, job, imported>>

Anybody == "anybody"
NoJob == [on |-> FALSE, next |-> 1, clean |-> TRUE]

SneakInit ==
    /\ held = [n \in Node |-> {}]
    /\ dict = [n \in Node |-> 1]
    /\ carriers = {} /\ imported = [n \in Node |-> {}]
    /\ job = [n \in Node |-> NoJob]

----------------------------------------------------------------------------
(* Writing a carrier. *)

\* Mutant: a batch is written when the next begins, and the last one never.
UnflushedBatches(records) ==
    IF records = <<>> THEN 0 ELSE (Len(records) - 1) \div BundleRecords

Batches(records) == (Len(records) + BundleRecords - 1) \div BundleRecords

Pack(records) ==
    [i \in 1 .. Batches(records) |->
        {records[j] : j \in {k \in DOMAIN records : (k - 1) \div BundleRecords = i - 1}}]

\* The records between their vector and ours, in some order.
RecordsFor(theirs, mine) ==
    LET missing == {c \in Coord : \E r \in Missing(theirs, mine) : InRange(c, r)}
    IN  CHOOSE s \in [1 .. Cardinality(missing) -> missing] :
           \A c \in missing : \E i \in DOMAIN s : s[i] = c

ManifestSize(c) == 1 + Len(c.bundles)
BodySize(c) == FoldLeft(+, 0, c.bodies)

\* Encode and Write: the manifest has a limit, and so has every body.
Encodable(c) ==
    /\ Len(c.bundles) =< MaxBundles
    /\ ManifestSize(c) =< MaxCarrierBytes
    /\ \A i \in DOMAIN c.bodies : c.bodies[i] =< MaxBlobBytes

\* The file appears under its name only when all of it is written.
ExportCarrier(n, to, theirs, bodies) ==
    LET mine == VectorOf(held[n])
        c == [from |-> n, to |-> to, vector |-> mine, min |-> dict[n],
              bundles |-> Pack(RecordsFor(theirs, mine)), bodies |-> bodies]
    IN  /\ Cardinality(carriers) < MaxWritten
        /\ Encodable(c)
        /\ carriers' = carriers \cup {c}
        /\ UNCHANGED <<held, dict, job, imported>>

\* What the writer of c misses, by the vector it wrote down.
Answer(n, c, bodies) == ExportCarrier(n, c.from, c.vector, bodies)

----------------------------------------------------------------------------
(* Reading one. *)

\* The head is read up to the limit and one byte more, bodies and all.
Readable(c) == ManifestSize(c) + BodySize(c) =< MaxCarrierBytes

ImportCarrier(n, c) ==
    /\ ~job[n].on
    /\ Readable(c) /\ c.min =< dict[n]
    /\ job' = [job EXCEPT ![n] = [on |-> TRUE, next |-> 1, clean |-> TRUE, carrier |-> c]]
    /\ UNCHANGED <<held, dict, carriers, imported>>

More(n) == job[n].on /\ job[n].next =< Len(job[n].carrier.bundles)

\* One Apply per bundle.
ApplyBundle(n) ==
    /\ More(n)
    /\ held' = [held EXCEPT ![n] = @ \cup job[n].carrier.bundles[job[n].next]]
    /\ job' = [job EXCEPT ![n].next = @ + 1]
    /\ UNCHANGED <<dict, carriers, imported>>

\* A bundle that does not unpack is reported and passed over.
SkipBundle(n) ==
    /\ More(n)
    /\ job' = [job EXCEPT ![n].next = @ + 1, ![n].clean = FALSE]
    /\ UNCHANGED <<held, dict, carriers, imported>>

ImportEnds(n) ==
    /\ job[n].on /\ ~More(n)
    /\ imported' = IF job[n].clean THEN [imported EXCEPT ![n] = {job[n].carrier}] ELSE imported
    /\ job' = [job EXCEPT ![n] = NoJob]
    /\ UNCHANGED <<held, dict, carriers>>

\* An Apply that fails, or the command stopped: what was applied stays.
ImportAborts(n) ==
    /\ job[n].on
    /\ job' = [job EXCEPT ![n] = NoJob]
    /\ UNCHANGED <<held, dict, carriers, imported>>

----------------------------------------------------------------------------
(* The boards' own lives. *)

\* A record of the board's own, numbered without a gap.
Write(n) ==
    LET seq == Cardinality(SeqsOf(held[n], n)) + 1
    IN  /\ seq =< MaxSeq /\ (n \in Prolific \/ seq = 1)
        /\ held' = [held EXCEPT ![n] = @ \cup {<<n, seq>>}]
        /\ UNCHANGED <<dict, carriers, job, imported>>

Upgrade(n) ==
    /\ dict[n] = 1 /\ ~job[n].on
    /\ Cardinality({m \in Node : dict[m] = 2}) < MaxUpgraded
    /\ dict' = [dict EXCEPT ![n] = 2]
    /\ UNCHANGED <<held, carriers, job, imported>>

SneakNext ==
    \/ \E n \in Node :
          \/ Write(n) \/ Upgrade(n) \/ ApplyBundle(n) \/ SkipBundle(n)
          \/ ImportEnds(n) \/ ImportAborts(n)
          \/ \E bodies \in FileSets :
                \/ ExportCarrier(n, Anybody, Empty, bodies)
                \/ \E c \in carriers : Answer(n, c, bodies)
          \/ \E c \in carriers : ImportCarrier(n, c)

----------------------------------------------------------------------------
(* Properties. *)

\* A carrier imported to the end by a board it was written for, which may be
\* long after and may follow others that were lost, skipped or imported twice,
\* leaves that board with everything its writer had (Export, Import): no second
\* trip is needed for what the first one already knew.
TripIsEnough ==
    \A n \in Node : \A c \in imported[n] :
       c.to \in {Anybody, n} => Dominates(VectorOf(held[n]), c.vector)

\* MaxCarrierBytes "bounds the MANIFEST ... File bodies are NOT counted here":
\* what Write writes, Read reads.
WrittenCanBeRead == \A c \in carriers : Readable(c)

=============================================================================
