# meshbbs: specifications, model checking and proofs

meshbbs is a bulletin board whose instances replicate forums, file catalogs and
mail over a LoRa mesh, over IP and on sticks carried on foot. This directory holds
TLA+ models of it, the TLC configurations that check them on small instances, and
theorems about them checked by TLAPS.

## The system

| Part | Source (`internal/`) | State | Operations | What makes it hard |
|---|---|---|---|---|
| Version vectors | `vv` | origin -> highest contiguous number | Set, Merge, Missing, Dominates, Count | gaps, off-by-one at range ends |
| Record log | `store/records.go`, `seq.go`, `gossipstore.go` | records, reserved numbers, keys | NextSeq, PutRecord, Vector, Apply, CheckSeqIntegrity | crash between reserve and store, records before keys, restores |
| Anti-entropy engine | `gossip` | peers, queued asks, suppression, loss estimate | Tick, Receive (five messages), Publish, ApplyRecords | loss, duplication, reordering, stale asks, suppression |
| Areas and posting | `store/forum.go`, `bbs`, `cli/area.go` | areas, shares, index | area commands, Post, IndexPost | commands of another process between two statements |
| File areas | `store/files.go`, `filerequests.go`, `blobstore`, `sshd/sftp.go` | catalog, blobs, requests | upload, rename, remove, announce, request, import | row, blob and record are written one after the other |
| Bundles (BSMP) | `bsmp`, `fountain`, `bundle` | resume cursors, open decoders, done set | SendRecords, Deliver | refusals in mid-bundle, late symbols, eviction |
| Airtime governor | `governor` | token buckets, window, channel estimate | Allow, Observe, SetInstances, SetAreaShares | sums of many sends against a duty cycle |
| Mesh link | `meshlink`, `meshtastic`, `hammode` | session, peer table, back-off | supervise, deliver, Close | restarts racing Close, deaf radios, wrong clocks |
| IP link | `iplink` | peers, connections | dial, accept, register, drop, Close | several connections to one peer |
| Sneakernet | `sneakernet`, `cli/sneakernet.go` | carrier files | export, answer, import | carriers lost, old, out of order |
| Nodes and users | `store/nodes.go`, `identity`, `succession`, `profile` | roster, aliases, rotations, directory | PutNode, SetAlias, Offer, Resolve, Consider | records in any order, names that look alike |
| Doors | `door`, `store/doors.go`, `store/doorevents.go`, `doorevent` | places, API connections, limits, event queue | Run, halt, API calls, flush | processes that outlive their run |
| Accounts and keys | `store/users.go`, `auth.go`, `webauthn.go`, `keyring`, `webd/auth.go` | users, passkeys, codes, wrapped keys | sign up, enrol, sign in, adopt, reset | two writes of one row, one code twice |
| Front ends | `sshd`, `webd`, `tui` | calls, presence, screens, the lent line | connect, keys, results, time limit, chat | results after the end, late timers |
| Command line | `cli`, `config` | installation, settings, services | init, serve, layers | kills between steps, partial start-up |

Records flow author -> `store` -> `gossip.Publish` -> `bsmp.Outbox` -> link ->
radio -> link -> `bsmp.Inbox` -> `gossip.ApplyRecords` -> `store`. Everything
below the engine may drop, delay or repeat; the engine's periodic digests repair
what was lost. `cli/mesh_serve.go` runs one loop per process that ticks the
engine, flushes door events and drains the link; the sessions of callers publish
from goroutines of their own, and commands are processes of their own on the same
database.

## Modules

Every definition that stands for code has an entry under `map` in `PROJECT.json`
with the lines it translates. Definitions marked *Mutant* in a comment are bugs
that code could plausibly have; each property is shown to notice one of them.
The components share no state in the models: where one uses another, it takes the
other's outcomes as free choices (the engine's `CanSend` may refuse any send, the
outbox's governor any symbol), so each is checked in more situations than the
program puts it in.

| Module | Code | State and steps |
|---|---|---|
| `VersionVector` | `vv/vv.go`, `GossipStore.Vector` | operators. An absent origin reads as zero; the four-byte hash is the vector itself; `Covers(v)` is what a vector claims |
| `Gossip` | `gossip/engine.go`, `store/seq.go`, `records.go`, `gossipstore.go`, `bbs.Post` | `log`, `highWater`, `keys` survive `Crash`; posts under way, queued asks and the suppression flag do not. `NextSeq`, `PutRecord`, `Publish` are the steps of a post; `Tick`, `TickFails`, and `Receive` with one action per message. `net` holds a message as long as it may still be heard, so it is lost, repeated and reordered. Any ask and the heartbeat may be due in any tick |
| `ReplicatedLog` | `docs/design.md`, 6.2.1 and 7.3 | what the log promises: reserve a number, create a record under it that exists nowhere else, copy records that exist. `Gossip` refines it |
| `Heartbeat` | `gossip/schedule.go`, the engine's peer table, the loop's dictionary | time until the next digest, what was heard meanwhile, peers with their ages, the dictionary of the outbox; hearing is immediate |
| `Fountain` | `fountain/codec.go` | symbols received and the rows of the elimination; a symbol is the set of source symbols it combines; masks, which the code hashes, are arbitrary |
| `Bsmp` | `bsmp/outbox.go`, `inbox.go` | `SendRecords` symbol by symbol with the cursor read first and written back last, by several callers; `Deliver` in one step: expiry, decoder, eviction, solve, check, done set, hand-over |
| `Governor` | `governor/governor.go`, the loop's telemetry timer | buckets, window, penalty, network size; `AllowCharge` with its refill and refusals, `Budget`, `Observe`, `SetInstances`, `SetAreaShares`. A packet costs its size times the flood multiplier |
| `MeshLink` | `meshlink/link.go`, `peers.go`, `wire.go` | the supervisor's place, the installed connection, keepalives, the watchdog and `Close`, each a goroutine of its own; the two tables of one binding, announcements with their age, peers that change radios and clocks |
| `RadioSession` | `meshtastic/session.go`, `frame.go`, `stream.go`, `hammode`, `link.go` `deliver` | the configuration dump in a line that outlives its clients, the choice of the channel, the licence, delivery under the inbound quota; at the end the frame search byte by byte |
| `IPLink` | `iplink/link.go`, `cert.go` | sockets on their way from dial or accept through the handshake to a read loop, the table, the steps of `Close` |
| `DoorEvents` | `store/doorevents.go`, `doorevent`, `flushDoorEvents`, `bbs/doorevents.go` | every database call is a step: `Emit` counts, `Insert` inserts; the loop lists, decides, drops, publishes, dequeues, with a fault or `Restart` possible at each; rows carry their age. A part of two runs: its safety in `house`, its liveness in `radio` |
| `DoorRun` | `door/door.go`, `invocation.go`, server of `api.go` | a run's place, its leader and children, connections queued, accepted, tracked, served; what the sandbox of the system does is an outcome |
| `DoorApi` | `door/api.go`, `bbs/doorhost.go`, `store/doors.go` | grants, invocations, hourly turns, saved state of one door |
| `DoorSetup` | `cli/door.go`, `sshd/doors.go`, `door/limits*.go`, `dropfile.go` | rows, what a command read before it writes, lists on screens, launches and their limits, environment and dropfile |
| `ReferenceDoors` | `door/example/example.go` | what the three games read and save, call by call |
| `Files` | `store/files.go`, `filerequests.go`, `sshd/sftp.go`, `cli/sneakernet.go` | names, blob rows, blobs on disk, requests, the steps of an upload and of an import |
| `Catalog` | `store/files.go`, `bbs/bbs.go` | rows, FILE records, the four writes of a description, and the merged listing |
| `Areas` | `store/forum.go`, `cli/area.go`, `bbs.go` | areas, shares, capabilities, a post's record and index row, the loop's copies |
| `Sneakernet` | `sneakernet`, `cli/sneakernet.go` | what each board holds, carriers under way, the bundles of an import |
| `Directories` | `store/nodes.go`, `succession`, `profile` | nodes learned and rotations followed; profiles written and the directory made of them |
| `Roster` | `store/nodes.go`, `identity/*.go` | aliases and the two renderings of an ID, decoded bit by bit |
| `Codec` | `record`, `store/dm.go`, `dmkey`, `vv`, `gossip/digest.go`, `bundle`, `meshlink/wire.go` | what each format writes and reads over small bytes; an encoded value is edited on the way |
| `SignIn` | `webd/auth.go`, `limiter.go`, `store/webauthn.go` | codes, ceremonies, passkeys, token buckets per client and for all |
| `Mailbox` | `sshd/auth.go`, `tui/signup.go`, `bbs.go`, `store/auth.go`, `dm.go`, `keyring`, `dmkey/keyfile.go` | public and wrapped keys, jobs between their read and their write, letters; `agreed` and `overtaken` are history |
| `Sessions` | `sshd/session.go`, `telnet.go`, `webd/session.go`, `ws.go`, `tui/driver.go`, `timelimit.go` | phases of a call, presence, results in flight, timers; what the code keeps by session ID is kept by session ID, so tabs of one browser and channels of one SSH connection share it |
| `Chat` | `tui/chat.go` | channels registered by session ID, signals, goroutines that wait, updates on their way; lines are counted, not kept |
| `Screens` | `tui/model.go`, `keys.go`, `commands.go`, `sysop.go`, `doors.go` | screen, lists with their cursors, commands at the store or coming back |
| `ConnMux` | `sshd/mux.go` | the active port, the pump, the one-chunk slot, writers past the lock |
| `Serve` | `cli/serve.go`, `startFederation` | steps done, what they opened, the deferred calls as they unwind, the loop |
| `Settings` | `config`, `cli/init.go`, `theme`, `logging` | file, environment, flags and what a command used |
| `Instance` | `cli/init.go`, `identity/keys.go`, `store/store.go`, `seq.go` | key file, configuration, database and its backup, commands between their steps |
| `Survey` | `survey` | phases, samples, readings and paced sends |
| `Simulator` | `sim`, `gossiptest` | the event queue, the medium, duty cycle, stores and their corruptions |

`MCGossip`, `MCTransport`, `MCBoard`, `MCDesk`, `MCHouse` and `MCFederation` are
instances for TLC. The last five hold several components at once: a variable
`part` says which one moves, the others stand still, so the number of states is a
sum and not a product. `GossipProofs`, `VersionVectorProofs`, `TransportProofs`,
`HouseProofs`, `QueueProofs`, `FederationProofs`, `DeskProofs` and the end of
`DoorRun` hold the theorems.

## Runs

| Run | Instance | Shows |
|---|---|---|
| `sync` | `MCGossip`: 2 nodes that do not know each other's key, 2 areas, numbers to 2, 1 message in flight, 1 restart, 1 range per request and 1 record per answer | claims are held, requests answerable, keys first, vectors monotone; with fairness the vectors converge and the asks run empty (`Settles`) |
| `relay` | `MCGossip`: 3 nodes, 1 author, 1 number, 2 messages in flight, no restart | the engine implements `ReplicatedLog` |
| `radio` | `MCTransport`: 2 connections, back-off 1 to 4; 2 peers, 2 radios, 1 bad clock; 2 sockets, 2 others of whom 1 is allowed; 1 session, queue of 2, 2 league events, 1 fault | `ConnectionsHold`; a deaf radio is noticed; a peer that stays put is found; every league event is sent or dropped for its age (`Drains`) |
| `board` | `MCBoard`: what must end or come about; 3 file requests over 3 hashes of which the other board has 2, one asked for at a time | `AloneOnNode`; a run of a door ends, a caller's time is up, a request is answered, an interrupted bundle is delivered, boards whose beats suppress each other catch up |
| `desk` | `MCDesk`: files, catalog, areas, services, games, installation (2 posts, 1 number in the roster and 2 in an area), settings, doors, roster | the nine invariants of what the sysop sets up, with every operation cut off or interleaved between its steps |
| `house` | `MCHouse`: door API, calls (2 SSH or telnet or web and a second tab), chat, mail, sign-in, screens, the lent line; league events of 2 sessions, queue of 1, batch of 2, 3 events, 1 record of a peer, 1 fault | the six invariants of what a caller meets, and `EventsSurvive` (nothing lost, wire order, no unpaid record, repeats only after faults, readers skip nothing, queue bounded) |
| `federation` | `MCFederation`: bundles, airtime, erasure code, serial line, radio, carriers (2 boards, 1 of which writes 2 records, 1 record to a bundle, 2 carriers, 1 newer dictionary), keys, profiles, encodings, survey, simulator | the eight invariants of what passes between boards |
| `burn`, `overlap`, `quiet`, `restore`, `standings` | `MCGossip`, `MCBoard`, `MCBoard`, `MCDesk`, `MCDesk` | the disagreements below, each a counterexample |

*Bounds.* Constants that begin with `Max`, and are not limits of the code, cut off
the exploration: `MaxSeq`, `MaxNet`, `MaxCrash`, `MaxAir`, `MaxLost`, `MaxDamage`,
`MaxEvents`, `MaxPeer`, `MaxFaults`, `MaxTime`, `MaxR`, `MaxLines`, `MaxKeyPairs`,
`MaxLetters`, `MaxJobs`, `MaxBorrows`, `MaxKeys`, `MaxCommands`, `MaxArrivals`,
`MaxWire`, `MaxEdits`, `MaxRuns`, `MaxLeague`, `MaxTries`, `MaxSaves`,
`MaxLaunches`, `MaxRestores`, `MaxPosts`, `MaxRows`, `MaxLog`, `MaxRecords`,
`MaxWritten`, `MaxUpgraded`, `MaxScheduled`, `MaxOrigin`, `MaxRecs`, `MaxCodes`,
`MaxCeremonies`, `MaxRequests`, and the
ends of clocks (`End`, `LastTick`, `Horizon`, `MaxClock`, `MaxInstant`). They are
two or three: two numbers are enough for a gap below a record; one message in
flight for any order of handling between two nodes, as each is handled, kept or
lost before the next; three nodes for a relay; two writers for a race on one row;
two borrows for a byte of one to reach the next. The limits that are in the code
(`MaxRanges`, `MaxPush`, `CountCap`, `MaxOpen`, `MaxSymbols`, `MaxQueued`,
`BatchMax`, `PageLimit`, `Limit`, `MaxWants`, `BundleRecords`, `MaxConcurrent`, `PerHour`, `PerHourAllowed`, `Quota`,
`MaxBundles`, `MaxTracked`, `Page`) are set to one, two or three, so that
truncation, saturation, eviction and refusal happen. `Prolific` names the boards that
write more than one record for carriers. In `house` the queue's limit of one is
exceeded only by two sessions that race past the count, and that race is also what
fills a batch. In `federation` a full packet costs three: alone, the node has a
burst of sixteen and an hour's duty of three packets; among two its hour's accrual
is smaller and the floor of the bucket applies. The files of `Screens` are rows
numbered by area, ten to an area at most. Bytes of `Codec` have three bits, and
those of a varint carry one bit of its number each, so that small numbers take one
byte or several; `MaxVarint`, `MaxBatch`, `MaxUnpacked` and `MaxPaste` are the code's
limits in that alphabet.

*Steps that are one.* Some handlers make several calls that are one step here, as
nothing stated depends on what comes between: a bundle is applied as a whole, where an
error of the database may end it in the middle (`store/gossipstore.go:410-423`), after
which anti-entropy asks for the rest; a push reaches only who carries the area, where
the code also stores records of areas it does not federate (337-376); a symbol that
completes a bundle always unpacks, where an unknown dictionary or a damaged stream is
counted and dropped (`bsmp/inbox.go:264-286`); a carrier is cut from one state of the
log (`sneakernet/exchange.go:92-124`); a letter is sealed and stored at once
(`bbs/bbs.go:342-377`); a passkey's counter is read and written at once
(`store/webauthn.go:150-172`); a file's note is looked up and written at once
(`store/filerequests.go:338-354`). `Governor` rounds the estimate of `r` down to a whole
number (`governor/governor.go:635-649`), and `ListPosts` has no limit of a hundred (`store/forum.go:461-478`).

*Deadlock* is checked for `Gossip`, and disabled where the bounds end every
behaviour or the program may really stop (a closed link, a command that is done).

*Fairness.* `Gossip!FairSpec`: the radio may lose anything for any time but from
some point on what is sent is heard, a message is handled once and answered and
nobody crashes; `serve`'s loop ticks for ever and drains the link (weak fairness of
handling, posting, suppression), and an ask or a digest that keeps coming due keeps
being sent (strong fairness, as the bound on messages in flight can disable it in
between). In `MCTransport` the loop that flushes league events ticks every five
seconds and time passes (`QueueFairness`); the link's goroutines and timers run, peers announce
themselves again and again and some fresh announcement is heard. In `MCBoard` the
goroutines of a run go on, a killed process exits and its connections close; time
passes and a session's timers run; sysops carry sticks to and fro, of those carried
some are answered, and at some point no more are lost; a peer that lacks a bundle
keeps asking and the governor lets a symbol through now and again, which it does
because its bucket refills; the beats' channel is clear from some point on.
Nothing is assumed of what callers do.

## Proofs

TLAPS proves what follows for every value of the constants that satisfies the named
assumptions of the modules: any number of nodes, areas, sessions, calls, peers,
sockets, leagues and clients, any setting of the limits and any bound of the
exploration. `AreaAssumption` says that the roster is an area every node carries and
nobody posts to, and that a node knows itself; `SessionsAssumption` what each front
end lets in (telnet knows only guests, the web only members);
`CarrierAssumption` that boards are finitely many and none is called "anybody";
`GovernorAssumption` that there is a largest packet; `HarnessAssumption` that the
records a test signs have an origin and a number that exist;
`RosterAssumption` that an ID has its eight bytes; `FilesAssumption` and
`CatalogAssumption` that what stands for "none" is no hash, area or uploader; `DoorSetupAssumption` that a caller's name
is a text over the four kinds of character the model tells apart. `DoorEventsAssumption`,
`SignInAssumption`, `LinkAssumption` and the others say that limits are positive
numbers and that sets the program enumerates are finite. The theorems about several
components at once are about the specifications of the runs (`MCHouse!Spec`,
`MCFederation!Spec`, `MCDesk!Spec`, ...), in which the constants are as free as in the modules.

| Theorem | Property | Says |
|---|---|---|
| `VersionVectorProofs` | | a log's vector claims what the log holds and stops at the first gap; it grows with the log; missing ranges are exact; merge is union; domination is inclusion |
| `GossipProofs!ClaimsAreTrue`, `RequestsCanBeAnswered`, `KeysComeFirst`, `VectorsGrow`, `AuthorsKeepTheirRecords`, `SequenceNumbersAreFresh`, `TypeCorrect` | `ClaimsAreHeld`, `RequestsAreAnswerable`, `KeyBeforeRecord`, `VectorsNeverRegress` | the engine's safety |
| `GossipProofs!Refinement` | `ImplementsReplicatedLog` | every step of the engine is a step of the abstract log or a stutter |
| `TransportProofs!ConnectionsAreKept` | `ConnectionsHold` | connections and what is recorded of them agree |
| `QueueProofs!EventsAreKept` | `EventsSurvive` | the queue between a game and the mesh keeps its promises |
| `HouseProofs!LineIsLent` | `LineIsSound` | no typed byte astray, no stale frame |
| `HouseProofs!NobodyIsForgotten` | `CallersHold` | no ghost in the presence table, nobody who is alone under an ID missing from it, no wake-up lost in chat |
| `HouseProofs!DoorsKeepTheirBounds` | `ApiHolds` | hourly limits, no state without its door |
| `HouseProofs!NoMailIsLostQuietly` | `NothingStrandedQuietly` | mail is lost only by consent or by overlapping writes |
| `HouseProofs!SigningInIsSound` | `SignInIsSound` | one passkey per code, passkeys resolve, attempts are bounded |
| `HouseProofs!ScreensShowRealRows` | `ScreensHold` | reloads see their write, cursors point at rows |
| `DoorRun!DoorsAreAlone` | `AloneOnNode` | no two programs on one node, no more than the limit |
| `FederationProofs!OneTripIsEnough` | `TripIsEnough` | a carrier imported to the end brings all its writer had |
| `FederationProofs!AirtimeIsEarned` | `AirtimeIsKept` | duty cycle, share of the ceiling, room for control, the survey's pacing |
| `FederationProofs!BundlesAreSound` | `BundlesHold` | only what was sent is handed over, open decoders are few and unfinished; the allowance of a bundle, while its senders do not overlap |
| `FederationProofs!HarnessKeepsFaith` | `HarnessIsHonest` | the simulator's order and duty cycle, the test store's corruptions |
| `FederationProofs!NobodyIsNamedUnasked` | a conjunct of `DirectoriesHold` | who is named was willing |
| `DeskProofs!BlobsAreUsed` | `BlobRowsAreUsed` | no file without its blob's row, no row without a user |
| `DeskProofs!CatalogIsShown` | `FilesAreShown` | what is here is shown, opens by that name, and can be described |
| `DeskProofs!RecordsAreListed` | `ListedAsSigned` | the index says what the records say |
| `DeskProofs!ServingIsSound` | `ServeIsSound` | a failed start leaves nothing open, no call meets half a board |
| `DeskProofs!InstallationIsKept` | `InstallationHolds`, if no whole database is put back | no number twice, whatever is killed |
| `DeskProofs!SettingsAreSound` | two conjuncts of `SettingsHold` | settings in use were judged together; the last layer wins |
| `DeskProofs!SettingsAreFound` | `SettingsHold`, if the directory is spelled plainly | and they are read where `init` put them |
| `DeskProofs!DoorsAreAsSetUp` | `LaunchedAsSetUp`, if limits are whole seconds | who plays may, under the limits set, told by the BBS who and where; rows can be saved again |
| `DeskProofs!StandingsAreKept` | `ReadIsCounted`, if no two copies run at once | what the cursor passed is in the standings |
| `DeskProofs!AliasesMeanOneNode` | two conjuncts of `NamesMeanOneNode` | an alias and a shown holder each reach one node |

*Gossip.* `Inv` is the properties of the runs and two parts more. `SeqReserved` says
that what an author has reserved bounds what anybody holds of it and that each
number under way belongs to one post: without it a new number could not be shown
fresh, nor a stored record be shown new in the refinement. `RosterOnce` says that a
node holds its own key and its roster number never moves: without it a post could be
stored before its author's key. The step that carries the rest is `LogGrows`: no
action shrinks a log, so a claim that was true when it was sent stays true however
late it arrives. The claims themselves are the laws of `VersionVectorProofs`, whose
`VectorStopsAtFirstGap` rests on the least gap of a set of numbers.

*Transports.* Each part has an invariant of its own and a step of one leaves the
others alone. `LinkInv`: every open connection has exactly one owner (the install in
progress, the link, or the read loop that is leaving it), a closed link stays
closed, and while a connection is fetched the next wait already covers what the dead
sessions earned (`WaitIsEarned`, with `LongerIsLonger`). `IPInv` adds that a shut
link's table is empty for good, which is what stops a late handshake.

*Door events.* `QueueInv` must explain why a repeat never reorders and never comes
unpaid. `OldestWereTaken`: a record carries the oldest of its league, so nothing older
is still waiting. With a batch of at most `BatchMax` this gives `SentAreOldest`: rows
that were sent and are still queued are all in the next batch, which is why a repeat
cannot overtake. `RepeatsArePaid` counts: each fault leaves at most one league owing
a repeat (`Owing`), and repeating spends that league's debt, so repeats and debts
together never exceed the faults. `RoomIsLeft` counts the sessions that have passed
the check and not yet inserted (`Admitted`), which bounds the queue by its limit and
the number of sessions that can race. The order of the code's sort is
`OldestFirstIsInOrder`, with `PlacesAreTaken`: every place of a finite set of
numbers is somebody's.

*The house.* `MuxInv`: the slot holds the next key in order or nothing, the pump
reads only into an empty slot, and one port at a time is past the write lock.
`ChatInv`: nobody waits on a channel of somebody else's, so a step of one talker keeps
the signals of the others (`OneTalkerMoves`) and a new registration starts with nothing
missed (`WatchingWakes`). `SessInv`: an ID that is shown has somebody on the line who
has not said goodbye, if on the web, as the web takes its row down then and not when
the socket closes (`SomebodyOn`); `LowestFreeIsFree` gives distinct node numbers. `ApiInv`: what the
limiter has forgotten is out of the hour, so counting the remembered turns counts
them all (`AllowKeepsTheLimit`). `MailInv`: a key some letter needs is with its
owner, agreed to be lost, overwritten by a write that overlapped, or about to be
written by a job that decided when it was still right (`WellDecided`). `CodeInv`: a
code is unused, in one ceremony or in one passkey (`OnePlace`). `RateInv`: for every
pair of admitted attempts, their number is what the bucket held before plus what it
earned between them (`Paced`); spending and earning keep this (`SpendingIsPaced`),
which bounds every hour, not only the ones that start at a tick of the bucket.
`UIInv`: what a command read at the store includes what it wrote before, wherever
its result is now (`Sound`).

*Doors.* `DoorInv`: every session whose program or its child may be alive holds a
place, the counter is the number of places held, and with `NodeLock` each holder's
node is locked and no two holders share one; a place is given up only where nothing the run
started is left.

*Between boards.* `TripInv`: a carrier's vector claims what its writer held, its
bundles have all of that except what the board it answers claimed itself, and an
import that skipped nothing has applied every bundle before `next`. The proof needs
that a list of a set's members exists (`ListingExists`) and that cutting it into
bundles loses none (`PackKeepsAll`). `AirInv`: what the bucket holds together with
what has accrued since its last refill is earned (`Earned`), which rounding down in
two steps instead of one never breaks (`QuotientIsLess`); the capacity always has room
for three packets at the configured multiplier (`RoomForThree`), hence the room for
control. The hour's spending is a sum over the window, so three lemmas say how it
moves when a tick is added, forgotten or spent in (`TotalsGrow`, `TotalsOfOneMore`,
`PrunedIsTotal`), each from the least tick at which it would fail. `PacedInv`: a
transmission of the survey is due at the start of its phase plus one interval for each
that went before, and a retry belongs to one that was due. `CostInv`: where a call
stands is what its bundle has cost, and where no call stands its cursor is; it is not
inductive when two calls overlap, and `BundlesAreSound` says so: its last two conjuncts
are about runs in which they do not (`SendsApart`), as with one caller, and the run
`overlap` is what happens otherwise. `InboxInv` (`Held`): adding one decoder and
evicting the stalest keeps the cap. `LogInv`: a taken slot is never written again, so
harm stays where it was done, and an honest log's mark is the end of its unbroken run.
`ProfInv`: whoever was ever published was willing before.

*The desk.* `FileInv` is `BlobRowsAreUsed` with what the steps under way are about to
write: a session has a name and a content for its entry, and the import command holds
a request it has not yet closed. `CatInv` is that an area has one row of a name; the
rest of `FilesAreShown` is about the listing, whose candidates are compared by an order
of which a least element is needed (`LeastOf`, by well-foundedness). `IndexInv` is
exact for each record, so the order of indexing does not matter. `ServeInv` ties what
is open to the step `serve` has reached, and what is left to close to how it ended.
`InstInv`: what a command has read is not ahead of the database (`Fits`), what peers
hold was published, and what was published is stored; a check that passed has put every
mark at least at the highest stored number (`HighestIs`), so the next one is fresh. A
backup of the whole database put back would break that, as the run `restore` shows, so the
theorem assumes that none is (`~Whole`) and still covers marks that fell behind.
`SettingsInv` is two facts: whatever was used last was judged after its last layer, and each
key has the value of the last layer that sets it. That a command finds what `init` made
takes more (`HomeInv`, `Plainly`): the directory is spelled as it is and no variable
names another, without which it is false (*Home* below). `SetupInv` carries a row from the sysop's
command through the database to a launch: a saved row is storable and its limits are
whole seconds, which is what the database keeps; a limit of less may round to none, so
`WholeUnits` is assumed. That the BBS has the last word in a door's environment
(`BBSIsLast`) holds for any variables the server has and the row lets through, as
no set that is appended has a name twice; that no name moves the lines of a dropfile
(`NoLineMoves`) for any text, by the least character after which a line end would be
left (`SanitizedIs`). `RosterInv`: no alias in the table can be read as an ID,
hence an ID's two renderings and the aliases do not get in each other's way. `ArenaInv`
follows the league's table through a run: what is read, what is folded in and what is
saved has every result up to the cursor it goes with, and up to the saved one, which
may be ahead if the read of it failed. Folding is a recursive function and not
an operator, so it can be reasoned about: it exists (`FoldingExists`) and keeps this
(`TallyKeeps`), each by the least place at which it would not. A saved table below
its limit has dropped nobody (`KeptKeeps`): above the highest of those dropped there
are only saved ones, as many as the limit.

`TLC` takes the first arm of a `CASE` that fits and the prover any; every `CASE` of the
modules has arms of which one fits, or the choice is an `IF`.

*Only model-checked.* Liveness under fairness (`Settles`, `Drains`, `DeafIsNoticed`,
`Identified`, `RunsEnd`, `TimeIsUp`, `Answered`, `Delivered`, `CatchesUp`), for which
the prover has no rules. What a recursive definition or fold computes for every
input, which is induction over data: `Count`, the elimination of `Fountain`
(`DecodesWhenDetermined`), the formats of `Codec` (`OneWireForm`), the chain walk of
`Directories` (`ResolvesToCurrent`, and with it `DirectoriesHold` as a whole), the frame
search (`FramesSurvive`) and an ID decoded bit by bit (`ReadAsSpelled` of
`NamesMeanOneNode`). `AttachmentIsTrue`, and with
it `SerialHolds`, which the attempt to prove it showed to hold only for radios with one
enabled channel of the board's name (*Channels* below).

## Where the code and its comments disagree

Five runs end in a counterexample to what the repository says:

- `burn`: "Burning a sequence number on a crash is free" (`store/seq.go:67`). The
  gap stops the author's own vector for ever; later records of that area are pushed
  once and never announced again.
- `overlap`: `maxSymbolsPerBundle` "bounds what one bundle may ever cost across all
  resumed attempts" (`bsmp/outbox.go:57`). Two calls read the cursor before either
  writes it back (223, 274-298).
- `quiet`: an agreeing peer "has just told the mesh exactly what we would have said"
  (`gossip/schedule.go:210`). `onDigest` compares only the areas both carry
  (`gossip/engine.go:494`).
- `restore`: a restore from a backup "should be caught" (`docs/design.md:1383`). The
  check compares two tables of one restored database (`store/seq.go:138`).
- `standings`: a table that is "missing or unreadable" "starts over from cursor zero"
  (`door/example/example.go:634`). The table starts over and the saved cursor is kept, so
  one failed read takes every fight before that cursor out of the standings.

Met while modelling, without a run. Where a module states the property that does
not hold, it is named.

- *Loss.* A second push before the peer's next digest replaces what was expected of
  the first by the same figure, so one bundle that lands settles both
  (`gossip/engine.go:688-705`; 147: marks "reveal whether bundles are landing").
- *Bundles.* An allowance is shared by all who ask and renewed by a restart only
  (`bsmp/outbox.go:228`); anti-entropy "heals a node that was offline for a week"
  (`gossip/digest.go:22`).
- *Recovery.* The loop observes the metrics of the last handshake
  (`cli/mesh_serve.go:577`), so recovery may be "indefinitely delayed once the
  channel clears" (`governor/governor.go:147`).
- *Silence.* Above the threshold "we stop originating anything but DMs"
  (`governor/governor.go:145`), but `Budget` reports back-pressure to everyone (687).
- *Standings.* The order of the two saves is "the whole of the crash story"
  (`door/example/example.go:700`), without which fights "would be gone from the standings
  forever". Of two copies that overlap, which is how a league is played, one may save its
  older table after the other's and end before its cursor, and the other's cursor then
  passes fights no table has: `ReadIsCounted` fails with `Seat = {1, 2}`. `desk` has one
  seat and a table that can be read, and the theorem says so (`PlayedAlone`).
- *Requests.* A queue of wants "drains oldest-first over successive hand-offs"
  (`sneakernet/carrier.go:110`), so that nobody is "overtaken forever"
  (`store/filerequests.go:210`). As many old requests as a carrier takes for files nobody
  has are asked for on every carrier, and what is behind them never is, until one is
  withdrawn (217-222). `Answered` is about requests with fewer of those ahead.
- *Tabs.* "One WebSocket per signed-in browser" (`webd/ws.go:17`): nothing refuses a
  second (58-125). Two tabs share one row of Who's Online and one channel of the chat, and
  the first to close takes both away (`Sessions!EveryTabIsShown`); so do the channels of
  one SSH connection. The second tab also changes the row's node number while the first
  still shows the old one, which may be given to somebody else.
- *Chat lines.* "A message appears immediately" (`tui/chat.go:119`) and "a session that is
  not currently waiting will pick the line up on its next poll" (55): one said after the
  room was read and before the session registers again appears with the next line, and of
  two readings under way the older may be shown last. `WakesForNews` is about what is said
  once the session has registered.
- *Home.* `MESHBBS_STORAGE_DATA_DIR` is where the data is (`docs/config.md:35`) and
  not where the configuration is looked for (`cli/root.go:113-133`).
- *Offer.* A door that was turned off "is not on offer" (`tui/doors.go:75`), yet
  starts from the list of a session that read it before.
- *Stale files.* A publisher "has to actually look" (`bbs/bbs.go:216`); nothing looks
  again when the announcement fails after the text was stored.
- *Shares.* "must add up to no more than 1" (`cli/area.go:247`, `store/forum.go:287`);
  federating an area that has one is not checked (365), nor are two commands at once
  (`Areas!SharesFitTheBudget`).
- *Leagues.* "carries DOOR_EVENT records and nothing else" (`store/forum.go:42`); what
  was stored under the name before, or is checked against a list that is one tick
  old, is something else (`gossipstore.go:144`; `Areas!LeaguesCarryEvents`).
- *Client-held keys.* Their owner gets "an armoured block to take away"
  (`store/auth.go:194`, `tui/commands.go:261`); the way to it asks for a passphrase
  that nothing can verify (`bbs.go:538`, `store/auth.go:247`).
- *Descriptions.* The cursor stays so that a reload does not "redraw it as a different
  file" (`tui/model.go:382`); another load moves it to the top while the text is
  typed, and the text goes to that file (`keys.go:283`, `model.go:362`;
  `Screens!DescribesTheOneOpened`).
- *Deleting.* "never a row promising content that was never written"
  (`sshd/sftp.go:272`): content uploaded again between the row's removal and the
  blob's (346) loses its bytes.
- *Chains.* `MaxChain` counts the hops behind a rotation and not those ahead
  (`succession/succession.go:274`), and `Resolve` gives up in the middle of a longer
  chain. The run has as many identifiers as such a chain may have.
- *Telnet.* The limit "ends a session after this long", but telnet's model has no
  clock (`sshd/telnet.go:201-217`, `tui/timelimit.go:44`;
  `Sessions!EveryFrontIsLimited`).
- *Idle web sessions.* The tighter bound of an unlocked one is set by the next key
  after the unlocking, if one comes (`webd/ws.go:140-165`).
- *Sticks.* "File bodies are NOT counted here" (`sneakernet/carrier.go:127`); `decode`
  is handed the manifest and what follows it and refuses more than the limit
  (349, `stream.go:81`), so a carrier with 64 MiB of bodies cannot be read.
- *Channels.* "The tail of a previous client's config dump. Ignoring it is the entire
  reason the ID exists" (`meshtastic/session.go:156`); only the tail's end is ignored,
  its channels are appended to ours (203). On a radio with two enabled channels of the
  board's name, of which the tail still names the later one, the link attaches to that
  one and not to the first. The radios of `MCFederation` have one at most, and there `AttachmentIsTrue`
  holds.
- *Queues.* `MaxQueuedDoorEvents` "bounds how many" (`store/doorevents.go:13`);
  sessions that race exceed it by one row each, which is what `QueueIsBounded` states.

Observed besides:

- Configuration: `MESHBBS_*` names nobody knows are ignored; `serve --port` is not
  validated; `theme.dir = ""` scans the data directory; `init` writes the
  environment's values into the file; `config.Secret` has no user; the session limit
  is validated only when the web is enabled (`config.go:454`); `ssh.enabled` is read
  nowhere.
- Installation: `init` that is killed after the key cannot be run again; a torn key
  file stops every command; an old binary runs on a newer schema.
- Doors: `door enable` and `door disable` may lose each other's update
  (`cli/door.go:277`); limits below a second are rounded; `invocation.go:84`
  contradicts `dedupEnv`; an announcement checks and posts in two steps
  (`api.go:572`).
- Federation: asks queue for areas that are held and not federated, and their answers
  are ignored (`gossip/engine.go:469`, `554`); a bundle whose records want a key stays
  done until it expires (`bsmp/inbox.go:184`, `257`); with equal clock readings the
  decoder just touched may be evicted (203); the amateur-radio gate is read once per
  call (`outbox.go:255`); a full door packet is never affordable at the default size
  of the network (`governor.go:123`, `190`); buckets made before `r` climbs are not
  resized (448, 646); airtime charged for a send that fails is not returned
  (`meshlink/link.go:1141`); simultaneous dials close each other, and an accepted
  handshake has no deadline (`iplink/link.go:148`); an export of more than
  `MaxBundles` fails (`exchange.go:114`); a node's row has the highest incarnation and the last name
  (`store/nodes.go:53`); the simulator counts an overflowing inbox as delivered too.
- Accounts: a key nobody knows is told to "log in with your password to add this key"
  (`sshd/auth.go`), and no screen adds one after the sign-up (`tui/signup.go:228`);
  an enrolment code is said to read I and L as 1 and O as 0 (`auth/enrolcode.go`), and
  is hashed as it was typed but for case and separators.
- Bundles: `bundle.Unpack` reads the declared length with `binary.Uvarint`, which takes
  a padded form that `canonicalUvarint` elsewhere refuses.
- Screens: the areas' cursor is not clamped when their list shrinks (`model.go:331`);
  entering the chat again leaves the earlier poll waiting until the session ends
  (`chat.go:131`).

## Not modelled

Time on air (a closed formula in floating point), password hashing (the models take
who can open what; the bytes of a wrapped key are in `Codec`), the link interface, the clock, randomness and
logging, terminal encodings and rendering, the conformance corpus, device detection
and the generated protocol, and the development commands. `PROJECT.json` lists each
component with what its model leaves out.

## Plan

1. `SerialHolds` for radios that may have several channels of one name, with the tail's
   channels in the model, and the disagreement as a run of its own; then its theorem.
2. Compositions: `Gossip` over `Bsmp` over `Governor` on a small instance, in place of
   the free choice each makes now about the layer below.
3. `ReadAsSpelled` for every ID, which is arithmetic on 64 bits; a run of two copies of
   the league's game and one of two tabs.
