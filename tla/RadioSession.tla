---------------------------- MODULE RadioSession ----------------------------
(***************************************************************************)
(* What a node learns from its radio when it attaches, and what it then    *)
(* hears: the configuration dump (internal/meshtastic/session.go),         *)
(* the choice of the channel and the amateur-radio policy                  *)
(* (internal/hammode), and the link's deliver (internal/meshlink/link.go); *)
(* and, at the end, the framing that carries it (frame.go, stream.go).     *)
(*                                                                         *)
(* The line is a queue that outlives its clients: whatever an earlier one  *)
(* left unread is read first.  A slot is numbered by its place.  Packets   *)
(* carry only what deliver looks at; each counts as one byte.              *)
(***************************************************************************)
EXTENDS Integers, Sequences
LOCAL INSTANCE SequencesExt

CONSTANTS Setups,     \* how the radio may be configured: [licensed, slots]
          Ours,       \* the name of the board's channel
          Override,   \* i_accept_part97_responsibility
          Self,       \* this radio's number
          Peer,       \* other radios
          Packets,    \* [from, to, chan, pki, kind]
          Quota,      \* InboundQuotaPerHour
          QuotaWindow,     \* ticks of the quota's window
          Room,       \* waiting capacity
          MaxLine, MaxAsks, MaxReboots, MaxHeard  \* bounds

ASSUME RadioAssumption ==
    /\ \A s \in Setups : s.licensed \in BOOLEAN
    /\ Override \in BOOLEAN /\ Self \notin Peer
    /\ Quota \in Nat /\ QuotaWindow \in Nat \ {0} /\ Room \in Nat

VARIABLES
    setup,     \* the radio's configuration
    dump,      \* what the radio has still to say of it
    line,      \* messages on the line
    handshake,   \* the handshake: [at, id, info, pending]
    asks,      \* handshakes begun
    session,   \* what connect installed: [up, chan, licensed]
    current,   \* the radio has not restarted since it was asked (history)
    refused,   \* the last handshake ended in a refusal not worth retrying
    known,     \* radios with a node ID bound to them, see MeshLink
    inbound,   \* [Peer -> [age, bytes, alerted]]
    waiting,     \* senders of the datagrams waiting for the engine
    reboots,   \* restarts of the radio
    overheard      \* packets the radio has heard

radioVars == <<setup, dump, line, handshake, asks, session, current, refused, known, inbound,
               waiting, reboots, overheard>>

Nowhere == -1
NoInfo == [num |-> 0, licensed |-> FALSE, channels |-> <<>>]
NotReading == [at |-> "idle", id |-> 0, info |-> NoInfo, pending |-> <<>>]
Detached == [up |-> FALSE, chan |-> Nowhere, licensed |-> FALSE]

\* What the firmware says in answer to a request.
Dump(s, id) ==
    <<[kind |-> "my"], [kind |-> "node", licensed |-> s.licensed]>>
      \o [i \in DOMAIN s.slots |-> [kind |-> "channel", slot |-> [index |-> i] @@ s.slots[i]]]
      \o <<[kind |-> "complete", id |-> id]>>

\* Another client was served before us, and may have left before the end.
RadioInit ==
    /\ setup \in Setups
    /\ dump \in Suffixes(Dump(setup, 0))
    /\ line = <<>> /\ handshake = NotReading /\ asks = 0
    /\ session = Detached /\ current = TRUE /\ refused = FALSE
    /\ known = {} /\ waiting = <<>>
    /\ inbound = [p \in Peer |-> [age |-> QuotaWindow, bytes |-> 0, alerted |-> FALSE]]
    /\ reboots = 0 /\ overheard = 0

traffic == <<known, inbound, waiting>>

----------------------------------------------------------------------------
(* The handshake: Configure and readConfig. *)

Configure ==
    /\ ~session.up /\ handshake.at = "idle" /\ asks < MaxAsks
    /\ asks' = asks + 1
    /\ handshake' = [NotReading EXCEPT !.at = "reading", !.id = asks']
    /\ dump' = Dump(setup, asks')
    /\ current' = TRUE
    /\ refused' = FALSE
    /\ UNCHANGED <<setup, line, session, traffic, reboots, overheard>>

\* The handshake times out; the connection is closed.
ConfigureTimesOut ==
    /\ handshake.at = "reading"
    /\ handshake' = NotReading
    /\ UNCHANGED <<setup, dump, line, asks, session, current, refused, traffic, reboots, overheard>>

\* Mutant: the tail of an earlier client's dump ends the handshake.
EndsTheDumpAny(msg) == msg.kind = "complete"

EndsTheDump(msg) == msg.kind = "complete" /\ msg.id = handshake.id

\* What one message adds.  The licence is our own node's, so it is looked for
\* once we know which that is.
Learnt(info, msg) ==
    CASE msg.kind = "my" -> [info EXCEPT !.num = Self]
      [] msg.kind = "node" /\ info.num # 0 -> [info EXCEPT !.licensed = msg.licensed]
      [] msg.kind = "channel" -> [info EXCEPT !.channels = Append(@, msg.slot)]
      [] OTHER -> info

ReadConfig ==
    /\ handshake.at = "reading" /\ line # <<>>
    /\ line' = Tail(line)
    /\ LET msg == Head(line)
       IN  handshake' =
             CASE EndsTheDump(msg) -> [handshake EXCEPT !.at = "complete"]
               [] msg.kind = "rebooted" -> NotReading
               [] msg.kind = "packet" -> [handshake EXCEPT !.pending = Append(@, msg.packet)]
               [] OTHER -> [handshake EXCEPT !.info = Learnt(@, msg)]
    /\ UNCHANGED <<setup, dump, asks, session, current, refused, traffic, reboots, overheard>>

----------------------------------------------------------------------------
(* connect: the channel, the licence, the session. *)

\* channelIndex: the first enabled channel of our name.
Enabled(channels) == SelectSeq(channels, LAMBDA c : c.on /\ c.name = Ours)

Restricted(licensed) == licensed /\ ~Override

\* CheckChannel: under Part 97 no channel of our name may have a key.
CheckChannel(info) ==
    Restricted(info.licensed)
       => \A i \in DOMAIN info.channels : info.channels[i].name = Ours => ~info.channels[i].coded

\* Neither refusal is worth trying again.
RefuseRadio ==
    /\ handshake.at = "complete"
    /\ Enabled(handshake.info.channels) = <<>> \/ ~CheckChannel(handshake.info)
    /\ refused' = TRUE
    /\ handshake' = NotReading
    /\ UNCHANGED <<setup, dump, line, asks, session, current, traffic, reboots, overheard>>

Install ==
    /\ handshake.at = "complete"
    /\ Enabled(handshake.info.channels) # <<>> /\ CheckChannel(handshake.info)
    /\ session' = [up |-> TRUE, chan |-> Head(Enabled(handshake.info.channels)).index,
                   licensed |-> handshake.info.licensed]
    /\ handshake' = [NotReading EXCEPT !.at = "pending", !.pending = handshake.pending]
    /\ UNCHANGED <<setup, dump, line, asks, current, refused, traffic, reboots, overheard>>

----------------------------------------------------------------------------
(* deliver. *)

\* A direct message comes on the PKI index, addressed to us.
OnOurChannel(p) == p.chan = session.chan \/ (p.pki /\ p.to = Self)

\* The first reason there is not to hand the packet on.
Fate(p) ==
    IF p.kind \in {"coded", "otherport"} \/ ~OnOurChannel(p) THEN "dropped"
    ELSE IF p.from = Self THEN "echo"
    ELSE IF p.kind = "empty" THEN "dropped"
    ELSE IF p.kind \in {"announce", "whois"} THEN p.kind
    ELSE IF p.from \notin known THEN "unattributed" ELSE "data"

\* NoteInbound: a window that is over gives way to a new one.
Renewed(rec) == IF rec.age >= QuotaWindow THEN [age |-> 0, bytes |-> 0, alerted |-> FALSE] ELSE rec

NoteInbound(p) ==
    LET rec == [Renewed(inbound[p]) EXCEPT !.bytes = IF @ > Quota THEN @ ELSE @ + 1]
    IN  [rec EXCEPT !.alerted = @ \/ rec.bytes > Quota]

DeliverPacket(p) ==
    /\ known' = IF Fate(p) = "announce" THEN known \cup {p.from} ELSE known
    /\ IF Fate(p) = "data"
       THEN /\ inbound' = [inbound EXCEPT ![p.from] = NoteInbound(p.from)]
            /\ waiting' = IF inbound'[p.from].bytes =< Quota /\ Len(waiting) < Room
                        THEN Append(waiting, p) ELSE waiting
       ELSE UNCHANGED <<inbound, waiting>>

\* What came with the handshake is delivered once the session stands.
DeliverPending ==
    /\ handshake.at = "pending"
    /\ IF handshake.pending = <<>>
       THEN handshake' = NotReading /\ UNCHANGED traffic
       ELSE /\ handshake' = [handshake EXCEPT !.pending = Tail(@)]
            /\ DeliverPacket(Head(handshake.pending))
    /\ UNCHANGED <<setup, dump, line, asks, session, current, refused, reboots, overheard>>

\* readLoop: only packets are looked at.
ReadLoop ==
    /\ session.up /\ handshake.at = "idle" /\ line # <<>>
    /\ line' = Tail(line)
    /\ IF Head(line).kind = "packet" THEN DeliverPacket(Head(line).packet) ELSE UNCHANGED traffic
    /\ UNCHANGED <<setup, dump, handshake, asks, session, current, refused, reboots, overheard>>

Drain ==
    /\ waiting # <<>>
    /\ waiting' = Tail(waiting)
    /\ UNCHANGED <<setup, dump, line, handshake, asks, session, current, refused, known,
                   inbound, reboots, overheard>>

----------------------------------------------------------------------------
(* The radio, the mesh and the clock. *)

RadioSays ==
    /\ dump # <<>> /\ Len(line) < MaxLine
    /\ line' = Append(line, Head(dump))
    /\ dump' = Tail(dump)
    /\ UNCHANGED <<setup, handshake, asks, session, current, refused, traffic, reboots, overheard>>

RadioHears ==
    /\ Len(line) < MaxLine /\ overheard < MaxHeard
    /\ overheard' = overheard + 1
    /\ \E p \in Packets : line' = Append(line, [kind |-> "packet", packet |-> p])
    /\ UNCHANGED <<setup, dump, handshake, asks, session, current, refused, traffic, reboots>>

\* Its owner sets it up anew and it starts again: it says so on the line.
Reboots ==
    /\ reboots < MaxReboots /\ Len(line) < MaxLine
    /\ reboots' = reboots + 1
    /\ setup' \in Setups
    /\ dump' = <<>>
    /\ line' = Append(line, [kind |-> "rebooted"])
    /\ current' = FALSE
    /\ UNCHANGED <<handshake, asks, session, refused, traffic, overheard>>

\* The connection is lost, see MeshLink; the session is released.
LoseSession ==
    /\ session.up /\ handshake.at = "idle"
    /\ session' = Detached
    /\ UNCHANGED <<setup, dump, line, handshake, asks, current, refused, known, inbound, waiting, reboots, overheard>>

HourPasses ==
    /\ \E p \in Peer : inbound[p].age < QuotaWindow
    /\ inbound' = [p \in Peer |-> [inbound[p] EXCEPT !.age = IF @ < QuotaWindow THEN @ + 1 ELSE @]]
    /\ UNCHANGED <<setup, dump, line, handshake, asks, session, current, refused, known, waiting, reboots, overheard>>

RadioNext ==
    \/ Configure \/ ConfigureTimesOut \/ ReadConfig \/ RefuseRadio \/ Install
    \/ DeliverPending \/ ReadLoop \/ Drain
    \/ RadioSays \/ RadioHears \/ Reboots \/ LoseSession \/ HourPasses

----------------------------------------------------------------------------
(* Properties. *)

\* The tail of an earlier dump and a restart half way through do not count: a
\* session is on the slot of its channel and under the radio's licence, and a
\* refusal not worth retrying is one the radio as it is would meet with again
\* (Configure, channelIndex, CheckChannel).
AttachmentIsTrue ==
    LET said == [i \in DOMAIN setup.slots |-> [index |-> i] @@ setup.slots[i]]
        right == Enabled(said)
        coded == Restricted(setup.licensed) /\ \E i \in DOMAIN said : said[i].name = Ours /\ said[i].coded
    IN  current =>
          /\ session.up => /\ right # <<>> /\ session.chan = Head(right).index
                           /\ session.licensed = setup.licensed /\ ~coded
          /\ refused => right = <<>> \/ coded

----------------------------------------------------------------------------
(* The framing.  The radio mixes its frames with log text, and what it     *)
(* writes may hold either start byte, or a header with a length no frame   *)
(* can have.  A length takes one byte here instead of two.                 *)

CONSTANTS Payloads,    \* payloads of frames, sequences of bytes
          MaxFrame, MaxWire,
          MaxItems     \* frames and stray bytes written

S1 == 148
S2 == 195
Text == 65
Stray == {S1, S2, Text}
HeaderLen == 3

VARIABLES
    wire,       \* bytes written and not read
    last,       \* the last byte written, to tell what the text contains
    items,
    sentFrames, gotFrames, lines,
    eof

frameVars == <<wire, last, items, sentFrames, gotFrames, lines, eof>>

FrameInit ==
    /\ wire = <<>> /\ last = Text /\ items = 0
    /\ sentFrames = <<>> /\ gotFrames = <<>> /\ lines = <<>>
    /\ eof = FALSE

Writes(bytes) ==
    /\ ~eof /\ items < MaxItems
    /\ Len(wire) + Len(bytes) =< MaxWire
    /\ wire' = wire \o bytes
    /\ last' = Last(bytes)
    /\ items' = items + 1

AppendFrame(p) ==
    /\ Len(p) =< MaxFrame
    /\ Writes(<<S1, S2, Len(p)>> \o p)
    /\ sentFrames' = Append(sentFrames, p)
    /\ UNCHANGED <<gotFrames, lines, eof>>

\* Log text; it holds the two start bytes in a row only with a length that
\* gives it away.
WriteText(b) ==
    /\ ~(last = S1 /\ b = S2)
    /\ Writes(<<b>>)
    /\ UNCHANGED <<sentFrames, gotFrames, lines, eof>>

WriteBadHeader ==
    /\ Writes(<<S1, S2, MaxFrame + 1>>)
    /\ UNCHANGED <<sentFrames, gotFrames, lines, eof>>

Hangup ==
    /\ ~eof
    /\ eof' = TRUE
    /\ UNCHANGED <<wire, last, items, sentFrames, gotFrames, lines>>

----------------------------------------------------------------------------
\* A header needs all its bytes before it is judged.
Header == Len(wire) >= HeaderLen /\ wire[1] = S1 /\ wire[2] = S2 /\ wire[3] =< MaxFrame

NotHeader ==
    \/ Len(wire) >= HeaderLen /\ ~Header
    \/ eof /\ wire # <<>> /\ (wire[1] # S1 \/ (Len(wire) > 1 /\ wire[2] # S2))

\* One byte is skipped and the search starts again at the next.
SkippedBytes == 1

SkipByte ==
    /\ NotHeader
    /\ lines' = lines \o SubSeq(wire, 1, SkippedBytes)
    /\ wire' = SubSeq(wire, SkippedBytes + 1, Len(wire))
    /\ UNCHANGED <<last, items, sentFrames, gotFrames, eof>>

ReadFrame ==
    /\ Header /\ Len(wire) >= HeaderLen + wire[3]
    /\ gotFrames' = Append(gotFrames, SubSeq(wire, HeaderLen + 1, HeaderLen + wire[3]))
    /\ wire' = SubSeq(wire, HeaderLen + wire[3] + 1, Len(wire))
    /\ UNCHANGED <<last, items, sentFrames, lines, eof>>

\* The stream ends inside a header: its bytes count as skipped.
UnexpectedEOF ==
    /\ eof /\ wire # <<>> /\ ~NotHeader
    /\ Len(wire) < HeaderLen
    /\ lines' = lines \o wire
    /\ wire' = <<>>
    /\ UNCHANGED <<last, items, sentFrames, gotFrames, eof>>

FrameNext ==
    \/ \E p \in Payloads : AppendFrame(p)
    \/ \E b \in Stray : WriteText(b)
    \/ WriteBadHeader \/ Hangup \/ SkipByte \/ ReadFrame \/ UnexpectedEOF

----------------------------------------------------------------------------
(* Property of the framing. *)

\* Whatever lies between the frames, every frame the radio wrote is read whole
\* and in order, and nothing else is read as one (ReadFrame's search).
FramesSurvive ==
    /\ IsPrefix(gotFrames, sentFrames)
    /\ Len(wire) < HeaderLen => gotFrames = sentFrames

=============================================================================
