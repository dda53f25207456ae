------------------------------- MODULE Codec -------------------------------
(***************************************************************************)
(* The wire forms of records and of their bodies (internal/record,         *)
(* store/dm.go), of vectors and digests (internal/vv, gossip/digest.go),   *)
(* of bundles (internal/bundle), of the link's own frames                  *)
(* (meshlink/wire.go), of a wrapped key (internal/keyring) and of a mail   *)
(* that is carried by hand (dmkey/armour.go).  What is checked is that a   *)
(* value has one form: IDs, signatures and duplicate detection are over    *)
(* bytes, so a second form of the same value would be a second value.      *)
(*                                                                         *)
(* The bytes are scaled down.  A byte is 0 .. 7; a varint carries one bit  *)
(* of the value in each byte and 2 says that more follow; identifiers,     *)
(* keys, hashes and timestamps are one byte, 0 being the zero value.  In a *)
(* label 0 is a control character and in a file name 3 is a separator.  A  *)
(* signature is one byte, a sum of the signer's key and what was signed;   *)
(* compression shifts every byte by the dictionary's number.               *)
(***************************************************************************)
EXTENDS Integers, Sequences
LOCAL INSTANCE SequencesExt

CONSTANTS Samples,      \* what is written: [format, value]
          MaxLabel,     \* bytes of a label
          MaxTags,      \* MaxFileTags
          MaxEvents,    \* MaxDoorEventsPerRecord
          MaxPayload,   \* MaxDoorEventPayloadLen
          MaxBody,      \* MaxBodyLen
          MaxVarint,    \* bytes of a varint
          MaxRecs,      \* bundle.MaxRecords
          MaxOrigin,    \* bundle.MaxOrigins, vv.MaxOrigins, MaxAreas
          MaxBatch,     \* MaxDoorEventBodyLen
          MaxUnpacked,  \* MaxDecompressed
          Dictionaries, \* the dictionaries this build holds
          MaxPaste,     \* MaxArmourBytes
          MaxEdits      \* bound: how often a form is changed on its way

ASSUME CodecAssumption ==
    /\ {MaxLabel, MaxTags, MaxEvents, MaxPayload, MaxBody, MaxVarint, MaxRecs, MaxOrigin, MaxBatch,
         MaxUnpacked, MaxPaste, MaxEdits} \subseteq Nat
    /\ 0 \in Dictionaries /\ Dictionaries \subseteq Nat

Byte == 0 .. 7
Version == 1

\* Record types, and the frames the link writes itself.
Types == [post |-> 0, file |-> 1, event |-> 2, node |-> 4, profile |-> 5, succession |-> 6]
FrameAnnounce == 2
FrameWhoIs == 3

VARIABLES sample, encoded, edits

codecVars == <<sample, encoded, edits>>

----------------------------------------------------------------------------
(* Writing. *)

\* AppendUvarint: the low bits first.
Uvarint(v) ==
    LET size == CHOOSE n \in 1 .. MaxVarint : v < 2^n /\ \A k \in 1 .. n - 1 : v >= 2^k
    IN  [i \in 1 .. size |-> ((v \div 2^(i - 1)) % 2) + (IF i < size THEN 2 ELSE 0)]

\* AppendVarint: zigzag.
Varint(v) == Uvarint(IF v < 0 THEN -2 * v - 1 ELSE 2 * v)

WithLength(s) == <<Len(s)>> \o s

MarshalPostBody(p) == WithLength(p.author) \o WithLength(p.subject) \o p.text

MarshalNodeBody(n) ==
    <<n.key, n.incarnation>> \o WithLength(n.name) \o WithLength(n.contact)

MarshalProfileBody(p) == WithLength(p.nick) \o <<p.key, p.flags>>

MarshalFileBody(f) ==
    WithLength(f.name) \o Uvarint(f.size) \o <<f.hash>> \o WithLength(f.desc) \o <<Len(f.tags)>>
      \o FlattenSeq([i \in DOMAIN f.tags |-> WithLength(f.tags[i])])

MarshalEvent(e) ==
    <<e.kind>> \o WithLength(e.actor) \o WithLength(e.target)
      \o (IF e.target = <<>> THEN <<>> ELSE <<e.node>>) \o WithLength(e.payload)

MarshalDoorEventBody(d) ==
    WithLength(d.game) \o <<Len(d.events)>> \o FlattenSeq([i \in DOMAIN d.events |-> MarshalEvent(d.events[i])])

MarshalSealedPayload(p) == WithLength(p.subject) \o p.text

MarshalDMBody(d) == WithLength(d.sender) \o WithLength(d.recipient) \o d.sealed

MarshalSuccessionBody(x) == <<x.successor, x.key, x.effective>>

\* The ID of a key: a hash of it.
NodeIDFromPublicKey(k) == 3 - k

\* Vector.Origins: in one order, however the map is walked.
SortedOrigins(v) == SetToSortSeq(DOMAIN v, <)

\* Vector.Encode: the origins in ascending order, each with its number.
EncodeVector(v) ==
    LET order == SortedOrigins(v)
    IN  Uvarint(Len(order)) \o FlattenSeq([i \in DOMAIN order |-> <<order[i]>> \o Uvarint(v[order[i]])])

\* Digest.Encode sorts by tag: the value is the areas by tag.
EncodeDigest(d) ==
    LET order == SetToSortSeq(DOMAIN d.areas, <)
    IN  <<Version, d.dictionary, Len(order)>>
          \o FlattenSeq([i \in DOMAIN order |-> <<order[i], d.areas[order[i]].hash, d.areas[order[i]].count>>])

\* FileBodyLen and DoorEventBodyLen: what a body will cost, before it exists.
FileBodyLen(f) ==
    3 + Len(f.name) + Len(Uvarint(f.size)) + Len(f.desc) + 1
      + FoldLeft(LAMBDA n, t : n + 1 + Len(t), 0, f.tags)

DoorEventBodyLen(d) ==
    LET cost(e) == 4 + Len(e.actor) + Len(e.payload) + (IF e.target = <<>> THEN 0 ELSE Len(e.target) + 1)
    IN  2 + Len(d.game) + FoldLeft(LAMBDA n, e : n + cost(e), 0, d.events)

CanonicalBytes(r) ==
    <<Version, IF r.parent = 0 THEN 0 ELSE 1, r.type, r.origin>> \o Uvarint(r.seq) \o <<r.ts, r.area>>
      \o (IF r.parent = 0 THEN <<>> ELSE <<r.parent>>) \o Uvarint(Len(r.body)) \o r.body

\* What travels: the signed bytes and the signature after them.
Marshal(r) == CanonicalBytes(r) \o <<r.sig>>

Sign(key, bytes) == FoldLeft(LAMBDA sum, x : (sum + x) % 4, key, bytes)

EncodeAnnounce(a) ==
    LET body == <<FrameAnnounce, a.key, a.radio, a.at>> IN Append(body, Sign(a.key, body))

EncodeWhoIs(target) == <<FrameWhoIs, target>>

\* WrappedKey.Encode.
EncodeWrapped(w) == <<w.version, w.memory, w.time, w.threads>> \o WithLength(w.salt) \o w.sealed

\* The lines of an armoured mail: its delimiters, blank ones, and base64, where
\* a byte is two of the letters 0 and 1.
ArmourBegin == 4
ArmourEnd == 5
Blank == 6
Armour(sealed) ==
    <<ArmourBegin>> \o FlattenSeq([i \in DOMAIN sealed |-> <<sealed[i] \div 2, sealed[i] % 2, Blank>>])
      \o <<ArmourEnd>>

\* encodeBody: origins in the order they first appear.
Origins(recs) ==
    FoldLeft(LAMBDA acc, r : IF r.origin \in ToSet(acc) THEN acc ELSE Append(acc, r.origin), <<>>, recs)

EncodeWith(b, table) ==
    LET place(r) == (CHOOSE i \in DOMAIN table : table[i] = r.origin) - 1
        item(r) == <<place(r)>> \o Varint(r.ts - b.base) \o Uvarint(Len(Marshal(r))) \o Marshal(r)
    IN  <<b.area, b.base, Len(table)>> \o table \o Uvarint(Len(b.records))
          \o FlattenSeq([i \in DOMAIN b.records |-> item(b.records[i])])

EncodeBody(b) == EncodeWith(b, Origins(b.records))

\* Dictionary.Compress and Decompress.
Compress(d, payload) == [i \in DOMAIN payload |-> (payload[i] + d) % 8]
Decompress(d, data) == [i \in DOMAIN data |-> (data[i] + 8 - d) % 8]

\* Version and dictionary come first, so that they are known before anything is
\* decompressed.
PackBundle(p) ==
    LET payload == EncodeBody(p.bundle)
    IN  <<Version, p.dictionary>> \o Uvarint(Len(payload)) \o Compress(p.dictionary, payload)

----------------------------------------------------------------------------
(* Reading: what was taken so far, and the rest.  A reader yields the value it *)
(* found, as a set: nothing when it refuses the bytes.                       *)

Fails == [ok |-> FALSE, got |-> <<>>, rest |-> <<>>]
Reads(bytes) == [ok |-> TRUE, got |-> <<>>, rest |-> bytes]

Take(st, n) ==
    IF st.ok /\ Len(st.rest) >= n
    THEN [st EXCEPT !.got = Append(@, SubSeq(st.rest, 1, n)), !.rest = SubSeq(@, n + 1, Len(@))]
    ELSE Fails

TakeByte(st) == IF st.ok /\ st.rest # <<>>
                THEN [st EXCEPT !.got = Append(@, Head(st.rest)), !.rest = Tail(@)] ELSE Fails

TakeString(st) == IF st.ok /\ st.rest # <<>>
                  THEN Take([st EXCEPT !.rest = Tail(@)], Head(st.rest)) ELSE Fails

\* binary.Uvarint takes any number of leading bytes that it needs.
TakeUvarint(st) ==
    LET ends == {n \in 1 .. MaxVarint : /\ n =< Len(st.rest) /\ st.rest[n] < 2
                                        /\ \A k \in 1 .. n - 1 : st.rest[k] \in {2, 3}}
        size == CHOOSE n \in ends : \A k \in ends : n =< k
        digits == [i \in 1 .. size |-> (st.rest[i] % 2) * 2^(i - 1)]
    IN  IF st.ok /\ ends # {}
        THEN [st EXCEPT !.got = Append(@, FoldLeft(LAMBDA x, y : x + y, 0, digits)), !.rest = SubSeq(@, size + 1, Len(@))]
        ELSE Fails

\* canonicalUvarint: the number must not have a shorter form.
CanonicalUvarint(st) ==
    LET read == TakeUvarint(st)
    IN  IF read.ok /\ Len(st.rest) - Len(read.rest) = Len(Uvarint(Last(read.got))) THEN read ELSE Fails

\* A byte that is there only under a condition, else zero.
TakeIf(there, st) == IF there THEN TakeByte(st) ELSE [st EXCEPT !.got = Append(@, 0)]

\* A field by its kind.  A counted one is as long as the field before it says; an
\* event's target node follows only a target, a record's parent only its flag.
TakeField(st, kind) ==
    IF ~st.ok THEN Fails
    ELSE CASE kind = "byte" -> TakeByte(st)
           [] kind = "string" -> TakeString(st)
           [] kind = "uvarint" -> TakeUvarint(st)
           [] kind = "canonical" -> CanonicalUvarint(st)
           [] kind = "counted" -> Take(st, Last(st.got))
           [] kind = "target" -> TakeIf(Last(st.got) # <<>>, st)
           [] kind = "parent" -> TakeIf(st.got[2] = 1, st)

TakeFields(st, kinds) == FoldLeft(TakeField, st, kinds)

\* The fields of a form and what follows them; those fields and nothing else; or
\* fields of which the last says how many groups of others follow.
Parsed(kinds, b) == {st \in {TakeFields(Reads(b), kinds)} : st.ok}

Exactly(kinds, b) == {st \in Parsed(kinds, b) : st.rest = <<>>}

Listed(kinds, group, limit, b) ==
    {st \in {FoldLeft(TakeFields, head, [i \in 1 .. Last(head.got) |-> group]) :
                head \in {h \in Parsed(kinds, b) : Last(h.got) =< limit}} :
        st.ok /\ st.rest = <<>>}

Unzigzag(v) == IF v % 2 = 1 THEN -((v + 1) \div 2) ELSE v \div 2

\* validateLabel.
Label(s) == Len(s) =< MaxLabel /\ 0 \notin ToSet(s)

UnmarshalPostBody(b) ==
    {[author |-> st.got[1], subject |-> st.got[2], text |-> st.rest] :
        st \in Parsed(<<"string", "string">>, b)}

UnmarshalNodeBody(b) ==
    {n \in {[key |-> st.got[1], incarnation |-> st.got[2], name |-> st.got[3], contact |-> st.got[4]] :
               st \in Exactly(<<"byte", "byte", "string", "string">>, b)} :
        Label(n.name) /\ Label(n.contact)}

UnmarshalProfileBody(b) ==
    {p \in {[nick |-> st.got[1], key |-> st.got[2], flags |-> st.got[3]] :
               st \in Exactly(<<"string", "byte", "byte">>, b)} :
        p.nick # <<>> /\ Label(p.nick) /\ p.key # 0 /\ p.flags \in {0, 1}}

FileName(s) == s # <<>> /\ Label(s) /\ 3 \notin ToSet(s)

UnmarshalFileBody(b) ==
    {f \in {[name |-> st.got[1], size |-> st.got[2], hash |-> st.got[3], desc |-> st.got[4],
             tags |-> SubSeq(st.got, 6, Len(st.got))] :
               st \in Listed(<<"string", "uvarint", "byte", "string", "byte">>, <<"string">>, MaxTags, b)} :
        /\ FileName(f.name) /\ Label(f.desc) /\ f.hash # 0
        /\ \A t \in ToSet(f.tags) : t # <<>> /\ Label(t)
        /\ MarshalFileBody(f) = b}

ValidEvent(e) ==
    /\ e.actor # <<>> /\ Label(e.actor)
    /\ IF e.target = <<>> THEN e.node = 0 ELSE Label(e.target) /\ e.node # 0
    /\ Len(e.payload) =< MaxPayload

\* validateDoorEventBody.
ValidEvents(d) ==
    /\ d.game # <<>> /\ Label(d.game)
    /\ d.events # <<>> /\ Len(d.events) =< MaxEvents
    /\ \A e \in ToSet(d.events) : ValidEvent(e)
    /\ DoorEventBodyLen(d) =< MaxBatch

\* The i-th event among the fields, after the game and the count.
EventAt(got, i) ==
    [kind |-> got[5 * i - 2], actor |-> got[5 * i - 1], target |-> got[5 * i],
     node |-> got[5 * i + 1], payload |-> got[5 * i + 2]]

UnmarshalDoorEventBody(b) ==
    {d \in {[game |-> st.got[1], events |-> [i \in 1 .. st.got[2] |-> EventAt(st.got, i)]] :
               st \in Listed(<<"string", "byte">>, <<"byte", "string", "string", "target", "string">>,
                             MaxEvents, b)} :
        ValidEvents(d) /\ MarshalDoorEventBody(d) = b}

UnmarshalSealedPayload(b) ==
    {[subject |-> st.got[1], text |-> st.rest] : st \in Parsed(<<"string">>, b)}

UnmarshalDMBody(b) ==
    {[sender |-> st.got[1], recipient |-> st.got[2], sealed |-> st.rest] :
        st \in Parsed(<<"string", "string">>, b)}

\* The key must be the successor's.
UnmarshalSuccessionBody(b) ==
    {x \in {[successor |-> st.got[1], key |-> st.got[2], effective |-> st.got[3]] :
               st \in Exactly(<<"byte", "byte", "byte">>, b)} :
        x.successor # 0 /\ NodeIDFromPublicKey(x.key) = x.successor}

Ascending(s) == \A i \in 1 .. Len(s) - 1 : s[i] < s[i + 1]

\* A table by its ascending keys; pairs is a sequence of keys and values.
TableOf(pairs) ==
    [k \in {p[1] : p \in ToSet(pairs)} |-> (CHOOSE p \in ToSet(pairs) : p[1] = k)[2]]

InOrder(pairs) == Ascending([i \in DOMAIN pairs |-> pairs[i][1]])

\* Decode refuses a vector that is out of order or names an origin twice.
DecodeVector(b) ==
    {TableOf(pairs) :
        pairs \in {p \in {[i \in 1 .. st.got[1] |-> <<st.got[2 * i], st.got[2 * i + 1]>>] :
                             st \in Listed(<<"canonical">>, <<"byte", "canonical">>, MaxOrigin, b)} :
                      InOrder(p)}}

DecodeDigest(b) ==
    {[dictionary |-> d.dictionary, areas |-> TableOf(d.pairs)] :
        d \in {x \in {[version |-> st.got[1], dictionary |-> st.got[2],
                       pairs |-> [i \in 1 .. st.got[3] |->
                                    <<st.got[3 * i + 1], [hash |-> st.got[3 * i + 2], count |-> st.got[3 * i + 3]]>>]] :
                         st \in Listed(<<"byte", "byte", "byte">>, <<"byte", "byte", "byte">>, MaxOrigin, b)} :
                  x.version = Version /\ InOrder(x.pairs)}}

\* checkNoFileContent and checkDoorEventBody.
NoFileContent(r) == r.type = Types.file => UnmarshalFileBody(r.body) # {}
IsBatch(r) == r.type = Types.event => UnmarshalDoorEventBody(r.body) # {}
BodyFitsType(r) == NoFileContent(r) /\ IsBatch(r)

\* decodeCanonical, and Unmarshal's second encoding of what it found, which is
\* where the version and the flag byte are compared.  The signature is taken as
\* it comes.
Unmarshal(b) ==
    {r \in {[type |-> st.got[3], origin |-> st.got[4], seq |-> st.got[5], ts |-> st.got[6],
             area |-> st.got[7], parent |-> st.got[8], body |-> st.got[10], sig |-> st.got[11]] :
               st \in Exactly(<<"byte", "byte", "byte", "byte", "uvarint", "byte", "byte", "parent",
                                "uvarint", "counted", "byte">>, b)} :
        /\ r.type \in {Types[t] : t \in DOMAIN Types} /\ r.origin # 0 /\ Len(r.body) =< MaxBody
        /\ Marshal(r) = b
        /\ BodyFitsType(r)}

\* Mutant: the table of origins may come in any order.
FirstAppearanceAny(places) == TRUE

\* The table is in order of first appearance.
FirstAppearance(places) ==
    \A i \in DOMAIN places : places[i] > 0 => \E j \in 1 .. i - 1 : places[j] = places[i] - 1

\* The i-th record of a bundle among the fields, after the area, the base, the
\* table of origins and the count: its place in the table, its distance from the
\* base, its length and itself.
ItemAt(got, i) ==
    [place |-> got[4 * i + 2], delta |-> got[4 * i + 3], read |-> Unmarshal(got[4 * i + 5])]

ValidBundle(w) ==
    LET places == [i \in DOMAIN w.items |-> w.items[i].place]
    IN  /\ w.items # <<>> /\ Len(w.origins) \in 1 .. MaxOrigin /\ IsInjective(w.origins)
        /\ \A item \in ToSet(w.items) : \E r \in item.read :
              /\ item.place < Len(w.origins)
              /\ r.origin = w.origins[item.place + 1]
              /\ r.ts = w.base + Unzigzag(item.delta)
        /\ FirstAppearance(places)
        /\ ToSet(places) = 0 .. Len(w.origins) - 1

DecodeBody(b) ==
    {[area |-> w.area, base |-> w.base,
      records |-> [i \in DOMAIN w.items |-> CHOOSE r \in w.items[i].read : TRUE]] :
        w \in {x \in {[area |-> st.got[1], base |-> st.got[2], origins |-> st.got[4],
                       items |-> [i \in 1 .. st.got[5] |-> ItemAt(st.got, i)]] :
                         st \in Listed(<<"byte", "byte", "byte", "counted", "canonical">>,
                                       <<"byte", "canonical", "canonical", "counted">>, MaxRecs, b)} :
                  ValidBundle(x)}}

\* The version and the declared size are compared before the rest is looked at,
\* and the size again with what came out.
UnpackBundle(b) ==
    UNION {{[bundle |-> x, dictionary |-> st.got[2]] : x \in DecodeBody(Decompress(st.got[2], st.rest))} :
             st \in {t \in Parsed(<<"byte", "byte", "uvarint">>, b) :
                       /\ t.got[1] = Version /\ t.got[2] \in Dictionaries
                       /\ t.got[3] =< MaxUnpacked /\ Len(t.rest) = t.got[3]}}

\* A radio speaks for itself: the number that was signed is the one it came from.
DecodeAnnounce(b, from) ==
    {[key |-> st.got[2], radio |-> st.got[3], at |-> st.got[4]] :
        st \in {t \in Exactly(<<"byte", "byte", "byte", "byte", "byte">>, b) :
                  /\ t.got[1] = FrameAnnounce /\ t.got[3] = from
                  /\ t.got[5] = Sign(t.got[2], SubSeq(b, 1, 4))}}

DecodeWhoIs(b) ==
    {st.got[2] : st \in {t \in Exactly(<<"byte", "byte">>, b) : t.got[1] = FrameWhoIs}}

DecodeWrapped(b) ==
    {[version |-> st.got[1], memory |-> st.got[2], time |-> st.got[3], threads |-> st.got[4],
      salt |-> st.got[5], sealed |-> st.rest] :
        st \in {t \in Parsed(<<"byte", "byte", "byte", "byte", "string">>, b) : t.rest # <<>>}}

\* One block, whatever is around it; inside only whitespace is passed over.
Unarmour(b) ==
    LET begins == {i \in DOMAIN b : b[i] = ArmourBegin}
        ends == {i \in DOMAIN b : b[i] = ArmourEnd}
        letters(i, j) == SelectSeq(SubSeq(b, i + 1, j - 1), LAMBDA x : x # Blank)
        strict(w) == w # <<>> /\ ToSet(w) \subseteq {0, 1} /\ Len(w) % 2 = 0
    IN  {[k \in 1 .. Len(w) \div 2 |-> 2 * w[2 * k - 1] + w[2 * k]] :
            w \in {letters(p[1], p[2]) : p \in {q \in begins \X ends :
                      /\ Len(b) =< MaxPaste
                      /\ begins = {q[1]} /\ ends = {q[2]} /\ q[1] < q[2]
                      /\ strict(letters(q[1], q[2]))}}}

----------------------------------------------------------------------------
(* Records, made and verified.  What refuses makes nothing.                *)

\* New: nobody signs as somebody else.
New(key, r) ==
    {[x \in DOMAIN r \cup {"sig"} |-> IF x = "sig" THEN Sign(key, CanonicalBytes(r)) ELSE r[x]] :
        f \in {q \in {r} : q.origin = NodeIDFromPublicKey(key) /\ BodyFitsType(q)}}

\* Matches, the signature, and the ID, which is the bytes themselves here.
Verify(r, pub) ==
    NodeIDFromPublicKey(pub) = r.origin /\ r.sig = Sign(pub, CanonicalBytes(r))

Own(key, type, at, area, body) ==
    New(key, [type |-> type, origin |-> NodeIDFromPublicKey(key), seq |-> at.seq, ts |-> at.ts,
              area |-> area, parent |-> 0, body |-> body])

\* The body of a NODE names the key that signs it.
NewNodeRecord(key, at, n) == Own(key, Types.node, at, 0, MarshalNodeBody([n EXCEPT !.key = key]))

NewProfileRecord(key, at, area, p) == Own(key, Types.profile, at, area, MarshalProfileBody(p))

\* A node cannot succeed itself.
NewSuccessionRecord(key, at, x) ==
    IF x.successor = NodeIDFromPublicKey(key) THEN {}
    ELSE Own(key, Types.succession, at, 0, MarshalSuccessionBody(x))

NewFileRecord(key, at, area, f) == Own(key, Types.file, at, area, MarshalFileBody(f))

NewDoorEventRecord(key, at, area, d) == Own(key, Types.event, at, area, MarshalDoorEventBody(d))

\* Nothing else is needed to verify a NODE.
VerifyNodeRecord(r) == \E n \in UnmarshalNodeBody(r.body) : Verify(r, n.key)

VerifyProfileRecord(r, pub) == UnmarshalProfileBody(r.body) # {} /\ Verify(r, pub)

\* By the key of the predecessor, which the record does not carry.
VerifySuccessionRecord(r, pub) ==
    (\E x \in UnmarshalSuccessionBody(r.body) : x.successor # r.origin) /\ Verify(r, pub)

VerifyFileRecord(r, pub) == UnmarshalFileBody(r.body) # {} /\ Verify(r, pub)

VerifyDoorEventRecord(r, pub) == UnmarshalDoorEventBody(r.body) # {} /\ Verify(r, pub)

Verified(r, pub) ==
    CASE r.type = Types.node -> VerifyNodeRecord(r)
      [] r.type = Types.profile -> VerifyProfileRecord(r, pub)
      [] r.type = Types.succession -> VerifySuccessionRecord(r, pub)
      [] r.type = Types.file -> VerifyFileRecord(r, pub)
      [] r.type = Types.event -> VerifyDoorEventRecord(r, pub)
      [] OTHER -> Verify(r, pub)

----------------------------------------------------------------------------
Written(format, value) ==
    CASE format = "post" -> MarshalPostBody(value)
      [] format = "node" -> MarshalNodeBody(value)
      [] format = "profile" -> MarshalProfileBody(value)
      [] format = "file" -> MarshalFileBody(value)
      [] format = "event" -> MarshalDoorEventBody(value)
      [] format = "sealed" -> MarshalSealedPayload(value)
      [] format = "mail" -> MarshalDMBody(value)
      [] format = "succession" -> MarshalSuccessionBody(value)
      [] format = "vector" -> EncodeVector(value)
      [] format = "digest" -> EncodeDigest(value)
      [] format = "record" -> Marshal(value)
      [] format = "bundle" -> EncodeBody(value)
      [] format = "packed" -> PackBundle(value)
      [] format = "announce" -> EncodeAnnounce(value)
      [] format = "who-is" -> EncodeWhoIs(value)
      [] format = "wrapped" -> EncodeWrapped(value)
      [] format = "armour" -> Armour(value)

ReadBack(format, bytes) ==
    CASE format = "post" -> UnmarshalPostBody(bytes)
      [] format = "node" -> UnmarshalNodeBody(bytes)
      [] format = "profile" -> UnmarshalProfileBody(bytes)
      [] format = "file" -> UnmarshalFileBody(bytes)
      [] format = "event" -> UnmarshalDoorEventBody(bytes)
      [] format = "sealed" -> UnmarshalSealedPayload(bytes)
      [] format = "mail" -> UnmarshalDMBody(bytes)
      [] format = "succession" -> UnmarshalSuccessionBody(bytes)
      [] format = "vector" -> DecodeVector(bytes)
      [] format = "digest" -> DecodeDigest(bytes)
      [] format = "record" -> Unmarshal(bytes)
      [] format = "bundle" -> DecodeBody(bytes)
      [] format = "packed" -> UnpackBundle(bytes)
      [] format = "announce" -> DecodeAnnounce(bytes, sample.value.radio)
      [] format = "who-is" -> DecodeWhoIs(bytes)
      [] format = "wrapped" -> DecodeWrapped(bytes)
      [] format = "armour" -> Unarmour(bytes)

CodecInit ==
    /\ sample \in Samples
    /\ encoded = Written(sample.format, sample.value)
    /\ edits = 0

\* The bytes a form is changed to; the lines of a paste are all told apart.
Changed == IF sample.format = "armour" THEN Byte ELSE 0 .. 3

\* A byte is changed, added or lost on the way, or another program lists the
\* origins in another order or one that no record uses.
Edited ==
    /\ edits < MaxEdits
    /\ edits' = edits + 1
    /\ UNCHANGED sample
    /\ \/ \E i \in DOMAIN encoded, x \in Changed : encoded' = [encoded EXCEPT ![i] = x]
       \/ \E i \in 1 .. Len(encoded) + 1, x \in Changed : encoded' = InsertAt(encoded, i, x)
       \/ \E i \in DOMAIN encoded : encoded' = RemoveAt(encoded, i)
       \/ /\ sample.format = "bundle"
          /\ LET table == Origins(sample.value.records)
             IN  \E other \in {Reverse(table), Append(table, 3)} :
                    encoded' = EncodeWith(sample.value, other)

CodecNext == Edited

----------------------------------------------------------------------------
(* Properties. *)

\* Compression has many outputs and a paste may be broken anew; the bytes inside
\* have one form.
Loose == {"packed", "armour"}

\* What was written is read back, a signed record verifies, and whatever is
\* read has no other form: written again it is the same bytes, so one value has
\* one ID and a duplicate is recognised (Unmarshal, UnmarshalFileBody,
\* UnmarshalDoorEventBody, decodeBody, Decode, DecodeDigest, DecodeAnnounce);
\* what is pasted or packed another way is still read as one value (Unarmour,
\* UnpackBundle); and what a body was budgeted at is what it costs (FileBodyLen,
\* DoorEventBodyLen).
OneWireForm ==
    LET format == sample.format
        read == ReadBack(format, encoded)
    IN  /\ edits = 0 => read = {sample.value}
        /\ \A v \in read :
              /\ IF format \in Loose THEN ReadBack(format, Written(format, v)) = {v}
                 ELSE Written(format, v) = encoded
              /\ format = "file" => FileBodyLen(v) = Len(encoded)
              /\ format = "event" => DoorEventBodyLen(v) = Len(encoded)
              /\ format = "record" /\ edits = 0 =>
                    \E pub \in Byte : NodeIDFromPublicKey(pub) = v.origin /\ Verified(v, pub)

=============================================================================
