------------------------------- MODULE Roster -------------------------------
(***************************************************************************)
(* The nodes a board knows and what it calls them: the nodes table, filled *)
(* from NODE records, the sysop's aliases (store/nodes.go, `meshbbs peer`),*)
(* and the two renderings of a node ID, base32 and six words, that a       *)
(* person types in place of an alias (identity/base32.go, words.go,        *)
(* nodeid.go).                                                             *)
(*                                                                         *)
(* An ID is NodeIDLen bytes.  A base32 character is the value the decoding *)
(* table gives it, so case, look-alikes and separators are gone; a word is *)
(* its index in the list.  Only the pending bits of an accumulator are     *)
(* ever read, so the 32-bit one of the words is modelled by its low 18.    *)
(***************************************************************************)
EXTENDS Integers, Sequences, FiniteSets
LOCAL INSTANCE SequencesExt

CONSTANTS NodeID,         \* the IDs of this run: sequences of bytes
          Ourselves,      \* this board's
          Checksum(_),    \* the top two bits of a hash of the ID
          Petname,        \* aliases that are no rendering of an ID
          DisplayNames,   \* what nodes call themselves
          MaxIncarnation

NodeIDLen == 8

ASSUME RosterAssumption == \A id \in NodeID : id \in Seq(0 .. 255) /\ Len(id) = NodeIDLen

VARIABLES
    nodes,     \* [NodeID -> a row of table nodes or Unknown]
    aliases,   \* [alias -> NodeID or Unknown], table aliases
    said       \* the last reference somebody typed, and what it resolved to

rosterVars == <<nodes, aliases, said>>

Unknown == <<>>
WordCount == 6
BitsPerWord == 11
ChecksumBits == WordCount * BitsPerWord - NodeIDLen * 8

----------------------------------------------------------------------------
(* The renderings. *)

\* Values of `from` bits enter an accumulator of `wide` bits, and values of
\* `to` bits leave it as soon as they are complete, most significant first.
Shift(st, v, from, to, wide) ==
    LET acc  == (st.acc * 2^from + v) % 2^wide
        bits == st.bits + from
        n    == bits \div to
    IN  [acc |-> acc, bits |-> bits - n * to,
         out |-> st.out \o [i \in 1..n |-> (acc \div 2^(bits - i * to)) % 2^to]]

Nil == [acc |-> 0, bits |-> 0, out |-> <<>>]
Regroup(s, from, to, wide) ==
    FoldLeft(LAMBDA st, v : Shift(st, v, from, to, wide), Nil, s)

\* What is left is padded with zeros on the right.
EncodeBase32(b) ==
    LET st == Regroup(b, 8, 5, 16)
    IN  st.out \o (IF st.bits = 0 THEN <<>>
                   ELSE <<(st.acc * 2^(5 - st.bits)) % 32>>)

\* Bits left over must be zero, however many: a zero character after a whole
\* rendering changes nothing.
DecodeBase32(d) ==
    LET st == Regroup(d, 5, 8, 16)
    IN  IF d = <<>> \/ st.acc % 2^st.bits # 0 THEN Unknown ELSE st.out

EncodeWords(id) ==
    Shift(Regroup(id, 8, BitsPerWord, 18), Checksum(id), ChecksumBits, BitsPerWord, 18).out

DecodeWords(w) ==
    LET st == Regroup(w, BitsPerWord, 8, 18)
    IN  IF \/ Len(w) # WordCount \/ Len(st.out) # NodeIDLen
           \/ st.acc % 2^ChecksumBits # Checksum(st.out)
        THEN Unknown ELSE st.out

\* What a person types: a rendering, whole or damaged, or a petname.
Base32(d) == [form |-> "base32", text |-> d]
Words(w) == [form |-> "words", text |-> w]
Pet(p) == [form |-> "name", text |-> p]

ParseNodeID(ref) ==
    CASE ref.form = "words"  -> DecodeWords(ref.text)
      [] ref.form = "base32" -> IF Len(DecodeBase32(ref.text)) = NodeIDLen
                                THEN DecodeBase32(ref.text) ELSE Unknown
      [] OTHER               -> Unknown

Renderings(id) == {Base32(EncodeBase32(id)), Words(EncodeWords(id))}

\* One character or one word read wrong, left out, or added at the end.
Damaged(id) ==
    LET d == EncodeBase32(id)  w == EncodeWords(id)
    IN  {Base32([d EXCEPT ![Len(d)] = (@ + 1) % 32]), Base32(Tail(d)),
         Base32(Append(d, 0)), Base32(Append(d, 1)), Words(Append(w, 0)),
         Words([w EXCEPT ![1] = (@ + 1) % 2^BitsPerWord]), Words(Tail(w))}

Alias == {Pet(p) : p \in Petname} \cup UNION {Renderings(id) : id \in NodeID}
TypedRefs == Alias \cup UNION {Damaged(id) : id \in NodeID}

----------------------------------------------------------------------------
(* The tables. *)

RosterInit ==
    /\ nodes = [id \in NodeID |-> IF id = Ourselves
                  THEN [name |-> "", incarnation |-> 0, self |-> TRUE] ELSE Unknown]
    /\ aliases = [a \in Alias |-> Unknown]
    /\ said = [ref |-> Pet(""), id |-> Unknown]

\* A NODE record whose key hashes to its origin.  A row that is there keeps the
\* larger incarnation and whether it is this board's own.
PutNode(id, name, i) ==
    /\ nodes' = [nodes EXCEPT ![id] =
         IF @ = Unknown THEN [name |-> name, incarnation |-> i, self |-> FALSE]
         ELSE [@ EXCEPT !.name = name, !.incarnation = IF i > @ THEN i ELSE @]]
    /\ UNCHANGED <<aliases, said>>

\* Mutant: any text of the right characters is an alias.
ValidateAliasChars(a) == TRUE

\* A literal ID is resolved first, so an alias must not parse as one.
ValidateAlias(a) == ParseNodeID(a) = Unknown

\* `peer alias`: the second argument is an ID, in either rendering.
SetAlias(a, ref) ==
    /\ ParseNodeID(ref) # Unknown /\ ValidateAlias(a)
    /\ aliases' = [aliases EXCEPT ![a] = ParseNodeID(ref)]
    /\ UNCHANGED <<nodes, said>>

RemoveAlias(a) ==
    /\ aliases[a] # Unknown
    /\ aliases' = [aliases EXCEPT ![a] = Unknown]
    /\ UNCHANGED <<nodes, said>>

ResolveAlias(ref) == IF ref \in Alias THEN aliases[ref] ELSE Unknown

ResolveNodeRef(ref) ==
    IF ParseNodeID(ref) # Unknown THEN ParseNodeID(ref) ELSE ResolveAlias(ref)

\* `peer resolve`, and the node part of a recipient.
Resolve(ref) ==
    /\ said' = [ref |-> ref, id |-> ResolveNodeRef(ref)]
    /\ UNCHANGED <<nodes, aliases>>

\* A recipient with no node part is on this board.
ResolveHere ==
    /\ said' = [ref |-> Pet(""), id |-> Ourselves]
    /\ UNCHANGED <<nodes, aliases>>

\* The aliases of a node, as `peer list` shows them; a file's holder is named
\* by one of them, else by the name the node gave itself.
AliasesOf(id) == {a \in Alias : aliases[a] = id}

Holder(id) == IF AliasesOf(id) # {} THEN CHOOSE a \in AliasesOf(id) : TRUE
              ELSE IF nodes[id] = Unknown THEN Unknown ELSE nodes[id].name

RosterNext ==
    \/ \E id \in NodeID, n \in DisplayNames, i \in 0..MaxIncarnation : PutNode(id, n, i)
    \/ \E a \in Alias : RemoveAlias(a) \/ \E id \in NodeID :
         \E ref \in Renderings(id) : SetAlias(a, ref)
    \/ \E ref \in TypedRefs : Resolve(ref)
    \/ ResolveHere

----------------------------------------------------------------------------
(* Properties. *)

\* An alias in the table reaches the node it is listed for (nodes.go:179-184).
AliasesReach == \A a \in Alias : aliases[a] # Unknown => ResolveNodeRef(a) = aliases[a]

\* An ID means the node whose ID it is, and a damaged one means nobody or the
\* node whose whole rendering it has become.  Words have one spelling; to the
\* characters one zero may be added (base32.go:78-98, nodeid.go:88-98).
ReadAsSpelled ==
    said.ref.form # "name" =>
       /\ \A id \in NodeID : said.ref \in Renderings(id) => said.id = id
       /\ said.ref.form = "base32" /\ said.id # Unknown =>
             said.ref.text \in {EncodeBase32(said.id), Append(EncodeBase32(said.id), 0)}
       /\ said.ref.form = "words" /\ said.id # Unknown => EncodeWords(said.id) = said.ref.text

\* The name shown for a node that has an alias resolves to that node.
HolderResolves ==
    \A id \in NodeID : AliasesOf(id) # {} => ResolveNodeRef(Holder(id)) = id

\* The roster: every name the board shows or accepts means one node
\* (store/nodes.go:261-266).
NamesMeanOneNode == AliasesReach /\ ReadAsSpelled /\ HolderResolves
=============================================================================
