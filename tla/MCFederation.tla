---------------------------- MODULE MCFederation ----------------------------
(***************************************************************************)
(* What passes between boards: bundles and their code, the airtime they    *)
(* may use, the radio they go through, the carrier file that goes on foot, *)
(* the keys, profiles and encodings both sides must read alike, and the    *)
(* harness the protocol is tested in.  These share no state, so a          *)
(* behaviour is a behaviour of the one that part names.                    *)
(***************************************************************************)
EXTENDS Governor, Fountain, Sneakernet, Bsmp, Directories, Survey,
        RadioSession, Codec, Simulator
LOCAL INSTANCE TLC

VARIABLE part

vars == <<bsmpVars, govVars, blockVars, frameVars, sneakVars, succVars, profVars, surveyVars,
          radioVars, codecVars, simVars, part>>

----------------------------------------------------------------------------
(* Values of the constants. *)

\* The repair symbols are in turn both originals, the first, both, the second.
Masks == [i \in K .. MaxSymbols - 1 |->
            IF i % 2 = 0 THEN 0 .. K - 1 ELSE {(i \div 2) % K}]

\* Payloads with every way a frame's first two bytes can turn up inside.
Bytes == {<<>>, <<S1>>, <<Text, S1>>, <<S2, S1>>, <<S1, S2>>}

\* No file waits to be carried.
NoFiles == {<<>>}

\* A licensed radio with our channel second, an unlicensed one where the first
\* slot of that name is off, a licensed one without a key.
Slot(name, on, coded) == [name |-> name, on |-> on, coded |-> coded]
Radios ==
    {[licensed |-> TRUE, slots |-> <<Slot("x", TRUE, TRUE), Slot("b", TRUE, TRUE)>>],
     [licensed |-> FALSE, slots |-> <<Slot("b", FALSE, FALSE), Slot("b", TRUE, TRUE)>>],
     [licensed |-> TRUE, slots |-> <<Slot("b", TRUE, FALSE)>>]}

\* An announcement on our channel, and data sealed for this radio.
Heard == {[from |-> 2, to |-> 0, chan |-> 2, pki |-> FALSE, kind |-> "announce"],
          [from |-> 2, to |-> 1, chan |-> 8, pki |-> TRUE, kind |-> "data"]}

\* One sample of every format, with its optional parts present and absent.
AFile == [name |-> <<1>>, size |-> 2, hash |-> 1, desc |-> <<>>, tags |-> <<<<2>>>>]
AnEvent(target, node) ==
    [kind |-> 0, actor |-> <<1>>, target |-> target, node |-> node, payload |-> <<3>>]
ABatch == [game |-> <<2>>, events |-> <<AnEvent(<<>>, 0), AnEvent(<<1>>, 2)>>]
ANode == [key |-> 1, incarnation |-> 0, name |-> <<2>>, contact |-> <<>>]
AProfile == [nick |-> <<1, 2>>, key |-> 1, flags |-> 1]
ASuccession == [successor |-> 1, key |-> 2, effective |-> 0]
Then == [seq |-> 2, ts |-> 2]
APost(key, parent) ==
    CHOOSE made \in New(key, [type |-> 0, origin |-> 3 - key, seq |-> 2, ts |-> 2, area |-> 1,
                           parent |-> parent, body |-> <<0, 0>>]) : TRUE
Records == NewNodeRecord(1, Then, ANode) \cup NewProfileRecord(1, Then, 1, AProfile)
             \cup NewSuccessionRecord(1, Then, ASuccession) \cup NewFileRecord(2, Then, 1, AFile)
             \cup NewDoorEventRecord(2, Then, 1, [ABatch EXCEPT !.events = Tail(@)])
             \cup {APost(2, 0), APost(1, 3)}
ABundle == [area |-> 1, base |-> 3, records |-> <<APost(2, 0), APost(1, 0)>>]
Form(format, value) == [format |-> format, value |-> value]
OfEach ==
    {Form("post", [author |-> <<1>>, subject |-> <<>>, text |-> <<0, 1>>]),
     Form("node", ANode), Form("profile", AProfile), Form("file", AFile), Form("event", ABatch),
     Form("sealed", [subject |-> <<1>>, text |-> <<2>>]),
     Form("mail", [sender |-> <<1>>, recipient |-> <<2>>, sealed |-> <<3>>]),
     Form("succession", ASuccession),
     Form("vector", 1 :> 2 @@ 2 :> 1),
     Form("digest", [dictionary |-> 0,
                       areas |-> 1 :> [hash |-> 2, count |-> 3] @@ 3 :> [hash |-> 0, count |-> 1]]),
     Form("bundle", ABundle), Form("packed", [bundle |-> ABundle, dictionary |-> 1]),
     Form("announce", [key |-> 1, radio |-> 2, at |-> 3]), Form("who-is", 2),
     Form("wrapped", [version |-> 1, memory |-> 2, time |-> 3, threads |-> 1, salt |-> <<3>>,
                      sealed |-> <<0, 1>>]),
     Form("armour", <<2, 1>>)} \cup {Form("record", made) : made \in Records}

\* The first station's records, and one that somebody else signed.
Signed == {[origin |-> 1, seq |-> 1, body |-> "a", ok |-> TRUE],
           [origin |-> 1, seq |-> 2, body |-> "b", ok |-> TRUE],
           [origin |-> 1, seq |-> 2, body |-> "c", ok |-> FALSE]}
Everyone == [s \in Station |-> Station]

\* Reordering may take more off a delay than it has.
Earlier == {-2}

----------------------------------------------------------------------------
(* The specification: one part moves, the others stand still. *)

Parts == {"bundles", "budget", "block", "serial", "carrier", "keys", "profiles", "survey",
          "radio", "codec", "harness"}

\* A part that does not move starts from one state.
Init ==
    /\ part \in Parts
    /\ FrameInit /\ SneakInit /\ SuccInit /\ ProfInit /\ SurveyInit /\ SimInit
    /\ (part # "bundles" => keyed = [n \in Receiver |-> TRUE]) /\ BsmpInit
    /\ (part # "budget" => /\ instances = CHOOSE i \in Instances : TRUE
                           /\ shares = [a \in Area |-> 0]
                           /\ channel = "clear")
    /\ GovInit
    /\ (part # "block" => repair = [i \in Sources .. MaxIndex |-> Source]) /\ BlockInit
    /\ (part # "radio" => setup = (CHOOSE c \in Setups : TRUE) /\ dump = <<>>) /\ RadioInit
    /\ (part # "codec" => sample = Form("who-is", 2)) /\ CodecInit

Next ==
    /\ UNCHANGED part
    /\ \/ part = "bundles" /\ BsmpNext
       \/ part # "bundles" /\ UNCHANGED bsmpVars
    /\ \/ part = "budget" /\ GovNext
       \/ part # "budget" /\ UNCHANGED govVars
    /\ \/ part = "block" /\ BlockNext
       \/ part # "block" /\ UNCHANGED blockVars
    /\ \/ part = "serial" /\ FrameNext
       \/ part # "serial" /\ UNCHANGED frameVars
    /\ \/ part = "carrier" /\ SneakNext
       \/ part # "carrier" /\ UNCHANGED sneakVars
    /\ \/ part = "keys" /\ SuccNext
       \/ part # "keys" /\ UNCHANGED succVars
    /\ \/ part = "profiles" /\ ProfNext
       \/ part # "profiles" /\ UNCHANGED profVars
    /\ \/ part = "survey" /\ SurveyNext
       \/ part # "survey" /\ UNCHANGED surveyVars
    /\ \/ part = "radio" /\ RadioNext
       \/ part # "radio" /\ UNCHANGED radioVars
    /\ \/ part = "codec" /\ CodecNext
       \/ part # "codec" /\ UNCHANGED codecVars
    /\ \/ part = "harness" /\ SimNext
       \/ part # "harness" /\ UNCHANGED simVars

Spec == Init /\ [][Next]_vars

----------------------------------------------------------------------------
(* Properties of several parts. *)

\* Airtime is never spent that was not there: the region's hour, the node's
\* share and the room for control packets in the governor, and in the survey
\* its own readings and its duty cycle.
AirtimeIsKept == DutyRespected /\ SpentWithinShare /\ ControlRoom /\ OwnReadings /\ DutyIsKept

\* What the radio says is taken as it was said: no frame is lost to the bytes
\* around it, and the link acts for the configuration the radio has now.
SerialHolds == FramesSurvive /\ AttachmentIsTrue

\* What boards know of one another's people and keys is what those published.
DirectoriesHold == ResolvesToCurrent /\ OnlyTheWilling

=============================================================================
