------------------------------- MODULE MCDesk -------------------------------
(***************************************************************************)
(* What the sysop sets up and looks after: the installation and its        *)
(* settings, the services, the areas and the roster, the file areas and    *)
(* their catalog, the doors on offer and the ones that come with the       *)
(* board.  These share no state in the models, so a behaviour is a         *)
(* behaviour of the one that part names.                                   *)
(***************************************************************************)
EXTENDS Files, Catalog, Areas, Serve, ReferenceDoors, Instance, Settings, DoorSetup, Roster
LOCAL INSTANCE SequencesExt

CONSTANTS p1, guest

VARIABLE part

vars == <<fileVars, catVars, areaVars, serveVars, exampleVars, instVars, setVars, setupVars,
          rosterVars, part>>

----------------------------------------------------------------------------
(* Values of the constants. *)

\* A record carries the hash whole.
Cut == [c \in Content |-> c]

\* What the sysop granted the doors that come with the board.
Levels == [hello |-> 1, guess |-> 3, arena |-> 3]

\* The roster gets the NODE record, the other area two numbers.
Numbers == [a \in Place |-> IF a = Roster THEN 1 ELSE 2]

\* Both areas get two.
Numbers2 == [a \in Place |-> 2]

\* One way to write the directory.
Expand == [s \in Spelling |-> s]

\* Doors to register, with and without limits, a dropfile and a capability.
Row(level, wall, cpu, mem, needs, dropfile) ==
    [level |-> level, enabled |-> TRUE, wall |-> wall, cpu |-> cpu, mem |-> mem, needs |-> needs,
     pass |-> {"COLUMNS", "SECRET"}, dropfile |-> dropfile, league |-> FALSE, asked |-> 0]
Registered == {Row(3, 2, 0, 0, "", "none"), Row(4, 4, 2, 0, "play", "door.sys"),
            Row(3, 2, 0, 1, "", "dorinfo1.def")}
AbleNow == [s \in Asker |-> {"run_doors"}]

\* A name, and one that ends in what a terminal would act on.
Texts == {<<"c">>, <<"x", "c", "n", "s", "c", "n">>}

\* Two IDs whose renderings differ in every byte but the zeros.
IDs == {<<0, 0, 0, 0, 0, 0, 0, 1>>, <<255, 128, 1, 254, 0, 85, 170, 255>>}
Us == <<0, 0, 0, 0, 0, 0, 0, 1>>
Sum4(id) == FoldLeft(LAMBDA a, b : (a + b) % 4, 0, id)

----------------------------------------------------------------------------
(* The specification: one part moves, the others stand still. *)

Parts == {"files", "catalog", "areas", "serve", "examples", "instance", "settings", "setup",
          "roster"}

\* A part that does not move starts from one state.
Init ==
    /\ part \in Parts
    /\ SetInit /\ (part # "settings" => shell = <<>>)
    /\ FilesInit /\ CatInit /\ AreasInit /\ ServeInit /\ ExampleInit /\ InstInit
    /\ SetupInit /\ RosterInit

Next ==
    /\ UNCHANGED part
    /\ \/ part = "files" /\ FilesNext
       \/ part # "files" /\ UNCHANGED fileVars
    /\ \/ part = "catalog" /\ CatNext
       \/ part # "catalog" /\ UNCHANGED catVars
    /\ \/ part = "areas" /\ AreasNext
       \/ part # "areas" /\ UNCHANGED areaVars
    /\ \/ part = "serve" /\ ServeNext
       \/ part # "serve" /\ UNCHANGED serveVars
    /\ \/ part = "examples" /\ ExampleNext
       \/ part # "examples" /\ UNCHANGED exampleVars
    /\ \/ part = "instance" /\ InstNext
       \/ part # "instance" /\ UNCHANGED instVars
    /\ \/ part = "settings" /\ SetNext
       \/ part # "settings" /\ UNCHANGED setVars
    /\ \/ part = "setup" /\ SetupNext
       \/ part # "setup" /\ UNCHANGED setupVars
    /\ \/ part = "roster" /\ RosterNext
       \/ part # "roster" /\ UNCHANGED rosterVars

Spec == Init /\ [][Next]_vars

\* The installation alone.
InstanceSpec == Init /\ part = "instance" /\ [][Next]_vars

\* The reference doors alone.
ExampleSpec == Init /\ part = "examples" /\ [][Next]_vars

=============================================================================
