------------------------------- MODULE Serve -------------------------------
(***************************************************************************)
(* How "meshbbs serve" comes up and goes down (internal/cli/serve.go and   *)
(* startFederation in internal/cli/mesh_serve.go).  Coming up is one       *)
(* sequence of steps, any of which may fail; what a step opened is closed  *)
(* by the error paths after it or by a deferred call.  The other front     *)
(* ends and the federation loop run in goroutines nobody waits for.        *)
(***************************************************************************)
EXTENDS Integers, Sequences

CONSTANTS MeshEnabled, TelnetEnabled, WebEnabled   \* the configuration

ASSUME ServeAssumption == {MeshEnabled, TelnetEnabled, WebEnabled} \subseteq BOOLEAN

VARIABLES
    at,         \* the step being taken, past the last one when serving
    opened,     \* what is open: log, store, probe, link
    loop,       \* the federation loop: off, on, over
    publisher,  \* the board publishes to the engine
    accepting,  \* front ends that take calls
    stopped,    \* SIGTERM was received
    unwinding,  \* what is still to be closed, last opened first
    result      \* running, failed or clean

serveVars == <<at, opened, loop, publisher, accepting, stopped, unwinding, result>>

\* What startFederation does, in order.
Federation == <<"gossipstore", "dial", "configure", "presets", "governor", "meshlink", "linkup",
                "dictionaries", "outbox", "engine", "inbox", "shares", "doorevents", "loop">>

\* What the SSH server's and the web server's constructors may fail at.
SSHServer == <<"blobstore", "hostkey", "wish">>
WebServer == <<"origin", "webauthn", "assets">>

\* What comes before the federation's steps, theirs, and the front ends'.
Local == <<"log", "key", "store", "sequence", "areas", "theme", "paths", "doors">> \o SSHServer
Meshed == IF MeshEnabled THEN Federation \o <<"publisher">> ELSE <<>>
Fronts ==
    (IF TelnetEnabled THEN <<"telnet">> ELSE <<>>)
      \o ((IF WebEnabled THEN WebServer \o <<"web">> ELSE <<>>) \o <<"listen">>)

\* What serve does, in order.
Steps == (Local \o Meshed) \o Fronts

Step == Steps[at]

ServeInit ==
    /\ at = 1 /\ opened = {} /\ loop = "off" /\ publisher = FALSE
    /\ accepting = {} /\ stopped = FALSE /\ unwinding = <<>> /\ result = "running"

\* These do not fail: they assign, or start a goroutine.
Certain == {"doors", "shares", "loop", "publisher", "telnet", "web"}

\* These take the context that SIGTERM cancels.
Cancellable == {"store", "sequence", "areas", "gossipstore", "dial", "configure", "linkup"}

----------------------------------------------------------------------------
(* Coming up. *)

\* Mutant: the probe's close is deferred to the end of startFederation.
ProbeClosedByLate(step) == step = "loop"

\* The handshake's connection is closed whatever the handshake said.
ProbeClosedBy(step) == step = "configure"

OpenedBy(step) ==
    CASE step \in {"log", "store"} -> {step}
      [] step = "dial" -> {"probe"}
      [] step = "linkup" -> {"link"}
      [] OTHER -> {}

\* The link's close is deferred once startFederation has returned.
CloseDeferred(r) == r = "link" => publisher \/ (at > 1 /\ Steps[at - 1] = "loop")

\* The deferred closes of what is left open, last opened first.
Deferred(left) ==
    LET then(closes, r) == IF r \in left /\ CloseDeferred(r) THEN Append(closes, r) ELSE closes
    IN  then(then(then(<<>>, "link"), "store"), "log")

\* The error paths of startFederation that close the link themselves.
LinkClosedBy(step) == step \in {"dictionaries", "outbox", "engine", "inbox", "doorevents"}

ClosedOnError(step) ==
    {r \in {"probe"} : ProbeClosedBy(step)} \cup {r \in {"link"} : LinkClosedBy(step)}

StepSucceeds ==
    /\ result = "running" /\ at =< Len(Steps)
    /\ stopped => Step \notin Cancellable
    /\ opened' = (opened \cup OpenedBy(Step)) \ {r \in {"probe"} : ProbeClosedBy(Step)}
    /\ loop' = IF Step = "loop" THEN "on" ELSE loop
    /\ publisher' = (publisher \/ Step = "publisher")
    /\ accepting' = CASE Step \in {"telnet", "web"} -> accepting \cup {Step}
                      [] Step = "listen" -> accepting \cup {"ssh"}
                      [] OTHER -> accepting
    /\ at' = at + 1
    /\ UNCHANGED <<stopped, unwinding, result>>

StepFails ==
    /\ result = "running" /\ at =< Len(Steps)
    /\ Step \notin Certain
    /\ opened' = opened \ ClosedOnError(Step)
    /\ unwinding' = Deferred(opened')
    /\ result' = "failed"
    /\ UNCHANGED <<at, loop, publisher, accepting, stopped>>

----------------------------------------------------------------------------
(* Going down. *)

Signal ==
    /\ ~stopped /\ result = "running"
    /\ stopped' = TRUE
    /\ UNCHANGED <<at, opened, loop, publisher, accepting, unwinding, result>>

\* The SSH server's ListenAndServe returns: the listener is closed once the
\* context is done, or its accepting failed.
ListenReturns ==
    /\ result = "running" /\ "ssh" \in accepting
    /\ accepting' = accepting \ {"ssh"}
    /\ unwinding' = Deferred(opened)
    /\ result' = IF stopped THEN "clean" ELSE "failed"
    /\ UNCHANGED <<at, opened, loop, publisher, stopped>>

\* Telnet and the web stop on the context, or on an error that is logged.
FrontStops(f) ==
    /\ f \in accepting \ {"ssh"}
    /\ accepting' = accepting \ {f}
    /\ UNCHANGED <<at, opened, loop, publisher, stopped, unwinding, result>>

CloseNext ==
    /\ result # "running" /\ unwinding # <<>>
    /\ opened' = opened \ {Head(unwinding)}
    /\ unwinding' = Tail(unwinding)
    /\ UNCHANGED <<at, loop, publisher, accepting, stopped, result>>

\* run ends when the context does, or when the link's channel is closed.
LoopEnds ==
    /\ loop = "on"
    /\ stopped \/ "link" \notin opened
    /\ loop' = "over"
    /\ UNCHANGED <<at, opened, publisher, accepting, stopped, unwinding, result>>

ServeNext ==
    \/ StepSucceeds \/ StepFails \/ Signal \/ ListenReturns
    \/ \E f \in accepting : FrontStops(f)
    \/ CloseNext \/ LoopEnds

----------------------------------------------------------------------------
(* Properties. *)

\* The radio takes one client: the connection that reads its configuration
\* is gone on every path before the link opens its own, and whatever fails,
\* nothing stays open behind it (startFederation).
LeavesNothingOpen ==
    /\ ~({"probe", "link"} \subseteq opened)
    /\ result # "running" /\ unwinding = <<>> => opened = {}

\* No front end takes a call on a board that was to federate and does not
\* (the order of serve): the link is up and posts are published.
NoHalfBoard ==
    accepting # {} /\ result = "running" =>
       /\ {"log", "store"} \subseteq opened
       /\ MeshEnabled => publisher /\ "link" \in opened /\ loop # "off"

\* The board as a whole.
ServeIsSound == LeavesNothingOpen /\ NoHalfBoard

=============================================================================
