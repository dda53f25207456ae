------------------------------ MODULE Settings ------------------------------
(***************************************************************************)
(* Where a command takes its settings from (config/config.go, reflect.go,  *)
(* cli/root.go) and what it does with them (cli/init.go, config.go,        *)
(* serve.go, dev.go, theme/theme.go, logging/logging.go): defaults, then   *)
(* the file, then the environment, then flags, then Validate.              *)
(*                                                                         *)
(* A value is what Validate tells apart: "good", "bad" (of the right type, *)
(* out of range), "junk" (not of the key's type), or a word or a port where *)
(* several keys are judged together.                                       *)
(***************************************************************************)
EXTENDS Integers, FiniteSets

CONSTANTS Dir,           \* directories; Home is where the OS would have it
          Home,
          Spelling,      \* ways to write one in a flag or a variable, Dir among them
          ExpandPath,    \* [Spelling -> Dir]
          Touched,       \* keys the sysop sets, in the file or in the environment
          Ports,         \* for `serve --port`; "" is no flag
          ThemeFiles,    \* names of the themes on disk, and the broken ones
          BrokenThemes,
          MaxEdits,      \* bound: edits of config.toml
          MaxCommands    \* bound: commands

----------------------------------------------------------------------------
(* The keys. *)

\* Judged each for itself, whatever is enabled.
Always == {"environment", "level", "format", "batch_window", "max_age", "registration",
           "encoding", "ssh_sessions", "timezone", "database", "keys_dir", "display_name"}

\* Judged when their part is enabled.
OfTelnet == {"telnet_sessions"}
OfMesh == {"channel_name", "hop_limit", "serial_baud", "rx_timeout", "ceiling", "instances",
           "multiplier", "quiet_hours", "override"}
OfWeb == {"web_port", "web_sessions", "origin", "session_limit", "code_ttl", "session_ttl",
          "enrol_rate", "auth_rate", "proxies"}

Plain == Always \cup OfTelnet \cup OfMesh \cup OfWeb
Enables == {"mesh", "telnet", "web"}
Key == Plain \cup Enables \cup
       {"ssh_port", "telnet_port", "mode", "tcp_host", "bind", "tls_cert", "tls_key",
        "theme", "data_dir"}

\* Keys that are not strings: their spelling has to parse.
Typed == Enables \cup
         {"ssh_sessions", "telnet_sessions", "hop_limit", "serial_baud", "rx_timeout", "ceiling",
          "instances", "multiplier", "web_port", "web_sessions", "session_limit", "code_ttl",
          "session_ttl", "enrol_rate", "auth_rate", "ssh_port", "telnet_port"}

\* What may be written for a key.
Written(k) ==
    (CASE k = "environment" -> {"production", "development", "bad"}
       [] k \in Plain \ {"environment"} -> {"good", "bad"}
       [] k \in Enables -> {"true", "false"}
       [] k \in {"ssh_port", "telnet_port"} -> {"2222", "2323", "0"}
       [] k = "mode" -> {"auto", "tcp", "bad"}
       [] k \in {"tcp_host", "tls_cert", "tls_key"} -> {"", "set"}
       [] k = "bind" -> {"any", "loopback"}
       [] k = "theme" -> {"classic", "own"}
       [] OTHER -> Spelling)
    \cup (IF k \in Typed THEN {"junk"} ELSE {})

\* The struct's default tags.
Default ==
    [k \in Key |->
       CASE k = "environment" -> "production"
         [] k = "origin" -> "bad"
         [] k \in Plain \ {"environment", "origin"} -> "good"
         [] k \in Enables -> "false"
         [] k = "ssh_port" -> "2222"
         [] k = "telnet_port" -> "2323"
         [] k = "mode" -> "auto"
         [] k = "bind" -> "any"
         [] k = "theme" -> "classic"
         [] OTHER -> ""]

VARIABLES onDisk,     \* onDisk[d]: config.toml in d, or NoFile
          shell,      \* MESHBBS_* variables: some keys and what they are set to
          keys,       \* directories with a node key
          made,       \* [flag, dir]: the inits that went through (history)
          last,       \* the last command that loaded its settings, and what it used
          edits, commandsRun

setVars == <<onDisk, shell, keys, made, last, edits, commandsRun>>

NoFile == [set |-> <<>>, unknown |-> FALSE, there |-> FALSE]
NoCommandYet == [cmd |-> "none", flag |-> "", given |-> "", path |-> "", dir |-> Home, conf |-> Default,
                 layers |-> [file |-> <<>>, env |-> <<>>], port |-> ""]

SetInit ==
    /\ onDisk = [d \in Dir |-> NoFile]
    /\ shell \in {<<>>} \cup UNION {[{k} -> Written(k)] : k \in Touched}
    /\ keys = {} /\ made = {} /\ last = NoCommandYet
    /\ edits = 0 /\ commandsRun = 0

----------------------------------------------------------------------------
(* Load *)

\* One layer over another.
Over(conf, layer) == [k \in Key |-> IF k \in DOMAIN layer THEN layer[k] ELSE conf[k]]

\* setFromString, and TOML's own types.
Parses(layer) == \A k \in DOMAIN layer : layer[k] # "junk"

\* The problems Validate lists: each key for itself,
AlwaysProblems(c) == {k \in Always : c[k] = "bad"} \cup {k \in {"ssh_port"} : c[k] = "0"}

\* telnet's,
TelnetProblems(c) ==
    {k \in OfTelnet : c[k] = "bad"}
      \cup {k \in {"telnet_port"} : c[k] = "0" \/ c[k] = c["ssh_port"]}

\* the mesh's,
MeshProblems(c) ==
    {k \in OfMesh : c[k] = "bad"}
      \cup {k \in {"mode"} : c[k] = "bad"}
      \cup {k \in {"tcp_host"} : c["mode"] = "tcp" /\ c[k] = ""}

\* the web's: TLS unless it is on loopback, and both halves or neither.
WebProblems(c) ==
    {k \in OfWeb : c[k] = "bad"}
      \cup {k \in {"tls_cert", "tls_key"} :
              \/ c["bind"] # "loopback" /\ c[k] = ""
              \/ (c["tls_cert"] = "") # (c["tls_key"] = "")}

Problems(c) ==
    AlwaysProblems(c)
      \cup (IF c["telnet"] = "true" THEN TelnetProblems(c) ELSE {})
      \cup (IF c["mesh"] = "true" THEN MeshProblems(c) ELSE {})
      \cup (IF c["web"] = "true" THEN WebProblems(c) ELSE {})

Validate(c) == Problems(c) = {}

\* Mutant: judged before the environment is applied.
LoadedEarly(file, env) ==
    LET fromFile == Over(Default, file.set)
    IN  IF file.unknown \/ ~Parses(file.set) \/ ~Parses(env) \/ ~Validate(fromFile) THEN {}
        ELSE {Over(fromFile, env)}

\* config.Load: a set with the configuration, or nothing for an error.  A key in
\* the file that the struct does not have is one; a variable that names none is
\* not seen.
Loaded(file, env) ==
    LET c == Over(Over(Default, file.set), env)
    IN  IF file.unknown \/ ~Parses(file.set) \/ ~Parses(env) \/ ~Validate(c) THEN {} ELSE {c}

\* Where config.toml is looked for: in the flag's directory as it was written, or
\* where the OS would have it.
Probed(flag) == IF flag # "" THEN flag ELSE Home

Found(flag, confFlag) ==
    IF confFlag # "" THEN confFlag
    ELSE IF Probed(flag) \in Dir /\ onDisk[Probed(flag)].there THEN Probed(flag) ELSE ""

\* ResolvedDataDir, after the flag.
DataDir(c, flag) ==
    LET d == IF flag # "" THEN flag ELSE c["data_dir"]
    IN  IF d = "" THEN Home ELSE ExpandPath[d]

\* What the command runs with; nothing when it does not get that far.
Started(cmd, flag, confFlag) ==
    LET path == Found(flag, confFlag)
        file == IF path = "" THEN NoFile ELSE onDisk[path]
    IN  {[cmd |-> cmd, flag |-> flag, given |-> confFlag, path |-> path, dir |-> DataDir(c, flag),
          conf |-> c, layers |-> [file |-> file.set, env |-> shell], port |-> ""] : c \in Loaded(file, shell)}

----------------------------------------------------------------------------
(* Commands. *)

Counts == commandsRun < MaxCommands /\ commandsRun' = commandsRun + 1

\* An error before the command's own work: nothing happened.
Refused(cmd, flag, confFlag) ==
    /\ Counts
    /\ confFlag # "" => onDisk[confFlag].there
    /\ Started(cmd, flag, confFlag) = {}
    /\ UNCHANGED <<onDisk, shell, keys, made, last, edits>>

\* init: a directory that has a key is left alone; a config.toml that is there
\* is kept; otherwise the settings that init has flags for, as they are in
\* force, become the file.
InitFlags == {"display_name", "environment", "level"}

Initialises(flag, development) ==
    /\ Counts
    /\ \E s \in Started("init", flag, "") :
          LET c == IF development THEN [s.conf EXCEPT !["environment"] = "development"] ELSE s.conf
          IN /\ Validate(c)
             /\ last' = [s EXCEPT !.conf = c]
             /\ IF s.dir \in keys THEN UNCHANGED <<onDisk, keys, made>>
                ELSE /\ keys' = keys \cup {s.dir}
                     /\ made' = made \cup {[flag |-> flag, dir |-> s.dir]}
                     /\ onDisk' = IF onDisk[s.dir].there THEN onDisk
                                  ELSE [onDisk EXCEPT ![s.dir] =
                                          [set |-> [k \in InitFlags |-> c[k]],
                                           unknown |-> FALSE, there |-> TRUE]]
    /\ UNCHANGED <<shell, edits>>

\* config check and config show: loaded is all they ask.
Checks(flag, confFlag) ==
    /\ Counts
    /\ confFlag # "" => onDisk[confFlag].there
    /\ \E s \in Started("check", flag, confFlag) : last' = s
    /\ UNCHANGED <<onDisk, shell, keys, made, edits>>

\* The themes by name: the built-in ones and a file's, which inherits what it
\* does not set.  One file that is not a theme, and there are none.
Builtins == {"classic", "muted", "contrast", "mono"}
Themes == IF BrokenThemes # {} THEN {} ELSE Builtins \cup ThemeFiles

\* serve: a log, a key, a theme of that name; then --port replaces the port.
Serves(flag, confFlag, port) ==
    /\ Counts
    /\ confFlag # "" => onDisk[confFlag].there
    /\ \E s \in Started("serve", flag, confFlag) :
          last' = IF s.dir \in keys /\ s.conf["theme"] \in Themes
                  THEN [s EXCEPT !.port = IF port = "" THEN s.conf["ssh_port"] ELSE port]
                  ELSE last
    /\ UNCHANGED <<onDisk, shell, keys, made, edits>>

\* The dev commands: only where the settings say development.
Develops(flag) ==
    /\ Counts
    /\ \E s \in Started("dev", flag, "") :
          last' = IF s.conf["environment"] = "development" THEN s ELSE last
    /\ UNCHANGED <<onDisk, shell, keys, made, edits>>

----------------------------------------------------------------------------
(* The sysop. *)

\* Another value, or a key that is not one.
EditsConfig(d) ==
    /\ edits < MaxEdits /\ edits' = edits + 1
    /\ \/ \E k \in Touched \ {"data_dir"} : \E v \in Written(k) :
             onDisk' = [onDisk EXCEPT ![d].set = [x \in DOMAIN @ \cup {k} |-> IF x = k THEN v ELSE @[x]],
                                      ![d].there = TRUE]
       \/ onDisk' = [onDisk EXCEPT ![d].unknown = ~@, ![d].there = TRUE]
    /\ UNCHANGED <<shell, keys, made, last, commandsRun>>

SetNext ==
    \/ \E flag \in {""} \cup Spelling :
         \/ \E development \in BOOLEAN : Initialises(flag, development)
         \/ \E cmd \in {"init", "serve"} : Refused(cmd, flag, "")
         \/ Develops(flag)
         \/ \E confFlag \in {""} \cup Dir :
              \/ Checks(flag, confFlag)
              \/ \E port \in Ports : Serves(flag, confFlag, port)
    \/ \E d \in Dir : EditsConfig(d)

----------------------------------------------------------------------------
(* Properties. *)

\* What each part of a running command reads is what it can work with, whichever
\* layer it came from ("a BBS that fails to start is better than one that starts
\* with the wrong airtime budget", cli/config.go:30-32).
UsesAreSound ==
    LET c == last.conf
        on(part) == c[part] = "true"
    IN  /\ \A k \in Typed : c[k] # "junk"
        /\ \A k \in Always : c[k] # "bad"
        /\ on("mesh") => /\ \A k \in OfMesh : c[k] # "bad"
                         /\ c["mode"] = "auto" \/ (c["mode"] = "tcp" /\ c["tcp_host"] # "")
        /\ on("web") => /\ \A k \in OfWeb : c[k] # "bad"
                        /\ c["bind"] = "any" => c["tls_cert"] = "set"
                        /\ c["tls_cert"] = c["tls_key"]
        /\ on("telnet") => c["telnet_port"] \notin {"0", c["ssh_port"]}

\* Nothing the sysop set is lost to a lower layer (config.go:16-18).
LaterLayersWin ==
    \A k \in Key \ InitFlags :
       /\ k \in DOMAIN last.layers.env => last.conf[k] = last.layers.env[k]
       /\ k \in DOMAIN last.layers.file \ DOMAIN last.layers.env => last.conf[k] = last.layers.file[k]

\* A command run with init's flags uses the directory init made and the file it
\* wrote there ("otherwise look under the data directory", cli/root.go:113-115).
HomeIsFound ==
    \A m \in made : last.cmd # "init" /\ last.flag = m.flag /\ last.given = ""
                    => last.dir = m.dir /\ last.path = m.dir

\* The settings a command runs with are sound, are the ones the sysop set, and are
\* read where init put them.
SettingsHold == UsesAreSound /\ LaterLayersWin /\ HomeIsFound
=============================================================================
