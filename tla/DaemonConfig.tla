---------------------------- MODULE DaemonConfig ----------------------------
(***************************************************************************)
(* client.json, and the processes that read it, change their copy and      *)
(* write it back without a lock: the commands of vvibe, and the daemon     *)
(* when the browser enables codex or a codex run mends its own flags.  The *)
(* daemon reads the file once when it starts, for its token, and again for *)
(* each prompt, for the directories it may work in.                        *)
(*                                                                         *)
(* A save empties the file before it fills it, two steps between which     *)
(* others read and write.  The environment variables that stand in for the *)
(* codex settings are unset here, codex is installed, and a run of it has  *)
(* passed the gate of directories.                                         *)
(***************************************************************************)
EXTENDS Sequences, Functions, Lists

CONSTANTS
    Proc,          \* processes, or handlers of the daemon, that use the file
    Root           \* directories, none inside another

VARIABLES
    file,          \* the contents of client.json
    proc,          \* proc[p]: the command p was started for, and how far it is
    daemon,        \* the configuration the daemon started with
    prompt,        \* prompt[r]: the run of the session whose directory is r
    intended,      \* what the commands that have saved, one by one, amount to
    raced          \* a process has saved a copy that was out of date

vars == <<file, proc, daemon, prompt, intended, raced>>

NoToken == "none"

\* A token stands for the login that saved it; "odd" are the codex flags that
\* v0.1.17 saved and codex refuses; snapshot: the install's agent directories.
Config == [token : Proc \cup {NoToken}, allowed : Seq(Root), codex : BOOLEAN,
           args : {"", "odd", "good"}, snapshot : BOOLEAN]

Default == [token |-> NoToken, allowed |-> <<>>, codex |-> FALSE,
            args |-> "", snapshot |-> FALSE]

\* What v0.1.17 left behind.
Inherited == [Default EXCEPT !.codex = TRUE, !.args = "odd"]

\* The file, and what loadConfig makes of it when it can read it: the defaults
\* when there is none.
File == [is : {"absent", "parsed", "empty", "garbage"}, config : Config]

Absent    == [is |-> "absent", config |-> Default]
Empty     == [is |-> "empty", config |-> Default]
Garbage   == [is |-> "garbage", config |-> Default]
Holding(c) == [is |-> "parsed", config |-> c]

Readable(f) == f.is \in {"absent", "parsed"}

\* A daemon that does not run has no configuration.
Down == [up |-> FALSE, config |-> Default]

Command == [do : {"login", "disable", "ui", "codex"}]
           \cup [do : {"allow", "deny"}, root : Root]
           \cup [do : {"enable"}, flags : {"", "odd", "good"}]
           \cup [do : {"install"}, force : BOOLEAN]

\* The commands that are handlers of the daemon, not processes of their own.
OfDaemon == {"ui", "codex"}

Idle == [at |-> "idle"]

-----------------------------------------------------------------------------
(* The gate *)

\* isCwdAllowed
Admits(list, cwd) == list = <<>> \/ cwd \in Range(list)

-----------------------------------------------------------------------------
(* The commands *)

\* What p's command makes of the configuration c.
Applied(p, cmd, c) ==
    CASE cmd.do = "login"   -> [c EXCEPT !.token = p]
      [] cmd.do = "allow"   -> [c EXCEPT !.allowed = Append(@, cmd.root)]
      [] cmd.do = "deny"    -> [c EXCEPT !.allowed = Keep(@, Root \ {cmd.root})]
      [] cmd.do = "disable" -> [c EXCEPT !.codex = FALSE]
      [] cmd.do = "install" -> [c EXCEPT !.snapshot = TRUE]
      [] cmd.do = "ui"      -> [c EXCEPT !.codex = TRUE, !.args = "good"]
      [] cmd.do = "codex"   -> [c EXCEPT !.args = "good"]
      [] cmd.do = "enable"  ->
             [c EXCEPT !.codex = TRUE,
                       !.args = IF cmd.flags # "" THEN cmd.flags
                                ELSE IF @ = "" THEN "good" ELSE @]

\* runInstall refuses a machine that is not paired, unless it is forced to.
\* The code loads the file for this and again for the snapshot; here they share
\* one load.
Installs(cmd, c) == c.token # NoToken \/ cmd.force

\* Mutant: a directory is listed again each time it is allowed.
SavesAlways(cmd, c) ==
    CASE cmd.do = "deny"  -> cmd.root \in Range(c.allowed)
      [] cmd.do = "codex" -> c.args = "odd"
      [] cmd.do = "install" -> Installs(cmd, c)
      [] OTHER            -> TRUE

\* Whether the command changes anything, so that it saves.
Saves(cmd, c) ==
    CASE cmd.do = "allow" -> cmd.root \notin Range(c.allowed)
      [] cmd.do = "deny"  -> cmd.root \in Range(c.allowed)
      [] cmd.do = "codex" -> c.args = "odd"
      [] cmd.do = "install" -> Installs(cmd, c)
      [] OTHER            -> TRUE

\* How a command ends that has nothing to save, or has saved c: a codex run
\* goes ahead if codex is enabled.
Outcome(cmd, c) ==
    CASE cmd.do = "codex" -> IF c.codex THEN "ran" ELSE "barred"
      [] cmd.do = "install" /\ ~Installs(cmd, c) -> "refused"
      [] OTHER -> "done"

\* Mutant: what cannot be read is taken for the defaults.
LoadedAnyway(p, cmd) ==
    IF Saves(cmd, file.config)
    THEN [at |-> "loaded", cmd |-> cmd,
          copy |-> Applied(p, cmd, file.config), stale |-> FALSE]
    ELSE [at |-> Outcome(cmd, file.config)]

\* Mutant: a codex run is let in by the configuration of the daemon's start.
LoadedAtStart(p, cmd) ==
    IF ~Readable(file) THEN [at |-> IF cmd.do = "codex" THEN "barred" ELSE "refused"]
    ELSE IF Saves(cmd, file.config)
         THEN [at |-> "loaded", cmd |-> cmd,
               copy |-> Applied(p, cmd, file.config), stale |-> FALSE]
         ELSE [at |-> Outcome(cmd, IF cmd.do = "codex" THEN daemon.config ELSE file.config)]

\* p's command with the configuration it has loaded, or without: then a codex
\* run is not trusted, and any other command fails.
Loaded(p, cmd) ==
    IF ~Readable(file) THEN [at |-> IF cmd.do = "codex" THEN "barred" ELSE "refused"]
    ELSE IF Saves(cmd, file.config)
         THEN [at |-> "loaded", cmd |-> cmd,
               copy |-> Applied(p, cmd, file.config), stale |-> FALSE]
         ELSE [at |-> Outcome(cmd, file.config)]

\* The daemon reaches the server, and the server it.
Serving == daemon.up /\ daemon.config.token # NoToken

\* A command loads the file.  It may then wait, for the user who approves the
\* login or types the flags of codex.
Load(p) ==
    /\ proc[p] = Idle
    /\ \E cmd \in Command :
          /\ cmd.do \in OfDaemon => Serving
          /\ proc' = [proc EXCEPT ![p] = Loaded(p, cmd)]
    /\ UNCHANGED <<file, daemon, prompt, intended, raced>>

\* saveConfig: os.WriteFile opens the file and empties it; who has loaded it
\* before holds a copy that is out of date.
Truncate(p) ==
    /\ proc[p].at = "loaded"
    /\ file' = Empty
    /\ raced' = (raced \/ proc[p].stale)
    /\ proc' = [q \in Proc |->
                   IF q = p THEN [proc[q] EXCEPT !.at = "writing"]
                   ELSE IF proc[q].at = "loaded" THEN [proc[q] EXCEPT !.stale = TRUE]
                   ELSE proc[q]]
    /\ UNCHANGED <<daemon, prompt, intended>>

\* Then it writes its copy from the start of the file; what another process
\* has written meanwhile may be longer and stick out.
Write(p) ==
    /\ proc[p].at = "writing"
    /\ LET c == proc[p].copy
           cmd == proc[p].cmd
       IN  /\ file' \in IF file \in {Empty, Holding(c)}
                        THEN {Holding(c)} ELSE {Holding(c), Garbage}
           /\ intended' = Applied(p, cmd, intended)
           /\ proc' = [proc EXCEPT ![p] = [at |-> Outcome(cmd, c)]]
    /\ UNCHANGED <<daemon, prompt, raced>>

\* A codex run whose save fails before it begins goes on with its copy all the
\* same.
RunUnsaved(p) ==
    /\ proc[p].at = "loaded" /\ proc[p].cmd.do = "codex"
    /\ proc' = [proc EXCEPT ![p] = [at |-> Outcome(proc[p].cmd, proc[p].copy)]]
    /\ UNCHANGED <<file, daemon, prompt, intended, raced>>

\* Ctrl-C, a login that fails, a full disk: in the middle of a save the file
\* stays empty.  What becomes of a codex run then is left open.
Halted(q) ==
    CASE q.at = "loaded"  -> [at |-> "gone"]
      [] q.at = "writing" -> [at |-> "torn"]
      [] OTHER            -> q

Interrupt(p) ==
    /\ proc[p].at \in {"loaded", "writing"}
    /\ proc' = [proc EXCEPT ![p] = Halted(@)]
    /\ UNCHANGED <<file, daemon, prompt, intended, raced>>

-----------------------------------------------------------------------------
(* The daemon *)

\* What any hello of the daemon says of codex (codexEnabled).
Reported == daemon.up /\ daemon.config.codex

\* Without a readable file the daemon does nothing.
StartDaemon ==
    /\ ~daemon.up /\ Readable(file)
    /\ daemon' = [up |-> TRUE, config |-> file.config]
    /\ UNCHANGED <<file, proc, prompt, intended, raced>>

\* The daemon stops with its runs, and with its handlers wherever they are.
StopDaemon ==
    /\ daemon.up
    /\ daemon' = Down
    /\ prompt' = [r \in Root |-> "idle"]
    /\ proc' = [p \in Proc |->
                   IF proc[p].at \in {"loaded", "writing"} /\ proc[p].cmd.do \in OfDaemon
                   THEN Halted(proc[p]) ELSE proc[p]]
    /\ UNCHANGED <<file, intended, raced>>

\* Mutant: the list of the daemon's start decides.
HandleRunPromptStale(r) ==
    /\ Serving /\ prompt[r] = "idle"
    /\ prompt' = [prompt EXCEPT ![r] =
                     IF ~Admits(daemon.config.allowed, r) THEN "refused" ELSE "running"]
    /\ UNCHANGED <<file, proc, daemon, intended, raced>>

\* A prompt for directory r; a configuration that cannot be read refuses none.
HandleRunPrompt(r) ==
    /\ Serving /\ prompt[r] = "idle"
    /\ prompt' = [prompt EXCEPT ![r] =
                     IF Readable(file) /\ ~Admits(file.config.allowed, r)
                     THEN "refused" ELSE "running"]
    /\ UNCHANGED <<file, proc, daemon, intended, raced>>

\* The run ends, or its refusal is told.
EndRun(r) ==
    /\ prompt[r] # "idle"
    /\ prompt' = [prompt EXCEPT ![r] = "idle"]
    /\ UNCHANGED <<file, proc, daemon, intended, raced>>

-----------------------------------------------------------------------------
Init ==
    /\ file \in {Absent, Holding(Inherited)}
    /\ proc = [p \in Proc |-> Idle]
    /\ daemon = Down
    /\ prompt = [r \in Root |-> "idle"]
    /\ intended = file.config
    /\ raced = FALSE

Next ==
    \/ \E p \in Proc : Load(p) \/ Truncate(p) \/ Write(p) \/ RunUnsaved(p) \/ Interrupt(p)
    \/ StartDaemon
    \/ StopDaemon
    \/ \E r \in Root : HandleRunPrompt(r) \/ EndRun(r)

Spec == Init /\ [][Next]_vars

-----------------------------------------------------------------------------
(* Properties *)

ProcState ==
    [at : {"idle", "done", "refused", "ran", "barred", "gone", "torn"}]
    \cup [at : {"loaded", "writing"}, cmd : Command, copy : Config, stale : BOOLEAN]

\* Every variable keeps its type, and no directory is listed twice.
TypeOK ==
    /\ file \in File
    /\ proc \in [Proc -> ProcState]
    /\ daemon \in [up : BOOLEAN, config : Config]
    /\ prompt \in [Root -> {"idle", "running", "refused"}]
    /\ intended \in Config
    /\ raced \in BOOLEAN
    /\ IsInjective(file.config.allowed)

\* Nobody is in the middle of a save, died there, or has saved a stale copy.
Settled == ~raced /\ \A p \in Proc : proc[p].at \notin {"writing", "torn"}

\* Commands that do not overlap all count, in their order, whoever ran them;
\* and a file that cannot be read has a save that was cut short, or two that
\* overlapped, behind it.
SettledFileIsIntended ==
    Settled => Readable(file) /\ file.config = intended

\* A codex run that is let in or refused in this step, by what it has read since
\* the last save.
Decides(p) ==
    /\ proc[p].at \notin {"ran", "barred"} /\ proc'[p].at \in {"ran", "barred"}
    /\ proc[p].at = "loaded" => ~proc[p].stale

\* The prompts and the codex runs let in by a step are those that the commands
\* so far allow, and no others are refused.
FollowCommands ==
    Settled' =>
       /\ \A r \in Root :
             prompt[r] = "idle" /\ prompt'[r] # "idle" =>
                (prompt'[r] = "running") = Admits(intended.allowed, r)
       /\ \A p \in Proc : Decides(p) => (proc'[p].at = "ran" <=> intended.codex)

\* "takes effect on next prompt - no restart needed", "The runner reads config
\* per-turn, so no restart is needed": what decides is what the commands so far
\* amount to, not what the daemon or the run once read.
PromptsFollowCommands == [][FollowCommands]_vars

\* "Mirrors runner_codex.go's gate logic so the UI never shows "enabled" for a
\* config the runner would refuse to honour", and "Changes take effect after
\* `vvibe restart` (or next start)": no codex run is refused by a client.json
\* that can be read, while the daemon's hello reports codex as enabled.
ReportedIsHonoured ==
    [][\A p \in Proc :
          Decides(p) /\ proc'[p].at = "barred" /\ Readable(file') => ~Reported]_vars
=============================================================================
