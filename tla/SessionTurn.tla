---------------------------- MODULE SessionTurn ----------------------------
(***************************************************************************)
(* One chat session, from the prompt a browser sends to the end of the     *)
(* agent run on the paired machine.  Three processes take part:            *)
(*                                                                         *)
(*  - the server (one Node event loop): the Session object, its            *)
(*    RemoteRunner and the registry entry of the session's device.  Every  *)
(*    handler runs to completion, with all the synchronous calls it makes, *)
(*    so that each one is a single action here.  The handlers are written  *)
(*    as functions on the record srv, one per method, and composed as the  *)
(*    methods call one another;                                            *)
(*  - the daemon (Go, goroutines): a reader of its WebSocket and one       *)
(*    goroutine per run, which keeps the socket it was started on;         *)
(*  - the user, who may do anything the browser lets her do at any time.   *)
(*                                                                         *)
(* The WebSockets between daemon and server are FIFO, may break at any     *)
(* moment and lose what is in flight.                                      *)
(*                                                                         *)
(* Texts are abstracted: a prompt is its number in the order typed, a      *)
(* resume token is the number of the run that minted it, and of the chat   *)
(* history the model keeps what the code reads back (the last user prompt) *)
(* and what the properties need (the last run whose output was recorded).  *)
(***************************************************************************)
EXTENDS Integers, Sequences, FiniteSets

CONSTANTS
    MaxPrompts,    \* prompts the user types or has run again
    MaxRuns,       \* runs the server may start
    MaxConns,      \* WebSockets the daemon may open
    MaxSays,       \* messages the runs emit, at most one a run
    MaxAsks,       \* permission requests, at most one a run
    MaxCancels,    \* times the user presses cancel
    MaxRetries,    \* times the user presses retry
    MaxDrops,      \* link failures and daemon crashes
    MaxRestarts,   \* server restarts
    MaxDeletes,    \* 1 if the user may delete the session, else 0
    Agent,         \* the agent of the session
    Outcomes       \* the errors with which a run may end

\* Nothing; any failure; not logged in; a resume token the agent does not know.
Error == {"none", "fail", "auth", "stale"}

ASSUME BoundsAssumption ==
    /\ {MaxPrompts, MaxRuns, MaxConns, MaxSays, MaxAsks, MaxCancels,
        MaxRetries, MaxDrops, MaxRestarts, MaxDeletes} \subseteq Nat
    /\ MaxPrompts > 0
    /\ Agent \in {"claude", "codex"}
    /\ {"none", "fail"} \subseteq Outcomes
    /\ Outcomes \subseteq Error

Run    == 1..MaxRuns
Conn   == 1..MaxConns
Prompt == 1..MaxPrompts

NoRun    == 0      \* activeRunId, unsubscribe and resumeToken undefined
NoPrompt == 0      \* inFlightPrompt null
NoConn   == 0      \* no registry entry, or a disconnected daemon

VARIABLES
    srv,           \* the server: Session, RemoteRunner, registry entry, sockets
    up,            \* up[c]: daemon messages in flight on socket c
    dconn,         \* the daemon's current socket
    nconn,         \* sockets opened so far
    phase,         \* phase[r]: where run r is on the daemon
    via,           \* via[r]: the socket run r was started on and answers on
    resumeOf,      \* resumeOf[r]: the resume token run r was given
    stopped,       \* runs whose context the daemon has cancelled
    used,          \* how much of each bound has been used
    \* What the properties refer to and no code reads:
    withdrawn,     \* prompts 1..withdrawn were typed before the last cancel
    again,         \* prompts the user had run again
    cancelled,     \* runs that were active when the user pressed cancel
    allowed,       \* runs whose permission request the user allowed
    granted        \* runs the daemon let use the tool they asked for

daemonVars == <<phase, via, resumeOf, stopped>>
ghostVars  == <<withdrawn, again, cancelled, allowed, granted>>
vars == <<srv, up, dconn, nconn, daemonVars, used, ghostVars>>

-----------------------------------------------------------------------------
(* Messages *)

\* Server to daemon.  The denials cancel() sends, one per pending request and
\* each to a run of its own, travel as one message that names their runs.
RunPrompt(r, p, t) == [type |-> "run", run |-> r, prompt |-> p, resume |-> t]
CancelRun(r)       == [type |-> "cancel", run |-> r]
Answer(rs, allow)  == [type |-> "answer", runs |-> rs, allow |-> allow]

\* Daemon to server.
Hello        == [type |-> "hello"]
Say(r, auth) == [type |-> "say", run |-> r, auth |-> auth]
Ask(r)       == [type |-> "ask", run |-> r]
Done(r, t, e) == [type |-> "done", run |-> r, token |-> t, error |-> e]

Token == 0..MaxRuns

DownMsg ==
    [type : {"run"}, run : Run, prompt : Prompt, resume : Token]
        \cup [type : {"cancel"}, run : Run]
        \cup [type : {"answer"}, runs : SUBSET Run, allow : BOOLEAN]

UpMsg ==
    [type : {"hello"}]
        \cup [type : {"say"}, run : Run, auth : BOOLEAN]
        \cup [type : {"ask"}, run : Run]
        \cup [type : {"done"}, run : Run, token : Token, error : Error]

-----------------------------------------------------------------------------
(* The server's state *)

Status == {"idle", "running", "awaiting_permission", "error"}
Phase  == {"none", "running", "asking", "ended", "killed"}

ServerState ==
    [ \* Session
      status     : Status,
      token      : Token,
      pending    : SUBSET Run,
      queue      : Seq(Prompt),
      busy       : BOOLEAN,
      cancelling : BOOLEAN,
      inFlight   : 0..MaxPrompts,
      retried    : BOOLEAN,
      alerted    : BOOLEAN,
      lastUser   : 0..MaxPrompts,
      lastSaid   : Token,
      deleted    : BOOLEAN,
      \* RemoteRunner and its listeners in the registry
      activeRun  : Token,
      unsub      : Token,
      subs       : SUBSET Run,
      lastRun    : Token,
      \* the registry entry of the device and the server's ends of its sockets
      entry      : 0..MaxConns,
      ws         : [Conn -> {"none", "open", "closing", "closed"}],
      down       : [Conn -> Seq(DownMsg)],
      alive      : BOOLEAN,
      \* for the properties: what each run was given, and the prompts that the
      \* stale-token recovery has put back
      promptOf   : [Run -> 0..MaxPrompts],
      replayed   : SUBSET Prompt ]

FreshServer ==
    [ status |-> "idle", token |-> NoRun, pending |-> {}, queue |-> <<>>,
      busy |-> FALSE, cancelling |-> FALSE, inFlight |-> NoPrompt,
      retried |-> FALSE, alerted |-> FALSE, lastUser |-> NoPrompt,
      lastSaid |-> NoRun, deleted |-> FALSE,
      activeRun |-> NoRun, unsub |-> NoRun, subs |-> {}, lastRun |-> NoRun,
      entry |-> NoConn, ws |-> [c \in Conn |-> "none"],
      down |-> [c \in Conn |-> <<>>], alive |-> TRUE,
      promptOf |-> [r \in Run |-> NoPrompt], replayed |-> {} ]

-----------------------------------------------------------------------------
(* DeviceRegistry, as one session sees it *)

\* The device is registered and its socket is OPEN.
Online(s) == s.entry # NoConn /\ s.ws[s.entry] = "open"

SendToDevice(s, m) ==
    IF Online(s) THEN [s EXCEPT !.down[s.entry] = Append(@, m)] ELSE s

\* A listener passes on a message of its own run, provided the runner has an
\* active device: the device, there being one, that the message came from.
Heard(s, r) == s.activeRun # NoRun /\ r \in s.subs

-----------------------------------------------------------------------------
(* RemoteRunner and Session: one operator per method *)

\* Mutants: the run is not forgotten; its listener is not removed.
CleanupKeepsRun(s) ==
    [s EXCEPT !.subs = @ \ {s.unsub}, !.unsub = NoRun]

CleanupKeepsListener(s) ==
    [s EXCEPT !.unsub = NoRun, !.activeRun = NoRun]

Cleanup(s) ==
    [s EXCEPT !.subs = @ \ {s.unsub}, !.unsub = NoRun, !.activeRun = NoRun]

\* The insert violates the foreign key once the session's row is gone, and
\* nothing above the daemon socket's message handler catches what it throws.
RecordMessage(s) == [s EXCEPT !.alive = @ /\ ~s.deleted]

SetStatus(s, st) == [s EXCEPT !.status = st]

\* runner.send(next, resumeToken) with the device online.
Start(s) ==
    LET r == s.lastRun + 1
        p == Head(s.queue)
    IN  SendToDevice(
            [s EXCEPT !.queue = Tail(@), !.busy = TRUE, !.status = "running",
                      !.inFlight = p, !.promptOf[r] = p, !.lastRun = r,
                      !.activeRun = r, !.unsub = r, !.subs = @ \cup {r}],
            RunPrompt(r, p, s.token))

\* The same for every queued prompt with the device offline: send() reports
\* onError and onDone before it returns, and onDone drains the queue again.
\* Only the first error can fall to a cancel still marked as under way.  With
\* an entry whose socket is closing, send() gets as far as cleanup().
FailAll(s) ==
    LET swallowed == s.cancelling /\ Len(s.queue) = 1
        failed == RecordMessage(
            [s EXCEPT !.queue = <<>>, !.busy = FALSE, !.cancelling = FALSE,
                      !.inFlight = NoPrompt,
                      !.status = IF swallowed THEN "idle" ELSE "error"])
    IN  IF s.entry = NoConn
        THEN failed
        ELSE [failed EXCEPT !.unsub = NoRun, !.activeRun = NoRun]

\* Mutant: no check that a turn is in progress.
DrainQueueAnyway(s) ==
    IF s.queue = <<>> THEN s
    ELSE IF Online(s) THEN Start(s) ELSE FailAll(s)

DrainQueue(s) ==
    IF s.busy \/ s.queue = <<>> THEN s
    ELSE IF Online(s) THEN Start(s) ELSE FailAll(s)

\* Mutants: the queue is not drained; the status is not reset.
OnDoneUndrained(s) ==
    [s EXCEPT !.status = IF @ = "error" THEN @ ELSE "idle",
              !.busy = FALSE, !.cancelling = FALSE, !.inFlight = NoPrompt]

OnDoneStillRunning(s) ==
    DrainQueue([s EXCEPT !.busy = FALSE, !.cancelling = FALSE,
                         !.inFlight = NoPrompt])

OnDone(s) ==
    DrainQueue([s EXCEPT !.status = IF @ = "error" THEN @ ELSE "idle",
                         !.busy = FALSE, !.cancelling = FALSE,
                         !.inFlight = NoPrompt])

EmitAuthRequired(s) == [s EXCEPT !.alerted = TRUE, !.token = NoRun]

OnMessage(s, m) ==
    LET alert == m.auth /\ ~s.alerted
        t == IF alert THEN EmitAuthRequired(s) ELSE s
    IN  RecordMessage([t EXCEPT !.lastSaid = m.run])

OnResumeToken(s, t) == [s EXCEPT !.retried = FALSE, !.token = t]

\* Mutant: the prompt goes to the back of the queue.
ReplayLast(s) ==
    DrainQueue(RecordMessage(
        [s EXCEPT !.retried = TRUE, !.token = NoRun, !.busy = FALSE,
                  !.queue = Append(@, s.inFlight), !.inFlight = NoPrompt,
                  !.replayed = @ \cup {s.inFlight}]))

\* Forget the token and put the prompt in flight back at the head of the queue.
ReplayFresh(s) ==
    DrainQueue(RecordMessage(
        [s EXCEPT !.retried = TRUE, !.token = NoRun, !.busy = FALSE,
                  !.queue = <<s.inFlight>> \o @, !.inFlight = NoPrompt,
                  !.replayed = @ \cup {s.inFlight}]))

OnError(s, e) ==
    IF s.cancelling
    THEN RecordMessage(s)
    ELSE IF e = "auth" /\ ~s.alerted
    THEN RecordMessage(SetStatus(EmitAuthRequired(s), "error"))
    ELSE IF e = "stale" /\ ~s.retried /\ s.inFlight # NoPrompt
    THEN ReplayFresh(s)
    ELSE RecordMessage(SetStatus(s, "error"))

OnDaemonDone(s, m) ==
    LET t == IF m.token = NoRun THEN s ELSE OnResumeToken(s, m.token)
        e == IF m.error = "none" THEN t ELSE OnError(t, m.error)
    IN  OnDone(Cleanup(e))

AskPermission(s, r) ==
    [s EXCEPT !.pending = @ \cup {r}, !.status = "awaiting_permission"]

HandleDaemonMessage(s, m) ==
    IF ~Heard(s, m.run) THEN s
    ELSE CASE m.type = "say"  -> OnMessage(s, m)
           [] m.type = "ask"  -> AskPermission(s, m.run)
           [] m.type = "done" -> OnDaemonDone(s, m)

\* The newest registration wins; the socket it replaces is closed.
Register(s, c) ==
    [s EXCEPT !.entry = c,
              !.ws = [d \in Conn |->
                        IF d = s.entry /\ d # c /\ @[d] = "open"
                        THEN "closing" ELSE @[d]]]

Receive(s, c, m) ==
    IF m.type = "hello" THEN Register(s, c) ELSE HandleDaemonMessage(s, m)

EnqueuePrompt(s, p) ==
    DrainQueue(RecordMessage([s EXCEPT !.alerted = FALSE, !.lastUser = p,
                                       !.queue = Append(@, p)]))

RetryLastUserPrompt(s) ==
    DrainQueue([s EXCEPT !.alerted = FALSE, !.queue = <<s.lastUser>> \o @])

ResolvePermission(s, r, allow) ==
    LET left == s.pending \ {r}
        t == SendToDevice([s EXCEPT !.pending = left], Answer({r}, allow))
    IN  IF left = {} /\ s.status = "awaiting_permission"
        THEN SetStatus(t, "running") ELSE t

\* Mutant: the queue survives.
CancelKeepsQueue(s) ==
    LET told   == IF s.activeRun = NoRun THEN s
                  ELSE SendToDevice(s, CancelRun(s.activeRun))
        denied == IF s.pending = {} THEN told
                  ELSE SendToDevice(told, Answer(s.pending, FALSE))
    IN  [denied EXCEPT !.cancelling = TRUE, !.pending = {}]

CancelSession(s) ==
    LET told   == IF s.activeRun = NoRun THEN s
                  ELSE SendToDevice(s, CancelRun(s.activeRun))
        denied == IF s.pending = {} THEN told
                  ELSE SendToDevice(told, Answer(s.pending, FALSE))
    IN  [denied EXCEPT !.cancelling = TRUE, !.pending = {}, !.queue = <<>>]

-----------------------------------------------------------------------------
(* The user, through the browser *)

RoomFor(n) == srv.lastRun + n <= MaxRuns

\* The session exists, so that mustSession and getForUser return it.
Served == srv.alive /\ ~srv.deleted

SendPrompt ==
    /\ Served /\ RoomFor(1)
    /\ srv.lastUser + used.retries < MaxPrompts
    /\ srv' = EnqueuePrompt(srv, srv.lastUser + 1)
    /\ UNCHANGED <<up, dconn, nconn, daemonVars, used, ghostVars>>

\* Mutant: no check that there is a prompt to retry.
RetryUnguarded ==
    /\ Served /\ RoomFor(1)
    /\ used.retries < MaxRetries
    /\ srv.lastUser + used.retries < MaxPrompts
    /\ srv' = RetryLastUserPrompt(srv)
    /\ used' = [used EXCEPT !.retries = @ + 1]
    /\ again' = again \cup {srv.lastUser}
    /\ UNCHANGED <<up, dconn, nconn, daemonVars, withdrawn, cancelled, allowed,
                   granted>>

RetryLast ==
    /\ Served /\ RoomFor(1)
    /\ srv.lastUser # NoPrompt
    /\ used.retries < MaxRetries
    /\ srv.lastUser + used.retries < MaxPrompts
    /\ srv' = RetryLastUserPrompt(srv)
    /\ used' = [used EXCEPT !.retries = @ + 1]
    /\ again' = again \cup {srv.lastUser}
    /\ UNCHANGED <<up, dconn, nconn, daemonVars, withdrawn, cancelled, allowed,
                   granted>>

Respond(r, allow) ==
    /\ Served
    /\ r \in srv.pending
    /\ srv' = ResolvePermission(srv, r, allow)
    /\ allowed' = IF allow THEN allowed \cup {r} ELSE allowed
    /\ UNCHANGED <<up, dconn, nconn, daemonVars, used, withdrawn, again,
                   cancelled, granted>>

Withdraw ==
    /\ withdrawn' = srv.lastUser
    /\ cancelled' = cancelled \cup ({srv.activeRun} \ {NoRun})

\* The stop button of a session.  The browser shows it during a turn, so that
\* a press may also arrive after the end of one.
Cancel ==
    /\ Served
    /\ srv.lastUser # NoPrompt
    /\ used.cancels < MaxCancels
    /\ srv' = CancelSession(srv)
    /\ used' = [used EXCEPT !.cancels = @ + 1]
    /\ Withdraw
    /\ UNCHANGED <<up, dconn, nconn, daemonVars, again, allowed, granted>>

\* The emergency brake reaches only sessions that show a turn in progress.
CancelAll ==
    /\ srv.status \in {"running", "awaiting_permission"}
    /\ Cancel

Delete ==
    /\ Served
    /\ used.deletes < MaxDeletes
    /\ srv' = [CancelSession(srv) EXCEPT !.deleted = TRUE]
    /\ used' = [used EXCEPT !.deletes = @ + 1]
    /\ Withdraw
    /\ UNCHANGED <<up, dconn, nconn, daemonVars, again, allowed, granted>>

-----------------------------------------------------------------------------
(* The server's end of the sockets *)

Deliver(c) ==
    /\ srv.alive /\ RoomFor(2)
    /\ srv.ws[c] \in {"open", "closing"}
    /\ up[c] # <<>>
    /\ srv' = Receive(srv, c, Head(up[c]))
    /\ up' = [up EXCEPT ![c] = Tail(@)]
    /\ UNCHANGED <<dconn, nconn, daemonVars, used, ghostVars>>

\* TCP reports the end of a socket the daemon has left: readyState CLOSING.
SocketEnds(c) ==
    /\ srv.alive
    /\ srv.ws[c] = "open" /\ c # dconn
    /\ srv' = [srv EXCEPT !.ws[c] = "closing"]
    /\ UNCHANGED <<up, dconn, nconn, daemonVars, used, ghostVars>>

\* 'close' fires once the frames that did arrive have been handled, and drops
\* the registry entry unless a newer socket holds it.
SocketCloses(c) ==
    /\ srv.alive
    /\ srv.ws[c] = "closing" /\ up[c] = <<>>
    /\ srv' = [srv EXCEPT !.ws[c] = "closed",
                          !.entry = IF @ = c THEN NoConn ELSE @]
    /\ UNCHANGED <<up, dconn, nconn, daemonVars, used, ghostVars>>

\* The process ends, by itself or by an exception nobody caught, and a new one
\* rehydrates the session from the database.
Restart ==
    /\ used.restarts < MaxRestarts
    /\ used' = [used EXCEPT !.restarts = @ + 1]
    /\ srv' = [FreshServer EXCEPT
                 !.token = srv.token, !.lastUser = srv.lastUser,
                 !.lastSaid = srv.lastSaid, !.deleted = srv.deleted,
                 !.lastRun = srv.lastRun, !.promptOf = srv.promptOf,
                 !.replayed = srv.replayed,
                 !.ws = [c \in Conn |-> IF c <= nconn THEN "closed" ELSE "none"]]
    /\ up' = [c \in Conn |-> <<>>]
    /\ UNCHANGED <<dconn, nconn, daemonVars, ghostVars>>

-----------------------------------------------------------------------------
(* The daemon's relay *)

Dial ==
    /\ srv.alive
    /\ dconn = NoConn /\ nconn < MaxConns
    /\ nconn' = nconn + 1
    /\ dconn' = nconn + 1
    /\ srv' = [srv EXCEPT !.ws[nconn + 1] = "open"]
    /\ up' = [up EXCEPT ![nconn + 1] = <<Hello>>]
    /\ UNCHANGED <<daemonVars, used, ghostVars>>

\* connectOnce returns: its socket is closed, the runs go on.  Of what it had
\* sent, a prefix still reaches the server.
HangUp ==
    /\ dconn' = NoConn
    /\ \E n \in 0..Len(up[dconn]) :
          up' = [up EXCEPT ![dconn] = SubSeq(@, 1, n)]
    /\ srv' = [srv EXCEPT !.down[dconn] = <<>>]

LinkLost ==
    /\ dconn # NoConn
    /\ used.drops < MaxDrops
    /\ used' = [used EXCEPT !.drops = @ + 1]
    /\ HangUp
    /\ UNCHANGED <<nconn, daemonVars, ghostVars>>

\* The daemon reads that the server has closed the socket.
ServerGone ==
    /\ dconn # NoConn
    /\ srv.ws[dconn] = "closed"
    /\ HangUp
    /\ UNCHANGED <<nconn, daemonVars, used, ghostVars>>

\* The daemon process ends, with its runs.
DaemonCrash ==
    /\ dconn # NoConn
    /\ used.drops < MaxDrops
    /\ used' = [used EXCEPT !.drops = @ + 1]
    /\ HangUp
    /\ phase' = [r \in Run |-> IF phase[r] = "none" THEN "none" ELSE "killed"]
    /\ UNCHANGED <<nconn, via, resumeOf, stopped, ghostVars>>

\* wsSender.send on the socket the run holds: an error on a socket that the
\* daemon has left is ignored, a write to one the server has left is lost.
SentOn(c, m) ==
    IF c = dconn /\ srv.ws[c] # "closed"
    THEN [up EXCEPT ![c] = Append(@, m)] ELSE up

\* handleRunPrompt: the cwd and agent gates answer at once, or the run is
\* entered in the run manager before the reader takes its next message.
StartRun(m) ==
    /\ via' = [via EXCEPT ![m.run] = dconn]
    /\ resumeOf' = [resumeOf EXCEPT ![m.run] = m.resume]
    /\ \/ /\ phase' = [phase EXCEPT ![m.run] = "running"]
          /\ UNCHANGED up
       \/ /\ phase' = [phase EXCEPT ![m.run] = "killed"]
          /\ up' = SentOn(dconn, Done(m.run, NoRun, "fail"))
    /\ UNCHANGED <<stopped, granted>>

\* runManager.cancel: only a run still in the manager has a context to cancel.
StopRun(m) ==
    /\ stopped' = IF phase[m.run] \in {"running", "asking"}
                  THEN stopped \cup {m.run} ELSE stopped
    /\ UNCHANGED <<up, phase, via, resumeOf, granted>>

\* Mutant: the answer is not looked at.
AnswerRunBlindly(m) ==
    LET answered == {r \in m.runs : phase[r] = "asking"}
    IN  /\ phase' = [r \in Run |-> IF r \in answered THEN "running" ELSE phase[r]]
        /\ granted' = granted \cup answered
        /\ UNCHANGED <<up, via, resumeOf, stopped>>

\* runManager.permission, and the bridge's table of the requests it has made.
AnswerRun(m) ==
    LET answered == {r \in m.runs : phase[r] = "asking"}
    IN  /\ phase' = [r \in Run |-> IF r \in answered THEN "running" ELSE phase[r]]
        /\ granted' = IF m.allow THEN granted \cup answered ELSE granted
        /\ UNCHANGED <<up, via, resumeOf, stopped>>

DaemonReceive ==
    /\ dconn # NoConn
    /\ srv.down[dconn] # <<>>
    /\ LET m == Head(srv.down[dconn])
       IN  \/ m.type = "run" /\ StartRun(m)
           \/ m.type = "cancel" /\ StopRun(m)
           \/ m.type = "answer" /\ AnswerRun(m)
    /\ srv' = [srv EXCEPT !.down[dconn] = Tail(@)]
    /\ UNCHANGED <<dconn, nconn, used, withdrawn, again, cancelled, allowed>>

-----------------------------------------------------------------------------
(* The runs *)

\* Codex' output is read to its end before its run ends.  Claude's standard
\* error is forwarded by a goroutine that nobody waits for.
MaySpeak(r) ==
    \/ phase[r] = "running"
    \/ phase[r] = "ended" /\ Agent = "claude"

\* Output of the agent, or of its standard error.
Speak(r, auth) ==
    /\ MaySpeak(r)
    /\ r \notin used.spoke /\ Cardinality(used.spoke) < MaxSays
    /\ auth => "auth" \in Outcomes
    /\ used' = [used EXCEPT !.spoke = @ \cup {r}]
    /\ up' = SentOn(via[r], Say(r, auth))
    /\ UNCHANGED <<srv, dconn, nconn, phase, via, resumeOf, stopped,
                   ghostVars>>

\* canUseTool: Claude waits for the answer.  Codex asks for nothing.
AskTool(r) ==
    /\ Agent = "claude"
    /\ phase[r] = "running"
    /\ r \notin used.asked /\ Cardinality(used.asked) < MaxAsks
    /\ used' = [used EXCEPT !.asked = @ \cup {r}]
    /\ phase' = [phase EXCEPT ![r] = "asking"]
    /\ up' = SentOn(via[r], Ask(r))
    /\ UNCHANGED <<srv, dconn, nconn, via, resumeOf, stopped, ghostVars>>

\* The session ids the bridge may have last heard from the SDK.
Reported(r) == {resumeOf[r], r}

\* What claudeRunner.Run returns, as the daemon_done made of it.  Any run may
\* fail before the bridge works or at the wall-clock limit, and come without a
\* token when the bridge dies before it reports.  Otherwise a cancelled context
\* hides the error, and a run that waits for an answer does not end by itself.
ClaudeResults(r) ==
    {Done(r, NoRun, e) : e \in {"none", "fail"}}
    \cup {m \in {Done(r, t, e) : t \in Reported(r), e \in Outcomes} :
            /\ r \in stopped => m.error = "none"
            /\ r \in stopped \/ phase[r] = "running"
            /\ m.error = "stale" => m.token = resumeOf[r] /\ m.token # NoRun}

\* codexRunner.Run has no resume tokens, and only an exit status for an error.
CodexResults(r) ==
    {Done(r, NoRun, e) : e \in IF r \in stopped THEN {"none"} ELSE {"none", "fail"}}

Results(r) == IF Agent = "claude" THEN ClaudeResults(r) ELSE CodexResults(r)

\* Mutant: no wall-clock limit for a run that waits for an answer.
EndRunUnlessAsking(r) ==
    /\ phase[r] = "running"
    /\ phase' = [phase EXCEPT ![r] = "ended"]
    /\ \E m \in Results(r) : up' = SentOn(via[r], m)
    /\ UNCHANGED <<srv, dconn, nconn, via, resumeOf, stopped, used,
                   ghostVars>>

\* runner.Run returns and daemon_done goes out.
EndRun(r) ==
    /\ phase[r] \in {"running", "asking"}
    /\ phase' = [phase EXCEPT ![r] = "ended"]
    /\ \E m \in Results(r) : up' = SentOn(via[r], m)
    /\ UNCHANGED <<srv, dconn, nconn, via, resumeOf, stopped, used,
                   ghostVars>>

-----------------------------------------------------------------------------
(* The specification *)

Init ==
    /\ srv = FreshServer
    /\ up = [c \in Conn |-> <<>>]
    /\ dconn = NoConn
    /\ nconn = 0
    /\ phase = [r \in Run |-> "none"]
    /\ via = [r \in Run |-> NoConn]
    /\ resumeOf = [r \in Run |-> NoRun]
    /\ stopped = {}
    /\ used = [cancels |-> 0, retries |-> 0, drops |-> 0, restarts |-> 0,
               deletes |-> 0, asked |-> {}, spoke |-> {}]
    /\ withdrawn = 0
    /\ again = {}
    /\ cancelled = {}
    /\ allowed = {}
    /\ granted = {}

User ==
    \/ SendPrompt
    \/ RetryLast
    \/ Cancel
    \/ CancelAll
    \/ Delete
    \/ \E r \in Run, allow \in BOOLEAN : Respond(r, allow)

Network ==
    \/ LinkLost
    \/ DaemonCrash
    \/ Restart

Server == \E c \in Conn : Deliver(c) \/ SocketEnds(c) \/ SocketCloses(c)

Daemon ==
    \/ Dial
    \/ ServerGone
    \/ DaemonReceive
    \/ \E r \in Run :
          \/ \E auth \in BOOLEAN : Speak(r, auth)
          \/ AskTool(r)
          \/ EndRun(r)

Next == User \/ Network \/ Server \/ Daemon

Spec == Init /\ [][Next]_vars

\* The server's event loop and TCP make progress, the daemon keeps dialling
\* and reading, and no run outlives its wall-clock limit.  Nothing is asked of
\* the user, of the agents, or of failures.  As every kind of step is bounded
\* here, fairness of the disjunction is fairness of each.
Progress ==
    \/ \E c \in Conn : Deliver(c) \/ SocketEnds(c) \/ SocketCloses(c)
    \/ Dial \/ ServerGone \/ DaemonReceive
    \/ \E r \in Run : EndRun(r)

Fairness == WF_vars(Progress)

FairSpec == Spec /\ Fairness

-----------------------------------------------------------------------------
(* Properties *)

\* Every variable has its type.
TypeOK ==
    /\ srv \in ServerState
    /\ up \in [Conn -> Seq(UpMsg)]
    /\ dconn \in 0..MaxConns
    /\ nconn \in 0..MaxConns
    /\ phase \in [Run -> Phase]
    /\ via \in [Run -> 0..MaxConns]
    /\ resumeOf \in [Run -> Token]
    /\ stopped \in SUBSET Run
    /\ used \in [cancels : 0..MaxCancels, retries : 0..MaxRetries,
                 drops : 0..MaxDrops, restarts : 0..MaxRestarts,
                 deletes : 0..MaxDeletes, asked : SUBSET Run, spoke : SUBSET Run]
    /\ withdrawn \in 0..MaxPrompts
    /\ again \in SUBSET Prompt
    /\ cancelled \in SUBSET Run
    /\ allowed \in SUBSET Run
    /\ granted \in SUBSET Run

\* A session is busy exactly while its runner has an active run, that run has
\* a listener, and the listener is the one cleanup() will remove.  This ties
\* Session.busy to RemoteRunner's fields through every path of the handlers'
\* cascades (drainQueue inside onDone inside send inside drainQueue).
BusyMeansListening ==
    /\ srv.busy <=> srv.activeRun # NoRun
    /\ srv.busy <=> srv.inFlight # NoPrompt
    /\ srv.activeRun # NoRun => srv.activeRun \in srv.subs
    /\ srv.unsub = srv.activeRun

\* No lost wake-up: a prompt waits in the queue only while a turn is in
\* progress, whose onDone will drain it.
NoStrandedPrompt == srv.queue # <<>> => srv.busy

\* What the browser shows is what the session does: a turn is in progress
\* exactly when the status is running or awaiting_permission.
StatusTracksTurn ==
    srv.busy <=> srv.status \in {"running", "awaiting_permission"}

\* Run r may still act on the daemon's machine, or is about to.
Live(r) ==
    \/ phase[r] \in {"running", "asking"}
    \/ /\ dconn # NoConn
       /\ \E i \in 1..Len(srv.down[dconn]) :
             LET m == srv.down[dconn][i] IN m.type = "run" /\ m.run = r

\* The daemon executes nothing behind the session's back: a run that is alive
\* is the runner's active run, whose output is heard and which cancel stops.
\* In particular two runs of a session never work in its directory at once.
LiveRunIsActive == \A r \in Run : Live(r) => r = srv.activeRun

\* Prompts are run in the order typed, each of them once.  The stale-token
\* recovery may repeat the prompt in flight, but only ahead of those that wait;
\* what the user has run again jumps the queue.
PromptsRunInOrder ==
    \A r1, r2 \in 1..srv.lastRun :
        LET p1 == srv.promptOf[r1]
            p2 == srv.promptOf[r2]
        IN  r1 < r2 => \/ p1 < p2
                       \/ p1 = p2 /\ p1 \in srv.replayed
                       \/ {p1, p2} \cap again # {}

\* A tool the agent asked for is used only if the user allowed that request:
\* neither cancel nor a reconnection, a late or a stale answer grants one.
NoToolWithoutConsent == granted \subseteq allowed

\* Once a later run has spoken, nothing an earlier run says is recorded: the
\* output of two turns never interleaves in the chat, although the daemon's
\* goroutines may forward text of a run that is over.
OutputInTurnOrder == [][srv'.lastSaid >= srv.lastSaid]_vars

\* After cancel, no prompt typed before it is handed to the daemon, unless
\* the user has it run again.
CancelStopsQueue ==
    [][ \A r \in Run :
          srv.lastRun < r /\ r <= srv'.lastRun
              => srv'.promptOf[r] > withdrawn' \/ srv'.promptOf[r] \in again' ]_vars

\* The daemon reports the end of the active run.
Ends(r, e) ==
    \E c \in Conn :
        /\ up[c] # <<>> /\ up'[c] = Tail(up[c]) /\ srv' # srv
        /\ LET m == Head(up[c])
           IN  m.type = "done" /\ m.run = r /\ m.error = e /\ Heard(srv, r)

\* A run that failed, and that the user did not cancel, is shown as an error
\* (unless the next prompt starts at once): the flag that hides the error of
\* a cancelled turn never hides that of another.
FailureIsShown ==
    [][ \A r \in Run :
          Ends(r, "fail") /\ r \notin cancelled /\ srv.queue = <<>>
              => srv'.status = "error" ]_vars

\* Every turn comes to an end, whatever the user and the agent do.
TurnEnds == srv.busy ~> ~srv.busy

=============================================================================
