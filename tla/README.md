# A verification development for vvibe

vvibe lets a user drive coding agents (Claude, Codex) that run on her own
machines from a browser. A **server** (Node, one event loop, SQLite) holds
accounts, devices and chat sessions; a **daemon** (Go) on each paired machine
dials the server, executes the prompts it is sent and streams the agent's output
back; the **browser** shows the sessions and answers the agent's permission
requests. This directory models the part of that system that keeps state and
talks, checks it with TLC on small instances, and proves the central facts with
TLAPS for every size.

## 1. Inventory

| Component | State | Operations | Hard parts | What makes it correct |
|---|---|---|---|---|
| `Session` (`server/sessions.ts`) | status, resume token, queue, busy, cancelling, prompt in flight, two latches, pending permissions | enqueue, retry, cancel, resolve, the five runner callbacks | callbacks re-enter `drainQueue`; stale-token replay inside an error callback; cancel between turns | one turn at a time, nothing stranded, order of prompts, status = state |
| `RemoteRunner` (`server/agents/remote.ts`) | active run and device, listener | send, cancel, handleDaemonMessage, cleanup | `send` may fail synchronously; cleanup after a callback that started the next run | the run that is heard is the run that lives |
| `DeviceRegistry` (`server/devices.ts`) | connected devices, their listeners | register, terminate, unregister, dispatch, sendToDevice | reconnection before the old close; revocation during a connection | one entry per device, the newest; none for a revoked one |
| WebSocket server (`server/index.ts`) | sockets of browsers and daemons | hello, dispatch, close; the browser's messages; what it sends to all tabs | answers that race a time-out or a disconnection; a snapshot that races changes | each request answered at most once, to its browser; tabs converge to the server |
| Session store, database (`server/sessions.ts`, `server/db.ts`) | rows of sessions and history | create, delete, rehydrate, insert | crash between memory and disk, foreign keys | what is shown after a restart is what was recorded |
| Pairing (`server/pairing.ts`, `client-go/pair.go`) | pairing codes, device tokens | init, status, approve, lookup, revoke | polling races approval and expiry; token shown once | one token per approval, none after revocation |
| Relay, run manager (`client-go/relay.go`, `runner.go`) | socket, runs | dial, read, start, cancel, permit | runs outlive their socket | no run without a session that knows it |
| Runners, bridge (`runner_claude.go`, `runner_codex.go`, `claude-bridge.mjs`) | child process, pending tool requests | run, permission, end | standard error after the end; time limit while waiting | no tool without consent |
| Daemon configuration (`config.go`, `allowlist.go`, `cmd_codex.go`) | `client.json` | allow, deny, enable, disable, save | read-modify-write by several processes | no update lost, gates follow the file |
| Prompt rate limit (`index.ts`) | a bucket per session | consume, drop | boundaries of time, refused attempts, a bucket without a session | no stretch of time over the rate, waiting pays, the map stays as large as the sessions |
| Authentication (`auth.ts`, `db.ts`) | pending states, users, browser sessions, the cookie | start, callback, upsert, logout, the upgrade of a socket | the callback waits for GitHub between its look at the state and the new session; a state that comes back | one trip signs in once; an account keeps its id and so its sessions; only expiry or a restart turns away |
| Browser (`web/src/App.tsx`, `ws.ts`) | sessions, messages, modals, the messages it could not send | reduce server messages, reconnect, send | list and history sent again on reconnection, permission requests not; what was queued while offline | what is shown is what the server holds; no prompt is lost or sent twice |
| Browser requests to a device (`index.ts`, `DirectoryPicker.tsx`, `NewSessionDialog.tsx`) | pending requests with a time to live, the picker's and the dialog's state | list_dir, enable codex, answer, sweep | the daemon answers as the request is swept, the tab or the device is gone | answered once; what is shown is what was asked last |

The rest (installation, services, upgrade, diagnosis, path discovery, rendering,
schemas) is I/O without shared state or protocol and is not modelled; section 6 says
more.

How they interact: a browser message calls a `Session` method; `Session` calls its
runner; `RemoteRunner` sends through the `DeviceRegistry` to the daemon's socket;
the relay starts a goroutine per run; what the run emits goes back on that socket,
through `dispatch` to the listener of the run, through the runner to the callbacks
of the `Session`, which writes the database and tells the browsers. Everything on
the server between two I/O events is one step; that is why a handler, with the
whole cascade of calls it makes, is one action of the models.

## 2. Modules

### `SessionTurn`: a session from the prompt to the end of the run

The server's state is one record `srv` (the fields of `Session`, of its
`RemoteRunner` and of the device's registry entry, and the sockets); each method is
an operator on that record with the method's name, and the operators call each other
as the methods do. `OnDaemonDone`, for instance, is `OnResumeToken`, then `OnError`
(which may replay the prompt and `DrainQueue`), then `Cleanup`, then `OnDone` (which
drains again). A handler is an action that replaces `srv` by the operator's result:

| Code | Model |
|---|---|
| `send_prompt`, `retry_last`, `permission_response`, `cancel`, `cancel_all`, `delete_session` (`index.ts`) | `SendPrompt`, `RetryLast`, `Respond`, `Cancel`, `CancelAll`, `Delete` |
| a frame from the daemon | `Deliver(c)`: `Register` for a hello, `HandleDaemonMessage` for the rest |
| a peer's end of stream, the `close` event | `SocketEnds(c)`, `SocketCloses(c)` |
| `runRelay`, `connectOnce` | `Dial`, `LinkLost`, `ServerGone` |
| `handleServerMessage` | `DaemonReceive`: `StartRun`, `StopRun`, `AnswerRun` |
| a run's goroutines and the bridge | `Speak`, `AskTool`, `EndRun` |
| the server's exit and rehydration; the daemon's exit | `Restart`, `DaemonCrash` |

A prompt is its number in typing order; a resume token is the number of the run that
minted it; a message of the agent is the fact that its run has spoken. The sockets
are FIFO, may break at any moment and lose what is in flight: of what the daemon
sent, a prefix still arrives; of what the server sent, nothing more does. `via[r]`
is the heart of the failure model: a run answers on the socket it was started on,
as `wsSender` in `relay.go` does.

Five variables serve only the properties: `withdrawn`, `again`, `cancelled`,
`allowed`, `granted`, and two fields of `srv`, `promptOf` and `replayed`.

One session and its one device are modelled: a session is pinned to a device when it
is created and shares nothing with another but the socket. The rate limit in front of
`send_prompt` and `retry_last` is in `Gates`: a refused prompt changes nothing here.

### `DeviceTokens`, `Pairing`, `DeviceRegistry`, `DeviceAccess`: the life of a device

`DeviceTokens` holds what the other three share: the table `device_tokens` and the
token in each machine's `client.json`. A token stands for its row's id, which is the
device's id.

`Pairing` is `vvibe login`. The server's handlers are synchronous and one action
each: `PairInit`, `AnswerPoll` (`pairStatus`), `Approve`, `Lookup`, the last three
after the sweep of expired codes (`Swept`). The command is `cli[k].at`: it sleeps and
asks (`Poll`), and its answer travels as a state of its own (`"answered"`), during
which it may be lost (`Blip`) or the command interrupted (`Quit`). Time is two flags
per code: the server's deadline has passed (`due`), and later the command's (`late`),
which starts to count when the answer to `pair-init` arrives. Unlimited approvals
race all of this: `Approve` has no guard but that the code exists.

`Handover` is what pairing promises, with no polls, deadlines or tables: each login is
granted at most one token, a new one; the token is sent once, to the machine of that
login, or lost; what is lost stays lost. `Pairing` implements it. The refinement mapping
(`PlaceOf` and `GiftOf` in `Pairing`) reads a login's place off its row
and its command: *held* while the row is approved, *sent* while the answer travels,
*received* when the command has the token in `client.json`, *lost* from the moment a
deadline passes or an answer is dropped. Losing is thus not a step of the sweep: an
expired row is lost before any handler looks at it, and the sweep is a stutter.

`DeviceRegistry` is the registry of connected devices and the sockets that lead to
it. `Dial` is the upgrade, which looks the token up; `ReceiveHello` is the first frame,
which registers; the two are separate, and what happens between them is the point of
the module. A socket is open, closing (`close()` was called or TCP reported the end;
frames that have arrived are still delivered) and closed (the `close` event ran).
`Revoke` is the DELETE handler with `terminate` and the broadcast.

`DeviceAccess` composes them by interleaving, over the shared variables.

### `BrowserRequests`: what a tab asks of a device

`list_dir` and `enable_codex_on_device` from the click to the answer: the tab with
its folder picker and its dialog, the server's two maps of pending requests (one
sequence here, in the order of their deadlines), the device with `client.json`. Each
handler is an action; `Sweep(kinds)` is the timer of one map. A request is its
number; a message to the tab is an answer (with `named`, whether its path is empty,
which the picker's fallback asks) or a device list. An old daemon, which ignores both
messages, is `device.knows = FALSE`. `trust` is the setting in `client.json`, which
`Enable` writes and other processes write and clear behind the daemon's back
(`ChangeFile`: `vvibe codex enable` and `disable`, or a login that saves an older copy); a
file that cannot be read counts as one that does not enable, as the runner takes it.
`loaded` is what the daemon read at its start and tells in its hello, read again when it
was restarted before it dials. `written`, whether the file has ever enabled codex, serves
only the properties.

One tab and one device: answers carry the request's number and go to the socket that
asked, and the maps are keyed by request. The anonymous user's own file system, which
the server lists itself, is left out, as are the checks of user ids.

### `BrowserView`: what the tabs show

The sessions at the server and in the database, the messages to every tab, and each tab's
page: `HandleServerMessage` (the reducer of `App.tsx`), `Send`, `Break` and `Connect` (the
client of `ws.ts`, which reconnects by itself and keeps what it could not send), and the
clicks that send messages. On the server's side `ServerHandles` is a whole browser message;
`Snapshot` is what a new connection is sent; a handler works on a record of the sessions and
of what is on its way to the tabs (`Work`), `SendTo` adds to what goes to the open sockets,
and `Commit` ends the handler. The agent is only the callbacks it makes (`AgentSays`,
`AgentAsks`, `AgentEnds`): what is behind them is `SessionTurn`. `Stopped` and `Boot` are a
restart with what the database gives back, in the order of `ORDER BY timestamp, id`: `same`
notes the messages recorded in the millisecond of the one before, `read` how many of a
history were read back. A message of a run whose session was deleted violates a foreign key
and ends the process (`alive`). `since`, `orphans` and `author` serve only the properties.

`HandlesElsewhere` stands for another tab of the user, whose messages the server handles
in any order with those of the tab in the model.

`Lists` holds what `BrowserView` and `DaemonConfig` share: `Keep(s, S)`, what is left of a
list when a loop (`filter` in `App.tsx`, `runDeny` in `allowlist.go`) drops some of it.

### `GateBase`, `PromptBucket`, `SignIn`, `Gates`: who may prompt, and how often

`SignIn` is one browser with its cookie: the pending states in the server's memory
(`Begin`, with the sweep of those that have expired), the callback in two steps,
`Callback` up to its first `await`, which uses the state up, and `CallbackEnds` or
`CallbackFails` when GitHub has answered; `Upsert` of the account; browser sessions,
sign-out and the sockets that the cookie opens. GitHub and the user are the environment:
she comes back late, never, or again with the same state. A handler that does not wait
is one action with its answer. `PromptBucket` is the limit in front of `send_prompt` and
`retry_last`. The code counts tokens as floating-point numbers; a level is here a whole
number of clock units and a token is worth `Interval` of them, so that the refill is
exact; what rounding does to a level at the very boundary is not modelled. `Gates`
composes both over `GateBase`, the clock and the sessions: a prompt passes the owner's
check and then the bucket, a deletion drops the bucket, a restart clears both memories.

### `DaemonConfig`: client.json and its writers

Every command that writes the file loads it, changes its copy and saves it, without a lock:
`Load` (with what the command decides at once, such as that there is nothing to save),
`Truncate` and `Write`, the two halves of `os.WriteFile`. Between load and save a login
waits for its approval and `codex enable` for the user's flags, so that the window is
minutes, not microseconds. The daemon is one of the writers: its handler of the browser's
request (`ui`) and the codex runner, which mends flags an old version saved (`codex`), and
goes on without if its save fails (`RunUnsaved`). A codex run ends its part here as `"ran"`
or `"barred"`, whether it had anything to mend or not. `Applied` says what each command
makes of a configuration, `Interrupt` that it is killed or its save fails; `codex enable`
takes whatever flags the user types, those the runner mends among them. `runInstall` loads
the file for its check and again for its snapshot; here both share one load, and as `force`
is free, what the second could see is what another choice of `force` sees at one. The daemon
keeps what it read when it started, `daemon.config`, for its token; the gate of directories
(`HandleRunPrompt`) and the codex runner read the file again, and the gate admits everything
while the file cannot be read. `intended` (the commands whose saves have ended, applied one
after the other) and `raced` (a stale copy has been saved) serve only the properties.

A file that is overwritten by a shorter one before the other writer ends keeps a tail,
which never parses, as the contents end with the object's brace.

## 3. Runs

| Run | Question | Bounds |
|---|---|---|
| `turn_links` | no run behind the session's back, output in order, cancel final, while links fail | 2 prompts, 4 runs, 2 sockets, 1 failure or crash, 2 late messages, 1 request, 1 cancel, 1 deletion |
| `turn_faults` | types, agreement of session, runner and status, order, consent, every turn's end | 3 prompts, 8 runs, 2 sockets, all four outcomes, 1 request, 1 cancel, 1 retry, 1 restart, `FairSpec` |
| `turn_lost_link` | violated: `TurnEnds` | 1 prompt, 1 failure, `FairSpec` |
| `turn_late_cancel` | violated: `FailureIsShown` | 2 prompts, 1 cancel |
| `turn_stale_token` | violated: `LiveRunIsActive` | 2 prompts, unknown tokens |
| `devices` | one place for a token, its wiping, the refinement of `Handover`, every login's end, one socket, true list, coming online | 1 machine paired by 2 codes, 2 tokens, 1 lost answer, 3 sockets, 1 failure, `FairSpec` |
| `device_revoked` | violated: `RevokedIsGone` | 1 machine, 1 code, 2 sockets, 1 failure |
| `requests` | answered once, latest shown, nothing shown as enabled that never was, nobody waits in vain, while `client.json` changes | 3 requests, 1 failure, `Spec` |
| `config` | commands that do not overlap count, the file is readable, every prompt and codex run is decided by the commands so far | 3 processes, 2 directories |
| `config_hello` | violated: `ReportedIsHonoured` | 3 processes, 1 directory |
| `view` | a settled tab is right, prompts arrive once and in order, history is kept, the queue is sent | 1 tab and one elsewhere, 1 session, 2 texts, 1 request, 1 click, 1 fault, `Spec` |
| `gates` | one sign-in per state, sessions stay with their account, the rate, refusals with a cause | 2 accounts, 2 attempts, 1 state that comes back, 1 restart, 1 tab, 1 session, time 5, lifetime 1, capacity 2, interval 2 |

Two prompts are enough for one to wait while the other runs, which is where order,
cancel and draining matter, and with a third a replayed prompt can overtake two; two
sockets for a run that answers on the old one;
`MaxRuns` is above what the other bounds can start, so that it cuts nothing off
(`RoomFor` keeps the server's cascades inside it). `TypeOK` does not follow from the
guards alone: a retry without a prompt, or a mis-drained queue, leaves it.

Two codes are enough for one token to be mistaken for another, and for a machine that
is paired again while its daemon runs with the former token. `MaxTokens` is the number
of codes, as a code mints one at most. With `n` failures a daemon opens at most
`2n + 1` sockets per token it holds (a failure loses its socket, and a revocation or a
replacement leaves one), so that three sockets let it dial after everything that can
happen in `devices`; a dial that the bound forbids would show in `ComesOnline`. Three
requests leave one for the picker's second try, which `MayAsk` keeps free, next to a
listing that is overtaken and an enable that races the same failure. In `view` two
texts are two prompts, or a prompt and a message of the agent, which can change places
in a restart, be queued together or fall on both sides of a break; the other tab is the
environment's, so that a click elsewhere costs the same budget. In `gates` two attempts
race for one cookie; time 5 lets a state of lifetime 1 expire, and lets a bucket of two
tokens worth 2 each be emptied, refilled in part and looked at too early. Three processes
are one that pairs the machine, without which no prompt comes, and two whose saves
overlap; two directories give a list that is not empty and does not have them all.

`EnabledIsWritten` says no more than that `client.json` *has* enabled codex when the tab
shows it so: what the registry and the dialog hold is what the daemon was told to write, or
read once, and nobody tells them of a change to the file. `PromptsFollowCommands` covers
every prompt and every codex run, let in or refused, and agrees with `relay.go:450-452` that
no restart is needed; `config_hello` shows where other lines disagree with both.

`CHECK_DEADLOCK FALSE`: the user may stop, and then the system rests.

`LiveRunIsActive` is checked, and proved, where no resume token is ever unknown and the
server does not restart: outside those it is false, and `turn_stale_token` shows the first
case. A restart leaves the daemon's run going by design (`sessions.ts:457`), so it
is no finding.

Fairness (`FairSpec`): the event loop handles what has arrived, TCP reports ended
connections, the daemon keeps dialling and reading, and each run ends, which the
wall-clock limit of `relay.go` and the SDK's turn limit enforce. Nothing is asked of
the user, of the agents or of failures. `TurnEnds` holds then if links do not fail on
their own, across a restart of the server too; one failure refutes it (`turn_lost_link`).

`PairingFairness`: the event loop answers, the clock runs, the command goes on polling;
neither the user nor the approval is asked for anything. `RegistryFairness`: frames
are handled, TCP reports a socket whose peer has left, a daemon that runs dials and
notices a socket that the server closed. Failures, revocations and the hello's time-out
are never fair. In `BrowserRequests` only the two event loops and the server's timers
are fair: `AllAnswered` holds whatever the daemon does, which is what the time to live
is for. In `BrowserView` the event loops of tab and server are, and the client's
reconnection, which `ws.ts` tries for ever; the agents and the user are not.

What the violated runs show: a run whose link broke answers on the socket it was started
on, so that its session stays busy until the server restarts (`turn_lost_link`); a cancel
that arrives between two turns hides the next one's failure (`turn_late_cancel`); the
recovery from an unknown resume token starts a run that the callback's caller then
forgets (`turn_stale_token`); a revocation between a socket's upgrade and its hello leaves
the device connected (`device_revoked`); after `vvibe codex disable` a codex run is refused at
once, where the help of `vvibe codex` says that changes wait for a restart, and the hello of
the running daemon, which does wait for one, still reports codex as enabled
(`config_hello`). `PROJECT.json` quotes the lines each contradicts.

One loss is part of what passes. A poll claims the token before it is answered; when the
answer is lost (`Blip`), the next poll is told `claimed`, which the command does not know
(`pair.go:87-88`), and the login fails where `pair.go:68-69` expects to poll on. `Handover`
allows for it with `Lose`: `devices` shows that the token is then lost for good.

## 4. Proofs

`SessionTurn_proofs` proves, for every value of the bounds,

* `TypeCorrect`: `Spec => []TypeOK`;
* `RunnersAgree`, `NoneStranded`, `StatusTrue`: `Spec => []P` for `BusyMeansListening`,
  `NoStrandedPrompt` and `StatusTracksTurn`.

None is inductive alone: a handler is a cascade of operators, and `DrainQueue`
keeps the type only if the session is consistent when it is called. The invariant is
`IInv`: `srv \in ServerState`, the types of the other variables, and `Consistent(srv)`.
The argument follows the code: a lemma for every operator says what it needs and
what it leaves (`Consistent` is broken between `busy = FALSE` and the drain, and the
lemmas of `Start`, `FailAll` and `DrainQueue` say that the drain restores it), and a
lemma for every action uses those of the operators it calls.

The next part proves `ToolsNeedConsent`: `Spec => []NoToolWithoutConsent`.
The strengthening `Consent` says that every allowing answer on its way to the daemon
names only runs the user allowed; cancel's answers deny.

A third part proves `PromptsInOrder`: `Spec => []PromptsRunInOrder`, and
`CancelIsFinal`: `Spec => CancelStopsQueue`. The strengthening `Ordered` treats the runs
so far and the queue behind them as one line: any two of its members are in the order
typed, or replayed, or run again; the prompt in flight is the last run's; and every
member of the queue is *wanted*, typed after the last cancel or run again. The prompt in
flight is wanted too, or `cancelling` is set: that is why the recovery of an unknown
resume token, which puts it back at the head, cannot bring back what was cancelled. Each
method takes from the front, puts back between runs and queue, adds at the end, or
empties the queue, and starts no other runs (`Kept`); the cascades compose these steps
(`KeptTwice`).

The last part is about `LiveRunIsActive` and `OutputInTurnOrder`, which the recovery of an
unknown token refutes. `NothingBehindTheBack` says when the first holds, for every value of
the constants: in every behaviour, until the server restarts or a prompt is replayed.
`LoneRun` and `OutputInOrder` draw the conclusions by the constants, `LoneRun` where tokens
are known (`TokensAreKnown`: the agent is codex, which has none, or no run ends in "stale")
and `MaxRestarts = 0`, `OutputInOrder` where tokens are known, restarts or not. The
invariant `Solo` says, for as long as nothing was replayed, that the runner listens to its
active run at most, which is the last one (`OwnEar`); and, until a restart, that a run that
is alive is the active one, that at most one prompt is on its way to the daemon, on any
socket, that it is the active run's, which has not begun, and that a `daemon_done` on its way
tells of a run that is over. So a `daemon_done` that is heard finds nothing alive, and the
next run is alone again. Between two calls of a handler `Sound` holds; `Held` and `Passed`
say what a call may change, `Passed` for `onError`, the only one that may replay.

`Pairing_proofs` proves `PairingTyped`, `HandedOutOnce` and `StashWiped` from
`PairingTypeOK /\ StashOnlyWhileApproved /\ TokenInOnePlace /\ TokensMinted`. The last
says that no token in a row or at a command is above the counter, which makes the one
that an approval mints new; `StashOnlyWhileApproved` makes a claim empty the row it
takes the token from.

It also proves `PairingIsHandover`: `PairingSpec => Promise`, the refinement,
by showing that the initial states map to an initial state and each step to a step of
`Handover` or a stutter. The invariant above is joined by `Courier`, which
ties a command to its row: it holds a token only between the answer that brings it and
its end, and then the row is claimed. A poll that claims is `Send`, an approval in time
`Grant`; an approval after the deadline finds no row; a deadline or a lost answer is
`Lose`; the rest are stutters.

`DeviceAccess_proofs` proves `AccessTyped`, `HeardOnOneSocket` and `SidebarIsTrue` of
the composition. To the three properties the invariant adds `EntriesSound` (a
registered device's socket is one of its own that has said hello) and `SocketsSound`
(sockets are opened in order and each is some device's). The argument: a hello writes
the entry and closes the socket it replaces; a revocation removes the entry and closes
its socket; a close removes only an entry that points to this very socket, which by
`EntriesSound` has said hello, so that the list is sent. All other steps only move
sockets towards their end (`SocketsFade`). The pairing half is the invariant of
`Pairing_proofs`, which the registry's steps keep since they only take tokens away.

`DaemonConfig_proofs` proves `CommandsCount` and `GatesFollowCommands`. The file alone is
not inductive: `ConfigInv` adds, for as long as no stale copy is saved, that at most one
process is in the middle of a save or died there, that every copy loaded before it is marked
stale, and that a copy that is not stale is its command applied to `intended`. A save that
starts with such a copy therefore finds nobody midway, and leaves `intended` in the file. A
codex run that loads such a file, mends it, or goes on with its copy unsaved decides by the
consent in `intended`. For the gates, `FieldInv` adds that no command drops a field of the
configuration, so that the repair of codex' flags leaves the consent alone.

`ConfigTyped` (`TypeOK`) says that no directory is listed twice: the file and every copy of
it list each once, `allow` adds only what is not there, and `deny` keeps a part of the list
(`KeepList`).

`Gates_proofs` proves `GatesTyped`, `RateHolds`, `PatiencePays`, `SignsInOnce`,
`SessionsStay`, `RefusalHasCause` and `BucketsBelong`. For the rate, `Ledger` keeps for
every prompt i admitted so far that what was admitted since, and what the bucket would admit
now, is paid for by a full bucket and the time since (`Paid`); a prompt moves one token from
one side to the other, a refill adds at most the time that passed. For the sign-in, a state
is pending, or used up by one callback that waits, or has made its one row; ids come from
one counter, so that the id of a session's owner belongs to one account at most; an attempt
that is away and neither expired nor forgotten is pending. The types need one count: every
browser session was made by an attempt of its own (`Counted`), so that there are never more
than attempts.

`BrowserRequests_proofs` proves `RequestsTyped`, `RequestsAnsweredOnce`, `PickerIsCurrent`,
`EnabledIsTrue` and `SpinnersAreAnswered`. The invariant is `Shape /\ Where /\ Trusted /\
Spins`. `Where` is the heart: a request is in one place at a time, on its way to the server,
pending, or answered, so that whichever of the daemon's answer, the sweep and a lost socket
comes first takes it from the place where the others look. `Trusted` follows the consent
from `client.json` through the daemon's memory, its hello and its answers to the registry
and to the tab: whoever holds "enabled" got it from a file that had it, so that `written` is
set, whatever became of the file since; `Spins` says of a picker or a dialog that waits
where its request is, and of one that does not that what it shows is the answer to the last
one.

`BrowserView_proofs` proves `ViewTyped`, `SettledTabsAreTrue`, `SettledModalsArePending`,
`PromptsInOrder` and `HistoriesAreKept`, for any number of tabs and sessions where the run
has one. What is true of a settled tab is not inductive, as tabs are seldom settled. The
invariant `ViewInv` speaks of the view a tab will have: its page and the messages on their
way to it make up one view (`Seen`), and that view is `Told` the truth, at every moment.
`TabReceives` then changes nothing, since the page takes a message as its view does
(`PageTakes`); a handler changes a session and sends what makes the same change in the view
(`Tells`); a new connection is sent a snapshot, after which the view holds the list and ends
in every history, whatever the page showed before (`SnapshotShows`); and of a settled tab the
view is the page itself. A handler is a cascade of operators here too, with a lemma for
each: `Good(v, ..)` says that the handler's record is sound between two of its
calls. A view is `Told` of a session that is gone only as an orphan, and a run that is still
going keeps its session there or among the orphans (`Heard`). For the prompts, what a tab has on
its way or in its queue is ascending and above all that has arrived from it (`Coming`): a
prompt is in the queue or on the socket, never both. For the histories, `Grown` says that
handlers only append, and `Groups` that a restart permutes messages within a millisecond only.

`Lists_proofs` is the library of the last two and of `DaemonConfig_proofs`. What `Keep`, a
cascade over a queue, or a snapshot makes of a list of any length is an induction over data,
and the library's induction theorems have an operator parameter that no installed prover can
instantiate. So induction is taken from the well-foundedness of the naturals as a statement
about sets (`Least`, `UpTo`), recursive functions are shown to exist by it (`Recursion`), and
loops in these modules are written as recursive functions of the steps done, not with
`SelectSeq` or folds.

The assumptions are those of `BoundsAssumption`: bounds are natural numbers, there is
at least one prompt, and a run may at least succeed or fail; the other modules assume
only that their bounds are natural numbers, that a bucket holds at least one token and a
token is worth some time, that there is an account, and that attempts are finitely many.

Model-checked only: the liveness properties `TurnEnds`, `ComesOnline`, `LoginEnds`,
`AllAnswered` and `QueueIsSent`, as liveness under fairness is out of the prover's reach.
Every other property that a passing run checks is a theorem; two of them,
`LiveRunIsActive` and `OutputInTurnOrder`, under the conditions given above and not for
every value of the constants.

## 5. Plan

Done: every module of section 2 and the proofs of section 4. What would come next are
refinements: an abstract session, a queue served one prompt at a time, that `SessionTurn`
implements where links hold (`Solo` is most of what its proof needs); an abstract request
of ask and answer for `BrowserRequests`; and an abstract shared view for `BrowserView`,
whose proof contains that refinement already (`Seen` and `Told`).

## 6. Not modelled

* The local runners of the anonymous development server (`server/agents/claude.ts`,
  `codex.ts`) and everything else about the anonymous user. They run in the process of
  the `Session`, behind the same callbacks; what differs is an aborter or a child process
  in place of a run id. (A cancel during their dynamic import finds no aborter and is
  lost.)
* Of authentication: `loadUser`, `requireAuth` and `whoAmI`, which read the state that
  `SignIn` models; the profile; the page returned to after signing in.
* Of the browser: toasts, the modal of a missing login, the pairing page, rendering. The
  permission requests that are not sent again after a reload are in the model (the new
  page has no modal, the run waits on), as `ModalsArePending` says.
* Floating-point rounding of the prompt bucket; limits of HTTP requests, origins, pings,
  static files, the schemas that reject malformed messages.
* The loss of the answer to `pair-init`, which ends the command at once; codes of several
  users; several devices and users in `BrowserRequests`, whose checks of ids always
  succeed there.
* A second permission request in the same run: in `SessionTurn` a run asks at most once, so
  that answers are told apart by their run, never by their request's id within it.
* A device that is enabled in `client.json` and has no codex installed any more, which the
  hello reports as disabled.
* The environment variables that stand in for the codex settings, the migration of the
  old Windows path of `client.json` and of old databases.
* The parsing of what the agents print; services, installers, upgrades, diagnosis, path
  discovery and file downloads: I/O of the operating system, with no state shared between
  actors.
