---------------------------- MODULE BrowserView ----------------------------
(***************************************************************************)
(* What the tabs of one user show of the server's sessions.                *)
(*                                                                         *)
(* The server keeps the sessions, pushes every change to all connected     *)
(* tabs and sends a new connection a snapshot: the list and all histories, *)
(* but no permission request.  A tab folds what it is sent into its state  *)
(* (App.tsx) through a client that reconnects by itself and keeps what the *)
(* user does meanwhile (ws.ts).  The sessions live in the database too and *)
(* are read back when the server starts.                                   *)
(*                                                                         *)
(* A run of the agent is here no more than the callbacks it makes; what is *)
(* behind them is in SessionTurn.  Messages are numbered in the order they *)
(* are recorded in their session; the text of a prompt is its number in    *)
(* the order typed, other texts are 0.  Sockets are FIFO and lose what     *)
(* they carry when they break; what a broken socket had carried to the     *)
(* server is handled before the tab is back, or never.  Not in this model: *)
(* toasts, the device list and the modal of a missing login.               *)
(***************************************************************************)
EXTENDS Integers, Sequences, FiniteSetsExt, SequencesExt, Lists

CONSTANTS
    Tab,           \* the browser tabs of the user
    MaxSessions,   \* sessions created
    MaxTexts,      \* prompts typed and messages the agents emit, together
    MaxAsks,       \* permission requests
    MaxClicks,     \* clicks: answers to requests, cancels, deletions
    MaxFaults      \* broken sockets, reloaded pages, stops of the server

ASSUME BoundsAssumption ==
    {MaxSessions, MaxTexts, MaxAsks, MaxClicks, MaxFaults} \subseteq Nat

Sid    == 1..MaxSessions
Prompt == 1..MaxTexts
Req    == 1..MaxAsks

NoSession == 0     \* activeId null
NoPrompt  == 0     \* a message that is not a prompt

VARIABLES
    sess,          \* sess[s]: the Session object, and its rows in the database
    alive,         \* the server is running
    open,          \* the tabs whose socket is open
    up,            \* up[t]: client messages in flight
    down,          \* down[t]: server messages in flight
    tab,           \* tab[t]: the state of the page, and its unsent messages
    used,          \* how much of each bound has been used
    \* What the properties refer to and no code reads:
    since,         \* since[t]: requests made while t's present socket held
    orphans,       \* sessions deleted while a run of theirs was going on
    author         \* author[p]: the tab prompt p was typed in

vars == <<sess, alive, open, up, down, tab, used, since, orphans, author>>

RoomForText == used.prompts + used.says < MaxTexts

-----------------------------------------------------------------------------
(* Messages *)

Create           == [type |-> "create_session"]
SendPrompt(s, p) == [type |-> "send_prompt", sid |-> s, prompt |-> p]
Respond(s, r)    == [type |-> "permission_response", sid |-> s, req |-> r]
CancelOne(s)     == [type |-> "cancel", sid |-> s]
CancelAll        == [type |-> "cancel_all"]
Delete(s)        == [type |-> "delete_session", sid |-> s]

Sessions(f)      == [type |-> "sessions", status |-> f]
Created(s, st)   == [type |-> "session_created", sid |-> s, status |-> st]
Updated(s, st)   == [type |-> "session_updated", sid |-> s, status |-> st]
Deleted(s)       == [type |-> "session_deleted", sid |-> s]
Message(s, m)    == [type |-> "message", sid |-> s, message |-> m]
Request(s, r)    == [type |-> "permission_request", sid |-> s, req |-> r]
Resolved(s, r)   == [type |-> "permission_resolved", sid |-> s, req |-> r]

Status == {"idle", "running", "awaiting_permission", "error"}
Shown  == Status \cup {"absent"}      \* "absent": not in the page's list

-----------------------------------------------------------------------------
(* Session and SessionStore.  A handler works on a record of the sessions,  *)
(* whether the process goes on, and what is on its way to the tabs; fresh   *)
(* says that at least a millisecond has passed since the last message was   *)
(* recorded.  Of a history, the first messages were read back when the      *)
(* server started, and same has those of one millisecond with the last.     *)

FreshSession ==
    [ made |-> FALSE, live |-> FALSE, status |-> "idle", history |-> <<>>,
      read |-> 0, same |-> {}, queue |-> <<>>, busy |-> FALSE, cancelling |-> FALSE,
      pending |-> {} ]

Work(fresh) == [sess |-> sess, alive |-> TRUE, fresh |-> fresh, down |-> down]

\* Mutant: the socket's state is not looked at.
SendToAll(v, ts, m) ==
    [v EXCEPT !.down = [t \in Tab |-> IF t \in ts THEN Append(@[t], m) ELSE @[t]]]

\* To those of the tabs ts whose sockets are open.
SendTo(v, ts, m) ==
    [v EXCEPT !.down = [t \in Tab |-> IF t \in ts \cap open THEN Append(@[t], m)
                                     ELSE @[t]]]

Broadcast(v, m)  == SendTo(v, Tab, m)

\* All events but onMeta look the session up in the store first.
BroadcastOf(v, s, m) == IF v.sess[s].live THEN Broadcast(v, m) ELSE v

SetStatus(v, s, st) ==
    IF v.sess[s].status = st THEN v
    ELSE Broadcast([v EXCEPT !.sess[s].status = st], Updated(s, st))

\* The row of a message whose session has been deleted violates its foreign
\* key, and nothing above the daemon socket's handler catches what it throws.
RecordMessage(v, s, text) ==
    LET n == Len(v.sess[s].history) + 1
        m == [n |-> n, text |-> text]
        w == [v EXCEPT !.sess[s].history = Append(@, m),
                       !.sess[s].same = IF v.fresh \/ n = v.sess[s].read + 1 THEN @
                                        ELSE @ \cup {n},
                       !.fresh = FALSE,
                       !.alive = v.sess[s].live]
    IN  BroadcastOf(w, s, Message(s, m))

OnError(v, s) ==
    IF v.sess[s].cancelling THEN RecordMessage(v, s, NoPrompt)
    ELSE RecordMessage(SetStatus(v, s, "error"), s, NoPrompt)

\* onDone up to its last statement, drainQueue().
TurnOver(v, s) ==
    LET w == IF v.sess[s].status = "error" THEN v ELSE SetStatus(v, s, "idle")
    IN  [w EXCEPT !.sess[s].busy = FALSE, !.sess[s].cancelling = FALSE]

\* With no device, send() reports onError and onDone before it returns, and
\* onDone drains again: the queue empties at once.
FailAll(v, s) ==
    LET n == Len(v.sess[s].queue)
        failed[i \in 0..n] ==
            IF i = 0 THEN [v EXCEPT !.sess[s].queue = <<>>]
            ELSE TurnOver(OnError(SetStatus(failed[i - 1], s, "running"), s), s)
    IN  failed[n]

DrainQueue(v, s, online) ==
    IF v.sess[s].busy \/ v.sess[s].queue = <<>> THEN v
    ELSE IF ~online THEN FailAll(v, s)
    ELSE SetStatus([v EXCEPT !.sess[s].busy = TRUE,
                             !.sess[s].queue = Tail(@)], s, "running")

OnDone(v, s, online) == DrainQueue(TurnOver(v, s), s, online)

EnqueuePrompt(v, s, p, online) ==
    LET w == RecordMessage(v, s, p)
    IN  DrainQueue([w EXCEPT !.sess[s].queue = Append(@, p)], s, online)

AskPermission(v, s, r) ==
    BroadcastOf(SetStatus([v EXCEPT !.sess[s].pending = @ \cup {r}], s,
                          "awaiting_permission"), s, Request(s, r))

\* The request is answered, and the tabs are told.
Settle(v, s, r) ==
    IF r \notin v.sess[s].pending THEN v
    ELSE BroadcastOf([v EXCEPT !.sess[s].pending = @ \ {r}], s, Resolved(s, r))

ResolvePermission(v, s, r) ==
    LET w == Settle(v, s, r)
    IN  IF /\ r \in v.sess[s].pending
           /\ w.sess[s].pending = {}
           /\ w.sess[s].status = "awaiting_permission"
        THEN SetStatus(w, s, "running") ELSE w

\* Mutant: the tabs are not told of the denials.
CancelQuietly(v, s) ==
    [v EXCEPT !.sess[s].cancelling = TRUE, !.sess[s].queue = <<>>,
              !.sess[s].pending = {}]

\* The map of requests is gone through in the order they were made.
Cancel(v, s) ==
    LET denied[r \in 0..MaxAsks] ==
            IF r = 0 THEN [v EXCEPT !.sess[s].cancelling = TRUE, !.sess[s].queue = <<>>]
            ELSE Settle(denied[r - 1], s, r)
    IN  denied[MaxAsks]

CancelEvery(v) ==
    LET Stop(w, s) ==
            IF w.sess[s].live /\
               w.sess[s].status \in {"running", "awaiting_permission"}
            THEN Cancel(w, s) ELSE w
        stopped[s \in 0..MaxSessions] ==
            IF s = 0 THEN v ELSE Stop(stopped[s - 1], s)
    IN  stopped[MaxSessions]

\* store.create broadcasts the new session; the tab that asked is told again,
\* so that it shows it.
CreateSession(v, ts) ==
    LET unmade == {s \in Sid : ~v.sess[s].made}
        s == Min(unmade)
    IN  IF unmade = {} THEN v
        ELSE SendTo(Broadcast([v EXCEPT !.sess[s].made = TRUE,
                                        !.sess[s].live = TRUE],
                              Updated(s, "idle")),
                    ts, Created(s, "idle"))

DeleteSession(v, s) ==
    Broadcast([Cancel(v, s) EXCEPT !.sess[s].live = FALSE], Deleted(s))

\* mustSession and getForUser answer with a toast, or not at all, when the
\* session is not in the store.
HandleClientMessage(v, ts, m, online) ==
    IF m.type = "create_session" THEN CreateSession(v, ts)
    ELSE IF m.type = "cancel_all" THEN CancelEvery(v)
    ELSE IF ~v.sess[m.sid].live THEN v
    ELSE CASE m.type = "send_prompt" ->
                  EnqueuePrompt(v, m.sid, m.prompt, online)
           [] m.type = "permission_response" ->
                  ResolvePermission(v, m.sid, m.req)
           [] m.type = "cancel" -> Cancel(v, m.sid)
           [] m.type = "delete_session" -> DeleteSession(v, m.sid)

\* The session that is read back with the messages of x in the order of q.
Reordered(x, q) ==
    [FreshSession EXCEPT !.made = TRUE, !.live = TRUE, !.read = Len(x.history),
                         !.history = [i \in DOMAIN x.history |-> x.history[q[i]]]]

Orders(h) == Bijection(DOMAIN h, DOMAIN h)

\* Mutant: the rows are read in no particular order.
LoadedUnordered(x) ==
    IF ~x.live THEN {[FreshSession EXCEPT !.made = x.made]}
    ELSE {Reordered(x, q) : q \in Orders(x.history)}

\* Messages are read back ORDER BY ts, id, and the ids are random: those of
\* one millisecond may change places, once.
Loaded(x) ==
    LET first == [i \in DOMAIN x.history |-> Max((1..i) \ x.same)]
    IN  IF ~x.live THEN {[FreshSession EXCEPT !.made = x.made]}
        ELSE {Reordered(x, q) : q \in {q \in Orders(x.history) :
                                          \A i \in DOMAIN q : first[q[i]] = first[i]}}

-----------------------------------------------------------------------------
(* The page: App.handleServerMessage *)

FreshTab ==
    [ queue |-> <<>>, sessions |-> [s \in Sid |-> "absent"],
      messages |-> [s \in Sid |-> <<>>], active |-> NoSession, modals |-> <<>> ]

Listed(x) == {s \in Sid : x.sessions[s] # "absent"}

\* Mutant: the list received is merged into the one that is shown.
ShowMoreSessions(x, f) ==
    LET y == [x EXCEPT !.sessions =
                  [s \in Sid |-> IF f[s] = "absent" THEN @[s] ELSE f[s]]]
    IN  IF x.active # NoSession \/ Listed(y) = {} THEN y
        ELSE [y EXCEPT !.active = Min(Listed(y))]

ShowSessions(x, f) ==
    LET y == [x EXCEPT !.sessions = f]
    IN  IF x.active # NoSession \/ Listed(y) = {} THEN y
        ELSE [y EXCEPT !.active = Min(Listed(y))]

ShowDeleted(x, s) ==
    [x EXCEPT !.sessions[s] = "absent", !.messages[s] = <<>>,
              !.active = IF @ = s THEN NoSession ELSE @]

HandleServerMessage(x, m) ==
    CASE m.type = "sessions" -> ShowSessions(x, m.status)
      [] m.type = "session_created" ->
             [x EXCEPT !.sessions[m.sid] = m.status, !.active = m.sid]
      [] m.type = "session_updated" -> [x EXCEPT !.sessions[m.sid] = m.status]
      [] m.type = "session_deleted" -> ShowDeleted(x, m.sid)
      [] m.type = "message" ->
             [x EXCEPT !.messages[m.sid] = Append(@, m.message)]
      [] m.type = "permission_request" ->
             [x EXCEPT !.modals = Append(@, [sid |-> m.sid, req |-> m.req])]
      [] m.type = "permission_resolved" ->
             [x EXCEPT !.modals = Keep(@, {p \in Range(@) : p.req # m.req})]

\* The modal on the screen: the first one of the session shown.
Modal(x) == Keep(x.modals, {p \in Range(x.modals) : p.sid = x.active})

-----------------------------------------------------------------------------
(* The server's steps *)

\* The process ends: the sockets close, and what is left is the database.
Halt(x) ==
    /\ sess' \in {f \in [Sid -> UNION {Loaded(x[s]) : s \in Sid}] :
                     \A s \in Sid : f[s] \in Loaded(x[s])}
    /\ alive' = FALSE
    /\ open' = {}
    /\ up'   = [t \in Tab |-> <<>>]
    /\ down' = [t \in Tab |-> <<>>]

\* The end of a handler.
Commit(v, ups) ==
    /\ IF v.alive
       THEN /\ sess' = v.sess
            /\ up' = ups
            /\ down' = v.down
            /\ UNCHANGED <<alive, open>>
       ELSE Halt(v.sess)
    /\ orphans' = orphans \cup
                    {s \in Sid : sess[s].live /\ sess[s].busy /\ ~sess'[s].live}

\* Which messages share a millisecond matters while the server may yet stop.
Fresh == IF used.faults < MaxFaults THEN BOOLEAN ELSE {TRUE}

ServerHandles(t) ==
    /\ alive /\ up[t] # <<>>
    /\ \E fresh \in Fresh, online \in BOOLEAN :
          Commit(HandleClientMessage(Work(fresh), {t}, Head(up[t]), online),
                 [up EXCEPT ![t] = Tail(@)])
    /\ UNCHANGED <<tab, used, since, author>>

\* The same from a browser elsewhere, of whose page nothing is kept here.
HandlesElsewhere ==
    /\ alive
    /\ used.clicks < MaxClicks
    /\ \E s \in Sid, r \in Req :
          \E m \in {Respond(s, r), CancelOne(s), CancelAll, Delete(s)} :
              Commit(HandleClientMessage(Work(TRUE), {}, m, TRUE), up)
    /\ used' = [used EXCEPT !.clicks = @ + 1]
    /\ UNCHANGED <<tab, since, author>>

\* A session is refused (codex, directory, device), a prompt is too soon.
ServerRefuses(t) ==
    /\ alive /\ up[t] # <<>>
    /\ Head(up[t]).type \in {"create_session", "send_prompt"}
    /\ Commit(Work(TRUE), [up EXCEPT ![t] = Tail(@)])
    /\ UNCHANGED <<tab, used, since, author>>

\* The callbacks of a run.  They come for a deleted session too, until the
\* run it had is over.
AgentSays(s) ==
    /\ alive /\ sess[s].busy
    /\ RoomForText
    /\ \E fresh \in Fresh :
          Commit(RecordMessage(Work(fresh), s, NoPrompt), up)
    /\ used' = [used EXCEPT !.says = @ + 1]
    /\ UNCHANGED <<tab, since, author>>

AgentAsks(s) ==
    /\ alive /\ sess[s].busy
    /\ used.asks < MaxAsks
    /\ Commit(AskPermission(Work(TRUE), s, used.asks + 1), up)
    /\ used' = [used EXCEPT !.asks = @ + 1]
    /\ since' = [t \in Tab |-> IF t \notin open THEN {}
                               ELSE since[t] \cup {used.asks + 1}]
    /\ UNCHANGED <<tab, author>>

AgentEnds(s) ==
    /\ alive /\ sess[s].busy
    /\ \E fresh \in Fresh, online, failed \in BOOLEAN :
          LET w == IF failed THEN OnError(Work(fresh), s) ELSE Work(fresh)
          IN  Commit(OnDone(w, s, online), up)
    /\ UNCHANGED <<tab, used, since, author>>

\* The server is stopped, or deployed anew.
Stopped ==
    /\ alive
    /\ used.faults < MaxFaults
    /\ Halt(sess)
    /\ used' = [used EXCEPT !.faults = @ + 1]
    /\ UNCHANGED <<tab, since, orphans, author>>

Boot ==
    /\ ~alive
    /\ alive' = TRUE
    /\ UNCHANGED <<sess, open, up, down, tab, used, since, orphans, author>>

-----------------------------------------------------------------------------
(* Connections *)

Snapshot ==
    LET status == [s \in Sid |-> IF sess[s].live THEN sess[s].status
                                 ELSE "absent"]
        History(s) == IF sess[s].live
                      THEN [k \in DOMAIN sess[s].history |->
                                Message(s, sess[s].history[k])]
                      ELSE <<>>
        sent[s \in 0..MaxSessions] ==
            IF s = 0 THEN <<Sessions(status)>> ELSE sent[s - 1] \o History(s)
    IN  sent[MaxSessions]

\* Mutant: what was queued is sent, and kept.
ConnectKeepsQueue(t) ==
    /\ alive /\ t \notin open
    /\ open' = open \cup {t}
    /\ down' = [down EXCEPT ![t] = Snapshot]
    /\ up'   = [up EXCEPT ![t] = tab[t].queue]
    /\ since' = [since EXCEPT ![t] = {}]
    /\ UNCHANGED <<sess, alive, tab, used, orphans, author>>

\* The server's connection handler and the tab's open handler, which sends
\* what was queued.  Between the two, what either side sends waits in the
\* order in which it will be received in any case.
Connect(t) ==
    /\ alive /\ t \notin open
    /\ open' = open \cup {t}
    /\ down' = [down EXCEPT ![t] = Snapshot]
    /\ up'   = [up EXCEPT ![t] = tab[t].queue]
    /\ tab'  = [tab EXCEPT ![t].queue = <<>>]
    /\ since' = [since EXCEPT ![t] = {}]
    /\ UNCHANGED <<sess, alive, used, orphans, author>>

Cut(t) ==
    /\ open' = open \ {t}
    /\ up'   = [up EXCEPT ![t] = <<>>]
    /\ down' = [down EXCEPT ![t] = <<>>]
    /\ UNCHANGED <<sess, alive, since, orphans, author>>

Break(t) ==
    /\ t \in open
    /\ used.faults < MaxFaults
    /\ Cut(t)
    /\ used' = [used EXCEPT !.faults = @ + 1]
    /\ UNCHANGED tab

Reload(t) ==
    /\ used.faults < MaxFaults
    /\ Cut(t)
    /\ tab' = [tab EXCEPT ![t] = FreshTab]
    /\ used' = [used EXCEPT !.faults = @ + 1]

TabReceives(t) ==
    /\ t \in open /\ down[t] # <<>>
    /\ tab' = [tab EXCEPT ![t] = HandleServerMessage(@, Head(down[t]))]
    /\ down' = [down EXCEPT ![t] = Tail(@)]
    /\ UNCHANGED <<sess, alive, open, up, used, since, orphans, author>>

-----------------------------------------------------------------------------
(* The user *)

\* Mutant: what is sent is queued as well.
SendAndQueue(t, m) ==
    /\ up' = IF t \in open THEN [up EXCEPT ![t] = Append(@, m)] ELSE up
    /\ tab' = [tab EXCEPT ![t].queue = Append(@, m)]
    /\ UNCHANGED <<sess, alive, open, down, since, orphans>>

\* WSClient.send
Send(t, m) ==
    /\ IF t \in open
       THEN /\ up' = [up EXCEPT ![t] = Append(@, m)]
            /\ UNCHANGED tab
       ELSE /\ tab' = [tab EXCEPT ![t].queue = Append(@, m)]
            /\ UNCHANGED up
    /\ UNCHANGED <<sess, alive, open, down, since, orphans>>

NewSession(t) ==
    /\ used.creates < MaxSessions
    /\ Send(t, Create)
    /\ used' = [used EXCEPT !.creates = @ + 1]
    /\ UNCHANGED author

\* The chat pane is there when the active session is in the list.
Pane(t) == tab[t].active # NoSession /\ tab[t].active \in Listed(tab[t])

Type(t) ==
    /\ Pane(t)
    /\ RoomForText
    /\ Send(t, SendPrompt(tab[t].active, used.prompts + 1))
    /\ used' = [used EXCEPT !.prompts = @ + 1]
    /\ author' = [author EXCEPT ![used.prompts + 1] = t]

Answer(t) ==
    /\ Modal(tab[t]) # <<>>
    /\ used.clicks < MaxClicks
    /\ LET p == Head(Modal(tab[t]))
       IN  Send(t, Respond(p.sid, p.req))
    /\ used' = [used EXCEPT !.clicks = @ + 1]
    /\ UNCHANGED author

\* Both buttons are there while a turn is shown to be in progress.
Turning(t, s) == tab[t].sessions[s] \in {"running", "awaiting_permission"}

PressCancel(t) ==
    /\ used.clicks < MaxClicks
    /\ \/ Pane(t) /\ Turning(t, tab[t].active)
          /\ Send(t, CancelOne(tab[t].active))
       \/ (\E s \in Sid : Turning(t, s)) /\ Send(t, CancelAll)
    /\ used' = [used EXCEPT !.clicks = @ + 1]
    /\ UNCHANGED author

PressDelete(t, s) ==
    /\ s \in Listed(tab[t])
    /\ used.clicks < MaxClicks
    /\ Send(t, Delete(s))
    /\ used' = [used EXCEPT !.clicks = @ + 1]
    /\ UNCHANGED author

Select(t, s) ==
    /\ s \in Listed(tab[t]) /\ s # tab[t].active
    /\ tab' = [tab EXCEPT ![t].active = s]
    /\ UNCHANGED <<sess, alive, open, up, down, used, since, orphans, author>>

-----------------------------------------------------------------------------
Init ==
    /\ sess  = [s \in Sid |-> FreshSession]
    /\ alive = TRUE
    /\ open  = {}
    /\ up    = [t \in Tab |-> <<>>]
    /\ down  = [t \in Tab |-> <<>>]
    /\ tab   = [t \in Tab |-> FreshTab]
    /\ used  = [creates |-> 0, prompts |-> 0, says |-> 0, asks |-> 0,
                clicks |-> 0, faults |-> 0]
    /\ since = [t \in Tab |-> {}]
    /\ orphans = {}
    /\ author \in [Prompt -> {CHOOSE t \in Tab : TRUE}]

\* What goes on by itself: a tab without a socket keeps trying, and both event
\* loops come to every message.
Progress ==
    \/ Boot
    \/ \E t \in Tab : \/ Connect(t) \/ TabReceives(t)
                      \/ ServerHandles(t) \/ ServerRefuses(t)

AgentStep == \E s \in Sid : AgentSays(s) \/ AgentAsks(s) \/ AgentEnds(s)

UserStep(t) ==
    \/ NewSession(t) \/ Type(t) \/ Answer(t) \/ PressCancel(t)
    \/ \E s \in Sid : PressDelete(t, s) \/ Select(t, s)

Fault == Stopped \/ \E t \in Tab : Break(t) \/ Reload(t)

Next ==
    \/ Progress \/ AgentStep \/ HandlesElsewhere \/ Fault
    \/ \E t \in Tab : UserStep(t)

\* Nothing is asked of the agents or of the user.
Fairness == WF_vars(Progress)

Spec == Init /\ [][Next]_vars /\ Fairness

-----------------------------------------------------------------------------
(* Properties *)

Text == 0..MaxTexts
Msg  == [n : Nat, text : Text]

\* Values have the types the code gives them; a tab with no socket has
\* nothing on its way.
TypeOK ==
    /\ \A s \in Sid :
          /\ sess[s].status \in Status
          /\ sess[s].history \in Seq(Msg)
          /\ sess[s].queue \in Seq(Prompt)
          /\ sess[s].pending \subseteq Req
          /\ sess[s].live => sess[s].made
    /\ alive \in BOOLEAN
    /\ open \subseteq Tab /\ (open # {} => alive)
    /\ \A t \in Tab :
          /\ t \notin open => up[t] = <<>> /\ down[t] = <<>>
          /\ tab[t].sessions \in [Sid -> Shown]
          /\ tab[t].active \in Sid \cup {NoSession}

\* The tab is connected and has handled everything it was sent.
Settled(t) == t \in open /\ down[t] = <<>>

\* A settled tab shows what there is: every session with its status and, at
\* the end of its pane, its whole history in the server's order (what stands
\* above it are copies from earlier connections, see App.tsx:124-129).  It
\* shows a session that is gone only when that was deleted in mid-turn, and
\* the end of the turn was still announced (index.ts:666).
ShownIsTrue ==
    \A t \in Tab, s \in Sid : Settled(t) =>
        IF sess[s].live
        THEN /\ tab[t].sessions[s] = sess[s].status
             /\ IsSuffix(sess[s].history, tab[t].messages[s])
        ELSE tab[t].sessions[s] # "absent" => s \in orphans

\* Of the permission requests made while its socket held, a settled tab has a
\* modal for those that are pending, and for no other: whichever tab answers,
\* whether the turn is cancelled, the session deleted or the run over.
ModalsArePending ==
    \A t \in Tab, s \in Sid : Settled(t) =>
        \A r \in since[t] :
            [sid |-> s, req |-> r] \in Range(tab[t].modals)
                <=> sess[s].live /\ r \in sess[s].pending

Bubbles(s) == {m \in Range(sess[s].history) : m.text # NoPrompt}

\* A prompt enters a history at most once, and the prompts of one tab enter
\* it in the order they were typed, over every break of the socket between
\* typing and arrival (ws.ts queues what it cannot send).
PromptsArriveOnce ==
    /\ \A s, z \in Sid : \A m \in Bubbles(s), k \in Bubbles(z) :
          m.text = k.text => s = z /\ m = k
    /\ \A s \in Sid : \A m, k \in Bubbles(s) :
          author[m.text] = author[k.text] /\ m.n < k.n => m.text < k.text

Before(h, m, k) == \E i, j \in DOMAIN h : i < j /\ h[i] = m /\ h[j] = k

\* No step takes a message from the history of a session that is not deleted,
\* a restart of the server included; and only messages recorded within one
\* millisecond ever change places (sessions.ts:453-458).
HistoryIsKept ==
    [][\A s \in Sid : sess'[s].live =>
          LET h == sess[s].history
              g == sess'[s].history
          IN  /\ Range(h) \subseteq Range(g)
              /\ \A m, k \in Range(h) :
                    Before(h, m, k) /\ Before(g, k, m) =>
                        ~alive' /\ (m.n + 1)..k.n \subseteq sess[s].same]_vars

InQueue(t, p) == p \in {tab[t].queue[k].prompt :
                          k \in {i \in DOMAIN tab[t].queue :
                                   tab[t].queue[i].type = "send_prompt"}}

\* What the user typed while there was no connection is sent in the end.
QueueIsSent ==
    \A t \in Tab, p \in Prompt : InQueue(t, p) ~> ~InQueue(t, p)
=============================================================================
