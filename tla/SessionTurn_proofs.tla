------------------------ MODULE SessionTurn_proofs ------------------------
(***************************************************************************)
(* Proofs about SessionTurn, for every value of its constants.             *)
(*                                                                         *)
(* The server's handlers are functions on its record, so there is one      *)
(* lemma per function: applied to a consistent server it returns a         *)
(* consistent one.  The invariants are then inductive by cases on the      *)
(* actions: first the types and the agreement of session and runner, then  *)
(* the user's consent, then the order in which prompts are run, and last   *)
(* that no run is alive behind the session's back.  Leaves that build or   *)
(* read the record are given to Zenon, which copes with its many fields;   *)
(* sequences and numbers go to SMT.                                        *)
(***************************************************************************)
EXTENDS SessionTurn, TLAPS

-----------------------------------------------------------------------------
(* The server's record *)

\* The type of every field of the server's record.
LEMMA ServerFields ==
  ASSUME NEW s \in ServerState
  PROVE  /\ s.status \in Status       /\ s.token \in Token
         /\ s.pending \in SUBSET Run  /\ s.queue \in Seq(Prompt)
         /\ s.busy \in BOOLEAN        /\ s.cancelling \in BOOLEAN
         /\ s.inFlight \in 0..MaxPrompts
         /\ s.retried \in BOOLEAN     /\ s.alerted \in BOOLEAN
         /\ s.lastUser \in 0..MaxPrompts
         /\ s.lastSaid \in Token      /\ s.deleted \in BOOLEAN
         /\ s.activeRun \in Token     /\ s.unsub \in Token
         /\ s.subs \in SUBSET Run     /\ s.lastRun \in Token
         /\ s.entry \in 0..MaxConns
         /\ s.ws \in [Conn -> {"none", "open", "closing", "closed"}]
         /\ s.down \in [Conn -> Seq(DownMsg)]
         /\ s.alive \in BOOLEAN
         /\ s.promptOf \in [Run -> 0..MaxPrompts]
         /\ s.replayed \in SUBSET Prompt
BY DEF ServerState

\* Sending touches nothing but the mail to the daemon.
LEMMA SendType ==
  ASSUME NEW s \in ServerState, NEW m \in DownMsg
  PROVE  /\ SendToDevice(s, m) \in ServerState
         /\ \E d : SendToDevice(s, m) = [s EXCEPT !.down = d]
<1>1. CASE ~Online(s)
  <2>1. s = [s EXCEPT !.down = s.down]
    BY Zenon DEF ServerState
  <2> QED BY <1>1, <2>1 DEF SendToDevice
<1>2. CASE Online(s)
  <2>1. s.entry \in Conn /\ s.down \in [Conn -> Seq(DownMsg)]
    BY <1>2, BoundsAssumption, ServerFields DEF Online, NoConn, Conn
  <2>2. [s.down EXCEPT ![s.entry] = Append(@, m)] \in [Conn -> Seq(DownMsg)]
    BY <2>1
  <2>3. [s EXCEPT !.down[s.entry] = Append(@, m)] \in ServerState
    BY <2>2, Zenon DEF ServerState
  <2>4. [s EXCEPT !.down[s.entry] = Append(@, m)]
            = [s EXCEPT !.down = [s.down EXCEPT ![s.entry] = Append(@, m)]]
    BY Zenon DEF ServerState
  <2> QED BY <1>2, <2>3, <2>4 DEF SendToDevice
<1> QED BY <1>1, <1>2


\* After cleanup() the runner has neither a run nor a listener.
LEMMA CleanupType ==
  ASSUME NEW s \in ServerState
  PROVE  /\ Cleanup(s) \in ServerState
         /\ Cleanup(s).activeRun = NoRun
         /\ Cleanup(s).unsub = NoRun
         /\ Cleanup(s).lastRun = s.lastRun
<1>1. s.subs \ {s.unsub} \in SUBSET Run /\ NoRun \in Token
  BY BoundsAssumption, ServerFields DEF Token, NoRun
<1>2. Cleanup(s) \in ServerState
  BY <1>1, Zenon DEF Cleanup, ServerState
<1> QED BY <1>2, Zenon DEF Cleanup, ServerState

\* Recording a message may end the process, and does nothing else.
LEMMA RecordMessageType ==
  ASSUME NEW s \in ServerState
  PROVE  /\ RecordMessage(s) \in ServerState
         /\ \E a : RecordMessage(s) = [s EXCEPT !.alive = a]
<1>1. (s.alive /\ ~s.deleted) \in BOOLEAN
  OBVIOUS
<1> QED BY <1>1, Zenon DEF RecordMessage, ServerState

(***************************************************************************)
(* Handing prompts to the runner.                                          *)
(***************************************************************************)

\* What onDone has established by the time it drains the queue.
Free(s) ==
    /\ ~s.busy
    /\ s.inFlight = NoPrompt
    /\ s.activeRun = NoRun /\ s.unsub = NoRun
    /\ s.status \in {"idle", "error"}

Consistent(s) ==
    /\ s.busy <=> s.activeRun # NoRun
    /\ s.busy <=> s.inFlight # NoPrompt
    /\ s.activeRun # NoRun => s.activeRun \in s.subs
    /\ s.unsub = s.activeRun
    /\ s.queue # <<>> => s.busy
    /\ s.busy <=> s.status \in {"running", "awaiting_permission"}

\* What Consistent speaks of.
SameTurn(s, t) ==
    /\ t.busy = s.busy /\ t.status = s.status
    /\ t.activeRun = s.activeRun /\ t.inFlight = s.inFlight
    /\ t.subs = s.subs /\ t.unsub = s.unsub /\ t.queue = s.queue

\* Consistent depends on nothing but what SameTurn compares.
LEMMA SameTurnConsistent ==
  ASSUME NEW s, NEW t, SameTurn(s, t), Consistent(s)
  PROVE  Consistent(t)
BY DEF SameTurn, Consistent

\* A run that send() starts makes the session consistent, whatever it was.
LEMMA StartConsistent ==
  ASSUME NEW s \in ServerState, s.queue # <<>>, s.lastRun < MaxRuns
  PROVE  /\ Start(s) \in ServerState
         /\ Start(s).lastRun = s.lastRun + 1
         /\ Consistent(Start(s))
<1> DEFINE r == s.lastRun + 1
           p == Head(s.queue)
           t == [s EXCEPT !.queue = Tail(@), !.busy = TRUE, !.status = "running",
                      !.inFlight = p, !.promptOf[r] = p, !.lastRun = r,
                      !.activeRun = r, !.unsub = r, !.subs = @ \cup {r}]
<1>1. /\ r \in Run /\ r \in Token /\ p \in Prompt /\ p \in 0..MaxPrompts
      /\ Tail(s.queue) \in Seq(Prompt)
      /\ r # NoRun /\ p # NoPrompt
  <2>1. s.lastRun \in Token /\ s.queue \in Seq(Prompt)
    BY ServerFields
  <2>2. p \in Prompt /\ Tail(s.queue) \in Seq(Prompt)
    BY <2>1
  <2>3. MaxRuns \in Nat /\ MaxPrompts \in Nat
    BY BoundsAssumption
  <2> HIDE DEF p
  <2> QED BY <2>1, <2>2, <2>3 DEF Run, Token, Prompt, NoRun, NoPrompt
<1>2. /\ [s.promptOf EXCEPT ![r] = p] \in [Run -> 0..MaxPrompts]
      /\ s.subs \cup {r} \in SUBSET Run
      /\ s.token \in Token
  BY <1>1, ServerFields
<1>3. "running" \in Status
  BY DEF Status
<1>4. RunPrompt(r, p, s.token) \in DownMsg
  BY <1>1, <1>2 DEF DownMsg, RunPrompt
<1>5. Start(s) = SendToDevice(t, RunPrompt(r, p, s.token))
  BY DEF Start
<1> HIDE DEF r, p
<1>6. t \in ServerState
  BY <1>1, <1>2, <1>3, Zenon DEF ServerState
<1>7. /\ t.lastRun = r /\ t.busy = TRUE /\ t.status = "running"
      /\ t.inFlight = p /\ t.activeRun = r /\ t.unsub = r
      /\ t.subs = s.subs \cup {r}
  BY Zenon DEF ServerState
<1> HIDE DEF t
<1>8. PICK d : Start(s) = [t EXCEPT !.down = d]
  BY <1>4, <1>5, <1>6, SendType
<1>9. /\ Start(s).lastRun = r /\ Start(s).busy = TRUE
      /\ Start(s).status = "running" /\ Start(s).inFlight = p
      /\ Start(s).activeRun = r /\ Start(s).unsub = r
      /\ Start(s).subs = s.subs \cup {r}
  BY <1>6, <1>7, <1>8, Zenon DEF ServerState
<1>10. Start(s) \in ServerState
  BY <1>4, <1>5, <1>6, SendType
<1> QED BY <1>1, <1>9, <1>10 DEF Consistent, r

\* With the device offline the whole queue fails and nothing is left in progress.
LEMMA FailAllFree ==
  ASSUME NEW s \in ServerState
  PROVE  /\ FailAll(s) \in ServerState
         /\ FailAll(s).lastRun = s.lastRun
         /\ FailAll(s).queue = <<>>
         /\ Free(s) => Free(FailAll(s))
<1> DEFINE st == IF s.cancelling /\ Len(s.queue) = 1 THEN "idle" ELSE "error"
           t == [s EXCEPT !.queue = <<>>, !.busy = FALSE, !.cancelling = FALSE,
                          !.inFlight = NoPrompt, !.status = st]
           f == RecordMessage(t)
<1>1. /\ st \in Status /\ st \in {"idle", "error"}
      /\ NoPrompt \in 0..MaxPrompts /\ <<>> \in Seq(Prompt) /\ NoRun \in Token
  BY BoundsAssumption DEF Status, NoPrompt, NoRun, Token
<1>2. FailAll(s) = IF s.entry = NoConn THEN f
                   ELSE [f EXCEPT !.unsub = NoRun, !.activeRun = NoRun]
  BY DEF FailAll
<1> HIDE DEF st
<1>3. t \in ServerState
  BY <1>1, Zenon DEF ServerState
<1>4. /\ t.queue = <<>> /\ t.busy = FALSE /\ t.inFlight = NoPrompt
      /\ t.status = st /\ t.lastRun = s.lastRun
      /\ t.unsub = s.unsub /\ t.activeRun = s.activeRun
  BY Zenon DEF ServerState
<1> HIDE DEF t
<1>5. f \in ServerState /\ \E a : f = [t EXCEPT !.alive = a]
  BY <1>3, RecordMessageType
<1>6. /\ f.queue = <<>> /\ f.busy = FALSE /\ f.inFlight = NoPrompt
      /\ f.status = st /\ f.lastRun = s.lastRun
      /\ f.unsub = s.unsub /\ f.activeRun = s.activeRun
  BY <1>3, <1>4, <1>5, Zenon DEF ServerState
<1> HIDE DEF f
<1>7. CASE s.entry = NoConn
  BY <1>1, <1>2, <1>5, <1>6, <1>7 DEF Free
<1>8. CASE s.entry # NoConn
  <2> DEFINE g == [f EXCEPT !.unsub = NoRun, !.activeRun = NoRun]
  <2>1. g \in ServerState
    BY <1>1, <1>5, Zenon DEF ServerState
  <2>2. /\ g.queue = <<>> /\ g.busy = FALSE /\ g.inFlight = NoPrompt
        /\ g.status = st /\ g.lastRun = s.lastRun
        /\ g.unsub = NoRun /\ g.activeRun = NoRun
    BY <1>5, <1>6, Zenon DEF ServerState
  <2>3. FailAll(s) = g
    BY <1>2, <1>8
  <2> HIDE DEF g
  <2> QED BY <1>1, <2>1, <2>2, <2>3 DEF Free
<1> QED BY <1>7, <1>8
\* drainQueue() at the end of a turn leaves a consistent session, and starts at
\* most one run.
LEMMA DrainQueueConsistent ==
  ASSUME NEW s \in ServerState, s.lastRun < MaxRuns
  PROVE  /\ DrainQueue(s) \in ServerState
         /\ DrainQueue(s).lastRun \in {s.lastRun, s.lastRun + 1}
         /\ Free(s) => Consistent(DrainQueue(s))
<1>1. CASE s.busy \/ s.queue = <<>>
  <2>1. DrainQueue(s) = s
    BY <1>1 DEF DrainQueue
  <2> QED BY <1>1, <2>1 DEF Free, Consistent
<1>2. CASE ~s.busy /\ s.queue # <<>> /\ Online(s)
  <2>1. DrainQueue(s) = Start(s)
    BY <1>2 DEF DrainQueue
  <2> QED BY <1>2, <2>1, StartConsistent
<1>3. CASE ~s.busy /\ s.queue # <<>> /\ ~Online(s)
  <2>1. DrainQueue(s) = FailAll(s)
    BY <1>3 DEF DrainQueue
  <2>2. Free(FailAll(s)) /\ FailAll(s).queue = <<>> => Consistent(FailAll(s))
    BY DEF Free, Consistent
  <2> QED BY <2>1, <2>2, FailAllFree
<1> QED BY <1>1, <1>2, <1>3

\* onDone after cleanup() leaves a consistent session, whatever came before.
LEMMA OnDoneConsistent ==
  ASSUME NEW s \in ServerState, s.lastRun < MaxRuns,
         s.activeRun = NoRun, s.unsub = NoRun
  PROVE  OnDone(s) \in ServerState /\ Consistent(OnDone(s))
<1> DEFINE st == IF s.status = "error" THEN s.status ELSE "idle"
           t == [s EXCEPT !.status = st, !.busy = FALSE, !.cancelling = FALSE,
                          !.inFlight = NoPrompt]
<1>1. /\ st \in Status /\ st \in {"idle", "error"}
      /\ NoPrompt \in 0..MaxPrompts
  BY BoundsAssumption DEF Status, NoPrompt
<1>2. OnDone(s) = DrainQueue(t)
  BY DEF OnDone
<1> HIDE DEF st
<1>3. t \in ServerState
  BY <1>1, Zenon DEF ServerState
<1>4. /\ t.busy = FALSE /\ t.inFlight = NoPrompt /\ t.status = st
      /\ t.lastRun = s.lastRun /\ t.unsub = s.unsub /\ t.activeRun = s.activeRun
  BY Zenon DEF ServerState
<1> HIDE DEF t
<1> QED BY <1>1, <1>2, <1>3, <1>4, DrainQueueConsistent DEF Free

\* onError starts at most one run.
LEMMA OnErrorType ==
  ASSUME NEW s \in ServerState, s.lastRun < MaxRuns, NEW e
  PROVE  /\ OnError(s, e) \in ServerState
         /\ OnError(s, e).lastRun \in {s.lastRun, s.lastRun + 1}
<1>1. NoRun \in Token /\ NoPrompt \in 0..MaxPrompts /\ "error" \in Status
  BY BoundsAssumption DEF Token, NoRun, NoPrompt, Status
<1>2. ASSUME NEW t \in ServerState
      PROVE  /\ RecordMessage(t) \in ServerState
             /\ RecordMessage(t).lastRun = t.lastRun
  <2>1. RecordMessage(t) \in ServerState
    BY RecordMessageType
  <2>2. RecordMessage(t).lastRun = t.lastRun
    BY Zenon DEF RecordMessage, ServerState
  <2> QED BY <2>1, <2>2
<1>3. ASSUME NEW t \in ServerState
      PROVE  /\ SetStatus(t, "error") \in ServerState
             /\ SetStatus(t, "error").lastRun = t.lastRun
  BY <1>1, Zenon DEF ServerState, SetStatus
<1>4. /\ EmitAuthRequired(s) \in ServerState
      /\ EmitAuthRequired(s).lastRun = s.lastRun
  BY <1>1, Zenon DEF ServerState, EmitAuthRequired
<1>5. ASSUME s.inFlight # NoPrompt
      PROVE  /\ ReplayFresh(s) \in ServerState
             /\ ReplayFresh(s).lastRun \in {s.lastRun, s.lastRun + 1}
  <2> DEFINE q == <<s.inFlight>> \o s.queue
             b == s.replayed \cup {s.inFlight}
             t == [s EXCEPT !.retried = TRUE, !.token = NoRun, !.busy = FALSE,
                            !.queue = q, !.inFlight = NoPrompt, !.replayed = b]
  <2>1. s.inFlight \in Prompt
    BY <1>5, BoundsAssumption, ServerFields DEF Prompt, NoPrompt
  <2>2. q \in Seq(Prompt) /\ b \in SUBSET Prompt
    BY <2>1, ServerFields
  <2>3. ReplayFresh(s) = DrainQueue(RecordMessage(t))
    BY DEF ReplayFresh
  <2> HIDE DEF q, b
  <2>4. t \in ServerState /\ t.lastRun = s.lastRun
    BY <1>1, <2>2, Zenon DEF ServerState
  <2> HIDE DEF t
  <2> QED BY <1>2, <2>3, <2>4, DrainQueueConsistent
<1>6. CASE OnError(s, e) = RecordMessage(s)
  BY <1>2, <1>6
<1>7. CASE OnError(s, e) = RecordMessage(SetStatus(EmitAuthRequired(s), "error"))
  BY <1>2, <1>3, <1>4, <1>7
<1>8. CASE OnError(s, e) = RecordMessage(SetStatus(s, "error"))
  BY <1>2, <1>3, <1>8
<1>9. CASE s.inFlight # NoPrompt /\ OnError(s, e) = ReplayFresh(s)
  BY <1>5, <1>9
<1> QED BY <1>6, <1>7, <1>8, <1>9 DEF OnError
(***************************************************************************)
(* The handlers.                                                           *)
(***************************************************************************)

\* The whole cascade of daemon_done: token, error, cleanup and onDone.
LEMMA OnDaemonDoneConsistent ==
  ASSUME NEW s \in ServerState, s.lastRun + 2 <= MaxRuns,
         NEW m, m.token \in Token
  PROVE  OnDaemonDone(s, m) \in ServerState /\ Consistent(OnDaemonDone(s, m))
<1> DEFINE t == IF m.token = NoRun THEN s ELSE OnResumeToken(s, m.token)
           e == IF m.error = "none" THEN t ELSE OnError(t, m.error)
<1>1. s.lastRun \in Nat /\ MaxRuns \in Nat
  BY BoundsAssumption, ServerFields DEF Token
<1>2. /\ OnResumeToken(s, m.token) \in ServerState
      /\ OnResumeToken(s, m.token).lastRun = s.lastRun
  BY Zenon DEF ServerState, OnResumeToken
<1>3. t \in ServerState /\ t.lastRun = s.lastRun
  BY <1>2
<1>4. OnDaemonDone(s, m) = OnDone(Cleanup(e))
  BY DEF OnDaemonDone
<1> HIDE DEF t
<1>5. e \in ServerState /\ e.lastRun \in {s.lastRun, s.lastRun + 1}
  BY <1>1, <1>3, OnErrorType
<1> HIDE DEF e
<1>6. /\ Cleanup(e) \in ServerState
      /\ Cleanup(e).lastRun < MaxRuns
      /\ Cleanup(e).activeRun = NoRun
      /\ Cleanup(e).unsub = NoRun
  BY <1>1, <1>5, CleanupType
<1> QED BY <1>4, <1>6, OnDoneConsistent

\* Text recorded leaves the turn as it is.
LEMMA OnMessageConsistent ==
  ASSUME NEW s \in ServerState, Consistent(s), NEW m, m.run \in Run
  PROVE  OnMessage(s, m) \in ServerState /\ Consistent(OnMessage(s, m))
<1> DEFINE t == IF m.auth /\ ~s.alerted THEN EmitAuthRequired(s) ELSE s
           u == [t EXCEPT !.lastSaid = m.run]
<1>1. m.run \in Token /\ NoRun \in Token
  BY BoundsAssumption DEF Run, Token, NoRun
<1>2. EmitAuthRequired(s) \in ServerState
  BY <1>1, Zenon DEF EmitAuthRequired, ServerState
<1>3. SameTurn(s, EmitAuthRequired(s))
  BY Zenon DEF EmitAuthRequired, ServerState, SameTurn
<1>4. t \in ServerState /\ Consistent(t)
  BY <1>2, <1>3, SameTurnConsistent
<1>5. OnMessage(s, m) = RecordMessage(u)
  BY DEF OnMessage
<1> HIDE DEF t
<1>6. u \in ServerState
  BY <1>1, <1>4, Zenon DEF ServerState
<1>7. RecordMessage(u) \in ServerState
  BY <1>6, RecordMessageType
<1>8. SameTurn(t, RecordMessage(u))
  BY <1>4, Zenon DEF RecordMessage, ServerState, SameTurn
<1> QED BY <1>4, <1>5, <1>7, <1>8, SameTurnConsistent

\* A request is shown only while its turn is in progress.
LEMMA AskPermissionConsistent ==
  ASSUME NEW s \in ServerState, Consistent(s), NEW r \in Run, s.activeRun # NoRun
  PROVE  AskPermission(s, r) \in ServerState /\ Consistent(AskPermission(s, r))
<1>1. s.pending \cup {r} \in SUBSET Run /\ "awaiting_permission" \in Status
  BY ServerFields DEF Status
<1>2. AskPermission(s, r) \in ServerState
  BY <1>1, Zenon DEF AskPermission, ServerState
<1>3. /\ AskPermission(s, r).busy = s.busy
      /\ AskPermission(s, r).activeRun = s.activeRun
      /\ AskPermission(s, r).inFlight = s.inFlight
      /\ AskPermission(s, r).subs = s.subs
      /\ AskPermission(s, r).unsub = s.unsub
      /\ AskPermission(s, r).queue = s.queue
      /\ AskPermission(s, r).status = "awaiting_permission"
  BY Zenon DEF AskPermission, ServerState
<1> QED BY <1>2, <1>3 DEF Consistent
\* Every message of the daemon leaves a consistent session.
LEMMA ReceiveConsistent ==
  ASSUME NEW s \in ServerState, Consistent(s), s.lastRun + 2 <= MaxRuns,
         NEW c \in Conn, NEW m \in UpMsg
  PROVE  Receive(s, c, m) \in ServerState /\ Consistent(Receive(s, c, m))
<1>1. CASE m.type = "hello"
  <2> DEFINE w == [d \in Conn |-> IF d = s.entry /\ d # c /\ s.ws[d] = "open"
                                  THEN "closing" ELSE s.ws[d]]
             t == [s EXCEPT !.entry = c, !.ws = w]
  <2>1. c \in 0..MaxConns /\ w \in [Conn -> {"none", "open", "closing", "closed"}]
    BY BoundsAssumption, ServerFields DEF Conn
  <2>2. Receive(s, c, m) = t
    BY <1>1 DEF Receive, Register
  <2> HIDE DEF w
  <2>3. t \in ServerState
    BY <2>1, Zenon DEF ServerState
  <2>4. SameTurn(s, t)
    BY Zenon DEF SameTurn, ServerState
  <2> QED BY <2>2, <2>3, <2>4, SameTurnConsistent
<1>2. CASE m.type # "hello"
  <2>1. m.run \in Run /\ m.type \in {"say", "ask", "done"}
    BY <1>2 DEF UpMsg
  <2>2. Receive(s, c, m) = HandleDaemonMessage(s, m)
    BY <1>2 DEF Receive
  <2>3. CASE ~Heard(s, m.run)
    BY <2>2, <2>3 DEF HandleDaemonMessage
  <2>4. CASE Heard(s, m.run) /\ m.type = "say"
    <3>1. Receive(s, c, m) = OnMessage(s, m)
      BY <2>2, <2>4 DEF HandleDaemonMessage
    <3> QED BY <2>1, <3>1, OnMessageConsistent
  <2>5. CASE Heard(s, m.run) /\ m.type = "ask"
    <3>1. Receive(s, c, m) = AskPermission(s, m.run)
      BY <2>2, <2>5 DEF HandleDaemonMessage
    <3> QED BY <2>1, <2>5, <3>1, AskPermissionConsistent DEF Heard
  <2>6. CASE Heard(s, m.run) /\ m.type = "done"
    <3>1. Receive(s, c, m) = OnDaemonDone(s, m)
      BY <2>2, <2>6 DEF HandleDaemonMessage
    <3>2. m.token \in Token
      BY <2>6 DEF UpMsg
    <3> QED BY <3>1, <3>2, OnDaemonDoneConsistent
  <2> QED BY <2>1, <2>3, <2>4, <2>5, <2>6
<1> QED BY <1>1, <1>2

\* A consistent session that is not busy may start at once.
LEMMA ConsistentFree ==
  ASSUME NEW s \in ServerState, Consistent(s), ~s.busy
  PROVE  Free(s)
<1>1. s.status \in Status
  BY ServerFields
<1> QED BY <1>1 DEF Consistent, Free, Status

\* A prompt put in the queue is started, fails, or waits for the turn to end.
LEMMA QueueingConsistent ==
  ASSUME NEW s \in ServerState, Consistent(s), s.lastRun < MaxRuns,
         NEW t \in ServerState, t.lastRun = s.lastRun, t.busy = s.busy,
         t.status = s.status, t.activeRun = s.activeRun,
         t.inFlight = s.inFlight, t.subs = s.subs, t.unsub = s.unsub
  PROVE  DrainQueue(t) \in ServerState /\ Consistent(DrainQueue(t))
<1>1. CASE s.busy
  <2>1. DrainQueue(t) = t
    BY <1>1 DEF DrainQueue
  <2>2. Consistent(t)
    BY <1>1 DEF Consistent
  <2> QED BY <2>1, <2>2
<1>2. CASE ~s.busy
  <2>1. Free(s)
    BY <1>2, ConsistentFree
  <2>2. Free(t)
    BY <2>1 DEF Free
  <2> QED BY <2>2, DrainQueueConsistent
<1> QED BY <1>1, <1>2

\* A prompt typed starts at once exactly if no turn is in progress.
LEMMA EnqueuePromptConsistent ==
  ASSUME NEW s \in ServerState, Consistent(s), s.lastRun < MaxRuns,
         NEW p \in Prompt
  PROVE  EnqueuePrompt(s, p) \in ServerState /\ Consistent(EnqueuePrompt(s, p))
<1> DEFINE q == Append(s.queue, p)
           t == [s EXCEPT !.alerted = FALSE, !.lastUser = p, !.queue = q]
<1>1. q \in Seq(Prompt) /\ p \in 0..MaxPrompts
  BY BoundsAssumption, ServerFields DEF Prompt
<1>2. EnqueuePrompt(s, p) = DrainQueue(RecordMessage(t))
  BY DEF EnqueuePrompt
<1> HIDE DEF q
<1>3. t \in ServerState
  BY <1>1, Zenon DEF ServerState
<1>4. RecordMessage(t) \in ServerState
  BY <1>3, RecordMessageType
<1>5. LET u == RecordMessage(t)
      IN  /\ u.lastRun = s.lastRun /\ u.busy = s.busy /\ u.status = s.status
          /\ u.activeRun = s.activeRun /\ u.inFlight = s.inFlight
          /\ u.subs = s.subs /\ u.unsub = s.unsub
  BY Zenon DEF ServerState, RecordMessage
<1> HIDE DEF t
<1> QED BY <1>2, <1>4, <1>5, QueueingConsistent

\* The same for the retry of the last prompt.
LEMMA RetryConsistent ==
  ASSUME NEW s \in ServerState, Consistent(s), s.lastRun < MaxRuns,
         s.lastUser # NoPrompt
  PROVE  /\ RetryLastUserPrompt(s) \in ServerState
         /\ Consistent(RetryLastUserPrompt(s))
<1> DEFINE q == <<s.lastUser>> \o s.queue
           t == [s EXCEPT !.alerted = FALSE, !.queue = q]
<1>1. s.lastUser \in Prompt
  BY BoundsAssumption, ServerFields DEF Prompt, NoPrompt
<1>2. q \in Seq(Prompt)
  BY <1>1, ServerFields
<1>3. RetryLastUserPrompt(s) = DrainQueue(t)
  BY DEF RetryLastUserPrompt
<1> HIDE DEF q
<1>4. t \in ServerState
  BY <1>2, Zenon DEF ServerState
<1>5. /\ t.lastRun = s.lastRun /\ t.busy = s.busy /\ t.status = s.status
      /\ t.activeRun = s.activeRun /\ t.inFlight = s.inFlight
      /\ t.subs = s.subs /\ t.unsub = s.unsub
  BY Zenon DEF ServerState
<1> HIDE DEF t
<1> QED BY <1>3, <1>4, <1>5, QueueingConsistent

\* Sending leaves the turn as it is.
LEMMA SendSameTurn ==
  ASSUME NEW s \in ServerState, NEW m \in DownMsg
  PROVE  /\ SameTurn(s, SendToDevice(s, m))
         /\ SendToDevice(s, m).pending = s.pending
<1>1. PICK d : SendToDevice(s, m) = [s EXCEPT !.down = d]
  BY SendType
<1> QED BY <1>1, Zenon DEF SameTurn, ServerState

\* Answers are messages.
LEMMA AnswerType ==
  ASSUME NEW rs \in SUBSET Run, NEW allow \in BOOLEAN
  PROVE  Answer(rs, allow) \in DownMsg
BY DEF Answer, DownMsg

\* The last answer puts the status back to running, and only during a turn.
LEMMA ResolvePermissionConsistent ==
  ASSUME NEW s \in ServerState, Consistent(s), NEW r \in Run,
         NEW allow \in BOOLEAN
  PROVE  /\ ResolvePermission(s, r, allow) \in ServerState
         /\ Consistent(ResolvePermission(s, r, allow))
<1> DEFINE left == s.pending \ {r}
           u == [s EXCEPT !.pending = left]
           t == SendToDevice(u, Answer({r}, allow))
<1>1. left \in SUBSET Run /\ "running" \in Status
  BY ServerFields DEF Status
<1>2. ResolvePermission(s, r, allow) =
        IF left = {} /\ s.status = "awaiting_permission"
        THEN SetStatus(t, "running") ELSE t
  BY DEF ResolvePermission
<1> HIDE DEF left
<1>3. u \in ServerState /\ SameTurn(s, u)
  BY <1>1, Zenon DEF ServerState, SameTurn
<1>4. Answer({r}, allow) \in DownMsg
  BY AnswerType
<1>5. t \in ServerState /\ SameTurn(u, t)
  BY <1>3, <1>4, SendType, SendSameTurn
<1>6. Consistent(t) /\ t.status = s.status
  BY <1>3, <1>5, SameTurnConsistent DEF SameTurn
<1> HIDE DEF t
<1>7. ASSUME s.status = "awaiting_permission"
      PROVE  /\ SetStatus(t, "running") \in ServerState
             /\ Consistent(SetStatus(t, "running"))
  <2> DEFINE v == SetStatus(t, "running")
  <2>1. v \in ServerState
    BY <1>1, <1>5, Zenon DEF ServerState, SetStatus
  <2>2. /\ v.busy = t.busy /\ v.activeRun = t.activeRun
        /\ v.inFlight = t.inFlight /\ v.subs = t.subs
        /\ v.unsub = t.unsub /\ v.queue = t.queue /\ v.status = "running"
    BY <1>5, Zenon DEF ServerState, SetStatus
  <2> HIDE DEF v
  <2>3. Consistent(v)
    BY <1>6, <1>7, <2>2 DEF Consistent
  <2> QED BY <2>1, <2>3 DEF v
<1> QED BY <1>2, <1>5, <1>6, <1>7

\* cancel() leaves the turn in progress until the daemon reports its end.
LEMMA CancelSessionConsistent ==
  ASSUME NEW s \in ServerState, Consistent(s)
  PROVE  CancelSession(s) \in ServerState /\ Consistent(CancelSession(s))
<1> DEFINE told   == IF s.activeRun = NoRun THEN s
                     ELSE SendToDevice(s, CancelRun(s.activeRun))
           denied == IF s.pending = {} THEN told
                     ELSE SendToDevice(told, Answer(s.pending, FALSE))
           t == [denied EXCEPT !.cancelling = TRUE, !.pending = {}, !.queue = <<>>]
<1>1. s.activeRun # NoRun => CancelRun(s.activeRun) \in DownMsg
  BY BoundsAssumption, ServerFields DEF CancelRun, DownMsg, Token, Run, NoRun
<1>2. Answer(s.pending, FALSE) \in DownMsg
  BY ServerFields, AnswerType
<1>3. told \in ServerState /\ SameTurn(s, told)
  BY <1>1, SendType, SendSameTurn DEF SameTurn
<1>4. CancelSession(s) = t
  BY DEF CancelSession
<1> HIDE DEF told
<1>5. denied \in ServerState /\ SameTurn(s, denied)
  BY <1>2, <1>3, SendType, SendSameTurn DEF SameTurn
<1> HIDE DEF denied
<1>6. {} \in SUBSET Run /\ <<>> \in Seq(Prompt)
  OBVIOUS
<1>7. t \in ServerState
  BY <1>5, <1>6, Zenon DEF ServerState
<1>8. /\ t.busy = denied.busy /\ t.activeRun = denied.activeRun
      /\ t.inFlight = denied.inFlight /\ t.subs = denied.subs
      /\ t.unsub = denied.unsub /\ t.status = denied.status /\ t.queue = <<>>
  BY <1>5, Zenon DEF ServerState
<1> HIDE DEF t
<1> QED BY <1>4, <1>5, <1>7, <1>8 DEF Consistent, SameTurn
(***************************************************************************)
(* The actions.                                                            *)
(***************************************************************************)

UsedType ==
    [cancels : 0..MaxCancels, retries : 0..MaxRetries, drops : 0..MaxDrops,
     restarts : 0..MaxRestarts, deletes : 0..MaxDeletes, asked : SUBSET Run,
     spoke : SUBSET Run]

\* The part of TypeOK that is about the daemon, the sockets and the ghosts.
RestOK ==
    /\ up \in [Conn -> Seq(UpMsg)]
    /\ dconn \in 0..MaxConns
    /\ nconn \in 0..MaxConns
    /\ phase \in [Run -> Phase]
    /\ via \in [Run -> 0..MaxConns]
    /\ resumeOf \in [Run -> Token]
    /\ stopped \in SUBSET Run
    /\ used \in UsedType
    /\ withdrawn \in 0..MaxPrompts
    /\ again \in SUBSET Prompt
    /\ cancelled \in SUBSET Run
    /\ allowed \in SUBSET Run
    /\ granted \in SUBSET Run

IInv == srv \in ServerState /\ RestOK /\ Consistent(srv)

\* The inductive invariant contains the type invariant.
LEMMA IInvTypeOK == IInv => TypeOK
BY DEF IInv, RestOK, UsedType, TypeOK

\* A new server process has a consistent session.
LEMMA FreshServerConsistent == FreshServer \in ServerState /\ Consistent(FreshServer)
<1>1. /\ 0 \in Token /\ 0 \in 0..MaxPrompts /\ 0 \in 0..MaxConns
      /\ "idle" \in Status /\ <<>> \in Seq(Prompt) /\ <<>> \in Seq(DownMsg)
  BY BoundsAssumption DEF Token, Status
<1>2. /\ [c \in Conn |-> "none"] \in [Conn -> {"none", "open", "closing", "closed"}]
      /\ [c \in Conn |-> <<>>] \in [Conn -> Seq(DownMsg)]
      /\ [r \in Run |-> 0] \in [Run -> 0..MaxPrompts]
  BY <1>1
<1>3. FreshServer \in ServerState
  BY <1>1, <1>2, Zenon DEF FreshServer, ServerState, NoRun, NoPrompt, NoConn
<1>4. Consistent(FreshServer)
  BY DEF FreshServer, Consistent, NoRun, NoPrompt
<1> QED BY <1>3, <1>4

\* It holds at the start,
LEMMA InitIInv == Init => IInv
<1> SUFFICES ASSUME Init PROVE IInv
  OBVIOUS
<1>1. /\ 0 \in Token /\ 0 \in 0..MaxPrompts /\ 0 \in 0..MaxConns
      /\ 0 \in 0..MaxCancels /\ 0 \in 0..MaxRetries /\ 0 \in 0..MaxDrops
      /\ 0 \in 0..MaxRestarts /\ 0 \in 0..MaxDeletes
  BY BoundsAssumption DEF Token
<1>2. /\ [c \in Conn |-> <<>>] \in [Conn -> Seq(UpMsg)]
      /\ [r \in Run |-> 0] \in [Run -> 0..MaxConns]
      /\ [r \in Run |-> 0] \in [Run -> Token]
      /\ [r \in Run |-> "none"] \in [Run -> Phase]
  BY <1>1 DEF Phase
<1>3. used \in UsedType
  BY <1>1 DEF Init, UsedType
<1>4. RestOK
  BY <1>1, <1>2, <1>3, Zenon DEF Init, RestOK, NoRun, NoConn
<1>5. srv \in ServerState /\ Consistent(srv)
  BY FreshServerConsistent DEF Init
<1> QED BY <1>4, <1>5 DEF IInv

\* The bounds are kept where the guards test them.
LEMMA UsedTypes ==
  ASSUME used \in UsedType
  PROVE  /\ \A n \in 0..MaxCancels : [used EXCEPT !.cancels = n] \in UsedType
         /\ \A n \in 0..MaxRetries : [used EXCEPT !.retries = n] \in UsedType
         /\ \A n \in 0..MaxDrops : [used EXCEPT !.drops = n] \in UsedType
         /\ \A n \in 0..MaxRestarts : [used EXCEPT !.restarts = n] \in UsedType
         /\ \A n \in 0..MaxDeletes : [used EXCEPT !.deletes = n] \in UsedType
         /\ \A R \in SUBSET Run : [used EXCEPT !.asked = R] \in UsedType
         /\ \A R \in SUBSET Run : [used EXCEPT !.spoke = R] \in UsedType
         /\ used.cancels < MaxCancels => used.cancels + 1 \in 0..MaxCancels
         /\ used.retries < MaxRetries => used.retries + 1 \in 0..MaxRetries
         /\ used.drops < MaxDrops => used.drops + 1 \in 0..MaxDrops
         /\ used.restarts < MaxRestarts => used.restarts + 1 \in 0..MaxRestarts
         /\ used.deletes < MaxDeletes => used.deletes + 1 \in 0..MaxDeletes
         /\ used.asked \in SUBSET Run /\ used.spoke \in SUBSET Run
<1>1. /\ used.cancels \in 0..MaxCancels /\ used.retries \in 0..MaxRetries
      /\ used.drops \in 0..MaxDrops /\ used.restarts \in 0..MaxRestarts
      /\ used.deletes \in 0..MaxDeletes
      /\ used.asked \in SUBSET Run /\ used.spoke \in SUBSET Run
  BY DEF UsedType
<1>2. {MaxCancels, MaxRetries, MaxDrops, MaxRestarts, MaxDeletes} \subseteq Nat
  BY BoundsAssumption
<1>3. /\ \A n \in 0..MaxCancels : [used EXCEPT !.cancels = n] \in UsedType
      /\ \A n \in 0..MaxRetries : [used EXCEPT !.retries = n] \in UsedType
      /\ \A n \in 0..MaxDrops : [used EXCEPT !.drops = n] \in UsedType
      /\ \A n \in 0..MaxRestarts : [used EXCEPT !.restarts = n] \in UsedType
      /\ \A n \in 0..MaxDeletes : [used EXCEPT !.deletes = n] \in UsedType
      /\ \A R \in SUBSET Run : [used EXCEPT !.asked = R] \in UsedType
      /\ \A R \in SUBSET Run : [used EXCEPT !.spoke = R] \in UsedType
  BY Zenon DEF UsedType
<1> QED BY <1>1, <1>2, <1>3

\* after every action of the user,
LEMMA UserIInv ==
  ASSUME IInv, User
  PROVE  IInv'
<1> USE DEF IInv
<1>0. /\ MaxRuns \in Nat /\ MaxPrompts \in Nat
      /\ srv.lastRun \in Token /\ srv.lastUser \in 0..MaxPrompts
      /\ srv.activeRun \in Token
  BY BoundsAssumption, ServerFields
<1>r. used.retries \in Nat
  BY BoundsAssumption DEF RestOK, UsedType
<1>1. CASE SendPrompt
  <2>1. srv.lastUser + 1 \in Prompt /\ srv.lastRun < MaxRuns
    BY <1>0, <1>r, <1>1 DEF SendPrompt, RoomFor, Prompt, Token
  <2>2. srv' \in ServerState /\ Consistent(srv')
    BY <1>1, <2>1, EnqueuePromptConsistent DEF SendPrompt
  <2>3. RestOK'
    BY <1>1 DEF SendPrompt, RestOK, daemonVars, ghostVars
  <2> QED BY <2>2, <2>3 DEF Consistent
<1>2. CASE RetryLast
  <2>1. srv.lastUser \in Prompt /\ srv.lastRun < MaxRuns
    BY <1>0, <1>2 DEF RetryLast, RoomFor, Prompt, Token, NoPrompt
  <2>2. srv' \in ServerState /\ Consistent(srv')
    BY <1>2, <2>1, RetryConsistent DEF RetryLast
  <2>3. used' \in UsedType
    BY <1>2, UsedTypes DEF RetryLast, RestOK
  <2>4. RestOK'
    BY <1>2, <2>1, <2>3 DEF RetryLast, RestOK, daemonVars
  <2> QED BY <2>2, <2>4 DEF Consistent
<1>3. ASSUME NEW r \in Run, NEW allow \in BOOLEAN, Respond(r, allow)
      PROVE  IInv'
  <2>1. srv' \in ServerState /\ Consistent(srv')
    BY <1>3, ResolvePermissionConsistent DEF Respond
  <2>2. RestOK'
    BY <1>3 DEF Respond, RestOK, daemonVars
  <2> QED BY <2>1, <2>2 DEF Consistent
<1>4. CASE Cancel
  <2>1. srv' \in ServerState /\ Consistent(srv')
    BY <1>4, CancelSessionConsistent DEF Cancel
  <2>2. used' \in UsedType
    BY <1>4, UsedTypes DEF Cancel, RestOK
  <2>3. srv.activeRun # NoRun => srv.activeRun \in Run
    BY <1>0 DEF Token, Run, NoRun
  <2>4. RestOK'
    BY <1>0, <1>4, <2>2, <2>3 DEF Cancel, Withdraw, RestOK, daemonVars
  <2> QED BY <2>1, <2>4 DEF Consistent
<1>5. CASE Delete
  <2>1. CancelSession(srv) \in ServerState /\ Consistent(CancelSession(srv))
    BY CancelSessionConsistent
  <2>2. srv' \in ServerState
    BY <1>5, <2>1, Zenon DEF Delete, ServerState
  <2>3. SameTurn(CancelSession(srv), srv')
    BY <1>5, <2>1, Zenon DEF Delete, ServerState, SameTurn
  <2>4. Consistent(srv')
    BY <2>1, <2>3, SameTurnConsistent
  <2>5. used' \in UsedType
    BY <1>5, UsedTypes DEF Delete, RestOK
  <2>6. srv.activeRun # NoRun => srv.activeRun \in Run
    BY <1>0 DEF Token, Run, NoRun
  <2>7. RestOK'
    BY <1>0, <1>5, <2>5, <2>6 DEF Delete, Withdraw, RestOK, daemonVars
  <2> QED BY <2>2, <2>4, <2>7 DEF Consistent
<1>6. CASE CancelAll
  BY <1>4, <1>6 DEF CancelAll
<1> QED BY <1>1, <1>2, <1>3, <1>4, <1>5, <1>6 DEF User
\* of the server's end of the sockets,
LEMMA ServerIInv ==
  ASSUME IInv, Server
  PROVE  IInv'
<1> USE DEF IInv
<1>1. ASSUME NEW c \in Conn, Deliver(c)
      PROVE  IInv'
  <2>1. /\ srv.lastRun + 2 <= MaxRuns
        /\ up \in [Conn -> Seq(UpMsg)]
        /\ up[c] # <<>>
    BY <1>1 DEF Deliver, RoomFor, RestOK
  <2>2. Head(up[c]) \in UpMsg /\ Tail(up[c]) \in Seq(UpMsg)
    BY <2>1
  <2>3. srv' \in ServerState /\ Consistent(srv')
    BY <1>1, <2>1, <2>2, ReceiveConsistent DEF Deliver
  <2>4. RestOK'
    BY <1>1, <2>1, <2>2 DEF Deliver, RestOK, daemonVars, ghostVars
  <2> QED BY <2>3, <2>4 DEF Consistent
<1>2. ASSUME NEW c \in Conn, SocketEnds(c)
      PROVE  IInv'
  <2>1. [srv.ws EXCEPT ![c] = "closing"]
            \in [Conn -> {"none", "open", "closing", "closed"}]
    BY ServerFields
  <2>2. srv' \in ServerState
    BY <1>2, <2>1, Zenon DEF SocketEnds, ServerState
  <2>3. SameTurn(srv, srv')
    BY <1>2, Zenon DEF SocketEnds, ServerState, SameTurn
  <2>4. RestOK'
    BY <1>2 DEF SocketEnds, RestOK, daemonVars, ghostVars
  <2>5. Consistent(srv')
    BY <2>3, SameTurnConsistent
  <2> QED BY <2>2, <2>4, <2>5 DEF Consistent
<1>3. ASSUME NEW c \in Conn, SocketCloses(c)
      PROVE  IInv'
  <2> DEFINE e == IF srv.entry = c THEN NoConn ELSE srv.entry
             w == [srv.ws EXCEPT ![c] = "closed"]
  <2>1. /\ w \in [Conn -> {"none", "open", "closing", "closed"}]
        /\ e \in 0..MaxConns
    BY BoundsAssumption, ServerFields DEF NoConn
  <2>2. srv' = [srv EXCEPT !.ws = w, !.entry = e]
    BY <1>3, Zenon DEF SocketCloses, ServerState
  <2> HIDE DEF e, w
  <2>3. srv' \in ServerState
    BY <2>1, <2>2, Zenon DEF ServerState
  <2>4. SameTurn(srv, srv')
    BY <2>2, Zenon DEF ServerState, SameTurn
  <2>5. RestOK'
    BY <1>3 DEF SocketCloses, RestOK, daemonVars, ghostVars
  <2>6. Consistent(srv')
    BY <2>4, SameTurnConsistent
  <2> QED BY <2>3, <2>5, <2>6 DEF Consistent
<1> QED BY <1>1, <1>2, <1>3 DEF Server

\* The end of the daemon's socket leaves the session alone.
LEMMA HangUpIInv ==
  ASSUME IInv, HangUp, dconn # NoConn
  PROVE  /\ srv' \in ServerState /\ Consistent(srv')
         /\ dconn' = NoConn
         /\ up' \in [Conn -> Seq(UpMsg)]
<1> USE DEF IInv
<1>1. dconn \in Conn /\ up \in [Conn -> Seq(UpMsg)]
  BY BoundsAssumption DEF RestOK, Conn, NoConn
<1>2. [srv.down EXCEPT ![dconn] = <<>>] \in [Conn -> Seq(DownMsg)]
  BY <1>1, ServerFields
<1>3. srv' \in ServerState
  BY <1>2, Zenon DEF HangUp, ServerState
<1>4. SameTurn(srv, srv')
  BY Zenon DEF HangUp, ServerState, SameTurn
<1>5. Consistent(srv')
  BY <1>4, SameTurnConsistent
<1>6. PICK n \in 0..Len(up[dconn]) :
        up' = [up EXCEPT ![dconn] = SubSeq(up[dconn], 1, n)]
  BY DEF HangUp
<1>7. SubSeq(up[dconn], 1, n) \in Seq(UpMsg)
  BY <1>1
<1>8. up' \in [Conn -> Seq(UpMsg)]
  BY <1>1, <1>6, <1>7
<1> QED BY <1>3, <1>5, <1>8 DEF HangUp

\* of the failures,
LEMMA NetworkIInv ==
  ASSUME IInv, Network
  PROVE  IInv'
<1> USE DEF IInv
<1>0. NoConn \in 0..MaxConns
  BY BoundsAssumption DEF NoConn
<1>1. CASE LinkLost
  <2>1. /\ srv' \in ServerState /\ Consistent(srv') /\ dconn' = NoConn
        /\ up' \in [Conn -> Seq(UpMsg)]
    BY <1>1, HangUpIInv DEF LinkLost
  <2>2. used' \in UsedType
    BY <1>1, UsedTypes DEF LinkLost, RestOK
  <2>3. RestOK'
    BY <1>0, <1>1, <2>1, <2>2 DEF LinkLost, RestOK, daemonVars, ghostVars
  <2> QED BY <2>1, <2>3 DEF Consistent
<1>2. CASE DaemonCrash
  <2>1. /\ srv' \in ServerState /\ Consistent(srv') /\ dconn' = NoConn
        /\ up' \in [Conn -> Seq(UpMsg)]
    BY <1>2, HangUpIInv DEF DaemonCrash
  <2>2. used' \in UsedType
    BY <1>2, UsedTypes DEF DaemonCrash, RestOK
  <2>3. phase' \in [Run -> Phase]
    BY <1>2 DEF DaemonCrash, Phase
  <2>4. RestOK'
    BY <1>0, <1>2, <2>1, <2>2, <2>3 DEF DaemonCrash, RestOK, ghostVars
  <2> QED BY <2>1, <2>4 DEF Consistent
<1>3. CASE Restart
  <2> DEFINE w == [c \in Conn |-> IF c <= nconn THEN "closed" ELSE "none"]
             t == [FreshServer EXCEPT
                     !.token = srv.token, !.lastUser = srv.lastUser,
                     !.lastSaid = srv.lastSaid, !.deleted = srv.deleted,
                     !.lastRun = srv.lastRun, !.promptOf = srv.promptOf,
                     !.replayed = srv.replayed, !.ws = w]
  <2>1. w \in [Conn -> {"none", "open", "closing", "closed"}]
    OBVIOUS
  <2>2. srv' = t
    BY <1>3 DEF Restart
  <2> HIDE DEF w
  <2>3. t \in ServerState
    BY <2>1, FreshServerConsistent, ServerFields, Zenon DEF ServerState
  <2>4. SameTurn(FreshServer, t)
    BY FreshServerConsistent, Zenon DEF ServerState, SameTurn
  <2>5. Consistent(t)
    BY <2>4, FreshServerConsistent, SameTurnConsistent
  <2>6. used' \in UsedType
    BY <1>3, UsedTypes DEF Restart, RestOK
  <2>7. up' \in [Conn -> Seq(UpMsg)]
    BY <1>3 DEF Restart
  <2>8. RestOK'
    BY <1>3, <2>6, <2>7 DEF Restart, RestOK, daemonVars, ghostVars
  <2> QED BY <2>2, <2>3, <2>5, <2>8 DEF Consistent
<1> QED BY <1>1, <1>2, <1>3 DEF Network
\* What the daemon sends is mail to the server.
LEMMA SentOnType ==
  ASSUME IInv, NEW c \in 0..MaxConns, NEW m \in UpMsg
  PROVE  SentOn(c, m) \in [Conn -> Seq(UpMsg)]
<1>1. up \in [Conn -> Seq(UpMsg)]
  BY DEF IInv, RestOK
<1>2. CASE c \in Conn
  <2>1. Append(up[c], m) \in Seq(UpMsg)
    BY <1>1, <1>2
  <2> QED BY <1>1, <2>1 DEF SentOn
<1>3. CASE c \notin Conn
  <2>1. [up EXCEPT ![c] = Append(@, m)] = up
    BY <1>1, <1>3
  <2> QED BY <1>1, <2>1 DEF SentOn
<1> QED BY <1>2, <1>3

\* The daemon's messages have their types.
LEMMA UpMsgs ==
  ASSUME NEW r \in Run, NEW auth \in BOOLEAN, NEW t \in Token, NEW e \in Error
  PROVE  /\ Say(r, auth) \in UpMsg /\ Ask(r) \in UpMsg /\ Done(r, t, e) \in UpMsg
         /\ Hello \in UpMsg
BY DEF UpMsg, Say, Ask, Done, Hello

\* However it ends, a run reports its end with a token and an error.
LEMMA ResultsType ==
  ASSUME NEW r \in Run, resumeOf[r] \in Token
  PROVE  Results(r) \subseteq UpMsg
<1>1. r \in Token /\ NoRun \in Token
  BY BoundsAssumption DEF Run, Token, NoRun
<1>2. {"none", "fail"} \subseteq Error /\ Outcomes \subseteq Error
  BY BoundsAssumption DEF Error
<1>3. Reported(r) \cup {NoRun} \subseteq Token
  BY <1>1 DEF Reported
<1>4. \A t \in Token, e \in Error : Done(r, t, e) \in UpMsg
  BY DEF Done, UpMsg
<1>5. ClaudeResults(r) \subseteq UpMsg
  BY <1>1, <1>2, <1>3, <1>4 DEF ClaudeResults
<1>6. CodexResults(r) \subseteq UpMsg
  BY <1>1, <1>2, <1>4 DEF CodexResults
<1> QED BY <1>5, <1>6 DEF Results

\* and of the daemon and its runs;
LEMMA DaemonIInv ==
  ASSUME IInv, Daemon
  PROVE  IInv'
<1> USE DEF IInv
<1>0. /\ NoConn \in 0..MaxConns /\ NoRun \in Token
      /\ "none" \in Error /\ "fail" \in Error /\ "auth" \in Error /\ "stale" \in Error
  BY BoundsAssumption DEF NoConn, NoRun, Token, Error
<1>1. CASE Dial
  <2>1. nconn + 1 \in Conn /\ nconn + 1 \in 0..MaxConns
    BY <1>1, BoundsAssumption DEF Dial, RestOK, Conn
  <2>2. [srv.ws EXCEPT ![nconn + 1] = "open"]
            \in [Conn -> {"none", "open", "closing", "closed"}]
    BY ServerFields
  <2>3. srv' \in ServerState
    BY <1>1, <2>2, Zenon DEF Dial, ServerState
  <2>4. SameTurn(srv, srv')
    BY <1>1, Zenon DEF Dial, ServerState, SameTurn
  <2>5. Consistent(srv')
    BY <2>4, SameTurnConsistent
  <2>6. Hello \in UpMsg
    BY DEF Hello, UpMsg
  <2>7. RestOK'
    BY <1>1, <2>1, <2>6 DEF Dial, RestOK, daemonVars, ghostVars
  <2> QED BY <2>3, <2>5, <2>7 DEF Consistent
<1>2. CASE ServerGone
  <2>1. /\ srv' \in ServerState /\ Consistent(srv') /\ dconn' = NoConn
        /\ up' \in [Conn -> Seq(UpMsg)]
    BY <1>2, HangUpIInv DEF ServerGone
  <2>2. RestOK'
    BY <1>0, <1>2, <2>1 DEF ServerGone, RestOK, daemonVars, ghostVars
  <2> QED BY <2>1, <2>2 DEF Consistent
<1>3. CASE DaemonReceive
  <2> DEFINE m == Head(srv.down[dconn])
  <2>1. /\ dconn \in Conn
        /\ srv.down \in [Conn -> Seq(DownMsg)] /\ srv.down[dconn] # <<>>
    BY <1>3, BoundsAssumption, ServerFields DEF DaemonReceive, RestOK, Conn, NoConn
  <2>2. m \in DownMsg /\ Tail(srv.down[dconn]) \in Seq(DownMsg)
    BY <2>1
  <2>3. [srv.down EXCEPT ![dconn] = Tail(@)] \in [Conn -> Seq(DownMsg)]
    BY <2>1, <2>2
  <2>4. srv' = [srv EXCEPT !.down[dconn] = Tail(@)]
    BY <1>3 DEF DaemonReceive
  <2>5. srv' \in ServerState
    BY <2>3, <2>4, Zenon DEF ServerState
  <2>6. SameTurn(srv, srv')
    BY <2>4, Zenon DEF ServerState, SameTurn
  <2>7. Consistent(srv')
    BY <2>6, SameTurnConsistent
  <2>8. CASE m.type = "run" /\ StartRun(m)
    <3>1. m.run \in Run /\ m.resume \in Token
      BY <2>2, <2>8 DEF DownMsg
    <3>2. Done(m.run, NoRun, "fail") \in UpMsg
      BY <1>0, <3>1, UpMsgs
    <3>3. SentOn(dconn, Done(m.run, NoRun, "fail")) \in [Conn -> Seq(UpMsg)]
      BY <3>2, SentOnType DEF RestOK
    <3>4. up' \in [Conn -> Seq(UpMsg)]
      BY <2>8, <3>3 DEF StartRun, RestOK
    <3>5. phase' \in [Run -> Phase] /\ via' \in [Run -> 0..MaxConns]
          /\ resumeOf' \in [Run -> Token]
      BY <2>8, <3>1 DEF StartRun, RestOK, Phase
    <3> HIDE DEF m
    <3>6. RestOK'
      BY <1>3, <2>8, <3>4, <3>5 DEF StartRun, DaemonReceive, RestOK
    <3> QED BY <2>5, <2>7, <3>6 DEF Consistent
  <2>9. CASE m.type = "cancel" /\ StopRun(m)
    <3>1. m.run \in Run
      BY <2>2, <2>9 DEF DownMsg
    <3>2. RestOK'
      BY <1>3, <2>9, <3>1 DEF StopRun, DaemonReceive, RestOK
    <3> QED BY <2>5, <2>7, <3>2 DEF Consistent
  <2>10. CASE m.type = "answer" /\ AnswerRun(m)
    <3>1. m.runs \in SUBSET Run
      BY <2>2, <2>10 DEF DownMsg
    <3>2. phase' \in [Run -> Phase] /\ granted' \in SUBSET Run
      BY <2>10, <3>1 DEF AnswerRun, RestOK, Phase
    <3>3. RestOK'
      BY <1>3, <2>10, <3>2 DEF AnswerRun, DaemonReceive, RestOK
    <3> QED BY <2>5, <2>7, <3>3 DEF Consistent
  <2> QED BY <1>3, <2>8, <2>9, <2>10 DEF DaemonReceive
<1>4. ASSUME NEW r \in Run, NEW auth \in BOOLEAN, Speak(r, auth)
      PROVE  IInv'
  <2>1. via[r] \in 0..MaxConns /\ Say(r, auth) \in UpMsg
    BY <1>0, UpMsgs DEF RestOK
  <2>2. up' \in [Conn -> Seq(UpMsg)]
    BY <1>4, <2>1, SentOnType DEF Speak
  <2>3. used' \in UsedType
    BY <1>4, UsedTypes DEF Speak, RestOK
  <2>4. RestOK'
    BY <1>4, <2>2, <2>3 DEF Speak, RestOK, ghostVars
  <2> QED BY <1>4, <2>4 DEF Speak, Consistent
<1>5. ASSUME NEW r \in Run, AskTool(r)
      PROVE  IInv'
  <2>1. via[r] \in 0..MaxConns /\ Ask(r) \in UpMsg
    BY <1>0, UpMsgs DEF RestOK
  <2>2. up' \in [Conn -> Seq(UpMsg)]
    BY <1>5, <2>1, SentOnType DEF AskTool
  <2>3. used' \in UsedType
    BY <1>5, UsedTypes DEF AskTool, RestOK
  <2>4. phase' \in [Run -> Phase]
    BY <1>5 DEF AskTool, RestOK, Phase
  <2>5. RestOK'
    BY <1>5, <2>2, <2>3, <2>4 DEF AskTool, RestOK, ghostVars
  <2> QED BY <1>5, <2>5 DEF AskTool, Consistent
<1>6. ASSUME NEW r \in Run, EndRun(r)
      PROVE  IInv'
  <2>0. r \in Token
    BY BoundsAssumption DEF Run, Token
  <2>1. via[r] \in 0..MaxConns /\ resumeOf[r] \in Token /\ r \in Token
    BY <2>0 DEF RestOK
  <2>2. Results(r) \subseteq UpMsg
    BY <2>1, ResultsType DEF RestOK
  <2>3. up' \in [Conn -> Seq(UpMsg)]
    BY <1>6, <2>1, <2>2, SentOnType DEF EndRun
  <2>4. phase' \in [Run -> Phase]
    BY <1>6 DEF EndRun, RestOK, Phase
  <2>5. RestOK'
    BY <1>6, <2>3, <2>4 DEF EndRun, RestOK, ghostVars
  <2> QED BY <1>6, <2>5 DEF EndRun, Consistent
<1> QED BY <1>1, <1>2, <1>3, <1>4, <1>5, <1>6 DEF Daemon

\* therefore always.
LEMMA SpecIInv == Spec => []IInv
<1>1. IInv /\ [Next]_vars => IInv'
  <2> SUFFICES ASSUME IInv, [Next]_vars PROVE IInv'
    OBVIOUS
  <2>1. CASE Next
    BY <2>1, UserIInv, NetworkIInv, ServerIInv, DaemonIInv DEF Next
  <2>2. CASE UNCHANGED vars
    BY <2>2 DEF vars, daemonVars, ghostVars, IInv, RestOK, Consistent
  <2> QED BY <2>1, <2>2
<1> QED BY <1>1, InitIInv, PTL DEF Spec

\* The model is typed: no handler of the server, in any order of prompts, errors,
\* retries, failures and restarts, puts a value of the wrong kind in its state;
\* among them, an empty prompt in the queue or a run without a prompt.
THEOREM TypeCorrect == Spec => []TypeOK
BY SpecIInv, IInvTypeOK, PTL

\* Session and RemoteRunner agree about the turn in progress: for every number of
\* prompts, runs, sockets, failures and restarts, and every outcome of a run, busy,
\* activeRun, inFlight and the listener stand or fall together between two events.
THEOREM RunnersAgree == Spec => []BusyMeansListening
<1>1. IInv => BusyMeansListening
  BY DEF IInv, Consistent, BusyMeansListening
<1> QED BY <1>1, SpecIInv, PTL

\* No prompt is stranded: what waits in the queue waits for a turn in progress,
\* whose onDone drains it.
THEOREM NoneStranded == Spec => []NoStrandedPrompt
<1>1. IInv => NoStrandedPrompt
  BY DEF IInv, Consistent, NoStrandedPrompt
<1> QED BY <1>1, SpecIInv, PTL

\* The status that the browsers show is that of the turn.
THEOREM StatusTrue == Spec => []StatusTracksTurn
<1>1. IInv => StatusTracksTurn
  BY DEF IInv, Consistent, StatusTracksTurn
<1> QED BY <1>1, SpecIInv, PTL

-----------------------------------------------------------------------------
(* Consent.  An answer that allows a run is on its way to the daemon only  *)
(* if the user gave it: every method but ResolvePermission keeps the mail  *)
(* free of others.                                                         *)

\* The messages that let no run outside A use its tool.
Safe(A) == {m \in DownMsg : m.type = "answer" /\ m.allow => m.runs \subseteq A}

Mail(s, A) == s.down \in [Conn -> Seq(Safe(A))]

\* A safe message keeps the mail safe.
LEMMA SendMail ==
  ASSUME NEW s \in ServerState, NEW A, Mail(s, A), NEW m \in Safe(A)
  PROVE  Mail(SendToDevice(s, m), A)
<1>1. CASE ~Online(s)
  BY <1>1 DEF SendToDevice
<1>2. CASE Online(s)
  <2>1. s.entry \in Conn /\ s.down \in [Conn -> Seq(Safe(A))]
    BY <1>2, BoundsAssumption, ServerFields DEF Online, NoConn, Conn, Mail
  <2>2. Append(s.down[s.entry], m) \in Seq(Safe(A))
    BY <2>1
  <2>3. [s.down EXCEPT ![s.entry] = Append(@, m)] \in [Conn -> Seq(Safe(A))]
    BY <2>1, <2>2
  <2>4. SendToDevice(s, m).down = [s.down EXCEPT ![s.entry] = Append(@, m)]
    BY <1>2, Zenon DEF SendToDevice, ServerState
  <2> QED BY <2>3, <2>4 DEF Mail
<1> QED BY <1>1, <1>2

\* Methods that send nothing.
LEMMA DownKept ==
  ASSUME NEW s \in ServerState
  PROVE  /\ Cleanup(s).down = s.down
         /\ RecordMessage(s).down = s.down
         /\ EmitAuthRequired(s).down = s.down
         /\ \A st : SetStatus(s, st).down = s.down
         /\ \A t : OnResumeToken(s, t).down = s.down
         /\ \A r : AskPermission(s, r).down = s.down
         /\ \A c : Register(s, c).down = s.down
BY Zenon DEF Cleanup, RecordMessage, EmitAuthRequired, SetStatus,
             OnResumeToken, AskPermission, Register, ServerState

\* A prompt lets no run use a tool.
LEMMA RunPromptSafe ==
  ASSUME NEW r \in Run, NEW p \in Prompt, NEW t \in Token, NEW A
  PROVE  RunPrompt(r, p, t) \in Safe(A)
BY DEF RunPrompt, Safe, DownMsg

\* Each method that may send keeps the mail safe, for any set A.
LEMMA StartMail ==
  ASSUME NEW s \in ServerState, s.queue # <<>>, s.lastRun < MaxRuns,
         NEW A, Mail(s, A)
  PROVE  Mail(Start(s), A)
<1> DEFINE r == s.lastRun + 1
           p == Head(s.queue)
           q == Tail(s.queue)
           f == [s.promptOf EXCEPT ![r] = p]
           b == s.subs \cup {r}
           t == [s EXCEPT !.queue = q, !.busy = TRUE, !.status = "running",
                          !.inFlight = p, !.promptOf = f, !.lastRun = r,
                          !.activeRun = r, !.unsub = r, !.subs = b]
<1>0. s.lastRun \in Token /\ s.queue \in Seq(Prompt) /\ s.token \in Token
  BY ServerFields
<1>1. p \in Prompt /\ q \in Seq(Prompt)
  BY <1>0
<1>2. r \in Run /\ r \in Token /\ p \in 0..MaxPrompts /\ "running" \in Status
  <2>1. MaxRuns \in Nat /\ MaxPrompts \in Nat
    BY BoundsAssumption
  <2> HIDE DEF p
  <2> QED BY <1>0, <1>1, <2>1 DEF Run, Token, Prompt, Status
<1>3. f \in [Run -> 0..MaxPrompts] /\ b \in SUBSET Run
  BY <1>2, ServerFields
<1>4. Start(s) = SendToDevice(t, RunPrompt(r, p, s.token))
  BY Zenon DEF Start, ServerState
<1>5. RunPrompt(r, p, s.token) \in Safe(A)
  BY <1>0, <1>1, <1>2, RunPromptSafe
<1> HIDE DEF r, p, q, f, b
<1>6. t \in ServerState /\ t.down = s.down
  BY <1>1, <1>2, <1>3, Zenon DEF ServerState
<1> QED BY <1>4, <1>5, <1>6, SendMail DEF Mail

LEMMA FailAllMail ==
  ASSUME NEW s \in ServerState
  PROVE  FailAll(s).down = s.down
BY Zenon DEF FailAll, RecordMessage, ServerState

LEMMA DrainQueueMail ==
  ASSUME NEW s \in ServerState, s.lastRun < MaxRuns, NEW A, Mail(s, A)
  PROVE  Mail(DrainQueue(s), A)
BY StartMail, FailAllMail DEF DrainQueue, Mail

LEMMA OnDoneMail ==
  ASSUME NEW s \in ServerState, s.lastRun < MaxRuns, NEW A, Mail(s, A)
  PROVE  Mail(OnDone(s), A)
<1> DEFINE st == IF s.status = "error" THEN s.status ELSE "idle"
           t == [s EXCEPT !.status = st, !.busy = FALSE, !.cancelling = FALSE,
                          !.inFlight = NoPrompt]
<1>1. st \in Status /\ NoPrompt \in 0..MaxPrompts
  BY BoundsAssumption DEF Status, NoPrompt
<1>2. OnDone(s) = DrainQueue(t)
  BY DEF OnDone
<1> HIDE DEF st
<1>3. t \in ServerState /\ t.down = s.down /\ t.lastRun = s.lastRun
  BY <1>1, Zenon DEF ServerState
<1> QED BY <1>2, <1>3, DrainQueueMail DEF Mail
LEMMA OnErrorMail ==
  ASSUME NEW s \in ServerState, s.lastRun < MaxRuns, NEW e, NEW A, Mail(s, A)
  PROVE  Mail(OnError(s, e), A)
<1>1. NoRun \in Token /\ NoPrompt \in 0..MaxPrompts /\ "error" \in Status
  BY BoundsAssumption DEF Token, NoRun, NoPrompt, Status
<1>2. ASSUME NEW t \in ServerState
      PROVE  /\ SetStatus(t, "error") \in ServerState
             /\ SetStatus(t, "error").down = t.down
             /\ RecordMessage(t).down = t.down
  BY <1>1, Zenon DEF ServerState, SetStatus, RecordMessage
<1>3. /\ EmitAuthRequired(s) \in ServerState
      /\ EmitAuthRequired(s).down = s.down
  BY <1>1, Zenon DEF ServerState, EmitAuthRequired
<1>4. ASSUME s.inFlight # NoPrompt
      PROVE  Mail(ReplayFresh(s), A)
  <2> DEFINE q == <<s.inFlight>> \o s.queue
             b == s.replayed \cup {s.inFlight}
             t == [s EXCEPT !.retried = TRUE, !.token = NoRun, !.busy = FALSE,
                            !.queue = q, !.inFlight = NoPrompt, !.replayed = b]
             u == RecordMessage(t)
  <2>1. s.inFlight \in Prompt
    BY <1>4, BoundsAssumption, ServerFields DEF Prompt, NoPrompt
  <2>2. q \in Seq(Prompt) /\ b \in SUBSET Prompt
    BY <2>1, ServerFields
  <2>3. ReplayFresh(s) = DrainQueue(u)
    BY DEF ReplayFresh
  <2> HIDE DEF q, b
  <2>4. t \in ServerState /\ t.lastRun = s.lastRun /\ t.down = s.down
    BY <1>1, <2>2, Zenon DEF ServerState
  <2> HIDE DEF t
  <2>5. u \in ServerState
    BY <2>4, RecordMessageType
  <2>6. u.lastRun = s.lastRun /\ u.down = s.down
    BY <2>4, Zenon DEF RecordMessage, ServerState
  <2> HIDE DEF u
  <2> QED BY <2>3, <2>5, <2>6, DrainQueueMail DEF Mail
<1>5. CASE OnError(s, e) = RecordMessage(s)
  BY <1>2, <1>5 DEF Mail
<1>6. CASE OnError(s, e) = RecordMessage(SetStatus(EmitAuthRequired(s), "error"))
  BY <1>2, <1>3, <1>6 DEF Mail
<1>7. CASE OnError(s, e) = RecordMessage(SetStatus(s, "error"))
  BY <1>2, <1>7 DEF Mail
<1>8. CASE s.inFlight # NoPrompt /\ OnError(s, e) = ReplayFresh(s)
  BY <1>4, <1>8
<1> QED BY <1>5, <1>6, <1>7, <1>8 DEF OnError

LEMMA OnDaemonDoneMail ==
  ASSUME NEW s \in ServerState, s.lastRun + 2 <= MaxRuns,
         NEW m, m.token \in Token, NEW A, Mail(s, A)
  PROVE  Mail(OnDaemonDone(s, m), A)
<1> DEFINE t == IF m.token = NoRun THEN s ELSE OnResumeToken(s, m.token)
           e == IF m.error = "none" THEN t ELSE OnError(t, m.error)
<1>1. s.lastRun \in Nat /\ MaxRuns \in Nat
  BY BoundsAssumption, ServerFields DEF Token
<1>2. /\ OnResumeToken(s, m.token) \in ServerState
      /\ OnResumeToken(s, m.token).lastRun = s.lastRun
      /\ OnResumeToken(s, m.token).down = s.down
  BY Zenon DEF ServerState, OnResumeToken
<1>3. t \in ServerState /\ t.lastRun = s.lastRun /\ Mail(t, A)
  BY <1>2 DEF Mail
<1>4. OnDaemonDone(s, m) = OnDone(Cleanup(e))
  BY DEF OnDaemonDone
<1> HIDE DEF t
<1>5. e \in ServerState /\ e.lastRun \in {s.lastRun, s.lastRun + 1}
  BY <1>1, <1>3, OnErrorType
<1>6. Mail(e, A)
  BY <1>1, <1>3, OnErrorMail
<1> HIDE DEF e
<1>7. Cleanup(e) \in ServerState /\ Cleanup(e).lastRun < MaxRuns
  BY <1>1, <1>5, CleanupType
<1>8. Mail(Cleanup(e), A)
  BY <1>5, <1>6, DownKept DEF Mail
<1> QED BY <1>4, <1>7, <1>8, OnDoneMail

LEMMA OnMessageMail ==
  ASSUME NEW s \in ServerState, NEW m
  PROVE  OnMessage(s, m).down = s.down
BY Zenon DEF OnMessage, EmitAuthRequired, RecordMessage, ServerState

LEMMA ReceiveMail ==
  ASSUME NEW s \in ServerState, s.lastRun + 2 <= MaxRuns,
         NEW c \in Conn, NEW m \in UpMsg, NEW A, Mail(s, A)
  PROVE  Mail(Receive(s, c, m), A)
<1>1. CASE m.type = "hello"
  BY <1>1, DownKept DEF Receive, Mail
<1>2. CASE m.type # "hello" /\ ~Heard(s, m.run)
  BY <1>2 DEF Receive, HandleDaemonMessage
<1>3. CASE m.type = "say" /\ Heard(s, m.run)
  BY <1>3, OnMessageMail DEF Receive, HandleDaemonMessage, Mail
<1>4. CASE m.type = "ask" /\ Heard(s, m.run)
  BY <1>4, DownKept DEF Receive, HandleDaemonMessage, Mail
<1>5. CASE m.type = "done" /\ Heard(s, m.run)
  <2>1. m.token \in Token
    BY <1>5 DEF UpMsg
  <2> QED BY <1>5, <2>1, OnDaemonDoneMail DEF Receive, HandleDaemonMessage
<1>6. m.type \in {"hello", "say", "ask", "done"}
  BY DEF UpMsg
<1> QED BY <1>1, <1>2, <1>3, <1>4, <1>5, <1>6

LEMMA EnqueuePromptMail ==
  ASSUME NEW s \in ServerState, s.lastRun < MaxRuns, NEW p \in Prompt,
         NEW A, Mail(s, A)
  PROVE  Mail(EnqueuePrompt(s, p), A)
<1> DEFINE q == Append(s.queue, p)
           t == [s EXCEPT !.alerted = FALSE, !.lastUser = p, !.queue = q]
           u == RecordMessage(t)
<1>1. q \in Seq(Prompt) /\ p \in 0..MaxPrompts
  BY BoundsAssumption, ServerFields DEF Prompt
<1>2. EnqueuePrompt(s, p) = DrainQueue(u)
  BY DEF EnqueuePrompt
<1> HIDE DEF q
<1>3. t \in ServerState /\ t.lastRun = s.lastRun /\ t.down = s.down
  BY <1>1, Zenon DEF ServerState
<1> HIDE DEF t
<1>4. u \in ServerState
  BY <1>3, RecordMessageType
<1>5. u.lastRun = s.lastRun /\ u.down = s.down
  BY <1>3, Zenon DEF ServerState, RecordMessage
<1> HIDE DEF u
<1> QED BY <1>2, <1>4, <1>5, DrainQueueMail DEF Mail

LEMMA RetryMail ==
  ASSUME NEW s \in ServerState, s.lastRun < MaxRuns, s.lastUser # NoPrompt,
         NEW A, Mail(s, A)
  PROVE  Mail(RetryLastUserPrompt(s), A)
<1> DEFINE q == <<s.lastUser>> \o s.queue
           t == [s EXCEPT !.alerted = FALSE, !.queue = q]
<1>1. s.lastUser \in Prompt
  BY BoundsAssumption, ServerFields DEF Prompt, NoPrompt
<1>2. q \in Seq(Prompt)
  BY <1>1, ServerFields
<1>3. RetryLastUserPrompt(s) = DrainQueue(t)
  BY DEF RetryLastUserPrompt
<1> HIDE DEF q
<1>4. t \in ServerState /\ t.lastRun = s.lastRun /\ t.down = s.down
  BY <1>2, Zenon DEF ServerState
<1> HIDE DEF t
<1> QED BY <1>3, <1>4, DrainQueueMail DEF Mail

\* The user's answer reaches the daemon's mail as she gave it.
LEMMA ResolvePermissionMail ==
  ASSUME NEW s \in ServerState, NEW r \in Run, NEW allow \in BOOLEAN,
         NEW A, Mail(s, A), allow => r \in A
  PROVE  Mail(ResolvePermission(s, r, allow), A)
<1> DEFINE left == s.pending \ {r}
           u == [s EXCEPT !.pending = left]
           t == SendToDevice(u, Answer({r}, allow))
<1>1. left \in SUBSET Run
  BY ServerFields
<1>2. ResolvePermission(s, r, allow) =
        IF left = {} /\ s.status = "awaiting_permission"
        THEN SetStatus(t, "running") ELSE t
  BY DEF ResolvePermission
<1> HIDE DEF left
<1>3. u \in ServerState /\ u.down = s.down
  BY <1>1, Zenon DEF ServerState
<1>4. Answer({r}, allow) \in DownMsg /\ Answer({r}, allow) \in Safe(A)
  BY DEF Answer, DownMsg, Safe
<1> HIDE DEF u
<1>5. t \in ServerState /\ Mail(t, A)
  BY <1>3, <1>4, SendType, SendMail DEF Mail
<1> HIDE DEF t
<1> QED BY <1>2, <1>5, DownKept DEF Mail

LEMMA CancelSessionMail ==
  ASSUME NEW s \in ServerState, NEW A, Mail(s, A)
  PROVE  Mail(CancelSession(s), A)
<1> DEFINE told   == IF s.activeRun = NoRun THEN s
                     ELSE SendToDevice(s, CancelRun(s.activeRun))
           denied == IF s.pending = {} THEN told
                     ELSE SendToDevice(told, Answer(s.pending, FALSE))
<1>1. s.activeRun # NoRun => /\ CancelRun(s.activeRun) \in DownMsg
                             /\ CancelRun(s.activeRun) \in Safe(A)
  BY BoundsAssumption, ServerFields DEF CancelRun, DownMsg, Token, Run, NoRun, Safe
<1>2. /\ Answer(s.pending, FALSE) \in DownMsg
      /\ Answer(s.pending, FALSE) \in Safe(A)
  BY ServerFields DEF Answer, DownMsg, Safe
<1>3. told \in ServerState /\ Mail(told, A)
  BY <1>1, SendType, SendMail
<1>4. CancelSession(s)
        = [denied EXCEPT !.cancelling = TRUE, !.pending = {}, !.queue = <<>>]
  BY DEF CancelSession
<1> HIDE DEF told
<1>5. denied \in ServerState /\ Mail(denied, A)
  BY <1>2, <1>3, SendType, SendMail
<1> HIDE DEF denied
<1>6. CancelSession(s).down = denied.down
  BY <1>4, <1>5, Zenon DEF ServerState
<1> QED BY <1>5, <1>6 DEF Mail
\* What is safe for some runs is safe for more of them.
LEMMA MailMonotone ==
  ASSUME NEW s, NEW A, NEW B, A \subseteq B, Mail(s, A)
  PROVE  Mail(s, B)
<1>1. Safe(A) \subseteq Safe(B)
  BY DEF Safe
<1>2. Seq(Safe(A)) \subseteq Seq(Safe(B))
  BY <1>1
<1> QED BY <1>2 DEF Mail

Consent == Mail(srv, allowed) /\ granted \subseteq allowed

\* Nothing is granted, allowed or on its way at the start.
LEMMA InitConsent == Init => Consent
<1> SUFFICES ASSUME Init PROVE Consent
  OBVIOUS
<1>1. srv.down = [c \in Conn |-> <<>>]
  BY DEF Init, FreshServer
<1>2. \A A : <<>> \in Seq(Safe(A))
  OBVIOUS
<1> QED BY <1>1, <1>2 DEF Init, Consent, Mail

\* A lost link drops answers and adds none.
LEMMA HangUpConsent ==
  ASSUME IInv, Consent, HangUp
  PROVE  Mail(srv', allowed)
<1>1. srv.down \in [Conn -> Seq(Safe(allowed))]
  BY DEF Consent, Mail
<1>2. [srv.down EXCEPT ![dconn] = <<>>] \in [Conn -> Seq(Safe(allowed))]
  <2>1. <<>> \in Seq(Safe(allowed))
    OBVIOUS
  <2> HIDE DEF Conn
  <2> QED BY <1>1, <2>1, Zenon
<1>3. srv \in ServerState /\ srv' = [srv EXCEPT !.down[dconn] = <<>>]
  BY DEF HangUp, IInv
<1>4. srv'.down = [srv.down EXCEPT ![dconn] = <<>>]
  BY <1>3, Zenon DEF ServerState
<1> QED BY <1>2, <1>4 DEF Mail

\* No step lets a run use its tool without the user's consent.
LEMMA NextConsent ==
  ASSUME IInv, Consent, Next
  PROVE  Consent'
<1> USE DEF IInv
<1>0. /\ MaxRuns \in Nat /\ srv.lastRun \in Token
      /\ srv.lastUser \in 0..MaxPrompts /\ MaxPrompts \in Nat
  BY BoundsAssumption, ServerFields
<1>r. used.retries \in Nat
  BY BoundsAssumption DEF RestOK, UsedType
<1>1. CASE SendPrompt
  <2>1. srv.lastUser + 1 \in Prompt /\ srv.lastRun < MaxRuns
    BY <1>0, <1>r, <1>1 DEF SendPrompt, RoomFor, Prompt, Token
  <2>2. Mail(srv', allowed)
    BY <1>1, <2>1, EnqueuePromptMail DEF SendPrompt, Consent
  <2> QED BY <1>1, <2>2 DEF SendPrompt, Consent, ghostVars, Mail
<1>2. CASE RetryLast
  <2>1. srv.lastRun < MaxRuns /\ srv.lastUser # NoPrompt
    BY <1>0, <1>2 DEF RetryLast, RoomFor, Token
  <2>2. Mail(srv', allowed)
    BY <1>2, <2>1, RetryMail DEF RetryLast, Consent
  <2> QED BY <1>2, <2>2 DEF RetryLast, Consent, Mail
<1>3. ASSUME NEW r \in Run, NEW allow \in BOOLEAN, Respond(r, allow)
      PROVE  Consent'
  <2>1. allowed \subseteq allowed' /\ (allow => r \in allowed')
    BY <1>3 DEF Respond
  <2>2. Mail(srv, allowed')
    BY <2>1, MailMonotone DEF Consent
  <2>3. Mail(srv', allowed')
    BY <1>3, <2>1, <2>2, ResolvePermissionMail DEF Respond
  <2> QED BY <1>3, <2>1, <2>3 DEF Respond, Consent, Mail
<1>4. CASE Cancel
  <2>1. Mail(srv', allowed)
    BY <1>4, CancelSessionMail DEF Cancel, Consent
  <2> QED BY <1>4, <2>1 DEF Cancel, Consent, Mail
<1>5. CASE Delete
  <2>1. CancelSession(srv) \in ServerState
    BY CancelSessionConsistent
  <2>2. srv'.down = CancelSession(srv).down
    BY <1>5, <2>1, Zenon DEF Delete, ServerState
  <2>3. Mail(srv', allowed)
    BY <2>2, CancelSessionMail DEF Consent, Mail
  <2> QED BY <1>5, <2>3 DEF Delete, Consent, Mail
<1>6. CASE LinkLost
  <2>1. Mail(srv', allowed)
    BY <1>6, HangUpConsent DEF LinkLost
  <2> QED BY <1>6, <2>1 DEF LinkLost, ghostVars, Consent, Mail
<1>7. CASE DaemonCrash
  <2>1. Mail(srv', allowed)
    BY <1>7, HangUpConsent DEF DaemonCrash
  <2> QED BY <1>7, <2>1 DEF DaemonCrash, ghostVars, Consent, Mail
<1>8. CASE Restart
  <2>0. srv'.down = FreshServer.down
    BY <1>8, FreshServerConsistent, Zenon DEF Restart, ServerState
  <2>1. srv'.down = [c \in Conn |-> <<>>]
    BY <2>0 DEF FreshServer
  <2>2. <<>> \in Seq(Safe(allowed))
    OBVIOUS
  <2>3. Mail(srv', allowed)
    BY <2>1, <2>2 DEF Mail
  <2> QED BY <1>8, <2>3 DEF Restart, ghostVars, Consent, Mail
<1>9. ASSUME NEW c \in Conn, Deliver(c)
      PROVE  Consent'
  <2>1. /\ srv.lastRun + 2 <= MaxRuns
        /\ up \in [Conn -> Seq(UpMsg)] /\ up[c] # <<>>
    BY <1>9 DEF Deliver, RoomFor, RestOK
  <2>2. Head(up[c]) \in UpMsg
    BY <2>1
  <2>3. Mail(srv', allowed)
    BY <1>9, <2>1, <2>2, ReceiveMail DEF Deliver, Consent
  <2> QED BY <1>9, <2>3 DEF Deliver, ghostVars, Consent, Mail
<1>10. ASSUME NEW c \in Conn, SocketEnds(c) \/ SocketCloses(c)
       PROVE  Consent'
  <2>1. srv'.down = srv.down
    BY <1>10, Zenon DEF SocketEnds, SocketCloses, ServerState
  <2> QED BY <1>10, <2>1 DEF SocketEnds, SocketCloses, ghostVars, Consent, Mail
<1>11. CASE Dial
  <2>1. srv'.down = srv.down
    BY <1>11, Zenon DEF Dial, ServerState
  <2> QED BY <1>11, <2>1 DEF Dial, ghostVars, Consent, Mail
<1>12. CASE ServerGone
  <2>1. Mail(srv', allowed)
    BY <1>12, HangUpConsent DEF ServerGone
  <2> QED BY <1>12, <2>1 DEF ServerGone, ghostVars, Consent, Mail
<1>13. CASE DaemonReceive
  <2> DEFINE m == Head(srv.down[dconn])
  <2>1. /\ dconn \in Conn
        /\ srv.down \in [Conn -> Seq(Safe(allowed))] /\ srv.down[dconn] # <<>>
    BY <1>13, BoundsAssumption DEF DaemonReceive, RestOK, Conn, NoConn, Consent, Mail
  <2>2. m \in Safe(allowed) /\ Tail(srv.down[dconn]) \in Seq(Safe(allowed))
    BY <2>1
  <2>3. [srv.down EXCEPT ![dconn] = Tail(@)] \in [Conn -> Seq(Safe(allowed))]
    BY <2>1, <2>2
  <2>4. srv'.down = [srv.down EXCEPT ![dconn] = Tail(@)]
    BY <1>13, Zenon DEF DaemonReceive, ServerState
  <2>5. Mail(srv', allowed)
    BY <2>3, <2>4 DEF Mail
  <2>6. granted' \subseteq allowed
    <3>1. CASE granted' = granted
      BY <3>1 DEF Consent
    <3>2. CASE m.type = "answer" /\ AnswerRun(m)
      BY <2>2, <3>2 DEF AnswerRun, Safe, Consent
    <3> QED BY <1>13, <3>1, <3>2 DEF DaemonReceive, StartRun, StopRun
  <2> QED BY <1>13, <2>5, <2>6 DEF DaemonReceive, Consent, Mail
<1>14. ASSUME NEW r \in Run,
              (\E auth \in BOOLEAN : Speak(r, auth)) \/ AskTool(r) \/ EndRun(r)
       PROVE  Consent'
  BY <1>14 DEF Speak, AskTool, EndRun, ghostVars, Consent, Mail
<1>15. CASE CancelAll
  BY <1>4, <1>15 DEF CancelAll
<1>16. CASE User
  BY <1>1, <1>2, <1>3, <1>4, <1>5, <1>15, <1>16 DEF User
<1>17. CASE Network
  BY <1>6, <1>7, <1>8, <1>17 DEF Network
<1>18. CASE Server
  BY <1>9, <1>10, <1>18 DEF Server
<1>19. CASE Daemon
  BY <1>11, <1>12, <1>13, <1>14, <1>19 DEF Daemon
<1> QED BY <1>16, <1>17, <1>18, <1>19 DEF Next

\* The daemon lets no agent use a tool unless the user allowed that request,
\* through cancels, deletions, lost links, crashes and restarts.
THEOREM ToolsNeedConsent == Spec => []NoToolWithoutConsent
<1>1. IInv /\ Consent /\ [Next]_vars => Consent'
  <2> SUFFICES ASSUME IInv, Consent, [Next]_vars PROVE Consent'
    OBVIOUS
  <2>1. CASE Next
    BY <2>1, NextConsent
  <2>2. CASE UNCHANGED vars
    BY <2>2 DEF vars, ghostVars, Consent, Mail
  <2> QED BY <2>1, <2>2
<1>2. Consent => NoToolWithoutConsent
  BY DEF Consent, NoToolWithoutConsent
<1> QED BY <1>1, <1>2, InitConsent, SpecIInv, PTL DEF Spec

-----------------------------------------------------------------------------
(* The order of the prompts.  The runs so far and the queue behind them are  *)
(* one line of prompts: each method takes prompts from the line's front to   *)
(* the runs, puts the prompt in flight back between the two, or empties the  *)
(* queue.                                                                    *)

\* Prompt q may come after prompt p, if those in R were replayed and those in A
\* run again.
Follows(p, q, R, A) == p < q \/ (p = q /\ p \in R) \/ p \in A \/ q \in A

\* The line of n runs, that were given the prompts f, and the queue q; x is the
\* prompt in flight, u the last one typed.
InLine(q, n, f, x, R, u, A) ==
    /\ \A i, j \in 1..n : i < j => Follows(f[i], f[j], R, A)
    /\ \A i \in 1..n, j \in 1..Len(q) : Follows(f[i], q[j], R, A)
    /\ \A i, j \in 1..Len(q) : i < j => Follows(q[i], q[j], R, A)
    /\ x # NoPrompt => n > 0 /\ f[n] = x
    /\ \A i \in 1..n : f[i] <= u
    /\ \A j \in 1..Len(q) : q[j] <= u

\* Prompt p was typed after the last cancel, or the user had it run again.
Wanted(p, A, w) == p > w \/ p \in A

Line(s, A, w) ==
    /\ InLine(s.queue, s.lastRun, s.promptOf, s.inFlight, s.replayed, s.lastUser, A)
    /\ w \in Nat /\ w <= s.lastUser
    /\ \A j \in 1..Len(s.queue) : Wanted(s.queue[j], A, w)
    /\ s.inFlight # NoPrompt => s.cancelling \/ Wanted(s.inFlight, A, w)

\* From s to t runs are started with wanted prompts only.
Adds(s, t, A, w) ==
    /\ s.lastRun <= t.lastRun
    /\ \A r \in 1..s.lastRun : t.promptOf[r] = s.promptOf[r]
    /\ \A r \in (s.lastRun + 1)..t.lastRun : Wanted(t.promptOf[r], A, w)

\* What Line and Adds speak of.
SameLine(s, t) ==
    /\ t.queue = s.queue /\ t.lastRun = s.lastRun /\ t.promptOf = s.promptOf
    /\ t.inFlight = s.inFlight /\ t.replayed = s.replayed
    /\ t.lastUser = s.lastUser /\ t.cancelling = s.cancelling

-----------------------------------------------------------------------------
(* The line *)

\* The head of the queue becomes the next run.
LEMMA HeadStarts ==
  ASSUME NEW q \in Seq(Prompt), q # <<>>, NEW n \in Nat, n < MaxRuns,
         NEW f \in [Run -> 0..MaxPrompts], NEW x, NEW R, NEW u, NEW A,
         InLine(q, n, f, x, R, u, A)
  PROVE  InLine(Tail(q), n + 1, [f EXCEPT ![n + 1] = Head(q)], Head(q), R, u, A)
<1> DEFINE g == [f EXCEPT ![n + 1] = Head(q)]
<1>1. /\ Len(Tail(q)) = Len(q) - 1 /\ Len(q) \in Nat \ {0}
      /\ \A j \in 1..Len(Tail(q)) : Tail(q)[j] = q[j + 1]
      /\ Head(q) = q[1]
  OBVIOUS
<1>2. n + 1 \in Run /\ g[n + 1] = Head(q)
  BY BoundsAssumption DEF Run
<1>3. \A i \in 1..n : g[i] = f[i]
  BY <1>2 DEF Run
<1> HIDE DEF g
<1>4. ASSUME NEW i \in 1..(n + 1), NEW j \in 1..(n + 1), i < j
      PROVE  Follows(g[i], g[j], R, A)
  <2>1. CASE j \in 1..n
    BY <1>3, <1>4, <2>1 DEF InLine
  <2>2. CASE j = n + 1
    <3>1. i \in 1..n /\ 1 \in 1..Len(q)
      BY <1>1, <1>4, <2>2
    <3> QED BY <1>1, <1>2, <1>3, <2>2, <3>1 DEF InLine
  <2> QED BY <2>1, <2>2
<1>5. ASSUME NEW i \in 1..(n + 1), NEW j \in 1..Len(Tail(q))
      PROVE  Follows(g[i], Tail(q)[j], R, A)
  <2>1. j + 1 \in 1..Len(q) /\ 1 \in 1..Len(q) /\ 1 < j + 1 /\ Tail(q)[j] = q[j + 1]
    BY <1>1
  <2>2. CASE i \in 1..n
    BY <1>3, <2>1, <2>2 DEF InLine
  <2>3. CASE i = n + 1
    BY <1>1, <1>2, <2>1, <2>3 DEF InLine
  <2> QED BY <2>2, <2>3
<1>6. ASSUME NEW i \in 1..Len(Tail(q)), NEW j \in 1..Len(Tail(q)), i < j
      PROVE  Follows(Tail(q)[i], Tail(q)[j], R, A)
  <2>1. /\ i + 1 \in 1..Len(q) /\ j + 1 \in 1..Len(q) /\ i + 1 < j + 1
        /\ Tail(q)[i] = q[i + 1] /\ Tail(q)[j] = q[j + 1]
    BY <1>1, <1>6
  <2> QED BY <2>1 DEF InLine
<1>7. /\ \A i \in 1..(n + 1) : g[i] <= u
      /\ \A j \in 1..Len(Tail(q)) : Tail(q)[j] <= u
  BY <1>1, <1>2, <1>3 DEF InLine
<1> QED
  BY <1>2, <1>4, <1>5, <1>6, <1>7 DEF InLine, g

\* The prompt in flight goes back to the head of the queue, to be replayed.
LEMMA FlightReturns ==
  ASSUME NEW q \in Seq(Prompt), NEW n \in Nat, NEW f, NEW x \in Prompt,
         NEW R, NEW u, NEW A, InLine(q, n, f, x, R, u, A)
  PROVE  InLine(<<x>> \o q, n, f, NoPrompt, R \cup {x}, u, A)
<1> DEFINE p == <<x>> \o q
           S == R \cup {x}
<1>1. /\ Len(p) = Len(q) + 1 /\ Len(q) \in Nat /\ p[1] = x
      /\ \A j \in 2..Len(p) : p[j] = q[j - 1]
  OBVIOUS
<1>2. x # NoPrompt /\ n > 0 /\ f[n] = x
  BY DEF InLine, Prompt, NoPrompt
<1>3. \A a, b : Follows(a, b, R, A) => Follows(a, b, S, A)
  BY DEF Follows
<1>4. x \in S
  OBVIOUS
<1> HIDE DEF p, S
<1>5. ASSUME NEW i \in 1..n PROVE Follows(f[i], x, S, A)
  <2>1. CASE i = n
    BY <1>2, <1>4, <2>1 DEF Follows
  <2>2. CASE i < n
    BY <1>2, <1>3, <2>2 DEF InLine
  <2> QED BY <2>1, <2>2
<1>6. ASSUME NEW j \in 1..Len(q) PROVE Follows(x, q[j], S, A)
  BY <1>2, <1>3 DEF InLine
<1>7. ASSUME NEW i \in 1..n, NEW j \in 1..Len(p)
      PROVE  Follows(f[i], p[j], S, A)
  <2>1. CASE j = 1
    BY <1>1, <1>5, <2>1
  <2>2. CASE j > 1
    <3>1. j - 1 \in 1..Len(q) /\ p[j] = q[j - 1]
      BY <1>1, <2>2
    <3> QED BY <1>3, <3>1 DEF InLine
  <2> QED BY <1>1, <2>1, <2>2
<1>8. ASSUME NEW i \in 1..Len(p), NEW j \in 1..Len(p), i < j
      PROVE  Follows(p[i], p[j], S, A)
  <2>1. j - 1 \in 1..Len(q) /\ p[j] = q[j - 1]
    BY <1>1, <1>8
  <2>2. CASE i = 1
    BY <1>1, <1>6, <2>1, <2>2
  <2>3. CASE i > 1
    <3>1. i - 1 \in 1..Len(q) /\ p[i] = q[i - 1] /\ i - 1 < j - 1
      BY <1>1, <1>8, <2>3
    <3> QED BY <1>3, <2>1, <3>1 DEF InLine
  <2> QED BY <1>1, <2>2, <2>3
<1>9. /\ \A i, j \in 1..n : i < j => Follows(f[i], f[j], S, A)
      /\ \A i \in 1..n : f[i] <= u
  BY <1>3 DEF InLine
<1>10. \A j \in 1..Len(p) : p[j] <= u
  <2> SUFFICES ASSUME NEW j \in 1..Len(p) PROVE p[j] <= u
    OBVIOUS
  <2>1. x <= u
    BY <1>2, <1>9
  <2>2. j > 1 => j - 1 \in 1..Len(q) /\ p[j] = q[j - 1]
    BY <1>1
  <2> QED BY <1>1, <2>1, <2>2 DEF InLine
<1> QED
  BY <1>7, <1>8, <1>9, <1>10 DEF InLine, p, S

\* A new prompt joins the end of the line.
LEMMA NewPromptJoins ==
  ASSUME NEW q \in Seq(Prompt), NEW n \in Nat, NEW f \in [Run -> 0..MaxPrompts],
         n <= MaxRuns, NEW x, NEW R, NEW u \in 0..MaxPrompts, NEW A,
         InLine(q, n, f, x, R, u, A)
  PROVE  InLine(Append(q, u + 1), n, f, x, R, u + 1, A)
<1> DEFINE p == Append(q, u + 1)
<1>1. /\ Len(p) = Len(q) + 1 /\ Len(q) \in Nat /\ p[Len(q) + 1] = u + 1
      /\ \A j \in 1..Len(q) : p[j] = q[j]
  OBVIOUS
<1>2. MaxPrompts \in Nat /\ MaxRuns \in Nat
  BY BoundsAssumption
<1>9. \A j \in 1..Len(q) : q[j] \in Nat
  BY <1>2 DEF Prompt
<1>3. \A i \in 1..n : f[i] \in Nat /\ f[i] <= u
  BY <1>2 DEF InLine, Run
<1>4. \A a \in Nat : a <= u => Follows(a, u + 1, R, A)
  BY DEF Follows
<1> HIDE DEF p
<1>5. ASSUME NEW i \in 1..n, NEW j \in 1..Len(p)
      PROVE  Follows(f[i], p[j], R, A)
  <2>1. CASE j \in 1..Len(q)
    BY <1>1, <2>1 DEF InLine
  <2>2. CASE j = Len(q) + 1
    BY <1>1, <1>3, <1>4, <2>2
  <2> QED BY <1>1, <2>1, <2>2
<1>6. ASSUME NEW i \in 1..Len(p), NEW j \in 1..Len(p), i < j
      PROVE  Follows(p[i], p[j], R, A)
  <2>1. i \in 1..Len(q) /\ p[i] = q[i] /\ q[i] \in Nat /\ q[i] <= u
    BY <1>1, <1>6, <1>9 DEF InLine
  <2>2. CASE j \in 1..Len(q)
    BY <1>1, <1>6, <2>1, <2>2 DEF InLine
  <2>3. CASE j = Len(q) + 1
    BY <1>1, <1>4, <2>1, <2>3
  <2> QED BY <1>1, <2>2, <2>3
<1>7. \A j \in 1..Len(p) : p[j] <= u + 1
  <2> SUFFICES ASSUME NEW j \in 1..Len(p) PROVE p[j] <= u + 1
    OBVIOUS
  <2>1. CASE j \in 1..Len(q)
    BY <1>1, <1>9, <2>1 DEF InLine
  <2>2. CASE j = Len(q) + 1
    BY <1>1, <2>2
  <2> QED BY <1>1, <2>1, <2>2
<1>8. \A i \in 1..n : f[i] <= u + 1
  BY <1>3
<1> QED
  BY <1>5, <1>6, <1>7, <1>8 DEF InLine, p

\* The last prompt, run again, may be anywhere.
LEMMA LastPromptJumps ==
  ASSUME NEW q \in Seq(Prompt), NEW n \in Nat, NEW f, NEW x, NEW R,
         NEW u \in Prompt, NEW A, InLine(q, n, f, x, R, u, A)
  PROVE  InLine(<<u>> \o q, n, f, x, R, u, A \cup {u})
<1> DEFINE p == <<u>> \o q
           B == A \cup {u}
<1>1. /\ Len(p) = Len(q) + 1 /\ Len(q) \in Nat /\ p[1] = u
      /\ \A j \in 2..Len(p) : p[j] = q[j - 1]
  OBVIOUS
<1>2. /\ \A a, b : Follows(a, b, R, A) => Follows(a, b, R, B)
      /\ \A a : Follows(a, u, R, B) /\ Follows(u, a, R, B)
  BY DEF Follows
<1> HIDE DEF p, B
<1>3. ASSUME NEW j \in 1..Len(p)
      PROVE  /\ p[j] = u \/ (j - 1 \in 1..Len(q) /\ p[j] = q[j - 1])
             /\ p[j] <= u
  BY <1>1 DEF InLine, Prompt
<1>4. \A i \in 1..n, j \in 1..Len(p) : Follows(f[i], p[j], R, B)
  BY <1>2, <1>3 DEF InLine
<1>5. ASSUME NEW i \in 1..Len(p), NEW j \in 1..Len(p), i < j
      PROVE  Follows(p[i], p[j], R, B)
  <2>1. CASE p[i] = u \/ p[j] = u
    BY <1>2, <2>1
  <2>2. CASE /\ i - 1 \in 1..Len(q) /\ p[i] = q[i - 1]
             /\ j - 1 \in 1..Len(q) /\ p[j] = q[j - 1]
    <3>1. i - 1 < j - 1
      BY <1>5
    <3> QED BY <1>2, <2>2, <3>1 DEF InLine
  <2> QED BY <1>3, <2>1, <2>2
<1> QED
  BY <1>2, <1>3, <1>4, <1>5 DEF InLine, p, B

\* An empty queue and no prompt in flight leave the runs.
LEMMA LineEmptied ==
  ASSUME NEW q, NEW n, NEW f, NEW x, NEW R, NEW u, NEW A, InLine(q, n, f, x, R, u, A)
  PROVE  /\ InLine(<<>>, n, f, x, R, u, A)
         /\ InLine(<<>>, n, f, NoPrompt, R, u, A)
         /\ InLine(q, n, f, NoPrompt, R, u, A)
BY DEF InLine

-----------------------------------------------------------------------------
(* The methods *)

\* Line t comes from line s by starting wanted runs.
Kept(s, t, A, w) == Line(t, A, w) /\ Adds(s, t, A, w)

\* A method that leaves these fields alone keeps the line.
LEMMA SameLineKept ==
  ASSUME NEW s \in ServerState, NEW t, SameLine(s, t), NEW A, NEW w, Line(s, A, w)
  PROVE  Kept(s, t, A, w)
<1>1. Line(t, A, w)
  BY DEF SameLine, Line
<1>2. s.lastRun \in Nat
  BY BoundsAssumption, ServerFields DEF Token
<1>3. Adds(s, t, A, w)
  BY <1>2 DEF SameLine, Adds
<1> QED BY <1>1, <1>3 DEF Kept

\* Two such steps in a row make one.
LEMMA KeptTwice ==
  ASSUME NEW s \in ServerState, NEW t \in ServerState, NEW u \in ServerState,
         NEW A, NEW w, Adds(s, t, A, w), Kept(t, u, A, w)
  PROVE  Kept(s, u, A, w)
<1>1. s.lastRun \in Nat /\ t.lastRun \in Nat /\ u.lastRun \in Nat
  BY BoundsAssumption, ServerFields DEF Token
<1>2. s.lastRun <= t.lastRun /\ t.lastRun <= u.lastRun
  BY DEF Kept, Adds
<1>3. \A r \in 1..s.lastRun : u.promptOf[r] = s.promptOf[r]
  BY <1>1, <1>2 DEF Kept, Adds
<1>4. ASSUME NEW r \in (s.lastRun + 1)..u.lastRun
      PROVE  Wanted(u.promptOf[r], A, w)
  <2>1. CASE r <= t.lastRun
    <3>1. r \in 1..t.lastRun /\ r \in (s.lastRun + 1)..t.lastRun
      BY <1>1, <1>2, <2>1
    <3>2. u.promptOf[r] = t.promptOf[r] /\ Wanted(t.promptOf[r], A, w)
      BY <3>1 DEF Kept, Adds
    <3> QED BY <3>2
  <2>2. CASE r > t.lastRun
    <3>1. r \in (t.lastRun + 1)..u.lastRun
      BY <1>1, <2>2
    <3> QED BY <3>1 DEF Kept, Adds
  <2> QED BY <1>1, <2>1, <2>2
<1> QED BY <1>1, <1>2, <1>3, <1>4 DEF Kept, Adds

\* Methods that leave the line alone.
LEMMA LineUntouched ==
  ASSUME NEW s \in ServerState
  PROVE  /\ SameLine(s, Cleanup(s))
         /\ SameLine(s, RecordMessage(s))
         /\ SameLine(s, EmitAuthRequired(s))
         /\ \A st : SameLine(s, SetStatus(s, st))
         /\ \A t : SameLine(s, OnResumeToken(s, t))
         /\ \A r : SameLine(s, AskPermission(s, r))
         /\ \A c : SameLine(s, Register(s, c))
         /\ \A m : SameLine(s, OnMessage(s, m))
<1>1. /\ SameLine(s, Cleanup(s))
      /\ SameLine(s, RecordMessage(s))
      /\ SameLine(s, EmitAuthRequired(s))
      /\ \A st : SameLine(s, SetStatus(s, st))
      /\ \A t : SameLine(s, OnResumeToken(s, t))
  BY Zenon DEF SameLine, Cleanup, RecordMessage, EmitAuthRequired, SetStatus,
               OnResumeToken, ServerState
<1>2. /\ \A r : SameLine(s, AskPermission(s, r))
      /\ \A c : SameLine(s, Register(s, c))
  BY Zenon DEF SameLine, AskPermission, Register, ServerState
<1>3. \A m : SameLine(s, OnMessage(s, m))
  BY Zenon DEF SameLine, OnMessage, EmitAuthRequired, RecordMessage, ServerState
<1> QED BY <1>1, <1>2, <1>3

LEMMA SendSameLine ==
  ASSUME NEW s \in ServerState, NEW m \in DownMsg
  PROVE  SameLine(s, SendToDevice(s, m))
<1>1. PICK d : SendToDevice(s, m) = [s EXCEPT !.down = d]
  BY SendType
<1> QED BY <1>1, Zenon DEF SameLine, ServerState

\* send() takes the head of the line.
LEMMA StartLine ==
  ASSUME NEW s \in ServerState, s.queue # <<>>, s.lastRun < MaxRuns,
         NEW A, NEW w, Line(s, A, w)
  PROVE  Kept(s, Start(s), A, w)
<1> DEFINE r == s.lastRun + 1
           p == Head(s.queue)
           q == Tail(s.queue)
           f == [s.promptOf EXCEPT ![r] = p]
           b == s.subs \cup {r}
           t == [s EXCEPT !.queue = q, !.busy = TRUE, !.status = "running",
                          !.inFlight = p, !.promptOf = f, !.lastRun = r,
                          !.activeRun = r, !.unsub = r, !.subs = b]
<1>0. /\ s.lastRun \in Token /\ s.queue \in Seq(Prompt) /\ s.token \in Token
      /\ s.promptOf \in [Run -> 0..MaxPrompts]
  BY ServerFields
<1>1. p \in Prompt /\ q \in Seq(Prompt)
  BY <1>0
<1>2. MaxRuns \in Nat /\ MaxPrompts \in Nat
  BY BoundsAssumption
<1>3. s.lastRun \in Nat /\ r = s.lastRun + 1 /\ r \in Run /\ r \in Token
  BY <1>0, <1>2 DEF Token, Run
<1>4. f \in [Run -> 0..MaxPrompts] /\ b \in SUBSET Run /\ p \in 0..MaxPrompts
      /\ "running" \in Status
  <2> HIDE DEF p, r
  <2> QED BY <1>1, <1>2, <1>3, ServerFields DEF Prompt, Status
<1>5. InLine(q, r, f, p, s.replayed, s.lastUser, A)
  BY <1>0, <1>3, HeadStarts DEF Line
<1>6. Wanted(p, A, w)
  BY <1>0 DEF Line
<1>7. \A j \in 1..Len(q) : Wanted(q[j], A, w)
  <2>1. \A j \in 1..Len(q) : j + 1 \in 1..Len(s.queue) /\ q[j] = s.queue[j + 1]
    BY <1>0
  <2> HIDE DEF q
  <2> QED BY <2>1 DEF Line
<1>8. /\ f[r] = p
      /\ \A i \in 1..s.lastRun : f[i] = s.promptOf[i]
  <2>1. \A i \in 1..s.lastRun : i \in Run /\ i # r
    BY <1>2, <1>3 DEF Run
  <2> HIDE DEF p, r
  <2> QED BY <1>0, <1>3, <2>1
<1>9. RunPrompt(r, p, s.token) \in DownMsg
  BY <1>0, <1>1, <1>3 DEF DownMsg, RunPrompt
<1>10. Start(s) = SendToDevice(t, RunPrompt(r, p, s.token))
  BY Zenon DEF Start, ServerState
<1> HIDE DEF r, p, q, f, b
<1>11. t \in ServerState
  BY <1>1, <1>3, <1>4, Zenon DEF ServerState
<1>12. /\ t.queue = q /\ t.lastRun = r /\ t.promptOf = f /\ t.inFlight = p
       /\ t.replayed = s.replayed /\ t.lastUser = s.lastUser
  BY Zenon DEF ServerState
<1> HIDE DEF t
<1>13. Line(t, A, w)
  BY <1>5, <1>6, <1>7, <1>12 DEF Line
<1>14. Adds(s, t, A, w)
  BY <1>3, <1>6, <1>8, <1>12 DEF Adds
<1>15. Kept(t, Start(s), A, w)
  BY <1>9, <1>10, <1>11, <1>13, SendSameLine, SameLineKept
<1>16. Start(s) \in ServerState
  BY StartConsistent
<1> QED BY <1>11, <1>14, <1>15, <1>16, KeptTwice

\* A queue that fails as a whole leaves no line.
LEMMA FailAllLine ==
  ASSUME NEW s \in ServerState, NEW A, NEW w, Line(s, A, w)
  PROVE  Kept(s, FailAll(s), A, w)
<1>1. /\ FailAll(s).queue = <<>> /\ FailAll(s).inFlight = NoPrompt
      /\ FailAll(s).lastRun = s.lastRun /\ FailAll(s).promptOf = s.promptOf
      /\ FailAll(s).replayed = s.replayed /\ FailAll(s).lastUser = s.lastUser
  BY Zenon DEF FailAll, RecordMessage, ServerState
<1>2. InLine(<<>>, s.lastRun, s.promptOf, NoPrompt, s.replayed, s.lastUser, A)
  BY LineEmptied DEF Line
<1>3. Line(FailAll(s), A, w)
  BY <1>1, <1>2 DEF Line
<1>4. s.lastRun \in Nat
  BY BoundsAssumption, ServerFields DEF Token
<1>5. Adds(s, FailAll(s), A, w)
  BY <1>1, <1>4 DEF Adds
<1> QED BY <1>3, <1>5 DEF Kept

LEMMA DrainQueueLine ==
  ASSUME NEW s \in ServerState, s.lastRun < MaxRuns, NEW A, NEW w, Line(s, A, w)
  PROVE  Kept(s, DrainQueue(s), A, w)
<1>1. SameLine(s, s)
  BY DEF SameLine
<1>2. Kept(s, s, A, w)
  BY <1>1, SameLineKept
<1> QED BY <1>2, StartLine, FailAllLine DEF DrainQueue

\* onDone forgets the prompt in flight and drains the queue.
LEMMA OnDoneLine ==
  ASSUME NEW s \in ServerState, s.lastRun < MaxRuns, NEW A, NEW w, Line(s, A, w)
  PROVE  Kept(s, OnDone(s), A, w)
<1> DEFINE st == IF s.status = "error" THEN s.status ELSE "idle"
           t == [s EXCEPT !.status = st, !.busy = FALSE, !.cancelling = FALSE,
                          !.inFlight = NoPrompt]
<1>1. st \in Status /\ NoPrompt \in 0..MaxPrompts /\ s.lastRun \in Nat
  BY BoundsAssumption, ServerFields DEF Status, NoPrompt, Token
<1>2. OnDone(s) = DrainQueue(t)
  BY DEF OnDone
<1> HIDE DEF st
<1>3. /\ t \in ServerState
      /\ t.queue = s.queue /\ t.lastRun = s.lastRun /\ t.promptOf = s.promptOf
      /\ t.inFlight = NoPrompt /\ t.replayed = s.replayed
      /\ t.lastUser = s.lastUser
  BY <1>1, Zenon DEF ServerState
<1> HIDE DEF t
<1>4. InLine(s.queue, s.lastRun, s.promptOf, NoPrompt, s.replayed, s.lastUser, A)
  BY LineEmptied DEF Line
<1>5. Line(t, A, w)
  BY <1>3, <1>4 DEF Line
<1>6. Adds(s, t, A, w)
  BY <1>1, <1>3 DEF Adds
<1>7. Kept(t, DrainQueue(t), A, w) /\ DrainQueue(t) \in ServerState
  BY <1>3, <1>5, DrainQueueLine, DrainQueueConsistent
<1> QED BY <1>2, <1>3, <1>6, <1>7, KeptTwice

\* The stale-token recovery puts the prompt in flight back at the head: it was
\* wanted, or a cancel would be under way.
LEMMA ReplayLine ==
  ASSUME NEW s \in ServerState, s.lastRun < MaxRuns, s.inFlight # NoPrompt,
         ~s.cancelling, NEW A, NEW w, Line(s, A, w)
  PROVE  Kept(s, ReplayFresh(s), A, w)
<1> DEFINE q == <<s.inFlight>> \o s.queue
           b == s.replayed \cup {s.inFlight}
           t == [s EXCEPT !.retried = TRUE, !.token = NoRun, !.busy = FALSE,
                          !.queue = q, !.inFlight = NoPrompt, !.replayed = b]
           v == RecordMessage(t)
<1>1. s.inFlight \in Prompt /\ s.lastRun \in Nat /\ s.queue \in Seq(Prompt)
  BY BoundsAssumption, ServerFields DEF Prompt, NoPrompt, Token
<1>2. /\ q \in Seq(Prompt) /\ b \in SUBSET Prompt
      /\ NoRun \in Token /\ NoPrompt \in 0..MaxPrompts
  BY <1>1, BoundsAssumption, ServerFields DEF NoRun, NoPrompt, Token
<1>3. InLine(q, s.lastRun, s.promptOf, NoPrompt, b, s.lastUser, A)
  BY <1>1, FlightReturns DEF Line
<1>4. \A j \in 1..Len(q) : Wanted(q[j], A, w)
  <2> SUFFICES ASSUME NEW j \in 1..Len(q) PROVE Wanted(q[j], A, w)
    OBVIOUS
  <2>1. q[j] = s.inFlight \/ (j - 1 \in 1..Len(s.queue) /\ q[j] = s.queue[j - 1])
    BY <1>1
  <2> HIDE DEF q
  <2> QED BY <2>1 DEF Line
<1>5. ReplayFresh(s) = DrainQueue(v)
  BY DEF ReplayFresh
<1> HIDE DEF q, b
<1>6. /\ t \in ServerState
      /\ t.queue = q /\ t.lastRun = s.lastRun /\ t.promptOf = s.promptOf
      /\ t.inFlight = NoPrompt /\ t.replayed = b /\ t.lastUser = s.lastUser
  BY <1>2, Zenon DEF ServerState
<1> HIDE DEF t
<1>7. Line(t, A, w)
  BY <1>3, <1>4, <1>6 DEF Line
<1>8. Adds(s, t, A, w)
  BY <1>1, <1>6 DEF Adds
<1>9. v \in ServerState /\ SameLine(t, v)
  BY <1>6, RecordMessageType, LineUntouched
<1> HIDE DEF v
<1>10. Kept(t, v, A, w)
  BY <1>6, <1>7, <1>9, SameLineKept
<1>11. Kept(s, v, A, w)
  BY <1>6, <1>8, <1>9, <1>10, KeptTwice
<1>12. v.lastRun < MaxRuns /\ Line(v, A, w)
  BY <1>6, <1>9, <1>10 DEF SameLine, Kept
<1>13. Kept(v, DrainQueue(v), A, w) /\ DrainQueue(v) \in ServerState
  BY <1>9, <1>12, DrainQueueLine, DrainQueueConsistent
<1> QED BY <1>5, <1>9, <1>11, <1>13, KeptTwice DEF Kept

LEMMA OnErrorLine ==
  ASSUME NEW s \in ServerState, s.lastRun < MaxRuns, NEW e,
         NEW A, NEW w, Line(s, A, w)
  PROVE  Kept(s, OnError(s, e), A, w)
<1>1. CASE OnError(s, e) = RecordMessage(s)
  BY <1>1, LineUntouched, SameLineKept
<1>2. "error" \in Status /\ NoRun \in Token
  BY BoundsAssumption DEF Status, NoRun, Token
<1>3. CASE OnError(s, e) = RecordMessage(SetStatus(EmitAuthRequired(s), "error"))
  <2>1. SameLine(s, OnError(s, e))
    BY <1>3, Zenon DEF SameLine, RecordMessage, SetStatus, EmitAuthRequired, ServerState
  <2> QED BY <2>1, SameLineKept
<1>4. CASE OnError(s, e) = RecordMessage(SetStatus(s, "error"))
  <2>1. SameLine(s, OnError(s, e))
    BY <1>4, Zenon DEF SameLine, RecordMessage, SetStatus, ServerState
  <2> QED BY <2>1, SameLineKept
<1>5. CASE ~s.cancelling /\ s.inFlight # NoPrompt /\ OnError(s, e) = ReplayFresh(s)
  BY <1>5, ReplayLine
<1> QED BY <1>1, <1>3, <1>4, <1>5 DEF OnError

LEMMA OnDaemonDoneLine ==
  ASSUME NEW s \in ServerState, s.lastRun + 2 <= MaxRuns,
         NEW m, m.token \in Token, NEW A, NEW w, Line(s, A, w)
  PROVE  Kept(s, OnDaemonDone(s, m), A, w)
<1> DEFINE t == IF m.token = NoRun THEN s ELSE OnResumeToken(s, m.token)
           e == IF m.error = "none" THEN t ELSE OnError(t, m.error)
           v == Cleanup(e)
<1>1. s.lastRun \in Nat /\ MaxRuns \in Nat
  BY BoundsAssumption, ServerFields DEF Token
<1>2. OnResumeToken(s, m.token) \in ServerState
  BY Zenon DEF ServerState, OnResumeToken
<1>3. SameLine(s, s) /\ SameLine(s, OnResumeToken(s, m.token))
  BY LineUntouched DEF SameLine
<1>4. t \in ServerState /\ SameLine(s, t)
  BY <1>2, <1>3
<1>5. OnDaemonDone(s, m) = OnDone(v)
  BY DEF OnDaemonDone
<1> HIDE DEF t
<1>6. Kept(s, t, A, w) /\ t.lastRun = s.lastRun
  BY <1>4, SameLineKept DEF SameLine
<1>7. SameLine(t, t)
  BY DEF SameLine
<1>8. Kept(t, e, A, w)
  BY <1>1, <1>4, <1>6, <1>7, OnErrorLine, SameLineKept DEF Kept
<1>9. e \in ServerState /\ e.lastRun \in {s.lastRun, s.lastRun + 1}
  BY <1>1, <1>4, <1>6, OnErrorType
<1> HIDE DEF e
<1>10. Kept(s, e, A, w)
  BY <1>4, <1>6, <1>8, <1>9, KeptTwice DEF Kept
<1>11. v \in ServerState /\ v.lastRun < MaxRuns /\ SameLine(e, v)
  BY <1>1, <1>9, CleanupType, LineUntouched
<1> HIDE DEF v
<1>12. Kept(e, v, A, w)
  BY <1>9, <1>10, <1>11, SameLineKept DEF Kept
<1>13. Kept(s, v, A, w)
  BY <1>9, <1>10, <1>11, <1>12, KeptTwice DEF Kept
<1>14. Kept(v, OnDone(v), A, w)
  BY <1>11, <1>13, OnDoneLine DEF Kept
<1>15. OnDone(v) \in ServerState
  BY <1>5, OnDaemonDoneConsistent
<1> QED BY <1>5, <1>11, <1>13, <1>14, <1>15, KeptTwice DEF Kept

\* Whatever the daemon sends, only wanted prompts are started, in line.
LEMMA ReceiveLine ==
  ASSUME NEW s \in ServerState, s.lastRun + 2 <= MaxRuns,
         NEW c \in Conn, NEW m \in UpMsg, NEW A, NEW w, Line(s, A, w)
  PROVE  Kept(s, Receive(s, c, m), A, w)
<1>1. CASE m.type = "hello"
  BY <1>1, LineUntouched, SameLineKept DEF Receive
<1>2. CASE m.type # "hello" /\ ~Heard(s, m.run)
  <2>1. SameLine(s, s)
    BY DEF SameLine
  <2> QED BY <1>2, <2>1, SameLineKept DEF Receive, HandleDaemonMessage
<1>3. CASE m.type = "say" /\ Heard(s, m.run)
  BY <1>3, LineUntouched, SameLineKept DEF Receive, HandleDaemonMessage
<1>4. CASE m.type = "ask" /\ Heard(s, m.run)
  BY <1>4, LineUntouched, SameLineKept DEF Receive, HandleDaemonMessage
<1>5. CASE m.type = "done" /\ Heard(s, m.run)
  <2>1. m.token \in Token
    BY <1>5 DEF UpMsg
  <2> QED BY <1>5, <2>1, OnDaemonDoneLine DEF Receive, HandleDaemonMessage
<1>6. m.type \in {"hello", "say", "ask", "done"}
  BY DEF UpMsg
<1> QED BY <1>1, <1>2, <1>3, <1>4, <1>5, <1>6

\* A prompt just typed is wanted, and joins at the end.
LEMMA EnqueuePromptLine ==
  ASSUME NEW s \in ServerState, s.lastRun < MaxRuns, s.lastUser + 1 \in Prompt,
         NEW A, NEW w, Line(s, A, w)
  PROVE  Kept(s, EnqueuePrompt(s, s.lastUser + 1), A, w)
<1> DEFINE u == s.lastUser + 1
           q == Append(s.queue, u)
           t == [s EXCEPT !.alerted = FALSE, !.lastUser = u, !.queue = q]
           v == RecordMessage(t)
<1>1. /\ s.lastUser \in 0..MaxPrompts /\ s.lastRun \in Nat /\ s.lastRun <= MaxRuns
      /\ s.queue \in Seq(Prompt) /\ s.promptOf \in [Run -> 0..MaxPrompts]
      /\ MaxPrompts \in Nat
  BY BoundsAssumption, ServerFields DEF Token
<1>2. q \in Seq(Prompt) /\ u \in 0..MaxPrompts /\ u \in Nat
  BY <1>1 DEF Prompt
<1>3. InLine(q, s.lastRun, s.promptOf, s.inFlight, s.replayed, u, A)
  BY <1>1, NewPromptJoins DEF Line
<1>4. w \in Nat /\ w <= s.lastUser /\ w <= u /\ Wanted(u, A, w)
  BY <1>1 DEF Line, Wanted
<1>5. \A j \in 1..Len(q) : Wanted(q[j], A, w)
  <2> SUFFICES ASSUME NEW j \in 1..Len(q) PROVE Wanted(q[j], A, w)
    OBVIOUS
  <2>1. q[j] = u \/ (j \in 1..Len(s.queue) /\ q[j] = s.queue[j])
    <3> HIDE DEF u
    <3> QED BY <1>1
  <2> HIDE DEF q, u
  <2> QED BY <1>4, <2>1 DEF Line
<1>6. EnqueuePrompt(s, u) = DrainQueue(v)
  BY DEF EnqueuePrompt
<1> HIDE DEF q, u
<1>7. /\ t \in ServerState
      /\ t.queue = q /\ t.lastRun = s.lastRun /\ t.promptOf = s.promptOf
      /\ t.inFlight = s.inFlight /\ t.replayed = s.replayed /\ t.lastUser = u
      /\ t.cancelling = s.cancelling
  BY <1>2, Zenon DEF ServerState
<1> HIDE DEF t
<1>8. Line(t, A, w)
  BY <1>3, <1>4, <1>5, <1>7 DEF Line
<1>9. Adds(s, t, A, w)
  BY <1>1, <1>7 DEF Adds
<1>10. v \in ServerState /\ SameLine(t, v)
  BY <1>7, RecordMessageType, LineUntouched
<1> HIDE DEF v
<1>11. Kept(t, v, A, w)
  BY <1>7, <1>8, <1>10, SameLineKept
<1>12. Kept(s, v, A, w)
  BY <1>7, <1>9, <1>10, <1>11, KeptTwice
<1>13. v.lastRun < MaxRuns /\ Line(v, A, w)
  BY <1>7, <1>10, <1>11 DEF SameLine, Kept
<1>14. Kept(v, DrainQueue(v), A, w) /\ DrainQueue(v) \in ServerState
  BY <1>10, <1>13, DrainQueueLine, DrainQueueConsistent
<1>15. Kept(s, DrainQueue(v), A, w)
  BY <1>10, <1>12, <1>14, KeptTwice DEF Kept
<1> QED BY <1>6, <1>15 DEF u

\* The last prompt, which the user wants run again, jumps the queue.
LEMMA RetryLine ==
  ASSUME NEW s \in ServerState, s.lastRun < MaxRuns, s.lastUser # NoPrompt,
         NEW A, NEW w, Line(s, A, w)
  PROVE  Kept(s, RetryLastUserPrompt(s), A \cup {s.lastUser}, w)
<1> DEFINE B == A \cup {s.lastUser}
           q == <<s.lastUser>> \o s.queue
           t == [s EXCEPT !.alerted = FALSE, !.queue = q]
<1>1. s.lastUser \in Prompt /\ s.lastRun \in Nat /\ s.queue \in Seq(Prompt)
  BY BoundsAssumption, ServerFields DEF Prompt, NoPrompt, Token
<1>2. q \in Seq(Prompt)
  BY <1>1
<1>3. InLine(q, s.lastRun, s.promptOf, s.inFlight, s.replayed, s.lastUser, B)
  BY <1>1, LastPromptJumps DEF Line
<1>4. \A p : Wanted(p, A, w) => Wanted(p, B, w)
  BY DEF Wanted
<1>5. Wanted(s.lastUser, B, w)
  BY DEF Wanted
<1>6. \A j \in 1..Len(q) : Wanted(q[j], B, w)
  <2> SUFFICES ASSUME NEW j \in 1..Len(q) PROVE Wanted(q[j], B, w)
    OBVIOUS
  <2>1. q[j] = s.lastUser \/ (j - 1 \in 1..Len(s.queue) /\ q[j] = s.queue[j - 1])
    BY <1>1
  <2> HIDE DEF q, B
  <2> QED BY <1>4, <1>5, <2>1 DEF Line
<1>7. RetryLastUserPrompt(s) = DrainQueue(t)
  BY DEF RetryLastUserPrompt
<1> HIDE DEF q, B
<1>8. /\ t \in ServerState
      /\ t.queue = q /\ t.lastRun = s.lastRun /\ t.promptOf = s.promptOf
      /\ t.inFlight = s.inFlight /\ t.replayed = s.replayed
      /\ t.lastUser = s.lastUser /\ t.cancelling = s.cancelling
  BY <1>2, Zenon DEF ServerState
<1> HIDE DEF t
<1>9. Line(t, B, w)
  BY <1>3, <1>4, <1>6, <1>8 DEF Line
<1>10. Adds(s, t, B, w)
  BY <1>1, <1>8 DEF Adds
<1>11. Kept(t, DrainQueue(t), B, w) /\ DrainQueue(t) \in ServerState
  BY <1>8, <1>9, DrainQueueLine, DrainQueueConsistent
<1>12. Kept(s, DrainQueue(t), B, w)
  BY <1>8, <1>10, <1>11, KeptTwice
<1> QED BY <1>7, <1>12 DEF B

LEMMA ResolvePermissionLine ==
  ASSUME NEW s \in ServerState, NEW r \in Run, NEW allow \in BOOLEAN
  PROVE  SameLine(s, ResolvePermission(s, r, allow))
<1> DEFINE left == s.pending \ {r}
           u == [s EXCEPT !.pending = left]
           t == SendToDevice(u, Answer({r}, allow))
<1>1. left \in SUBSET Run
  BY ServerFields
<1>2. ResolvePermission(s, r, allow) =
        IF left = {} /\ s.status = "awaiting_permission"
        THEN SetStatus(t, "running") ELSE t
  BY DEF ResolvePermission
<1> HIDE DEF left
<1>3. u \in ServerState /\ SameLine(s, u)
  BY <1>1, Zenon DEF ServerState, SameLine
<1>4. Answer({r}, allow) \in DownMsg
  BY AnswerType
<1> HIDE DEF u
<1>5. t \in ServerState /\ SameLine(u, t)
  BY <1>3, <1>4, SendType, SendSameLine
<1> HIDE DEF t
<1>6. SameLine(t, SetStatus(t, "running"))
  BY <1>5, LineUntouched
<1> QED BY <1>2, <1>3, <1>5, <1>6 DEF SameLine

\* cancel() empties the queue and marks the turn: nothing typed so far is wanted.
LEMMA CancelSessionLine ==
  ASSUME NEW s \in ServerState, NEW A, NEW w, Line(s, A, w)
  PROVE  Kept(s, CancelSession(s), A, s.lastUser)
<1> DEFINE told   == IF s.activeRun = NoRun THEN s
                     ELSE SendToDevice(s, CancelRun(s.activeRun))
           denied == IF s.pending = {} THEN told
                     ELSE SendToDevice(told, Answer(s.pending, FALSE))
           t == [denied EXCEPT !.cancelling = TRUE, !.pending = {}, !.queue = <<>>]
<1>1. s.activeRun # NoRun => CancelRun(s.activeRun) \in DownMsg
  BY BoundsAssumption, ServerFields DEF CancelRun, DownMsg, Token, Run, NoRun
<1>2. Answer(s.pending, FALSE) \in DownMsg
  BY ServerFields DEF Answer, DownMsg
<1>3. s.lastUser \in Nat /\ s.lastRun \in Nat
  BY BoundsAssumption, ServerFields DEF Token
<1>4. SameLine(s, s)
  BY DEF SameLine
<1>5. told \in ServerState /\ SameLine(s, told)
  BY <1>1, <1>4, SendType, SendSameLine
<1>6. CancelSession(s) = t
  BY DEF CancelSession
<1> HIDE DEF told
<1>7. denied \in ServerState /\ SameLine(s, denied)
  BY <1>2, <1>5, SendType, SendSameLine DEF SameLine
<1> HIDE DEF denied
<1>8. /\ t.queue = <<>> /\ t.cancelling = TRUE
      /\ t.lastRun = s.lastRun /\ t.promptOf = s.promptOf
      /\ t.inFlight = s.inFlight /\ t.replayed = s.replayed
      /\ t.lastUser = s.lastUser
  BY <1>7, Zenon DEF ServerState, SameLine
<1> HIDE DEF t
<1>9. InLine(<<>>, s.lastRun, s.promptOf, s.inFlight, s.replayed, s.lastUser, A)
  BY LineEmptied DEF Line
<1>10. Line(t, A, s.lastUser)
  BY <1>3, <1>8, <1>9 DEF Line
<1>11. Adds(s, t, A, s.lastUser)
  BY <1>3, <1>8 DEF Adds
<1> QED BY <1>6, <1>10, <1>11 DEF Kept

-----------------------------------------------------------------------------
(* The specification *)

Ordered == Line(srv, again, withdrawn)

Advance == Kept(srv, srv', again', withdrawn')

\* There is no line at the start.
LEMMA InitOrdered == Init => Ordered
<1> SUFFICES ASSUME Init PROVE Ordered
  OBVIOUS
<1>1. /\ srv.queue = <<>> /\ srv.lastRun = 0 /\ srv.inFlight = NoPrompt
      /\ srv.lastUser = 0 /\ withdrawn = 0
  BY DEF Init, FreshServer, NoRun, NoPrompt
<1> QED BY <1>1 DEF Ordered, Line, InLine

\* Every step advances the line, or leaves it as it is.
LEMMA NextOrdered ==
  ASSUME IInv, Ordered, Next
  PROVE  Advance
<1> USE DEF IInv, Advance
<1>0. /\ MaxRuns \in Nat /\ srv.lastRun \in Token
      /\ srv.lastUser \in 0..MaxPrompts /\ MaxPrompts \in Nat
  BY BoundsAssumption, ServerFields
<1>r. used.retries \in Nat
  BY BoundsAssumption DEF RestOK, UsedType
<1>s. ASSUME SameLine(srv, srv'), again' = again, withdrawn' = withdrawn
      PROVE  Advance
  BY <1>s, SameLineKept DEF Ordered
<1>1. CASE SendPrompt
  <2>1. srv.lastUser + 1 \in Prompt /\ srv.lastRun < MaxRuns
    BY <1>0, <1>r, <1>1 DEF SendPrompt, RoomFor, Prompt, Token
  <2>2. /\ srv' = EnqueuePrompt(srv, srv.lastUser + 1)
        /\ again' = again /\ withdrawn' = withdrawn
    BY <1>1 DEF SendPrompt, ghostVars
  <2> QED BY <2>1, <2>2, EnqueuePromptLine DEF Ordered
<1>2. CASE RetryLast
  <2>1. srv.lastRun < MaxRuns /\ srv.lastUser # NoPrompt
    BY <1>0, <1>2 DEF RetryLast, RoomFor, Token
  <2>2. /\ srv' = RetryLastUserPrompt(srv)
        /\ again' = again \cup {srv.lastUser} /\ withdrawn' = withdrawn
    BY <1>2 DEF RetryLast
  <2> QED BY <2>1, <2>2, RetryLine DEF Ordered
<1>3. ASSUME NEW r \in Run, NEW allow \in BOOLEAN, Respond(r, allow)
      PROVE  Advance
  <2>1. /\ srv' = ResolvePermission(srv, r, allow)
        /\ again' = again /\ withdrawn' = withdrawn
    BY <1>3 DEF Respond
  <2> QED BY <1>s, <2>1, ResolvePermissionLine
<1>4. CASE Cancel
  <2>1. /\ srv' = CancelSession(srv)
        /\ again' = again /\ withdrawn' = srv.lastUser
    BY <1>4 DEF Cancel, Withdraw
  <2> QED BY <2>1, CancelSessionLine DEF Ordered
<1>5. CASE Delete
  <2>1. CancelSession(srv) \in ServerState
    BY CancelSessionConsistent
  <2>2. SameLine(CancelSession(srv), srv')
    BY <1>5, <2>1, Zenon DEF Delete, ServerState, SameLine
  <2>3. again' = again /\ withdrawn' = srv.lastUser
    BY <1>5 DEF Delete, Withdraw
  <2>4. Kept(srv, CancelSession(srv), again, srv.lastUser)
    BY CancelSessionLine DEF Ordered
  <2> QED BY <2>2, <2>3, <2>4 DEF Kept, SameLine, Line, Adds
<1>6. ASSUME HangUp, again' = again, withdrawn' = withdrawn
      PROVE  Advance
  <2>1. SameLine(srv, srv')
    BY <1>6, Zenon DEF HangUp, ServerState, SameLine
  <2> QED BY <1>6, <1>s, <2>1
<1>7. CASE LinkLost \/ DaemonCrash \/ ServerGone
  BY <1>6, <1>7 DEF LinkLost, DaemonCrash, ServerGone, ghostVars
<1>8. CASE Restart
  <2>1. /\ srv'.queue = FreshServer.queue
        /\ srv'.inFlight = FreshServer.inFlight
        /\ srv'.lastRun = srv.lastRun /\ srv'.promptOf = srv.promptOf
        /\ srv'.replayed = srv.replayed /\ srv'.lastUser = srv.lastUser
    BY <1>8, FreshServerConsistent, Zenon DEF Restart, ServerState
  <2>2. srv'.queue = <<>> /\ srv'.inFlight = NoPrompt
    BY <2>1 DEF FreshServer
  <2>3. again' = again /\ withdrawn' = withdrawn
    BY <1>8 DEF Restart, ghostVars
  <2>4. InLine(<<>>, srv.lastRun, srv.promptOf, NoPrompt, srv.replayed,
               srv.lastUser, again)
    BY LineEmptied DEF Ordered, Line
  <2>5. Line(srv', again', withdrawn')
    BY <2>1, <2>2, <2>3, <2>4 DEF Ordered, Line
  <2>6. Adds(srv, srv', again', withdrawn')
    BY <1>0, <2>1 DEF Adds, Token
  <2> QED BY <2>5, <2>6 DEF Kept
<1>9. ASSUME NEW c \in Conn, Deliver(c)
      PROVE  Advance
  <2>1. /\ srv.lastRun + 2 <= MaxRuns
        /\ up \in [Conn -> Seq(UpMsg)] /\ up[c] # <<>>
        /\ again' = again /\ withdrawn' = withdrawn
    BY <1>9 DEF Deliver, RoomFor, RestOK, ghostVars
  <2>2. Head(up[c]) \in UpMsg
    BY <2>1
  <2> QED BY <1>9, <2>1, <2>2, ReceiveLine DEF Deliver, Ordered
<1>10. ASSUME NEW c \in Conn, SocketEnds(c) \/ SocketCloses(c)
       PROVE  Advance
  <2>1. SameLine(srv, srv')
    BY <1>10, Zenon DEF SocketEnds, SocketCloses, ServerState, SameLine
  <2> QED BY <1>10, <1>s, <2>1 DEF SocketEnds, SocketCloses, ghostVars
<1>11. CASE Dial
  <2>1. SameLine(srv, srv')
    BY <1>11, Zenon DEF Dial, ServerState, SameLine
  <2> QED BY <1>11, <1>s, <2>1 DEF Dial, ghostVars
<1>12. CASE DaemonReceive
  <2>1. SameLine(srv, srv')
    BY <1>12, Zenon DEF DaemonReceive, ServerState, SameLine
  <2> QED BY <1>12, <1>s, <2>1 DEF DaemonReceive
<1>13. ASSUME NEW r \in Run,
              (\E auth \in BOOLEAN : Speak(r, auth)) \/ AskTool(r) \/ EndRun(r)
       PROVE  Advance
  <2>1. srv' = srv /\ again' = again /\ withdrawn' = withdrawn
    BY <1>13 DEF Speak, AskTool, EndRun, ghostVars
  <2>2. SameLine(srv, srv')
    BY <2>1 DEF SameLine
  <2> QED BY <1>s, <2>1, <2>2
<1>14. CASE User
  BY <1>1, <1>2, <1>3, <1>4, <1>5, <1>14 DEF User, CancelAll
<1>15. CASE Network
  BY <1>7, <1>8, <1>15 DEF Network
<1>16. CASE Server
  BY <1>9, <1>10, <1>16 DEF Server
<1>17. CASE Daemon
  BY <1>7, <1>11, <1>12, <1>13, <1>17 DEF Daemon
<1> QED BY <1>14, <1>15, <1>16, <1>17 DEF Next

\* Line and runs are ordered in every reachable state, and every step advances
\* them.
LEMMA AlwaysOrdered == Spec => []Ordered /\ [][Advance]_vars
<1>1. IInv /\ Ordered /\ [Next]_vars => Ordered' /\ [Advance]_vars
  <2> SUFFICES ASSUME IInv, Ordered, [Next]_vars
               PROVE  Ordered' /\ [Advance]_vars
    OBVIOUS
  <2>1. CASE Next
    BY <2>1, NextOrdered DEF Advance, Kept, Ordered
  <2>2. CASE UNCHANGED vars
    BY <2>2 DEF vars, ghostVars, Ordered
  <2> QED BY <2>1, <2>2
<1> QED BY <1>1, InitOrdered, SpecIInv, PTL DEF Spec

\* Prompts are run in the order typed, each of them once, unless the recovery from
\* an unknown resume token repeats the prompt in flight or the user has one run
\* again: whatever fails, is cancelled, or restarts in between.
THEOREM PromptsInOrder == Spec => []PromptsRunInOrder
<1>1. IInv /\ Ordered => PromptsRunInOrder
  <2> SUFFICES ASSUME IInv, Ordered,
                      NEW r1 \in 1..srv.lastRun, NEW r2 \in 1..srv.lastRun, r1 < r2
               PROVE  Follows(srv.promptOf[r1], srv.promptOf[r2], srv.replayed, again)
    BY DEF PromptsRunInOrder, Follows
  <2> QED BY DEF Ordered, Line, InLine
<1> QED BY <1>1, AlwaysOrdered, SpecIInv, PTL

\* Cancel is final: no step hands the daemon a prompt typed before the last cancel
\* (by the button, the emergency brake or the deletion of the session), unless the
\* user has it run again; neither the queue, nor a replay, nor a late end of the
\* cancelled run brings one back.
THEOREM CancelIsFinal == Spec => CancelStopsQueue
<1>1. IInv /\ [Advance]_vars =>
        [ \A r \in Run :
            srv.lastRun < r /\ r <= srv'.lastRun
              => srv'.promptOf[r] > withdrawn' \/ srv'.promptOf[r] \in again' ]_vars
  <2> SUFFICES ASSUME IInv, Advance,
                      NEW r \in Run, srv.lastRun < r, r <= srv'.lastRun
               PROVE  Wanted(srv'.promptOf[r], again', withdrawn')
    BY DEF Wanted
  <2>1. srv.lastRun \in Nat /\ MaxRuns \in Nat
    BY BoundsAssumption, ServerFields DEF IInv, Token
  <2>2. r \in (srv.lastRun + 1)..srv'.lastRun
    BY <2>1 DEF Run
  <2>3. Adds(srv, srv', again', withdrawn')
    BY DEF Advance, Kept
  <2> QED BY <2>2, <2>3 DEF Adds
<1> QED BY <1>1, AlwaysOrdered, SpecIInv, PTL DEF CancelStopsQueue

-----------------------------------------------------------------------------
(* Runs and the session's back.  As long as no prompt was replayed and the *)
(* server has not restarted, the runner's active run is the only one that  *)
(* is alive or on its way to the daemon, and the only one it listens to.   *)
(* A run that has ended cannot be told to start, so that its daemon_done   *)
(* finds nothing alive.  P stands for phase, k for "no restart".           *)

Finished == {"ended", "killed"}

\* What may be on its way to the daemon: no prompt but that of run a, which has
\* not begun.
Due(P, a) == {m \in DownMsg : m.type = "run" => m.run = a /\ P[a] = "none"}

OnePrompt(d) ==
    \A c, e \in Conn : \A i \in 1..Len(d[c]), j \in 1..Len(d[e]) :
        d[c][i].type = "run" /\ d[e][j].type = "run" => c = e /\ i = j

\* The runner listens to its active run at most, which is the last one.
OwnEar(s) ==
    /\ s.subs \subseteq {s.activeRun}
    /\ s.activeRun \in {NoRun, s.lastRun}
    /\ s.lastSaid <= s.lastRun

\* No run but the active one is alive, or will be.
Alone(s, P) ==
    /\ \A r \in Run : P[r] \in {"running", "asking"} => r = s.activeRun
    /\ \A r \in Run : P[r] # "none" => r <= s.lastRun
    /\ s.down \in [Conn -> Seq(Due(P, s.activeRun))]
    /\ OnePrompt(s.down)

Sound(s, P, k) == s.replayed = {} => OwnEar(s) /\ (k => Alone(s, P))

Held(s, t, P, k) ==
    /\ Sound(t, P, k)
    /\ t.lastSaid = s.lastSaid
    /\ t.replayed = s.replayed

\* The same where an error e may have had a prompt replayed.
Passed(s, t, P, k, e) ==
    /\ Sound(t, P, k)
    /\ t.lastSaid = s.lastSaid
    /\ s.replayed \subseteq t.replayed
    /\ e # "stale" => t.replayed = s.replayed

\* The same where output may have been recorded, too.
Later(s, t, P, k) ==
    /\ Sound(t, P, k)
    /\ s.replayed \subseteq t.replayed
    /\ s.replayed = {} => t.lastSaid >= s.lastSaid

SameRun(s, t) ==
    /\ t.replayed = s.replayed /\ t.lastSaid = s.lastSaid
    /\ t.activeRun = s.activeRun /\ t.unsub = s.unsub /\ t.subs = s.subs
    /\ t.lastRun = s.lastRun /\ t.down = s.down

LEMMA SameRunHeld ==
  ASSUME NEW s, NEW t, NEW P, NEW k, SameRun(s, t), Sound(s, P, k)
  PROVE  Held(s, t, P, k)
BY DEF SameRun, Sound, Held, OwnEar, Alone

LEMMA HeldTwice ==
  ASSUME NEW s, NEW t, NEW u, NEW P, NEW k, Held(s, t, P, k), Held(t, u, P, k)
  PROVE  Held(s, u, P, k)
BY DEF Held

LEMMA HeldPassed ==
  ASSUME NEW s, NEW t, NEW u, NEW P, NEW k, NEW e
  PROVE  /\ Held(s, t, P, k) => Passed(s, t, P, k, e)
         /\ Held(s, t, P, k) /\ Passed(t, u, P, k, e) => Passed(s, u, P, k, e)
         /\ Passed(s, t, P, k, e) /\ Held(t, u, P, k) => Passed(s, u, P, k, e)
BY DEF Held, Passed

LEMMA PassedLater ==
  ASSUME NEW s \in ServerState, NEW t, NEW P, NEW k
  PROVE  /\ Held(s, t, P, k) => Later(s, t, P, k)
         /\ \A e : Passed(s, t, P, k, e) => Later(s, t, P, k)
<1>1. s.lastSaid \in Nat
  BY BoundsAssumption, ServerFields DEF Token
<1> QED BY <1>1 DEF Held, Passed, Later

\* Most methods leave the runner and the mail alone.
LEMMA RunUntouched ==
  ASSUME NEW s \in ServerState
  PROVE  /\ SameRun(s, s)
         /\ SameRun(s, RecordMessage(s))
         /\ SameRun(s, EmitAuthRequired(s))
         /\ \A st : SameRun(s, SetStatus(s, st))
         /\ \A t : SameRun(s, OnResumeToken(s, t))
         /\ \A r : SameRun(s, AskPermission(s, r))
         /\ \A c : SameRun(s, Register(s, c))
<1>1. /\ SameRun(s, s)
      /\ SameRun(s, RecordMessage(s))
      /\ SameRun(s, EmitAuthRequired(s))
      /\ \A st : SameRun(s, SetStatus(s, st))
      /\ \A t : SameRun(s, OnResumeToken(s, t))
  BY Zenon DEF SameRun, RecordMessage, EmitAuthRequired, SetStatus,
               OnResumeToken, ServerState
<1>2. /\ \A r : SameRun(s, AskPermission(s, r))
      /\ \A c : SameRun(s, Register(s, c))
  BY Zenon DEF SameRun, AskPermission, Register, ServerState
<1> QED BY <1>1, <1>2

(***************************************************************************)
(* The mail to the daemon.                                                 *)
(***************************************************************************)

\* A message that is no prompt, or the only prompt, may join.
LEMMA OnePromptJoins ==
  ASSUME NEW d \in [Conn -> Seq(DownMsg)], OnePrompt(d), NEW x \in Conn,
         NEW m \in DownMsg,
         m.type # "run" \/ \A c \in Conn : \A i \in 1..Len(d[c]) : d[c][i].type # "run"
  PROVE  OnePrompt([d EXCEPT ![x] = Append(@, m)])
<1> DEFINE f == [d EXCEPT ![x] = Append(@, m)]
<1>1. ASSUME NEW c \in Conn, NEW i \in 1..Len(f[c])
      PROVE  \/ i \in 1..Len(d[c]) /\ f[c][i] = d[c][i]
             \/ c = x /\ i = Len(d[x]) + 1 /\ f[c][i] = m
  <2>1. CASE c = x
    <3>1. f[c] = Append(d[x], m) /\ d[x] \in Seq(DownMsg)
      BY <2>1
    <3> HIDE DEF f
    <3> QED BY <1>1, <2>1, <3>1
  <2>2. CASE c # x
    <3>1. f[c] = d[c]
      BY <2>2
    <3> HIDE DEF f
    <3> QED BY <1>1, <3>1
  <2> QED BY <2>1, <2>2
<1> HIDE DEF f
<1>2. OnePrompt(f)
  <2> SUFFICES ASSUME NEW c \in Conn, NEW e \in Conn,
                      NEW i \in 1..Len(f[c]), NEW j \in 1..Len(f[e]),
                      f[c][i].type = "run", f[e][j].type = "run"
               PROVE  c = e /\ i = j
    BY DEF OnePrompt
  <2>1. \/ i \in 1..Len(d[c]) /\ f[c][i] = d[c][i]
        \/ c = x /\ i = Len(d[x]) + 1 /\ f[c][i] = m
    BY <1>1
  <2>2. \/ j \in 1..Len(d[e]) /\ f[e][j] = d[e][j]
        \/ e = x /\ j = Len(d[x]) + 1 /\ f[e][j] = m
    BY <1>1
  <2>3. CASE i \in 1..Len(d[c]) /\ f[c][i] = d[c][i]
    <3>1. ~(j = Len(d[x]) + 1 /\ f[e][j] = m)
      BY <2>3
    <3>2. j \in 1..Len(d[e]) /\ f[e][j] = d[e][j]
      BY <2>2, <3>1
    <3> QED BY <2>3, <3>2 DEF OnePrompt
  <2>4. CASE c = x /\ i = Len(d[x]) + 1 /\ f[c][i] = m
    <3>1. ~(j \in 1..Len(d[e]) /\ f[e][j] = d[e][j])
      BY <2>4
    <3> QED BY <2>2, <2>4, <3>1
  <2> QED BY <2>1, <2>3, <2>4
<1> QED BY <1>2 DEF f

\* Once the first message is read, or the socket given up, there is no other
\* prompt than before.
LEMMA OnePromptLeaves ==
  ASSUME NEW d \in [Conn -> Seq(DownMsg)], OnePrompt(d), NEW x \in Conn
  PROVE  /\ OnePrompt([d EXCEPT ![x] = <<>>])
         /\ d[x] # <<>> =>
              /\ OnePrompt([d EXCEPT ![x] = Tail(@)])
              /\ Head(d[x]).type = "run" =>
                   \A c \in Conn : \A i \in 1..Len([d EXCEPT ![x] = Tail(@)][c]) :
                      [d EXCEPT ![x] = Tail(@)][c][i].type # "run"
<1>1. OnePrompt([d EXCEPT ![x] = <<>>])
  <2> DEFINE f == [d EXCEPT ![x] = <<>>]
  <2>1. \A c \in Conn : \A i \in 1..Len(f[c]) : f[c] = d[c]
    OBVIOUS
  <2> HIDE DEF f
  <2>2. OnePrompt(f)
    BY <2>1 DEF OnePrompt
  <2> QED BY <2>2 DEF f
<1>2. ASSUME d[x] # <<>>
      PROVE  /\ OnePrompt([d EXCEPT ![x] = Tail(@)])
             /\ Head(d[x]).type = "run" =>
                  \A c \in Conn : \A i \in 1..Len([d EXCEPT ![x] = Tail(@)][c]) :
                     [d EXCEPT ![x] = Tail(@)][c][i].type # "run"
  <2> DEFINE f == [d EXCEPT ![x] = Tail(@)]
             n(c, i) == IF c = x THEN i + 1 ELSE i
  <2>1. ASSUME NEW c \in Conn, NEW i \in 1..Len(f[c])
        PROVE  /\ i \in Nat
               /\ n(c, i) \in 1..Len(d[c])
               /\ f[c][i] = d[c][n(c, i)]
               /\ c = x => n(c, i) # 1
    <3>1. CASE c = x
      <4>1. d[x] \in Seq(DownMsg) /\ f[c] = Tail(d[x])
        BY <3>1
      <4> HIDE DEF f
      <4> QED BY <1>2, <2>1, <3>1, <4>1
    <3>2. CASE c # x
      <4>1. f[c] = d[c] /\ d[c] \in Seq(DownMsg)
        BY <3>2
      <4> HIDE DEF f
      <4> QED BY <2>1, <3>2, <4>1
    <3> QED BY <3>1, <3>2
  <2>2. d[x] \in Seq(DownMsg) /\ Head(d[x]) = d[x][1] /\ 1 \in 1..Len(d[x])
    <3>1. d[x] \in Seq(DownMsg)
      OBVIOUS
    <3> HIDE DEF f
    <3> QED BY <1>2, <3>1
  <2> HIDE DEF f
  <2>3. OnePrompt(f)
    <3> SUFFICES ASSUME NEW c \in Conn, NEW e \in Conn,
                        NEW i \in 1..Len(f[c]), NEW j \in 1..Len(f[e]),
                        f[c][i].type = "run", f[e][j].type = "run"
                 PROVE  c = e /\ i = j
      BY DEF OnePrompt
    <3>1. /\ n(c, i) \in 1..Len(d[c]) /\ f[c][i] = d[c][n(c, i)]
          /\ n(e, j) \in 1..Len(d[e]) /\ f[e][j] = d[e][n(e, j)]
          /\ i \in Nat /\ j \in Nat
      BY <2>1
    <3>2. c = e /\ n(c, i) = n(e, j)
      BY <3>1 DEF OnePrompt
    <3> QED BY <3>1, <3>2
  <2>4. ASSUME Head(d[x]).type = "run", NEW c \in Conn, NEW i \in 1..Len(f[c]),
               f[c][i].type = "run"
        PROVE  FALSE
    <3>1. n(c, i) \in 1..Len(d[c]) /\ f[c][i] = d[c][n(c, i)] /\ (c = x => n(c, i) # 1)
      BY <2>1
    <3> HIDE DEF n
    <3> QED BY <2>2, <2>4, <3>1 DEF OnePrompt
  <2>5. \A c \in Conn : \A i \in 1..Len(f[c]) :
           Head(d[x]).type = "run" => f[c][i].type # "run"
    BY <2>4
  <2> QED BY <2>3, <2>5 DEF f
<1> QED BY <1>1, <1>2

\* A message that starts no run changes nothing but the mail.
LEMMA SendHeld ==
  ASSUME NEW s \in ServerState, NEW m \in DownMsg, m.type # "run",
         NEW P, NEW k, Sound(s, P, k)
  PROVE  /\ Held(s, SendToDevice(s, m), P, k)
         /\ SendToDevice(s, m).activeRun = s.activeRun
         /\ SendToDevice(s, m).busy = s.busy
<1>1. PICK d : SendToDevice(s, m) = [s EXCEPT !.down = d]
  BY SendType
<1> DEFINE t == SendToDevice(s, m)
<1>2. /\ t.replayed = s.replayed /\ t.lastSaid = s.lastSaid
      /\ t.activeRun = s.activeRun /\ t.subs = s.subs /\ t.lastRun = s.lastRun
      /\ t.busy = s.busy
  BY <1>1, Zenon DEF ServerState
<1>3. ASSUME Alone(s, P) PROVE Alone(t, P)
  <2>1. CASE ~Online(s)
    BY <1>3, <2>1 DEF SendToDevice
  <2>2. CASE Online(s)
    <3>1. s.entry \in Conn /\ s.down \in [Conn -> Seq(DownMsg)]
      BY <2>2, BoundsAssumption, ServerFields DEF Online, NoConn, Conn
    <3>2. t.down = [s.down EXCEPT ![s.entry] = Append(@, m)]
      BY <2>2, Zenon DEF SendToDevice, ServerState
    <3>3. m \in Due(P, s.activeRun)
      BY DEF Due
    <3>4. s.down \in [Conn -> Seq(Due(P, s.activeRun))]
      BY <1>3 DEF Alone
    <3>5. Append(s.down[s.entry], m) \in Seq(Due(P, s.activeRun))
      BY <3>1, <3>3, <3>4
    <3>6. t.down \in [Conn -> Seq(Due(P, s.activeRun))]
      BY <3>1, <3>2, <3>4, <3>5
    <3>7. OnePrompt(t.down)
      BY <1>3, <3>1, <3>2, OnePromptJoins DEF Alone
    <3> HIDE DEF t
    <3> QED BY <1>2, <1>3, <3>6, <3>7 DEF Alone
  <2> QED BY <2>1, <2>2
<1> HIDE DEF t
<1>4. Held(s, t, P, k)
  BY <1>2, <1>3 DEF Held, Sound, OwnEar
<1> QED BY <1>2, <1>4 DEF t

(***************************************************************************)
(* The handlers.                                                           *)
(***************************************************************************)

\* A runner without a run starts one: the only one.
LEMMA StartHeld ==
  ASSUME NEW s \in ServerState, s.queue # <<>>, s.lastRun < MaxRuns,
         NEW P, NEW k, Sound(s, P, k), s.replayed = {} => s.activeRun = NoRun
  PROVE  Held(s, Start(s), P, k)
<1> DEFINE r == s.lastRun + 1
           p == Head(s.queue)
           q == Tail(s.queue)
           f == [s.promptOf EXCEPT ![r] = p]
           b == s.subs \cup {r}
           t == [s EXCEPT !.queue = q, !.busy = TRUE, !.status = "running",
                          !.inFlight = p, !.promptOf = f, !.lastRun = r,
                          !.activeRun = r, !.unsub = r, !.subs = b]
           m == RunPrompt(r, p, s.token)
           v == SendToDevice(t, m)
<1>0. /\ s.lastRun \in Token /\ s.queue \in Seq(Prompt) /\ s.token \in Token
      /\ s.promptOf \in [Run -> 0..MaxPrompts] /\ s.subs \in SUBSET Run
      /\ s.lastSaid \in Token
  BY ServerFields
<1>1. p \in Prompt /\ q \in Seq(Prompt)
  BY <1>0
<1>2. MaxRuns \in Nat /\ MaxPrompts \in Nat
  BY BoundsAssumption
<1>3. s.lastRun \in Nat /\ r = s.lastRun + 1 /\ r \in Run /\ r \in Token
  BY <1>0, <1>2 DEF Token, Run
<1>4. f \in [Run -> 0..MaxPrompts] /\ b \in SUBSET Run /\ p \in 0..MaxPrompts
      /\ "running" \in Status
  <2> HIDE DEF p, r
  <2> QED BY <1>1, <1>2, <1>3, ServerFields DEF Prompt, Status
<1>5. m \in DownMsg /\ m.type = "run" /\ m.run = r
  BY <1>0, <1>1, <1>3 DEF DownMsg, RunPrompt
<1>6. Start(s) = v
  BY Zenon DEF Start, ServerState
<1> HIDE DEF r, p, q, f, m, v
<1>7. t \in ServerState
  <2> HIDE DEF b
  <2> QED BY <1>1, <1>3, <1>4, Zenon DEF ServerState
<1>8. /\ t.replayed = s.replayed /\ t.lastSaid = s.lastSaid
      /\ t.activeRun = r /\ t.subs = b /\ t.lastRun = r
      /\ t.down = s.down /\ t.entry = s.entry
  <2> HIDE DEF b
  <2> QED BY Zenon DEF ServerState
<1> HIDE DEF t
<1>9. PICK d : v = [t EXCEPT !.down = d]
  BY <1>5, <1>7, SendType DEF v
<1>10. /\ v.replayed = s.replayed /\ v.lastSaid = s.lastSaid
       /\ v.activeRun = r /\ v.subs = b /\ v.lastRun = r
  BY <1>7, <1>8, <1>9, Zenon DEF ServerState
<1>11. ASSUME s.replayed = {} PROVE OwnEar(v)
  <2>1. OwnEar(s) /\ s.activeRun = NoRun
    BY <1>11 DEF Sound
  <2>2. b = {r}
    BY <1>0, <2>1 DEF OwnEar, Run, NoRun
  <2>3. s.lastSaid <= r
    BY <1>0, <1>2, <1>3, <2>1 DEF OwnEar, Token
  <2> QED BY <1>10, <2>2, <2>3 DEF OwnEar
<1>12. ASSUME s.replayed = {}, k PROVE Alone(v, P)
  <2>1. Alone(s, P) /\ s.activeRun = NoRun
    BY <1>12 DEF Sound
  <2>2. P[r] = "none"
    BY <1>3, <2>1 DEF Alone
  <2>3. \A x \in Run : x # NoRun
    BY DEF Run, NoRun
  <2>4. \A x \in Run : P[x] \notin {"running", "asking"}
    BY <2>1, <2>3 DEF Alone
  <2>5. \A x \in Run : P[x] # "none" => x <= r
    BY <1>2, <1>3, <2>1 DEF Alone, Run
  <2>6. ASSUME NEW x \in Due(P, NoRun)
        PROVE  x \in Due(P, r) /\ x \in DownMsg /\ x.type # "run"
    BY <2>3 DEF Due, DownMsg
  <2>7. s.down \in [Conn -> Seq(Due(P, NoRun))]
    BY <2>1 DEF Alone
  <2>8. s.down \in [Conn -> Seq(Due(P, r))]
    BY <2>6, <2>7
  <2>9. \A c \in Conn : \A i \in 1..Len(s.down[c]) : s.down[c][i].type # "run"
    <3> SUFFICES ASSUME NEW c \in Conn, NEW i \in 1..Len(s.down[c])
                 PROVE  s.down[c][i].type # "run"
      OBVIOUS
    <3>1. s.down[c][i] \in Due(P, NoRun)
      BY <2>7
    <3> QED BY <2>6, <3>1
  <2>10. m \in Due(P, r)
    BY <1>5, <2>2 DEF Due
  <2>11. v.down \in [Conn -> Seq(Due(P, r))] /\ OnePrompt(v.down)
    <3>1. CASE ~Online(t)
      BY <1>8, <2>1, <2>8, <3>1 DEF SendToDevice, v, Alone
    <3>2. CASE Online(t)
      <4>1. t.entry \in Conn /\ t.down \in [Conn -> Seq(DownMsg)]
        BY <1>7, <3>2, BoundsAssumption, ServerFields DEF Online, NoConn, Conn
      <4>2. v.down = [t.down EXCEPT ![t.entry] = Append(@, m)]
        BY <1>7, <3>2, Zenon DEF v, SendToDevice, ServerState
      <4>3. Append(t.down[t.entry], m) \in Seq(Due(P, r))
        BY <1>8, <2>8, <2>10, <4>1
      <4>4. v.down \in [Conn -> Seq(Due(P, r))]
        BY <1>8, <2>8, <4>1, <4>2, <4>3
      <4>5. OnePrompt(t.down)
        BY <1>8, <2>1 DEF Alone
      <4>6. \A c \in Conn : \A i \in 1..Len(t.down[c]) : t.down[c][i].type # "run"
        BY <1>8, <2>9
      <4>7. OnePrompt([t.down EXCEPT ![t.entry] = Append(@, m)])
        BY <1>5, <4>1, <4>5, <4>6, OnePromptJoins
      <4> QED BY <4>2, <4>4, <4>7
    <3> QED BY <3>1, <3>2
  <2> QED BY <1>10, <2>4, <2>5, <2>11 DEF Alone
<1>13. Held(s, v, P, k)
  BY <1>10, <1>11, <1>12 DEF Held, Sound
<1> QED BY <1>6, <1>13

\* With the device offline no run begins.
LEMMA FailAllHeld ==
  ASSUME NEW s \in ServerState,
         NEW P, NEW k, Sound(s, P, k), s.replayed = {} => s.activeRun = NoRun
  PROVE  Held(s, FailAll(s), P, k)
<1> DEFINE t == FailAll(s)
<1>1. /\ t.replayed = s.replayed /\ t.lastSaid = s.lastSaid
      /\ t.activeRun \in {s.activeRun, NoRun} /\ t.subs = s.subs
      /\ t.lastRun = s.lastRun /\ t.down = s.down
  BY Zenon DEF FailAll, RecordMessage, ServerState
<1> HIDE DEF t
<1>2. Held(s, t, P, k)
  BY <1>1 DEF Held, Sound, OwnEar, Alone
<1> QED BY <1>2 DEF t

LEMMA DrainQueueHeld ==
  ASSUME NEW s \in ServerState, s.lastRun < MaxRuns,
         NEW P, NEW k, Sound(s, P, k),
         s.replayed = {} => s.busy \/ s.activeRun = NoRun
  PROVE  Held(s, DrainQueue(s), P, k)
<1>1. Held(s, s, P, k)
  BY RunUntouched, SameRunHeld
<1>2. CASE s.busy \/ s.queue = <<>>
  BY <1>1, <1>2 DEF DrainQueue
<1>3. CASE ~s.busy /\ s.queue # <<>> /\ Online(s)
  BY <1>3, StartHeld DEF DrainQueue
<1>4. CASE ~s.busy /\ s.queue # <<>> /\ ~Online(s)
  BY <1>4, FailAllHeld DEF DrainQueue
<1> QED BY <1>2, <1>3, <1>4

LEMMA OnDoneHeld ==
  ASSUME NEW s \in ServerState, s.lastRun < MaxRuns,
         NEW P, NEW k, Sound(s, P, k), s.replayed = {} => s.activeRun = NoRun
  PROVE  Held(s, OnDone(s), P, k)
<1> DEFINE st == IF s.status = "error" THEN s.status ELSE "idle"
           t == [s EXCEPT !.status = st, !.busy = FALSE, !.cancelling = FALSE,
                          !.inFlight = NoPrompt]
<1>1. st \in Status /\ NoPrompt \in 0..MaxPrompts
  BY BoundsAssumption, ServerFields DEF Status, NoPrompt
<1>2. OnDone(s) = DrainQueue(t)
  BY DEF OnDone
<1> HIDE DEF st
<1>3. t \in ServerState /\ SameRun(s, t)
  BY <1>1, Zenon DEF ServerState, SameRun
<1> HIDE DEF t
<1>4. Held(s, t, P, k)
  BY <1>3, SameRunHeld
<1>5. Held(t, DrainQueue(t), P, k)
  BY <1>3, <1>4, DrainQueueHeld DEF Held, SameRun
<1> QED BY <1>2, <1>4, <1>5, HeldTwice

\* After cleanup() of a run that is over, nothing is alive.
LEMMA CleanupHeld ==
  ASSUME NEW s \in ServerState, NEW P, NEW k, Sound(s, P, k),
         s.replayed = {} => /\ s.unsub = s.activeRun
                            /\ k => P[s.activeRun] \in Finished
  PROVE  Held(s, Cleanup(s), P, k) /\ Cleanup(s).activeRun = NoRun
<1> DEFINE b == s.subs \ {s.unsub}
           t == Cleanup(s)
<1>1. /\ t.replayed = s.replayed /\ t.lastSaid = s.lastSaid
      /\ t.activeRun = NoRun /\ t.subs = b
      /\ t.lastRun = s.lastRun /\ t.down = s.down
  BY Zenon DEF Cleanup, ServerState
<1> HIDE DEF t
<1>2. ASSUME s.replayed = {} PROVE OwnEar(t)
  BY <1>1, <1>2 DEF Sound, OwnEar
<1>3. ASSUME s.replayed = {}, k PROVE Alone(t, P)
  <2>1. Alone(s, P) /\ P[s.activeRun] \in Finished
    BY <1>3 DEF Sound
  <2>2. Due(P, s.activeRun) \subseteq Due(P, NoRun)
    BY <2>1 DEF Due, Finished
  <2>3. s.down \in [Conn -> Seq(Due(P, NoRun))]
    BY <2>1, <2>2 DEF Alone
  <2>4. \A r \in Run : P[r] \notin {"running", "asking"}
    BY <2>1 DEF Alone, Finished
  <2> QED BY <1>1, <2>1, <2>3, <2>4 DEF Alone
<1>4. Held(s, t, P, k)
  BY <1>1, <1>2, <1>3 DEF Held, Sound
<1> QED BY <1>1, <1>4 DEF t

\* onError leaves the runner alone, unless it replays a prompt.
LEMMA OnErrorPassed ==
  ASSUME NEW s \in ServerState, s.lastRun < MaxRuns, NEW e,
         NEW P, NEW k, Sound(s, P, k)
  PROVE  /\ Passed(s, OnError(s, e), P, k, e)
         /\ OnError(s, e).replayed = {} => SameRun(s, OnError(s, e))
<1>1. CASE OnError(s, e) = RecordMessage(s)
  BY <1>1, RunUntouched, SameRunHeld, HeldPassed
<1>2. CASE OnError(s, e) = RecordMessage(SetStatus(EmitAuthRequired(s), "error"))
  <2>1. SameRun(s, OnError(s, e))
    BY <1>2, Zenon DEF SameRun, RecordMessage, SetStatus, EmitAuthRequired, ServerState
  <2> QED BY <2>1, SameRunHeld, HeldPassed
<1>3. CASE OnError(s, e) = RecordMessage(SetStatus(s, "error"))
  <2>1. SameRun(s, OnError(s, e))
    BY <1>3, Zenon DEF SameRun, RecordMessage, SetStatus, ServerState
  <2> QED BY <2>1, SameRunHeld, HeldPassed
<1>4. CASE e = "stale" /\ s.inFlight # NoPrompt /\ OnError(s, e) = ReplayFresh(s)
  <2> DEFINE q == <<s.inFlight>> \o s.queue
             b == s.replayed \cup {s.inFlight}
             t == [s EXCEPT !.retried = TRUE, !.token = NoRun, !.busy = FALSE,
                            !.queue = q, !.inFlight = NoPrompt, !.replayed = b]
             v == RecordMessage(t)
  <2>1. s.inFlight \in Prompt /\ NoRun \in Token /\ NoPrompt \in 0..MaxPrompts
    BY <1>4, BoundsAssumption, ServerFields DEF Prompt, NoPrompt, NoRun, Token
  <2>2. /\ q \in Seq(Prompt) /\ b \in SUBSET Prompt
        /\ b # {} /\ s.replayed \subseteq b
    <3>1. q \in Seq(Prompt) /\ b \in SUBSET Prompt
      BY <2>1, ServerFields
    <3> QED BY <3>1
  <2>3. ReplayFresh(s) = DrainQueue(v)
    BY DEF ReplayFresh
  <2> HIDE DEF q, b
  <2>4. /\ t \in ServerState /\ t.replayed = b
        /\ t.lastSaid = s.lastSaid /\ t.lastRun = s.lastRun
    BY <2>1, <2>2, Zenon DEF ServerState
  <2> HIDE DEF t
  <2>5. v \in ServerState /\ SameRun(t, v)
    BY <2>4, RecordMessageType, RunUntouched
  <2> HIDE DEF v
  <2>6. v.replayed = b /\ v.lastSaid = s.lastSaid /\ v.lastRun = s.lastRun
    BY <2>4, <2>5 DEF SameRun
  <2>7. Sound(v, P, k)
    BY <2>2, <2>6 DEF Sound
  <2>8. Held(v, DrainQueue(v), P, k)
    BY <2>2, <2>5, <2>6, <2>7, DrainQueueHeld
  <2>9. Passed(s, v, P, k, e)
    BY <1>4, <2>2, <2>6, <2>7 DEF Passed
  <2>10. Passed(s, OnError(s, e), P, k, e)
    BY <1>4, <2>3, <2>8, <2>9, HeldPassed
  <2>11. OnError(s, e).replayed # {}
    BY <1>4, <2>2, <2>3, <2>6, <2>8 DEF Held
  <2> QED BY <2>10, <2>11
<1> QED BY <1>1, <1>2, <1>3, <1>4 DEF OnError

\* daemon_done of the active run: it is over, so that the next may begin.
LEMMA OnDaemonDonePassed ==
  ASSUME NEW s \in ServerState, s.lastRun + 2 <= MaxRuns, Consistent(s),
         NEW m, m.token \in Token, Heard(s, m.run),
         NEW P, NEW k, Sound(s, P, k),
         s.replayed = {} /\ k => P[m.run] \in Finished
  PROVE  Passed(s, OnDaemonDone(s, m), P, k, m.error)
<1> DEFINE t == IF m.token = NoRun THEN s ELSE OnResumeToken(s, m.token)
           e == IF m.error = "none" THEN t ELSE OnError(t, m.error)
           v == Cleanup(e)
<1>1. s.lastRun \in Nat /\ MaxRuns \in Nat
  BY BoundsAssumption, ServerFields DEF Token
<1>2. OnResumeToken(s, m.token) \in ServerState
  BY Zenon DEF ServerState, OnResumeToken
<1>3. t \in ServerState /\ SameRun(s, t)
  BY <1>2, RunUntouched
<1>4. OnDaemonDone(s, m) = OnDone(v)
  BY DEF OnDaemonDone
<1> HIDE DEF t
<1>5. Held(s, t, P, k) /\ t.lastRun = s.lastRun
  BY <1>3, SameRunHeld DEF SameRun
<1>6. Passed(t, e, P, k, m.error) /\ (e.replayed = {} => SameRun(t, e))
  <2>1. Held(t, t, P, k) /\ SameRun(t, t)
    BY <1>3, <1>5, RunUntouched, SameRunHeld DEF Held
  <2>2. t.lastRun < MaxRuns /\ Sound(t, P, k)
    BY <1>1, <1>5 DEF Held
  <2> QED BY <1>3, <2>1, <2>2, OnErrorPassed, HeldPassed
<1>7. e \in ServerState /\ e.lastRun \in {s.lastRun, s.lastRun + 1}
  BY <1>1, <1>3, <1>5, OnErrorType
<1> HIDE DEF e
<1>8. Passed(s, e, P, k, m.error)
  BY <1>5, <1>6, HeldPassed
<1>9. ASSUME e.replayed = {}
      PROVE  e.unsub = e.activeRun /\ (k => P[e.activeRun] \in Finished)
  <2>1. s.replayed = {}
    BY <1>8, <1>9 DEF Passed
  <2>2. m.run = s.activeRun
    BY <2>1 DEF Heard, Sound, OwnEar
  <2>3. e.unsub = s.unsub /\ e.activeRun = s.activeRun
    BY <1>3, <1>6, <1>9 DEF SameRun
  <2> QED BY <2>1, <2>2, <2>3 DEF Consistent
<1>10. /\ v \in ServerState /\ v.lastRun < MaxRuns /\ v.activeRun = NoRun
  BY <1>1, <1>7, CleanupType
<1>11. Held(e, v, P, k)
  BY <1>7, <1>8, <1>9, CleanupHeld DEF Passed
<1> HIDE DEF v
<1>12. Held(v, OnDone(v), P, k)
  BY <1>10, <1>11, OnDoneHeld DEF Held
<1> QED BY <1>4, <1>8, <1>11, <1>12, HeldTwice, HeldPassed

\* Text that is heard is the last run's.
LEMMA OnMessageLater ==
  ASSUME NEW s \in ServerState, NEW m, Heard(s, m.run),
         NEW P, NEW k, Sound(s, P, k)
  PROVE  /\ Later(s, OnMessage(s, m), P, k)
         /\ OnMessage(s, m).replayed = s.replayed
<1> DEFINE t == OnMessage(s, m)
<1>1. /\ t.replayed = s.replayed /\ t.lastSaid = m.run
      /\ t.activeRun = s.activeRun /\ t.subs = s.subs
      /\ t.lastRun = s.lastRun /\ t.down = s.down
  BY Zenon DEF OnMessage, EmitAuthRequired, RecordMessage, ServerState
<1> HIDE DEF t
<1>2. s.lastRun \in Nat
  BY BoundsAssumption, ServerFields DEF Token
<1>3. s.replayed = {} => m.run = s.lastRun
  BY DEF Heard, Sound, OwnEar
<1>4. Later(s, t, P, k)
  BY <1>1, <1>2, <1>3 DEF Later, Sound, OwnEar, Alone
<1> QED BY <1>1, <1>4 DEF t

\* Whatever the daemon sends, in any order and however late.
LEMMA ReceiveLater ==
  ASSUME NEW s \in ServerState, s.lastRun + 2 <= MaxRuns, Consistent(s),
         NEW c \in Conn, NEW m \in UpMsg,
         NEW P, NEW k, Sound(s, P, k),
         m.type = "done" /\ s.replayed = {} /\ k => P[m.run] \in Finished
  PROVE  /\ Later(s, Receive(s, c, m), P, k)
         /\ (m.type = "done" => m.error # "stale")
              => Receive(s, c, m).replayed = s.replayed
<1> DEFINE t == Receive(s, c, m)
<1>s. ASSUME SameRun(s, t)
      PROVE  Later(s, t, P, k) /\ t.replayed = s.replayed
  BY <1>s, SameRunHeld, PassedLater DEF SameRun
<1>1. CASE m.type = "hello"
  BY <1>s, <1>1, RunUntouched DEF Receive
<1>2. CASE m.type # "hello" /\ ~Heard(s, m.run)
  BY <1>s, <1>2, RunUntouched DEF Receive, HandleDaemonMessage
<1>3. CASE m.type = "say" /\ Heard(s, m.run)
  BY <1>3, OnMessageLater DEF Receive, HandleDaemonMessage
<1>4. CASE m.type = "ask" /\ Heard(s, m.run)
  BY <1>s, <1>4, RunUntouched DEF Receive, HandleDaemonMessage
<1>5. CASE m.type = "done" /\ Heard(s, m.run)
  <2>1. m.token \in Token
    BY <1>5 DEF UpMsg
  <2>2. Passed(s, OnDaemonDone(s, m), P, k, m.error)
    BY <1>5, <2>1, OnDaemonDonePassed
  <2>3. t = OnDaemonDone(s, m)
    BY <1>5 DEF Receive, HandleDaemonMessage
  <2> HIDE DEF t
  <2>4. Later(s, t, P, k) /\ (m.error # "stale" => t.replayed = s.replayed)
    BY <2>2, <2>3, PassedLater DEF Passed
  <2> QED BY <1>5, <2>4 DEF t
<1>6. m.type \in {"hello", "say", "ask", "done"}
  BY DEF UpMsg
<1> QED BY <1>1, <1>2, <1>3, <1>4, <1>5, <1>6

LEMMA EnqueuePromptHeld ==
  ASSUME NEW s \in ServerState, s.lastRun < MaxRuns, s.lastUser + 1 \in Prompt,
         Consistent(s), NEW P, NEW k, Sound(s, P, k)
  PROVE  Held(s, EnqueuePrompt(s, s.lastUser + 1), P, k)
<1> DEFINE p == s.lastUser + 1
           q == Append(s.queue, p)
           t == [s EXCEPT !.alerted = FALSE, !.lastUser = p, !.queue = q]
           v == RecordMessage(t)
<1>1. q \in Seq(Prompt) /\ p \in 0..MaxPrompts
  BY ServerFields DEF Prompt
<1>2. EnqueuePrompt(s, p) = DrainQueue(v)
  BY DEF EnqueuePrompt
<1> HIDE DEF p, q
<1>3. t \in ServerState /\ SameRun(s, t) /\ t.busy = s.busy
  BY <1>1, Zenon DEF ServerState, SameRun
<1> HIDE DEF t
<1>4. v \in ServerState /\ SameRun(t, v) /\ v.busy = t.busy
  <2>1. v \in ServerState /\ SameRun(t, v)
    BY <1>3, RecordMessageType, RunUntouched
  <2>2. v.busy = t.busy
    BY <1>3, Zenon DEF RecordMessage, ServerState
  <2> QED BY <2>1, <2>2
<1> HIDE DEF v
<1>5. SameRun(s, v)
  BY <1>3, <1>4 DEF SameRun
<1>6. Held(s, v, P, k)
  BY <1>5, SameRunHeld
<1>7. v.lastRun < MaxRuns /\ (v.busy \/ v.activeRun = NoRun) /\ Sound(v, P, k)
  BY <1>3, <1>4, <1>5, <1>6 DEF SameRun, Consistent, Held
<1>8. Held(v, DrainQueue(v), P, k)
  BY <1>4, <1>7, DrainQueueHeld
<1> QED BY <1>2, <1>6, <1>8, HeldTwice DEF p

LEMMA RetryHeld ==
  ASSUME NEW s \in ServerState, s.lastRun < MaxRuns, s.lastUser # NoPrompt,
         Consistent(s), NEW P, NEW k, Sound(s, P, k)
  PROVE  Held(s, RetryLastUserPrompt(s), P, k)
<1> DEFINE q == <<s.lastUser>> \o s.queue
           t == [s EXCEPT !.alerted = FALSE, !.queue = q]
<1>1. q \in Seq(Prompt)
  <2>1. s.lastUser \in Prompt /\ s.queue \in Seq(Prompt)
    BY BoundsAssumption, ServerFields DEF Prompt, NoPrompt
  <2> QED BY <2>1
<1>2. RetryLastUserPrompt(s) = DrainQueue(t)
  BY DEF RetryLastUserPrompt
<1> HIDE DEF q
<1>3. t \in ServerState /\ SameRun(s, t) /\ t.busy = s.busy
  BY <1>1, Zenon DEF ServerState, SameRun
<1> HIDE DEF t
<1>4. Held(s, t, P, k)
  BY <1>3, SameRunHeld
<1>5. t.lastRun < MaxRuns /\ (t.busy \/ t.activeRun = NoRun) /\ Sound(t, P, k)
  BY <1>3, <1>4 DEF SameRun, Consistent, Held
<1>6. Held(t, DrainQueue(t), P, k)
  BY <1>3, <1>5, DrainQueueHeld
<1> QED BY <1>2, <1>4, <1>6, HeldTwice

LEMMA ResolvePermissionHeld ==
  ASSUME NEW s \in ServerState, NEW r \in Run, NEW allow \in BOOLEAN,
         NEW P, NEW k, Sound(s, P, k)
  PROVE  Held(s, ResolvePermission(s, r, allow), P, k)
<1> DEFINE left == s.pending \ {r}
           u == [s EXCEPT !.pending = left]
           t == SendToDevice(u, Answer({r}, allow))
<1>1. left \in SUBSET Run
  BY ServerFields
<1>2. ResolvePermission(s, r, allow) =
        IF left = {} /\ s.status = "awaiting_permission"
        THEN SetStatus(t, "running") ELSE t
  BY DEF ResolvePermission
<1> HIDE DEF left
<1>3. u \in ServerState /\ SameRun(s, u)
  BY <1>1, Zenon DEF ServerState, SameRun
<1>4. Answer({r}, allow) \in DownMsg /\ Answer({r}, allow).type # "run"
  BY AnswerType DEF Answer
<1> HIDE DEF u
<1>5. Held(s, u, P, k)
  BY <1>3, SameRunHeld
<1>6. t \in ServerState /\ Held(u, t, P, k)
  BY <1>3, <1>4, <1>5, SendType, SendHeld DEF Held
<1> HIDE DEF t
<1>7. Held(s, t, P, k) /\ SameRun(t, SetStatus(t, "running"))
  BY <1>5, <1>6, HeldTwice, RunUntouched
<1>8. Held(t, SetStatus(t, "running"), P, k)
  BY <1>7, SameRunHeld DEF Held
<1> QED BY <1>2, <1>7, <1>8, HeldTwice

\* cancel() sends to the active run, and does not forget it.
LEMMA CancelSessionHeld ==
  ASSUME NEW s \in ServerState, NEW P, NEW k, Sound(s, P, k)
  PROVE  Held(s, CancelSession(s), P, k)
<1> DEFINE told   == IF s.activeRun = NoRun THEN s
                     ELSE SendToDevice(s, CancelRun(s.activeRun))
           denied == IF s.pending = {} THEN told
                     ELSE SendToDevice(told, Answer(s.pending, FALSE))
           t == [denied EXCEPT !.cancelling = TRUE, !.pending = {}, !.queue = <<>>]
<1>1. s.activeRun # NoRun => /\ CancelRun(s.activeRun) \in DownMsg
                             /\ CancelRun(s.activeRun).type # "run"
  BY BoundsAssumption, ServerFields DEF CancelRun, DownMsg, Token, Run, NoRun
<1>2. Answer(s.pending, FALSE) \in DownMsg /\ Answer(s.pending, FALSE).type # "run"
  BY ServerFields DEF Answer, DownMsg
<1>3. Held(s, s, P, k)
  BY RunUntouched, SameRunHeld
<1>4. told \in ServerState /\ Held(s, told, P, k)
  BY <1>1, <1>3, SendType, SendHeld
<1>5. CancelSession(s) = t
  BY DEF CancelSession
<1> HIDE DEF told
<1>6. denied \in ServerState /\ Held(s, denied, P, k)
  BY <1>2, <1>4, SendType, SendHeld, HeldTwice DEF Held
<1> HIDE DEF denied
<1>7. SameRun(denied, t)
  BY <1>6, Zenon DEF ServerState, SameRun
<1> HIDE DEF t
<1>8. Held(denied, t, P, k)
  BY <1>6, <1>7, SameRunHeld DEF Held
<1> QED BY <1>5, <1>6, <1>8, HeldTwice

-----------------------------------------------------------------------------
(* The steps *)

\* The daemon reports the end of a run when it is over.
Fact(P) == {m \in UpMsg : m.type = "done" => P[m.run] \in Finished}

Solo ==
    /\ Sound(srv, phase, used.restarts = 0)
    /\ srv.replayed = {} /\ used.restarts = 0 => up \in [Conn -> Seq(Fact(phase))]

\* No agent is ever given a resume token that it does not know: codex has none.
TokensAreKnown == Agent = "codex" \/ "stale" \notin Outcomes

Plain == {m \in UpMsg : m.type = "done" => m.error # "stale"}

NoReplay == srv.replayed = {} /\ up \in [Conn -> Seq(Plain)]

\* What a step does to the output recorded, and to the prompts replayed.
Rises ==
    /\ srv.replayed \subseteq srv'.replayed
    /\ srv.replayed = {} => srv'.lastSaid >= srv.lastSaid
    /\ TokensAreKnown /\ NoReplay => NoReplay'

\* What goes out on a socket keeps the kind of what is on it.
LEMMA SentOnKind ==
  ASSUME IInv, NEW F, up \in [Conn -> Seq(F)], NEW c, NEW m \in F
  PROVE  SentOn(c, m) \in [Conn -> Seq(F)]
<1>1. CASE c \in Conn
  <2>1. Append(up[c], m) \in Seq(F)
    BY <1>1
  <2> QED BY <2>1 DEF SentOn
<1>2. CASE c \notin Conn
  <2>1. [up EXCEPT ![c] = Append(@, m)] = up
    BY <1>2
  <2> QED BY <2>1 DEF SentOn
<1> QED BY <1>1, <1>2

\* Once a socket is given up, what is still on it is what was on it.
LEMMA HangUpSolo ==
  ASSUME IInv, Solo, HangUp, dconn # NoConn
  PROVE  /\ Held(srv, srv', phase, used.restarts = 0)
         /\ \A F : up \in [Conn -> Seq(F)] => up' \in [Conn -> Seq(F)]
<1>1. /\ dconn \in Conn /\ srv \in ServerState
      /\ srv.down \in [Conn -> Seq(DownMsg)]
  BY BoundsAssumption, ServerFields DEF IInv, RestOK, Conn, NoConn
<1>2. /\ srv'.replayed = srv.replayed /\ srv'.lastSaid = srv.lastSaid
      /\ srv'.activeRun = srv.activeRun /\ srv'.subs = srv.subs
      /\ srv'.lastRun = srv.lastRun
      /\ srv'.down = [srv.down EXCEPT ![dconn] = <<>>]
  BY <1>1, Zenon DEF HangUp, ServerState
<1>3. ASSUME Alone(srv, phase) PROVE Alone(srv', phase)
  <2>1. srv.down \in [Conn -> Seq(Due(phase, srv.activeRun))]
    BY <1>3 DEF Alone
  <2>2. srv'.down \in [Conn -> Seq(Due(phase, srv.activeRun))]
    BY <1>1, <1>2, <2>1
  <2>3. OnePrompt(srv'.down)
    BY <1>1, <1>2, <1>3, OnePromptLeaves DEF Alone
  <2> QED BY <1>2, <1>3, <2>2, <2>3 DEF Alone
<1>4. Held(srv, srv', phase, used.restarts = 0)
  BY <1>2, <1>3 DEF Solo, Held, Sound, OwnEar
<1>5. ASSUME NEW F, up \in [Conn -> Seq(F)]
      PROVE  up' \in [Conn -> Seq(F)]
  <2>1. PICK n \in 0..Len(up[dconn]) : up' = [up EXCEPT ![dconn] = SubSeq(@, 1, n)]
    BY DEF HangUp
  <2>2. up[dconn] \in Seq(F)
    BY <1>1, <1>5
  <2>3. SubSeq(up[dconn], 1, n) \in Seq(F)
    BY <2>2
  <2> QED BY <1>1, <1>5, <2>1, <2>3
<1> QED BY <1>4, <1>5

\* Runs that have begun go on, end, or are killed; none begins.
GoesOn(P, Q) ==
    \A r \in Run :
        /\ Q[r] \in {"running", "asking"} => P[r] \in {"running", "asking"}
        /\ Q[r] = "none" <=> P[r] = "none"
        /\ P[r] \in Finished => Q[r] \in Finished

LEMMA GoesOnSound ==
  ASSUME NEW s \in ServerState, NEW P, NEW Q, NEW k, GoesOn(P, Q), Sound(s, P, k)
  PROVE  Sound(s, Q, k) /\ Fact(P) \subseteq Fact(Q)
<1>1. Fact(P) \subseteq Fact(Q)
  BY DEF Fact, GoesOn, UpMsg
<1>2. ASSUME Alone(s, P) PROVE Alone(s, Q)
  <2>1. Due(P, s.activeRun) \subseteq Due(Q, s.activeRun)
    BY DEF Due, GoesOn, DownMsg
  <2>2. s.down \in [Conn -> Seq(Due(Q, s.activeRun))]
    BY <1>2, <2>1 DEF Alone
  <2> QED BY <1>2, <2>2 DEF Alone, GoesOn
<1> QED BY <1>1, <1>2 DEF Sound

\* However it ends, a run reports its end as its own, and only an agent with
\* unknown tokens reports one.
LEMMA ResultsPlain ==
  ASSUME IInv, NEW r \in Run
  PROVE  /\ \A m \in Results(r) : m \in UpMsg /\ m.type = "done" /\ m.run = r
         /\ TokensAreKnown => Results(r) \subseteq Plain
<1>1. resumeOf[r] \in Token
  BY DEF IInv, RestOK
<1>2. Results(r) \subseteq UpMsg
  BY <1>1, ResultsType
<1>3. \A t, e : Done(r, t, e).type = "done" /\ Done(r, t, e).run = r
                /\ Done(r, t, e).error = e
  BY DEF Done
<1>4. \A m \in ClaudeResults(r) :
         m.type = "done" /\ m.run = r /\ m.error \in Outcomes \cup {"none", "fail"}
  BY <1>3 DEF ClaudeResults
<1>5. \A m \in CodexResults(r) :
         m.type = "done" /\ m.run = r /\ m.error \in {"none", "fail"}
  BY <1>3 DEF CodexResults
<1>6. \A m \in Results(r) : m.type = "done" /\ m.run = r
  BY <1>4, <1>5 DEF Results
<1>7. ASSUME TokensAreKnown PROVE \A m \in Results(r) : m.error # "stale"
  <2>1. CASE Agent = "codex"
    BY <1>5, <2>1 DEF Results
  <2>2. CASE "stale" \notin Outcomes
    BY <1>4, <1>5, <2>2 DEF Results
  <2> QED BY <1>7, <2>1, <2>2 DEF TokensAreKnown
<1> QED BY <1>2, <1>6, <1>7 DEF Plain

\* The daemon takes the first message on its socket.  If it is a prompt, no other
\* is on its way, nothing is alive, and the run it starts is the active one.
LEMMA DaemonReceiveSolo ==
  ASSUME IInv, Solo, DaemonReceive
  PROVE  Solo' /\ Rises
<1> DEFINE d == srv.down
           m == Head(d[dconn])
           k == used.restarts = 0
           f == [d EXCEPT ![dconn] = Tail(@)]
<1>1. /\ srv \in ServerState
      /\ dconn \in Conn /\ d \in [Conn -> Seq(DownMsg)] /\ d[dconn] # <<>>
      /\ srv.lastSaid \in Nat
  BY BoundsAssumption, ServerFields DEF IInv, RestOK, DaemonReceive, Conn, NoConn, Token
<1>2. m \in DownMsg
  BY <1>1
<1>3. /\ srv'.replayed = srv.replayed /\ srv'.lastSaid = srv.lastSaid
      /\ srv'.activeRun = srv.activeRun /\ srv'.subs = srv.subs
      /\ srv'.lastRun = srv.lastRun /\ srv'.down = f
      /\ used' = used
  BY <1>1, Zenon DEF DaemonReceive, ServerState
<1>4. OnePrompt(d) => OnePrompt(f)
  BY <1>1, OnePromptLeaves
<1>5. ASSUME NEW F, d \in [Conn -> Seq(F)]
      PROVE  f \in [Conn -> Seq(F)] /\ m \in F
  <2>1. d[dconn] \in Seq(F)
    BY <1>1, <1>5
  <2>2. Tail(d[dconn]) \in Seq(F) /\ Head(d[dconn]) \in F
    BY <1>1, <2>1
  <2> QED BY <1>1, <1>5, <2>2
<1>6. Held(srv, srv', phase, k)
  <2>1. Alone(srv, phase) => Alone(srv', phase)
    BY <1>3, <1>4, <1>5 DEF Alone
  <2> QED BY <1>3, <2>1 DEF Held, Solo, Sound, OwnEar
<1>7. CASE UNCHANGED up /\ GoesOn(phase, phase')
  <2>1. srv' \in ServerState
    BY DaemonIInv DEF IInv, Daemon
  <2>2. Sound(srv', phase', k) /\ Fact(phase) \subseteq Fact(phase')
    BY <1>6, <1>7, <2>1, GoesOnSound DEF Held, Solo, Sound
  <2>3. up \in [Conn -> Seq(Fact(phase))] => up' \in [Conn -> Seq(Fact(phase'))]
    BY <1>7, <2>2
  <2> QED BY <1>1, <1>3, <1>7, <2>2, <2>3 DEF Solo, Rises, NoReplay
<1>8. CASE m.type = "cancel" /\ StopRun(m)
  <2>1. phase' = phase /\ up' = up
    BY <1>8 DEF StopRun
  <2> QED BY <1>7, <2>1 DEF GoesOn
<1>9. CASE m.type = "answer" /\ AnswerRun(m)
  <2>1. UNCHANGED up /\ GoesOn(phase, phase')
    BY <1>9 DEF AnswerRun, GoesOn, Finished
  <2> QED BY <1>7, <2>1
<1>10. CASE m.type = "run" /\ StartRun(m)
  <2> DEFINE r == m.run
             w == Done(r, NoRun, "fail")
  <2>1. r \in Run /\ phase \in [Run -> Phase]
    BY <1>2, <1>10 DEF DownMsg, IInv, RestOK
  <2>2. \/ phase' = [phase EXCEPT ![r] = "running"] /\ up' = up
        \/ phase' = [phase EXCEPT ![r] = "killed"] /\ up' = SentOn(dconn, w)
    BY <1>10 DEF StartRun
  <2>3. NoRun \in Token /\ "fail" \in Error
    BY BoundsAssumption DEF Token, NoRun, Error
  <2>4. w \in UpMsg /\ w \in Plain /\ w.type = "done" /\ w.run = r
    BY <2>1, <2>3 DEF Done, UpMsg, Plain
  <2> HIDE DEF w
  <2>5. TokensAreKnown /\ NoReplay => NoReplay'
    BY <1>3, <2>2, <2>4, SentOnKind DEF NoReplay
  <2>6. Rises
    BY <1>1, <1>3, <2>5 DEF Rises
  <2>7. ASSUME srv.replayed = {}, k
        PROVE  Alone(srv', phase') /\ up' \in [Conn -> Seq(Fact(phase'))]
    <3>1. Alone(srv, phase) /\ OwnEar(srv) /\ up \in [Conn -> Seq(Fact(phase))]
      BY <2>7 DEF Solo, Sound
    <3>2. r = srv.activeRun /\ phase[r] = "none"
      <4>1. m \in Due(phase, srv.activeRun)
        BY <1>5, <3>1 DEF Alone
      <4> HIDE DEF m
      <4> QED BY <1>10, <4>1 DEF Due
    <3>3. r = srv.lastRun /\ r <= srv.lastRun
      BY <2>1, <3>1, <3>2 DEF OwnEar, Run, NoRun
    <3>4. \A c \in Conn : \A i \in 1..Len(f[c]) : f[c][i].type # "run"
      BY <1>1, <1>10, <3>1, OnePromptLeaves DEF Alone
    <3>5. f \in [Conn -> Seq(Due(phase', r))]
      <4>1. f \in [Conn -> Seq(DownMsg)]
        BY <1>1, <1>5
      <4> SUFFICES ASSUME NEW c \in Conn PROVE f[c] \in Seq(Due(phase', r))
        BY <4>1
      <4> HIDE DEF f
      <4>2. f[c] \in Seq(DownMsg)
        BY <4>1
      <4>3. \A i \in 1..Len(f[c]) : f[c][i] \in DownMsg
        BY <4>2
      <4>4. \A i \in 1..Len(f[c]) : f[c][i] \in Due(phase', r)
        BY <3>4, <4>3 DEF Due
      <4> QED BY <4>2, <4>4
    <3>6. \A x \in Run : x # r => phase'[x] = phase[x]
      BY <2>1, <2>2
    <3>7. phase'[r] \in {"running", "killed"}
      BY <2>1, <2>2
    <3>8. \A x \in Run : phase'[x] \in {"running", "asking"} => x = r
      BY <3>1, <3>2, <3>6 DEF Alone
    <3>9. \A x \in Run : phase'[x] # "none" => x <= srv.lastRun
      BY <3>1, <3>3, <3>6 DEF Alone
    <3>10. Alone(srv', phase')
      <4> HIDE DEF f, r
      <4> QED BY <1>3, <1>4, <3>1, <3>2, <3>5, <3>8, <3>9 DEF Alone
    <3>11. Fact(phase) \subseteq Fact(phase')
      <4> HIDE DEF r
      <4> QED BY <3>2, <3>6 DEF Fact, Finished, UpMsg
    <3>12. up \in [Conn -> Seq(Fact(phase'))]
      BY <3>1, <3>11
    <3>13. CASE up' = up
      BY <3>10, <3>12, <3>13
    <3>14. CASE phase' = [phase EXCEPT ![r] = "killed"] /\ up' = SentOn(dconn, w)
      <4>1. w \in Fact(phase')
        BY <2>1, <2>4, <3>14 DEF Fact, Finished
      <4> QED BY <3>10, <3>12, <3>14, <4>1, SentOnKind
    <3> QED BY <2>2, <3>13, <3>14
  <2>8. srv.replayed = {} => OwnEar(srv')
    BY <1>3, <1>6 DEF Held, Sound
  <2>9. Sound(srv', phase', used'.restarts = 0)
    BY <1>3, <2>7, <2>8 DEF Sound
  <2> QED BY <1>3, <2>6, <2>7, <2>9 DEF Solo
<1> QED BY <1>8, <1>9, <1>10 DEF DaemonReceive

\* Every step keeps the runner with its one run.
LEMMA NextSolo ==
  ASSUME IInv, Solo, Next
  PROVE  Solo' /\ Rises
<1> DEFINE k == used.restarts = 0
<1>0. /\ srv \in ServerState /\ Consistent(srv) /\ Sound(srv, phase, k)
      /\ MaxRuns \in Nat /\ MaxPrompts \in Nat
      /\ srv.lastRun \in Nat /\ srv.lastUser \in Nat /\ srv.lastSaid \in Nat
      /\ used.retries \in Nat /\ used \in UsedType
  <2>1. srv \in ServerState /\ used \in UsedType
    BY DEF IInv, RestOK
  <2>2. /\ srv.lastRun \in Token /\ srv.lastSaid \in Token
        /\ srv.lastUser \in 0..MaxPrompts
    BY <2>1, ServerFields
  <2>3. used.retries \in Nat
    BY <2>1, BoundsAssumption DEF UsedType
  <2> QED BY <2>1, <2>2, <2>3, BoundsAssumption DEF IInv, Solo, Token
<1>h. ASSUME Held(srv, srv', phase, k), phase' = phase,
             used'.restarts = used.restarts,
             \A F : Hello \in F /\ up \in [Conn -> Seq(F)] => up' \in [Conn -> Seq(F)]
      PROVE  Solo' /\ Rises
  <2>1. Hello \in Fact(phase) /\ Hello \in Plain
    BY DEF Hello, Fact, Plain, UpMsg
  <2>2. Later(srv, srv', phase, k) /\ srv'.replayed = srv.replayed
    BY <1>0, <1>h, PassedLater DEF Held
  <2> QED BY <1>h, <2>1, <2>2 DEF Solo, Rises, NoReplay, Later
<1>u. ASSUME Held(srv, srv', phase, k), phase' = phase,
             used'.restarts = used.restarts, up' = up
      PROVE  Solo' /\ Rises
  BY <1>h, <1>u
<1>s. ASSUME SameRun(srv, srv')
      PROVE  Held(srv, srv', phase, k)
  BY <1>0, <1>s, SameRunHeld
<1>1. CASE SendPrompt
  <2>1. srv.lastUser + 1 \in Prompt /\ srv.lastRun < MaxRuns
    BY <1>0, <1>1 DEF SendPrompt, RoomFor, Prompt
  <2>2. /\ srv' = EnqueuePrompt(srv, srv.lastUser + 1)
        /\ phase' = phase /\ used' = used /\ up' = up
    BY <1>1 DEF SendPrompt, daemonVars
  <2> QED BY <1>0, <1>u, <2>1, <2>2, EnqueuePromptHeld
<1>2. CASE RetryLast
  <2>1. srv.lastRun < MaxRuns /\ srv.lastUser # NoPrompt
    BY <1>0, <1>2 DEF RetryLast, RoomFor
  <2>2. /\ srv' = RetryLastUserPrompt(srv)
        /\ phase' = phase /\ up' = up
    BY <1>2 DEF RetryLast, daemonVars
  <2>3. used'.restarts = used.restarts
    BY <1>0, <1>2, Zenon DEF RetryLast, UsedType
  <2> QED BY <1>0, <1>u, <2>1, <2>2, <2>3, RetryHeld
<1>3. ASSUME NEW r \in Run, NEW allow \in BOOLEAN, Respond(r, allow)
      PROVE  Solo' /\ Rises
  <2>1. /\ srv' = ResolvePermission(srv, r, allow)
        /\ phase' = phase /\ used' = used /\ up' = up
    BY <1>3 DEF Respond, daemonVars
  <2> QED BY <1>0, <1>u, <2>1, ResolvePermissionHeld
<1>4. CASE Cancel
  <2>1. srv' = CancelSession(srv) /\ phase' = phase /\ up' = up
    BY <1>4 DEF Cancel, daemonVars
  <2>2. used'.restarts = used.restarts
    BY <1>0, <1>4, Zenon DEF Cancel, UsedType
  <2> QED BY <1>0, <1>u, <2>1, <2>2, CancelSessionHeld
<1>5. CASE Delete
  <2>1. CancelSession(srv) \in ServerState
    BY <1>0, CancelSessionConsistent
  <2>2. SameRun(CancelSession(srv), srv')
    BY <1>5, <2>1, Zenon DEF Delete, ServerState, SameRun
  <2>3. phase' = phase /\ up' = up
    BY <1>5 DEF Delete, daemonVars
  <2>4. used'.restarts = used.restarts
    BY <1>0, <1>5, Zenon DEF Delete, UsedType
  <2>5. Held(srv, CancelSession(srv), phase, k)
    BY <1>0, CancelSessionHeld
  <2>6. Held(CancelSession(srv), srv', phase, k)
    BY <2>2, <2>5, SameRunHeld DEF Held
  <2>7. Held(srv, srv', phase, k)
    BY <2>5, <2>6, HeldTwice
  <2> QED BY <1>u, <2>3, <2>4, <2>7
<1>6. CASE LinkLost \/ ServerGone
  <2>1. HangUp /\ dconn # NoConn /\ phase' = phase
    BY <1>6 DEF LinkLost, ServerGone, daemonVars
  <2>2. used'.restarts = used.restarts
    BY <1>0, <1>6, Zenon DEF LinkLost, ServerGone, UsedType
  <2> QED BY <1>h, <2>1, <2>2, HangUpSolo
<1>7. CASE DaemonCrash
  <2>1. HangUp /\ dconn # NoConn
        /\ phase' = [r \in Run |-> IF phase[r] = "none" THEN "none" ELSE "killed"]
    BY <1>7 DEF DaemonCrash
  <2>2. used'.restarts = used.restarts
    BY <1>0, <1>7, Zenon DEF DaemonCrash, UsedType
  <2>3. GoesOn(phase, phase')
    BY <2>1 DEF GoesOn, Finished
  <2>4. /\ Held(srv, srv', phase, k)
        /\ \A F : up \in [Conn -> Seq(F)] => up' \in [Conn -> Seq(F)]
    BY <2>1, HangUpSolo
  <2>5. srv' \in ServerState
    BY <1>7, NetworkIInv DEF Network, IInv
  <2>6. Sound(srv', phase', k) /\ Fact(phase) \subseteq Fact(phase')
    BY <2>3, <2>4, <2>5, GoesOnSound DEF Held
  <2>7. up \in [Conn -> Seq(Fact(phase))] => up' \in [Conn -> Seq(Fact(phase'))]
    BY <2>4, <2>6
  <2> QED BY <1>0, <2>2, <2>4, <2>6, <2>7 DEF Held, Solo, Rises, NoReplay
<1>8. CASE Restart
  <2>1. /\ srv'.subs = FreshServer.subs /\ srv'.activeRun = FreshServer.activeRun
        /\ srv'.lastRun = srv.lastRun /\ srv'.lastSaid = srv.lastSaid
        /\ srv'.replayed = srv.replayed
    BY <1>8, FreshServerConsistent, Zenon DEF Restart, ServerState
  <2>2. srv'.subs = {} /\ srv'.activeRun = NoRun
    BY <2>1 DEF FreshServer
  <2>3. used'.restarts # 0
    <3>1. used.restarts \in Nat
      BY <1>0, BoundsAssumption DEF UsedType
    <3>2. used'.restarts = used.restarts + 1
      BY <1>0, <1>8, Zenon DEF Restart, UsedType
    <3> QED BY <3>1, <3>2
  <2>4. up' = [c \in Conn |-> <<>>]
    BY <1>8 DEF Restart
  <2>5. up' \in [Conn -> Seq(Plain)]
    BY <2>4
  <2>6. srv.replayed = {} => OwnEar(srv')
    BY <1>0, <2>1, <2>2 DEF Sound, OwnEar
  <2> QED BY <1>0, <2>1, <2>3, <2>5, <2>6 DEF Solo, Sound, Rises, NoReplay
<1>9. ASSUME NEW c \in Conn, Deliver(c)
      PROVE  Solo' /\ Rises
  <2> DEFINE m == Head(up[c])
  <2>1. /\ srv.lastRun + 2 <= MaxRuns
        /\ up \in [Conn -> Seq(UpMsg)] /\ up[c] # <<>>
        /\ srv' = Receive(srv, c, m) /\ up' = [up EXCEPT ![c] = Tail(@)]
        /\ phase' = phase /\ used' = used
    BY <1>9 DEF Deliver, RoomFor, IInv, RestOK, daemonVars
  <2>2. ASSUME NEW F, up \in [Conn -> Seq(F)]
        PROVE  m \in F /\ up' \in [Conn -> Seq(F)]
    <3>1. up[c] \in Seq(F)
      BY <2>2
    <3>2. Head(up[c]) \in F /\ Tail(up[c]) \in Seq(F)
      BY <2>1, <3>1
    <3> QED BY <2>1, <2>2, <3>2
  <2>3. m \in UpMsg
    BY <2>1, <2>2
  <2>4. m.type = "done" /\ srv.replayed = {} /\ k => phase[m.run] \in Finished
    <3>1. srv.replayed = {} /\ k => m \in Fact(phase)
      BY <2>2 DEF Solo
    <3> HIDE DEF m
    <3> QED BY <3>1 DEF Fact
  <2>5. NoReplay => (m.type = "done" => m.error # "stale")
    <3>1. NoReplay => m \in Plain
      BY <2>2 DEF NoReplay
    <3> HIDE DEF m
    <3> QED BY <3>1 DEF Plain
  <2> HIDE DEF m
  <2>6. /\ Later(srv, srv', phase, k)
        /\ (m.type = "done" => m.error # "stale") => srv'.replayed = srv.replayed
    BY <1>0, <2>1, <2>3, <2>4, ReceiveLater
  <2>7. Solo'
    BY <2>1, <2>2, <2>6 DEF Solo, Later
  <2>8. Rises
    BY <2>2, <2>5, <2>6 DEF Rises, NoReplay, Later
  <2> QED BY <2>7, <2>8
<1>10. ASSUME NEW c \in Conn, SocketEnds(c) \/ SocketCloses(c)
       PROVE  Solo' /\ Rises
  <2>1. SameRun(srv, srv')
    BY <1>0, <1>10, Zenon DEF SocketEnds, SocketCloses, ServerState, SameRun
  <2>2. phase' = phase /\ used' = used /\ up' = up
    BY <1>10 DEF SocketEnds, SocketCloses, daemonVars
  <2> QED BY <1>s, <1>u, <2>1, <2>2
<1>11. CASE Dial
  <2>1. SameRun(srv, srv')
    BY <1>0, <1>11, Zenon DEF Dial, ServerState, SameRun
  <2>2. /\ phase' = phase /\ used' = used
        /\ up' = [up EXCEPT ![nconn + 1] = <<Hello>>]
    BY <1>11 DEF Dial, daemonVars
  <2>3. \A F : Hello \in F /\ up \in [Conn -> Seq(F)] => up' \in [Conn -> Seq(F)]
    <3> SUFFICES ASSUME NEW F, Hello \in F, up \in [Conn -> Seq(F)]
                 PROVE  up' \in [Conn -> Seq(F)]
      OBVIOUS
    <3>1. <<Hello>> \in Seq(F)
      OBVIOUS
    <3> QED BY <2>2, <3>1
  <2> QED BY <1>h, <1>s, <2>1, <2>2, <2>3
<1>12. CASE DaemonReceive
  BY <1>12, DaemonReceiveSolo
<1>13. ASSUME NEW r \in Run, NEW m \in UpMsg,
              srv' = srv, used'.restarts = used.restarts,
              GoesOn(phase, phase'),
              m.type = "done" => phase'[m.run] \in Finished,
              TokensAreKnown => m \in Plain,
              up' = SentOn(via[r], m)
       PROVE  Solo' /\ Rises
  <2>1. Sound(srv, phase', k) /\ Fact(phase) \subseteq Fact(phase')
    BY <1>0, <1>13, GoesOnSound
  <2>2. ASSUME up \in [Conn -> Seq(Fact(phase))]
        PROVE  up' \in [Conn -> Seq(Fact(phase'))]
    <3>1. up \in [Conn -> Seq(Fact(phase'))]
      BY <2>1, <2>2
    <3>2. m \in Fact(phase')
      BY <1>13 DEF Fact
    <3> QED BY <1>13, <3>1, <3>2, SentOnKind
  <2>3. TokensAreKnown /\ NoReplay => NoReplay'
    BY <1>13, SentOnKind DEF NoReplay
  <2> QED BY <1>0, <1>13, <2>1, <2>2, <2>3 DEF Solo, Rises
<1>14. ASSUME NEW r \in Run, NEW auth \in BOOLEAN, Speak(r, auth)
       PROVE  Solo' /\ Rises
  <2>1. Say(r, auth) \in UpMsg /\ Say(r, auth).type # "done"
    BY DEF Say, UpMsg
  <2>2. used'.restarts = used.restarts
    BY <1>0, <1>14, Zenon DEF Speak, UsedType
  <2>3. srv' = srv /\ phase' = phase /\ up' = SentOn(via[r], Say(r, auth))
    BY <1>14 DEF Speak
  <2>4. GoesOn(phase, phase')
    BY <2>3 DEF GoesOn
  <2>5. Say(r, auth) \in Plain
    BY <2>1 DEF Plain
  <2> QED BY <1>13, <2>1, <2>2, <2>3, <2>4, <2>5
<1>15. ASSUME NEW r \in Run, AskTool(r)
       PROVE  Solo' /\ Rises
  <2>1. Ask(r) \in UpMsg /\ Ask(r).type # "done"
    BY DEF Ask, UpMsg
  <2>2. used'.restarts = used.restarts
    BY <1>0, <1>15, Zenon DEF AskTool, UsedType
  <2>3. srv' = srv /\ up' = SentOn(via[r], Ask(r))
    BY <1>15 DEF AskTool
  <2>4. GoesOn(phase, phase')
    BY <1>15 DEF AskTool, GoesOn, Finished, IInv, RestOK
  <2>5. Ask(r) \in Plain
    BY <2>1 DEF Plain
  <2> QED BY <1>13, <2>1, <2>2, <2>3, <2>4, <2>5
<1>16. ASSUME NEW r \in Run, EndRun(r)
       PROVE  Solo' /\ Rises
  <2>1. PICK m \in Results(r) : up' = SentOn(via[r], m)
    BY <1>16 DEF EndRun
  <2>2. /\ m \in UpMsg /\ m.type = "done" /\ m.run = r
        /\ TokensAreKnown => m \in Plain
    BY ResultsPlain
  <2>3. srv' = srv /\ used' = used /\ phase' = [phase EXCEPT ![r] = "ended"]
        /\ phase[r] \in {"running", "asking"}
    BY <1>16 DEF EndRun
  <2>4. GoesOn(phase, phase') /\ phase'[r] \in Finished
    BY <2>3 DEF GoesOn, Finished, IInv, RestOK
  <2> QED BY <1>13, <2>1, <2>2, <2>3, <2>4
<1>17. CASE User
  BY <1>1, <1>2, <1>3, <1>4, <1>5, <1>17 DEF User, CancelAll
<1>18. CASE Network
  BY <1>6, <1>7, <1>8, <1>18 DEF Network
<1>19. CASE Server
  BY <1>9, <1>10, <1>19 DEF Server
<1>20. CASE Daemon
  BY <1>6, <1>11, <1>12, <1>14, <1>15, <1>16, <1>20 DEF Daemon
<1> QED BY <1>17, <1>18, <1>19, <1>20 DEF Next

LEMMA InitSolo == Init => Solo /\ NoReplay
<1> SUFFICES ASSUME Init PROVE Solo /\ NoReplay
  OBVIOUS
<1>1. /\ srv.replayed = {} /\ srv.subs = {} /\ srv.activeRun = NoRun
      /\ srv.lastRun = 0 /\ srv.lastSaid = 0 /\ srv.down = [c \in Conn |-> <<>>]
  BY DEF Init, FreshServer, NoRun
<1>2. up = [c \in Conn |-> <<>>] /\ phase = [r \in Run |-> "none"]
  BY DEF Init
<1>3. up \in [Conn -> Seq(Plain)] /\ up \in [Conn -> Seq(Fact(phase))]
  BY <1>2
<1>4. srv.down \in [Conn -> Seq(Due(phase, srv.activeRun))] /\ OnePrompt(srv.down)
  BY <1>1 DEF OnePrompt
<1>5. Alone(srv, phase)
  BY <1>2, <1>4 DEF Alone
<1> QED BY <1>1, <1>3, <1>5 DEF Solo, NoReplay, Sound, OwnEar

LEMMA AlwaysSolo == Spec => []Solo /\ [][Rises]_vars
<1>1. IInv /\ Solo /\ [Next]_vars => Solo' /\ [Rises]_vars
  <2> SUFFICES ASSUME IInv, Solo, [Next]_vars
               PROVE  Solo' /\ [Rises]_vars
    OBVIOUS
  <2>1. CASE Next
    BY <2>1, NextSolo
  <2>2. CASE UNCHANGED vars
    BY <2>2 DEF vars, daemonVars, Solo
  <2> QED BY <2>1, <2>2
<1> QED BY <1>1, InitSolo, SpecIInv, PTL DEF Spec

\* Where no resume token is ever unknown, no prompt is replayed.
LEMMA NeverReplayed ==
  ASSUME TokensAreKnown
  PROVE  Spec => []NoReplay
<1>1. NoReplay /\ [Rises]_vars => NoReplay'
  <2> SUFFICES ASSUME NoReplay, [Rises]_vars PROVE NoReplay'
    OBVIOUS
  <2>1. CASE Rises
    BY <2>1 DEF Rises
  <2>2. CASE UNCHANGED vars
    BY <2>2 DEF vars, NoReplay
  <2> QED BY <2>1, <2>2
<1> QED BY <1>1, InitSolo, AlwaysSolo, PTL DEF Spec

\* As long as the server has not restarted and no prompt was replayed for an
\* unknown resume token, the daemon executes nothing behind the session's back:
\* whatever fails, is cancelled, deleted, lost or late, the only run that is alive or
\* about to be is the runner's active one.
THEOREM NothingBehindTheBack ==
  Spec => [](srv.replayed = {} /\ used.restarts = 0 => LiveRunIsActive)
<1>1. IInv /\ Solo => (srv.replayed = {} /\ used.restarts = 0 => LiveRunIsActive)
  <2> SUFFICES ASSUME IInv, Solo, srv.replayed = {}, used.restarts = 0,
                      NEW r \in Run, Live(r)
               PROVE  r = srv.activeRun
    BY DEF LiveRunIsActive
  <2>1. Alone(srv, phase)
    BY DEF Solo, Sound
  <2>2. CASE phase[r] \in {"running", "asking"}
    BY <2>1, <2>2 DEF Alone
  <2>3. CASE phase[r] \notin {"running", "asking"}
    <3>1. /\ dconn # NoConn
          /\ \E i \in 1..Len(srv.down[dconn]) :
                srv.down[dconn][i].type = "run" /\ srv.down[dconn][i].run = r
      BY <2>3 DEF Live
    <3>2. PICK i \in 1..Len(srv.down[dconn]) :
                srv.down[dconn][i].type = "run" /\ srv.down[dconn][i].run = r
      BY <3>1
    <3>3. dconn \in Conn
      BY <3>1, BoundsAssumption DEF IInv, RestOK, Conn, NoConn
    <3>4. srv.down[dconn] \in Seq(Due(phase, srv.activeRun))
      BY <2>1, <3>3 DEF Alone
    <3>5. srv.down[dconn][i] \in Due(phase, srv.activeRun)
      BY <3>4
    <3> QED BY <3>2, <3>5 DEF Due
  <2> QED BY <2>2, <2>3
<1> QED BY <1>1, AlwaysSolo, SpecIInv, PTL

\* The same by the constants: with known tokens, as codex' sessions have, and without
\* restarts, two runs of a session never work in its directory at once.
THEOREM LoneRun ==
  ASSUME TokensAreKnown, MaxRestarts = 0
  PROVE  Spec => []LiveRunIsActive
<1>1. IInv => used.restarts = 0
  BY DEF IInv, RestOK, UsedType
<1>2. NoReplay => srv.replayed = {}
  BY DEF NoReplay
<1> QED BY <1>1, <1>2, NothingBehindTheBack, NeverReplayed, SpecIInv, PTL

\* The output of two turns never interleaves in the chat where tokens are known,
\* whatever the daemon's goroutines forward late, on whichever socket, and across
\* restarts of the server.
THEOREM OutputInOrder ==
  ASSUME TokensAreKnown
  PROVE  Spec => OutputInTurnOrder
<1>1. NoReplay /\ [Rises]_vars => [srv'.lastSaid >= srv.lastSaid]_vars
  BY DEF NoReplay, Rises
<1> QED BY <1>1, AlwaysSolo, NeverReplayed, PTL DEF OutputInTurnOrder
=============================================================================
