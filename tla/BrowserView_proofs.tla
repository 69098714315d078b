------------------------- MODULE BrowserView_proofs -------------------------
(***************************************************************************)
(* Proofs about BrowserView, for every number of tabs, sessions, prompts,  *)
(* requests, clicks and failures.                                          *)
(*                                                                         *)
(* What a tab shows and what is on its way to it make up one view, that of *)
(* the tab once it has handled it all.  Every handler of the server keeps  *)
(* that view true: what it changes in a session it also sends.             *)
(***************************************************************************)
EXTENDS BrowserView, Lists_proofs, TLAPS

-----------------------------------------------------------------------------
(* Types *)

Session ==
    [made : BOOLEAN, live : BOOLEAN, status : Status, history : Seq(Msg),
     read : Nat, same : SUBSET Nat, queue : Seq(Prompt), busy : BOOLEAN,
     cancelling : BOOLEAN, pending : SUBSET Req]

ClientMsg ==
    [type : {"create_session", "cancel_all"}]
    \cup [type : {"send_prompt"}, sid : Sid, prompt : Prompt]
    \cup [type : {"permission_response"}, sid : Sid, req : Req]
    \cup [type : {"cancel", "delete_session"}, sid : Sid]

ServerMsg ==
    [type : {"sessions"}, status : [Sid -> Shown]]
    \cup [type : {"session_created", "session_updated"}, sid : Sid, status : Status]
    \cup [type : {"session_deleted"}, sid : Sid]
    \cup [type : {"message"}, sid : Sid, message : Msg]
    \cup [type : {"permission_request", "permission_resolved"}, sid : Sid, req : Req]

Question == [sid : Sid, req : Req]

Page ==
    [queue : Seq(ClientMsg), sessions : [Sid -> Shown], messages : [Sid -> Seq(Msg)],
     active : Sid \cup {NoSession}, modals : Seq(Question)]

\* Nothing is on its way to a tab whose socket is not open.
Downs == {d \in [Tab -> Seq(ServerMsg)] : \A t \in Tab : t \notin open => d[t] = <<>>}

\* What a handler works on.
Works == [sess : [Sid -> Session], alive : BOOLEAN, fresh : BOOLEAN, down : Downs]

-----------------------------------------------------------------------------
(* Views: what a page shows, the order of the sessions and the one in front  *)
(* left out.                                                                 *)

View == [sessions : [Sid -> Shown], messages : [Sid -> Seq(Msg)], modals : Seq(Question)]

ViewOf(x) == [sessions |-> x.sessions, messages |-> x.messages, modals |-> x.modals]

\* What a message makes of the statuses, the histories and the modals shown.
Statuses(f, m) ==
    CASE m.type = "sessions" -> m.status
      [] m.type \in {"session_created", "session_updated"} -> [f EXCEPT ![m.sid] = m.status]
      [] m.type = "session_deleted" -> [f EXCEPT ![m.sid] = "absent"]
      [] OTHER -> f

Panes(f, m) ==
    CASE m.type = "session_deleted" -> [f EXCEPT ![m.sid] = <<>>]
      [] m.type = "message" -> [f EXCEPT ![m.sid] = Append(@, m.message)]
      [] OTHER -> f

Modals(l, m) ==
    CASE m.type = "permission_request" -> Append(l, [sid |-> m.sid, req |-> m.req])
      [] m.type = "permission_resolved" -> Keep(l, {p \in Range(l) : p.req # m.req})
      [] OTHER -> l

Taken(y, m) == [sessions |-> Statuses(y.sessions, m), messages |-> Panes(y.messages, m),
                modals |-> Modals(y.modals, m)]

LEMMA Numbers == Sid \subseteq Nat \ {0} /\ Req \subseteq Nat \ {0} /\ Prompt \subseteq Nat \ {0}
                 /\ MaxSessions \in Nat /\ MaxAsks \in Nat /\ MaxTexts \in Nat /\ MaxClicks \in Nat /\ MaxFaults \in Nat
BY BoundsAssumption DEF Sid, Req, Prompt

\* What a message has in it.
LEMMA MessageFields ==
    ASSUME NEW m \in ServerMsg
    PROVE  /\ m.type \in {"sessions", "session_created", "session_updated", "session_deleted",
                          "message", "permission_request", "permission_resolved"}
           /\ m.type = "sessions" => m.status \in [Sid -> Shown]
           /\ m.type # "sessions" => m.sid \in Sid
           /\ m.type \in {"session_created", "session_updated"} => m.status \in Status
           /\ m.type = "message" => m.message \in Msg
           /\ m.type \in {"permission_request", "permission_resolved"} => m.req \in Req
BY DEF ServerMsg

LEMMA TakenTyped ==
    ASSUME NEW y \in View, NEW m \in ServerMsg
    PROVE  Taken(y, m) \in View
<1>1. y.sessions \in [Sid -> Shown] /\ y.messages \in [Sid -> Seq(Msg)] /\ y.modals \in Seq(Question)
  BY DEF View
<1>2. Status \subseteq Shown /\ "absent" \in Shown
  BY DEF Shown
<1>3. Statuses(y.sessions, m) \in [Sid -> Shown]
  BY <1>1, <1>2, MessageFields DEF Statuses
<1>4. Panes(y.messages, m) \in [Sid -> Seq(Msg)]
  <2>1. <<>> \in Seq(Msg) /\ (m.type = "message" => Append(y.messages[m.sid], m.message) \in Seq(Msg))
    BY <1>1, MessageFields
  <2> QED
    BY <1>1, <2>1, MessageFields DEF Panes
<1>5. Modals(y.modals, m) \in Seq(Question)
  <2>1. m.type = "permission_request" =>
            Append(y.modals, [sid |-> m.sid, req |-> m.req]) \in Seq(Question)
    BY <1>1, MessageFields DEF Question
  <2>2. \A S : Keep(y.modals, S) \in Seq(Question)
    BY <1>1, KeepList
  <2> QED
    BY <1>1, <2>1, <2>2 DEF Modals
<1> QED
  BY <1>3, <1>4, <1>5 DEF Taken, View

\* The least of a set of sessions.
LEMMA MinSession ==
    ASSUME NEW S \in SUBSET Sid, S # {}
    PROVE  Min(S) \in S
BY Least, Numbers DEF Min

LEMMA PageWith ==
    ASSUME NEW x \in Page, NEW f
    PROVE  [x EXCEPT !.sessions = f] =
              [queue |-> x.queue, sessions |-> f, messages |-> x.messages,
               active |-> x.active, modals |-> x.modals]
<1> DEFINE z == [x EXCEPT !.sessions = f]
<1>1. x = [queue |-> x.queue, sessions |-> x.sessions, messages |-> x.messages,
           active |-> x.active, modals |-> x.modals]
  BY DEF Page
<1>2. z.queue = x.queue /\ z.sessions = f /\ z.messages = x.messages /\ z.active = x.active
      /\ z.modals = x.modals
  BY <1>1
<1>3. z = [queue |-> z.queue, sessions |-> z.sessions, messages |-> z.messages,
           active |-> z.active, modals |-> z.modals]
  BY <1>1
<1> QED
  BY <1>2, <1>3

\* A page handles a message as its view does.
LEMMA PageTakes ==
    ASSUME NEW x \in Page, NEW m \in ServerMsg
    PROVE  /\ HandleServerMessage(x, m) \in Page
           /\ HandleServerMessage(x, m).queue = x.queue
           /\ ViewOf(HandleServerMessage(x, m)) = Taken(ViewOf(x), m)
           /\ ViewOf(x) \in View
<1> DEFINE y == HandleServerMessage(x, m)
           v == ViewOf(x)
<1>1. /\ x.queue \in Seq(ClientMsg) /\ x.sessions \in [Sid -> Shown]
      /\ x.messages \in [Sid -> Seq(Msg)] /\ x.active \in Sid \cup {NoSession}
      /\ x.modals \in Seq(Question)
  BY DEF Page
<1>2. /\ v \in View /\ v.sessions = x.sessions /\ v.messages = x.messages /\ v.modals = x.modals
  BY <1>1 DEF ViewOf, View
<1>3. /\ y.queue = x.queue
      /\ y.sessions = Statuses(x.sessions, m)
      /\ y.messages = Panes(x.messages, m)
      /\ y.modals = Modals(x.modals, m)
      /\ y.active \in Sid \cup {NoSession}
      /\ y = [queue |-> y.queue, sessions |-> y.sessions, messages |-> y.messages,
              active |-> y.active, modals |-> y.modals]
  <2>1. CASE m.type = "sessions"
    <3> DEFINE z == [x EXCEPT !.sessions = m.status]
    <3>1. y = IF x.active # NoSession \/ Listed(z) = {} THEN z
              ELSE [z EXCEPT !.active = Min(Listed(z))]
      BY <2>1 DEF HandleServerMessage, ShowSessions
    <3>2. Listed(z) \subseteq Sid
      BY DEF Listed
    <3>3. Listed(z) # {} => Min(Listed(z)) \in Sid
      BY <3>2, MinSession
    <3>4. z = [queue |-> x.queue, sessions |-> m.status, messages |-> x.messages,
               active |-> x.active, modals |-> x.modals]
      BY PageWith
    <3>5. Statuses(x.sessions, m) = m.status /\ Panes(x.messages, m) = x.messages
          /\ Modals(x.modals, m) = x.modals
      BY <2>1 DEF Statuses, Panes, Modals
    <3> HIDE DEF z, y
    <3>6. \A s : [z EXCEPT !.active = s] =
                [queue |-> x.queue, sessions |-> m.status, messages |-> x.messages,
                 active |-> s, modals |-> x.modals]
      BY <3>4
    <3>7. \E s \in Sid \cup {NoSession} :
             y = [queue |-> x.queue, sessions |-> m.status, messages |-> x.messages,
                  active |-> s, modals |-> x.modals]
      BY <1>1, <3>1, <3>3, <3>4, <3>6
    <3> QED
      BY <3>5, <3>7
  <2>2. CASE m.type \in {"session_created", "session_updated"}
    <3>1. y = IF m.type = "session_created"
              THEN [x EXCEPT !.sessions[m.sid] = m.status, !.active = m.sid]
              ELSE [x EXCEPT !.sessions[m.sid] = m.status]
      BY <2>2 DEF HandleServerMessage
    <3>2. Statuses(x.sessions, m) = [x.sessions EXCEPT ![m.sid] = m.status]
          /\ Panes(x.messages, m) = x.messages /\ Modals(x.modals, m) = x.modals
      BY <2>2 DEF Statuses, Panes, Modals
    <3>3. m.sid \in Sid
      BY <2>2, MessageFields
    <3> HIDE DEF y
    <3> QED
      BY <1>1, <3>1, <3>2, <3>3 DEF Page
  <2>3. CASE m.type = "session_deleted"
    <3>1. y = ShowDeleted(x, m.sid)
      BY <2>3 DEF HandleServerMessage
    <3>2. Statuses(x.sessions, m) = [x.sessions EXCEPT ![m.sid] = "absent"]
          /\ Panes(x.messages, m) = [x.messages EXCEPT ![m.sid] = <<>>]
          /\ Modals(x.modals, m) = x.modals
      BY <2>3 DEF Statuses, Panes, Modals
    <3> HIDE DEF y
    <3> QED
      BY <1>1, <3>1, <3>2 DEF Page, ShowDeleted
  <2>4. CASE m.type = "message"
    <3>1. y = [x EXCEPT !.messages[m.sid] = Append(@, m.message)]
      BY <2>4 DEF HandleServerMessage
    <3>2. Statuses(x.sessions, m) = x.sessions
          /\ Panes(x.messages, m) = [x.messages EXCEPT ![m.sid] = Append(@, m.message)]
          /\ Modals(x.modals, m) = x.modals
      BY <2>4 DEF Statuses, Panes, Modals
    <3> HIDE DEF y
    <3> QED
      BY <1>1, <3>1, <3>2 DEF Page
  <2>5. CASE m.type = "permission_request"
    <3>1. y = [x EXCEPT !.modals = Append(@, [sid |-> m.sid, req |-> m.req])]
      BY <2>5 DEF HandleServerMessage
    <3>2. Statuses(x.sessions, m) = x.sessions /\ Panes(x.messages, m) = x.messages
          /\ Modals(x.modals, m) = Append(x.modals, [sid |-> m.sid, req |-> m.req])
      BY <2>5 DEF Statuses, Panes, Modals
    <3> HIDE DEF y
    <3> QED
      BY <1>1, <3>1, <3>2 DEF Page
  <2>6. CASE m.type = "permission_resolved"
    <3>1. y = [x EXCEPT !.modals = Keep(@, {p \in Range(@) : p.req # m.req})]
      BY <2>6 DEF HandleServerMessage
    <3>2. Statuses(x.sessions, m) = x.sessions /\ Panes(x.messages, m) = x.messages
          /\ Modals(x.modals, m) = Keep(x.modals, {p \in Range(x.modals) : p.req # m.req})
      BY <2>6 DEF Statuses, Panes, Modals
    <3> HIDE DEF y
    <3> QED
      BY <1>1, <3>1, <3>2 DEF Page
  <2> QED
    BY <2>1, <2>2, <2>3, <2>4, <2>5, <2>6, MessageFields
<1> HIDE DEF y
<1>4. Taken(v, m) \in View
  BY <1>2, TakenTyped
<1>5. Taken(v, m) = [sessions |-> y.sessions, messages |-> y.messages, modals |-> y.modals]
  BY <1>2, <1>3 DEF Taken
<1>6. y.sessions \in [Sid -> Shown] /\ y.messages \in [Sid -> Seq(Msg)] /\ y.modals \in Seq(Question)
  BY <1>4, <1>5 DEF View
<1>7. y \in Page
  BY <1>1, <1>3, <1>6 DEF Page
<1>8. ViewOf(y) = Taken(v, m)
  BY <1>5 DEF ViewOf
<1> QED
  BY <1>2, <1>3, <1>7, <1>8 DEF y

-----------------------------------------------------------------------------
(* The view x turns into y by the messages q. *)

Seen(x, q, y) ==
    \E f \in [0..Len(q) -> View] :
        /\ f[0] = x /\ f[Len(q)] = y
        /\ \A i \in 1..Len(q) : f[i] = Taken(f[i - 1], q[i])

LEMMA SeenNothing ==
    ASSUME NEW x \in View, NEW y
    PROVE  Seen(x, <<>>, y) <=> x = y
<1> DEFINE f == [i \in 0..0 |-> x]
<1>1. f \in [0..0 -> View] /\ f[0] = x
  OBVIOUS
<1> HIDE DEF f
<1>2. Len(<<>>) = 0
  OBVIOUS
<1>3. x = y => Seen(x, <<>>, y)
  BY <1>1, <1>2 DEF Seen
<1>4. Seen(x, <<>>, y) => x = y
  BY <1>2 DEF Seen
<1> QED
  BY <1>3, <1>4

LEMMA SeenMore ==
    ASSUME NEW x \in View, NEW q \in Seq(ServerMsg), NEW y \in View, Seen(x, q, y),
           NEW m \in ServerMsg
    PROVE  Seen(x, Append(q, m), Taken(y, m))
<1> DEFINE n == Len(q)
           l == Append(q, m)
<1>1. PICK f \in [0..n -> View] :
          f[0] = x /\ f[n] = y /\ \A i \in 1..n : f[i] = Taken(f[i - 1], q[i])
  BY DEF Seen
<1>2. n \in Nat /\ Len(l) = n + 1 /\ l[n + 1] = m /\ \A i \in 1..n : l[i] = q[i]
  OBVIOUS
<1>3. Taken(y, m) \in View
  BY TakenTyped
<1> DEFINE g == [i \in 0..(n + 1) |-> IF i = n + 1 THEN Taken(y, m) ELSE f[i]]
<1> HIDE DEF n, l
<1>4. g \in [0..(n + 1) -> View]
  BY <1>1, <1>2, <1>3
<1>5. g[0] = x /\ g[n + 1] = Taken(y, m)
  BY <1>1, <1>2
<1>6. ASSUME NEW i \in 1..(n + 1) PROVE g[i] = Taken(g[i - 1], l[i])
  <2>1. CASE i = n + 1
    <3>1. g[i - 1] = y
      BY <1>1, <1>2, <2>1
    <3> QED
      BY <1>2, <1>5, <2>1, <3>1
  <2>2. CASE i # n + 1
    <3>1. i \in 1..n /\ g[i] = f[i] /\ g[i - 1] = f[i - 1] /\ l[i] = q[i]
      BY <1>2, <2>2
    <3> QED
      BY <1>1, <3>1
  <2> QED
    BY <2>1, <2>2
<1> HIDE DEF g
<1>7. Seen(x, l, Taken(y, m))
  BY <1>2, <1>4, <1>5, <1>6 DEF Seen
<1> QED
  BY <1>7 DEF l

LEMMA SeenFirst ==
    ASSUME NEW x \in View, NEW q \in Seq(ServerMsg), NEW y \in View, Seen(x, q, y), q # <<>>
    PROVE  Seen(Taken(x, Head(q)), Tail(q), y)
<1> DEFINE n == Len(q)
           l == Tail(q)
<1>1. PICK f \in [0..n -> View] :
          f[0] = x /\ f[n] = y /\ \A i \in 1..n : f[i] = Taken(f[i - 1], q[i])
  BY DEF Seen
<1>2. n \in Nat \ {0} /\ Len(l) = n - 1 /\ Head(q) = q[1] /\ \A i \in 1..(n - 1) : l[i] = q[i + 1]
  OBVIOUS
<1> DEFINE g == [i \in 0..(n - 1) |-> f[i + 1]]
<1> HIDE DEF n, l
<1>3. g \in [0..(n - 1) -> View]
  BY <1>1, <1>2
<1>4. g[0] = Taken(x, Head(q)) /\ g[n - 1] = y
  BY <1>1, <1>2
<1>5. ASSUME NEW i \in 1..(n - 1) PROVE g[i] = Taken(g[i - 1], l[i])
  <2>1. i + 1 \in 1..n /\ g[i] = f[i + 1] /\ g[i - 1] = f[(i + 1) - 1] /\ l[i] = q[i + 1]
    BY <1>2
  <2> QED
    BY <1>1, <2>1
<1> HIDE DEF g
<1>6. Seen(Taken(x, Head(q)), l, y)
  BY <1>2, <1>3, <1>4, <1>5 DEF Seen
<1> QED
  BY <1>6 DEF l

-----------------------------------------------------------------------------
(* Suffixes *)

EndsIn(q, h) == \E p \in Seq(Msg) : q = p \o h

LEMMA EndsInSuffix ==
    ASSUME NEW q \in Seq(Msg), NEW h \in Seq(Msg), EndsIn(q, h)
    PROVE  IsSuffix(h, q)
<1>1. PICK p \in Seq(Msg) : q = p \o h
  BY DEF EndsIn
<1> DEFINE n == Len(h)
           a == Reverse(h)
           b == Reverse(q)
<1>2. /\ Len(q) = Len(p) + n /\ Len(p) \in Nat /\ n \in Nat
      /\ \A i \in 1..(Len(p) + n) : i > Len(p) => q[i] = h[i - Len(p)]
  BY <1>1
<1>3. a = [i \in 1..n |-> h[n - i + 1]] /\ b = [i \in 1..Len(q) |-> q[Len(q) - i + 1]]
  BY DEF Reverse
<1>4. a \in Seq(Msg) /\ b \in Seq(Msg) /\ Len(a) = n /\ Len(b) = Len(q)
  BY <1>2, <1>3
<1>5. ASSUME NEW i \in 1..n PROVE a[i] = b[i]
  <2>1. /\ Len(q) - i + 1 \in 1..(Len(p) + n) /\ Len(q) - i + 1 > Len(p)
        /\ (Len(q) - i + 1) - Len(p) = n - i + 1 /\ i \in 1..Len(q)
    BY <1>2
  <2>2. q[Len(q) - i + 1] = h[n - i + 1]
    BY <1>2, <2>1
  <2> QED
    BY <1>3, <2>1, <2>2
<1> HIDE DEF n, a, b
<1>6. SubSeq(a, 1, n) = [i \in 1..n |-> a[i]]
  BY <1>2, <1>4
<1>7. SubSeq(b, 1, n) = [i \in 1..n |-> b[i]]
  BY <1>2, <1>4
<1>8. SubSeq(a, 1, n) = SubSeq(b, 1, n)
  BY <1>5, <1>6, <1>7
<1>9. IsPrefix(a, b)
  BY <1>2, <1>4, <1>8 DEF IsPrefix
<1> QED
  BY <1>9 DEF IsSuffix, a, b

LEMMA EndsInWhole ==
    ASSUME NEW h \in Seq(Msg)
    PROVE  EndsIn(h, h)
<1>1. <<>> \in Seq(Msg) /\ h = <<>> \o h
  OBVIOUS
<1> QED
  BY <1>1 DEF EndsIn

LEMMA EndsInNothing ==
    ASSUME NEW q \in Seq(Msg)
    PROVE  EndsIn(q, <<>>)
<1>1. q = q \o <<>>
  OBVIOUS
<1> QED
  BY <1>1 DEF EndsIn

LEMMA EndsInMore ==
    ASSUME NEW q \in Seq(Msg), NEW h \in Seq(Msg), EndsIn(q, h), NEW m \in Msg
    PROVE  EndsIn(Append(q, m), Append(h, m))
<1>1. PICK p \in Seq(Msg) : q = p \o h
  BY DEF EndsIn
<1>2. Append(p \o h, m) = p \o Append(h, m)
  OBVIOUS
<1> QED
  BY <1>1, <1>2 DEF EndsIn

-----------------------------------------------------------------------------
(* What is true of the sessions, of the views and of the prompts. *)

\* The messages read back are numbered from 1 in some order, the others in
\* theirs; the first message after a start of the server has its own time.
Numbered(x) ==
    /\ x.read \in 0..Len(x.history)
    /\ \A i \in 1..x.read : x.history[i].n \in 1..x.read
    /\ \A i \in (x.read + 1)..Len(x.history) : x.history[i].n = i
    /\ \A i, j \in 1..Len(x.history) : x.history[i].n = x.history[j].n => i = j
    /\ x.same \subseteq (x.read + 2)..Len(x.history)

\* Requests are numbered up to n.  A session that is gone has no prompts, and
\* if it still has a run, it is an orphan.
SoundOne(x, s, O, n) ==
    /\ x.live => x.made
    /\ ~x.made => /\ x.status = "idle" /\ x.history = <<>>
                  /\ ~x.busy /\ x.pending = {}
    /\ ~x.live => x.queue = <<>> /\ (x.busy => s \in O)
    /\ x.pending \subseteq 1..n
    /\ Numbered(x)

\* A request is one session's.
Apart(f) == \A s, z \in Sid, r \in Req : r \in f[s].pending /\ r \in f[z].pending => s = z

Sound(f, O, n) == Apart(f) /\ \A s \in Sid : SoundOne(f[s], s, O, n)

\* The view y shows the sessions f, but for the orphans O, and of the requests
\* in R up to k those that are pending.
Told(y, f, O, R, k) ==
    /\ \A s \in Sid :
          IF f[s].live
          THEN y.sessions[s] = f[s].status /\ EndsIn(y.messages[s], f[s].history)
          ELSE y.sessions[s] # "absent" => s \in O
    /\ \A s \in Sid, r \in R : r <= k =>
          ([sid |-> s, req |-> r] \in Range(y.modals) <=> f[s].live /\ r \in f[s].pending)
    /\ \A p \in Range(y.modals) : p.req <= k

\* The orphans there will be when a handler has made f of the sessions.
Orphaned(f) == orphans \cup {s \in Sid : sess[s].live /\ sess[s].busy /\ ~f[s].live}

\* The requests on their way are among the first k.
Bounded(q, k) == \A m \in Range(q) : m.type = "permission_request" => m.req <= k

\* Every connected tab is on its way to a view that is true.
Truth(v, R, k) ==
    \A t \in open :
        /\ Bounded(v.down[t], k)
        /\ \E y \in View : /\ Seen(ViewOf(tab[t]), v.down[t], y)
                           /\ Told(y, v.sess, Orphaned(v.sess), R[t], k)

\* The prompts in a history, and those in a list of messages to the server.
Said(x)    == {m \in Range(x.history) : m.text # NoPrompt}
Waiting(q) == {m.prompt : m \in {m \in Range(q) : m.type = "send_prompt"}}

Ascending(q) ==
    \A i, j \in DOMAIN q :
        i < j /\ q[i].type = "send_prompt" /\ q[j].type = "send_prompt" =>
            q[i].prompt < q[j].prompt

\* What tab t still has to say comes after all it has said.
Coming(q, t, f, au, n) ==
    /\ Ascending(q)
    /\ \A p \in Waiting(q) :
          /\ au[p] = t /\ p <= n
          /\ \A s \in Sid : \A m \in Said(f[s]) : au[m.text] = t => m.text < p

\* What has been said is in order.
InOrder(f, au, n) ==
    /\ \A s \in Sid : \A m \in Said(f[s]) : m.text <= n
    /\ \A s, z \in Sid : \A m \in Said(f[s]), k \in Said(f[z]) :
          m.text = k.text => s = z /\ m = k
    /\ \A s \in Sid : \A m, k \in Said(f[s]) :
          au[m.text] = au[k.text] /\ m.n < k.n => m.text < k.text

Prompts(f, ups, x, au, n) ==
    /\ InOrder(f, au, n)
    /\ \A t \in Tab : Coming(ups[t], t, f, au, n) /\ Coming(x[t].queue, t, f, au, n)

\* The sessions f have the histories there were, and more.
Grown(f) ==
    \A s \in Sid :
        /\ Len(sess[s].history) <= Len(f[s].history)
        /\ \A i \in 1..Len(sess[s].history) :
              /\ f[s].history[i] = sess[s].history[i]
              /\ i \in f[s].same => i \in sess[s].same

\* Where a handler is, when the messages ups have still to come; requests are
\* numbered up to n and those up to k have been sent to the tabs.
Good(v, ups, R, n, k) ==
    /\ v \in Works
    /\ Sound(v.sess, Orphaned(v.sess), n)
    /\ Truth(v, R, k)
    /\ Prompts(v.sess, ups, tab, author, used.prompts)
    /\ Grown(v.sess)

Counts == [creates : Nat, prompts : Nat, says : Nat, asks : 0..MaxAsks, clicks : Nat,
           faults : Nat]

\* The variables, but for the sessions' contents.
Placed ==
    /\ sess \in [Sid -> Session]
    /\ alive \in BOOLEAN
    /\ open \subseteq Tab
    /\ open # {} => alive
    /\ up \in [Tab -> Seq(ClientMsg)]
    /\ down \in [Tab -> Seq(ServerMsg)]
    /\ tab \in [Tab -> Page]
    /\ used \in Counts
    /\ since \in [Tab -> SUBSET (1..used.asks)]
    /\ orphans \subseteq Sid
    /\ author \in [Prompt -> Tab \cup {CHOOSE t \in Tab : TRUE}]
    /\ \A t \in Tab : IF t \in open THEN tab[t].queue = <<>>
                      ELSE up[t] = <<>> /\ down[t] = <<>>
    /\ \A t \in Tab : \A p \in Range(tab[t].modals) : p.req <= used.asks

\* Every connected tab is on its way to the truth.
Truths ==
    \A t \in open :
        /\ Bounded(down[t], used.asks)
        /\ \E y \in View : /\ Seen(ViewOf(tab[t]), down[t], y)
                           /\ Told(y, sess, orphans, since[t], used.asks)

\* The inductive invariant.
ViewInv ==
    /\ Placed
    /\ Sound(sess, orphans, used.asks)
    /\ Truths
    /\ Prompts(sess, up, tab, author, used.prompts)

-----------------------------------------------------------------------------
(* One session is changed. *)

LEMMA WorkFields ==
    ASSUME NEW v \in Works
    PROVE  /\ v.sess \in [Sid -> Session] /\ v.alive \in BOOLEAN /\ v.fresh \in BOOLEAN
           /\ v.down \in [Tab -> Seq(ServerMsg)] /\ v.down \in Downs
BY DEF Works, Downs

LEMMA SessionFields ==
    ASSUME NEW x \in Session
    PROVE  /\ x.made \in BOOLEAN /\ x.live \in BOOLEAN /\ x.status \in Status
           /\ x.history \in Seq(Msg) /\ x.read \in Nat /\ x.same \in SUBSET Nat
           /\ x.queue \in Seq(Prompt) /\ x.busy \in BOOLEAN /\ x.cancelling \in BOOLEAN
           /\ x.pending \in SUBSET Req
BY DEF Session

LEMMA PageFields ==
    ASSUME NEW x \in Page
    PROVE  /\ x.queue \in Seq(ClientMsg) /\ x.sessions \in [Sid -> Shown]
           /\ x.messages \in [Sid -> Seq(Msg)] /\ x.active \in Sid \cup {NoSession}
           /\ x.modals \in Seq(Question) /\ ViewOf(x) \in View
BY DEF Page, ViewOf, View

LEMMA OrphanedAlike ==
    ASSUME NEW f, NEW g, \A z \in Sid : g[z].live = f[z].live
    PROVE  Orphaned(g) = Orphaned(f)
BY DEF Orphaned

LEMMA ToldAlike ==
    ASSUME NEW f, NEW g, NEW y, NEW O, NEW R, NEW k, Told(y, f, O, R, k),
           \A z \in Sid : /\ g[z].live = f[z].live /\ g[z].status = f[z].status
                          /\ g[z].history = f[z].history /\ g[z].pending = f[z].pending
    PROVE  Told(y, g, O, R, k)
BY DEF Told

LEMMA PromptsSaid ==
    ASSUME NEW f, NEW g, NEW ups, NEW x, NEW au, NEW n, Prompts(f, ups, x, au, n),
           \A z \in Sid : Said(g[z]) = Said(f[z])
    PROVE  Prompts(g, ups, x, au, n)
<1>1. InOrder(g, au, n)
  BY DEF Prompts, InOrder
<1>2. \A q, t : Coming(q, t, f, au, n) => Coming(q, t, g, au, n)
  BY DEF Coming
<1> QED
  BY <1>1, <1>2 DEF Prompts

LEMMA PromptsAlike ==
    ASSUME NEW f, NEW g, NEW ups, NEW x, NEW au, NEW n, Prompts(f, ups, x, au, n),
           \A z \in Sid : g[z].history = f[z].history
    PROVE  Prompts(g, ups, x, au, n)
<1>1. \A z \in Sid : Said(g[z]) = Said(f[z])
  BY DEF Said
<1> QED
  BY <1>1, PromptsSaid

LEMMA GrownAlike ==
    ASSUME NEW f, NEW g, Grown(f),
           \A z \in Sid : g[z].history = f[z].history /\ g[z].same = f[z].same
    PROVE  Grown(g)
BY DEF Grown

LEMMA SoundWith ==
    ASSUME NEW f \in [Sid -> Session], NEW s \in Sid, NEW x \in Session, NEW O, NEW Q, NEW n,
           Sound(f, O, n), O \subseteq Q, SoundOne(x, s, Q, n), x.pending \subseteq f[s].pending
    PROVE  Sound([f EXCEPT ![s] = x], Q, n)
<1> DEFINE g == [f EXCEPT ![s] = x]
<1>1. g[s] = x /\ \A z \in Sid : z # s => g[z] = f[z]
  OBVIOUS
<1>2. \A z \in Sid : g[z].pending \subseteq f[z].pending
  BY <1>1
<1> HIDE DEF g
<1>3. Apart(g)
  BY <1>2 DEF Sound, Apart
<1>4. ASSUME NEW z \in Sid PROVE SoundOne(g[z], z, Q, n)
  <2>1. CASE z = s
    BY <1>1, <2>1
  <2>2. CASE z # s
    <3>1. g[z] = f[z] /\ SoundOne(f[z], z, O, n)
      BY <1>1, <2>2 DEF Sound
    <3> QED
      BY <3>1 DEF SoundOne
  <2> QED
    BY <2>1, <2>2
<1>5. Sound(g, Q, n)
  BY <1>3, <1>4 DEF Sound
<1> QED
  BY <1>5 DEF g

LEMMA BoundedMore ==
    ASSUME NEW q \in Seq(ServerMsg), NEW k, NEW l, Bounded(q, k), \A i \in Nat : i <= k => i <= l
    PROVE  Bounded(q, l)
<1>1. ASSUME NEW m \in Range(q), m.type = "permission_request" PROVE m.req <= l
  <2>1. m \in ServerMsg
    BY ListRange
  <2>2. m.req \in Nat /\ m.req <= k
    BY <1>1, <2>1, MessageFields, Numbers DEF Bounded
  <2> QED
    BY <2>2
<1> QED
  BY <1>1 DEF Bounded

LEMMA BoundedAppend ==
    ASSUME NEW q \in Seq(ServerMsg), NEW k, Bounded(q, k), NEW m \in ServerMsg,
           m.type = "permission_request" => m.req <= k
    PROVE  Bounded(Append(q, m), k)
<1>1. Range(Append(q, m)) = Range(q) \cup {m}
  BY AppendList
<1> QED
  BY <1>1 DEF Bounded

\* The tabs are told nothing, and need not be.
LEMMA Silence ==
    ASSUME Placed, NEW v \in Works, NEW w, NEW R, NEW P, NEW k, NEW l, Truth(v, R, k),
           \A i \in Nat : i <= k => i <= l,
           \A t \in open : w.down[t] = v.down[t],
           \A t \in open, y \in View :
               Told(y, v.sess, Orphaned(v.sess), R[t], k) =>
               Told(y, w.sess, Orphaned(w.sess), P[t], l)
    PROVE  Truth(w, P, l)
<1>1. ASSUME NEW t \in open PROVE Bounded(w.down[t], l)
  <2>1. v.down[t] \in Seq(ServerMsg)
    BY WorkFields DEF Placed
  <2>2. Bounded(v.down[t], l)
    BY <2>1, BoundedMore DEF Truth
  <2> QED
    BY <2>2
<1> QED
  BY <1>1 DEF Truth

\* What nobody is shown.
Alike(x, y) ==
    /\ x.made = y.made /\ x.live = y.live /\ x.status = y.status
    /\ x.history = y.history /\ x.read = y.read /\ x.same = y.same /\ x.pending = y.pending

LEMMA Quietly ==
    ASSUME Placed, NEW v, NEW ups, NEW R, NEW n, NEW k, Good(v, ups, R, n, k),
           NEW s \in Sid, NEW x \in Session, Alike(x, v.sess[s]),
           x.busy => v.sess[s].busy \/ v.sess[s].live, x.queue = <<>> \/ v.sess[s].live,
           NEW w \in Works, w.down = v.down, w.sess = [v.sess EXCEPT ![s] = x]
    PROVE  Good(w, ups, R, n, k) /\ Orphaned(w.sess) = Orphaned(v.sess)
<1> DEFINE f == v.sess
           g == w.sess
           O == Orphaned(f)
<1>1. f \in [Sid -> Session] /\ v \in Works /\ Sound(f, O, n) /\ Truth(v, R, k)
      /\ Prompts(f, ups, tab, author, used.prompts) /\ Grown(f)
  BY WorkFields DEF Good
<1>2. g[s] = x /\ \A z \in Sid : z # s => g[z] = f[z]
  BY <1>1
<1>3. \A z \in Sid : Alike(g[z], f[z])
  BY <1>2 DEF Alike
<1>4. Orphaned(g) = O
  BY <1>3, OrphanedAlike DEF Alike
<1>5. SoundOne(f[s], s, O, n)
  BY <1>1 DEF Sound
<1>6. f[s] \in Session /\ x.busy \in BOOLEAN /\ x.live \in BOOLEAN
  BY <1>1, SessionFields
<1>7. SoundOne(x, s, O, n)
  <2>1. ~x.live => x.queue = <<>> /\ (x.busy => s \in O)
    BY <1>5, <1>6 DEF SoundOne, Alike
  <2>2. ~x.made => ~x.busy
    BY <1>5, <1>6 DEF SoundOne, Alike
  <2>3. Numbered(x)
    BY <1>5 DEF SoundOne, Numbered, Alike
  <2> QED
    BY <1>5, <2>1, <2>2, <2>3 DEF SoundOne, Alike
<1> HIDE DEF f, g, O
<1>8. Sound(g, O, n)
  <2>1. x.pending \subseteq f[s].pending
    BY DEF Alike, f
  <2>2. Sound([f EXCEPT ![s] = x], O, n)
    BY <1>1, <1>7, <2>1, SoundWith
  <2> QED
    BY <2>2 DEF f, g
<1>9. Truth(w, R, k)
  <2>1. ASSUME NEW t \in open, NEW y \in View, Told(y, f, O, R[t], k) PROVE Told(y, g, O, R[t], k)
    BY <1>3, <2>1, ToldAlike DEF Alike
  <2> QED
    BY <1>1, <1>4, <2>1, Silence DEF f, g, O
<1>10. Prompts(g, ups, tab, author, used.prompts) /\ Grown(g)
  BY <1>1, <1>3, PromptsAlike, GrownAlike DEF Alike
<1> QED
  BY <1>4, <1>8, <1>9, <1>10 DEF Good, f, g, O

-----------------------------------------------------------------------------
(* Status, messages and requests. *)

\* The record v with x for the session s.
Put(v, s, x) == [v EXCEPT !.sess[s] = x]

LEMMA SetFields ==
    ASSUME NEW v \in Works, NEW s \in Sid, NEW x \in Session
    PROVE  /\ Put(v, s, x) \in Works /\ Put(v, s, x).sess = [v.sess EXCEPT ![s] = x]
           /\ Put(v, s, x).down = v.down /\ Put(v, s, x).alive = v.alive
           /\ Put(v, s, x).fresh = v.fresh
<1> DEFINE w == Put(v, s, x)
           f == [v.sess EXCEPT ![s] = x]
<1>1. f \in [Sid -> Session]
  BY WorkFields
<1>2. w = [v EXCEPT !.sess = f]
  BY DEF Put
<1> HIDE DEF f, w
<1>3. /\ w \in Works /\ w.sess = f
      /\ w.down = v.down /\ w.alive = v.alive /\ w.fresh = v.fresh
  BY <1>1, <1>2 DEF Works
<1> QED
  BY <1>3 DEF f, w

LEMMA SendFields ==
    ASSUME open \subseteq Tab, NEW v \in Works, NEW ts, NEW m \in ServerMsg
    PROVE  /\ SendTo(v, ts, m) \in Works /\ SendTo(v, ts, m).sess = v.sess
           /\ SendTo(v, ts, m).alive = v.alive /\ SendTo(v, ts, m).fresh = v.fresh
           /\ \A t \in Tab : SendTo(v, ts, m).down[t] =
                  IF t \in ts \cap open THEN Append(v.down[t], m) ELSE v.down[t]
<1> DEFINE w == SendTo(v, ts, m)
           d == [t \in Tab |-> IF t \in ts \cap open THEN Append(v.down[t], m) ELSE v.down[t]]
<1>1. d \in Downs
  <2>1. \A t \in Tab : v.down[t] \in Seq(ServerMsg) /\ Append(v.down[t], m) \in Seq(ServerMsg)
    BY WorkFields
  <2>2. \A t \in Tab : t \notin open => v.down[t] = <<>>
    BY WorkFields DEF Downs
  <2> QED
    BY <2>1, <2>2 DEF Downs
<1>2. w = [v EXCEPT !.down = d]
  BY DEF SendTo
<1>3. \A t \in Tab : d[t] = IF t \in ts \cap open THEN Append(v.down[t], m) ELSE v.down[t]
  OBVIOUS
<1> HIDE DEF d, w
<1>4. w \in Works /\ w.sess = v.sess /\ w.alive = v.alive /\ w.fresh = v.fresh /\ w.down = d
  BY <1>1, <1>2 DEF Works
<1> QED
  BY <1>3, <1>4 DEF w

LEMMA BroadcastFields ==
    ASSUME Placed, NEW v \in Works, NEW m \in ServerMsg
    PROVE  /\ Broadcast(v, m) \in Works /\ Broadcast(v, m).sess = v.sess
           /\ Broadcast(v, m).alive = v.alive /\ Broadcast(v, m).fresh = v.fresh
           /\ \A t \in open : Broadcast(v, m).down[t] = Append(v.down[t], m)
<1>1. open \subseteq Tab
  BY DEF Placed
<1> DEFINE w == SendTo(v, Tab, m)
<1>2. /\ w \in Works /\ w.sess = v.sess /\ w.alive = v.alive /\ w.fresh = v.fresh
      /\ \A t \in Tab : w.down[t] = IF t \in Tab \cap open THEN Append(v.down[t], m)
                                    ELSE v.down[t]
  BY <1>1, SendFields
<1>3. Broadcast(v, m) = w
  BY DEF Broadcast
<1> HIDE DEF w
<1> QED
  BY <1>1, <1>2, <1>3

\* On each open socket the message m follows, which makes the views that were
\* true of v true of w.
Tells(v, w, m, R, k, l) ==
    /\ m.type = "permission_request" => m.req <= l
    /\ \A i \in Nat : i <= k => i <= l
    /\ \A t \in open :
          /\ w.down[t] = Append(v.down[t], m)
          /\ \A y \in View : Told(y, v.sess, Orphaned(v.sess), R[t], k) =>
                              Told(Taken(y, m), w.sess, Orphaned(w.sess), R[t], l)

LEMMA TellsTrue ==
    ASSUME Placed, NEW v \in Works, NEW w \in Works, NEW R, NEW k, NEW l, Truth(v, R, k),
           NEW m \in ServerMsg, Tells(v, w, m, R, k, l)
    PROVE  Truth(w, R, l)
<1> SUFFICES ASSUME NEW t \in open
             PROVE  /\ Bounded(w.down[t], l)
                    /\ \E y \in View : /\ Seen(ViewOf(tab[t]), w.down[t], y)
                                       /\ Told(y, w.sess, Orphaned(w.sess), R[t], l)
  BY DEF Truth
<1>1. t \in Tab /\ tab[t] \in Page
  BY DEF Placed
<1>2. PICK y \in View : Seen(ViewOf(tab[t]), v.down[t], y)
                        /\ Told(y, v.sess, Orphaned(v.sess), R[t], k)
  BY DEF Truth
<1>3. ViewOf(tab[t]) \in View /\ v.down[t] \in Seq(ServerMsg)
  BY <1>1, PageFields, WorkFields
<1>4. Seen(ViewOf(tab[t]), Append(v.down[t], m), Taken(y, m))
  BY <1>2, <1>3, SeenMore
<1>5. Taken(y, m) \in View
  BY TakenTyped
<1>6. Bounded(v.down[t], l)
  BY <1>3, BoundedMore DEF Truth, Tells
<1>7. Bounded(Append(v.down[t], m), l)
  BY <1>3, <1>6, BoundedAppend DEF Tells
<1> QED
  BY <1>2, <1>4, <1>5, <1>7 DEF Tells

\* A session is changed, but for its history and whether it is in the store,
\* and the tabs are told so.
LEMMA Openly ==
    ASSUME Placed, NEW v, NEW ups, NEW R, NEW n, NEW k, NEW l, Good(v, ups, R, n, k),
           NEW s \in Sid, NEW x \in Session,
           x.live = v.sess[s].live, x.history = v.sess[s].history, x.same = v.sess[s].same,
           SoundOne(x, s, Orphaned(v.sess), n), x.pending \subseteq v.sess[s].pending,
           NEW m \in ServerMsg, NEW w \in Works, w.sess = [v.sess EXCEPT ![s] = x],
           Tells(v, w, m, R, k, l)
    PROVE  Good(w, ups, R, n, l) /\ Orphaned(w.sess) = Orphaned(v.sess)
<1> DEFINE f == v.sess
           g == w.sess
           O == Orphaned(f)
<1>1. f \in [Sid -> Session] /\ v \in Works /\ Sound(f, O, n) /\ Truth(v, R, k)
      /\ Prompts(f, ups, tab, author, used.prompts) /\ Grown(f)
  BY WorkFields DEF Good
<1>2. g[s] = x /\ \A z \in Sid : z # s => g[z] = f[z]
  BY <1>1
<1>3. \A z \in Sid : g[z].live = f[z].live /\ g[z].history = f[z].history /\ g[z].same = f[z].same
  BY <1>2
<1>4. Orphaned(g) = O
  BY <1>3, OrphanedAlike
<1>5. SoundOne(x, s, O, n)
  OBVIOUS
<1>6. Sound([f EXCEPT ![s] = x], O, n)
  <2> HIDE DEF f, g, O
  <2>1. x.pending \subseteq f[s].pending
    BY DEF f
  <2> QED
    BY <1>1, <1>5, <2>1, SoundWith
<1>7. Sound(g, O, n)
  BY <1>6
<1>8. Truth(w, R, l)
  BY <1>1, TellsTrue
<1>9. Prompts(g, ups, tab, author, used.prompts) /\ Grown(g)
  BY <1>1, <1>3, PromptsAlike, GrownAlike
<1> HIDE DEF f, g, O
<1> QED
  BY <1>4, <1>7, <1>8, <1>9 DEF Good, f, g, O

\* What the steps of a handler share.
GoodFacts(v, s, n) ==
    /\ v \in Works /\ v.sess \in [Sid -> Session] /\ v.sess[s] \in Session
    /\ SoundOne(v.sess[s], s, Orphaned(v.sess), n)

LEMMA GoodHas ==
    ASSUME NEW v, NEW ups, NEW R, NEW n, NEW k, Good(v, ups, R, n, k), NEW s \in Sid
    PROVE  GoodFacts(v, s, n)
BY WorkFields DEF Good, Sound, GoodFacts

\* The session is in the store, or its run outlives it.
Heard(v, s) == v.sess[s].made /\ (v.sess[s].live \/ s \in Orphaned(v.sess))

LEMMA SetStatusKeeps ==
    ASSUME Placed, NEW v, NEW ups, NEW R, NEW n, NEW k, Good(v, ups, R, n, k),
           NEW s \in Sid, NEW st \in Status, Heard(v, s)
    PROVE  LET w == SetStatus(v, s, st)
           IN  /\ Good(w, ups, R, n, k) /\ Orphaned(w.sess) = Orphaned(v.sess)
               /\ w.sess = [v.sess EXCEPT ![s] = [v.sess[s] EXCEPT !.status = st]]
               /\ w.alive = v.alive
<1> DEFINE w == SetStatus(v, s, st)
           x == [v.sess[s] EXCEPT !.status = st]
           m == Updated(s, st)
           u == Put(v, s, x)
<1>0. GoodFacts(v, s, n)
  BY GoodHas
<1>1. v \in Works /\ v.sess \in [Sid -> Session] /\ v.sess[s] \in Session
      /\ SoundOne(v.sess[s], s, Orphaned(v.sess), n)
  BY <1>0 DEF GoodFacts
<1>2. CASE v.sess[s].status = st
  <2>1. w = v
    BY <1>2 DEF SetStatus
  <2>2. x = v.sess[s]
    BY <1>1, <1>2 DEF Session
  <2>3. v.sess = [v.sess EXCEPT ![s] = x]
    BY <1>1, <2>2
  <2> QED
    BY <2>1, <2>3
<1>3. CASE v.sess[s].status # st
  <2>1. x \in Session /\ x.made = v.sess[s].made /\ x.live = v.sess[s].live
        /\ x.status = st /\ x.history = v.sess[s].history /\ x.read = v.sess[s].read
        /\ x.same = v.sess[s].same /\ x.queue = v.sess[s].queue /\ x.busy = v.sess[s].busy
        /\ x.pending = v.sess[s].pending
    BY <1>1, Zenon DEF Session
  <2>2. w = Broadcast(u, m)
    BY <1>3 DEF SetStatus, Put
  <2>3. m \in ServerMsg /\ m.type = "session_updated" /\ m.sid = s /\ m.status = st
    BY DEF Updated, ServerMsg
  <2> HIDE DEF x, m
  <2>4. u \in Works /\ u.sess = [v.sess EXCEPT ![s] = x] /\ u.down = v.down /\ u.alive = v.alive
    BY <1>1, <2>1, SetFields
  <2> HIDE DEF u, w
  <2>5. /\ w \in Works /\ w.sess = [v.sess EXCEPT ![s] = x] /\ w.alive = v.alive
        /\ \A t \in open : w.down[t] = Append(v.down[t], m)
    <3>1. /\ w \in Works /\ w.sess = u.sess /\ w.alive = u.alive
          /\ \A t \in open : w.down[t] = Append(u.down[t], m)
      BY <2>2, <2>3, <2>4, BroadcastFields
    <3> QED
      BY <2>4, <3>1
  <2>6. \A z \in Sid : w.sess[z].live = v.sess[z].live
    BY <1>1, <2>1, <2>5
  <2>7. Orphaned(w.sess) = Orphaned(v.sess)
    BY <2>6, OrphanedAlike
  <2>8. SoundOne(x, s, Orphaned(v.sess), n)
    BY <1>1, <2>1 DEF SoundOne, Numbered, Heard
  <2>9. ASSUME NEW t \in open, NEW y \in View, Told(y, v.sess, Orphaned(v.sess), R[t], k)
        PROVE  Told(Taken(y, m), w.sess, Orphaned(v.sess), R[t], k)
    <3>1. /\ Taken(y, m).sessions = [y.sessions EXCEPT ![s] = st]
          /\ Taken(y, m).messages = y.messages /\ Taken(y, m).modals = y.modals
      BY <2>3 DEF Taken, Statuses, Panes, Modals
    <3>2. y.sessions \in [Sid -> Shown]
      BY DEF View
    <3>3. w.sess[s] = x /\ \A z \in Sid : z # s => w.sess[z] = v.sess[z]
      BY <1>1, <2>5
    <3>4. \A z \in Sid : w.sess[z].live = v.sess[z].live /\ w.sess[z].pending = v.sess[z].pending
                         /\ w.sess[z].history = v.sess[z].history
      BY <2>1, <3>3
    <3>5. \A z \in Sid : IF w.sess[z].live THEN Taken(y, m).sessions[z] = w.sess[z].status
                         ELSE Taken(y, m).sessions[z] # "absent" => z \in Orphaned(v.sess)
      BY <2>1, <2>9, <3>1, <3>2, <3>3 DEF Told, Heard
    <3> QED
      BY <2>9, <3>1, <3>4, <3>5 DEF Told
  <2>10. x.pending \subseteq v.sess[s].pending
    BY <2>1
  <2>11. Tells(v, w, m, R, k, k)
    BY <2>3, <2>5, <2>9, <2>7 DEF Tells
  <2>12. Good(w, ups, R, n, k)
    BY <2>1, <2>3, <2>5, <2>8, <2>10, <2>11, Openly
  <2> QED
    BY <2>5, <2>12, <2>7 DEF w, x
<1> QED
  BY <1>2, <1>3

\* A message is added to the history of z.
Recorded(x, z, m, S) ==
    /\ x.made = z.made /\ x.live = z.live /\ x.status = z.status /\ x.read = z.read
    /\ x.queue = z.queue /\ x.busy = z.busy /\ x.cancelling = z.cancelling
    /\ x.pending = z.pending
    /\ x.history = Append(z.history, m) /\ x.same = S

LEMMA RecordedSound ==
    ASSUME NEW z \in Session, NEW s, NEW O, NEW n, SoundOne(z, s, O, n), z.made,
           NEW text \in Text, NEW S, S = z.same \/ S = z.same \cup {Len(z.history) + 1},
           Len(z.history) = z.read => S = z.same,
           NEW x \in Session, Recorded(x, z, [n |-> Len(z.history) + 1, text |-> text], S)
    PROVE  SoundOne(x, s, O, n)
<1> DEFINE h == z.history
           c == Len(h) + 1
           m == [n |-> c, text |-> text]
<1>1. h \in Seq(Msg) /\ Len(h) \in Nat /\ z.read \in 0..Len(h) /\ z.same \in SUBSET Nat
  BY SessionFields DEF SoundOne, Numbered
<1>2. /\ Len(x.history) = c /\ x.history[c] = m /\ m.n = c
      /\ \A i \in 1..Len(h) : x.history[i] = h[i]
  BY <1>1 DEF Recorded, Msg
<1>3. Numbered(z)
  BY DEF SoundOne
<1>4. x.read = z.read /\ x.same = S
  BY DEF Recorded
<1> HIDE DEF h, m
<1>5. x.read \in 0..Len(x.history)
  BY <1>1, <1>2, <1>4
<1>6. \A i \in 1..x.read : x.history[i].n \in 1..x.read
  BY <1>1, <1>2, <1>3, <1>4 DEF Numbered, h
<1>7. ASSUME NEW i \in (x.read + 1)..Len(x.history) PROVE x.history[i].n = i
  <2>1. i = c \/ i \in (z.read + 1)..Len(h)
    BY <1>1, <1>2, <1>4
  <2>2. i \in (z.read + 1)..Len(h) => i \in 1..Len(h) /\ h[i].n = i
    BY <1>1, <1>3 DEF Numbered, h
  <2> QED
    BY <1>2, <2>1, <2>2
<1>8. \A i \in 1..Len(h) : h[i].n \in 1..Len(h)
  <2>1. \A i \in 1..Len(h) : i \in 1..z.read \/ i \in (z.read + 1)..Len(h)
    BY <1>1
  <2> QED
    BY <1>1, <1>3, <2>1 DEF Numbered, h
<1>9. ASSUME NEW i \in 1..Len(x.history), NEW j \in 1..Len(x.history),
             x.history[i].n = x.history[j].n
      PROVE  i = j
  <2>1. i = c \/ i \in 1..Len(h)
    BY <1>1, <1>2
  <2>2. j = c \/ j \in 1..Len(h)
    BY <1>1, <1>2
  <2>3. i \in 1..Len(h) /\ j \in 1..Len(h) => i = j
    BY <1>2, <1>3, <1>9 DEF Numbered, h
  <2>4. \A a \in 1..Len(h) : x.history[a].n # x.history[c].n
    BY <1>1, <1>2, <1>8
  <2> QED
    BY <1>9, <2>1, <2>2, <2>3, <2>4
<1>10. x.same \subseteq (x.read + 2)..Len(x.history)
  <2>1. z.same \subseteq (z.read + 2)..Len(h)
    BY <1>3 DEF Numbered, h
  <2>2. (z.read + 2)..Len(h) \subseteq (z.read + 2)..c
    BY <1>1
  <2>3. Len(h) # z.read => c \in (z.read + 2)..c
    BY <1>1
  <2> QED
    BY <1>2, <1>4, <2>1, <2>2, <2>3 DEF h
<1>11. Numbered(x)
  BY <1>5, <1>6, <1>7, <1>9, <1>10 DEF Numbered
<1> QED
  BY <1>11 DEF SoundOne, Recorded

LEMMA RecordedSaid ==
    ASSUME NEW z \in Session, NEW S, NEW m \in Msg, NEW x, Recorded(x, z, m, S)
    PROVE  Said(x) = Said(z) \cup (IF m.text = NoPrompt THEN {} ELSE {m})
<1>1. z.history \in Seq(Msg)
  BY SessionFields
<1>2. Range(x.history) = Range(z.history) \cup {m}
  BY <1>1, AppendList DEF Recorded
<1> QED
  BY <1>2 DEF Said

LEMMA RecordedGrown ==
    ASSUME sess \in [Sid -> Session], NEW f \in [Sid -> Session], NEW s \in Sid, Grown(f), NEW S, NEW m \in Msg,
           S = f[s].same \/ S = f[s].same \cup {Len(f[s].history) + 1},
           NEW x \in Session, Recorded(x, f[s], m, S)
    PROVE  Grown([f EXCEPT ![s] = x])
<1> DEFINE g == [f EXCEPT ![s] = x]
           a == sess[s].history
           b == f[s].history
<1>1. g[s] = x /\ \A z \in Sid : z # s => g[z] = f[z]
  OBVIOUS
<1>2. a \in Seq(Msg) /\ b \in Seq(Msg) /\ Len(a) \in Nat /\ Len(b) \in Nat
  BY SessionFields
<1>3. Len(a) <= Len(b) /\ \A i \in 1..Len(a) : b[i] = a[i] /\ (i \in f[s].same => i \in sess[s].same)
  BY DEF Grown
<1>4. x.history = Append(b, m) /\ x.same = S
  BY DEF Recorded
<1> HIDE DEF g, a, b
<1>5. Len(a) <= Len(x.history) /\ \A i \in 1..Len(a) : x.history[i] = a[i]
  BY <1>2, <1>3, <1>4
<1>6. \A i \in 1..Len(a) : i \in x.same => i \in sess[s].same
  <2>1. \A i \in 1..Len(a) : i # Len(b) + 1
    BY <1>2, <1>3
  <2> QED
    BY <1>3, <1>4, <2>1 DEF b
<1>7. Grown(g)
  BY <1>1, <1>5, <1>6 DEF Grown, a
<1> QED
  BY <1>7 DEF g

\* No session comes or goes.
Stays(v, w) ==
    /\ Orphaned(w.sess) = Orphaned(v.sess)
    /\ \A z \in Sid : w.sess[z].made = v.sess[z].made /\ w.sess[z].live = v.sess[z].live

LEMMA StaysHeard ==
    ASSUME NEW v, NEW w, Stays(v, w), NEW s \in Sid, Heard(v, s)
    PROVE  Heard(w, s)
BY DEF Stays, Heard

LEMMA StaysTwice ==
    ASSUME NEW u, NEW v, NEW w, Stays(u, v), Stays(v, w)
    PROVE  Stays(u, w)
BY DEF Stays

\* The message and the set same that RecordMessage makes.
NewMessage(z, text) == [n |-> Len(z.history) + 1, text |-> text]

NewSame(v, s) == IF v.fresh \/ Len(v.sess[s].history) + 1 = v.sess[s].read + 1
                 THEN v.sess[s].same
                 ELSE v.sess[s].same \cup {Len(v.sess[s].history) + 1}

LEMMA RecordKeeps ==
    ASSUME Placed, NEW v, NEW ins, NEW ups, NEW R, NEW n, NEW k, Good(v, ins, R, n, k),
           NEW s \in Sid, NEW text \in Text, v.sess[s].made,
           \A x \in Session :
               Recorded(x, v.sess[s], NewMessage(v.sess[s], text), NewSame(v, s)) =>
               Prompts([v.sess EXCEPT ![s] = x], ups, tab, author, used.prompts)
    PROVE  Good(RecordMessage(v, s, text), ups, R, n, k) /\ Stays(v, RecordMessage(v, s, text))
<1> DEFINE w == RecordMessage(v, s, text)
           z == v.sess[s]
           m == NewMessage(z, text)
           S == NewSame(v, s)
           x == [z EXCEPT !.history = Append(@, m), !.same = S]
           f == [v.sess EXCEPT ![s] = x]
           u == [v EXCEPT !.sess[s].history = Append(@, m), !.sess[s].same = S,
                          !.fresh = FALSE, !.alive = v.sess[s].live]
           e == Message(s, m)
<1>0. GoodFacts(v, s, n)
  BY GoodHas
<1>1. /\ v \in Works /\ v.sess \in [Sid -> Session] /\ z \in Session
      /\ SoundOne(z, s, Orphaned(v.sess), n)
  BY <1>0 DEF GoodFacts
<1>2. /\ z.history \in Seq(Msg) /\ Len(z.history) \in Nat /\ z.read \in Nat /\ z.same \in SUBSET Nat
      /\ z.live \in BOOLEAN
  BY <1>1, SessionFields
<1>3. /\ m \in Msg /\ m.text = text
      /\ S \in SUBSET Nat /\ (S = z.same \/ S = z.same \cup {Len(z.history) + 1})
      /\ Len(z.history) = z.read => S = z.same
  <2>1. m \in Msg /\ m.text = text
    BY <1>2 DEF NewMessage, Msg
  <2>2. Len(z.history) + 1 \in Nat
    BY <1>2
  <2>3. S = z.same \/ S = z.same \cup {Len(z.history) + 1}
    BY DEF NewSame
  <2>4. Len(z.history) = z.read => S = z.same
    BY <1>2 DEF NewSame
  <2> HIDE DEF S, m
  <2> QED
    BY <1>2, <2>1, <2>2, <2>3, <2>4
<1>4. Append(z.history, m) \in Seq(Msg)
  BY <1>2, <1>3
<1> HIDE DEF m, S
<1>5. x \in Session /\ Recorded(x, z, m, S)
  BY <1>1, <1>3, <1>4, Zenon DEF Session, Recorded
<1>6. u = [v EXCEPT !.sess = f, !.fresh = FALSE, !.alive = z.live]
  BY <1>1 DEF Works, Session
<1>7. w = BroadcastOf(u, s, e)
  BY DEF RecordMessage, m, S, NewMessage, NewSame
<1>8. e \in ServerMsg /\ e.type = "message" /\ e.sid = s /\ e.message = m
  BY <1>3 DEF Message, ServerMsg
<1> HIDE DEF z, x
<1>9. f \in [Sid -> Session] /\ f[s] = x /\ \A i \in Sid : i # s => f[i] = v.sess[i]
  BY <1>1, <1>5
<1> HIDE DEF f, u, w, e
<1>10. u \in Works /\ u.sess = f /\ u.down = v.down
  BY <1>1, <1>2, <1>6, <1>9 DEF Works
<1>11. x.live = z.live /\ x.made = z.made /\ x.status = z.status /\ x.pending = z.pending
       /\ x.history = Append(z.history, m)
  BY <1>5 DEF Recorded
<1>12. \A i \in Sid : /\ f[i].made = v.sess[i].made /\ f[i].live = v.sess[i].live
                      /\ f[i].status = v.sess[i].status /\ f[i].pending = v.sess[i].pending
                      /\ i # s => f[i].history = v.sess[i].history
  BY <1>9, <1>11 DEF z
<1>13. Orphaned(f) = Orphaned(v.sess)
  BY <1>12, OrphanedAlike
<1>14. Sound(f, Orphaned(f), n)
  <2>1. Sound(v.sess, Orphaned(v.sess), n)
    BY DEF Good
  <2>2. m = [n |-> Len(z.history) + 1, text |-> text] /\ z.made
    BY DEF m, NewMessage, z
  <2>3. SoundOne(x, s, Orphaned(v.sess), n)
    BY <1>1, <1>3, <1>5, <2>2, RecordedSound
  <2>4. x.pending \subseteq v.sess[s].pending
    BY <1>11 DEF z
  <2> QED
    BY <1>1, <1>5, <1>13, <2>1, <2>3, <2>4, SoundWith DEF f
<1>15. Prompts(f, ups, tab, author, used.prompts)
  BY <1>5 DEF f, m, S, z
<1>16. Grown(f)
  <2>1. sess \in [Sid -> Session] /\ Grown(v.sess)
    BY DEF Placed, Good
  <2> QED
    BY <1>1, <1>3, <1>5, <2>1, RecordedGrown DEF f, z
<1>17. Truth(v, R, k)
  BY DEF Good
<1>18. CASE z.live
  <2>1. w = Broadcast(u, e)
    BY <1>7, <1>9, <1>10, <1>11, <1>18 DEF BroadcastOf
  <2>2. /\ w \in Works /\ w.sess = f
        /\ \A t \in open : w.down[t] = Append(v.down[t], e)
    <3>1. /\ w \in Works /\ w.sess = u.sess
          /\ \A t \in open : w.down[t] = Append(u.down[t], e)
      BY <1>8, <1>10, <2>1, BroadcastFields
    <3> QED
      BY <1>10, <3>1
  <2>3. ASSUME NEW t \in open, NEW y \in View, Told(y, v.sess, Orphaned(v.sess), R[t], k)
        PROVE  Told(Taken(y, e), f, Orphaned(f), R[t], k)
    <3>1. /\ Taken(y, e).messages = [y.messages EXCEPT ![s] = Append(@, m)]
          /\ Taken(y, e).sessions = y.sessions /\ Taken(y, e).modals = y.modals
      BY <1>8 DEF Taken, Statuses, Panes, Modals
    <3>2. y.messages \in [Sid -> Seq(Msg)]
      BY DEF View
    <3>3. EndsIn(y.messages[s], z.history)
      BY <1>18, <2>3 DEF Told, z
    <3>4. EndsIn(Append(y.messages[s], m), x.history)
      BY <1>2, <1>3, <1>11, <3>2, <3>3, EndsInMore
    <3>5. \A i \in Sid : f[i].live => EndsIn(Taken(y, e).messages[i], f[i].history)
      BY <1>9, <1>12, <2>3, <3>1, <3>2, <3>4 DEF Told
    <3> QED
      BY <1>12, <1>13, <2>3, <3>1, <3>5 DEF Told
  <2>4. Tells(v, w, e, R, k, k)
    BY <1>8, <2>2, <2>3 DEF Tells
  <2>5. Truth(w, R, k)
    BY <1>1, <1>8, <1>17, <2>2, <2>4, TellsTrue
  <2>6. Good(w, ups, R, n, k)
    BY <1>14, <1>15, <1>16, <2>2, <2>5 DEF Good
  <2> QED
    BY <1>12, <1>13, <2>2, <2>6 DEF Stays, w
<1>19. CASE ~z.live
  <2>1. w = u
    BY <1>7, <1>9, <1>10, <1>11, <1>19 DEF BroadcastOf
  <2>2. ASSUME NEW t \in open, NEW y \in View, Told(y, v.sess, Orphaned(v.sess), R[t], k)
        PROVE  Told(y, f, Orphaned(f), R[t], k)
    BY <1>9, <1>11, <1>12, <1>13, <1>19, <2>2 DEF Told
  <2>3. Truth(w, R, k)
    BY <1>1, <1>10, <1>17, <2>1, <2>2, Silence
  <2>4. Good(w, ups, R, n, k)
    BY <1>10, <1>14, <1>15, <1>16, <2>1, <2>3 DEF Good
  <2> QED
    BY <1>10, <1>12, <1>13, <2>1, <2>4 DEF Stays, w
<1> QED
  BY <1>2, <1>18, <1>19

\* The agent says something, or the server does in its place.
LEMMA SayKeeps ==
    ASSUME Placed, NEW v, NEW ups, NEW R, NEW n, NEW k, Good(v, ups, R, n, k),
           NEW s \in Sid, v.sess[s].made
    PROVE  Good(RecordMessage(v, s, NoPrompt), ups, R, n, k)
           /\ Stays(v, RecordMessage(v, s, NoPrompt))
<1>1. NoPrompt \in Text
  BY Numbers DEF NoPrompt, Text
<1>2. v.sess \in [Sid -> Session] /\ v.sess[s] \in Session
      /\ Prompts(v.sess, ups, tab, author, used.prompts)
  BY WorkFields DEF Good
<1>3. ASSUME NEW x \in Session,
             Recorded(x, v.sess[s], NewMessage(v.sess[s], NoPrompt), NewSame(v, s))
      PROVE  Prompts([v.sess EXCEPT ![s] = x], ups, tab, author, used.prompts)
  <2> DEFINE m == NewMessage(v.sess[s], NoPrompt)
  <2>1. m \in Msg /\ m.text = NoPrompt
    BY <1>1, <1>2, SessionFields DEF NewMessage, Msg
  <2> HIDE DEF m
  <2>2. Said(x) = Said(v.sess[s])
    <3>1. Recorded(x, v.sess[s], m, NewSame(v, s))
      BY <1>3 DEF m
    <3>2. Said(x) = Said(v.sess[s]) \cup (IF m.text = NoPrompt THEN {} ELSE {m})
      BY <1>2, <2>1, <3>1, RecordedSaid
    <3> QED
      BY <2>1, <3>2
  <2>3. \A z \in Sid : Said([v.sess EXCEPT ![s] = x][z]) = Said(v.sess[z])
    BY <1>2, <2>2
  <2> QED
    BY <1>2, <2>3, PromptsSaid
<1> QED
  BY <1>1, <1>3, RecordKeeps

-----------------------------------------------------------------------------
(* Prompts *)

\* The first message of a list is taken from it.
LEMMA WaitingTail ==
    ASSUME NEW q \in Seq(ClientMsg), q # <<>>, Ascending(q)
    PROVE  /\ Ascending(Tail(q)) /\ Waiting(Tail(q)) \subseteq Waiting(q)
           /\ Head(q).type = "send_prompt" =>
                /\ Head(q).prompt \in Waiting(q)
                /\ \A p \in Waiting(Tail(q)) : Head(q).prompt < p
<1> DEFINE l == Tail(q)
           n == Len(q)
<1>1. /\ l \in Seq(ClientMsg) /\ n \in Nat \ {0} /\ Len(l) = n - 1
      /\ DOMAIN q = 1..n /\ DOMAIN l = 1..(n - 1)
      /\ \A i \in 1..(n - 1) : l[i] = q[i + 1]
      /\ Head(q) = q[1]
  OBVIOUS
<1>2. Range(q) = {Head(q)} \cup Range(l)
  BY TailList
<1> HIDE DEF l, n
<1>3. Ascending(l)
  <2> SUFFICES ASSUME NEW i \in 1..(n - 1), NEW j \in 1..(n - 1), i < j,
                      l[i].type = "send_prompt", l[j].type = "send_prompt"
               PROVE  l[i].prompt < l[j].prompt
    BY <1>1 DEF Ascending
  <2>1. i + 1 \in DOMAIN q /\ j + 1 \in DOMAIN q /\ i + 1 < j + 1
    BY <1>1
  <2>2. l[i] = q[i + 1] /\ l[j] = q[j + 1]
    BY <1>1
  <2> QED
    BY <2>1, <2>2 DEF Ascending
<1>4. Waiting(l) \subseteq Waiting(q)
  BY <1>2 DEF Waiting
<1>5. ASSUME Head(q).type = "send_prompt"
      PROVE  /\ Head(q).prompt \in Waiting(q)
             /\ \A p \in Waiting(l) : Head(q).prompt < p
  <2>1. Head(q).prompt \in Waiting(q)
    BY <1>2, <1>5 DEF Waiting
  <2>2. ASSUME NEW p \in Waiting(l) PROVE Head(q).prompt < p
    <3>1. PICK i \in 1..(n - 1) : l[i].type = "send_prompt" /\ l[i].prompt = p
      BY <1>1 DEF Waiting, Range
    <3>2. i + 1 \in DOMAIN q /\ 1 \in DOMAIN q /\ 1 < i + 1 /\ q[i + 1] = l[i] /\ q[1] = Head(q)
      BY <1>1
    <3> QED
      BY <1>5, <3>1, <3>2 DEF Ascending
  <2> QED
    BY <2>1, <2>2
<1> QED
  BY <1>3, <1>4, <1>5 DEF l

\* The server has taken the first message of tab t.
Served(ups, t) == [ups EXCEPT ![t] = Tail(@)]

LEMMA PromptsServed ==
    ASSUME NEW f, NEW ups \in [Tab -> Seq(ClientMsg)], NEW x, NEW au, NEW n,
           Prompts(f, ups, x, au, n), NEW t \in Tab, ups[t] # <<>>
    PROVE  Prompts(f, Served(ups, t), x, au, n)
<1>1. Coming(ups[t], t, f, au, n)
  BY DEF Prompts
<1>2. Ascending(Tail(ups[t])) /\ Waiting(Tail(ups[t])) \subseteq Waiting(ups[t])
  BY <1>1, WaitingTail DEF Coming
<1>3. Coming(Tail(ups[t]), t, f, au, n)
  BY <1>1, <1>2 DEF Coming
<1>4. \A z \in Tab : Served(ups, t)[z] = IF z = t THEN Tail(ups[t]) ELSE ups[z]
  BY DEF Served
<1> QED
  BY <1>3, <1>4 DEF Prompts

LEMMA NumberedBelow ==
    ASSUME NEW x \in Session, Numbered(x), NEW m \in Range(x.history)
    PROVE  m.n \in 1..Len(x.history) /\ Len(x.history) \in Nat /\ m \in Msg
<1>1. x.history \in Seq(Msg) /\ Len(x.history) \in Nat
  BY SessionFields
<1>2. PICK i \in 1..Len(x.history) : x.history[i] = m
  BY <1>1, ListRange
<1>3. m \in Msg
  BY <1>1, <1>2
<1>4. x.read \in 0..Len(x.history)
  BY DEF Numbered
<1>5. i \in 1..x.read \/ i \in (x.read + 1)..Len(x.history)
  BY <1>1, <1>4
<1>6. m.n \in 1..x.read \/ m.n = i
  BY <1>2, <1>5 DEF Numbered
<1> QED
  BY <1>1, <1>3, <1>4, <1>6

\* A prompt that is recorded comes after all its tab has said, and all the tab
\* has still to say comes after it.
LEMMA PromptsHeard ==
    ASSUME NEW f \in [Sid -> Session], NEW ups \in [Tab -> Seq(ClientMsg)], NEW y, NEW au,
           NEW n \in Nat, Prompts(f, ups, y, au, n),
           NEW t \in Tab, ups[t] # <<>>, y[t].queue = <<>>,
           NEW p \in Prompt, Head(ups[t]).type = "send_prompt", Head(ups[t]).prompt = p,
           NEW s \in Sid, Numbered(f[s]),
           NEW x \in Session, NEW S, Recorded(x, f[s], NewMessage(f[s], p), S)
    PROVE  Prompts([f EXCEPT ![s] = x], Served(ups, t), y, au, n)
<1> DEFINE g == [f EXCEPT ![s] = x]
           m == NewMessage(f[s], p)
           q == Tail(ups[t])
<1>0. p \in Nat \ {0} /\ p \in Text
  BY Numbers DEF Prompt, Text
<1>1. Len(f[s].history) \in Nat
  BY SessionFields
<1>2. m \in Msg /\ m.text = p /\ m.n = Len(f[s].history) + 1 /\ p # NoPrompt
  BY <1>0, <1>1 DEF NewMessage, Msg, NoPrompt
<1> HIDE DEF m
<1>3. Said(x) = Said(f[s]) \cup {m}
  <2>1. f[s] \in Session /\ Recorded(x, f[s], m, S)
    BY DEF m
  <2>2. Said(x) = Said(f[s]) \cup (IF m.text = NoPrompt THEN {} ELSE {m})
    BY <1>2, <2>1, RecordedSaid
  <2> QED
    BY <1>2, <2>2
<1>4. g[s] = x /\ \A z \in Sid : z # s => g[z] = f[z]
  OBVIOUS
<1> HIDE DEF g
<1>5. \A z \in Sid : Said(g[z]) = Said(f[z]) \cup (IF z = s THEN {m} ELSE {})
  BY <1>3, <1>4
<1>6. /\ Coming(ups[t], t, f, au, n) /\ Ascending(ups[t])
      /\ p \in Waiting(ups[t]) /\ au[p] = t /\ p <= n
      /\ \A z \in Sid : \A k \in Said(f[z]) : au[k.text] = t => k.text < p
  BY WaitingTail DEF Prompts, Coming
<1>7. ASSUME NEW z \in Sid, NEW k \in Said(f[z]) PROVE k \in Msg /\ k.text \in Nat
  <2>1. f[z].history \in Seq(Msg) /\ k \in Range(f[z].history)
    BY SessionFields DEF Said
  <2>2. k \in Msg
    BY <2>1, ListRange
  <2> QED
    BY <2>2, Numbers DEF Msg, Text
<1>8. \A k \in Said(f[s]) : k.n < m.n /\ k.n \in Nat
  <2>1. \A k \in Said(f[s]) : k.n \in 1..Len(f[s].history)
    BY NumberedBelow DEF Said
  <2> QED
    BY <1>1, <1>2, <2>1
<1>9. InOrder(f, au, n)
  BY DEF Prompts
<1>10. InOrder(g, au, n)
  <2>1. \A z \in Sid : \A k \in Said(g[z]) : k.text <= n
    BY <1>2, <1>5, <1>6, <1>9 DEF InOrder
  <2>2. ASSUME NEW a \in Sid, NEW b \in Sid, NEW i \in Said(g[a]), NEW j \in Said(g[b]),
               i.text = j.text
        PROVE  a = b /\ i = j
    <3>1. \A z \in Sid : \A k \in Said(f[z]) : k.text # p
      BY <1>0, <1>6, <1>7
    <3>2. CASE i \in Said(f[a]) /\ j \in Said(f[b])
      BY <1>9, <2>2, <3>2 DEF InOrder
    <3>3. CASE i \notin Said(f[a])
      <4>1. a = s /\ i = m
        BY <1>5, <3>3
      <4>2. j \notin Said(f[b])
        BY <1>2, <2>2, <3>1, <4>1
      <4> QED
        BY <1>5, <4>1, <4>2
    <3>4. CASE j \notin Said(f[b])
      <4>1. b = s /\ j = m
        BY <1>5, <3>4
      <4>2. i \notin Said(f[a])
        BY <1>2, <2>2, <3>1, <4>1
      <4> QED
        BY <1>5, <4>1, <4>2
    <3> QED
      BY <3>2, <3>3, <3>4
  <2>3. ASSUME NEW z \in Sid, NEW i \in Said(g[z]), NEW j \in Said(g[z]),
               au[i.text] = au[j.text], i.n < j.n
        PROVE  i.text < j.text
    <3>1. CASE i \in Said(f[z]) /\ j \in Said(f[z])
      BY <1>9, <2>3, <3>1 DEF InOrder
    <3>2. CASE i \in Said(f[z]) /\ j \notin Said(f[z])
      <4>1. z = s /\ j = m
        BY <1>5, <3>2
      <4> QED
        BY <1>2, <1>6, <2>3, <3>2, <4>1
    <3>3. CASE i \notin Said(f[z])
      <4>1. z = s /\ i = m
        BY <1>5, <3>3
      <4>2. j = m \/ (j \in Said(f[s]) /\ j.n < m.n /\ j.n \in Nat)
        BY <1>5, <1>8, <4>1
      <4>3. m.n \in Nat
        BY <1>1, <1>2
      <4> QED
        BY <2>3, <4>1, <4>2, <4>3
    <3> QED
      BY <3>1, <3>2, <3>3
  <2> QED
    BY <2>1, <2>2, <2>3 DEF InOrder
<1>11. Coming(q, t, g, au, n)
  <2>1. /\ Ascending(q) /\ Waiting(q) \subseteq Waiting(ups[t])
        /\ \A i \in Waiting(q) : p < i
    BY <1>6, WaitingTail
  <2>2. \A i \in Waiting(q) : /\ au[i] = t /\ i <= n
                              /\ \A z \in Sid : \A k \in Said(g[z]) : au[k.text] = t => k.text < i
    BY <1>2, <1>5, <1>6, <2>1 DEF Coming
  <2> QED
    BY <2>1, <2>2 DEF Coming
<1>12. Coming(<<>>, t, g, au, n)
  <2>1. DOMAIN <<>> = {} /\ Range(<<>>) = {}
    BY EmptyList
  <2> QED
    BY <2>1 DEF Coming, Ascending, Waiting
<1>13. ASSUME NEW z \in Tab, z # t, NEW l, Coming(l, z, f, au, n) PROVE Coming(l, z, g, au, n)
  <2>1. \A i \in Sid : \A k \in Said(g[i]) : au[k.text] = z => k \in Said(f[i])
    BY <1>2, <1>5, <1>6, <1>13
  <2> QED
    BY <1>13, <2>1 DEF Coming
<1>14. \A z \in Tab : Served(ups, t)[z] = IF z = t THEN q ELSE ups[z]
  BY DEF Served
<1> HIDE DEF q
<1>15. ASSUME NEW z \in Tab PROVE Coming(Served(ups, t)[z], z, g, au, n) /\ Coming(y[z].queue, z, g, au, n)
  <2>1. CASE z = t
    BY <1>11, <1>12, <1>14, <2>1
  <2>2. CASE z # t
    <3>1. Coming(ups[z], z, f, au, n) /\ Coming(y[z].queue, z, f, au, n)
      BY DEF Prompts
    <3> QED
      BY <1>13, <1>14, <2>2, <3>1
  <2> QED
    BY <2>1, <2>2
<1> QED
  BY <1>10, <1>15 DEF Prompts, g

-----------------------------------------------------------------------------
(* Permission requests *)

\* A request of its own number is made.
LEMMA AskedSound ==
    ASSUME NEW f \in [Sid -> Session], NEW s \in Sid, NEW O, NEW n \in Nat, Sound(f, O, n),
           f[s].made,
           NEW x \in Session, x = [f[s] EXCEPT !.pending = @ \cup {n + 1}]
    PROVE  Sound([f EXCEPT ![s] = x], O, n + 1)
<1> DEFINE g == [f EXCEPT ![s] = x]
<1>1. g[s] = x /\ \A z \in Sid : z # s => g[z] = f[z]
  OBVIOUS
<1>2. /\ x.made = f[s].made /\ x.live = f[s].live /\ x.status = f[s].status
      /\ x.history = f[s].history /\ x.read = f[s].read /\ x.same = f[s].same
      /\ x.queue = f[s].queue /\ x.busy = f[s].busy /\ x.pending = f[s].pending \cup {n + 1}
  BY Zenon DEF Session
<1> HIDE DEF g
<1>3. \A z \in Sid : f[z].pending \subseteq 1..n
  BY DEF Sound, SoundOne
<1>4. n + 1 \notin 1..n /\ n + 1 \in 1..(n + 1) /\ 1..n \subseteq 1..(n + 1)
  OBVIOUS
<1>5. \A z \in Sid : g[z].pending \subseteq f[z].pending \cup (IF z = s THEN {n + 1} ELSE {})
  BY <1>1, <1>2
<1>6. \A z \in Sid : n + 1 \notin f[z].pending
  BY <1>3, <1>4
<1>7. Apart(g)
  BY <1>5, <1>6 DEF Sound, Apart
<1>8. ASSUME NEW z \in Sid PROVE SoundOne(g[z], z, O, n + 1)
  <2>1. SoundOne(f[z], z, O, n)
    BY DEF Sound
  <2>2. CASE z = s
    <3>1. x.pending \subseteq 1..(n + 1)
      BY <1>2, <1>3, <1>4
    <3> QED
      <4>1. Numbered(x)
        BY <1>2, <2>1, <2>2 DEF SoundOne, Numbered
      <4>2. x.made
        BY <1>2
      <4>3. (x.live => x.made) /\ (~x.live => x.queue = <<>> /\ (x.busy => z \in O))
        BY <1>2, <2>1, <2>2 DEF SoundOne
      <4> QED
        BY <1>1, <2>2, <3>1, <4>1, <4>2, <4>3 DEF SoundOne
  <2>3. CASE z # s
    BY <1>1, <1>4, <2>1, <2>3 DEF SoundOne
  <2> QED
    BY <2>2, <2>3
<1>9. Sound(g, O, n + 1)
  BY <1>7, <1>8 DEF Sound
<1> QED
  BY <1>9 DEF g

LEMMA AskedKeeps ==
    ASSUME Placed, NEW v, NEW ups, NEW R, NEW n \in Nat, Good(v, ups, R, n, n), n + 1 \in Req,
           NEW s \in Sid, v.sess[s].made,
           NEW P, \A t \in open : P[t] \subseteq R[t] \cup {n + 1}
    PROVE  LET u == [v EXCEPT !.sess[s].pending = @ \cup {n + 1}]
           IN  /\ Good(u, ups, P, n + 1, n) /\ Stays(v, u)
               /\ u.sess[s].live = v.sess[s].live
               /\ n + 1 \in u.sess[s].pending
<1> DEFINE x == [v.sess[s] EXCEPT !.pending = @ \cup {n + 1}]
           u == [v EXCEPT !.sess[s].pending = @ \cup {n + 1}]
           f == v.sess
           g == u.sess
<1>0. GoodFacts(v, s, n)
  BY GoodHas
<1>1. v \in Works /\ f \in [Sid -> Session] /\ f[s] \in Session
  BY <1>0 DEF GoodFacts
<1>2. f[s].pending \cup {n + 1} \in SUBSET Req
  BY <1>1, SessionFields
<1>3. x \in Session
  BY <1>1, <1>2, Zenon DEF Session
<1>4. /\ x.made = f[s].made /\ x.live = f[s].live /\ x.status = f[s].status
      /\ x.history = f[s].history /\ x.same = f[s].same /\ x.pending = f[s].pending \cup {n + 1}
  BY <1>1, Zenon DEF Session
<1>5. u = Put(v, s, x)
  BY <1>1 DEF Works, Session, Put
<1>6. u \in Works /\ g = [f EXCEPT ![s] = x] /\ u.down = v.down
  <2> HIDE DEF x, u
  <2> QED
    BY <1>1, <1>3, <1>5, SetFields
<1> HIDE DEF u
<1>7. g[s] = x /\ \A z \in Sid : z # s => g[z] = f[z]
  BY <1>1, <1>6
<1>8. \A z \in Sid : /\ g[z].made = f[z].made /\ g[z].live = f[z].live /\ g[z].status = f[z].status
                     /\ g[z].history = f[z].history /\ g[z].same = f[z].same
  BY <1>4, <1>7
<1>9. Orphaned(g) = Orphaned(f)
  BY <1>8, OrphanedAlike
<1>10. Sound(g, Orphaned(g), n + 1)
  <2>1. Sound(f, Orphaned(f), n)
    BY DEF Good
  <2> HIDE DEF f, g
  <2>2. f[s].made /\ x = [f[s] EXCEPT !.pending = @ \cup {n + 1}]
    BY DEF f
  <2> HIDE DEF x
  <2>3. Sound([f EXCEPT ![s] = x], Orphaned(f), n + 1)
    BY <1>1, <1>3, <2>1, <2>2, AskedSound
  <2> QED
    BY <1>6, <1>9, <2>3
<1>11. Prompts(g, ups, tab, author, used.prompts) /\ Grown(g)
  BY <1>8, PromptsAlike, GrownAlike DEF Good
<1>12. ASSUME NEW t \in open, NEW y \in View, Told(y, f, Orphaned(f), R[t], n)
       PROVE  Told(y, g, Orphaned(g), P[t], n)
  <2> HIDE DEF f, g, x
  <2>1. \A r \in P[t] : r <= n => r \in R[t]
    BY n + 1 > n
  <2>2. \A z \in Sid, r \in P[t] : r <= n => (r \in g[z].pending <=> r \in f[z].pending)
    <3>1. ASSUME NEW z \in Sid, NEW r \in g[z].pending \cup f[z].pending
          PROVE  r \in f[z].pending \/ r = n + 1
      <4>1. CASE z = s
        BY <1>4, <1>7, <4>1
      <4>2. CASE z # s
        BY <1>7, <4>2
      <4> QED
        BY <4>1, <4>2
    <3>2. ASSUME NEW z \in Sid PROVE f[z].pending \subseteq g[z].pending
      <4>1. CASE z = s
        BY <1>4, <1>7, <4>1
      <4>2. CASE z # s
        BY <1>7, <4>2
      <4> QED
        BY <4>1, <4>2
    <3> QED
      BY <3>1, <3>2
  <2>3. \A z \in Sid :
          IF g[z].live
          THEN y.sessions[z] = g[z].status /\ EndsIn(y.messages[z], g[z].history)
          ELSE y.sessions[z] # "absent" => z \in Orphaned(g)
    BY <1>8, <1>9, <1>12 DEF Told
  <2>4. \A z \in Sid, r \in P[t] : r <= n =>
          ([sid |-> z, req |-> r] \in Range(y.modals) <=> g[z].live /\ r \in g[z].pending)
    BY <1>8, <1>12, <2>1, <2>2 DEF Told
  <2> QED
    BY <1>12, <2>3, <2>4 DEF Told
<1>13. Truth(u, P, n)
  <2>1. Truth(v, R, n)
    BY DEF Good
  <2> QED
    BY <1>1, <1>6, <1>12, <2>1, Silence
<1>14. Good(u, ups, P, n + 1, n)
  BY <1>6, <1>10, <1>11, <1>13 DEF Good
<1> QED
  BY <1>4, <1>7, <1>8, <1>9, <1>14 DEF Stays, u

\* The tabs are told of the request.
LEMMA RequestTold ==
    ASSUME Placed, NEW v, NEW ups, NEW R, NEW n \in Nat, Good(v, ups, R, n + 1, n), n + 1 \in Req,
           NEW s \in Sid, n + 1 \in v.sess[s].pending,
           NEW w, w = BroadcastOf(v, s, Request(s, n + 1))
    PROVE  Good(w, ups, R, n + 1, n + 1) /\ w.sess = v.sess
<1> DEFINE m == Request(s, n + 1)
           f == v.sess
           q == [sid |-> s, req |-> n + 1]
<1>1. v \in Works /\ f \in [Sid -> Session] /\ Truth(v, R, n) /\ Apart(f)
  BY WorkFields DEF Good, Sound
<1>2. m \in ServerMsg /\ m.type = "permission_request" /\ m.sid = s /\ m.req = n + 1
  BY DEF Request, ServerMsg
<1>3. q \in Question
  BY DEF Question
<1> HIDE DEF m, f
<1>4. \A z \in Sid : n + 1 \in f[z].pending <=> z = s
  BY <1>1 DEF Apart, f
<1>5. ASSUME NEW y \in View, NEW t \in open, Told(y, f, Orphaned(f), R[t], n), NEW e \in View,
             e.sessions = y.sessions, e.messages = y.messages,
             Range(e.modals) = Range(y.modals) \cup (IF f[s].live THEN {q} ELSE {})
      PROVE  Told(e, f, Orphaned(f), R[t], n + 1)
  <2>1. \A p \in Range(y.modals) : p.req <= n /\ p \in Question
    <3>1. Range(y.modals) \subseteq Question
      BY ListRange DEF View
    <3> QED
      BY <1>5, <3>1 DEF Told
  <2>2. \A p \in Question : p.req \in Nat
    BY Numbers DEF Question
  <2>3. \A p \in Range(e.modals) : p.req <= n + 1
    BY <1>5, <2>1, <2>2
  <2>4. ASSUME NEW z \in Sid, NEW r \in R[t], r <= n + 1
        PROVE  [sid |-> z, req |-> r] \in Range(e.modals) <=> f[z].live /\ r \in f[z].pending
    <3>1. CASE r = n + 1
      <4>1. [sid |-> z, req |-> r] \notin Range(y.modals)
        BY <2>1, <3>1
      <4>2. [sid |-> z, req |-> r] = q <=> z = s
        BY <3>1
      <4> QED
        BY <1>4, <1>5, <3>1, <4>1, <4>2
    <3>2. CASE r # n + 1
      <4>1. [sid |-> z, req |-> r] # q
        BY <3>2
      <4>2. r \in Nat => r <= n
        BY <2>4, <3>2
      <4>3. [sid |-> z, req |-> r] \in Range(e.modals) <=> [sid |-> z, req |-> r] \in Range(y.modals)
        BY <1>5, <4>1
      <4>4. r \notin Nat => /\ [sid |-> z, req |-> r] \notin Range(y.modals)
                            /\ r \notin f[z].pending
        <5>1. f[z].pending \subseteq Nat
          BY <1>1, SessionFields, Numbers
        <5> QED
          BY <2>1, <2>2, <5>1
      <4> QED
        BY <1>5, <4>2, <4>3, <4>4 DEF Told
    <3> QED
      BY <3>1, <3>2
  <2> QED
    BY <1>5, <2>3, <2>4 DEF Told
<1>6. CASE f[s].live
  <2>1. w = Broadcast(v, m)
    BY <1>6 DEF BroadcastOf, m, f
  <2>2. /\ w \in Works /\ w.sess = f
        /\ \A t \in open : w.down[t] = Append(v.down[t], m)
    BY <1>1, <1>2, <2>1, BroadcastFields DEF f
  <2>3. ASSUME NEW t \in open, NEW y \in View, Told(y, f, Orphaned(f), R[t], n)
        PROVE  Told(Taken(y, m), f, Orphaned(f), R[t], n + 1)
    <3>1. /\ Taken(y, m).sessions = y.sessions /\ Taken(y, m).messages = y.messages
          /\ Taken(y, m).modals = Append(y.modals, q)
      BY <1>2 DEF Taken, Statuses, Panes, Modals
    <3>2. Range(Append(y.modals, q)) = Range(y.modals) \cup {q}
      BY <1>3, AppendList DEF View
    <3>3. Taken(y, m) \in View
      BY <1>2, TakenTyped
    <3> HIDE DEF q
    <3> QED
      BY <1>5, <1>6, <2>3, <3>1, <3>2, <3>3
  <2>4. Tells(v, w, m, R, n, n + 1)
    BY <1>2, <2>2, <2>3 DEF Tells, f
  <2>5. Truth(w, R, n + 1)
    BY <1>1, <1>2, <2>2, <2>4, TellsTrue
  <2> QED
    BY <2>2, <2>5 DEF Good, f
<1>7. CASE ~f[s].live
  <2>1. w = v
    BY <1>7 DEF BroadcastOf, f
  <2>2. ASSUME NEW t \in open, NEW y \in View, Told(y, f, Orphaned(f), R[t], n)
        PROVE  Told(y, f, Orphaned(f), R[t], n + 1)
    <3> HIDE DEF q
    <3> QED
      BY <1>5, <1>7, <2>2
  <2>3. Truth(v, R, n + 1)
    BY <1>1, <2>2, Silence DEF f
  <2> QED
    BY <2>1, <2>3 DEF Good
<1>8. f[s] \in Session /\ f[s].live \in BOOLEAN
  BY <1>1, SessionFields
<1> QED
  BY <1>6, <1>7, <1>8

LEMMA AskKeeps ==
    ASSUME Placed, NEW v, NEW ups, NEW R, NEW n \in Nat, Good(v, ups, R, n, n), n + 1 \in Req,
           NEW s \in Sid, Heard(v, s),
           NEW P, \A t \in open : P[t] \subseteq R[t] \cup {n + 1}
    PROVE  Good(AskPermission(v, s, n + 1), ups, P, n + 1, n + 1)
<1> DEFINE u == [v EXCEPT !.sess[s].pending = @ \cup {n + 1}]
           w == SetStatus(u, s, "awaiting_permission")
<1>1. v.sess[s].made
  BY DEF Heard
<1>2. Good(u, ups, P, n + 1, n) /\ Stays(v, u) /\ n + 1 \in u.sess[s].pending
  BY <1>1, AskedKeeps
<1>3. AskPermission(v, s, n + 1) = BroadcastOf(w, s, Request(s, n + 1))
  BY DEF AskPermission
<1> HIDE DEF u
<1>4. Heard(u, s) /\ "awaiting_permission" \in Status
  BY <1>2, StaysHeard DEF Status
<1>5. /\ Good(w, ups, P, n + 1, n)
      /\ w.sess = [u.sess EXCEPT ![s] = [u.sess[s] EXCEPT !.status = "awaiting_permission"]]
  BY <1>2, <1>4, SetStatusKeeps
<1>6. n + 1 \in w.sess[s].pending
  <2>1. u.sess \in [Sid -> Session] /\ u.sess[s] \in Session
    BY <1>2, WorkFields DEF Good
  <2> QED
    BY <1>2, <1>5, <2>1, Zenon DEF Session
<1> HIDE DEF w
<1> QED
  BY <1>3, <1>5, <1>6, RequestTold

\* The modals of a request that is answered go, on every tab.
LEMMA SettleKeeps ==
    ASSUME Placed, NEW v, NEW ups, NEW R, NEW n, NEW k, Good(v, ups, R, n, k),
           NEW s \in Sid, v.sess[s].live, NEW r \in Req
    PROVE  /\ Good(Settle(v, s, r), ups, R, n, k) /\ Stays(v, Settle(v, s, r))
           /\ Settle(v, s, r).sess[s].pending = v.sess[s].pending \ {r}
           /\ Settle(v, s, r).sess[s].queue = v.sess[s].queue
           /\ Settle(v, s, r).sess[s].busy = v.sess[s].busy
<1> DEFINE w == Settle(v, s, r)
           f == v.sess
           x == [f[s] EXCEPT !.pending = @ \ {r}]
           m == Resolved(s, r)
           u == [v EXCEPT !.sess[s].pending = @ \ {r}]
<1>0. GoodFacts(v, s, n)
  BY GoodHas
<1>1. v \in Works /\ f \in [Sid -> Session] /\ f[s] \in Session /\ SoundOne(f[s], s, Orphaned(f), n)
      /\ Truth(v, R, k) /\ Apart(f)
  BY <1>0 DEF GoodFacts, Good, Sound
<1>2. CASE r \notin f[s].pending
  <2>1. w = v
    BY <1>2 DEF Settle
  <2>2. f[s].pending = f[s].pending \ {r}
    BY <1>2
  <2> QED
    BY <2>1, <2>2 DEF Stays
<1>3. CASE r \in f[s].pending
  <2>1. f[s].pending \ {r} \in SUBSET Req
    BY <1>1, SessionFields
  <2>2. x \in Session
    BY <1>1, <2>1, Zenon DEF Session
  <2>3. /\ x.made = f[s].made /\ x.live = f[s].live /\ x.status = f[s].status
        /\ x.history = f[s].history /\ x.read = f[s].read /\ x.same = f[s].same
        /\ x.queue = f[s].queue /\ x.busy = f[s].busy /\ x.pending = f[s].pending \ {r}
    BY <1>1, Zenon DEF Session
  <2>4. u = Put(v, s, x) /\ u.sess[s].live = x.live
    BY <1>1 DEF Works, Session, Put
  <2>5. w = Broadcast(u, m)
    BY <1>3, <2>3, <2>4 DEF Settle, BroadcastOf
  <2>6. m \in ServerMsg /\ m.type = "permission_resolved" /\ m.sid = s /\ m.req = r
    BY DEF Resolved, ServerMsg
  <2> HIDE DEF x, m, u, w
  <2>7. u \in Works /\ u.sess = [v.sess EXCEPT ![s] = x] /\ u.down = v.down
    BY <1>1, <2>2, <2>4, SetFields
  <2>8. /\ w \in Works /\ w.sess = [v.sess EXCEPT ![s] = x]
        /\ \A t \in open : w.down[t] = Append(v.down[t], m)
    <3>1. /\ w \in Works /\ w.sess = u.sess
          /\ \A t \in open : w.down[t] = Append(u.down[t], m)
      BY <2>5, <2>6, <2>7, BroadcastFields
    <3> QED
      BY <2>7, <3>1
  <2>9. SoundOne(x, s, Orphaned(v.sess), n)
    <3>1. Numbered(x)
      BY <1>1, <2>3 DEF SoundOne, Numbered
    <3>2. x.pending \subseteq 1..n /\ (f[s].pending = {} => x.pending = {})
      BY <1>1, <2>3 DEF SoundOne
    <3> QED
      BY <1>1, <2>3, <3>1, <3>2 DEF SoundOne
  <2>10. w.sess[s] = x /\ \A z \in Sid : z # s => w.sess[z] = f[z]
    BY <1>1, <2>8
  <2>11. \A z \in Sid : /\ w.sess[z].made = f[z].made /\ w.sess[z].live = f[z].live
                        /\ w.sess[z].status = f[z].status /\ w.sess[z].history = f[z].history
    BY <2>3, <2>10
  <2>12. Orphaned(w.sess) = Orphaned(f)
    BY <2>11, OrphanedAlike
  <2>13. ASSUME NEW z \in Sid, NEW i
         PROVE  i \in w.sess[z].pending <=> i \in f[z].pending /\ i # r
    <3>1. CASE z = s
      BY <2>3, <2>10, <3>1
    <3>2. CASE z # s
      BY <1>1, <1>3, <2>10, <3>2 DEF Apart
    <3> QED
      BY <3>1, <3>2
  <2>14. ASSUME NEW t \in open, NEW y \in View, Told(y, f, Orphaned(f), R[t], k)
         PROVE  Told(Taken(y, m), w.sess, Orphaned(w.sess), R[t], k)
    <3>1. /\ Taken(y, m).sessions = y.sessions /\ Taken(y, m).messages = y.messages
          /\ Taken(y, m).modals = Keep(y.modals, {p \in Range(y.modals) : p.req # r})
      BY <2>6 DEF Taken, Statuses, Panes, Modals
    <3>2. y.modals \in Seq(Question)
      BY DEF View
    <3>3. Range(Taken(y, m).modals) = {p \in Range(y.modals) : p.req # r}
      BY <3>1, <3>2, KeepList
    <3>4. ASSUME NEW z \in Sid, NEW i \in R[t], i <= k
          PROVE  [sid |-> z, req |-> i] \in Range(Taken(y, m).modals)
                    <=> w.sess[z].live /\ i \in w.sess[z].pending
      <4>1. [sid |-> z, req |-> i] \in Range(y.modals) <=> f[z].live /\ i \in f[z].pending
        BY <2>14, <3>4 DEF Told
      <4>2. [sid |-> z, req |-> i].req = i
        OBVIOUS
      <4> QED
        BY <2>11, <2>13, <3>3, <4>1, <4>2
    <3>5. \A p \in Range(Taken(y, m).modals) : p.req <= k
      BY <2>14, <3>3 DEF Told
    <3>6. \A z \in Sid :
            IF w.sess[z].live
            THEN /\ Taken(y, m).sessions[z] = w.sess[z].status
                 /\ EndsIn(Taken(y, m).messages[z], w.sess[z].history)
            ELSE Taken(y, m).sessions[z] # "absent" => z \in Orphaned(w.sess)
      BY <2>11, <2>12, <2>14, <3>1 DEF Told
    <3> QED
      BY <3>4, <3>5, <3>6 DEF Told
  <2>15. Tells(v, w, m, R, k, k)
    BY <2>6, <2>8, <2>14 DEF Tells, f
  <2>16. x.pending \subseteq v.sess[s].pending
    BY <2>3 DEF f
  <2>17. Good(w, ups, R, n, k)
    <3> HIDE DEF f
    <3>1. x.live = v.sess[s].live /\ x.history = v.sess[s].history /\ x.same = v.sess[s].same
      BY <2>3 DEF f
    <3> QED
      BY <2>2, <2>6, <2>8, <2>9, <2>15, <2>16, <3>1, Openly
  <2> QED
    BY <2>3, <2>10, <2>11, <2>12, <2>17 DEF Stays, w
<1> QED
  BY <1>2, <1>3

LEMMA ResolveKeeps ==
    ASSUME Placed, NEW v, NEW ups, NEW R, NEW n, NEW k, Good(v, ups, R, n, k),
           NEW s \in Sid, v.sess[s].live, NEW r \in Req
    PROVE  Good(ResolvePermission(v, s, r), ups, R, n, k)
<1> DEFINE w == Settle(v, s, r)
<1>1. Good(w, ups, R, n, k) /\ Stays(v, w)
  BY SettleKeeps
<1>2. ResolvePermission(v, s, r) \in {w, SetStatus(w, s, "running")}
  BY DEF ResolvePermission
<1> HIDE DEF w
<1>3. GoodFacts(v, s, n)
  BY GoodHas
<1>4. v.sess[s].made
  BY <1>3 DEF GoodFacts, SoundOne
<1>5. Heard(w, s) /\ "running" \in Status
  BY <1>1, <1>4 DEF Stays, Heard, Status
<1>6. Good(SetStatus(w, s, "running"), ups, R, n, k)
  BY <1>1, <1>5, SetStatusKeeps
<1> QED
  BY <1>1, <1>2, <1>6

\* The session is told to stop: what is queued is forgotten, every request is
\* denied.
LEMMA CancelKeeps ==
    ASSUME Placed, NEW v, NEW ups, NEW R, NEW n, NEW k, Good(v, ups, R, n, k),
           NEW s \in Sid, v.sess[s].live
    PROVE  /\ Good(Cancel(v, s), ups, R, n, k) /\ Stays(v, Cancel(v, s))
           /\ Cancel(v, s).sess[s].pending = {} /\ Cancel(v, s).sess[s].queue = <<>>
           /\ Cancel(v, s).sess[s].busy = v.sess[s].busy
<1> DEFINE u == [v EXCEPT !.sess[s].cancelling = TRUE, !.sess[s].queue = <<>>]
           x == [v.sess[s] EXCEPT !.cancelling = TRUE, !.queue = <<>>]
           V == {w \in Works : /\ Good(w, ups, R, n, k) /\ Stays(v, w)
                               /\ w.sess[s].queue = <<>> /\ w.sess[s].busy = v.sess[s].busy}
           step == [r \in 1..MaxAsks |-> [w \in V |-> Settle(w, s, r)]]
           Denied(d) == [r \in 0..MaxAsks |-> IF r = 0 THEN u ELSE Settle(d[r - 1], s, r)]
           g == CHOOSE d : d = Denied(d)
<1>0. GoodFacts(v, s, n)
  BY GoodHas
<1>1. v \in Works /\ v.sess \in [Sid -> Session] /\ v.sess[s] \in Session
  BY <1>0 DEF GoodFacts
<1>2. u \in V
  <2>1. <<>> \in Seq(Prompt)
    OBVIOUS
  <2>2. x \in Session /\ Alike(x, v.sess[s]) /\ x.busy = v.sess[s].busy /\ x.queue = <<>>
    BY <1>1, <2>1, Zenon DEF Session, Alike
  <2>3. u = Put(v, s, x)
    BY <1>1 DEF Works, Session, Put
  <2> HIDE DEF u, x
  <2>4. u \in Works /\ u.sess = [v.sess EXCEPT ![s] = x] /\ u.down = v.down
    BY <1>1, <2>2, <2>3, SetFields
  <2>5. Good(u, ups, R, n, k) /\ Orphaned(u.sess) = Orphaned(v.sess)
    <3>1. x.busy => v.sess[s].busy \/ v.sess[s].live
      BY <2>2
    <3> QED
      BY <1>1, <2>2, <2>4, <3>1, Quietly
  <2>6. \A z \in Sid : u.sess[z].made = v.sess[z].made /\ u.sess[z].live = v.sess[z].live
    BY <1>1, <2>2, <2>4 DEF Alike
  <2>7. u.sess[s].queue = <<>> /\ u.sess[s].busy = v.sess[s].busy
    BY <1>1, <2>2, <2>4
  <2> QED
    BY <2>4, <2>5, <2>6, <2>7 DEF Stays
<1>3. Cancel(v, s) = g[MaxAsks]
  BY DEF Cancel
<1> HIDE DEF u
<1>4. ASSUME NEW w \in V, NEW r \in 1..MaxAsks
      PROVE  Settle(w, s, r) \in V /\ Settle(w, s, r).sess[s].pending = w.sess[s].pending \ {r}
  <2>1. Good(w, ups, R, n, k) /\ w.sess[s].live /\ r \in Req
    BY DEF Stays, Req
  <2>2. /\ Good(Settle(w, s, r), ups, R, n, k) /\ Stays(w, Settle(w, s, r))
        /\ Settle(w, s, r).sess[s].pending = w.sess[s].pending \ {r}
        /\ Settle(w, s, r).sess[s].queue = w.sess[s].queue
        /\ Settle(w, s, r).sess[s].busy = w.sess[s].busy
    BY <2>1, SettleKeeps
  <2>3. Stays(v, Settle(w, s, r))
    BY <2>2, StaysTwice
  <2> QED
    BY <2>2, <2>3 DEF Good
<1> HIDE DEF V
<1>5. Steps(V, MaxAsks, step)
  BY <1>4 DEF Steps
<1>6. \A r \in 1..MaxAsks, w \in V : step[r][w] = Settle(w, s, r)
  OBVIOUS
<1> HIDE DEF step
<1>7. PICK d : Iterates(d, V, MaxAsks, u, step)
  BY <1>2, <1>5, Recursion, Numbers
<1>8. d = Denied(d)
  <2>1. d \in [0..MaxAsks -> V] /\ d[0] = u /\ \A r \in 1..MaxAsks : d[r] = step[r][d[r - 1]]
    BY <1>7 DEF Iterates
  <2>2. ASSUME NEW r \in 1..MaxAsks PROVE d[r] = Settle(d[r - 1], s, r)
    <3>1. r - 1 \in 0..MaxAsks
      BY Numbers
    <3> QED
      BY <1>6, <2>1, <3>1
  <2>3. d = [r \in 0..MaxAsks |-> d[r]]
    BY <2>1
  <2>4. \A r \in 0..MaxAsks : r = 0 \/ r \in 1..MaxAsks
    BY Numbers
  <2>5. \A r \in 0..MaxAsks : d[r] = Denied(d)[r]
    BY <2>1, <2>2, <2>4
  <2> QED
    BY <2>3, <2>5
<1>9. g = Denied(g)
  BY <1>8
<1> HIDE DEF g
<1>10. /\ g[0] = u
       /\ \A r \in 1..MaxAsks : g[r] = Settle(g[r - 1], s, r)
  <2>1. \A r \in 0..MaxAsks : g[r] = IF r = 0 THEN u ELSE Settle(g[r - 1], s, r)
    BY <1>9
  <2> QED
    BY <2>1, Numbers
<1> DEFINE Q == {i \in 0..MaxAsks : g[i] \in V /\ g[i].sess[s].pending \cap 1..i = {}}
<1>11. 0 \in Q
  BY <1>2, <1>10, Numbers
<1>12. ASSUME NEW i \in Q, i \in 0..(MaxAsks - 1) PROVE i + 1 \in Q
  <2>1. i + 1 \in 1..MaxAsks /\ (i + 1) - 1 = i /\ g[i] \in V /\ 1..(i + 1) = 1..i \cup {i + 1}
        /\ g[i].sess[s].pending \cap 1..i = {}
    BY <1>12, Numbers
  <2>2. g[i + 1] = Settle(g[i], s, i + 1)
    BY <1>10, <2>1
  <2>3. g[i + 1] \in V /\ g[i + 1].sess[s].pending = g[i].sess[s].pending \ {i + 1}
    BY <1>4, <2>1, <2>2
  <2> QED
    BY <2>1, <2>3
<1> HIDE DEF Q
<1>13. 0..MaxAsks \subseteq Q
  BY <1>11, <1>12, UpTo, Numbers
<1>14. MaxAsks \in Q
  BY <1>13, Numbers
<1>15. g[MaxAsks] \in V /\ g[MaxAsks].sess[s].pending \cap Req = {}
  BY <1>14 DEF Q, Req
<1>16. g[MaxAsks].sess[s].pending \subseteq Req
  BY <1>15, WorkFields, SessionFields DEF V
<1>17. g[MaxAsks].sess[s].pending = {}
  BY <1>15, <1>16
<1> QED
  BY <1>3, <1>15, <1>17 DEF V

LEMMA CancelEveryKeeps ==
    ASSUME Placed, NEW v, NEW ups, NEW R, NEW n, NEW k, Good(v, ups, R, n, k)
    PROVE  Good(CancelEvery(v), ups, R, n, k)
<1> DEFINE Stop(w, s) == IF w.sess[s].live /\
                            w.sess[s].status \in {"running", "awaiting_permission"}
                         THEN Cancel(w, s) ELSE w
           V == {w \in Works : Good(w, ups, R, n, k)}
           step == [s \in 1..MaxSessions |-> [w \in V |-> Stop(w, s)]]
           Stopping(d) == [s \in 0..MaxSessions |-> IF s = 0 THEN v ELSE Stop(d[s - 1], s)]
           g == CHOOSE d : d = Stopping(d)
<1>1. v \in V
  BY DEF Good
<1>2. CancelEvery(v) = g[MaxSessions]
  BY DEF CancelEvery
<1>3. ASSUME NEW w \in V, NEW s \in 1..MaxSessions PROVE Stop(w, s) \in V
  <2>1. Good(w, ups, R, n, k) /\ s \in Sid
    BY DEF Sid
  <2>2. w.sess[s].live => Good(Cancel(w, s), ups, R, n, k)
    BY <2>1, CancelKeeps
  <2>3. Good(Stop(w, s), ups, R, n, k)
    BY <2>1, <2>2
  <2> QED
    BY <2>3 DEF Good
<1> HIDE DEF V, Stop
<1>4. Steps(V, MaxSessions, step)
  BY <1>3 DEF Steps
<1>5. \A s \in 1..MaxSessions, w \in V : step[s][w] = Stop(w, s)
  OBVIOUS
<1> HIDE DEF step
<1>6. PICK d : Iterates(d, V, MaxSessions, v, step)
  BY <1>1, <1>4, Recursion, Numbers
<1>7. d = Stopping(d)
  <2>1. /\ d \in [0..MaxSessions -> V] /\ d[0] = v
        /\ \A s \in 1..MaxSessions : d[s] = step[s][d[s - 1]]
    BY <1>6 DEF Iterates
  <2>2. ASSUME NEW s \in 1..MaxSessions PROVE d[s] = Stop(d[s - 1], s)
    <3>1. s - 1 \in 0..MaxSessions
      BY Numbers
    <3> QED
      BY <1>5, <2>1, <3>1
  <2>3. d = [s \in 0..MaxSessions |-> d[s]]
    BY <2>1
  <2>4. \A s \in 0..MaxSessions : s = 0 \/ s \in 1..MaxSessions
    BY Numbers
  <2>5. \A s \in 0..MaxSessions : d[s] = Stopping(d)[s]
    BY <2>1, <2>2, <2>4
  <2> QED
    BY <2>3, <2>5
<1>8. g = Stopping(g)
  BY <1>7
<1> HIDE DEF g
<1>9. g[0] = v /\ \A s \in 1..MaxSessions : g[s] = Stop(g[s - 1], s)
  <2>1. \A s \in 0..MaxSessions : g[s] = IF s = 0 THEN v ELSE Stop(g[s - 1], s)
    BY <1>8
  <2> QED
    BY <2>1, Numbers
<1> DEFINE Q == {i \in 0..MaxSessions : g[i] \in V}
<1>10. 0 \in Q
  BY <1>1, <1>9, Numbers
<1>11. ASSUME NEW i \in Q, i \in 0..(MaxSessions - 1) PROVE i + 1 \in Q
  <2>1. i + 1 \in 1..MaxSessions /\ (i + 1) - 1 = i /\ g[i] \in V
    BY <1>11, Numbers
  <2>2. g[i + 1] = Stop(g[i], i + 1)
    BY <1>9, <2>1
  <2> QED
    BY <1>3, <2>1, <2>2
<1> HIDE DEF Q
<1>12. 0..MaxSessions \subseteq Q
  BY <1>10, <1>11, UpTo, Numbers
<1>13. MaxSessions \in Q
  BY <1>12, Numbers
<1> QED
  BY <1>2, <1>13 DEF Q, V

-----------------------------------------------------------------------------
(* The end of a turn, and the next. *)

LEMMA StatusStays ==
    ASSUME NEW v, NEW ups, NEW R, NEW n, NEW k, Good(v, ups, R, n, k), NEW s \in Sid, NEW st,
           NEW w, Orphaned(w.sess) = Orphaned(v.sess),
           w.sess = [v.sess EXCEPT ![s] = [v.sess[s] EXCEPT !.status = st]]
    PROVE  Stays(v, w)
<1>1. v.sess \in [Sid -> Session] /\ v.sess[s] \in Session
  BY WorkFields DEF Good
<1>2. [v.sess[s] EXCEPT !.status = st].made = v.sess[s].made
      /\ [v.sess[s] EXCEPT !.status = st].live = v.sess[s].live
  BY <1>1 DEF Session
<1> QED
  BY <1>1, <1>2 DEF Stays

LEMMA ErrorKeeps ==
    ASSUME Placed, NEW v, NEW ups, NEW R, NEW n, NEW k, Good(v, ups, R, n, k),
           NEW s \in Sid, Heard(v, s)
    PROVE  Good(OnError(v, s), ups, R, n, k) /\ Stays(v, OnError(v, s))
<1> DEFINE u == SetStatus(v, s, "error")
<1>1. v.sess[s].made /\ "error" \in Status
  BY DEF Heard, Status
<1>2. Good(RecordMessage(v, s, NoPrompt), ups, R, n, k) /\ Stays(v, RecordMessage(v, s, NoPrompt))
  BY <1>1, SayKeeps
<1>3. /\ Good(u, ups, R, n, k) /\ Orphaned(u.sess) = Orphaned(v.sess)
      /\ u.sess = [v.sess EXCEPT ![s] = [v.sess[s] EXCEPT !.status = "error"]]
  BY <1>1, SetStatusKeeps
<1>4. Stays(v, u)
  BY <1>3, StatusStays
<1>5. u.sess[s].made
  BY <1>1, <1>4 DEF Stays
<1>6. OnError(v, s) = IF v.sess[s].cancelling THEN RecordMessage(v, s, NoPrompt)
                      ELSE RecordMessage(u, s, NoPrompt)
  BY DEF OnError
<1> HIDE DEF u
<1>7. Good(RecordMessage(u, s, NoPrompt), ups, R, n, k) /\ Stays(u, RecordMessage(u, s, NoPrompt))
  BY <1>3, <1>5, SayKeeps
<1>8. Stays(v, RecordMessage(u, s, NoPrompt))
  BY <1>4, <1>7, StaysTwice
<1> QED
  BY <1>2, <1>6, <1>7, <1>8

LEMMA StatusKeeps ==
    ASSUME Placed, NEW v, NEW ups, NEW R, NEW n, NEW k, Good(v, ups, R, n, k),
           NEW s \in Sid, NEW st \in Status, Heard(v, s)
    PROVE  Good(SetStatus(v, s, st), ups, R, n, k) /\ Stays(v, SetStatus(v, s, st))
<1> DEFINE w == SetStatus(v, s, st)
<1>1. /\ Good(w, ups, R, n, k) /\ Orphaned(w.sess) = Orphaned(v.sess)
      /\ w.sess = [v.sess EXCEPT ![s] = [v.sess[s] EXCEPT !.status = st]]
  BY SetStatusKeeps
<1> HIDE DEF w
<1>2. Stays(v, w)
  BY <1>1, StatusStays
<1> QED
  BY <1>1, <1>2 DEF w

LEMMA TurnOverKeeps ==
    ASSUME Placed, NEW v, NEW ups, NEW R, NEW n, NEW k, Good(v, ups, R, n, k),
           NEW s \in Sid, Heard(v, s)
    PROVE  Good(TurnOver(v, s), ups, R, n, k) /\ Stays(v, TurnOver(v, s))
<1> DEFINE w == IF v.sess[s].status = "error" THEN v ELSE SetStatus(v, s, "idle")
           x == [w.sess[s] EXCEPT !.busy = FALSE, !.cancelling = FALSE]
           u == [w EXCEPT !.sess[s].busy = FALSE, !.sess[s].cancelling = FALSE]
<1>1. Good(w, ups, R, n, k) /\ Stays(v, w)
  <2>1. "idle" \in Status
    BY DEF Status
  <2>2. Good(SetStatus(v, s, "idle"), ups, R, n, k) /\ Stays(v, SetStatus(v, s, "idle"))
    BY <2>1, StatusKeeps
  <2>3. Stays(v, v)
    BY DEF Stays
  <2> QED
    BY <2>2, <2>3
<1>2. TurnOver(v, s) = u
  BY DEF TurnOver
<1> HIDE DEF w
<1>3. GoodFacts(w, s, n)
  BY <1>1, GoodHas
<1>4. w \in Works /\ w.sess \in [Sid -> Session] /\ w.sess[s] \in Session
      /\ SoundOne(w.sess[s], s, Orphaned(w.sess), n)
  BY <1>3 DEF GoodFacts
<1>5. x \in Session /\ Alike(x, w.sess[s]) /\ x.busy = FALSE /\ x.queue = w.sess[s].queue
  BY <1>4, Zenon DEF Session, Alike
<1>6. u = Put(w, s, x)
  BY <1>4 DEF Works, Session, Put
<1> HIDE DEF u, x
<1>7. u \in Works /\ u.sess = [w.sess EXCEPT ![s] = x] /\ u.down = w.down
  BY <1>4, <1>5, <1>6, SetFields
<1>8. x.queue = <<>> \/ w.sess[s].live
  <2>1. w.sess[s].live \in BOOLEAN
    BY <1>4, SessionFields
  <2> QED
    BY <1>4, <1>5, <2>1 DEF SoundOne
<1>9. Good(u, ups, R, n, k) /\ Orphaned(u.sess) = Orphaned(w.sess)
  <2>1. x.busy => w.sess[s].busy \/ w.sess[s].live
    BY <1>5
  <2> QED
    BY <1>1, <1>5, <1>7, <1>8, <2>1, Quietly
<1>10. \A z \in Sid : u.sess[z].made = w.sess[z].made /\ u.sess[z].live = w.sess[z].live
  BY <1>4, <1>5, <1>7 DEF Alike
<1>11. Stays(w, u)
  BY <1>9, <1>10 DEF Stays
<1>12. Stays(v, u)
  BY <1>1, <1>11, StaysTwice
<1> QED
  BY <1>2, <1>9, <1>12

\* A prompt that no device takes.
Failed(w, s) == TurnOver(OnError(SetStatus(w, s, "running"), s), s)

LEMMA FailedKeeps ==
    ASSUME Placed, NEW w, NEW ups, NEW R, NEW n, NEW k, Good(w, ups, R, n, k),
           NEW s \in Sid, Heard(w, s)
    PROVE  Good(Failed(w, s), ups, R, n, k) /\ Stays(w, Failed(w, s))
<1> DEFINE a == SetStatus(w, s, "running")
           b == OnError(a, s)
           c == TurnOver(b, s)
<1>1. "running" \in Status
  BY DEF Status
<1>2. Good(a, ups, R, n, k) /\ Stays(w, a)
  BY <1>1, StatusKeeps
<1> HIDE DEF a
<1>3. Heard(a, s)
  BY <1>2, StaysHeard
<1>4. Good(b, ups, R, n, k) /\ Stays(a, b)
  BY <1>2, <1>3, ErrorKeeps
<1> HIDE DEF b
<1>5. Heard(b, s)
  BY <1>3, <1>4, StaysHeard
<1>6. Good(c, ups, R, n, k) /\ Stays(b, c)
  BY <1>4, <1>5, TurnOverKeeps
<1> HIDE DEF c
<1>7. Stays(w, b)
  BY <1>2, <1>4, StaysTwice
<1>8. Stays(w, c)
  BY <1>6, <1>7, StaysTwice
<1>9. Failed(w, s) = c
  BY DEF Failed, a, b, c
<1> QED
  BY <1>6, <1>8, <1>9

LEMMA FailAllKeeps ==
    ASSUME Placed, NEW v, NEW ups, NEW R, NEW n, NEW k, Good(v, ups, R, n, k),
           NEW s \in Sid, Heard(v, s)
    PROVE  Good(FailAll(v, s), ups, R, n, k)
<1> DEFINE u == [v EXCEPT !.sess[s].queue = <<>>]
           x == [v.sess[s] EXCEPT !.queue = <<>>]
           c == Len(v.sess[s].queue)
           V == {w \in Works : Good(w, ups, R, n, k) /\ Stays(v, w)}
           step == [i \in 1..c |-> [w \in V |-> Failed(w, s)]]
           Failing(d) == [i \in 0..c |-> IF i = 0 THEN u ELSE Failed(d[i - 1], s)]
           g == CHOOSE d : d = Failing(d)
<1>0. GoodFacts(v, s, n)
  BY GoodHas
<1>1. v \in Works /\ v.sess \in [Sid -> Session] /\ v.sess[s] \in Session
  BY <1>0 DEF GoodFacts
<1>2. c \in Nat
  BY <1>1, SessionFields
<1>3. u \in V
  <2>1. <<>> \in Seq(Prompt)
    OBVIOUS
  <2>2. x \in Session /\ Alike(x, v.sess[s]) /\ x.busy = v.sess[s].busy /\ x.queue = <<>>
    BY <1>1, <2>1, Zenon DEF Session, Alike
  <2>3. u = Put(v, s, x)
    BY <1>1 DEF Works, Session, Put
  <2> HIDE DEF u, x
  <2>4. u \in Works /\ u.sess = [v.sess EXCEPT ![s] = x] /\ u.down = v.down
    BY <1>1, <2>2, <2>3, SetFields
  <2>5. Good(u, ups, R, n, k) /\ Orphaned(u.sess) = Orphaned(v.sess)
    <3>1. x.busy => v.sess[s].busy \/ v.sess[s].live
      BY <2>2
    <3> QED
      BY <1>1, <2>2, <2>4, <3>1, Quietly
  <2>6. \A z \in Sid : u.sess[z].made = v.sess[z].made /\ u.sess[z].live = v.sess[z].live
    BY <1>1, <2>2, <2>4 DEF Alike
  <2> QED
    BY <2>4, <2>5, <2>6 DEF Stays
<1>4. FailAll(v, s) = g[c]
  BY DEF FailAll, Failed
<1> HIDE DEF u, c
<1>5. ASSUME NEW w \in V PROVE Failed(w, s) \in V
  <2>1. Good(w, ups, R, n, k) /\ Stays(v, w)
    OBVIOUS
  <2>2. Heard(w, s)
    BY <2>1, StaysHeard
  <2>3. Good(Failed(w, s), ups, R, n, k) /\ Stays(w, Failed(w, s))
    BY <2>1, <2>2, FailedKeeps
  <2>4. Stays(v, Failed(w, s))
    BY <2>1, <2>3, StaysTwice
  <2> QED
    BY <2>3, <2>4 DEF Good
<1> HIDE DEF V
<1>6. Steps(V, c, step)
  BY <1>5 DEF Steps
<1>7. \A i \in 1..c, w \in V : step[i][w] = Failed(w, s)
  OBVIOUS
<1> HIDE DEF step
<1>8. PICK d : Iterates(d, V, c, u, step)
  BY <1>2, <1>3, <1>6, Recursion
<1>9. d = Failing(d)
  <2>1. d \in [0..c -> V] /\ d[0] = u /\ \A i \in 1..c : d[i] = step[i][d[i - 1]]
    BY <1>8 DEF Iterates
  <2>2. ASSUME NEW i \in 1..c PROVE d[i] = Failed(d[i - 1], s)
    <3>1. i - 1 \in 0..c
      BY <1>2
    <3> QED
      BY <1>7, <2>1, <3>1
  <2>3. d = [i \in 0..c |-> d[i]]
    BY <2>1
  <2>4. \A i \in 0..c : i = 0 \/ i \in 1..c
    BY <1>2
  <2>5. \A i \in 0..c : d[i] = Failing(d)[i]
    BY <2>1, <2>2, <2>4
  <2> QED
    BY <2>3, <2>5
<1>10. g = Failing(g)
  BY <1>9
<1> HIDE DEF g
<1>11. g[0] = u /\ \A i \in 1..c : g[i] = Failed(g[i - 1], s)
  <2>1. \A i \in 0..c : g[i] = IF i = 0 THEN u ELSE Failed(g[i - 1], s)
    BY <1>10
  <2> QED
    BY <1>2, <2>1
<1> DEFINE Q == {i \in 0..c : g[i] \in V}
<1>12. 0 \in Q
  BY <1>2, <1>3, <1>11
<1>13. ASSUME NEW i \in Q, i \in 0..(c - 1) PROVE i + 1 \in Q
  <2>1. i + 1 \in 1..c /\ (i + 1) - 1 = i /\ g[i] \in V
    BY <1>2, <1>13
  <2>2. g[i + 1] = Failed(g[i], s)
    BY <1>11, <2>1
  <2> QED
    BY <1>5, <2>1, <2>2
<1> HIDE DEF Q
<1>14. 0..c \subseteq Q
  BY <1>2, <1>12, <1>13, UpTo
<1>15. c \in Q
  BY <1>2, <1>14
<1> QED
  BY <1>4, <1>15 DEF Q, V

LEMMA DrainKeeps ==
    ASSUME Placed, NEW v, NEW ups, NEW R, NEW n, NEW k, Good(v, ups, R, n, k),
           NEW s \in Sid, NEW online
    PROVE  Good(DrainQueue(v, s, online), ups, R, n, k)
<1> DEFINE u == [v EXCEPT !.sess[s].busy = TRUE, !.sess[s].queue = Tail(@)]
           x == [v.sess[s] EXCEPT !.busy = TRUE, !.queue = Tail(@)]
<1>0. GoodFacts(v, s, n)
  BY GoodHas
<1>1. v \in Works /\ v.sess \in [Sid -> Session] /\ v.sess[s] \in Session
      /\ SoundOne(v.sess[s], s, Orphaned(v.sess), n)
  BY <1>0 DEF GoodFacts
<1>2. CASE v.sess[s].busy \/ v.sess[s].queue = <<>>
  BY <1>2 DEF DrainQueue
<1>3. CASE ~(v.sess[s].busy \/ v.sess[s].queue = <<>>)
  <2>1. v.sess[s].live /\ v.sess[s].made
    <3>1. v.sess[s].live \in BOOLEAN
      BY <1>1, SessionFields
    <3> QED
      BY <1>1, <1>3, <3>1 DEF SoundOne
  <2>2. Heard(v, s)
    BY <2>1 DEF Heard
  <2>3. Good(FailAll(v, s), ups, R, n, k)
    BY <2>2, FailAllKeeps
  <2>4. Tail(v.sess[s].queue) \in Seq(Prompt)
    BY <1>1, <1>3, SessionFields
  <2>5. x \in Session /\ Alike(x, v.sess[s])
    BY <1>1, <2>4, Zenon DEF Session, Alike
  <2>6. u = Put(v, s, x)
    BY <1>1 DEF Works, Session, Put
  <2>7. DrainQueue(v, s, online) = IF ~online THEN FailAll(v, s) ELSE SetStatus(u, s, "running")
    BY <1>3 DEF DrainQueue
  <2> HIDE DEF u, x
  <2>8. u \in Works /\ u.sess = [v.sess EXCEPT ![s] = x] /\ u.down = v.down
    BY <1>1, <2>5, <2>6, SetFields
  <2>9. Good(u, ups, R, n, k) /\ Orphaned(u.sess) = Orphaned(v.sess)
    BY <2>1, <2>5, <2>8, Quietly
  <2>10. u.sess[s].made /\ u.sess[s].live
    BY <1>1, <2>1, <2>5, <2>8 DEF Alike
  <2>11. Heard(u, s) /\ "running" \in Status
    BY <2>10 DEF Heard, Status
  <2>12. Good(SetStatus(u, s, "running"), ups, R, n, k)
    BY <2>9, <2>11, SetStatusKeeps
  <2> QED
    BY <2>3, <2>7, <2>12
<1> QED
  BY <1>2, <1>3

LEMMA DoneKeeps ==
    ASSUME Placed, NEW v, NEW ups, NEW R, NEW n, NEW k, Good(v, ups, R, n, k),
           NEW s \in Sid, NEW online, Heard(v, s)
    PROVE  Good(OnDone(v, s, online), ups, R, n, k)
<1> DEFINE w == TurnOver(v, s)
<1>1. Good(w, ups, R, n, k)
  BY TurnOverKeeps
<1>2. OnDone(v, s, online) = DrainQueue(w, s, online)
  BY DEF OnDone
<1> HIDE DEF w
<1> QED
  BY <1>1, <1>2, DrainKeeps

LEMMA QueuedKeeps ==
    ASSUME Placed, NEW w, NEW ups, NEW R, NEW n, NEW k, Good(w, ups, R, n, k),
           NEW s \in Sid, w.sess[s].live, NEW p \in Prompt
    PROVE  Good([w EXCEPT !.sess[s].queue = Append(@, p)], ups, R, n, k)
<1> DEFINE u == [w EXCEPT !.sess[s].queue = Append(@, p)]
           x == [w.sess[s] EXCEPT !.queue = Append(@, p)]
<1>1. GoodFacts(w, s, n)
  BY GoodHas
<1>2. w \in Works /\ w.sess \in [Sid -> Session] /\ w.sess[s] \in Session
  BY <1>1 DEF GoodFacts
<1>3. Append(w.sess[s].queue, p) \in Seq(Prompt)
  BY <1>2, SessionFields
<1>4. x \in Session /\ Alike(x, w.sess[s])
  BY <1>2, <1>3, Zenon DEF Session, Alike
<1>5. u = Put(w, s, x)
  BY <1>2 DEF Works, Session, Put
<1> HIDE DEF x, u
<1>6. u \in Works /\ u.sess = [w.sess EXCEPT ![s] = x] /\ u.down = w.down
  BY <1>2, <1>4, <1>5, SetFields
<1>7. Good(u, ups, R, n, k)
  BY <1>4, <1>6, Quietly
<1> QED
  BY <1>7 DEF u

\* A prompt enters the history and the queue.
LEMMA EnqueueKeeps ==
    ASSUME Placed, NEW v, NEW ups \in [Tab -> Seq(ClientMsg)], NEW R, NEW n, NEW k,
           Good(v, ups, R, n, k),
           NEW t \in Tab, ups[t] # <<>>, tab[t].queue = <<>>,
           NEW p \in Prompt, Head(ups[t]).type = "send_prompt", Head(ups[t]).prompt = p,
           NEW s \in Sid, v.sess[s].live, NEW online
    PROVE  Good(EnqueuePrompt(v, s, p, online), Served(ups, t), R, n, k)
<1> DEFINE w == RecordMessage(v, s, p)
           u == [w EXCEPT !.sess[s].queue = Append(@, p)]
           rest == Served(ups, t)
<1>0. GoodFacts(v, s, n)
  BY GoodHas
<1>1. v \in Works /\ v.sess \in [Sid -> Session] /\ v.sess[s] \in Session
      /\ SoundOne(v.sess[s], s, Orphaned(v.sess), n)
  BY <1>0 DEF GoodFacts
<1>2. v.sess[s].made /\ Numbered(v.sess[s])
  BY <1>1 DEF SoundOne
<1>3. p \in Text /\ used.prompts \in Nat
  BY Numbers DEF Prompt, Text, Placed, Counts
<1>4. Prompts(v.sess, ups, tab, author, used.prompts)
  BY DEF Good
<1> HIDE DEF rest
<1>5. ASSUME NEW y \in Session, Recorded(y, v.sess[s], NewMessage(v.sess[s], p), NewSame(v, s))
      PROVE  Prompts([v.sess EXCEPT ![s] = y], rest, tab, author, used.prompts)
  BY <1>1, <1>2, <1>3, <1>4, <1>5, PromptsHeard DEF rest
<1>6. Good(w, rest, R, n, k) /\ Stays(v, w)
  BY <1>2, <1>3, <1>5, RecordKeeps
<1>7. EnqueuePrompt(v, s, p, online) = DrainQueue(u, s, online)
  BY DEF EnqueuePrompt
<1> HIDE DEF w
<1>8. w.sess[s].live
  BY <1>6 DEF Stays
<1> HIDE DEF u
<1>9. Good(u, rest, R, n, k)
  BY <1>6, <1>8, QueuedKeeps DEF u
<1> QED
  BY <1>7, <1>9, DrainKeeps DEF rest

-----------------------------------------------------------------------------
(* Sessions come and go. *)

\* Nothing has been done yet.
Begins(v) == v.sess = sess

Making(v, s) == Broadcast([v EXCEPT !.sess[s].made = TRUE, !.sess[s].live = TRUE],
                          Updated(s, "idle"))

LEMMA CreatedKeeps ==
    ASSUME Placed, NEW v, NEW ups, NEW R, NEW n, NEW k, Good(v, ups, R, n, k), Begins(v),
           NEW s \in Sid, ~v.sess[s].made
    PROVE  /\ Good(Making(v, s), ups, R, n, k)
           /\ Making(v, s).sess[s].live /\ Making(v, s).sess[s].status = "idle"
<1> DEFINE f == v.sess
           w == Making(v, s)
           m == Updated(s, "idle")
           x == [f[s] EXCEPT !.made = TRUE, !.live = TRUE]
           u == [v EXCEPT !.sess[s].made = TRUE, !.sess[s].live = TRUE]
<1>0. GoodFacts(v, s, n)
  BY GoodHas
<1>1. v \in Works /\ f \in [Sid -> Session] /\ f[s] \in Session /\ SoundOne(f[s], s, Orphaned(f), n)
      /\ Truth(v, R, k) /\ Sound(f, Orphaned(f), n)
  BY <1>0 DEF GoodFacts, Good
<1>2. ~f[s].live /\ f[s].status = "idle" /\ f[s].history = <<>> /\ ~f[s].busy /\ f[s].pending = {}
  <2>1. f[s].live \in BOOLEAN /\ f[s].made \in BOOLEAN
    BY <1>1, SessionFields
  <2> QED
    BY <1>1, <2>1 DEF SoundOne
<1>3. /\ x \in Session /\ x.made /\ x.live /\ x.status = f[s].status
      /\ x.history = f[s].history /\ x.read = f[s].read /\ x.same = f[s].same
      /\ x.queue = f[s].queue /\ x.busy = f[s].busy /\ x.pending = f[s].pending
  BY <1>1, Zenon DEF Session
<1>4. u = Put(v, s, x)
  BY <1>1 DEF Works, Session, Put
<1>5. m \in ServerMsg /\ m.type = "session_updated" /\ m.sid = s /\ m.status = "idle"
  BY DEF Updated, ServerMsg, Status
<1>6. w = Broadcast(u, m)
  BY DEF Making
<1> HIDE DEF x, u, w, m
<1>7. u \in Works /\ u.sess = [v.sess EXCEPT ![s] = x] /\ u.down = v.down
  BY <1>1, <1>3, <1>4, SetFields
<1>8. /\ w \in Works /\ w.sess = [f EXCEPT ![s] = x]
      /\ \A t \in open : w.down[t] = Append(v.down[t], m)
  <2>1. u \in Works /\ m \in ServerMsg
    BY <1>5, <1>7
  <2>2. /\ Broadcast(u, m) \in Works /\ Broadcast(u, m).sess = u.sess
        /\ \A t \in open : Broadcast(u, m).down[t] = Append(u.down[t], m)
    BY <2>1, BroadcastFields
  <2> QED
    BY <1>6, <1>7, <2>2
<1>9. w.sess[s] = x /\ \A z \in Sid : z # s => w.sess[z] = f[z]
  BY <1>1, <1>8
<1>10. Orphaned(w.sess) = Orphaned(f)
  BY <1>2, <1>3, <1>9 DEF Orphaned, Begins
<1>11. \A z \in Sid : /\ w.sess[z].status = f[z].status /\ w.sess[z].history = f[z].history
                      /\ w.sess[z].pending = f[z].pending /\ w.sess[z].same = f[z].same
                      /\ z # s => w.sess[z].live = f[z].live
  BY <1>3, <1>9
<1>12. SoundOne(x, s, Orphaned(f), n)
  <2>1. Numbered(x)
    BY <1>1, <1>3 DEF SoundOne, Numbered
  <2> QED
    BY <1>1, <1>3, <2>1 DEF SoundOne
<1>13. Sound(w.sess, Orphaned(w.sess), n)
  <2> HIDE DEF f
  <2>1. x.pending \subseteq f[s].pending
    BY <1>3
  <2>2. Sound([f EXCEPT ![s] = x], Orphaned(f), n)
    BY <1>1, <1>3, <1>12, <2>1, SoundWith
  <2> QED
    BY <1>8, <1>10, <2>2
<1>14. ASSUME NEW t \in open, NEW y \in View, Told(y, f, Orphaned(f), R[t], k)
       PROVE  Told(Taken(y, m), w.sess, Orphaned(w.sess), R[t], k)
  <2>1. /\ Taken(y, m).sessions = [y.sessions EXCEPT ![s] = "idle"]
        /\ Taken(y, m).messages = y.messages /\ Taken(y, m).modals = y.modals
    BY <1>5 DEF Taken, Statuses, Panes, Modals
  <2>2. y.sessions \in [Sid -> Shown] /\ y.messages \in [Sid -> Seq(Msg)]
    BY DEF View
  <2>3. EndsIn(y.messages[s], <<>>)
    BY <2>2, EndsInNothing
  <2>4. ASSUME NEW z \in Sid
        PROVE  IF w.sess[z].live
               THEN /\ Taken(y, m).sessions[z] = w.sess[z].status
                    /\ EndsIn(Taken(y, m).messages[z], w.sess[z].history)
               ELSE Taken(y, m).sessions[z] # "absent" => z \in Orphaned(w.sess)
    <3>1. CASE z = s
      BY <1>2, <1>3, <1>9, <2>1, <2>2, <2>3, <3>1
    <3>2. CASE z # s
      BY <1>9, <1>10, <1>14, <2>1, <2>2, <3>2 DEF Told
    <3> QED
      BY <3>1, <3>2
  <2>5. \A z \in Sid : (w.sess[z].live /\ w.sess[z].pending # {}) <=> (f[z].live /\ f[z].pending # {})
    BY <1>2, <1>11
  <2>6. \A z \in Sid, r \in R[t] : r <= k =>
          ([sid |-> z, req |-> r] \in Range(Taken(y, m).modals)
              <=> w.sess[z].live /\ r \in w.sess[z].pending)
    BY <1>11, <1>14, <2>1, <2>5 DEF Told
  <2> QED
    BY <1>14, <2>1, <2>4, <2>6 DEF Told
<1>15. Truth(w, R, k)
  <2>1. Tells(v, w, m, R, k, k)
    BY <1>5, <1>8, <1>14 DEF Tells
  <2> QED
    BY <1>1, <1>5, <1>8, <2>1, TellsTrue
<1>16. Prompts(w.sess, ups, tab, author, used.prompts) /\ Grown(w.sess)
  BY <1>11, PromptsAlike, GrownAlike DEF Good
<1>17. Good(w, ups, R, n, k)
  BY <1>8, <1>13, <1>15, <1>16 DEF Good
<1> QED
  BY <1>2, <1>3, <1>9, <1>17 DEF w

\* The tab that asked for a session is told of it once more.
Repeats(v, w, m, R, k) ==
    /\ m.type # "permission_request"
    /\ \A t \in open :
          /\ w.down[t] \in {v.down[t], Append(v.down[t], m)}
          /\ \A y \in View : Told(y, v.sess, Orphaned(v.sess), R[t], k) =>
                              Told(Taken(y, m), v.sess, Orphaned(v.sess), R[t], k)

LEMMA RepeatsTrue ==
    ASSUME Placed, NEW v \in Works, NEW w \in Works, w.sess = v.sess, NEW R, NEW k,
           Truth(v, R, k), NEW m \in ServerMsg, Repeats(v, w, m, R, k)
    PROVE  Truth(w, R, k)
<1> SUFFICES ASSUME NEW t \in open
             PROVE  /\ Bounded(w.down[t], k)
                    /\ \E y \in View : /\ Seen(ViewOf(tab[t]), w.down[t], y)
                                       /\ Told(y, w.sess, Orphaned(w.sess), R[t], k)
  BY DEF Truth
<1>1. t \in Tab /\ tab[t] \in Page
  BY DEF Placed
<1>2. PICK y \in View : Seen(ViewOf(tab[t]), v.down[t], y)
                        /\ Told(y, v.sess, Orphaned(v.sess), R[t], k)
  BY DEF Truth
<1>3. ViewOf(tab[t]) \in View /\ v.down[t] \in Seq(ServerMsg)
  BY <1>1, PageFields, WorkFields
<1>4. Seen(ViewOf(tab[t]), Append(v.down[t], m), Taken(y, m))
  BY <1>2, <1>3, SeenMore
<1>5. Taken(y, m) \in View
  BY TakenTyped
<1>6. Bounded(v.down[t], k)
  BY DEF Truth
<1>7. Bounded(Append(v.down[t], m), k)
  BY <1>3, <1>6, BoundedAppend DEF Repeats
<1> QED
  BY <1>2, <1>4, <1>5, <1>6, <1>7 DEF Repeats

LEMMA CreateKeeps ==
    ASSUME Placed, NEW v, NEW ups, NEW R, NEW n, NEW k, Good(v, ups, R, n, k), Begins(v),
           NEW ts
    PROVE  Good(CreateSession(v, ts), ups, R, n, k)
<1> DEFINE unmade == {s \in Sid : ~v.sess[s].made}
           s == Min(unmade)
           w == Making(v, s)
           m == Created(s, "idle")
           z == SendTo(w, ts, m)
<1>1. CASE unmade = {}
  BY <1>1 DEF CreateSession
<1>2. CASE unmade # {}
  <2>1. CreateSession(v, ts) = z
    BY <1>2 DEF CreateSession, Making
  <2>2. s \in Sid /\ ~v.sess[s].made
    BY <1>2, MinSession
  <2> HIDE DEF s, z
  <2>3. /\ Good(w, ups, R, n, k)
        /\ w.sess[s].live /\ w.sess[s].status = "idle"
    BY <2>2, CreatedKeeps
  <2> HIDE DEF w
  <2>4. m \in ServerMsg /\ m.type = "session_created" /\ m.sid = s /\ m.status = "idle"
    BY <2>2 DEF Created, ServerMsg, Status
  <2>5. w \in Works /\ Truth(w, R, k) /\ open \subseteq Tab
    BY <2>3 DEF Good, Placed
  <2> HIDE DEF m
  <2>6. /\ z \in Works /\ z.sess = w.sess
        /\ \A t \in Tab : z.down[t] = IF t \in ts \cap open THEN Append(w.down[t], m)
                                     ELSE w.down[t]
    BY <2>4, <2>5, SendFields DEF z
  <2>7. ASSUME NEW t \in open, NEW y \in View, Told(y, w.sess, Orphaned(w.sess), R[t], k)
        PROVE  Told(Taken(y, m), w.sess, Orphaned(w.sess), R[t], k)
    <3>1. /\ Taken(y, m).sessions = [y.sessions EXCEPT ![s] = "idle"]
          /\ Taken(y, m).messages = y.messages /\ Taken(y, m).modals = y.modals
      BY <2>4 DEF Taken, Statuses, Panes, Modals
    <3>2. y.sessions[s] = "idle" /\ y.sessions \in [Sid -> Shown]
      BY <2>2, <2>3, <2>7 DEF Told, View
    <3>3. Taken(y, m).sessions = y.sessions
      BY <3>1, <3>2
    <3> QED
      BY <2>7, <3>1, <3>3 DEF Told
  <2>8. Repeats(w, z, m, R, k)
    BY <2>4, <2>5, <2>6, <2>7 DEF Repeats
  <2>9. Truth(z, R, k)
    BY <2>4, <2>5, <2>6, <2>8, RepeatsTrue
  <2>10. Good(z, ups, R, n, k)
    BY <2>3, <2>6, <2>9 DEF Good
  <2> QED
    BY <2>1, <2>10
<1> QED
  BY <1>1, <1>2

LEMMA DeleteKeeps ==
    ASSUME Placed, NEW v, NEW ups, NEW R, NEW n, NEW k, Good(v, ups, R, n, k), Begins(v),
           NEW s \in Sid, v.sess[s].live
    PROVE  Good(DeleteSession(v, s), ups, R, n, k)
<1> DEFINE c == Cancel(v, s)
           f == c.sess
           x == [f[s] EXCEPT !.live = FALSE]
           u == [c EXCEPT !.sess[s].live = FALSE]
           m == Deleted(s)
           w == Broadcast(u, m)
<1>1. /\ Good(c, ups, R, n, k) /\ Stays(v, c) /\ f[s].pending = {} /\ f[s].queue = <<>>
      /\ f[s].busy = sess[s].busy
  BY CancelKeeps DEF Begins
<1>2. DeleteSession(v, s) = w
  BY DEF DeleteSession
<1> HIDE DEF c, f
<1>3. GoodFacts(c, s, n)
  BY <1>1, GoodHas
<1>4. c \in Works /\ f \in [Sid -> Session] /\ f[s] \in Session /\ SoundOne(f[s], s, Orphaned(f), n)
      /\ Truth(c, R, k) /\ Sound(f, Orphaned(f), n)
  BY <1>1, <1>3 DEF GoodFacts, Good, f
<1>5. /\ x \in Session /\ x.made = f[s].made /\ ~x.live /\ x.status = f[s].status
      /\ x.history = f[s].history /\ x.read = f[s].read /\ x.same = f[s].same
      /\ x.queue = f[s].queue /\ x.busy = f[s].busy /\ x.pending = f[s].pending
  BY <1>4, Zenon DEF Session
<1>6. u = Put(c, s, x)
  BY <1>4 DEF Works, Session, f, Put
<1>7. m \in ServerMsg /\ m.type = "session_deleted" /\ m.sid = s
  BY DEF Deleted, ServerMsg
<1> HIDE DEF x, u, m, w
<1>8. u \in Works /\ u.sess = [c.sess EXCEPT ![s] = x] /\ u.down = c.down
  <2>1. c \in Works /\ x \in Session
    BY <1>4, <1>5
  <2> QED
    BY <1>6, <2>1, SetFields
<1>9. /\ w \in Works /\ w.sess = [f EXCEPT ![s] = x]
      /\ \A t \in open : w.down[t] = Append(c.down[t], m)
  <2>1. /\ w \in Works /\ w.sess = u.sess
        /\ \A t \in open : w.down[t] = Append(u.down[t], m)
    BY <1>7, <1>8, BroadcastFields DEF w
  <2> QED
    BY <1>8, <2>1 DEF f
<1>10. w.sess[s] = x /\ \A z \in Sid : z # s => w.sess[z] = f[z]
  BY <1>4, <1>9
<1>11. \A z \in Sid : f[z].live = sess[z].live /\ f[z].made = sess[z].made
  BY <1>1 DEF Stays, f, Begins
<1>12. /\ Orphaned(f) \subseteq Orphaned(w.sess)
       /\ x.busy => s \in Orphaned(w.sess)
       /\ \A z \in Sid : z # s => (z \in Orphaned(w.sess) <=> z \in Orphaned(f))
  <2>1. Orphaned(f) \subseteq Orphaned(w.sess)
    BY <1>5, <1>10, <1>11 DEF Orphaned
  <2>2. x.busy => s \in Orphaned(w.sess)
    BY <1>1, <1>5, <1>10 DEF Orphaned, Begins
  <2>3. \A z \in Sid : z # s => (z \in Orphaned(w.sess) <=> z \in Orphaned(f))
    BY <1>10 DEF Orphaned
  <2> QED
    BY <2>1, <2>2, <2>3
<1>13. SoundOne(x, s, Orphaned(w.sess), n)
  <2>1. Numbered(x)
    BY <1>4, <1>5 DEF SoundOne, Numbered
  <2>2. x.made
    <3>1. f[s].live
      BY <1>1 DEF Stays, f
    <3> QED
      BY <1>4, <1>5, <3>1 DEF SoundOne
  <2>3. x.queue = <<>> /\ x.pending \subseteq 1..n
    BY <1>1, <1>5
  <2> QED
    BY <1>5, <1>12, <2>1, <2>2, <2>3 DEF SoundOne
<1>14. Sound(w.sess, Orphaned(w.sess), n)
  <2>1. x.pending \subseteq f[s].pending
    BY <1>5
  <2>2. Sound([f EXCEPT ![s] = x], Orphaned(w.sess), n)
    BY <1>4, <1>5, <1>12, <1>13, <2>1, SoundWith
  <2> QED
    BY <1>9, <2>2
<1>15. ASSUME NEW t \in open, NEW y \in View, Told(y, f, Orphaned(f), R[t], k)
       PROVE  Told(Taken(y, m), w.sess, Orphaned(w.sess), R[t], k)
  <2>1. /\ Taken(y, m).sessions = [y.sessions EXCEPT ![s] = "absent"]
        /\ Taken(y, m).messages = [y.messages EXCEPT ![s] = <<>>] /\ Taken(y, m).modals = y.modals
    BY <1>7 DEF Taken, Statuses, Panes, Modals
  <2>2. y.sessions \in [Sid -> Shown] /\ y.messages \in [Sid -> Seq(Msg)]
    BY DEF View
  <2>3. ASSUME NEW z \in Sid
        PROVE  IF w.sess[z].live
               THEN /\ Taken(y, m).sessions[z] = w.sess[z].status
                    /\ EndsIn(Taken(y, m).messages[z], w.sess[z].history)
               ELSE Taken(y, m).sessions[z] # "absent" => z \in Orphaned(w.sess)
    <3>1. CASE z = s
      BY <1>5, <1>10, <2>1, <2>2, <3>1
    <3>2. CASE z # s
      BY <1>10, <1>12, <1>15, <2>1, <2>2, <3>2 DEF Told
    <3> QED
      BY <3>1, <3>2
  <2>4. \A z \in Sid : \A r : w.sess[z].live /\ r \in w.sess[z].pending <=> f[z].live /\ r \in f[z].pending
    BY <1>1, <1>5, <1>10
  <2>5. \A z \in Sid, r \in R[t] : r <= k =>
          ([sid |-> z, req |-> r] \in Range(Taken(y, m).modals)
              <=> w.sess[z].live /\ r \in w.sess[z].pending)
    BY <1>15, <2>1, <2>4 DEF Told
  <2> QED
    BY <1>15, <2>1, <2>3, <2>5 DEF Told
<1>16. Truth(w, R, k)
  <2>1. Tells(c, w, m, R, k, k)
    BY <1>7, <1>9, <1>15 DEF Tells, f
  <2> QED
    BY <1>4, <1>7, <1>9, <2>1, TellsTrue
<1>17. \A z \in Sid : w.sess[z].history = f[z].history /\ w.sess[z].same = f[z].same
  BY <1>5, <1>10
<1>18. Prompts(w.sess, ups, tab, author, used.prompts) /\ Grown(w.sess)
  BY <1>1, <1>17, PromptsAlike, GrownAlike DEF Good, f
<1>19. Good(w, ups, R, n, k)
  BY <1>9, <1>14, <1>16, <1>18 DEF Good
<1> QED
  BY <1>2, <1>19

-----------------------------------------------------------------------------
(* A message of a tab is handled. *)

LEMMA ClientFields ==
    ASSUME NEW m \in ClientMsg
    PROVE  /\ m.type \in {"create_session", "cancel_all", "send_prompt", "permission_response",
                          "cancel", "delete_session"}
           /\ m.type \notin {"create_session", "cancel_all"} => m.sid \in Sid
           /\ m.type = "send_prompt" => m.prompt \in Prompt
           /\ m.type = "permission_response" => m.req \in Req
BY DEF ClientMsg

\* Any message but a prompt.
LEMMA ClickKeeps ==
    ASSUME Placed, NEW v, NEW ups, NEW R, NEW n, NEW k, Good(v, ups, R, n, k), Begins(v),
           NEW m \in ClientMsg, m.type # "send_prompt", NEW ts, NEW online
    PROVE  Good(HandleClientMessage(v, ts, m, online), ups, R, n, k)
<1> DEFINE w == HandleClientMessage(v, ts, m, online)
<1>1. CASE m.type = "create_session"
  <2>1. w = CreateSession(v, ts)
    BY <1>1 DEF HandleClientMessage
  <2> HIDE DEF w
  <2> QED
    BY <2>1, CreateKeeps DEF w
<1>2. CASE m.type = "cancel_all"
  <2>1. w = CancelEvery(v)
    BY <1>2 DEF HandleClientMessage
  <2> HIDE DEF w
  <2> QED
    BY <2>1, CancelEveryKeeps DEF w
<1>3. CASE m.type \in {"permission_response", "cancel", "delete_session"}
  <2>1. m.sid \in Sid
    BY <1>3, ClientFields
  <2>2. CASE ~v.sess[m.sid].live
    <3>1. w = v
      BY <1>3, <2>2 DEF HandleClientMessage
    <3> HIDE DEF w
    <3> QED
      BY <3>1 DEF w
  <2>3. CASE v.sess[m.sid].live
    <3>1. CASE m.type = "permission_response"
      <4>1. w = ResolvePermission(v, m.sid, m.req)
        BY <2>3, <3>1 DEF HandleClientMessage
      <4>2. m.req \in Req
        BY <3>1, ClientFields
      <4> HIDE DEF w
      <4> QED
        BY <2>1, <2>3, <4>1, <4>2, ResolveKeeps DEF w
    <3>2. CASE m.type = "cancel"
      <4>1. w = Cancel(v, m.sid)
        BY <2>3, <3>2 DEF HandleClientMessage
      <4> HIDE DEF w
      <4> QED
        BY <2>1, <2>3, <4>1, CancelKeeps DEF w
    <3>3. CASE m.type = "delete_session"
      <4>1. w = DeleteSession(v, m.sid)
        BY <2>3, <3>3 DEF HandleClientMessage
      <4> HIDE DEF w
      <4> QED
        BY <2>1, <2>3, <4>1, DeleteKeeps DEF w
    <3> QED
      BY <1>3, <3>1, <3>2, <3>3
  <2> QED
    BY <2>2, <2>3
<1> QED
  BY <1>1, <1>2, <1>3, ClientFields

LEMMA HandleKeeps ==
    ASSUME Placed, NEW v, NEW R, NEW n, NEW k, Good(v, up, R, n, k), Begins(v),
           NEW t \in Tab, up[t] # <<>>, NEW ts, NEW online
    PROVE  Good(HandleClientMessage(v, ts, Head(up[t]), online), Served(up, t), R, n, k)
<1> DEFINE m == Head(up[t])
           rest == Served(up, t)
<1>1. up \in [Tab -> Seq(ClientMsg)] /\ tab[t].queue = <<>>
  BY DEF Placed
<1>2. m \in ClientMsg
  BY <1>1
<1>3. Good(v, rest, R, n, k)
  <2>1. Prompts(v.sess, up, tab, author, used.prompts)
    BY DEF Good
  <2>2. Prompts(v.sess, rest, tab, author, used.prompts)
    BY <1>1, <2>1, PromptsServed
  <2> HIDE DEF rest
  <2> QED
    BY <2>2 DEF Good
<1>4. CASE m.type = "send_prompt"
  <2>1. m.sid \in Sid /\ m.prompt \in Prompt
    BY <1>2, <1>4, ClientFields
  <2>2. CASE ~v.sess[m.sid].live
    <3>1. HandleClientMessage(v, ts, m, online) = v
      BY <1>4, <2>2 DEF HandleClientMessage
    <3> HIDE DEF rest, m
    <3> QED
      BY <1>3, <3>1 DEF rest, m
  <2>3. CASE v.sess[m.sid].live
    <3>1. HandleClientMessage(v, ts, m, online) = EnqueuePrompt(v, m.sid, m.prompt, online)
      BY <1>4, <2>3 DEF HandleClientMessage
    <3>2. Good(EnqueuePrompt(v, m.sid, m.prompt, online), rest, R, n, k)
      BY <1>1, <1>4, <2>1, <2>3, EnqueueKeeps
    <3> HIDE DEF rest, m
    <3> QED
      BY <3>1, <3>2 DEF rest, m
  <2> QED
    BY <2>2, <2>3
<1>5. CASE m.type # "send_prompt"
  <2> HIDE DEF m, rest
  <2>1. Good(HandleClientMessage(v, ts, m, online), rest, R, n, k)
    BY <1>2, <1>3, <1>5, ClickKeeps
  <2> QED
    BY <2>1 DEF m, rest
<1> QED
  BY <1>4, <1>5

-----------------------------------------------------------------------------
(* The sessions are read back. *)

\* The last of the first i places that is not in S.
LEMMA LastOutside ==
    ASSUME NEW i \in Nat \ {0}, NEW S, 1 \notin S
    PROVE  /\ Max((1..i) \ S) \in (1..i) \ S
           /\ \A j \in (1..i) \ S : j <= Max((1..i) \ S)
<1> DEFINE T == (1..i) \ S
           D == {i - j : j \in T}
<1>1. D \in SUBSET Nat /\ i - 1 \in D
  OBVIOUS
<1>2. PICK d \in D : \A e \in D : d <= e
  BY <1>1, Least
<1>3. PICK m \in T : d = i - m
  BY <1>2
<1>4. \A j \in T : m >= j
  <2> TAKE j \in T
  <2>1. i - j \in D
    OBVIOUS
  <2>2. i - m <= i - j
    BY <1>2, <1>3, <2>1
  <2> QED
    BY <2>2
<1> HIDE DEF T
<1>5. Max(T) \in T /\ \A j \in T : Max(T) >= j
  BY <1>3, <1>4 DEF Max
<1>6. \A j \in T : j <= Max(T)
  BY <1>5 DEF T
<1> QED
  BY <1>5, <1>6 DEF T

\* The places that may be exchanged: each group of one millisecond.
Groups(x) == [i \in DOMAIN x.history |-> Max((1..i) \ x.same)]

\* A later place is in a group as late; places in one group are of one
\* millisecond.
LEMMA GroupsInOrder ==
    ASSUME NEW x \in Session, Numbered(x),
           NEW i \in DOMAIN x.history, NEW j \in DOMAIN x.history, i < j
    PROVE  /\ Groups(x)[i] \in Nat /\ Groups(x)[j] \in Nat
           /\ Groups(x)[i] <= Groups(x)[j]
           /\ Groups(x)[i] = Groups(x)[j] => (i + 1)..j \subseteq x.same
<1> DEFINE S == x.same
           g == Max((1..i) \ S)
           h == Max((1..j) \ S)
<1>1. x.history \in Seq(Msg) /\ DOMAIN x.history = 1..Len(x.history) /\ Len(x.history) \in Nat
      /\ x.read \in Nat
  BY SessionFields
<1>2. i \in Nat \ {0} /\ j \in Nat \ {0} /\ 1..i \subseteq 1..j
  BY <1>1
<1>3. 1 \notin S
  <2>1. S \subseteq (x.read + 2)..Len(x.history)
    BY DEF Numbered
  <2> QED
    BY <1>1, <2>1
<1>4. Groups(x)[i] = g /\ Groups(x)[j] = h
  BY DEF Groups
<1> HIDE DEF S
<1>5. g \in (1..i) \ S /\ \A a \in (1..i) \ S : a <= g
  BY <1>2, <1>3, LastOutside
<1>6. h \in (1..j) \ S /\ \A a \in (1..j) \ S : a <= h
  BY <1>2, <1>3, LastOutside
<1> HIDE DEF g, h
<1>7. g <= h
  BY <1>2, <1>5, <1>6
<1>8. ASSUME g = h, NEW a \in (i + 1)..j PROVE a \in S
  <2>1. a \in 1..j /\ a > i
    BY <1>2
  <2>2. a \notin S => a <= h
    BY <1>6, <2>1
  <2>3. h <= i
    BY <1>2, <1>5, <1>8
  <2>4. h \in Nat
    BY <1>2, <1>6
  <2> QED
    BY <1>2, <2>1, <2>2, <2>3, <2>4
<1> QED
  BY <1>2, <1>4, <1>5, <1>6, <1>7, <1>8 DEF S

\* The order in which the messages of x are read back, and what is made of it.
ReadBack(x, y, q) ==
    /\ q \in [DOMAIN x.history -> DOMAIN x.history] /\ IsInjective(q)
    /\ \A i \in DOMAIN x.history : \E j \in DOMAIN x.history : q[j] = i
    /\ \A i \in DOMAIN x.history : Groups(x)[q[i]] = Groups(x)[i]
    /\ y.history = [i \in DOMAIN x.history |-> x.history[q[i]]]
    /\ y.read = Len(x.history)

AtRest(y) == y.status = "idle" /\ ~y.busy /\ y.queue = <<>> /\ y.pending = {} /\ y.same = {}

LEMMA LoadedLive ==
    ASSUME NEW x \in Session, x.live, NEW y \in Loaded(x)
    PROVE  /\ y \in Session /\ y.made /\ y.live /\ AtRest(y)
           /\ \E q : ReadBack(x, y, q)
<1> DEFINE D == DOMAIN x.history
           g == [i \in D |-> Max((1..i) \ x.same)]
<1>1. Loaded(x) = {Reordered(x, q) : q \in {q \in Orders(x.history) : \A i \in DOMAIN q : g[q[i]] = g[i]}}
  BY DEF Loaded
<1>2. g = Groups(x)
  BY DEF Groups
<1> HIDE DEF g
<1>3. PICK q \in Orders(x.history) : (\A i \in DOMAIN q : g[q[i]] = g[i]) /\ y = Reordered(x, q)
  BY <1>1
<1>4. q \in [D -> D] /\ IsInjective(q) /\ \A i \in D : \E j \in D : q[j] = i
  BY DEF Orders, Bijection, Injection, Surjection
<1> DEFINE h == [i \in D |-> x.history[q[i]]]
<1>5. h \in Seq(Msg) /\ Len(x.history) \in Nat
  <2>1. x.history \in Seq(Msg) /\ D = 1..Len(x.history) /\ Len(x.history) \in Nat
    BY SessionFields
  <2>2. h \in [1..Len(x.history) -> Msg]
    <3>0. \A i \in D : x.history[i] \in Msg
      BY <2>1
    <3> HIDE DEF D
    <3>1. \A i \in D : q[i] \in D /\ x.history[q[i]] \in Msg
      BY <1>4, <3>0
    <3>2. h \in [D -> Msg]
      BY <3>1
    <3> QED
      BY <2>1, <3>2
  <2> HIDE DEF h
  <2> QED
    BY <2>1, <2>2
<1> HIDE DEF D
<1>6. y = [FreshSession EXCEPT !.made = TRUE, !.live = TRUE, !.read = Len(x.history), !.history = h]
  BY <1>3 DEF Reordered, D
<1> HIDE DEF h
<1>7. /\ y.made = TRUE /\ y.live = TRUE /\ y.status = "idle" /\ y.busy = FALSE /\ y.queue = <<>>
      /\ y.pending = {} /\ y.same = {} /\ y.history = h /\ y.read = Len(x.history)
      /\ y.cancelling = FALSE
      /\ y = [made |-> y.made, live |-> y.live, status |-> y.status, history |-> y.history,
              read |-> y.read, same |-> y.same, queue |-> y.queue, busy |-> y.busy,
              cancelling |-> y.cancelling, pending |-> y.pending]
  BY <1>6, Zenon DEF FreshSession
<1>8. "idle" \in Status /\ <<>> \in Seq(Prompt) /\ {} \in SUBSET Req /\ {} \in SUBSET Nat
  BY DEF Status
<1>9. y \in Session
  BY <1>5, <1>7, <1>8, Zenon DEF Session
<1>10. ReadBack(x, y, q)
  BY <1>2, <1>3, <1>4, <1>7 DEF ReadBack, h, D
<1> QED
  BY <1>7, <1>9, <1>10 DEF AtRest

LEMMA LoadedGone ==
    ASSUME NEW x \in Session, ~x.live, NEW y \in Loaded(x)
    PROVE  y \in Session /\ y.made = x.made /\ ~y.live /\ AtRest(y)
           /\ y.history = <<>> /\ y.read = 0
<1>1. y = [FreshSession EXCEPT !.made = x.made]
  BY DEF Loaded
<1>2. /\ y.made = x.made /\ y.live = FALSE /\ y.status = "idle" /\ y.busy = FALSE /\ y.queue = <<>>
      /\ y.pending = {} /\ y.same = {} /\ y.history = <<>> /\ y.read = 0 /\ y.cancelling = FALSE
      /\ y = [made |-> y.made, live |-> y.live, status |-> y.status, history |-> y.history,
              read |-> y.read, same |-> y.same, queue |-> y.queue, busy |-> y.busy,
              cancelling |-> y.cancelling, pending |-> y.pending]
  BY <1>1, Zenon DEF FreshSession
<1>3. /\ "idle" \in Status /\ <<>> \in Seq(Prompt) /\ <<>> \in Seq(Msg) /\ {} \in SUBSET Req
      /\ {} \in SUBSET Nat /\ 0 \in Nat
  BY DEF Status
<1>4. x.made \in BOOLEAN
  BY SessionFields
<1>5. y \in Session
  BY <1>2, <1>3, <1>4, Zenon DEF Session
<1> QED
  BY <1>2, <1>5 DEF AtRest

\* What is read back is numbered as it was.
LEMMA ReadBackNumbered ==
    ASSUME NEW x \in Session, Numbered(x), NEW y \in Session, y.same = {}, NEW q, ReadBack(x, y, q)
    PROVE  Numbered(y) /\ Said(y) = Said(x) /\ Range(y.history) = Range(x.history)
<1> DEFINE h == x.history
           g == y.history
           n == Len(h)
<1>1. h \in Seq(Msg) /\ DOMAIN h = 1..n /\ n \in Nat
  BY SessionFields
<1>2. /\ q \in [1..n -> 1..n] /\ \A i, j \in 1..n : q[i] = q[j] => i = j
      /\ \A i \in 1..n : \E j \in 1..n : q[j] = i
      /\ g = [i \in 1..n |-> h[q[i]]] /\ y.read = n
  BY <1>1 DEF ReadBack, IsInjective
<1>3. DOMAIN g = 1..n /\ Len(g) = n /\ \A i \in 1..n : g[i] = h[q[i]]
  <2>1. g \in Seq(Msg) /\ DOMAIN g = 1..n
    BY <1>2, SessionFields
  <2>2. DOMAIN g = 1..Len(g) /\ Len(g) \in Nat
    BY <2>1
  <2>3. Len(g) = n
    BY <1>1, <2>1, <2>2
  <2> QED
    BY <1>2, <2>1, <2>3
<1>4. Range(g) = Range(h)
  <2>1. \A i \in 1..n : q[i] \in 1..n
    BY <1>2
  <2>2. Range(g) = {g[i] : i \in 1..n} /\ Range(h) = {h[i] : i \in 1..n}
    BY <1>1, <1>3 DEF Range
  <2> HIDE DEF g, h, n
  <2>3. \A i \in 1..n : g[i] \in Range(h)
    BY <1>3, <2>1, <2>2
  <2>4. \A i \in 1..n : h[i] \in Range(g)
    BY <1>2, <1>3, <2>2
  <2> QED
    BY <2>2, <2>3, <2>4
<1>5. \A i \in 1..n : h[i].n \in 1..n
  <2> TAKE i \in 1..n
  <2>1. h[i] \in Range(h)
    BY <1>1 DEF Range
  <2> QED
    BY <2>1, NumberedBelow
<1>6. \A i, j \in 1..n : h[i].n = h[j].n => i = j
  BY DEF Numbered
<1> HIDE DEF h, g, n
<1>7. y.read \in 0..Len(g) /\ (\A i \in 1..y.read : g[i].n \in 1..y.read)
  BY <1>1, <1>2, <1>3, <1>5
<1>8. \A i \in (y.read + 1)..Len(g) : g[i].n = i
  BY <1>1, <1>2, <1>3
<1>9. ASSUME NEW i \in 1..Len(g), NEW j \in 1..Len(g), g[i].n = g[j].n PROVE i = j
  <2>1. i \in 1..n /\ j \in 1..n /\ q[i] \in 1..n /\ q[j] \in 1..n
    BY <1>2, <1>3
  <2>2. h[q[i]].n = h[q[j]].n
    BY <1>3, <1>9, <2>1
  <2>3. q[i] = q[j]
    BY <1>6, <2>1, <2>2
  <2> QED
    BY <1>2, <2>1, <2>3
<1>10. Numbered(y)
  BY <1>7, <1>8, <1>9 DEF Numbered, g
<1>11. Said(y) = Said(x)
  BY <1>4 DEF Said, g, h
<1> QED
  BY <1>4, <1>10, <1>11 DEF g, h

-----------------------------------------------------------------------------
(* What a step does to the histories. *)

\* The property HistoryIsKept, of one step.
HistoriesKept(g, running) ==
    \A s \in Sid : g[s].live =>
        /\ Range(sess[s].history) \subseteq Range(g[s].history)
        /\ \A m, k \in Range(sess[s].history) :
              Before(sess[s].history, m, k) /\ Before(g[s].history, k, m) =>
                  ~running /\ (m.n + 1)..k.n \subseteq sess[s].same

\* The old history is the beginning of the new one.
LEMMA GrownFacts ==
    ASSUME sess \in [Sid -> Session], NEW f \in [Sid -> Session], Grown(f), NEW s \in Sid
    PROVE  /\ DOMAIN sess[s].history \subseteq DOMAIN f[s].history
           /\ \A i \in DOMAIN sess[s].history :
                 /\ i \in Nat /\ f[s].history[i] = sess[s].history[i]
                 /\ i \in f[s].same => i \in sess[s].same
           /\ Range(sess[s].history) \subseteq Range(f[s].history)
<1> DEFINE h == sess[s].history
           g == f[s].history
<1>1. /\ DOMAIN h = 1..Len(h) /\ DOMAIN g = 1..Len(g) /\ Len(h) \in Nat /\ Len(g) \in Nat
  BY SessionFields
<1>2. Len(h) <= Len(g)
  BY DEF Grown
<1>3. DOMAIN h \subseteq DOMAIN g
  BY <1>1, <1>2
<1>4. \A i \in DOMAIN h : i \in Nat /\ g[i] = h[i] /\ (i \in f[s].same => i \in sess[s].same)
  BY <1>1 DEF Grown
<1>5. Range(h) \subseteq Range(g)
  BY <1>3, <1>4 DEF Range
<1> QED
  BY <1>3, <1>4, <1>5

\* A message is in one place.
LEMMA OnePlace ==
    ASSUME NEW x \in Session, Numbered(x), NEW i \in DOMAIN x.history,
           NEW j \in DOMAIN x.history, x.history[i] = x.history[j]
    PROVE  i = j
<1>1. DOMAIN x.history = 1..Len(x.history)
  BY SessionFields
<1> QED
  BY <1>1 DEF Numbered

LEMMA GrownKept ==
    ASSUME sess \in [Sid -> Session], NEW f \in [Sid -> Session], Grown(f),
           \A s \in Sid : Numbered(f[s]), NEW running
    PROVE  HistoriesKept(f, running)
<1> SUFFICES ASSUME NEW s \in Sid
             PROVE  /\ Range(sess[s].history) \subseteq Range(f[s].history)
                    /\ \A m, k \in Range(sess[s].history) :
                          ~(Before(sess[s].history, m, k) /\ Before(f[s].history, k, m))
  BY DEF HistoriesKept
<1> DEFINE h == sess[s].history
           g == f[s].history
<1>1. /\ DOMAIN h \subseteq DOMAIN g /\ Range(h) \subseteq Range(g)
      /\ \A i \in DOMAIN h : i \in Nat /\ g[i] = h[i]
  BY GrownFacts
<1>2. f[s] \in Session /\ Numbered(f[s])
  OBVIOUS
<1>3. ASSUME NEW m, NEW k, Before(h, m, k), Before(g, k, m) PROVE FALSE
  <2>1. PICK i \in DOMAIN h, j \in DOMAIN h : i < j /\ h[i] = m /\ h[j] = k
    BY <1>3 DEF Before
  <2>2. PICK a \in DOMAIN g, b \in DOMAIN g : a < b /\ g[a] = k /\ g[b] = m
    BY <1>3 DEF Before
  <2>3. i \in DOMAIN g /\ j \in DOMAIN g /\ g[i] = m /\ g[j] = k
    BY <1>1, <2>1
  <2> HIDE DEF h
  <2>4. a = j
    BY <1>2, <2>2, <2>3, OnePlace
  <2>5. b = i
    BY <1>2, <2>2, <2>3, OnePlace
  <2>6. i \in Nat /\ j \in Nat
    BY <1>1, <2>1
  <2> QED
    BY <2>1, <2>2, <2>4, <2>5, <2>6
<1> QED
  BY <1>1, <1>3

\* Two messages that changed places are of one millisecond.
LEMMA ReadBackOrder ==
    ASSUME NEW x \in Session, Numbered(x), NEW y, NEW q, ReadBack(x, y, q),
           NEW i \in DOMAIN x.history, NEW j \in DOMAIN x.history, i < j,
           NEW a \in DOMAIN x.history, NEW b \in DOMAIN x.history, a < b,
           y.history[a] = x.history[j], y.history[b] = x.history[i]
    PROVE  /\ (i + 1)..j \subseteq x.same
           /\ x.history[i].n = i /\ x.history[j].n = j
<1>1. DOMAIN x.history = 1..Len(x.history) /\ Len(x.history) \in Nat /\ x.read \in Nat
  BY SessionFields
<1>2. q[a] \in DOMAIN x.history /\ q[b] \in DOMAIN x.history
      /\ y.history[a] = x.history[q[a]] /\ y.history[b] = x.history[q[b]]
  BY DEF ReadBack
<1>3. q[a] = j
  BY <1>2, OnePlace
<1>4. q[b] = i
  BY <1>2, OnePlace
<1>5. Groups(x)[j] = Groups(x)[a] /\ Groups(x)[i] = Groups(x)[b]
  BY <1>3, <1>4 DEF ReadBack
<1>6. Groups(x)[a] \in Nat /\ Groups(x)[b] \in Nat /\ Groups(x)[a] <= Groups(x)[b]
  BY GroupsInOrder
<1>7. /\ Groups(x)[i] <= Groups(x)[j]
      /\ Groups(x)[i] = Groups(x)[j] => (i + 1)..j \subseteq x.same
  BY GroupsInOrder
<1>8. Groups(x)[i] = Groups(x)[j]
  BY <1>5, <1>6, <1>7
<1>9. i + 1 \in x.same
  <2>1. i + 1 \in (i + 1)..j
    BY <1>1
  <2> QED
    BY <1>7, <1>8, <2>1
<1>10. i + 1 \in (x.read + 2)..Len(x.history)
  BY <1>9 DEF Numbered
<1>11. i \in (x.read + 1)..Len(x.history) /\ j \in (x.read + 1)..Len(x.history)
  BY <1>1, <1>10
<1>12. x.history[i].n = i /\ x.history[j].n = j
  BY <1>11 DEF Numbered
<1> QED
  BY <1>7, <1>8, <1>12

LEMMA HaltKept ==
    ASSUME sess \in [Sid -> Session], NEW f \in [Sid -> Session], Grown(f),
           \A s \in Sid : Numbered(f[s]),
           NEW g, \A s \in Sid : g[s] \in Loaded(f[s])
    PROVE  HistoriesKept(g, FALSE)
<1> SUFFICES ASSUME NEW s \in Sid, g[s].live
             PROVE  /\ Range(sess[s].history) \subseteq Range(g[s].history)
                    /\ \A m, k \in Range(sess[s].history) :
                          Before(sess[s].history, m, k) /\ Before(g[s].history, k, m) =>
                              (m.n + 1)..k.n \subseteq sess[s].same
  BY DEF HistoriesKept
<1> DEFINE x == f[s]
           y == g[s]
           h == sess[s].history
<1>1. x \in Session /\ Numbered(x) /\ y \in Loaded(x) /\ x.live \in BOOLEAN
  BY SessionFields
<1>2. x.live
  BY <1>1, LoadedGone
<1>3. y \in Session /\ AtRest(y) /\ \E q : ReadBack(x, y, q)
  BY <1>1, <1>2, LoadedLive
<1>4. PICK q : ReadBack(x, y, q)
  BY <1>3
<1>5. /\ DOMAIN h \subseteq DOMAIN x.history /\ Range(h) \subseteq Range(x.history)
      /\ \A i \in DOMAIN h : /\ i \in Nat /\ x.history[i] = h[i]
                             /\ i \in x.same => i \in sess[s].same
  BY GrownFacts
<1> HIDE DEF x, y, h
<1>6. Range(y.history) = Range(x.history)
  BY <1>1, <1>3, <1>4, ReadBackNumbered DEF AtRest
<1>7. DOMAIN y.history = DOMAIN x.history
  BY <1>4 DEF ReadBack
<1>8. ASSUME NEW m, NEW k, Before(h, m, k), Before(y.history, k, m)
      PROVE  (m.n + 1)..k.n \subseteq sess[s].same
  <2>1. PICK i \in DOMAIN h, j \in DOMAIN h : i < j /\ h[i] = m /\ h[j] = k
    BY <1>8 DEF Before
  <2>2. PICK a \in DOMAIN x.history, b \in DOMAIN x.history :
           a < b /\ y.history[a] = k /\ y.history[b] = m
    BY <1>7, <1>8 DEF Before
  <2>3. i \in DOMAIN x.history /\ j \in DOMAIN x.history /\ x.history[i] = m /\ x.history[j] = k
    BY <1>5, <2>1
  <2>4. (i + 1)..j \subseteq x.same /\ x.history[i].n = i /\ x.history[j].n = j
    BY <1>1, <1>4, <2>1, <2>2, <2>3, ReadBackOrder
  <2>5. (i + 1)..j \subseteq DOMAIN h
    <3>1. h \in Seq(Msg) /\ DOMAIN h = 1..Len(h) /\ Len(h) \in Nat
      BY SessionFields DEF h
    <3> QED
      BY <2>1, <3>1
  <2> QED
    BY <1>5, <2>3, <2>4, <2>5
<1> QED
  BY <1>5, <1>6, <1>8 DEF h, y

-----------------------------------------------------------------------------
(* The end of a handler. *)

\* There are fewer prompts in the histories, and no other ones.
LEMMA PromptsFewer ==
    ASSUME NEW f, NEW g, NEW ups, NEW x, NEW au, NEW n, Prompts(f, ups, x, au, n),
           \A z \in Sid : Said(g[z]) \subseteq Said(f[z])
    PROVE  Prompts(g, ups, x, au, n)
<1>1. InOrder(g, au, n)
  BY DEF Prompts, InOrder
<1>2. \A q, t : Coming(q, t, f, au, n) => Coming(q, t, g, au, n)
  BY DEF Coming
<1> QED
  BY <1>1, <1>2 DEF Prompts

LEMMA ComingNothing ==
    ASSUME NEW t, NEW f, NEW au, NEW n
    PROVE  Coming(<<>>, t, f, au, n)
<1>1. DOMAIN <<>> = {} /\ Range(<<>>) = {}
  BY EmptyList
<1> QED
  BY <1>1 DEF Coming, Ascending, Waiting

\* What is read back of sound sessions is sound.
LEMMA LoadedSound ==
    ASSUME NEW f \in [Sid -> Session], NEW O, NEW n \in Nat, Sound(f, O, n),
           NEW g \in [Sid -> UNION {Loaded(f[s]) : s \in Sid}],
           \A s \in Sid : g[s] \in Loaded(f[s]), NEW Q
    PROVE  /\ g \in [Sid -> Session] /\ Sound(g, Q, n)
           /\ \A s \in Sid : /\ g[s].live = f[s].live /\ ~g[s].busy
                             /\ Said(g[s]) \subseteq Said(f[s])
<1>1. ASSUME NEW s \in Sid
      PROVE  /\ g[s] \in Session /\ AtRest(g[s]) /\ Numbered(g[s])
             /\ g[s].live = f[s].live /\ (g[s].live => g[s].made)
             /\ ~g[s].live => g[s].history = <<>>
             /\ Said(g[s]) \subseteq Said(f[s])
  <2>1. f[s] \in Session /\ Numbered(f[s]) /\ g[s] \in Loaded(f[s]) /\ f[s].live \in BOOLEAN
    BY SessionFields DEF Sound, SoundOne
  <2>2. CASE f[s].live
    <3>1. g[s] \in Session /\ g[s].made /\ g[s].live /\ AtRest(g[s])
          /\ \E q : ReadBack(f[s], g[s], q)
      BY <2>1, <2>2, LoadedLive
    <3>2. Numbered(g[s]) /\ Said(g[s]) = Said(f[s])
      BY <2>1, <3>1, ReadBackNumbered DEF AtRest
    <3>3. g[s].live \in BOOLEAN
      BY <3>1, SessionFields
    <3> QED
      BY <2>1, <2>2, <3>1, <3>2, <3>3
  <2>3. CASE ~f[s].live
    <3>1. g[s] \in Session /\ ~g[s].live /\ AtRest(g[s]) /\ g[s].history = <<>> /\ g[s].read = 0
      BY <2>1, <2>3, LoadedGone
    <3>2. Len(g[s].history) = 0 /\ Range(g[s].history) = {}
      BY <3>1, EmptyList
    <3>3. Numbered(g[s])
      BY <3>1, <3>2 DEF Numbered, AtRest
    <3>4. Said(g[s]) = {}
      BY <3>2 DEF Said
    <3>5. g[s].live \in BOOLEAN
      BY <3>1, SessionFields
    <3> QED
      BY <2>1, <2>3, <3>1, <3>3, <3>4, <3>5
  <2> QED
    BY <2>1, <2>2, <2>3
<1>2. \A s \in Sid : g[s].pending = {} /\ g[s].queue = <<>> /\ ~g[s].busy /\ g[s].status = "idle"
  BY <1>1 DEF AtRest
<1>3. g \in [Sid -> Session]
  BY <1>1
<1>4. \A s \in Sid : g[s].live \in BOOLEAN /\ g[s].made \in BOOLEAN
  BY <1>1, SessionFields
<1>5. ASSUME NEW s \in Sid PROVE SoundOne(g[s], s, Q, n)
  <2>1. ~g[s].made => ~g[s].live
    BY <1>1, <1>4
  <2>2. ~g[s].made => g[s].history = <<>>
    BY <1>1, <2>1
  <2>3. g[s].pending \subseteq 1..n
    BY <1>2
  <2>4. Numbered(g[s]) /\ (g[s].live => g[s].made)
    BY <1>1
  <2> QED
    BY <1>2, <2>2, <2>3, <2>4 DEF SoundOne
<1>6. Apart(g)
  BY <1>2 DEF Apart
<1> QED
  BY <1>1, <1>2, <1>3, <1>5, <1>6 DEF Sound

\* What a handler does not touch.
Aside(n) ==
    /\ used' \in Counts /\ used'.prompts = used.prompts /\ used'.asks = n /\ used.asks <= n
    /\ since' \in [Tab -> SUBSET (1..n)]
    /\ tab' = tab /\ author' = author

LEMMA AskedBound ==
    ASSUME Placed, NEW n \in Nat, used.asks <= n, NEW t \in Tab, NEW p \in Range(tab[t].modals)
    PROVE  p.req <= n
<1>1. tab[t].modals \in Seq(Question) /\ used.asks \in Nat /\ p.req <= used.asks
  BY PageFields, Numbers DEF Placed, Counts
<1>2. p \in Question
  BY <1>1, ListRange
<1>3. p.req \in Nat
  BY <1>2, Numbers DEF Question
<1> QED
  BY <1>1, <1>3

LEMMA HaltKeeps ==
    ASSUME Placed, NEW f \in [Sid -> Session], NEW n \in 0..MaxAsks, Sound(f, Orphaned(f), n),
           NEW ups, Prompts(f, ups, tab, author, used.prompts), Grown(f),
           Halt(f), Aside(n), orphans' \subseteq Sid
    PROVE  ViewInv' /\ HistoriesKept(sess', alive')
<1>1. /\ sess' \in [Sid -> UNION {Loaded(f[s]) : s \in Sid}]
      /\ \A s \in Sid : sess'[s] \in Loaded(f[s])
      /\ alive' = FALSE /\ open' = {}
      /\ up' = [t \in Tab |-> <<>>] /\ down' = [t \in Tab |-> <<>>]
  BY DEF Halt
<1>2. n \in Nat
  BY Numbers
<1>3. /\ sess' \in [Sid -> Session] /\ Sound(sess', orphans', n)
      /\ \A s \in Sid : Said(sess'[s]) \subseteq Said(f[s])
  BY <1>1, <1>2, LoadedSound
<1>4. /\ used' \in Counts /\ used'.prompts = used.prompts /\ used'.asks = n
      /\ since' \in [Tab -> SUBSET (1..n)] /\ tab' = tab /\ author' = author
      /\ used.asks <= n
  BY DEF Aside
<1>5. Placed'
  <2>1. /\ up' \in [Tab -> Seq(ClientMsg)] /\ down' \in [Tab -> Seq(ServerMsg)]
        /\ \A t \in Tab : up'[t] = <<>> /\ down'[t] = <<>>
    BY <1>1
  <2>2. tab \in [Tab -> Page] /\ author \in [Prompt -> Tab \cup {CHOOSE t \in Tab : TRUE}]
        /\ \A t \in Tab : \A p \in Range(tab[t].modals) : p.req <= n
    BY <1>2, <1>4, AskedBound DEF Placed
  <2> QED
    BY <1>1, <1>3, <1>4, <2>1, <2>2 DEF Placed
<1>6. Sound(sess, orphans, used.asks)'
  BY <1>3, <1>4
<1>7. Truths'
  BY <1>1 DEF Truths
<1>8. Prompts(sess, up, tab, author, used.prompts)'
  <2>1. Prompts(sess', ups, tab, author, used.prompts)
    BY <1>3, PromptsFewer
  <2>2. InOrder(sess', author, used.prompts)
        /\ \A t \in Tab : Coming(tab[t].queue, t, sess', author, used.prompts)
    BY <2>1 DEF Prompts
  <2>3. \A t \in Tab : Coming(up'[t], t, sess', author, used.prompts)
    BY <1>1, ComingNothing
  <2>4. Prompts(sess', up', tab, author, used.prompts)
    BY <2>2, <2>3 DEF Prompts
  <2> QED
    BY <1>4, <2>4
<1>9. HistoriesKept(sess', alive')
  <2>1. sess \in [Sid -> Session] /\ \A s \in Sid : Numbered(f[s])
    BY DEF Placed, Sound, SoundOne
  <2>2. HistoriesKept(sess', FALSE)
    BY <1>1, <2>1, HaltKept
  <2> QED
    BY <1>1, <2>2
<1> QED
  BY <1>5, <1>6, <1>7, <1>8, <1>9 DEF ViewInv

LEMMA CommitKeeps ==
    ASSUME Placed, NEW v, NEW ups \in [Tab -> Seq(ClientMsg)], NEW R, NEW n \in 0..MaxAsks,
           Good(v, ups, R, n, n), \A t \in Tab : t \notin open => ups[t] = <<>>,
           Commit(v, ups), Aside(n), \A t \in open : since'[t] = R[t]
    PROVE  ViewInv' /\ HistoriesKept(sess', alive')
<1> DEFINE f == v.sess
<1>1. /\ v \in Works /\ f \in [Sid -> Session] /\ v.alive \in BOOLEAN /\ v.down \in Downs
      /\ v.down \in [Tab -> Seq(ServerMsg)]
      /\ Sound(f, Orphaned(f), n) /\ Truth(v, R, n)
      /\ Prompts(f, ups, tab, author, used.prompts) /\ Grown(f)
  BY WorkFields DEF Good
<1>2. orphans' = orphans \cup {s \in Sid : sess[s].live /\ sess[s].busy /\ ~sess'[s].live}
  BY DEF Commit
<1>3. orphans' \subseteq Sid
  BY <1>2 DEF Placed
<1>4. CASE ~v.alive
  <2>1. Halt(f)
    BY <1>4 DEF Commit
  <2> HIDE DEF f
  <2> QED
    BY <1>1, <1>3, <2>1, HaltKeeps
<1>5. CASE v.alive
  <2>1. sess' = f /\ up' = ups /\ down' = v.down /\ alive' = alive /\ open' = open
    BY <1>5 DEF Commit
  <2>2. /\ used' \in Counts /\ used'.prompts = used.prompts /\ used'.asks = n
        /\ since' \in [Tab -> SUBSET (1..n)] /\ tab' = tab /\ author' = author
        /\ used.asks <= n
    BY DEF Aside
  <2>3. orphans' = Orphaned(f)
    BY <1>2, <2>1 DEF Orphaned
  <2>4. Placed'
    <3>1. /\ tab \in [Tab -> Page] /\ author \in [Prompt -> Tab \cup {CHOOSE t \in Tab : TRUE}]
          /\ alive \in BOOLEAN /\ open \subseteq Tab /\ (open # {} => alive)
          /\ \A t \in Tab : t \in open => tab[t].queue = <<>>
          /\ \A t \in Tab : \A p \in Range(tab[t].modals) : p.req <= n
      BY <2>2, AskedBound, Numbers DEF Placed
    <3>2. \A t \in Tab : t \notin open => v.down[t] = <<>>
      BY <1>1 DEF Downs
    <3> HIDE DEF f
    <3> QED
      BY <1>1, <1>3, <2>1, <2>2, <3>1, <3>2 DEF Placed
  <2>5. Sound(sess, orphans, used.asks)'
    BY <1>1, <2>1, <2>2, <2>3
  <2>6. Truths'
    <3> SUFFICES ASSUME NEW t \in open
                 PROVE  /\ Bounded(v.down[t], n)
                        /\ \E y \in View : /\ Seen(ViewOf(tab[t]), v.down[t], y)
                                           /\ Told(y, f, Orphaned(f), R[t], n)
      BY <2>1, <2>2, <2>3 DEF Truths
    <3> QED
      BY <1>1 DEF Truth
  <2>7. Prompts(sess, up, tab, author, used.prompts)'
    BY <1>1, <2>1, <2>2
  <2>8. HistoriesKept(sess', alive')
    <3>1. sess \in [Sid -> Session] /\ \A s \in Sid : Numbered(f[s])
      BY <1>1 DEF Placed, Sound, SoundOne
    <3> HIDE DEF f
    <3>2. HistoriesKept(f, alive')
      BY <1>1, <3>1, GrownKept
    <3> QED
      BY <2>1, <3>2
  <2> QED
    BY <2>4, <2>5, <2>6, <2>7, <2>8 DEF ViewInv
<1> QED
  BY <1>1, <1>4, <1>5

-----------------------------------------------------------------------------
(* A tab connects: the snapshot shows it everything. *)

LEMMA PrefixMore ==
    ASSUME NEW T, NEW s \in Seq(T), NEW i \in 0..(Len(s) - 1)
    PROVE  /\ SubSeq(s, 1, i + 1) = Append(SubSeq(s, 1, i), s[i + 1])
           /\ SubSeq(s, 1, i) \in Seq(T) /\ s[i + 1] \in T
<1> DEFINE a == SubSeq(s, 1, i)
           b == SubSeq(s, 1, i + 1)
<1>1. Len(s) \in Nat /\ i \in Nat /\ i + 1 \in 1..Len(s) /\ s[i + 1] \in T
  OBVIOUS
<1>2. a \in Seq(T) /\ Len(a) = i /\ \A j \in 1..i : a[j] = s[j]
  BY <1>1
<1>3. b \in Seq(T) /\ Len(b) = i + 1 /\ \A j \in 1..(i + 1) : b[j] = s[j]
  BY <1>1
<1> HIDE DEF a, b
<1>4. Append(a, s[i + 1]) \in Seq(T) /\ Len(Append(a, s[i + 1])) = i + 1
      /\ \A j \in 1..(i + 1) : Append(a, s[i + 1])[j] = s[j]
  BY <1>1, <1>2
<1>5. b = Append(a, s[i + 1])
  BY <1>1, <1>3, <1>4
<1> QED
  BY <1>1, <1>2, <1>5 DEF a, b

Associates(p, q, m) == Append(p \o q, m) = p \o Append(q, m)

LEMMA AppendConcat ==
    ASSUME NEW p \in Seq(Msg), NEW q \in Seq(Msg), NEW m \in Msg
    PROVE  Associates(p, q, m)
BY DEF Associates

\* A history that is sent is appended to the one shown.
Histories(s, h) == [k \in DOMAIN h |-> Message(s, h[k])]

ShownMore(y, z, s, h) ==
    /\ z.sessions = y.sessions /\ z.modals = y.modals
    /\ z.messages = [y.messages EXCEPT ![s] = @ \o h]

LEMMA SeenHistory ==
    ASSUME NEW x \in View, NEW q \in Seq(ServerMsg), NEW y \in View, Seen(x, q, y),
           NEW s \in Sid, NEW h \in Seq(Msg)
    PROVE  /\ Histories(s, h) \in Seq(ServerMsg)
           /\ \A m \in Range(Histories(s, h)) : m.type = "message"
           /\ \E z \in View : Seen(x, q \o Histories(s, h), z) /\ ShownMore(y, z, s, h)
<1> DEFINE l == Histories(s, h)
           n == Len(h)
<1>1. n \in Nat /\ DOMAIN h = 1..n /\ \A i \in 1..n : h[i] \in Msg
  OBVIOUS
<1>2. \A m \in Msg : /\ Message(s, m) \in ServerMsg
                     /\ Message(s, m).type = "message" /\ Message(s, m).sid = s
                     /\ Message(s, m).message = m
  BY DEF Message, ServerMsg
<1>3. l = [i \in 1..n |-> Message(s, h[i])]
  BY <1>1 DEF Histories
<1>4. l \in Seq(ServerMsg) /\ Len(l) = n /\ \A i \in 1..n : l[i] = Message(s, h[i])
  <2>1. l \in [1..n -> ServerMsg]
    BY <1>1, <1>2, <1>3
  <2> HIDE DEF l, n
  <2>2. l \in Seq(ServerMsg) /\ Len(l) = n
    BY <1>1, <2>1
  <2> QED
    BY <1>3, <2>2
<1> HIDE DEF l, n
<1>5. \A m \in Range(l) : m.type = "message"
  <2>1. Range(l) = {l[i] : i \in 1..n}
    BY <1>4, ListRange
  <2> QED
    BY <1>1, <1>2, <1>4, <2>1
<1> DEFINE G(i) == \E z \in View : /\ Seen(x, q \o SubSeq(l, 1, i), z)
                                   /\ ShownMore(y, z, s, SubSeq(h, 1, i))
           S == {i \in 0..n : G(i)}
<1>6. y.messages \in [Sid -> Seq(Msg)]
  BY DEF View
<1>7. 0 \in S
  <2>1. SubSeq(l, 1, 0) = <<>> /\ SubSeq(h, 1, 0) = <<>>
    BY <1>4
  <2>2. q \o <<>> = q /\ y.messages[s] \o <<>> = y.messages[s]
    BY <1>6
  <2>3. [y.messages EXCEPT ![s] = @ \o <<>>] = y.messages
    BY <1>6, <2>2
  <2>4. ShownMore(y, y, s, <<>>)
    BY <2>3 DEF ShownMore
  <2>5. G(0)
    BY <2>1, <2>2, <2>4
  <2> HIDE DEF G
  <2> QED
    BY <1>1, <2>5
<1>8. ASSUME NEW i \in S, i \in 0..(n - 1) PROVE i + 1 \in S
  <2> DEFINE a == SubSeq(l, 1, i)
             b == SubSeq(h, 1, i)
             m == l[i + 1]
  <2>1. PICK z \in View : Seen(x, q \o a, z) /\ ShownMore(y, z, s, b)
    OBVIOUS
  <2>2. i \in 0..(Len(l) - 1) /\ i \in 0..(Len(h) - 1)
    BY <1>4, <1>8 DEF n
  <2>3. SubSeq(l, 1, i + 1) = Append(a, m) /\ a \in Seq(ServerMsg) /\ m \in ServerMsg
    BY <1>4, <2>2, PrefixMore
  <2>4. SubSeq(h, 1, i + 1) = Append(b, h[i + 1]) /\ b \in Seq(Msg) /\ h[i + 1] \in Msg
    BY <2>2, PrefixMore
  <2>5. i + 1 \in 0..n /\ m = Message(s, h[i + 1])
    BY <1>1, <1>4, <1>8
  <2> HIDE DEF a, b, m, S
  <2>6. q \o Append(a, m) = Append(q \o a, m) /\ q \o a \in Seq(ServerMsg)
    BY <2>3
  <2>7. Seen(x, q \o Append(a, m), Taken(z, m)) /\ Taken(z, m) \in View
    BY <2>1, <2>3, <2>6, SeenMore, TakenTyped
  <2>8. /\ m.type = "message" /\ m.sid = s /\ m.message = h[i + 1]
    BY <1>2, <2>4, <2>5
  <2>9. /\ Taken(z, m).sessions = z.sessions /\ Taken(z, m).modals = z.modals
        /\ Taken(z, m).messages = [z.messages EXCEPT ![s] = Append(@, h[i + 1])]
    BY <2>8 DEF Taken, Statuses, Panes, Modals
  <2>10. z.messages = [y.messages EXCEPT ![s] = @ \o b]
    BY <2>1 DEF ShownMore
  <2>11. Append(y.messages[s] \o b, h[i + 1]) = y.messages[s] \o Append(b, h[i + 1])
    <3> DEFINE p == y.messages[s]
               e == h[i + 1]
    <3>1. p \in Seq(Msg)
      BY <1>6
    <3>2. b \in Seq(Msg)
      BY <2>4
    <3>3. e \in Msg
      BY <2>4
    <3> HIDE DEF p, e
    <3>4. Associates(p, b, e)
      BY <3>1, <3>2, <3>3, AppendConcat
    <3> QED
      BY <3>4, Zenon DEF p, e, Associates
  <2>12. Taken(z, m).messages = [y.messages EXCEPT ![s] = @ \o Append(b, h[i + 1])]
    BY <1>6, <2>9, <2>10, <2>11
  <2>13. ShownMore(y, Taken(z, m), s, Append(b, h[i + 1]))
    BY <2>1, <2>9, <2>12 DEF ShownMore
  <2>14. G(i + 1)
    BY <2>3, <2>4, <2>7, <2>13
  <2> HIDE DEF G
  <2> QED
    BY <2>5, <2>14 DEF S
<1> HIDE DEF S
<1>9. 0..n \subseteq S
  BY <1>1, <1>7, <1>8, UpTo
<1>10. n \in S
  BY <1>1, <1>9
<1>11. SubSeq(l, 1, n) = l /\ SubSeq(h, 1, n) = h
  BY <1>4 DEF n
<1>12. \E z \in View : Seen(x, q \o l, z) /\ ShownMore(y, z, s, h)
  BY <1>10, <1>11 DEF S
<1> QED
  BY <1>4, <1>5, <1>12 DEF l

\* What the view x is when the list and the histories of the first i sessions
\* have come.
Current == [s \in Sid |-> IF sess[s].live THEN sess[s].status ELSE "absent"]

Shows(x, q, i) ==
    /\ q \in Seq(ServerMsg)
    /\ \A m \in Range(q) : m.type # "permission_request"
    /\ \E y \in View :
          /\ Seen(x, q, y) /\ y.sessions = Current /\ y.modals = x.modals
          /\ \A s \in Sid : s <= i /\ sess[s].live => EndsIn(y.messages[s], sess[s].history)

LEMMA ShowsList ==
    ASSUME Placed, NEW x \in View
    PROVE  Shows(x, <<Sessions(Current)>>, 0)
<1> DEFINE m == Sessions(Current)
           y == Taken(x, m)
<1>1. Current \in [Sid -> Shown]
  BY DEF Current, Shown, Placed, Session
<1>2. m \in ServerMsg /\ m.type = "sessions" /\ m.status = Current
  BY <1>1 DEF ServerMsg, Sessions
<1> HIDE DEF m
<1>3. y \in View
  BY <1>2, TakenTyped
<1>4. y.sessions = Current /\ y.modals = x.modals
  BY <1>2 DEF Taken, Statuses, Modals
<1> HIDE DEF y
<1> DEFINE none == <<>>
<1>5. none \in Seq(ServerMsg) /\ Range(none) = {} /\ Append(none, m) = <<m>>
  BY <1>2, EmptyList
<1>6. Seen(x, none, x)
  BY SeenNothing
<1> HIDE DEF none
<1>7. Append(none, m) \in Seq(ServerMsg) /\ Range(Append(none, m)) = Range(none) \cup {m}
  <2>1. m \in ServerMsg
    BY <1>2
  <2>2. none \in Seq(ServerMsg)
    BY <1>5
  <2> QED
    BY <2>1, <2>2, AppendList
<1>8. Seen(x, Append(none, m), y)
  BY <1>2, <1>5, <1>6, SeenMore DEF y
<1>9. \A k \in Range(<<m>>) : k = m
  BY <1>5, <1>7
<1>10. \A s \in Sid : ~(s <= 0)
  BY Numbers
<1>11. Shows(x, <<m>>, 0)
  BY <1>2, <1>3, <1>4, <1>5, <1>7, <1>8, <1>9, <1>10 DEF Shows
<1> QED
  BY <1>11 DEF m

LEMMA ShowsMore ==
    ASSUME Placed, NEW x \in View, NEW q, NEW i \in 0..(MaxSessions - 1), Shows(x, q, i)
    PROVE  Shows(x, q \o (IF sess[i + 1].live THEN Histories(i + 1, sess[i + 1].history)
                          ELSE <<>>), i + 1)
<1> DEFINE z == i + 1
           h == sess[z].history
           l == Histories(z, h)
<1>1. z \in Sid /\ \A s \in Sid : s <= z <=> s <= i \/ s = z
  BY Numbers DEF Sid
<1>2. h \in Seq(Msg) /\ sess[z].live \in BOOLEAN
  BY <1>1 DEF Placed, Session
<1>3. PICK y \in View :
          /\ Seen(x, q, y) /\ y.sessions = Current /\ y.modals = x.modals
          /\ \A s \in Sid : s <= i /\ sess[s].live => EndsIn(y.messages[s], sess[s].history)
  BY DEF Shows
<1>4. q \in Seq(ServerMsg) /\ \A m \in Range(q) : m.type # "permission_request"
  BY DEF Shows
<1> HIDE DEF z
<1>5. CASE sess[z].live
  <2> HIDE DEF h
  <2>1. /\ l \in Seq(ServerMsg)
        /\ \A m \in Range(l) : m.type = "message"
        /\ \E u \in View : Seen(x, q \o l, u) /\ ShownMore(y, u, z, h)
    BY <1>1, <1>2, <1>3, <1>4, SeenHistory
  <2>2. PICK u \in View : Seen(x, q \o l, u) /\ ShownMore(y, u, z, h)
    BY <2>1
  <2> HIDE DEF l
  <2>3. q \o l \in Seq(ServerMsg) /\ Range(q \o l) = Range(q) \cup Range(l)
    BY <1>4, <2>1, ConcatList
  <2>4. \A m \in Range(q \o l) : m.type # "permission_request"
    BY <1>4, <2>1, <2>3
  <2>5. u.sessions = Current /\ u.modals = x.modals
    BY <1>3, <2>2 DEF ShownMore
  <2>6. u.messages = [y.messages EXCEPT ![z] = @ \o h] /\ y.messages \in [Sid -> Seq(Msg)]
    BY <2>2 DEF ShownMore, View
  <2>7. ASSUME NEW s \in Sid, s <= z, sess[s].live
        PROVE  EndsIn(u.messages[s], sess[s].history)
    <3>1. CASE s = z
      <4>1. u.messages[z] = y.messages[z] \o h /\ y.messages[z] \in Seq(Msg)
        BY <1>1, <2>6
      <4>2. EndsIn(u.messages[z], h)
        BY <4>1 DEF EndsIn
      <4> QED
        BY <3>1, <4>2 DEF h
    <3>2. CASE s # z
      <4>1. u.messages[s] = y.messages[s]
        BY <2>6, <3>2
      <4> QED
        BY <1>1, <1>3, <2>7, <3>2, <4>1
    <3> QED
      BY <3>1, <3>2
  <2>8. Shows(x, q \o l, z)
    BY <2>2, <2>3, <2>4, <2>5, <2>7 DEF Shows
  <2> QED
    BY <1>5, <2>8 DEF z, l, h
<1>6. CASE ~sess[z].live
  <2>1. q \o <<>> = q
    BY <1>4
  <2>2. \A s \in Sid : s <= z /\ sess[s].live => EndsIn(y.messages[s], sess[s].history)
    BY <1>1, <1>3, <1>6
  <2>3. Shows(x, q, z)
    BY <1>3, <1>4, <2>2 DEF Shows
  <2> QED
    BY <1>6, <2>1, <2>3 DEF z
<1> QED
  BY <1>5, <1>6

LEMMA SnapshotShows ==
    ASSUME Placed, NEW x \in View
    PROVE  Shows(x, Snapshot, MaxSessions)
<1> DEFINE V == Seq(ServerMsg)
           base == <<Sessions(Current)>>
           Part(s) == IF sess[s].live
                      THEN [k \in DOMAIN sess[s].history |-> Message(s, sess[s].history[k])]
                      ELSE <<>>
           step == [s \in 1..MaxSessions |-> [q \in V |-> q \o Part(s)]]
           Sending(d) == [s \in 0..MaxSessions |-> IF s = 0 THEN base ELSE d[s - 1] \o Part(s)]
           g == CHOOSE d : d = Sending(d)
<1>1. Snapshot = g[MaxSessions]
  BY DEF Snapshot, Current
<1>2. \A s \in Sid : Part(s) = IF sess[s].live THEN Histories(s, sess[s].history) ELSE <<>>
  BY DEF Histories
<1>3. base \in V
  BY ShowsList DEF Shows
<1>4. ASSUME NEW s \in Sid PROVE Part(s) \in V
  <2>1. sess[s].history \in Seq(Msg)
    BY DEF Placed, Session
  <2>2. \A m \in Msg : Message(s, m) \in ServerMsg
    BY DEF Message, ServerMsg
  <2> DEFINE h == sess[s].history
  <2>3. Len(h) \in Nat /\ DOMAIN h = 1..Len(h) /\ \A k \in 1..Len(h) : h[k] \in Msg
    BY <2>1
  <2> HIDE DEF h
  <2>4. [k \in DOMAIN h |-> Message(s, h[k])] \in Seq(ServerMsg)
    <3>1. [k \in 1..Len(h) |-> Message(s, h[k])] \in [1..Len(h) -> ServerMsg]
      BY <2>2, <2>3
    <3> QED
      BY <2>3, <3>1
  <2>5. <<>> \in V
    BY EmptyList
  <2> QED
    BY <2>4, <2>5 DEF h
<1> HIDE DEF Part, base
<1>5. Steps(V, MaxSessions, step)
  <2>1. \A s \in 1..MaxSessions, q \in V : q \o Part(s) \in V
    BY <1>4, ConcatList DEF Sid
  <2> HIDE DEF V
  <2> QED
    BY <2>1 DEF Steps
<1>6. \A s \in 1..MaxSessions, q \in V : step[s][q] = q \o Part(s)
  OBVIOUS
<1> HIDE DEF step, V
<1>7. PICK d : Iterates(d, V, MaxSessions, base, step)
  BY <1>3, <1>5, Recursion, Numbers
<1>8. d = Sending(d)
  <2>1. /\ d \in [0..MaxSessions -> V] /\ d[0] = base
        /\ \A s \in 1..MaxSessions : d[s] = step[s][d[s - 1]]
    BY <1>7 DEF Iterates
  <2>2. ASSUME NEW s \in 1..MaxSessions PROVE d[s] = d[s - 1] \o Part(s)
    <3>1. s - 1 \in 0..MaxSessions
      BY Numbers
    <3> QED
      BY <1>6, <2>1, <3>1
  <2>3. d = [s \in 0..MaxSessions |-> d[s]]
    BY <2>1
  <2>4. \A s \in 0..MaxSessions : s = 0 \/ s \in 1..MaxSessions
    BY Numbers
  <2>5. \A s \in 0..MaxSessions : d[s] = Sending(d)[s]
    BY <2>1, <2>2, <2>4
  <2> QED
    BY <2>3, <2>5
<1>9. g = Sending(g)
  BY <1>8
<1> HIDE DEF g
<1>10. g[0] = base /\ \A s \in 1..MaxSessions : g[s] = g[s - 1] \o Part(s)
  <2>1. \A s \in 0..MaxSessions : g[s] = IF s = 0 THEN base ELSE g[s - 1] \o Part(s)
    BY <1>9
  <2>2. 0 \in 0..MaxSessions /\ \A s \in 1..MaxSessions : s \in 0..MaxSessions /\ s # 0
    BY Numbers
  <2>3. g[0] = base
    BY <2>1, <2>2, Zenon
  <2>4. \A s \in 1..MaxSessions : g[s] = g[s - 1] \o Part(s)
    BY <2>1, <2>2, Zenon
  <2> QED
    BY <2>3, <2>4
<1> DEFINE Q == {i \in 0..MaxSessions : Shows(x, g[i], i)}
<1>11. 0 \in Q
  BY <1>10, ShowsList, Numbers DEF base
<1>12. ASSUME NEW i \in Q, i \in 0..(MaxSessions - 1) PROVE i + 1 \in Q
  <2>1. i + 1 \in 1..MaxSessions /\ (i + 1) - 1 = i /\ i + 1 \in Sid /\ i + 1 \in 0..MaxSessions
    BY <1>12, Numbers DEF Sid
  <2>2. g[i + 1] = g[i] \o Part(i + 1)
    BY <1>10, <2>1
  <2>3. Shows(x, g[i], i)
    OBVIOUS
  <2> HIDE DEF Q
  <2>4. Shows(x, g[i] \o (IF sess[i + 1].live THEN Histories(i + 1, sess[i + 1].history)
                          ELSE <<>>), i + 1)
    BY <1>12, <2>3, ShowsMore
  <2>5. Shows(x, g[i + 1], i + 1)
    BY <1>2, <2>1, <2>2, <2>4
  <2> QED
    BY <2>1, <2>5 DEF Q
<1> HIDE DEF Q
<1>13. 0..MaxSessions \subseteq Q
  BY <1>11, <1>12, UpTo, Numbers
<1>14. MaxSessions \in Q
  BY <1>13, Numbers
<1> QED
  BY <1>1, <1>14 DEF Q

-----------------------------------------------------------------------------
(* The steps of the server. *)

\* What every step keeps.
Kept == ViewInv' /\ HistoriesKept(sess', alive')

LEMMA Begin ==
    ASSUME ViewInv, NEW fresh \in BOOLEAN
    PROVE  /\ Good(Work(fresh), up, since, used.asks, used.asks)
           /\ Begins(Work(fresh)) /\ Work(fresh).sess = sess
           /\ Orphaned(sess) = orphans
<1> DEFINE v == Work(fresh)
<1>1. v.sess = sess /\ v.down = down /\ v.alive = TRUE /\ v.fresh = fresh
  BY DEF Work
<1>2. Orphaned(sess) = orphans
  BY DEF Orphaned
<1>3. Placed /\ Sound(sess, orphans, used.asks) /\ Truths
      /\ Prompts(sess, up, tab, author, used.prompts)
  BY DEF ViewInv
<1>4. v \in Works
  <2>1. down \in Downs /\ sess \in [Sid -> Session]
    BY <1>3 DEF Placed, Downs
  <2> QED
    BY <2>1 DEF Work, Works
<1> HIDE DEF v
<1>5. Truth(v, since, used.asks)
  BY <1>1, <1>2, <1>3 DEF Truth, Truths
<1>6. Grown(sess)
  BY <1>3, Numbers DEF Grown, Placed, Session
<1>7. Good(v, up, since, used.asks, used.asks) /\ Begins(v)
  BY <1>1, <1>2, <1>3, <1>4, <1>5, <1>6 DEF Good, Begins
<1> QED
  BY <1>1, <1>2, <1>7 DEF v

\* A run is heard whose session is there, or was deleted while it went on.
LEMMA BusyHeard ==
    ASSUME ViewInv, NEW s \in Sid, sess[s].busy, NEW v, v.sess = sess
    PROVE  Heard(v, s)
<1>1. SoundOne(sess[s], s, orphans, used.asks)
  BY DEF ViewInv, Sound
<1> QED
  BY <1>1 DEF SoundOne, Heard, Orphaned

LEMMA AsideAlike ==
    ASSUME ViewInv, used' \in Counts, used'.prompts = used.prompts, used'.asks = used.asks,
           UNCHANGED <<tab, since, author>>
    PROVE  Aside(used.asks) /\ used.asks \in 0..MaxAsks
<1>1. used.asks \in 0..MaxAsks /\ used.asks <= used.asks
  BY Numbers DEF ViewInv, Placed, Counts
<1>2. since \in [Tab -> SUBSET (1..used.asks)]
  BY DEF ViewInv, Placed
<1> QED
  BY <1>1, <1>2 DEF Aside

\* A handler that makes v of the sessions, in a step that counts nothing the
\* views depend on.
LEMMA HandlerKeeps ==
    ASSUME ViewInv, NEW v, NEW ups \in [Tab -> Seq(ClientMsg)],
           Good(v, ups, since, used.asks, used.asks),
           \A t \in Tab : t \notin open => ups[t] = <<>>, Commit(v, ups),
           used' \in Counts, used'.prompts = used.prompts, used'.asks = used.asks,
           UNCHANGED <<tab, since, author>>
    PROVE  Kept
<1>1. Placed
  BY DEF ViewInv
<1>2. Aside(used.asks) /\ used.asks \in 0..MaxAsks
  BY AsideAlike
<1>3. \A t \in open : since'[t] = since[t]
  OBVIOUS
<1> QED
  BY <1>1, <1>2, <1>3, CommitKeeps DEF Kept

LEMMA UpPlaced ==
    ASSUME ViewInv
    PROVE  /\ up \in [Tab -> Seq(ClientMsg)] /\ \A t \in Tab : t \notin open => up[t] = <<>>
           /\ \A t \in Tab : up[t] # <<>> =>
                 /\ Served(up, t) \in [Tab -> Seq(ClientMsg)] /\ Head(up[t]) \in ClientMsg
                 /\ \A z \in Tab : z \notin open => Served(up, t)[z] = <<>>
<1>1. up \in [Tab -> Seq(ClientMsg)] /\ \A t \in Tab : t \notin open => up[t] = <<>>
  BY DEF ViewInv, Placed
<1>2. ASSUME NEW t \in Tab, up[t] # <<>>
      PROVE  /\ Served(up, t) \in [Tab -> Seq(ClientMsg)] /\ Head(up[t]) \in ClientMsg
             /\ \A z \in Tab : z \notin open => Served(up, t)[z] = <<>>
  <2>1. up[t] \in Seq(ClientMsg) /\ t \in open
    BY <1>1, <1>2
  <2>2. Tail(up[t]) \in Seq(ClientMsg) /\ Head(up[t]) \in ClientMsg
    BY <1>2, <2>1
  <2> QED
    BY <1>1, <2>1, <2>2 DEF Served
<1> QED
  BY <1>1, <1>2

LEMMA CountsAlike ==
    ASSUME ViewInv
    PROVE  /\ used \in Counts
           /\ \A u : u \in {[used EXCEPT !.clicks = @ + 1], [used EXCEPT !.says = @ + 1],
                            [used EXCEPT !.faults = @ + 1], [used EXCEPT !.creates = @ + 1]} =>
                 u \in Counts /\ u.prompts = used.prompts /\ u.asks = used.asks
<1> DEFINE Fits(u) == u \in Counts /\ u.prompts = used.prompts /\ u.asks = used.asks
<1>1. used \in Counts
  BY DEF ViewInv, Placed
<1>2. Fits([used EXCEPT !.clicks = @ + 1])
  BY <1>1 DEF Counts
<1>3. Fits([used EXCEPT !.says = @ + 1])
  BY <1>1 DEF Counts
<1>4. Fits([used EXCEPT !.faults = @ + 1])
  BY <1>1 DEF Counts
<1>5. Fits([used EXCEPT !.creates = @ + 1])
  BY <1>1 DEF Counts
<1> QED
  BY <1>1, <1>2, <1>3, <1>4, <1>5

LEMMA HandlesStep ==
    ASSUME ViewInv, NEW t \in Tab, ServerHandles(t)
    PROVE  Kept
<1>1. up[t] # <<>> /\ UNCHANGED <<tab, used, since, author>>
  BY DEF ServerHandles
<1>2. PICK fresh \in BOOLEAN, online \in BOOLEAN :
          Commit(HandleClientMessage(Work(fresh), {t}, Head(up[t]), online), Served(up, t))
  <2>1. Fresh \subseteq BOOLEAN
    BY DEF Fresh
  <2> QED
    BY <2>1, Zenon DEF ServerHandles, Served
<1> DEFINE v == Work(fresh)
           w == HandleClientMessage(v, {t}, Head(up[t]), online)
<1>3. Good(v, up, since, used.asks, used.asks) /\ Begins(v) /\ Placed
  BY Begin DEF ViewInv
<1> HIDE DEF v
<1>4. Good(w, Served(up, t), since, used.asks, used.asks)
  BY <1>1, <1>3, HandleKeeps
<1>5. Commit(w, Served(up, t))
  BY <1>2 DEF v
<1> HIDE DEF w
<1>6. used' \in Counts /\ used'.prompts = used.prompts /\ used'.asks = used.asks
  BY <1>1, CountsAlike
<1>7. Served(up, t) \in [Tab -> Seq(ClientMsg)]
      /\ \A z \in Tab : z \notin open => Served(up, t)[z] = <<>>
  BY <1>1, UpPlaced
<1> QED
  BY <1>1, <1>4, <1>5, <1>6, <1>7, HandlerKeeps

LEMMA ElsewhereStep ==
    ASSUME ViewInv, HandlesElsewhere
    PROVE  Kept
<1>1. used' = [used EXCEPT !.clicks = @ + 1] /\ UNCHANGED <<tab, since, author>>
  BY DEF HandlesElsewhere
<1>2. PICK s \in Sid, r \in Req :
          \E m \in {Respond(s, r), CancelOne(s), CancelAll, Delete(s)} :
              Commit(HandleClientMessage(Work(TRUE), {}, m, TRUE), up)
  BY Zenon DEF HandlesElsewhere
<1>3. PICK m \in {Respond(s, r), CancelOne(s), CancelAll, Delete(s)} :
          Commit(HandleClientMessage(Work(TRUE), {}, m, TRUE), up)
  BY <1>2
<1>4. m \in ClientMsg /\ m.type # "send_prompt"
  BY DEF ClientMsg, Respond, CancelOne, CancelAll, Delete
<1> DEFINE v == Work(TRUE)
           w == HandleClientMessage(v, {}, m, TRUE)
<1>5. Good(v, up, since, used.asks, used.asks) /\ Begins(v) /\ Placed
  BY Begin DEF ViewInv
<1> HIDE DEF v
<1>6. Good(w, up, since, used.asks, used.asks)
  BY <1>4, <1>5, ClickKeeps
<1>7. Commit(w, up)
  BY <1>3 DEF v
<1> HIDE DEF w
<1>8. used' \in Counts /\ used'.prompts = used.prompts /\ used'.asks = used.asks
  BY <1>1, CountsAlike
<1> QED
  BY <1>1, <1>6, <1>7, <1>8, UpPlaced, HandlerKeeps

LEMMA RefusesStep ==
    ASSUME ViewInv, NEW t \in Tab, ServerRefuses(t)
    PROVE  Kept
<1>1. up[t] # <<>> /\ UNCHANGED <<tab, used, since, author>>
      /\ Commit(Work(TRUE), Served(up, t))
  BY DEF ServerRefuses, Served
<1> DEFINE v == Work(TRUE)
<1>2. Good(v, up, since, used.asks, used.asks)
  BY Begin
<1>3. Commit(v, Served(up, t))
  BY <1>1
<1> HIDE DEF v
<1>4. Served(up, t) \in [Tab -> Seq(ClientMsg)]
      /\ \A z \in Tab : z \notin open => Served(up, t)[z] = <<>>
  BY <1>1, UpPlaced
<1>5. Prompts(v.sess, Served(up, t), tab, author, used.prompts)
  <2>1. Prompts(v.sess, up, tab, author, used.prompts)
    BY <1>2 DEF Good
  <2> QED
    BY <1>1, <2>1, UpPlaced, PromptsServed
<1>6. Good(v, Served(up, t), since, used.asks, used.asks)
  BY <1>2, <1>5 DEF Good
<1>7. used' \in Counts /\ used'.prompts = used.prompts /\ used'.asks = used.asks
  BY <1>1, CountsAlike
<1> QED
  BY <1>1, <1>3, <1>4, <1>6, <1>7, HandlerKeeps

LEMMA SaysStep ==
    ASSUME ViewInv, NEW s \in Sid, AgentSays(s)
    PROVE  Kept
<1>1. /\ sess[s].busy /\ used' = [used EXCEPT !.says = @ + 1]
      /\ UNCHANGED <<tab, since, author>>
  BY DEF AgentSays
<1>2. PICK fresh \in BOOLEAN : Commit(RecordMessage(Work(fresh), s, NoPrompt), up)
  <2>1. Fresh \subseteq BOOLEAN
    BY DEF Fresh
  <2> QED
    BY <2>1, Zenon DEF AgentSays
<1> DEFINE v == Work(fresh)
           w == RecordMessage(v, s, NoPrompt)
<1>3. Good(v, up, since, used.asks, used.asks) /\ Placed /\ v.sess = sess
  BY Begin DEF ViewInv
<1>4. Commit(w, up)
  BY <1>2
<1> HIDE DEF v
<1>5. v.sess[s].made
  BY <1>1, <1>3, BusyHeard DEF Heard
<1>6. Good(w, up, since, used.asks, used.asks)
  BY <1>3, <1>5, SayKeeps
<1> HIDE DEF w
<1>7. used' \in Counts /\ used'.prompts = used.prompts /\ used'.asks = used.asks
  BY <1>1, CountsAlike
<1> QED
  BY <1>1, <1>4, <1>6, <1>7, UpPlaced, HandlerKeeps

LEMMA AsksStep ==
    ASSUME ViewInv, NEW s \in Sid, AgentAsks(s)
    PROVE  Kept
<1> DEFINE n == used.asks
           v == Work(TRUE)
           w == AskPermission(v, s, n + 1)
<1>1. /\ sess[s].busy /\ n < MaxAsks /\ used' = [used EXCEPT !.asks = @ + 1]
      /\ since' = [t \in Tab |-> IF t \notin open THEN {} ELSE since[t] \cup {n + 1}]
      /\ UNCHANGED <<tab, author>> /\ Commit(w, up)
  BY DEF AgentAsks
<1>2. used \in Counts /\ n \in Nat /\ n + 1 \in 0..MaxAsks /\ n + 1 \in Req /\ n <= n + 1
  BY <1>1, Numbers DEF ViewInv, Placed, Counts, Req
<1>3. Good(v, up, since, n, n) /\ Placed /\ v.sess = sess
  BY Begin DEF ViewInv
<1> HIDE DEF v
<1>4. Heard(v, s)
  BY <1>1, <1>3, BusyHeard
<1>5. /\ since \in [Tab -> SUBSET (1..n)] /\ open \subseteq Tab
  BY DEF ViewInv, Placed
<1>6. since' \in [Tab -> SUBSET (1..(n + 1))] /\ \A t \in open : since'[t] \subseteq since[t] \cup {n + 1}
  <2>1. 1..n \subseteq 1..(n + 1) /\ n + 1 \in 1..(n + 1)
    BY <1>2
  <2>2. \A t \in Tab : since[t] \cup {n + 1} \subseteq 1..(n + 1)
    BY <1>5, <2>1
  <2> QED
    BY <1>1, <1>5, <2>2
<1>7. used' \in Counts /\ used'.prompts = used.prompts /\ used'.asks = n + 1
  BY <1>1, <1>2 DEF Counts
<1> HIDE DEF n
<1> DEFINE P == since'
<1>8. \A t \in open : P[t] \subseteq since[t] \cup {n + 1}
  BY <1>6
<1> HIDE DEF P
<1>9. Good(w, up, P, n + 1, n + 1)
  BY <1>2, <1>3, <1>4, <1>8, AskKeeps
<1> HIDE DEF w
<1>10. Aside(n + 1)
  BY <1>1, <1>2, <1>6, <1>7 DEF Aside, n
<1>11. \A t \in open : since'[t] = P[t]
  BY DEF P
<1>12. \A t \in Tab : t \notin open => up[t] = <<>>
  BY UpPlaced
<1>13. up \in [Tab -> Seq(ClientMsg)]
  BY UpPlaced
<1> QED
  BY <1>1, <1>2, <1>3, <1>9, <1>10, <1>11, <1>12, <1>13, CommitKeeps DEF Kept

LEMMA EndsStep ==
    ASSUME ViewInv, NEW s \in Sid, AgentEnds(s)
    PROVE  Kept
<1>1. sess[s].busy /\ UNCHANGED <<tab, used, since, author>>
  BY DEF AgentEnds
<1>2. PICK fresh \in BOOLEAN, online \in BOOLEAN, failed \in BOOLEAN :
          Commit(OnDone(IF failed THEN OnError(Work(fresh), s) ELSE Work(fresh), s, online), up)
  <2>1. Fresh \subseteq BOOLEAN
    BY DEF Fresh
  <2> QED
    BY <2>1, Zenon DEF AgentEnds
<1> DEFINE v == Work(fresh)
           u == IF failed THEN OnError(v, s) ELSE v
           w == OnDone(u, s, online)
<1>3. Good(v, up, since, used.asks, used.asks) /\ Placed /\ v.sess = sess
  BY Begin DEF ViewInv
<1>4. Commit(w, up)
  BY <1>2
<1> HIDE DEF v
<1>5. Heard(v, s)
  BY <1>1, <1>3, BusyHeard
<1>6. Good(u, up, since, used.asks, used.asks) /\ Heard(u, s)
  <2>1. /\ Good(OnError(v, s), up, since, used.asks, used.asks)
        /\ Stays(v, OnError(v, s))
    BY <1>3, <1>5, ErrorKeeps
  <2>2. Heard(OnError(v, s), s)
    BY <1>5, <2>1, StaysHeard
  <2> QED
    BY <1>3, <1>5, <2>1, <2>2
<1> HIDE DEF u
<1>7. Good(w, up, since, used.asks, used.asks)
  BY <1>3, <1>6, DoneKeeps
<1> HIDE DEF w
<1>8. used' \in Counts /\ used'.prompts = used.prompts /\ used'.asks = used.asks
  BY <1>1, CountsAlike
<1> QED
  BY <1>1, <1>4, <1>7, <1>8, UpPlaced, HandlerKeeps

LEMMA StoppedStep ==
    ASSUME ViewInv, Stopped
    PROVE  Kept
<1>1. /\ Halt(sess) /\ used' = [used EXCEPT !.faults = @ + 1]
      /\ UNCHANGED <<tab, since, orphans, author>>
  BY DEF Stopped
<1>2. /\ Placed /\ sess \in [Sid -> Session] /\ Sound(sess, Orphaned(sess), used.asks)
      /\ Prompts(sess, up, tab, author, used.prompts) /\ orphans \subseteq Sid
  BY Begin DEF ViewInv, Placed
<1>3. Grown(sess)
  BY <1>2, Begin DEF Good
<1>4. used' \in Counts /\ used'.prompts = used.prompts /\ used'.asks = used.asks
  BY <1>1, CountsAlike
<1>5. Aside(used.asks) /\ used.asks \in 0..MaxAsks
  BY <1>1, <1>4, AsideAlike
<1> QED
  BY <1>1, <1>2, <1>3, <1>5, HaltKeeps DEF Kept

LEMMA SameHistories ==
    ASSUME ViewInv, sess' = sess
    PROVE  HistoriesKept(sess', alive')
<1>1. Sound(sess, orphans, used.asks) /\ sess \in [Sid -> Session]
  BY DEF ViewInv, Placed
<1>2. \A s \in Sid : Numbered(sess[s])
  BY <1>1 DEF Sound, SoundOne
<1>3. Grown(sess)
  BY <1>1, Numbers DEF Grown, Session
<1>4. HistoriesKept(sess, alive')
  BY <1>1, <1>2, <1>3, GrownKept
<1> QED
  BY <1>4

LEMMA BootStep ==
    ASSUME ViewInv, Boot
    PROVE  Kept
<1>1. alive' = TRUE /\ UNCHANGED <<sess, open, up, down, tab, used, since, orphans, author>>
  BY DEF Boot
<1>2. Placed'
  BY <1>1 DEF ViewInv, Placed
<1>3. Sound(sess, orphans, used.asks)' /\ Truths' /\ Prompts(sess, up, tab, author, used.prompts)'
  BY <1>1 DEF ViewInv, Truths
<1> QED
  BY <1>1, <1>2, <1>3, SameHistories DEF ViewInv, Kept

-----------------------------------------------------------------------------
(* The steps of a socket. *)

LEMMA ConnectStep ==
    ASSUME ViewInv, NEW t \in Tab, Connect(t)
    PROVE  Kept
<1> DEFINE x == tab[t]
           z == [x EXCEPT !.queue = <<>>]
<1>1. /\ alive /\ t \notin open /\ open' = open \cup {t}
      /\ down' = [down EXCEPT ![t] = Snapshot] /\ up' = [up EXCEPT ![t] = x.queue]
      /\ tab' = [tab EXCEPT ![t] = z] /\ since' = [since EXCEPT ![t] = {}]
      /\ UNCHANGED <<sess, alive, used, orphans, author>>
  BY DEF Connect
<1>2. /\ Placed /\ Truths /\ Prompts(sess, up, tab, author, used.prompts)
      /\ Sound(sess, orphans, used.asks)
  BY DEF ViewInv
<1>3. /\ tab \in [Tab -> Page] /\ x \in Page /\ down \in [Tab -> Seq(ServerMsg)]
      /\ up \in [Tab -> Seq(ClientMsg)] /\ since \in [Tab -> SUBSET (1..used.asks)]
  BY <1>2 DEF Placed
<1>4. z \in Page /\ ViewOf(z) = ViewOf(x) /\ z.queue = <<>> /\ z.modals = x.modals
      /\ x.queue \in Seq(ClientMsg) /\ ViewOf(x) \in View
  <2>1. z \in Page /\ z.queue = <<>> /\ x.queue \in Seq(ClientMsg)
    <3>1. x.queue \in Seq(ClientMsg)
      BY <1>3, PageFields
    <3>2. <<>> \in Seq(ClientMsg)
      BY EmptyList
    <3> DEFINE none == <<>>
    <3> HIDE DEF none
    <3>3. [x EXCEPT !.queue = none] \in Page /\ [x EXCEPT !.queue = none].queue = none
      BY <1>3, <3>2 DEF Page, none
    <3> QED
      BY <3>1, <3>3 DEF none
  <2>2. z.sessions = x.sessions /\ z.messages = x.messages /\ z.modals = x.modals
    BY <1>3, Zenon DEF Page
  <2> HIDE DEF z
  <2>3. ViewOf(z) = ViewOf(x) /\ ViewOf(x) \in View
    BY <1>3, <2>2 DEF ViewOf, View, Page
  <2> QED
    BY <2>1, <2>2, <2>3
<1> HIDE DEF z, x
<1>5. Shows(ViewOf(x), Snapshot, MaxSessions)
  BY <1>2, <1>4, SnapshotShows
<1>6. Placed'
  <2>1. /\ up' \in [Tab -> Seq(ClientMsg)] /\ down' \in [Tab -> Seq(ServerMsg)]
        /\ tab' \in [Tab -> Page] /\ since' \in [Tab -> SUBSET (1..used.asks)]
    BY <1>1, <1>3, <1>4, <1>5 DEF Shows
  <2>2. \A u \in Tab : IF u \in open' THEN tab'[u].queue = <<>>
                       ELSE up'[u] = <<>> /\ down'[u] = <<>>
    BY <1>1, <1>2, <1>3, <1>4 DEF Placed
  <2>3. \A u \in Tab : \A p \in Range(tab'[u].modals) : p.req <= used.asks
    BY <1>1, <1>2, <1>3, <1>4 DEF Placed, x
  <2> QED
    BY <1>1, <1>2, <2>1, <2>2, <2>3 DEF Placed
<1>7. Truths'
  <2>1. /\ Bounded(Snapshot, used.asks)
        /\ \E y \in View : /\ Seen(ViewOf(x), Snapshot, y)
                           /\ Told(y, sess, orphans, {}, used.asks)
    <3>1. PICK y \in View :
              /\ Seen(ViewOf(x), Snapshot, y) /\ y.sessions = Current
              /\ y.modals = ViewOf(x).modals
              /\ \A s \in Sid : s <= MaxSessions /\ sess[s].live =>
                    EndsIn(y.messages[s], sess[s].history)
      BY <1>5 DEF Shows
    <3>2. \A s \in Sid : s <= MaxSessions
      BY Numbers DEF Sid
    <3>3. \A p \in Range(y.modals) : p.req <= used.asks
      BY <1>2, <3>1 DEF Placed, ViewOf, x
    <3>4. Told(y, sess, orphans, {}, used.asks)
      BY <3>1, <3>2, <3>3 DEF Told, Current
    <3>5. Bounded(Snapshot, used.asks)
      BY <1>5 DEF Shows, Bounded
    <3> QED
      BY <3>1, <3>4, <3>5
  <2> SUFFICES ASSUME NEW u \in open'
               PROVE  /\ Bounded(down'[u], used.asks)
                      /\ \E y \in View : /\ Seen(ViewOf(tab'[u]), down'[u], y)
                                         /\ Told(y, sess, orphans, since'[u], used.asks)
    BY <1>1 DEF Truths
  <2>2. CASE u = t
    <3>1. down'[t] = Snapshot /\ tab'[t] = z /\ since'[t] = {}
      BY <1>1, <1>3
    <3> QED
      BY <1>4, <2>1, <2>2, <3>1
  <2>3. CASE u # t
    <3>1. u \in open /\ u \in Tab
      BY <1>1, <1>2, <2>3 DEF Placed
    <3>2. down'[u] = down[u] /\ tab'[u] = tab[u] /\ since'[u] = since[u]
      BY <1>1, <1>3, <2>3, <3>1
    <3> QED
      BY <1>2, <3>1, <3>2 DEF Truths
  <2> QED
    BY <2>2, <2>3
<1>8. Prompts(sess, up, tab, author, used.prompts)'
  <2>1. /\ InOrder(sess, author, used.prompts)
        /\ \A u \in Tab : /\ Coming(up[u], u, sess, author, used.prompts)
                          /\ Coming(tab[u].queue, u, sess, author, used.prompts)
    BY <1>2 DEF Prompts
  <2>2. \A u \in Tab : Coming(<<>>, u, sess, author, used.prompts)
    BY ComingNothing
  <2>3. ASSUME NEW u \in Tab
        PROVE  /\ Coming(up'[u], u, sess, author, used.prompts)
               /\ Coming(tab'[u].queue, u, sess, author, used.prompts)
    <3>1. CASE u = t
      <4>1. up'[t] = tab[t].queue /\ tab'[t].queue = <<>>
        BY <1>1, <1>3, <1>4 DEF x
      <4> QED
        BY <2>1, <2>2, <3>1, <4>1
    <3>2. CASE u # t
      <4>1. up'[u] = up[u] /\ tab'[u] = tab[u]
        BY <1>1, <1>3, <3>2
      <4> QED
        BY <2>1, <4>1
    <3> QED
      BY <3>1, <3>2
  <2>4. Prompts(sess, up', tab', author, used.prompts)
    BY <2>1, <2>3 DEF Prompts
  <2> QED
    BY <1>1, <2>4
<1>9. Sound(sess, orphans, used.asks)'
  BY <1>1, <1>2
<1> QED
  BY <1>1, <1>6, <1>7, <1>8, <1>9, SameHistories DEF ViewInv, Kept

\* The socket of t breaks; the page is the same, or a new one.
LEMMA CutKeeps ==
    ASSUME ViewInv, NEW t \in Tab, Cut(t), NEW x \in {tab[t], FreshTab},
           tab' = [tab EXCEPT ![t] = x],
           used' = [used EXCEPT !.faults = @ + 1], author' = author
    PROVE  Kept
<1>1. /\ open' = open \ {t} /\ up' = [up EXCEPT ![t] = <<>>] /\ down' = [down EXCEPT ![t] = <<>>]
      /\ UNCHANGED <<sess, alive, since, orphans>>
  BY DEF Cut
<1>2. /\ Placed /\ Truths /\ Prompts(sess, up, tab, author, used.prompts)
      /\ Sound(sess, orphans, used.asks)
  BY DEF ViewInv
<1>3. /\ tab \in [Tab -> Page] /\ down \in [Tab -> Seq(ServerMsg)]
      /\ up \in [Tab -> Seq(ClientMsg)]
  BY <1>2 DEF Placed
<1>4. used' \in Counts /\ used'.prompts = used.prompts /\ used'.asks = used.asks
  BY CountsAlike
<1>5. FreshTab \in Page /\ FreshTab.queue = <<>> /\ FreshTab.modals = <<>>
  BY DEF FreshTab, Page, Shown
<1>6. /\ x \in Page /\ x.queue \in {tab[t].queue, <<>>}
      /\ \A p \in Range(x.modals) : p.req <= used.asks
  <2>1. \A p \in Range(tab[t].modals) : p.req <= used.asks
    BY <1>2 DEF Placed
  <2>2. Range(<<>>) = {}
    BY EmptyList
  <2> QED
    BY <1>3, <1>5, <2>1, <2>2
<1>7. Placed'
  <2>1. /\ up' \in [Tab -> Seq(ClientMsg)] /\ down' \in [Tab -> Seq(ServerMsg)]
        /\ tab' \in [Tab -> Page]
    BY <1>1, <1>3, <1>6
  <2>2. \A u \in Tab : IF u \in open' THEN tab'[u].queue = <<>>
                       ELSE up'[u] = <<>> /\ down'[u] = <<>>
    BY <1>1, <1>2, <1>3 DEF Placed
  <2>3. \A u \in Tab : \A p \in Range(tab'[u].modals) : p.req <= used.asks
    BY <1>2, <1>3, <1>6 DEF Placed
  <2> QED
    BY <1>1, <1>2, <1>4, <2>1, <2>2, <2>3 DEF Placed
<1>8. Truths'
  <2> SUFFICES ASSUME NEW u \in open'
               PROVE  /\ Bounded(down'[u], used.asks)
                      /\ \E y \in View : /\ Seen(ViewOf(tab'[u]), down'[u], y)
                                         /\ Told(y, sess, orphans, since[u], used.asks)
    BY <1>1, <1>4 DEF Truths
  <2>1. u \in open /\ u \in Tab /\ u # t
    BY <1>1, <1>2 DEF Placed
  <2>2. down'[u] = down[u] /\ tab'[u] = tab[u]
    BY <1>1, <1>3, <2>1
  <2> QED
    BY <1>2, <2>1, <2>2 DEF Truths
<1>9. Prompts(sess, up, tab, author, used.prompts)'
  <2>1. /\ InOrder(sess, author, used.prompts)
        /\ \A u \in Tab : /\ Coming(up[u], u, sess, author, used.prompts)
                          /\ Coming(tab[u].queue, u, sess, author, used.prompts)
    BY <1>2 DEF Prompts
  <2>2. \A u \in Tab : Coming(<<>>, u, sess, author, used.prompts)
    BY ComingNothing
  <2>3. ASSUME NEW u \in Tab
        PROVE  /\ Coming(up'[u], u, sess, author, used.prompts)
               /\ Coming(tab'[u].queue, u, sess, author, used.prompts)
    <3>1. CASE u = t
      <4>1. up'[t] = <<>> /\ tab'[t] = x
        BY <1>1, <1>3
      <4> QED
        BY <1>6, <2>1, <2>2, <3>1, <4>1
    <3>2. CASE u # t
      <4>1. up'[u] = up[u] /\ tab'[u] = tab[u]
        BY <1>1, <1>3, <3>2
      <4> QED
        BY <2>1, <4>1
    <3> QED
      BY <3>1, <3>2
  <2>4. Prompts(sess, up', tab', author, used.prompts)
    BY <2>1, <2>3 DEF Prompts
  <2> QED
    BY <1>1, <1>4, <2>4
<1>10. Sound(sess, orphans, used.asks)'
  BY <1>1, <1>2, <1>4
<1> QED
  BY <1>1, <1>7, <1>8, <1>9, <1>10, SameHistories DEF ViewInv, Kept

LEMMA BreakStep ==
    ASSUME ViewInv, NEW t \in Tab, Break(t)
    PROVE  Kept
<1>1. Cut(t) /\ used' = [used EXCEPT !.faults = @ + 1] /\ tab' = tab /\ author' = author
  BY DEF Break, Cut
<1>2. tab' = [tab EXCEPT ![t] = tab[t]]
  BY <1>1 DEF ViewInv, Placed
<1> QED
  BY <1>1, <1>2, CutKeeps

LEMMA ReloadStep ==
    ASSUME ViewInv, NEW t \in Tab, Reload(t)
    PROVE  Kept
<1>1. Cut(t) /\ used' = [used EXCEPT !.faults = @ + 1] /\ author' = author
      /\ tab' = [tab EXCEPT ![t] = FreshTab]
  BY DEF Reload, Cut
<1> QED
  BY <1>1, CutKeeps

LEMMA ReceivesStep ==
    ASSUME ViewInv, NEW t \in Tab, TabReceives(t)
    PROVE  Kept
<1> DEFINE q == down[t]
           x == tab[t]
           z == HandleServerMessage(x, Head(q))
<1>1. /\ t \in open /\ q # <<>> /\ tab' = [tab EXCEPT ![t] = z]
      /\ down' = [down EXCEPT ![t] = Tail(q)]
      /\ UNCHANGED <<sess, alive, open, up, used, since, orphans, author>>
  BY DEF TabReceives
<1>2. /\ Placed /\ Truths /\ Prompts(sess, up, tab, author, used.prompts)
      /\ Sound(sess, orphans, used.asks)
  BY DEF ViewInv
<1>3. /\ tab \in [Tab -> Page] /\ x \in Page /\ down \in [Tab -> Seq(ServerMsg)]
      /\ q \in Seq(ServerMsg) /\ open \subseteq Tab
  BY <1>2 DEF Placed
<1>4. Head(q) \in ServerMsg /\ Tail(q) \in Seq(ServerMsg) /\ Range(q) = {Head(q)} \cup Range(Tail(q))
  BY <1>1, <1>3, TailList
<1>5. z \in Page /\ z.queue = x.queue /\ ViewOf(z) = Taken(ViewOf(x), Head(q))
  BY <1>3, <1>4, PageTakes
<1>6. /\ Bounded(q, used.asks)
      /\ \E y \in View : Seen(ViewOf(x), q, y) /\ Told(y, sess, orphans, since[t], used.asks)
  BY <1>1, <1>2 DEF Truths
<1>7. ViewOf(x) \in View
  BY <1>3 DEF ViewOf, View, Page
<1> HIDE DEF z, q
<1>8. /\ Bounded(Tail(q), used.asks)
      /\ \E y \in View : Seen(ViewOf(z), Tail(q), y) /\ Told(y, sess, orphans, since[t], used.asks)
  <2>1. PICK y \in View : Seen(ViewOf(x), q, y) /\ Told(y, sess, orphans, since[t], used.asks)
    BY <1>6
  <2>2. q \in Seq(ServerMsg) /\ q # <<>>
    BY <1>1, <1>3
  <2>3. Seen(Taken(ViewOf(x), Head(q)), Tail(q), y)
    BY <1>7, <2>1, <2>2, SeenFirst
  <2> QED
    BY <1>4, <1>5, <1>6, <2>1, <2>3 DEF Bounded
<1>9. \A p \in Range(z.modals) : p.req <= used.asks
  <2>1. z.modals = Modals(x.modals, Head(q)) /\ x.modals \in Seq(Question)
    BY <1>3, <1>5 DEF ViewOf, Taken, Page
  <2>2. \A p \in Range(x.modals) : p.req <= used.asks
    BY <1>2 DEF Placed
  <2> DEFINE m == Head(q)
  <2>3. m \in ServerMsg /\ (m.type = "permission_request" => m.req <= used.asks)
    BY <1>4, <1>6 DEF Bounded
  <2> HIDE DEF m
  <2>4. CASE m.type = "permission_request"
    <3>1. [sid |-> m.sid, req |-> m.req] \in Question
      BY <2>3, <2>4, MessageFields DEF Question
    <3>2. Range(Append(x.modals, [sid |-> m.sid, req |-> m.req])) =
              Range(x.modals) \cup {[sid |-> m.sid, req |-> m.req]}
      BY <2>1, <3>1, AppendList
    <3>3. z.modals = Append(x.modals, [sid |-> m.sid, req |-> m.req])
      BY <2>1, <2>4 DEF Modals, m
    <3>4. \A p \in Range(z.modals) : p \in Range(x.modals) \/ p.req = m.req
      BY <3>2, <3>3
    <3> QED
      BY <2>2, <2>3, <2>4, <3>4
  <2>5. CASE m.type = "permission_resolved"
    <3>1. z.modals = Keep(x.modals, {p \in Range(x.modals) : p.req # m.req})
      BY <2>1, <2>5 DEF Modals, m
    <3>2. Range(z.modals) \subseteq Range(x.modals)
      BY <2>1, <3>1, KeepList
    <3> QED
      BY <2>2, <3>2
  <2>6. CASE m.type \notin {"permission_request", "permission_resolved"}
    <3>1. z.modals = x.modals
      BY <2>1, <2>6 DEF Modals, m
    <3> QED
      BY <2>2, <3>1
  <2> QED
    BY <2>4, <2>5, <2>6
<1>10. Placed'
  <2>1. down' \in [Tab -> Seq(ServerMsg)] /\ tab' \in [Tab -> Page]
    BY <1>1, <1>3, <1>4, <1>5
  <2>2. \A u \in Tab : IF u \in open THEN tab'[u].queue = <<>>
                       ELSE up[u] = <<>> /\ down'[u] = <<>>
    BY <1>1, <1>2, <1>3, <1>5 DEF Placed, x
  <2>3. \A u \in Tab : \A p \in Range(tab'[u].modals) : p.req <= used.asks
    BY <1>1, <1>2, <1>3, <1>9 DEF Placed
  <2> QED
    BY <1>1, <1>2, <2>1, <2>2, <2>3 DEF Placed
<1>11. Truths'
  <2> SUFFICES ASSUME NEW u \in open
               PROVE  /\ Bounded(down'[u], used.asks)
                      /\ \E y \in View : /\ Seen(ViewOf(tab'[u]), down'[u], y)
                                         /\ Told(y, sess, orphans, since[u], used.asks)
    BY <1>1 DEF Truths
  <2>1. CASE u = t
    <3>1. down'[t] = Tail(q) /\ tab'[t] = z
      BY <1>1, <1>3
    <3> QED
      BY <1>8, <2>1, <3>1
  <2>2. CASE u # t
    <3>1. down'[u] = down[u] /\ tab'[u] = tab[u]
      BY <1>1, <1>3, <2>2
    <3> QED
      BY <1>2, <3>1 DEF Truths
  <2> QED
    BY <2>1, <2>2
<1>12. Prompts(sess, up, tab, author, used.prompts)'
  <2>1. \A u \in Tab : tab'[u].queue = tab[u].queue
    BY <1>1, <1>3, <1>5 DEF x
  <2>2. Prompts(sess, up, tab', author, used.prompts)
    BY <1>2, <2>1 DEF Prompts
  <2> QED
    BY <1>1, <2>2
<1>13. Sound(sess, orphans, used.asks)'
  BY <1>1, <1>2
<1> QED
  BY <1>1, <1>10, <1>11, <1>12, <1>13, SameHistories DEF ViewInv, Kept

-----------------------------------------------------------------------------
(* The steps of the user. *)

\* The prompts of m, if it is one, may come after all others of t.
Follows(m, q, t, f, au, n) ==
    m.type = "send_prompt" =>
        /\ au[m.prompt] = t /\ m.prompt <= n
        /\ \A p \in Waiting(q) : p < m.prompt
        /\ \A s \in Sid : \A k \in Said(f[s]) : au[k.text] = t => k.text < m.prompt

LEMMA ComingMore ==
    ASSUME NEW q \in Seq(ClientMsg), NEW t, NEW f, NEW au, NEW n, Coming(q, t, f, au, n),
           NEW m \in ClientMsg, Follows(m, q, t, f, au, n)
    PROVE  Coming(Append(q, m), t, f, au, n)
<1> DEFINE l == Append(q, m)
<1>1. /\ Len(q) \in Nat /\ DOMAIN q = 1..Len(q) /\ DOMAIN l = 1..(Len(q) + 1)
      /\ l[Len(q) + 1] = m /\ \A i \in 1..Len(q) : l[i] = q[i]
  OBVIOUS
<1>2. Range(l) = Range(q) \cup {m}
  BY AppendList
<1>3. \A i \in 1..Len(q) : q[i] \in Range(q)
  BY <1>1 DEF Range
<1> HIDE DEF l
<1>4. Ascending(l)
  <2> SUFFICES ASSUME NEW i \in DOMAIN l, NEW j \in DOMAIN l, i < j,
                      l[i].type = "send_prompt", l[j].type = "send_prompt"
               PROVE  l[i].prompt < l[j].prompt
    BY DEF Ascending
  <2>1. i \in 1..Len(q) /\ l[i] = q[i] /\ q[i] \in Range(q)
    BY <1>1, <1>3
  <2>2. CASE j = Len(q) + 1
    <3>1. l[j] = m
      BY <1>1, <2>2
    <3>2. q[i].prompt \in Waiting(q)
      BY <2>1 DEF Waiting
    <3> QED
      BY <2>1, <3>1, <3>2 DEF Follows
  <2>3. CASE j \in 1..Len(q)
    <3>1. l[j] = q[j]
      BY <1>1, <2>3
    <3> QED
      BY <1>1, <2>1, <2>3, <3>1 DEF Coming, Ascending
  <2> QED
    BY <1>1, <2>2, <2>3
<1>5. \A p \in Waiting(l) : p \in Waiting(q) \/ (m.type = "send_prompt" /\ p = m.prompt)
  BY <1>2 DEF Waiting
<1>6. Coming(l, t, f, au, n)
  BY <1>4, <1>5 DEF Coming, Follows
<1> QED
  BY <1>6 DEF l

LEMMA SendKeeps ==
    ASSUME ViewInv, NEW t \in Tab, NEW m \in ClientMsg, Send(t, m),
           used' \in Counts, used'.asks = used.asks,
           author' \in [Prompt -> Tab \cup {CHOOSE z \in Tab : TRUE}],
           Prompts(sess, up, tab, author', used'.prompts),
           Follows(m, up[t], t, sess, author', used'.prompts),
           Follows(m, tab[t].queue, t, sess, author', used'.prompts)
    PROVE  Kept
<1> DEFINE n == used'.prompts
           au == author'
<1>1. /\ Placed /\ Truths /\ Sound(sess, orphans, used.asks)
      /\ UNCHANGED <<sess, alive, open, down, since, orphans>>
  BY DEF ViewInv, Send
<1>2. /\ tab \in [Tab -> Page] /\ down \in [Tab -> Seq(ServerMsg)]
      /\ up \in [Tab -> Seq(ClientMsg)] /\ open \subseteq Tab
  BY <1>1 DEF Placed
<1>3. \A u \in Tab : Coming(up[u], u, sess, au, n) /\ Coming(tab[u].queue, u, sess, au, n)
  BY DEF Prompts
<1>4. InOrder(sess, au, n)
  BY DEF Prompts
<1>5. Follows(m, up[t], t, sess, au, n) /\ Follows(m, tab[t].queue, t, sess, au, n)
  OBVIOUS
<1> HIDE DEF n, au
<1>6. CASE t \in open
  <2>1. up' = [up EXCEPT ![t] = Append(@, m)] /\ tab' = tab
    BY <1>6 DEF Send
  <2>2. up[t] \in Seq(ClientMsg)
    BY <1>2
  <2>3. Append(up[t], m) \in Seq(ClientMsg)
    BY <2>2, AppendList
  <2>4. Coming(Append(up[t], m), t, sess, au, n)
    BY <1>3, <1>5, <2>2, ComingMore
  <2>5. Placed'
    <3>1. up' \in [Tab -> Seq(ClientMsg)] /\ \A u \in Tab : u # t => up'[u] = up[u]
      BY <1>2, <2>1, <2>3
    <3>2. \A u \in Tab : IF u \in open THEN tab[u].queue = <<>>
                         ELSE up'[u] = <<>> /\ down[u] = <<>>
      BY <1>1, <1>6, <3>1 DEF Placed
    <3> QED
      BY <1>1, <2>1, <3>1, <3>2 DEF Placed
  <2>6. Truths'
    BY <1>1, <2>1 DEF Truths
  <2>7. Prompts(sess, up', tab', au, n)
    <3>1. \A u \in Tab : Coming(up'[u], u, sess, au, n)
      BY <1>2, <1>3, <2>1, <2>4
    <3> QED
      BY <1>3, <1>4, <2>1, <3>1 DEF Prompts
  <2>8. Prompts(sess, up, tab, author, used.prompts)' /\ Sound(sess, orphans, used.asks)'
    BY <1>1, <2>7 DEF n, au
  <2> QED
    BY <1>1, <2>5, <2>6, <2>8, SameHistories DEF ViewInv, Kept
<1>7. CASE t \notin open
  <2> DEFINE x == tab[t]
             z == [x EXCEPT !.queue = Append(@, m)]
  <2>1. tab' = [tab EXCEPT ![t] = z] /\ up' = up
    BY <1>7 DEF Send
  <2>2. x \in Page /\ x.queue \in Seq(ClientMsg)
    BY <1>2, PageFields
  <2>3. Append(x.queue, m) \in Seq(ClientMsg)
    BY <2>2, AppendList
  <2>4. Coming(Append(x.queue, m), t, sess, au, n)
    BY <1>3, <1>5, <2>2, ComingMore
  <2>5. z \in Page /\ z.queue = Append(x.queue, m) /\ z.modals = x.modals
    <3> DEFINE l == Append(x.queue, m)
    <3> HIDE DEF l
    <3>1. z = [x EXCEPT !.queue = l]
      BY DEF l
    <3>2. [x EXCEPT !.queue = l] \in Page /\ [x EXCEPT !.queue = l].queue = l
          /\ [x EXCEPT !.queue = l].modals = x.modals
      BY <2>2, <2>3 DEF Page, l
    <3> QED
      BY <3>1, <3>2 DEF l
  <2> HIDE DEF z
  <2>6. Placed'
    <3>1. tab' \in [Tab -> Page] /\ tab'[t] = z /\ \A u \in Tab : u # t => tab'[u] = tab[u]
      BY <1>2, <2>1, <2>5
    <3>2. \A u \in Tab : IF u \in open THEN tab'[u].queue = <<>>
                         ELSE up[u] = <<>> /\ down[u] = <<>>
      BY <1>1, <1>7, <3>1 DEF Placed
    <3>3. \A u \in Tab : \A p \in Range(tab'[u].modals) : p.req <= used.asks
      BY <1>1, <2>5, <3>1 DEF Placed
    <3> QED
      BY <1>1, <2>1, <3>1, <3>2, <3>3 DEF Placed
  <2>7. Truths'
    <3>1. \A u \in open : tab'[u] = tab[u]
      BY <1>2, <1>7, <2>1
    <3> QED
      BY <1>1, <3>1 DEF Truths
  <2>8. Prompts(sess, up', tab', au, n)
    <3>1. \A u \in Tab : Coming(tab'[u].queue, u, sess, au, n)
      <4> SUFFICES ASSUME NEW u \in Tab PROVE Coming(tab'[u].queue, u, sess, au, n)
        OBVIOUS
      <4>1. CASE u = t
        <5>1. tab'[t] = z
          BY <1>2, <2>1
        <5> QED
          BY <2>4, <2>5, <4>1, <5>1
      <4>2. CASE u # t
        <5>1. tab'[u] = tab[u]
          BY <1>2, <2>1, <4>2
        <5> QED
          BY <1>3, <5>1
      <4> QED
        BY <4>1, <4>2
    <3> QED
      BY <1>3, <1>4, <2>1, <3>1 DEF Prompts
  <2>9. Prompts(sess, up, tab, author, used.prompts)' /\ Sound(sess, orphans, used.asks)'
    BY <1>1, <2>8 DEF n, au
  <2> QED
    BY <1>1, <2>6, <2>7, <2>9, SameHistories DEF ViewInv, Kept
<1> QED
  BY <1>6, <1>7

\* What is not a prompt follows everything.
LEMMA ClickStep ==
    ASSUME ViewInv, NEW t \in Tab, NEW m \in ClientMsg, m.type # "send_prompt", Send(t, m),
           used' \in {[used EXCEPT !.clicks = @ + 1], [used EXCEPT !.creates = @ + 1]},
           author' = author
    PROVE  Kept
<1>1. used' \in Counts /\ used'.prompts = used.prompts /\ used'.asks = used.asks
  BY CountsAlike
<1>2. author' \in [Prompt -> Tab \cup {CHOOSE z \in Tab : TRUE}]
      /\ Prompts(sess, up, tab, author', used'.prompts)
  BY <1>1 DEF ViewInv, Placed
<1>3. \A q : Follows(m, q, t, sess, author', used'.prompts)
  BY DEF Follows
<1> QED
  BY <1>1, <1>2, <1>3, SendKeeps

LEMMA TypeStep ==
    ASSUME ViewInv, NEW t \in Tab, Type(t)
    PROVE  Kept
<1> DEFINE n == used.prompts
           m == SendPrompt(tab[t].active, n + 1)
           au == [author EXCEPT ![n + 1] = t]
<1>1. /\ Pane(t) /\ RoomForText /\ Send(t, m) /\ used' = [used EXCEPT !.prompts = @ + 1]
      /\ author' = au
  BY DEF Type
<1>2. /\ Placed /\ Prompts(sess, up, tab, author, n)
      /\ tab \in [Tab -> Page] /\ up \in [Tab -> Seq(ClientMsg)] /\ sess \in [Sid -> Session]
      /\ author \in [Prompt -> Tab \cup {CHOOSE z \in Tab : TRUE}] /\ used \in Counts
  BY DEF ViewInv, Placed
<1>3. n \in Nat /\ n + 1 \in Prompt
  <2>1. n \in Nat /\ used.says \in Nat
    BY <1>2 DEF Counts
  <2> QED
    BY <1>1, <2>1, Numbers DEF RoomForText, Prompt
<1>4. m \in ClientMsg /\ m.type = "send_prompt" /\ m.prompt = n + 1
  <2>1. tab[t].active \in Sid
    BY <1>1, <1>2, PageFields DEF Pane
  <2> QED
    BY <1>3, <2>1 DEF SendPrompt, ClientMsg
<1>5. used' \in Counts /\ used'.asks = used.asks /\ used'.prompts = n + 1
  BY <1>1, <1>2 DEF Counts
<1>6. au \in [Prompt -> Tab \cup {CHOOSE z \in Tab : TRUE}] /\ au[n + 1] = t
      /\ \A p \in Prompt : p <= n => au[p] = author[p]
  BY <1>2, <1>3, Numbers
<1> HIDE DEF m, au
<1>7. \A s \in Sid : \A k \in Said(sess[s]) : k.text \in Prompt /\ k.text <= n
  <2> SUFFICES ASSUME NEW s \in Sid, NEW k \in Said(sess[s])
               PROVE  k.text \in Prompt /\ k.text <= n
    OBVIOUS
  <2>1. k.text <= n
    BY <1>2 DEF Prompts, InOrder
  <2>2. k \in Range(sess[s].history) /\ k.text # NoPrompt
    BY DEF Said
  <2>3. sess[s].history \in Seq(Msg)
    BY <1>2, SessionFields
  <2>4. k \in Msg
    BY <2>2, <2>3, ListRange
  <2> QED
    BY <2>1, <2>2, <2>4, Numbers DEF Msg, Text, Prompt, NoPrompt
<1>12. \A s \in Sid : \A k \in Said(sess[s]) : k.text <= n + 1 /\ k.text < n + 1
  <2>1. \A p \in Prompt : p <= n => p <= n + 1 /\ p < n + 1
    BY <1>3, Numbers
  <2> QED
    BY <1>7, <2>1
<1>8. ASSUME NEW q \in Seq(ClientMsg), NEW u, Coming(q, u, sess, author, n)
      PROVE  Coming(q, u, sess, au, n + 1) /\ \A p \in Waiting(q) : p < n + 1
  <2>1. \A p \in Waiting(q) : p \in Prompt
    <3> SUFFICES ASSUME NEW k \in Range(q), k.type = "send_prompt"
                 PROVE  k.prompt \in Prompt
      BY DEF Waiting
    <3>1. k \in ClientMsg
      BY ListRange
    <3> QED
      BY <3>1, ClientFields
  <2>2. \A p \in Waiting(q) : author[p] = u /\ p <= n
    BY <1>8 DEF Coming
  <2>3. \A p \in Waiting(q) : au[p] = u /\ p <= n + 1 /\ p < n + 1
    BY <1>3, <1>6, <2>1, <2>2, Numbers
  <2>4. \A s \in Sid : \A k \in Said(sess[s]) : au[k.text] = author[k.text]
    BY <1>6, <1>7
  <2> QED
    BY <1>8, <2>3, <2>4 DEF Coming
<1>9. Prompts(sess, up, tab, au, n + 1)
  <2>1. InOrder(sess, author, n)
    BY <1>2 DEF Prompts
  <2>2. \A s \in Sid : \A k \in Said(sess[s]) : au[k.text] = author[k.text] /\ k.text <= n + 1
    BY <1>6, <1>7, <1>12
  <2>3. InOrder(sess, au, n + 1)
    BY <2>1, <2>2 DEF InOrder
  <2>4. \A u \in Tab : up[u] \in Seq(ClientMsg) /\ tab[u].queue \in Seq(ClientMsg)
    BY <1>2, PageFields
  <2>5. \A u \in Tab : Coming(up[u], u, sess, au, n + 1) /\ Coming(tab[u].queue, u, sess, au, n + 1)
    BY <1>2, <1>8, <2>4 DEF Prompts
  <2> QED
    BY <2>3, <2>5 DEF Prompts
<1>10. ASSUME NEW q \in Seq(ClientMsg), Coming(q, t, sess, author, n)
       PROVE  Follows(m, q, t, sess, au, n + 1)
  <2>1. \A p \in Waiting(q) : p < n + 1
    BY <1>8, <1>10
  <2>2. \A s \in Sid : \A k \in Said(sess[s]) : k.text < n + 1
    BY <1>12
  <2> QED
    BY <1>3, <1>4, <1>6, <2>1, <2>2 DEF Follows
<1>11. Follows(m, up[t], t, sess, au, n + 1) /\ Follows(m, tab[t].queue, t, sess, au, n + 1)
  <2>1. up[t] \in Seq(ClientMsg) /\ tab[t].queue \in Seq(ClientMsg)
    BY <1>2, PageFields
  <2>2. Coming(up[t], t, sess, author, n) /\ Coming(tab[t].queue, t, sess, author, n)
    BY <1>2 DEF Prompts
  <2> QED
    BY <1>10, <2>1, <2>2
<1> HIDE DEF n
<1> QED
  BY <1>1, <1>4, <1>5, <1>6, <1>9, <1>11, SendKeeps

LEMMA NewSessionStep ==
    ASSUME ViewInv, NEW t \in Tab, NewSession(t)
    PROVE  Kept
<1>1. Create \in ClientMsg /\ Create.type # "send_prompt"
  BY DEF Create, ClientMsg
<1>2. Send(t, Create) /\ used' = [used EXCEPT !.creates = @ + 1] /\ author' = author
  BY DEF NewSession
<1> QED
  BY <1>1, <1>2, ClickStep

LEMMA AnswerStep ==
    ASSUME ViewInv, NEW t \in Tab, Answer(t)
    PROVE  Kept
<1> DEFINE p == Head(Modal(tab[t]))
<1>1. /\ Modal(tab[t]) # <<>> /\ Send(t, Respond(p.sid, p.req))
      /\ used' = [used EXCEPT !.clicks = @ + 1] /\ author' = author
  BY DEF Answer
<1>2. tab[t].modals \in Seq(Question)
  BY PageFields DEF ViewInv, Placed
<1>3. Modal(tab[t]) \in Seq(Question)
  BY <1>2, KeepList DEF Modal
<1>4. p \in Question
  BY <1>1, <1>3
<1> HIDE DEF p
<1>5. Respond(p.sid, p.req) \in ClientMsg /\ Respond(p.sid, p.req).type # "send_prompt"
  BY <1>4 DEF Question, Respond, ClientMsg
<1> QED
  BY <1>1, <1>5, ClickStep

LEMMA CancelStep ==
    ASSUME ViewInv, NEW t \in Tab, PressCancel(t)
    PROVE  Kept
<1>1. used' = [used EXCEPT !.clicks = @ + 1] /\ author' = author
  BY DEF PressCancel
<1>2. CASE Pane(t) /\ Send(t, CancelOne(tab[t].active))
  <2>1. tab[t].active \in Sid
    BY <1>2, PageFields DEF ViewInv, Placed, Pane
  <2>2. /\ CancelOne(tab[t].active) \in ClientMsg
        /\ CancelOne(tab[t].active).type # "send_prompt"
    BY <2>1 DEF CancelOne, ClientMsg
  <2> QED
    BY <1>1, <1>2, <2>2, ClickStep
<1>3. CASE Send(t, CancelAll)
  <2>1. CancelAll \in ClientMsg /\ CancelAll.type # "send_prompt"
    BY DEF CancelAll, ClientMsg
  <2> QED
    BY <1>1, <1>3, <2>1, ClickStep
<1> QED
  BY <1>2, <1>3 DEF PressCancel

LEMMA DeleteStep ==
    ASSUME ViewInv, NEW t \in Tab, NEW s \in Sid, PressDelete(t, s)
    PROVE  Kept
<1>1. Delete(s) \in ClientMsg /\ Delete(s).type # "send_prompt"
  BY DEF Delete, ClientMsg
<1>2. Send(t, Delete(s)) /\ used' = [used EXCEPT !.clicks = @ + 1] /\ author' = author
  BY DEF PressDelete
<1> QED
  BY <1>1, <1>2, ClickStep

LEMMA SelectStep ==
    ASSUME ViewInv, NEW t \in Tab, NEW s \in Sid, Select(t, s)
    PROVE  Kept
<1> DEFINE x == tab[t]
           z == [x EXCEPT !.active = s]
<1>1. /\ tab' = [tab EXCEPT ![t] = z]
      /\ UNCHANGED <<sess, alive, open, up, down, used, since, orphans, author>>
  BY DEF Select
<1>2. /\ Placed /\ Truths /\ Prompts(sess, up, tab, author, used.prompts)
      /\ Sound(sess, orphans, used.asks) /\ tab \in [Tab -> Page] /\ x \in Page
  BY DEF ViewInv, Placed
<1>3. z \in Page /\ z.queue = x.queue /\ z.modals = x.modals
      /\ z.sessions = x.sessions /\ z.messages = x.messages
  <2>1. z \in Page
    BY <1>2 DEF Page
  <2>2. z.queue = x.queue /\ z.modals = x.modals
        /\ z.sessions = x.sessions /\ z.messages = x.messages
    BY <1>2, Zenon DEF Page
  <2> QED
    BY <2>1, <2>2
<1> HIDE DEF z
<1>4. tab' \in [Tab -> Page]
      /\ \A u \in Tab : /\ tab'[u].queue = tab[u].queue /\ tab'[u].modals = tab[u].modals
                        /\ ViewOf(tab'[u]) = ViewOf(tab[u])
  <2>1. tab' \in [Tab -> Page] /\ tab'[t] = z /\ \A u \in Tab : u # t => tab'[u] = tab[u]
    BY <1>1, <1>2, <1>3
  <2>2. ViewOf(z) = ViewOf(x)
    BY <1>3 DEF ViewOf
  <2> QED
    BY <1>3, <2>1, <2>2
<1>5. Placed'
  BY <1>1, <1>2, <1>4 DEF Placed
<1>6. Truths'
  <2>1. \A u \in open : u \in Tab
    BY <1>2 DEF Placed
  <2> QED
    BY <1>1, <1>2, <1>4, <2>1 DEF Truths
<1>7. Prompts(sess, up, tab, author, used.prompts)'
  <2>1. Prompts(sess, up, tab', author, used.prompts)
    BY <1>2, <1>4 DEF Prompts
  <2> QED
    BY <1>1, <2>1
<1>8. Sound(sess, orphans, used.asks)'
  BY <1>1, <1>2
<1> QED
  BY <1>1, <1>5, <1>6, <1>7, <1>8, SameHistories DEF ViewInv, Kept

-----------------------------------------------------------------------------
(* The invariant *)

LEMMA InitView == Init => ViewInv
<1> SUFFICES ASSUME Init PROVE ViewInv
  OBVIOUS
<1>1. /\ sess = [s \in Sid |-> FreshSession] /\ alive = TRUE /\ open = {}
      /\ up = [t \in Tab |-> <<>>] /\ down = [t \in Tab |-> <<>>]
      /\ tab = [t \in Tab |-> FreshTab]
      /\ used = [creates |-> 0, prompts |-> 0, says |-> 0, asks |-> 0, clicks |-> 0,
                 faults |-> 0]
      /\ since = [t \in Tab |-> {}] /\ orphans = {}
      /\ author \in [Prompt -> {CHOOSE t \in Tab : TRUE}]
  BY DEF Init
<1>2. /\ FreshSession \in Session /\ FreshSession.history = <<>>
      /\ FreshSession.pending = {} /\ ~FreshSession.made /\ ~FreshSession.live
      /\ FreshSession.queue = <<>> /\ FreshSession.status = "idle" /\ ~FreshSession.busy
      /\ FreshSession.read = 0 /\ FreshSession.same = {}
  BY DEF FreshSession, Session, Status
<1>3. FreshTab \in Page /\ FreshTab.queue = <<>> /\ FreshTab.modals = <<>>
  BY DEF FreshTab, Page, Shown
<1>4. used \in Counts /\ used.asks = 0 /\ used.prompts = 0
  BY <1>1, Numbers DEF Counts
<1>5. Range(<<>>) = {}
  BY EmptyList
<1> HIDE DEF Init
<1>6. Placed
  <2>1. /\ sess \in [Sid -> Session] /\ tab \in [Tab -> Page]
        /\ \A t \in Tab : tab[t] = FreshTab
    BY <1>1, <1>2, <1>3
  <2>2. /\ up \in [Tab -> Seq(ClientMsg)] /\ down \in [Tab -> Seq(ServerMsg)]
        /\ \A t \in Tab : up[t] = <<>> /\ down[t] = <<>>
    BY <1>1
  <2>3. since \in [Tab -> SUBSET (1..used.asks)]
    BY <1>1
  <2>4. author \in [Prompt -> Tab \cup {CHOOSE t \in Tab : TRUE}]
    BY <1>1
  <2> QED
    BY <1>1, <1>3, <1>4, <1>5, <2>1, <2>2, <2>3, <2>4 DEF Placed
<1>7. \A s \in Sid : sess[s] = FreshSession
  BY <1>1
<1>8. Sound(sess, orphans, used.asks)
  <2>1. Numbered(FreshSession)
    BY <1>2 DEF Numbered
  <2>2. \A s \in Sid : SoundOne(FreshSession, s, orphans, used.asks)
    BY <1>2, <2>1 DEF SoundOne
  <2> QED
    BY <1>2, <1>7, <2>2 DEF Sound, Apart
<1>9. Truths
  BY <1>1 DEF Truths
<1>10. Prompts(sess, up, tab, author, used.prompts)
  <2>1. \A s \in Sid : Said(sess[s]) = {}
    BY <1>2, <1>5, <1>7 DEF Said
  <2>2. InOrder(sess, author, used.prompts)
    BY <2>1 DEF InOrder
  <2>3. \A t \in Tab : up[t] = <<>> /\ tab[t].queue = <<>>
    BY <1>1, <1>3
  <2>4. \A t \in Tab : Coming(<<>>, t, sess, author, used.prompts)
    BY ComingNothing
  <2> QED
    BY <2>2, <2>3, <2>4 DEF Prompts
<1> QED
  BY <1>6, <1>8, <1>9, <1>10 DEF ViewInv

LEMMA NextView == ViewInv /\ [Next]_vars => Kept
<1> SUFFICES ASSUME ViewInv, [Next]_vars PROVE Kept
  OBVIOUS
<1>1. CASE Progress
  BY <1>1, BootStep, ConnectStep, ReceivesStep, HandlesStep, RefusesStep DEF Progress
<1>2. CASE AgentStep
  BY <1>2, SaysStep, AsksStep, EndsStep DEF AgentStep
<1>3. CASE HandlesElsewhere
  BY <1>3, ElsewhereStep
<1>4. CASE Fault
  BY <1>4, StoppedStep, BreakStep, ReloadStep DEF Fault
<1>5. CASE \E t \in Tab : UserStep(t)
  BY <1>5, NewSessionStep, TypeStep, AnswerStep, CancelStep, DeleteStep, SelectStep DEF UserStep
<1>6. CASE UNCHANGED vars
  <2>1. UNCHANGED <<sess, alive, open, up, down, tab, used, since, orphans, author>>
    BY <1>6 DEF vars
  <2>2. Placed'
    BY <2>1 DEF ViewInv, Placed
  <2>3. Sound(sess, orphans, used.asks)' /\ Truths'
        /\ Prompts(sess, up, tab, author, used.prompts)'
    BY <2>1 DEF ViewInv, Truths
  <2> QED
    BY <2>1, <2>2, <2>3, SameHistories DEF ViewInv, Kept
<1> QED
  BY <1>1, <1>2, <1>3, <1>4, <1>5, <1>6 DEF Next

\* In every state of the system every connected tab is on its way to a true
\* view, and the prompts on their way follow those that have arrived.
THEOREM ViewInvariant == Spec => []ViewInv
<1>1. ViewInv /\ [Next]_vars => ViewInv'
  BY NextView DEF Kept
<1> QED
  BY InitView, <1>1, PTL DEF Spec

\* The sessions, the sockets and the pages have the types of shared/types.ts,
\* and nothing is on its way where there is no socket.
THEOREM ViewTyped == Spec => []TypeOK
<1>1. ViewInv => TypeOK
  <2> SUFFICES ASSUME ViewInv PROVE TypeOK
    OBVIOUS
  <2>1. /\ sess \in [Sid -> Session] /\ alive \in BOOLEAN /\ open \subseteq Tab
        /\ (open # {} => alive) /\ tab \in [Tab -> Page]
        /\ \A t \in Tab : t \notin open => up[t] = <<>> /\ down[t] = <<>>
    BY DEF ViewInv, Placed
  <2>2. \A s \in Sid : sess[s].live => sess[s].made
    BY DEF ViewInv, Sound, SoundOne
  <2>3. \A s \in Sid : /\ sess[s].status \in Status /\ sess[s].history \in Seq(Msg)
                       /\ sess[s].queue \in Seq(Prompt) /\ sess[s].pending \subseteq Req
    BY <2>1, SessionFields
  <2>4. \A t \in Tab : /\ tab[t].sessions \in [Sid -> Shown]
                       /\ tab[t].active \in Sid \cup {NoSession}
    BY <2>1, PageFields
  <2> QED
    BY <2>1, <2>2, <2>3, <2>4 DEF TypeOK
<1> QED
  BY <1>1, ViewInvariant, PTL

\* A tab that has handled everything has the view it was on its way to.
LEMMA SettledTold ==
    ASSUME ViewInv, NEW t \in Tab, Settled(t)
    PROVE  Told(ViewOf(tab[t]), sess, orphans, since[t], used.asks)
<1>1. t \in open /\ down[t] = <<>>
  BY DEF Settled
<1>2. PICK y \in View : Seen(ViewOf(tab[t]), <<>>, y)
                        /\ Told(y, sess, orphans, since[t], used.asks)
  BY <1>1 DEF ViewInv, Truths
<1>3. ViewOf(tab[t]) \in View
  BY PageFields DEF ViewInv, Placed
<1>4. y = ViewOf(tab[t])
  BY <1>2, <1>3, SeenNothing
<1> QED
  BY <1>2, <1>4

\* However messages, breaks of the socket, stops of the server and clicks in
\* other tabs interleave, a tab that has handled what it was sent shows each
\* session as the server has it, with the whole of its history.
THEOREM SettledTabsAreTrue == Spec => []ShownIsTrue
<1>1. ViewInv => ShownIsTrue
  <2> SUFFICES ASSUME ViewInv, NEW t \in Tab, NEW s \in Sid, Settled(t)
               PROVE  IF sess[s].live
                      THEN /\ tab[t].sessions[s] = sess[s].status
                           /\ IsSuffix(sess[s].history, tab[t].messages[s])
                      ELSE tab[t].sessions[s] # "absent" => s \in orphans
    BY DEF ShownIsTrue
  <2>1. Told(ViewOf(tab[t]), sess, orphans, since[t], used.asks)
    BY SettledTold
  <2>2. ViewOf(tab[t]).sessions = tab[t].sessions /\ ViewOf(tab[t]).messages = tab[t].messages
    BY DEF ViewOf
  <2>3. CASE sess[s].live
    <3>1. /\ tab[t].sessions[s] = sess[s].status
          /\ EndsIn(tab[t].messages[s], sess[s].history)
      BY <2>1, <2>2, <2>3 DEF Told
    <3>2. tab[t].messages \in [Sid -> Seq(Msg)] /\ sess[s].history \in Seq(Msg)
      BY PageFields, SessionFields DEF ViewInv, Placed
    <3>3. tab[t].messages[s] \in Seq(Msg)
      BY <3>2
    <3>4. IsSuffix(sess[s].history, tab[t].messages[s])
      BY <3>1, <3>2, <3>3, EndsInSuffix
    <3> QED
      BY <2>3, <3>1, <3>4
  <2>4. CASE ~sess[s].live
    BY <2>1, <2>2, <2>4 DEF Told
  <2> QED
    BY <2>3, <2>4
<1> QED
  BY <1>1, ViewInvariant, PTL

\* Answers, denials of a cancelled turn and deletions take the modal away in
\* every tab, and nothing else does (index.ts tells all tabs of each).
THEOREM SettledModalsArePending == Spec => []ModalsArePending
<1>1. ViewInv => ModalsArePending
  <2> SUFFICES ASSUME ViewInv, NEW t \in Tab, NEW s \in Sid, Settled(t), NEW r \in since[t]
               PROVE  [sid |-> s, req |-> r] \in Range(tab[t].modals)
                          <=> sess[s].live /\ r \in sess[s].pending
    BY DEF ModalsArePending
  <2>1. Told(ViewOf(tab[t]), sess, orphans, since[t], used.asks)
    BY SettledTold
  <2>2. ViewOf(tab[t]).modals = tab[t].modals
    BY DEF ViewOf
  <2>3. r <= used.asks
    BY Numbers DEF ViewInv, Placed, Counts
  <2> QED
    BY <2>1, <2>2, <2>3 DEF Told
<1> QED
  BY <1>1, ViewInvariant, PTL

\* What a tab queues while its socket is down (ws.ts) reaches a history once
\* at most and in the order typed, whatever breaks in between.
THEOREM PromptsInOrder == Spec => []PromptsArriveOnce
<1>1. ViewInv => PromptsArriveOnce
  <2> SUFFICES ASSUME ViewInv PROVE PromptsArriveOnce
    OBVIOUS
  <2>1. InOrder(sess, author, used.prompts)
    BY DEF ViewInv, Prompts
  <2>2. \A s \in Sid : Bubbles(s) = Said(sess[s])
    BY DEF Bubbles, Said
  <2> QED
    BY <2>1, <2>2 DEF InOrder, PromptsArriveOnce
<1> QED
  BY <1>1, ViewInvariant, PTL

\* Handlers only append to a history; a stop of the server reads it back whole,
\* and in the order it had but for messages of one millisecond.
THEOREM HistoriesAreKept == Spec => HistoryIsKept
<1>1. ViewInv /\ [Next]_vars =>
        [\A s \in Sid : sess'[s].live =>
            LET h == sess[s].history
                g == sess'[s].history
            IN  /\ Range(h) \subseteq Range(g)
                /\ \A m, k \in Range(h) :
                      Before(h, m, k) /\ Before(g, k, m) =>
                          ~alive' /\ (m.n + 1)..k.n \subseteq sess[s].same]_vars
  BY NextView DEF Kept, HistoriesKept
<1> QED
  BY <1>1, ViewInvariant, PTL DEF Spec, HistoryIsKept
=============================================================================
