----------------------- MODULE BrowserRequests_proofs -----------------------
(***************************************************************************)
(* A request of the tab is in one place at a time: it waits for a socket,  *)
(* is on its way to the server, is pending there or has been answered.     *)
(* The invariant says so, and from it follow, for any number of requests   *)
(* and failures, that the server answers once, that what the tab shows and *)
(* does about codex client.json has said before, and that nothing waits    *)
(* for an answer that nobody will give.                                    *)
(***************************************************************************)
EXTENDS BrowserRequests, Lists_proofs, TLAPS

Ask         == [kind : Kind, conn : Conn]
TabType     == [open : BOOLEAN, conn : Conn, queue : Seq(Request), shown : Shown]
PickerType(n) ==
    [open : BOOLEAN, req : 0..n, loading : BOOLEAN,
     listing : [re : 0..n, bad : BOOLEAN], tried : BOOLEAN]
Message     == Answer \cup News
RegType     == [state : {"off", "open", "closing"}, codex : BOOLEAN]
DeviceType  == [on : BOOLEAN, knows : BOOLEAN, loaded : BOOLEAN, trust : BOOLEAN,
                written : BOOLEAN, down : Seq(Request), up : Seq(Ack)]

\* The requests made so far, and the last socket one may be for.
Issued == 1..Len(asked)
Latest == IF tab.open THEN tab.conn ELSE tab.conn + 1

\* The types, without a bound on the answers: that there is one is for Places.
Types ==
    /\ asked \in Seq(Ask) /\ Len(asked) <= MaxRequests
    /\ answers \in [Request -> Nat]
    /\ tab \in TabType
    /\ picker \in PickerType(Len(asked))
    /\ dialog \in {"open", "waiting", "created", "closed"}
    /\ toServer \in Seq(Request)
    /\ toTab \in Seq(Message)
    /\ pending \in Seq(Pending)
    /\ reg \in RegType
    /\ device \in DeviceType
    /\ faults \in 0..MaxFaults

\* A socket is opened after each failure at most.
Sockets ==
    /\ Latest <= faults
    /\ \A r \in Issued : asked[r].conn <= Latest
    /\ tab.open => tab.queue = <<>>
    /\ ~tab.open => toServer = <<>>

\* The bound leaves room for the picker's second try.
SecondTry == picker.open /\ ~picker.tried => Len(asked) < MaxRequests

Shape == Types /\ Sockets /\ SecondTry

-----------------------------------------------------------------------------
(* What the operators do *)

\* What SendRequest does, with the number of the new request.
Sends(n, kind) ==
    /\ n = Len(asked) + 1 /\ n \in Request /\ n \notin Issued
    /\ asked' \in Seq(Ask) /\ Len(asked') = n /\ Issued' = Issued \cup {n}
    /\ asked'[n].kind = kind /\ asked'[n].conn = Latest
    /\ \A r \in Issued : asked'[r] = asked[r]
    /\ tab' \in TabType /\ toServer' \in Seq(Request)
    /\ tab'.open = tab.open /\ tab'.conn = tab.conn /\ tab'.shown = tab.shown
    /\ tab.open =>
          /\ tab'.queue = tab.queue
          /\ Range(toServer') = Range(toServer) \cup {n}
          /\ IsInjective(toServer) /\ n \notin Range(toServer) => IsInjective(toServer')
    /\ ~tab.open =>
          /\ toServer' = toServer
          /\ Range(tab'.queue) = Range(tab.queue) \cup {n}
          /\ IsInjective(tab.queue) /\ n \notin Range(tab.queue) => IsInjective(tab'.queue)

LEMMA SendEffect ==
    ASSUME Types, Sockets, NEW kind \in Kind, SendRequest(kind), Len(asked) < MaxRequests
    PROVE  \E n \in Request : Sends(n, kind) /\ Len(asked') = n
<1> DEFINE n == Len(asked) + 1
           ask == [kind |-> kind, conn |-> Latest]
<1> USE RequestsAssumption
<1>1. n \in Request /\ n \notin Issued /\ n \in Nat
  BY DEF Types, Request, Issued
<1>2. ask \in Ask
  BY DEF Types, Sockets, Latest, TabType, Conn, Ask
<1>3. asked' = Append(asked, ask)
  BY DEF SendRequest, Latest, Types, TabType
<1>4. asked \in Seq(Ask)
  BY DEF Types
<1> HIDE DEF ask
<1>5. /\ asked' \in Seq(Ask) /\ Len(asked') = n
      /\ asked'[n] = ask /\ \A r \in Issued : asked'[r] = asked[r]
  BY <1>2, <1>3, <1>4 DEF Issued
<1>6. Issued' = Issued \cup {n}
  BY <1>4, <1>5 DEF Issued
<1>7. tab \in TabType /\ toServer \in Seq(Request)
  BY DEF Types
<1>8. CASE tab.open
  <2>1. tab' = tab /\ toServer' = Append(toServer, n)
    BY <1>5, <1>8 DEF SendRequest
  <2> HIDE DEF n
  <2>2. /\ toServer' \in Seq(Request)
        /\ Range(toServer') = Range(toServer) \cup {n}
        /\ IsInjective(toServer) /\ n \notin Range(toServer) => IsInjective(toServer')
    BY <1>1, <1>7, <2>1, AppendList
  <2>3. asked'[n].kind = kind /\ asked'[n].conn = Latest
    BY <1>5 DEF ask
  <2>4. Sends(n, kind)
    BY <1>1, <1>5, <1>6, <1>7, <1>8, <2>1, <2>2, <2>3 DEF Sends, n
  <2> QED
    BY <1>1, <1>5, <2>4
<1>9. CASE ~tab.open
  <2> DEFINE q == Append(tab.queue, n)
  <2>1. tab' = [tab EXCEPT !.queue = q] /\ toServer' = toServer
    BY <1>5, <1>9 DEF SendRequest
  <2>2. tab.queue \in Seq(Request)
    BY <1>7 DEF TabType
  <2> HIDE DEF n
  <2>3. /\ q \in Seq(Request)
        /\ Range(q) = Range(tab.queue) \cup {n}
        /\ IsInjective(tab.queue) /\ n \notin Range(tab.queue) => IsInjective(q)
    BY <1>1, <2>2, AppendList
  <2> HIDE DEF q
  <2>4. /\ tab' \in TabType /\ tab'.queue = q
        /\ tab'.open = tab.open /\ tab'.conn = tab.conn /\ tab'.shown = tab.shown
    BY <1>7, <2>1, <2>3 DEF TabType
  <2> QED
    BY <1>1, <1>5, <1>6, <1>7, <1>9, <2>1, <2>3, <2>4 DEF Sends, n, ask
<1> QED
  BY <1>8, <1>9

\* The messages of the server.
LEMMA MessageTypes ==
    /\ \A re \in Request, ok \in BOOLEAN, named \in BOOLEAN :
          /\ Reply(re, ok, named) \in Message
          /\ Reply(re, ok, named).type = "answer"
          /\ Reply(re, ok, named).re = re /\ Reply(re, ok, named).ok = ok
    /\ \A r \in RegType :
          /\ Devices(r) \in Message /\ Devices(r).type = "devices"
          /\ Devices(r).list = "enabled" => r.codex
    /\ \A m \in Message :
          \/ m.type = "answer" /\ m \in Answer
          \/ m.type = "devices" /\ m \in News
<1>1. \A r \in RegType : Info(r) \in Shown /\ (Info(r) = "enabled" => r.codex)
  BY DEF Info, Shown
<1>2. \A r \in RegType :
          /\ Devices(r) \in Message /\ Devices(r).type = "devices"
          /\ Devices(r).list = "enabled" => r.codex
  BY <1>1 DEF Devices, Message, News
<1> QED
  BY <1>2 DEF Reply, Message, Answer, News

\* What Sent does with one message.
LEMMA SentEffect ==
    ASSUME toTab \in Seq(Message), NEW conn, NEW m \in Message
    PROVE  /\ Sent(conn, <<m>>) \in Seq(Message)
           /\ Range(Sent(conn, <<m>>)) =
                 Range(toTab) \cup IF tab.open /\ tab.conn = conn THEN {m} ELSE {}
<1> DEFINE one == <<m>>
<1>1. one \in Seq(Message) /\ Range(one) = {m}
  BY DEF Range
<1> HIDE DEF one
<1>2. toTab \o one \in Seq(Message) /\ Range(toTab \o one) = Range(toTab) \cup {m}
  BY <1>1, ConcatList
<1>3. Sent(conn, one) = IF tab.open /\ tab.conn = conn THEN toTab \o one ELSE toTab
  BY DEF Sent
<1> QED
  BY <1>2, <1>3 DEF one

-----------------------------------------------------------------------------
(* Types: the tab *)

\* What a step of the tab's own does: it makes a request or none, and takes a
\* message or none.
Quiet ==
    /\ UNCHANGED <<asked, toServer>> /\ tab' \in TabType
    /\ tab'.open = tab.open /\ tab'.conn = tab.conn /\ tab'.queue = tab.queue

TabActs ==
    /\ Quiet \/ \E n \in Request, kind \in Kind : Sends(n, kind)
    /\ UNCHANGED <<answers, pending, reg, device, faults>>
    /\ toTab' \in Seq(Message) /\ Range(toTab') \subseteq Range(toTab)

LEMMA PickerGrows ==
    ASSUME NEW n \in Nat, NEW m \in Nat, n <= m, NEW p \in PickerType(n)
    PROVE  p \in PickerType(m)
<1>1. /\ p.req \in 0..m /\ p.listing \in [re : 0..m, bad : BOOLEAN]
      /\ p = [open |-> p.open, req |-> p.req, loading |-> p.loading,
              listing |-> p.listing, tried |-> p.tried]
  BY DEF PickerType
<1> QED
  BY <1>1 DEF PickerType

LEMMA ClosedPicker ==
    ASSUME NEW n \in Nat
    PROVE  Closed \in PickerType(n) /\ ~Closed.open /\ ~Closed.loading
BY DEF Closed, PickerType, Listing, NoRequest

LEMMA TabActsShape ==
    ASSUME Shape, TabActs, picker' \in PickerType(Len(asked')),
           dialog' \in {"open", "waiting", "created", "closed"}, SecondTry'
    PROVE  Shape'
<1> USE RequestsAssumption
<1>1. CASE Quiet
  <2>1. Types'
    BY <1>1 DEF Shape, Types, TabActs, Quiet
  <2>2. Sockets'
    BY <1>1 DEF Shape, Sockets, TabActs, Quiet, Latest, Issued
  <2> QED
    BY <2>1, <2>2 DEF Shape
<1>2. ASSUME NEW n \in Request, NEW kind \in Kind, Sends(n, kind) PROVE Shape'
  <2>1. n <= MaxRequests
    BY DEF Request
  <2>2. Types'
    BY <1>2, <2>1 DEF Shape, Types, TabActs, Sends
  <2>3. Latest' = Latest /\ faults' = faults
    BY <1>2 DEF TabActs, Sends, Latest
  <2>4. Latest \in Nat
    BY DEF Shape, Types, TabType, Latest, Conn
  <2>5. \A r \in Issued' : asked'[r].conn <= Latest
    BY <1>2, <2>4 DEF Shape, Sockets, Sends
  <2>6. /\ tab'.open => tab'.queue = <<>>
        /\ ~tab'.open => toServer' = <<>>
    BY <1>2 DEF Shape, Sockets, Sends
  <2>7. Latest' <= faults'
    BY <2>3 DEF Shape, Sockets
  <2>8. Sockets'
    BY <2>3, <2>5, <2>6, <2>7 DEF Sockets
  <2> QED
    BY <2>2, <2>8 DEF Shape
<1> QED
  BY <1>1, <1>2 DEF TabActs

LEMMA FetchShape ==
    ASSUME Shape, NEW kind \in ListKind, MayAsk, Fetch(kind),
           UNCHANGED <<answers, dialog, toTab, pending, reg, device, faults>>
    PROVE  Shape' /\ TabActs
<1> USE RequestsAssumption
<1>1. kind \in Kind /\ Len(asked) < MaxRequests
  BY DEF Kind, MayAsk, Shape, Types
<1>2. PICK n \in Request : Sends(n, kind) /\ Len(asked') = n
  BY <1>1, SendEffect DEF Fetch, Shape
<1>3. TabActs
  BY <1>1, <1>2 DEF TabActs, Shape, Types
<1>4. n \in Nat /\ Len(asked) \in Nat /\ n = Len(asked) + 1 /\ n < MaxRequests
  BY <1>2 DEF Sends, MayAsk, Shape, Types
<1>5. picker \in PickerType(n)
  BY <1>4, PickerGrows DEF Shape, Types
<1>6. picker' = [picker EXCEPT !.open = TRUE, !.req = n, !.loading = TRUE]
  BY <1>2 DEF Fetch
<1>7. picker' \in PickerType(n)
  <2> DEFINE N == 0..n
             L == [re : N, bad : BOOLEAN]
  <2>1. n \in N
    BY <1>4
  <2> HIDE DEF N, L
  <2>2. picker \in [open : BOOLEAN, req : N, loading : BOOLEAN, listing : L, tried : BOOLEAN]
    BY <1>5 DEF PickerType, N, L
  <2>3. picker' \in [open : BOOLEAN, req : N, loading : BOOLEAN, listing : L, tried : BOOLEAN]
    BY <1>6, <2>1, <2>2
  <2> QED
    BY <2>3 DEF PickerType, N, L
<1>8. SecondTry'
  BY <1>2, <1>4 DEF SecondTry
<1>9. dialog' \in {"open", "waiting", "created", "closed"}
  BY DEF Shape, Types
<1> QED
  BY <1>2, <1>3, <1>7, <1>8, <1>9, TabActsShape

LEMMA CloseShape ==
    ASSUME Shape, picker' = Closed, UNCHANGED <<asked, answers, tab, toServer, toTab,
                                                pending, reg, device, faults>>,
           dialog' \in {"open", "waiting", "created", "closed"}
    PROVE  Shape' /\ TabActs
<1>1. TabActs
  BY DEF TabActs, Quiet, Shape, Types
<1>2. picker' \in PickerType(Len(asked')) /\ ~picker'.open
  BY ClosedPicker DEF Shape, Types
<1>3. SecondTry'
  BY <1>2 DEF SecondTry
<1> QED
  BY <1>1, <1>2, <1>3, TabActsShape

LEMMA SubmitShape ==
    ASSUME Shape, Submit
    PROVE  Shape' /\ TabActs
<1> USE RequestsAssumption
<1>1. /\ UNCHANGED <<answers, picker, toTab, pending, reg, device, faults>>
      /\ dialog' \in {"open", "waiting", "created", "closed"}
      /\ ~picker.open
  BY DEF Submit
<1>2. SecondTry'
  BY <1>1 DEF SecondTry
<1>3. CASE tab.shown = "disabled"
  <2>1. "enable" \in Kind /\ Len(asked) < MaxRequests /\ SendRequest("enable")
    BY <1>3 DEF Kind, MayAsk, Shape, Types, Submit
  <2>2. PICK n \in Request : Sends(n, "enable") /\ Len(asked') = n
    BY <2>1, SendEffect DEF Shape
  <2>3. TabActs
    BY <1>1, <2>1, <2>2 DEF TabActs, Shape, Types
  <2>4. n \in Nat /\ Len(asked) \in Nat /\ n = Len(asked) + 1
    BY <2>2 DEF Sends, Shape, Types
  <2>5. picker' \in PickerType(n)
    BY <1>1, <2>4, PickerGrows DEF Shape, Types
  <2> QED
    BY <1>1, <1>2, <2>2, <2>3, <2>5, TabActsShape
<1>4. CASE tab.shown # "disabled"
  <2>1. UNCHANGED <<asked, tab, toServer>>
    BY <1>4 DEF Submit
  <2>2. TabActs
    BY <1>1, <2>1 DEF TabActs, Quiet, Shape, Types
  <2>3. picker' \in PickerType(Len(asked'))
    BY <1>1, <2>1 DEF Shape, Types
  <2> QED
    BY <1>1, <1>2, <2>2, <2>3, TabActsShape
<1> QED
  BY <1>3, <1>4

\* What a listing does that is not ignored.
LEMMA ListingEffect ==
    ASSUME Shape, NEW m \in Answer, TakeListing(m)
    PROVE  \/ UNCHANGED <<asked, tab, picker, toServer>> /\ (~picker.open \/ m.re # picker.req)
           \/ /\ picker.open /\ m.re = picker.req
              /\ \E n \in Request :
                    /\ Sends(n, "home") /\ Len(asked') = n
                    /\ picker' = [picker EXCEPT !.req = n, !.tried = TRUE, !.loading = TRUE]
           \/ /\ picker.open /\ m.re = picker.req
              /\ UNCHANGED <<asked, tab, toServer>>
              /\ picker' = [picker EXCEPT !.loading = FALSE,
                                          !.listing = Listing(m.re, ~m.ok)]
<1>1. CASE ~picker.open \/ m.re # picker.req
  BY <1>1 DEF TakeListing
<1>2. CASE picker.open /\ m.re = picker.req /\ ~m.ok /\ ~picker.tried /\ m.named
  <2>1. /\ "home" \in Kind /\ Len(asked) < MaxRequests /\ SendRequest("home")
        /\ picker' = [picker EXCEPT !.req = Len(asked'), !.tried = TRUE, !.loading = TRUE]
    BY <1>2 DEF Kind, ListKind, TakeListing, Shape, SecondTry
  <2>2. PICK n \in Request : Sends(n, "home") /\ Len(asked') = n
    BY <2>1, SendEffect DEF Shape
  <2> QED
    BY <1>2, <2>1, <2>2
<1>3. CASE picker.open /\ m.re = picker.req /\ (m.ok \/ picker.tried \/ ~m.named)
  BY <1>3 DEF TakeListing
<1> QED
  BY <1>1, <1>2, <1>3

\* What taking a message does: the device list, a listing, or a result.
Takes(m) ==
    \/ /\ m.type = "devices" /\ tab' = [tab EXCEPT !.shown = m.list]
       /\ UNCHANGED <<asked, picker, dialog, toServer>>
    \/ /\ m.type = "answer" /\ asked[m.re].kind \in ListKind
       /\ TakeListing(m) /\ UNCHANGED dialog
    \/ /\ m.type = "answer" /\ asked[m.re].kind \notin ListKind
       /\ TakeResult(m) /\ UNCHANGED <<asked, tab, toServer>>

LEMMA TakeEffect ==
    ASSUME Shape, TakeMessage
    PROVE  \E m \in Message :
              /\ m \in Range(toTab) /\ Range(toTab) = {m} \cup Range(toTab')
              /\ toTab' \in Seq(Message)
              /\ m.type = "answer" => m \in Answer
              /\ m.type = "devices" => m \in News
              /\ Takes(m)
              /\ UNCHANGED <<answers, pending, reg, device, faults>>
<1> DEFINE m == Head(toTab)
<1>1. toTab \in Seq(Message) /\ toTab # <<>> /\ toTab' = Tail(toTab)
  BY DEF TakeMessage, Shape, Types
<1>2. /\ m \in Message /\ m \in Range(toTab) /\ toTab' \in Seq(Message)
      /\ Range(toTab) = {m} \cup Range(toTab')
  BY <1>1, TailList
<1>3. \/ m.type = "answer" /\ m \in Answer
      \/ m.type = "devices" /\ m \in News
  BY <1>2, MessageTypes
<1>4. Takes(m)
  <2>1. CASE m.type = "devices"
    BY <2>1 DEF TakeMessage, Takes
  <2>2. CASE m.type = "answer" /\ asked[m.re].kind \in ListKind
    BY <2>2 DEF TakeMessage, Takes
  <2>3. CASE m.type = "answer" /\ asked[m.re].kind \notin ListKind
    BY <2>3 DEF TakeMessage, Takes
  <2> QED
    BY <1>3, <2>1, <2>2, <2>3
<1>5. UNCHANGED <<answers, pending, reg, device, faults>>
  BY DEF TakeMessage
<1> QED
  BY <1>2, <1>3, <1>4, <1>5

LEMMA TakeShape ==
    ASSUME Shape, TakeMessage
    PROVE  Shape' /\ TabActs
<1> USE RequestsAssumption
<1>1. PICK m \in Message :
         /\ m \in Range(toTab) /\ Range(toTab) = {m} \cup Range(toTab')
         /\ toTab' \in Seq(Message)
         /\ m.type = "answer" => m \in Answer
         /\ m.type = "devices" => m \in News
         /\ Takes(m)
         /\ UNCHANGED <<answers, pending, reg, device, faults>>
  BY TakeEffect
<1>2. Range(toTab') \subseteq Range(toTab)
  BY <1>1
<1>3. CASE m.type = "devices"
  <2>1. tab' = [tab EXCEPT !.shown = m.list] /\ UNCHANGED <<asked, picker, dialog, toServer>>
    BY <1>1, <1>3 DEF Takes
  <2>2. m.list \in Shown
    BY <1>1, <1>3 DEF News
  <2>3. /\ tab' \in TabType /\ tab'.open = tab.open /\ tab'.conn = tab.conn
        /\ tab'.queue = tab.queue
    BY <2>1, <2>2 DEF Shape, Types, TabType
  <2>4. TabActs
    BY <1>1, <1>2, <2>1, <2>3 DEF TabActs, Quiet
  <2>5. /\ picker' \in PickerType(Len(asked')) /\ SecondTry'
        /\ dialog' \in {"open", "waiting", "created", "closed"}
    BY <2>1 DEF Shape, Types, SecondTry
  <2> QED
    BY <2>4, <2>5, TabActsShape
<1>4. CASE m.type = "answer" /\ asked[m.re].kind \in ListKind
  <2>1. TakeListing(m) /\ dialog' = dialog /\ m \in Answer
    BY <1>1, <1>4 DEF Takes
  <2>2. dialog' \in {"open", "waiting", "created", "closed"} /\ tab \in TabType
    BY <2>1 DEF Shape, Types
  <2>3. CASE UNCHANGED <<asked, tab, picker, toServer>>
    <3>1. TabActs
      BY <1>1, <1>2, <2>2, <2>3 DEF TabActs, Quiet
    <3>2. picker' \in PickerType(Len(asked')) /\ SecondTry'
      BY <2>3 DEF Shape, Types, SecondTry
    <3> QED
      BY <2>2, <3>1, <3>2, TabActsShape
  <2>4. ASSUME NEW n \in Request, Sends(n, "home"), Len(asked') = n,
               picker' = [picker EXCEPT !.req = n, !.tried = TRUE, !.loading = TRUE]
        PROVE  Shape' /\ TabActs
    <3>1. TabActs
      BY <1>1, <1>2, <2>4 DEF TabActs, Kind, ListKind
    <3>2. n \in Nat /\ Len(asked) \in Nat /\ n = Len(asked) + 1
      BY <2>4 DEF Sends, Shape, Types
    <3>3. picker \in PickerType(n)
      BY <3>2, PickerGrows DEF Shape, Types
    <3>4. picker' \in PickerType(n) /\ picker'.tried
      <4> DEFINE N == 0..n
                 L == [re : N, bad : BOOLEAN]
      <4>1. n \in N
        BY <3>2
      <4> HIDE DEF N, L
      <4>2. picker \in [open : BOOLEAN, req : N, loading : BOOLEAN, listing : L, tried : BOOLEAN]
        BY <3>3 DEF PickerType, N, L
      <4>3. /\ picker' \in [open : BOOLEAN, req : N, loading : BOOLEAN, listing : L, tried : BOOLEAN]
            /\ picker'.tried
        BY <2>4, <4>1, <4>2
      <4> QED
        BY <4>3 DEF PickerType, N, L
    <3>5. SecondTry'
      BY <3>4 DEF SecondTry
    <3> QED
      BY <2>2, <2>4, <3>1, <3>4, <3>5, TabActsShape
  <2>5. CASE /\ UNCHANGED <<asked, tab, toServer>> /\ m.re = picker.req
             /\ picker' = [picker EXCEPT !.loading = FALSE,
                                         !.listing = Listing(m.re, ~m.ok)]
    <3>1. TabActs
      BY <1>1, <1>2, <2>2, <2>5 DEF TabActs, Quiet
    <3>2. picker \in PickerType(Len(asked))
      BY DEF Shape, Types
    <3>3. Listing(m.re, ~m.ok) \in [re : 0..Len(asked), bad : BOOLEAN]
      BY <2>1, <2>5, <3>2 DEF Listing, PickerType, Answer
    <3>4. picker' \in PickerType(Len(asked))
          /\ picker'.open = picker.open /\ picker'.tried = picker.tried
      BY <2>5, <3>2, <3>3 DEF PickerType
    <3>5. SecondTry'
      BY <2>5, <3>4 DEF Shape, SecondTry
    <3> QED
      BY <2>2, <2>5, <3>1, <3>4, <3>5, TabActsShape
  <2> QED
    BY <2>1, <2>3, <2>4, <2>5, ListingEffect
<1>5. CASE m.type = "answer" /\ asked[m.re].kind \notin ListKind
  <2>1. TakeResult(m) /\ UNCHANGED <<asked, tab, toServer>>
    BY <1>1, <1>5 DEF Takes
  <2>2. TabActs
    BY <1>1, <1>2, <2>1 DEF TabActs, Quiet, Shape, Types
  <2>3. picker' \in PickerType(Len(asked')) /\ SecondTry'
    BY <2>1, ClosedPicker DEF TakeResult, Shape, Types, SecondTry
  <2>4. dialog' \in {"open", "waiting", "created", "closed"}
    BY <2>1 DEF TakeResult, Shape, Types
  <2> QED
    BY <2>2, <2>3, <2>4, TabActsShape
<1> QED
  BY <1>1, <1>3, <1>4, <1>5, MessageTypes

-----------------------------------------------------------------------------
(* Types: the server, the daemon and the sockets *)

LEMMA ServerShape ==
    ASSUME Shape, UNCHANGED <<asked, picker, dialog>>,
           answers' \in [Request -> Nat], tab' \in TabType, toServer' \in Seq(Request),
           toTab' \in Seq(Message), pending' \in Seq(Pending), reg' \in RegType,
           device' \in DeviceType, faults' \in 0..MaxFaults,
           Latest <= Latest', Latest' <= faults',
           tab'.open => tab'.queue = <<>>, ~tab'.open => toServer' = <<>>
    PROVE  Shape'
<1> USE RequestsAssumption
<1>1. Types'
  BY DEF Shape, Types
<1>2. Latest \in Nat /\ Latest' \in Nat
  <2>1. ASSUME NEW t \in TabType PROVE t.open \in BOOLEAN /\ t.conn \in Nat
    BY DEF TabType, Conn
  <2>2. tab \in TabType
    BY DEF Shape, Types
  <2> QED
    BY <2>1, <2>2 DEF Latest
<1>3. \A r \in Issued' : asked'[r].conn <= Latest'
  <2> TAKE r \in Issued'
  <2>1. asked \in Seq(Ask) /\ r \in 1..Len(asked) /\ asked[r].conn <= Latest
    BY DEF Shape, Types, Sockets, Issued
  <2>2. asked[r] \in Ask
    BY <2>1
  <2>3. asked[r].conn \in Nat
    BY <2>2 DEF Ask, Conn
  <2> QED
    BY <1>2, <2>1, <2>3
<1>4. Sockets'
  BY <1>3 DEF Sockets
<1> QED
  BY <1>1, <1>4 DEF Shape, SecondTry

\* The same for the steps that leave the tab's socket alone.
LEMMA ServerShapeStill ==
    ASSUME Shape, UNCHANGED <<asked, picker, dialog, tab, faults>>,
           answers' \in [Request -> Nat], toServer' \in Seq(Request),
           ~tab.open => toServer' = <<>>,
           toTab' \in Seq(Message), pending' \in Seq(Pending), reg' \in RegType,
           device' \in DeviceType
    PROVE  Shape'
<1> USE RequestsAssumption
<1>1. Latest' = Latest /\ Latest \in Nat /\ Latest <= faults
  <2>1. tab' = tab /\ tab \in TabType /\ Latest <= faults
    BY DEF Shape, Types, Sockets
  <2>2. tab.open \in BOOLEAN /\ tab.conn \in Nat
    BY <2>1 DEF TabType, Conn
  <2> QED
    BY <2>1, <2>2 DEF Latest
<1>2. tab' \in TabType /\ faults' \in 0..MaxFaults /\ Latest <= Latest' /\ Latest' <= faults'
  BY <1>1 DEF Shape, Types
<1>3. tab'.open => tab'.queue = <<>>
  BY DEF Shape, Sockets
<1> QED
  BY <1>2, <1>3, ServerShape

\* A request that is forwarded is pending and on its way to the daemon, one
\* that is not is answered.
Handles(r) ==
    /\ toServer \in Seq(Request) /\ toServer # <<>>
    /\ toServer' \in Seq(Request) /\ Range(toServer) = {r} \cup Range(toServer')
    /\ IsInjective(toServer) => IsInjective(toServer') /\ r \notin Range(toServer')
    /\ \/ /\ pending' = Append(pending, [re |-> r, conn |-> tab.conn, due |-> FALSE])
          /\ UNCHANGED <<answers, toTab>>
          /\ device' \in DeviceType
          /\ device'.trust = device.trust /\ device'.loaded = device.loaded
          /\ device'.written = device.written
          /\ device'.up = device.up
          /\ Range(device'.down) \subseteq Range(device.down) \cup {r}
       \/ /\ answers' = [answers EXCEPT ![r] = answers[r] + 1]
          /\ UNCHANGED <<pending, device>>
          /\ toTab' \in Seq(Message)
          /\ \E m \in Message :
                /\ m.type = "answer" /\ m.re = r /\ ~m.ok
                /\ Range(toTab') = Range(toTab) \cup IF tab.open THEN {m} ELSE {}
    /\ UNCHANGED <<asked, tab, picker, dialog, reg, faults>>

LEMMA HandleEffect ==
    ASSUME Shape, HandleRequest
    PROVE  \E r \in Request : Handles(r)
<1> DEFINE r == Head(toServer)
<1>1. /\ toServer \in Seq(Request) /\ toServer # <<>> /\ toServer' = Tail(toServer)
      /\ UNCHANGED <<asked, tab, picker, dialog, reg, faults>>
  BY DEF HandleRequest, Shape, Types
<1>2. /\ r \in Request /\ toServer' \in Seq(Request) /\ Range(toServer) = {r} \cup Range(toServer')
      /\ IsInjective(toServer) => IsInjective(toServer') /\ r \notin Range(toServer')
  BY <1>1, TailList
<1>3. CASE reg.state = "open"
  <2>1. /\ pending' = Append(pending, [re |-> r, conn |-> tab.conn, due |-> FALSE])
        /\ device' = [device EXCEPT !.down = IF device.on THEN Append(device.down, r)
                                             ELSE device.down]
        /\ UNCHANGED <<answers, toTab>>
    BY <1>3 DEF HandleRequest
  <2>2. device \in DeviceType /\ device.down \in Seq(Request)
    BY DEF Shape, Types, DeviceType
  <2> HIDE DEF r
  <2>3. /\ Append(device.down, r) \in Seq(Request)
        /\ Range(Append(device.down, r)) = Range(device.down) \cup {r}
    BY <1>2, <2>2, AppendList
  <2> DEFINE d == IF device.on THEN Append(device.down, r) ELSE device.down
  <2>4. d \in Seq(Request) /\ Range(d) \subseteq Range(device.down) \cup {r}
    BY <2>2, <2>3
  <2>5. device' = [device EXCEPT !.down = d]
    BY <2>1
  <2> HIDE DEF d
  <2>6. /\ device' \in DeviceType
        /\ device'.trust = device.trust /\ device'.loaded = device.loaded
        /\ device'.written = device.written
        /\ device'.up = device.up /\ device'.down = d
    BY <2>2, <2>4, <2>5 DEF DeviceType
  <2> QED
    BY <1>1, <1>2, <2>1, <2>4, <2>6 DEF Handles
<1>4. CASE reg.state # "open"
  <2> DEFINE m == Reply(r, FALSE, asked[r].kind = "dir")
  <2>1. /\ answers' = [answers EXCEPT ![r] = answers[r] + 1]
        /\ toTab' = Sent(tab.conn, <<m>>)
        /\ UNCHANGED <<pending, device>>
    BY <1>4 DEF HandleRequest
  <2>2. m \in Message /\ m.type = "answer" /\ m.re = r /\ ~m.ok
    BY <1>2, MessageTypes
  <2> HIDE DEF r, m
  <2>3. toTab \in Seq(Message)
    BY DEF Shape, Types
  <2>4. toTab' \in Seq(Message) /\ Range(toTab') = Range(toTab) \cup IF tab.open THEN {m} ELSE {}
    BY <2>1, <2>2, <2>3, SentEffect
  <2> QED
    BY <1>1, <1>2, <2>1, <2>2, <2>4 DEF Handles
<1> QED
  BY <1>3, <1>4

LEMMA HandleShape ==
    ASSUME Shape, NEW r \in Request, Handles(r)
    PROVE  Shape'
<1>1. /\ answers \in [Request -> Nat] /\ pending \in Seq(Pending) /\ device \in DeviceType
      /\ toTab \in Seq(Message) /\ reg \in RegType /\ tab \in TabType
  BY DEF Shape, Types
<1>2. [re |-> r, conn |-> tab.conn, due |-> FALSE] \in Pending
  BY <1>1 DEF TabType, Pending
<1>3. [answers EXCEPT ![r] = answers[r] + 1] \in [Request -> Nat]
  BY <1>1
<1>4. answers' \in [Request -> Nat] /\ pending' \in Seq(Pending)
  <2> DEFINE q == [re |-> r, conn |-> tab.conn, due |-> FALSE]
  <2> HIDE DEF q
  <2>1. Append(pending, q) \in Seq(Pending)
    BY <1>1, <1>2 DEF q
  <2>2. CASE UNCHANGED answers /\ pending' = Append(pending, q)
    BY <1>1, <2>1, <2>2
  <2>3. CASE UNCHANGED pending /\ answers' = [answers EXCEPT ![r] = answers[r] + 1]
    BY <1>1, <1>3, <2>3
  <2> QED
    BY <2>2, <2>3 DEF Handles, q
<1>5. ~tab.open => FALSE
  BY DEF Handles, Shape, Sockets
<1>6. /\ UNCHANGED <<asked, picker, dialog, tab, faults>> /\ reg' \in RegType
      /\ toServer' \in Seq(Request) /\ toTab' \in Seq(Message) /\ device' \in DeviceType
  BY <1>1 DEF Handles
<1> QED
  BY <1>4, <1>5, <1>6, ServerShapeStill

\* No two requests in the map are the same.
Distinct(s) == \A i, j \in 1..Len(s) : s[i].re = s[j].re => i = j

LEMMA DistinctAppend ==
    ASSUME NEW s \in Seq(Pending), NEW x \in Pending, Distinct(s),
           \A p \in Range(s) : p.re # x.re
    PROVE  Distinct(Append(s, x))
<1> DEFINE l == Append(s, x)
           n == Len(s)
<1>1. /\ n \in Nat /\ Len(l) = n + 1 /\ l[n + 1] = x
      /\ \A i \in 1..n : l[i] = s[i] /\ s[i] \in Range(s)
  BY DEF Range
<1> HIDE DEF l, n
<1>2. \A k \in 1..(n + 1) : k \in 1..n \/ k = n + 1
  BY <1>1
<1>3. ASSUME NEW i \in 1..(n + 1), NEW j \in 1..(n + 1), l[i].re = l[j].re PROVE i = j
  <2>1. CASE i \in 1..n /\ j \in 1..n
    BY <1>1, <1>3, <2>1 DEF Distinct, n
  <2>2. CASE i = n + 1 \/ j = n + 1
    BY <1>1, <1>2, <1>3, <2>2
  <2> QED
    BY <1>2, <2>1, <2>2
<1> QED
  BY <1>1, <1>3 DEF Distinct, l

LEMMA DistinctKeep ==
    ASSUME NEW s \in Seq(Pending), NEW S, Distinct(s)
    PROVE  Distinct(Keep(s, S))
<1> DEFINE t == Keep(s, S)
<1>1. PICK h : Places(s, S, Len(s), t, h)
  BY KeepHasPlaces
<1>2. t \in Seq(Pending)
  BY KeepHasPlaces
<1> HIDE DEF t
<1>3. \A k \in 1..Len(t) : h[k] \in 1..Len(s) /\ t[k] = s[h[k]]
  BY <1>1 DEF Places
<1>4. ASSUME NEW j \in 1..Len(t), NEW k \in 1..Len(t), t[j].re = t[k].re PROVE j = k
  <2>1. h[j] = h[k] /\ h[j] \in Int
    BY <1>3, <1>4 DEF Distinct
  <2>2. ~(h[j] < h[k]) /\ ~(h[k] < h[j])
    BY <2>1
  <2> QED
    BY <1>1, <1>2, <2>2 DEF Places
<1>5. Distinct(t)
  BY <1>4 DEF Distinct
<1> QED
  BY <1>5 DEF t

PendingRes == {p.re : p \in Range(pending)}

\* The daemon has enabled codex and its answer has not been read.
Granted == \E a \in Range(device.up) : a.ok /\ asked[a.re].kind = "enable"

\* The pending requests in R are answered and leave their map.
Answers(R) ==
    /\ R \subseteq PendingRes
    /\ pending' \in Seq(Pending) /\ Distinct(pending')
    /\ Range(pending') = {p \in Range(pending) : p.re \notin R}
    /\ answers' = [r \in Request |-> IF r \in R THEN answers[r] + 1 ELSE answers[r]]
    /\ toTab' \in Seq(Message) /\ Range(toTab) \subseteq Range(toTab')
    /\ \A m \in Range(toTab') \ Range(toTab) :
          \/ /\ m.type = "answer" /\ m.re \in R
             /\ m.ok /\ asked[m.re].kind = "enable" => Granted
          \/ m.type = "devices" /\ (m.list = "enabled" => reg'.codex)
    /\ \A p \in Range(pending) :
          p.re \in R /\ tab.open /\ p.conn = tab.conn
             => \E m \in Range(toTab') : m.type = "answer" /\ m.re = p.re
    /\ reg' \in RegType /\ (reg'.codex => reg.codex \/ Granted)
    /\ device' \in DeviceType
    /\ device'.trust = device.trust /\ device'.loaded = device.loaded
    /\ device'.written = device.written
    /\ device'.down = device.down /\ Range(device'.up) \subseteq Range(device.up)
    /\ UNCHANGED <<asked, tab, picker, dialog, toServer, faults>>

LEMMA AnswersShape ==
    ASSUME Shape, NEW R, Answers(R)
    PROVE  Shape'
<1>1. answers \in [Request -> Nat] /\ toServer \in Seq(Request)
  BY DEF Shape, Types
<1>2. answers' \in [Request -> Nat]
  BY <1>1 DEF Answers
<1>3. ~tab.open => toServer' = <<>>
  BY DEF Answers, Shape, Sockets
<1>4. /\ UNCHANGED <<asked, picker, dialog, tab, faults>> /\ reg' \in RegType
      /\ toServer' \in Seq(Request) /\ toTab' \in Seq(Message) /\ device' \in DeviceType
      /\ pending' \in Seq(Pending)
  BY <1>1 DEF Answers
<1> QED
  BY <1>2, <1>3, <1>4, ServerShapeStill

LEMMA AnswerEffect ==
    ASSUME Shape, Distinct(pending), NEW p \in Range(pending), NEW a \in Range(device.up),
           p.re = a.re, AnswerPending(p, a),
           device' \in DeviceType,
           device'.trust = device.trust, device'.loaded = device.loaded,
           device'.written = device.written,
           device'.down = device.down, Range(device'.up) \subseteq Range(device.up),
           UNCHANGED <<asked, tab, picker, dialog, toServer, faults>>
    PROVE  Answers({p.re})
<1> DEFINE enabled == asked[p.re].kind = "enable" /\ a.ok
           told == IF enabled THEN Sent(tab.conn, <<Devices(reg')>>) ELSE toTab
           m == Reply(p.re, a.ok, a.named)
<1>1. /\ pending \in Seq(Pending) /\ device.up \in Seq(Ack) /\ reg \in RegType
      /\ toTab \in Seq(Message) /\ answers \in [Request -> Nat]
  BY DEF Shape, Types, DeviceType
<1>2. p \in Pending /\ a \in Ack
  BY <1>1, ListRange
<1>3. m \in Message /\ m.type = "answer" /\ m.re = p.re /\ m.ok = a.ok
  BY <1>2, MessageTypes DEF Pending, Ack
<1>4. /\ pending' = Without(pending, p.re)
      /\ answers' = [answers EXCEPT ![p.re] = answers[p.re] + 1]
      /\ reg' = IF enabled /\ reg.state # "off" THEN [reg EXCEPT !.codex = TRUE] ELSE reg
      /\ toTab' = IF tab.open /\ tab.conn = p.conn THEN Append(told, m) ELSE told
  BY DEF AnswerPending
<1>5. enabled => Granted
  BY DEF Granted
<1>6. reg' \in RegType /\ (reg'.codex => reg.codex \/ Granted)
  <2> HIDE DEF enabled
  <2>1. [reg EXCEPT !.codex = TRUE] \in RegType
    BY <1>1 DEF RegType
  <2> QED
    BY <1>1, <1>4, <1>5, <2>1
<1>7. Devices(reg') \in Message /\ Devices(reg').type = "devices"
      /\ (Devices(reg').list = "enabled" => reg'.codex)
  BY <1>6, MessageTypes
<1>8. /\ told \in Seq(Message) /\ Range(toTab) \subseteq Range(told)
      /\ Range(told) \subseteq Range(toTab) \cup {Devices(reg')}
  BY <1>1, <1>7, SentEffect
<1> HIDE DEF told, m
<1>9. /\ toTab' \in Seq(Message) /\ Range(toTab) \subseteq Range(toTab')
      /\ Range(toTab') \subseteq Range(toTab) \cup {Devices(reg'), m}
      /\ tab.open /\ p.conn = tab.conn => m \in Range(toTab')
  <2>1. Append(told, m) \in Seq(Message) /\ Range(Append(told, m)) = Range(told) \cup {m}
    BY <1>3, <1>8, AppendList
  <2> QED
    BY <1>4, <1>8, <2>1
<1>10. /\ pending' \in Seq(Pending) /\ Distinct(pending')
       /\ Range(pending') = {q \in Range(pending) : q.re \notin {p.re}}
  <2> DEFINE S == {q \in Range(pending) : q.re # p.re}
  <2>1. /\ Keep(pending, S) \in Seq(Pending) /\ Distinct(Keep(pending, S))
        /\ Range(Keep(pending, S)) = Range(pending) \cap S
    BY <1>1, KeepList, DistinctKeep
  <2>2. pending' = Keep(pending, S)
    BY <1>4 DEF Without
  <2>3. Range(pending) \cap S = {q \in Range(pending) : q.re \notin {p.re}}
    OBVIOUS
  <2> HIDE DEF S
  <2> QED
    BY <2>1, <2>2, <2>3
<1>11. answers' = [r \in Request |-> IF r \in {p.re} THEN answers[r] + 1 ELSE answers[r]]
  BY <1>1, <1>4
<1>12. \A q \in Range(pending) :
          q.re \in {p.re} /\ tab.open /\ q.conn = tab.conn
             => \E x \in Range(toTab') : x.type = "answer" /\ x.re = q.re
  <2> SUFFICES ASSUME NEW q \in Range(pending), q.re = p.re, tab.open, q.conn = tab.conn
               PROVE  \E x \in Range(toTab') : x.type = "answer" /\ x.re = q.re
    OBVIOUS
  <2>1. q = p
    BY <1>1, ListRange DEF Distinct
  <2> QED
    BY <1>3, <1>9, <2>1
<1>13. \A x \in Range(toTab') \ Range(toTab) :
          \/ /\ x.type = "answer" /\ x.re \in {p.re}
             /\ x.ok /\ asked[x.re].kind = "enable" => Granted
          \/ x.type = "devices" /\ (x.list = "enabled" => reg'.codex)
  BY <1>3, <1>5, <1>7, <1>9
<1>14. {p.re} \subseteq PendingRes
  BY DEF PendingRes
<1> HIDE DEF enabled
<1> QED
  BY <1>6, <1>9, <1>10, <1>11, <1>12, <1>13, <1>14 DEF Answers

LEMMA ReceiveEffect ==
    ASSUME Shape, Distinct(pending), ReceiveAck
    PROVE  \E R : Answers(R)
<1> DEFINE a == Head(device.up)
<1>1. /\ device \in DeviceType /\ device.up \in Seq(Ack) /\ device.up # <<>>
      /\ device' = [device EXCEPT !.up = Tail(device.up)]
      /\ UNCHANGED <<asked, tab, picker, dialog, toServer, faults>>
  BY DEF ReceiveAck, Shape, Types, DeviceType
<1>2. /\ Tail(device.up) \in Seq(Ack) /\ a \in Range(device.up)
      /\ Range(Tail(device.up)) \subseteq Range(device.up)
  BY <1>1, TailList
<1> DEFINE l == Tail(device.up)
<1> HIDE DEF l
<1>3. /\ device' \in DeviceType /\ device'.up = l
      /\ device'.trust = device.trust /\ device'.loaded = device.loaded
      /\ device'.written = device.written
      /\ device'.down = device.down
  BY <1>1, <1>2 DEF DeviceType, l
<1>4. Range(device'.up) \subseteq Range(device.up)
  BY <1>2, <1>3 DEF l
<1>5. CASE \E p \in Range(pending) : p.re = a.re
  <2>1. PICK p \in Range(pending) : p.re = a.re /\ AnswerPending(p, a)
    BY <1>5 DEF ReceiveAck
  <2> HIDE DEF a
  <2>2. Answers({p.re})
    BY <1>1, <1>2, <1>3, <1>4, <2>1, AnswerEffect
  <2> QED
    BY <2>2
<1>6. CASE ~\E p \in Range(pending) : p.re = a.re
  <2>1. UNCHANGED <<pending, answers, reg, toTab>>
    BY <1>6 DEF ReceiveAck
  <2>2. /\ pending \in Seq(Pending) /\ answers \in [Request -> Nat]
        /\ toTab \in Seq(Message) /\ reg \in RegType
    BY DEF Shape, Types
  <2>3. answers' = [r \in Request |-> IF r \in {} THEN answers[r] + 1 ELSE answers[r]]
    BY <2>1, <2>2
  <2>4. Range(pending') = {p \in Range(pending) : p.re \notin {}}
    BY <2>1
  <2>5. Distinct(pending') /\ Range(toTab') = Range(toTab)
    BY <2>1
  <2>6. Answers({})
    BY <1>1, <1>3, <1>4, <2>1, <2>2, <2>3, <2>4, <2>5 DEF Answers
  <2> QED
    BY <2>6
<1> QED
  BY <1>5, <1>6

LEMMA SweepEffect ==
    ASSUME Shape, Distinct(pending), NEW kinds, Sweep(kinds)
    PROVE  \E R : Answers(R)
<1> DEFINE over  == {p \in Range(pending) : p.due /\ asked[p.re].kind \in kinds}
           heard == {p \in over : tab.open /\ p.conn = tab.conn}
           mine  == Keep(pending, heard)
           R     == {p.re : p \in over}
           said(p) == Reply(p.re, FALSE, asked[p.re].kind = "dir")
           more  == [i \in DOMAIN mine |-> said(mine[i])]
<1>1. /\ pending' = Keep(pending, Range(pending) \ over)
      /\ answers' = [r \in Request |->
                        IF \E p \in over : p.re = r THEN answers[r] + 1 ELSE answers[r]]
      /\ toTab' = toTab \o more
      /\ UNCHANGED <<asked, tab, picker, dialog, toServer, reg, device, faults>>
  BY DEF Sweep
<1>2. /\ pending \in Seq(Pending) /\ toTab \in Seq(Message) /\ reg \in RegType
      /\ device \in DeviceType
  BY DEF Shape, Types
<1>3. /\ pending' \in Seq(Pending) /\ Distinct(pending')
      /\ Range(pending') = Range(pending) \cap (Range(pending) \ over)
  BY <1>1, <1>2, KeepList, DistinctKeep
<1>4. \A p, q \in Range(pending) : p.re = q.re => p = q
  BY <1>2, ListRange DEF Distinct
<1>5. Range(pending') = {p \in Range(pending) : p.re \notin R}
  <2>1. \A p \in Range(pending) : p \in over <=> p.re \in R
    BY <1>4
  <2> HIDE DEF over, R
  <2> QED
    BY <1>3, <2>1
<1>6. /\ mine \in Seq(Pending) /\ Range(mine) = Range(pending) \cap heard
  BY <1>2, KeepList
<1>7. \A p \in Pending : /\ said(p) \in Message /\ said(p).type = "answer"
                         /\ said(p).re = p.re /\ ~said(p).ok
  BY MessageTypes DEF Pending
<1>8. heard \subseteq over /\ over \subseteq Range(pending)
  OBVIOUS
<1>9. answers' = [r \in Request |-> IF r \in R THEN answers[r] + 1 ELSE answers[r]]
  <2>1. \A r : (\E p \in over : p.re = r) <=> r \in R
    OBVIOUS
  <2> HIDE DEF over, R
  <2> QED
    BY <1>1, <2>1
<1>10. R \subseteq PendingRes
  BY DEF PendingRes
<1>11. \A p \in over : p.re \in R
  OBVIOUS
<1>12. \A p \in Range(pending) : p.re \in R /\ tab.open /\ p.conn = tab.conn => p \in heard
  BY <1>4
<1> HIDE DEF over, heard, mine, R, said
<1>13. /\ more \in Seq(Message)
       /\ Range(more) = {said(p) : p \in heard}
  <2>1. DOMAIN mine = 1..Len(mine) /\ Len(mine) \in Nat /\ Range(mine) = heard
    BY <1>6, <1>8, ListRange
  <2>2. \A i \in 1..Len(mine) : mine[i] \in heard
    BY <2>1 DEF Range
  <2>3. heard \subseteq Pending
    BY <1>2, <1>8, ListRange
  <2>4. more \in Seq(Message)
    <3>1. \A i \in 1..Len(mine) : said(mine[i]) \in Message
      BY <1>7, <2>2, <2>3
    <3>2. more \in [1..Len(mine) -> Message]
      BY <2>1, <3>1
    <3> QED
      BY <2>1, <3>2
  <2>5. Range(more) = {said(p) : p \in heard}
    <3>1. ASSUME NEW y \in Range(more) PROVE y \in {said(p) : p \in heard}
      BY <2>1, <2>2, <3>1 DEF Range
    <3>2. ASSUME NEW p \in heard PROVE said(p) \in Range(more)
      <4>1. PICK i \in DOMAIN mine : mine[i] = p
        BY <2>1 DEF Range
      <4> QED
        BY <4>1 DEF Range
    <3> QED
      BY <3>1, <3>2
  <2> QED
    BY <2>4, <2>5
<1> HIDE DEF more
<1>14. /\ toTab' \in Seq(Message) /\ Range(toTab') = Range(toTab) \cup Range(more)
  BY <1>1, <1>2, <1>13, ConcatList
<1>15. \A p \in heard : p \in Pending /\ p.re \in R
  BY <1>2, <1>8, <1>11, ListRange
<1>16. \A m \in Range(toTab') \ Range(toTab) : m.type = "answer" /\ m.re \in R /\ ~m.ok
  BY <1>7, <1>13, <1>14, <1>15
<1>17. \A p \in Range(pending) :
          p.re \in R /\ tab.open /\ p.conn = tab.conn
             => \E m \in Range(toTab') : m.type = "answer" /\ m.re = p.re
  BY <1>7, <1>12, <1>13, <1>14, <1>15
<1>18. Answers(R)
  BY <1>1, <1>2, <1>3, <1>5, <1>9, <1>10, <1>14, <1>16, <1>17 DEF Answers
<1> QED
  BY <1>18

\* A pending request falls due, which changes neither its number nor its socket.
Ages ==
    /\ pending' \in Seq(Pending) /\ Len(pending') = Len(pending)
    /\ \A k \in 1..Len(pending) :
          pending'[k].re = pending[k].re /\ pending'[k].conn = pending[k].conn
    /\ UNCHANGED <<asked, answers, tab, picker, dialog, toServer, toTab, reg, device, faults>>

LEMMA AgesShape ==
    ASSUME Shape, FallDue
    PROVE  Shape' /\ Ages
<1>1. PICK i \in DOMAIN pending : pending' = [pending EXCEPT ![i].due = TRUE]
  BY DEF FallDue
<1>2. UNCHANGED <<asked, answers, tab, picker, dialog, toServer, toTab, reg, device, faults>>
  BY DEF FallDue
<1>3. pending \in Seq(Pending)
  BY DEF Shape, Types
<1> DEFINE p == [pending[i] EXCEPT !.due = TRUE]
<1>4. pending[i] \in Pending /\ DOMAIN pending = 1..Len(pending)
  BY <1>3
<1>5. p \in Pending /\ p.re = pending[i].re /\ p.conn = pending[i].conn
  BY <1>4 DEF Pending
<1>6. pending' = [pending EXCEPT ![i] = p]
  BY <1>1
<1> HIDE DEF p
<1>7. pending' \in Seq(Pending) /\ Len(pending') = Len(pending)
  BY <1>3, <1>4, <1>5, <1>6
<1>8. \A k \in 1..Len(pending) : pending'[k] = IF k = i THEN p ELSE pending[k]
  BY <1>3, <1>4, <1>6
<1>9. Ages
  BY <1>2, <1>5, <1>7, <1>8 DEF Ages
<1>10. Shape'
  <2>1. /\ answers' \in [Request -> Nat] /\ toServer' \in Seq(Request)
        /\ toTab' \in Seq(Message) /\ reg' \in RegType /\ device' \in DeviceType
    BY <1>2 DEF Shape, Types
  <2>2. ~tab.open => toServer' = <<>>
    BY <1>2 DEF Shape, Sockets
  <2> QED
    BY <1>2, <1>7, <2>1, <2>2, ServerShapeStill
<1> QED
  BY <1>9, <1>10

\* The registry changes and the tab may be told.
Tells ==
    /\ reg' \in RegType /\ (reg'.codex => reg.codex \/ device.loaded \/ device.trust)
    /\ toTab' \in Seq(Message) /\ Range(toTab) \subseteq Range(toTab')
    /\ \A m \in Range(toTab') \ Range(toTab) :
          m.type = "devices" /\ (m.list = "enabled" => reg'.codex)
    /\ device' \in DeviceType
    /\ device'.trust = device.trust /\ device'.written = device.written
    /\ device'.loaded => device.loaded \/ device.trust
    /\ device'.down = device.down /\ device'.up = device.up
    /\ UNCHANGED <<asked, answers, tab, picker, dialog, toServer, pending, faults>>

LEMMA TellsShape ==
    ASSUME Shape, Tells
    PROVE  Shape'
<1>1. /\ UNCHANGED <<asked, picker, dialog, tab, faults>>
      /\ answers' \in [Request -> Nat] /\ toServer' \in Seq(Request)
      /\ toTab' \in Seq(Message) /\ reg' \in RegType /\ device' \in DeviceType
      /\ pending' \in Seq(Pending)
  BY DEF Shape, Types, Tells
<1>2. ~tab.open => toServer' = <<>>
  BY DEF Shape, Sockets, Tells
<1> QED
  BY <1>1, <1>2, ServerShapeStill

LEMMA ToldEffect ==
    ASSUME Shape, NEW r \in RegType, Told(r)
    PROVE  /\ reg' = r /\ toTab' \in Seq(Message) /\ Range(toTab) \subseteq Range(toTab')
           /\ \A m \in Range(toTab') \ Range(toTab) :
                 m.type = "devices" /\ (m.list = "enabled" => reg'.codex)
<1> DEFINE m == Devices(r)
<1>1. m \in Message /\ m.type = "devices" /\ (m.list = "enabled" => r.codex)
  BY MessageTypes
<1>2. reg' = r /\ toTab' = Sent(tab.conn, <<m>>)
  BY DEF Told
<1> HIDE DEF m
<1>3. toTab \in Seq(Message)
  BY DEF Shape, Types
<1>4. /\ toTab' \in Seq(Message)
      /\ Range(toTab') = Range(toTab) \cup IF tab.open /\ tab.conn = tab.conn THEN {m} ELSE {}
  BY <1>1, <1>2, <1>3, SentEffect
<1> QED
  BY <1>1, <1>2, <1>4

LEMMA NoticeEffect ==
    ASSUME Shape, NoticeLeft
    PROVE  Tells
<1>1. /\ reg \in RegType /\ device \in DeviceType /\ toTab \in Seq(Message)
      /\ UNCHANGED <<asked, answers, tab, picker, dialog, toServer, pending, device, faults>>
  BY DEF NoticeLeft, Shape, Types
<1>2. CASE reg' = [reg EXCEPT !.state = "closing"] /\ toTab' = toTab
  <2>1. reg' \in RegType /\ reg'.codex = reg.codex
    BY <1>1, <1>2 DEF RegType
  <2> QED
    BY <1>1, <1>2, <2>1 DEF Tells
<1>3. CASE Told([reg EXCEPT !.state = "off"])
  <2> DEFINE r == [reg EXCEPT !.state = "off"]
  <2>1. r \in RegType /\ r.codex = reg.codex
    BY <1>1 DEF RegType
  <2> HIDE DEF r
  <2>2. Told(r)
    BY <1>3 DEF r
  <2> QED
    BY <1>1, <2>1, <2>2, ToldEffect DEF Tells
<1> QED
  BY <1>2, <1>3 DEF NoticeLeft

LEMMA ConnectEffect ==
    ASSUME Shape, DeviceConnects
    PROVE  Tells
<1>1. /\ device \in DeviceType
      /\ UNCHANGED <<asked, answers, tab, picker, dialog, toServer, pending, faults>>
  BY DEF DeviceConnects, Shape, Types
<1>2. PICK loaded \in {device.loaded, device.trust} :
         /\ device' = [device EXCEPT !.on = TRUE, !.loaded = loaded]
         /\ Told([state |-> "open", codex |-> loaded])
  BY DEF DeviceConnects
<1>3. loaded \in BOOLEAN
  BY <1>1 DEF DeviceType
<1>4. /\ device' \in DeviceType
      /\ device'.trust = device.trust /\ device'.written = device.written
      /\ device'.loaded = loaded
      /\ device'.down = device.down /\ device'.up = device.up
  BY <1>1, <1>2, <1>3 DEF DeviceType
<1> DEFINE r == [state |-> "open", codex |-> loaded]
<1>5. r \in RegType /\ r.codex = loaded
  BY <1>3 DEF RegType
<1>6. Told(r)
  BY <1>2
<1> HIDE DEF r
<1> QED
  BY <1>1, <1>2, <1>4, <1>5, <1>6, ToldEffect DEF Tells

\* The daemon reads and answers, or loses its link and what is on its way, or
\* client.json is changed by others.
DaemonActs ==
    /\ device' \in DeviceType
    /\ device.written => device'.written
    /\ device'.trust => device.trust \/ device'.written
    /\ device'.loaded = device.loaded
    /\ Range(device'.down) \subseteq Range(device.down)
    /\ \A a \in Range(device'.up) \ Range(device.up) :
          a.re \in Range(device.down) /\ (a.ok /\ asked[a.re].kind = "enable" => device'.written)
    /\ UNCHANGED <<asked, answers, tab, picker, dialog, toServer, toTab, pending, reg>>
    /\ faults' \in 0..MaxFaults /\ faults <= faults'

LEMMA DaemonShape ==
    ASSUME Shape, DaemonActs
    PROVE  Shape'
<1> USE RequestsAssumption
<1>1. /\ answers' \in [Request -> Nat] /\ toServer' \in Seq(Request) /\ tab' \in TabType
      /\ toTab' \in Seq(Message) /\ reg' \in RegType /\ device' \in DeviceType
      /\ pending' \in Seq(Pending) /\ faults \in Nat
  BY DEF Shape, Types, DaemonActs
<1>2. /\ ~tab'.open => toServer' = <<>>
      /\ tab'.open => tab'.queue = <<>>
  BY DEF Shape, Sockets, DaemonActs
<1>3. Latest' = Latest /\ Latest \in Nat
  <2>1. tab' = tab /\ tab \in TabType
    BY DEF DaemonActs, Shape, Types
  <2>2. tab.open \in BOOLEAN /\ tab.conn \in Nat
    BY <2>1 DEF TabType, Conn
  <2> QED
    BY <2>1, <2>2 DEF Latest
<1>4. Latest <= Latest' /\ Latest' <= faults'
  BY <1>1, <1>3 DEF Shape, Sockets, DaemonActs
<1>5. UNCHANGED <<asked, picker, dialog>> /\ faults' \in 0..MaxFaults
  BY DEF DaemonActs
<1> QED
  BY <1>1, <1>2, <1>4, <1>5, ServerShape

\* The tail of what is on its way, and an answer more.
LEMMA ReadEffect ==
    ASSUME Shape, device.down # <<>>, NEW ok \in BOOLEAN, NEW named \in BOOLEAN,
           NEW written \in BOOLEAN, device.written => written,
           NEW trust \in BOOLEAN, trust => device.trust \/ written,
           ok /\ asked[Head(device.down)].kind = "enable" => written,
           device' = [device EXCEPT
              !.down = Tail(device.down), !.trust = trust, !.written = written,
              !.up = Append(device.up, [re |-> Head(device.down), ok |-> ok, named |-> named])],
           UNCHANGED <<asked, answers, tab, picker, dialog, toServer, toTab, pending, reg, faults>>
    PROVE  DaemonActs
<1> USE RequestsAssumption
<1> DEFINE r == Head(device.down)
           a == [re |-> r, ok |-> ok, named |-> named]
           d == Tail(device.down)
           u == Append(device.up, a)
<1>1. device \in DeviceType /\ faults \in 0..MaxFaults
  BY DEF Shape, Types
<1>2. device.down \in Seq(Request) /\ device.up \in Seq(Ack)
  BY <1>1 DEF DeviceType
<1>3. /\ r \in Request /\ d \in Seq(Request) /\ Range(device.down) = {r} \cup Range(d)
  BY <1>2, TailList
<1> HIDE DEF r, d
<1>4. a \in Ack /\ a.re = r /\ a.ok = ok
  BY <1>3 DEF Ack
<1> HIDE DEF a
<1>5. u \in Seq(Ack) /\ Range(u) = Range(device.up) \cup {a}
  BY <1>2, <1>4, AppendList
<1> HIDE DEF u
<1>6. device' = [device EXCEPT !.down = d, !.trust = trust, !.written = written, !.up = u]
  BY DEF r, a, d, u
<1>7. /\ device' \in DeviceType /\ device'.trust = trust /\ device'.loaded = device.loaded
      /\ device'.written = written /\ device'.down = d /\ device'.up = u
  BY <1>1, <1>3, <1>5, <1>6 DEF DeviceType
<1>8. ok /\ asked[r].kind = "enable" => written
  BY DEF r
<1>9. faults' \in 0..MaxFaults /\ faults <= faults'
  BY <1>1
<1> QED
  BY <1>3, <1>4, <1>5, <1>7, <1>8, <1>9 DEF DaemonActs

LEMMA DaemonReadsEffect ==
    ASSUME Shape, DaemonReads
    PROVE  DaemonActs
<1> USE RequestsAssumption
<1> DEFINE r == Head(device.down)
<1>1. /\ UNCHANGED <<asked, answers, tab, picker, dialog, toServer, toTab, pending, reg, faults>>
      /\ device.down # <<>> /\ device \in DeviceType /\ faults \in 0..MaxFaults
  BY DEF DaemonReads, Shape, Types
<1>2. /\ device.down \in Seq(Request) /\ device.up \in Seq(Ack)
      /\ device.trust \in BOOLEAN /\ device.written \in BOOLEAN
  BY <1>1 DEF DeviceType
<1>3. CASE device' = [device EXCEPT !.down = Tail(device.down)]
  <2>1. /\ Tail(device.down) \in Seq(Request)
        /\ Range(Tail(device.down)) \subseteq Range(device.down)
    BY <1>1, <1>2, TailList
  <2> DEFINE d == Tail(device.down)
  <2> HIDE DEF d
  <2>2. /\ device' \in DeviceType
        /\ device'.trust = device.trust /\ device'.written = device.written
        /\ device'.loaded = device.loaded /\ device'.down = d /\ device'.up = device.up
    BY <1>1, <1>3, <2>1 DEF DeviceType, d
  <2>3. faults' \in 0..MaxFaults /\ faults <= faults'
    BY <1>1
  <2> QED
    BY <1>1, <2>1, <2>2, <2>3 DEF DaemonActs, d
<1>4. CASE Enable(r)
  <2>1. PICK ok \in BOOLEAN, trust \in {TRUE} \cup Unsaved :
           /\ ok => trust
           /\ device' = [Becomes(trust) EXCEPT !.down = Tail(device.down),
                            !.up = Append(device.up, [re |-> r, ok |-> ok, named |-> TRUE])]
    BY <1>1, <1>4 DEF Enable, Becomes, DeviceType
  <2> DEFINE u == Append(device.up, [re |-> r, ok |-> ok, named |-> TRUE])
             d == Tail(device.down)
             written == device.written \/ trust
  <2>2. /\ trust \in BOOLEAN /\ written \in BOOLEAN
        /\ (trust => device.trust \/ written) /\ (device.written => written)
        /\ (ok => written)
    <3>1. trust \in BOOLEAN
      BY <1>2, <2>1 DEF Unsaved
    <3>2. ok => trust
      BY <2>1
    <3> QED
      BY <3>1, <3>2, Zenon
  <2> HIDE DEF u, d
  <2>3. device' = [device EXCEPT !.down = d, !.trust = trust, !.written = written, !.up = u]
    BY <1>1, <2>1 DEF Becomes, DeviceType, u, d
  <2> QED
    BY <1>1, <2>2, <2>3, ReadEffect DEF u, d
<1>5. CASE asked[r].kind \in ListKind /\ ListDir(r)
  <2>1. PICK ok \in BOOLEAN, named \in BOOLEAN :
           device' = [device EXCEPT !.down = Tail(device.down),
                         !.up = Append(device.up, [re |-> r, ok |-> ok, named |-> named])]
    BY <1>5 DEF ListDir
  <2> DEFINE u == Append(device.up, [re |-> r, ok |-> ok, named |-> named])
             d == Tail(device.down)
  <2> HIDE DEF u, d
  <2>2. device' = [device EXCEPT !.down = d, !.trust = device.trust,
                                 !.written = device.written, !.up = u]
    BY <1>1, <2>1 DEF DeviceType, u, d
  <2>3. asked[r].kind # "enable"
    BY <1>5 DEF ListKind
  <2> QED
    BY <1>1, <1>2, <2>2, <2>3, ReadEffect DEF u, d
<1> QED
  BY <1>3, <1>4, <1>5 DEF DaemonReads

LEMMA LinkLostEffect ==
    ASSUME Shape, LinkLost
    PROVE  DaemonActs
<1> USE RequestsAssumption
<1>1. /\ faults < MaxFaults /\ faults' = faults + 1
      /\ UNCHANGED <<asked, answers, tab, picker, dialog, toServer, toTab, pending, reg>>
      /\ device \in DeviceType /\ faults \in 0..MaxFaults
  BY DEF LinkLost, Shape, Types
<1>2. device.up \in Seq(Ack)
  BY <1>1 DEF DeviceType
<1>3. PICK n \in 0..Len(device.up) :
         device' = [device EXCEPT !.on = FALSE, !.down = <<>>, !.up = SubSeq(device.up, 1, n)]
  BY DEF LinkLost
<1> DEFINE u == SubSeq(device.up, 1, n)
           none == <<>>
<1>4. u \in Seq(Ack) /\ Range(u) \subseteq Range(device.up)
  BY <1>2, PrefixList
<1>5. none \in Seq(Request) /\ Range(none) = {}
  BY EmptyList
<1>6. device' = [device EXCEPT !.on = FALSE, !.down = none, !.up = u]
  BY <1>3
<1> HIDE DEF u, none
<1>7. /\ device' \in DeviceType /\ device'.trust = device.trust
      /\ device'.written = device.written /\ device'.loaded = device.loaded
      /\ device'.down = none /\ device'.up = u
  BY <1>1, <1>4, <1>5, <1>6 DEF DeviceType
<1>8. faults' \in 0..MaxFaults /\ faults <= faults'
  BY <1>1
<1> QED
  BY <1>1, <1>4, <1>5, <1>7, <1>8 DEF DaemonActs

LEMMA ChangeFileEffect ==
    ASSUME Shape, ChangeFile
    PROVE  DaemonActs
<1>1. /\ device \in DeviceType /\ faults \in 0..MaxFaults
      /\ UNCHANGED <<asked, answers, tab, picker, dialog, toServer, toTab, pending, reg, faults>>
  BY DEF ChangeFile, Shape, Types
<1>2. device' = [device EXCEPT !.trust = ~device.trust,
                               !.written = device.written \/ ~device.trust]
  BY DEF ChangeFile, Becomes
<1>3. /\ device' \in DeviceType
      /\ device'.trust = ~device.trust /\ device'.written = (device.written \/ ~device.trust)
      /\ device'.loaded = device.loaded
      /\ device'.down = device.down /\ device'.up = device.up
  BY <1>1, <1>2 DEF DeviceType
<1>4. faults' \in 0..MaxFaults /\ faults <= faults'
  BY <1>1, RequestsAssumption
<1> QED
  BY <1>1, <1>3, <1>4 DEF DaemonActs

\* The tab loses its socket, and with a restart the server its maps.
TabLoses ==
    /\ faults' = faults + 1 /\ faults < MaxFaults
    /\ tab' \in TabType /\ ~tab'.open /\ tab'.conn = tab.conn /\ tab'.queue = tab.queue
    /\ tab'.shown = tab.shown
    /\ toServer' = <<>> /\ toTab' = <<>>
    /\ pending' \in {pending, <<>>}
    /\ reg' \in RegType /\ (reg'.codex => reg.codex)
    /\ device' \in DeviceType
    /\ device'.trust = device.trust /\ device'.loaded = device.loaded
    /\ device'.written = device.written
    /\ Range(device'.down) \subseteq Range(device.down)
    /\ Range(device'.up) \subseteq Range(device.up)
    /\ UNCHANGED <<asked, answers, picker, dialog>>

LEMMA TabLosesShape ==
    ASSUME Shape, TabLoses
    PROVE  Shape'
<1> USE RequestsAssumption
<1>1. /\ answers \in [Request -> Nat] /\ pending \in Seq(Pending) /\ faults \in 0..MaxFaults
      /\ tab \in TabType /\ tab' \in TabType
  BY DEF Shape, Types, TabLoses
<1>2. <<>> \in Seq(Request) /\ <<>> \in Seq(Message) /\ <<>> \in Seq(Pending)
  BY EmptyList
<1>3. Latest <= Latest' /\ Latest' <= faults'
  <2>1. /\ tab.open \in BOOLEAN /\ tab.conn \in Nat
        /\ tab'.open = FALSE /\ tab'.conn = tab.conn
    BY <1>1 DEF TabType, Conn, TabLoses
  <2>2. faults \in Nat /\ faults' = faults + 1 /\ Latest <= faults
    BY <1>1 DEF TabLoses, Shape, Sockets
  <2> QED
    BY <2>1, <2>2 DEF Latest
<1>4. /\ answers' \in [Request -> Nat] /\ pending' \in Seq(Pending)
      /\ toServer' \in Seq(Request) /\ toTab' \in Seq(Message)
  BY <1>1, <1>2 DEF TabLoses
<1>5. /\ UNCHANGED <<asked, picker, dialog>> /\ faults' \in 0..MaxFaults
      /\ reg' \in RegType /\ device' \in DeviceType
      /\ ~tab'.open /\ toServer' = <<>>
  BY <1>1 DEF TabLoses
<1> QED
  BY <1>1, <1>3, <1>4, <1>5, ServerShape

LEMMA LosesEffect ==
    ASSUME Shape, TabDrops \/ ServerRestart
    PROVE  TabLoses
<1>1. /\ tab \in TabType /\ reg \in RegType /\ device \in DeviceType
      /\ faults' = faults + 1 /\ faults < MaxFaults
      /\ tab' = [tab EXCEPT !.open = FALSE]
      /\ toServer' = <<>> /\ toTab' = <<>>
      /\ UNCHANGED <<asked, answers, picker, dialog>>
  BY DEF Shape, Types, TabDrops, ServerRestart
<1>2. /\ tab' \in TabType /\ ~tab'.open /\ tab'.conn = tab.conn /\ tab'.queue = tab.queue
      /\ tab'.shown = tab.shown
  BY <1>1 DEF TabType
<1>3. CASE TabDrops
  BY <1>1, <1>2, <1>3 DEF TabLoses, TabDrops
<1>4. CASE ServerRestart
  <2> DEFINE none == <<>>
  <2>1. none \in Seq(Request) /\ none \in Seq(Ack) /\ Range(none) = {}
    BY EmptyList
  <2>2. device' = [device EXCEPT !.on = FALSE, !.down = none, !.up = none]
    BY <1>4 DEF ServerRestart
  <2> HIDE DEF none
  <2>3. /\ device' \in DeviceType
        /\ device'.trust = device.trust /\ device'.loaded = device.loaded
        /\ device'.written = device.written
        /\ device'.down = none /\ device'.up = none
    BY <1>1, <2>1, <2>2 DEF DeviceType
  <2>4. reg' \in RegType /\ ~reg'.codex
    BY <1>4 DEF ServerRestart, RegType
  <2>5. pending' = <<>>
    BY <1>4 DEF ServerRestart
  <2> QED
    BY <1>1, <1>2, <2>1, <2>3, <2>4, <2>5 DEF TabLoses
<1> QED
  BY <1>3, <1>4

\* The socket opens again.
Reopens ==
    /\ ~tab.open /\ tab' \in TabType /\ tab'.open /\ tab'.conn = tab.conn + 1
    /\ tab'.queue = <<>> /\ tab'.shown = tab.shown
    /\ toServer' = tab.queue
    /\ toTab' \in Seq(Message)
    /\ \A m \in Range(toTab') : m.type = "devices" /\ (m.list = "enabled" => reg.codex)
    /\ UNCHANGED <<asked, answers, picker, dialog, pending, reg, device, faults>>

LEMMA ReopensShape ==
    ASSUME Shape, TabReconnects
    PROVE  Shape' /\ Reopens
<1> USE RequestsAssumption
<1>1. /\ answers' \in [Request -> Nat] /\ tab \in TabType
      /\ reg' \in RegType /\ device' \in DeviceType /\ pending' \in Seq(Pending)
      /\ faults \in 0..MaxFaults /\ reg \in RegType
      /\ UNCHANGED <<asked, answers, picker, dialog, pending, reg, device, faults>>
  BY DEF Shape, Types, TabReconnects
<1> DEFINE none == <<>>
           m == Devices(reg)
           one == <<m>>
<1>2. none \in Seq(Request)
  BY EmptyList
<1>3. ~tab.open /\ tab' = [tab EXCEPT !.open = TRUE, !.conn = tab.conn + 1, !.queue = none]
  BY DEF TabReconnects
<1>4. tab.conn \in Nat /\ tab.conn + 1 <= faults /\ tab.queue \in Seq(Request)
  BY <1>1, <1>3 DEF TabType, Conn, Shape, Sockets, Latest
<1>5. tab.conn + 1 \in Conn
  BY <1>1, <1>4 DEF Conn
<1>6. m \in Message /\ m.type = "devices" /\ (m.list = "enabled" => reg.codex)
  BY <1>1, MessageTypes
<1> HIDE DEF m
<1>7. one \in Seq(Message) /\ Range(one) = {m}
  BY <1>6 DEF Range
<1>8. toTab' = one /\ toServer' = tab.queue
  BY DEF TabReconnects, m
<1> HIDE DEF one, none
<1>9. /\ tab' \in TabType /\ tab'.open /\ tab'.conn = tab.conn + 1 /\ tab'.queue = none
      /\ tab'.shown = tab.shown
  BY <1>1, <1>2, <1>3, <1>5 DEF TabType
<1>10. Reopens
  BY <1>1, <1>3, <1>6, <1>7, <1>8, <1>9 DEF Reopens, none
<1>11. Latest' = Latest /\ Latest = tab.conn + 1
  BY <1>3, <1>9 DEF Latest
<1>12. Latest <= Latest' /\ Latest' <= faults'
  BY <1>1, <1>4, <1>11
<1>13. /\ toServer' \in Seq(Request) /\ toTab' \in Seq(Message) /\ faults' \in 0..MaxFaults
       /\ tab'.queue = <<>>
  BY <1>1, <1>4, <1>7, <1>8, <1>9 DEF none
<1>14. Shape'
  BY <1>1, <1>9, <1>12, <1>13, ServerShape
<1> QED
  BY <1>10, <1>14

\* The types at the start.
LEMMA ShapeInitially == Init => Shape
<1> USE RequestsAssumption
<1> SUFFICES ASSUME Init PROVE Shape
  OBVIOUS
<1> DEFINE none == <<>>
<1>1. /\ none \in Seq(Ask) /\ none \in Seq(Request) /\ none \in Seq(Message)
      /\ none \in Seq(Pending) /\ none \in Seq(Ack) /\ Len(none) = 0
  BY EmptyList
<1>2. \E knows, trust \in BOOLEAN :
         /\ device = [on |-> TRUE, knows |-> knows, loaded |-> trust, trust |-> trust,
                      written |-> trust, down |-> none, up |-> none]
         /\ reg = [state |-> "open", codex |-> trust]
  BY DEF Init
<1> HIDE DEF none
<1>3. device \in DeviceType /\ reg \in RegType /\ Info(reg) \in Shown
  BY <1>1, <1>2 DEF DeviceType, RegType, Info, Shown
<1>4. /\ asked = none /\ toServer = none /\ toTab = none /\ pending = none
      /\ tab = [open |-> TRUE, conn |-> 0, queue |-> none, shown |-> Info(reg)]
  BY DEF Init, none
<1>5. tab \in TabType /\ tab.open /\ tab.conn = 0 /\ tab.queue = none
  BY <1>1, <1>3, <1>4 DEF TabType, Conn
<1>6. picker \in PickerType(0) /\ ~picker.open
  BY ClosedPicker DEF Init
<1>7. /\ answers \in [Request -> Nat] /\ dialog = "open" /\ faults = 0
  BY DEF Init
<1>8. Types
  BY <1>1, <1>3, <1>4, <1>5, <1>6, <1>7 DEF Types
<1>9. Sockets
  BY <1>1, <1>4, <1>5, <1>7 DEF Sockets, Latest, Issued, none
<1> QED
  BY <1>6, <1>8, <1>9 DEF Shape, SecondTry

-----------------------------------------------------------------------------
(* Every request is in one place *)

\* What is on its way has been asked for, and what has not is not answered.
Known ==
    /\ Range(tab.queue) \subseteq Issued /\ Range(toServer) \subseteq Issued
    /\ Range(device.down) \subseteq Issued /\ PendingRes \subseteq Issued
    /\ \A a \in Range(device.up) : a.re \in Issued
    /\ \A m \in Range(toTab) : m.type = "answer" => m.re \in Issued
    /\ \A r \in Request \ Issued : answers[r] = 0

\* A request that has not reached the server is on its way once, and nowhere else.
Outgoing ==
    /\ IsInjective(toServer) /\ IsInjective(tab.queue)
    /\ \A r \in Range(toServer) :
          answers[r] = 0 /\ r \notin PendingRes /\ asked[r].conn = tab.conn
    /\ \A r \in Range(tab.queue) :
          answers[r] = 0 /\ r \notin PendingRes /\ asked[r].conn = tab.conn + 1

\* A request that is pending is so once, for its socket, and is not answered.
PendingOnce ==
    /\ Distinct(pending)
    /\ \A p \in Range(pending) : answers[p.re] = 0 /\ p.conn = asked[p.re].conn
    /\ \A r \in Request : answers[r] <= 1

Where == Known /\ Outgoing /\ PendingOnce

LEMMA WhereInitially == Init => Where
<1> SUFFICES ASSUME Init PROVE Where
  OBVIOUS
<1> DEFINE none == <<>>
<1>1. Range(none) = {} /\ IsInjective(none) /\ Len(none) = 0
  BY EmptyList
<1>2. Distinct(none)
  BY <1>1 DEF Distinct
<1>3. /\ toServer = none /\ toTab = none /\ pending = none /\ tab.queue = none
      /\ device.down = none /\ device.up = none
      /\ answers = [r \in Request |-> 0]
  BY DEF Init
<1> HIDE DEF none
<1> QED
  BY <1>1, <1>2, <1>3 DEF Where, Known, Outgoing, PendingOnce, PendingRes

LEMMA PendingTyped ==
    ASSUME Shape
    PROVE  \A p \in Range(pending) : p \in Pending /\ p.re \in Request
<1>1. pending \in Seq(Pending)
  BY DEF Shape, Types
<1>2. Range(pending) \subseteq Pending
  BY <1>1, ListRange
<1>3. \A p \in Pending : p.re \in Request
  BY DEF Pending
<1> QED
  BY <1>2, <1>3

LEMMA TabActsWhere ==
    ASSUME Shape, Where, TabActs
    PROVE  Where'
<1>1. /\ UNCHANGED <<answers, pending, device>> /\ Range(toTab') \subseteq Range(toTab)
      /\ answers \in [Request -> Nat] /\ PendingRes' = PendingRes
  BY DEF TabActs, Shape, Types, PendingRes
<1>2. CASE Quiet
  <2>1. UNCHANGED <<asked, toServer, Issued>> /\ tab'.conn = tab.conn /\ tab'.queue = tab.queue
    BY <1>2 DEF Quiet, Issued
  <2>2. Known'
    BY <1>1, <2>1 DEF Where, Known
  <2>3. Outgoing' /\ PendingOnce'
    BY <1>1, <2>1 DEF Where, Outgoing, PendingOnce, Distinct
  <2> QED
    BY <2>2, <2>3 DEF Where
<1>3. ASSUME NEW n \in Request, NEW kind \in Kind, Sends(n, kind) PROVE Where'
  <2>1. /\ Issued' = Issued \cup {n} /\ n \notin Issued /\ asked'[n].conn = Latest
        /\ \A r \in Issued : asked'[r] = asked[r]
        /\ tab'.open = tab.open /\ tab'.conn = tab.conn
    BY <1>3 DEF Sends
  <2>2. n \notin Range(toServer) /\ n \notin Range(tab.queue) /\ n \notin PendingRes
        /\ answers[n] = 0
    BY <2>1 DEF Where, Known
  <2>3. PendingOnce'
    <3>1. \A p \in Range(pending) : asked'[p.re] = asked[p.re]
      BY <2>1 DEF Where, Known, PendingRes
    <3> QED
      BY <1>1, <3>1 DEF Where, PendingOnce, Distinct
  <2>4. CASE tab.open
    <3>1. /\ tab'.queue = tab.queue /\ Range(toServer') = Range(toServer) \cup {n}
          /\ IsInjective(toServer') /\ Latest = tab.conn
      BY <1>3, <2>2, <2>4 DEF Sends, Where, Outgoing, Latest
    <3>2. Known'
      BY <1>1, <2>1, <3>1 DEF Where, Known
    <3>3. Outgoing'
      BY <1>1, <2>1, <2>2, <3>1 DEF Where, Known, Outgoing
    <3> QED
      BY <2>3, <3>2, <3>3 DEF Where
  <2>5. CASE ~tab.open
    <3>1. /\ toServer' = toServer /\ Range(tab'.queue) = Range(tab.queue) \cup {n}
          /\ IsInjective(tab'.queue) /\ Latest = tab.conn + 1
      BY <1>3, <2>2, <2>5 DEF Sends, Where, Outgoing, Latest
    <3>2. Known'
      BY <1>1, <2>1, <3>1 DEF Where, Known
    <3>3. Outgoing'
      BY <1>1, <2>1, <2>2, <3>1 DEF Where, Known, Outgoing
    <3> QED
      BY <2>3, <3>2, <3>3 DEF Where
  <2> QED
    BY <2>4, <2>5
<1> QED
  BY <1>2, <1>3 DEF TabActs

LEMMA HandleWhere ==
    ASSUME Shape, Where, NEW r \in Request, Handles(r)
    PROVE  Where'
<1>1. /\ answers \in [Request -> Nat] /\ pending \in Seq(Pending) /\ tab \in TabType
  BY DEF Shape, Types
<1>2. /\ Range(toServer) = {r} \cup Range(toServer')
      /\ IsInjective(toServer') /\ r \notin Range(toServer')
      /\ UNCHANGED <<asked, tab, Issued>>
  BY DEF Handles, Where, Outgoing, Issued
<1>3. /\ answers[r] = 0 /\ r \notin PendingRes /\ asked[r].conn = tab.conn /\ r \in Issued
      /\ tab.open
  BY <1>2 DEF Where, Outgoing, Known, Shape, Sockets, Handles
<1>4. Range(tab.queue) = {}
  BY <1>3, EmptyList DEF Shape, Sockets
<1> DEFINE q == [re |-> r, conn |-> tab.conn, due |-> FALSE]
<1>5. q \in Pending /\ q.re = r /\ q.conn = tab.conn
  BY <1>1 DEF TabType, Pending
<1> HIDE DEF q
<1>6. CASE /\ pending' = Append(pending, q)
           /\ UNCHANGED <<answers, toTab>>
           /\ device'.up = device.up
           /\ Range(device'.down) \subseteq Range(device.down) \cup {r}
  <2>1. Range(pending') = Range(pending) \cup {q} /\ Distinct(pending')
    BY <1>1, <1>3, <1>5, <1>6, AppendList, DistinctAppend DEF Where, PendingOnce, PendingRes
  <2>2. PendingRes' = PendingRes \cup {r}
    BY <1>5, <2>1 DEF PendingRes
  <2>3. Known'
    BY <1>2, <1>3, <1>6, <2>2 DEF Where, Known
  <2>4. Outgoing'
    BY <1>2, <1>4, <1>6, <2>2 DEF Where, Outgoing
  <2>5. PendingOnce'
    BY <1>2, <1>3, <1>5, <1>6, <2>1 DEF Where, PendingOnce
  <2> QED
    BY <2>3, <2>4, <2>5 DEF Where
<1>7. CASE /\ answers' = [answers EXCEPT ![r] = answers[r] + 1]
           /\ UNCHANGED <<pending, device>>
           /\ \E m \in Message :
                 /\ m.type = "answer" /\ m.re = r /\ ~m.ok
                 /\ Range(toTab') = Range(toTab) \cup IF tab.open THEN {m} ELSE {}
  <2>1. PendingRes' = PendingRes
    BY <1>7 DEF PendingRes
  <2>2. answers'[r] = 1 /\ \A x \in Request : x # r => answers'[x] = answers[x]
    BY <1>1, <1>3, <1>7
  <2>3. Known'
    <3>1. \A m \in Range(toTab') : m.type = "answer" => m.re \in Issued
      BY <1>3, <1>7 DEF Where, Known
    <3> QED
      BY <1>2, <1>3, <1>7, <2>1, <2>2, <3>1 DEF Where, Known
  <2>4. Outgoing'
    <3>1. Range(toServer) \subseteq Request
      BY ListRange DEF Shape, Types
    <3> QED
      BY <1>2, <1>4, <2>1, <2>2, <3>1 DEF Where, Outgoing
  <2>5. PendingOnce'
    <3>1. \A p \in Range(pending) : p.re # r /\ p.re \in Request
      BY <1>3, PendingTyped DEF PendingRes
    <3> QED
      BY <1>2, <1>7, <2>2, <3>1 DEF Where, PendingOnce, Distinct
  <2> QED
    BY <2>3, <2>4, <2>5 DEF Where
<1> QED
  BY <1>6, <1>7 DEF Handles, q

LEMMA AnswersWhere ==
    ASSUME Shape, Where, NEW R, Answers(R)
    PROVE  Where'
<1>1. /\ answers \in [Request -> Nat] /\ pending \in Seq(Pending)
      /\ Range(toServer) \subseteq Request /\ Range(tab.queue) \subseteq Request
  BY ListRange DEF Shape, Types, TabType
<1>2. UNCHANGED <<asked, tab, toServer, Issued>> /\ R \subseteq PendingRes
  BY DEF Answers, Issued
<1>3. PendingRes \subseteq Request
  BY PendingTyped DEF PendingRes
<1>4. PendingRes' = PendingRes \ R
  BY DEF Answers, PendingRes
<1>5. \A x \in Request : answers'[x] = IF x \in R THEN answers[x] + 1 ELSE answers[x]
  BY DEF Answers
<1>6. \A x \in R : answers[x] = 0
  BY <1>2 DEF Where, PendingOnce, PendingRes
<1>7. Known'
  <2>1. \A m \in Range(toTab') : m.type = "answer" => m.re \in Issued
    <3> SUFFICES ASSUME NEW m \in Range(toTab'), m.type = "answer" PROVE m.re \in Issued
      OBVIOUS
    <3>1. CASE m \in Range(toTab)
      BY <3>1 DEF Where, Known
    <3>2. CASE m \notin Range(toTab)
      BY <1>2, <3>2 DEF Answers, Where, Known
    <3> QED
      BY <3>1, <3>2
  <2>2. \A a \in Range(device'.up) : a.re \in Issued
    BY DEF Answers, Where, Known
  <2>3. \A x \in Request \ Issued : answers'[x] = 0
    BY <1>2, <1>5 DEF Where, Known
  <2>4. Range(device'.down) \subseteq Issued
    BY DEF Answers, Where, Known
  <2> QED
    BY <1>2, <1>4, <2>1, <2>2, <2>3, <2>4 DEF Where, Known
<1>8. Outgoing'
  BY <1>1, <1>2, <1>4, <1>5 DEF Where, Outgoing
<1>9. PendingOnce'
  <2>1. \A p \in Range(pending') : p \in Range(pending) /\ p.re \notin R /\ p.re \in Request
    BY <1>3 DEF Answers, PendingRes
  <2>2. \A x \in Request : answers'[x] <= 1
    BY <1>1, <1>5, <1>6 DEF Where, PendingOnce
  <2>3. Distinct(pending')
    BY DEF Answers
  <2> QED
    BY <1>2, <1>5, <2>1, <2>2, <2>3 DEF Where, PendingOnce, Distinct
<1> QED
  BY <1>7, <1>8, <1>9 DEF Where

LEMMA AgesRange ==
    ASSUME Shape, Ages
    PROVE  /\ \A p \in Range(pending') : \E q \in Range(pending) : p.re = q.re /\ p.conn = q.conn
           /\ \A q \in Range(pending) : \E p \in Range(pending') : p.re = q.re /\ p.conn = q.conn
           /\ PendingRes' = PendingRes
<1>1. /\ DOMAIN pending = 1..Len(pending) /\ DOMAIN pending' = 1..Len(pending)
      /\ \A k \in 1..Len(pending) :
            pending'[k].re = pending[k].re /\ pending'[k].conn = pending[k].conn
  BY ListRange DEF Shape, Types, Ages
<1>2. \A p \in Range(pending') : \E q \in Range(pending) : p.re = q.re /\ p.conn = q.conn
  BY <1>1 DEF Range
<1>3. \A q \in Range(pending) : \E p \in Range(pending') : p.re = q.re /\ p.conn = q.conn
  BY <1>1 DEF Range
<1> QED
  BY <1>2, <1>3 DEF PendingRes

LEMMA AgesWhere ==
    ASSUME Shape, Where, Ages
    PROVE  Where'
<1>1. UNCHANGED <<asked, answers, tab, toServer, toTab, device, Issued>>
  BY DEF Ages, Issued
<1>2. PendingRes' = PendingRes
  BY AgesRange
<1>3. Known'
  BY <1>1, <1>2 DEF Where, Known
<1>4. Outgoing'
  BY <1>1, <1>2 DEF Where, Outgoing
<1>5. PendingOnce'
  <2>1. Distinct(pending')
    BY DEF Ages, Where, PendingOnce, Distinct
  <2>2. ASSUME NEW p \in Range(pending')
        PROVE  answers[p.re] = 0 /\ p.conn = asked[p.re].conn
    BY AgesRange DEF Where, PendingOnce
  <2> QED
    BY <1>1, <2>1, <2>2 DEF Where, PendingOnce, Distinct
<1> QED
  BY <1>3, <1>4, <1>5 DEF Where

LEMMA TellsWhere ==
    ASSUME Shape, Where, Tells
    PROVE  Where'
<1>1. UNCHANGED <<asked, answers, tab, toServer, pending, Issued, PendingRes>>
  BY DEF Tells, Issued, PendingRes
<1>2. device'.down = device.down /\ device'.up = device.up
  BY DEF Tells
<1>3. \A m \in Range(toTab') : m.type = "answer" => m \in Range(toTab)
  BY DEF Tells
<1>4. Known'
  BY <1>1, <1>2, <1>3 DEF Where, Known
<1>5. Outgoing' /\ PendingOnce'
  BY <1>1 DEF Where, Outgoing, PendingOnce, Distinct
<1> QED
  BY <1>4, <1>5 DEF Where

LEMMA DaemonWhere ==
    ASSUME Shape, Where, DaemonActs
    PROVE  Where'
<1>1. UNCHANGED <<asked, answers, tab, toServer, toTab, pending, Issued, PendingRes>>
  BY DEF DaemonActs, Issued, PendingRes
<1>2. Range(device'.down) \subseteq Issued
  BY DEF DaemonActs, Where, Known
<1>3. \A a \in Range(device'.up) : a.re \in Issued
  <2> TAKE a \in Range(device'.up)
  <2>1. CASE a \in Range(device.up)
    BY <2>1 DEF Where, Known
  <2>2. CASE a \notin Range(device.up)
    BY <2>2 DEF DaemonActs, Where, Known
  <2> QED
    BY <2>1, <2>2
<1>4. Known'
  BY <1>1, <1>2, <1>3 DEF Where, Known
<1>5. Outgoing' /\ PendingOnce'
  BY <1>1 DEF Where, Outgoing, PendingOnce, Distinct
<1> QED
  BY <1>4, <1>5 DEF Where

LEMMA LosesWhere ==
    ASSUME Shape, Where, TabLoses
    PROVE  Where'
<1> DEFINE none == <<>>
<1>1. Range(none) = {} /\ IsInjective(none) /\ Len(none) = 0
  BY EmptyList
<1>2. Distinct(none)
  BY <1>1 DEF Distinct
<1>3. /\ UNCHANGED <<asked, answers, Issued>> /\ tab'.conn = tab.conn /\ tab'.queue = tab.queue
      /\ toServer' = none /\ toTab' = none /\ pending' \in {pending, none}
      /\ Range(device'.down) \subseteq Range(device.down)
      /\ Range(device'.up) \subseteq Range(device.up)
  BY DEF TabLoses, Issued
<1> HIDE DEF none
<1>4. Range(pending') \subseteq Range(pending) /\ Distinct(pending')
  BY <1>1, <1>2, <1>3 DEF Where, PendingOnce, Distinct
<1>5. PendingRes' \subseteq PendingRes
  BY <1>4 DEF PendingRes
<1>6. Known'
  BY <1>1, <1>3, <1>5 DEF Where, Known
<1>7. Outgoing'
  BY <1>1, <1>3, <1>5 DEF Where, Outgoing
<1>8. PendingOnce'
  BY <1>3, <1>4 DEF Where, PendingOnce, Distinct
<1> QED
  BY <1>6, <1>7, <1>8 DEF Where

LEMMA ReopensWhere ==
    ASSUME Shape, Where, Reopens
    PROVE  Where'
<1> DEFINE none == <<>>
<1>1. Range(none) = {} /\ IsInjective(none)
  BY EmptyList
<1>2. /\ UNCHANGED <<asked, answers, pending, device, Issued, PendingRes>>
      /\ tab'.conn = tab.conn + 1 /\ tab'.queue = none /\ toServer' = tab.queue
      /\ \A m \in Range(toTab') : m.type = "devices"
  BY DEF Reopens, Issued, PendingRes
<1> HIDE DEF none
<1>3. Known'
  BY <1>1, <1>2 DEF Where, Known
<1>4. Outgoing'
  BY <1>1, <1>2 DEF Where, Outgoing
<1>5. PendingOnce'
  BY <1>2 DEF Where, PendingOnce, Distinct
<1> QED
  BY <1>3, <1>4, <1>5 DEF Where

-----------------------------------------------------------------------------
(* What is said of codex has been true of the machine *)

\* As long as client.json has never enabled codex, nothing says that it does.
Trusted ==
    ~device.written =>
       /\ ~device.trust /\ ~reg.codex /\ ~device.loaded /\ ~Granted
       /\ tab.shown # "enabled" /\ dialog # "created"
       /\ \A m \in Range(toTab) :
             /\ m.type = "devices" => m.list # "enabled"
             /\ m.type = "answer" /\ asked[m.re].kind = "enable" => ~m.ok

LEMMA TrustedInitially == Init => Trusted
<1> SUFFICES ASSUME Init PROVE Trusted
  OBVIOUS
<1>1. Range(<<>>) = {}
  BY EmptyList
<1> DEFINE none == <<>>
<1>2. \E knows, trust \in BOOLEAN :
         /\ device = [on |-> TRUE, knows |-> knows, loaded |-> trust, trust |-> trust,
                      written |-> trust, down |-> none, up |-> none]
         /\ reg = [state |-> "open", codex |-> trust]
  BY DEF Init
<1>3. toTab = none /\ dialog = "open" /\ tab.shown = Info(reg)
  BY DEF Init
<1>4. Range(none) = {}
  BY <1>1
<1> HIDE DEF none
<1>5. /\ reg.codex = device.written /\ device.loaded = device.written
      /\ device.trust = device.written /\ device.up = none
  BY <1>2
<1> QED
  BY <1>3, <1>4, <1>5 DEF Trusted, Granted, Info

\* The steps of the tab: what it shows and creates has a message for a reason.
LEMMA TabActsTrusted ==
    ASSUME Shape, Where, Trusted, TabActs,
           tab'.shown = "enabled" => device.written, dialog' = "created" => device.written
    PROVE  Trusted'
<1>1. \A r \in Issued : asked'[r] = asked[r]
  BY DEF TabActs, Quiet, Sends
<1>2. UNCHANGED <<reg, device>> /\ Range(toTab') \subseteq Range(toTab)
  BY DEF TabActs
<1>3. Granted' = Granted
  BY <1>1, <1>2 DEF Granted, Where, Known
<1>4. \A m \in Range(toTab') : m.type = "answer" => asked'[m.re] = asked[m.re]
  BY <1>1, <1>2 DEF Where, Known
<1> QED
  BY <1>2, <1>3, <1>4 DEF Trusted

LEMMA TakeTrusted ==
    ASSUME Shape, Where, Trusted, TakeMessage
    PROVE  Trusted'
<1>1. PICK m \in Message :
         /\ m \in Range(toTab) /\ Range(toTab) = {m} \cup Range(toTab')
         /\ toTab' \in Seq(Message)
         /\ m.type = "answer" => m \in Answer
         /\ m.type = "devices" => m \in News
         /\ Takes(m)
         /\ UNCHANGED <<answers, pending, reg, device, faults>>
  BY TakeEffect
<1>2. TabActs /\ tab \in TabType
  BY TakeShape DEF Shape, Types
<1>3. CASE m.type = "devices"
  <2>1. tab'.shown = m.list /\ dialog' = dialog
    BY <1>1, <1>2, <1>3 DEF Takes, TabType
  <2> QED
    BY <1>1, <1>2, <1>3, <2>1, TabActsTrusted DEF Trusted
<1>4. CASE m.type = "answer" /\ asked[m.re].kind \in ListKind
  <2>1. TakeListing(m) /\ m \in Answer /\ dialog' = dialog
    BY <1>1, <1>4 DEF Takes
  <2>2. tab'.shown = tab.shown
    BY <2>1, ListingEffect DEF Sends
  <2> QED
    BY <1>2, <2>1, <2>2, TabActsTrusted DEF Trusted
<1>5. CASE m.type = "answer" /\ asked[m.re].kind \notin ListKind
  <2>1. TakeResult(m) /\ tab' = tab
    BY <1>1, <1>5 DEF Takes
  <2>2. asked[m.re].kind = "enable"
    <3>1. m.re \in Issued /\ asked \in Seq(Ask)
      BY <1>1, <1>5 DEF Where, Known, Shape, Types
    <3>2. asked[m.re] \in Ask
      BY <3>1 DEF Issued
    <3> QED
      BY <1>5, <3>2 DEF Ask, Kind
  <2>3. dialog' = "created" => dialog = "created" \/ m.ok
    BY <2>1 DEF TakeResult
  <2>4. dialog' = "created" => device.written
    BY <1>1, <1>5, <2>2, <2>3 DEF Trusted
  <2> QED
    BY <1>2, <2>1, <2>4, TabActsTrusted DEF Trusted
<1> QED
  BY <1>1, <1>3, <1>4, <1>5, MessageTypes

LEMMA HandleTrusted ==
    ASSUME Shape, Where, Trusted, NEW r \in Request, Handles(r)
    PROVE  Trusted'
<1>1. /\ UNCHANGED <<asked, tab, dialog, reg>>
      /\ device'.trust = device.trust /\ device'.written = device.written
      /\ device'.loaded = device.loaded /\ device'.up = device.up
  BY DEF Handles
<1>2. \A m \in Range(toTab') : m \in Range(toTab) \/ (m.type = "answer" /\ ~m.ok)
  BY DEF Handles
<1>3. Granted' = Granted
  BY <1>1 DEF Granted
<1> QED
  BY <1>1, <1>2, <1>3 DEF Trusted

LEMMA AnswersTrusted ==
    ASSUME Shape, Where, Trusted, NEW R, Answers(R)
    PROVE  Trusted'
<1> SUFFICES ASSUME ~device'.written
             PROVE  /\ ~device'.trust /\ ~reg'.codex /\ ~device'.loaded /\ ~Granted'
                    /\ tab'.shown # "enabled" /\ dialog' # "created"
                    /\ \A m \in Range(toTab') :
                          /\ m.type = "devices" => m.list # "enabled"
                          /\ m.type = "answer" /\ asked'[m.re].kind = "enable" => ~m.ok
  BY DEF Trusted
<1>1. /\ ~reg.codex /\ ~device.loaded /\ ~Granted /\ ~device.trust /\ ~device.written
      /\ tab.shown # "enabled" /\ dialog # "created"
      /\ UNCHANGED <<asked, tab, dialog>>
  BY DEF Answers, Trusted
<1>2. ~device'.trust /\ ~reg'.codex /\ ~device'.loaded
  BY <1>1 DEF Answers
<1>3. ~Granted'
  BY <1>1 DEF Granted, Answers
<1>4. ASSUME NEW m \in Range(toTab')
      PROVE  /\ m.type = "devices" => m.list # "enabled"
             /\ m.type = "answer" /\ asked[m.re].kind = "enable" => ~m.ok
  <2>1. CASE m \in Range(toTab)
    BY <1>1, <2>1 DEF Trusted
  <2>2. CASE m \notin Range(toTab)
    BY <1>1, <1>2, <2>2 DEF Answers
  <2> QED
    BY <2>1, <2>2
<1> QED
  BY <1>1, <1>2, <1>3, <1>4

LEMMA TellsTrusted ==
    ASSUME Shape, Where, Trusted, Tells
    PROVE  Trusted'
<1>1. /\ UNCHANGED <<asked, tab, dialog>> /\ device'.up = device.up
      /\ device'.trust = device.trust /\ device'.written = device.written
      /\ device'.loaded => device.loaded \/ device.trust
      /\ reg'.codex => reg.codex \/ device.loaded \/ device.trust
  BY DEF Tells
<1>2. \A m \in Range(toTab') :
         m \in Range(toTab) \/ (m.type = "devices" /\ (m.list = "enabled" => reg'.codex))
  BY DEF Tells
<1>3. Granted' = Granted
  BY <1>1 DEF Granted
<1> QED
  BY <1>1, <1>2, <1>3 DEF Trusted

LEMMA DaemonTrusted ==
    ASSUME Shape, Where, Trusted, DaemonActs
    PROVE  Trusted'
<1>1. /\ UNCHANGED <<asked, tab, dialog, reg, toTab>>
      /\ device.written => device'.written
      /\ device'.trust => device.trust \/ device'.written
      /\ device'.loaded = device.loaded
  BY DEF DaemonActs
<1>2. Granted' /\ ~device'.written => Granted
  BY <1>1 DEF Granted, DaemonActs
<1> QED
  BY <1>1, <1>2 DEF Trusted

LEMMA AgesTrusted ==
    ASSUME Trusted, Ages
    PROVE  Trusted'
BY DEF Trusted, Ages, Granted

LEMMA LosesTrusted ==
    ASSUME Shape, Where, Trusted, TabLoses
    PROVE  Trusted'
<1>1. /\ UNCHANGED <<asked, dialog>> /\ tab'.shown = tab.shown
      /\ device'.trust = device.trust /\ device'.written = device.written
      /\ device'.loaded = device.loaded /\ Range(device'.up) \subseteq Range(device.up)
      /\ reg'.codex => reg.codex
  BY DEF TabLoses
<1>2. Range(toTab') = {}
  BY EmptyList DEF TabLoses
<1>3. Granted' => Granted
  BY <1>1 DEF Granted
<1> QED
  BY <1>1, <1>2, <1>3 DEF Trusted

LEMMA ReopensTrusted ==
    ASSUME Trusted, Reopens
    PROVE  Trusted'
<1>1. /\ UNCHANGED <<asked, dialog, reg, device>> /\ tab'.shown = tab.shown
      /\ \A m \in Range(toTab') : m.type = "devices" /\ (m.list = "enabled" => reg.codex)
  BY DEF Reopens
<1>2. Granted' = Granted
  BY <1>1 DEF Granted
<1> QED
  BY <1>1, <1>2 DEF Trusted

-----------------------------------------------------------------------------
(* Nothing waits for an answer that nobody will give *)

\* The request is under way on the tab's socket, or will be on the next one.
Covered(r) ==
    /\ tab.open /\ asked[r].conn = tab.conn => UnderWay(r)
    /\ ~tab.open /\ asked[r].conn = tab.conn + 1 => r \in Range(tab.queue)

\* The last of the requests that enable codex.
LastEnable(r) ==
    /\ r \in Issued /\ asked[r].kind = "enable"
    /\ \A e \in Issued : asked[e].kind = "enable" => e <= r

PickerSpins ==
    picker.loading =>
       /\ picker.open /\ picker.req \in Issued
       /\ asked[picker.req].kind \in ListKind /\ Covered(picker.req)

DialogSpins == dialog = "waiting" => \E r \in Issued : LastEnable(r) /\ Covered(r)

Spins == PickerShowsLatest /\ PickerSpins /\ DialogSpins

LEMMA SpinsInitially == Init => Spins
<1>1. SUFFICES ASSUME Init PROVE Spins
  OBVIOUS
<1>2. ~picker.open /\ ~picker.loading /\ dialog = "open"
  BY <1>1, ClosedPicker DEF Init
<1> QED
  BY <1>2 DEF Spins, PickerShowsLatest, PickerSpins, DialogSpins

\* Steps that are not the tab's own keep what it waits for under way.
LEMMA SpinsStay ==
    ASSUME Spins, UNCHANGED <<asked, picker, dialog>>,
           \A r \in Issued : Covered(r) => Covered(r)'
    PROVE  Spins'
<1>1. Issued' = Issued /\ \A r : LastEnable(r)' = LastEnable(r)
  BY DEF Issued, LastEnable
<1> QED
  BY <1>1 DEF Spins, PickerShowsLatest, PickerSpins, DialogSpins

LEMMA HandleCovered ==
    ASSUME Shape, Where, NEW r \in Request, Handles(r), NEW x \in Issued, Covered(x)
    PROVE  Covered(x)'
<1>1. /\ UNCHANGED <<asked, tab>> /\ pending \in Seq(Pending) /\ tab \in TabType
      /\ Range(toServer) = {r} \cup Range(toServer')
  BY DEF Handles, Shape, Types
<1> SUFFICES ASSUME tab.open, asked[x].conn = tab.conn PROVE UnderWay(x)'
  BY <1>1 DEF Covered
<1>2. UnderWay(x)
  BY DEF Covered
<1> DEFINE q == [re |-> r, conn |-> tab.conn, due |-> FALSE]
<1>3. q \in Pending /\ q.re = r
  BY <1>1 DEF TabType, Pending
<1> HIDE DEF q
<1>4. CASE /\ pending' = Append(pending, q) /\ UNCHANGED toTab
  <2>1. Range(pending') = Range(pending) \cup {q}
    BY <1>1, <1>3, <1>4, AppendList
  <2> QED
    BY <1>1, <1>2, <1>3, <1>4, <2>1 DEF UnderWay
<1>5. CASE /\ UNCHANGED pending
           /\ \E m \in Message :
                 /\ m.type = "answer" /\ m.re = r
                 /\ Range(toTab') = Range(toTab) \cup IF tab.open THEN {m} ELSE {}
  BY <1>1, <1>2, <1>5 DEF UnderWay
<1> QED
  BY <1>4, <1>5 DEF Handles, q

LEMMA AnswersCovered ==
    ASSUME Shape, Where, NEW R, Answers(R), NEW x \in Issued, Covered(x)
    PROVE  Covered(x)'
<1>1. UNCHANGED <<asked, tab, toServer>> /\ Range(toTab) \subseteq Range(toTab')
  BY DEF Answers
<1> SUFFICES ASSUME tab.open, asked[x].conn = tab.conn PROVE UnderWay(x)'
  BY <1>1 DEF Covered
<1>2. CASE x \in Range(toServer)
  BY <1>1, <1>2 DEF UnderWay
<1>3. ASSUME NEW p \in Range(pending), p.re = x PROVE UnderWay(x)'
  <2>1. CASE p.re \in R
    <3>1. p.conn = tab.conn
      BY <1>3 DEF Where, PendingOnce
    <3>2. \E m \in Range(toTab') : m.type = "answer" /\ m.re = p.re
      BY <2>1, <3>1 DEF Answers
    <3> QED
      BY <1>3, <3>2 DEF UnderWay
  <2>2. CASE p.re \notin R
    <3>1. p \in Range(pending')
      BY <2>2 DEF Answers
    <3> QED
      BY <1>3, <3>1 DEF UnderWay
  <2> QED
    BY <2>1, <2>2
<1>4. ASSUME NEW m \in Range(toTab), m.type = "answer", m.re = x PROVE UnderWay(x)'
  BY <1>1, <1>4 DEF UnderWay
<1> QED
  BY <1>2, <1>3, <1>4 DEF Covered, UnderWay

LEMMA AgesCovered ==
    ASSUME Shape, Ages, NEW x \in Issued, Covered(x)
    PROVE  Covered(x)'
<1>1. UNCHANGED <<asked, tab, toServer, toTab>>
  BY DEF Ages
<1>2. UnderWay(x) => UnderWay(x)'
  BY <1>1, AgesRange DEF UnderWay
<1> QED
  BY <1>1, <1>2 DEF Covered

LEMMA TellsCovered ==
    ASSUME Tells, NEW x \in Issued, Covered(x)
    PROVE  Covered(x)'
<1>1. UNCHANGED <<asked, tab, toServer, pending>> /\ Range(toTab) \subseteq Range(toTab')
  BY DEF Tells
<1>2. UnderWay(x) => UnderWay(x)'
  BY <1>1 DEF UnderWay
<1> QED
  BY <1>1, <1>2 DEF Covered

LEMMA DaemonCovered ==
    ASSUME DaemonActs, NEW x \in Issued, Covered(x)
    PROVE  Covered(x)'
BY DEF DaemonActs, Covered, UnderWay

\* No request is for a socket after the one that is lost.
LEMMA LosesCovered ==
    ASSUME Shape, TabLoses, NEW x \in Issued, Covered(x)
    PROVE  Covered(x)'
<1> USE RequestsAssumption
<1>1. /\ UNCHANGED asked /\ ~tab'.open /\ tab'.conn = tab.conn /\ tab'.queue = tab.queue
      /\ tab \in TabType /\ asked[x].conn <= Latest
  BY DEF TabLoses, Shape, Types, Sockets
<1>2. tab.conn \in Nat
  BY <1>1 DEF TabType, Conn
<1>3. tab.open => asked[x].conn # tab.conn + 1
  BY <1>1, <1>2 DEF Latest
<1> QED
  BY <1>1, <1>3 DEF Covered

LEMMA ReopensCovered ==
    ASSUME Reopens, NEW x \in Issued, Covered(x)
    PROVE  Covered(x)'
BY DEF Reopens, Covered, UnderWay

\* The tab makes its own steps.
LEMMA TabActsCovered ==
    ASSUME Shape, TabActs, NEW x \in Issued, Covered(x),
           \A m \in Range(toTab) : m.type = "answer" /\ m.re = x => m \in Range(toTab')
    PROVE  Covered(x)'
<1>1. /\ asked'[x] = asked[x] /\ tab'.open = tab.open /\ tab'.conn = tab.conn
      /\ Range(toServer) \subseteq Range(toServer') /\ Range(tab.queue) \subseteq Range(tab'.queue)
      /\ pending' = pending
  BY DEF TabActs, Quiet, Sends
<1>2. UnderWay(x) => UnderWay(x)'
  BY <1>1 DEF UnderWay
<1> QED
  BY <1>1, <1>2 DEF Covered

LEMMA SendsCovered ==
    ASSUME NEW n \in Request, NEW kind \in Kind, Sends(n, kind)
    PROVE  n \in Issued' /\ Covered(n)'
<1>1. CASE tab.open
  <2>1. n \in Range(toServer') /\ tab'.open
    BY <1>1 DEF Sends
  <2> QED
    BY <2>1 DEF Covered, UnderWay, Sends
<1>2. CASE ~tab.open
  <2>1. n \in Range(tab'.queue) /\ ~tab'.open
    BY <1>2 DEF Sends
  <2> QED
    BY <2>1 DEF Covered, Sends
<1> QED
  BY <1>1, <1>2

\* A listing that is asked for leaves the dialog's request the last of its kind.
LEMMA LastEnableStays ==
    ASSUME TabActs, NEW r \in Issued, LastEnable(r),
           Quiet \/ \E n \in Request, kind \in ListKind : Sends(n, kind)
    PROVE  r \in Issued' /\ LastEnable(r)'
<1>1. CASE Quiet
  BY <1>1 DEF Quiet, LastEnable, Issued
<1>2. ASSUME NEW n \in Request, NEW kind \in ListKind, Sends(n, kind)
      PROVE  r \in Issued' /\ LastEnable(r)'
  <2>1. kind # "enable"
    BY DEF ListKind
  <2> QED
    BY <1>2, <2>1 DEF Sends, LastEnable
<1> QED
  BY <1>1, <1>2

\* The picker asks for a directory.
LEMMA FetchSpins ==
    ASSUME Shape, Spins, NEW kind \in ListKind, MayAsk, Fetch(kind),
           UNCHANGED <<answers, dialog, toTab, pending, reg, device, faults>>
    PROVE  Spins'
<1>1. kind \in Kind /\ Len(asked) < MaxRequests
  BY RequestsAssumption DEF Kind, MayAsk, Shape, Types
<1>2. PICK n \in Request : Sends(n, kind) /\ Len(asked') = n
  BY <1>1, RequestsAssumption, SendEffect DEF Fetch, Shape
<1>3. TabActs /\ picker \in PickerType(Len(asked))
  BY FetchShape DEF Shape, Types
<1>4. picker'.open /\ picker'.loading /\ picker'.req = n
  BY <1>2, <1>3 DEF Fetch, PickerType
<1>5. PickerShowsLatest'
  BY <1>4 DEF PickerShowsLatest
<1>6. n \in Issued' /\ Covered(n)' /\ asked'[n].kind = kind
  BY <1>1, <1>2, SendsCovered DEF Sends
<1>7. PickerSpins'
  BY <1>4, <1>6 DEF PickerSpins
<1>8. ASSUME NEW r \in Issued, LastEnable(r), Covered(r)
      PROVE  r \in Issued' /\ LastEnable(r)' /\ Covered(r)'
  BY <1>2, <1>3, <1>8, LastEnableStays, TabActsCovered
<1>9. DialogSpins'
  BY <1>8 DEF Spins, DialogSpins
<1> QED
  BY <1>5, <1>7, <1>9 DEF Spins

\* The picker is closed, and the dialog is as it was or not waiting.
LEMMA CloseSpins ==
    ASSUME Shape, Spins, picker' = Closed, dialog' = dialog \/ dialog' = "open",
           UNCHANGED <<asked, answers, tab, toServer, toTab, pending, reg, device, faults>>
    PROVE  Spins'
<1>1. ~picker'.open /\ ~picker'.loading
  BY ClosedPicker
<1>2. UNCHANGED Issued /\ \A r : LastEnable(r)' = LastEnable(r) /\ Covered(r)' = Covered(r)
  BY DEF Issued, LastEnable, Covered, UnderWay
<1> QED
  BY <1>1, <1>2 DEF Spins, PickerShowsLatest, PickerSpins, DialogSpins

LEMMA SubmitSpins ==
    ASSUME Shape, Spins, Submit
    PROVE  Spins'
<1>1. /\ UNCHANGED <<answers, picker, toTab, pending, reg, device, faults>>
      /\ ~picker.open /\ dialog = "open"
  BY DEF Submit
<1>2. PickerShowsLatest' /\ PickerSpins'
  BY <1>1 DEF PickerShowsLatest, PickerSpins, Spins
<1>3. CASE tab.shown = "disabled"
  <2>1. "enable" \in Kind /\ Len(asked) < MaxRequests /\ SendRequest("enable")
    BY <1>3, RequestsAssumption DEF Kind, MayAsk, Shape, Types, Submit
  <2>2. PICK n \in Request : Sends(n, "enable") /\ Len(asked') = n
    BY <2>1, SendEffect DEF Shape
  <2>3. n \in Issued' /\ Covered(n)'
    BY <2>1, <2>2, SendsCovered
  <2>4. LastEnable(n)'
    <3>1. /\ asked'[n].kind = "enable" /\ n \in Nat
          /\ Issued' = 1..n
      BY <2>2 DEF Sends, Issued, Request
    <3>2. n \in Issued' /\ \A e \in Issued' : e <= n
      BY <2>3, <3>1
    <3> QED
      BY <3>1, <3>2 DEF LastEnable
  <2> QED
    BY <1>2, <2>3, <2>4 DEF Spins, DialogSpins
<1>4. CASE tab.shown # "disabled"
  BY <1>2, <1>4 DEF Submit, Spins, DialogSpins
<1> QED
  BY <1>3, <1>4

LEMMA TakeSpins ==
    ASSUME Shape, Where, Spins, TakeMessage
    PROVE  Spins'
<1>1. PICK m \in Message :
         /\ m \in Range(toTab) /\ Range(toTab) = {m} \cup Range(toTab')
         /\ toTab' \in Seq(Message)
         /\ m.type = "answer" => m \in Answer
         /\ m.type = "devices" => m \in News
         /\ Takes(m)
         /\ UNCHANGED <<answers, pending, reg, device, faults>>
  BY TakeEffect
<1>2. TabActs /\ picker \in PickerType(Len(asked))
  BY TakeShape DEF Shape, Types
<1>3. ASSUME NEW r \in Issued, Covered(r), m.type = "answer" => m.re # r
      PROVE  Covered(r)'
  BY <1>1, <1>2, <1>3, TabActsCovered
<1>4. ASSUME dialog' = dialog,
             m.type = "answer" => asked[m.re].kind \in ListKind,
             Quiet \/ \E n \in Request, kind \in ListKind : Sends(n, kind)
      PROVE  DialogSpins'
  <2>1. ASSUME NEW r \in Issued, LastEnable(r), Covered(r)
        PROVE  r \in Issued' /\ LastEnable(r)' /\ Covered(r)'
    <3>1. m.type = "answer" => m.re # r
      BY <1>4, <2>1 DEF LastEnable, ListKind
    <3> QED
      BY <1>2, <1>3, <1>4, <2>1, <3>1, LastEnableStays
  <2> QED
    BY <1>4, <2>1 DEF Spins, DialogSpins
<1>5. ASSUME picker' = picker, Quiet, m.type = "answer" /\ picker.loading => m.re # picker.req
      PROVE  PickerShowsLatest' /\ PickerSpins'
  <2>1. UNCHANGED <<asked, Issued>>
    BY <1>5 DEF Quiet, Issued
  <2>2. PickerShowsLatest'
    BY <1>5 DEF Spins, PickerShowsLatest
  <2>3. picker.loading => Covered(picker.req)'
    BY <1>3, <1>5 DEF Spins, PickerSpins
  <2>4. PickerSpins'
    BY <1>5, <2>1, <2>3 DEF Spins, PickerSpins
  <2> QED
    BY <2>2, <2>4
<1>6. CASE m.type = "devices"
  <2>1. tab' = [tab EXCEPT !.shown = m.list] /\ UNCHANGED <<asked, picker, dialog, toServer>>
    BY <1>1, <1>6 DEF Takes
  <2>2. Quiet
    <3>1. m.list \in Shown /\ tab \in TabType
      BY <1>1, <1>6 DEF News, Shape, Types
    <3> QED
      BY <2>1, <3>1 DEF Quiet, TabType
  <2>3. m.type # "answer"
    BY <1>6
  <2> QED
    BY <1>4, <1>5, <2>1, <2>2, <2>3 DEF Spins
<1>7. CASE m.type = "answer" /\ asked[m.re].kind \in ListKind
  <2>1. TakeListing(m) /\ dialog' = dialog /\ m \in Answer /\ tab \in TabType
    BY <1>1, <1>7 DEF Takes, Shape, Types
  <2>2. CASE UNCHANGED <<asked, tab, picker, toServer>> /\ (~picker.open \/ m.re # picker.req)
    <3>1. Quiet
      BY <2>1, <2>2 DEF Quiet
    <3>2. picker.loading => m.re # picker.req
      BY <2>2 DEF Spins, PickerSpins
    <3> QED
      BY <1>4, <1>5, <1>7, <2>1, <2>2, <3>1, <3>2 DEF Spins
  <2>3. ASSUME NEW n \in Request, Sends(n, "home"), picker.open,
               picker' = [picker EXCEPT !.req = n, !.tried = TRUE, !.loading = TRUE]
        PROVE  Spins'
    <3>1. "home" \in ListKind /\ "home" \in Kind
      BY DEF Kind, ListKind
    <3>2. n \in Issued' /\ Covered(n)' /\ asked'[n].kind = "home"
      BY <2>3, <3>1, SendsCovered DEF Sends
    <3>3. picker'.loading /\ picker'.open /\ picker'.req = n
      BY <1>2, <2>3 DEF PickerType
    <3>4. PickerShowsLatest' /\ PickerSpins'
      BY <3>1, <3>2, <3>3 DEF PickerShowsLatest, PickerSpins
    <3> QED
      BY <1>4, <1>7, <2>1, <2>3, <3>1, <3>4 DEF Spins
  <2>4. CASE /\ UNCHANGED <<asked, tab, toServer>> /\ m.re = picker.req
             /\ picker' = [picker EXCEPT !.loading = FALSE,
                                         !.listing = Listing(m.re, ~m.ok)]
    <3>1. Quiet
      BY <2>1, <2>4 DEF Quiet
    <3>2. ~picker'.loading /\ picker'.req = picker.req /\ picker'.listing.re = m.re
      BY <1>2, <2>4 DEF PickerType, Listing
    <3>3. PickerShowsLatest' /\ PickerSpins'
      BY <2>4, <3>2 DEF PickerShowsLatest, PickerSpins
    <3> QED
      BY <1>4, <1>7, <2>1, <3>1, <3>3 DEF Spins
  <2> QED
    BY <2>1, <2>2, <2>3, <2>4, ListingEffect
<1>8. CASE m.type = "answer" /\ asked[m.re].kind \notin ListKind
  <2>1. TakeResult(m) /\ UNCHANGED <<asked, tab, toServer>> /\ tab \in TabType
    BY <1>1, <1>8 DEF Takes, Shape, Types
  <2>2. Quiet
    BY <2>1 DEF Quiet
  <2>3. picker.loading => m.re # picker.req
    BY <1>8 DEF Spins, PickerSpins
  <2>4. CASE picker' = picker
    <3>1. dialog' # "waiting"
      BY <2>1 DEF TakeResult
    <3> QED
      BY <1>5, <2>2, <2>3, <2>4, <3>1 DEF Spins, DialogSpins
  <2>5. CASE picker' = Closed /\ dialog' = "created"
    <3>1. ~picker'.open /\ ~picker'.loading
      BY <2>5, ClosedPicker
    <3> QED
      BY <2>5, <3>1 DEF Spins, PickerShowsLatest, PickerSpins, DialogSpins
  <2> QED
    BY <2>1, <2>4, <2>5 DEF TakeResult
<1> QED
  BY <1>1, <1>6, <1>7, <1>8, MessageTypes

-----------------------------------------------------------------------------
(* The specification *)

RequestsInv == Shape /\ Where /\ Trusted /\ Spins

LEMMA RequestsInitially == Init => RequestsInv
BY ShapeInitially, WhereInitially, TrustedInitially, SpinsInitially DEF RequestsInv

\* The tab: the picker, the dialog, and the messages it takes.
LEMMA TabKeeps ==
    ASSUME RequestsInv,
           \/ \E kind \in ListKind : OpenPicker(kind) \/ Navigate(kind)
           \/ ClosePicker \/ Submit \/ ReopenDialog \/ TakeMessage
    PROVE  RequestsInv'
<1> USE DEF RequestsInv
<1>1. ASSUME NEW kind \in ListKind, OpenPicker(kind) \/ Navigate(kind) PROVE RequestsInv'
  <2>1. /\ MayAsk /\ Fetch(kind)
        /\ UNCHANGED <<answers, dialog, toTab, pending, reg, device, faults>>
    BY <1>1 DEF OpenPicker, Navigate
  <2>2. Shape' /\ TabActs
    BY <2>1, FetchShape
  <2>3. Where' /\ Spins'
    BY <2>1, <2>2, TabActsWhere, FetchSpins
  <2>4. tab'.shown = tab.shown
    BY <2>1 DEF Fetch, SendRequest, Shape, Types, TabType
  <2>5. Trusted'
    BY <2>1, <2>2, <2>4, TabActsTrusted DEF Trusted
  <2> QED
    BY <2>2, <2>3, <2>5
<1>2. CASE ClosePicker \/ ReopenDialog
  <2>1. /\ picker' = Closed /\ (dialog' = dialog \/ dialog' = "open")
        /\ UNCHANGED <<asked, answers, tab, toServer, toTab, pending, reg, device, faults>>
    BY <1>2 DEF ClosePicker, ReopenDialog
  <2>2. dialog' \in {"open", "waiting", "created", "closed"}
    BY <2>1 DEF Shape, Types
  <2>3. Shape' /\ TabActs /\ Spins'
    BY <2>1, <2>2, CloseShape, CloseSpins
  <2>4. Where' /\ Trusted'
    BY <2>1, <2>3, TabActsWhere, TabActsTrusted DEF Trusted
  <2> QED
    BY <2>3, <2>4
<1>3. CASE Submit
  <2>1. Shape' /\ TabActs /\ Spins'
    BY <1>3, SubmitShape, SubmitSpins
  <2>2. tab'.shown = tab.shown
    BY <1>3 DEF Submit, SendRequest, Shape, Types, TabType
  <2>3. dialog' = "created" => tab.shown = "enabled"
    BY <1>3 DEF Submit
  <2>4. Where' /\ Trusted'
    BY <2>1, <2>2, <2>3, TabActsWhere, TabActsTrusted DEF Trusted
  <2> QED
    BY <2>1, <2>4
<1>4. CASE TakeMessage
  BY <1>4, TakeShape, TabActsWhere, TakeTrusted, TakeSpins
<1> QED
  BY <1>1, <1>2, <1>3, <1>4

\* The server answers requests, or some of them fall due.
LEMMA ServerKeeps ==
    ASSUME RequestsInv,
           \/ HandleRequest \/ ReceiveAck \/ FallDue
           \/ Sweep(ListKind) \/ Sweep({"enable"})
    PROVE  RequestsInv'
<1> USE DEF RequestsInv
<1>1. Distinct(pending)
  BY DEF Where, PendingOnce
<1>2. CASE HandleRequest
  <2>1. PICK r \in Request : Handles(r)
    BY <1>2, HandleEffect
  <2>2. Spins'
    <3>1. UNCHANGED <<asked, picker, dialog>>
      BY <2>1 DEF Handles
    <3> QED
      BY <2>1, <3>1, HandleCovered, SpinsStay
  <2> QED
    BY <2>1, <2>2, HandleShape, HandleWhere, HandleTrusted
<1>3. CASE ReceiveAck \/ Sweep(ListKind) \/ Sweep({"enable"})
  <2>1. PICK R : Answers(R)
    BY <1>1, <1>3, ReceiveEffect, SweepEffect
  <2>2. Spins'
    <3>1. UNCHANGED <<asked, picker, dialog>>
      BY <2>1 DEF Answers
    <3> QED
      BY <2>1, <3>1, AnswersCovered, SpinsStay
  <2> QED
    BY <2>1, <2>2, AnswersShape, AnswersWhere, AnswersTrusted
<1>4. CASE FallDue
  <2>1. Shape' /\ Ages
    BY <1>4, AgesShape
  <2>2. Spins'
    <3>1. UNCHANGED <<asked, picker, dialog>>
      BY <2>1 DEF Ages
    <3> QED
      BY <2>1, <3>1, AgesCovered, SpinsStay
  <2> QED
    BY <2>1, <2>2, AgesWhere, AgesTrusted
<1> QED
  BY <1>2, <1>3, <1>4

\* The device and the sockets.
LEMMA LinksKeep ==
    ASSUME RequestsInv,
           \/ NoticeLeft \/ DeviceConnects \/ DaemonReads \/ ChangeFile \/ LinkLost
           \/ TabDrops \/ ServerRestart \/ TabReconnects
    PROVE  RequestsInv'
<1> USE DEF RequestsInv
<1>1. CASE NoticeLeft \/ DeviceConnects
  <2>1. Tells
    BY <1>1, NoticeEffect, ConnectEffect
  <2>2. Spins'
    <3>1. UNCHANGED <<asked, picker, dialog>>
      BY <2>1 DEF Tells
    <3> QED
      BY <2>1, <3>1, TellsCovered, SpinsStay
  <2> QED
    BY <2>1, <2>2, TellsShape, TellsWhere, TellsTrusted
<1>2. CASE DaemonReads \/ ChangeFile \/ LinkLost
  <2>1. DaemonActs
    BY <1>2, DaemonReadsEffect, ChangeFileEffect, LinkLostEffect
  <2>2. Spins'
    <3>1. UNCHANGED <<asked, picker, dialog>>
      BY <2>1 DEF DaemonActs
    <3> QED
      BY <2>1, <3>1, DaemonCovered, SpinsStay
  <2> QED
    BY <2>1, <2>2, DaemonShape, DaemonWhere, DaemonTrusted
<1>3. CASE TabDrops \/ ServerRestart
  <2>1. TabLoses
    BY <1>3, LosesEffect
  <2>2. Spins'
    <3>1. UNCHANGED <<asked, picker, dialog>>
      BY <2>1 DEF TabLoses
    <3> QED
      BY <2>1, <3>1, LosesCovered, SpinsStay
  <2> QED
    BY <2>1, <2>2, TabLosesShape, LosesWhere, LosesTrusted
<1>4. CASE TabReconnects
  <2>1. Shape' /\ Reopens
    BY <1>4, ReopensShape
  <2>2. Spins'
    <3>1. UNCHANGED <<asked, picker, dialog>>
      BY <2>1 DEF Reopens
    <3> QED
      BY <2>1, <3>1, ReopensCovered, SpinsStay
  <2> QED
    BY <2>1, <2>2, ReopensWhere, ReopensTrusted
<1> QED
  BY <1>1, <1>2, <1>3, <1>4

LEMMA RequestsStill ==
    ASSUME RequestsInv, UNCHANGED vars
    PROVE  RequestsInv'
<1>1. Shape'
  BY DEF vars, RequestsInv, Shape, Types, Sockets, SecondTry, Latest, Issued
<1>2. Where'
  BY DEF vars, RequestsInv, Where, Known, Outgoing, PendingOnce, PendingRes, Distinct, Issued
<1>3. Trusted'
  BY DEF vars, RequestsInv, Trusted, Granted
<1>4. Spins'
  <2>1. UNCHANGED <<asked, picker, dialog>> /\ \A r \in Issued : Covered(r) => Covered(r)'
    BY DEF vars, Covered, UnderWay
  <2> QED
    BY <2>1, SpinsStay DEF RequestsInv
<1> QED
  BY <1>1, <1>2, <1>3, <1>4 DEF RequestsInv

LEMMA RequestsStep == RequestsInv /\ [Next]_vars => RequestsInv'
<1> SUFFICES ASSUME RequestsInv, [Next]_vars PROVE RequestsInv'
  OBVIOUS
<1> QED
  BY TabKeeps, ServerKeeps, LinksKeep, RequestsStill DEF Next

\* Every variable of the tab, the server and the device keeps its type.
THEOREM RequestsTyped == Spec => []TypeOK
<1>1. RequestsInv => TypeOK
  <2> SUFFICES ASSUME RequestsInv PROVE TypeOK
    OBVIOUS
  <2>1. answers \in [Request -> 0..MaxRequests]
    <3>1. \A r \in Request : answers[r] \in Nat /\ answers[r] <= 1 /\ 1 <= MaxRequests
      <4>1. answers \in [Request -> Nat] /\ \A r \in Request : answers[r] <= 1
        BY DEF RequestsInv, Shape, Types, Where, PendingOnce
      <4>2. \A r \in Request : 1 <= MaxRequests
        BY RequestsAssumption DEF Request
      <4> QED
        BY <4>1, <4>2
    <3>2. \A r \in Request : answers[r] \in 0..MaxRequests
      BY <3>1, RequestsAssumption
    <3>3. answers = [r \in Request |-> answers[r]]
      BY DEF RequestsInv, Shape, Types
    <3> QED
      BY <3>2, <3>3
  <2> QED
    BY <2>1 DEF RequestsInv, Shape, Types, TypeOK, Ask, TabType, PickerType, Message,
       RegType, DeviceType
<1> QED
  BY <1>1, RequestsInitially, RequestsStep, PTL DEF Spec

\* The server answers a request at most once, and none that it still keeps:
\* the daemon's answer, the sweeps and a device that is gone exclude each other.
THEOREM RequestsAnsweredOnce == Spec => []AnsweredOnce
<1>1. RequestsInv => AnsweredOnce
  BY DEF RequestsInv, Where, PendingOnce, AnsweredOnce
<1> QED
  BY <1>1, RequestsInitially, RequestsStep, PTL DEF Spec

\* The picker at rest shows the directory that was asked for last.
THEOREM PickerIsCurrent == Spec => []PickerShowsLatest
<1>1. RequestsInv => PickerShowsLatest
  BY DEF RequestsInv, Spins
<1> QED
  BY <1>1, RequestsInitially, RequestsStep, PTL DEF Spec

\* Codex is shown as enabled, and a session created for it, only once
\* client.json has enabled it, whoever has written the file.
THEOREM EnabledIsTrue == Spec => []EnabledIsWritten
<1>1. RequestsInv => EnabledIsWritten
  BY DEF RequestsInv, Trusted, EnabledIsWritten
<1> QED
  BY <1>1, RequestsInitially, RequestsStep, PTL DEF Spec

\* The picker and the dialog wait only for something that is under way.
THEOREM SpinnersAreAnswered == Spec => []SpinnersHaveCause
<1>1. RequestsInv => SpinnersHaveCause
  <2> SUFFICES ASSUME RequestsInv PROVE SpinnersHaveCause
    OBVIOUS
  <2>1. DOMAIN asked = Issued
    BY ListRange DEF RequestsInv, Shape, Types, Issued
  <2>2. picker.loading /\ tab.open /\ asked[picker.req].conn = tab.conn => UnderWay(picker.req)
    BY DEF RequestsInv, Spins, PickerSpins, Covered
  <2>3. dialog = "waiting" =>
           \E r \in Issued : LastEnable(r) /\
              (tab.open /\ asked[r].conn = tab.conn => UnderWay(r))
    BY DEF RequestsInv, Spins, DialogSpins, Covered
  <2> QED
    BY <2>1, <2>2, <2>3 DEF SpinnersHaveCause, LastEnable
<1> QED
  BY <1>1, RequestsInitially, RequestsStep, PTL DEF Spec
=============================================================================
