--------------------------- MODULE BrowserRequests ---------------------------
(***************************************************************************)
(* What a browser tab asks of a device outside of any session: the         *)
(* directory listings of the folder picker and the request that enables    *)
(* codex.  The server forwards such a request, keeps it in a map with a    *)
(* time to live, and answers it once: when the daemon does, when the map   *)
(* is swept, or at once when the device is not there.                      *)
(*                                                                         *)
(* There is one tab, whose socket may be lost and opened anew, and one     *)
(* device, which may be lost and come back; DeviceRegistry has the sockets *)
(* of the latter in detail.  Its client.json is changed behind the         *)
(* daemon's back as well, by the commands of vvibe (DaemonConfig); the     *)
(* environment variable that stands in for its codex setting is unset.     *)
(***************************************************************************)
EXTENDS Integers, Sequences, Functions, Lists

CONSTANTS
    MaxRequests,   \* requests the tab makes
    MaxFaults      \* sockets lost, daemon and server restarts

ASSUME RequestsAssumption == {MaxRequests, MaxFaults} \subseteq Nat

VARIABLES
    asked,         \* the requests so far, their kind and the socket they are for
    answers,       \* answers[r]: how often the server has answered request r
    tab,           \* the tab's socket, its outgoing queue, its device list
    picker,        \* DirectoryPicker
    dialog,        \* NewSessionDialog, with codex chosen
    toServer,      \* on their way to the server: requests
    toTab,         \* on their way to the tab: answers and device lists
    pending,       \* pendingDirListings and pendingCodexEnables
    reg,           \* the device in the registry
    device,        \* the daemon, client.json, and what is on its way from and to it;
                   \* for the properties, whether the file has ever enabled codex
    faults         \* failures so far

vars == <<asked, answers, tab, picker, dialog, toServer, toTab, pending, reg,
          device, faults>>

Request   == 1..MaxRequests
NoRequest == 0

ListKind == {"dir", "home"}         \* a path, or the daemon's home directory
Kind     == ListKind \cup {"enable"}

Conn == 0..MaxFaults
Shown == {"offline", "disabled", "enabled"}

Answer == [type : {"answer"}, re : Request, ok : BOOLEAN, named : BOOLEAN]
News   == [type : {"devices"}, list : Shown]

Pending == [re : Request, conn : Conn, due : BOOLEAN]
Ack     == [re : Request, ok : BOOLEAN, named : BOOLEAN]

\* The reader's parts of the state.
Listing(re, bad) == [re |-> re, bad |-> bad]
Closed == [open |-> FALSE, req |-> NoRequest, loading |-> FALSE,
           listing |-> Listing(NoRequest, FALSE), tried |-> FALSE]

\* What the sidebar and the dialog are told of the device.
Info(r) == CASE r.state = "off" -> "offline"
             [] r.codex         -> "enabled"
             [] OTHER           -> "disabled"

-----------------------------------------------------------------------------
(* Sending *)

\* WSClient.send: a socket that is not open queues.
SendRequest(kind) ==
    /\ asked' = Append(asked, [kind |-> kind,
                               conn |-> IF tab.open THEN tab.conn ELSE tab.conn + 1])
    /\ IF tab.open
       THEN toServer' = Append(toServer, Len(asked')) /\ UNCHANGED tab
       ELSE tab' = [tab EXCEPT !.queue = Append(@, Len(asked'))] /\ UNCHANGED toServer

\* The bound leaves one request for the picker's second try.
MayAsk == Len(asked) + 1 < MaxRequests

\* send to the tab's socket conn, nothing when it is closed.
Sent(conn, messages) ==
    IF tab.open /\ tab.conn = conn THEN toTab \o messages ELSE toTab

Reply(re, ok, named) == [type |-> "answer", re |-> re, ok |-> ok, named |-> named]
Devices(r) == [type |-> "devices", list |-> Info(r)]

-----------------------------------------------------------------------------
(* The tab *)

Fetch(kind) ==
    /\ SendRequest(kind)
    /\ picker' = [picker EXCEPT !.open = TRUE, !.req = Len(asked'), !.loading = TRUE]

OpenPicker(kind) ==
    /\ dialog \in {"open", "waiting"} /\ ~picker.open /\ MayAsk
    /\ Fetch(kind)
    /\ UNCHANGED <<answers, dialog, toTab, pending, reg, device, faults>>

\* A folder, or a path that is typed, while the last listing may be loading.
Navigate(kind) ==
    /\ picker.open /\ MayAsk
    /\ Fetch(kind)
    /\ UNCHANGED <<answers, dialog, toTab, pending, reg, device, faults>>

ClosePicker ==
    /\ picker.open
    /\ picker' = Closed
    /\ UNCHANGED <<asked, answers, tab, dialog, toServer, toTab, pending, reg,
                   device, faults>>

\* Submit: enable first where the device list says it is not.  Creating the
\* session closes the dialog; without a device it is created for none.
Submit ==
    /\ dialog = "open" /\ ~picker.open
    /\ IF tab.shown = "disabled"
       THEN /\ MayAsk
            /\ SendRequest("enable")
            /\ dialog' = "waiting"
       ELSE /\ dialog' = IF tab.shown = "enabled" THEN "created" ELSE "closed"
            /\ UNCHANGED <<asked, tab, toServer>>
    /\ UNCHANGED <<answers, picker, toTab, pending, reg, device, faults>>

\* A click beside the dialog closes it, while it waits too, and the picker with
\* it; it may be reopened.
ReopenDialog ==
    /\ dialog # "open"
    /\ dialog' = "open"
    /\ picker' = Closed
    /\ UNCHANGED <<asked, answers, tab, toServer, toTab, pending, reg, device, faults>>

\* Mutant: any listing is shown, not only that of the latest request.
TakeListingAny(m) ==
    /\ picker' = [picker EXCEPT !.loading = FALSE, !.listing = Listing(m.re, ~m.ok)]
    /\ UNCHANGED <<asked, tab, toServer>>

\* Mutant: every failure is followed by a request for the home directory.
TakeListingRetrying(m) ==
    IF ~picker.open \/ m.re # picker.req
    THEN UNCHANGED <<asked, tab, picker, toServer>>
    ELSE IF ~m.ok /\ m.named
    THEN /\ SendRequest("home")
         /\ picker' = [picker EXCEPT !.req = Len(asked'), !.loading = TRUE]
    ELSE /\ picker' = [picker EXCEPT !.loading = FALSE, !.listing = Listing(m.re, ~m.ok)]
         /\ UNCHANGED <<asked, tab, toServer>>

\* A listing that is not the latest is ignored; the first failure of a path is
\* followed by a request for the home directory.
TakeListing(m) ==
    IF ~picker.open \/ m.re # picker.req
    THEN UNCHANGED <<asked, tab, picker, toServer>>
    ELSE IF ~m.ok /\ ~picker.tried /\ m.named
    THEN /\ SendRequest("home")
         /\ picker' = [picker EXCEPT !.req = Len(asked'), !.tried = TRUE, !.loading = TRUE]
    ELSE /\ picker' = [picker EXCEPT !.loading = FALSE, !.listing = Listing(m.re, ~m.ok)]
         /\ UNCHANGED <<asked, tab, toServer>>

\* codex_enable_result names the device and not the request.  On success the
\* session is created, which closes the dialog and a picker in front of it.
TakeResult(m) ==
    IF dialog # "waiting" THEN UNCHANGED <<dialog, picker>>
    ELSE IF m.ok THEN dialog' = "created" /\ picker' = Closed
    ELSE dialog' = "open" /\ UNCHANGED picker

TakeMessage ==
    /\ toTab # <<>>
    /\ toTab' = Tail(toTab)
    /\ LET m == Head(toTab)
       IN  CASE m.type = "devices" ->
                  /\ tab' = [tab EXCEPT !.shown = m.list]
                  /\ UNCHANGED <<asked, picker, dialog, toServer>>
             [] m.type = "answer" /\ asked[m.re].kind \in ListKind ->
                  TakeListing(m) /\ UNCHANGED dialog
             [] OTHER ->
                  TakeResult(m) /\ UNCHANGED <<asked, tab, toServer>>
    /\ UNCHANGED <<answers, pending, reg, device, faults>>

\* What is on its way is lost with the socket.
TabDrops ==
    /\ tab.open /\ faults < MaxFaults
    /\ faults' = faults + 1
    /\ tab' = [tab EXCEPT !.open = FALSE]
    /\ toServer' = <<>> /\ toTab' = <<>>
    /\ UNCHANGED <<asked, answers, picker, dialog, pending, reg, device>>

\* The socket opens again: the queue is sent, the server sends its device list.
TabReconnects ==
    /\ ~tab.open
    /\ tab' = [tab EXCEPT !.open = TRUE, !.conn = @ + 1, !.queue = <<>>]
    /\ toServer' = tab.queue
    /\ toTab' = <<Devices(reg)>>
    /\ UNCHANGED <<asked, answers, picker, dialog, pending, reg, device, faults>>

-----------------------------------------------------------------------------
(* The server *)

\* Mutant: a device whose socket is closing counts as one that is there.
HandleRequestBlindly ==
    /\ toServer # <<>>
    /\ toServer' = Tail(toServer)
    /\ LET r == Head(toServer)
       IN  IF reg.state = "off"
           THEN /\ answers' = [answers EXCEPT ![r] = @ + 1]
                /\ toTab' = Sent(tab.conn, <<Reply(r, FALSE, asked[r].kind = "dir")>>)
                /\ UNCHANGED <<pending, device>>
           ELSE /\ pending' = IF reg.state = "open"
                              THEN Append(pending, [re |-> r, conn |-> tab.conn, due |-> FALSE])
                              ELSE pending
                /\ device' = [device EXCEPT !.down = IF device.on THEN Append(@, r) ELSE @]
                /\ UNCHANGED <<answers, toTab>>
    /\ UNCHANGED <<asked, tab, picker, dialog, reg, faults>>

\* list_dir and enable_codex_on_device: forwarded to a device that is there,
\* answered at once when it is not, or when its socket is closing.
HandleRequest ==
    /\ toServer # <<>>
    /\ toServer' = Tail(toServer)
    /\ LET r == Head(toServer)
       IN  IF reg.state = "open"
           THEN /\ pending' = Append(pending, [re |-> r, conn |-> tab.conn, due |-> FALSE])
                /\ device' = [device EXCEPT !.down = IF device.on THEN Append(@, r) ELSE @]
                /\ UNCHANGED <<answers, toTab>>
           ELSE /\ answers' = [answers EXCEPT ![r] = @ + 1]
                /\ toTab' = Sent(tab.conn, <<Reply(r, FALSE, asked[r].kind = "dir")>>)
                /\ UNCHANGED <<pending, device>>
    /\ UNCHANGED <<asked, tab, picker, dialog, reg, faults>>

Without(s, r) == Keep(s, {p \in Range(s) : p.re # r})

\* Mutant: the request stays in its map.
AnswerKept(p, ack) ==
    /\ answers' = [answers EXCEPT ![p.re] = @ + 1]
    /\ reg' = IF asked[p.re].kind = "enable" /\ ack.ok /\ reg.state # "off"
              THEN [reg EXCEPT !.codex = TRUE] ELSE reg
    /\ toTab' = Sent(p.conn, <<Reply(p.re, ack.ok, ack.named)>>)
    /\ UNCHANGED pending

\* The daemon's answer to a request that is pending: it leaves its map, codex is
\* marked as enabled and every tab told, and the tab that asked is answered.
AnswerPending(p, ack) ==
    LET enabled == asked[p.re].kind = "enable" /\ ack.ok
    IN  /\ pending' = Without(pending, p.re)
        /\ answers' = [answers EXCEPT ![p.re] = @ + 1]
        /\ reg' = IF enabled /\ reg.state # "off" THEN [reg EXCEPT !.codex = TRUE] ELSE reg
        /\ toTab' = LET told == IF enabled THEN Sent(tab.conn, <<Devices(reg')>>) ELSE toTab
                    IN  IF tab.open /\ tab.conn = p.conn
                        THEN Append(told, Reply(p.re, ack.ok, ack.named)) ELSE told

\* daemon_dir_listing and daemon_codex_enable_ack; too late, they are dropped.
ReceiveAck ==
    /\ device.up # <<>>
    /\ device' = [device EXCEPT !.up = Tail(@)]
    /\ LET ack == Head(device.up)
       IN  IF \E p \in Range(pending) : p.re = ack.re
           THEN \E p \in Range(pending) : p.re = ack.re /\ AnswerPending(p, ack)
           ELSE UNCHANGED <<pending, answers, reg, toTab>>
    /\ UNCHANGED <<asked, tab, picker, dialog, toServer, faults>>

\* Five seconds have passed since the request; the oldest are due first.
FallDue ==
    \E i \in DOMAIN pending :
        /\ ~pending[i].due
        /\ \A j \in 1..(i - 1) : pending[j].due
        /\ pending' = [pending EXCEPT ![i].due = TRUE]
        /\ UNCHANGED <<asked, answers, tab, picker, dialog, toServer, toTab, reg,
                       device, faults>>

\* Mutant: the requests of a tab whose socket is gone stay in the map.
SweepLive(kinds) ==
    LET over == {p \in Range(pending) : /\ p.due /\ asked[p.re].kind \in kinds
                                        /\ tab.open /\ p.conn = tab.conn}
        mine == Keep(pending, over)
    IN  /\ over # {}
        /\ pending' = Keep(pending, Range(pending) \ over)
        /\ answers' = [r \in Request |->
              IF \E p \in over : p.re = r THEN answers[r] + 1 ELSE answers[r]]
        /\ toTab' = toTab \o [i \in DOMAIN mine |->
                        Reply(mine[i].re, FALSE, asked[mine[i].re].kind = "dir")]
        /\ UNCHANGED <<asked, tab, picker, dialog, toServer, reg, device, faults>>

\* The timer of one of the two maps: whatever is due is answered with a failure.
Sweep(kinds) ==
    LET over == {p \in Range(pending) : p.due /\ asked[p.re].kind \in kinds}
        mine == Keep(pending, {p \in over : tab.open /\ p.conn = tab.conn})
    IN  /\ over # {}
        /\ pending' = Keep(pending, Range(pending) \ over)
        /\ answers' = [r \in Request |->
              IF \E p \in over : p.re = r THEN answers[r] + 1 ELSE answers[r]]
        /\ toTab' = toTab \o [i \in DOMAIN mine |->
                        Reply(mine[i].re, FALSE, asked[mine[i].re].kind = "dir")]
        /\ UNCHANGED <<asked, tab, picker, dialog, toServer, reg, device, faults>>

\* The registry is changed and the tab is told.
Told(r) == reg' = r /\ toTab' = Sent(tab.conn, <<Devices(r)>>)

\* The server notices that the daemon is gone: first the socket is closing, then
\* 'close' unregisters it.
NoticeLeft ==
    /\ ~device.on
    /\ \/ /\ reg.state = "open"
          /\ reg' = [reg EXCEPT !.state = "closing"]
          /\ UNCHANGED toTab
       \/ /\ reg.state = "closing" /\ device.up = <<>>
          /\ Told([reg EXCEPT !.state = "off"])
    /\ UNCHANGED <<asked, answers, tab, picker, dialog, toServer, pending, device, faults>>

\* The maps, the registry and every socket are gone; client.json is not.
ServerRestart ==
    /\ faults < MaxFaults
    /\ faults' = faults + 1
    /\ pending' = <<>>
    /\ reg' = [state |-> "off", codex |-> FALSE]
    /\ tab' = [tab EXCEPT !.open = FALSE]
    /\ toServer' = <<>> /\ toTab' = <<>>
    /\ device' = [device EXCEPT !.on = FALSE, !.down = <<>>, !.up = <<>>]
    /\ UNCHANGED <<asked, answers, picker, dialog>>

-----------------------------------------------------------------------------
(* The daemon *)

\* Whether client.json enables codex from now on; one that cannot be read does
\* not, until it is mended.
Becomes(trust) == [device EXCEPT !.trust = trust, !.written = @ \/ trust]

\* A save that fails leaves the file as it was, or cut short.
Unsaved == {device.trust, FALSE}

\* Mutant: the answer comes before the file is written, whatever becomes of it.
EnableUnsaved(r) ==
    \E trust \in {TRUE} \cup Unsaved :
        device' = [Becomes(trust) EXCEPT
                      !.down = Tail(@),
                      !.up = Append(@, [re |-> r, ok |-> TRUE, named |-> TRUE])]

\* handleEnableCodex: codex may be missing, client.json unreadable, or the save
\* fail.
Enable(r) ==
    \E ok \in BOOLEAN : \E trust \in IF ok THEN {TRUE} ELSE Unsaved :
        device' = [Becomes(trust) EXCEPT
                      !.down = Tail(@),
                      !.up = Append(@, [re |-> r, ok |-> ok, named |-> TRUE])]

\* handleListDir: only without a home directory has the answer no path.
ListDir(r) ==
    \E ok, named \in BOOLEAN :
        /\ ok \/ asked[r].kind = "dir" => named
        /\ device' = [device EXCEPT !.down = Tail(@),
                                    !.up = Append(@, [re |-> r, ok |-> ok, named |-> named])]

\* The reader of the daemon's socket; an old binary ignores both messages.
DaemonReads ==
    /\ device.on /\ device.down # <<>>
    /\ LET r == Head(device.down)
       IN  \/ ~device.knows /\ device' = [device EXCEPT !.down = Tail(@)]
           \/ device.knows /\ asked[r].kind = "enable" /\ Enable(r)
           \/ device.knows /\ asked[r].kind \in ListKind /\ ListDir(r)
    /\ UNCHANGED <<asked, answers, tab, picker, dialog, toServer, toTab, pending, reg, faults>>

\* Another process saves client.json: `vvibe codex enable` or `disable`, or a
\* login with the copy it read before.  It may also cut it short.
ChangeFile ==
    /\ device' = Becomes(~device.trust)
    /\ UNCHANGED <<asked, answers, tab, picker, dialog, toServer, toTab, pending, reg, faults>>

\* The daemon or its link fails and some of its last answers do not arrive.
LinkLost ==
    /\ device.on /\ faults < MaxFaults
    /\ faults' = faults + 1
    /\ \E n \in 0..Len(device.up) :
          device' = [device EXCEPT !.on = FALSE, !.down = <<>>, !.up = SubSeq(@, 1, n)]
    /\ UNCHANGED <<asked, answers, tab, picker, dialog, toServer, toTab, pending, reg>>

\* Dial and hello, with the configuration of the daemon's start, which may have
\* been started again meanwhile.
DeviceConnects ==
    /\ ~device.on
    /\ \E loaded \in {device.loaded, device.trust} :
          /\ device' = [device EXCEPT !.on = TRUE, !.loaded = loaded]
          /\ Told([state |-> "open", codex |-> loaded])
    /\ UNCHANGED <<asked, answers, tab, picker, dialog, toServer, pending, faults>>

-----------------------------------------------------------------------------
Init ==
    /\ asked = <<>>
    /\ answers = [r \in Request |-> 0]
    /\ \E knows, trust \in BOOLEAN :
          /\ device = [on |-> TRUE, knows |-> knows, loaded |-> trust, trust |-> trust,
                       written |-> trust, down |-> <<>>, up |-> <<>>]
          /\ reg = [state |-> "open", codex |-> trust]
    /\ tab = [open |-> TRUE, conn |-> 0, queue |-> <<>>, shown |-> Info(reg)]
    /\ picker = Closed
    /\ dialog = "open"
    /\ toServer = <<>> /\ toTab = <<>>
    /\ pending = <<>>
    /\ faults = 0

Next ==
    \/ \E kind \in ListKind : OpenPicker(kind) \/ Navigate(kind)
    \/ ClosePicker
    \/ Submit
    \/ ReopenDialog
    \/ TakeMessage
    \/ TabDrops
    \/ TabReconnects
    \/ HandleRequest
    \/ ReceiveAck
    \/ FallDue
    \/ Sweep(ListKind)
    \/ Sweep({"enable"})
    \/ NoticeLeft
    \/ ServerRestart
    \/ DaemonReads
    \/ ChangeFile
    \/ LinkLost
    \/ DeviceConnects

\* The event loops of the tab and the server, and the server's two timers.  The
\* daemon need not answer nor come back.
Fairness ==
    /\ WF_vars(TakeMessage)
    /\ WF_vars(HandleRequest)
    /\ WF_vars(FallDue)
    /\ WF_vars(Sweep(ListKind))
    /\ WF_vars(Sweep({"enable"}))

Spec == Init /\ [][Next]_vars /\ Fairness

-----------------------------------------------------------------------------
(* Properties *)

\* Every variable has its type.
TypeOK ==
    /\ asked \in Seq([kind : Kind, conn : Conn]) /\ Len(asked) <= MaxRequests
    /\ answers \in [Request -> 0..MaxRequests]
    /\ tab \in [open : BOOLEAN, conn : Conn, queue : Seq(Request), shown : Shown]
    /\ picker \in [open : BOOLEAN, req : 0..Len(asked), loading : BOOLEAN,
                   listing : [re : 0..Len(asked), bad : BOOLEAN], tried : BOOLEAN]
    /\ dialog \in {"open", "waiting", "created", "closed"}
    /\ toServer \in Seq(Request)
    /\ toTab \in Seq(Answer \cup News)
    /\ pending \in Seq(Pending)
    /\ reg \in [state : {"off", "open", "closing"}, codex : BOOLEAN]
    /\ device \in [on : BOOLEAN, knows : BOOLEAN, loaded : BOOLEAN, trust : BOOLEAN,
                   written : BOOLEAN, down : Seq(Request), up : Seq(Ack)]
    /\ faults \in 0..MaxFaults

\* A request is answered at most once, and never while it is still pending: the
\* daemon's answer, the sweep and a lost device exclude each other.
AnsweredOnce ==
    \A r \in Request :
        /\ answers[r] <= 1
        /\ (\E p \in Range(pending) : p.re = r) => answers[r] = 0

\* When the picker is at rest, it shows the directory that was asked for last.
PickerShowsLatest == picker.open /\ ~picker.loading => picker.listing.re = picker.req

\* What the tab believes and what the dialog acts on has been true of the
\* machine: a session is created for it, and codex shown as enabled, only once
\* client.json has said so.  The file may have been changed since, and nobody
\* told: a hello goes on saying what it said at the daemon's start (see
\* ReportedIsHonoured in DaemonConfig).
EnabledIsWritten ==
    /\ reg.codex => device.written
    /\ tab.shown = "enabled" => device.written
    /\ dialog = "created" => device.written

\* The picker and the dialog wait only for something that is under way, as long as
\* the socket the request was sent on holds.
UnderWay(r) ==
    \/ r \in Range(toServer)
    \/ \E p \in Range(pending) : p.re = r
    \/ \E m \in Range(toTab) : m.type = "answer" /\ m.re = r

SpinnersHaveCause ==
    LET Held(r) == tab.open /\ asked[r].conn = tab.conn
        Enables == {r \in DOMAIN asked : asked[r].kind = "enable"}
    IN  /\ picker.loading /\ Held(picker.req) => UnderWay(picker.req)
        /\ dialog = "waiting" =>
              \E r \in Enables : /\ \A earlier \in Enables : earlier <= r
                                 /\ Held(r) => UnderWay(r)

\* Whatever is under way is answered in the end, whatever the daemon does.
AllAnswered == []<>(\A r \in DOMAIN asked : ~UnderWay(r))
=============================================================================
