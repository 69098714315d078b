--------------------------- MODULE DeviceRegistry ---------------------------
(***************************************************************************)
(* The devices that are connected.  A daemon dials the server with the     *)
(* token it read when it started; the upgrade of the connection checks the *)
(* token, and the hello that follows on the new socket registers the       *)
(* device.  The user revokes a device from the browser, which deletes the  *)
(* token's row and ends the registered socket.                             *)
(*                                                                         *)
(* Of what a daemon sends, only the hello matters here; SessionTurn has    *)
(* the rest, for one device.                                               *)
(***************************************************************************)
EXTENDS DeviceTokens

CONSTANTS
    MaxConns,      \* sockets the daemons may open
    MaxFaults      \* links lost, daemons stopped, hellos late, server restarts

ASSUME RegistryAssumption == {MaxConns, MaxFaults} \subseteq Nat

Conn   == 1..MaxConns
NoConn == 0

VARIABLES
    entry,         \* entry[t]: the socket of the registered device t
    sock,          \* sock[c]: the server's end of socket c
    shown,         \* the device list last broadcast to the browser tabs
    daemon,        \* daemon[m]: the daemon process of machine m
    nconn,         \* sockets opened so far
    faults         \* failures so far

registryVars == <<entry, sock, shown, daemon, nconn, faults>>

\* state is readyState; hello tells whether the frame is on its way or has been
\* handled (helloReceived).
Sock == [state : {"none", "open", "closing", "closed"},
         device : Token \cup {NoToken},
         hello : {"sent", "lost", "received"}]

\* A daemon that does not run has neither token nor socket.
Stopped == [token |-> NoToken, conn |-> NoConn]
Daemon  == [token : Token, conn : Conn \cup {NoConn}] \cup {Stopped}

Registered(e) == {t \in Token : e[t] # NoConn}

-----------------------------------------------------------------------------
(* DeviceRegistry *)

\* close() does nothing to a socket that is already closing.
CloseSocket(s, c) ==
    IF c # NoConn /\ s[c].state = "open"
    THEN [s EXCEPT ![c].state = "closing"] ELSE s

\* Mutant: the socket that is replaced stays open.
RegisterBeside(c) ==
    LET t == sock[c].device
    IN  /\ sock' = [sock EXCEPT ![c].hello = "received"]
        /\ entry' = [entry EXCEPT ![t] = c]

\* register: the newest socket wins, the one it replaces is closed.
Register(c) ==
    LET t == sock[c].device
        heard == [sock EXCEPT ![c].hello = "received"]
    IN  /\ sock' = IF entry[t] = c THEN heard ELSE CloseSocket(heard, entry[t])
        /\ entry' = [entry EXCEPT ![t] = c]

\* Mutant: any close of a socket of the device unregisters it.
UnregisterAny(c) ==
    entry' = IF sock[c].hello = "received"
             THEN [entry EXCEPT ![sock[c].device] = NoConn] ELSE entry

\* unregister(id, ws) in the close handler of a socket that has said hello.
Unregister(c) ==
    entry' = [t \in Token |-> IF entry[t] = c THEN NoConn ELSE entry[t]]

-----------------------------------------------------------------------------
(* The server's handlers *)

\* The first frame on a socket.  A socket that is closing still delivers it.
ReceiveHello(c) ==
    /\ sock[c].state \in {"open", "closing"} /\ sock[c].hello = "sent"
    /\ Register(c)
    /\ shown' = Registered(entry')
    /\ UNCHANGED <<daemon, nconn, faults, tokens, saved>>

\* No hello within ten seconds.
HelloTimeout(c) ==
    /\ sock[c].state = "open" /\ sock[c].hello # "received"
    /\ faults < MaxFaults
    /\ faults' = faults + 1
    /\ sock' = CloseSocket(sock, c)
    /\ UNCHANGED <<entry, shown, daemon, nconn, tokens, saved>>

\* TCP reports that the daemon has left the socket.
SocketEnds(c) ==
    /\ sock[c].state = "open"
    /\ \A m \in Machine : daemon[m].conn # c
    /\ sock' = CloseSocket(sock, c)
    /\ UNCHANGED <<entry, shown, daemon, nconn, faults, tokens, saved>>

\* Mutant: the browsers are not told.
CloseUntold(c) ==
    /\ sock[c].state = "closing" /\ sock[c].hello # "sent"
    /\ sock' = [sock EXCEPT ![c].state = "closed"]
    /\ Unregister(c)
    /\ UNCHANGED <<shown, daemon, nconn, faults, tokens, saved>>

\* 'close', after the frames that did arrive.
SocketCloses(c) ==
    /\ sock[c].state = "closing" /\ sock[c].hello # "sent"
    /\ sock' = [sock EXCEPT ![c].state = "closed"]
    /\ Unregister(c)
    /\ shown' = IF sock[c].hello = "received" THEN Registered(entry') ELSE shown
    /\ UNCHANGED <<daemon, nconn, faults, tokens, saved>>

\* DELETE /api/device/:id, then terminate.  The button is beside a device that
\* the sidebar shows, or showed when it was pressed.
Revoke(t) ==
    /\ t \in tokens
    /\ \E c \in Conn : sock[c].device = t /\ sock[c].hello = "received"
    /\ tokens' = tokens \ {t}
    /\ sock' = CloseSocket(sock, entry[t])
    /\ entry' = [entry EXCEPT ![t] = NoConn]
    /\ shown' = Registered(entry')
    /\ UNCHANGED <<daemon, nconn, faults, saved>>

\* The table survives, the sockets and the registry do not; the browsers
\* reconnect and are sent the list anew.
ServerRestart ==
    /\ faults < MaxFaults
    /\ faults' = faults + 1
    /\ entry' = [t \in Token |-> NoConn]
    /\ sock' = [c \in Conn |-> IF sock[c].state = "none" THEN sock[c]
                              ELSE [sock[c] EXCEPT !.state = "closed"]]
    /\ shown' = {}
    /\ UNCHANGED <<daemon, nconn, tokens, saved>>

-----------------------------------------------------------------------------
(* The daemons *)

\* client.json is read once, at the start.  A daemon that finds no token in it
\* only collects refusals, until it is restarted: it counts as not running.
StartDaemon(m) ==
    /\ daemon[m].token = NoToken /\ saved[m] # NoToken
    /\ daemon' = [daemon EXCEPT ![m] = [token |-> saved[m], conn |-> NoConn]]
    /\ UNCHANGED <<entry, sock, shown, nconn, faults, tokens, saved>>

\* Mutant: the upgrade does not look the token up.
DialUnchecked(m) ==
    /\ daemon[m].conn = NoConn
    /\ nconn < MaxConns
    /\ nconn' = nconn + 1
    /\ daemon' = [daemon EXCEPT ![m].conn = nconn']
    /\ sock' = [sock EXCEPT ![nconn'] = [state |-> "open",
                                         device |-> daemon[m].token,
                                         hello |-> "sent"]]
    /\ UNCHANGED <<entry, shown, faults, tokens, saved>>

\* The upgrade looks the token up; one that is not in the table gets a 401 and
\* the daemon tries again later.
Dial(m) ==
    /\ daemon[m].token \in tokens /\ daemon[m].conn = NoConn
    /\ nconn < MaxConns
    /\ nconn' = nconn + 1
    /\ daemon' = [daemon EXCEPT ![m].conn = nconn']
    /\ sock' = [sock EXCEPT ![nconn'] = [state |-> "open",
                                         device |-> daemon[m].token,
                                         hello |-> "sent"]]
    /\ UNCHANGED <<entry, shown, faults, tokens, saved>>

\* The daemon leaves its socket; a hello on its way may still arrive.
LeaveSocket(m) ==
    LET c == daemon[m].conn
    IN  \/ UNCHANGED sock
        \/ /\ sock[c].hello = "sent"
           /\ sock' = [sock EXCEPT ![c].hello = "lost"]

LinkLost(m) ==
    /\ daemon[m].conn # NoConn
    /\ faults < MaxFaults
    /\ faults' = faults + 1
    /\ LeaveSocket(m)
    /\ daemon' = [daemon EXCEPT ![m].conn = NoConn]
    /\ UNCHANGED <<entry, shown, nconn, tokens, saved>>

\* The daemon reads that the server closes the socket, perhaps before the server
\* sees the end of it.
ServerGone(m) ==
    /\ daemon[m].conn # NoConn
    /\ sock[daemon[m].conn].state \in {"closing", "closed"}
    /\ LeaveSocket(m)
    /\ daemon' = [daemon EXCEPT ![m].conn = NoConn]
    /\ UNCHANGED <<entry, shown, nconn, faults, tokens, saved>>

\* `vvibe restart`, or a crash.
StopDaemon(m) ==
    /\ daemon[m].token # NoToken
    /\ faults < MaxFaults
    /\ faults' = faults + 1
    /\ IF daemon[m].conn = NoConn THEN UNCHANGED sock ELSE LeaveSocket(m)
    /\ daemon' = [daemon EXCEPT ![m] = Stopped]
    /\ UNCHANGED <<entry, shown, nconn, tokens, saved>>

-----------------------------------------------------------------------------
RegistryInit ==
    /\ entry = [t \in Token |-> NoConn]
    /\ sock = [c \in Conn |-> [state |-> "none", device |-> NoToken,
                               hello |-> "lost"]]
    /\ shown = {}
    /\ daemon = [m \in Machine |-> Stopped]
    /\ nconn = 0
    /\ faults = 0

RegistryNext ==
    \/ \E c \in Conn :
          \/ ReceiveHello(c)
          \/ HelloTimeout(c)
          \/ SocketEnds(c)
          \/ SocketCloses(c)
    \/ \E t \in Token : Revoke(t)
    \/ ServerRestart
    \/ \E m \in Machine :
          \/ StartDaemon(m)
          \/ Dial(m)
          \/ LinkLost(m)
          \/ ServerGone(m)
          \/ StopDaemon(m)

\* The server's event loop and TCP make progress, and a daemon that runs dials.
RegistryFairness ==
    /\ \A c \in Conn : /\ WF_registryVars(ReceiveHello(c))
                       /\ WF_registryVars(SocketEnds(c))
                       /\ WF_registryVars(SocketCloses(c))
    /\ \A m \in Machine : /\ WF_registryVars(Dial(m))
                          /\ WF_registryVars(ServerGone(m))

-----------------------------------------------------------------------------
(* Properties *)

\* Every variable has its type.
RegistryTypeOK ==
    /\ entry \in [Token -> 0..nconn]
    /\ sock \in [Conn -> Sock]
    /\ shown \subseteq Token
    /\ daemon \in [Machine -> Daemon]
    /\ nconn \in 0..MaxConns
    /\ faults \in 0..MaxFaults

\* A device is heard on one open socket, the registered one: a socket that was
\* replaced or revoked is on its way out.
OneSocketPerDevice ==
    \A c \in Conn :
        sock[c].state = "open" /\ sock[c].hello = "received"
            => entry[sock[c].device] = c

\* The sidebar shows the devices that are registered, no more and no fewer.
ShownIsRegistered == shown = Registered(entry)

\* A daemon whose token is good ends up registered on the socket it holds,
\* however its sockets were lost and in whatever order the server noticed.
Reachable(m) ==
    LET t == daemon[m].token
    IN  t \in tokens => /\ daemon[m].conn # NoConn
                        /\ entry[t] = daemon[m].conn
                        /\ sock[entry[t]].state = "open"

ComesOnline == \A m \in Machine : <>[]Reachable(m)

\* A device that the user has revoked is not registered.
RevokedIsGone == Registered(entry) \subseteq tokens
=============================================================================
