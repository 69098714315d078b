------------------------- MODULE DeviceAccess_proofs -------------------------
(***************************************************************************)
(* Proofs about DeviceAccess, for every number of machines, codes, sockets *)
(* and failures: the types, that a device is heard on one open socket, and *)
(* that the sidebar shows the devices that are registered.                 *)
(*                                                                         *)
(* The pairing half of the invariant is proved in Pairing_proofs; the      *)
(* registry's steps keep it since they mint no token.                      *)
(***************************************************************************)
EXTENDS DeviceAccess, Pairing_proofs

\* A registered device's socket is one of its own that has said hello.
EntriesSound ==
    \A t \in Token : entry[t] # NoConn =>
        /\ sock[entry[t]].device = t
        /\ sock[entry[t]].hello = "received"

\* Sockets are numbered in the order they are opened, each for a device.
SocketsSound ==
    \A c \in Conn :
        /\ c > nconn => sock[c].state = "none"
        /\ sock[c].state # "none" => sock[c].device \in Token
        /\ sock[c].state = "none" => sock[c].hello = "lost"

\* The inductive invariant of the registry.
RInv == /\ RegistryTypeOK
        /\ EntriesSound
        /\ SocketsSound
        /\ OneSocketPerDevice
        /\ ShownIsRegistered

-----------------------------------------------------------------------------
\* Closing a socket changes its state and nothing else.
LEMMA ClosingOne ==
    ASSUME NEW s \in [Conn -> Sock], NEW c \in Conn \cup {NoConn}
    PROVE  /\ CloseSocket(s, c) \in [Conn -> Sock]
           /\ \A d \in Conn :
                 /\ CloseSocket(s, c)[d].device = s[d].device
                 /\ CloseSocket(s, c)[d].hello = s[d].hello
                 /\ CloseSocket(s, c)[d].state =
                       IF d = c /\ s[d].state = "open" THEN "closing" ELSE s[d].state
<1>1. CASE c # NoConn /\ s[c].state = "open"
  <2>1. CloseSocket(s, c) = [s EXCEPT ![c].state = "closing"] /\ c \in Conn
    BY <1>1 DEF CloseSocket
  <2>2. [s[c] EXCEPT !.state = "closing"] \in Sock
    BY <2>1 DEF Sock
  <2> QED
    BY <1>1, <2>1, <2>2 DEF Sock
<1>2. CASE ~(c # NoConn /\ s[c].state = "open")
  <2>1. CloseSocket(s, c) = s
    BY <1>2 DEF CloseSocket
  <2>2. NoConn \notin Conn
    BY DEF NoConn, Conn
  <2> QED
    BY <1>2, <2>1, <2>2
<1> QED
  BY <1>1, <1>2

\* What the types say, in the form the steps use.
LEMMA RegistryTypes ==
    ASSUME RInv
    PROVE  /\ entry \in [Token -> 0..nconn] /\ sock \in [Conn -> Sock]
           /\ nconn \in 0..MaxConns /\ faults \in 0..MaxFaults
           /\ MaxConns \in Nat /\ MaxFaults \in Nat
           /\ \A t \in Token : entry[t] \in Conn \cup {NoConn}
           /\ NoConn \notin Conn
  BY RegistryAssumption DEF RInv, RegistryTypeOK, Conn, NoConn

\* A step that touches the sockets' states only towards their end, and no entry,
\* keeps the invariant.
LEMMA SocketsFade ==
    ASSUME RInv, UNCHANGED <<entry, shown, nconn>>,
           sock' \in [Conn -> Sock], daemon' \in [Machine -> Daemon],
           faults' \in 0..MaxFaults,
           \A c \in Conn :
              /\ sock'[c].device = sock[c].device
              /\ sock'[c].hello = "received" <=> sock[c].hello = "received"
              /\ sock'[c].state = "none" <=> sock[c].state = "none"
              /\ sock'[c].state = "open" => sock[c].state = "open"
              /\ sock[c].state = "none" => sock'[c].hello = "lost"
    PROVE  RInv'
<1>1. RegistryTypeOK'
  BY DEF RInv, RegistryTypeOK
<1>2. EntriesSound'
  BY RegistryTypes DEF RInv, EntriesSound
<1>3. SocketsSound'
  BY DEF RInv, SocketsSound
<1>4. OneSocketPerDevice'
  BY DEF RInv, OneSocketPerDevice
<1>5. ShownIsRegistered'
  BY DEF RInv, ShownIsRegistered, Registered
<1> QED
  BY <1>1, <1>2, <1>3, <1>4, <1>5 DEF RInv

\* The hello: the newest socket is registered, the one before it closed.
LEMMA Hearing ==
    ASSUME RInv, NEW c \in Conn, ReceiveHello(c)
    PROVE  RInv'
<1> DEFINE t == sock[c].device
           heard == [sock EXCEPT ![c].hello = "received"]
<1>1. /\ sock \in [Conn -> Sock] /\ c <= nconn /\ nconn \in Nat /\ t \in Token
      /\ entry \in [Token -> 0..nconn] /\ entry[t] \in Conn \cup {NoConn}
  BY RegistryTypes DEF RInv, SocketsSound, ReceiveHello, Conn
<1>2. /\ heard \in [Conn -> Sock]
      /\ \A d \in Conn : /\ heard[d].device = sock[d].device
                         /\ heard[d].state = sock[d].state
                         /\ heard[d].hello = IF d = c THEN "received" ELSE sock[d].hello
  BY <1>1 DEF Sock
<1>3. /\ entry' = [entry EXCEPT ![t] = c] /\ shown' = Registered(entry')
      /\ sock' = IF entry[t] = c THEN heard ELSE CloseSocket(heard, entry[t])
      /\ UNCHANGED <<daemon, nconn, faults>>
  BY DEF ReceiveHello, Register
<1> HIDE DEF heard
<1>4. /\ sock' \in [Conn -> Sock]
      /\ \A d \in Conn :
            /\ sock'[d].device = sock[d].device
            /\ sock'[d].hello = IF d = c THEN "received" ELSE sock[d].hello
            /\ sock'[d].state = IF d = entry[t] /\ d # c /\ sock[d].state = "open"
                                THEN "closing" ELSE sock[d].state
  BY <1>1, <1>2, <1>3, ClosingOne
<1>5. \A u \in Token : entry'[u] = IF u = t THEN c ELSE entry[u]
  BY <1>1, <1>3
<1>6. RegistryTypeOK'
  <2>1. entry' \in [Token -> 0..nconn']
    BY <1>1, <1>3 DEF Conn
  <2>2. shown' \subseteq Token
    BY <1>3 DEF Registered
  <2> QED
    BY <1>3, <1>4, <2>1, <2>2 DEF RInv, RegistryTypeOK
<1>7. EntriesSound'
  BY <1>1, <1>4, <1>5, RegistryTypes DEF RInv, EntriesSound
<1>8. SocketsSound'
  BY <1>1, <1>3, <1>4 DEF RInv, SocketsSound, ReceiveHello
<1>9. OneSocketPerDevice'
  <2>1. ASSUME NEW d \in Conn, sock'[d].state = "open" /\ sock'[d].hello = "received"
        PROVE  entry'[sock'[d].device] = d
    <3>1. CASE d = c
      BY <1>1, <1>4, <1>5, <3>1
    <3>2. CASE d # c
      <4>1. sock[d].state = "open" /\ sock[d].hello = "received" /\ d # entry[t]
        BY <1>4, <2>1, <3>2
      <4>2. entry[sock[d].device] = d /\ sock[d].device \in Token
        BY <4>1 DEF RInv, OneSocketPerDevice, SocketsSound
      <4>3. sock[d].device # t
        BY <4>1, <4>2
      <4> QED
        BY <1>4, <1>5, <4>2, <4>3
    <3> QED BY <3>1, <3>2
  <2> QED BY <2>1 DEF OneSocketPerDevice
<1>10. ShownIsRegistered'
  BY <1>3 DEF ShownIsRegistered, Registered
<1> QED
  BY <1>6, <1>7, <1>8, <1>9, <1>10 DEF RInv

\* 'close' removes the entry of this socket only.
LEMMA Closing ==
    ASSUME RInv, NEW c \in Conn, SocketCloses(c)
    PROVE  RInv'
<1>1. /\ sock \in [Conn -> Sock] /\ entry \in [Token -> 0..nconn] /\ NoConn \notin Conn
      /\ \A t \in Token : entry[t] \in Conn \cup {NoConn}
      /\ nconn \in Nat
  BY RegistryTypes
<1>2. /\ sock' = [sock EXCEPT ![c].state = "closed"]
      /\ entry' = [t \in Token |-> IF entry[t] = c THEN NoConn ELSE entry[t]]
      /\ UNCHANGED <<daemon, nconn, faults>>
  BY DEF SocketCloses, Unregister
<1>3. /\ sock' \in [Conn -> Sock]
      /\ \A d \in Conn : /\ sock'[d].device = sock[d].device
                         /\ sock'[d].hello = sock[d].hello
                         /\ sock'[d].state = IF d = c THEN "closed" ELSE sock[d].state
  BY <1>1, <1>2 DEF Sock
<1>4. shown' = Registered(entry')
  <2>1. CASE sock[c].hello = "received"
    BY <2>1 DEF SocketCloses
  <2>2. CASE sock[c].hello # "received"
    <3>1. \A t \in Token : entry[t] # c
      BY <2>2, <1>1 DEF RInv, EntriesSound
    <3> QED
      BY <2>2, <3>1, <1>2 DEF SocketCloses, RInv, ShownIsRegistered, Registered
  <2> QED BY <2>1, <2>2
<1>5. RegistryTypeOK'
  <2>1. entry' \in [Token -> 0..nconn'] /\ shown' \subseteq Token
    BY <1>1, <1>2, <1>4 DEF NoConn, Registered
  <2> QED
    BY <1>2, <1>3, <2>1 DEF RInv, RegistryTypeOK
<1>6. EntriesSound'
  BY <1>1, <1>2, <1>3 DEF RInv, EntriesSound
<1>7. SocketsSound'
  BY <1>2, <1>3 DEF RInv, SocketsSound, SocketCloses
<1>8. OneSocketPerDevice'
  <2>1. ASSUME NEW d \in Conn, sock'[d].state = "open" /\ sock'[d].hello = "received"
        PROVE  entry'[sock'[d].device] = d
    <3>1. d # c /\ sock[d].state = "open" /\ sock[d].hello = "received"
      BY <1>3, <2>1
    <3>2. entry[sock[d].device] = d /\ sock[d].device \in Token
      BY <3>1 DEF RInv, OneSocketPerDevice, SocketsSound
    <3> QED
      BY <1>2, <1>3, <3>1, <3>2
  <2> QED BY <2>1 DEF OneSocketPerDevice
<1>9. ShownIsRegistered'
  BY <1>4 DEF ShownIsRegistered, Registered
<1> QED
  BY <1>5, <1>6, <1>7, <1>8, <1>9 DEF RInv

\* Revocation closes the registered socket and removes its entry.
LEMMA Revoking ==
    ASSUME RInv, NEW t \in Token, Revoke(t)
    PROVE  RInv'
<1>1. /\ sock \in [Conn -> Sock] /\ entry \in [Token -> 0..nconn] /\ NoConn \notin Conn
      /\ \A u \in Token : entry[u] \in Conn \cup {NoConn}
      /\ nconn \in Nat
  BY RegistryTypes
<1>2. /\ sock' = CloseSocket(sock, entry[t])
      /\ entry' = [entry EXCEPT ![t] = NoConn] /\ shown' = Registered(entry')
      /\ UNCHANGED <<daemon, nconn, faults>>
  BY DEF Revoke
<1>3. /\ sock' \in [Conn -> Sock]
      /\ \A d \in Conn :
            /\ sock'[d].device = sock[d].device
            /\ sock'[d].hello = sock[d].hello
            /\ sock'[d].state = IF d = entry[t] /\ sock[d].state = "open"
                                THEN "closing" ELSE sock[d].state
  BY <1>1, <1>2, ClosingOne
<1>4. \A u \in Token : entry'[u] = IF u = t THEN NoConn ELSE entry[u]
  BY <1>1, <1>2
<1>5. RegistryTypeOK'
  <2>1. entry' \in [Token -> 0..nconn'] /\ shown' \subseteq Token
    BY <1>1, <1>2 DEF NoConn, Registered
  <2> QED
    BY <1>2, <1>3, <2>1 DEF RInv, RegistryTypeOK
<1>6. EntriesSound'
  BY <1>1, <1>3, <1>4 DEF RInv, EntriesSound
<1>7. SocketsSound'
  BY <1>2, <1>3 DEF RInv, SocketsSound
<1>8. OneSocketPerDevice'
  BY <1>1, <1>3, <1>4 DEF RInv, OneSocketPerDevice, SocketsSound
<1>9. ShownIsRegistered'
  BY <1>2 DEF ShownIsRegistered, Registered
<1> QED
  BY <1>5, <1>6, <1>7, <1>8, <1>9 DEF RInv

\* A daemon that leaves its socket, or a server that lets one go.
LEMMA Leaving ==
    ASSUME RInv, NEW m \in Machine, daemon[m].conn # NoConn, LeaveSocket(m)
    PROVE  /\ sock' \in [Conn -> Sock]
           /\ \A c \in Conn :
                 /\ sock'[c].device = sock[c].device
                 /\ sock'[c].hello = "received" <=> sock[c].hello = "received"
                 /\ sock'[c].state = sock[c].state
                 /\ sock[c].state = "none" => sock'[c].hello = "lost"
<1> DEFINE c == daemon[m].conn
<1>1. c \in Conn /\ sock \in [Conn -> Sock]
  BY DEF RInv, RegistryTypeOK, Daemon, Stopped
<1>2. CASE UNCHANGED sock
  BY <1>1, <1>2 DEF RInv, SocketsSound
<1>3. CASE sock[c].hello = "sent" /\ sock' = [sock EXCEPT ![c].hello = "lost"]
  <2>1. /\ sock' \in [Conn -> Sock]
        /\ \A d \in Conn : /\ sock'[d].device = sock[d].device
                           /\ sock'[d].state = sock[d].state
                           /\ sock'[d].hello = IF d = c THEN "lost" ELSE sock[d].hello
    BY <1>1, <1>3 DEF Sock
  <2> QED
    BY <1>3, <2>1 DEF RInv, SocketsSound
<1> QED
  BY <1>2, <1>3 DEF LeaveSocket

\* The steps by which a socket nears its end.
LEMMA Ending ==
    ASSUME RInv, NEW c \in Conn, HelloTimeout(c) \/ SocketEnds(c)
    PROVE  RInv'
<1>1. /\ sock' = CloseSocket(sock, c) /\ UNCHANGED <<entry, shown, daemon, nconn>>
      /\ faults' \in 0..MaxFaults
  BY RegistryTypes DEF HelloTimeout, SocketEnds
<1>2. /\ sock' \in [Conn -> Sock]
      /\ \A d \in Conn :
            /\ sock'[d].device = sock[d].device
            /\ sock'[d].hello = sock[d].hello
            /\ sock'[d].state = IF d = c /\ sock[d].state = "open"
                                THEN "closing" ELSE sock[d].state
  BY <1>1, RegistryTypes, ClosingOne
<1>3. daemon' \in [Machine -> Daemon]
  BY <1>1 DEF RInv, RegistryTypeOK
<1>4. \A d \in Conn : sock[d].state = "none" => sock[d].hello = "lost"
  BY DEF RInv, SocketsSound
<1> QED
  BY <1>1, <1>2, <1>3, <1>4, SocketsFade

\* The steps of a daemon that loses its socket.
LEMMA DaemonLeaves ==
    ASSUME RInv, NEW m \in Machine, LinkLost(m) \/ ServerGone(m) \/ StopDaemon(m)
    PROVE  RInv'
<1>1. UNCHANGED <<entry, shown, nconn>> /\ faults' \in 0..MaxFaults
  BY RegistryTypes DEF LinkLost, ServerGone, StopDaemon
<1>2. /\ sock' \in [Conn -> Sock]
      /\ \A c \in Conn :
            /\ sock'[c].device = sock[c].device
            /\ sock'[c].hello = "received" <=> sock[c].hello = "received"
            /\ sock'[c].state = sock[c].state
            /\ sock[c].state = "none" => sock'[c].hello = "lost"
  <2>1. CASE daemon[m].conn # NoConn /\ LeaveSocket(m)
    BY <2>1, Leaving
  <2>2. CASE UNCHANGED sock
    BY <2>2, RegistryTypes DEF RInv, SocketsSound
  <2> QED
    BY <2>1, <2>2 DEF LinkLost, ServerGone, StopDaemon
<1>3. daemon' \in [Machine -> Daemon]
  <2>1. daemon \in [Machine -> Daemon] /\ Stopped \in Daemon
    BY DEF RInv, RegistryTypeOK, Daemon
  <2>2. [daemon[m] EXCEPT !.conn = NoConn] \in Daemon
    BY <2>1 DEF Daemon, Stopped
  <2> QED
    BY <2>1, <2>2 DEF LinkLost, ServerGone, StopDaemon
<1> QED
  BY <1>1, <1>2, <1>3, SocketsFade

\* A server that starts again has no sockets and no entries.
LEMMA Restarting ==
    ASSUME RInv, ServerRestart
    PROVE  RInv'
<1>1. /\ sock \in [Conn -> Sock] /\ nconn \in Nat /\ NoConn \notin Conn
      /\ faults' \in 0..MaxFaults
  BY RegistryTypes DEF ServerRestart
<1>2. /\ \A t \in Token : entry'[t] = NoConn
      /\ entry' \in [Token -> 0..nconn']
      /\ shown' = {} /\ UNCHANGED <<daemon, nconn>>
  BY <1>1 DEF ServerRestart, NoConn
<1>3. /\ sock' \in [Conn -> Sock]
      /\ \A d \in Conn :
            /\ sock'[d].device = sock[d].device
            /\ sock'[d].hello = sock[d].hello
            /\ sock'[d].state = IF sock[d].state = "none" THEN "none" ELSE "closed"
  <2>1. \A d \in Conn : [sock[d] EXCEPT !.state = "closed"] \in Sock
    BY <1>1 DEF Sock
  <2> QED
    BY <1>1, <2>1 DEF ServerRestart, Sock
<1>4. RegistryTypeOK'
  BY <1>1, <1>2, <1>3 DEF RInv, RegistryTypeOK
<1>5. EntriesSound' /\ ShownIsRegistered'
  BY <1>2 DEF EntriesSound, ShownIsRegistered, Registered
<1>6. SocketsSound' /\ OneSocketPerDevice'
  BY <1>2, <1>3 DEF RInv, SocketsSound, OneSocketPerDevice
<1> QED
  BY <1>4, <1>5, <1>6 DEF RInv

\* A daemon starts with the token in client.json, which is one that was minted.
LEMMA Starting ==
    ASSUME RInv, PInv, NEW m \in Machine, StartDaemon(m)
    PROVE  RInv'
<1>1. saved[m] \in Token
  BY TokensAssumption DEF PInv, PairingTypeOK, StartDaemon, Token, NoToken
<1>2. [token |-> saved[m], conn |-> NoConn] \in Daemon
  BY <1>1 DEF Daemon
<1>3. daemon' \in [Machine -> Daemon]
  BY <1>2 DEF RInv, RegistryTypeOK, StartDaemon
<1>4. UNCHANGED <<entry, shown, nconn, sock, faults>>
  BY DEF StartDaemon
<1>5. faults' \in 0..MaxFaults /\ sock' \in [Conn -> Sock]
  BY <1>4, RegistryTypes
<1>6. \A d \in Conn : sock[d].state = "none" => sock[d].hello = "lost"
  BY DEF RInv, SocketsSound
<1> QED
  BY <1>3, <1>4, <1>5, <1>6, SocketsFade

\* A daemon that dials opens a socket that no entry points to.
LEMMA Dialling ==
    ASSUME RInv, PInv, NEW m \in Machine, Dial(m)
    PROVE  RInv'
<1> DEFINE t == daemon[m].token
           c == nconn + 1
           fresh == [state |-> "open", device |-> t, hello |-> "sent"]
<1>1. /\ sock \in [Conn -> Sock] /\ entry \in [Token -> 0..nconn] /\ nconn \in Nat
      /\ c \in Conn /\ c \in 0..MaxConns
  BY RegistryTypes DEF Dial, Conn
<1>2. t \in Token
  BY TokensAssumption DEF Dial, PInv, PairingTypeOK, Token
<1>3. /\ nconn' = c /\ sock' = [sock EXCEPT ![c] = fresh]
      /\ daemon' = [daemon EXCEPT ![m].conn = c]
      /\ UNCHANGED <<entry, shown, faults>>
  BY DEF Dial
<1>4. fresh \in Sock
  BY <1>2 DEF Sock
<1>5. /\ sock' \in [Conn -> Sock]
      /\ \A d \in Conn : sock'[d] = IF d = c THEN fresh ELSE sock[d]
  BY <1>1, <1>3, <1>4
<1>6. daemon' \in [Machine -> Daemon]
  <2>1. daemon \in [Machine -> Daemon]
    BY DEF RInv, RegistryTypeOK
  <2>2. [daemon[m] EXCEPT !.conn = c] \in Daemon
    BY <1>1, <1>2, <2>1 DEF Daemon, Stopped
  <2> QED
    BY <1>3, <2>1, <2>2
<1>7. \A u \in Token : entry[u] # c
  BY <1>1
<1>8. RegistryTypeOK'
  <2>1. entry' \in [Token -> 0..nconn']
    BY <1>1, <1>3
  <2> QED
    BY <1>1, <1>3, <1>5, <1>6, <2>1 DEF RInv, RegistryTypeOK
<1>9. EntriesSound'
  BY <1>1, <1>3, <1>5, <1>7, RegistryTypes DEF RInv, EntriesSound
<1>10. SocketsSound'
  BY <1>1, <1>2, <1>3, <1>5 DEF RInv, SocketsSound, Conn
<1>11. OneSocketPerDevice'
  BY <1>3, <1>5 DEF RInv, OneSocketPerDevice
<1>12. ShownIsRegistered'
  BY <1>3 DEF RInv, ShownIsRegistered, Registered
<1> QED
  BY <1>8, <1>9, <1>10, <1>11, <1>12 DEF RInv

-----------------------------------------------------------------------------
\* The invariant of the two components together.
DInv == PInv /\ RInv

LEMMA DeviceInitially == Init => DInv
<1> SUFFICES ASSUME Init PROVE DInv
  OBVIOUS
<1>1. PInv
  BY PairingInitially DEF Init
<1>2. RegistryTypeOK
  <2>1. sock \in [Conn -> Sock]
    BY DEF Init, RegistryInit, Sock
  <2>2. daemon \in [Machine -> Daemon]
    BY DEF Init, RegistryInit, Daemon
  <2> QED
    BY <2>1, <2>2, RegistryAssumption DEF Init, RegistryInit, RegistryTypeOK, NoConn
<1>3. EntriesSound /\ SocketsSound /\ OneSocketPerDevice /\ ShownIsRegistered
  BY DEF Init, RegistryInit, EntriesSound, SocketsSound, OneSocketPerDevice,
         ShownIsRegistered, Registered
<1> QED
  BY <1>1, <1>2, <1>3 DEF DInv, RInv

\* The registry's steps take tokens out of the table and add none.
LEMMA TokensShrink ==
    ASSUME PInv, RegistryNext, UNCHANGED pairingVars
    PROVE  PInv'
<1>1. tokens' \subseteq tokens /\ saved' = saved
  BY DEF RegistryNext, ReceiveHello, HelloTimeout, SocketEnds, SocketCloses, Revoke,
         ServerRestart, StartDaemon, Dial, LinkLost, ServerGone, StopDaemon
<1>2. UNCHANGED <<rows, due, late, cli, minted, blips>>
  BY DEF pairingVars
<1> QED
  BY <1>1, <1>2
     DEF PInv, PairingTypeOK, StashOnlyWhileApproved, TokenInOnePlace, TokensMinted

\* A step that leaves the registry keeps its invariant.
LEMMA RegistryQuiet == RInv /\ UNCHANGED registryVars => RInv'
  BY DEF registryVars, RInv, RegistryTypeOK, EntriesSound, SocketsSound,
         OneSocketPerDevice, ShownIsRegistered, Registered

LEMMA DeviceStep == DInv /\ [Next]_vars => DInv'
<1> SUFFICES ASSUME DInv, [Next]_vars PROVE DInv'
  OBVIOUS
<1>1. CASE UNCHANGED vars
  BY <1>1, PairingStep, RegistryQuiet DEF vars, AllVars, DInv
<1>2. CASE PairingNext /\ UNCHANGED registryVars
  BY <1>2, PairingStep, RegistryQuiet DEF DInv
<1>3. CASE RegistryNext /\ UNCHANGED pairingVars
  <2>1. RInv'
    BY <1>3, Hearing, Closing, Revoking, Ending, DaemonLeaves, Restarting, Starting,
       Dialling DEF DInv, RegistryNext
  <2> QED
    BY <1>3, <2>1, TokensShrink DEF DInv
<1> QED
  BY <1>1, <1>2, <1>3 DEF Next

\* Every variable of both components keeps its type.
THEOREM AccessTyped == Spec => []TypeOK
<1>1. DInv => TypeOK
  BY DEF DInv, PInv, RInv, TypeOK
<1> QED
  BY <1>1, DeviceInitially, DeviceStep, PTL DEF Spec

\* A device is heard on one open socket at a time, for any number of machines,
\* sockets and losses, and however late the server notices them.
THEOREM HeardOnOneSocket == Spec => []OneSocketPerDevice
<1>1. DInv => OneSocketPerDevice
  BY DEF DInv, RInv
<1> QED
  BY <1>1, DeviceInitially, DeviceStep, PTL DEF Spec

\* The list of devices last sent to the browsers is the registry's.
THEOREM SidebarIsTrue == Spec => []ShownIsRegistered
<1>1. DInv => ShownIsRegistered
  BY DEF DInv, RInv
<1> QED
  BY <1>1, DeviceInitially, DeviceStep, PTL DEF Spec
=============================================================================
