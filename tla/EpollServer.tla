----------------------------- MODULE EpollServer -----------------------------
(***************************************************************************)
(* systems/networking/epoll_server.cpp: the event loop, with the kernel's  *)
(* sockets and interest list as the code uses them (external).  Bytes are  *)
(* counted.  The listening socket is level-triggered, the clients are      *)
(* edge-triggered: epoll_wait reports a client once after bytes, the end   *)
(* of the stream or a reset of the connection arrived.                     *)
(***************************************************************************)
EXTENDS Naturals, Sequences, FiniteSets, FiniteSetsExt, SequencesExt

CONSTANTS
    Clients, Fds,           \* descriptors accept may return
    BUF,                    \* sizeof(buf) - 1
    MAX_EVENTS, MaxHandled, \* 64 and 5 in the code
    MaxSent                 \* bound: bytes a client sends

VARIABLES
    net,         \* per client: "away", "waiting" for accept, "open", "closed"
    fd,          \* per client: the descriptor accept returned
    sent, unread, edge,
    hangup, aborted,        \* the clients that closed, and those whose connection was reset
    echoed, lost, full,     \* history: bytes written back and not; the last read filled buf
    batch,       \* the events still to handle: <<fd, the client it was made for>>
    pc, handled

vars == <<net, fd, sent, unread, edge, hangup, aborted, echoed, lost, full, batch, pc, handled>>
serverVars == <<fd, echoed, lost, full, batch, pc, handled>>

SERVER == 0
Open == {c \in Clients : net[c] = "open"}
Free == Fds \ {fd[c] : c \in Open}
Gone == hangup \cup aborted

Init ==
    /\ net = [c \in Clients |-> "away"] /\ fd = [c \in Clients |-> SERVER]
    /\ sent = [c \in Clients |-> 0] /\ unread = [c \in Clients |-> 0]
    /\ edge = {} /\ hangup = {} /\ aborted = {}
    /\ echoed = [c \in Clients |-> 0] /\ lost = [c \in Clients |-> 0] /\ full = {}
    /\ batch = <<>> /\ handled = 0
    /\ pc \in {"loop", "exit"}               \* a failed set-up returns at once

-----------------------------------------------------------------------------
(* The clients: they connect, send and close, also before they are accepted.  A
   connection may be reset at any time, also after its client has closed. *)
Connect(c) ==
    /\ net[c] = "away" /\ net' = [net EXCEPT ![c] = "waiting"]
    /\ UNCHANGED <<sent, unread, edge, hangup, aborted, serverVars>>

(* Something for epoll_wait to report arrived on c's connection. *)
Arrived(c) == edge' = IF net[c] = "open" THEN edge \cup {c} ELSE edge

Send(c) ==
    /\ net[c] \in {"waiting", "open"} /\ c \notin Gone
    /\ \E n \in 1 .. MaxSent - sent[c] :
           sent' = [sent EXCEPT ![c] = @ + n] /\ unread' = [unread EXCEPT ![c] = @ + n]
    /\ Arrived(c)
    /\ UNCHANGED <<net, hangup, aborted, serverVars>>

Hangup(c) ==
    /\ net[c] \in {"waiting", "open"} /\ c \notin Gone
    /\ hangup' = hangup \cup {c}
    /\ Arrived(c)
    /\ UNCHANGED <<net, sent, unread, aborted, serverVars>>

Abort(c) ==
    /\ net[c] \in {"waiting", "open"} /\ c \notin aborted
    /\ aborted' = aborted \cup {c}
    /\ Arrived(c)
    /\ UNCHANGED <<net, sent, unread, hangup, serverVars>>

-----------------------------------------------------------------------------
Waiting == {c \in Clients : net[c] = "waiting"}

(* What epoll_wait may report: the listening socket while connections wait, and
   each client with a pending edge. *)
Reportable == {<<fd[c], c>> : c \in edge} \cup {<<SERVER, SERVER>> : c \in Waiting}

epoll_wait ==
    /\ pc = "loop" /\ batch = <<>> /\ handled < MaxHandled
    /\ \E events \in SUBSET Reportable :
        /\ Cardinality(events) = Min({MAX_EVENTS, Cardinality(Reportable)}) /\ events # {}
        /\ batch' \in SetToSeqs(events)
        /\ edge' = edge \ {e[2] : e \in events}
    /\ UNCHANGED <<net, fd, sent, unread, hangup, aborted, echoed, lost, full, pc, handled>>

(* The loop ends after MaxHandled events, a time-out or an error. *)
Leave ==
    /\ pc = "loop" /\ batch = <<>>
    /\ pc' = "exit"
    /\ UNCHANGED <<net, fd, sent, unread, edge, hangup, aborted, echoed, lost, full, batch, handled>>

(* One accept per event; the new descriptor is registered with EPOLLET, which
   reports what has arrived already. *)
Accept ==
    /\ pc = "loop" /\ batch # <<>> /\ Head(batch)[1] = SERVER /\ batch' = Tail(batch)
    /\ IF Waiting = {} \/ Free = {} THEN UNCHANGED <<net, fd, edge>>
       ELSE \E c \in Waiting :
              /\ net' = [net EXCEPT ![c] = "open"] /\ fd' = [fd EXCEPT ![c] = Min(Free)]
              /\ edge' = IF unread[c] > 0 \/ c \in Gone THEN edge \cup {c} ELSE edge
    /\ UNCHANGED <<sent, unread, hangup, aborted, echoed, lost, full, pc, handled>>

(* The client that read finds behind the descriptor of the event. *)
Owner(f) == CHOOSE c \in Open : fd[c] = f

(* What read returns: the bytes that are there and fit buf, 0 at the end of the stream,
   and -1, which the code treats like 0, once the connection was reset. *)
ReadResults(c) == {Min({BUF, unread[c]})} \cup {0 : d \in aborted \cap {c}}

(* The bytes write takes: any number of them on a non-blocking socket, none if it fails
   with EAGAIN or on a connection that was reset. *)
WriteResults(c, bytes) == IF c \in aborted THEN {0} ELSE 0 .. bytes

DisconnectedIfShort(bytes) == bytes < BUF
Disconnected(bytes) == bytes = 0

(* EPOLL_CTL_DEL and close; bytes that were not read are gone. *)
Drop(c) ==
    /\ net' = [net EXCEPT ![c] = "closed"]
    /\ edge' = edge \ {c} /\ UNCHANGED <<unread, echoed, lost, full, pc>>

(* The result of write is ignored: bytes it does not take are lost.  On a connection that
   was reset it may also raise SIGPIPE, which ends the program. *)
Echo(c, bytes) ==
    /\ unread' = [unread EXCEPT ![c] = @ - bytes]
    /\ \E written \in WriteResults(c, bytes) :
           /\ echoed' = [echoed EXCEPT ![c] = @ + written]
           /\ lost' = [lost EXCEPT ![c] = @ + (bytes - written)]
    /\ full' = IF bytes = BUF THEN full \cup {c} ELSE full \ {c}
    /\ edge' = IF unread'[c] = 0 /\ c \notin Gone THEN edge \ {c} ELSE edge
    /\ pc' \in IF c \in aborted THEN {pc, "killed"} ELSE {pc}
    /\ UNCHANGED net

Read ==
    /\ pc = "loop" /\ batch # <<>> /\ Head(batch)[1] # SERVER /\ batch' = Tail(batch)
    /\ LET c == Owner(Head(batch)[1])
       IN  \E bytes \in ReadResults(c) : IF Disconnected(bytes) THEN Drop(c) ELSE Echo(c, bytes)
    /\ handled' = handled + 1
    /\ UNCHANGED <<fd, sent, hangup, aborted>>

Server == epoll_wait \/ Leave \/ Accept \/ Read

Next ==
    \/ pc = "loop" /\ (\E c \in Clients : Connect(c) \/ Send(c) \/ Hangup(c) \/ Abort(c))
    \/ Server
    \/ pc # "loop" /\ UNCHANGED vars

Spec == Init /\ [][Next]_vars

-----------------------------------------------------------------------------
TypeOK ==
    /\ Gone \cup full \subseteq Clients /\ edge \subseteq Open
    /\ \A c \in Open : fd[c] \in Fds

(* An event is handled for the connection it was made for, although descriptors
   are closed and given out again within one batch, and each is open once. *)
EventsMeetTheirClient ==
    /\ \A c, d \in Open : c # d => fd[c] # fd[d]
    /\ \A k \in DOMAIN batch : batch[k][1] # SERVER =>
           batch[k][2] \in Open /\ fd[batch[k][2]] = batch[k][1]

(* Every byte is read once, and written back at most once.  The server closes a
   connection only if the client closed it or it was reset, and in the first case only
   when everything sent was read. *)
BytesAccounted ==
    \A c \in Clients :
        /\ echoed[c] + lost[c] + unread[c] = sent[c]
        /\ net[c] = "closed" => c \in Gone /\ (c \in aborted \/ unread[c] = 0)

(* Bytes stay unread without a pending event only after a read that filled the
   buffer: everything else is reported and read. *)
StrandedOnlyIfFull ==
    \A c \in Open :
        unread[c] > 0 /\ c \notin edge /\ (\A k \in DOMAIN batch : batch[k][2] # c) => c \in full

(* A connection whose client is gone stays open without a pending event only after a
   read that returned bytes: that read did not drain the socket. *)
LeftOpenIfRead ==
    \A c \in Open :
        c \in Gone /\ c \notin edge /\ (\A k \in DOMAIN batch : batch[k][2] # c) => unread[c] < sent[c]

(* "Will handle 5 events": a batch is always finished, which bounds the excess. *)
HandledBounded == handled < MaxHandled + MAX_EVENTS

(* The event loop of epoll_server.cpp serves the right clients, accounts for every byte
   it read, misses bytes or the end of a stream only where it reads once per event, and
   stops after its number of events. *)
ServerSound ==
    /\ TypeOK /\ EventsMeetTheirClient /\ BytesAccounted
    /\ StrandedOnlyIfFull /\ LeftOpenIfRead /\ HandledBounded

(* "Edge-triggered (EPOLLET): notify once per state change (must drain fully)":
   when the server waits, whoever has unread bytes is still to be reported. *)
DrainedFully ==
    pc = "loop" /\ batch = <<>> => \A c \in Open : unread[c] > 0 => c \in edge
==============================================================================
