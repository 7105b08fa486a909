----------------------------- MODULE EpollServer -----------------------------
(***************************************************************************)
(* es::Server and es::Connection of hw4: a single-threaded epoll server     *)
(* that keeps its connections in a map from descriptors and hands each      *)
(* event to a callback.  The callback is the example's echo handler, or any *)
(* other one, which calls what es::Connection offers in any order.          *)
(*                                                                          *)
(* What interleaves with the server are the peers: between epoll_wait and   *)
(* the system calls of a callback they send, close or reset.  Data are      *)
(* counted in units; Full of them make the megabyte the handler collects.   *)
(*                                                                          *)
(* unordered_map::emplace constructs its element before it looks for the    *)
(* key: a descriptor that is already a key is closed with the element that  *)
(* was made for it, and the old element stays.                              *)
(***************************************************************************)
EXTENDS Integers, FiniteSets

CONSTANTS
  Peers,          \* clients
  LongAddr,       \* those whose address prints as 15 characters
  Fds,            \* descriptors the process has for connections
  Callbacks,      \* subset of {"echo", "other"}
  Full,           \* units in MB
  Room,           \* units the socket's send buffer takes
  MaxConnects,    \* bound: connections a peer makes
  MaxUnread,      \* bound: units a peer has under way
  MaxCalls,       \* bound: calls another callback makes
  MaxInits        \* bound: times init() is called on the server

Nobody == "nobody"

ASSUME EpollAssumption ==
  /\ Nobody \notin Peers
  /\ LongAddr \subseteq Peers
  /\ Fds \subseteq Nat \ {0}
  /\ Callbacks \subseteq {"echo", "other"}
  /\ Full \in Nat \ {0} /\ Room \in Nat
  /\ {MaxConnects, MaxUnread, MaxCalls, MaxInits} \subseteq Nat

Listener == 0           \* m_sock_fd
Closed == -1            \* a FileDescriptor that holds nothing

VARIABLES
  pc,                   \* where run() is
  m_do_handle_client,
  listening,            \* m_sock_fd and m_epoll_fd are set up
  m_connections,        \* fd -> Connection
  interest,             \* the epoll set: fd -> what it is registered for
  batch,                \* fd -> events, those of the last epoll_wait to come
  current,              \* descriptor whose event is being handled, or Listener
  event,                \* that event: the front of its events_registry
  file,                 \* fd -> the peer at its other end, or Nobody
  peer,                 \* the peers' side
  calls, inits

serverVars == <<pc, m_do_handle_client, listening, m_connections, interest, batch,
                current, event, file, calls, inits>>
vars == <<serverVars, peer>>

(* Of events_registry only the front is used, and of input_registry the size,  *)
(* by the echo handler alone: for another callback it stays 0.                *)
Connection(fd) == [m_sock_fd |-> fd, input |-> 0]

Init ==
  /\ pc = "run"
  /\ m_do_handle_client \in Callbacks
  /\ listening = TRUE
  /\ m_connections = <<>>
  /\ interest = <<>>
  /\ batch = <<>>
  /\ current = Listener
  /\ event = {}
  /\ file = [f \in Fds |-> Nobody]
  /\ peer = [c \in Peers |-> [link |-> "off", inbox |-> 0, hup |-> "no", room |-> Room,
                              connects |-> 0]]
  /\ calls = 0
  /\ inits = 0

MinOf(a, b) == IF a <= b THEN a ELSE b
Put(f, x, v) == [y \in DOMAIN f \cup {x} |-> IF y = x THEN v ELSE f[y]]
Without(f, x) == [y \in DOMAIN f \ {x} |-> f[y]]
Up == pc \notin {"stopped", "terminated"}

-----------------------------------------------------------------------------
(* The peers.  What one does before it is accepted, or while run() is not     *)
(* running, shows only afterwards.                                            *)
Connect(c) ==
  /\ Up
  /\ peer[c].link = "off"
  /\ peer[c].connects < MaxConnects
  /\ peer' = [peer EXCEPT ![c] = [link |-> "backlog", inbox |-> 0, hup |-> "no",
                                  room |-> Room, connects |-> @.connects + 1]]
  /\ UNCHANGED serverVars

Send(c) ==
  /\ Up
  /\ peer[c].link = "open"
  /\ peer[c].hup = "no"
  /\ peer[c].inbox < MaxUnread
  /\ peer' = [peer EXCEPT ![c].inbox = @ + 1]
  /\ UNCHANGED serverVars

Drain(c) ==
  /\ Up
  /\ peer[c].link = "open"
  /\ peer[c].room < Room
  /\ peer' = [peer EXCEPT ![c].room = Room]
  /\ UNCHANGED serverVars

(* A close, and a reset, which may follow one.  What was received stays       *)
(* readable after either.                                                     *)
HangUp(c, how) ==
  /\ Up
  /\ peer[c].link = "open"
  /\ how # peer[c].hup
  /\ peer[c].hup # "rst"
  /\ peer' = [peer EXCEPT ![c].hup = how]
  /\ UNCHANGED serverVars

-----------------------------------------------------------------------------
(* What epoll reports for a descriptor, level-triggered. *)
Reported(f) ==
  LET p == peer[file[f]]
      reads == interest[f] = "in"
  IN  (IF reads /\ (p.inbox > 0 \/ p.hup # "no") THEN {"in"} ELSE {})
        \cup (IF reads /\ p.hup # "no" THEN {"rdhup"} ELSE {})
        \cup (IF ~reads /\ (p.room > 0 \/ p.hup = "rst") THEN {"out"} ELSE {})
        \cup (IF p.hup = "rst" THEN {"hup", "err"} ELSE {})

Backlog == {c \in Peers : peer[c].link = "backlog"}
FreeFds == {f \in Fds : file[f] = Nobody}
LowestFree == CHOOSE f \in FreeFds : \A g \in FreeFds : f <= g

(* ServerError out of run(), and an exception (or SIGPIPE) nobody handles. *)
Stop == pc' = "stopped" /\ batch' = <<>>
Terminate == pc' = "terminated" /\ batch' = <<>>

(* A slip: the descriptor is given up but not closed. *)
ExtractFile(f) == UNCHANGED <<file, interest, peer>>

(* FileDescriptor::close: the kernel forgets the descriptor, epoll with it.   *)
CloseFile(f) ==
  /\ file' = [file EXCEPT ![f] = Nobody]
  /\ interest' = Without(interest, f)
  /\ peer' = [peer EXCEPT ![file[f]].link = "off", ![file[f]].inbox = 0]

-----------------------------------------------------------------------------
(* epoll_wait. *)
Run ==
  /\ pc = "run"
  /\ LET ready == {f \in DOMAIN interest : Reported(f) # {}}
                    \cup (IF Backlog = {} THEN {} ELSE {Listener})
     IN  /\ ready # {}
         /\ batch' = [f \in ready |-> IF f = Listener THEN {"in"} ELSE Reported(f)]
  /\ pc' = "batch"
  /\ UNCHANGED <<m_do_handle_client, listening, m_connections, interest, current, event,
                 file, peer, calls, inits>>

(* The next event of the batch; with none left the loop goes round. *)
NextEvent ==
  /\ pc = "batch"
  /\ \/ /\ batch = <<>>
        /\ pc' = "run"
        /\ UNCHANGED <<batch, current, event>>
     \/ /\ Listener \in DOMAIN batch
        /\ pc' = "accept"
        /\ batch' = Without(batch, Listener)
        /\ UNCHANGED <<current, event>>
     \/ \E f \in DOMAIN batch \ {Listener} :
          IF f \in DOMAIN m_connections
          THEN /\ pc' = "callback"
               /\ batch' = Without(batch, f)
               /\ current' = f
               /\ event' = batch[f]
          ELSE Terminate /\ UNCHANGED <<current, event>>
  /\ UNCHANGED <<m_do_handle_client, listening, m_connections, interest, file, peer, calls,
                 inits>>

(* Connection's constructor from accept4: inet_ntop is given 15 bytes for up  *)
(* to 15 characters and a zero. *)
Unprintable(c) == c \in LongAddr

(* One turn of accept_clients. *)
AcceptClient(c) ==
  /\ pc = "accept"
  /\ c \in Backlog
  /\ \/ /\ FreeFds = {}
        /\ Stop
        /\ UNCHANGED <<m_connections, interest, file, peer>>
     \/ /\ FreeFds # {}
        /\ Unprintable(c)
        /\ Terminate
        /\ peer' = [peer EXCEPT ![c].link = "off"]
        /\ UNCHANGED <<m_connections, interest, file>>
     \/ /\ FreeFds # {} /\ ~Unprintable(c)
        /\ LowestFree \in DOMAIN m_connections
        /\ Stop
        /\ peer' = [peer EXCEPT ![c].link = "off"]
        /\ UNCHANGED <<m_connections, interest, file>>
     \/ /\ FreeFds # {} /\ ~Unprintable(c)
        /\ LowestFree \notin DOMAIN m_connections
        /\ m_connections' = Put(m_connections, LowestFree, Connection(LowestFree))
        /\ interest' = Put(interest, LowestFree, "in")
        /\ file' = [file EXCEPT ![LowestFree] = c]
        /\ peer' = [peer EXCEPT ![c].link = "open"]
        /\ UNCHANGED <<pc, batch>>
  /\ UNCHANGED <<m_do_handle_client, listening, current, event, calls, inits>>

AcceptDone ==
  /\ pc = "accept"
  /\ Backlog = {}
  /\ pc' = "batch"
  /\ UNCHANGED <<m_do_handle_client, listening, m_connections, interest, batch, current,
                 event, file, peer, calls, inits>>

-----------------------------------------------------------------------------
(* Inside the callback. *)
Mine == m_connections[current]
IsOpen == Mine.m_sock_fd # Closed
MyPeer == peer[file[Mine.m_sock_fd]]
Disconnected == event \cap {"hup", "err", "rdhup"} # {}

(* Connection::write of len units: what fits, nothing on EAGAIN. *)
WriteTo(len) ==
  peer' = [peer EXCEPT ![file[Mine.m_sock_fd]].room = @ - MinOf(len, @)]

(* Connection::read of up to len units: what is there is kept in the input    *)
(* registry, nothing on EAGAIN; at the end of file the socket is closed and   *)
(* the Connection stays in the map.                                           *)
Read(len) ==
  \/ /\ MyPeer.inbox > 0
     /\ LET n == MinOf(len, MyPeer.inbox)
        IN  /\ m_connections' = [m_connections EXCEPT ![current].input =
                                                     IF m_do_handle_client = "echo" THEN @ + n ELSE 0]
            /\ peer' = [peer EXCEPT ![file[current]].inbox = @ - n]
     /\ UNCHANGED <<file, interest>>
  \/ /\ MyPeer.inbox = 0 /\ MyPeer.hup = "no"
     /\ UNCHANGED <<m_connections, peer, file, interest>>
  \/ /\ MyPeer.inbox = 0 /\ MyPeer.hup = "fin"
     /\ m_connections' = [m_connections EXCEPT ![current].m_sock_fd = Closed]
     /\ CloseFile(current)

(* A read or a write that fails because the peer has reset. *)
ReadFails == IsOpen => MyPeer.inbox = 0 /\ MyPeer.hup = "rst"
WriteFails == IsOpen => MyPeer.hup = "rst"

(* The echo handler.  An event that reports the end is left at once. *)
EchoDisconnected ==
  /\ pc = "callback" /\ m_do_handle_client = "echo"
  /\ Disconnected \/ "in" \notin event
  /\ pc' = "after"
  /\ UNCHANGED <<m_do_handle_client, listening, m_connections, interest, batch, current,
                 event, file, peer, calls, inits>>

(* One read of what is missing from Full.  If it fails the error's text is    *)
(* written to the socket that was reset: SIGPIPE.                             *)
EchoRead ==
  /\ pc = "callback" /\ m_do_handle_client = "echo"
  /\ ~Disconnected /\ "in" \in event
  /\ \/ /\ ~ReadFails
        /\ Read(Full - Mine.input)
        /\ pc' = IF m_connections'[current].input = Full THEN "echo" ELSE "after"
        /\ UNCHANGED batch
     \/ /\ ReadFails
        /\ Terminate
        /\ UNCHANGED <<m_connections, file, interest, peer>>
  /\ UNCHANGED <<m_do_handle_client, listening, current, event, calls, inits>>

(* A slip: the echo is written with write_exact. *)
EchoWriteExact ==
  /\ pc = "echo"
  /\ \/ /\ ~WriteFails /\ MyPeer.room >= Full
        /\ WriteTo(Full)
        /\ m_connections' = [m_connections EXCEPT ![current].input = 0]
        /\ pc' = "after"
        /\ UNCHANGED batch
     \/ /\ WriteFails \/ MyPeer.room < Full
        /\ Terminate
        /\ UNCHANGED <<m_connections, peer>>
  /\ UNCHANGED <<m_do_handle_client, listening, interest, current, event, file, calls, inits>>

(* The whole input is written once, outside the try block, whatever the       *)
(* socket takes, and forgotten.                                               *)
EchoWrite ==
  /\ pc = "echo"
  /\ \/ /\ ~WriteFails
        /\ WriteTo(Full)
        /\ m_connections' = [m_connections EXCEPT ![current].input = 0]
        /\ pc' = "after"
        /\ UNCHANGED batch
     \/ /\ WriteFails
        /\ Terminate
        /\ UNCHANGED <<m_connections, peer>>
  /\ UNCHANGED <<m_do_handle_client, listening, interest, current, event, file, calls, inits>>

(* Another callback: each call is one of these, until it returns.  A          *)
(* ConnectionError ends it (the callback catches it).                         *)
OtherStep(keeps) ==
  /\ pc = "callback" /\ m_do_handle_client = "other"
  /\ calls < MaxCalls
  /\ calls' = calls + 1
  /\ pc' = keeps
  /\ UNCHANGED <<m_do_handle_client, listening, current, event, inits>>

OtherRead(len) ==
  \/ /\ OtherStep("callback") /\ ~ReadFails /\ IsOpen
     /\ Read(len)
     /\ UNCHANGED batch
  \/ /\ OtherStep("after") /\ ReadFails
     /\ UNCHANGED <<m_connections, interest, batch, file, peer>>

(* write_exact: a short write is an exception, after part was written. *)
OtherWrite(len) ==
  /\ OtherStep(IF WriteFails \/ (IsOpen /\ MyPeer.room < len) THEN "after" ELSE "callback")
  /\ IF WriteFails THEN UNCHANGED peer ELSE WriteTo(len)
  /\ UNCHANGED <<m_connections, interest, batch, file>>

(* setReadyToRead and setReadyToWrite: EPOLL_CTL_MOD, a ServerError for a     *)
(* descriptor that is not in the epoll set.                                   *)
ModifyEpoll(events) ==
  \/ /\ OtherStep("callback")
     /\ Mine.m_sock_fd \in DOMAIN interest
     /\ interest' = [interest EXCEPT ![current] = events]
     /\ UNCHANGED <<m_connections, batch, file, peer>>
  \/ /\ OtherStep("stopped")
     /\ Mine.m_sock_fd \notin DOMAIN interest
     /\ batch' = <<>>
     /\ UNCHANGED <<m_connections, interest, file, peer>>

OtherReturn ==
  /\ pc = "callback" /\ m_do_handle_client = "other"
  /\ pc' = "after"
  /\ UNCHANGED <<m_do_handle_client, listening, m_connections, interest, batch, current,
                 event, file, peer, calls, inits>>

(* A slip: EPOLLRDHUP alone does not erase the element. *)
KeepHalfClosed ==
  /\ pc = "after"
  /\ IF event \cap {"hup", "err"} # {}
     THEN /\ m_connections' = Without(m_connections, current)
          /\ IF IsOpen THEN CloseFile(current) ELSE UNCHANGED <<file, interest, peer>>
     ELSE UNCHANGED <<m_connections, file, interest, peer>>
  /\ pc' = "batch"
  /\ current' = Listener
  /\ event' = {}
  /\ calls' = 0
  /\ UNCHANGED <<m_do_handle_client, listening, batch, inits>>

(* handle_client after the callback: the element is erased if the event       *)
(* reported the end of the connection, which closes its socket.               *)
HandleClient ==
  /\ pc = "after"
  /\ IF Disconnected
     THEN /\ m_connections' = Without(m_connections, current)
          /\ IF IsOpen THEN CloseFile(current) ELSE UNCHANGED <<file, interest, peer>>
     ELSE UNCHANGED <<m_connections, file, interest, peer>>
  /\ pc' = "batch"
  /\ current' = Listener
  /\ event' = {}
  /\ calls' = 0
  /\ UNCHANGED <<m_do_handle_client, listening, batch, inits>>

(* init() after run() has stopped: a new socket and a new epoll set, or       *)
(* neither when bind fails; the connections stay in the map, in no set.       *)
ServerInit ==
  /\ pc = "stopped"
  /\ inits < MaxInits
  /\ inits' = inits + 1
  /\ interest' = <<>>
  /\ \E bound \in BOOLEAN :
       /\ listening' = bound
       /\ pc' = IF bound THEN "run" ELSE "stopped"
  /\ current' = Listener
  /\ event' = {}
  /\ calls' = 0
  /\ UNCHANGED <<m_do_handle_client, m_connections, batch, file, peer>>

-----------------------------------------------------------------------------
Environment ==
  \E c \in Peers : Connect(c) \/ Send(c) \/ Drain(c) \/ \E how \in {"fin", "rst"} : HangUp(c, how)

ServerStep ==
  \/ Run \/ NextEvent \/ AcceptDone \/ HandleClient
  \/ \E c \in Peers : AcceptClient(c)
  \/ EchoDisconnected \/ EchoRead \/ EchoWrite
  \/ \E len \in 1..Full : OtherRead(len) \/ OtherWrite(len)
  \/ OtherReturn
  \/ \E events \in {"in", "out"} : ModifyEpoll(events)

Next == Environment \/ ServerStep \/ ServerInit

Spec == Init /\ [][Next]_vars

(* The server's thread keeps running; peers and the owner need do nothing. *)
FairSpec == Spec /\ WF_vars(ServerStep)

-----------------------------------------------------------------------------
(* Descriptors are accounted for, whatever the callback does and however      *)
(* often run() fails and starts again: an open one belongs to the element     *)
(* under its own number, epoll watches only open ones, and an event never     *)
(* names a descriptor that m_connections does not know.                       *)
SocketsOwned ==
  /\ \A f \in Fds : file[f] # Nobody =>
       f \in DOMAIN m_connections /\ m_connections[f].m_sock_fd = f
  /\ \A f \in DOMAIN m_connections : m_connections[f].m_sock_fd = f => file[f] # Nobody
  /\ \A f \in DOMAIN interest : file[f] # Nobody
  /\ DOMAIN batch \ {Listener} \subseteq DOMAIN m_connections

(* Only three things bring the echo server down: a peer that resets while its *)
(* message is handled, a client whose address takes 15 characters, and        *)
(* running out of descriptors.  In particular no element of the map outlives  *)
(* its socket, which would cost the next client with that number.             *)
EchoStaysUp ==
  m_do_handle_client = "echo" =>
    /\ pc = "terminated" =>
         (\E c \in Peers : peer[c].hup = "rst") \/ (\E c \in LongAddr : peer[c].connects > 0)
    /\ pc = "stopped" /\ listening => FreeFds = {}
    /\ \A f \in DOMAIN m_connections : m_connections[f].m_sock_fd = f

(* The echo server lets go of every client that has left, unless run() has    *)
(* ended or was started anew on another epoll set.                            *)
HangUpCleansUp ==
  \A f \in Fds :
    (m_do_handle_client = "echo" /\ f \in DOMAIN interest /\ peer[file[f]].hup # "no")
      ~> (~Up \/ f \notin DOMAIN m_connections \/ f \notin DOMAIN interest)
=============================================================================
