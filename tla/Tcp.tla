--------------------------------- MODULE Tcp ---------------------------------
(***************************************************************************)
(* tcp::Connection and tcp::Server of hw3, in the hands of three programs:   *)
(* one that constructs, moves, uses and destroys the objects in any order,   *)
(* and the example's client and server, which exchange framed messages over  *)
(* one connection while the server's reads time out after a while.           *)
(*                                                                           *)
(* A stream carries units: a number heads a message and counts the Bytes     *)
(* that follow.  What is read as a size from the middle of a message is any  *)
(* number up to MaxGarbage, or TooLong for a string to be resized to.        *)
(***************************************************************************)
EXTENDS Integers, Sequences, FiniteSets

CONSTANTS
  Programs,       \* subset of {"objects", "echo"}
  Objects,        \* Connection and Server objects
  Fds,            \* descriptors
  Length,         \* length of the client's messages
  MaxGarbage,     \* bound: garbage sizes
  MaxMessages,    \* bound: messages the client sends
  MaxTimeouts     \* the errors the server survives: 5 in the source

ASSUME TcpAssumption ==
  /\ Programs \subseteq {"objects", "echo"}
  /\ Fds \subseteq Nat \ {0}
  /\ {Length, MaxGarbage, MaxMessages, MaxTimeouts} \subseteq Nat

None == -1
Byte == -1
TooLong == -2

VARIABLES
  program,
  obj,                  \* the objects
  file,                 \* descriptor -> "free", "conn" or "listen"
  orphan,               \* descriptor -> what may cost it its owner
  server,               \* the example's server
  client,               \* and its client
  toServer, toClient    \* what is under way

objectVars == <<obj, file, orphan>>
echoVars == <<server, client, toServer, toClient>>
vars == <<program, objectVars, echoVars>>

Empty(kind) == [kind |-> kind, m_sock_fd |-> None, m_opened |-> FALSE]
Nothing == Empty("none")
Frame(n) == <<n>> \o [i \in 1..n |-> Byte]

Init ==
  /\ program \in Programs
  /\ obj = [o \in Objects |-> Nothing]
  /\ file = [f \in Fds |-> "free"]
  /\ orphan = [f \in Fds |-> "no"]
  /\ server = [pc |-> "size", msg_size |-> 0, left |-> 0, time_out_counter |-> 0, split |-> FALSE]
  /\ client = [pc |-> "idle", msg_size |-> Length, left |-> 0, sent |-> 0]
  /\ toServer = <<>>
  /\ toClient = <<>>

-----------------------------------------------------------------------------
(* The objects.  A call that fails leaves things as they are, except where a  *)
(* step below says otherwise.                                                 *)
Step == program = "objects" /\ UNCHANGED <<program, echoVars>>
FreeFds == {f \in Fds : file[f] = "free"}
NewFd == CHOOSE f \in FreeFds : \A g \in FreeFds : f <= g
Is(o, kind) == obj[o].kind = kind
Held(x) == IF x.m_sock_fd = None THEN {} ELSE {x.m_sock_fd}
Handle(kind, f) == [kind |-> kind, m_sock_fd |-> f, m_opened |-> TRUE]
MovedFrom == Empty("conn")

Opens(f, kind) ==
  /\ file' = [file EXCEPT ![f] = kind]
  /\ orphan' = [orphan EXCEPT ![f] = "no"]

CloseFds(S) ==
  /\ file' = [f \in Fds |-> IF f \in S THEN "free" ELSE file[f]]
  /\ orphan' = [f \in Fds |-> IF f \in S THEN "no" ELSE orphan[f]]

(* A constructor that connects, and one that is given an accepted socket.     *)
ConnectNew(o) ==
  /\ Step /\ Is(o, "none") /\ FreeFds # {}
  /\ Opens(NewFd, "conn")
  /\ obj' = [obj EXCEPT ![o] = Handle("conn", NewFd)]

Accept(o, s) ==
  /\ Step /\ Is(o, "none") /\ Is(s, "server") /\ FreeFds # {}
  /\ obj[s].m_sock_fd # None
  /\ Opens(NewFd, "conn")
  /\ obj' = [obj EXCEPT ![o] = Handle("conn", NewFd)]

MoveConstruct(o, p) ==
  /\ Step /\ Is(o, "none") /\ Is(p, "conn")
  /\ obj' = [obj EXCEPT ![o] = obj[p], ![p] = MovedFrom]
  /\ UNCHANGED <<file, orphan>>

(* A slip: the source keeps its descriptor. *)
CopyAssign(o, p) ==
  /\ Step /\ o # p /\ Is(o, "conn") /\ Is(p, "conn")
  /\ CloseFds(IF obj[o].m_opened THEN Held(obj[o]) ELSE {})
  /\ obj' = [obj EXCEPT ![o] = obj[p]]

(* Only an object that is_opened() gives up its socket first. *)
MoveAssign(o, p) ==
  /\ Step /\ o # p /\ Is(o, "conn") /\ Is(p, "conn")
  /\ CloseFds(IF obj[o].m_opened THEN Held(obj[o]) ELSE {})
  /\ obj' = [obj EXCEPT ![o] = obj[p], ![p] = MovedFrom]

(* connect() on an object closes what it holds and then connects nothing; on  *)
(* one that has met the end of file, a socket that is connected already.      *)
(* Either fails.                                                              *)
ConnectAgain(o) ==
  /\ Step /\ Is(o, "conn") /\ obj[o].m_opened
  /\ CloseFds(Held(obj[o]))
  /\ obj' = [obj EXCEPT ![o] = MovedFrom]

Close(o) ==
  /\ Step /\ ~Is(o, "none")
  /\ CloseFds(Held(obj[o]))
  /\ obj' = [obj EXCEPT ![o] = Empty(obj[o].kind)]

Destroy(o) ==
  /\ Step /\ ~Is(o, "none")
  /\ CloseFds(Held(obj[o]))
  /\ obj' = [obj EXCEPT ![o] = Nothing]

(* readExact at the end of file: not opened any more, and not closed. *)
ReadEof(o) ==
  /\ Step /\ Is(o, "conn") /\ obj[o].m_sock_fd # None
  /\ obj' = [obj EXCEPT ![o].m_opened = FALSE]
  /\ orphan' = [orphan EXCEPT ![obj[o].m_sock_fd] = "eof"]
  /\ UNCHANGED file

(* Server's open(): socket, bind, and listen, which may fail after m_opened   *)
(* has been set; bind closes what it cannot use.                              *)
ServerOpen(o) ==
  /\ Step /\ Is(o, "server")
  /\ LET free == FreeFds \cup Held(obj[o])
         f == CHOOSE f \in free : \A g \in free : f <= g
     IN  \/ /\ free # {}
            /\ file' = [g \in Fds |-> IF g = f THEN "listen"
                                      ELSE IF g \in Held(obj[o]) THEN "free" ELSE file[g]]
            /\ obj' = [obj EXCEPT ![o] = Handle("server", f)]
         \/ /\ file' = [g \in Fds |-> IF g \in Held(obj[o]) THEN "free" ELSE file[g]]
            /\ obj' = [obj EXCEPT ![o] = Empty("server")]
  /\ UNCHANGED orphan

(* In the constructor a listen that fails leaves a socket and no object. *)
ServerNew(o) ==
  /\ Step /\ Is(o, "none") /\ FreeFds # {}
  /\ file' = [file EXCEPT ![NewFd] = "listen"]
  /\ \/ /\ obj' = [obj EXCEPT ![o] = Handle("server", NewFd)]
        /\ UNCHANGED orphan
     \/ /\ orphan' = [orphan EXCEPT ![NewFd] = "listen"]
        /\ UNCHANGED obj

ObjectStep ==
  \E o \in Objects :
    \/ ConnectNew(o) \/ ConnectAgain(o) \/ Close(o) \/ Destroy(o) \/ ReadEof(o)
    \/ ServerNew(o) \/ ServerOpen(o)
    \/ \E p \in Objects : Accept(o, p) \/ MoveConstruct(o, p) \/ MoveAssign(o, p)

-----------------------------------------------------------------------------
(* The example. *)
Echo == program = "echo" /\ UNCHANGED <<program, objectVars>>
ServerUp == server.pc \in {"size", "body"}
ClientUp == client.pc # "gone"

(* The client writes a message and waits for its answer; with no more input   *)
(* it ends and its socket is closed.  The network takes its time: a message   *)
(* under way is seen by the server unit by unit.                              *)
ClientSend ==
  /\ Echo
  /\ client.pc = "idle"
  /\ \/ /\ client.sent < MaxMessages /\ ServerUp
        /\ client' = [client EXCEPT !.pc = "size", !.sent = @ + 1]
        /\ toServer' = toServer \o Frame(Length)
     \/ /\ client' = [client EXCEPT !.pc = "gone"]
        /\ UNCHANGED toServer
  /\ UNCHANGED <<server, toClient>>

(* The size of the answer, and as many bytes into the buffer of its own       *)
(* message.  At the end of file a SocketError nobody catches ends it.         *)
ClientReceive ==
  /\ Echo
  /\ client.pc \in {"size", "body"}
  /\ \/ /\ toClient # <<>>
        /\ toClient' = Tail(toClient)
        /\ LET left == IF client.pc = "size" THEN Head(toClient) ELSE client.left - 1
           IN  client' = [client EXCEPT
                 !.pc = IF left = 0 THEN "idle" ELSE "body",
                 !.left = left,
                 !.msg_size = IF client.pc = "size" THEN Head(toClient) ELSE @]
     \/ /\ toClient = <<>> /\ ~ServerUp
        /\ client' = [client EXCEPT !.pc = "gone"]
        /\ UNCHANGED toClient
  /\ UNCHANGED <<server, toServer>>

(* What a size read from this unit may be. *)
Sizes(unit) == IF unit = Byte THEN 0..MaxGarbage \cup {TooLong} ELSE {unit}

(* read(msg_size) and resize, which may throw what the loop does not catch.   *)
ServerReadSize ==
  /\ Echo
  /\ server.pc = "size" /\ toServer # <<>>
  /\ toServer' = Tail(toServer)
  /\ \E n \in Sizes(Head(toServer)) :
       server' = [server EXCEPT !.pc = IF n = TooLong THEN "terminated" ELSE "body",
                                !.msg_size = n, !.left = n]
  /\ UNCHANGED <<client, toClient>>

ServerReadBody ==
  /\ Echo
  /\ server.pc = "body" /\ server.left > 0 /\ toServer # <<>>
  /\ toServer' = Tail(toServer)
  /\ server' = [server EXCEPT !.left = @ - 1]
  /\ UNCHANGED <<client, toClient>>

(* A slip: the last byte of the message is not waited for. *)
ServerAnswersEarly ==
  /\ Echo
  /\ server.pc = "body" /\ server.left <= 1
  /\ toClient' = toClient \o Frame(server.msg_size)
  /\ server' = [server EXCEPT !.pc = "size"]
  /\ UNCHANGED <<client, toServer>>

(* The answer; a client that has gone costs a SIGPIPE. *)
ServerAnswer ==
  /\ Echo
  /\ server.pc = "body" /\ server.left = 0
  /\ \/ /\ ClientUp
        /\ toClient' = toClient \o Frame(server.msg_size)
        /\ server' = [server EXCEPT !.pc = "size"]
     \/ /\ ~ClientUp
        /\ server' = [server EXCEPT !.pc = "terminated"]
        /\ UNCHANGED toClient
  /\ UNCHANGED <<client, toServer>>

(* A slip: the error is not counted. *)
IgnoreError(next) ==
  [server EXCEPT !.pc = next, !.split = @ \/ server.pc = "body"]

(* A SocketError: the loop starts anew, but for the sixth.  What was read of  *)
(* the message is forgotten.                                                  *)
CountError(next) ==
  [server EXCEPT !.pc = IF server.time_out_counter >= MaxTimeouts THEN "terminated" ELSE next,
                 !.split = @ \/ server.pc = "body",
                 !.time_out_counter = @ + 1]

Waits == server.pc = "size" \/ (server.pc = "body" /\ server.left > 0)

ServerTimeout ==
  /\ Echo
  /\ Waits
  /\ toServer # <<>> \/ ClientUp
  /\ server' = CountError("size")
  /\ UNCHANGED <<client, toServer, toClient>>

(* The end of file: m_opened is cleared, which ends the loop. *)
ServerEof ==
  /\ Echo
  /\ Waits
  /\ toServer = <<>> /\ ~ClientUp
  /\ server' = CountError("done")
  /\ UNCHANGED <<client, toServer, toClient>>

ServerStep ==
  ServerReadSize \/ ServerReadBody \/ ServerAnswer \/ ServerTimeout \/ ServerEof

Next == ObjectStep \/ ClientSend \/ ClientReceive \/ ServerStep

Spec == Init /\ [][Next]_vars

(* The server runs, and so does a client that waits. *)
FairSpec == Spec /\ WF_vars(ServerStep) /\ WF_vars(ClientReceive)

-----------------------------------------------------------------------------
(* Sockets keep their owners through any sequence of calls: what an object    *)
(* holds is open, no two hold the same, and an open one has an object, unless *)
(* it has met the end of file (a move assignment then forgets it) or its      *)
(* Server's constructor could not listen.                                     *)
SocketsHeld ==
  /\ \A o \in Objects : \A f \in Held(obj[o]) :
       /\ file[f] = IF obj[o].kind = "conn" THEN "conn" ELSE "listen"
       /\ \A p \in Objects \ {o} : f \notin Held(obj[p])
  /\ \A f \in Fds : file[f] # "free" /\ orphan[f] = "no" => \E o \in Objects : f \in Held(obj[o])

(* The client is told the size of its own message, and nothing that would     *)
(* overrun its buffer, unless a timeout has parted a message: what the server *)
(* had read of it is lost and the next size is read from its middle.          *)
InSync ==
  ~server.split => client.msg_size = Length /\ client.left <= Length

(* Every exchange ends, in step or not: the server's timeouts see to it that  *)
(* the two never wait for each other for ever.                                *)
AnsweredOrOver == client.pc \in {"size", "body"} ~> client.pc \in {"idle", "gone"}
=============================================================================
