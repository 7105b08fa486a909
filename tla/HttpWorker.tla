----------------------------- MODULE HttpWorker -----------------------------
(***************************************************************************)
(* One http::ServerWorker of hw6 with the coroutines it runs: the epoll     *)
(* loop, accepting, dispatching events to coroutines, the sweep after an    *)
(* idle epoll_wait, and ClientHandler::handle inside each coroutine.  The   *)
(* peers at the other end, the kernel's descriptors and the clock are the   *)
(* environment.                                                             *)
(*                                                                          *)
(* The worker is one thread: what interleaves with it are the peers, the    *)
(* clock and the signal that sets m_done.  A step is what it does between   *)
(* two system calls.  Requests, responses and files are counted in units    *)
(* of the socket's buffer; a request is read whole.                         *)
(*                                                                          *)
(* m_ctx refers to the constructor's parameter, which is gone when run()    *)
(* starts; the caller's stack slot is not reused while run() is active, so  *)
(* the timeouts are taken to be what was passed.                            *)
(***************************************************************************)
EXTENDS Coroutine, FiniteSets, TLC

CONSTANTS
  Peers,          \* clients
  Fds,            \* descriptors the process may have for connections
  Scarce,         \* may the other workers use all of them up?
  ReadTimeout, WriteTimeout,
  RespLen,        \* units in the longest response
  FileLen,        \* units in the file sent after it (0: no file)
  Room,           \* units the socket's send buffer takes
  MaxConnects,    \* bound: connections a peer makes
  MaxRequests,    \* bound: requests a peer makes on one connection
  HangUps,        \* how peers leave: subset of {"fin", "rst"}
  EraseInLoop     \* what the sweep may do after its element was erased:
                  \* subset of {"continue", "stop", "abort"}

Nobody == "nobody"

ASSUME WorkerAssumption ==
  /\ Nobody \notin Peers
  /\ Fds \subseteq Nat \ {0}
  /\ Scarce \in BOOLEAN
  /\ ReadTimeout \in Nat \ {0} /\ WriteTimeout \in Nat \ {0}
  /\ RespLen \in Nat \ {0} /\ FileLen \in Nat /\ Room \in Nat \ {0}
  /\ MaxConnects \in Nat /\ MaxRequests \in Nat
  /\ HangUps \subseteq {"fin", "rst"}
  /\ EraseInLoop \subseteq {"continue", "stop", "abort"}
  /\ EraseInLoop # {}

Listener == 0           \* m_server_fd

MinOf(a, b) == IF a <= b THEN a ELSE b
epoll_timeout == MinOf(ReadTimeout, WriteTimeout)

VARIABLES
  pc,          \* where run() is
  from,        \* who called resume: "events" or "sweep"
  batch,       \* events of the last epoll_wait still to process
  sweep,       \* descriptors check_clients_timeout has still to visit
  m_clients,   \* fd -> routine
  handler,     \* routine -> the frame of its ClientHandler: its descriptor fd,
               \* where it is (at), the units of the response left to write,
               \* keep if the request asked for Keep-Alive, and the age of
               \* m_last_resumed, kept up to epoll_timeout
  conn,        \* fd -> the peer at its other end, or Nobody if it is closed
  peer,        \* the peers' side: where the link is, whether a request waits
               \* in the inbox, how the peer hung up, and the free units
               \* (room) of the send buffer
  idle,        \* time since epoll_wait was entered
  m_done

workerVars == <<pc, from, batch, sweep, m_clients, handler, conn, idle>>
vars == <<ordinator, workerVars, peer, m_done>>

Put(f, x, v) == [y \in DOMAIN f \cup {x} |-> IF y = x THEN v ELSE f[y]]
Forget(f, x) == [y \in DOMAIN f \ {x} |-> f[y]]

Init ==
  /\ CoInit
  /\ pc = "loop"
  /\ from = "events"
  /\ batch = {}
  /\ sweep = {}
  /\ m_clients = <<>>
  /\ handler = <<>>
  /\ conn = [f \in Fds |-> Nobody]
  /\ peer = [c \in Peers |-> [link |-> "off", inbox |-> FALSE, hup |-> "no",
                              room |-> Room, connects |-> 0, requests |-> 0]]
  /\ idle = 0
  /\ m_done = FALSE

-----------------------------------------------------------------------------
(* The environment. *)

(* External: a client connects; the kernel queues it for accept. *)
Connect(c) ==
  /\ peer[c].link = "off"
  /\ peer[c].connects < MaxConnects
  /\ peer' = [peer EXCEPT ![c].link = "backlog", ![c].connects = @ + 1,
                          ![c].inbox = FALSE, ![c].hup = "no",
                          ![c].room = Room, ![c].requests = 0]
  /\ UNCHANGED <<ordinator, workerVars, m_done>>

(* External: it sends a request, one at a time. *)
SendRequest(c) ==
  /\ peer[c].link # "off"
  /\ peer[c].hup = "no"
  /\ ~peer[c].inbox
  /\ peer[c].requests < MaxRequests
  /\ peer' = [peer EXCEPT ![c].inbox = TRUE, ![c].requests = @ + 1]
  /\ UNCHANGED <<ordinator, workerVars, m_done>>

(* External: it reads what has arrived. *)
Drain(c) ==
  /\ peer[c].link = "open"
  /\ peer[c].room < Room
  /\ peer' = [peer EXCEPT ![c].room = Room]
  /\ UNCHANGED <<ordinator, workerVars, m_done>>

(* External: it closes its side, or resets the connection. *)
HangUp(c, how) ==
  /\ peer[c].link = "open"
  /\ peer[c].hup = "no"
  /\ how \in HangUps
  /\ peer' = [peer EXCEPT ![c].hup = how,
                          ![c].inbox = IF how = "rst" THEN FALSE ELSE @]
  /\ UNCHANGED <<ordinator, workerVars, m_done>>

(* External: time passes.  Ages are kept up to the timeout, beyond which they *)
(* are not told apart.                                                        *)
Tick ==
  /\ pc \notin {"exit", "terminated"}
  /\ idle' = MinOf(idle + 1, epoll_timeout)
  /\ handler' = [id \in DOMAIN handler |->
                   [handler[id] EXCEPT !.age = MinOf(@ + 1, epoll_timeout)]]
  /\ UNCHANGED <<ordinator, pc, from, batch, sweep, m_clients, conn, peer, m_done>>

(* SIGINT or SIGTERM: m_done is set, and an epoll_wait in progress may be     *)
(* interrupted (EINTR) if this thread received the signal.                    *)
Signal ==
  /\ ~m_done
  /\ m_done' = TRUE
  /\ \/ UNCHANGED pc
     \/ pc = "epoll" /\ pc' = "loop"
  /\ UNCHANGED <<ordinator, from, batch, sweep, m_clients, handler, conn, peer, idle>>

-----------------------------------------------------------------------------
(* Readiness, as epoll reports it: level-triggered, registered for EPOLLIN.   *)
(* Data, an end of file and a reset all raise it; room to write does not.     *)
Readable(f) ==
  /\ conn[f] # Nobody
  /\ peer[conn[f]].inbox \/ peer[conn[f]].hup # "no"

Backlog == {c \in Peers : peer[c].link = "backlog"}

ReadyFds ==
  {f \in Fds : Readable(f)} \cup (IF Backlog = {} THEN {} ELSE {Listener})

(* while (!m_done) epoll_wait(...) *)
LoopTest ==
  /\ pc = "loop"
  /\ pc' = IF m_done THEN "exit" ELSE "epoll"
  /\ idle' = 0
  /\ UNCHANGED <<ordinator, from, batch, sweep, m_clients, handler, conn, peer, m_done>>

(* epoll_wait returns events, to be processed in some order; *)
EpollEvents ==
  /\ pc = "epoll"
  /\ ReadyFds # {}
  /\ batch' = ReadyFds
  /\ pc' = "events"
  /\ UNCHANGED <<ordinator, from, sweep, m_clients, handler, conn, peer, idle, m_done>>

(* A slip: an epoll_wait that returns early counts as a timeout. *)
BadEpollTimeout ==
  /\ pc = "epoll"
  /\ ReadyFds = {}
  /\ sweep' = DOMAIN m_clients
  /\ pc' = "sweep"
  /\ UNCHANGED <<ordinator, from, batch, m_clients, handler, conn, peer, idle, m_done>>

(* or nothing, after epoll_timeout: check_clients_timeout visits m_clients. *)
EpollTimeout ==
  /\ pc = "epoll"
  /\ ReadyFds = {}
  /\ idle = epoll_timeout
  /\ sweep' = DOMAIN m_clients
  /\ pc' = "sweep"
  /\ UNCHANGED <<ordinator, from, batch, m_clients, handler, conn, peer, idle, m_done>>

EventsDone ==
  /\ pc = "events"
  /\ batch = {}
  /\ pc' = "loop"
  /\ UNCHANGED <<ordinator, from, batch, sweep, m_clients, handler, conn, peer, idle, m_done>>

SweepDone ==
  /\ pc = "sweep"
  /\ sweep \cap DOMAIN m_clients = {}
  /\ pc' = "loop"
  /\ UNCHANGED <<ordinator, from, batch, sweep, m_clients, handler, conn, peer, idle, m_done>>

(* accept_clients: accept4 gives the lowest free descriptor; with none left   *)
(* it throws ServerError, which leaves run().                                 *)
FreeFds == {f \in Fds : conn[f] = Nobody}

AcceptOne(c) ==
  /\ pc = "events"
  /\ Listener \in batch
  /\ c \in Backlog
  /\ \/ /\ Scarce \/ FreeFds = {}
        /\ pc' = "terminated"
        /\ UNCHANGED <<conn, peer>>
     \/ /\ FreeFds # {}
        /\ LET f == CHOOSE x \in FreeFds : \A y \in FreeFds : x <= y
           IN  conn' = [conn EXCEPT ![f] = c]
        /\ peer' = [peer EXCEPT ![c].link = "open"]
        /\ UNCHANGED pc
  /\ UNCHANGED <<ordinator, from, batch, sweep, m_clients, handler, idle, m_done>>

(* EAGAIN: everyone who was waiting has been accepted. *)
AcceptDone ==
  /\ pc = "events"
  /\ Listener \in batch
  /\ Backlog = {}
  /\ batch' = batch \ {Listener}
  /\ UNCHANGED <<ordinator, pc, from, sweep, m_clients, handler, conn, peer, idle, m_done>>

(* resume(id) called from run(): refused, or the routine runs.  Resuming the  *)
(* context of a routine that has ended (its flag was lost) runs on a dead     *)
(* stack.                                                                     *)
CallResume(id, caller) ==
  /\ from' = caller
  /\ \/ /\ ~CanResume(ordinator, id)
        /\ pc' = caller
        /\ UNCHANGED ordinator
     \/ /\ CanResume(ordinator, id)
        /\ ordinator.routines[id].ctx # "dead"
        /\ ordinator' = SwitchTo(ordinator, id)
        /\ pc' = "co"
     \/ /\ CanResume(ordinator, id)
        /\ ordinator.routines[id].ctx = "dead"
        /\ pc' = "terminated"
        /\ UNCHANGED ordinator

(* process_events: a descriptor m_clients does not know gets a routine of its *)
(* own, *)
DispatchNew(f) ==
  /\ pc = "events"
  /\ f \in batch \ ({Listener} \cup DOMAIN m_clients)
  /\ batch' = batch \ {f}
  /\ LET id == CreatedId(ordinator)
     IN  /\ id <= MaxRoutines
         /\ m_clients' = Put(m_clients, f, id)
         /\ handler' = Put(handler, id, [fd |-> f, at |-> "read", left |-> 0,
                                         keep |-> FALSE, age |-> 0])
         /\ ordinator' = SwitchTo(CreateRoutine(ordinator), id)
  /\ from' = "events"
  /\ pc' = "co"
  /\ UNCHANGED <<sweep, conn, peer, idle, m_done>>

(* A slip: the event of a known client resumes nobody. *)
BadDispatch(f) ==
  /\ pc = "events"
  /\ f \in batch \cap DOMAIN m_clients
  /\ batch' = batch \ {f}
  /\ UNCHANGED <<ordinator, pc, from, sweep, m_clients, handler, conn, peer, idle, m_done>>

(* any other one resumes the routine that m_clients names. *)
Dispatch(f) ==
  /\ pc = "events"
  /\ f \in batch \cap DOMAIN m_clients
  /\ batch' = batch \ {f}
  /\ CallResume(m_clients[f], "events")
  /\ UNCHANGED <<sweep, m_clients, handler, conn, peer, idle, m_done>>

(* check_clients_timeout: resume every client. *)
SweepOne(f) ==
  /\ pc = "sweep"
  /\ f \in sweep \cap DOMAIN m_clients
  /\ sweep' = sweep \ {f}
  /\ CallResume(m_clients[f], "sweep")
  /\ UNCHANGED <<batch, m_clients, handler, conn, peer, idle, m_done>>

-----------------------------------------------------------------------------
(* Inside the running routine: ClientHandler::handle. *)
Me == ordinator.current
Mine == handler[Me]
MyPeer == conn[Mine.fd]

(* A system call on the descriptor fails once the peer has reset it, or when  *)
(* it is not open: after a mix-up of routines a descriptor can be closed and  *)
(* its event still be in the batch.                                           *)
Broken == IF MyPeer = Nobody THEN TRUE ELSE peer[MyPeer].hup = "rst"

(* The routine goes on at another point of handle(). *)
Continue(h) ==
  /\ handler' = [handler EXCEPT ![Me] = h]
  /\ UNCHANGED <<ordinator, pc, sweep, m_clients, conn>>

(* yield(): back in the caller of resume. *)
Suspend(h) ==
  /\ handler' = [handler EXCEPT ![Me] = h]
  /\ ordinator' = YieldRoutine(ordinator)
  /\ pc' = from
  /\ UNCHANGED <<sweep, m_clients, conn>>

(* A slip: the descriptor stays open. *)
BadCloseMine ==
  /\ handler' = Forget(handler, Me)
  /\ peer' = [peer EXCEPT ![MyPeer].link = "off", ![MyPeer].inbox = FALSE,
                          ![MyPeer].hup = "no"]
  /\ UNCHANGED conn

(* ~ClientHandler closes the descriptor, which cuts the peer off. *)
CloseMine ==
  /\ conn' = [conn EXCEPT ![Mine.fd] = Nobody]
  /\ handler' = Forget(handler, Me)
  /\ peer' = [c \in Peers |->
                IF c = MyPeer
                THEN [peer[c] EXCEPT !.link = "off", !.inbox = FALSE, !.hup = "no"]
                ELSE peer[c]]

(* The sweep's element was erased under it: `++` reads a freed node. *)
AfterErase ==
  \/ /\ from = "events"
     /\ pc' = "events"
     /\ UNCHANGED sweep
  \/ /\ from = "sweep"
     /\ \E outcome \in EraseInLoop :
          /\ pc' = IF outcome = "abort" THEN "terminated" ELSE "sweep"
          /\ sweep' = IF outcome = "continue" THEN sweep ELSE {}

(* A slip: the client is not erased. *)
BadLeave ==
  /\ CloseMine
  /\ ordinator' = EndRoutine(ordinator, FALSE)
  /\ AfterErase
  /\ UNCHANGED m_clients

(* handle() has returned: handle_client erases the client, then closes. *)
Leave ==
  /\ m_clients' = Forget(m_clients, Mine.fd)
  /\ CloseMine
  /\ ordinator' = EndRoutine(ordinator, FALSE)
  /\ AfterErase

(* A ConnectionError leaves handle_client: unwinding closes the connection,   *)
(* the client is not erased, and resume() rethrows if the exception reached   *)
(* the routine's element.  Nobody catches it.                                 *)
ThrowError ==
  LET o == EndRoutine(ordinator, TRUE)
  IN  /\ CloseMine
      /\ ordinator' = o
      /\ pc' = IF o.routines[Me].exception THEN "terminated" ELSE from
      /\ UNCHANGED <<sweep, m_clients>>

timed_out(h) == h.age >= ReadTimeout \/ h.age >= WriteTimeout

(* A slip: a routine that is resumed is taken to be in time. *)
BadAfterYield ==
  /\ pc = "co"
  /\ Mine.at \in {"read_wait", "write_wait"}
  /\ Continue([Mine EXCEPT !.age = 0,
                           !.at = IF @ = "read_wait" THEN "read" ELSE "write"])
  /\ UNCHANGED <<from, batch, peer, idle, m_done>>

(* Resumed after a yield: is_timed_out() breaks off, or sets m_last_resumed. *)
AfterYield ==
  /\ pc = "co"
  /\ Mine.at \in {"read_wait", "write_wait"}
  /\ Continue(IF timed_out(Mine) THEN [Mine EXCEPT !.at = "leave"]
              ELSE [Mine EXCEPT !.age = 0,
                                !.at = IF @ = "read_wait" THEN "read" ELSE "write"])
  /\ UNCHANGED <<from, batch, peer, idle, m_done>>

(* read_all: a request; nothing, where EAGAIN and end of file look the same;  *)
(* or a ConnectionError.                                                      *)
HandleRead ==
  /\ pc = "co"
  /\ Mine.at = "read"
  /\ \/ /\ ~Broken /\ peer[MyPeer].inbox
        /\ peer' = [peer EXCEPT ![MyPeer].inbox = FALSE]
        /\ \E keep \in BOOLEAN, n \in 1..RespLen :
             Continue([Mine EXCEPT !.at = "write", !.left = n, !.keep = keep])
     \/ /\ ~Broken /\ ~peer[MyPeer].inbox
        /\ Suspend([Mine EXCEPT !.at = "read_wait"])
        /\ UNCHANGED peer
     \/ Broken /\ ThrowError
  /\ UNCHANGED <<from, batch, idle, m_done>>

(* What a write of len units may take: as much as fits, or nothing (EPIPE)    *)
(* when the peer has closed and answers data with a reset.                    *)
Taken(len) ==
  {MinOf(len, peer[MyPeer].room)} \cup (IF peer[MyPeer].hup = "fin" THEN {0} ELSE {})

(* try_send_response: one write of what is left, and a yield if it was short. *)
HandleWrite ==
  /\ pc = "co"
  /\ Mine.at = "write"
  /\ \/ /\ ~Broken
        /\ \E n \in Taken(Mine.left) :
             LET h == [Mine EXCEPT !.left = @ - n]
             IN  /\ peer' = [peer EXCEPT ![MyPeer].room = @ - n]
                 /\ IF h.left = 0
                    THEN Continue([h EXCEPT !.at = "files"])
                    ELSE Suspend([h EXCEPT !.at = "write_wait"])
     \/ Broken /\ ThrowError
  /\ UNCHANGED <<from, batch, idle, m_done>>

(* send_file sends what the buffer takes and gives up on EAGAIN or EPIPE; its *)
(* result is not looked at.  The file is taken to exist.  Then the next       *)
(* request is read, or handle() returns.                                      *)
HandleFiles ==
  /\ pc = "co"
  /\ Mine.at = "files"
  /\ \/ /\ ~Broken \/ FileLen = 0
        /\ \E n \in Taken(FileLen) : peer' = [peer EXCEPT ![MyPeer].room = @ - n]
        /\ Continue([Mine EXCEPT !.at = IF Mine.keep THEN "read" ELSE "leave"])
     \/ Broken /\ FileLen > 0 /\ ThrowError
  /\ UNCHANGED <<from, batch, idle, m_done>>

HandleLeave ==
  /\ pc = "co"
  /\ Mine.at = "leave"
  /\ Leave
  /\ UNCHANGED <<from, batch, idle, m_done>>

-----------------------------------------------------------------------------
Environment ==
  \/ \E c \in Peers :
       \/ Connect(c) \/ SendRequest(c) \/ Drain(c)
       \/ \E how \in HangUps : HangUp(c, how)
  \/ Signal

WorkerStep ==
  \/ LoopTest \/ EpollEvents \/ EpollTimeout \/ EventsDone \/ SweepDone
  \/ \E c \in Peers : AcceptOne(c)
  \/ AcceptDone
  \/ \E f \in Fds : DispatchNew(f) \/ Dispatch(f) \/ SweepOne(f)
  \/ AfterYield \/ HandleRead \/ HandleWrite \/ HandleFiles \/ HandleLeave

Next == Environment \/ Tick \/ WorkerStep

Spec == Init /\ [][Next]_vars

(* The worker thread keeps running and the clock keeps going.  Peers may stop *)
(* at any point, and no signal need ever come.                                *)
Fairness == WF_vars(WorkerStep) /\ WF_vars(Tick)

FairSpec == Spec /\ Fairness

(* Peers are interchangeable; used where only invariants are checked. *)
PeerSymmetry == Permutations(Peers)

-----------------------------------------------------------------------------
(* Every connection that is being handled has a routine of its own: m_clients *)
(* and the frames on the routines' stacks agree, one to one, and name an open *)
(* descriptor, as long as the process lives.                                  *)
OwnRoutine ==
  pc # "terminated" =>
    /\ \A f \in DOMAIN m_clients :
         /\ m_clients[f] \in DOMAIN handler
         /\ handler[m_clients[f]].fd = f
         /\ conn[f] # Nobody
    /\ \A id \in DOMAIN handler :
         /\ handler[id].fd \in DOMAIN m_clients
         /\ m_clients[handler[id].fd] = id

(* A peer has one descriptor, and only while it is connected: none is leaked  *)
(* and none is closed under a peer that is still there.                       *)
NoLeakedFd ==
  \A c \in Peers :
    Cardinality({f \in Fds : conn[f] = c}) = IF peer[c].link = "open" THEN 1 ELSE 0

(* The sweep only meets clients whose time is up: it never resumes one just   *)
(* to give it a new lease.                                                    *)
SweepMeetsTimedOut ==
  pc = "sweep" =>
    \A f \in sweep \cap DOMAIN m_clients : timed_out(handler[m_clients[f]])

(* run() has been left, by its return or with the process. *)
Over == pc \in {"exit", "terminated"}

(* A request that has arrived is read, or its connection closed. *)
RequestServed ==
  \A c \in Peers :
    (peer[c].link = "open" /\ peer[c].inbox)
      ~> (Over \/ peer[c].link # "open" \/ ~peer[c].inbox)

(* A client that has a routine does not keep it for ever once it has fallen   *)
(* silent.                                                                    *)
RoutineReleased ==
  \A f \in Fds :
    f \in DOMAIN m_clients ~> (Over \/ f \notin DOMAIN m_clients)
=============================================================================
