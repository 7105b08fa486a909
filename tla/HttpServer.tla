----------------------------- MODULE HttpServer ------------------------------
(***************************************************************************)
(* http::Server of hw6 from its construction to the end of the process: the  *)
(* thread that calls run() and the workers it creates, SIGINT and SIGTERM    *)
(* handled on whatever thread they reach, the destructor, and the example's  *)
(* on_request, which all threads call.  Inside a worker (module HttpWorker)  *)
(* only its loop is told apart here.                                         *)
(*                                                                           *)
(* Thread 0 is main's.  A thread with something on its stack is inside       *)
(* join_threads(), in handlers or in ~Server; a handler may interrupt one.   *)
(***************************************************************************)
EXTENDS HttpRequest, FiniteSets

CONSTANTS
  Limits,         \* values of thread_limit
  MaxThreads,     \* threads the system lets run() create
  MaxArrivals     \* bound: signals and requests that arrive

ASSUME ServerAssumption ==
  /\ Limits \subseteq Nat
  /\ MaxThreads \in Nat /\ MaxArrivals \in Nat

Pool == 1..MaxThreads
Threads == 0..MaxThreads
Signals == {"SIGINT", "SIGTERM"}

(* Requests: what a client means, and how it writes the path and the query.   *)
F == 102    G == 103    Z == 122    Digit(n) == 48 + n
Plain(method, path) ==
  [method |-> method, path |-> path, target |-> path, query |-> <<>>, versioned |-> TRUE,
   headers |-> <<>>, body |-> <<>>]
Escaped(path, target) == [Plain(GET, path) EXCEPT !.target = target]

Messages ==
  {Plain(GET, <<Slash, F>>), Plain(GET, <<Slash, G>>), Plain(GET, <<Slash>>),
   Plain(PUT, <<Slash, F>>), Plain(GET, <<Slash, Dot, Dot, Slash, F>>),
   [Plain(GET, <<Slash, F>>) EXCEPT !.versioned = FALSE],
   [Plain(GET, <<Slash, F>>) EXCEPT
      !.query = << <<F, Digit(1)>>, <<G, Digit(2)>>, <<Z, Digit(3)>> >>],
   [Plain(POST, <<Slash, F>>) EXCEPT !.headers = << <<G, F>>, <<F, G>> >>, !.body = <<F>>],
   Escaped(<<Slash, G, F>>, <<Slash, Percent, Digit(6), Digit(7), F>>),
   Escaped(<<Slash, 0>>, <<Slash, Percent, Digit(0), Digit(0)>>),
   Escaped(<<Slash, Percent, Z, Z>>, <<Slash, Percent, Z, Z>>)}

Joined(query) ==
  LET from[i \in 1..Len(query) + 1] ==
        IF i > Len(query) THEN <<>>
        ELSE <<IF i = 1 THEN Question ELSE Amp, query[i][1], Equals, query[i][2]>> \o from[i + 1]
  IN  from[1]
Lines(headers) ==
  LET from[i \in 1..Len(headers) + 1] ==
        IF i > Len(headers) THEN <<>>
        ELSE <<headers[i][1], Colon, SP, headers[i][2]>> \o CRLF \o from[i + 1]
  IN  from[1]
Text(m) ==
  <<m.method, SP>> \o m.target \o Joined(m.query) \o (IF m.versioned THEN <<SP, HTTP>> ELSE <<>>)
    \o CRLF \o Lines(m.headers) \o CRLF \o m.body

HttpRequestOf == [m \in Messages |-> Parse(Text(m))]

(* What is in the document root. *)
Files == {<<Slash, F>>}
Directories == {<<Slash>>}

VARIABLES
  thread_limit, timed,  \* arguments of run(): timed if the timeouts are given
  pc,                   \* where each thread is
  stack,                \* what each thread has on top of that
  m_done,
  m_fd,                 \* the listening socket is open
  ctx,                  \* run()'s HandlerContext exists
  threads,              \* the size of m_threads
  m_status,             \* MyServer's
  request,              \* what each thread is answering, and its response
  signals, requests,
  failed, interrupted   \* main left run() by an exception; a pool thread had a signal

lifeVars == <<thread_limit, timed, pc, stack, m_done, m_fd, ctx, threads, signals, failed,
              interrupted>>
requestVars == <<m_status, request, requests>>
vars == <<lifeVars, requestVars>>

Nothing == [method |-> 0]
NoRequest == [message |-> Nothing, status |-> "none", file |-> FALSE]

Init ==
  /\ thread_limit \in Limits
  /\ timed \in BOOLEAN
  /\ pc = [t \in Threads |-> IF t = 0 THEN "open" ELSE "none"]
  /\ stack = [t \in Threads |-> <<>>]
  /\ m_done = FALSE
  /\ m_fd = FALSE
  /\ ctx = FALSE
  /\ threads = 0
  /\ m_status = "200"
  /\ request = [t \in Threads |-> NoRequest]
  /\ signals = 0
  /\ requests = 0
  /\ failed = FALSE
  /\ interrupted = FALSE

Over == pc[0] \in {"over", "terminated"}
Running(t) == ~Over /\ stack[t] = <<>>
Goto(t, l) == pc' = [pc EXCEPT ![t] = l]

(* std::terminate, of the whole process. *)
Terminate ==
  /\ pc' = [t \in Threads |-> IF t = 0 THEN "terminated" ELSE "none"]
  /\ stack' = [t \in Threads |-> <<>>]

-----------------------------------------------------------------------------
(* The constructor.  An exception of one of its system calls destroys m_fd,   *)
(* but not the server, which was never there; main returns.                   *)
Open ==
  /\ Running(0) /\ pc[0] = "open"
  /\ \/ m_fd' = TRUE /\ Goto(0, "listen")
     \/ UNCHANGED m_fd /\ Goto(0, "over")
  /\ UNCHANGED <<thread_limit, timed, stack, m_done, ctx, threads, signals, failed, interrupted,
                 requestVars>>

Listen ==
  /\ Running(0) /\ pc[0] = "listen"
  /\ \/ UNCHANGED m_fd /\ Goto(0, "before")
     \/ m_fd' = FALSE /\ Goto(0, "over")
  /\ UNCHANGED <<thread_limit, timed, stack, m_done, ctx, threads, signals, failed, interrupted,
                 requestVars>>

(* run(), up to the loop.  thread_limit - 1 is unsigned: with 0 threads are   *)
(* created until one cannot be, a system_error that nobody catches.           *)
MoreThreads == thread_limit = 0 \/ threads < thread_limit - 1

Run ==
  /\ Running(0) /\ pc[0] = "before"
  /\ m_done' = FALSE
  /\ ctx' = TRUE
  /\ Goto(0, "spawn")
  /\ UNCHANGED <<thread_limit, timed, stack, m_fd, threads, signals, failed, interrupted,
                 requestVars>>

Spawn ==
  /\ Running(0) /\ pc[0] = "spawn"
  /\ \/ /\ MoreThreads /\ threads < MaxThreads
        /\ threads' = threads + 1
        /\ Goto(threads + 1, "ctor")
        /\ UNCHANGED stack
     \/ /\ MoreThreads /\ threads = MaxThreads
        /\ Terminate
        /\ UNCHANGED threads
     \/ /\ ~MoreThreads
        /\ Goto(0, "ctor")
        /\ UNCHANGED <<threads, stack>>
  /\ UNCHANGED <<thread_limit, timed, m_done, m_fd, ctx, signals, failed, interrupted,
                 requestVars>>

(* A ServerError: main unwinds run() and destroys the server; out of a pool   *)
(* thread it ends the process.                                                *)
ServerError(t) ==
  IF t = 0
  THEN /\ ctx' = FALSE
       /\ failed' = TRUE
       /\ Goto(0, "dtor")
       /\ UNCHANGED stack
  ELSE Terminate /\ UNCHANGED <<ctx, failed>>

(* ServerWorker's constructor: epoll does not take a closed socket, and there *)
(* may be no descriptor for it.                                               *)
WorkerNew(t) ==
  /\ Running(t) /\ pc[t] = "ctor"
  /\ \/ /\ m_fd
        /\ Goto(t, "test")
        /\ UNCHANGED <<stack, ctx, failed>>
     \/ ServerError(t)
  /\ UNCHANGED <<thread_limit, timed, m_done, m_fd, threads, signals, interrupted, requestVars>>

(* The loop's test of m_done.  run() returns and ctx goes out of scope. *)
LoopTest(t) ==
  /\ Running(t) /\ pc[t] = "test"
  /\ Goto(t, IF ~m_done THEN "wait" ELSE IF t = 0 THEN "dtor" ELSE "ended")
  /\ ctx' = (ctx /\ ~(m_done /\ t = 0))
  /\ UNCHANGED <<thread_limit, timed, stack, m_done, m_fd, threads, signals, failed,
                 interrupted, requestVars>>

(* epoll_wait returns after the read timeout, or fails, or accept4 does. *)
Wake(t) ==
  /\ Running(t) /\ pc[t] = "wait" /\ timed
  /\ Goto(t, "test")
  /\ UNCHANGED <<thread_limit, timed, stack, m_done, m_fd, ctx, threads, signals, failed,
                 interrupted, requestVars>>

WorkerFails(t) ==
  /\ Running(t) /\ pc[t] = "wait"
  /\ ServerError(t)
  /\ UNCHANGED <<thread_limit, timed, m_done, m_fd, threads, signals, interrupted, requestVars>>

-----------------------------------------------------------------------------
(* A request: parsing it may go round for ever or throw what nobody catches.  *)
(* Answering one needs ctx.                                                   *)
Request(t, m) ==
  /\ Running(t) /\ pc[t] = "wait"
  /\ signals + requests < MaxArrivals
  /\ requests' = requests + 1
  /\ LET how == HttpRequestOf[m].how
     IN  \/ /\ how = "throws" \/ ~ctx
            /\ Terminate
            /\ UNCHANGED request
         \/ /\ how # "throws" /\ ctx
            /\ Goto(t, IF how = "hangs" THEN "hung" ELSE "validate")
            /\ request' = [request EXCEPT ![t].message = m]
            /\ UNCHANGED stack
  /\ UNCHANGED <<thread_limit, timed, m_done, m_fd, ctx, threads, signals, failed, interrupted,
                 m_status>>

(* validate_method, validate_path and validate_version. *)
Checked(r, otherwise) ==
  IF r.method \notin {<<GET>>, <<POST>>} THEN "405"
  ELSE IF Find(r.path, <<Dot, Dot, Slash>>) # 0 THEN "403"
  ELSE IF ~StartsWith(r.version, <<HTTP>>) THEN "400"
  ELSE otherwise

(* A slip: each request starts from 200. *)
ResetVerdict(r, status) == Checked(r, "200")

(* on_request: a refusal goes to m_status, which is never set to 200 again. *)
Verdict(r, status) == Checked(r, status)

Validate(t) ==
  /\ Running(t) /\ pc[t] = "validate"
  /\ m_status' = Verdict(HttpRequestOf[request[t].message], m_status)
  /\ Goto(t, "copy")
  /\ UNCHANGED <<thread_limit, timed, stack, m_done, m_fd, ctx, threads, signals, failed,
                 interrupted, request, requests>>

CopyStatus(t) ==
  /\ Running(t) /\ pc[t] = "copy"
  /\ request' = [request EXCEPT ![t].status = m_status]
  /\ Goto(t, "file")
  /\ UNCHANGED <<thread_limit, timed, stack, m_done, m_fd, ctx, threads, signals, failed,
                 interrupted, m_status, requests>>

(* is_file_available: what it finds goes to m_status, after the response has  *)
(* its status.  The response is sent and the thread goes back to its loop.    *)
FindFile(t) ==
  /\ Running(t) /\ pc[t] = "file"
  /\ LET r == HttpRequestOf[request[t].message]
     IN  /\ m_status' = IF m_status # "200" \/ r.path \in Files THEN m_status
                        ELSE IF r.path \in Directories THEN "403"
                        ELSE "404"
         /\ request' = [request EXCEPT ![t].file = (m_status' = "200" /\ r.method = <<GET>>)]
  /\ Goto(t, "sent")
  /\ UNCHANGED <<thread_limit, timed, stack, m_done, m_fd, ctx, threads, signals, failed,
                 interrupted, requests>>

Sent(t) ==
  /\ Running(t) /\ pc[t] = "sent"
  /\ request' = [request EXCEPT ![t] = NoRequest]
  /\ Goto(t, "test")
  /\ UNCHANGED <<thread_limit, timed, stack, m_done, m_fd, ctx, threads, signals, failed,
                 interrupted, m_status, requests>>

-----------------------------------------------------------------------------
(* join_threads() and close(), on the thread whose stack they are on. *)
Call(why) == [why |-> why, at |-> "test", next |-> 1, last |-> 0]
Top(t) == Head(stack[t])
Active(t, l) == ~Over /\ stack[t] # <<>> /\ Top(t).at = l
Set(t, frame) == stack' = [stack EXCEPT ![t] = <<frame>> \o Tail(@)]
Pop(t) == stack' = [stack EXCEPT ![t] = Tail(@)]

(* A signal reaches any thread that is not in that signal's handler already,  *)
(* once main has registered the handlers.                                     *)
Signal(t, sig) ==
  /\ ~Over
  /\ signals + requests < MaxArrivals
  /\ pc[t] \notin {"open", "listen", "none", "ended", "joined"}
  /\ \A i \in 1..Len(stack[t]) : stack[t][i].why # sig
  /\ stack' = [stack EXCEPT ![t] = <<Call(sig)>> \o @]
  /\ signals' = signals + 1
  /\ interrupted' = (interrupted \/ t # 0)
  /\ UNCHANGED <<thread_limit, timed, pc, m_done, m_fd, ctx, threads, failed, requestVars>>

(* After join_threads() a handler closes the socket; the destructor does not. *)
AfterJoin(t) == [Top(t) EXCEPT !.at = IF Top(t).why = "dtor" THEN "return" ELSE "close"]

JoinTest(t) ==
  /\ Active(t, "test")
  /\ Set(t, IF m_done THEN AfterJoin(t) ELSE [Top(t) EXCEPT !.at = "set"])
  /\ UNCHANGED <<thread_limit, timed, pc, m_done, m_fd, ctx, threads, signals, failed,
                 interrupted, requestVars>>

(* A slip: the flag is never set. *)
ForgetDone(t) ==
  /\ Active(t, "set")
  /\ Set(t, [Top(t) EXCEPT !.at = "join", !.last = threads])
  /\ UNCHANGED <<thread_limit, timed, pc, m_done, m_fd, ctx, threads, signals, failed,
                 interrupted, requestVars>>

JoinSet(t) ==
  /\ Active(t, "set")
  /\ m_done' = TRUE
  /\ Set(t, [Top(t) EXCEPT !.at = "join", !.last = threads])
  /\ UNCHANGED <<thread_limit, timed, pc, m_fd, ctx, threads, signals, failed, interrupted,
                 requestVars>>

(* A slip: the threads are not waited for. *)
DetachOne(t) ==
  /\ Active(t, "join")
  /\ Set(t, IF Top(t).next > Top(t).last THEN AfterJoin(t)
            ELSE [Top(t) EXCEPT !.next = @ + 1])
  /\ UNCHANGED <<thread_limit, timed, pc, m_done, m_fd, ctx, threads, signals, failed,
                 interrupted, requestVars>>

(* A thread that joins itself, or one that has been joined, is a system_error *)
(* out of a signal handler or of a destructor.                                *)
JoinOne(t) ==
  /\ Active(t, "join")
  /\ LET i == Top(t).next
     IN  \/ /\ i > Top(t).last
            /\ Set(t, AfterJoin(t))
            /\ UNCHANGED pc
         \/ /\ i <= Top(t).last /\ pc[i] = "ended"
            /\ Goto(i, "joined")
            /\ Set(t, [Top(t) EXCEPT !.next = i + 1])
         \/ /\ i <= Top(t).last /\ (i = t \/ pc[i] = "joined")
            /\ Terminate
  /\ UNCHANGED <<thread_limit, timed, m_done, m_fd, ctx, threads, signals, failed, interrupted,
                 requestVars>>

(* FileDescriptor::close tests before it closes: the second of two that pass  *)
(* the test finds the descriptor closed, an exception.                        *)
CloseTest(t) ==
  /\ Active(t, "close")
  /\ IF m_fd THEN Set(t, [Top(t) EXCEPT !.at = "closing"]) ELSE Pop(t)
  /\ UNCHANGED <<thread_limit, timed, pc, m_done, m_fd, ctx, threads, signals, failed,
                 interrupted, requestVars>>

CloseFd(t) ==
  /\ Active(t, "closing")
  /\ m_fd' = FALSE
  /\ IF m_fd THEN Pop(t) /\ UNCHANGED pc ELSE Terminate
  /\ UNCHANGED <<thread_limit, timed, m_done, ctx, threads, signals, failed, interrupted,
                 requestVars>>

(* ~Server, and ~thread of m_threads: one that is still joinable terminates.  *)
Destroy ==
  /\ Running(0) /\ pc[0] = "dtor"
  /\ stack' = [stack EXCEPT ![0] = <<Call("dtor")>>]
  /\ Goto(0, "free")
  /\ UNCHANGED <<thread_limit, timed, m_done, m_fd, ctx, threads, signals, failed, interrupted,
                 requestVars>>

DestroyReturn ==
  /\ Active(0, "return")
  /\ Pop(0)
  /\ UNCHANGED <<thread_limit, timed, pc, m_done, m_fd, ctx, threads, signals, failed,
                 interrupted, requestVars>>

Free ==
  /\ Running(0) /\ pc[0] = "free"
  /\ IF \A i \in 1..threads : pc[i] = "joined"
     THEN Goto(0, "over") /\ UNCHANGED stack
     ELSE Terminate
  /\ UNCHANGED <<thread_limit, timed, m_done, m_fd, ctx, threads, signals, failed, interrupted,
                 requestVars>>

-----------------------------------------------------------------------------
ThreadStep(t) ==
  \/ WorkerNew(t) \/ LoopTest(t) \/ Wake(t)
  \/ Validate(t) \/ CopyStatus(t) \/ FindFile(t) \/ Sent(t)
  \/ JoinTest(t) \/ JoinSet(t) \/ JoinOne(t) \/ CloseTest(t) \/ CloseFd(t)

MainStep == Open \/ Listen \/ Run \/ Spawn \/ Destroy \/ DestroyReturn \/ Free

Next ==
  \/ MainStep
  \/ \E t \in Threads :
       \/ ThreadStep(t) \/ WorkerFails(t)
       \/ \E m \in Messages : Request(t, m)
       \/ \E sig \in Signals : Signal(t, sig)

Spec == Init /\ [][Next]_vars

(* Threads run, and epoll_wait with a timeout returns. *)
FairSpec == Spec /\ WF_vars(MainStep) /\ \A t \in Threads : WF_vars(ThreadStep(t))

-----------------------------------------------------------------------------
(* run() does not return under a worker that still refers to its ctx.  The    *)
(* exceptions: run() left by a ServerError, and a signal that a pool thread   *)
(* handles, which sets m_done for main without waiting for the others.        *)
CtxOutlivesWorkers ==
  (\E t \in Pool : pc[t] \in {"test", "wait", "validate", "copy", "file", "sent"}) /\ ~ctx =>
    Over \/ failed \/ interrupted

(* A signal ends the process, one way or another and whatever it interrupts,  *)
(* unless a worker has been given %00 to unescape or waits without timeout.   *)
ShutdownEnds ==
  (signals > 0) ~> (Over \/ ~timed \/ \E t \in Threads : pc[t] = "hung")

(* With one m_status for all threads, a request that must be refused is still  *)
(* never answered with 200, and a file follows nothing but 200 to a request    *)
(* for that file.                                                              *)
Refused(m) ==
  m.method \notin {GET, POST} \/ Find(m.path, <<Dot, Dot, Slash>>) # 0 \/ ~m.versioned

RefusedNeverOk ==
  \A t \in Threads : request[t].message # Nothing =>
    LET m == request[t].message
    IN  /\ Refused(m) => request[t].status # "200"
        /\ request[t].file => request[t].status = "200" /\ m.method = GET /\ m.path \in Files

(* What on_request is given is what the client has sent: its method, headers   *)
(* and path, and its parameters, and it is refused if it must be.  Lost are a  *)
(* path with an escape in it, the first parameter's name, the last parameter,  *)
(* and every body.                                                             *)
ReadAs(m, r) ==
  /\ r.method = <<m.method>>
  /\ DOMAIN r.headers = {<<m.headers[i][1]>> : i \in 1..Len(m.headers)}
  /\ \A i \in 1..Len(m.headers) : r.headers[<<m.headers[i][1]>>] = <<m.headers[i][2]>>
  /\ m.target = m.path /\ m.versioned => r.path = m.path
  /\ \A i \in 2..Len(m.query) - 1 : r.query_params[<<m.query[i][1]>>] = <<m.query[i][2]>>
  /\ r.body = <<>>
  /\ Refused(m) => Checked(r, "200") # "200"
  /\ r.path \in Files => m.path \in Files

RequestRead ==
  \A t \in Threads :
    request[t].message # Nothing => ReadAs(request[t].message, HttpRequestOf[request[t].message])
=============================================================================
