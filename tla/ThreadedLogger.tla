--------------------------- MODULE ThreadedLogger ---------------------------
(***************************************************************************)
(* The logging library of hw2 (hw6/log is a copy of it): SafeQueue, the    *)
(* mutex/condition-variable queue; ThreadedLogger, whose worker thread     *)
(* runs the callbacks taken from it; and the callback itself, a call of    *)
(* log::debug .. log::error that filters by level and writes one line.     *)
(*                                                                         *)
(* One action is one step between two points where another thread can be   *)
(* seen: taking the mutex, leaving it, notifying, waiting, reading m_done, *)
(* reading the queue's emptiness without the mutex, and each of the two    *)
(* insertions of `stream << msg << std::endl`.                             *)
(*                                                                         *)
(* m_done and the drain loop's empty() are read without synchronisation.   *)
(* Both are one-word reads followed by calls the compiler cannot see       *)
(* through, so a reader gets the value before or after the racing write:   *)
(* exactly the two orders of the two steps.                                *)
(***************************************************************************)
EXTENDS Sequences, Naturals, FiniteSets

CONSTANTS
  Threads,       \* threads that call the library
  Main,          \* the one that calls stop() and runs the static destructor
  Worker,        \* m_worker
  NoOwner,       \* the owner of an unlocked mutex
  Levels,        \* log::Level, as the order of its enumerators
  MaxCalls,      \* bound: log calls of one thread
  DirectCalls    \* do threads also call log::info and so on directly?

ASSUME LoggerAssumption ==
  /\ Main \in Threads
  /\ Worker \notin Threads
  /\ NoOwner \notin Threads \cup {Worker}
  /\ Levels \subseteq Nat
  /\ Levels # {}
  /\ MaxCalls \in Nat
  /\ DirectCalls \in BOOLEAN

Procs == Threads \cup {Worker}

(* A log call: who made it, which of its calls it is, and its level. *)
Entry == [from : Threads, n : 0..MaxCalls, lv : Levels]

CallbackPc == {"log_filter", "log_write", "log_endl"}
ThreadPc == {"idle", "enq_lock", "enq_push", "enq_notify", "join"} \cup CallbackPc
WorkerPc == {"loop", "drain", "deq_lock", "deq_test", "deq_wait", "exited"}
              \cup CallbackPc

VARIABLES
  m_queue,     \* SafeQueue::m_queue
  m_mut,       \* owner of SafeQueue::m_mut
  m_done,      \* ThreadedLogger::m_done
  joinable,    \* m_worker.joinable()
  draining,    \* the worker is in the second loop of work()
  m_level,     \* BaseLogger::m_level of the global logger
  stream,      \* what was inserted into the logger's stream
  pc,          \* where each thread is
  entry,       \* the entry each thread has in hand
  calls,       \* how many log calls each thread has made
  accepted,    \* history: every entry put into m_queue, in order
  delivered,   \* history: every entry whose callback the worker finished
  closedAt     \* history: Len(accepted) when m_done was first set

queueVars == <<m_queue, m_mut>>
loggerVars == <<m_done, joinable, draining>>
sinkVars == <<m_level, stream>>
history == <<accepted, delivered, closedAt>>
vars == <<m_queue, m_mut, m_done, joinable, draining, m_level, stream, pc,
          entry, calls, accepted, delivered, closedAt>>

(* What the two insertions of one line put into the stream. *)
Text(e) == <<e>>
EOL == <<>>

Init ==
  /\ m_queue = <<>>
  /\ m_mut = NoOwner
  /\ m_done = FALSE
  /\ joinable = TRUE
  /\ draining = FALSE
  /\ m_level \in Levels
  /\ stream = <<>>
  /\ pc = [p \in Procs |-> IF p = Worker THEN "loop" ELSE "idle"]
  /\ entry = [p \in Procs |-> [from |-> Main, n |-> 0, lv |-> m_level]]
  /\ calls = [t \in Threads |-> 0]
  /\ accepted = <<>>
  /\ delivered = <<>>
  /\ closedAt = 0

Goto(p, l) == pc' = [pc EXCEPT ![p] = l]

NewEntry(t, lv) == [from |-> t, n |-> calls[t] + 1, lv |-> lv]

-----------------------------------------------------------------------------
(* Slips a later edit of the code could make.  No specification uses them:   *)
(* each, put in the place of the action it imitates, must be caught by the   *)
(* property it is listed with.                                               *)

(* dequeue copies front() and forgets pop(). *)
BadDequeuePop ==
  /\ pc[Worker] = "deq_test"
  /\ m_queue # <<>>
  /\ entry' = [entry EXCEPT ![Worker] = Head(m_queue)]
  /\ m_mut' = NoOwner
  /\ Goto(Worker, "log_filter")
  /\ UNCHANGED <<m_queue, loggerVars, sinkVars, calls, history>>

(* enqueue puts the entry where dequeue takes it. *)
BadEnqueuePush(t) ==
  /\ pc[t] = "enq_push"
  /\ m_queue' = <<entry[t]>> \o m_queue
  /\ m_mut' = NoOwner
  /\ accepted' = Append(accepted, entry[t])
  /\ Goto(t, "enq_notify")
  /\ UNCHANGED <<loggerVars, sinkVars, entry, calls, delivered, closedAt>>

(* enqueue notifies nobody. *)
BadEnqueueNotify(t) ==
  /\ pc[t] = "enq_notify"
  /\ Goto(t, "idle")
  /\ UNCHANGED <<queueVars, loggerVars, sinkVars, entry, calls, history>>

(* work() without its second loop. *)
BadWorkLoop ==
  /\ pc[Worker] = "loop"
  /\ Goto(Worker, IF m_done THEN "exited" ELSE "deq_lock")
  /\ UNCHANGED <<queueVars, loggerVars, sinkVars, entry, calls, history>>

(* The second loop written as do .. while. *)
BadWorkDrain ==
  /\ pc[Worker] = "drain"
  /\ Goto(Worker, "deq_lock")
  /\ UNCHANGED <<queueVars, loggerVars, sinkVars, entry, calls, history>>

(* A closed logger writes the entry on the caller's thread. *)
InlineEnqueueLog(t, lv) ==
  /\ pc[t] = "idle"
  /\ calls[t] < MaxCalls
  /\ calls' = [calls EXCEPT ![t] = @ + 1]
  /\ entry' = [entry EXCEPT ![t] = NewEntry(t, lv)]
  /\ Goto(t, IF m_done THEN "log_filter" ELSE "enq_lock")
  /\ UNCHANGED <<queueVars, loggerVars, sinkVars, history>>

(* enqueue_log without the test of m_done. *)
UncheckedEnqueueLog(t, lv) ==
  /\ pc[t] = "idle"
  /\ calls[t] < MaxCalls
  /\ calls' = [calls EXCEPT ![t] = @ + 1]
  /\ entry' = [entry EXCEPT ![t] = NewEntry(t, lv)]
  /\ Goto(t, "enq_lock")
  /\ UNCHANGED <<queueVars, loggerVars, sinkVars, history>>

-----------------------------------------------------------------------------
(* debug_tl .. error_tl and enqueue_log: the test of m_done.  A closed       *)
(* logger throws LoggerThreadStopped and nothing else happens.               *)
EnqueueLog(t, lv) ==
  /\ pc[t] = "idle"
  /\ calls[t] < MaxCalls
  /\ calls' = [calls EXCEPT ![t] = @ + 1]
  /\ \/ /\ m_done
        /\ UNCHANGED <<pc, entry>>
     \/ /\ ~m_done
        /\ entry' = [entry EXCEPT ![t] = NewEntry(t, lv)]
        /\ Goto(t, "enq_lock")
  /\ UNCHANGED <<queueVars, loggerVars, sinkVars, history>>

(* SafeQueue::enqueue: std::lock_guard lock(m_mut). *)
EnqueueLock(t) ==
  /\ pc[t] = "enq_lock"
  /\ m_mut = NoOwner
  /\ m_mut' = t
  /\ Goto(t, "enq_push")
  /\ UNCHANGED <<m_queue, loggerVars, sinkVars, entry, calls, history>>

(* m_queue.emplace and the end of the guarded block. *)
EnqueuePush(t) ==
  /\ pc[t] = "enq_push"
  /\ m_queue' = Append(m_queue, entry[t])
  /\ m_mut' = NoOwner
  /\ accepted' = Append(accepted, entry[t])
  /\ Goto(t, "enq_notify")
  /\ UNCHANGED <<loggerVars, sinkVars, entry, calls, delivered, closedAt>>

(* m_cv.notify_one(), after the mutex was left: the worker is the only      *)
(* thread that ever waits.                                                  *)
EnqueueNotify(t) ==
  /\ pc[t] = "enq_notify"
  /\ pc' = [pc EXCEPT ![t] = "idle",
                      ![Worker] = IF @ = "deq_wait" THEN "deq_lock" ELSE @]
  /\ UNCHANGED <<queueVars, loggerVars, sinkVars, entry, calls, history>>

-----------------------------------------------------------------------------
(* SafeQueue::dequeue, called by the worker only. *)
DequeueLock ==
  /\ pc[Worker] = "deq_lock"
  /\ m_mut = NoOwner
  /\ m_mut' = Worker
  /\ Goto(Worker, "deq_test")
  /\ UNCHANGED <<m_queue, loggerVars, sinkVars, entry, calls, history>>

(* An empty queue: m_cv.wait leaves the mutex and blocks in one step. *)
DequeueWait ==
  /\ pc[Worker] = "deq_test"
  /\ m_queue = <<>>
  /\ m_mut' = NoOwner
  /\ Goto(Worker, "deq_wait")
  /\ UNCHANGED <<m_queue, loggerVars, sinkVars, entry, calls, history>>

(* A wait may return without a notification: it takes the mutex again. *)
SpuriousWake ==
  /\ pc[Worker] = "deq_wait"
  /\ Goto(Worker, "deq_lock")
  /\ UNCHANGED <<queueVars, loggerVars, sinkVars, entry, calls, history>>

(* front() is moved out, popped, the mutex left, and log() entered. *)
DequeuePop ==
  /\ pc[Worker] = "deq_test"
  /\ m_queue # <<>>
  /\ entry' = [entry EXCEPT ![Worker] = Head(m_queue)]
  /\ m_queue' = Tail(m_queue)
  /\ m_mut' = NoOwner
  /\ Goto(Worker, "log_filter")
  /\ UNCHANGED <<loggerVars, sinkVars, calls, history>>

(* work(): the condition of the first loop, read without the mutex. *)
WorkLoop ==
  /\ pc[Worker] = "loop"
  /\ Goto(Worker, IF m_done THEN "drain" ELSE "deq_lock")
  /\ draining' = m_done
  /\ UNCHANGED <<queueVars, m_done, joinable, sinkVars, entry, calls, history>>

(* work(): the condition of the second loop, empty() without the mutex. *)
WorkDrain ==
  /\ pc[Worker] = "drain"
  /\ Goto(Worker, IF m_queue = <<>> THEN "exited" ELSE "deq_lock")
  /\ UNCHANGED <<queueVars, loggerVars, sinkVars, entry, calls, history>>

-----------------------------------------------------------------------------
(* The callback: log::debug .. log::error called on the spot by a thread,    *)
(* or by ThreadedLogger::log in the worker.                                  *)
LogDirect(t, lv) ==
  /\ DirectCalls
  /\ pc[t] = "idle"
  /\ calls[t] < MaxCalls
  /\ calls' = [calls EXCEPT ![t] = @ + 1]
  /\ entry' = [entry EXCEPT ![t] = NewEntry(t, lv)]
  /\ Goto(t, "log_filter")
  /\ UNCHANGED <<queueVars, loggerVars, sinkVars, history>>

(* The callback returns: the worker goes back to the loop it came from. *)
LogReturn(p) ==
  IF p = Worker
  THEN /\ Goto(p, IF draining THEN "drain" ELSE "loop")
       /\ delivered' = Append(delivered, entry[p])
  ELSE /\ Goto(p, "idle")
       /\ UNCHANGED delivered

(* BaseLogger::log: a level below m_level is dropped, whatever m_level was   *)
(* when the entry was made.                                                  *)
LogFilter(p) ==
  /\ pc[p] = "log_filter"
  /\ \/ /\ entry[p].lv < m_level
        /\ LogReturn(p)
     \/ /\ entry[p].lv >= m_level
        /\ Goto(p, "log_write")
        /\ UNCHANGED delivered
  /\ UNCHANGED <<queueVars, loggerVars, sinkVars, entry, calls, accepted,
                 closedAt>>

(* log_impl: stream << log_msg, *)
LogWrite(p) ==
  /\ pc[p] = "log_write"
  /\ stream' = Append(stream, Text(entry[p]))
  /\ Goto(p, "log_endl")
  /\ UNCHANGED <<queueVars, loggerVars, m_level, entry, calls, history>>

(* << std::endl, then flush(). *)
LogEndl(p) ==
  /\ pc[p] = "log_endl"
  /\ stream' = Append(stream, EOL)
  /\ LogReturn(p)
  /\ UNCHANGED <<queueVars, loggerVars, m_level, entry, calls, accepted,
                 closedAt>>

(* BaseLogger::set_level, at any time, by the main thread. *)
SetLevel(lv) ==
  /\ pc[Main] = "idle"
  /\ m_level' = lv
  /\ UNCHANGED <<queueVars, loggerVars, stream, pc, entry, calls, history>>

-----------------------------------------------------------------------------
(* stop(): m_done is set without telling the worker, which is then joined   *)
(* if it has not been.  The destructor makes the same call once more.       *)
Stop ==
  /\ pc[Main] = "idle"
  /\ m_done' = TRUE
  /\ closedAt' = IF m_done THEN closedAt ELSE Len(accepted)
  /\ Goto(Main, IF joinable THEN "join" ELSE "idle")
  /\ UNCHANGED <<queueVars, joinable, draining, sinkVars, entry, calls,
                 accepted, delivered>>

(* m_worker.join() returns once work() has. *)
Join ==
  /\ pc[Main] = "join"
  /\ pc[Worker] = "exited"
  /\ joinable' = FALSE
  /\ Goto(Main, "idle")
  /\ UNCHANGED <<queueVars, m_done, draining, sinkVars, entry, calls, history>>

-----------------------------------------------------------------------------
(* The steps of a call that has begun. *)
EnqueueStep(t) == EnqueueLock(t) \/ EnqueuePush(t) \/ EnqueueNotify(t)
LogStep(p) == LogFilter(p) \/ LogWrite(p) \/ LogEndl(p)
WorkerStep ==
  WorkLoop \/ WorkDrain \/ DequeueLock \/ DequeueWait \/ DequeuePop
    \/ LogStep(Worker)

Next ==
  \/ \E t \in Threads :
       \/ \E lv \in Levels : EnqueueLog(t, lv) \/ LogDirect(t, lv)
       \/ EnqueueStep(t)
       \/ LogStep(t)
  \/ WorkerStep
  \/ SpuriousWake
  \/ \E lv \in Levels : SetLevel(lv)
  \/ Stop
  \/ Join

Spec == Init /\ [][Next]_vars

(* A thread inside the library keeps running, and a thread that waits for    *)
(* the mutex gets it if it is free again and again.  Nobody has to call the  *)
(* library, to call stop(), or to be woken without a notification.           *)
Fairness ==
  /\ \A t \in Threads :
       /\ SF_vars(EnqueueLock(t))
       /\ WF_vars(EnqueuePush(t) \/ EnqueueNotify(t))
       /\ WF_vars(LogStep(t))
  /\ SF_vars(DequeueLock)
  /\ WF_vars(WorkerStep)
  /\ WF_vars(Join)

FairSpec == Spec /\ Fairness

-----------------------------------------------------------------------------
(* Types.  The worker is only ever at a point of work(), a caller only ever  *)
(* at a point of the calls it makes.                                         *)
TypeOK ==
  /\ m_queue \in Seq(Entry)
  /\ m_mut \in Procs \cup {NoOwner}
  /\ m_done \in BOOLEAN
  /\ joinable \in BOOLEAN
  /\ draining \in BOOLEAN
  /\ m_level \in Levels
  /\ stream \in Seq({Text(e) : e \in Entry} \cup {EOL})
  /\ pc \in [Procs -> ThreadPc \cup WorkerPc]
  /\ pc[Worker] \in WorkerPc
  /\ \A t \in Threads : pc[t] \in ThreadPc
  /\ entry \in [Procs -> Entry]
  /\ calls \in [Threads -> 0..MaxCalls]
  /\ accepted \in Seq(Entry)
  /\ delivered \in Seq(Entry)
  /\ closedAt \in Nat

(* The entry the worker has popped and not yet finished, if any. *)
InHand == IF pc[Worker] \in CallbackPc THEN <<entry[Worker]>> ELSE <<>>

(* The queue loses, duplicates and reorders nothing: what was put into it is  *)
(* what the worker finished, then the entry it has in hand, then what is      *)
(* still queued, in that order.                                               *)
QueueIsFifo == accepted = delivered \o InHand \o m_queue

(* Although enqueue notifies after it has left the mutex, the worker never    *)
(* sleeps on a queue that has entries without a notification on its way.      *)
NoLostWakeup ==
  pc[Worker] = "deq_wait" /\ m_queue # <<>>
    => \E t \in Threads : pc[t] = "enq_notify"

(* A worker that has left work() has run the callback of everything that was  *)
(* queued when stop() set m_done.                                             *)
FlushedOnExit == pc[Worker] = "exited" => Len(delivered) >= closedAt

(* The drain loop tests empty() without the mutex and then calls a dequeue    *)
(* that can block: it never does.                                             *)
DrainNeverBlocks == draining => pc[Worker] # "deq_wait"

(* Lines are whole when all logging goes through the worker: an entry is      *)
(* followed by its end of line.                                               *)
WholeLines ==
  \A i \in 1..Len(stream) :
    (i % 2 = 1) <=> (stream[i] # EOL)

(* A caller finds its own lines in the order in which it logged them. *)
CallerOrder ==
  \A i, j \in 1..Len(stream) :
    i < j /\ stream[i] # EOL /\ stream[j] # EOL
      => LET a == stream[i][1]
             b == stream[j][1]
         IN  a.from = b.from => a.n < b.n

(* An entry queued while the logger was open is delivered in the end. *)
Delivery ==
  \A k \in 1..(MaxCalls * Cardinality(Threads)) :
    (~m_done /\ Len(accepted) >= k) ~> (Len(delivered) >= k)

(* stop() returns. *)
StopReturns == pc[Main] = "join" ~> pc[Main] = "idle"

(* The one way stop() can hang: the worker sleeps on an empty queue. *)
StopHangsOnlyOnEmptyQueue ==
  pc[Main] = "join"
    ~> (pc[Main] = "idle" \/ (pc[Worker] = "deq_wait" /\ m_queue = <<>>))

(* The promise of LogChannel: closing is m_done, an entry is admitted between *)
(* the test of m_done and its place in the queue.                             *)
Admitted == {entry[t] : t \in {u \in Threads : pc[u] \in {"enq_lock", "enq_push"}}}

Channel == INSTANCE LogChannel
             WITH closed <- m_done, admitted <- Admitted

ImplementsLogChannel == Channel!ChanSpec
=============================================================================
