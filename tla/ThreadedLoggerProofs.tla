------------------------ MODULE ThreadedLoggerProofs ------------------------
(***************************************************************************)
(* Theorems about ThreadedLogger for every set of threads, every set of    *)
(* levels and every number of calls.                                       *)
(***************************************************************************)
EXTENDS ThreadedLogger, SequenceTheorems, TLAPS

USE DEF queueVars, loggerVars, sinkVars, history

LEMMA TypeInit == Init => TypeOK
<1> SUFFICES ASSUME Init PROVE TypeOK
  OBVIOUS
<1> USE LoggerAssumption DEF Init, Procs
<1>1. m_queue \in Seq(Entry) /\ accepted \in Seq(Entry) /\ delivered \in Seq(Entry)
  BY EmptySeq
<1>2. stream \in Seq({Text(e) : e \in Entry} \cup {EOL})
  BY EmptySeq
<1>3. entry \in [Procs -> Entry]
  BY DEF Entry
<1>4. /\ pc \in [Procs -> ThreadPc \cup WorkerPc]
      /\ pc[Worker] \in WorkerPc
      /\ \A t \in Threads : pc[t] \in ThreadPc
  BY DEF ThreadPc, WorkerPc
<1>5. calls \in [Threads -> 0..MaxCalls]
  OBVIOUS
<1> QED
  BY <1>1, <1>2, <1>3, <1>4, <1>5 DEF TypeOK

(* Every step keeps the types: one case per action. *)
LEMMA TypeStep == TypeOK /\ [Next]_vars => TypeOK'
<1> SUFFICES ASSUME TypeOK, [Next]_vars PROVE TypeOK'
  OBVIOUS
<1> USE LoggerAssumption DEF TypeOK, Procs, ThreadPc, WorkerPc, CallbackPc, Goto
<1>1. ASSUME NEW t \in Threads, NEW lv \in Levels, EnqueueLog(t, lv)
      PROVE  TypeOK'
  <2>1. NewEntry(t, lv) \in Entry
    BY <1>1 DEF EnqueueLog, NewEntry, Entry
  <2>2. CASE m_done
    BY <1>1, <2>2 DEF EnqueueLog
  <2>3. CASE ~m_done
    <3>1. entry' \in [Procs -> Entry]
      BY <1>1, <2>1, <2>3 DEF EnqueueLog
    <3>2. calls' \in [Threads -> 0..MaxCalls]
      BY <1>1 DEF EnqueueLog
    <3>3. /\ pc' \in [Procs -> ThreadPc \cup WorkerPc]
          /\ pc'[Worker] \in WorkerPc
          /\ \A u \in Threads : pc'[u] \in ThreadPc
      BY <1>1, <2>3 DEF EnqueueLog
    <3> QED
      BY <1>1, <3>1, <3>2, <3>3 DEF EnqueueLog
  <2> QED
    BY <2>2, <2>3
<1>2. ASSUME NEW t \in Threads, NEW lv \in Levels, LogDirect(t, lv)
      PROVE  TypeOK'
  BY <1>2 DEF LogDirect, NewEntry, Entry
<1>3. ASSUME NEW t \in Threads, EnqueueLock(t) PROVE TypeOK'
  BY <1>3 DEF EnqueueLock
<1>4. ASSUME NEW t \in Threads, EnqueuePush(t) PROVE TypeOK'
  BY <1>4 DEF EnqueuePush
<1>5. ASSUME NEW t \in Threads, EnqueueNotify(t) PROVE TypeOK'
  BY <1>5 DEF EnqueueNotify
<1>0. ASSUME NEW p \in Procs, LogReturn(p)
      PROVE  /\ delivered' \in Seq(Entry)
             /\ pc' \in [Procs -> ThreadPc \cup WorkerPc]
             /\ pc'[Worker] \in WorkerPc
             /\ \A t \in Threads : pc'[t] \in ThreadPc
  <2>1. CASE p = Worker
    <3>0. delivered' = Append(delivered, entry[Worker])
      BY <1>0, <2>1 DEF LogReturn
    <3>1. delivered' \in Seq(Entry)
      BY <3>0, AppendProperties
    <3>2. PICK l \in {"drain", "loop"} : pc' = [pc EXCEPT ![Worker] = l]
      BY <1>0, <2>1 DEF LogReturn
    <3> QED
      BY <3>1, <3>2
  <2>2. CASE p # Worker
    BY <1>0, <2>2 DEF LogReturn
  <2> QED
    BY <2>1, <2>2
<1>6. ASSUME NEW p \in Procs, LogFilter(p) PROVE TypeOK'
  <2>1. CASE LogReturn(p)
    BY <1>0, <1>6, <2>1 DEF LogFilter
  <2>2. CASE Goto(p, "log_write") /\ UNCHANGED delivered
    BY <1>6, <2>2 DEF LogFilter
  <2> QED
    BY <1>6, <2>1, <2>2 DEF LogFilter
<1>7. ASSUME NEW p \in Procs, LogWrite(p) PROVE TypeOK'
  BY <1>7 DEF LogWrite, Text, EOL
<1>8. ASSUME NEW p \in Procs, LogEndl(p) PROVE TypeOK'
  <2>1. stream' \in Seq({Text(e) : e \in Entry} \cup {EOL})
    BY <1>8 DEF LogEndl
  <2> QED
    BY <1>0, <1>8, <2>1 DEF LogEndl
<1>9. CASE DequeueLock
  BY <1>9 DEF DequeueLock
<1>10. CASE DequeueWait
  BY <1>10 DEF DequeueWait
<1>11. CASE SpuriousWake
  BY <1>11 DEF SpuriousWake
<1>12. CASE DequeuePop
  BY <1>12, HeadTailProperties DEF DequeuePop
<1>13. CASE WorkLoop
  BY <1>13 DEF WorkLoop
<1>14. CASE WorkDrain
  BY <1>14 DEF WorkDrain
<1>15. ASSUME NEW lv \in Levels, SetLevel(lv) PROVE TypeOK'
  BY <1>15 DEF SetLevel
<1>16. CASE Stop
  BY <1>16 DEF Stop
<1>17. CASE Join
  BY <1>17 DEF Join
<1>18. CASE UNCHANGED vars
  BY <1>18 DEF vars
<1> QED
  BY <1>1, <1>2, <1>3, <1>4, <1>5, <1>6, <1>7, <1>8, <1>9, <1>10, <1>11,
     <1>12, <1>13, <1>14, <1>15, <1>16, <1>17, <1>18
     DEF Next, EnqueueStep, LogStep, WorkerStep

(* TypeOK holds of every behaviour: in particular the worker and the callers  *)
(* stay within their own program points.                                      *)
THEOREM TypeCorrect == Spec => []TypeOK
BY TypeInit, TypeStep, PTL DEF Spec

-----------------------------------------------------------------------------
(* The inductive invariant.  Whoever is inside the guarded block owns the     *)
(* mutex; *)
HoldsMutex ==
  /\ \A t \in Threads : pc[t] = "enq_push" => m_mut = t
  /\ pc[Worker] = "deq_test" => m_mut = Worker

(* the second loop runs only on a closed logger, it dequeues only what it has *)
(* seen, and nothing but the worker takes that away;                          *)
DrainInv ==
  /\ draining => m_done
  /\ draining => pc[Worker] \notin {"loop", "deq_wait"}
  /\ draining /\ pc[Worker] \in {"deq_lock", "deq_test"} => m_queue # <<>>
  /\ pc[Worker] \in {"drain", "exited"} => draining

(* an entry on its way into the queue is its caller's own;                    *)
OwnEntry ==
  \A t \in Threads : pc[t] \in {"enq_lock", "enq_push"} => entry[t].from = t

(* what was queued when the logger was closed is a prefix of what is queued.  *)
CloseInv ==
  /\ closedAt <= Len(accepted)
  /\ FlushedOnExit

LogInv ==
  /\ TypeOK
  /\ HoldsMutex
  /\ DrainInv
  /\ OwnEntry
  /\ QueueIsFifo
  /\ NoLostWakeup
  /\ CloseInv

LEMMA InvInit == Init => LogInv
<1> SUFFICES ASSUME Init PROVE LogInv
  OBVIOUS
<1>1. TypeOK
  BY TypeInit
<1>2. pc[Worker] = "loop" /\ \A t \in Threads : pc[t] = "idle"
  BY LoggerAssumption DEF Init, Procs
<1>3. HoldsMutex /\ DrainInv /\ OwnEntry /\ NoLostWakeup
  BY <1>2 DEF Init, HoldsMutex, DrainInv, OwnEntry, NoLostWakeup
<1>4. QueueIsFifo
  BY <1>2 DEF Init, QueueIsFifo, InHand, CallbackPc
<1>5. CloseInv
  BY <1>2 DEF Init, CloseInv, FlushedOnExit
<1> QED
  BY <1>1, <1>3, <1>4, <1>5 DEF LogInv

(* The parts of the invariant that speak of control and of the mutex. *)
ControlInv == HoldsMutex /\ DrainInv /\ OwnEntry /\ NoLostWakeup

LEMMA ControlStep == LogInv /\ [Next]_vars => ControlInv'
<1> SUFFICES ASSUME LogInv, [Next]_vars PROVE ControlInv'
  OBVIOUS
<1> USE LoggerAssumption
    DEF LogInv, TypeOK, ControlInv, HoldsMutex, DrainInv, OwnEntry, NoLostWakeup,
        Procs, CallbackPc, Goto
<1>1. ASSUME NEW t \in Threads, NEW lv \in Levels, EnqueueLog(t, lv)
      PROVE  ControlInv'
  <2>1. CASE m_done
    BY <1>1, <2>1 DEF EnqueueLog
  <2>2. CASE ~m_done
    BY <1>1, <2>2 DEF EnqueueLog, NewEntry
  <2> QED
    BY <2>1, <2>2
<1>2. ASSUME NEW t \in Threads, NEW lv \in Levels, LogDirect(t, lv)
      PROVE  ControlInv'
  BY <1>2 DEF LogDirect, NewEntry
<1>3. ASSUME NEW t \in Threads, EnqueueLock(t) PROVE ControlInv'
  BY <1>3 DEF EnqueueLock
<1>4. ASSUME NEW t \in Threads, EnqueuePush(t) PROVE ControlInv'
  <2>1. m_queue' # <<>>
    BY <1>4, AppendProperties DEF EnqueuePush
  <2> QED
    BY <1>4, <2>1 DEF EnqueuePush
<1>5. ASSUME NEW t \in Threads, EnqueueNotify(t) PROVE ControlInv'
  BY <1>5 DEF EnqueueNotify
<1>0. ASSUME NEW p \in Procs, pc[p] \in CallbackPc, LogReturn(p),
             UNCHANGED <<queueVars, loggerVars, entry>>
      PROVE  ControlInv'
  <2>1. CASE p = Worker /\ draining
    BY <1>0, <2>1 DEF LogReturn
  <2>2. CASE p = Worker /\ ~draining
    BY <1>0, <2>2 DEF LogReturn
  <2>3. CASE p # Worker
    BY <1>0, <2>3 DEF LogReturn
  <2> QED
    BY <2>1, <2>2, <2>3
<1>6. ASSUME NEW p \in Procs, LogFilter(p) PROVE ControlInv'
  <2>1. CASE LogReturn(p)
    BY <1>0, <1>6, <2>1 DEF LogFilter
  <2>2. CASE Goto(p, "log_write")
    BY <1>6, <2>2 DEF LogFilter
  <2> QED
    BY <1>6, <2>1, <2>2 DEF LogFilter
<1>7. ASSUME NEW p \in Procs, LogWrite(p) PROVE ControlInv'
  BY <1>7 DEF LogWrite
<1>8. ASSUME NEW p \in Procs, LogEndl(p) PROVE ControlInv'
  BY <1>0, <1>8 DEF LogEndl
<1>9. CASE DequeueLock
  BY <1>9 DEF DequeueLock
<1>10. CASE DequeueWait
  BY <1>10 DEF DequeueWait
<1>11. CASE SpuriousWake
  BY <1>11 DEF SpuriousWake
<1>12. CASE DequeuePop
  BY <1>12 DEF DequeuePop
<1>13. CASE WorkLoop
  BY <1>13 DEF WorkLoop
<1>14. CASE WorkDrain
  BY <1>14 DEF WorkDrain
<1>15. ASSUME NEW lv \in Levels, SetLevel(lv) PROVE ControlInv'
  BY <1>15 DEF SetLevel
<1>16. CASE Stop
  BY <1>16 DEF Stop
<1>17. CASE Join
  BY <1>17 DEF Join
<1>18. CASE UNCHANGED vars
  BY <1>18 DEF vars
<1> QED
  BY <1>1, <1>2, <1>3, <1>4, <1>5, <1>6, <1>7, <1>8, <1>9, <1>10, <1>11,
     <1>12, <1>13, <1>14, <1>15, <1>16, <1>17, <1>18
     DEF Next, EnqueueStep, LogStep, WorkerStep

(* Appending to a concatenation appends to its second part. *)
LEMMA AppendEntry ==
  ASSUME NEW s \in Seq(Entry), NEW q \in Seq(Entry), NEW e \in Entry
  PROVE  Append(s \o q, e) = s \o Append(q, e)
<1>1. /\ s \o q \in Seq(Entry)
      /\ <<e>> \in Seq(Entry)
  BY ConcatProperties
<1>2. Append(s \o q, e) = (s \o q) \o <<e>> /\ Append(q, e) = q \o <<e>>
  BY <1>1, AppendIsConcat
<1> QED
  BY <1>1, <1>2, ConcatAssociative

(* The three ways the order changes: a push appends to both sides, a pop      *)
(* moves the head of the queue into the worker's hand, a finished callback    *)
(* moves it from the hand to what is delivered.  All other steps leave the    *)
(* four parts alone.                                                          *)
LEMMA FifoStep == LogInv /\ [Next]_vars => QueueIsFifo'
<1> SUFFICES ASSUME LogInv, [Next]_vars PROVE QueueIsFifo'
  OBVIOUS
<1> USE LoggerAssumption DEF LogInv, TypeOK, Procs, CallbackPc, Goto
<1>a. InHand \in Seq(Entry)
  BY EmptySeq DEF InHand
<1>b. accepted = (delivered \o InHand) \o m_queue
  BY DEF QueueIsFifo
<1>c. delivered \o InHand \in Seq(Entry)
  BY <1>a, ConcatProperties
<1>frame. ASSUME UNCHANGED <<m_queue, accepted, delivered>>,
                 entry'[Worker] = entry[Worker],
                 pc[Worker] \in CallbackPc <=> pc'[Worker] \in CallbackPc
          PROVE  QueueIsFifo'
  BY <1>frame DEF QueueIsFifo, InHand
<1>1. ASSUME NEW t \in Threads, NEW lv \in Levels, EnqueueLog(t, lv)
      PROVE  QueueIsFifo'
  <2>1. CASE m_done
    BY <1>1, <2>1, <1>frame DEF EnqueueLog
  <2>2. CASE ~m_done
    BY <1>1, <2>2, <1>frame DEF EnqueueLog
  <2> QED
    BY <2>1, <2>2
<1>2. ASSUME NEW t \in Threads, NEW lv \in Levels, LogDirect(t, lv)
      PROVE  QueueIsFifo'
  BY <1>2, <1>frame DEF LogDirect
<1>3. ASSUME NEW t \in Threads, EnqueueLock(t) PROVE QueueIsFifo'
  BY <1>3, <1>frame DEF EnqueueLock
<1>4. ASSUME NEW t \in Threads, EnqueuePush(t) PROVE QueueIsFifo'
  <2>1. InHand' = InHand
    BY <1>4 DEF EnqueuePush, InHand
  <2>2. /\ accepted' = Append(accepted, entry[t])
        /\ m_queue' = Append(m_queue, entry[t])
        /\ delivered' = delivered
        /\ entry[t] \in Entry
    BY <1>4 DEF EnqueuePush
  <2>3. Append((delivered \o InHand) \o m_queue, entry[t])
          = (delivered \o InHand) \o Append(m_queue, entry[t])
    <3>1. m_queue \in Seq(Entry) /\ entry[t] \in Entry
      BY <2>2
    <3> QED
      BY ONLY <1>c, <3>1, AppendEntry
  <2> QED
    BY <1>b, <2>1, <2>2, <2>3 DEF QueueIsFifo
<1>5. ASSUME NEW t \in Threads, EnqueueNotify(t) PROVE QueueIsFifo'
  BY <1>5, <1>frame DEF EnqueueNotify
<1>0. ASSUME NEW p \in Procs, pc[p] \in CallbackPc, LogReturn(p),
             UNCHANGED <<queueVars, entry, accepted>>
      PROVE  QueueIsFifo'
  <2>1. CASE p = Worker
    <3>1. delivered' = Append(delivered, entry[Worker])
      BY <1>0, <2>1 DEF LogReturn
    <3>2. pc'[Worker] \in {"drain", "loop"}
      BY <1>0, <2>1 DEF LogReturn
    <3>3. InHand = <<entry[Worker]>> /\ InHand' = <<>>
      BY <1>0, <2>1, <3>2 DEF InHand
    <3>4. delivered' = delivered \o InHand
      BY <3>1, <3>3, AppendIsConcat
    <3>5. delivered' \o InHand' = delivered \o InHand
      BY <1>c, <3>3, <3>4, ConcatEmptySeq
    <3> QED
      BY <1>0, <1>b, <3>5 DEF QueueIsFifo
  <2>2. CASE p # Worker
    BY <1>0, <2>2, <1>frame DEF LogReturn
  <2> QED
    BY <2>1, <2>2
<1>6. ASSUME NEW p \in Procs, LogFilter(p) PROVE QueueIsFifo'
  <2>1. CASE LogReturn(p)
    BY <1>0, <1>6, <2>1 DEF LogFilter
  <2>2. CASE Goto(p, "log_write") /\ UNCHANGED delivered
    BY <1>6, <2>2, <1>frame DEF LogFilter
  <2> QED
    BY <1>6, <2>1, <2>2 DEF LogFilter
<1>7. ASSUME NEW p \in Procs, LogWrite(p) PROVE QueueIsFifo'
  BY <1>7, <1>frame DEF LogWrite
<1>8. ASSUME NEW p \in Procs, LogEndl(p) PROVE QueueIsFifo'
  BY <1>0, <1>8 DEF LogEndl
<1>9. CASE DequeueLock
  BY <1>9, <1>frame DEF DequeueLock
<1>10. CASE DequeueWait
  BY <1>10, <1>frame DEF DequeueWait
<1>11. CASE SpuriousWake
  BY <1>11, <1>frame DEF SpuriousWake
<1>12. CASE DequeuePop
  <2>1. InHand = <<>> /\ InHand' = <<Head(m_queue)>>
    BY <1>12 DEF DequeuePop, InHand
  <2>2. m_queue = <<Head(m_queue)>> \o Tail(m_queue)
    BY <1>12, HeadTailProperties, SeqEqual, ConcatProperties DEF DequeuePop
  <2>3. /\ <<Head(m_queue)>> \in Seq(Entry)
        /\ Tail(m_queue) \in Seq(Entry)
    BY <1>12, HeadTailProperties DEF DequeuePop
  <2>4. accepted = delivered \o m_queue
    BY <1>b, <2>1, ConcatEmptySeq
  <2>5. accepted = (delivered \o <<Head(m_queue)>>) \o Tail(m_queue)
    BY <2>2, <2>3, <2>4, ConcatAssociative
  <2> QED
    BY <1>12, <2>1, <2>5 DEF DequeuePop, QueueIsFifo
<1>13. CASE WorkLoop
  BY <1>13, <1>frame DEF WorkLoop
<1>14. CASE WorkDrain
  BY <1>14, <1>frame DEF WorkDrain
<1>15. ASSUME NEW lv \in Levels, SetLevel(lv) PROVE QueueIsFifo'
  BY <1>15, <1>frame DEF SetLevel
<1>16. CASE Stop
  BY <1>16, <1>frame DEF Stop
<1>17. CASE Join
  BY <1>17, <1>frame DEF Join
<1>18. CASE UNCHANGED vars
  BY <1>18, <1>frame DEF vars
<1> QED
  BY <1>1, <1>2, <1>3, <1>4, <1>5, <1>6, <1>7, <1>8, <1>9, <1>10, <1>11,
     <1>12, <1>13, <1>14, <1>15, <1>16, <1>17, <1>18
     DEF Next, EnqueueStep, LogStep, WorkerStep

LEMMA CloseStep == LogInv /\ [Next]_vars => CloseInv'
<1> SUFFICES ASSUME LogInv, [Next]_vars PROVE CloseInv'
  OBVIOUS
<1> USE LoggerAssumption
    DEF LogInv, TypeOK, DrainInv, CloseInv, FlushedOnExit, Procs, CallbackPc, Goto
<1>frame. ASSUME UNCHANGED <<accepted, delivered, closedAt>>,
                 pc'[Worker] = "exited" => pc[Worker] = "exited"
          PROVE  CloseInv'
  BY <1>frame
<1>1. ASSUME NEW t \in Threads, NEW lv \in Levels, EnqueueLog(t, lv)
      PROVE  CloseInv'
  BY <1>1, <1>frame DEF EnqueueLog
<1>2. ASSUME NEW t \in Threads, NEW lv \in Levels, LogDirect(t, lv)
      PROVE  CloseInv'
  BY <1>2, <1>frame DEF LogDirect
<1>3. ASSUME NEW t \in Threads, EnqueueLock(t) PROVE CloseInv'
  BY <1>3, <1>frame DEF EnqueueLock
<1>4. ASSUME NEW t \in Threads, EnqueuePush(t) PROVE CloseInv'
  <2>1. Len(accepted') = Len(accepted) + 1
    BY <1>4 DEF EnqueuePush
  <2> QED
    BY <1>4, <2>1 DEF EnqueuePush
<1>5. ASSUME NEW t \in Threads, EnqueueNotify(t) PROVE CloseInv'
  BY <1>5, <1>frame DEF EnqueueNotify
<1>0. ASSUME NEW p \in Procs, pc[p] \in CallbackPc, LogReturn(p),
             UNCHANGED <<accepted, closedAt>>
      PROVE  CloseInv'
  <2>1. CASE p = Worker
    <3>1. pc'[Worker] \in {"drain", "loop"}
      BY <1>0, <2>1 DEF LogReturn
    <3> QED
      BY <1>0, <3>1
  <2>2. CASE p # Worker
    BY <1>0, <2>2, <1>frame DEF LogReturn
  <2> QED
    BY <2>1, <2>2
<1>6. ASSUME NEW p \in Procs, LogFilter(p) PROVE CloseInv'
  <2>1. CASE LogReturn(p)
    BY <1>0, <1>6, <2>1 DEF LogFilter
  <2>2. CASE Goto(p, "log_write") /\ UNCHANGED delivered
    BY <1>6, <2>2, <1>frame DEF LogFilter
  <2> QED
    BY <1>6, <2>1, <2>2 DEF LogFilter
<1>7. ASSUME NEW p \in Procs, LogWrite(p) PROVE CloseInv'
  BY <1>7, <1>frame DEF LogWrite
<1>8. ASSUME NEW p \in Procs, LogEndl(p) PROVE CloseInv'
  BY <1>0, <1>8 DEF LogEndl
<1>9. CASE DequeueLock
  BY <1>9, <1>frame DEF DequeueLock
<1>10. CASE DequeueWait
  BY <1>10, <1>frame DEF DequeueWait
<1>11. CASE SpuriousWake
  BY <1>11, <1>frame DEF SpuriousWake
<1>12. CASE DequeuePop
  BY <1>12, <1>frame DEF DequeuePop
<1>13. CASE WorkLoop
  BY <1>13, <1>frame DEF WorkLoop
<1>14. CASE WorkDrain
  <2>1. CASE m_queue = <<>>
    <3>1. InHand = <<>>
      BY <1>14 DEF WorkDrain, InHand
    <3>2. accepted = delivered
      BY <2>1, <3>1, ConcatEmptySeq DEF QueueIsFifo
    <3> QED
      BY <1>14, <3>2 DEF WorkDrain
  <2>2. CASE m_queue # <<>>
    BY <1>14, <2>2, <1>frame DEF WorkDrain
  <2> QED
    BY <2>1, <2>2
<1>15. ASSUME NEW lv \in Levels, SetLevel(lv) PROVE CloseInv'
  BY <1>15, <1>frame DEF SetLevel
<1>16. CASE Stop
  <2>1. CASE m_done
    BY <1>16, <2>1, <1>frame DEF Stop
  <2>2. CASE ~m_done
    <3>1. pc[Worker] # "exited" /\ pc'[Worker] # "exited"
      BY <1>16, <2>2 DEF Stop
    <3> QED
      BY <1>16, <2>2, <3>1 DEF Stop
  <2> QED
    BY <2>1, <2>2
<1>17. CASE Join
  BY <1>17, <1>frame DEF Join
<1>18. CASE UNCHANGED vars
  BY <1>18, <1>frame DEF vars
<1> QED
  BY <1>1, <1>2, <1>3, <1>4, <1>5, <1>6, <1>7, <1>8, <1>9, <1>10, <1>11,
     <1>12, <1>13, <1>14, <1>15, <1>16, <1>17, <1>18
     DEF Next, EnqueueStep, LogStep, WorkerStep

(* The invariant holds of every behaviour, and with it: *)
THEOREM InvariantHolds == Spec => []LogInv
<1>1. LogInv /\ [Next]_vars => LogInv'
  BY TypeStep, ControlStep, FifoStep, CloseStep DEF LogInv, ControlInv
<1> QED
  BY <1>1, InvInit, PTL DEF Spec

(* the queue loses, duplicates and reorders nothing; *)
THEOREM Fifo == Spec => []QueueIsFifo
BY InvariantHolds, PTL DEF LogInv

(* the worker never sleeps on a queue that has entries without a              *)
(* notification on its way, although enqueue notifies outside the mutex;      *)
THEOREM Wakeup == Spec => []NoLostWakeup
BY InvariantHolds, PTL DEF LogInv

(* the unlocked empty() of the drain loop never leads into a wait;            *)
THEOREM DrainProgress == Spec => []DrainNeverBlocks
<1>1. LogInv => DrainNeverBlocks
  BY DEF LogInv, DrainInv, DrainNeverBlocks
<1> QED
  BY <1>1, InvariantHolds, PTL

(* and a worker that has returned has delivered all that was queued when the  *)
(* logger was closed.                                                         *)
THEOREM Flushed == Spec => []FlushedOnExit
<1>1. LogInv => FlushedOnExit
  BY DEF LogInv, CloseInv
<1> QED
  BY <1>1, InvariantHolds, PTL

-----------------------------------------------------------------------------
(* Implementation.  Every step of the logger is a step of LogChannel or       *)
(* leaves its four variables alone.                                           *)
Enqueuing == {"enq_lock", "enq_push"}

LEMMA ChannelStep == LogInv /\ [Next]_vars => [Channel!ChanNext]_(Channel!chanVars)
<1> SUFFICES ASSUME LogInv, [Next]_vars
             PROVE  Channel!ChanNext \/ UNCHANGED Channel!chanVars
  OBVIOUS
<1> DEFINE Goal == Channel!ChanNext \/ UNCHANGED Channel!chanVars
<1> USE LoggerAssumption DEF LogInv, TypeOK, Procs, CallbackPc, Goto, Enqueuing
<1>frame. ASSUME UNCHANGED <<m_done, accepted, delivered>>,
                 \A t \in Threads : pc[t] \in Enqueuing <=> pc'[t] \in Enqueuing,
                 \A t \in Threads : pc[t] \in Enqueuing => entry'[t] = entry[t]
          PROVE  Goal
  <2>1. Admitted' = Admitted
    BY <1>frame DEF Admitted
  <2> QED
    BY <1>frame, <2>1 DEF Channel!chanVars
<1>1. ASSUME NEW t \in Threads, NEW lv \in Levels, EnqueueLog(t, lv)
      PROVE  Goal
  <2>1. CASE m_done
    BY <1>1, <2>1, <1>frame DEF EnqueueLog
  <2>2. CASE ~m_done
    <3> DEFINE e == NewEntry(t, lv)
    <3>1. e \in Entry
      BY <1>1 DEF EnqueueLog, NewEntry, Entry
    <3>2. /\ entry' = [entry EXCEPT ![t] = e]
          /\ pc' = [pc EXCEPT ![t] = "enq_lock"]
          /\ pc[t] = "idle"
          /\ UNCHANGED <<m_done, accepted, delivered>>
      BY <1>1, <2>2 DEF EnqueueLog
    <3> HIDE DEF e
    <3>3. Admitted' = Admitted \cup {e}
      BY <3>2 DEF Admitted
    <3>4. Channel!Admit(e)
      BY <2>2, <3>2, <3>3 DEF Channel!Admit
    <3> QED
      BY <3>1, <3>4 DEF Channel!ChanNext
  <2> QED
    BY <2>1, <2>2
<1>2. ASSUME NEW t \in Threads, NEW lv \in Levels, LogDirect(t, lv)
      PROVE  Goal
  BY <1>2, <1>frame DEF LogDirect
<1>3. ASSUME NEW t \in Threads, EnqueueLock(t) PROVE Goal
  BY <1>3, <1>frame DEF EnqueueLock
<1>4. ASSUME NEW t \in Threads, EnqueuePush(t) PROVE Goal
  <2>1. /\ accepted' = Append(accepted, entry[t])
        /\ pc' = [pc EXCEPT ![t] = "enq_notify"]
        /\ pc[t] = "enq_push"
        /\ UNCHANGED <<entry, m_done, delivered>>
        /\ entry[t] \in Entry
    BY <1>4 DEF EnqueuePush
  <2>2. Admitted' = Admitted \ {entry[t]} /\ entry[t] \in Admitted
    <3>1. entry[t] \in Admitted
      BY <2>1 DEF Admitted
    <3>2. \A u \in Threads \ {t} :
            /\ pc'[u] = pc[u]
            /\ pc[u] \in Enqueuing => entry[u] # entry[t]
      BY <2>1 DEF OwnEntry
    <3>3. pc'[t] \notin Enqueuing
      BY <2>1
    <3>4. Admitted' = {entry[u] : u \in {v \in Threads : pc'[v] \in Enqueuing}}
      BY <2>1 DEF Admitted
    <3>5. Admitted' = {entry[u] : u \in {v \in Threads \ {t} : pc[v] \in Enqueuing}}
      BY <3>2, <3>3, <3>4
    <3>6. Admitted = {entry[u] : u \in {v \in Threads : pc[v] \in Enqueuing}}
      BY DEF Admitted
    <3> QED
      BY <2>1, <3>1, <3>2, <3>5, <3>6
  <2>3. Channel!Accept(entry[t])
    BY <2>1, <2>2 DEF Channel!Accept
  <2> QED
    BY <2>1, <2>3 DEF Channel!ChanNext
<1>5. ASSUME NEW t \in Threads, EnqueueNotify(t) PROVE Goal
  BY <1>5, <1>frame DEF EnqueueNotify
<1>0. ASSUME NEW p \in Procs, pc[p] \in CallbackPc, LogReturn(p),
             UNCHANGED <<m_done, entry, accepted>>
      PROVE  Goal
  <2>1. CASE p = Worker
    <3>1. delivered' = Append(delivered, entry[Worker])
      BY <1>0, <2>1 DEF LogReturn
    <3>2. PICK l \in {"drain", "loop"} : pc' = [pc EXCEPT ![Worker] = l]
      BY <1>0, <2>1 DEF LogReturn
    <3>3. Admitted' = Admitted
      BY <1>0, <3>2 DEF Admitted
    <3>4. InHand = <<entry[Worker]>>
      BY <1>0, <2>1 DEF InHand
    <3>5. /\ Len(delivered) < Len(accepted)
          /\ accepted[Len(delivered) + 1] = entry[Worker]
      <4> DEFINE d == delivered \o <<entry[Worker]>>
      <4>1. /\ d \in Seq(Entry)
            /\ Len(d) = Len(delivered) + 1
            /\ d[Len(delivered) + 1] = entry[Worker]
        BY ConcatProperties
      <4>2. accepted = d \o m_queue
        BY <3>4 DEF QueueIsFifo
      <4> HIDE DEF d
      <4> QED
        BY <4>1, <4>2, ConcatProperties
    <3>6. Channel!Deliver
      BY <1>0, <3>1, <3>3, <3>5 DEF Channel!Deliver
    <3> QED
      BY <3>6 DEF Channel!ChanNext
  <2>2. CASE p # Worker
    BY <1>0, <2>2, <1>frame DEF LogReturn
  <2> QED
    BY <2>1, <2>2
<1>6. ASSUME NEW p \in Procs, LogFilter(p) PROVE Goal
  <2>1. CASE LogReturn(p)
    BY <1>0, <1>6, <2>1 DEF LogFilter
  <2>2. CASE Goto(p, "log_write") /\ UNCHANGED delivered
    BY <1>6, <2>2, <1>frame DEF LogFilter
  <2> QED
    BY <1>6, <2>1, <2>2 DEF LogFilter
<1>7. ASSUME NEW p \in Procs, LogWrite(p) PROVE Goal
  BY <1>7, <1>frame DEF LogWrite
<1>8. ASSUME NEW p \in Procs, LogEndl(p) PROVE Goal
  BY <1>0, <1>8 DEF LogEndl
<1>9. CASE DequeueLock
  BY <1>9, <1>frame DEF DequeueLock
<1>10. CASE DequeueWait
  BY <1>10, <1>frame DEF DequeueWait
<1>11. CASE SpuriousWake
  BY <1>11, <1>frame DEF SpuriousWake
<1>12. CASE DequeuePop
  BY <1>12, <1>frame DEF DequeuePop
<1>13. CASE WorkLoop
  BY <1>13, <1>frame DEF WorkLoop
<1>14. CASE WorkDrain
  BY <1>14, <1>frame DEF WorkDrain
<1>15. ASSUME NEW lv \in Levels, SetLevel(lv) PROVE Goal
  BY <1>15, <1>frame DEF SetLevel
<1>16. CASE Stop
  <2>1. PICK l \in {"join", "idle"} : pc' = [pc EXCEPT ![Main] = l]
    BY <1>16 DEF Stop
  <2>2. Admitted' = Admitted
    BY <1>16, <2>1 DEF Stop, Admitted
  <2>3. Channel!Close
    BY <1>16, <2>2 DEF Stop, Channel!Close
  <2> QED
    BY <2>3 DEF Channel!ChanNext
<1>17. CASE Join
  BY <1>17, <1>frame DEF Join
<1>18. CASE UNCHANGED vars
  BY <1>18, <1>frame DEF vars
<1> QED
  BY <1>1, <1>2, <1>3, <1>4, <1>5, <1>6, <1>7, <1>8, <1>9, <1>10, <1>11,
     <1>12, <1>13, <1>14, <1>15, <1>16, <1>17, <1>18
     DEF Next, EnqueueStep, LogStep, WorkerStep

(* The threaded logger implements LogChannel: only entries admitted before    *)
(* the logger was closed are queued, and the worker finishes them in order,   *)
(* each once.                                                                 *)
THEOREM Implementation == Spec => ImplementsLogChannel
<1>1. Init => Channel!ChanInit
  BY LoggerAssumption DEF Init, Channel!ChanInit, Admitted, Procs
<1> QED
  BY <1>1, ChannelStep, InvariantHolds, PTL
     DEF Spec, ImplementsLogChannel, Channel!ChanSpec

-----------------------------------------------------------------------------
(* What reaches the stream when all logging goes through the worker, for any *)
(* set of threads and any number of calls: whole lines, and each caller's     *)
(* lines in the order of its calls.                                           *)
(* No thread but the worker is ever in the callback. *)
OnlyWorker == \A t \in Threads : pc[t] \notin CallbackPc

(* 1 between the two insertions of a line. *)
Half == IF pc[Worker] = "log_endl" THEN 1 ELSE 0

Lines == Len(stream) % 2 = Half /\ WholeLines

(* A caller counts its calls, and what it has put into the queue was counted  *)
(* before what it is about to put there.                                      *)
Numbered ==
  \A t \in Threads :
    /\ pc[t] \in {"enq_lock", "enq_push"} => entry[t].n = calls[t]
    /\ \A k \in 1..Len(accepted) : accepted[k].from = t =>
         /\ accepted[k].n <= calls[t]
         /\ pc[t] \in {"enq_lock", "enq_push"} => accepted[k].n < calls[t]

AcceptedOrder ==
  \A j, k \in 1..Len(accepted) :
    j < k /\ accepted[j].from = accepted[k].from => accepted[j].n < accepted[k].n

(* A text in the stream is that of an entry the worker has delivered, or of   *)
(* the one whose line is half written.                                        *)
Written ==
  \A i \in 1..Len(stream) : stream[i] # EOL =>
    \E k \in 1..Len(delivered) + Half :
      k <= Len(accepted) /\ stream[i] = Text(accepted[k])

OrderInv == OnlyWorker /\ Lines /\ Numbered /\ AcceptedOrder /\ Written /\ CallerOrder

LEMMA OrderInit == ~DirectCalls /\ Init => OrderInv
<1> SUFFICES ASSUME Init PROVE OrderInv
  OBVIOUS
<1>1. pc[Worker] = "loop" /\ \A t \in Threads : pc[t] = "idle"
  BY LoggerAssumption DEF Init, Procs
<1>2. stream = <<>> /\ accepted = <<>> /\ delivered = <<>>
  BY DEF Init
<1>3. 0 % 2 = 0
  OBVIOUS
<1> QED
  BY <1>1, <1>2, <1>3
     DEF OrderInv, OnlyWorker, CallbackPc, Lines, WholeLines, Half, Numbered, AcceptedOrder,
         Written, CallerOrder

(* Steps that touch neither the sequences nor a half written line, and leave  *)
(* the callers as they are.                                                   *)
LEMMA QuietStep ==
  ASSUME OrderInv,
         UNCHANGED <<stream, accepted, delivered, calls>>,
         pc'[Worker] = "log_endl" <=> pc[Worker] = "log_endl",
         \A t \in Threads :
           /\ pc'[t] \notin CallbackPc
           /\ pc'[t] \in {"enq_lock", "enq_push"} =>
                pc[t] \in {"enq_lock", "enq_push"} /\ entry'[t] = entry[t]
  PROVE  OrderInv'
<1> USE DEF OrderInv
<1>1. OnlyWorker' /\ Half' = Half
  BY DEF OnlyWorker, Half
<1>2. Lines' /\ AcceptedOrder' /\ CallerOrder'
  BY <1>1 DEF Lines, WholeLines, AcceptedOrder, CallerOrder
<1>3. Numbered'
  BY DEF Numbered
<1>4. Written'
  BY <1>1 DEF Written
<1> QED
  BY <1>1, <1>2, <1>3, <1>4

(* A call is counted and its entry made. *)
LEMMA EnqueueLogOrder ==
  ASSUME LogInv, OrderInv, NEW t \in Threads, NEW lv \in Levels, EnqueueLog(t, lv)
  PROVE  OrderInv'
<1> USE LoggerAssumption DEF OrderInv
<1>1. /\ UNCHANGED <<stream, accepted, delivered>>
      /\ calls' = [calls EXCEPT ![t] = calls[t] + 1]
      /\ \/ pc' = pc /\ entry' = entry
         \/ /\ pc' = [pc EXCEPT ![t] = "enq_lock"]
            /\ entry' = [entry EXCEPT ![t] = NewEntry(t, lv)]
      /\ pc[t] = "idle"
  BY DEF EnqueueLog, Goto, history, sinkVars
<1>2. /\ calls \in [Threads -> Nat] /\ DOMAIN pc = Procs /\ DOMAIN entry = Procs
      /\ Threads \subseteq Procs /\ Worker \in Procs /\ Worker # t
      /\ accepted \in Seq(Entry)
  BY DEF LogInv, TypeOK, Procs
<1>3. ASSUME NEW k \in 1..Len(accepted) PROVE accepted[k].n \in Nat
  <2>1. accepted[k] \in Entry
    BY <1>2, ElementOfSeq
  <2> QED
    BY <2>1 DEF Entry
<1>4. OnlyWorker' /\ Half' = Half
  BY <1>1, <1>2 DEF OnlyWorker, Half, CallbackPc
<1>5. Lines' /\ AcceptedOrder' /\ CallerOrder' /\ Written'
  <2>1. Lines' /\ AcceptedOrder' /\ CallerOrder'
    BY <1>1, <1>4 DEF Lines, WholeLines, AcceptedOrder, CallerOrder
  <2>2. UNCHANGED <<stream, accepted, delivered>> /\ Written
    BY <1>1
  <2>3. Written'
    BY ONLY <1>4, <2>2 DEF Written
  <2> QED
    BY <2>1, <2>3
<1>6. Numbered'
  <2>1. ASSUME NEW u \in Threads, u # t
        PROVE  calls'[u] = calls[u] /\ pc'[u] = pc[u] /\ entry'[u] = entry[u]
    BY <1>1, <1>2, <2>1
  <2>2. /\ calls'[t] = calls[t] + 1 /\ calls[t] \in Nat
        /\ pc'[t] \in {"enq_lock", "enq_push"} => entry'[t].n = calls[t] + 1
    BY <1>1, <1>2 DEF NewEntry
  <2>3. ASSUME NEW u \in Threads, u # t
        PROVE  /\ pc'[u] \in {"enq_lock", "enq_push"} => entry'[u].n = calls'[u]
               /\ \A k \in 1..Len(accepted) : accepted[k].from = u =>
                    /\ accepted[k].n <= calls'[u]
                    /\ pc'[u] \in {"enq_lock", "enq_push"} => accepted[k].n < calls'[u]
    BY <2>1, <2>3 DEF Numbered
  <2>4. ASSUME NEW k \in 1..Len(accepted), accepted[k].from = t
        PROVE  accepted[k].n < calls'[t]
    <3>1. accepted[k].n <= calls[t]
      BY <2>4 DEF Numbered
    <3> QED
      BY <1>3, <2>2, <3>1
  <2>5. \A k \in 1..Len(accepted) : accepted[k].from = t => accepted[k].n <= calls'[t]
    BY <1>3, <2>2, <2>4
  <2> QED
    BY <1>1, <2>2, <2>3, <2>4, <2>5 DEF Numbered
<1> QED
  BY <1>4, <1>5, <1>6

(* An entry is put into the queue. *)
LEMMA EnqueuePushOrder ==
  ASSUME LogInv, OrderInv, NEW t \in Threads, EnqueuePush(t)
  PROVE  OrderInv'
<1> USE LoggerAssumption DEF OrderInv
<1> DEFINE e == entry[t]
           n == Len(accepted)
<1>1. /\ UNCHANGED <<stream, delivered, calls, entry>>
      /\ accepted' = Append(accepted, e)
      /\ pc' = [pc EXCEPT ![t] = "enq_notify"]
      /\ pc[t] = "enq_push"
  BY DEF EnqueuePush, Goto, sinkVars
<1>2. /\ accepted \in Seq(Entry) /\ e \in Entry /\ n \in Nat
      /\ DOMAIN pc = Procs /\ calls \in [Threads -> Nat]
      /\ Threads \subseteq Procs /\ Worker \in Procs /\ Worker # t
  BY DEF LogInv, TypeOK, Procs
<1>3. e.from = t /\ e.n = calls[t] /\ e.n \in Nat
  BY <1>1, <1>2 DEF Numbered, LogInv, OwnEntry
<1>4. /\ Len(accepted') = n + 1
      /\ \A k \in 1..n : accepted'[k] = accepted[k]
      /\ accepted'[n + 1] = e
  BY <1>1, <1>2, AppendProperties
<1>5. OnlyWorker' /\ Half' = Half
  BY <1>1, <1>2 DEF OnlyWorker, Half, CallbackPc
<1>6. Lines' /\ CallerOrder'
  BY <1>1, <1>5 DEF Lines, WholeLines, CallerOrder
<1>7. Numbered'
  <2>1. ASSUME NEW u \in Threads, pc'[u] \in {"enq_lock", "enq_push"}
        PROVE  pc[u] = pc'[u] /\ u # t
    BY <1>1, <1>2, <2>1
  <2>2. ASSUME NEW u \in Threads, NEW k \in 1..(n + 1), accepted'[k].from = u
        PROVE  /\ accepted'[k].n <= calls[u]
               /\ pc'[u] \in {"enq_lock", "enq_push"} => accepted'[k].n < calls[u]
    <3>1. CASE k \in 1..n
      BY <1>4, <2>1, <2>2, <3>1 DEF Numbered
    <3>2. CASE k = n + 1
      BY <1>2, <1>3, <1>4, <2>1, <2>2, <3>2
    <3> QED
      BY <1>2, <3>1, <3>2
  <2> QED
    BY <1>1, <1>4, <2>1, <2>2 DEF Numbered
<1>8. AcceptedOrder'
  <2> SUFFICES ASSUME NEW j \in 1..(n + 1), NEW k \in 1..(n + 1), j < k,
                      accepted'[j].from = accepted'[k].from
               PROVE  accepted'[j].n < accepted'[k].n
    BY <1>4 DEF AcceptedOrder
  <2>1. j \in 1..n
    BY <1>2
  <2>2. CASE k \in 1..n
    BY <1>4, <2>1, <2>2 DEF AcceptedOrder
  <2>3. CASE k = n + 1
    BY <1>1, <1>3, <1>4, <2>1, <2>3 DEF Numbered
  <2> QED
    BY <1>2, <2>2, <2>3
<1>9. Written'
  <2> SUFFICES ASSUME NEW i \in 1..Len(stream), stream[i] # EOL
               PROVE  \E k \in 1..Len(delivered) + Half :
                        k <= n + 1 /\ stream[i] = Text(accepted'[k])
    BY <1>1, <1>4, <1>5 DEF Written
  <2>1. PICK k \in 1..Len(delivered) + Half : k <= n /\ stream[i] = Text(accepted[k])
    BY DEF Written
  <2>2. k \in 1..n /\ k <= n + 1
    BY <1>2, <2>1
  <2> QED
    BY <1>4, <2>1, <2>2
<1> QED
  BY <1>5, <1>6, <1>7, <1>8, <1>9

(* What the worker has in hand is the next entry to be delivered. *)
LEMMA InHandIsNext ==
  ASSUME LogInv, pc[Worker] \in CallbackPc
  PROVE  /\ Len(delivered) \in Nat
         /\ Len(delivered) + 1 <= Len(accepted)
         /\ accepted[Len(delivered) + 1] = entry[Worker]
         /\ entry[Worker] \in Entry
<1> DEFINE e == entry[Worker]
           d == Len(delivered)
<1>1. /\ delivered \in Seq(Entry) /\ m_queue \in Seq(Entry) /\ e \in Entry
      /\ <<e>> \in Seq(Entry) /\ Len(<<e>>) = 1 /\ <<e>>[1] = e
  BY DEF LogInv, TypeOK, Procs
<1>2. accepted = (delivered \o <<e>>) \o m_queue
  BY DEF LogInv, QueueIsFifo, InHand
<1>3. /\ delivered \o <<e>> \in Seq(Entry)
      /\ Len(delivered \o <<e>>) = d + 1
      /\ (delivered \o <<e>>)[d + 1] = e
      /\ d \in Nat
  BY <1>1, ConcatProperties
<1>4. /\ Len(accepted) = d + 1 + Len(m_queue) /\ Len(m_queue) \in Nat
      /\ accepted[d + 1] = (delivered \o <<e>>)[d + 1]
  BY <1>1, <1>2, <1>3, ConcatProperties
<1> QED
  BY <1>1, <1>3, <1>4

LEMMA Parity ==
  ASSUME NEW n \in Nat
  PROVE  /\ n % 2 = 0 => (n + 1) % 2 = 1
         /\ n % 2 = 1 => (n + 1) % 2 = 0
OBVIOUS

(* The worker inserts the text of its entry. *)
LEMMA LogWriteOrder ==
  ASSUME LogInv, OrderInv, LogWrite(Worker)
  PROVE  OrderInv'
<1> USE LoggerAssumption DEF OrderInv
<1> DEFINE e == entry[Worker]
           d == Len(delivered)
           n == Len(stream)
<1>1. /\ UNCHANGED <<accepted, delivered, calls, entry>>
      /\ stream' = Append(stream, Text(e))
      /\ pc' = [pc EXCEPT ![Worker] = "log_endl"]
      /\ pc[Worker] = "log_write"
  BY DEF LogWrite, Goto, history
<1>2. /\ stream \in Seq({Text(x) : x \in Entry} \cup {EOL}) /\ n \in Nat
      /\ DOMAIN pc = Procs /\ Threads \subseteq Procs /\ Worker \in Procs
      /\ accepted \in Seq(Entry) /\ e \in Entry
  BY DEF LogInv, TypeOK, Procs
<1>3. /\ Len(stream') = n + 1
      /\ \A i \in 1..n : stream'[i] = stream[i]
      /\ stream'[n + 1] = Text(e)
  BY <1>1, <1>2, AppendProperties
<1>4. d \in Nat /\ d + 1 <= Len(accepted) /\ accepted[d + 1] = e
  BY <1>1, InHandIsNext DEF CallbackPc
<1>5. Half = 0 /\ Half' = 1
  BY <1>1, <1>2 DEF Half
<1>6. Text(e) # EOL /\ Text(e)[1] = e
  BY DEF Text, EOL
<1>7. OnlyWorker' /\ Numbered' /\ AcceptedOrder'
  <2>1. \A t \in Threads : pc'[t] = pc[t]
    BY <1>1, <1>2
  <2> QED
    BY <1>1, <2>1 DEF OnlyWorker, Numbered, AcceptedOrder
<1>8. Lines'
  <2>1. n % 2 = 0
    BY <1>5 DEF Lines
  <2>2. (n + 1) % 2 = 1
    BY <1>2, <2>1, Parity
  <2>3. \A i \in 1..n : (i % 2 = 1) <=> (stream[i] # EOL)
    BY DEF Lines, WholeLines
  <2>4. \A i \in 1..(n + 1) : (i % 2 = 1) <=> (stream'[i] # EOL)
    BY <1>2, <1>3, <1>6, <2>2, <2>3
  <2> QED
    BY <1>3, <1>5, <2>2, <2>4 DEF Lines, WholeLines
<1>9. Written'
  <2> SUFFICES ASSUME NEW i \in 1..(n + 1), stream'[i] # EOL
               PROVE  \E k \in 1..(d + 1) : k <= Len(accepted) /\ stream'[i] = Text(accepted[k])
    BY <1>1, <1>3, <1>5 DEF Written
  <2>1. CASE i \in 1..n
    <3>1. PICK k \in 1..(d + 0) : k <= Len(accepted) /\ stream[i] = Text(accepted[k])
      BY <1>3, <1>5, <2>1 DEF Written
    <3> QED
      BY <1>3, <1>4, <2>1, <3>1
  <2>2. CASE i = n + 1
    BY <1>3, <1>4, <2>2
  <2> QED
    BY <1>2, <2>1, <2>2
<1>10. CallerOrder'
  <2> SUFFICES ASSUME NEW i \in 1..(n + 1), NEW j \in 1..(n + 1), i < j,
                      stream'[i] # EOL, stream'[j] # EOL,
                      stream'[i][1].from = stream'[j][1].from
               PROVE  stream'[i][1].n < stream'[j][1].n
    BY <1>3 DEF CallerOrder
  <2>1. i \in 1..n /\ stream'[i] = stream[i]
    BY <1>2, <1>3
  <2>2. CASE j \in 1..n
    BY <1>3, <2>1, <2>2 DEF CallerOrder
  <2>3. CASE j = n + 1
    <3>1. PICK k \in 1..(d + 0) : k <= Len(accepted) /\ stream[i] = Text(accepted[k])
      BY <1>5, <2>1 DEF Written
    <3>2. stream'[i][1] = accepted[k] /\ stream'[j][1] = accepted[d + 1]
      BY <1>3, <1>4, <1>6, <2>1, <2>3, <3>1 DEF Text
    <3>3. k \in 1..Len(accepted) /\ d + 1 \in 1..Len(accepted) /\ k < d + 1
      BY <1>2, <1>4, <3>1
    <3> QED
      BY <3>2, <3>3 DEF AcceptedOrder
  <2> QED
    BY <1>2, <2>2, <2>3
<1> QED
  BY <1>7, <1>8, <1>9, <1>10

(* The worker has finished an entry: it counts as delivered. *)
LEMMA Return ==
  ASSUME LogInv, LogReturn(Worker)
  PROVE  /\ pc'[Worker] \in {"drain", "loop"}
         /\ \A t \in Threads : pc'[t] = pc[t]
         /\ Len(delivered') = Len(delivered) + 1
         /\ Len(delivered) \in Nat
<1>1. /\ delivered \in Seq(Entry) /\ entry[Worker] \in Entry
      /\ DOMAIN pc = Procs /\ Worker \in Procs /\ Threads \subseteq Procs
      /\ Worker \notin Threads
  BY LoggerAssumption DEF LogInv, TypeOK, Procs
<1>2. /\ delivered' = Append(delivered, entry[Worker])
      /\ pc' = [pc EXCEPT ![Worker] = IF draining THEN "drain" ELSE "loop"]
  BY DEF LogReturn, Goto
<1> QED
  BY <1>1, <1>2, AppendProperties

LEMMA LogEndlOrder ==
  ASSUME LogInv, OrderInv, LogEndl(Worker)
  PROVE  OrderInv'
<1> USE LoggerAssumption DEF OrderInv
<1> DEFINE d == Len(delivered)
           n == Len(stream)
<1>1. /\ UNCHANGED <<accepted, calls, entry>>
      /\ stream' = Append(stream, EOL)
      /\ pc[Worker] = "log_endl"
      /\ LogReturn(Worker)
  BY DEF LogEndl
<1>2. /\ stream \in Seq({Text(x) : x \in Entry} \cup {EOL}) /\ n \in Nat
  BY DEF LogInv, TypeOK
<1>3. /\ Len(stream') = n + 1
      /\ \A i \in 1..n : stream'[i] = stream[i]
      /\ stream'[n + 1] = EOL
  BY <1>1, <1>2, AppendProperties
<1>4. /\ Len(delivered') = d + 1 /\ d \in Nat
      /\ pc'[Worker] \in {"drain", "loop"}
      /\ \A t \in Threads : pc'[t] = pc[t]
  BY <1>1, Return
<1>5. Half = 1 /\ Half' = 0
  BY <1>1, <1>4 DEF Half
<1>6. OnlyWorker' /\ Numbered' /\ AcceptedOrder'
  BY <1>1, <1>4 DEF OnlyWorker, Numbered, AcceptedOrder
<1>7. Lines'
  <2>1. n % 2 = 1
    BY <1>5 DEF Lines
  <2>2. (n + 1) % 2 = 0
    BY <1>2, <2>1, Parity
  <2>3. \A i \in 1..n : (i % 2 = 1) <=> (stream[i] # EOL)
    BY DEF Lines, WholeLines
  <2>4. \A i \in 1..(n + 1) : (i % 2 = 1) <=> (stream'[i] # EOL)
    BY <1>2, <1>3, <2>2, <2>3
  <2> QED
    BY <1>3, <1>5, <2>2, <2>4 DEF Lines, WholeLines
<1>8. ASSUME NEW i \in 1..(n + 1), stream'[i] # EOL
      PROVE  i \in 1..n /\ stream'[i] = stream[i]
  BY <1>2, <1>3, <1>8
<1>9. Written'
  <2> SUFFICES ASSUME NEW i \in 1..(n + 1), stream'[i] # EOL
               PROVE  \E k \in 1..(d + 1 + 0) :
                        k <= Len(accepted) /\ stream'[i] = Text(accepted[k])
    BY <1>1, <1>3, <1>4, <1>5 DEF Written
  <2>1. PICK k \in 1..(d + 1) : k <= Len(accepted) /\ stream[i] = Text(accepted[k])
    BY <1>5, <1>8 DEF Written
  <2> QED
    BY <1>4, <1>8, <2>1
<1>10. CallerOrder'
  <2> SUFFICES ASSUME NEW i \in 1..(n + 1), NEW j \in 1..(n + 1), i < j,
                      stream'[i] # EOL, stream'[j] # EOL,
                      stream'[i][1].from = stream'[j][1].from
               PROVE  stream'[i][1].n < stream'[j][1].n
    BY <1>3 DEF CallerOrder
  <2> QED
    BY <1>8 DEF CallerOrder
<1> QED
  BY <1>6, <1>7, <1>9, <1>10

(* An entry below the level is finished without a line. *)
LEMMA LogFilterOrder ==
  ASSUME LogInv, OrderInv, LogFilter(Worker)
  PROVE  OrderInv'
<1> USE LoggerAssumption DEF OrderInv
<1>1. /\ UNCHANGED <<accepted, calls, entry, stream>>
      /\ pc[Worker] = "log_filter"
      /\ LogReturn(Worker) \/ (Goto(Worker, "log_write") /\ UNCHANGED delivered)
  BY DEF LogFilter, sinkVars
<1>2. CASE Goto(Worker, "log_write") /\ UNCHANGED delivered
  <2>1. pc'[Worker] = "log_write" /\ \A t \in Threads : pc'[t] = pc[t]
    BY <1>2 DEF Goto, LogInv, TypeOK, Procs
  <2> QED
    BY <1>1, <1>2, <2>1, QuietStep DEF OnlyWorker
<1>3. CASE LogReturn(Worker)
  <2> DEFINE d == Len(delivered)
  <2>1. /\ Len(delivered') = d + 1 /\ d \in Nat
        /\ pc'[Worker] \in {"drain", "loop"}
        /\ \A t \in Threads : pc'[t] = pc[t]
    BY <1>3, Return
  <2>2. Half = 0 /\ Half' = 0
    BY <1>1, <2>1 DEF Half
  <2>3. OnlyWorker' /\ Numbered' /\ AcceptedOrder'
    BY <1>1, <2>1 DEF OnlyWorker, Numbered, AcceptedOrder
  <2>4. Lines' /\ CallerOrder'
    BY <1>1, <2>2 DEF Lines, WholeLines, CallerOrder
  <2>5. Written'
    <3> SUFFICES ASSUME NEW i \in 1..Len(stream), stream[i] # EOL
                 PROVE  \E k \in 1..(d + 1 + 0) :
                          k <= Len(accepted) /\ stream[i] = Text(accepted[k])
      BY <1>1, <2>1, <2>2 DEF Written
    <3>1. PICK k \in 1..(d + 0) : k <= Len(accepted) /\ stream[i] = Text(accepted[k])
      BY <2>2 DEF Written
    <3> QED
      BY <2>1, <3>1
  <2> QED
    BY <2>3, <2>4, <2>5
<1> QED
  BY <1>1, <1>2, <1>3

LEMMA OrderStep == ~DirectCalls /\ LogInv /\ OrderInv /\ [Next]_vars => OrderInv'
<1> SUFFICES ASSUME ~DirectCalls, LogInv, OrderInv, [Next]_vars PROVE OrderInv'
  OBVIOUS
<1> USE LoggerAssumption DEF Goto
<1>0. /\ DOMAIN pc = Procs /\ Worker \in Procs /\ Worker \notin Threads
      /\ Threads \subseteq Procs /\ DOMAIN entry = Procs
      /\ \A t \in Threads : pc[t] \notin CallbackPc
  BY DEF LogInv, TypeOK, Procs, OrderInv, OnlyWorker
<1>1. ASSUME NEW t \in Threads, NEW lv \in Levels, EnqueueLog(t, lv) PROVE OrderInv'
  BY <1>1, EnqueueLogOrder
<1>2. ASSUME NEW t \in Threads, EnqueueLock(t) \/ EnqueueNotify(t) PROVE OrderInv'
  BY <1>0, <1>2, QuietStep
     DEF EnqueueLock, EnqueueNotify, queueVars, sinkVars, history, CallbackPc
<1>3. ASSUME NEW t \in Threads, EnqueuePush(t) PROVE OrderInv'
  BY <1>3, EnqueuePushOrder
<1>4. ASSUME NEW t \in Threads PROVE ~LogStep(t) /\ \A lv : ~LogDirect(t, lv)
  BY <1>0 DEF LogStep, LogFilter, LogWrite, LogEndl, LogDirect, CallbackPc
<1>5. CASE DequeueLock \/ DequeueWait \/ SpuriousWake \/ DequeuePop
  BY <1>0, <1>5, QuietStep
     DEF DequeueLock, DequeueWait, SpuriousWake, DequeuePop, queueVars, sinkVars, history
<1>6. CASE WorkLoop \/ WorkDrain
  BY <1>0, <1>6, QuietStep DEF WorkLoop, WorkDrain, queueVars, sinkVars, history
<1>7. CASE LogStep(Worker)
  BY <1>7, LogFilterOrder, LogWriteOrder, LogEndlOrder DEF LogStep
<1>8. ASSUME NEW lv \in Levels, SetLevel(lv) PROVE OrderInv'
  BY <1>0, <1>8, QuietStep DEF SetLevel, history
<1>9. CASE Stop \/ Join
  BY <1>0, <1>9, QuietStep DEF Stop, Join, sinkVars, history, CallbackPc
<1>10. CASE UNCHANGED vars
  BY <1>0, <1>10, QuietStep DEF vars
<1> QED
  BY <1>1, <1>2, <1>3, <1>4, <1>5, <1>6, <1>7, <1>8, <1>9, <1>10
     DEF Next, EnqueueStep, WorkerStep

LEMMA OrderInvariant ==
  ASSUME ~DirectCalls
  PROVE  Spec => []OrderInv
<1>1. Init => OrderInv
  BY OrderInit
<1>2. LogInv /\ OrderInv /\ [Next]_vars => OrderInv'
  BY OrderStep
<1> QED
  BY <1>1, <1>2, InvariantHolds, PTL DEF Spec

(* When every call goes through the queue a line is never broken by another,  *)
(* although log_impl writes it with two insertions.                           *)
THEOREM Whole ==
  ASSUME ~DirectCalls
  PROVE  Spec => []WholeLines
BY OrderInvariant, PTL DEF OrderInv, Lines

(* And a caller's lines appear in the order of its calls: the entries are     *)
(* numbered before they are queued, by their own caller, and written in the   *)
(* order of the queue.                                                        *)
THEOREM InCallOrder ==
  ASSUME ~DirectCalls
  PROVE  Spec => []CallerOrder
BY OrderInvariant, PTL DEF OrderInv

-----------------------------------------------------------------------------
(* Waiting.  The mutex is owned by nobody, or by one inside a guarded block.  *)
MutexHeld ==
  /\ \A t \in Threads : m_mut = t => pc[t] = "enq_push"
  /\ m_mut = Worker => pc[Worker] = "deq_test"

(* The guards of the steps of a call that has begun, and of the worker's.     *)
CallerOpen(t) ==
  \/ pc[t] \in {"enq_push", "enq_notify"} \cup CallbackPc
  \/ pc[t] = "enq_lock" /\ m_mut = NoOwner

WorkerOpen ==
  \/ pc[Worker] \in {"loop", "drain", "deq_test"} \cup CallbackPc
  \/ pc[Worker] = "deq_lock" /\ m_mut = NoOwner

(* The worker sleeps on an empty queue, having found the logger open. *)
Asleep == pc[Worker] = "deq_wait" /\ m_queue = <<>> /\ ~draining

(* Nobody waits for ever.  A caller that waits for the mutex can take it or   *)
(* its owner can go on; the worker, and whoever joins it, can go on or there  *)
(* is a caller that can, one that will wake it included; but for one case,    *)
(* stop() called while the worker sleeps on an empty queue.                   *)
LoggerNeverStuck ==
  /\ \A t \in Threads : pc[t] \notin {"idle", "join"} =>
       CallerOpen(t) \/ WorkerOpen \/ \E u \in Threads : CallerOpen(u)
  /\ pc[Main] = "join" =>
       \/ pc[Worker] = "exited" \/ WorkerOpen \/ Asleep
       \/ pc[Worker] = "deq_lock" /\ \E t \in Threads : pc[t] = "enq_push"
       \/ pc[Worker] = "deq_wait" /\ \E t \in Threads : pc[t] = "enq_notify"

(* In that case, once the calls under way have come to their ends, nothing    *)
(* wakes the worker any more but a spurious wake-up.                          *)
Hung ==
  /\ m_done /\ Asleep
  /\ \A t \in Threads : pc[t] \notin {"enq_lock", "enq_push", "enq_notify"}

HungForGood == [][Hung => Hung' \/ SpuriousWake]_vars

LEMMA MutexInit == Init => MutexHeld
BY LoggerAssumption DEF Init, MutexHeld

LEMMA MutexStep == LogInv /\ MutexHeld /\ [Next]_vars => MutexHeld'
<1> SUFFICES ASSUME LogInv, MutexHeld, [Next]_vars PROVE MutexHeld'
  OBVIOUS
<1>0. /\ pc \in [Procs -> ThreadPc \cup WorkerPc]
      /\ \A t \in Threads : pc[t] = "enq_push" => m_mut = t
      /\ pc[Worker] = "deq_test" => m_mut = Worker
  BY DEF LogInv, TypeOK, HoldsMutex
<1> USE LoggerAssumption DEF MutexHeld, Procs, CallbackPc, Goto, queueVars
<1>1. ASSUME NEW t \in Threads, NEW lv \in Levels, EnqueueLog(t, lv) \/ LogDirect(t, lv)
      PROVE  MutexHeld'
  BY <1>0, <1>1 DEF EnqueueLog, LogDirect
<1>2. ASSUME NEW t \in Threads, EnqueueStep(t) PROVE MutexHeld'
  BY <1>0, <1>2 DEF EnqueueStep, EnqueueLock, EnqueuePush, EnqueueNotify
<1>3. ASSUME NEW p \in Procs, LogStep(p) PROVE MutexHeld'
  <2>1. UNCHANGED m_mut /\ pc[p] \in CallbackPc /\ \A q \in Procs \ {p} : pc'[q] = pc[q]
    BY <1>0, <1>3 DEF LogStep, LogFilter, LogWrite, LogEndl, LogReturn
  <2> QED
    BY <1>0, <2>1
<1>4. CASE DequeueLock \/ DequeueWait \/ SpuriousWake \/ DequeuePop \/ WorkLoop \/ WorkDrain
  BY <1>0, <1>4 DEF DequeueLock, DequeueWait, SpuriousWake, DequeuePop, WorkLoop, WorkDrain
<1>5. ASSUME NEW lv \in Levels, SetLevel(lv) PROVE MutexHeld'
  BY <1>5 DEF SetLevel
<1>6. CASE Stop \/ Join
  BY <1>0, <1>6 DEF Stop, Join
<1>7. CASE UNCHANGED vars
  BY <1>7 DEF vars
<1> QED
  BY <1>1, <1>2, <1>3, <1>4, <1>5, <1>6, <1>7 DEF Next, WorkerStep

(* Nobody waits for ever, but for a stop() that comes while the worker sleeps *)
(* on an empty queue: what StopHangsOnlyOnEmptyQueue needs of every state.    *)
THEOREM NobodyStuck == Spec => []LoggerNeverStuck
<1>1. ASSUME LogInv, MutexHeld PROVE LoggerNeverStuck
  <2>0. /\ pc[Worker] \in WorkerPc
        /\ \A t \in Threads : pc[t] \in ThreadPc
        /\ m_mut \in Threads \cup {Worker, NoOwner}
    BY <1>1 DEF LogInv, TypeOK, Procs
  <2>1. \/ m_mut = NoOwner
        \/ m_mut = Worker /\ WorkerOpen
        \/ \E t \in Threads : pc[t] = "enq_push" /\ CallerOpen(t)
    BY <1>1, <2>0 DEF MutexHeld, WorkerOpen, CallerOpen
  <2>2. ASSUME NEW t \in Threads, pc[t] \notin {"idle", "join"}
        PROVE  CallerOpen(t) \/ WorkerOpen \/ \E u \in Threads : CallerOpen(u)
    BY <2>0, <2>1, <2>2 DEF CallerOpen, ThreadPc
  <2>3. \/ pc[Worker] = "exited" \/ WorkerOpen \/ Asleep
        \/ pc[Worker] = "deq_lock" /\ \E t \in Threads : pc[t] = "enq_push"
        \/ pc[Worker] = "deq_wait" /\ \E t \in Threads : pc[t] = "enq_notify"
    <3>1. CASE pc[Worker] = "deq_lock"
      BY <2>1, <3>1 DEF WorkerOpen
    <3>2. CASE pc[Worker] = "deq_wait"
      <4>1. ~draining /\ (m_queue # <<>> => \E t \in Threads : pc[t] = "enq_notify")
        BY <1>1, <3>2, LoggerAssumption DEF LogInv, DrainInv, NoLostWakeup, TypeOK
      <4> QED
        BY <3>2, <4>1 DEF Asleep
    <3> QED
      BY <2>0, <3>1, <3>2 DEF WorkerPc, WorkerOpen
  <2> QED
    BY <2>2, <2>3 DEF LoggerNeverStuck
<1>2. LogInv /\ MutexHeld => LoggerNeverStuck
  BY <1>1
<1> QED
  BY <1>2, InvariantHolds, MutexInit, MutexStep, PTL DEF Spec

(* And in that case stop() does not return: the sleep ends by itself or never. *)
THEOREM HangLasts == Spec => HungForGood
<1>1. ASSUME LogInv, Hung, Next, ~SpuriousWake PROVE Hung'
  <2>0. pc \in [Procs -> ThreadPc \cup WorkerPc] /\ Worker \notin Threads
    BY <1>1, LoggerAssumption DEF LogInv, TypeOK
  <2> USE DEF Hung, Asleep, Procs, Goto, queueVars, loggerVars
  <2>k. ASSUME NEW t \in Threads, NEW l, l \notin {"enq_lock", "enq_push", "enq_notify"},
               pc' = [pc EXCEPT ![t] = l] \/ pc' = pc, UNCHANGED <<m_queue, m_done, draining>>
        PROVE  Hung'
    <3>1. pc'[Worker] = "deq_wait"
      BY <1>1, <2>0, <2>k
    <3>2. \A u \in Threads : pc'[u] \notin {"enq_lock", "enq_push", "enq_notify"}
      BY <1>1, <2>0, <2>k
    <3> QED
      BY <1>1, <2>k, <3>1, <3>2
  <2>1. ASSUME NEW t \in Threads, NEW lv \in Levels, EnqueueLog(t, lv) \/ LogDirect(t, lv)
        PROVE  Hung'
    <3>1. pc' = [pc EXCEPT ![t] = "log_filter"] \/ pc' = pc
      BY <1>1, <2>1 DEF EnqueueLog, LogDirect
    <3>2. UNCHANGED <<m_queue, m_done, draining>>
      BY <2>1 DEF EnqueueLog, LogDirect
    <3> HIDE DEF Hung
    <3> QED
      BY <2>k, <3>1, <3>2
  <2>2. ASSUME NEW t \in Threads, LogStep(t) PROVE Hung'
    <3>1. \E l \in {"idle", "log_write", "log_endl"} : pc' = [pc EXCEPT ![t] = l]
      BY <2>0, <2>2 DEF LogStep, LogFilter, LogWrite, LogEndl, LogReturn
    <3>2. UNCHANGED <<m_queue, m_done, draining>>
      BY <2>2 DEF LogStep, LogFilter, LogWrite, LogEndl
    <3> HIDE DEF Hung
    <3>3. PICK l \in {"idle", "log_write", "log_endl"} : pc' = [pc EXCEPT ![t] = l]
      BY <3>1
    <3>4. l \notin {"enq_lock", "enq_push", "enq_notify"}
      BY <3>3
    <3> QED
      BY <2>k, <3>2, <3>3, <3>4
  <2>3. ~WorkerStep
    BY <1>1 DEF WorkerStep, WorkLoop, WorkDrain, DequeueLock, DequeueWait, DequeuePop,
                LogStep, LogFilter, LogWrite, LogEndl
  <2>4. ASSUME NEW t \in Threads PROVE ~EnqueueStep(t)
    BY <1>1 DEF EnqueueStep, EnqueueLock, EnqueuePush, EnqueueNotify
  <2>5. ASSUME NEW lv \in Levels, SetLevel(lv) PROVE Hung'
    BY <1>1, <2>5 DEF SetLevel
  <2>6. CASE Stop
    BY <1>1, <2>0, <2>6, LoggerAssumption DEF Stop
  <2>7. CASE Join
    BY <1>1, <2>7 DEF Join
  <2> QED
    BY <1>1, <2>1, <2>2, <2>3, <2>4, <2>5, <2>6, <2>7 DEF Next
<1>2. ASSUME UNCHANGED vars, Hung PROVE Hung'
  BY <1>2 DEF vars, Hung, Asleep
<1>3. LogInv /\ [Next]_vars => (Hung => Hung' \/ SpuriousWake)
  BY <1>1, <1>2
<1> QED
  BY <1>3, InvariantHolds, PTL DEF Spec, HungForGood
=============================================================================
