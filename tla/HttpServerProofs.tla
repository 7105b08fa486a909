--------------------------- MODULE HttpServerProofs ---------------------------
(***************************************************************************)
(* Theorems about the life of http::Server, for any number of threads,       *)
(* signals and requests, and about what its parser makes of a request.       *)
(***************************************************************************)
EXTENDS HttpServer, WellFoundedInduction, TLAPS

Early == {"before", "spawn", "ctor"}
Serving == {"test", "wait", "validate", "copy", "file", "sent", "hung"}
Done == {"ended", "joined"}

Frame == [why : {"dtor", "SIGINT", "SIGTERM"},
          at : {"test", "set", "join", "close", "closing", "return"},
          next : 1..MaxThreads + 1, last : 0..MaxThreads]
FramesOf(s) == {s[k] : k \in 1..Len(s)}

(* The workers have all left their loops. *)
Quiet == \A i \in 1..threads : pc[i] \in Done

(* A call of join_threads() that waits for every thread there is. *)
Joining(f) ==
  /\ f.at = "join" /\ f.last = threads
  /\ \A j \in 1..f.next - 1 : pc[j] \in Done

LifeType ==
  /\ threads \in 0..MaxThreads
  /\ ctx \in BOOLEAN /\ m_done \in BOOLEAN /\ m_fd \in BOOLEAN
  /\ failed \in BOOLEAN /\ interrupted \in BOOLEAN
  /\ DOMAIN pc = Threads
  /\ stack \in [Threads -> Seq(Frame)]

FreshFrame(f) == f.at \in {"test", "set"} => f.next = 1
Fresh == \A t \in Threads : \A f \in FramesOf(stack[t]) : FreshFrame(f)

(* Where main is tells what there is: ctx, threads, and what is on its stack. *)
InPlace(f) == f.why = "dtor" \/ f.at = "return" => pc[0] = "free"
MainPlaces == {"open", "listen", "before", "spawn", "ctor", "dtor", "free"} \cup Serving

Phases ==
  /\ pc[0] \in MainPlaces
  /\ ctx <=> pc[0] \in {"spawn", "ctor"} \cup Serving
  /\ pc[0] \in {"open", "listen", "before"} => threads = 0
  /\ pc[0] \in {"open", "listen"} => ~m_done /\ \A t \in Threads : stack[t] = <<>>
  /\ \A t \in Pool : t > threads => pc[t] = "none"
  /\ \A f \in FramesOf(stack[0]) : InPlace(f)

(* As long as no pool thread has had a signal, handlers run on main's stack,  *)
(* and one that has come and gone before the loop leaves the socket closed.   *)
OnMain ==
  /\ \A t \in Pool : stack[t] = <<>>
  /\ pc[0] \in Early /\ m_done /\ m_fd => stack[0] # <<>>

(* Then main does not see m_done before it has waited for every worker. *)
Waited ==
  /\ pc[0] \in Serving /\ m_done => Quiet \/ \E f \in FramesOf(stack[0]) : Joining(f)
  /\ pc[0] \in {"dtor", "free"} => Quiet

LifeInv ==
  /\ LifeType /\ Fresh
  /\ ~Over => Phases
  /\ ~Over /\ ~interrupted => OnMain
  /\ ~Over /\ ~interrupted /\ ~failed => Waited

-----------------------------------------------------------------------------
LEMMA ThreadFacts ==
  /\ MaxThreads \in Nat /\ Pool = 1..MaxThreads /\ Threads = 0..MaxThreads
  /\ 0 \in Threads /\ 0 \notin Pool /\ Pool \subseteq Threads
BY ServerAssumption DEF Pool, Threads

LEMMA NoFrames == FramesOf(<<>>) = {}
BY DEF FramesOf

LEMMA FramesPushed ==
  ASSUME NEW S, NEW s \in Seq(S), NEW x \in S
  PROVE  <<x>> \o s \in Seq(S) /\ <<x>> \o s # <<>> /\ FramesOf(<<x>> \o s) = {x} \cup FramesOf(s)
<1> DEFINE p == <<x>> \o s
<1>1. p \in Seq(S) /\ Len(p) = Len(s) + 1 /\ Len(s) \in Nat
  OBVIOUS
<1>2. p[1] = x /\ \A k \in 1..Len(s) : p[k + 1] = s[k]
  OBVIOUS
<1>3. p # <<>>
  BY <1>1
<1> HIDE DEF p
<1>4. FramesOf(p) \subseteq {x} \cup FramesOf(s)
  <2>1. ASSUME NEW k \in 1..Len(p) PROVE p[k] \in {x} \cup FramesOf(s)
    <3>1. CASE k = 1
      BY <1>2, <3>1
    <3>2. CASE k # 1
      <4>1. k - 1 \in 1..Len(s) /\ p[(k - 1) + 1] = s[k - 1]
        BY <1>1, <1>2, <2>1, <3>2
      <4> QED
        BY <4>1 DEF FramesOf
    <3> QED
      BY <3>1, <3>2
  <2> QED
    BY <2>1 DEF FramesOf
<1>5. {x} \cup FramesOf(s) \subseteq FramesOf(p)
  <2>1. x \in FramesOf(p)
    BY <1>1, <1>2 DEF FramesOf
  <2>2. ASSUME NEW k \in 1..Len(s) PROVE s[k] \in FramesOf(p)
    <3>1. k + 1 \in 1..Len(p) /\ p[k + 1] = s[k]
      BY <1>1, <1>2
    <3> QED
      BY <3>1 DEF FramesOf
  <2> QED
    BY <2>1, <2>2 DEF FramesOf
<1> QED
  BY <1>1, <1>3, <1>4, <1>5 DEF p

LEMMA FramesPopped ==
  ASSUME NEW S, NEW s \in Seq(S), s # <<>>
  PROVE  /\ Tail(s) \in Seq(S) /\ Head(s) \in S /\ Head(s) \in FramesOf(s)
         /\ FramesOf(s) = {Head(s)} \cup FramesOf(Tail(s))
<1>1. /\ Tail(s) \in Seq(S) /\ Head(s) \in S /\ Len(s) \in Nat \ {0}
      /\ Len(Tail(s)) = Len(s) - 1 /\ Head(s) = s[1]
      /\ \A k \in 1..Len(s) - 1 : Tail(s)[k] = s[k + 1]
  OBVIOUS
<1>2. FramesOf(s) \subseteq {Head(s)} \cup FramesOf(Tail(s))
  <2>1. ASSUME NEW k \in 1..Len(s) PROVE s[k] \in {Head(s)} \cup FramesOf(Tail(s))
    <3>1. CASE k = 1
      BY <1>1, <3>1
    <3>2. CASE k # 1
      <4>1. k - 1 \in 1..Len(Tail(s)) /\ Tail(s)[k - 1] = s[(k - 1) + 1]
        BY <1>1, <2>1, <3>2
      <4> QED
        BY <4>1 DEF FramesOf
    <3> QED
      BY <3>1, <3>2
  <2> QED
    BY <2>1 DEF FramesOf
<1>3. {Head(s)} \cup FramesOf(Tail(s)) \subseteq FramesOf(s)
  <2>1. Head(s) \in FramesOf(s)
    BY <1>1 DEF FramesOf
  <2>2. ASSUME NEW k \in 1..Len(Tail(s)) PROVE Tail(s)[k] \in FramesOf(s)
    <3>1. k + 1 \in 1..Len(s) /\ Tail(s)[k] = s[k + 1]
      BY <1>1
    <3> QED
      BY <3>1 DEF FramesOf
  <2> QED
    BY <2>1, <2>2 DEF FramesOf
<1> QED
  BY <1>1, <1>2, <1>3

LEMMA LifeInit == Init => LifeInv
<1> SUFFICES ASSUME Init PROVE LifeInv
  OBVIOUS
<1>1. LifeType /\ \A t \in Threads : stack[t] = <<>>
  BY ThreadFacts DEF Init, LifeType
<1>2. pc[0] = "open" /\ \A t \in Pool : pc[t] = "none"
  BY ThreadFacts DEF Init
<1>3. Fresh /\ Phases
  BY <1>1, <1>2, NoFrames, ThreadFacts DEF Init, Fresh, Phases, MainPlaces, Serving
<1>4. OnMain /\ Waited
  BY <1>1, <1>2, ThreadFacts DEF OnMain, Waited, Early, Serving
<1> QED
  BY <1>1, <1>3, <1>4 DEF LifeInv

-----------------------------------------------------------------------------
(* The end of the process, whichever way. *)
LEMMA Finished ==
  ASSUME LifeInv, LifeType', Over', UNCHANGED stack \/ \A t \in Threads : stack'[t] = <<>>
  PROVE  LifeInv'
<1>1. Fresh'
  BY NoFrames DEF LifeInv, Fresh
<1> QED
  BY <1>1 DEF LifeInv

LEMMA Terminated ==
  ASSUME LifeInv, Terminate, UNCHANGED <<threads, interrupted>>,
         ctx' \in BOOLEAN, m_done' \in BOOLEAN, m_fd' \in BOOLEAN, failed' \in BOOLEAN
  PROVE  LifeInv'
<1>1. LifeType'
  BY DEF LifeInv, LifeType, Terminate
<1>2. Over' /\ \A t \in Threads : stack'[t] = <<>>
  BY ThreadFacts DEF Terminate, Over
<1> QED
  BY <1>1, <1>2, Finished

(* Main goes on, with nothing on its stack. *)
LEMMA MainMoves ==
  ASSUME LifeInv, ~Over, stack[0] = <<>>, NEW l, Goto(0, l),
         UNCHANGED <<stack, threads, interrupted>>, LifeType',
         l \in {"open", "listen"} => ~m_done' /\ \A t \in Threads : stack[t] = <<>>,
         l \notin {"over", "terminated"} =>
           /\ l \in MainPlaces
           /\ ctx' <=> l \in {"spawn", "ctor"} \cup Serving
           /\ l \in {"open", "listen", "before"} => threads = 0
           /\ ~interrupted => ~(l \in Early /\ m_done' /\ m_fd')
           /\ ~interrupted /\ ~failed' /\ (l \in {"dtor", "free"} \/ (l \in Serving /\ m_done')) => Quiet
  PROVE  LifeInv'
<1>1. pc'[0] = l /\ \A t \in Pool : pc'[t] = pc[t]
  BY ThreadFacts DEF LifeInv, LifeType, Goto
<1>2. CASE Over'
  BY <1>2, Finished
<1>3. CASE ~Over'
  <2>1. l \notin {"over", "terminated"}
    BY <1>1, <1>3 DEF Over
  <2>2. Fresh' /\ FramesOf(stack'[0]) = {}
    BY NoFrames DEF LifeInv, Fresh
  <2>3. Phases'
    <3>1. \A t \in Pool : t > threads' => pc'[t] = "none"
      BY <1>1 DEF LifeInv, Phases
    <3>2. \A f \in FramesOf(stack'[0]) : InPlace(f)'
      BY <2>2
    <3> QED
      BY <1>1, <2>1, <3>1, <3>2 DEF Phases
  <2>4. ~interrupted => OnMain'
    BY <1>1, <2>1 DEF LifeInv, OnMain
  <2>5. Quiet => Quiet'
    BY <1>1, ThreadFacts DEF Quiet, LifeInv, LifeType
  <2>6. ~interrupted /\ ~failed' => Waited'
    BY <1>1, <2>1, <2>5 DEF Waited
  <2> QED
    BY <2>2, <2>3, <2>4, <2>6 DEF LifeInv
<1> QED
  BY <1>2, <1>3

(* A pool thread that is in its worker goes on, or ends. *)
LEMMA PoolMoves ==
  ASSUME LifeInv, ~Over, NEW t \in Pool, pc[t] \notin Done \cup {"none"}, NEW l, Goto(t, l),
         UNCHANGED <<stack, threads, interrupted, failed, m_done, m_fd>>, ctx' = ctx
  PROVE  LifeInv'
<1>1. pc'[0] = pc[0] /\ \A i \in Pool : i # t => pc'[i] = pc[i]
  BY ThreadFacts DEF LifeInv, LifeType, Goto
<1>2. LifeType' /\ Fresh'
  BY DEF LifeInv, LifeType, Fresh, Goto
<1>3. ~Over' /\ Phases /\ t \in 1..threads
  BY <1>1, ThreadFacts DEF LifeInv, LifeType, Over, Phases
<1>4. Phases'
  BY <1>1, <1>3 DEF Phases, InPlace
<1>5. ~interrupted => OnMain'
  BY <1>1 DEF LifeInv, OnMain
<1>6. ASSUME NEW f, f \in Frame, Joining(f) PROVE Joining(f)'
  <2>1. \A j \in 1..f.next - 1 : j # t
    BY <1>6 DEF Joining
  <2>2. \A j \in 1..f.next - 1 : pc'[j] = pc[j]
    BY <2>1 DEF Goto, LifeInv, LifeType
  <2> QED
    BY <1>6, <2>2 DEF Joining
<1>7. ASSUME ~interrupted, ~failed PROVE Waited'
  <2>1. Waited /\ ~Quiet
    BY <1>3, <1>7 DEF LifeInv, Quiet
  <2>2. FramesOf(stack[0]) \subseteq Frame
    BY ThreadFacts DEF LifeInv, LifeType, FramesOf
  <2> QED
    BY <1>1, <1>6, <2>1, <2>2 DEF Waited
<1> QED
  BY <1>2, <1>4, <1>5, <1>7 DEF LifeInv

(* While there is something on a stack, threads at most are joined. *)
SamePlaces ==
  /\ DOMAIN pc' = Threads /\ pc'[0] = pc[0]
  /\ \A i \in Pool : (pc'[i] \in Done <=> pc[i] \in Done) /\ (pc'[i] = "none" <=> pc[i] = "none")

LEMMA StackKept ==
  ASSUME LifeInv, ~Over, SamePlaces, NEW t \in Threads, NEW s \in Seq(Frame),
         stack' = [stack EXCEPT ![t] = s],
         UNCHANGED <<threads, ctx, failed>>, m_done' \in BOOLEAN, m_fd' \in BOOLEAN,
         pc[0] \notin {"open", "listen"},
         \A f \in FramesOf(s) :
           f \in FramesOf(stack[t]) \/ (FreshFrame(f) /\ (t = 0 => InPlace(f))),
         interrupted' \in BOOLEAN,
         t # 0 => interrupted', t = 0 => interrupted' = interrupted,
         t = 0 /\ ~interrupted =>
           /\ (pc[0] \in Early /\ m_done' /\ m_fd' => s # <<>>)
           /\ (pc[0] \in Serving /\ m_done' /\ ~failed
                 => Quiet \/ \E f \in FramesOf(s) : Joining(f)')
  PROVE  LifeInv'
<1>1. LifeType'
  BY DEF LifeInv, LifeType, SamePlaces
<1>2. \A u \in Threads : stack'[u] = IF u = t THEN s ELSE stack[u]
  BY DEF LifeInv, LifeType
<1>3. Fresh'
  BY <1>2 DEF LifeInv, Fresh, FreshFrame
<1>4. ~Over' /\ Phases /\ pc'[0] = pc[0]
  BY DEF LifeInv, SamePlaces, Over
<1>5. Phases'
  <2>1. \A f \in FramesOf(stack'[0]) : InPlace(f)'
    BY <1>2, <1>4, ThreadFacts DEF Phases, InPlace
  <2>2. \A u \in Pool : u > threads' => pc'[u] = "none"
    BY <1>4 DEF Phases, SamePlaces
  <2> QED
    BY <1>4, <2>1, <2>2 DEF Phases
<1>6. ASSUME ~interrupted' PROVE OnMain'
  <2>1. t = 0 /\ ~interrupted /\ OnMain
    BY <1>6 DEF LifeInv
  <2> QED
    BY <1>2, <1>4, <2>1, ThreadFacts DEF OnMain
<1>7. ASSUME ~interrupted', ~failed' PROVE Waited'
  <2>1. t = 0 /\ ~interrupted /\ ~failed /\ Waited /\ stack'[0] = s
    BY <1>2, <1>7, ThreadFacts DEF LifeInv
  <2>2. Quiet => Quiet'
    BY ThreadFacts DEF Quiet, SamePlaces, LifeInv, LifeType
  <2> QED
    BY <1>4, <2>1, <2>2 DEF Waited
<1> QED
  BY <1>1, <1>3, <1>5, <1>6, <1>7 DEF LifeInv

(* A call of join_threads() goes on waiting as threads end. *)
LEMMA StillJoining ==
  ASSUME LifeType, SamePlaces, UNCHANGED threads, NEW f \in Frame, Joining(f)
  PROVE  Joining(f)'
<1>1. \A j \in 1..f.next - 1 : j \in Threads /\ j # 0
  BY ThreadFacts DEF Frame
<1> QED
  BY <1>1, ThreadFacts DEF Joining, SamePlaces

LEMMA TopFacts ==
  ASSUME LifeInv, NEW t \in Threads, stack[t] # <<>>
  PROVE  /\ Tail(stack[t]) \in Seq(Frame) /\ Top(t) \in Frame /\ Top(t) \in FramesOf(stack[t])
         /\ FramesOf(stack[t]) = {Top(t)} \cup FramesOf(Tail(stack[t]))
         /\ FramesOf(stack[t]) \subseteq Frame
         /\ FreshFrame(Top(t))
<1>1. stack[t] \in Seq(Frame)
  BY DEF LifeInv, LifeType
<1>2. FramesOf(stack[t]) \subseteq Frame
  BY <1>1 DEF FramesOf
<1> QED
  BY <1>1, <1>2, FramesPopped DEF Top, LifeInv, Fresh

(* A frame put in the place of the top one, or the top one taken away: what   *)
(* waits for every thread is still there, unless it was the top one.          *)
LEMMA TopSet ==
  ASSUME LifeInv, ~Over, SamePlaces, NEW t \in Threads, stack[t] # <<>>, NEW x \in Frame, Set(t, x),
         UNCHANGED <<threads, ctx, failed, interrupted>>, m_done' \in BOOLEAN, m_fd' = m_fd,
         FreshFrame(x),
         (x.why = "dtor" \/ x.at = "return") => (Top(t).why = "dtor" \/ Top(t).at = "return"),
         \/ m_done' = m_done /\ (Joining(Top(t)) => Joining(x)' \/ Quiet)
         \/ Joining(x)'
  PROVE  LifeInv'
<1> DEFINE s == <<x>> \o Tail(stack[t])
<1>1. /\ Tail(stack[t]) \in Seq(Frame) /\ Top(t) \in FramesOf(stack[t])
      /\ FramesOf(stack[t]) = {Top(t)} \cup FramesOf(Tail(stack[t]))
      /\ FramesOf(stack[t]) \subseteq Frame
  BY TopFacts
<1>2. s \in Seq(Frame) /\ s # <<>> /\ FramesOf(s) = {x} \cup FramesOf(Tail(stack[t]))
  BY <1>1, FramesPushed
<1>3. stack' = [stack EXCEPT ![t] = s]
  BY DEF Set
<1> HIDE DEF s
<1>4. t # 0 => interrupted
  BY ThreadFacts DEF LifeInv, OnMain
<1>5. pc[0] \notin {"open", "listen"} /\ (t = 0 => InPlace(x))
  BY <1>1 DEF LifeInv, Phases, InPlace
<1>6. ASSUME t = 0, ~interrupted, pc[0] \in Serving, m_done', ~failed
      PROVE  Quiet \/ \E f \in FramesOf(s) : Joining(f)'
  <2>1. CASE Joining(x)'
    BY <1>2, <2>1
  <2>2. CASE m_done' = m_done /\ (Joining(Top(t)) => Joining(x)' \/ Quiet)
    <3>1. Quiet \/ \E f \in FramesOf(stack[0]) : Joining(f)
      BY <1>6, <2>2 DEF LifeInv, Waited
    <3>2. ASSUME NEW f \in FramesOf(stack[0]), Joining(f)
          PROVE  Quiet \/ \E g \in FramesOf(s) : Joining(g)'
      <4>1. CASE f = Top(t)
        BY <1>2, <2>2, <3>2, <4>1
      <4>2. CASE f # Top(t)
        BY <1>1, <1>2, <1>6, <3>2, <4>2, StillJoining DEF LifeInv
      <4> QED
        BY <4>1, <4>2
    <3> QED
      BY <3>1, <3>2
  <2> QED
    BY <2>1, <2>2
<1>7. interrupted \in BOOLEAN /\ m_fd \in BOOLEAN
  BY DEF LifeInv, LifeType
<1> QED
  BY <1>1, <1>2, <1>3, <1>4, <1>5, <1>6, <1>7, StackKept

LEMMA TopGone ==
  ASSUME LifeInv, ~Over, SamePlaces, NEW t \in Threads, stack[t] # <<>>, Pop(t),
         UNCHANGED <<threads, ctx, failed, interrupted, m_done>>, m_fd' \in BOOLEAN,
         Top(t).at # "join", m_fd' => t = 0 /\ pc[0] = "free"
  PROVE  LifeInv'
<1> DEFINE s == Tail(stack[t])
<1>1. /\ s \in Seq(Frame)
      /\ FramesOf(stack[t]) = {Top(t)} \cup FramesOf(s)
      /\ FramesOf(stack[t]) \subseteq Frame
  BY TopFacts
<1>2. stack' = [stack EXCEPT ![t] = s]
  BY DEF Pop
<1> HIDE DEF s
<1>3. t # 0 => interrupted
  BY ThreadFacts DEF LifeInv, OnMain
<1>4. pc[0] \notin {"open", "listen"}
  BY DEF LifeInv, Phases
<1>5. ASSUME t = 0, ~interrupted, pc[0] \in Serving, m_done', ~failed
      PROVE  Quiet \/ \E f \in FramesOf(s) : Joining(f)'
  <2>1. Quiet \/ \E f \in FramesOf(stack[0]) : Joining(f)
    BY <1>5 DEF LifeInv, Waited
  <2>2. ASSUME NEW f \in FramesOf(stack[0]), Joining(f)
        PROVE  f \in FramesOf(s) /\ Joining(f)'
    BY <1>1, <1>5, <2>2, StillJoining DEF LifeInv, Joining
  <2> QED
    BY <2>1, <2>2
<1>6. pc[0] \in Early /\ m_done' /\ m_fd' => s # <<>>
  BY DEF Early
<1>7. interrupted \in BOOLEAN /\ m_done \in BOOLEAN
  BY DEF LifeInv, LifeType
<1> QED
  BY <1>1, <1>2, <1>3, <1>4, <1>5, <1>6, <1>7, StackKept

LEMMA SignalStep ==
  ASSUME LifeInv, NEW t \in Threads, NEW sig \in Signals, Signal(t, sig)
  PROVE  LifeInv'
<1> DEFINE x == Call(sig)
           s == <<x>> \o stack[t]
<1>1. /\ x \in Frame /\ FreshFrame(x) /\ InPlace(x)
  BY ThreadFacts DEF Call, Frame, Signals, FreshFrame, InPlace
<1>2. stack' = [stack EXCEPT ![t] = s] /\ ~Over
  BY DEF Signal
<1> HIDE DEF x
<1>3. s \in Seq(Frame) /\ s # <<>> /\ FramesOf(s) = {x} \cup FramesOf(stack[t])
  BY <1>1, FramesPushed DEF LifeInv, LifeType
<1> HIDE DEF s
<1>4. SamePlaces
  BY DEF Signal, lifeVars, SamePlaces, LifeInv, LifeType
<1>5. pc[0] \notin {"open", "listen"}
  <2>1. pc[t] \notin {"open", "listen", "none"}
    BY DEF Signal
  <2>2. CASE t = 0
    BY <2>1, <2>2
  <2>3. CASE t # 0
    <3>1. t \in Pool /\ t > 0
      BY <2>3, ThreadFacts
    <3>2. pc[t] # "none" => ~(t > threads)
      BY <1>2, <3>1 DEF LifeInv, Phases
    <3> QED
      BY <1>2, <2>1, <3>1, <3>2 DEF LifeInv, Phases
  <2> QED
    BY <2>2, <2>3
<1>6. ASSUME t = 0, ~interrupted, pc[0] \in Serving, m_done, ~failed
      PROVE  Quiet \/ \E f \in FramesOf(s) : Joining(f)'
  <2>1. Quiet \/ \E f \in FramesOf(stack[0]) : Joining(f)
    BY <1>2, <1>6 DEF LifeInv, Waited
  <2>2. UNCHANGED <<pc, threads>>
    BY DEF Signal
  <2> QED
    BY <1>3, <1>6, <2>1, <2>2 DEF Joining
<1>7. /\ interrupted' = (interrupted \/ t # 0) /\ interrupted \in BOOLEAN
      /\ UNCHANGED <<threads, ctx, failed, m_done, m_fd>>
      /\ m_done \in BOOLEAN /\ m_fd \in BOOLEAN
  BY DEF Signal, LifeInv, LifeType
<1>8. (t # 0 => interrupted') /\ (t = 0 => interrupted' = interrupted) /\ interrupted' \in BOOLEAN
  BY <1>7
<1> QED
  BY <1>1, <1>2, <1>3, <1>4, <1>5, <1>6, <1>7, <1>8, StackKept

LEMMA SamePlacesKept == LifeInv /\ UNCHANGED pc => SamePlaces
BY DEF LifeInv, LifeType, SamePlaces

LEMMA AfterJoinFacts ==
  ASSUME NEW t, Top(t) \in Frame, Top(t).at # "return"
  PROVE  /\ AfterJoin(t) \in Frame /\ AfterJoin(t).why = Top(t).why /\ FreshFrame(AfterJoin(t))
         /\ AfterJoin(t).at = "return" => Top(t).why = "dtor"
<1>1. PICK f : f = Top(t)
  OBVIOUS
<1>2. AfterJoin(t) = [f EXCEPT !.at = IF f.why = "dtor" THEN "return" ELSE "close"] /\ f \in Frame
  BY <1>1 DEF AfterJoin
<1> QED
  BY <1>1, <1>2 DEF Frame, FreshFrame

LEMMA JoinTestStep == ASSUME LifeInv, NEW t \in Threads, JoinTest(t) PROVE LifeInv'
<1>1. /\ ~Over /\ stack[t] # <<>> /\ Top(t).at = "test"
      /\ UNCHANGED <<threads, ctx, failed, interrupted, m_done, m_fd>>
      /\ m_done \in BOOLEAN /\ SamePlaces
  BY SamePlacesKept DEF JoinTest, Active, LifeInv, LifeType
<1>2. Top(t) \in Frame /\ FreshFrame(Top(t))
  BY <1>1, TopFacts
<1>3. ~Joining(Top(t))
  BY <1>1 DEF Joining
<1>4. CASE Set(t, AfterJoin(t))
  BY <1>1, <1>2, <1>3, <1>4, AfterJoinFacts, TopSet
<1>5. CASE Set(t, [Top(t) EXCEPT !.at = "set"])
  <2>1. PICK f : f = Top(t)
    OBVIOUS
  <2>2. PICK x : x = [f EXCEPT !.at = "set"]
    OBVIOUS
  <2>3. x \in Frame /\ x.why = f.why /\ x.at = "set" /\ FreshFrame(x)
    BY <1>1, <1>2, <2>1, <2>2 DEF Frame, FreshFrame
  <2>4. Set(t, x)
    BY <1>5, <2>1, <2>2
  <2> QED
    BY <1>1, <1>3, <2>1, <2>3, <2>4, TopSet
<1> QED
  BY <1>4, <1>5 DEF JoinTest

LEMMA JoinSetStep == ASSUME LifeInv, NEW t \in Threads, JoinSet(t) PROVE LifeInv'
<1>1. /\ ~Over /\ stack[t] # <<>> /\ Top(t).at = "set" /\ m_done' = TRUE
      /\ UNCHANGED <<threads, ctx, failed, interrupted, m_fd>> /\ SamePlaces
      /\ threads \in 0..MaxThreads
  BY SamePlacesKept DEF JoinSet, Active, LifeInv, LifeType
<1>2. Top(t) \in Frame /\ FreshFrame(Top(t))
  BY <1>1, TopFacts
<1>3. PICK f : f = Top(t)
  OBVIOUS
<1>4. PICK x : x = [f EXCEPT !.at = "join", !.last = threads]
  OBVIOUS
<1>5. /\ x \in Frame /\ x.why = f.why /\ x.at = "join" /\ x.last = threads /\ x.next = 1
      /\ FreshFrame(x)
  BY <1>1, <1>2, <1>3, <1>4 DEF Frame, FreshFrame
<1>6. Joining(x)'
  BY <1>1, <1>5 DEF Joining
<1>7. Set(t, x)
  BY <1>3, <1>4 DEF JoinSet
<1> QED
  BY <1>1, <1>3, <1>5, <1>6, <1>7, TopSet

LEMMA JoinOneStep == ASSUME LifeInv, NEW t \in Threads, JoinOne(t) PROVE LifeInv'
<1>1. /\ ~Over /\ stack[t] # <<>> /\ Top(t).at = "join"
      /\ UNCHANGED <<threads, ctx, failed, interrupted, m_done, m_fd>>
      /\ m_done \in BOOLEAN /\ m_fd \in BOOLEAN /\ ctx \in BOOLEAN /\ failed \in BOOLEAN
      /\ threads \in 0..MaxThreads
  BY DEF JoinOne, Active, LifeInv, LifeType
<1>2. Top(t) \in Frame
  BY <1>1, TopFacts
<1>3. CASE Top(t).next > Top(t).last /\ Set(t, AfterJoin(t)) /\ UNCHANGED pc
  <2>1. Joining(Top(t)) => Quiet
    BY <1>2, <1>3, ThreadFacts DEF Joining, Quiet, Frame
  <2> QED
    BY <1>1, <1>2, <1>3, <2>1, SamePlacesKept, AfterJoinFacts, TopSet
<1>4. CASE /\ Top(t).next <= Top(t).last /\ pc[Top(t).next] = "ended"
           /\ Goto(Top(t).next, "joined") /\ Set(t, [Top(t) EXCEPT !.next = Top(t).next + 1])
  <2>1. PICK f : f = Top(t)
    OBVIOUS
  <2>2. PICK x : x = [f EXCEPT !.next = f.next + 1]
    OBVIOUS
  <2>3. f \in Frame /\ f.next \in Pool
    BY <1>2, <1>4, <2>1, ThreadFacts DEF Frame
  <2>4. SamePlaces
    BY <1>4, <2>1, <2>3, ThreadFacts DEF Goto, SamePlaces, LifeInv, LifeType, Done
  <2>5. /\ x \in Frame /\ x.why = f.why /\ x.at = "join" /\ x.last = f.last /\ x.next = f.next + 1
        /\ FreshFrame(x)
    BY <1>1, <1>4, <2>1, <2>2, <2>3, ThreadFacts DEF Frame, FreshFrame
  <2>6. ASSUME Joining(f) PROVE Joining(x)'
    <3>1. Joining(f)'
      BY <1>1, <2>3, <2>4, <2>6, StillJoining DEF LifeInv
    <3>2. pc'[f.next] = "joined"
      BY <1>4, <2>1, <2>3, ThreadFacts DEF Goto, LifeInv, LifeType
    <3> QED
      BY <1>1, <2>3, <2>5, <3>1, <3>2, ThreadFacts DEF Joining, Done
  <2>7. Set(t, x)
    BY <1>4, <2>1, <2>2
  <2> QED
    BY <1>1, <2>1, <2>4, <2>5, <2>6, <2>7, TopSet
<1>5. CASE Terminate
  BY <1>1, <1>5, Terminated
<1> QED
  BY <1>3, <1>4, <1>5 DEF JoinOne

LEMMA CloseStep ==
  ASSUME LifeInv, NEW t \in Threads, CloseTest(t) \/ CloseFd(t) \/ DestroyReturn PROVE LifeInv'
<1>1. CASE CloseTest(t)
  <2>1. /\ ~Over /\ stack[t] # <<>> /\ Top(t).at = "close" /\ SamePlaces
        /\ UNCHANGED <<threads, ctx, failed, interrupted, m_done, m_fd>>
        /\ m_done \in BOOLEAN /\ m_fd \in BOOLEAN
    BY <1>1, SamePlacesKept DEF CloseTest, Active, LifeInv, LifeType
  <2>2. CASE m_fd /\ Set(t, [Top(t) EXCEPT !.at = "closing"])
    <3>1. PICK f : f = Top(t)
      OBVIOUS
    <3>2. PICK x : x = [f EXCEPT !.at = "closing"]
      OBVIOUS
    <3>3. x \in Frame /\ x.why = f.why /\ x.at = "closing" /\ FreshFrame(x)
      BY <2>1, <3>1, <3>2, TopFacts DEF Frame, FreshFrame
    <3>4. Set(t, x) /\ ~Joining(Top(t))
      BY <2>1, <2>2, <3>1, <3>2 DEF Joining
    <3> QED
      BY <2>1, <3>1, <3>3, <3>4, TopSet
  <2>3. CASE ~m_fd /\ Pop(t)
    BY <2>1, <2>3, TopGone
  <2> QED
    BY <1>1, <2>2, <2>3 DEF CloseTest
<1>2. CASE CloseFd(t)
  <2>1. /\ ~Over /\ stack[t] # <<>> /\ Top(t).at = "closing" /\ m_fd' = FALSE
        /\ UNCHANGED <<threads, ctx, failed, interrupted, m_done>>
        /\ m_done \in BOOLEAN /\ ctx \in BOOLEAN /\ failed \in BOOLEAN
    BY <1>2 DEF CloseFd, Active, LifeInv, LifeType
  <2>2. CASE Pop(t) /\ UNCHANGED pc
    BY <2>1, <2>2, SamePlacesKept, TopGone
  <2>3. CASE Terminate
    BY <2>1, <2>3, Terminated
  <2> QED
    BY <1>2, <2>2, <2>3 DEF CloseFd
<1>3. CASE DestroyReturn
  <2>1. /\ ~Over /\ stack[0] # <<>> /\ Top(0).at = "return" /\ SamePlaces /\ Pop(0)
        /\ UNCHANGED <<threads, ctx, failed, interrupted, m_done, m_fd>>
        /\ m_fd \in BOOLEAN /\ 0 \in Threads
    BY <1>3, SamePlacesKept, ThreadFacts DEF DestroyReturn, Active, LifeInv, LifeType
  <2>2. pc[0] = "free"
    BY <2>1, TopFacts DEF LifeInv, Phases, InPlace
  <2> QED
    BY <2>1, <2>2, TopGone
<1> QED
  BY <1>1, <1>2, <1>3

LEMMA MainLocal ==
  ASSUME LifeInv, NEW l, Goto(0, l), UNCHANGED <<stack, threads, interrupted>>,
         ctx' \in BOOLEAN, m_done' \in BOOLEAN, m_fd' \in BOOLEAN, failed' \in BOOLEAN
  PROVE  LifeType'
BY DEF LifeInv, LifeType, Goto

LEMMA MainStepKeeps == ASSUME LifeInv, MainStep PROVE LifeInv'
<1>0. /\ ctx \in BOOLEAN /\ m_done \in BOOLEAN /\ m_fd \in BOOLEAN /\ failed \in BOOLEAN
      /\ interrupted \in BOOLEAN /\ threads \in 0..MaxThreads
  BY DEF LifeInv, LifeType
<1>1. CASE Open
  <2>1. PICK l \in {"listen", "over"} : Goto(0, l)
    BY <1>1 DEF Open
  <2>2. /\ ~Over /\ stack[0] = <<>> /\ pc[0] = "open" /\ m_fd' \in BOOLEAN
        /\ UNCHANGED <<stack, threads, interrupted, m_done, ctx, failed>>
    BY <1>0, <1>1 DEF Open, Running
  <2>3. ~ctx /\ threads = 0 /\ ~m_done /\ \A t \in Threads : stack[t] = <<>>
    BY <2>2 DEF LifeInv, Phases, Serving
  <2> QED
    BY <1>0, <2>1, <2>2, <2>3, MainLocal, MainMoves DEF MainPlaces, Early, Serving
<1>2. CASE Listen
  <2>1. PICK l \in {"before", "over"} : Goto(0, l)
    BY <1>2 DEF Listen
  <2>2. /\ ~Over /\ stack[0] = <<>> /\ pc[0] = "listen" /\ m_fd' \in BOOLEAN
        /\ UNCHANGED <<stack, threads, interrupted, m_done, ctx, failed>>
    BY <1>0, <1>2 DEF Listen, Running
  <2>3. ~ctx /\ threads = 0 /\ ~m_done
    BY <2>2 DEF LifeInv, Phases, Serving
  <2> QED
    BY <1>0, <2>1, <2>2, <2>3, MainLocal, MainMoves DEF MainPlaces, Early, Serving
<1>3. CASE Run
  <2>1. /\ ~Over /\ stack[0] = <<>> /\ Goto(0, "spawn") /\ m_done' = FALSE /\ ctx' = TRUE
        /\ UNCHANGED <<stack, threads, interrupted, m_fd, failed>>
    BY <1>3 DEF Run, Running
  <2> QED
    BY <1>0, <2>1, MainLocal, MainMoves DEF MainPlaces, Serving
<1>4. CASE Spawn
  <2>1. /\ ~Over /\ stack[0] = <<>> /\ pc[0] = "spawn"
        /\ UNCHANGED <<interrupted, m_done, m_fd, ctx, failed>>
    BY <1>4 DEF Spawn, Running
  <2>2. CASE threads < MaxThreads /\ threads' = threads + 1 /\ Goto(threads + 1, "ctor") /\ UNCHANGED stack
    <3>1. /\ LifeType' /\ Fresh' /\ pc'[0] = pc[0]
          /\ \A t \in Pool : t # threads + 1 => pc'[t] = pc[t]
      BY <1>0, <2>1, <2>2, ThreadFacts DEF LifeInv, LifeType, Fresh, Goto
    <3>2. Phases' /\ ~Over'
      <4>1. Phases
        BY <2>1 DEF LifeInv
      <4>2. \A t \in Pool : t > threads' => pc'[t] = "none"
        BY <1>0, <2>2, <3>1, <4>1, ThreadFacts DEF Phases
      <4>3. \A f \in FramesOf(stack'[0]) : InPlace(f)'
        BY <2>2, <3>1, <4>1 DEF Phases, InPlace
      <4> QED
        BY <2>1, <3>1, <4>1, <4>2, <4>3 DEF Phases, Over
    <3>3. (~interrupted => OnMain') /\ Waited'
      BY <2>1, <2>2, <3>1 DEF LifeInv, OnMain, Waited, Serving
    <3> QED
      BY <2>1, <3>1, <3>2, <3>3 DEF LifeInv
  <2>3. CASE Terminate /\ UNCHANGED threads
    BY <1>0, <2>1, <2>3, Terminated
  <2>4. CASE Goto(0, "ctor") /\ UNCHANGED <<threads, stack>>
    <3>1. ctx /\ (~interrupted => ~(m_done /\ m_fd))
      BY <2>1 DEF LifeInv, Phases, OnMain, Early
    <3> QED
      BY <1>0, <2>1, <2>4, <3>1, MainLocal, MainMoves DEF MainPlaces, Serving
  <2> QED
    BY <1>4, <2>2, <2>3, <2>4 DEF Spawn
<1>5. CASE Destroy
  <2>1. /\ ~Over /\ stack[0] = <<>> /\ pc[0] = "dtor" /\ Goto(0, "free")
        /\ UNCHANGED <<interrupted, m_done, m_fd, ctx, failed, threads>>
        /\ stack' = [stack EXCEPT ![0] = <<Call("dtor")>>]
    BY <1>5 DEF Destroy, Running
  <2>2. Call("dtor") \in Frame /\ FreshFrame(Call("dtor"))
    BY ThreadFacts DEF Call, Frame, FreshFrame
  <2>3. <<Call("dtor")>> \in Seq(Frame) /\ FramesOf(<<Call("dtor")>>) = {Call("dtor")}
    <3>1. PICK x : x = Call("dtor")
      OBVIOUS
    <3>2. x \in Frame
      BY <2>2, <3>1
    <3>3. <<x>> \in Seq(Frame) /\ Len(<<x>>) = 1 /\ <<x>>[1] = x
      BY <3>2
    <3> QED
      BY <3>1, <3>3 DEF FramesOf
  <2>4. LifeType' /\ Fresh'
    BY <2>1, <2>2, <2>3, ThreadFacts DEF LifeInv, LifeType, Fresh, Goto
  <2>5. pc'[0] = "free" /\ \A t \in Pool : pc'[t] = pc[t] /\ stack'[t] = stack[t]
    BY <2>1, ThreadFacts DEF LifeInv, LifeType, Goto
  <2>6. Phases'
    BY <2>1, <2>5 DEF LifeInv, Phases, InPlace, MainPlaces, Serving
  <2>7. ~interrupted => OnMain'
    BY <2>1, <2>5 DEF LifeInv, OnMain, Early
  <2>8. ~interrupted /\ ~failed => Waited'
    <3>1. ~interrupted /\ ~failed => Quiet
      BY <2>1 DEF LifeInv, Waited
    <3>2. Quiet => Quiet'
      BY <2>1, <2>5, <1>0, ThreadFacts DEF Quiet
    <3> QED
      BY <2>5, <3>1, <3>2 DEF Waited, Serving
  <2> QED
    BY <2>1, <2>4, <2>6, <2>7, <2>8 DEF LifeInv
<1>6. CASE DestroyReturn
  BY <1>6, CloseStep, ThreadFacts
<1>7. CASE Free
  <2>1. /\ ~Over /\ stack[0] = <<>> /\ UNCHANGED <<interrupted, m_done, m_fd, ctx, failed, threads>>
        /\ (Goto(0, "over") /\ UNCHANGED stack) \/ Terminate
    BY <1>7 DEF Free, Running
  <2> QED
    BY <1>0, <2>1, MainLocal, MainMoves, Terminated DEF MainPlaces
<1> QED
  BY <1>1, <1>2, <1>3, <1>4, <1>5, <1>6, <1>7 DEF MainStep

(* A thread goes on inside its worker. *)
LEMMA WorkerMoves ==
  ASSUME LifeInv, NEW t \in Threads, Running(t), pc[t] \in Serving, NEW l \in Serving, Goto(t, l),
         UNCHANGED <<stack, threads, interrupted, failed, m_done, m_fd>>, ctx' = ctx
  PROVE  LifeInv'
<1>1. ~Over /\ stack[t] = <<>>
  BY DEF Running
<1>2. CASE t = 0
  <2>1. /\ ctx \in BOOLEAN /\ m_done \in BOOLEAN /\ m_fd \in BOOLEAN /\ failed \in BOOLEAN
    BY DEF LifeInv, LifeType
  <2>2. ctx /\ (~interrupted /\ ~failed /\ m_done => Quiet)
    BY <1>1, <1>2, NoFrames DEF LifeInv, Phases, Waited
  <2> QED
    BY <1>1, <1>2, <2>1, <2>2, MainLocal, MainMoves DEF MainPlaces, Serving, Early
<1>3. CASE t # 0
  <2>1. t \in Pool /\ pc[t] \notin Done \cup {"none"}
    BY <1>3, ThreadFacts DEF Done, Serving
  <2> QED
    BY <1>1, <2>1, PoolMoves
<1> QED
  BY <1>2, <1>3

LEMMA ErrorStep ==
  ASSUME LifeInv, NEW t \in Threads, Running(t), ServerError(t),
         UNCHANGED <<threads, interrupted, m_done, m_fd>>
  PROVE  LifeInv'
<1>1. /\ ctx \in BOOLEAN /\ m_done \in BOOLEAN /\ m_fd \in BOOLEAN /\ failed \in BOOLEAN
      /\ ~Over /\ stack[t] = <<>>
  BY DEF LifeInv, LifeType, Running
<1>2. CASE t = 0
  BY <1>1, <1>2, MainLocal, MainMoves DEF MainPlaces, ServerError, Serving, Early
<1>3. CASE t # 0
  BY <1>1, <1>3, Terminated DEF ServerError
<1> QED
  BY <1>2, <1>3

LEMMA WorkerStepKeeps ==
  ASSUME LifeInv, NEW t \in Threads,
         \/ WorkerNew(t) \/ LoopTest(t) \/ Wake(t) \/ WorkerFails(t)
         \/ Validate(t) \/ CopyStatus(t) \/ FindFile(t) \/ Sent(t)
         \/ \E m \in Messages : Request(t, m)
  PROVE  LifeInv'
<1>0. ctx \in BOOLEAN /\ m_done \in BOOLEAN /\ m_fd \in BOOLEAN /\ failed \in BOOLEAN
  BY DEF LifeInv, LifeType
<1>1. CASE WorkerNew(t)
  <2>1. Running(t) /\ pc[t] = "ctor" /\ UNCHANGED <<threads, interrupted, m_done, m_fd>>
    BY <1>1 DEF WorkerNew
  <2>2. CASE m_fd /\ Goto(t, "test") /\ UNCHANGED <<stack, ctx, failed>>
    <3>1. CASE t = 0
      <4>1. /\ ~Over /\ stack[0] = <<>> /\ ctx /\ (~interrupted => ~m_done)
        BY <2>1, <2>2, <3>1 DEF Running, LifeInv, Phases, OnMain, Early
      <4> QED
        BY <1>0, <2>1, <2>2, <3>1, <4>1, MainLocal, MainMoves DEF MainPlaces, Serving, Early
    <3>2. CASE t # 0
      BY <2>1, <2>2, <3>2, PoolMoves, ThreadFacts DEF Running, Done
    <3> QED
      BY <3>1, <3>2
  <2>3. CASE ServerError(t)
    BY <2>1, <2>3, ErrorStep
  <2> QED
    BY <1>1, <2>2, <2>3 DEF WorkerNew
<1>2. CASE LoopTest(t)
  <2>1. /\ Running(t) /\ pc[t] = "test" /\ ctx' = (ctx /\ ~(m_done /\ t = 0))
        /\ Goto(t, IF ~m_done THEN "wait" ELSE IF t = 0 THEN "dtor" ELSE "ended")
        /\ UNCHANGED <<stack, threads, interrupted, failed, m_done, m_fd>>
    BY <1>2 DEF LoopTest
  <2>2. CASE ~m_done
    <3>1. ctx' = ctx
      BY <1>0, <2>1, <2>2
    <3>2. Goto(t, "wait")
      BY <2>1, <2>2
    <3> QED
      BY <2>1, <3>1, <3>2, WorkerMoves DEF Serving
  <2>3. CASE m_done /\ t = 0
    <3>1. ctx' = FALSE /\ Goto(0, "dtor")
      BY <2>1, <2>3
    <3>2. ~Over /\ stack[0] = <<>>
      BY <2>1, <2>3 DEF Running
    <3>3. ~interrupted /\ ~failed => Quiet
      BY <2>1, <2>3, <3>2, NoFrames DEF LifeInv, Waited, Serving
    <3> QED
      BY <1>0, <2>1, <3>1, <3>2, <3>3, MainLocal, MainMoves DEF MainPlaces, Serving, Early
  <2>4. CASE m_done /\ t # 0
    <3>1. ctx' = ctx
      BY <1>0, <2>1, <2>4
    <3>2. Goto(t, "ended")
      BY <2>1, <2>4
    <3> QED
      BY <2>1, <2>4, <3>1, <3>2, PoolMoves, ThreadFacts DEF Running, Done
  <2> QED
    BY <2>2, <2>3, <2>4
<1>3. CASE WorkerFails(t)
  BY <1>3, ErrorStep DEF WorkerFails
<1>4. CASE Wake(t) \/ Validate(t) \/ CopyStatus(t) \/ FindFile(t) \/ Sent(t)
  <2>1. /\ Running(t) /\ pc[t] \in Serving /\ \E l \in Serving : Goto(t, l)
        /\ UNCHANGED <<stack, threads, interrupted, failed, m_done, m_fd, ctx>>
    BY <1>4 DEF Wake, Validate, CopyStatus, FindFile, Sent, Serving
  <2> QED
    BY <2>1, WorkerMoves
<1>5. ASSUME NEW m \in Messages, Request(t, m) PROVE LifeInv'
  <2>1. /\ Running(t) /\ pc[t] = "wait"
        /\ UNCHANGED <<threads, interrupted, failed, m_done, m_fd, ctx>>
        /\ Terminate \/ (UNCHANGED stack /\ \E l \in {"hung", "validate"} : Goto(t, l))
    BY <1>5 DEF Request
  <2>2. CASE Terminate
    BY <1>0, <2>1, <2>2, Terminated
  <2>3. CASE UNCHANGED stack /\ \E l \in {"hung", "validate"} : Goto(t, l)
    BY <2>1, <2>3, WorkerMoves DEF Serving
  <2> QED
    BY <2>1, <2>2, <2>3
<1> QED
  BY <1>1, <1>2, <1>3, <1>4, <1>5

LEMMA LifeStep == LifeInv /\ [Next]_vars => LifeInv'
<1> SUFFICES ASSUME LifeInv, [Next]_vars PROVE LifeInv'
  OBVIOUS
<1>1. ASSUME NEW t \in Threads, ThreadStep(t) PROVE LifeInv'
  BY <1>1, WorkerStepKeeps, JoinTestStep, JoinSetStep, JoinOneStep, CloseStep DEF ThreadStep
<1>2. CASE UNCHANGED vars
  BY <1>2 DEF vars, lifeVars, LifeInv, LifeType, Fresh, Phases, InPlace, OnMain, Waited, Quiet,
              Joining, Over
<1> QED
  BY <1>1, <1>2, MainStepKeeps, WorkerStepKeeps, SignalStep DEF Next

THEOREM LifeInvariant == Spec => []LifeInv
BY LifeInit, LifeStep, PTL DEF Spec

(* run() does not return, and take its HandlerContext with it, under a worker *)
(* that still refers to it, as long as it returns by itself and every signal  *)
(* reaches main.                                                              *)
THEOREM CtxOutlives == Spec => []CtxOutlivesWorkers
<1>1. ASSUME LifeInv, NEW t \in Pool, ~ctx, ~Over, ~failed, ~interrupted,
             pc[t] \in {"test", "wait", "validate", "copy", "file", "sent"}
      PROVE  FALSE
  <2>1. t \in 1..threads
    BY <1>1, ThreadFacts DEF LifeInv, Phases, LifeType
  <2>2. pc[0] \in {"dtor", "free"} => Quiet
    BY <1>1 DEF LifeInv, Waited
  <2>3. ~Quiet
    BY <1>1, <2>1 DEF Quiet, Done
  <2>4. pc[0] \in {"open", "listen", "before"} => FALSE
    BY <1>1, <2>1 DEF LifeInv, Phases
  <2> QED
    BY <1>1, <2>2, <2>3, <2>4 DEF LifeInv, Phases, MainPlaces
<1>2. LifeInv => CtxOutlivesWorkers
  BY <1>1 DEF CtxOutlivesWorkers
<1> QED
  BY <1>2, LifeInvariant, PTL

-----------------------------------------------------------------------------
(* Requests and the status that all threads share.  That parsing understands  *)
(* the messages is shown at the end, by MessagesUnderstood.                   *)
Understood ==
  \A m \in Messages : HttpRequestOf[m].how # "throws" => ReadAs(m, HttpRequestOf[m])

Answering == {"validate", "copy", "file", "sent"}
Fields == {"message", "status", "file"}

Asked(t) == request[t].message \in Messages /\ HttpRequestOf[request[t].message].how # "throws"

(* What RefusedNeverOk says of one thread. *)
Sound(t) ==
  request[t].message # Nothing =>
    LET m == request[t].message
    IN  /\ Refused(m) => request[t].status # "200"
        /\ request[t].file => request[t].status = "200" /\ m.method = GET /\ m.path \in Files

(* A refusal stays in m_status from the check to the answer. *)
Progress(t) ==
  /\ pc[t] \in Answering => Asked(t)
  /\ pc[t] \in {"copy", "file", "sent"} => (Refused(request[t].message) => m_status # "200")
  /\ pc[t] \notin {"file", "sent"} => request[t].status = "none" /\ ~request[t].file
  /\ pc[t] = "file" => (request[t].status # "200" => m_status # "200") /\ ~request[t].file

RequestInv ==
  /\ DOMAIN request = Threads
  /\ \A t \in Threads : DOMAIN request[t] = Fields /\ Sound(t)
  /\ ~Over => \A t \in Threads : Progress(t)

(* m_status is never set to 200 again. *)
Stuck == m_status # "200" => m_status' # "200"

LEMMA RequestInit == Init => RequestInv
<1> SUFFICES ASSUME Init PROVE RequestInv
  OBVIOUS
<1>1. \A t \in Threads : request[t] = NoRequest /\ pc[t] \in {"open", "none"}
  BY DEF Init
<1>2. DOMAIN NoRequest = Fields /\ NoRequest.message = Nothing /\ NoRequest.status = "none" /\ ~NoRequest.file
  BY DEF NoRequest, Fields
<1> QED
  BY <1>1, <1>2 DEF Init, RequestInv, Sound, Progress, Answering

LEMMA NoAnswer ==
  ASSUME RequestInv, UNCHANGED <<request, m_status>>,
         \/ Over'
         \/ /\ ~Over
            /\ \A t \in Threads :
                 pc'[t] = pc[t] \/ (pc[t] \notin {"file", "sent"} /\ pc'[t] \notin Answering)
  PROVE  RequestInv'
<1>1. \A t \in Threads : Sound(t)'
  BY DEF RequestInv, Sound
<1>2. CASE Over'
  BY <1>1, <1>2 DEF RequestInv
<1>3. CASE ~Over'
  <2>1. ASSUME NEW t \in Threads PROVE Progress(t)'
    <3>1. Progress(t)
      BY <1>3 DEF RequestInv
    <3>2. CASE pc'[t] = pc[t]
      BY <3>1, <3>2 DEF Progress, Asked
    <3>3. CASE pc[t] \notin {"file", "sent"} /\ pc'[t] \notin Answering
      BY <3>1, <3>3 DEF Progress, Answering
    <3> QED
      BY <1>3, <3>2, <3>3
  <2> QED
    BY <1>1, <2>1 DEF RequestInv
<1> QED
  BY <1>2, <1>3

LEMMA OneAnswers ==
  ASSUME RequestInv, LifeInv, NEW t \in Threads, Running(t), NEW l, Goto(t, l), Stuck,
         DOMAIN request' = Threads, \A u \in Threads : u # t => request'[u] = request[u],
         DOMAIN request'[t] = Fields, Sound(t)', Progress(t)'
  PROVE  RequestInv'
<1>1. ~Over
  BY DEF Running
<1>2. ASSUME NEW u \in Threads, u # t PROVE Sound(u)' /\ Progress(u)' /\ DOMAIN request'[u] = Fields
  <2>1. pc'[u] = pc[u] /\ request'[u] = request[u]
    BY <1>2 DEF Goto, LifeInv, LifeType
  <2>2. Sound(u) /\ Progress(u) /\ DOMAIN request[u] = Fields
    BY <1>1 DEF RequestInv
  <2>3. Sound(u)'
    BY <2>1, <2>2 DEF Sound
  <2>4. Progress(u)'
    BY <2>1, <2>2 DEF Progress, Asked, Stuck
  <2> QED
    BY <2>1, <2>2, <2>3, <2>4
<1> QED
  BY <1>2 DEF RequestInv

LEMMA RequestStep ==
  ASSUME RequestInv, LifeInv, NEW t \in Threads, NEW m \in Messages, Request(t, m)
  PROVE  RequestInv'
<1>1. Running(t) /\ pc[t] = "wait" /\ UNCHANGED m_status /\ ~Over
  BY DEF Request, Running
<1>2. CASE Terminate /\ UNCHANGED request
  BY <1>1, <1>2, NoAnswer, ThreadFacts DEF Terminate, Over
<1>3. CASE /\ HttpRequestOf[m].how # "throws" /\ request' = [request EXCEPT ![t].message = m]
           /\ Goto(t, IF HttpRequestOf[m].how = "hangs" THEN "hung" ELSE "validate")
  <2>1. PICK l \in {"hung", "validate"} : Goto(t, l)
    BY <1>3
  <2>2. pc'[t] = l
    BY <2>1 DEF Goto, LifeInv, LifeType
  <2>3. Progress(t) /\ DOMAIN request = Threads /\ DOMAIN request[t] = Fields
    BY <1>1 DEF RequestInv
  <2>4. /\ DOMAIN request' = Threads /\ \A u \in Threads : u # t => request'[u] = request[u]
        /\ DOMAIN request'[t] = Fields /\ request'[t].message = m
        /\ request'[t].status = request[t].status /\ request'[t].file = request[t].file
    BY <1>3, <2>3 DEF Fields
  <2>5. request'[t].status = "none" /\ ~request'[t].file
    BY <1>1, <2>3, <2>4 DEF Progress
  <2>6. Sound(t)' /\ Progress(t)'
    BY <1>3, <2>2, <2>4, <2>5 DEF Sound, Progress, Asked, Answering
  <2> QED
    BY <1>1, <2>1, <2>4, <2>6, OneAnswers DEF Stuck
<1> QED
  BY <1>2, <1>3 DEF Request

LEMMA VerdictStuck ==
  ASSUME NEW r, NEW status
  PROVE  /\ status # "200" => Verdict(r, status) # "200"
         /\ Checked(r, "200") # "200" => Verdict(r, status) # "200"
BY DEF Verdict, Checked

LEMMA ValidateStep ==
  ASSUME Understood, RequestInv, LifeInv, NEW t \in Threads, Validate(t)
  PROVE  RequestInv'
<1>1. /\ Running(t) /\ pc[t] = "validate" /\ UNCHANGED request /\ ~Over /\ Goto(t, "copy")
      /\ m_status' = Verdict(HttpRequestOf[request[t].message], m_status)
  BY DEF Validate, Running
<1>2. pc'[t] = "copy"
  BY <1>1 DEF Goto, LifeInv, LifeType
<1>3. Progress(t) /\ Sound(t) /\ DOMAIN request = Threads /\ DOMAIN request[t] = Fields
  BY <1>1 DEF RequestInv
<1>4. Asked(t)
  BY <1>1, <1>3 DEF Progress, Answering
<1>5. Stuck /\ (Refused(request[t].message) => m_status' # "200")
  BY <1>1, <1>4, VerdictStuck DEF Stuck, Understood, ReadAs, Asked
<1>6. Sound(t)' /\ Progress(t)'
  BY <1>1, <1>2, <1>3, <1>4, <1>5 DEF Sound, Progress, Asked
<1> QED
  BY <1>1, <1>3, <1>5, <1>6, OneAnswers

LEMMA CopyStep ==
  ASSUME RequestInv, LifeInv, NEW t \in Threads, CopyStatus(t)
  PROVE  RequestInv'
<1>1. /\ Running(t) /\ pc[t] = "copy" /\ ~Over /\ Goto(t, "file") /\ UNCHANGED m_status
      /\ request' = [request EXCEPT ![t].status = m_status]
  BY DEF CopyStatus, Running
<1>2. pc'[t] = "file"
  BY <1>1 DEF Goto, LifeInv, LifeType
<1>3. Progress(t) /\ DOMAIN request = Threads /\ DOMAIN request[t] = Fields
  BY <1>1 DEF RequestInv
<1>4. /\ DOMAIN request' = Threads /\ \A u \in Threads : u # t => request'[u] = request[u]
      /\ DOMAIN request'[t] = Fields /\ request'[t].message = request[t].message
      /\ request'[t].status = m_status /\ request'[t].file = request[t].file
  BY <1>1, <1>3 DEF Fields
<1>5. /\ Asked(t) /\ ~request'[t].file
      /\ Refused(request[t].message) => m_status # "200"
  BY <1>1, <1>3, <1>4 DEF Progress, Answering
<1>6. Sound(t)' /\ Progress(t)'
  BY <1>1, <1>2, <1>4, <1>5 DEF Sound, Progress, Asked
<1> QED
  BY <1>1, <1>4, <1>6, OneAnswers DEF Stuck

LEMMA FindFileStep ==
  ASSUME Understood, RequestInv, LifeInv, NEW t \in Threads, FindFile(t)
  PROVE  RequestInv'
<1> DEFINE m == request[t].message
           r == HttpRequestOf[m]
           found == m_status' = "200" /\ r.method = <<GET>>
<1>1. /\ Running(t) /\ pc[t] = "file" /\ ~Over /\ Goto(t, "sent")
      /\ request' = [request EXCEPT ![t].file = found]
      /\ m_status' = IF m_status # "200" \/ r.path \in Files THEN m_status
                     ELSE IF r.path \in Directories THEN "403" ELSE "404"
  BY DEF FindFile, Running
<1>2. pc'[t] = "sent"
  BY <1>1 DEF Goto, LifeInv, LifeType
<1>3. Progress(t) /\ Sound(t) /\ DOMAIN request = Threads /\ DOMAIN request[t] = Fields
  BY <1>1 DEF RequestInv
<1>4. /\ DOMAIN request' = Threads /\ \A u \in Threads : u # t => request'[u] = request[u]
      /\ DOMAIN request'[t] = Fields /\ request'[t].message = m
      /\ request'[t].status = request[t].status /\ request'[t].file = found
  BY <1>1, <1>3 DEF Fields
<1>5. /\ Asked(t) /\ (request[t].status # "200" => m_status # "200")
      /\ Refused(m) => m_status # "200"
  BY <1>1, <1>3 DEF Progress, Answering
<1>6. ReadAs(m, r)
  BY <1>5 DEF Understood, Asked
<1>7. Stuck
  BY <1>1 DEF Stuck
<1>8. ASSUME request'[t].file PROVE request[t].status = "200" /\ m.method = GET /\ m.path \in Files
  <2>1. m_status' = "200" /\ r.method = <<GET>>
    BY <1>4, <1>8
  <2>2. m_status = "200" /\ r.path \in Files
    BY <1>1, <2>1
  <2>3. r.method = <<m.method>> /\ m.path \in Files
    BY <1>6, <2>2 DEF ReadAs
  <2> QED
    BY <1>5, <2>1, <2>2, <2>3
<1>9. Sound(t)' /\ Progress(t)'
  <2>1. Sound(t)'
    BY <1>3, <1>4, <1>8 DEF Sound
  <2>2. Asked(t)' /\ (Refused(m) => m_status' # "200")
    BY <1>4, <1>5, <1>7 DEF Asked, Stuck
  <2> QED
    BY <1>2, <1>4, <2>1, <2>2 DEF Progress
<1> QED
  BY <1>1, <1>4, <1>7, <1>9, OneAnswers

LEMMA SentStep ==
  ASSUME RequestInv, LifeInv, NEW t \in Threads, Sent(t)
  PROVE  RequestInv'
<1>1. /\ Running(t) /\ ~Over /\ Goto(t, "test") /\ UNCHANGED m_status
      /\ request' = [request EXCEPT ![t] = NoRequest]
  BY DEF Sent, Running
<1>2. pc'[t] = "test" /\ DOMAIN request = Threads
  BY <1>1 DEF Goto, LifeInv, LifeType, RequestInv
<1>3. /\ DOMAIN request' = Threads /\ \A u \in Threads : u # t => request'[u] = request[u]
      /\ request'[t] = NoRequest
  BY <1>1, <1>2
<1>4. DOMAIN NoRequest = Fields /\ NoRequest.message = Nothing /\ NoRequest.status = "none" /\ ~NoRequest.file
  BY DEF NoRequest, Fields
<1>5. Sound(t)' /\ Progress(t)'
  BY <1>2, <1>3, <1>4 DEF Sound, Progress, Answering
<1> QED
  BY <1>1, <1>3, <1>4, <1>5, OneAnswers DEF Stuck

(* The steps in which no request is handled. *)
LEMMA OtherSteps ==
  ASSUME RequestInv, LifeInv, UNCHANGED requestVars,
         \/ MainStep
         \/ \E t \in Threads :
              \/ WorkerNew(t) \/ LoopTest(t) \/ Wake(t) \/ WorkerFails(t)
              \/ JoinTest(t) \/ JoinSet(t) \/ JoinOne(t) \/ CloseTest(t) \/ CloseFd(t)
              \/ \E sig \in Signals : Signal(t, sig)
  PROVE  RequestInv'
<1>1. UNCHANGED <<request, m_status>>
  BY DEF requestVars
<1>2. ASSUME Terminate PROVE RequestInv'
  BY <1>1, <1>2, NoAnswer, ThreadFacts DEF Terminate, Over
<1>3. ASSUME ~Over, UNCHANGED pc PROVE RequestInv'
  BY <1>1, <1>3, NoAnswer
<1>4. ASSUME ~Over, NEW t \in Threads, NEW l, pc[t] \notin {"file", "sent"}, l \notin Answering,
             Goto(t, l)
      PROVE  RequestInv'
  <2>1. \A u \in Threads : pc'[u] = pc[u] \/ (pc[u] \notin {"file", "sent"} /\ pc'[u] \notin Answering)
    BY <1>4 DEF Goto, LifeInv, LifeType
  <2> QED
    BY <1>1, <1>4, <2>1, NoAnswer
<1>5. CASE MainStep
  <2>1. CASE Open \/ Listen \/ Run \/ Destroy \/ DestroyReturn \/ Free
    <3>1. ~Over /\ 0 \in Threads
      BY <2>1, ThreadFacts DEF Open, Listen, Run, Destroy, DestroyReturn, Free, Running, Active
    <3>2. CASE Open
      BY <1>4, <3>1, <3>2 DEF Open, Answering
    <3>3. CASE Listen
      BY <1>4, <3>1, <3>3 DEF Listen, Answering
    <3>4. CASE Run
      BY <1>4, <3>1, <3>4 DEF Run, Answering
    <3>5. CASE Destroy
      BY <1>4, <3>1, <3>5 DEF Destroy, Answering
    <3>6. CASE DestroyReturn
      BY <1>3, <3>1, <3>6 DEF DestroyReturn
    <3>7. CASE Free
      BY <1>2, <1>4, <3>1, <3>7 DEF Free, Answering
    <3> QED
      BY <2>1, <3>2, <3>3, <3>4, <3>5, <3>6, <3>7
  <2>2. CASE Spawn
    <3>1. ~Over /\ 0 \in Threads /\ pc[0] = "spawn"
      BY <2>2, ThreadFacts DEF Spawn, Running
    <3>2. CASE threads < MaxThreads /\ Goto(threads + 1, "ctor")
      <4>1. threads + 1 \in Pool /\ threads + 1 > threads
        BY <3>2, ThreadFacts DEF LifeInv, LifeType
      <4>2. pc[threads + 1] = "none"
        BY <3>1, <4>1 DEF LifeInv, Phases
      <4> QED
        BY <1>4, <3>1, <3>2, <4>1, <4>2, ThreadFacts DEF Answering
    <3>3. CASE Terminate
      BY <1>2, <3>3
    <3>4. CASE Goto(0, "ctor")
      BY <1>4, <3>1, <3>4 DEF Answering
    <3> QED
      BY <2>2, <3>2, <3>3, <3>4 DEF Spawn
  <2> QED
    BY <1>5, <2>1, <2>2 DEF MainStep
<1>6. ASSUME NEW t \in Threads, WorkerNew(t) \/ LoopTest(t) \/ Wake(t) \/ WorkerFails(t)
      PROVE  RequestInv'
  <2>1. /\ ~Over /\ pc[t] \in {"ctor", "test", "wait"}
        /\ Terminate \/ \E l \in {"test", "wait", "dtor", "ended"} : Goto(t, l)
    BY <1>6 DEF WorkerNew, LoopTest, Wake, WorkerFails, ServerError, Running
  <2> QED
    BY <1>2, <1>4, <2>1 DEF Answering
<1>7. ASSUME NEW t \in Threads, JoinTest(t) \/ JoinSet(t) \/ CloseTest(t) \/ CloseFd(t)
      PROVE  RequestInv'
  BY <1>2, <1>3, <1>7 DEF JoinTest, JoinSet, CloseTest, CloseFd, Active
<1>8. ASSUME NEW t \in Threads, JoinOne(t) PROVE RequestInv'
  <2>1. ~Over /\ stack[t] # <<>>
    BY <1>8 DEF JoinOne, Active
  <2>2. CASE /\ Top(t).next <= Top(t).last /\ pc[Top(t).next] = "ended" /\ Goto(Top(t).next, "joined")
    <3>1. Top(t).next \in Threads
      BY <2>1, <2>2, TopFacts, ThreadFacts DEF Frame
    <3> QED
      BY <1>4, <2>1, <2>2, <3>1 DEF Answering
  <2> QED
    BY <1>2, <1>3, <1>8, <2>1, <2>2 DEF JoinOne
<1>9. ASSUME NEW t \in Threads, NEW sig \in Signals, Signal(t, sig) PROVE RequestInv'
  BY <1>3, <1>9 DEF Signal
<1> QED
  BY <1>5, <1>6, <1>7, <1>8, <1>9

LEMMA RequestKept == Understood /\ LifeInv /\ RequestInv /\ [Next]_vars => RequestInv'
<1> SUFFICES ASSUME Understood, LifeInv, RequestInv, [Next]_vars PROVE RequestInv'
  OBVIOUS
<1>1. CASE MainStep
  BY <1>1, OtherSteps DEF MainStep, Open, Listen, Run, Spawn, Destroy, DestroyReturn, Free
<1>2. ASSUME NEW t \in Threads,
             \/ WorkerNew(t) \/ LoopTest(t) \/ Wake(t) \/ WorkerFails(t)
             \/ JoinTest(t) \/ JoinSet(t) \/ JoinOne(t) \/ CloseTest(t) \/ CloseFd(t)
             \/ \E sig \in Signals : Signal(t, sig)
      PROVE  RequestInv'
  <2>1. UNCHANGED requestVars
    BY <1>2 DEF WorkerNew, LoopTest, Wake, WorkerFails, JoinTest, JoinSet, JoinOne, CloseTest,
                CloseFd, Signal
  <2> QED
    BY <1>2, <2>1, OtherSteps
<1>3. CASE UNCHANGED vars
  <2>1. UNCHANGED <<request, m_status, pc>> /\ (Over' <=> Over)
    BY <1>3 DEF vars, lifeVars, requestVars, Over
  <2> QED
    BY <2>1, NoAnswer
<1> QED
  BY <1>1, <1>2, <1>3, RequestStep, ValidateStep, CopyStep, FindFileStep, SentStep
  DEF Next, ThreadStep

-----------------------------------------------------------------------------
(* Who waits for whom when the threads are joined.                            *)

(* A call of join_threads() that has come to a thread has seen the end of     *)
(* those before it; only main runs the destructor.                            *)
FrameOk(t, f) ==
  /\ t # 0 => f.why # "dtor" /\ f.at # "return"
  /\ f.at = "join" => f.last <= threads /\ \A j \in 1..f.next - 1 : pc[j] \in Done

Working == {"ctor"} \cup Serving

JoinInv ==
  ~Over =>
    /\ \A t \in Threads : \A f \in FramesOf(stack[t]) : FrameOk(t, f)
    /\ \A t \in Pool : stack[t] # <<>> => pc[t] \in Working
    /\ \A t \in 1..threads : pc[t] \in Working \cup Done

(* The guards of a thread's steps, those of main's own among them.            *)
ThreadOpen(t) ==
  \/ /\ stack[t] = <<>>
     /\ \/ pc[t] \in {"ctor", "test", "validate", "copy", "file", "sent"}
        \/ pc[t] = "wait" /\ timed
        \/ t = 0 /\ pc[t] \in {"open", "listen", "before", "spawn", "dtor", "free"}
  \/ /\ stack[t] # <<>>
     /\ \/ Top(t).at \in {"test", "set", "close", "closing"}
        \/ t = 0 /\ Top(t).at = "return"
        \/ /\ Top(t).at = "join"
           /\ Top(t).next > Top(t).last \/ Top(t).next = t \/ pc[Top(t).next] \in Done

(* t waits in join_threads() for thread i.                                    *)
WaitsFor(t, i) == stack[t] # <<>> /\ Top(t).at = "join" /\ Top(t).next = i

(* Whatever the handlers interrupt and however many of them join the threads  *)
(* at once, a thread waits for one with a smaller number, or it is main: the  *)
(* waits form no circle, and until the process is over some thread can step,  *)
(* unless a worker was given %00 to unescape or there are no timeouts.        *)
JoinsInOrder ==
  ~Over =>
    /\ \A t \in Threads :
         \/ ThreadOpen(t) \/ pc[t] \in Done \cup {"none"}
         \/ stack[t] = <<>> /\ (pc[t] = "hung" \/ (pc[t] = "wait" /\ ~timed))
         \/ \E i \in 1..threads : WaitsFor(t, i) /\ pc[i] \in Working /\ (t = 0 \/ i < t)
    /\ \/ \E t \in Threads : ThreadOpen(t) \/ pc[t] = "hung"
       \/ ~timed

(* Every step keeps that. *)
LEMMA JoinInit == Init => JoinInv
<1> SUFFICES ASSUME Init PROVE JoinInv
  OBVIOUS
<1>1. threads = 0 /\ \A t \in Threads : stack[t] = <<>>
  BY DEF Init
<1>2. \A t \in Threads : FramesOf(stack[t]) = {}
  BY <1>1, NoFrames
<1>3. 1..threads = {}
  BY <1>1
<1> QED
  BY <1>1, <1>2, <1>3, ThreadFacts DEF JoinInv

(* What a step must leave as it was, or put right. *)
LEMMA JoinKept ==
  ASSUME LifeInv, JoinInv, ~Over, threads' \in Nat, threads <= threads',
         \A j \in Pool : pc[j] \in Done => pc'[j] \in Done,
         \A t \in Threads : \A f \in FramesOf(stack'[t]) :
           f \in FramesOf(stack[t]) \/ FrameOk(t, f)',
         \A t \in Pool : stack'[t] # <<>> => pc'[t] \in Working,
         \A t \in 1..threads' : pc'[t] \in Working \cup Done
  PROVE  JoinInv'
<1>1. ASSUME NEW t \in Threads, NEW f \in FramesOf(stack[t]) PROVE FrameOk(t, f)'
  <2>1. FrameOk(t, f)
    BY DEF JoinInv
  <2>2. f \in Frame
    BY DEF LifeInv, LifeType, FramesOf
  <2>3. f.last \in Nat /\ f.next \in 1..MaxThreads + 1 /\ threads \in Nat
    BY <2>2, ThreadFacts DEF Frame, LifeInv, LifeType
  <2>4. f.last <= threads => f.last <= threads'
    BY <2>3
  <2>5. \A j \in 1..f.next - 1 : j \in Pool
    BY <2>3, ThreadFacts
  <2> QED
    BY <2>1, <2>4, <2>5 DEF FrameOk
<1> QED
  BY <1>1 DEF JoinInv

(* The end of the process. *)
LEMMA JoinOver == ASSUME Terminate \/ Over' PROVE JoinInv'
BY ThreadFacts DEF Terminate, Over, JoinInv

(* A thread moves, with nothing on its stack. *)
LEMMA JoinMoves ==
  ASSUME LifeInv, JoinInv, ~Over, NEW t \in Threads, NEW l, Goto(t, l), stack[t] = <<>>,
         UNCHANGED <<stack, threads>>,
         t # 0 => pc[t] \notin Done /\ l \in Working \cup Done
  PROVE  JoinInv'
<1>1. \A j \in Threads : pc'[j] = IF j = t THEN l ELSE pc[j]
  BY DEF Goto, LifeInv, LifeType
<1>2. threads \in Nat /\ 1..threads \subseteq Pool
  BY ThreadFacts DEF LifeInv, LifeType
<1>3. \A j \in Pool : pc[j] \in Done => pc'[j] \in Done
  BY <1>1, ThreadFacts
<1>4. \A u \in Pool : stack'[u] # <<>> => pc'[u] \in Working
  BY <1>1, ThreadFacts DEF JoinInv
<1>5. \A u \in 1..threads' : pc'[u] \in Working \cup Done
  BY <1>1, <1>2, ThreadFacts DEF JoinInv
<1> QED
  BY <1>2, <1>3, <1>4, <1>5, JoinKept

(* A thread goes on in join_threads() or close(), one of the others having    *)
(* been joined or not.                                                        *)
LEMMA JoinSteps ==
  ASSUME LifeInv, JoinInv, ~Over, NEW t \in Threads, stack[t] # <<>>,
         UNCHANGED threads,
         UNCHANGED pc \/ \E i \in Pool : pc[i] = "ended" /\ Goto(i, "joined"),
         Pop(t) \/ \E x \in Frame : Set(t, x) /\ FrameOk(t, x)'
  PROVE  JoinInv'
<1>1. \A j \in Pool : /\ pc[j] \in Done <=> pc'[j] \in Done
                      /\ pc'[j] # pc[j] => pc[j] = "ended"
  BY ThreadFacts DEF Done, Goto, LifeInv, LifeType
<1>2. threads \in Nat /\ 1..threads \subseteq Pool
  BY ThreadFacts DEF LifeInv, LifeType
<1>3. /\ FramesOf(stack[t]) = {Top(t)} \cup FramesOf(Tail(stack[t]))
      /\ Tail(stack[t]) \in Seq(Frame)
  BY TopFacts
<1>4. ASSUME NEW u \in Threads, NEW f \in FramesOf(stack'[u])
      PROVE  f \in FramesOf(stack[u]) \/ FrameOk(u, f)'
  <2>1. CASE u # t
    BY <2>1 DEF Set, Pop, LifeInv, LifeType
  <2>2. CASE u = t /\ Pop(t)
    BY <1>3, <2>2 DEF Pop, LifeInv, LifeType
  <2>3. ASSUME u = t, NEW x \in Frame, Set(t, x), FrameOk(t, x)'
        PROVE  f \in FramesOf(stack[u]) \/ FrameOk(u, f)'
    <3>1. stack'[t] = <<x>> \o Tail(stack[t])
      BY <2>3 DEF Set, LifeInv, LifeType
    <3>2. FramesOf(stack'[t]) = {x} \cup FramesOf(Tail(stack[t]))
      BY <1>3, <3>1, FramesPushed
    <3> QED
      BY <1>3, <2>3, <3>2
  <2> QED
    BY <2>1, <2>2, <2>3
<1>5. \A u \in Pool : stack'[u] # <<>> => pc'[u] \in Working
  <2>1. \A u \in Threads : stack'[u] # <<>> => stack[u] # <<>>
    BY DEF Set, Pop, LifeInv, LifeType
  <2>2. \A u \in Pool : stack'[u] # <<>> => pc[u] \in Working
    BY <2>1, ThreadFacts DEF JoinInv
  <2> QED
    BY <1>1, <2>2 DEF Working, Serving
<1>6. \A u \in 1..threads' : pc'[u] \in Working \cup Done
  BY <1>1, <1>2 DEF JoinInv, Done
<1>7. /\ threads' \in Nat /\ threads <= threads'
      /\ \A j \in Pool : pc[j] \in Done => pc'[j] \in Done
  BY <1>1, <1>2
<1> QED
  BY ONLY LifeInv, JoinInv, ~Over, <1>4, <1>5, <1>6, <1>7, JoinKept

LEMMA SignalJoin ==
  ASSUME LifeInv, JoinInv, NEW t \in Threads, NEW sig \in Signals, Signal(t, sig)
  PROVE  JoinInv'
<1>1. PICK x : x = Call(sig)
  OBVIOUS
<1>2. x \in Frame /\ x.why = sig /\ x.at = "test"
  BY <1>1, ThreadFacts DEF Call, Frame, Signals
<1>3. /\ stack' = [stack EXCEPT ![t] = <<x>> \o stack[t]]
      /\ UNCHANGED <<pc, threads>> /\ ~Over
      /\ pc[t] \notin {"none", "ended", "joined"}
  BY <1>1 DEF Signal
<1>4. FramesOf(<<x>> \o stack[t]) = {x} \cup FramesOf(stack[t])
  BY <1>2, FramesPushed DEF LifeInv, LifeType
<1>5. FrameOk(t, x)'
  BY <1>2 DEF FrameOk, Signals
<1>6. \A u \in Threads : stack'[u] = IF u = t THEN <<x>> \o stack[t] ELSE stack[u]
  BY <1>3 DEF LifeInv, LifeType
<1>7. ASSUME NEW u \in Threads, NEW f \in FramesOf(stack'[u])
      PROVE  f \in FramesOf(stack[u]) \/ FrameOk(u, f)'
  BY <1>4, <1>5, <1>6
<1>8. threads \in Nat /\ 1..threads \subseteq Pool
  BY ThreadFacts DEF LifeInv, LifeType
<1>9. ASSUME t \in Pool PROVE pc[t] \in Working
  <2>1. ~(t > threads)
    BY <1>3, <1>9 DEF LifeInv, Phases
  <2>2. t \in 1..threads
    BY <1>8, <1>9, <2>1, ThreadFacts
  <2> QED
    BY <1>3, <2>2 DEF JoinInv, Done
<1>10. \A u \in Pool : stack'[u] # <<>> => pc'[u] \in Working
  BY <1>3, <1>6, <1>9, ThreadFacts DEF JoinInv
<1>11. \A u \in 1..threads' : pc'[u] \in Working \cup Done
  BY <1>3 DEF JoinInv
<1>12. /\ threads' \in Nat /\ threads <= threads'
       /\ \A j \in Pool : pc[j] \in Done => pc'[j] \in Done
  BY <1>3, <1>8
<1> QED
  BY <1>3, <1>7, <1>10, <1>11, <1>12, JoinKept

(* The steps of a thread in its worker. *)
LEMMA JoinThread ==
  ASSUME LifeInv, JoinInv, NEW t \in Threads,
         \/ WorkerNew(t) \/ LoopTest(t) \/ Wake(t) \/ WorkerFails(t)
         \/ Validate(t) \/ CopyStatus(t) \/ FindFile(t) \/ Sent(t)
         \/ \E m \in Messages : Request(t, m)
  PROVE  JoinInv'
<1>1. CASE Terminate
  BY <1>1, JoinOver
<1>2. CASE ~Terminate
  <2>1. ~Over /\ stack[t] = <<>> /\ UNCHANGED <<stack, threads>> /\ pc[t] \notin Done
    BY <1>2 DEF Running, Done, WorkerNew, LoopTest, Wake, WorkerFails, Validate, CopyStatus,
                FindFile, Sent, Request, ServerError
  <2>2. \E l : Goto(t, l) /\ (t # 0 => l \in Working \cup Done)
    BY <1>2 DEF WorkerNew, LoopTest, Wake, WorkerFails, Validate, CopyStatus,
                FindFile, Sent, Request, ServerError, Working, Serving, Done
  <2> QED
    BY <2>1, <2>2, JoinMoves
<1> QED
  BY <1>1, <1>2

(* join_threads() returns. *)
LEMMA ToAfterJoin ==
  ASSUME LifeInv, JoinInv, ~Over, NEW t \in Threads, stack[t] # <<>>, UNCHANGED <<threads, pc>>,
         Top(t).at # "return", Set(t, AfterJoin(t))
  PROVE  JoinInv'
<1>1. PICK f : f = Top(t)
  OBVIOUS
<1>2. PICK x : x = AfterJoin(t)
  OBVIOUS
<1>3. f \in Frame /\ f.at # "return" /\ FrameOk(t, f)
  BY <1>1, TopFacts DEF JoinInv
<1>4. x \in Frame /\ x.why = f.why /\ (x.at = "return" => f.why = "dtor")
  BY <1>1, <1>2, <1>3, AfterJoinFacts
<1>5. x.at \in {"return", "close"}
  BY <1>1, <1>2, <1>3 DEF AfterJoin, Frame
<1>6. FrameOk(t, x)'
  BY <1>3, <1>4, <1>5 DEF FrameOk
<1>7. Set(t, x)
  BY <1>2
<1> QED
  BY <1>4, <1>6, <1>7, JoinSteps

LEMMA JoinTestJoin == ASSUME LifeInv, JoinInv, NEW t \in Threads, JoinTest(t) PROVE JoinInv'
<1>1. ~Over /\ stack[t] # <<>> /\ Top(t).at = "test" /\ UNCHANGED <<threads, pc>>
  BY DEF JoinTest, Active
<1>2. Top(t) \in Frame /\ FrameOk(t, Top(t))
  BY <1>1, TopFacts DEF JoinInv
<1>3. CASE Set(t, AfterJoin(t))
  BY <1>1, <1>2, <1>3, ToAfterJoin
<1>4. CASE Set(t, [Top(t) EXCEPT !.at = "set"])
  <2>1. PICK f : f = Top(t)
    OBVIOUS
  <2>2. PICK x : x = [f EXCEPT !.at = "set"]
    OBVIOUS
  <2>3. x \in Frame /\ x.why = f.why /\ x.at = "set"
    BY <1>2, <2>1, <2>2 DEF Frame
  <2>4. FrameOk(t, x)'
    BY <1>2, <2>1, <2>3 DEF FrameOk
  <2> QED
    BY <1>1, <1>4, <2>1, <2>2, <2>3, <2>4, JoinSteps
<1> QED
  BY <1>3, <1>4 DEF JoinTest

LEMMA JoinSetJoin == ASSUME LifeInv, JoinInv, NEW t \in Threads, JoinSet(t) PROVE JoinInv'
<1>1. /\ ~Over /\ stack[t] # <<>> /\ Top(t).at = "set" /\ UNCHANGED <<threads, pc>>
      /\ threads \in 0..MaxThreads
  BY DEF JoinSet, Active, LifeInv, LifeType
<1>2. PICK f : f = Top(t)
  OBVIOUS
<1>3. PICK x : x = [f EXCEPT !.at = "join", !.last = threads]
  OBVIOUS
<1>4. f \in Frame /\ f.next = 1 /\ FrameOk(t, f)
  BY <1>1, <1>2, TopFacts DEF JoinInv, FreshFrame
<1>5. x \in Frame /\ x.why = f.why /\ x.at = "join" /\ x.last = threads /\ x.next = 1
  BY <1>1, <1>3, <1>4 DEF Frame
<1>6. FrameOk(t, x)'
  <2>1. x.last <= threads' /\ \A j \in 1..x.next - 1 : pc'[j] \in Done
    BY <1>1, <1>5, ThreadFacts
  <2> QED
    BY <1>4, <1>5, <2>1 DEF FrameOk
<1>7. Set(t, x)
  BY <1>2, <1>3 DEF JoinSet
<1> QED
  BY <1>1, <1>5, <1>6, <1>7, JoinSteps

LEMMA JoinOneJoin == ASSUME LifeInv, JoinInv, NEW t \in Threads, JoinOne(t) PROVE JoinInv'
<1>1. /\ ~Over /\ stack[t] # <<>> /\ Top(t).at = "join" /\ UNCHANGED threads
      /\ threads \in 0..MaxThreads
  BY DEF JoinOne, Active, LifeInv, LifeType
<1>2. CASE Set(t, AfterJoin(t)) /\ UNCHANGED pc
  BY <1>1, <1>2, ToAfterJoin
<1>3. CASE /\ Top(t).next <= Top(t).last /\ pc[Top(t).next] = "ended"
           /\ Goto(Top(t).next, "joined") /\ Set(t, [Top(t) EXCEPT !.next = Top(t).next + 1])
  <2>1. PICK f : f = Top(t)
    OBVIOUS
  <2>2. PICK x : x = [f EXCEPT !.next = f.next + 1]
    OBVIOUS
  <2>3. f \in Frame /\ f.at = "join" /\ FrameOk(t, f)
    BY <1>1, <2>1, TopFacts DEF JoinInv
  <2>4. f.next \in Pool
    BY <1>3, <2>1, <2>3, ThreadFacts DEF Frame
  <2>5. /\ x \in Frame /\ x.why = f.why /\ x.at = "join" /\ x.last = f.last
        /\ x.next = f.next + 1
    BY <2>2, <2>3, <2>4, ThreadFacts DEF Frame
  <2>6. \A j \in Threads : pc'[j] = IF j = f.next THEN "joined" ELSE pc[j]
    BY <1>3, <2>1 DEF Goto, LifeInv, LifeType
  <2>7. \A j \in 1..x.next - 1 : pc'[j] \in Done
    <3>1. \A j \in 1..x.next - 1 : j \in Threads /\ (j = f.next \/ j \in 1..f.next - 1)
      BY <2>4, <2>5, ThreadFacts
    <3>2. \A j \in 1..f.next - 1 : pc[j] \in Done
      BY <2>3 DEF FrameOk
    <3> QED
      BY <2>6, <3>1, <3>2 DEF Done
  <2>8. FrameOk(t, x)'
    BY <1>1, <2>3, <2>5, <2>7 DEF FrameOk
  <2>9. Set(t, x) /\ Goto(f.next, "joined") /\ pc[f.next] = "ended"
    BY <1>3, <2>1, <2>2
  <2> QED
    BY <1>1, <2>4, <2>5, <2>8, <2>9, JoinSteps
<1>4. CASE Terminate
  BY <1>4, JoinOver
<1> QED
  BY <1>2, <1>3, <1>4 DEF JoinOne

LEMMA CloseJoin ==
  ASSUME LifeInv, JoinInv, NEW t \in Threads, CloseTest(t) \/ CloseFd(t) \/ DestroyReturn
  PROVE  JoinInv'
<1>1. CASE Terminate
  BY <1>1, JoinOver
<1>2. ASSUME NEW u \in Threads, ~Over, stack[u] # <<>>, Pop(u), UNCHANGED <<pc, threads>>
      PROVE  JoinInv'
  BY <1>2, JoinSteps
<1>3. CASE CloseTest(t) /\ m_fd
  <2>1. PICK f : f = Top(t)
    OBVIOUS
  <2>2. PICK x : x = [f EXCEPT !.at = "closing"]
    OBVIOUS
  <2>3. ~Over /\ stack[t] # <<>> /\ UNCHANGED <<pc, threads>> /\ Set(t, x)
    BY <1>3, <2>1, <2>2 DEF CloseTest, Active
  <2>4. f \in Frame /\ FrameOk(t, f)
    BY <2>1, <2>3, TopFacts DEF JoinInv
  <2>5. x \in Frame /\ x.why = f.why /\ x.at = "closing"
    BY <2>2, <2>4 DEF Frame
  <2>6. FrameOk(t, x)'
    BY <2>4, <2>5 DEF FrameOk
  <2> QED
    BY <2>3, <2>5, <2>6, JoinSteps
<1> QED
  BY <1>1, <1>2, <1>3, ThreadFacts DEF CloseTest, CloseFd, DestroyReturn, Active

LEMMA MainJoin == ASSUME LifeInv, JoinInv, MainStep PROVE JoinInv'
<1>0. 0 \in Threads /\ threads \in Nat
  BY ThreadFacts DEF LifeInv, LifeType
<1>1. CASE Open \/ Listen \/ Run
  <2>1. /\ ~Over /\ stack[0] = <<>> /\ UNCHANGED <<stack, threads>>
        /\ \E l : Goto(0, l)
    BY <1>1 DEF Open, Listen, Run, Running
  <2> QED
    BY <1>0, <2>1, JoinMoves
<1>2. CASE Spawn
  <2>1. CASE /\ threads < MaxThreads /\ threads' = threads + 1
             /\ Goto(threads + 1, "ctor") /\ UNCHANGED stack
    <3>0. ~Over /\ pc[0] = "spawn"
      BY <1>2 DEF Spawn, Running
    <3>1. PICK n : n = threads + 1
      OBVIOUS
    <3>2. n \in Pool /\ n \in Threads /\ pc[n] = "none"
      <4>1. n \in Pool /\ n > threads
        BY <1>0, <2>1, <3>1, ThreadFacts
      <4> QED
        BY <3>0, <4>1, ThreadFacts DEF LifeInv, Phases
    <3>3. \A j \in Threads : pc'[j] = IF j = n THEN "ctor" ELSE pc[j]
      BY <2>1, <3>1 DEF Goto, LifeInv, LifeType
    <3>4. \A j \in Pool : pc[j] \in Done => pc'[j] \in Done
      BY <3>2, <3>3, ThreadFacts DEF Done
    <3>5. \A u \in Pool : stack'[u] # <<>> => pc'[u] \in Working
      BY <2>1, <3>0, <3>3, ThreadFacts DEF JoinInv, Working
    <3>6. \A u \in 1..threads' : u \in Threads /\ (u = n \/ u \in 1..threads)
      BY <1>0, <2>1, <3>1, ThreadFacts
    <3>7. \A u \in 1..threads' : pc'[u] \in Working \cup Done
      BY <3>0, <3>3, <3>6 DEF JoinInv, Working
    <3>8. threads' \in Nat /\ threads <= threads'
      BY <1>0, <2>1
    <3>9. \A u \in Threads : \A f \in FramesOf(stack'[u]) : f \in FramesOf(stack[u])
      BY <2>1
    <3> QED
      BY <3>0, <3>4, <3>5, <3>7, <3>8, <3>9, JoinKept
  <2>2. CASE Terminate
    BY <2>2, JoinOver
  <2>3. CASE Goto(0, "ctor") /\ UNCHANGED <<threads, stack>>
    BY <1>0, <1>2, <2>3, JoinMoves DEF Spawn, Running
  <2> QED
    BY <1>2, <2>1, <2>2, <2>3 DEF Spawn
<1>3. CASE Destroy
  <2>1. PICK x : x = Call("dtor")
    OBVIOUS
  <2>2. x \in Frame /\ x.at = "test"
    BY <2>1, ThreadFacts DEF Call, Frame
  <2>3. <<x>> \in Seq(Frame) /\ FramesOf(<<x>>) = {x}
    <3>1. <<x>> \in Seq(Frame) /\ Len(<<x>>) = 1 /\ <<x>>[1] = x
      BY <2>2
    <3> QED
      BY <3>1 DEF FramesOf
  <2>4. /\ ~Over /\ stack' = [stack EXCEPT ![0] = <<x>>] /\ threads' = threads
        /\ Goto(0, "free")
    BY <1>3, <2>1 DEF Destroy, Running
  <2>5. /\ \A j \in Pool : pc'[j] = pc[j] /\ stack'[j] = stack[j]
        /\ stack'[0] = <<x>>
    BY <2>4, ThreadFacts DEF Goto, LifeInv, LifeType
  <2>6. FrameOk(0, x)'
    BY <2>2 DEF FrameOk
  <2>7. ASSUME NEW u \in Threads, NEW f \in FramesOf(stack'[u])
        PROVE  f \in FramesOf(stack[u]) \/ FrameOk(u, f)'
    BY <2>3, <2>5, <2>6, ThreadFacts
  <2>8. \A u \in Pool : stack'[u] # <<>> => pc'[u] \in Working
    BY <2>4, <2>5 DEF JoinInv
  <2>9. \A u \in 1..threads' : pc'[u] \in Working \cup Done
    <3>1. 1..threads \subseteq Pool
      BY ThreadFacts DEF LifeInv, LifeType
    <3> QED
      BY <2>4, <2>5, <3>1 DEF JoinInv
  <2>10. \A j \in Pool : pc[j] \in Done => pc'[j] \in Done
    BY <2>5
  <2>11. threads' \in Nat /\ threads <= threads'
    BY <1>0, <2>4
  <2> QED
    BY <2>4, <2>7, <2>8, <2>9, <2>10, <2>11, JoinKept
<1>4. CASE DestroyReturn
  BY <1>0, <1>4, CloseJoin
<1>5. CASE Free
  <2>1. CASE Terminate
    BY <2>1, JoinOver
  <2>2. CASE Goto(0, "over") /\ UNCHANGED stack
    BY <1>0, <1>5, <2>2, JoinMoves DEF Free, Running
  <2> QED
    BY <1>5, <2>1, <2>2 DEF Free
<1> QED
  BY <1>1, <1>2, <1>3, <1>4, <1>5 DEF MainStep

LEMMA JoinStep == LifeInv /\ JoinInv /\ [Next]_vars => JoinInv'
<1> SUFFICES ASSUME LifeInv, JoinInv, [Next]_vars PROVE JoinInv'
  OBVIOUS
<1>1. ASSUME NEW t \in Threads, ThreadStep(t) PROVE JoinInv'
  BY <1>1, JoinThread, JoinTestJoin, JoinSetJoin, JoinOneJoin, CloseJoin DEF ThreadStep
<1>2. CASE UNCHANGED vars
  BY <1>2 DEF vars, lifeVars, JoinInv, FrameOk, Over
<1> QED
  BY <1>1, <1>2, MainJoin, JoinThread, SignalJoin DEF Next

-----------------------------------------------------------------------------
LEMMA LeastNumber ==
  ASSUME NEW S \in SUBSET Nat, S # {}
  PROVE  \E n \in S : \A m \in S : ~(m < n)
<1>1. PICK n \in S : \A m \in S : ~(<<m, n>> \in OpToRel(<, Nat))
  BY NatLessThanWellFounded, WFMin
<1>2. \A m \in S : ~(m < n)
  BY <1>1 DEF OpToRel
<1> QED
  BY <1>2

(* What a thread may be doing that has not ended. *)
LEMMA WhereThreadsAre ==
  ASSUME LifeInv, JoinInv, ~Over, NEW t \in Threads, ~ThreadOpen(t)
  PROVE  \/ t # 0 /\ pc[t] \in Done \cup {"none"}
         \/ stack[t] = <<>> /\ (pc[t] = "hung" \/ (pc[t] = "wait" /\ ~timed))
         \/ \E i \in 1..threads : WaitsFor(t, i) /\ pc[i] \in Working /\ (t = 0 \/ i < t)
<1>1. CASE stack[t] = <<>>
  <2>1. CASE t = 0
    <3>1. pc[t] \in MainPlaces
      BY <2>1 DEF LifeInv, Phases
    <3> QED
      BY <1>1, <2>1, <3>1 DEF ThreadOpen, MainPlaces, Serving
  <2>2. CASE t # 0
    <3>1. t \in Pool /\ threads \in Nat
      BY <2>2, ThreadFacts DEF LifeInv, LifeType
    <3>2. pc[t] \in Working \cup Done \cup {"none"}
      <4>1. CASE t > threads
        BY <3>1, <4>1 DEF LifeInv, Phases
      <4>2. CASE t \in 1..threads
        BY <4>2 DEF JoinInv
      <4> QED
        BY <3>1, <4>1, <4>2, ThreadFacts
    <3> QED
      BY <1>1, <2>2, <3>2 DEF ThreadOpen, Working, Serving
  <2> QED
    BY <2>1, <2>2
<1>2. CASE stack[t] # <<>>
  <2>1. PICK f : f = Top(t)
    OBVIOUS
  <2>2. f \in Frame /\ FrameOk(t, f)
    BY <1>2, <2>1, TopFacts DEF JoinInv
  <2>3. f.at = "join" /\ ~(f.next > f.last) /\ f.next # t /\ pc[f.next] \notin Done
    <3>1. f.at \in {"test", "set", "join", "close", "closing", "return"}
      BY <2>2 DEF Frame
    <3>2. t # 0 => f.at # "return"
      BY <2>2 DEF FrameOk
    <3> QED
      BY <1>2, <2>1, <3>1, <3>2 DEF ThreadOpen
  <2>4. PICK i : i = f.next
    OBVIOUS
  <2>5. i \in 1..threads /\ \A j \in 1..i - 1 : pc[j] \in Done
    <3>1. f.next \in 1..MaxThreads + 1 /\ f.last \in 0..MaxThreads /\ threads \in 0..MaxThreads
      BY <2>2 DEF Frame, LifeInv, LifeType
    <3>2. f.last <= threads /\ \A j \in 1..f.next - 1 : pc[j] \in Done
      BY <2>2, <2>3 DEF FrameOk
    <3> QED
      BY <2>3, <2>4, <3>1, <3>2, ThreadFacts
  <2>6. pc[i] \in Working
    BY <2>3, <2>4, <2>5 DEF JoinInv
  <2>7. t # 0 => i < t
    <3> SUFFICES ASSUME t # 0 PROVE i < t
      OBVIOUS
    <3>1. t \in Pool /\ t \in Nat \ {0} /\ i \in Nat
      BY <2>5, ThreadFacts
    <3>2. pc[t] \notin Done
      BY <1>2, <3>1 DEF JoinInv, Working, Serving, Done
    <3>3. t \notin 1..i - 1 /\ t # i
      BY <2>3, <2>4, <2>5, <3>2
    <3> QED
      BY <3>1, <3>3
  <2> QED
    BY <1>2, <2>1, <2>3, <2>4, <2>5, <2>6, <2>7 DEF WaitsFor
<1> QED
  BY <1>1, <1>2

(* Handlers on several threads and the destructor may all be joining the       *)
(* threads at once, and still they do not wait in a circle: the smallest       *)
(* thread that is still working is not waiting for any.                        *)
THEOREM JoinsMakeNoCircle == Spec => []JoinsInOrder
<1>1. ASSUME LifeInv, JoinInv PROVE JoinsInOrder
  <2> SUFFICES ASSUME ~Over, timed, \A t \in Threads : ~ThreadOpen(t) /\ pc[t] # "hung"
               PROVE  FALSE
    BY <1>1, WhereThreadsAre DEF JoinsInOrder
  <2> DEFINE S == {i \in 1..threads : pc[i] \in Working}
  <2>1. S \subseteq Nat /\ S \subseteq Threads /\ 0 \in Threads /\ 0 \notin S
    BY <1>1, ThreadFacts DEF LifeInv, LifeType
  <2>2. ASSUME NEW t \in S \cup {0} PROVE \E i \in S : t = 0 \/ i < t
    <3>1. t \in Threads /\ (t # 0 => pc[t] \notin Done \cup {"none"})
      BY <2>1, <2>2 DEF Working, Serving, Done
    <3> QED
      BY <1>1, <3>1, WhereThreadsAre
  <2>3. S # {}
    BY <2>2
  <2> HIDE DEF S
  <2> QED
    BY <2>1, <2>2, <2>3, LeastNumber
<1>2. LifeInv /\ JoinInv => JoinsInOrder
  BY <1>1
<1> QED
  BY <1>2, JoinInit, JoinStep, LifeInvariant, PTL DEF Spec

-----------------------------------------------------------------------------
(* What parsing makes of a text.  Texts are sequences of numbers.             *)
LEMMA SubText ==
  ASSUME NEW s \in Seq(Int), NEW a \in 1..Len(s) + 1, NEW b \in a - 1..Len(s)
  PROVE  /\ SubSeq(s, a, b) \in Seq(Int) /\ Len(SubSeq(s, a, b)) = b - a + 1
         /\ \A i \in 1..b - a + 1 : SubSeq(s, a, b)[i] = s[a + i - 1]
OBVIOUS

LEMMA SameText ==
  ASSUME NEW s \in Seq(Int), NEW r \in Seq(Int), Len(s) = Len(r),
         \A i \in 1..Len(s) : s[i] = r[i]
  PROVE  s = r
OBVIOUS

LEMMA TextFacts ==
  ASSUME NEW s \in Seq(Int)
  PROVE  Len(s) \in Nat /\ DOMAIN s = 1..Len(s) /\ \A i \in 1..Len(s) : s[i] \in Int
OBVIOUS

(* The first place at which a word of one or of two codes is found. *)
LEMMA FindFirst ==
  ASSUME NEW s \in Seq(Int), NEW what \in Seq(Int), NEW p \in 1..Len(s) - Len(what) + 1,
         SubSeq(s, p, p + Len(what) - 1) = what,
         \A i \in 1..p - 1 : SubSeq(s, i, i + Len(what) - 1) # what
  PROVE  Find(s, what) = p
<1> DEFINE at == {i \in 1..Len(s) - Len(what) + 1 : SubSeq(s, i, i + Len(what) - 1) = what}
<1>1. Len(s) \in Nat /\ Len(what) \in Nat
  BY TextFacts
<1>2. p \in at /\ at \subseteq Int
  OBVIOUS
<1>3. ASSUME NEW i \in at PROVE p <= i
  BY <1>1, <1>3
<1>4. \A i \in at : (\A j \in at : i <= j) => i = p
  BY <1>2, <1>3
<1>5. (CHOOSE i \in at : \A j \in at : i <= j) = p
  BY <1>2, <1>3, <1>4
<1> QED
  BY <1>2, <1>5 DEF Find

LEMMA FindOne ==
  ASSUME NEW s \in Seq(Int), NEW c \in Int, NEW p \in 1..Len(s), s[p] = c,
         \A i \in 1..p - 1 : s[i] # c
  PROVE  Find(s, <<c>>) = p
<1>1. PICK w : w = <<c>>
  OBVIOUS
<1>2. w \in Seq(Int) /\ Len(w) = 1 /\ w[1] = c
  BY <1>1
<1>3. Len(s) \in Nat
  BY TextFacts
<1>4. ASSUME NEW i \in 1..Len(s)
      PROVE  /\ SubSeq(s, i, i) \in Seq(Int) /\ Len(SubSeq(s, i, i)) = 1
             /\ SubSeq(s, i, i)[1] = s[i]
  <2>1. i \in 1..Len(s) + 1 /\ i \in i - 1..Len(s) /\ i - i + 1 = 1 /\ i + 1 - 1 = i
    BY <1>3
  <2> QED
    BY ONLY <2>1, SubText, s \in Seq(Int)
<1>5. SubSeq(s, p, p) = w
  <2>1. \A j \in 1..1 : SubSeq(s, p, p)[j] = w[j]
    BY <1>2, <1>4
  <2> QED
    BY <1>2, <1>4, <2>1, SameText
<1>6. ASSUME NEW i \in 1..p - 1 PROVE SubSeq(s, i, i + Len(w) - 1) # w
  <2>1. i \in 1..Len(s) /\ i + Len(w) - 1 = i
    BY <1>2, <1>3
  <2>2. SubSeq(s, i, i)[1] = s[i]
    BY <1>4, <2>1
  <2> QED
    BY <1>2, <2>1, <2>2
<1>7. p \in 1..Len(s) - Len(w) + 1 /\ p + Len(w) - 1 = p
  BY <1>2, <1>3
<1>8. SubSeq(s, p, p + Len(w) - 1) = w
  BY <1>5, <1>7
<1>9. Find(s, w) = p
  BY ONLY <1>2, <1>6, <1>7, <1>8, FindFirst, s \in Seq(Int)
<1> QED
  BY <1>1, <1>9

LEMMA FindNone ==
  ASSUME NEW s \in Seq(Int), NEW c \in Int, \A i \in 1..Len(s) : s[i] # c
  PROVE  Find(s, <<c>>) = 0
<1>1. PICK w : w = <<c>>
  OBVIOUS
<1>2. w \in Seq(Int) /\ Len(w) = 1 /\ w[1] = c
  BY <1>1
<1>3. Len(s) \in Nat
  BY TextFacts
<1>4. ASSUME NEW i \in 1..Len(s) - Len(w) + 1 PROVE SubSeq(s, i, i + Len(w) - 1) # w
  <2>1. /\ i \in 1..Len(s) /\ i + Len(w) - 1 = i
        /\ i \in 1..Len(s) + 1 /\ i \in i - 1..Len(s) /\ i - i + 1 = 1 /\ i + 1 - 1 = i
    BY <1>2, <1>3
  <2>2. SubSeq(s, i, i)[1] = s[i]
    BY ONLY <2>1, SubText, s \in Seq(Int)
  <2> QED
    BY <1>2, <2>1, <2>2
<1>5. Find(s, w) = 0
  BY <1>4 DEF Find
<1> QED
  BY <1>1, <1>5

(* Two neighbours. *)
LEMMA SubPair ==
  ASSUME NEW s \in Seq(Int), NEW i \in 1..Len(s) - 1
  PROVE  /\ SubSeq(s, i, i + 1) \in Seq(Int) /\ Len(SubSeq(s, i, i + 1)) = 2
         /\ SubSeq(s, i, i + 1)[1] = s[i] /\ SubSeq(s, i, i + 1)[2] = s[i + 1]
<1>1. Len(s) \in Nat
  BY TextFacts
<1>2. i \in 1..Len(s) + 1 /\ i + 1 \in i - 1..Len(s) /\ i + 1 - i + 1 = 2
  BY <1>1
<1>3. /\ SubSeq(s, i, i + 1) \in Seq(Int) /\ Len(SubSeq(s, i, i + 1)) = 2
      /\ \A j \in 1..2 : SubSeq(s, i, i + 1)[j] = s[i + j - 1]
  BY ONLY <1>2, SubText, s \in Seq(Int)
<1>4. i + 1 - 1 = i /\ i + 2 - 1 = i + 1
  OBVIOUS
<1> QED
  BY <1>3, <1>4

LEMMA FindTwo ==
  ASSUME NEW s \in Seq(Int), NEW c \in Int, NEW d \in Int, NEW p \in 1..Len(s) - 1,
         s[p] = c, s[p + 1] = d, \A i \in 1..p - 1 : s[i] # c \/ s[i + 1] # d
  PROVE  Find(s, <<c, d>>) = p
<1>1. PICK w : w = <<c, d>>
  OBVIOUS
<1>2. w \in Seq(Int) /\ Len(w) = 2 /\ w[1] = c /\ w[2] = d
  BY <1>1
<1>3. Len(s) \in Nat
  BY TextFacts
<1>5. SubSeq(s, p, p + 1) = w
  <2>1. \A j \in 1..2 : SubSeq(s, p, p + 1)[j] = w[j]
    BY <1>2, SubPair
  <2> QED
    BY <1>2, SubPair, <2>1, SameText
<1>6. ASSUME NEW i \in 1..p - 1 PROVE SubSeq(s, i, i + Len(w) - 1) # w
  <2>1. i \in 1..Len(s) - 1 /\ i + Len(w) - 1 = i + 1
    BY <1>2, <1>3
  <2>2. SubSeq(s, i, i + 1)[1] = s[i] /\ SubSeq(s, i, i + 1)[2] = s[i + 1]
    BY SubPair, <2>1
  <2> QED
    BY <1>2, <2>1, <2>2
<1>7. p \in 1..Len(s) - Len(w) + 1 /\ p + Len(w) - 1 = p + 1
  BY <1>2, <1>3
<1>8. SubSeq(s, p, p + Len(w) - 1) = w
  BY <1>5, <1>7
<1>9. Find(s, w) = p
  BY ONLY <1>2, <1>6, <1>7, <1>8, FindFirst, s \in Seq(Int)
<1> QED
  BY <1>1, <1>9

LEMMA FindNoPair ==
  ASSUME NEW s \in Seq(Int), NEW c \in Int, NEW d \in Int,
         \A i \in 1..Len(s) - 1 : s[i] # c \/ s[i + 1] # d
  PROVE  Find(s, <<c, d>>) = 0
<1>1. PICK w : w = <<c, d>>
  OBVIOUS
<1>2. w \in Seq(Int) /\ Len(w) = 2 /\ w[1] = c /\ w[2] = d
  BY <1>1
<1>3. Len(s) \in Nat
  BY TextFacts
<1>4. ASSUME NEW i \in 1..Len(s) - Len(w) + 1 PROVE SubSeq(s, i, i + Len(w) - 1) # w
  <2>1. i \in 1..Len(s) - 1 /\ i + Len(w) - 1 = i + 1
    BY <1>2, <1>3
  <2>2. SubSeq(s, i, i + 1)[1] = s[i] /\ SubSeq(s, i, i + 1)[2] = s[i + 1]
    BY SubPair, <2>1
  <2> QED
    BY <1>2, <2>1, <2>2
<1>5. Find(s, w) = 0
  BY <1>4 DEF Find
<1> QED
  BY <1>1, <1>5

-----------------------------------------------------------------------------
(* A function whose values are each a base, or made of the value at one later *)
(* place, exists: what RECURSIVE definitions by position rest on.             *)
ByPosition(f, n, base, next, step) ==
  \A i \in 1..n : f[i] = IF next[i] > i THEN step[i][f[next[i]]] ELSE base[i]

LEMMA Recursion ==
  ASSUME NEW n \in Nat, NEW V, NEW base \in [1..n -> V], NEW next \in [1..n -> 1..n],
         NEW step \in [1..n -> [V -> V]]
  PROVE  \E f \in [1..n -> V] : ByPosition(f, n, base, next, step)
<1> DEFINE val(f, i) == IF next[i] > i THEN step[i][f[next[i]]] ELSE base[i]
           S == {k \in 1..n + 1 : \E f \in [1..n -> V] : \A i \in k..n : f[i] = val(f, i)}
<1>1. n + 1 \in S
  <2>1. [1..n -> V] # {} /\ n + 1 \in 1..n + 1
    OBVIOUS
  <2>2. \A i \in n + 1..n : FALSE
    OBVIOUS
  <2> QED
    BY <2>1, <2>2
<1>2. PICK k \in S : \A m \in S : ~(m < k)
  <2>1. S \in SUBSET Nat
    OBVIOUS
  <2> QED
    BY ONLY <1>1, <2>1, LeastNumber
<1>3. CASE k = 1
  BY <1>2, <1>3 DEF ByPosition
<1>4. CASE k # 1
  <2>1. PICK f \in [1..n -> V] : \A i \in k..n : f[i] = val(f, i)
    BY <1>2
  <2>2. k \in 1..n + 1 /\ k - 1 \in 1..n /\ k - 1 \in 1..n + 1 /\ k - 1 < k
    BY <1>2, <1>4
  <2>3. val(f, k - 1) \in V
    BY <2>2
  <2> DEFINE g == [f EXCEPT ![k - 1] = val(f, k - 1)]
  <2> HIDE DEF val
  <2>4. g \in [1..n -> V] /\ g[k - 1] = val(f, k - 1) /\ \A j \in 1..n : j # k - 1 => g[j] = f[j]
    BY <2>2, <2>3
  <2> HIDE DEF g
  <2>5. ASSUME NEW i \in k - 1..n PROVE g[i] = val(g, i)
    <3>1. i \in 1..n /\ next[i] \in 1..n
      BY <2>2
    <3>2. val(g, i) = val(f, i)
      <4>1. CASE next[i] > i
        <5>1. g[next[i]] = f[next[i]]
          BY <2>4, <3>1, <4>1, <2>2
        <5> QED
          BY <5>1 DEF val
      <4>2. CASE ~(next[i] > i)
        BY <4>2 DEF val
      <4> QED
        BY <4>1, <4>2
    <3>3. CASE i = k - 1
      BY <2>4, <3>2, <3>3
    <3>4. CASE i # k - 1
      BY <2>1, <2>2, <2>4, <3>1, <3>2, <3>4
    <3> QED
      BY <3>3, <3>4
  <2>6. k - 1 \in S
    BY <2>2, <2>4, <2>5
  <2> QED
    BY <1>2, <2>2, <2>6
<1> QED
  BY <1>3, <1>4

LEMMA WholeText ==
  ASSUME NEW s \in Seq(Int)
  PROVE  SubSeq(s, 1, Len(s)) = s
<1>1. Len(s) \in Nat
  BY TextFacts
<1>2. 1 \in 1..Len(s) + 1 /\ Len(s) \in 1 - 1..Len(s) /\ Len(s) - 1 + 1 = Len(s)
  BY <1>1
<1>3. \A i \in 1..Len(s) : 1 + i - 1 = i
  BY <1>1
<1>4. /\ SubSeq(s, 1, Len(s)) \in Seq(Int) /\ Len(SubSeq(s, 1, Len(s))) = Len(s)
      /\ \A i \in 1..Len(s) : SubSeq(s, 1, Len(s))[i] = s[1 + i - 1]
  BY ONLY <1>2, SubText, s \in Seq(Int)
<1> QED
  BY <1>3, <1>4, SameText

(* A text without an escape is unescaped to itself. *)
Unescaped(text) == [how |-> "text", text |-> text]

LEMMA UnescapePlain ==
  ASSUME NEW origin \in Seq(Int), NEW memory, \A i \in 1..Len(origin) : origin[i] # Percent
  PROVE  Unescape(origin, memory) = Unescaped(origin)
<1> DEFINE D == 1..Len(origin) + 1
           Turn(f, i) ==
             LET p == Find(SubSeq(origin, i, Len(origin)), <<Percent>>) + i - 1
                 digits == Digits(RemovePrefix(origin \o memory, p))
             IN  IF p = i - 1 THEN [how |-> "text", text |-> SubSeq(origin, i, Len(origin))]
                 ELSE IF Len(digits) \notin 1..16 THEN [how |-> "throws", text |-> <<>>]
                 ELSE IF ToChar(digits) = 0 THEN [how |-> "hangs", text |-> <<>>]
                 ELSE IF p + 2 > Len(origin) THEN [how |-> "throws", text |-> <<>>]
                 ELSE [f[p + 3] EXCEPT !.text = <<ToChar(digits)>> \o @]
           from == CHOOSE f : f = [i \in D |-> Turn(f, i)]
           g == [i \in D |-> Unescaped(SubSeq(origin, i, Len(origin)))]
<1>1. Len(origin) \in Nat /\ 1 \in D
  BY TextFacts
<1>2. ASSUME NEW f, NEW i \in D PROVE Turn(f, i) = Unescaped(SubSeq(origin, i, Len(origin)))
  <2>1. i \in 1..Len(origin) + 1 /\ Len(origin) \in i - 1..Len(origin)
    BY <1>1
  <2>2. PICK s : s = SubSeq(origin, i, Len(origin))
    OBVIOUS
  <2>3. s \in Seq(Int) /\ Len(s) = Len(origin) - i + 1 /\ \A j \in 1..Len(origin) - i + 1 : s[j] = origin[i + j - 1]
    BY <2>1, <2>2, SubText
  <2>4. ASSUME NEW j \in 1..Len(s) PROVE s[j] # Percent
    <3>1. j \in 1..Len(origin) - i + 1 /\ i + j - 1 \in 1..Len(origin)
      BY <1>1, <2>1, <2>3
    <3> QED
      BY <2>3, <3>1
  <2>5. Find(s, <<Percent>>) = 0
    BY <2>3, <2>4, FindNone DEF Percent
  <2>6. Find(s, <<Percent>>) + i - 1 = i - 1
    BY <2>1, <2>5
  <2> QED
    BY <2>2, <2>6 DEF Unescaped
<1>3. Unescape(origin, memory) = from[1]
  BY DEF Unescape
<1> HIDE DEF Turn
<1>4. g = [i \in D |-> Turn(g, i)]
  BY <1>2
<1>5. from = [i \in D |-> Turn(from, i)]
  BY <1>4
<1>6. from[1] = Turn(from, 1)
  BY <1>1, <1>5
<1>7. SubSeq(origin, 1, Len(origin)) = origin
  BY WholeText
<1> QED
  BY <1>1, <1>2, <1>3, <1>6, <1>7

-----------------------------------------------------------------------------
(* Texts that are put together and taken apart. *)
LEMMA Joined2 ==
  ASSUME NEW u \in Seq(Int), NEW v \in Seq(Int)
  PROVE  /\ u \o v \in Seq(Int) /\ Len(u \o v) = Len(u) + Len(v)
         /\ \A i \in 1..Len(u) : (u \o v)[i] = u[i]
         /\ \A i \in 1..Len(v) : (u \o v)[Len(u) + i] = v[i]
OBVIOUS

LEMMA Associative ==
  ASSUME NEW u \in Seq(Int), NEW v \in Seq(Int), NEW w \in Seq(Int)
  PROVE  (u \o v) \o w = u \o (v \o w)
OBVIOUS

LEMMA TakenApart ==
  ASSUME NEW u \in Seq(Int), NEW v \in Seq(Int), NEW k, k = Len(u)
  PROVE  RemovePrefix(u \o v, k) = v /\ Before(u \o v, k + 1) = u /\ From(u \o v, k + 1) = v
<1>1. PICK s : s = u \o v
  OBVIOUS
<1>2. PICK n \in Nat, l \in Nat : n = Len(u) /\ l = Len(v) /\ k = n
  BY TextFacts
<1>3. /\ s \in Seq(Int) /\ Len(s) = n + l
      /\ \A i \in 1..n : s[i] = u[i]
      /\ \A i \in 1..l : s[n + i] = v[i]
  BY ONLY <1>1, <1>2, Joined2, u \in Seq(Int), v \in Seq(Int)
<1>4. SubSeq(s, n + 1, Len(s)) = v
  <2>0. PICK r : r = SubSeq(s, n + 1, Len(s))
    OBVIOUS
  <2>1. PICK m \in Nat : r = SubSeq(s, m, Len(s)) /\ m = n + 1
    BY <1>2, <2>0
  <2>2. m \in 1..Len(s) + 1 /\ Len(s) \in m - 1..Len(s) /\ Len(s) - m + 1 = l
    BY <1>2, <1>3, <2>1
  <2>3. r \in Seq(Int) /\ Len(r) = l /\ \A i \in 1..l : r[i] = s[m + i - 1]
    BY ONLY <2>1, <2>2, <1>3, SubText
  <2>4. ASSUME NEW i \in 1..l PROVE r[i] = v[i]
    <3>1. m + i - 1 = n + i
      BY <2>1
    <3> QED
      BY <1>3, <2>3, <3>1
  <2> QED
    BY ONLY <1>2, <2>0, <2>3, <2>4, SameText, v \in Seq(Int)
<1>5. SubSeq(s, 1, n) = u
  <2>1. PICK r : r = SubSeq(s, 1, n)
    OBVIOUS
  <2>2. 1 \in 1..Len(s) + 1 /\ n \in 1 - 1..Len(s) /\ n - 1 + 1 = n
    BY <1>2, <1>3
  <2>3. r \in Seq(Int) /\ Len(r) = n /\ \A i \in 1..n : r[i] = s[1 + i - 1]
    BY ONLY <2>1, <2>2, <1>3, SubText
  <2>4. ASSUME NEW i \in 1..n PROVE r[i] = u[i]
    <3>1. 1 + i - 1 = i
      OBVIOUS
    <3> QED
      BY <1>3, <2>3, <3>1
  <2> QED
    BY ONLY <1>2, <2>1, <2>3, <2>4, SameText, u \in Seq(Int)
<1>6. k + 1 # 0 /\ k + 1 - 1 = n /\ k = n
  BY <1>2
<1>7. RemovePrefix(s, k) = v
  BY ONLY <1>4, <1>6 DEF RemovePrefix
<1>8. Before(s, k + 1) = u /\ From(s, k + 1) = v
  <2>1. PICK m : m = k + 1
    OBVIOUS
  <2>2. m # 0 /\ m - 1 = n /\ SubSeq(s, m, Len(s)) = v
    BY ONLY <1>4, <1>6, <2>1
  <2>3. Before(s, m) = u /\ From(s, m) = v
    BY ONLY <1>5, <2>2 DEF Before, From
  <2> QED
    BY ONLY <2>1, <2>3
<1> QED
  BY ONLY <1>1, <1>7, <1>8

(* A pair found where one part ends, if its first code is not in that part.   *)
LEMMA FindAfter ==
  ASSUME NEW u \in Seq(Int), NEW v \in Seq(Int), NEW c \in Int, NEW d \in Int,
         Len(v) > 1, v[1] = c, v[2] = d, \A i \in 1..Len(u) : u[i] # c
  PROVE  Find(u \o v, <<c, d>>) = Len(u) + 1
<1>0. PICK k : k = Len(u) + 1
  OBVIOUS
<1>1. PICK s : s = u \o v
  OBVIOUS
<1>2. PICK n \in Nat, l \in Nat : n = Len(u) /\ l = Len(v) /\ k = n + 1 /\ l > 1
  BY <1>0, TextFacts
<1>3. /\ s \in Seq(Int) /\ Len(s) = n + l
      /\ \A i \in 1..n : s[i] = u[i]
      /\ \A i \in 1..l : s[n + i] = v[i]
  BY ONLY <1>1, <1>2, Joined2, u \in Seq(Int), v \in Seq(Int)
<1>4. s[k] = c /\ s[k + 1] = d
  <2>1. 1 \in 1..l /\ 2 \in 1..l /\ k = n + 1 /\ k + 1 = n + 2
    BY <1>2
  <2> QED
    BY <1>3, <2>1
<1>5. k \in 1..Len(s) - 1 /\ k - 1 = n
  BY <1>2, <1>3
<1>6. \A i \in 1..k - 1 : s[i] # c \/ s[i + 1] # d
  BY <1>2, <1>3, <1>5
<1>7. Find(s, <<c, d>>) = k
  BY ONLY <1>3, <1>4, <1>5, <1>6, FindTwo, c \in Int, d \in Int, ZenonT(40)
<1> QED
  BY ONLY <1>0, <1>1, <1>7

(* The constructor, with names for what it leaves after each part. *)
Answered(s, m, u, b, c) ==
  LET q == Find(u.text, <<Question>>)
      query == QueryParams(From(u.text, q))
      fields == Headers(c)
  IN  [how |-> IF u.how = "text" THEN query.how ELSE u.how, method |-> Before(s, m),
       path |-> PathOnly(u.text, q), query_params |-> query.params, version |-> Version(b),
       headers |-> fields.headers, body |-> Body(SubSeq(c, fields.next, Len(c)))]

(* The texts of requests that name a version: a method, a target and the rest *)
(* after the first line.                                                      *)
Versioned(x, target, z) == <<x, SP>> \o (target \o (<<SP, HTTP>> \o CRLF \o z))

(* What such a request is read as, given what unescaping makes of its target. *)
ReadOf(x, u, z) ==
  LET q == Find(u.text, <<Question>>)
      query == QueryParams(From(u.text, q))
      fields == Headers(z)
  IN  [how |-> IF u.how = "text" THEN query.how ELSE u.how, method |-> <<x>>,
       path |-> PathOnly(u.text, q), query_params |-> query.params, version |-> <<HTTP>>,
       headers |-> fields.headers, body |-> Body(SubSeq(z, fields.next, Len(z)))]

LEMMA Prefixed ==
  ASSUME NEW u \in Seq(Int), Len(u) = 1, NEW y \in Seq(Int)
  PROVE  /\ u \o y \in Seq(Int) /\ Len(u \o y) = Len(y) + 1 /\ (u \o y)[1] = u[1]
         /\ Len(y) > 0 => (u \o y)[2] = y[1]
<1>1. Len(y) \in Nat
  BY TextFacts
<1>2. 1 \in 1..Len(u) /\ Len(u) + 1 = 2 /\ (Len(y) > 0 => 1 \in 1..Len(y))
  BY <1>1
<1>3. /\ u \o y \in Seq(Int) /\ Len(u \o y) = Len(u) + Len(y) /\ (u \o y)[1] = u[1]
      /\ Len(y) > 0 => (u \o y)[Len(u) + 1] = y[1]
  BY <1>2, Joined2
<1> QED
  BY <1>1, <1>2, <1>3

LEMMA ParseVersioned ==
  ASSUME NEW x \in Int, NEW t \in Seq(Int), NEW z \in Seq(Int), x # SP,
         Len(t) > 0, t[1] = Slash, \A i \in 1..Len(t) : t[i] # SP
  PROVE  Parse(Versioned(x, t, z)) = ReadOf(x, Unescape(t, <<SP, HTTP>> \o CRLF \o z), z)
<1>1. /\ CR \in Int /\ LF \in Int /\ SP \in Int /\ HTTP \in Int /\ Slash \in Int
      /\ HTTP # CR /\ HTTP # SP
      /\ CRLF \in Seq(Int) /\ Len(CRLF) = 2 /\ CRLF[1] = CR /\ CRLF[2] = LF
  BY DEF CR, LF, SP, HTTP, Slash, CRLF
<1>2. PICK f : f = <<x>>
  OBVIOUS
<1>3. PICK g : g = <<SP>>
  OBVIOUS
<1>4. PICK h : h = <<HTTP>>
  OBVIOUS
<1>5. /\ f \in Seq(Int) /\ Len(f) = 1 /\ f[1] = x
      /\ g \in Seq(Int) /\ Len(g) = 1 /\ g[1] = SP
      /\ h \in Seq(Int) /\ Len(h) = 1 /\ h[1] = HTTP
  BY <1>1, <1>2, <1>3, <1>4
<1>6. <<x, SP>> = f \o g /\ <<SP, HTTP>> = g \o h
  BY <1>1, <1>2, <1>3, <1>4
<1>7. PICK y : y = CRLF \o z
  OBVIOUS
<1>8. y \in Seq(Int) /\ Len(y) > 1 /\ y[1] = CR /\ y[2] = LF
  BY <1>1, <1>7, TextFacts
<1>9. PICK b : b = h \o y
  OBVIOUS
<1>10. b \in Seq(Int) /\ Len(b) = Len(y) + 1 /\ b[1] = HTTP /\ b[2] = CR
  <2>1. Len(y) > 0
    BY <1>8, TextFacts
  <2> QED
    BY ONLY <1>5, <1>8, <1>9, <2>1, Prefixed
<1>11. PICK v : v = g \o b
  OBVIOUS
<1>12. v \in Seq(Int) /\ Len(v) = Len(b) + 1 /\ v[1] = SP /\ v[2] = HTTP
  <2>1. Len(b) > 0
    BY <1>8, <1>10, TextFacts
  <2> QED
    BY ONLY <1>5, <1>10, <1>11, <2>1, Prefixed
<1>13. PICK a : a = t \o v
  OBVIOUS
<1>14. a \in Seq(Int) /\ Len(a) > 0 /\ a[1] = Slash
  <2>1. 1 \in 1..Len(t) /\ Len(v) \in Nat /\ Len(t) \in Nat
    BY <1>12, TextFacts
  <2>2. a \in Seq(Int) /\ Len(a) = Len(t) + Len(v) /\ a[1] = t[1]
    BY <1>12, <1>13, <2>1, Joined2
  <2> QED
    BY <2>1, <2>2
<1>15. PICK w : w = g \o a
  OBVIOUS
<1>16. w \in Seq(Int) /\ Len(w) = Len(a) + 1 /\ w[1] = SP /\ w[2] = Slash
  BY ONLY <1>5, <1>14, <1>15, Prefixed
<1>17. PICK s : s = f \o w
  OBVIOUS
(* How the text is put together. *)
<1>18. <<SP, HTTP>> \o CRLF \o z = v
  <2>1. ((g \o h) \o CRLF) \o z = (g \o h) \o (CRLF \o z)
    <3>1. g \o h \in Seq(Int)
      BY ONLY <1>5, Joined2
    <3>2. PICK d : d = g \o h
      OBVIOUS
    <3>3. (d \o CRLF) \o z = d \o (CRLF \o z)
      BY ONLY <1>1, <3>1, <3>2, Associative, z \in Seq(Int)
    <3> QED
      BY ONLY <3>2, <3>3
  <2>2. (g \o h) \o y = g \o (h \o y)
    BY ONLY <1>5, <1>8, Associative, ZenonT(40)
  <2> QED
    BY ONLY <1>6, <1>7, <1>9, <1>11, <2>1, <2>2
<1>19. <<SP, HTTP>> \o CRLF \in Seq(Int) /\ <<x, SP>> \o a = s
  <2>1. (f \o g) \o a = f \o (g \o a)
    BY ONLY <1>5, <1>14, Associative, ZenonT(40)
  <2> QED
    BY ONLY <1>1, <1>5, <1>6, <1>15, <1>17, <2>1, Joined2
<1>20. s = Versioned(x, t, z)
  BY ONLY <1>13, <1>18, <1>19 DEF Versioned
(* How it is taken apart. *)
<1>21. Find(s, <<SP, Slash>>) = 2
  <2>1. \A i \in 1..Len(f) : f[i] # SP
    BY <1>5
  <2>2. 2 = Len(f) + 1 /\ Len(w) > 1
    BY <1>5, <1>14, <1>16, TextFacts
  <2>3. Find(f \o w, <<SP, Slash>>) = Len(f) + 1
    <3>1. f \in Seq(Int) /\ w \in Seq(Int) /\ SP \in Int /\ Slash \in Int
      BY ONLY <1>1, <1>5, <1>16
    <3>2. w[1] = SP /\ w[2] = Slash /\ Len(w) > 1
      BY ONLY <1>16, <2>2
    <3> QED
      BY ONLY <2>1, <3>1, <3>2, FindAfter
  <2> QED
    BY ONLY <1>17, <2>2, <2>3
<1>22. RemovePrefix(s, 2) = a
  <2>0. f \o g \in Seq(Int) /\ Len(f \o g) = Len(f) + Len(g)
    BY ONLY <1>5, Joined2
  <2>1. f \o g \in Seq(Int) /\ 2 = Len(f \o g)
    <3>1. Len(f) + Len(g) = 2
      BY <1>5
    <3> QED
      BY ONLY <2>0, <3>1
  <2>2. RemovePrefix((f \o g) \o a, 2) = a
    BY ONLY <1>14, <2>1, TakenApart
  <2> QED
    BY ONLY <1>6, <1>19, <2>2
<1>23. Before(s, 2) = f
  <2>1. PICK k : k = 1
    OBVIOUS
  <2>2. Before(f \o w, k + 1) = f
    BY ONLY <1>5, <1>16, <2>1, TakenApart
  <2>3. k + 1 = 2
    BY <2>1
  <2> QED
    BY ONLY <1>17, <2>2, <2>3
<1>24. PICK n \in Nat : n = Len(t)
  BY TextFacts
<1>25. PICK p \in Nat : p = n + 1
  OBVIOUS
<1>26. Find(a, <<SP, HTTP>>) = p
  <2>1. Len(v) > 1
    BY <1>8, <1>10, <1>12, TextFacts
  <2>2. p = Len(t) + 1
    BY <1>24, <1>25
  <2>3. \A i \in 1..Len(t) : t[i] # SP
    OBVIOUS
  <2>4. Find(t \o v, <<SP, HTTP>>) = Len(t) + 1
    <3>1. t \in Seq(Int) /\ v \in Seq(Int) /\ SP \in Int /\ HTTP \in Int
      BY ONLY <1>1, <1>12, t \in Seq(Int)
    <3>2. v[1] = SP /\ v[2] = HTTP /\ Len(v) > 1
      BY ONLY <1>12, <2>1
    <3> QED
      BY ONLY <2>3, <3>1, <3>2, FindAfter
  <2> QED
    BY ONLY <1>13, <2>2, <2>4
<1>27. Before(a, p) = t /\ From(a, p) = v
  BY ONLY <1>12, <1>13, <1>24, <1>25, TakenApart, t \in Seq(Int)
<1>28. RemovePrefix(a, p) = b
  <2>1. PICK r : r = t \o g
    OBVIOUS
  <2>2. r \in Seq(Int) /\ Len(r) = Len(t) + Len(g)
    BY ONLY <1>5, <2>1, Joined2, t \in Seq(Int)
  <2>3. p = Len(r)
    BY <1>5, <1>24, <1>25, <2>2
  <2>4. (t \o g) \o b = t \o (g \o b)
    BY ONLY <1>5, <1>10, Associative, t \in Seq(Int), ZenonT(40)
  <2>5. RemovePrefix(r \o b, p) = b
    BY ONLY <1>10, <2>2, <2>3, TakenApart
  <2> QED
    BY ONLY <1>11, <1>13, <2>1, <2>4, <2>5
<1>29. Find(b, CRLF) = 2
  <2>1. \A i \in 1..Len(h) : h[i] # CR
    BY <1>1, <1>5
  <2>2. 2 = Len(h) + 1
    BY <1>5
  <2>3. Find(h \o y, <<CR, LF>>) = Len(h) + 1
    <3>1. h \in Seq(Int) /\ y \in Seq(Int) /\ CR \in Int /\ LF \in Int
      BY ONLY <1>1, <1>5, <1>8
    <3>2. y[1] = CR /\ y[2] = LF /\ Len(y) > 1
      BY ONLY <1>8
    <3> QED
      BY ONLY <2>1, <3>1, <3>2, FindAfter
  <2> QED
    BY ONLY <1>9, <2>2, <2>3 DEF CRLF
<1>30. Version(b) = h
  <2>1. PICK k : k = 1
    OBVIOUS
  <2>2. Before(h \o y, k + 1) = h
    BY ONLY <1>5, <1>8, <2>1, TakenApart
  <2>3. k + 1 = 2
    BY <2>1
  <2> QED
    BY ONLY <1>9, <1>29, <2>2, <2>3 DEF Version
<1>31. RemovePrefix(b, 3) = z
  <2>1. PICK r : r = h \o CRLF
    OBVIOUS
  <2>2. r \in Seq(Int) /\ Len(r) = 3
    <3>1. r \in Seq(Int) /\ Len(r) = Len(h) + Len(CRLF)
      BY ONLY <1>1, <1>5, <2>1, Joined2
    <3>2. Len(h) + Len(CRLF) = 3
      BY <1>1, <1>5
    <3> QED
      BY ONLY <3>1, <3>2
  <2>3. (h \o CRLF) \o z = h \o (CRLF \o z)
    BY ONLY <1>1, <1>5, Associative, z \in Seq(Int), ZenonT(40)
  <2>4. RemovePrefix(r \o z, 3) = z
    BY ONLY <2>2, TakenApart, z \in Seq(Int)
  <2> QED
    BY ONLY <1>7, <1>9, <2>1, <2>3, <2>4
<1>32. Parse(s) = Answered(s, 2, Unescape(Before(a, p), From(a, p)), b, RemovePrefix(b, 3))
  <2>1. PICK m : m = 2
    OBVIOUS
  <2>2. m = Find(s, <<SP, Slash>>)
    BY ONLY <1>21, <2>1
  <2>3. a = RemovePrefix(s, m)
    BY ONLY <1>22, <2>1
  <2>4. p = Find(a, <<SP, HTTP>>)
    BY ONLY <1>26
  <2>5. b = RemovePrefix(a, p)
    BY ONLY <1>28
  <2>6. m = Find(b, CRLF)
    BY ONLY <1>29, <2>1
  <2>7. Parse(s) = Answered(s, m, Unescape(Before(a, p), From(a, p)), b, RemovePrefix(b, m + 1))
    BY ONLY <2>2, <2>3, <2>4, <2>5, <2>6 DEF Parse, Answered
  <2>8. m + 1 = 3
    BY <2>1
  <2> QED
    BY ONLY <2>1, <2>7, <2>8
<1>33. Parse(s) = Answered(s, 2, Unescape(t, v), b, z)
  BY ONLY <1>27, <1>31, <1>32
<1>34. Parse(s) = ReadOf(x, Unescape(t, v), z)
  BY ONLY <1>2, <1>4, <1>23, <1>30, <1>33 DEF Answered, ReadOf
<1> QED
  BY ONLY <1>18, <1>20, <1>34

-----------------------------------------------------------------------------
(* What is before a place, and what begins at one. *)
LEMMA PartBefore ==
  ASSUME NEW s \in Seq(Int), NEW p \in 1..Len(s) + 1
  PROVE  /\ Before(s, p) \in Seq(Int) /\ Len(Before(s, p)) = p - 1
         /\ \A i \in 1..p - 1 : Before(s, p)[i] = s[i]
<1>1. Len(s) \in Nat
  BY TextFacts
<1>2. 1 \in 1..Len(s) + 1 /\ p - 1 \in 1 - 1..Len(s) /\ p - 1 - 1 + 1 = p - 1
  BY <1>1
<1>3. /\ SubSeq(s, 1, p - 1) \in Seq(Int) /\ Len(SubSeq(s, 1, p - 1)) = p - 1
      /\ \A i \in 1..p - 1 : SubSeq(s, 1, p - 1)[i] = s[1 + i - 1]
  BY ONLY <1>1, <1>2, SubText, s \in Seq(Int)
<1>4. (\A i \in 1..p - 1 : 1 + i - 1 = i) /\ p # 0
  BY <1>1
<1> QED
  BY <1>3, <1>4 DEF Before

LEMMA SuffixLacks ==
  ASSUME NEW s \in Seq(Int), NEW c, \A i \in 1..Len(s) : s[i] # c, NEW i \in 1..Len(s) + 1
  PROVE  LET q == SubSeq(s, i, Len(s)) IN q \in Seq(Int) /\ \A j \in 1..Len(q) : q[j] # c
<1>1. Len(s) \in Nat
  BY TextFacts
<1>2. i \in 1..Len(s) + 1 /\ Len(s) \in i - 1..Len(s)
  BY <1>1
<1>3. PICK q : q = SubSeq(s, i, Len(s))
  OBVIOUS
<1>4. q \in Seq(Int) /\ Len(q) = Len(s) - i + 1 /\ \A j \in 1..Len(s) - i + 1 : q[j] = s[i + j - 1]
  BY <1>2, <1>3, SubText
<1>5. ASSUME NEW j \in 1..Len(q) PROVE q[j] # c
  <2>1. j \in 1..Len(s) - i + 1 /\ i + j - 1 \in 1..Len(s)
    BY <1>1, <1>2, <1>4
  <2> QED
    BY <1>4, <2>1
<1> QED
  BY <1>3, <1>4, <1>5

(* A query without = has no parameters, a text without : no headers.          *)
LEMMA NoParams ==
  ASSUME NEW query \in Seq(Int), \A i \in 1..Len(query) : query[i] # Equals
  PROVE  QueryParams(query) = [how |-> "text", params |-> <<>>]
<1> DEFINE D == 1..Len(query) + 1
           Turn(f, i) ==
             LET q == SubSeq(query, i, Len(query))
                 n == Find(q, <<Equals>>)
                 r == RemovePrefix(q, n)
                 v == Find(r, <<Amp>>)
                 name == Unescape(Before(q, n), From(q, n))
                 value == Unescape(Before(r, v), From(r, v))
                 rest == f[i + n + v]
             IN  IF n = 0 \/ v = 0 THEN [how |-> "text", params |-> <<>>]
                 ELSE IF name.how # "text" THEN [how |-> name.how, params |-> <<>>]
                 ELSE IF value.how # "text" THEN [how |-> value.how, params |-> <<>>]
                 ELSE [rest EXCEPT !.params = Emplaced(name.text, value.text, @)]
           from == CHOOSE f : f = [i \in D |-> Turn(f, i)]
           g == [i \in D |-> [how |-> "text", params |-> <<>>]]
<1>1. Len(query) \in Nat /\ 1 \in D
  BY TextFacts
<1>2. ASSUME NEW f, NEW i \in D PROVE Turn(f, i) = [how |-> "text", params |-> <<>>]
  <2>1. PICK q : q = SubSeq(query, i, Len(query))
    OBVIOUS
  <2>2. q \in Seq(Int) /\ \A j \in 1..Len(q) : q[j] # Equals
    BY <1>1, <2>1, SuffixLacks
  <2>3. Find(q, <<Equals>>) = 0
    BY ONLY <2>2, FindNone DEF Equals
  <2> QED
    BY <2>1, <2>3
<1>3. QueryParams(query) = from[1]
  BY DEF QueryParams
<1> HIDE DEF Turn
<1>4. g = [i \in D |-> Turn(g, i)]
  BY <1>2
<1>5. from = [i \in D |-> Turn(from, i)]
  BY <1>4
<1>6. from[1] = Turn(from, 1)
  BY <1>1, <1>5
<1> QED
  BY <1>1, <1>2, <1>3, <1>6

LEMMA NoHeaders ==
  ASSUME NEW s \in Seq(Int), \A i \in 1..Len(s) : s[i] # Colon
  PROVE  Headers(s) = [headers |-> <<>>, next |-> 1]
<1> DEFINE D == 1..Len(s) + 1
           Turn(f, i) ==
             LET h == SubSeq(s, i, Len(s))
                 n == Find(h, <<Colon>>)
                 r == RemovePrefix(h, n)
                 blanks == CHOOSE k \in 0..Len(r) : (\A j \in 1..k : r[j] = SP)
                                                      /\ (k < Len(r) => r[k + 1] # SP)
                 value == RemovePrefix(r, blanks)
                 v == Find(value, CRLF)
                 rest == f[i + n + blanks + v + 1]
             IN  IF Find(h, CRLF) = 0 \/ StartsWith(h, CRLF) \/ n = 0
                 THEN [headers |-> <<>>, next |-> i]
                 ELSE [rest EXCEPT !.headers = Emplaced(Before(h, n), Before(value, v), @)]
           from == CHOOSE f : f = [i \in D |-> Turn(f, i)]
           g == [i \in D |-> [headers |-> <<>>, next |-> i]]
<1>1. Len(s) \in Nat /\ 1 \in D
  BY TextFacts
<1>2. ASSUME NEW f, NEW i \in D PROVE Turn(f, i) = [headers |-> <<>>, next |-> i]
  <2>1. PICK h : h = SubSeq(s, i, Len(s))
    OBVIOUS
  <2>2. h \in Seq(Int) /\ \A j \in 1..Len(h) : h[j] # Colon
    BY <1>1, <2>1, SuffixLacks
  <2>3. Find(h, <<Colon>>) = 0
    BY ONLY <2>2, FindNone DEF Colon
  <2> QED
    BY <2>1, <2>3
<1>3. Headers(s) = from[1]
  BY DEF Headers
<1> HIDE DEF Turn
<1>4. g = [i \in D |-> Turn(g, i)]
  BY <1>2
<1>5. from = [i \in D |-> Turn(from, i)]
  BY <1>4
<1>6. from[1] = Turn(from, 1)
  BY <1>1, <1>5
<1> QED
  BY <1>1, <1>2, <1>3, <1>6

(* The body that follows the empty line is never looked at. *)
LEMMA EmptyBody ==
  ASSUME NEW s \in Seq(Int), Len(s) > 1, s[1] = CR, s[2] = LF
  PROVE  Body(s) = <<>>
<1>1. CR \in Int /\ LF \in Int /\ Len(s) \in Nat
  BY TextFacts DEF CR, LF
<1>2. 1 \in 1..Len(s) - 1 /\ 1 \in 1..Len(s) + 1 /\ s[1 + 1] = LF /\ \A i \in 1..1 - 1 : s[i] # CR \/ s[i + 1] # LF
  BY <1>1
<1>3. Find(s, <<CR, LF>>) = 1
  BY ONLY <1>1, <1>2, FindTwo, s \in Seq(Int), s[1] = CR
<1>4. Before(s, 1) \in Seq(Int) /\ Len(Before(s, 1)) = 0
  BY <1>2, PartBefore
<1>5. Before(s, 1) = <<>>
  BY <1>4
<1> QED
  BY <1>3, <1>5 DEF Body, CRLF

-----------------------------------------------------------------------------
(* How a message is written, if it names a version. *)
LEMMA NoQuery == Joined(<<>>) = <<>>
<1> DEFINE D == 1..Len(<<>>) + 1
           Turn(f, i) ==
             IF i > Len(<<>>) THEN <<>>
             ELSE <<IF i = 1 THEN Question ELSE Amp, <<>>[i][1], Equals, <<>>[i][2]>> \o f[i + 1]
           from == CHOOSE f : f = [i \in D |-> Turn(f, i)]
           g == [i \in D |-> <<>>]
<1>1. Len(<<>>) = 0 /\ 1 \in D
  OBVIOUS
<1>2. ASSUME NEW f, NEW i \in D PROVE Turn(f, i) = <<>>
  BY <1>1
<1>3. Joined(<<>>) = from[1]
  BY DEF Joined
<1> HIDE DEF Turn
<1>4. g = [i \in D |-> Turn(g, i)]
  BY <1>2
<1>5. from = [i \in D |-> Turn(from, i)]
  BY <1>4
<1> QED
  BY <1>1, <1>2, <1>3, <1>5

LEMMA NoLines == Lines(<<>>) = <<>>
<1> DEFINE D == 1..Len(<<>>) + 1
           Turn(f, i) ==
             IF i > Len(<<>>) THEN <<>>
             ELSE <<<<>>[i][1], Colon, SP, <<>>[i][2]>> \o CRLF \o f[i + 1]
           from == CHOOSE f : f = [i \in D |-> Turn(f, i)]
           g == [i \in D |-> <<>>]
<1>1. Len(<<>>) = 0 /\ 1 \in D
  OBVIOUS
<1>2. ASSUME NEW f, NEW i \in D PROVE Turn(f, i) = <<>>
  BY <1>1
<1>3. Lines(<<>>) = from[1]
  BY DEF Lines
<1> HIDE DEF Turn
<1>4. g = [i \in D |-> Turn(g, i)]
  BY <1>2
<1>5. from = [i \in D |-> Turn(from, i)]
  BY <1>4
<1> QED
  BY <1>1, <1>2, <1>3, <1>5

LEMMA CRLFText == CRLF \in Seq(Int) /\ Len(CRLF) = 2 /\ CRLF[1] = CR /\ CRLF[2] = LF
BY DEF CRLF, CR, LF

LEMMA TextVersioned ==
  ASSUME NEW m, m.versioned, m.method \in Int, m.target \in Seq(Int), Joined(m.query) \in Seq(Int),
         Lines(m.headers) \in Seq(Int), m.body \in Seq(Int)
  PROVE  Text(m) = Versioned(m.method, m.target \o Joined(m.query), Lines(m.headers) \o CRLF \o m.body)
<1>1. PICK e : e = <<m.method, SP>> /\ e \in Seq(Int)
  <2>1. SP \in Int /\ m.method \in Int
    BY DEF SP
  <2>2. <<m.method, SP>> \in Seq(Int)
    BY ONLY <2>1
  <2> QED
    BY ONLY <2>2
<1>2. PICK t : t = m.target /\ t \in Seq(Int)
  OBVIOUS
<1>3. PICK j : j = Joined(m.query) /\ j \in Seq(Int)
  OBVIOUS
<1>4. PICK v : v = <<SP, HTTP>> /\ v \in Seq(Int)
  <2>1. SP \in Int /\ HTTP \in Int
    BY DEF SP, HTTP
  <2>2. <<SP, HTTP>> \in Seq(Int)
    BY ONLY <2>1
  <2> QED
    BY ONLY <2>2
<1>5. PICK c : c = CRLF /\ c \in Seq(Int)
  BY CRLFText
<1>6. PICK l : l = Lines(m.headers) /\ l \in Seq(Int)
  OBVIOUS
<1>7. PICK b : b = m.body /\ b \in Seq(Int)
  OBVIOUS
<1>9. PICK q : q = t \o j
  OBVIOUS
<1>10. PICK r : r = v \o c
  OBVIOUS
<1>11. PICK k : k = l \o c
  OBVIOUS
<1>12. q \in Seq(Int) /\ r \in Seq(Int) /\ k \in Seq(Int)
  <2>1. q \in Seq(Int)
    BY ONLY <1>9, Joined2, <1>2, <1>3
  <2>2. r \in Seq(Int)
    BY ONLY <1>10, Joined2, <1>4, <1>5
  <2>3. k \in Seq(Int)
    BY ONLY <1>11, Joined2, <1>6, <1>5
  <2> QED
    BY ONLY <2>1, <2>2, <2>3
<1>13. PICK a : a = e \o q
  OBVIOUS
<1>14. PICK d : d = a \o r
  OBVIOUS
<1>15. PICK w : w = k \o b
  OBVIOUS
<1>16. a \in Seq(Int) /\ w \in Seq(Int)
  <2>1. a \in Seq(Int)
    BY ONLY <1>12, <1>13, Joined2, <1>1
  <2>2. w \in Seq(Int)
    BY ONLY <1>12, <1>15, Joined2, <1>7
  <2> QED
    BY ONLY <2>1, <2>2
<1>17. d \in Seq(Int) /\ r \o w \in Seq(Int)
  <2>1. d \in Seq(Int)
    BY ONLY <1>12, <1>14, <1>16, Joined2
  <2>2. r \o w \in Seq(Int)
    BY ONLY <1>12, <1>16, Joined2
  <2> QED
    BY ONLY <2>1, <2>2
<1>18. PICK y : y = r \o w
  OBVIOUS
<1>19. y \in Seq(Int)
  BY ONLY <1>17, <1>18
<1>20. (e \o t) \o j = e \o (t \o j)
  BY ONLY Associative, <1>1, <1>2, <1>3
<1>21. (a \o v) \o c = a \o (v \o c)
  BY ONLY <1>16, Associative, <1>4, <1>5
<1>22. (d \o l) \o c = d \o (l \o c)
  BY ONLY <1>17, Associative, <1>6, <1>5, SMTT(30)
<1>23. (d \o k) \o b = d \o (k \o b)
  BY ONLY <1>12, <1>17, Associative, <1>7, ZenonT(40)
<1>24. (a \o r) \o w = a \o (r \o w)
  BY ONLY <1>12, <1>16, Associative, SMTT(30)
<1>25. (e \o q) \o y = e \o (q \o y)
  BY ONLY <1>12, <1>19, Associative, <1>1
<1>26. (e \o t) \o j = a
  BY ONLY <1>9, <1>13, <1>20
<1>27. (a \o v) \o c = d
  BY ONLY <1>10, <1>14, <1>21
<1>28. ((d \o l) \o c) \o b = d \o w
  BY ONLY <1>11, <1>15, <1>22, <1>23
<1>29. d \o w = e \o (q \o y)
  BY ONLY <1>13, <1>14, <1>18, <1>24, <1>25
<1>30. Text(m) = ((((((e \o t) \o j) \o v) \o c) \o l) \o c) \o b
  BY ONLY <1>1, <1>2, <1>3, <1>4, <1>5, <1>6, <1>7, m.versioned DEF Text
<1>31. Text(m) = e \o (q \o y)
  BY ONLY <1>26, <1>27, <1>28, <1>29, <1>30
<1>32. y = (v \o c) \o ((l \o c) \o b)
  BY ONLY <1>10, <1>11, <1>15, <1>18
<1> QED
  BY ONLY <1>1, <1>2, <1>3, <1>4, <1>5, <1>6, <1>7, <1>9, <1>31, <1>32 DEF Versioned

-----------------------------------------------------------------------------
(* A path in which nothing is escaped, and which asks nothing, is read as it  *)
(* is written, whatever else it is and whatever the method.                   *)
PlainPath(path) ==
  /\ path \in Seq(Int) /\ Len(path) > 0 /\ path[1] = Slash
  /\ \A i \in 1..Len(path) : path[i] \notin {SP, Percent, Question}

Read(how, x, path) ==
  [how |-> how, method |-> <<x>>, path |-> path, query_params |-> <<>>, version |-> <<HTTP>>,
   headers |-> <<>>, body |-> <<>>]

LEMMA NothingAfter ==
  /\ Headers(CRLF) = [headers |-> <<>>, next |-> 1]
  /\ Body(SubSeq(CRLF, 1, Len(CRLF))) = <<>>
<1>1. \A i \in 1..Len(CRLF) : CRLF[i] # Colon
  BY CRLFText DEF CR, LF, Colon
<1>2. Headers(CRLF) = [headers |-> <<>>, next |-> 1]
  BY ONLY <1>1, CRLFText, NoHeaders
<1>3. SubSeq(CRLF, 1, Len(CRLF)) = CRLF
  BY CRLFText, WholeText
<1>4. Body(CRLF) = <<>>
  <2>1. Len(CRLF) > 1
    BY CRLFText
  <2> QED
    BY ONLY <2>1, CRLFText, EmptyBody
<1> QED
  BY ONLY <1>2, <1>3, <1>4

LEMMA TargetRead ==
  ASSUME NEW x, NEW how, NEW path \in Seq(Int), \A i \in 1..Len(path) : path[i] # Question
  PROVE  ReadOf(x, [how |-> how, text |-> path], CRLF) = Read(how, x, path)
<1>1. Find(path, <<Question>>) = 0
  BY FindNone DEF Question
<1>2. QueryParams(From(path, 0)) = [how |-> "text", params |-> <<>>] /\ PathOnly(path, 0) = path
  <2>1. From(path, 0) = <<>> /\ PathOnly(path, 0) = path
    BY DEF From, PathOnly, Before
  <2>2. <<>> \in Seq(Int) /\ \A i \in 1..Len(<<>>) : <<>>[i] # Equals
    OBVIOUS
  <2>3. QueryParams(<<>>) = [how |-> "text", params |-> <<>>]
    BY ONLY <2>2, NoParams
  <2> QED
    BY ONLY <2>1, <2>3
<1>3. PICK u : u = [how |-> how, text |-> path]
  OBVIOUS
<1>4. u.how = how /\ u.text = path
  BY <1>3
<1>5. ReadOf(x, u, CRLF) = Read(how, x, path)
  BY ONLY <1>1, <1>2, <1>4, NothingAfter DEF ReadOf, Read
<1> QED
  BY ONLY <1>3, <1>5

(* How a message without parameters, headers and body is written. *)
LEMMA TextBare ==
  ASSUME NEW m, m.versioned, m.method \in Int, m.target \in Seq(Int), m.query = <<>>,
         m.headers = <<>>, m.body = <<>>
  PROVE  Text(m) = Versioned(m.method, m.target, CRLF)
<1>1. Joined(m.query) = <<>> /\ Lines(m.headers) = <<>> /\ <<>> \in Seq(Int)
  BY NoQuery, NoLines
<1>2. Text(m) = Versioned(m.method, m.target \o <<>>, <<>> \o CRLF \o <<>>)
  BY ONLY <1>1, TextVersioned, m.versioned, m.method \in Int, m.target \in Seq(Int), m.body = <<>>
<1>3. m.target \o <<>> = m.target
  OBVIOUS
<1>4. <<>> \o CRLF \o <<>> = CRLF
  BY CRLFText
<1> QED
  BY ONLY <1>2, <1>3, <1>4

LEMMA BareRead ==
  ASSUME NEW m, m.versioned, m.method \in Int, m.method # SP, m.target \in Seq(Int),
         m.query = <<>>, m.headers = <<>>, m.body = <<>>,
         Len(m.target) > 0, m.target[1] = Slash, \A i \in 1..Len(m.target) : m.target[i] # SP,
         NEW how, NEW path \in Seq(Int), \A i \in 1..Len(path) : path[i] # Question,
         Unescape(m.target, <<SP, HTTP>> \o CRLF \o CRLF) = [how |-> how, text |-> path]
  PROVE  Parse(Text(m)) = Read(how, m.method, path)
<1>1. Text(m) = Versioned(m.method, m.target, CRLF)
  BY TextBare
<1>2. PICK x, t : x = m.method /\ t = m.target
  OBVIOUS
<1>3. x \in Int /\ t \in Seq(Int) /\ x # SP /\ Len(t) > 0 /\ t[1] = Slash /\ \A i \in 1..Len(t) : t[i] # SP
  BY <1>2
<1>4. Parse(Versioned(x, t, CRLF)) = ReadOf(x, Unescape(t, <<SP, HTTP>> \o CRLF \o CRLF), CRLF)
  BY ONLY <1>3, CRLFText, ParseVersioned
<1>5. ReadOf(x, [how |-> how, text |-> path], CRLF) = Read(how, x, path)
  BY TargetRead
<1> QED
  BY ONLY <1>1, <1>2, <1>4, <1>5,
          Unescape(m.target, <<SP, HTTP>> \o CRLF \o CRLF) = [how |-> how, text |-> path]

LEMMA PlainRead ==
  ASSUME NEW x \in Int, x # SP, NEW path, PlainPath(path)
  PROVE  Parse(Text(Plain(x, path))) = Read("text", x, path)
<1>1. /\ path \in Seq(Int) /\ Len(path) > 0 /\ path[1] = Slash
      /\ \A i \in 1..Len(path) : path[i] # SP
      /\ \A i \in 1..Len(path) : path[i] # Percent
      /\ \A i \in 1..Len(path) : path[i] # Question
  BY DEF PlainPath
<1>2. PICK m : m = Plain(x, path)
  OBVIOUS
<1>3. /\ m.versioned /\ m.method = x /\ m.target = path /\ m.query = <<>> /\ m.headers = <<>>
      /\ m.body = <<>>
  BY <1>2 DEF Plain
<1>4. Unescape(path, <<SP, HTTP>> \o CRLF \o CRLF) = [how |-> "text", text |-> path]
  BY ONLY <1>1, UnescapePlain DEF Unescaped
<1>5. Parse(Text(m)) = Read("text", m.method, path)
  BY ONLY <1>1, <1>3, <1>4, BareRead, x \in Int, x # SP
<1> QED
  BY ONLY <1>2, <1>3, <1>5

-----------------------------------------------------------------------------
(* An escape: the digits after the only % decide what unescaping makes of all *)
(* that stands before it.                                                     *)
EscapedAs(origin, memory, p) ==
  LET digits == Digits(RemovePrefix(origin \o memory, p))
  IN  IF Len(digits) \notin 1..16 THEN [how |-> "throws", text |-> <<>>]
      ELSE IF ToChar(digits) = 0 THEN [how |-> "hangs", text |-> <<>>]
      ELSE IF p + 2 > Len(origin) THEN [how |-> "throws", text |-> <<>>]
      ELSE [how |-> "text", text |-> <<ToChar(digits)>> \o SubSeq(origin, p + 3, Len(origin))]

LEMMA Prepended ==
  ASSUME NEW e, NEW k, NEW r, r = [how |-> "text", text |-> e]
  PROVE  [r EXCEPT !.text = k \o @] = [how |-> "text", text |-> k \o e]
<1>1. r.text = e
  OBVIOUS
<1>2. \A w : [r EXCEPT !.text = w] = [how |-> "text", text |-> w]
  OBVIOUS
<1>3. [r EXCEPT !.text = k \o e] = [how |-> "text", text |-> k \o e]
  BY <1>2
<1>4. k \o r.text = k \o e
  BY <1>1, Zenon
<1> QED
  BY ONLY <1>3, <1>4, Zenon

LEMMA OneEscape ==
  ASSUME NEW origin \in Seq(Int), NEW memory, NEW p \in 1..Len(origin), origin[p] = Percent,
         \A i \in 1..Len(origin) : origin[i] = Percent => i = p
  PROVE  Unescape(origin, memory) = EscapedAs(origin, memory, p)
<1> DEFINE D == 1..Len(origin) + 1
           Turn(f, i) ==
             LET at == Find(SubSeq(origin, i, Len(origin)), <<Percent>>) + i - 1
                 digits == Digits(RemovePrefix(origin \o memory, at))
             IN  IF at = i - 1 THEN [how |-> "text", text |-> SubSeq(origin, i, Len(origin))]
                 ELSE IF Len(digits) \notin 1..16 THEN [how |-> "throws", text |-> <<>>]
                 ELSE IF ToChar(digits) = 0 THEN [how |-> "hangs", text |-> <<>>]
                 ELSE IF at + 2 > Len(origin) THEN [how |-> "throws", text |-> <<>>]
                 ELSE [f[at + 3] EXCEPT !.text = <<ToChar(digits)>> \o @]
           from == CHOOSE f : f = [i \in D |-> Turn(f, i)]
           rest(i) == [how |-> "text", text |-> SubSeq(origin, i, Len(origin))]
           g == [i \in D |-> IF i <= p THEN EscapedAs(origin, memory, p) ELSE rest(i)]
<1>1. Len(origin) \in Nat /\ 1 \in D /\ 1 <= p /\ p \in Int
  BY TextFacts
<1>2. ASSUME NEW i \in D
      PROVE  Find(SubSeq(origin, i, Len(origin)), <<Percent>>) + i - 1 = IF i <= p THEN p ELSE i - 1
  <2>1. i \in 1..Len(origin) + 1 /\ Len(origin) \in i - 1..Len(origin) /\ i \in Int
    BY <1>1
  <2>2. PICK s : s = SubSeq(origin, i, Len(origin))
    OBVIOUS
  <2>3. s \in Seq(Int) /\ Len(s) = Len(origin) - i + 1 /\ \A j \in 1..Len(origin) - i + 1 : s[j] = origin[i + j - 1]
    BY <2>1, <2>2, SubText
  <2>4. CASE i <= p
    <3>1. PICK k \in Int : k = p - i + 1
      BY <1>1, <2>1
    <3>2. k \in 1..Len(origin) - i + 1 /\ i + k - 1 = p
      BY <1>1, <2>1, <2>4, <3>1
    <3>3. s[k] = Percent /\ k \in 1..Len(s)
      BY <2>3, <3>2
    <3>4. ASSUME NEW j \in 1..k - 1 PROVE s[j] # Percent
      <4>1. j \in 1..Len(origin) - i + 1 /\ i + j - 1 \in 1..Len(origin) /\ i + j - 1 # p
        BY <1>1, <2>1, <3>1, <3>2
      <4> QED
        BY <2>3, <4>1
    <3>5. Find(s, <<Percent>>) = k
      <4>1. Percent \in Int /\ s \in Seq(Int)
        BY <2>3 DEF Percent
      <4> QED
        BY ONLY <3>3, <3>4, <4>1, FindOne
    <3>6. k + i - 1 = p
      BY <1>1, <2>1, <3>1
    <3> QED
      BY ONLY <2>2, <2>4, <3>5, <3>6
  <2>5. CASE ~(i <= p)
    <3>1. ASSUME NEW j \in 1..Len(s) PROVE s[j] # Percent
      <4>1. j \in 1..Len(origin) - i + 1 /\ i + j - 1 \in 1..Len(origin) /\ i + j - 1 # p
        BY <1>1, <2>1, <2>3, <2>5
      <4> QED
        BY <2>3, <4>1
    <3>2. Find(s, <<Percent>>) = 0
      BY ONLY <2>3, <3>1, FindNone DEF Percent
    <3>3. 0 + i - 1 = i - 1
      BY <2>1
    <3> QED
      BY ONLY <2>2, <2>5, <3>2, <3>3
  <2> QED
    BY ONLY <2>4, <2>5
<1>3. ASSUME NEW f, NEW i \in D, i > p PROVE Turn(f, i) = rest(i)
  <2>1. ~(i <= p)
    BY <1>1, <1>3
  <2>2. Find(SubSeq(origin, i, Len(origin)), <<Percent>>) + i - 1 = i - 1
    BY ONLY <1>2, <1>3, <2>1
  <2> QED
    BY ONLY <2>2
<1>4. ASSUME NEW f, NEW i \in D, i <= p, p + 3 \in D => f[p + 3] = rest(p + 3)
      PROVE  Turn(f, i) = EscapedAs(origin, memory, p)
  <2>1. Find(SubSeq(origin, i, Len(origin)), <<Percent>>) + i - 1 = p
    BY ONLY <1>2, <1>4
  <2>2. p # i - 1 /\ (~(p + 2 > Len(origin)) => p + 3 \in D)
    BY <1>1, <1>4
  <2>3. ASSUME NEW c, ~(p + 2 > Len(origin))
        PROVE  [f[p + 3] EXCEPT !.text = <<c>> \o @]
                 = [how |-> "text", text |-> <<c>> \o SubSeq(origin, p + 3, Len(origin))]
    <3>1. f[p + 3] = rest(p + 3)
      BY ONLY <1>4, <2>2, <2>3
    <3>2. f[p + 3] = [how |-> "text", text |-> SubSeq(origin, p + 3, Len(origin))]
      BY ONLY <3>1
    <3> QED
      BY ONLY <3>2, Prepended
  <2> QED
    BY ONLY <2>1, <2>2, <2>3 DEF EscapedAs
<1>5. Unescape(origin, memory) = from[1]
  BY DEF Unescape
<1> HIDE DEF Turn, rest
<1>6. p + 3 \in D => g[p + 3] = rest(p + 3)
  BY <1>1
<1>7. ASSUME NEW i \in D PROVE g[i] = Turn(g, i)
  <2>1. i \in Int
    BY <1>1
  <2>2. CASE i <= p
    BY <1>4, <1>6, <2>2
  <2>3. CASE ~(i <= p)
    <3>1. i > p
      BY <1>1, <2>1, <2>3
    <3> QED
      BY <1>3, <2>3, <3>1
  <2> QED
    BY ONLY <2>2, <2>3
<1>8. g = [i \in D |-> Turn(g, i)]
  BY ONLY <1>7
<1>9. from = [i \in D |-> Turn(from, i)]
  BY ONLY <1>8
<1>10. p + 3 \in D => from[p + 3] = rest(p + 3)
  <2>1. p + 3 > p
    BY <1>1
  <2> QED
    BY ONLY <1>3, <1>9, <2>1
<1>11. from[1] = EscapedAs(origin, memory, p)
  <2>1. from[1] = Turn(from, 1)
    BY ONLY <1>1, <1>9
  <2> QED
    BY ONLY <1>1, <1>4, <1>10, <2>1
<1> QED
  BY ONLY <1>5, <1>11

LEMMA DigitsAre ==
  ASSUME NEW s \in Seq(Int), NEW k \in Nat, k < Len(s), \A i \in 1..k : s[i] \in HexDigits,
         s[k + 1] \notin HexDigits
  PROVE  Digits(s) = SubSeq(s, 1, k)
<1> DEFINE Good(n) == (\A i \in 1..n : s[i] \in HexDigits) /\ (n < Len(s) => s[n + 1] \notin HexDigits)
<1>1. Len(s) \in Nat
  BY TextFacts
<1>2. k \in 0..Len(s) /\ Good(k)
  BY <1>1
<1>3. ASSUME NEW n \in 0..Len(s), Good(n) PROVE n = k
  <2>1. CASE n < k
    <3>1. n + 1 \in 1..k /\ n < Len(s)
      BY <1>1, <2>1
    <3> QED
      BY <1>3, <3>1
  <2>2. CASE k < n
    <3>1. k + 1 \in 1..n
      BY <1>1, <2>2
    <3> QED
      BY <1>3, <3>1
  <2> QED
    BY <1>1, <2>1, <2>2
<1> HIDE DEF Good
<1>4. (CHOOSE n \in 0..Len(s) : Good(n)) = k
  BY ONLY <1>2, <1>3
<1>5. Digits(s) = SubSeq(s, 1, CHOOSE n \in 0..Len(s) : Good(n))
  BY DEF Digits, Good
<1> QED
  BY ONLY <1>4, <1>5

-----------------------------------------------------------------------------
(* A request that names no version: the search for one fails, the path is all *)
(* that follows the method, and the version what stands before the first line *)
(* break.                                                                     *)
LEMMA Lacking ==
  ASSUME NEW u \in Seq(Int), NEW v \in Seq(Int), NEW c,
         \A i \in 1..Len(u) : u[i] # c, \A i \in 1..Len(v) : v[i] # c
  PROVE  \A i \in 1..Len(u \o v) : (u \o v)[i] # c
<1>1. PICK w : w = u \o v
  OBVIOUS
<1>2. PICK n \in Nat, k \in Nat : n = Len(u) /\ k = Len(v)
  BY TextFacts
<1>3. /\ Len(w) = n + k /\ \A i \in 1..n : w[i] = u[i]
      /\ \A i \in 1..k : w[n + i] = v[i]
  BY ONLY <1>1, <1>2, Joined2, u \in Seq(Int), v \in Seq(Int)
<1>4. ASSUME NEW i \in 1..Len(w) PROVE w[i] # c
  <2>1. CASE i \in 1..n
    BY <1>2, <1>3, <2>1
  <2>2. CASE i \notin 1..n
    <3>1. i - n \in 1..k /\ n + (i - n) = i
      BY <1>2, <1>3, <2>2
    <3> QED
      BY <1>2, <1>3, <3>1
  <2> QED
    BY <2>1, <2>2
<1> QED
  BY <1>1, <1>4

Unversioned(x, t) == <<x, SP>> \o (t \o (CRLF \o CRLF))

ReadUnversioned(x, t) ==
  [how |-> "text", method |-> <<x>>, path |-> t \o (CRLF \o CRLF), query_params |-> <<>>,
   version |-> t, headers |-> <<>>, body |-> <<>>]

LEMMA TwoLines ==
  /\ CRLF \o CRLF \in Seq(Int) /\ Len(CRLF \o CRLF) = 4
  /\ (CRLF \o CRLF)[1] = CR /\ (CRLF \o CRLF)[2] = LF
  /\ \A i \in 1..Len(CRLF \o CRLF) : (CRLF \o CRLF)[i] \in {CR, LF}
<1>1. PICK w : w = CRLF \o CRLF
  OBVIOUS
<1>2. PICK n \in Nat : n = Len(CRLF) /\ n = 2
  BY ONLY CRLFText
<1>3. /\ w \in Seq(Int) /\ Len(w) = n + n
      /\ \A i \in 1..n : w[i] = CRLF[i]
      /\ \A i \in 1..n : w[n + i] = CRLF[i]
  BY ONLY <1>1, <1>2, CRLFText, Joined2, SMTT(30)
<1>4. Len(w) = 4 /\ w[1] = CR /\ w[2] = LF /\ w[3] = CR /\ w[4] = LF
  BY ONLY <1>2, <1>3, CRLFText
<1>5. \A i \in 1..Len(w) : w[i] \in {CR, LF}
  BY ONLY <1>4
<1> QED
  BY ONLY <1>1, <1>3, <1>4, <1>5

LEMMA ParseUnversioned ==
  ASSUME NEW x \in Int, NEW t \in Seq(Int), x # SP, Len(t) > 0, t[1] = Slash,
         \A i \in 1..Len(t) : t[i] # SP, \A i \in 1..Len(t) : t[i] # CR,
         \A i \in 1..Len(t) : t[i] # Percent, \A i \in 1..Len(t) : t[i] # Question
  PROVE  Parse(Unversioned(x, t)) = ReadUnversioned(x, t)
<1>1. /\ CR \in Int /\ LF \in Int /\ SP \in Int /\ HTTP \in Int /\ Slash \in Int
      /\ Percent \in Int /\ Question \in Int
      /\ {CR, LF} \cap {SP, Percent, Question} = {}
  BY DEF CR, LF, SP, HTTP, Slash, Percent, Question
<1>2. PICK f : f = <<x>>
  OBVIOUS
<1>3. PICK g : g = <<SP>>
  OBVIOUS
<1>4. /\ f \in Seq(Int) /\ Len(f) = 1 /\ f[1] = x
      /\ g \in Seq(Int) /\ Len(g) = 1 /\ g[1] = SP
  BY <1>1, <1>2, <1>3
<1>5. <<x, SP>> = f \o g
  BY <1>1, <1>2, <1>3
<1>6. PICK y : y = CRLF \o CRLF
  OBVIOUS
<1>7. y \in Seq(Int) /\ Len(y) = 4 /\ y[1] = CR /\ y[2] = LF /\ \A i \in 1..Len(y) : y[i] \in {CR, LF}
  BY ONLY <1>6, TwoLines
<1>8. PICK a : a = t \o y
  OBVIOUS
<1>9. a \in Seq(Int) /\ Len(a) > 0 /\ a[1] = Slash
  <2>1. 1 \in 1..Len(t) /\ Len(y) \in Nat /\ Len(t) \in Nat
    BY <1>7, TextFacts
  <2>2. a \in Seq(Int) /\ Len(a) = Len(t) + Len(y) /\ a[1] = t[1]
    BY <1>7, <1>8, <2>1, Joined2
  <2> QED
    BY <2>1, <2>2
<1>10. /\ \A i \in 1..Len(a) : a[i] # SP
       /\ \A i \in 1..Len(a) : a[i] # Percent
       /\ \A i \in 1..Len(a) : a[i] # Question
  <2>1. /\ \A i \in 1..Len(y) : y[i] # SP
        /\ \A i \in 1..Len(y) : y[i] # Percent
        /\ \A i \in 1..Len(y) : y[i] # Question
    BY <1>1, <1>7
  <2>5. t \in Seq(Int) /\ y \in Seq(Int)
    BY ONLY <1>7, t \in Seq(Int)
  <2>6. \A i \in 1..Len(t) : t[i] # SP
    OBVIOUS
  <2>7. \A i \in 1..Len(t) : t[i] # Percent
    OBVIOUS
  <2>8. \A i \in 1..Len(t) : t[i] # Question
    OBVIOUS
  <2>2. \A i \in 1..Len(a) : a[i] # SP
    BY ONLY <1>8, <2>1, <2>5, <2>6, Lacking
  <2>3. \A i \in 1..Len(a) : a[i] # Percent
    BY ONLY <1>8, <2>1, <2>5, <2>7, Lacking
  <2>4. \A i \in 1..Len(a) : a[i] # Question
    BY ONLY <1>8, <2>1, <2>5, <2>8, Lacking
  <2> QED
    BY <2>2, <2>3, <2>4
<1>11. PICK w : w = g \o a
  OBVIOUS
<1>12. w \in Seq(Int) /\ Len(w) = Len(a) + 1 /\ w[1] = SP /\ w[2] = Slash
  BY ONLY <1>4, <1>9, <1>11, Prefixed
<1>13. PICK s : s = f \o w
  OBVIOUS
<1>14. s = Unversioned(x, t) /\ s = (f \o g) \o a
  <2>1. (f \o g) \o a = f \o (g \o a)
    BY ONLY <1>4, <1>9, Associative
  <2> QED
    BY ONLY <1>5, <1>6, <1>8, <1>11, <1>13, <2>1 DEF Unversioned
<1>15. Find(s, <<SP, Slash>>) = 2
  <2>1. \A i \in 1..Len(f) : f[i] # SP
    BY <1>4
  <2>2. 2 = Len(f) + 1 /\ Len(w) > 1
    BY <1>4, <1>9, <1>12, TextFacts
  <2>3. Find(f \o w, <<SP, Slash>>) = Len(f) + 1
    <3>1. f \in Seq(Int) /\ w \in Seq(Int) /\ SP \in Int /\ Slash \in Int
      BY ONLY <1>1, <1>4, <1>12
    <3>2. w[1] = SP /\ w[2] = Slash /\ Len(w) > 1
      BY ONLY <1>12, <2>2
    <3> QED
      BY ONLY <2>1, <3>1, <3>2, FindAfter
  <2> QED
    BY ONLY <1>13, <2>2, <2>3
<1>16. RemovePrefix(s, 2) = a
  <2>0. f \o g \in Seq(Int) /\ Len(f \o g) = Len(f) + Len(g)
    BY ONLY <1>4, Joined2
  <2>1. f \o g \in Seq(Int) /\ 2 = Len(f \o g)
    <3>1. Len(f) + Len(g) = 2
      BY <1>4
    <3> QED
      BY ONLY <2>0, <3>1
  <2>2. RemovePrefix((f \o g) \o a, 2) = a
    BY ONLY <1>9, <2>1, TakenApart
  <2> QED
    BY ONLY <1>14, <2>2
<1>17. Before(s, 2) = f
  <2>1. PICK k : k = 1
    OBVIOUS
  <2>2. Before(f \o w, k + 1) = f
    BY ONLY <1>4, <1>12, <2>1, TakenApart
  <2>3. k + 1 = 2
    BY <2>1
  <2> QED
    BY ONLY <1>13, <2>2, <2>3
<1>18. Find(a, <<SP, HTTP>>) = 0
  <2>1. \A i \in 1..Len(a) - 1 : a[i] # SP \/ a[i + 1] # HTTP
    BY <1>9, <1>10, TextFacts
  <2> QED
    BY ONLY <1>1, <1>9, <2>1, FindNoPair
<1>19. Before(a, 0) = a /\ From(a, 0) = <<>> /\ RemovePrefix(a, 0) = a
  <2>1. RemovePrefix(a, 0) = SubSeq(a, 1, Len(a))
    BY DEF RemovePrefix
  <2>2. RemovePrefix(a, 0) = a
    BY ONLY <1>9, <2>1, WholeText
  <2> QED
    BY ONLY <2>2 DEF Before, From
<1>20. Unescape(a, <<>>) = Unescaped(a)
  BY ONLY <1>9, <1>10, UnescapePlain
<1>21. PICK n \in Nat : n = Len(t)
  BY TextFacts
<1>22. PICK v \in Nat : v = n + 1
  OBVIOUS
<1>23. Find(a, CRLF) = v
  <2>1. Find(t \o y, <<CR, LF>>) = Len(t) + 1
    <3>1. y[1] = CR /\ y[2] = LF /\ Len(y) > 1
      BY <1>7
    <3>2. CR \in Int /\ LF \in Int /\ y \in Seq(Int)
      BY <1>1, <1>7
    <3>3. \A i \in 1..Len(t) : t[i] # CR
      OBVIOUS
    <3> QED
      BY ONLY <3>1, <3>2, <3>3, FindAfter, t \in Seq(Int)
  <2>2. Len(t) + 1 = v
    BY ONLY <1>21, <1>22
  <2> QED
    BY ONLY <1>8, <2>1, <2>2 DEF CRLF
<1>24. Version(a) = t
  <2>1. Before(t \o y, n + 1) = t
    BY ONLY <1>7, <1>21, TakenApart, t \in Seq(Int)
  <2> QED
    BY ONLY <1>8, <1>22, <1>23, <2>1 DEF Version
<1>25. RemovePrefix(a, v + 1) = CRLF
  <2>1. PICK r : r = t \o CRLF
    OBVIOUS
  <2>2. r \in Seq(Int) /\ Len(r) = Len(t) + Len(CRLF)
    BY ONLY <2>1, CRLFText, Joined2, t \in Seq(Int)
  <2>3. v + 1 = Len(r)
    <3>1. Len(r) = n + 2
      BY ONLY <1>21, <2>2, CRLFText
    <3> QED
      BY ONLY <1>21, <1>22, <3>1
  <2>4. (t \o CRLF) \o CRLF = t \o (CRLF \o CRLF)
    BY ONLY CRLFText, Associative, t \in Seq(Int)
  <2>5. RemovePrefix(r \o CRLF, v + 1) = CRLF
    BY ONLY <2>2, <2>3, CRLFText, TakenApart
  <2> QED
    BY ONLY <1>6, <1>8, <2>1, <2>4, <2>5
<1>26. Parse(s) = Answered(s, 2, Unescape(Before(a, 0), From(a, 0)), a, CRLF)
  <2>1. PICK m, p : m = 2 /\ p = 0
    OBVIOUS
  <2>2. m = Find(s, <<SP, Slash>>) /\ a = RemovePrefix(s, m)
    BY ONLY <1>15, <1>16, <2>1
  <2>4. p = Find(a, <<SP, HTTP>>) /\ a = RemovePrefix(a, p)
    BY ONLY <1>18, <1>19, <2>1
  <2>6. v = Find(a, CRLF)
    BY ONLY <1>23
  <2>7. PICK b : b = a
    OBVIOUS
  <2>8. b = RemovePrefix(a, p) /\ v = Find(b, CRLF)
    BY ONLY <2>4, <2>6, <2>7
  <2>9. Parse(s) = Answered(s, m, Unescape(Before(a, p), From(a, p)), b, RemovePrefix(b, v + 1))
    BY ONLY <2>2, <2>4, <2>8 DEF Parse, Answered
  <2> QED
    BY ONLY <1>25, <2>1, <2>7, <2>9
<1>27. Parse(s) = Answered(s, 2, Unescaped(a), a, CRLF)
  BY ONLY <1>19, <1>20, <1>26
<1>28. Find(a, <<Question>>) = 0
  BY ONLY <1>1, <1>9, <1>10, FindNone
<1>29. QueryParams(From(a, 0)) = [how |-> "text", params |-> <<>>] /\ PathOnly(a, 0) = a
  <2>1. <<>> \in Seq(Int) /\ \A i \in 1..Len(<<>>) : <<>>[i] # Equals
    OBVIOUS
  <2>2. QueryParams(<<>>) = [how |-> "text", params |-> <<>>]
    BY ONLY <2>1, NoParams
  <2> QED
    BY ONLY <1>19, <2>2 DEF PathOnly
<1>30. Unescaped(a).how = "text" /\ Unescaped(a).text = a
  BY ONLY DEF Unescaped
<1>31. Answered(s, 2, Unescaped(a), a, CRLF) = ReadUnversioned(x, t)
  <2>1. PICK u : u = Unescaped(a)
    OBVIOUS
  <2>2. u.how = "text" /\ u.text = a
    BY ONLY <1>30, <2>1
  <2>3. PICK h : h = Headers(CRLF)
    OBVIOUS
  <2>4. h.headers = <<>> /\ h.next = 1 /\ Body(SubSeq(CRLF, h.next, Len(CRLF))) = <<>>
    BY ONLY <2>3, NothingAfter
  <2>5. PICK q : q = QueryParams(From(a, 0))
    OBVIOUS
  <2>6. q.how = "text" /\ q.params = <<>>
    BY ONLY <1>29, <2>5
  <2>7. Answered(s, 2, u, a, CRLF) =
          [how |-> "text", method |-> f, path |-> a, query_params |-> <<>>, version |-> t,
           headers |-> <<>>, body |-> <<>>]
    BY ONLY <1>17, <1>24, <1>28, <1>29, <2>2, <2>3, <2>4, <2>5, <2>6 DEF Answered
  <2> QED
    BY ONLY <1>2, <1>6, <1>8, <2>1, <2>7 DEF ReadUnversioned
<1> QED
  BY ONLY <1>14, <1>27, <1>31

LEMMA TextUnversioned ==
  ASSUME NEW m, ~m.versioned, m.method \in Int, m.target \in Seq(Int), m.query = <<>>,
         m.headers = <<>>, m.body = <<>>
  PROVE  Text(m) = Unversioned(m.method, m.target)
<1>1. Joined(m.query) = <<>> /\ Lines(m.headers) = <<>>
  BY NoQuery, NoLines
<1>2. PICK e : e = <<m.method, SP>> /\ e \in Seq(Int)
  <2>1. SP \in Int /\ m.method \in Int
    BY DEF SP
  <2>2. <<m.method, SP>> \in Seq(Int)
    BY ONLY <2>1
  <2> QED
    BY ONLY <2>2
<1>3. PICK t : t = m.target /\ t \in Seq(Int)
  OBVIOUS
<1>4. PICK c : c = CRLF /\ c \in Seq(Int)
  BY CRLFText
<1>5. PICK a : a = e \o t
  OBVIOUS
<1>6. PICK d : d = a \o c
  OBVIOUS
<1>7. PICK k : k = d \o c
  OBVIOUS
<1>8. a \in Seq(Int)
  BY ONLY <1>2, <1>3, <1>5, Joined2
<1>9. d \in Seq(Int)
  BY ONLY <1>4, <1>6, <1>8, Joined2
<1>10. k \in Seq(Int)
  BY ONLY <1>4, <1>7, <1>9, Joined2
<1>11. a \o <<>> = a /\ d \o <<>> = d /\ k \o <<>> = k
  BY ONLY <1>8, <1>9, <1>10
<1>12. Text(m) = ((((((e \o t) \o <<>>) \o <<>>) \o c) \o <<>>) \o c) \o <<>>
  BY ONLY <1>1, <1>2, <1>3, <1>4, ~m.versioned, m.body = <<>> DEF Text
<1>13. Text(m) = k
  BY ONLY <1>5, <1>6, <1>7, <1>11, <1>12
<1>14. (a \o c) \o c = a \o (c \o c)
  BY ONLY <1>4, <1>8, Associative
<1>15. c \o c \in Seq(Int)
  BY ONLY <1>4, Joined2
<1>16. PICK y : y = c \o c /\ y \in Seq(Int)
  BY ONLY <1>15
<1>17. (e \o t) \o y = e \o (t \o y)
  BY ONLY <1>2, <1>3, <1>16, Associative
<1> QED
  BY ONLY <1>2, <1>3, <1>4, <1>5, <1>6, <1>7, <1>13, <1>14, <1>16, <1>17 DEF Unversioned

-----------------------------------------------------------------------------
(* The digits of an escape are those that follow the % in the target: the      *)
(* space after the target ends them.                                           *)
LEMMA DigitsIn ==
  ASSUME NEW origin \in Seq(Int), NEW memory \in Seq(Int), Len(memory) > 0, memory[1] = SP,
         NEW p \in 1..Len(origin), NEW k \in 0..Len(origin) - p,
         \A j \in 1..k : origin[p + j] \in HexDigits,
         p + k < Len(origin) => origin[p + k + 1] \notin HexDigits
  PROVE  Digits(RemovePrefix(origin \o memory, p)) = SubSeq(origin, p + 1, p + k)
<1>1. PICK o : o = origin \o memory
  OBVIOUS
<1>2. PICK n \in Nat, l \in Nat : n = Len(origin) /\ l = Len(memory) /\ l > 0
  BY TextFacts
<1>3. /\ o \in Seq(Int) /\ Len(o) = n + l /\ \A i \in 1..n : o[i] = origin[i]
      /\ \A i \in 1..l : o[n + i] = memory[i]
  BY ONLY <1>1, <1>2, Joined2, origin \in Seq(Int), memory \in Seq(Int)
<1>4. PICK s : s = RemovePrefix(o, p)
  OBVIOUS
<1>5. p \in Int /\ p \in 1..n /\ k \in Int /\ k \in 0..n - p
  BY <1>2
<1>6. PICK m \in Nat : m = n + l - p
  <2>1. n + l - p \in Nat
    BY ONLY <1>2, <1>5, n \in Nat, l \in Nat
  <2> QED
    BY ONLY <2>1
<1>7. s \in Seq(Int) /\ Len(s) = m /\ \A i \in 1..m : s[i] = o[p + i]
  <2>1. s = SubSeq(o, p + 1, n + l)
    BY ONLY <1>3, <1>4 DEF RemovePrefix
  <2>2. p + 1 \in 1..Len(o) + 1 /\ n + l \in p + 1 - 1..Len(o) /\ n + l - (p + 1) + 1 = m
    <3>1. Len(o) = n + l
      BY ONLY <1>3
    <3>2. p + 1 \in 1..n + l + 1 /\ n + l \in p + 1 - 1..n + l /\ n + l - (p + 1) + 1 = m
      BY ONLY <1>2, <1>5, <1>6, n \in Nat, l \in Nat
    <3> QED
      BY ONLY <3>1, <3>2
  <2>3. s \in Seq(Int) /\ Len(s) = m /\ \A i \in 1..m : s[i] = o[p + 1 + i - 1]
    <3>1. PICK a, b : a = p + 1 /\ b = n + l
      OBVIOUS
    <3>2. a \in 1..Len(o) + 1 /\ b \in a - 1..Len(o) /\ b - a + 1 = m /\ s = SubSeq(o, a, b)
      BY ONLY <2>1, <2>2, <3>1
    <3>3. /\ SubSeq(o, a, b) \in Seq(Int) /\ Len(SubSeq(o, a, b)) = b - a + 1
          /\ \A i \in 1..b - a + 1 : SubSeq(o, a, b)[i] = o[a + i - 1]
      BY ONLY <1>3, <3>2, SubText
    <3>4. s \in Seq(Int) /\ Len(s) = m /\ \A i \in 1..m : s[i] = o[a + i - 1]
      BY ONLY <3>2, <3>3
    <3> QED
      BY ONLY <3>1, <3>4
  <2>4. \A i \in 1..m : p + 1 + i - 1 = p + i
    BY <1>5, <1>6
  <2> QED
    BY <2>3, <2>4
<1>8. k < m /\ k \in Nat
  BY <1>2, <1>5, <1>6
<1>9. \A i \in 1..k : s[i] \in HexDigits
  <2>1. \A i \in 1..k : i \in 1..m /\ p + i \in 1..n
    BY <1>2, <1>5, <1>6
  <2> QED
    BY <1>3, <1>7, <2>1, ZenonT(40)
<1>10. s[k + 1] \notin HexDigits
  <2>1. k + 1 \in 1..m /\ p + (k + 1) = p + k + 1
    BY <1>5, <1>6, <1>8
  <2>2. CASE p + k < n
    <3>1. p + k + 1 \in 1..n
      BY <1>5, <2>2
    <3> QED
      BY <1>2, <1>3, <1>7, <2>1, <2>2, <3>1
  <2>3. CASE ~(p + k < n)
    <3>1. p + k + 1 = n + 1 /\ 1 \in 1..l
      BY <1>2, <1>5, <2>3
    <3>2. s[k + 1] = SP
      <4>1. s[k + 1] = o[p + (k + 1)]
        BY ONLY <1>7, <2>1
      <4>2. o[n + 1] = memory[1]
        BY ONLY <1>3, <3>1
      <4> QED
        BY ONLY <2>1, <3>1, <4>1, <4>2, memory[1] = SP
    <3> QED
      BY <3>2 DEF SP, HexDigits
  <2> QED
    BY <2>2, <2>3
<1>11. Digits(s) = SubSeq(s, 1, k)
  BY <1>7, <1>8, <1>9, <1>10, DigitsAre
<1>12. SubSeq(s, 1, k) = SubSeq(origin, p + 1, p + k)
  <2>1. 1 \in 1..Len(s) + 1 /\ k \in 1 - 1..Len(s) /\ k - 1 + 1 = k
    BY <1>7, <1>8
  <2>2. p + 1 \in 1..Len(origin) + 1 /\ p + k \in p + 1 - 1..Len(origin) /\ p + k - (p + 1) + 1 = k
    BY <1>2, <1>5
  <2>3. PICK u : u = SubSeq(s, 1, k)
    OBVIOUS
  <2>4. PICK v : v = SubSeq(origin, p + 1, p + k)
    OBVIOUS
  <2>5. u \in Seq(Int) /\ Len(u) = k /\ \A i \in 1..k : u[i] = s[1 + i - 1]
    BY ONLY <1>7, <2>1, <2>3, SubText
  <2>6. v \in Seq(Int) /\ Len(v) = k /\ \A i \in 1..k : v[i] = origin[p + 1 + i - 1]
    BY ONLY <2>2, <2>4, SubText, origin \in Seq(Int)
  <2>7. ASSUME NEW i \in 1..k PROVE u[i] = v[i]
    <3>1. i \in 1..m /\ p + i \in 1..n /\ 1 + i - 1 = i /\ p + 1 + i - 1 = p + i
      BY ONLY <1>2, <1>5, <1>6, n \in Nat, l \in Nat, m \in Nat, i \in 1..k
    <3>2. u[i] = s[1 + i - 1] /\ v[i] = origin[p + 1 + i - 1]
      BY ONLY <2>5, <2>6, i \in 1..k
    <3>3. s[i] = o[p + i] /\ o[p + i] = origin[p + i]
      BY ONLY <1>3, <1>7, <3>1
    <3> QED
      BY ONLY <3>1, <3>2, <3>3
  <2>8. u = v
    BY ONLY <2>5, <2>6, <2>7, SameText
  <2> QED
    BY ONLY <2>3, <2>4, <2>8
<1> QED
  BY ONLY <1>1, <1>4, <1>11, <1>12

(* What follows the target of a bare request. *)
LEMMA AfterTarget ==
  LET memory == <<SP, HTTP>> \o CRLF \o CRLF
  IN  memory \in Seq(Int) /\ Len(memory) > 0 /\ memory[1] = SP
<1>1. PICK v : v = <<SP, HTTP>>
  OBVIOUS
<1>2. v \in Seq(Int) /\ Len(v) = 2 /\ v[1] = SP
  BY <1>1 DEF SP, HTTP
<1>3. PICK w : w = v \o CRLF
  OBVIOUS
<1>4. PICK z : z = w \o CRLF
  OBVIOUS
<1>5. 1 \in 1..2 /\ 1 \in 1..4 /\ 2 + 2 = 4 /\ 4 + 2 > 0
  OBVIOUS
<1>6. w \in Seq(Int) /\ Len(w) = 4 /\ w[1] = SP
  <2>1. w \in Seq(Int) /\ Len(w) = Len(v) + Len(CRLF) /\ \A i \in 1..Len(v) : w[i] = v[i]
    BY ONLY <1>2, <1>3, CRLFText, Joined2
  <2> QED
    BY ONLY <1>2, <1>5, <2>1, CRLFText
<1>7. z \in Seq(Int) /\ Len(z) > 0 /\ z[1] = SP
  <2>1. z \in Seq(Int) /\ Len(z) = Len(w) + Len(CRLF) /\ \A i \in 1..Len(w) : z[i] = w[i]
    BY ONLY <1>4, <1>6, CRLFText, Joined2
  <2> QED
    BY ONLY <1>5, <1>6, <2>1, CRLFText
<1> QED
  BY ONLY <1>1, <1>3, <1>4, <1>7

(* An escape right after the slash. *)
AtTwo(o, n, k, d) ==
  IF k \notin 1..16 THEN [how |-> "throws", text |-> <<>>]
  ELSE IF ToChar(d) = 0 THEN [how |-> "hangs", text |-> <<>>]
  ELSE IF n < 4 THEN [how |-> "throws", text |-> <<>>]
  ELSE [how |-> "text", text |-> <<ToChar(d)>> \o SubSeq(o, 5, n)]

LEMMA EscapeAtTwo ==
  ASSUME NEW o \in Seq(Int), NEW memory \in Seq(Int), Len(memory) > 0, memory[1] = SP,
         NEW n \in Nat, Len(o) = n, n > 1, o[1] # Percent, o[2] = Percent,
         \A i \in 3..n : o[i] # Percent,
         NEW k \in 0..n - 2, \A j \in 3..k + 2 : o[j] \in HexDigits,
         k + 2 < n => o[k + 3] \notin HexDigits
  PROVE  \E d \in Seq(Int) :
           /\ Len(d) = k /\ \A i \in 1..k : d[i] = o[i + 2]
           /\ Unescape(o, memory) = AtTwo(o, n, k, d)
<1>1. PICK p \in Nat : p = 2
  OBVIOUS
<1>2. p \in 1..Len(o) /\ o[p] = Percent
  BY <1>1
<1>3. \A i \in 1..Len(o) : o[i] = Percent => i = p
  <2>1. \A i \in 1..Len(o) : i = 1 \/ i = 2 \/ i \in 3..n
    OBVIOUS
  <2> QED
    BY <1>1, <2>1
<1>4. Unescape(o, memory) = EscapedAs(o, memory, p)
  BY ONLY <1>2, <1>3, OneEscape, o \in Seq(Int)
<1>5. PICK d : d = SubSeq(o, p + 1, p + k)
  OBVIOUS
<1>6. d \in Seq(Int) /\ Len(d) = k /\ \A i \in 1..k : d[i] = o[i + 2]
  <2>1. p + 1 \in 1..Len(o) + 1 /\ p + k \in p + 1 - 1..Len(o) /\ p + k - (p + 1) + 1 = k
    BY <1>1
  <2>2. d \in Seq(Int) /\ Len(d) = k /\ \A i \in 1..k : d[i] = o[p + 1 + i - 1]
    BY ONLY <1>5, <2>1, SubText, o \in Seq(Int)
  <2>3. \A i \in 1..k : p + 1 + i - 1 = i + 2
    BY <1>1
  <2> QED
    BY ONLY <2>2, <2>3
<1>7. Digits(RemovePrefix(o \o memory, p)) = d
  <2>1. k \in 0..Len(o) - p
    BY <1>1
  <2>2. \A j \in 1..k : o[p + j] \in HexDigits
    <3>1. \A j \in 1..k : p + j \in 3..k + 2
      BY <1>1
    <3> QED
      BY <3>1
  <2>3. p + k < Len(o) => o[p + k + 1] \notin HexDigits
    <3>1. p + k + 1 = k + 3 /\ p + k = k + 2
      BY <1>1
    <3> QED
      BY ONLY <3>1, Len(o) = n, k + 2 < n => o[k + 3] \notin HexDigits
  <2> QED
    BY ONLY <1>2, <1>5, <2>1, <2>2, <2>3, DigitsIn, o \in Seq(Int), memory \in Seq(Int),
            Len(memory) > 0, memory[1] = SP
<1>8. p + 3 = 5 /\ (p + 2 > n <=> n < 4)
  BY <1>1
<1>9. EscapedAs(o, memory, p) = AtTwo(o, n, k, d)
  <2>1. Len(d) = k
    BY <1>6
  <2>2. EscapedAs(o, memory, p) =
          IF Len(d) \notin 1..16 THEN [how |-> "throws", text |-> <<>>]
          ELSE IF ToChar(d) = 0 THEN [how |-> "hangs", text |-> <<>>]
          ELSE IF p + 2 > Len(o) THEN [how |-> "throws", text |-> <<>>]
          ELSE [how |-> "text", text |-> <<ToChar(d)>> \o SubSeq(o, p + 3, Len(o))]
    BY ONLY <1>7 DEF EscapedAs
  <2> QED
    BY ONLY <1>8, <2>1, <2>2, Len(o) = n DEF AtTwo
<1> QED
  BY ONLY <1>4, <1>6, <1>9

LEMMA Hex ==
  /\ 48 \in HexDigits /\ 54 \in HexDigits /\ 55 \in HexDigits /\ 102 \in HexDigits
  /\ 122 \notin HexDigits
BY DEF HexDigits

(* The three escapes of the messages. *)
LEMMA EscapeOfSeven ==
  ASSUME NEW memory \in Seq(Int), Len(memory) > 0, memory[1] = SP
  PROVE  Unescape(<<Slash, Percent, Digit(6), Digit(7), F>>, memory)
           = [how |-> "text", text |-> <<127, 102>>]
<1>1. PICK o : o = <<Slash, Percent, Digit(6), Digit(7), F>>
  OBVIOUS
<1>2. /\ o \in Seq(Int) /\ Len(o) = 5 /\ o[1] = 47 /\ o[2] = 37 /\ o[3] = 54 /\ o[4] = 55
      /\ o[5] = 102
  BY <1>1 DEF Slash, Percent, Digit, F
<1>3. PICK n \in Nat, k \in Nat : n = 5 /\ k = 3
  OBVIOUS
<1>4. /\ n > 1 /\ o[1] # Percent /\ o[2] = Percent /\ k \in 0..n - 2 /\ ~(k + 2 < n)
      /\ Len(o) = n
  BY <1>2, <1>3 DEF Percent
<1>5. \A i \in 3..n : i = 3 \/ i = 4 \/ i = 5
  BY <1>3
<1>6. \A i \in 3..n : o[i] # Percent
  BY <1>2, <1>5, SMTT(30) DEF Percent
<1>7. \A i \in 3..k + 2 : o[i] \in HexDigits
  <2>1. \A i \in 3..k + 2 : i = 3 \/ i = 4 \/ i = 5
    BY <1>3
  <2> QED
    BY ONLY <1>2, <2>1, Hex, ZenonT(40)
<1>8. PICK d \in Seq(Int) :
        /\ Len(d) = k /\ \A i \in 1..k : d[i] = o[i + 2]
        /\ Unescape(o, memory) = AtTwo(o, n, k, d)
  <2>1. o \in Seq(Int)
    BY <1>2
  <2>2. k + 2 < n => o[k + 3] \notin HexDigits
    BY ONLY <1>4
  <2> QED
    BY ONLY <1>4, <1>6, <1>7, <2>1, <2>2, EscapeAtTwo, n \in Nat, memory \in Seq(Int), Len(memory) > 0,
            memory[1] = SP
<1>9. d[2] = 55 /\ d[3] = 102
  <2>1. 2 \in 1..k /\ 2 + 2 = 4 /\ 3 \in 1..k /\ 3 + 2 = 5
    BY <1>3
  <2>2. d[2] = o[2 + 2] /\ d[3] = o[3 + 2]
    BY ONLY <1>8, <2>1
  <2> QED
    BY ONLY <1>2, <2>1, <2>2
<1>10. ToChar(d) = 127
  <2>1. Len(d) = 3 /\ 3 - 1 = 2
    BY ONLY <1>3, <1>8
  <2>2. ToChar(d) = HexValue(d[3]) + 16 * HexValue(d[2])
    BY ONLY <2>1 DEF ToChar
  <2>3. HexValue(102) = 15 /\ HexValue(55) = 7
    BY DEF HexValue
  <2> QED
    BY ONLY <1>9, <2>2, <2>3
<1>11. PICK e : e = SubSeq(o, 5, n)
  OBVIOUS
<1>12. e \in Seq(Int) /\ Len(e) = 1 /\ e[1] = 102
  <2>1. 5 \in 1..Len(o) + 1 /\ n \in 5 - 1..Len(o) /\ n - 5 + 1 = 1
    BY <1>2, <1>3
  <2>2. e \in Seq(Int) /\ Len(e) = 1 /\ \A i \in 1..1 : e[i] = o[5 + i - 1]
    BY ONLY <1>2, <1>11, <2>1, SubText
  <2>3. 1 \in 1..1 /\ 5 + 1 - 1 = 5
    OBVIOUS
  <2>4. e[1] = o[5]
    BY ONLY <2>2, <2>3
  <2> QED
    BY ONLY <1>2, <2>2, <2>4
<1>13. <<127>> \o e = <<127, 102>>
  <2>1. PICK u : u = <<127>>
    OBVIOUS
  <2>2. u \in Seq(Int) /\ Len(u) = 1 /\ u[1] = 127
    BY <2>1
  <2>3. u \o e \in Seq(Int) /\ Len(u \o e) = Len(e) + 1 /\ (u \o e)[1] = u[1] /\ (u \o e)[2] = e[1]
    BY ONLY <1>12, <2>2, Prefixed
  <2>4. PICK w : w = u \o e
    OBVIOUS
  <2>5. w \in Seq(Int) /\ Len(w) = 2 /\ w[1] = 127 /\ w[2] = 102
    BY ONLY <1>12, <2>2, <2>3, <2>4
  <2>6. w = <<127, 102>>
    BY ONLY <2>5
  <2> QED
    BY ONLY <2>1, <2>4, <2>6
<1>14. Unescape(o, memory) = [how |-> "text", text |-> <<ToChar(d)>> \o e]
  <2>1. k \in 1..16 /\ ~(n < 4) /\ 127 # 0
    BY <1>3
  <2> QED
    BY ONLY <1>8, <1>10, <1>11, <2>1 DEF AtTwo
<1> QED
  BY ONLY <1>1, <1>10, <1>13, <1>14

LEMMA EscapeOfZero ==
  ASSUME NEW memory \in Seq(Int), Len(memory) > 0, memory[1] = SP
  PROVE  Unescape(<<Slash, Percent, Digit(0), Digit(0)>>, memory) = [how |-> "hangs", text |-> <<>>]
<1>1. PICK o : o = <<Slash, Percent, Digit(0), Digit(0)>>
  OBVIOUS
<1>2. o \in Seq(Int) /\ Len(o) = 4 /\ o[1] = 47 /\ o[2] = 37 /\ o[3] = 48 /\ o[4] = 48
  BY <1>1 DEF Slash, Percent, Digit
<1>3. PICK n \in Nat, k \in Nat : n = 4 /\ k = 2
  OBVIOUS
<1>4. /\ n > 1 /\ o[1] # Percent /\ o[2] = Percent /\ k \in 0..n - 2 /\ ~(k + 2 < n)
      /\ Len(o) = n
  BY <1>2, <1>3 DEF Percent
<1>5. \A i \in 3..n : i = 3 \/ i = 4
  BY <1>3
<1>6. \A i \in 3..n : o[i] # Percent
  BY <1>2, <1>5, SMTT(30) DEF Percent
<1>7. \A i \in 3..k + 2 : o[i] \in HexDigits
  <2>1. \A i \in 3..k + 2 : i = 3 \/ i = 4
    BY <1>3
  <2> QED
    BY ONLY <1>2, <2>1, Hex, ZenonT(40)
<1>8. PICK d \in Seq(Int) :
        /\ Len(d) = k /\ \A i \in 1..k : d[i] = o[i + 2]
        /\ Unescape(o, memory) = AtTwo(o, n, k, d)
  <2>1. o \in Seq(Int)
    BY <1>2
  <2>2. k + 2 < n => o[k + 3] \notin HexDigits
    BY ONLY <1>4
  <2> QED
    BY ONLY <1>4, <1>6, <1>7, <2>1, <2>2, EscapeAtTwo, n \in Nat, memory \in Seq(Int), Len(memory) > 0,
            memory[1] = SP
<1>9. d[1] = 48 /\ d[2] = 48
  <2>1. 1 \in 1..k /\ 1 + 2 = 3 /\ 2 \in 1..k /\ 2 + 2 = 4
    BY <1>3
  <2>2. d[1] = o[1 + 2] /\ d[2] = o[2 + 2]
    BY ONLY <1>8, <2>1
  <2> QED
    BY ONLY <1>2, <2>1, <2>2
<1>10. ToChar(d) = 0
  <2>1. Len(d) = 2 /\ 2 - 1 = 1
    BY ONLY <1>3, <1>8
  <2>2. ToChar(d) = HexValue(d[2]) + 16 * HexValue(d[1])
    BY ONLY <2>1 DEF ToChar
  <2>3. HexValue(48) = 0
    BY DEF HexValue
  <2> QED
    BY ONLY <1>9, <2>2, <2>3
<1>11. k \in 1..16
  BY <1>3
<1> QED
  BY ONLY <1>1, <1>8, <1>10, <1>11 DEF AtTwo

LEMMA EscapeOfNothing ==
  ASSUME NEW memory \in Seq(Int), Len(memory) > 0, memory[1] = SP
  PROVE  Unescape(<<Slash, Percent, Z, Z>>, memory) = [how |-> "throws", text |-> <<>>]
<1>1. PICK o : o = <<Slash, Percent, Z, Z>>
  OBVIOUS
<1>2. o \in Seq(Int) /\ Len(o) = 4 /\ o[1] = 47 /\ o[2] = 37 /\ o[3] = 122 /\ o[4] = 122
  BY <1>1 DEF Slash, Percent, Z
<1>3. PICK n \in Nat, k \in Nat : n = 4 /\ k = 0
  OBVIOUS
<1>4. /\ n > 1 /\ o[1] # Percent /\ o[2] = Percent /\ k \in 0..n - 2 /\ Len(o) = n
  BY <1>2, <1>3 DEF Percent
<1>5. \A i \in 3..n : i = 3 \/ i = 4
  BY <1>3
<1>6. \A i \in 3..n : o[i] # Percent
  BY <1>2, <1>5, SMTT(30) DEF Percent
<1>7. \A i \in 3..k + 2 : o[i] \in HexDigits
  BY <1>3
<1>8. o[k + 3] \notin HexDigits
  <2>1. k + 3 = 3
    BY <1>3
  <2> QED
    BY ONLY <1>2, <2>1, Hex
<1>9. Unescape(o, memory) = [how |-> "throws", text |-> <<>>]
  <2>1. k \notin 1..16
    BY <1>3
  <2>5. o \in Seq(Int)
    BY <1>2
  <2>2. \A d : AtTwo(o, n, k, d) = [how |-> "throws", text |-> <<>>]
    BY ONLY <2>1 DEF AtTwo
  <2>3. k + 2 < n => o[k + 3] \notin HexDigits
    BY ONLY <1>8
  <2>4. \E d \in Seq(Int) :
          /\ Len(d) = k /\ \A i \in 1..k : d[i] = o[i + 2]
          /\ Unescape(o, memory) = AtTwo(o, n, k, d)
    BY ONLY <1>4, <1>6, <1>7, <2>3, <2>5, EscapeAtTwo, n \in Nat, memory \in Seq(Int),
            Len(memory) > 0, memory[1] = SP, ZenonT(40)
  <2> QED
    BY ONLY <2>2, <2>4
<1> QED
  BY ONLY <1>1, <1>9

-----------------------------------------------------------------------------
(* What on_request needs of what it is given, for the messages of one line. *)
LEMMA FindLacking ==
  ASSUME NEW s \in Seq(Int), NEW what \in Seq(Int), Len(what) > 0,
         \A i \in 1..Len(s) : s[i] # what[1]
  PROVE  Find(s, what) = 0
<1> DEFINE at == {i \in 1..Len(s) - Len(what) + 1 : SubSeq(s, i, i + Len(what) - 1) = what}
<1>1. PICK n \in Nat, l \in Nat : n = Len(s) /\ l = Len(what) /\ l > 0
  BY TextFacts
<1>2. ASSUME NEW i \in 1..n - l + 1 PROVE SubSeq(s, i, i + l - 1) # what
  <2>1. i \in 1..Len(s) + 1 /\ i + l - 1 \in i - 1..Len(s) /\ i \in 1..Len(s) /\ 1 \in 1..i + l - 1 - i + 1
        /\ i + 1 - 1 = i
    BY <1>1
  <2>2. PICK u : u = SubSeq(s, i, i + l - 1)
    OBVIOUS
  <2>3. \A j \in 1..i + l - 1 - i + 1 : u[j] = s[i + j - 1]
    BY ONLY <2>1, <2>2, SubText, s \in Seq(Int)
  <2>4. u[1] = s[i]
    BY ONLY <2>1, <2>3
  <2> QED
    BY <2>1, <2>2, <2>4
<1>3. at = {}
  BY ONLY <1>1, <1>2
<1>4. Find(s, what) = IF at = {} THEN 0 ELSE CHOOSE i \in at : \A j \in at : i <= j
  BY DEF Find
<1> QED
  BY ONLY <1>3, <1>4

LEMMA BareAs ==
  ASSUME NEW m, m.query = <<>>, m.headers = <<>>, m.versioned, NEW how, NEW path,
         \/ path = m.path
         \/ /\ m.target # m.path /\ path \notin Files
            /\ m.method \in {GET, POST} /\ Find(m.path, <<Dot, Dot, Slash>>) = 0
  PROVE  ReadAs(m, Read(how, m.method, path))
<1>1. PICK r : r = Read(how, m.method, path)
  OBVIOUS
<1>2. /\ r.method = <<m.method>> /\ r.path = path /\ r.headers = <<>> /\ r.body = <<>>
  BY <1>1 DEF Read
<1>3. Len(<<>>) = 0 /\ DOMAIN <<>> = {} /\ 1..0 = {} /\ 2..0 - 1 = {}
  OBVIOUS
<1>4. /\ DOMAIN r.headers = {<<m.headers[i][1]>> : i \in 1..Len(m.headers)}
      /\ \A i \in 1..Len(m.headers) : r.headers[<<m.headers[i][1]>>] = <<m.headers[i][2]>>
      /\ \A i \in 2..Len(m.query) - 1 : r.query_params[<<m.query[i][1]>>] = <<m.query[i][2]>>
  BY ONLY <1>2, <1>3, m.query = <<>>, m.headers = <<>>
<1>5. Refused(m) => Checked(r, "200") # "200"
  <2>1. CASE m.method \notin {GET, POST}
    <3>1. r.method \notin {<<GET>>, <<POST>>}
      BY <1>2, <2>1
    <3> QED
      BY <3>1 DEF Checked
  <2>2. CASE Find(m.path, <<Dot, Dot, Slash>>) # 0
    <3>1. r.path = m.path
      BY <1>2, <2>2
    <3> QED
      BY <2>2, <3>1 DEF Checked
  <2> QED
    BY <2>1, <2>2, m.versioned DEF Refused
<1>6. m.target = m.path /\ m.versioned => r.path = m.path
  BY <1>2
<1>7. r.path \in Files => m.path \in Files
  BY <1>2
<1> QED
  BY ONLY <1>1, <1>2, <1>4, <1>5, <1>6, <1>7 DEF ReadAs

(* Whatever the method and the path, as long as nothing in it is escaped and    *)
(* it asks nothing: the request is read as it was meant.                        *)
THEOREM PlainAsMeant ==
  ASSUME NEW x \in Int, x # SP, NEW path, PlainPath(path)
  PROVE  ReadAs(Plain(x, path), Parse(Text(Plain(x, path))))
<1>1. PICK m : m = Plain(x, path)
  OBVIOUS
<1>2. /\ m.query = <<>> /\ m.headers = <<>> /\ m.versioned /\ m.method = x /\ path = m.path
  BY <1>1 DEF Plain
<1>3. ReadAs(m, Read("text", m.method, path))
  BY ONLY <1>2, BareAs
<1> QED
  BY <1>1, <1>2, <1>3, PlainRead

LEMMA UnversionedAsMeant ==
  ASSUME NEW x \in Int, x # SP, NEW path, PlainPath(path), \A i \in 1..Len(path) : path[i] # CR
  PROVE  LET m == [Plain(x, path) EXCEPT !.versioned = FALSE] IN ReadAs(m, Parse(Text(m)))
<1>1. PICK m : m = [Plain(x, path) EXCEPT !.versioned = FALSE]
  OBVIOUS
<1>2. /\ m.query = <<>> /\ m.headers = <<>> /\ m.body = <<>> /\ ~m.versioned /\ m.method = x
      /\ m.path = path /\ m.target = path
  BY <1>1 DEF Plain
<1>3. /\ path \in Seq(Int) /\ Len(path) > 0 /\ path[1] = Slash
      /\ \A i \in 1..Len(path) : path[i] # SP
      /\ \A i \in 1..Len(path) : path[i] # Percent
      /\ \A i \in 1..Len(path) : path[i] # Question
  BY DEF PlainPath
<1>4. Text(m) = Unversioned(x, path)
  BY ONLY <1>2, <1>3, TextUnversioned, x \in Int
<1>5. Parse(Unversioned(x, path)) = ReadUnversioned(x, path)
  BY ONLY <1>3, ParseUnversioned, x \in Int, x # SP, \A i \in 1..Len(path) : path[i] # CR
<1>6. PICK r : r = ReadUnversioned(x, path)
  OBVIOUS
<1>7. /\ r.method = <<m.method>> /\ r.path = path \o (CRLF \o CRLF) /\ r.headers = <<>>
      /\ r.body = <<>> /\ r.version = path
  BY <1>2, <1>6 DEF ReadUnversioned
<1>8. Len(<<>>) = 0 /\ DOMAIN <<>> = {} /\ 1..0 = {} /\ 2..0 - 1 = {}
  OBVIOUS
<1>9. /\ DOMAIN r.headers = {<<m.headers[i][1]>> : i \in 1..Len(m.headers)}
      /\ \A i \in 1..Len(m.headers) : r.headers[<<m.headers[i][1]>>] = <<m.headers[i][2]>>
      /\ \A i \in 2..Len(m.query) - 1 : r.query_params[<<m.query[i][1]>>] = <<m.query[i][2]>>
  BY ONLY <1>2, <1>7, <1>8
<1>10. Checked(r, "200") # "200"
  <2>1. ~StartsWith(path, <<HTTP>>)
    <3>1. PICK w : w = SubSeq(path, 1, 1)
      OBVIOUS
    <3>2. 1 \in 1..Len(path) + 1 /\ 1 \in 1 - 1..Len(path) /\ 1 \in 1..1 - 1 + 1 /\ 1 + 1 - 1 = 1
      BY <1>3, TextFacts
    <3>3. \A j \in 1..1 - 1 + 1 : w[j] = path[1 + j - 1]
      BY ONLY <1>3, <3>1, <3>2, SubText
    <3>4. w[1] = Slash
      BY ONLY <1>3, <3>2, <3>3
    <3>5. w # <<HTTP>>
      <4>1. <<HTTP>>[1] = HTTP /\ HTTP # Slash
        BY DEF HTTP, Slash
      <4> QED
        BY ONLY <3>4, <4>1
    <3>6. Len(<<HTTP>>) = 1
      OBVIOUS
    <3> QED
      BY ONLY <3>1, <3>5, <3>6 DEF StartsWith
  <2> QED
    BY <1>7, <2>1 DEF Checked
<1>11. r.path \notin Files
  <2>1. PICK y : y = CRLF \o CRLF
    OBVIOUS
  <2>2. y \in Seq(Int) /\ Len(y) = 4
    BY ONLY <2>1, TwoLines
  <2>6. Len(path \o y) = Len(path) + Len(y)
    BY ONLY <1>3, <2>2, Joined2
  <2>3. Len(path \o y) = Len(path) + 4
    BY ONLY <2>2, <2>6
  <2>4. Len(path \o y) > 4
    BY ONLY <1>3, <2>3, TextFacts
  <2>5. Len(<<Slash, F>>) = 2
    OBVIOUS
  <2>7. PICK w, v : w = path \o y /\ v = <<Slash, F>>
    OBVIOUS
  <2>8. w # v
    BY ONLY <2>4, <2>5, <2>7
  <2>9. r.path = w
    BY ONLY <1>7, <2>1, <2>7
  <2> QED
    BY ONLY <2>7, <2>8, <2>9 DEF Files
<1>12. ReadAs(m, r)
  BY ONLY <1>2, <1>7, <1>9, <1>10, <1>11 DEF ReadAs
<1>13. ReadAs(m, Parse(Text(m)))
  BY ONLY <1>2, <1>4, <1>5, <1>6, <1>12
<1> QED
  BY ONLY <1>1, <1>13

-----------------------------------------------------------------------------
(* Parameters and headers: maps from texts to texts. *)
TextMaps == UNION {[A -> Seq(Int)] : A \in SUBSET Seq(Int)}

LEMMA NoEntry == <<>> \in TextMaps
<1>1. <<>> \in [{} -> Seq(Int)]
  OBVIOUS
<1> QED
  BY <1>1 DEF TextMaps

LEMMA OneEntryMore ==
  ASSUME NEW name \in Seq(Int), NEW value \in Seq(Int), NEW later \in TextMaps
  PROVE  Emplaced(name, value, later) \in TextMaps
<1>1. PICK A \in SUBSET Seq(Int) : later \in [A -> Seq(Int)]
  BY DEF TextMaps
<1>2. Emplaced(name, value, later) \in [A \cup {name} -> Seq(Int)]
  BY <1>1 DEF Emplaced
<1> QED
  BY <1>2 DEF TextMaps

LEMMA FindRange ==
  ASSUME NEW s \in Seq(Int), NEW c \in Int
  PROVE  /\ Find(s, <<c>>) \in 0..Len(s)
         /\ Find(s, <<c>>) # 0 => s[Find(s, <<c>>)] = c
<1>1. PICK n \in Nat : n = Len(s)
  BY TextFacts
<1>2. CASE \A i \in 1..Len(s) : s[i] # c
  <2>1. Find(s, <<c>>) = 0
    BY ONLY <1>2, FindNone, s \in Seq(Int), c \in Int
  <2> QED
    BY ONLY <1>1, <2>1, n \in Nat
<1>3. CASE ~(\A i \in 1..Len(s) : s[i] # c)
  <2> DEFINE S == {i \in 1..n : s[i] = c}
  <2>1. S \in SUBSET Nat /\ \E i : i \in S
    BY ONLY <1>1, <1>3
  <2>2. PICK k \in S : \A m \in S : ~(m < k)
    BY ONLY <2>1, LeastNumber
  <2>3. k \in 1..Len(s) /\ s[k] = c /\ k \in Int /\ k # 0 /\ k \in 0..Len(s)
    BY ONLY <1>1, <2>2
  <2>4. \A i \in 1..k - 1 : s[i] # c
    <3>1. \A i \in 1..k - 1 : i \in 1..n /\ i < k
      BY ONLY <1>1, <2>3
    <3> QED
      BY ONLY <2>2, <3>1
  <2>5. Find(s, <<c>>) = k
    BY ONLY <2>3, <2>4, FindOne, s \in Seq(Int), c \in Int
  <2> QED
    BY ONLY <2>3, <2>5
<1> QED
  BY <1>2, <1>3

(* A turn of parse_query_string that starts at place i of the query. *)
Rest(s, i) == SubSeq(s, i, Len(s))
NameEnd(s, i) == Find(Rest(s, i), <<Equals>>)
AfterName(s, i) == RemovePrefix(Rest(s, i), NameEnd(s, i))
ValueEnd(s, i) == Find(AfterName(s, i), <<Amp>>)
LastParam(s, i) == NameEnd(s, i) = 0 \/ ValueEnd(s, i) = 0

LEMMA RestLacks ==
  ASSUME NEW s \in Seq(Int), NEW c, \A i \in 1..Len(s) : s[i] # c, NEW p \in 1..Len(s) + 1
  PROVE  Before(s, p) \in Seq(Int) /\ \A i \in 1..Len(Before(s, p)) : Before(s, p)[i] # c
<1>1. PICK n \in Nat : n = Len(s)
  BY TextFacts
<1>2. /\ Before(s, p) \in Seq(Int) /\ Len(Before(s, p)) = p - 1
      /\ \A i \in 1..p - 1 : Before(s, p)[i] = s[i]
  BY ONLY PartBefore, s \in Seq(Int), p \in 1..Len(s) + 1
<1>3. \A i \in 1..p - 1 : i \in 1..Len(s)
  BY <1>1
<1> QED
  BY <1>2, <1>3

LEMMA ParamTurn ==
  ASSUME NEW s \in Seq(Int), \A i \in 1..Len(s) : s[i] # Percent, NEW i \in 1..Len(s) + 1,
         ~LastParam(s, i)
  PROVE  LET name == Before(Rest(s, i), NameEnd(s, i))
             value == Before(AfterName(s, i), ValueEnd(s, i))
         IN  /\ name \in Seq(Int) /\ value \in Seq(Int)
             /\ \A memory : Unescape(name, memory) = Unescaped(name)
             /\ \A memory : Unescape(value, memory) = Unescaped(value)
             /\ i + NameEnd(s, i) + ValueEnd(s, i) \in i + 1..Len(s) + 1
<1>1. PICK l \in Nat : l = Len(s)
  BY TextFacts
<1>2. PICK q : q = Rest(s, i)
  OBVIOUS
<1>3. q \in Seq(Int) /\ Len(q) = l - i + 1 /\ \A j \in 1..Len(q) : q[j] # Percent
  <2>1. i \in 1..Len(s) + 1 /\ l \in i - 1..Len(s)
    BY <1>1
  <2>2. q = SubSeq(s, i, l)
    BY ONLY <1>1, <1>2 DEF Rest
  <2>3. Len(q) = l - i + 1
    BY ONLY <2>1, <2>2, SubText, s \in Seq(Int)
  <2>4. q \in Seq(Int) /\ \A j \in 1..Len(q) : q[j] # Percent
    <3>1. \A j \in 1..Len(s) : s[j] # Percent
      OBVIOUS
    <3> QED
      BY ONLY <1>2, <3>1, SuffixLacks, s \in Seq(Int), i \in 1..Len(s) + 1 DEF Rest
  <2> QED
    BY ONLY <2>3, <2>4
<1>4. PICK n : n = NameEnd(s, i)
  OBVIOUS
<1>5. n \in 1..Len(q)
  <2>1. n = Find(q, <<Equals>>) /\ n # 0
    BY <1>2, <1>4 DEF NameEnd, LastParam
  <2>2. Equals \in Int
    BY DEF Equals
  <2>3. n \in 0..Len(q)
    BY ONLY <1>3, <2>1, <2>2, FindRange
  <2> QED
    BY ONLY <1>3, <2>1, <2>3, TextFacts
<1>6. PICK r : r = AfterName(s, i)
  OBVIOUS
<1>7. r \in Seq(Int) /\ Len(r) = l - i + 1 - n /\ \A j \in 1..Len(r) : r[j] # Percent
  <2>1. r = SubSeq(q, n + 1, Len(q))
    BY ONLY <1>2, <1>4, <1>6 DEF AfterName, RemovePrefix
  <2>2. n + 1 \in 1..Len(q) + 1 /\ Len(q) \in n + 1 - 1..Len(q) /\ Len(q) - (n + 1) + 1 = l - i + 1 - n
    BY ONLY <1>1, <1>3, <1>5, l \in Nat, i \in 1..Len(s) + 1
  <2>3. Len(r) = l - i + 1 - n
    BY ONLY <1>3, <2>1, <2>2, SubText
  <2>4. r \in Seq(Int) /\ \A j \in 1..Len(r) : r[j] # Percent
    BY ONLY <1>3, <2>1, <2>2, SuffixLacks
  <2> QED
    BY ONLY <2>3, <2>4
<1>8. PICK v : v = ValueEnd(s, i)
  OBVIOUS
<1>9. v \in 1..Len(r)
  <2>1. v = Find(r, <<Amp>>) /\ v # 0
    BY <1>6, <1>8 DEF ValueEnd, LastParam
  <2>2. Amp \in Int
    BY DEF Amp
  <2>3. v \in 0..Len(r)
    BY ONLY <1>7, <2>1, <2>2, FindRange
  <2> QED
    BY ONLY <1>7, <2>1, <2>3, TextFacts
<1>10. n \in 1..Len(q) + 1 /\ v \in 1..Len(r) + 1
  BY ONLY <1>3, <1>5, <1>7, <1>9, TextFacts
<1>11. Before(q, n) \in Seq(Int) /\ \A j \in 1..Len(Before(q, n)) : Before(q, n)[j] # Percent
  BY ONLY <1>3, <1>10, RestLacks
<1>12. Before(r, v) \in Seq(Int) /\ \A j \in 1..Len(Before(r, v)) : Before(r, v)[j] # Percent
  BY ONLY <1>7, <1>10, RestLacks
<1>13. \A memory : Unescape(Before(q, n), memory) = Unescaped(Before(q, n))
  BY ONLY <1>11, UnescapePlain
<1>14. \A memory : Unescape(Before(r, v), memory) = Unescaped(Before(r, v))
  BY ONLY <1>12, UnescapePlain
<1>15. i + n + v \in i + 1..Len(s) + 1
  <2>1. n \in Int /\ v \in Int /\ n >= 1 /\ v >= 1 /\ v <= l - i + 1 - n
    BY ONLY <1>3, <1>5, <1>7, <1>9, l \in Nat, TextFacts
  <2> QED
    BY ONLY <1>1, <2>1, l \in Nat, i \in 1..Len(s) + 1
<1> QED
  BY ONLY <1>2, <1>4, <1>6, <1>8, <1>11, <1>12, <1>13, <1>14, <1>15

Params(params) == [how |-> "text", params |-> params]

LEMMA ParamsUpdated ==
  ASSUME NEW p, NEW name, NEW value, NEW r, r = Params(p)
  PROVE  [r EXCEPT !.params = Emplaced(name, value, @)] = Params(Emplaced(name, value, p))
<1>1. r.params = p
  BY DEF Params
<1>2. \A w : [r EXCEPT !.params = w] = Params(w)
  BY DEF Params
<1>3. [r EXCEPT !.params = Emplaced(name, value, p)] = Params(Emplaced(name, value, p))
  BY <1>2
<1>4. Emplaced(name, value, r.params) = Emplaced(name, value, p)
  BY <1>1, Zenon
<1> QED
  BY ONLY <1>3, <1>4, Zenon

(* A query in which nothing is escaped is read turn by turn. *)
LEMMA ParamsRead ==
  ASSUME NEW s \in Seq(Int), \A i \in 1..Len(s) : s[i] # Percent
  PROVE  \E f \in [1..Len(s) + 1 -> TextMaps] :
           /\ QueryParams(s) = Params(f[1])
           /\ \A i \in 1..Len(s) + 1 :
                f[i] = IF LastParam(s, i) THEN <<>>
                       ELSE Emplaced(Before(Rest(s, i), NameEnd(s, i)),
                                     Before(AfterName(s, i), ValueEnd(s, i)),
                                     f[i + NameEnd(s, i) + ValueEnd(s, i)])
<1>1. PICK l \in Nat : l = Len(s)
  BY TextFacts
<1> DEFINE D == 1..Len(s) + 1
           name(i) == Before(Rest(s, i), NameEnd(s, i))
           value(i) == Before(AfterName(s, i), ValueEnd(s, i))
           to(i) == i + NameEnd(s, i) + ValueEnd(s, i)
           Turn(f, i) ==
             LET q == SubSeq(s, i, Len(s))
                 n == Find(q, <<Equals>>)
                 r == RemovePrefix(q, n)
                 v == Find(r, <<Amp>>)
                 nm == Unescape(Before(q, n), From(q, n))
                 vl == Unescape(Before(r, v), From(r, v))
                 rest == f[i + n + v]
             IN  IF n = 0 \/ v = 0 THEN [how |-> "text", params |-> <<>>]
                 ELSE IF nm.how # "text" THEN [how |-> nm.how, params |-> <<>>]
                 ELSE IF vl.how # "text" THEN [how |-> vl.how, params |-> <<>>]
                 ELSE [rest EXCEPT !.params = Emplaced(nm.text, vl.text, @)]
           from == CHOOSE f : f = [i \in D |-> Turn(f, i)]
           base == [i \in 1..l + 1 |-> <<>>]
           next == [i \in 1..l + 1 |-> IF LastParam(s, i) THEN i ELSE to(i)]
           step == [i \in 1..l + 1 |-> [p \in TextMaps |-> IF LastParam(s, i) THEN p
                                                          ELSE Emplaced(name(i), value(i), p)]]
<1>2. QueryParams(s) = from[1]
  BY DEF QueryParams
<1>3. ASSUME NEW f, NEW i \in D, LastParam(s, i) PROVE Turn(f, i) = Params(<<>>)
  BY ONLY <1>3 DEF LastParam, ValueEnd, AfterName, NameEnd, Rest, Params
<1>4. ASSUME NEW i \in D, ~LastParam(s, i)
      PROVE  /\ name(i) \in Seq(Int) /\ value(i) \in Seq(Int)
             /\ \A memory : Unescape(name(i), memory) = Unescaped(name(i))
             /\ \A memory : Unescape(value(i), memory) = Unescaped(value(i))
             /\ to(i) \in i + 1..Len(s) + 1
  <2>1. \A j \in 1..Len(s) : s[j] # Percent
    OBVIOUS
  <2> QED
    BY ONLY <1>4, <2>1, ParamTurn, s \in Seq(Int)
<1>5. ASSUME NEW f, NEW i \in D, ~LastParam(s, i)
      PROVE  Turn(f, i) = [f[to(i)] EXCEPT !.params = Emplaced(name(i), value(i), @)]
  <2>1. PICK nm : nm = Unescape(name(i), From(Rest(s, i), NameEnd(s, i)))
    OBVIOUS
  <2>2. PICK vl : vl = Unescape(value(i), From(AfterName(s, i), ValueEnd(s, i)))
    OBVIOUS
  <2>3. nm.how = "text" /\ nm.text = name(i) /\ vl.how = "text" /\ vl.text = value(i)
    BY ONLY <1>4, <1>5, <2>1, <2>2 DEF Unescaped
  <2>4. NameEnd(s, i) # 0 /\ ValueEnd(s, i) # 0
    BY ONLY <1>5 DEF LastParam
  <2>5. Turn(f, i) = IF NameEnd(s, i) = 0 \/ ValueEnd(s, i) = 0 THEN [how |-> "text", params |-> <<>>]
                     ELSE IF nm.how # "text" THEN [how |-> nm.how, params |-> <<>>]
                     ELSE IF vl.how # "text" THEN [how |-> vl.how, params |-> <<>>]
                     ELSE [f[to(i)] EXCEPT !.params = Emplaced(nm.text, vl.text, @)]
    BY ONLY <2>1, <2>2 DEF NameEnd, ValueEnd, AfterName, Rest
  <2> QED
    BY ONLY <2>3, <2>4, <2>5
<1>6. l + 1 \in Nat /\ 1..l + 1 = D /\ 1 \in D
  BY <1>1
<1> HIDE DEF Turn, name, value, to
<1>7. /\ base \in [1..l + 1 -> TextMaps]
      /\ next \in [1..l + 1 -> 1..l + 1]
      /\ step \in [1..l + 1 -> [TextMaps -> TextMaps]]
  <2>1. \A i \in D : ~LastParam(s, i) => to(i) \in D
    BY <1>1, <1>4
  <2>2. \A i \in D : \A p \in TextMaps : ~LastParam(s, i) => Emplaced(name(i), value(i), p) \in TextMaps
    BY <1>4, OneEntryMore
  <2>3. base \in [1..l + 1 -> TextMaps]
    BY NoEntry
  <2>4. next \in [1..l + 1 -> 1..l + 1]
    BY <1>6, <2>1
  <2>5. step \in [1..l + 1 -> [TextMaps -> TextMaps]]
    BY ONLY <1>6, <2>2
  <2> QED
    BY <2>3, <2>4, <2>5
<1>8. PICK g \in [1..l + 1 -> TextMaps] : \A i \in 1..l + 1 :
        g[i] = IF next[i] > i THEN step[i][g[next[i]]] ELSE base[i]
  <2>1. PICK n \in Nat : n = l + 1
    BY <1>6
  <2> HIDE DEF base, next, step
  <2>2. base \in [1..n -> TextMaps] /\ next \in [1..n -> 1..n] /\ step \in [1..n -> [TextMaps -> TextMaps]]
    BY ONLY <1>7, <2>1
  <2>3. \E g \in [1..n -> TextMaps] : ByPosition(g, n, base, next, step)
    BY ONLY <2>2, Recursion, n \in Nat
  <2> QED
    BY ONLY <2>1, <2>3 DEF ByPosition
<1>9. ASSUME NEW i \in D
      PROVE  g[i] = IF LastParam(s, i) THEN <<>> ELSE Emplaced(name(i), value(i), g[to(i)])
  <2>1. CASE LastParam(s, i)
    <3>1. next[i] = i /\ base[i] = <<>> /\ ~(i > i)
      BY <1>1, <1>6, <2>1
    <3> QED
      BY ONLY <1>6, <1>8, <1>9, <2>1, <3>1
  <2>2. CASE ~LastParam(s, i)
    <3>1. next[i] = to(i) /\ to(i) > i /\ to(i) \in D
      BY <1>1, <1>4, <1>6, <2>2
    <3>2. g[to(i)] \in TextMaps
      BY ONLY <1>6, <1>8, <3>1
    <3>3. step[i][g[to(i)]] = Emplaced(name(i), value(i), g[to(i)])
      BY ONLY <1>6, <1>9, <2>2, <3>2
    <3> QED
      BY ONLY <1>6, <1>8, <1>9, <2>2, <3>1, <3>3
  <2> QED
    BY ONLY <2>1, <2>2
<1> DEFINE h == [i \in D |-> Params(g[i])]
<1>10. ASSUME NEW i \in D PROVE h[i] = Turn(h, i)
  <2>1. CASE LastParam(s, i)
    BY ONLY <1>3, <1>9, <1>10, <2>1
  <2>2. CASE ~LastParam(s, i)
    <3>1. to(i) \in D
      BY <1>1, <1>4, <2>2
    <3>2. h[to(i)] = Params(g[to(i)])
      BY ONLY <3>1
    <3>3. Turn(h, i) = [h[to(i)] EXCEPT !.params = Emplaced(name(i), value(i), @)]
      BY ONLY <1>5, <1>10, <2>2
    <3>4. [h[to(i)] EXCEPT !.params = Emplaced(name(i), value(i), @)]
            = Params(Emplaced(name(i), value(i), g[to(i)]))
      BY ONLY <3>2, ParamsUpdated
    <3>5. h[i] = Params(Emplaced(name(i), value(i), g[to(i)]))
      BY ONLY <1>9, <1>10, <2>2
    <3> QED
      BY ONLY <3>3, <3>4, <3>5
  <2> QED
    BY ONLY <2>1, <2>2
<1>11. h = [i \in D |-> Turn(h, i)]
  BY ONLY <1>10
<1>12. from = [i \in D |-> Turn(from, i)]
  BY ONLY <1>11
<1>13. ASSUME NEW i \in D, from[i] # h[i], \A j \in D : j > i => from[j] = h[j] PROVE FALSE
  <2>1. from[i] = Turn(from, i)
    BY ONLY <1>12, <1>13
  <2>2. CASE LastParam(s, i)
    BY ONLY <1>3, <1>10, <1>13, <2>1, <2>2
  <2>3. CASE ~LastParam(s, i)
    <3>1. to(i) \in D /\ to(i) > i
      BY <1>1, <1>4, <2>3
    <3>2. from[to(i)] = h[to(i)]
      BY ONLY <1>13, <3>1
    <3>3. Turn(from, i) = [from[to(i)] EXCEPT !.params = Emplaced(name(i), value(i), @)]
      BY ONLY <1>5, <1>13, <2>3
    <3>4. Turn(h, i) = [h[to(i)] EXCEPT !.params = Emplaced(name(i), value(i), @)]
      BY ONLY <1>5, <1>13, <2>3
    <3>5. Turn(from, i) = Turn(h, i)
      BY ONLY <3>2, <3>3, <3>4, Zenon
    <3> QED
      BY ONLY <1>10, <1>13, <2>1, <3>5
  <2> QED
    BY ONLY <2>2, <2>3
<1>14. ASSUME NEW i \in D PROVE from[i] = h[i]
  <2> DEFINE S == {k \in 0..l : from[l + 1 - k] # h[l + 1 - k]}
  <2>1. ASSUME NEW k \in S PROVE FALSE
    <3>1. S \in SUBSET Nat
      OBVIOUS
    <3>2. PICK m \in S : \A j \in S : ~(j < m)
      BY ONLY <2>1, <3>1, LeastNumber
    <3>3. m \in 0..l /\ l + 1 - m \in D /\ from[l + 1 - m] # h[l + 1 - m]
      BY ONLY <1>1, <3>2, l \in Nat
    <3> HIDE DEF h
    <3>4. ASSUME NEW j \in D, j > l + 1 - m PROVE from[j] = h[j]
      <4>1. l + 1 - j \in 0..l /\ l + 1 - j < m /\ l + 1 - (l + 1 - j) = j
        BY ONLY <1>1, <3>3, <3>4, l \in Nat
      <4> QED
        BY ONLY <3>2, <4>1
    <3> QED
      BY ONLY <1>13, <3>3, <3>4
  <2>2. l + 1 - i \in 0..l /\ l + 1 - (l + 1 - i) = i
    BY ONLY <1>1, l \in Nat, i \in D
  <2> QED
    BY ONLY <2>1, <2>2
<1>15. QueryParams(s) = Params(g[1])
  BY ONLY <1>2, <1>6, <1>14
<1> QED
  <2>1. \A i \in 1..Len(s) + 1 :
          g[i] = IF LastParam(s, i) THEN <<>>
                 ELSE Emplaced(Before(Rest(s, i), NameEnd(s, i)),
                               Before(AfterName(s, i), ValueEnd(s, i)),
                               g[i + NameEnd(s, i) + ValueEnd(s, i)])
    BY ONLY <1>9 DEF name, value, to
  <2> QED
    BY ONLY <1>6, <1>15, <2>1

-----------------------------------------------------------------------------
(* What is found in the rest of a text, by its places in the whole. *)
LEMMA RestIs ==
  ASSUME NEW s \in Seq(Int), NEW i \in 1..Len(s) + 1
  PROVE  /\ Rest(s, i) \in Seq(Int) /\ Len(Rest(s, i)) = Len(s) - i + 1
         /\ \A j \in 1..Len(s) - i + 1 : Rest(s, i)[j] = s[i + j - 1]
<1>1. Len(s) \in i - 1..Len(s)
  BY TextFacts
<1> QED
  BY ONLY <1>1, SubText, s \in Seq(Int), i \in 1..Len(s) + 1 DEF Rest

LEMMA RestOfRest ==
  ASSUME NEW s \in Seq(Int), NEW i \in 1..Len(s) + 1, NEW n \in Nat, i + n \in 1..Len(s) + 1
  PROVE  RemovePrefix(Rest(s, i), n) = Rest(s, i + n)
<1>1. PICK l \in Nat : l = Len(s)
  BY TextFacts
<1>2. PICK q : q = Rest(s, i)
  OBVIOUS
<1>3. PICK m \in Nat : m = l - i + 1 /\ i \in Int /\ i \in 1..l + 1 /\ i + n \in 1..l + 1
  <2>1. l - i + 1 \in Nat /\ i \in Int /\ i \in 1..l + 1 /\ i + n \in 1..l + 1
    BY <1>1
  <2> QED
    BY ONLY <2>1
<1>4. q \in Seq(Int) /\ Len(q) = m /\ \A j \in 1..m : q[j] = s[i + j - 1]
  <2>1. i \in 1..Len(s) + 1
    OBVIOUS
  <2>2. q \in Seq(Int) /\ Len(q) = Len(s) - i + 1 /\ \A j \in 1..Len(s) - i + 1 : q[j] = s[i + j - 1]
    BY ONLY <1>2, <2>1, RestIs, s \in Seq(Int)
  <2>3. Len(s) - i + 1 = m
    BY ONLY <1>1, <1>3
  <2> QED
    BY ONLY <2>2, <2>3
<1>5. PICK u : u = RemovePrefix(q, n)
  OBVIOUS
<1>6. PICK w : w = Rest(s, i + n)
  OBVIOUS
<1>7. PICK k \in Nat : k = m - n
  <2>1. m - n \in Nat
    BY ONLY <1>3, m \in Nat, n \in Nat, l \in Nat
  <2> QED
    BY ONLY <2>1
<1>8. u \in Seq(Int) /\ Len(u) = k /\ \A j \in 1..k : u[j] = q[n + j]
  <2>1. n + 1 \in 1..Len(q) + 1 /\ Len(q) \in n + 1 - 1..Len(q) /\ Len(q) - (n + 1) + 1 = k
    BY ONLY <1>4, <1>7, n \in Nat, m \in Nat, k \in Nat
  <2>2. u = SubSeq(q, n + 1, Len(q))
    BY ONLY <1>5 DEF RemovePrefix
  <2>3. u \in Seq(Int) /\ Len(u) = k /\ \A j \in 1..k : u[j] = q[n + 1 + j - 1]
    BY ONLY <1>4, <2>1, <2>2, SubText
  <2>4. \A j \in 1..k : n + 1 + j - 1 = n + j
    BY ONLY n \in Nat
  <2> QED
    BY ONLY <2>3, <2>4
<1>9. w \in Seq(Int) /\ Len(w) = k /\ \A j \in 1..k : w[j] = s[i + n + j - 1]
  <2>1. i + n \in 1..Len(s) + 1
    OBVIOUS
  <2>2. w \in Seq(Int) /\ Len(w) = Len(s) - (i + n) + 1
        /\ \A j \in 1..Len(s) - (i + n) + 1 : w[j] = s[i + n + j - 1]
    BY ONLY <1>6, <2>1, RestIs, s \in Seq(Int)
  <2>3. Len(s) - (i + n) + 1 = k
    BY ONLY <1>1, <1>3, <1>7, n \in Nat, m \in Nat
  <2> QED
    BY ONLY <2>2, <2>3
<1>10. ASSUME NEW j \in 1..k PROVE u[j] = w[j]
  <2>1. n + j \in 1..m /\ i + (n + j) - 1 = i + n + j - 1
    BY ONLY <1>3, <1>7, <1>10, n \in Nat, m \in Nat, k \in Nat
  <2>2. u[j] = q[n + j] /\ w[j] = s[i + n + j - 1]
    BY ONLY <1>8, <1>9, <1>10
  <2>3. q[n + j] = s[i + (n + j) - 1]
    BY ONLY <1>4, <2>1
  <2> QED
    BY ONLY <2>1, <2>2, <2>3
<1>11. u = w
  BY ONLY <1>8, <1>9, <1>10, SameText
<1> QED
  BY ONLY <1>2, <1>5, <1>6, <1>11

LEMMA FindInRest ==
  ASSUME NEW s \in Seq(Int), NEW c \in Int, NEW i \in 1..Len(s), NEW p \in i..Len(s), s[p] = c,
         \A j \in i..p - 1 : s[j] # c
  PROVE  Find(Rest(s, i), <<c>>) = p - i + 1
<1>1. PICK l \in Nat : l = Len(s)
  BY TextFacts
<1>2. PICK q : q = Rest(s, i)
  OBVIOUS
<1>3. i \in 1..Len(s) + 1 /\ i \in Int /\ p \in Int
  BY <1>1
<1>4. q \in Seq(Int) /\ Len(q) = Len(s) - i + 1 /\ \A j \in 1..Len(s) - i + 1 : q[j] = s[i + j - 1]
  BY ONLY <1>2, <1>3, RestIs, s \in Seq(Int)
<1>5. PICK k \in Int : k = p - i + 1
  BY <1>3
<1>6. k \in 1..Len(s) - i + 1 /\ i + k - 1 = p
  BY <1>1, <1>3, <1>5
<1>7. k \in 1..Len(q) /\ q[k] = c
  BY ONLY <1>4, <1>6, s[p] = c
<1>8. ASSUME NEW j \in 1..k - 1 PROVE q[j] # c
  <2>1. j \in 1..Len(s) - i + 1 /\ i + j - 1 \in i..p - 1
    BY ONLY <1>1, <1>3, <1>5, <1>6, <1>8, l \in Nat
  <2>2. s[i + j - 1] # c
    BY <2>1
  <2> QED
    BY ONLY <1>4, <2>1, <2>2
<1>9. Find(q, <<c>>) = k
  BY ONLY <1>4, <1>7, <1>8, FindOne, c \in Int
<1> QED
  BY ONLY <1>2, <1>5, <1>9

LEMMA FindNotInRest ==
  ASSUME NEW s \in Seq(Int), NEW c \in Int, NEW i \in 1..Len(s) + 1, \A j \in i..Len(s) : s[j] # c
  PROVE  Find(Rest(s, i), <<c>>) = 0
<1>1. PICK l \in Nat : l = Len(s)
  BY TextFacts
<1>2. PICK q : q = Rest(s, i)
  OBVIOUS
<1>3. q \in Seq(Int) /\ Len(q) = Len(s) - i + 1 /\ \A j \in 1..Len(s) - i + 1 : q[j] = s[i + j - 1]
  BY ONLY <1>2, RestIs, s \in Seq(Int), i \in 1..Len(s) + 1
<1>4. ASSUME NEW j \in 1..Len(q) PROVE q[j] # c
  <2>1. j \in 1..Len(s) - i + 1 /\ i + j - 1 \in i..Len(s)
    BY ONLY <1>1, <1>3, <1>4, l \in Nat, i \in 1..Len(s) + 1
  <2>2. s[i + j - 1] # c
    BY <2>1
  <2> QED
    BY ONLY <1>3, <2>1, <2>2
<1>5. Find(q, <<c>>) = 0
  BY ONLY <1>3, <1>4, FindNone, c \in Int
<1> QED
  BY ONLY <1>2, <1>5

LEMMA FindPairInRest ==
  ASSUME NEW s \in Seq(Int), NEW c \in Int, NEW d \in Int, NEW i \in 1..Len(s),
         NEW p \in i..Len(s) - 1, s[p] = c, s[p + 1] = d,
         \A j \in i..p - 1 : s[j] # c \/ s[j + 1] # d
  PROVE  Find(Rest(s, i), <<c, d>>) = p - i + 1
<1>1. PICK l \in Nat : l = Len(s)
  BY TextFacts
<1>2. PICK q : q = Rest(s, i)
  OBVIOUS
<1>3. i \in 1..Len(s) + 1 /\ i \in Int /\ p \in Int
  BY <1>1
<1>4. q \in Seq(Int) /\ Len(q) = Len(s) - i + 1 /\ \A j \in 1..Len(s) - i + 1 : q[j] = s[i + j - 1]
  BY ONLY <1>2, <1>3, RestIs, s \in Seq(Int)
<1>5. PICK k \in Int : k = p - i + 1
  BY <1>3
<1>6. /\ k \in 1..Len(s) - i + 1 /\ i + k - 1 = p
      /\ k + 1 \in 1..Len(s) - i + 1 /\ i + (k + 1) - 1 = p + 1
  BY <1>1, <1>3, <1>5
<1>7. q[k] = c /\ q[k + 1] = d
  BY ONLY <1>4, <1>6, s[p] = c, s[p + 1] = d
<1>8. k \in 1..Len(q) - 1
  BY ONLY <1>1, <1>3, <1>4, <1>5, <1>6, l \in Nat
<1>11. q \in Seq(Int)
  BY ONLY <1>4
<1>9. ASSUME NEW j \in 1..k - 1 PROVE q[j] # c \/ q[j + 1] # d
  <2>1. /\ j \in 1..Len(s) - i + 1 /\ i + j - 1 \in i..p - 1
        /\ j + 1 \in 1..Len(s) - i + 1 /\ i + (j + 1) - 1 = i + j - 1 + 1
    BY ONLY <1>1, <1>3, <1>5, <1>6, <1>9, l \in Nat
  <2>2. s[i + j - 1] # c \/ s[i + j - 1 + 1] # d
    BY <2>1
  <2>3. q[j] = s[i + j - 1] /\ q[j + 1] = s[i + (j + 1) - 1]
    BY ONLY <1>4, <2>1
  <2> QED
    BY ONLY <2>1, <2>2, <2>3
<1>10. Find(q, <<c, d>>) = k
  BY ONLY <1>7, <1>8, <1>9, <1>11, FindTwo, c \in Int, d \in Int, SMTT(30)
<1> QED
  BY ONLY <1>2, <1>5, <1>10

LEMMA BeforeInRest ==
  ASSUME NEW s \in Seq(Int), NEW i \in 1..Len(s), NEW n \in 1..Len(s) - i + 2
  PROVE  /\ Before(Rest(s, i), n) \in Seq(Int) /\ Len(Before(Rest(s, i), n)) = n - 1
         /\ \A j \in 1..n - 1 : Before(Rest(s, i), n)[j] = s[i + j - 1]
<1>1. PICK l \in Nat : l = Len(s)
  BY TextFacts
<1>2. PICK q : q = Rest(s, i)
  OBVIOUS
<1>3. i \in 1..Len(s) + 1 /\ i \in Int /\ n \in Int
  BY <1>1
<1>4. q \in Seq(Int) /\ Len(q) = Len(s) - i + 1 /\ \A j \in 1..Len(s) - i + 1 : q[j] = s[i + j - 1]
  BY ONLY <1>2, <1>3, RestIs, s \in Seq(Int)
<1>5. n \in 1..Len(q) + 1
  BY ONLY <1>1, <1>3, <1>4, l \in Nat, n \in 1..Len(s) - i + 2
<1>6. Before(q, n) \in Seq(Int) /\ Len(Before(q, n)) = n - 1 /\ \A j \in 1..n - 1 : Before(q, n)[j] = q[j]
  BY ONLY <1>4, <1>5, PartBefore
<1>7. \A j \in 1..n - 1 : j \in 1..Len(s) - i + 1
  BY <1>1, <1>3
<1>8. \A j \in 1..n - 1 : q[j] = s[i + j - 1]
  BY ONLY <1>4, <1>7
<1>9. \A j \in 1..n - 1 : Before(q, n)[j] = s[i + j - 1]
  BY ONLY <1>6, <1>8
<1> QED
  BY ONLY <1>2, <1>6, <1>9

-----------------------------------------------------------------------------
(* The message that asks: three parameters, each a letter and a digit. *)
ThreeParams == << <<F, Digit(1)>>, <<G, Digit(2)>>, <<Z, Digit(3)>> >>

Query(w) ==
  /\ w \in Seq(Int) /\ Len(w) = 12
  /\ w[1] = Question /\ w[2] = F /\ w[3] = Equals /\ w[4] = Digit(1)
  /\ w[5] = Amp /\ w[6] = G /\ w[7] = Equals /\ w[8] = Digit(2)
  /\ w[9] = Amp /\ w[10] = Z /\ w[11] = Equals /\ w[12] = Digit(3)

LEMMA Fours ==
  ASSUME NEW a \in Int, NEW b \in Int, NEW c \in Int, NEW d \in Int, NEW y \in Seq(Int)
  PROVE  LET w == <<a, b, c, d>> \o y
         IN  /\ w \in Seq(Int) /\ Len(w) = Len(y) + 4
             /\ w[1] = a /\ w[2] = b /\ w[3] = c /\ w[4] = d
             /\ \A i \in 1..Len(y) : w[4 + i] = y[i]
<1>1. PICK u : u = <<a, b, c, d>>
  OBVIOUS
<1>2. u \in Seq(Int) /\ Len(u) = 4 /\ u[1] = a /\ u[2] = b /\ u[3] = c /\ u[4] = d
  BY <1>1
<1>3. PICK w : w = u \o y
  OBVIOUS
<1>4. /\ w \in Seq(Int) /\ Len(w) = Len(u) + Len(y) /\ \A i \in 1..Len(u) : w[i] = u[i]
      /\ \A i \in 1..Len(y) : w[Len(u) + i] = y[i]
  BY ONLY <1>2, <1>3, Joined2, y \in Seq(Int)
<1>5. PICK l \in Nat : l = Len(y)
  BY TextFacts
<1>6. Len(w) = Len(y) + 4 /\ \A i \in 1..Len(y) : w[4 + i] = y[i]
  BY ONLY <1>2, <1>4, <1>5, l \in Nat
<1>7. 1 \in 1..4 /\ 2 \in 1..4 /\ 3 \in 1..4 /\ 4 \in 1..4
  OBVIOUS
<1>8. w[1] = a /\ w[2] = b /\ w[3] = c /\ w[4] = d
  BY ONLY <1>2, <1>4, <1>7
<1> QED
  BY ONLY <1>1, <1>3, <1>4, <1>6, <1>8

LEMMA JoinedParams == Query(Joined(ThreeParams))
<1>1. PICK q : q = ThreeParams
  OBVIOUS
<1>2. /\ Len(q) = 3 /\ q[1][1] = F /\ q[1][2] = Digit(1) /\ q[2][1] = G /\ q[2][2] = Digit(2)
      /\ q[3][1] = Z /\ q[3][2] = Digit(3)
  BY <1>1 DEF ThreeParams
<1> DEFINE D == 1..Len(q) + 1
           part(i) == <<IF i = 1 THEN Question ELSE Amp, q[i][1], Equals, q[i][2]>>
           Turn(f, i) == IF i > Len(q) THEN <<>> ELSE part(i) \o f[i + 1]
           from == CHOOSE f : f = [i \in D |-> Turn(f, i)]
           g == [i \in D |-> IF i = 4 THEN <<>>
                             ELSE IF i = 3 THEN part(3) \o <<>>
                             ELSE IF i = 2 THEN part(2) \o (part(3) \o <<>>)
                             ELSE part(1) \o (part(2) \o (part(3) \o <<>>))]
<1>3. Joined(q) = from[1]
  BY DEF Joined
<1>4. /\ D = {1, 2, 3, 4}
      /\ 4 > Len(q) /\ ~(3 > Len(q)) /\ ~(2 > Len(q)) /\ ~(1 > Len(q))
      /\ 1 + 1 = 2 /\ 2 + 1 = 3 /\ 3 + 1 = 4
  BY <1>2
<1> HIDE DEF part
<1>5. ASSUME NEW f PROVE /\ Turn(f, 4) = <<>> /\ Turn(f, 3) = part(3) \o f[4]
                         /\ Turn(f, 2) = part(2) \o f[3] /\ Turn(f, 1) = part(1) \o f[2]
  BY ONLY <1>4
<1> HIDE DEF Turn, D
<1>6. /\ g[4] = <<>> /\ g[3] = part(3) \o <<>> /\ g[2] = part(2) \o (part(3) \o <<>>)
      /\ g[1] = part(1) \o (part(2) \o (part(3) \o <<>>))
  BY ONLY <1>4
<1>7. ASSUME NEW i \in D PROVE g[i] = Turn(g, i)
  <2>1. i = 1 \/ i = 2 \/ i = 3 \/ i = 4
    BY ONLY <1>4, <1>7
  <2> HIDE DEF g
  <2>2. g[4] = Turn(g, 4) /\ g[3] = Turn(g, 3) /\ g[2] = Turn(g, 2) /\ g[1] = Turn(g, 1)
    BY ONLY <1>5, <1>6
  <2> QED
    BY ONLY <2>1, <2>2
<1>8. g = [i \in D |-> Turn(g, i)]
  BY ONLY <1>7
<1>9. from = [i \in D |-> Turn(from, i)]
  BY ONLY <1>8
<1>10. from[1] = part(1) \o (part(2) \o (part(3) \o <<>>))
  <2>1. from[4] = Turn(from, 4) /\ from[3] = Turn(from, 3) /\ from[2] = Turn(from, 2) /\ from[1] = Turn(from, 1)
    BY ONLY <1>4, <1>9
  <2> QED
    BY ONLY <1>5, <2>1
<1>11. /\ Question \in Int /\ Amp \in Int /\ Equals \in Int /\ F \in Int /\ G \in Int /\ Z \in Int
       /\ Digit(1) \in Int /\ Digit(2) \in Int /\ Digit(3) \in Int
  BY DEF Question, Amp, Equals, F, G, Z, Digit
<1>12. /\ part(1) = <<Question, F, Equals, Digit(1)>>
       /\ part(2) = <<Amp, G, Equals, Digit(2)>>
       /\ part(3) = <<Amp, Z, Equals, Digit(3)>>
  BY ONLY <1>2 DEF part
<1>21. /\ Question \in Int /\ F \in Int /\ Equals \in Int /\ Digit(1) \in Int
  BY ONLY <1>11
<1>22. /\ Amp \in Int /\ G \in Int /\ Equals \in Int /\ Digit(2) \in Int
  BY ONLY <1>11
<1>13. PICK u : u = part(3) \o <<>>
  OBVIOUS
<1>14. u \in Seq(Int) /\ Len(u) = 4 /\ u[1] = Amp /\ u[2] = Z /\ u[3] = Equals /\ u[4] = Digit(3)
  <2>1. PICK e : e = <<>>
    OBVIOUS
  <2>2. e \in Seq(Int) /\ Len(e) + 4 = 4
    BY ONLY <2>1
  <2>3. /\ Amp \in Int /\ Z \in Int /\ Equals \in Int /\ Digit(3) \in Int
    BY ONLY <1>11
  <2>4. u = <<Amp, Z, Equals, Digit(3)>> \o e
    BY ONLY <1>12, <1>13, <2>1
  <2>5. u \in Seq(Int) /\ Len(u) = Len(e) + 4 /\ u[1] = Amp /\ u[2] = Z /\ u[3] = Equals /\ u[4] = Digit(3)
    BY ONLY <2>2, <2>3, <2>4, Fours
  <2> QED
    BY ONLY <2>2, <2>5
<1>15. PICK v : v = part(2) \o u
  OBVIOUS
<1>16. /\ v \in Seq(Int) /\ Len(v) = Len(u) + 4
       /\ v[1] = Amp /\ v[2] = G /\ v[3] = Equals /\ v[4] = Digit(2)
       /\ \A i \in 1..Len(u) : v[4 + i] = u[i]
  <2>1. v = <<Amp, G, Equals, Digit(2)>> \o u /\ u \in Seq(Int)
    BY ONLY <1>12, <1>14, <1>15
  <2> QED
    BY ONLY <1>22, <2>1, Fours
<1>17. /\ v \in Seq(Int) /\ Len(v) = 8 /\ v[1] = Amp /\ v[2] = G /\ v[3] = Equals /\ v[4] = Digit(2)
       /\ v[5] = Amp /\ v[6] = Z /\ v[7] = Equals /\ v[8] = Digit(3)
  <2>1. 1 \in 1..4 /\ 2 \in 1..4 /\ 3 \in 1..4 /\ 4 \in 1..4 /\ 4 + 1 = 5 /\ 4 + 2 = 6 /\ 4 + 3 = 7 /\ 4 + 4 = 8
    OBVIOUS
  <2>2. v[4 + 1] = u[1] /\ v[4 + 2] = u[2] /\ v[4 + 3] = u[3] /\ v[4 + 4] = u[4]
    BY ONLY <1>14, <1>16, <2>1
  <2> QED
    BY ONLY <1>14, <1>16, <2>1, <2>2
<1>18. PICK w : w = part(1) \o v
  OBVIOUS
<1>19. /\ w \in Seq(Int) /\ Len(w) = Len(v) + 4
       /\ w[1] = Question /\ w[2] = F /\ w[3] = Equals /\ w[4] = Digit(1)
       /\ \A i \in 1..Len(v) : w[4 + i] = v[i]
  <2>1. w = <<Question, F, Equals, Digit(1)>> \o v /\ v \in Seq(Int)
    BY ONLY <1>12, <1>17, <1>18
  <2> QED
    BY ONLY <1>21, <2>1, Fours
<1>20. Query(w)
  <2>1. /\ 1 \in 1..8 /\ 2 \in 1..8 /\ 3 \in 1..8 /\ 4 \in 1..8 /\ 5 \in 1..8 /\ 6 \in 1..8 /\ 7 \in 1..8
        /\ 8 \in 1..8
    OBVIOUS
  <2>2. /\ 4 + 1 = 5 /\ 4 + 2 = 6 /\ 4 + 3 = 7 /\ 4 + 4 = 8 /\ 4 + 5 = 9 /\ 4 + 6 = 10 /\ 4 + 7 = 11
        /\ 4 + 8 = 12 /\ 8 + 4 = 12
    OBVIOUS
  <2>3. /\ w[4 + 1] = v[1] /\ w[4 + 2] = v[2] /\ w[4 + 3] = v[3] /\ w[4 + 4] = v[4]
        /\ w[4 + 5] = v[5] /\ w[4 + 6] = v[6] /\ w[4 + 7] = v[7] /\ w[4 + 8] = v[8]
    BY ONLY <1>17, <1>19, <2>1
  <2> QED
    BY ONLY <1>17, <1>19, <2>2, <2>3 DEF Query
<1> QED
  BY ONLY <1>1, <1>3, <1>10, <1>13, <1>15, <1>18, <1>20

LEMMA SecondParam ==
  ASSUME NEW w, Query(w)
  PROVE  \E p : QueryParams(w) = Params(p) /\ p[<<G>>] = <<Digit(2)>>
<1>1. /\ Question = 63 /\ F = 102 /\ G = 103 /\ Z = 122 /\ Equals = 61 /\ Amp = 38 /\ Digit(1) = 49
      /\ Digit(2) = 50 /\ Digit(3) = 51 /\ Percent = 37
  BY DEF Question, F, G, Z, Equals, Amp, Digit, Percent
<1>2. w \in Seq(Int) /\ Len(w) = 12
  BY DEF Query
<1>3. /\ w[1] = 63 /\ w[2] = 102 /\ w[3] = 61 /\ w[4] = 49 /\ w[5] = 38 /\ w[6] = 103 /\ w[7] = 61
      /\ w[8] = 50 /\ w[9] = 38 /\ w[10] = 122 /\ w[11] = 61 /\ w[12] = 51
  BY ONLY <1>1, Query(w) DEF Query
<1>4. \A i \in 1..Len(w) : w[i] # Percent
  <2>1. \A i \in 1..12 : \/ i = 1 \/ i = 2 \/ i = 3 \/ i = 4 \/ i = 5 \/ i = 6 \/ i = 7 \/ i = 8
                         \/ i = 9 \/ i = 10 \/ i = 11 \/ i = 12
    OBVIOUS
  <2> QED
    BY ONLY <1>1, <1>2, <1>3, <2>1
<1>5. PICK f \in [1..Len(w) + 1 -> TextMaps] :
        /\ QueryParams(w) = Params(f[1])
        /\ \A i \in 1..Len(w) + 1 :
             f[i] = IF LastParam(w, i) THEN <<>>
                    ELSE Emplaced(Before(Rest(w, i), NameEnd(w, i)),
                                  Before(AfterName(w, i), ValueEnd(w, i)),
                                  f[i + NameEnd(w, i) + ValueEnd(w, i)])
  BY ONLY <1>2, <1>4, ParamsRead
<1>6. 61 \in Int /\ 38 \in Int
  OBVIOUS
<1>7. NameEnd(w, 1) = 3 /\ AfterName(w, 1) = Rest(w, 4) /\ ValueEnd(w, 1) = 2
  <2>1. 1 \in 1..Len(w) /\ 3 \in 1..Len(w) /\ \A j \in 1..3 - 1 : w[j] # 61
    <3>1. \A j \in 1..3 - 1 : j = 1 \/ j = 2
      OBVIOUS
    <3> QED
      BY ONLY <1>2, <1>3, <3>1
  <2>11. w \in Seq(Int) /\ w[3] = 61 /\ 61 \in Int
    BY ONLY <1>2, <1>3
  <2>2. Find(Rest(w, 1), <<61>>) = 3 - 1 + 1
    BY ONLY <2>1, <2>11, FindInRest
  <2>3. NameEnd(w, 1) = 3
    BY ONLY <1>1, <2>2 DEF NameEnd
  <2>4. 1 \in 1..Len(w) + 1 /\ 3 \in Nat /\ 1 + 3 \in 1..Len(w) + 1 /\ 1 + 3 = 4
    BY ONLY <1>2
  <2>5. RemovePrefix(Rest(w, 1), 3) = Rest(w, 1 + 3)
    BY ONLY <1>2, <2>4, RestOfRest
  <2>6. AfterName(w, 1) = Rest(w, 4)
    BY ONLY <2>3, <2>4, <2>5 DEF AfterName
  <2>7. 4 \in 1..Len(w) /\ 5 \in 4..Len(w) /\ \A j \in 4..5 - 1 : w[j] # 38
    <3>1. \A j \in 4..5 - 1 : j = 4
      OBVIOUS
    <3> QED
      BY ONLY <1>2, <1>3, <3>1
  <2>12. w \in Seq(Int) /\ w[5] = 38 /\ 38 \in Int
    BY ONLY <1>2, <1>3
  <2>8. Find(Rest(w, 4), <<38>>) = 5 - 4 + 1
    BY ONLY <2>7, <2>12, FindInRest
  <2> QED
    BY ONLY <1>1, <2>3, <2>6, <2>8 DEF ValueEnd
<1>8. NameEnd(w, 6) = 2 /\ AfterName(w, 6) = Rest(w, 8) /\ ValueEnd(w, 6) = 2
  <2>1. 6 \in 1..Len(w) /\ 7 \in 6..Len(w) /\ \A j \in 6..7 - 1 : w[j] # 61
    <3>1. \A j \in 6..7 - 1 : j = 6
      OBVIOUS
    <3> QED
      BY ONLY <1>2, <1>3, <3>1
  <2>11. w \in Seq(Int) /\ w[7] = 61 /\ 61 \in Int
    BY ONLY <1>2, <1>3
  <2>2. Find(Rest(w, 6), <<61>>) = 7 - 6 + 1
    BY ONLY <2>1, <2>11, FindInRest
  <2>3. NameEnd(w, 6) = 2
    BY ONLY <1>1, <2>2 DEF NameEnd
  <2>4. 6 \in 1..Len(w) + 1 /\ 2 \in Nat /\ 6 + 2 \in 1..Len(w) + 1 /\ 6 + 2 = 8
    BY ONLY <1>2
  <2>5. RemovePrefix(Rest(w, 6), 2) = Rest(w, 6 + 2)
    BY ONLY <1>2, <2>4, RestOfRest
  <2>6. AfterName(w, 6) = Rest(w, 8)
    BY ONLY <2>3, <2>4, <2>5 DEF AfterName
  <2>7. 8 \in 1..Len(w) /\ 9 \in 8..Len(w) /\ \A j \in 8..9 - 1 : w[j] # 38
    <3>1. \A j \in 8..9 - 1 : j = 8
      OBVIOUS
    <3> QED
      BY ONLY <1>2, <1>3, <3>1
  <2>12. w \in Seq(Int) /\ w[9] = 38 /\ 38 \in Int
    BY ONLY <1>2, <1>3
  <2>8. Find(Rest(w, 8), <<38>>) = 9 - 8 + 1
    BY ONLY <2>7, <2>12, FindInRest
  <2> QED
    BY ONLY <1>1, <2>3, <2>6, <2>8 DEF ValueEnd
<1>9. Before(Rest(w, 6), 2) = <<103>> /\ Before(Rest(w, 8), 2) = <<50>>
  <2>1. 6 \in 1..Len(w) /\ 2 \in 1..Len(w) - 6 + 2 /\ 8 \in 1..Len(w) /\ 2 \in 1..Len(w) - 8 + 2
    BY ONLY <1>2
  <2>2. PICK u : u = Before(Rest(w, 6), 2)
    OBVIOUS
  <2>3. PICK v : v = Before(Rest(w, 8), 2)
    OBVIOUS
  <2>4. u \in Seq(Int) /\ Len(u) = 2 - 1 /\ \A j \in 1..2 - 1 : u[j] = w[6 + j - 1]
    BY ONLY <1>2, <2>1, <2>2, BeforeInRest
  <2>5. v \in Seq(Int) /\ Len(v) = 2 - 1 /\ \A j \in 1..2 - 1 : v[j] = w[8 + j - 1]
    BY ONLY <1>2, <2>1, <2>3, BeforeInRest
  <2>6. 1 \in 1..2 - 1 /\ 6 + 1 - 1 = 6 /\ 8 + 1 - 1 = 8 /\ 2 - 1 = 1
    OBVIOUS
  <2>7. u[1] = 103 /\ v[1] = 50 /\ Len(u) = 1 /\ Len(v) = 1
    BY ONLY <1>3, <2>4, <2>5, <2>6
  <2>8. u = <<103>> /\ v = <<50>>
    BY ONLY <2>4, <2>5, <2>7
  <2> QED
    BY ONLY <2>2, <2>3, <2>8
<1>10. PICK a : a = Before(Rest(w, 1), 3)
  OBVIOUS
<1>11. a # <<103>>
  <2>1. 1 \in 1..Len(w) /\ 3 \in 1..Len(w) - 1 + 2
    BY ONLY <1>2
  <2>2. Len(a) = 3 - 1
    BY ONLY <1>2, <1>10, <2>1, BeforeInRest
  <2>3. Len(<<103>>) = 1 /\ 3 - 1 # 1
    OBVIOUS
  <2> QED
    BY ONLY <2>2, <2>3
<1>12. /\ 1 \in 1..Len(w) + 1 /\ 6 \in 1..Len(w) + 1 /\ 10 \in 1..Len(w) + 1
       /\ 1 + 3 + 2 = 6 /\ 6 + 2 + 2 = 10 /\ 3 # 0 /\ 2 # 0
  BY ONLY <1>2
<1>13. PICK b : b = Before(Rest(w, 4), 2)
  OBVIOUS
<1>14. f[1] = Emplaced(a, b, f[6]) /\ f[6] = Emplaced(<<103>>, <<50>>, f[10])
  <2>1. ~LastParam(w, 1) /\ ~LastParam(w, 6)
    BY ONLY <1>7, <1>8, <1>12 DEF LastParam
  <2>2. f[1] = Emplaced(Before(Rest(w, 1), NameEnd(w, 1)), Before(AfterName(w, 1), ValueEnd(w, 1)),
                        f[1 + NameEnd(w, 1) + ValueEnd(w, 1)])
    BY ONLY <1>5, <1>12, <2>1
  <2>3. f[6] = Emplaced(Before(Rest(w, 6), NameEnd(w, 6)), Before(AfterName(w, 6), ValueEnd(w, 6)),
                        f[6 + NameEnd(w, 6) + ValueEnd(w, 6)])
    BY ONLY <1>5, <1>12, <2>1
  <2>4. f[1] = Emplaced(a, b, f[6])
    BY ONLY <1>7, <1>10, <1>12, <1>13, <2>2
  <2>5. f[6] = Emplaced(<<103>>, <<50>>, f[10])
    BY ONLY <1>8, <1>9, <1>12, <2>3
  <2> QED
    BY ONLY <2>4, <2>5
<1>15. <<103>> \in DOMAIN f[6] /\ f[6][<<103>>] = <<50>>
  BY ONLY <1>14 DEF Emplaced
<1>16. f[1][<<103>>] = <<50>>
  BY ONLY <1>11, <1>14, <1>15 DEF Emplaced
<1> QED
  BY ONLY <1>1, <1>5, <1>16

LEMMA PathF ==
  LET t == <<Slash, F>>
  IN  /\ t \in Seq(Int) /\ Len(t) = 2 /\ t[1] = Slash
      /\ \A i \in 1..Len(t) : t[i] \notin {SP, CR, Percent, Question, Dot}
<1>1. PICK t : t = <<Slash, F>>
  OBVIOUS
<1>2. t \in Seq(Int) /\ Len(t) = 2 /\ t[1] = 47 /\ t[2] = 102 /\ Slash = 47
  BY <1>1 DEF Slash, F
<1>3. \A i \in 1..Len(t) : i = 1 \/ i = 2
  BY ONLY <1>2
<1>4. \A i \in 1..Len(t) : t[i] \notin {SP, CR, Percent, Question, Dot}
  BY ONLY <1>2, <1>3 DEF SP, CR, Percent, Question, Dot
<1> QED
  BY ONLY <1>1, <1>2, <1>4

LEMMA NotRefusedF == Find(<<Slash, F>>, <<Dot, Dot, Slash>>) = 0
<1>1. PICK t, d : t = <<Slash, F>> /\ d = <<Dot, Dot, Slash>>
  OBVIOUS
<1>2. d \in Seq(Int) /\ Len(d) > 0 /\ d[1] = Dot
  BY <1>1 DEF Dot, Slash
<1>3. t \in Seq(Int) /\ \A i \in 1..Len(t) : t[i] # d[1]
  BY ONLY <1>1, <1>2, PathF
<1> QED
  BY ONLY <1>1, <1>2, <1>3, FindLacking

LEMMA QueryAsMeant ==
  LET m == [Plain(GET, <<Slash, F>>) EXCEPT !.query = ThreeParams] IN ReadAs(m, Parse(Text(m)))
<1>1. PICK m : m = [Plain(GET, <<Slash, F>>) EXCEPT !.query = ThreeParams]
  OBVIOUS
<1>2. PICK t : t = <<Slash, F>>
  OBVIOUS
<1>3. PICK w : w = Joined(ThreeParams)
  OBVIOUS
<1>4. /\ m.query = ThreeParams /\ m.headers = <<>> /\ m.body = <<>> /\ m.versioned /\ m.method = GET
      /\ m.path = t /\ m.target = t
  BY <1>1, <1>2 DEF Plain
<1>5. Query(w)
  BY ONLY <1>3, JoinedParams
<1>6. w \in Seq(Int) /\ Len(w) = 12 /\ w[1] = Question
  BY ONLY <1>5 DEF Query
<1>7. \A i \in 1..Len(w) : w[i] # SP /\ w[i] # Percent
  <2>1. /\ Question = 63 /\ F = 102 /\ G = 103 /\ Z = 122 /\ Equals = 61 /\ Amp = 38 /\ Digit(1) = 49
        /\ Digit(2) = 50 /\ Digit(3) = 51 /\ Percent = 37 /\ SP = 32
    BY DEF Question, F, G, Z, Equals, Amp, Digit, Percent, SP
  <2>2. /\ w[1] = 63 /\ w[2] = 102 /\ w[3] = 61 /\ w[4] = 49 /\ w[5] = 38 /\ w[6] = 103 /\ w[7] = 61
        /\ w[8] = 50 /\ w[9] = 38 /\ w[10] = 122 /\ w[11] = 61 /\ w[12] = 51
    BY ONLY <1>5, <2>1 DEF Query
  <2>3. \A i \in 1..12 : \/ i = 1 \/ i = 2 \/ i = 3 \/ i = 4 \/ i = 5 \/ i = 6 \/ i = 7 \/ i = 8
                         \/ i = 9 \/ i = 10 \/ i = 11 \/ i = 12
    OBVIOUS
  <2> QED
    BY ONLY <1>6, <2>1, <2>2, <2>3, SMTT(30)
<1>8. /\ t \in Seq(Int) /\ Len(t) = 2 /\ t[1] = Slash
      /\ \A i \in 1..Len(t) : t[i] \notin {SP, CR, Percent, Question, Dot}
  BY ONLY <1>2, PathF
<1>9. PICK o : o = t \o w
  OBVIOUS
<1>10. /\ o \in Seq(Int) /\ Len(o) = Len(t) + Len(w) /\ \A i \in 1..Len(t) : o[i] = t[i]
       /\ \A i \in 1..Len(w) : o[Len(t) + i] = w[i]
  <2>1. t \in Seq(Int) /\ w \in Seq(Int)
    BY ONLY <1>6, <1>8
  <2> QED
    BY ONLY <1>9, <2>1, Joined2
<1>11. /\ \A i \in 1..Len(o) : o[i] # SP
       /\ \A i \in 1..Len(o) : o[i] # Percent
  <2>1. t \in Seq(Int) /\ w \in Seq(Int)
    BY ONLY <1>6, <1>8
  <2>2. \A i \in 1..Len(t) : t[i] # SP
    BY ONLY <1>8
  <2>3. \A i \in 1..Len(w) : w[i] # SP
    BY ONLY <1>7
  <2>4. \A i \in 1..Len(t) : t[i] # Percent
    BY ONLY <1>8
  <2>5. \A i \in 1..Len(w) : w[i] # Percent
    BY ONLY <1>7
  <2>6. \A i \in 1..Len(o) : o[i] # SP
    BY ONLY <1>9, <2>1, <2>2, <2>3, Lacking
  <2>7. \A i \in 1..Len(o) : o[i] # Percent
    BY ONLY <1>9, <2>1, <2>4, <2>5, Lacking
  <2> QED
    BY ONLY <2>6, <2>7
<1>12. Len(o) = 14 /\ o[1] = Slash /\ o[3] = Question /\ \A i \in 1..3 - 1 : o[i] # Question
  <2>1. 1 \in 1..2 /\ 1 \in 1..12 /\ 2 + 1 = 3 /\ 2 + 12 = 14
    OBVIOUS
  <2>2. o[1] = t[1] /\ o[2 + 1] = w[1]
    BY ONLY <1>6, <1>8, <1>10, <2>1
  <2>3. \A i \in 1..3 - 1 : i \in 1..Len(t)
    BY ONLY <1>8
  <2>4. \A i \in 1..3 - 1 : o[i] # Question
    BY ONLY <1>8, <1>10, <2>3
  <2> QED
    BY ONLY <1>6, <1>8, <1>10, <2>1, <2>2, <2>4
<1>13. Find(o, <<Question>>) = 3
  <2>3. Question \in Int
    BY DEF Question
  <2>4. 3 \in 1..Len(o)
    BY ONLY <1>12
  <2>1. 3 \in 1..Len(o) /\ Question \in Int /\ o \in Seq(Int) /\ o[3] = Question
    BY ONLY <1>10, <1>12, <2>3, <2>4
  <2>2. \A i \in 1..3 - 1 : o[i] # Question
    BY ONLY <1>12
  <2> QED
    BY ONLY <2>1, <2>2, FindOne
<1>14. Before(o, 3) = t /\ From(o, 3) = w
  <2>1. PICK k : k = 2
    OBVIOUS
  <2>2. t \in Seq(Int) /\ w \in Seq(Int) /\ k = Len(t)
    BY ONLY <1>6, <1>8, <2>1
  <2>3. Before(t \o w, k + 1) = t /\ From(t \o w, k + 1) = w
    BY ONLY <2>2, TakenApart
  <2>4. k + 1 = 3
    BY ONLY <2>1
  <2> QED
    BY ONLY <1>9, <2>3, <2>4
<1>15. Text(m) = Versioned(GET, o, CRLF)
  <2>1. Lines(m.headers) = <<>> /\ <<>> \in Seq(Int)
    BY ONLY <1>4, NoLines
  <2>2. GET \in Int
    BY DEF GET
  <2>3. /\ m.versioned /\ m.method \in Int /\ m.target \in Seq(Int) /\ Joined(m.query) \in Seq(Int)
        /\ Lines(m.headers) \in Seq(Int) /\ m.body \in Seq(Int)
    BY ONLY <1>3, <1>4, <1>6, <1>8, <2>1, <2>2
  <2>4. Text(m) = Versioned(m.method, m.target \o Joined(m.query), Lines(m.headers) \o CRLF \o m.body)
    BY ONLY <2>3, TextVersioned
  <2>5. <<>> \o CRLF \o <<>> = CRLF
    BY CRLFText
  <2> QED
    BY ONLY <1>3, <1>4, <1>9, <2>1, <2>4, <2>5
<1>16. PICK u : u = Unescape(o, <<SP, HTTP>> \o CRLF \o CRLF)
  OBVIOUS
<1>17. u.how = "text" /\ u.text = o
  <2>1. o \in Seq(Int)
    BY ONLY <1>10
  <2>2. u = Unescaped(o)
    BY ONLY <1>11, <1>16, <2>1, UnescapePlain
  <2> QED
    BY ONLY <2>2 DEF Unescaped
<1>18. Parse(Versioned(GET, o, CRLF)) = ReadOf(GET, u, CRLF)
  <2>1. GET \in Int /\ GET # SP
    BY DEF GET, SP
  <2>2. o \in Seq(Int) /\ CRLF \in Seq(Int) /\ Len(o) > 0 /\ o[1] = Slash
    BY ONLY <1>10, <1>12, CRLFText
  <2>3. \A i \in 1..Len(o) : o[i] # SP
    BY ONLY <1>11
  <2> QED
    BY ONLY <1>16, <2>1, <2>2, <2>3, ParseVersioned
<1>19. PICK p : QueryParams(w) = Params(p) /\ p[<<G>>] = <<Digit(2)>>
  BY ONLY <1>5, SecondParam
<1>20. PICK r : r = ReadOf(GET, u, CRLF)
  OBVIOUS
<1>21. /\ r.method = <<GET>> /\ r.path = t /\ r.headers = <<>> /\ r.body = <<>>
       /\ r.query_params = p /\ r.how = "text"
  <2>1. PICK h : h = Headers(CRLF)
    OBVIOUS
  <2>2. h.headers = <<>> /\ h.next = 1 /\ Body(SubSeq(CRLF, h.next, Len(CRLF))) = <<>>
    BY ONLY <2>1, NothingAfter
  <2>3. PICK q : q = QueryParams(w)
    OBVIOUS
  <2>4. q.how = "text" /\ q.params = p
    BY ONLY <1>19, <2>3 DEF Params
  <2>5. PathOnly(o, 3) = t
    BY ONLY <1>14 DEF PathOnly
  <2>6. ReadOf(GET, u, CRLF) =
          [how |-> "text", method |-> <<GET>>, path |-> t, query_params |-> p,
           version |-> <<HTTP>>, headers |-> <<>>, body |-> <<>>]
    BY ONLY <1>13, <1>14, <1>17, <2>1, <2>2, <2>3, <2>4, <2>5 DEF ReadOf
  <2> QED
    BY ONLY <1>20, <2>6
<1>22. Len(<<>>) = 0 /\ DOMAIN <<>> = {} /\ 1..0 = {}
  OBVIOUS
<1>23. /\ DOMAIN r.headers = {<<m.headers[i][1]>> : i \in 1..Len(m.headers)}
       /\ \A i \in 1..Len(m.headers) : r.headers[<<m.headers[i][1]>>] = <<m.headers[i][2]>>
  BY ONLY <1>4, <1>21, <1>22
<1>24. \A i \in 2..Len(m.query) - 1 : r.query_params[<<m.query[i][1]>>] = <<m.query[i][2]>>
  <2>1. PICK q : q = m.query
    OBVIOUS
  <2>2. Len(q) = 3 /\ q[2][1] = G /\ q[2][2] = Digit(2)
    BY ONLY <1>4, <2>1 DEF ThreeParams
  <2>3. \A i \in 2..Len(q) - 1 : i = 2
    BY ONLY <2>2
  <2> QED
    BY ONLY <1>19, <1>21, <2>1, <2>2, <2>3
<1>25. ~Refused(m)
  BY ONLY <1>2, <1>4, NotRefusedF DEF Refused
<1>26. ReadAs(m, r)
  BY ONLY <1>4, <1>21, <1>23, <1>24, <1>25 DEF ReadAs
<1>27. ReadAs(m, Parse(Text(m)))
  BY ONLY <1>15, <1>18, <1>20, <1>26
<1> QED
  BY ONLY <1>1, <1>27

-----------------------------------------------------------------------------
(* The headers: of a text in which a line break follows every colon. *)
Blanks(r) == CHOOSE k \in 0..Len(r) : (\A j \in 1..k : r[j] = SP) /\ (k < Len(r) => r[k + 1] # SP)
NoHeader(s, i) ==
  Find(Rest(s, i), CRLF) = 0 \/ StartsWith(Rest(s, i), CRLF) \/ Find(Rest(s, i), <<Colon>>) = 0
ColonAt(s, i) == Find(Rest(s, i), <<Colon>>)
AfterColon(s, i) == RemovePrefix(Rest(s, i), ColonAt(s, i))
Field(s, i) == RemovePrefix(AfterColon(s, i), Blanks(AfterColon(s, i)))
FieldEnd(s, i) == Find(Field(s, i), CRLF)
NextLine(s, i) == i + ColonAt(s, i) + Blanks(AfterColon(s, i)) + FieldEnd(s, i) + 1

Closed(s) ==
  \A j \in 1..Len(s) : s[j] = Colon =>
    \E k \in j + 1..Len(s) - 1 : s[k] = CR /\ s[k + 1] = LF

LEMMA BlanksAre ==
  ASSUME NEW r \in Seq(Int)
  PROVE  /\ Blanks(r) \in 0..Len(r)
         /\ \A j \in 1..Blanks(r) : r[j] = SP
         /\ Blanks(r) < Len(r) => r[Blanks(r) + 1] # SP
<1> DEFINE Good(k) == (\A j \in 1..k : r[j] = SP) /\ (k < Len(r) => r[k + 1] # SP)
<1>1. PICK l \in Nat : l = Len(r)
  BY TextFacts
<1>2. \E k \in 0..Len(r) : Good(k)
  <2>1. CASE \A j \in 1..l : r[j] = SP
    <3>1. l \in 0..Len(r) /\ ~(l < Len(r))
      BY ONLY <1>1, l \in Nat
    <3> QED
      BY ONLY <2>1, <3>1
  <2>2. CASE ~(\A j \in 1..l : r[j] = SP)
    <3> DEFINE S == {j \in 1..l : r[j] # SP}
    <3>1. S \in SUBSET Nat /\ \E i : i \in S
      BY ONLY <2>2
    <3>2. PICK m \in S : \A i \in S : ~(i < m)
      BY ONLY <3>1, LeastNumber
    <3>3. PICK k \in Int : k = m - 1
      BY ONLY <3>1, <3>2
    <3>4. m \in 1..l /\ r[m] # SP /\ k \in 0..l /\ k + 1 = m
      BY ONLY <3>2, <3>3, l \in Nat
    <3>5. \A j \in 1..k : r[j] = SP
      <4>1. \A j \in 1..k : j \in 1..l /\ j < m
        BY ONLY <3>3, <3>4, l \in Nat
      <4> QED
        BY ONLY <3>2, <4>1
    <3> QED
      BY ONLY <1>1, <3>4, <3>5
  <2> QED
    BY ONLY <2>1, <2>2
<1>3. Blanks(r) = CHOOSE k \in 0..Len(r) : Good(k)
  BY DEF Blanks
<1> HIDE DEF Good
<1>4. Blanks(r) \in 0..Len(r) /\ Good(Blanks(r))
  BY ONLY <1>2, <1>3
<1> USE DEF Good
<1> QED
  BY ONLY <1>4

LEMMA BlanksUnique ==
  ASSUME NEW r \in Seq(Int), NEW k \in 0..Len(r), \A j \in 1..k : r[j] = SP, k < Len(r), r[k + 1] # SP
  PROVE  Blanks(r) = k
<1>0. PICK b : b = Blanks(r)
  OBVIOUS
<1>1. PICK l \in Nat : l = Len(r)
  BY TextFacts
<1>2. b \in 0..l /\ (\A j \in 1..b : r[j] = SP) /\ (b < l => r[b + 1] # SP)
  BY ONLY <1>0, <1>1, BlanksAre, r \in Seq(Int)
<1>3. ~(b < k)
  <2>1. ASSUME b < k PROVE FALSE
    <3>1. b + 1 \in 1..k /\ b < l
      BY ONLY <1>1, <1>2, <2>1, k \in 0..Len(r), l \in Nat
    <3> QED
      BY ONLY <1>2, <3>1, \A j \in 1..k : r[j] = SP
  <2> QED
    BY <2>1
<1>4. ~(k < b)
  <2>1. ASSUME k < b PROVE FALSE
    <3>1. k + 1 \in 1..b
      BY ONLY <1>1, <1>2, <2>1, k \in 0..Len(r), l \in Nat
    <3> QED
      BY ONLY <1>2, <3>1, r[k + 1] # SP
  <2> QED
    BY <2>1
<1> QED
  BY <1>0, <1>1, <1>2, <1>3, <1>4

LEMMA FindPairRange ==
  ASSUME NEW s \in Seq(Int), NEW c \in Int, NEW d \in Int,
         NEW p \in 1..Len(s) - 1, s[p] = c, s[p + 1] = d
  PROVE  Find(s, <<c, d>>) \in 1..Len(s) - 1
<1>1. PICK n \in Nat : n = Len(s)
  BY TextFacts
<1> DEFINE S == {i \in 1..n - 1 : s[i] = c /\ s[i + 1] = d}
<1>2. S \in SUBSET Nat /\ p \in S
  BY <1>1
<1>3. PICK k \in S : \A m \in S : ~(m < k)
  BY ONLY <1>2, LeastNumber
<1>4. k \in 1..Len(s) - 1 /\ s[k] = c /\ s[k + 1] = d /\ k \in Int
  BY ONLY <1>1, <1>3
<1>5. \A i \in 1..k - 1 : s[i] # c \/ s[i + 1] # d
  <2>1. \A i \in 1..k - 1 : i \in 1..n - 1 /\ i < k
    BY ONLY <1>1, <1>4
  <2> QED
    BY ONLY <1>3, <2>1
<1>6. Find(s, <<c, d>>) = k
  BY ONLY <1>4, <1>5, FindTwo, s \in Seq(Int), c \in Int, d \in Int
<1> QED
  BY ONLY <1>4, <1>6

LEMMA HeaderTurn ==
  ASSUME NEW s \in Seq(Int), Closed(s), NEW i \in 1..Len(s) + 1, ~NoHeader(s, i)
  PROVE  /\ Before(Rest(s, i), ColonAt(s, i)) \in Seq(Int)
         /\ Before(Field(s, i), FieldEnd(s, i)) \in Seq(Int)
         /\ NextLine(s, i) \in i + 1..Len(s) + 1
<1>1. PICK l \in Nat : l = Len(s)
  BY TextFacts
<1>2. i \in Int /\ i \in 1..l + 1
  BY <1>1
<1>3. PICK h : h = Rest(s, i)
  OBVIOUS
<1>4. h \in Seq(Int) /\ Len(h) = l - i + 1 /\ \A j \in 1..l - i + 1 : h[j] = s[i + j - 1]
  BY ONLY <1>1, <1>3, RestIs, s \in Seq(Int), i \in 1..Len(s) + 1
<1>5. PICK n : n = ColonAt(s, i)
  OBVIOUS
<1>6. n \in Int /\ n \in 1..l - i + 1 /\ h[n] = Colon
  <2>1. n = Find(h, <<Colon>>) /\ n # 0
    BY ONLY <1>3, <1>5, ~NoHeader(s, i) DEF ColonAt, NoHeader
  <2>2. Colon \in Int
    BY DEF Colon
  <2>3. n \in 0..Len(h) /\ h[n] = Colon
    BY ONLY <1>4, <2>1, <2>2, FindRange
  <2> QED
    BY ONLY <1>2, <1>4, <2>1, <2>3, l \in Nat
<1>7. i + n - 1 \in 1..Len(s) /\ s[i + n - 1] = Colon
  <2>1. i + n - 1 \in 1..l
    BY ONLY <1>2, <1>6, l \in Nat
  <2> QED
    BY ONLY <1>1, <1>4, <1>6, <2>1
<1>8. PICK k \in i + n - 1 + 1..Len(s) - 1 : s[k] = CR /\ s[k + 1] = LF
  BY ONLY <1>7, Closed(s) DEF Closed
<1>9. PICK a \in Int : a = i + n
  BY ONLY <1>2, <1>6
<1>10. k \in Int /\ k \in a..l - 1 /\ a \in 1..l + 1 /\ a >= i + 1
  BY ONLY <1>1, <1>2, <1>6, <1>8, <1>9, l \in Nat
<1>11. PICK r : r = AfterColon(s, i)
  OBVIOUS
<1>12. r = Rest(s, a)
  <2>1. n \in Nat /\ i + n \in 1..Len(s) + 1
    BY ONLY <1>1, <1>2, <1>6, <1>9, <1>10, l \in Nat
  <2>2. RemovePrefix(Rest(s, i), n) = Rest(s, i + n)
    BY ONLY <2>1, RestOfRest, s \in Seq(Int), i \in 1..Len(s) + 1
  <2> QED
    BY ONLY <1>5, <1>9, <1>11, <2>2 DEF AfterColon
<1>13. r \in Seq(Int) /\ Len(r) = l - a + 1 /\ \A j \in 1..l - a + 1 : r[j] = s[a + j - 1]
  <2>1. a \in 1..Len(s) + 1
    BY ONLY <1>1, <1>10
  <2> QED
    BY ONLY <1>1, <1>12, <2>1, RestIs, s \in Seq(Int)
<1>14. PICK b : b = Blanks(r)
  OBVIOUS
<1>15. b \in 0..Len(r) /\ \A j \in 1..b : r[j] = SP
  BY ONLY <1>13, <1>14, BlanksAre
<1>16. b \in Nat /\ b \in 0..k - a
  <2>1. b \in Nat /\ b \in 0..l - a + 1
    BY ONLY <1>10, <1>13, <1>15, l \in Nat
  <2>2. ASSUME b > k - a PROVE FALSE
    <3>1. PICK m \in Int : m = k - a + 1
      BY ONLY <1>10
    <3>2. m \in 1..b /\ m \in 1..l - a + 1 /\ a + m - 1 = k
      BY ONLY <1>10, <2>1, <2>2, <3>1, l \in Nat
    <3>3. r[m] = SP /\ r[m] = CR
      BY ONLY <1>8, <1>13, <1>15, <3>2
    <3> QED
      BY <3>3 DEF SP, CR
  <2> QED
    BY ONLY <1>10, <2>1, <2>2
<1>17. PICK e \in Int : e = a + b
  BY ONLY <1>16
<1>18. e \in 1..l + 1 /\ k \in e..l - 1 /\ e >= a
  BY ONLY <1>10, <1>16, <1>17, l \in Nat
<1>19. PICK w : w = Field(s, i)
  OBVIOUS
<1>20. w = Rest(s, e)
  <2>1. a \in 1..Len(s) + 1 /\ a + b \in 1..Len(s) + 1
    BY ONLY <1>1, <1>10, <1>17, <1>18
  <2>2. RemovePrefix(Rest(s, a), b) = Rest(s, a + b)
    BY ONLY <1>16, <2>1, RestOfRest, s \in Seq(Int)
  <2> QED
    BY ONLY <1>11, <1>12, <1>14, <1>17, <1>19, <2>2 DEF Field
<1>21. w \in Seq(Int) /\ Len(w) = l - e + 1 /\ \A j \in 1..l - e + 1 : w[j] = s[e + j - 1]
  <2>1. e \in 1..Len(s) + 1
    BY ONLY <1>1, <1>18
  <2> QED
    BY ONLY <1>1, <1>20, <2>1, RestIs, s \in Seq(Int)
<1>22. PICK v : v = FieldEnd(s, i)
  OBVIOUS
<1>23. v \in 1..Len(w) - 1
  <2>1. PICK m \in Int : m = k - e + 1
    BY ONLY <1>10
  <2>2. /\ m \in 1..l - e + 1 /\ e + m - 1 = k /\ m + 1 \in 1..l - e + 1 /\ e + (m + 1) - 1 = k + 1
    BY ONLY <1>10, <1>18, <2>1, l \in Nat
  <2>3. w[m] = CR /\ w[m + 1] = LF
    BY ONLY <1>8, <1>21, <2>2
  <2>4. m \in 1..Len(w) - 1
    BY ONLY <1>18, <1>21, <2>2, l \in Nat
  <2>5. CR \in Int /\ LF \in Int /\ w \in Seq(Int)
    BY ONLY <1>21 DEF CR, LF
  <2>6. Find(w, <<CR, LF>>) \in 1..Len(w) - 1
    BY ONLY <2>3, <2>4, <2>5, FindPairRange
  <2> QED
    BY ONLY <1>19, <1>22, <2>6 DEF FieldEnd, CRLF
<1>24. v \in Int /\ v >= 1 /\ v <= l - e
  BY ONLY <1>18, <1>21, <1>23, l \in Nat
<1>25. Before(h, n) \in Seq(Int) /\ Before(w, v) \in Seq(Int)
  <2>1. n \in 1..Len(h) + 1
    BY ONLY <1>2, <1>4, <1>6, l \in Nat
  <2>2. v \in 1..Len(w) + 1
    BY ONLY <1>18, <1>21, <1>24, l \in Nat
  <2>3. h \in Seq(Int) /\ w \in Seq(Int)
    BY ONLY <1>4, <1>21
  <2>4. Before(h, n) \in Seq(Int)
    BY ONLY <2>1, <2>3, PartBefore
  <2>5. Before(w, v) \in Seq(Int)
    BY ONLY <2>2, <2>3, PartBefore
  <2> QED
    BY ONLY <2>4, <2>5
<1>26. NextLine(s, i) = i + n + b + v + 1
  BY ONLY <1>5, <1>11, <1>14, <1>22 DEF NextLine
<1>27. i + n + b + v + 1 \in i + 1..l + 1
  BY ONLY <1>2, <1>6, <1>9, <1>10, <1>16, <1>17, <1>18, <1>24, l \in Nat
<1> QED
  BY ONLY <1>1, <1>3, <1>5, <1>19, <1>22, <1>25, <1>26, <1>27

HeaderMap(headers, next) == [headers |-> headers, next |-> next]

LEMMA HeadersUpdated ==
  ASSUME NEW p, NEW k, NEW name, NEW value, NEW r, r = HeaderMap(p, k)
  PROVE  [r EXCEPT !.headers = Emplaced(name, value, @)] = HeaderMap(Emplaced(name, value, p), k)
<1>1. r.headers = p
  BY DEF HeaderMap
<1>2. \A w : [r EXCEPT !.headers = w] = HeaderMap(w, k)
  BY DEF HeaderMap
<1>3. [r EXCEPT !.headers = Emplaced(name, value, p)] = HeaderMap(Emplaced(name, value, p), k)
  BY <1>2
<1>4. Emplaced(name, value, r.headers) = Emplaced(name, value, p)
  BY <1>1, Zenon
<1> QED
  BY ONLY <1>3, <1>4, Zenon

(* A text in which a line break follows every colon is read line by line. *)
LEMMA HeadersRead ==
  ASSUME NEW s \in Seq(Int), Closed(s)
  PROVE  \E f, e :
           /\ Headers(s) = HeaderMap(f[1], e[1])
           /\ \A i \in 1..Len(s) + 1 :
                IF NoHeader(s, i) THEN f[i] = <<>> /\ e[i] = i
                ELSE /\ f[i] = Emplaced(Before(Rest(s, i), ColonAt(s, i)),
                                        Before(Field(s, i), FieldEnd(s, i)),
                                        f[NextLine(s, i)])
                     /\ e[i] = e[NextLine(s, i)]
<1>1. PICK l \in Nat : l = Len(s)
  BY TextFacts
<1> DEFINE D == 1..Len(s) + 1
           name(i) == Before(Rest(s, i), ColonAt(s, i))
           value(i) == Before(Field(s, i), FieldEnd(s, i))
           to(i) == NextLine(s, i)
           Turn(f, i) ==
             LET h == SubSeq(s, i, Len(s))
                 n == Find(h, <<Colon>>)
                 r == RemovePrefix(h, n)
                 blanks == CHOOSE k \in 0..Len(r) : (\A j \in 1..k : r[j] = SP)
                                                      /\ (k < Len(r) => r[k + 1] # SP)
                 vl == RemovePrefix(r, blanks)
                 v == Find(vl, CRLF)
                 rest == f[i + n + blanks + v + 1]
             IN  IF Find(h, CRLF) = 0 \/ StartsWith(h, CRLF) \/ n = 0
                 THEN [headers |-> <<>>, next |-> i]
                 ELSE [rest EXCEPT !.headers = Emplaced(Before(h, n), Before(vl, v), @)]
           from == CHOOSE f : f = [i \in D |-> Turn(f, i)]
           V == [headers : TextMaps, next : D]
           base == [i \in 1..l + 1 |-> HeaderMap(<<>>, i)]
           next == [i \in 1..l + 1 |-> IF NoHeader(s, i) THEN i ELSE to(i)]
           step == [i \in 1..l + 1 |-> [p \in V |-> IF NoHeader(s, i) THEN p
                                                   ELSE HeaderMap(Emplaced(name(i), value(i), p.headers), p.next)]]
<1>2. Headers(s) = from[1]
  BY DEF Headers
<1>3. ASSUME NEW f, NEW i \in D, NoHeader(s, i) PROVE Turn(f, i) = HeaderMap(<<>>, i)
  BY ONLY <1>3 DEF NoHeader, Rest, HeaderMap
<1>4. ASSUME NEW i \in D, ~NoHeader(s, i)
      PROVE  name(i) \in Seq(Int) /\ value(i) \in Seq(Int) /\ to(i) \in i + 1..Len(s) + 1
  BY ONLY <1>4, HeaderTurn, s \in Seq(Int), Closed(s)
<1>5. ASSUME NEW f, NEW i \in D, ~NoHeader(s, i)
      PROVE  Turn(f, i) = [f[to(i)] EXCEPT !.headers = Emplaced(name(i), value(i), @)]
  BY ONLY <1>5 DEF NoHeader, NextLine, FieldEnd, Field, AfterColon, ColonAt, Blanks, Rest
<1>6. l + 1 \in Nat /\ 1..l + 1 = D /\ 1 \in D
  BY <1>1
<1> HIDE DEF Turn, name, value, to
<1>7. /\ base \in [1..l + 1 -> V]
      /\ next \in [1..l + 1 -> 1..l + 1]
      /\ step \in [1..l + 1 -> [V -> V]]
  <2>1. \A i \in D : ~NoHeader(s, i) => to(i) \in D
    BY <1>1, <1>4
  <2>2. \A i \in D : \A p \in TextMaps : ~NoHeader(s, i) => Emplaced(name(i), value(i), p) \in TextMaps
    BY <1>4, OneEntryMore
  <2>3. base \in [1..l + 1 -> V]
    BY ONLY <1>6, NoEntry DEF HeaderMap
  <2>4. next \in [1..l + 1 -> 1..l + 1]
    BY <1>6, <2>1
  <2>5. step \in [1..l + 1 -> [V -> V]]
    BY ONLY <1>6, <2>2 DEF HeaderMap
  <2> QED
    BY <2>3, <2>4, <2>5
<1>8. PICK g \in [1..l + 1 -> V] : \A i \in 1..l + 1 :
        g[i] = IF next[i] > i THEN step[i][g[next[i]]] ELSE base[i]
  <2>1. PICK n \in Nat : n = l + 1
    BY <1>6
  <2> HIDE DEF base, next, step, V
  <2>2. base \in [1..n -> V] /\ next \in [1..n -> 1..n] /\ step \in [1..n -> [V -> V]]
    BY ONLY <1>7, <2>1
  <2>3. \E g \in [1..n -> V] : ByPosition(g, n, base, next, step)
    BY ONLY <2>2, Recursion, n \in Nat
  <2> QED
    BY ONLY <2>1, <2>3 DEF ByPosition
<1>9. ASSUME NEW i \in D
      PROVE  g[i] = IF NoHeader(s, i) THEN HeaderMap(<<>>, i)
                    ELSE HeaderMap(Emplaced(name(i), value(i), g[to(i)].headers), g[to(i)].next)
  <2>1. CASE NoHeader(s, i)
    <3>1. next[i] = i /\ base[i] = HeaderMap(<<>>, i) /\ ~(i > i)
      BY <1>1, <1>6, <2>1
    <3> QED
      BY ONLY <1>6, <1>8, <1>9, <2>1, <3>1
  <2>2. CASE ~NoHeader(s, i)
    <3>1. next[i] = to(i) /\ to(i) > i /\ to(i) \in D
      BY <1>1, <1>4, <1>6, <2>2
    <3>2. g[to(i)] \in V
      BY ONLY <1>6, <1>8, <3>1
    <3>3. step[i][g[to(i)]] = HeaderMap(Emplaced(name(i), value(i), g[to(i)].headers), g[to(i)].next)
      BY ONLY <1>6, <1>9, <2>2, <3>2
    <3> QED
      BY ONLY <1>6, <1>8, <1>9, <2>2, <3>1, <3>3
  <2> QED
    BY ONLY <2>1, <2>2
<1> DEFINE h == [i \in D |-> HeaderMap(g[i].headers, g[i].next)]
<1>10. ASSUME NEW i \in D PROVE h[i] = Turn(h, i)
  <2>1. CASE NoHeader(s, i)
    <3>1. g[i].headers = <<>> /\ g[i].next = i
      <4>1. g[i] = HeaderMap(<<>>, i)
        BY ONLY <1>9, <1>10, <2>1
      <4> QED
        BY ONLY <4>1 DEF HeaderMap
    <3> QED
      BY ONLY <1>3, <1>10, <2>1, <3>1
  <2>2. CASE ~NoHeader(s, i)
    <3>1. to(i) \in D
      BY <1>1, <1>4, <2>2
    <3>2. h[to(i)] = HeaderMap(g[to(i)].headers, g[to(i)].next)
      BY ONLY <3>1
    <3>3. Turn(h, i) = [h[to(i)] EXCEPT !.headers = Emplaced(name(i), value(i), @)]
      BY ONLY <1>5, <1>10, <2>2
    <3>4. [h[to(i)] EXCEPT !.headers = Emplaced(name(i), value(i), @)]
            = HeaderMap(Emplaced(name(i), value(i), g[to(i)].headers), g[to(i)].next)
      <4>1. PICK u : u = h[to(i)]
        OBVIOUS
      <4> HIDE DEF h
      <4>2. u = HeaderMap(g[to(i)].headers, g[to(i)].next)
        BY ONLY <3>2, <4>1
      <4>3. [u EXCEPT !.headers = Emplaced(name(i), value(i), @)]
              = HeaderMap(Emplaced(name(i), value(i), g[to(i)].headers), g[to(i)].next)
        BY ONLY <4>2, HeadersUpdated
      <4> QED
        BY ONLY <4>1, <4>3, Zenon
    <3>5. g[i].headers = Emplaced(name(i), value(i), g[to(i)].headers) /\ g[i].next = g[to(i)].next
      <4>1. g[i] = HeaderMap(Emplaced(name(i), value(i), g[to(i)].headers), g[to(i)].next)
        BY ONLY <1>9, <1>10, <2>2
      <4> QED
        BY ONLY <4>1 DEF HeaderMap
    <3>6. h[i] = HeaderMap(g[i].headers, g[i].next)
      BY ONLY <1>10
    <3> QED
      BY ONLY <3>3, <3>4, <3>5, <3>6
  <2> QED
    BY ONLY <2>1, <2>2
<1>11. h = [i \in D |-> Turn(h, i)]
  BY ONLY <1>10
<1>12. from = [i \in D |-> Turn(from, i)]
  BY ONLY <1>11
<1>13. ASSUME NEW i \in D, from[i] # h[i], \A j \in D : j > i => from[j] = h[j] PROVE FALSE
  <2>1. from[i] = Turn(from, i)
    BY ONLY <1>12, <1>13
  <2> HIDE DEF h
  <2>2. CASE NoHeader(s, i)
    <3>1. Turn(from, i) = Turn(h, i)
      BY ONLY <1>3, <1>13, <2>2
    <3> QED
      BY ONLY <1>10, <1>13, <2>1, <3>1
  <2>3. CASE ~NoHeader(s, i)
    <3>1. to(i) \in D /\ to(i) > i
      BY <1>1, <1>4, <2>3
    <3>2. from[to(i)] = h[to(i)]
      BY ONLY <1>13, <3>1
    <3>3. Turn(from, i) = [from[to(i)] EXCEPT !.headers = Emplaced(name(i), value(i), @)]
      BY ONLY <1>5, <1>13, <2>3
    <3>4. Turn(h, i) = [h[to(i)] EXCEPT !.headers = Emplaced(name(i), value(i), @)]
      BY ONLY <1>5, <1>13, <2>3
    <3>5. Turn(from, i) = Turn(h, i)
      BY ONLY <3>2, <3>3, <3>4, Zenon
    <3> QED
      BY ONLY <1>10, <1>13, <2>1, <3>5
  <2> QED
    BY ONLY <2>2, <2>3
<1>14. ASSUME NEW i \in D PROVE from[i] = h[i]
  <2> DEFINE S == {k \in 0..l : from[l + 1 - k] # h[l + 1 - k]}
  <2>1. ASSUME NEW k \in S PROVE FALSE
    <3>1. S \in SUBSET Nat
      OBVIOUS
    <3>2. PICK m \in S : \A j \in S : ~(j < m)
      BY ONLY <2>1, <3>1, LeastNumber
    <3>3. m \in 0..l /\ l + 1 - m \in D /\ from[l + 1 - m] # h[l + 1 - m]
      BY ONLY <1>1, <3>2, l \in Nat
    <3> HIDE DEF h
    <3>4. ASSUME NEW j \in D, j > l + 1 - m PROVE from[j] = h[j]
      <4>1. l + 1 - j \in 0..l /\ l + 1 - j < m /\ l + 1 - (l + 1 - j) = j
        BY ONLY <1>1, <3>3, <3>4, l \in Nat
      <4> QED
        BY ONLY <3>2, <4>1
    <3> QED
      BY ONLY <1>13, <3>3, <3>4
  <2>2. l + 1 - i \in 0..l /\ l + 1 - (l + 1 - i) = i
    BY ONLY <1>1, l \in Nat, i \in D
  <2> QED
    BY ONLY <2>1, <2>2
<1>15. Headers(s) = HeaderMap(g[1].headers, g[1].next)
  BY ONLY <1>2, <1>6, <1>14
<1> DEFINE a == [i \in D |-> g[i].headers]
           e == [i \in D |-> g[i].next]
<1>16. ASSUME NEW i \in D
       PROVE  IF NoHeader(s, i) THEN a[i] = <<>> /\ e[i] = i
              ELSE a[i] = Emplaced(name(i), value(i), a[to(i)]) /\ e[i] = e[to(i)]
  <2>1. ~NoHeader(s, i) => to(i) \in D
    BY <1>1, <1>4
  <2>2. a[i] = g[i].headers /\ e[i] = g[i].next
    BY ONLY <1>16
  <2>3. to(i) \in D => a[to(i)] = g[to(i)].headers /\ e[to(i)] = g[to(i)].next
    OBVIOUS
  <2> HIDE DEF a, e
  <2>4. CASE NoHeader(s, i)
    <3>1. g[i] = HeaderMap(<<>>, i)
      BY ONLY <1>9, <1>16, <2>4
    <3>2. g[i].headers = <<>> /\ g[i].next = i
      BY ONLY <3>1 DEF HeaderMap
    <3> QED
      BY ONLY <2>2, <2>4, <3>2
  <2>5. CASE ~NoHeader(s, i)
    <3>1. g[i] = HeaderMap(Emplaced(name(i), value(i), g[to(i)].headers), g[to(i)].next)
      BY ONLY <1>9, <1>16, <2>5
    <3>2. g[i].headers = Emplaced(name(i), value(i), g[to(i)].headers) /\ g[i].next = g[to(i)].next
      BY ONLY <3>1 DEF HeaderMap
    <3> QED
      BY ONLY <2>1, <2>2, <2>3, <2>5, <3>2
  <2> QED
    BY ONLY <2>4, <2>5
<1>17. Headers(s) = HeaderMap(a[1], e[1])
  BY ONLY <1>6, <1>15
<1> QED
  <2> HIDE DEF a, e
  <2>1. \A i \in 1..Len(s) + 1 :
          IF NoHeader(s, i) THEN a[i] = <<>> /\ e[i] = i
          ELSE /\ a[i] = Emplaced(Before(Rest(s, i), ColonAt(s, i)),
                                  Before(Field(s, i), FieldEnd(s, i)), a[NextLine(s, i)])
               /\ e[i] = e[NextLine(s, i)]
    BY ONLY <1>16 DEF name, value, to
  <2> QED
    BY ONLY <1>17, <2>1

-----------------------------------------------------------------------------
(* The message with headers: two, and a body. *)
TwoHeaders == << <<G, F>>, <<F, G>> >>

HeaderText(z) ==
  /\ z \in Seq(Int) /\ Len(z) = 15
  /\ z[1] = G /\ z[2] = Colon /\ z[3] = SP /\ z[4] = F /\ z[5] = CR /\ z[6] = LF
  /\ z[7] = F /\ z[8] = Colon /\ z[9] = SP /\ z[10] = G /\ z[11] = CR /\ z[12] = LF
  /\ z[13] = CR /\ z[14] = LF /\ z[15] = F

Line(w, a, b, c, d, y) ==
  /\ w \in Seq(Int) /\ Len(w) = Len(y) + 6
  /\ w[1] = a /\ w[2] = b /\ w[3] = c /\ w[4] = d /\ w[5] = CR /\ w[6] = LF
  /\ \A i \in 1..Len(y) : w[6 + i] = y[i]

LEMMA Sixes ==
  ASSUME NEW a \in Int, NEW b \in Int, NEW c \in Int, NEW d \in Int, NEW y \in Seq(Int)
  PROVE  Line((<<a, b, c, d>> \o CRLF) \o y, a, b, c, d, y)
<1>1. PICK u : u = <<a, b, c, d>> \o CRLF
  OBVIOUS
<1>2. /\ u \in Seq(Int) /\ Len(u) = Len(CRLF) + 4
      /\ u[1] = a /\ u[2] = b /\ u[3] = c /\ u[4] = d
      /\ \A i \in 1..Len(CRLF) : u[4 + i] = CRLF[i]
  <2>1. CRLF \in Seq(Int)
    BY CRLFText
  <2> QED
    BY ONLY <1>1, <2>1, Fours, a \in Int, b \in Int, c \in Int, d \in Int
<1>3. Len(u) = 6 /\ u[5] = CR /\ u[6] = LF
  <2>1. 1 \in 1..2 /\ 2 \in 1..2 /\ 4 + 1 = 5 /\ 4 + 2 = 6 /\ 2 + 4 = 6
    OBVIOUS
  <2>2. Len(CRLF) = 2 /\ CRLF[1] = CR /\ CRLF[2] = LF
    BY CRLFText
  <2>3. u[4 + 1] = CRLF[1] /\ u[4 + 2] = CRLF[2] /\ Len(u) = 2 + 4
    BY ONLY <1>2, <2>1, <2>2
  <2> QED
    BY ONLY <2>1, <2>2, <2>3
<1>4. PICK w : w = u \o y
  OBVIOUS
<1>5. /\ w \in Seq(Int) /\ Len(w) = Len(u) + Len(y) /\ \A i \in 1..Len(u) : w[i] = u[i]
      /\ \A i \in 1..Len(y) : w[Len(u) + i] = y[i]
  <2>1. u \in Seq(Int)
    BY ONLY <1>2
  <2> QED
    BY ONLY <1>4, <2>1, Joined2, y \in Seq(Int)
<1>6. PICK l \in Nat : l = Len(y)
  BY TextFacts
<1>7. Len(w) = Len(y) + 6 /\ \A i \in 1..Len(y) : w[6 + i] = y[i]
  BY ONLY <1>3, <1>5, <1>6, l \in Nat
<1>8. 1 \in 1..6 /\ 2 \in 1..6 /\ 3 \in 1..6 /\ 4 \in 1..6 /\ 5 \in 1..6 /\ 6 \in 1..6
  OBVIOUS
<1>9. /\ w[1] = u[1] /\ w[2] = u[2] /\ w[3] = u[3] /\ w[4] = u[4] /\ w[5] = u[5] /\ w[6] = u[6]
  BY ONLY <1>3, <1>5, <1>8
<1> QED
  BY ONLY <1>1, <1>2, <1>3, <1>4, <1>5, <1>7, <1>9 DEF Line

LEMMA JoinedLines == Lines(TwoHeaders) \in Seq(Int) /\ HeaderText(Lines(TwoHeaders) \o CRLF \o <<F>>)
<1>1. PICK q : q = TwoHeaders
  OBVIOUS
<1>2. Len(q) = 2 /\ q[1][1] = G /\ q[1][2] = F /\ q[2][1] = F /\ q[2][2] = G
  BY <1>1 DEF TwoHeaders
<1> DEFINE D == 1..Len(q) + 1
           part(i) == <<q[i][1], Colon, SP, q[i][2]>>
           Turn(f, i) == IF i > Len(q) THEN <<>> ELSE part(i) \o CRLF \o f[i + 1]
           from == CHOOSE f : f = [i \in D |-> Turn(f, i)]
           g == [i \in D |-> IF i = 3 THEN <<>>
                             ELSE IF i = 2 THEN part(2) \o CRLF \o <<>>
                             ELSE part(1) \o CRLF \o (part(2) \o CRLF \o <<>>)]
<1>3. Lines(q) = from[1]
  BY DEF Lines
<1>4. /\ D = {1, 2, 3}
      /\ 3 > Len(q) /\ ~(2 > Len(q)) /\ ~(1 > Len(q))
      /\ 1 + 1 = 2 /\ 2 + 1 = 3
  BY <1>2
<1> HIDE DEF part
<1>5. ASSUME NEW f PROVE /\ Turn(f, 3) = <<>> /\ Turn(f, 2) = part(2) \o CRLF \o f[3]
                         /\ Turn(f, 1) = part(1) \o CRLF \o f[2]
  BY ONLY <1>4
<1> HIDE DEF Turn, D
<1>6. /\ g[3] = <<>> /\ g[2] = part(2) \o CRLF \o <<>>
      /\ g[1] = part(1) \o CRLF \o (part(2) \o CRLF \o <<>>)
  BY ONLY <1>4
<1>7. ASSUME NEW i \in D PROVE g[i] = Turn(g, i)
  <2>1. i = 1 \/ i = 2 \/ i = 3
    BY ONLY <1>4, <1>7
  <2> HIDE DEF g
  <2>2. g[3] = Turn(g, 3) /\ g[2] = Turn(g, 2) /\ g[1] = Turn(g, 1)
    BY ONLY <1>5, <1>6
  <2> QED
    BY ONLY <2>1, <2>2
<1>8. g = [i \in D |-> Turn(g, i)]
  BY ONLY <1>7
<1>9. from = [i \in D |-> Turn(from, i)]
  BY ONLY <1>8
<1>10. from[1] = part(1) \o CRLF \o (part(2) \o CRLF \o <<>>)
  <2>1. from[3] = Turn(from, 3) /\ from[2] = Turn(from, 2) /\ from[1] = Turn(from, 1)
    BY ONLY <1>4, <1>9
  <2> QED
    BY ONLY <1>5, <2>1
<1>11. part(1) = <<G, Colon, SP, F>> /\ part(2) = <<F, Colon, SP, G>>
  BY ONLY <1>2 DEF part
<1>12. G \in Int /\ Colon \in Int /\ SP \in Int /\ F \in Int
  BY DEF G, Colon, SP, F
<1>13. PICK u : u = part(2) \o CRLF \o <<>>
  OBVIOUS
<1>14. /\ u \in Seq(Int) /\ Len(u) = 6 /\ u[1] = F /\ u[2] = Colon /\ u[3] = SP /\ u[4] = G
       /\ u[5] = CR /\ u[6] = LF
  <2>1. PICK e : e = <<>>
    OBVIOUS
  <2>2. e \in Seq(Int) /\ Len(e) + 6 = 6
    BY ONLY <2>1
  <2>3. u = (<<F, Colon, SP, G>> \o CRLF) \o e
    BY ONLY <1>11, <1>13, <2>1
  <2>4. /\ u \in Seq(Int) /\ Len(u) = Len(e) + 6 /\ u[1] = F /\ u[2] = Colon /\ u[3] = SP /\ u[4] = G
        /\ u[5] = CR /\ u[6] = LF
    <3>1. e \in Seq(Int)
      BY ONLY <2>2
    <3>2. Line((<<F, Colon, SP, G>> \o CRLF) \o e, F, Colon, SP, G, e)
      BY ONLY <1>12, <3>1, Sixes, Zenon
    <3>3. Line(u, F, Colon, SP, G, e)
      BY ONLY <2>3, <3>2, Zenon
    <3> QED
      BY ONLY <3>3 DEF Line
  <2> QED
    BY ONLY <2>2, <2>4
<1>15. PICK w : w = part(1) \o CRLF \o u
  OBVIOUS
<1>16. /\ w \in Seq(Int) /\ Len(w) = Len(u) + 6 /\ w[1] = G /\ w[2] = Colon /\ w[3] = SP /\ w[4] = F
       /\ w[5] = CR /\ w[6] = LF /\ \A i \in 1..Len(u) : w[6 + i] = u[i]
  <2>1. w = (<<G, Colon, SP, F>> \o CRLF) \o u /\ u \in Seq(Int)
    BY ONLY <1>11, <1>14, <1>15
  <2>2. Line((<<G, Colon, SP, F>> \o CRLF) \o u, G, Colon, SP, F, u)
    BY ONLY <1>12, <2>1, Sixes, Zenon
  <2>3. Line(w, G, Colon, SP, F, u)
    BY ONLY <2>1, <2>2, Zenon
  <2> QED
    BY ONLY <2>3 DEF Line
<1>17. /\ Len(w) = 12 /\ w[7] = F /\ w[8] = Colon /\ w[9] = SP /\ w[10] = G /\ w[11] = CR /\ w[12] = LF
  <2>1. /\ 1 \in 1..6 /\ 2 \in 1..6 /\ 3 \in 1..6 /\ 4 \in 1..6 /\ 5 \in 1..6 /\ 6 \in 1..6
        /\ 6 + 1 = 7 /\ 6 + 2 = 8 /\ 6 + 3 = 9 /\ 6 + 4 = 10 /\ 6 + 5 = 11 /\ 6 + 6 = 12
    OBVIOUS
  <2>2. /\ w[6 + 1] = u[1] /\ w[6 + 2] = u[2] /\ w[6 + 3] = u[3] /\ w[6 + 4] = u[4] /\ w[6 + 5] = u[5]
        /\ w[6 + 6] = u[6]
    BY ONLY <1>14, <1>16, <2>1
  <2> QED
    BY ONLY <1>14, <1>16, <2>1, <2>2
<1>18. PICK b : b = <<F>>
  OBVIOUS
<1>19. b \in Seq(Int) /\ Len(b) = 1 /\ b[1] = F
  BY ONLY <1>12, <1>18
<1>20. PICK v : v = w \o CRLF
  OBVIOUS
<1>21. /\ v \in Seq(Int) /\ Len(v) = 14 /\ v[13] = CR /\ v[14] = LF /\ \A i \in 1..12 : v[i] = w[i]
  <2>1. w \in Seq(Int) /\ CRLF \in Seq(Int)
    BY ONLY <1>16, CRLFText
  <2>2. /\ v \in Seq(Int) /\ Len(v) = Len(w) + Len(CRLF) /\ \A i \in 1..Len(w) : v[i] = w[i]
        /\ \A i \in 1..Len(CRLF) : v[Len(w) + i] = CRLF[i]
    BY ONLY <1>20, <2>1, Joined2
  <2>3. Len(CRLF) = 2 /\ CRLF[1] = CR /\ CRLF[2] = LF
    BY CRLFText
  <2>4. 1 \in 1..2 /\ 2 \in 1..2 /\ 12 + 1 = 13 /\ 12 + 2 = 14
    OBVIOUS
  <2>5. v[12 + 1] = CR /\ v[12 + 2] = LF
    BY ONLY <1>17, <2>2, <2>3, <2>4
  <2> QED
    BY ONLY <1>17, <2>2, <2>3, <2>4, <2>5
<1>22. PICK z : z = v \o b
  OBVIOUS
<1>23. /\ z \in Seq(Int) /\ Len(z) = 15 /\ z[15] = F /\ \A i \in 1..14 : z[i] = v[i]
  <2>1. v \in Seq(Int) /\ b \in Seq(Int)
    BY ONLY <1>19, <1>21
  <2>2. /\ z \in Seq(Int) /\ Len(z) = Len(v) + Len(b) /\ \A i \in 1..Len(v) : z[i] = v[i]
        /\ \A i \in 1..Len(b) : z[Len(v) + i] = b[i]
    BY ONLY <1>22, <2>1, Joined2
  <2>3. 1 \in 1..1 /\ 14 + 1 = 15
    OBVIOUS
  <2>4. z[14 + 1] = F
    BY ONLY <1>19, <1>21, <2>2, <2>3
  <2> QED
    BY ONLY <1>19, <1>21, <2>2, <2>3, <2>4
<1>24. HeaderText(z)
  <2>1. \A i \in 1..12 : z[i] = w[i]
    <3>1. \A i \in 1..12 : i \in 1..14
      OBVIOUS
    <3> QED
      BY ONLY <1>21, <1>23, <3>1
  <2>2. /\ 1 \in 1..12 /\ 2 \in 1..12 /\ 3 \in 1..12 /\ 4 \in 1..12 /\ 5 \in 1..12 /\ 6 \in 1..12
        /\ 7 \in 1..12 /\ 8 \in 1..12 /\ 9 \in 1..12 /\ 10 \in 1..12 /\ 11 \in 1..12 /\ 12 \in 1..12
        /\ 13 \in 1..14 /\ 14 \in 1..14
    OBVIOUS
  <2>3. /\ z[1] = w[1] /\ z[2] = w[2] /\ z[3] = w[3] /\ z[4] = w[4] /\ z[5] = w[5] /\ z[6] = w[6]
        /\ z[7] = w[7] /\ z[8] = w[8] /\ z[9] = w[9] /\ z[10] = w[10] /\ z[11] = w[11] /\ z[12] = w[12]
    BY ONLY <2>1, <2>2
  <2>4. z[13] = CR /\ z[14] = LF
    BY ONLY <1>21, <1>23, <2>2
  <2> QED
    BY ONLY <1>16, <1>17, <1>23, <2>3, <2>4 DEF HeaderText
<1>25. Lines(q) = w
  BY ONLY <1>3, <1>10, <1>13, <1>15
<1> QED
  BY ONLY <1>1, <1>16, <1>18, <1>20, <1>22, <1>24, <1>25

(* A line with a header of one letter, and a letter for its value. *)
LineAt(s, i, k, v) ==
  /\ k \notin {Colon, CR} /\ v \notin {SP, CR}
  /\ s[i] = k /\ s[i + 1] = Colon /\ s[i + 2] = SP /\ s[i + 3] = v /\ s[i + 4] = CR /\ s[i + 5] = LF

LEMMA LineName ==
  ASSUME NEW s \in Seq(Int), NEW i \in 1..Len(s) - 5, NEW k \in Int, NEW v \in Int, LineAt(s, i, k, v)
  PROVE  ColonAt(s, i) = 2 /\ AfterColon(s, i) = Rest(s, i + 2) /\ Before(Rest(s, i), 2) = <<k>>
<1>1. PICK l \in Nat : l = Len(s)
  BY TextFacts
<1>2. i \in Int /\ i \in 1..l - 5
  BY <1>1
<1>3. PICK p \in Int : p = i + 1
  BY ONLY <1>2
<1>4. Colon \in Int
  BY DEF Colon
<1>5. /\ i \in 1..Len(s) /\ p \in i..Len(s) /\ i \in 1..Len(s) + 1 /\ i + 2 \in 1..Len(s) + 1
      /\ p - i + 1 = 2 /\ 2 \in Nat /\ 2 \in 1..Len(s) - i + 2 /\ \A j \in i..p - 1 : j = i
  BY ONLY <1>1, <1>2, <1>3, l \in Nat
<1>6. s[p] = Colon /\ \A j \in i..p - 1 : s[j] # Colon
  BY ONLY <1>3, <1>5, LineAt(s, i, k, v) DEF LineAt
<1>7. Find(Rest(s, i), <<Colon>>) = p - i + 1
  BY ONLY <1>4, <1>5, <1>6, FindInRest, s \in Seq(Int)
<1>8. ColonAt(s, i) = 2
  BY ONLY <1>5, <1>7 DEF ColonAt
<1>9. RemovePrefix(Rest(s, i), 2) = Rest(s, i + 2)
  BY ONLY <1>5, RestOfRest, s \in Seq(Int)
<1>10. AfterColon(s, i) = Rest(s, i + 2)
  BY ONLY <1>8, <1>9 DEF AfterColon
<1>11. PICK u : u = Before(Rest(s, i), 2)
  OBVIOUS
<1>12. u \in Seq(Int) /\ Len(u) = 2 - 1 /\ \A j \in 1..2 - 1 : u[j] = s[i + j - 1]
  BY ONLY <1>5, <1>11, BeforeInRest, s \in Seq(Int)
<1>13. u = <<k>>
  <2>1. 1 \in 1..2 - 1 /\ i + 1 - 1 = i /\ 2 - 1 = 1
    BY ONLY <1>2
  <2>2. s[i] = k
    BY DEF LineAt
  <2>3. u[1] = k /\ Len(u) = 1
    BY ONLY <1>12, <2>1, <2>2
  <2> QED
    BY ONLY <1>12, <2>3
<1> QED
  BY ONLY <1>8, <1>10, <1>11, <1>13

LEMMA LineValue ==
  ASSUME NEW s \in Seq(Int), NEW i \in 1..Len(s) - 5, NEW k \in Int, NEW v \in Int, LineAt(s, i, k, v)
  PROVE  /\ NextLine(s, i) = i + 6
         /\ Before(Field(s, i), FieldEnd(s, i)) = <<v>>
<1>1. PICK l \in Nat : l = Len(s)
  BY TextFacts
<1>2. i \in Int /\ i \in 1..l - 5
  BY <1>1
<1>3. PICK a \in Int, e \in Int, p \in Int : a = i + 2 /\ e = i + 3 /\ p = i + 4
  BY ONLY <1>2
<1>4. /\ a \in 1..Len(s) + 1 /\ a + 1 = e /\ a + 1 \in 1..Len(s) + 1 /\ 1 \in Nat
      /\ e \in 1..Len(s) /\ p \in e..Len(s) - 1 /\ p - e + 1 = 2 /\ \A j \in e..p - 1 : j = e
      /\ 2 \in 1..Len(s) - e + 2 /\ p + 1 = i + 5
  BY ONLY <1>1, <1>2, <1>3, l \in Nat
<1>5. PICK r : r = Rest(s, a)
  OBVIOUS
<1>6. r \in Seq(Int) /\ Len(r) = Len(s) - a + 1 /\ \A j \in 1..Len(s) - a + 1 : r[j] = s[a + j - 1]
  BY ONLY <1>4, <1>5, RestIs, s \in Seq(Int)
<1>7. s[a] = SP /\ s[e] = v /\ v # SP /\ v # CR /\ s[p] = CR /\ s[p + 1] = LF
  BY ONLY <1>3, <1>4, LineAt(s, i, k, v) DEF LineAt
<1>8. Blanks(r) = 1
  <2>1. 1 \in 1..Len(s) - a + 1 /\ 1 + 1 \in 1..Len(s) - a + 1 /\ a + 1 - 1 = a /\ a + (1 + 1) - 1 = e
    BY ONLY <1>1, <1>2, <1>3, l \in Nat
  <2>2. r[1] = SP /\ r[1 + 1] # SP
    BY ONLY <1>6, <1>7, <2>1
  <2>3. 1 \in 0..Len(r) /\ 1 < Len(r) /\ \A j \in 1..1 : r[j] = SP
    <3>1. PICK n \in Int : n = Len(s) - a + 1
      <4>1. Len(s) - a + 1 \in Int
        BY ONLY <1>1, <1>3, l \in Nat
      <4> QED
        BY ONLY <4>1
    <3>2. n > 1
      BY ONLY <1>1, <1>2, <1>3, <3>1, l \in Nat
    <3>3. Len(r) = n
      BY ONLY <1>6, <3>1
    <3>4. \A j \in 1..1 : j = 1
      OBVIOUS
    <3>5. \A j \in 1..1 : r[j] = SP
      BY ONLY <2>2, <3>4
    <3> QED
      BY ONLY <3>2, <3>3, <3>5, n \in Int
  <2>4. r \in Seq(Int)
    BY ONLY <1>6
  <2> QED
    BY ONLY <2>2, <2>3, <2>4, BlanksUnique
<1>9. AfterColon(s, i) = r /\ ColonAt(s, i) = 2
  BY ONLY <1>3, <1>5, LineName, s \in Seq(Int), i \in 1..Len(s) - 5, k \in Int, v \in Int, LineAt(s, i, k, v)
<1>10. Field(s, i) = Rest(s, e)
  <2>1. RemovePrefix(Rest(s, a), 1) = Rest(s, a + 1)
    BY ONLY <1>4, RestOfRest, s \in Seq(Int)
  <2> QED
    BY ONLY <1>4, <1>5, <1>8, <1>9, <2>1 DEF Field
<1>11. FieldEnd(s, i) = 2
  <2>1. CR \in Int /\ LF \in Int
    BY DEF CR, LF
  <2>2. \A j \in e..p - 1 : s[j] # CR \/ s[j + 1] # LF
    BY ONLY <1>4, <1>7
  <2>3. Find(Rest(s, e), <<CR, LF>>) = p - e + 1
    BY ONLY <1>4, <1>7, <2>1, <2>2, FindPairInRest, s \in Seq(Int), SMTT(30)
  <2> QED
    BY ONLY <1>4, <1>10, <2>3 DEF FieldEnd, CRLF
<1>12. NextLine(s, i) = i + 6
  <2>1. i + 2 + 1 + 2 + 1 = i + 6
    BY ONLY <1>2
  <2> QED
    BY ONLY <1>8, <1>9, <1>11, <2>1 DEF NextLine
<1>13. PICK u : u = Before(Rest(s, e), 2)
  OBVIOUS
<1>14. u \in Seq(Int) /\ Len(u) = 2 - 1 /\ \A j \in 1..2 - 1 : u[j] = s[e + j - 1]
  <2>1. e \in 1..Len(s) /\ 2 \in 1..Len(s) - e + 2
    BY ONLY <1>4
  <2> QED
    BY ONLY <1>13, <2>1, BeforeInRest, s \in Seq(Int)
<1>15. u = <<v>>
  <2>1. 1 \in 1..2 - 1 /\ e + 1 - 1 = e /\ 2 - 1 = 1
    BY ONLY <1>3
  <2>2. u[1] = v /\ Len(u) = 1
    BY ONLY <1>7, <1>14, <2>1
  <2> QED
    BY ONLY <1>14, <2>2
<1> QED
  BY ONLY <1>10, <1>11, <1>12, <1>13, <1>15

LEMMA LineIsHeader ==
  ASSUME NEW s \in Seq(Int), NEW i \in 1..Len(s) - 5, NEW k \in Int, NEW v \in Int, LineAt(s, i, k, v)
  PROVE  ~NoHeader(s, i)
<1>1. PICK l \in Nat : l = Len(s)
  BY TextFacts
<1>2. i \in Int /\ i \in 1..l - 5
  BY <1>1
<1>3. PICK p \in Int : p = i + 4
  BY ONLY <1>2
<1>4. /\ i \in 1..Len(s) /\ i \in 1..Len(s) + 1 /\ p \in i..Len(s) - 1 /\ p - i + 1 = 5 /\ p + 1 = i + 5
      /\ \A j \in i..p - 1 : j = i \/ j = i + 1 \/ j = i + 2 \/ j = i + 3
  BY ONLY <1>1, <1>2, <1>3, l \in Nat
<1>5. CR \in Int /\ LF \in Int /\ CR # Colon /\ CR # SP
  BY DEF CR, LF, Colon, SP
<1>6. s[p] = CR /\ s[p + 1] = LF /\ s[i] # CR /\ s[i + 1] # CR /\ s[i + 2] # CR /\ s[i + 3] # CR
  BY ONLY <1>3, <1>4, <1>5, LineAt(s, i, k, v) DEF LineAt
<1>7. \A j \in i..p - 1 : s[j] # CR \/ s[j + 1] # LF
  BY ONLY <1>4, <1>6
<1>8. Find(Rest(s, i), <<CR, LF>>) = p - i + 1
  <2>1. i \in 1..Len(s) /\ p \in i..Len(s) - 1 /\ CR \in Int /\ LF \in Int
    BY ONLY <1>4, <1>5
  <2>2. s[p] = CR /\ s[p + 1] = LF
    BY ONLY <1>6
  <2> QED
    BY ONLY <1>7, <2>1, <2>2, FindPairInRest, s \in Seq(Int), SMTT(30)
<1>9. Find(Rest(s, i), CRLF) # 0
  BY ONLY <1>4, <1>8 DEF CRLF
<1>10. PICK h : h = Rest(s, i)
  OBVIOUS
<1>11. h \in Seq(Int) /\ Len(h) = Len(s) - i + 1 /\ \A j \in 1..Len(s) - i + 1 : h[j] = s[i + j - 1]
  BY ONLY <1>4, <1>10, RestIs, s \in Seq(Int)
<1>12. ~StartsWith(h, CRLF)
  <2>1. 1 \in 1..Len(h) - 1 /\ 1 \in 1..Len(s) - i + 1 /\ i + 1 - 1 = i /\ 1 + 1 = 2
    BY ONLY <1>1, <1>2, <1>11, l \in Nat
  <2>2. h[1] # CR
    BY ONLY <1>6, <1>11, <2>1
  <2>3. SubSeq(h, 1, 1 + 1)[1] = h[1]
    BY ONLY <1>11, <2>1, SubPair
  <2>4. SubSeq(h, 1, 2) # CRLF
    BY ONLY <2>1, <2>2, <2>3, CRLFText
  <2> QED
    BY ONLY <2>4, CRLFText DEF StartsWith
<1>13. Find(h, <<Colon>>) # 0
  <2>1. ColonAt(s, i) = 2
    BY ONLY LineName, s \in Seq(Int), i \in 1..Len(s) - 5, k \in Int, v \in Int, LineAt(s, i, k, v)
  <2> QED
    BY ONLY <1>10, <2>1 DEF ColonAt
<1> QED
  BY ONLY <1>9, <1>10, <1>12, <1>13 DEF NoHeader

LEMMA TwoHeadersRead ==
  ASSUME NEW z, HeaderText(z)
  PROVE  /\ Headers(z) = HeaderMap(Emplaced(<<G>>, <<F>>, Emplaced(<<F>>, <<G>>, <<>>)), 13)
         /\ Body(SubSeq(z, 13, Len(z))) = <<>>
<1>1. /\ G = 103 /\ F = 102 /\ Colon = 58 /\ SP = 32 /\ CR = 13 /\ LF = 10
  BY DEF G, F, Colon, SP, CR, LF
<1>2. z \in Seq(Int) /\ Len(z) = 15
  BY DEF HeaderText
<1>3. /\ z[1] = 103 /\ z[2] = 58 /\ z[3] = 32 /\ z[4] = 102 /\ z[5] = 13 /\ z[6] = 10
      /\ z[7] = 102 /\ z[8] = 58 /\ z[9] = 32 /\ z[10] = 103 /\ z[11] = 13 /\ z[12] = 10
      /\ z[13] = 13 /\ z[14] = 10 /\ z[15] = 102
  BY ONLY <1>1, HeaderText(z) DEF HeaderText
<1>4. Closed(z)
  <2>1. \A j \in 1..15 : \/ j = 1 \/ j = 2 \/ j = 3 \/ j = 4 \/ j = 5 \/ j = 6 \/ j = 7 \/ j = 8
                         \/ j = 9 \/ j = 10 \/ j = 11 \/ j = 12 \/ j = 13 \/ j = 14 \/ j = 15
    OBVIOUS
  <2>2. \A j \in 1..15 : z[j] = 58 => j = 2 \/ j = 8
    BY ONLY <1>3, <2>1
  <2>3. 5 \in 2 + 1..15 - 1 /\ 11 \in 8 + 1..15 - 1 /\ 5 + 1 = 6 /\ 11 + 1 = 12
    OBVIOUS
  <2>4. \A j \in 1..15 : z[j] = 58 => \E k \in j + 1..15 - 1 : z[k] = 13 /\ z[k + 1] = 10
    BY ONLY <1>3, <2>2, <2>3
  <2> QED
    BY ONLY <1>1, <1>2, <2>4 DEF Closed
<1>5. PICK f, e :
        /\ Headers(z) = HeaderMap(f[1], e[1])
        /\ \A i \in 1..Len(z) + 1 :
             IF NoHeader(z, i) THEN f[i] = <<>> /\ e[i] = i
             ELSE /\ f[i] = Emplaced(Before(Rest(z, i), ColonAt(z, i)),
                                     Before(Field(z, i), FieldEnd(z, i)), f[NextLine(z, i)])
                  /\ e[i] = e[NextLine(z, i)]
  BY ONLY <1>2, <1>4, HeadersRead
<1>6. 1 \in 1..Len(z) - 5 /\ 7 \in 1..Len(z) - 5 /\ 103 \in Int /\ 102 \in Int
  BY ONLY <1>2
<1>7. LineAt(z, 1, 103, 102) /\ LineAt(z, 7, 102, 103)
  <2>1. /\ 1 + 1 = 2 /\ 1 + 2 = 3 /\ 1 + 3 = 4 /\ 1 + 4 = 5 /\ 1 + 5 = 6
        /\ 7 + 1 = 8 /\ 7 + 2 = 9 /\ 7 + 3 = 10 /\ 7 + 4 = 11 /\ 7 + 5 = 12
    OBVIOUS
  <2> QED
    BY ONLY <1>1, <1>3, <2>1 DEF LineAt
<1>8. ~NoHeader(z, 1) /\ ColonAt(z, 1) = 2 /\ Before(Rest(z, 1), 2) = <<103>>
      /\ NextLine(z, 1) = 1 + 6 /\ Before(Field(z, 1), FieldEnd(z, 1)) = <<102>>
  <2>1. z \in Seq(Int) /\ 1 \in 1..Len(z) - 5 /\ LineAt(z, 1, 103, 102)
    BY ONLY <1>2, <1>6, <1>7
  <2>2. ColonAt(z, 1) = 2 /\ Before(Rest(z, 1), 2) = <<103>>
    BY ONLY <1>6, <2>1, LineName
  <2>3. NextLine(z, 1) = 1 + 6 /\ Before(Field(z, 1), FieldEnd(z, 1)) = <<102>>
    BY ONLY <1>6, <2>1, LineValue
  <2>4. ~NoHeader(z, 1)
    BY ONLY <1>6, <2>1, LineIsHeader
  <2> QED
    BY ONLY <2>2, <2>3, <2>4
<1>9. ~NoHeader(z, 7) /\ ColonAt(z, 7) = 2 /\ Before(Rest(z, 7), 2) = <<102>>
      /\ NextLine(z, 7) = 7 + 6 /\ Before(Field(z, 7), FieldEnd(z, 7)) = <<103>>
  <2>1. z \in Seq(Int) /\ 7 \in 1..Len(z) - 5 /\ LineAt(z, 7, 102, 103)
    BY ONLY <1>2, <1>6, <1>7
  <2>2. ColonAt(z, 7) = 2 /\ Before(Rest(z, 7), 2) = <<102>>
    BY ONLY <1>6, <2>1, LineName
  <2>3. NextLine(z, 7) = 7 + 6 /\ Before(Field(z, 7), FieldEnd(z, 7)) = <<103>>
    BY ONLY <1>6, <2>1, LineValue
  <2>4. ~NoHeader(z, 7)
    BY ONLY <1>6, <2>1, LineIsHeader
  <2> QED
    BY ONLY <2>2, <2>3, <2>4
<1>10. PICK h : h = Rest(z, 13)
  OBVIOUS
<1>11. h \in Seq(Int) /\ Len(h) = 3 /\ h[1] = CR /\ h[2] = LF
  <2>1. 13 \in 1..Len(z) + 1 /\ Len(z) - 13 + 1 = 3 /\ 13 + 1 - 1 = 13 /\ 13 + 2 - 1 = 14 /\ 1 \in 1..3 /\ 2 \in 1..3
    BY ONLY <1>2
  <2>2. h \in Seq(Int) /\ Len(h) = Len(z) - 13 + 1 /\ \A j \in 1..Len(z) - 13 + 1 : h[j] = z[13 + j - 1]
    BY ONLY <1>2, <1>10, <2>1, RestIs
  <2>3. h[1] = z[13] /\ h[2] = z[14]
    BY ONLY <2>1, <2>2
  <2> QED
    BY ONLY <1>1, <1>3, <2>1, <2>2, <2>3
<1>12. NoHeader(z, 13)
  <2>1. 1 \in 1..Len(h) - 1 /\ 1 + 1 = 2
    BY ONLY <1>11
  <2>2. PICK w : w = SubSeq(h, 1, 1 + 1)
    OBVIOUS
  <2>3. w \in Seq(Int) /\ Len(w) = 2 /\ w[1] = h[1] /\ w[2] = h[1 + 1]
    BY ONLY <1>11, <2>1, <2>2, SubPair
  <2>4. \A j \in 1..Len(w) : w[j] = CRLF[j]
    <3>1. \A j \in 1..2 : j = 1 \/ j = 2
      OBVIOUS
    <3> QED
      BY ONLY <1>11, <2>1, <2>3, <3>1, CRLFText
  <2>5. w = CRLF
    BY ONLY <2>3, <2>4, CRLFText, SameText
  <2>6. SubSeq(h, 1, Len(CRLF)) = CRLF
    BY ONLY <2>1, <2>2, <2>5, CRLFText
  <2> QED
    BY ONLY <1>10, <2>6 DEF NoHeader, StartsWith
<1>13. /\ f[1] = Emplaced(<<103>>, <<102>>, f[7]) /\ e[1] = e[7]
       /\ f[7] = Emplaced(<<102>>, <<103>>, f[13]) /\ e[7] = e[13]
       /\ f[13] = <<>> /\ e[13] = 13
  <2>1. 1 \in 1..Len(z) + 1 /\ 7 \in 1..Len(z) + 1 /\ 13 \in 1..Len(z) + 1 /\ 1 + 6 = 7 /\ 7 + 6 = 13
    BY ONLY <1>2
  <2>2. f[1] = Emplaced(<<103>>, <<102>>, f[7]) /\ e[1] = e[7]
    BY ONLY <1>5, <1>8, <2>1
  <2>3. f[7] = Emplaced(<<102>>, <<103>>, f[13]) /\ e[7] = e[13]
    BY ONLY <1>5, <1>9, <2>1
  <2>4. f[13] = <<>> /\ e[13] = 13
    BY ONLY <1>5, <1>12, <2>1
  <2> QED
    BY ONLY <2>2, <2>3, <2>4
<1>14. Headers(z) = HeaderMap(Emplaced(<<G>>, <<F>>, Emplaced(<<F>>, <<G>>, <<>>)), 13)
  <2>1. f[1] = Emplaced(<<103>>, <<102>>, Emplaced(<<102>>, <<103>>, <<>>)) /\ e[1] = 13
    BY ONLY <1>13, Zenon
  <2> QED
    BY ONLY <1>1, <1>5, <2>1
<1>15. Body(SubSeq(z, 13, Len(z))) = <<>>
  <2>1. Len(h) > 1
    BY ONLY <1>11
  <2>2. Body(h) = <<>>
    BY ONLY <1>11, <2>1, EmptyBody
  <2> QED
    BY ONLY <1>10, <2>2 DEF Rest
<1> QED
  BY ONLY <1>14, <1>15

LEMMA HeadersAsMeant ==
  LET m == [Plain(POST, <<Slash, F>>) EXCEPT !.headers = TwoHeaders, !.body = <<F>>]
  IN  ReadAs(m, Parse(Text(m)))
<1>1. PICK m : m = [Plain(POST, <<Slash, F>>) EXCEPT !.headers = TwoHeaders, !.body = <<F>>]
  OBVIOUS
<1>2. PICK t : t = <<Slash, F>>
  OBVIOUS
<1>3. PICK b : b = <<F>>
  OBVIOUS
<1>4. /\ m.query = <<>> /\ m.headers = TwoHeaders /\ m.body = b /\ m.versioned /\ m.method = POST
      /\ m.path = t /\ m.target = t
  BY <1>1, <1>2, <1>3 DEF Plain
<1>5. PICK z : z = Lines(TwoHeaders) \o CRLF \o b
  OBVIOUS
<1>6. HeaderText(z) /\ Lines(TwoHeaders) \in Seq(Int) /\ b \in Seq(Int)
  <2>1. b \in Seq(Int)
    BY ONLY <1>3 DEF F
  <2> QED
    BY ONLY <1>3, <1>5, <2>1, JoinedLines
<1>7. z \in Seq(Int)
  BY ONLY <1>6 DEF HeaderText
<1>8. t \in Seq(Int) /\ Len(t) = 2 /\ t[1] = Slash
  BY ONLY <1>2, PathF
<1>9. /\ \A i \in 1..Len(t) : t[i] # SP
      /\ \A i \in 1..Len(t) : t[i] # Percent
      /\ \A i \in 1..Len(t) : t[i] # Question
  BY ONLY <1>2, PathF
<1>10. POST \in Int /\ POST # SP
  BY DEF POST, SP
<1>11. Text(m) = Versioned(POST, t, z)
  <2>1. Joined(m.query) = <<>> /\ <<>> \in Seq(Int)
    BY ONLY <1>4, NoQuery
  <2>2. /\ m.versioned /\ m.method \in Int /\ m.target \in Seq(Int) /\ Joined(m.query) \in Seq(Int)
        /\ Lines(m.headers) \in Seq(Int) /\ m.body \in Seq(Int)
    BY ONLY <1>4, <1>6, <1>8, <1>10, <2>1
  <2>3. Text(m) = Versioned(m.method, m.target \o Joined(m.query), Lines(m.headers) \o CRLF \o m.body)
    BY ONLY <2>2, TextVersioned
  <2>4. t \o <<>> = t
    BY ONLY <1>8
  <2> QED
    BY ONLY <1>4, <1>5, <2>1, <2>3, <2>4
<1>12. PICK u : u = Unescape(t, <<SP, HTTP>> \o CRLF \o z)
  OBVIOUS
<1>13. u.how = "text" /\ u.text = t
  <2>1. t \in Seq(Int)
    BY ONLY <1>8
  <2>2. u = Unescaped(t)
    BY ONLY <1>9, <1>12, <2>1, UnescapePlain
  <2> QED
    BY ONLY <2>2 DEF Unescaped
<1>14. Parse(Versioned(POST, t, z)) = ReadOf(POST, u, z)
  <2>1. Len(t) > 0
    BY ONLY <1>8
  <2>2. \A i \in 1..Len(t) : t[i] # SP
    BY ONLY <1>9
  <2> QED
    BY ONLY <1>7, <1>8, <1>10, <1>12, <2>1, <2>2, ParseVersioned
<1>15. PICK r : r = ReadOf(POST, u, z)
  OBVIOUS
<1>16. PICK h : h = Emplaced(<<G>>, <<F>>, Emplaced(<<F>>, <<G>>, <<>>))
  OBVIOUS
<1>17. r.method = <<POST>> /\ r.path = t /\ r.headers = h /\ r.body = <<>>
  <2>1. PICK y : y = Headers(z)
    OBVIOUS
  <2>2. y = HeaderMap(h, 13) /\ Body(SubSeq(z, 13, Len(z))) = <<>>
    BY ONLY <1>6, <1>16, <2>1, TwoHeadersRead
  <2>3. y.headers = h /\ y.next = 13
    BY ONLY <2>2 DEF HeaderMap
  <2>4. Find(t, <<Question>>) = 0
    <3>1. Question \in Int
      BY DEF Question
    <3>2. \A i \in 1..Len(t) : t[i] # Question
      BY ONLY <1>9
    <3> QED
      BY ONLY <1>8, <3>1, <3>2, FindNone
  <2>5. PathOnly(t, 0) = t
    BY DEF PathOnly, Before
  <2>6. PICK q : q = QueryParams(From(t, 0))
    OBVIOUS
  <2>7. ReadOf(POST, u, z) =
          [how |-> q.how, method |-> <<POST>>, path |-> t, query_params |-> q.params,
           version |-> <<HTTP>>, headers |-> h, body |-> <<>>]
    BY ONLY <1>13, <2>1, <2>2, <2>3, <2>4, <2>5, <2>6 DEF ReadOf
  <2> QED
    BY ONLY <1>15, <2>7
<1>18. /\ DOMAIN h = {<<F>>, <<G>>} /\ h[<<G>>] = <<F>> /\ h[<<F>>] = <<G>>
  <2>1. PICK c, d : c = <<F>> /\ d = <<G>>
    OBVIOUS
  <2>2. c # d
    BY <2>1 DEF F, G
  <2>3. PICK k : k = Emplaced(c, d, <<>>)
    OBVIOUS
  <2>4. DOMAIN <<>> = {}
    OBVIOUS
  <2>5. DOMAIN k = {c} /\ k[c] = d
    BY ONLY <2>3, <2>4 DEF Emplaced
  <2>6. h = Emplaced(d, c, k)
    BY ONLY <1>16, <2>1, <2>3
  <2>7. DOMAIN h = {c, d} /\ h[d] = c /\ h[c] = d
    BY ONLY <2>2, <2>5, <2>6 DEF Emplaced
  <2> QED
    BY ONLY <2>1, <2>7
<1>19. /\ DOMAIN r.headers = {<<m.headers[i][1]>> : i \in 1..Len(m.headers)}
       /\ \A i \in 1..Len(m.headers) : r.headers[<<m.headers[i][1]>>] = <<m.headers[i][2]>>
  <2>1. PICK q : q = m.headers
    OBVIOUS
  <2>2. Len(q) = 2 /\ q[1][1] = G /\ q[1][2] = F /\ q[2][1] = F /\ q[2][2] = G
    BY ONLY <1>4, <2>1 DEF TwoHeaders
  <2>3. \A i \in 1..Len(q) : i = 1 \/ i = 2
    BY ONLY <2>2
  <2>4. 1 \in 1..Len(q) /\ 2 \in 1..Len(q)
    BY ONLY <2>2
  <2>5. {<<q[i][1]>> : i \in 1..Len(q)} = {<<F>>, <<G>>}
    BY ONLY <2>2, <2>3, <2>4
  <2>6. \A i \in 1..Len(q) : h[<<q[i][1]>>] = <<q[i][2]>>
    BY ONLY <1>18, <2>2, <2>3
  <2> QED
    BY ONLY <1>17, <1>18, <2>1, <2>5, <2>6
<1>20. \A i \in 2..Len(m.query) - 1 : r.query_params[<<m.query[i][1]>>] = <<m.query[i][2]>>
  <2>1. Len(<<>>) = 0 /\ 2..0 - 1 = {}
    OBVIOUS
  <2> QED
    BY ONLY <1>4, <2>1
<1>21. ~Refused(m)
  BY ONLY <1>2, <1>4, NotRefusedF DEF Refused
<1>22. ReadAs(m, r)
  BY ONLY <1>4, <1>17, <1>19, <1>20, <1>21 DEF ReadAs
<1>23. ReadAs(m, Parse(Text(m)))
  BY ONLY <1>11, <1>14, <1>15, <1>22
<1> QED
  BY ONLY <1>1, <1>23

-----------------------------------------------------------------------------
(* A path with an escape in it is read as another, which is none of the files. *)
LEMMA EscapedRead ==
  ASSUME NEW path \in Seq(Int), \A i \in 1..Len(path) : path[i] # Dot,
         NEW t \in Seq(Int), Len(t) > 0, t[1] = Slash, \A i \in 1..Len(t) : t[i] # SP,
         NEW how, NEW got \in Seq(Int), \A i \in 1..Len(got) : got[i] # Question,
         Unescape(t, <<SP, HTTP>> \o CRLF \o CRLF) = [how |-> how, text |-> got]
  PROVE  LET r == Parse(Text(Escaped(path, t)))
         IN  r.how = how /\ (t # path /\ got \notin Files => ReadAs(Escaped(path, t), r))
<1>1. PICK m : m = Escaped(path, t)
  OBVIOUS
<1>2. /\ m.query = <<>> /\ m.headers = <<>> /\ m.body = <<>> /\ m.versioned /\ m.method = GET
      /\ m.path = path /\ m.target = t
  BY <1>1 DEF Escaped, Plain
<1>3. GET \in Int /\ GET # SP
  BY DEF GET, SP
<1>4. PICK r : r = Parse(Text(m))
  OBVIOUS
<1>5. r = Read(how, GET, got)
  <2>1. /\ m.versioned /\ m.method \in Int /\ m.method # SP /\ m.target \in Seq(Int)
        /\ m.query = <<>> /\ m.headers = <<>> /\ m.body = <<>> /\ Len(m.target) > 0 /\ m.target[1] = Slash
    BY ONLY <1>2, <1>3, t \in Seq(Int), Len(t) > 0, t[1] = Slash
  <2>2. \A i \in 1..Len(m.target) : m.target[i] # SP
    BY ONLY <1>2, \A i \in 1..Len(t) : t[i] # SP
  <2>3. Unescape(m.target, <<SP, HTTP>> \o CRLF \o CRLF) = [how |-> how, text |-> got]
    BY ONLY <1>2, Unescape(t, <<SP, HTTP>> \o CRLF \o CRLF) = [how |-> how, text |-> got]
  <2>4. Parse(Text(m)) = Read(how, m.method, got)
    BY ONLY <2>1, <2>2, <2>3, BareRead, got \in Seq(Int), \A i \in 1..Len(got) : got[i] # Question
  <2> QED
    BY ONLY <1>2, <1>4, <2>4
<1>6. r.how = how
  BY ONLY <1>5 DEF Read
<1>7. Find(path, <<Dot, Dot, Slash>>) = 0
  <2>1. PICK d : d = <<Dot, Dot, Slash>>
    OBVIOUS
  <2>2. d \in Seq(Int) /\ Len(d) > 0 /\ d[1] = Dot
    BY <2>1 DEF Dot, Slash
  <2>3. \A i \in 1..Len(path) : path[i] # d[1]
    BY ONLY <2>2, \A i \in 1..Len(path) : path[i] # Dot
  <2> QED
    BY ONLY <2>1, <2>2, <2>3, FindLacking, path \in Seq(Int)
<1>8. ASSUME t # path, got \notin Files PROVE ReadAs(m, r)
  <2>1. m.method \in {GET, POST} /\ m.target # m.path /\ Find(m.path, <<Dot, Dot, Slash>>) = 0
    BY ONLY <1>2, <1>7, <1>8
  <2>2. ReadAs(m, Read(how, m.method, got))
    BY ONLY <1>2, <1>8, <2>1, BareAs
  <2> QED
    BY ONLY <1>2, <1>5, <2>2
<1> QED
  BY ONLY <1>1, <1>4, <1>6, <1>8

LEMMA SevenAsMeant ==
  LET m == Escaped(<<Slash, G, F>>, <<Slash, Percent, Digit(6), Digit(7), F>>)
  IN  ReadAs(m, Parse(Text(m)))
<1>1. PICK p : p = <<Slash, G, F>>
  OBVIOUS
<1>2. PICK t : t = <<Slash, Percent, Digit(6), Digit(7), F>>
  OBVIOUS
<1>3. PICK g : g = <<127, 102>>
  OBVIOUS
<1>4. p \in Seq(Int) /\ Len(p) = 3 /\ p[1] = 47 /\ p[2] = 103 /\ p[3] = 102
  BY <1>1 DEF Slash, G, F
<1>5. /\ t \in Seq(Int) /\ Len(t) = 5 /\ t[1] = 47 /\ t[2] = 37 /\ t[3] = 54 /\ t[4] = 55
      /\ t[5] = 102
  BY <1>2 DEF Slash, Percent, Digit, F
<1>6. g \in Seq(Int) /\ Len(g) = 2 /\ g[1] = 127 /\ g[2] = 102
  BY <1>3
<1>7. Dot = 46 /\ SP = 32 /\ Question = 63 /\ Slash = 47
  BY DEF Dot, SP, Question, Slash
<1>8. \A i \in 1..Len(p) : p[i] # Dot
  <2>1. \A i \in 1..3 : i = 1 \/ i = 2 \/ i = 3
    OBVIOUS
  <2> QED
    BY ONLY <1>4, <1>7, <2>1
<1>9. \A i \in 1..Len(t) : t[i] # SP
  <2>1. \A i \in 1..5 : i = 1 \/ i = 2 \/ i = 3 \/ i = 4 \/ i = 5
    OBVIOUS
  <2> QED
    BY ONLY <1>5, <1>7, <2>1
<1>10. \A i \in 1..Len(g) : g[i] # Question
  <2>1. \A i \in 1..2 : i = 1 \/ i = 2
    OBVIOUS
  <2> QED
    BY ONLY <1>6, <1>7, <2>1
<1>11. Unescape(t, <<SP, HTTP>> \o CRLF \o CRLF) = [how |-> "text", text |-> g]
  BY ONLY <1>2, <1>3, AfterTarget, EscapeOfSeven
<1>12. t # p
  BY ONLY <1>4, <1>5
<1>13. g \notin Files
  <2>1. PICK v : v = <<Slash, F>>
    OBVIOUS
  <2>2. v[1] = 47
    BY <2>1 DEF Slash
  <2>3. g # v
    BY ONLY <1>6, <2>2
  <2> QED
    BY ONLY <2>1, <2>3 DEF Files
<1>14. p \in Seq(Int) /\ t \in Seq(Int) /\ g \in Seq(Int) /\ Len(t) > 0 /\ t[1] = Slash
  BY ONLY <1>4, <1>5, <1>6, <1>7
<1>15. ReadAs(Escaped(p, t), Parse(Text(Escaped(p, t))))
  BY ONLY <1>8, <1>9, <1>10, <1>11, <1>12, <1>13, <1>14, EscapedRead
<1> QED
  BY ONLY <1>1, <1>2, <1>15

LEMMA ZeroAsMeant ==
  LET m == Escaped(<<Slash, 0>>, <<Slash, Percent, Digit(0), Digit(0)>>)
  IN  ReadAs(m, Parse(Text(m)))
<1>1. PICK p : p = <<Slash, 0>>
  OBVIOUS
<1>2. PICK t : t = <<Slash, Percent, Digit(0), Digit(0)>>
  OBVIOUS
<1>3. PICK g : g = <<>>
  OBVIOUS
<1>4. p \in Seq(Int) /\ Len(p) = 2 /\ p[1] = 47 /\ p[2] = 0
  BY <1>1 DEF Slash
<1>5. t \in Seq(Int) /\ Len(t) = 4 /\ t[1] = 47 /\ t[2] = 37 /\ t[3] = 48 /\ t[4] = 48
  BY <1>2 DEF Slash, Percent, Digit
<1>6. g \in Seq(Int) /\ Len(g) = 0
  BY <1>3
<1>7. Dot = 46 /\ SP = 32 /\ Slash = 47
  BY DEF Dot, SP, Slash
<1>8. \A i \in 1..Len(p) : p[i] # Dot
  <2>1. \A i \in 1..2 : i = 1 \/ i = 2
    OBVIOUS
  <2> QED
    BY ONLY <1>4, <1>7, <2>1
<1>9. \A i \in 1..Len(t) : t[i] # SP
  <2>1. \A i \in 1..4 : i = 1 \/ i = 2 \/ i = 3 \/ i = 4
    OBVIOUS
  <2> QED
    BY ONLY <1>5, <1>7, <2>1
<1>10. \A i \in 1..Len(g) : g[i] # Question
  <2>1. 1..0 = {}
    OBVIOUS
  <2> QED
    BY ONLY <1>6, <2>1
<1>11. Unescape(t, <<SP, HTTP>> \o CRLF \o CRLF) = [how |-> "hangs", text |-> g]
  BY ONLY <1>2, <1>3, AfterTarget, EscapeOfZero
<1>12. t # p
  BY ONLY <1>4, <1>5
<1>13. g \notin Files
  <2>1. PICK v : v = <<Slash, F>>
    OBVIOUS
  <2>2. Len(v) = 2
    BY ONLY <2>1
  <2>3. g # v
    BY ONLY <1>6, <2>2
  <2> QED
    BY ONLY <2>1, <2>3 DEF Files
<1>14. p \in Seq(Int) /\ t \in Seq(Int) /\ g \in Seq(Int) /\ Len(t) > 0 /\ t[1] = Slash
  BY ONLY <1>4, <1>5, <1>6, <1>7
<1>15. ReadAs(Escaped(p, t), Parse(Text(Escaped(p, t))))
  BY ONLY <1>8, <1>9, <1>10, <1>11, <1>12, <1>13, <1>14, EscapedRead
<1> QED
  BY ONLY <1>1, <1>2, <1>15

LEMMA NothingThrows ==
  Parse(Text(Escaped(<<Slash, Percent, Z, Z>>, <<Slash, Percent, Z, Z>>))).how = "throws"
<1>1. PICK t : t = <<Slash, Percent, Z, Z>>
  OBVIOUS
<1>2. PICK g : g = <<>>
  OBVIOUS
<1>3. t \in Seq(Int) /\ Len(t) = 4 /\ t[1] = 47 /\ t[2] = 37 /\ t[3] = 122 /\ t[4] = 122
  BY <1>1 DEF Slash, Percent, Z
<1>4. g \in Seq(Int) /\ Len(g) = 0
  BY <1>2
<1>5. Dot = 46 /\ SP = 32 /\ Slash = 47
  BY DEF Dot, SP, Slash
<1>6. \A i \in 1..Len(t) : t[i] # SP /\ t[i] # Dot
  <2>1. \A i \in 1..4 : i = 1 \/ i = 2 \/ i = 3 \/ i = 4
    OBVIOUS
  <2> QED
    BY ONLY <1>3, <1>5, <2>1
<1>7. \A i \in 1..Len(g) : g[i] # Question
  <2>1. 1..0 = {}
    OBVIOUS
  <2> QED
    BY ONLY <1>4, <2>1
<1>8. Unescape(t, <<SP, HTTP>> \o CRLF \o CRLF) = [how |-> "throws", text |-> g]
  BY ONLY <1>1, <1>2, AfterTarget, EscapeOfNothing
<1>9. /\ t \in Seq(Int) /\ g \in Seq(Int) /\ Len(t) > 0 /\ t[1] = Slash
      /\ \A i \in 1..Len(t) : t[i] # SP
  BY ONLY <1>3, <1>4, <1>5, <1>6
<1>10. \A i \in 1..Len(t) : t[i] # Dot
  BY ONLY <1>6
<1>11. Parse(Text(Escaped(t, t))).how = "throws"
  BY ONLY <1>7, <1>8, <1>9, <1>10, EscapedRead
<1> QED
  BY ONLY <1>1, <1>11

LEMMA PlainPaths ==
  /\ PlainPath(<<Slash, F>>) /\ PlainPath(<<Slash, G>>) /\ PlainPath(<<Slash>>)
  /\ PlainPath(<<Slash, Dot, Dot, Slash, F>>)
<1>1. PICK a, b, c, d : /\ a = <<Slash, F>> /\ b = <<Slash, G>> /\ c = <<Slash>>
                        /\ d = <<Slash, Dot, Dot, Slash, F>>
  OBVIOUS
<1>2. Slash = 47 /\ F = 102 /\ G = 103 /\ Dot = 46 /\ SP = 32 /\ Percent = 37 /\ Question = 63
  BY DEF Slash, F, G, Dot, SP, Percent, Question
<1>3. PlainPath(a)
  <2>1. a \in Seq(Int) /\ Len(a) = 2 /\ a[1] = 47 /\ a[2] = 102
    BY ONLY <1>1, <1>2
  <2>2. \A i \in 1..2 : i = 1 \/ i = 2
    OBVIOUS
  <2> QED
    BY ONLY <1>2, <2>1, <2>2 DEF PlainPath
<1>4. PlainPath(b)
  <2>1. b \in Seq(Int) /\ Len(b) = 2 /\ b[1] = 47 /\ b[2] = 103
    BY ONLY <1>1, <1>2
  <2>2. \A i \in 1..2 : i = 1 \/ i = 2
    OBVIOUS
  <2> QED
    BY ONLY <1>2, <2>1, <2>2 DEF PlainPath
<1>5. PlainPath(c)
  <2>1. c \in Seq(Int) /\ Len(c) = 1 /\ c[1] = 47
    BY ONLY <1>1, <1>2
  <2>2. \A i \in 1..1 : i = 1
    OBVIOUS
  <2> QED
    BY ONLY <1>2, <2>1, <2>2 DEF PlainPath
<1>6. PlainPath(d)
  <2>1. d \in Seq(Int) /\ Len(d) = 5 /\ d[1] = 47 /\ d[2] = 46 /\ d[3] = 46 /\ d[4] = 47 /\ d[5] = 102
    BY ONLY <1>1, <1>2
  <2>2. \A i \in 1..5 : i = 1 \/ i = 2 \/ i = 3 \/ i = 4 \/ i = 5
    OBVIOUS
  <2> QED
    BY ONLY <1>2, <2>1, <2>2 DEF PlainPath
<1> QED
  BY ONLY <1>1, <1>3, <1>4, <1>5, <1>6

(* All the messages. *)
LEMMA MessagesUnderstood == Understood
<1> SUFFICES ASSUME NEW m \in Messages, HttpRequestOf[m].how # "throws"
             PROVE  ReadAs(m, HttpRequestOf[m])
  BY DEF Understood
<1>1. PICK r : r = Parse(Text(m)) /\ r = HttpRequestOf[m]
  <2>1. HttpRequestOf[m] = Parse(Text(m))
    BY DEF HttpRequestOf
  <2> QED
    BY ONLY <2>1
<1> SUFFICES ReadAs(m, r)
  BY <1>1
<1>2. r.how # "throws"
  BY ONLY <1>1, HttpRequestOf[m].how # "throws"
<1>3. /\ GET \in Int /\ PUT \in Int /\ GET # SP /\ PUT # SP
  BY DEF GET, PUT, SP
<1>4. ASSUME NEW x \in Int, x # SP, NEW path, PlainPath(path), m = Plain(x, path) PROVE ReadAs(m, r)
  <2>1. ReadAs(Plain(x, path), Parse(Text(Plain(x, path))))
    BY ONLY <1>4, PlainAsMeant
  <2> QED
    BY ONLY <1>1, <1>4, <2>1
<1>5. CASE m \in {Plain(GET, <<Slash, F>>), Plain(GET, <<Slash, G>>), Plain(GET, <<Slash>>),
                  Plain(PUT, <<Slash, F>>), Plain(GET, <<Slash, Dot, Dot, Slash, F>>)}
  <2>1. \/ m = Plain(GET, <<Slash, F>>) \/ m = Plain(GET, <<Slash, G>>) \/ m = Plain(GET, <<Slash>>)
        \/ m = Plain(PUT, <<Slash, F>>) \/ m = Plain(GET, <<Slash, Dot, Dot, Slash, F>>)
    BY ONLY <1>5
  <2> QED
    BY ONLY <1>3, <1>4, <2>1, PlainPaths
<1>6. CASE m = [Plain(GET, <<Slash, F>>) EXCEPT !.versioned = FALSE]
  <2>1. PICK t : t = <<Slash, F>>
    OBVIOUS
  <2>2. PlainPath(t)
    BY ONLY <2>1, PlainPaths
  <2>3. \A i \in 1..Len(t) : t[i] # CR
    BY ONLY <2>1, PathF
  <2>4. LET n == [Plain(GET, t) EXCEPT !.versioned = FALSE] IN ReadAs(n, Parse(Text(n)))
    BY ONLY <1>3, <2>2, <2>3, UnversionedAsMeant
  <2> QED
    BY ONLY <1>1, <1>6, <2>1, <2>4
<1>7. CASE m = [Plain(GET, <<Slash, F>>) EXCEPT
                  !.query = << <<F, Digit(1)>>, <<G, Digit(2)>>, <<Z, Digit(3)>> >>]
  <2>1. m = [Plain(GET, <<Slash, F>>) EXCEPT !.query = ThreeParams]
    BY ONLY <1>7 DEF ThreeParams
  <2> QED
    BY ONLY <1>1, <2>1, QueryAsMeant
<1>8. CASE m = [Plain(POST, <<Slash, F>>) EXCEPT !.headers = << <<G, F>>, <<F, G>> >>, !.body = <<F>>]
  <2>1. m = [Plain(POST, <<Slash, F>>) EXCEPT !.headers = TwoHeaders, !.body = <<F>>]
    BY ONLY <1>8 DEF TwoHeaders
  <2> QED
    BY ONLY <1>1, <2>1, HeadersAsMeant
<1>9. CASE m = Escaped(<<Slash, G, F>>, <<Slash, Percent, Digit(6), Digit(7), F>>)
  BY ONLY <1>1, <1>9, SevenAsMeant
<1>10. CASE m = Escaped(<<Slash, 0>>, <<Slash, Percent, Digit(0), Digit(0)>>)
  BY ONLY <1>1, <1>10, ZeroAsMeant
<1>11. CASE m = Escaped(<<Slash, Percent, Z, Z>>, <<Slash, Percent, Z, Z>>)
  BY ONLY <1>1, <1>2, <1>11, NothingThrows
<1> QED
  <2>1. \/ m \in {Plain(GET, <<Slash, F>>), Plain(GET, <<Slash, G>>), Plain(GET, <<Slash>>),
                  Plain(PUT, <<Slash, F>>), Plain(GET, <<Slash, Dot, Dot, Slash, F>>)}
        \/ m = [Plain(GET, <<Slash, F>>) EXCEPT !.versioned = FALSE]
        \/ m = [Plain(GET, <<Slash, F>>) EXCEPT
                  !.query = << <<F, Digit(1)>>, <<G, Digit(2)>>, <<Z, Digit(3)>> >>]
        \/ m = [Plain(POST, <<Slash, F>>) EXCEPT !.headers = << <<G, F>>, <<F, G>> >>, !.body = <<F>>]
        \/ m = Escaped(<<Slash, G, F>>, <<Slash, Percent, Digit(6), Digit(7), F>>)
        \/ m = Escaped(<<Slash, 0>>, <<Slash, Percent, Digit(0), Digit(0)>>)
        \/ m = Escaped(<<Slash, Percent, Z, Z>>, <<Slash, Percent, Z, Z>>)
    BY Zenon DEF Messages
  <2> QED
    BY ONLY <1>5, <1>6, <1>7, <1>8, <1>9, <1>10, <1>11, <2>1, Zenon

(* A thread holds no message but one that has been parsed. *)
Held == \A t \in Threads : request[t].message # Nothing => Asked(t)

LEMMA HeldKept == RequestInv /\ Held /\ [Next]_vars => Held'
<1> SUFFICES ASSUME RequestInv, Held, [Next]_vars PROVE Held'
  OBVIOUS
<1>1. DOMAIN request = Threads /\ \A t \in Threads : DOMAIN request[t] = Fields
  BY DEF RequestInv
<1>2. ASSUME \A t \in Threads : request'[t].message = request[t].message PROVE Held'
  BY <1>2 DEF Held, Asked
<1>3. ASSUME UNCHANGED request PROVE Held'
  BY <1>2, <1>3
<1>4. CASE MainStep \/ UNCHANGED vars
  BY <1>3, <1>4 DEF MainStep, Open, Listen, Run, Spawn, Destroy, DestroyReturn, Free, vars, requestVars
<1>5. ASSUME NEW t \in Threads,
             \/ ThreadStep(t) \/ WorkerFails(t)
             \/ \E m \in Messages : Request(t, m)
             \/ \E sig \in Signals : Signal(t, sig)
      PROVE  Held'
  <2>1. ASSUME NEW m \in Messages, Request(t, m) PROVE Held'
    <3>1. CASE UNCHANGED request
      BY <1>3, <3>1
    <3>2. CASE HttpRequestOf[m].how # "throws" /\ request' = [request EXCEPT ![t].message = m]
      <4>1. \A u \in Threads : u # t => request'[u] = request[u]
        BY <1>1, <3>2
      <4>2. request'[t].message = m
        BY <1>1, <3>2 DEF Fields
      <4> QED
        BY <3>2, <4>1, <4>2 DEF Held, Asked
    <3> QED
      BY <2>1, <3>1, <3>2 DEF Request
  <2>2. CASE CopyStatus(t) \/ FindFile(t)
    <3>1. \/ request' = [request EXCEPT ![t].status = m_status]
          \/ \E b : request' = [request EXCEPT ![t].file = b]
      BY <2>2 DEF CopyStatus, FindFile
    <3>2. \A u \in Threads : request'[u].message = request[u].message
      BY <1>1, <3>1 DEF Fields
    <3> QED
      BY <1>2, <3>2
  <2>3. CASE Sent(t)
    <3>1. \A u \in Threads : request'[u] = IF u = t THEN NoRequest ELSE request[u]
      BY <1>1, <2>3 DEF Sent
    <3>2. NoRequest.message = Nothing
      BY DEF NoRequest
    <3> QED
      BY <3>1, <3>2 DEF Held, Asked
  <2>4. CASE UNCHANGED request
    BY <1>3, <2>4
  <2> QED
    BY <1>5, <2>1, <2>2, <2>3, <2>4
    DEF ThreadStep, WorkerNew, LoopTest, Wake, WorkerFails, Validate, JoinTest, JoinSet, JoinOne,
        CloseTest, CloseFd, Signal, requestVars
<1> QED
  BY <1>4, <1>5 DEF Next

LEMMA HeldInit == Init => Held
<1>1. NoRequest.message = Nothing
  BY DEF NoRequest
<1> QED
  BY <1>1 DEF Init, Held

(* What on_request is given of every message is what the client has sent, but *)
(* for what the constructor of HttpRequest is known to lose.                  *)
THEOREM Reads == Spec => []RequestRead
<1>1. Held => RequestRead
  BY MessagesUnderstood DEF Held, Asked, RequestRead, Understood
<1>2. LifeInv /\ RequestInv /\ Held /\ [Next]_vars => (LifeInv /\ RequestInv /\ Held)'
  BY LifeStep, RequestKept, MessagesUnderstood, HeldKept
<1>3. Init => LifeInv /\ RequestInv /\ Held
  BY LifeInit, RequestInit, HeldInit
<1> QED
  BY <1>1, <1>2, <1>3, PTL DEF Spec

(* A request that must be refused is never answered with 200, whatever the    *)
(* other threads write to the status between the check and the answer, and a  *)
(* file follows nothing but 200.                                              *)
THEOREM Refusals == Spec => []RefusedNeverOk
<1>1. RequestInv => RefusedNeverOk
  BY DEF RequestInv, Sound, RefusedNeverOk
<1>2. LifeInv /\ RequestInv /\ [Next]_vars => (LifeInv /\ RequestInv)'
  BY LifeStep, RequestKept, MessagesUnderstood
<1>3. Init => LifeInv /\ RequestInv
  BY LifeInit, RequestInit
<1> QED
  BY <1>1, <1>2, <1>3, PTL DEF Spec
=============================================================================
