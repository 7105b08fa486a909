------------------------------- MODULE Process -------------------------------
(***************************************************************************)
(* proc::Process of hw1 and the two example programs.  A process owns        *)
(* Process objects, each with a child at the other end of two pipes, and     *)
(* constructs, moves, uses and destroys them in any order; the children run  *)
(* the echo program and interleave with it, with each other and with the     *)
(* kernel's signals.                                                         *)
(*                                                                           *)
(* The pipes carry units: a number is the header of a frame and says how     *)
(* many Bytes follow.  Child k is the k-th that was forked; k stands for its *)
(* pid and for its pipes.  Neither pids nor descriptor numbers are reused.   *)
(***************************************************************************)
EXTENDS Integers, Sequences, FiniteSets

CONSTANTS
  Objects,        \* Process objects
  Length,         \* length of a message
  Capacity,       \* units a pipe takes
  MaxChildren,    \* bound: forks
  MaxFrames       \* bound: messages sent to a child

ASSUME ProcessAssumption ==
  /\ Length \in Nat /\ Capacity \in Nat \ {0}
  /\ MaxChildren \in Nat \ {0} /\ MaxFrames \in Nat

Kids == 1..MaxChildren
None == -1              \* a descriptor or a pid that was moved away or closed
Byte == -1

VARIABLES
  up,                   \* the parent runs
  op,                   \* the call it is in
  obj,                  \* the objects
  ends,                 \* <<pipe, k>>: the ends open in the parent
  child,                \* the children
  p2c, c2p,             \* what is in the pipes
  sent, got,            \* frames sent to and received from each child
  wild                  \* a kill(-1), an exec that failed or a close of garbage happened

vars == <<up, op, obj, ends, child, p2c, c2p, sent, got, wild>>

Idle == [call |-> "none"]
Unborn == [st |-> "none", holds |-> {}, mine |-> {}, size |-> None, left |-> 0, eof |-> FALSE,
           reply |-> <<>>, cause |-> "none"]
Ended(cause) == [Unborn EXCEPT !.st = "zombie", !.cause = cause]
Nothing == [st |-> "none", m_p2c_fd |-> None, m_c2p_fd |-> None, m_pid |-> None,
            m_is_readable |-> FALSE, stopped |-> FALSE]

(* A slip: the header counts a terminating zero that is not sent. *)
LongFrame(n) == <<n + 1>> \o [i \in 1..n |-> Byte]

Frame(n) == <<n>> \o [i \in 1..n |-> Byte]

Init ==
  /\ up = TRUE
  /\ op = Idle
  /\ obj = [o \in Objects |-> Nothing]
  /\ ends = {}
  /\ child = [k \in Kids |-> Unborn]
  /\ p2c = [k \in Kids |-> <<>>]
  /\ c2p = [k \in Kids |-> <<>>]
  /\ sent = [k \in Kids |-> 0]
  /\ got = [k \in Kids |-> 0]
  /\ wild = FALSE

Alive(k) == child[k].st \in {"forked", "running"}
Forked == {k \in Kids : child[k].st # "none"}
HasEnd(pipe, k) == <<pipe, k>> \in ends \/ \E h \in Kids : Alive(h) /\ <<pipe, k>> \in child[h].holds

Free == up /\ op = Idle
Live(o) == obj[o].st = "live"

(* The parent ends: an exception out of a noexcept function, or a signal. *)
Die ==
  /\ up' = FALSE /\ op' = Idle /\ ends' = {}
  /\ obj' = [o \in Objects |-> Nothing]

-----------------------------------------------------------------------------
(* What the members do, over the value of the object they leave behind. *)

(* close(): a descriptor that is not open any more is a ProcessError, which   *)
(* close() may not let out.                                                   *)
MyEnds(x) == (IF x.m_p2c_fd = None THEN {} ELSE {<<"p2c", x.m_p2c_fd>>})
               \cup (IF x.m_c2p_fd = None THEN {} ELSE {<<"c2p", x.m_c2p_fd>>})
Closed(x) == [x EXCEPT !.m_p2c_fd = None, !.m_c2p_fd = None, !.m_is_readable = FALSE]

(* The children as SIGTERM leaves them. *)
Signalled(pid) ==
  [k \in Kids |-> IF Alive(k) /\ pid \in {k, None}
                  THEN Ended("signal")
                  ELSE child[k]]

(* A slip: the child is not waited for. *)
OnlySignalled(pid) == {Signalled(pid)}

(* terminate(): kill(-1) reaches every process, waitpid(-1) takes any child.  *)
(* With the child of the pid taken already, it is a ProcessError.             *)
Terminated(pid) ==
  LET c == Signalled(pid)
      waited == {k \in Kids : c[k].st = "zombie" /\ pid \in {k, None}}
  IN  IF waited = {} THEN {c} ELSE {[c EXCEPT ![k].st = "reaped"] : k \in waited}

(* safeStop() of an object that afterwards is left as it is or filled anew. *)
SafeStop(o, after) ==
  \/ /\ MyEnds(obj[o]) \subseteq ends
     /\ ends' = ends \ MyEnds(obj[o])
     /\ child' \in Terminated(obj[o].m_pid)
     /\ obj' = after
     /\ wild' = (wild \/ obj[o].m_pid = None)
     /\ UNCHANGED <<up, op, p2c, c2p, sent, got>>
  \/ /\ ~(MyEnds(obj[o]) \subseteq ends)
     /\ Die
     /\ UNCHANGED <<child, p2c, c2p, sent, got, wild>>

-----------------------------------------------------------------------------
(* A slip: the child keeps the parent's ends of its own pipes. *)
KeepOwnEnds(k) == ends \cup {<<"p2c", k>>, <<"c2p", k>>}

(* The constructor: the child is a copy of the parent, with every end and     *)
(* every object it has, and closes only the ends of its own pipes.            *)
Inherited(k) == ends

Construct(o) ==
  /\ Free
  /\ obj[o].st = "none"
  /\ \E k \in Kids :
       /\ child[k].st = "none" /\ \A j \in 1..k - 1 : child[j].st # "none"
       /\ child' = [child EXCEPT ![k].st = "forked",
                                 ![k].holds = Inherited(k),
                                 ![k].mine = {obj[p].m_pid : p \in {p \in Objects : Live(p)}}]
       /\ obj' = [obj EXCEPT ![o] = [st |-> "live", m_p2c_fd |-> k, m_c2p_fd |-> k, m_pid |-> k,
                                     m_is_readable |-> TRUE, stopped |-> FALSE]]
       /\ ends' = ends \cup {<<"p2c", k>>, <<"c2p", k>>}
  /\ UNCHANGED <<up, op, p2c, c2p, sent, got, wild>>

(* fork() fails: close() is called on members that were never initialised.    *)
(* They may hold -1, an end of another object's, or no descriptor at all.     *)
ForkFails(o) ==
  /\ Free
  /\ obj[o].st = "none"
  /\ \E k \in Kids : child[k].st = "none"
  /\ \/ /\ \E e \in ends : ends' = ends \ {e}
        /\ UNCHANGED <<up, op, obj>>
     \/ Die
  /\ wild' = TRUE
  /\ UNCHANGED <<child, p2c, c2p, sent, got>>

MovedFrom == [Nothing EXCEPT !.st = "live"]

MoveConstruct(o, p) ==
  /\ Free
  /\ obj[o].st = "none" /\ Live(p)
  /\ obj' = [obj EXCEPT ![o] = obj[p], ![p] = MovedFrom]
  /\ UNCHANGED <<up, op, ends, child, p2c, c2p, sent, got, wild>>

MoveAssign(o, p) ==
  /\ Free
  /\ o # p /\ Live(o) /\ Live(p)
  /\ SafeStop(o, [obj EXCEPT ![o] = obj[p], ![p] = MovedFrom])

Destroy(o) ==
  /\ Free
  /\ Live(o)
  /\ SafeStop(o, [obj EXCEPT ![o] = Nothing])

Terminate(o) ==
  /\ Free
  /\ Live(o)
  /\ child' \in Terminated(obj[o].m_pid)
  /\ obj' = [obj EXCEPT ![o].stopped = TRUE]
  /\ wild' = (wild \/ obj[o].m_pid = None)
  /\ UNCHANGED <<up, op, ends, p2c, c2p, sent, got>>

CloseStdin(o) ==
  /\ Free
  /\ Live(o)
  /\ obj[o].m_p2c_fd # None
  /\ <<"p2c", obj[o].m_p2c_fd>> \in ends
  /\ ends' = ends \ {<<"p2c", obj[o].m_p2c_fd>>}
  /\ obj' = [obj EXCEPT ![o].m_p2c_fd = None]
  /\ UNCHANGED <<up, op, child, p2c, c2p, sent, got, wild>>

Close(o) ==
  /\ Free
  /\ Live(o)
  /\ MyEnds(obj[o]) # {}
  /\ \/ /\ MyEnds(obj[o]) \subseteq ends
        /\ ends' = ends \ MyEnds(obj[o])
        /\ obj' = [obj EXCEPT ![o] = Closed(obj[o])]
        /\ UNCHANGED <<up, op>>
     \/ /\ ~(MyEnds(obj[o]) \subseteq ends)
        /\ Die
  /\ UNCHANGED <<child, p2c, c2p, sent, got, wild>>

-----------------------------------------------------------------------------
(* send() and receive() of the example, over writeExact and readExact, which  *)
(* block.  On a descriptor that is closed both are a ProcessError at once.    *)
Send(o) ==
  /\ Free
  /\ Live(o)
  /\ LET k == obj[o].m_p2c_fd
     IN  /\ <<"p2c", k>> \in ends
         /\ sent[k] < MaxFrames
         /\ op' = [call |-> "write", k |-> k, todo |-> Frame(Length)]
         /\ sent' = [sent EXCEPT ![k] = @ + 1]
  /\ UNCHANGED <<up, obj, ends, child, p2c, c2p, got, wild>>

Write ==
  /\ up /\ op.call = "write"
  /\ LET k == op.k
     IN  \/ /\ op.todo = <<>>
            /\ op' = Idle
            /\ UNCHANGED <<up, obj, ends, p2c>>
         \/ /\ op.todo # <<>> /\ Alive(k) /\ Len(p2c[k]) < Capacity
            /\ p2c' = [p2c EXCEPT ![k] = Append(@, Head(op.todo))]
            /\ op' = [op EXCEPT !.todo = Tail(@)]
            /\ UNCHANGED <<up, obj, ends>>
         \/ /\ op.todo # <<>> /\ ~Alive(k)      \* SIGPIPE
            /\ Die
            /\ UNCHANGED p2c
  /\ UNCHANGED <<child, c2p, sent, got, wild>>

Receive(o) ==
  /\ Free
  /\ Live(o)
  /\ <<"c2p", obj[o].m_c2p_fd>> \in ends
  /\ op' = [call |-> "read", k |-> obj[o].m_c2p_fd, o |-> o, need |-> None]
  /\ UNCHANGED <<up, obj, ends, child, p2c, c2p, sent, got, wild>>

(* A unit at a time.  At the end of file m_is_readable is cleared and         *)
(* readExact goes round again.                                                *)
AtEof(k) == c2p[k] = <<>> /\ ~Alive(k)

Read ==
  /\ up /\ op.call = "read"
  /\ LET k == op.k
         need == IF op.need = None THEN Head(c2p[k]) ELSE op.need - 1
     IN  \/ /\ c2p[k] # <<>>
            /\ c2p' = [c2p EXCEPT ![k] = Tail(@)]
            /\ op' = IF need = 0 THEN Idle ELSE [op EXCEPT !.need = need]
            /\ got' = IF need = 0 THEN [got EXCEPT ![k] = @ + 1] ELSE got
            /\ UNCHANGED obj
         \/ /\ AtEof(k)
            /\ obj' = [obj EXCEPT ![op.o].m_is_readable = FALSE]
            /\ UNCHANGED <<op, c2p, got>>
  /\ UNCHANGED <<up, ends, child, p2c, sent, wild>>

-----------------------------------------------------------------------------
(* The child, from fork() on. *)
Exec(k) ==
  /\ child[k].st = "forked"
  /\ child' = [child EXCEPT ![k].st = "running", ![k].mine = {}]
  /\ UNCHANGED <<up, op, obj, ends, p2c, c2p, sent, got, wild>>

(* execl fails: the ProcessError leaves the constructor in the child, a copy  *)
(* of the parent, and the copies of the objects it unwinds are destroyed.     *)
ExecFails(k) ==
  /\ child[k].st = "forked"
  /\ \E pids \in SUBSET child[k].mine :
       /\ child' = [j \in Kids |->
                      IF j = k THEN Ended("exec")
                      ELSE IF Alive(j) /\ pids \cap {j, None} # {}
                      THEN Ended("signal")
                      ELSE child[j]]
       /\ wild' = (wild \/ pids # {})
       /\ IF up /\ None \in pids THEN Die ELSE UNCHANGED <<up, op, obj, ends>>
  /\ UNCHANGED <<p2c, c2p, sent, got>>

(* receive() of the echo program: fread fills the header and the message; at  *)
(* the end of file what is missing of either is zeros.  send() of it again is *)
(* flushed as a whole.                                                        *)
EchoReceive(k) ==
  /\ child[k].st = "running"
  /\ child[k].reply = <<>> /\ ~child[k].eof
  /\ LET size == IF child[k].size = None THEN Head(p2c[k]) ELSE child[k].size
         left == IF child[k].size = None THEN size ELSE child[k].left - 1
     IN  \/ /\ p2c[k] # <<>>
            /\ p2c' = [p2c EXCEPT ![k] = Tail(@)]
            /\ child' = [child EXCEPT ![k].size = IF left = 0 THEN None ELSE size,
                                      ![k].left = left,
                                      ![k].reply = IF left = 0 THEN Frame(size) ELSE <<>>]
         \/ /\ p2c[k] = <<>> /\ ~HasEnd("p2c", k)
            /\ child' = [child EXCEPT ![k].eof = TRUE,
                                      ![k].reply = Frame(IF child[k].size = None THEN 0 ELSE child[k].size)]
            /\ UNCHANGED p2c
  /\ UNCHANGED <<up, op, obj, ends, c2p, sent, got, wild>>

EchoSend(k) ==
  /\ child[k].st = "running"
  /\ child[k].reply # <<>>
  /\ \/ /\ HasEnd("c2p", k) /\ Len(c2p[k]) < Capacity
        /\ c2p' = [c2p EXCEPT ![k] = Append(@, Head(child[k].reply))]
        /\ child' = [child EXCEPT ![k].reply = Tail(@)]
     \/ /\ ~HasEnd("c2p", k)                  \* SIGPIPE
        /\ child' = [child EXCEPT ![k] = Ended("pipe")]
        /\ UNCHANGED c2p
  /\ UNCHANGED <<up, op, obj, ends, p2c, sent, got, wild>>

EchoEnds(k) ==
  /\ child[k].st = "running"
  /\ child[k].reply = <<>> /\ child[k].eof
  /\ child' = [child EXCEPT ![k] = Ended("eof")]
  /\ UNCHANGED <<up, op, obj, ends, p2c, c2p, sent, got, wild>>

-----------------------------------------------------------------------------
ChildStep(k) ==
  Exec(k) \/ ExecFails(k) \/ EchoReceive(k) \/ EchoSend(k) \/ EchoEnds(k)

Next ==
  \/ \E o \in Objects :
       \/ Construct(o) \/ ForkFails(o) \/ Destroy(o) \/ Terminate(o)
       \/ CloseStdin(o) \/ Close(o) \/ Send(o) \/ Receive(o)
  \/ \E o, p \in Objects : MoveConstruct(o, p) \/ MoveAssign(o, p)
  \/ Write \/ Read
  \/ \E k \in Kids : ChildStep(k)

Spec == Init /\ [][Next]_vars

(* Both programs run on; the parent need not begin another call. *)
FairSpec ==
  Spec /\ WF_vars(Write) /\ WF_vars(Read) /\ \A k \in Kids : WF_vars(ChildStep(k))

-----------------------------------------------------------------------------
(* Objects own their children, through any sequence of moves: no two hold the *)
(* same pid; a child that is not yet waited for has an object; and one whose  *)
(* object was not told to terminate() is not signalled by anybody else.  What *)
(* breaks it, and is excepted, is only a moved-from object that is stopped,   *)
(* an exec that fails in a copy of the parent, and a fork that fails.         *)
ChildrenOwned ==
  wild \/
    /\ \A o, p \in Objects :
         o # p /\ obj[o].m_pid # None => obj[o].m_pid # obj[p].m_pid
    /\ \A k \in Forked :
         up /\ child[k].st # "reaped" => \E o \in Objects : Live(o) /\ obj[o].m_pid = k
    /\ \A o \in Objects :
         LET k == obj[o].m_pid
         IN  k # None /\ child[k].cause = "signal" => obj[o].stopped

(* A call that writes to a child, or reads an answer that is due, returns or  *)
(* ends the parent, with two exceptions: readExact goes round for ever at the *)
(* end of file, and both sides fill their pipes when the parent sends a       *)
(* message before it has taken the answer to the last.                        *)
Clogged(k) ==
  /\ op.call = "write" /\ Len(p2c[k]) = Capacity
  /\ child[k].reply # <<>> /\ Len(c2p[k]) = Capacity
  /\ sent[k] - got[k] >= 2

ExchangeReturns ==
  \A k \in Kids :
    (op # Idle /\ op.k = k /\ sent[k] > got[k]) ~>
      (op = Idle \/ (op.call = "read" /\ AtEof(k)) \/ Clogged(k))

(* A child whose stdin its parent has closed ends, unless a child forked      *)
(* later still holds that end or nobody takes what it answers.                *)
ClosedStdinEnds ==
  \A k \in Kids :
    (Alive(k) /\ <<"p2c", k>> \notin ends) ~>
      (~Alive(k) \/ (\E h \in Kids \ {k} : Alive(h) /\ <<"p2c", k>> \in child[h].holds)
        \/ (child[k].reply # <<>> /\ Len(c2p[k]) = Capacity))
=============================================================================
