---------------------------- MODULE SharedMemory ----------------------------
(***************************************************************************)
(* shmem::SharedMemory of hw5: a linear allocator over a region that        *)
(* forked processes share.  The two boundaries and the semaphore that       *)
(* guards them live in the region itself.                                   *)
(*                                                                          *)
(* An address is its offset in the region: the boundaries and the           *)
(* semaphore take 0..Header-1 and m_end is Size.  A call is split where      *)
(* another process can run in between: the unguarded comparison with m_end,  *)
(* taking the semaphore (sem_wait is repeated on EINTR, which changes        *)
(* nothing), reading m_begin, writing it, and giving the semaphore back.     *)
(***************************************************************************)
EXTENDS Integers, FiniteSets

CONSTANTS
  Procs,       \* processes that share the region
  Header,      \* initial m_begin
  Size,        \* m_end
  Counts       \* sizes that are asked for

ASSUME ShmemAssumption ==
  /\ IsFiniteSet(Procs)
  /\ Header \in Nat
  /\ Size \in Nat
  /\ Header < Size
  /\ Counts \subseteq Nat \ {0}

Block == [from : Nat, len : Counts]

End(b) == b.from + b.len

VARIABLES
  m_begin,     \* boundaries::m_begin
  sem,         \* the value of the semaphore
  pc,          \* where each process is in its call
  arg,         \* the size it asks for
  location,    \* allocate's local variable
  ret,         \* how its last call ended
  handed,      \* every block allocate has returned (or is about to)
  freed        \* the blocks given to deallocate

shmVars == <<m_begin, sem, pc, arg, location, ret, handed, freed>>

(* Points before the semaphore is taken, and points where it is held. *)
Waiting == {"alloc_wait", "dealloc_wait", "get_wait"}
Holding == {"alloc_read", "alloc_bump", "release"}

ShmInit ==
  /\ m_begin = Header
  /\ sem = 1
  /\ pc = [p \in Procs |-> "idle"]
  /\ arg = [p \in Procs |-> 0]
  /\ location = [p \in Procs |-> 0]
  /\ ret = [p \in Procs |-> "none"]
  /\ handed = {}
  /\ freed = {}

(* A call ends with no effect: it threw before it took the semaphore. *)
Throw(p, what) ==
  /\ ret' = [ret EXCEPT ![p] = what]
  /\ UNCHANGED pc

(* A call goes on to wait for the semaphore. *)
Proceed(p, at) ==
  /\ pc' = [pc EXCEPT ![p] = at]
  /\ ret' = [ret EXCEPT ![p] = "ok"]

-----------------------------------------------------------------------------
(* Slips a later edit of the code could make; no specification uses them.    *)

(* deallocate gives the end of the block back without asking whose it is. *)
BadDeallocate(p, b) ==
  /\ pc[p] = "idle"
  /\ b \in handed \ freed
  /\ b.from < m_begin
  /\ freed' = freed \cup {b}
  /\ m_begin' = m_begin - b.len
  /\ Proceed(p, "dealloc_wait")
  /\ UNCHANGED <<sem, arg, location, handed>>

(* deallocate counts the block's length twice. *)
StrictDeallocate(p, b) ==
  /\ pc[p] = "idle"
  /\ b \in handed \ freed
  /\ IF b.from >= m_begin \/ End(b) + b.len >= Size
     THEN Throw(p, "invalid") /\ UNCHANGED freed
     ELSE Proceed(p, "dealloc_wait") /\ freed' = freed \cup {b}
  /\ UNCHANGED <<m_begin, sem, arg, location, handed>>

(* allocate without the comparison. *)
BadAllocate(p, n) ==
  /\ pc[p] = "idle"
  /\ Proceed(p, "alloc_wait")
  /\ m_begin < 3 * Size
  /\ arg' = [arg EXCEPT ![p] = n]
  /\ UNCHANGED <<m_begin, sem, location, handed, freed>>

-----------------------------------------------------------------------------
(* allocate: the bound is tested before the semaphore is taken. *)
Allocate(p, n) ==
  /\ pc[p] = "idle"
  /\ IF m_begin + n >= Size
     THEN Throw(p, "bad_alloc") /\ UNCHANGED arg
     ELSE Proceed(p, "alloc_wait") /\ arg' = [arg EXCEPT ![p] = n]
  /\ UNCHANGED <<m_begin, sem, location, handed, freed>>

(* deallocate of a block that is in use: two tests, then the semaphore is    *)
(* taken and given back, and nothing becomes free.                           *)
Deallocate(p, b) ==
  /\ pc[p] = "idle"
  /\ b \in handed \ freed
  /\ IF b.from >= m_begin \/ End(b) >= Size
     THEN Throw(p, "invalid") /\ UNCHANGED freed
     ELSE Proceed(p, "dealloc_wait") /\ freed' = freed \cup {b}
  /\ UNCHANGED <<m_begin, sem, arg, location, handed>>

(* get: one test, and the semaphore taken and given back. *)
Get(p, offset) ==
  /\ pc[p] = "idle"
  /\ IF offset >= Size THEN Throw(p, "invalid") ELSE Proceed(p, "get_wait")
  /\ UNCHANGED <<m_begin, sem, arg, location, handed, freed>>

(* SemaphoreLock's constructor: Semaphore::acquire. *)
Acquire(p) ==
  /\ pc[p] \in Waiting
  /\ sem > 0
  /\ sem' = sem - 1
  /\ pc' = [pc EXCEPT ![p] = IF pc[p] = "alloc_wait" THEN "alloc_read" ELSE "release"]
  /\ UNCHANGED <<m_begin, arg, location, ret, handed, freed>>

(* location = m_boundaries->m_begin *)
AllocateRead(p) ==
  /\ pc[p] = "alloc_read"
  /\ location' = [location EXCEPT ![p] = m_begin]
  /\ pc' = [pc EXCEPT ![p] = "alloc_bump"]
  /\ UNCHANGED <<m_begin, sem, arg, ret, handed, freed>>

(* m_boundaries->m_begin += sizeof(T) * count, and location is returned. *)
AllocateBump(p) ==
  /\ pc[p] = "alloc_bump"
  /\ m_begin' = m_begin + arg[p]
  /\ handed' = handed \cup {[from |-> location[p], len |-> arg[p]]}
  /\ pc' = [pc EXCEPT ![p] = "release"]
  /\ UNCHANGED <<sem, arg, location, ret, freed>>

(* SemaphoreLock's destructor: Semaphore::release. *)
Release(p) ==
  /\ pc[p] = "release"
  /\ sem' = sem + 1
  /\ pc' = [pc EXCEPT ![p] = "idle"]
  /\ UNCHANGED <<m_begin, arg, location, ret, handed, freed>>

(* The steps of a call that has begun. *)
ShmStep(p) == Acquire(p) \/ AllocateRead(p) \/ AllocateBump(p) \/ Release(p)

ShmCall(p) ==
  \/ \E n \in Counts : Allocate(p, n)
  \/ \E b \in handed : Deallocate(p, b)
  \/ \E offset \in {Header, Size} : Get(p, offset)

ShmNext == \E p \in Procs : ShmCall(p) \/ ShmStep(p)

ShmSpec == ShmInit /\ [][ShmNext]_shmVars

-----------------------------------------------------------------------------
(* Types.  A semaphore used as a lock stays 0 or 1, and the region's header   *)
(* is never handed out.                                                       *)
ShmTypeOK ==
  /\ m_begin \in Nat /\ m_begin >= Header
  /\ sem \in {0, 1}
  /\ pc \in [Procs -> {"idle"} \cup Waiting \cup Holding]
  /\ arg \in [Procs -> Counts \cup {0}]
  /\ \A p \in Procs : pc[p] \in {"alloc_wait", "alloc_read", "alloc_bump"} => arg[p] \in Counts
  /\ location \in [Procs -> Nat]
  /\ ret \in [Procs -> {"none", "ok", "bad_alloc", "invalid"}]
  /\ handed \subseteq Block
  /\ freed \subseteq handed

(* The semaphore is a lock: it is taken by exactly as many processes as are   *)
(* between acquire and release, whichever way the calls end.                  *)
SemaphoreIsLock == Cardinality({p \in Procs : pc[p] \in Holding}) = 1 - sem

(* Two blocks never overlap, whoever asked for them and whether or not one of *)
(* them has been deallocated: a stale pointer never reaches another object.   *)
BlocksDisjoint ==
  \A a, b \in handed : a = b \/ End(a) <= b.from \/ End(b) <= a.from

(* allocate compares with m_end before it takes the semaphore, so a process   *)
(* can overshoot the region, but only by what the others had been promised.   *)
OvershootBounded ==
  \A b \in handed : \A n \in Counts :
    (\A k \in Counts : k <= n)
      => End(b) < Size + n * (Cardinality(Procs) - 1)
=============================================================================
