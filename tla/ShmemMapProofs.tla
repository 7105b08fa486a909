---------------------------- MODULE ShmemMapProofs ----------------------------
(***************************************************************************)
(* Theorems about SharedMemory, and about ShmemMap, which calls it: for     *)
(* every set of processes and keys, every region and every set of sizes.    *)
(***************************************************************************)
EXTENDS ShmemMap, FiniteSetTheorems, TLAPS

-----------------------------------------------------------------------------
(* The allocator and its semaphore, whoever calls. *)

Holders == {p \in Procs : pc[p] \in Holding}

(* The semaphore as a lock, without counting: free and nobody inside, or      *)
(* taken and exactly one inside.                                              *)
Exclusive ==
  \/ sem = 1 /\ Holders = {}
  \/ sem = 0 /\ \E p \in Procs : Holders = {p}

(* Between its two accesses to m_begin a process sees the same value, and     *)
(* everything handed out lies below it.                                       *)
Fresh ==
  /\ \A p \in Procs : pc[p] = "alloc_bump" => location[p] = m_begin
  /\ \A b \in handed : End(b) <= m_begin

ShmInv == ShmTypeOK /\ Exclusive /\ Fresh /\ BlocksDisjoint

LEMMA ShmInvInit == ShmInit => ShmInv
BY ShmemAssumption
   DEF ShmInit, ShmInv, ShmTypeOK, Exclusive, Holders, Holding, Waiting, Fresh,
       BlocksDisjoint

LEMMA ShmInvStep == ShmInv /\ [ShmNext]_shmVars => ShmInv'
<1> SUFFICES ASSUME ShmInv, [ShmNext]_shmVars PROVE ShmInv'
  OBVIOUS
<1> USE ShmemAssumption DEF ShmInv, ShmTypeOK, Waiting, Holding
<1>idle. ASSUME NEW p \in Procs, pc[p] = "idle",
                \/ UNCHANGED pc
                \/ \E l \in Waiting : pc' = [pc EXCEPT ![p] = l],
                UNCHANGED <<sem, m_begin, location, handed>>
         PROVE  Exclusive' /\ Fresh' /\ BlocksDisjoint'
  <2>1. Holders' = Holders
    BY <1>idle DEF Holders
  <2>2. Exclusive'
    BY <1>idle, <2>1 DEF Exclusive
  <2>3. Fresh' /\ BlocksDisjoint'
    BY <1>idle DEF Fresh, BlocksDisjoint
  <2> QED
    BY <2>2, <2>3
<1>1. ASSUME NEW p \in Procs, NEW n \in Counts, Allocate(p, n) PROVE ShmInv'
  <2>1. ShmTypeOK'
    BY <1>1 DEF Allocate, Throw, Proceed
  <2>2. Exclusive' /\ Fresh' /\ BlocksDisjoint'
    BY <1>1, <1>idle DEF Allocate, Throw, Proceed
  <2> QED
    BY <2>1, <2>2
<1>2. ASSUME NEW p \in Procs, NEW b \in handed, Deallocate(p, b) PROVE ShmInv'
  <2>1. ShmTypeOK'
    BY <1>2 DEF Deallocate, Throw, Proceed
  <2>2. Exclusive' /\ Fresh' /\ BlocksDisjoint'
    BY <1>2, <1>idle DEF Deallocate, Throw, Proceed
  <2> QED
    BY <2>1, <2>2
<1>3. ASSUME NEW p \in Procs, NEW offset \in {Header, Size}, Get(p, offset)
      PROVE  ShmInv'
  <2>1. ShmTypeOK'
    BY <1>3 DEF Get, Throw, Proceed
  <2>2. Exclusive' /\ Fresh' /\ BlocksDisjoint'
    BY <1>3, <1>idle DEF Get, Throw, Proceed
  <2> QED
    BY <2>1, <2>2
<1>4. ASSUME NEW p \in Procs, Acquire(p) PROVE ShmInv'
  <2>1. sem = 1 /\ Holders = {}
    BY <1>4 DEF Acquire, Exclusive
  <2>2. Holders' = {p}
    BY <1>4, <2>1 DEF Acquire, Holders
  <2>3. Exclusive'
    BY <1>4, <2>1, <2>2 DEF Acquire, Exclusive
  <2>4. ShmTypeOK'
    BY <1>4, <2>1 DEF Acquire
  <2>5. Fresh' /\ BlocksDisjoint'
    BY <1>4 DEF Acquire, Fresh, BlocksDisjoint
  <2> QED
    BY <2>3, <2>4, <2>5
<1>5. ASSUME NEW p \in Procs, AllocateRead(p) PROVE ShmInv'
  <2>1. Holders' = Holders
    BY <1>5 DEF AllocateRead, Holders
  <2>2. ShmTypeOK' /\ Exclusive'
    BY <1>5, <2>1 DEF AllocateRead, Exclusive
  <2>3. Fresh' /\ BlocksDisjoint'
    BY <1>5 DEF AllocateRead, Fresh, BlocksDisjoint
  <2> QED
    BY <2>2, <2>3
<1>6. ASSUME NEW p \in Procs, AllocateBump(p) PROVE ShmInv'
  <2> DEFINE new == [from |-> location[p], len |-> arg[p]]
  <2>1. Holders' = Holders
    BY <1>6 DEF AllocateBump, Holders
  <2>2. \A q \in Procs : pc[q] = "alloc_bump" => q = p
    BY <1>6 DEF AllocateBump, Exclusive, Holders
  <2>3. /\ location[p] = m_begin
        /\ arg[p] \in Nat \ {0}
        /\ new \in Block
    BY <1>6 DEF AllocateBump, Fresh, Block
  <2>4. ShmTypeOK' /\ Exclusive'
    BY <1>6, <2>1, <2>3 DEF AllocateBump, Exclusive
  <2>5. End(new) = m_begin' /\ m_begin' > m_begin
    BY <1>6, <2>3 DEF AllocateBump, End
  <2>6. Fresh'
    <3>1. ASSUME NEW b \in handed PROVE End(b) <= m_begin'
      <4>0. b.from \in Nat /\ b.len \in Nat
        BY DEF Block
      <4>1. End(b) \in Int /\ End(b) <= m_begin
        BY <4>0 DEF Fresh, End
      <4>2. m_begin \in Int /\ m_begin' \in Int
        BY <2>4
      <4> HIDE DEF ShmInv, ShmTypeOK
      <4> QED
        BY <2>5, <4>1, <4>2
    <3>2. \A q \in Procs : pc'[q] # "alloc_bump"
      BY <1>6, <2>2 DEF AllocateBump
    <3> QED
      BY <1>6, <2>5, <3>1, <3>2 DEF Fresh, AllocateBump
  <2>7. BlocksDisjoint'
    <3>1. \A b \in handed : End(b) <= new.from
      BY <2>3 DEF Fresh
    <3> QED
      BY <1>6, <3>1 DEF BlocksDisjoint, AllocateBump
  <2> QED
    BY <2>4, <2>6, <2>7
<1>7. ASSUME NEW p \in Procs, Release(p) PROVE ShmInv'
  <2>1. sem = 0 /\ Holders = {p}
    BY <1>7 DEF Release, Exclusive, Holders
  <2>2. Holders' = {}
    BY <1>7, <2>1 DEF Release, Holders
  <2>3. ShmTypeOK' /\ Exclusive'
    BY <1>7, <2>1, <2>2 DEF Release, Exclusive
  <2>4. Fresh' /\ BlocksDisjoint'
    BY <1>7 DEF Release, Fresh, BlocksDisjoint
  <2> QED
    BY <2>3, <2>4
<1>8. CASE UNCHANGED shmVars
  BY <1>8 DEF shmVars, Exclusive, Holders, Fresh, BlocksDisjoint
<1> QED
  BY <1>1, <1>2, <1>3, <1>4, <1>5, <1>6, <1>7, <1>8
     DEF ShmNext, ShmCall, ShmStep

(* Every behaviour keeps the invariant, *)
THEOREM ShmInvariant == ShmSpec => []ShmInv
BY ShmInvInit, ShmInvStep, PTL DEF ShmSpec

(* and with it the types; *)
THEOREM ShmTypeCorrect == ShmSpec => []ShmTypeOK
BY ShmInvariant, PTL DEF ShmInv

(* no byte is ever given to two callers, for any number of processes; *)
THEOREM Disjoint == ShmSpec => []BlocksDisjoint
BY ShmInvariant, PTL DEF ShmInv

(* and the semaphore counts the processes inside the guarded part. *)
THEOREM Lock == ShmSpec => []SemaphoreIsLock
<1>1. ShmInv => SemaphoreIsLock
  <2> SUFFICES ASSUME ShmInv PROVE Cardinality(Holders) = 1 - sem
    BY DEF SemaphoreIsLock, Holders
  <2>1. CASE sem = 1 /\ Holders = {}
    BY <2>1, FS_EmptySet
  <2>2. CASE sem = 0 /\ \E p \in Procs : Holders = {p}
    BY <2>2, FS_Singleton
  <2> QED
    BY <2>1, <2>2 DEF ShmInv, Exclusive
<1> QED
  BY <1>1, ShmInvariant, PTL

-----------------------------------------------------------------------------
(* The map over it. *)
Inside == {p \in Procs : mpc[p] \in MapHolding}

(* The map's semaphore is free and nobody inside, or taken and one inside.   *)
MapExclusive ==
  \/ mapSem = 1 /\ Inside = {}
  \/ mapSem = 0 /\ \E p \in Procs : Inside = {p}

(* Which SharedMemory call a process can be in at each place of a Map call.  *)
Stage(p) ==
  /\ mpc[p] \in {"wait", "body", "unlock", "aborted", "exited", "died"} => pc[p] = "idle"
  /\ mpc[p] = "new" =>
       /\ pc[p] \in {"idle", "alloc_wait", "alloc_read", "alloc_bump", "release"}
       /\ ret[p] \in {"ok", "bad_alloc"}
       /\ pc[p] # "idle" => ret[p] = "ok"
       /\ ret[p] = "ok" => arg[p] = NodeLen
  /\ mpc[p] = "drop" =>
       /\ pc[p] \in {"idle", "dealloc_wait", "release"}
       /\ ret[p] \in {"ok", "invalid"}
  /\ mpc[p] = "out" /\ pc[p] \in {"alloc_wait", "alloc_read", "alloc_bump"} => arg[p] # NodeLen

Stages ==
  /\ mpc \in [Procs -> {"out", "wait", "body", "new", "drop", "unlock",
                        "aborted", "exited", "died"}]
  /\ \A p \in Procs : Stage(p)

(* A node p has been given and has not yet put into the map. *)
Carries(p) == mpc[p] = "new" /\ pc[p] \in {"release", "idle"} /\ ret[p] = "ok"

(* A node was refused by deallocate, which is the end of p. *)
Refused(p) == mpc[p] = "aborted" \/ (mpc[p] = "drop" /\ ret[p] = "invalid")

(* Every node that was not given back is in the map under one key, or with    *)
(* the process that carries it, or was refused.                               *)
InMap ==
  /\ \A k \in DOMAIN nodes : nodes[k] \in handed \ freed /\ nodes[k].len = NodeLen
  /\ \A j, k \in DOMAIN nodes : nodes[j] = nodes[k] => j = k

Carried ==
  \A p \in Procs : Carries(p) =>
    /\ Returned(p) \in handed \ freed
    /\ \A k \in DOMAIN nodes : nodes[k] # Returned(p)

Accounted ==
  \A b \in handed \ freed : b.len = NodeLen =>
    \/ \E k \in DOMAIN nodes : nodes[k] = b
    \/ \E p \in Procs : Carries(p) /\ b = Returned(p)
    \/ \E p \in Procs : Refused(p)

Overshot == \E b \in handed : b.len = NodeLen /\ End(b) >= Size

Blamed == \A p \in Procs : Refused(p) \/ mpc[p] = "died" => Overshot

MapInv ==
  /\ ShmInv
  /\ MapExclusive
  /\ Stages
  /\ InMap
  /\ Carried
  /\ Accounted
  /\ Blamed

-----------------------------------------------------------------------------
LEMMA MapInvInit == Init => MapInv
<1> SUFFICES ASSUME Init PROVE MapInv
  OBVIOUS
<1>1. ShmInv
  BY ShmInvInit DEF Init
<1>2. MapExclusive
  BY DEF Init, MapExclusive, Inside, MapHolding
<1>3. Stages
  BY DEF Init, ShmInit, Stages, Stage
<1>4. InMap /\ Carried /\ Accounted /\ Blamed
  BY DEF Init, ShmInit, InMap, Carried, Carries, Accounted, Blamed, Refused
<1> QED
  BY <1>1, <1>2, <1>3, <1>4 DEF MapInv

(* A step of SharedMemory keeps its invariant, whatever the map does.         *)
LEMMA ShmKept == ASSUME MapInv, [ShmNext]_shmVars PROVE ShmInv'
BY ShmInvStep DEF MapInv

(* The holder of the map's semaphore is alone. *)
LEMMA Alone ==
  ASSUME MapInv, NEW p \in Procs, mpc[p] \in MapHolding
  PROVE  /\ mapSem = 0
         /\ Inside = {p}
         /\ \A q \in Procs : mpc[q] \in MapHolding => q = p
BY DEF MapInv, MapExclusive, Inside

(* A step that moves p between two places inside, or two places outside.      *)
LEMMA SameInside ==
  ASSUME MapInv, NEW p \in Procs, NEW l,
         mpc' = [mpc EXCEPT ![p] = l], mapSem' = mapSem,
         mpc[p] \in MapHolding <=> l \in MapHolding
  PROVE  MapExclusive'
<1>1. Inside' = Inside
  BY DEF Inside, MapInv, Stages
<1> QED
  BY <1>1 DEF MapExclusive, MapInv

(* A step after which the same blocks are live, the same nodes are in the     *)
(* map, and everybody carries and is blamed for the same.                     *)
LEMMA SameNodes ==
  ASSUME MapInv,
         UNCHANGED <<nodes, handed, freed>>,
         \A q \in Procs : /\ Carries(q)' <=> Carries(q)
                          /\ Carries(q) => Returned(q)' = Returned(q)
                          /\ Refused(q)' <=> Refused(q)
                          /\ mpc'[q] = "died" => mpc[q] = "died"
  PROVE  InMap' /\ Carried' /\ Accounted' /\ Blamed'
<1>1. InMap'
  BY DEF MapInv, InMap
<1>2. Carried'
  BY DEF MapInv, Carried
<1>3. Accounted'
  BY DEF MapInv, Accounted
<1>4. Blamed'
  BY DEF MapInv, Blamed, Overshot
<1> QED
  BY <1>1, <1>2, <1>3, <1>4

LEMMA MapCallStep ==
  ASSUME MapInv, NEW p \in Procs, NEW kind, NEW k, MapCall(p, kind, k)
  PROVE  MapInv'
<1>1. ShmInv'
  BY ShmKept DEF MapCall
<1>2. MapExclusive'
  BY SameInside DEF MapCall, MapGoto, MapHolding
<1>3. Stages'
  BY DEF MapInv, Stages, Stage, MapCall, MapGoto, shmVars
<1>4. InMap' /\ Carried' /\ Accounted' /\ Blamed'
  BY SameNodes DEF MapInv, Stages, MapCall, MapGoto, shmVars, Carries, Refused, Returned
<1> QED
  BY <1>1, <1>2, <1>3, <1>4 DEF MapInv

LEMMA MapAcquireStep ==
  ASSUME MapInv, NEW p \in Procs, MapAcquire(p)
  PROVE  MapInv'
<1>1. ShmInv'
  BY ShmKept DEF MapAcquire
<1>2. mapSem = 1 /\ Inside = {}
  BY DEF MapInv, MapExclusive, MapAcquire
<1>3. Inside' = {p}
  BY <1>2 DEF MapInv, Stages, MapAcquire, MapGoto, MapHolding, Inside
<1>4. MapExclusive'
  BY <1>2, <1>3 DEF MapExclusive, MapAcquire
<1>5. Stages'
  BY DEF MapInv, Stages, Stage, MapAcquire, MapGoto, shmVars
<1>6. InMap' /\ Carried' /\ Accounted' /\ Blamed'
  BY SameNodes DEF MapInv, Stages, MapAcquire, MapGoto, shmVars, Carries, Refused, Returned
<1> QED
  BY <1>1, <1>4, <1>5, <1>6 DEF MapInv

LEMMA MapReleaseStep ==
  ASSUME MapInv, NEW p \in Procs, MapRelease(p)
  PROVE  MapInv'
<1>1. ShmInv'
  BY ShmKept DEF MapRelease
<1>2. mapSem = 0 /\ Inside = {p}
  BY Alone DEF MapRelease, MapHolding
<1>3. Inside' = {}
  BY <1>2 DEF MapInv, Stages, MapRelease, MapGoto, MapHolding, Inside
<1>4. MapExclusive'
  BY <1>2, <1>3 DEF MapExclusive, MapRelease
<1>5. Stages'
  BY DEF MapInv, Stages, Stage, MapRelease, MapGoto, shmVars
<1>6. InMap' /\ Carried' /\ Accounted' /\ Blamed'
  BY SameNodes DEF MapInv, Stages, MapRelease, MapGoto, shmVars, Carries, Refused, Returned
<1> QED
  BY <1>1, <1>4, <1>5, <1>6 DEF MapInv

LEMMA MapDropStep ==
  ASSUME MapInv, NEW p \in Procs, MapDrop(p)
  PROVE  MapInv'
<1>1. ShmInv'
  BY ShmKept DEF MapDrop
<1>2. MapExclusive'
  BY SameInside DEF MapDrop, MapGoto, MapHolding
<1>3. Stages'
  BY DEF MapInv, Stages, Stage, MapDrop, MapGoto, shmVars
<1>4. InMap' /\ Carried' /\ Accounted' /\ Blamed'
  BY SameNodes DEF MapInv, Stages, MapDrop, MapGoto, shmVars, Carries, Refused, Returned
<1> QED
  BY <1>1, <1>2, <1>3, <1>4 DEF MapInv

LEMMA ChildExitStep ==
  ASSUME MapInv, NEW p \in Procs, ChildExit(p)
  PROVE  MapInv'
<1>1. ShmInv'
  BY ShmKept DEF ChildExit
<1>2. MapExclusive'
  BY SameInside DEF ChildExit, MapGoto, MapHolding
<1>3. Stages'
  BY DEF MapInv, Stages, Stage, ChildExit, MapGoto, shmVars
<1>4. InMap' /\ Carried' /\ Accounted' /\ Blamed'
  BY SameNodes DEF MapInv, Stages, ChildExit, MapGoto, shmVars, Carries, Refused, Returned
<1> QED
  BY <1>1, <1>2, <1>3, <1>4 DEF MapInv

(* Deallocate of b by p, seen from outside: b is given back, or refused       *)
(* because it reaches the end of the region.                                  *)
LEMMA DeallocateStep ==
  ASSUME MapInv, NEW p \in Procs, NEW b \in handed, Deallocate(p, b)
  PROVE  /\ pc[p] = "idle"
         /\ b \notin freed
         /\ UNCHANGED <<arg, location, handed>>
         /\ \A q \in Procs \ {p} : pc'[q] = pc[q] /\ ret'[q] = ret[q]
         /\ \/ /\ pc'[p] = "dealloc_wait" /\ ret'[p] = "ok"
               /\ freed' = freed \cup {b}
            \/ /\ pc'[p] = "idle" /\ ret'[p] = "invalid"
               /\ freed' = freed
               /\ End(b) >= Size
<1> USE ShmemAssumption DEF MapInv, ShmInv, ShmTypeOK
<1>1. b.from \in Nat /\ b.len \in Nat \ {0} /\ m_begin \in Nat
  BY DEF Block
<1>2. b.from < m_begin
  <2>1. End(b) <= m_begin
    BY DEF Fresh
  <2> QED
    BY <1>1, <2>1 DEF End
<1>3. ~(b.from >= m_begin)
  <2> HIDE DEF MapInv, ShmInv, ShmTypeOK
  <2> QED
    BY <1>1, <1>2
<1> QED
  BY <1>3 DEF Deallocate, Throw, Proceed

(* emplace, insert and operator[] begin to make a node. *)
LEMMA MapBodyMakes ==
  ASSUME MapInv, NEW p \in Procs, mpc[p] = "body",
         Allocate(p, NodeLen), mpc' = [mpc EXCEPT ![p] = "new"],
         UNCHANGED <<mapSem, nodes>>
  PROVE  MapInv'
<1>1. ShmInv'
  <2>1. ShmCall(p)
    BY MapAssumption DEF ShmCall
  <2> QED
    BY <2>1, ShmKept DEF ShmNext
<1>2. MapExclusive'
  BY SameInside DEF MapHolding
<1>3. /\ UNCHANGED <<location, handed, freed>>
      /\ \/ pc' = pc /\ arg' = arg /\ ret' = [ret EXCEPT ![p] = "bad_alloc"]
         \/ /\ pc' = [pc EXCEPT ![p] = "alloc_wait"]
            /\ arg' = [arg EXCEPT ![p] = NodeLen]
            /\ ret' = [ret EXCEPT ![p] = "ok"]
      /\ pc[p] = "idle"
  BY DEF Allocate, Throw, Proceed
<1>4. pc \in [Procs -> {"idle"} \cup Waiting \cup Holding]
      /\ DOMAIN ret = Procs /\ DOMAIN arg = Procs /\ DOMAIN mpc = Procs
  BY DEF MapInv, ShmInv, ShmTypeOK, Stages
<1>5. Stages'
  BY <1>3, <1>4 DEF MapInv, Stages, Stage
<1>6. InMap' /\ Carried' /\ Accounted' /\ Blamed'
  BY <1>3, <1>4, SameNodes DEF Carries, Refused, Returned
<1> QED
  BY <1>1, <1>2, <1>5, <1>6 DEF MapInv

(* p gives back a block b with the map's semaphore in its hands; afterwards   *)
(* the map has every node but b.                                              *)
LEMMA GiveBack ==
  ASSUME MapInv, NEW p \in Procs, mpc[p] \in {"body", "new"},
         NEW b \in handed, b.len = NodeLen, Deallocate(p, b),
         mpc' = [mpc EXCEPT ![p] = "drop"], mapSem' = mapSem,
         \A q \in Procs : Carries(q) => b = Returned(q),
         DOMAIN nodes' \subseteq DOMAIN nodes,
         \A k \in DOMAIN nodes' : nodes'[k] = nodes[k] /\ nodes[k] # b,
         \A k \in DOMAIN nodes : nodes[k] # b => k \in DOMAIN nodes'
  PROVE  MapInv'
<1>1. ShmInv'
  <2>1. ShmCall(p)
    BY DEF ShmCall
  <2> QED
    BY <2>1, ShmKept DEF ShmNext
<1>2. MapExclusive'
  BY SameInside DEF MapHolding
<1>3. DOMAIN mpc = Procs
  BY DEF MapInv, Stages
<1> DEFINE back == /\ pc'[p] = "dealloc_wait" /\ ret'[p] = "ok"
                   /\ freed' = freed \cup {b}
           refused == /\ pc'[p] = "idle" /\ ret'[p] = "invalid"
                      /\ freed' = freed /\ End(b) >= Size
<1>4. /\ UNCHANGED <<arg, location, handed>>
      /\ \A q \in Procs \ {p} : pc'[q] = pc[q] /\ ret'[q] = ret[q]
      /\ back \/ refused
  BY DeallocateStep
<1>5. \A q \in Procs : mpc[q] \in MapHolding => q = p
  BY Alone DEF MapHolding
<1>6. \A q \in Procs : ~Carries(q)'
  BY <1>3, <1>5 DEF Carries, MapHolding
<1>7. \A q \in Procs : q # p => (Refused(q)' <=> Refused(q))
  BY <1>3, <1>4 DEF Refused
<1>8. Stages'
  BY <1>3, <1>4 DEF MapInv, Stages, Stage
<1>9. InMap'
  BY <1>4 DEF MapInv, InMap
<1>10. Carried'
  BY <1>6 DEF Carried
<1>11. Accounted'
  <2>1. CASE refused
    <3>1. Refused(p)'
      BY <1>3, <2>1 DEF Refused
    <3> QED
      BY <3>1 DEF Accounted
  <2>2. CASE back
    <3> SUFFICES ASSUME NEW c \in handed \ (freed \cup {b}), c.len = NodeLen,
                        ~ \E k \in DOMAIN nodes' : nodes'[k] = c
                 PROVE  \E q \in Procs : Refused(q)'
      BY <1>4, <2>2 DEF Accounted
    <3>1. ~ \E k \in DOMAIN nodes : nodes[k] = c
      OBVIOUS
    <3>2. PICK q \in Procs : Refused(q)
      BY <3>1 DEF MapInv, Accounted
    <3>3. q # p
      BY <3>2 DEF Refused
    <3> QED
      BY <1>7, <3>2, <3>3
  <2> QED
    BY <1>4, <2>1, <2>2
<1>12. Blamed'
  <2>1. Overshot => Overshot'
    BY <1>4 DEF Overshot
  <2>2. Refused(p)' => Overshot'
    <3>1. CASE refused
      BY <1>4, <3>1 DEF Overshot
    <3>2. CASE back
      BY <1>3, <3>2 DEF Refused
    <3> QED
      BY <1>4, <3>1, <3>2
  <2>3. \A q \in Procs : mpc'[q] = "died" => mpc[q] = "died"
    BY <1>3
  <2> QED
    BY <1>7, <2>1, <2>2, <2>3 DEF MapInv, Blamed
<1> QED
  BY <1>1, <1>2, <1>8, <1>9, <1>10, <1>11, <1>12 DEF MapInv

LEMMA MapBodyStep ==
  ASSUME MapInv, NEW p \in Procs, MapBody(p)
  PROVE  MapInv'
<1>1. CASE Makes(p) /\ Allocate(p, NodeLen) /\ MapGoto(p, "new") /\ UNCHANGED nodes
  BY <1>1, MapBodyMakes DEF MapBody, MapGoto
<1>2. CASE /\ Drops(p) /\ Deallocate(p, nodes[op[p].key])
           /\ nodes' = Remove(nodes, op[p].key) /\ MapGoto(p, "drop")
  <2> DEFINE key == op[p].key
             b == nodes[key]
  <2>1. key \in DOMAIN nodes /\ b \in handed /\ b.len = NodeLen
    BY <1>2 DEF Drops, MapInv, InMap
  <2>2. /\ DOMAIN nodes' = DOMAIN nodes \ {key}
        /\ \A k \in DOMAIN nodes \ {key} : nodes'[k] = nodes[k]
        /\ \A k \in DOMAIN nodes : nodes[k] # b => k \in DOMAIN nodes'
    BY <1>2 DEF Remove
  <2>3. \A k \in DOMAIN nodes \ {key} : nodes[k] # b
    BY <2>1 DEF MapInv, InMap
  <2>4. \A q \in Procs : ~Carries(q)
    BY Alone DEF MapBody, MapHolding, Carries
  <2>5. mpc[p] = "body" /\ mapSem' = mapSem /\ mpc' = [mpc EXCEPT ![p] = "drop"]
    BY <1>2 DEF MapBody, MapGoto
  <2>6. Deallocate(p, b)
    BY <1>2
  <2> HIDE DEF b, key
  <2> QED
    BY <2>1, <2>2, <2>3, <2>4, <2>5, <2>6, GiveBack
<1>3. CASE ~Makes(p) /\ ~Drops(p) /\ MapGoto(p, "unlock") /\ UNCHANGED <<shmVars, nodes>>
  <2>1. ShmInv'
    BY <1>3, ShmKept
  <2>2. MapExclusive'
    BY <1>3, SameInside DEF MapBody, MapGoto, MapHolding
  <2>3. Stages'
    BY <1>3 DEF MapInv, Stages, Stage, MapBody, MapGoto, shmVars
  <2>4. InMap' /\ Carried' /\ Accounted' /\ Blamed'
    BY <1>3, SameNodes
       DEF MapInv, Stages, MapBody, MapGoto, shmVars, Carries, Refused, Returned
  <2> QED
    BY <2>1, <2>2, <2>3, <2>4 DEF MapInv
<1> QED
  BY <1>1, <1>2, <1>3 DEF MapBody

(* A map with one more node, for a key that was not there. *)
Adds(k, b) ==
  /\ DOMAIN nodes' = DOMAIN nodes \cup {k}
  /\ nodes'[k] = b
  /\ \A j \in DOMAIN nodes : nodes'[j] = nodes[j]

LEMMA MapNewKeeps ==
  ASSUME MapInv, NEW p \in Procs, Carries(p), NEW k, k \notin DOMAIN nodes,
         Adds(k, Returned(p)), UNCHANGED shmVars,
         mpc' = [mpc EXCEPT ![p] = "unlock"], pc[p] = "idle", mapSem' = mapSem
  PROVE  MapInv'
<1> DEFINE b == Returned(p)
<1>1. ShmInv'
  BY ShmKept
<1>2. MapExclusive'
  BY SameInside DEF MapHolding, Carries
<1>3. DOMAIN mpc = Procs
  BY DEF MapInv, Stages
<1>4. \A q \in Procs : ~Carries(q)'
  <2>1. \A q \in Procs : mpc[q] \in MapHolding => q = p
    BY Alone DEF MapHolding, Carries
  <2> QED
    BY <1>3, <2>1 DEF Carries, MapHolding
<1>5. \A q \in Procs : Refused(q)' <=> Refused(q)
  BY <1>3 DEF Refused, Carries, shmVars
<1>6. /\ b \in handed \ freed
      /\ b.len = NodeLen
      /\ \A j \in DOMAIN nodes : nodes[j] # b
  BY DEF MapInv, Carried, Carries, Stages, Stage, Returned
<1>7. Stages'
  BY DEF MapInv, Stages, Stage, shmVars
<1>8. InMap'
  BY <1>6 DEF MapInv, InMap, Adds, shmVars
<1>9. Carried'
  BY <1>4 DEF Carried
<1>10. Accounted'
  <2> SUFFICES ASSUME NEW c \in handed \ freed, c.len = NodeLen,
                      ~ \E j \in DOMAIN nodes' : nodes'[j] = c
               PROVE  \E q \in Procs : Refused(q)'
    BY DEF Accounted, shmVars
  <2>1. c # b /\ ~ \E j \in DOMAIN nodes : nodes[j] = c
    BY DEF Adds
  <2>2. \A q \in Procs : Carries(q) => q = p
    BY Alone DEF MapHolding, Carries
  <2>3. \E q \in Procs : Refused(q)
    BY <2>1, <2>2 DEF MapInv, Accounted
  <2> QED
    BY <1>5, <2>3
<1>11. Blamed'
  BY <1>3, <1>5 DEF MapInv, Blamed, Overshot, shmVars
<1> QED
  BY <1>1, <1>2, <1>7, <1>8, <1>9, <1>10, <1>11 DEF MapInv

LEMMA MapNewStep ==
  ASSUME MapInv, NEW p \in Procs, MapNew(p)
  PROVE  MapInv'
<1> DEFINE b == Returned(p)
           key == op[p].key
<1>1. CASE ret[p] = "bad_alloc" /\ MapGoto(p, "unlock") /\ UNCHANGED <<shmVars, nodes>>
  <2>1. ShmInv'
    BY <1>1, ShmKept
  <2>2. MapExclusive'
    BY <1>1, SameInside DEF MapNew, MapGoto, MapHolding
  <2>3. Stages'
    BY <1>1 DEF MapInv, Stages, Stage, MapNew, MapGoto, shmVars
  <2>4. InMap' /\ Carried' /\ Accounted' /\ Blamed'
    BY <1>1, SameNodes
       DEF MapInv, Stages, MapNew, MapGoto, shmVars, Carries, Refused, Returned
  <2> QED
    BY <2>1, <2>2, <2>3, <2>4 DEF MapInv
<1>2. CASE /\ ret[p] = "ok" /\ key \notin DOMAIN nodes
           /\ nodes' = Put(nodes, key, b)
           /\ MapGoto(p, "unlock") /\ UNCHANGED shmVars
  <2>1. Carries(p) /\ pc[p] = "idle" /\ mapSem' = mapSem
    BY <1>2 DEF MapNew, Carries
  <2>2. Adds(key, b)
    BY <1>2 DEF Adds, Put
  <2> QED
    BY <1>2, <2>1, <2>2, MapNewKeeps DEF MapGoto
<1>3. CASE /\ ret[p] = "ok" /\ key \in DOMAIN nodes
           /\ Deallocate(p, b) /\ MapGoto(p, "drop") /\ UNCHANGED nodes
  <2>1. Carries(p) /\ mpc[p] = "new" /\ mapSem' = mapSem
    BY <1>3 DEF MapNew, Carries
  <2>2. \A q \in Procs : Carries(q) => q = p
    BY <2>1, Alone DEF MapHolding, Carries
  <2>3. /\ b \in handed
        /\ b.len = NodeLen
        /\ \A k \in DOMAIN nodes : nodes[k] # b
    BY <2>1 DEF MapInv, Carried, Carries, Stages, Stage, Returned
  <2>4. mpc' = [mpc EXCEPT ![p] = "drop"] /\ Deallocate(p, b) /\ nodes' = nodes
    BY <1>3 DEF MapGoto
  <2>5. \A q \in Procs : Carries(q) => b = Returned(q)
    BY <2>2
  <2> HIDE DEF b
  <2> QED
    BY <2>1, <2>3, <2>4, <2>5, GiveBack
<1> QED
  BY <1>1, <1>2, <1>3 DEF MapNew

(* A block that is not a node is given back. *)
LEMMA OwnDeallocate ==
  ASSUME MapInv, NEW p \in Procs, mpc[p] = "out",
         NEW b \in handed, b.len # NodeLen, Deallocate(p, b),
         UNCHANGED mapVars
  PROVE  MapInv'
<1>1. ShmInv'
  <2>1. ShmCall(p)
    BY DEF ShmCall
  <2> QED
    BY <2>1, ShmKept DEF ShmNext
<1>2. MapExclusive'
  BY DEF MapInv, MapExclusive, Inside, mapVars
<1>3. /\ UNCHANGED <<arg, location, handed>>
      /\ \A q \in Procs \ {p} : pc'[q] = pc[q] /\ ret'[q] = ret[q]
      /\ pc'[p] \in {"idle", "dealloc_wait"}
      /\ freed' = freed \/ freed' = freed \cup {b}
  BY DeallocateStep
<1>4. UNCHANGED <<mpc, nodes, arg, location, handed>>
  BY <1>3 DEF mapVars
<1>5. Stages'
  BY <1>3, <1>4 DEF MapInv, Stages, Stage
<1>6. \A q \in Procs : (Carries(q)' <=> Carries(q)) /\ (Refused(q)' <=> Refused(q))
  BY <1>3, <1>4 DEF Carries, Refused
<1>7. \A q \in Procs : Returned(q)' = Returned(q)
  BY <1>4 DEF Returned
<1>8. \A q \in Procs : Carries(q) => Returned(q).len = NodeLen
  BY DEF Carries, MapInv, Stages, Stage, Returned
<1>9. InMap'
  BY <1>3, <1>4 DEF MapInv, InMap
<1>10. Carried'
  BY <1>3, <1>4, <1>6, <1>7, <1>8 DEF MapInv, Carried
<1>11. Accounted'
  BY <1>3, <1>4, <1>6, <1>7 DEF MapInv, Accounted
<1>12. Blamed'
  BY <1>4, <1>6 DEF MapInv, Blamed, Overshot
<1> QED
  BY <1>1, <1>2, <1>5, <1>9, <1>10, <1>11, <1>12 DEF MapInv

LEMMA OwnCallStep ==
  ASSUME MapInv, NEW p \in Procs, OwnCall(p)
  PROVE  MapInv'
<1> USE DEF OwnCall
<1>1. ASSUME \/ \E n \in Counts \ {NodeLen} : Allocate(p, n)
             \/ \E offset \in {Header, Size} : Get(p, offset)
      PROVE  MapInv'
  <2>1. ShmInv'
    <3>1. ShmCall(p)
      BY <1>1 DEF ShmCall
    <3> QED
      BY <3>1, ShmKept DEF ShmNext
  <2>2. MapExclusive'
    BY DEF MapInv, MapExclusive, Inside, mapVars
  <2>3. /\ UNCHANGED <<location, handed, freed, nodes, mpc>>
        /\ \A q \in Procs \ {p} : pc'[q] = pc[q] /\ ret'[q] = ret[q] /\ arg'[q] = arg[q]
        /\ pc'[p] \in {"idle", "get_wait"} \/ (pc'[p] = "alloc_wait" /\ arg'[p] # NodeLen)
    BY <1>1 DEF Allocate, Get, Throw, Proceed, mapVars, MapInv, ShmInv, ShmTypeOK
  <2>4. Stages'
    BY <2>3 DEF MapInv, Stages, Stage
  <2>5. InMap' /\ Carried' /\ Accounted' /\ Blamed'
    BY <2>3, SameNodes DEF Carries, Refused, Returned
  <2> QED
    BY <2>1, <2>2, <2>4, <2>5 DEF MapInv
<1>2. CASE \E b \in {x \in handed : x.len # NodeLen} : Deallocate(p, b)
  BY <1>2, OwnDeallocate
<1> QED
  BY <1>1, <1>2

LEMMA DestroyStep ==
  ASSUME MapInv, Destroy
  PROVE  MapInv'
<1> USE MapAssumption
<1> DEFINE given == {nodes[k] : k \in DOMAIN nodes}
<1>1. given \subseteq handed
  BY DEF MapInv, InMap
<1>2. CASE /\ \E k \in DOMAIN nodes : End(nodes[k]) >= Size
           /\ MapGoto(Owner, "died")
           /\ UNCHANGED <<nodes, freed>>
  <2>1. UNCHANGED shmVars
    BY <1>2 DEF Destroy, shmVars
  <2>2. MapExclusive'
    BY <1>2, SameInside DEF Destroy, MapGoto, MapHolding
  <2>3. Stages'
    BY <1>2, <2>1 DEF MapInv, Stages, Stage, Destroy, MapGoto, shmVars
  <2>4. Overshot
    BY <1>2 DEF Overshot, MapInv, InMap
  <2>5. \A q \in Procs : /\ Carries(q)' <=> Carries(q)
                         /\ Refused(q)' <=> Refused(q)
                         /\ Returned(q)' = Returned(q)
    BY <1>2, <2>1 DEF MapInv, Stages, Destroy, MapGoto, shmVars, Carries, Refused, Returned
  <2>6. InMap' /\ Carried' /\ Accounted'
    BY <1>2, <2>1, <2>5 DEF MapInv, InMap, Carried, Accounted, shmVars
  <2>7. Blamed'
    BY <2>1, <2>4 DEF Blamed, Overshot, shmVars
  <2> QED
    BY <2>1, <2>2, <2>3, <2>6, <2>7, ShmKept DEF MapInv
<1>3. CASE /\ freed' = freed \cup given
           /\ nodes' = <<>>
           /\ MapGoto(Owner, "exited")
  <2>1. UNCHANGED <<m_begin, sem, pc, arg, location, ret, handed>>
    BY DEF Destroy
  <2>2. ShmInv'
    BY <1>1, <1>3, <2>1
       DEF MapInv, ShmInv, ShmTypeOK, Exclusive, Holders, Fresh, BlocksDisjoint
  <2>3. MapExclusive'
    BY <1>3, SameInside DEF Destroy, MapGoto, MapHolding
  <2>4. Stages'
    BY <1>3, <2>1 DEF MapInv, Stages, Stage, Destroy, MapGoto
  <2>5. \A q \in Procs : /\ Carries(q)' <=> Carries(q)
                         /\ Refused(q)' <=> Refused(q)
                         /\ Returned(q)' = Returned(q)
                         /\ mpc'[q] = "died" => mpc[q] = "died"
    BY <1>3, <2>1 DEF MapInv, Stages, Destroy, MapGoto, Carries, Refused, Returned
  <2>6. InMap'
    BY <1>3 DEF InMap
  <2>7. Carried'
    BY <1>3, <2>1, <2>5 DEF MapInv, Carried
  <2>8. Accounted'
    BY <1>3, <2>1, <2>5 DEF MapInv, Accounted
  <2>9. Blamed'
    BY <2>1, <2>5 DEF MapInv, Blamed, Overshot
  <2> QED
    BY <2>2, <2>3, <2>4, <2>6, <2>7, <2>8, <2>9 DEF MapInv
<1> QED
  BY <1>2, <1>3 DEF Destroy

(* The steps of a SharedMemory call. *)
LEMMA NestedStep ==
  ASSUME MapInv, NEW p \in Procs, Nested(p)
  PROVE  MapInv'
<1> USE DEF Nested
<1>1. ShmInv'
  BY ShmKept DEF ShmNext
<1>2. MapExclusive'
  BY DEF MapInv, MapExclusive, Inside, mapVars
<1>3. UNCHANGED <<mpc, nodes, ret, arg, freed>>
  BY DEF ShmStep, Acquire, AllocateRead, AllocateBump, Release, mapVars
<1>4. pc \in [Procs -> {"idle"} \cup Waiting \cup Holding]
  BY DEF MapInv, ShmInv, ShmTypeOK
<1>5. Stages'
  BY <1>3, <1>4
     DEF MapInv, Stages, Stage, ShmStep, Acquire, AllocateRead, AllocateBump, Release, Waiting
<1>6. CASE Acquire(p) \/ AllocateRead(p) \/ Release(p)
  <2>1. UNCHANGED <<handed, nodes, freed>>
    BY <1>3, <1>6 DEF Acquire, AllocateRead, Release
  <2>2. ASSUME NEW q \in Procs PROVE Carries(q)' <=> Carries(q)
    <3>1. CASE q # p
      BY <1>3, <1>4, <1>6, <3>1 DEF Carries, Acquire, AllocateRead, Release
    <3>2. CASE q = p
      BY <1>3, <1>4, <1>6, <3>2
         DEF Carries, Acquire, AllocateRead, Release, Waiting, MapInv, Stages, Stage
    <3> QED
      BY <3>1, <3>2
  <2>3. ASSUME NEW q \in Procs, Carries(q) PROVE Returned(q)' = Returned(q)
    <3>1. location'[q] = location[q]
      BY <1>6, <2>3
         DEF Carries, Acquire, AllocateRead, Release, MapInv, ShmInv, ShmTypeOK
    <3> QED
      BY <1>3, <3>1 DEF Returned
  <2>4. \A q \in Procs : Refused(q)' <=> Refused(q)
    BY <1>3 DEF Refused
  <2>5. InMap' /\ Carried' /\ Accounted' /\ Blamed'
    BY <1>3, <2>1, <2>2, <2>3, <2>4, SameNodes
  <2> QED
    BY <1>1, <1>2, <1>5, <2>5 DEF MapInv
<1>7. CASE AllocateBump(p)
  <2> DEFINE b == Returned(p)
  <2>1. /\ handed' = handed \cup {b}
        /\ location' = location
        /\ pc[p] = "alloc_bump" /\ pc' = [pc EXCEPT ![p] = "release"]
    BY <1>7 DEF AllocateBump, Returned
  <2>2. /\ b \notin handed
        /\ b \notin freed
        /\ b.len = arg[p]
    <3>1. b.from = m_begin /\ b.len = arg[p] /\ arg[p] \in Nat \ {0} /\ m_begin \in Nat
      BY <2>1, ShmemAssumption DEF MapInv, ShmInv, ShmTypeOK, Fresh, Returned
    <3>2. End(b) > m_begin
      BY <3>1 DEF End
    <3>3. \A c \in handed : End(c) <= m_begin
      BY DEF MapInv, ShmInv, Fresh
    <3>4. End(b) \in Int /\ m_begin \in Int /\ ~(End(b) <= m_begin)
      BY <3>1 DEF End
    <3> QED
      BY <3>1, <3>3, <3>4 DEF MapInv, ShmInv, ShmTypeOK
  <2>3. mpc[p] \in {"out", "new"}
    BY <2>1 DEF MapInv, Stages, Stage
  <2>4. \A q \in Procs : Returned(q)' = Returned(q) /\ (Refused(q)' <=> Refused(q))
    BY <1>3, <2>1 DEF Returned, Refused
  <2>5. \A q \in Procs : q # p => (Carries(q)' <=> Carries(q))
    BY <1>3, <1>4, <2>1 DEF Carries
  <2>6. InMap'
    BY <1>3, <2>1 DEF MapInv, InMap
  <2>7. Carried'
    <3>1. ASSUME NEW q \in Procs, Carries(q)', q # p
          PROVE  /\ Returned(q) \in (handed \cup {b}) \ freed
                 /\ \A k \in DOMAIN nodes : nodes[k] # Returned(q)
      BY <2>5, <3>1 DEF MapInv, Carried
    <3>2. \A k \in DOMAIN nodes : nodes[k] # b
      BY <2>2 DEF MapInv, InMap
    <3> QED
      BY <1>3, <2>1, <2>2, <2>4, <3>1, <3>2 DEF Carried
  <2>8. Accounted'
    <3>1. b.len = NodeLen => Carries(p)'
      BY <1>3, <1>4, <2>1, <2>2, <2>3 DEF Carries, MapInv, Stages, Stage
    <3>2. \A q \in Procs : Carries(q) => Carries(q)'
      BY <2>1, <2>5 DEF Carries
    <3>3. \A c \in handed \ freed : c.len = NodeLen =>
            \/ \E k \in DOMAIN nodes : nodes[k] = c
            \/ \E q \in Procs : Carries(q)' /\ c = Returned(q)
            \/ \E q \in Procs : Refused(q)
      BY <3>2 DEF MapInv, Accounted
    <3> QED
      BY <1>3, <2>1, <2>4, <3>1, <3>3 DEF Accounted
  <2>9. Blamed'
    <3>1. Overshot => Overshot'
      BY <2>1 DEF Overshot
    <3> QED
      BY <1>3, <2>4, <3>1 DEF MapInv, Blamed
  <2> QED
    BY <1>1, <1>2, <1>5, <2>6, <2>7, <2>8, <2>9 DEF MapInv
<1> QED
  BY <1>6, <1>7 DEF ShmStep

LEMMA MapInvStep == MapInv /\ [Next]_vars => MapInv'
<1> SUFFICES ASSUME MapInv, [Next]_vars PROVE MapInv'
  OBVIOUS
<1>1. CASE UNCHANGED vars
  <2>1. ShmInv'
    BY <1>1, ShmKept DEF vars
  <2>2. MapExclusive' /\ Stages' /\ InMap' /\ Carried' /\ Accounted' /\ Blamed'
    BY <1>1 DEF vars, shmVars, mapVars, MapInv, MapExclusive, Inside, Stages, Stage,
                InMap, Carried, Carries, Returned, Accounted, Refused, Blamed, Overshot
  <2> QED
    BY <2>1, <2>2 DEF MapInv
<1>2. CASE Next
  BY <1>2, MapCallStep, MapAcquireStep, MapBodyStep, MapNewStep, MapDropStep,
     MapReleaseStep, NestedStep, OwnCallStep, ChildExitStep, DestroyStep
     DEF Next, MapStep
<1> QED
  BY <1>1, <1>2

-----------------------------------------------------------------------------
(* Every behaviour of the map keeps the invariant. *)
THEOREM MapInvariant == Spec => []MapInv
BY MapInvInit, MapInvStep, PTL DEF Spec

(* However a call on the map ends, its semaphore is given back: it is missing *)
(* only while one process is inside.                                          *)
THEOREM MapLock == Spec => []MapSemaphoreIsLock
<1>1. MapInv => MapSemaphoreIsLock
  <2> SUFFICES ASSUME MapInv PROVE Cardinality(Inside) = 1 - mapSem
    BY DEF MapSemaphoreIsLock, Inside
  <2>1. CASE mapSem = 1 /\ Inside = {}
    BY <2>1, FS_EmptySet
  <2>2. CASE mapSem = 0 /\ \E p \in Procs : Inside = {p}
    BY <2>2, FS_Singleton
  <2> QED
    BY <2>1, <2>2 DEF MapInv, MapExclusive
<1> QED
  BY <1>1, MapInvariant, PTL

(* The map never points at memory that was given back, and no node is lost.   *)
THEOREM Nodes == Spec => []NodesLive
<1>1. MapInv => NodesLive
  BY DEF MapInv, InMap, Accounted, Carries, Refused, NodesLive
<1> QED
  BY <1>1, MapInvariant, PTL

(* A call on the map ends the process only when a node reaches the end of the *)
(* region: deallocate's other test, b.from >= m_begin, never fails for one.   *)
THEOREM AbortCause == Spec => []AbortNeedsOvershoot
<1>1. MapInv => AbortNeedsOvershoot
  <2> SUFFICES ASSUME MapInv, \A b \in handed : b.len = NodeLen => End(b) < Size
               PROVE  NoAbort
    BY DEF AbortNeedsOvershoot
  <2>1. ~Overshot
    <3> SUFFICES ASSUME NEW b \in handed, b.len = NodeLen PROVE ~(End(b) >= Size)
      BY DEF Overshot
    <3>1. b.from \in Nat /\ b.len \in Nat /\ Size \in Nat
      BY ShmemAssumption DEF MapInv, ShmInv, ShmTypeOK, Block
    <3>2. End(b) \in Int /\ End(b) < Size
      BY <3>1 DEF End
    <3> QED
      BY <3>1, <3>2
  <2> QED
    BY <2>1 DEF MapInv, Blamed, Refused, NoAbort
<1> QED
  BY <1>1, MapInvariant, PTL

(* Nor do two blocks overlap, in the map's nodes and the program's own.       *)
THEOREM MapDisjoint == Spec => []BlocksDisjoint
BY MapInvariant, PTL DEF MapInv, ShmInv

-----------------------------------------------------------------------------
(* The bound on the overshoot.  Promised are the processes that have passed   *)
(* allocate's test and not yet moved m_begin.  The last of them to pass it    *)
(* saw room for its own block; each of the others adds n at most.             *)
Promised == {p \in Procs : pc[p] \in {"alloc_wait", "alloc_read", "alloc_bump"}}

Others(n) == Size + n * (Cardinality(Procs) - 1)

Within(n) ==
  \/ m_begin + n * Cardinality(Promised) < Others(n)
  \/ \E p \in Promised : m_begin + arg[p] + n * (Cardinality(Promised) - 1) < Others(n)

Largest(n) == n \in Counts /\ \A k \in Counts : k <= n

LEMMA Times ==
  ASSUME NEW n \in Nat, NEW a \in Nat, NEW b \in Nat
  PROVE  /\ n * a \in Nat
         /\ n * (a - 1) = n * a - n
         /\ a <= b => n * a <= n * b
OBVIOUS

LEMMA Counted ==
  ASSUME NEW S, S \subseteq Procs
  PROVE  /\ IsFiniteSet(S)
         /\ Cardinality(S) \in Nat
         /\ S # {} => Cardinality(S) # 0
         /\ Cardinality(Procs) \in Nat \ {0}
         /\ Cardinality(S) <= Cardinality(Procs)
<1>1. IsFiniteSet(Procs) /\ Procs # {}
  BY ShmemAssumption, MapAssumption
<1> QED
  BY <1>1, FS_Subset, FS_CardinalityType, FS_EmptySet

(* A process passes the test. *)
LEMMA WithinAllocate ==
  ASSUME NEW n, Largest(n), ShmTypeOK, NEW p \in Procs, NEW k \in Counts,
         m_begin + k < Size, UNCHANGED m_begin,
         pc' = [pc EXCEPT ![p] = "alloc_wait"], arg' = [arg EXCEPT ![p] = k]
  PROVE  Within(n)'
<1> DEFINE c == Cardinality(Promised')
           P == Cardinality(Procs)
<1>1. p \in Promised' /\ arg'[p] = k
  BY DEF ShmTypeOK, Promised
<1>2. c \in Nat /\ P \in Nat \ {0} /\ c <= P /\ c # 0
  <2>1. Promised' \subseteq Procs
    BY DEF Promised
  <2> QED
    BY <1>1, <2>1, Counted
<1>3. n \in Nat /\ Size \in Nat /\ k \in Nat /\ m_begin \in Nat
  BY ShmemAssumption DEF Largest, ShmTypeOK
<1>4. m_begin + k + n * (c - 1) < Size + n * (P - 1)
  <2> HIDE DEF c, P
  <2>1. n * (c - 1) <= n * (P - 1) /\ n * (c - 1) \in Int /\ n * (P - 1) \in Int
    BY <1>2, <1>3, Times
  <2> QED
    BY <1>3, <2>1
<1> QED
  BY <1>1, <1>4 DEF Within, Others

(* m_begin moves: the mover leaves Promised and takes n at most. *)
LEMMA WithinBump ==
  ASSUME NEW n, Largest(n), ShmTypeOK, Within(n), NEW p \in Procs, AllocateBump(p)
  PROVE  Within(n)'
<1> DEFINE c == Cardinality(Promised)
           P == Cardinality(Procs)
<1>1. p \in Promised /\ Promised' = Promised \ {p}
  BY DEF AllocateBump, ShmTypeOK, Promised
<1>2. /\ c \in Nat \ {0}
      /\ P \in Nat \ {0}
      /\ Cardinality(Promised') = c - 1
      /\ Promised' # {} => c - 1 # 0
  <2>1. Promised \subseteq Procs /\ Promised' \subseteq Procs
    BY <1>1 DEF Promised
  <2> QED
    BY <1>1, <2>1, Counted, FS_RemoveElement
<1>3. n \in Nat /\ Size \in Nat /\ m_begin \in Nat
  BY ShmemAssumption DEF Largest, ShmTypeOK
<1>4. \A q \in Promised : arg[q] \in Nat /\ arg[q] <= n
  BY ShmemAssumption DEF Largest, ShmTypeOK, Promised
<1>5. /\ m_begin' = m_begin + arg[p] /\ arg' = arg
      /\ Others(n)' = Others(n) /\ Others(n) \in Int
  <2>1. Others(n) \in Int
    BY <1>2, <1>3 DEF Others
  <2> QED
    BY <2>1 DEF AllocateBump, Others
<1>6. CASE m_begin + n * c < Others(n)
  <2>1. m_begin + arg[p] + n * (c - 1) < Others(n)
    <3> HIDE DEF c, P
    <3>1. n * (c - 1) = n * c - n /\ n * c \in Int
      BY <1>2, <1>3, Times
    <3> QED
      BY <1>1, <1>3, <1>4, <1>5, <1>6, <3>1
  <2> QED
    BY <1>2, <1>5, <2>1 DEF Within
<1>7. ASSUME NEW q \in Promised, m_begin + arg[q] + n * (c - 1) < Others(n)
      PROVE  Within(n)'
  <2>1. CASE q = p
    BY <1>2, <1>5, <1>7, <2>1 DEF Within
  <2>2. CASE q # p
    <3>1. q \in Promised'
      BY <1>1, <2>2
    <3>2. m_begin + arg[p] + arg[q] + n * (c - 1 - 1) < Others(n)
      <4> HIDE DEF c, P
      <4>1. n * (c - 1 - 1) = n * (c - 1) - n /\ n * (c - 1) \in Int
        BY <1>2, <1>3, Times
      <4> QED
        BY <1>1, <1>3, <1>4, <1>5, <1>7, <4>1
    <3> QED
      BY <1>2, <1>5, <3>1, <3>2 DEF Within
  <2> QED
    BY <2>1, <2>2
<1> QED
  BY <1>6, <1>7 DEF Within

Bounded == \A n : Largest(n) => Within(n)

LEMMA BoundedInit == Init => Bounded
<1> SUFFICES ASSUME Init, NEW n, Largest(n) PROVE Within(n)
  BY DEF Bounded
<1> DEFINE P == Cardinality(Procs)
<1>1. Promised = {} /\ Cardinality(Promised) = 0
  BY FS_EmptySet DEF Init, ShmInit, Promised
<1>2. P \in Nat \ {0} /\ n \in Nat
  BY Counted, ShmemAssumption DEF Largest
<1>3. n * (P - 1) \in Nat /\ n * 0 = 0
  <2> HIDE DEF P
  <2>1. P - 1 \in Nat
    BY <1>2
  <2> QED
    BY <1>2, <2>1, Times
<1>4. Header + 0 < Size + n * (P - 1)
  <2> HIDE DEF P
  <2> QED
    BY <1>3, ShmemAssumption
<1> QED
  BY <1>1, <1>3, <1>4 DEF Within, Others, Init, ShmInit

LEMMA BoundedStep == MapInv /\ Bounded /\ [Next]_vars => Bounded'
<1> SUFFICES ASSUME MapInv, Bounded, [Next]_vars, NEW n, Largest(n) PROVE Within(n)'
  BY DEF Bounded, Largest
<1>0. ShmTypeOK /\ Within(n)
  BY DEF MapInv, ShmInv, Bounded
<1>same. ASSUME UNCHANGED m_begin, Promised' = Promised, \A p \in Promised : arg'[p] = arg[p]
         PROVE  Within(n)'
  BY <1>0, <1>same DEF Within, Others
<1>1. ASSUME NEW p \in Procs, NEW k \in Counts, Allocate(p, k) PROVE Within(n)'
  <2>1. CASE m_begin + k >= Size
    BY <1>1, <1>same, <2>1 DEF Allocate, Throw, Promised
  <2>2. CASE ~(m_begin + k >= Size)
    <3>1. m_begin + k < Size
      BY <1>0, <2>2, ShmemAssumption DEF ShmTypeOK
    <3> QED
      BY <1>0, <1>1, <2>2, <3>1, WithinAllocate DEF Allocate, Proceed
  <2> QED
    BY <2>1, <2>2
<1>2. ASSUME NEW p \in Procs, NEW b \in handed, Deallocate(p, b) PROVE Within(n)'
  BY <1>0, <1>2, <1>same DEF Deallocate, Throw, Proceed, Promised, ShmTypeOK
<1>3. ASSUME NEW p \in Procs, NEW offset, Get(p, offset) PROVE Within(n)'
  BY <1>0, <1>3, <1>same DEF Get, Throw, Proceed, Promised, ShmTypeOK
<1>4. ASSUME NEW p \in Procs, ShmStep(p) PROVE Within(n)'
  <2>1. CASE Acquire(p) \/ AllocateRead(p) \/ Release(p)
    BY <1>0, <1>same, <2>1
       DEF Acquire, AllocateRead, Release, Waiting, Promised, ShmTypeOK
  <2>2. CASE AllocateBump(p)
    BY <1>0, <2>2, WithinBump
  <2> QED
    BY <1>4, <2>1, <2>2 DEF ShmStep
<1>5. CASE UNCHANGED shmVars
  BY <1>5, <1>same DEF shmVars, Promised
<1>6. ASSUME NEW p \in Procs, MapBody(p) PROVE Within(n)'
  <2>1. Drops(p) => nodes[op[p].key] \in handed
    BY DEF Drops, MapInv, InMap
  <2> QED
    BY <1>1, <1>2, <1>5, <1>6, <2>1, MapAssumption DEF MapBody
<1>7. ASSUME NEW p \in Procs, MapNew(p) PROVE Within(n)'
  <2>1. ret[p] = "ok" => Returned(p) \in handed
    BY <1>7 DEF MapNew, MapInv, Carried, Carries
  <2> QED
    BY <1>2, <1>5, <1>7, <2>1 DEF MapNew
<1>8. ASSUME NEW p \in Procs, OwnCall(p) PROVE Within(n)'
  BY <1>1, <1>2, <1>3, <1>8 DEF OwnCall
<1>9. CASE Destroy
  BY <1>9, <1>same DEF Destroy, Promised
<1>10. CASE UNCHANGED vars
  BY <1>5, <1>10 DEF vars
<1> QED
  BY <1>4, <1>5, <1>6, <1>7, <1>8, <1>9, <1>10
     DEF Next, MapStep, Nested, MapCall, MapAcquire, MapDrop, MapRelease, ChildExit

(* A process can overshoot the region, for allocate compares with m_end       *)
(* before it takes the semaphore, but only by what the others were promised.  *)
THEOREM Overshoot == Spec => []OvershootBounded
<1>1. MapInv /\ Bounded => OvershootBounded
  <2> SUFFICES ASSUME MapInv, Bounded, NEW b \in handed, NEW n \in Counts, Largest(n)
               PROVE  End(b) < Others(n)
    BY DEF OvershootBounded, Others, Largest
  <2> DEFINE c == Cardinality(Promised)
  <2>1. Within(n) /\ End(b) <= m_begin
    BY DEF Bounded, MapInv, ShmInv, Fresh
  <2>2. c \in Nat /\ Cardinality(Procs) \in Nat \ {0} /\ (Promised # {} => c # 0)
    BY Counted DEF Promised
  <2>3. /\ n \in Nat /\ m_begin \in Nat /\ Size \in Nat
        /\ b.from \in Nat /\ b.len \in Nat
    BY ShmemAssumption DEF MapInv, ShmInv, ShmTypeOK, Block
  <2>4. End(b) \in Int /\ Others(n) \in Int
    BY <2>2, <2>3 DEF End, Others
  <2>5. CASE m_begin + n * c < Others(n)
    <3>1. n * c \in Nat
      BY <2>2, <2>3, Times
    <3> QED
      BY <2>1, <2>3, <2>4, <2>5, <3>1
  <2>6. ASSUME NEW p \in Promised, m_begin + arg[p] + n * (c - 1) < Others(n)
        PROVE  End(b) < Others(n)
    <3>1. n * (c - 1) \in Nat
      <4>1. c - 1 \in Nat
        BY <2>2
      <4> QED
        BY <2>3, <4>1, Times
    <3>2. arg[p] \in Nat
      BY ShmemAssumption DEF MapInv, ShmInv, ShmTypeOK, Promised
    <3> QED
      BY <2>1, <2>3, <2>4, <2>6, <3>1, <3>2
  <2> QED
    BY <2>1, <2>5, <2>6 DEF Within
<1> QED
  BY <1>1, MapInvInit, MapInvStep, BoundedInit, BoundedStep, PTL DEF Spec

-----------------------------------------------------------------------------
(* Calls come to an end.                                                      *)

(* The guards of the steps of a call that has begun, in SharedMemory and in   *)
(* the map.                                                                   *)
ShmOpen(p) == pc[p] \in Holding \/ (pc[p] \in Waiting /\ sem > 0)

MapOpen(p) ==
  \/ ShmOpen(p)
  \/ /\ pc[p] = "idle"
     /\ \/ mpc[p] = "body" /\ (Drops(p) => nodes[op[p].key] \in handed \ freed)
        \/ mpc[p] = "new" /\ ret[p] = "bad_alloc"
        \/ /\ mpc[p] = "new" /\ ret[p] = "ok"
           /\ op[p].key \in DOMAIN nodes => Returned(p) \in handed \ freed
        \/ mpc[p] \in {"drop", "unlock"}

(* Nobody waits on somebody who waits on him.  A process that waits for the   *)
(* allocator's semaphore finds it free or held by one that can step; one that *)
(* waits for the map's finds it free, or held by one that died, can step, or  *)
(* waits for the allocator's, whose holder does not wait for the map's.       *)
MapNeverStuck ==
  /\ \A p \in Procs : pc[p] \in Waiting => sem > 0 \/ \E q \in Procs : ShmOpen(q)
  /\ \A p \in Procs : mpc[p] = "wait" =>
       \/ mapSem > 0
       \/ \E q \in Inside :
            \/ mpc[q] = "aborted" \/ MapOpen(q)
            \/ pc[q] \in Waiting /\ \E r \in Procs : ShmOpen(r) /\ mpc[r] # "wait"

(* The steps a call still has to take before it gives the semaphores back.    *)
Left(p) ==
  (CASE mpc[p] = "body" -> 12 [] mpc[p] = "new" -> 7 [] mpc[p] = "drop" -> 2
     [] mpc[p] = "unlock" -> 1 [] OTHER -> 0)
  + (CASE pc[p] \in Waiting -> 4 [] pc[p] = "alloc_read" -> 3
       [] pc[p] = "alloc_bump" -> 2 [] pc[p] = "release" -> 1 [] OTHER -> 0)

(* While a call is inside, a step is the call's own and brings it nearer to   *)
(* its end, or it leaves the call and the contents of the map alone: what the *)
(* call found there when it looked is still so when it writes.  Only what a   *)
(* process left that died inside is taken apart, by the owner's destroy.      *)
Serial(p) ==
  \/ MapStep(p) /\ Left(p)' < Left(p)
  \/ /\ UNCHANGED <<mpc[p], pc[p], op[p], ret[p], arg[p], location[p]>>
     /\ mpc[p] # "aborted" => UNCHANGED nodes

OneAtATime == [][\A p \in Inside : Serial(p)]_vars

(* A call that waits for the map's semaphore, or for the allocator's inside    *)
(* it, waits on somebody who can go on, unless a process died with the map's:  *)
(* what a fair scheduler needs to make MapCallReturns true.                    *)
THEOREM MapCallNeverStuck == Spec => []MapNeverStuck
<1>1. ASSUME MapInv PROVE MapNeverStuck
  <2> USE <1>1 DEF MapInv
  <2>1. ASSUME sem # 1 PROVE \E r \in Procs : ShmOpen(r) /\ mpc[r] # "wait"
    <3>1. PICK r \in Procs : pc[r] \in Holding
      BY <2>1 DEF ShmInv, Exclusive, Holders
    <3>2. mpc[r] # "wait"
      BY <3>1 DEF Stages, Stage, Holding
    <3> QED
      BY <3>1, <3>2 DEF ShmOpen
  <2>2. ASSUME NEW p \in Procs, pc[p] \in Waiting
        PROVE  sem > 0 \/ \E q \in Procs : ShmOpen(q)
    BY <2>1
  <2>3. ASSUME NEW p \in Procs, mpc[p] = "wait", ~(mapSem > 0)
        PROVE  \E q \in Inside :
                 \/ mpc[q] = "aborted" \/ MapOpen(q)
                 \/ pc[q] \in Waiting /\ \E r \in Procs : ShmOpen(r) /\ mpc[r] # "wait"
    <3>1. PICK q \in Procs : Inside = {q}
      BY <2>3 DEF MapExclusive
    <3>2. mpc[q] \in MapHolding
      BY <3>1 DEF Inside
    <3>3. CASE pc[q] \in Waiting
      <4>1. sem > 0 => ShmOpen(q)
        BY <3>3 DEF ShmOpen
      <4>2. sem = 1 => sem > 0
        OBVIOUS
      <4> QED
        BY <2>1, <3>1, <3>3, <4>1, <4>2 DEF MapOpen
    <3>4. CASE pc[q] \in Holding
      BY <3>1, <3>4 DEF MapOpen, ShmOpen
    <3>5. CASE pc[q] = "idle"
      <4>1. Drops(q) => nodes[op[q].key] \in handed \ freed
        BY DEF Drops, InMap
      <4>2. mpc[q] = "new" /\ ret[q] = "ok" => Returned(q) \in handed \ freed
        BY <3>5 DEF Carried, Carries
      <4>3. mpc[q] = "new" => ret[q] \in {"ok", "bad_alloc"}
        BY DEF Stages, Stage
      <4>4. mpc[q] # "aborted" => MapOpen(q)
        BY <3>2, <3>5, <4>1, <4>2, <4>3 DEF MapOpen, MapHolding
      <4> QED
        BY <3>1, <4>4
    <3> QED
      BY <3>3, <3>4, <3>5 DEF ShmInv, ShmTypeOK
  <2> QED
    BY <2>2, <2>3 DEF MapNeverStuck
<1> QED
  BY <1>1, MapInvariant, PTL

(* The step of a SharedMemory call. *)
LEMMA NestedLeft ==
  ASSUME MapInv, NEW p \in Procs, Nested(p)
  PROVE  Left(p)' < Left(p)
<1>1. mpc'[p] = mpc[p]
  BY DEF Nested, mapVars
<1>2. p \in DOMAIN pc
  BY DEF MapInv, ShmInv, ShmTypeOK
<1>3. \/ pc[p] \in Waiting /\ pc'[p] \in {"alloc_read", "release"}
      \/ pc[p] = "alloc_read" /\ pc'[p] = "alloc_bump"
      \/ pc[p] = "alloc_bump" /\ pc'[p] = "release"
      \/ pc[p] = "release" /\ pc'[p] = "idle"
  BY <1>2 DEF Nested, ShmStep, Acquire, AllocateRead, AllocateBump, Release
<1> QED
  BY <1>1, <1>3 DEF Left, Waiting

(* The first step of a SharedMemory call, or its refusal. *)
LEMMA Begun ==
  ASSUME MapInv, NEW p \in Procs, NEW x, Allocate(p, x) \/ Deallocate(p, x)
  PROVE  /\ pc[p] = "idle"
         /\ pc'[p] \in Waiting \cup {"idle"}
BY DEF MapInv, ShmInv, ShmTypeOK, Allocate, Deallocate, Throw, Proceed, Waiting

LEMMA MapStepLeft ==
  ASSUME MapInv, NEW p \in Procs, MapStep(p)
  PROVE  Left(p)' < Left(p)
<1>0. p \in DOMAIN mpc
  BY DEF MapInv, Stages
<1>1. CASE MapBody(p)
  <2>0. pc[p] = "idle" /\ mpc[p] = "body"
    BY <1>1 DEF MapBody, MapInv, Stages, Stage
  <2>1. CASE Makes(p) /\ Allocate(p, NodeLen) /\ MapGoto(p, "new")
    <3>1. mpc'[p] = "new" /\ pc'[p] \in Waiting \cup {"idle"}
      BY <1>0, <2>1, Begun DEF MapGoto
    <3> QED
      BY <2>0, <3>1 DEF Left, Waiting
  <2>2. CASE Deallocate(p, nodes[op[p].key]) /\ MapGoto(p, "drop")
    <3>1. mpc'[p] = "drop" /\ pc'[p] \in Waiting \cup {"idle"}
      BY <1>0, <2>2, Begun DEF MapGoto
    <3> QED
      BY <2>0, <3>1 DEF Left, Waiting
  <2>3. CASE MapGoto(p, "unlock") /\ UNCHANGED shmVars
    <3>1. mpc'[p] = "unlock" /\ pc'[p] = "idle"
      BY <1>0, <2>0, <2>3 DEF MapGoto, shmVars
    <3> QED
      BY <2>0, <3>1 DEF Left, Waiting
  <2> QED
    BY <1>1, <2>1, <2>2, <2>3 DEF MapBody
<1>2. CASE MapNew(p)
  <2>0. pc[p] = "idle" /\ mpc[p] = "new"
    BY <1>2 DEF MapNew
  <2>1. CASE MapGoto(p, "unlock") /\ UNCHANGED shmVars
    <3>1. mpc'[p] = "unlock" /\ pc'[p] = "idle"
      BY <1>0, <2>0, <2>1 DEF MapGoto, shmVars
    <3> QED
      BY <2>0, <3>1 DEF Left, Waiting
  <2>2. CASE Deallocate(p, Returned(p)) /\ MapGoto(p, "drop")
    <3>1. mpc'[p] = "drop" /\ pc'[p] \in Waiting \cup {"idle"}
      BY <1>0, <2>2, Begun DEF MapGoto
    <3> QED
      BY <2>0, <3>1 DEF Left, Waiting
  <2> QED
    BY <1>2, <2>1, <2>2 DEF MapNew
<1>3. CASE MapDrop(p)
  <2>1. /\ pc[p] = "idle" /\ mpc[p] = "drop" /\ pc'[p] = "idle"
        /\ mpc'[p] \in {"aborted", "unlock"}
    BY <1>0, <1>3 DEF MapDrop, MapGoto, shmVars
  <2> QED
    BY <2>1 DEF Left, Waiting
<1>4. CASE MapRelease(p)
  <2>1. pc[p] = "idle" /\ mpc[p] = "unlock" /\ pc'[p] = "idle" /\ mpc'[p] = "out"
    BY <1>0, <1>4 DEF MapRelease, MapGoto, shmVars, MapInv, Stages, Stage
  <2> QED
    BY <2>1 DEF Left, Waiting
<1>5. CASE Nested(p)
  BY <1>5, NestedLeft
<1> QED
  BY <1>1, <1>2, <1>3, <1>4, <1>5 DEF MapStep

(* What a step of one process leaves alone of another that is inside. *)
LEMMA OthersKept ==
  ASSUME MapInv, NEW p \in Procs, mpc[p] \in MapHolding, NEW q \in Procs, q # p,
         \/ \E kind \in Kinds, k \in Keys : MapCall(q, kind, k)
         \/ MapAcquire(q) \/ MapStep(q) \/ OwnCall(q) \/ ChildExit(q)
  PROVE  UNCHANGED <<mpc[p], pc[p], op[p], ret[p], arg[p], location[p], nodes>>
<1>1. mapSem = 0 /\ mpc[q] \notin MapHolding
  BY Alone
<1>2. ~MapAcquire(q) /\ ~MapBody(q) /\ ~MapNew(q) /\ ~MapDrop(q) /\ ~MapRelease(q)
  BY <1>1 DEF MapAcquire, MapBody, MapNew, MapDrop, MapRelease, MapHolding
<1>3. CASE Nested(q)
  <2>1. UNCHANGED <<mpc, op, nodes>>
    BY <1>3 DEF Nested, mapVars
  <2>2. UNCHANGED <<pc[p], ret[p], arg[p], location[p]>>
    BY <1>3 DEF Nested, ShmStep, Acquire, AllocateRead, AllocateBump, Release,
                MapInv, ShmInv, ShmTypeOK
  <2> QED
    BY <2>1, <2>2
<1>4. CASE \E kind \in Kinds, k \in Keys : MapCall(q, kind, k)
  <2>1. UNCHANGED <<shmVars, nodes>> /\ op'[p] = op[p] /\ mpc'[p] = mpc[p]
    BY <1>4 DEF MapCall, MapGoto
  <2> QED
    BY <2>1 DEF shmVars
<1>5. CASE OwnCall(q)
  <2>1. UNCHANGED <<mpc, op, nodes>>
    BY <1>5 DEF OwnCall, mapVars
  <2>2. UNCHANGED <<pc[p], ret[p], arg[p], location[p]>>
    BY <1>5 DEF OwnCall, Allocate, Deallocate, Get, Throw, Proceed,
                MapInv, ShmInv, ShmTypeOK
  <2> QED
    BY <2>1, <2>2
<1>6. CASE ChildExit(q)
  BY <1>6 DEF ChildExit, MapGoto, shmVars
<1> QED
  BY <1>2, <1>3, <1>4, <1>5, <1>6 DEF MapStep

(* Of the process that is inside only the steps of its call are possible. *)
LEMMA OwnStep ==
  ASSUME MapInv, NEW p \in Procs, mpc[p] \in MapHolding,
         \/ \E kind \in Kinds, k \in Keys : MapCall(p, kind, k)
         \/ MapAcquire(p) \/ MapStep(p) \/ OwnCall(p) \/ ChildExit(p)
  PROVE  MapStep(p)
BY DEF MapCall, MapAcquire, OwnCall, ChildExit, MapHolding

(* The calls on the map happen one at a time, at most 12 steps each between    *)
(* taking its semaphore and giving it back, and nobody changes the map under   *)
(* one that has looked a key up.                                               *)
THEOREM MapIsSerial == Spec => OneAtATime
<1>1. ASSUME MapInv, [Next]_vars, NEW p \in Inside
      PROVE  Serial(p)
  <2>0. p \in Procs /\ mpc[p] \in MapHolding
    BY DEF Inside
  <2>1. CASE UNCHANGED vars
    BY <2>1 DEF vars, shmVars, mapVars, Serial
  <2>2. CASE Destroy
    <3>1. UNCHANGED <<pc, arg, location, ret, op>>
      BY <2>2 DEF Destroy
    <3>2. p # Owner /\ mpc[p] = "aborted"
      BY <2>0, <2>2 DEF Destroy, MapHolding
    <3>3. mpc'[p] = mpc[p]
      BY <1>1, <2>0, <2>2, <3>2 DEF Destroy, MapGoto, MapInv, Stages
    <3> QED
      BY <3>1, <3>2, <3>3 DEF Serial
  <2>3. ASSUME NEW q \in Procs,
               \/ \E kind \in Kinds, k \in Keys : MapCall(q, kind, k)
               \/ MapAcquire(q) \/ MapStep(q) \/ OwnCall(q) \/ ChildExit(q)
        PROVE  Serial(p)
    <3>1. CASE q = p
      BY <1>1, <2>0, <2>3, <3>1, OwnStep, MapStepLeft DEF Serial
    <3>2. CASE q # p
      BY <1>1, <2>0, <2>3, <3>2, OthersKept DEF Serial
    <3> QED
      BY <3>1, <3>2
  <2> QED
    BY <1>1, <2>1, <2>2, <2>3 DEF Next
<1>2. ASSUME MapInv, [Next]_vars
      PROVE  [\A p \in Inside : Serial(p)]_vars
  BY <1>1, <1>2
<1> QED
  BY <1>2, MapInvariant, PTL DEF Spec, OneAtATime
=============================================================================
