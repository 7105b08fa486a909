------------------------------ MODULE ShmemMap ------------------------------
(***************************************************************************)
(* shmem::Map of hw5 over SharedMemory: a std::map whose nodes come from    *)
(* the linear allocator, guarded by a second semaphore in the region.       *)
(* Every call takes the map's semaphore first and, when it needs a node or  *)
(* gives one back, runs a whole SharedMemory call while it holds it.        *)
(*                                                                          *)
(* The constructor runs before fork(): Header covers the two blocks it      *)
(* allocates (the semaphore and the std::map object).  The std::map itself  *)
(* is external: emplace makes its node before it looks for the key and      *)
(* drops it if the key is there, insert and operator[] look first, and a    *)
(* node is given back in a noexcept function, so an exception thrown by     *)
(* deallocate ends the process where it stands.                             *)
(***************************************************************************)
EXTENDS SharedMemory

CONSTANTS
  Owner,       \* the process that forked the others, and destroys the map
  Keys,
  NodeLen      \* size of a map node; blocks of other sizes are not nodes

ASSUME MapAssumption ==
  /\ Owner \in Procs
  /\ NodeLen \in Counts

VARIABLES
  mapSem,      \* the value of Map::m_semaphore_ptr
  nodes,       \* key -> block of its node, for the keys in the map
  mpc,         \* where each process is in its Map call
  op           \* that call

mapVars == <<mapSem, nodes, mpc, op>>
vars == <<shmVars, mapVars>>

Kinds == {"emplace", "insert", "erase", "at"}
MapHolding == {"body", "new", "drop", "unlock", "aborted"}

(* The call of a process that is in none. *)
NoCall == [kind |-> "at", key |-> CHOOSE k \in Keys : TRUE]

Init ==
  /\ ShmInit
  /\ mapSem = 1
  /\ nodes = <<>>
  /\ mpc = [p \in Procs |-> "out"]
  /\ op = [p \in Procs |-> NoCall]

MapGoto(p, l) == mpc' = [mpc EXCEPT ![p] = l]

Put(f, k, b) == [x \in DOMAIN f \cup {k} |-> IF x = k THEN b ELSE f[x]]
Remove(f, k) == [x \in DOMAIN f \ {k} |-> f[x]]

(* The block the SharedMemory call of p has just returned. *)
Returned(p) == [from |-> location[p], len |-> arg[p]]

-----------------------------------------------------------------------------
(* Slips a later edit of the code could make; no specification uses them.    *)

(* A bad_alloc leaves the map's semaphore taken. *)
BadMapNew(p) ==
  /\ mpc[p] = "new"
  /\ pc[p] = "idle"
  /\ \/ /\ ret[p] = "bad_alloc"
        /\ MapGoto(p, "out")
        /\ UNCHANGED <<shmVars, nodes>>
     \/ /\ ret[p] = "ok"
        /\ MapGoto(p, "unlock")
        /\ nodes' = Put(nodes, op[p].key, Returned(p))
        /\ UNCHANGED shmVars
  /\ UNCHANGED <<mapSem, op>>

(* A call that does not wait for the map's semaphore. *)
BadMapAcquire(p) ==
  /\ mpc[p] = "wait"
  /\ mapSem' = IF mapSem > 0 THEN mapSem - 1 ELSE mapSem
  /\ MapGoto(p, "body")
  /\ UNCHANGED <<shmVars, nodes, op>>

(* emplace that does not look for the key and keeps the node it made. *)
KeepMapNew(p) ==
  /\ mpc[p] = "new"
  /\ pc[p] = "idle"
  /\ \/ /\ ret[p] = "bad_alloc"
        /\ UNCHANGED <<shmVars, nodes>>
     \/ /\ ret[p] = "ok"
        /\ nodes' = Put(nodes, op[p].key, Returned(p))
        /\ freed' = freed \cup {Returned(p)}
        /\ UNCHANGED <<m_begin, sem, pc, arg, location, ret, handed>>
  /\ MapGoto(p, "unlock")
  /\ UNCHANGED <<mapSem, op>>

-----------------------------------------------------------------------------
(* at, operator[], emplace, insert, erase: the lock on m_semaphore_ptr. *)
MapCall(p, kind, k) ==
  /\ mpc[p] = "out"
  /\ pc[p] = "idle"
  /\ op' = [op EXCEPT ![p] = [kind |-> kind, key |-> k]]
  /\ MapGoto(p, "wait")
  /\ UNCHANGED <<shmVars, mapSem, nodes>>

MapAcquire(p) ==
  /\ mpc[p] = "wait"
  /\ mapSem > 0
  /\ mapSem' = mapSem - 1
  /\ MapGoto(p, "body")
  /\ UNCHANGED <<shmVars, nodes, op>>

(* Does the call of p need a new node? *)
Makes(p) ==
  \/ op[p].kind = "emplace"
  \/ op[p].kind = "insert" /\ op[p].key \notin DOMAIN nodes

Drops(p) == op[p].kind = "erase" /\ op[p].key \in DOMAIN nodes

(* The call on the std::map, up to the SharedMemory call it makes.  at() of a *)
(* key that is absent throws, which releases the semaphore like a return.     *)
MapBody(p) ==
  /\ mpc[p] = "body"
  /\ \/ /\ Makes(p)
        /\ Allocate(p, NodeLen)
        /\ MapGoto(p, "new")
        /\ UNCHANGED nodes
     \/ /\ Drops(p)
        /\ Deallocate(p, nodes[op[p].key])
        /\ nodes' = Remove(nodes, op[p].key)
        /\ MapGoto(p, "drop")
     \/ /\ ~Makes(p) /\ ~Drops(p)
        /\ MapGoto(p, "unlock")
        /\ UNCHANGED <<shmVars, nodes>>
  /\ UNCHANGED <<mapSem, op>>

(* The node is there or bad_alloc was thrown; a key that is already in the    *)
(* map keeps its node and the new one is dropped.                             *)
MapNew(p) ==
  /\ mpc[p] = "new"
  /\ pc[p] = "idle"
  /\ \/ /\ ret[p] = "bad_alloc"
        /\ MapGoto(p, "unlock")
        /\ UNCHANGED <<shmVars, nodes>>
     \/ /\ ret[p] = "ok"
        /\ op[p].key \notin DOMAIN nodes
        /\ nodes' = Put(nodes, op[p].key, Returned(p))
        /\ MapGoto(p, "unlock")
        /\ UNCHANGED shmVars
     \/ /\ ret[p] = "ok"
        /\ op[p].key \in DOMAIN nodes
        /\ Deallocate(p, Returned(p))
        /\ MapGoto(p, "drop")
        /\ UNCHANGED nodes
  /\ UNCHANGED <<mapSem, op>>

(* The node was given back; a deallocate that threw has ended the process. *)
MapDrop(p) ==
  /\ mpc[p] = "drop"
  /\ pc[p] = "idle"
  /\ MapGoto(p, IF ret[p] = "invalid" THEN "aborted" ELSE "unlock")
  /\ UNCHANGED <<shmVars, mapSem, nodes, op>>

MapRelease(p) ==
  /\ mpc[p] = "unlock"
  /\ mapSem' = mapSem + 1
  /\ op' = [op EXCEPT ![p] = NoCall]
  /\ MapGoto(p, "out")
  /\ UNCHANGED <<shmVars, nodes>>

(* The program's own blocks (a shmem::String, say) come from the same        *)
(* SharedMemory without the map's semaphore.                                  *)
OwnCall(p) ==
  /\ mpc[p] = "out"
  /\ \/ \E n \in Counts \ {NodeLen} : Allocate(p, n)
     \/ \E b \in {x \in handed : x.len # NodeLen} : Deallocate(p, b)
     \/ \E offset \in {Header, Size} : Get(p, offset)
  /\ UNCHANGED mapVars

(* A child leaves main. *)
ChildExit(p) ==
  /\ p # Owner
  /\ mpc[p] = "out"
  /\ pc[p] = "idle"
  /\ MapGoto(p, "exited")
  /\ UNCHANGED <<shmVars, mapSem, nodes, op>>

(* After waitpid: Map::destroy gives every node back, then both semaphores    *)
(* are destroyed.  A node deallocate refuses ends the process.                *)
Destroy ==
  /\ mpc[Owner] = "out"
  /\ pc[Owner] = "idle"
  /\ \A p \in Procs \ {Owner} : mpc[p] \in {"exited", "aborted"}
  /\ \/ /\ \E k \in DOMAIN nodes : End(nodes[k]) >= Size
        /\ MapGoto(Owner, "died")
        /\ UNCHANGED <<nodes, freed>>
     \/ /\ \A k \in DOMAIN nodes : End(nodes[k]) < Size
        /\ freed' = freed \cup {nodes[k] : k \in DOMAIN nodes}
        /\ nodes' = <<>>
        /\ MapGoto(Owner, "exited")
  /\ UNCHANGED <<m_begin, sem, pc, arg, location, ret, handed, mapSem, op>>

(* The SharedMemory steps of the call p is in. *)
Nested(p) == ShmStep(p) /\ UNCHANGED mapVars

MapStep(p) == MapBody(p) \/ MapNew(p) \/ MapDrop(p) \/ MapRelease(p) \/ Nested(p)

Next ==
  \/ \E p \in Procs :
       \/ \E kind \in Kinds, k \in Keys : MapCall(p, kind, k)
       \/ MapAcquire(p)
       \/ MapStep(p)
       \/ OwnCall(p)
       \/ ChildExit(p)
  \/ Destroy

Spec == Init /\ [][Next]_vars

Fairness ==
  \A p \in Procs :
    /\ SF_vars(MapAcquire(p))
    /\ SF_vars(Acquire(p) /\ UNCHANGED mapVars)
    /\ WF_vars(MapStep(p))

FairSpec == Spec /\ Fairness

-----------------------------------------------------------------------------
(* However a call ends, by return, by bad_alloc or by out_of_range, the map's *)
(* semaphore is given back: it is missing only while someone is inside.       *)
MapSemaphoreIsLock ==
  Cardinality({p \in Procs : mpc[p] \in MapHolding}) = 1 - mapSem

(* The map never points at memory that was given back, and no node is lost:   *)
(* one that is neither in the map nor given back is in the hands of a call,   *)
(* or of a process that died in one.                                          *)
NodesLive ==
  /\ \A k \in DOMAIN nodes : nodes[k] \in handed \ freed
  /\ \A b \in handed \ freed :
       b.len = NodeLen
         => \/ \E k \in DOMAIN nodes : nodes[k] = b
            \/ \E p \in Procs : mpc[p] \in {"new", "drop", "aborted"}

(* No process was ended by an exception in the middle of a map call. *)
NoAbort == \A p \in Procs : mpc[p] \notin {"aborted", "died"}

(* A call on the map ends the process only for a node that reaches the end of *)
(* the region, which takes two processes that passed allocate's test together. *)
AbortNeedsOvershoot ==
  (\A b \in handed : b.len = NodeLen => End(b) < Size) => NoAbort

(* Every call on the map returns or throws, although two semaphores are held  *)
(* one inside the other, unless a process died with the map's semaphore.      *)
MapCallReturns ==
  \A p \in Procs :
    mpc[p] = "wait" ~> (mpc[p] = "out" \/ \E q \in Procs : mpc[q] = "aborted")
=============================================================================
