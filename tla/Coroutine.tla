----------------------------- MODULE Coroutine -----------------------------
(***************************************************************************)
(* http::utils::Coroutine of hw6 (hw7 has the same files): the thread-local *)
(* Ordinator with its vector of routines and its queue of finished ids, and *)
(* create, resume, yield and entry.                                         *)
(*                                                                          *)
(* The operations are operators on the ordinator's value, so that the       *)
(* server worker can use them inside its own steps; the specification at    *)
(* the end runs them for a scheduler that resumes a routine only while it   *)
(* is unfinished.                                                           *)
(*                                                                          *)
(* entry() binds `auto& routine` to an element of the vector and uses it    *)
(* again after the routine's function has returned, any number of yields    *)
(* later.  When emplace_back has meanwhile moved the elements to a larger   *)
(* buffer the reference is dangling: its writes go to freed memory and the  *)
(* element keeps its old values.  `bound` says whether the reference still  *)
(* denotes the element.                                                     *)
(***************************************************************************)
EXTENDS Naturals, Sequences

CONSTANT MaxRoutines     \* bound: size the vector grows to

ASSUME CoroutineAssumption == MaxRoutines \in Nat

VARIABLE ordinator

Routine == [finished : BOOLEAN, exception : BOOLEAN, bound : BOOLEAN,
            ctx : {"entry", "running", "yielded", "dead"}]

(* Routine's constructor: its context starts at entry(). *)
NewRoutine == [finished |-> FALSE, exception |-> FALSE, bound |-> TRUE, ctx |-> "entry"]

EmptyOrdinator == [routines |-> <<>>, capacity |-> 0, finished |-> <<>>, current |-> 0]

(* The elements after a move to a larger buffer: a frame of entry() that is   *)
(* suspended keeps a reference to the old one.                                *)
Moved(rs) ==
  [i \in 1..Len(rs) |->
     IF rs[i].ctx = "yielded" THEN [rs[i] EXCEPT !.bound = FALSE] ELSE rs[i]]

(* routines.emplace_back(function); libstdc++ doubles the capacity. *)
EmplaceBack(o) ==
  IF Len(o.routines) < o.capacity
  THEN [o EXCEPT !.routines = Append(@, NewRoutine)]
  ELSE [o EXCEPT !.routines = Append(Moved(@), NewRoutine),
                 !.capacity = IF @ = 0 THEN 1 ELSE 2 * @]

(* The id create() returns: the oldest finished one, or a new one. *)
CreatedId(o) ==
  IF o.finished = <<>> THEN Len(o.routines) + 1 ELSE Head(o.finished)

(* A slip: the id is read from the queue and left in it. *)
BadCreateRoutine(o) ==
  IF o.finished = <<>> THEN EmplaceBack(o)
  ELSE [o EXCEPT !.routines[Head(o.finished)] = NewRoutine]

(* A slip: reset() does not clear the flags. *)
StaleCreateRoutine(o) ==
  IF o.finished = <<>> THEN EmplaceBack(o)
  ELSE [o EXCEPT !.finished = Tail(@),
                 !.routines[Head(o.finished)].ctx = "entry"]

CreateRoutine(o) ==
  IF o.finished = <<>>
  THEN EmplaceBack(o)
  ELSE [o EXCEPT !.finished = Tail(@),
                 !.routines[Head(o.finished)] = NewRoutine]

(* resume() returns false for an id that is unknown or flagged finished. *)
CanResume(o, id) == id \in 1..Len(o.routines) /\ ~o.routines[id].finished

(* o.current = id; swapcontext.  A routine resumed for the first time begins  *)
(* entry(), which binds its reference.                                        *)
SwitchTo(o, id) ==
  [o EXCEPT !.current = id, !.routines[id].ctx = "running"]

YieldRoutine(o) ==
  [o EXCEPT !.current = 0, !.routines[o.current].ctx = "yielded"]

(* The end of entry(): the exception and the flag are written through the     *)
(* reference, the id is queued whatever became of them.                       *)
EndRoutine(o, thrown) ==
  LET id == o.current
      r  == o.routines[id]
  IN  [o EXCEPT !.current = 0,
                !.finished = Append(@, id),
                !.routines[id] = IF r.bound
                                 THEN [r EXCEPT !.ctx = "dead", !.finished = TRUE,
                                                !.exception = thrown]
                                 ELSE [r EXCEPT !.ctx = "dead"]]

-----------------------------------------------------------------------------
CoInit == ordinator = EmptyOrdinator

Create ==
  /\ ordinator.current = 0
  /\ CreatedId(ordinator) <= MaxRoutines
  /\ ordinator' = CreateRoutine(ordinator)

Resume(id) ==
  /\ ordinator.current = 0
  /\ CanResume(ordinator, id)
  /\ ordinator.routines[id].ctx # "dead"
  /\ ordinator' = SwitchTo(ordinator, id)

Yield ==
  /\ ordinator.current # 0
  /\ ordinator' = YieldRoutine(ordinator)

Return(thrown) ==
  /\ ordinator.current # 0
  /\ ordinator' = EndRoutine(ordinator, thrown)

CoNext ==
  \/ Create
  \/ \E id \in 1..MaxRoutines : Resume(id)
  \/ Yield
  \/ \E thrown \in BOOLEAN : Return(thrown)

CoSpec == CoInit /\ [][CoNext]_ordinator

-----------------------------------------------------------------------------
(* Types of the ordinator. *)
CoTypeOK ==
  /\ ordinator \in [routines : Seq(Routine), capacity : Nat, finished : Seq(Nat), current : Nat]
  /\ Len(ordinator.routines) <= ordinator.capacity
  /\ \A i \in 1..Len(ordinator.finished) : ordinator.finished[i] \in 1..Len(ordinator.routines)
  /\ ordinator.current \in 0..Len(ordinator.routines)

(* An id waits for reuse exactly when its routine has ended, and waits once:  *)
(* create() never gives out the id of a routine that is still alive.          *)
PoolConsistent ==
  /\ \A i, j \in 1..Len(ordinator.finished) :
       ordinator.finished[i] = ordinator.finished[j] => i = j
  /\ \A id \in 1..Len(ordinator.routines) :
       ordinator.routines[id].ctx = "dead"
         <=> \E i \in 1..Len(ordinator.finished) : ordinator.finished[i] = id

(* current() is the routine whose stack is running. *)
CurrentRuns ==
  \A id \in 1..Len(ordinator.routines) :
    ordinator.routines[id].ctx = "running" <=> ordinator.current = id

(* A flag that is set tells the truth: resume() never turns away a routine    *)
(* that could go on, and it rethrows only for one that has ended.             *)
FlagsSound ==
  \A id \in 1..Len(ordinator.routines) :
    LET r == ordinator.routines[id]
    IN  /\ r.finished => r.ctx = "dead"
        /\ r.exception => r.finished
=============================================================================
