--------------------------- MODULE HttpWorkerProofs ---------------------------
(***************************************************************************)
(* Theorems about the coroutines for every bound on the number of routines,  *)
(* and so for a vector that is reallocated any number of times; and about    *)
(* one ServerWorker that runs them, for any number of peers, descriptors and *)
(* routines, any timeouts and any length of the responses.                   *)
(***************************************************************************)
EXTENDS HttpWorker, FiniteSetTheorems, SequenceTheorems, WellFoundedInduction, TLAPS

Routines == ordinator.routines
Finished == ordinator.finished

CoInv == CoTypeOK /\ PoolConsistent /\ CurrentRuns /\ FlagsSound

(* The routines whose function has not returned. *)
Alive == {id \in 1..Len(Routines) : Routines[id].ctx # "dead"}

LEMMA CoInvInit == CoInit => CoInv
BY CoroutineAssumption
   DEF CoInit, EmptyOrdinator, CoInv, CoTypeOK, PoolConsistent, CurrentRuns, FlagsSound

(* Moving the elements changes nothing of them but whether entry()'s reference *)
(* still denotes them.                                                         *)
LEMMA MovedKeeps ==
  ASSUME NEW rs \in Seq(Routine)
  PROVE  /\ Moved(rs) \in Seq(Routine)
         /\ Len(Moved(rs)) = Len(rs)
         /\ \A i \in 1..Len(rs) : /\ Moved(rs)[i].ctx = rs[i].ctx
                                  /\ Moved(rs)[i].finished = rs[i].finished
                                  /\ Moved(rs)[i].exception = rs[i].exception
<1>1. \A i \in 1..Len(rs) : rs[i] \in Routine
  OBVIOUS
<1>2. \A i \in 1..Len(rs) : /\ Moved(rs)[i] \in Routine
                            /\ Moved(rs)[i].ctx = rs[i].ctx
                            /\ Moved(rs)[i].finished = rs[i].finished
                            /\ Moved(rs)[i].exception = rs[i].exception
  BY <1>1 DEF Moved, Routine
<1>3. Moved(rs) \in Seq(Routine) /\ Len(Moved(rs)) = Len(rs)
  BY <1>2 DEF Moved
<1> QED
  BY <1>2, <1>3

(* What is true of the flags of every element. *)
Truthful(r) ==
  /\ r.finished => r.ctx = "dead"
  /\ r.exception => r.finished

(* emplace_back in a vector that has room or moves, and what is visible of it. *)
LEMMA Emplaced ==
  ASSUME CoInv, ordinator.current = 0, Finished = <<>>
  PROVE  \E rs \in Seq(Routine), capacity \in Nat :
           /\ Len(rs) = Len(Routines) /\ Len(Routines) + 1 <= capacity
           /\ \A i \in 1..Len(Routines) : /\ rs[i].ctx = Routines[i].ctx
                                           /\ rs[i].finished = Routines[i].finished
                                           /\ rs[i].exception = Routines[i].exception
           /\ EmplaceBack(ordinator) = [routines |-> Append(rs, NewRoutine),
                                        capacity |-> capacity,
                                        finished |-> <<>>, current |-> 0]
<1> DEFINE n == Len(Routines)
           rs == IF n < ordinator.capacity THEN Routines ELSE Moved(Routines)
           capacity == IF n < ordinator.capacity THEN ordinator.capacity
                       ELSE IF ordinator.capacity = 0 THEN 1 ELSE 2 * ordinator.capacity
<1>1. /\ ordinator \in [routines : Seq(Routine), capacity : Nat, finished : Seq(Nat),
                         current : Nat]
      /\ n \in Nat /\ n <= ordinator.capacity
  BY DEF CoInv, CoTypeOK, Routines
<1>2. /\ rs \in Seq(Routine) /\ Len(rs) = n
      /\ \A i \in 1..n : /\ rs[i].ctx = Routines[i].ctx
                         /\ rs[i].finished = Routines[i].finished
                         /\ rs[i].exception = Routines[i].exception
  BY <1>1, MovedKeeps DEF Routines
<1>3. capacity \in Nat /\ n + 1 <= capacity
  BY <1>1
<1>4. EmplaceBack(ordinator) = [routines |-> Append(rs, NewRoutine), capacity |-> capacity,
                               finished |-> <<>>, current |-> 0]
  BY <1>1 DEF EmplaceBack, Finished, Routines
<1> HIDE DEF rs, capacity
<1> QED
  BY <1>2, <1>3, <1>4

(* create() with no finished id, whatever becomes of the elements' references; *)
(* the new routine may be resumed at once.                                     *)
LEMMA Appended ==
  ASSUME CoInv, ordinator.current = 0, Finished = <<>>,
         NEW rs \in Seq(Routine), NEW capacity \in Nat,
         Len(rs) = Len(Routines), Len(Routines) + 1 <= capacity,
         \A i \in 1..Len(Routines) : /\ rs[i].ctx = Routines[i].ctx
                                     /\ rs[i].finished = Routines[i].finished
                                     /\ rs[i].exception = Routines[i].exception,
         NEW fresh \in Routine, fresh.ctx \in {"entry", "running"},
         fresh.finished = FALSE, fresh.exception = FALSE,
         NEW current, current = IF fresh.ctx = "running" THEN Len(Routines) + 1 ELSE 0,
         ordinator' = [routines |-> Append(rs, fresh), capacity |-> capacity,
                       finished |-> <<>>, current |-> current]
  PROVE  /\ CoInv'
         /\ Len(Routines) + 1 \notin Alive /\ Alive' = Alive \cup {Len(Routines) + 1}
<1> DEFINE n == Len(Routines)
<1>1. /\ ordinator \in [routines : Seq(Routine), capacity : Nat, finished : Seq(Nat),
                         current : Nat]
      /\ n \in Nat
  BY DEF CoInv, CoTypeOK, Routines
<1>5. /\ Append(rs, fresh) \in Seq(Routine)
      /\ Len(Append(rs, fresh)) = n + 1
      /\ \A i \in 1..n : Append(rs, fresh)[i] = rs[i]
      /\ Append(rs, fresh)[n + 1] = fresh
  BY <1>1
<1>7. /\ ordinator' \in [routines : Seq(Routine), capacity : Nat, finished : Seq(Nat),
                          current : Nat]
      /\ ordinator'.routines = Append(rs, fresh)
      /\ ordinator'.capacity = capacity
      /\ ordinator'.finished = <<>> /\ ordinator'.current = current
      /\ current \in 0..(n + 1)
  BY <1>1, <1>5
<1>8. CoTypeOK'
  BY <1>1, <1>5, <1>7 DEF CoTypeOK
<1>old. \A i \in 1..n : /\ ordinator'.routines[i].ctx = Routines[i].ctx
                        /\ ordinator'.routines[i].finished = Routines[i].finished
                        /\ ordinator'.routines[i].exception = Routines[i].exception
  BY <1>5, <1>7
<1>new. ordinator'.routines[n + 1] = fresh /\ Len(ordinator'.routines) = n + 1
  BY <1>5, <1>7
<1>either. \A id \in 1..(n + 1) : id \in 1..n \/ id = n + 1
  BY <1>1
<1>9. \A id \in 1..n : Routines[id].ctx \notin {"dead", "running"}
  BY <1>1 DEF CoInv, PoolConsistent, CurrentRuns, Finished, Routines
<1>10. PoolConsistent'
  <2>1. \A id \in 1..(n + 1) : ordinator'.routines[id].ctx # "dead"
    BY <1>old, <1>new, <1>either, <1>9
  <2> QED
    BY <1>new, <1>7, <2>1 DEF PoolConsistent
<1>11. CurrentRuns'
  <2>0. \A id \in 1..n : current # id
    BY <1>1
  <2>1. \A id \in 1..n : ordinator'.routines[id].ctx # "running" /\ current # id
    BY <1>old, <1>9, <2>0
  <2>2. ordinator'.routines[n + 1].ctx = "running" <=> current = n + 1
    BY <1>1, <1>new
  <2>3. \A id \in 1..(n + 1) : ordinator'.routines[id].ctx = "running" <=> current = id
    BY <1>either, <2>1, <2>2, Zenon
  <2> QED
    BY <1>new, <1>7, <2>3, Zenon DEF CurrentRuns
<1>12. FlagsSound'
  <2>1. \A id \in 1..n : /\ Routines[id].finished => Routines[id].ctx = "dead"
                         /\ Routines[id].exception => Routines[id].finished
    BY DEF CoInv, FlagsSound, Routines
  <2>2. \A id \in 1..n : LET r == ordinator'.routines[id]
                         IN  /\ r.finished => r.ctx = "dead"
                             /\ r.exception => r.finished
    BY <1>old, <2>1, Zenon
  <2>3. ~ordinator'.routines[n + 1].finished /\ ~ordinator'.routines[n + 1].exception
    BY <1>new
  <2> QED
    BY <1>new, <1>either, <2>2, <2>3, Zenon DEF FlagsSound
<1>13. n + 1 \notin Alive /\ Alive' = Alive \cup {n + 1}
  <2>1. Routines' = ordinator'.routines
    BY DEF Routines
  <2>2. Alive = 1..n
    BY <1>9 DEF Alive
  <2>3. Alive' = 1..(n + 1)
    BY <1>new, <1>old, <1>either, <1>9, <2>1 DEF Alive
  <2> QED
    BY <1>1, <2>2, <2>3
<1> QED
  BY <1>8, <1>10, <1>11, <1>12, <1>13 DEF CoInv

(* What an operation that touches routine k alone leaves of the invariant. *)
LEMMA OneRoutine ==
  ASSUME CoInv, NEW k \in 1..Len(Routines), NEW r \in Routine, Truthful(r),
         NEW finished \in Seq(Nat), NEW current \in 0..Len(Routines),
         ordinator' = [routines |-> [Routines EXCEPT ![k] = r],
                       capacity |-> ordinator.capacity,
                       finished |-> finished, current |-> current],
         \A i \in 1..Len(finished) : finished[i] \in 1..Len(Routines)
  PROVE  /\ Routines' = [Routines EXCEPT ![k] = r] /\ Len(Routines') = Len(Routines)
         /\ ordinator'.finished = finished /\ ordinator'.current = current
         /\ CoTypeOK' /\ FlagsSound'
<1>1. /\ Routines \in Seq(Routine) /\ Len(Routines) \in Nat
      /\ Len(Routines) <= ordinator.capacity /\ ordinator.capacity \in Nat
  BY DEF CoInv, CoTypeOK, Routines
<1>2. /\ ordinator'.routines = [Routines EXCEPT ![k] = r]
      /\ ordinator'.capacity = ordinator.capacity
      /\ ordinator'.finished = finished /\ ordinator'.current = current
  OBVIOUS
<1>3. /\ [Routines EXCEPT ![k] = r] \in Seq(Routine)
      /\ Len([Routines EXCEPT ![k] = r]) = Len(Routines)
      /\ \A i \in 1..Len(Routines) : i # k => [Routines EXCEPT ![k] = r][i] = Routines[i]
      /\ [Routines EXCEPT ![k] = r][k] = r
  BY <1>1
<1>4. ordinator' \in [routines : Seq(Routine), capacity : Nat, finished : Seq(Nat), current : Nat]
  BY <1>1, <1>3
<1>5. CoTypeOK'
  BY <1>1, <1>2, <1>3, <1>4 DEF CoTypeOK
<1>6. \A id \in 1..Len(Routines) : Truthful(Routines[id])
  BY DEF CoInv, FlagsSound, Routines, Truthful
<1>7. \A id \in 1..Len(Routines) : Truthful([Routines EXCEPT ![k] = r][id])
  BY <1>3, <1>6
<1>8. FlagsSound'
  BY <1>2, <1>3, <1>7, Zenon DEF FlagsSound, Truthful
<1> QED
  BY <1>2, <1>3, <1>5, <1>8 DEF Routines

(* create() with a finished id, which may be resumed at once. *)
LEMMA Reused ==
  ASSUME CoInv, ordinator.current = 0, Finished # <<>>,
         NEW fresh \in Routine, fresh.ctx \in {"entry", "running"}, Truthful(fresh),
         NEW current, current = IF fresh.ctx = "running" THEN Head(Finished) ELSE 0,
         ordinator' = [routines |-> [Routines EXCEPT ![Head(Finished)] = fresh],
                       capacity |-> ordinator.capacity,
                       finished |-> Tail(Finished), current |-> current]
  PROVE  CoInv' /\ Head(Finished) \notin Alive /\ Alive' = Alive \cup {Head(Finished)}
<1> DEFINE k == Head(Finished)
<1>1. /\ ordinator \in [routines : Seq(Routine), capacity : Nat, finished : Seq(Nat),
                         current : Nat]
      /\ Finished \in Seq(Nat) /\ Len(Routines) \in Nat
      /\ \A i \in 1..Len(Finished) : Finished[i] \in 1..Len(Routines)
      /\ ordinator.current = 0 /\ 0 \in 0..Len(Routines)
  BY DEF CoInv, CoTypeOK, Finished, Routines
<1>2. /\ k = Finished[1] /\ k \in 1..Len(Routines)
      /\ Tail(Finished) \in Seq(Nat) /\ Len(Tail(Finished)) = Len(Finished) - 1
      /\ \A i \in 1..Len(Tail(Finished)) : /\ i + 1 \in 1..Len(Finished)
                                           /\ Tail(Finished)[i] = Finished[i + 1]
      /\ Len(Finished) \in Nat \ {0}
  BY <1>1
<1>3. current \in 0..Len(Routines) /\ current = IF fresh.ctx = "running" THEN k ELSE 0
  BY <1>1, <1>2
<1>4. ordinator' = [routines |-> [Routines EXCEPT ![k] = fresh],
                    capacity |-> ordinator.capacity,
                    finished |-> Tail(Finished), current |-> current]
  OBVIOUS
<1> HIDE DEF k
<1>5. /\ Routines' = [Routines EXCEPT ![k] = fresh] /\ Len(Routines') = Len(Routines)
      /\ ordinator'.finished = Tail(Finished) /\ ordinator'.current = current
      /\ CoTypeOK' /\ FlagsSound'
  <2>1. \A i \in 1..Len(Tail(Finished)) : Tail(Finished)[i] \in 1..Len(Routines)
    BY <1>1, <1>2
  <2> QED
    BY <1>1, <1>2, <1>3, <1>4, <2>1, OneRoutine
<1>6. /\ \A i, j \in 1..Len(Finished) : Finished[i] = Finished[j] => i = j
      /\ \A id \in 1..Len(Routines) :
           Routines[id].ctx = "dead" <=> \E i \in 1..Len(Finished) : Finished[i] = id
  BY DEF CoInv, PoolConsistent, Finished, Routines
<1>7. \A id \in 1..Len(Routines) :
        (\E i \in 1..Len(Tail(Finished)) : Tail(Finished)[i] = id)
          <=> id # k /\ \E i \in 1..Len(Finished) : Finished[i] = id
  <2>1. ASSUME NEW id \in 1..Len(Routines), NEW i \in 1..Len(Tail(Finished)),
               Tail(Finished)[i] = id
        PROVE  id # k /\ \E j \in 1..Len(Finished) : Finished[j] = id
    BY <1>2, <1>6, <2>1
  <2>2. ASSUME NEW id \in 1..Len(Routines), id # k,
               NEW j \in 1..Len(Finished), Finished[j] = id
        PROVE  \E i \in 1..Len(Tail(Finished)) : Tail(Finished)[i] = id
    <3>1. j # 1 /\ j - 1 \in 1..Len(Tail(Finished)) /\ (j - 1) + 1 = j
      BY <1>2, <2>2
    <3> QED
      BY <1>2, <2>2, <3>1
  <2> QED
    BY <2>1, <2>2
<1>8. \A id \in 1..Len(Routines) :
        /\ id # k => Routines'[id] = Routines[id]
        /\ id = k => Routines'[id] = fresh
  BY <1>1, <1>5 DEF CoInv, CoTypeOK, Routines
<1>9. PoolConsistent'
  <2>1. \A i, j \in 1..Len(Tail(Finished)) : Tail(Finished)[i] = Tail(Finished)[j] => i = j
    BY <1>2, <1>6
  <2>2. \A id \in 1..Len(Routines) :
          Routines'[id].ctx = "dead"
            <=> \E i \in 1..Len(Tail(Finished)) : Tail(Finished)[i] = id
    BY <1>3, <1>6, <1>7, <1>8
  <2>3. ordinator'.finished = Tail(Finished) /\ Len(Routines') = Len(Routines)
        /\ ordinator'.routines = Routines'
    BY <1>5 DEF Routines
  <2> QED
    BY ONLY <2>1, <2>2, <2>3 DEF PoolConsistent
<1>10. CurrentRuns'
  <2>1. \A id \in 1..Len(Routines) : Routines[id].ctx # "running"
    BY ONLY CoInv, <1>1 DEF CoInv, CurrentRuns, Routines
  <2>2. \A id \in 1..Len(Routines) : Routines'[id].ctx = "running" <=> current = id
    <3> TAKE id \in 1..Len(Routines)
    <3>1. CASE id = k
      BY <1>2, <1>3, <1>8, <3>1
    <3>2. CASE id # k
      <4>1. Routines'[id].ctx # "running"
        BY <1>8, <2>1, <3>2
      <4>2. current # id
        BY <1>1, <1>3, <3>2
      <4> QED
        BY <4>1, <4>2
    <3> QED
      BY <3>1, <3>2
  <2>3. \A id \in 1..Len(Routines') : Routines'[id].ctx = "running" <=> ordinator'.current = id
    BY <1>5, <2>2, Zenon
  <2> QED
    BY <2>3, Zenon DEF CurrentRuns, Routines
<1>11. k \notin Alive /\ Alive' = Alive \cup {k}
  <2>1. Routines[k].ctx = "dead"
    BY <1>2, <1>6
  <2> QED
    BY <1>2, <1>5, <1>8, <2>1 DEF Alive
<1> QED
  BY <1>5, <1>9, <1>10, <1>11 DEF CoInv, k

(* create(), *)
LEMMA CreateStep ==
  ASSUME CoInv, Create
  PROVE  CoInv'
<1>1. /\ ordinator \in [routines : Seq(Routine), capacity : Nat, finished : Seq(Nat),
                         current : Nat]
      /\ ordinator.current = 0 /\ ordinator' = CreateRoutine(ordinator)
  BY DEF CoInv, CoTypeOK, Create
<1>2. /\ NewRoutine \in Routine /\ NewRoutine.ctx = "entry" /\ Truthful(NewRoutine)
      /\ NewRoutine.finished = FALSE /\ NewRoutine.exception = FALSE
  BY DEF NewRoutine, Routine, Truthful
<1>3. CASE Finished = <<>>
  <2>1. ordinator' = EmplaceBack(ordinator)
    BY <1>1, <1>3 DEF CreateRoutine, Finished
  <2>2. PICK rs \in Seq(Routine), capacity \in Nat :
           /\ Len(rs) = Len(Routines) /\ Len(Routines) + 1 <= capacity
           /\ \A i \in 1..Len(Routines) : /\ rs[i].ctx = Routines[i].ctx
                                           /\ rs[i].finished = Routines[i].finished
                                           /\ rs[i].exception = Routines[i].exception
           /\ EmplaceBack(ordinator) = [routines |-> Append(rs, NewRoutine),
                                        capacity |-> capacity,
                                        finished |-> <<>>, current |-> 0]
    BY <1>1, <1>3, Emplaced
  <2>3. ordinator' = [routines |-> Append(rs, NewRoutine), capacity |-> capacity,
                      finished |-> <<>>, current |-> 0]
    BY <2>1, <2>2
  <2> QED
    BY <1>1, <1>2, <1>3, <2>2, <2>3, Appended
<1>4. CASE Finished # <<>>
  <2>1. ordinator' = [routines |-> [Routines EXCEPT ![Head(Finished)] = NewRoutine],
                      capacity |-> ordinator.capacity,
                      finished |-> Tail(Finished), current |-> 0]
    BY <1>1, <1>4 DEF CreateRoutine, Finished, Routines
  <2> QED
    BY <1>1, <1>2, <1>4, <2>1, Reused
<1> QED
  BY <1>3, <1>4

LEMMA NewIsRoutine == NewRoutine \in Routine
BY DEF NewRoutine, Routine

LEMMA Switched ==
  ASSUME NEW o \in [routines : Seq(Routine), capacity : Nat, finished : Seq(Nat), current : Nat],
         NEW id \in 1..Len(o.routines), NEW p, p = SwitchTo(o, id)
  PROVE  p = [routines |-> [o.routines EXCEPT ![id] = [o.routines[id] EXCEPT !.ctx = "running"]],
              capacity |-> o.capacity, finished |-> o.finished, current |-> id]
BY DEF SwitchTo

LEMMA AppendExcept ==
  ASSUME NEW S, NEW rs \in Seq(S), NEW x \in S, NEW y \in S
  PROVE  [Append(rs, x) EXCEPT ![Len(rs) + 1] = y] = Append(rs, y)
<1> DEFINE a == [Append(rs, x) EXCEPT ![Len(rs) + 1] = y]
           b == Append(rs, y)
<1>1. /\ Append(rs, x) \in Seq(S) /\ Len(Append(rs, x)) = Len(rs) + 1
      /\ \A i \in 1..Len(rs) : Append(rs, x)[i] = rs[i]
  OBVIOUS
<1>2. a \in Seq(S) /\ Len(a) = Len(rs) + 1
  BY <1>1
<1>3. b \in Seq(S) /\ Len(b) = Len(rs) + 1
  OBVIOUS
<1>4. \A i \in 1..Len(rs) + 1 : a[i] = b[i]
  <2> TAKE i \in 1..Len(rs) + 1
  <2>1. CASE i = Len(rs) + 1
    BY <1>1, <2>1
  <2>2. CASE i # Len(rs) + 1
    <3>1. i \in 1..Len(rs) /\ i \in DOMAIN Append(rs, x) /\ b[i] = rs[i]
      BY <1>1, <2>2
    <3> QED
      BY <1>1, <2>2, <3>1
  <2> QED
    BY <2>1, <2>2
<1> QED
  BY <1>2, <1>3, <1>4, SeqEqual

(* and create() followed by resume() of what it returned. *)
LEMMA CreateAndResume ==
  ASSUME CoInv, ordinator.current = 0,
         ordinator' = SwitchTo(CreateRoutine(ordinator), CreatedId(ordinator))
  PROVE  /\ CoInv' /\ ordinator'.current = CreatedId(ordinator)
         /\ CreatedId(ordinator) \notin Alive
         /\ Alive' = Alive \cup {CreatedId(ordinator)}
<1> DEFINE fresh == [NewRoutine EXCEPT !.ctx = "running"]
<1>1. /\ ordinator \in [routines : Seq(Routine), capacity : Nat, finished : Seq(Nat),
                         current : Nat]
      /\ Len(Routines) \in Nat /\ Finished \in Seq(Nat)
      /\ \A i \in 1..Len(Finished) : Finished[i] \in 1..Len(Routines)
  BY DEF CoInv, CoTypeOK, Routines, Finished
<1>2. /\ fresh \in Routine /\ fresh.ctx = "running" /\ Truthful(fresh)
      /\ fresh.finished = FALSE /\ fresh.exception = FALSE
  BY DEF NewRoutine, Routine, Truthful
<1>3. CASE Finished = <<>>
  <2>1. PICK rs \in Seq(Routine), capacity \in Nat :
           /\ Len(rs) = Len(Routines) /\ Len(Routines) + 1 <= capacity
           /\ \A i \in 1..Len(Routines) : /\ rs[i].ctx = Routines[i].ctx
                                           /\ rs[i].finished = Routines[i].finished
                                           /\ rs[i].exception = Routines[i].exception
           /\ EmplaceBack(ordinator) = [routines |-> Append(rs, NewRoutine),
                                        capacity |-> capacity,
                                        finished |-> <<>>, current |-> 0]
    BY <1>3, Emplaced
  <2>2. CreatedId(ordinator) = Len(Routines) + 1
    BY <1>3 DEF CreatedId, Finished, Routines
  <2>3. CreateRoutine(ordinator) = EmplaceBack(ordinator)
    BY <1>3 DEF CreateRoutine, Finished
  <2> DEFINE o == CreateRoutine(ordinator)
  <2>o. /\ o \in [routines : Seq(Routine), capacity : Nat, finished : Seq(Nat), current : Nat]
        /\ o.routines = Append(rs, NewRoutine) /\ o.capacity = capacity /\ o.finished = <<>>
        /\ o.routines[Len(Routines) + 1] = NewRoutine
        /\ Len(Routines) + 1 \in 1..Len(o.routines)
    BY <1>1, <2>1, <2>3, NewIsRoutine
  <2>5. ordinator' = [routines |-> Append(rs, fresh), capacity |-> capacity,
                      finished |-> <<>>, current |-> Len(Routines) + 1]
    <3>1. ordinator' = SwitchTo(o, Len(Routines) + 1)
      BY <2>2
    <3> HIDE DEF o, fresh
    <3>2. [Append(rs, NewRoutine) EXCEPT ![Len(Routines) + 1] = fresh] = Append(rs, fresh)
      BY <1>2, <2>1, NewIsRoutine, AppendExcept
    <3>3. ordinator' = [routines |-> [o.routines EXCEPT ![Len(Routines) + 1] =
                                        [o.routines[Len(Routines) + 1] EXCEPT !.ctx = "running"]],
                        capacity |-> o.capacity, finished |-> o.finished,
                        current |-> Len(Routines) + 1]
      BY <2>o, <3>1, Switched
    <3> QED
      BY <2>o, <3>2, <3>3 DEF fresh
  <2> HIDE DEF fresh
  <2>6. ordinator'.current = CreatedId(ordinator)
    BY <2>2, <2>5
  <2>7. /\ CoInv'
        /\ Len(Routines) + 1 \notin Alive /\ Alive' = Alive \cup {Len(Routines) + 1}
    BY <1>1, <1>2, <1>3, <2>1, <2>5, Appended
  <2> QED
    BY <2>2, <2>6, <2>7
<1>4. CASE Finished # <<>>
  <2> DEFINE k == Head(Finished)
  <2>1. CreatedId(ordinator) = k /\ k \in 1..Len(Routines)
    BY <1>1, <1>4 DEF CreatedId, Finished
  <2>2. CreateRoutine(ordinator) = [routines |-> [Routines EXCEPT ![k] = NewRoutine],
                                    capacity |-> ordinator.capacity,
                                    finished |-> Tail(Finished), current |-> 0]
    BY <1>1, <1>4 DEF CreateRoutine, Finished, Routines
  <2> DEFINE o == CreateRoutine(ordinator)
  <2>o. /\ o \in [routines : Seq(Routine), capacity : Nat, finished : Seq(Nat), current : Nat]
        /\ o.routines = [Routines EXCEPT ![k] = NewRoutine]
        /\ o.capacity = ordinator.capacity /\ o.finished = Tail(Finished)
        /\ o.routines[k] = NewRoutine /\ k \in 1..Len(o.routines)
    BY <1>1, <1>4, <2>1, <2>2, NewIsRoutine DEF Routines
  <2>4. ordinator' = [routines |-> [Routines EXCEPT ![k] = fresh],
                      capacity |-> ordinator.capacity,
                      finished |-> Tail(Finished), current |-> k]
    <3>1. ordinator' = SwitchTo(o, k)
      BY <2>1
    <3> HIDE DEF o, k, fresh
    <3>2. [[Routines EXCEPT ![k] = NewRoutine] EXCEPT ![k] = fresh] = [Routines EXCEPT ![k] = fresh]
      OBVIOUS
    <3> QED
      BY <2>o, <3>1, <3>2, Switched DEF fresh
  <2> HIDE DEF fresh
  <2>5. ordinator'.current = CreatedId(ordinator)
    BY <2>1, <2>4
  <2> QED
    BY <1>1, <1>2, <1>4, <2>1, <2>4, <2>5, Reused
<1> QED
  BY <1>3, <1>4

(* A step that gives routine k another context, neither of the two dead, and   *)
(* leaves the queue alone: resume() and yield().                               *)
LEMMA SwitchStep ==
  ASSUME CoInv, NEW k \in 1..Len(Routines), NEW r \in Routine, Truthful(r),
         r.ctx # "dead", Routines[k].ctx # "dead", NEW current \in 0..Len(Routines),
         ordinator' = [routines |-> [Routines EXCEPT ![k] = r],
                       capacity |-> ordinator.capacity,
                       finished |-> Finished, current |-> current],
         r.ctx = "running" <=> current = k,
         \A id \in 1..Len(Routines) : id # k => (Routines[id].ctx = "running" <=> current = id)
  PROVE  CoInv' /\ Alive' = Alive
<1>1. /\ Routines \in Seq(Routine) /\ Len(Routines) \in Nat /\ Finished \in Seq(Nat)
      /\ \A i \in 1..Len(Finished) : Finished[i] \in 1..Len(Routines)
  BY DEF CoInv, CoTypeOK, Routines, Finished
<1>2. /\ Routines' = [Routines EXCEPT ![k] = r] /\ Len(Routines') = Len(Routines)
      /\ ordinator'.finished = Finished /\ ordinator'.current = current
      /\ CoTypeOK' /\ FlagsSound'
  BY <1>1, OneRoutine
<1>3. \A id \in 1..Len(Routines) : /\ id # k => Routines'[id] = Routines[id]
                                   /\ id = k => Routines'[id] = r
  BY <1>1, <1>2
<1>4. PoolConsistent'
  <2>1. \A id \in 1..Len(Routines) : Routines'[id].ctx = "dead" <=> Routines[id].ctx = "dead"
    <3> TAKE id \in 1..Len(Routines)
    <3>1. CASE id = k
      BY <1>3, <3>1
    <3>2. CASE id # k
      BY <1>3, <3>2
    <3> QED
      BY <3>1, <3>2
  <2>2. \A i, j \in 1..Len(Finished) : Finished[i] = Finished[j] => i = j
    BY DEF CoInv, PoolConsistent, Finished
  <2>3. \A id \in 1..Len(Routines) :
          Routines[id].ctx = "dead" <=> \E i \in 1..Len(Finished) : Finished[i] = id
    BY DEF CoInv, PoolConsistent, Finished, Routines
  <2>4. \A id \in 1..Len(Routines') :
          Routines'[id].ctx = "dead" <=> \E i \in 1..Len(Finished) : Finished[i] = id
    BY <1>2, <2>1, <2>3, Zenon
  <2> QED
    BY <1>2, <2>2, <2>4 DEF PoolConsistent, Routines
<1>5. CurrentRuns'
  <2>1. \A id \in 1..Len(Routines) : Routines'[id].ctx = "running" <=> current = id
    <3> TAKE id \in 1..Len(Routines)
    <3>1. CASE id = k
      BY <1>3, <3>1
    <3>2. CASE id # k
      BY <1>3, <3>2
    <3> QED
      BY <3>1, <3>2
  <2> QED
    BY <1>2, <2>1, Zenon DEF CurrentRuns, Routines
<1>6. Alive' = Alive
  <2>1. \A id \in 1..Len(Routines) : Routines'[id].ctx = "dead" <=> Routines[id].ctx = "dead"
    <3> TAKE id \in 1..Len(Routines)
    <3>1. CASE id = k
      BY <1>3, <3>1
    <3>2. CASE id # k
      BY <1>3, <3>2
    <3> QED
      BY <3>1, <3>2
  <2> QED
    BY <1>2, <2>1 DEF Alive
<1> QED
  BY <1>2, <1>4, <1>5, <1>6 DEF CoInv

LEMMA ResumeStep ==
  ASSUME CoInv, NEW id, Resume(id)
  PROVE  CoInv' /\ Alive' = Alive
<1> DEFINE r == [Routines[id] EXCEPT !.ctx = "running"]
<1>1. /\ ordinator \in [routines : Seq(Routine), capacity : Nat, finished : Seq(Nat),
                         current : Nat]
      /\ Routines \in Seq(Routine) /\ ordinator.current = 0
      /\ id \in 1..Len(Routines) /\ Len(Routines) \in Nat
      /\ Routines[id].ctx # "dead" /\ ~Routines[id].finished
      /\ \A j \in 1..Len(Routines) : Routines[j].ctx # "running"
  BY DEF CoInv, CoTypeOK, CurrentRuns, Resume, CanResume, Routines
<1>2. Routines[id] \in Routine /\ Truthful(Routines[id])
  BY <1>1 DEF CoInv, FlagsSound, Truthful, Routines
<1>3. /\ r \in Routine /\ r.ctx = "running"
      /\ r.finished = Routines[id].finished /\ r.exception = Routines[id].exception
  BY <1>2 DEF Routine
<1>4. Truthful(r)
  BY <1>1, <1>2, <1>3, Zenon DEF Truthful
<1>5. ordinator' = [routines |-> [Routines EXCEPT ![id] = r],
                    capacity |-> ordinator.capacity,
                    finished |-> Finished, current |-> id]
  BY <1>1 DEF Resume, SwitchTo, Finished, Routines
<1> HIDE DEF r
<1>6. \A j \in 1..Len(Routines) : j # id => (Routines[j].ctx = "running" <=> id = j)
  BY <1>1
<1>7. id \in 0..Len(Routines) /\ r.ctx # "dead" /\ (r.ctx = "running" <=> id = id)
  BY <1>1, <1>3
<1> QED
  BY <1>1, <1>3, <1>4, <1>5, <1>6, <1>7, SwitchStep, Zenon

LEMMA YieldStep ==
  ASSUME CoInv, Yield
  PROVE  CoInv' /\ Alive' = Alive
<1> DEFINE id == ordinator.current
           r == [Routines[id] EXCEPT !.ctx = "yielded"]
<1>1. /\ ordinator \in [routines : Seq(Routine), capacity : Nat, finished : Seq(Nat),
                         current : Nat]
      /\ Routines \in Seq(Routine) /\ id \in 1..Len(Routines) /\ Len(Routines) \in Nat
      /\ 0 \in 0..Len(Routines)
      /\ \A j \in 1..Len(Routines) : Routines[j].ctx = "running" <=> id = j
  BY DEF CoInv, CoTypeOK, CurrentRuns, Yield, Routines
<1>2. /\ Routines[id] \in Routine /\ Routines[id].ctx = "running"
      /\ Truthful(Routines[id])
  BY <1>1 DEF CoInv, FlagsSound, Truthful, Routines
<1>3. /\ r \in Routine /\ r.ctx = "yielded"
      /\ r.finished = Routines[id].finished /\ r.exception = Routines[id].exception
  BY <1>2 DEF Routine
<1>4. ~Routines[id].finished
  BY <1>2 DEF Truthful
<1>5. Truthful(r)
  BY <1>2, <1>3, <1>4, Zenon DEF Truthful
<1>6. ordinator' = [routines |-> [Routines EXCEPT ![id] = r],
                    capacity |-> ordinator.capacity,
                    finished |-> Finished, current |-> 0]
  BY <1>1 DEF Yield, YieldRoutine, Finished, Routines
<1> HIDE DEF r, id
<1>7. \A j \in 1..Len(Routines) : j # id => (Routines[j].ctx = "running" <=> 0 = j)
  BY <1>1
<1>8. /\ r.ctx # "dead" /\ Routines[id].ctx # "dead"
      /\ r.ctx = "running" <=> 0 = id
  BY <1>1, <1>2, <1>3
<1> QED
  BY <1>1, <1>3, <1>5, <1>6, <1>7, <1>8, SwitchStep, Zenon

(* The end of entry(): the flags are set or, after a move, left as they were.  *)
LEMMA ReturnStep ==
  ASSUME CoInv, NEW thrown \in BOOLEAN, Return(thrown)
  PROVE  CoInv' /\ Alive' = Alive \ {ordinator.current}
<1> DEFINE id == ordinator.current
           q == Routines[id]
           r == IF q.bound THEN [q EXCEPT !.ctx = "dead", !.finished = TRUE, !.exception = thrown]
                ELSE [q EXCEPT !.ctx = "dead"]
           finished == Append(Finished, id)
<1>1. /\ ordinator \in [routines : Seq(Routine), capacity : Nat, finished : Seq(Nat),
                         current : Nat]
      /\ Routines \in Seq(Routine) /\ Finished \in Seq(Nat)
      /\ id \in 1..Len(Routines) /\ Len(Routines) \in Nat /\ 0 \in 0..Len(Routines)
      /\ \A i \in 1..Len(Finished) : Finished[i] \in 1..Len(Routines)
      /\ \A j \in 1..Len(Routines) : Routines[j].ctx = "running" <=> id = j
  BY DEF CoInv, CoTypeOK, CurrentRuns, Return, Routines, Finished
<1>2. q \in Routine /\ q.ctx = "running" /\ Truthful(q)
  BY <1>1 DEF CoInv, FlagsSound, Truthful, Routines
<1>3. r \in Routine /\ r.ctx = "dead"
  BY <1>2 DEF Routine
<1>4. Truthful(r)
  <2>1. CASE q.bound
    <3>1. r.finished = TRUE
      BY <1>2, <2>1 DEF Routine
    <3> QED
      BY <1>3, <3>1 DEF Truthful
  <2>2. CASE ~q.bound
    <3>1. r.finished = q.finished /\ r.exception = q.exception
      BY <1>2, <2>2 DEF Routine
    <3> QED
      BY <1>2, <1>3, <3>1, Zenon DEF Truthful
  <2> QED
    BY <2>1, <2>2
<1>5. ordinator' = [routines |-> [Routines EXCEPT ![id] = r],
                    capacity |-> ordinator.capacity,
                    finished |-> finished, current |-> 0]
  BY <1>1 DEF Return, EndRoutine, Finished, Routines
<1>6. /\ finished \in Seq(Nat) /\ Len(finished) = Len(Finished) + 1
      /\ Len(Finished) \in Nat /\ finished[Len(Finished) + 1] = id
      /\ \A i \in 1..Len(Finished) : finished[i] = Finished[i]
  BY <1>1
<1> HIDE DEF id, r, finished
<1>7. \A i \in 1..Len(finished) :
        i \in 1..Len(Finished) \/ i = Len(Finished) + 1
  BY <1>6
<1>8. /\ Routines' = [Routines EXCEPT ![id] = r] /\ Len(Routines') = Len(Routines)
      /\ ordinator'.finished = finished /\ ordinator'.current = 0
      /\ CoTypeOK' /\ FlagsSound'
  <2>1. \A i \in 1..Len(finished) : finished[i] \in 1..Len(Routines)
    BY <1>1, <1>6, <1>7
  <2> QED
    BY <1>1, <1>3, <1>4, <1>5, <1>6, <2>1, OneRoutine
<1>9. \A j \in 1..Len(Routines) : /\ j # id => Routines'[j] = Routines[j]
                                  /\ j = id => Routines'[j] = r
  BY <1>1, <1>8
<1>10. /\ \A i, j \in 1..Len(Finished) : Finished[i] = Finished[j] => i = j
       /\ \A j \in 1..Len(Routines) :
            Routines[j].ctx = "dead" <=> \E i \in 1..Len(Finished) : Finished[i] = j
  BY DEF CoInv, PoolConsistent, Finished, Routines
<1>11. \A i \in 1..Len(Finished) : Finished[i] # id
  BY <1>1, <1>2, <1>10 DEF id
<1>12. PoolConsistent'
  <2>1. \A i, j \in 1..Len(finished) : finished[i] = finished[j] => i = j
    BY <1>6, <1>7, <1>10, <1>11
  <2>2. \A j \in 1..Len(Routines) :
          (\E i \in 1..Len(finished) : finished[i] = j)
            <=> j = id \/ \E i \in 1..Len(Finished) : Finished[i] = j
    BY <1>6, <1>7
  <2>3. \A j \in 1..Len(Routines) :
          Routines'[j].ctx = "dead" <=> j = id \/ Routines[j].ctx = "dead"
    <3> TAKE j \in 1..Len(Routines)
    <3>1. CASE j = id
      BY <1>3, <1>9, <3>1
    <3>2. CASE j # id
      BY <1>9, <3>2
    <3> QED
      BY <3>1, <3>2
  <2>4. \A j \in 1..Len(Routines') :
          Routines'[j].ctx = "dead" <=> \E i \in 1..Len(finished) : finished[i] = j
    BY <1>8, <1>10, <2>2, <2>3, Zenon
  <2> QED
    BY <1>8, <2>1, <2>4, Zenon DEF PoolConsistent, Routines
<1>13. CurrentRuns'
  <2>1. \A j \in 1..Len(Routines) : Routines'[j].ctx # "running" /\ 0 # j
    <3> TAKE j \in 1..Len(Routines)
    <3>1. CASE j = id
      BY <1>1, <1>3, <1>9, <3>1
    <3>2. CASE j # id
      <4>1. Routines'[j] = Routines[j] /\ Routines[j].ctx # "running"
        BY <1>1, <1>9, <3>2
      <4> QED
        BY <1>1, <4>1
    <3> QED
      BY <3>1, <3>2
  <2> QED
    BY <1>8, <2>1 DEF CurrentRuns, Routines
<1>14. Alive' = Alive \ {id}
  BY <1>3, <1>8, <1>9 DEF Alive
<1> QED
  BY <1>8, <1>12, <1>13, <1>14 DEF CoInv, id

LEMMA CoInvStep == CoInv /\ [CoNext]_ordinator => CoInv'
<1> SUFFICES ASSUME CoInv, [CoNext]_ordinator PROVE CoInv'
  OBVIOUS
<1>1. CASE Create
  BY <1>1, CreateStep
<1>2. CASE \E id \in 1..MaxRoutines : Resume(id)
  BY <1>2, ResumeStep
<1>3. CASE Yield
  BY <1>3, YieldStep
<1>4. CASE \E thrown \in BOOLEAN : Return(thrown)
  BY <1>4, ReturnStep
<1>5. CASE UNCHANGED ordinator
  BY <1>5 DEF CoInv, CoTypeOK, PoolConsistent, CurrentRuns, FlagsSound
<1> QED
  BY <1>1, <1>2, <1>3, <1>4, <1>5 DEF CoNext

(* The invariant of the pool. *)
THEOREM CoInvariant == CoSpec => []CoInv
<1>1. CoInit => CoInv
  BY CoInvInit
<1>2. CoInv /\ [CoNext]_ordinator => CoInv'
  BY CoInvStep
<1> QED
  BY <1>1, <1>2, PTL DEF CoSpec

(* The ordinator of coroutine.cpp stays well typed: its current id and its     *)
(* queued ids denote elements of the vector.                                   *)
THEOREM CoTypeCorrect == CoSpec => []CoTypeOK
<1>1. CoInv => CoTypeOK
  BY DEF CoInv
<1> QED
  BY <1>1, CoInvariant, PTL

(* create() never gives out the id of a routine that is alive, and no ended    *)
(* routine's id is lost, whatever the moves of the vector.                     *)
THEOREM Pool == CoSpec => []PoolConsistent
<1>1. CoInv => PoolConsistent
  BY DEF CoInv
<1> QED
  BY <1>1, CoInvariant, PTL

(* Lost writes of entry() leave flags unset; they never set one wrongly.       *)
THEOREM Flags == CoSpec => []FlagsSound
<1>1. CoInv => FlagsSound
  BY DEF CoInv
<1> QED
  BY <1>1, CoInvariant, PTL

(* Coroutine::current() names the routine whose stack is running, and none     *)
(* runs when it is 0.                                                          *)
THEOREM Current == CoSpec => []CurrentRuns
<1>1. CoInv => CurrentRuns
  BY DEF CoInv
<1> QED
  BY <1>1, CoInvariant, PTL

-----------------------------------------------------------------------------
(* The server worker.                                                         *)
Frame == {"fd", "at", "left", "keep", "age"}
PeerFields == {"link", "inbox", "hup", "room", "connects", "requests"}

(* A routine runs exactly while run() is in one, and the routines that have   *)
(* not ended are those with a frame of handle() on their stack.               *)
Scheduled == from \in {"events", "sweep"} /\ (pc = "co" <=> ordinator.current # 0)
Stacks ==
  /\ DOMAIN handler = Alive
  /\ \A id \in DOMAIN handler : DOMAIN handler[id] = Frame /\ handler[id].fd \in Fds

PoolInv == CoInv /\ Scheduled /\ Stacks

(* The descriptors and the peers, one to one. *)
Sides == DOMAIN conn = Fds /\ DOMAIN peer = Peers /\ \A c \in Peers : DOMAIN peer[c] = PeerFields
Linked == \A f \in Fds : conn[f] # Nobody => conn[f] \in Peers /\ peer[conn[f]].link = "open"
Apart == \A f, g \in Fds : conn[f] = conn[g] /\ conn[f] # Nobody => f = g
Reached == \A c \in Peers : peer[c].link = "open" => \E f \in Fds : conn[f] = c

LinkInv == Sides /\ Linked /\ Apart /\ Reached

LEMMA Numbers ==
  /\ Nobody \notin Peers /\ Fds \subseteq Nat /\ Listener \notin Fds
  /\ ReadTimeout \in Nat /\ WriteTimeout \in Nat
BY WorkerAssumption DEF Listener

LEMMA EmptyFunction == DOMAIN <<>> = {}
OBVIOUS

LEMMA WorkerInit == Init => PoolInv /\ LinkInv
<1> SUFFICES ASSUME Init PROVE PoolInv /\ LinkInv
  OBVIOUS
<1>1. CoInv
  BY CoInvInit DEF Init
<1>2. Alive = {} /\ ordinator.current = 0
  BY DEF Init, CoInit, EmptyOrdinator, Alive, Routines
<1>3. Scheduled /\ Stacks
  BY <1>2, EmptyFunction DEF Init, Scheduled, Stacks
<1>4. LinkInv
  BY DEF Init, LinkInv, Sides, PeerFields, Linked, Apart, Reached
<1> QED
  BY <1>1, <1>3, <1>4 DEF PoolInv

-----------------------------------------------------------------------------
(* What is true inside a routine. *)
LEMMA Running ==
  ASSUME PoolInv, pc = "co"
  PROVE  /\ ordinator.current # 0 /\ Me \in Alive /\ Me \in DOMAIN handler
         /\ DOMAIN Mine = Frame /\ Mine.fd \in Fds
<1>1. ordinator.current # 0 /\ ordinator.current \in 0..Len(Routines) /\ Len(Routines) \in Nat
  BY DEF PoolInv, Scheduled, CoInv, CoTypeOK, Routines
<1>2. Me \in 1..Len(Routines) /\ Routines[Me].ctx = "running"
  BY <1>1 DEF PoolInv, CoInv, CurrentRuns, Routines, Me
<1> QED
  BY <1>1, <1>2 DEF PoolInv, Stacks, Alive, Mine

(* Frames that keep their descriptors. *)
SameFrames ==
  /\ DOMAIN handler' = DOMAIN handler
  /\ \A id \in DOMAIN handler : DOMAIN handler'[id] = Frame /\ handler'[id].fd = handler[id].fd

LEMMA SameOrdinator ==
  ASSUME PoolInv, UNCHANGED ordinator, SameFrames, from' \in {"events", "sweep"},
         pc' = "co" <=> pc = "co"
  PROVE  PoolInv'
<1>1. CoInv' /\ Alive' = Alive
  BY DEF PoolInv, CoInv, CoTypeOK, PoolConsistent, CurrentRuns, FlagsSound, Alive, Routines
<1> QED
  BY <1>1 DEF PoolInv, Scheduled, Stacks, SameFrames

LEMMA UnchangedFrames == PoolInv /\ UNCHANGED handler => SameFrames
BY DEF PoolInv, Stacks, SameFrames

LEMMA FrameReplaced ==
  ASSUME PoolInv, pc = "co", NEW h, DOMAIN h = Frame, h.fd = Mine.fd,
         handler' = [handler EXCEPT ![Me] = h]
  PROVE  SameFrames
BY Running DEF SameFrames, PoolInv, Stacks, Mine

LEMMA Yielded ==
  ASSUME PoolInv, pc = "co", SameFrames, ordinator' = YieldRoutine(ordinator),
         pc' # "co", from' = from
  PROVE  PoolInv'
<1>1. Yield
  BY Running DEF Yield
<1>2. CoInv' /\ Alive' = Alive
  BY <1>1, YieldStep DEF PoolInv
<1>3. ordinator'.current = 0
  BY DEF PoolInv, CoInv, CoTypeOK, YieldRoutine
<1> QED
  BY <1>2, <1>3 DEF PoolInv, Scheduled, Stacks, SameFrames

LEMMA Ended ==
  ASSUME PoolInv, pc = "co", NEW thrown \in BOOLEAN,
         ordinator' = EndRoutine(ordinator, thrown), handler' = Forget(handler, Me),
         pc' # "co", from' = from
  PROVE  PoolInv'
<1>1. Return(thrown)
  BY Running DEF Return
<1>2. CoInv' /\ Alive' = Alive \ {Me}
  BY <1>1, ReturnStep DEF PoolInv, Me
<1>3. ordinator'.current = 0
  BY DEF PoolInv, CoInv, CoTypeOK, EndRoutine
<1> QED
  BY <1>2, <1>3 DEF PoolInv, Scheduled, Stacks, Forget

(* resume() of any id whatsoever, known or not. *)
LEMMA Called ==
  ASSUME PoolInv, pc # "co", NEW id, NEW caller \in {"events", "sweep"}, CallResume(id, caller),
         UNCHANGED handler
  PROVE  PoolInv'
<1>1. CASE UNCHANGED ordinator /\ pc' \in {caller, "terminated"}
  BY <1>1, SameOrdinator, UnchangedFrames DEF CallResume
<1>2. CASE /\ CanResume(ordinator, id) /\ ordinator.routines[id].ctx # "dead"
           /\ ordinator' = SwitchTo(ordinator, id) /\ pc' = "co"
  <2>1. ordinator.current = 0
    BY DEF PoolInv, Scheduled
  <2>2. Resume(id)
    BY <1>2, <2>1 DEF Resume
  <2>3. CoInv' /\ Alive' = Alive
    BY <2>2, ResumeStep DEF PoolInv
  <2>4. ordinator'.current = id /\ id # 0
    BY <1>2 DEF PoolInv, CoInv, CoTypeOK, SwitchTo, CanResume
  <2> QED
    BY <1>2, <2>3, <2>4 DEF PoolInv, Scheduled, Stacks, CallResume
<1> QED
  BY <1>1, <1>2 DEF CallResume

LEMMA NewPool ==
  ASSUME PoolInv, NEW f \in Fds, DispatchNew(f)
  PROVE  /\ PoolInv'
         /\ CreatedId(ordinator) \notin DOMAIN handler
         /\ ordinator'.current = CreatedId(ordinator)
<1> DEFINE id == CreatedId(ordinator)
<1>1. ordinator.current = 0
  BY DEF PoolInv, Scheduled, DispatchNew
<1>2. /\ CoInv' /\ ordinator'.current = id
      /\ id \notin Alive /\ Alive' = Alive \cup {id}
  BY <1>1, CreateAndResume DEF PoolInv, DispatchNew
<1>3. id # 0
  <2>1. ordinator'.current = 0 => \A j \in Alive' : Routines'[j].ctx # "running"
    BY <1>2 DEF CoInv, CurrentRuns, Alive, Routines
  <2>2. id \in 1..Len(Routines') /\ Len(Routines') \in Nat
    BY <1>2 DEF CoInv, CoTypeOK, Alive, Routines
  <2> QED
    BY <2>2
<1>4. handler' = Put(handler, id, [fd |-> f, at |-> "read", left |-> 0, keep |-> FALSE, age |-> 0])
  BY DEF DispatchNew
<1> HIDE DEF id
<1>5. Stacks'
  BY <1>2, <1>4 DEF PoolInv, Stacks, Put, Frame
<1>6. Scheduled'
  BY <1>2, <1>3 DEF Scheduled, DispatchNew
<1> QED
  BY <1>2, <1>5, <1>6 DEF PoolInv, Stacks, id

-----------------------------------------------------------------------------
(* What a step of handle() does: the routine goes on or yields with its own   *)
(* descriptor, its peer stays connected; or it returns; or it throws, which   *)
(* needs a system call that fails.                                            *)
PeersStay ==
  /\ DOMAIN peer' = Peers
  /\ \A c \in Peers : /\ DOMAIN peer'[c] = PeerFields
                      /\ peer'[c].link = peer[c].link /\ peer'[c].hup = peer[c].hup

GoesOn ==
  \E h : /\ DOMAIN h = Frame /\ h.fd = Mine.fd /\ h.age \in {0, Mine.age}
         /\ Continue(h) \/ Suspend(h)

HandleStep == AfterYield \/ HandleRead \/ HandleWrite \/ HandleFiles \/ HandleLeave

LEMMA PeerChanged ==
  ASSUME Sides, NEW x, NEW b,
         \/ peer' = peer
         \/ peer' = [peer EXCEPT ![x].inbox = b]
         \/ peer' = [peer EXCEPT ![x].room = b]
  PROVE  PeersStay
<1>1. CASE peer' = peer
  BY <1>1 DEF Sides, PeersStay
<1>2. CASE peer' = [peer EXCEPT ![x].inbox = b]
  BY <1>2 DEF Sides, PeersStay, PeerFields
<1>3. CASE peer' = [peer EXCEPT ![x].room = b]
  BY <1>3 DEF Sides, PeersStay, PeerFields
<1> QED
  BY <1>1, <1>2, <1>3

LEMMA Handles ==
  ASSUME PoolInv, LinkInv, HandleStep
  PROVE  /\ pc = "co" /\ UNCHANGED <<from, batch, idle, m_done>>
         /\ \/ GoesOn /\ PeersStay
            \/ Leave
            \/ Broken /\ ThrowError
<1>0. pc = "co" /\ UNCHANGED <<from, batch, idle, m_done>>
  BY DEF HandleStep, AfterYield, HandleRead, HandleWrite, HandleFiles, HandleLeave
<1>1. DOMAIN Mine = Frame /\ Sides
  BY <1>0, Running DEF LinkInv
<1>2. CASE AfterYield
  <2>1. PICK h : /\ Continue(h)
                 /\ h = IF timed_out(Mine) THEN [Mine EXCEPT !.at = "leave"]
                        ELSE [Mine EXCEPT !.age = 0,
                                          !.at = IF @ = "read_wait" THEN "read" ELSE "write"]
    BY <1>2 DEF AfterYield
  <2>2. DOMAIN h = Frame /\ h.fd = Mine.fd /\ h.age \in {0, Mine.age}
    BY <1>1, <2>1 DEF Frame
  <2>3. PeersStay
    BY <1>1, <1>2, PeerChanged DEF AfterYield
  <2> QED
    BY <1>0, <2>1, <2>2, <2>3 DEF GoesOn
<1>3. CASE HandleRead
  <2>1. ASSUME NEW n, NEW keep, peer' = [peer EXCEPT ![MyPeer].inbox = FALSE],
               Continue([Mine EXCEPT !.at = "write", !.left = n, !.keep = keep])
        PROVE  GoesOn /\ PeersStay
    <3> DEFINE h == [Mine EXCEPT !.at = "write", !.left = n, !.keep = keep]
    <3>1. DOMAIN h = Frame /\ h.fd = Mine.fd /\ h.age = Mine.age
      BY <1>1 DEF Frame
    <3>2. PeersStay
      BY <1>1, <2>1, PeerChanged
    <3>3. Continue(h)
      BY <2>1
    <3> HIDE DEF h
    <3> QED
      BY <3>1, <3>2, <3>3 DEF GoesOn
  <2>2. ASSUME UNCHANGED peer, Suspend([Mine EXCEPT !.at = "read_wait"])
        PROVE  GoesOn /\ PeersStay
    <3> DEFINE h == [Mine EXCEPT !.at = "read_wait"]
    <3>1. DOMAIN h = Frame /\ h.fd = Mine.fd /\ h.age = Mine.age
      BY <1>1 DEF Frame
    <3>2. PeersStay
      BY <1>1, <2>2, PeerChanged
    <3>3. Suspend(h)
      BY <2>2
    <3> HIDE DEF h
    <3> QED
      BY <3>1, <3>2, <3>3 DEF GoesOn
  <2> QED
    BY <1>0, <1>3, <2>1, <2>2 DEF HandleRead
<1>4. CASE HandleWrite
  <2>1. ASSUME NEW n, NEW h, h = [Mine EXCEPT !.left = @ - n],
               peer' = [peer EXCEPT ![MyPeer].room = @ - n],
               \/ Continue([h EXCEPT !.at = "files"])
               \/ Suspend([h EXCEPT !.at = "write_wait"])
        PROVE  GoesOn /\ PeersStay
    <3>1. PICK k : (Continue(k) \/ Suspend(k)) /\ \E at : k = [h EXCEPT !.at = at]
      BY <2>1
    <3>2. DOMAIN h = Frame /\ h.fd = Mine.fd /\ h.age = Mine.age
      BY <1>1, <2>1 DEF Frame
    <3>3. DOMAIN k = Frame /\ k.fd = Mine.fd /\ k.age = Mine.age
      BY <3>1, <3>2 DEF Frame
    <3>4. PeersStay
      BY <1>1, <2>1, PeerChanged
    <3> QED
      BY <3>1, <3>3, <3>4 DEF GoesOn
  <2> QED
    BY <1>0, <1>4, <2>1 DEF HandleWrite
<1>5. CASE HandleFiles
  <2>1. ASSUME NEW n, peer' = [peer EXCEPT ![MyPeer].room = @ - n],
               Continue([Mine EXCEPT !.at = IF Mine.keep THEN "read" ELSE "leave"])
        PROVE  GoesOn /\ PeersStay
    <3> DEFINE h == [Mine EXCEPT !.at = IF Mine.keep THEN "read" ELSE "leave"]
    <3>1. DOMAIN h = Frame /\ h.fd = Mine.fd /\ h.age = Mine.age
      BY <1>1 DEF Frame
    <3>2. PeersStay
      BY <1>1, <2>1, PeerChanged
    <3>3. Continue(h)
      BY <2>1
    <3> HIDE DEF h
    <3> QED
      BY <3>1, <3>2, <3>3 DEF GoesOn
  <2> QED
    BY <1>0, <1>5, <2>1 DEF HandleFiles
<1>6. CASE HandleLeave
  BY <1>0, <1>6 DEF HandleLeave
<1> QED
  BY <1>2, <1>3, <1>4, <1>5, <1>6 DEF HandleStep

(* Leaving handle(), by return or by an exception, is out of the routine. *)
LEMMA LeftOut ==
  ASSUME PoolInv, pc = "co", UNCHANGED from, Leave \/ ThrowError
  PROVE  /\ PoolInv' /\ CloseMine
         /\ pc' # "co"
         /\ from = "events" => pc' \in {"events", "terminated"}
         /\ from = "sweep" => pc' \in {"sweep", "terminated"}
<1>1. from \in {"events", "sweep"}
  BY DEF PoolInv, Scheduled
<1>2. CASE Leave
  <2>1. /\ pc' # "co"
        /\ from = "events" => pc' \in {"events", "terminated"}
        /\ from = "sweep" => pc' \in {"sweep", "terminated"}
    BY <1>1, <1>2 DEF Leave, AfterErase
  <2>2. PoolInv'
    BY <1>2, <2>1, Ended DEF Leave, CloseMine
  <2> QED
    BY <1>2, <2>1, <2>2 DEF Leave
<1>3. CASE ThrowError
  <2>1. /\ pc' # "co"
        /\ from = "events" => pc' \in {"events", "terminated"}
        /\ from = "sweep" => pc' \in {"sweep", "terminated"}
    BY <1>1, <1>3 DEF ThrowError
  <2>2. PoolInv'
    BY <1>3, <2>1, Ended DEF ThrowError, CloseMine
  <2> QED
    BY <1>3, <2>1, <2>2 DEF ThrowError
<1> QED
  BY <1>2, <1>3

LEMMA PoolGoesOn ==
  ASSUME PoolInv, pc = "co", UNCHANGED from, GoesOn
  PROVE  PoolInv'
<1>1. PICK h : DOMAIN h = Frame /\ h.fd = Mine.fd /\ (Continue(h) \/ Suspend(h))
  BY DEF GoesOn
<1>2. SameFrames /\ from \in {"events", "sweep"}
  BY <1>1, FrameReplaced DEF Continue, Suspend, PoolInv, Scheduled
<1>3. CASE Continue(h)
  BY <1>2, <1>3, SameOrdinator DEF Continue
<1>4. CASE Suspend(h)
  BY <1>2, <1>4, Yielded DEF Suspend
<1> QED
  BY <1>1, <1>3, <1>4

LEMMA PoolStep == PoolInv /\ LinkInv /\ [Next]_vars => PoolInv'
<1> SUFFICES ASSUME PoolInv, LinkInv, [Next]_vars PROVE PoolInv'
  OBVIOUS
<1>1. from \in {"events", "sweep"} /\ (UNCHANGED handler => SameFrames)
  BY UnchangedFrames DEF PoolInv, Scheduled
<1>2. ASSUME UNCHANGED <<ordinator, handler, from>>, pc' # "co", pc # "co"
      PROVE  PoolInv'
  BY <1>1, <1>2, SameOrdinator
<1>3. ASSUME UNCHANGED <<ordinator, handler, from, pc>>
      PROVE  PoolInv'
  BY <1>1, <1>3, SameOrdinator
<1>4. CASE Environment
  <2>1. ASSUME NEW c \in Peers,
               Connect(c) \/ SendRequest(c) \/ Drain(c) \/ \E how \in HangUps : HangUp(c, how)
        PROVE  PoolInv'
    BY <1>3, <2>1 DEF Connect, SendRequest, Drain, HangUp, workerVars
  <2>2. CASE Signal
    BY <1>2, <1>3, <2>2 DEF Signal
  <2> QED
    BY <1>4, <2>1, <2>2 DEF Environment
<1>5. CASE Tick
  <2>1. SameFrames
    BY <1>5 DEF Tick, PoolInv, Stacks, SameFrames, Frame
  <2> QED
    BY <1>1, <1>5, <2>1, SameOrdinator DEF Tick
<1>6. CASE LoopTest \/ EpollEvents \/ EpollTimeout \/ EventsDone \/ SweepDone
  BY <1>2, <1>6 DEF LoopTest, EpollEvents, EpollTimeout, EventsDone, SweepDone
<1>7. ASSUME NEW c \in Peers, AcceptOne(c) PROVE PoolInv'
  BY <1>2, <1>3, <1>7 DEF AcceptOne
<1>8. CASE AcceptDone
  BY <1>3, <1>8 DEF AcceptDone
<1>9. ASSUME NEW f \in Fds, DispatchNew(f) \/ Dispatch(f) \/ SweepOne(f) PROVE PoolInv'
  <2>1. CASE DispatchNew(f)
    BY <2>1, NewPool
  <2>2. CASE Dispatch(f)
    BY <2>2, Called DEF Dispatch
  <2>3. CASE SweepOne(f)
    BY <2>3, Called DEF SweepOne
  <2> QED
    BY <1>9, <2>1, <2>2, <2>3
<1>10. CASE HandleStep
  BY <1>10, Handles, PoolGoesOn, LeftOut
<1>11. CASE UNCHANGED vars
  BY <1>3, <1>11 DEF vars, workerVars
<1> QED
  BY <1>4, <1>5, <1>6, <1>7, <1>8, <1>9, <1>10, <1>11 DEF Next, WorkerStep, HandleStep

-----------------------------------------------------------------------------
(* The descriptors. *)
LEMMA SameLinks ==
  ASSUME LinkInv, UNCHANGED conn, DOMAIN peer' = Peers,
         \A c \in Peers : /\ DOMAIN peer'[c] = PeerFields
                          /\ peer'[c].link = "open" <=> peer[c].link = "open"
  PROVE  LinkInv'
<1>1. Sides' /\ Apart'
  BY DEF LinkInv, Sides, Apart
<1>2. Linked' /\ Reached'
  BY DEF LinkInv, Linked, Reached
<1> QED
  BY <1>1, <1>2 DEF LinkInv

LEMMA Lowest ==
  ASSUME NEW S, S \subseteq Nat, S # {}
  PROVE  (CHOOSE x \in S : \A y \in S : x <= y) \in S
<1>1. IsWellFoundedOn(OpToRel(<, Nat), Nat)
  BY NatLessThanWellFounded
<1>2. PICK m \in S : \A n \in S : ~(<<n, m>> \in OpToRel(<, Nat))
  BY <1>1, WFMin
<1>3. \A n \in S : m <= n
  <2>1. ASSUME NEW n \in S, n < m PROVE FALSE
    BY <1>2, <2>1 DEF OpToRel
  <2> QED
    BY <2>1
<1> QED
  BY <1>3

LEMMA Accepted ==
  ASSUME LinkInv, NEW c \in Peers, peer[c].link = "backlog", NEW f \in Fds, conn[f] = Nobody,
         conn' = [conn EXCEPT ![f] = c], peer' = [peer EXCEPT ![c].link = "open"]
  PROVE  LinkInv'
<1>1. c # Nobody /\ \A g \in Fds : conn[g] # c
  BY Numbers DEF LinkInv, Linked
<1>2. \A g \in Fds : conn'[g] = IF g = f THEN c ELSE conn[g]
  BY DEF LinkInv, Sides
<1>3. \A d \in Peers : /\ DOMAIN peer'[d] = PeerFields
                       /\ peer'[d].link = IF d = c THEN "open" ELSE peer[d].link
  BY DEF LinkInv, Sides, PeerFields
<1>4. Sides'
  BY <1>3 DEF LinkInv, Sides
<1>5. Linked'
  BY <1>2, <1>3 DEF LinkInv, Linked
<1>6. Apart'
  BY <1>1, <1>2 DEF LinkInv, Apart
<1>7. Reached'
  <2>1. ASSUME NEW d \in Peers, peer'[d].link = "open" PROVE \E g \in Fds : conn'[g] = d
    <3>1. CASE d = c
      BY <1>2, <3>1
    <3>2. CASE d # c
      <4>1. PICK g \in Fds : conn[g] = d
        BY <1>3, <2>1, <3>2 DEF LinkInv, Reached
      <4>2. d # Nobody
        BY Numbers
      <4> QED
        BY <1>2, <4>1, <4>2
    <3> QED
      BY <3>1, <3>2
  <2> QED
    BY <2>1 DEF Reached
<1> QED
  BY <1>4, <1>5, <1>6, <1>7 DEF LinkInv

LEMMA Closed ==
  ASSUME LinkInv, Mine.fd \in Fds, CloseMine
  PROVE  /\ LinkInv'
         /\ \A g \in Fds : conn'[g] = IF g = Mine.fd THEN Nobody ELSE conn[g]
<1>1. \A g \in Fds : conn'[g] = IF g = Mine.fd THEN Nobody ELSE conn[g]
  BY DEF LinkInv, Sides, CloseMine
<1>2. \A d \in Peers : /\ DOMAIN peer'[d] = PeerFields
                       /\ peer'[d].link = IF d = MyPeer THEN "off" ELSE peer[d].link
  BY DEF LinkInv, Sides, PeerFields, CloseMine
<1>3. Sides'
  BY <1>2 DEF LinkInv, Sides, CloseMine
<1>4. Linked'
  BY <1>1, <1>2 DEF LinkInv, Linked, Apart, MyPeer
<1>5. Apart'
  BY <1>1 DEF LinkInv, Apart
<1>6. Reached'
  BY <1>1, <1>2 DEF LinkInv, Reached, MyPeer
<1> QED
  BY <1>1, <1>3, <1>4, <1>5, <1>6 DEF LinkInv

LEMMA LinkStep == PoolInv /\ LinkInv /\ [Next]_vars => LinkInv'
<1> SUFFICES ASSUME PoolInv, LinkInv, [Next]_vars PROVE LinkInv'
  OBVIOUS
<1>1. ASSUME UNCHANGED <<conn, peer>> PROVE LinkInv'
  BY <1>1, SameLinks DEF LinkInv, Sides
<1>2. CASE Environment
  <2>1. ASSUME NEW c \in Peers, Connect(c) PROVE LinkInv'
    <3>1. /\ DOMAIN peer' = Peers
          /\ \A d \in Peers : /\ DOMAIN peer'[d] = PeerFields
                              /\ peer'[d].link = "open" <=> peer[d].link = "open"
      BY <2>1 DEF Connect, LinkInv, Sides, PeerFields
    <3> QED
      BY <2>1, <3>1, SameLinks DEF Connect, workerVars
  <2>2. ASSUME NEW c \in Peers, SendRequest(c) \/ Drain(c) \/ \E how \in HangUps : HangUp(c, how)
        PROVE  LinkInv'
    <3>1. /\ DOMAIN peer' = Peers
          /\ \A d \in Peers : DOMAIN peer'[d] = PeerFields /\ peer'[d].link = peer[d].link
      <4>1. CASE SendRequest(c)
        BY <4>1 DEF SendRequest, LinkInv, Sides, PeerFields
      <4>2. CASE Drain(c)
        BY <4>2 DEF Drain, LinkInv, Sides, PeerFields
      <4>3. CASE \E how \in HangUps : HangUp(c, how)
        BY <4>3 DEF HangUp, LinkInv, Sides, PeerFields
      <4> QED
        BY <2>2, <4>1, <4>2, <4>3
    <3> QED
      BY <2>2, <3>1, SameLinks DEF SendRequest, Drain, HangUp, workerVars
  <2>3. CASE Signal
    BY <1>1, <2>3 DEF Signal
  <2> QED
    BY <1>2, <2>1, <2>2, <2>3 DEF Environment
<1>3. ASSUME NEW c \in Peers, AcceptOne(c) PROVE LinkInv'
  <2>1. CASE UNCHANGED <<conn, peer>>
    BY <1>1, <2>1
  <2>2. CASE ~UNCHANGED <<conn, peer>>
    <3>1. peer[c].link = "backlog" /\ FreeFds # {}
      BY <1>3, <2>2 DEF AcceptOne, Backlog
    <3>2. PICK f : /\ f = CHOOSE x \in FreeFds : \A y \in FreeFds : x <= y
                   /\ conn' = [conn EXCEPT ![f] = c] /\ peer' = [peer EXCEPT ![c].link = "open"]
      BY <1>3, <2>2 DEF AcceptOne
    <3>3. f \in FreeFds
      BY <3>1, <3>2, Lowest, Numbers DEF FreeFds
    <3> QED
      BY <3>1, <3>2, <3>3, Accepted DEF FreeFds
  <2> QED
    BY <2>1, <2>2
<1>4. ASSUME NEW f \in Fds, DispatchNew(f) \/ Dispatch(f) \/ SweepOne(f) PROVE LinkInv'
  BY <1>1, <1>4 DEF DispatchNew, Dispatch, SweepOne
<1>5. CASE HandleStep
  <2>1. CASE GoesOn /\ PeersStay
    BY <2>1, SameLinks DEF GoesOn, Continue, Suspend, PeersStay
  <2>2. CASE Leave \/ ThrowError
    BY <1>5, <2>2, Handles, Running, Closed DEF Leave, ThrowError
  <2> QED
    BY <1>5, <2>1, <2>2, Handles
<1>6. CASE \/ Tick \/ LoopTest \/ EpollEvents \/ EpollTimeout \/ EventsDone \/ SweepDone
           \/ AcceptDone \/ UNCHANGED vars
  BY <1>1, <1>6 DEF Tick, LoopTest, EpollEvents, EpollTimeout, EventsDone, SweepDone,
                    AcceptDone, vars, workerVars
<1> QED
  BY <1>2, <1>3, <1>4, <1>5, <1>6 DEF Next, WorkerStep, HandleStep

(* The routines, the stacks they run on and the descriptors they hold stay    *)
(* consistent, whatever the peers do and whichever exception is thrown.       *)
THEOREM WorkerInvariant == Spec => [](PoolInv /\ LinkInv)
<1>1. PoolInv /\ LinkInv /\ [Next]_vars => (PoolInv /\ LinkInv)'
  BY PoolStep, LinkStep
<1> QED
  BY <1>1, WorkerInit, PTL DEF Spec

(* The free list of the pool and the routines' flags agree with the stacks    *)
(* in the use the worker makes of the pool, which no caller checks.           *)
THEOREM WorkerPool == Spec => [](PoolConsistent /\ FlagsSound)
<1>1. PoolInv => PoolConsistent /\ FlagsSound
  BY DEF PoolInv, CoInv
<1> QED
  BY <1>1, WorkerInvariant, PTL

(* The worker is a caller the coroutines' own specification allows: it        *)
(* creates and resumes from run() alone, and yields and returns inside a      *)
(* routine alone.  process_events makes two calls in one step, create() and   *)
(* resume() of what it returned.                                              *)
CreateAndEnter ==
  /\ ordinator.current = 0
  /\ CreatedId(ordinator) <= MaxRoutines
  /\ ordinator' = SwitchTo(CreateRoutine(ordinator), CreatedId(ordinator))

Calls ==
  \/ \E id \in 1..MaxRoutines : Resume(id)
  \/ Yield
  \/ \E thrown \in BOOLEAN : Return(thrown)

Bounded == Len(Routines) <= MaxRoutines

LEMMA LengthOfExcept ==
  ASSUME NEW S, NEW rs \in Seq(S), NEW k, NEW r
  PROVE  Len([rs EXCEPT ![k] = r]) = Len(rs)
OBVIOUS

LEMMA SwitchedLength ==
  ASSUME NEW o \in [routines : Seq(Routine), capacity : Nat, finished : Seq(Nat), current : Nat],
         NEW id \in 1..Len(o.routines)
  PROVE  Len(SwitchTo(o, id).routines) = Len(o.routines)
<1>1. SwitchTo(o, id).routines = [o.routines EXCEPT ![id] = [o.routines[id] EXCEPT !.ctx = "running"]]
  BY DEF SwitchTo
<1>2. o.routines \in Seq(Routine)
  OBVIOUS
<1> QED
  BY <1>1, <1>2, LengthOfExcept

LEMMA LengthAfterCreate ==
  ASSUME CoInv, CreateAndEnter
  PROVE  Len(Routines') \in {Len(Routines), CreatedId(ordinator)}
<1>2. /\ ordinator \in [routines : Seq(Routine), capacity : Nat, finished : Seq(Nat),
                         current : Nat]
      /\ Len(Routines) \in Nat
      /\ \A i \in 1..Len(Finished) : Finished[i] \in 1..Len(Routines)
  BY DEF CoInv, CoTypeOK, Routines, Finished
<1>3. CASE Finished = <<>>
  <2>1. PICK rs \in Seq(Routine), capacity \in Nat :
           /\ Len(rs) = Len(Routines)
           /\ EmplaceBack(ordinator) = [routines |-> Append(rs, NewRoutine),
                                        capacity |-> capacity,
                                        finished |-> <<>>, current |-> 0]
    BY <1>3, Emplaced DEF CreateAndEnter
  <2>2. PICK o : o = CreateRoutine(ordinator)
    OBVIOUS
  <2>3. CreatedId(ordinator) = Len(Routines) + 1 /\ CreateRoutine(ordinator) = EmplaceBack(ordinator)
    BY <1>3 DEF CreateRoutine, CreatedId, Finished, Routines
  <2>4. /\ o \in [routines : Seq(Routine), capacity : Nat, finished : Seq(Nat), current : Nat]
        /\ Len(o.routines) = Len(Routines) + 1
    BY ONLY <1>2, <2>1, <2>2, <2>3, NewIsRoutine
  <2>5. ordinator' = SwitchTo(o, Len(Routines) + 1)
    BY <2>2, <2>3 DEF CreateAndEnter
  <2>6. Len(ordinator'.routines) = Len(o.routines)
    <3>1. Len(Routines) + 1 \in 1..Len(o.routines)
      BY ONLY <1>2, <2>4
    <3> QED
      BY ONLY <2>4, <2>5, <3>1, SwitchedLength
  <2> QED
    BY <2>3, <2>4, <2>6 DEF Routines
<1>4. CASE Finished # <<>>
  <2>1. PICK k : k = Head(Finished)
    OBVIOUS
  <2>2. k \in 1..Len(Routines) /\ CreatedId(ordinator) = k
    BY <1>2, <1>4, <2>1 DEF CreatedId, Finished
  <2>3. PICK o : o = CreateRoutine(ordinator)
    OBVIOUS
  <2>4. /\ o \in [routines : Seq(Routine), capacity : Nat, finished : Seq(Nat), current : Nat]
        /\ Len(o.routines) = Len(Routines)
    <3>1. o = [routines |-> [Routines EXCEPT ![k] = NewRoutine],
               capacity |-> ordinator.capacity, finished |-> Tail(Finished), current |-> 0]
      BY <1>2, <1>4, <2>1, <2>2, <2>3 DEF CreateRoutine, CreateAndEnter, Routines, Finished
    <3>2. Routines \in Seq(Routine) /\ ordinator.capacity \in Nat /\ Finished \in Seq(Nat)
      BY <1>2 DEF Routines, Finished
    <3>3. [Routines EXCEPT ![k] = NewRoutine] \in Seq(Routine)
      BY ONLY <2>2, <3>2, NewIsRoutine
    <3>4. Tail(Finished) \in Seq(Nat)
      BY ONLY <1>4, <3>2
    <3>5. Len([Routines EXCEPT ![k] = NewRoutine]) = Len(Routines)
      BY ONLY <3>2, LengthOfExcept
    <3> QED
      BY ONLY <3>1, <3>2, <3>3, <3>4, <3>5
  <2>5. ordinator' = SwitchTo(o, k)
    BY <2>2, <2>3 DEF CreateAndEnter
  <2>6. Len(ordinator'.routines) = Len(o.routines)
    <3>1. k \in 1..Len(o.routines)
      BY ONLY <2>2, <2>4
    <3> QED
      BY ONLY <2>4, <2>5, <3>1, SwitchedLength
  <2> QED
    BY <2>4, <2>6 DEF Routines
<1> QED
  BY <1>3, <1>4

LEMMA LengthKept ==
  ASSUME CoInv, Calls
  PROVE  Len(Routines') = Len(Routines)
<1>1. /\ ordinator \in [routines : Seq(Routine), capacity : Nat, finished : Seq(Nat),
                         current : Nat]
      /\ Routines \in Seq(Routine)
  BY DEF CoInv, CoTypeOK, Routines
<1>2. \A k, r : Routines' = [Routines EXCEPT ![k] = r] => Len(Routines') = Len(Routines)
  BY <1>1, LengthOfExcept
<1>3. CASE Yield
  BY <1>1, <1>2, <1>3 DEF Yield, YieldRoutine, Routines
<1>4. CASE \E id \in 1..MaxRoutines : Resume(id)
  <2>1. PICK id \in 1..MaxRoutines : Resume(id)
    BY <1>4
  <2>2. \E r : Routines' = [Routines EXCEPT ![id] = r]
    BY <1>1, <2>1 DEF Resume, SwitchTo, Routines
  <2> QED
    BY <1>2, <2>2
<1>5. CASE \E thrown \in BOOLEAN : Return(thrown)
  <2>1. \E r : Routines' = [Routines EXCEPT ![ordinator.current] = r]
    BY <1>1, <1>5 DEF Return, EndRoutine, Routines
  <2> QED
    BY <1>2, <2>1
<1> QED
  BY <1>3, <1>4, <1>5 DEF Calls

LEMMA PoolCalls ==
  ASSUME PoolInv, LinkInv, Bounded, [Next]_vars
  PROVE  \/ \E f \in Fds : DispatchNew(f) /\ CreateAndEnter
         \/ Calls
         \/ UNCHANGED ordinator
<1>1. /\ CoInv /\ (pc # "co" => ordinator.current = 0)
      /\ Len(Routines) \in Nat /\ MaxRoutines \in Nat
  BY CoroutineAssumption DEF PoolInv, Scheduled, CoInv, CoTypeOK, Routines
<1>2. ASSUME NEW f \in Fds, DispatchNew(f) PROVE CreateAndEnter
  BY <1>1, <1>2 DEF DispatchNew, CreateAndEnter
<1>3. ASSUME NEW f \in Fds, Dispatch(f) \/ SweepOne(f)
      PROVE  UNCHANGED ordinator \/ Calls
  <2>1. PICK id, caller : pc # "co" /\ CallResume(id, caller)
    BY <1>3 DEF Dispatch, SweepOne
  <2>2. CASE ~UNCHANGED ordinator
    <3>1. Resume(id)
      BY <1>1, <2>1, <2>2 DEF CallResume, Resume
    <3>2. id \in 1..MaxRoutines
      BY <1>1, <3>1 DEF Resume, CanResume, Bounded, Routines
    <3> QED
      BY <3>1, <3>2 DEF Calls
  <2> QED
    BY <2>2
<1>4. ASSUME HandleStep PROVE UNCHANGED ordinator \/ Calls
  <2>1. pc = "co" /\ (GoesOn \/ Leave \/ ThrowError)
    BY <1>4, Handles
  <2>2. ordinator.current # 0
    BY <2>1, Running
  <2>3. CASE GoesOn
    BY <2>2, <2>3 DEF GoesOn, Continue, Suspend, Yield, Calls
  <2>4. CASE Leave \/ ThrowError
    BY <2>2, <2>4 DEF Leave, ThrowError, Return, Calls
  <2> QED
    BY <2>1, <2>3, <2>4
<1>5. ASSUME Environment PROVE UNCHANGED ordinator
  BY <1>5 DEF Environment, Connect, SendRequest, Drain, HangUp, Signal
<1>6. ASSUME NEW c \in Peers, AcceptOne(c) PROVE UNCHANGED ordinator
  BY <1>6 DEF AcceptOne
<1>7. CASE \/ Tick \/ LoopTest \/ EpollEvents \/ EpollTimeout \/ EventsDone \/ SweepDone
           \/ AcceptDone \/ UNCHANGED vars
  BY <1>7 DEF Tick, LoopTest, EpollEvents, EpollTimeout, EventsDone, SweepDone, AcceptDone, vars
<1> QED
  BY <1>2, <1>3, <1>4, <1>5, <1>6, <1>7 DEF Next, WorkerStep, HandleStep

LEMMA BoundKept == PoolInv /\ LinkInv /\ Bounded /\ [Next]_vars => Bounded'
<1> SUFFICES ASSUME PoolInv, LinkInv, Bounded, [Next]_vars PROVE Bounded'
  OBVIOUS
<1>1. CoInv
  BY DEF PoolInv
<1>2. CASE CreateAndEnter
  BY <1>1, <1>2, LengthAfterCreate DEF CreateAndEnter, Bounded
<1>3. CASE Calls
  BY <1>1, <1>3, LengthKept DEF Bounded
<1>4. CASE UNCHANGED ordinator
  BY <1>4 DEF Bounded, Routines
<1> QED
  BY <1>2, <1>3, <1>4, PoolCalls

LEMMA BoundInit == Init => Bounded
BY CoroutineAssumption DEF Init, CoInit, EmptyOrdinator, Bounded, Routines

(* Every behaviour of the worker is one of its coroutines: what is proved of  *)
(* them for any caller holds in the server, and no step of run() or handle()  *)
(* makes a call from a place where the ordinator does not expect it.          *)
THEOREM UsesPool == Spec => CoInit /\ [][Calls \/ CreateAndEnter]_ordinator
<1>1. Init => CoInit /\ PoolInv /\ LinkInv /\ Bounded
  BY WorkerInit, BoundInit DEF Init
<1>2. PoolInv /\ LinkInv /\ Bounded /\ [Next]_vars => (PoolInv /\ LinkInv /\ Bounded)'
  BY PoolStep, LinkStep, BoundKept
<1>3. PoolInv /\ LinkInv /\ Bounded /\ [Next]_vars => [Calls \/ CreateAndEnter]_ordinator
  BY PoolCalls
<1> QED
  BY <1>1, <1>2, <1>3, PTL DEF Spec

(* How many routines there can be.  Every frame's descriptor is a key of      *)
(* m_clients, also after a reset, and no two frames have the same.            *)
Placed ==
  /\ \A id \in DOMAIN handler : handler[id].fd \in DOMAIN m_clients
  /\ \A i, j \in DOMAIN handler : handler[i].fd = handler[j].fd => i = j

LEMMA PlacedStep == PoolInv /\ LinkInv /\ Placed /\ [Next]_vars => Placed'
<1> SUFFICES ASSUME PoolInv, LinkInv, Placed, [Next]_vars PROVE Placed'
  OBVIOUS
<1>1. ASSUME SameFrames, UNCHANGED m_clients PROVE Placed'
  BY <1>1 DEF Placed, SameFrames
<1>2. UNCHANGED handler => SameFrames
  BY UnchangedFrames
<1>3. CASE Environment
  BY <1>1, <1>2, <1>3 DEF Environment, Connect, SendRequest, Drain, HangUp, Signal, workerVars
<1>4. CASE Tick
  <2>1. SameFrames
    BY <1>4 DEF Tick, PoolInv, Stacks, SameFrames, Frame
  <2> QED
    BY <1>1, <1>4, <2>1 DEF Tick
<1>5. CASE \/ LoopTest \/ EpollEvents \/ EpollTimeout \/ EventsDone \/ SweepDone
           \/ AcceptDone \/ UNCHANGED vars
  BY <1>1, <1>2, <1>5 DEF LoopTest, EpollEvents, EpollTimeout, EventsDone, SweepDone,
                          AcceptDone, vars, workerVars
<1>6. ASSUME NEW c \in Peers, AcceptOne(c) PROVE Placed'
  BY <1>1, <1>2, <1>6 DEF AcceptOne
<1>7. ASSUME NEW f \in Fds, Dispatch(f) \/ SweepOne(f) PROVE Placed'
  BY <1>1, <1>2, <1>7 DEF Dispatch, SweepOne
<1>8. ASSUME NEW f \in Fds, DispatchNew(f) PROVE Placed'
  <2>1. PICK id : id = CreatedId(ordinator)
    OBVIOUS
  <2>2. id \notin DOMAIN handler
    BY <1>8, <2>1, NewPool
  <2>3. /\ m_clients' = Put(m_clients, f, id)
        /\ handler' = Put(handler, id, [fd |-> f, at |-> "read", left |-> 0, keep |-> FALSE,
                                        age |-> 0])
        /\ f \notin DOMAIN m_clients
    BY <1>8, <2>1 DEF DispatchNew
  <2> QED
    BY <2>2, <2>3 DEF Placed, Put
<1>9. CASE HandleStep
  <2>1. pc = "co" /\ (GoesOn \/ Leave \/ ThrowError)
    BY <1>9, Handles
  <2>2. Me \in DOMAIN handler /\ Mine = handler[Me]
    BY <2>1, Running DEF Mine
  <2>3. CASE GoesOn
    <3>1. PICK h : DOMAIN h = Frame /\ h.fd = Mine.fd /\ (Continue(h) \/ Suspend(h))
      BY <2>3 DEF GoesOn
    <3>2. SameFrames
      BY <2>1, <3>1, FrameReplaced DEF Continue, Suspend
    <3> QED
      BY <1>1, <3>1, <3>2 DEF Continue, Suspend
  <2>4. CASE Leave
    BY <2>2, <2>4 DEF Leave, CloseMine, Forget, Placed
  <2>5. CASE ThrowError
    BY <2>2, <2>5 DEF ThrowError, CloseMine, Forget, Placed
  <2> QED
    BY <2>1, <2>3, <2>4, <2>5
<1> QED
  BY <1>3, <1>4, <1>5, <1>6, <1>7, <1>8, <1>9 DEF Next, WorkerStep, HandleStep

(* The pigeons: with no ended routine to reuse, every routine has a frame,    *)
(* and none of the frames has the descriptor a routine is created for.        *)
Sized == Len(Routines) <= Cardinality(Fds)

LEMMA NewFits ==
  ASSUME PoolInv, Placed, Sized, IsFiniteSet(Fds), NEW f \in Fds, f \notin DOMAIN m_clients
  PROVE  CreatedId(ordinator) \in Nat /\ CreatedId(ordinator) <= Cardinality(Fds)
<1>1. PICK n : n = Len(Routines)
  OBVIOUS
<1>2. /\ n \in Nat /\ n <= Cardinality(Fds) /\ Cardinality(Fds) \in Nat
      /\ Finished \in Seq(Nat)
      /\ \A i \in 1..Len(Finished) : Finished[i] \in 1..n
  BY <1>1, FS_CardinalityType DEF PoolInv, CoInv, CoTypeOK, Sized, Routines, Finished
<1>3. CASE Finished # <<>>
  <2>1. CreatedId(ordinator) = Finished[1] /\ 1 \in 1..Len(Finished)
    BY <1>2, <1>3 DEF CreatedId, Finished
  <2>2. CreatedId(ordinator) \in 1..n
    BY <1>2, <2>1
  <2> QED
    BY ONLY <1>2, <2>2
<1>4. CASE Finished = <<>>
  <2>1. CreatedId(ordinator) = n + 1
    BY <1>1, <1>4 DEF CreatedId, Finished, Routines
  <2>2. DOMAIN handler = 1..n
    <3>1. \A id \in 1..n : Routines[id].ctx # "dead"
      BY <1>1, <1>4 DEF PoolInv, CoInv, PoolConsistent, Routines, Finished
    <3> QED
      BY <1>1, <3>1 DEF PoolInv, Stacks, Alive
  <2>3. \A i \in 1..n : handler[i].fd \in Fds /\ handler[i].fd # f
    BY <2>2 DEF PoolInv, Stacks, Placed
  <2>4. \A i, j \in 1..n : handler[i].fd = handler[j].fd => i = j
    BY <2>2 DEF Placed
  <2>5. PICK g : g = [i \in 1..n + 1 |-> IF i = n + 1 THEN f ELSE handler[i].fd]
    OBVIOUS
  <2>6. /\ g \in [1..n + 1 -> Fds]
        /\ \A i, j \in 1..n + 1 : g[i] = g[j] => i = j
    BY <1>2, <2>3, <2>4, <2>5
  <2>7. g \in Injection(1..n + 1, Fds)
    BY <2>6 DEF Injection, IsInjective
  <2>8. Cardinality(1..n + 1) <= Cardinality(Fds)
    BY <2>7, FS_Injection
  <2>9. Cardinality(1..n + 1) = n + 1
    BY <1>2, FS_Interval
  <2> QED
    BY ONLY <1>2, <2>1, <2>8, <2>9
<1> QED
  BY <1>3, <1>4

LEMMA SizedStep ==
  ASSUME IsFiniteSet(Fds), PoolInv, LinkInv, Bounded, Placed, Sized, [Next]_vars
  PROVE  Sized'
<1>1. CoInv
  BY DEF PoolInv
<1>2. ASSUME NEW f \in Fds, DispatchNew(f), CreateAndEnter PROVE Sized'
  <2>1. Len(Routines') \in {Len(Routines), CreatedId(ordinator)}
    BY <1>1, <1>2, LengthAfterCreate
  <2>2. CreatedId(ordinator) <= Cardinality(Fds)
    BY <1>2, NewFits DEF DispatchNew
  <2> QED
    BY <2>1, <2>2 DEF Sized
<1>3. CASE Calls
  BY <1>1, <1>3, LengthKept DEF Sized
<1>4. CASE UNCHANGED ordinator
  BY <1>4 DEF Sized, Routines
<1> QED
  BY <1>2, <1>3, <1>4, PoolCalls

(* The vector of routines, each with a stack of its own, never has more       *)
(* elements than there are descriptors, whatever exceptions end them: create() *)
(* adds one only for a descriptor that no routine has.  Nor can it be asked   *)
(* for more, so a bound of that many routines excludes no behaviour.          *)
PoolSized ==
  /\ Len(ordinator.routines) <= Cardinality(Fds)
  /\ ~(Fds \subseteq DOMAIN m_clients) => CreatedId(ordinator) <= Cardinality(Fds)

THEOREM PoolStaysSmall ==
  ASSUME IsFiniteSet(Fds)
  PROVE  Spec => []PoolSized
<1> DEFINE I == PoolInv /\ LinkInv /\ Bounded /\ Placed /\ Sized
<1>1. Init => I
  <2>1. Init => Placed
    BY EmptyFunction DEF Init, Placed
  <2>2. Init => Sized
    BY FS_CardinalityType DEF Init, CoInit, EmptyOrdinator, Sized, Routines
  <2> QED
    BY <2>1, <2>2, WorkerInit, BoundInit
<1>2. I /\ [Next]_vars => I'
  BY PoolStep, LinkStep, BoundKept, PlacedStep, SizedStep
<1>3. I => PoolSized
  BY NewFits DEF PoolSized, Sized, Routines
<1> QED
  BY <1>1, <1>2, <1>3, PTL DEF Spec

(* No descriptor is leaked and none is closed under a peer that is still      *)
(* there: a connected peer has exactly one, any other none.                   *)
THEOREM NoFdLeaks == Spec => []NoLeakedFd
<1>1. ASSUME LinkInv, NEW c \in Peers
      PROVE  Cardinality({f \in Fds : conn[f] = c}) = IF peer[c].link = "open" THEN 1 ELSE 0
  <2>1. c # Nobody
    BY Numbers
  <2>2. CASE peer[c].link = "open"
    <3>1. PICK f \in Fds : conn[f] = c
      BY <1>1, <2>2 DEF LinkInv, Reached
    <3>2. {g \in Fds : conn[g] = c} = {f}
      BY <1>1, <2>1, <3>1 DEF LinkInv, Apart
    <3> QED
      BY <2>2, <3>2, FS_Singleton
  <2>3. CASE peer[c].link # "open"
    <3>1. {g \in Fds : conn[g] = c} = {}
      BY <1>1, <2>1, <2>3 DEF LinkInv, Linked
    <3> QED
      BY <2>3, <3>1, FS_EmptySet
  <2> QED
    BY <2>2, <2>3
<1>2. LinkInv => NoLeakedFd
  BY <1>1 DEF NoLeakedFd
<1> QED
  BY <1>2, WorkerInvariant, PTL

-----------------------------------------------------------------------------
(* Without resets no system call of a routine fails, m_clients and the        *)
(* stacks agree, and a descriptor in the batch is open.  (After a reset the   *)
(* thrown exception leaves the entry of m_clients behind.)                    *)
Owned ==
  /\ \A f \in DOMAIN m_clients :
       /\ m_clients[f] \in DOMAIN handler
       /\ handler[m_clients[f]].fd = f
       /\ conn[f] # Nobody
  /\ \A id \in DOMAIN handler :
       /\ handler[id].fd \in DOMAIN m_clients
       /\ m_clients[handler[id].fd] = id

Batched ==
  /\ (pc \in {"loop", "epoll", "sweep"} \/ (pc = "co" /\ from = "sweep")) => batch = {}
  /\ \A f \in batch \ {Listener} : f \in Fds /\ conn[f] # Nobody
  /\ pc = "co" => handler[Me].fd \notin batch

NoReset == \A c \in Peers : peer[c].hup # "rst"

OwnInv == NoReset /\ (pc # "terminated" => Owned /\ Batched)

WorkerInv == PoolInv /\ LinkInv /\ OwnInv

LEMMA OwnInit == Init => OwnInv
BY EmptyFunction DEF Init, OwnInv, NoReset, Owned, Batched

LEMMA NotBroken == WorkerInv /\ pc = "co" => ~Broken
<1> SUFFICES ASSUME WorkerInv, pc = "co" PROVE ~Broken
  OBVIOUS
<1>1. Me \in DOMAIN handler /\ Mine.fd \in Fds
  BY Running DEF WorkerInv
<1>2. conn[Mine.fd] # Nobody
  BY <1>1 DEF WorkerInv, OwnInv, Owned, Mine
<1>3. conn[Mine.fd] \in Peers
  BY <1>1, <1>2 DEF WorkerInv, LinkInv, Linked
<1> QED
  BY <1>2, <1>3 DEF WorkerInv, OwnInv, NoReset, Broken, MyPeer

LEMMA SameOwners ==
  ASSUME PoolInv, Owned, SameFrames, UNCHANGED m_clients,
         \A f \in Fds : conn[f] # Nobody => conn'[f] # Nobody
  PROVE  Owned'
<1>1. \A f \in DOMAIN m_clients : f \in Fds
  BY DEF PoolInv, Stacks, Owned
<1>2. ASSUME NEW f \in DOMAIN m_clients'
      PROVE  /\ m_clients'[f] \in DOMAIN handler'
             /\ handler'[m_clients'[f]].fd = f
             /\ conn'[f] # Nobody
  BY <1>1, <1>2 DEF Owned, SameFrames
<1>3. ASSUME NEW id \in DOMAIN handler'
      PROVE  /\ handler'[id].fd \in DOMAIN m_clients'
             /\ m_clients'[handler'[id].fd] = id
  BY <1>3 DEF Owned, SameFrames
<1> QED
  BY <1>2, <1>3 DEF Owned

(* A known client's routine can be resumed. *)
LEMMA CalledOwn ==
  ASSUME WorkerInv, pc \notin {"co", "terminated"}, NEW f \in DOMAIN m_clients, NEW caller,
         CallResume(m_clients[f], caller)
  PROVE  /\ pc' = "co" /\ from' = caller /\ ordinator' = SwitchTo(ordinator, m_clients[f])
         /\ Me' = m_clients[f] /\ m_clients[f] \in DOMAIN handler /\ handler[Me'].fd = f
<1>1. m_clients[f] \in DOMAIN handler /\ handler[m_clients[f]].fd = f
  BY DEF WorkerInv, OwnInv, Owned
<1>2. m_clients[f] \in 1..Len(ordinator.routines) /\ ordinator.routines[m_clients[f]].ctx # "dead"
  BY <1>1 DEF WorkerInv, PoolInv, Stacks, Alive, Routines
<1>3. CanResume(ordinator, m_clients[f])
  BY <1>2 DEF WorkerInv, PoolInv, CoInv, FlagsSound, CanResume
<1>4. pc' = "co" /\ from' = caller /\ ordinator' = SwitchTo(ordinator, m_clients[f])
  BY <1>2, <1>3 DEF CallResume
<1>5. Me' = m_clients[f]
  BY <1>4 DEF WorkerInv, PoolInv, CoInv, CoTypeOK, SwitchTo, Me
<1> QED
  BY <1>1, <1>4, <1>5

LEMMA OwnGoesOn ==
  ASSUME WorkerInv, pc = "co", UNCHANGED <<from, batch>>, GoesOn, PeersStay
  PROVE  OwnInv'
<1>1. PICK h : DOMAIN h = Frame /\ h.fd = Mine.fd /\ (Continue(h) \/ Suspend(h))
  BY DEF GoesOn
<1>2. /\ SameFrames /\ UNCHANGED <<m_clients, conn>>
      /\ from = "events" \/ from = "sweep"
  BY <1>1, FrameReplaced DEF WorkerInv, PoolInv, Scheduled, Continue, Suspend
<1>3. NoReset'
  BY DEF WorkerInv, OwnInv, NoReset, PeersStay
<1>4. Owned'
  BY <1>2, SameOwners DEF WorkerInv, OwnInv
<1>5. Batched'
  <2>1. CASE Continue(h)
    <3>1. Me \in DOMAIN handler /\ Me' = Me
      BY <2>1, Running DEF WorkerInv, Continue, Me
    <3>2. handler'[Me'].fd = handler[Me].fd /\ pc' = "co"
      BY <1>2, <2>1, <3>1 DEF SameFrames, Continue
    <3> QED
      BY <1>2, <3>2 DEF WorkerInv, OwnInv, Batched
  <2>2. CASE Suspend(h)
    BY <1>2, <2>2 DEF WorkerInv, OwnInv, Batched, Suspend
  <2> QED
    BY <1>1, <2>1, <2>2
<1> QED
  BY <1>3, <1>4, <1>5 DEF OwnInv

LEMMA OwnLeaves ==
  ASSUME WorkerInv, pc = "co", UNCHANGED <<from, batch>>, Leave
  PROVE  OwnInv'
<1>1. Me \in DOMAIN handler /\ Mine.fd \in Fds /\ Mine = handler[Me]
  BY Running DEF WorkerInv, Mine
<1>2. \A g \in Fds : conn'[g] = IF g = Mine.fd THEN Nobody ELSE conn[g]
  BY <1>1, Closed DEF WorkerInv, Leave
<1>3. handler' = Forget(handler, Me) /\ m_clients' = Forget(m_clients, Mine.fd)
  BY DEF Leave, CloseMine
<1>4. Owned
  BY DEF WorkerInv, OwnInv
<1>5. \A f \in DOMAIN m_clients : f \in Fds
  BY <1>4 DEF WorkerInv, PoolInv, Stacks, Owned
<1>6. Owned'
  <2>1. ASSUME NEW f \in DOMAIN m_clients'
        PROVE  /\ m_clients'[f] \in DOMAIN handler'
               /\ handler'[m_clients'[f]].fd = f
               /\ conn'[f] # Nobody
    BY <1>1, <1>2, <1>3, <1>4, <1>5, <2>1 DEF Owned, Forget
  <2>2. ASSUME NEW id \in DOMAIN handler'
        PROVE  /\ handler'[id].fd \in DOMAIN m_clients'
               /\ m_clients'[handler'[id].fd] = id
    BY <1>1, <1>3, <1>4, <2>2 DEF Owned, Forget
  <2> QED
    BY <2>1, <2>2 DEF Owned
<1>7. /\ pc' # "co"
      /\ from = "events" => pc' \in {"events", "terminated"}
      /\ from = "sweep" => pc' \in {"sweep", "terminated"}
      /\ from \in {"events", "sweep"}
  BY LeftOut DEF WorkerInv, PoolInv, Scheduled
<1>8. pc' # "terminated" => Batched'
  BY <1>1, <1>2, <1>7 DEF WorkerInv, OwnInv, Batched
<1>9. NoReset'
  <2>1. ASSUME NEW c \in Peers PROVE peer'[c].hup # "rst"
    <3>1. /\ DOMAIN peer[c] = PeerFields /\ peer[c].hup # "rst"
          /\ peer'[c] = IF c = MyPeer
                        THEN [peer[c] EXCEPT !.link = "off", !.inbox = FALSE, !.hup = "no"]
                        ELSE peer[c]
      BY DEF WorkerInv, LinkInv, Sides, OwnInv, NoReset, Leave, CloseMine
    <3> QED
      BY <3>1 DEF PeerFields
  <2> QED
    BY <2>1 DEF NoReset
<1> QED
  BY <1>6, <1>8, <1>9 DEF OwnInv

LEMMA OwnStarts ==
  ASSUME WorkerInv, NEW f \in Fds, DispatchNew(f)
  PROVE  OwnInv'
<1> DEFINE id == CreatedId(ordinator)
<1>1. id \notin DOMAIN handler /\ Me' = id
  BY NewPool DEF WorkerInv, Me
<1>2. /\ m_clients' = Put(m_clients, f, id)
      /\ handler' = Put(handler, id, [fd |-> f, at |-> "read", left |-> 0, keep |-> FALSE, age |-> 0])
      /\ f \in batch \ {Listener} /\ f \notin DOMAIN m_clients
      /\ batch' = batch \ {f} /\ pc = "events" /\ pc' = "co" /\ from' = "events"
      /\ UNCHANGED <<conn, peer>>
  BY DEF DispatchNew
<1> HIDE DEF id
<1>3. Owned /\ Batched /\ NoReset
  BY <1>2 DEF WorkerInv, OwnInv
<1>4. conn[f] # Nobody
  BY <1>2, <1>3 DEF Batched
<1>5. Owned'
  BY <1>1, <1>2, <1>3, <1>4 DEF Owned, Put
<1>6. handler'[Me'].fd = f
  BY <1>1, <1>2 DEF Put
<1>7. Batched'
  BY <1>2, <1>3, <1>6 DEF Batched
<1> QED
  BY <1>2, <1>3, <1>5, <1>7 DEF OwnInv, NoReset

LEMMA OwnStep == "rst" \notin HangUps /\ WorkerInv /\ [Next]_vars => OwnInv'
<1> SUFFICES ASSUME "rst" \notin HangUps, WorkerInv, [Next]_vars PROVE OwnInv'
  OBVIOUS
<1>1. ASSUME UNCHANGED <<ordinator, from, handler, m_clients, batch, conn, pc>>,
             \A c \in Peers : peer'[c].hup = peer[c].hup \/ peer'[c].hup # "rst"
      PROVE  OwnInv'
  BY <1>1 DEF WorkerInv, OwnInv, NoReset, Owned, Batched, Me
(* A step of run() outside the routines that moves neither a descriptor nor a *)
(* client. *)
<1>2. ASSUME UNCHANGED <<m_clients, conn, peer, handler>>, pc \notin {"co", "terminated"},
             pc' # "co", pc' \in {"loop", "epoll", "sweep"} => batch' = {},
             \A f \in batch' \ {Listener} : f \in Fds /\ conn[f] # Nobody
      PROVE  OwnInv'
  BY <1>2 DEF WorkerInv, OwnInv, NoReset, Owned, Batched
<1>3. CASE Environment
  <2>1. ASSUME NEW c \in Peers,
               Connect(c) \/ SendRequest(c) \/ Drain(c) \/ \E how \in HangUps : HangUp(c, how)
        PROVE  OwnInv'
    <3>1. \A d \in Peers : peer'[d].hup = peer[d].hup \/ peer'[d].hup # "rst"
      <4>1. CASE Connect(c)
        BY <4>1 DEF Connect, WorkerInv, LinkInv, Sides, PeerFields
      <4>2. CASE SendRequest(c) \/ Drain(c)
        BY <4>2 DEF SendRequest, Drain, WorkerInv, LinkInv, Sides, PeerFields
      <4>3. CASE \E how \in HangUps : HangUp(c, how)
        BY <4>3 DEF HangUp, WorkerInv, LinkInv, Sides, PeerFields
      <4> QED
        BY <2>1, <4>1, <4>2, <4>3
    <3> QED
      BY <1>1, <2>1, <3>1 DEF Connect, SendRequest, Drain, HangUp, workerVars
  <2>2. CASE Signal
    <3>1. CASE UNCHANGED pc
      BY <1>1, <2>2, <3>1 DEF Signal
    <3>2. CASE pc = "epoll" /\ pc' = "loop"
      BY <1>2, <2>2, <3>2 DEF Signal, WorkerInv, OwnInv, Batched
    <3> QED
      BY <2>2, <3>1, <3>2 DEF Signal
  <2> QED
    BY <1>3, <2>1, <2>2 DEF Environment
<1>4. CASE Tick
  <2>1. SameFrames
    BY <1>4 DEF Tick, WorkerInv, PoolInv, Stacks, SameFrames, Frame
  <2>2. Owned'
    BY <1>4, <2>1, SameOwners DEF Tick, WorkerInv, OwnInv
  <2>3. Batched'
    <3>1. pc = "co" => handler'[Me].fd = handler[Me].fd
      BY <2>1, Running DEF SameFrames, WorkerInv
    <3>2. Batched
      BY <1>4 DEF Tick, WorkerInv, OwnInv
    <3> QED
      BY <1>4, <3>1, <3>2 DEF Tick, Batched, Me
  <2> QED
    BY <1>4, <2>2, <2>3 DEF Tick, WorkerInv, OwnInv, NoReset
<1>5. CASE LoopTest \/ EpollTimeout \/ EventsDone \/ SweepDone \/ AcceptDone
  <2>1. Batched
    BY <1>5 DEF WorkerInv, OwnInv, LoopTest, EpollTimeout, EventsDone, SweepDone, AcceptDone
  <2> QED
    BY <1>2, <1>5, <2>1 DEF Batched, LoopTest, EpollTimeout, EventsDone, SweepDone, AcceptDone
<1>6. CASE EpollEvents
  BY <1>2, <1>6 DEF EpollEvents, ReadyFds, Readable
<1>7. ASSUME NEW c \in Peers, AcceptOne(c) PROVE OwnInv'
  <2>1. CASE UNCHANGED <<conn, peer>>
    <3>1. Batched
      BY <1>7 DEF WorkerInv, OwnInv, AcceptOne
    <3> QED
      BY <1>2, <1>7, <2>1, <3>1 DEF AcceptOne, Batched
  <2>2. CASE ~UNCHANGED <<conn, peer>>
    <3>1. /\ pc = "events" /\ UNCHANGED <<ordinator, pc, from, batch, m_clients, handler>>
          /\ peer' = [peer EXCEPT ![c].link = "open"]
          /\ \E f : conn' = [conn EXCEPT ![f] = c]
      BY <1>7, <2>2 DEF AcceptOne
    <3>2. \A g \in Fds : conn[g] # Nobody => conn'[g] # Nobody
      BY <3>1, Numbers DEF WorkerInv, LinkInv, Sides
    <3>3. Owned'
      BY <3>1, <3>2, SameOwners, UnchangedFrames DEF WorkerInv, OwnInv
    <3>4. Batched'
      BY <3>1, <3>2 DEF WorkerInv, OwnInv, Batched
    <3>5. NoReset'
      BY <3>1 DEF WorkerInv, OwnInv, NoReset, LinkInv, Sides, PeerFields
    <3> QED
      BY <3>3, <3>4, <3>5 DEF OwnInv
  <2> QED
    BY <2>1, <2>2
<1>8. ASSUME NEW f \in Fds, Dispatch(f) \/ SweepOne(f) PROVE OwnInv'
  <2>1. /\ UNCHANGED <<m_clients, handler, conn, peer>> /\ f \in DOMAIN m_clients
        /\ batch' \subseteq batch /\ f \notin batch' /\ pc' = "co" /\ handler[Me'].fd = f
        /\ from' = "sweep" => batch' = {}
        /\ Owned /\ Batched /\ NoReset
    <3>1. CASE Dispatch(f)
      BY <3>1, CalledOwn DEF Dispatch, WorkerInv, OwnInv
    <3>2. CASE SweepOne(f)
      <4>1. Batched /\ Owned /\ NoReset /\ pc = "sweep" /\ UNCHANGED batch
        BY <3>2 DEF SweepOne, WorkerInv, OwnInv
      <4> QED
        BY <3>2, <4>1, CalledOwn DEF SweepOne, Batched
    <3> QED
      BY <1>8, <3>1, <3>2
  <2> QED
    BY <2>1 DEF OwnInv, Owned, Batched, NoReset
<1>9. ASSUME NEW f \in Fds, DispatchNew(f) PROVE OwnInv'
  BY <1>9, OwnStarts
<1>10. CASE HandleStep
  <2>1. pc = "co" /\ UNCHANGED <<from, batch>> /\ ((GoesOn /\ PeersStay) \/ Leave)
    BY <1>10, Handles, NotBroken DEF WorkerInv
  <2> QED
    BY <2>1, OwnGoesOn, OwnLeaves
<1>11. CASE UNCHANGED vars
  BY <1>1, <1>11 DEF vars, workerVars
<1> QED
  BY <1>3, <1>4, <1>5, <1>6, <1>7, <1>8, <1>9, <1>10, <1>11 DEF Next, WorkerStep, HandleStep

(* Every connection that is being handled has a routine of its own: m_clients *)
(* and the stacks agree, one to one, and name open descriptors, through every *)
(* growth of the pool, lost flag and reuse of a descriptor.                   *)
THEOREM OwnRoutines ==
  ASSUME "rst" \notin HangUps
  PROVE  Spec => []OwnRoutine
<1>1. Init => WorkerInv
  BY WorkerInit, OwnInit DEF WorkerInv
<1>2. WorkerInv /\ [Next]_vars => WorkerInv'
  BY PoolStep, LinkStep, OwnStep DEF WorkerInv
<1>3. WorkerInv => OwnRoutine
  BY DEF WorkerInv, OwnInv, Owned, OwnRoutine
<1> QED
  BY <1>1, <1>2, <1>3, PTL DEF Spec

-----------------------------------------------------------------------------
(* The ages of the clients and the idle time of epoll_wait: as long as it     *)
(* waits nobody has been resumed, and a descriptor leaves the sweep before    *)
(* its routine runs.                                                          *)
Sweeping == pc = "sweep" \/ (pc = "co" /\ from = "sweep")

Ages ==
  /\ \A id \in DOMAIN handler : handler[id].age \in Nat
  /\ idle \in Nat /\ idle <= epoll_timeout
  /\ pc = "epoll" => \A id \in DOMAIN handler : handler[id].age >= idle
Due ==
  Sweeping => \A f \in sweep \cap DOMAIN m_clients : handler[m_clients[f]].age >= epoll_timeout
NotMine == (pc = "co" /\ from = "sweep") => handler[Me].fd \notin sweep

SweepInv == Ages /\ Due /\ NotMine

LEMMA Timeout == epoll_timeout \in Nat /\ epoll_timeout <= ReadTimeout /\ epoll_timeout <= WriteTimeout
BY Numbers DEF epoll_timeout, MinOf

LEMMA SweepInit == Init => SweepInv
BY EmptyFunction, Timeout DEF Init, SweepInv, Ages, Due, NotMine, Sweeping

LEMMA SweepKept ==
  ASSUME SweepInv, UNCHANGED <<ordinator, from, handler, m_clients>>,
         idle' \in {0, idle}, sweep' \subseteq sweep,
         pc' = "epoll" => pc = "epoll" \/ idle' = 0,
         Sweeping' => Sweeping, pc' = "co" => pc = "co"
  PROVE  SweepInv'
<1>1. Ages'
  BY Timeout DEF SweepInv, Ages
<1>2. Due'
  BY DEF SweepInv, Due
<1>3. NotMine'
  BY DEF SweepInv, NotMine, Sweeping, Me
<1> QED
  BY <1>1, <1>2, <1>3 DEF SweepInv

LEMMA SweepTick == WorkerInv /\ SweepInv /\ Tick => SweepInv'
<1> SUFFICES ASSUME WorkerInv, SweepInv, Tick PROVE SweepInv'
  OBVIOUS
<1>1. /\ pc # "terminated" /\ UNCHANGED <<ordinator, pc, from, sweep, m_clients>>
      /\ DOMAIN handler' = DOMAIN handler /\ idle' = MinOf(idle + 1, epoll_timeout)
  BY DEF Tick
<1>2. \A id \in DOMAIN handler : /\ handler'[id].age = MinOf(handler[id].age + 1, epoll_timeout)
                                 /\ handler'[id].fd = handler[id].fd
  BY DEF Tick, WorkerInv, PoolInv, Stacks, Frame
<1>3. Ages'
  BY <1>1, <1>2, Timeout DEF SweepInv, Ages, MinOf
<1>4. ASSUME Sweeping', NEW f \in sweep' \cap DOMAIN m_clients'
      PROVE  handler'[m_clients'[f]].age >= epoll_timeout
  <2>1. m_clients[f] \in DOMAIN handler
    BY <1>1, <1>4 DEF WorkerInv, OwnInv, Owned
  <2>2. handler[m_clients[f]].age >= epoll_timeout /\ handler[m_clients[f]].age \in Nat
    BY <1>1, <1>4, <2>1 DEF SweepInv, Due, Sweeping, Ages
  <2> QED
    BY <1>1, <1>2, <2>1, <2>2, Timeout DEF MinOf
<1>5. NotMine'
  BY <1>1, <1>2, Running DEF SweepInv, NotMine, WorkerInv, Me
<1> QED
  BY <1>3, <1>4, <1>5 DEF SweepInv, Due

LEMMA SweepGoesOn ==
  ASSUME WorkerInv, SweepInv, pc = "co", UNCHANGED <<from, idle>>, GoesOn
  PROVE  SweepInv'
<1>1. PICK h : /\ DOMAIN h = Frame /\ h.fd = Mine.fd /\ h.age \in {0, Mine.age}
               /\ Continue(h) \/ Suspend(h)
  BY DEF GoesOn
<1>2. /\ Me \in DOMAIN handler /\ Mine = handler[Me]
      /\ from = "events" \/ from = "sweep"
  BY Running DEF WorkerInv, Mine, PoolInv, Scheduled
<1>3. /\ UNCHANGED <<sweep, m_clients>> /\ DOMAIN handler' = DOMAIN handler
      /\ \A id \in DOMAIN handler : handler'[id] = IF id = Me THEN h ELSE handler[id]
      /\ pc' # "epoll" /\ (pc' = "co" => Me' = Me) /\ (Sweeping' => from = "sweep")
  BY <1>1, <1>2 DEF Continue, Suspend, Sweeping, Me
<1>4. Ages'
  BY <1>1, <1>2, <1>3 DEF SweepInv, Ages
<1>5. ASSUME Sweeping', NEW f \in sweep' \cap DOMAIN m_clients'
      PROVE  handler'[m_clients'[f]].age >= epoll_timeout
  <2>1. f # Mine.fd
    BY <1>2, <1>3, <1>5 DEF SweepInv, NotMine
  <2>2. m_clients[f] # Me /\ m_clients[f] \in DOMAIN handler
    BY <1>2, <1>3, <1>5, <2>1 DEF WorkerInv, OwnInv, Owned
  <2> QED
    BY <1>3, <1>5, <2>2 DEF SweepInv, Due, Sweeping
<1>6. NotMine'
  BY <1>1, <1>2, <1>3 DEF SweepInv, NotMine
<1> QED
  BY <1>4, <1>5, <1>6 DEF SweepInv, Due

LEMMA SweepLeaves ==
  ASSUME WorkerInv, SweepInv, pc = "co", UNCHANGED <<from, idle>>, Leave
  PROVE  SweepInv'
<1>1. /\ Me \in DOMAIN handler /\ Mine = handler[Me]
      /\ from = "events" \/ from = "sweep"
  BY Running DEF WorkerInv, Mine, PoolInv, Scheduled
<1>2. /\ handler' = Forget(handler, Me) /\ m_clients' = Forget(m_clients, Mine.fd)
      /\ sweep' \subseteq sweep /\ pc' \notin {"co", "epoll"}
      /\ pc' = "sweep" => from = "sweep"
  BY <1>1 DEF Leave, CloseMine, AfterErase
<1>3. Ages'
  BY <1>2 DEF SweepInv, Ages, Forget
<1>4. ASSUME Sweeping', NEW f \in sweep' \cap DOMAIN m_clients'
      PROVE  handler'[m_clients'[f]].age >= epoll_timeout
  <2>1. f \in sweep \cap DOMAIN m_clients /\ f # Mine.fd /\ m_clients'[f] = m_clients[f] /\ Sweeping
    BY <1>2, <1>4 DEF Forget, Sweeping
  <2>2. m_clients[f] # Me /\ m_clients[f] \in DOMAIN handler
    BY <1>1, <2>1 DEF WorkerInv, OwnInv, Owned
  <2>3. handler'[m_clients[f]] = handler[m_clients[f]]
    BY <1>2, <2>2 DEF Forget
  <2> QED
    BY <2>1, <2>3 DEF SweepInv, Due
<1>5. NotMine'
  BY <1>2 DEF NotMine
<1> QED
  BY <1>3, <1>4, <1>5 DEF SweepInv, Due

LEMMA SweepStep == WorkerInv /\ SweepInv /\ [Next]_vars => SweepInv'
<1> SUFFICES ASSUME WorkerInv, SweepInv, [Next]_vars PROVE SweepInv'
  OBVIOUS
<1>1. CASE Environment
  <2>1. ASSUME NEW c \in Peers,
               Connect(c) \/ SendRequest(c) \/ Drain(c) \/ \E how \in HangUps : HangUp(c, how)
        PROVE  SweepInv'
    BY <2>1, SweepKept DEF Connect, SendRequest, Drain, HangUp, workerVars, Sweeping
  <2>2. CASE Signal
    BY <2>2, SweepKept DEF Signal, Sweeping
  <2> QED
    BY <1>1, <2>1, <2>2 DEF Environment
<1>2. CASE LoopTest \/ EpollEvents \/ EventsDone \/ SweepDone \/ AcceptDone \/ UNCHANGED vars
  BY <1>2, SweepKept DEF LoopTest, EpollEvents, EventsDone, SweepDone, AcceptDone, vars,
                         workerVars, Sweeping
<1>3. ASSUME NEW c \in Peers, AcceptOne(c) PROVE SweepInv'
  BY <1>3, SweepKept DEF AcceptOne, Sweeping
<1>4. CASE EpollTimeout
  <2>1. /\ UNCHANGED <<ordinator, from, handler, m_clients, idle>>
        /\ sweep' = DOMAIN m_clients /\ pc = "epoll" /\ pc' = "sweep" /\ idle = epoll_timeout
    BY <1>4 DEF EpollTimeout
  <2>2. \A f \in DOMAIN m_clients : m_clients[f] \in DOMAIN handler
    BY <2>1 DEF WorkerInv, OwnInv, Owned
  <2> QED
    BY <2>1, <2>2 DEF SweepInv, Ages, Due, NotMine
<1>5. ASSUME NEW f \in Fds, DispatchNew(f) PROVE SweepInv'
  <2>1. /\ handler' = Put(handler, CreatedId(ordinator),
                          [fd |-> f, at |-> "read", left |-> 0, keep |-> FALSE, age |-> 0])
        /\ from' = "events" /\ pc' = "co" /\ UNCHANGED idle
    BY <1>5 DEF DispatchNew
  <2> QED
    BY <2>1 DEF SweepInv, Ages, Due, NotMine, Sweeping, Put
<1>6. ASSUME NEW f \in Fds, Dispatch(f) PROVE SweepInv'
  <2>1. pc' = "co" /\ from' = "events" /\ UNCHANGED <<handler, idle>>
    BY <1>6, CalledOwn DEF Dispatch
  <2> QED
    BY <2>1 DEF SweepInv, Ages, Due, NotMine, Sweeping
<1>7. ASSUME NEW f \in Fds, SweepOne(f) PROVE SweepInv'
  <2>1. /\ pc' = "co" /\ handler[Me'].fd = f /\ UNCHANGED <<handler, m_clients, idle>>
        /\ pc = "sweep" /\ sweep' = sweep \ {f}
    BY <1>7, CalledOwn DEF SweepOne
  <2> QED
    BY <2>1 DEF SweepInv, Ages, Due, NotMine, Sweeping
<1>8. CASE HandleStep
  <2>1. pc = "co" /\ UNCHANGED <<from, idle>> /\ (GoesOn \/ Leave)
    BY <1>8, Handles, NotBroken DEF WorkerInv
  <2> QED
    BY <2>1, SweepGoesOn, SweepLeaves
<1> QED
  BY <1>1, <1>2, <1>3, <1>4, <1>5, <1>6, <1>7, <1>8, SweepTick DEF Next, WorkerStep, HandleStep

(* The sweep after an idle epoll_wait only meets clients whose time is up:    *)
(* check_clients_timeout, which resumes everybody, never gives one a new      *)
(* lease that it would have to wait for again.                                *)
THEOREM SweepIsDue ==
  ASSUME "rst" \notin HangUps
  PROVE  Spec => []SweepMeetsTimedOut
<1>1. Init => WorkerInv /\ SweepInv
  BY WorkerInit, OwnInit, SweepInit DEF WorkerInv
<1>2. WorkerInv /\ SweepInv /\ [Next]_vars => (WorkerInv /\ SweepInv)'
  BY PoolStep, LinkStep, OwnStep, SweepStep DEF WorkerInv
<1>3. WorkerInv /\ SweepInv => SweepMeetsTimedOut
  <2>1. ASSUME WorkerInv, SweepInv, pc = "sweep", NEW f \in sweep \cap DOMAIN m_clients
        PROVE  timed_out(handler[m_clients[f]])
    <3>1. m_clients[f] \in DOMAIN handler
      BY <2>1 DEF WorkerInv, OwnInv, Owned
    <3>2. handler[m_clients[f]].age \in Nat /\ handler[m_clients[f]].age >= epoll_timeout
      BY <2>1, <3>1 DEF SweepInv, Ages, Due, Sweeping
    <3> QED
      BY <3>2, Numbers DEF timed_out, epoll_timeout, MinOf
  <2> QED
    BY <2>1 DEF SweepMeetsTimedOut
<1> QED
  BY <1>1, <1>2, <1>3, PTL DEF Spec
=============================================================================
