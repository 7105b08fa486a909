---------------------------- MODULE ProcessProofs ----------------------------
(***************************************************************************)
(* Who owns which child, and the exchange of messages with each: theorems    *)
(* for any number of Process objects, children and messages, any length of a *)
(* message and any capacity of the pipes.                                    *)
(***************************************************************************)
EXTENDS Process, TLAPS

ObjectFields == {"st", "m_p2c_fd", "m_c2p_fd", "m_pid", "m_is_readable", "stopped"}
ChildFields == {"st", "holds", "mine", "size", "left", "eof", "reply", "cause"}

(* An object that has a pid is alive, and the child has been forked. *)
Types ==
  /\ DOMAIN obj = Objects
  /\ \A o \in Objects :
       /\ DOMAIN obj[o] = ObjectFields
       /\ obj[o].m_pid \in Kids \cup {None}
       /\ obj[o].m_pid # None => Live(o) /\ child[obj[o].m_pid].st # "none"
  /\ DOMAIN child = Kids
  /\ \A k \in Kids :
       /\ DOMAIN child[k] = ChildFields
       /\ child[k].st \in {"none", "forked", "running", "zombie", "reaped"}
       /\ child[k].st = "none" => child[k] = Unborn

OwnInv == Types /\ ChildrenOwned

LEMMA NoneIsNoKid == None \notin Kids
BY ProcessAssumption DEF None, Kids

LEMMA UnbornFields ==
  /\ DOMAIN Unborn = ChildFields /\ Unborn.st = "none" /\ Unborn.cause = "none"
  /\ \A c : /\ DOMAIN Ended(c) = ChildFields
            /\ Ended(c).st = "zombie"
            /\ Ended(c).cause = c
BY DEF Unborn, Ended, ChildFields

LEMMA NothingFields ==
  DOMAIN Nothing = ObjectFields /\ Nothing.st = "none" /\ Nothing.m_pid = None
BY DEF Nothing, ObjectFields

LEMMA OwnInit == Init => OwnInv
<1> SUFFICES ASSUME Init PROVE OwnInv
  OBVIOUS
<1>1. \A o \in Objects : obj[o] = Nothing
  BY DEF Init
<1>2. \A k \in Kids : child[k] = Unborn
  BY DEF Init
<1>3. Types
  BY <1>1, <1>2, UnbornFields, NothingFields DEF Init, Types
<1>4. Forked = {}
  BY <1>2, UnbornFields DEF Forked
<1>5. ChildrenOwned
  BY <1>1, <1>4, NothingFields DEF ChildrenOwned
<1> QED
  BY <1>3, <1>5 DEF OwnInv

-----------------------------------------------------------------------------
(* What terminate() makes of the children: with a pid of its own it takes     *)
(* that child and no other; it never changes who has been forked.             *)
LEMMA TerminatedChildren ==
  ASSUME Types, NEW pid \in Kids \cup {None}, NEW c \in Terminated(pid)
  PROVE  /\ DOMAIN c = Kids
         /\ \A k \in Kids :
              /\ DOMAIN c[k] = ChildFields
              /\ c[k].st \in {"none", "forked", "running", "zombie", "reaped"}
              /\ c[k].st = "none" => c[k] = Unborn
              /\ c[k].st = "none" <=> child[k].st = "none"
         /\ pid # None =>
              /\ child[pid].st # "none" => c[pid].st = "reaped"
              /\ \A k \in Kids \ {pid} : c[k] = child[k]
<1> DEFINE s == Signalled(pid)
           waited == {k \in Kids : s[k].st = "zombie" /\ pid \in {k, None}}
<1>1. DOMAIN s = Kids
  BY DEF Signalled
<1>2. ASSUME NEW k \in Kids
      PROVE  /\ DOMAIN s[k] = ChildFields
             /\ s[k].st \in {"none", "forked", "running", "zombie", "reaped"}
             /\ s[k].st = "none" => s[k] = Unborn
             /\ s[k].st = "none" <=> child[k].st = "none"
             /\ pid = k => ~(s[k].st \in {"forked", "running"})
  BY UnbornFields DEF Signalled, Types, Alive
<1>3. pid # None => \A k \in Kids \ {pid} : s[k] = child[k]
  BY DEF Signalled
<1>4. CASE waited = {} /\ c = s
  BY <1>1, <1>2, <1>3, <1>4
<1>5. CASE \E w \in waited : c = [s EXCEPT ![w].st = "reaped"]
  <2>1. PICK w \in waited : c = [s EXCEPT ![w].st = "reaped"]
    BY <1>5
  <2>2. w \in Kids /\ s[w].st = "zombie" /\ pid \in {w, None}
    OBVIOUS
  <2>3. DOMAIN c = Kids /\ \A k \in Kids \ {w} : c[k] = s[k]
    BY <1>1, <2>1
  <2>4. DOMAIN c[w] = ChildFields /\ c[w].st = "reaped"
    BY <1>1, <1>2, <2>1, <2>2 DEF ChildFields
  <2> HIDE DEF s, waited
  <2> QED
    BY <1>2, <1>3, <2>2, <2>3, <2>4
<1> QED
  BY <1>4, <1>5 DEF Terminated

(* An object is stopped for good: it is left with no pid, or with that of     *)
(* another object, which gives it up.                                         *)
LEMMA Stopped ==
  ASSUME OwnInv, NEW o \in Objects, Live(o),
         child' \in Terminated(obj[o].m_pid),
         wild' = (wild \/ obj[o].m_pid = None),
         DOMAIN obj' = Objects,
         \A p \in Objects : DOMAIN obj'[p] = ObjectFields,
         \/ /\ obj'[o].m_pid = None
            /\ \A p \in Objects \ {o} : obj'[p] = obj[p]
         \/ \E q \in Objects \ {o} :
              /\ obj'[o] = obj[q]
              /\ obj'[q].m_pid = None
              /\ \A p \in Objects \ {o, q} : obj'[p] = obj[p],
         up' = up
  PROVE  OwnInv'
<1> USE NoneIsNoKid
<1> DEFINE pid == obj[o].m_pid
<1>0. Types /\ ChildrenOwned /\ pid \in Kids \cup {None}
  BY DEF OwnInv, Types
<1>1. /\ DOMAIN child' = Kids
      /\ \A k \in Kids :
           /\ DOMAIN child'[k] = ChildFields
           /\ child'[k].st \in {"none", "forked", "running", "zombie", "reaped"}
           /\ child'[k].st = "none" => child'[k] = Unborn
           /\ child'[k].st = "none" <=> child[k].st = "none"
      /\ pid # None =>
           /\ child[pid].st # "none" => child'[pid].st = "reaped"
           /\ \A k \in Kids \ {pid} : child'[k] = child[k]
  BY <1>0, TerminatedChildren
<1>2. \A p \in Objects : obj'[p].m_pid # None =>
        \E q \in Objects : /\ q # o \/ obj'[p].m_pid # pid \/ p = o
                          /\ obj'[p] = obj[q]
  OBVIOUS
<1>3. Types'
  <2>1. ASSUME NEW p \in Objects
        PROVE  /\ obj'[p].m_pid \in Kids \cup {None}
               /\ obj'[p].m_pid # None =>
                    obj'[p].st = "live" /\ child'[obj'[p].m_pid].st # "none"
    <3>1. CASE obj'[p].m_pid = None
      BY <3>1
    <3>2. CASE obj'[p].m_pid # None
      <4>1. PICK q \in Objects : obj'[p] = obj[q]
        BY <1>2, <3>2
      <4> QED
        BY <1>0, <1>1, <3>2, <4>1 DEF Types, Live
    <3> QED
      BY <3>1, <3>2
  <2> QED
    BY <1>1, <2>1 DEF Types, Live
<1>4. ChildrenOwned'
  <2>1. CASE wild'
    BY <2>1 DEF ChildrenOwned
  <2>2. CASE ~wild'
    <3>1. /\ ~wild /\ pid \in Kids /\ pid # None
          /\ child'[pid].st = "reaped"
          /\ \A k \in Kids \ {pid} : child'[k] = child[k]
      BY <1>0, <1>1, <2>2 DEF Types
    <3>2. /\ \A p, q \in Objects : p # q /\ obj[p].m_pid # None => obj[p].m_pid # obj[q].m_pid
          /\ \A k \in Forked : up /\ child[k].st # "reaped" => \E p \in Objects : Live(p) /\ obj[p].m_pid = k
          /\ \A p \in Objects :
               obj[p].m_pid # None /\ child[obj[p].m_pid].cause = "signal" => obj[p].stopped
      BY <1>0, <3>1 DEF ChildrenOwned
    <3>3. \A p \in Objects : obj'[p].m_pid # pid
      BY <3>1, <3>2
    <3>4. \A p, q \in Objects : p # q /\ obj'[p].m_pid # None => obj'[p].m_pid # obj'[q].m_pid
      BY <3>2
    <3>5. ASSUME NEW k \in Forked', up', child'[k].st # "reaped"
          PROVE  \E p \in Objects : Live(p)' /\ obj'[p].m_pid = k
      <4>1. k \in Kids /\ k # pid /\ k \in Forked /\ child[k].st # "reaped"
        BY <1>1, <3>1, <3>5 DEF Forked
      <4>2. PICK p \in Objects : Live(p) /\ obj[p].m_pid = k
        BY <3>2, <3>5, <4>1
      <4>3. p # o /\ k # None
        BY <4>1, <4>2
      <4>4. \E q \in Objects : obj'[q] = obj[p]
        BY <4>2, <4>3
      <4> QED
        BY <4>2, <4>4 DEF Live
    <3>6. ASSUME NEW p \in Objects, obj'[p].m_pid # None,
                 child'[obj'[p].m_pid].cause = "signal"
          PROVE  obj'[p].stopped
      <4>1. PICK q \in Objects : obj'[p] = obj[q]
        BY <1>2, <3>6
      <4>2. obj[q].m_pid \in Kids \ {pid}
        BY <1>0, <3>3, <3>6, <4>1 DEF Types
      <4> QED
        BY <3>1, <3>2, <3>6, <4>1, <4>2
    <3> QED
      BY <3>4, <3>5, <3>6 DEF ChildrenOwned
  <2> QED
    BY <2>1, <2>2
<1> QED
  BY <1>3, <1>4 DEF OwnInv

(* The parent ends: nobody owns anything any more. *)
LEMMA Dies ==
  ASSUME OwnInv, ~up', \A o \in Objects : obj'[o] = Nothing, DOMAIN obj' = Objects,
         DOMAIN child' = Kids,
         \A k \in Kids :
           /\ DOMAIN child'[k] = ChildFields
           /\ child'[k].st \in {"none", "forked", "running", "zombie", "reaped"}
           /\ child'[k].st = "none" => child'[k] = Unborn
  PROVE  OwnInv'
<1>1. Types'
  BY NothingFields DEF Types
<1>2. ChildrenOwned'
  BY NothingFields DEF ChildrenOwned
<1> QED
  BY <1>1, <1>2 DEF OwnInv

(* Steps that leave the objects their pids, and the children who they are.    *)
LEMMA Quiet ==
  ASSUME OwnInv, up' => up, wild => wild',
         DOMAIN obj' = Objects,
         \A o \in Objects :
           /\ DOMAIN obj'[o] = ObjectFields
           /\ obj'[o].m_pid = obj[o].m_pid
           /\ obj'[o].st = obj[o].st
           /\ obj[o].stopped => obj'[o].stopped,
         DOMAIN child' = Kids,
         \A k \in Kids :
           /\ DOMAIN child'[k] = ChildFields
           /\ child'[k].st \in {"none", "forked", "running", "zombie", "reaped"}
           /\ child'[k].st = "none" => child'[k] = Unborn
           /\ child'[k].st = "none" <=> child[k].st = "none"
           /\ \/ wild'
              \/ /\ child[k].st = "reaped" => child'[k].st = "reaped"
                 /\ child'[k].cause = "signal" =>
                      \/ child[k].cause = "signal"
                      \/ \A o \in Objects : obj[o].m_pid = k => obj'[o].stopped
  PROVE  OwnInv'
<1>0. Types /\ ChildrenOwned
  BY DEF OwnInv
<1>1. Types'
  BY <1>0 DEF Types, Live
<1>2. ChildrenOwned'
  <2>1. CASE wild'
    BY <2>1 DEF ChildrenOwned
  <2>2. CASE ~wild'
    <3>1. \A p, q \in Objects : p # q /\ obj'[p].m_pid # None => obj'[p].m_pid # obj'[q].m_pid
      BY <1>0, <2>2 DEF ChildrenOwned
    <3>2. ASSUME NEW k \in Forked', up', child'[k].st # "reaped"
          PROVE  \E p \in Objects : Live(p)' /\ obj'[p].m_pid = k
      <4>1. k \in Forked /\ up /\ child[k].st # "reaped"
        BY <2>2, <3>2 DEF Forked
      <4>2. PICK p \in Objects : Live(p) /\ obj[p].m_pid = k
        BY <1>0, <2>2, <4>1 DEF ChildrenOwned
      <4> QED
        BY <4>2 DEF Live
    <3>3. ASSUME NEW p \in Objects, obj'[p].m_pid # None,
                 child'[obj'[p].m_pid].cause = "signal"
          PROVE  obj'[p].stopped
      <4>1. obj'[p].m_pid = obj[p].m_pid /\ obj[p].m_pid \in Kids
        BY <1>0, <3>3 DEF Types
      <4>2. \/ child[obj[p].m_pid].cause = "signal"
            \/ obj'[p].stopped
        BY <2>2, <3>3, <4>1
      <4> QED
        BY <1>0, <2>2, <3>3, <4>1, <4>2 DEF ChildrenOwned
    <3> QED
      BY <3>1, <3>2, <3>3 DEF ChildrenOwned
  <2> QED
    BY <2>1, <2>2
<1> QED
  BY <1>1, <1>2 DEF OwnInv

-----------------------------------------------------------------------------
LEMMA ConstructOwns ==
  ASSUME OwnInv, NEW o \in Objects, Construct(o)
  PROVE  OwnInv'
<1> USE NoneIsNoKid
<1>0. Types /\ ChildrenOwned
  BY DEF OwnInv
<1>1. PICK k \in Kids :
        /\ child[k].st = "none"
        /\ child' = [child EXCEPT ![k].st = "forked",
                                 ![k].holds = Inherited(k),
                                 ![k].mine = {obj[p].m_pid : p \in {p \in Objects : Live(p)}}]
        /\ obj' = [obj EXCEPT ![o] = [st |-> "live", m_p2c_fd |-> k, m_c2p_fd |-> k, m_pid |-> k,
                                     m_is_readable |-> TRUE, stopped |-> FALSE]]
  BY DEF Construct
<1>2. obj[o].st = "none" /\ wild' = wild /\ up' = up
  BY DEF Construct
<1>3. /\ DOMAIN child' = Kids
      /\ \A j \in Kids \ {k} : child'[j] = child[j]
      /\ DOMAIN child'[k] = ChildFields
      /\ child'[k].st = "forked"
      /\ child'[k].cause = child[k].cause
  BY <1>0, <1>1 DEF Types, ChildFields
<1>4. /\ DOMAIN obj' = Objects
      /\ \A p \in Objects \ {o} : obj'[p] = obj[p]
      /\ DOMAIN obj'[o] = ObjectFields
      /\ obj'[o].st = "live" /\ obj'[o].m_pid = k
  BY <1>0, <1>1 DEF Types, ObjectFields
<1>5. \A p \in Objects : obj[p].m_pid # k
  BY <1>0, <1>1 DEF Types
<1>6. Types'
  BY <1>0, <1>3, <1>4, <1>5 DEF Types, Live
<1>7. ChildrenOwned'
  <2>1. CASE wild
    BY <1>2, <2>1 DEF ChildrenOwned
  <2>2. CASE ~wild
    <3>1. \A p, q \in Objects : p # q /\ obj'[p].m_pid # None => obj'[p].m_pid # obj'[q].m_pid
      BY <1>0, <1>4, <1>5, <2>2 DEF ChildrenOwned
    <3>2. ASSUME NEW j \in Forked', up', child'[j].st # "reaped"
          PROVE  \E p \in Objects : Live(p)' /\ obj'[p].m_pid = j
      <4>1. CASE j = k
        BY <1>4, <4>1 DEF Live
      <4>2. CASE j # k
        <5>1. j \in Forked /\ up /\ child[j].st # "reaped"
          BY <1>2, <1>3, <3>2, <4>2 DEF Forked
        <5>2. PICK p \in Objects : Live(p) /\ obj[p].m_pid = j
          BY <1>0, <2>2, <5>1 DEF ChildrenOwned
        <5> QED
          BY <1>2, <1>4, <5>2 DEF Live
      <4> QED
        BY <4>1, <4>2
    <3>3. ASSUME NEW p \in Objects, obj'[p].m_pid # None,
                 child'[obj'[p].m_pid].cause = "signal"
          PROVE  obj'[p].stopped
      <4>1. CASE p = o
        BY <1>0, <1>1, <1>3, <1>4, <3>3, <4>1, UnbornFields DEF Types
      <4>2. CASE p # o
        BY <1>0, <1>3, <1>4, <1>5, <2>2, <3>3, <4>2 DEF ChildrenOwned, Types
      <4> QED
        BY <4>1, <4>2
    <3> QED
      BY <3>1, <3>2, <3>3 DEF ChildrenOwned
  <2> QED
    BY <2>1, <2>2
<1> QED
  BY <1>6, <1>7 DEF OwnInv

(* What a child does of itself changes no owner and is no signal. *)
LEMMA ChildAlone ==
  ASSUME OwnInv, NEW k \in Kids, child[k].st \in {"forked", "running"},
         DOMAIN child' = Kids,
         \A j \in Kids \ {k} : child'[j] = child[j],
         DOMAIN child'[k] = ChildFields,
         child'[k].st \in {"running", "zombie"},
         child'[k].cause = "signal" => child[k].cause = "signal",
         UNCHANGED <<up, obj>>, wild => wild'
  PROVE  OwnInv'
<1>1. Types
  BY DEF OwnInv
<1>2. \A j \in Kids :
        /\ DOMAIN child'[j] = ChildFields
        /\ child'[j].st \in {"none", "forked", "running", "zombie", "reaped"}
        /\ child'[j].st = "none" => child'[j] = Unborn
        /\ child'[j].st = "none" <=> child[j].st = "none"
        /\ child[j].st = "reaped" => child'[j].st = "reaped"
        /\ child'[j].cause = "signal" => child[j].cause = "signal"
  <2>1. ASSUME NEW j \in Kids \ {k}
        PROVE  /\ DOMAIN child'[j] = ChildFields
               /\ child'[j].st \in {"none", "forked", "running", "zombie", "reaped"}
               /\ child'[j].st = "none" => child'[j] = Unborn
               /\ child'[j] = child[j]
    BY <1>1 DEF Types
  <2> QED
    BY <2>1
<1> QED
  BY <1>1, <1>2, Quiet DEF Types

LEMMA Still ==
  OwnInv /\ UNCHANGED <<up, obj, child, wild>> => OwnInv'
BY DEF OwnInv, Types, ChildrenOwned, Live, Forked

LEMMA Died ==
  ASSUME OwnInv, Die, UNCHANGED child
  PROVE  OwnInv'
<1>1. /\ ~up' /\ DOMAIN obj' = Objects
      /\ \A o \in Objects : obj'[o] = Nothing
  BY DEF Die
<1> QED
  BY <1>1, Dies DEF OwnInv, Types

(* Calls on an object that leave it its pid. *)
LEMMA Kept ==
  ASSUME OwnInv, NEW o \in Objects, NEW x,
         obj' = [obj EXCEPT ![o] = x],
         DOMAIN x = ObjectFields, x.m_pid = obj[o].m_pid, x.st = obj[o].st,
         obj[o].stopped => x.stopped,
         UNCHANGED <<up, child, wild>>
  PROVE  OwnInv'
<1>1. Types
  BY DEF OwnInv
<1>2. /\ DOMAIN obj' = Objects
      /\ \A p \in Objects \ {o} : obj'[p] = obj[p]
      /\ obj'[o] = x
  BY <1>1 DEF Types
<1>3. \A p \in Objects :
        /\ DOMAIN obj'[p] = ObjectFields
        /\ obj'[p].m_pid = obj[p].m_pid
        /\ obj'[p].st = obj[p].st
        /\ obj[p].stopped => obj'[p].stopped
  BY <1>1, <1>2 DEF Types
<1> QED
  BY <1>1, <1>2, <1>3, Quiet DEF Types

(* The object is destroyed, or filled from another that is left without.      *)
LEMMA SafeStopOwns ==
  ASSUME OwnInv, NEW o \in Objects, Live(o),
         NEW after, SafeStop(o, after),
         DOMAIN after = Objects,
         \A p \in Objects : DOMAIN after[p] = ObjectFields,
         \/ /\ after[o].m_pid = None
            /\ \A p \in Objects \ {o} : after[p] = obj[p]
         \/ \E q \in Objects \ {o} :
              /\ after[o] = obj[q]
              /\ after[q].m_pid = None
              /\ \A p \in Objects \ {o, q} : after[p] = obj[p]
  PROVE  OwnInv'
<1>1. CASE Die /\ UNCHANGED child
  BY <1>1, Died
<1>2. CASE /\ child' \in Terminated(obj[o].m_pid)
           /\ obj' = after
           /\ wild' = (wild \/ obj[o].m_pid = None)
           /\ up' = up
  BY <1>2, Stopped
<1> QED
  BY <1>1, <1>2 DEF SafeStop

LEMMA DestroyOwns ==
  ASSUME OwnInv, NEW o \in Objects, Destroy(o)
  PROVE  OwnInv'
<1> DEFINE after == [obj EXCEPT ![o] = Nothing]
<1>1. Live(o) /\ SafeStop(o, after)
  BY DEF Destroy
<1>2. /\ DOMAIN after = Objects
      /\ after[o] = Nothing
      /\ \A p \in Objects \ {o} : after[p] = obj[p]
      /\ \A p \in Objects : DOMAIN after[p] = ObjectFields
  BY NothingFields DEF OwnInv, Types
<1> HIDE DEF after
<1> QED
  BY <1>1, <1>2, NothingFields, SafeStopOwns

LEMMA MovedFromFields ==
  /\ DOMAIN MovedFrom = ObjectFields
  /\ MovedFrom.m_pid = None /\ MovedFrom.st = "live"
BY DEF MovedFrom, Nothing, ObjectFields

LEMMA MoveAssignOwns ==
  ASSUME OwnInv, NEW o \in Objects, NEW p \in Objects, MoveAssign(o, p)
  PROVE  OwnInv'
<1> DEFINE after == [obj EXCEPT ![o] = obj[p], ![p] = MovedFrom]
<1>1. o # p /\ Live(o) /\ SafeStop(o, after)
  BY DEF MoveAssign
<1>2. /\ DOMAIN after = Objects
      /\ after[o] = obj[p]
      /\ after[p] = MovedFrom
      /\ \A q \in Objects \ {o, p} : after[q] = obj[q]
  BY <1>1 DEF OwnInv, Types
<1>3. \A q \in Objects : DOMAIN after[q] = ObjectFields
  BY <1>2, MovedFromFields DEF OwnInv, Types
<1> HIDE DEF after
<1> QED
  BY <1>1, <1>2, <1>3, MovedFromFields, SafeStopOwns

(* A new object takes the pid of another, and how it came to be stopped.      *)
LEMMA MoveConstructOwns ==
  ASSUME OwnInv, NEW o \in Objects, NEW p \in Objects, MoveConstruct(o, p)
  PROVE  OwnInv'
<1>1. /\ o # p /\ Live(p) /\ obj[o].st = "none"
      /\ obj' = [obj EXCEPT ![o] = obj[p], ![p] = MovedFrom]
      /\ UNCHANGED <<up, child, wild>>
  BY DEF MoveConstruct, Live
<1>2. Types /\ ChildrenOwned
  BY DEF OwnInv
<1>3. /\ DOMAIN obj' = Objects
      /\ obj'[o] = obj[p]
      /\ obj'[p] = MovedFrom
      /\ \A q \in Objects \ {o, p} : obj'[q] = obj[q]
  BY <1>1, <1>2 DEF Types
<1>4. obj[o].m_pid = None
  BY <1>1, <1>2 DEF Types, Live
<1>5. Types'
  BY <1>1, <1>2, <1>3, MovedFromFields DEF Types, Live
<1>6. ChildrenOwned'
  <2>1. CASE wild
    BY <1>1, <2>1 DEF ChildrenOwned
  <2>2. CASE ~wild
    <3>1. \A q, r \in Objects : q # r /\ obj'[q].m_pid # None => obj'[q].m_pid # obj'[r].m_pid
      BY <1>2, <1>3, <2>2, MovedFromFields DEF ChildrenOwned
    <3>2. ASSUME NEW k \in Forked', up', child'[k].st # "reaped"
          PROVE  \E q \in Objects : Live(q)' /\ obj'[q].m_pid = k
      <4>1. PICK q \in Objects : Live(q) /\ obj[q].m_pid = k
        BY <1>1, <1>2, <2>2, <3>2 DEF ChildrenOwned, Forked
      <4>2. q # o
        BY <1>1, <4>1 DEF Live
      <4> QED
        BY <1>1, <1>3, <4>1, <4>2 DEF Live
    <3>3. \A q \in Objects :
            obj'[q].m_pid # None /\ child'[obj'[q].m_pid].cause = "signal" => obj'[q].stopped
      BY <1>1, <1>2, <1>3, <2>2, MovedFromFields DEF ChildrenOwned
    <3> QED
      BY <3>1, <3>2, <3>3 DEF ChildrenOwned
  <2> QED
    BY <2>1, <2>2
<1> QED
  BY <1>5, <1>6 DEF OwnInv

LEMMA ForkFailsOwns ==
  ASSUME OwnInv, NEW o \in Objects, ForkFails(o)
  PROVE  OwnInv'
<1>1. CASE Die
  BY <1>1, Died DEF ForkFails
<1>2. CASE UNCHANGED <<up, obj>>
  <2>1. wild' /\ UNCHANGED child
    BY DEF ForkFails
  <2> QED
    BY <1>2, <2>1 DEF OwnInv, Types, ChildrenOwned, Live
<1> QED
  BY <1>1, <1>2 DEF ForkFails

LEMMA TerminateOwns ==
  ASSUME OwnInv, NEW o \in Objects, Terminate(o)
  PROVE  OwnInv'
<1> USE NoneIsNoKid
<1> DEFINE pid == obj[o].m_pid
<1>1. /\ child' \in Terminated(pid)
      /\ obj' = [obj EXCEPT ![o].stopped = TRUE]
      /\ wild' = (wild \/ pid = None)
      /\ up' = up
  BY DEF Terminate
<1>2. Types /\ ChildrenOwned
  BY DEF OwnInv
<1>3. /\ pid \in Kids \cup {None}
      /\ pid # None => child[pid].st # "none"
  BY <1>2 DEF Types
<1>4. /\ DOMAIN obj' = Objects
      /\ \A p \in Objects \ {o} : obj'[p] = obj[p]
      /\ DOMAIN obj'[o] = ObjectFields
      /\ obj'[o].m_pid = pid /\ obj'[o].st = obj[o].st /\ obj'[o].stopped
  BY <1>1, <1>2 DEF Types, ObjectFields
<1>5. \A p \in Objects :
        /\ DOMAIN obj'[p] = ObjectFields
        /\ obj'[p].m_pid = obj[p].m_pid
        /\ obj'[p].st = obj[p].st
        /\ obj[p].stopped => obj'[p].stopped
  BY <1>2, <1>4 DEF Types
<1> HIDE DEF pid
<1>6. /\ DOMAIN child' = Kids
      /\ \A k \in Kids :
           /\ DOMAIN child'[k] = ChildFields
           /\ child'[k].st \in {"none", "forked", "running", "zombie", "reaped"}
           /\ child'[k].st = "none" => child'[k] = Unborn
           /\ child'[k].st = "none" <=> child[k].st = "none"
      /\ pid # None =>
           /\ child'[pid].st = "reaped"
           /\ \A k \in Kids \ {pid} : child'[k] = child[k]
  BY <1>1, <1>2, <1>3, TerminatedChildren
<1>7. ASSUME NEW k \in Kids
      PROVE  \/ wild'
             \/ /\ child[k].st = "reaped" => child'[k].st = "reaped"
                /\ child'[k].cause = "signal" =>
                     \/ child[k].cause = "signal"
                     \/ \A p \in Objects : obj[p].m_pid = k => obj'[p].stopped
  <2>1. CASE pid = None
    BY <1>1, <2>1
  <2>2. CASE wild
    BY <1>1, <2>2
  <2>3. CASE pid # None /\ ~wild /\ k # pid
    BY <1>6, <2>3
  <2>4. CASE pid # None /\ ~wild /\ k = pid
    <3>1. \A p \in Objects : obj[p].m_pid = k => p = o
      BY <1>2, <2>4 DEF ChildrenOwned, pid
    <3> QED
      BY <1>4, <1>6, <2>4, <3>1
  <2> QED
    BY <2>1, <2>2, <2>3, <2>4
<1>8. wild => wild'
  BY <1>1
<1> QED
  BY <1>1, <1>4, <1>5, <1>6, <1>7, <1>8, Quiet

LEMMA CloseOwns ==
  ASSUME OwnInv, NEW o \in Objects, CloseStdin(o) \/ Close(o)
  PROVE  OwnInv'
<1>1. CASE Die /\ UNCHANGED child
  BY <1>1, Died
<1>2. CASE /\ obj' = [obj EXCEPT ![o] = Closed(obj[o])]
           /\ UNCHANGED <<up, child, wild>>
  <2>1. /\ DOMAIN Closed(obj[o]) = ObjectFields
        /\ Closed(obj[o]).m_pid = obj[o].m_pid
        /\ Closed(obj[o]).st = obj[o].st
        /\ Closed(obj[o]).stopped = obj[o].stopped
    BY DEF Closed, OwnInv, Types, ObjectFields
  <2> QED
    BY <1>2, <2>1, Kept
<1>3. CASE /\ obj' = [obj EXCEPT ![o].m_p2c_fd = None]
           /\ UNCHANGED <<up, child, wild>>
  <2> DEFINE x == [obj[o] EXCEPT !.m_p2c_fd = None]
  <2>1. /\ DOMAIN x = ObjectFields
        /\ x.m_pid = obj[o].m_pid
        /\ x.st = obj[o].st
        /\ x.stopped = obj[o].stopped
    BY DEF OwnInv, Types, ObjectFields
  <2>2. obj' = [obj EXCEPT ![o] = x]
    BY <1>3
  <2> HIDE DEF x
  <2> QED
    BY <1>3, <2>1, <2>2, Kept
<1> QED
  BY <1>1, <1>2, <1>3 DEF CloseStdin, Close

(* readExact clears the flag of the object it was called on, if that is one. *)
LEMMA ReadOwns ==
  ASSUME OwnInv, Read
  PROVE  OwnInv'
<1>0. UNCHANGED <<up, child, wild>>
  BY DEF Read
<1>1. CASE UNCHANGED obj
  BY <1>0, <1>1, Still
<1>2. CASE obj' = [obj EXCEPT ![op.o].m_is_readable = FALSE]
  <2>1. CASE op.o \in Objects
    <3> DEFINE x == [obj[op.o] EXCEPT !.m_is_readable = FALSE]
    <3>1. /\ DOMAIN x = ObjectFields
          /\ x.m_pid = obj[op.o].m_pid
          /\ x.st = obj[op.o].st
          /\ x.stopped = obj[op.o].stopped
      BY <2>1 DEF OwnInv, Types, ObjectFields
    <3>2. obj' = [obj EXCEPT ![op.o] = x]
      BY <1>2
    <3> HIDE DEF x
    <3> QED
      BY <1>0, <2>1, <3>1, <3>2, Kept
  <2>2. CASE op.o \notin Objects
    <3>1. DOMAIN obj' = Objects /\ \A p \in Objects : obj'[p] = obj[p]
      BY <1>2, <2>2 DEF OwnInv, Types
    <3> QED
      BY <1>0, <3>1, Quiet DEF OwnInv, Types
  <2> QED
    BY <2>1, <2>2
<1> QED
  BY <1>1, <1>2 DEF Read

(* A child that executes the program, or ends in the attempt. *)
LEMMA ExecOwns ==
  ASSUME OwnInv, NEW k \in Kids, Exec(k) \/ ExecFails(k)
  PROVE  OwnInv'
<1>0. Types /\ child[k].st = "forked"
  BY DEF OwnInv, Exec, ExecFails
<1>1. CASE Exec(k)
  <2>1. /\ DOMAIN child' = Kids
        /\ \A j \in Kids \ {k} : child'[j] = child[j]
        /\ DOMAIN child'[k] = ChildFields
        /\ child'[k].st = "running"
        /\ child'[k].cause = child[k].cause
    BY <1>0, <1>1 DEF Exec, Types, ChildFields
  <2> QED
    BY <1>0, <1>1, <2>1, ChildAlone DEF Exec
<1>2. CASE ExecFails(k)
  <2>1. PICK pids \in SUBSET child[k].mine :
          /\ child' = [j \in Kids |->
                         IF j = k THEN Ended("exec")
                         ELSE IF Alive(j) /\ pids \cap {j, None} # {}
                         THEN Ended("signal")
                         ELSE child[j]]
          /\ wild' = (wild \/ pids # {})
          /\ IF up /\ None \in pids THEN Die ELSE UNCHANGED <<up, op, obj, ends>>
    BY <1>2 DEF ExecFails
  <2>2. /\ DOMAIN child' = Kids
        /\ \A j \in Kids :
             /\ DOMAIN child'[j] = ChildFields
             /\ child'[j].st \in {"none", "forked", "running", "zombie", "reaped"}
             /\ child'[j].st = "none" => child'[j] = Unborn
             /\ child'[j].st = "none" <=> child[j].st = "none"
    BY <1>0, <2>1, UnbornFields DEF Types, Alive
  <2>3. CASE Die
    <3>1. /\ ~up' /\ DOMAIN obj' = Objects
          /\ \A o \in Objects : obj'[o] = Nothing
      BY <2>3 DEF Die
    <3> QED
      BY <2>2, <3>1, Dies
  <2>4. CASE UNCHANGED <<up, obj>> /\ pids # {}
    <3>1. wild'
      BY <2>1, <2>4
    <3>2. Types'
      BY <1>0, <2>2, <2>4 DEF Types, Live
    <3> QED
      BY <3>1, <3>2 DEF OwnInv, ChildrenOwned
  <2>5. CASE UNCHANGED <<up, obj>> /\ pids = {}
    <3>1. /\ \A j \in Kids \ {k} : child'[j] = child[j]
          /\ child'[k] = Ended("exec")
      BY <2>1, <2>5
    <3>2. wild => wild'
      BY <2>1
    <3> QED
      BY <1>0, <2>2, <2>5, <3>1, <3>2, UnbornFields, ChildAlone
  <2> QED
    BY <2>1, <2>3, <2>4, <2>5
<1> QED
  BY <1>1, <1>2

LEMMA EchoOwns ==
  ASSUME OwnInv, NEW k \in Kids, EchoReceive(k) \/ EchoSend(k) \/ EchoEnds(k)
  PROVE  OwnInv'
<1>0. /\ Types /\ child[k].st = "running"
      /\ UNCHANGED <<up, obj, wild>>
  BY DEF OwnInv, EchoReceive, EchoSend, EchoEnds
<1> DEFINE SameChild ==
      /\ DOMAIN child' = Kids
      /\ \A j \in Kids \ {k} : child'[j] = child[j]
      /\ DOMAIN child'[k] = ChildFields
      /\ child'[k].st = "running"
      /\ child'[k].cause = child[k].cause
<1>1. CASE SameChild
  BY <1>0, <1>1, ChildAlone
<1>2. ASSUME NEW c \in {"pipe", "eof"}, child' = [child EXCEPT ![k] = Ended(c)]
      PROVE  OwnInv'
  BY <1>0, <1>2, UnbornFields, ChildAlone DEF Types
<1>3. CASE EchoReceive(k)
  <2> DEFINE size == IF child[k].size = None THEN Head(p2c[k]) ELSE child[k].size
             left == IF child[k].size = None THEN size ELSE child[k].left - 1
  <2>1. CASE child' = [child EXCEPT ![k].size = IF left = 0 THEN None ELSE size,
                                    ![k].left = left,
                                    ![k].reply = IF left = 0 THEN Frame(size) ELSE <<>>]
    <3> HIDE DEF size, left
    <3>1. SameChild
      BY <1>0, <2>1 DEF Types, ChildFields
    <3> QED
      BY <1>1, <3>1
  <2>2. CASE child' = [child EXCEPT ![k].eof = TRUE,
                                    ![k].reply = Frame(IF child[k].size = None THEN 0 ELSE child[k].size)]
    <3>1. SameChild
      BY <1>0, <2>2 DEF Types, ChildFields
    <3> QED
      BY <1>1, <3>1
  <2> QED
    BY <1>3, <2>1, <2>2 DEF EchoReceive
<1>4. CASE EchoSend(k)
  <2>1. CASE child' = [child EXCEPT ![k].reply = Tail(@)]
    <3>1. SameChild
      BY <1>0, <2>1 DEF Types, ChildFields
    <3> QED
      BY <1>1, <3>1
  <2>2. CASE child' = [child EXCEPT ![k] = Ended("pipe")]
    BY <1>2, <2>2
  <2> QED
    BY <1>4, <2>1, <2>2 DEF EchoSend
<1>5. CASE EchoEnds(k)
  BY <1>2, <1>5 DEF EchoEnds
<1> QED
  BY <1>3, <1>4, <1>5

LEMMA OwnStep == OwnInv /\ [Next]_vars => OwnInv'
<1> SUFFICES ASSUME OwnInv, [Next]_vars PROVE OwnInv'
  OBVIOUS
<1>1. CASE UNCHANGED vars
  BY <1>1, Still DEF vars
<1>2. CASE \E o \in Objects :
             Construct(o) \/ ForkFails(o) \/ Destroy(o) \/ Terminate(o)
  BY <1>2, ConstructOwns, ForkFailsOwns, DestroyOwns, TerminateOwns
<1>3. CASE \E o \in Objects : CloseStdin(o) \/ Close(o)
  BY <1>3, CloseOwns
<1>4. CASE \E o \in Objects : Send(o) \/ Receive(o)
  BY <1>4, Still DEF Send, Receive
<1>5. CASE \E o, p \in Objects : MoveConstruct(o, p) \/ MoveAssign(o, p)
  BY <1>5, MoveConstructOwns, MoveAssignOwns
<1>6. CASE Write
  <2>1. CASE Die
    BY <1>6, <2>1, Died DEF Write
  <2>2. CASE UNCHANGED <<up, obj>>
    BY <1>6, <2>2, Still DEF Write
  <2> QED
    BY <1>6, <2>1, <2>2 DEF Write
<1>7. CASE Read
  BY <1>7, ReadOwns
<1>8. CASE \E k \in Kids : ChildStep(k)
  BY <1>8, ExecOwns, EchoOwns DEF ChildStep
<1> QED
  BY <1>1, <1>2, <1>3, <1>4, <1>5, <1>6, <1>7, <1>8 DEF Next

(* The fields have their types, and ChildrenOwned holds, always. *)
THEOREM OwnInvariant == Spec => []OwnInv
BY OwnInit, OwnStep, PTL DEF Spec

(* Through any sequence of constructions, moves, calls and destructions, and   *)
(* whatever the children do: no two objects hold one pid, no child that is not *)
(* waited for is without its object, and nobody signals another's child.       *)
THEOREM Ownership == Spec => []ChildrenOwned
<1>1. OwnInv => ChildrenOwned
  BY DEF OwnInv
<1> QED
  BY <1>1, OwnInvariant, PTL

-----------------------------------------------------------------------------
(* The exchange of messages with a child.  What the parent sends is one        *)
(* endless row of frames, and what it is sent back is that row again; both,    *)
(* and what is under way, are described by places in the row: frame n starts   *)
(* at Start(n), and Unit(i) is what stands at place i.  After the last message *)
(* of a closed input the child adds an empty one (Echoed).                     *)
Room == Length + 1
Start(n) == n * Room
Unit(i) == IF \E f \in Nat : i = Start(f) THEN Length ELSE Byte
Echoed(n, i) == IF i = Start(n) THEN 0 ELSE Unit(i)
(* A piece of the row, going forth to the child or coming back, from place p.  *)
Forth(q, p) == \A i \in 1..Len(q) : q[i] = Unit(p + i - 1)
Back(q, n, p) == \A i \in 1..Len(q) : q[i] = Echoed(n, p + i - 1)
(* How much the child has of a frame; the next place the parent takes.         *)
Inside(c) == IF c.size = None THEN 0 ELSE Room - c.left
Pos(n, g, taken) == IF g = n + 1 THEN Start(n) + 1 ELSE Start(g) + taken

(* n messages sent, g answers taken, and of the next one taken units.          *)
Counted(n, g, taken) ==
  n \in Nat /\ g \in 0..n + 1 /\ taken \in 0..Length /\ (g = n + 1 => taken = 0)

Answers(out, n, a, open) ==
  /\ out \in Seq(Int)
  /\ Back(out, n, a)
  /\ a + Len(out) <= Start(n) + 1
  /\ open => a + Len(out) <= Start(n)

Echoes(c, n, b, r) ==
  /\ c.reply \in Seq(Int)
  /\ Back(c.reply, n, b)
  /\ r = b + Len(c.reply)
  /\ c.size = None \/ (c.size = Length /\ c.left \in 1..Length /\ c.reply = <<>>)

Messages(in, todo, n, s) ==
  /\ s + Len(in) + Len(todo) = Start(n)
  /\ Forth(in, s) /\ Forth(todo, s + Len(in))

(* One child's exchange: no unit is lost, doubled or out of its place between  *)
(* the parent's write (todo), the pipe to the child (in), the child c, and the *)
(* pipe back (out).  Of a child that has ended only what it wrote is left.     *)
InFlow(c, in, out, todo, taken, n, g, open) ==
  LET a == Pos(n, g, taken)
      b == a + Len(out)
      r == b + Len(c.reply)
  IN
  /\ Counted(n, g, taken)
  /\ Answers(out, n, a, open)
  /\ in \in Seq(Int) /\ todo \in Seq(Int)
  /\ todo # <<>> => open
  /\ c.st = "none" => n = 0 /\ ~open
  /\ c.st \in {"none", "forked"} => c.size = None /\ c.reply = <<>> /\ c.eof = FALSE
  /\ c.st \in {"none", "forked", "running"} =>
       /\ Echoes(c, n, b, r)
       /\ c.eof \in BOOLEAN
       /\ c.eof => r = Start(n) + 1 /\ in = <<>> /\ todo = <<>> /\ c.size = None /\ ~open
       /\ ~c.eof => (\E f \in Nat : r = Start(f)) /\ Messages(in, todo, n, r + Inside(c))

LEMMA RoomIsNat == Length \in Nat /\ Room \in Nat /\ Room = Length + 1
BY ProcessAssumption DEF Room

LEMMA Starts ==
  /\ Start(0) = 0
  /\ \A n \in Nat : Start(n) \in Nat /\ Start(n + 1) = Start(n) + Room
  /\ \A n, m \in Nat : n < m => Start(n) + Room <= Start(m)
<1> USE RoomIsNat
<1>1. Start(0) = 0
  BY DEF Start
<1>2. \A n \in Nat : Start(n) \in Nat /\ Start(n + 1) = Start(n) + Room
  BY DEF Start
<1>3. ASSUME NEW n \in Nat, NEW m \in Nat, n < m
      PROVE  Start(n) + Room <= Start(m)
  <2>1. PICK d \in Nat : m = (n + 1) + d
    <3>1. m - (n + 1) \in Nat /\ m = (n + 1) + (m - (n + 1))
      BY <1>3
    <3> QED
      BY <3>1
  <2>2. m * Room = (n + 1) * Room + d * Room
    BY <2>1
  <2>3. d * Room \in Nat /\ (n + 1) * Room = n * Room + Room
    OBVIOUS
  <2>4. n * Room \in Nat /\ m * Room \in Nat
    OBVIOUS
  <2> QED
    BY <2>2, <2>3, <2>4 DEF Start
<1> QED
  BY <1>1, <1>2, <1>3

(* Two places where frames start are a whole number of frames apart. *)
LEMMA Apart ==
  ASSUME NEW n \in Nat, NEW m \in Nat
  PROVE  /\ Start(n) = Start(m) => n = m
         /\ Start(n) < Start(m) => n < m /\ Start(n) + Room <= Start(m)
         /\ n <= m => Start(n) <= Start(m)
<1>1. Start(n) \in Nat /\ Start(m) \in Nat /\ Room \in Nat /\ Room >= 1
  BY Starts, RoomIsNat
<1>2. n < m => Start(n) + Room <= Start(m)
  BY Starts
<1>3. m < n => Start(m) + Room <= Start(n)
  BY Starts
<1>4. n = m => Start(n) = Start(m)
  OBVIOUS
<1>5. n < m \/ m < n \/ n = m
  OBVIOUS
<1> QED
  BY ONLY <1>1, <1>2, <1>3, <1>4, <1>5, n \in Nat, m \in Nat

LEMMA Units ==
  ASSUME NEW n \in Nat
  PROVE  /\ Unit(Start(n)) = Length
         /\ \A j \in 1..Length : Unit(Start(n) + j) = Byte /\ \A m \in Nat : Start(m) # Start(n) + j
<1>1. Unit(Start(n)) = Length
  BY DEF Unit
<1>2. ASSUME NEW j \in 1..Length, NEW m \in Nat
      PROVE  Start(m) # Start(n) + j
  <2>1. CASE m <= n
    BY <2>1, Apart, Starts, RoomIsNat
  <2>2. CASE n < m
    BY <2>2, Starts, RoomIsNat
  <2> QED
    BY <2>1, <2>2
<1> QED
  BY <1>1, <1>2 DEF Unit

LEMMA FrameUnits ==
  ASSUME NEW n \in Nat
  PROVE  /\ Frame(n) \in Seq(Int) /\ Len(Frame(n)) = n + 1
         /\ Frame(n)[1] = n
         /\ \A i \in 2..n + 1 : Frame(n)[i] = Byte
<1> DEFINE body == [i \in 1..n |-> Byte]
<1>1. body \in Seq(Int) /\ Len(body) = n
  BY DEF Byte
<1>2. Frame(n) = <<n>> \o body
  BY DEF Frame
<1>3. <<n>> \in Seq(Int) /\ Len(<<n>>) = 1 /\ <<n>>[1] = n
  OBVIOUS
<1>4. \A i \in 1..n : body[i] = Byte
  OBVIOUS
<1> HIDE DEF body
<1>5. Frame(n) \in Seq(Int) /\ Len(Frame(n)) = n + 1
  BY <1>1, <1>2, <1>3
<1>6. \A i \in 1..n + 1 : Frame(n)[i] = IF i <= 1 THEN <<n>>[i] ELSE body[i - 1]
  BY <1>1, <1>2, <1>3
<1>7. Frame(n)[1] = n
  BY <1>3, <1>6
<1>8. ASSUME NEW i \in 2..n + 1 PROVE Frame(n)[i] = Byte
  <2>1. i - 1 \in 1..n /\ i \in 1..n + 1 /\ ~(i <= 1)
    OBVIOUS
  <2> QED
    BY <2>1, <1>4, <1>6
<1> QED
  BY <1>5, <1>7, <1>8

LEMMA FrameForth ==
  ASSUME NEW n \in Nat
  PROVE  Forth(Frame(Length), Start(n))
<1> SUFFICES ASSUME NEW i \in 1..Len(Frame(Length))
             PROVE  Frame(Length)[i] = Unit(Start(n) + i - 1)
  BY DEF Forth
<1>1. i \in 1..Length + 1 /\ Start(n) \in Nat
  BY FrameUnits, Starts, RoomIsNat
<1>2. CASE i = 1
  <2>1. Start(n) + i - 1 = Start(n)
    BY <1>1, <1>2
  <2> QED
    BY <1>2, <2>1, FrameUnits, Units, RoomIsNat
<1>3. CASE i # 1
  <2>1. i - 1 \in 1..Length /\ i \in 2..Length + 1 /\ Start(n) + i - 1 = Start(n) + (i - 1)
    BY <1>1, <1>3, RoomIsNat
  <2>2. Unit(Start(n) + (i - 1)) = Byte
    BY <2>1, Units
  <2> QED
    BY <2>1, <2>2, FrameUnits, RoomIsNat
<1> QED
  BY <1>2, <1>3
Dead(c) == c.st \in {"zombie", "reaped"}

LEMMA Positions ==
  ASSUME NEW n, NEW g, NEW taken, Counted(n, g, taken)
  PROVE  /\ Pos(n, g, taken) \in Nat /\ Start(n) \in Nat
         /\ g # n + 1 => g \in Nat /\ g <= n /\ Pos(n, g, taken) = Start(g) + taken
<1>1. n \in Nat /\ g \in Nat /\ g <= n + 1 /\ taken \in Nat
  BY RoomIsNat DEF Counted
<1>2. Start(n) \in Nat /\ Start(g) \in Nat
  BY <1>1, Starts
<1>3. Pos(n, g, taken) = IF g = n + 1 THEN Start(n) + 1 ELSE Start(g) + taken
  BY DEF Pos
<1> QED
  BY <1>1, <1>2, <1>3

(* A child that ends is left with what it has written; an end that is closed   *)
(* while nothing is being written to it is only that.                          *)
LEMMA FlowWeakens ==
  ASSUME NEW c, NEW in, NEW out, NEW todo, NEW taken, NEW n, NEW g, NEW open, NEW d, NEW closed,
         InFlow(c, in, out, todo, taken, n, g, open),
         d = c \/ Dead(d), closed => open, todo = <<>> \/ (closed <=> open)
  PROVE  InFlow(d, in, out, todo, taken, n, g, closed)
<1> DEFINE a == Pos(n, g, taken)
<1>1. /\ Counted(n, g, taken) /\ Answers(out, n, a, open) /\ in \in Seq(Int) /\ todo \in Seq(Int)
      /\ todo # <<>> => open
  BY DEF InFlow
<1>2. Answers(out, n, a, closed)
  BY <1>1 DEF Answers
<1>3. todo # <<>> => closed
  BY <1>1
<1>4. CASE Dead(d)
  BY <1>1, <1>2, <1>3, <1>4 DEF InFlow, Dead
<1>5. CASE d = c
  BY <1>1, <1>2, <1>3, <1>5 DEF InFlow
<1> QED
  BY <1>4, <1>5

(* The parent starts a message.                                                *)
LEMMA FlowSends ==
  ASSUME NEW c, NEW in, NEW out, NEW n, NEW g, NEW taken,
         InFlow(c, in, out, <<>>, taken, n, g, TRUE)
  PROVE  InFlow(c, in, out, Frame(Length), taken, n + 1, g, TRUE)
<1> DEFINE a == Pos(n, g, taken)
           b == a + Len(out)
           r == b + Len(c.reply)
<1>1. /\ Counted(n, g, taken) /\ Answers(out, n, a, TRUE) /\ in \in Seq(Int)
      /\ c.st # "none"
  BY DEF InFlow
<1>2. /\ a \in Nat /\ Start(n) \in Nat /\ n \in Nat
      /\ g # n + 1 => g \in Nat /\ g <= n /\ a = Start(g) + taken
  BY <1>1, Positions DEF Counted
<1>3. Start(n + 1) = Start(n) + Room /\ Room \in Nat /\ Room >= 1
  BY <1>2, Starts, RoomIsNat
<1>4. out \in Seq(Int) /\ a + Len(out) <= Start(n)
  BY <1>1 DEF Answers
<1>5. g # n + 1
  BY <1>2, <1>4 DEF Pos
<1>6. Counted(n + 1, g, taken) /\ Pos(n + 1, g, taken) = a
  BY <1>1, <1>2, <1>5 DEF Counted, Pos
<1>7. ASSUME NEW i, i \in Int, i < Start(n) PROVE Echoed(n, i) = Echoed(n + 1, i)
  BY <1>2, <1>3, <1>7 DEF Echoed
<1>8. Answers(out, n + 1, a, TRUE)
  <2>1. ASSUME NEW i \in 1..Len(out) PROVE out[i] = Echoed(n + 1, a + i - 1)
    <3>1. out[i] = Echoed(n, a + i - 1)
      BY <1>1 DEF Answers, Back
    <3>2. a + i - 1 \in Int /\ a + i - 1 < Start(n)
      BY <1>2, <1>4
    <3> QED
      BY <3>1, <3>2, <1>7
  <2> QED
    BY <2>1, <1>2, <1>3, <1>4 DEF Answers, Back
<1>9. Frame(Length) \in Seq(Int) /\ Len(Frame(Length)) = Room
  BY FrameUnits, RoomIsNat
<1>10. ASSUME c.st \in {"none", "forked", "running"}
       PROVE  /\ Echoes(c, n + 1, b, r) /\ c.eof = FALSE
              /\ (\E f \in Nat : r = Start(f)) /\ Messages(in, Frame(Length), n + 1, r + Inside(c))
  <2>1. /\ Echoes(c, n, b, r) /\ ~c.eof /\ c.eof \in BOOLEAN
        /\ (\E f \in Nat : r = Start(f)) /\ Messages(in, <<>>, n, r + Inside(c))
    BY <1>10 DEF InFlow
  <2>2. /\ c.reply \in Seq(Int) /\ Len(c.reply) \in Nat /\ Len(in) \in Nat /\ Len(out) \in Nat
        /\ r \in Nat /\ Inside(c) \in 0..Length
    BY <1>1, <1>2, <1>4, <2>1, RoomIsNat DEF Echoes, Inside
  <2>3. r + Inside(c) + Len(in) = Start(n) /\ Forth(in, r + Inside(c))
    <3>1. r + Inside(c) + Len(in) + Len(<<>>) = Start(n) /\ Forth(in, r + Inside(c))
      BY <2>1 DEF Messages
    <3> QED
      BY <2>2, <3>1, RoomIsNat
  <2>4. Messages(in, Frame(Length), n + 1, r + Inside(c))
    BY <1>2, <1>3, <1>9, <2>2, <2>3, FrameForth, RoomIsNat DEF Messages
  <2>5. Echoes(c, n + 1, b, r)
    <3>1. ASSUME NEW i \in 1..Len(c.reply) PROVE c.reply[i] = Echoed(n + 1, b + i - 1)
      <4>1. c.reply[i] = Echoed(n, b + i - 1)
        BY <2>1 DEF Echoes, Back
      <4>2. b + i - 1 \in Int /\ b + i - 1 < Start(n)
        <5>1. Inside(c) >= 0 /\ Inside(c) \in Int /\ Len(in) >= 0 /\ i \in Nat /\ i <= Len(c.reply)
          BY <2>2, RoomIsNat
        <5>2. b \in Nat /\ r = b + Len(c.reply)
          BY <1>2, <2>2
        <5> HIDE DEF b, r
        <5> QED
          BY ONLY <1>2, <2>2, <2>3, <5>1, <5>2
      <4> QED
        BY <4>1, <4>2, <1>7
    <3> QED
      BY <2>1, <3>1 DEF Echoes, Back
  <2> QED
    BY <2>1, <2>4, <2>5
<1> QED
  BY <1>1, <1>2, <1>6, <1>8, <1>9, <1>10 DEF InFlow

(* A unit of it goes into the pipe.                                            *)
LEMMA FlowWrites ==
  ASSUME NEW c, NEW in, NEW out, NEW todo, NEW taken, NEW n, NEW g, NEW open,
         InFlow(c, in, out, todo, taken, n, g, open), todo # <<>>
  PROVE  InFlow(c, Append(in, Head(todo)), out, Tail(todo), taken, n, g, open)
<1> DEFINE a == Pos(n, g, taken)
           b == a + Len(out)
           r == b + Len(c.reply)
           s == r + Inside(c)
<1>1. /\ Counted(n, g, taken) /\ Answers(out, n, a, open) /\ in \in Seq(Int) /\ todo \in Seq(Int)
      /\ open
  BY DEF InFlow
<1>2. /\ Append(in, Head(todo)) \in Seq(Int) /\ Tail(todo) \in Seq(Int)
      /\ Len(Append(in, Head(todo))) = Len(in) + 1 /\ Len(Tail(todo)) = Len(todo) - 1
      /\ Len(in) \in Nat /\ Len(todo) \in Nat /\ Len(todo) > 0
      /\ \A i \in 1..Len(in) : Append(in, Head(todo))[i] = in[i]
      /\ Append(in, Head(todo))[Len(in) + 1] = todo[1]
      /\ \A i \in 1..Len(todo) - 1 : Tail(todo)[i] = todo[i + 1]
  BY <1>1
<1>3. ASSUME c.st \in {"none", "forked", "running"}
      PROVE  ~c.eof /\ Messages(Append(in, Head(todo)), Tail(todo), n, s)
  <2>1. ~c.eof /\ Messages(in, todo, n, s) /\ Echoes(c, n, b, r)
    BY <1>1, <1>3 DEF InFlow
  <2>2. s \in Nat
    <3>1. a \in Nat /\ Len(out) \in Nat /\ Len(c.reply) \in Nat
      BY <1>1, <2>1, Positions DEF Answers, Echoes
    <3>2. Inside(c) \in Nat
      BY <2>1, RoomIsNat DEF Echoes, Inside
    <3> QED
      BY <3>1, <3>2
  <2>3. /\ s + Len(in) + Len(todo) = Start(n) /\ Forth(in, s) /\ Forth(todo, s + Len(in))
    BY <2>1 DEF Messages
  <2> HIDE DEF s
  <2>4. Forth(Append(in, Head(todo)), s)
    <3>1. ASSUME NEW i \in 1..Len(in) + 1 PROVE Append(in, Head(todo))[i] = Unit(s + i - 1)
      <4>1. CASE i \in 1..Len(in)
        BY <1>2, <2>3, <4>1 DEF Forth
      <4>2. CASE i = Len(in) + 1
        <5>1. todo[1] = Unit(s + Len(in) + 1 - 1)
          BY <1>2, <2>3 DEF Forth
        <5>2. s + i - 1 = s + Len(in) + 1 - 1
          BY <1>2, <2>2, <4>2
        <5> QED
          BY <1>2, <4>2, <5>1, <5>2
      <4> QED
        BY <1>2, <4>1, <4>2
    <3> QED
      BY <1>2, <3>1 DEF Forth
  <2>5. Forth(Tail(todo), s + Len(Append(in, Head(todo))))
    <3>1. ASSUME NEW i \in 1..Len(todo) - 1
          PROVE  Tail(todo)[i] = Unit(s + (Len(in) + 1) + i - 1)
      <4>1. todo[i + 1] = Unit(s + Len(in) + (i + 1) - 1)
        BY <1>2, <2>3 DEF Forth
      <4>2. s + (Len(in) + 1) + i - 1 = s + Len(in) + (i + 1) - 1
        BY <1>2, <2>2
      <4> QED
        BY <1>2, <4>1, <4>2
    <3> QED
      BY <1>2, <3>1 DEF Forth
  <2>6. s + Len(Append(in, Head(todo))) + Len(Tail(todo)) = Start(n)
    BY <1>2, <2>2, <2>3
  <2> QED
    BY <2>1, <2>4, <2>5, <2>6 DEF Messages
<1> QED
  BY <1>1, <1>2, <1>3 DEF InFlow

(* fork() and exec().                                                          *)
LEMMA FlowStarts ==
  ASSUME NEW c, NEW in, NEW out, NEW todo, NEW taken, NEW n, NEW g, NEW open, NEW d, NEW opened,
         InFlow(c, in, out, todo, taken, n, g, open),
         c.st \in {"none", "forked"}, d.st \in {"forked", "running"},
         d.size = c.size, d.reply = c.reply, d.eof = c.eof,
         opened <=> open \/ c.st = "none"
  PROVE  InFlow(d, in, out, todo, taken, n, g, opened)
<1> DEFINE a == Pos(n, g, taken)
           b == a + Len(out)
           r == b + Len(c.reply)
<1>1. /\ Counted(n, g, taken) /\ Answers(out, n, a, open) /\ in \in Seq(Int) /\ todo \in Seq(Int)
      /\ todo # <<>> => open
      /\ c.size = None /\ c.reply = <<>> /\ c.eof = FALSE
      /\ Echoes(c, n, b, r)
      /\ (\E f \in Nat : r = Start(f)) /\ Messages(in, todo, n, r + Inside(c))
  BY DEF InFlow
<1>2. Inside(d) = 0 /\ Inside(c) = 0 /\ d.size = None /\ d.reply = <<>>
  BY <1>1 DEF Inside
<1>3. a \in Nat /\ Start(n) \in Nat /\ Len(out) \in Nat /\ Len(in) \in Nat /\ Len(todo) \in Nat /\ out \in Seq(Int)
  BY <1>1, Positions DEF Answers
<1>4. r = b /\ r \in Nat
  BY <1>1, <1>3
<1>5. a + Len(out) <= Start(n)
  <2>1. r + 0 + Len(in) + Len(todo) = Start(n)
    BY <1>1, <1>2 DEF Messages
  <2> QED
    BY <1>3, <1>4, <2>1
<1>6. Answers(out, n, a, opened)
  BY <1>1, <1>5 DEF Answers
<1>7. Echoes(d, n, b, r)
  BY <1>1, <1>2 DEF Echoes
<1>8. r = b + Len(d.reply) /\ d.eof = FALSE
  BY <1>1
<1>9. todo # <<>> => opened
  BY <1>1
<1> HIDE DEF a, b, r
<1>10. Messages(in, todo, n, r + Inside(d))
  BY <1>1, <1>2
<1> QED
  BY <1>1, <1>2, <1>6, <1>7, <1>8, <1>9, <1>10 DEF InFlow, a, b, r

(* What the parent finds at the head of an answer: a header or a byte.        *)
LEMMA FlowHead ==
  ASSUME NEW c, NEW in, NEW out, NEW todo, NEW taken, NEW n, NEW g, NEW open,
         InFlow(c, in, out, todo, taken, n, g, open), out # <<>>
  PROVE  /\ g <= n /\ n \in Nat /\ g \in Nat
         /\ taken # 0 => Head(out) = Byte /\ g < n
         /\ taken = 0 /\ g < n => Head(out) = Length
         /\ taken = 0 /\ g = n => Head(out) = 0 /\ Len(out) = 1 /\ ~open
<1> DEFINE a == Pos(n, g, taken)
<1>1. /\ Counted(n, g, taken) /\ Answers(out, n, a, open)
  BY DEF InFlow
<1>2. /\ a \in Nat /\ Start(n) \in Nat /\ n \in Nat
      /\ g # n + 1 => g \in Nat /\ g <= n /\ a = Start(g) + taken
  BY <1>1, Positions DEF Counted
<1>3. /\ out \in Seq(Int) /\ Len(out) \in Nat /\ Len(out) >= 1 /\ Head(out) = out[1]
      /\ a + Len(out) <= Start(n) + 1
      /\ open => a + Len(out) <= Start(n)
  BY <1>1 DEF Answers
<1>4. g # n + 1
  BY <1>2, <1>3 DEF Pos
<1>5. g \in Nat /\ g <= n /\ a = Start(g) + taken /\ Start(g) \in Nat
  BY <1>2, <1>4, Starts
<1>6. out[1] = Echoed(n, a)
  <2>1. out[1] = Echoed(n, a + 1 - 1)
    BY <1>1, <1>3 DEF Answers, Back
  <2>2. a + 1 - 1 = a
    BY <1>2
  <2> QED
    BY <2>1, <2>2
<1>7. ASSUME taken # 0 PROVE Head(out) = Byte /\ g < n
  <2>1. taken \in 1..Length
    BY <1>1, <1>7, RoomIsNat DEF Counted
  <2>2. Unit(a) = Byte /\ a # Start(n)
    BY <1>5, <1>2, <2>1, Units
  <2>3. g # n
    BY <1>2, <1>3, <1>5, <2>1, RoomIsNat
  <2> QED
    BY <1>2, <1>3, <1>5, <1>6, <2>2, <2>3 DEF Echoed
<1>8. ASSUME taken = 0, g < n PROVE Head(out) = Length
  <2>1. a = Start(g) /\ a # Start(n)
    BY <1>2, <1>5, <1>8, Apart
  <2> QED
    BY <1>3, <1>5, <1>6, <2>1, Units DEF Echoed
<1>9. ASSUME taken = 0, g = n PROVE Head(out) = 0 /\ Len(out) = 1 /\ ~open
  <2>1. a = Start(n)
    BY <1>2, <1>5, <1>9
  <2> HIDE DEF a
  <2>2. out[1] = 0
    BY <1>6, <2>1 DEF Echoed
  <2>3. a \in Nat /\ Len(out) \in Nat /\ Len(out) >= 1 /\ a + Len(out) <= a + 1
    BY <1>2, <1>3, <2>1
  <2>4. Len(out) = 1 /\ ~(a + Len(out) <= a)
    BY ONLY <2>3
  <2> QED
    BY <1>3, <2>1, <2>2, <2>4
<1> QED
  BY <1>2, <1>5, <1>7, <1>8, <1>9

(* The parent takes a unit.                                                   *)
LEMMA FlowReads ==
  ASSUME NEW c, NEW in, NEW out, NEW taken, NEW n, NEW g, NEW open,
         NEW now, NEW h,
         InFlow(c, in, out, <<>>, taken, n, g, open), out # <<>>,
         IF taken = Length \/ (taken = 0 /\ Head(out) = 0)
         THEN now = 0 /\ h = g + 1
         ELSE now = taken + 1 /\ h = g
  PROVE  InFlow(c, in, Tail(out), <<>>, now, n, h, open)
<1> DEFINE a == Pos(n, g, taken)
<1>1. /\ Counted(n, g, taken) /\ Answers(out, n, a, open)
  BY DEF InFlow
<1>2. /\ a \in Nat /\ Start(n) \in Nat /\ n \in Nat /\ taken \in 0..Length
      /\ g # n + 1 => g \in Nat /\ g <= n /\ a = Start(g) + taken
  BY <1>1, Positions DEF Counted
<1>3. /\ out \in Seq(Int) /\ Len(out) \in Nat /\ Len(out) >= 1
      /\ Tail(out) \in Seq(Int) /\ Len(Tail(out)) = Len(out) - 1
      /\ \A i \in 1..Len(out) - 1 : Tail(out)[i] = out[i + 1]
      /\ a + Len(out) <= Start(n) + 1
      /\ open => a + Len(out) <= Start(n)
  BY <1>1 DEF Answers
<1>4. /\ g <= n /\ n \in Nat /\ g \in Nat
      /\ taken # 0 => Head(out) = Byte /\ g < n
      /\ taken = 0 /\ g < n => Head(out) = Length
      /\ taken = 0 /\ g = n => Head(out) = 0 /\ Len(out) = 1 /\ ~open
  BY FlowHead
<1>5. a = Start(g) + taken /\ Start(g) \in Nat /\ Start(g + 1) = Start(g) + Room
  BY <1>2, <1>4, Starts
<1>6. Counted(n, h, now) /\ Pos(n, h, now) = a + 1
  <2>1. CASE taken = 0 /\ g = n
    <3>1. now = 0 /\ h = n + 1
      BY <1>4, <2>1
    <3> QED
      BY <1>2, <1>5, <2>1, <3>1, RoomIsNat DEF Counted, Pos
  <2>2. CASE g < n /\ (taken = Length \/ (taken = 0 /\ Head(out) = 0))
    <3>1. now = 0 /\ h = g + 1 /\ taken = Length
      BY <1>4, <2>2
    <3>2. h # n + 1 /\ h \in 0..n + 1
      BY <1>4, <2>2, <3>1
    <3>3. Pos(n, h, now) = Start(g) + Room + 0
      BY <1>5, <3>1, <3>2 DEF Pos
    <3> QED
      BY <1>2, <1>5, <3>1, <3>2, <3>3, RoomIsNat DEF Counted
  <2>3. CASE g < n /\ ~(taken = Length \/ (taken = 0 /\ Head(out) = 0))
    <3>1. now = taken + 1 /\ h = g
      BY <2>3
    <3>2. now \in 0..Length /\ h # n + 1 /\ h \in 0..n + 1
      BY <1>2, <1>4, <2>3, <3>1, RoomIsNat
    <3> QED
      BY <1>2, <1>5, <3>1, <3>2, RoomIsNat DEF Counted, Pos
  <2> QED
    BY <1>4, <2>1, <2>2, <2>3
<1>7. Answers(Tail(out), n, a + 1, open)
  <2>1. ASSUME NEW i \in 1..Len(Tail(out)) PROVE Tail(out)[i] = Echoed(n, a + 1 + i - 1)
    <3>1. out[i + 1] = Echoed(n, a + (i + 1) - 1)
      BY <1>1, <1>3 DEF Answers, Back
    <3>2. a + (i + 1) - 1 = a + 1 + i - 1
      BY <1>2, <1>3
    <3> QED
      BY <1>3, <3>1, <3>2
  <2>2. /\ a + 1 + Len(Tail(out)) <= Start(n) + 1
        /\ open => a + 1 + Len(Tail(out)) <= Start(n)
    BY <1>2, <1>3
  <2> QED
    BY <1>3, <2>1, <2>2 DEF Answers, Back
<1>8. a + Len(out) = (a + 1) + Len(Tail(out))
  BY <1>2, <1>3
<1> QED
  BY <1>6, <1>7, <1>8 DEF InFlow

(* What the child finds at the head of its input.                             *)
LEMMA FlowInput ==
  ASSUME NEW c, NEW in, NEW out, NEW todo, NEW taken, NEW n, NEW g, NEW open,
         InFlow(c, in, out, todo, taken, n, g, open),
         c.st = "running", c.reply = <<>>, ~c.eof
  PROVE  LET b == Pos(n, g, taken) + Len(out)
         IN  /\ b \in Nat /\ Len(out) \in Nat /\ in \in Seq(Int)
             /\ Counted(n, g, taken) /\ Answers(out, n, Pos(n, g, taken), open)
             /\ b + Inside(c) + Len(in) + Len(todo) = Start(n)
             /\ Forth(in, b + Inside(c)) /\ Forth(todo, b + Inside(c) + Len(in))
             /\ Inside(c) \in 0..Length /\ (c.size # None <=> Inside(c) # 0)
             /\ c.size # None => c.size = Length /\ c.left = Room - Inside(c)
             /\ \E f \in Nat : b = Start(f)
             /\ in # <<>> => Head(in) = IF c.size = None THEN Length ELSE Byte
<1> DEFINE b == Pos(n, g, taken) + Len(out)
<1>1. /\ Counted(n, g, taken) /\ Answers(out, n, Pos(n, g, taken), open)
      /\ in \in Seq(Int) /\ todo \in Seq(Int)
      /\ Echoes(c, n, b, b + Len(c.reply))
      /\ (\E f \in Nat : b + Len(c.reply) = Start(f)) /\ Messages(in, todo, n, b + Len(c.reply) + Inside(c))
  BY DEF InFlow
<1>2. b \in Nat /\ Len(out) \in Nat /\ b + Len(c.reply) = b
  BY <1>1, Positions DEF Answers
<1> HIDE DEF b
<1>3. c.size = None \/ (c.size = Length /\ c.left \in 1..Length)
  BY <1>1 DEF Echoes
<1>4. Inside(c) \in 0..Length /\ (c.size # None <=> Inside(c) # 0)
  BY <1>3, RoomIsNat DEF Inside, None
<1>5. c.size # None => c.size = Length /\ c.left = Room - Inside(c)
  BY <1>3, RoomIsNat DEF Inside
<1>6. /\ b + Inside(c) + Len(in) + Len(todo) = Start(n)
      /\ Forth(in, b + Inside(c)) /\ Forth(todo, b + Inside(c) + Len(in))
  BY <1>1, <1>2 DEF Messages
<1>7. PICK f \in Nat : b = Start(f)
  BY <1>1, <1>2
<1>8. ASSUME in # <<>> PROVE Head(in) = IF c.size = None THEN Length ELSE Byte
  <2>1. Head(in) = in[1] /\ 1 \in 1..Len(in)
    BY <1>1, <1>8
  <2>2. in[1] = Unit(b + Inside(c) + 1 - 1)
    BY <1>6, <2>1 DEF Forth
  <2>3. b + Inside(c) + 1 - 1 = Start(f) + Inside(c)
    BY <1>2, <1>4, <1>7, RoomIsNat
  <2>4. Inside(c) = 0 => Start(f) + Inside(c) = Start(f)
    BY <1>2, <1>7
  <2> QED
    BY <1>4, <2>1, <2>2, <2>3, <2>4, Units, RoomIsNat
<1> QED
  BY <1>1, <1>2, <1>4, <1>5, <1>6, <1>7, <1>8 DEF b

LEMMA BackFrame ==
  ASSUME NEW n \in Nat, NEW f \in Nat, f < n
  PROVE  Back(Frame(Length), n, Start(f))
<1> SUFFICES ASSUME NEW i \in 1..Len(Frame(Length))
             PROVE  Frame(Length)[i] = Echoed(n, Start(f) + i - 1)
  BY DEF Back
<1>1. Frame(Length)[i] = Unit(Start(f) + i - 1)
  BY FrameForth DEF Forth
<1>2. i \in Nat /\ i <= Room
  BY FrameUnits, RoomIsNat
<1>3. Start(f) \in Nat /\ Start(f) + Room <= Start(n) /\ Start(n) \in Nat
  BY Starts
<1>4. Start(f) + i - 1 # Start(n)
  BY <1>2, <1>3, RoomIsNat
<1> QED
  BY <1>1, <1>4 DEF Echoed

(* The child takes a unit u.                                                  *)
Took(c, d, u) ==
  LET size == IF c.size = None THEN u ELSE c.size
      left == IF c.size = None THEN size ELSE c.left - 1
  IN  /\ d.size = IF left = 0 THEN None ELSE size
      /\ d.left = left
      /\ d.reply = IF left = 0 THEN Frame(size) ELSE <<>>

(* It takes one, and with the last of a frame has an answer.                   *)
LEMMA FlowTakes ==
  ASSUME NEW c, NEW in, NEW out, NEW todo, NEW taken, NEW n, NEW g, NEW open, NEW d,
         InFlow(c, in, out, todo, taken, n, g, open),
         c.st = "running", c.reply = <<>>, c.eof = FALSE, in # <<>>,
         d.st = "running", d.eof = FALSE,
         Took(c, d, Head(in))
  PROVE  InFlow(d, Tail(in), out, todo, taken, n, g, open)
<1> DEFINE b == Pos(n, g, taken) + Len(out)
<1>1. /\ Counted(n, g, taken) /\ Answers(out, n, Pos(n, g, taken), open)
      /\ b \in Nat /\ Len(out) \in Nat
      /\ b + Inside(c) + Len(in) + Len(todo) = Start(n)
      /\ Forth(in, b + Inside(c)) /\ Forth(todo, b + Inside(c) + Len(in))
      /\ Inside(c) \in 0..Length /\ (c.size # None <=> Inside(c) # 0)
      /\ c.size # None => c.size = Length /\ c.left = Room - Inside(c)
      /\ \E f \in Nat : b = Start(f)
      /\ Head(in) = IF c.size = None THEN Length ELSE Byte
  BY FlowInput
<1>2. /\ in \in Seq(Int) /\ todo \in Seq(Int)
      /\ todo # <<>> => open
  BY DEF InFlow
<1>3. /\ Tail(in) \in Seq(Int) /\ Len(Tail(in)) = Len(in) - 1 /\ Len(in) \in Nat /\ Len(in) >= 1
      /\ \A i \in 1..Len(in) - 1 : Tail(in)[i] = in[i + 1]
      /\ Len(todo) \in Nat
  <2>1. in \in Seq(Int) /\ todo \in Seq(Int)
    BY <1>2
  <2>2. in # <<>>
    OBVIOUS
  <2>3. Len(in) \in Nat /\ Len(in) >= 1 /\ Len(todo) \in Nat
    BY ONLY <2>1, <2>2
  <2>4. /\ Tail(in) \in Seq(Int) /\ Len(Tail(in)) = Len(in) - 1
        /\ \A i \in 1..Len(in) - 1 : Tail(in)[i] = in[i + 1]
    BY ONLY <2>1, <2>2, <2>3
  <2> QED
    BY ONLY <2>3, <2>4
<1>4. /\ n \in Nat /\ Start(n) \in Nat
  BY <1>1, Positions DEF Counted
<1>5. PICK f \in Nat : b = Start(f)
  BY <1>1
<1> HIDE DEF b
<1>6. Len(d.reply) + Inside(d) = Inside(c) + 1 /\ d.reply \in Seq(Int)
      /\ (d.size = None \/ (d.size = Length /\ d.left \in 1..Length /\ d.reply = <<>>))
      /\ (d.reply = <<>> \/ (d.reply = Frame(Length) /\ Len(d.reply) = Room))
      /\ (d.reply # <<>> => Inside(d) = 0) /\ Inside(d) \in Nat /\ Len(d.reply) \in Nat
  <2>1. PICK size : size = IF c.size = None THEN Head(in) ELSE c.size
    OBVIOUS
  <2>2. PICK left : left = IF c.size = None THEN size ELSE c.left - 1
    OBVIOUS
  <2>3. /\ d.size = IF left = 0 THEN None ELSE size
        /\ d.left = left
        /\ d.reply = IF left = 0 THEN Frame(size) ELSE <<>>
    BY <2>1, <2>2 DEF Took
  <2>a. Inside(c) \in 0..Length /\ (c.size # None <=> Inside(c) # 0)
    BY <1>1
  <2>b. c.size # None => c.size = Length /\ c.left = Room - Inside(c)
    BY <1>1
  <2>c. c.size = None => Head(in) = Length
    BY <1>1
  <2>4. size = Length
    BY ONLY <2>1, <2>b, <2>c
  <2>5. left = Length - Inside(c) /\ left \in 0..Length
    BY ONLY <2>2, <2>4, <2>a, <2>b, RoomIsNat
  <2>6. Frame(Length) \in Seq(Int) /\ Len(Frame(Length)) = Room /\ Room # 0
    <3>1. Frame(Length) \in Seq(Int) /\ Len(Frame(Length)) = Room
      BY ONLY FrameUnits, RoomIsNat
    <3>2. Room # 0
      BY ONLY RoomIsNat
    <3> QED
      BY ONLY <3>1, <3>2
  <2>7. CASE left = 0
    <3>1. d.size = None /\ d.reply = Frame(Length) /\ Inside(d) = 0
      BY <2>3, <2>4, <2>7 DEF Inside
    <3> QED
      BY ONLY <2>a, <2>5, <2>6, <2>7, <3>1, RoomIsNat
  <2>8. CASE left # 0
    <3>1. d.size = Length /\ d.reply = <<>> /\ d.left = left /\ Inside(d) = Room - left
      BY <2>3, <2>4, <2>8, RoomIsNat DEF Inside, None
    <3> QED
      BY ONLY <2>a, <2>5, <2>8, <3>1, RoomIsNat
  <2> QED
    BY <2>7, <2>8
<1>7. Messages(Tail(in), todo, n, b + Len(d.reply) + Inside(d))
  <2>a. b \in Nat /\ Inside(c) \in Nat
    BY <1>1, RoomIsNat
  <2>b. Len(d.reply) + Inside(d) = Inside(c) + 1 /\ Inside(d) \in Nat /\ Len(d.reply) \in Nat
    BY <1>6
  <2>1. b + Len(d.reply) + Inside(d) = b + Inside(c) + 1
    BY ONLY <2>a, <2>b
  <2>2. ASSUME NEW i \in 1..Len(in) - 1
        PROVE  Tail(in)[i] = Unit((b + Inside(c) + 1) + i - 1)
    <3>a. i + 1 \in 1..Len(in)
      BY <1>3
    <3>b. Forth(in, b + Inside(c))
      BY <1>1
    <3>1. in[i + 1] = Unit(b + Inside(c) + (i + 1) - 1)
      BY ONLY <3>a, <3>b DEF Forth
    <3>0. i \in Int
      OBVIOUS
    <3>2. (b + Inside(c) + 1) + i - 1 = b + Inside(c) + (i + 1) - 1
      BY ONLY <2>a, <3>0
    <3> QED
      BY <1>3, <3>1, <3>2
  <2>3. Forth(Tail(in), b + Inside(c) + 1)
    BY <1>3, <2>2 DEF Forth
  <2>4. (b + Inside(c) + 1) + Len(Tail(in)) = b + Inside(c) + Len(in)
    BY <1>1, <1>3, RoomIsNat
  <2>5. (b + Inside(c) + 1) + Len(Tail(in)) + Len(todo) = Start(n)
    BY <1>1, <2>4
  <2> QED
    BY <1>1, <2>1, <2>3, <2>4, <2>5 DEF Messages
<1>8. Back(d.reply, n, b)
  <2>1. CASE d.reply = <<>>
    BY <2>1 DEF Back
  <2>2. CASE d.reply # <<>>
    <3>1. d.reply = Frame(Length) /\ Inside(c) = Length
      BY <1>1, <1>6, <2>2, RoomIsNat
    <3>2. Start(f) < Start(n)
      BY <1>1, <1>3, <1>4, <1>5, <3>1, RoomIsNat
    <3> QED
      BY <1>4, <1>5, <3>1, <3>2, Apart, BackFrame
  <2> QED
    BY <2>1, <2>2
<1>9. \E e \in Nat : b + Len(d.reply) = Start(e)
  <2>1. CASE d.reply = <<>>
    BY <1>1, <1>5, <2>1
  <2>2. CASE d.reply # <<>>
    <3>1. Len(d.reply) = Room /\ f + 1 \in Nat
      BY <1>6, <2>2
    <3>2. Start(f + 1) = Start(f) + Room
      BY Starts
    <3> QED
      BY <1>5, <3>1, <3>2
  <2> QED
    BY <2>1, <2>2
<1>10. Echoes(d, n, b, b + Len(d.reply))
  BY <1>6, <1>8 DEF Echoes
<1> QED
  BY <1>1, <1>2, <1>3, <1>7, <1>9, <1>10 DEF InFlow, b

(* At the end of its input the child has no frame half read, so that what it   *)
(* sends once more is an empty message.                                        *)
LEMMA FlowEnds ==
  ASSUME NEW c, NEW out, NEW taken, NEW n, NEW g, NEW d, NEW todo,
         InFlow(c, <<>>, out, todo, taken, n, g, FALSE),
         c.st = "running", c.reply = <<>>, c.eof = FALSE,
         d.st = "running", d.eof = TRUE, d.size = c.size,
         d.reply = Frame(IF c.size = None THEN 0 ELSE c.size)
  PROVE  InFlow(d, <<>>, out, todo, taken, n, g, FALSE)
<1> DEFINE b == Pos(n, g, taken) + Len(out)
<1>1. /\ Counted(n, g, taken) /\ Answers(out, n, Pos(n, g, taken), FALSE)
      /\ b \in Nat /\ Len(out) \in Nat
      /\ b + Inside(c) + Len(<<>>) + Len(todo) = Start(n)
      /\ Inside(c) \in 0..Length /\ (c.size # None <=> Inside(c) # 0)
      /\ \E f \in Nat : b = Start(f)
  BY FlowInput
<1>2. todo = <<>> /\ todo \in Seq(Int)
  BY DEF InFlow
<1>3. PICK f \in Nat : b = Start(f)
  BY <1>1
<1> HIDE DEF b
<1>4. b + Inside(c) = Start(n) /\ n \in Nat
  <2>1. b \in Nat /\ Inside(c) \in Nat /\ b + Inside(c) + Len(<<>>) + Len(<<>>) = Start(n)
    BY <1>1, <1>2, RoomIsNat
  <2> QED
    BY <1>1, <2>1 DEF Counted
<1>5. Inside(c) = 0
  BY <1>1, <1>3, <1>4, Units
<1>6. c.size = None /\ b = Start(n)
  BY <1>1, <1>4, <1>5
<1>7. d.size = None /\ d.reply = Frame(0)
  BY <1>6
<1>8. Frame(0) \in Seq(Int) /\ Len(Frame(0)) = 1 /\ Frame(0)[1] = 0
  <2>1. ASSUME NEW z \in Nat, z = 0
        PROVE  Frame(z) \in Seq(Int) /\ Len(Frame(z)) = 1 /\ Frame(z)[1] = 0
    <3>1. Frame(z) \in Seq(Int) /\ Len(Frame(z)) = z + 1 /\ Frame(z)[1] = z
      BY ONLY FrameUnits, z \in Nat
    <3> QED
      BY <2>1, <3>1
  <2> QED
    BY <2>1
<1>9. Echoes(d, n, b, Start(n) + 1)
  <2>1. ASSUME NEW i \in 1..Len(Frame(0)) PROVE Frame(0)[i] = Echoed(n, b + i - 1)
    <3>1. i = 1
      BY <1>8
    <3>2. b + i - 1 = Start(n)
      BY <1>1, <1>6, <3>1
    <3> QED
      BY <1>8, <3>1, <3>2 DEF Echoed
  <2>2. Start(n) + 1 = b + Len(Frame(0))
    BY <1>6, <1>8
  <2> QED
    BY <1>7, <1>8, <2>1, <2>2 DEF Echoes, Back
<1>10. b + Len(d.reply) = Start(n) + 1
  BY <1>6, <1>7, <1>8
<1> QED
  BY <1>1, <1>2, <1>7, <1>9, <1>10 DEF InFlow, b

(* A unit of the answer goes into the pipe back.                               *)
LEMMA FlowReplies ==
  ASSUME NEW c, NEW in, NEW out, NEW todo, NEW taken, NEW n, NEW g, NEW open, NEW d,
         InFlow(c, in, out, todo, taken, n, g, open),
         c.st = "running", c.reply # <<>>,
         d.st = "running", d.eof = c.eof, d.size = c.size, d.left = c.left, d.reply = Tail(c.reply)
  PROVE  InFlow(d, in, Append(out, Head(c.reply)), todo, taken, n, g, open)
<1> DEFINE a == Pos(n, g, taken)
           b == a + Len(out)
           r == b + Len(c.reply)
           new == Append(out, Head(c.reply))
<1>1. /\ Counted(n, g, taken) /\ Answers(out, n, a, open) /\ in \in Seq(Int) /\ todo \in Seq(Int)
      /\ Echoes(c, n, b, r)
  BY DEF InFlow
<1>2. a \in Nat /\ Start(n) \in Nat /\ out \in Seq(Int) /\ c.reply \in Seq(Int) /\ c.size = None
  BY <1>1, Positions DEF Answers, Echoes
<1>3. Len(out) \in Nat /\ Len(c.reply) \in Nat /\ Len(c.reply) >= 1
  BY <1>2
<1>4. /\ new \in Seq(Int) /\ Len(new) = Len(out) + 1
      /\ \A i \in 1..Len(out) : new[i] = out[i]
      /\ new[Len(out) + 1] = c.reply[1]
  BY <1>2, <1>3
<1>5. /\ Tail(c.reply) \in Seq(Int) /\ Len(Tail(c.reply)) = Len(c.reply) - 1
      /\ \A i \in 1..Len(c.reply) - 1 : Tail(c.reply)[i] = c.reply[i + 1]
  BY <1>2, <1>3
<1>6. Back(out, n, a) /\ Back(c.reply, n, b)
  BY <1>1 DEF Answers, Echoes
<1>7. /\ Inside(c) = 0 /\ Inside(d) = 0 /\ d.size = None
  BY <1>2 DEF Inside
<1>8. (open => r <= Start(n)) /\ r <= Start(n) + 1
  <2>1. CASE c.eof
    BY <2>1, <1>2, <1>3 DEF InFlow
  <2>2. CASE ~c.eof
    <3>1. Messages(in, todo, n, r + Inside(c))
      BY <2>2 DEF InFlow
    <3>2. r + 0 + Len(in) + Len(todo) = Start(n)
      BY <1>7, <3>1 DEF Messages
    <3>3. r \in Nat /\ Len(in) \in Nat /\ Len(todo) \in Nat
      BY <1>1, <1>2, <1>3
    <3> HIDE DEF r
    <3>4. r <= Start(n)
      BY ONLY <3>2, <3>3
    <3> QED
      BY <1>2, <3>3, <3>4
  <2> QED
    BY <2>1, <2>2
<1>9. Back(new, n, a)
  <2>1. ASSUME NEW i \in 1..Len(new) PROVE new[i] = Echoed(n, a + i - 1)
    <3>1. CASE i \in 1..Len(out)
      BY <1>4, <1>6, <3>1 DEF Back
    <3>2. CASE i = Len(out) + 1
      <4>1. c.reply[1] = Echoed(n, b + 1 - 1)
        BY <1>3, <1>6 DEF Back
      <4>2. a + i - 1 = b + 1 - 1
        BY <1>2, <1>3, <3>2
      <4> QED
        BY <1>4, <3>2, <4>1, <4>2
    <3> QED
      BY <1>3, <1>4, <3>1, <3>2
  <2> QED
    BY <2>1 DEF Back
<1>10. Back(Tail(c.reply), n, a + Len(new))
  <2>1. ASSUME NEW i \in 1..Len(c.reply) - 1
        PROVE  Tail(c.reply)[i] = Echoed(n, (a + Len(new)) + i - 1)
    <3>a. i + 1 \in 1..Len(c.reply)
      BY <1>3
    <3>1. c.reply[i + 1] = Echoed(n, b + (i + 1) - 1)
      BY ONLY <3>a, <1>6 DEF Back
    <3>2. (a + Len(new)) + i - 1 = b + (i + 1) - 1
      BY <1>2, <1>3, <1>4
    <3> QED
      BY <1>5, <3>1, <3>2
  <2> QED
    BY <1>5, <2>1 DEF Back
<1>11. a + Len(new) + Len(Tail(c.reply)) = r /\ a + Len(new) <= r
  BY <1>2, <1>3, <1>4, <1>5
<1>12. a + Len(new) <= Start(n) + 1 /\ (open => a + Len(new) <= Start(n))
  <2>1. r \in Nat /\ a + Len(new) \in Nat
    BY <1>2, <1>3, <1>4
  <2> HIDE DEF a, r, new
  <2> QED
    BY <1>2, <1>8, <1>11, <2>1
<1> HIDE DEF new
<1>13. Answers(new, n, a, open)
  BY <1>4, <1>9, <1>12 DEF Answers
<1>14. Echoes(d, n, a + Len(new), r)
  BY <1>5, <1>7, <1>10, <1>11 DEF Echoes
<1>15. a + Len(new) + Len(d.reply) = r
  BY <1>11
<1>16. /\ todo # <<>> => open
       /\ c.eof \in BOOLEAN
       /\ c.eof => r = Start(n) + 1 /\ in = <<>> /\ todo = <<>> /\ c.size = None /\ ~open
       /\ ~c.eof => (\E f \in Nat : r = Start(f)) /\ Messages(in, todo, n, r + Inside(c))
  BY DEF InFlow
<1>17. r + Inside(c) = r + Inside(d)
  BY <1>7
<1> HIDE DEF a, r
<1>18. InFlow(d, in, new, todo, taken, n, g, open)
  BY <1>1, <1>7, <1>13, <1>14, <1>15, <1>16, <1>17 DEF InFlow, a
<1> QED
  BY <1>18 DEF new

-----------------------------------------------------------------------------
(* What the call the parent is in holds of a message, and has of an answer.   *)
Held(k) == IF op.call = "write" /\ op.k = k THEN op.todo ELSE <<>>
Taken(k) == IF op.call = "read" /\ op.k = k /\ op.need # None THEN Room - op.need ELSE 0
Opened(k) == <<"p2c", k>> \in ends
Args(k) == <<child[k], p2c[k], c2p[k], Held(k), Taken(k), sent[k], got[k], Opened(k)>>
Fits(k) == Len(p2c[k]) <= Capacity /\ Len(c2p[k]) <= Capacity
Flow(k) ==
  InFlow(child[k], p2c[k], c2p[k], Held(k), Taken(k), sent[k], got[k], Opened(k)) /\ Fits(k)

Writing(k, todo) == [call |-> "write", k |-> k, todo |-> todo]
Reading(k, o, need) == [call |-> "read", k |-> k, o |-> o, need |-> need]

CallTypes ==
  /\ \/ op = Idle
     \/ up /\ \E k \in Kids, todo \in Seq(Int) : op = Writing(k, todo)
     \/ up /\ \E k \in Kids, o \in Objects, need \in {None} \cup 1..Length : op = Reading(k, o, need)
  /\ \A e \in ends : \E k \in Kids : e = <<"p2c", k>> \/ e = <<"c2p", k>>
  /\ DOMAIN child = Kids
  /\ DOMAIN p2c = Kids /\ DOMAIN c2p = Kids /\ DOMAIN sent = Kids /\ DOMAIN got = Kids

ExchangeInv == CallTypes /\ (up => \A k \in Kids : Flow(k))

LEMMA SameFlow == ASSUME NEW k \in Kids, Flow(k), Args(k)' = Args(k) PROVE Flow(k)'
BY DEF Flow, Args, Fits

LEMMA CallShapes ==
  /\ Idle.call = "none"
  /\ \A k, todo : /\ Writing(k, todo).call = "write" /\ Writing(k, todo).k = k
                  /\ Writing(k, todo).todo = todo /\ Writing(k, todo) # Idle
  /\ \A k, o, need : /\ Reading(k, o, need).call = "read" /\ Reading(k, o, need).k = k
                     /\ Reading(k, o, need).o = o /\ Reading(k, o, need).need = need
                     /\ Reading(k, o, need) # Idle
<1>1. Idle.call = "none"
  BY DEF Idle
<1>2. ASSUME NEW k, NEW todo
      PROVE  /\ Writing(k, todo).call = "write" /\ Writing(k, todo).k = k
             /\ Writing(k, todo).todo = todo /\ Writing(k, todo) # Idle
  <2>1. Writing(k, todo).call = "write" /\ Writing(k, todo).k = k /\ Writing(k, todo).todo = todo
    BY DEF Writing
  <2> QED
    BY <1>1, <2>1
<1>3. ASSUME NEW k, NEW o, NEW need
      PROVE  /\ Reading(k, o, need).call = "read" /\ Reading(k, o, need).k = k
             /\ Reading(k, o, need).o = o /\ Reading(k, o, need).need = need
             /\ Reading(k, o, need) # Idle
  <2>1. /\ Reading(k, o, need).call = "read" /\ Reading(k, o, need).k = k
        /\ Reading(k, o, need).o = o /\ Reading(k, o, need).need = need
    BY DEF Reading
  <2> QED
    BY <1>1, <2>1
<1> QED
  BY <1>1, <1>2, <1>3

LEMMA IdleHolds == op = Idle => \A k : Held(k) = <<>> /\ Taken(k) = 0
BY CallShapes DEF Held, Taken

LEMMA WritingHolds ==
  ASSUME NEW k, NEW todo, op = Writing(k, todo)
  PROVE  /\ Held(k) = todo /\ Taken(k) = 0
         /\ \A j : j # k => Held(j) = <<>> /\ Taken(j) = 0
BY CallShapes DEF Held, Taken

LEMMA ReadingHolds ==
  ASSUME NEW k, NEW o, NEW need, op = Reading(k, o, need)
  PROVE  /\ Held(k) = <<>> /\ Taken(k) = IF need # None THEN Room - need ELSE 0
         /\ \A j : j # k => Held(j) = <<>> /\ Taken(j) = 0
BY CallShapes DEF Held, Taken

LEMMA ExchangeInit == Init => ExchangeInv
<1> SUFFICES ASSUME Init PROVE ExchangeInv
  OBVIOUS
<1>1. CallTypes
  BY DEF Init, CallTypes
<1>2. ASSUME NEW k \in Kids PROVE Flow(k)
  <2>1. child[k] = Unborn /\ p2c[k] = <<>> /\ c2p[k] = <<>> /\ sent[k] = 0 /\ got[k] = 0
        /\ Held(k) = <<>> /\ Taken(k) = 0 /\ <<"p2c", k>> \notin ends
    BY <1>1, IdleHolds DEF Init
  <2>2. /\ Unborn.st = "none" /\ Unborn.size = None /\ Unborn.reply = <<>> /\ Unborn.eof = FALSE
    BY DEF Unborn
  <2>3. Counted(0, 0, 0) /\ Pos(0, 0, 0) = 0 /\ Start(0) = 0
    BY Starts, RoomIsNat DEF Counted, Pos
  <2>4. <<>> \in Seq(Int) /\ Len(<<>>) = 0
    OBVIOUS
  <2>5. Answers(<<>>, 0, 0, FALSE)
    BY <2>3, <2>4 DEF Answers, Back
  <2>6. Inside(Unborn) = 0 /\ Echoes(Unborn, 0, 0, 0)
    BY <2>2, <2>4 DEF Inside, Echoes, Back
  <2>7. Messages(<<>>, <<>>, 0, 0)
    BY <2>3, <2>4 DEF Messages, Forth
  <2>8. InFlow(Unborn, <<>>, <<>>, <<>>, 0, 0, 0, FALSE)
    <3>1. 0 + 0 = 0 /\ 0 \in Nat
      OBVIOUS
    <3> QED
      BY <2>2, <2>3, <2>4, <2>5, <2>6, <2>7, <3>1 DEF InFlow
  <2>9. Opened(k) = FALSE
    BY <2>1 DEF Opened
  <2>10. Fits(k)
    BY <2>1, ProcessAssumption DEF Fits
  <2> QED
    BY <2>1, <2>8, <2>9, <2>10 DEF Flow
<1> QED
  BY <1>1, <1>2 DEF ExchangeInv

(* Calls that move nothing: at most children end, and ends are closed while   *)
(* no message is half written.                                                *)
LEMMA FlowQuiet ==
  ASSUME ExchangeInv, UNCHANGED <<p2c, c2p, sent, got>>,
         DOMAIN child' = Kids,
         \A k \in Kids : child'[k] = child[k] \/ Dead(child'[k]),
         \/ ~up' /\ op' = Idle /\ ends' = {}
         \/ /\ op' = op /\ up' = up /\ ends' \subseteq ends
            /\ ends' = ends \/ op = Idle
  PROVE  ExchangeInv'
<1>1. CASE ~up' /\ op' = Idle /\ ends' = {}
  BY <1>1 DEF ExchangeInv, CallTypes
<1>2. CASE /\ op' = op /\ up' = up /\ ends' \subseteq ends
           /\ ends' = ends \/ op = Idle
  <2>1. CallTypes'
    BY <1>2 DEF ExchangeInv, CallTypes
  <2>2. ASSUME NEW k \in Kids, up' PROVE Flow(k)'
    <3>1. InFlow(child[k], p2c[k], c2p[k], Held(k), Taken(k), sent[k], got[k], Opened(k))
      BY <1>2, <2>2 DEF ExchangeInv, Flow
    <3>2. Held(k)' = Held(k) /\ Taken(k)' = Taken(k)
      BY <1>2 DEF Held, Taken
    <3>3. child'[k] = child[k] \/ Dead(child'[k])
      OBVIOUS
    <3>4. Opened(k)' => Opened(k)
      BY <1>2 DEF Opened
    <3>5. Held(k) = <<>> \/ (Opened(k)' <=> Opened(k))
      BY <1>2, IdleHolds DEF Opened
    <3>6. InFlow(child'[k], p2c[k], c2p[k], Held(k), Taken(k), sent[k], got[k], Opened(k)')
      BY ONLY <3>1, <3>3, <3>4, <3>5, FlowWeakens
    <3>7. Fits(k)'
      BY <1>2, <2>2 DEF ExchangeInv, Flow, Fits
    <3> QED
      BY <3>2, <3>6, <3>7 DEF Flow
  <2> QED
    BY <2>1, <2>2 DEF ExchangeInv
<1> QED
  BY <1>1, <1>2

LEMMA TerminatedDead ==
  ASSUME Types, NEW pid, NEW c \in Terminated(pid)
  PROVE  DOMAIN c = Kids /\ \A k \in Kids : c[k] = child[k] \/ Dead(c[k])
<1> DEFINE s == Signalled(pid)
           waited == {k \in Kids : s[k].st = "zombie" /\ pid \in {k, None}}
<1>1. DOMAIN s = Kids
  BY DEF Signalled
<1>2. ASSUME NEW k \in Kids PROVE DOMAIN s[k] = ChildFields /\ (s[k] = child[k] \/ Dead(s[k]))
  BY UnbornFields DEF Signalled, Types, Dead
<1>3. CASE c = s
  BY <1>1, <1>2, <1>3
<1>4. CASE \E w \in waited : c = [s EXCEPT ![w].st = "reaped"]
  <2>1. PICK w \in waited : c = [s EXCEPT ![w].st = "reaped"]
    BY <1>4
  <2>2. DOMAIN c = Kids /\ \A k \in Kids \ {w} : c[k] = s[k]
    BY <1>1, <2>1
  <2>3. w \in Kids /\ c[w].st = "reaped"
    BY <1>1, <1>2, <2>1 DEF ChildFields
  <2> HIDE DEF s, waited
  <2> QED
    BY <1>2, <2>2, <2>3 DEF Dead
<1> QED
  BY <1>3, <1>4 DEF Terminated

LEMMA QuietCalls ==
  ASSUME Types, ExchangeInv,
         \/ \E o \in Objects : ForkFails(o) \/ Destroy(o) \/ Terminate(o) \/ CloseStdin(o) \/ Close(o)
         \/ \E o, p \in Objects : MoveConstruct(o, p) \/ MoveAssign(o, p)
  PROVE  ExchangeInv'
<1> DEFINE Gone == ~up' /\ op' = Idle /\ ends' = {}
           Stays == op' = op /\ up' = up /\ ends' \subseteq ends /\ op = Idle
<1>1. UNCHANGED <<p2c, c2p, sent, got>>
  BY DEF ForkFails, Destroy, Terminate, CloseStdin, Close, MoveConstruct, MoveAssign, SafeStop
<1>2. DOMAIN child' = Kids /\ \A k \in Kids : child'[k] = child[k] \/ Dead(child'[k])
  <2>1. child' = child \/ \E pid : child' \in Terminated(pid)
    BY DEF ForkFails, Destroy, Terminate, CloseStdin, Close, MoveConstruct, MoveAssign, SafeStop
  <2> QED
    BY <2>1, TerminatedDead DEF Types
<1>3. Gone \/ Stays
  BY DEF ForkFails, Destroy, Terminate, CloseStdin, Close, MoveConstruct, MoveAssign, SafeStop, Free, Die
<1> QED
  BY <1>1, <1>2, <1>3, FlowQuiet

LEMMA ExecFailsFlows ==
  ASSUME Types, ExchangeInv, NEW k \in Kids, ExecFails(k)
  PROVE  ExchangeInv'
<1>1. UNCHANGED <<p2c, c2p, sent, got>>
  BY DEF ExecFails
<1>2. DOMAIN child' = Kids /\ \A j \in Kids : child'[j] = child[j] \/ Dead(child'[j])
  BY UnbornFields DEF ExecFails, Dead
<1>3. Die \/ UNCHANGED <<up, op, obj, ends>>
  BY DEF ExecFails
<1>4. CASE Die
  BY <1>1, <1>2, <1>4, FlowQuiet DEF Die
<1>5. CASE UNCHANGED <<up, op, obj, ends>>
  BY <1>1, <1>2, <1>5, FlowQuiet
<1> QED
  BY <1>3, <1>4, <1>5

LEMMA ChildEnds ==
  ASSUME Types, ExchangeInv, NEW k \in Kids, NEW cause, child' = [child EXCEPT ![k] = Ended(cause)],
         UNCHANGED <<up, op, ends, p2c, c2p, sent, got>>
  PROVE  ExchangeInv'
<1>1. DOMAIN child' = Kids /\ \A j \in Kids : child'[j] = child[j] \/ Dead(child'[j])
  BY UnbornFields DEF Types, Dead
<1> QED
  BY <1>1, FlowQuiet

(* One child's flow changes, and what is unchanged of the others' is unchanged. *)
LEMMA OneFlow ==
  ASSUME ExchangeInv, CallTypes', NEW k \in Kids, up' = up,
         \A j \in Kids \ {k} : Args(j)' = Args(j),
         up => Flow(k)'
  PROVE  ExchangeInv'
BY SameFlow DEF ExchangeInv

LEMMA ConstructFlows ==
  ASSUME Types, ExchangeInv, NEW o \in Objects, Construct(o)
  PROVE  ExchangeInv'
<1>1. PICK k \in Kids :
        /\ child[k].st = "none"
        /\ child' = [child EXCEPT ![k].st = "forked",
                                 ![k].holds = Inherited(k),
                                 ![k].mine = {obj[p].m_pid : p \in {p \in Objects : Live(p)}}]
        /\ ends' = ends \cup {<<"p2c", k>>, <<"c2p", k>>}
  BY DEF Construct
<1>2. UNCHANGED <<up, op, p2c, c2p, sent, got>> /\ up
  BY DEF Construct, Free
<1>3. /\ DOMAIN child' = Kids
      /\ \A j \in Kids \ {k} : child'[j] = child[j]
      /\ child'[k].st = "forked"
      /\ child'[k].size = child[k].size /\ child'[k].reply = child[k].reply
      /\ child'[k].eof = child[k].eof
  BY <1>1 DEF Types, ChildFields
<1>4. CallTypes'
  BY <1>1, <1>2, <1>3 DEF ExchangeInv, CallTypes
<1>5. \A j : Held(j)' = Held(j) /\ Taken(j)' = Taken(j)
  BY <1>2 DEF Held, Taken
<1>6. \A j \in Kids \ {k} : Opened(j)' = Opened(j)
  BY <1>1 DEF Opened
<1>7. \A j \in Kids \ {k} : Args(j)' = Args(j)
  BY <1>2, <1>3, <1>5, <1>6 DEF Args
<1>8. Flow(k)'
  <2>1. InFlow(child[k], p2c[k], c2p[k], Held(k), Taken(k), sent[k], got[k], Opened(k))
    BY <1>2 DEF ExchangeInv, Flow
  <2>2. Opened(k)' <=> Opened(k) \/ child[k].st = "none"
    BY <1>1 DEF Opened
  <2>3. child[k].st \in {"none", "forked"} /\ child'[k].st \in {"forked", "running"}
    BY <1>1, <1>3
  <2>4. InFlow(child'[k], p2c[k], c2p[k], Held(k), Taken(k), sent[k], got[k], Opened(k)')
    BY <1>3, <2>1, <2>2, <2>3, FlowStarts
  <2>5. Fits(k)'
    BY <1>2 DEF ExchangeInv, Flow, Fits
  <2> QED
    BY <1>2, <1>5, <2>4, <2>5 DEF Flow
<1> QED
  BY <1>2, <1>4, <1>7, <1>8, OneFlow

LEMMA ExecFlows ==
  ASSUME Types, ExchangeInv, NEW k \in Kids, Exec(k)
  PROVE  ExchangeInv'
<1>1. child[k].st = "forked" /\ UNCHANGED <<up, op, ends, p2c, c2p, sent, got>>
  BY DEF Exec
<1>2. /\ DOMAIN child' = Kids
      /\ \A j \in Kids \ {k} : child'[j] = child[j]
      /\ child'[k].st = "running"
      /\ child'[k].size = child[k].size /\ child'[k].reply = child[k].reply
      /\ child'[k].eof = child[k].eof
  BY DEF Exec, Types, ChildFields
<1>3. CallTypes'
  BY <1>1, <1>2 DEF ExchangeInv, CallTypes
<1>4. \A j : Held(j)' = Held(j) /\ Taken(j)' = Taken(j) /\ Opened(j)' = Opened(j)
  BY <1>1 DEF Held, Taken, Opened
<1>5. \A j \in Kids \ {k} : Args(j)' = Args(j)
  BY <1>1, <1>2, <1>4 DEF Args
<1>6. ASSUME up PROVE Flow(k)'
  <2>1. InFlow(child[k], p2c[k], c2p[k], Held(k), Taken(k), sent[k], got[k], Opened(k))
    BY <1>6 DEF ExchangeInv, Flow
  <2>2. Opened(k)' <=> Opened(k) \/ child[k].st = "none"
    BY <1>1, <1>4
  <2>3. child[k].st \in {"none", "forked"} /\ child'[k].st \in {"forked", "running"}
    BY <1>1, <1>2
  <2>4. InFlow(child'[k], p2c[k], c2p[k], Held(k), Taken(k), sent[k], got[k], Opened(k)')
    BY <1>2, <2>1, <2>2, <2>3, FlowStarts
  <2>5. Fits(k)'
    BY <1>1, <1>6 DEF ExchangeInv, Flow, Fits
  <2> QED
    BY <1>1, <1>4, <2>4, <2>5 DEF Flow
<1> QED
  BY <1>1, <1>3, <1>5, <1>6, OneFlow

LEMMA SendFlows ==
  ASSUME ExchangeInv, NEW o \in Objects, Send(o)
  PROVE  ExchangeInv'
<1>1. PICK k : /\ <<"p2c", k>> \in ends
               /\ op' = Writing(k, Frame(Length))
               /\ sent' = [sent EXCEPT ![k] = @ + 1]
  BY DEF Send, Writing
<1>2. op = Idle /\ up /\ UNCHANGED <<up, ends, child, p2c, c2p, got>>
  BY DEF Send, Free
<1>3. k \in Kids
  BY <1>1 DEF ExchangeInv, CallTypes
<1>4. sent'[k] = sent[k] + 1 /\ DOMAIN sent' = Kids /\ \A j \in Kids \ {k} : sent'[j] = sent[j]
  BY <1>1, <1>3 DEF ExchangeInv, CallTypes
<1>5. Frame(Length) \in Seq(Int)
  BY FrameUnits, RoomIsNat
<1>6. CallTypes'
  BY <1>1, <1>2, <1>3, <1>4, <1>5 DEF ExchangeInv, CallTypes
<1>7. /\ \A j \in Kids : Held(j) = <<>> /\ Taken(j) = 0 /\ Opened(j)' = Opened(j)
      /\ Opened(k) = TRUE
  BY <1>1, <1>2, IdleHolds DEF Opened
<1>8. /\ Held(k)' = Frame(Length) /\ Taken(k)' = 0
      /\ \A j \in Kids \ {k} : Held(j)' = <<>> /\ Taken(j)' = 0
  BY <1>1, CallShapes DEF Held, Taken
<1>9. \A j \in Kids \ {k} : Args(j)' = Args(j)
  BY <1>2, <1>4, <1>7, <1>8 DEF Args
<1>10. Flow(k)'
  <2>1. InFlow(child[k], p2c[k], c2p[k], <<>>, 0, sent[k], got[k], TRUE)
    BY <1>2, <1>3, <1>7 DEF ExchangeInv, Flow
  <2>2. InFlow(child[k], p2c[k], c2p[k], Frame(Length), 0, sent[k] + 1, got[k], TRUE)
    BY <2>1, FlowSends
  <2>3. Fits(k)'
    BY <1>2, <1>3 DEF ExchangeInv, Flow, Fits
  <2> QED
    BY <1>2, <1>3, <1>4, <1>7, <1>8, <2>2, <2>3 DEF Flow
<1> QED
  BY <1>2, <1>3, <1>6, <1>9, <1>10, OneFlow

LEMMA WriteFlows ==
  ASSUME Types, ExchangeInv, Write
  PROVE  ExchangeInv'
<1>1. up /\ op.call = "write" /\ UNCHANGED <<child, c2p, sent, got>>
  BY DEF Write
<1>2. PICK k \in Kids, todo \in Seq(Int) : op = Writing(k, todo)
  BY <1>1, CallShapes DEF ExchangeInv, CallTypes
<1>3. op.k = k /\ op.todo = todo
  BY <1>2, CallShapes
<1>4. Held(k) = todo /\ \A j \in Kids : Taken(j) = 0 /\ (j # k => Held(j) = <<>>)
  BY <1>2, WritingHolds
<1>5. InFlow(child[k], p2c[k], c2p[k], todo, 0, sent[k], got[k], Opened(k))
  BY <1>1, <1>4 DEF ExchangeInv, Flow
<1>6. CASE todo = <<>> /\ op' = Idle /\ UNCHANGED <<up, obj, ends, p2c>>
  <2>1. \A j \in Kids : Held(j)' = <<>> /\ Taken(j)' = 0 /\ Opened(j)' = Opened(j)
    BY <1>6, CallShapes DEF Held, Taken, Opened
  <2>2. \A j \in Kids : Args(j)' = Args(j)
    BY <1>1, <1>4, <1>6, <2>1 DEF Args
  <2>3. CallTypes'
    BY <1>1, <1>6 DEF ExchangeInv, CallTypes
  <2>4. Flow(k)'
    BY <1>1, <2>2, SameFlow DEF ExchangeInv
  <2> QED
    BY <1>6, <2>2, <2>3, <2>4, OneFlow
<1>7. CASE /\ todo # <<>> /\ Len(p2c[k]) < Capacity
           /\ p2c' = [p2c EXCEPT ![k] = Append(@, Head(todo))]
           /\ op' = [op EXCEPT !.todo = Tail(@)]
           /\ UNCHANGED <<up, obj, ends>>
  <2>a. PICK rest : rest = Tail(todo)
    OBVIOUS
  <2>b. rest \in Seq(Int)
    <3>1. todo \in Seq(Int) /\ todo # <<>>
      BY <1>7
    <3> QED
      BY ONLY <2>a, <3>1
  <2>1. op' = Writing(k, rest)
    <3>1. op = [call |-> "write", k |-> k, todo |-> todo]
      BY <1>2 DEF Writing
    <3>2. op' = [op EXCEPT !.todo = rest]
      BY <1>3, <1>7, <2>a
    <3>3. op' = [call |-> "write", k |-> k, todo |-> rest]
      BY ONLY <3>1, <3>2
    <3> QED
      BY <3>3 DEF Writing
  <2>2. /\ p2c'[k] = Append(p2c[k], Head(todo)) /\ DOMAIN p2c' = Kids
        /\ \A j \in Kids \ {k} : p2c'[j] = p2c[j]
    BY <1>7 DEF ExchangeInv, CallTypes
  <2>3. /\ Held(k)' = rest /\ Taken(k)' = 0
        /\ \A j \in Kids \ {k} : Held(j)' = <<>> /\ Taken(j)' = 0
    BY <2>1, CallShapes DEF Held, Taken
  <2>4. \A j \in Kids : Opened(j)' = Opened(j)
    BY <1>7 DEF Opened
  <2>5. CallTypes'
    BY <1>1, <1>7, <2>b, <2>1, <2>2 DEF ExchangeInv, CallTypes
  <2>6. \A j \in Kids \ {k} : Args(j)' = Args(j)
    BY <1>1, <1>4, <2>2, <2>3, <2>4 DEF Args
  <2>7. InFlow(child[k], Append(p2c[k], Head(todo)), c2p[k], rest, 0, sent[k], got[k], Opened(k))
    BY <1>5, <1>7, <2>a, FlowWrites
  <2>c. Fits(k)'
    <3>1. /\ Len(p2c[k]) < Capacity /\ Capacity \in Nat /\ Len(p2c[k]) \in Nat
          /\ Len(Append(p2c[k], Head(todo))) = Len(p2c[k]) + 1
      BY <1>5, <1>7, ProcessAssumption DEF InFlow
    <3>2. c2p'[k] = c2p[k] /\ Len(c2p[k]) <= Capacity
      BY <1>1 DEF ExchangeInv, Flow, Fits
    <3> QED
      BY <2>2, <3>1, <3>2 DEF Fits
  <2>8. Flow(k)'
    BY <1>1, <2>2, <2>3, <2>4, <2>7, <2>c DEF Flow
  <2> QED
    BY <1>7, <2>5, <2>6, <2>8, OneFlow
<1>8. CASE Die /\ UNCHANGED p2c
  <2>1. UNCHANGED <<p2c, c2p, sent, got>> /\ ~up' /\ op' = Idle /\ ends' = {}
    BY <1>1, <1>8 DEF Die
  <2>2. DOMAIN child' = Kids /\ \A j \in Kids : child'[j] = child[j] \/ Dead(child'[j])
    BY <1>1 DEF Types
  <2> QED
    BY <2>1, <2>2, FlowQuiet
<1> QED
  BY <1>3, <1>6, <1>7, <1>8 DEF Write

LEMMA ReceiveFlows ==
  ASSUME ExchangeInv, NEW o \in Objects, Receive(o)
  PROVE  ExchangeInv'
<1>1. PICK k : <<"c2p", k>> \in ends /\ op' = Reading(k, o, None)
  BY DEF Receive, Reading
<1>2. op = Idle /\ up /\ UNCHANGED <<up, ends, child, p2c, c2p, sent, got>>
  BY DEF Receive, Free
<1>3. k \in Kids
  BY <1>1 DEF ExchangeInv, CallTypes
<1>4. CallTypes'
  BY <1>1, <1>2, <1>3 DEF ExchangeInv, CallTypes
<1>5. \A j \in Kids : Held(j) = <<>> /\ Taken(j) = 0 /\ Opened(j)' = Opened(j)
  BY <1>2, IdleHolds DEF Opened
<1>6. \A j \in Kids : Held(j)' = <<>> /\ Taken(j)' = 0
  BY <1>1, CallShapes DEF Held, Taken
<1>7. \A j \in Kids : Args(j)' = Args(j)
  BY <1>2, <1>5, <1>6 DEF Args
<1>8. Flow(k)'
  BY <1>2, <1>3, <1>7, SameFlow DEF ExchangeInv
<1> QED
  BY <1>2, <1>3, <1>4, <1>7, <1>8, OneFlow

LEMMA ReadFlows ==
  ASSUME Types, ExchangeInv, Read
  PROVE  ExchangeInv'
<1>1. up /\ op.call = "read" /\ UNCHANGED <<up, ends, child, p2c, sent>>
  BY DEF Read
<1>2. PICK k \in Kids, o \in Objects, need \in {None} \cup 1..Length : op = Reading(k, o, need)
  BY <1>1, CallShapes DEF ExchangeInv, CallTypes
<1>3. op.k = k /\ op.need = need
  BY <1>2, CallShapes
<1>4. \A j \in Kids : Held(j) = <<>> /\ (j # k => Taken(j) = 0) /\ Opened(j)' = Opened(j)
  BY <1>1, <1>2, ReadingHolds DEF Opened
<1>5. PICK taken : taken = IF need # None THEN Room - need ELSE 0
  OBVIOUS
<1>6. Taken(k) = taken
  BY <1>2, <1>5, ReadingHolds
<1>7. InFlow(child[k], p2c[k], c2p[k], <<>>, taken, sent[k], got[k], Opened(k))
  BY <1>1, <1>4, <1>6 DEF ExchangeInv, Flow
<1>8. PICK next : next = IF op.need = None THEN Head(c2p[k]) ELSE op.need - 1
  OBVIOUS
<1>9. CASE UNCHANGED <<op, c2p, got>>
  <2>1. \A j \in Kids : Held(j)' = Held(j) /\ Taken(j)' = Taken(j)
    BY <1>9 DEF Held, Taken
  <2>2. \A j \in Kids : Args(j)' = Args(j)
    BY <1>1, <1>4, <1>9, <2>1 DEF Args
  <2>3. CallTypes'
    BY <1>1, <1>9 DEF ExchangeInv, CallTypes
  <2>4. Flow(k)'
    BY <1>1, <2>2, SameFlow DEF ExchangeInv
  <2> QED
    BY <1>1, <2>2, <2>3, <2>4, OneFlow
<1>10. CASE /\ c2p[k] # <<>>
            /\ c2p' = [c2p EXCEPT ![k] = Tail(@)]
            /\ op' = IF next = 0 THEN Idle ELSE [op EXCEPT !.need = next]
            /\ got' = IF next = 0 THEN [got EXCEPT ![k] = @ + 1] ELSE got
  <2>1. /\ c2p'[k] = Tail(c2p[k]) /\ DOMAIN c2p' = Kids /\ DOMAIN got' = Kids
        /\ \A j \in Kids \ {k} : c2p'[j] = c2p[j] /\ got'[j] = got[j]
        /\ got'[k] = IF next = 0 THEN got[k] + 1 ELSE got[k]
    BY <1>10 DEF ExchangeInv, CallTypes
  <2>2. /\ got[k] <= sent[k] /\ sent[k] \in Nat /\ got[k] \in Nat
        /\ taken = 0 /\ got[k] < sent[k] => Head(c2p[k]) = Length
        /\ taken = 0 /\ got[k] = sent[k] => Head(c2p[k]) = 0
    BY <1>7, <1>10, FlowHead
  <2> DEFINE Turned(now) ==
        /\ now = IF next = 0 THEN 0 ELSE Room - next
        /\ InFlow(child[k], p2c[k], Tail(c2p[k]), <<>>, now, sent[k], got'[k], Opened(k))
        /\ next = 0 \/ next \in 1..Length
  <2>3. ASSUME need = None PROVE \E now : Turned(now)
    <3>1. taken = 0 /\ next = Head(c2p[k])
      BY <1>3, <1>5, <1>8, <2>3
    <3>2. Head(c2p[k]) \in {0, Length}
      BY <2>2, <3>1
    <3>3. PICK now : now = IF next = 0 THEN 0 ELSE Room - next
      OBVIOUS
    <3>4. IF taken = Length \/ (taken = 0 /\ Head(c2p[k]) = 0)
          THEN now = 0 /\ got'[k] = got[k] + 1
          ELSE now = taken + 1 /\ got'[k] = got[k]
      BY ONLY <2>1, <3>1, <3>2, <3>3, RoomIsNat
    <3>5. next = 0 \/ next \in 1..Length
      BY <3>1, <3>2, RoomIsNat
    <3>6. InFlow(child[k], p2c[k], Tail(c2p[k]), <<>>, now, sent[k], got'[k], Opened(k))
      BY <1>7, <1>10, <3>4, FlowReads
    <3> QED
      BY <3>3, <3>5, <3>6
  <2>4. ASSUME need # None PROVE \E now : Turned(now)
    <3>1. need \in 1..Length /\ taken = Room - need /\ next = need - 1
      BY <1>3, <1>5, <1>8, <2>4
    <3>2. PICK now : now = IF next = 0 THEN 0 ELSE Room - next
      OBVIOUS
    <3>3. IF taken = Length \/ (taken = 0 /\ Head(c2p[k]) = 0)
          THEN now = 0 /\ got'[k] = got[k] + 1
          ELSE now = taken + 1 /\ got'[k] = got[k]
      BY ONLY <2>1, <3>1, <3>2, RoomIsNat
    <3>4. next = 0 \/ next \in 1..Length
      BY <3>1, RoomIsNat
    <3>5. InFlow(child[k], p2c[k], Tail(c2p[k]), <<>>, now, sent[k], got'[k], Opened(k))
      BY <1>7, <1>10, <3>3, FlowReads
    <3> QED
      BY <3>2, <3>4, <3>5
  <2> HIDE DEF Turned
  <2>a. PICK now : Turned(now)
    BY <2>3, <2>4
  <2>5. /\ now = IF next = 0 THEN 0 ELSE Room - next
        /\ InFlow(child[k], p2c[k], Tail(c2p[k]), <<>>, now, sent[k], got'[k], Opened(k))
        /\ next = 0 \/ next \in 1..Length
    BY <2>a DEF Turned
  <2>6. (op' = Idle /\ next = 0) \/ (op' = Reading(k, o, next) /\ next # 0)
    <3>1. op = [call |-> "read", k |-> k, o |-> o, need |-> need]
      BY <1>2 DEF Reading
    <3>2. CASE next # 0
      <4>1. op' = [op EXCEPT !.need = next]
        BY <1>10, <3>2
      <4>2. op' = [call |-> "read", k |-> k, o |-> o, need |-> next]
        BY ONLY <3>1, <4>1
      <4> QED
        BY <3>2, <4>2 DEF Reading
    <3>3. CASE next = 0
      <4>1. op' = Idle
        BY <1>10, <3>3
      <4> QED
        BY <3>3, <4>1
    <3> QED
      BY ONLY <3>2, <3>3
  <2>7. next # 0 => next # None
    BY <2>5, RoomIsNat DEF None
  <2>8. /\ Held(k)' = <<>> /\ Taken(k)' = now
        /\ \A j \in Kids \ {k} : Held(j)' = <<>> /\ Taken(j)' = 0
    BY <2>5, <2>6, <2>7, CallShapes DEF Held, Taken
  <2>9. CallTypes'
    BY <1>1, <2>1, <2>5, <2>6 DEF ExchangeInv, CallTypes
  <2>10. \A j \in Kids \ {k} : Args(j)' = Args(j)
    BY <1>1, <1>4, <2>1, <2>8 DEF Args
  <2>b. Fits(k)'
    <3>1. c2p[k] \in Seq(Int)
      BY <1>7 DEF InFlow, Answers
    <3>2. Len(c2p[k]) \in Nat /\ Len(Tail(c2p[k])) = Len(c2p[k]) - 1
      BY <1>10, <3>1
    <3>3. Len(p2c[k]) <= Capacity /\ Len(c2p[k]) <= Capacity /\ Capacity \in Nat
      BY <1>1, ProcessAssumption DEF ExchangeInv, Flow, Fits
    <3> QED
      BY <1>1, <2>1, <3>2, <3>3 DEF Fits
  <2>11. Flow(k)'
    BY <1>1, <1>4, <2>1, <2>5, <2>8, <2>b DEF Flow
  <2> QED
    BY <1>1, <2>9, <2>10, <2>11, OneFlow
<1> QED
  BY <1>3, <1>8, <1>9, <1>10 DEF Read

LEMMA EchoFlows ==
  ASSUME Types, ExchangeInv, NEW k \in Kids, EchoReceive(k) \/ EchoSend(k) \/ EchoEnds(k)
  PROVE  ExchangeInv'
<1>0. child[k].st = "running" /\ UNCHANGED <<up, op, ends, sent, got>>
  BY DEF EchoReceive, EchoSend, EchoEnds
<1>1. \A j \in Kids : Held(j)' = Held(j) /\ Taken(j)' = Taken(j) /\ Opened(j)' = Opened(j)
  BY <1>0 DEF Held, Taken, Opened
<1>2. up => InFlow(child[k], p2c[k], c2p[k], Held(k), Taken(k), sent[k], got[k], Opened(k))
  BY DEF ExchangeInv, Flow
<1>3. ASSUME NEW cause, child' = [child EXCEPT ![k] = Ended(cause)], UNCHANGED <<p2c, c2p>>
      PROVE  ExchangeInv'
  BY <1>0, <1>3, ChildEnds
<1>4. ASSUME DOMAIN child' = Kids, DOMAIN p2c' = Kids, DOMAIN c2p' = Kids,
             \A j \in Kids \ {k} : child'[j] = child[j] /\ p2c'[j] = p2c[j] /\ c2p'[j] = c2p[j],
             up => InFlow(child'[k], p2c'[k], c2p'[k], Held(k), Taken(k), sent[k], got[k], Opened(k)),
             up => Fits(k)'
      PROVE  ExchangeInv'
  <2>1. CallTypes'
    BY <1>0, <1>4 DEF ExchangeInv, CallTypes
  <2>2. \A j \in Kids \ {k} : Args(j)' = Args(j)
    BY <1>0, <1>1, <1>4 DEF Args
  <2>3. up => Flow(k)'
    BY <1>0, <1>1, <1>4 DEF Flow
  <2> QED
    BY <1>0, <2>1, <2>2, <2>3, OneFlow
<1>5. DOMAIN child = Kids /\ DOMAIN child[k] = ChildFields /\ DOMAIN p2c = Kids /\ DOMAIN c2p = Kids
  BY DEF Types, ExchangeInv, CallTypes
<1>6. up => child[k].eof \in BOOLEAN
  BY <1>0, <1>2 DEF InFlow
<1>a. ASSUME up
      PROVE  /\ Capacity \in Nat /\ Len(p2c[k]) <= Capacity /\ Len(c2p[k]) <= Capacity
             /\ p2c[k] \in Seq(Int) /\ c2p[k] \in Seq(Int)
  BY <1>a, <1>2, ProcessAssumption DEF ExchangeInv, Flow, Fits, InFlow, Answers
<1>7. CASE EchoReceive(k)
  <2>1. child[k].reply = <<>> /\ ~child[k].eof /\ UNCHANGED c2p
    BY <1>7 DEF EchoReceive
  <2>2. PICK size : size = IF child[k].size = None THEN Head(p2c[k]) ELSE child[k].size
    OBVIOUS
  <2>3. PICK left : left = IF child[k].size = None THEN size ELSE child[k].left - 1
    OBVIOUS
  <2>4. PICK now : now = IF left = 0 THEN None ELSE size
    OBVIOUS
  <2>5. PICK reply : reply = IF left = 0 THEN Frame(size) ELSE <<>>
    OBVIOUS
  <2>6. CASE /\ p2c[k] # <<>>
             /\ p2c' = [p2c EXCEPT ![k] = Tail(@)]
             /\ child' = [child EXCEPT ![k].size = now, ![k].left = left, ![k].reply = reply]
    <3>1. /\ DOMAIN child' = Kids /\ \A j \in Kids \ {k} : child'[j] = child[j]
          /\ child'[k].st = "running" /\ child'[k].eof = child[k].eof
          /\ child'[k].size = now /\ child'[k].left = left /\ child'[k].reply = reply
      BY <1>0, <1>5, <2>6 DEF ChildFields
    <3>2. p2c'[k] = Tail(p2c[k]) /\ DOMAIN p2c' = Kids /\ \A j \in Kids \ {k} : p2c'[j] = p2c[j]
      BY <1>5, <2>6
    <3>3. Took(child[k], child'[k], Head(p2c[k]))
      BY <2>2, <2>3, <2>4, <2>5, <3>1 DEF Took
    <3>4. up => InFlow(child'[k], Tail(p2c[k]), c2p[k], Held(k), Taken(k), sent[k], got[k], Opened(k))
      <4> SUFFICES ASSUME up PROVE InFlow(child'[k], Tail(p2c[k]), c2p[k], Held(k), Taken(k), sent[k], got[k], Opened(k))
        OBVIOUS
      <4>1. child[k].eof = FALSE /\ child'[k].eof = FALSE
        BY <1>6, <2>1, <3>1
      <4> QED
        BY <1>0, <1>2, <2>1, <2>6, <3>1, <3>3, <4>1, FlowTakes
    <3>5. ASSUME up PROVE Fits(k)'
      <4>1. Len(p2c[k]) \in Nat /\ Len(Tail(p2c[k])) = Len(p2c[k]) - 1
        BY <1>a, <2>6, <3>5
      <4> QED
        BY <1>a, <2>1, <3>2, <3>5, <4>1 DEF Fits
    <3> QED
      BY <1>4, <1>5, <2>1, <3>1, <3>2, <3>4, <3>5
  <2>7. CASE /\ p2c[k] = <<>> /\ ~HasEnd("p2c", k)
             /\ child' = [child EXCEPT ![k].eof = TRUE,
                                      ![k].reply = Frame(IF child[k].size = None THEN 0 ELSE child[k].size)]
             /\ UNCHANGED p2c
    <3>1. /\ DOMAIN child' = Kids /\ \A j \in Kids \ {k} : child'[j] = child[j]
          /\ child'[k].st = "running" /\ child'[k].eof = TRUE
          /\ child'[k].size = child[k].size
          /\ child'[k].reply = Frame(IF child[k].size = None THEN 0 ELSE child[k].size)
      BY <1>0, <1>5, <2>7 DEF ChildFields
    <3>2. Opened(k) = FALSE
      BY <2>7 DEF Opened, HasEnd
    <3>3. up => InFlow(child'[k], <<>>, c2p[k], Held(k), Taken(k), sent[k], got[k], FALSE)
      <4> SUFFICES ASSUME up PROVE InFlow(child'[k], <<>>, c2p[k], Held(k), Taken(k), sent[k], got[k], FALSE)
        OBVIOUS
      <4>1. child[k].eof = FALSE
        BY <1>6, <2>1
      <4>2. InFlow(child[k], <<>>, c2p[k], Held(k), Taken(k), sent[k], got[k], FALSE)
        BY <1>2, <2>7, <3>2
      <4> QED
        BY <1>0, <2>1, <3>1, <4>1, <4>2, FlowEnds
    <3>4. up => Fits(k)'
      BY <1>a, <2>1, <2>7 DEF Fits
    <3> QED
      BY <1>4, <1>5, <2>1, <2>7, <3>1, <3>2, <3>3, <3>4
  <2> QED
    BY <1>7, <2>2, <2>3, <2>4, <2>5, <2>6, <2>7 DEF EchoReceive
<1>8. CASE EchoSend(k)
  <2>1. child[k].reply # <<>> /\ UNCHANGED p2c
    BY <1>8 DEF EchoSend
  <2>2. CASE /\ Len(c2p[k]) < Capacity
             /\ c2p' = [c2p EXCEPT ![k] = Append(@, Head(child[k].reply))]
             /\ child' = [child EXCEPT ![k].reply = Tail(@)]
    <3>1. /\ DOMAIN child' = Kids /\ \A j \in Kids \ {k} : child'[j] = child[j]
          /\ child'[k].st = "running" /\ child'[k].eof = child[k].eof
          /\ child'[k].size = child[k].size /\ child'[k].left = child[k].left
          /\ child'[k].reply = Tail(child[k].reply)
      BY <1>0, <1>5, <2>2 DEF ChildFields
    <3>2. /\ c2p'[k] = Append(c2p[k], Head(child[k].reply)) /\ DOMAIN c2p' = Kids
          /\ \A j \in Kids \ {k} : c2p'[j] = c2p[j]
      BY <1>5, <2>2
    <3>3. up => InFlow(child'[k], p2c[k], Append(c2p[k], Head(child[k].reply)), Held(k), Taken(k),
                       sent[k], got[k], Opened(k))
      BY <1>0, <1>2, <2>1, <3>1, FlowReplies
    <3>4. ASSUME up PROVE Fits(k)'
      <4>1. Len(c2p[k]) \in Nat /\ Len(Append(c2p[k], Head(child[k].reply))) = Len(c2p[k]) + 1
        BY <1>a, <3>4
      <4> QED
        BY <1>a, <2>1, <2>2, <3>2, <3>4, <4>1 DEF Fits
    <3> QED
      BY <1>4, <1>5, <2>1, <3>1, <3>2, <3>3, <3>4
  <2>3. CASE child' = [child EXCEPT ![k] = Ended("pipe")] /\ UNCHANGED c2p
    BY <1>3, <2>1, <2>3
  <2> QED
    BY <1>8, <2>2, <2>3 DEF EchoSend
<1>9. CASE EchoEnds(k)
  BY <1>3, <1>9 DEF EchoEnds
<1> QED
  BY <1>7, <1>8, <1>9

LEMMA ExchangeStep == Types /\ ExchangeInv /\ [Next]_vars => ExchangeInv'
<1> SUFFICES ASSUME Types, ExchangeInv, [Next]_vars PROVE ExchangeInv'
  OBVIOUS
<1>1. CASE UNCHANGED vars
  BY <1>1, FlowQuiet DEF vars, Types
<1>2. CASE \E o \in Objects : Construct(o) \/ Send(o) \/ Receive(o)
  BY <1>2, ConstructFlows, SendFlows, ReceiveFlows
<1>3. CASE \/ \E o \in Objects : ForkFails(o) \/ Destroy(o) \/ Terminate(o) \/ CloseStdin(o) \/ Close(o)
           \/ \E o, p \in Objects : MoveConstruct(o, p) \/ MoveAssign(o, p)
  BY <1>3, QuietCalls
<1>4. CASE Write \/ Read
  BY <1>4, WriteFlows, ReadFlows
<1>5. CASE \E k \in Kids : ChildStep(k)
  BY <1>5, ExecFlows, ExecFailsFlows, EchoFlows DEF ChildStep
<1> QED
  BY <1>1, <1>2, <1>3, <1>4, <1>5 DEF Next

(* Every child's exchange is as InFlow describes it, always.                   *)
THEOREM ExchangeInvariant == Spec => [](OwnInv /\ ExchangeInv)
<1>1. OwnInv /\ ExchangeInv /\ [Next]_vars => (OwnInv /\ ExchangeInv)'
  BY OwnStep, ExchangeStep DEF OwnInv
<1> QED
  BY <1>1, OwnInit, ExchangeInit, PTL DEF Spec

(* The exchange keeps its frames, whatever the interleaving of the two         *)
(* programs, the moves of the object, the closing of its pipes and the signals *)
(* that end children: a header is read where one was written, by receive() and *)
(* by the echo program, and a byte of a message nowhere else.  There are never *)
(* more answers than messages, but for a single empty one, which the echo      *)
(* program sends when its input is closed.                                     *)
FramesInStep ==
  up => \A k \in Kids :
    /\ got[k] <= sent[k] + 1
    /\ <<"p2c", k>> \in ends => got[k] <= sent[k]
    /\ op # Idle /\ op.call = "read" /\ op.k = k /\ c2p[k] # <<>> =>
         Head(c2p[k]) = IF op.need # None THEN Byte ELSE IF got[k] < sent[k] THEN Length ELSE 0
    /\ child[k].st = "running" /\ child[k].reply = <<>> /\ ~child[k].eof /\ p2c[k] # <<>> =>
         Head(p2c[k]) = IF child[k].size = None THEN Length ELSE Byte

LEMMA FlowCounts ==
  ASSUME NEW c, NEW in, NEW out, NEW todo, NEW taken, NEW n, NEW g, NEW open,
         InFlow(c, in, out, todo, taken, n, g, open)
  PROVE  n \in Nat /\ g \in Nat /\ g <= n + 1 /\ (open => g <= n)
<1>1. Counted(n, g, taken) /\ Answers(out, n, Pos(n, g, taken), open)
  BY DEF InFlow
<1>2. n \in Nat /\ g \in 0..n + 1 /\ Start(n) \in Nat /\ Len(out) \in Nat
  BY <1>1, Positions DEF Counted, Answers
<1>3. ASSUME open, g = n + 1 PROVE FALSE
  <2>1. Start(n) + 1 + Len(out) <= Start(n)
    BY <1>1, <1>3 DEF Answers, Pos
  <2> QED
    BY <1>2, <2>1
<1> QED
  BY <1>2, <1>3

(* receive() and the echo program stay in step with what is sent, for any      *)
(* length of message, any capacity of the pipes and any number of children.    *)
THEOREM FramesStayInStep == Spec => []FramesInStep
<1>1. ASSUME ExchangeInv PROVE FramesInStep
  <2> SUFFICES ASSUME up, NEW k \in Kids
               PROVE  /\ got[k] <= sent[k] + 1
                      /\ <<"p2c", k>> \in ends => got[k] <= sent[k]
                      /\ op # Idle /\ op.call = "read" /\ op.k = k /\ c2p[k] # <<>> =>
                           Head(c2p[k]) = IF op.need # None THEN Byte ELSE IF got[k] < sent[k] THEN Length ELSE 0
                      /\ child[k].st = "running" /\ child[k].reply = <<>> /\ ~child[k].eof /\ p2c[k] # <<>> =>
                           Head(p2c[k]) = IF child[k].size = None THEN Length ELSE Byte
    BY DEF FramesInStep
  <2>1. InFlow(child[k], p2c[k], c2p[k], Held(k), Taken(k), sent[k], got[k], Opened(k))
    BY <1>1 DEF ExchangeInv, Flow
  <2>2. /\ got[k] <= sent[k] + 1
        /\ <<"p2c", k>> \in ends => got[k] <= sent[k]
    BY <2>1, FlowCounts DEF Opened
  <2>3. ASSUME op # Idle, op.call = "read", op.k = k, c2p[k] # <<>>
        PROVE  Head(c2p[k]) = IF op.need # None THEN Byte ELSE IF got[k] < sent[k] THEN Length ELSE 0
    <3>1. PICK o \in Objects, need \in {None} \cup 1..Length : op = Reading(k, o, need)
      BY <1>1, <2>3, CallShapes DEF ExchangeInv, CallTypes
    <3>2. op.need = need /\ Taken(k) = IF need # None THEN Room - need ELSE 0
      BY <3>1, CallShapes, ReadingHolds
    <3>3. need # None <=> Taken(k) # 0
      BY <3>2, RoomIsNat
    <3>4. /\ got[k] <= sent[k] /\ sent[k] \in Nat /\ got[k] \in Nat
          /\ Taken(k) # 0 => Head(c2p[k]) = Byte
          /\ Taken(k) = 0 /\ got[k] < sent[k] => Head(c2p[k]) = Length
          /\ Taken(k) = 0 /\ got[k] = sent[k] => Head(c2p[k]) = 0
      BY <2>1, <2>3, FlowHead
    <3> QED
      BY <3>2, <3>3, <3>4
  <2>4. ASSUME child[k].st = "running", child[k].reply = <<>>, ~child[k].eof, p2c[k] # <<>>
        PROVE  Head(p2c[k]) = IF child[k].size = None THEN Length ELSE Byte
    BY <2>1, <2>4, FlowInput
  <2> QED
    BY <2>2, <2>3, <2>4
<1> QED
  BY <1>1, ExchangeInvariant, PTL

(* The guard of a step of the parent's call on k, or of k's own, is open.      *)
Moves(k) ==
  \/ op.call = "write" /\ (op.todo = <<>> \/ ~Alive(k) \/ Len(p2c[k]) < Capacity)
  \/ op.call = "read" /\ c2p[k] # <<>>
  \/ child[k].st = "forked"
  \/ /\ child[k].st = "running" /\ child[k].reply # <<>>
     /\ HasEnd("c2p", k) => Len(c2p[k]) < Capacity
  \/ /\ child[k].st = "running" /\ child[k].reply = <<>>
     /\ child[k].eof \/ p2c[k] # <<>> \/ ~HasEnd("p2c", k)

(* A call that writes to a child, or reads an answer that is due, can always   *)
(* go on, or its child can, but for the two ends that ExchangeReturns excepts. *)
NeverStuck ==
  \A k \in Kids :
    op # Idle /\ op.k = k /\ sent[k] > got[k] =>
      Moves(k) \/ (op.call = "read" /\ AtEof(k)) \/ Clogged(k)

(* Two messages are on the way when both pipes are full.                      *)
LEMMA FlowClogs ==
  ASSUME NEW c, NEW in, NEW out, NEW todo, NEW n, NEW g,
         InFlow(c, in, out, todo, 0, n, g, TRUE),
         c.st = "running", c.reply # <<>>, todo # <<>>
  PROVE  n - g >= 2
<1> DEFINE b == Pos(n, g, 0) + Len(out)
           r == b + Len(c.reply)
<1>1. /\ Counted(n, g, 0) /\ Answers(out, n, Pos(n, g, 0), TRUE)
      /\ in \in Seq(Int) /\ todo \in Seq(Int)
      /\ Echoes(c, n, b, r)
      /\ (\E f \in Nat : r = Start(f)) /\ Messages(in, todo, n, r + Inside(c))
  BY DEF InFlow
<1>2. n \in Nat /\ g \in Nat /\ g <= n /\ Start(n) \in Nat /\ Start(g) \in Nat
  BY <1>1, FlowCounts, Starts DEF Counted
<1>3. Pos(n, g, 0) = Start(g) + 0
  BY <1>2 DEF Pos
<1>4. Len(out) \in Nat /\ Len(c.reply) \in Nat /\ Len(c.reply) >= 1 /\ Len(in) \in Nat /\ Len(todo) \in Nat /\ Len(todo) >= 1
  BY <1>1 DEF Answers, Echoes
<1>5. r > Start(g) /\ r \in Nat
  BY <1>2, <1>3, <1>4
<1> HIDE DEF b, r
<1>6. Inside(c) = 0
  BY <1>1, <1>4 DEF Echoes, Inside
<1>7. r + 0 + Len(in) + Len(todo) = Start(n)
  BY <1>1, <1>6 DEF Messages
<1>8. r < Start(n)
  BY ONLY <1>2, <1>4, <1>5, <1>7
<1>9. PICK f \in Nat : r = Start(f)
  BY <1>1
<1>10. g < f
  BY <1>2, <1>5, <1>9, Apart
<1>11. f < n
  BY <1>2, <1>8, <1>9, Apart
<1> QED
  BY <1>2, <1>10, <1>11

(* With nothing in the pipes and no answer begun, nothing is due.             *)
LEMMA FlowDone ==
  ASSUME NEW c, NEW taken, NEW n, NEW g, NEW open,
         InFlow(c, <<>>, <<>>, <<>>, taken, n, g, open),
         c.st = "running", c.reply = <<>>, ~c.eof
  PROVE  n <= g
<1> DEFINE b == Pos(n, g, taken) + Len(<<>>)
<1>1. /\ b \in Nat /\ Counted(n, g, taken)
      /\ b + Inside(c) + Len(<<>>) + Len(<<>>) = Start(n)
      /\ Inside(c) \in 0..Length
      /\ \E f \in Nat : b = Start(f)
  BY FlowInput
<1>2. PICK f \in Nat : b = Start(f)
  BY <1>1
<1>3. n \in Nat /\ g \in Nat /\ taken \in 0..Length /\ Pos(n, g, taken) \in Nat /\ b = Pos(n, g, taken)
      /\ (g # n + 1 => b = Start(g) + taken)
  BY <1>1, Positions DEF Counted
<1> HIDE DEF b
<1>4. Start(f) + Inside(c) = Start(n)
  <2>1. b \in Nat /\ Inside(c) \in Nat /\ b + Inside(c) + Len(<<>>) + Len(<<>>) = Start(n)
    BY <1>1, RoomIsNat
  <2> QED
    BY <1>2, <2>1
<1>5. Inside(c) = 0
  BY <1>1, <1>3, <1>4, Units
<1>6. Start(f) = Start(n)
  BY <1>4, <1>5, Starts
<1>7. CASE g = n + 1
  BY <1>3, <1>7
<1>8. CASE g # n + 1
  <2>1. Start(g) + taken = Start(n)
    BY <1>2, <1>3, <1>6, <1>8
  <2>2. taken = 0
    BY <1>3, <2>1, Units
  <2> QED
    BY <1>3, <2>1, <2>2, Starts, Apart
<1> QED
  BY <1>7, <1>8

(* The part of ExchangeReturns that is safety: writeExact and readExact and    *)
(* the child never wait for each other, except in readExact at the end of file *)
(* and where both pipes are full with two messages under way.                  *)
THEOREM ExchangeNeverStuck == Spec => []NeverStuck
<1>1. ASSUME OwnInv, ExchangeInv PROVE NeverStuck
  <2> SUFFICES ASSUME NEW k \in Kids, op # Idle, op.k = k, sent[k] > got[k],
                      ~Moves(k), ~(op.call = "read" /\ AtEof(k))
               PROVE  Clogged(k)
    BY DEF NeverStuck
  <2>1. up
    BY <1>1 DEF ExchangeInv, CallTypes
  <2>2. InFlow(child[k], p2c[k], c2p[k], Held(k), Taken(k), sent[k], got[k], Opened(k))
    BY <1>1, <2>1 DEF ExchangeInv, Flow
  <2>3. /\ p2c[k] \in Seq(Int) /\ c2p[k] \in Seq(Int)
        /\ Held(k) # <<>> => Opened(k)
    BY <2>2 DEF InFlow, Answers
  <2>4. Capacity \in Nat /\ Capacity >= 1
    BY ProcessAssumption
  <2>5. Opened(k) => HasEnd("p2c", k)
    BY DEF Opened, HasEnd
  <2>6. sent[k] \in Nat /\ got[k] \in Nat
    BY <2>2, FlowCounts
  <2>7. CASE op.call = "write"
    <3>1. PICK todo \in Seq(Int) : op = Writing(k, todo)
      BY <1>1, <2>7, CallShapes DEF ExchangeInv, CallTypes
    <3>2. op.todo = todo /\ Held(k) = todo /\ Taken(k) = 0
      BY <3>1, CallShapes, WritingHolds
    <3>3. todo # <<>> /\ Alive(k) /\ ~(Len(p2c[k]) < Capacity)
      BY <2>7, <3>2 DEF Moves
    <3>4. child[k].st = "running"
      BY <3>3 DEF Alive, Moves
    <3>5. Opened(k) /\ HasEnd("p2c", k)
      BY <2>3, <2>5, <3>2, <3>3
    <3>6. p2c[k] # <<>>
      BY <2>3, <2>4, <3>3
    <3>7. child[k].reply # <<>> /\ HasEnd("c2p", k) /\ ~(Len(c2p[k]) < Capacity)
      BY <3>4, <3>6 DEF Moves
    <3>8. sent[k] - got[k] >= 2
      <4>1. Opened(k) = TRUE
        BY <3>5 DEF Opened
      <4> QED
        BY <2>2, <3>2, <3>3, <3>4, <3>7, <4>1, FlowClogs
    <3>9. Len(p2c[k]) = Capacity /\ Len(c2p[k]) = Capacity
      <4>1. /\ Len(p2c[k]) <= Capacity /\ Len(c2p[k]) <= Capacity
            /\ Len(p2c[k]) \in Nat /\ Len(c2p[k]) \in Nat
        BY <1>1, <2>1, <2>3 DEF ExchangeInv, Flow, Fits
      <4> QED
        BY <2>4, <3>3, <3>7, <4>1
    <3> QED
      BY <2>7, <3>7, <3>8, <3>9 DEF Clogged
  <2>8. CASE op.call = "read"
    <3>1. PICK o \in Objects, need \in {None} \cup 1..Length : op = Reading(k, o, need)
      BY <1>1, <2>8, CallShapes DEF ExchangeInv, CallTypes
    <3>2. Held(k) = <<>> /\ c2p[k] = <<>>
      BY <2>8, <3>1, ReadingHolds DEF Moves
    <3>3. Alive(k)
      BY <2>8, <3>2 DEF AtEof
    <3>4. child[k].st = "running"
      BY <3>3 DEF Alive, Moves
    <3>5. child[k].reply = <<>>
      <4>1. Len(c2p[k]) < Capacity
        BY <2>4, <3>2
      <4> QED
        BY <3>4, <4>1 DEF Moves
    <3>6. ~child[k].eof /\ p2c[k] = <<>>
      BY <3>4, <3>5 DEF Moves
    <3>7. sent[k] <= got[k]
      BY <2>2, <3>2, <3>4, <3>5, <3>6, FlowDone
    <3> QED
      BY <2>6, <3>7
  <2>9. op.call \in {"write", "read"}
    BY <1>1, CallShapes DEF ExchangeInv, CallTypes
  <2> QED
    BY <2>7, <2>8, <2>9
<1> QED
  BY <1>1, ExchangeInvariant, PTL

-----------------------------------------------------------------------------
(* Children are forked in turn, and one inherits only the ends of the pipes of *)
(* those before it.                                                            *)
HoldsInv ==
  /\ \A k \in Kids : child[k].st # "none" => \A j \in 1..k - 1 : child[j].st # "none"
  /\ \A e \in ends : child[e[2]].st # "none"
  /\ \A h \in Kids : Alive(h) => \A e \in child[h].holds : e[2] \in Kids /\ e[2] < h

LEMMA KidsAreNat == \A k \in Kids : k \in Nat /\ \A j \in 1..k - 1 : j \in Kids
BY ProcessAssumption DEF Kids

LEMMA HoldsInit == Init => HoldsInv
<1> SUFFICES ASSUME Init PROVE HoldsInv
  OBVIOUS
<1>1. \A k \in Kids : child[k].st = "none"
  BY UnbornFields DEF Init
<1>2. ends = {}
  BY DEF Init
<1> QED
  BY <1>1, <1>2 DEF HoldsInv, Alive

LEMMA HoldsQuiet ==
  ASSUME HoldsInv, CallTypes, ends' \subseteq ends,
         \A k \in Kids : /\ child'[k].st = "none" <=> child[k].st = "none"
                         /\ \/ Dead(child'[k])
                            \/ Alive(k) /\ child'[k].holds = child[k].holds
                            \/ child'[k] = child[k]
  PROVE  HoldsInv'
<1>1. \A k \in Kids : child'[k].st # "none" => \A j \in 1..k - 1 : child'[j].st # "none"
  BY KidsAreNat DEF HoldsInv
<1>2. \A e \in ends' : child'[e[2]].st # "none"
  BY DEF HoldsInv, CallTypes
<1>3. \A h \in Kids : Alive(h)' => Alive(h) /\ child'[h].holds = child[h].holds
  BY DEF Alive, Dead
<1> QED
  BY <1>1, <1>2, <1>3 DEF HoldsInv

LEMMA ConstructHolds ==
  ASSUME Types, CallTypes, HoldsInv, NEW o \in Objects, Construct(o)
  PROVE  HoldsInv'
<1>1. PICK k \in Kids :
        /\ child[k].st = "none" /\ \A j \in 1..k - 1 : child[j].st # "none"
        /\ child' = [child EXCEPT ![k].st = "forked",
                                 ![k].holds = Inherited(k),
                                 ![k].mine = {obj[p].m_pid : p \in {p \in Objects : Live(p)}}]
        /\ ends' = ends \cup {<<"p2c", k>>, <<"c2p", k>>}
  BY DEF Construct
<1>2. /\ \A j \in Kids \ {k} : child'[j] = child[j]
      /\ child'[k].st = "forked" /\ child'[k].holds = ends
  BY <1>1 DEF Types, ChildFields, Inherited
<1>3. \A j \in Kids : child[j].st # "none" => j < k
  <2> SUFFICES ASSUME NEW j \in Kids, child[j].st # "none", ~(j < k) PROVE FALSE
    OBVIOUS
  <2>1. j # k /\ j \in Nat /\ k \in Nat /\ k >= 1
    BY <1>1, ProcessAssumption DEF Kids
  <2>2. k \in 1..j - 1
    BY <2>1
  <2> QED
    BY <1>1, <2>2 DEF HoldsInv
<1>4. \A j \in Kids : child'[j].st # "none" => \A i \in 1..j - 1 : child'[i].st # "none"
  <2> SUFFICES ASSUME NEW j \in Kids, child'[j].st # "none", NEW i \in 1..j - 1
               PROVE  child'[i].st # "none"
    OBVIOUS
  <2>1. i \in Kids
    BY KidsAreNat
  <2>2. CASE j = k
    BY <1>1, <1>2, <2>1, <2>2
  <2>3. CASE j # k
    BY <1>2, <2>1, <2>3 DEF HoldsInv
  <2> QED
    BY <2>2, <2>3
<1>5. \A e \in ends : e[2] \in Kids /\ e[2] < k
  BY <1>3 DEF CallTypes, HoldsInv
<1>6. \A e \in ends' : child'[e[2]].st # "none"
  <2> SUFFICES ASSUME NEW e \in ends' PROVE child'[e[2]].st # "none"
    OBVIOUS
  <2>1. CASE e \in ends
    BY <1>1, <1>2, <1>5, <2>1 DEF HoldsInv
  <2>2. CASE e[2] = k
    BY <1>2, <2>2
  <2> QED
    BY <1>1, <2>1, <2>2
<1>7. ASSUME NEW h \in Kids, Alive(h)' PROVE \A e \in child'[h].holds : e[2] \in Kids /\ e[2] < h
  <2>1. CASE h = k
    BY <1>2, <1>5, <2>1
  <2>2. CASE h # k
    BY <1>2, <1>7, <2>2 DEF HoldsInv, Alive
  <2> QED
    BY <2>1, <2>2
<1> QED
  BY <1>4, <1>6, <1>7 DEF HoldsInv

LEMMA TerminatedStatus ==
  ASSUME Types, NEW o \in Objects, NEW c \in Terminated(obj[o].m_pid), NEW k \in Kids
  PROVE  (c[k].st = "none" <=> child[k].st = "none") /\ (c[k] = child[k] \/ Dead(c[k]))
BY TerminatedChildren, TerminatedDead DEF Types

LEMMA HoldsStep == Types /\ CallTypes /\ HoldsInv /\ [Next]_vars => HoldsInv'
<1> SUFFICES ASSUME Types, CallTypes, HoldsInv, [Next]_vars PROVE HoldsInv'
  OBVIOUS
<1>1. ASSUME child' = child, ends' \subseteq ends PROVE HoldsInv'
  BY <1>1, HoldsQuiet
<1>2. ASSUME NEW o \in Objects, child' \in Terminated(obj[o].m_pid), ends' \subseteq ends PROVE HoldsInv'
  BY <1>2, TerminatedStatus, HoldsQuiet
<1>3. ASSUME NEW k \in Kids, ends' = ends, Alive(k),
             \A j \in Kids \ {k} : child'[j] = child[j],
             Dead(child'[k]) \/ (child'[k].st = "running" /\ child'[k].holds = child[k].holds)
      PROVE  HoldsInv'
  BY <1>3, HoldsQuiet DEF Alive, Dead
<1>4. CASE UNCHANGED vars
  BY <1>1, <1>4 DEF vars
<1>5. CASE \E o \in Objects : Construct(o)
  BY <1>5, ConstructHolds
<1>6. CASE \E o \in Objects : ForkFails(o) \/ CloseStdin(o) \/ Close(o) \/ Send(o) \/ Receive(o)
  BY <1>1, <1>6 DEF ForkFails, CloseStdin, Close, Send, Receive, Die
<1>7. CASE \E o \in Objects : Destroy(o) \/ Terminate(o)
  BY <1>1, <1>2, <1>7 DEF Destroy, Terminate, SafeStop, Die
<1>8. CASE \E o, p \in Objects : MoveConstruct(o, p) \/ MoveAssign(o, p)
  BY <1>1, <1>2, <1>8 DEF MoveConstruct, MoveAssign, SafeStop, Die
<1>9. CASE Write \/ Read
  BY <1>1, <1>9 DEF Write, Read, Die
<1>10. ASSUME NEW k \in Kids, ChildStep(k) PROVE HoldsInv'
  <2>1. CASE Exec(k)
    <3>1. /\ \A j \in Kids \ {k} : child'[j] = child[j]
          /\ child'[k].st = "running" /\ child'[k].holds = child[k].holds
      BY <2>1 DEF Exec, Types, ChildFields
    <3> QED
      BY <1>3, <2>1, <3>1 DEF Exec, Alive
  <2>2. CASE ExecFails(k)
    <3>1. \A j \in Kids : (child'[j].st = "none" <=> child[j].st = "none")
                          /\ (child'[j] = child[j] \/ Dead(child'[j]))
      BY <2>2, UnbornFields DEF ExecFails, Dead, Alive
    <3>2. ends' \subseteq ends
      BY <2>2 DEF ExecFails, Die
    <3> QED
      BY <3>1, <3>2, HoldsQuiet
  <2>3. CASE EchoReceive(k)
    <3>1. /\ \A j \in Kids \ {k} : child'[j] = child[j]
          /\ child'[k].st = "running" /\ child'[k].holds = child[k].holds
      BY <2>3 DEF EchoReceive, Types, ChildFields
    <3> QED
      BY <1>3, <2>3, <3>1 DEF EchoReceive, Alive
  <2>4. CASE EchoSend(k)
    <3>1. CASE child' = [child EXCEPT ![k].reply = Tail(@)]
      <4>1. /\ \A j \in Kids \ {k} : child'[j] = child[j]
            /\ child'[k].st = "running" /\ child'[k].holds = child[k].holds
        BY <2>4, <3>1 DEF EchoSend, Types, ChildFields
      <4> QED
        BY <1>3, <2>4, <4>1 DEF EchoSend, Alive
    <3>2. CASE child' = [child EXCEPT ![k] = Ended("pipe")]
      BY <1>3, <2>4, <3>2, UnbornFields DEF EchoSend, Alive, Dead, Types
    <3> QED
      BY <2>4, <3>1, <3>2 DEF EchoSend
  <2>5. CASE EchoEnds(k)
    BY <1>3, <2>5, UnbornFields DEF EchoEnds, Alive, Dead, Types
  <2> QED
    BY <1>10, <2>1, <2>2, <2>3, <2>4, <2>5 DEF ChildStep
<1> QED
  BY <1>4, <1>5, <1>6, <1>7, <1>8, <1>9, <1>10 DEF Next

(* The answers' pipe takes no more than it holds.                              *)
AnswersFit == \A k \in Kids : (\E S : c2p[k] \in Seq(S)) /\ Len(c2p[k]) <= Capacity

LEMMA FitStep == CallTypes /\ AnswersFit /\ [Next]_vars => AnswersFit'
<1> SUFFICES ASSUME CallTypes, AnswersFit, [Next]_vars PROVE AnswersFit'
  OBVIOUS
<1>1. CASE UNCHANGED c2p
  BY <1>1 DEF AnswersFit
<1>2. ASSUME NEW k \in Kids, NEW q, c2p' = [c2p EXCEPT ![k] = q],
             \E S : q \in Seq(S), Len(q) <= Capacity
      PROVE  AnswersFit'
  BY <1>2 DEF AnswersFit, CallTypes
<1>3. Capacity \in Nat
  BY ProcessAssumption
<1>4. CASE Read
  <2>1. PICK k \in Kids : op.k = k
    BY <1>4, CallShapes DEF Read, CallTypes
  <2>2. CASE c2p[k] # <<>> /\ c2p' = [c2p EXCEPT ![k] = Tail(@)]
    <3>1. PICK S : c2p[k] \in Seq(S)
      BY DEF AnswersFit
    <3>2. Len(c2p[k]) <= Capacity
      BY DEF AnswersFit
    <3>3. Tail(c2p[k]) \in Seq(S) /\ Len(Tail(c2p[k])) <= Capacity
      BY <1>3, <2>2, <3>1, <3>2
    <3> QED
      BY <1>2, <2>2, <3>3
  <2> QED
    BY <1>1, <1>4, <2>1, <2>2 DEF Read
<1>5. ASSUME NEW k \in Kids, EchoSend(k) PROVE AnswersFit'
  <2>1. CASE Len(c2p[k]) < Capacity /\ c2p' = [c2p EXCEPT ![k] = Append(@, Head(child[k].reply))]
    <3>1. PICK S : c2p[k] \in Seq(S)
      BY DEF AnswersFit
    <3>2. PICK x : x = Head(child[k].reply)
      OBVIOUS
    <3>3. c2p[k] \in Seq(S \cup {x})
      BY <3>1
    <3>4. Append(c2p[k], x) \in Seq(S \cup {x}) /\ Len(Append(c2p[k], x)) <= Capacity
      BY <1>3, <2>1, <3>3
    <3> QED
      BY <1>2, <2>1, <3>2, <3>4
  <2> QED
    BY <1>1, <1>5, <2>1 DEF EchoSend
<1>6. CASE \E o \in Objects :
             \/ Construct(o) \/ ForkFails(o) \/ Destroy(o) \/ Terminate(o)
             \/ CloseStdin(o) \/ Close(o) \/ Send(o) \/ Receive(o)
  BY <1>1, <1>6 DEF Construct, ForkFails, Destroy, Terminate, CloseStdin, Close, Send, Receive, SafeStop
<1>7. CASE \E o, p \in Objects : MoveConstruct(o, p) \/ MoveAssign(o, p)
  BY <1>1, <1>7 DEF MoveConstruct, MoveAssign, SafeStop
<1>8. CASE Write
  BY <1>1, <1>8 DEF Write
<1>9. ASSUME NEW k \in Kids, ChildStep(k) PROVE AnswersFit'
  BY <1>1, <1>5, <1>9 DEF ChildStep, Exec, ExecFails, EchoReceive, EchoEnds
<1>10. CASE UNCHANGED vars
  BY <1>1, <1>10 DEF vars
<1> QED
  BY <1>4, <1>6, <1>7, <1>8, <1>9, <1>10 DEF Next

(* A child whose stdin is closed can go on to its end, or a child forked after *)
(* it holds that end, or nobody takes its answers.                             *)
ClosedNeverStuck ==
  \A k \in Kids :
    Alive(k) /\ <<"p2c", k>> \notin ends =>
      \/ Moves(k)
      \/ \E h \in Kids : h > k /\ Alive(h) /\ <<"p2c", k>> \in child[h].holds
      \/ child[k].reply # <<>> /\ Len(c2p[k]) = Capacity

(* The part of ClosedStdinEnds that is safety.  A child waits for the end of   *)
(* its input only on children forked later, so that no two of them wait for    *)
(* each other.                                                                 *)
THEOREM ClosedStdinNeverStuck == Spec => []ClosedNeverStuck
<1> DEFINE Inv == OwnInv /\ ExchangeInv /\ HoldsInv /\ AnswersFit
<1>1. Init => Inv
  <2>1. Init => AnswersFit
    BY ProcessAssumption DEF Init, AnswersFit
  <2> QED
    BY <2>1, OwnInit, ExchangeInit, HoldsInit
<1>2. Inv /\ [Next]_vars => Inv'
  BY OwnStep, ExchangeStep, HoldsStep, FitStep DEF OwnInv, ExchangeInv
<1>3. ASSUME Inv PROVE ClosedNeverStuck
  <2> SUFFICES ASSUME NEW k \in Kids, Alive(k), <<"p2c", k>> \notin ends, ~Moves(k),
                      ~(child[k].reply # <<>> /\ Len(c2p[k]) = Capacity)
               PROVE  \E h \in Kids : h > k /\ Alive(h) /\ <<"p2c", k>> \in child[h].holds
    BY DEF ClosedNeverStuck
  <2>1. child[k].st = "running"
    BY DEF Alive, Moves
  <2>2. child[k].reply = <<>>
    <3>1. CASE child[k].reply # <<>>
      <4>1. PICK S : c2p[k] \in Seq(S)
        BY <1>3 DEF AnswersFit
      <4>2. Len(c2p[k]) < Capacity
        BY <1>3, <3>1, <4>1, ProcessAssumption DEF AnswersFit
      <4> QED
        BY <2>1, <3>1, <4>2 DEF Moves
    <3> QED
      BY <3>1
  <2>3. HasEnd("p2c", k)
    BY <2>1, <2>2 DEF Moves
  <2>4. PICK h \in Kids : Alive(h) /\ <<"p2c", k>> \in child[h].holds
    BY <2>3 DEF HasEnd
  <2>5. k < h
    BY <1>3, <2>4 DEF HoldsInv
  <2> QED
    BY <2>4, <2>5, KidsAreNat
<1> HIDE DEF Inv
<1> QED
  BY <1>1, <1>2, <1>3, PTL DEF Spec
=============================================================================
