------------------------------ MODULE TcpProofs ------------------------------
(***************************************************************************)
(* The objects of Tcp keep their sockets: a theorem for any number of       *)
(* objects and descriptors.  The example's client and server stay in step   *)
(* until a timeout parts a message: one for messages of any length.         *)
(***************************************************************************)
EXTENDS Tcp, WellFoundedInduction, TLAPS

Types ==
  /\ obj \in [Objects -> [kind : {"none", "conn", "server"},
                          m_sock_fd : Fds \cup {None},
                          m_opened : BOOLEAN]]
  /\ file \in [Fds -> {"free", "conn", "listen"}]
  /\ orphan \in [Fds -> {"no", "eof", "listen"}]

IsOpened(x) == x.m_opened

(* No object without a kind has a descriptor, and a move assignment forgets   *)
(* the descriptor of a connection only when the end of file has been met.     *)
Forgettable ==
  \A o \in Objects :
    /\ obj[o].kind = "none" => obj[o].m_sock_fd = None
    /\ \A f \in Held(obj[o]) :
         obj[o].kind = "conn" => IsOpened(obj[o]) \/ orphan[f] = "eof"

ObjInv == Types /\ Forgettable /\ SocketsHeld

LEMMA NoneIsNoFd == None \notin Fds
BY TcpAssumption DEF None

(* The lowest free descriptor is one. *)
LEMMA Lowest ==
  ASSUME NEW S, S \subseteq Nat, S # {}
  PROVE  \E f \in S : \A g \in S : f <= g
<1>1. PICK f \in S : \A g \in S : ~ (<<g, f>> \in OpToRel(<, Nat))
  BY WFMin, NatLessThanWellFounded
<1>2. ASSUME NEW g \in S PROVE f <= g
  <2>1. ~(g < f)
    BY <1>1 DEF OpToRel
  <2> QED
    BY <2>1
<1> QED
  BY <1>2

LEMMA NewFdIsFree == FreeFds # {} => NewFd \in Fds /\ file[NewFd] = "free"
<1> SUFFICES ASSUME FreeFds # {} PROVE NewFd \in FreeFds
  BY DEF FreeFds
<1>1. FreeFds \subseteq Nat
  BY TcpAssumption DEF FreeFds
<1> QED
  BY <1>1, Lowest DEF NewFd

LEMMA ObjInvInit == Init => ObjInv
BY DEF Init, ObjInv, Types, Forgettable, SocketsHeld, Nothing, Empty, Held

-----------------------------------------------------------------------------
(* The object o gives up what it holds and is given a socket of its own.      *)
LEMMA Given ==
  ASSUME ObjInv, NEW o \in Objects, NEW f \in FreeFds \cup Held(obj[o]),
         NEW kind \in {"conn", "server"},
         file' = [g \in Fds |-> IF g = f THEN IF kind = "conn" THEN "conn" ELSE "listen"
                                ELSE IF g \in Held(obj[o]) THEN "free" ELSE file[g]],
         orphan' \in [Fds -> {"no", "eof", "listen"}],
         \A g \in Fds \ {f} : orphan'[g] = orphan[g],
         obj' = [obj EXCEPT ![o] = Handle(kind, f)]
  PROVE  ObjInv'
<1> USE NoneIsNoFd DEF ObjInv
<1>0. f \in Fds /\ \A p \in Objects : Held(obj[p]) \subseteq Fds
  BY DEF FreeFds, Types, Held
<1>1. Types'
  BY <1>0 DEF Types, Handle
<1>2. /\ Held(obj'[o]) = {f} /\ obj'[o].kind = kind /\ IsOpened(obj'[o])
      /\ obj'[o].m_sock_fd = f
  BY <1>0 DEF Types, Handle, Held, IsOpened
<1>3. \A p \in Objects \ {o} : obj'[p] = obj[p]
  BY DEF Types
<1>4. \A p \in Objects \ {o} : Held(obj'[p]) = Held(obj[p]) /\ f \notin Held(obj[p])
  <2>1. CASE file[f] = "free"
    BY <1>3, <2>1 DEF SocketsHeld
  <2>2. CASE f \in Held(obj[o])
    BY <1>3, <2>2 DEF SocketsHeld
  <2> QED
    BY <2>1, <2>2 DEF FreeFds
<1>5. /\ file'[f] = IF kind = "conn" THEN "conn" ELSE "listen"
      /\ \A g \in Held(obj[o]) \ {f} : file'[g] = "free"
      /\ \A g \in Fds \ {f} : g \notin Held(obj[o]) => file'[g] = file[g]
  BY <1>0
<1> HIDE DEF ObjInv
<1>6. Types /\ Forgettable /\ SocketsHeld
  BY DEF ObjInv
<1>7. Forgettable'
  <2>1. ASSUME NEW p \in Objects, p # o, NEW g \in Held(obj[p]) PROVE orphan'[g] = orphan[g]
    BY <1>0, <1>4, <2>1
  <2> QED
    BY <1>2, <1>3, <1>4, <1>6, <2>1 DEF Forgettable
<1>8. SocketsHeld'
  <2>1. ASSUME NEW p \in Objects, NEW g \in Held(obj'[p])
        PROVE  /\ file'[g] = IF obj'[p].kind = "conn" THEN "conn" ELSE "listen"
               /\ \A q \in Objects \ {p} : g \notin Held(obj'[q])
    <3>1. CASE p = o
      BY <1>2, <1>4, <1>5, <2>1, <3>1
    <3>2. CASE p # o
      <4>1. g \in Held(obj[p]) /\ g # f /\ g \in Fds
        BY <1>0, <1>4, <2>1, <3>2
      <4>2. /\ file[g] = IF obj[p].kind = "conn" THEN "conn" ELSE "listen"
            /\ \A q \in Objects \ {p} : g \notin Held(obj[q])
        BY <1>6, <4>1 DEF SocketsHeld
      <4>3. file'[g] = file[g]
        BY <1>5, <3>2, <4>1, <4>2
      <4> QED
        BY <1>2, <1>3, <1>4, <3>2, <4>1, <4>2, <4>3
    <3> QED
      BY <3>1, <3>2
  <2>2. ASSUME NEW g \in Fds, file'[g] # "free", orphan'[g] = "no"
        PROVE  \E p \in Objects : g \in Held(obj'[p])
    <3>1. CASE g = f
      BY <1>2, <3>1
    <3>2. CASE g # f
      <4>1. g \notin Held(obj[o])
        BY <1>5, <2>2, <3>2
      <4>2. PICK p \in Objects : g \in Held(obj[p])
        BY <1>5, <1>6, <2>2, <3>2, <4>1 DEF SocketsHeld
      <4> QED
        BY <1>4, <4>1, <4>2
    <3> QED
      BY <3>1, <3>2
  <2> QED
    BY <2>1, <2>2 DEF SocketsHeld
<1> QED
  BY <1>1, <1>7, <1>8 DEF ObjInv

(* The special case of an object that holds nothing. *)
LEMMA GivenNew ==
  ASSUME ObjInv, NEW o \in Objects, obj[o].kind = "none", FreeFds # {},
         NEW kind \in {"conn", "server"},
         file' = [file EXCEPT ![NewFd] = IF kind = "conn" THEN "conn" ELSE "listen"],
         \/ UNCHANGED orphan
         \/ orphan' = [orphan EXCEPT ![NewFd] = "no"],
         obj' = [obj EXCEPT ![o] = Handle(kind, NewFd)]
  PROVE  ObjInv'
<1> DEFINE f == NewFd
<1>1. f \in FreeFds \cup Held(obj[o]) /\ f \in Fds
  BY NewFdIsFree DEF FreeFds
<1>2. Held(obj[o]) = {}
  BY DEF ObjInv, Forgettable, Held
<1>3. Types
  BY DEF ObjInv
<1> HIDE DEF f
<1>4. file' = [file EXCEPT ![f] = IF kind = "conn" THEN "conn" ELSE "listen"]
  BY DEF f
<1>5. /\ orphan' \in [Fds -> {"no", "eof", "listen"}]
      /\ \A g \in Fds \ {f} : orphan'[g] = orphan[g]
  BY <1>3 DEF f, Types
<1>6. file' = [g \in Fds |-> IF g = f THEN IF kind = "conn" THEN "conn" ELSE "listen"
                             ELSE IF g \in Held(obj[o]) THEN "free" ELSE file[g]]
  BY <1>1, <1>2, <1>3, <1>4 DEF Types
<1>7. obj' = [obj EXCEPT ![o] = Handle(kind, f)]
  BY DEF f
<1>8. f \in FreeFds \cup Held(obj[o]) /\ kind \in {"conn", "server"} /\ o \in Objects
  BY <1>1
<1> QED
  BY ONLY ObjInv, <1>5, <1>6, <1>7, <1>8, Given

(* What o holds is closed, and it has nothing. *)
LEMMA Emptied ==
  ASSUME ObjInv, NEW o \in Objects,
         file' = [f \in Fds |-> IF f \in Held(obj[o]) THEN "free" ELSE file[f]],
         orphan' \in [Fds -> {"no", "eof", "listen"}],
         \A f \in Fds : f \notin Held(obj[o]) => orphan'[f] = orphan[f],
         NEW kind \in {"none", "conn", "server"},
         obj' = [obj EXCEPT ![o] = Empty(kind)]
  PROVE  ObjInv'
<1> USE NoneIsNoFd DEF ObjInv
<1>1. Types'
  BY DEF Types, Empty
<1>2. Held(obj'[o]) = {} /\ obj'[o].m_sock_fd = None
  BY DEF Types, Held, Empty
<1>3. \A p \in Objects \ {o} : obj'[p] = obj[p]
  BY DEF Types
<1>4. \A p \in Objects \ {o} : \A f \in Held(obj[p]) : f \notin Held(obj[o]) /\ f \in Fds
  BY DEF SocketsHeld, Types, Held
<1>5. Forgettable'
  <2>1. \A p \in Objects \ {o} : \A f \in Held(obj[p]) : orphan'[f] = orphan[f]
    BY <1>4
  <2>2. Forgettable
    OBVIOUS
  <2> HIDE DEF ObjInv
  <2> QED
    BY <1>2, <1>3, <2>1, <2>2 DEF Forgettable
<1>6. SocketsHeld'
  BY <1>2, <1>3, <1>4 DEF SocketsHeld, Types
<1> QED
  BY <1>1, <1>5, <1>6

(* o is given what p holds; what o held is closed first, if it was opened.    *)
LEMMA Moved ==
  ASSUME ObjInv, NEW o \in Objects, NEW p \in Objects, o # p,
         obj[p].kind = "conn", obj[o].kind \in {"none", "conn"},
         CloseFds(IF obj[o].m_opened THEN Held(obj[o]) ELSE {}),
         obj' = [obj EXCEPT ![o] = obj[p], ![p] = MovedFrom]
  PROVE  ObjInv'
<1> USE NoneIsNoFd DEF ObjInv
<1>1. Types'
  BY DEF Types, CloseFds, MovedFrom, Empty
<1>2. obj'[o] = obj[p] /\ Held(obj'[p]) = {} /\ obj'[p].kind = "conn"
  BY DEF Types, MovedFrom, Empty, Held
<1>3. \A q \in Objects \ {o, p} : obj'[q] = obj[q]
  BY DEF Types
<1>4. \A q \in Objects \ {o} : \A f \in Held(obj[q]) : f \notin Held(obj[o]) /\ f \in Fds
  BY DEF SocketsHeld, Types, Held
<1>5. /\ \A q \in Objects : Held(obj[q]) \subseteq Fds
      /\ Held(obj'[o]) = Held(obj[p])
      /\ \A q \in Objects \ {o, p} : Held(obj'[q]) = Held(obj[q])
  <2>1. \A q \in Objects : Held(obj[q]) \subseteq Fds
    BY DEF Types, Held
  <2> QED
    BY <1>2, <1>3, <2>1
<1>6. \A f \in Fds : f \notin Held(obj[o]) => file'[f] = file[f] /\ orphan'[f] = orphan[f]
  BY DEF CloseFds
<1>7. \A f \in Held(obj[o]) : file'[f] = "free" \/ orphan'[f] = "eof"
  BY <1>5 DEF CloseFds, Forgettable, Types, Held, IsOpened
<1>8. ASSUME NEW q \in Objects, q # o, NEW f \in Held(obj[q])
      PROVE  f \in Fds /\ file'[f] = file[f] /\ orphan'[f] = orphan[f]
  BY <1>4, <1>6, <1>8
<1> HIDE DEF ObjInv
<1>9. Types /\ Forgettable /\ SocketsHeld
  BY DEF ObjInv
<1>10. Forgettable'
  <2>1. ASSUME NEW q \in Objects, obj'[q].kind = "none" PROVE obj'[q].m_sock_fd = None
    BY <1>2, <1>3, <1>9, <2>1 DEF Forgettable
  <2>2. ASSUME NEW q \in Objects, NEW f \in Held(obj'[q]), obj'[q].kind = "conn",
               ~ IsOpened(obj'[q])
        PROVE  orphan'[f] = "eof"
    <3>1. CASE q = o
      <4>1. f \in Held(obj[p]) /\ orphan[f] = "eof"
        BY <1>2, <1>9, <2>2, <3>1 DEF Forgettable
      <4> QED
        BY <1>8, <4>1
    <3>2. CASE q \notin {o, p}
      <4>1. f \in Held(obj[q]) /\ orphan[f] = "eof"
        BY <1>3, <1>9, <2>2, <3>2 DEF Forgettable
      <4> QED
        BY <1>8, <3>2, <4>1
    <3> QED
      BY <1>2, <2>2, <3>1, <3>2
  <2> QED
    BY <2>1, <2>2 DEF Forgettable
<1>11. SocketsHeld'
  <2>1. ASSUME NEW q \in Objects, NEW f \in Held(obj'[q])
        PROVE  /\ file'[f] = IF obj'[q].kind = "conn" THEN "conn" ELSE "listen"
               /\ \A r \in Objects \ {q} : f \notin Held(obj'[r])
    <3>1. CASE q = o
      <4>1. f \in Held(obj[p]) /\ obj'[q].kind = obj[p].kind
        BY <1>2, <2>1, <3>1
      <4>2. /\ file'[f] = IF obj[p].kind = "conn" THEN "conn" ELSE "listen"
            /\ \A r \in Objects \ {p} : f \notin Held(obj[r])
        BY <1>8, <1>9, <4>1 DEF SocketsHeld
      <4> QED
        BY <1>2, <1>5, <3>1, <4>1, <4>2
    <3>2. CASE q \notin {o, p}
      <4>1. f \in Held(obj[q]) /\ obj'[q].kind = obj[q].kind
        BY <1>3, <2>1, <3>2
      <4>2. /\ file'[f] = IF obj[q].kind = "conn" THEN "conn" ELSE "listen"
            /\ \A r \in Objects \ {q} : f \notin Held(obj[r])
        BY <1>8, <1>9, <3>2, <4>1 DEF SocketsHeld
      <4> QED
        BY <1>2, <1>5, <3>2, <4>1, <4>2
    <3> QED
      BY <1>2, <2>1, <3>1, <3>2
  <2>2. ASSUME NEW f \in Fds, file'[f] # "free", orphan'[f] = "no"
        PROVE  \E q \in Objects : f \in Held(obj'[q])
    <3>1. f \notin Held(obj[o])
      BY <1>7, <2>2
    <3>2. PICK q \in Objects : f \in Held(obj[q])
      BY <1>6, <1>9, <2>2, <3>1 DEF SocketsHeld
    <3> QED
      BY <1>5, <3>1, <3>2
  <2> QED
    BY <2>1, <2>2 DEF SocketsHeld
<1> QED
  BY <1>1, <1>10, <1>11 DEF ObjInv

(* readExact at the end of file. *)
LEMMA AtEof ==
  ASSUME ObjInv, NEW o \in Objects, ReadEof(o)
  PROVE  ObjInv'
<1> USE NoneIsNoFd DEF ObjInv
<1> DEFINE f == obj[o].m_sock_fd
<1>1. f \in Fds /\ obj[o].kind = "conn" /\ Held(obj[o]) = {f}
  BY DEF ReadEof, Is, Types, Held
<1>2. /\ orphan' = [orphan EXCEPT ![f] = "eof"] /\ file' = file
      /\ obj' = [obj EXCEPT ![o] = [obj[o] EXCEPT !.m_opened = FALSE]]
  BY DEF ReadEof
<1>3. Types'
  BY <1>1, <1>2 DEF Types
<1>4. obj'[o].kind = obj[o].kind /\ obj'[o].m_sock_fd = f
  BY <1>2 DEF Types
<1>5. \A p \in Objects \ {o} : obj'[p] = obj[p]
  BY <1>2 DEF Types
<1>6. \A p \in Objects : Held(obj'[p]) = Held(obj[p]) /\ obj'[p].kind = obj[p].kind
  BY <1>4, <1>5 DEF Held
<1>7. /\ orphan'[f] = "eof"
      /\ \A g \in Fds \ {f} : orphan'[g] = orphan[g]
      /\ \A p \in Objects \ {o} : f \notin Held(obj[p]) /\ Held(obj[p]) \subseteq Fds
  BY <1>1, <1>2 DEF Types, SocketsHeld, Held
<1>8. Forgettable'
  <2>1. \A p \in Objects \ {o} : \A g \in Held(obj[p]) : orphan'[g] = orphan[g]
    BY <1>7
  <2>2. Forgettable
    OBVIOUS
  <2>3. Held(obj'[o]) = {f} /\ orphan'[f] = "eof" /\ obj'[o].kind # "none"
    BY <1>1, <1>4, <1>6, <1>7
  <2> HIDE DEF ObjInv, f
  <2> QED
    BY <1>5, <2>1, <2>2, <2>3 DEF Forgettable
<1>9. SocketsHeld'
  <2>1. SocketsHeld
    OBVIOUS
  <2>2. file' = file /\ \A g \in Fds : orphan'[g] = "no" => orphan[g] = "no"
    BY <1>2, <1>7
  <2> HIDE DEF ObjInv, f
  <2> QED
    BY <1>6, <2>1, <2>2 DEF SocketsHeld
<1> QED
  BY <1>3, <1>8, <1>9

(* Server's open(). *)
LEMMA Opened ==
  ASSUME ObjInv, NEW o \in Objects, ServerOpen(o)
  PROVE  ObjInv'
<1> DEFINE free == FreeFds \cup Held(obj[o])
           f == CHOOSE x \in free : \A g \in free : x <= g
<1>1. Types
  BY DEF ObjInv
<1>2. orphan' = orphan
  BY DEF ServerOpen
<1>3. ASSUME free # {},
             file' = [g \in Fds |-> IF g = f THEN "listen"
                                    ELSE IF g \in Held(obj[o]) THEN "free" ELSE file[g]],
             obj' = [obj EXCEPT ![o] = Handle("server", f)]
      PROVE  ObjInv'
  <2>1. free \subseteq Nat
    BY <1>1, TcpAssumption DEF FreeFds, Types, Held
  <2>2. f \in free
    <3> HIDE DEF free
    <3> QED
      BY <1>3, <2>1, Lowest
  <2> HIDE DEF f
  <2> QED
    BY <1>1, <1>2, <1>3, <2>2, Given DEF Types
<1>4. ASSUME file' = [g \in Fds |-> IF g \in Held(obj[o]) THEN "free" ELSE file[g]],
             obj' = [obj EXCEPT ![o] = Empty("server")]
      PROVE  ObjInv'
  <2>1. orphan' \in [Fds -> {"no", "eof", "listen"}]
    BY <1>1, <1>2 DEF Types
  <2> QED
    BY ONLY ObjInv, o \in Objects, "server" \in {"none", "conn", "server"},
            <1>2, <1>4, <2>1, Emptied
<1> QED
  BY <1>3, <1>4 DEF ServerOpen

LEMMA ObjInvStep == ObjInv /\ [Next]_vars => ObjInv'
<1> SUFFICES ASSUME ObjInv, [Next]_vars PROVE ObjInv'
  OBVIOUS
<1>0. Types
  BY DEF ObjInv
<1>1. ASSUME NEW o \in Objects, ConnectNew(o) PROVE ObjInv'
  BY <1>1, GivenNew DEF ConnectNew, Is, Opens
<1>2. ASSUME NEW o \in Objects, NEW s \in Objects, Accept(o, s) PROVE ObjInv'
  BY <1>2, GivenNew DEF Accept, Is, Opens
<1>3. ASSUME NEW o \in Objects, NEW p \in Objects, MoveConstruct(o, p) PROVE ObjInv'
  <2>1. Held(obj[o]) = {} /\ o # p
    BY <1>3 DEF MoveConstruct, Is, ObjInv, Forgettable, Held
  <2>2. CloseFds(IF obj[o].m_opened THEN Held(obj[o]) ELSE {})
    BY <1>0, <1>3, <2>1 DEF MoveConstruct, CloseFds, Types
  <2> QED
    BY <1>3, <2>1, <2>2, Moved DEF MoveConstruct, Is
<1>4. ASSUME NEW o \in Objects, NEW p \in Objects, MoveAssign(o, p) PROVE ObjInv'
  BY <1>4, Moved DEF MoveAssign, Is
<1>5. ASSUME NEW o \in Objects, ConnectAgain(o) \/ Close(o) \/ Destroy(o) PROVE ObjInv'
  <2>1. PICK kind \in {"none", "conn", "server"} :
          obj' = [obj EXCEPT ![o] = Empty(kind)]
    BY <1>0, <1>5 DEF ConnectAgain, Close, Destroy, MovedFrom, Nothing, Types
  <2>2. CloseFds(Held(obj[o]))
    BY <1>5 DEF ConnectAgain, Close, Destroy
  <2> QED
    BY <1>0, <2>1, <2>2, Emptied DEF CloseFds, Types
<1>6. ASSUME NEW o \in Objects, ReadEof(o) PROVE ObjInv'
  BY <1>6, AtEof
<1>7. ASSUME NEW o \in Objects, ServerNew(o) PROVE ObjInv'
  <2>1. CASE obj' = [obj EXCEPT ![o] = Handle("server", NewFd)] /\ UNCHANGED orphan
    BY <1>7, <2>1, GivenNew DEF ServerNew, Is
  <2>2. CASE orphan' = [orphan EXCEPT ![NewFd] = "listen"] /\ UNCHANGED obj
    <3>1. /\ NewFd \in Fds /\ file[NewFd] = "free"
          /\ file' = [file EXCEPT ![NewFd] = "listen"]
      BY <1>7, NewFdIsFree DEF ServerNew
    <3>2. \A p \in Objects : NewFd \notin Held(obj[p]) /\ Held(obj[p]) \subseteq Fds
      BY <3>1, NoneIsNoFd DEF ObjInv, SocketsHeld, Types, Held
    <3>3. Types'
      BY <1>0, <2>2, <3>1 DEF Types
    <3>4. \A g \in Fds \ {NewFd} : file'[g] = file[g] /\ orphan'[g] = orphan[g]
      BY <1>0, <2>2, <3>1 DEF Types
    <3>5. Forgettable'
      BY <2>2, <3>2, <3>4 DEF ObjInv, Forgettable
    <3>6. orphan'[NewFd] = "listen"
      BY <1>0, <2>2, <3>1 DEF Types
    <3>7. SocketsHeld'
      BY <2>2, <3>2, <3>4, <3>6 DEF ObjInv, SocketsHeld
    <3> QED
      BY <3>3, <3>5, <3>7 DEF ObjInv
  <2> QED
    BY <1>7, <2>1, <2>2 DEF ServerNew
<1>8. ASSUME NEW o \in Objects, ServerOpen(o) PROVE ObjInv'
  BY <1>8, Opened
<1>9. CASE UNCHANGED objectVars
  BY <1>9 DEF objectVars, ObjInv, Types, Forgettable, SocketsHeld
<1>10. CASE ClientSend \/ ClientReceive \/ ServerStep \/ UNCHANGED vars
  BY <1>9, <1>10
     DEF ClientSend, ClientReceive, ServerStep, ServerReadSize, ServerReadBody,
         ServerAnswer, ServerTimeout, ServerEof, Echo, vars
<1> QED
  BY <1>1, <1>2, <1>3, <1>4, <1>5, <1>6, <1>7, <1>8, <1>10 DEF Next, ObjectStep

THEOREM ObjInvariant == Spec => []ObjInv
BY ObjInvInit, ObjInvStep, PTL DEF Spec

(* Through any sequence of constructions, moves, failures and destructions,   *)
(* what an object holds is open and its own, and an open socket has an object *)
(* unless it met the end of file or a Server's constructor could not listen.  *)
THEOREM Sockets == Spec => []SocketsHeld
BY ObjInvariant, PTL DEF ObjInv
-----------------------------------------------------------------------------
(* The example's exchange.  A message under way is what is left of a frame;   *)
(* the exchange is in one of five places as long as no message was parted.    *)
Bytes(n) == [i \in 1..n |-> Byte]

Silent == server.pc # "body" /\ toServer = <<>> /\ toClient = <<>>
Asked == server.pc # "body" /\ toServer = Frame(Length) /\ toClient = <<>>
Heard ==
  /\ server.pc = "body" /\ server.msg_size = Length /\ server.left \in 0..Length
  /\ toServer = Bytes(server.left) /\ toClient = <<>>
Answered == server.pc # "body" /\ toServer = <<>> /\ toClient = Frame(Length)
Told ==
  /\ server.pc # "body" /\ client.left \in 1..Length
  /\ toServer = <<>> /\ toClient = Bytes(client.left)

Place ==
  /\ client.pc = "idle" => Silent
  /\ client.pc = "size" => Asked \/ Heard \/ Answered
  /\ client.pc = "body" => Told

(* The fields of the two ends, without their values. *)
Ends ==
  /\ DOMAIN server = {"pc", "msg_size", "left", "time_out_counter", "split"}
  /\ DOMAIN client = {"pc", "msg_size", "left", "sent"}

(* A message was parted.  *)
Split == server.split

Fits == client.msg_size = Length /\ client.left <= Length
SyncInv == Ends /\ (~Split => Fits /\ Place)

LEMMA LengthIsNat == Length \in Nat
BY TcpAssumption

LEMMA BytesUnit ==
  ASSUME NEW n \in Nat
  PROVE  /\ Bytes(n) \in Seq({Byte}) /\ Len(Bytes(n)) = n
         /\ n = 0 => Bytes(n) = <<>>
         /\ n > 0 => Bytes(n) # <<>> /\ Head(Bytes(n)) = Byte /\ Tail(Bytes(n)) = Bytes(n - 1)
BY DEF Bytes

LEMMA FrameUnits ==
  ASSUME NEW n \in Nat
  PROVE  Frame(n) # <<>> /\ Head(Frame(n)) = n /\ Tail(Frame(n)) = Bytes(n)
<1>1. /\ <<n>> \in Seq(Int) /\ Len(<<n>>) = 1
      /\ Bytes(n) \in Seq(Int) /\ Len(Bytes(n)) = n
  BY DEF Bytes, Byte
<1>2. Frame(n) = <<n>> \o Bytes(n)
  BY DEF Frame, Bytes
<1>3. Frame(n) \in Seq(Int) /\ Len(Frame(n)) = n + 1 /\ Frame(n)[1] = n
  BY <1>1, <1>2
<1>4. Tail(Frame(n)) \in Seq(Int) /\ Len(Tail(Frame(n))) = n
  BY <1>3
<1>5. \A i \in 1..n : Tail(Frame(n))[i] = Bytes(n)[i]
  BY <1>1, <1>2, <1>3
<1> QED
  BY <1>1, <1>3, <1>4, <1>5

LEMMA FrameAlone == <<>> \o Frame(Length) = Frame(Length)
<1>1. Frame(Length) \in Seq(Int)
  <2>1. <<Length>> \in Seq(Int) /\ Bytes(Length) \in Seq(Int)
    BY LengthIsNat DEF Bytes, Byte
  <2> QED
    BY <2>1 DEF Frame, Bytes
<1> QED
  BY <1>1

LEMMA SyncInit == Init => SyncInv
BY LengthIsNat DEF Init, SyncInv, Ends, Fits, Place, Silent, Split

(* The client's steps. *)
LEMMA SendSync == SyncInv /\ ClientSend => SyncInv'
<1> SUFFICES ASSUME SyncInv, ClientSend PROVE SyncInv'
  OBVIOUS
<1>1. Ends /\ client.pc = "idle" /\ UNCHANGED <<server, toClient>>
  BY DEF SyncInv, ClientSend
<1>2. CASE /\ client' = [client EXCEPT !.pc = "size", !.sent = @ + 1]
           /\ toServer' = toServer \o Frame(Length)
  <2>1. /\ DOMAIN client' = DOMAIN client /\ client'.pc = "size"
        /\ client'.msg_size = client.msg_size /\ client'.left = client.left
    BY <1>1, <1>2 DEF Ends
  <2>2. ~Split => Asked'
    BY <1>1, <1>2, FrameAlone DEF SyncInv, Place, Silent, Asked
  <2> QED
    BY <1>1, <2>1, <2>2 DEF SyncInv, Ends, Fits, Place, Split
<1>3. CASE client' = [client EXCEPT !.pc = "gone"]
  <2>1. /\ DOMAIN client' = DOMAIN client /\ client'.pc = "gone"
        /\ client'.msg_size = client.msg_size /\ client'.left = client.left
    BY <1>1, <1>3 DEF Ends
  <2> QED
    BY <1>1, <2>1 DEF SyncInv, Ends, Fits, Place, Split
<1> QED
  BY <1>2, <1>3 DEF ClientSend

LEMMA ReceiveSync == SyncInv /\ ClientReceive => SyncInv'
<1> SUFFICES ASSUME SyncInv, ClientReceive PROVE SyncInv'
  OBVIOUS
<1>1. Ends /\ client.pc \in {"size", "body"} /\ UNCHANGED <<server, toServer>>
  BY DEF SyncInv, ClientReceive
<1>2. ASSUME NEW left, NEW size, toClient # <<>>, toClient' = Tail(toClient),
             left = IF client.pc = "size" THEN Head(toClient) ELSE client.left - 1,
             size = IF client.pc = "size" THEN Head(toClient) ELSE client.msg_size,
             client' = [client EXCEPT !.pc = IF left = 0 THEN "idle" ELSE "body",
                                      !.left = left, !.msg_size = size]
      PROVE  SyncInv'
  <2>1. /\ DOMAIN client' = DOMAIN client /\ client'.pc = IF left = 0 THEN "idle" ELSE "body"
        /\ client'.msg_size = size /\ client'.left = left
    BY <1>1, <1>2 DEF Ends
  <2>2. CASE client.pc = "size" /\ ~Split
    <3>1. Answered
      BY <1>1, <1>2, <2>2 DEF SyncInv, Place, Asked, Heard
    <3>2. left = Length /\ size = Length /\ toClient' = Bytes(Length)
      BY <1>2, <2>2, <3>1, LengthIsNat, FrameUnits DEF Answered
    <3>3. Fits'
      BY <2>1, <3>2, LengthIsNat DEF Fits
    <3>4. CASE Length = 0
      <4>1. Silent' /\ client'.pc = "idle"
        BY <1>1, <2>1, <3>1, <3>2, <3>4, BytesUnit DEF Answered, Silent
      <4> QED
        BY <1>1, <2>1, <3>3, <4>1 DEF SyncInv, Ends, Place, Split
    <3>5. CASE Length # 0
      <4>1. Told' /\ client'.pc = "body"
        BY <1>1, <2>1, <3>1, <3>2, <3>5, LengthIsNat DEF Answered, Told
      <4> QED
        BY <1>1, <2>1, <3>3, <4>1 DEF SyncInv, Ends, Place, Split
    <3> QED
      BY <3>4, <3>5
  <2>3. CASE client.pc = "body" /\ ~Split
    <3>1. Told /\ Fits
      BY <2>3 DEF SyncInv, Place
    <3>2. /\ client.left \in 1..Length /\ left = client.left - 1 /\ left \in Nat
          /\ size = Length /\ toClient' = Bytes(left)
      BY <1>2, <2>3, <3>1, LengthIsNat, BytesUnit DEF Told, Fits
    <3>3. Fits'
      BY <2>1, <3>2, LengthIsNat DEF Fits
    <3>4. CASE left = 0
      <4>1. Silent' /\ client'.pc = "idle"
        BY <1>1, <2>1, <3>1, <3>2, <3>4, BytesUnit DEF Told, Silent
      <4> QED
        BY <1>1, <2>1, <3>3, <4>1 DEF SyncInv, Ends, Place, Split
    <3>5. CASE left # 0
      <4>1. Told' /\ client'.pc = "body"
        BY <1>1, <2>1, <3>1, <3>2, <3>5, LengthIsNat DEF Told
      <4> QED
        BY <1>1, <2>1, <3>3, <4>1 DEF SyncInv, Ends, Place, Split
    <3> QED
      BY <3>4, <3>5
  <2>4. CASE Split
    BY <1>1, <2>1, <2>4 DEF SyncInv, Ends, Split
  <2> QED
    BY <1>1, <2>2, <2>3, <2>4
<1>3. CASE client' = [client EXCEPT !.pc = "gone"]
  <2>1. /\ DOMAIN client' = DOMAIN client /\ client'.pc = "gone"
        /\ client'.msg_size = client.msg_size /\ client'.left = client.left
    BY <1>1, <1>3 DEF Ends
  <2> QED
    BY <1>1, <2>1 DEF SyncInv, Ends, Fits, Place, Split
<1> QED
  BY <1>2, <1>3 DEF ClientReceive

(* The server's steps. *)
LEMMA ReadSizeSync == SyncInv /\ ServerReadSize => SyncInv'
<1> SUFFICES ASSUME SyncInv, ServerReadSize PROVE SyncInv'
  OBVIOUS
<1>1. /\ Ends /\ server.pc = "size" /\ toServer # <<>> /\ toServer' = Tail(toServer)
      /\ UNCHANGED <<client, toClient>>
  BY DEF SyncInv, ServerReadSize
<1>2. PICK n \in Sizes(Head(toServer)) :
        server' = [server EXCEPT !.pc = IF n = TooLong THEN "terminated" ELSE "body",
                                 !.msg_size = n, !.left = n]
  BY DEF ServerReadSize
<1>3. /\ DOMAIN server' = DOMAIN server /\ server'.split = server.split
      /\ server'.pc = IF n = TooLong THEN "terminated" ELSE "body"
      /\ server'.msg_size = n /\ server'.left = n
  BY <1>1, <1>2 DEF Ends
<1>4. CASE Split
  BY <1>1, <1>3, <1>4 DEF SyncInv, Ends, Split
<1>5. CASE client.pc \in {"idle", "body"} /\ ~Split
  BY <1>1, <1>5 DEF SyncInv, Place, Silent, Told
<1>6. CASE client.pc = "size" /\ ~Split
  <2>1. Asked
    BY <1>1, <1>6 DEF SyncInv, Place, Heard, Answered
  <2>2. n = Length /\ n # TooLong /\ toServer' = Bytes(Length)
    BY <1>1, <1>2, <2>1, LengthIsNat, FrameUnits DEF Asked, Sizes, Byte, TooLong
  <2>3. Heard'
    BY <1>1, <1>3, <2>1, <2>2, LengthIsNat DEF Asked, Heard
  <2> QED
    BY <1>1, <1>3, <1>6, <2>3 DEF SyncInv, Ends, Fits, Place, Split
<1>7. CASE client.pc \notin {"idle", "size", "body"} /\ ~Split
  BY <1>1, <1>3, <1>7 DEF SyncInv, Ends, Fits, Place, Split
<1> QED
  BY <1>4, <1>5, <1>6, <1>7

LEMMA ReadBodySync == SyncInv /\ ServerReadBody => SyncInv'
<1> SUFFICES ASSUME SyncInv, ServerReadBody PROVE SyncInv'
  OBVIOUS
<1>1. /\ Ends /\ server.pc = "body" /\ server.left > 0 /\ toServer # <<>>
      /\ toServer' = Tail(toServer) /\ server' = [server EXCEPT !.left = @ - 1]
      /\ UNCHANGED <<client, toClient>>
  BY DEF SyncInv, ServerReadBody
<1>2. /\ DOMAIN server' = DOMAIN server /\ server'.split = server.split
      /\ server'.pc = "body" /\ server'.msg_size = server.msg_size
      /\ server'.left = server.left - 1
  BY <1>1 DEF Ends
<1>3. ~Split /\ client.pc = "size" => Heard'
  <2> SUFFICES ASSUME ~Split, client.pc = "size" PROVE Heard'
    OBVIOUS
  <2>1. Heard
    BY <1>1 DEF SyncInv, Place, Asked, Answered
  <2>2. server.left \in Nat /\ Tail(Bytes(server.left)) = Bytes(server.left - 1)
    BY <1>1, <2>1, LengthIsNat, BytesUnit DEF Heard
  <2> QED
    BY <1>1, <1>2, <2>1, <2>2, LengthIsNat DEF Heard
<1>4. ~Split => client.pc \notin {"idle", "body"}
  BY <1>1 DEF SyncInv, Place, Silent, Told
<1> QED
  BY <1>1, <1>2, <1>3, <1>4 DEF SyncInv, Ends, Fits, Place, Split

LEMMA AnswerSync == SyncInv /\ ServerAnswer => SyncInv'
<1> SUFFICES ASSUME SyncInv, ServerAnswer PROVE SyncInv'
  OBVIOUS
<1>1. /\ Ends /\ server.pc = "body" /\ server.left = 0 /\ UNCHANGED <<client, toServer>>
  BY DEF SyncInv, ServerAnswer
<1>2. ~Split => client.pc \notin {"idle", "body"}
  BY <1>1 DEF SyncInv, Place, Silent, Told
<1>3. CASE /\ toClient' = toClient \o Frame(server.msg_size)
           /\ server' = [server EXCEPT !.pc = "size"]
  <2>1. DOMAIN server' = DOMAIN server /\ server'.split = server.split /\ server'.pc = "size"
    BY <1>1, <1>3 DEF Ends
  <2>2. ~Split /\ client.pc = "size" => Answered'
    <3> SUFFICES ASSUME ~Split, client.pc = "size" PROVE Answered'
      OBVIOUS
    <3>1. Heard
      BY <1>1 DEF SyncInv, Place, Asked, Answered
    <3>2. toServer = <<>>
      BY <1>1, <3>1, BytesUnit DEF Heard
    <3> QED
      BY <1>1, <1>3, <2>1, <3>1, <3>2, FrameAlone DEF Heard, Answered
  <2> QED
    BY <1>1, <1>2, <2>1, <2>2 DEF SyncInv, Ends, Fits, Place, Split
<1>4. CASE ~ClientUp /\ server' = [server EXCEPT !.pc = "terminated"]
  <2>1. /\ DOMAIN server' = DOMAIN server /\ server'.split = server.split
        /\ client.pc = "gone"
    BY <1>1, <1>4 DEF Ends, ClientUp
  <2> QED
    BY <1>1, <2>1 DEF SyncInv, Ends, Fits, Place, Split
<1> QED
  BY <1>3, <1>4 DEF ServerAnswer

(* An error before the size was read costs nothing; after it, the message.    *)
LEMMA ErrorSync ==
  ASSUME SyncInv, NEW next, next # "body", server' = CountError(next),
         UNCHANGED <<client, toServer, toClient>>
  PROVE  SyncInv'
<1>1. /\ Ends /\ DOMAIN server' = DOMAIN server
      /\ server'.split = (server.split \/ server.pc = "body")
      /\ server'.pc # "body"
  BY DEF SyncInv, Ends, CountError
<1>2. ~Split' => ~Split /\ server.pc # "body"
  BY <1>1 DEF Split
<1>3. ~Split' => Place'
  BY <1>1, <1>2 DEF SyncInv, Place, Silent, Asked, Heard, Answered, Told
<1> QED
  BY <1>1, <1>2, <1>3 DEF SyncInv, Ends, Fits

LEMMA SyncStep == SyncInv /\ [Next]_vars => SyncInv'
<1> SUFFICES ASSUME SyncInv, [Next]_vars PROVE SyncInv'
  OBVIOUS
<1>1. CASE ServerTimeout \/ ServerEof
  BY <1>1, ErrorSync DEF ServerTimeout, ServerEof
<1>2. CASE UNCHANGED echoVars
  BY <1>2 DEF echoVars, SyncInv, Ends, Split, Fits, Place, Silent, Asked, Heard, Answered, Told
<1>3. CASE ObjectStep \/ UNCHANGED vars
  BY <1>2, <1>3
     DEF vars, ObjectStep, Step, ConnectNew, ConnectAgain, Close, Destroy, ReadEof, ServerNew,
         ServerOpen, Accept, MoveConstruct, MoveAssign
<1> QED
  BY <1>1, <1>3, SendSync, ReceiveSync, ReadSizeSync, ReadBodySync, AnswerSync
     DEF Next, ServerStep

(* The example's two ends know at every moment which units are under way, for *)
(* a message of any length, unless a timeout has parted one.                  *)
THEOREM SyncInvariant == Spec => []SyncInv
BY SyncInit, SyncStep, PTL DEF Spec

(* The client is told the size of its own message, and nothing that would      *)
(* overrun its buffer, as long as no timeout has parted a message.             *)
THEOREM Sync == Spec => []InSync
<1>1. SyncInv => InSync
  BY DEF SyncInv, Split, Fits, InSync
<1> QED
  BY <1>1, SyncInvariant, PTL

-----------------------------------------------------------------------------
(* What a call does to the objects it is not made on: nothing.  An object     *)
(* that a step does not change still holds what it held, and that is as open  *)
(* as before, whatever the calls on the others close, forget or open.         *)
OthersUntouched ==
  [][\A o \in Objects : obj'[o] = obj[o] =>
       \A f \in Held(obj[o]) : file'[f] = file[f]]_vars

(* A socket without an object, once lost, is never closed. *)
OnlyOwnersClose ==
  [][\A f \in Fds : file[f] # "free" /\ (\A o \in Objects : f \notin Held(obj[o])) =>
       file'[f] = file[f]]_vars

(* What a step leaves alone: all but what some objects held and what was free. *)
Touches(S) ==
  /\ \A f \in Fds : file'[f] = file[f] \/ file[f] = "free"
                      \/ \E o \in S : f \in Held(obj[o])
  /\ \A f \in Fds, o \in S : f \in Held(obj[o]) /\ obj'[o] = obj[o] => file'[f] = file[f]

LEMMA StepTouches ==
  ASSUME ObjInv, [Next]_vars
  PROVE  \E S \in SUBSET Objects : Touches(S)
<1>0. Types
  BY DEF ObjInv
<1>new. ASSUME FreeFds # {}, NEW kind, Opens(NewFd, kind) \/ file' = [file EXCEPT ![NewFd] = kind]
        PROVE  Touches({})
  BY <1>0, <1>new, NewFdIsFree DEF Types, Opens, Touches
<1>held. ASSUME NEW o \in Objects, CloseFds(Held(obj[o])), obj'[o].m_sock_fd = None
         PROVE  Touches({o})
  BY <1>0, <1>held, NoneIsNoFd DEF Types, CloseFds, Touches, Held
<1>1. ASSUME NEW o \in Objects, ConnectNew(o) \/ ServerNew(o) PROVE Touches({})
  BY <1>1, <1>new DEF ConnectNew, ServerNew
<1>2. ASSUME NEW o \in Objects, NEW s \in Objects, Accept(o, s) PROVE Touches({})
  BY <1>2, <1>new DEF Accept
<1>3. ASSUME NEW o \in Objects, NEW p \in Objects, MoveConstruct(o, p) PROVE Touches({})
  BY <1>3 DEF MoveConstruct, Touches
<1>4. ASSUME NEW o \in Objects, NEW p \in Objects, MoveAssign(o, p) PROVE Touches({o})
  <2>1. o # p /\ obj'[o] = obj[p]
    BY <1>0, <1>4 DEF MoveAssign, Types
  <2>2. \A f \in Held(obj[o]) : f \notin Held(obj[p])
    BY <2>1 DEF ObjInv, SocketsHeld
  <2>3. obj'[o] = obj[o] => Held(obj[o]) = {}
    BY <2>1, <2>2
  <2>4. \A f \in Fds : file'[f] = file[f] \/ f \in Held(obj[o])
    BY <1>4 DEF MoveAssign, CloseFds
  <2> QED
    BY <2>3, <2>4 DEF Touches
<1>5. ASSUME NEW o \in Objects, ConnectAgain(o) \/ Close(o) \/ Destroy(o) PROVE Touches({o})
  <2>1. CloseFds(Held(obj[o])) /\ obj'[o].m_sock_fd = None
    BY <1>0, <1>5 DEF ConnectAgain, Close, Destroy, MovedFrom, Nothing, Empty, Types
  <2> QED
    BY <1>held, <2>1
<1>6. ASSUME NEW o \in Objects, ReadEof(o) PROVE Touches({})
  BY <1>6 DEF ReadEof, Touches
<1>7. ASSUME NEW o \in Objects, ServerOpen(o) PROVE Touches({o})
  <2>1. PICK free : free = FreeFds \cup Held(obj[o])
    OBVIOUS
  <2>2. PICK f : f = CHOOSE x \in free : \A g \in free : x <= g
    OBVIOUS
  <2>3. free \subseteq Fds /\ free \subseteq Nat
    BY <1>0, <2>1, TcpAssumption DEF FreeFds, Held, Types
  <2>4. CASE /\ free # {}
             /\ file' = [g \in Fds |-> IF g = f THEN "listen"
                                       ELSE IF g \in Held(obj[o]) THEN "free" ELSE file[g]]
             /\ obj' = [obj EXCEPT ![o] = Handle("server", f)]
    <3>1. f \in free
      BY <2>2, <2>3, <2>4, Lowest
    <3>2. obj'[o].m_sock_fd = f
      BY <1>0, <2>4 DEF Handle, Types
    <3>3. obj[o].kind = "server"
      BY <1>7 DEF ServerOpen, Is
    <3>4. \A g \in Fds : g \in Held(obj[o]) /\ obj'[o] = obj[o] => g = f /\ file[g] = "listen"
      BY <3>2, <3>3 DEF Held, ObjInv, SocketsHeld
    <3>5. \A g \in Fds : file'[g] = file[g] \/ file[g] = "free" \/ g \in Held(obj[o])
      BY <2>1, <2>4, <3>1 DEF FreeFds
    <3>6. \A g \in Fds : g = f => file'[g] = "listen"
      BY <2>4
    <3> QED
      BY <3>4, <3>5, <3>6 DEF Touches
  <2>5. CASE /\ file' = [g \in Fds |-> IF g \in Held(obj[o]) THEN "free" ELSE file[g]]
             /\ obj' = [obj EXCEPT ![o] = Empty("server")]
    <3>1. obj'[o].m_sock_fd = None
      BY <1>0, <2>5 DEF Empty, Types
    <3> QED
      BY <2>5, <3>1, NoneIsNoFd DEF Touches, Held
  <2> QED
    BY <1>7, <2>1, <2>2, <2>4, <2>5 DEF ServerOpen
<1>8. CASE ClientSend \/ ClientReceive \/ ServerStep \/ UNCHANGED vars
  <2>1. UNCHANGED file
    BY <1>8 DEF ClientSend, ClientReceive, ServerStep, ServerReadSize, ServerReadBody,
                ServerAnswer, ServerTimeout, ServerEof, Echo, objectVars, vars
  <2> QED
    BY <2>1 DEF Touches
<1> QED
  BY <1>1, <1>2, <1>3, <1>4, <1>5, <1>6, <1>7, <1>8 DEF Next, ObjectStep

(* connect, close, listen and the move operations of an object reach no        *)
(* socket of another, although a descriptor that is given up comes back at    *)
(* once as the lowest free one.                                               *)
THEOREM Untouched == Spec => OthersUntouched
<1> DEFINE A == \A o \in Objects : obj'[o] = obj[o] =>
                  \A f \in Held(obj[o]) : file'[f] = file[f]
<1>1. ASSUME ObjInv, [Next]_vars, NEW o \in Objects, obj'[o] = obj[o], NEW f \in Held(obj[o])
      PROVE  file'[f] = file[f]
  <2>1. PICK S \in SUBSET Objects : Touches(S)
    BY <1>1, StepTouches
  <2>2. f \in Fds /\ file[f] # "free" /\ \A p \in Objects : f \in Held(obj[p]) => p = o
    BY <1>1 DEF ObjInv, Types, SocketsHeld, Held
  <2> QED
    BY <1>1, <2>1, <2>2 DEF Touches
<1>2. ObjInv /\ [Next]_vars => A
  BY <1>1
<1> HIDE DEF A
<1>3. Spec => [][A]_vars
  BY <1>2, ObjInvariant, PTL DEF Spec
<1> QED
  BY <1>3 DEF A, OthersUntouched

(* The socket that a move assignment has forgotten after the end of file, and  *)
(* the one a Server's constructor has left, stay open until the program ends. *)
THEOREM Leaked == Spec => OnlyOwnersClose
<1> DEFINE A == \A f \in Fds : file[f] # "free" /\ (\A o \in Objects : f \notin Held(obj[o])) =>
                  file'[f] = file[f]
<1>1. ObjInv /\ [Next]_vars => A
  BY StepTouches DEF Touches
<1> HIDE DEF A
<1>2. Spec => [][A]_vars
  BY <1>1, ObjInvariant, PTL DEF Spec
<1> QED
  BY <1>2 DEF A, OnlyOwnersClose

-----------------------------------------------------------------------------
(* A client that waits is waited for by nobody.  As long as no message was    *)
(* parted there is something for one of the two to read, or an answer due;    *)
(* after that a timeout may be what it takes, and the server has one left.    *)
EchoNeverStuck ==
  client.pc \in {"size", "body"} =>
    /\ program = "echo"
    /\ \/ toClient # <<>> \/ ~ServerUp
       \/ toServer # <<>> /\ Waits
       \/ server.pc = "body" /\ server.left = 0
       \/ server.split /\ Waits /\ server.time_out_counter <= MaxTimeouts

(* The server, and what it is sent, whether in step or not.  The last of the  *)
(* errors it survives has left it one more to end on.                         *)
ServerInv ==
  /\ toServer \in Seq({Byte, Length})
  /\ server.pc = "body" => server.left \in Nat
  /\ server.time_out_counter \in 0..MaxTimeouts + 1
  /\ ServerUp => server.time_out_counter <= MaxTimeouts
  /\ client.pc # "idle" => program = "echo"

LEMMA FrameType == Frame(Length) \in Seq({Byte, Length})
<1>1. <<Length>> \in Seq({Byte, Length}) /\ Bytes(Length) \in Seq({Byte, Length})
  BY LengthIsNat DEF Bytes
<1> QED
  BY <1>1 DEF Frame, Bytes

LEMMA ServerInit == Init => ServerInv
BY TcpAssumption DEF Init, ServerInv

(* What is read next is a size or a byte. *)
LEMMA UnitRead ==
  ASSUME NEW s \in Seq({Byte, Length}), s # <<>>
  PROVE  Head(s) \in {Byte, Length} /\ Tail(s) \in Seq({Byte, Length})
OBVIOUS

LEMMA ServerInvStep == SyncInv /\ ServerInv /\ [Next]_vars => ServerInv'
<1> SUFFICES ASSUME SyncInv, ServerInv, [Next]_vars PROVE ServerInv'
  OBVIOUS
<1>0. /\ DOMAIN server = {"pc", "msg_size", "left", "time_out_counter", "split"}
      /\ DOMAIN client = {"pc", "msg_size", "left", "sent"}
      /\ MaxTimeouts \in Nat
  BY TcpAssumption DEF SyncInv, Ends
<1>1. CASE ClientSend
  <2>1. toServer' \in Seq({Byte, Length})
    <3>1. toServer' = toServer \/ toServer' = toServer \o Frame(Length)
      BY <1>1 DEF ClientSend
    <3>2. PICK units : units = Frame(Length)
      OBVIOUS
    <3>3. units \in Seq({Byte, Length}) /\ toServer \in Seq({Byte, Length})
      BY <3>2, FrameType DEF ServerInv
    <3>4. toServer \o units \in Seq({Byte, Length})
      BY ONLY <3>3
    <3> QED
      BY ONLY <3>1, <3>2, <3>3, <3>4
  <2>2. server' = server /\ program' = program /\ program = "echo"
    BY <1>1 DEF ClientSend, Echo
  <2> QED
    BY <2>1, <2>2 DEF ServerInv, ServerUp
<1>2. CASE ClientReceive
  BY <1>2 DEF ClientReceive, Echo, ServerInv, ServerUp
<1>3. CASE ServerReadSize
  <2>1. toServer' \in Seq({Byte, Length}) /\ Head(toServer) \in {Byte, Length}
    BY <1>3, UnitRead DEF ServerReadSize, ServerInv
  <2>2. PICK n \in Sizes(Head(toServer)) :
          server' = [server EXCEPT !.pc = IF n = TooLong THEN "terminated" ELSE "body",
                                   !.msg_size = n, !.left = n]
    BY <1>3 DEF ServerReadSize
  <2>3. n = TooLong \/ n \in Nat
    BY <2>1, LengthIsNat, TcpAssumption DEF Sizes
  <2>4. server'.left = n /\ server'.pc = (IF n = TooLong THEN "terminated" ELSE "body")
        /\ server'.time_out_counter = server.time_out_counter
    BY <1>0, <2>2
  <2>5. UNCHANGED <<client, program>> /\ ServerUp
    BY <1>3 DEF ServerReadSize, Echo, ServerUp
  <2> QED
    BY <2>1, <2>3, <2>4, <2>5 DEF ServerInv, ServerUp
<1>4. CASE ServerReadBody
  <2>1. toServer' \in Seq({Byte, Length})
    BY <1>4, UnitRead DEF ServerReadBody, ServerInv
  <2>2. /\ server'.pc = server.pc /\ server'.time_out_counter = server.time_out_counter
        /\ server'.left = server.left - 1 /\ server.left > 0 /\ server.pc = "body"
        /\ UNCHANGED <<client, program>>
    BY <1>0, <1>4 DEF ServerReadBody, Echo
  <2>3. server'.left \in Nat
    BY <2>2 DEF ServerInv
  <2> QED
    BY <2>1, <2>2, <2>3 DEF ServerInv, ServerUp
<1>5. CASE ServerAnswer
  <2>1. /\ server'.pc \in {"size", "terminated"} /\ server.pc = "body"
        /\ server'.time_out_counter = server.time_out_counter
        /\ UNCHANGED <<client, program, toServer>>
    BY <1>0, <1>5 DEF ServerAnswer, Echo
  <2> QED
    BY <2>1 DEF ServerInv, ServerUp
<1>6. CASE ServerTimeout \/ ServerEof
  <2>1. PICK next \in {"size", "done"} : server' = CountError(next)
    BY <1>6 DEF ServerTimeout, ServerEof
  <2>2. UNCHANGED <<client, program, toServer>> /\ ServerUp
    BY <1>6 DEF ServerTimeout, ServerEof, Echo, Waits, ServerUp
  <2>3. /\ server'.pc = (IF server.time_out_counter >= MaxTimeouts THEN "terminated" ELSE next)
        /\ server'.time_out_counter = server.time_out_counter + 1
    BY <1>0, <2>1 DEF CountError
  <2>4. server.time_out_counter \in Nat /\ server.time_out_counter <= MaxTimeouts
    BY <1>0, <2>2 DEF ServerInv
  <2>5. server'.time_out_counter \in 0..MaxTimeouts + 1
    BY <1>0, <2>3, <2>4
  <2>6. server'.pc \in {"size", "body"} => server'.time_out_counter <= MaxTimeouts
    BY <1>0, <2>3, <2>4
  <2>7. server'.pc # "body"
    BY <2>3
  <2> QED
    BY <2>2, <2>5, <2>6, <2>7 DEF ServerInv, ServerUp
<1>7. CASE ObjectStep \/ UNCHANGED vars
  <2>1. UNCHANGED <<program, server, client, toServer>>
    BY <1>7
       DEF vars, echoVars, ObjectStep, Step, ConnectNew, ConnectAgain, Close, Destroy, ReadEof,
           ServerNew, ServerOpen, Accept, MoveConstruct, MoveAssign
  <2> QED
    BY <2>1 DEF ServerInv, ServerUp
<1> QED
  BY <1>1, <1>2, <1>3, <1>4, <1>5, <1>6, <1>7 DEF Next, ServerStep

(* A client that waits for its answer gets it or learns that there is none:   *)
(* its own, the server's or the timeout's step is always there to be taken.   *)
THEOREM EchoGoesOn == Spec => []EchoNeverStuck
<1>1. ASSUME SyncInv, ServerInv, client.pc \in {"size", "body"}, toClient = <<>>, ServerUp
      PROVE  /\ program = "echo"
             /\ \/ toServer # <<>> /\ Waits
                \/ server.pc = "body" /\ server.left = 0
                \/ server.split /\ Waits /\ server.time_out_counter <= MaxTimeouts
  <2>1. program = "echo" /\ server.time_out_counter <= MaxTimeouts
    BY <1>1 DEF ServerInv
  <2>2. Waits \/ (server.pc = "body" /\ server.left = 0)
    <3>1. server.pc \in {"size", "body"}
      BY <1>1 DEF ServerUp
    <3>2. server.pc = "body" => server.left = 0 \/ server.left > 0
      BY <1>1 DEF ServerInv
    <3> QED
      BY <3>1, <3>2 DEF Waits
  <2>3. ASSUME ~server.split, server.pc # "body" \/ server.left # 0 PROVE toServer # <<>>
    <3>1. Place
      BY <1>1, <2>3 DEF SyncInv, Split
    <3>2. ~Told
      <4>1. ASSUME NEW n \in 1..Length PROVE Bytes(n) # <<>>
        BY <4>1, BytesUnit, LengthIsNat
      <4> QED
        BY <1>1, <4>1 DEF Told
    <3>3. ~Answered
      BY <1>1, FrameUnits, LengthIsNat DEF Answered
    <3>4. Asked \/ Heard
      BY <1>1, <3>1, <3>2, <3>3 DEF Place
    <3>5. Asked => toServer # <<>>
      BY FrameUnits, LengthIsNat DEF Asked
    <3>6. ASSUME Heard PROVE toServer # <<>>
      <4>1. PICK n : n = server.left
        OBVIOUS
      <4>2. n \in Nat /\ n > 0 /\ toServer = Bytes(n)
        BY <2>3, <3>6, <4>1, LengthIsNat DEF Heard
      <4> QED
        BY <4>2, BytesUnit
    <3> QED
      BY <3>4, <3>5, <3>6
  <2> QED
    BY <2>1, <2>2, <2>3
<1>2. SyncInv /\ ServerInv => EchoNeverStuck
  BY <1>1 DEF EchoNeverStuck, ServerInv
<1> QED
  BY <1>2, SyncInvariant, ServerInit, ServerInvStep, PTL DEF Spec
=============================================================================
