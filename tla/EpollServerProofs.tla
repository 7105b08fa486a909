-------------------------- MODULE EpollServerProofs --------------------------
(***************************************************************************)
(* The epoll server's sockets: a theorem for any number of peers and         *)
(* descriptors, either callback, and any number of calls it makes; and what  *)
(* can bring the echo server down, for messages of any size.                 *)
(***************************************************************************)
EXTENDS EpollServer, WellFoundedInduction, TLAPS

Fields == {"m_sock_fd", "input"}

(* The element of a descriptor holds it or nothing. *)
Elements ==
  /\ DOMAIN m_connections \subseteq Fds
  /\ \A f \in DOMAIN m_connections :
       /\ DOMAIN m_connections[f] = Fields
       /\ m_connections[f].m_sock_fd \in {f, Closed}
  /\ DOMAIN file = Fds

(* SocketsOwned, its parts. *)
Filed ==
  \A f \in Fds : file[f] # Nobody =>
    f \in DOMAIN m_connections /\ m_connections[f].m_sock_fd = f
Open ==
  \A f \in DOMAIN m_connections : m_connections[f].m_sock_fd = f => file[f] # Nobody
Watched == DOMAIN interest \subseteq Fds /\ \A f \in DOMAIN interest : file[f] # Nobody
Known == DOMAIN batch \ {Listener} \subseteq DOMAIN m_connections

(* The event in hand is that of an element, and the batch has no second one   *)
(* for it: this is why erasing the element leaves none without.               *)
Handling == pc \in {"callback", "echo", "after"}
InHand ==
  Handling => current \in DOMAIN m_connections /\ current \notin DOMAIN batch

SockInv == Elements /\ Filed /\ Open /\ Watched /\ Known /\ InHand

LEMMA Numbers == Listener \notin Fds /\ Closed \notin Fds /\ Fds \subseteq Nat
BY EpollAssumption DEF Listener, Closed

(* The lowest free descriptor is one. *)
LEMMA Lowest ==
  ASSUME NEW S, S \subseteq Nat, S # {}
  PROVE  \E f \in S : \A g \in S : f <= g
<1>1. PICK f \in S : \A g \in S : ~ (<<g, f>> \in OpToRel(<, Nat))
  BY WFMin, NatLessThanWellFounded
<1>2. ASSUME NEW g \in S PROVE f <= g
  <2>1. ~(g < f)
    BY <1>1 DEF OpToRel
  <2> QED
    BY <2>1
<1> QED
  BY <1>2

LEMMA LowestIsFree == FreeFds # {} => LowestFree \in Fds /\ file[LowestFree] = Nobody
<1> SUFFICES ASSUME FreeFds # {} PROVE LowestFree \in FreeFds
  BY DEF FreeFds
<1>1. FreeFds \subseteq Nat
  BY Numbers DEF FreeFds
<1> QED
  BY <1>1, Lowest DEF LowestFree

LEMMA EmptyBatch == DOMAIN <<>> = {}
OBVIOUS

LEMMA SockInit == Init => SockInv
<1> SUFFICES ASSUME Init PROVE SockInv
  OBVIOUS
<1>1. /\ DOMAIN m_connections = {} /\ DOMAIN interest = {} /\ DOMAIN batch = {}
      /\ pc = "run"
      /\ file = [f \in Fds |-> Nobody]
  BY EmptyBatch DEF Init
<1> QED
  BY <1>1 DEF SockInv, Elements, Filed, Open, Watched, Known, Handling, InHand

-----------------------------------------------------------------------------
(* Steps that open and close nothing. *)
LEMMA SameSockets ==
  ASSUME SockInv,
         file' = file,
         DOMAIN m_connections' = DOMAIN m_connections,
         \A f \in DOMAIN m_connections :
           /\ DOMAIN m_connections'[f] = Fields
           /\ m_connections'[f].m_sock_fd = m_connections[f].m_sock_fd,
         DOMAIN interest' \subseteq DOMAIN interest,
         DOMAIN batch' \ {Listener} \subseteq DOMAIN m_connections,
         Handling' => /\ current' \in DOMAIN m_connections
                      /\ current' \notin DOMAIN batch'
  PROVE  SockInv'
<1>1. Elements' /\ Filed' /\ Open'
  BY DEF SockInv, Elements, Filed, Open
<1>2. Watched' /\ Known' /\ InHand'
  BY DEF SockInv, Watched, Known, InHand
<1> QED
  BY <1>1, <1>2 DEF SockInv

(* The usual case: the connections are as they were, and so is the event.     *)
LEMMA SameEvent ==
  ASSUME SockInv, UNCHANGED <<file, m_connections, current>>,
         DOMAIN interest' \subseteq DOMAIN interest,
         DOMAIN batch' \subseteq DOMAIN batch,
         Handling' => Handling
  PROVE  SockInv'
BY SameSockets DEF SockInv, Elements, Known, InHand

(* The socket of one element is closed; the element stays without one, or     *)
(* goes, which it may when no event in the batch names it.                    *)
LEMMA ClosesOne ==
  ASSUME SockInv, NEW f \in DOMAIN m_connections,
         file' = [file EXCEPT ![f] = Nobody],
         interest' = Without(interest, f),
         \A g \in DOMAIN m_connections' :
           g \in DOMAIN m_connections /\ (g # f => m_connections'[g] = m_connections[g]),
         \A g \in DOMAIN m_connections \ {f} : g \in DOMAIN m_connections',
         f \in DOMAIN m_connections' => /\ DOMAIN m_connections'[f] = Fields
                                       /\ m_connections'[f].m_sock_fd = Closed,
         DOMAIN batch' \ {Listener} \subseteq DOMAIN m_connections',
         Handling' => /\ current' \in DOMAIN m_connections'
                      /\ current' \notin DOMAIN batch'
  PROVE  SockInv'
<1> USE Numbers
<1>0. Elements /\ Filed /\ Open /\ Watched
  BY DEF SockInv
<1>1. /\ f \in Fds /\ DOMAIN file' = Fds
      /\ file'[f] = Nobody
      /\ \A g \in Fds \ {f} : file'[g] = file[g]
  BY <1>0 DEF Elements
<1>2. Elements'
  BY <1>0, <1>1 DEF Elements
<1>3. Filed'
  BY <1>0, <1>1 DEF Filed, Elements
<1>4. Open'
  <2>1. ASSUME NEW g \in DOMAIN m_connections', m_connections'[g].m_sock_fd = g
        PROVE  file'[g] # Nobody
    <3>1. g \in Fds /\ g # f
      BY <1>0, <2>1 DEF Elements
    <3> QED
      BY <1>0, <1>1, <2>1, <3>1 DEF Open
  <2> QED
    BY <2>1 DEF Open
<1>5. Watched'
  BY <1>0, <1>1 DEF Watched, Without
<1>6. Known' /\ InHand'
  BY DEF Known, InHand
<1> QED
  BY <1>2, <1>3, <1>4, <1>5, <1>6 DEF SockInv

-----------------------------------------------------------------------------
(* epoll_wait names watched descriptors only, and those are in the map.       *)
LEMMA RunKeeps == SockInv /\ Run => SockInv'
<1> SUFFICES ASSUME SockInv, Run PROVE SockInv'
  OBVIOUS
<1>1. PICK ready : /\ ready \subseteq DOMAIN interest \cup {Listener}
                   /\ DOMAIN batch' = ready
  BY DEF Run
<1>2. DOMAIN batch' \ {Listener} \subseteq DOMAIN m_connections
  BY <1>1 DEF SockInv, Watched, Filed
<1>3. /\ UNCHANGED <<file, m_connections, interest, current>>
      /\ ~Handling'
  BY DEF Run, Handling
<1> QED
  BY <1>2, <1>3, SameSockets DEF SockInv, Elements

LEMMA NextEventKeeps == SockInv /\ NextEvent => SockInv'
<1> SUFFICES ASSUME SockInv, NextEvent PROVE SockInv'
  OBVIOUS
<1>0. UNCHANGED <<file, m_connections, interest>>
  BY DEF NextEvent
<1>1. CASE batch' = batch /\ pc' = "run"
  <2>1. DOMAIN batch' \ {Listener} \subseteq DOMAIN m_connections /\ ~Handling'
    BY <1>1 DEF SockInv, Known, Handling
  <2> QED
    BY <1>0, <2>1, SameSockets DEF SockInv, Elements
<1>2. CASE batch' = Without(batch, Listener) /\ pc' = "accept"
  <2>1. DOMAIN batch' \ {Listener} \subseteq DOMAIN m_connections /\ ~Handling'
    BY <1>2 DEF SockInv, Known, Handling, Without
  <2> QED
    BY <1>0, <2>1, SameSockets DEF SockInv, Elements
<1>3. CASE Terminate
  <2>1. DOMAIN batch' \ {Listener} \subseteq DOMAIN m_connections /\ ~Handling'
    BY <1>3, EmptyBatch DEF Terminate, Handling
  <2> QED
    BY <1>0, <2>1, SameSockets DEF SockInv, Elements
<1>4. CASE \E f \in DOMAIN m_connections :
             batch' = Without(batch, f) /\ current' = f
  <2>1. PICK f \in DOMAIN m_connections : batch' = Without(batch, f) /\ current' = f
    BY <1>4
  <2>2. DOMAIN batch' = DOMAIN batch \ {f}
    BY <2>1 DEF Without
  <2> QED
    BY <1>0, <2>1, <2>2, SameSockets DEF SockInv, Elements, Known
<1> QED
  BY <1>1, <1>2, <1>3, <1>4 DEF NextEvent

(* The lowest free descriptor is no key of the map, or the client is closed   *)
(* again; as a new key it holds its own socket.                               *)
LEMMA AcceptKeeps == ASSUME SockInv, NEW c \in Peers, AcceptClient(c) PROVE SockInv'
<1> USE Numbers
<1>0. ~Handling'
  BY DEF AcceptClient, Handling, Stop, Terminate
<1>1. CASE UNCHANGED <<m_connections, interest, file>>
  <2>1. Stop \/ Terminate
    BY <1>1, LowestIsFree, EpollAssumption DEF AcceptClient, SockInv, Elements
  <2>2. DOMAIN batch' \ {Listener} \subseteq DOMAIN m_connections
    BY <2>1, EmptyBatch DEF Stop, Terminate
  <2> QED
    BY <1>0, <1>1, <2>2, SameSockets DEF SockInv, Elements
<1>2. CASE /\ FreeFds # {}
           /\ LowestFree \notin DOMAIN m_connections
           /\ m_connections' = Put(m_connections, LowestFree, Connection(LowestFree))
           /\ interest' = Put(interest, LowestFree, "in")
           /\ file' = [file EXCEPT ![LowestFree] = c]
           /\ UNCHANGED batch
  <2> DEFINE f == LowestFree
  <2>1. f \in Fds /\ c # Nobody
    BY <1>2, LowestIsFree, EpollAssumption
  <2>2. /\ DOMAIN m_connections' = DOMAIN m_connections \cup {f}
        /\ m_connections'[f] = Connection(f)
        /\ \A g \in DOMAIN m_connections : m_connections'[g] = m_connections[g]
        /\ DOMAIN interest' = DOMAIN interest \cup {f}
    BY <1>2 DEF Put
  <2>3. /\ DOMAIN file' = Fds
        /\ file'[f] = c
        /\ \A g \in Fds \ {f} : file'[g] = file[g]
    BY <1>2, <2>1 DEF SockInv, Elements
  <2>4. DOMAIN Connection(f) = Fields /\ Connection(f).m_sock_fd = f
    BY DEF Connection, Fields
  <2> HIDE DEF f
  <2>5. Elements'
    BY <2>1, <2>2, <2>3, <2>4 DEF SockInv, Elements
  <2>6. Filed'
    BY <2>1, <2>2, <2>3, <2>4 DEF SockInv, Filed
  <2>7. Open'
    BY <2>1, <2>2, <2>3, <2>4 DEF SockInv, Elements, Open
  <2>8. Watched'
    BY <2>1, <2>2, <2>3 DEF SockInv, Watched
  <2>9. Known' /\ InHand'
    BY <1>0, <1>2, <2>2 DEF SockInv, Known, InHand
  <2> QED
    BY <2>5, <2>6, <2>7, <2>8, <2>9 DEF SockInv
<1> QED
  BY <1>1, <1>2 DEF AcceptClient

-----------------------------------------------------------------------------
(* A call of Connection::read. *)
LEMMA ReadKeeps ==
  ASSUME SockInv, Handling, IsOpen, NEW len, Read(len), UNCHANGED <<current, batch>>
  PROVE  SockInv'
<1>0. /\ Elements /\ Known
      /\ current \in DOMAIN m_connections /\ current \notin DOMAIN batch
      /\ m_connections[current].m_sock_fd = current
  BY DEF SockInv, InHand, Elements, IsOpen, Mine
<1>1. CASE UNCHANGED <<m_connections, file, interest>>
  BY <1>0, <1>1, SameSockets DEF Elements, Known
<1>2. CASE /\ \E n : m_connections' = [m_connections EXCEPT ![current].input = n]
           /\ UNCHANGED <<file, interest>>
  <2>1. PICK n : m_connections' = [m_connections EXCEPT ![current].input = n]
    BY <1>2
  <2>2. /\ DOMAIN m_connections' = DOMAIN m_connections
        /\ \A f \in DOMAIN m_connections \ {current} : m_connections'[f] = m_connections[f]
        /\ DOMAIN m_connections'[current] = Fields
        /\ m_connections'[current].m_sock_fd = m_connections[current].m_sock_fd
    BY <1>0, <2>1 DEF Elements, Fields
  <2>3. \A f \in DOMAIN m_connections :
          /\ DOMAIN m_connections'[f] = Fields
          /\ m_connections'[f].m_sock_fd = m_connections[f].m_sock_fd
    BY <1>0, <2>2 DEF Elements
  <2> QED
    BY <1>0, <1>2, <2>2, <2>3, SameSockets DEF Known
<1>3. CASE /\ m_connections' = [m_connections EXCEPT ![current].m_sock_fd = Closed]
           /\ CloseFile(current)
  <2>1. /\ DOMAIN m_connections' = DOMAIN m_connections
        /\ \A f \in DOMAIN m_connections \ {current} : m_connections'[f] = m_connections[f]
        /\ DOMAIN m_connections'[current] = Fields
        /\ m_connections'[current].m_sock_fd = Closed
    BY <1>0, <1>3 DEF Elements, Fields
  <2>2. file' = [file EXCEPT ![current] = Nobody] /\ interest' = Without(interest, current)
    BY <1>3 DEF CloseFile
  <2> QED
    BY <1>0, <2>1, <2>2, ClosesOne DEF Known
<1>4. CASE \E n : m_connections' = [m_connections EXCEPT ![current].input =
                                       IF m_do_handle_client = "echo" THEN @ + n ELSE 0]
  <2>1. PICK n : m_connections' = [m_connections EXCEPT ![current].input =
                                     IF m_do_handle_client = "echo" THEN @ + n ELSE 0]
    BY <1>4
  <2>2. \E k : m_connections' = [m_connections EXCEPT ![current].input = k]
    BY <2>1
  <2> QED
    BY <1>1, <1>2, <1>3, <2>2 DEF Read
<1> QED
  BY <1>1, <1>2, <1>3, <1>4 DEF Read

LEMMA EchoKeeps ==
  ASSUME SockInv, EchoDisconnected \/ EchoRead \/ EchoWrite
  PROVE  SockInv'
<1>0. /\ Handling /\ current' = current
      /\ pc' \in {"after", "echo", "terminated"}
  BY DEF Handling, EchoDisconnected, EchoRead, EchoWrite, Terminate
<1>1. CASE EchoDisconnected
  BY <1>0, <1>1, SameEvent DEF EchoDisconnected
<1>2. CASE EchoRead
  <2>1. CASE ~ReadFails /\ Read(Full - Mine.input) /\ UNCHANGED batch
    BY <1>0, <2>1, ReadKeeps DEF ReadFails
  <2>2. CASE Terminate /\ UNCHANGED <<m_connections, file, interest>>
    <3>1. DOMAIN batch' \subseteq DOMAIN batch
      BY <2>2, EmptyBatch DEF Terminate
    <3> QED
      BY <1>0, <2>2, <3>1, SameEvent
  <2> QED
    BY <1>2, <2>1, <2>2 DEF EchoRead
<1>3. CASE EchoWrite
  <2>1. CASE m_connections' = [m_connections EXCEPT ![current].input = 0] /\ UNCHANGED batch
    <3>1. /\ Elements /\ Known
          /\ current \in DOMAIN m_connections /\ current \notin DOMAIN batch
      BY <1>0 DEF SockInv, InHand
    <3>2. /\ DOMAIN m_connections' = DOMAIN m_connections
          /\ \A f \in DOMAIN m_connections \ {current} : m_connections'[f] = m_connections[f]
          /\ DOMAIN m_connections'[current] = Fields
          /\ m_connections'[current].m_sock_fd = m_connections[current].m_sock_fd
      BY <2>1, <3>1 DEF Elements, Fields
    <3>3. \A f \in DOMAIN m_connections :
            /\ DOMAIN m_connections'[f] = Fields
            /\ m_connections'[f].m_sock_fd = m_connections[f].m_sock_fd
      BY <3>1, <3>2 DEF Elements
    <3>4. UNCHANGED <<file, interest>>
      BY <1>3 DEF EchoWrite
    <3> QED
      BY <1>0, <2>1, <3>1, <3>2, <3>3, <3>4, SameSockets DEF Known
  <2>2. CASE Terminate /\ UNCHANGED m_connections
    <3>1. DOMAIN batch' \subseteq DOMAIN batch
      BY <2>2, EmptyBatch DEF Terminate
    <3> QED
      BY <1>0, <1>3, <2>2, <3>1, SameEvent DEF EchoWrite
  <2> QED
    BY <1>3, <2>1, <2>2 DEF EchoWrite
<1> QED
  BY <1>1, <1>2, <1>3

LEMMA OtherKeeps ==
  ASSUME SockInv, \E len \in 1..Full : OtherRead(len) \/ OtherWrite(len)
  PROVE  SockInv'
<1>1. PICK len : OtherRead(len) \/ OtherWrite(len)
  OBVIOUS
<1>2. Handling /\ current' = current
  BY <1>1 DEF Handling, OtherRead, OtherWrite, OtherStep
<1>3. CASE OtherRead(len)
  <2>1. CASE IsOpen /\ Read(len) /\ UNCHANGED batch
    BY <1>2, <2>1, ReadKeeps
  <2>2. CASE UNCHANGED <<m_connections, interest, batch, file>>
    BY <1>2, <2>2, SameEvent
  <2> QED
    BY <1>3, <2>1, <2>2 DEF OtherRead
<1>4. CASE OtherWrite(len)
  BY <1>2, <1>4, SameEvent DEF OtherWrite
<1> QED
  BY <1>1, <1>3, <1>4

LEMMA ModifyKeeps ==
  ASSUME SockInv, NEW events, ModifyEpoll(events)
  PROVE  SockInv'
<1>1. Handling /\ UNCHANGED <<current, m_connections, file>>
  BY DEF Handling, ModifyEpoll, OtherStep
<1>2. DOMAIN interest' \subseteq DOMAIN interest
  BY DEF ModifyEpoll
<1>3. DOMAIN batch' \subseteq DOMAIN batch
  BY EmptyBatch DEF ModifyEpoll
<1> QED
  BY <1>1, <1>2, <1>3, SameEvent

(* An element goes with its socket. *)
LEMMA HandleKeeps == SockInv /\ HandleClient => SockInv'
<1> SUFFICES ASSUME SockInv, HandleClient PROVE SockInv'
  OBVIOUS
<1>0. /\ Handling /\ ~Handling' /\ batch' = batch
  BY DEF HandleClient, Handling
<1>1. /\ Elements /\ Filed /\ Open /\ Watched /\ Known
      /\ current \in DOMAIN m_connections /\ current \notin DOMAIN batch
  BY <1>0 DEF SockInv, InHand
<1>2. CASE UNCHANGED <<m_connections, file, interest>>
  BY <1>0, <1>1, <1>2, SameSockets DEF Elements, Known
<1>3. CASE m_connections' = Without(m_connections, current)
  <2>1. /\ DOMAIN m_connections' = DOMAIN m_connections \ {current}
        /\ \A f \in DOMAIN m_connections \ {current} : m_connections'[f] = m_connections[f]
    BY <1>3 DEF Without
  <2>2. CASE CloseFile(current)
    <3>1. file' = [file EXCEPT ![current] = Nobody] /\ interest' = Without(interest, current)
      BY <2>2 DEF CloseFile
    <3> QED
      BY <1>0, <1>1, <2>1, <3>1, ClosesOne DEF Known
  <2>3. CASE ~IsOpen /\ UNCHANGED <<file, interest>>
    <3>1. m_connections[current].m_sock_fd = Closed
      BY <2>3 DEF IsOpen, Mine
    <3>2. Elements' /\ Open'
      BY <1>1, <2>1, <2>3 DEF Elements, Open
    <3>3. Filed'
      BY <1>1, <2>1, <2>3, <3>1, Numbers DEF Filed
    <3>4. Watched' /\ Known' /\ InHand'
      BY <1>0, <1>1, <2>1, <2>3 DEF Watched, Known, InHand
    <3> QED
      BY <3>2, <3>3, <3>4 DEF SockInv
  <2> QED
    BY <1>3, <2>2, <2>3, <1>2 DEF HandleClient
<1> QED
  BY <1>2, <1>3 DEF HandleClient

LEMMA SockStep == SockInv /\ [Next]_vars => SockInv'
<1> SUFFICES ASSUME SockInv, [Next]_vars PROVE SockInv'
  OBVIOUS
<1>1. CASE UNCHANGED vars
  BY <1>1, SameEvent DEF vars, serverVars, Handling
<1>2. CASE Environment
  BY <1>2, SameEvent DEF Environment, Connect, Send, Drain, HangUp, serverVars, Handling
<1>3. CASE ServerInit
  <2>1. /\ UNCHANGED <<file, m_connections, batch>> /\ interest' = <<>> /\ ~Handling'
    BY <1>3 DEF ServerInit, Handling
  <2>2. DOMAIN interest' \subseteq DOMAIN interest
    BY <2>1, EmptyBatch
  <2> QED
    BY <2>1, <2>2, SameSockets DEF SockInv, Elements, Known
<1>4. CASE AcceptDone
  BY <1>4, SameEvent DEF AcceptDone, Handling
<1>5. CASE OtherReturn
  BY <1>5, SameEvent DEF OtherReturn, Handling
<1>6. CASE ServerStep
  BY <1>4, <1>5, <1>6, RunKeeps, NextEventKeeps, AcceptKeeps, EchoKeeps, OtherKeeps,
     ModifyKeeps, HandleKeeps DEF ServerStep
<1> QED
  BY <1>1, <1>2, <1>3, <1>6 DEF Next

(* Elements, sockets, the epoll set and the batch agree, always. *)
THEOREM SockInvariant == Spec => []SockInv
BY SockInit, SockStep, PTL DEF Spec

(* Whatever the callback does, however peers come and go and however often     *)
(* run() fails and starts again: an open descriptor belongs to the element     *)
(* under its number, epoll watches open ones only, and no event names an       *)
(* element that is gone.                                                       *)
THEOREM Owned == Spec => []SocketsOwned
<1>1. SockInv => SocketsOwned
  BY DEF SockInv, Filed, Open, Watched, Known, SocketsOwned
<1> QED
  BY <1>1, SockInvariant, PTL
-----------------------------------------------------------------------------
(* The echo server.  What the peers' side looks like, as far as it matters:   *)
(* a peer that is connected has connected.                                    *)
Sides ==
  /\ DOMAIN peer = Peers
  /\ \A c \in Peers :
       /\ DOMAIN peer[c] = {"link", "inbox", "hup", "room", "connects"}
       /\ peer[c].inbox \in Int /\ peer[c].connects \in Nat
       /\ peer[c].link # "off" => peer[c].connects > 0

(* A descriptor has a connected peer, and no two have the same. *)
Linked == \A f \in Fds : file[f] # Nobody => file[f] \in Peers /\ peer[file[f]].link = "open"
Apart == \A f, g \in Fds : file[f] = file[g] /\ file[f] # Nobody => f = g

Whole == \A f \in DOMAIN m_connections : m_connections[f].m_sock_fd = f
Counted == \A f \in DOMAIN m_connections : m_connections[f].input \in Int

(* An event that reports something to read and no end is still true when it   *)
(* is handled, however long ago it was reported: nobody else reads.           *)
Ended(e) == e \cap {"hup", "err", "rdhup"} # {}
Unread(f) == peer[file[f]].inbox > 0
Reads(f, e) == Ended(e) \/ "in" \notin e \/ Unread(f)
Told ==
  /\ \A f \in DOMAIN batch \ {Listener} : Reads(f, batch[f])
  /\ pc = "callback" => Reads(current, event)

(* What has brought the server down. *)
Excused ==
  /\ pc = "terminated" =>
       (\E c \in Peers : peer[c].hup = "rst") \/ (\E c \in LongAddr : peer[c].connects > 0)
  /\ pc = "stopped" /\ listening => FreeFds = {}

Echoing == m_do_handle_client = "echo"
EchoInv == Echoing => Sides /\ Linked /\ Apart /\ Whole /\ Counted /\ Told /\ Excused

LEMMA EchoInit == Init => EchoInv
<1> SUFFICES ASSUME Init PROVE EchoInv
  OBVIOUS
<1>1. /\ DOMAIN m_connections = {} /\ DOMAIN batch = {}
      /\ pc = "run"
      /\ file = [f \in Fds |-> Nobody]
  BY EmptyBatch DEF Init
<1>2. Sides
  BY DEF Init, Sides
<1> QED
  BY <1>1, <1>2 DEF EchoInv, Linked, Apart, Whole, Counted, Told, Excused

(* Every element has its socket, and a peer behind it. *)
LEMMA Held ==
  ASSUME SockInv, EchoInv, Echoing, NEW f \in DOMAIN m_connections
  PROVE  /\ f \in Fds /\ f # Listener /\ m_connections[f].m_sock_fd = f
         /\ DOMAIN m_connections[f] = Fields /\ m_connections[f].input \in Int
         /\ file[f] \in Peers /\ peer[file[f]].link = "open"
BY Numbers DEF SockInv, Elements, Open, EchoInv, Whole, Counted, Linked

(* Steps of the server that leave the connections and the peers alone. *)
LEMMA SameConnections ==
  ASSUME EchoInv, UNCHANGED <<m_do_handle_client, file, m_connections, peer>>,
         Echoing => Told' /\ Excused'
  PROVE  EchoInv'
<1> SUFFICES ASSUME Echoing' PROVE (Sides /\ Linked /\ Apart /\ Whole /\ Counted)'
  BY DEF EchoInv, Echoing
<1> QED
  BY DEF EchoInv, Echoing, Sides, Linked, Apart, Whole, Counted

(* Nor do they lose an event or end anything. *)
LEMMA SameTold ==
  ASSUME EchoInv, UNCHANGED <<m_do_handle_client, file, m_connections, peer>>,
         DOMAIN batch' \subseteq DOMAIN batch,
         \A f \in DOMAIN batch' : batch'[f] = batch[f],
         pc' \notin {"callback", "terminated", "stopped"}
  PROVE  EchoInv'
<1>1. Echoing => Told' /\ Excused'
  BY DEF EchoInv, Told, Reads, Unread, Excused
<1> QED
  BY <1>1, SameConnections

-----------------------------------------------------------------------------
(* A step of a peer: one that a descriptor has stays connected, and what it   *)
(* has sent stays.                                                            *)
LEMMA PeerActs ==
  ASSUME SockInv, EchoInv, UNCHANGED serverVars, Up, NEW c \in Peers, Echoing => Sides',
         \A d \in Peers \ {c} : peer'[d] = peer[d],
         Echoing /\ peer[c].link = "open" =>
           peer'[c].link = "open" /\ (peer[c].inbox > 0 => peer'[c].inbox > 0)
  PROVE  EchoInv'
<1> SUFFICES ASSUME Echoing PROVE EchoInv'
  BY DEF EchoInv, Echoing, serverVars
<1>1. Linked' /\ Apart' /\ Whole' /\ Counted'
  BY DEF EchoInv, serverVars, Linked, Apart, Whole, Counted
<1>2. ASSUME NEW f \in DOMAIN m_connections, Unread(f) PROVE Unread(f)'
  BY <1>2, Held DEF Unread, serverVars
<1>3. Told'
  <2>1. DOMAIN batch \ {Listener} \subseteq DOMAIN m_connections
    BY DEF SockInv, Known
  <2>2. pc = "callback" => current \in DOMAIN m_connections
    BY DEF SockInv, InHand, Handling
  <2> QED
    BY <1>2, <2>1, <2>2 DEF EchoInv, Told, Reads, serverVars
<1>4. Excused'
  BY DEF Excused, Up, serverVars
<1> QED
  BY <1>1, <1>3, <1>4 DEF EchoInv

LEMMA EnvironmentEcho == SockInv /\ EchoInv /\ Environment => EchoInv'
<1> SUFFICES ASSUME SockInv, EchoInv, NEW c \in Peers,
                    \/ Connect(c) \/ Send(c) \/ Drain(c)
                    \/ \E how \in {"fin", "rst"} : HangUp(c, how)
             PROVE  EchoInv'
  BY DEF Environment
<1>0. Up /\ UNCHANGED serverVars
  BY DEF Connect, Send, Drain, HangUp
<1>1. ASSUME Echoing PROVE Sides
  BY <1>1 DEF EchoInv
<1>2. CASE Connect(c)
  <2>1. /\ peer[c].link = "off"
        /\ peer' = [peer EXCEPT ![c] = [link |-> "backlog", inbox |-> 0, hup |-> "no", room |-> Room,
                                        connects |-> peer[c].connects + 1]]
    BY <1>2 DEF Connect
  <2>2. Echoing => Sides'
    BY <1>1, <2>1 DEF Sides
  <2>3. \A d \in Peers \ {c} : peer'[d] = peer[d]
    BY <2>1
  <2> QED
    BY <1>0, <2>1, <2>2, <2>3, PeerActs
<1>3. CASE Send(c)
  <2>1. Echoing => Sides' /\ peer'[c].link = peer[c].link /\ peer'[c].inbox = peer[c].inbox + 1
    BY <1>1, <1>3 DEF Send, Sides
  <2>2. \A d \in Peers \ {c} : peer'[d] = peer[d]
    BY <1>3 DEF Send
  <2>3. Echoing => peer[c].inbox \in Int
    BY <1>1 DEF Sides
  <2> QED
    BY <1>0, <2>1, <2>2, <2>3, PeerActs
<1>4. CASE \/ Drain(c)
           \/ \E how \in {"fin", "rst"} : HangUp(c, how)
  <2>1. PICK q : peer' = [peer EXCEPT ![c] = q]
    BY <1>4 DEF Drain, HangUp
  <2>2. Echoing => Sides' /\ peer'[c].link = peer[c].link /\ peer'[c].inbox = peer[c].inbox
    BY <1>1, <1>4 DEF Drain, HangUp, Sides
  <2>3. \A d \in Peers \ {c} : peer'[d] = peer[d]
    BY <2>1
  <2> QED
    BY <1>0, <2>2, <2>3, PeerActs
<1> QED
  BY <1>2, <1>3, <1>4

-----------------------------------------------------------------------------
(* What is reported is true when it is reported. *)
LEMMA RunEcho == SockInv /\ EchoInv /\ Run => EchoInv'
<1> SUFFICES ASSUME SockInv, EchoInv, Run PROVE EchoInv'
  OBVIOUS
<1>1. UNCHANGED <<m_do_handle_client, file, m_connections, peer>> /\ pc' = "batch"
  BY DEF Run
<1>2. PICK ready : /\ ready \subseteq DOMAIN interest \cup {Listener}
                   /\ batch' = [f \in ready |-> IF f = Listener THEN {"in"} ELSE Reported(f)]
  BY DEF Run
<1>3. ASSUME NEW f PROVE Reads(f, Reported(f))
  BY DEF Reads, Reported, Ended, Unread
<1>4. \A f \in DOMAIN batch' \ {Listener} : batch'[f] = Reported(f)
  BY <1>2
<1>5. Told' /\ Excused'
  BY <1>1, <1>3, <1>4 DEF Told, Reads, Unread, Excused
<1> QED
  BY <1>1, <1>5, SameConnections

(* No event is about an element that is gone. *)
LEMMA NextEventEcho == SockInv /\ EchoInv /\ NextEvent => EchoInv'
<1> SUFFICES ASSUME SockInv, EchoInv, NextEvent PROVE EchoInv'
  OBVIOUS
<1>0. UNCHANGED <<m_do_handle_client, file, m_connections, peer>>
  BY DEF NextEvent
<1>1. CASE batch' = batch /\ pc' = "run"
  BY <1>0, <1>1, SameTold
<1>2. CASE batch' = Without(batch, Listener) /\ pc' = "accept"
  BY <1>0, <1>2, SameTold DEF Without
<1>3. CASE \E f \in DOMAIN batch \ {Listener} :
             /\ pc' = "callback" /\ batch' = Without(batch, f)
             /\ current' = f /\ event' = batch[f]
  <2>1. PICK f \in DOMAIN batch \ {Listener} :
               /\ pc' = "callback" /\ batch' = Without(batch, f)
               /\ current' = f /\ event' = batch[f]
    BY <1>3
  <2>2. \A g \in DOMAIN batch' : g \in DOMAIN batch /\ batch'[g] = batch[g]
    BY <2>1 DEF Without
  <2>3. Echoing => Told' /\ Excused'
    BY <1>0, <2>1, <2>2 DEF EchoInv, Told, Reads, Unread, Excused
  <2> QED
    BY <1>0, <2>3, SameConnections
<1> QED
  BY <1>1, <1>2, <1>3 DEF NextEvent, SockInv, Known

(* A free descriptor is no key of the map. *)
LEMMA AcceptEcho == ASSUME SockInv, EchoInv, NEW c \in Peers, AcceptClient(c) PROVE EchoInv'
<1> USE Numbers
<1> SUFFICES ASSUME Echoing PROVE EchoInv'
  BY DEF AcceptClient, EchoInv, Echoing
<1>0. /\ Sides /\ Linked /\ Apart /\ Whole /\ Counted /\ Told
      /\ peer[c].link = "backlog" /\ pc = "accept"
      /\ UNCHANGED <<m_do_handle_client, listening, current, event>>
  BY DEF EchoInv, AcceptClient, Backlog
<1>1. CASE FreeFds = {} /\ Stop /\ UNCHANGED <<m_connections, interest, file, peer>>
  <2>1. Told' /\ Excused'
    BY <1>0, <1>1, EmptyBatch DEF Told, Excused, Stop, FreeFds
  <2> QED
    BY <1>0, <1>1, <2>1, SameConnections
<1>2. CASE /\ Unprintable(c) /\ Terminate
           /\ peer' = [peer EXCEPT ![c].link = "off"]
           /\ UNCHANGED <<m_connections, file>>
  <2>1. Sides' /\ peer'[c].connects = peer[c].connects
    BY <1>0, <1>2 DEF Sides
  <2>2. Linked' /\ Apart' /\ Whole' /\ Counted'
    BY <1>0, <1>2 DEF Linked, Apart, Whole, Counted
  <2>3. Told' /\ Excused'
    BY <1>0, <1>2, <2>1, EmptyBatch DEF Sides, Told, Excused, Terminate, Unprintable
  <2> QED
    BY <2>1, <2>2, <2>3 DEF EchoInv
<1>3. CASE FreeFds # {} /\ LowestFree \in DOMAIN m_connections
  BY <1>3, Held, LowestIsFree, EpollAssumption
<1>4. CASE /\ FreeFds # {}
           /\ LowestFree \notin DOMAIN m_connections
           /\ m_connections' = Put(m_connections, LowestFree, Connection(LowestFree))
           /\ file' = [file EXCEPT ![LowestFree] = c]
           /\ peer' = [peer EXCEPT ![c].link = "open"]
           /\ UNCHANGED <<pc, batch>>
  <2> DEFINE f == LowestFree
  <2>1. f \in Fds /\ file[f] = Nobody
    BY <1>4, LowestIsFree
  <2>2. /\ DOMAIN m_connections' = DOMAIN m_connections \cup {f}
        /\ m_connections'[f].m_sock_fd = f /\ m_connections'[f].input = 0
        /\ \A g \in DOMAIN m_connections : m_connections'[g] = m_connections[g]
        /\ f \notin DOMAIN m_connections
    BY <1>4 DEF Put, Connection
  <2>3. /\ file'[f] = c
        /\ \A g \in Fds \ {f} : file'[g] = file[g] /\ file[g] # c
    BY <1>0, <1>4, <2>1, EpollAssumption DEF SockInv, Elements, Linked
  <2>4. /\ Sides' /\ peer'[c].link = "open"
        /\ \A d \in Peers \ {c} : peer'[d] = peer[d]
    BY <1>0, <1>4 DEF Sides
  <2> HIDE DEF f
  <2>5. Linked' /\ Apart'
    BY <1>0, <2>1, <2>3, <2>4 DEF Linked, Apart
  <2>6. Whole' /\ Counted'
    BY <1>0, <2>2 DEF Whole, Counted
  <2>7. Told'
    <3>1. ASSUME NEW g \in DOMAIN batch \ {Listener} PROVE Unread(g) => Unread(g)'
      <4>1. g \in DOMAIN m_connections
        BY <3>1 DEF SockInv, Known
      <4>2. g \in Fds /\ g # f /\ file[g] \in Peers
        BY <2>2, <4>1, Held
      <4> QED
        BY <2>3, <2>4, <4>2 DEF Unread
    <3> QED
      BY <1>0, <1>4, <3>1 DEF Told, Reads
  <2>8. Excused'
    BY <1>0, <1>4 DEF Excused
  <2> QED
    BY <2>4, <2>5, <2>6, <2>7, <2>8 DEF EchoInv
<1> QED
  BY <1>1, <1>2, <1>3, <1>4 DEF AcceptClient

-----------------------------------------------------------------------------
(* The echo handler and what follows it: the event in hand changes its own    *)
(* element and its own peer, whom no other descriptor has.                    *)
LEMMA OwnPeer ==
  ASSUME SockInv, EchoInv, Echoing, Handling, NEW g \in Fds \ {current}, file[g] # Nobody
  PROVE  file[g] \in Peers /\ file[g] # file[current]
BY Held DEF SockInv, InHand, EchoInv, Linked, Apart

LEMMA ReadEcho ==
  ASSUME SockInv, EchoInv, Echoing, pc = "callback", ~Ended(event), "in" \in event,
         UNCHANGED <<m_do_handle_client, batch>>, pc' \in {"echo", "after"},
         ~ReadFails, Read(Full - Mine.input)
  PROVE  EchoInv'
<1> DEFINE c == file[current]
<1>0. /\ Sides /\ Linked /\ Apart /\ Whole /\ Counted /\ Told
      /\ current \in DOMAIN m_connections /\ current \notin DOMAIN batch /\ Handling
  BY DEF EchoInv, SockInv, InHand, Handling
<1>1. /\ current \in Fds /\ c \in Peers /\ m_connections[current].m_sock_fd = current
      /\ DOMAIN m_connections[current] = Fields /\ m_connections[current].input \in Int
      /\ peer[c].link = "open"
  BY <1>0, Held
<1>2. peer[c].inbox > 0 /\ peer[c].inbox \in Int
  BY <1>0, <1>1 DEF Told, Reads, Unread, Sides
<1>3. PICK n : /\ n = MinOf(Full - Mine.input, peer[c].inbox)
               /\ m_connections' = [m_connections EXCEPT ![current].input = @ + n]
               /\ peer' = [peer EXCEPT ![c].inbox = @ - n]
               /\ UNCHANGED file
  <2>1. MyPeer = peer[c]
    BY <1>1 DEF MyPeer, Mine
  <2> QED
    BY <1>2, <2>1 DEF Read, Echoing
<1>4. n \in Int
  BY <1>1, <1>2, <1>3, EpollAssumption DEF MinOf, Mine
<1> HIDE DEF c
<1>5. /\ Sides' /\ peer'[c].link = "open"
      /\ \A d \in Peers \ {c} : peer'[d] = peer[d]
  BY <1>0, <1>1, <1>3, <1>4 DEF Sides
<1>6. Linked' /\ Apart'
  BY <1>0, <1>3, <1>5 DEF Linked, Apart
<1>7. /\ DOMAIN m_connections' = DOMAIN m_connections
      /\ \A g \in DOMAIN m_connections \ {current} : m_connections'[g] = m_connections[g]
      /\ m_connections'[current].m_sock_fd = current /\ m_connections'[current].input \in Int
  BY <1>0, <1>1, <1>3, <1>4 DEF Fields
<1>8. Whole' /\ Counted'
  BY <1>0, <1>7 DEF Whole, Counted
<1>9. Told'
  <2>1. ASSUME NEW g \in DOMAIN batch \ {Listener} PROVE Unread(g) => Unread(g)'
    <3>1. g \in DOMAIN m_connections /\ g # current
      BY <1>0, <2>1 DEF SockInv, Known
    <3>2. g \in Fds /\ file[g] \in Peers
      BY <3>1, Held
    <3>3. file[g] # c
      BY <1>0, <3>1, <3>2, OwnPeer, EpollAssumption DEF c
    <3> QED
      BY <1>3, <1>5, <3>2, <3>3 DEF Unread
  <2> QED
    BY <1>0, <2>1 DEF Told, Reads
<1>10. Excused'
  BY DEF Excused
<1> QED
  BY <1>5, <1>6, <1>8, <1>9, <1>10 DEF EchoInv

LEMMA HandlerEcho ==
  ASSUME SockInv, EchoInv, EchoDisconnected \/ EchoRead \/ EchoWrite
  PROVE  EchoInv'
<1> SUFFICES ASSUME Echoing PROVE EchoInv'
  BY DEF EchoDisconnected, EchoRead, EchoWrite, EchoInv, Echoing
<1>0. /\ Handling /\ current \in DOMAIN m_connections
      /\ UNCHANGED <<m_do_handle_client, listening, current, event>>
      /\ Sides /\ Linked /\ Apart /\ Whole /\ Counted /\ Told
  BY DEF EchoInv, SockInv, InHand, Handling, EchoDisconnected, EchoRead, EchoWrite
<1>1. /\ current \in Fds /\ file[current] \in Peers /\ IsOpen /\ MyPeer = peer[file[current]]
      /\ DOMAIN m_connections[current] = Fields
  BY <1>0, Held, Numbers DEF IsOpen, Mine, MyPeer
<1>2. CASE EchoDisconnected
  BY <1>2, SameTold DEF EchoDisconnected
<1>3. CASE Terminate /\ MyPeer.hup = "rst" /\ UNCHANGED <<m_connections, file, peer>>
  <2>1. Told' /\ Excused'
    BY <1>1, <1>3, EmptyBatch DEF Told, Excused, Terminate
  <2> QED
    BY <1>0, <1>3, <2>1, SameConnections
<1>4. CASE EchoRead
  <2>1. ~Ended(event) /\ "in" \in event /\ pc = "callback"
    BY <1>4 DEF EchoRead, Disconnected, Ended
  <2>2. CASE /\ ~ReadFails /\ Read(Full - Mine.input) /\ UNCHANGED batch
             /\ pc' = IF m_connections'[current].input = Full THEN "echo" ELSE "after"
    BY <1>0, <2>1, <2>2, ReadEcho
  <2>3. CASE ReadFails /\ Terminate /\ UNCHANGED <<m_connections, file, peer>>
    BY <1>1, <1>3, <2>3 DEF ReadFails
  <2> QED
    BY <1>4, <2>2, <2>3 DEF EchoRead
<1>5. CASE EchoWrite
  <2>1. CASE /\ WriteTo(Full) /\ UNCHANGED batch /\ pc' = "after"
             /\ m_connections' = [m_connections EXCEPT ![current].input = 0]
    <3>1. /\ UNCHANGED file
          /\ \E r : peer' = [peer EXCEPT ![file[current]].room = r]
      BY <1>0, <1>1, <1>5, <2>1, Held DEF EchoWrite, WriteTo, Mine
    <3>2. /\ Sides'
          /\ \A d \in Peers : peer'[d].link = peer[d].link /\ peer'[d].inbox = peer[d].inbox
      BY <1>0, <1>1, <3>1 DEF Sides
    <3>3. Linked' /\ Apart'
      BY <1>0, <3>1, <3>2 DEF Linked, Apart
    <3>4. /\ DOMAIN m_connections' = DOMAIN m_connections
          /\ \A g \in DOMAIN m_connections \ {current} : m_connections'[g] = m_connections[g]
          /\ m_connections'[current].m_sock_fd = m_connections[current].m_sock_fd
          /\ m_connections'[current].input = 0
      BY <1>0, <1>1, <2>1 DEF Fields
    <3>5. Whole' /\ Counted'
      BY <1>0, <3>4 DEF Whole, Counted
    <3>6. Told'
      <4>1. ASSUME NEW g \in DOMAIN batch \ {Listener} PROVE Unread(g) => Unread(g)'
        <5>1. file[g] \in Peers
          BY <4>1, Held DEF SockInv, Known
        <5> QED
          BY <3>1, <3>2, <5>1 DEF Unread
      <4> QED
        BY <1>0, <2>1, <4>1 DEF Told, Reads
    <3>7. Excused'
      BY <2>1 DEF Excused
    <3> QED
      BY <3>2, <3>3, <3>5, <3>6, <3>7 DEF EchoInv
  <2>2. CASE WriteFails /\ Terminate /\ UNCHANGED <<m_connections, peer>>
    BY <1>1, <1>3, <1>5, <2>2 DEF WriteFails, EchoWrite
  <2> QED
    BY <1>5, <2>1, <2>2 DEF EchoWrite
<1> QED
  BY <1>2, <1>4, <1>5

LEMMA HandleClientEcho == SockInv /\ EchoInv /\ HandleClient => EchoInv'
<1> SUFFICES ASSUME SockInv, EchoInv, HandleClient, Echoing PROVE EchoInv'
  BY DEF HandleClient, EchoInv, Echoing
<1>0. /\ Handling /\ current \in DOMAIN m_connections /\ current \notin DOMAIN batch
      /\ UNCHANGED <<m_do_handle_client, listening, batch>> /\ pc' = "batch"
      /\ Sides /\ Linked /\ Apart /\ Whole /\ Counted /\ Told
  BY DEF EchoInv, SockInv, InHand, Handling, HandleClient
<1>1. /\ current \in Fds /\ file[current] \in Peers /\ IsOpen
  BY <1>0, Held, Numbers DEF IsOpen, Mine
<1>2. CASE UNCHANGED <<m_connections, file, peer>>
  BY <1>0, <1>2, SameTold
<1>3. CASE m_connections' = Without(m_connections, current) /\ CloseFile(current)
  <2>1. /\ DOMAIN m_connections' = DOMAIN m_connections \ {current}
        /\ \A g \in DOMAIN m_connections' : m_connections'[g] = m_connections[g]
    BY <1>3 DEF Without
  <2>2. /\ file'[current] = Nobody
        /\ \A g \in Fds \ {current} : file'[g] = file[g]
    BY <1>1, <1>3 DEF CloseFile, SockInv, Elements
  <2>3. peer' = [peer EXCEPT ![file[current]] = [[peer[file[current]] EXCEPT !.link = "off"]
                                                    EXCEPT !.inbox = 0]]
    BY <1>0, <1>1, <1>3 DEF CloseFile, Sides
  <2>4. Sides' /\ \A d \in Peers \ {file[current]} : peer'[d] = peer[d]
    BY <1>0, <1>1, <2>3 DEF Sides
  <2>5. \A g \in Fds \ {current} :
          file[g] # Nobody => file[g] \in Peers /\ peer'[file[g]] = peer[file[g]]
    BY <1>0, <2>4, OwnPeer
  <2>6. Linked' /\ Apart'
    BY <1>0, <2>2, <2>5 DEF Linked, Apart
  <2>7. Whole' /\ Counted'
    BY <1>0, <2>1 DEF Whole, Counted
  <2>8. Told'
    <3>1. ASSUME NEW g \in DOMAIN batch \ {Listener} PROVE Unread(g) => Unread(g)'
      <4>1. g \in DOMAIN m_connections /\ g # current
        BY <1>0, <3>1 DEF SockInv, Known
      <4>2. g \in Fds /\ file[g] # Nobody
        BY <4>1, Held, EpollAssumption
      <4> QED
        BY <2>2, <2>5, <4>1, <4>2 DEF Unread
    <3> QED
      BY <1>0, <3>1 DEF Told, Reads
  <2>9. Excused'
    BY <1>0 DEF Excused
  <2> QED
    BY <2>4, <2>6, <2>7, <2>8, <2>9 DEF EchoInv
<1> QED
  BY <1>1, <1>2, <1>3 DEF HandleClient

LEMMA EchoStep == SockInv /\ EchoInv /\ [Next]_vars => EchoInv'
<1> SUFFICES ASSUME SockInv, EchoInv, [Next]_vars PROVE EchoInv'
  OBVIOUS
<1>1. CASE UNCHANGED vars
  BY <1>1
     DEF vars, serverVars, EchoInv, Echoing, Sides, Linked, Apart, Whole, Counted, Told, Reads,
         Unread, Excused, FreeFds
<1>2. CASE ServerInit
  <2>1. /\ UNCHANGED <<m_do_handle_client, file, m_connections, batch, peer>>
        /\ pc' \in {"run", "stopped"} /\ (listening' => pc' = "run")
    BY <1>2 DEF ServerInit
  <2>2. Echoing => Told' /\ Excused'
    BY <2>1 DEF EchoInv, Told, Reads, Unread, Excused
  <2> QED
    BY <2>1, <2>2, SameConnections
<1>3. CASE AcceptDone
  BY <1>3, SameTold DEF AcceptDone
<1>4. CASE \/ \E len \in 1..Full : OtherRead(len) \/ OtherWrite(len)
           \/ OtherReturn
           \/ \E events \in {"in", "out"} : ModifyEpoll(events)
  BY <1>4 DEF EchoInv, Echoing, OtherRead, OtherWrite, OtherReturn, ModifyEpoll, OtherStep
<1> QED
  BY <1>1, <1>2, <1>3, <1>4, EnvironmentEcho, RunEcho, NextEventEcho, AcceptEcho, HandlerEcho,
     HandleClientEcho DEF Next, ServerStep

(* While the echo handler serves, every element of the map has its socket, no  *)
(* two have the same peer, and what an event reports is still there to read.   *)
THEOREM EchoInvariant == Spec => []EchoInv
<1>1. Init => SockInv /\ EchoInv
  BY SockInit, EchoInit
<1>2. SockInv /\ EchoInv /\ [Next]_vars => (SockInv /\ EchoInv)'
  BY SockStep, EchoStep
<1> QED
  BY <1>1, <1>2, PTL DEF Spec

(* Only a reset, an address of 15 characters or the lack of a descriptor       *)
(* brings the echo server down, and no element outlives its socket.            *)
THEOREM StaysUp == Spec => []EchoStaysUp
<1>1. EchoInv => EchoStaysUp
  BY DEF EchoInv, Echoing, Whole, Excused, EchoStaysUp
<1> QED
  BY <1>1, EchoInvariant, PTL
=============================================================================
