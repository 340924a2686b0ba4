------------------------- MODULE CoordinatorProofs --------------------------
(***************************************************************************)
(* What the session layer of Coordinator promises, for any number of       *)
(* clients, sessions, requests in flight and cells a socket takes.         *)
(***************************************************************************)
EXTENDS Coordinator, FiniteSetTheorems, SequenceTheorems, WellFoundedInduction, TLAPS

-----------------------------------------------------------------------------
(* The invariant *)

Message == [id: Nat, op: Request, floor: Nat, generation: Nat]

Cell == [of: Message, part: {1, 2}]

\* Cells of requests, which were asked for at most the generations there are.
Asking(g) == {x \in Cell : x.of.floor <= g}

\* Cells of replies, which tell of no generation there is not, and of all
\* that the request had in mind.
Answering(g) ==
  {x \in Cell : /\ x.of.generation <= g
                /\ x.of.op = "describe" => x.of.floor <= x.of.generation}

Connection(g) ==
  [phase: {"none", "backlog", "open", "gone", "closed"},
   up: Seq(Asking(g)), down: Seq(Answering(g)), waiting: Seq(Nat),
   part: {0, 1}, next: Nat]

Session(g) ==
  [used: BOOLEAN, client: Clients \cup {NoClient},
   inbound: Seq(Asking(g)), outbound: Seq(Answering(g)), idle: Nat]

Places ==
  {"pass", "accept", "flush", "frames", "receive", "reap", "returned", "drain",
   "closed", "stopped"}

Typed ==
  /\ conn \in [Clients -> Connection(generations)]
  /\ backlog \in Seq(Clients)
  /\ session \in [Slots -> Session(generations)]
  /\ listening \in BOOLEAN /\ stop_requested \in BOOLEAN /\ stopped \in BOOLEAN
  /\ pc \in Places
  /\ current \in Nat /\ processed \in Nat /\ drain \in Nat
  /\ generations \in Nat /\ retired \in BOOLEAN /\ told \in Nat /\ told <= generations

\* The connections not accepted yet are distinct and hold no reply.
Queue ==
  /\ \A i, j \in 1..Len(backlog) : backlog[i] = backlog[j] => i = j
  /\ \A i \in 1..Len(backlog) : conn[backlog[i]].phase \in {"backlog", "gone"}
  /\ \A c \in Clients : conn[c].phase = "backlog" =>
       conn[c].down = <<>> /\ conn[c].part = 0

\* BuffersBounded with what it rests on: no frame is looked at before
\* everything queued is written, and a socket takes no more than it can.
Buffers ==
  /\ BuffersBounded
  /\ \A c \in Clients : Len(conn[c].down) <= SocketCells
  /\ pc \in {"frames", "receive"} => session[current].outbound = <<>>

SessionInv == Typed /\ SlotsMatchConnections /\ Queue /\ Buffers

\* Cell i of what is between a client and its session is for the request it
\* waits for at place (i + part + 1) \div 2: the header first, then the body.
Fits(cells, waiting, part) ==
  /\ Len(cells) <= 2 * Len(waiting) - part
  /\ \A i \in 1..Len(cells) :
       /\ cells[i].of.id = waiting[(i + part + 1) \div 2]
       /\ cells[i].part = IF (i + part) % 2 = 1 THEN 1 ELSE 2

Full(cells, waiting, part) ==
  Fits(cells, waiting, part) /\ Len(cells) = 2 * Len(waiting) - part

Flow(k, x) == k.down \o x.outbound \o x.inbound \o k.up

\* An open connection and its session: nothing is lost, and what the session
\* has read begins with the first cell of a frame.
Piped(k, x) ==
  k.phase = "open" =>
    /\ Full(Flow(k, x), k.waiting, k.part)
    /\ (k.part + Len(k.down) + Len(x.outbound)) % 2 = 0

\* A connection without a session.
Waiting(k) ==
  /\ k.phase = "backlog" => Full(k.up, k.waiting, k.part)
  /\ k.phase = "closed" => Fits(k.down, k.waiting, k.part)

Pipes ==
  /\ \A s \in ActiveSessions : Piped(conn[session[s].client], session[s])
  /\ \A c \in Clients : Waiting(conn[c])

-----------------------------------------------------------------------------
(* Helpers *)

\* A nonempty set of naturals has a least element.
LEMMA Least ==
  ASSUME NEW N, N \subseteq Nat, N # {}
  PROVE  \E n \in N : \A m \in N : n <= m
<1> DEFINE R == OpToRel(<, Nat)
<1>1. IsWellFoundedOn(R, Nat)
  BY NatLessThanWellFounded
<1>2. PICK n \in N : \A m \in N : ~ (<<m, n>> \in R)
  <2> HIDE DEF R
  <2> QED BY <1>1, WFMin
<1>3. \A m \in N : ~ (m < n)
  BY <1>2 DEF OpToRel
<1> QED BY <1>3

\* A sequence over a set is one over every larger set.
LEMMA SeqMonotone ==
  ASSUME NEW S, NEW T, S \subseteq T, NEW q \in Seq(S)
  PROVE  q \in Seq(T)
<1>1. q \in [1..Len(q) -> S] /\ Len(q) \in Nat
  OBVIOUS
<1>2. q \in [1..Len(q) -> T]
  BY <1>1
<1> QED BY <1>1, <1>2, SeqDef

\* With more generations every cell keeps its type.
LEMMA TypesMonotone ==
  ASSUME NEW g \in Nat, NEW h \in Nat, g <= h
  PROVE  Connection(g) \subseteq Connection(h) /\ Session(g) \subseteq Session(h)
<1>1. Asking(g) \subseteq Asking(h) /\ Answering(g) \subseteq Answering(h)
  BY DEF Asking, Answering, Cell, Message
<1>2. Seq(Asking(g)) \subseteq Seq(Asking(h)) /\ Seq(Answering(g)) \subseteq Seq(Answering(h))
  BY <1>1, SeqMonotone
<1> QED BY <1>2 DEF Connection, Session

\* The fields of a connection and of a session.
LEMMA ConnectionFields ==
  ASSUME Typed, NEW c \in Clients
  PROVE  /\ conn[c] \in Connection(generations)
         /\ conn[c].phase \in {"none", "backlog", "open", "gone", "closed"}
         /\ conn[c].up \in Seq(Asking(generations))
         /\ conn[c].down \in Seq(Answering(generations))
         /\ conn[c].waiting \in Seq(Nat) /\ conn[c].part \in {0, 1} /\ conn[c].next \in Nat
<1>1. conn[c] \in Connection(generations)
  BY DEF Typed
<1> QED BY <1>1 DEF Connection

LEMMA SessionFields ==
  ASSUME Typed, NEW s \in Slots
  PROVE  /\ session[s] \in Session(generations)
         /\ session[s].used \in BOOLEAN /\ session[s].client \in Clients \cup {NoClient}
         /\ session[s].inbound \in Seq(Asking(generations))
         /\ session[s].outbound \in Seq(Answering(generations))
         /\ session[s].idle \in Nat
<1>1. session[s] \in Session(generations)
  BY DEF Typed
<1> QED BY <1>1 DEF Session

\* A closed connection, and one that was never made.
LEMMA ClosedTyped ==
  ASSUME NEW g, NEW x \in Connection(g)
  PROVE  /\ CloseConnection(x) \in Connection(g) /\ NoConnection \in Connection(g)
         /\ x.phase = "gone" => CloseConnection(x) = NoConnection
         /\ x.phase # "gone" =>
              /\ CloseConnection(x).phase = "closed"
              /\ CloseConnection(x).down = x.down
              /\ CloseConnection(x).waiting = x.waiting
              /\ CloseConnection(x).part = x.part
         /\ CloseConnection(x).phase \in {"none", "closed"}
         /\ CloseConnection(x).down = x.down \/ CloseConnection(x).down = <<>>
<1>1. NoConnection \in Connection(g) /\ NoConnection.down = <<>> /\ NoConnection.phase = "none"
  BY DEF NoConnection, Connection
<1>2. CASE x.phase = "gone"
  BY <1>1, <1>2 DEF CloseConnection
<1>3. CASE x.phase # "gone"
  <2>1. CloseConnection(x) = [x EXCEPT !.phase = "closed", !.up = <<>>]
    BY <1>3 DEF CloseConnection
  <2>2. <<>> \in Seq(Asking(g))
    OBVIOUS
  <2>3. CloseConnection(x) \in Connection(g)
    BY <2>1, <2>2 DEF Connection
  <2>4. /\ CloseConnection(x).phase = "closed" /\ CloseConnection(x).down = x.down
        /\ CloseConnection(x).waiting = x.waiting /\ CloseConnection(x).part = x.part
    BY <2>1 DEF Connection
  <2> QED BY <1>1, <1>3, <2>3, <2>4
<1> QED BY <1>1, <1>2, <1>3

LEMMA NoSessionTyped ==
  ASSUME NEW g
  PROVE  NoSession \in Session(g)
BY DEF NoSession, Session

\* The slots in use are slots, and slots are numbers.
LEMMA ActiveSlots ==
  /\ ActiveSessions \subseteq Slots
  /\ \A s \in Slots : s \in ActiveSessions <=> session[s].used
  /\ Slots \subseteq Nat
BY CoordinatorAssumption DEF ActiveSessions, Slots

\* Where the serving thread goes from a session.
LEMMA Visiting ==
  ASSUME NEW s \in Nat, NEW after, Visit(s, after)
  PROVE  \/ pc' = after /\ current' = 0
         \/ /\ current' \in ActiveSessions /\ current' >= s
            /\ pc' = IF after = "reap" THEN "flush" ELSE "drain"
<1> DEFINE ahead == {t \in ActiveSessions : t >= s}
<1>1. CASE ahead = {}
  BY <1>1 DEF Visit
<1>2. CASE ahead # {}
  <2>1. ahead \subseteq Nat
    BY ActiveSlots
  <2> DEFINE t == CHOOSE t \in ahead : \A u \in ahead : t <= u
  <2>2. \E n \in ahead : \A m \in ahead : n <= m
    <3> HIDE DEF ahead
    <3> QED BY <1>2, <2>1, Least
  <2>3. t \in ahead
    BY <2>2
  <2>4. current' = t /\ pc' = IF after = "reap" THEN "flush" ELSE "drain"
    BY <1>2 DEF Visit
  <2> QED BY <2>3, <2>4
<1> QED BY <1>1, <1>2

-----------------------------------------------------------------------------
(* What the parts of a step do *)

\* The thread is at a session in use.
LEMMA AtSession ==
  ASSUME SessionInv, pc \in {"flush", "frames", "receive", "drain"}
  PROVE  /\ current \in ActiveSessions /\ current \in Slots /\ current \in Nat
         /\ Here.used /\ Here.client \in Clients
         /\ Socket.phase \in {"open", "gone"}
         /\ Here.outbound \in Seq(Answering(generations))
         /\ Here.inbound \in Seq(Asking(generations))
         /\ Socket.down \in Seq(Answering(generations))
         /\ Socket.up \in Seq(Asking(generations))
<1>1. current \in ActiveSessions
  BY DEF SessionInv, SlotsMatchConnections
<1>2. current \in Slots /\ current \in Nat /\ Here.used
  BY <1>1, ActiveSlots DEF Here
<1>3. Here.client \in Clients /\ Socket.phase \in {"open", "gone"}
  BY <1>1 DEF SessionInv, SlotsMatchConnections, Here, Socket
<1> QED BY <1>1, <1>2, <1>3, SessionFields, ConnectionFields DEF SessionInv, Here, Socket

\* What Sent moves.
LEMMA Sending ==
  ASSUME SessionInv, pc \in {"flush", "drain"}, Sent
  PROVE  /\ Room \in 0..Len(Here.outbound)
         /\ Len(Socket.down) + Room <= SocketCells
         /\ session' = [session EXCEPT ![current] =
                          [Here EXCEPT !.outbound = SubSeq(Here.outbound, Room + 1, Len(Here.outbound)),
                                       !.idle = IF Room > 0 THEN 0 ELSE Here.idle]]
         /\ conn' = [conn EXCEPT ![Here.client] =
                       [Socket EXCEPT !.down = Socket.down \o SubSeq(Here.outbound, 1, Room)]]
<1>1. /\ current \in Slots /\ Here.client \in Clients
      /\ Here.outbound \in Seq(Answering(generations))
      /\ Socket.down \in Seq(Answering(generations))
  BY AtSession
<1>2. Len(Socket.down) <= SocketCells /\ Len(Socket.down) \in Nat /\ Len(Here.outbound) \in Nat
  BY <1>1 DEF SessionInv, Buffers, Socket
<1>3. SocketCells \in Nat
  BY CoordinatorAssumption
<1>4. Room \in 0..Len(Here.outbound) /\ Len(Socket.down) + Room <= SocketCells
  <2> DEFINE a == Len(Socket.down)
             b == Len(Here.outbound)
  <2>1. Room = IF SocketCells - a < b THEN SocketCells - a ELSE b
    BY DEF Room, Min2
  <2>2. a \in Nat /\ b \in Nat /\ a <= SocketCells
    BY <1>2
  <2> HIDE DEF a, b
  <2>3. Room \in 0..b /\ a + Room <= SocketCells
    BY <1>3, <2>1, <2>2
  <2> QED BY <2>3 DEF a, b
<1> HIDE DEF Room
<1>5. /\ session' = [session EXCEPT ![current] =
                       [Here EXCEPT !.outbound = SubSeq(Here.outbound, Room + 1, Len(Here.outbound)),
                                    !.idle = IF Room > 0 THEN 0 ELSE Here.idle]]
      /\ conn' = [conn EXCEPT ![Here.client] =
                    [Socket EXCEPT !.down = Socket.down \o SubSeq(Here.outbound, 1, Room)]]
  BY DEF Sent, Here, Socket
<1> QED BY <1>4, <1>5

\* Sessions and connections whose fields keep their types.
LEMMA SentTyped ==
  ASSUME SessionInv, pc \in {"flush", "drain"}, Sent
  PROVE  LET o == Here.outbound
             rest == SubSeq(o, Room + 1, Len(o))
             moved == SubSeq(o, 1, Room)
         IN  /\ o \in Seq(Answering(generations))
             /\ rest \in Seq(Answering(generations)) /\ Len(rest) = Len(o) - Room
             /\ moved \in Seq(Answering(generations)) /\ Len(moved) = Room
             /\ session' \in [Slots -> Session(generations)]
             /\ conn' \in [Clients -> Connection(generations)]
             /\ \A s \in Slots : s # current => session'[s] = session[s]
             /\ session'[current].used = Here.used
             /\ session'[current].client = Here.client
             /\ session'[current].inbound = Here.inbound
             /\ session'[current].outbound = rest
             /\ \A c \in Clients : c # Here.client => conn'[c] = conn[c]
             /\ conn'[Here.client].down = Socket.down \o moved
             /\ Len(conn'[Here.client].down) <= SocketCells
             /\ conn'[Here.client].phase = Socket.phase
             /\ conn'[Here.client].up = Socket.up
             /\ conn'[Here.client].waiting = Socket.waiting
             /\ conn'[Here.client].part = Socket.part
<1> DEFINE o == Here.outbound
           rest == SubSeq(o, Room + 1, Len(o))
           moved == SubSeq(o, 1, Room)
           t == IF Room > 0 THEN 0 ELSE Here.idle
           x == [Here EXCEPT !.outbound = rest, !.idle = t]
           y == [Socket EXCEPT !.down = Socket.down \o moved]
<1>1. /\ current \in Slots /\ Here.client \in Clients
      /\ o \in Seq(Answering(generations))
      /\ Socket.down \in Seq(Answering(generations))
  BY AtSession
<1>2. /\ Room \in 0..Len(o) /\ Len(Socket.down) + Room <= SocketCells
      /\ session' = [session EXCEPT ![current] = x]
      /\ conn' = [conn EXCEPT ![Here.client] = y]
  BY Sending
<1>3. /\ Here \in Session(generations) /\ Socket \in Connection(generations)
      /\ session \in [Slots -> Session(generations)] /\ conn \in [Clients -> Connection(generations)]
  BY <1>1 DEF SessionInv, Typed, Here, Socket
<1>4. /\ rest \in Seq(Answering(generations)) /\ Len(rest) = Len(o) - Room
      /\ moved \in Seq(Answering(generations)) /\ Len(moved) = Room
  <2>1. Room \in Nat /\ Room <= Len(o) /\ Len(o) \in Nat
    BY <1>1, <1>2
  <2> HIDE DEF o
  <2>2. moved \in Seq(Answering(generations)) /\ Len(moved) = Room
    BY <1>1, <2>1, SubSeqProperties
  <2>3. rest \in Seq(Answering(generations)) /\ Len(rest) = Len(o) - Room
    BY <1>1, <2>1, SubSeqProperties
  <2> QED BY <2>2, <2>3
<1>5. t \in Nat
  BY <1>3 DEF Session
<1> HIDE DEF rest, moved, o, t
<1>6. /\ x \in Session(generations) /\ x.used = Here.used /\ x.client = Here.client
      /\ x.inbound = Here.inbound /\ x.outbound = rest
  BY <1>3, <1>4, <1>5 DEF Session
<1>7. /\ Socket.down \o moved \in Seq(Answering(generations))
      /\ Len(Socket.down \o moved) = Len(Socket.down) + Room
  BY <1>1, <1>4, ConcatProperties
<1> HIDE DEF x
<1>8. /\ y \in Connection(generations) /\ y.down = Socket.down \o moved
      /\ y.phase = Socket.phase /\ y.up = Socket.up
      /\ y.waiting = Socket.waiting /\ y.part = Socket.part
  BY <1>3, <1>7 DEF Connection
<1> HIDE DEF y
<1>9. /\ session' \in [Slots -> Session(generations)]
      /\ \A s \in Slots : s # current => session'[s] = session[s]
      /\ session'[current] = x
  BY <1>1, <1>2, <1>3, <1>6
<1>10. /\ conn' \in [Clients -> Connection(generations)]
       /\ \A c \in Clients : c # Here.client => conn'[c] = conn[c]
       /\ conn'[Here.client] = y
  BY <1>1, <1>2, <1>3, <1>8
<1>11. /\ session'[current].used = Here.used /\ session'[current].client = Here.client
       /\ session'[current].inbound = Here.inbound /\ session'[current].outbound = rest
  BY <1>6, <1>9
<1>12. /\ conn'[Here.client].down = Socket.down \o moved
       /\ conn'[Here.client].phase = Socket.phase /\ conn'[Here.client].up = Socket.up
       /\ conn'[Here.client].waiting = Socket.waiting /\ conn'[Here.client].part = Socket.part
  BY <1>8, <1>10
<1>13. Len(conn'[Here.client].down) <= SocketCells
  BY <1>2, <1>7, <1>12
<1> QED BY <1>1, <1>4, <1>9, <1>10, <1>11, <1>12, <1>13 DEF rest, moved, o

\* What Drop closes: the sessions and their connections, nothing else.
LEMMA Dropping ==
  ASSUME SessionInv, NEW slots \in SUBSET ActiveSessions, Drop(slots)
  PROVE  /\ session' \in [Slots -> Session(generations)]
         /\ conn' \in [Clients -> Connection(generations)]
         /\ \A s \in Slots : session'[s] = IF s \in slots THEN NoSession ELSE session[s]
         /\ \A c \in Clients :
              \/ conn'[c] = conn[c] /\ \A s \in slots : session[s].client # c
              \/ /\ conn'[c] = CloseConnection(conn[c])
                 /\ \E s \in slots : session[s].client = c
         /\ ActiveSessions' = ActiveSessions \ slots
<1>1. /\ session' = [s \in Slots |-> IF s \in slots THEN NoSession ELSE session[s]]
      /\ conn' = [c \in Clients |-> IF \E s \in slots : session[s].used /\ session[s].client = c
                                    THEN CloseConnection(conn[c]) ELSE conn[c]]
  BY DEF Drop
<1>2. session \in [Slots -> Session(generations)] /\ conn \in [Clients -> Connection(generations)]
  BY DEF SessionInv, Typed
<1>3. session' \in [Slots -> Session(generations)]
  BY <1>1, <1>2, NoSessionTyped
<1>4. conn' \in [Clients -> Connection(generations)]
  BY <1>1, <1>2, ClosedTyped
<1>5. \A s \in slots : session[s].used
  BY ActiveSlots
<1>6. ASSUME NEW c \in Clients
      PROVE  \/ conn'[c] = conn[c] /\ \A s \in slots : session[s].client # c
             \/ /\ conn'[c] = CloseConnection(conn[c])
                /\ \E s \in slots : session[s].client = c
  BY <1>1, <1>5
<1>7. \A s \in Slots : session'[s] = IF s \in slots THEN NoSession ELSE session[s]
  BY <1>1
<1>8. ActiveSessions' = ActiveSessions \ slots
  <2>1. ~NoSession.used
    BY DEF NoSession
  <2> QED BY <1>7, <2>1, ActiveSlots DEF ActiveSessions
<1> QED BY <1>3, <1>4, <1>6, <1>7, <1>8

-----------------------------------------------------------------------------
(* The parts of the invariant *)

\* SlotsMatchConnections without the place of the thread.
Owners ==
  /\ \A s, t \in ActiveSessions : session[s].client = session[t].client => s = t
  /\ \A s \in ActiveSessions :
       /\ session[s].client \in Clients
       /\ conn[session[s].client].phase \in {"open", "gone"}
       /\ \A i \in DOMAIN backlog : backlog[i] # session[s].client
  /\ \A c \in Clients :
       conn[c].phase = "open" => \E s \in ActiveSessions : session[s].client = c
  /\ \A s \in Slots \ ActiveSessions : session[s] = NoSession

LEMMA SlotsSplit ==
  /\ SlotsMatchConnections <=>
       Owners /\ (pc \in {"flush", "frames", "receive", "drain"} => current \in ActiveSessions)
  /\ SlotsMatchConnections' <=>
       Owners' /\ (pc' \in {"flush", "frames", "receive", "drain"} => current' \in ActiveSessions')
BY DEF SlotsMatchConnections, Owners

\* Buffers without the place of the thread.
Bounded ==
  /\ \A s \in Slots : Len(session[s].outbound) <= 2 /\ Len(session[s].inbound) <= ReceiveCells + 1
  /\ \A c \in Clients : Len(conn[c].down) <= SocketCells

LEMMA BuffersSplit ==
  /\ Buffers <=>
       /\ Bounded
       /\ pc = "receive" /\ current \in Slots => Len(session[current].inbound) < 2
       /\ pc \in {"frames", "receive"} => session[current].outbound = <<>>
  /\ Buffers' <=>
       /\ Bounded'
       /\ pc' = "receive" /\ current' \in Slots => Len(session'[current'].inbound) < 2
       /\ pc' \in {"frames", "receive"} => session'[current'].outbound = <<>>
BY DEF Buffers, Bounded, BuffersBounded

\* Steps in which no session changes hands.
LEMMA OwnersSame ==
  ASSUME Owners,
         \A s \in Slots : /\ session'[s].used = session[s].used
                          /\ session'[s].client = session[s].client
                          /\ ~session[s].used => session'[s] = session[s],
         \A c \in Clients : /\ conn'[c].phase = "open" => conn[c].phase = "open"
                            /\ conn[c].phase \in {"open", "gone"} =>
                                 conn'[c].phase \in {"open", "gone"},
         \A i \in DOMAIN backlog' :
           \/ \E j \in DOMAIN backlog : backlog'[i] = backlog[j]
           \/ conn[backlog'[i]].phase \notin {"open", "gone"}
  PROVE  Owners' /\ ActiveSessions' = ActiveSessions
<1>1. ActiveSessions' = ActiveSessions /\ ActiveSessions \subseteq Slots
  BY DEF ActiveSessions
<1>2. \A s, t \in ActiveSessions : session'[s].client = session'[t].client => s = t
  BY <1>1 DEF Owners
<1>3. ASSUME NEW s \in ActiveSessions
      PROVE  /\ session'[s].client \in Clients
             /\ conn'[session'[s].client].phase \in {"open", "gone"}
             /\ \A i \in DOMAIN backlog' : backlog'[i] # session'[s].client
  <2>1. /\ session[s].client \in Clients /\ session'[s].client = session[s].client
        /\ conn[session[s].client].phase \in {"open", "gone"}
        /\ \A i \in DOMAIN backlog : backlog[i] # session[s].client
    BY <1>1 DEF Owners
  <2> QED BY <2>1
<1>4. \A c \in Clients : conn'[c].phase = "open" =>
        \E s \in ActiveSessions : session'[s].client = c
  BY <1>1 DEF Owners
<1>5. \A s \in Slots \ ActiveSessions : session'[s] = NoSession
  BY DEF Owners, ActiveSessions
<1> QED BY <1>1, <1>2, <1>3, <1>4, <1>5 DEF Owners

\* Sessions end: the others and the connections not accepted stay.
LEMMA DropKeeps ==
  ASSUME SessionInv, NEW slots \in SUBSET ActiveSessions, Drop(slots), backlog' = backlog
  PROVE  Owners' /\ Queue' /\ Bounded'
<1>0. Owners /\ Queue /\ Bounded /\ Typed
  BY SlotsSplit, BuffersSplit DEF SessionInv
<1>1. /\ \A s \in Slots : session'[s] = IF s \in slots THEN NoSession ELSE session[s]
      /\ \A c \in Clients :
           \/ conn'[c] = conn[c] /\ \A s \in slots : session[s].client # c
           \/ /\ conn'[c] = CloseConnection(conn[c])
              /\ \E s \in slots : session[s].client = c
      /\ ActiveSessions' = ActiveSessions \ slots
  BY Dropping
<1>2. \A c \in Clients :
        /\ conn[c] \in Connection(generations)
        /\ CloseConnection(conn[c]).phase \in {"none", "closed"}
        /\ CloseConnection(conn[c]).down = conn[c].down \/ CloseConnection(conn[c]).down = <<>>
  BY <1>0, ConnectionFields, ClosedTyped
<1>3. ActiveSessions \subseteq Slots
  BY DEF ActiveSessions
<1>4. Owners'
  <2>1. \A s, t \in ActiveSessions \ slots : session'[s].client = session'[t].client => s = t
    BY <1>0, <1>1, <1>3 DEF Owners
  <2>2. ASSUME NEW s \in ActiveSessions \ slots
        PROVE  /\ session'[s].client \in Clients
               /\ conn'[session'[s].client].phase \in {"open", "gone"}
               /\ \A i \in DOMAIN backlog' : backlog'[i] # session'[s].client
    <3>1. session'[s] = session[s]
      BY <1>1, <1>3
    <3>2. /\ session[s].client \in Clients
          /\ conn[session[s].client].phase \in {"open", "gone"}
          /\ \A i \in DOMAIN backlog : backlog[i] # session[s].client
      BY <1>0 DEF Owners
    <3>3. \A t \in slots : session[t].client # session[s].client
      BY <1>0 DEF Owners
    <3>4. conn'[session[s].client] = conn[session[s].client]
      BY <1>1, <3>2, <3>3
    <3> QED BY <3>1, <3>2, <3>4
  <2>3. ASSUME NEW c \in Clients, conn'[c].phase = "open"
        PROVE  \E s \in ActiveSessions \ slots : session'[s].client = c
    <3>1. conn'[c] = conn[c] /\ \A s \in slots : session[s].client # c
      BY <1>1, <1>2, <2>3
    <3>2. PICK s \in ActiveSessions : session[s].client = c
      BY <1>0, <2>3, <3>1 DEF Owners
    <3> QED BY <1>1, <1>3, <3>1, <3>2
  <2>4. \A s \in Slots \ (ActiveSessions \ slots) : session'[s] = NoSession
    BY <1>0, <1>1 DEF Owners
  <2> QED BY <1>1, <2>1, <2>2, <2>3, <2>4 DEF Owners
<1>5. Queue'
  <2>1. \A i \in 1..Len(backlog) : conn'[backlog[i]] = conn[backlog[i]]
    <3> SUFFICES ASSUME NEW i \in 1..Len(backlog) PROVE conn'[backlog[i]] = conn[backlog[i]]
      OBVIOUS
    <3>1. backlog[i] \in Clients /\ i \in DOMAIN backlog
      BY <1>0 DEF Typed
    <3>2. \A s \in slots : session[s].client # backlog[i]
      BY <1>0, <3>1 DEF Owners
    <3> QED BY <1>1, <3>1, <3>2
  <2>2. \A c \in Clients : conn'[c].phase = "backlog" => conn'[c] = conn[c]
    BY <1>1, <1>2
  <2> QED BY <1>0, <2>1, <2>2 DEF Queue
<1>6. Bounded'
  <2>1. NoSession.outbound = <<>> /\ NoSession.inbound = <<>> /\ Len(<<>>) = 0
    BY DEF NoSession
  <2>2. 0 <= 2 /\ 0 <= ReceiveCells + 1 /\ 0 <= SocketCells
    BY CoordinatorAssumption
  <2>3. \A s \in Slots : Len(session'[s].outbound) <= 2 /\ Len(session'[s].inbound) <= ReceiveCells + 1
    BY <1>0, <1>1, <2>1, <2>2 DEF Bounded
  <2>4. \A c \in Clients : Len(conn'[c].down) <= SocketCells
    BY <1>0, <1>1, <1>2, <2>1, <2>2 DEF Bounded
  <2> QED BY <2>3, <2>4 DEF Bounded
<1> QED BY <1>4, <1>5, <1>6

-----------------------------------------------------------------------------
(* The serving thread keeps the invariant *)

\* The thread moves on, and nothing else changes but the flags.
LEMMA MovingOn ==
  ASSUME SessionInv,
         UNCHANGED <<conn, backlog, session, generations, retired, told>>,
         listening' \in BOOLEAN, stop_requested' \in BOOLEAN, stopped' \in BOOLEAN,
         pc' \in Places, current' \in Nat, processed' \in Nat, drain' \in Nat,
         pc' \in {"flush", "frames", "receive", "drain"} => current' \in ActiveSessions,
         pc' = "receive" /\ current' \in Slots => Len(session[current'].inbound) < 2,
         pc' \in {"frames", "receive"} => session[current'].outbound = <<>>
  PROVE  SessionInv'
<1>0. Owners /\ Queue /\ Bounded /\ Typed
  BY SlotsSplit, BuffersSplit DEF SessionInv
<1>1. Typed'
  BY <1>0 DEF Typed
<1>2. Owners' /\ ActiveSessions' = ActiveSessions
  BY <1>0, OwnersSame
<1>3. Queue' /\ Bounded'
  BY <1>0 DEF Queue, Bounded
<1>4. SlotsMatchConnections'
  BY <1>2, SlotsSplit
<1>5. Buffers'
  BY <1>3, BuffersSplit
<1> QED BY <1>1, <1>3, <1>4, <1>5 DEF SessionInv

\* A visit leads to a session in use, or out of the loop.
LEMMA VisitMoves ==
  ASSUME NEW s \in Nat, NEW after \in {"reap", "closed"}, Visit(s, after)
  PROVE  /\ pc' \in Places /\ current' \in Nat
         /\ pc' \notin {"frames", "receive"}
         /\ pc' \in {"flush", "drain"} => current' \in ActiveSessions /\ current' >= s
<1>1. ActiveSessions \subseteq Nat
  BY ActiveSlots
<1>2. CASE pc' = after /\ current' = 0
  BY <1>2 DEF Places
<1>3. CASE /\ current' \in ActiveSessions /\ current' >= s
           /\ pc' = IF after = "reap" THEN "flush" ELSE "drain"
  BY <1>1, <1>3 DEF Places
<1> QED BY <1>2, <1>3, Visiting

\* The steps that only move the thread.
LEMMA MovesKeep ==
  ASSUME SessionInv,
         \/ StartPass \/ RunReturns \/ AcceptNone \/ YieldAfterFrames \/ NeedBytes
         \/ NothingToReceive \/ RequestStop \/ DrainWaits \/ ShutdownEnds
  PROVE  SessionInv'
<1>0. /\ Typed /\ current \in Nat /\ processed \in Nat /\ drain \in Nat /\ pc \in Places
      /\ listening \in BOOLEAN /\ stop_requested \in BOOLEAN /\ stopped \in BOOLEAN
  BY DEF SessionInv, Typed
<1> USE DEF sockets, flags, runtime, thread
<1>1. CASE StartPass
  BY <1>0, <1>1, MovingOn DEF StartPass, Places
<1>2. CASE RunReturns
  BY <1>0, <1>2, MovingOn DEF RunReturns, Places
<1>3. CASE AcceptNone \/ YieldAfterFrames \/ NothingToReceive
  <2>1. /\ UNCHANGED <<conn, backlog, session, generations, retired, told>>
        /\ UNCHANGED <<listening, stop_requested, stopped, drain>> /\ processed' = 0
        /\ Visit(1, "reap") \/ Visit(current + 1, "reap")
    BY <1>3 DEF AcceptNone, YieldAfterFrames, NothingToReceive
  <2>2. /\ pc' \in Places /\ current' \in Nat
        /\ pc' \notin {"frames", "receive"}
        /\ pc' \in {"flush", "drain"} => current' \in ActiveSessions
    BY <1>0, <2>1, VisitMoves
  <2> QED BY <1>0, <2>1, <2>2, MovingOn
<1>4. CASE NeedBytes
  <2>1. /\ pc = "frames" /\ pc' = "receive" /\ current' = current
        /\ Decode(Here.inbound) = "truncated"
        /\ UNCHANGED <<conn, backlog, session, generations, retired, told>>
        /\ UNCHANGED <<listening, stop_requested, stopped, drain, processed>>
    BY <1>4 DEF NeedBytes
  <2>2. current \in ActiveSessions /\ Here.inbound \in Seq(Asking(generations))
    BY <2>1, AtSession
  <2>3. Len(Here.inbound) < 2
    <3>1. Here.inbound = <<>> \/ Len(Here.inbound) = 1
      BY <2>1 DEF Decode
    <3>2. CASE Here.inbound = <<>>
      <4>1. Len(Here.inbound) = 0
        BY <3>2
      <4> QED BY <4>1
    <3>3. CASE Len(Here.inbound) = 1
      BY <3>3
    <3> QED BY <3>1, <3>2, <3>3
  <2>4. session[current].outbound = <<>>
    BY <2>1 DEF SessionInv, Buffers
  <2> QED BY <1>0, <2>1, <2>2, <2>3, <2>4, MovingOn DEF Places, Here
<1>5. CASE RequestStop \/ ShutdownEnds \/ DrainWaits
  <2>1. /\ UNCHANGED <<conn, backlog, session, generations, retired, told, current, processed>>
        /\ listening' \in BOOLEAN /\ stop_requested' \in BOOLEAN /\ stopped' \in BOOLEAN
        /\ pc' = pc \/ pc' = "stopped"
        /\ drain' \in Nat
    <3>1. CASE RequestStop
      BY <1>0, <3>1 DEF RequestStop
    <3>2. CASE ShutdownEnds
      BY <1>0, <3>2 DEF ShutdownEnds
    <3>3. CASE DrainWaits
      <4>1. drain > 0 /\ drain' = drain - 1
        BY <3>3 DEF DrainWaits
      <4> QED BY <1>0, <3>3, <4>1 DEF DrainWaits
    <3> QED BY <1>5, <3>1, <3>2, <3>3
  <2>2. /\ pc \in {"flush", "frames", "receive", "drain"} => current \in ActiveSessions
        /\ pc = "receive" /\ current \in Slots => Len(session[current].inbound) < 2
        /\ pc \in {"frames", "receive"} => session[current].outbound = <<>>
    BY SlotsSplit, BuffersSplit DEF SessionInv
  <2> QED BY <1>0, <2>1, <2>2, MovingOn DEF Places
<1> QED BY <1>1, <1>2, <1>3, <1>4, <1>5

\* accept_pending turns a connection away.
LEMMA AcceptRejectsKeeps ==
  ASSUME SessionInv, AcceptRejects
  PROVE  SessionInv'
<1> DEFINE h == Head(backlog)
<1>0. Owners /\ Queue /\ Bounded /\ Typed /\ generations \in Nat
  BY SlotsSplit, BuffersSplit DEF SessionInv, Typed
<1>1. /\ pc = "accept" /\ backlog # <<>>
      /\ conn' = [conn EXCEPT ![h] = CloseConnection(conn[h])]
      /\ backlog' = Tail(backlog) /\ Visit(1, "reap") /\ processed' = 0
      /\ UNCHANGED <<session, listening, stop_requested, stopped, drain, generations,
                     retired, told>>
  BY DEF AcceptRejects, flags, runtime
<1>2. /\ backlog \in Seq(Clients) /\ Len(backlog) \in Nat /\ Len(backlog) > 0
      /\ backlog' \in Seq(Clients) /\ Len(backlog') = Len(backlog) - 1
      /\ \A i \in 1..Len(backlog') : backlog'[i] = backlog[i + 1]
      /\ h = backlog[1] /\ h \in Clients
  BY <1>0, <1>1 DEF Typed
<1>3. /\ conn \in [Clients -> Connection(generations)]
      /\ conn' \in [Clients -> Connection(generations)]
      /\ conn'[h].phase \in {"none", "closed"}
      /\ conn'[h].down = conn[h].down \/ conn'[h].down = <<>>
      /\ \A c \in Clients : c # h => conn'[c] = conn[c]
  <2>1. conn \in [Clients -> Connection(generations)]
    BY <1>0 DEF Typed
  <2> HIDE DEF h
  <2> QED BY <1>1, <1>2, <2>1, ClosedTyped
<1>4. \A i \in 1..Len(backlog') : backlog'[i] # h
  <2> SUFFICES ASSUME NEW i \in 1..Len(backlog') PROVE backlog'[i] # h
    OBVIOUS
  <2>1. i + 1 \in 1..Len(backlog) /\ 1 \in 1..Len(backlog) /\ i + 1 # 1
    BY <1>2
  <2>2. backlog[i + 1] # backlog[1]
    BY <1>0, <2>1 DEF Queue
  <2> QED BY <1>2, <2>2
<1>5. conn[h].phase = "backlog" \/ conn[h].phase = "gone"
  BY <1>0, <1>2 DEF Queue
<1>6. \A s \in ActiveSessions : session[s].client # h
  <2>1. 1 \in DOMAIN backlog
    BY <1>2
  <2> QED BY <1>0, <1>2, <2>1 DEF Owners
<1> HIDE DEF h
<1>7. /\ pc' \in Places /\ current' \in Nat
      /\ pc' \notin {"frames", "receive"}
      /\ pc' \in {"flush", "drain"} => current' \in ActiveSessions
  BY <1>1, VisitMoves
<1>8. Typed'
  BY <1>0, <1>1, <1>2, <1>3, <1>7 DEF Typed
<1>9. Owners' /\ ActiveSessions' = ActiveSessions
  <2>1. ActiveSessions' = ActiveSessions
    BY <1>1 DEF ActiveSessions
  <2>2. ASSUME NEW s \in ActiveSessions
        PROVE  /\ session'[s].client \in Clients
               /\ conn'[session'[s].client].phase \in {"open", "gone"}
               /\ \A i \in DOMAIN backlog' : backlog'[i] # session'[s].client
    <3>1. /\ session[s].client \in Clients /\ session[s].client # h
          /\ conn[session[s].client].phase \in {"open", "gone"}
          /\ \A i \in DOMAIN backlog : backlog[i] # session[s].client
      BY <1>0, <1>6 DEF Owners
    <3>2. \A i \in DOMAIN backlog' : backlog'[i] = backlog[i + 1] /\ i + 1 \in DOMAIN backlog
      BY <1>2
    <3> QED BY <1>1, <1>3, <3>1, <3>2
  <2>3. \A c \in Clients : conn'[c].phase = "open" =>
          \E s \in ActiveSessions : session'[s].client = c
    BY <1>0, <1>1, <1>3 DEF Owners
  <2>4. /\ \A s, t \in ActiveSessions : session'[s].client = session'[t].client => s = t
        /\ \A s \in Slots \ ActiveSessions : session'[s] = NoSession
    BY <1>0, <1>1 DEF Owners
  <2> QED BY <2>1, <2>2, <2>3, <2>4 DEF Owners
<1>10. Queue'
  <2>1. ASSUME NEW i \in 1..Len(backlog'), NEW j \in 1..Len(backlog'), backlog'[i] = backlog'[j]
        PROVE  i = j
    <3>1. i + 1 \in 1..Len(backlog) /\ j + 1 \in 1..Len(backlog)
      BY <1>2
    <3>2. i + 1 = j + 1
      BY <1>0, <1>2, <2>1, <3>1 DEF Queue
    <3> QED BY <3>2
  <2>2. ASSUME NEW i \in 1..Len(backlog')
        PROVE  conn'[backlog'[i]].phase \in {"backlog", "gone"}
    <3>1. i + 1 \in 1..Len(backlog) /\ backlog'[i] = backlog[i + 1] /\ backlog'[i] \in Clients
      BY <1>2
    <3>2. conn'[backlog'[i]] = conn[backlog'[i]]
      BY <1>3, <1>4, <3>1
    <3> QED BY <1>0, <3>1, <3>2 DEF Queue
  <2>3. \A c \in Clients : conn'[c].phase = "backlog" => conn'[c].down = <<>> /\ conn'[c].part = 0
    BY <1>0, <1>3 DEF Queue
  <2> QED BY <2>1, <2>2, <2>3 DEF Queue
<1>11. Bounded'
  <2>1. Len(<<>>) = 0 /\ 0 <= SocketCells
    BY CoordinatorAssumption
  <2>2. \A c \in Clients : Len(conn'[c].down) <= SocketCells
    BY <1>0, <1>3, <2>1 DEF Bounded
  <2> QED BY <1>0, <1>1, <2>2 DEF Bounded
<1>12. SlotsMatchConnections' /\ Buffers'
  BY <1>7, <1>9, <1>11, SlotsSplit, BuffersSplit
<1> QED BY <1>8, <1>10, <1>12 DEF SessionInv

\* Steps of bytes: no session and no connection changes hands.
LEMMA FlowKeeps ==
  ASSUME SessionInv, backlog' = backlog,
         \A s \in Slots : /\ session'[s].used = session[s].used
                          /\ session'[s].client = session[s].client
                          /\ ~session[s].used => session'[s] = session[s],
         \A c \in Clients : /\ conn'[c].phase = conn[c].phase
                            /\ conn[c].phase = "backlog" =>
                                 conn'[c].down = conn[c].down /\ conn'[c].part = conn[c].part
  PROVE  Owners' /\ Queue' /\ ActiveSessions' = ActiveSessions
<1>0. Owners /\ Queue /\ Typed
  BY SlotsSplit DEF SessionInv
<1>1. Owners' /\ ActiveSessions' = ActiveSessions
  BY <1>0, OwnersSame
<1>2. \A i \in 1..Len(backlog) : backlog[i] \in Clients
  BY <1>0 DEF Typed
<1>3. Queue'
  BY <1>0, <1>2 DEF Queue
<1> QED BY <1>1, <1>3

\* flush, and the drain of a session when the service stops.
LEMMA SentKeeps ==
  ASSUME SessionInv, pc \in {"flush", "drain"}, Sent,
         UNCHANGED <<backlog, listening, stop_requested, stopped, generations, retired, told>>,
         pc' \in Places, current' \in Nat, processed' \in Nat, drain' \in Nat,
         pc' # "receive",
         pc' \in {"flush", "frames", "drain"} => current' \in ActiveSessions,
         pc' = "frames" => current' = current /\ Room = Len(Here.outbound)
  PROVE  SessionInv'
<1>0. Owners /\ Queue /\ Bounded /\ Typed
  BY SlotsSplit, BuffersSplit DEF SessionInv
<1>1. /\ current \in Slots /\ Here.client \in Clients /\ Here.used
      /\ Socket.phase \in {"open", "gone"}
  BY AtSession
<1> DEFINE o == Here.outbound
           rest == SubSeq(o, Room + 1, Len(o))
<1>2. /\ o \in Seq(Answering(generations))
      /\ rest \in Seq(Answering(generations)) /\ Len(rest) = Len(o) - Room
      /\ session' \in [Slots -> Session(generations)]
      /\ conn' \in [Clients -> Connection(generations)]
      /\ \A s \in Slots : s # current => session'[s] = session[s]
      /\ session'[current].used = Here.used
      /\ session'[current].client = Here.client
      /\ session'[current].inbound = Here.inbound
      /\ session'[current].outbound = rest
      /\ \A c \in Clients : c # Here.client => conn'[c] = conn[c]
      /\ Len(conn'[Here.client].down) <= SocketCells
      /\ conn'[Here.client].phase = Socket.phase
  BY SentTyped
<1>3. Room \in 0..Len(o)
  BY Sending
<1> HIDE DEF rest, o, Room
<1>4. Typed'
  BY <1>0, <1>2 DEF Typed
<1>5. Owners' /\ Queue' /\ ActiveSessions' = ActiveSessions
  <2>1. \A s \in Slots : /\ session'[s].used = session[s].used
                         /\ session'[s].client = session[s].client
                         /\ ~session[s].used => session'[s] = session[s]
    BY <1>1, <1>2 DEF Here
  <2>2. \A c \in Clients : /\ conn'[c].phase = conn[c].phase
                           /\ conn[c].phase = "backlog" =>
                                conn'[c].down = conn[c].down /\ conn'[c].part = conn[c].part
    BY <1>1, <1>2 DEF Socket
  <2> QED BY <2>1, <2>2, FlowKeeps
<1>6. Bounded'
  <2>1. Len(o) <= 2 /\ Len(Here.inbound) <= ReceiveCells + 1 /\ Len(o) \in Nat
    BY <1>0, <1>1, <1>2 DEF Bounded, Here, o
  <2>2. Len(rest) <= 2
    BY <1>2, <1>3, <2>1
  <2>3. \A s \in Slots : Len(session'[s].outbound) <= 2 /\ Len(session'[s].inbound) <= ReceiveCells + 1
    BY <1>0, <1>1, <1>2, <2>1, <2>2 DEF Bounded
  <2>4. \A c \in Clients : Len(conn'[c].down) <= SocketCells
    BY <1>0, <1>1, <1>2 DEF Bounded
  <2> QED BY <2>3, <2>4 DEF Bounded
<1>7. pc' = "frames" => session'[current'].outbound = <<>>
  <2> HAVE pc' = "frames"
  <2>1. Len(rest) = 0
    BY <1>2 DEF o
  <2>2. rest = <<>>
    BY <1>2, <2>1
  <2> QED BY <1>2, <2>2
<1>8. SlotsMatchConnections' /\ Buffers'
  BY <1>5, <1>6, <1>7, SlotsSplit, BuffersSplit
<1> QED BY <1>4, <1>5, <1>8 DEF SessionInv

LEMMA FlushKeeps ==
  ASSUME SessionInv, Flush \/ FlushBlocks \/ DrainFlush
  PROVE  SessionInv'
<1>0. /\ Typed /\ current \in Nat /\ processed \in Nat /\ drain \in Nat /\ pc \in Places
  BY DEF SessionInv, Typed
<1> USE DEF flags, runtime, thread
<1>1. CASE Flush
  <2>1. /\ pc = "flush" /\ Sent /\ pc' = "frames" /\ Room = Len(Here.outbound)
        /\ UNCHANGED <<backlog, listening, stop_requested, stopped, current, processed, drain,
                       generations, retired, told>>
    BY <1>1 DEF Flush
  <2>2. current \in ActiveSessions
    BY <2>1, AtSession
  <2> QED BY <1>0, <2>1, <2>2, SentKeeps DEF Places
<1>2. CASE FlushBlocks
  <2>1. /\ pc = "flush" /\ Sent /\ Visit(current + 1, "reap") /\ processed' = 0
        /\ UNCHANGED <<backlog, listening, stop_requested, stopped, drain,
                       generations, retired, told>>
    BY <1>2 DEF FlushBlocks
  <2>2. /\ pc' \in Places /\ current' \in Nat
        /\ pc' \notin {"frames", "receive"}
        /\ pc' \in {"flush", "drain"} => current' \in ActiveSessions
    BY <1>0, <2>1, VisitMoves
  <2> QED BY <1>0, <2>1, <2>2, SentKeeps
<1>3. CASE DrainFlush
  <2>1. /\ pc = "drain" /\ Sent
        /\ UNCHANGED <<backlog, listening, stop_requested, stopped, pc, current, processed, drain,
                       generations, retired, told>>
    BY <1>3 DEF DrainFlush
  <2>2. current \in ActiveSessions
    BY <2>1, AtSession
  <2> QED BY <1>0, <2>1, <2>2, SentKeeps
<1> QED BY <1>1, <1>2, <1>3

\* Sessions end, and the thread goes on with another or leaves the loop.
LEMMA EndKeeps ==
  ASSUME SessionInv, NEW slots \in SUBSET ActiveSessions, Drop(slots),
         UNCHANGED <<backlog, listening, stop_requested, stopped, told>>,
         generations' \in Nat, generations <= generations', retired' \in BOOLEAN,
         pc' \in Places, current' \in Nat, processed' \in Nat, drain' \in Nat,
         pc' \notin {"frames", "receive"},
         pc' \in {"flush", "drain"} => current' \in ActiveSessions \ slots
  PROVE  SessionInv'
<1>0. /\ Typed /\ generations \in Nat /\ told \in Nat /\ told <= generations
      /\ backlog \in Seq(Clients)
      /\ listening \in BOOLEAN /\ stop_requested \in BOOLEAN /\ stopped \in BOOLEAN
  BY DEF SessionInv, Typed
<1>1. /\ session' \in [Slots -> Session(generations)]
      /\ conn' \in [Clients -> Connection(generations)]
      /\ ActiveSessions' = ActiveSessions \ slots
  BY Dropping
<1>2. /\ session' \in [Slots -> Session(generations')]
      /\ conn' \in [Clients -> Connection(generations')]
  BY <1>0, <1>1, TypesMonotone
<1>3. Typed'
  BY <1>0, <1>2 DEF Typed
<1>4. Owners' /\ Queue' /\ Bounded'
  BY DropKeeps
<1>5. SlotsMatchConnections' /\ Buffers'
  BY <1>1, <1>4, SlotsSplit, BuffersSplit
<1> QED BY <1>3, <1>4, <1>5 DEF SessionInv

\* What the runtime does with a request: it never has fewer generations, it
\* answers with none it does not have, and a description with all of them.
LEMMA Effects ==
  ASSUME SessionInv, NEW request \in Message, Effect(request)
  PROVE  /\ generations' \in Nat /\ generations <= generations' /\ retired' \in BOOLEAN
         /\ Outcome(request.op, request.generation) \in Nat
         /\ Outcome(request.op, request.generation) <= generations'
         /\ request.op = "describe" => Outcome(request.op, request.generation) = generations
<1>0. generations \in Nat /\ retired \in BOOLEAN
  BY DEF SessionInv, Typed
<1> DEFINE op == request.op
           r == Outcome(op, request.generation)
<1>1. op \in Request /\ request.generation \in Nat
  BY DEF Message
<1>2. /\ generations' = IF op \in {"register", "publish"} /\ r > 0 THEN r ELSE generations
      /\ retired' = (retired \/ (op = "retire" /\ r > 0))
  BY DEF Effect
<1>3. retired' \in BOOLEAN
  BY <1>2
<1>4. CASE op = "register"
  <2>1. r = IF generations = 0 /\ MaxGeneration > 0 THEN 1 ELSE 0
    BY <1>4 DEF Outcome
  <2> HIDE DEF r, op
  <2>2. r \in Nat /\ generations' \in Nat /\ generations <= generations' /\ r <= generations'
    BY <1>0, <1>2, <1>4, <2>1
  <2> QED BY <1>3, <1>4, <2>2 DEF r, op
<1>5. CASE op = "publish"
  <2>1. \/ r = request.generation /\ request.generation = generations + 1
        \/ r = 0
    BY <1>5 DEF Outcome
  <2> HIDE DEF r, op
  <2>2. r \in Nat /\ generations' \in Nat /\ generations <= generations' /\ r <= generations'
    BY <1>0, <1>1, <1>2, <1>5, <2>1
  <2> QED BY <1>3, <1>5, <2>2 DEF r, op
<1>6. CASE op \notin {"register", "publish"}
  <2>1. /\ r = generations \/ r = 0
        /\ op = "describe" => r = generations
    BY <1>6 DEF Outcome
  <2>2. generations' = generations
    BY <1>2, <1>6
  <2> HIDE DEF r, op
  <2>3. r \in Nat /\ r <= generations
    BY <1>0, <2>1
  <2> QED BY <1>0, <1>3, <2>1, <2>2, <2>3 DEF r, op
<1> QED BY <1>4, <1>5, <1>6

\* The session's next request, when a whole frame has arrived.
LEMMA FirstRequest ==
  ASSUME SessionInv, pc = "frames", Decode(Here.inbound) = "frame"
  PROVE  /\ Here.inbound[1] \in Asking(generations)
         /\ Here.inbound[1].of \in Message /\ Here.inbound[1].of.floor <= generations
         /\ Len(Here.inbound) >= 2
<1>1. Here.inbound \in Seq(Asking(generations))
  BY AtSession
<1>2. Here.inbound # <<>> /\ Len(Here.inbound) # 1
  <2>1. CASE Here.inbound = <<>>
    BY <2>1 DEF Decode
  <2>2. CASE Here.inbound # <<>> /\ Len(Here.inbound) = 1
    BY <2>2 DEF Decode
  <2> QED BY <2>1, <2>2
<1>3. Len(Here.inbound) >= 2
  <2> DEFINE q == Here.inbound
  <2>1. q \in Seq(Asking(generations)) /\ q # <<>> /\ Len(q) # 1
    BY <1>1, <1>2
  <2> HIDE DEF q
  <2>2. Len(q) \in Nat /\ Len(q) # 0
    BY <2>1
  <2>3. \A n \in Nat : n # 0 /\ n # 1 => n >= 2
    OBVIOUS
  <2>4. Len(q) >= 2
    BY <2>1, <2>2, <2>3
  <2> QED BY <2>4 DEF q
<1>4. Here.inbound[1] \in Asking(generations)
  BY <1>1, <1>3
<1> QED BY <1>3, <1>4 DEF Asking, Cell

\* The pump ends with its session.
LEMMA EndSessionKeeps ==
  ASSUME SessionInv, FlushFails \/ InvalidFrame \/ PeerClosed \/ ReplyTooLarge
  PROVE  SessionInv'
<1>0. Typed /\ generations \in Nat /\ retired \in BOOLEAN /\ drain \in Nat /\ current \in Nat
  BY DEF SessionInv, Typed
<1>1. /\ pc \in {"flush", "frames", "receive"} /\ EndSession /\ told' = told
      /\ \/ UNCHANGED <<generations, retired>>
         \/ /\ pc = "frames" /\ Decode(Here.inbound) = "frame"
            /\ Effect(Here.inbound[1].of)
  BY DEF FlushFails, InvalidFrame, PeerClosed, ReplyTooLarge, runtime
<1>2. generations' \in Nat /\ generations <= generations' /\ retired' \in BOOLEAN
  <2>1. CASE UNCHANGED <<generations, retired>>
    BY <1>0, <2>1
  <2>2. CASE /\ pc = "frames" /\ Decode(Here.inbound) = "frame"
             /\ Effect(Here.inbound[1].of)
    BY <2>2, FirstRequest, Effects
  <2> QED BY <1>1, <2>1, <2>2
<1>3. /\ Drop({current}) /\ Visit(current + 1, "reap") /\ processed' = 0
      /\ UNCHANGED <<backlog, listening, stop_requested, stopped, drain>>
  BY <1>1 DEF EndSession, flags
<1>4. current \in ActiveSessions
  BY <1>1, AtSession
<1>5. /\ pc' \in Places /\ current' \in Nat /\ pc' \notin {"frames", "receive"}
      /\ pc' \in {"flush", "drain"} => current' \in ActiveSessions /\ current' >= current + 1
  BY <1>0, <1>3, VisitMoves
<1>6. pc' \in {"flush", "drain"} => current' \in ActiveSessions \ {current}
  BY <1>0, <1>5
<1> QED BY <1>0, <1>1, <1>2, <1>3, <1>4, <1>5, <1>6, EndKeeps

LEMMA DrainEndsKeeps ==
  ASSUME SessionInv, DrainEnds
  PROVE  SessionInv'
<1>0. /\ Typed /\ generations \in Nat /\ retired \in BOOLEAN /\ drain \in Nat
      /\ processed \in Nat /\ current \in Nat
  BY DEF SessionInv, Typed
<1>1. /\ pc = "drain" /\ Drop({current}) /\ Visit(current + 1, "closed")
      /\ UNCHANGED <<backlog, listening, stop_requested, stopped, processed, drain,
                     generations, retired, told>>
  BY DEF DrainEnds, flags, runtime
<1>2. current \in ActiveSessions
  BY <1>1, AtSession
<1>3. /\ pc' \in Places /\ current' \in Nat /\ pc' \notin {"frames", "receive"}
      /\ pc' \in {"flush", "drain"} => current' \in ActiveSessions /\ current' >= current + 1
  BY <1>0, <1>1, VisitMoves
<1>4. pc' \in {"flush", "drain"} => current' \in ActiveSessions \ {current}
  BY <1>0, <1>3
<1> QED BY <1>0, <1>1, <1>2, <1>3, <1>4, EndKeeps

LEMMA ReapIdleKeeps ==
  ASSUME SessionInv, ReapIdle
  PROVE  SessionInv'
<1> DEFINE idle == {s \in ActiveSessions : IdleTimeout # 0 /\ session[s].idle >= IdleTimeout}
<1>0. /\ Typed /\ generations \in Nat /\ retired \in BOOLEAN /\ drain \in Nat
      /\ processed \in Nat
  BY DEF SessionInv, Typed
<1>1. /\ Drop(idle) /\ pc' = "pass" /\ current' = 0
      /\ UNCHANGED <<backlog, listening, stop_requested, stopped, processed, drain,
                     generations, retired, told>>
  BY DEF ReapIdle, flags, runtime
<1>2. idle \in SUBSET ActiveSessions
  OBVIOUS
<1> HIDE DEF idle
<1> QED BY <1>0, <1>1, <1>2, EndKeeps DEF Places

\* handle_frame: the request is performed and its reply queued.
LEMMA HandleFrameKeeps ==
  ASSUME SessionInv, HandleFrame
  PROVE  SessionInv'
<1> DEFINE request == Here.inbound[1].of
           r == Outcome(request.op, request.generation)
           reply == Reply(request)
           in == Consumed(Here.inbound)
           out == Here.outbound \o FrameCells(reply)
           x == [Here EXCEPT !.inbound = in, !.outbound = out, !.idle = 0]
<1>0. /\ Owners /\ Queue /\ Bounded /\ Typed /\ generations \in Nat
      /\ told \in Nat /\ told <= generations
      /\ processed \in Nat /\ current \in Nat
  BY SlotsSplit, BuffersSplit DEF SessionInv, Typed
<1>1. /\ pc = "frames" /\ Decode(Here.inbound) = "frame" /\ Effect(request)
      /\ session' = [session EXCEPT ![current] = x]
      /\ processed' = processed + 1 /\ pc' = "flush"
      /\ UNCHANGED <<conn, backlog, listening, stop_requested, stopped, current, drain, told>>
  BY DEF HandleFrame, Here, flags, sockets
<1>2. /\ current \in Slots /\ current \in ActiveSessions /\ Here.used
      /\ Here.inbound \in Seq(Asking(generations))
  BY <1>1, AtSession
<1>3. Here.outbound = <<>>
  BY <1>1 DEF SessionInv, Buffers, Here
<1>4. request \in Message /\ request.floor <= generations /\ Len(Here.inbound) >= 2
  BY <1>1, FirstRequest
<1> HIDE DEF request
<1>5. /\ generations' \in Nat /\ generations <= generations' /\ retired' \in BOOLEAN
      /\ r \in Nat /\ r <= generations'
      /\ request.op = "describe" => r = generations
  BY <1>1, <1>4, Effects
<1> HIDE DEF r
<1>6. /\ reply \in Message /\ reply.generation <= generations'
      /\ reply.op = "describe" => reply.floor <= reply.generation
  <2>1. reply = [id |-> request.id, op |-> request.op, floor |-> request.floor, generation |-> r]
    BY DEF Reply, r
  <2>2. request.id \in Nat /\ request.op \in Request /\ request.floor \in Nat
    BY <1>4 DEF Message
  <2> HIDE DEF reply
  <2>3. reply \in Message
    BY <1>5, <2>1, <2>2 DEF Message
  <2>4. reply.op = request.op /\ reply.floor = request.floor /\ reply.generation = r
    BY <2>1
  <2> QED BY <1>4, <1>5, <2>3, <2>4
<1> HIDE DEF reply
<1>7. out \in Seq(Answering(generations')) /\ Len(out) = 2
  <2>1. /\ [of |-> reply, part |-> 1] \in Answering(generations')
        /\ [of |-> reply, part |-> 2] \in Answering(generations')
    BY <1>6 DEF Answering, Cell
  <2>2. FrameCells(reply) \in Seq(Answering(generations')) /\ Len(FrameCells(reply)) = 2
    BY <2>1 DEF FrameCells
  <2>3. out = FrameCells(reply)
    <3> DEFINE f == FrameCells(reply)
    <3>1. f \in Seq(Answering(generations'))
      BY <2>2
    <3> HIDE DEF f
    <3>2. <<>> \o f = f
      BY <3>1
    <3> QED BY <1>3, <3>2 DEF f
  <2> QED BY <2>2, <2>3
<1>8. in \in Seq(Asking(generations')) /\ Len(in) <= ReceiveCells + 1
  <2> DEFINE q == Here.inbound
  <2>1. q \in Seq(Asking(generations)) /\ Len(q) >= 2 /\ Len(q) \in Nat
    BY <1>2, <1>4
  <2>2. Len(q) <= ReceiveCells + 1 /\ ReceiveCells \in Nat
    BY <1>0, <1>2, CoordinatorAssumption DEF Bounded, Here
  <2>3. in = SubSeq(q, 3, Len(q))
    BY DEF Consumed
  <2> HIDE DEF q, in
  <2>4. in \in Seq(Asking(generations)) /\ Len(in) = Len(q) - 2
    <3> DEFINE m == Len(q)
    <3>1. \A i \in 3..m : q[i] \in Asking(generations)
      BY <2>1
    <3>2. m \in Int /\ 3 \in Int /\ m >= 2
      BY <2>1
    <3>3. in = SubSeq(q, 3, m)
      BY <2>3
    <3> HIDE DEF m
    <3>4. (IF 3 <= m THEN m - 3 + 1 ELSE 0) = m - 2
      BY <3>2
    <3>5. in \in Seq(Asking(generations)) /\ Len(in) = m - 2
      BY <3>1, <3>2, <3>3, <3>4, SubSeqProperties
    <3> QED BY <3>5 DEF m
  <2>5. Asking(generations) \subseteq Asking(generations')
    BY <1>0, <1>5 DEF Asking, Cell, Message
  <2>6. in \in Seq(Asking(generations'))
    BY <2>4, <2>5, SeqMonotone
  <2> QED BY <2>1, <2>2, <2>4, <2>6
<1> HIDE DEF in, out
<1>9. /\ session \in [Slots -> Session(generations')]
      /\ conn' \in [Clients -> Connection(generations')]
  <2>1. session \in [Slots -> Session(generations)] /\ conn \in [Clients -> Connection(generations)]
    BY <1>0 DEF Typed
  <2>2. Session(generations) \subseteq Session(generations')
        /\ Connection(generations) \subseteq Connection(generations')
    BY <1>0, <1>5, TypesMonotone
  <2> QED BY <1>1, <2>1, <2>2
<1>10. /\ x \in Session(generations') /\ x.used = Here.used /\ x.client = Here.client
       /\ x.inbound = in /\ x.outbound = out
  <2>1. Here \in Session(generations')
    BY <1>2, <1>9 DEF Here
  <2> QED BY <1>7, <1>8, <2>1 DEF Session
<1> HIDE DEF x
<1>11. /\ session' \in [Slots -> Session(generations')]
       /\ \A s \in Slots : s # current => session'[s] = session[s]
       /\ session'[current] = x
  BY <1>1, <1>2, <1>9, <1>10
<1>12. Typed'
  <2>1. told' <= generations' /\ processed' \in Nat
    BY <1>0, <1>1, <1>5
  <2> QED BY <1>0, <1>1, <1>5, <1>9, <1>11, <2>1 DEF Typed, Places
<1>13. Owners' /\ Queue' /\ ActiveSessions' = ActiveSessions
  <2>1. \A s \in Slots : /\ session'[s].used = session[s].used
                         /\ session'[s].client = session[s].client
                         /\ ~session[s].used => session'[s] = session[s]
    BY <1>2, <1>10, <1>11 DEF Here
  <2> QED BY <1>1, <2>1, FlowKeeps
<1>14. Bounded'
  <2>1. \A s \in Slots : Len(session'[s].outbound) <= 2 /\ Len(session'[s].inbound) <= ReceiveCells + 1
    <3> SUFFICES ASSUME NEW s \in Slots
                 PROVE  Len(session'[s].outbound) <= 2 /\ Len(session'[s].inbound) <= ReceiveCells + 1
      OBVIOUS
    <3>1. CASE s = current
      <4>1. session'[s].outbound = out /\ session'[s].inbound = in
        BY <1>10, <1>11, <3>1
      <4>2. 2 <= 2
        OBVIOUS
      <4>3. Len(out) <= 2 /\ Len(in) <= ReceiveCells + 1
        BY <1>7, <1>8, <4>2
      <4> QED BY <4>1, <4>3
    <3>2. CASE s # current
      BY <1>0, <1>11, <3>2 DEF Bounded
    <3> QED BY <3>1, <3>2
  <2>2. \A c \in Clients : Len(conn'[c].down) <= SocketCells
    BY <1>0, <1>1 DEF Bounded
  <2> QED BY <2>1, <2>2 DEF Bounded
<1>15. SlotsMatchConnections' /\ Buffers'
  BY <1>1, <1>2, <1>13, <1>14, SlotsSplit, BuffersSplit
<1> QED BY <1>12, <1>13, <1>15 DEF SessionInv

\* receive_some: what it takes is added to less than a frame.
LEMMA ReceiveKeeps ==
  ASSUME SessionInv, Receive
  PROVE  SessionInv'
<1>0. /\ Owners /\ Queue /\ Bounded /\ Typed /\ generations \in Nat
  BY SlotsSplit, BuffersSplit DEF SessionInv, Typed
<1>1. /\ pc = "receive" /\ pc' = "frames"
      /\ UNCHANGED <<backlog, listening, stop_requested, stopped, current, processed, drain,
                     generations, retired, told>>
  BY DEF Receive, flags, runtime
<1>2. PICK n \in 1..Min2(ReceiveCells, Len(Socket.up)) :
        /\ session' = [session EXCEPT ![current] =
             [Here EXCEPT !.inbound = Here.inbound \o SubSeq(Socket.up, 1, n), !.idle = 0]]
        /\ conn' = [conn EXCEPT ![Here.client] =
             [Socket EXCEPT !.up = SubSeq(Socket.up, n + 1, Len(Socket.up))]]
  <2>1. PICK n \in 1..Min2(ReceiveCells, Len(Socket.up)) :
          /\ session' = [session EXCEPT
               ![current].inbound = @ \o SubSeq(Socket.up, 1, n),
               ![current].idle = 0]
          /\ conn' = [conn EXCEPT ![Here.client].up = SubSeq(@, n + 1, Len(@))]
    BY DEF Receive
  <2>2. /\ session' = [session EXCEPT ![current] =
             [Here EXCEPT !.inbound = Here.inbound \o SubSeq(Socket.up, 1, n), !.idle = 0]]
    BY <2>1 DEF Here
  <2>3. conn' = [conn EXCEPT ![Here.client] =
             [Socket EXCEPT !.up = SubSeq(Socket.up, n + 1, Len(Socket.up))]]
    BY <2>1 DEF Socket
  <2> QED BY <2>2, <2>3
<1>3. /\ current \in Slots /\ current \in ActiveSessions /\ Here.used /\ Here.client \in Clients
      /\ Here.inbound \in Seq(Asking(generations)) /\ Socket.up \in Seq(Asking(generations))
      /\ Socket.phase \in {"open", "gone"}
  BY <1>1, AtSession
<1>4. /\ Len(Here.inbound) < 2 /\ Here.outbound = <<>>
  BY <1>1, <1>3, BuffersSplit DEF SessionInv, Here
<1> DEFINE u == Socket.up
           got == SubSeq(u, 1, n)
           left == SubSeq(u, n + 1, Len(u))
           in == Here.inbound \o got
           x == [Here EXCEPT !.inbound = in, !.idle = 0]
           y == [Socket EXCEPT !.up = left]
<1>5. n \in Nat /\ n <= Len(u) /\ n <= ReceiveCells /\ Len(u) \in Nat /\ ReceiveCells \in Nat
  <2>1. u \in Seq(Asking(generations))
    BY <1>3
  <2>2. n \in 1..(IF ReceiveCells < Len(u) THEN ReceiveCells ELSE Len(u))
    BY <1>2 DEF Min2
  <2> HIDE DEF u
  <2>3. Len(u) \in Nat
    BY <2>1
  <2> QED BY <2>2, <2>3, CoordinatorAssumption
<1>6. /\ got \in Seq(Asking(generations)) /\ Len(got) = n
      /\ left \in Seq(Asking(generations))
  <2>1. u \in Seq(Asking(generations))
    BY <1>3
  <2> HIDE DEF u
  <2> QED BY <1>5, <2>1, SubSeqProperties
<1> HIDE DEF got, left
<1>7. in \in Seq(Asking(generations)) /\ Len(in) <= ReceiveCells + 1
  <2> DEFINE q == Here.inbound
  <2>1. q \in Seq(Asking(generations)) /\ Len(q) < 2 /\ Len(q) \in Nat
    BY <1>3, <1>4
  <2> HIDE DEF q
  <2>2. q \o got \in Seq(Asking(generations)) /\ Len(q \o got) = Len(q) + n
    BY <1>6, <2>1, ConcatProperties
  <2>3. Len(q) + n <= ReceiveCells + 1
    BY <1>5, <2>1
  <2> QED BY <2>2, <2>3 DEF q
<1> HIDE DEF in
<1>8. /\ Here \in Session(generations) /\ Socket \in Connection(generations)
      /\ session \in [Slots -> Session(generations)] /\ conn \in [Clients -> Connection(generations)]
  BY <1>0, <1>3 DEF Typed, Here, Socket
<1>9. /\ x \in Session(generations) /\ x.used = Here.used /\ x.client = Here.client
      /\ x.inbound = in /\ x.outbound = Here.outbound
  BY <1>7, <1>8 DEF Session
<1>10. /\ y \in Connection(generations) /\ y.phase = Socket.phase /\ y.down = Socket.down
       /\ y.part = Socket.part
  BY <1>6, <1>8 DEF Connection
<1>11. /\ session' \in [Slots -> Session(generations)]
       /\ \A s \in Slots : s # current => session'[s] = session[s]
       /\ session'[current] = x
  <2>1. session' = [session EXCEPT ![current] = x]
    BY <1>2 DEF in, got
  <2> HIDE DEF x
  <2> QED BY <1>3, <1>8, <1>9, <2>1
<1>12. /\ conn' \in [Clients -> Connection(generations)]
       /\ \A c \in Clients : c # Here.client => conn'[c] = conn[c]
       /\ conn'[Here.client] = y
  <2>1. conn' = [conn EXCEPT ![Here.client] = y]
    BY <1>2 DEF left
  <2> HIDE DEF y
  <2> QED BY <1>3, <1>8, <1>10, <2>1
<1> HIDE DEF x, y
<1>13. Typed'
  BY <1>0, <1>1, <1>11, <1>12 DEF Typed, Places
<1>14. Owners' /\ Queue' /\ ActiveSessions' = ActiveSessions
  <2>1. \A s \in Slots : /\ session'[s].used = session[s].used
                         /\ session'[s].client = session[s].client
                         /\ ~session[s].used => session'[s] = session[s]
    BY <1>3, <1>9, <1>11 DEF Here
  <2>2. \A c \in Clients : /\ conn'[c].phase = conn[c].phase
                           /\ conn[c].phase = "backlog" =>
                                conn'[c].down = conn[c].down /\ conn'[c].part = conn[c].part
    BY <1>3, <1>10, <1>12 DEF Socket
  <2> QED BY <1>1, <2>1, <2>2, FlowKeeps
<1>15. Bounded'
  <2>1. Len(Here.outbound) <= 2
    BY <1>0, <1>3 DEF Bounded, Here
  <2>2. \A s \in Slots : Len(session'[s].outbound) <= 2 /\ Len(session'[s].inbound) <= ReceiveCells + 1
    BY <1>0, <1>7, <1>9, <1>11, <2>1 DEF Bounded
  <2>3. \A c \in Clients : Len(conn'[c].down) <= SocketCells
    BY <1>0, <1>10, <1>12 DEF Bounded, Socket
  <2> QED BY <2>2, <2>3 DEF Bounded
<1>16. session'[current'].outbound = <<>>
  BY <1>1, <1>4, <1>9, <1>11
<1>17. SlotsMatchConnections' /\ Buffers'
  BY <1>1, <1>3, <1>14, <1>15, <1>16, SlotsSplit, BuffersSplit
<1> QED BY <1>13, <1>14, <1>17 DEF SessionInv

\* Without a free slot every slot is in use.
LEMMA SlotFree ==
  ASSUME Cardinality(ActiveSessions) < MaxSessions
  PROVE  /\ FreeSlot \in Slots \ ActiveSessions
         /\ FreeSlot \in Nat
<1>1. MaxSessions \in Nat /\ 1 \in Int /\ MaxSessions \in Int /\ MaxSessions >= 1
  BY CoordinatorAssumption
<1>2. IsFiniteSet(Slots) /\ Cardinality(Slots) = MaxSessions
  <2>1. IsFiniteSet(1..MaxSessions)
        /\ Cardinality(1..MaxSessions) = IF 1 > MaxSessions THEN 0 ELSE MaxSessions - 1 + 1
    BY <1>1, FS_Interval
  <2> QED BY <1>1, <2>1 DEF Slots
<1>3. ActiveSessions \subseteq Slots /\ Slots \subseteq Nat
  BY ActiveSlots
<1>4. Slots \ ActiveSessions # {}
  <2> SUFFICES ASSUME Slots \ ActiveSessions = {} PROVE FALSE
    OBVIOUS
  <2>1. ActiveSessions = Slots
    BY <1>3
  <2> QED BY <1>1, <1>2, <2>1
<1> DEFINE N == Slots \ ActiveSessions
<1>5. N \subseteq Nat /\ N # {}
  BY <1>3, <1>4
<1>6. FreeSlot = CHOOSE s \in N : \A t \in N : s <= t
  BY DEF FreeSlot
<1> HIDE DEF N
<1>7. \E n \in N : \A m \in N : n <= m
  BY <1>5, Least
<1>8. FreeSlot \in N
  BY <1>6, <1>7
<1> QED BY <1>5, <1>8 DEF N

\* The oldest connection of the backlog.
LEMMA FirstInBacklog ==
  ASSUME SessionInv, backlog # <<>>, backlog' = Tail(backlog)
  PROVE  LET h == Head(backlog) IN
         /\ h \in Clients /\ backlog' \in Seq(Clients)
         /\ conn[h].phase \in {"backlog", "gone"}
         /\ \A s \in ActiveSessions : session[s].client # h
         /\ \A i \in DOMAIN backlog' :
              backlog'[i] # h /\ \E j \in DOMAIN backlog : backlog'[i] = backlog[j]
         /\ \A i, j \in 1..Len(backlog') : backlog'[i] = backlog'[j] => i = j
         /\ \A i \in 1..Len(backlog') : conn[backlog'[i]].phase \in {"backlog", "gone"}
<1> DEFINE h == Head(backlog)
<1>0. Owners /\ Queue /\ Typed
  BY SlotsSplit DEF SessionInv
<1>1. /\ backlog \in Seq(Clients) /\ Len(backlog) \in Nat /\ Len(backlog) > 0
      /\ backlog' \in Seq(Clients) /\ Len(backlog') = Len(backlog) - 1
      /\ \A i \in 1..Len(backlog') : backlog'[i] = backlog[i + 1]
      /\ h = backlog[1] /\ h \in Clients
  BY <1>0 DEF Typed
<1>2. 1 \in DOMAIN backlog /\ 1 \in 1..Len(backlog)
  BY <1>1
<1> HIDE DEF h
<1>3. conn[h].phase \in {"backlog", "gone"} /\ \A s \in ActiveSessions : session[s].client # h
  BY <1>0, <1>1, <1>2 DEF Queue, Owners
<1>4. ASSUME NEW i \in 1..Len(backlog')
      PROVE  /\ i + 1 \in 1..Len(backlog) /\ i + 1 \in DOMAIN backlog /\ i \in Nat
             /\ backlog'[i] = backlog[i + 1] /\ backlog'[i] # h
  <2>1. i + 1 \in 1..Len(backlog) /\ i + 1 \in DOMAIN backlog /\ i + 1 # 1 /\ i \in Nat
    BY <1>1
  <2> QED BY <1>0, <1>1, <1>2, <2>1 DEF Queue
<1>5. \A i, j \in 1..Len(backlog') : backlog'[i] = backlog'[j] => i = j
  <2> SUFFICES ASSUME NEW i \in 1..Len(backlog'), NEW j \in 1..Len(backlog'),
                      backlog'[i] = backlog'[j]
               PROVE  i = j
    OBVIOUS
  <2>1. i + 1 = j + 1
    BY <1>0, <1>4 DEF Queue
  <2>2. i \in Nat /\ j \in Nat
    BY <1>4
  <2> QED BY <2>1, <2>2
<1>6. \A i \in 1..Len(backlog') : conn[backlog'[i]].phase \in {"backlog", "gone"}
  BY <1>0, <1>4 DEF Queue
<1>7. \A i \in DOMAIN backlog' :
        backlog'[i] # h /\ \E j \in DOMAIN backlog : backlog'[i] = backlog[j]
  <2>1. DOMAIN backlog' = 1..Len(backlog')
    BY <1>1
  <2> QED BY <1>4, <2>1
<1> QED BY <1>1, <1>3, <1>5, <1>6, <1>7 DEF h

\* accept_pending takes the oldest connection into the first free slot.
LEMMA AcceptKeeps ==
  ASSUME SessionInv, Accept
  PROVE  SessionInv'
<1> DEFINE h == Head(backlog)
           f == FreeSlot
           x == [NoSession EXCEPT !.used = TRUE, !.client = h]
           y == [conn[h] EXCEPT !.phase = IF conn[h].phase = "backlog" THEN "open" ELSE conn[h].phase]
<1>0. /\ Owners /\ Queue /\ Bounded /\ Typed /\ generations \in Nat
      /\ conn \in [Clients -> Connection(generations)]
      /\ session \in [Slots -> Session(generations)]
  BY SlotsSplit, BuffersSplit DEF SessionInv, Typed
<1>1. /\ backlog # <<>> /\ Cardinality(ActiveSessions) < MaxSessions
      /\ session' = [session EXCEPT ![f] = x]
      /\ conn' = [conn EXCEPT ![h] = y]
      /\ backlog' = Tail(backlog)
      /\ current' = CHOOSE s \in ActiveSessions \cup {f} : \A t \in ActiveSessions \cup {f} : s <= t
      /\ pc' = "flush" /\ processed' = 0
      /\ UNCHANGED <<listening, stop_requested, stopped, drain, generations, retired, told>>
  BY DEF Accept, flags, runtime
<1>2. /\ h \in Clients /\ backlog' \in Seq(Clients)
      /\ conn[h].phase \in {"backlog", "gone"}
      /\ \A s \in ActiveSessions : session[s].client # h
      /\ \A i \in DOMAIN backlog' :
           backlog'[i] # h /\ \E j \in DOMAIN backlog : backlog'[i] = backlog[j]
      /\ \A i, j \in 1..Len(backlog') : backlog'[i] = backlog'[j] => i = j
      /\ \A i \in 1..Len(backlog') : conn[backlog'[i]].phase \in {"backlog", "gone"}
  BY <1>1, FirstInBacklog
<1>3. f \in Slots \ ActiveSessions /\ f \in Nat
  BY <1>1, SlotFree
<1> HIDE DEF h, f
<1>4. /\ x \in Session(generations) /\ x.used = TRUE /\ x.client = h
      /\ x.inbound = <<>> /\ x.outbound = <<>>
  <2>1. NoSession \in Session(generations) /\ NoSession.inbound = <<>> /\ NoSession.outbound = <<>>
    BY NoSessionTyped DEF NoSession
  <2> QED BY <1>2, <2>1 DEF Session
<1>5. /\ y \in Connection(generations) /\ y.phase \in {"open", "gone"}
      /\ y.down = conn[h].down /\ y.part = conn[h].part
      /\ y.phase = "open" \/ conn[h].phase = "gone"
  <2>1. conn[h] \in Connection(generations)
    BY <1>0, <1>2
  <2> QED BY <1>2, <2>1 DEF Connection
<1> HIDE DEF x, y
<1>6. /\ session' \in [Slots -> Session(generations)]
      /\ \A s \in Slots : s # f => session'[s] = session[s]
      /\ session'[f] = x
  BY <1>0, <1>1, <1>3, <1>4
<1>7. /\ conn' \in [Clients -> Connection(generations)]
      /\ \A c \in Clients : c # h => conn'[c] = conn[c]
      /\ conn'[h] = y
  BY <1>0, <1>1, <1>2, <1>5
<1>8. ActiveSessions' = ActiveSessions \cup {f}
  BY <1>3, <1>4, <1>6 DEF ActiveSessions
<1>9. current' \in ActiveSessions' /\ current' \in Nat
  <2> DEFINE N == ActiveSessions \cup {f}
  <2>1. N \subseteq Nat /\ N # {}
    BY <1>3, ActiveSlots
  <2>2. current' = CHOOSE s \in N : \A t \in N : s <= t
    BY <1>1
  <2> HIDE DEF N
  <2>3. \E n \in N : \A m \in N : n <= m
    BY <2>1, Least
  <2>4. current' \in N
    BY <2>2, <2>3
  <2> QED BY <1>8, <2>1, <2>4 DEF N
<1>10. Typed'
  BY <1>0, <1>1, <1>2, <1>6, <1>7, <1>9 DEF Typed, Places
<1>11. Owners'
  <2>0. ActiveSessions \subseteq Slots /\ f \notin ActiveSessions
    BY <1>3, ActiveSlots
  <2>1. \A s \in ActiveSessions : session'[s] = session[s]
    BY <1>6, <2>0
  <2>2. session'[f].client = h
    BY <1>4, <1>6
  <2>3. \A s, t \in ActiveSessions \cup {f} : session'[s].client = session'[t].client => s = t
    BY <1>0, <1>2, <2>1, <2>2 DEF Owners
  <2>4. ASSUME NEW s \in ActiveSessions \cup {f}
        PROVE  /\ session'[s].client \in Clients
               /\ conn'[session'[s].client].phase \in {"open", "gone"}
               /\ \A i \in DOMAIN backlog' : backlog'[i] # session'[s].client
    <3>1. CASE s = f
      BY <1>2, <1>5, <1>7, <2>2, <3>1
    <3>2. CASE s \in ActiveSessions
      <4>1. /\ session[s].client \in Clients /\ session[s].client # h
            /\ conn[session[s].client].phase \in {"open", "gone"}
            /\ \A i \in DOMAIN backlog : backlog[i] # session[s].client
        BY <1>0, <1>2, <3>2 DEF Owners
      <4> QED BY <1>2, <1>7, <2>1, <3>2, <4>1
    <3> QED BY <3>1, <3>2
  <2>5. ASSUME NEW c \in Clients, conn'[c].phase = "open"
        PROVE  \E s \in ActiveSessions \cup {f} : session'[s].client = c
    <3>1. CASE c = h
      BY <2>2, <3>1
    <3>2. CASE c # h
      <4>1. conn[c].phase = "open"
        BY <1>7, <2>5, <3>2
      <4>2. PICK s \in ActiveSessions : session[s].client = c
        BY <1>0, <4>1 DEF Owners
      <4> QED BY <2>1, <4>2
    <3> QED BY <3>1, <3>2
  <2>6. \A s \in Slots \ (ActiveSessions \cup {f}) : session'[s] = NoSession
    BY <1>0, <1>6 DEF Owners
  <2> QED BY <1>8, <2>3, <2>4, <2>5, <2>6 DEF Owners
<1>12. Queue'
  <2>1. \A i \in 1..Len(backlog') : conn'[backlog'[i]].phase \in {"backlog", "gone"}
    <3> SUFFICES ASSUME NEW i \in 1..Len(backlog')
                 PROVE  conn'[backlog'[i]].phase \in {"backlog", "gone"}
      OBVIOUS
    <3>1. backlog'[i] # h /\ backlog'[i] \in Clients
      BY <1>2
    <3> QED BY <1>2, <1>7, <3>1
  <2>2. \A c \in Clients : conn'[c].phase = "backlog" => conn'[c].down = <<>> /\ conn'[c].part = 0
    BY <1>0, <1>5, <1>7 DEF Queue
  <2> QED BY <1>2, <2>1, <2>2 DEF Queue
<1>13. Bounded'
  <2>1. Len(<<>>) = 0 /\ 0 <= 2 /\ 0 <= ReceiveCells + 1
    BY CoordinatorAssumption
  <2>2. \A s \in Slots : Len(session'[s].outbound) <= 2 /\ Len(session'[s].inbound) <= ReceiveCells + 1
    <3> SUFFICES ASSUME NEW s \in Slots
                 PROVE  Len(session'[s].outbound) <= 2 /\ Len(session'[s].inbound) <= ReceiveCells + 1
      OBVIOUS
    <3>1. CASE s = f
      BY <1>4, <1>6, <2>1, <3>1
    <3>2. CASE s # f
      BY <1>0, <1>6, <3>2 DEF Bounded
    <3> QED BY <3>1, <3>2
  <2>3. \A c \in Clients : Len(conn'[c].down) <= SocketCells
    BY <1>0, <1>5, <1>7 DEF Bounded
  <2> QED BY <2>2, <2>3 DEF Bounded
<1>14. SlotsMatchConnections' /\ Buffers'
  BY <1>1, <1>9, <1>11, <1>13, SlotsSplit, BuffersSplit
<1> QED BY <1>10, <1>12, <1>14 DEF SessionInv

\* shutdown closes the listener with the connections it still holds.
LEMMA ShutdownBeginsKeeps ==
  ASSUME SessionInv, ShutdownBegins
  PROVE  SessionInv'
<1>0. /\ Owners /\ Queue /\ Bounded /\ Typed /\ generations \in Nat
      /\ conn \in [Clients -> Connection(generations)]
      /\ stopped \in BOOLEAN /\ processed \in Nat /\ backlog \in Seq(Clients)
  BY SlotsSplit, BuffersSplit DEF SessionInv, Typed
<1>1. /\ stop_requested' = TRUE /\ listening' = FALSE /\ backlog' = <<>>
      /\ conn' = [c \in Clients |->
                    IF \E i \in DOMAIN backlog : backlog[i] = c
                    THEN CloseConnection(conn[c]) ELSE conn[c]]
      /\ drain' = DrainWindow /\ Visit(1, "closed")
      /\ UNCHANGED <<session, stopped, processed, generations, retired, told>>
  BY DEF ShutdownBegins, runtime
<1>2. /\ pc' \in Places /\ current' \in Nat /\ pc' \notin {"frames", "receive"}
      /\ pc' \in {"flush", "drain"} => current' \in ActiveSessions
  BY <1>1, VisitMoves
<1>3. ASSUME NEW c \in Clients
      PROVE  /\ conn'[c] \in Connection(generations)
             /\ conn'[c] = conn[c] \/ conn'[c].phase \in {"none", "closed"}
             /\ conn'[c].down = conn[c].down \/ conn'[c].down = <<>>
             /\ (\A i \in DOMAIN backlog : backlog[i] # c) => conn'[c] = conn[c]
  BY <1>0, <1>1, ClosedTyped
<1>4. conn' \in [Clients -> Connection(generations)]
  BY <1>1, <1>3
<1>5. DrainWindow \in Nat
  BY CoordinatorAssumption
<1>6. Typed'
  <2>1. <<>> \in Seq(Clients)
    OBVIOUS
  <2> QED BY <1>0, <1>1, <1>2, <1>4, <1>5, <2>1 DEF Typed
<1>7. ActiveSessions' = ActiveSessions /\ DOMAIN backlog' = {}
  BY <1>1 DEF ActiveSessions
<1>8. Owners'
  <2>1. ASSUME NEW s \in ActiveSessions
        PROVE  /\ session[s].client \in Clients
               /\ conn'[session[s].client].phase \in {"open", "gone"}
    <3>1. /\ session[s].client \in Clients
          /\ conn[session[s].client].phase \in {"open", "gone"}
          /\ \A i \in DOMAIN backlog : backlog[i] # session[s].client
      BY <1>0 DEF Owners
    <3> QED BY <1>3, <3>1
  <2>2. \A c \in Clients : conn'[c].phase = "open" => conn'[c] = conn[c]
    BY <1>3
  <2> QED BY <1>0, <1>1, <1>7, <2>1, <2>2 DEF Owners
<1>9. Queue'
  <2>1. 1..Len(backlog') = {}
    BY <1>1
  <2>2. \A c \in Clients : conn'[c].phase = "backlog" => conn'[c] = conn[c]
    BY <1>3
  <2> QED BY <1>0, <2>1, <2>2 DEF Queue
<1>10. Bounded'
  <2>1. Len(<<>>) = 0 /\ 0 <= SocketCells
    BY CoordinatorAssumption
  <2>2. \A c \in Clients : Len(conn'[c].down) <= SocketCells
    BY <1>0, <1>3, <2>1 DEF Bounded
  <2> QED BY <1>0, <1>1, <2>2 DEF Bounded
<1>11. SlotsMatchConnections' /\ Buffers'
  BY <1>2, <1>7, <1>8, <1>10, SlotsSplit, BuffersSplit
<1> QED BY <1>6, <1>9, <1>11 DEF SessionInv

-----------------------------------------------------------------------------
(* Time and the clients keep the invariant *)

\* Time passes: nothing else of a session changes.
LEMMA TickFields ==
  ASSUME SessionInv, Tick, NEW s \in Slots
  PROVE  /\ session'[s] \in Session(generations)
         /\ session'[s].used = session[s].used /\ session'[s].client = session[s].client
         /\ session'[s].inbound = session[s].inbound
         /\ session'[s].outbound = session[s].outbound
         /\ ~session[s].used => session'[s] = session[s]
<1> DEFINE m == Min2(session[s].idle + 1, IdleTimeout)
           x == [session[s] EXCEPT !.idle = m]
<1>1. session[s] \in Session(generations)
  BY DEF SessionInv, Typed
<1>2. m \in Nat
  <2>1. session[s].idle \in Nat /\ IdleTimeout \in Nat
    BY <1>1, CoordinatorAssumption DEF Session
  <2> QED BY <2>1 DEF Min2
<1> HIDE DEF m
<1>3. /\ x \in Session(generations) /\ x.used = session[s].used /\ x.client = session[s].client
      /\ x.inbound = session[s].inbound /\ x.outbound = session[s].outbound
  BY <1>1, <1>2 DEF Session
<1>4. session'[s] = IF session[s].used THEN x ELSE session[s]
  BY DEF Tick, m
<1> QED BY <1>1, <1>3, <1>4

\* Time passes for the sessions in use.
LEMMA TickKeeps ==
  ASSUME SessionInv, Tick
  PROVE  SessionInv'
<1>0. /\ Owners /\ Queue /\ Bounded /\ Typed /\ generations \in Nat
      /\ session \in [Slots -> Session(generations)]
  BY SlotsSplit, BuffersSplit DEF SessionInv, Typed
<1>1. /\ session' = [s \in Slots |->
           IF session[s].used
           THEN [session[s] EXCEPT !.idle = Min2(session[s].idle + 1, IdleTimeout)]
           ELSE session[s]]
      /\ UNCHANGED <<conn, backlog, listening, stop_requested, stopped, pc, current, processed,
                     drain, generations, retired, told>>
  BY DEF Tick, sockets, flags, thread, runtime
<1>2. ASSUME NEW s \in Slots
      PROVE  /\ session'[s] \in Session(generations)
             /\ session'[s].used = session[s].used /\ session'[s].client = session[s].client
             /\ session'[s].inbound = session[s].inbound
             /\ session'[s].outbound = session[s].outbound
             /\ ~session[s].used => session'[s] = session[s]
  BY TickFields
<1>3. session' \in [Slots -> Session(generations)]
  BY <1>1, <1>2
<1>4. Typed'
  BY <1>0, <1>1, <1>3 DEF Typed
<1>5. Owners' /\ Queue' /\ ActiveSessions' = ActiveSessions
  BY <1>1, <1>2, FlowKeeps
<1>6. Bounded'
  BY <1>0, <1>1, <1>2 DEF Bounded
<1>7. /\ pc \in {"flush", "frames", "receive", "drain"} => current \in ActiveSessions
      /\ pc = "receive" /\ current \in Slots => Len(session[current].inbound) < 2
      /\ pc \in {"frames", "receive"} => session[current].outbound = <<>>
  BY SlotsSplit, BuffersSplit DEF SessionInv
<1>8. pc \in {"frames", "receive"} => current \in Slots
  BY <1>7, ActiveSlots
<1>9. SlotsMatchConnections' /\ Buffers'
  BY <1>1, <1>2, <1>5, <1>6, <1>7, <1>8, SlotsSplit, BuffersSplit
<1> QED BY <1>4, <1>5, <1>9 DEF SessionInv

\* A step of one client changes its own connection, and the backlog at most
\* by adding a client that had none.
LEMMA ClientKeeps ==
  ASSUME SessionInv, NEW c \in Clients, NEW x \in Connection(generations),
         conn' = [conn EXCEPT ![c] = x],
         \/ backlog' = backlog /\ x.phase = conn[c].phase
         \/ backlog' = backlog /\ conn[c].phase \in {"open", "backlog"} /\ x.phase = "gone"
         \/ backlog' = backlog /\ conn[c].phase = "closed" /\ x.phase = "none"
         \/ backlog' = Append(backlog, c) /\ conn[c].phase = "none" /\ x.phase = "backlog",
         Len(x.down) <= SocketCells,
         x.phase = "backlog" => x.down = <<>> /\ x.part = 0,
         told' \in Nat, told' <= generations,
         UNCHANGED <<session, listening, stop_requested, stopped, pc, current, processed,
                     drain, generations, retired>>
  PROVE  SessionInv'
<1>0. /\ Owners /\ Queue /\ Bounded /\ Typed /\ generations \in Nat
      /\ conn \in [Clients -> Connection(generations)] /\ backlog \in Seq(Clients)
  BY SlotsSplit, BuffersSplit DEF SessionInv, Typed
<1>1. /\ conn' \in [Clients -> Connection(generations)] /\ conn'[c] = x
      /\ \A d \in Clients : d # c => conn'[d] = conn[d]
  BY <1>0
<1>2. /\ backlog' \in Seq(Clients)
      /\ \/ backlog' = backlog
         \/ /\ conn[c].phase = "none" /\ x.phase = "backlog"
            /\ Len(backlog') = Len(backlog) + 1
            /\ backlog'[Len(backlog) + 1] = c
            /\ \A i \in 1..Len(backlog) : backlog'[i] = backlog[i]
  <2>1. CASE backlog' = backlog
    BY <1>0, <2>1
  <2>2. CASE backlog' = Append(backlog, c) /\ conn[c].phase = "none" /\ x.phase = "backlog"
    <3>1. /\ backlog' \in Seq(Clients) /\ Len(backlog') = Len(backlog) + 1
          /\ backlog'[Len(backlog) + 1] = c
          /\ \A i \in 1..Len(backlog) : backlog'[i] = backlog[i]
      BY <1>0, <2>2, AppendProperties
    <3> QED
      BY <2>2, <3>1
  <2> QED
    BY <2>1, <2>2
<1>3. Typed'
  BY <1>0, <1>1, <1>2 DEF Typed
<1>4. \A d \in Clients : /\ conn'[d].phase = "open" => conn[d].phase = "open"
                         /\ conn[d].phase \in {"open", "gone"} =>
                              conn'[d].phase \in {"open", "gone"}
  BY <1>1
<1>5. Len(backlog) \in Nat /\ DOMAIN backlog = 1..Len(backlog) /\ DOMAIN backlog' = 1..Len(backlog')
  BY <1>0, <1>2
<1>6. \A i \in DOMAIN backlog' :
        \/ i \in DOMAIN backlog /\ backlog'[i] = backlog[i]
        \/ /\ i = Len(backlog) + 1 /\ backlog'[i] = c /\ conn[c].phase = "none"
           /\ x.phase = "backlog"
  <2> SUFFICES ASSUME NEW i \in DOMAIN backlog'
               PROVE  \/ i \in DOMAIN backlog /\ backlog'[i] = backlog[i]
                      \/ /\ i = Len(backlog) + 1 /\ backlog'[i] = c /\ conn[c].phase = "none"
                         /\ x.phase = "backlog"
    OBVIOUS
  <2>1. CASE backlog' = backlog
    BY <2>1
  <2>2. CASE /\ conn[c].phase = "none" /\ x.phase = "backlog"
             /\ Len(backlog') = Len(backlog) + 1
             /\ backlog'[Len(backlog) + 1] = c
             /\ \A j \in 1..Len(backlog) : backlog'[j] = backlog[j]
    <3>1. i \in 1..(Len(backlog) + 1)
      BY <1>5, <2>2, SMTT(30)
    <3>2. i \in 1..Len(backlog) \/ i = Len(backlog) + 1
      <4>1. \A n \in Nat : \A j \in 1..(n + 1) : j \in 1..n \/ j = n + 1
        OBVIOUS
      <4> QED BY <1>5, <3>1, <4>1
    <3> QED BY <1>5, <2>2, <3>2
  <2> QED BY <1>2, <2>1, <2>2
<1>7. Owners' /\ ActiveSessions' = ActiveSessions
  <2>1. \A i \in DOMAIN backlog' :
          \/ \E j \in DOMAIN backlog : backlog'[i] = backlog[j]
          \/ conn[backlog'[i]].phase \notin {"open", "gone"}
    BY <1>6, SMTT(30)
  <2> QED BY <1>0, <1>4, <2>1, OwnersSame
<1>8. Queue'
  <2>1. \A i \in DOMAIN backlog : backlog[i] \in Clients /\ conn[backlog[i]].phase \in {"backlog", "gone"}
    <3>1. \A i \in DOMAIN backlog : backlog[i] \in Clients
      BY <1>0
    <3>2. \A i \in 1..Len(backlog) : conn[backlog[i]].phase \in {"backlog", "gone"}
      BY <1>0 DEF Queue
    <3> QED BY <1>5, <3>1, <3>2
  <2>2. \A i, j \in DOMAIN backlog' : backlog'[i] = backlog'[j] => i = j
    <3> SUFFICES ASSUME NEW i \in DOMAIN backlog', NEW j \in DOMAIN backlog',
                        backlog'[i] = backlog'[j]
                 PROVE  i = j
      OBVIOUS
    <3>1. \A k, l \in DOMAIN backlog : backlog[k] = backlog[l] => k = l
      BY <1>0, <1>5 DEF Queue
    <3> QED BY <1>6, <2>1, <3>1, SMTT(30)
  <2>3. \A i \in DOMAIN backlog' : conn'[backlog'[i]].phase \in {"backlog", "gone"}
    <3> SUFFICES ASSUME NEW i \in DOMAIN backlog'
                 PROVE  conn'[backlog'[i]].phase \in {"backlog", "gone"}
      OBVIOUS
    <3>1. CASE i \in DOMAIN backlog /\ backlog'[i] = backlog[i]
      <4>1. backlog[i] \in Clients /\ conn[backlog[i]].phase \in {"backlog", "gone"}
        BY <2>1, <3>1
      <4>2. CASE backlog[i] = c
        BY <1>1, <3>1, <4>1, <4>2
      <4>3. CASE backlog[i] # c
        BY <1>1, <3>1, <4>1, <4>3
      <4> QED BY <4>2, <4>3
    <3>2. CASE backlog'[i] = c /\ x.phase = "backlog"
      BY <1>1, <3>2
    <3> QED BY <1>6, <3>1, <3>2
  <2>4. \A d \in Clients : conn'[d].phase = "backlog" => conn'[d].down = <<>> /\ conn'[d].part = 0
    BY <1>0, <1>1 DEF Queue
  <2> QED BY <1>5, <2>2, <2>3, <2>4, ZenonT(30) DEF Queue
<1>9. Bounded'
  BY <1>0, <1>1 DEF Bounded
<1>10. SlotsMatchConnections' /\ Buffers'
  <2>1. /\ pc \in {"flush", "frames", "receive", "drain"} => current \in ActiveSessions
        /\ pc = "receive" /\ current \in Slots => Len(session[current].inbound) < 2
        /\ pc \in {"frames", "receive"} => session[current].outbound = <<>>
    BY SlotsSplit, BuffersSplit DEF SessionInv
  <2> QED BY <1>7, <1>9, <2>1, SlotsSplit, BuffersSplit
<1> QED BY <1>3, <1>8, <1>10 DEF SessionInv

LEMMA ConnectKeeps ==
  ASSUME SessionInv, NEW c \in Clients, Connect(c)
  PROVE  SessionInv'
<1> DEFINE x == [conn[c] EXCEPT !.phase = "backlog"]
<1>0. Typed /\ conn[c] \in Connection(generations) /\ told \in Nat /\ told <= generations
  BY DEF SessionInv, Typed
<1>1. /\ conn[c] = NoConnection /\ conn' = [conn EXCEPT ![c] = x] /\ backlog' = Append(backlog, c)
      /\ UNCHANGED <<session, listening, stop_requested, stopped, pc, current, processed, drain,
                     generations, retired, told>>
  BY DEF Connect, flags, thread, runtime
<1>2. conn[c].phase = "none" /\ conn[c].down = <<>> /\ conn[c].part = 0
  BY <1>1 DEF NoConnection
<1>3. /\ x \in Connection(generations) /\ x.phase = "backlog" /\ x.down = <<>> /\ x.part = 0
  BY <1>0, <1>2 DEF Connection
<1>4. Len(x.down) <= SocketCells
  <2>1. Len(<<>>) = 0 /\ 0 <= SocketCells
    BY CoordinatorAssumption
  <2> QED BY <1>3, <2>1
<1> HIDE DEF x
<1> QED BY <1>0, <1>1, <1>2, <1>3, <1>4, ClientKeeps

\* A request asks for what its client has been told of.
LEMMA SendKeeps ==
  ASSUME SessionInv, NEW c \in Clients, NEW op \in Operations[c],
         NEW generation \in IF op = "publish" THEN 2..MaxGeneration ELSE {0},
         Send(c, op, generation)
  PROVE  SessionInv'
<1> DEFINE request == [id |-> conn[c].next, op |-> op,
                       floor |-> IF op = "describe" THEN told ELSE 0,
                       generation |-> generation]
           up == conn[c].up \o FrameCells(request)
           w == Append(conn[c].waiting, request.id)
           n == (conn[c].next + 1) % (Window + 1)
           x == [conn[c] EXCEPT !.up = up, !.waiting = w, !.next = n]
<1>0. /\ Typed /\ conn[c] \in Connection(generations) /\ told \in Nat /\ told <= generations
      /\ Queue /\ Bounded
  BY BuffersSplit DEF SessionInv, Typed
<1>1. /\ conn' = [conn EXCEPT ![c] = x]
      /\ UNCHANGED <<backlog, session, listening, stop_requested, stopped, pc, current, processed,
                     drain, generations, retired, told>>
  BY DEF Send, flags, thread, runtime
<1>2. /\ conn[c].up \in Seq(Asking(generations)) /\ conn[c].waiting \in Seq(Nat)
      /\ conn[c].next \in Nat
  BY <1>0, ConnectionFields
<1>3. request \in Message /\ request.floor <= generations /\ request.id \in Nat
  <2>1. op \in Request /\ generation \in Nat
    BY CoordinatorAssumption
  <2> DEFINE floor == IF op = "describe" THEN told ELSE 0
  <2>2. generations \in Nat
    BY <1>0 DEF Typed
  <2>3. floor \in Nat /\ floor <= generations
    <3>1. CASE op = "describe"
      BY <1>0, <3>1
    <3>2. CASE op # "describe"
      BY <2>2, <3>2
    <3> QED BY <3>1, <3>2
  <2>4. request = [id |-> conn[c].next, op |-> op, floor |-> floor, generation |-> generation]
    OBVIOUS
  <2> HIDE DEF floor, request
  <2> QED BY <1>2, <2>1, <2>3, <2>4 DEF Message
<1>4. up \in Seq(Asking(generations))
  <2> HIDE DEF request
  <2>1. /\ [of |-> request, part |-> 1] \in Asking(generations)
        /\ [of |-> request, part |-> 2] \in Asking(generations)
    BY <1>3 DEF Asking, Cell
  <2>2. FrameCells(request) \in Seq(Asking(generations))
    BY <2>1 DEF FrameCells
  <2> QED BY <1>2, <2>2, ConcatProperties
<1>5. w \in Seq(Nat)
  <2> HIDE DEF request
  <2> QED BY <1>2, <1>3, AppendProperties
<1>6. n \in Nat
  BY <1>2, CoordinatorAssumption
<1> HIDE DEF up, w, n
<1>7. /\ x \in Connection(generations) /\ x.phase = conn[c].phase /\ x.down = conn[c].down
      /\ x.part = conn[c].part
  BY <1>0, <1>4, <1>5, <1>6 DEF Connection
<1>8. /\ Len(x.down) <= SocketCells
      /\ x.phase = "backlog" => x.down = <<>> /\ x.part = 0
  BY <1>0, <1>7 DEF Bounded, Queue
<1> HIDE DEF x
<1> QED BY <1>0, <1>1, <1>7, <1>8, ClientKeeps

-----------------------------------------------------------------------------
(* What fits stays fitting *)

LEMMA FitsFirst ==
  ASSUME NEW S \in SUBSET Cell, NEW T \in SUBSET Cell, NEW a \in Seq(S), NEW b \in Seq(T),
         NEW w \in Seq(Nat), NEW p \in {0, 1}, Fits(a \o b, w, p)
  PROVE  Fits(a, w, p)
<1>1. a \in Seq(Cell) /\ b \in Seq(Cell)
  BY SeqMonotone
<1>2. /\ Len(a \o b) = Len(a) + Len(b) /\ Len(a) \in Nat /\ Len(b) \in Nat
      /\ \A i \in 1..Len(a) : (a \o b)[i] = a[i] /\ i \in 1..Len(a \o b)
  BY <1>1
<1>3. Len(a) <= 2 * Len(w) - p
  <2> DEFINE m == Len(a)
             n == Len(b)
             e == Len(w)
  <2>1. m \in Nat /\ n \in Nat /\ e \in Nat /\ m + n <= 2 * e - p
    BY <1>2 DEF Fits
  <2> HIDE DEF m, n, e
  <2>2. m <= 2 * e - p
    BY <2>1
  <2> QED BY <2>2 DEF m, e
<1>4. \A i \in 1..Len(a) :
        /\ a[i].of.id = w[(i + p + 1) \div 2]
        /\ a[i].part = IF (i + p) % 2 = 1 THEN 1 ELSE 2
  BY <1>2 DEF Fits
<1> QED BY <1>3, <1>4 DEF Fits

\* A request more, at the end.
LEMMA FullMore ==
  ASSUME NEW q \in Seq(Cell), NEW w \in Seq(Nat), NEW p \in {0, 1}, Full(q, w, p),
         NEW m \in Message
  PROVE  Full(q \o FrameCells(m), Append(w, m.id), p)
<1> DEFINE f == FrameCells(m)
           v == Append(w, m.id)
           n == Len(q)
           e == Len(w)
<1>1. /\ f \in Seq(Cell) /\ Len(f) = 2 /\ f[1].of.id = m.id /\ f[2].of.id = m.id
      /\ f[1].part = 1 /\ f[2].part = 2
  BY DEF FrameCells, Cell
<1>2. m.id \in Nat
  BY DEF Message
<1>3. /\ Len(v) = e + 1 /\ v[e + 1] = m.id /\ \A i \in 1..e : v[i] = w[i]
  BY <1>2
<1>4. /\ n \in Nat /\ e \in Nat /\ n = 2 * e - p
      /\ \A i \in 1..n : /\ q[i].of.id = w[(i + p + 1) \div 2]
                         /\ q[i].part = IF (i + p) % 2 = 1 THEN 1 ELSE 2
  BY DEF Full, Fits
<1>5. /\ Len(q \o f) = n + 2
      /\ \A i \in 1..n : (q \o f)[i] = q[i]
      /\ (q \o f)[n + 1] = f[1] /\ (q \o f)[n + 2] = f[2]
  <2> HIDE DEF f
  <2>1. /\ Len(q \o f) = n + 2
        /\ \A i \in 1..(n + 2) : (q \o f)[i] = IF i <= n THEN q[i] ELSE f[i - n]
    <3>1. /\ Len(q \o f) = Len(q) + Len(f)
          /\ \A i \in 1..Len(q) + Len(f) : (q \o f)[i] = IF i <= Len(q) THEN q[i] ELSE f[i - Len(q)]
      BY <1>1, ConcatProperties
    <3> QED BY <1>1, <3>1
  <2> HIDE DEF n
  <2>2. /\ (n + 1) - n = 1 /\ (n + 2) - n = 2 /\ ~(n + 1 <= n) /\ ~(n + 2 <= n)
        /\ n + 1 \in 1..(n + 2) /\ n + 2 \in 1..(n + 2) /\ \A i \in 1..n : i <= n /\ i \in 1..(n + 2)
    BY <1>4
  <2> QED BY <2>1, <2>2
<1> HIDE DEF f, v, n, e
<1>6. n + 2 = 2 * (e + 1) - p
  BY <1>4
<1>7. ASSUME NEW i \in 1..(n + 2)
      PROVE  /\ (q \o f)[i].of.id = v[(i + p + 1) \div 2]
             /\ (q \o f)[i].part = IF (i + p) % 2 = 1 THEN 1 ELSE 2
  <2>1. CASE i \in 1..n
    <3>1. (i + p + 1) \div 2 \in 1..e
      BY <1>4, <2>1
    <3> QED BY <1>3, <1>4, <1>5, <2>1, <3>1
  <2>2. CASE i = n + 1
    <3>1. (i + p + 1) \div 2 = e + 1 /\ (i + p) % 2 = 1
      BY <1>4, <2>2
    <3> QED BY <1>1, <1>3, <1>5, <2>2, <3>1
  <2>3. CASE i = n + 2
    <3>1. (i + p + 1) \div 2 = e + 1 /\ (i + p) % 2 # 1
      BY <1>4, <2>3
    <3> QED BY <1>1, <1>3, <1>5, <2>3, <3>1
  <2>4. i \in 1..n \/ i = n + 1 \/ i = n + 2
    BY <1>4
  <2> QED BY <2>1, <2>2, <2>3, <2>4
<1>8. Fits(q \o f, v, p) /\ Len(q \o f) = 2 * Len(v) - p
  <2>1. n + 2 <= 2 * (e + 1) - p
    BY <1>4, <1>6
  <2> QED BY <1>3, <1>5, <1>6, <1>7, <2>1 DEF Fits
<1> QED BY <1>8 DEF Full, f, v

\* The first cell is read: a header of the oldest answer, or its body.
LEMMA FitsRead ==
  ASSUME NEW q \in Seq(Cell), q # <<>>, NEW w \in Seq(Nat), NEW p \in {0, 1}, Fits(q, w, p)
  PROVE  /\ w # <<>>
         /\ q[1].part = 1 => p = 0 /\ Fits(Tail(q), w, 1)
         /\ q[1].part # 1 => p = 1 /\ Fits(Tail(q), Tail(w), 0)
         /\ Len(q) = 2 * Len(w) - p =>
              /\ q[1].part = 1 => Full(Tail(q), w, 1)
              /\ q[1].part # 1 => Full(Tail(q), Tail(w), 0)
<1> DEFINE n == Len(q)
           e == Len(w)
           t == Tail(q)
           v == Tail(w)
<1>1. /\ n \in Nat /\ n >= 1 /\ Len(t) = n - 1 /\ \A i \in 1..(n - 1) : t[i] = q[i + 1]
  BY HeadTailProperties
<1>2. /\ e \in Nat /\ n <= 2 * e - p
      /\ \A i \in 1..n : /\ q[i].of.id = w[(i + p + 1) \div 2]
                         /\ q[i].part = IF (i + p) % 2 = 1 THEN 1 ELSE 2
  BY DEF Fits
<1>3. e >= 1 /\ w # <<>>
  <2>1. e >= 1
    <3> HIDE DEF n, e
    <3> QED BY <1>1, <1>2
  <2>2. w # <<>>
    BY <2>1
  <2> QED BY <2>1, <2>2
<1>4. Len(v) = e - 1 /\ \A i \in 1..(e - 1) : v[i] = w[i + 1]
  BY <1>3
<1> HIDE DEF n, e, t, v
<1>5. q[1].part = IF (1 + p) % 2 = 1 THEN 1 ELSE 2
  BY <1>1, <1>2, SMTT(30)
<1>6. CASE q[1].part = 1
  <2>1. p = 0
    BY <1>5, <1>6
  <2>2. ASSUME NEW i \in 1..(n - 1)
        PROVE  /\ t[i].of.id = w[(i + 1 + 1) \div 2]
               /\ t[i].part = IF (i + 1) % 2 = 1 THEN 1 ELSE 2
    <3>1. i + 1 \in 1..n /\ t[i] = q[i + 1] /\ i + 1 + p = i + 1 /\ i + 1 + p + 1 = i + 1 + 1
      BY <1>1, <2>1
    <3> QED BY <1>2, <3>1
  <2>3. n - 1 <= 2 * e - 1 /\ (n = 2 * e - p => n - 1 = 2 * e - 1)
    BY <1>1, <1>2, <2>1
  <2>4. Fits(t, w, 1)
    BY <1>1, <2>2, <2>3, SMTT(30) DEF Fits, e
  <2> QED BY <1>1, <1>3, <1>6, <2>1, <2>3, <2>4 DEF Full, e, t, n
<1>7. CASE q[1].part # 1
  <2>1. p = 1
    BY <1>5, <1>7
  <2>2. ASSUME NEW i \in 1..(n - 1)
        PROVE  /\ t[i].of.id = v[(i + 0 + 1) \div 2]
               /\ t[i].part = IF (i + 0) % 2 = 1 THEN 1 ELSE 2
    <3>1. /\ i + 1 \in 1..n /\ t[i] = q[i + 1]
      BY <1>1
    <3>2. /\ (i + 1) \div 2 \in 1..(e - 1)
          /\ ((i + 1) + p + 1) \div 2 = (i + 1) \div 2 + 1
          /\ ((i + 1) + p) % 2 = i % 2 /\ i + 0 = i
      BY <1>1, <1>2, <2>1
    <3> QED BY <1>2, <1>4, <3>1, <3>2
  <2>3. n - 1 <= 2 * (e - 1) - 0 /\ (n = 2 * e - p => n - 1 = 2 * (e - 1) - 0)
    BY <1>1, <1>2, <2>1
  <2>4. Fits(t, v, 0)
    BY <1>1, <1>4, <2>2, <2>3 DEF Fits
  <2> QED BY <1>1, <1>3, <1>4, <1>7, <2>1, <2>3, <2>4 DEF Full, e, t, v, n
<1> QED BY <1>6, <1>7

\* The frame that begins at cell k gives way to another with its id.
LEMMA FullAnswered ==
  ASSUME NEW q, NEW r, NEW w, NEW p \in {0, 1}, NEW k \in Nat,
         Full(q, w, p), Len(r) = Len(q), Len(q) \in Nat, k >= 1, k + 1 <= Len(q), (k + p) % 2 = 1,
         \A i \in 1..Len(q) : i # k /\ i # k + 1 => r[i] = q[i],
         r[k].of.id = q[k].of.id, r[k + 1].of.id = q[k].of.id,
         r[k].part = 1, r[k + 1].part = 2
  PROVE  Full(r, w, p)
<1> DEFINE n == Len(q)
<1>1. \A i \in 1..n : /\ q[i].of.id = w[(i + p + 1) \div 2]
                      /\ q[i].part = IF (i + p) % 2 = 1 THEN 1 ELSE 2
  BY DEF Full, Fits
<1>2. k \in 1..n
  BY DEF n
<1>3. ASSUME NEW i \in 1..n
      PROVE  /\ r[i].of.id = w[(i + p + 1) \div 2]
             /\ r[i].part = IF (i + p) % 2 = 1 THEN 1 ELSE 2
  <2>1. CASE i = k
    BY <1>1, <1>2, <2>1
  <2>2. CASE i = k + 1
    <3>1. (i + p) % 2 # 1 /\ (i + p + 1) \div 2 = (k + p + 1) \div 2
      BY <2>2
    <3> QED BY <1>1, <1>2, <2>2, <3>1
  <2>3. CASE i # k /\ i # k + 1
    BY <1>1, <2>3
  <2> QED BY <2>1, <2>2, <2>3
<1> QED BY <1>3 DEF Full, Fits

\* The frame h between d and t is answered by the frame f.
LEMMA FrameAnswered ==
  ASSUME NEW d \in Seq(Cell), NEW h \in Seq(Cell), NEW f \in Seq(Cell), NEW t \in Seq(Cell),
         NEW w, NEW p \in {0, 1}, NEW id,
         Full(d \o (h \o t), w, p), (p + Len(d)) % 2 = 0,
         Len(h) = 2, Len(f) = 2, h[1].of.id = id, f[1].of.id = id, f[2].of.id = id,
         f[1].part = 1, f[2].part = 2
  PROVE  Full(d \o (f \o t), w, p)
<1> DEFINE a == Len(d)
           n == Len(t)
           y == h \o t
           z == f \o t
<1>1. a \in Nat /\ n \in Nat
  OBVIOUS
<1>2. /\ y \in Seq(Cell) /\ Len(y) = 2 + n /\ y[1] = h[1]
      /\ \A i \in 3..(2 + n) : y[i] = t[i - 2]
  <2>1. /\ y \in Seq(Cell) /\ Len(y) = Len(h) + Len(t)
        /\ \A i \in 1..Len(h) + Len(t) : y[i] = IF i <= Len(h) THEN h[i] ELSE t[i - Len(h)]
    BY ConcatProperties
  <2> HIDE DEF y
  <2>2. 1 \in 1..2 + n /\ 1 <= 2 /\ \A i \in 3..(2 + n) : i \in 1..2 + n /\ ~(i <= 2)
    BY <1>1
  <2> QED BY <2>1, <2>2
<1>3. /\ z \in Seq(Cell) /\ Len(z) = 2 + n /\ z[1] = f[1] /\ z[2] = f[2]
      /\ \A i \in 3..(2 + n) : z[i] = t[i - 2]
  <2>1. /\ z \in Seq(Cell) /\ Len(z) = Len(f) + Len(t)
        /\ \A i \in 1..Len(f) + Len(t) : z[i] = IF i <= Len(f) THEN f[i] ELSE t[i - Len(f)]
    BY ConcatProperties
  <2> HIDE DEF z
  <2>2. /\ 1 \in 1..2 + n /\ 1 <= 2 /\ 2 \in 1..2 + n /\ 2 <= 2
        /\ \A i \in 3..(2 + n) : i \in 1..2 + n /\ ~(i <= 2)
    BY <1>1
  <2> QED BY <2>1, <2>2
<1> HIDE DEF y, z
<1>4. /\ Len(d \o y) = a + (2 + n)
      /\ \A i \in 1..a + (2 + n) : (d \o y)[i] = IF i <= a THEN d[i] ELSE y[i - a]
  <2>1. /\ Len(d \o y) = Len(d) + Len(y)
        /\ \A i \in 1..Len(d) + Len(y) : (d \o y)[i] = IF i <= Len(d) THEN d[i] ELSE y[i - Len(d)]
    BY <1>2, ConcatProperties
  <2> QED BY <1>2, <2>1
<1>5. /\ Len(d \o z) = a + (2 + n)
      /\ \A i \in 1..a + (2 + n) : (d \o z)[i] = IF i <= a THEN d[i] ELSE z[i - a]
  <2>1. /\ Len(d \o z) = Len(d) + Len(z)
        /\ \A i \in 1..Len(d) + Len(z) : (d \o z)[i] = IF i <= Len(d) THEN d[i] ELSE z[i - Len(d)]
    BY <1>3, ConcatProperties
  <2> QED BY <1>3, <2>1
<1> DEFINE q == d \o y
           r == d \o z
           k == a + 1
<1>6. Full(q, w, p) /\ (p + a) % 2 = 0
  BY DEF y
<1> HIDE DEF a, n, q, r
<1>7. /\ k \in Nat /\ k >= 1 /\ k + 1 <= a + (2 + n) /\ (k + p) % 2 = 1
      /\ k \in 1..a + (2 + n) /\ k + 1 \in 1..a + (2 + n)
      /\ ~(k <= a) /\ ~(k + 1 <= a) /\ k - a = 1 /\ (k + 1) - a = 2
      /\ a + (2 + n) \in Nat
  BY <1>1, <1>6
<1>8. /\ q[k] = y[1] /\ r[k] = z[1] /\ r[k + 1] = z[2]
  BY <1>4, <1>5, <1>7 DEF q, r
<1>9. ASSUME NEW i \in 1..a + (2 + n), i # k, i # k + 1
      PROVE  r[i] = q[i]
  <2>1. CASE i <= a
    BY <1>4, <1>5, <2>1 DEF q, r
  <2>2. CASE ~(i <= a)
    <3>1. i - a \in 3..(2 + n)
      BY <1>1, <1>9, <2>2
    <3>2. y[i - a] = z[i - a]
      BY <1>2, <1>3, <3>1
    <3> QED BY <1>4, <1>5, <2>2, <3>2 DEF q, r
  <2> QED BY <2>1, <2>2
<1>10. Len(q) = a + (2 + n) /\ Len(r) = a + (2 + n)
  BY <1>4, <1>5 DEF q, r
<1> HIDE DEF k
<1>11. /\ r[k].of.id = q[k].of.id /\ r[k + 1].of.id = q[k].of.id
       /\ r[k].part = 1 /\ r[k + 1].part = 2
  BY <1>2, <1>3, <1>8
<1>12. \A i \in 1..Len(q) : i # k /\ i # k + 1 => r[i] = q[i]
  BY <1>9, <1>10
<1>13. /\ k \in Nat /\ k >= 1 /\ k + 1 <= Len(q) /\ (k + p) % 2 = 1
       /\ Len(r) = Len(q) /\ Len(q) \in Nat
  BY <1>7, <1>10
<1>14. Full(r, w, p)
  BY <1>6, <1>11, <1>12, <1>13, FullAnswered
<1> QED BY <1>14 DEF r, z

-----------------------------------------------------------------------------
(* Every step keeps the pipes *)

\* The cells between a client and its session.
LEMMA FlowTyped ==
  ASSUME NEW g, NEW k \in Connection(g), NEW x \in Session(g)
  PROVE  /\ k.up \in Seq(Cell) /\ k.down \in Seq(Cell)
         /\ x.inbound \in Seq(Cell) /\ x.outbound \in Seq(Cell)
         /\ k.waiting \in Seq(Nat) /\ k.part \in {0, 1}
         /\ Flow(k, x) \in Seq(Cell)
<1>1. Asking(g) \subseteq Cell /\ Answering(g) \subseteq Cell
  BY DEF Asking, Answering
<1>2. /\ k.up \in Seq(Asking(g)) /\ k.down \in Seq(Answering(g)) /\ k.waiting \in Seq(Nat)
      /\ k.part \in {0, 1} /\ x.inbound \in Seq(Asking(g)) /\ x.outbound \in Seq(Answering(g))
  BY DEF Connection, Session
<1>3. /\ k.up \in Seq(Cell) /\ k.down \in Seq(Cell)
      /\ x.inbound \in Seq(Cell) /\ x.outbound \in Seq(Cell)
  BY <1>1, <1>2, SeqMonotone
<1>4. Flow(k, x) \in Seq(Cell)
  BY <1>3, ConcatProperties DEF Flow
<1> QED BY <1>2, <1>3, <1>4

\* What is on its way to the client comes first.
LEMMA FlowSplits ==
  ASSUME NEW g, NEW k \in Connection(g), NEW x \in Session(g)
  PROVE  /\ Flow(k, x) = k.down \o (x.outbound \o (x.inbound \o k.up))
         /\ x.outbound \o (x.inbound \o k.up) \in Seq(Cell)
         /\ x.inbound \o k.up \in Seq(Cell)
<1> DEFINE a == k.down
           b == x.outbound
           c == x.inbound
           d == k.up
<1>1. a \in Seq(Cell) /\ b \in Seq(Cell) /\ c \in Seq(Cell) /\ d \in Seq(Cell)
  BY FlowTyped
<1>2. Flow(k, x) = ((a \o b) \o c) \o d
  BY DEF Flow
<1> HIDE DEF a, b, c, d
<1>3. a \o b \in Seq(Cell) /\ c \o d \in Seq(Cell) /\ b \o (c \o d) \in Seq(Cell)
  BY <1>1, ConcatProperties
<1>4. ((a \o b) \o c) \o d = (a \o b) \o (c \o d)
  BY <1>1, <1>3, ConcatAssociative, SMTT(30)
<1>5. (a \o b) \o (c \o d) = a \o (b \o (c \o d))
  BY <1>1, <1>3, ConcatAssociative, SMTT(30)
<1> QED BY <1>2, <1>3, <1>4, <1>5 DEF a, b, c, d

\* What a close leaves in flight is the beginning of what was there.
LEMMA ClosedFits ==
  ASSUME NEW g, NEW k \in Connection(g), NEW x \in Session(g), Piped(k, x), Waiting(k),
         k.phase = "backlog" => k.down = <<>>
  PROVE  k.phase \in {"open", "backlog"} => Waiting(CloseConnection(k))
<1> SUFFICES ASSUME k.phase \in {"open", "backlog"}
             PROVE  Waiting(CloseConnection(k))
  OBVIOUS
<1>1. /\ CloseConnection(k).phase = "closed" /\ CloseConnection(k).down = k.down
      /\ CloseConnection(k).waiting = k.waiting /\ CloseConnection(k).part = k.part
  BY ClosedTyped
<1>2. /\ k.down \in Seq(Cell) /\ k.waiting \in Seq(Nat) /\ k.part \in {0, 1}
      /\ k.up \in Seq(Cell)
  BY FlowTyped
<1>3. CASE k.phase = "open"
  <2> DEFINE d == x.outbound \o (x.inbound \o k.up)
  <2>1. Flow(k, x) = k.down \o d /\ d \in Seq(Cell)
    BY FlowSplits
  <2> HIDE DEF d
  <2>2. Fits(k.down \o d, k.waiting, k.part)
    BY <1>3, <2>1 DEF Piped, Full
  <2>3. Fits(k.down, k.waiting, k.part)
    BY <1>2, <2>1, <2>2, FitsFirst
  <2> QED BY <1>1, <2>3 DEF Waiting
<1>4. CASE k.phase = "backlog"
  <2>1. Fits(k.up, k.waiting, k.part) /\ k.down = <<>>
    BY <1>4 DEF Waiting, Full
  <2>2. Len(k.down) = 0 /\ Len(k.up) \in Nat /\ Len(k.waiting) \in Nat
    BY <1>2, <2>1
  <2>3. 0 <= 2 * Len(k.waiting) - k.part
    <3> DEFINE m == Len(k.up)
               n == Len(k.waiting)
               p == k.part
    <3>1. m \in Nat /\ n \in Nat /\ p \in {0, 1} /\ m <= 2 * n - p
      BY <1>2, <2>1, <2>2 DEF Fits
    <3> HIDE DEF m, n, p
    <3>2. 0 <= 2 * n - p
      BY <3>1
    <3> QED BY <3>2 DEF n, p
  <2>4. Fits(k.down, k.waiting, k.part)
    BY <2>2, <2>3 DEF Fits
  <2> QED BY <1>1, <2>4 DEF Waiting
<1> QED BY <1>3, <1>4

\* Sessions and connections that stay as they are, apart from how long they
\* have been idle.
LEMMA PipesKept ==
  ASSUME Pipes,
         \A s \in ActiveSessions' :
           \/ Piped(conn'[session'[s].client], session'[s])
           \/ /\ s \in ActiveSessions
              /\ session'[s].client = session[s].client
              /\ session'[s].inbound = session[s].inbound
              /\ session'[s].outbound = session[s].outbound
              /\ conn'[session[s].client] = conn[session[s].client],
         \A c \in Clients : conn'[c] = conn[c] \/ Waiting(conn'[c])
  PROVE  Pipes'
<1>1. \A s \in ActiveSessions' : Piped(conn'[session'[s].client], session'[s])
  BY DEF Pipes, Piped, Flow
<1>2. \A c \in Clients : Waiting(conn'[c])
  BY DEF Pipes
<1> QED BY <1>1, <1>2 DEF Pipes

\* Steps that move no cells.
LEMMA QuietPipes ==
  ASSUME Pipes, conn' = conn,
         \A s \in Slots : /\ session'[s].used = session[s].used
                          /\ session'[s].client = session[s].client
                          /\ session'[s].inbound = session[s].inbound
                          /\ session'[s].outbound = session[s].outbound
  PROVE  Pipes'
<1>1. \A s \in ActiveSessions' :
        /\ s \in ActiveSessions
        /\ session'[s].client = session[s].client
        /\ session'[s].inbound = session[s].inbound
        /\ session'[s].outbound = session[s].outbound
  BY DEF ActiveSessions
<1> QED BY <1>1, PipesKept

\* A connection that is closed keeps the beginning of what it waits for.
LEMMA ClosePipe ==
  ASSUME SessionInv, Pipes, NEW c \in Clients, conn[c].phase \in {"open", "backlog", "gone"}
  PROVE  Waiting(CloseConnection(conn[c]))
<1>0. Typed /\ Owners /\ Queue
  BY SlotsSplit DEF SessionInv
<1>1. conn[c] \in Connection(generations) /\ Waiting(conn[c])
  BY <1>0, ConnectionFields DEF Pipes
<1>2. conn[c].phase = "backlog" => conn[c].down = <<>>
  BY <1>0 DEF Queue
<1>3. CASE conn[c].phase = "open"
  <2>1. PICK s \in ActiveSessions : session[s].client = c
    BY <1>0, <1>3 DEF Owners
  <2>2. session[s] \in Session(generations) /\ Piped(conn[c], session[s])
    BY <1>0, <2>1, ActiveSlots, SessionFields DEF Pipes
  <2> QED BY <1>1, <1>2, <1>3, <2>2, ClosedFits
<1>4. CASE conn[c].phase = "backlog"
  <2>1. NoSession \in Session(generations) /\ Piped(conn[c], NoSession)
    BY <1>4, NoSessionTyped DEF Piped
  <2> QED BY <1>1, <1>2, <1>4, <2>1, ClosedFits
<1>5. CASE conn[c].phase = "gone"
  <2>1. CloseConnection(conn[c]) = NoConnection /\ NoConnection.phase = "none"
    BY <1>5 DEF CloseConnection, NoConnection
  <2> QED BY <2>1 DEF Waiting
<1> QED BY <1>3, <1>4, <1>5

\* Sessions end.
LEMMA DropPipes ==
  ASSUME SessionInv, Pipes, NEW slots \in SUBSET ActiveSessions, Drop(slots)
  PROVE  Pipes'
<1>0. Owners /\ ActiveSessions \subseteq Slots
  BY SlotsSplit, ActiveSlots DEF SessionInv
<1>1. /\ \A s \in Slots : session'[s] = IF s \in slots THEN NoSession ELSE session[s]
      /\ \A c \in Clients :
           \/ conn'[c] = conn[c] /\ \A s \in slots : session[s].client # c
           \/ /\ conn'[c] = CloseConnection(conn[c])
              /\ \E s \in slots : session[s].client = c
      /\ ActiveSessions' = ActiveSessions \ slots
  BY Dropping
<1>2. ASSUME NEW s \in ActiveSessions \ slots
      PROVE  session'[s] = session[s] /\ conn'[session[s].client] = conn[session[s].client]
  <2>1. session[s].client \in Clients /\ \A t \in slots : session[t].client # session[s].client
    BY <1>0 DEF Owners
  <2> QED BY <1>0, <1>1, <2>1
<1>3. ASSUME NEW c \in Clients
      PROVE  conn'[c] = conn[c] \/ Waiting(conn'[c])
  <2>1. CASE /\ conn'[c] = CloseConnection(conn[c])
             /\ \E s \in slots : session[s].client = c
    <3>1. conn[c].phase \in {"open", "gone"}
      BY <1>0, <2>1 DEF Owners
    <3> QED BY <2>1, <3>1, ClosePipe
  <2> QED BY <1>1, <2>1
<1> QED BY <1>1, <1>2, <1>3, PipesKept

\* Connections of the backlog end.
LEMMA BacklogPipes ==
  ASSUME SessionInv, Pipes, AcceptRejects \/ ShutdownBegins
  PROVE  Pipes'
<1>0. Owners /\ Queue /\ Typed
  BY SlotsSplit DEF SessionInv
<1>1. \A i \in DOMAIN backlog : backlog[i] \in Clients /\ conn[backlog[i]].phase \in {"backlog", "gone"}
  <2>1. backlog \in Seq(Clients)
    BY <1>0 DEF Typed
  <2>2. DOMAIN backlog = 1..Len(backlog) /\ \A i \in DOMAIN backlog : backlog[i] \in Clients
    BY <2>1
  <2> QED BY <1>0, <2>2 DEF Queue
<1>2. /\ session' = session
      /\ \A c \in Clients :
           \/ conn'[c] = conn[c]
           \/ /\ conn'[c] = CloseConnection(conn[c])
              /\ \E i \in DOMAIN backlog : backlog[i] = c
  <2>0. conn \in [Clients -> Connection(generations)] /\ backlog \in Seq(Clients)
    BY <1>0 DEF Typed
  <2>1. CASE AcceptRejects
    <3>1. session' = session /\ backlog # <<>>
          /\ conn' = [conn EXCEPT ![Head(backlog)] = CloseConnection(@)]
      BY <2>1 DEF AcceptRejects
    <3>2. Head(backlog) = backlog[1] /\ 1 \in DOMAIN backlog
      BY <2>0, <3>1
    <3> QED BY <1>1, <2>0, <3>1, <3>2
  <2>2. CASE ShutdownBegins
    BY <2>2 DEF ShutdownBegins
  <2> QED BY <2>1, <2>2
<1>3. ASSUME NEW c \in Clients
      PROVE  conn'[c] = conn[c] \/ Waiting(conn'[c])
  BY <1>1, <1>2, ClosePipe
<1>4. ASSUME NEW s \in ActiveSessions'
      PROVE  /\ s \in ActiveSessions /\ session'[s] = session[s]
             /\ conn'[session[s].client] = conn[session[s].client]
  <2>1. s \in ActiveSessions /\ session'[s] = session[s]
    BY <1>2 DEF ActiveSessions
  <2> QED BY <1>0, <1>2, <2>1 DEF Owners
<1> QED BY <1>3, <1>4, PipesKept

\* A step of the session the thread is at, and of its connection.
LEMMA HerePipes ==
  ASSUME SessionInv, Pipes, pc \in {"flush", "frames", "receive", "drain"},
         \A s \in Slots : s # current => session'[s] = session[s],
         \A c \in Clients : c # Here.client => conn'[c] = conn[c],
         session'[current].used = Here.used, session'[current].client = Here.client,
         conn'[Here.client].phase = Socket.phase,
         Socket.phase = "open" => Piped(conn'[Here.client], session'[current])
  PROVE  Pipes'
<1>0. Owners /\ ActiveSessions \subseteq Slots
  BY SlotsSplit, ActiveSlots DEF SessionInv
<1>1. /\ current \in ActiveSessions /\ current \in Slots /\ Here.client \in Clients
      /\ Socket.phase \in {"open", "gone"} /\ Here.used
  BY AtSession
<1>2. ActiveSessions' = ActiveSessions
  BY <1>1 DEF ActiveSessions, Here
<1>3. Piped(conn'[Here.client], session'[current])
  BY <1>1 DEF Piped
<1>4. Waiting(conn'[Here.client])
  BY <1>1 DEF Waiting
<1>5. ASSUME NEW s \in ActiveSessions, s # current
      PROVE  /\ session'[s] = session[s]
             /\ conn'[session[s].client] = conn[session[s].client]
  <2>1. session[s].client \in Clients /\ session[s].client # Here.client
    BY <1>0, <1>1, <1>5 DEF Owners, Here
  <2> QED BY <1>0, <1>5, <2>1
<1>6. \A s \in ActiveSessions' :
        \/ Piped(conn'[session'[s].client], session'[s])
        \/ /\ s \in ActiveSessions
           /\ session'[s].client = session[s].client
           /\ session'[s].inbound = session[s].inbound
           /\ session'[s].outbound = session[s].outbound
           /\ conn'[session[s].client] = conn[session[s].client]
  BY <1>2, <1>3, <1>5
<1>7. \A c \in Clients : conn'[c] = conn[c] \/ Waiting(conn'[c])
  BY <1>4, SMTT(30)
<1> QED BY <1>6, <1>7, PipesKept

\* Two parts of a sequence make the whole.
LEMMA Halves ==
  ASSUME NEW S, NEW q \in Seq(S), NEW n \in Nat, n <= Len(q)
  PROVE  SubSeq(q, 1, n) \o SubSeq(q, n + 1, Len(q)) = q
<1>1. /\ Len(q) \in Nat /\ 1 \in 1..Len(q) + 1 /\ n \in (1 - 1)..Len(q) /\ Len(q) \in n..Len(q)
  BY LenProperties
<1>2. SubSeq(q, 1, n) \o SubSeq(q, n + 1, Len(q)) = SubSeq(q, 1, Len(q))
  BY <1>1, ConcatAdjacentSubSeq
<1>3. SubSeq(q, 1, Len(q)) = q
  BY SubSeqFull
<1> QED BY <1>2, <1>3

\* What is written goes from the session's buffer to the socket.
LEMMA SentPipes ==
  ASSUME SessionInv, Pipes, pc \in {"flush", "drain"}, Sent
  PROVE  Pipes'
<1> DEFINE o == Here.outbound
           rest == SubSeq(o, Room + 1, Len(o))
           moved == SubSeq(o, 1, Room)
           k == conn'[Here.client]
           x == session'[current]
<1>1. /\ o \in Seq(Answering(generations))
      /\ rest \in Seq(Answering(generations)) /\ Len(rest) = Len(o) - Room
      /\ moved \in Seq(Answering(generations)) /\ Len(moved) = Room
      /\ \A s \in Slots : s # current => session'[s] = session[s]
      /\ x.used = Here.used /\ x.client = Here.client
      /\ x.inbound = Here.inbound /\ x.outbound = rest
      /\ \A c \in Clients : c # Here.client => conn'[c] = conn[c]
      /\ k.down = Socket.down \o moved
      /\ k.phase = Socket.phase /\ k.up = Socket.up
      /\ k.waiting = Socket.waiting /\ k.part = Socket.part
  BY SentTyped
<1>2. current \in Slots /\ Here.client \in Clients /\ current \in ActiveSessions
  BY AtSession
<1>3. /\ Here \in Session(generations) /\ Socket \in Connection(generations)
  BY <1>2, SessionFields, ConnectionFields DEF Here, Socket, SessionInv
<1>4. Room \in Nat /\ Room <= Len(o) /\ Len(o) \in Nat
  <2>1. Room \in 0..Len(o)
    BY Sending
  <2>2. Len(o) \in Nat
    BY <1>1
  <2> HIDE DEF Room, o
  <2> QED BY <2>1, <2>2
<1>5. moved \o rest = o
  <2> HIDE DEF Room, o
  <2> QED BY <1>1, <1>4, Halves
<1>6. /\ Socket.down \in Seq(Cell) /\ o \in Seq(Cell) /\ Here.inbound \in Seq(Cell)
      /\ Socket.up \in Seq(Cell) /\ moved \in Seq(Cell) /\ rest \in Seq(Cell)
      /\ Socket.part \in {0, 1}
  <2>1. Answering(generations) \subseteq Cell
    BY DEF Answering
  <2>2. moved \in Seq(Cell) /\ rest \in Seq(Cell)
    BY <1>1, <2>1, SeqMonotone, ZenonT(30)
  <2> QED BY <1>3, <2>2, FlowTyped
<1> HIDE DEF moved, rest
<1>7. ASSUME Socket.phase = "open" PROVE Piped(k, x)
  <2>1. Piped(Socket, Here)
    BY <1>2 DEF Pipes, Socket, Here
  <2>2. Flow(k, x) = Flow(Socket, Here)
    <3> DEFINE d == Socket.down
    <3>1. d \in Seq(Cell) /\ moved \in Seq(Cell) /\ rest \in Seq(Cell)
      BY <1>6
    <3> HIDE DEF d
    <3>2. (d \o moved) \o rest = d \o (moved \o rest)
      BY <3>1, ConcatAssociative, SMTT(30)
    <3> QED BY <1>1, <1>5, <3>2 DEF Flow, d
  <2>3. Len(k.down) + Len(x.outbound) = Len(Socket.down) + Len(o) /\ Len(Socket.down) \in Nat
    <3>1. Len(Socket.down \o moved) = Len(Socket.down) + Len(moved)
      BY <1>6, ConcatProperties
    <3>2. Len(Socket.down) \in Nat
      BY <1>6
    <3> DEFINE a == Len(Socket.down)
               b == Len(o)
               c == Len(moved)
               e == Len(rest)
    <3>3. a \in Nat /\ b \in Nat /\ c = Room /\ e = b - Room
      BY <1>1, <1>4, <3>2
    <3>4. Len(k.down) = a + c /\ Len(x.outbound) = e
      BY <1>1, <3>1
    <3> HIDE DEF a, b, c, e, k, x, o, Room
    <3>5. (a + c) + e = a + b
      BY <1>4, <3>3
    <3> QED BY <3>2, <3>4, <3>5 DEF a, b
  <2>4. k.part + Len(k.down) + Len(x.outbound) = Socket.part + Len(Socket.down) + Len(o)
    <3>1. Len(k.down) \in Nat /\ Len(x.outbound) \in Nat
      <4>1. Socket.down \o moved \in Seq(Cell)
        BY <1>6, ConcatProperties
      <4> QED BY <1>1, <1>6, <4>1
    <3> DEFINE a == Len(Socket.down)
               b == Len(o)
               c == Len(k.down)
               e == Len(x.outbound)
               p == Socket.part
    <3>2. a \in Nat /\ b \in Nat /\ c \in Nat /\ e \in Nat /\ p \in {0, 1} /\ c + e = a + b
      BY <1>4, <1>6, <2>3, <3>1
    <3>3. k.part = p
      BY <1>1
    <3> HIDE DEF a, b, c, e, p
    <3>4. p + c + e = p + a + b
      BY <3>2
    <3> QED BY <3>3, <3>4 DEF a, b, c, e, p
  <2> HIDE DEF k, x
  <2> QED BY <1>1, <1>7, <2>1, <2>2, <2>4 DEF Piped
<1> HIDE DEF o
<1> QED BY <1>1, <1>7, HerePipes

\* What is received goes from the socket to the session's buffer.
LEMMA ReceivePipes ==
  ASSUME SessionInv, Pipes, Receive
  PROVE  Pipes'
<1>1. pc = "receive"
  BY DEF Receive
<1>2. /\ current \in Slots /\ Here.client \in Clients /\ current \in ActiveSessions
  BY <1>1, AtSession
<1>3. /\ Here \in Session(generations) /\ Socket \in Connection(generations)
      /\ session \in [Slots -> Session(generations)] /\ conn \in [Clients -> Connection(generations)]
  BY <1>2 DEF Here, Socket, SessionInv, Typed
<1>4. PICK n \in 1..Min2(ReceiveCells, Len(Socket.up)) :
        /\ session' = [session EXCEPT
             ![current].inbound = @ \o SubSeq(Socket.up, 1, n),
             ![current].idle = 0]
        /\ conn' = [conn EXCEPT ![Here.client].up = SubSeq(@, n + 1, Len(@))]
  BY DEF Receive
<1> DEFINE u == Socket.up
           got == SubSeq(u, 1, n)
           left == SubSeq(u, n + 1, Len(u))
           k == conn'[Here.client]
           x == session'[current]
<1>5. /\ \A s \in Slots : s # current => session'[s] = session[s]
      /\ x = [Here EXCEPT !.inbound = Here.inbound \o got, !.idle = 0]
  BY <1>2, <1>3, <1>4 DEF Here
<1>6. /\ \A c \in Clients : c # Here.client => conn'[c] = conn[c]
      /\ k = [Socket EXCEPT !.up = left]
  BY <1>2, <1>3, <1>4 DEF Socket
<1>7. /\ u \in Seq(Cell) /\ Here.inbound \in Seq(Cell) /\ Here.outbound \in Seq(Cell)
      /\ Socket.down \in Seq(Cell)
  BY <1>3, FlowTyped
<1>8. n \in Nat /\ n <= Len(u)
  <2>1. n \in 1..(IF ReceiveCells < Len(u) THEN ReceiveCells ELSE Len(u)) /\ Len(u) \in Nat
    BY <1>4, <1>7 DEF Min2
  <2> HIDE DEF u
  <2> QED BY <2>1, CoordinatorAssumption
<1>9. got \o left = u /\ got \in Seq(Cell) /\ left \in Seq(Cell)
  <2> HIDE DEF u
  <2> QED BY <1>7, <1>8, Halves, SubSeqProperties
<1> HIDE DEF got, left
<1>10. /\ x.used = Here.used /\ x.client = Here.client /\ x.outbound = Here.outbound
       /\ x.inbound = Here.inbound \o got
  <2> HIDE DEF x
  <2> QED BY <1>3, <1>5 DEF Session
<1>11. /\ k.phase = Socket.phase /\ k.down = Socket.down /\ k.part = Socket.part
       /\ k.waiting = Socket.waiting /\ k.up = left
  <2> HIDE DEF k
  <2> QED BY <1>3, <1>6 DEF Connection
<1>12. ASSUME Socket.phase = "open" PROVE Piped(k, x)
  <2>1. Piped(Socket, Here)
    BY <1>2 DEF Pipes, Socket, Here
  <2>2. Flow(k, x) = Flow(Socket, Here)
    <3> DEFINE a == Socket.down \o Here.outbound
               i == Here.inbound
    <3>1. a \in Seq(Cell) /\ i \in Seq(Cell)
      BY <1>7, ConcatProperties
    <3>2. Flow(k, x) = (a \o (i \o got)) \o left /\ Flow(Socket, Here) = (a \o i) \o u
      BY <1>10, <1>11 DEF Flow
    <3> HIDE DEF a, i, u
    <3>3. got \in Seq(Cell) /\ left \in Seq(Cell) /\ got \o left = u
      BY <1>9
    <3>4. got \in Seq(Cell) /\ left \in Seq(Cell)
      BY <1>9
    <3>5. a \o (i \o got) = (a \o i) \o got
      BY <3>1, <3>4, SMTT(30)
    <3>6. a \o i \in Seq(Cell)
      BY <3>1
    <3> DEFINE e == a \o i
    <3>7. e \in Seq(Cell)
      BY <3>6
    <3> HIDE DEF e
    <3>8. (e \o got) \o left = e \o (got \o left)
      BY <3>4, <3>7
    <3> QED BY <3>2, <3>3, <3>5, <3>8 DEF e
  <2> HIDE DEF k, x
  <2> QED BY <1>10, <1>11, <1>12, <2>1, <2>2 DEF Piped
<1> QED BY <1>1, <1>5, <1>6, <1>10, <1>11, <1>12, HerePipes

\* The request is answered in its place.
LEMMA HandleFramePipes ==
  ASSUME SessionInv, Pipes, HandleFrame
  PROVE  Pipes'
<1> DEFINE request == Here.inbound[1].of
           f == FrameCells(Reply(request))
           b == Here.inbound
           r == Consumed(b)
           d == Socket.down
           u == Socket.up
           x == session'[current]
<1>1. /\ pc = "frames" /\ Decode(b) = "frame" /\ conn' = conn
      /\ session' = [session EXCEPT
            ![current].inbound = Consumed(@),
            ![current].outbound = @ \o FrameCells(Reply(request)),
            ![current].idle = 0]
      /\ Effect(request)
  BY DEF HandleFrame, sockets
<1>2. /\ current \in Slots /\ Here.client \in Clients /\ current \in ActiveSessions
  BY <1>1, AtSession
<1>3. /\ Here \in Session(generations) /\ Socket \in Connection(generations)
      /\ session \in [Slots -> Session(generations)]
  BY <1>2 DEF Here, Socket, SessionInv, Typed
<1>4. /\ \A s \in Slots : s # current => session'[s] = session[s]
      /\ x = [Here EXCEPT !.inbound = r, !.outbound = Here.outbound \o f, !.idle = 0]
  BY <1>1, <1>2, <1>3 DEF Here
<1>5. /\ x.used = Here.used /\ x.client = Here.client
      /\ x.inbound = r /\ x.outbound = Here.outbound \o f
  <2> HIDE DEF x, r, f
  <2> QED BY <1>3, <1>4 DEF Session
<1>6. Here.outbound = <<>>
  BY <1>1 DEF SessionInv, Buffers, Here
<1>7. b \in Seq(Cell) /\ u \in Seq(Cell) /\ d \in Seq(Cell) /\ Socket.part \in {0, 1}
  BY <1>3, FlowTyped
<1>8. request \in Message /\ Len(b) >= 2 /\ Len(b) \in Nat
  BY <1>1, <1>7, FirstRequest
<1>9. /\ f \in Seq(Cell) /\ Len(f) = 2 /\ f[1].of.id = request.id /\ f[2].of.id = request.id
      /\ f[1].part = 1 /\ f[2].part = 2
  <2> DEFINE m == Reply(request)
  <2>1. m \in Message /\ m.id = request.id
    <3> HIDE DEF request
    <3>1. Outcome(request.op, request.generation) \in Nat
      BY <1>1, <1>8, Effects
    <3> QED BY <1>8, <3>1 DEF Reply, Message
  <2> HIDE DEF m
  <2>2. f = FrameCells(m)
    BY DEF m
  <2> HIDE DEF f
  <2> QED BY <2>1, <2>2 DEF FrameCells, Cell
<1>10. /\ r \in Seq(Cell) /\ Len(r) = Len(b) - 2
       /\ \A i \in 1..(Len(b) - 2) : r[i] = b[i + 2]
  <2> DEFINE m == Len(b)
  <2>1. \A i \in 3..m : b[i] \in Cell
    BY <1>7
  <2>2. m \in Int /\ 3 \in Int /\ m >= 2
    BY <1>8
  <2>3. r = SubSeq(b, 3, m)
    BY DEF Consumed
  <2> HIDE DEF m, b, r
  <2>4. /\ (IF 3 <= m THEN m - 3 + 1 ELSE 0) = m - 2 /\ m - 3 + 1 = m - 2
        /\ \A i \in 1..(m - 2) : 3 + i - 1 = i + 2
    BY <2>2
  <2>5. /\ r \in Seq(Cell) /\ Len(r) = m - 2
        /\ \A i \in 1..(m - 2) : r[i] = b[3 + i - 1]
    BY <2>1, <2>2, <2>3, <2>4, SubSeqProperties
  <2>6. \A i \in 1..(m - 2) : r[i] = b[i + 2]
    BY <2>4, <2>5
  <2> QED BY <2>5, <2>6 DEF m
<1> HIDE DEF f, r
<1> DEFINE h == SubSeq(b, 1, 2)
           t == r \o u
           p == Socket.part
           w == Socket.waiting
<1>11. /\ h \in Seq(Cell) /\ Len(h) = 2 /\ h[1].of.id = request.id
       /\ b = h \o r
  <2>1. h \o SubSeq(b, 2 + 1, Len(b)) = b
    <3>1. b \in Seq(Cell) /\ 2 \in Nat /\ 2 <= Len(b)
      BY <1>7, <1>8
    <3> HIDE DEF b
    <3> QED BY <3>1, Halves
  <2>2. r = SubSeq(b, 2 + 1, Len(b))
    BY DEF r, Consumed
  <2>3. h \in Seq(Cell) /\ Len(h) = 2 /\ h[1] = b[1]
    <3>1. b \in Seq(Cell) /\ 2 <= Len(b) /\ Len(b) \in Nat
      BY <1>7, <1>8
    <3> HIDE DEF b
    <3>2. \A i \in 1..2 : b[i] \in Cell
      BY <3>1
    <3>3. /\ h \in Seq(Cell) /\ Len(h) = IF 1 <= 2 THEN 2 - 1 + 1 ELSE 0
          /\ \A i \in 1..(2 - 1 + 1) : h[i] = b[1 + i - 1]
      BY <3>2, SubSeqProperties
    <3>4. h[1] = b[1]
      BY <3>3
    <3> QED BY <3>3, <3>4
  <2> QED BY <2>1, <2>2, <2>3
<1>12. ASSUME Socket.phase = "open" PROVE Piped(conn'[Here.client], x)
  <2>1. Piped(Socket, Here)
    BY <1>2 DEF Pipes, Socket, Here
  <2>2. Flow(Socket, Here) = d \o (h \o t) /\ t \in Seq(Cell)
    <3>1. Flow(Socket, Here) = d \o (Here.outbound \o (b \o u)) /\ b \o u \in Seq(Cell)
      BY <1>3, FlowSplits
    <3> HIDE DEF b, u, d, h
    <3>2. Here.outbound \o (b \o u) = b \o u
      BY <1>6, <3>1, ConcatEmptySeq
    <3>3. b \o u = h \o (r \o u)
      BY <1>7, <1>10, <1>11, ConcatAssociative, SMTT(30)
    <3>4. r \o u \in Seq(Cell)
      BY <1>7, <1>10, ConcatProperties
    <3> QED BY <3>1, <3>2, <3>3, <3>4
  <2>3. Flow(Socket, x) = d \o (f \o t)
    <3>1. Flow(Socket, x) = ((d \o (<<>> \o f)) \o r) \o u
      BY <1>5, <1>6 DEF Flow
    <3> HIDE DEF d, u
    <3>2. <<>> \o f = f
      BY <1>9, ConcatEmptySeq
    <3>3. ((d \o f) \o r) \o u = d \o (f \o (r \o u))
      <4>1. d \in Seq(Cell) /\ f \in Seq(Cell) /\ r \in Seq(Cell) /\ u \in Seq(Cell)
        BY <1>7, <1>9, <1>10
      <4> DEFINE z == d \o f
                 y == r \o u
      <4>2. z \in Seq(Cell) /\ y \in Seq(Cell)
        BY <4>1, ConcatProperties
      <4>3. (z \o r) \o u = z \o (r \o u)
        <5> HIDE DEF z
        <5> QED BY <4>1, <4>2
      <4>4. (d \o f) \o y = d \o (f \o y)
        <5> HIDE DEF y
        <5> QED BY <4>1, <4>2
      <4> QED BY <4>3, <4>4
    <3> QED BY <3>1, <3>2, <3>3
  <2>4. p \in {0, 1} /\ Full(d \o (h \o t), w, p) /\ (p + Len(d)) % 2 = 0
    <3>1. Full(Flow(Socket, Here), w, p) /\ (p + Len(d) + Len(Here.outbound)) % 2 = 0
      BY <1>12, <2>1 DEF Piped
    <3>2. Len(Here.outbound) = 0 /\ Len(d) \in Nat
      BY <1>6, <1>7
    <3>3. p + Len(d) + 0 = p + Len(d)
      BY <1>7, <3>2
    <3> QED BY <1>7, <2>2, <3>1, <3>2, <3>3
  <2> HIDE DEF d, h, t, w, p, request
  <2>5. Full(d \o (f \o t), w, p)
    BY <1>7, <1>9, <1>11, <2>2, <2>4, FrameAnswered, ZenonT(30)
  <2>6. (p + Len(d) + Len(x.outbound)) % 2 = 0
    <3>1. x.outbound = f
      BY <1>5, <1>6, <1>9, ConcatEmptySeq
    <3>2. Len(x.outbound) = 2 /\ Len(d) \in Nat
      BY <1>7, <1>9, <3>1
    <3> DEFINE e == Len(d)
    <3>3. e \in Nat /\ (p + e) % 2 = 0
      BY <2>4, <3>2
    <3> HIDE DEF e
    <3>4. (p + e + 2) % 2 = 0
      BY <2>4, <3>3
    <3> QED BY <3>2, <3>4 DEF e
  <2>7. conn'[Here.client] = Socket
    BY <1>1 DEF Socket
  <2> QED BY <2>3, <2>5, <2>6, <2>7 DEF Piped, p, w, d
<1>13. conn'[Here.client] = Socket
  BY <1>1 DEF Socket
<1> HIDE DEF x
<1> QED BY <1>1, <1>4, <1>5, <1>12, <1>13, HerePipes DEF x

\* A connection that is accepted brings what it has sent, and nothing else.
LEMMA AcceptPipes ==
  ASSUME SessionInv, Pipes, Accept
  PROVE  Pipes'
<1> DEFINE h == Head(backlog)
           f == FreeSlot
           k == conn'[h]
           x == session'[f]
<1>0. /\ Owners /\ Queue /\ Typed /\ conn \in [Clients -> Connection(generations)]
      /\ session \in [Slots -> Session(generations)] /\ ActiveSessions \subseteq Slots
  BY SlotsSplit, ActiveSlots DEF SessionInv, Typed
<1>1. /\ backlog # <<>> /\ Cardinality(ActiveSessions) < MaxSessions
      /\ session' = [session EXCEPT ![f] = [NoSession EXCEPT !.used = TRUE, !.client = h]]
      /\ conn' = [conn EXCEPT ![h].phase = IF @ = "backlog" THEN "open" ELSE @]
      /\ backlog' = Tail(backlog)
  BY DEF Accept
<1>2. /\ h \in Clients /\ conn[h].phase \in {"backlog", "gone"}
      /\ \A s \in ActiveSessions : session[s].client # h
  BY <1>1, FirstInBacklog
<1>3. f \in Slots \ ActiveSessions
  BY <1>1, SlotFree
<1> HIDE DEF h, f
<1>4. /\ \A s \in Slots : s # f => session'[s] = session[s]
      /\ x = [NoSession EXCEPT !.used = TRUE, !.client = h]
  BY <1>0, <1>1, <1>3
<1>5. x.used /\ x.client = h /\ x.inbound = <<>> /\ x.outbound = <<>>
  <2> HIDE DEF x
  <2> QED BY <1>4 DEF NoSession
<1>6. /\ \A c \in Clients : c # h => conn'[c] = conn[c]
      /\ k = [conn[h] EXCEPT !.phase = IF conn[h].phase = "backlog" THEN "open" ELSE conn[h].phase]
  BY <1>0, <1>1, <1>2
<1>7. /\ k.phase = IF conn[h].phase = "backlog" THEN "open" ELSE conn[h].phase
      /\ k.up = conn[h].up /\ k.down = conn[h].down /\ k.waiting = conn[h].waiting
      /\ k.part = conn[h].part
  <2>1. conn[h] \in Connection(generations)
    BY <1>0, <1>2
  <2> HIDE DEF k
  <2> QED BY <1>6, <2>1 DEF Connection
<1> HIDE DEF k, x
<1>8. Piped(k, x)
  <2> SUFFICES ASSUME k.phase = "open"
               PROVE  /\ Full(Flow(k, x), k.waiting, k.part)
                      /\ (k.part + Len(k.down) + Len(x.outbound)) % 2 = 0
    BY DEF Piped
  <2>1. conn[h].phase = "backlog"
    BY <1>2, <1>7
  <2>2. conn[h].down = <<>> /\ conn[h].part = 0
    BY <1>0, <1>2, <2>1 DEF Queue
  <2>3. Full(conn[h].up, conn[h].waiting, conn[h].part)
    BY <1>2, <2>1 DEF Pipes, Waiting
  <2>4. Flow(k, x) = conn[h].up
    <3> DEFINE u == conn[h].up
    <3>1. u \in Seq(Asking(generations))
      BY <1>0, <1>2, ConnectionFields
    <3>2. Flow(k, x) = ((<<>> \o <<>>) \o <<>>) \o u
      BY <1>5, <1>7, <2>2 DEF Flow
    <3> HIDE DEF u
    <3>3. <<>> \o <<>> = <<>>
      OBVIOUS
    <3>4. <<>> \o u = u
      BY <3>1
    <3> QED BY <3>2, <3>3, <3>4 DEF u
  <2>5. Len(<<>>) = 0 /\ (0 + 0 + 0) % 2 = 0
    OBVIOUS
  <2> QED BY <1>5, <1>7, <2>2, <2>3, <2>4, <2>5
<1>9. Waiting(k)
  BY <1>2, <1>7 DEF Waiting
<1>10. \A s \in ActiveSessions' :
        \/ Piped(conn'[session'[s].client], session'[s])
        \/ /\ s \in ActiveSessions
           /\ session'[s].client = session[s].client
           /\ session'[s].inbound = session[s].inbound
           /\ session'[s].outbound = session[s].outbound
           /\ conn'[session[s].client] = conn[session[s].client]
  <2> SUFFICES ASSUME NEW s \in ActiveSessions', s # f
               PROVE  /\ s \in ActiveSessions /\ session'[s] = session[s]
                      /\ conn'[session[s].client] = conn[session[s].client]
    BY <1>5, <1>8 DEF k, x
  <2>1. s \in ActiveSessions /\ session'[s] = session[s]
    BY <1>4 DEF ActiveSessions
  <2>2. session[s].client \in Clients /\ session[s].client # h
    BY <1>0, <1>2, <2>1 DEF Owners
  <2> QED BY <1>6, <2>1, <2>2
<1>11. \A c \in Clients : conn'[c] = conn[c] \/ Waiting(conn'[c])
  BY <1>6, <1>9 DEF k
<1> QED BY <1>10, <1>11, PipesKept

\* A step of one client on its own connection.
LEMMA ClientPipes ==
  ASSUME SessionInv, Pipes, NEW c \in Clients, NEW k, conn' = [conn EXCEPT ![c] = k],
         session' = session,
         k.phase = "open" => conn[c].phase = "open",
         Waiting(k),
         \A s \in ActiveSessions : session[s].client = c => Piped(k, session[s])
  PROVE  Pipes'
<1>1. conn \in [Clients -> Connection(generations)] /\ Owners
  BY SlotsSplit DEF SessionInv, Typed
<1>2. conn'[c] = k /\ \A d \in Clients : d # c => conn'[d] = conn[d]
  BY <1>1
<1>3. ActiveSessions' = ActiveSessions
  BY DEF ActiveSessions
<1>4. \A s \in ActiveSessions : session[s].client \in Clients
  BY <1>1 DEF Owners
<1>5. \A s \in ActiveSessions' :
        \/ Piped(conn'[session'[s].client], session'[s])
        \/ /\ s \in ActiveSessions
           /\ session'[s].client = session[s].client
           /\ session'[s].inbound = session[s].inbound
           /\ session'[s].outbound = session[s].outbound
           /\ conn'[session[s].client] = conn[session[s].client]
  BY <1>2, <1>3, <1>4
<1>6. \A d \in Clients : conn'[d] = conn[d] \/ Waiting(conn'[d])
  BY <1>2
<1> QED BY <1>5, <1>6, PipesKept

\* Connections that begin, are seen closed or are given up.
LEMMA EndsPipes ==
  ASSUME SessionInv, Pipes, NEW c \in Clients, Connect(c) \/ SeeClose(c) \/ Close(c)
  PROVE  Pipes'
<1>0. conn[c] \in Connection(generations)
  BY DEF SessionInv, Typed
<1>1. CASE Connect(c)
  <2> DEFINE k == [conn[c] EXCEPT !.phase = "backlog"]
  <2>1. conn[c] = NoConnection /\ conn' = [conn EXCEPT ![c] = k] /\ session' = session
    BY <1>1 DEF Connect
  <2>2. k.phase = "backlog" /\ k.up = <<>> /\ k.waiting = <<>> /\ k.part = 0
    BY <1>0, <2>1 DEF NoConnection, Connection
  <2> HIDE DEF k
  <2>3. Full(<<>>, <<>>, 0)
    <3>1. Len(<<>>) = 0 /\ 0 = 2 * 0 - 0 /\ 0 <= 2 * 0 - 0 /\ 1..0 = {}
      OBVIOUS
    <3> QED BY <3>1 DEF Full, Fits
  <2>4. Waiting(k)
    BY <2>2, <2>3 DEF Waiting
  <2>5. \A s \in ActiveSessions : session[s].client = c => Piped(k, session[s])
    BY <2>2 DEF Piped
  <2> QED BY <2>1, <2>2, <2>4, <2>5, ClientPipes
<1>2. CASE SeeClose(c)
  <2>1. conn' = [conn EXCEPT ![c] = NoConnection] /\ session' = session
    BY <1>2 DEF SeeClose
  <2>2. NoConnection.phase = "none"
    BY DEF NoConnection
  <2>3. Waiting(NoConnection) /\ \A s \in ActiveSessions : Piped(NoConnection, session[s])
    BY <2>2 DEF Waiting, Piped
  <2> QED BY <2>1, <2>2, <2>3, ClientPipes
<1>3. CASE Close(c)
  <2> DEFINE k == [conn[c] EXCEPT !.phase = "gone", !.down = <<>>, !.waiting = <<>>, !.part = 0]
  <2>1. conn' = [conn EXCEPT ![c] = k] /\ session' = session
    BY <1>3 DEF Close
  <2>2. k.phase = "gone"
    BY <1>0 DEF Connection
  <2> HIDE DEF k
  <2>3. Waiting(k) /\ \A s \in ActiveSessions : Piped(k, session[s])
    BY <2>2 DEF Waiting, Piped
  <2> QED BY <2>1, <2>2, <2>3, ClientPipes
<1> QED BY <1>1, <1>2, <1>3

\* What a client reads belongs to its oldest request.
LEMMA ReadFits ==
  ASSUME SessionInv, Pipes, NEW c \in Clients, conn[c].phase \in {"open", "closed"},
         conn[c].down # <<>>
  PROVE  /\ Fits(conn[c].down, conn[c].waiting, conn[c].part)
         /\ conn[c].waiting # <<>>
<1>0. Typed /\ Owners /\ conn[c] \in Connection(generations)
  BY SlotsSplit DEF SessionInv, Typed
<1>1. /\ conn[c].down \in Seq(Cell) /\ conn[c].waiting \in Seq(Nat) /\ conn[c].part \in {0, 1}
  BY <1>0, NoSessionTyped, FlowTyped
<1>2. CASE conn[c].phase = "open"
  <2>1. PICK s \in ActiveSessions : session[s].client = c
    BY <1>0, <1>2 DEF Owners
  <2>2. session[s] \in Session(generations) /\ Piped(conn[c], session[s])
    BY <1>0, <2>1, ActiveSlots, SessionFields DEF Pipes
  <2> DEFINE y == session[s].outbound \o (session[s].inbound \o conn[c].up)
  <2>3. Flow(conn[c], session[s]) = conn[c].down \o y /\ y \in Seq(Cell)
    BY <1>0, <2>2, FlowSplits
  <2> HIDE DEF y
  <2>4. Fits(conn[c].down \o y, conn[c].waiting, conn[c].part)
    BY <1>2, <2>2, <2>3 DEF Piped, Full
  <2> QED BY <1>1, <2>3, <2>4, FitsFirst, FitsRead
<1>3. CASE conn[c].phase = "closed"
  <2>1. Fits(conn[c].down, conn[c].waiting, conn[c].part)
    BY <1>3 DEF Pipes, Waiting
  <2> QED BY <1>1, <2>1, FitsRead
<1> QED BY <1>2, <1>3

\* A client is told of no generation there is not.
LEMMA ReadKeeps ==
  ASSUME SessionInv, Pipes, NEW c \in Clients, Read(c)
  PROVE  SessionInv'
<1> DEFINE d == conn[c].down
           cell == Head(d)
<1>0. /\ Typed /\ conn[c] \in Connection(generations) /\ told \in Nat /\ told <= generations
      /\ generations \in Nat /\ Bounded
  BY BuffersSplit DEF SessionInv, Typed
<1>1. /\ conn[c].phase \in {"open", "closed"} /\ d # <<>>
      /\ UNCHANGED <<backlog, session, listening, stop_requested, stopped, pc, current, processed,
                     drain, generations, retired>>
  BY DEF Read, flags, thread, runtime
<1>2. d \in Seq(Answering(generations)) /\ conn[c].waiting \in Seq(Nat)
  BY <1>0, ConnectionFields
<1>3. /\ Tail(d) \in Seq(Answering(generations)) /\ Len(Tail(d)) <= SocketCells
      /\ cell \in Answering(generations)
  <2>1. Len(d) <= SocketCells /\ SocketCells \in Nat
    BY <1>0, CoordinatorAssumption DEF Bounded
  <2> HIDE DEF d
  <2>2. /\ Tail(d) \in Seq(Answering(generations)) /\ Len(Tail(d)) = Len(d) - 1
        /\ Len(d) \in Nat /\ Head(d) \in Answering(generations)
    BY <1>1, <1>2
  <2> QED BY <2>1, <2>2
<1>4. cell.of.generation \in Nat /\ cell.of.generation <= generations
  <2> HIDE DEF cell
  <2> QED BY <1>3 DEF Answering, Cell, Message
<1>5. CASE cell.part = 1
  <2> DEFINE x == [conn[c] EXCEPT !.down = Tail(d), !.part = 1]
  <2>1. conn' = [conn EXCEPT ![c] = x] /\ told' = told
    BY <1>5 DEF Read
  <2>2. x \in Connection(generations) /\ x.phase = conn[c].phase /\ x.down = Tail(d)
    BY <1>0, <1>3 DEF Connection
  <2> HIDE DEF x, d
  <2> QED BY <1>0, <1>1, <1>3, <2>1, <2>2, ClientKeeps
<1>6. CASE cell.part # 1
  <2> DEFINE w == Tail(conn[c].waiting)
             x == [conn[c] EXCEPT !.down = Tail(d), !.part = 0, !.waiting = w]
  <2>1. conn' = [conn EXCEPT ![c] = x] /\ told' = Max2(told, cell.of.generation)
    BY <1>6 DEF Read
  <2>2. told' \in Nat /\ told' <= generations
    <3> HIDE DEF cell
    <3> QED BY <1>0, <1>4, <2>1 DEF Max2
  <2>3. w \in Seq(Nat)
    <3>1. conn[c].waiting # <<>>
      BY <1>1, ReadFits
    <3> DEFINE v == conn[c].waiting
    <3>2. v \in Seq(Nat) /\ v # <<>>
      BY <1>2, <3>1
    <3> HIDE DEF v
    <3>3. Tail(v) \in Seq(Nat)
      BY <3>2
    <3> QED BY <3>3 DEF v
  <2> HIDE DEF w
  <2>4. x \in Connection(generations) /\ x.phase = conn[c].phase /\ x.down = Tail(d)
    BY <1>0, <1>3, <2>3 DEF Connection
  <2> HIDE DEF x, d
  <2> QED BY <1>0, <1>1, <1>3, <2>1, <2>2, <2>4, ClientKeeps
<1> QED BY <1>5, <1>6

LEMMA ClosesKeep ==
  ASSUME SessionInv, NEW c \in Clients, SeeClose(c) \/ Close(c)
  PROVE  SessionInv'
<1>0. Typed /\ conn[c] \in Connection(generations) /\ told \in Nat /\ told <= generations
  BY DEF SessionInv, Typed
<1>1. Len(<<>>) = 0 /\ 0 <= SocketCells
  BY CoordinatorAssumption
<1>2. CASE SeeClose(c)
  <2>1. /\ conn[c].phase = "closed" /\ conn' = [conn EXCEPT ![c] = NoConnection]
        /\ UNCHANGED <<backlog, session, listening, stop_requested, stopped, pc, current,
                       processed, drain, generations, retired, told>>
    BY <1>2 DEF SeeClose, flags, thread, runtime
  <2>2. /\ NoConnection \in Connection(generations) /\ NoConnection.phase = "none"
        /\ NoConnection.down = <<>>
    BY <1>0, ClosedTyped DEF NoConnection
  <2> QED BY <1>0, <1>1, <2>1, <2>2, ClientKeeps
<1>3. CASE Close(c)
  <2> DEFINE x == [conn[c] EXCEPT !.phase = "gone", !.down = <<>>, !.waiting = <<>>, !.part = 0]
  <2>1. /\ conn[c].phase \in {"backlog", "open"} /\ conn' = [conn EXCEPT ![c] = x]
        /\ UNCHANGED <<backlog, session, listening, stop_requested, stopped, pc, current,
                       processed, drain, generations, retired, told>>
    BY <1>3 DEF Close, flags, thread, runtime
  <2>2. x \in Connection(generations) /\ x.phase = "gone" /\ x.down = <<>>
    <3>1. <<>> \in Seq(Answering(generations)) /\ <<>> \in Seq(Nat)
      OBVIOUS
    <3> QED BY <1>0, <3>1 DEF Connection
  <2> HIDE DEF x
  <2> QED BY <1>0, <1>1, <2>1, <2>2, ClientKeeps
<1> QED BY <1>2, <1>3

\* A request more is one more answer to wait for.
LEMMA SendPipes ==
  ASSUME SessionInv, Pipes, NEW c \in Clients, NEW op \in Operations[c],
         NEW generation \in IF op = "publish" THEN 2..MaxGeneration ELSE {0},
         Send(c, op, generation)
  PROVE  Pipes'
<1> DEFINE request == [id |-> conn[c].next, op |-> op,
                       floor |-> IF op = "describe" THEN told ELSE 0,
                       generation |-> generation]
           f == FrameCells(request)
           w == conn[c].waiting
           p == conn[c].part
           u == conn[c].up
           v == Append(w, request.id)
           k == conn'[c]
<1>0. /\ Typed /\ conn[c] \in Connection(generations) /\ told \in Nat
      /\ conn \in [Clients -> Connection(generations)]
  BY DEF SessionInv, Typed
<1>1. /\ session' = session /\ conn[c].phase \in {"backlog", "open"}
      /\ conn' = [conn EXCEPT ![c] = [conn[c] EXCEPT !.up = u \o f, !.waiting = v,
                                      !.next = (conn[c].next + 1) % (Window + 1)]]
  BY DEF Send
<1>2. k = [conn[c] EXCEPT !.up = u \o f, !.waiting = v,
                          !.next = (conn[c].next + 1) % (Window + 1)]
  BY <1>0, <1>1
<1>3. request \in Message
  <2>1. op \in Request /\ generation \in Nat /\ conn[c].next \in Nat
    BY <1>0, ConnectionFields, CoordinatorAssumption
  <2> QED BY <1>0, <2>1 DEF Message
<1> HIDE DEF request
<1>4. /\ u \in Seq(Cell) /\ w \in Seq(Nat) /\ p \in {0, 1} /\ f \in Seq(Cell)
  <2>1. u \in Seq(Cell) /\ w \in Seq(Nat) /\ p \in {0, 1}
    BY <1>0, NoSessionTyped, FlowTyped
  <2>2. f \in Seq(Cell)
    BY <1>3 DEF FrameCells, Cell
  <2> QED BY <2>1, <2>2
<1>5. /\ k.phase = conn[c].phase /\ k.up = u \o f /\ k.waiting = v /\ k.part = p
      /\ k.down = conn[c].down
  <2> HIDE DEF k, f, v
  <2> QED BY <1>0, <1>2 DEF Connection
<1> HIDE DEF k
<1>6. Waiting(k)
  <2> SUFFICES ASSUME conn[c].phase = "backlog" PROVE Full(u \o f, v, p)
    BY <1>1, <1>5 DEF Waiting
  <2>1. Full(u, w, p)
    BY DEF Pipes, Waiting
  <2> HIDE DEF u, w, p
  <2> QED BY <1>3, <1>4, <2>1, FullMore
<1>7. ASSUME NEW s \in ActiveSessions, session[s].client = c
      PROVE  Piped(k, session[s])
  <2> DEFINE x == session[s]
             a == (conn[c].down \o x.outbound) \o x.inbound
  <2> SUFFICES ASSUME conn[c].phase = "open"
               PROVE  /\ Full(Flow(k, x), v, p)
                      /\ (p + Len(conn[c].down) + Len(x.outbound)) % 2 = 0
    BY <1>5 DEF Piped
  <2>1. Piped(conn[c], x) /\ x \in Session(generations)
    BY <1>0, <1>7, ActiveSlots, SessionFields DEF Pipes
  <2>2. Full(Flow(conn[c], x), w, p) /\ Flow(conn[c], x) = a \o u
    BY <2>1 DEF Piped, Flow
  <2>3. a \in Seq(Cell)
    <3>1. conn[c].down \in Seq(Cell) /\ x.outbound \in Seq(Cell) /\ x.inbound \in Seq(Cell)
      BY <1>0, <2>1, FlowTyped
    <3> HIDE DEF x
    <3> QED BY <3>1, ConcatProperties
  <2>4. Flow(k, x) = a \o (u \o f)
    BY <1>5 DEF Flow
  <2>5. (p + Len(conn[c].down) + Len(x.outbound)) % 2 = 0
    BY <2>1 DEF Piped
  <2> HIDE DEF a, x, u, w, p, f
  <2>6. a \o (u \o f) = (a \o u) \o f
    BY <1>4, <2>3, SMTT(30)
  <2>7. a \o u \in Seq(Cell)
    BY <1>4, <2>3
  <2>8. Full((a \o u) \o FrameCells(request), Append(w, request.id), p)
    BY <1>3, <1>4, <2>2, <2>7, FullMore
  <2> QED BY <2>4, <2>5, <2>6, <2>8 DEF f
<1>8. conn' = [conn EXCEPT ![c] = k]
  BY <1>1, <1>2
<1> QED BY <1>1, <1>5, <1>6, <1>7, <1>8, ClientPipes

\* A cell less to read.
LEMMA ReadPipes ==
  ASSUME SessionInv, Pipes, NEW c \in Clients, Read(c)
  PROVE  Pipes'
<1> DEFINE d == conn[c].down
           w == conn[c].waiting
           p == conn[c].part
           k == conn'[c]
           head == d[1].part = 1
           v == IF head THEN w ELSE Tail(w)
           o == IF head THEN 1 ELSE 0
<1>0. /\ Typed /\ Owners /\ conn[c] \in Connection(generations) /\ w \in Seq(Nat)
      /\ conn \in [Clients -> Connection(generations)]
  BY SlotsSplit DEF SessionInv, Typed, Connection
<1>1. /\ session' = session /\ conn[c].phase \in {"open", "closed"} /\ d # <<>>
  BY DEF Read
<1>2. d \in Seq(Cell) /\ p \in {0, 1} /\ conn[c].up \in Seq(Cell)
  BY <1>0, NoSessionTyped, FlowTyped
<1>3. conn' = [conn EXCEPT ![c] = [conn[c] EXCEPT !.down = Tail(d), !.part = o, !.waiting = v]]
  <2>1. Head(d) = d[1]
    BY <1>1, <1>2
  <2>2. CASE head
    <3>1. conn' = [conn EXCEPT ![c].down = Tail(@), ![c].part = 1]
      BY <2>1, <2>2 DEF Read
    <3>2. conn[c] = [conn[c] EXCEPT !.waiting = w]
      BY <1>0 DEF Connection
    <3>3. [conn[c] EXCEPT !.down = Tail(d), !.part = 1]
            = [conn[c] EXCEPT !.down = Tail(d), !.part = 1, !.waiting = w]
      BY <1>0 DEF Connection
    <3> QED BY <2>2, <3>1, <3>3
  <2>3. CASE ~head
    BY <2>1, <2>3 DEF Read
  <2> QED BY <2>2, <2>3
<1>4. k = [conn[c] EXCEPT !.down = Tail(d), !.part = o, !.waiting = v]
  BY <1>0, <1>3
<1>5. /\ k.phase = conn[c].phase /\ k.up = conn[c].up /\ k.down = Tail(d) /\ k.part = o
      /\ k.waiting = v
  <2> HIDE DEF k, o, v
  <2> QED BY <1>0, <1>4 DEF Connection
<1> HIDE DEF k
<1>6. Fits(d, w, p)
  BY <1>1, ReadFits
<1>7. Fits(Tail(d), v, o) /\ (head => p = 0) /\ (~head => p = 1)
  <2> HIDE DEF d, w, p
  <2> QED BY <1>0, <1>1, <1>2, <1>6, FitsRead
<1>8. Waiting(k)
  BY <1>1, <1>5, <1>7 DEF Waiting
<1>9. ASSUME NEW s \in ActiveSessions, session[s].client = c
      PROVE  Piped(k, session[s])
  <2> DEFINE x == session[s]
             b == x.outbound
             i == x.inbound
             u == conn[c].up
             y == b \o (i \o u)
             q == d \o y
  <2> SUFFICES ASSUME conn[c].phase = "open"
               PROVE  /\ Full(Flow(k, x), v, o)
                      /\ (o + Len(Tail(d)) + Len(b)) % 2 = 0
    BY <1>5 DEF Piped
  <2>1. Piped(conn[c], x) /\ x \in Session(generations)
    BY <1>0, <1>9, ActiveSlots, SessionFields DEF Pipes
  <2>2. Flow(conn[c], x) = q /\ y \in Seq(Cell)
    BY <1>0, <2>1, FlowSplits
  <2>3. /\ Full(q, w, p) /\ (p + Len(d) + Len(b)) % 2 = 0
    BY <2>1, <2>2 DEF Piped
  <2>4. b \in Seq(Cell) /\ i \in Seq(Cell) /\ u \in Seq(Cell)
    BY <1>0, <2>1, FlowTyped
  <2>5. Tail(d) \in Seq(Cell) /\ Len(Tail(d)) = Len(d) - 1 /\ Len(d) \in Nat /\ Len(d) >= 1
    <3> HIDE DEF d
    <3> QED BY <1>1, <1>2
  <2>6. Flow(k, x) = Tail(d) \o y
    <3> DEFINE e == Tail(d)
    <3>1. Flow(k, x) = ((e \o b) \o i) \o u
      BY <1>5 DEF Flow
    <3>2. e \in Seq(Cell)
      BY <2>5
    <3> HIDE DEF e, b, i, u
    <3>3. ((e \o b) \o i) \o u = e \o (b \o (i \o u))
      <4> DEFINE z == e \o b
                 t == i \o u
      <4>1. z \in Seq(Cell) /\ t \in Seq(Cell)
        BY <2>4, <3>2, ConcatProperties
      <4>2. (z \o i) \o u = z \o (i \o u)
        <5> HIDE DEF z
        <5> QED BY <2>4, <4>1
      <4>3. (e \o b) \o t = e \o (b \o t)
        <5> HIDE DEF t
        <5> QED BY <2>4, <3>2, <4>1
      <4> QED BY <4>2, <4>3
    <3> QED BY <3>1, <3>3 DEF e
  <2> HIDE DEF x, y, b, i, u
  <2>7. /\ q \in Seq(Cell) /\ q # <<>> /\ q[1] = d[1] /\ Tail(q) = Tail(d) \o y
    <3> HIDE DEF d
    <3>1. q \in Seq(Cell) /\ Len(q) = Len(d) + Len(y) /\ Len(y) \in Nat
      BY <1>2, <2>2, ConcatProperties
    <3>2. q # <<>>
      BY <2>5, <3>1
    <3>3. q[1] = d[1]
      BY <1>2, <2>2, <2>5
    <3>4. Tail(q) = Tail(d) \o y
      BY <1>1, <1>2, <2>2, <2>5
    <3> QED BY <3>1, <3>2, <3>3, <3>4
  <2> HIDE DEF q
  <2>8. Full(Tail(q), v, o)
    <3>1. Fits(q, w, p) /\ Len(q) = 2 * Len(w) - p
      BY <2>3 DEF Full
    <3> HIDE DEF w, p, d
    <3>2. /\ q[1].part = 1 => Full(Tail(q), w, 1)
          /\ q[1].part # 1 => Full(Tail(q), Tail(w), 0)
      BY <1>0, <1>2, <2>7, <3>1, FitsRead
    <3>3. CASE head
      BY <2>7, <3>2, <3>3
    <3>4. CASE ~head
      BY <2>7, <3>2, <3>4
    <3> QED BY <3>3, <3>4
  <2>9. (o + Len(Tail(d)) + Len(b)) % 2 = 0
    <3> DEFINE m == Len(d)
               n == Len(b)
    <3>1. m \in Nat /\ n \in Nat /\ m >= 1 /\ Len(Tail(d)) = m - 1 /\ (p + m + n) % 2 = 0
      BY <2>3, <2>4, <2>5
    <3>2. (p = 0 /\ o = 1) \/ (p = 1 /\ o = 0)
      <4> HIDE DEF head, p, v, d
      <4>1. CASE head
        BY <1>7, <4>1
      <4>2. CASE ~head
        BY <1>7, <4>2
      <4> QED BY <4>1, <4>2
    <3> HIDE DEF m, n, p, o, d, b
    <3>3. (o + (m - 1) + n) % 2 = 0
      <4>1. CASE p = 0 /\ o = 1
        BY <3>1, <4>1
      <4>2. CASE p = 1 /\ o = 0
        BY <3>1, <4>2
      <4> QED BY <3>2, <4>1, <4>2
    <3> QED BY <3>1, <3>3 DEF n
  <2> QED BY <2>6, <2>7, <2>8, <2>9
<1>10. conn' = [conn EXCEPT ![c] = k]
  BY <1>3, <1>4
<1> HIDE DEF v, o, d
<1> QED BY <1>1, <1>5, <1>8, <1>9, <1>10, ClientPipes

-----------------------------------------------------------------------------
(* The invariant holds *)

LEMMA InitSession ==
  ASSUME Init
  PROVE  SessionInv /\ Pipes
<1>1. /\ conn = [c \in Clients |-> NoConnection] /\ backlog = <<>>
      /\ session = [s \in Slots |-> NoSession]
      /\ listening = TRUE /\ stop_requested = FALSE /\ stopped = FALSE
      /\ pc = "pass" /\ current = 0 /\ processed = 0 /\ drain = 0
      /\ generations \in 0..MaxGeneration /\ retired = FALSE /\ told = 0
  BY DEF Init
<1>2. generations \in Nat /\ 0 <= generations
  BY <1>1, CoordinatorAssumption
<1>3. /\ NoSession \in Session(generations) /\ NoConnection \in Connection(generations)
  <2>1. NoConnection \in Connection(generations)
    BY DEF NoConnection, Connection
  <2> QED BY <2>1, NoSessionTyped
<1>4. /\ NoConnection.phase = "none" /\ NoConnection.down = <<>>
      /\ ~NoSession.used /\ NoSession.inbound = <<>> /\ NoSession.outbound = <<>>
  BY DEF NoConnection, NoSession
<1>5. ActiveSessions = {} /\ DOMAIN backlog = {} /\ 1..Len(backlog) = {}
  BY <1>1, <1>4 DEF ActiveSessions
<1>6. Typed
  <2>1. <<>> \in Seq(Clients)
    OBVIOUS
  <2>2. /\ conn \in [Clients -> Connection(generations)]
        /\ session \in [Slots -> Session(generations)]
    BY <1>1, <1>3
  <2>3. 0 \in Nat /\ 0 <= 0
    OBVIOUS
  <2> QED BY <1>1, <1>2, <2>1, <2>2, <2>3 DEF Typed, Places
<1>7. Owners
  BY <1>1, <1>4, <1>5 DEF Owners
<1>8. Queue
  BY <1>1, <1>4, <1>5 DEF Queue
<1>9. Bounded
  <2>1. Len(<<>>) = 0 /\ 0 <= 2 /\ 0 <= ReceiveCells + 1 /\ 0 <= SocketCells
    BY CoordinatorAssumption
  <2> QED BY <1>1, <1>4, <2>1 DEF Bounded
<1>10. SlotsMatchConnections /\ Buffers
  BY <1>1, <1>7, <1>9, SlotsSplit, BuffersSplit
<1>11. Pipes
  BY <1>1, <1>4, <1>5 DEF Pipes, Waiting
<1> QED BY <1>6, <1>8, <1>10, <1>11 DEF SessionInv

LEMMA ThreadKeeps ==
  ASSUME SessionInv, Pipes, Pass \/ Shutdown
  PROVE  SessionInv' /\ Pipes'
<1>1. CASE \/ StartPass \/ RunReturns \/ AcceptNone \/ YieldAfterFrames \/ NeedBytes
           \/ NothingToReceive \/ DrainWaits \/ ShutdownEnds
  <2>1. conn' = conn /\ session' = session
    BY <1>1 DEF StartPass, RunReturns, AcceptNone, YieldAfterFrames, NeedBytes,
                NothingToReceive, DrainWaits, ShutdownEnds, sockets
  <2>2. SessionInv'
    BY <1>1, MovesKeep
  <2> QED BY <2>1, <2>2, QuietPipes
<1>2. CASE AcceptRejects
  BY <1>2, AcceptRejectsKeeps, BacklogPipes
<1>3. CASE Accept
  BY <1>3, AcceptKeeps, AcceptPipes
<1>4. CASE Flush \/ FlushBlocks \/ DrainFlush
  <2>1. pc \in {"flush", "drain"} /\ Sent
    BY <1>4 DEF Flush, FlushBlocks, DrainFlush
  <2> QED BY <1>4, <2>1, FlushKeeps, SentPipes
<1>5. CASE FlushFails \/ InvalidFrame \/ PeerClosed \/ ReplyTooLarge
  <2>1. pc \in {"flush", "frames", "receive"} /\ Drop({current})
    BY <1>5 DEF FlushFails, InvalidFrame, PeerClosed, ReplyTooLarge, EndSession
  <2>2. {current} \in SUBSET ActiveSessions
    BY <2>1, AtSession
  <2> QED BY <1>5, <2>1, <2>2, EndSessionKeeps, DropPipes
<1>6. CASE HandleFrame
  BY <1>6, HandleFrameKeeps, HandleFramePipes
<1>7. CASE Receive
  BY <1>7, ReceiveKeeps, ReceivePipes
<1>8. CASE ReapIdle
  <2> DEFINE idle == {s \in ActiveSessions : IdleTimeout # 0 /\ session[s].idle >= IdleTimeout}
  <2>1. Drop(idle) /\ idle \in SUBSET ActiveSessions
    BY <1>8 DEF ReapIdle
  <2> HIDE DEF idle
  <2> QED BY <1>8, <2>1, ReapIdleKeeps, DropPipes
<1>9. CASE ShutdownBegins
  BY <1>9, ShutdownBeginsKeeps, BacklogPipes
<1>10. CASE DrainEnds
  <2>1. pc = "drain" /\ Drop({current})
    BY <1>10 DEF DrainEnds
  <2>2. {current} \in SUBSET ActiveSessions
    BY <2>1, AtSession
  <2> QED BY <1>10, <2>1, <2>2, DrainEndsKeeps, DropPipes
<1> QED BY <1>1, <1>2, <1>3, <1>4, <1>5, <1>6, <1>7, <1>8, <1>9, <1>10
    DEF Pass, Pump, Shutdown

LEMMA EnvironmentKeeps ==
  ASSUME SessionInv, Pipes, RequestStop \/ Tick \/ \E c \in Clients : Client(c)
  PROVE  SessionInv' /\ Pipes'
<1>1. CASE RequestStop
  <2>1. conn' = conn /\ session' = session
    BY <1>1 DEF RequestStop, sockets
  <2> QED BY <1>1, <2>1, MovesKeep, QuietPipes
<1>2. CASE Tick
  <2>1. conn' = conn
    BY <1>2 DEF Tick, sockets
  <2>2. \A s \in Slots : /\ session'[s].used = session[s].used
                         /\ session'[s].client = session[s].client
                         /\ session'[s].inbound = session[s].inbound
                         /\ session'[s].outbound = session[s].outbound
    BY <1>2, TickFields
  <2> QED BY <1>2, <2>1, <2>2, TickKeeps, QuietPipes
<1>3. ASSUME NEW c \in Clients, Client(c)
      PROVE  SessionInv' /\ Pipes'
  <2>1. CASE Connect(c)
    BY <2>1, ConnectKeeps, EndsPipes
  <2>2. CASE SeeClose(c) \/ Close(c)
    BY <2>2, ClosesKeep, EndsPipes
  <2>3. CASE \E op \in Operations[c] :
               \E generation \in IF op = "publish" THEN 2..MaxGeneration ELSE {0} :
                 Send(c, op, generation)
    BY <2>3, SendKeeps, SendPipes
  <2>4. CASE Read(c)
    BY <2>4, ReadKeeps, ReadPipes
  <2> QED BY <1>3, <2>1, <2>2, <2>3, <2>4 DEF Client
<1> QED BY <1>1, <1>2, <1>3

LEMMA StutterKeeps ==
  ASSUME SessionInv, Pipes, UNCHANGED vars
  PROVE  SessionInv' /\ Pipes'
<1>1. /\ UNCHANGED <<conn, backlog, session, listening, stop_requested, stopped, pc, current,
                     processed, drain, generations, retired, told>>
  BY DEF vars, sockets, flags, thread, runtime
<1>2. SessionInv'
  BY <1>1 DEF SessionInv, Typed, SlotsMatchConnections, ActiveSessions, Queue, Buffers,
              BuffersBounded
<1> QED BY <1>1, <1>2, QuietPipes

\* The inductive invariant: sessions and connections belong together, no
\* buffer grows beyond its bound, and what is between a client and its
\* session is, cell for cell, what the client waits for.
THEOREM SessionInvariant == Spec => [](SessionInv /\ Pipes)
<1>1. Init => SessionInv /\ Pipes
  BY InitSession
<1>2. (SessionInv /\ Pipes) /\ [Next]_vars => (SessionInv /\ Pipes)'
  BY ThreadKeeps, EnvironmentKeeps, StutterKeeps DEF Next
<1> QED BY <1>1, <1>2, PTL DEF Spec

\* Every slot in use belongs to exactly one live connection, every accepted
\* connection has a slot, and a slot not in use keeps no bytes of the session
\* before, however many slots and clients there are (drop, accept_pending).
THEOREM SlotsMatch == Spec => []SlotsMatchConnections
<1>1. SessionInv /\ Pipes => SlotsMatchConnections
  BY DEF SessionInv
<1> QED BY <1>1, SessionInvariant, PTL

\* However much a peer sends and however little it reads, its session holds
\* at most one reply and one receive more than an incomplete frame (pump).
THEOREM BuffersStayBounded == Spec => []BuffersBounded
<1>1. SessionInv /\ Pipes => BuffersBounded
  BY DEF SessionInv, Buffers
<1> QED BY <1>1, SessionInvariant, PTL

\* A description tells of every generation that any client had been told of
\* when it was asked for, whichever sessions carried the answers
\* (handle_frame).
THEOREM ReadsAreFresh == Spec => []FreshReads
<1>1. SessionInv /\ Pipes => FreshReads
  <2> SUFFICES ASSUME SessionInv, NEW c \in Clients, NEW i \in DOMAIN conn[c].down,
                      conn[c].down[i].of.op = "describe"
               PROVE  conn[c].down[i].of.generation >= conn[c].down[i].of.floor
    BY DEF FreshReads
  <2> DEFINE d == conn[c].down
             x == d[i]
  <2>1. d \in Seq(Answering(generations))
    BY ConnectionFields DEF SessionInv
  <2>2. x \in Answering(generations)
    <3> HIDE DEF d
    <3>1. i \in 1..Len(d)
      BY <2>1 DEF d
    <3> QED BY <2>1, <3>1
  <2>3. x.of.op = "describe"
    OBVIOUS
  <2> HIDE DEF x
  <2>4. x.of.generation >= x.of.floor
    BY <2>2, <2>3 DEF Answering, Cell, Message
  <2> QED BY <2>4 DEF x
<1> QED BY <1>1, SessionInvariant, PTL

\* The marks of cells that fit are those the client expects.
LEMMA MarksFit ==
  ASSUME NEW q \in Seq(Cell), NEW w \in Seq(Nat), NEW p \in {0, 1}, Full(q, w, p)
  PROVE  Marks(q) =
           [i \in 1..(2 * Len(w) - p) |->
              LET j == i + p IN <<w[(j + 1) \div 2], IF j % 2 = 1 THEN 1 ELSE 2>>]
<1>1. DOMAIN q = 1..(2 * Len(w) - p)
  BY DEF Full
<1>2. \A i \in 1..(2 * Len(w) - p) :
        q[i].of.id = w[(i + p + 1) \div 2] /\ q[i].part = IF (i + p) % 2 = 1 THEN 1 ELSE 2
  BY DEF Full, Fits
<1> QED BY <1>1, <1>2 DEF Marks

LEMMA MarksBegin ==
  ASSUME NEW q \in Seq(Cell), NEW w \in Seq(Nat), NEW p \in {0, 1}, Fits(q, w, p)
  PROVE  IsPrefixOf(Marks(q),
           [i \in 1..(2 * Len(w) - p) |->
              LET j == i + p IN <<w[(j + 1) \div 2], IF j % 2 = 1 THEN 1 ELSE 2>>])
<1> DEFINE n == 2 * Len(w) - p
           e == [i \in 1..n |-> LET j == i + p IN <<w[(j + 1) \div 2], IF j % 2 = 1 THEN 1 ELSE 2>>]
           m == Len(q)
<1>1. m \in Nat /\ DOMAIN q = 1..m /\ m <= n /\ Len(w) \in Nat
  BY DEF Fits
<1>2. \A i \in 1..m :
        q[i].of.id = w[(i + p + 1) \div 2] /\ q[i].part = IF (i + p) % 2 = 1 THEN 1 ELSE 2
  BY DEF Fits
<1>3. n \in Nat
  <2> DEFINE z == Len(w)
  <2>1. z \in Nat /\ m <= 2 * z - p /\ m \in Nat
    BY <1>1
  <2> HIDE DEF z, m
  <2> QED BY <2>1 DEF z
<1> HIDE DEF n, m
<1>4. \A i \in 1..m : i \in 1..n
  BY <1>1, <1>3
<1>5. Marks(q) = [i \in 1..m |-> <<q[i].of.id, q[i].part>>]
  BY <1>1 DEF Marks
<1>6. Len(Marks(q)) = m
  BY <1>1, <1>5
<1>7. Len(e) = n
  BY <1>3
<1>8. \A i \in DOMAIN Marks(q) : Marks(q)[i] = e[i]
  BY <1>2, <1>4, <1>5
<1> QED BY <1>1, <1>6, <1>7, <1>8 DEF IsPrefixOf, n

\* Between a client and its session no request and no answer is lost,
\* repeated, split or put out of order, however many requests are in flight
\* and however few cells a socket takes or a receive brings (pump, flush,
\* handle_frame, and read_frame of the client).
THEOREM PipelineStaysIntact == Spec => []PipelineIntact
<1>1. SessionInv /\ Pipes => PipelineIntact
  <2> SUFFICES ASSUME SessionInv, Pipes, NEW c \in Clients
               PROVE  /\ conn[c].phase = "open" =>
                           Marks(conn[c].down \o session[SlotOf(c)].outbound
                                   \o session[SlotOf(c)].inbound \o conn[c].up) = Expected(c)
                      /\ conn[c].phase = "backlog" => Marks(conn[c].up) = Expected(c)
                      /\ conn[c].phase = "closed" => IsPrefixOf(Marks(conn[c].down), Expected(c))
    BY DEF PipelineIntact
  <2>0. Typed /\ Owners /\ conn[c] \in Connection(generations)
    BY SlotsSplit DEF SessionInv, Typed
  <2> DEFINE w == conn[c].waiting
             p == conn[c].part
  <2>1. /\ conn[c].up \in Seq(Cell) /\ conn[c].down \in Seq(Cell) /\ w \in Seq(Nat) /\ p \in {0, 1}
    BY <2>0, NoSessionTyped, FlowTyped
  <2>2. Expected(c) = [i \in 1..(2 * Len(w) - p) |->
           LET j == i + p IN <<w[(j + 1) \div 2], IF j % 2 = 1 THEN 1 ELSE 2>>]
    BY DEF Expected
  <2> HIDE DEF w, p
  <2>3. CASE conn[c].phase = "open"
    <3> DEFINE s == SlotOf(c)
               q == Flow(conn[c], session[s])
    <3>1. s \in ActiveSessions /\ session[s].client = c
      BY <2>0, <2>3 DEF Owners, SlotOf
    <3> HIDE DEF s
    <3>2. session[s] \in Session(generations) /\ Piped(conn[c], session[s])
      BY <2>0, <3>1, ActiveSlots, SessionFields DEF Pipes
    <3>3. q \in Seq(Cell) /\ Full(q, w, p)
      BY <2>0, <2>3, <3>2, FlowTyped DEF Piped, w, p
    <3> HIDE DEF q
    <3>4. Marks(q) = Expected(c)
      BY <2>1, <2>2, <3>3, MarksFit, ZenonT(30)
    <3> QED BY <2>3, <3>4 DEF q, s, Flow
  <2>4. CASE conn[c].phase = "backlog"
    <3>1. Full(conn[c].up, w, p)
      BY <2>4 DEF Pipes, Waiting, w, p
    <3> QED BY <2>1, <2>2, <2>4, <3>1, MarksFit, ZenonT(30)
  <2>5. CASE conn[c].phase = "closed"
    <3>1. Fits(conn[c].down, w, p)
      BY <2>5 DEF Pipes, Waiting, w, p
    <3> QED BY <2>1, <2>2, <2>5, <3>1, MarksBegin
  <2> QED BY <2>3, <2>4, <2>5
<1> QED BY <1>1, SessionInvariant, PTL
=============================================================================
