---------------------------- MODULE Coordinator -----------------------------
(***************************************************************************)
(* The coordinator's session layer (src/src/coordinator.cpp): one thread   *)
(* that in passes accepts a connection, pumps every session and drops idle *)
(* ones, over non-blocking sockets whose peers send, read, stall and       *)
(* disappear as they like; and the stop request with the bounded drain.    *)
(*                                                                         *)
(* A frame is two cells, header and body, so that it can arrive and leave  *)
(* in parts.  Waits are not modelled: each is bounded (kAcceptPollMillis,  *)
(* kWorkPollMillis), so the thread always takes a further step; the flag   *)
(* `ready' only shortens them.  The counters served and rejected are left  *)
(* out.  What the runtime holds is reduced to one workload: the number of  *)
(* its generations and whether it is retired.                              *)
(***************************************************************************)
EXTENDS Integers, Sequences, FiniteSets

CONSTANTS
  Clients,
  Stalling,       \* clients that never read a reply
  Operations,     \* request schemas each client uses
  MaxSessions,    \* options.max_sessions
  FramesPerPass,  \* kFramesPerPass
  ReceiveCells,   \* kReceiveChunkBytes, in cells
  SocketCells,    \* cells a socket takes before send would block
  Window,         \* bound: requests a client has unanswered at a time
  MaxGeneration,  \* bound: generations of the workload
  IdleTimeout,    \* ticks that exceed options.idle_timeout_millis (0: it is off)
  DrainWindow,    \* kSessionDrainMillis, in polls of kDrainPollMillis
  NoClient

Request == {"register", "publish", "retire", "describe", "unknown", "garbled"}

ASSUME CoordinatorAssumption ==
  /\ Stalling \subseteq Clients /\ NoClient \notin Clients
  /\ Operations \in [Clients -> SUBSET Request]
  /\ MaxSessions \in Nat \ {0} /\ FramesPerPass \in Nat \ {0}
  /\ ReceiveCells \in Nat \ {0} /\ SocketCells \in Nat \ {0}
  /\ Window \in Nat \ {0} /\ MaxGeneration \in Nat
  /\ IdleTimeout \in Nat /\ DrainWindow \in Nat

VARIABLES
  \* the clients and their sockets
  conn,      \* client -> [phase, up, down, waiting, part, next]
  backlog,   \* connections not accepted yet, oldest first
  \* Coordinator::Impl
  session,   \* slot -> [used, client, inbound, outbound, idle]
  listening, \* the listener is open
  stop_requested, stopped,
  \* the serving thread
  pc,        \* where it is
  current,   \* the slot it is at
  processed, \* frames served in this pump
  drain,     \* polls left of the drain window
  \* the runtime
  generations, retired,
  \* observation
  told       \* the highest generation a client has been told exists

sockets == <<conn, backlog>>
flags == <<listening, stop_requested, stopped>>
thread == <<pc, current, processed, drain>>
runtime == <<generations, retired>>
vars == <<sockets, session, flags, thread, runtime, told>>

-----------------------------------------------------------------------------
(* Frames *)

\* encode_frame: what crosses the wire for one request or reply.
FrameCells(message) ==
  <<[of |-> message, part |-> 1], [of |-> message, part |-> 2]>>

\* decode_frame on the bytes received so far.  A bad magic, version, CRC or
\* length shows as soon as the header is complete.
Decode(inbound) ==
  CASE inbound = <<>> -> "truncated"
    [] inbound # <<>> /\ inbound[1].of.op = "garbled" -> "invalid"
    [] inbound # <<>> /\ inbound[1].of.op # "garbled" /\ Len(inbound) = 1 -> "truncated"
    [] OTHER -> "frame"

Max2(a, b) == IF a > b THEN a ELSE b
Min2(a, b) == IF a < b THEN a ELSE b

-----------------------------------------------------------------------------
(* Sessions *)

Slots == 1..MaxSessions

NoSession ==
  [used |-> FALSE, client |-> NoClient, inbound |-> <<>>, outbound |-> <<>>,
   idle |-> 0]

NoConnection ==
  [phase |-> "none", up |-> <<>>, down |-> <<>>, waiting |-> <<>>,
   part |-> 0, next |-> 0]

\* The server closes its end.  What is in flight to the client may still be
\* read; a client that is gone itself leaves nothing behind.
CloseConnection(connection) ==
  IF connection.phase = "gone"
  THEN NoConnection
  ELSE [connection EXCEPT !.phase = "closed", !.up = <<>>]

\* drop of every session in the set.
Drop(slots) ==
  /\ session' = [s \in Slots |-> IF s \in slots THEN NoSession ELSE session[s]]
  /\ conn' = [c \in Clients |->
                IF \E s \in slots : session[s].used /\ session[s].client = c
                THEN CloseConnection(conn[c]) ELSE conn[c]]

ActiveSessions == {s \in Slots : session[s].used}

\* Defect: the first slot, in use or not.
FirstSlot == 1

\* free_slot: the first slot not in use.
FreeSlot == CHOOSE s \in Slots \ ActiveSessions :
              \A t \in Slots \ ActiveSessions : s <= t

\* The serving thread goes on with the first session in use from `s' on, or
\* leaves the loop to `after'.
Visit(s, after) ==
  LET ahead == {t \in ActiveSessions : t >= s} IN
  IF ahead = {}
  THEN pc' = after /\ current' = 0
  ELSE /\ current' = CHOOSE t \in ahead : \A u \in ahead : t <= u
       /\ pc' = IF after = "reap" THEN "flush" ELSE "drain"

Here == session[current]
Socket == conn[Here.client]

\* The cells of the outbound buffer the socket takes now.
Room == Min2(SocketCells - Len(Socket.down), Len(Here.outbound))

\* Defect: an attempt to write counts as activity.
SentTouches ==
  /\ session' = [session EXCEPT
       ![current].outbound = SubSeq(@, Room + 1, Len(@)),
       ![current].idle = 0]
  /\ conn' = [conn EXCEPT
       ![Here.client].down = @ \o SubSeq(Here.outbound, 1, Room)]

\* send_some until the buffer is empty or the socket takes no more.
Sent ==
  /\ session' = [session EXCEPT
       ![current].outbound = SubSeq(@, Room + 1, Len(@)),
       ![current].idle = IF Room > 0 THEN 0 ELSE @]
  /\ conn' = [conn EXCEPT
       ![Here.client].down = @ \o SubSeq(Here.outbound, 1, Room)]

-----------------------------------------------------------------------------
(* A pass of the serving thread *)

\* run, run_pass: nothing is done once a stop is requested.
StartPass ==
  /\ pc = "pass" /\ ~stop_requested
  /\ pc' = "accept"
  /\ UNCHANGED <<sockets, session, flags, current, processed, drain, runtime, told>>

RunReturns ==
  /\ pc = "pass" /\ stop_requested
  /\ pc' = "returned"
  /\ UNCHANGED <<sockets, session, flags, current, processed, drain, runtime, told>>

\* accept_pending finds no connection, or the stop request that came in
\* since the pass began.  A request that comes while it waits in accept_one
\* does not keep it from accepting.
AcceptNone ==
  /\ pc = "accept"
  /\ backlog = <<>> \/ stop_requested
  /\ Visit(1, "reap") /\ processed' = 0
  /\ UNCHANGED <<sockets, session, flags, drain, runtime, told>>

\* Every session is in use, or the socket cannot be made non-blocking.
AcceptRejects ==
  /\ pc = "accept" /\ backlog # <<>>
  /\ conn' = [conn EXCEPT ![Head(backlog)] = CloseConnection(@)]
  /\ backlog' = Tail(backlog)
  /\ Visit(1, "reap") /\ processed' = 0
  /\ UNCHANGED <<session, flags, drain, runtime, told>>

Accept ==
  /\ pc = "accept" /\ backlog # <<>>
  /\ Cardinality(ActiveSessions) < MaxSessions
  /\ session' = [session EXCEPT
       ![FreeSlot] = [NoSession EXCEPT !.used = TRUE, !.client = Head(backlog)]]
  /\ conn' = [conn EXCEPT ![Head(backlog)].phase =
                IF @ = "backlog" THEN "open" ELSE @]
  /\ backlog' = Tail(backlog)
  /\ LET ahead == ActiveSessions \cup {FreeSlot} IN
       current' = CHOOSE s \in ahead : \A t \in ahead : s <= t
  /\ pc' = "flush" /\ processed' = 0
  /\ UNCHANGED <<flags, drain, runtime, told>>

\* flush: everything queued is written, the pump goes on with the frames.
Flush ==
  /\ pc = "flush" /\ Room = Len(Here.outbound)
  /\ Sent
  /\ pc' = "frames"
  /\ UNCHANGED <<backlog, flags, current, processed, drain, runtime, told>>

\* Defect: the pump reads on although its peer takes nothing.
FlushReadsOn ==
  /\ pc = "flush" /\ Room < Len(Here.outbound)
  /\ Sent
  /\ pc' = "frames"
  /\ UNCHANGED <<backlog, flags, current, processed, drain, runtime, told>>

\* Defect: the write waits until its peer reads.
FlushWaits ==
  /\ pc = "flush" /\ Room < Len(Here.outbound)
  /\ Sent
  /\ UNCHANGED <<backlog, flags, thread, runtime, told>>

\* flush would block: the session keeps the rest for a later pass.
FlushBlocks ==
  /\ pc = "flush" /\ Room < Len(Here.outbound)
  /\ Sent
  /\ Visit(current + 1, "reap") /\ processed' = 0
  /\ UNCHANGED <<backlog, flags, drain, runtime, told>>

\* The pump ends with the session: its peer is gone, its frame is invalid or
\* its reply cannot be framed.
EndSession ==
  /\ Drop({current})
  /\ Visit(current + 1, "reap") /\ processed' = 0
  /\ UNCHANGED <<backlog, flags, drain>>

FlushFails ==
  /\ pc = "flush" /\ Here.outbound # <<>> /\ Socket.phase = "gone"
  /\ EndSession
  /\ UNCHANGED <<runtime, told>>

-----------------------------------------------------------------------------
(* handle_frame *)

\* What the runtime answers: the generation a mutation reached, or 0 for a
\* refusal.  "describe" stands for every request that only reads.
Outcome(op, generation) ==
  CASE op = "register" -> IF generations = 0 /\ MaxGeneration > 0 THEN 1 ELSE 0
    [] op = "publish" ->
         IF ~retired /\ generation = generations + 1 /\ generations > 0
            /\ generation <= MaxGeneration
         THEN generation ELSE 0
    [] op = "retire" -> IF generations > 0 /\ ~retired THEN generations ELSE 0
    [] op = "describe" -> generations
    [] OTHER -> 0

\* Defect: a publication is answered as accepted whatever the runtime said.
ReplyOptimistic(request) ==
  [id |-> request.id, op |-> request.op,
   floor |-> request.floor,
   generation |-> IF request.op = "publish" THEN request.generation
                  ELSE Outcome(request.op, request.generation)]

\* queue_success or queue_error: exactly one reply to each request that was
\* framed correctly.  An unknown schema, like every refusal, is answered.
Reply(request) ==
  [id |-> request.id, op |-> request.op,
   floor |-> request.floor,
   generation |-> Outcome(request.op, request.generation)]

Effect(request) ==
  LET result == Outcome(request.op, request.generation) IN
  /\ generations' = IF request.op \in {"register", "publish"} /\ result > 0
                    THEN result ELSE generations
  /\ retired' = (retired \/ (request.op = "retire" /\ result > 0))

\* Defect: the bytes of the frame stay in the buffer.
UnconsumedInbound(inbound) == inbound

\* pump erases the bytes decode_frame consumed.
Consumed(inbound) == SubSeq(inbound, 3, Len(inbound))

HandleFrame ==
  /\ pc = "frames" /\ processed < FramesPerPass
  /\ Decode(Here.inbound) = "frame"
  /\ LET request == Here.inbound[1].of IN
       /\ session' = [session EXCEPT
            ![current].inbound = Consumed(@),
            ![current].outbound = @ \o FrameCells(Reply(request)),
            ![current].idle = 0]
       /\ Effect(request)
  /\ processed' = processed + 1
  /\ pc' = "flush"
  /\ UNCHANGED <<sockets, flags, current, drain, told>>

\* The request is performed, but its reply exceeds the frame bound.
ReplyTooLarge ==
  /\ pc = "frames" /\ processed < FramesPerPass
  /\ Decode(Here.inbound) = "frame"
  /\ Effect(Here.inbound[1].of)
  /\ EndSession
  /\ UNCHANGED told

\* A framing failure ends the session without a reply.
InvalidFrame ==
  /\ pc = "frames" /\ processed < FramesPerPass
  /\ Decode(Here.inbound) = "invalid"
  /\ EndSession
  /\ UNCHANGED <<runtime, told>>

\* One busy peer gets FramesPerPass frames per pass.
YieldAfterFrames ==
  /\ pc = "frames" /\ processed >= FramesPerPass
  /\ Visit(current + 1, "reap") /\ processed' = 0
  /\ UNCHANGED <<sockets, session, flags, drain, runtime, told>>

NeedBytes ==
  /\ pc = "frames" /\ processed < FramesPerPass
  /\ Decode(Here.inbound) = "truncated"
  /\ pc' = "receive"
  /\ UNCHANGED <<sockets, session, flags, current, processed, drain, runtime, told>>

\* receive_some: at most a chunk of what has arrived.
Receive ==
  /\ pc = "receive" /\ Socket.up # <<>>
  /\ \E n \in 1..Min2(ReceiveCells, Len(Socket.up)) :
       /\ session' = [session EXCEPT
            ![current].inbound = @ \o SubSeq(Socket.up, 1, n),
            ![current].idle = 0]
       /\ conn' = [conn EXCEPT ![Here.client].up = SubSeq(@, n + 1, Len(@))]
  /\ pc' = "frames"
  /\ UNCHANGED <<backlog, flags, current, processed, drain, runtime, told>>

NothingToReceive ==
  /\ pc = "receive" /\ Socket.up = <<>> /\ Socket.phase # "gone"
  /\ Visit(current + 1, "reap") /\ processed' = 0
  /\ UNCHANGED <<sockets, session, flags, drain, runtime, told>>

\* The peer closed, or reset the connection with data still unread.
PeerClosed ==
  /\ pc = "receive" /\ Socket.phase = "gone"
  /\ EndSession
  /\ UNCHANGED <<runtime, told>>

\* reap_idle, also of a session whose reply is not written yet.
ReapIdle ==
  /\ pc = "reap"
  /\ Drop({s \in ActiveSessions : IdleTimeout # 0 /\ session[s].idle >= IdleTimeout})
  /\ pc' = "pass" /\ current' = 0
  /\ UNCHANGED <<backlog, flags, processed, drain, runtime, told>>

-----------------------------------------------------------------------------
(* Stopping *)

\* request_stop, on_signal and the end of standard input, from any thread.
RequestStop ==
  /\ ~stop_requested
  /\ stop_requested' = TRUE
  /\ UNCHANGED <<sockets, session, listening, stopped, thread, runtime, told>>

\* shutdown, called by the serving thread between passes or once run has
\* returned: the listener goes first, with the connections it still holds.
ShutdownBegins ==
  /\ pc \in {"pass", "returned"}
  /\ stop_requested' = TRUE /\ listening' = FALSE
  /\ backlog' = <<>>
  /\ conn' = [c \in Clients |->
                IF \E i \in DOMAIN backlog : backlog[i] = c
                THEN CloseConnection(conn[c]) ELSE conn[c]]
  /\ drain' = DrainWindow
  /\ Visit(1, "closed")
  /\ UNCHANGED <<session, stopped, processed, runtime, told>>

\* The socket is writable inside the window.
DrainFlush ==
  /\ pc = "drain" /\ Here.outbound # <<>> /\ drain > 0 /\ Room > 0
  /\ Sent
  /\ UNCHANGED <<backlog, flags, thread, runtime, told>>

\* wait_writable runs out.
DrainWaits ==
  /\ pc = "drain" /\ Here.outbound # <<>> /\ drain > 0 /\ Room = 0
  /\ drain' = drain - 1
  /\ UNCHANGED <<sockets, session, flags, pc, current, processed, runtime, told>>

\* Defect: a session is kept until everything is written.
DrainAll ==
  /\ pc = "drain" /\ Here.outbound = <<>>
  /\ Drop({current})
  /\ Visit(current + 1, "closed")
  /\ UNCHANGED <<backlog, flags, processed, drain, runtime, told>>

\* Nothing is left to write, the window is over or the peer is gone.
DrainEnds ==
  /\ pc = "drain"
  /\ Here.outbound = <<>> \/ drain = 0 \/ Socket.phase = "gone"
  /\ Drop({current})
  /\ Visit(current + 1, "closed")
  /\ UNCHANGED <<backlog, flags, processed, drain, runtime, told>>

ShutdownEnds ==
  /\ pc = "closed"
  /\ stopped' = TRUE /\ pc' = "stopped"
  /\ UNCHANGED <<sockets, session, listening, stop_requested, current, processed, drain, runtime, told>>

-----------------------------------------------------------------------------
(* Time and the clients *)

Tick ==
  /\ \E s \in ActiveSessions : session[s].idle < IdleTimeout
  /\ session' = [s \in Slots |->
       IF session[s].used
       THEN [session[s] EXCEPT !.idle = Min2(@ + 1, IdleTimeout)]
       ELSE session[s]]
  /\ UNCHANGED <<sockets, flags, thread, runtime, told>>

Connect(c) ==
  /\ conn[c] = NoConnection /\ listening
  /\ conn' = [conn EXCEPT ![c].phase = "backlog"]
  /\ backlog' = Append(backlog, c)
  /\ UNCHANGED <<session, flags, thread, runtime, told>>

\* A client may send the next request before it has read the last answer.  A
\* request that reads keeps the highest generation any client was told of.
Send(c, op, generation) ==
  /\ conn[c].phase \in {"backlog", "open"} /\ Len(conn[c].waiting) < Window
  /\ LET request == [id |-> conn[c].next, op |-> op,
                     floor |-> IF op = "describe" THEN told ELSE 0,
                     generation |-> generation] IN
       conn' = [conn EXCEPT
         ![c].up = @ \o FrameCells(request),
         ![c].waiting = Append(@, request.id),
         ![c].next = (@ + 1) % (Window + 1)]
  /\ UNCHANGED <<backlog, session, flags, thread, runtime, told>>

\* read_frame, cell by cell: the answer belongs to the oldest request.
Read(c) ==
  /\ conn[c].phase \in {"open", "closed"} /\ conn[c].down # <<>>
  /\ LET cell == Head(conn[c].down) IN
       IF cell.part = 1
       THEN /\ conn' = [conn EXCEPT ![c].down = Tail(@), ![c].part = 1]
            /\ told' = told
       ELSE /\ conn' = [conn EXCEPT ![c].down = Tail(@), ![c].part = 0,
                                    ![c].waiting = Tail(@)]
            /\ told' = Max2(told, cell.of.generation)
  /\ UNCHANGED <<backlog, session, flags, thread, runtime>>

SeeClose(c) ==
  /\ conn[c].phase = "closed"
  /\ conn' = [conn EXCEPT ![c] = NoConnection]
  /\ UNCHANGED <<backlog, session, flags, thread, runtime, told>>

Close(c) ==
  /\ conn[c].phase \in {"backlog", "open"}
  /\ conn' = [conn EXCEPT ![c].phase = "gone", ![c].down = <<>>,
                          ![c].waiting = <<>>, ![c].part = 0]
  /\ UNCHANGED <<backlog, session, flags, thread, runtime, told>>

-----------------------------------------------------------------------------
\* The runtime serves what it recovered from its journal.
Init ==
  /\ conn = [c \in Clients |-> NoConnection] /\ backlog = <<>>
  /\ session = [s \in Slots |-> NoSession]
  /\ listening = TRUE /\ stop_requested = FALSE /\ stopped = FALSE
  /\ pc = "pass" /\ current = 0 /\ processed = 0 /\ drain = 0
  /\ generations \in 0..MaxGeneration /\ retired = FALSE /\ told = 0

Pump ==
  \/ Flush \/ FlushBlocks \/ FlushFails
  \/ HandleFrame \/ ReplyTooLarge \/ InvalidFrame \/ YieldAfterFrames
  \/ NeedBytes \/ Receive \/ NothingToReceive \/ PeerClosed

Pass ==
  \/ StartPass \/ RunReturns \/ AcceptNone \/ AcceptRejects \/ Accept
  \/ Pump \/ ReapIdle

Shutdown ==
  \/ ShutdownBegins \/ DrainFlush \/ DrainWaits \/ DrainEnds \/ ShutdownEnds

Client(c) ==
  \/ Connect(c) \/ SeeClose(c) \/ Close(c)
  \/ \E op \in Operations[c] :
       \E generation \in IF op = "publish" THEN 2..MaxGeneration ELSE {0} :
          Send(c, op, generation)
  \/ c \notin Stalling /\ Read(c)

Next == Pass \/ Shutdown \/ RequestStop \/ Tick \/ \E c \in Clients : Client(c)

Spec == Init /\ [][Next]_vars

\* The waits of the serving thread are bounded, so it always goes on;
\* whoever called run calls stop when it returns (coordinator_main); time
\* passes; a client that reads reads on.
Fairness ==
  /\ WF_vars(Pass) /\ WF_vars(Shutdown /\ pc # "pass") /\ WF_vars(Tick)
  /\ \A c \in Clients \ Stalling : WF_vars(Read(c))

LiveSpec == Spec /\ Fairness

-----------------------------------------------------------------------------
(* Properties *)

SlotOf(c) == CHOOSE s \in ActiveSessions : session[s].client = c

\* Every slot in use belongs to exactly one live connection, every accepted
\* connection has a slot, and a slot not in use keeps no bytes of the session
\* before (drop, accept_pending).
SlotsMatchConnections ==
  /\ \A s, t \in ActiveSessions : session[s].client = session[t].client => s = t
  /\ \A s \in ActiveSessions :
       /\ session[s].client \in Clients
       /\ conn[session[s].client].phase \in {"open", "gone"}
       /\ \A i \in DOMAIN backlog : backlog[i] # session[s].client
  /\ \A c \in Clients :
       conn[c].phase = "open" => \E s \in ActiveSessions : session[s].client = c
  /\ \A s \in Slots \ ActiveSessions : session[s] = NoSession
  /\ pc \in {"flush", "frames", "receive", "drain"} => current \in ActiveSessions

Marks(cells) == [i \in DOMAIN cells |-> <<cells[i].of.id, cells[i].part>>]

\* The marks a client still has to see: two for each unanswered request,
\* without the part of the first answer it has read.
Expected(c) ==
  [i \in 1..(2 * Len(conn[c].waiting) - conn[c].part) |->
     LET j == i + conn[c].part IN
     <<conn[c].waiting[(j + 1) \div 2], IF j % 2 = 1 THEN 1 ELSE 2>>]

IsPrefixOf(s, t) == Len(s) <= Len(t) /\ \A i \in DOMAIN s : s[i] = t[i]

\* Between a client and its session no request and no answer is lost,
\* repeated, split or put out of order: what is in flight and buffered, in
\* order, is one answer or request for each unanswered request.  So the
\* client may take the next frame for the answer to its oldest request, as
\* wncctl does.  After a close it holds for a prefix.
PipelineIntact ==
  \A c \in Clients :
    /\ conn[c].phase = "open" =>
         LET s == session[SlotOf(c)] IN
         Marks(conn[c].down \o s.outbound \o s.inbound \o conn[c].up) = Expected(c)
    /\ conn[c].phase = "backlog" => Marks(conn[c].up) = Expected(c)
    /\ conn[c].phase = "closed" => IsPrefixOf(Marks(conn[c].down), Expected(c))

\* However much a peer sends, and however little it reads, its session holds
\* at most one reply and one receive more than an incomplete frame; and what
\* is incomplete when pump asks for more is less than a frame, so the bound
\* on the partial frame is never what ends a session.
BuffersBounded ==
  \A s \in Slots :
    /\ Len(session[s].outbound) <= 2
    /\ Len(session[s].inbound) <= ReceiveCells + 1
    /\ (pc = "receive" /\ s = current) => Len(session[s].inbound) < 2

\* A description tells of every generation that any client had been told of
\* when it was asked for, whichever sessions carried the answers.
FreshReads ==
  \A c \in Clients : \A i \in DOMAIN conn[c].down :
    LET reply == conn[c].down[i].of IN
    reply.op = "describe" => reply.generation >= reply.floor

\* A client that reads gets an answer to its oldest request or sees its
\* connection end, whatever the other clients send or leave unread.
Answered ==
  \A c \in Clients \ Stalling : \A id \in 0..Window :
    (conn[c].waiting # <<>> /\ Head(conn[c].waiting) = id) ~>
      (conn[c].waiting = <<>> \/ Head(conn[c].waiting) # id
        \/ conn[c].phase \notin {"backlog", "open"})

\* A session with an answer its peer does not take ends.
StalledEnds ==
  \A c \in Stalling :
    (\E s \in ActiveSessions : session[s].client = c /\ session[s].outbound # <<>>)
      ~> (\A s \in ActiveSessions : session[s].client # c)

\* Nothing is accepted any more, and no session and no connection is left on
\* the server's side.
Quiet ==
  /\ stopped /\ ~listening /\ backlog = <<>> /\ ActiveSessions = {}
  /\ \A c \in Clients : conn[c].phase \in {"none", "closed", "gone"}

\* A stop that was asked for completes, with peers that never read as well,
\* and nothing is served from then on (request_stop, shutdown).
StopCompletes == stop_requested ~> []Quiet
=============================================================================
