------------------------------- MODULE Tunnel -------------------------------
(***************************************************************************)
(* One remote session: its database row (RemoteSessionService), the pairing*)
(* of the device's and the browser's WebSocket in memory (TunnelBroker),   *)
(* the handshake and the socket handlers, from the moment the row exists.  *)
(*                                                                         *)
(* Every socket has a handler that the container runs on one thread:       *)
(* opened, then messages, one at a time.  Closing can be asked for by any  *)
(* socket's thread, an operator and the expiry thread; the notification    *)
(* that a socket is closed comes on whichever thread closed it.  The fields*)
(* of a pairing are volatile and only the backlog has a lock, so the reads *)
(* and writes of the callbacks are steps of their own.  A transaction of   *)
(* the service reads the row and later commits if the row is still what it *)
(* read; status only moves forward, so it stands for the version column.   *)
(***************************************************************************)
EXTENDS Naturals, Sequences, FiniteSets

CONSTANTS
  Agents,       \* connections that a device opens for this session
  Viewers,      \* connections that the requester's browser opens
  Expiry,       \* the thread tunnel-expiry
  Operator,     \* a request that ends the session
  None,         \* null
  MaxFrames,    \* bound: frames that each device connection sends
  MaxBacklog,   \* frames that fit in MAX_BACKLOG_BYTES
  Environment   \* what may happen, see Happenings

Sockets == Agents \cup Viewers
Closers == Sockets \cup {Expiry, Operator}
\* Peers leave (or idle out), a peer is too slow, operators end the session,
\* the server restarts.
Happenings == {"leave", "slow", "operator", "restart"}

ASSUME ConstantsAssumption ==
  /\ MaxFrames \in Nat /\ MaxBacklog \in Nat /\ IsFiniteSet(Agents)
  /\ Agents \cap Viewers = {} /\ Expiry # Operator
  /\ {Expiry, Operator, None} \cap Sockets = {} /\ None \notin {Expiry, Operator}
  /\ Environment \subseteq Happenings

VARIABLES
  status,    \* RemoteSession.status
  reason,    \* RemoteSession.closeReason
  late,      \* the session's expiresAt has passed
  entry,     \* tunnels[uuid]: the pairing in the broker's map, named after
             \* the connection for which it was created
  tunnel,    \* the Tunnel objects
  conn,      \* the sockets
  gone,      \* closed sockets whose handler has not been told yet
  handler,   \* where the thread of a socket's handler is
  closer,    \* the calls of TunnelBroker.close in progress
  sent,      \* history: frames that a device connection sent
  out,       \* history: frames that a pairing relayed to a viewer
  left       \* history: sockets that ended without the broker closing them

session == <<status, reason>>
broker == <<entry, tunnel>>
sockets == <<conn, gone, left>>
history == <<sent, out>>
vars == <<session, late, broker, sockets, handler, closer, history>>

-----------------------------------------------------------------------------
OpenStatus == {"PENDING", "AGENT_CONNECTED", "ACTIVE"}
Status == OpenStatus \cup {"CLOSED"}
Reasons == {"device disconnected", "viewer disconnected", "connection error",
            "time limit reached", "closed by operator", "server restarted"}

Frame == Agents \X (1..MaxFrames)
NoTunnel == [agent |-> None, viewer |-> None, backlog |-> <<>>, expiry |-> "none"]
Serving == [at |-> "serving", ref |-> None]
Rest == [at |-> "rest", why |-> None, seen |-> "PENDING", lock |-> None]

\* A call of close begins; it may hold the lock of a pairing's backlog.
Closing(why, lock) == [at |-> "remove", why |-> why, seen |-> "PENDING", lock |-> lock]

Resting(c) == closer[c].at = "rest"
\* Mutant: the backlog has no lock.
UnlockedAlways(t) == t \in Agents

\* synchronized (tunnel.backlog) of the pairing t.
Unlocked(t) == \A c \in Closers : closer[c].lock # t

\* The thread of s goes to another point of its handler.
Goto(s, at) == handler' = [handler EXCEPT ![s].at = at]
Done(s) == handler' = [handler EXCEPT ![s] = Serving]
Close(c, why, lock) == closer' = [closer EXCEPT ![c] = Closing(why, lock)]

\* The server closes the sockets S; the container reports each one it closed.
Shut(S) ==
  /\ conn' = [s \in Sockets |-> IF s \in S /\ conn[s] = "open" THEN "closed" ELSE conn[s]]
  /\ gone' = gone \cup {s \in S : conn[s] = "open"}
  /\ UNCHANGED left

Init ==
  /\ status = "PENDING" /\ reason = None /\ late = FALSE
  /\ entry = None
  /\ tunnel = [a \in Agents |-> NoTunnel]
  /\ conn = [s \in Sockets |-> "new"] /\ gone = {} /\ left = {}
  /\ handler = [s \in Sockets |-> Serving]
  /\ closer = [c \in Closers |-> Rest]
  /\ sent = [a \in Agents |-> 0]
  /\ out = [a \in Agents |-> <<>>]

-----------------------------------------------------------------------------
(* The handshake and the session's transactions.                           *)

\* TunnelHandshakeInterceptor: a device may connect to a session that waits
\* for it, a browser to one whose device is there.  A late session is closed
\* first (Sweep) and then refused.
Handshake(s) ==
  /\ conn[s] = "new" /\ ~late
  /\ status = IF s \in Agents THEN "PENDING" ELSE "AGENT_CONNECTED"
  /\ conn' = [conn EXCEPT ![s] = "open"]
  /\ Goto(s, "opened")
  /\ UNCHANGED <<session, late, broker, gone, left, closer, history>>

\* agentConnected and viewerConnected: the row is read, and left alone unless
\* it has the status before this one.
Before(s) == IF s \in Agents THEN "PENDING" ELSE "AGENT_CONNECTED"
After(s) == IF s \in Agents THEN "AGENT_CONNECTED" ELSE "ACTIVE"

ConnectedRead(s) ==
  /\ handler[s].at = "connected" /\ Resting(s)
  /\ IF status = Before(s) THEN Goto(s, "commit") ELSE Done(s)
  /\ UNCHANGED <<session, late, broker, sockets, closer, history>>

\* The commit; when the row was written meanwhile the callback throws, and
\* the framework closes the socket.
ConnectedCommit(s) ==
  /\ handler[s].at = "commit"
  /\ Done(s)
  /\ IF status = Before(s)
     THEN status' = After(s) /\ UNCHANGED sockets
     ELSE Shut({s}) /\ UNCHANGED status
  /\ UNCHANGED <<reason, late, broker, closer, history>>

\* expireStale, run by every request that opens, shows or connects to a
\* session: the row is closed, the pairing is not touched.
Sweep ==
  /\ late /\ status # "CLOSED"
  /\ status' = "CLOSED" /\ reason' = "time limit reached"
  /\ UNCHANGED <<late, broker, sockets, handler, closer, history>>

-----------------------------------------------------------------------------
(* TunnelBroker.agentOpened and viewerOpened.                              *)

\* computeIfAbsent.
AgentFetch(a) ==
  /\ handler[a].at = "opened"
  /\ entry' = IF entry = None THEN a ELSE entry
  /\ handler' = [handler EXCEPT ![a].at = "fetched", ![a].ref = entry']
  /\ UNCHANGED <<session, late, tunnel, sockets, closer, history>>

AgentCheck(a) ==
  /\ handler[a].at = "fetched"
  /\ IF tunnel[handler[a].ref].agent # None
     THEN Shut({a}) /\ Done(a)
     ELSE Goto(a, "accepted") /\ UNCHANGED sockets
  /\ UNCHANGED <<session, late, broker, closer, history>>

AgentAttach(a) ==
  /\ handler[a].at = "accepted"
  /\ tunnel' = [tunnel EXCEPT ![handler[a].ref].agent = a]
  /\ Goto(a, "attached")
  /\ UNCHANGED <<session, late, entry, sockets, closer, history>>

\* Mutant: no timer for a session that is late already.
AgentScheduleAhead(a) ==
  /\ handler[a].at = "attached"
  /\ tunnel' = [tunnel EXCEPT ![handler[a].ref].expiry = IF late THEN @ ELSE "set"]
  /\ Goto(a, "connected")
  /\ UNCHANGED <<session, late, entry, sockets, closer, history>>

AgentSchedule(a) ==
  /\ handler[a].at = "attached"
  /\ tunnel' = [tunnel EXCEPT ![handler[a].ref].expiry = "set"]
  /\ Goto(a, "connected")
  /\ UNCHANGED <<session, late, entry, sockets, closer, history>>

AwaitsViewer ==
  entry # None /\ tunnel[entry].agent # None /\ tunnel[entry].viewer = None

ViewerCheck(v) ==
  /\ handler[v].at = "opened"
  /\ \/ /\ AwaitsViewer
        /\ handler' = [handler EXCEPT ![v].at = "accepted", ![v].ref = entry]
        /\ UNCHANGED sockets
     \/ ~AwaitsViewer /\ Shut({v}) /\ Done(v)
  /\ UNCHANGED <<session, late, broker, closer, history>>

\* sendMessage of the frames fs to v, of which the first n go out: fewer than
\* all when the socket is closed or its peer is too slow.
Sends(v, fs, n) ==
  \/ conn[v] = "open" /\ n = Len(fs)
  \/ conn[v] = "open" /\ "slow" \in Environment /\ n \in 0..Len(fs)
  \/ conn[v] # "open" /\ n = 0

\* relay of the frames fs of the pairing t to v on the thread of s, under the
\* lock, which is kept while a failure closes the session.
Relay(s, t, v, fs) ==
  \E n \in 0..Len(fs) :
    /\ Sends(v, fs, n)
    /\ out' = [out EXCEPT ![t] = @ \o SubSeq(fs, 1, n)]
    /\ IF n < Len(fs) THEN Close(s, "connection error", t) ELSE UNCHANGED closer

\* The kept frames go out in the step that attaches the viewer: a close in
\* between takes down a pairing that is gone for every other thread, too.
ViewerAttach(v) ==
  /\ handler[v].at = "accepted" /\ Resting(v) /\ Unlocked(handler[v].ref)
  /\ Relay(v, handler[v].ref, v, tunnel[handler[v].ref].backlog)
  /\ tunnel' = [tunnel EXCEPT ![handler[v].ref].viewer = v,
                              ![handler[v].ref].backlog = <<>>]
  /\ Goto(v, "connected")
  /\ UNCHANGED <<session, late, entry, sockets, sent>>

-----------------------------------------------------------------------------
(* Frames.                                                                 *)

\* The handler is between two messages of an open socket.
Idle(s) == conn[s] = "open" /\ handler[s].at = "serving" /\ Resting(s)

\* toViewer finds the pairing; without one the frame is dropped.
Receive(a) ==
  /\ Idle(a) /\ sent[a] < MaxFrames
  /\ sent' = [sent EXCEPT ![a] = @ + 1]
  /\ IF entry = None
     THEN UNCHANGED handler
     ELSE handler' = [handler EXCEPT ![a].at = "relaying", ![a].ref = entry]
  /\ UNCHANGED <<session, late, broker, sockets, closer, out>>

\* Mutant: the backlog has no limit.
OverflowNever(backlog) == Len(backlog) < 0

Overflow(backlog) == Len(backlog) > MaxBacklog

\* Under the lock the frame is kept until there is a viewer, or passed on; an
\* overflow closes the session after the lock is released.
ToViewer(a) ==
  LET t == handler[a].ref
      frame == <<a, sent[a]>>
      kept == Append(tunnel[t].backlog, frame)
  IN /\ handler[a].at = "relaying" /\ Unlocked(t)
     /\ \/ /\ tunnel[t].viewer = None
           /\ tunnel' = [tunnel EXCEPT ![t].backlog = kept]
           /\ IF Overflow(kept) THEN Close(a, "connection error", None) ELSE UNCHANGED closer
           /\ UNCHANGED out
        \/ /\ tunnel[t].viewer # None
           /\ Relay(a, t, tunnel[t].viewer, <<frame>>)
           /\ UNCHANGED tunnel
     /\ Done(a)
     /\ UNCHANGED <<session, late, entry, sockets, sent>>

\* toAgent: input goes straight to the device, or is dropped; only a failure
\* changes anything.
ToAgent(v) ==
  /\ Idle(v)
  /\ entry # None /\ tunnel[entry].agent # None
  /\ conn[tunnel[entry].agent] # "open" \/ "slow" \in Environment
  /\ Close(v, "connection error", None)
  /\ UNCHANGED <<session, late, broker, sockets, handler, history>>

-----------------------------------------------------------------------------
(* Closing.                                                                *)

\* A peer closes its socket, the connection breaks, or it was idle for the
\* container's limit.  The container reads a socket after it was opened.
Leave(s) ==
  /\ "leave" \in Environment
  /\ conn[s] = "open" /\ handler[s].at = "serving"
  /\ conn' = [conn EXCEPT ![s] = "closed"]
  /\ gone' = gone \cup {s} /\ left' = left \cup {s}
  /\ UNCHANGED <<session, late, broker, handler, closer, history>>

\* afterConnectionClosed: agentClosed and viewerClosed look only at the
\* session's id, not at the socket.
Told(s) ==
  /\ s \in gone /\ Resting(s)
  /\ gone' = gone \ {s}
  /\ IF s \in Agents
     THEN IF entry # None THEN Close(s, "device disconnected", None) ELSE UNCHANGED closer
     ELSE IF entry # None /\ tunnel[entry].viewer # None
          THEN Close(s, "viewer disconnected", None) ELSE UNCHANGED closer
  /\ UNCHANGED <<session, late, broker, conn, left, handler, history>>

\* The expiry thread runs the task of a pairing that was not cancelled.
TimeLimit(t) ==
  /\ late /\ tunnel[t].expiry = "set" /\ Resting(Expiry)
  /\ tunnel' = [tunnel EXCEPT ![t].expiry = "over"]
  /\ Close(Expiry, "time limit reached", None)
  /\ UNCHANGED <<session, late, entry, sockets, handler, history>>

OperatorCloses ==
  /\ "operator" \in Environment /\ Resting(Operator)
  /\ status # "CLOSED" \/ entry # None
  /\ Close(Operator, "closed by operator", None)
  /\ UNCHANGED <<session, late, broker, sockets, handler, history>>

\* close: the pairing leaves the map and loses its timer and its sockets.
\* A socket that is attached just before its field is read is one that was
\* attached before the removal, so removal and reads are one step.
CloseRemove(c) ==
  /\ closer[c].at = "remove"
  /\ entry' = None
  /\ IF entry = None
     THEN UNCHANGED <<tunnel, sockets>>
     ELSE /\ tunnel' = [tunnel EXCEPT ![entry].expiry = IF @ = "set" THEN "over" ELSE @]
          /\ Shut({tunnel[entry].agent, tunnel[entry].viewer} \ {None})
  /\ closer' = [closer EXCEPT ![c].at = "read"]
  /\ UNCHANGED <<session, late, handler, history>>

\* RemoteSessionService.close.
CloseRead(c) ==
  /\ closer[c].at = "read"
  /\ closer' = IF status = "CLOSED"
               THEN [closer EXCEPT ![c] = Rest]
               ELSE [closer EXCEPT ![c].at = "write", ![c].seen = status]
  /\ UNCHANGED <<session, late, broker, sockets, handler, history>>

\* Mutant: the commit does not look at the version.
CloseWriteBlindly(c) ==
  /\ closer[c].at = "write"
  /\ closer' = [closer EXCEPT ![c] = Rest]
  /\ status' = "CLOSED" /\ reason' = closer[c].why
  /\ UNCHANGED <<late, broker, sockets, handler, history>>

\* When the row was written meanwhile the call throws: a socket's callback
\* ends with it, and the framework closes that socket.
CloseWrite(c) ==
  /\ closer[c].at = "write"
  /\ closer' = [closer EXCEPT ![c] = Rest]
  /\ \/ /\ status = closer[c].seen
        /\ status' = "CLOSED" /\ reason' = closer[c].why
        /\ UNCHANGED <<sockets, handler>>
     \/ /\ status # closer[c].seen
        /\ UNCHANGED session
        /\ IF c \in Sockets
           THEN /\ Shut({c})
                /\ IF closer[c].lock = handler[c].ref /\ handler[c].at = "connected"
                   THEN Done(c) ELSE UNCHANGED handler
           ELSE UNCHANGED <<sockets, handler>>
  /\ UNCHANGED <<late, broker, history>>

\* The process stops: pairings and sockets are gone.  At boot every open
\* session is closed.
ServerRestart ==
  /\ "restart" \in Environment
  /\ IF status = "CLOSED" THEN UNCHANGED session
     ELSE status' = "CLOSED" /\ reason' = "server restarted"
  /\ entry' = None
  /\ tunnel' = [a \in Agents |-> NoTunnel]
  /\ conn' = [s \in Sockets |-> "closed"] /\ gone' = {}
  /\ handler' = [s \in Sockets |-> Serving]
  /\ closer' = [c \in Closers |-> Rest]
  /\ out' = [a \in Agents |-> <<>>]
  /\ UNCHANGED <<late, left, sent>>

Tick == ~late /\ late' = TRUE /\ UNCHANGED <<session, broker, sockets, handler, closer, history>>

-----------------------------------------------------------------------------
AgentOpened(a) == AgentFetch(a) \/ AgentCheck(a) \/ AgentAttach(a) \/ AgentSchedule(a)
ViewerOpened(v) == ViewerCheck(v) \/ ViewerAttach(v)
Connected(s) == ConnectedRead(s) \/ ConnectedCommit(s)
CloseStep(c) == CloseRemove(c) \/ CloseRead(c) \/ CloseWrite(c)

Next ==
  \/ \E s \in Sockets : Handshake(s) \/ Connected(s) \/ Leave(s) \/ Told(s)
  \/ \E a \in Agents : AgentOpened(a) \/ Receive(a) \/ ToViewer(a) \/ TimeLimit(a)
  \/ \E v \in Viewers : ViewerOpened(v) \/ ToAgent(v)
  \/ \E c \in Closers : CloseStep(c)
  \/ Sweep \/ OperatorCloses \/ ServerRestart \/ Tick

Spec == Init /\ [][Next]_vars

\* Threads of the server run, the clock advances; peers, browsers and
\* operators are not relied on.
ServerFairness ==
  /\ \A s \in Sockets : WF_vars(Connected(s)) /\ WF_vars(Told(s))
  /\ \A a \in Agents : WF_vars(AgentOpened(a)) /\ WF_vars(ToViewer(a)) /\ WF_vars(TimeLimit(a))
  /\ \A v \in Viewers : WF_vars(ViewerOpened(v))
  /\ \A c \in Closers : WF_vars(CloseStep(c))
  /\ WF_vars(Tick)

FairSpec == Spec /\ ServerFairness

-----------------------------------------------------------------------------
(* Properties.                                                             *)

\* Every variable has its type; a backlog (TunnelBroker 87-100) holds at most
\* the frame that overflowed it, one per device connection, more than fits.
TypeOK ==
  /\ status \in Status /\ reason \in Reasons \cup {None} /\ late \in BOOLEAN
  /\ entry \in Agents \cup {None}
  /\ tunnel \in [Agents -> [agent : Agents \cup {None}, viewer : Viewers \cup {None},
                            backlog : Seq(Frame), expiry : {"none", "set", "over"}]]
  /\ \A t \in Agents : Len(tunnel[t].backlog) <= MaxBacklog + Cardinality(Agents)
  /\ conn \in [Sockets -> {"new", "open", "closed"}]
  /\ gone \subseteq Sockets /\ left \subseteq Sockets
  /\ handler \in [Sockets -> [at : {"opened", "fetched", "accepted", "attached", "connected",
                                    "commit", "serving", "relaying"},
                              ref : Agents \cup {None}]]
  /\ closer \in [Closers -> [at : {"rest", "remove", "read", "write"}, why : Reasons \cup {None},
                             seen : OpenStatus, lock : Agents \cup {None}]]
  /\ sent \in [Agents -> 0..MaxFrames]
  /\ out \in [Agents -> Seq(Frame)]

\* A viewer sees what the device sent, in order, without gaps or repeats, from
\* the greeting that was kept for it on (TunnelBroker 67-101): the frames that
\* went through the session's pairing or are kept in it are the first ones of
\* its device, and all of them while nothing has begun to close the session.
Frames(t) == out[t] \o tunnel[t].backlog

\* The numbers of a's frames among the first n.
NumbersOf(frames, a, n) == {frames[i][2] : i \in {j \in 1..n : frames[j][1] = a}}

InOrder(frames, a) ==
  \A i \in DOMAIN frames :
    frames[i][1] = a => NumbersOf(frames, a, i - 1) = 1..(frames[i][2] - 1)

FramesInOrder ==
  \A a \in Agents :
    (entry # None /\ tunnel[entry].agent = a) =>
      LET frames == Frames(entry)
          numbers == NumbersOf(frames, a, Len(frames))
      IN /\ InOrder(frames, a)
         /\ numbers \subseteq 1..sent[a]
         /\ (handler[a].at = "serving" /\ \A c \in Closers : closer[c].at # "remove")
            => numbers = 1..sent[a]

\* No pairing is left in the broker's map for good (TunnelBroker 53-65,
\* 132-141): whenever there is one, its timer is running, or the callback that
\* will start it is, or the timer has gone off and is about to remove it; also
\* when the session was closed before the device's callback ran.
EveryPairingIsTimed ==
  entry # None =>
    \/ tunnel[entry].expiry = "set"
    \/ \E a \in Agents : /\ handler[a].ref = entry
                         /\ handler[a].at \in {"fetched", "accepted", "attached"}
    \/ closer[Expiry].at = "remove"

\* The audit trail stands (RemoteSession 3-7): a session's status only moves
\* forward and the first reason for which it ended is final, although several
\* threads close it at the same time.
Rank == [PENDING |-> 0, AGENT_CONNECTED |-> 1, ACTIVE |-> 2, CLOSED |-> 3]
AuditStands ==
  [][/\ Rank[status'] >= Rank[status]
     /\ status = "CLOSED" => reason' = reason]_vars

\* The time limit is enforced (TunnelBroker 19) by the server alone: a
\* device whose tunnel serves the session is disconnected at last, whatever
\* the peers do and whichever other thread is closing the session, unless a
\* second connection took its place in the same moment.
Attached(a) == \E t \in Agents : tunnel[t].agent = a
LimitEnforced ==
  \A a \in Agents :
    (entry # None /\ tunnel[entry].agent = a) ~> (conn[a] = "closed" \/ ~Attached(a))

\* The audit trail says "why the session ended" (RemoteSession 3-7): a session
\* ended by a disconnected peer had one that left.
AuditIsTrue ==
  /\ reason = "viewer disconnected" => left \cap Viewers # {}
  /\ reason = "device disconnected" => left \cap Agents # {}

=============================================================================
