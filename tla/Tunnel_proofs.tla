--------------------------- MODULE Tunnel_proofs ---------------------------
(***************************************************************************)
(* Theorems about Tunnel: the audit trail stands, no pairing is without a  *)
(* timer, no backlog grows beyond its bound, and a viewer sees the frames  *)
(* of the device in order and without gaps, for any number of connections, *)
(* frames and threads.                                                     *)
(***************************************************************************)
EXTENDS Tunnel, SequenceTheorems, FiniteSetTheorems, TLAPS

\* What the proofs need of the types.
Points == {"opened", "fetched", "accepted", "attached", "connected", "commit",
           "serving", "relaying"}
Pairing == [agent : Agents \cup {None}, viewer : Viewers \cup {None},
            backlog : Seq(Agents \X Nat), expiry : {"none", "set", "over"}]

Calls == [at : {"rest", "remove", "read", "write"}, why : Reasons \cup {None},
          seen : OpenStatus, lock : Agents \cup {None}]

Shape ==
  /\ status \in Status
  /\ entry \in Agents \cup {None}
  /\ tunnel \in [Agents -> Pairing]
  /\ conn \in [Sockets -> {"new", "open", "closed"}]
  /\ handler \in [Sockets -> [at : Points, ref : Agents \cup {None}]]
  /\ closer \in [Closers -> Calls]
  /\ sent \in [Agents -> Nat]

\* A socket whose callback began is connected.
Begun == \A s \in Sockets : handler[s].at # "serving" => conn[s] # "new"

\* A connection for which no pairing was created yet left no trace.
Fresh ==
  \A a \in Agents :
    (conn[a] = "new" \/ handler[a].at = "opened") =>
      /\ tunnel[a].agent = None /\ tunnel[a].expiry = "none"
      /\ entry # a
      /\ \A s \in Sockets : handler[s].ref # a

\* A pairing in the map without a device waits for one; one that has a device
\* and no timer is about to get one; one whose timer went off is about to leave.
Timed ==
  /\ (entry # None /\ tunnel[entry].agent = None) =>
       \E a \in Agents : handler[a].ref = entry /\ handler[a].at \in {"fetched", "accepted"}
  /\ \A t \in Agents :
       (tunnel[t].agent # None /\ tunnel[t].expiry = "none") =>
         \E a \in Agents : handler[a].ref = t /\ handler[a].at = "attached"
  /\ (entry # None /\ tunnel[entry].expiry = "over") => closer[Expiry].at = "remove"

Inv == Shape /\ Begun /\ Fresh /\ Timed

-----------------------------------------------------------------------------
(* The types.                                                              *)

\* A call of close has the type of one.
LEMMA CloseShape ==
  ASSUME closer \in [Closers -> Calls], NEW c \in Closers, NEW why \in Reasons,
         NEW lock \in Agents \cup {None}, Close(c, why, lock)
  PROVE  closer' \in [Closers -> Calls]
<1>1. Closing(why, lock) \in Calls
  BY DEF Closing, Calls, OpenStatus
<1> QED BY <1>1 DEF Close

\* Setting fields of a pairing keeps its type.
LEMMA PairingShape ==
  ASSUME tunnel \in [Agents -> Pairing], NEW t \in Agents \cup {None}
  PROVE  /\ \A a \in Agents : [tunnel EXCEPT ![t].agent = a] \in [Agents -> Pairing]
         /\ \A e \in {"none", "set", "over"} :
              [tunnel EXCEPT ![t].expiry = e] \in [Agents -> Pairing]
         /\ \A b \in Seq(Agents \X Nat) :
              [tunnel EXCEPT ![t].backlog = b] \in [Agents -> Pairing]
         /\ \A v \in Viewers :
              [tunnel EXCEPT ![t].viewer = v, ![t].backlog = <<>>] \in [Agents -> Pairing]
<1>1. CASE t = None
  BY <1>1, ConstantsAssumption DEF Sockets
<1>2. CASE t \in Agents
  <2>1. tunnel[t] \in Pairing
    BY <1>2
  <2>2. /\ \A a \in Agents : [tunnel[t] EXCEPT !.agent = a] \in Pairing
        /\ \A e \in {"none", "set", "over"} : [tunnel[t] EXCEPT !.expiry = e] \in Pairing
        /\ \A b \in Seq(Agents \X Nat) : [tunnel[t] EXCEPT !.backlog = b] \in Pairing
        /\ \A v \in Viewers : [tunnel[t] EXCEPT !.viewer = v] \in Pairing
    BY <2>1 DEF Pairing
  <2>3. \A p \in Pairing : [tunnel EXCEPT ![t] = p] \in [Agents -> Pairing]
    OBVIOUS
  <2>4. ASSUME NEW v \in Viewers
        PROVE  [tunnel EXCEPT ![t].viewer = v, ![t].backlog = <<>>] \in [Agents -> Pairing]
    <3>1. /\ [tunnel[t] EXCEPT !.viewer = v] \in Pairing
          /\ <<>> \in Seq(Agents \X Nat)
      BY <2>2
    <3>2. \A p \in Pairing : \A b \in Seq(Agents \X Nat) : [p EXCEPT !.backlog = b] \in Pairing
      BY DEF Pairing
    <3>3. [[tunnel[t] EXCEPT !.viewer = v] EXCEPT !.backlog = <<>>] \in Pairing
      BY <3>1, <3>2
    <3> QED BY <1>2, <2>3, <3>3
  <2> QED BY <1>2, <2>2, <2>3, <2>4
<1> QED BY <1>1, <1>2

\* The initial state is typed.
LEMMA InitShape == ASSUME Init PROVE Shape
BY ConstantsAssumption DEF Init, Shape, Calls, Status, OpenStatus, NoTunnel, Pairing, Points,
       Serving, Rest, Sockets, Closers

\* Every step keeps the types.
LEMMA StepShape == ASSUME Shape, [Next]_vars PROVE Shape'
<1> USE DEF Shape, session, broker, sockets, history
<1>1. ASSUME NEW s \in Sockets, Handshake(s) \/ Connected(s) \/ Leave(s) \/ Told(s)
      PROVE Shape'
  <2>1. CASE Handshake(s)
    BY <2>1 DEF Handshake, Goto, Points
  <2>2. CASE ConnectedRead(s)
    BY <2>2 DEF ConnectedRead, Goto, Done, Points, Serving
  <2>3. CASE ConnectedCommit(s)
    BY <2>3 DEF ConnectedCommit, Done, Points, Serving, Shut, After, Status, OpenStatus
  <2>4. CASE Leave(s)
    BY <2>4 DEF Leave
  <2>5. CASE Told(s)
    <3>1. s \in Closers /\ {"device disconnected", "viewer disconnected"} \subseteq Reasons
      BY DEF Closers, Reasons
    <3>2. closer' \in [Closers -> Calls]
      BY <2>5, <3>1, CloseShape DEF Told
    <3> QED BY <2>5, <3>2 DEF Told
  <2> QED BY <1>1, <2>1, <2>2, <2>3, <2>4, <2>5 DEF Connected
<1>2. ASSUME NEW a \in Agents, AgentOpened(a) \/ Receive(a) \/ ToViewer(a) \/ TimeLimit(a)
      PROVE Shape'
  <2>0. a \in Sockets BY DEF Sockets
  <2>1. CASE AgentFetch(a)
    <3>1. entry' \in Agents \cup {None}
      BY <2>1 DEF AgentFetch
    <3>2. handler' \in [Sockets -> [at : Points, ref : Agents \cup {None}]]
      <4>1. handler[a] \in [at : Points, ref : Agents \cup {None}]
        BY <2>0
      <4>2. [handler[a] EXCEPT !.at = "fetched", !.ref = entry']
              \in [at : Points, ref : Agents \cup {None}]
        BY <3>1, <4>1 DEF Points
      <4>3. handler' = [handler EXCEPT ![a] = [handler[a] EXCEPT !.at = "fetched", !.ref = entry']]
        BY <2>0, <2>1, <4>1 DEF AgentFetch
      <4> QED BY <2>0, <4>2, <4>3
    <3> QED BY <2>1, <3>1, <3>2 DEF AgentFetch
  <2>2. CASE AgentCheck(a)
    BY <2>0, <2>2 DEF AgentCheck, Goto, Done, Points, Serving, Shut
  <2>3. CASE AgentAttach(a)
    <3>1. handler[a].ref \in Agents \cup {None}
      BY <2>0
    <3>2. tunnel' \in [Agents -> Pairing]
      BY <2>3, <3>1, PairingShape DEF AgentAttach
    <3> QED BY <2>0, <2>3, <3>2 DEF AgentAttach, Goto, Points
  <2>4. CASE AgentSchedule(a)
    <3>1. handler[a].ref \in Agents \cup {None}
      BY <2>0
    <3>2. tunnel' \in [Agents -> Pairing]
      BY <2>4, <3>1, PairingShape DEF AgentSchedule
    <3> QED BY <2>0, <2>4, <3>2 DEF AgentSchedule, Goto, Points
  <2>5. CASE Receive(a)
    BY <2>0, <2>5 DEF Receive, Points
  <2>6. CASE ToViewer(a)
    <3>1. a \in Closers /\ "connection error" \in Reasons
      BY <2>0 DEF Closers, Reasons
    <3>2. closer' \in [Closers -> Calls]
      <4>1. \/ UNCHANGED closer
            \/ Close(a, "connection error", None)
            \/ Close(a, "connection error", handler[a].ref)
        BY <2>6 DEF ToViewer, Relay
      <4> QED BY <4>1, <2>0, <3>1, CloseShape
    <3>3. handler' \in [Sockets -> [at : Points, ref : Agents \cup {None}]]
      BY <2>0, <2>6 DEF ToViewer, Done, Serving, Points
    <3>4. tunnel' \in [Agents -> Pairing]
      <4> DEFINE t == handler[a].ref
      <4>1. t \in Agents \cup {None} /\ sent[a] \in Nat
        BY <2>0
      <4>2. CASE UNCHANGED tunnel
        BY <4>2
      <4>3. CASE tunnel' = [tunnel EXCEPT ![t].backlog = Append(tunnel[t].backlog, <<a, sent[a]>>)]
        <5>1. CASE t = None
          BY <4>3, <5>1, ConstantsAssumption DEF Sockets
        <5>2. CASE t \in Agents
          <6>1. Append(tunnel[t].backlog, <<a, sent[a]>>) \in Seq(Agents \X Nat)
            BY <4>1, <5>2 DEF Pairing
          <6> HIDE DEF t
          <6> QED BY <4>1, <4>3, <6>1, PairingShape
        <5> QED BY <4>1, <5>1, <5>2
      <4> QED BY <2>6, <4>2, <4>3 DEF ToViewer
    <3> QED BY <2>6, <3>2, <3>3, <3>4 DEF ToViewer
  <2>7. CASE TimeLimit(a)
    <3>1. Expiry \in Closers /\ "time limit reached" \in Reasons
      BY DEF Closers, Reasons
    <3>2. closer' \in [Closers -> Calls]
      BY <2>7, <3>1, CloseShape DEF TimeLimit
    <3> QED BY <2>7, <3>2, PairingShape DEF TimeLimit
  <2> QED BY <1>2, <2>1, <2>2, <2>3, <2>4, <2>5, <2>6, <2>7 DEF AgentOpened
<1>3. ASSUME NEW v \in Viewers, ViewerOpened(v) \/ ToAgent(v) PROVE Shape'
  <2>0. v \in Sockets BY DEF Sockets
  <2>1. CASE ViewerCheck(v)
    BY <2>0, <2>1 DEF ViewerCheck, AwaitsViewer, Done, Points, Serving, Shut
  <2>2. CASE ViewerAttach(v)
    <3>1. v \in Closers /\ "connection error" \in Reasons
      BY <2>0 DEF Closers, Reasons
    <3>2. closer' \in [Closers -> Calls]
      <4>1. UNCHANGED closer \/ Close(v, "connection error", handler[v].ref)
        BY <2>2 DEF ViewerAttach, Relay
      <4> QED BY <4>1, <2>0, <3>1, CloseShape
    <3>3. tunnel' \in [Agents -> Pairing]
      <4>1. handler[v].ref \in Agents \cup {None}
        BY <2>0
      <4> QED BY <2>2, <4>1, PairingShape DEF ViewerAttach
    <3> QED BY <2>0, <2>2, <3>2, <3>3 DEF ViewerAttach, Goto, Points
  <2>3. CASE ToAgent(v)
    <3>1. v \in Closers /\ "connection error" \in Reasons
      BY <2>0 DEF Closers, Reasons
    <3>2. closer' \in [Closers -> Calls]
      BY <2>3, <3>1, CloseShape DEF ToAgent
    <3> QED BY <2>3, <3>2 DEF ToAgent
  <2> QED BY <1>3, <2>1, <2>2, <2>3 DEF ViewerOpened
<1>4. ASSUME NEW c \in Closers, CloseStep(c) PROVE Shape'
  <2>1. CASE CloseRemove(c)
    <3>1. tunnel' \in [Agents -> Pairing]
      <4>1. CASE entry = None
        BY <2>1, <4>1 DEF CloseRemove
      <4>2. CASE entry \in Agents
        <5>1. PICK e \in {"none", "set", "over"} : tunnel' = [tunnel EXCEPT ![entry].expiry = e]
          BY <2>1, <4>2, ConstantsAssumption DEF CloseRemove, Pairing, Sockets
        <5> QED BY <5>1, PairingShape
      <4> QED BY <4>1, <4>2
    <3>2. closer' \in [Closers -> Calls]
      BY <2>1 DEF CloseRemove, Calls
    <3> QED BY <2>1, <3>1, <3>2 DEF CloseRemove, Shut
  <2>2. CASE CloseRead(c)
    BY <2>2 DEF CloseRead, Rest, Calls, OpenStatus, Status
  <2>3. CASE CloseWrite(c)
    BY <2>3 DEF CloseWrite, Rest, Calls, Shut, Done, Serving, Points, OpenStatus, Status
  <2> QED BY <1>4, <2>1, <2>2, <2>3 DEF CloseStep
<1>5. CASE Sweep
  BY <1>5 DEF Sweep, Status
<1>6. CASE OperatorCloses
  <2>1. Operator \in Closers /\ "closed by operator" \in Reasons
    BY DEF Closers, Reasons
  <2>2. closer' \in [Closers -> Calls]
    BY <1>6, <2>1, CloseShape DEF OperatorCloses
  <2> QED BY <1>6, <2>2 DEF OperatorCloses
<1>7. CASE ServerRestart
  <2>1. NoTunnel \in Pairing /\ Rest \in Calls
    BY DEF NoTunnel, Pairing, Rest, Calls, OpenStatus
  <2> QED BY <1>7, <2>1 DEF ServerRestart, Status, Serving, Points
<1>8. CASE Tick
  BY <1>8 DEF Tick
<1>9. CASE UNCHANGED vars
  BY <1>9 DEF vars
<1> QED BY <1>1, <1>2, <1>3, <1>4, <1>5, <1>6, <1>7, <1>8, <1>9 DEF Next

\* The session's row, its pairing and its sockets stay typed.
THEOREM Typed == Spec => []Shape
BY InitShape, StepShape, PTL DEF Spec

-----------------------------------------------------------------------------
(* The audit trail.                                                        *)

\* A step moves the status forward, or leaves it.
LEMMA StepAudit ==
  ASSUME Shape, [Next]_vars
  PROVE  /\ Rank[status'] >= Rank[status]
         /\ status = "CLOSED" => reason' = reason
<1> USE DEF Shape, Rank, Status, OpenStatus, session
<1>0. ASSUME status' = status, reason' = reason
      PROVE  Rank[status'] >= Rank[status] /\ (status = "CLOSED" => reason' = reason)
  BY <1>0
<1>1. ASSUME NEW s \in Sockets, ConnectedCommit(s)
      PROVE  Rank[status'] >= Rank[status] /\ (status = "CLOSED" => reason' = reason)
  BY <1>1 DEF ConnectedCommit, Before, After
<1>2. ASSUME NEW c \in Closers, CloseWrite(c)
      PROVE  Rank[status'] >= Rank[status] /\ (status = "CLOSED" => reason' = reason)
  <2>1. closer[c].seen \in OpenStatus
    BY DEF Calls
  <2> QED BY <1>2, <2>1 DEF CloseWrite
<1> \A x \in Status : Rank["CLOSED"] >= Rank[x]
  OBVIOUS
<1>3. CASE Sweep
  BY <1>3 DEF Sweep
<1>4. CASE ServerRestart
  BY <1>0, <1>4 DEF ServerRestart
<1>5. CASE UNCHANGED session
  BY <1>0, <1>5
<1>6. \/ UNCHANGED session \/ Sweep \/ ServerRestart
      \/ \E s \in Sockets : ConnectedCommit(s)
      \/ \E c \in Closers : CloseWrite(c)
  BY DEF Next, vars, Handshake, Connected, ConnectedRead, Leave, Told, AgentOpened, AgentFetch,
     AgentCheck, AgentAttach, AgentSchedule, Receive, ToViewer, TimeLimit, ViewerOpened,
     ViewerCheck, ViewerAttach, ToAgent, CloseStep, CloseRemove, CloseRead, OperatorCloses, Tick
<1> QED BY <1>1, <1>2, <1>3, <1>4, <1>5, <1>6

\* Whatever peers, operators, the time limit and restarts do at the same time,
\* the status of a session only moves forward and its first end is final.
THEOREM AuditTrail == Spec => AuditStands
<1>1. Shape /\ [Next]_vars =>
        [/\ Rank[status'] >= Rank[status]
         /\ status = "CLOSED" => reason' = reason]_vars
  BY StepAudit
<1> QED BY <1>1, Typed, PTL DEF Spec, AuditStands

-----------------------------------------------------------------------------
(* The timers.                                                             *)

\* No socket becomes new again.
LEMMA Older ==
  ASSUME Shape, [Next]_vars
  PROVE  \A r \in Sockets : conn'[r] = "new" => conn[r] = "new"
<1>1. \A S : Shut(S) => \A r \in Sockets : conn'[r] = "new" => conn[r] = "new"
  BY DEF Shut
<1>2. \/ UNCHANGED conn \/ ServerRestart
      \/ \E S : Shut(S)
      \/ \E s \in Sockets : conn' = [conn EXCEPT ![s] = "open"] \/ conn' = [conn EXCEPT ![s] = "closed"]
  BY DEF Next, vars, sockets, Handshake, Connected, ConnectedRead, ConnectedCommit, Leave, Told,
     AgentOpened, AgentFetch, AgentCheck, AgentAttach, AgentSchedule, Receive, ToViewer, TimeLimit,
     ViewerOpened, ViewerCheck, ViewerAttach, ToAgent, CloseStep, CloseRemove, CloseRead,
     CloseWrite, Sweep, OperatorCloses, Tick
<1> QED BY <1>1, <1>2 DEF ServerRestart, Shape

\* A restart ends every callback.
LEMMA Restarted ==
  ASSUME ServerRestart, NEW s \in Sockets PROVE handler'[s] = Serving
<1>1. handler' = [r \in Sockets |-> Serving]
  BY DEF ServerRestart
<1> QED BY <1>1

\* Which callbacks a step can move, and to where.
LEMMA Moves ==
  ASSUME Shape, [Next]_vars, NEW s \in Sockets, handler'[s] # handler[s]
  PROVE  \/ Handshake(s) \/ Connected(s)
         \/ s \in Agents /\ (AgentOpened(s) \/ Receive(s) \/ ToViewer(s))
         \/ s \in Viewers /\ ViewerOpened(s)
         \/ handler[s].at = "connected" /\ handler'[s] = Serving
         \/ ServerRestart
<1> USE DEF Shape
<1>1. \/ UNCHANGED handler \/ ServerRestart
      \/ \E r \in Sockets : Handshake(r) \/ Connected(r)
      \/ \E a \in Agents : AgentOpened(a) \/ Receive(a) \/ ToViewer(a)
      \/ \E v \in Viewers : ViewerOpened(v)
      \/ \E c \in Sockets : handler[c].at = "connected" /\ Done(c)
  BY DEF Next, vars, Leave, Told, TimeLimit, ToAgent, CloseStep, CloseRemove, CloseRead,
     CloseWrite, Sweep, OperatorCloses, Tick
<1>2. ASSUME NEW r \in Sockets, Handshake(r) \/ Connected(r) PROVE r = s
  BY <1>2 DEF Handshake, Connected, ConnectedRead, ConnectedCommit, Goto, Done
<1>3. ASSUME NEW a \in Agents, AgentOpened(a) \/ Receive(a) \/ ToViewer(a) PROVE a = s
  BY <1>3 DEF AgentOpened, AgentFetch, AgentCheck, AgentAttach, AgentSchedule, Receive, ToViewer,
     Goto, Done, Sockets
<1>4. ASSUME NEW v \in Viewers, ViewerOpened(v) PROVE v = s
  BY <1>4 DEF ViewerOpened, ViewerCheck, ViewerAttach, Goto, Done, Sockets
<1>5. ASSUME NEW c \in Sockets, Done(c) PROVE c = s /\ handler'[s] = Serving
  BY <1>5 DEF Done
<1> QED BY <1>1, <1>2, <1>3, <1>4, <1>5

\* Every step keeps Begun: a callback begins with or after the connection.
LEMMA StepBegun ==
  ASSUME Shape, Begun, [Next]_vars PROVE Begun'
<1> SUFFICES ASSUME NEW s \in Sockets, handler'[s].at # "serving" PROVE conn'[s] # "new"
  BY DEF Begun
<1>1. CASE handler'[s] = handler[s]
  BY <1>1, Older DEF Begun
<1>2. CASE handler'[s] # handler[s]
  <2>1. CASE Handshake(s)
    BY <2>1 DEF Handshake, Shape
  <2>2. CASE Receive(s)
    BY <2>2, Older DEF Receive, Idle
  <2>3. CASE Connected(s) \/ AgentOpened(s) \/ ToViewer(s) \/ ViewerOpened(s)
    <3>1. handler[s].at # "serving"
      BY <2>3 DEF Connected, ConnectedRead, ConnectedCommit, AgentOpened, AgentFetch, AgentCheck,
         AgentAttach, AgentSchedule, ToViewer, ViewerOpened, ViewerCheck, ViewerAttach
    <3> QED BY <3>1, Older DEF Begun
  <2>4. CASE handler'[s] = Serving \/ ServerRestart
    BY <2>4, Restarted DEF Serving
  <2> QED BY <1>2, <2>1, <2>2, <2>3, <2>4, Moves
<1> QED BY <1>1, <1>2

\* A callback only takes hold of the pairing that is in the map.
LEMMA Refs ==
  ASSUME Shape, [Next]_vars, NEW s \in Sockets
  PROVE  handler'[s].ref \in {handler[s].ref, None, entry'}
<1> USE DEF Shape
<1> SUFFICES ASSUME handler'[s] # handler[s]
             PROVE  handler'[s].ref \in {handler[s].ref, None, entry'}
  OBVIOUS
<1>1. CASE Handshake(s) \/ Connected(s)
  BY <1>1 DEF Handshake, Connected, ConnectedRead, ConnectedCommit, Goto, Done, Serving
<1>2. CASE s \in Agents /\ (AgentOpened(s) \/ Receive(s) \/ ToViewer(s))
  <2>1. CASE AgentFetch(s)
    BY <2>1 DEF AgentFetch
  <2>2. CASE AgentCheck(s) \/ AgentAttach(s) \/ AgentSchedule(s)
    BY <2>2 DEF AgentCheck, AgentAttach, AgentSchedule, Goto, Done, Serving
  <2>3. CASE Receive(s)
    BY <2>3 DEF Receive, broker
  <2>4. CASE ToViewer(s)
    BY <2>4 DEF ToViewer, Done, Serving
  <2> QED BY <1>2, <2>1, <2>2, <2>3, <2>4 DEF AgentOpened
<1>3. CASE s \in Viewers /\ ViewerOpened(s)
  BY <1>3 DEF ViewerOpened, ViewerCheck, ViewerAttach, Goto, Done, Serving, broker
<1>4. CASE handler'[s] = Serving \/ ServerRestart
  BY <1>4, Restarted DEF Serving
<1> QED BY <1>1, <1>2, <1>3, <1>4, Moves

\* A step leaves the device and the timer of a pairing.
SameTimer(t) ==
  tunnel'[t].agent = tunnel[t].agent /\ tunnel'[t].expiry = tunnel[t].expiry

\* Which steps change the device or the timer of a pairing, and how.
LEMMA PairingMoves ==
  ASSUME Shape, [Next]_vars, NEW t \in Agents
  PROVE  \/ SameTimer(t)
         \/ ServerRestart
         \/ \E a \in Agents : /\ AgentAttach(a) /\ handler[a].ref = t
                              /\ tunnel'[t].agent = a /\ tunnel'[t].expiry = tunnel[t].expiry
         \/ \E a \in Agents : /\ AgentSchedule(a) /\ handler[a].ref = t
                              /\ tunnel'[t].agent = tunnel[t].agent /\ tunnel'[t].expiry = "set"
         \/ /\ TimeLimit(t) /\ tunnel[t].expiry = "set"
            /\ tunnel'[t].agent = tunnel[t].agent /\ tunnel'[t].expiry = "over"
         \/ /\ entry = t /\ entry' = None
            /\ tunnel'[t].agent = tunnel[t].agent
            /\ tunnel[t].expiry = "set" /\ tunnel'[t].expiry = "over"
<1> USE DEF Shape
<1>0. tunnel[t] \in Pairing
  OBVIOUS
<1>1. \/ UNCHANGED tunnel \/ ServerRestart
      \/ \E a \in Agents : AgentAttach(a) \/ AgentSchedule(a) \/ TimeLimit(a) \/ ToViewer(a)
      \/ \E v \in Viewers : ViewerAttach(v)
      \/ \E c \in Closers : CloseRemove(c)
  BY DEF Next, vars, broker, Handshake, Connected, ConnectedRead, ConnectedCommit, Leave, Told,
     AgentOpened, AgentFetch, AgentCheck, Receive, ViewerOpened, ViewerCheck, ToAgent, CloseStep,
     CloseRead, CloseWrite, Sweep, OperatorCloses, Tick
<1>2. ASSUME NEW a \in Agents, AgentAttach(a)
      PROVE  \/ SameTimer(t)
             \/ /\ handler[a].ref = t
                /\ tunnel'[t].agent = a /\ tunnel'[t].expiry = tunnel[t].expiry
  BY <1>0, <1>2 DEF AgentAttach, SameTimer, Pairing
<1>3. ASSUME NEW a \in Agents, AgentSchedule(a)
      PROVE  \/ SameTimer(t)
             \/ /\ handler[a].ref = t
                /\ tunnel'[t].agent = tunnel[t].agent /\ tunnel'[t].expiry = "set"
  BY <1>0, <1>3 DEF AgentSchedule, SameTimer, Pairing
<1>4. ASSUME NEW a \in Agents, TimeLimit(a)
      PROVE  \/ SameTimer(t)
             \/ /\ a = t /\ tunnel[t].expiry = "set"
                /\ tunnel'[t].agent = tunnel[t].agent /\ tunnel'[t].expiry = "over"
  BY <1>0, <1>4 DEF TimeLimit, SameTimer, Pairing
<1>5. ASSUME NEW a \in Agents, ToViewer(a) PROVE SameTimer(t)
  <2>1. \/ UNCHANGED tunnel
        \/ \E b : tunnel' = [tunnel EXCEPT ![handler[a].ref].backlog = b]
    BY <1>5 DEF ToViewer
  <2>2. CASE UNCHANGED tunnel
    BY <2>2 DEF SameTimer
  <2>3. ASSUME NEW b, tunnel' = [tunnel EXCEPT ![handler[a].ref].backlog = b]
        PROVE  SameTimer(t)
    <3>1. CASE handler[a].ref = t
      <4>1. tunnel'[t] = [tunnel[t] EXCEPT !.backlog = b]
        BY <2>3, <3>1
      <4> QED BY <1>0, <4>1 DEF SameTimer, Pairing
    <3>2. CASE handler[a].ref # t
      BY <2>3, <3>2 DEF SameTimer
    <3> QED BY <3>1, <3>2
  <2> QED BY <2>1, <2>2, <2>3
<1>6. ASSUME NEW v \in Viewers, ViewerAttach(v) PROVE SameTimer(t)
  BY <1>0, <1>6 DEF ViewerAttach, SameTimer, Pairing
<1>7. ASSUME NEW c \in Closers, CloseRemove(c)
      PROVE  \/ SameTimer(t)
             \/ /\ entry = t /\ entry' = None
                /\ tunnel'[t].agent = tunnel[t].agent
                /\ tunnel[t].expiry = "set" /\ tunnel'[t].expiry = "over"
  <2>1. CASE UNCHANGED tunnel
    BY <2>1 DEF SameTimer
  <2>2. CASE /\ entry # None /\ entry' = None
             /\ tunnel' = [tunnel EXCEPT ![entry].expiry = IF @ = "set" THEN "over" ELSE @]
    <3>1. CASE entry = t
      <4>1. tunnel'[t] = [tunnel[t] EXCEPT !.expiry = IF @ = "set" THEN "over" ELSE @]
        BY <2>2, <3>1
      <4> QED BY <1>0, <2>2, <3>1, <4>1 DEF SameTimer, Pairing
    <3>2. CASE entry # t
      BY <2>2, <3>2 DEF SameTimer
    <3> QED BY <3>1, <3>2
  <2> QED BY <1>7, <2>1, <2>2 DEF CloseRemove
<1>8. CASE UNCHANGED tunnel
  BY <1>8 DEF SameTimer
<1> QED BY <1>1, <1>2, <1>3, <1>4, <1>5, <1>6, <1>7, <1>8

\* Every step keeps Fresh: a pairing is created once, by its connection.
LEMMA StepFresh ==
  ASSUME Shape, Begun, Fresh, [Next]_vars PROVE Fresh'
<1> USE DEF Shape
<1> SUFFICES ASSUME NEW a \in Agents, conn'[a] = "new" \/ handler'[a].at = "opened"
             PROVE  /\ tunnel'[a].agent = None /\ tunnel'[a].expiry = "none"
                    /\ entry' # a
                    /\ \A s \in Sockets : handler'[s].ref # a
  BY DEF Fresh
<1>0. a \in Sockets /\ a # None
  BY ConstantsAssumption DEF Sockets
<1>1. conn[a] = "new" \/ handler[a].at = "opened"
  <2>1. CASE conn'[a] = "new"
    BY <1>0, <2>1, Older
  <2>2. CASE handler'[a].at = "opened" /\ handler'[a] # handler[a]
    <3>1. \/ Handshake(a) \/ Connected(a) \/ AgentOpened(a) \/ Receive(a) \/ ToViewer(a)
          \/ handler'[a] = Serving
      BY <1>0, <2>2, Moves, Restarted, ConstantsAssumption
    <3>2. ~(AgentOpened(a) \/ Receive(a) \/ ToViewer(a) \/ Connected(a))
      <4>1. ~AgentFetch(a) /\ ~Receive(a)
        BY <1>0, <2>2 DEF AgentFetch, Receive
      <4>2. ~AgentCheck(a) /\ ~AgentAttach(a) /\ ~AgentSchedule(a)
        BY <1>0, <2>2 DEF AgentCheck, AgentAttach, AgentSchedule, Goto, Done, Serving
      <4>3. ~(Done(a) \/ Goto(a, "commit"))
        BY <1>0, <2>2 DEF Goto, Done, Serving
      <4>4. ~ToViewer(a) /\ ~Connected(a)
        BY <4>3 DEF ToViewer, Connected, ConnectedRead, ConnectedCommit
      <4> QED BY <4>1, <4>2, <4>4 DEF AgentOpened
    <3> QED BY <2>2, <3>1, <3>2 DEF Handshake, Serving
  <2> QED BY <2>1, <2>2
<1>2. /\ tunnel[a].agent = None /\ tunnel[a].expiry = "none" /\ entry # a
      /\ \A s \in Sockets : handler[s].ref # a
  BY <1>1 DEF Fresh
<1>3. entry' # a
  <2>1. ASSUME NEW b \in Agents, AgentFetch(b) PROVE entry' # a
    <3>1. CASE b = a
      <4>1. handler[a].at = "opened" /\ conn' = conn /\ handler'[a].at = "fetched"
        BY <1>0, <2>1, <3>1 DEF AgentFetch, sockets
      <4>2. conn[a] # "new"
        BY <1>0, <4>1 DEF Begun
      <4> QED BY <4>1, <4>2
    <3>2. CASE b # a
      BY <1>2, <2>1, <3>2 DEF AgentFetch
    <3> QED BY <3>1, <3>2
  <2>2. entry' = entry \/ entry' = None \/ \E b \in Agents : AgentFetch(b)
    BY DEF Next, vars, broker, Handshake, Connected, ConnectedRead, ConnectedCommit, Leave, Told,
       AgentOpened, AgentCheck, AgentAttach, AgentSchedule, Receive, ToViewer, TimeLimit,
       ViewerOpened, ViewerCheck, ViewerAttach, ToAgent, CloseStep, CloseRemove, CloseRead,
       CloseWrite, Sweep, OperatorCloses, ServerRestart, Tick
  <2> QED BY <1>0, <1>2, <2>1, <2>2
<1>4. \A s \in Sockets : handler'[s].ref # a
  BY <1>0, <1>2, <1>3, Refs
<1>5. tunnel'[a].agent = None /\ tunnel'[a].expiry = "none"
  <2>1. ASSUME NEW b \in Agents PROVE handler[b].ref # a
    BY <1>2 DEF Sockets
  <2>2. CASE SameTimer(a)
    BY <1>2, <2>2 DEF SameTimer
  <2>3. CASE ServerRestart
    BY <2>3 DEF ServerRestart, NoTunnel
  <2> QED BY <1>2, <2>1, <2>2, <2>3, PairingMoves
<1> QED BY <1>3, <1>4, <1>5

\* How the callback of a device connection goes on.
LEMMA Goes ==
  ASSUME Shape, Begun, [Next]_vars, NEW b \in Agents,
         handler[b].at \in {"fetched", "accepted", "attached"}
  PROVE  \/ handler'[b] = handler[b]
         \/ /\ handler[b].at = "fetched"
            /\ \/ tunnel[handler[b].ref].agent # None
               \/ handler'[b].ref = handler[b].ref /\ handler'[b].at = "accepted"
         \/ handler[b].at = "accepted" /\ AgentAttach(b)
         \/ handler[b].at = "attached" /\ AgentSchedule(b)
         \/ ServerRestart
<1>0. b \in Sockets /\ b \notin Viewers
  BY ConstantsAssumption DEF Sockets
<1>1. ~Handshake(b) /\ ~Receive(b)
  BY <1>0 DEF Handshake, Receive, Idle, Begun
<1>2. ~Connected(b) /\ ~ToViewer(b) /\ ~AgentFetch(b)
  BY <1>0 DEF Connected, ConnectedRead, ConnectedCommit, ToViewer, AgentFetch
<1>3. CASE AgentCheck(b)
  BY <1>0, <1>3 DEF AgentCheck, Goto, Shape
<1>4. CASE AgentAttach(b) \/ AgentSchedule(b)
  BY <1>4 DEF AgentAttach, AgentSchedule
<1>5. \/ handler'[b] = handler[b] \/ AgentCheck(b) \/ AgentAttach(b) \/ AgentSchedule(b)
      \/ ServerRestart
  BY <1>0, <1>1, <1>2, Moves DEF AgentOpened
<1> QED BY <1>3, <1>4, <1>5

\* The expiry thread that is about to remove the pairing does so.
LEMMA ExpiryStays ==
  ASSUME Shape, [Next]_vars, closer[Expiry].at = "remove"
  PROVE  closer'[Expiry].at = "remove" \/ CloseRemove(Expiry) \/ ServerRestart
<1>0. Expiry \in Closers /\ Expiry \notin Sockets /\ Expiry # Operator
  BY ConstantsAssumption DEF Closers
<1>1. \/ UNCHANGED closer \/ ServerRestart
      \/ \E c \in Sockets \cup {Operator}, why \in Reasons, lock \in Agents \cup {None} :
           Close(c, why, lock)
      \/ \E t \in Agents : TimeLimit(t)
      \/ \E c \in Closers : CloseStep(c)
  <2>1. ASSUME NEW s \in Sockets, Handshake(s) \/ Connected(s) \/ Leave(s)
        PROVE  UNCHANGED closer
    BY <2>1 DEF Handshake, Connected, ConnectedRead, ConnectedCommit, Leave
  <2>2. ASSUME NEW s \in Sockets, Told(s)
        PROVE  UNCHANGED closer \/ \E why \in Reasons : Close(s, why, None)
    BY <2>2 DEF Told, Reasons
  <2>3. ASSUME NEW a \in Agents, AgentOpened(a) \/ Receive(a)
        PROVE  UNCHANGED closer
    BY <2>3 DEF AgentOpened, AgentFetch, AgentCheck, AgentAttach, AgentSchedule, Receive
  <2>4. ASSUME NEW a \in Agents, ToViewer(a)
        PROVE  UNCHANGED closer \/ \E lock \in Agents \cup {None} : Close(a, "connection error", lock)
    <3>1. handler[a].ref \in Agents \cup {None}
      BY DEF Shape, Sockets
    <3> QED BY <2>4, <3>1 DEF ToViewer, Relay
  <2>5. ASSUME NEW v \in Viewers, ViewerOpened(v) \/ ToAgent(v)
        PROVE  UNCHANGED closer \/ \E lock \in Agents \cup {None} : Close(v, "connection error", lock)
    <3>1. handler[v].ref \in Agents \cup {None}
      BY DEF Shape, Sockets
    <3> QED BY <2>5, <3>1 DEF ViewerOpened, ViewerCheck, ViewerAttach, ToAgent, Relay
  <2>6. CASE Sweep \/ Tick \/ UNCHANGED vars
    BY <2>6 DEF Sweep, Tick, vars
  <2>7. CASE OperatorCloses
    BY <2>7 DEF OperatorCloses, Reasons
  <2>8. Agents \subseteq Sockets /\ Viewers \subseteq Sockets /\ "connection error" \in Reasons
    BY DEF Sockets, Reasons
  <2> QED BY <2>1, <2>2, <2>3, <2>4, <2>5, <2>6, <2>7, <2>8 DEF Next
<1>2. ASSUME NEW c \in Sockets \cup {Operator}, NEW why, NEW lock, Close(c, why, lock)
      PROVE  closer'[Expiry].at = "remove"
  BY <1>0, <1>2 DEF Close, Shape
<1>3. ASSUME NEW t \in Agents, TimeLimit(t) PROVE closer'[Expiry].at = "remove"
  BY <1>3 DEF TimeLimit, Resting
<1>4. ASSUME NEW c \in Closers, CloseStep(c)
      PROVE  closer'[Expiry].at = "remove" \/ CloseRemove(Expiry)
  <2>1. CASE c = Expiry
    BY <1>4, <2>1 DEF CloseStep, CloseRead, CloseWrite
  <2>2. CASE c # Expiry
    BY <1>0, <1>4, <2>2 DEF CloseStep, CloseRemove, CloseRead, CloseWrite, Shape
  <2> QED BY <2>1, <2>2
<1> QED BY <1>1, <1>2, <1>3, <1>4

\* The map's entry changes when a pairing is created or removed.
LEMMA EntryMoves ==
  ASSUME [Next]_vars
  PROVE  \/ entry' = entry \/ entry' = None
         \/ \E a \in Agents : AgentFetch(a) /\ entry = None /\ entry' = a /\ UNCHANGED tunnel
<1>1. ASSUME NEW a \in Agents, AgentFetch(a)
      PROVE  entry' = entry \/ (entry = None /\ entry' = a /\ UNCHANGED tunnel)
  BY <1>1 DEF AgentFetch
<1>2. entry' = entry \/ entry' = None \/ \E a \in Agents : AgentFetch(a)
  BY DEF Next, vars, broker, Handshake, Connected, ConnectedRead, ConnectedCommit, Leave, Told,
     AgentOpened, AgentCheck, AgentAttach, AgentSchedule, Receive, ToViewer, TimeLimit,
     ViewerOpened, ViewerCheck, ViewerAttach, ToAgent, CloseStep, CloseRemove, CloseRead,
     CloseWrite, Sweep, OperatorCloses, ServerRestart, Tick
<1> QED BY <1>1, <1>2

\* Every step keeps Timed, for which Fresh is needed when a pairing is created.
LEMMA StepTimed ==
  ASSUME Shape, Begun, Fresh, Timed, [Next]_vars PROVE Timed'
<1> USE DEF Shape
<1>0. Agents \subseteq Sockets /\ None \notin Agents
  BY ConstantsAssumption DEF Sockets
<1>1. CASE ServerRestart
  <2>1. entry' = None /\ \A t \in Agents : tunnel'[t].agent = None
    BY <1>1 DEF ServerRestart, NoTunnel
  <2> QED BY <2>1 DEF Timed
<1>2. ASSUME ~ServerRestart, entry' # None, tunnel'[entry'].agent = None
      PROVE  \E a \in Agents : handler'[a].ref = entry' /\ handler'[a].at \in {"fetched", "accepted"}
  <2>1. ASSUME NEW a \in Agents, AgentFetch(a)
        PROVE  handler'[a].ref = entry' /\ handler'[a].at = "fetched"
    BY <1>0, <2>1 DEF AgentFetch
  <2>2. CASE entry' = entry
    <3>1. entry \in Agents /\ tunnel[entry].agent = None
      <4>1. entry \in Agents
        BY <1>2, <2>2
      <4>2. tunnel'[entry].agent = None
        BY <1>2, <2>2
      <4> QED BY <1>0, <1>2, <4>1, <4>2, PairingMoves DEF SameTimer
    <3>2. PICK b \in Agents : handler[b].ref = entry /\ handler[b].at \in {"fetched", "accepted"}
      BY <1>2, <2>2, <3>1 DEF Timed
    <3>3. CASE AgentAttach(b)
      <4>1. tunnel[entry] \in Pairing
        BY <3>1
      <4>2. tunnel'[entry].agent = b
        BY <3>1, <3>2, <3>3, <4>1 DEF AgentAttach, Pairing
      <4> QED BY <1>0, <1>2, <2>2, <4>2
    <3>4. CASE handler'[b] = handler[b]
      BY <2>2, <3>2, <3>4
    <3>5. CASE handler'[b].ref = handler[b].ref /\ handler'[b].at = "accepted"
      BY <2>2, <3>2, <3>5
    <3>6. \/ handler'[b] = handler[b]
          \/ handler'[b].ref = handler[b].ref /\ handler'[b].at = "accepted"
          \/ AgentAttach(b)
      BY <1>2, <3>1, <3>2, Goes
    <3> QED BY <3>3, <3>4, <3>5, <3>6
  <2> QED BY <1>2, <2>1, <2>2, EntryMoves
<1>3. ASSUME ~ServerRestart, NEW t \in Agents, tunnel'[t].agent # None, tunnel'[t].expiry = "none"
      PROVE  \E a \in Agents : handler'[a].ref = t /\ handler'[a].at = "attached"
  <2>1. CASE SameTimer(t)
    <3>1. PICK b \in Agents : handler[b].ref = t /\ handler[b].at = "attached"
      BY <1>3, <2>1 DEF Timed, SameTimer
    <3>2. CASE AgentSchedule(b)
      <4>1. tunnel[t] \in Pairing
        OBVIOUS
      <4>2. tunnel'[t].expiry = "set"
        BY <3>1, <3>2, <4>1 DEF AgentSchedule, Pairing
      <4> QED BY <1>3, <4>2
    <3>3. CASE handler'[b] = handler[b]
      BY <3>1, <3>3
    <3> QED BY <1>3, <3>1, <3>2, <3>3, Goes
  <2>2. ASSUME NEW a \in Agents, AgentAttach(a), handler[a].ref = t
        PROVE  handler'[a].ref = t /\ handler'[a].at = "attached"
    BY <1>0, <2>2 DEF AgentAttach, Goto
  <2> QED BY <1>3, <2>1, <2>2, PairingMoves
<1>4. ASSUME ~ServerRestart, entry' # None, tunnel'[entry'].expiry = "over"
      PROVE  closer'[Expiry].at = "remove"
  <2>1. CASE entry' = entry
    <3>0. entry \in Agents /\ ~CloseRemove(Expiry)
      BY <1>4, <2>1 DEF CloseRemove
    <3>1. CASE tunnel[entry].expiry = "over"
      BY <1>4, <2>1, <3>0, <3>1, ExpiryStays DEF Timed
    <3>2. CASE TimeLimit(entry)
      BY <3>2 DEF TimeLimit, Close, Closing, Closers
    <3> QED BY <1>4, <2>1, <3>0, <3>1, <3>2, PairingMoves DEF SameTimer
  <2>2. ASSUME NEW a \in Agents, AgentFetch(a), entry' = a, UNCHANGED tunnel
        PROVE  FALSE
    <3>1. tunnel[a].expiry = "none"
      BY <2>2 DEF AgentFetch, Fresh
    <3> QED BY <1>4, <2>2, <3>1
  <2> QED BY <1>4, <2>1, <2>2, EntryMoves
<1> QED BY <1>1, <1>2, <1>3, <1>4 DEF Timed

\* At first there is neither a pairing nor a callback.
LEMMA InitTimed == ASSUME Init PROVE Begun /\ Fresh /\ Timed
<1>1. /\ \A s \in Sockets : handler[s] = Serving /\ conn[s] = "new"
      /\ \A a \in Agents : tunnel[a] = NoTunnel
      /\ entry = None
  BY DEF Init
<1> QED BY <1>1, ConstantsAssumption DEF Begun, Fresh, Timed, Serving, NoTunnel, Sockets

\* No pairing stays in the broker's map without a timer that takes it out,
\* whichever callbacks, closing threads and restarts interleave.
THEOREM Timers == Spec => []EveryPairingIsTimed
<1>1. Init => Inv
  BY InitShape, InitTimed DEF Inv
<1>2. Inv /\ [Next]_vars => Inv'
  BY StepShape, StepBegun, StepFresh, StepTimed DEF Inv
<1>3. Inv => EveryPairingIsTimed
  <2> SUFFICES ASSUME Inv, entry # None PROVE EveryPairingIsTimed
    BY DEF EveryPairingIsTimed
  <2>1. entry \in Agents /\ tunnel[entry] \in Pairing
    BY DEF Inv, Shape
  <2>2. tunnel[entry].expiry \in {"none", "set", "over"}
    BY <2>1 DEF Pairing
  <2>3. CASE tunnel[entry].agent = None
    BY <2>3 DEF Inv, Timed, EveryPairingIsTimed
  <2>4. CASE tunnel[entry].agent # None
    BY <2>1, <2>2, <2>4 DEF Inv, Timed, EveryPairingIsTimed
  <2> QED BY <2>3, <2>4
<1> QED BY <1>1, <1>2, <1>3, PTL DEF Spec

-----------------------------------------------------------------------------
(* The rest of the types.                                                 *)
\* What else a callback or a call of close keeps: the pairing that a handler has in hand,
\* and the lock, which only a call of close holds on to.
Held ==
  /\ \A s \in Sockets :
       handler[s].at \in {"fetched", "accepted", "attached", "relaying"} => handler[s].ref \in Agents
  /\ \A c \in Closers : closer[c].at = "rest" => closer[c].lock = None
  /\ \A a \in Agents : handler[a].at = "relaying" => closer[a].lock = None

\* The types of what Shape leaves out; a frame that is being relayed has been counted.
Wide ==
  /\ reason \in Reasons \cup {None} /\ late \in BOOLEAN
  /\ gone \subseteq Sockets /\ left \subseteq Sockets
  /\ sent \in [Agents -> 0..MaxFrames]
  /\ out \in [Agents -> Seq(Frame)]
  /\ \A t \in Agents : tunnel[t].backlog \in Seq(Frame)
  /\ \A a \in Agents : handler[a].at = "relaying" => sent[a] \in 1..MaxFrames

LEMMA ClosingIs ==
  ASSUME NEW why, NEW lock
  PROVE  Closing(why, lock).at = "remove" /\ Closing(why, lock).lock = lock
BY DEF Closing

\* How a call of close moves: it goes on, or begins, with the lock of a pairing when the
\* thread was relaying to it.
LEMMA CloserMoves ==
  ASSUME Shape, [Next]_vars, NEW c \in Closers
  PROVE  \/ closer'[c] = closer[c] \/ CloseStep(c) \/ ServerRestart
         \/ \E why \in Reasons, lock \in Agents \cup {None} :
              /\ closer'[c] = Closing(why, lock)
              /\ \/ Resting(c) /\ lock = None
                 \/ c \in Agents /\ ToViewer(c) /\ lock \in {None, handler[c].ref}
                 \/ c \in Viewers /\ ViewerAttach(c) /\ lock \in {None, handler[c].ref}
<1> USE DEF Shape
<1> DEFINE Goal == \/ closer'[c] = closer[c] \/ CloseStep(c) \/ ServerRestart
                   \/ \E why \in Reasons, lock \in Agents \cup {None} :
                        /\ closer'[c] = Closing(why, lock)
                        /\ \/ Resting(c) /\ lock = None
                           \/ c \in Agents /\ ToViewer(c) /\ lock \in {None, handler[c].ref}
                           \/ c \in Viewers /\ ViewerAttach(c) /\ lock \in {None, handler[c].ref}
<1> SUFFICES Goal OBVIOUS
<1>0. {"connection error", "device disconnected", "viewer disconnected", "time limit reached",
       "closed by operator"} \subseteq Reasons
  BY DEF Reasons
<1>1. ASSUME NEW b, NEW why, NEW lock, Close(b, why, lock)
      PROVE  IF b = c THEN closer'[c] = Closing(why, lock) ELSE closer'[c] = closer[c]
  BY <1>1 DEF Close
<1>a. ASSUME NEW b, NEW why \in Reasons, Close(b, why, None), Resting(b) PROVE Goal
  <2>1. CASE b = c
    <3>1. closer'[c] = Closing(why, None) /\ Resting(c) BY <1>1, <1>a, <2>1
    <3> QED BY <3>1
  <2>2. CASE b # c BY <1>1, <1>a, <2>2
  <2> QED BY <2>1, <2>2
<1>2. ASSUME NEW s \in Sockets, Told(s) PROVE Goal
  <2>1. \/ UNCHANGED closer
        \/ \E why \in Reasons : Close(s, why, None) /\ Resting(s)
    BY <1>0, <1>2 DEF Told
  <2> QED BY <1>a, <2>1
<1>3. ASSUME NEW a \in Agents, ToViewer(a) PROVE Goal
  <2>1. handler[a].ref \in Agents \cup {None}
    BY DEF Sockets
  <2>2. \/ UNCHANGED closer
        \/ \E lock \in {None, handler[a].ref} : Close(a, "connection error", lock)
    BY <1>3 DEF ToViewer, Relay
  <2>3. CASE UNCHANGED closer
    BY <2>3
  <2>4. ASSUME NEW lock \in {None, handler[a].ref}, Close(a, "connection error", lock) PROVE Goal
    BY <1>0, <1>1, <1>3, <2>1, <2>4
  <2> QED BY <2>2, <2>3, <2>4
<1>4. ASSUME NEW v \in Viewers, ViewerAttach(v) PROVE Goal
  <2>1. handler[v].ref \in Agents \cup {None}
    BY DEF Sockets
  <2>2. UNCHANGED closer \/ Close(v, "connection error", handler[v].ref)
    BY <1>4 DEF ViewerAttach, Relay
  <2> QED BY <1>0, <1>1, <1>4, <2>1, <2>2
<1>5. ASSUME NEW v \in Viewers, ToAgent(v) PROVE Goal
  BY <1>0, <1>a, <1>5 DEF ToAgent, Idle
<1>6. ASSUME NEW t \in Agents, TimeLimit(t) PROVE Goal
  BY <1>0, <1>a, <1>6 DEF TimeLimit
<1>7. CASE OperatorCloses
  BY <1>0, <1>a, <1>7 DEF OperatorCloses
<1>8. ASSUME NEW b \in Closers, CloseStep(b) PROVE Goal
  <2>1. CASE b = c
    BY <1>8, <2>1
  <2>2. CASE b # c
    BY <1>8, <2>2 DEF CloseStep, CloseRemove, CloseRead, CloseWrite
  <2> QED BY <2>1, <2>2
<1>9. CASE UNCHANGED closer
  BY <1>9
<1>10. \/ UNCHANGED closer \/ ServerRestart \/ OperatorCloses
       \/ \E s \in Sockets : Told(s)
       \/ \E a \in Agents : ToViewer(a) \/ TimeLimit(a)
       \/ \E v \in Viewers : ViewerAttach(v) \/ ToAgent(v)
       \/ \E b \in Closers : CloseStep(b)
  BY DEF Next, vars, Handshake, Connected, ConnectedRead, ConnectedCommit, Leave, AgentOpened,
     AgentFetch, AgentCheck, AgentAttach, AgentSchedule, Receive, ViewerOpened, ViewerCheck,
     Sweep, Tick
<1> QED BY <1>2, <1>3, <1>4, <1>5, <1>6, <1>7, <1>8, <1>9, <1>10

\* How a call that is under way ends or goes on.
LEMMA CloseSteps ==
  ASSUME Shape, NEW c \in Closers, CloseStep(c)
  PROVE  \/ closer[c].at = "remove" /\ entry' = None
         \/ /\ closer[c].at # "remove"
            /\ closer'[c].lock \in {closer[c].lock, None} /\ closer'[c].at # "remove"
            /\ closer'[c].at = "rest" => closer'[c].lock = None
BY DEF Shape, CloseStep, CloseRemove, CloseRead, CloseWrite, Rest, Calls

\* A restart ends every call.
LEMMA ClosersRestarted ==
  ASSUME ServerRestart, NEW c \in Closers PROVE closer'[c] = Rest
<1>1. closer' = [b \in Closers |-> Rest]
  BY DEF ServerRestart
<1> QED BY <1>1

LEMMA CloseOnward ==
  ASSUME Shape, NEW c \in Closers, CloseStep(c)
  PROVE  closer'[c].lock \in {closer[c].lock, None} /\ (closer'[c].at = "rest" => closer'[c].lock = None)
BY DEF Shape, CloseStep, CloseRemove, CloseRead, CloseWrite, Rest, Calls

\* A frame is relayed once, with the lock.
LEMMA RelayEnds ==
  ASSUME Shape, NEW a \in Agents, ToViewer(a)
  PROVE  /\ handler'[a] = Serving /\ handler[a].at = "relaying" /\ Unlocked(handler[a].ref)
         /\ \A s \in Sockets \ {a} : handler'[s] = handler[s]
         /\ UNCHANGED <<entry, conn, sent>>
<1>1. Done(a) /\ a \in Sockets /\ handler[a].at = "relaying" /\ Unlocked(handler[a].ref)
      /\ UNCHANGED <<entry, conn, sent>>
  BY DEF ToViewer, Sockets, sockets
<1> QED BY <1>1 DEF Done, Shape

LEMMA StepHeld ==
  ASSUME Shape, Held, [Next]_vars PROVE Held'
<1> USE DEF Shape
<1>0. Agents \subseteq Sockets /\ Viewers \subseteq Sockets /\ None \notin Agents /\ Sockets \subseteq Closers
      /\ Agents \cap Viewers = {}
  BY ConstantsAssumption DEF Sockets, Closers
<1>1. ASSUME NEW s \in Sockets,
             handler'[s].at \in {"fetched", "accepted", "attached", "relaying"}
      PROVE  handler'[s].ref \in Agents
  <2>1. CASE handler'[s] = handler[s]
    BY <1>1, <2>1 DEF Held
  <2>2. CASE handler'[s] = Serving \/ ServerRestart \/ (s \in Agents /\ ToViewer(s))
    BY <1>1, <2>2, Restarted, RelayEnds DEF Serving
  <2>3. CASE Handshake(s) \/ Connected(s)
    BY <1>1, <2>3 DEF Handshake, Connected, ConnectedRead, ConnectedCommit, Goto, Done, Serving
  <2>4. CASE s \in Agents /\ AgentFetch(s)
    BY <1>1, <2>4 DEF AgentFetch
  <2>5. CASE s \in Agents /\ (AgentCheck(s) \/ AgentAttach(s) \/ AgentSchedule(s))
    BY <1>1, <2>5 DEF Held, AgentCheck, AgentAttach, AgentSchedule, Goto, Done, Serving
  <2>6. CASE s \in Agents /\ Receive(s)
    BY <1>1, <2>6 DEF Held, Receive
  <2>7. CASE s \in Viewers /\ ViewerOpened(s)
    BY <1>1, <2>7 DEF ViewerOpened, ViewerCheck, ViewerAttach, AwaitsViewer, Goto, Done, Serving
  <2> QED BY <2>1, <2>2, <2>3, <2>4, <2>5, <2>6, <2>7, Moves DEF AgentOpened
<1>2. ASSUME NEW c \in Closers, closer'[c].at = "rest" PROVE closer'[c].lock = None
  <2>1. CASE closer'[c] = closer[c]
    BY <1>2, <2>1 DEF Held
  <2>2. CASE CloseStep(c)
    BY <1>2, <2>2, CloseOnward
  <2>3. CASE ServerRestart
    BY <2>3, ClosersRestarted DEF Rest
  <2>4. \/ closer'[c] = closer[c] \/ CloseStep(c) \/ ServerRestart \/ closer'[c].at = "remove"
    BY CloserMoves, ClosingIs
  <2> QED BY <1>2, <2>1, <2>2, <2>3, <2>4
<1>3. ASSUME NEW a \in Agents, handler'[a].at = "relaying" PROVE closer'[a].lock = None
  <2>0. a \in Sockets /\ a \in Closers /\ a \notin Viewers
    BY <1>0
  <2>1. CASE ServerRestart
    BY <2>0, <2>1, ClosersRestarted DEF Rest
  <2>2. CASE handler[a].at # "relaying" /\ ~ServerRestart
    <3>1. Receive(a)
      <4>1. \/ Handshake(a) \/ Connected(a) \/ AgentOpened(a) \/ Receive(a) \/ ToViewer(a)
            \/ handler'[a] = Serving
        BY <2>0, <2>2, <1>3, Moves
      <4>2. ~(Handshake(a) \/ Connected(a) \/ handler'[a] = Serving)
        BY <2>0, <2>2, <1>3 DEF Handshake, Connected, ConnectedRead, ConnectedCommit, Goto, Done, Serving
      <4>3. ~(AgentOpened(a) \/ ToViewer(a))
        BY <2>0, <2>2, <1>3, RelayEnds DEF AgentOpened, AgentFetch, AgentCheck, AgentAttach,
           AgentSchedule, Goto, Done, Serving
      <4> QED BY <4>1, <4>2, <4>3
    <3> QED BY <2>0, <3>1 DEF Receive, Idle, Resting, Held
  <2>3. CASE handler[a].at = "relaying" /\ ~ServerRestart
    <3>1. closer[a].lock = None
      BY <2>3 DEF Held
    <3>2. ~ToViewer(a)
      BY <1>3, RelayEnds DEF Serving
    <3>3. \/ closer'[a] = closer[a] \/ CloseStep(a)
          \/ \E why \in Reasons : closer'[a] = Closing(why, None)
      BY <2>0, <2>3, <3>2, CloserMoves
    <3> QED BY <2>0, <3>1, <3>3, CloseOnward, ClosingIs
  <2> QED BY <2>1, <2>2, <2>3
<1> QED BY <1>1, <1>2, <1>3 DEF Held

-----------------------------------------------------------------------------
(* The frames of a pairing.                                                *)
\* The frames that a step of the broker moves: those of a pairing stay, one is kept or
\* passed on or lost, or the first of the kept ones go to a viewer that attaches.
FramesStay(t) ==
  /\ out'[t] = out[t]
  /\ tunnel'[t].backlog = tunnel[t].backlog /\ tunnel'[t].viewer = tunnel[t].viewer

FrameKept(t, a) ==
  /\ tunnel[t].viewer = None /\ tunnel'[t].viewer = None /\ out'[t] = out[t]
  /\ tunnel'[t].backlog = Append(tunnel[t].backlog, <<a, sent[a]>>)
  /\ IF Overflow(Append(tunnel[t].backlog, <<a, sent[a]>>))
     THEN Close(a, "connection error", None) ELSE UNCHANGED closer

FramePassed(t, a) ==
  /\ tunnel[t].viewer # None /\ tunnel'[t] = tunnel[t] /\ UNCHANGED closer
  /\ out'[t] = Append(out[t], <<a, sent[a]>>)

FrameLost(t, a) == tunnel'[t] = tunnel[t] /\ out'[t] = out[t] /\ Close(a, "connection error", t)

KeptSent(t, v) ==
  /\ tunnel'[t].viewer = v /\ tunnel'[t].backlog = <<>>
  /\ \E n \in 0..Len(tunnel[t].backlog) :
       /\ out'[t] = out[t] \o SubSeq(tunnel[t].backlog, 1, n)
       /\ IF n < Len(tunnel[t].backlog) THEN Close(v, "connection error", t) ELSE UNCHANGED closer

\* Under the lock one frame is kept, passed on or lost, and no other pairing is touched.
LEMMA KeepOrPass ==
  ASSUME Shape, Held, Wide, NEW a \in Agents, ToViewer(a), NEW t \in Agents
  PROVE  IF t = handler[a].ref THEN FrameKept(t, a) \/ FramePassed(t, a) \/ FrameLost(t, a)
         ELSE FramesStay(t)
<1> DEFINE r == handler[a].ref
           frame == <<a, sent[a]>>
<1>0. /\ a \in Sockets /\ r \in Agents /\ tunnel[r] \in Pairing /\ tunnel[t] \in Pairing
      /\ out[r] \in Seq(Frame) /\ frame \in Frame
  <2>1. handler[a].at = "relaying" BY DEF ToViewer
  <2>2. a \in Sockets BY DEF Sockets
  <2>3. r \in Agents BY <2>1, <2>2 DEF Held
  <2>4. frame \in Frame BY <2>1 DEF Wide, Frame
  <2> QED BY <2>2, <2>3, <2>4 DEF Shape, Wide
<1>1. CASE /\ tunnel[r].viewer = None
           /\ tunnel' = [tunnel EXCEPT ![r].backlog = Append(tunnel[r].backlog, frame)]
           /\ IF Overflow(Append(tunnel[r].backlog, frame))
              THEN Close(a, "connection error", None) ELSE UNCHANGED closer
           /\ UNCHANGED out
  <2> DEFINE kept == Append(tunnel[r].backlog, frame)
  <2>1. tunnel' = [tunnel EXCEPT ![r].backlog = kept] BY <1>1
  <2> HIDE DEF kept
  <2>2. tunnel'[r] = [tunnel[r] EXCEPT !.backlog = kept] /\ (t # r => tunnel'[t] = tunnel[t])
    BY <1>0, <2>1 DEF Shape
  <2>3. tunnel'[r].backlog = kept /\ tunnel'[r].viewer = tunnel[r].viewer
    BY <1>0, <2>2 DEF Pairing
  <2>4. CASE t = r
    BY <1>1, <2>3, <2>4 DEF FrameKept, kept
  <2>5. CASE t # r
    BY <1>1, <2>2, <2>5 DEF FramesStay
  <2> QED BY <2>4, <2>5
<1>2. CASE tunnel[r].viewer # None /\ Relay(a, r, tunnel[r].viewer, <<frame>>) /\ UNCHANGED tunnel
  <2> HIDE DEF frame
  <2>1. PICK n \in 0..1 :
          /\ out' = [out EXCEPT ![r] = @ \o SubSeq(<<frame>>, 1, n)]
          /\ n = 0 => Close(a, "connection error", r)
          /\ n = 1 => UNCHANGED closer
    <3>1. Len(<<frame>>) = 1 OBVIOUS
    <3>2. PICK n \in 0..1 :
            /\ out' = [out EXCEPT ![r] = @ \o SubSeq(<<frame>>, 1, n)]
            /\ IF n < 1 THEN Close(a, "connection error", r) ELSE UNCHANGED closer
      BY <1>2, <3>1 DEF Relay
    <3>3. n = 0 => Close(a, "connection error", r)
      <4> SUFFICES ASSUME n = 0 PROVE Close(a, "connection error", r) OBVIOUS
      <4>1. n < 1 OBVIOUS
      <4> QED BY <3>2, <4>1
    <3>4. n = 1 => UNCHANGED closer
      BY <3>2
    <3> QED BY <3>2, <3>3, <3>4
  <2>2. t # r => out'[t] = out[t]
    BY <2>1 DEF Wide
  <2>3. CASE t # r
    BY <1>2, <2>2, <2>3 DEF FramesStay
  <2>4. CASE t = r /\ n = 0
    <3>1. SubSeq(<<frame>>, 1, n) = <<>> BY <2>4, SubSeqEmpty
    <3>2. out'[r] = out[r] \o <<>> BY <1>0, <2>1, <3>1 DEF Wide
    <3>3. out'[r] = out[r] BY <1>0, <3>2, ConcatEmptySeq
    <3>4. Close(a, "connection error", r) BY <2>1, <2>4
    <3>5. FrameLost(t, a)
      BY <1>2, <2>4, <3>3, <3>4 DEF FrameLost
    <3> QED BY <2>4, <3>5
  <2>5. CASE t = r /\ n = 1
    <3>1. SubSeq(<<frame>>, 1, n) = <<frame>>
      <4>1. <<frame>> \in Seq(Frame) /\ Len(<<frame>>) = 1 BY <1>0
      <4> QED BY <2>5, <4>1, SubSeqFull
    <3>2. out'[r] = out[r] \o <<frame>> BY <1>0, <2>1, <3>1 DEF Wide
    <3>3. out'[r] = Append(out[r], frame) BY <1>0, <3>2, AppendIsConcat
    <3> QED BY <1>2, <2>1, <2>5, <3>3 DEF FramePassed, frame
  <2> QED BY <2>3, <2>4, <2>5
<1> QED BY <1>1, <1>2 DEF ToViewer

\* A viewer that attaches is sent what was kept for it, or the first frames of that.
LEMMA SendKept ==
  ASSUME Shape, Held, Wide, NEW v \in Viewers, ViewerAttach(v), NEW t \in Agents
  PROVE  IF t = handler[v].ref THEN KeptSent(t, v) /\ Unlocked(t) ELSE FramesStay(t)
<1> DEFINE r == handler[v].ref
<1>0. r \in Agents /\ tunnel[r] \in Pairing /\ Unlocked(r)
  BY DEF Sockets, Shape, Held, ViewerAttach
<1>1. /\ tunnel' = [tunnel EXCEPT ![r].viewer = v, ![r].backlog = <<>>]
      /\ Relay(v, r, v, tunnel[r].backlog)
  BY DEF ViewerAttach
<1>2. /\ tunnel'[r].viewer = v /\ tunnel'[r].backlog = <<>>
      /\ t # r => tunnel'[t] = tunnel[t]
  BY <1>0, <1>1 DEF Shape, Pairing
<1>3. PICK n \in 0..Len(tunnel[r].backlog) :
        /\ out' = [out EXCEPT ![r] = @ \o SubSeq(tunnel[r].backlog, 1, n)]
        /\ IF n < Len(tunnel[r].backlog) THEN Close(v, "connection error", r) ELSE UNCHANGED closer
  BY <1>1 DEF Relay
<1>4. /\ out'[r] = out[r] \o SubSeq(tunnel[r].backlog, 1, n)
      /\ t # r => out'[t] = out[t]
  BY <1>0, <1>3 DEF Wide
<1>5. CASE t = r
  BY <1>0, <1>2, <1>3, <1>4, <1>5 DEF KeptSent
<1>6. CASE t # r
  BY <1>2, <1>4, <1>6 DEF FramesStay
<1> QED BY <1>5, <1>6

\* Which steps move the frames of a pairing.
LEMMA FrameMoves ==
  ASSUME Shape, Held, Wide, [Next]_vars, ~ServerRestart, NEW t \in Agents
  PROVE  \/ /\ FramesStay(t)
            /\ \A a \in Agents : ToViewer(a) => handler[a].ref # t
         \/ \E a \in Agents : /\ ToViewer(a) /\ handler[a].ref = t
                              /\ FrameKept(t, a) \/ FramePassed(t, a) \/ FrameLost(t, a)
         \/ \E v \in Viewers : ViewerAttach(v) /\ handler[v].ref = t /\ KeptSent(t, v) /\ Unlocked(t)
<1>1. ASSUME NEW a \in Agents, ToViewer(a), handler[a].ref = t
      PROVE  FrameKept(t, a) \/ FramePassed(t, a) \/ FrameLost(t, a)
  BY <1>1, KeepOrPass
<1>2. ASSUME NEW a \in Agents, ToViewer(a), handler[a].ref # t PROVE FramesStay(t)
  BY <1>2, KeepOrPass
<1>3. ASSUME NEW v \in Viewers, ViewerAttach(v)
      PROVE  FramesStay(t) \/ (handler[v].ref = t /\ KeptSent(t, v) /\ Unlocked(t))
  BY <1>3, SendKept
<1>4. ASSUME UNCHANGED out, UNCHANGED tunnel PROVE FramesStay(t)
  BY <1>4 DEF FramesStay
<1>5. ASSUME UNCHANGED out, NEW r \in Agents \cup {None}, NEW p,
             tunnel' = [tunnel EXCEPT ![r].agent = p] \/ tunnel' = [tunnel EXCEPT ![r].expiry = p]
      PROVE  FramesStay(t)
  <2>1. tunnel[t] \in Pairing BY DEF Shape
  <2>2. \/ tunnel'[t] = tunnel[t] \/ tunnel'[t] = [tunnel[t] EXCEPT !.agent = p]
        \/ tunnel'[t] = [tunnel[t] EXCEPT !.expiry = p]
    BY <1>5 DEF Shape
  <2> QED BY <1>5, <2>1, <2>2 DEF FramesStay, Pairing
<1>6. ASSUME NEW a \in Agents, AgentAttach(a) \/ AgentSchedule(a) \/ TimeLimit(a) PROVE FramesStay(t)
  <2>1. handler[a].ref \in Agents \cup {None} /\ a \in Agents \cup {None} BY DEF Shape, Sockets
  <2> QED BY <1>5, <1>6, <2>1 DEF AgentAttach, AgentSchedule, TimeLimit, history
<1>7. ASSUME NEW c \in Closers, CloseRemove(c) PROVE FramesStay(t)
  <2>1. entry \in Agents \cup {None} /\ UNCHANGED out BY <1>7 DEF Shape, CloseRemove, history
  <2>2. CASE UNCHANGED tunnel BY <1>4, <2>1, <2>2
  <2>3. CASE tunnel' = [tunnel EXCEPT ![entry].expiry = IF @ = "set" THEN "over" ELSE @]
    BY <1>5, <2>1, <2>3
  <2> QED BY <1>7, <2>2, <2>3 DEF CloseRemove
<1>8. \/ UNCHANGED <<out, tunnel>>
      \/ \E a \in Agents : AgentAttach(a) \/ AgentSchedule(a) \/ TimeLimit(a) \/ ToViewer(a)
      \/ \E v \in Viewers : ViewerAttach(v)
      \/ \E c \in Closers : CloseRemove(c)
  BY DEF Next, vars, broker, history, Handshake, Connected, ConnectedRead, ConnectedCommit, Leave,
     Told, AgentOpened, AgentFetch, AgentCheck, Receive, ViewerOpened, ViewerCheck, ToAgent,
     CloseStep, CloseRead, CloseWrite, Sweep, OperatorCloses, Tick
<1>9. CASE \E a \in Agents : ToViewer(a) /\ handler[a].ref = t
  BY <1>1, <1>9
<1>10. CASE ~ \E a \in Agents : ToViewer(a) /\ handler[a].ref = t
  BY <1>2, <1>3, <1>4, <1>6, <1>7, <1>8, <1>10
<1> QED BY <1>9, <1>10

\* What came of the frames that a step moves, in the types.
LEMMA FramesTyped ==
  ASSUME Shape, Held, Wide, [Next]_vars, NEW t \in Agents
  PROVE  out'[t] \in Seq(Frame) /\ tunnel'[t].backlog \in Seq(Frame)
<1>0. out[t] \in Seq(Frame) /\ tunnel[t].backlog \in Seq(Frame) BY DEF Wide
<1>1. CASE ServerRestart
  <2>1. out'[t] = <<>> /\ tunnel'[t] = NoTunnel BY <1>1 DEF ServerRestart
  <2> QED BY <2>1, EmptySeq DEF NoTunnel
<1>2. CASE FramesStay(t)
  BY <1>0, <1>2 DEF FramesStay
<1>3. ASSUME NEW a \in Agents, ToViewer(a), FrameKept(t, a) \/ FramePassed(t, a) \/ FrameLost(t, a)
      PROVE  out'[t] \in Seq(Frame) /\ tunnel'[t].backlog \in Seq(Frame)
  <2> DEFINE frame == <<a, sent[a]>>
  <2>1. frame \in Frame
    <3>1. sent[a] \in 1..MaxFrames BY <1>3, RelayEnds DEF Wide
    <3> QED BY <3>1 DEF Frame
  <2> HIDE DEF frame
  <2>2. Append(out[t], frame) \in Seq(Frame) /\ Append(tunnel[t].backlog, frame) \in Seq(Frame)
    BY <1>0, <2>1, AppendProperties
  <2> QED BY <1>0, <1>3, <2>2 DEF FrameKept, FramePassed, FrameLost, frame
<1>4. ASSUME NEW v \in Viewers, KeptSent(t, v)
      PROVE  out'[t] \in Seq(Frame) /\ tunnel'[t].backlog \in Seq(Frame)
  <2>1. PICK n \in 0..Len(tunnel[t].backlog) : out'[t] = out[t] \o SubSeq(tunnel[t].backlog, 1, n)
    BY <1>4 DEF KeptSent
  <2>2. \A i \in 1..n : tunnel[t].backlog[i] \in Frame BY <1>0, ElementOfSeq, LenProperties
  <2>3. SubSeq(tunnel[t].backlog, 1, n) \in Seq(Frame)
    <3>1. n \in Int /\ 1 \in Int BY <1>0, LenProperties
    <3> QED BY <2>2, <3>1, SubSeqProperties
  <2> QED BY <1>0, <1>4, <2>1, <2>3, ConcatProperties, EmptySeq DEF KeptSent
<1> QED BY <1>1, <1>2, <1>3, <1>4, FrameMoves

\* Which steps count a frame, or begin to relay one.
LEMMA Counts ==
  ASSUME Shape, [Next]_vars, NEW a \in Agents
  PROVE  \/ /\ sent'[a] = sent[a]
            /\ handler'[a].at = "relaying" => handler'[a] = handler[a] \/ Receive(a)
         \/ Receive(a)
<1> USE DEF Shape
<1>0. a \in Sockets /\ a \notin Viewers BY ConstantsAssumption DEF Sockets
<1>1. ASSUME ~Receive(a), handler'[a].at = "relaying" PROVE handler'[a] = handler[a]
  <2> SUFFICES ASSUME handler'[a] # handler[a] PROVE FALSE OBVIOUS
  <2>1. \/ Handshake(a) \/ Connected(a) \/ AgentOpened(a) \/ ToViewer(a)
        \/ handler'[a] = Serving
    BY <1>0, <1>1, Moves, Restarted
  <2>2. ~(Handshake(a) \/ Connected(a) \/ handler'[a] = Serving)
    BY <1>0, <1>1 DEF Handshake, Connected, ConnectedRead, ConnectedCommit, Goto, Done, Serving
  <2>3. ~(AgentOpened(a) \/ ToViewer(a))
    BY <1>0, <1>1, RelayEnds DEF AgentOpened, AgentFetch, AgentCheck, AgentAttach, AgentSchedule,
       Goto, Done, Serving
  <2> QED BY <2>1, <2>2, <2>3
<1>2. ASSUME ~Receive(a) PROVE sent'[a] = sent[a]
  <2>1. ASSUME NEW b \in Agents, Receive(b) PROVE sent'[a] = sent[a]
    BY <1>2, <2>1 DEF Receive
  <2>2. UNCHANGED sent \/ \E b \in Agents : Receive(b)
    BY DEF Next, vars, history, Handshake, Connected, ConnectedRead, ConnectedCommit, Leave, Told,
       AgentOpened, AgentFetch, AgentCheck, AgentAttach, AgentSchedule, ToViewer, TimeLimit,
       ViewerOpened, ViewerCheck, ViewerAttach, ToAgent, CloseStep, CloseRemove, CloseRead,
       CloseWrite, Sweep, OperatorCloses, ServerRestart, Tick
  <2> QED BY <2>1, <2>2
<1> QED BY <1>1, <1>2

LEMMA Received ==
  ASSUME Shape, NEW a \in Agents, Receive(a)
  PROVE  /\ handler[a].at = "serving" /\ conn[a] = "open" /\ Resting(a)
         /\ sent[a] < MaxFrames /\ sent' = [sent EXCEPT ![a] = sent[a] + 1]
         /\ IF entry = None THEN handler' = handler
            ELSE handler'[a].at = "relaying" /\ handler'[a].ref = entry
         /\ UNCHANGED <<entry, tunnel, out, closer, conn>>
BY DEF Receive, Idle, Shape, Sockets, broker, sockets

LEMMA OutShape == ASSUME Wide, [Next]_vars PROVE DOMAIN out' = Agents /\ out' = [a \in Agents |-> out'[a]]
<1> USE DEF Wide
<1>1. ASSUME NEW s, NEW t, NEW v, NEW fs, Relay(s, t, v, fs)
      PROVE  DOMAIN out' = Agents /\ out' = [a \in Agents |-> out'[a]]
  BY <1>1 DEF Relay
<1>2. CASE UNCHANGED out BY <1>2
<1>3. CASE ServerRestart BY <1>3 DEF ServerRestart
<1>4. UNCHANGED out \/ ServerRestart \/ \E s, t, v, fs : Relay(s, t, v, fs)
  BY DEF Next, vars, history, Handshake, Connected, ConnectedRead, ConnectedCommit, Leave, Told,
     AgentOpened, AgentFetch, AgentCheck, AgentAttach, AgentSchedule, Receive, ToViewer, TimeLimit,
     ViewerOpened, ViewerCheck, ViewerAttach, ToAgent, CloseStep, CloseRemove, CloseRead,
     CloseWrite, Sweep, OperatorCloses, Tick
<1> QED BY <1>1, <1>2, <1>3, <1>4

LEMMA StepWide ==
  ASSUME Shape, Held, Wide, [Next]_vars PROVE Wide'
<1> USE DEF Shape
<1>0. Agents \subseteq Sockets /\ Viewers \subseteq Sockets /\ None \notin Sockets
  BY ConstantsAssumption DEF Sockets
<1>1. reason' \in Reasons \cup {None} /\ late' \in BOOLEAN
  <2>1. ASSUME NEW c \in Closers, CloseWrite(c) PROVE reason' \in Reasons \cup {None}
    <3>1. closer[c].why \in Reasons \cup {None} BY DEF Calls
    <3> QED BY <2>1, <3>1 DEF CloseWrite, session, Wide
  <2>2. \/ UNCHANGED reason \/ reason' \in {"time limit reached", "server restarted"}
        \/ \E c \in Closers : CloseWrite(c)
    BY DEF Next, vars, session, Handshake, Connected, ConnectedRead, ConnectedCommit, Leave, Told,
       AgentOpened, AgentFetch, AgentCheck, AgentAttach, AgentSchedule, Receive, ToViewer,
       TimeLimit, ViewerOpened, ViewerCheck, ViewerAttach, ToAgent, CloseStep, CloseRemove,
       CloseRead, Sweep, OperatorCloses, ServerRestart, Tick
  <2>3. late' = late \/ late' = TRUE
    BY DEF Next, vars, Handshake, Connected, ConnectedRead, ConnectedCommit, Leave, Told,
       AgentOpened, AgentFetch, AgentCheck, AgentAttach, AgentSchedule, Receive, ToViewer,
       TimeLimit, ViewerOpened, ViewerCheck, ViewerAttach, ToAgent, CloseStep, CloseRemove,
       CloseRead, CloseWrite, Sweep, OperatorCloses, ServerRestart, Tick
  <2> QED BY <2>1, <2>2, <2>3 DEF Wide, Reasons
<1>2. gone' \subseteq Sockets /\ left' \subseteq Sockets
  <2>1. ASSUME NEW S \in SUBSET Sockets, Shut(S) PROVE gone' \subseteq Sockets /\ left' \subseteq Sockets
    BY <2>1 DEF Shut, Wide
  <2>2. ASSUME NEW s \in Sockets, Leave(s) \/ Told(s) PROVE gone' \subseteq Sockets /\ left' \subseteq Sockets
    BY <2>2 DEF Leave, Told, Wide
  <2>3. ASSUME NEW c \in Closers, CloseRemove(c) PROVE gone' \subseteq Sockets /\ left' \subseteq Sockets
    <3>1. CASE entry = None BY <2>3, <3>1 DEF CloseRemove, sockets, Wide
    <3>2. CASE entry # None
      <4>1. {tunnel[entry].agent, tunnel[entry].viewer} \ {None} \in SUBSET Sockets
        BY <1>0, <3>2 DEF Pairing
      <4> QED BY <2>1, <2>3, <3>2, <4>1 DEF CloseRemove
    <3> QED BY <3>1, <3>2
  <2>4. CASE ServerRestart BY <2>4 DEF ServerRestart, Wide
  <2>5. \/ UNCHANGED <<gone, left>> \/ ServerRestart
        \/ \E s \in Sockets : Leave(s) \/ Told(s) \/ Shut({s})
        \/ \E c \in Closers : CloseRemove(c)
        \/ UNCHANGED left /\ \E s \in Sockets : gone' = gone \cup {s}
    BY <1>0 DEF Next, vars, sockets, Handshake, Connected, ConnectedRead, ConnectedCommit,
       AgentOpened, AgentFetch, AgentCheck, AgentAttach, AgentSchedule, Receive, ToViewer,
       TimeLimit, ViewerOpened, ViewerCheck, ViewerAttach, ToAgent, CloseStep,
       CloseRead, CloseWrite, Sweep, OperatorCloses, Tick
  <2> QED BY <2>1, <2>2, <2>3, <2>4, <2>5 DEF Wide
<1>3. sent' \in [Agents -> 0..MaxFrames]
  <2>1. ASSUME NEW a \in Agents, Receive(a) PROVE sent' \in [Agents -> 0..MaxFrames]
    BY <2>1, Received, ConstantsAssumption DEF Wide
  <2>2. UNCHANGED sent \/ \E b \in Agents : Receive(b)
    BY DEF Next, vars, history, Handshake, Connected, ConnectedRead, ConnectedCommit, Leave, Told,
       AgentOpened, AgentFetch, AgentCheck, AgentAttach, AgentSchedule, ToViewer, TimeLimit,
       ViewerOpened, ViewerCheck, ViewerAttach, ToAgent, CloseStep, CloseRemove, CloseRead,
       CloseWrite, Sweep, OperatorCloses, ServerRestart, Tick
  <2> QED BY <2>1, <2>2 DEF Wide
<1>4. out' \in [Agents -> Seq(Frame)]
  BY FramesTyped, OutShape
<1>5. \A t \in Agents : tunnel'[t].backlog \in Seq(Frame)
  BY FramesTyped
<1>6. ASSUME NEW a \in Agents, handler'[a].at = "relaying" PROVE sent'[a] \in 1..MaxFrames
  <2>1. CASE Receive(a)
    BY <2>1, Received, ConstantsAssumption DEF Wide
  <2> QED BY <1>6, <2>1, Counts DEF Wide
<1> QED BY <1>1, <1>2, <1>3, <1>4, <1>5, <1>6 DEF Wide

-----------------------------------------------------------------------------
(* Blank pairings, silent devices, locks.                                  *)
\* A connection that has not come to its pairing yet.
New(a) == conn[a] = "new" \/ handler[a].at = "opened"
Coming(a) == conn[a] = "new" \/ handler[a].at \in {"opened", "fetched", "accepted"}

\* A pairing that was not created yet is blank, and nobody has its lock.
Blank ==
  \A t \in Agents : New(t) =>
    /\ out[t] = <<>> /\ tunnel[t].backlog = <<>>
    /\ \A c \in Closers : closer[c].lock # t

\* A connection sends nothing before its pairing has it.
Silent ==
  \A a \in Agents : Coming(a) =>
    /\ sent[a] = 0
    /\ \A t \in Agents : \A i \in DOMAIN Frames(t) : Frames(t)[i][1] # a

\* A pairing keeps nothing for a viewer that it has.
Passed == \A t \in Agents : tunnel[t].viewer # None => tunnel[t].backlog = <<>>

\* A thread that holds the lock of the pairing in the map is about to remove it.
Locked ==
  \A c \in Closers : (entry # None /\ closer[c].lock = entry) => closer[c].at = "remove"

\* A connection is new, and comes to its pairing, once.
LEMMA Arrivals ==
  ASSUME Shape, Begun, [Next]_vars, NEW a \in Agents
  PROVE  (New(a)' => New(a)) /\ (Coming(a)' => Coming(a))
<1> USE DEF Shape
<1>0. a \in Sockets /\ a \notin Viewers BY ConstantsAssumption DEF Sockets
<1>1. conn'[a] = "new" => conn[a] = "new" BY <1>0, Older
<1>2. ASSUME handler'[a] # handler[a]
      PROVE  /\ handler'[a].at = "opened" => New(a)
             /\ handler'[a].at \in {"fetched", "accepted"} => Coming(a)
  <2>1. CASE handler'[a] = Serving \/ ServerRestart \/ ToViewer(a)
    BY <1>0, <2>1, Restarted, RelayEnds DEF Serving
  <2>2. CASE Handshake(a)
    BY <1>0, <2>2 DEF Handshake, Goto, New, Coming
  <2>3. CASE Connected(a)
    BY <1>0, <2>3 DEF Connected, ConnectedRead, ConnectedCommit, Goto, Done, Serving
  <2>4. CASE AgentOpened(a)
    BY <1>0, <2>4 DEF AgentOpened, AgentFetch, AgentCheck, AgentAttach, AgentSchedule, Goto, Done,
       Serving, Coming
  <2>5. CASE Receive(a)
    BY <1>2, <2>5, Received
  <2> QED BY <1>0, <1>2, <2>1, <2>2, <2>3, <2>4, <2>5, Moves
<1> QED BY <1>1, <1>2 DEF New, Coming

LEMMA StepBlank ==
  ASSUME Shape, Held, Wide, Begun, Fresh, Blank, [Next]_vars PROVE Blank'
<1> SUFFICES ASSUME NEW t \in Agents, New(t)'
             PROVE  /\ out'[t] = <<>> /\ tunnel'[t].backlog = <<>>
                    /\ \A c \in Closers : closer'[c].lock # t
  BY DEF Blank
<1>0. None # t BY ConstantsAssumption DEF Sockets
<1>1. New(t) BY Arrivals
<1>2. /\ out[t] = <<>> /\ tunnel[t].backlog = <<>>
      /\ \A c \in Closers : closer[c].lock # t
      /\ \A s \in Sockets : handler[s].ref # t
  BY <1>1 DEF Blank, Fresh, New
<1>3. CASE ServerRestart
  <2>1. out'[t] = <<>> /\ tunnel'[t] = NoTunnel BY <1>3 DEF ServerRestart
  <2>2. \A c \in Closers : closer'[c].lock # t BY <1>0, <1>3, ClosersRestarted DEF Rest
  <2> QED BY <2>1, <2>2 DEF NoTunnel
<1>4. ASSUME ~ServerRestart PROVE out'[t] = <<>> /\ tunnel'[t].backlog = <<>>
  <2>1. Agents \subseteq Sockets /\ Viewers \subseteq Sockets BY DEF Sockets
  <2>2. FramesStay(t) BY <1>2, <1>4, <2>1, FrameMoves
  <2> QED BY <1>2, <2>2 DEF FramesStay
<1>5. ASSUME ~ServerRestart, NEW c \in Closers PROVE closer'[c].lock # t
  <2>1. Agents \subseteq Sockets /\ Viewers \subseteq Sockets BY DEF Sockets
  <2>2. CASE closer'[c] = closer[c] BY <1>2, <2>2
  <2>3. CASE CloseStep(c) BY <1>0, <1>2, <2>3, CloseOnward
  <2> QED BY <1>0, <1>2, <1>5, <2>1, <2>2, <2>3, CloserMoves, ClosingIs
<1> QED BY <1>3, <1>4, <1>5

\* The frames of a pairing stay, grow by one that its lock let through, or are cut short
\* by a thread that keeps the lock.
FramesGrow(t) ==
  \/ Frames(t)' = Frames(t) /\ \A a \in Agents : ToViewer(a) => handler[a].ref # t
  \/ \E a \in Agents : /\ ToViewer(a) /\ handler[a].ref = t /\ Unlocked(t)
                       /\ Frames(t)' = Append(Frames(t), <<a, sent[a]>>)
  \/ /\ \E n \in 0..Len(Frames(t)) : Frames(t)' = SubSeq(Frames(t), 1, n)
     /\ \E c \in Closers : closer'[c].lock = t /\ closer'[c].at = "remove"

LEMMA FramesAre ==
  ASSUME Wide, NEW t \in Agents
  PROVE  /\ out[t] \in Seq(Frame) /\ tunnel[t].backlog \in Seq(Frame)
         /\ Frames(t) \in Seq(Frame) /\ Len(Frames(t)) = Len(out[t]) + Len(tunnel[t].backlog)
         /\ \A i \in 1..Len(out[t]) + Len(tunnel[t].backlog) :
              Frames(t)[i] = IF i <= Len(out[t]) THEN out[t][i] ELSE tunnel[t].backlog[i - Len(out[t])]
<1>1. out[t] \in Seq(Frame) /\ tunnel[t].backlog \in Seq(Frame) BY DEF Wide
<1> QED BY <1>1, ConcatProperties DEF Frames

\* A part of a sequence that begins with it.
LEMMA Prefixes ==
  ASSUME NEW S, NEW s \in Seq(S), NEW n \in 0..Len(s)
  PROVE  /\ SubSeq(s, 1, n) \in Seq(S) /\ Len(SubSeq(s, 1, n)) = n
         /\ \A i \in 1..n : SubSeq(s, 1, n)[i] = s[i]
<1>1. \A i \in 1..n : s[i] \in S BY ElementOfSeq, LenProperties
<1>2. n \in Nat /\ 1 \in Int BY LenProperties
<1>3. /\ SubSeq(s, 1, n) \in Seq(S)
      /\ Len(SubSeq(s, 1, n)) = IF 1 <= n THEN n - 1 + 1 ELSE 0
      /\ \A i \in 1 .. n - 1 + 1 : SubSeq(s, 1, n)[i] = s[1 + i - 1]
  BY <1>1, <1>2, SubSeqProperties
<1> QED BY <1>2, <1>3

LEMMA FramesGrowAll ==
  ASSUME Shape, Held, Wide, Passed, [Next]_vars, ~ServerRestart, NEW t \in Agents
  PROVE  FramesGrow(t)
<1>0. out[t] \in Seq(Frame) /\ tunnel[t].backlog \in Seq(Frame) /\ Frames(t) \in Seq(Frame)
  BY FramesAre
<1>1. CASE FramesStay(t) /\ \A a \in Agents : ToViewer(a) => handler[a].ref # t
  BY <1>1 DEF FramesStay, Frames, FramesGrow
<1>2. ASSUME NEW a \in Agents, Close(a, "connection error", t)
      PROVE  \E c \in Closers : closer'[c].lock = t /\ closer'[c].at = "remove"
  <2>1. a \in Closers /\ closer'[a] = Closing("connection error", t)
    BY <1>2 DEF Close, Closers, Sockets, Shape
  <2>2. /\ Closing("connection error", t).lock = t
        /\ Closing("connection error", t).at = "remove"
    BY DEF Closing
  <2> QED BY <2>1, <2>2
<1>3. ASSUME NEW v \in Viewers, Close(v, "connection error", t)
      PROVE  \E c \in Closers : closer'[c].lock = t /\ closer'[c].at = "remove"
  <2>1. v \in Closers /\ closer'[v] = Closing("connection error", t)
    BY <1>3 DEF Close, Closers, Sockets, Shape
  <2>2. /\ Closing("connection error", t).lock = t
        /\ Closing("connection error", t).at = "remove"
    BY DEF Closing
  <2> QED BY <2>1, <2>2
<1>4. ASSUME NEW a \in Agents, ToViewer(a), handler[a].ref = t,
             FrameKept(t, a) \/ FramePassed(t, a) \/ FrameLost(t, a)
      PROVE  FramesGrow(t)
  <2> DEFINE frame == <<a, sent[a]>>
  <2>0. Unlocked(t) /\ frame \in Frame
    <3>1. sent[a] \in 1..MaxFrames /\ Unlocked(handler[a].ref) BY <1>4, RelayEnds DEF Wide
    <3> QED BY <1>4, <3>1 DEF Frame
  <2> HIDE DEF frame
  <2>1. CASE FrameKept(t, a)
    <3>1. Frames(t)' = out[t] \o Append(tunnel[t].backlog, frame)
      BY <2>1 DEF FrameKept, Frames, frame
    <3>2. Frames(t)' = Append(Frames(t), frame)
      <4> DEFINE b == tunnel[t].backlog
      <4> HIDE DEF b
      <4>1. b \in Seq(Frame) /\ out[t] \in Seq(Frame) /\ <<frame>> \in Seq(Frame)
        BY <1>0, <2>0 DEF b
      <4>2. Append(b, frame) = b \o <<frame>> BY <2>0, <4>1, AppendIsConcat
      <4>3. (out[t] \o b) \o <<frame>> = out[t] \o (b \o <<frame>>)
        <5> DEFINE o == out[t]
                   e == <<frame>>
        <5>1. o \in Seq(Frame) /\ e \in Seq(Frame) BY <4>1
        <5> HIDE DEF o, e
        <5>2. (o \o b) \o e = o \o (b \o e) BY <4>1, <5>1, ConcatAssociative
        <5> QED BY <5>2 DEF o, e
      <4>4. Append(out[t] \o b, frame) = (out[t] \o b) \o <<frame>>
        BY <2>0, <4>1, AppendIsConcat, ConcatProperties
      <4>5. Append(Frames(t), frame) = out[t] \o Append(b, frame)
        BY <4>2, <4>3, <4>4 DEF Frames, b
      <4> QED BY <3>1, <4>5 DEF b
    <3> QED BY <1>4, <2>0, <3>2 DEF FramesGrow, frame
  <2>2. CASE FramePassed(t, a)
    <3>1. tunnel[t].backlog = <<>> /\ tunnel'[t].backlog = <<>> BY <2>2 DEF FramePassed, Passed
    <3>2. out'[t] = Append(out[t], frame) /\ Append(out[t], frame) \in Seq(Frame)
      BY <2>0, <2>2, <1>0, AppendProperties DEF FramePassed, frame
    <3>3. Frames(t) = out[t] BY <1>0, <3>1, ConcatEmptySeq DEF Frames
    <3>4. Frames(t)' = out'[t]
      <4>1. Frames(t)' = out'[t] \o <<>> BY <3>1 DEF Frames
      <4> QED BY <3>2, <4>1, ConcatEmptySeq
    <3> QED BY <1>4, <2>0, <3>2, <3>3, <3>4 DEF FramesGrow, frame
  <2>3. CASE FrameLost(t, a)
    <3>1. Frames(t)' = Frames(t) BY <2>3 DEF FrameLost, Frames
    <3>2. Frames(t)' = SubSeq(Frames(t), 1, Len(Frames(t))) /\ Len(Frames(t)) \in 0..Len(Frames(t))
      BY <1>0, <3>1, SubSeqFull, LenProperties
    <3> QED BY <1>2, <2>3, <3>2 DEF FrameLost, FramesGrow
  <2> QED BY <1>4, <2>1, <2>2, <2>3
<1>5. ASSUME NEW v \in Viewers, ViewerAttach(v), handler[v].ref = t, KeptSent(t, v) PROVE FramesGrow(t)
  <2> DEFINE b == tunnel[t].backlog
  <2>1. PICK n \in 0..Len(b) :
          /\ out'[t] = out[t] \o SubSeq(b, 1, n)
          /\ IF n < Len(b) THEN Close(v, "connection error", t) ELSE UNCHANGED closer
    BY <1>5 DEF KeptSent
  <2> HIDE DEF b
  <2>2. b \in Seq(Frame) /\ out[t] \in Seq(Frame) /\ Len(b) \in Nat BY <1>0, LenProperties DEF b
  <2>3. /\ SubSeq(b, 1, n) \in Seq(Frame) /\ Len(SubSeq(b, 1, n)) = n
        /\ \A i \in 1..n : SubSeq(b, 1, n)[i] = b[i]
    BY <2>2, Prefixes
  <2>4. Frames(t)' = out'[t]
    <3>1. Frames(t)' = out'[t] \o <<>> BY <1>5 DEF KeptSent, Frames
    <3>2. out[t] \o SubSeq(b, 1, n) \in Seq(Frame) BY <2>2, <2>3, ConcatProperties
    <3> QED BY <2>1, <3>1, <3>2, ConcatEmptySeq
  <2>5. CASE n = Len(b)
    <3>1. Frames(t)' = Frames(t) BY <2>1, <2>2, <2>4, <2>5, SubSeqFull DEF Frames, b
    <3>2. \A a \in Agents : ~ToViewer(a)
      <4>1. ASSUME NEW a \in Agents, ToViewer(a) PROVE FALSE
        <5>1. v \in Sockets \ {a} /\ handler'[v] = handler[v]
          BY <4>1, RelayEnds, ConstantsAssumption DEF Sockets
        <5> QED BY <1>5, <5>1 DEF ViewerAttach, Goto, Shape
      <4> QED BY <4>1
    <3> QED BY <3>1, <3>2 DEF FramesGrow
  <2>6. CASE n # Len(b)
    <3>1. Close(v, "connection error", t)
      <4>1. n < Len(b) BY <2>2, <2>6
      <4> QED BY <2>1, <4>1
    <3> DEFINE m == Len(out[t]) + n
               f == Frames(t)
    <3>2. f \in Seq(Frame) /\ Len(f) = Len(out[t]) + Len(b) /\ Len(out[t]) \in Nat
      BY FramesAre, <2>2, LenProperties DEF b
    <3>3. m \in 0..Len(f) BY <2>2, <3>2
    <3>4. \A i \in 1..m : SubSeq(f, 1, m)[i] = f[i] /\ Len(SubSeq(f, 1, m)) = m
                          /\ SubSeq(f, 1, m) \in Seq(Frame)
      BY <3>2, <3>3, Prefixes
    <3>5. Len(SubSeq(f, 1, m)) = m /\ SubSeq(f, 1, m) \in Seq(Frame)
      BY <3>2, <3>3, Prefixes
    <3>6. /\ out'[t] \in Seq(Frame) /\ Len(out'[t]) = m
          /\ \A i \in 1..m : out'[t][i] = IF i <= Len(out[t]) THEN out[t][i] ELSE b[i - Len(out[t])]
      <4> DEFINE e == SubSeq(b, 1, n)
                 o == out[t]
      <4>1. e \in Seq(Frame) /\ Len(e) = n /\ (\A i \in 1..n : e[i] = b[i]) /\ o \in Seq(Frame)
        BY <2>2, <2>3
      <4>2. out'[t] = o \o e BY <2>1
      <4> HIDE DEF e
      <4>3. /\ o \o e \in Seq(Frame) /\ Len(o \o e) = Len(o) + n
            /\ \A i \in 1..Len(o) + n : (o \o e)[i] = IF i <= Len(o) THEN o[i] ELSE e[i - Len(o)]
        BY <4>1, ConcatProperties
      <4>4. \A i \in 1..m : ~(i <= Len(o)) => i - Len(o) \in 1..n
        BY <2>2, <3>2
      <4> QED BY <4>1, <4>2, <4>3, <4>4
    <3>7. \A i \in 1..m : f[i] = IF i <= Len(out[t]) THEN out[t][i] ELSE b[i - Len(out[t])]
      <4>1. \A i \in 1..Len(out[t]) + Len(b) :
              f[i] = IF i <= Len(out[t]) THEN out[t][i] ELSE b[i - Len(out[t])]
        BY FramesAre DEF b
      <4>2. \A i \in 1..m : i \in 1..Len(out[t]) + Len(b) BY <2>2, <3>2
      <4> QED BY <4>1, <4>2
    <3>8. out'[t] = SubSeq(f, 1, m)
      <4> DEFINE g == SubSeq(f, 1, m)
      <4>1. \A i \in 1..m : out'[t][i] = g[i] BY <3>4, <3>6, <3>7
      <4>2. Len(g) = m /\ g \in Seq(Frame) BY <3>5
      <4> HIDE DEF g
      <4>3. out'[t] = g BY <3>6, <4>1, <4>2, SeqEqual
      <4> QED BY <4>3 DEF g
    <3>9. \E k \in 0..Len(Frames(t)) : Frames(t)' = SubSeq(Frames(t), 1, k)
      BY <2>4, <3>3, <3>8
    <3> QED BY <1>3, <3>1, <3>9 DEF FramesGrow
  <2> QED BY <2>5, <2>6
<1> QED BY <1>1, <1>4, <1>5, FrameMoves

\* Which frames a pairing may have after a step.
LEMMA NoNewFrames ==
  ASSUME Shape, Held, Wide, Passed, [Next]_vars, ~ServerRestart, NEW t \in Agents, NEW a \in Agents,
         ~(ToViewer(a) /\ handler[a].ref = t),
         \A i \in DOMAIN Frames(t) : Frames(t)[i][1] # a
  PROVE  \A i \in DOMAIN Frames(t)' : Frames(t)'[i][1] # a
<1> DEFINE f == Frames(t)
<1>0. f \in Seq(Frame) /\ Len(f) \in Nat /\ DOMAIN f = 1..Len(f)
  BY FramesAre, LenProperties
<1>1. ASSUME NEW b \in Agents, b # a, Frames(t)' = Append(f, <<b, sent[b]>>), sent[b] \in 1..MaxFrames
      PROVE  \A i \in DOMAIN Frames(t)' : Frames(t)'[i][1] # a
  <2> DEFINE e == <<b, sent[b]>>
  <2>1. e \in Frame /\ e[1] # a BY <1>1 DEF Frame
  <2> HIDE DEF e, f
  <2>2. /\ DOMAIN Append(f, e) = 1..Len(f) + 1
        /\ \A i \in 1..Len(f) : Append(f, e)[i] = f[i]
        /\ Append(f, e)[Len(f) + 1] = e
    BY <1>0, <2>1, AppendProperties, LenProperties
  <2>3. \A i \in 1..Len(f) + 1 : i \in 1..Len(f) \/ i = Len(f) + 1
    BY <1>0
  <2>4. \A i \in 1..Len(f) + 1 : Append(f, e)[i][1] # a
    BY <1>0, <2>1, <2>2, <2>3 DEF f
  <2> QED BY <1>1, <2>2, <2>4 DEF e
<1>2. ASSUME NEW n \in 0..Len(f), Frames(t)' = SubSeq(f, 1, n)
      PROVE  \A i \in DOMAIN Frames(t)' : Frames(t)'[i][1] # a
  <2> HIDE DEF f
  <2>1. /\ DOMAIN SubSeq(f, 1, n) = 1..n /\ \A i \in 1..n : SubSeq(f, 1, n)[i] = f[i]
    BY <1>0, Prefixes, LenProperties
  <2>2. \A i \in 1..n : i \in DOMAIN f BY <1>0
  <2> QED BY <1>2, <2>1, <2>2 DEF f
<1>3. ASSUME NEW b \in Agents, ToViewer(b) PROVE sent[b] \in 1..MaxFrames
  BY <1>3, RelayEnds DEF Wide
<1> QED BY <1>1, <1>2, <1>3, FramesGrowAll DEF FramesGrow

LEMMA StepSilent ==
  ASSUME Shape, Held, Wide, Begun, Passed, Silent, [Next]_vars PROVE Silent'
<1> SUFFICES ASSUME NEW a \in Agents, Coming(a)'
             PROVE  /\ sent'[a] = 0
                    /\ \A t \in Agents : \A i \in DOMAIN Frames(t)' : Frames(t)'[i][1] # a
  BY DEF Silent
<1>0. a \in Sockets BY DEF Sockets
<1>1. Coming(a) /\ sent[a] = 0 /\ \A t \in Agents : \A i \in DOMAIN Frames(t) : Frames(t)[i][1] # a
  BY Arrivals DEF Silent
<1>2. ~ToViewer(a) /\ ~Receive(a)
  BY <1>0, <1>1, RelayEnds, Received DEF Coming, Begun
<1>3. sent'[a] = 0 BY <1>1, <1>2, Counts
<1>4. CASE ServerRestart
  <2>1. \A t \in Agents : out'[t] = <<>> /\ tunnel'[t].backlog = <<>> BY <1>4 DEF ServerRestart, NoTunnel
  <2>2. \A t \in Agents : Frames(t)' = <<>> \o <<>> BY <2>1 DEF Frames
  <2>3. <<>> \o <<>> = <<>> /\ DOMAIN <<>> = 1..0
    <3>1. <<>> \in Seq(Frame) BY EmptySeq
    <3> QED BY <3>1, ConcatEmptySeq, EmptySeq, LenProperties
  <2>4. 1..0 = {} OBVIOUS
  <2> QED BY <1>3, <2>2, <2>3, <2>4
<1> QED BY <1>1, <1>2, <1>3, <1>4, NoNewFrames

LEMMA StepPassed ==
  ASSUME Shape, Held, Wide, Passed, [Next]_vars PROVE Passed'
<1> SUFFICES ASSUME NEW t \in Agents PROVE tunnel'[t].viewer # None => tunnel'[t].backlog = <<>>
  BY DEF Passed
<1>1. CASE ServerRestart
  <2>1. tunnel'[t] = NoTunnel BY <1>1 DEF ServerRestart
  <2> QED BY <2>1 DEF NoTunnel
<1>2. CASE FramesStay(t) BY <1>2 DEF FramesStay, Passed
<1>3. ASSUME NEW a \in Agents, FrameKept(t, a) \/ FramePassed(t, a) \/ FrameLost(t, a)
      PROVE  tunnel'[t].viewer # None => tunnel'[t].backlog = <<>>
  <2>1. tunnel'[t].viewer = None \/ tunnel'[t] = tunnel[t]
    BY <1>3 DEF FrameKept, FramePassed, FrameLost
  <2> QED BY <2>1 DEF Passed
<1>4. ASSUME NEW v \in Viewers, KeptSent(t, v) PROVE tunnel'[t].backlog = <<>>
  BY <1>4 DEF KeptSent
<1> QED BY <1>1, <1>2, <1>3, <1>4, FrameMoves

\* The pairing in the map is the one before the step, or one that is being created.
LEMMA EntryNew ==
  ASSUME Shape, Begun, [Next]_vars, entry' # None, entry' # entry
  PROVE  entry' \in Agents /\ New(entry') /\ UNCHANGED tunnel /\ ~ServerRestart
         /\ \A c \in Closers : ~CloseStep(c) \/ closer[c].at # "remove"
<1>1. PICK a \in Agents : AgentFetch(a) /\ entry' = a /\ UNCHANGED tunnel BY EntryMoves
<1>2. ~ServerRestart BY DEF ServerRestart
<1>3. \A c \in Closers : ~CloseStep(c) \/ closer[c].at # "remove" BY CloseSteps
<1> QED BY <1>1, <1>2, <1>3 DEF AgentFetch, New

LEMMA StepLocked ==
  ASSUME Shape, Held, Begun, Blank, Locked, [Next]_vars PROVE Locked'
<1> SUFFICES ASSUME NEW c \in Closers, entry' # None, closer'[c].lock = entry'
             PROVE  closer'[c].at = "remove"
  BY DEF Locked
<1>1. ~ServerRestart BY DEF ServerRestart
<1>2. CASE closer'[c].at = "remove" BY <1>2
<1>3. CASE closer'[c] = closer[c]
  <2>1. CASE entry' = entry BY <1>3, <2>1 DEF Locked
  <2>2. CASE entry' # entry
    <3>1. entry' \in Agents /\ New(entry') BY <2>2, EntryNew
    <3>2. closer[c].lock # entry' BY <3>1 DEF Blank
    <3> QED BY <1>3, <3>2
  <2> QED BY <2>1, <2>2
<1>4. CASE CloseStep(c)
  <2>1. closer[c].at # "remove" /\ closer'[c].lock \in {closer[c].lock, None}
    BY <1>4, CloseSteps
  <2>2. closer[c].lock = entry' BY <2>1
  <2>3. CASE entry' = entry BY <2>1, <2>2, <2>3 DEF Locked
  <2>4. CASE entry' # entry
    <3>1. entry' \in Agents /\ New(entry') BY <2>4, EntryNew
    <3> QED BY <2>2, <3>1 DEF Blank
  <2> QED BY <2>3, <2>4
<1> QED BY <1>1, <1>2, <1>3, <1>4, CloserMoves, ClosingIs

\* A lock of the pairing in the map is held until the pairing leaves it.
LEMMA LockStays ==
  ASSUME Shape, Held, Locked, [Next]_vars, ~ServerRestart, entry \in Agents, entry' = entry,
         NEW c \in Closers, closer[c].lock = entry
  PROVE  closer'[c].lock = entry
<1>0. entry # None /\ closer[c].at = "remove" BY ConstantsAssumption DEF Locked, Sockets
<1>1. ~CloseStep(c) BY <1>0, CloseSteps
<1>2. ~Resting(c) BY <1>0 DEF Resting
<1>3. ~(c \in Viewers /\ ViewerAttach(c)) BY <1>2 DEF ViewerAttach
<1>4. ~(c \in Agents /\ ToViewer(c))
  <2> SUFFICES ASSUME c \in Agents, ToViewer(c) PROVE FALSE OBVIOUS
  <2>1. closer[c].lock = None BY RelayEnds DEF Held
  <2> QED BY <1>0, <2>1
<1> QED BY <1>1, <1>2, <1>3, <1>4, CloserMoves

-----------------------------------------------------------------------------
\* The device connections that may still have a frame kept for the viewer.
MayKeep(t) ==
  {a \in Agents : \/ handler[a].at = "relaying" /\ handler[a].ref = t
                  \/ entry = t /\ closer[a].at # "remove"}

Bounded ==
  \A t \in Agents : Len(tunnel[t].backlog) > MaxBacklog =>
    Len(tunnel[t].backlog) + Cardinality(MayKeep(t)) <= MaxBacklog + Cardinality(Agents)

\* None is added to them.
LEMMA KeepersShrink ==
  ASSUME Shape, Held, Begun, [Next]_vars, ~ServerRestart, NEW t \in Agents, entry' = t => entry = t
  PROVE  MayKeep(t)' \subseteq MayKeep(t)
<1> SUFFICES ASSUME NEW a \in Agents, a \in MayKeep(t)' PROVE a \in MayKeep(t)
  BY DEF MayKeep
<1>0. a \in Closers /\ a \in Sockets /\ t # None BY ConstantsAssumption DEF Closers, Sockets
<1>1. CASE handler'[a].at = "relaying" /\ handler'[a].ref = t
  <2>1. CASE handler'[a] = handler[a] BY <1>1, <2>1 DEF MayKeep
  <2>2. CASE Receive(a)
    <3>1. Resting(a) /\ (handler' = handler \/ handler'[a].ref = entry) BY <2>2, Received
    <3> QED BY <1>1, <3>1 DEF MayKeep, Resting
  <2> QED BY <1>1, <2>1, <2>2, Counts
<1>2. CASE entry' = t /\ closer'[a].at # "remove"
  <2>1. entry = t BY <1>2
  <2>2. closer[a].at # "remove"
    <3>1. ASSUME CloseStep(a) PROVE closer[a].at # "remove"
      BY <1>0, <1>2, <3>1, CloseSteps
    <3> QED BY <1>0, <1>2, <3>1, CloserMoves, ClosingIs
  <2> QED BY <2>1, <2>2 DEF MayKeep
<1> QED BY <1>1, <1>2 DEF MayKeep

LEMMA StepBounded ==
  ASSUME Shape, Held, Wide, Begun, Blank, Bounded, [Next]_vars PROVE Bounded'
<1> SUFFICES ASSUME NEW t \in Agents, Len(tunnel'[t].backlog) > MaxBacklog
             PROVE  Len(tunnel'[t].backlog) + Cardinality(MayKeep(t)') <= MaxBacklog + Cardinality(Agents)
  BY DEF Bounded
<1>0. /\ tunnel[t].backlog \in Seq(Frame) /\ Len(tunnel[t].backlog) \in Nat
      /\ MaxBacklog \in Nat /\ IsFiniteSet(Agents) /\ t # None
  BY ConstantsAssumption, LenProperties DEF Wide, Sockets
<1>1. Len(tunnel'[t].backlog) # 0
  <2>1. tunnel'[t].backlog \in Seq(Frame) BY FramesTyped
  <2> QED BY <1>0, <2>1, LenProperties
<1>2. tunnel'[t].backlog # <<>> BY <1>1, EmptySeq
<1>3. ~ServerRestart
  <2> SUFFICES ASSUME ServerRestart PROVE FALSE OBVIOUS
  <2>1. tunnel'[t] = NoTunnel BY DEF ServerRestart
  <2> QED BY <1>2, <2>1 DEF NoTunnel
<1>4. entry' = t => entry = t
  <2> SUFFICES ASSUME entry' = t, entry # t PROVE FALSE OBVIOUS
  <2>1. New(t) /\ UNCHANGED tunnel BY <1>0, EntryNew
  <2> QED BY <1>2, <2>1 DEF Blank
<1>5. MayKeep(t)' \subseteq MayKeep(t) /\ MayKeep(t) \subseteq Agents
  BY <1>3, <1>4, KeepersShrink DEF MayKeep
<1>6. CASE tunnel'[t].backlog = tunnel[t].backlog
  <2>1. IsFiniteSet(MayKeep(t)) /\ Cardinality(MayKeep(t)) \in Nat
    BY <1>0, <1>5, FS_Subset, FS_CardinalityType
  <2>2. Cardinality(MayKeep(t)') <= Cardinality(MayKeep(t)) /\ Cardinality(MayKeep(t)') \in Nat
    BY <1>5, <2>1, FS_Subset, FS_CardinalityType
  <2>3. Len(tunnel[t].backlog) + Cardinality(MayKeep(t)) <= MaxBacklog + Cardinality(Agents)
    BY <1>6 DEF Bounded
  <2>4. Cardinality(Agents) \in Nat BY <1>0, FS_CardinalityType
  <2> DEFINE k == Cardinality(MayKeep(t))
             kk == Cardinality(MayKeep(t)')
             m == Len(tunnel[t].backlog)
             limit == MaxBacklog + Cardinality(Agents)
  <2>5. /\ k \in Nat /\ kk \in Nat /\ m \in Nat /\ limit \in Nat /\ kk <= k /\ m + k <= limit
        /\ Len(tunnel'[t].backlog) = m
    BY <1>0, <1>6, <2>1, <2>2, <2>3, <2>4
  <2> HIDE DEF k, kk, m, limit
  <2>6. m + kk <= limit BY <2>5
  <2> QED BY <2>5, <2>6 DEF k, kk, m, limit
<1>7. ASSUME NEW a \in Agents, ToViewer(a), handler[a].ref = t, FrameKept(t, a)
      PROVE  Len(tunnel'[t].backlog) + Cardinality(MayKeep(t)') <= MaxBacklog + Cardinality(Agents)
  <2> DEFINE b == tunnel[t].backlog
             frame == <<a, sent[a]>>
  <2>1. frame \in Frame
    <3>1. sent[a] \in 1..MaxFrames BY <1>7, RelayEnds DEF Wide
    <3> QED BY <3>1 DEF Frame
  <2>2. tunnel'[t].backlog = Append(b, frame) BY <1>7 DEF FrameKept
  <2> HIDE DEF frame
  <2>3. Len(tunnel'[t].backlog) = Len(b) + 1 BY <1>0, <2>1, <2>2, AppendProperties
  <2>4. a \in Closers /\ a \in Sockets BY DEF Closers, Sockets
  <2>5. closer'[a].at = "remove"
    <3>1. Overflow(tunnel'[t].backlog) BY <1>0, <2>3 DEF Overflow
    <3>2. Close(a, "connection error", None) BY <1>7, <2>2, <3>1 DEF FrameKept, frame
    <3> QED BY <2>4, <3>2, ClosingIs DEF Close, Shape
  <2>6. handler[a].at = "relaying" /\ handler'[a].at # "relaying" BY <1>7, RelayEnds DEF Serving
  <2>7. a \in MayKeep(t) /\ a \notin MayKeep(t)' BY <1>7, <2>5, <2>6 DEF MayKeep
  <2>8. MayKeep(t)' \subseteq MayKeep(t) \ {a} BY <1>5, <2>7
  <2>9. /\ IsFiniteSet(MayKeep(t)) /\ Cardinality(MayKeep(t)) \in Nat
        /\ Cardinality(MayKeep(t)) <= Cardinality(Agents) /\ Cardinality(Agents) \in Nat
    BY <1>0, <1>5, FS_Subset, FS_CardinalityType
  <2>10. /\ IsFiniteSet(MayKeep(t) \ {a})
         /\ Cardinality(MayKeep(t) \ {a}) = Cardinality(MayKeep(t)) - 1
    BY <2>7, <2>9, FS_RemoveElement
  <2>11. /\ Cardinality(MayKeep(t)') <= Cardinality(MayKeep(t)) - 1
         /\ Cardinality(MayKeep(t)') \in Nat
    BY <2>8, <2>10, FS_Subset, FS_CardinalityType
  <2>12. Len(b) > MaxBacklog => Len(b) + Cardinality(MayKeep(t)) <= MaxBacklog + Cardinality(Agents)
    BY DEF Bounded
  <2> DEFINE k == Cardinality(MayKeep(t))
             kk == Cardinality(MayKeep(t)')
             m == Len(b)
             devices == Cardinality(Agents)
  <2>13. /\ k \in Nat /\ kk \in Nat /\ m \in Nat /\ devices \in Nat /\ kk <= k - 1 /\ k <= devices
         /\ m > MaxBacklog => m + k <= MaxBacklog + devices
         /\ MaxBacklog \in Nat
    BY <1>0, <2>9, <2>11, <2>12
  <2> HIDE DEF k, kk, m, devices
  <2>14. (m + 1) + kk <= MaxBacklog + devices BY <2>13
  <2> QED BY <2>3, <2>14 DEF k, kk, m, devices
<1>8. ASSUME NEW a \in Agents, FramePassed(t, a) \/ FrameLost(t, a)
      PROVE  tunnel'[t].backlog = tunnel[t].backlog
  BY <1>8 DEF FramePassed, FrameLost
<1>9. \A v \in Viewers : ~KeptSent(t, v)
  BY <1>2 DEF KeptSent
<1> QED BY <1>3, <1>6, <1>7, <1>8, <1>9, FrameMoves DEF FramesStay

-----------------------------------------------------------------------------
(* The order of the frames.                                                *)
\* The frames of a device connection that are not under way to its pairing.
Relayed(a) == IF handler[a].at = "relaying" THEN sent[a] - 1 ELSE sent[a]

\* The numbers of a's frames in a sequence of frames.
All(frames, a) == NumbersOf(frames, a, Len(frames))

\* The pairing in the map has its device's first frames, in order, and all of them
\* while nobody holds its lock.
Orderly ==
  \A a \in Agents : (entry # None /\ tunnel[entry].agent = a) =>
    /\ InOrder(Frames(entry), a)
    /\ All(Frames(entry), a) \subseteq 1..Relayed(a)
    /\ Unlocked(entry) => All(Frames(entry), a) = 1..Relayed(a)
    /\ handler[a].at = "relaying" => handler[a].ref = entry

\* The first frames of a sequence in order are in order.
LEMMA BeginsInOrder ==
  ASSUME NEW f \in Seq(Frame), NEW a \in Agents, NEW n \in 0..Len(f), InOrder(f, a)
  PROVE  InOrder(SubSeq(f, 1, n), a) /\ All(SubSeq(f, 1, n), a) \subseteq All(f, a)
<1> DEFINE g == SubSeq(f, 1, n)
<1>1. g \in Seq(Frame) /\ Len(g) = n /\ (\A i \in 1..n : g[i] = f[i]) /\ DOMAIN g = 1..n
  BY Prefixes, LenProperties
<1>2. DOMAIN f = 1..Len(f) /\ Len(f) \in Nat BY LenProperties
<1> HIDE DEF g
<1>3. \A k \in 0..n : NumbersOf(g, a, k) = NumbersOf(f, a, k)
  <2> SUFFICES ASSUME NEW k \in 0..n PROVE NumbersOf(g, a, k) = NumbersOf(f, a, k) OBVIOUS
  <2>1. \A i \in 1..k : g[i] = f[i] BY <1>1, <1>2
  <2> QED BY <2>1 DEF NumbersOf
<1>4. ASSUME NEW i \in DOMAIN g, g[i][1] = a PROVE NumbersOf(g, a, i - 1) = 1..(g[i][2] - 1)
  <2>1. i \in DOMAIN f /\ g[i] = f[i] /\ i - 1 \in 0..n BY <1>1, <1>2
  <2>2. NumbersOf(f, a, i - 1) = 1..(f[i][2] - 1) BY <1>4, <2>1 DEF InOrder
  <2> QED BY <1>3, <2>1, <2>2
<1>5. NumbersOf(f, a, n) \subseteq NumbersOf(f, a, Len(f))
  <2>1. 1..n \subseteq 1..Len(f) BY <1>2
  <2> QED BY <2>1 DEF NumbersOf
<1>6. n \in 0..n BY <1>2
<1>7. All(g, a) \subseteq All(f, a) BY <1>1, <1>3, <1>5, <1>6 DEF All
<1> QED BY <1>4, <1>7 DEF InOrder, g

\* So is one to which the next frame is added, or one of another device.
LEMMA AddedInOrder ==
  ASSUME NEW f \in Seq(Frame), NEW a \in Agents, NEW e \in Frame, InOrder(f, a),
         e[1] = a => All(f, a) = 1..(e[2] - 1)
  PROVE  /\ InOrder(Append(f, e), a)
         /\ All(Append(f, e), a) = IF e[1] = a THEN 1..e[2] ELSE All(f, a)
<1> DEFINE g == Append(f, e)
           n == Len(f)
<1>0. n \in Nat /\ DOMAIN f = 1..n BY LenProperties
<1>1. /\ g \in Seq(Frame) /\ Len(g) = n + 1 /\ DOMAIN g = 1..n + 1
      /\ \A i \in 1..n : g[i] = f[i]
      /\ g[n + 1] = e
  BY <1>0, AppendProperties, LenProperties
<1> HIDE DEF g, n
<1>2. \A k \in 0..n : NumbersOf(g, a, k) = NumbersOf(f, a, k)
  <2> SUFFICES ASSUME NEW k \in 0..n PROVE NumbersOf(g, a, k) = NumbersOf(f, a, k) OBVIOUS
  <2>1. \A i \in 1..k : g[i] = f[i] BY <1>0, <1>1
  <2> QED BY <2>1 DEF NumbersOf
<1>3. NumbersOf(g, a, n) = All(f, a) BY <1>0, <1>2 DEF All, n
<1>4. ASSUME NEW i \in DOMAIN g, g[i][1] = a PROVE NumbersOf(g, a, i - 1) = 1..(g[i][2] - 1)
  <2>1. CASE i = n + 1
    <3>1. i - 1 = n BY <1>0, <2>1
    <3> QED BY <1>1, <1>3, <1>4, <2>1, <3>1
  <2>2. CASE i # n + 1
    <3>1. i \in 1..n /\ i - 1 \in 0..n BY <1>0, <1>1, <2>2
    <3>2. NumbersOf(f, a, i - 1) = 1..(f[i][2] - 1) BY <1>0, <1>1, <1>4, <3>1 DEF InOrder
    <3> QED BY <1>1, <1>2, <3>1, <3>2
  <2> QED BY <2>1, <2>2
<1>5. All(g, a) = IF e[1] = a THEN 1..e[2] ELSE All(f, a)
  <2>1. All(g, a) = NumbersOf(g, a, n) \cup (IF e[1] = a THEN {e[2]} ELSE {})
    <3>1. 1..n + 1 = (1..n) \cup {n + 1} BY <1>0
    <3>2. All(g, a) = {g[i][2] : i \in {j \in (1..n) \cup {n + 1} : g[j][1] = a}}
      BY <1>1, <3>1 DEF All, NumbersOf
    <3> QED BY <1>1, <3>2 DEF NumbersOf
  <2>2. CASE e[1] = a
    <3>1. e[2] \in Nat /\ e[2] >= 1 BY ConstantsAssumption DEF Frame
    <3>2. All(g, a) = 1..(e[2] - 1) \cup {e[2]} BY <1>3, <2>1, <2>2
    <3> QED BY <2>2, <3>1, <3>2
  <2> QED BY <1>3, <2>1, <2>2
<1> QED BY <1>4, <1>5 DEF InOrder, g

\* A callback that relays a frame goes on until the pairing has it.
LEMMA RelayLasts ==
  ASSUME Shape, Begun, [Next]_vars, ~ServerRestart, NEW a \in Agents, handler[a].at = "relaying"
  PROVE  handler'[a] = handler[a] \/ ToViewer(a)
<1>0. a \in Sockets /\ a \notin Viewers BY ConstantsAssumption DEF Sockets
<1> SUFFICES ASSUME handler'[a] # handler[a] PROVE ToViewer(a) OBVIOUS
<1>1. ~(Handshake(a) \/ Connected(a) \/ AgentOpened(a) \/ Receive(a))
  <2>1. ~Connected(a) /\ ~AgentOpened(a) /\ ~Receive(a)
    BY DEF Connected, ConnectedRead, ConnectedCommit, AgentOpened, AgentFetch, AgentCheck,
       AgentAttach, AgentSchedule, Receive, Idle
  <2>2. ~Handshake(a) BY <1>0 DEF Handshake, Begun
  <2> QED BY <2>1, <2>2
<1> QED BY <1>0, <1>1, Moves

\* What is relayed of a device grows with the frame that its callback hands over.
LEMMA RelayedGrows ==
  ASSUME Shape, Wide, Begun, [Next]_vars, ~ServerRestart, entry # None, NEW a \in Agents,
         handler[a].at = "relaying" => handler[a].ref = entry
  PROVE  /\ Relayed(a) \in Nat /\ Relayed(a)' \in Nat /\ Relayed(a) <= Relayed(a)'
         /\ ToViewer(a) => Relayed(a)' = sent[a] /\ Relayed(a) = sent[a] - 1
         /\ ~ToViewer(a) => Relayed(a)' = Relayed(a)
         /\ handler'[a].at = "relaying" => handler'[a].ref = entry
<1>0. sent[a] \in Nat /\ (handler[a].at = "relaying" => sent[a] >= 1) /\ a \in Sockets
  BY DEF Wide, Sockets
<1>1. CASE ToViewer(a)
  <2>1. handler'[a].at = "serving" /\ handler[a].at = "relaying" /\ sent'[a] = sent[a]
    BY <1>1, RelayEnds DEF Serving
  <2> QED BY <1>0, <1>1, <2>1 DEF Relayed
<1>2. CASE Receive(a)
  <2>1. /\ handler[a].at = "serving" /\ sent'[a] = sent[a] + 1
        /\ handler'[a].at = "relaying" /\ handler'[a].ref = entry
    BY <1>2, Received DEF Shape
  <2>2. ~ToViewer(a) BY <2>1 DEF ToViewer
  <2> QED BY <1>0, <2>1, <2>2 DEF Relayed
<1>3. CASE ~ToViewer(a) /\ ~Receive(a)
  <2>1. sent'[a] = sent[a] /\ (handler'[a].at = "relaying" => handler'[a] = handler[a])
    BY <1>3, Counts
  <2>2. handler[a].at = "relaying" => handler'[a] = handler[a] BY <1>3, RelayLasts
  <2>3. (handler'[a].at = "relaying") <=> (handler[a].at = "relaying") BY <2>1, <2>2
  <2>4. Relayed(a)' = Relayed(a) BY <2>1, <2>3 DEF Relayed
  <2>5. Relayed(a) \in Nat BY <1>0 DEF Relayed
  <2> QED BY <1>3, <2>1, <2>4, <2>5
<1> QED BY <1>1, <1>2, <1>3

\* The device of the pairing in the map was there before the step, or attaches in it.
LEMMA StepOrderly ==
  ASSUME Shape, Held, Wide, Begun, Fresh, Blank, Silent, Passed, Locked, Orderly, [Next]_vars
  PROVE  Orderly'
<1> SUFFICES ASSUME NEW a \in Agents, entry' # None, tunnel'[entry'].agent = a
             PROVE  /\ InOrder(Frames(entry)', a)
                    /\ All(Frames(entry)', a) \subseteq 1..Relayed(a)'
                    /\ Unlocked(entry)' => All(Frames(entry)', a) = 1..Relayed(a)'
                    /\ handler'[a].at = "relaying" => handler'[a].ref = entry'
  BY DEF Orderly, All, InOrder, NumbersOf
<1>0. a # None /\ a \in Sockets /\ ~ServerRestart BY ConstantsAssumption DEF ServerRestart, Sockets
<1>1. entry' = entry /\ entry \in Agents
  <2> SUFFICES ASSUME entry' # entry PROVE FALSE BY DEF Shape
  <2>1. entry' \in Agents /\ New(entry') /\ UNCHANGED tunnel BY EntryNew
  <2>2. tunnel[entry'].agent = None BY <2>1 DEF Fresh, New
  <2> QED BY <1>0, <2>1, <2>2
<1> DEFINE t == entry
           f == Frames(t)
           g == Frames(t)'
<1>2. /\ f \in Seq(Frame) /\ g \in Seq(Frame)
  <2>1. f \in Seq(Frame) BY <1>1, FramesAre
  <2>2. out'[t] \in Seq(Frame) /\ tunnel'[t].backlog \in Seq(Frame) BY <1>1, FramesTyped
  <2>3. g = out'[t] \o tunnel'[t].backlog BY <1>1 DEF Frames
  <2>4. g \in Seq(Frame) BY <2>2, <2>3, ConcatProperties
  <2> QED BY <2>1, <2>4
<1>3. Frames(entry)' = g /\ Unlocked(entry)' = Unlocked(t)' OBVIOUS
<1>4. CASE tunnel[t].agent = a
  <2>1. /\ InOrder(f, a) /\ All(f, a) \subseteq 1..Relayed(a)
        /\ Unlocked(t) => All(f, a) = 1..Relayed(a)
        /\ handler[a].at = "relaying" => handler[a].ref = t
    BY <1>0, <1>1, <1>4 DEF Orderly
  <2>2. /\ Relayed(a) \in Nat /\ Relayed(a)' \in Nat /\ Relayed(a) <= Relayed(a)'
        /\ ToViewer(a) => Relayed(a)' = sent[a] /\ Relayed(a) = sent[a] - 1
        /\ ~ToViewer(a) => Relayed(a)' = Relayed(a)
        /\ handler'[a].at = "relaying" => handler'[a].ref = t
    BY <1>0, <1>1, <2>1, RelayedGrows
  <2>3. FramesGrow(t) BY <1>0, <1>1, FramesGrowAll
  <2>4. Unlocked(t)' => Unlocked(t)
    <3>1. ASSUME NEW c \in Closers, closer[c].lock = t PROVE closer'[c].lock = entry'
      BY <1>0, <1>1, <3>1, LockStays
    <3> QED BY <1>1, <3>1 DEF Unlocked
  <2> HIDE DEF f, g
  <2>5. CASE g = f /\ ~ToViewer(a)
    BY <1>1, <1>3, <2>1, <2>2, <2>4, <2>5
  <2>6. ASSUME NEW b \in Agents, ToViewer(b), Unlocked(t), g = Append(f, <<b, sent[b]>>)
        PROVE  InOrder(g, a) /\ All(g, a) = 1..Relayed(a)'
    <3> DEFINE e == <<b, sent[b]>>
    <3>1. e \in Frame /\ e[1] = b /\ e[2] = sent[b]
      <4>1. sent[b] \in 1..MaxFrames BY <2>6, RelayEnds DEF Wide
      <4> QED BY <4>1 DEF Frame
    <3>2. b # a => ~ToViewer(a)
      <4> SUFFICES ASSUME b # a, ToViewer(a) PROVE FALSE OBVIOUS
      <4>1. handler[a].at = "relaying" /\ handler'[a] = Serving BY RelayEnds
      <4>2. handler'[a] = handler[a] BY <1>0, <2>6, RelayEnds
      <4> QED BY <4>1, <4>2 DEF Serving
    <3>3. e[1] = a => All(f, a) = 1..(e[2] - 1) BY <2>1, <2>2, <2>6, <3>1
    <3>4. g = Append(f, e) BY <2>6
    <3> HIDE DEF e
    <3>5. InOrder(g, a) /\ All(g, a) = IF e[1] = a THEN 1..e[2] ELSE All(f, a)
      BY <1>2, <2>1, <3>1, <3>3, <3>4, AddedInOrder
    <3> QED BY <2>1, <2>2, <2>6, <3>1, <3>2, <3>5
  <2>7. ASSUME NEW n \in 0..Len(f), g = SubSeq(f, 1, n),
               \E c \in Closers : closer'[c].lock = t /\ closer'[c].at = "remove"
        PROVE  InOrder(g, a) /\ All(g, a) \subseteq 1..Relayed(a)' /\ ~Unlocked(t)'
    <3>1. InOrder(g, a) /\ All(g, a) \subseteq All(f, a) BY <1>2, <2>1, <2>7, BeginsInOrder
    <3>2. 1..Relayed(a) \subseteq 1..Relayed(a)' BY <2>2
    <3>3. ~Unlocked(t)' BY <1>1, <2>7 DEF Unlocked
    <3> QED BY <2>1, <3>1, <3>2, <3>3
  <2>8. \/ g = f /\ ~ToViewer(a)
        \/ \E b \in Agents : ToViewer(b) /\ Unlocked(t) /\ g = Append(f, <<b, sent[b]>>)
        \/ /\ \E n \in 0..Len(f) : g = SubSeq(f, 1, n)
           /\ \E c \in Closers : closer'[c].lock = t /\ closer'[c].at = "remove"
    <3>1. ToViewer(a) => handler[a].ref = t BY <2>1, RelayEnds
    <3> QED BY <2>3, <3>1 DEF FramesGrow, f, g
  <2> QED BY <1>1, <1>3, <2>2, <2>5, <2>6, <2>7, <2>8
<1>5. CASE tunnel[t].agent # a
  <2>1. AgentAttach(a) /\ Coming(a)
    <3>1. ~SameTimer(t) BY <1>1, <1>5 DEF SameTimer
    <3>2. entry' # None BY <1>0
    <3> QED BY <1>0, <1>1, <1>5, <3>1, <3>2, PairingMoves DEF AgentAttach, Coming
  <2>2. sent[a] = 0 /\ \A i \in DOMAIN f : f[i][1] # a BY <1>1, <2>1 DEF Silent
  <2>3. handler'[a].at = "attached" /\ handler[a].at = "accepted"
    BY <1>0, <2>1 DEF AgentAttach, Goto, Shape
  <2>4. ~ToViewer(a) /\ ~Receive(a) BY <2>3 DEF ToViewer, Receive, Idle
  <2>5. sent'[a] = 0 BY <2>2, <2>4, Counts
  <2>6. \A i \in DOMAIN g : g[i][1] # a
    BY <1>0, <1>1, <2>2, <2>4, NoNewFrames
  <2>7. DOMAIN g = 1..Len(g) /\ Len(g) \in Nat BY <1>2, LenProperties
  <2> HIDE DEF g, f
  <2>8. InOrder(g, a) /\ All(g, a) = {} BY <2>6, <2>7 DEF InOrder, All, NumbersOf
  <2>9. Relayed(a)' = 0 BY <2>3, <2>5 DEF Relayed
  <2>10. 1..0 = {} OBVIOUS
  <2> QED BY <1>3, <2>3, <2>8, <2>9, <2>10
<1> QED BY <1>4, <1>5

\* What of the frames and their bounds is inductive.
FramesInv ==
  Shape /\ Held /\ Wide /\ Begun /\ Fresh /\ Blank /\ Silent /\ Passed /\ Locked /\ Bounded /\ Orderly

LEMMA InitFrames == ASSUME Init PROVE FramesInv
<1>1. /\ \A s \in Sockets : handler[s] = Serving /\ conn[s] = "new"
      /\ \A c \in Closers : closer[c] = Rest
      /\ \A a \in Agents : tunnel[a] = NoTunnel /\ out[a] = <<>> /\ sent[a] = 0
      /\ entry = None /\ reason = None /\ late = FALSE /\ gone = {} /\ left = {}
  BY DEF Init
<1>2. Agents \subseteq Sockets /\ None \notin Agents /\ MaxFrames \in Nat /\ MaxBacklog \in Nat
  BY ConstantsAssumption DEF Sockets
<1>3. Held BY <1>1, <1>2 DEF Held, Serving, Rest
<1>4. Wide
  <2>1. sent \in [Agents -> 0..MaxFrames] /\ out \in [Agents -> Seq(Frame)]
    BY <1>2, EmptySeq DEF Init
  <2>2. \A t \in Agents : tunnel[t].backlog \in Seq(Frame)
    <3>1. \A t \in Agents : tunnel[t].backlog = <<>> BY <1>1 DEF NoTunnel
    <3>2. <<>> \in Seq(Frame) BY EmptySeq
    <3> QED BY <3>1, <3>2
  <2>3. \A a \in Agents : handler[a].at # "relaying" BY <1>1, <1>2 DEF Serving
  <2> QED BY <1>1, <2>1, <2>2, <2>3 DEF Wide
<1>5. Blank BY <1>1, <1>2 DEF Blank, NoTunnel, Rest
<1>6. \A t \in Agents : Frames(t) = <<>> /\ DOMAIN Frames(t) = {}
  <2>1. \A t \in Agents : Frames(t) = <<>> \o <<>> BY <1>1 DEF Frames, NoTunnel
  <2>2. <<>> \o <<>> = <<>> /\ DOMAIN <<>> = 1..0
    <3>1. <<>> \in Seq(Frame) BY EmptySeq
    <3> QED BY <3>1, ConcatEmptySeq, EmptySeq, LenProperties
  <2>3. 1..0 = {} OBVIOUS
  <2> QED BY <2>1, <2>2, <2>3
<1>7. Silent BY <1>1, <1>6 DEF Silent
<1>8. Passed BY <1>1 DEF Passed, NoTunnel
<1>9. Locked /\ Orderly BY <1>1 DEF Locked, Orderly
<1>10. Bounded
  <2>1. \A t \in Agents : Len(tunnel[t].backlog) = 0 BY <1>1, EmptySeq DEF NoTunnel
  <2> QED BY <1>2, <2>1 DEF Bounded
<1> QED BY <1>3, <1>4, <1>5, <1>7, <1>8, <1>9, <1>10, InitShape, InitTimed DEF FramesInv

LEMMA StepFrames == ASSUME FramesInv, [Next]_vars PROVE FramesInv'
BY StepShape, StepHeld, StepWide, StepBegun, StepFresh, StepBlank, StepSilent, StepPassed, StepLocked,
   StepBounded, StepOrderly DEF FramesInv

\* Every variable has its type, and a backlog never holds more than fits and one frame of
\* each device connection.
THEOREM TunnelTyped == Spec => []TypeOK
<1>1. FramesInv => TypeOK
  <2> SUFFICES ASSUME FramesInv PROVE TypeOK OBVIOUS
  <2>1. Shape /\ Wide /\ Bounded BY DEF FramesInv
  <2>2. ASSUME NEW t \in Agents
        PROVE  tunnel[t] \in [agent : Agents \cup {None}, viewer : Viewers \cup {None},
                              backlog : Seq(Frame), expiry : {"none", "set", "over"}]
    BY <2>1 DEF Shape, Pairing, Wide
  <2>3. ASSUME NEW t \in Agents PROVE Len(tunnel[t].backlog) <= MaxBacklog + Cardinality(Agents)
    <3>1. Cardinality(Agents) \in Nat /\ MaxBacklog \in Nat /\ Len(tunnel[t].backlog) \in Nat
      BY <2>1, ConstantsAssumption, FS_CardinalityType, LenProperties DEF Wide
    <3>2. Cardinality(MayKeep(t)) \in Nat
      <4>1. MayKeep(t) \subseteq Agents BY DEF MayKeep
      <4> QED BY <4>1, ConstantsAssumption, FS_Subset, FS_CardinalityType
    <3> QED BY <2>1, <3>1, <3>2 DEF Bounded
  <2> QED BY <2>1, <2>2, <2>3 DEF TypeOK, Shape, Wide, Points, Calls
<1> QED BY <1>1, InitFrames, StepFrames, PTL DEF Spec

\* A viewer sees the frames of the device in their order, from the first one on, and
\* nothing is missing while the session is open.
THEOREM FramesKeepOrder == Spec => []FramesInOrder
<1>1. FramesInv => FramesInOrder
  <2> SUFFICES ASSUME FramesInv, NEW a \in Agents, entry # None, tunnel[entry].agent = a
               PROVE  /\ InOrder(Frames(entry), a)
                      /\ All(Frames(entry), a) \subseteq 1..sent[a]
                      /\ (handler[a].at = "serving" /\ \A c \in Closers : closer[c].at # "remove")
                         => All(Frames(entry), a) = 1..sent[a]
    BY DEF FramesInOrder, All
  <2>1. Shape /\ Locked /\ Orderly BY DEF FramesInv
  <2>2. /\ InOrder(Frames(entry), a) /\ All(Frames(entry), a) \subseteq 1..Relayed(a)
        /\ Unlocked(entry) => All(Frames(entry), a) = 1..Relayed(a)
    BY <2>1 DEF Orderly
  <2>3. sent[a] \in Nat /\ 1..Relayed(a) \subseteq 1..sent[a] BY <2>1 DEF Shape, Relayed
  <2>4. (\A c \in Closers : closer[c].at # "remove") => Unlocked(entry) BY <2>1 DEF Locked, Unlocked
  <2>5. handler[a].at = "serving" => Relayed(a) = sent[a] BY DEF Relayed
  <2> QED BY <2>2, <2>3, <2>4, <2>5
<1> QED BY <1>1, InitFrames, StepFrames, PTL DEF Spec
=============================================================================
