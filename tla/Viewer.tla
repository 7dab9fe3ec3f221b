------------------------------- MODULE Viewer -------------------------------
(***************************************************************************)
(* The page of a remote session: the screen (RemoteView) or the terminal   *)
(* (DeviceShell) of one device, for one operator.                          *)
(*                                                                         *)
(* Opening is a POST that returns the operator's waiting session or makes  *)
(* one, kept as a query; a second query polls the session's status, and an *)
(* effect of that query's data attaches the socket.  The server is reduced *)
(* to the life of the session rows; Tunnel has the sockets behind them.    *)
(***************************************************************************)
EXTENDS Naturals, Sequences

CONSTANTS
  MaxSessions,  \* bound on the sessions that the server makes
  MaxClicks,    \* bound on the operator's clicks
  MaxFaults,    \* bound on the requests that fail
  Happenings    \* what may happen besides: "focus", "other tab", "disconnect", "leave"

ASSUME ViewerAssumption ==
  /\ MaxSessions \in Nat \ {0} /\ MaxClicks \in Nat /\ MaxFaults \in Nat
  /\ Happenings \subseteq {"focus", "other tab", "disconnect", "leave"}

VARIABLES
  session,    \* the operator's RemoteSession rows for the device: their status
  open,       \* the open query: its request, data (a session), error, invalidation
  strays,     \* POSTs that the page gave up and the server may still serve
  seen,       \* the cached status of the session that is shown
  poll,       \* the status request on its way
  ending,     \* the DELETE on its way
  socket,     \* rfbRef or wsRef: the session it was made for, and its state
  here,       \* the page is mounted
  wanted,     \* the operator asked for a session and has not ended it (history)
  refocused,  \* the window got the focus back after a session was ended (history)
  overtaken,  \* an older status replaced "CLOSED" (history)
  clicks, faults

vars == <<session, open, strays, seen, poll, ending, socket, here, wanted, refocused,
          overtaken, clicks, faults>>

-----------------------------------------------------------------------------
None == 0
Rows == DOMAIN session
IsOpen(s) == session[s] # "CLOSED"

NoPoll   == [phase |-> "idle", status |-> "none"]
NoSocket == [of |-> None, state |-> "none"]
Calm     == [phase |-> "idle", of |-> None]

Closed    == seen = "CLOSED"
Connected == socket.state = "open"
Waiting   == here /\ ~Closed /\ ~Connected /\ ~open.isError

\* The first render asks for a session.
Init ==
  /\ session = << >>
  /\ open = [phase |-> "sent", answer |-> None, data |-> None,
             isError |-> FALSE, invalidated |-> FALSE]
  /\ strays = 0 /\ seen = "none" /\ poll = NoPoll /\ ending = Calm /\ socket = NoSocket
  /\ here = TRUE /\ wanted = TRUE /\ refocused = FALSE /\ overtaken = FALSE
  /\ clicks = 0 /\ faults = 0

-----------------------------------------------------------------------------
(* The server.                                                             *)

Reusable == {s \in Rows : session[s] \in {"PENDING", "AGENT_CONNECTED"}}

\* RemoteSessionService.open, with its lock on the device; `s` is what it returns.
OpenSession(s) ==
  \/ s \in Reusable /\ UNCHANGED session
  \/ /\ Reusable = {} /\ Len(session) < MaxSessions
     /\ session' = Append(session, "PENDING") /\ s = Len(session')

ServeOpen ==
  /\ open.phase = "sent"
  /\ \E s \in 1..MaxSessions :
       OpenSession(s) /\ open' = [open EXCEPT !.phase = "answered", !.answer = s]
  /\ UNCHANGED <<strays, seen, poll, ending, socket, here, wanted, refocused, overtaken,
                 clicks, faults>>

ServeStray ==
  /\ strays > 0 /\ strays' = strays - 1
  /\ \E s \in 1..MaxSessions : OpenSession(s)
  /\ UNCHANGED <<open, seen, poll, ending, socket, here, wanted, refocused, overtaken,
                 clicks, faults>>

ServerUnchanged == UNCHANGED <<open, strays, seen, poll, ending, here, wanted, refocused,
                               overtaken, clicks, faults>>

\* The device's agent dials its tunnel.
AgentConnects(s) ==
  /\ session[s] = "PENDING" /\ session' = [session EXCEPT ![s] = "AGENT_CONNECTED"]
  /\ UNCHANGED socket /\ ServerUnchanged

\* Closing the row closes the viewer's socket.
Cut(s) == IF socket.of = s /\ socket.state = "open"
          THEN [socket EXCEPT !.state = "lost"] ELSE socket

End(s) == IsOpen(s) /\ session' = [session EXCEPT ![s] = "CLOSED"] /\ socket' = Cut(s)

\* The time limit passes; expireStale, which every read of a session runs first.
TimeLimit(s) == End(s) /\ ServerUnchanged

\* The device goes away.
DeviceLeaves(s) ==
  "disconnect" \in Happenings /\ session[s] # "PENDING" /\ End(s) /\ ServerUnchanged

\* The operator has the page open in another tab, whose socket comes first.
OtherTab(s) ==
  /\ "other tab" \in Happenings /\ session[s] = "AGENT_CONNECTED"
  /\ session' = [session EXCEPT ![s] = "ACTIVE"]
  /\ UNCHANGED socket /\ ServerUnchanged

\* TunnelHandshakeInterceptor.allowed for a viewer, then viewerConnected.
Handshake ==
  /\ socket.state = "connecting"
  /\ IF session[socket.of] = "AGENT_CONNECTED"
     THEN /\ session' = [session EXCEPT ![socket.of] = "ACTIVE"]
          /\ socket' = [socket EXCEPT !.state = "open"]
     ELSE socket' = [socket EXCEPT !.state = "lost"] /\ UNCHANGED session
  /\ ServerUnchanged

\* The viewer's connection breaks: the session is over.
ViewerDrops ==
  /\ "disconnect" \in Happenings /\ Connected
  /\ End(socket.of) /\ ServerUnchanged

-----------------------------------------------------------------------------
(* The page.                                                               *)

\* The effect of [session]: it runs when the cached session is another object, which
\* an equal answer does not make it.
Attach(s, status) ==
  socket' = IF status # seen /\ status = "AGENT_CONNECTED" /\ socket.of = None
            THEN [of |-> s, state |-> "connecting"] ELSE socket

\* A session id that was not shown before has nothing cached.
Opened ==
  /\ open.phase = "answered"
  /\ open' = [open EXCEPT !.phase = "idle", !.answer = None, !.data = open.answer,
                          !.isError = FALSE, !.invalidated = FALSE]
  /\ IF open.answer = open.data THEN UNCHANGED <<seen, poll>>
     ELSE seen' = "none" /\ poll' = NoPoll
  /\ UNCHANGED <<session, strays, ending, socket, here, wanted, refocused, overtaken,
                 clicks, faults>>

\* retry: false; the data of the last success stays.
OpenFails ==
  /\ open.phase # "idle" /\ faults < MaxFaults /\ faults' = faults + 1
  /\ open' = [open EXCEPT !.phase = "idle", !.answer = None, !.isError = TRUE]
  /\ UNCHANGED <<session, strays, seen, poll, ending, socket, here, wanted, refocused,
                 overtaken, clicks>>

\* Mutant: the interval also stops once the session is in use.
PollsWhileOpening == seen \notin {"ACTIVE", "CLOSED"}

\* refetchInterval: two seconds, until the session is closed.
Polls == seen # "CLOSED"

AskStatus ==
  /\ here /\ open.data # None /\ poll.phase = "idle" /\ Polls
  /\ poll' = [phase |-> "asked", status |-> "none"]
  /\ UNCHANGED <<session, open, strays, seen, ending, socket, here, wanted, refocused,
                 overtaken, clicks, faults>>

ReadStatus ==
  /\ poll.phase = "asked"
  /\ poll' = [phase |-> "answered", status |-> session[open.data]]
  /\ UNCHANGED <<session, open, strays, seen, ending, socket, here, wanted, refocused,
                 overtaken, clicks, faults>>

ShowStatus ==
  /\ poll.phase = "answered" /\ poll' = NoPoll
  /\ seen' = poll.status /\ Attach(open.data, poll.status)
  /\ overtaken' = (overtaken \/ (Closed /\ poll.status # "CLOSED"))
  /\ UNCHANGED <<session, open, strays, ending, here, wanted, refocused, clicks, faults>>

PollFails ==
  /\ poll.phase # "idle" /\ faults < MaxFaults /\ faults' = faults + 1
  /\ poll' = NoPoll
  /\ UNCHANGED <<session, open, strays, seen, ending, socket, here, wanted, refocused,
                 overtaken, clicks>>

-----------------------------------------------------------------------------
Click == here /\ clicks < MaxClicks /\ clicks' = clicks + 1

\* Observer.refetch gives up a request on its way if there is data already.
Refetch ==
  /\ open' = [open EXCEPT !.phase = "sent", !.answer = None]
  /\ strays' = IF open.phase = "sent" /\ open.data # None THEN strays + 1 ELSE strays

\* Mutant: the reference to the old viewer stays.
KeepViewer == socket

Forget == NoSocket

StartNewSession ==
  /\ Click /\ Closed
  /\ socket' = Forget
  /\ Refetch /\ wanted' = TRUE
  /\ UNCHANGED <<session, seen, poll, ending, here, refocused, overtaken, faults>>

TryAgain ==
  /\ Click /\ open.isError
  /\ Refetch /\ wanted' = TRUE
  /\ UNCHANGED <<session, seen, poll, ending, socket, here, refocused, overtaken, faults>>

EndSession ==
  /\ Click /\ open.data # None /\ ~Closed /\ ending = Calm
  /\ ending' = [phase |-> "sent", of |-> open.data]
  /\ UNCHANGED <<session, open, strays, seen, poll, socket, here, wanted, refocused,
                 overtaken, faults>>

ServeEnd ==
  /\ ending.phase = "sent"
  /\ ending' = [ending EXCEPT !.phase = "answered"]
  /\ IF IsOpen(ending.of) THEN End(ending.of) ELSE UNCHANGED <<session, socket>>
  /\ UNCHANGED <<open, strays, seen, poll, here, wanted, refocused, overtaken, clicks, faults>>

\* Mutant: the invalidation also refetches the open query.
RefetchAtOnce ==
  open' = [open EXCEPT !.invalidated = TRUE,
                       !.phase = IF open.phase = "idle" THEN "sent" ELSE open.phase]

\* refetchType: none; the query is stale from now on, whatever its staleTime.
Invalidate == open' = [open EXCEPT !.invalidated = TRUE]

\* A status that was read before and is still on its way is not cancelled.
Ended ==
  /\ ending.phase = "answered" /\ ending' = Calm
  /\ seen' = IF ending.of = open.data THEN "CLOSED" ELSE seen
  /\ Invalidate
  /\ wanted' = (open.phase # "idle" \/ strays > 0)
  /\ UNCHANGED <<session, strays, poll, socket, here, refocused, overtaken, clicks, faults>>

EndFails ==
  /\ ending.phase # "idle" /\ faults < MaxFaults /\ faults' = faults + 1
  /\ ending' = Calm
  /\ UNCHANGED <<session, open, strays, seen, poll, socket, here, wanted, refocused,
                 overtaken, clicks>>

\* refetchOnWindowFocus is not switched off: a stale query is fetched again, unless
\* it is being fetched.
Focus ==
  /\ "focus" \in Happenings /\ here /\ open.phase = "idle"
  /\ open.data = None \/ open.invalidated
  /\ open' = [open EXCEPT !.phase = "sent"]
  /\ refocused' = (refocused \/ open.invalidated)
  /\ UNCHANGED <<session, strays, seen, poll, ending, socket, here, wanted, overtaken,
                 clicks, faults>>

\* The cleanup disconnects the socket, which ends the session.
Leave ==
  /\ "leave" \in Happenings /\ here /\ here' = FALSE
  /\ IF Connected THEN End(socket.of) ELSE UNCHANGED <<session, socket>>
  /\ UNCHANGED <<open, strays, seen, poll, ending, wanted, refocused, overtaken, clicks, faults>>

-----------------------------------------------------------------------------
Next ==
  \/ \E s \in Rows : AgentConnects(s) \/ TimeLimit(s) \/ DeviceLeaves(s) \/ OtherTab(s)
  \/ ServeOpen \/ ServeStray \/ Handshake \/ ViewerDrops
  \/ Opened \/ OpenFails \/ AskStatus \/ ReadStatus \/ ShowStatus \/ PollFails
  \/ StartNewSession \/ TryAgain \/ EndSession \/ ServeEnd \/ Ended \/ EndFails
  \/ Focus \/ Leave

Spec == Init /\ [][Next]_vars

\* Requests are served and answered, the interval fires, the time limit passes.
Fairness ==
  /\ WF_vars(ServeOpen) /\ WF_vars(Opened)
  /\ WF_vars(AskStatus) /\ WF_vars(ReadStatus) /\ WF_vars(ShowStatus)
  /\ WF_vars(Handshake)
  /\ \A s \in 1..MaxSessions : WF_vars(s \in Rows /\ TimeLimit(s))

FairSpec == Spec /\ Fairness

-----------------------------------------------------------------------------
Statuses == {"PENDING", "AGENT_CONNECTED", "ACTIVE", "CLOSED"}
Ids == None..Len(session)

TypeOK ==
  /\ \A s \in Rows : session[s] \in Statuses
  /\ open.phase \in {"idle", "sent", "answered"} /\ open.answer \in Ids /\ open.data \in Ids
  /\ seen \in Statuses \cup {"none"}
  /\ poll.phase \in {"idle", "asked", "answered"} /\ poll.status \in Statuses \cup {"none"}
  /\ ending.phase \in {"idle", "sent", "answered"} /\ ending.of \in Ids
  /\ socket.of \in Ids /\ socket.state \in {"none", "connecting", "open", "lost"}
  /\ strays \in Nat /\ {here, refocused, overtaken} \subseteq BOOLEAN

Opens == Len(session') > Len(session)

\* "Ending the session does not immediately open a new one": no session is made for an
\* operator who ended the last one and did not ask for another, as long as the window
\* keeps the focus: the invalidated query is fetched again when it gets it back.
OpenedOnPurpose == [][Opens => wanted \/ refocused]_vars

\* A page whose device is connected has no socket of an earlier session left that
\* would keep it from attaching, except after a focus brought the session or after
\* an older status replaced the closed one.
ReadyToAttach ==
  seen = "AGENT_CONNECTED" /\ socket.of \notin {None, open.data} => refocused \/ overtaken

\* A page does not wait forever: it is connected, or told why not.
WaitingEnds == Waiting ~> ~Waiting

=============================================================================
