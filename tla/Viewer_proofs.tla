---------------------------- MODULE Viewer_proofs ----------------------------
(***************************************************************************)
(* Sessions are opened on purpose, and a page is ready for the one it has, *)
(* and the types: proved for any number of sessions, clicks and faults.    *)
(***************************************************************************)
EXTENDS Viewer, TLAPS

Shape ==
  /\ open \in [phase : {"idle", "sent", "answered"}, answer : Nat, data : Nat,
               isError : BOOLEAN, invalidated : BOOLEAN]
  /\ strays \in Nat
  /\ socket \in [of : Nat, state : {"none", "connecting", "open", "lost"}]
  /\ ending \in [phase : {"idle", "sent", "answered"}, of : Nat]

\* A request to open that is on its way was asked for; a page that never had a session
\* has not ended one.
Purpose ==
  /\ open.phase # "idle" \/ strays > 0 => wanted \/ refocused
  /\ open.data = None => wanted /\ ending.phase = "idle"
  /\ open.phase = "answered" => open.answer # None

\* A page that asks for another session has forgotten the socket of the last one.
Ready ==
  refocused \/ overtaken
    \/ /\ socket.of \in {None, open.data}
       /\ (open.phase # "idle" \/ open.isError) /\ open.data # None =>
            seen = "CLOSED" /\ socket.of = None

ViewerInv == Shape /\ Purpose /\ Ready

\* The page starts with a request of its own and no socket.
LEMMA ViewerInitial == Init => ViewerInv
  BY DEF Init, ViewerInv, Shape, Purpose, Ready, NoSocket, Calm, None

\* A session that the server returns has a number.
LEMMA SomeSession == ASSUME NEW s \in 1..MaxSessions PROVE s \in Nat /\ s # None
<1>1. MaxSessions \in Nat
  BY ViewerAssumption
<1>2. QED BY <1>1 DEF None

\* The server's steps leave the page alone, but for its socket's state.
LEMMA ServerStep ==
  ASSUME ViewerInv,
         \/ \E s \in Rows : AgentConnects(s) \/ TimeLimit(s) \/ DeviceLeaves(s) \/ OtherTab(s)
         \/ ServeStray \/ Handshake \/ ViewerDrops
  PROVE  ViewerInv'
<1> USE DEF ViewerInv, Shape, None
<1>1. /\ open' = open /\ ending' = ending /\ seen' = seen
      /\ wanted' = wanted /\ refocused' = refocused /\ overtaken' = overtaken
      /\ strays' \in Nat /\ (strays' > 0 => strays > 0)
  <2>1. CASE ServeStray
    BY <2>1 DEF ServeStray
  <2>2. CASE ServerUnchanged
    BY <2>2 DEF ServerUnchanged
  <2>3. QED
    BY <2>1, <2>2 DEF AgentConnects, TimeLimit, DeviceLeaves, OtherTab, Handshake, ViewerDrops
<1>2. socket' \in [of : Nat, state : {"none", "connecting", "open", "lost"}]
      /\ socket'.of = socket.of
  BY DEF AgentConnects, TimeLimit, DeviceLeaves, OtherTab, ServeStray, Handshake, ViewerDrops,
         End, Cut
<1>3. QED BY <1>1, <1>2 DEF Purpose, Ready

\* The page's steps, and the steps of its requests.
LEMMA ViewerStep == ViewerInv /\ [Next]_vars => ViewerInv'
<1> SUFFICES ASSUME ViewerInv, [Next]_vars PROVE ViewerInv'
  OBVIOUS
<1> USE DEF ViewerInv, Shape, Purpose, Ready, None, NoSocket, Calm
<1>1. CASE \/ \E s \in Rows : \/ AgentConnects(s) \/ TimeLimit(s)
                              \/ DeviceLeaves(s) \/ OtherTab(s)
           \/ ServeStray \/ Handshake \/ ViewerDrops
  BY <1>1, ServerStep
<1>2. CASE ServeOpen
  <2>1. PICK s \in 1..MaxSessions : open' = [open EXCEPT !.phase = "answered", !.answer = s]
    BY <1>2 DEF ServeOpen
  <2>2. s \in Nat /\ s # None
    BY SomeSession
  <2>3. QED BY <1>2, <2>1, <2>2 DEF ServeOpen
<1>3. CASE Opened BY <1>3 DEF Opened
<1>4. CASE OpenFails BY <1>4 DEF OpenFails
<1>5. CASE AskStatus \/ ReadStatus \/ PollFails
  BY <1>5 DEF AskStatus, ReadStatus, PollFails
<1>6. CASE ShowStatus BY <1>6 DEF ShowStatus, Attach, Closed
<1>7. CASE StartNewSession
  <2>1. Shape'
    <3>1. strays' \in Nat BY <1>7 DEF StartNewSession, Refetch
    <3>2. QED BY <3>1, <1>7 DEF StartNewSession, Forget, Refetch
  <2>2. Purpose' BY <1>7 DEF StartNewSession, Forget, Refetch
  <2>3. Ready' BY <1>7 DEF StartNewSession, Forget, Refetch, Closed
  <2>4. QED BY <2>1, <2>2, <2>3
<1>8. CASE TryAgain
  <2>1. Shape'
    <3>1. strays' \in Nat BY <1>8 DEF TryAgain, Refetch
    <3>2. QED BY <3>1, <1>8 DEF TryAgain, Refetch
  <2>2. Purpose' BY <1>8 DEF TryAgain, Refetch
  <2>3. Ready' BY <1>8 DEF TryAgain, Refetch
  <2>4. QED BY <2>1, <2>2, <2>3
<1>9. CASE EndSession BY <1>9 DEF EndSession, Click
<1>10. CASE ServeEnd BY <1>10 DEF ServeEnd, End, Cut
<1>11. CASE Ended BY <1>11 DEF Ended, Invalidate
<1>12. CASE EndFails BY <1>12 DEF EndFails
<1>13. CASE Focus BY <1>13 DEF Focus
<1>14. CASE Leave BY <1>14 DEF Leave, End, Cut
<1>15. CASE UNCHANGED vars BY <1>15 DEF vars
<1>16. QED
  BY <1>1, <1>2, <1>3, <1>4, <1>5, <1>6, <1>7, <1>8, <1>9, <1>10, <1>11, <1>12, <1>13,
     <1>14, <1>15 DEF Next

\* A page whose device is connected has no socket of an earlier session (ReadyToAttach),
\* unless the focus brought the session or an older status replaced the closed one.
THEOREM AlwaysReady == Spec => []ReadyToAttach
<1>1. ViewerInv => ReadyToAttach
  BY DEF ViewerInv, Ready, ReadyToAttach
<1>2. QED BY <1>1, ViewerInitial, ViewerStep, PTL DEF Spec

\* A session is made only for an operator who wants one, or by a focus
\* (OpenedOnPurpose).
THEOREM OpenedForAReason == Spec => OpenedOnPurpose
<1>1. ViewerInv /\ [Next]_vars => [Opens => wanted \/ refocused]_vars
  <2> SUFFICES ASSUME ViewerInv, Next, Opens PROVE wanted \/ refocused
    BY DEF vars
  <2>1. CASE ServeOpen
    BY <2>1 DEF ServeOpen, ViewerInv, Purpose
  <2>2. CASE ServeStray
    BY <2>2 DEF ServeStray, ViewerInv, Purpose
  <2>3. ASSUME NEW s \in Rows,
               AgentConnects(s) \/ TimeLimit(s) \/ DeviceLeaves(s) \/ OtherTab(s)
        PROVE  FALSE
    <3>1. \E status : session' = [session EXCEPT ![s] = status]
      BY <2>3 DEF AgentConnects, TimeLimit, DeviceLeaves, OtherTab, End
    <3>2. QED BY <3>1 DEF Opens
  <2>4. CASE Handshake
    BY <2>4 DEF Handshake, Opens
  <2>5. CASE ViewerDrops \/ ServeEnd \/ Leave
    BY <2>5 DEF ViewerDrops, ServeEnd, Leave, End, Opens
  <2>6. CASE \/ Opened \/ OpenFails \/ AskStatus \/ ReadStatus \/ ShowStatus \/ PollFails
             \/ StartNewSession \/ TryAgain \/ EndSession \/ Ended \/ EndFails \/ Focus
    BY <2>6 DEF Opened, OpenFails, AskStatus, ReadStatus, ShowStatus, PollFails,
       StartNewSession, TryAgain, EndSession, Ended, EndFails, Focus, Opens
  <2>7. QED
    BY <2>1, <2>2, <2>3, <2>4, <2>5, <2>6 DEF Next
<1>2. QED BY <1>1, ViewerInitial, ViewerStep, PTL DEF Spec, OpenedOnPurpose

-----------------------------------------------------------------------------
(* Types *)

\* The rows, and who refers to them: a socket, a DELETE and an answer have a session, and
\* a status is only asked for once there is one.
Reading == [phase : {"idle", "asked", "answered"}, status : Statuses \cup {"none"}]

Referring ==
  /\ session \in Seq(Statuses)
  /\ open.answer \in Ids /\ open.data \in Ids /\ socket.of \in Ids /\ ending.of \in Ids
  /\ socket.state # "none" => socket.of # None
  /\ ending.phase # "idle" => ending.of # None
  /\ poll \in Reading /\ (poll.phase # "idle" => open.data # None)
  /\ seen \in Statuses \cup {"none"}
  /\ here \in BOOLEAN /\ refocused \in BOOLEAN /\ overtaken \in BOOLEAN

\* Sessions are made at the end and never deleted.
LEMMA SessionsStay ==
  ASSUME ViewerInv, Referring, [Next]_vars
  PROVE  session' \in Seq(Statuses) /\ Len(session') >= Len(session)
<1>1. \/ session' = session \/ session' = Append(session, "PENDING")
      \/ \E s \in Rows, status \in Statuses : session' = [session EXCEPT ![s] = status]
  <2>1. CASE \E s \in Rows : AgentConnects(s) \/ TimeLimit(s) \/ DeviceLeaves(s) \/ OtherTab(s)
    BY <2>1 DEF AgentConnects, TimeLimit, DeviceLeaves, OtherTab, End, Statuses
  <2>2. CASE ServeOpen \/ ServeStray
    BY <2>2 DEF ServeOpen, ServeStray, OpenSession
  <2>3. CASE Handshake \/ ViewerDrops \/ ServeEnd \/ Leave
    <3>1. /\ socket.of # None => socket.of \in Rows
          /\ ending.of # None => ending.of \in Rows
      BY DEF Referring, Ids, None, Rows, ViewerInv, Shape
    <3> QED
      <4>1. CASE Handshake
        BY <4>1, <3>1 DEF Handshake, Statuses, Referring
      <4>2. CASE ViewerDrops
        BY <4>2, <3>1 DEF ViewerDrops, End, Connected, Statuses, Referring
      <4>3. CASE ServeEnd
        BY <4>3, <3>1 DEF ServeEnd, End, Statuses, Referring
      <4>4. CASE Leave
        BY <4>4, <3>1 DEF Leave, End, Connected, Statuses, Referring
      <4> QED BY <2>3, <4>1, <4>2, <4>3, <4>4
  <2>4. CASE \/ Opened \/ OpenFails \/ AskStatus \/ ReadStatus \/ ShowStatus \/ PollFails
             \/ StartNewSession \/ TryAgain \/ EndSession \/ Ended \/ EndFails \/ Focus
    BY <2>4 DEF Opened, OpenFails, AskStatus, ReadStatus, ShowStatus, PollFails,
       StartNewSession, TryAgain, EndSession, Ended, EndFails, Focus
  <2>5. CASE UNCHANGED vars
    BY <2>5 DEF vars
  <2> QED BY <2>1, <2>2, <2>3, <2>4, <2>5 DEF Next
<1>2. session \in Seq(Statuses) /\ "PENDING" \in Statuses
  BY DEF Referring, Statuses
<1> QED BY <1>1, <1>2

\* The types of the rows and of the page (TypeOK).
THEOREM ViewerTyped == Spec => []TypeOK
<1>1. Init => Referring
  <2> SUFFICES ASSUME Init PROVE Referring
    OBVIOUS
  <2>1. session = << >> /\ << >> \in Seq(Statuses) /\ Len(session) = 0
    BY DEF Init
  <2>2. None \in Ids /\ NoPoll \in Reading
    BY <2>1 DEF Ids, None, NoPoll, Reading
  <2> QED
    BY <2>1, <2>2 DEF Init, Referring, NoPoll, NoSocket, Calm
<1>2. ViewerInv /\ Referring /\ [Next]_vars => Referring'
  <2> SUFFICES ASSUME ViewerInv, Referring, [Next]_vars PROVE Referring'
    OBVIOUS
  <2>1. session' \in Seq(Statuses) /\ Ids \subseteq Ids'
    <3>1. Len(session) \in Nat
      BY DEF Referring
    <3> QED BY <3>1, SessionsStay DEF Ids, None
  <2>2. ViewerInv' /\ None \in Ids
    BY ViewerStep DEF Ids, None, Referring
  <2>a. "CLOSED" \in Statuses
    BY DEF Statuses
  <2> DEFINE Others ==
        /\ open.answer \in Ids' /\ open.data \in Ids' /\ socket.of \in Ids' /\ ending.of \in Ids'
  <2>b. Others
    BY <2>1 DEF Referring
  <2> USE DEF ViewerInv, Shape, Referring
  <2>3. CASE ServeOpen
    <3>1. PICK s \in 1..MaxSessions : OpenSession(s) /\ open' = [open EXCEPT !.phase = "answered", !.answer = s]
      BY <2>3 DEF ServeOpen
    <3>2. s \in Ids'
      <4>1. CASE s \in Reusable /\ UNCHANGED session
        BY <4>1 DEF Reusable, Rows, Ids, None
      <4>2. CASE session' = Append(session, "PENDING") /\ s = Len(session')
        BY <4>2, <2>1 DEF Ids, None
      <4> QED BY <3>1, <4>1, <4>2 DEF OpenSession
    <3> QED BY <2>1, <2>3, <2>b, <3>1, <3>2 DEF ServeOpen
  <2>4. CASE \/ \E s \in Rows : AgentConnects(s) \/ TimeLimit(s) \/ DeviceLeaves(s) \/ OtherTab(s)
             \/ ServeStray \/ Handshake \/ ViewerDrops
    <3>1. UNCHANGED <<open, seen, poll, ending, here, refocused, overtaken>>
      BY <2>4 DEF AgentConnects, TimeLimit, DeviceLeaves, OtherTab, ServerUnchanged, ServeStray,
                  Handshake, ViewerDrops
    <3>2. socket'.of = socket.of /\ (socket.state = "none" => socket'.state = "none")
      BY <2>4 DEF AgentConnects, TimeLimit, DeviceLeaves, OtherTab, ServeStray,
                  Handshake, ViewerDrops, End, Cut, Connected
    <3> QED BY <2>1, <2>b, <3>1, <3>2
  <2>5. CASE Opened
    <3>1. UNCHANGED <<session, socket, ending, here, refocused, overtaken>>
      BY <2>5 DEF Opened
    <3>2. open'.answer = None /\ open'.data = open.answer
      BY <2>5 DEF Opened
    <3>3. \/ open'.data = open.data /\ UNCHANGED <<seen, poll>>
          \/ seen' = "none" /\ poll' = NoPoll
      BY <2>5, <3>2 DEF Opened
    <3> QED BY <2>1, <2>2, <2>b, <3>1, <3>2, <3>3 DEF NoPoll, Reading
  <2>6. CASE OpenFails \/ PollFails \/ EndFails
    <3>1. UNCHANGED <<session, seen, socket, here, refocused, overtaken>>
      BY <2>6 DEF OpenFails, PollFails, EndFails
    <3>2. open'.answer \in {open.answer, None} /\ open'.data = open.data
      BY <2>6 DEF OpenFails, PollFails, EndFails
    <3>3. poll' \in {poll, NoPoll} /\ ending' \in {ending, Calm}
      BY <2>6 DEF OpenFails, PollFails, EndFails
    <3> QED BY <2>1, <2>2, <2>b, <3>1, <3>2, <3>3 DEF NoPoll, Calm, Reading
  <2>7. CASE AskStatus
    BY <2>7, <2>1, <2>b DEF AskStatus, Reading
  <2>8. CASE ReadStatus
    <3>1. session[open.data] \in Statuses
      BY <2>8 DEF ReadStatus, Ids, None
    <3> QED BY <2>8, <2>1, <2>b, <3>1 DEF ReadStatus, Reading
  <2>9. CASE ShowStatus
    <3>1. poll.status \in Statuses \cup {"none"} /\ open.data # None
      BY <2>9 DEF ShowStatus, Reading
    <3>2. \/ socket' = socket \/ socket' = [of |-> open.data, state |-> "connecting"]
      BY <2>9 DEF ShowStatus, Attach
    <3>3. socket'.of \in Ids' /\ (socket'.state # "none" => socket'.of # None)
      BY <2>b, <3>1, <3>2
    <3>4. poll' = NoPoll /\ seen' = poll.status /\ overtaken' \in BOOLEAN
          /\ UNCHANGED <<session, open, ending, here, refocused>>
      BY <2>9 DEF ShowStatus
    <3> QED BY <2>1, <2>b, <3>1, <3>3, <3>4 DEF NoPoll, Reading
  <2>10. CASE StartNewSession \/ TryAgain
    <3>1. UNCHANGED <<session, seen, poll, ending, here, refocused, overtaken>>
      BY <2>10 DEF StartNewSession, TryAgain
    <3>2. open'.answer = None /\ open'.data = open.data
      BY <2>10 DEF StartNewSession, TryAgain, Refetch
    <3>3. socket' \in {socket, NoSocket}
      BY <2>10 DEF StartNewSession, TryAgain, Forget
    <3> QED BY <2>1, <2>2, <2>b, <3>1, <3>2, <3>3 DEF NoSocket
  <2>11. CASE EndSession
    BY <2>11, <2>1, <2>b DEF EndSession, Reading
  <2>12. CASE ServeEnd \/ Leave
    BY <2>12, <2>1, <2>b DEF ServeEnd, Leave, End, Cut, Connected, Reading
  <2>13. CASE Ended
    BY <2>13, <2>1, <2>2, <2>b, <2>a DEF Ended, Invalidate, Calm, Reading
  <2>14. CASE Focus
    BY <2>14, <2>1, <2>b DEF Focus, Reading
  <2>15. CASE UNCHANGED vars
    BY <2>15, <2>1 DEF vars, Ids
  <2> QED
    BY <2>3, <2>4, <2>5, <2>6, <2>7, <2>8, <2>9, <2>10, <2>11, <2>12, <2>13, <2>14, <2>15 DEF Next
<1>3. ViewerInv /\ Referring => TypeOK
  <2> SUFFICES ASSUME ViewerInv, Referring PROVE TypeOK
    OBVIOUS
  <2>1. \A s \in Rows : session[s] \in Statuses
    BY DEF Referring, Rows
  <2> QED BY <2>1 DEF ViewerInv, Shape, Referring, Reading, TypeOK
<1> QED BY <1>1, <1>2, <1>3, ViewerInitial, ViewerStep, PTL DEF Spec

=============================================================================
