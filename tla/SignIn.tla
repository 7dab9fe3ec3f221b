------------------------------- MODULE SignIn -------------------------------
(***************************************************************************)
(* Who is signed in, as the shell of the web console sees it.              *)
(*                                                                         *)
(* The query "me" decides between the login form, the pages and an error.  *)
(* Four answers write it: its own fetch, a login, a logout, and the 401 of *)
(* any other request.  Each was given for the cookie its request carried,  *)
(* and they arrive in any order.                                           *)
(***************************************************************************)
EXTENDS Naturals

CONSTANTS
  Calls,        \* the requests of the pages that may be on their way at once
  MaxSessions,  \* bound on the sessions that are opened
  MaxSpoils     \* bound on failures, expiries and what other tabs do

ASSUME SignInAssumption == MaxSessions \in Nat \ {0} /\ MaxSpoils \in Nat

VARIABLES
  alive,      \* the session the server knows, or 0
  cookie,     \* the session of the browser's cookie, or 0
  opened,     \* sessions opened so far
  me,         \* the cached user: loading, nobody or somebody
  meFailed,   \* the query is in the state "error"
  meFetch,    \* its request: the phase, the cookie it carries, the answer
  call,       \* the requests of pages: the phase and the cookie
  login,      \* the login mutation
  logout,     \* the logout mutation
  edits,      \* text typed on a page that is not saved
  overtaken,  \* a login was answered while requests with the old cookie were on
              \* their way, or another tab opened a session (history)
  spoils

signInVars == <<alive, cookie, opened, me, meFailed, meFetch, call, login, logout,
                edits, overtaken, spoils>>

NoFetch == [phase |-> "idle", with |-> 0, user |-> "nobody"]
NoCall  == [phase |-> "idle", with |-> 0]

SignInInit ==
  /\ alive \in {0, 1} /\ cookie = alive /\ opened = alive
  /\ me = "loading" /\ meFailed = FALSE
  /\ meFetch = [NoFetch EXCEPT !.phase = "sent", !.with = cookie]
  /\ call = [k \in Calls |-> NoCall]
  /\ login = NoCall /\ logout = NoCall
  /\ edits = FALSE /\ overtaken = FALSE /\ spoils = 0

SignedIn == cookie # 0 /\ cookie = alive
Knows(with) == with # 0 /\ with = alive

\* App.
PagesShown == me = "somebody" /\ ~meFailed
LoginShown == me = "nobody" /\ ~meFailed

\* queryClient.setQueryData(['me'], user): also ends the state "error".  What is
\* typed on a page is lost with the page.
SetMe(user) ==
  /\ me' = user /\ meFailed' = FALSE
  /\ edits' = (edits /\ user = "somebody")

-----------------------------------------------------------------------------
(* The query "me": on mount, on focus and on reconnecting; it never retries. *)

FetchMe ==
  /\ meFetch = NoFetch
  /\ meFetch' = [phase |-> "sent", with |-> cookie, user |-> "nobody"]
  /\ UNCHANGED <<alive, cookie, opened, me, meFailed, call, login, logout, edits,
                 overtaken, spoils>>

\* A 401 is the answer "nobody".
ServeMe ==
  /\ meFetch.phase = "sent"
  /\ meFetch' = [meFetch EXCEPT
       !.phase = "answered", !.user = IF Knows(meFetch.with) THEN "somebody" ELSE "nobody"]
  /\ UNCHANGED <<alive, cookie, opened, me, meFailed, call, login, logout, edits,
                 overtaken, spoils>>

MeArrives ==
  /\ meFetch.phase = "answered"
  /\ SetMe(meFetch.user) /\ meFetch' = NoFetch
  /\ UNCHANGED <<alive, cookie, opened, call, login, logout, overtaken, spoils>>

Spoil == spoils < MaxSpoils /\ spoils' = spoils + 1

\* The error page replaces whatever page was open.
MeFails ==
  /\ Spoil /\ meFetch # NoFetch
  /\ meFailed' = TRUE /\ meFetch' = NoFetch /\ edits' = FALSE
  /\ UNCHANGED <<alive, cookie, opened, me, call, login, logout, overtaken>>

-----------------------------------------------------------------------------
(* Other requests.                                                         *)

Edit ==
  /\ PagesShown /\ ~edits /\ edits' = TRUE
  /\ UNCHANGED <<alive, cookie, opened, me, meFailed, meFetch, call, login, logout,
                 overtaken, spoils>>

SendCall(k) ==
  /\ PagesShown /\ call[k] = NoCall
  /\ call' = [call EXCEPT ![k] = [phase |-> "sent", with |-> cookie]]
  /\ UNCHANGED <<alive, cookie, opened, me, meFailed, meFetch, login, logout, edits,
                 overtaken, spoils>>

ServeCall(k) ==
  /\ call[k].phase = "sent"
  /\ call' = [call EXCEPT ![k] = IF Knows(call[k].with) THEN NoCall
                                 ELSE [@ EXCEPT !.phase = "denied"]]
  /\ UNCHANGED <<alive, cookie, opened, me, meFailed, meFetch, login, logout, edits,
                 overtaken, spoils>>

\* A 401 calls onUnauthorized, whenever it arrives and whoever is signed in by then.
Denied(k) ==
  /\ call[k].phase = "denied"
  /\ SetMe("nobody") /\ call' = [call EXCEPT ![k] = NoCall]
  /\ UNCHANGED <<alive, cookie, opened, meFetch, login, logout, overtaken, spoils>>

\* Mutant: every failure counts as the end of the session.
LogsOut == SetMe("nobody")

LeavesMe == UNCHANGED <<me, meFailed, edits>>

\* The server is not reached: an error of that request only.
CallFails(k) ==
  /\ Spoil /\ call[k].phase = "sent"
  /\ LeavesMe /\ call' = [call EXCEPT ![k] = NoCall]
  /\ UNCHANGED <<alive, cookie, opened, meFetch, login, logout, overtaken>>

-----------------------------------------------------------------------------
(* Login and logout.                                                       *)

SubmitLogin ==
  /\ LoginShown /\ login = NoCall
  /\ login' = [phase |-> "sent", with |-> 0]
  /\ UNCHANGED <<alive, cookie, opened, me, meFailed, meFetch, call, logout, edits,
                 overtaken, spoils>>

\* AuthController.login: a new session id; a wrong password leaves the form.
ServeLogin ==
  /\ login.phase = "sent"
  /\ \/ /\ opened < MaxSessions /\ opened' = opened + 1 /\ alive' = opened'
        /\ login' = [phase |-> "accepted", with |-> opened']
     \/ login' = NoCall /\ UNCHANGED <<alive, opened>>
  /\ UNCHANGED <<cookie, me, meFailed, meFetch, call, logout, edits, overtaken, spoils>>

OldInFlight == meFetch # NoFetch \/ logout # NoCall \/ \E k \in Calls : call[k] # NoCall

LoginArrives ==
  /\ login.phase = "accepted"
  /\ cookie' = login.with /\ login' = NoCall /\ SetMe("somebody")
  /\ overtaken' = (overtaken \/ OldInFlight)
  /\ UNCHANGED <<alive, opened, meFetch, call, logout, spoils>>

LoginFails ==
  /\ Spoil /\ login # NoCall /\ login' = NoCall
  /\ UNCHANGED <<alive, cookie, opened, me, meFailed, meFetch, call, logout, edits, overtaken>>

SubmitLogout ==
  /\ PagesShown /\ logout = NoCall
  /\ logout' = [phase |-> "sent", with |-> cookie]
  /\ UNCHANGED <<alive, cookie, opened, me, meFailed, meFetch, call, login, edits,
                 overtaken, spoils>>

ServeLogout ==
  /\ logout.phase = "sent"
  /\ alive' = IF Knows(logout.with) THEN 0 ELSE alive
  /\ logout' = [logout EXCEPT !.phase = "accepted"]
  /\ UNCHANGED <<cookie, opened, me, meFailed, meFetch, call, login, edits, overtaken, spoils>>

LogoutArrives ==
  /\ logout.phase = "accepted"
  /\ SetMe("nobody") /\ logout' = NoCall
  /\ UNCHANGED <<alive, cookie, opened, meFetch, call, login, overtaken, spoils>>

\* A toast; the user stays signed in, or the next request is denied.
LogoutFails ==
  /\ Spoil /\ logout # NoCall /\ logout' = NoCall
  /\ UNCHANGED <<alive, cookie, opened, me, meFailed, meFetch, call, login, edits, overtaken>>

SessionExpires ==
  /\ Spoil /\ alive # 0 /\ alive' = 0
  /\ UNCHANGED <<cookie, opened, me, meFailed, meFetch, call, login, logout, edits, overtaken>>

\* The tabs of a browser share the cookie.
OtherTabSignsIn ==
  /\ Spoil /\ opened < MaxSessions
  /\ opened' = opened + 1 /\ alive' = opened' /\ cookie' = opened' /\ overtaken' = TRUE
  /\ UNCHANGED <<me, meFailed, meFetch, call, login, logout, edits>>

SignInNext ==
  \/ FetchMe \/ ServeMe \/ MeArrives \/ MeFails \/ Edit
  \/ \E k \in Calls : SendCall(k) \/ ServeCall(k) \/ Denied(k) \/ CallFails(k)
  \/ SubmitLogin \/ ServeLogin \/ LoginArrives \/ LoginFails
  \/ SubmitLogout \/ ServeLogout \/ LogoutArrives \/ LogoutFails
  \/ SessionExpires \/ OtherTabSignsIn

SignInSpec == SignInInit /\ [][SignInNext]_signInVars

-----------------------------------------------------------------------------
InFlight == [phase : {"idle", "sent", "denied", "accepted"}, with : 0..MaxSessions]

SignInTypeOK ==
  /\ {alive, cookie, opened} \subseteq 0..MaxSessions
  /\ me \in {"loading", "nobody", "somebody"}
  /\ meFetch \in [phase : {"idle", "sent", "answered"}, with : 0..MaxSessions,
                  user : {"nobody", "somebody"}]
  /\ \A k \in Calls : call[k] \in InFlight
  /\ login \in InFlight /\ logout \in InFlight
  /\ meFailed \in BOOLEAN /\ edits \in BOOLEAN /\ overtaken \in BOOLEAN

\* "Network errors never trigger it": the console shows nobody signed in only when the
\* session of its cookie is over, unless a request from before the login was still on
\* its way when the login was answered, whose 401 then signs the new session out.
NobodyIsThrownOut == me = "nobody" /\ SignedIn => overtaken

=============================================================================
