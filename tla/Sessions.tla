------------------------------- MODULE Sessions -------------------------------
(***************************************************************************)
(* One user's account and sessions: the user service's registration,       *)
(* login, refresh, logout and cached profile, and the gateway's tickets    *)
(* for WebSockets.  The user has several tabs of one browser open: each    *)
(* has its own access token, and all share the refresh cookie.             *)
(*                                                                         *)
(* Every statement, Redis command and answer is one step, so requests of   *)
(* the tabs overlap as they may in the services.  Tokens, cookies and      *)
(* tickets are random ids in the code and are numbered here in the order   *)
(* they are made; keys of other users never meet them.                     *)
(***************************************************************************)
EXTENDS Integers, Sequences

CONSTANTS
  Tab,
  MaxTokens,   \* bound on access tokens
  MaxCookies,  \* bound on refresh tokens
  MaxTickets,  \* bound on tickets
  MaxFaults    \* bound on failures, restarts and lost answers

ASSUME BoundsAssumption == /\ MaxTokens \in Nat
                           /\ MaxCookies \in Nat \ {0}
                           /\ MaxTickets \in Nat
                           /\ MaxFaults \in Nat

VARIABLES
  \* the user service's tables, and Redis
  account,     \* the row of users: "absent", "registered" or "activated"
  invitation,  \* the row of user_invitations, and whether its mail was sent
  activation,  \* "updated" between Activate's UPDATE and its end
  cached,      \* user:<id>, or "absent"
  reading,     \* rows read by GetByID and not yet stored in the cache
  refresh,     \* drova:refresh:<token>
  revoked,     \* jti:revoked:<jti>
  tickets,     \* wstkt:<ticket>, with the jti of the token it was given for
  \* the browser
  tab,         \* each tab's token and its request under way
  jar,         \* the refresh cookie, 0 when there is none
  \* the gateway
  granting,    \* tickets made for an authenticated request, not yet stored
  upgrading,   \* tickets taken from Redis whose token is yet to be checked
  sockets,     \* the upgrades that succeeded, in order
  \* counters, time and failures
  issued,      \* access tokens made
  cookies,     \* refresh tokens made
  granted,     \* tickets made
  expired,     \* access tokens past their 15 minutes
  dead,        \* cookies that were deleted and whose answer was lost
  faults

accountVars == <<account, invitation, activation, cached, reading>>
socketVars == <<tickets, granting, upgrading, sockets, granted>>
vars == <<accountVars, socketVars, refresh, revoked, tab, jar, issued,
          cookies, expired, dead, faults>>

-----------------------------------------------------------------------------

Token == 1 .. MaxTokens
Cookie == 1 .. MaxCookies
Ticket == 1 .. MaxTickets

\* A request by the step its handler is at; an answer may set the cookie.
Step == {"idle", "sent", "validated", "created", "logout", "revoked", "answer"}
Request == [token : 0 .. MaxTokens, at : Step, sent : 0 .. MaxCookies,
            jwt : 0 .. MaxTokens, cookie : {"keep", "clear", "set"},
            new : 0 .. MaxCookies]
Upgrade == [ticket : Ticket, jti : Token, was : {"valid", "revoked"}]
Socket == [ticket : Ticket, jti : Token, was : {"valid", "revoked"},
           check : {"passed", "skipped"}]

TypeOK ==
  /\ account \in {"absent", "registered", "activated"}
  /\ invitation \in {"none", "due", "stored", "mailed"}
  /\ activation \in {"none", "updated"}
  /\ cached \in {"absent", "registered", "activated"}
  /\ reading \subseteq {"registered", "activated"}
  /\ refresh \subseteq Cookie
  /\ revoked \subseteq Token
  /\ tickets \subseteq [ticket : Ticket, jti : Token]
  /\ tab \in [Tab -> Request]
  /\ jar \in 0 .. MaxCookies
  /\ granting \subseteq [ticket : Ticket, jti : Token]
  /\ upgrading \subseteq Upgrade
  /\ sockets \in Seq(Socket)
  /\ issued \in 0 .. MaxTokens /\ cookies \in 0 .. MaxCookies
  /\ granted \in 0 .. MaxTickets
  /\ expired \subseteq Token
  /\ dead \subseteq Cookie
  /\ faults \in 0 .. MaxFaults

Idle(token) == [token |-> token, at |-> "idle", sent |-> 0, jwt |-> 0,
                cookie |-> "keep", new |-> 0]

\* A user who is yet to register, or a known one, whose browser may hold the
\* cookie of an earlier visit.
Init ==
  /\ \/ account = "absent" /\ cookies = 0
     \/ account = "activated" /\ cookies \in {0, 1}
  /\ refresh = 1 .. cookies /\ jar = cookies
  /\ invitation = "none" /\ activation = "none"
  /\ cached = "absent" /\ reading = {}
  /\ revoked = {} /\ tickets = {}
  /\ tab = [t \in Tab |-> Idle(0)]
  /\ granting = {} /\ upgrading = {} /\ sockets = << >>
  /\ issued = 0 /\ granted = 0
  /\ expired = {} /\ dead = {} /\ faults = 0

\* A call fails, perhaps after it took effect; most errors are only logged.
Fault == faults < MaxFaults /\ faults' = faults + 1
NoFault == UNCHANGED faults

-----------------------------------------------------------------------------
(* service.go: registration, activation and the cached user *)

\* INSERT INTO users; the email is unique, so a second request ends here.
Register ==
  /\ account = "absent"
  /\ account' = "registered" /\ invitation' = "due"
  /\ UNCHANGED <<activation, cached, reading, socketVars, refresh, revoked,
                 tab, jar, issued, cookies, expired, dead, faults>>

\* INSERT INTO user_invitations.  If it fails the account stays without one,
\* and registering again is refused.
Invite ==
  /\ invitation = "due"
  /\ \/ invitation' = "stored" /\ NoFault
     \/ invitation' = "none" /\ Fault
  /\ UNCHANGED <<account, activation, cached, reading, socketVars, refresh,
                 revoked, tab, jar, issued, cookies, expired, dead>>

\* The goroutine that mails the link; a failure is logged.
SendActivation ==
  /\ invitation = "stored"
  /\ invitation' = "mailed"
  /\ UNCHANGED <<account, activation, cached, reading, socketVars, refresh,
                 revoked, tab, jar, issued, cookies, expired, dead, faults>>

\* The invitation's 72 hours are over.
ExpireInvitation ==
  /\ invitation \in {"stored", "mailed"}
  /\ invitation' = "none"
  /\ UNCHANGED <<account, activation, cached, reading, socketVars, refresh,
                 revoked, tab, jar, issued, cookies, expired, dead, faults>>

\* UPDATE users ... WHERE id = (the invitation's user); no row, no change.
Activate ==
  /\ invitation = "mailed" /\ activation = "none"
  /\ account' = "activated" /\ activation' = "updated"
  /\ UNCHANGED <<invitation, cached, reading, socketVars, refresh, revoked,
                 tab, jar, issued, cookies, expired, dead, faults>>

\* The invitation and the cached user are deleted; neither error is seen.
FinishActivation ==
  /\ activation = "updated" /\ activation' = "none"
  /\ \/ invitation' = "none" /\ cached' = "absent" /\ NoFault
     \/ /\ invitation' \in {"none", invitation}
        /\ cached' \in {"absent", cached} /\ Fault
  /\ UNCHANGED <<account, reading, socketVars, refresh, revoked, tab, jar,
                 issued, cookies, expired, dead>>

\* The bearer token of a request: signature and expiry, then the blacklist,
\* which a failing Redis passes.
Authenticated(token) ==
  /\ token \in 1 .. issued \ expired
  /\ \/ token \notin revoked /\ NoFault
     \/ token \in revoked /\ Fault

\* GetByID reads the row when the cache has no user, or does not answer.  Who
\* asks has a token, or is the trip service with the rider of a trip, who had.
GetByID ==
  /\ \/ cached = "absent" /\ \E t \in Tab : Authenticated(tab[t].token)
     \/ cached = "absent" /\ issued > 0 /\ NoFault
     \/ cached # "absent" /\ issued > 0 /\ Fault
  /\ reading' = reading \union {account}
  /\ UNCHANGED <<account, invitation, activation, cached, socketVars, refresh,
                 revoked, tab, jar, issued, cookies, expired, dead>>

\* The row read is stored whatever happened to it meanwhile, or fails to be.
StoreRead(row) ==
  /\ reading' = reading \ {row}
  /\ \/ cached' = row /\ NoFault
     \/ UNCHANGED cached /\ Fault
  /\ UNCHANGED <<account, invitation, activation, socketVars, refresh, revoked,
                 tab, jar, issued, cookies, expired, dead>>

\* The profile is in the table only; what the cache has of the user is deleted,
\* or stays if that fails, and GetByID follows.
UpdateProfile ==
  /\ cached # "absent"
  /\ \E t \in Tab : Authenticated(tab[t].token)
  /\ cached' = "absent"
  /\ UNCHANGED <<account, invitation, activation, reading, socketVars, refresh,
                 revoked, tab, jar, issued, cookies, expired, dead>>

\* userCacheTTL, an hour.
ExpireCached ==
  /\ cached # "absent"
  /\ cached' = "absent"
  /\ UNCHANGED <<account, invitation, activation, reading, socketVars, refresh,
                 revoked, tab, jar, issued, cookies, expired, dead, faults>>

-----------------------------------------------------------------------------
(* handler.go: login, refresh and logout *)

Answer(t, jwt, cookie, new) ==
  tab' = [tab EXCEPT ![t].at = "answer", ![t].jwt = jwt, ![t].cookie = cookie,
                     ![t].new = new]

\* Mutant: an account that was not activated may log in.
LoginAnyone(t) ==
  /\ tab[t].at = "idle" /\ tab[t].token = 0
  /\ issued < MaxTokens /\ cookies < MaxCookies
  /\ account # "absent"
  /\ issued' = issued + 1 /\ cookies' = cookies + 1
  /\ \/ /\ refresh' = refresh \union {cookies'}
        /\ Answer(t, issued', "set", cookies') /\ NoFault
     \/ /\ refresh' \in {refresh, refresh \union {cookies'}}
        /\ Answer(t, issued', "keep", 0) /\ Fault
  /\ UNCHANGED <<accountVars, socketVars, revoked, jar, expired, dead>>

\* handleCreateToken, for a tab without a token and the right password.  A
\* refresh token that could not be stored is left out of the answer.
Login(t) ==
  /\ tab[t].at = "idle" /\ tab[t].token = 0
  /\ issued < MaxTokens /\ cookies < MaxCookies
  /\ account = "activated"
  /\ issued' = issued + 1 /\ cookies' = cookies + 1
  /\ \/ /\ refresh' = refresh \union {cookies'}
        /\ Answer(t, issued', "set", cookies') /\ NoFault
     \/ /\ refresh' \in {refresh, refresh \union {cookies'}}
        /\ Answer(t, issued', "keep", 0) /\ Fault
  /\ UNCHANGED <<accountVars, socketVars, revoked, jar, expired, dead>>

\* A tab without a token, or with one about to expire, sends the cookie.
SendRefresh(t) ==
  /\ tab[t].at = "idle" /\ jar # 0
  /\ tab' = [tab EXCEPT ![t].at = "sent", ![t].sent = jar]
  /\ UNCHANGED <<accountVars, socketVars, refresh, revoked, jar, issued,
                 cookies, expired, dead, faults>>

\* refreshTokens.Validate, then the new access token.  An error of Redis is
\* answered like an unknown token: the cookie is cleared.
Validate(t) ==
  /\ tab[t].at = "sent"
  /\ \/ /\ tab[t].sent \in refresh /\ issued < MaxTokens
        /\ issued' = issued + 1
        /\ tab' = [tab EXCEPT ![t].at = "validated", ![t].jwt = issued']
        /\ NoFault
     \/ /\ Answer(t, 0, "clear", 0)
        /\ UNCHANGED issued
        /\ IF tab[t].sent \in refresh THEN Fault ELSE NoFault
  /\ UNCHANGED <<accountVars, socketVars, refresh, revoked, jar, cookies,
                 expired, dead>>

\* Mutant: the old token is deleted first.
RotateInPlace(t) ==
  /\ tab[t].at = "validated" /\ cookies < MaxCookies
  /\ cookies' = cookies + 1
  /\ \/ /\ refresh' = (refresh \ {tab[t].sent}) \union {cookies'}
        /\ tab' = [tab EXCEPT ![t].at = "created", ![t].new = cookies']
        /\ NoFault
     \/ /\ Answer(t, tab[t].jwt, "keep", 0) /\ Fault
        /\ refresh' = refresh \ {tab[t].sent}
  /\ UNCHANGED <<accountVars, socketVars, revoked, jar, issued, expired, dead>>

\* The new refresh token; if it cannot be stored the old one stays valid.
Rotate(t) ==
  /\ tab[t].at = "validated" /\ cookies < MaxCookies
  /\ cookies' = cookies + 1
  /\ \/ /\ refresh' = refresh \union {cookies'}
        /\ tab' = [tab EXCEPT ![t].at = "created", ![t].new = cookies']
        /\ NoFault
     \/ /\ refresh' \in {refresh, refresh \union {cookies'}}
        /\ Answer(t, tab[t].jwt, "keep", 0) /\ Fault
  /\ UNCHANGED <<accountVars, socketVars, revoked, jar, issued, expired, dead>>

\* The old one is deleted; the error is ignored.
DeleteOld(t) ==
  /\ tab[t].at = "created"
  /\ \/ refresh' = refresh \ {tab[t].sent} /\ NoFault
     \/ UNCHANGED refresh /\ Fault
  /\ Answer(t, tab[t].jwt, "set", tab[t].new)
  /\ UNCHANGED <<accountVars, socketVars, revoked, jar, issued, cookies,
                 expired, dead>>

\* The tab forgets its token and sends it with the cookie.
LogOut(t) ==
  /\ tab[t].at = "idle" /\ tab[t].token # 0
  /\ tab' = [tab EXCEPT ![t] = [Idle(0) EXCEPT !.at = "logout", !.sent = jar,
                                               !.jwt = tab[t].token]]
  /\ UNCHANGED <<accountVars, socketVars, refresh, revoked, jar, issued,
                 cookies, expired, dead, faults>>

\* handleLogout revokes the token, or only logs that it could not.  A token
\* that is no longer valid is refused, and the cookie stays.
Revoke(t) ==
  /\ tab[t].at = "logout"
  /\ \/ /\ Authenticated(tab[t].jwt)
        /\ revoked' = revoked \union {tab[t].jwt}
        /\ tab' = [tab EXCEPT ![t].at = "revoked"]
     \/ /\ tab[t].jwt \in 1 .. issued \ (expired \union revoked)
        /\ revoked' \in {revoked, revoked \union {tab[t].jwt}}
        /\ tab' = [tab EXCEPT ![t].at = "revoked"] /\ Fault
     \/ /\ tab[t].jwt \in expired \union revoked
        /\ Answer(t, 0, "keep", 0) /\ NoFault
        /\ UNCHANGED revoked
  /\ UNCHANGED <<accountVars, socketVars, refresh, jar, issued, cookies,
                 expired, dead>>

DeleteCookie(t) ==
  /\ tab[t].at = "revoked"
  /\ \/ refresh' = refresh \ {tab[t].sent} /\ NoFault
     \/ UNCHANGED refresh /\ Fault
  /\ Answer(t, 0, "clear", 0)
  /\ UNCHANGED <<accountVars, socketVars, revoked, jar, issued, cookies,
                 expired, dead>>

\* The browser takes the cookie of an answer, the tab its token.
Receive(t) ==
  /\ tab[t].at = "answer"
  /\ jar' = CASE tab[t].cookie = "set" -> tab[t].new
              [] tab[t].cookie = "clear" -> 0
              [] tab[t].cookie = "keep" -> jar
  /\ tab' = [tab EXCEPT ![t] = Idle(IF tab[t].jwt = 0 THEN tab[t].token
                                                      ELSE tab[t].jwt)]
  /\ UNCHANGED <<accountVars, socketVars, refresh, revoked, issued, cookies,
                 expired, dead, faults>>

\* The request is cut off: a restart, a timeout, a lost answer.
Lose(t) ==
  /\ tab[t].at # "idle" /\ Fault
  /\ tab' = [tab EXCEPT ![t] = Idle(tab[t].token)]
  /\ dead' = IF tab[t].at = "answer" /\ tab[t].sent # 0
             THEN dead \union {tab[t].sent} ELSE dead
  /\ UNCHANGED <<accountVars, socketVars, refresh, revoked, jar, issued,
                 cookies, expired>>

\* Fifteen minutes after it was made; of no effect once no tab has it.
ExpireToken(j) ==
  /\ j \in 1 .. issued \ expired
  /\ \E t \in Tab : j \in {tab[t].token, tab[t].jwt}
  /\ expired' = expired \union {j}
  /\ UNCHANGED <<accountVars, socketVars, refresh, revoked, tab, jar, issued,
                 cookies, dead, faults>>

\* Seven days, in Redis and in the browser; no request runs that long.
ExpireCookie ==
  /\ jar \in refresh
  /\ \A t \in Tab : jar \notin {tab[t].sent, tab[t].new}
  /\ refresh' = refresh \ {jar}
  /\ jar' = 0
  /\ UNCHANGED <<accountVars, socketVars, revoked, tab, issued, cookies,
                 expired, dead, faults>>

-----------------------------------------------------------------------------
(* the gateway's auth.go: tickets and upgrades *)

\* requireAuth in front of handleWsTicket, and a new ticket ...
AskTicket(t) ==
  /\ granted < MaxTickets
  /\ Authenticated(tab[t].token)
  /\ granted' = granted + 1
  /\ granting' = granting \union {[ticket |-> granted', jti |-> tab[t].token]}
  /\ UNCHANGED <<accountVars, tickets, upgrading, sockets, refresh, revoked,
                 tab, jar, issued, cookies, expired, dead>>

\* ... which is stored for half a minute; if that fails there is none.
handleWsTicket(k) ==
  /\ granting' = granting \ {k}
  /\ \/ tickets' = tickets \union {k} /\ NoFault
     \/ UNCHANGED tickets /\ Fault
  /\ UNCHANGED <<accountVars, upgrading, sockets, granted, refresh, revoked,
                 tab, jar, issued, cookies, expired, dead>>

ExpireTicket(k) ==
  /\ tickets' = tickets \ {k}
  /\ UNCHANGED <<accountVars, granting, upgrading, sockets, granted, refresh,
                 revoked, tab, jar, issued, cookies, expired, dead, faults>>

\* A ticket once taken, and whether its token is revoked by then.
Taken(k) == [ticket |-> k.ticket, jti |-> k.jti,
             was |-> IF k.jti \in revoked THEN "revoked" ELSE "valid"]

\* Mutant: GET, and a DEL that is left to the ticket's expiry.
ReadTicket(k) ==
  /\ upgrading' = upgrading \union {Taken(k)}
  /\ UNCHANGED <<accountVars, tickets, granting, sockets, granted, refresh,
                 revoked, tab, jar, issued, cookies, expired, dead, faults>>

\* resolveWSAuth takes the ticket with GETDEL.
TakeTicket(k) ==
  /\ tickets' = tickets \ {k}
  /\ upgrading' = upgrading \union {Taken(k)}
  /\ UNCHANGED <<accountVars, granting, sockets, granted, refresh, revoked, tab,
                 jar, issued, cookies, expired, dead, faults>>

Opened(u, check) == [ticket |-> u.ticket, jti |-> u.jti, was |-> u.was,
                     check |-> check]

\* Mutant: the ticket is enough.
OpenUnchecked(u) ==
  /\ upgrading' = upgrading \ {u}
  /\ sockets' = Append(sockets, Opened(u, "passed"))
  /\ UNCHANGED <<accountVars, tickets, granting, granted, refresh, revoked, tab,
                 jar, issued, cookies, expired, dead, faults>>

\* The token behind the ticket is checked, unless Redis does not answer.
Open(u) ==
  /\ upgrading' = upgrading \ {u}
  /\ \/ /\ u.jti \notin revoked /\ NoFault
        /\ sockets' = Append(sockets, Opened(u, "passed"))
     \/ /\ u.jti \in revoked /\ NoFault
        /\ UNCHANGED sockets
     \/ /\ u.jti \in revoked /\ Fault
        /\ sockets' = Append(sockets, Opened(u, "skipped"))
  /\ UNCHANGED <<accountVars, tickets, granting, granted, refresh, revoked, tab,
                 jar, issued, cookies, expired, dead>>

-----------------------------------------------------------------------------

Next ==
  \/ Register \/ Invite \/ SendActivation \/ ExpireInvitation
  \/ Activate \/ FinishActivation
  \/ GetByID \/ UpdateProfile \/ ExpireCached
  \/ \E row \in reading : StoreRead(row)
  \/ \E t \in Tab :
       \/ Login(t) \/ SendRefresh(t) \/ Validate(t) \/ Rotate(t) \/ DeleteOld(t)
       \/ LogOut(t) \/ Revoke(t) \/ DeleteCookie(t)
       \/ Receive(t) \/ Lose(t) \/ AskTicket(t)
  \/ \E j \in Token : ExpireToken(j)
  \/ ExpireCookie
  \/ \E k \in granting : handleWsTicket(k)
  \/ \E k \in tickets : ExpireTicket(k) \/ TakeTicket(k)
  \/ \E u \in upgrading : Open(u)

Spec == Init /\ [][Next]_vars

-----------------------------------------------------------------------------
(* Properties *)

\* A ticket opens one socket at most, whoever presents it and however often
\* (resolveWSAuth).
TicketOpensOnce ==
  \A i, k \in 1 .. Len(sockets) :
    sockets[i].ticket = sockets[k].ticket => i = k

\* A token that was revoked before its ticket was presented opens no socket,
\* also when the ticket was asked for before the logout and stored after it;
\* unless Redis did not answer the check (resolveWSAuth, handleWsTicket).
RevokedOpensNothing ==
  \A i \in 1 .. Len(sockets) :
    sockets[i].was = "revoked" => sockets[i].check = "skipped"

\* The browser keeps no dead cookie: the one it has is stored, or an answer
\* that replaces it is on its way, or was lost.  Refreshes and logouts of
\* several tabs overlap, and any write of theirs may fail (handleRefreshToken,
\* handleLogout).
CookieIsValid ==
  \/ jar \in refresh \union dead \union {0}
  \/ \E t \in Tab : tab[t].at = "answer" /\ tab[t].sent = jar

\* What the cache says of the account is what the table says, although reads
\* overlap the activation: nobody has a token to read with before it
\* (GetByID, Activate, handleCreateToken).
CachedIsCurrent == cached # "absent" => cached = account

===============================================================================
