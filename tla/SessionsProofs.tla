---------------------------- MODULE SessionsProofs ----------------------------
(***************************************************************************)
(* Proofs about Sessions.  Four invariants, each inductive with the types  *)
(* and proved on its own: where a ticket is, what is known of a ticket's   *)
(* token, whom the account lets in, and where the browser's cookie is.     *)
(***************************************************************************)
EXTENDS Sessions, SequenceTheorems, TLAPS

\* A ticket is being stored, stored, taken or used up, and in one such place.
Distinct(S) == \A k, l \in S : k.ticket = l.ticket => k = l
Apart(S, T) == \A k \in S, l \in T : k.ticket # l.ticket
Used == {sockets[i].ticket : i \in 1 .. Len(sockets)}
TicketInv ==
  /\ \A k \in granting \union tickets \union upgrading : k.ticket <= granted
  /\ \A n \in Used : n <= granted
  /\ Distinct(granting) /\ Distinct(tickets) /\ Distinct(upgrading)
  /\ Apart(granting, tickets) /\ Apart(granting, upgrading)
  /\ Apart(tickets, upgrading)
  /\ \A k \in granting \union tickets \union upgrading : k.ticket \notin Used
  /\ TicketOpensOnce

\* What was noted of a ticket's token when it was taken stays true.
RevokedInv ==
  /\ \A u \in upgrading : u.was = "revoked" => u.jti \in revoked
  /\ RevokedOpensNothing

\* Only an activated account has tokens, and only tokens fill the cache.
AccountInv ==
  /\ issued > 0 \/ refresh # {} => account = "activated"
  /\ \A t \in Tab : tab[t].at = "validated" => account = "activated"
  /\ reading # {} \/ cached # "absent" => account = "activated"
  /\ reading \subseteq {"activated"}
  /\ cached \in {"absent", "activated"}

\* A refresh token on its way to the browser.
Coming(t) ==
  \/ tab[t].at = "created"
  \/ tab[t].at = "answer" /\ tab[t].cookie = "set"

CookiesCounted ==
  /\ jar <= cookies
  /\ \A c \in refresh : c <= cookies
  /\ \A t \in Tab : tab[t].sent <= cookies

\* It is stored, and nobody has sent it or will get it too.
ComingIsFresh ==
  \A t \in Tab : Coming(t) =>
    /\ tab[t].new \in refresh /\ tab[t].new # jar
    /\ \A u \in Tab : tab[u].sent # tab[t].new
    /\ \A u \in Tab \ {t} : Coming(u) => tab[u].new # tab[t].new

\* An answer that is to replace the browser's cookie, which may be deleted.
Replaces(t) ==
  tab[t].at = "answer" /\ tab[t].sent = jar /\ tab[t].cookie # "keep"

CookieKept ==
  jar \in refresh \union dead \union {0} \/ \E t \in Tab : Replaces(t)

CookieInv == CookiesCounted /\ ComingIsFresh /\ CookieKept

-----------------------------------------------------------------------------
(* Types *)

\* Idle tabs and answered requests are requests.
LEMMA IdleIsARequest ==
  ASSUME NEW token \in 0 .. MaxTokens
  PROVE  Idle(token) \in Request
BY BoundsAssumption DEF Idle, Request, Step

\* A request that goes a step further is one.
LEMMA StepIsARequest ==
  ASSUME NEW r \in Request, NEW at \in Step, NEW sent \in 0 .. MaxCookies,
         NEW jwt \in 0 .. MaxTokens, NEW new \in 0 .. MaxCookies
  PROVE  /\ [r EXCEPT !.at = at] \in Request
         /\ [r EXCEPT !.at = at, !.sent = sent] \in Request
         /\ [r EXCEPT !.at = at, !.jwt = jwt] \in Request
         /\ [r EXCEPT !.at = at, !.new = new] \in Request
         /\ [r EXCEPT !.at = at, !.sent = sent, !.jwt = jwt] \in Request
BY DEF Request

LEMMA AnswerKeepsTypes ==
  ASSUME TypeOK, NEW t \in Tab, NEW jwt \in 0 .. MaxTokens,
         NEW cookie \in {"keep", "clear", "set"}, NEW new \in 0 .. MaxCookies,
         Answer(t, jwt, cookie, new)
  PROVE  tab' \in [Tab -> Request]
<1>1. tab[t] \in Request
  BY DEF TypeOK
<1>2. [tab[t] EXCEPT !.at = "answer", !.jwt = jwt, !.cookie = cookie, !.new = new] \in Request
  BY <1>1 DEF Request, Step
<1> QED
  BY <1>2 DEF TypeOK, Answer

\* What the fields of the tabs are after an answer.
LEMMA AnswerChanges ==
  ASSUME TypeOK, NEW t \in Tab, NEW jwt, NEW cookie, NEW new,
         Answer(t, jwt, cookie, new)
  PROVE  /\ tab'[t].at = "answer" /\ tab'[t].sent = tab[t].sent
         /\ tab'[t].cookie = cookie /\ tab'[t].new = new
         /\ \A u \in Tab \ {t} : tab'[u] = tab[u]
<1>1. tab[t] \in Request /\ tab \in [Tab -> Request]
  BY DEF TypeOK
<1>2. tab'[t] = [tab[t] EXCEPT !.at = "answer", !.jwt = jwt, !.cookie = cookie, !.new = new]
  BY <1>1 DEF Answer
<1>3. \A u \in Tab \ {t} : tab'[u] = tab[u]
  BY <1>1 DEF Answer
<1> QED
  BY <1>1, <1>2, <1>3 DEF Request

LEMMA InitTypeOK == Init => TypeOK
<1> SUFFICES ASSUME Init PROVE TypeOK
  OBVIOUS
<1>1. tab \in [Tab -> Request]
  BY IdleIsARequest, BoundsAssumption DEF Init
<1>2. sockets \in Seq(Socket)
  BY DEF Init
<1>3. refresh \subseteq Cookie /\ cookies \in 0 .. MaxCookies
  BY BoundsAssumption DEF Init, Cookie
<1> QED
  BY <1>1, <1>2, <1>3, BoundsAssumption DEF Init, TypeOK

LEMMA NextTypeOK == TypeOK /\ AccountInv /\ [Next]_vars => TypeOK'
<1> SUFFICES ASSUME TypeOK, AccountInv, [Next]_vars PROVE TypeOK'
  OBVIOUS
<1> USE BoundsAssumption DEF Fault, NoFault, accountVars, socketVars
<1>a. \A t \in Tab : /\ tab[t] \in Request
                     /\ tab[t].token \in 0 .. MaxTokens /\ tab[t].jwt \in 0 .. MaxTokens
                     /\ tab[t].sent \in 0 .. MaxCookies /\ tab[t].new \in 0 .. MaxCookies
  BY DEF TypeOK, Request
<1>1. CASE Register
  BY <1>1 DEF TypeOK, Register
<1>2. CASE Invite
  BY <1>2 DEF TypeOK, Invite
<1>3. CASE SendActivation
  BY <1>3 DEF TypeOK, SendActivation
<1>4. CASE ExpireInvitation
  BY <1>4 DEF TypeOK, ExpireInvitation
<1>5. CASE Activate
  BY <1>5 DEF TypeOK, Activate
<1>6. CASE FinishActivation
  BY <1>6 DEF TypeOK, FinishActivation
<1>7. CASE UpdateProfile \/ ExpireCached
  <2>1. CASE UpdateProfile
    BY <2>1 DEF TypeOK, UpdateProfile, Authenticated
  <2>2. CASE ExpireCached
    BY <2>2 DEF TypeOK, ExpireCached
  <2> QED
    BY <1>7, <2>1, <2>2
<1>8. CASE \E row \in reading : StoreRead(row)
  BY <1>8 DEF TypeOK, StoreRead
<1>9. ASSUME NEW t \in Tab, Login(t) PROVE TypeOK'
  <2>1. /\ issued' \in 0 .. MaxTokens /\ cookies' \in 0 .. MaxCookies
        /\ refresh' \subseteq Cookie
    <3>1. issued' \in 0 .. MaxTokens /\ cookies' \in Cookie
      BY <1>9 DEF Login, TypeOK, Cookie
    <3>2. refresh' \subseteq refresh \union {cookies'}
      BY <1>9 DEF Login
    <3> QED
      BY <3>1, <3>2 DEF TypeOK, Cookie
  <2>2. tab' \in [Tab -> Request]
    BY <1>9, <2>1, AnswerKeepsTypes DEF Login
  <2> QED
    BY <1>9, <2>1, <2>2 DEF TypeOK, Login
<1>10. ASSUME NEW t \in Tab, SendRefresh(t) PROVE TypeOK'
  <2>1. tab' \in [Tab -> Request]
    BY <1>10, <1>a, StepIsARequest DEF SendRefresh, TypeOK, Step
  <2>2. UNCHANGED <<accountVars, socketVars, refresh, revoked, jar, issued,
                    cookies, expired, dead, faults>>
    BY <1>10 DEF SendRefresh
  <2> QED
    BY <2>1, <2>2, SMTT(30) DEF TypeOK
<1>11. ASSUME NEW t \in Tab, Validate(t) PROVE TypeOK'
  <2>1. CASE Answer(t, 0, "clear", 0)
    <3>1. tab' \in [Tab -> Request]
      BY <2>1, AnswerKeepsTypes
    <3>2. issued' \in 0 .. MaxTokens /\ faults' \in 0 .. MaxFaults
      BY <1>11 DEF Validate, TypeOK
    <3>3. UNCHANGED <<accountVars, socketVars, refresh, revoked, jar, cookies, expired, dead>>
      BY <1>11 DEF Validate
    <3> QED
      BY <3>1, <3>2, <3>3 DEF TypeOK
  <2>2. CASE /\ issued < MaxTokens /\ issued' = issued + 1
             /\ tab' = [tab EXCEPT ![t].at = "validated", ![t].jwt = issued']
    <3>1. issued' \in 0 .. MaxTokens
      BY <2>2 DEF TypeOK
    <3>2. [tab[t] EXCEPT !.at = "validated", !.jwt = issued'] \in Request
      BY <3>1, <1>a DEF Request, Step
    <3> QED
      BY <3>1, <3>2, <2>2, <1>11 DEF TypeOK, Validate
  <2> QED
    BY <2>1, <2>2, <1>11 DEF Validate
<1>12. ASSUME NEW t \in Tab, Rotate(t) PROVE TypeOK'
  <2>1. CASE Answer(t, tab[t].jwt, "keep", 0)
    <3>1. tab' \in [Tab -> Request]
      BY <2>1, <1>a, AnswerKeepsTypes
    <3>2. cookies' \in 0 .. MaxCookies /\ refresh' \subseteq Cookie
      BY <1>12 DEF TypeOK, Rotate, Cookie
    <3> QED
      BY <3>1, <3>2, <1>12 DEF TypeOK, Rotate
  <2>2. CASE tab' = [tab EXCEPT ![t].at = "created", ![t].new = cookies']
    <3>1. cookies' \in 0 .. MaxCookies
      <4>1. cookies < MaxCookies /\ cookies' = cookies + 1
        BY <1>12, SMTT(30) DEF Rotate
      <4>2. cookies \in 0 .. MaxCookies
        BY DEF TypeOK
      <4> QED
        BY <4>1, <4>2
    <3>2. [tab[t] EXCEPT !.at = "created", !.new = cookies'] \in Request
      BY <3>1, <1>a, StepIsARequest DEF Step
    <3>3. tab' \in [Tab -> Request]
      BY <3>2, <2>2 DEF TypeOK
    <3>4. refresh' \subseteq Cookie /\ faults' \in 0 .. MaxFaults
      BY <1>12, <3>1 DEF Rotate, TypeOK, Cookie
    <3>5. UNCHANGED <<accountVars, socketVars, revoked, jar, issued, expired, dead>>
      BY <1>12 DEF Rotate
    <3> QED
      BY <3>1, <3>3, <3>4, <3>5 DEF TypeOK
  <2> QED
    BY <2>1, <2>2, <1>12 DEF Rotate
<1>13. ASSUME NEW t \in Tab, DeleteOld(t) PROVE TypeOK'
  <2>1. tab' \in [Tab -> Request]
    BY <1>13, <1>a, AnswerKeepsTypes DEF DeleteOld
  <2> QED
    BY <1>13, <2>1, <1>a DEF TypeOK, DeleteOld
<1>14. ASSUME NEW t \in Tab, LogOut(t) PROVE TypeOK'
  <2>1. Idle(0) \in Request
    BY IdleIsARequest
  <2>2. [Idle(0) EXCEPT !.at = "logout", !.sent = jar, !.jwt = tab[t].token] \in Request
    BY <2>1, <1>a DEF TypeOK, Request, Step
  <2> QED
    BY <1>14, <2>2 DEF TypeOK, LogOut
<1>15. ASSUME NEW t \in Tab, Revoke(t) PROVE TypeOK'
  <2>1. [tab[t] EXCEPT !.at = "revoked"] \in Request
    BY <1>a DEF Request, Step
  <2>2. tab' \in [Tab -> Request]
    <3>1. CASE tab' = [tab EXCEPT ![t].at = "revoked"]
      BY <3>1, <2>1 DEF TypeOK
    <3>2. CASE Answer(t, 0, "keep", 0)
      BY <3>2, AnswerKeepsTypes
    <3> QED
      BY <1>15, <3>1, <3>2 DEF Revoke
  <2>3. revoked' \subseteq Token
    <3>1. revoked' \subseteq revoked \union {tab[t].jwt}
      BY <1>15 DEF Revoke
    <3>2. revoked' = revoked \/ tab[t].jwt \in Token
      BY <1>15, <1>a DEF Revoke, Authenticated, Token, TypeOK
    <3> QED
      BY <3>1, <3>2 DEF TypeOK
  <2>4. faults' \in 0 .. MaxFaults
    BY <1>15 DEF TypeOK, Revoke, Authenticated
  <2> QED
    BY <1>15, <2>2, <2>3, <2>4 DEF TypeOK, Revoke
<1>16. ASSUME NEW t \in Tab, DeleteCookie(t) PROVE TypeOK'
  <2>1. tab' \in [Tab -> Request]
    BY <1>16, AnswerKeepsTypes DEF DeleteCookie
  <2> QED
    BY <1>16, <2>1, <1>a DEF TypeOK, DeleteCookie
<1>17. ASSUME NEW t \in Tab, Receive(t) PROVE TypeOK'
  <2>1. tab' \in [Tab -> Request]
    BY <1>17, <1>a, IdleIsARequest DEF Receive, TypeOK
  <2>2. jar' \in 0 .. MaxCookies
    <3>1. tab[t].cookie \in {"keep", "clear", "set"}
      BY <1>a DEF Request
    <3> QED
      BY <3>1, <1>17, <1>a DEF Receive, TypeOK
  <2> QED
    BY <1>17, <2>1, <2>2 DEF TypeOK, Receive
<1>18. ASSUME NEW t \in Tab, Lose(t) PROVE TypeOK'
  <2>1. tab' \in [Tab -> Request]
    BY <1>18, <1>a, IdleIsARequest DEF Lose, TypeOK
  <2>2. tab[t].sent # 0 => tab[t].sent \in Cookie
    BY <1>a DEF Cookie
  <2>3. dead' \subseteq Cookie
    BY <1>18, <2>2 DEF Lose, TypeOK
  <2> QED
    BY <1>18, <2>1, <2>3 DEF TypeOK, Lose
<1>19. ASSUME NEW t \in Tab, AskTicket(t) PROVE TypeOK'
  BY <1>19 DEF TypeOK, AskTicket, Authenticated, Token, Ticket
<1>20. CASE GetByID
  BY <1>20 DEF TypeOK, AccountInv, GetByID, Authenticated
<1>21. CASE \E j \in Token : ExpireToken(j)
  BY <1>21 DEF TypeOK, ExpireToken
<1>22. CASE ExpireCookie
  BY <1>22 DEF TypeOK, ExpireCookie
<1>23. CASE \E k \in granting : handleWsTicket(k)
  BY <1>23 DEF TypeOK, handleWsTicket
<1>24. CASE \E k \in tickets : ExpireTicket(k)
  BY <1>24 DEF TypeOK, ExpireTicket
<1>25. CASE \E k \in tickets : TakeTicket(k)
  BY <1>25 DEF TypeOK, TakeTicket, Taken, Upgrade
<1>26. ASSUME NEW u \in upgrading, Open(u) PROVE TypeOK'
  <2>1. Opened(u, "passed") \in Socket /\ Opened(u, "skipped") \in Socket
    BY DEF TypeOK, Upgrade, Socket, Opened
  <2>2. sockets' \in Seq(Socket)
    BY <1>26, <2>1 DEF TypeOK, Open
  <2> QED
    BY <1>26, <2>2 DEF TypeOK, Open
<1>27. CASE UNCHANGED vars
  BY <1>27 DEF TypeOK, vars
<1> QED
  BY <1>1, <1>2, <1>3, <1>4, <1>5, <1>6, <1>7, <1>8, <1>9, <1>10,
     <1>11, <1>12, <1>13, <1>14, <1>15, <1>16, <1>17, <1>18, <1>19, <1>20, <1>21,
     <1>22, <1>23, <1>24, <1>25, <1>26, <1>27 DEF Next

LEMMA InitAccountInv == Init => AccountInv
BY DEF Init, AccountInv, Idle

LEMMA NextAccountInv == TypeOK /\ AccountInv /\ [Next]_vars => AccountInv'
<1> SUFFICES ASSUME TypeOK, AccountInv, [Next]_vars PROVE AccountInv'
  OBVIOUS
<1> USE DEF accountVars, socketVars
<1>1. CASE Register \/ Invite \/ SendActivation \/ ExpireInvitation
  BY <1>1 DEF AccountInv, TypeOK, Register, Invite, SendActivation, ExpireInvitation
<1>2. CASE Activate \/ FinishActivation \/ UpdateProfile \/ ExpireCached
  BY <1>2 DEF AccountInv, TypeOK, Activate, FinishActivation, UpdateProfile, ExpireCached
<1>3. CASE GetByID
  BY <1>3 DEF AccountInv, TypeOK, GetByID, Authenticated
<1>4. CASE \E row \in reading : StoreRead(row)
  BY <1>4 DEF AccountInv, TypeOK, StoreRead
<1>5. ASSUME NEW t \in Tab, Login(t) PROVE AccountInv'
  BY <1>5 DEF AccountInv, Login
<1>6. ASSUME NEW t \in Tab, Validate(t) PROVE AccountInv'
  <2>1. CASE tab[t].sent \in refresh
    BY <2>1, <1>6 DEF AccountInv, Validate
  <2>2. CASE tab[t].sent \notin refresh
    BY <2>2, <1>6, AnswerChanges DEF AccountInv, Validate
  <2> QED
    BY <2>1, <2>2
<1>7. ASSUME NEW t \in Tab, Rotate(t) PROVE AccountInv'
  BY <1>7 DEF AccountInv, Rotate
<1>10. ASSUME NEW t \in Tab,
              \/ SendRefresh(t) \/ DeleteOld(t) \/ LogOut(t) \/ Revoke(t)
              \/ DeleteCookie(t) \/ Receive(t) \/ Lose(t) \/ AskTicket(t)
      PROVE  AccountInv'
  <2>1. /\ UNCHANGED <<account, cached, reading, issued>>
        /\ refresh' \subseteq refresh
    BY <1>10 DEF SendRefresh, DeleteOld, LogOut, Revoke, DeleteCookie, Receive, Lose, AskTicket
  <2>2. \A u \in Tab : tab'[u].at = "validated" => tab[u].at = "validated"
    <3>1. CASE SendRefresh(t)
      BY <3>1 DEF SendRefresh, TypeOK
    <3>2. CASE DeleteOld(t) \/ DeleteCookie(t)
      BY <3>2, AnswerChanges DEF DeleteOld, DeleteCookie
    <3>3. CASE LogOut(t)
      BY <3>3 DEF LogOut, Idle, TypeOK
    <3>4. CASE Revoke(t)
      <4>1. CASE tab' = [tab EXCEPT ![t].at = "revoked"]
        BY <4>1 DEF TypeOK
      <4>2. CASE Answer(t, 0, "keep", 0)
        BY <4>2, AnswerChanges
      <4> QED
        BY <3>4, <4>1, <4>2 DEF Revoke
    <3>5. CASE Receive(t) \/ Lose(t)
      BY <3>5 DEF Receive, Lose, Idle, TypeOK
    <3>6. CASE AskTicket(t)
      BY <3>6 DEF AskTicket
    <3> QED
      BY <1>10, <3>1, <3>2, <3>3, <3>4, <3>5, <3>6
  <2> QED
    BY <2>1, <2>2 DEF AccountInv
<1>8. CASE \/ \E j \in Token : ExpireToken(j)
           \/ ExpireCookie
           \/ \E k \in granting : handleWsTicket(k)
           \/ \E k \in tickets : ExpireTicket(k) \/ TakeTicket(k)
           \/ \E u \in upgrading : Open(u)
  BY <1>8 DEF AccountInv, ExpireToken, ExpireCookie, handleWsTicket, ExpireTicket,
              TakeTicket, Open
<1>9. CASE UNCHANGED vars
  BY <1>9 DEF AccountInv, vars
<1> QED
  BY <1>1, <1>2, <1>3, <1>4, <1>5, <1>6, <1>7, <1>8, <1>9, <1>10 DEF Next

\* Every account, session and ticket keeps its type.
THEOREM TypeCorrect == Spec => []TypeOK
<1>1. Init => TypeOK /\ AccountInv
  BY InitTypeOK, InitAccountInv
<1>2. (TypeOK /\ AccountInv) /\ [Next]_vars => (TypeOK /\ AccountInv)'
  BY NextTypeOK, NextAccountInv
<1> QED
  BY <1>1, <1>2, PTL DEF Spec

\* The cached account is the one in the table, however reads, the activation
\* and its clearing of the cache overlap.
THEOREM CacheAgrees == Spec => []CachedIsCurrent
<1>1. Init => TypeOK /\ AccountInv
  BY InitTypeOK, InitAccountInv
<1>2. (TypeOK /\ AccountInv) /\ [Next]_vars => (TypeOK /\ AccountInv)'
  BY NextTypeOK, NextAccountInv
<1>3. AccountInv => CachedIsCurrent
  BY DEF AccountInv, CachedIsCurrent
<1> QED
  BY <1>1, <1>2, <1>3, PTL DEF Spec

-----------------------------------------------------------------------------
(* Tickets and sockets *)

\* One more socket uses up one more ticket.
LEMMA OpeningUses ==
  ASSUME TypeOK, TicketOpensOnce, NEW e \in Socket, e.ticket \notin Used,
         sockets' = Append(sockets, e)
  PROVE  Used' = Used \union {e.ticket} /\ TicketOpensOnce'
<1>1. sockets \in Seq(Socket)
  BY DEF TypeOK
<1>2. /\ Len(sockets') = Len(sockets) + 1 /\ Len(sockets) \in Nat
      /\ sockets'[Len(sockets) + 1] = e
      /\ \A i \in 1 .. Len(sockets) : sockets'[i] = sockets[i]
  BY <1>1
<1>3. Used' = Used \union {e.ticket}
  BY <1>2 DEF Used
<1>4. TicketOpensOnce'
  BY <1>2 DEF TicketOpensOnce, Used
<1> QED
  BY <1>3, <1>4

LEMMA InitTicketInv == Init => TicketInv /\ RevokedInv
BY DEF Init, TicketInv, RevokedInv, Distinct, Apart, Used, TicketOpensOnce, RevokedOpensNothing

LEMMA NextTicketInv == TypeOK /\ TicketInv /\ [Next]_vars => TicketInv'
<1> SUFFICES ASSUME TypeOK, TicketInv, [Next]_vars PROVE TicketInv'
  OBVIOUS
<1> USE DEF TicketInv
<1>a. granted \in Nat /\ Used \subseteq Ticket
  <2>1. \A i \in 1 .. Len(sockets) : sockets[i] \in Socket
    BY DEF TypeOK
  <2> QED
    BY <2>1, BoundsAssumption DEF TypeOK, Used, Socket
<1>b. \A k \in granting \union tickets \union upgrading : k.ticket \in Nat
  BY BoundsAssumption DEF TypeOK, Ticket, Upgrade
<1>1. ASSUME NEW t \in Tab, AskTicket(t) PROVE TicketInv'
  <2> DEFINE k == [ticket |-> granted + 1, jti |-> tab[t].token]
  <2>1. /\ granted' = granted + 1 /\ granting' = granting \union {k}
        /\ UNCHANGED <<tickets, upgrading, sockets>>
    BY <1>1 DEF AskTicket
  <2>2. k.ticket = granted + 1
    OBVIOUS
  <2>3. UNCHANGED <<Used, TicketOpensOnce>>
    BY <2>1 DEF Used, TicketOpensOnce
  <2> HIDE DEF k
  <2>4. Distinct(granting')
    BY <2>1, <2>2, <1>a, <1>b DEF Distinct
  <2>5. Apart(granting', tickets) /\ Apart(granting', upgrading)
    BY <2>1, <2>2, <1>a, <1>b DEF Apart
  <2>6. granted + 1 \notin Used
    BY <1>a DEF Ticket
  <2> QED
    BY <2>1, <2>2, <2>3, <2>4, <2>5, <2>6, <1>a, <1>b DEF Ticket
<1>2. ASSUME NEW k \in granting, handleWsTicket(k) PROVE TicketInv'
  <2>1. /\ granting' = granting \ {k}
        /\ tickets' \subseteq tickets \union {k}
        /\ UNCHANGED <<upgrading, sockets, granted>>
    BY <1>2 DEF handleWsTicket
  <2>2. UNCHANGED <<Used, TicketOpensOnce>>
    BY <2>1 DEF Used, TicketOpensOnce
  <2>3. Distinct(granting') /\ Distinct(tickets')
    BY <2>1 DEF Distinct, Apart
  <2>4. Apart(granting', tickets') /\ Apart(granting', upgrading) /\ Apart(tickets', upgrading)
    BY <2>1 DEF Distinct, Apart
  <2> QED
    BY <2>1, <2>2, <2>3, <2>4
<1>3. ASSUME NEW k \in tickets, ExpireTicket(k) PROVE TicketInv'
  BY <1>3 DEF ExpireTicket, Distinct, Apart, Used, TicketOpensOnce
<1>4. ASSUME NEW k \in tickets, TakeTicket(k) PROVE TicketInv'
  <2>1. /\ tickets' = tickets \ {k} /\ upgrading' = upgrading \union {Taken(k)}
        /\ UNCHANGED <<granting, sockets, granted>>
    BY <1>4 DEF TakeTicket
  <2>2. Taken(k).ticket = k.ticket
    BY DEF Taken
  <2>3. UNCHANGED <<Used, TicketOpensOnce>>
    BY <2>1 DEF Used, TicketOpensOnce
  <2>4. Distinct(tickets') /\ Distinct(upgrading')
    BY <2>1, <2>2 DEF Distinct, Apart
  <2>5. Apart(granting, tickets') /\ Apart(granting, upgrading') /\ Apart(tickets', upgrading')
    BY <2>1, <2>2 DEF Distinct, Apart
  <2> QED
    BY <2>1, <2>2, <2>3, <2>4, <2>5
<1>5. ASSUME NEW u \in upgrading, Open(u) PROVE TicketInv'
  <2>1. /\ upgrading' = upgrading \ {u}
        /\ UNCHANGED <<tickets, granting, granted>>
    BY <1>5 DEF Open
  <2>2. /\ Distinct(upgrading')
        /\ Apart(granting, upgrading') /\ Apart(tickets, upgrading')
    BY <2>1 DEF Distinct, Apart
  <2>3. CASE UNCHANGED sockets
    BY <2>1, <2>2, <2>3 DEF Used, TicketOpensOnce
  <2>4. ASSUME NEW check \in {"passed", "skipped"},
               sockets' = Append(sockets, Opened(u, check))
        PROVE  TicketInv'
    <3>1. Opened(u, check) \in Socket /\ Opened(u, check).ticket = u.ticket
      BY DEF TypeOK, Upgrade, Socket, Opened
    <3>2. Used' = Used \union {u.ticket} /\ TicketOpensOnce'
      BY <3>1, <2>4, OpeningUses
    <3>3. \A k \in granting \union tickets \union upgrading' : k.ticket # u.ticket
      BY <2>1 DEF Distinct, Apart
    <3> QED
      BY <2>1, <2>2, <3>2, <3>3
  <2> QED
    BY <1>5, <2>3, <2>4 DEF Open
<1>6. CASE UNCHANGED socketVars
  BY <1>6 DEF socketVars, Used, TicketOpensOnce
<1> QED
  <2>1. ASSUME NEW t \in Tab,
               \/ Login(t) \/ SendRefresh(t) \/ Validate(t) \/ Rotate(t) \/ DeleteOld(t)
               \/ LogOut(t) \/ Revoke(t) \/ DeleteCookie(t) \/ Receive(t) \/ Lose(t)
        PROVE  UNCHANGED socketVars
    BY <2>1 DEF Login, SendRefresh, Validate, Rotate, DeleteOld, LogOut, Revoke,
                DeleteCookie, Receive, Lose
  <2>2. CASE \/ Register \/ Invite \/ SendActivation \/ ExpireInvitation
             \/ Activate \/ FinishActivation \/ GetByID
             \/ UpdateProfile \/ ExpireCached
             \/ \E row \in reading : StoreRead(row)
             \/ \E j \in Token : ExpireToken(j)
             \/ ExpireCookie
    BY <2>2, <1>6 DEF Register, Invite, SendActivation, ExpireInvitation, Activate,
         FinishActivation, GetByID, UpdateProfile, ExpireCached,
         StoreRead, ExpireToken, ExpireCookie
  <2>3. CASE UNCHANGED vars
    BY <2>3, <1>6 DEF vars
  <2> QED
    BY <1>1, <1>2, <1>3, <1>4, <1>5, <1>6, <2>1, <2>2, <2>3 DEF Next

\* No ticket opens a second socket: GETDEL hands it out once, and no place
\* it was in before keeps it.
THEOREM OneSocketPerTicket == Spec => []TicketOpensOnce
<1>1. Init => TypeOK /\ AccountInv /\ TicketInv
  BY InitTypeOK, InitAccountInv, InitTicketInv
<1>2. (TypeOK /\ AccountInv /\ TicketInv) /\ [Next]_vars => (TypeOK /\ AccountInv /\ TicketInv)'
  BY NextTypeOK, NextAccountInv, NextTicketInv
<1>3. TicketInv => TicketOpensOnce
  BY DEF TicketInv
<1> QED
  BY <1>1, <1>2, <1>3, PTL DEF Spec

LEMMA NextRevokedInv == TypeOK /\ RevokedInv /\ [Next]_vars => RevokedInv'
<1> SUFFICES ASSUME TypeOK, RevokedInv, [Next]_vars PROVE RevokedInv'
  OBVIOUS
<1> USE DEF RevokedInv
<1>1. revoked \subseteq revoked'
  <2>1. ASSUME NEW t \in Tab,
               \/ Login(t) \/ SendRefresh(t) \/ Validate(t) \/ Rotate(t) \/ DeleteOld(t)
               \/ LogOut(t) \/ DeleteCookie(t) \/ Receive(t) \/ Lose(t) \/ AskTicket(t)
        PROVE  revoked \subseteq revoked'
    BY <2>1 DEF Login, SendRefresh, Validate, Rotate, DeleteOld, LogOut,
                DeleteCookie, Receive, Lose, AskTicket
  <2>2. ASSUME NEW t \in Tab, Revoke(t) PROVE revoked \subseteq revoked'
    BY <2>2 DEF Revoke
  <2>3. CASE \/ Register \/ Invite \/ SendActivation \/ ExpireInvitation
             \/ Activate \/ FinishActivation \/ GetByID
             \/ UpdateProfile \/ ExpireCached
             \/ \E row \in reading : StoreRead(row)
             \/ \E j \in Token : ExpireToken(j)
             \/ ExpireCookie
    BY <2>3 DEF Register, Invite, SendActivation, ExpireInvitation, Activate,
         FinishActivation, GetByID, UpdateProfile, ExpireCached,
         StoreRead, ExpireToken, ExpireCookie
  <2>4. CASE \/ \E k \in granting : handleWsTicket(k)
             \/ \E k \in tickets : ExpireTicket(k) \/ TakeTicket(k)
             \/ \E u \in upgrading : Open(u)
    BY <2>4 DEF handleWsTicket, ExpireTicket, TakeTicket, Open
  <2>5. CASE UNCHANGED vars
    BY <2>5 DEF vars
  <2> QED
    BY <2>1, <2>2, <2>3, <2>4, <2>5 DEF Next
<1>2. ASSUME NEW k \in tickets, TakeTicket(k) PROVE RevokedInv'
  <2>1. /\ upgrading' = upgrading \union {Taken(k)}
        /\ UNCHANGED <<sockets, revoked>>
    BY <1>2 DEF TakeTicket
  <2>2. Taken(k).was = "revoked" => Taken(k).jti \in revoked
    BY DEF Taken
  <2> QED
    BY <2>1, <2>2 DEF RevokedOpensNothing
<1>3. ASSUME NEW u \in upgrading, Open(u) PROVE RevokedInv'
  <2>1. upgrading' \subseteq upgrading /\ UNCHANGED revoked
    BY <1>3 DEF Open
  <2>2. CASE UNCHANGED sockets
    BY <2>1, <2>2 DEF RevokedOpensNothing
  <2>3. ASSUME NEW check \in {"passed", "skipped"},
               sockets' = Append(sockets, Opened(u, check)),
               check = "passed" => u.jti \notin revoked
        PROVE  RevokedInv'
    <3>1. /\ Opened(u, check).was = u.was /\ Opened(u, check).check = check
          /\ sockets \in Seq(Socket)
      BY DEF Opened, TypeOK
    <3>2. u.was = "revoked" => check = "skipped"
      BY <2>3
    <3>3. /\ Len(sockets') = Len(sockets) + 1 /\ Len(sockets) \in Nat
          /\ sockets'[Len(sockets) + 1] = Opened(u, check)
          /\ \A i \in 1 .. Len(sockets) : sockets'[i] = sockets[i]
      BY <2>3, <3>1
    <3>4. RevokedOpensNothing'
      BY <3>1, <3>2, <3>3 DEF RevokedOpensNothing
    <3> QED
      BY <2>1, <3>4
  <2> QED
    BY <1>3, <2>2, <2>3 DEF Open
<1>4. CASE UNCHANGED sockets /\ upgrading' \subseteq upgrading
  BY <1>1, <1>4 DEF RevokedOpensNothing
<1> QED
  <2>1. ASSUME NEW t \in Tab,
               \/ Login(t) \/ SendRefresh(t) \/ Validate(t) \/ Rotate(t) \/ DeleteOld(t)
               \/ LogOut(t) \/ Revoke(t) \/ DeleteCookie(t) \/ Receive(t) \/ Lose(t)
               \/ AskTicket(t)
        PROVE  UNCHANGED <<sockets, upgrading>>
    BY <2>1 DEF Login, SendRefresh, Validate, Rotate, DeleteOld, LogOut, Revoke,
                DeleteCookie, Receive, Lose, AskTicket, socketVars
  <2>2. CASE \/ Register \/ Invite \/ SendActivation \/ ExpireInvitation
             \/ Activate \/ FinishActivation \/ GetByID
             \/ UpdateProfile \/ ExpireCached
             \/ \E row \in reading : StoreRead(row)
             \/ \E j \in Token : ExpireToken(j)
             \/ ExpireCookie
    BY <2>2, <1>4 DEF Register, Invite, SendActivation, ExpireInvitation, Activate,
         FinishActivation, GetByID, UpdateProfile, ExpireCached,
         StoreRead, ExpireToken, ExpireCookie,
         socketVars
  <2>3. CASE \/ \E k \in granting : handleWsTicket(k)
             \/ \E k \in tickets : ExpireTicket(k)
             \/ UNCHANGED vars
    BY <2>3, <1>4 DEF handleWsTicket, ExpireTicket, vars, socketVars
  <2> QED
    BY <1>2, <1>3, <1>4, <2>1, <2>2, <2>3 DEF Next

\* A token that was revoked when its ticket was presented opens no socket
\* whose check Redis answered.
THEOREM LogoutClosesTickets == Spec => []RevokedOpensNothing
<1>1. Init => TypeOK /\ AccountInv /\ RevokedInv
  BY InitTypeOK, InitAccountInv, InitTicketInv
<1>2. (TypeOK /\ AccountInv /\ RevokedInv) /\ [Next]_vars => (TypeOK /\ AccountInv /\ RevokedInv)'
  BY NextTypeOK, NextAccountInv, NextRevokedInv
<1>3. RevokedInv => RevokedOpensNothing
  BY DEF RevokedInv
<1> QED
  BY <1>1, <1>2, <1>3, PTL DEF Spec

-----------------------------------------------------------------------------
(* The browser's cookie *)

LEMMA InitCookieInv == Init => CookieInv
BY BoundsAssumption DEF Init, CookieInv, CookiesCounted, ComingIsFresh, CookieKept,
     Coming, Idle

LEMMA NextCookieInv == TypeOK /\ CookieInv /\ [Next]_vars => CookieInv'
<1> SUFFICES ASSUME TypeOK, CookieInv, [Next]_vars PROVE CookieInv'
  OBVIOUS
<1> USE DEF CookieInv
<1>a. /\ \A t \in Tab : /\ tab[t] \in Request
                        /\ tab[t].sent \in Nat /\ tab[t].new \in Nat
                        /\ tab[t].cookie \in {"keep", "clear", "set"}
      /\ jar \in Nat /\ cookies \in Nat /\ refresh \subseteq Nat \ {0}
      /\ tab \in [Tab -> Request]
  BY BoundsAssumption DEF TypeOK, Request, Cookie
<1>1. ASSUME NEW t \in Tab, Login(t) PROVE CookieInv'
  <2>1. /\ cookies' = cookies + 1 /\ refresh' \subseteq refresh \union {cookies + 1}
        /\ refresh \subseteq refresh'
        /\ UNCHANGED <<jar, dead>>
    BY <1>1 DEF Login
  <2>2. /\ tab'[t].sent = tab[t].sent /\ tab'[t].at = "answer"
        /\ \A u \in Tab \ {t} : tab'[u] = tab[u]
        /\ \/ tab'[t].cookie = "keep"
           \/ tab'[t].new = cookies + 1 /\ cookies + 1 \in refresh'
    BY <1>1, <2>1, AnswerChanges DEF Login
  <2>3. tab[t].at = "idle"
    BY <1>1 DEF Login
  <2>4. CookiesCounted'
    BY <2>1, <2>2, <1>a DEF CookiesCounted
  <2>5. ComingIsFresh'
    BY <2>1, <2>2, <1>a DEF ComingIsFresh, Coming, CookiesCounted
  <2>6. CookieKept'
    BY <2>1, <2>2, <2>3, <1>a DEF CookieKept, Replaces
  <2> QED
    BY <2>4, <2>5, <2>6
<1>2. ASSUME NEW t \in Tab, SendRefresh(t) PROVE CookieInv'
  <2>1. /\ tab'[t].at = "sent" /\ tab'[t].sent = jar /\ tab[t].at = "idle"
        /\ \A u \in Tab \ {t} : tab'[u] = tab[u]
        /\ UNCHANGED <<refresh, jar, cookies, dead>>
    BY <1>2, <1>a DEF SendRefresh, Request
  <2>2. CookiesCounted'
    BY <2>1 DEF CookiesCounted
  <2>3. ComingIsFresh'
    BY <2>1 DEF ComingIsFresh, Coming
  <2>4. CookieKept'
    BY <2>1 DEF CookieKept, Replaces
  <2> QED
    BY <2>2, <2>3, <2>4
<1>3. ASSUME NEW t \in Tab, Validate(t) PROVE CookieInv'
  <2>1. /\ tab'[t].sent = tab[t].sent /\ tab[t].at = "sent"
        /\ \A u \in Tab \ {t} : tab'[u] = tab[u]
        /\ \/ tab'[t].at = "validated"
           \/ tab'[t].at = "answer" /\ tab'[t].cookie = "clear"
        /\ UNCHANGED <<refresh, jar, cookies, dead>>
    <3>1. CASE Answer(t, 0, "clear", 0)
      BY <3>1, <1>3, AnswerChanges DEF Validate
    <3>2. CASE tab' = [tab EXCEPT ![t].at = "validated", ![t].jwt = issued']
      BY <3>2, <1>3, <1>a DEF Validate, Request
    <3> QED
      BY <1>3, <3>1, <3>2 DEF Validate
  <2>2. CookiesCounted'
    BY <2>1 DEF CookiesCounted
  <2>3. ComingIsFresh'
    BY <2>1 DEF ComingIsFresh, Coming
  <2>4. CookieKept'
    BY <2>1 DEF CookieKept, Replaces
  <2> QED
    BY <2>2, <2>3, <2>4
<1>4. ASSUME NEW t \in Tab, Rotate(t) PROVE CookieInv'
  <2>1. /\ cookies' = cookies + 1 /\ refresh' \subseteq refresh \union {cookies + 1}
        /\ refresh \subseteq refresh' /\ tab[t].at = "validated"
        /\ UNCHANGED <<jar, dead>>
    BY <1>4 DEF Rotate
  <2>2. /\ tab'[t].sent = tab[t].sent
        /\ \A u \in Tab \ {t} : tab'[u] = tab[u]
        /\ \/ tab'[t].at = "answer" /\ tab'[t].cookie = "keep"
           \/ tab'[t].at = "created" /\ tab'[t].new = cookies + 1 /\ cookies + 1 \in refresh'
    <3>1. CASE Answer(t, tab[t].jwt, "keep", 0)
      BY <3>1, AnswerChanges
    <3>2. CASE /\ tab' = [tab EXCEPT ![t].at = "created", ![t].new = cookies']
               /\ refresh' = refresh \union {cookies'}
      BY <3>2, <2>1, <1>a DEF Request
    <3> QED
      BY <1>4, <3>1, <3>2 DEF Rotate
  <2>3. CookiesCounted'
    BY <2>1, <2>2, <1>a DEF CookiesCounted
  <2>4. ComingIsFresh'
    BY <2>1, <2>2, <1>a DEF ComingIsFresh, Coming, CookiesCounted
  <2>5. CookieKept'
    BY <2>1, <2>2 DEF CookieKept, Replaces
  <2> QED
    BY <2>3, <2>4, <2>5
<1>5. ASSUME NEW t \in Tab, DeleteOld(t) PROVE CookieInv'
  <2>1. /\ tab'[t].sent = tab[t].sent /\ tab'[t].new = tab[t].new
        /\ tab[t].at = "created" /\ tab'[t].at = "answer" /\ tab'[t].cookie = "set"
        /\ \A u \in Tab \ {t} : tab'[u] = tab[u]
        /\ refresh' \in {refresh, refresh \ {tab[t].sent}}
        /\ UNCHANGED <<jar, cookies, dead>>
    BY <1>5, AnswerChanges DEF DeleteOld
  <2>2. CookiesCounted'
    BY <2>1 DEF CookiesCounted
  <2>3. ComingIsFresh'
    BY <2>1 DEF ComingIsFresh, Coming
  <2>4. CookieKept'
    BY <2>1 DEF CookieKept, Replaces
  <2> QED
    BY <2>2, <2>3, <2>4
<1>6. ASSUME NEW t \in Tab, LogOut(t) PROVE CookieInv'
  <2>1. /\ tab'[t].at = "logout" /\ tab'[t].sent = jar /\ tab[t].at = "idle"
        /\ \A u \in Tab \ {t} : tab'[u] = tab[u]
        /\ UNCHANGED <<refresh, jar, cookies, dead>>
    BY <1>6, <1>a DEF LogOut, Idle
  <2>2. CookiesCounted'
    BY <2>1 DEF CookiesCounted
  <2>3. ComingIsFresh'
    BY <2>1 DEF ComingIsFresh, Coming
  <2>4. CookieKept'
    BY <2>1 DEF CookieKept, Replaces
  <2> QED
    BY <2>2, <2>3, <2>4
<1>7. ASSUME NEW t \in Tab, Revoke(t) PROVE CookieInv'
  <2>1. /\ tab'[t].sent = tab[t].sent /\ tab[t].at = "logout"
        /\ \A u \in Tab \ {t} : tab'[u] = tab[u]
        /\ \/ tab'[t].at = "revoked"
           \/ tab'[t].at = "answer" /\ tab'[t].cookie = "keep"
        /\ UNCHANGED <<refresh, jar, cookies, dead>>
    <3>1. CASE Answer(t, 0, "keep", 0)
      BY <3>1, <1>7, AnswerChanges DEF Revoke
    <3>2. CASE tab' = [tab EXCEPT ![t].at = "revoked"]
      BY <3>2, <1>7, <1>a DEF Revoke, Request
    <3> QED
      BY <1>7, <3>1, <3>2 DEF Revoke
  <2>2. CookiesCounted'
    BY <2>1 DEF CookiesCounted
  <2>3. ComingIsFresh'
    BY <2>1 DEF ComingIsFresh, Coming
  <2>4. CookieKept'
    BY <2>1 DEF CookieKept, Replaces
  <2> QED
    BY <2>2, <2>3, <2>4
<1>8. ASSUME NEW t \in Tab, DeleteCookie(t) PROVE CookieInv'
  <2>1. /\ tab'[t].sent = tab[t].sent
        /\ tab[t].at = "revoked" /\ tab'[t].at = "answer" /\ tab'[t].cookie = "clear"
        /\ \A u \in Tab \ {t} : tab'[u] = tab[u]
        /\ refresh' \in {refresh, refresh \ {tab[t].sent}}
        /\ UNCHANGED <<jar, cookies, dead>>
    BY <1>8, AnswerChanges DEF DeleteCookie
  <2>2. CookiesCounted'
    BY <2>1 DEF CookiesCounted
  <2>3. ComingIsFresh'
    BY <2>1 DEF ComingIsFresh, Coming
  <2>4. CookieKept'
    BY <2>1 DEF CookieKept, Replaces
  <2> QED
    BY <2>2, <2>3, <2>4
<1>9. ASSUME NEW t \in Tab, Receive(t) PROVE CookieInv'
  <2>1. /\ tab'[t].at = "idle" /\ tab'[t].sent = 0
        /\ tab[t].at = "answer"
        /\ \A u \in Tab \ {t} : tab'[u] = tab[u]
        /\ UNCHANGED <<refresh, cookies, dead>>
    BY <1>9, <1>a DEF Receive, Idle
  <2>2. /\ tab[t].cookie = "set" => jar' = tab[t].new
        /\ tab[t].cookie = "clear" => jar' = 0
        /\ tab[t].cookie = "keep" => jar' = jar
    BY <1>9 DEF Receive
  <2>3. tab[t].cookie = "set" => Coming(t)
    BY <2>1 DEF Coming
  <2>4. CookiesCounted'
    BY <2>1, <2>2, <2>3, <1>a DEF CookiesCounted, ComingIsFresh
  <2>5. ComingIsFresh'
    BY <2>1, <2>2, <2>3, <1>a DEF ComingIsFresh, Coming
  <2>6. CookieKept'
    BY <2>1, <2>2, <2>3, <1>a DEF CookieKept, Replaces, ComingIsFresh
  <2> QED
    BY <2>4, <2>5, <2>6
<1>10. ASSUME NEW t \in Tab, Lose(t) PROVE CookieInv'
  <2>1. /\ tab'[t].at = "idle" /\ tab'[t].sent = 0
        /\ \A u \in Tab \ {t} : tab'[u] = tab[u]
        /\ UNCHANGED <<refresh, jar, cookies>>
    BY <1>10, <1>a DEF Lose, Idle
  <2>2. /\ dead \subseteq dead'
        /\ tab[t].at = "answer" /\ tab[t].sent # 0 => tab[t].sent \in dead'
    BY <1>10 DEF Lose
  <2>3. CookiesCounted'
    BY <2>1, <1>a DEF CookiesCounted
  <2>4. ComingIsFresh'
    BY <2>1, <1>a DEF ComingIsFresh, Coming
  <2>5. CookieKept'
    BY <2>1, <2>2 DEF CookieKept, Replaces
  <2> QED
    BY <2>3, <2>4, <2>5
<1>11. CASE ExpireCookie
  <2>1. /\ jar' = 0 /\ refresh' = refresh \ {jar}
        /\ \A t \in Tab : tab[t].new # jar
        /\ UNCHANGED <<tab, cookies, dead>>
    BY <1>11 DEF ExpireCookie
  <2>2. CookiesCounted'
    BY <2>1, <1>a DEF CookiesCounted
  <2>3. ComingIsFresh'
    BY <2>1, <1>a DEF ComingIsFresh, Coming
  <2>4. CookieKept'
    BY <2>1 DEF CookieKept
  <2> QED
    BY <2>2, <2>3, <2>4
<1>12. CASE UNCHANGED <<refresh, jar, tab, cookies, dead>>
  BY <1>12 DEF CookiesCounted, ComingIsFresh, CookieKept, Coming, Replaces
<1> QED
  <2>1. CASE \/ Register \/ Invite \/ SendActivation \/ ExpireInvitation
             \/ Activate \/ FinishActivation \/ GetByID
             \/ UpdateProfile \/ ExpireCached
             \/ \E row \in reading : StoreRead(row)
             \/ \E t \in Tab : AskTicket(t)
             \/ \E j \in Token : ExpireToken(j)
    BY <2>1, <1>12 DEF Register, Invite, SendActivation, ExpireInvitation, Activate,
         FinishActivation, GetByID, UpdateProfile, ExpireCached,
         StoreRead, AskTicket, ExpireToken
  <2>2. CASE \/ \E k \in granting : handleWsTicket(k)
             \/ \E k \in tickets : ExpireTicket(k) \/ TakeTicket(k)
             \/ \E u \in upgrading : Open(u)
             \/ UNCHANGED vars
    BY <2>2, <1>12 DEF handleWsTicket, ExpireTicket, TakeTicket, Open, vars
  <2> QED
    BY <1>1, <1>2, <1>3, <1>4, <1>5, <1>6, <1>7, <1>8, <1>9, <1>10, <1>11, <2>1, <2>2
       DEF Next

\* The browser's cookie is valid, or an answer that replaces it is on its way
\* or was lost, for any number of tabs, requests and failures.
THEOREM BrowserKeepsItsSession == Spec => []CookieIsValid
<1>1. Init => TypeOK /\ AccountInv /\ CookieInv
  BY InitTypeOK, InitAccountInv, InitCookieInv
<1>2. (TypeOK /\ AccountInv /\ CookieInv) /\ [Next]_vars => (TypeOK /\ AccountInv /\ CookieInv)'
  BY NextTypeOK, NextAccountInv, NextCookieInv
<1>3. CookieInv => CookieIsValid
  BY DEF CookieInv, CookieKept, Replaces, CookieIsValid
<1> QED
  BY <1>1, <1>2, <1>3, PTL DEF Spec

===============================================================================
