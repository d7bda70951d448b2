------------------------------ MODULE Sessions ------------------------------
(***************************************************************************)
(* Sessions of one account: the sessions table, the refresh cookie each    *)
(* device keeps, the access token each tab holds in memory, and the        *)
(* requests that move between them.                                        *)
(*                                                                         *)
(* A refresh token is a number, in the order of issue; a family is named   *)
(* by its first token. Every SQL statement of a handler is a step. What a  *)
(* promise does when it settles is one step with what settles it, because  *)
(* no other event runs between the two.                                    *)
(***************************************************************************)
EXTENDS Naturals, FiniteSets

CONSTANTS
  Device,    \* browsers: a cookie jar each
  BrowserTab,  \* pages open in them
  DeviceOf,  \* the browser of a tab
  Call,      \* API calls a page may have under way at once
  MaxCalls,  \* bound: API calls under way in all tabs
  Request,   \* bound: refreshes and logouts under way at once
  MaxToken,  \* bound: refresh tokens issued
  MayLose    \* whether a device may lose an answer, or have a handler fail

ASSUME SessionsAssumption ==
  /\ DeviceOf \in [BrowserTab -> Device]
  /\ MaxToken \in Nat
  /\ MaxCalls \in Nat
  /\ MayLose \in BOOLEAN

VARIABLES
  family,   \* sessions.family_id of a token; 0: no such row
  revoked,  \* the tokens whose row has revoked_at
  cookie,   \* the refresh token of a device; 0: none
  session,  \* the family of a tab's access token; 0: no session
  expired,  \* the tabs whose access token is past its fifteen minutes
  call,     \* what an API call of a tab waits for
  asked,    \* the refresh or logout a request is
  lost,     \* history: devices that missed the answer to a refresh
  tabsCrossed  \* history: devices where two tabs refreshed at once

serverVars == <<family, revoked>>
callerVars == <<session, expired, call>>
sessionsHistory == <<lost, tabsCrossed>>
sessionsVars == <<serverVars, cookie, callerVars, asked, sessionsHistory>>

Token == 1 .. MaxToken
TokenOrNone == 0 .. MaxToken
CallState == {"idle", "fresh", "stale", "waiting", "again"}
Steps == {"sent", "found", "retired", "reuse", "refused", "rotated", "ended"}
Asked ==
  [kind  : {"try", "boot", "logout"},
   step  : Steps,        \* how far its handler is
   tab   : BrowserTab,
   heard : BOOLEAN,      \* whether the page that asked still listens
   token : TokenOrNone,  \* the cookie it was sent with
   new   : TokenOrNone]  \* the cookie its answer sets; 0 clears it

NoRequest == [step |-> "none"]
Idle(r) == asked[r] = NoRequest
InFlight(t, kind) == {r \in Request : ~Idle(r) /\ asked[r].tab = t /\ asked[r].heard /\ asked[r].kind = kind}
Live(f) == {k \in Token : family[k] = f /\ k \notin revoked}
NextToken == 1 + Cardinality({k \in Token : family[k] # 0})

SessionsTypeOK ==
  /\ family \in [Token -> TokenOrNone]
  /\ revoked \subseteq Token
  /\ cookie \in [Device -> TokenOrNone]
  /\ session \in [BrowserTab -> TokenOrNone]
  /\ expired \subseteq BrowserTab
  /\ call \in [BrowserTab -> [Call -> CallState]]
  /\ asked \in [Request -> Asked \cup {NoRequest}]
  /\ lost \subseteq Device /\ tabsCrossed \subseteq Device

NoCalls == [c \in Call |-> "idle"]

SessionsInit ==
  /\ family = [k \in Token |-> 0]
  /\ revoked = {}
  /\ cookie = [d \in Device |-> 0]
  /\ session = [t \in BrowserTab |-> 0]
  /\ expired = {}
  /\ call = [t \in BrowserTab |-> NoCalls]
  /\ asked = [r \in Request |-> NoRequest]
  /\ lost = {} /\ tabsCrossed = {}

-----------------------------------------------------------------------------
(* The session store of a tab.                                             *)

SetSession(t, f) ==
  /\ session' = [session EXCEPT ![t] = f]
  /\ expired' = expired \ {t}

ClearSession(t) ==
  /\ session' = [session EXCEPT ![t] = 0]
  /\ expired' = expired \ {t}

Refreshing(d) == {r \in Request : ~Idle(r) /\ asked[r].kind # "logout" /\ DeviceOf[asked[r].tab] = d}
Cross(t) ==
  tabsCrossed' = IF \E r \in Refreshing(DeviceOf[t]) : asked[r].tab # t THEN tabsCrossed \cup {DeviceOf[t]} ELSE tabsCrossed

(* A request leaves with the cookie of its device.                         *)
Send(r, kind, t) ==
  /\ Idle(r)
  /\ asked' = [asked EXCEPT ![r] =
       [kind |-> kind, step |-> "sent", tab |-> t, heard |-> TRUE, token |-> cookie[DeviceOf[t]], new |-> 0]]

(* login(): a new row of a new family, its cookie and its access token.    *)
Login(t) ==
  LET k == NextToken IN
  /\ session[t] = 0 /\ InFlight(t, "boot") = {}
  /\ k \in Token
  /\ family' = [family EXCEPT ![k] = k]
  /\ cookie' = [cookie EXCEPT ![DeviceOf[t]] = k]
  /\ SetSession(t, k)
  /\ UNCHANGED <<revoked, call, asked, sessionsHistory>>

(* The access token's fifteen minutes are over, also for calls under way.  *)
Expire(t) ==
  /\ session[t] # 0 /\ t \notin expired
  /\ expired' = expired \cup {t}
  /\ call' = [call EXCEPT ![t] = [c \in Call |-> IF @[c] = "fresh" THEN "stale" ELSE @[c]]]
  /\ UNCHANGED <<serverVars, cookie, session, asked, sessionsHistory>>

(* The page is loaded again: its memory is gone, requests under way are    *)
(* not heard of any more, and RequireSession's first effect redeems the    *)
(* cookie (bootstrapSession).                                              *)
Reload(t, r) ==
  LET unheard == {q \in Request : ~Idle(q) /\ asked[q].tab = t /\ asked[q].heard} IN
  /\ Idle(r)
  /\ asked' = [q \in Request |->
       IF q = r THEN [kind |-> "boot", step |-> "sent", tab |-> t, heard |-> TRUE, token |-> cookie[DeviceOf[t]], new |-> 0]
       ELSE IF q \in unheard THEN [asked[q] EXCEPT !.heard = FALSE] ELSE asked[q]]
  /\ lost' = IF unheard = {} THEN lost ELSE lost \cup {DeviceOf[t]}
  /\ ClearSession(t)
  /\ call' = [call EXCEPT ![t] = NoCalls]
  /\ Cross(t)
  /\ UNCHANGED <<serverVars, cookie>>

-----------------------------------------------------------------------------
(* apiFetch.                                                               *)

Fetch(t, c) ==
  /\ session[t] # 0 /\ call[t][c] = "idle"
  /\ Cardinality({x \in BrowserTab \X Call : call[x[1]][x[2]] # "idle"}) < MaxCalls
  /\ call' = [call EXCEPT ![t][c] = IF t \in expired THEN "stale" ELSE "fresh"]
  /\ UNCHANGED <<serverVars, cookie, session, expired, asked, sessionsHistory>>

(* Any answer but a 401 that may be retried settles the call.              *)
RespondToCall(t, c) ==
  /\ call[t][c] \in {"fresh", "again"}
  /\ call' = [call EXCEPT ![t][c] = "idle"]
  /\ UNCHANGED <<serverVars, cookie, session, expired, asked, sessionsHistory>>

(* Mutant: every 401 starts a refresh of its own.                          *)
RefreshEach(t, r) == Send(r, "try", t) /\ Cross(t)

(* refreshOnce: a 401 joins the refresh under way, or starts one.          *)
RefreshOnce(t, r) == IF InFlight(t, "try") # {} THEN UNCHANGED <<asked, tabsCrossed>> ELSE Send(r, "try", t) /\ Cross(t)

(* A 401. Without a session any more, and no refresh under way to join,    *)
(* tryRefresh gives up and the call throws.                                *)
Unauthorized(t, c, r) ==
  /\ call[t][c] = "stale"
  /\ IF session[t] = 0 /\ InFlight(t, "try") = {}
       THEN call' = [call EXCEPT ![t][c] = "idle"] /\ UNCHANGED <<asked, tabsCrossed>>
       ELSE call' = [call EXCEPT ![t][c] = "waiting"] /\ RefreshOnce(t, r)
  /\ UNCHANGED <<serverVars, cookie, session, expired, lost>>

-----------------------------------------------------------------------------
(* The handlers of POST /refresh and POST /logout.                         *)

Advance(r, step) == asked' = [asked EXCEPT ![r].step = step]
Refuse(r) == asked' = [asked EXCEPT ![r].step = "refused", ![r].new = 0]

(* Mutant: the handler looks a missing cookie up.                          *)
FindWithoutCookie(r) ==
  LET a == asked[r] IN
  /\ a.step = "sent"
  /\ Advance(r, IF a.kind = "logout" \/ a.token \in revoked THEN "reuse" ELSE "found")
  /\ UNCHANGED <<serverVars, cookie, callerVars, sessionsHistory>>

(* FindByRefreshHash and DetectReuse. Without a cookie there is no lookup. *)
FindByRefreshHash(r) ==
  LET a == asked[r] IN
  /\ a.step = "sent"
  /\ IF a.token = 0 THEN Advance(r, IF a.kind = "logout" THEN "ended" ELSE "refused")
     ELSE IF a.kind = "logout" \/ a.token \in revoked THEN Advance(r, "reuse")
     ELSE Advance(r, "found")
  /\ UNCHANGED <<serverVars, cookie, callerVars, sessionsHistory>>

(* RevokeFamily: every row the family has now, not those still to come.    *)
RevokeFamily(r) ==
  /\ asked[r].step = "reuse"
  /\ revoked' = revoked \cup Live(family[asked[r].token])
  /\ Advance(r, IF asked[r].kind = "logout" THEN "ended" ELSE "refused")
  /\ UNCHANGED <<family, cookie, callerVars, sessionsHistory>>

(* Revoke: the presented token is retired ...                              *)
Revoke(r) ==
  /\ asked[r].step = "found"
  /\ revoked' = revoked \cup {asked[r].token}
  /\ Advance(r, "retired")
  /\ UNCHANGED <<family, cookie, callerVars, sessionsHistory>>

(* ... and Rotate issues its successor.                                    *)
Rotate(r) ==
  LET k == NextToken IN
  /\ asked[r].step = "retired"
  /\ k \in Token
  /\ family' = [family EXCEPT ![k] = family[asked[r].token]]
  /\ asked' = [asked EXCEPT ![r].step = "rotated", ![r].new = k]
  /\ UNCHANGED <<revoked, cookie, callerVars, sessionsHistory>>

(* A statement fails, or the client has gone and with it the context: the  *)
(* answer is an error, and a refresh's clears the cookie.                  *)
Fail(r) ==
  /\ asked[r].step \in {"sent", "found", "retired", "reuse"}
  /\ MayLose /\ DeviceOf[asked[r].tab] \notin lost
  /\ Refuse(r)
  /\ lost' = lost \cup {DeviceOf[asked[r].tab]}
  /\ UNCHANGED <<serverVars, cookie, callerVars, tabsCrossed>>

-----------------------------------------------------------------------------
(* Answers.                                                                *)

(* Mutant: a refresh answers without Set-Cookie.                           *)
KeepCookie(a) == cookie' = IF a.kind = "logout" THEN [cookie EXCEPT ![DeviceOf[a.tab]] = 0] ELSE cookie

(* The browser stores what Set-Cookie says, whoever listens. A refresh     *)
(* without a cookie sets none.                                             *)
SetCookie(a) ==
  cookie' = IF a.token = 0 /\ a.kind # "logout" THEN cookie ELSE [cookie EXCEPT ![DeviceOf[a.tab]] = a.new]

Waiting(t) == {c \in Call : call[t][c] = "waiting"}
Resume(t, to) == call' = [call EXCEPT ![t] = [c \in Call |-> IF c \in Waiting(t) THEN to ELSE @[c]]]

(* Mutant: only the call that started the refresh resumes.                 *)
RefreshedOne(t, a) ==
  /\ SetSession(t, family[a.new])
  /\ call' = [call EXCEPT ![t] = [c \in Call |-> IF c = CHOOSE w \in Waiting(t) : TRUE THEN "again" ELSE @[c]]]

(* tryRefresh sets the session, also one that was cleared while it was     *)
(* under way; the calls that wait are sent once more.                      *)
Refreshed(t, a) == SetSession(t, family[a.new]) /\ Resume(t, "again")

NotRefreshed(t) == ClearSession(t) /\ Resume(t, "idle")

(* What the page makes of an answer it still listens to.                   *)
Settle(t, a) ==
  CASE a.kind = "logout" -> ClearSession(t) /\ UNCHANGED call
    [] a.kind = "boot" /\ a.step = "rotated" -> SetSession(t, family[a.new]) /\ UNCHANGED call
    [] a.kind = "boot" /\ a.step # "rotated" -> UNCHANGED <<session, expired, call>>
    [] a.kind = "try" /\ a.step = "rotated" -> Refreshed(t, a)
    [] OTHER -> NotRefreshed(t)

Forget(r) == asked' = [asked EXCEPT ![r] = NoRequest]

Answer(r) ==
  LET a == asked[r] IN
  /\ a.step \in {"refused", "rotated", "ended"}
  /\ SetCookie(a)
  /\ IF a.heard THEN Settle(a.tab, a) ELSE UNCHANGED <<session, expired, call>>
  /\ Forget(r)
  /\ UNCHANGED <<serverVars, sessionsHistory>>

(* The answer gets lost: fetch throws, and no cookie is set.               *)
LoseAnswer(r) ==
  LET a == asked[r] IN
  /\ a.step \in {"refused", "rotated", "ended"}
  /\ MayLose /\ DeviceOf[a.tab] \notin lost
  /\ IF a.heard THEN Settle(a.tab, [a EXCEPT !.step = "refused"]) ELSE UNCHANGED <<session, expired, call>>
  /\ Forget(r)
  /\ lost' = lost \cup {DeviceOf[a.tab]}
  /\ UNCHANGED <<serverVars, cookie, tabsCrossed>>

-----------------------------------------------------------------------------
(* Settings.                                                               *)

Logout(t, r) ==
  /\ session[t] # 0 /\ InFlight(t, "logout") = {}
  /\ Send(r, "logout", t)
  /\ UNCHANGED <<serverVars, cookie, callerVars, sessionsHistory>>

(* DevicesCard offers every family with a live row but the tab's own.      *)
OtherDevices(t) == {f \in Token : Live(f) # {} /\ f # session[t]}

(* handleRevokeDevice, or one of the requests of handleRevokeOtherDevices. *)
RevokeDevice(t, f) ==
  /\ session[t] # 0 /\ t \notin expired
  /\ f \in OtherDevices(t)
  /\ revoked' = revoked \cup Live(f)
  /\ UNCHANGED <<family, cookie, callerVars, asked, sessionsHistory>>

-----------------------------------------------------------------------------
Page(t) ==
  \/ Login(t) \/ Expire(t)
  \/ \E r \in Request : Reload(t, r) \/ Logout(t, r) \/ (\E c \in Call : Unauthorized(t, c, r))
  \/ \E c \in Call : Fetch(t, c) \/ RespondToCall(t, c)
  \/ \E f \in Token : RevokeDevice(t, f)

Handler(r) == FindByRefreshHash(r) \/ RevokeFamily(r) \/ Revoke(r) \/ Rotate(r)

SessionsNext ==
  \/ \E t \in BrowserTab : Page(t)
  \/ \E r \in Request : Handler(r) \/ Answer(r) \/ Fail(r) \/ LoseAnswer(r)

SessionsSpec == SessionsInit /\ [][SessionsNext]_sessionsVars

-----------------------------------------------------------------------------
(* Properties.                                                             *)

Quiet(d) == \A r \in Request : Idle(r) \/ DeviceOf[asked[r].tab] # d

(* A device that missed no answer, whose tabs never refreshed at once and  *)
(* that has nothing under way can refresh with its cookie, unless its      *)
(* whole family was ended: however its refreshes, logouts and revocations  *)
(* crossed, it is not left with a retired token beside a live one, which   *)
(* the next refresh would take for theft (refresh.go:37-52).               *)
QuietCookieOpens ==
  \A d \in Device :
    Quiet(d) /\ d \notin lost \cup tabsCrossed /\ cookie[d] # 0
      => cookie[d] \notin revoked \/ Live(family[cookie[d]]) = {}

(* Tabs that hear their answers and refresh one at a time are never taken  *)
(* for a thief, however many of their calls get a 401 at once              *)
(* (http.ts:67-84).                                                        *)
HonestRefreshIsNoTheft ==
  \A r \in Request :
    asked[r].step = "reuse" =>
      \/ asked[r].kind = "logout"
      \/ DeviceOf[asked[r].tab] \in lost \cup tabsCrossed
      \/ Live(family[asked[r].token]) = {}

(* A call that waits has a refresh of its tab to wait for: however calls,  *)
(* refreshes, logouts and reloads follow each other, none is left behind.  *)
NoCallIsStranded == \A t \in BrowserTab : Waiting(t) # {} => InFlight(t, "try") # {}
=============================================================================
