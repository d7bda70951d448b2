--------------------------- MODULE Account_proofs ---------------------------
(***************************************************************************)
(* Theorems about Sessions and Identity, for every set of browsers, tabs,  *)
(* calls, requests and flows, and every number of tokens, passwords and    *)
(* identities.                                                             *)
(***************************************************************************)
EXTENDS Sessions, Identity, FiniteSetTheorems, TLAPS

-----------------------------------------------------------------------------
(* Sessions: what a step makes of the requests.                            *)

(* Requests: a refresh is one that is no logout; a page has heard of one   *)
(* until it is loaded again.                                               *)
Asking(r) == asked[r] \in Asked
DeviceAsking(r) == DeviceOf[asked[r].tab]
Refreshes(r) == Asking(r) /\ asked[r].kind # "logout"
Honest(d) == d \notin lost \cup tabsCrossed

(* A page that redeems its cookie does nothing else, refreshes only once   *)
(* at a time, and is loaded again only at the price of an answer; tabs     *)
(* that refresh at once are known.                                         *)
BootsAlone ==
  \A r \in Request : Asking(r) /\ asked[r].heard /\ asked[r].kind = "boot" =>
    /\ session[asked[r].tab] = 0
    /\ \A c \in Call : call[asked[r].tab][c] = "idle"
    /\ \A q \in Request : Asking(q) /\ asked[q].heard /\ asked[q].tab = asked[r].tab => q = r
OneTry ==
  \A r, q \in Request :
    /\ Asking(r) /\ asked[r].heard /\ asked[r].kind = "try"
    /\ Asking(q) /\ asked[q].heard /\ asked[q].kind = "try"
    /\ asked[q].tab = asked[r].tab
    => q = r
UnheardIsLost == \A r \in Request : Asking(r) /\ ~asked[r].heard => DeviceAsking(r) \in lost
CrossingIsKnown ==
  \A r, q \in Request :
    Refreshes(r) /\ Refreshes(q) /\ DeviceAsking(q) = DeviceAsking(r) /\ asked[q].tab # asked[r].tab
      => DeviceAsking(r) \in tabsCrossed
PagesInv == BootsAlone /\ OneTry /\ UnheardIsLost /\ CrossingIsKnown

(* Tokens are issued in order, and a family begins with a token of its own.*)
TokensInOrder ==
  /\ \A j, k \in Token : j < k /\ family[k] # 0 => family[j] # 0
  /\ \A k \in Token : family[k] # 0 => family[family[k]] # 0
Issued(k) == k # 0 => family[k] # 0
RequestHolds(r) ==
  Asking(r) =>
    /\ Issued(asked[r].token)
    /\ asked[r].step \in {"found", "retired", "reuse", "rotated"} => asked[r].token # 0
    /\ asked[r].step \in {"found", "retired", "rotated"} => asked[r].kind # "logout"
    /\ asked[r].step = "rotated" <=> asked[r].new # 0
    /\ asked[r].step = "rotated" => family[asked[r].new] = family[asked[r].token]
HeldTokens == (\A d \in Device : Issued(cookie[d])) /\ (\A r \in Request : RequestHolds(r))

(* The tokens of a family never leave the device it began on.              *)
SameFamily(j, k) == j # 0 /\ k # 0 /\ family[j] = family[k]
FamiliesApart ==
  /\ \A d, e \in Device : SameFamily(cookie[d], cookie[e]) => d = e
  /\ \A d \in Device, r \in Request : Asking(r) /\ SameFamily(cookie[d], asked[r].token) => DeviceAsking(r) = d
  /\ \A r, q \in Request :
       Asking(r) /\ Asking(q) /\ SameFamily(asked[r].token, asked[q].token) => DeviceAsking(q) = DeviceAsking(r)

(* On an honest device the only token of a family that may be live is the  *)
(* one in the cookie, or the one a refresh has just issued in its place.   *)
Successor(d) ==
  \E r \in Request : Refreshes(r) /\ DeviceAsking(r) = d /\ asked[r].step = "rotated" /\ SameFamily(cookie[d], asked[r].new)
CookieIsNewest(d) == Honest(d) /\ cookie[d] # 0 => Live(family[cookie[d]]) \subseteq {cookie[d]} \/ Successor(d)
RequestIsNewest(r) ==
  Refreshes(r) /\ Honest(DeviceAsking(r)) /\ asked[r].token # 0 =>
    /\ asked[r].step \in {"sent", "found"} => Live(family[asked[r].token]) \subseteq {asked[r].token}
    /\ asked[r].step \in {"retired", "reuse"} => Live(family[asked[r].token]) = {}
    /\ asked[r].step = "rotated" => Live(family[asked[r].token]) \subseteq {asked[r].new}
NewestIsLive == (\A d \in Device : CookieIsNewest(d)) /\ (\A r \in Request : RequestIsNewest(r))

SessionsInv ==
  SessionsTypeOK /\ PagesInv /\ NoCallIsStranded /\ TokensInOrder /\ HeldTokens /\ FamiliesApart /\ NewestIsLive

(* A request with another step and another new token.                      *)
Stepped(a, s, n) ==
  [kind |-> a.kind, step |-> s, tab |-> a.tab, heard |-> a.heard, token |-> a.token, new |-> n]
Unheard(a) ==
  [kind |-> a.kind, step |-> a.step, tab |-> a.tab, heard |-> FALSE, token |-> a.token, new |-> a.new]
Asks(kind, t) ==
  [kind |-> kind, step |-> "sent", tab |-> t, heard |-> TRUE, token |-> cookie[DeviceOf[t]], new |-> 0]

LEMMA StepOnly == ASSUME NEW a \in Asked, NEW s PROVE [a EXCEPT !.step = s] = Stepped(a, s, a.new)
BY DEF Asked, Stepped

LEMMA StepAndNew ==
  ASSUME NEW a \in Asked, NEW s \in Steps, NEW n PROVE [a EXCEPT !.step = s, !.new = n] = Stepped(a, s, n)
<1>. DEFINE b == Stepped(a, s, a.new)
<1>1. [a EXCEPT !.step = s, !.new = n] = [[a EXCEPT !.step = s] EXCEPT !.new = n]
  BY Zenon DEF Asked
<1>2. [a EXCEPT !.step = s] = b
  BY StepOnly
<1>3. b \in Asked /\ b.kind = a.kind /\ b.step = s /\ b.tab = a.tab /\ b.heard = a.heard /\ b.token = a.token
  BY DEF Asked, Stepped
<1>. HIDE DEF b
<1>4. [b EXCEPT !.new = n] = Stepped(b, b.step, n)
  BY <1>3 DEF Asked, Stepped
<1>5. Stepped(b, b.step, n) = Stepped(a, s, n)
  BY <1>3, Zenon DEF Stepped
<1>. QED
  BY <1>1, <1>2, <1>4, <1>5, Zenon

LEMMA HeardOnly == ASSUME NEW a \in Asked PROVE [a EXCEPT !.heard = FALSE] = Unheard(a)
<1>1. ASSUME NEW h
      PROVE  [a EXCEPT !.heard = h] =
               [kind |-> a.kind, step |-> a.step, tab |-> a.tab, heard |-> h, token |-> a.token, new |-> a.new]
  BY DEF Asked
<1>. QED
  BY <1>1, Zenon DEF Unheard

LEMMA AdvanceSteps ==
  ASSUME NEW r \in Request, Asking(r), NEW s, Advance(r, s)
  PROVE  asked' = [asked EXCEPT ![r] = Stepped(asked[r], s, asked[r].new)]
<1>1. [asked[r] EXCEPT !.step = s] = Stepped(asked[r], s, asked[r].new)
  BY StepOnly DEF Asking
<1>2. asked' = [asked EXCEPT ![r] = [asked[r] EXCEPT !.step = s]]
  BY Zenon DEF Advance
<1>. QED
  BY <1>1, <1>2, Zenon

LEMMA RefuseSteps ==
  ASSUME NEW r \in Request, Asking(r), Refuse(r)
  PROVE  asked' = [asked EXCEPT ![r] = Stepped(asked[r], "refused", 0)]
<1>1. [asked[r] EXCEPT !.step = "refused", !.new = 0] = Stepped(asked[r], "refused", 0)
  BY StepAndNew DEF Asking, Steps
<1>2. asked' = [asked EXCEPT ![r] = [asked[r] EXCEPT !.step = "refused", !.new = 0]]
  BY Zenon DEF Refuse
<1>. QED
  BY <1>1, <1>2, Zenon

LEMMA AskingIsBusy ==
  ASSUME SessionsTypeOK, NEW r \in Request
  PROVE  /\ Asking(r) <=> ~Idle(r)
         /\ asked[r].step \in Steps => Asking(r)
BY DEF SessionsTypeOK, Asking, Idle, NoRequest, Asked, Steps

LEMMA AskingTyped ==
  ASSUME NEW r \in Request, Asking(r)
  PROVE  /\ asked[r].kind \in {"try", "boot", "logout"} /\ asked[r].step \in Steps
         /\ asked[r].tab \in BrowserTab /\ DeviceAsking(r) \in Device /\ asked[r].heard \in BOOLEAN
         /\ asked[r].token \in TokenOrNone /\ asked[r].new \in TokenOrNone
<1>1. /\ asked[r].kind \in {"try", "boot", "logout"} /\ asked[r].step \in Steps
      /\ asked[r].tab \in BrowserTab /\ asked[r].heard \in BOOLEAN
      /\ asked[r].token \in TokenOrNone /\ asked[r].new \in TokenOrNone
  BY DEF Asking, Asked
<1>. QED
  BY <1>1, SessionsAssumption DEF DeviceAsking

(* A handler's step changes the step and the new token of its request.     *)
LEMMA Stepping ==
  ASSUME SessionsTypeOK, NEW r \in Request, Asking(r), NEW s \in Steps, NEW n \in TokenOrNone,
         asked' = [asked EXCEPT ![r] = Stepped(asked[r], s, n)]
  PROVE  /\ asked' \in [Request -> Asked \cup {NoRequest}]
         /\ asked'[r].step = s /\ asked'[r].new = n
         /\ \A q \in Request : q # r => asked'[q] = asked[q]
         /\ \A q \in Request : Asking(q)' <=> Asking(q)
         /\ \A q \in Request :
              /\ asked'[q].kind = asked[q].kind /\ asked'[q].tab = asked[q].tab
              /\ asked'[q].heard = asked[q].heard /\ asked'[q].token = asked[q].token
         /\ \A q \in Request : DeviceAsking(q)' = DeviceAsking(q)
<1>. DEFINE b == Stepped(asked[r], s, n)
<1>1. /\ b \in Asked /\ b.step = s /\ b.new = n
      /\ b.kind = asked[r].kind /\ b.tab = asked[r].tab /\ b.heard = asked[r].heard /\ b.token = asked[r].token
  BY DEF Asking, Asked, Stepped
<1>. HIDE DEF b
<1>2. asked' = [asked EXCEPT ![r] = b]
  BY DEF b
<1>3. asked'[r] = b /\ \A q \in Request : q # r => asked'[q] = asked[q]
  BY <1>2 DEF SessionsTypeOK
<1>4. asked' \in [Request -> Asked \cup {NoRequest}]
  BY <1>1, <1>2 DEF SessionsTypeOK
<1>5. \A q \in Request : Asking(q)' <=> Asking(q)
  BY <1>1, <1>3 DEF Asking
<1>6. \A q \in Request :
        /\ asked'[q].kind = asked[q].kind /\ asked'[q].tab = asked[q].tab
        /\ asked'[q].heard = asked[q].heard /\ asked'[q].token = asked[q].token
  BY <1>1, <1>3
<1>7. \A q \in Request : DeviceAsking(q)' = DeviceAsking(q)
  BY <1>6 DEF DeviceAsking
<1>. QED
  BY <1>1, <1>3, <1>4, <1>5, <1>6, <1>7

(* A request that leaves is one more, or takes the place of an idle one.   *)
LEMMA Sending ==
  ASSUME SessionsTypeOK, NEW r \in Request, NEW t \in BrowserTab, NEW kind \in {"try", "boot", "logout"},
         Send(r, kind, t)
  PROVE  /\ asked' \in [Request -> Asked \cup {NoRequest}]
         /\ ~Asking(r) /\ Asking(r)' /\ asked'[r] = Asks(kind, t)
         /\ asked'[r].kind = kind /\ asked'[r].tab = t /\ asked'[r].step = "sent" /\ asked'[r].heard
         /\ asked'[r].token = cookie[DeviceOf[t]] /\ asked'[r].new = 0
         /\ \A q \in Request : q # r => asked'[q] = asked[q]
         /\ \A q \in Request : q # r => (Asking(q)' <=> Asking(q))
<1>1. DeviceOf[t] \in Device /\ cookie[DeviceOf[t]] \in TokenOrNone
  BY SessionsAssumption DEF SessionsTypeOK
<1>2. 0 \in TokenOrNone
  BY SessionsAssumption DEF TokenOrNone
<1>3. Asks(kind, t) \in Asked
  BY <1>1, <1>2 DEF Asks, Asked, Steps
<1>4. asked' = [asked EXCEPT ![r] = Asks(kind, t)]
  BY DEF Send, Asks
<1>5. asked'[r] = Asks(kind, t) /\ \A q \in Request : q # r => asked'[q] = asked[q]
  BY <1>4 DEF SessionsTypeOK
<1>6. ~Asking(r)
  BY AskingIsBusy DEF Send
<1>7. asked' \in [Request -> Asked \cup {NoRequest}]
  BY <1>3, <1>4 DEF SessionsTypeOK
<1>8. Asking(r)' /\ \A q \in Request : q # r => (Asking(q)' <=> Asking(q))
  BY <1>3, <1>5 DEF Asking
<1>. QED
  BY <1>5, <1>6, <1>7, <1>8 DEF Asks

(* An answer ends its request.                                             *)
LEMMA Forgetting ==
  ASSUME SessionsTypeOK, NEW r \in Request, Forget(r)
  PROVE  /\ asked' \in [Request -> Asked \cup {NoRequest}]
         /\ ~Asking(r)'
         /\ \A q \in Request : q # r => asked'[q] = asked[q]
         /\ \A q \in Request : q # r => (Asking(q)' <=> Asking(q))
<1>1. NoRequest \notin Asked
  BY DEF NoRequest, Asked, Steps
<1>2. asked'[r] = NoRequest /\ \A q \in Request : q # r => asked'[q] = asked[q]
  BY DEF Forget, SessionsTypeOK
<1>. QED
  BY <1>1, <1>2 DEF Forget, SessionsTypeOK, Asking

-----------------------------------------------------------------------------
(* Sessions: the token issued next, and what stays as it is.               *)

(* Tokens are issued without a gap: the next one was not issued before,    *)
(* and every one before it was.                                            *)
LEMMA NextTokenIsNew ==
  ASSUME SessionsTypeOK, TokensInOrder, NextToken \in Token
  PROVE  /\ family[NextToken] = 0
         /\ \A j \in Token : j < NextToken => family[j] # 0
<1>. DEFINE S == {j \in Token : family[j] # 0}
            n == Cardinality(S)
            k == n + 1
<1>1. S \subseteq 1 .. MaxToken /\ S \subseteq Token
  BY DEF Token
<1>2. IsFiniteSet(1 .. MaxToken)
  BY SessionsAssumption, FS_Interval
<1>3. IsFiniteSet(S) /\ n \in Nat
  BY <1>1, <1>2, FS_Subset, FS_CardinalityType
<1>4. NextToken = k /\ k \in Nat /\ k \in Token
  BY <1>3 DEF NextToken
<1>5. \A i, j \in Token : i < j /\ j \in S => i \in S
  BY DEF TokensInOrder
<1>. HIDE DEF S, n
<1>6. ASSUME k \in S PROVE FALSE
  <2>1. 1 .. k \subseteq S
    BY <1>4, <1>5, <1>6, SessionsAssumption DEF Token
  <2>2. Cardinality(1 .. k) = k
    BY <1>3, FS_Interval
  <2>3. Cardinality(1 .. k) <= n
    BY <1>3, <2>1, FS_Subset DEF n
  <2>. QED
    BY <1>3, <2>2, <2>3
<1>7. ASSUME NEW j \in Token, j < k, j \notin S PROVE FALSE
  <2>1. j \in Nat /\ j >= 1 /\ j <= n
    BY <1>3, <1>7, SessionsAssumption DEF Token
  <2>2. S \subseteq 1 .. (j - 1)
    BY <1>1, <1>5, <1>7, SessionsAssumption DEF Token
  <2>3. IsFiniteSet(1 .. (j - 1)) /\ Cardinality(1 .. (j - 1)) = j - 1
    BY <2>1, FS_Interval
  <2>4. n <= j - 1
    BY <2>2, <2>3, FS_Subset DEF n
  <2>. QED
    BY <1>3, <2>1, <2>4
<1>8. k \notin S /\ \A j \in Token : j < k => j \in S
  BY <1>6, <1>7
<1>. QED
  BY <1>4, <1>8 DEF S

(* A new row extends its family, or begins one, and changes no other row.  *)
LEMMA Issuing ==
  ASSUME SessionsTypeOK, TokensInOrder, NextToken \in Token,
         NEW f \in Token, f = NextToken \/ family[f] # 0, family' = [family EXCEPT ![NextToken] = f]
  PROVE  /\ family' \in [Token -> TokenOrNone] /\ TokensInOrder'
         /\ family'[NextToken] = f
         /\ \A j \in Token : family[j] # 0 => family'[j] = family[j] /\ family[j] # NextToken
         /\ \A j \in Token : j # NextToken => family'[j] = family[j]
<1>. DEFINE k == NextToken
<1>1. k \in Token /\ family[k] = 0 /\ \A j \in Token : j < k => family[j] # 0
  BY NextTokenIsNew
<1>2. family' = [family EXCEPT ![k] = f]
  OBVIOUS
<1>3. f = k \/ family[f] # 0
  OBVIOUS
<1>. HIDE DEF k
<1>4. family' \in [Token -> TokenOrNone] /\ family'[k] = f /\ \A j \in Token : j # k => family'[j] = family[j]
  BY <1>1, <1>2 DEF SessionsTypeOK, Token, TokenOrNone
<1>5. \A j \in Token : family[j] # 0 => family'[j] = family[j] /\ family[j] # k
  BY <1>1, <1>4 DEF TokensInOrder
<1>6. \A i, j \in Token : i < j /\ family'[j] # 0 => family'[i] # 0
  <2>. SUFFICES ASSUME NEW i \in Token, NEW j \in Token, i < j, family'[j] # 0 PROVE family'[i] # 0
    OBVIOUS
  <2>1. f # 0
    BY SessionsAssumption DEF Token
  <2>2. CASE i = k
    BY <1>4, <2>1, <2>2
  <2>3. CASE i # k /\ j = k
    BY <1>1, <1>4, <2>3
  <2>4. CASE i # k /\ j # k
    BY <1>4, <2>4 DEF TokensInOrder
  <2>. QED
    BY <2>2, <2>3, <2>4
<1>7. \A j \in Token : family'[j] # 0 => family'[family'[j]] # 0
  <2>. SUFFICES ASSUME NEW j \in Token, family'[j] # 0 PROVE family'[family'[j]] # 0
    OBVIOUS
  <2>1. f # 0 /\ f \in Token
    BY SessionsAssumption DEF Token
  <2>2. CASE j = k
    BY <1>1, <1>3, <1>4, <1>5, <2>1, <2>2
  <2>3. CASE j # k
    <3>1. family[j] # 0 /\ family'[j] = family[j] /\ family[j] \in Token /\ family[family[j]] # 0
      BY <1>4, <2>3, SessionsAssumption DEF SessionsTypeOK, TokensInOrder, Token, TokenOrNone
    <3>. QED
      BY <1>5, <3>1
  <2>. QED
    BY <2>2, <2>3
<1>. QED
  BY <1>4, <1>5, <1>6, <1>7 DEF TokensInOrder, k

(* What a page makes of an answer concerns the page alone, and after a     *)
(* refresh no call of it waits.                                            *)
LEMMA Settling ==
  ASSUME SessionsTypeOK, NEW t \in BrowserTab, NEW a, a.kind \in {"try", "boot", "logout"},
         a.step = "rotated" => a.new \in Token, Settle(t, a)
  PROVE  /\ session' \in [BrowserTab -> TokenOrNone] /\ expired' \subseteq BrowserTab
         /\ call' \in [BrowserTab -> [Call -> CallState]]
         /\ \A u \in BrowserTab : u # t => session'[u] = session[u] /\ call'[u] = call[u]
         /\ a.kind = "try" => \A c \in Call : call'[t][c] # "waiting"
         /\ a.kind # "try" => call' = call
<1>1. 0 \in TokenOrNone /\ (a.step = "rotated" => family[a.new] \in TokenOrNone)
  BY SessionsAssumption DEF SessionsTypeOK, TokenOrNone
<1>2. ASSUME NEW f \in TokenOrNone, SetSession(t, f) \/ ClearSession(t)
      PROVE  /\ session' \in [BrowserTab -> TokenOrNone] /\ expired' \subseteq BrowserTab
             /\ \A u \in BrowserTab : u # t => session'[u] = session[u]
  <2>1. session' = [session EXCEPT ![t] = f] \/ session' = [session EXCEPT ![t] = 0]
    BY <1>2 DEF SetSession, ClearSession
  <2>2. expired' = expired \ {t}
    BY <1>2 DEF SetSession, ClearSession
  <2>. QED
    BY <1>1, <2>1, <2>2 DEF SessionsTypeOK
<1>3. ASSUME NEW to \in {"again", "idle"}, Resume(t, to)
      PROVE  /\ call' \in [BrowserTab -> [Call -> CallState]]
             /\ \A u \in BrowserTab : u # t => call'[u] = call[u]
             /\ \A c \in Call : call'[t][c] # "waiting"
  <2>. DEFINE after == [c \in Call |-> IF c \in Waiting(t) THEN to ELSE call[t][c]]
  <2>1. after \in [Call -> CallState] /\ \A c \in Call : after[c] # "waiting"
    BY DEF SessionsTypeOK, CallState, Waiting
  <2>2. call' = [call EXCEPT ![t] = after]
    BY <1>3 DEF Resume
  <2>. HIDE DEF after
  <2>. QED
    BY <2>1, <2>2 DEF SessionsTypeOK
<1>4. CASE a.kind = "logout"
  <2>1. ClearSession(t) /\ call' = call
    BY <1>4 DEF Settle
  <2>. QED
    BY <1>1, <1>2, <1>4, <2>1 DEF SessionsTypeOK
<1>5. CASE a.kind = "boot" /\ a.step = "rotated"
  <2>1. SetSession(t, family[a.new]) /\ call' = call
    BY <1>5 DEF Settle
  <2>. QED
    BY <1>1, <1>2, <1>5, <2>1 DEF SessionsTypeOK
<1>6. CASE a.kind = "boot" /\ a.step # "rotated"
  <2>1. session' = session /\ expired' = expired /\ call' = call
    BY <1>6 DEF Settle
  <2>. QED
    BY <1>6, <2>1 DEF SessionsTypeOK
<1>7. CASE a.kind = "try" /\ a.step = "rotated"
  <2>1. SetSession(t, family[a.new]) /\ Resume(t, "again")
    BY <1>7 DEF Settle, Refreshed
  <2>. QED
    BY <1>1, <1>2, <1>3, <1>7, <2>1
<1>8. CASE a.kind \notin {"logout", "boot"} /\ ~(a.kind = "try" /\ a.step = "rotated")
  <2>1. ClearSession(t) /\ Resume(t, "idle")
    BY <1>8 DEF Settle, NotRefreshed
  <2>. QED
    BY <1>1, <1>2, <1>3, <1>8, <2>1
<1>. QED
  BY <1>4, <1>5, <1>6, <1>7, <1>8

(* The two ways an answer ends: it arrives, or it gets lost.               *)
LEMMA Answering ==
  ASSUME SessionsTypeOK, HeldTokens, NEW r \in Request, Answer(r) \/ LoseAnswer(r)
  PROVE  /\ Asking(r) /\ asked[r].step \in {"refused", "rotated", "ended"} /\ Forget(r)
         /\ session' \in [BrowserTab -> TokenOrNone] /\ expired' \subseteq BrowserTab
         /\ call' \in [BrowserTab -> [Call -> CallState]]
         /\ \A u \in BrowserTab :
              u # asked[r].tab \/ ~asked[r].heard => session'[u] = session[u] /\ call'[u] = call[u]
         /\ asked[r].heard /\ asked[r].kind = "try" => \A c \in Call : call'[asked[r].tab][c] # "waiting"
         /\ ~asked[r].heard \/ asked[r].kind # "try" => call' = call
<1>. DEFINE t == asked[r].tab
            lose == Stepped(asked[r], "refused", asked[r].new)
<1>1. asked[r].step \in {"refused", "rotated", "ended"} /\ Forget(r)
  BY DEF Answer, LoseAnswer
<1>2. Asking(r)
  BY <1>1, AskingIsBusy DEF Steps
<1>3. t \in BrowserTab /\ asked[r].kind \in {"try", "boot", "logout"}
  BY <1>2, AskingTyped
<1>4. asked[r].step = "rotated" => asked[r].new \in Token
  BY <1>2, AskingTyped, SessionsAssumption DEF HeldTokens, RequestHolds, Token, TokenOrNone
<1>5. CASE asked[r].heard /\ Settle(t, asked[r])
  BY <1>1, <1>2, <1>3, <1>4, <1>5, Settling
<1>6. CASE asked[r].heard /\ Settle(t, [asked[r] EXCEPT !.step = "refused"])
  <2>1. [asked[r] EXCEPT !.step = "refused"] = lose
    BY <1>2, StepOnly DEF Asking
  <2>2. lose.kind = asked[r].kind /\ lose.step = "refused"
    BY DEF Stepped
  <2>3. Settle(t, lose)
    BY <1>6, <2>1, Zenon
  <2>. HIDE DEF lose
  <2>4. /\ session' \in [BrowserTab -> TokenOrNone] /\ expired' \subseteq BrowserTab
        /\ call' \in [BrowserTab -> [Call -> CallState]]
        /\ \A u \in BrowserTab : u # t => session'[u] = session[u] /\ call'[u] = call[u]
        /\ lose.kind = "try" => \A c \in Call : call'[t][c] # "waiting"
        /\ lose.kind # "try" => call' = call
    BY <1>3, <2>2, <2>3, Settling
  <2>. QED
    BY <1>1, <1>2, <1>6, <2>2, <2>4
<1>7. CASE ~asked[r].heard
  <2>1. session' = session /\ expired' = expired /\ call' = call
    BY <1>7 DEF Answer, LoseAnswer
  <2>. QED
    BY <1>1, <1>2, <1>7, <2>1 DEF SessionsTypeOK
<1>. QED
  BY <1>5, <1>6, <1>7 DEF Answer, LoseAnswer

(* A page that is loaded again hears none of its requests any more.        *)
LEMMA Reloading ==
  ASSUME SessionsTypeOK, NEW r \in Request, NEW t \in BrowserTab, Reload(t, r)
  PROVE  /\ asked' \in [Request -> Asked \cup {NoRequest}]
         /\ ~Asking(r) /\ Asking(r)' /\ asked'[r] = Asks("boot", t)
         /\ asked'[r].kind = "boot" /\ asked'[r].tab = t /\ asked'[r].step = "sent" /\ asked'[r].heard
         /\ asked'[r].token = cookie[DeviceOf[t]] /\ asked'[r].new = 0
         /\ \A q \in Request : q # r =>
              /\ Asking(q)' <=> Asking(q)
              /\ asked[q].tab # t => asked'[q] = asked[q]
              /\ Asking(q) =>
                   /\ asked'[q].kind = asked[q].kind /\ asked'[q].step = asked[q].step /\ asked'[q].tab = asked[q].tab
                   /\ asked'[q].token = asked[q].token /\ asked'[q].new = asked[q].new
                   /\ asked[q].tab = t => ~asked'[q].heard /\ (asked[q].heard => DeviceOf[t] \in lost')
<1>. DEFINE boot == Asks("boot", t)
            unheard == {q \in Request : ~Idle(q) /\ asked[q].tab = t /\ asked[q].heard}
<1>1. DeviceOf[t] \in Device /\ cookie[DeviceOf[t]] \in TokenOrNone
  BY SessionsAssumption DEF SessionsTypeOK
<1>2. 0 \in TokenOrNone
  BY SessionsAssumption DEF TokenOrNone
<1>3. /\ boot \in Asked /\ boot.kind = "boot" /\ boot.tab = t /\ boot.step = "sent" /\ boot.heard
      /\ boot.token = cookie[DeviceOf[t]] /\ boot.new = 0
  BY <1>1, <1>2 DEF Asks, Asked, Steps
<1>4. ~Asking(r)
  BY AskingIsBusy DEF Reload
<1>5. /\ asked' = [q \in Request |-> IF q = r THEN boot
                     ELSE IF q \in unheard THEN [asked[q] EXCEPT !.heard = FALSE] ELSE asked[q]]
      /\ lost' = IF unheard = {} THEN lost ELSE lost \cup {DeviceOf[t]}
  BY Zenon DEF Reload, Asks
<1>. HIDE DEF boot
<1>6. \A q \in unheard : Asking(q)
  BY AskingIsBusy
<1>7. asked' = [q \in Request |-> IF q = r THEN boot ELSE IF q \in unheard THEN Unheard(asked[q]) ELSE asked[q]]
  BY <1>5, <1>6, HeardOnly, Zenon DEF Asking
<1>8. asked'[r] = boot
  BY <1>7
<1>9. \A q \in Request : q # r => asked'[q] = IF q \in unheard THEN Unheard(asked[q]) ELSE asked[q]
  BY <1>7
<1>10. ASSUME NEW q \in Request, Asking(q)
       PROVE  /\ Unheard(asked[q]) \in Asked /\ ~Unheard(asked[q]).heard
              /\ Unheard(asked[q]).kind = asked[q].kind /\ Unheard(asked[q]).step = asked[q].step
              /\ Unheard(asked[q]).tab = asked[q].tab
              /\ Unheard(asked[q]).token = asked[q].token /\ Unheard(asked[q]).new = asked[q].new
  BY <1>10 DEF Asking, Asked, Unheard
<1>11. ASSUME NEW q \in Request, q # r
       PROVE  /\ asked'[q] \in Asked \cup {NoRequest}
              /\ Asking(q)' <=> Asking(q)
              /\ asked[q].tab # t => asked'[q] = asked[q]
              /\ Asking(q) =>
                   /\ asked'[q].kind = asked[q].kind /\ asked'[q].step = asked[q].step /\ asked'[q].tab = asked[q].tab
                   /\ asked'[q].token = asked[q].token /\ asked'[q].new = asked[q].new
                   /\ asked[q].tab = t => ~asked'[q].heard /\ (asked[q].heard => DeviceOf[t] \in lost')
  <2>1. CASE q \in unheard
    <3>1. asked'[q] = Unheard(asked[q])
      BY <1>9, <1>11, <2>1
    <3>2. DeviceOf[t] \in lost' /\ asked[q].tab = t /\ Asking(q)
      BY <1>5, <1>6, <2>1
    <3>3. Asking(q)' /\ asked'[q] \in Asked
      BY <1>10, <3>1, <3>2 DEF Asking
    <3>. QED
      BY <1>10, <3>1, <3>2, <3>3
  <2>2. CASE q \notin unheard
    <3>1. asked'[q] = asked[q] /\ asked[q] \in Asked \cup {NoRequest}
      BY <1>9, <1>11, <2>2 DEF SessionsTypeOK
    <3>2. Asking(q)' <=> Asking(q)
      BY <3>1 DEF Asking
    <3>3. Asking(q) /\ asked[q].tab = t => ~asked[q].heard
      BY <2>2, AskingIsBusy
    <3>. QED
      BY <3>1, <3>2, <3>3
  <2>. QED
    BY <2>1, <2>2
<1>12. asked' \in [Request -> Asked \cup {NoRequest}]
  <2>1. \A q \in Request : asked'[q] \in Asked \cup {NoRequest}
    BY <1>3, <1>8, <1>11
  <2>2. asked' = [q \in Request |-> asked'[q]]
    BY <1>7
  <2>. QED
    BY <2>1, <2>2
<1>13. Asking(r)'
  BY <1>3, <1>8 DEF Asking
<1>. QED
  BY <1>3, <1>4, <1>8, <1>11, <1>12, <1>13 DEF boot

-----------------------------------------------------------------------------
(* Sessions: types.                                                        *)

LEMMA RotatingSteps ==
  ASSUME SessionsTypeOK, NEW r \in Request, Rotate(r)
  PROVE  /\ Asking(r) /\ asked[r].step = "retired" /\ NextToken \in Token
         /\ asked' = [asked EXCEPT ![r] = Stepped(asked[r], "rotated", NextToken)]
         /\ family' = [family EXCEPT ![NextToken] = family[asked[r].token]]
         /\ revoked' = revoked /\ cookie' = cookie /\ lost' = lost /\ tabsCrossed' = tabsCrossed
<1>. DEFINE k == NextToken
<1>1. k \in Token /\ asked[r].step = "retired" /\ asked' = [asked EXCEPT ![r].step = "rotated", ![r].new = k]
  BY Zenon DEF Rotate
<1>2. /\ revoked' = revoked /\ cookie' = cookie /\ lost' = lost /\ tabsCrossed' = tabsCrossed
      /\ family' = [family EXCEPT ![k] = family[asked[r].token]]
  BY DEF Rotate, sessionsHistory
<1>. HIDE DEF k
<1>3. Asking(r)
  BY <1>1, AskingIsBusy DEF Steps
<1>4. [asked[r] EXCEPT !.step = "rotated", !.new = k] = Stepped(asked[r], "rotated", k)
  BY <1>3, StepAndNew DEF Asking, Steps
<1>5. asked' = [asked EXCEPT ![r] = [asked[r] EXCEPT !.step = "rotated", !.new = k]]
  BY <1>1, Zenon
<1>6. asked' = [asked EXCEPT ![r] = Stepped(asked[r], "rotated", k)]
  BY <1>4, <1>5, Zenon
<1>. QED
  BY <1>1, <1>2, <1>3, <1>6 DEF k

LEMMA AdvancingSteps ==
  ASSUME SessionsTypeOK, NEW r \in Request,
         FindByRefreshHash(r) \/ RevokeFamily(r) \/ Revoke(r) \/ Fail(r)
  PROVE  /\ Asking(r) /\ family' = family /\ cookie' = cookie /\ revoked \subseteq revoked'
         /\ lost \subseteq lost' /\ tabsCrossed' = tabsCrossed
         /\ \E s \in Steps, n \in TokenOrNone :
              /\ asked' = [asked EXCEPT ![r] = Stepped(asked[r], s, n)]
              /\ n = asked[r].new \/ (n = 0 /\ s = "refused")
              /\ asked[r].step # "rotated" /\ s # "rotated" /\ (s = "refused" \/ lost' = lost)
              /\ s \in {"found", "retired", "reuse"} => asked[r].token # 0 \/ asked[r].step = "found"
              /\ s \in {"found", "retired"} => asked[r].kind # "logout" \/ asked[r].step = "found"
              /\ s = "found" => revoked' = revoked /\ asked[r].step = "sent"
              /\ s = "retired" => revoked' = revoked \cup {asked[r].token} /\ asked[r].step = "found"
              /\ s = "reuse" => revoked' = revoked /\ asked[r].step = "sent"
                                /\ (asked[r].kind = "logout" \/ asked[r].token \in revoked)
              /\ s # "sent"
<1>1. Asking(r)
  BY AskingIsBusy DEF FindByRefreshHash, RevokeFamily, Revoke, Fail, Steps
<1>2. /\ asked[r].token \in TokenOrNone /\ asked[r].new \in TokenOrNone /\ 0 \in TokenOrNone
      /\ DeviceAsking(r) \in Device
  BY <1>1, AskingTyped, SessionsAssumption DEF TokenOrNone
<1>3. \A s : Advance(r, s) => asked' = [asked EXCEPT ![r] = Stepped(asked[r], s, asked[r].new)]
  BY <1>1, AdvanceSteps
<1>4. {"refused", "ended", "reuse", "found", "retired", "rotated"} \subseteq Steps
  BY DEF Steps
<1>5. CASE FindByRefreshHash(r)
  <2>1. /\ family' = family /\ revoked' = revoked /\ cookie' = cookie /\ lost' = lost /\ tabsCrossed' = tabsCrossed
        /\ asked[r].step = "sent"
    BY <1>5 DEF FindByRefreshHash, serverVars, sessionsHistory
  <2>2. \/ Advance(r, "ended") \/ Advance(r, "refused")
        \/ Advance(r, "reuse") /\ asked[r].token # 0 /\ (asked[r].kind = "logout" \/ asked[r].token \in revoked)
        \/ Advance(r, "found") /\ asked[r].token # 0 /\ asked[r].kind # "logout"
    BY <1>5 DEF FindByRefreshHash
  <2>. QED
    BY <1>1, <1>2, <1>3, <1>4, <2>1, <2>2
<1>6. CASE RevokeFamily(r)
  <2>1. /\ family' = family /\ revoked \subseteq revoked' /\ cookie' = cookie /\ lost' = lost
        /\ tabsCrossed' = tabsCrossed /\ asked[r].step = "reuse"
    BY <1>6 DEF RevokeFamily, sessionsHistory
  <2>2. Advance(r, "ended") \/ Advance(r, "refused")
    BY <1>6 DEF RevokeFamily
  <2>. QED
    BY <1>1, <1>2, <1>3, <1>4, <2>1, <2>2
<1>7. CASE Revoke(r)
  <2>1. /\ family' = family /\ revoked' = revoked \cup {asked[r].token} /\ cookie' = cookie /\ lost' = lost
        /\ tabsCrossed' = tabsCrossed /\ asked[r].step = "found" /\ Advance(r, "retired")
    BY <1>7 DEF Revoke, sessionsHistory
  <2>. QED
    BY <1>1, <1>2, <1>3, <1>4, <2>1
<1>8. CASE Fail(r)
  <2>1. asked' = [asked EXCEPT ![r] = Stepped(asked[r], "refused", 0)]
    BY <1>1, <1>8, RefuseSteps DEF Fail
  <2>2. /\ family' = family /\ revoked' = revoked /\ cookie' = cookie /\ lost \subseteq lost'
        /\ tabsCrossed' = tabsCrossed /\ asked[r].step \in {"sent", "found", "retired", "reuse"}
    BY <1>8 DEF Fail, serverVars
  <2>. QED
    BY <1>1, <1>2, <1>4, <2>1, <2>2
<1>. QED
  BY <1>5, <1>6, <1>7, <1>8

(* Handlers change the step and the new token of their request, the rows   *)
(* and what is revoked, and nothing a page sees.                           *)
LEMMA Handling ==
  ASSUME SessionsTypeOK, TokensInOrder, HeldTokens, NEW r \in Request, Handler(r) \/ Fail(r)
  PROVE  /\ Asking(r)
         /\ \E s \in Steps, n \in TokenOrNone : asked' = [asked EXCEPT ![r] = Stepped(asked[r], s, n)]
         /\ family' \in [Token -> TokenOrNone] /\ revoked' \subseteq Token
         /\ session' = session /\ expired' = expired /\ call' = call /\ cookie' = cookie
         /\ lost \subseteq lost' /\ lost' \subseteq Device /\ tabsCrossed' = tabsCrossed
<1>1. session' = session /\ expired' = expired /\ call' = call
  BY DEF Handler, FindByRefreshHash, RevokeFamily, Revoke, Rotate, Fail, callerVars
<1>2. CASE Rotate(r)
  <2>. DEFINE k == NextToken
  <2>1. /\ Asking(r) /\ asked[r].step = "retired" /\ k \in Token
        /\ asked' = [asked EXCEPT ![r] = Stepped(asked[r], "rotated", k)]
        /\ family' = [family EXCEPT ![k] = family[asked[r].token]]
        /\ revoked' = revoked /\ cookie' = cookie /\ lost' = lost /\ tabsCrossed' = tabsCrossed
    BY <1>2, RotatingSteps
  <2>. HIDE DEF k
  <2>2. asked[r].token # 0 /\ asked[r].token \in TokenOrNone
    BY <2>1, AskingTyped DEF HeldTokens, RequestHolds
  <2>3. asked[r].token \in Token /\ k \in TokenOrNone /\ "rotated" \in Steps
    BY <2>1, <2>2, SessionsAssumption DEF Token, TokenOrNone, Steps
  <2>4. family' \in [Token -> TokenOrNone]
    BY <2>1, <2>3 DEF SessionsTypeOK
  <2>. QED
    BY <1>1, <2>1, <2>3, <2>4 DEF SessionsTypeOK
<1>3. CASE FindByRefreshHash(r) \/ RevokeFamily(r) \/ Revoke(r) \/ Fail(r)
  <2>1. /\ Asking(r) /\ family' = family /\ cookie' = cookie /\ lost \subseteq lost' /\ tabsCrossed' = tabsCrossed
        /\ \E s \in Steps, n \in TokenOrNone : asked' = [asked EXCEPT ![r] = Stepped(asked[r], s, n)]
    BY <1>3, AdvancingSteps
  <2>2. DeviceAsking(r) \in Device /\ asked[r].token \in TokenOrNone
    BY <2>1, AskingTyped
  <2>3. lost' \subseteq Device
    BY <1>3, <2>2 DEF FindByRefreshHash, RevokeFamily, Revoke, Fail, sessionsHistory, DeviceAsking, SessionsTypeOK
  <2>4. asked[r].step = "found" => asked[r].token \in Token
    BY <2>1, <2>2, SessionsAssumption DEF HeldTokens, RequestHolds, Token, TokenOrNone
  <2>5. revoked' \subseteq Token
    BY <1>3, <2>4 DEF FindByRefreshHash, RevokeFamily, Revoke, Fail, serverVars, Live, SessionsTypeOK
  <2>. QED
    BY <1>1, <2>1, <2>3, <2>5 DEF SessionsTypeOK
<1>. QED
  BY <1>2, <1>3 DEF Handler

LEMMA SessionsTypesKept == ASSUME SessionsInv, SessionsNext PROVE SessionsTypeOK'
<1>. USE SessionsAssumption
<1>0. SessionsTypeOK /\ TokensInOrder /\ HeldTokens
  BY DEF SessionsInv
<1>1. \A t \in BrowserTab : Cross(t) => tabsCrossed' \subseteq Device
  BY <1>0 DEF Cross, SessionsTypeOK
<1>2. ASSUME NEW t \in BrowserTab, Login(t) PROVE SessionsTypeOK'
  BY <1>0, <1>2 DEF Login, SetSession, sessionsHistory, SessionsTypeOK, Token, TokenOrNone
<1>3. ASSUME NEW t \in BrowserTab, Expire(t) PROVE SessionsTypeOK'
  <2>. DEFINE after == [c \in Call |-> IF call[t][c] = "fresh" THEN "stale" ELSE call[t][c]]
  <2>1. after \in [Call -> CallState]
    BY <1>0 DEF SessionsTypeOK, CallState
  <2>2. call' = [call EXCEPT ![t] = after]
    BY <1>3 DEF Expire
  <2>. HIDE DEF after
  <2>3. call' \in [BrowserTab -> [Call -> CallState]]
    BY <1>0, <2>1, <2>2 DEF SessionsTypeOK
  <2>. QED
    BY <1>0, <1>3, <2>3 DEF Expire, serverVars, sessionsHistory, SessionsTypeOK
<1>4. ASSUME NEW t \in BrowserTab, NEW r \in Request, Reload(t, r) PROVE SessionsTypeOK'
  <2>1. asked' \in [Request -> Asked \cup {NoRequest}]
    BY <1>0, <1>4, Reloading
  <2>2. lost' \subseteq Device /\ tabsCrossed' \subseteq Device
    BY <1>0, <1>1, <1>4 DEF Reload, SessionsTypeOK
  <2>3. call' \in [BrowserTab -> [Call -> CallState]]
    BY <1>0, <1>4 DEF Reload, NoCalls, CallState, SessionsTypeOK
  <2>. QED
    <3>1. session' = [session EXCEPT ![t] = 0] /\ expired' = expired \ {t}
      BY <1>4, Zenon DEF Reload, ClearSession
    <3>2. family' = family /\ revoked' = revoked /\ cookie' = cookie
      BY <1>4 DEF Reload, serverVars
    <3>. QED
      BY <1>0, <2>1, <2>2, <2>3, <3>1, <3>2 DEF SessionsTypeOK, TokenOrNone
<1>5. ASSUME NEW t \in BrowserTab, NEW r \in Request, Logout(t, r) PROVE SessionsTypeOK'
  BY <1>0, <1>5, Sending DEF Logout, serverVars, callerVars, sessionsHistory, SessionsTypeOK
<1>6. ASSUME NEW t \in BrowserTab, NEW r \in Request, NEW c \in Call, Unauthorized(t, c, r) PROVE SessionsTypeOK'
  <2>1. call' \in [BrowserTab -> [Call -> CallState]]
    BY <1>0, <1>6 DEF Unauthorized, CallState, SessionsTypeOK
  <2>2. asked' \in [Request -> Asked \cup {NoRequest}] /\ tabsCrossed' \subseteq Device
    BY <1>0, <1>1, <1>6, Sending DEF Unauthorized, RefreshOnce, SessionsTypeOK
  <2>. QED
    BY <1>0, <1>6, <2>1, <2>2 DEF Unauthorized, serverVars, SessionsTypeOK
<1>7. ASSUME NEW t \in BrowserTab, NEW c \in Call, Fetch(t, c) \/ RespondToCall(t, c) PROVE SessionsTypeOK'
  BY <1>0, <1>7 DEF Fetch, RespondToCall, CallState, serverVars, sessionsHistory, SessionsTypeOK
<1>8. ASSUME NEW t \in BrowserTab, NEW f \in Token, RevokeDevice(t, f) PROVE SessionsTypeOK'
  BY <1>0, <1>8 DEF RevokeDevice, Live, callerVars, sessionsHistory, SessionsTypeOK
<1>9. ASSUME NEW r \in Request, Handler(r) \/ Fail(r) PROVE SessionsTypeOK'
  <2>1. asked' \in [Request -> Asked \cup {NoRequest}]
    <3>1. PICK s \in Steps, n \in TokenOrNone : asked' = [asked EXCEPT ![r] = Stepped(asked[r], s, n)]
      BY <1>0, <1>9, Handling
    <3>. QED
      BY <1>0, <1>9, <3>1, Handling, Stepping
  <2>. QED
    BY <1>0, <1>9, <2>1, Handling DEF SessionsTypeOK
<1>10. ASSUME NEW r \in Request, Answer(r) \/ LoseAnswer(r) PROVE SessionsTypeOK'
  <2>1. Asking(r) /\ Forget(r)
    BY <1>0, <1>10, Answering
  <2>2. asked' \in [Request -> Asked \cup {NoRequest}] /\ asked[r].new \in TokenOrNone /\ DeviceAsking(r) \in Device
    BY <1>0, <2>1, Forgetting, AskingTyped
  <2>3. cookie' \in [Device -> TokenOrNone]
    BY <1>0, <1>10, <2>2 DEF Answer, LoseAnswer, SetCookie, DeviceAsking, SessionsTypeOK
  <2>4. /\ family' = family /\ revoked' = revoked /\ tabsCrossed' = tabsCrossed
        /\ lost' = lost \/ lost' = lost \cup {DeviceAsking(r)}
    BY <1>10 DEF Answer, LoseAnswer, serverVars, sessionsHistory, DeviceAsking
  <2>. QED
    BY <1>0, <1>10, <2>2, <2>3, <2>4, Answering DEF SessionsTypeOK
<1>. QED
  BY <1>2, <1>3, <1>4, <1>5, <1>6, <1>7, <1>8, <1>9, <1>10 DEF SessionsNext, Page

-----------------------------------------------------------------------------
(* Sessions: pages and what they wait for.                                 *)

(* A step that leaves every request with its page.                         *)
SamePages ==
  /\ \A q \in Request :
       /\ Asking(q)' => Asking(q)
       /\ asked'[q].kind = asked[q].kind /\ asked'[q].tab = asked[q].tab /\ asked'[q].heard = asked[q].heard
  /\ lost \subseteq lost' /\ tabsCrossed \subseteq tabsCrossed'

LEMMA SamePagesKeep ==
  ASSUME PagesInv, SamePages
  PROVE  OneTry' /\ UnheardIsLost' /\ CrossingIsKnown'
<1>1. OneTry'
  BY DEF PagesInv, OneTry, SamePages
<1>2. \A q \in Request : DeviceAsking(q)' = DeviceAsking(q) /\ (Refreshes(q)' => Refreshes(q))
  BY DEF SamePages, DeviceAsking, Refreshes
<1>3. UnheardIsLost'
  BY <1>2 DEF PagesInv, UnheardIsLost, SamePages
<1>4. CrossingIsKnown'
  BY <1>2 DEF PagesInv, CrossingIsKnown, SamePages
<1>. QED
  BY <1>1, <1>3, <1>4

LEMMA SamePagesBoot ==
  ASSUME BootsAlone, SamePages,
         \A r \in Request : Asking(r)' /\ asked[r].heard /\ asked[r].kind = "boot" =>
           session'[asked[r].tab] = 0 /\ \A c \in Call : call'[asked[r].tab][c] = "idle"
  PROVE  BootsAlone'
<1>. SUFFICES ASSUME NEW r \in Request, Asking(r)', asked'[r].heard, asked'[r].kind = "boot"
              PROVE  /\ session'[asked'[r].tab] = 0
                     /\ \A c \in Call : call'[asked'[r].tab][c] = "idle"
                     /\ \A q \in Request : Asking(q)' /\ asked'[q].heard /\ asked'[q].tab = asked'[r].tab => q = r
  BY DEF BootsAlone
<1>1. Asking(r) /\ asked[r].heard /\ asked[r].kind = "boot" /\ asked'[r].tab = asked[r].tab
  BY DEF SamePages
<1>2. \A q \in Request : Asking(q)' /\ asked'[q].heard /\ asked'[q].tab = asked'[r].tab => q = r
  BY <1>1 DEF BootsAlone, SamePages
<1>. QED
  BY <1>1, <1>2

(* A refresh that leaves crosses those of other tabs.                      *)
LEMMA Crossing ==
  ASSUME SessionsTypeOK, NEW t \in BrowserTab, Cross(t)
  PROVE  /\ tabsCrossed \subseteq tabsCrossed'
         /\ \A q \in Request : Refreshes(q) /\ DeviceAsking(q) = DeviceOf[t] /\ asked[q].tab # t
              => DeviceOf[t] \in tabsCrossed'
BY AskingIsBusy DEF Cross, Refreshing, Refreshes, DeviceAsking

LEMMA SentKeeps ==
  ASSUME SessionsInv, NEW r \in Request, NEW t \in BrowserTab, NEW kind \in {"try", "logout"}, Send(r, kind, t),
         \A q \in Request : ~(Asking(q) /\ asked[q].heard /\ asked[q].tab = t /\ asked[q].kind \in {"boot", kind}),
         kind = "try" => Cross(t), kind = "logout" => tabsCrossed' = tabsCrossed,
         session' = session, lost' = lost,
         \A u \in BrowserTab : u # t => call'[u] = call[u]
  PROVE  PagesInv'
<1>0. SessionsTypeOK /\ BootsAlone /\ OneTry /\ UnheardIsLost /\ CrossingIsKnown
  BY DEF SessionsInv, PagesInv
<1>1. /\ ~Asking(r) /\ Asking(r)'
      /\ asked'[r].kind = kind /\ asked'[r].tab = t /\ asked'[r].step = "sent" /\ asked'[r].heard
      /\ \A q \in Request : q # r => asked'[q] = asked[q]
      /\ \A q \in Request : q # r => (Asking(q)' <=> Asking(q))
  BY <1>0, Sending
<1>2. \A q \in Request : q # r => DeviceAsking(q)' = DeviceAsking(q) /\ (Refreshes(q)' <=> Refreshes(q))
  BY <1>1 DEF DeviceAsking, Refreshes
<1>3. DeviceAsking(r)' = DeviceOf[t] /\ (Refreshes(r)' => kind = "try")
  BY <1>1 DEF DeviceAsking, Refreshes
<1>4. \A q \in Request : Asking(q) => asked[q].tab \in BrowserTab
  BY AskingTyped
<1>5. BootsAlone'
  BY <1>0, <1>1, <1>4 DEF BootsAlone
<1>6. OneTry'
  BY <1>0, <1>1 DEF OneTry
<1>7. UnheardIsLost'
  BY <1>0, <1>1, <1>2 DEF UnheardIsLost
<1>8. CrossingIsKnown'
  <2>. SUFFICES ASSUME NEW p \in Request, NEW q \in Request, Refreshes(p)', Refreshes(q)',
                       DeviceAsking(q)' = DeviceAsking(p)', asked'[q].tab # asked'[p].tab
                PROVE  DeviceAsking(p)' \in tabsCrossed'
    BY DEF CrossingIsKnown
  <2>1. CASE p # r /\ q # r
    <3>1. DeviceAsking(p) \in tabsCrossed
      BY <1>0, <1>1, <1>2, <2>1 DEF CrossingIsKnown
    <3>. QED
      BY <1>0, <1>2, <2>1, <3>1, Crossing
  <2>2. CASE p = r \/ q = r
    <3>1. kind = "try" /\ Cross(t)
      BY <1>3, <2>2
    <3>2. CASE p = r /\ q # r
      BY <1>0, <1>1, <1>2, <1>3, <3>1, <3>2, Crossing
    <3>3. CASE p # r /\ q = r
      BY <1>0, <1>1, <1>2, <1>3, <3>1, <3>3, Crossing
    <3>. QED
      BY <2>2, <3>2, <3>3
  <2>. QED
    BY <2>1, <2>2
<1>. QED
  BY <1>5, <1>6, <1>7, <1>8 DEF PagesInv

LEMMA InFlightAsks ==
  ASSUME SessionsTypeOK, NEW t \in BrowserTab, NEW kind
  PROVE  InFlight(t, kind) = {r \in Request : Asking(r) /\ asked[r].tab = t /\ asked[r].heard /\ asked[r].kind = kind}
BY AskingIsBusy DEF InFlight

LEMMA HandlingSteps ==
  ASSUME SessionsInv, NEW r \in Request, Handler(r) \/ Fail(r)
  PROVE  /\ SamePages /\ session' = session /\ call' = call
         /\ \A q \in Request : q # r => asked'[q] = asked[q] /\ (Asking(q)' <=> Asking(q))
<1>0. SessionsTypeOK /\ TokensInOrder /\ HeldTokens
  BY DEF SessionsInv
<1>1. /\ Asking(r) /\ lost \subseteq lost' /\ tabsCrossed' = tabsCrossed /\ session' = session /\ call' = call
      /\ \E s \in Steps, n \in TokenOrNone : asked' = [asked EXCEPT ![r] = Stepped(asked[r], s, n)]
  BY <1>0, Handling
<1>2. PICK s \in Steps, n \in TokenOrNone : asked' = [asked EXCEPT ![r] = Stepped(asked[r], s, n)]
  BY <1>1
<1>3. /\ \A q \in Request : q # r => asked'[q] = asked[q]
      /\ \A q \in Request : Asking(q)' <=> Asking(q)
      /\ \A q \in Request :
              /\ asked'[q].kind = asked[q].kind /\ asked'[q].tab = asked[q].tab
              /\ asked'[q].heard = asked[q].heard /\ asked'[q].token = asked[q].token
  BY <1>0, <1>1, <1>2, Stepping
<1>. QED
  BY <1>1, <1>3 DEF SamePages

LEMMA PagesKept == ASSUME SessionsInv, SessionsNext PROVE PagesInv'
<1>0. SessionsTypeOK /\ PagesInv /\ BootsAlone /\ TokensInOrder /\ HeldTokens
  BY DEF SessionsInv, PagesInv
<1>1. \A q \in Request : Asking(q) => asked[q].tab \in BrowserTab
  BY AskingTyped
<1>2. ASSUME asked' = asked, lost' = lost, tabsCrossed' = tabsCrossed,
             \A q \in Request : Asking(q) /\ asked[q].heard /\ asked[q].kind = "boot" =>
               session'[asked[q].tab] = 0 /\ \A c \in Call : call'[asked[q].tab][c] = "idle"
      PROVE  PagesInv'
  <2>1. SamePages
    BY <1>2 DEF SamePages, Asking
  <2>2. BootsAlone'
    BY <1>0, <1>2, <2>1, SamePagesBoot DEF SamePages
  <2>. QED
    BY <1>0, <2>1, <2>2, SamePagesKeep DEF PagesInv
<1>3. ASSUME NEW t \in BrowserTab, Login(t) PROVE PagesInv'
  <2>1. asked' = asked /\ lost' = lost /\ tabsCrossed' = tabsCrossed /\ call' = call /\ InFlight(t, "boot") = {}
    BY <1>3 DEF Login, sessionsHistory
  <2>2. \A u \in BrowserTab : u # t => session'[u] = session[u]
    BY <1>0, <1>3 DEF Login, SetSession, SessionsTypeOK
  <2>3. \A q \in Request : Asking(q) /\ asked[q].heard /\ asked[q].kind = "boot" => asked[q].tab # t
    BY <1>0, <2>1, InFlightAsks
  <2>. QED
    BY <1>0, <1>1, <1>2, <2>1, <2>2, <2>3 DEF BootsAlone
<1>4. ASSUME NEW t \in BrowserTab, Expire(t) PROVE PagesInv'
  <2>1. asked' = asked /\ lost' = lost /\ tabsCrossed' = tabsCrossed /\ session' = session /\ session[t] # 0
    BY <1>4 DEF Expire, sessionsHistory
  <2>2. \A u \in BrowserTab : u # t => call'[u] = call[u]
    BY <1>0, <1>4 DEF Expire, SessionsTypeOK
  <2>. QED
    BY <1>0, <1>1, <1>2, <2>1, <2>2 DEF BootsAlone
<1>5. ASSUME NEW t \in BrowserTab, NEW r \in Request, Reload(t, r) PROVE PagesInv'
  <2>1. /\ ~Asking(r) /\ Asking(r)'
        /\ asked'[r].kind = "boot" /\ asked'[r].tab = t /\ asked'[r].heard
        /\ \A q \in Request : q # r =>
              /\ Asking(q)' <=> Asking(q)
              /\ asked[q].tab # t => asked'[q] = asked[q]
              /\ Asking(q) =>
                   /\ asked'[q].kind = asked[q].kind /\ asked'[q].tab = asked[q].tab
                   /\ asked[q].tab = t => ~asked'[q].heard /\ (asked[q].heard => DeviceOf[t] \in lost')
    BY <1>0, <1>5, Reloading
  <2>2. session' = [session EXCEPT ![t] = 0]
    BY <1>5, Zenon DEF Reload, ClearSession
  <2>3. call' = [call EXCEPT ![t] = NoCalls] /\ lost \subseteq lost' /\ Cross(t)
    BY <1>5 DEF Reload
  <2>4. /\ session'[t] = 0 /\ \A c \in Call : call'[t][c] = "idle"
        /\ \A u \in BrowserTab : u # t => session'[u] = session[u] /\ call'[u] = call[u]
    BY <1>0, <2>2, <2>3 DEF SessionsTypeOK, NoCalls
  <2>5. BootsAlone'
    <3>. SUFFICES ASSUME NEW p \in Request, Asking(p)', asked'[p].heard, asked'[p].kind = "boot"
                  PROVE  /\ session'[asked'[p].tab] = 0
                         /\ \A c \in Call : call'[asked'[p].tab][c] = "idle"
                         /\ \A q \in Request : Asking(q)' /\ asked'[q].heard /\ asked'[q].tab = asked'[p].tab => q = p
      BY DEF BootsAlone
    <3>1. CASE p = r
      BY <2>1, <2>4, <3>1
    <3>2. CASE p # r
      <4>1. Asking(p) /\ asked[p].tab # t /\ asked'[p] = asked[p]
        BY <2>1, <3>2
      <4>. QED
        BY <1>0, <1>1, <2>1, <2>4, <3>2, <4>1 DEF BootsAlone
    <3>. QED
      BY <3>1, <3>2
  <2>6. OneTry'
    BY <1>0, <2>1 DEF PagesInv, OneTry
  <2>7. \A q \in Request : q # r =>
          /\ Refreshes(q)' <=> Refreshes(q)
          /\ Asking(q) => DeviceAsking(q)' = DeviceAsking(q)
    BY <2>1 DEF Refreshes, DeviceAsking
  <2>8. DeviceAsking(r)' = DeviceOf[t]
    BY <2>1 DEF DeviceAsking
  <2>9. UnheardIsLost'
    <3>. SUFFICES ASSUME NEW p \in Request, Asking(p)', ~asked'[p].heard PROVE DeviceAsking(p)' \in lost'
      BY DEF UnheardIsLost
    <3>1. p # r /\ Asking(p) /\ DeviceAsking(p)' = DeviceAsking(p)
      BY <2>1, <2>7
    <3>2. CASE asked[p].tab = t /\ asked[p].heard
      BY <2>1, <3>1, <3>2 DEF DeviceAsking
    <3>3. CASE ~asked[p].heard
      BY <1>0, <2>3, <3>1, <3>3 DEF PagesInv, UnheardIsLost
    <3>4. CASE asked[p].tab # t /\ asked[p].heard
      BY <2>1, <3>1, <3>4
    <3>. QED
      BY <3>2, <3>3, <3>4
  <2>10. CrossingIsKnown'
    <3>. SUFFICES ASSUME NEW p \in Request, NEW q \in Request, Refreshes(p)', Refreshes(q)',
                         DeviceAsking(q)' = DeviceAsking(p)', asked'[q].tab # asked'[p].tab
                  PROVE  DeviceAsking(p)' \in tabsCrossed'
      BY DEF CrossingIsKnown
    <3>1. tabsCrossed \subseteq tabsCrossed'
      BY <1>0, <2>3, Crossing
    <3>2. CASE p # r /\ q # r
      BY <1>0, <2>1, <2>7, <3>1, <3>2 DEF PagesInv, CrossingIsKnown, Refreshes
    <3>3. CASE p = r /\ q # r
      BY <1>0, <2>1, <2>3, <2>7, <2>8, <3>3, Crossing DEF Refreshes
    <3>4. CASE p # r /\ q = r
      BY <1>0, <2>1, <2>3, <2>7, <2>8, <3>4, Crossing DEF Refreshes
    <3>5. CASE p = r /\ q = r
      BY <3>5
    <3>. QED
      BY <3>2, <3>3, <3>4, <3>5
  <2>. QED
    BY <2>5, <2>6, <2>9, <2>10 DEF PagesInv
<1>6. ASSUME NEW t \in BrowserTab, NEW r \in Request, Logout(t, r) PROVE PagesInv'
  <2>1. session[t] # 0 /\ InFlight(t, "logout") = {} /\ Send(r, "logout", t)
    BY <1>6 DEF Logout
  <2>2. session' = session /\ call' = call /\ lost' = lost /\ tabsCrossed' = tabsCrossed
    BY <1>6 DEF Logout, callerVars, sessionsHistory
  <2>3. \A q \in Request : ~(Asking(q) /\ asked[q].heard /\ asked[q].tab = t /\ asked[q].kind \in {"boot", "logout"})
    BY <1>0, <2>1, InFlightAsks DEF BootsAlone
  <2>. QED
    BY <2>1, <2>2, <2>3, SentKeeps
<1>7. ASSUME NEW t \in BrowserTab, NEW r \in Request, NEW c \in Call, Unauthorized(t, c, r) PROVE PagesInv'
  <2>1. call[t][c] = "stale" /\ session' = session /\ lost' = lost
    BY <1>7 DEF Unauthorized
  <2>2. \A u \in BrowserTab : u # t => call'[u] = call[u]
    BY <1>0, <1>7 DEF Unauthorized, SessionsTypeOK
  <2>3. \A q \in Request : ~(Asking(q) /\ asked[q].heard /\ asked[q].tab = t /\ asked[q].kind = "boot")
    BY <1>0, <2>1 DEF BootsAlone
  <2>4. CASE asked' = asked /\ tabsCrossed' = tabsCrossed
    BY <1>0, <1>1, <1>2, <2>1, <2>2, <2>3, <2>4 DEF BootsAlone
  <2>5. CASE Send(r, "try", t) /\ Cross(t) /\ InFlight(t, "try") = {}
    <3>1. \A q \in Request : ~(Asking(q) /\ asked[q].heard /\ asked[q].tab = t /\ asked[q].kind \in {"boot", "try"})
      BY <1>0, <2>3, <2>5, InFlightAsks
    <3>. QED
      BY <2>1, <2>2, <2>5, <3>1, SentKeeps
  <2>. QED
    BY <1>7, <2>4, <2>5 DEF Unauthorized, RefreshOnce
<1>8. ASSUME NEW t \in BrowserTab, NEW c \in Call, Fetch(t, c) \/ RespondToCall(t, c) PROVE PagesInv'
  <2>1. asked' = asked /\ lost' = lost /\ tabsCrossed' = tabsCrossed /\ session' = session
    BY <1>8 DEF Fetch, RespondToCall, sessionsHistory
  <2>2. \A u \in BrowserTab : u # t => call'[u] = call[u]
    BY <1>0, <1>8 DEF Fetch, RespondToCall, SessionsTypeOK
  <2>3. session[t] # 0 \/ call[t][c] # "idle"
    BY <1>8 DEF Fetch, RespondToCall
  <2>. QED
    BY <1>0, <1>1, <1>2, <2>1, <2>2, <2>3 DEF BootsAlone
<1>9. ASSUME NEW t \in BrowserTab, NEW f \in Token, RevokeDevice(t, f) PROVE PagesInv'
  BY <1>0, <1>2, <1>9 DEF RevokeDevice, callerVars, sessionsHistory, BootsAlone
<1>10. ASSUME NEW r \in Request, Handler(r) \/ Fail(r) PROVE PagesInv'
  <2>1. SamePages /\ session' = session /\ call' = call
    BY <1>10, HandlingSteps
  <2>2. BootsAlone'
    BY <1>0, <2>1, SamePagesBoot DEF BootsAlone, SamePages
  <2>. QED
    BY <1>0, <2>1, <2>2, SamePagesKeep DEF PagesInv
<1>11. ASSUME NEW r \in Request, Answer(r) \/ LoseAnswer(r) PROVE PagesInv'
  <2>. DEFINE t == asked[r].tab
  <2>1. /\ Asking(r) /\ Forget(r)
        /\ \A u \in BrowserTab :
             u # t \/ ~asked[r].heard => session'[u] = session[u] /\ call'[u] = call[u]
    BY <1>0, <1>11, Answering
  <2>2. /\ ~Asking(r)'
        /\ \A q \in Request : q # r => asked'[q] = asked[q]
        /\ \A q \in Request : q # r => (Asking(q)' <=> Asking(q))
    BY <1>0, <2>1, Forgetting
  <2>3. lost \subseteq lost' /\ tabsCrossed' = tabsCrossed
    BY <1>11 DEF Answer, LoseAnswer, sessionsHistory
  <2>4. OneTry'
    BY <1>0, <2>2 DEF PagesInv, OneTry
  <2>5. \A q \in Request : q # r => DeviceAsking(q)' = DeviceAsking(q) /\ (Refreshes(q)' <=> Refreshes(q))
    BY <2>2 DEF Refreshes, DeviceAsking
  <2>6. UnheardIsLost'
    BY <1>0, <2>2, <2>3, <2>5 DEF PagesInv, UnheardIsLost
  <2>7. CrossingIsKnown'
    BY <1>0, <2>2, <2>3, <2>5 DEF PagesInv, CrossingIsKnown, Refreshes
  <2>8. BootsAlone'
    <3>. SUFFICES ASSUME NEW p \in Request, Asking(p)', asked'[p].heard, asked'[p].kind = "boot"
                  PROVE  /\ session'[asked'[p].tab] = 0
                         /\ \A c \in Call : call'[asked'[p].tab][c] = "idle"
                         /\ \A q \in Request : Asking(q)' /\ asked'[q].heard /\ asked'[q].tab = asked'[p].tab => q = p
      BY DEF BootsAlone
    <3>1. p # r /\ Asking(p) /\ asked'[p] = asked[p]
      BY <2>2
    <3>2. asked[p].tab # t \/ ~asked[r].heard
      BY <1>0, <2>1, <3>1 DEF BootsAlone
    <3>. QED
      BY <1>0, <1>1, <2>1, <2>2, <3>1, <3>2 DEF BootsAlone
  <2>. QED
    BY <2>4, <2>6, <2>7, <2>8 DEF PagesInv
<1>. QED
  BY <1>3, <1>4, <1>5, <1>6, <1>7, <1>8, <1>9, <1>10, <1>11 DEF SessionsNext, Page


LEMMA InFlightAsksNext ==
  ASSUME SessionsTypeOK', NEW t \in BrowserTab, NEW kind
  PROVE  InFlight(t, kind)' =
           {r \in Request : Asking(r)' /\ asked'[r].tab = t /\ asked'[r].heard /\ asked'[r].kind = kind}
<1>1. \A r \in Request : asked'[r] \in Asked <=> asked'[r] # NoRequest
  BY DEF SessionsTypeOK, NoRequest, Asked, Steps
<1>. QED
  BY <1>1 DEF InFlight, Idle, Asking

(* A refresh a page listens to goes away with its answer, or with the page;*)
(* either ends every wait.                                                 *)
LEMMA NoCallStranded == ASSUME SessionsInv, SessionsNext PROVE NoCallIsStranded'
<1>0. SessionsTypeOK /\ TokensInOrder /\ HeldTokens /\ BootsAlone /\ NoCallIsStranded
  BY DEF SessionsInv, PagesInv
<1>. DEFINE Waits(u) == \E c \in Call : call[u][c] = "waiting"
            Tries(q, u) == Asking(q) /\ asked[q].tab = u /\ asked[q].heard /\ asked[q].kind = "try"
<1>1. \A u \in BrowserTab : Waits(u) => \E q \in Request : Tries(q, u)
  BY <1>0, InFlightAsks DEF NoCallIsStranded, Waiting
<1>2. SessionsTypeOK'
  BY SessionsTypesKept
<1>3. ASSUME \A u \in BrowserTab : Waits(u)' => \E q \in Request : Tries(q, u)' PROVE NoCallIsStranded'
  BY <1>2, <1>3, InFlightAsksNext DEF NoCallIsStranded, Waiting
<1>4. ASSUME asked' = asked, \A u \in BrowserTab : Waits(u)' => Waits(u) PROVE NoCallIsStranded'
  BY <1>1, <1>3, <1>4 DEF Asking
<1>5. ASSUME NEW t \in BrowserTab, Login(t) PROVE NoCallIsStranded'
  BY <1>4, <1>5 DEF Login
<1>6. ASSUME NEW t \in BrowserTab, Expire(t) PROVE NoCallIsStranded'
  <2>. DEFINE after == [c \in Call |-> IF call[t][c] = "fresh" THEN "stale" ELSE call[t][c]]
  <2>1. call' = [call EXCEPT ![t] = after] /\ asked' = asked
    BY <1>6 DEF Expire
  <2>2. \A c \in Call : after[c] = "waiting" => call[t][c] = "waiting"
    OBVIOUS
  <2>. HIDE DEF after
  <2>. QED
    BY <1>0, <1>4, <2>1, <2>2 DEF SessionsTypeOK
<1>7. ASSUME NEW t \in BrowserTab, NEW r \in Request, Reload(t, r) PROVE NoCallIsStranded'
  <2>1. call' = [call EXCEPT ![t] = NoCalls]
    BY <1>7 DEF Reload
  <2>2. ~Asking(r) /\ \A q \in Request : q # r => (Asking(q)' <=> Asking(q)) /\ (asked[q].tab # t => asked'[q] = asked[q])
    BY <1>0, <1>7, Reloading
  <2>3. ~Waits(t)' /\ \A u \in BrowserTab : u # t => (Waits(u)' => Waits(u))
    BY <1>0, <2>1 DEF SessionsTypeOK, NoCalls
  <2>4. \A u \in BrowserTab, q \in Request : u # t /\ Tries(q, u) => Tries(q, u)'
    BY <2>2
  <2>. HIDE DEF Waits, Tries
  <2>. QED
    BY <1>1, <1>3, <2>3, <2>4
<1>8. ASSUME NEW t \in BrowserTab, NEW r \in Request, Logout(t, r) PROVE NoCallIsStranded'
  <2>1. Send(r, "logout", t) /\ call' = call
    BY <1>8 DEF Logout, callerVars
  <2>2. ~Asking(r) /\ \A q \in Request : q # r => asked'[q] = asked[q] /\ (Asking(q)' <=> Asking(q))
    BY <1>0, <2>1, Sending
  <2>3. \A u \in BrowserTab, q \in Request : Tries(q, u) => Tries(q, u)'
    BY <2>2
  <2>. QED
    BY <1>1, <1>3, <2>1, <2>3
<1>9. ASSUME NEW t \in BrowserTab, NEW r \in Request, NEW c \in Call, Unauthorized(t, c, r) PROVE NoCallIsStranded'
  <2>1. \A u \in BrowserTab : u # t => (Waits(u)' => Waits(u))
    BY <1>0, <1>9 DEF Unauthorized, SessionsTypeOK
  <2>2. CASE asked' = asked /\ InFlight(t, "try") # {}
    <3>1. \E q \in Request : Tries(q, t)
      BY <1>0, <2>2, InFlightAsks
    <3>. QED
      BY <1>1, <1>3, <2>1, <2>2, <3>1 DEF Asking
  <2>3. CASE Send(r, "try", t)
    <3>1. /\ ~Asking(r) /\ Tries(r, t)'
          /\ \A q \in Request : q # r => asked'[q] = asked[q] /\ (Asking(q)' <=> Asking(q))
      BY <1>0, <2>3, Sending
    <3>2. \A u \in BrowserTab, q \in Request : Tries(q, u) => Tries(q, u)'
      BY <3>1
    <3>. HIDE DEF Tries
    <3>. QED
      BY <1>1, <1>3, <2>1, <3>1, <3>2
  <2>4. CASE call' = [call EXCEPT ![t][c] = "idle"] /\ asked' = asked
    BY <1>0, <1>4, <2>4 DEF SessionsTypeOK
  <2>. QED
    BY <1>9, <2>2, <2>3, <2>4 DEF Unauthorized, RefreshOnce
<1>10. ASSUME NEW t \in BrowserTab, NEW c \in Call, Fetch(t, c) \/ RespondToCall(t, c) PROVE NoCallIsStranded'
  <2>1. asked' = asked
    BY <1>10 DEF Fetch, RespondToCall
  <2>2. \A u \in BrowserTab : Waits(u)' => Waits(u)
    <3>1. \E to \in {"stale", "fresh", "idle"} : call' = [call EXCEPT ![t][c] = to]
      BY <1>10 DEF Fetch, RespondToCall
    <3>2. PICK to \in {"stale", "fresh", "idle"} : call' = [call EXCEPT ![t][c] = to]
      BY <3>1
    <3>. QED
      BY <1>0, <3>2 DEF SessionsTypeOK
  <2>. QED
    BY <1>4, <2>1, <2>2
<1>11. ASSUME NEW t \in BrowserTab, NEW f \in Token, RevokeDevice(t, f) PROVE NoCallIsStranded'
  BY <1>4, <1>11 DEF RevokeDevice, callerVars
<1>12. ASSUME NEW r \in Request, Handler(r) \/ Fail(r) PROVE NoCallIsStranded'
  <2>1. SamePages /\ call' = call /\ \A q \in Request : q # r => asked'[q] = asked[q] /\ (Asking(q)' <=> Asking(q))
    BY <1>12, HandlingSteps
  <2>2. Asking(r)' <=> Asking(r)
    <3>1. PICK s \in Steps, n \in TokenOrNone : asked' = [asked EXCEPT ![r] = Stepped(asked[r], s, n)]
      BY <1>0, <1>12, Handling
    <3>. QED
      BY <1>0, <1>12, <3>1, Handling, Stepping
  <2>3. \A u \in BrowserTab, q \in Request : Tries(q, u) => Tries(q, u)'
    BY <2>1, <2>2 DEF SamePages
  <2>. QED
    BY <1>1, <1>3, <2>1, <2>3
<1>13. ASSUME NEW r \in Request, Answer(r) \/ LoseAnswer(r) PROVE NoCallIsStranded'
  <2>. DEFINE t == asked[r].tab
  <2>1. /\ Asking(r) /\ Forget(r)
        /\ \A u \in BrowserTab :
             u # t \/ ~asked[r].heard => call'[u] = call[u]
        /\ asked[r].heard /\ asked[r].kind = "try" => \A c \in Call : call'[t][c] # "waiting"
        /\ ~asked[r].heard \/ asked[r].kind # "try" => call' = call
    BY <1>0, <1>13, Answering
  <2>2. \A q \in Request : q # r => asked'[q] = asked[q] /\ (Asking(q)' <=> Asking(q))
    BY <1>0, <2>1, Forgetting
  <2>3. \A u \in BrowserTab, q \in Request : q # r /\ Tries(q, u) => Tries(q, u)'
    BY <2>2
  <2>4. ASSUME NEW u \in BrowserTab, Waits(u)' PROVE \E q \in Request : Tries(q, u)'
    <3>1. Waits(u) /\ ~Tries(r, u)
      BY <2>1, <2>4
    <3>. QED
      BY <1>1, <2>3, <3>1
  <2>. QED
    BY <1>3, <2>4
<1>. QED
  BY <1>5, <1>6, <1>7, <1>8, <1>9, <1>10, <1>11, <1>12, <1>13 DEF SessionsNext, Page

-----------------------------------------------------------------------------
(* Sessions: tokens.                                                       *)

TokensInv == TokensInOrder /\ HeldTokens /\ FamiliesApart /\ NewestIsLive
LiveNext(f) == {k \in Token : family'[k] = f /\ k \notin revoked'}
SameRequest(q) ==
  /\ asked'[q].kind = asked[q].kind /\ asked'[q].step = asked[q].step /\ asked'[q].tab = asked[q].tab
  /\ asked'[q].token = asked[q].token /\ asked'[q].new = asked[q].new

LEMMA LiveShrinks ==
  ASSUME family' = family, revoked \subseteq revoked', NEW f
  PROVE  LiveNext(f) \subseteq Live(f)
BY DEF LiveNext, Live

LEMMA SuccessorStays ==
  ASSUME NEW d \in Device, cookie'[d] = cookie[d],
         \A k \in Token : family[k] # 0 => family'[k] = family[k],
         Issued(cookie[d]), cookie[d] \in TokenOrNone, NEW q \in Request, Refreshes(q), DeviceAsking(q) = d,
         asked[q].step = "rotated", SameFamily(cookie[d], asked[q].new), asked[q].new \in TokenOrNone,
         Asking(q)', SameRequest(q)
  PROVE  Successor(d)'
<1>1. Refreshes(q)' /\ DeviceAsking(q)' = d /\ asked'[q].step = "rotated"
  BY DEF Refreshes, DeviceAsking, SameRequest
<1>2. cookie[d] # 0 /\ asked[q].new # 0 /\ family[cookie[d]] # 0 /\ family[asked[q].new] = family[cookie[d]]
  BY DEF SameFamily, Issued
<1>3. cookie[d] \in Token /\ asked[q].new \in Token
  BY <1>2, SessionsAssumption DEF Token, TokenOrNone
<1>4. SameFamily(cookie[d], asked[q].new)'
  BY <1>2, <1>3 DEF SameFamily, SameRequest
<1>. QED
  BY <1>1, <1>4 DEF Successor

LEMMA CookieStaysNewest ==
  ASSUME NEW d \in Device, CookieIsNewest(d), cookie'[d] = cookie[d], Honest(d)' => Honest(d),
         cookie[d] # 0 => /\ family'[cookie[d]] = family[cookie[d]]
                          /\ LiveNext(family[cookie[d]]) \subseteq Live(family[cookie[d]]) \/ Successor(d)',
         Honest(d) /\ Successor(d) => Successor(d)'
  PROVE  CookieIsNewest(d)'
<1>1. Live(family[cookie[d]])' = LiveNext(family'[cookie'[d]])
  BY DEF Live, LiveNext
<1>. QED
  BY <1>1 DEF CookieIsNewest

LEMMA RequestStaysNewest ==
  ASSUME NEW q \in Request, RequestIsNewest(q), SameRequest(q), Asking(q)' => Asking(q),
         Honest(DeviceAsking(q))' => Honest(DeviceAsking(q)),
         Refreshes(q) /\ Honest(DeviceAsking(q)) /\ asked[q].token # 0 =>
           /\ family'[asked[q].token] = family[asked[q].token]
           /\ LiveNext(family[asked[q].token]) \subseteq Live(family[asked[q].token])
  PROVE  RequestIsNewest(q)'
<1>1. Live(family[asked[q].token])' = LiveNext(family'[asked'[q].token])
  BY DEF Live, LiveNext
<1>2. DeviceAsking(q)' = DeviceAsking(q) /\ (Refreshes(q)' => Refreshes(q))
  BY DEF DeviceAsking, SameRequest, Refreshes
<1>3. SUFFICES ASSUME Refreshes(q)', Honest(DeviceAsking(q))', asked'[q].token # 0
      PROVE /\ asked'[q].step \in {"sent", "found"} => LiveNext(family'[asked'[q].token]) \subseteq {asked'[q].token}
            /\ asked'[q].step \in {"retired", "reuse"} => LiveNext(family'[asked'[q].token]) = {}
            /\ asked'[q].step = "rotated" => LiveNext(family'[asked'[q].token]) \subseteq {asked'[q].new}
  BY <1>1 DEF RequestIsNewest
<1>4. asked[q].token # 0 /\ Refreshes(q) /\ Honest(DeviceAsking(q))
  BY <1>2, <1>3 DEF SameRequest
<1>. QED
  BY <1>4 DEF RequestIsNewest, SameRequest

(* Rows are never taken back, so a token once issued stays in its family.  *)
Grows == \A k \in Token : family[k] # 0 => family'[k] = family[k]

LEMMA HeldAreTokens ==
  ASSUME SessionsTypeOK, HeldTokens
  PROVE  /\ \A d \in Device : cookie[d] # 0 => cookie[d] \in Token /\ family[cookie[d]] # 0
         /\ \A q \in Request : Asking(q) /\ asked[q].token # 0 =>
              asked[q].token \in Token /\ family[asked[q].token] # 0
         /\ \A q \in Request : Asking(q) /\ asked[q].step = "rotated" =>
              /\ asked[q].new \in Token /\ asked[q].token # 0 /\ asked[q].kind # "logout"
              /\ family[asked[q].new] = family[asked[q].token] /\ family[asked[q].new] # 0
<1>1. \A d \in Device : cookie[d] # 0 => cookie[d] \in Token /\ family[cookie[d]] # 0
  BY SessionsAssumption DEF SessionsTypeOK, HeldTokens, Issued, Token, TokenOrNone
<1>2. ASSUME NEW q \in Request, Asking(q), asked[q].token # 0
      PROVE  asked[q].token \in Token /\ family[asked[q].token] # 0
  <2>1. asked[q].token \in TokenOrNone
    BY <1>2, AskingTyped
  <2>. QED
    BY <1>2, <2>1, SessionsAssumption DEF HeldTokens, RequestHolds, Issued, Token, TokenOrNone
<1>3. ASSUME NEW q \in Request, Asking(q), asked[q].step = "rotated"
      PROVE  /\ asked[q].new \in Token /\ asked[q].token # 0 /\ asked[q].kind # "logout"
             /\ family[asked[q].new] = family[asked[q].token] /\ family[asked[q].new] # 0
  <2>1. asked[q].new \in TokenOrNone
    BY <1>3, AskingTyped
  <2>2. /\ asked[q].new # 0 /\ asked[q].token # 0 /\ asked[q].kind # "logout"
        /\ family[asked[q].new] = family[asked[q].token]
    BY <1>3 DEF HeldTokens, RequestHolds
  <2>. QED
    BY <1>2, <1>3, <2>1, <2>2, SessionsAssumption DEF Token, TokenOrNone
<1>. QED
  BY <1>1, <1>2, <1>3

LEMMA ApartStays ==
  ASSUME SessionsTypeOK, HeldTokens, FamiliesApart, Grows, cookie' = cookie,
         \A q \in Request : Asking(q)' => Asking(q) /\ asked'[q].tab = asked[q].tab /\ asked'[q].token = asked[q].token
  PROVE  FamiliesApart'
<1>. USE HeldAreTokens
<1>1. ASSUME NEW j, NEW k, SameFamily(j, k)', j \in Token => family[j] # 0, k \in Token => family[k] # 0,
             j \in Token, k \in Token
      PROVE  SameFamily(j, k)
  BY <1>1 DEF SameFamily, Grows
<1>2. \A d, e \in Device : SameFamily(cookie[d], cookie[e])' => SameFamily(cookie[d], cookie[e])
  BY <1>1 DEF SameFamily
<1>3. \A d \in Device, q \in Request :
        Asking(q)' /\ SameFamily(cookie[d], asked[q].token)' => SameFamily(cookie[d], asked[q].token)
  BY <1>1 DEF SameFamily
<1>4. \A p, q \in Request :
        Asking(p)' /\ Asking(q)' /\ SameFamily(asked[p].token, asked[q].token)' => SameFamily(asked[p].token, asked[q].token)
  BY <1>1 DEF SameFamily
<1>5. \A q \in Request : Asking(q)' => DeviceAsking(q)' = DeviceAsking(q)
  BY DEF DeviceAsking
<1>. QED
  BY <1>2, <1>3, <1>4, <1>5 DEF FamiliesApart

(* Steps that touch no token but to revoke it.                             *)
LEMMA QuietTokens ==
  ASSUME SessionsTypeOK, TokensInv, family' = family, cookie' = cookie, asked' = asked, revoked \subseteq revoked',
         lost' = lost, tabsCrossed' = tabsCrossed
  PROVE  TokensInv'
<1>1. TokensInOrder'
  BY DEF TokensInv, TokensInOrder
<1>2. HeldTokens'
  BY DEF TokensInv, HeldTokens, RequestHolds, Asking, Issued
<1>3. FamiliesApart'
  BY DEF TokensInv, FamiliesApart, SameFamily, Asking, DeviceAsking
<1>4. \A d \in Device : Successor(d)' <=> Successor(d)
  BY DEF Successor, SameFamily, Refreshes, Asking, DeviceAsking
<1>5. \A d : Honest(d)' <=> Honest(d)
  BY DEF Honest
<1>6. ASSUME NEW d \in Device PROVE CookieIsNewest(d)'
  BY <1>4, <1>5, LiveShrinks, CookieStaysNewest DEF TokensInv, NewestIsLive
<1>7. ASSUME NEW q \in Request PROVE RequestIsNewest(q)'
  <2>1. SameRequest(q) /\ (Asking(q)' <=> Asking(q)) /\ DeviceAsking(q)' = DeviceAsking(q)
    BY DEF SameRequest, Asking, DeviceAsking
  <2>2. Honest(DeviceAsking(q))' => Honest(DeviceAsking(q))
    BY <2>1 DEF Honest
  <2>. QED
    BY <2>1, <2>2, LiveShrinks, RequestStaysNewest DEF TokensInv, NewestIsLive
<1>. QED
  BY <1>1, <1>2, <1>3, <1>6, <1>7 DEF TokensInv, NewestIsLive

LEMMA LoginTokens == ASSUME SessionsInv, NEW t \in BrowserTab, Login(t) PROVE TokensInv'
<1>. DEFINE k == NextToken
            d == DeviceOf[t]
<1>0. SessionsTypeOK /\ TokensInOrder /\ HeldTokens /\ FamiliesApart /\ NewestIsLive
  BY DEF SessionsInv
<1>1. /\ k \in Token /\ family' = [family EXCEPT ![k] = k] /\ cookie' = [cookie EXCEPT ![d] = k]
      /\ revoked' = revoked /\ asked' = asked /\ lost' = lost /\ tabsCrossed' = tabsCrossed
  BY DEF Login, sessionsHistory
<1>2. /\ TokensInOrder'
      /\ family'[k] = k
      /\ \A j \in Token : family[j] # 0 => family'[j] = family[j] /\ family[j] # k
      /\ \A j \in Token : j # k => family'[j] = family[j]
  BY <1>0, <1>1, Issuing
<1>3. family[k] = 0 /\ d \in Device /\ k # 0
  BY <1>0, <1>1, NextTokenIsNew, SessionsAssumption DEF Token
<1>. HIDE DEF k, d
<1>4. Grows
  BY <1>2 DEF Grows
<1>5. cookie'[d] = k /\ \A e \in Device : e # d => cookie'[e] = cookie[e]
  BY <1>0, <1>1, <1>3 DEF SessionsTypeOK
<1>6. \A q \in Request : SameRequest(q) /\ (Asking(q)' <=> Asking(q)) /\ DeviceAsking(q)' = DeviceAsking(q)
                         /\ (Refreshes(q)' <=> Refreshes(q))
  BY <1>1 DEF SameRequest, Asking, DeviceAsking, Refreshes
<1>7. \A e : Honest(e)' <=> Honest(e)
  BY <1>1 DEF Honest
<1>8. HeldTokens'
  <2>1. \A e \in Device : Issued(cookie[e])'
    BY <1>0, <1>2, <1>3, <1>5, HeldAreTokens DEF Issued
  <2>2. ASSUME NEW q \in Request, Asking(q)' PROVE RequestHolds(q)'
    <3>1. Issued(asked[q].token)'
      BY <1>0, <1>1, <1>2, <1>6, <2>2, HeldAreTokens DEF Issued
    <3>2. asked[q].step = "rotated" => family'[asked[q].new] = family'[asked[q].token]
      BY <1>0, <1>2, <1>6, <2>2, HeldAreTokens
    <3>3. RequestHolds(q)
      BY <1>0 DEF HeldTokens
    <3>. QED
      BY <1>1, <1>6, <2>2, <3>1, <3>2, <3>3 DEF RequestHolds
  <2>. QED
    BY <2>1, <2>2 DEF HeldTokens, RequestHolds
<1>9. FamiliesApart'
  <2>1. \A e, f \in Device : SameFamily(cookie[e], cookie[f])' => e = f
    BY <1>0, <1>2, <1>5, HeldAreTokens DEF SameFamily, FamiliesApart
  <2>2. ASSUME NEW e \in Device, NEW q \in Request, Asking(q)', SameFamily(cookie[e], asked[q].token)'
        PROVE  DeviceAsking(q)' = e
    BY <1>0, <1>1, <1>2, <1>5, <1>6, <2>2, HeldAreTokens DEF SameFamily, FamiliesApart
  <2>3. ASSUME NEW p \in Request, NEW q \in Request, Asking(p)', Asking(q)', SameFamily(asked[p].token, asked[q].token)'
        PROVE  DeviceAsking(q)' = DeviceAsking(p)'
    BY <1>0, <1>1, <1>2, <1>6, <2>3, HeldAreTokens DEF SameFamily, FamiliesApart
  <2>. QED
    BY <2>1, <2>2, <2>3 DEF FamiliesApart
<1>10. ASSUME NEW f, f # k, f # 0 PROVE LiveNext(f) \subseteq Live(f)
  BY <1>1, <1>2, <1>10 DEF LiveNext, Live
<1>11. ASSUME NEW e \in Device PROVE CookieIsNewest(e)'
  <2>1. CASE e = d
    <3>1. LiveNext(k) \subseteq {k}
      BY <1>1, <1>2, <1>3 DEF LiveNext
    <3>2. Live(family[cookie[e]])' = LiveNext(k)
      BY <1>2, <1>5, <2>1 DEF Live, LiveNext
    <3>. QED
      BY <1>5, <2>1, <3>1, <3>2 DEF CookieIsNewest
  <2>2. CASE e # d
    <3>1. cookie[e] # 0 => family'[cookie[e]] = family[cookie[e]] /\ LiveNext(family[cookie[e]]) \subseteq Live(family[cookie[e]])
      BY <1>0, <1>2, <1>10, HeldAreTokens
    <3>2. Successor(e) => Successor(e)'
      <4>. SUFFICES ASSUME NEW q \in Request, Refreshes(q), DeviceAsking(q) = e, asked[q].step = "rotated",
                           SameFamily(cookie[e], asked[q].new)
                    PROVE  Successor(e)'
        BY DEF Successor
      <4>1. Asking(q) /\ Asking(q)' /\ asked[q].new \in TokenOrNone
        BY <1>6, AskingTyped DEF Refreshes
      <4>2. Issued(cookie[e]) /\ cookie[e] \in TokenOrNone
        BY <1>0 DEF HeldTokens, SessionsTypeOK
      <4>. QED
        BY <1>4, <1>5, <1>6, <2>2, <4>1, <4>2, SuccessorStays DEF Grows
    <3>. QED
      BY <1>0, <1>5, <1>7, <2>2, <3>1, <3>2, CookieStaysNewest DEF NewestIsLive
  <2>. QED
    BY <2>1, <2>2
<1>12. ASSUME NEW q \in Request PROVE RequestIsNewest(q)'
  <2>1. Refreshes(q) /\ asked[q].token # 0 =>
          family'[asked[q].token] = family[asked[q].token] /\ LiveNext(family[asked[q].token]) \subseteq Live(family[asked[q].token])
    BY <1>0, <1>2, <1>10, HeldAreTokens DEF Refreshes
  <2>2. Honest(DeviceAsking(q))' => Honest(DeviceAsking(q))
    BY <1>6, <1>7 DEF Honest
  <2>. QED
    BY <1>0, <1>6, <2>1, <2>2, RequestStaysNewest DEF NewestIsLive
<1>. QED
  BY <1>2, <1>8, <1>9, <1>11, <1>12 DEF TokensInv, NewestIsLive

(* On an honest device one refresh is under way at a time.                 *)
LEMMA OneRefresh ==
  ASSUME SessionsTypeOK, PagesInv, NEW p \in Request, NEW q \in Request, Refreshes(p), Refreshes(q),
         DeviceAsking(q) = DeviceAsking(p), Honest(DeviceAsking(p))
  PROVE  q = p
<1>1. asked[q].tab = asked[p].tab
  BY DEF PagesInv, CrossingIsKnown, Honest
<1>2. asked[p].heard /\ asked[q].heard
  BY DEF PagesInv, UnheardIsLost, Refreshes, Honest
<1>3. asked[p].kind \in {"try", "boot"} /\ asked[q].kind \in {"try", "boot"}
  BY AskingTyped DEF Refreshes
<1>. QED
  BY <1>1, <1>2, <1>3 DEF PagesInv, BootsAlone, OneTry, Refreshes

LEMMA SendTokens ==
  ASSUME SessionsInv, NEW r \in Request, NEW t \in BrowserTab, NEW kind \in {"try", "boot", "logout"},
         family' = family, revoked' = revoked, cookie' = cookie, lost \subseteq lost', tabsCrossed \subseteq tabsCrossed',
         ~Asking(r), asked'[r].kind = kind, asked'[r].tab = t, asked'[r].step = "sent",
         asked'[r].token = cookie[DeviceOf[t]], asked'[r].new = 0,
         \A q \in Request : q # r => (Asking(q)' <=> Asking(q)) /\ (Asking(q) => SameRequest(q)),
         kind # "logout" =>
           \A q \in Request : Refreshes(q) /\ DeviceAsking(q) = DeviceOf[t] => ~Honest(DeviceOf[t])'
  PROVE  TokensInv'
<1>. DEFINE d == DeviceOf[t]
<1>0. SessionsTypeOK /\ TokensInOrder /\ HeldTokens /\ FamiliesApart /\ NewestIsLive
  BY DEF SessionsInv
<1>1. TokensInOrder'
  BY <1>0 DEF TokensInOrder
<1>2. d \in Device /\ Issued(cookie[d])
  BY <1>0, SessionsAssumption DEF HeldTokens
<1>3. DeviceAsking(r)' = d
  BY DEF DeviceAsking
<1>4. \A q \in Request : q # r /\ Asking(q) => DeviceAsking(q)' = DeviceAsking(q) /\ (Refreshes(q)' <=> Refreshes(q))
  BY DEF DeviceAsking, Refreshes, SameRequest
<1>5. HeldTokens'
  <2>1. \A e \in Device : Issued(cookie[e])'
    BY <1>0 DEF HeldTokens, Issued
  <2>2. RequestHolds(r)'
    BY <1>2 DEF RequestHolds, Issued
  <2>3. \A q \in Request : q # r => RequestHolds(q)'
    BY <1>0 DEF HeldTokens, RequestHolds, Issued, SameRequest
  <2>. QED
    BY <2>1, <2>2, <2>3 DEF HeldTokens
<1>6. FamiliesApart'
  <2>1. \A e, f \in Device : SameFamily(cookie[e], cookie[f])' => e = f
    BY <1>0 DEF SameFamily, FamiliesApart
  <2>2. ASSUME NEW e \in Device, NEW q \in Request, Asking(q)', SameFamily(cookie[e], asked[q].token)'
        PROVE  DeviceAsking(q)' = e
    <3>1. CASE q = r
      BY <1>0, <1>2, <1>3, <2>2, <3>1 DEF SameFamily, FamiliesApart
    <3>2. CASE q # r
      BY <1>0, <1>4, <2>2, <3>2 DEF SameFamily, FamiliesApart, SameRequest
    <3>. QED
      BY <3>1, <3>2
  <2>3. ASSUME NEW p \in Request, NEW q \in Request, Asking(p)', Asking(q)', SameFamily(asked[p].token, asked[q].token)'
        PROVE  DeviceAsking(q)' = DeviceAsking(p)'
    <3>1. CASE p # r /\ q # r
      BY <1>0, <1>4, <2>3, <3>1 DEF SameFamily, FamiliesApart, SameRequest
    <3>2. CASE p = r /\ q # r
      BY <1>0, <1>2, <1>3, <1>4, <2>3, <3>2 DEF SameFamily, FamiliesApart, SameRequest
    <3>3. CASE p # r /\ q = r
      BY <1>0, <1>2, <1>3, <1>4, <2>3, <3>3 DEF SameFamily, FamiliesApart, SameRequest
    <3>. QED
      BY <3>1, <3>2, <3>3
  <2>. QED
    BY <2>1, <2>2, <2>3 DEF FamiliesApart
<1>7. \A e : Honest(e)' => Honest(e)
  BY DEF Honest
<1>8. ASSUME NEW e \in Device PROVE CookieIsNewest(e)'
  <2>1. Successor(e) => Successor(e)'
    <3>. SUFFICES ASSUME NEW q \in Request, Refreshes(q), DeviceAsking(q) = e, asked[q].step = "rotated",
                         SameFamily(cookie[e], asked[q].new)
                  PROVE  Successor(e)'
      BY DEF Successor
    <3>1. Asking(q) /\ q # r /\ Asking(q)' /\ asked[q].new \in TokenOrNone /\ SameRequest(q)
      BY AskingTyped DEF Refreshes
    <3>2. Issued(cookie[e]) /\ cookie[e] \in TokenOrNone
      BY <1>0 DEF HeldTokens, SessionsTypeOK
    <3>. QED
      BY <3>1, <3>2, SuccessorStays
  <2>. QED
    BY <1>0, <1>7, <2>1, LiveShrinks, CookieStaysNewest DEF NewestIsLive
<1>9. ASSUME NEW q \in Request, q # r PROVE RequestIsNewest(q)'
  <2>1. CASE Asking(q)
    <3>1. SameRequest(q) /\ DeviceAsking(q)' = DeviceAsking(q)
      BY <1>4, <1>9, <2>1
    <3>2. Honest(DeviceAsking(q))' => Honest(DeviceAsking(q))
      BY <1>7, <3>1 DEF Honest
    <3>. QED
      BY <1>0, <2>1, <3>1, <3>2, LiveShrinks, RequestStaysNewest DEF NewestIsLive
  <2>2. CASE ~Asking(q)
    BY <1>9, <2>2 DEF RequestIsNewest, Refreshes
  <2>. QED
    BY <2>1, <2>2
<1>10. RequestIsNewest(r)'
  <2>. SUFFICES ASSUME Refreshes(r)', Honest(d)', cookie[d] # 0
                PROVE  LiveNext(family[cookie[d]]) \subseteq {cookie[d]}
    <3>1. Live(family[asked[r].token])' = LiveNext(family[cookie[d]])
      BY DEF Live, LiveNext
    <3>2. Honest(DeviceAsking(r))' <=> Honest(d)'
      BY <1>3 DEF Honest
    <3>. QED
      BY <3>1, <3>2 DEF RequestIsNewest
  <2>1. kind # "logout"
    BY DEF Refreshes
  <2>2. ~Successor(d)
    BY <2>1 DEF Successor
  <2>3. Live(family[cookie[d]]) \subseteq {cookie[d]}
    BY <1>0, <1>2, <1>7, <2>2 DEF NewestIsLive, CookieIsNewest
  <2>. QED
    BY <2>3, LiveShrinks
<1>. QED
  BY <1>1, <1>5, <1>6, <1>8, <1>9, <1>10 DEF TokensInv, NewestIsLive

LEMMA AdvanceTokens ==
  ASSUME SessionsInv, NEW r \in Request, FindByRefreshHash(r) \/ RevokeFamily(r) \/ Revoke(r) \/ Fail(r)
  PROVE  TokensInv'
<1>0. SessionsTypeOK /\ TokensInOrder /\ HeldTokens /\ FamiliesApart /\ NewestIsLive
  BY DEF SessionsInv
<1>1. /\ Asking(r) /\ family' = family /\ cookie' = cookie /\ revoked \subseteq revoked'
      /\ lost \subseteq lost' /\ tabsCrossed' = tabsCrossed
  BY <1>0, AdvancingSteps
<1>2. PICK s \in Steps, n \in TokenOrNone :
              /\ asked' = [asked EXCEPT ![r] = Stepped(asked[r], s, n)]
              /\ n = asked[r].new \/ (n = 0 /\ s = "refused")
              /\ asked[r].step # "rotated" /\ s # "rotated" /\ (s = "refused" \/ lost' = lost)
              /\ s \in {"found", "retired", "reuse"} => asked[r].token # 0 \/ asked[r].step = "found"
              /\ s \in {"found", "retired"} => asked[r].kind # "logout" \/ asked[r].step = "found"
              /\ s = "found" => revoked' = revoked /\ asked[r].step = "sent"
              /\ s = "retired" => revoked' = revoked \cup {asked[r].token} /\ asked[r].step = "found"
              /\ s = "reuse" => revoked' = revoked /\ asked[r].step = "sent"
                                /\ (asked[r].kind = "logout" \/ asked[r].token \in revoked)
              /\ s # "sent"
  BY <1>0, AdvancingSteps
<1>3. /\ asked'[r].step = s /\ asked'[r].new = n
      /\ \A q \in Request : q # r => asked'[q] = asked[q]
      /\ \A q \in Request : Asking(q)' <=> Asking(q)
      /\ \A q \in Request :
              /\ asked'[q].kind = asked[q].kind /\ asked'[q].tab = asked[q].tab
              /\ asked'[q].heard = asked[q].heard /\ asked'[q].token = asked[q].token
      /\ \A q \in Request : DeviceAsking(q)' = DeviceAsking(q)
  <2>1. asked' = [asked EXCEPT ![r] = Stepped(asked[r], s, n)]
    BY <1>2
  <2>2. SessionsTypeOK /\ Asking(r) /\ s \in Steps /\ n \in TokenOrNone
    BY <1>0, <1>1
  <2>3. asked'[r] = Stepped(asked[r], s, n)
    BY <1>0, <2>1 DEF SessionsTypeOK
  <2>4. asked'[r].step = s /\ asked'[r].new = n
    BY <2>3 DEF Stepped
  <2>. QED
    BY <2>1, <2>2, <2>4, Stepping
<1>4. \A q \in Request : q # r => SameRequest(q)
  BY <1>3 DEF SameRequest
<1>5. TokensInOrder'
  BY <1>0, <1>1 DEF TokensInOrder
<1>6. HeldTokens'
  <2>1. \A q \in Request : q # r => RequestHolds(q)'
    BY <1>0, <1>1, <1>3, <1>4 DEF HeldTokens, RequestHolds, Issued, SameRequest
  <2>2. Issued(asked[r].token) /\ asked[r].new = 0 /\ RequestHolds(r)
    BY <1>0, <1>1, <1>2 DEF HeldTokens, RequestHolds
  <2>3. RequestHolds(r)'
    BY <1>1, <1>2, <1>3, <2>2 DEF RequestHolds, Issued
  <2>4. \A d \in Device : Issued(cookie[d])'
    BY <1>0, <1>1 DEF HeldTokens, Issued
  <2>. QED
    BY <2>1, <2>3, <2>4 DEF HeldTokens
<1>7. FamiliesApart'
  BY <1>0, <1>1, <1>3, ApartStays DEF Grows
<1>8. \A d : Honest(d)' => Honest(d)
  BY <1>1 DEF Honest
<1>9. ASSUME NEW d \in Device PROVE CookieIsNewest(d)'
  <2>1. Successor(d) => Successor(d)'
    <3>. SUFFICES ASSUME NEW q \in Request, Refreshes(q), DeviceAsking(q) = d, asked[q].step = "rotated",
                         SameFamily(cookie[d], asked[q].new)
                  PROVE  Successor(d)'
      BY DEF Successor
    <3>1. Asking(q) /\ q # r /\ Asking(q)' /\ asked[q].new \in TokenOrNone /\ SameRequest(q)
      BY <1>2, <1>3, <1>4, AskingTyped DEF Refreshes
    <3>2. Issued(cookie[d]) /\ cookie[d] \in TokenOrNone
      BY <1>0 DEF HeldTokens, SessionsTypeOK
    <3>. QED
      BY <1>1, <3>1, <3>2, SuccessorStays
  <2>. QED
    BY <1>0, <1>1, <1>8, <2>1, LiveShrinks, CookieStaysNewest DEF NewestIsLive
<1>10. ASSUME NEW q \in Request, q # r PROVE RequestIsNewest(q)'
  <2>1. Honest(DeviceAsking(q))' => Honest(DeviceAsking(q))
    BY <1>3, <1>8 DEF Honest
  <2>. QED
    BY <1>0, <1>1, <1>3, <1>4, <1>10, <2>1, LiveShrinks, RequestStaysNewest DEF NewestIsLive
<1>11. RequestIsNewest(r)'
  <2>. DEFINE F == family[asked[r].token]
  <2>. SUFFICES ASSUME Refreshes(r)', Honest(DeviceAsking(r))', asked[r].token # 0
                PROVE  /\ s \in {"sent", "found"} => LiveNext(F) \subseteq {asked[r].token}
                       /\ s \in {"retired", "reuse"} => LiveNext(F) = {}
    <3>1. Live(family[asked[r].token])' = LiveNext(F)
      BY <1>1, <1>3 DEF Live, LiveNext
    <3>. QED
      BY <1>2, <1>3, <3>1 DEF RequestIsNewest
  <2>1. Refreshes(r) /\ Honest(DeviceAsking(r))
    BY <1>1, <1>3, <1>8 DEF Refreshes, Honest
  <2>2. asked[r].step \in {"sent", "found"} => Live(F) \subseteq {asked[r].token}
    BY <1>0, <2>1 DEF NewestIsLive, RequestIsNewest
  <2>3. LiveNext(F) \subseteq Live(F)
    BY <1>1, LiveShrinks
  <2>4. CASE s = "found"
    BY <1>2, <2>2, <2>3, <2>4
  <2>5. CASE s = "retired"
    <3>1. asked[r].token \notin LiveNext(F)
      BY <1>2, <2>5 DEF LiveNext
    <3>. QED
      BY <1>2, <2>2, <2>3, <2>5, <3>1
  <2>6. CASE s = "reuse"
    <3>1. asked[r].token \notin Live(F)
      BY <1>2, <2>1, <2>6 DEF Live, Refreshes
    <3>. QED
      BY <1>2, <2>2, <2>3, <2>6, <3>1
  <2>. QED
    BY <1>2, <2>4, <2>5, <2>6
<1>. QED
  BY <1>5, <1>6, <1>7, <1>9, <1>10, <1>11 DEF TokensInv, NewestIsLive

LEMMA RotateTokens == ASSUME SessionsInv, NEW r \in Request, Rotate(r) PROVE TokensInv'
<1>. DEFINE k == NextToken
            F == family[asked[r].token]
<1>0. SessionsTypeOK /\ TokensInOrder /\ HeldTokens /\ FamiliesApart /\ NewestIsLive /\ PagesInv
  BY DEF SessionsInv
<1>1. /\ Asking(r) /\ asked[r].step = "retired" /\ k \in Token
      /\ asked' = [asked EXCEPT ![r] = Stepped(asked[r], "rotated", k)]
      /\ family' = [family EXCEPT ![k] = F]
      /\ revoked' = revoked /\ cookie' = cookie /\ lost' = lost /\ tabsCrossed' = tabsCrossed
  BY <1>0, RotatingSteps
<1>2. asked[r].token # 0 /\ asked[r].kind # "logout"
  BY <1>0, <1>1 DEF HeldTokens, RequestHolds
<1>3. asked[r].token \in Token /\ F # 0 /\ F \in Token /\ family[F] # 0
  <2>1. asked[r].token \in Token /\ F # 0
    BY <1>0, <1>1, <1>2, HeldAreTokens
  <2>2. F \in Token
    BY <1>0, <2>1, SessionsAssumption DEF SessionsTypeOK, Token, TokenOrNone
  <2>. QED
    BY <1>0, <2>1, <2>2 DEF TokensInOrder
<1>4. /\ TokensInOrder'
      /\ family'[k] = F
      /\ \A j \in Token : family[j] # 0 => family'[j] = family[j] /\ family[j] # k
      /\ \A j \in Token : j # k => family'[j] = family[j]
  BY <1>0, <1>1, <1>3, Issuing
<1>5. family[k] = 0 /\ k # 0 /\ k \in TokenOrNone
  BY <1>0, <1>1, NextTokenIsNew, SessionsAssumption DEF Token, TokenOrNone
<1>. HIDE DEF k, F
<1>6. /\ \A q \in Request : q # r => asked'[q] = asked[q]
      /\ \A q \in Request : Asking(q)' <=> Asking(q)
      /\ \A q \in Request :
              /\ asked'[q].kind = asked[q].kind /\ asked'[q].tab = asked[q].tab
              /\ asked'[q].heard = asked[q].heard /\ asked'[q].token = asked[q].token
      /\ \A q \in Request : DeviceAsking(q)' = DeviceAsking(q)
  <2>1. "rotated" \in Steps
    BY DEF Steps
  <2>. QED
    BY <1>0, <1>1, <1>5, <2>1, Stepping
<1>7. asked'[r].step = "rotated" /\ asked'[r].new = k
  <2>1. asked'[r] = Stepped(asked[r], "rotated", k)
    BY <1>0, <1>1 DEF SessionsTypeOK
  <2>. QED
    BY <2>1 DEF Stepped
<1>8. Grows
  BY <1>4 DEF Grows
<1>9. /\ \A q \in Request : q # r => SameRequest(q)
      /\ \A q \in Request : Refreshes(q)' <=> Refreshes(q)
      /\ \A d : Honest(d)' <=> Honest(d)
      /\ Refreshes(r)
  BY <1>1, <1>2, <1>6 DEF SameRequest, Refreshes, Honest
<1>10. HeldTokens'
  <2>1. \A d \in Device : Issued(cookie[d])'
    BY <1>0, <1>1, <1>4, HeldAreTokens DEF Issued
  <2>2. ASSUME NEW q \in Request, q # r, Asking(q)' PROVE RequestHolds(q)'
    <3>1. Asking(q) /\ asked'[q] = asked[q]
      BY <1>6, <2>2
    <3>2. Issued(asked[q].token)'
      BY <1>0, <1>4, <3>1, HeldAreTokens DEF Issued
    <3>3. asked[q].step = "rotated" => family'[asked[q].new] = family'[asked[q].token]
      BY <1>0, <1>4, <3>1, HeldAreTokens
    <3>4. RequestHolds(q)
      BY <1>0 DEF HeldTokens
    <3>. QED
      BY <3>1, <3>2, <3>3, <3>4 DEF RequestHolds
  <2>3. RequestHolds(r)'
    <3>1. family'[asked[r].token] = F /\ asked'[r].token = asked[r].token /\ asked'[r].kind = asked[r].kind
      BY <1>3, <1>4, <1>6 DEF F
    <3>. QED
      BY <1>2, <1>3, <1>4, <1>5, <1>7, <3>1 DEF RequestHolds, Issued
  <2>. QED
    BY <2>1, <2>2, <2>3 DEF HeldTokens, RequestHolds
<1>11. FamiliesApart'
  BY <1>0, <1>1, <1>6, <1>8, ApartStays
<1>12. LiveNext(F) \subseteq Live(F) \cup {k}
  BY <1>1, <1>4 DEF LiveNext, Live
<1>13. ASSUME NEW f, f # F, f # 0 PROVE LiveNext(f) \subseteq Live(f)
  BY <1>1, <1>4, <1>13 DEF LiveNext, Live
<1>14. ASSUME NEW d \in Device PROVE CookieIsNewest(d)'
  <2>1. CASE SameFamily(cookie[d], asked[r].token)
    <3>1. DeviceAsking(r) = d
      BY <1>0, <1>1, <2>1 DEF FamiliesApart
    <3>2. cookie[d] # 0 /\ family[cookie[d]] = F /\ cookie[d] \in Token
      BY <1>0, <2>1, HeldAreTokens DEF SameFamily, F
    <3>3. SameFamily(cookie[d], asked[r].new)'
      BY <1>1, <1>3, <1>4, <1>5, <1>7, <3>2 DEF SameFamily
    <3>4. Refreshes(r)' /\ DeviceAsking(r)' = d
      BY <1>6, <1>9, <3>1
    <3>5. Successor(d)'
      BY <1>7, <3>3, <3>4 DEF Successor
    <3>. QED
      BY <3>5 DEF CookieIsNewest
  <2>2. CASE ~SameFamily(cookie[d], asked[r].token)
    <3>1. cookie[d] # 0 => /\ family'[cookie[d]] = family[cookie[d]]
                           /\ LiveNext(family[cookie[d]]) \subseteq Live(family[cookie[d]])
      BY <1>0, <1>2, <1>4, <1>13, <2>2, HeldAreTokens DEF SameFamily, F
    <3>2. Successor(d) => Successor(d)'
      <4>. SUFFICES ASSUME NEW q \in Request, Refreshes(q), DeviceAsking(q) = d, asked[q].step = "rotated",
                           SameFamily(cookie[d], asked[q].new)
                    PROVE  Successor(d)'
        BY DEF Successor
      <4>1. Asking(q) /\ Asking(q)' /\ asked[q].new \in TokenOrNone /\ SameRequest(q)
        BY <1>1, <1>6, <1>9, AskingTyped DEF Refreshes
      <4>2. Issued(cookie[d]) /\ cookie[d] \in TokenOrNone
        BY <1>0 DEF HeldTokens, SessionsTypeOK
      <4>. QED
        BY <1>1, <1>8, <4>1, <4>2, SuccessorStays DEF Grows
    <3>. QED
      BY <1>0, <1>1, <1>9, <3>1, <3>2, CookieStaysNewest DEF NewestIsLive
  <2>. QED
    BY <2>1, <2>2
<1>15. ASSUME NEW q \in Request, q # r PROVE RequestIsNewest(q)'
  <2>1. Refreshes(q) /\ Honest(DeviceAsking(q)) /\ asked[q].token # 0 =>
          /\ family'[asked[q].token] = family[asked[q].token]
          /\ LiveNext(family[asked[q].token]) \subseteq Live(family[asked[q].token])
    <3>. SUFFICES ASSUME Refreshes(q), Honest(DeviceAsking(q)), asked[q].token # 0
                  PROVE  /\ family'[asked[q].token] = family[asked[q].token]
                         /\ LiveNext(family[asked[q].token]) \subseteq Live(family[asked[q].token])
      OBVIOUS
    <3>1. asked[q].token \in Token /\ family[asked[q].token] # 0 /\ Asking(q)
      BY <1>0, HeldAreTokens DEF Refreshes
    <3>2. DeviceAsking(r) # DeviceAsking(q)
      BY <1>0, <1>9, <1>15, OneRefresh
    <3>3. family[asked[q].token] # F
      BY <1>0, <1>1, <1>2, <3>1, <3>2 DEF FamiliesApart, SameFamily, F
    <3>. QED
      BY <1>4, <1>13, <3>1, <3>3
  <2>2. Honest(DeviceAsking(q))' => Honest(DeviceAsking(q))
    BY <1>6, <1>9 DEF Honest
  <2>. QED
    BY <1>0, <1>6, <1>9, <1>15, <2>1, <2>2, RequestStaysNewest DEF NewestIsLive
<1>16. RequestIsNewest(r)'
  <2>1. Live(family[asked[r].token])' = LiveNext(F)
    BY <1>3, <1>4, <1>6 DEF Live, LiveNext, F
  <2>2. Honest(DeviceAsking(r))' => Honest(DeviceAsking(r))
    BY <1>6, <1>9 DEF Honest
  <2>3. Honest(DeviceAsking(r)) => Live(F) = {}
    BY <1>0, <1>1, <1>2, <1>9 DEF NewestIsLive, RequestIsNewest, F
  <2>. QED
    BY <1>7, <1>12, <2>1, <2>2, <2>3 DEF RequestIsNewest
<1>. QED
  BY <1>4, <1>10, <1>11, <1>14, <1>15, <1>16 DEF TokensInv, NewestIsLive

LEMMA AnswerTokens == ASSUME SessionsInv, NEW r \in Request, Answer(r) \/ LoseAnswer(r) PROVE TokensInv'
<1>. DEFINE d == DeviceAsking(r)
<1>0. SessionsTypeOK /\ TokensInOrder /\ HeldTokens /\ FamiliesApart /\ NewestIsLive
  BY DEF SessionsInv
<1>1. Asking(r) /\ asked[r].step \in {"refused", "rotated", "ended"} /\ Forget(r)
  BY <1>0, Answering
<1>2. /\ ~Asking(r)'
      /\ \A q \in Request : q # r => asked'[q] = asked[q] /\ (Asking(q)' <=> Asking(q))
  BY <1>0, <1>1, Forgetting
<1>3. /\ family' = family /\ revoked' = revoked /\ tabsCrossed' = tabsCrossed /\ lost \subseteq lost'
      /\ \/ d \in lost' /\ cookie' = cookie
         \/ asked[r].token = 0 /\ asked[r].kind # "logout" /\ cookie' = cookie
         \/ cookie' = [cookie EXCEPT ![d] = asked[r].new]
  BY DEF Answer, LoseAnswer, serverVars, sessionsHistory, SetCookie, DeviceAsking
<1>4. d \in Device /\ asked[r].new \in TokenOrNone /\ asked[r].token \in TokenOrNone
  BY <1>1, AskingTyped
<1>5. \A q \in Request : q # r => SameRequest(q) /\ DeviceAsking(q)' = DeviceAsking(q) /\ (Refreshes(q)' <=> Refreshes(q))
  BY <1>2 DEF SameRequest, DeviceAsking, Refreshes
<1>6. \A e : Honest(e)' => Honest(e)
  BY <1>3 DEF Honest
<1>7. TokensInOrder'
  BY <1>0, <1>3 DEF TokensInOrder
<1>8. asked[r].new # 0 =>
        /\ asked[r].step = "rotated" /\ asked[r].token # 0 /\ asked[r].kind # "logout"
        /\ family[asked[r].new] = family[asked[r].token] /\ family[asked[r].new] # 0
  BY <1>0, <1>1, HeldAreTokens DEF HeldTokens, RequestHolds
<1>9. \A e \in Device : cookie'[e] = cookie[e] \/ (e = d /\ cookie'[e] = asked[r].new)
  BY <1>0, <1>3, <1>4 DEF SessionsTypeOK
<1>. HIDE DEF d
<1>10. HeldTokens'
  <2>1. \A e \in Device : Issued(cookie[e])'
    BY <1>0, <1>3, <1>8, <1>9 DEF HeldTokens, Issued
  <2>2. ASSUME NEW q \in Request PROVE RequestHolds(q)'
    BY <1>0, <1>2, <1>3 DEF HeldTokens, RequestHolds, Issued
  <2>. QED
    BY <2>1, <2>2 DEF HeldTokens
<1>11. ASSUME NEW e \in Device, NEW j, SameFamily(cookie[e], j)'
       PROVE  SameFamily(cookie[e], j) \/ (e = d /\ SameFamily(asked[r].token, j))
  BY <1>3, <1>8, <1>9, <1>11 DEF SameFamily
<1>12. FamiliesApart'
  <2>1. ASSUME NEW e \in Device, NEW f \in Device, SameFamily(cookie[e], cookie[f])' PROVE e = f
    <3>1. \/ SameFamily(cookie[e], cookie[f])
          \/ e = d /\ SameFamily(cookie[f], asked[r].token)
          \/ f = d /\ SameFamily(cookie[e], asked[r].token)
          \/ e = d /\ f = d
      BY <1>3, <1>8, <1>9, <2>1 DEF SameFamily
    <3>. QED
      BY <1>0, <1>1, <3>1 DEF FamiliesApart, d
  <2>2. ASSUME NEW e \in Device, NEW q \in Request, Asking(q)', SameFamily(cookie[e], asked[q].token)'
        PROVE  DeviceAsking(q)' = e
    <3>1. q # r /\ Asking(q) /\ DeviceAsking(q)' = DeviceAsking(q) /\ asked'[q] = asked[q]
      BY <1>2, <1>5, <2>2
    <3>2. SameFamily(cookie[e], asked[q].token) \/ (e = d /\ SameFamily(asked[r].token, asked[q].token))
      BY <1>3, <1>8, <1>9, <2>2, <3>1 DEF SameFamily
    <3>. QED
      BY <1>0, <1>1, <3>1, <3>2 DEF FamiliesApart, d
  <2>3. ASSUME NEW p \in Request, NEW q \in Request, Asking(p)', Asking(q)', SameFamily(asked[p].token, asked[q].token)'
        PROVE  DeviceAsking(q)' = DeviceAsking(p)'
    BY <1>0, <1>2, <1>3, <1>5, <2>3 DEF FamiliesApart, SameFamily
  <2>. QED
    BY <2>1, <2>2, <2>3 DEF FamiliesApart
<1>13. ASSUME NEW e \in Device, cookie'[e] = cookie[e], e # d \/ asked[r].step # "rotated"
       PROVE  Successor(e) => Successor(e)'
  <2>. SUFFICES ASSUME NEW q \in Request, Refreshes(q), DeviceAsking(q) = e, asked[q].step = "rotated",
                       SameFamily(cookie[e], asked[q].new)
                PROVE  Successor(e)'
    BY DEF Successor
  <2>1. q # r
    BY <1>13 DEF d
  <2>2. Asking(q) /\ Asking(q)' /\ asked[q].new \in TokenOrNone /\ SameRequest(q)
    BY <1>2, <1>5, <2>1, AskingTyped DEF Refreshes
  <2>3. Issued(cookie[e]) /\ cookie[e] \in TokenOrNone
    BY <1>0 DEF HeldTokens, SessionsTypeOK
  <2>. QED
    BY <1>3, <1>13, <2>2, <2>3, SuccessorStays
<1>14. ASSUME NEW e \in Device PROVE CookieIsNewest(e)'
  <2>1. CASE cookie'[e] = cookie[e] /\ (e # d \/ asked[r].step # "rotated")
    BY <1>0, <1>3, <1>6, <1>13, <2>1, LiveShrinks, CookieStaysNewest DEF NewestIsLive
  <2>2. CASE e = d /\ asked[r].step = "rotated"
    <3>1. CASE d \in lost'
      BY <2>2, <3>1 DEF CookieIsNewest, Honest
    <3>2. CASE d \notin lost'
      <4>1. cookie'[e] = asked[r].new /\ asked[r].new # 0 /\ Refreshes(r) /\ asked[r].token # 0
        BY <1>0, <1>1, <1>3, <1>4, <2>2, <3>2, HeldAreTokens DEF SessionsTypeOK, HeldTokens, RequestHolds, Refreshes
      <4>2. Honest(d) => Live(family[asked[r].token]) \subseteq {asked[r].new}
        BY <1>0, <2>2, <4>1 DEF NewestIsLive, RequestIsNewest, d
      <4>3. Live(family[cookie[e]])' = Live(family[asked[r].token])
        BY <1>3, <1>8, <4>1 DEF Live
      <4>. QED
        BY <1>6, <2>2, <4>1, <4>2, <4>3 DEF CookieIsNewest
    <3>. QED
      BY <3>1, <3>2
  <2>3. CASE e = d /\ cookie'[e] # cookie[e] /\ asked[r].step # "rotated"
    BY <1>8, <1>9, <2>3 DEF CookieIsNewest
  <2>. QED
    BY <1>9, <2>1, <2>2, <2>3
<1>15. ASSUME NEW q \in Request PROVE RequestIsNewest(q)'
  <2>1. CASE q = r
    BY <1>2, <2>1 DEF RequestIsNewest, Refreshes
  <2>2. CASE q # r
    <3>1. Honest(DeviceAsking(q))' => Honest(DeviceAsking(q))
      BY <1>5, <1>6, <2>2 DEF Honest
    <3>. QED
      BY <1>0, <1>2, <1>3, <1>5, <2>2, <3>1, LiveShrinks, RequestStaysNewest DEF NewestIsLive
  <2>. QED
    BY <2>1, <2>2
<1>. QED
  BY <1>7, <1>10, <1>12, <1>14, <1>15 DEF TokensInv, NewestIsLive

LEMMA TokensKept == ASSUME SessionsInv, SessionsNext PROVE TokensInv'
<1>0. SessionsTypeOK /\ TokensInv /\ BootsAlone /\ PagesInv
  BY DEF SessionsInv, TokensInv, PagesInv
<1>1. ASSUME NEW t \in BrowserTab, NEW r \in Request, Reload(t, r) PROVE TokensInv'
  <2>1. /\ ~Asking(r)
        /\ asked'[r].kind = "boot" /\ asked'[r].tab = t /\ asked'[r].step = "sent"
        /\ asked'[r].token = cookie[DeviceOf[t]] /\ asked'[r].new = 0
        /\ \A q \in Request : q # r =>
              /\ Asking(q)' <=> Asking(q)
              /\ Asking(q) =>
                   /\ asked'[q].kind = asked[q].kind /\ asked'[q].step = asked[q].step /\ asked'[q].tab = asked[q].tab
                   /\ asked'[q].token = asked[q].token /\ asked'[q].new = asked[q].new
                   /\ asked[q].tab = t => ~asked'[q].heard /\ (asked[q].heard => DeviceOf[t] \in lost')
    BY <1>0, <1>1, Reloading
  <2>2. family' = family /\ revoked' = revoked /\ cookie' = cookie /\ lost \subseteq lost' /\ Cross(t)
    BY <1>1 DEF Reload, serverVars
  <2>3. /\ tabsCrossed \subseteq tabsCrossed'
        /\ \A q \in Request : Refreshes(q) /\ DeviceAsking(q) = DeviceOf[t] /\ asked[q].tab # t
              => DeviceOf[t] \in tabsCrossed'
    BY <1>0, <2>2, Crossing
  <2>4. ASSUME NEW q \in Request, Refreshes(q), DeviceAsking(q) = DeviceOf[t] PROVE ~Honest(DeviceOf[t])'
    <3>1. Asking(q) /\ q # r
      BY <2>1, <2>4 DEF Refreshes
    <3>2. CASE asked[q].tab # t
      BY <2>3, <2>4, <3>2 DEF Honest
    <3>3. CASE asked[q].tab = t /\ asked[q].heard
      BY <2>1, <3>1, <3>3 DEF Honest
    <3>4. CASE ~asked[q].heard
      BY <1>0, <2>2, <2>4, <3>1, <3>4 DEF PagesInv, UnheardIsLost, Honest
    <3>. QED
      BY <3>2, <3>3, <3>4
  <2>5. \A q \in Request : q # r => (Asking(q)' <=> Asking(q)) /\ (Asking(q) => SameRequest(q))
    BY <2>1 DEF SameRequest
  <2>. QED
    BY <2>1, <2>2, <2>3, <2>4, <2>5, SendTokens
<1>2. ASSUME NEW t \in BrowserTab, NEW r \in Request, NEW kind \in {"try", "logout"}, Send(r, kind, t),
             family' = family, revoked' = revoked, cookie' = cookie, lost' = lost, tabsCrossed \subseteq tabsCrossed',
             kind # "logout" =>
               \A q \in Request : Refreshes(q) /\ DeviceAsking(q) = DeviceOf[t] => ~Honest(DeviceOf[t])'
      PROVE  TokensInv'
  <2>1. /\ ~Asking(r)
        /\ asked'[r].kind = kind /\ asked'[r].tab = t /\ asked'[r].step = "sent"
        /\ asked'[r].token = cookie[DeviceOf[t]] /\ asked'[r].new = 0
        /\ \A q \in Request : q # r => asked'[q] = asked[q] /\ (Asking(q)' <=> Asking(q))
    BY <1>0, <1>2, Sending
  <2>2. \A q \in Request : q # r => (Asking(q)' <=> Asking(q)) /\ (Asking(q) => SameRequest(q))
    BY <2>1 DEF SameRequest
  <2>. QED
    BY <1>2, <2>1, <2>2, SendTokens
<1>3. ASSUME NEW t \in BrowserTab, NEW r \in Request, Logout(t, r) PROVE TokensInv'
  BY <1>2, <1>3 DEF Logout, serverVars, sessionsHistory
<1>4. ASSUME NEW t \in BrowserTab, NEW r \in Request, NEW c \in Call, Unauthorized(t, c, r) PROVE TokensInv'
  <2>1. family' = family /\ revoked' = revoked /\ cookie' = cookie /\ lost' = lost /\ call[t][c] = "stale"
    BY <1>4 DEF Unauthorized, serverVars
  <2>2. CASE asked' = asked /\ tabsCrossed' = tabsCrossed
    BY <1>0, <2>1, <2>2, QuietTokens
  <2>3. CASE Send(r, "try", t) /\ Cross(t) /\ InFlight(t, "try") = {}
    <3>1. /\ tabsCrossed \subseteq tabsCrossed'
          /\ \A q \in Request : Refreshes(q) /\ DeviceAsking(q) = DeviceOf[t] /\ asked[q].tab # t
                => DeviceOf[t] \in tabsCrossed'
      BY <1>0, <2>3, Crossing
    <3>2. ASSUME NEW q \in Request, Refreshes(q), DeviceAsking(q) = DeviceOf[t] PROVE ~Honest(DeviceOf[t])'
      <4>1. Asking(q) /\ asked[q].kind \in {"try", "boot"}
        BY <3>2, AskingTyped DEF Refreshes
      <4>2. CASE asked[q].tab # t
        BY <3>1, <3>2, <4>2 DEF Honest
      <4>3. CASE asked[q].tab = t
        <5>1. ~asked[q].heard
          BY <1>0, <2>1, <2>3, <4>1, <4>3, InFlightAsks DEF BootsAlone
        <5>. QED
          BY <1>0, <2>1, <3>2, <4>1, <5>1 DEF PagesInv, UnheardIsLost, Honest
      <4>. QED
        BY <4>2, <4>3
    <3>. QED
      BY <1>2, <2>1, <2>3, <3>1, <3>2
  <2>. QED
    BY <1>4, <2>2, <2>3 DEF Unauthorized, RefreshOnce
<1>5. ASSUME NEW t \in BrowserTab,
             \/ Expire(t)
             \/ \E c \in Call : Fetch(t, c) \/ RespondToCall(t, c)
             \/ \E f \in Token : RevokeDevice(t, f)
      PROVE  TokensInv'
  <2>1. /\ family' = family /\ revoked \subseteq revoked' /\ cookie' = cookie /\ asked' = asked
        /\ lost' = lost /\ tabsCrossed' = tabsCrossed
    BY <1>5 DEF Expire, Fetch, RespondToCall, RevokeDevice, serverVars, sessionsHistory
  <2>. QED
    BY <1>0, <2>1, QuietTokens
<1>6. ASSUME NEW t \in BrowserTab, Page(t) PROVE TokensInv'
  BY <1>1, <1>3, <1>4, <1>5, <1>6, LoginTokens DEF Page
<1>7. ASSUME NEW r \in Request, Handler(r) \/ Fail(r) \/ Answer(r) \/ LoseAnswer(r) PROVE TokensInv'
  BY <1>7, AdvanceTokens, RotateTokens, AnswerTokens DEF Handler
<1>. QED
  BY <1>6, <1>7 DEF SessionsNext

LEMMA SessionsInvInitial == SessionsInit => SessionsInv
<1>. SUFFICES ASSUME SessionsInit PROVE SessionsInv
  OBVIOUS
<1>. USE SessionsAssumption DEF SessionsInit
<1>1. \A r \in Request : asked[r] = NoRequest /\ ~Asking(r)
  BY DEF Asking, Asked, NoRequest, Steps
<1>2. SessionsTypeOK
  <2>1. call \in [BrowserTab -> [Call -> CallState]]
    BY DEF NoCalls, CallState
  <2>. QED
    BY <2>1 DEF SessionsTypeOK, Token, TokenOrNone
<1>3. PagesInv
  BY <1>1 DEF PagesInv, BootsAlone, OneTry, UnheardIsLost, CrossingIsKnown, Refreshes
<1>4. NoCallIsStranded
  BY DEF NoCallIsStranded, Waiting, NoCalls
<1>5. TokensInOrder
  BY DEF TokensInOrder
<1>6. HeldTokens
  BY <1>1 DEF HeldTokens, RequestHolds, Issued
<1>7. FamiliesApart
  BY <1>1 DEF FamiliesApart, SameFamily
<1>8. NewestIsLive
  BY <1>1 DEF NewestIsLive, CookieIsNewest, RequestIsNewest, Refreshes
<1>. QED
  BY <1>2, <1>3, <1>4, <1>5, <1>6, <1>7, <1>8 DEF SessionsInv

LEMMA SessionsInvInductive == SessionsInv /\ [SessionsNext]_sessionsVars => SessionsInv'
<1>. SUFFICES ASSUME SessionsInv, [SessionsNext]_sessionsVars PROVE SessionsInv'
  OBVIOUS
<1>1. CASE SessionsNext
  BY <1>1, SessionsTypesKept, PagesKept, NoCallStranded, TokensKept DEF SessionsInv, TokensInv
<1>2. CASE UNCHANGED sessionsVars
  <2>. USE <1>2 DEF sessionsVars, serverVars, callerVars, sessionsHistory
  <2>1. SessionsTypeOK'
    BY DEF SessionsInv, SessionsTypeOK
  <2>2. PagesInv'
    BY DEF SessionsInv, PagesInv, BootsAlone, OneTry, UnheardIsLost, CrossingIsKnown, Refreshes, Asking, DeviceAsking
  <2>3. NoCallIsStranded'
    BY DEF SessionsInv, NoCallIsStranded, Waiting, InFlight, Idle
  <2>4. TokensInv'
    BY QuietTokens DEF SessionsInv, TokensInv
  <2>. QED
    BY <2>1, <2>2, <2>3, <2>4 DEF SessionsInv, TokensInv
<1>. QED
  BY <1>1, <1>2

THEOREM SessionsInvariant == SessionsSpec => []SessionsInv
<1>1. SessionsInv /\ [SessionsNext]_sessionsVars => SessionsInv'
  BY SessionsInvInductive
<1>. QED
  BY <1>1, SessionsInvInitial, PTL DEF SessionsSpec

-----------------------------------------------------------------------------
(* Sessions: the theorems.                                                 *)

(* Types: in particular no answer sets a cookie that was never issued, for *)
(* the rows and requests the handlers of refresh.go and logout.go leave.   *)
THEOREM SessionsTypes == SessionsSpec => []SessionsTypeOK
<1>1. SessionsInv => SessionsTypeOK
  BY DEF SessionsInv
<1>. QED
  BY <1>1, SessionsInvariant, PTL

(* A call that waits for a refresh (http.ts:79-84, 116) has one to wait   *)
(* for, in every tab and after every order of 401s, answers, logouts and   *)
(* reloads.                                                                *)
THEOREM NobodyIsStranded == SessionsSpec => []NoCallIsStranded
<1>1. SessionsInv => NoCallIsStranded
  BY DEF SessionsInv
<1>. QED
  BY <1>1, SessionsInvariant, PTL

(* A device whose tabs hear their answers and refresh one at a time is     *)
(* never taken for a thief by DetectReuse (refresh.go:37-52): a token of   *)
(* it that is presented again belongs to a family with no live row left.   *)
THEOREM HonestIsNoThief == SessionsSpec => []HonestRefreshIsNoTheft
<1>1. ASSUME SessionsInv PROVE HonestRefreshIsNoTheft
  <2>. SUFFICES ASSUME NEW r \in Request, asked[r].step = "reuse", asked[r].kind # "logout", Honest(DeviceAsking(r))
                PROVE  Live(family[asked[r].token]) = {}
    BY DEF HonestRefreshIsNoTheft, Honest, DeviceAsking
  <2>1. Asking(r)
    BY <1>1, AskingIsBusy DEF SessionsInv, Steps
  <2>2. asked[r].token # 0
    BY <1>1, <2>1 DEF SessionsInv, HeldTokens, RequestHolds
  <2>. QED
    BY <1>1, <2>1, <2>2 DEF SessionsInv, NewestIsLive, RequestIsNewest, Refreshes
<1>. QED
  BY <1>1, SessionsInvariant, PTL

(* Such a device can refresh again with the cookie it keeps when it has    *)
(* nothing under way, unless its whole family was ended (rotate in         *)
(* refresh.go:57-67, Set-Cookie in the auth handler).                      *)
THEOREM QuietCookie == SessionsSpec => []QuietCookieOpens
<1>1. ASSUME SessionsInv PROVE QuietCookieOpens
  <2>. SUFFICES ASSUME NEW d \in Device, Quiet(d), Honest(d), cookie[d] # 0, cookie[d] \in revoked
                PROVE  Live(family[cookie[d]]) = {}
    BY DEF QuietCookieOpens, Honest
  <2>1. SessionsTypeOK
    BY <1>1 DEF SessionsInv
  <2>2. ~Successor(d)
    BY <2>1, AskingIsBusy DEF Quiet, Successor, Refreshes, DeviceAsking
  <2>3. Live(family[cookie[d]]) \subseteq {cookie[d]}
    BY <1>1, <2>2 DEF SessionsInv, NewestIsLive, CookieIsNewest
  <2>. QED
    BY <2>3 DEF Live
<1>. QED
  BY <1>1, SessionsInvariant, PTL

-----------------------------------------------------------------------------
(* Identity: what the flows hold, and what the server and the browsers do. *)

(* What a flow holds was chosen or generated before; a change moves to     *)
(* some password; only the registration runs before there is an account.   *)
FlowHolds(f) ==
  Busy(f) =>
    /\ flow[f].key <= chosen /\ flow[f].new <= chosen /\ flow[f].self <= made
    /\ flow[f].kind = "change" => flow[f].new # 0
    /\ flow[f].step \in {"change", "rewrap", "resave"} => flow[f].kind = "change"
    /\ flow[f].step \in {"publicKeys", "wrap"} => flow[f].self # 0
    /\ flow[f].step = "salt" => flow[f].kind # "register"
    /\ flow[f].step = "signIn" => flow[f].kind \in {"login", "register"}
    /\ flow[f].step = "register" => flow[f].kind = "register" /\ flow[f].key # 0
    /\ flow[f].step = "register" <=> password = 0
Registers(f) == Busy(f) /\ flow[f].kind = "register"
OneRegistration == \A f, g \in Flow : Registers(f) /\ Registers(g) => g = f
NoKeysYet == password = 0 => publishedKeys = 0 /\ wrapped = NoWrap
FlowsInv == (\A f \in Flow : FlowHolds(f)) /\ OneRegistration /\ NoKeysYet

(* While no publication was abandoned or crossed another writer: what each *)
(* flow holds is, or will be, the one identity of the account.             *)
Undisturbed == ~raced /\ ~orphaned
FlowAgrees(f) ==
  Busy(f) =>
    /\ flow[f].step \in {"save", "change", "rewrap", "resave"} => flow[f].self = publishedKeys /\ wrapped # NoWrap
    /\ flow[f].step \in {"publicKeys", "wrap"} => wrapped = NoWrap
    /\ flow[f].step = "signIn" /\ flow[f].kind = "register" => wrapped = NoWrap
    /\ flow[f].step = "wrap" => flow[f].self = publishedKeys
    /\ flow[f].step = "rewrap" => flow[f].new = password
    /\ wrapped = NoWrap /\ password # 0 => flow[f].key \in {0, password}
OneAt(s) == \A f, g \in Flow : At(f, s) /\ At(g, s) => g = f
CachesHold == \A d \in Browser : cache[d] # 0 => cache[d] = publishedKeys /\ wrapped # NoWrap
WrapAgrees ==
  /\ wrapped # NoWrap => wrapped.of = publishedKeys /\ publishedKeys # 0
  /\ publishedKeys # 0 /\ wrapped = NoWrap => \E f \in Flow : At(f, "wrap")
  /\ wrapped.by # 0 /\ ~cut => wrapped.by = password \/ \E f \in Flow : At(f, "rewrap")
KeysInv == (\A f \in Flow : FlowAgrees(f)) /\ OneAt("wrap") /\ OneAt("rewrap") /\ CachesHold /\ WrapAgrees

IdentityInv == IdentityTypeOK /\ FlowsInv /\ (Undisturbed => KeysInv)

(* A flow at another step, with another key and another identity.          *)
Moved(a, s, k, i) ==
  [kind |-> a.kind, at |-> a.at, step |-> s, typed |-> a.typed, key |-> k, new |-> a.new, self |-> i]
Moves(f, s, k, i) == flow' = [flow EXCEPT ![f] = Moved(flow[f], s, k, i)]

LEMMA MovedStep == ASSUME NEW a \in Flows, NEW s PROVE [a EXCEPT !.step = s] = Moved(a, s, a.key, a.self)
BY DEF Flows, Moved

LEMMA MovedKey == ASSUME NEW a \in Flows, NEW k PROVE [a EXCEPT !.key = k] = Moved(a, a.step, k, a.self)
BY DEF Flows, Moved

LEMMA MovedSelf == ASSUME NEW a \in Flows, NEW i PROVE [a EXCEPT !.self = i] = Moved(a, a.step, a.key, i)
BY DEF Flows, Moved

LEMMA MovedTyped ==
  ASSUME NEW a \in Flows, NEW s \in FlowStep
  PROVE  /\ Moved(a, s, a.key, a.self) \in Flows
         /\ \A k : Moved(Moved(a, s, a.key, a.self), s, k, a.self) = Moved(a, s, k, a.self)
         /\ \A i : Moved(Moved(a, s, a.key, a.self), s, a.key, i) = Moved(a, s, a.key, i)
<1>1. Moved(a, s, a.key, a.self) \in Flows
  BY DEF Flows, Moved
<1>. QED
  BY <1>1 DEF Moved

LEMMA MovedStepAndKey ==
  ASSUME NEW a \in Flows, NEW s \in FlowStep, NEW k
  PROVE  [a EXCEPT !.step = s, !.key = k] = Moved(a, s, k, a.self)
<1>. DEFINE b == Moved(a, s, a.key, a.self)
<1>1. [a EXCEPT !.step = s, !.key = k] = [[a EXCEPT !.step = s] EXCEPT !.key = k]
  BY Zenon DEF Flows
<1>2. [a EXCEPT !.step = s] = b
  BY MovedStep
<1>3. b \in Flows /\ b.step = s /\ b.self = a.self /\ Moved(b, s, k, a.self) = Moved(a, s, k, a.self)
  BY MovedTyped DEF Moved
<1>. HIDE DEF b
<1>4. [b EXCEPT !.key = k] = Moved(b, b.step, k, b.self)
  BY <1>3, MovedKey
<1>. QED
  BY <1>1, <1>2, <1>3, <1>4, Zenon

LEMMA MovedStepAndSelf ==
  ASSUME NEW a \in Flows, NEW s \in FlowStep, NEW i
  PROVE  [a EXCEPT !.step = s, !.self = i] = Moved(a, s, a.key, i)
<1>. DEFINE b == Moved(a, s, a.key, a.self)
<1>1. [a EXCEPT !.step = s, !.self = i] = [[a EXCEPT !.step = s] EXCEPT !.self = i]
  BY Zenon DEF Flows
<1>2. [a EXCEPT !.step = s] = b
  BY MovedStep
<1>3. b \in Flows /\ b.step = s /\ b.key = a.key /\ Moved(b, s, a.key, i) = Moved(a, s, a.key, i)
  BY MovedTyped DEF Moved
<1>. HIDE DEF b
<1>4. [b EXCEPT !.self = i] = Moved(b, b.step, b.key, i)
  BY <1>3, MovedSelf
<1>. QED
  BY <1>1, <1>2, <1>3, <1>4, Zenon

LEMMA BusyFlows ==
  ASSUME IdentityTypeOK, NEW f \in Flow, Busy(f)
  PROVE  /\ flow[f] \in Flows
         /\ flow[f].kind \in {"register", "login", "change", "verify"} /\ flow[f].at \in Browser
         /\ flow[f].step \in FlowStep /\ flow[f].typed \in PasswordKey /\ flow[f].key \in PasswordKey
         /\ flow[f].new \in PasswordKey /\ flow[f].self \in IdentityNo
<1>1. flow[f] \in Flows
  BY DEF IdentityTypeOK, Busy
<1>. QED
  BY <1>1 DEF Flows

LEMMA GoMoves ==
  ASSUME IdentityTypeOK, NEW f \in Flow, Busy(f), NEW s, Go(f, s)
  PROVE  Moves(f, s, flow[f].key, flow[f].self)
<1>1. [flow[f] EXCEPT !.step = s] = Moved(flow[f], s, flow[f].key, flow[f].self)
  BY BusyFlows, MovedStep
<1>2. flow' = [flow EXCEPT ![f] = [flow[f] EXCEPT !.step = s]]
  BY Zenon DEF Go
<1>. QED
  BY <1>1, <1>2, Zenon DEF Moves

LEMMA StepAndKeyMoves ==
  ASSUME IdentityTypeOK, NEW f \in Flow, Busy(f), NEW s \in FlowStep, NEW k,
         flow' = [flow EXCEPT ![f].step = s, ![f].key = k]
  PROVE  Moves(f, s, k, flow[f].self)
<1>1. [flow[f] EXCEPT !.step = s, !.key = k] = Moved(flow[f], s, k, flow[f].self)
  BY BusyFlows, MovedStepAndKey
<1>2. flow' = [flow EXCEPT ![f] = [flow[f] EXCEPT !.step = s, !.key = k]]
  BY Zenon
<1>. QED
  BY <1>1, <1>2, Zenon DEF Moves

LEMMA StepAndSelfMoves ==
  ASSUME IdentityTypeOK, NEW f \in Flow, Busy(f), NEW s \in FlowStep, NEW i,
         flow' = [flow EXCEPT ![f].step = s, ![f].self = i]
  PROVE  Moves(f, s, flow[f].key, i)
<1>1. [flow[f] EXCEPT !.step = s, !.self = i] = Moved(flow[f], s, flow[f].key, i)
  BY BusyFlows, MovedStepAndSelf
<1>2. flow' = [flow EXCEPT ![f] = [flow[f] EXCEPT !.step = s, !.self = i]]
  BY Zenon
<1>. QED
  BY <1>1, <1>2, Zenon DEF Moves

(* What moves, ends or starts a flow leaves the others alone.              *)
LEMMA Moving ==
  ASSUME IdentityTypeOK, NEW f \in Flow, Busy(f), NEW s \in FlowStep, NEW k \in PasswordKey, NEW i \in IdentityNo,
         Moves(f, s, k, i)
  PROVE  /\ flow' \in [Flow -> Flows \cup {NoFlow}]
         /\ \A g \in Flow : g # f => flow'[g] = flow[g]
         /\ flow'[f] = Moved(flow[f], s, k, i) /\ flow'[f] # NoFlow
<1>1. Moved(flow[f], s, k, i) \in Flows
  BY BusyFlows DEF Moved, Flows
<1>2. NoFlow \notin Flows
  BY DEF NoFlow, Flows
<1>. QED
  BY <1>1, <1>2 DEF Moves, IdentityTypeOK

LEMMA Ending ==
  ASSUME IdentityTypeOK, NEW f \in Flow, End(f)
  PROVE  /\ flow' \in [Flow -> Flows \cup {NoFlow}]
         /\ \A g \in Flow : g # f => flow'[g] = flow[g]
         /\ flow'[f] = NoFlow
BY DEF End, IdentityTypeOK

LEMMA Ranges ==
  ASSUME IdentityTypeOK
  PROVE  /\ chosen \in Nat /\ made \in Nat /\ password \in Nat /\ publishedKeys \in Nat
         /\ PasswordKey \subseteq Nat /\ IdentityNo \subseteq Nat
         /\ wrapped.by \in Nat /\ wrapped.of \in Nat /\ 0 \in PasswordKey /\ 0 \in IdentityNo
         /\ password \in PasswordKey /\ publishedKeys \in IdentityNo /\ wrapped.by \in PasswordKey /\ wrapped.of \in IdentityNo
         /\ password <= chosen /\ publishedKeys <= made /\ wrapped.by <= chosen /\ wrapped.of <= made
<1>1. chosen \in Nat /\ made \in Nat /\ chosen <= MaxPassword /\ made <= MaxIdentity
  BY IdentityAssumption DEF IdentityTypeOK, PasswordKey, IdentityNo
<1>2. wrapped.by \in 0 .. chosen /\ wrapped.of \in 0 .. made
  BY DEF IdentityTypeOK
<1>3. password \in 0 .. chosen /\ publishedKeys \in 0 .. made
  BY DEF IdentityTypeOK
<1>. QED
  BY <1>1, <1>2, <1>3, IdentityAssumption DEF PasswordKey, IdentityNo

(* A step of one flow that neither publishes nor wraps anything.           *)
LEMMA OneFlowSteps ==
  ASSUME IdentityInv, NEW f \in Flow, form' = form,
         password' = password, publishedKeys' = publishedKeys, wrapped' = wrapped,
         chosen' \in PasswordKey, chosen <= chosen', made' \in IdentityNo, made <= made',
         cache' \in [Browser -> 0 .. made'], Undisturbed => CachesHold',
         cut' = cut, orphaned' = orphaned, raced' = raced,
         flow' \in [Flow -> Flows \cup {NoFlow}], \A g \in Flow : g # f => flow'[g] = flow[g],
         ~At(f, "wrap"), ~At(f, "rewrap"), ~At(f, "wrap")', ~At(f, "rewrap")',
         FlowHolds(f)', Undisturbed => FlowAgrees(f)',
         Registers(f)' => \A g \in Flow : Registers(g) => g = f
  PROVE  IdentityInv'
<1>0. IdentityTypeOK /\ FlowsInv
  BY DEF IdentityInv
<1>1. IdentityTypeOK'
  <2>1. wrapped' \in [by : 0 .. chosen', of : 0 .. made']
    <3>1. wrapped \in [by : 0 .. chosen, of : 0 .. made]
      BY <1>0 DEF IdentityTypeOK
    <3>2. 0 .. chosen \subseteq 0 .. chosen' /\ 0 .. made \subseteq 0 .. made'
      BY <1>0, Ranges
    <3>. QED
      BY <3>1, <3>2
  <2>2. password' \in 0 .. chosen' /\ publishedKeys' \in 0 .. made'
    BY <1>0, Ranges
  <2>. QED
    BY <1>0, <2>1, <2>2 DEF IdentityTypeOK
<1>2. \A g \in Flow : g # f =>
        /\ Busy(g)' <=> Busy(g)
        /\ Registers(g)' <=> Registers(g)
        /\ At(g, "wrap")' <=> At(g, "wrap")
        /\ At(g, "rewrap")' <=> At(g, "rewrap")
  BY DEF Busy, Registers, At
<1>3. ASSUME NEW g \in Flow PROVE FlowHolds(g)'
  <2>1. CASE g = f
    BY <2>1
  <2>2. CASE g # f
    <3>. SUFFICES ASSUME Busy(g)' PROVE FlowHolds(g)'
      BY DEF FlowHolds
    <3>1. Busy(g) /\ FlowHolds(g) /\ flow'[g] = flow[g]
      BY <1>0, <1>2, <2>2 DEF FlowsInv
    <3>2. flow[g].key \in Nat /\ flow[g].new \in Nat /\ flow[g].self \in Nat
      BY <1>0, <3>1, BusyFlows, Ranges
    <3>3. flow[g].key <= chosen' /\ flow[g].new <= chosen' /\ flow[g].self <= made'
      BY <1>0, <3>1, <3>2, Ranges DEF FlowHolds
    <3>. QED
      BY <3>1, <3>3 DEF FlowHolds
  <2>. QED
    BY <2>1, <2>2
<1>4. OneRegistration'
  BY <1>0, <1>2 DEF FlowsInv, OneRegistration
<1>5. NoKeysYet'
  BY <1>0 DEF FlowsInv, NoKeysYet
<1>6. ASSUME Undisturbed' PROVE KeysInv'
  <2>1. KeysInv /\ CachesHold' /\ FlowAgrees(f)'
    BY <1>6 DEF IdentityInv, Undisturbed
  <2>2. \A g \in Flow : g # f => FlowAgrees(g)'
    BY <1>2, <2>1 DEF KeysInv, FlowAgrees
  <2>3. OneAt("wrap")' /\ OneAt("rewrap")'
    BY <1>2, <2>1 DEF KeysInv, OneAt
  <2>4. WrapAgrees'
    BY <1>2, <2>1 DEF KeysInv, WrapAgrees
  <2>. QED
    BY <2>1, <2>2, <2>3, <2>4 DEF KeysInv
<1>. QED
  BY <1>1, <1>3, <1>4, <1>5, <1>6 DEF IdentityInv, FlowsInv

LEMMA CachesStay ==
  ASSUME IdentityInv, cache' = cache, publishedKeys' = publishedKeys, wrapped' = wrapped, made' \in Nat, made <= made'
  PROVE  cache' \in [Browser -> 0 .. made'] /\ (Undisturbed => CachesHold')
<1>1. cache \in [Browser -> 0 .. made] /\ made \in Nat
  BY Ranges DEF IdentityInv, IdentityTypeOK
<1>2. 0 .. made \subseteq 0 .. made'
  BY <1>1
<1>3. Undisturbed => CachesHold'
  BY DEF IdentityInv, KeysInv, CachesHold
<1>. QED
  BY <1>1, <1>2, <1>3

LEMMA EndingKeeps ==
  ASSUME IdentityInv, NEW f \in Flow, End(f), form' = form, password' = password, chosen' = chosen,
         publishedKeys' = publishedKeys, wrapped' = wrapped, made' = made,
         cache' \in [Browser -> 0 .. made], Undisturbed => CachesHold',
         cut' = cut, orphaned' = orphaned, raced' = raced, ~At(f, "wrap"), ~At(f, "rewrap")
  PROVE  IdentityInv'
<1>0. IdentityTypeOK
  BY DEF IdentityInv
<1>1. /\ flow' \in [Flow -> Flows \cup {NoFlow}]
      /\ \A g \in Flow : g # f => flow'[g] = flow[g]
      /\ ~Busy(f)'
  BY <1>0, Ending DEF Busy
<1>2. ~At(f, "wrap")' /\ ~At(f, "rewrap")' /\ FlowHolds(f)' /\ FlowAgrees(f)' /\ ~Registers(f)'
  BY <1>1 DEF At, FlowHolds, FlowAgrees, Registers
<1>3. chosen' \in PasswordKey /\ chosen <= chosen' /\ made' \in IdentityNo /\ made <= made'
  BY <1>0, Ranges DEF IdentityTypeOK
<1>. QED
  BY <1>1, <1>2, <1>3, OneFlowSteps

LEMMA StartingKeeps ==
  ASSUME IdentityInv, NEW f \in Flow, NEW kind \in {"register", "login", "change", "verify"}, NEW d \in Browser,
         NEW s \in {"register", "salt"}, NEW p \in PasswordKey, NEW n \in PasswordKey, Start(f, kind, d, s, p, n),
         form' = form, password' = password, publishedKeys' = publishedKeys, wrapped' = wrapped, made' = made, cache' = cache,
         cut' = cut, orphaned' = orphaned, raced' = raced,
         chosen' \in PasswordKey, chosen <= chosen', p <= chosen', n <= chosen',
         s = "register" <=> kind = "register", s = "register" <=> password = 0,
         kind = "register" => p # 0 /\ \A g \in Flow : ~Registers(g),
         kind # "register" => p \in {0, password}, kind = "change" => n # 0
  PROVE  IdentityInv'
<1>0. IdentityTypeOK
  BY DEF IdentityInv
<1>. DEFINE a == [kind |-> kind, at |-> d, step |-> s, typed |-> p, key |-> p, new |-> n, self |-> 0]
<1>1. flow' = [flow EXCEPT ![f] = a] /\ ~Busy(f)
  BY DEF Start
<1>2. a \in Flows /\ a.kind = kind /\ a.step = s /\ a.key = p /\ a.new = n /\ a.self = 0
  BY <1>0, Ranges DEF Flows, FlowStep
<1>. HIDE DEF a
<1>3. /\ flow' \in [Flow -> Flows \cup {NoFlow}]
      /\ \A g \in Flow : g # f => flow'[g] = flow[g]
      /\ flow'[f] = a
  BY <1>0, <1>1, <1>2 DEF IdentityTypeOK
<1>4. ~At(f, "wrap") /\ ~At(f, "rewrap") /\ ~At(f, "wrap")' /\ ~At(f, "rewrap")'
  BY <1>1, <1>2, <1>3 DEF At
<1>5. made \in Nat /\ made' \in IdentityNo /\ made <= made' /\ 0 <= made'
  BY <1>0, Ranges DEF IdentityTypeOK
<1>6. FlowHolds(f)'
  BY <1>2, <1>3, <1>5 DEF FlowHolds
<1>7. FlowAgrees(f)'
  BY <1>2, <1>3 DEF FlowAgrees
<1>8. Registers(f)' => \A g \in Flow : Registers(g) => g = f
  BY <1>2, <1>3 DEF Registers
<1>9. cache' \in [Browser -> 0 .. made'] /\ (Undisturbed => CachesHold')
  BY <1>5, CachesStay
<1>. QED
  BY <1>3, <1>4, <1>5, <1>6, <1>7, <1>8, <1>9, OneFlowSteps

(* A flow goes on, with nothing published or wrapped.                      *)
LEMMA MovingKeeps ==
  ASSUME IdentityInv, NEW f \in Flow, Busy(f), NEW s \in FlowStep \ {"wrap", "rewrap", "register"},
         NEW k \in PasswordKey, NEW i \in IdentityNo, Moves(f, s, k, i),
         form' = form, password' = password, publishedKeys' = publishedKeys, wrapped' = wrapped,
         cache' \in [Browser -> 0 .. made'], Undisturbed => CachesHold',
         chosen' = chosen, made' \in IdentityNo, made <= made', cut' = cut, orphaned' = orphaned, raced' = raced,
         flow[f].step \notin {"wrap", "rewrap", "register"},
         k \in {0, password} \/ k = flow[f].key, i <= made',
         s \in {"change", "resave"} => flow[f].kind = "change",
         s = "publicKeys" => i # 0,
         s = "salt" => flow[f].kind # "register",
         s = "signIn" => flow[f].kind = "login",
         Undisturbed =>
           /\ s \in {"save", "change", "resave"} => i = publishedKeys /\ wrapped # NoWrap
           /\ s = "publicKeys" => wrapped = NoWrap
  PROVE  IdentityInv'
<1>0. IdentityTypeOK /\ FlowHolds(f)
  BY DEF IdentityInv, FlowsInv
<1>1. /\ flow' \in [Flow -> Flows \cup {NoFlow}]
      /\ \A g \in Flow : g # f => flow'[g] = flow[g]
      /\ flow'[f] = Moved(flow[f], s, k, i) /\ flow'[f] # NoFlow
  BY <1>0, Moving
<1>2. /\ flow'[f].kind = flow[f].kind /\ flow'[f].new = flow[f].new
      /\ flow'[f].step = s /\ flow'[f].key = k /\ flow'[f].self = i
  BY <1>1 DEF Moved
<1>3. ~At(f, "wrap") /\ ~At(f, "rewrap") /\ ~At(f, "wrap")' /\ ~At(f, "rewrap")'
  BY <1>2 DEF At
<1>4. k <= chosen /\ password # 0 /\ flow[f].new <= chosen
  BY <1>0, Ranges DEF FlowHolds
<1>5. FlowHolds(f)'
  BY <1>0, <1>2, <1>4 DEF FlowHolds
<1>6. Undisturbed => FlowAgrees(f)'
  BY <1>2, <1>4 DEF FlowAgrees, IdentityInv, KeysInv
<1>7. Registers(f)' => \A g \in Flow : Registers(g) => g = f
  BY <1>2 DEF IdentityInv, FlowsInv, OneRegistration, Registers
<1>8. chosen' \in PasswordKey /\ chosen <= chosen'
  BY <1>0, Ranges DEF IdentityTypeOK
<1>. QED
  BY <1>1, <1>3, <1>5, <1>6, <1>7, <1>8, OneFlowSteps

LEMMA FlowsStay ==
  ASSUME IdentityInv, form' \in [step : 1 .. 2, strong : BOOLEAN, matching : BOOLEAN, confirmed : BOOLEAN],
         UNCHANGED <<accountVars, keyVars, flow, identityHistory>>,
         cache' \in [Browser -> 0 .. made], Undisturbed => CachesHold'
  PROVE  IdentityInv'
<1>. USE DEF accountVars, keyVars, identityHistory
<1>1. IdentityTypeOK'
  BY DEF IdentityInv, IdentityTypeOK
<1>2. FlowsInv'
  BY DEF IdentityInv, FlowsInv, FlowHolds, Busy, OneRegistration, Registers, NoKeysYet
<1>3. ASSUME Undisturbed' PROVE KeysInv'
  <2>1. KeysInv /\ CachesHold'
    BY <1>3 DEF IdentityInv, Undisturbed
  <2>. QED
    BY <2>1 DEF KeysInv, FlowAgrees, Busy, OneAt, At, WrapAgrees
<1>. QED
  BY <1>1, <1>2, <1>3 DEF IdentityInv

LEMMA FormKeeps == ASSUME IdentityInv, TypePassword \/ ContinueToWarning \/ TickOrGoBack PROVE IdentityInv'
<1>1. form \in [step : 1 .. 2, strong : BOOLEAN, matching : BOOLEAN, confirmed : BOOLEAN]
  BY DEF IdentityInv, IdentityTypeOK
<1>2. form' \in [step : 1 .. 2, strong : BOOLEAN, matching : BOOLEAN, confirmed : BOOLEAN]
  <2>1. CASE TypePassword
    BY <1>1, <2>1 DEF TypePassword
  <2>2. CASE ContinueToWarning
    BY <1>1, <2>2 DEF ContinueToWarning
  <2>3. CASE TickOrGoBack
    <3>1. \A b \in BOOLEAN :
            [form EXCEPT !.confirmed = b] \in [step : 1 .. 2, strong : BOOLEAN, matching : BOOLEAN, confirmed : BOOLEAN]
      BY <1>1
    <3>2. (~form.confirmed) \in BOOLEAN
      OBVIOUS
    <3>3. form' = [form EXCEPT !.confirmed = ~form.confirmed] \/ form' = [form EXCEPT !.step = 1]
      BY <2>3, Zenon DEF TickOrGoBack
    <3>4. CASE form' = [form EXCEPT !.confirmed = ~form.confirmed]
      BY <3>1, <3>2, <3>4, Zenon
    <3>5. CASE form' = [form EXCEPT !.step = 1]
      BY <1>1, <3>5
    <3>. QED
      BY <3>3, <3>4, <3>5
  <2>. QED
    BY <2>1, <2>2, <2>3
<1>3. UNCHANGED <<accountVars, keyVars, cache, flow, identityHistory>>
  BY DEF TypePassword, ContinueToWarning, TickOrGoBack
<1>4. cache' \in [Browser -> 0 .. made] /\ (Undisturbed => CachesHold')
  BY <1>3, CachesStay, Ranges DEF keyVars, IdentityInv
<1>. QED
  BY <1>2, <1>3, <1>4, FlowsStay

LEMMA ClearStorageKeeps == ASSUME IdentityInv, NEW d \in Browser, ClearStorage(d) PROVE IdentityInv'
<1>1. cache \in [Browser -> 0 .. made] /\ 0 \in 0 .. made
  BY Ranges DEF IdentityInv, IdentityTypeOK
<1>2. cache' = [cache EXCEPT ![d] = 0] /\ UNCHANGED <<form, accountVars, keyVars, flow, identityHistory>>
  BY DEF ClearStorage
<1>3. cache' \in [Browser -> 0 .. made]
  BY <1>1, <1>2
<1>4. Undisturbed => CachesHold'
  BY <1>1, <1>2 DEF IdentityInv, KeysInv, CachesHold, keyVars
<1>. QED
  BY <1>2, <1>3, <1>4, FlowsStay DEF IdentityInv, IdentityTypeOK

LEMMA StartsKeep ==
  ASSUME IdentityInv, NEW f \in Flow, NEW d \in Browser,
         OpenVault(f, d) \/ StartLogin(f, d) \/ StartChange(f, d) \/ StartVerify(f, d)
  PROVE  IdentityInv'
<1>. USE DEF accountVars, keyVars, identityHistory
<1>0. /\ chosen \in Nat /\ password \in PasswordKey /\ password <= chosen /\ 0 \in PasswordKey
      /\ chosen \in PasswordKey /\ 0 <= chosen
  BY Ranges DEF IdentityInv, IdentityTypeOK
<1>1. chosen < MaxPassword => chosen + 1 \in PasswordKey /\ chosen + 1 # 0
  BY <1>0, IdentityAssumption DEF PasswordKey
<1>2. CASE OpenVault(f, d)
  <2>1. /\ Start(f, "register", d, "register", chosen + 1, 0) /\ chosen' = chosen + 1 /\ chosen < MaxPassword
        /\ password = 0 /\ \A g \in Flow : ~Registers(g)
    BY <1>2 DEF OpenVault, Registers
  <2>2. UNCHANGED <<form, password, keyVars, cache, identityHistory>>
    BY <1>2 DEF OpenVault
  <2>3. chosen <= chosen' /\ chosen + 1 <= chosen' /\ 0 <= chosen' /\ chosen' \in PasswordKey
    BY <1>0, <1>1, <2>1
  <2>. QED
    BY <1>0, <1>1, <2>1, <2>2, <2>3, StartingKeeps
<1>3. CASE StartLogin(f, d)
  <2>1. PICK p \in {0, password} : Start(f, "login", d, "salt", p, 0)
    BY <1>3 DEF StartLogin
  <2>2. password # 0 /\ UNCHANGED <<form, accountVars, keyVars, cache, identityHistory>>
    BY <1>3 DEF StartLogin
  <2>3. p \in PasswordKey /\ p <= chosen'
    BY <1>0, <2>2
  <2>. QED
    BY <1>0, <2>1, <2>2, <2>3, StartingKeeps
<1>4. CASE StartChange(f, d)
  <2>1. PICK p \in {0, password} : Start(f, "change", d, "salt", p, chosen + 1)
    BY <1>4 DEF StartChange
  <2>2. /\ password # 0 /\ chosen' = chosen + 1 /\ chosen < MaxPassword
        /\ UNCHANGED <<form, password, keyVars, cache, identityHistory>>
    BY <1>4 DEF StartChange
  <2>3. p \in PasswordKey /\ p <= chosen' /\ chosen <= chosen' /\ chosen + 1 <= chosen' /\ chosen' \in PasswordKey
    BY <1>0, <1>1, <2>2
  <2>. QED
    BY <1>0, <1>1, <2>1, <2>2, <2>3, StartingKeeps
<1>5. CASE StartVerify(f, d)
  <2>1. PICK p \in {0, password} : Start(f, "verify", d, "salt", p, 0)
    BY <1>5 DEF StartVerify
  <2>2. password # 0 /\ UNCHANGED <<form, accountVars, keyVars, cache, identityHistory>>
    BY <1>5 DEF StartVerify
  <2>3. p \in PasswordKey /\ p <= chosen'
    BY <1>0, <2>2
  <2>. QED
    BY <1>0, <2>1, <2>2, <2>3, StartingKeeps
<1>. QED
  BY <1>2, <1>3, <1>4, <1>5

LEMMA FlowsGoOn ==
  ASSUME IdentityInv, NEW f \in Flow, DeriveKey(f) \/ SignIn(f) \/ LoadCached(f) \/ FetchWrapped(f) \/ CheckUnlock(f) \/ Told(f)
  PROVE  IdentityInv'
<1>. USE DEF accountVars, keyVars, identityHistory
<1>0. /\ IdentityTypeOK /\ FlowHolds(f) /\ chosen \in Nat /\ made \in Nat /\ made \in IdentityNo /\ wrapped.of <= made
      /\ password \in PasswordKey /\ 0 \in PasswordKey /\ wrapped.of \in IdentityNo /\ 0 \in IdentityNo
      /\ Undisturbed => KeysInv
  BY Ranges DEF IdentityInv, FlowsInv, IdentityTypeOK
<1>1. Busy(f) /\ flow[f].step \in {"salt", "signIn", "cached", "fetch", "right", "wrong"}
  BY DEF DeriveKey, SignIn, LoadCached, FetchWrapped, CheckUnlock, Told, At
<1>2. /\ form' = form /\ password' = password /\ chosen' = chosen /\ publishedKeys' = publishedKeys /\ wrapped' = wrapped
      /\ cache' = cache /\ cut' = cut /\ orphaned' = orphaned /\ raced' = raced
  BY DEF DeriveKey, SignIn, LoadCached, FetchWrapped, CheckUnlock, Told
<1>3. /\ flow[f].key \in PasswordKey /\ flow[f].self \in IdentityNo /\ flow[f].self <= made
      /\ flow[f].kind \in {"register", "login", "change", "verify"} /\ flow[f].at \in Browser
  BY <1>0, <1>1, BusyFlows DEF FlowHolds
<1>4. made < MaxIdentity => made + 1 \in IdentityNo /\ made + 1 # 0 /\ made <= made + 1
  BY <1>0, IdentityAssumption DEF IdentityNo
<1>5. {"signIn", "cached", "fetch", "publicKeys", "save", "change", "right", "wrong"} \subseteq FlowStep \ {"wrap", "rewrap", "register"}
  BY DEF FlowStep
<1>6. ~At(f, "wrap") /\ ~At(f, "rewrap")
  BY <1>1 DEF At
<1>7. ASSUME End(f), made' = made PROVE IdentityInv'
  <2>1. cache' \in [Browser -> 0 .. made] /\ (Undisturbed => CachesHold')
    BY <1>0, <1>2, <1>7, CachesStay
  <2>. QED
    BY <1>2, <1>6, <1>7, <2>1, EndingKeeps
<1>8. ASSUME NEW s \in {"signIn", "cached", "fetch", "publicKeys", "save", "change", "right", "wrong"},
             NEW k \in PasswordKey, NEW i \in IdentityNo, Moves(f, s, k, i),
             made' \in IdentityNo, made <= made',
             k \in {0, password} \/ k = flow[f].key, i <= made',
             s = "change" => flow[f].kind = "change", s = "publicKeys" => i # 0,
             s = "signIn" => flow[f].kind = "login",
             Undisturbed =>
               /\ s \in {"save", "change"} => i = publishedKeys /\ wrapped # NoWrap
               /\ s = "publicKeys" => wrapped = NoWrap
      PROVE  IdentityInv'
  <2>1. cache' \in [Browser -> 0 .. made'] /\ (Undisturbed => CachesHold')
    <3>1. made' \in Nat
      BY <1>0, <1>8, Ranges
    <3>. QED
      BY <1>2, <1>8, <3>1, CachesStay
  <2>2. s \in FlowStep \ {"wrap", "rewrap", "register"} /\ s # "resave" /\ s # "salt"
    BY <1>5, <1>8
  <2>3. flow[f].step \notin {"wrap", "rewrap", "register"}
    BY <1>1
  <2>. QED
    BY <1>1, <1>2, <1>8, <2>1, <2>2, <2>3, MovingKeeps
<1>9. CASE DeriveKey(f)
  <2>. DEFINE s == AfterSalt[flow[f].kind]
              k == IF flow[f].typed = password THEN password ELSE 0
  <2>1. flow' = [flow EXCEPT ![f].step = s, ![f].key = k] /\ made' = made
    BY <1>9, Zenon DEF DeriveKey
  <2>2. flow[f].kind \in {"login", "change", "verify"}
    BY <1>0, <1>1, <1>3, <1>9 DEF DeriveKey, At, FlowHolds
  <2>3. s \in {"signIn", "cached", "fetch"} /\ (s = "signIn" => flow[f].kind = "login")
    BY <2>2 DEF AfterSalt
  <2>4. k \in {0, password} /\ k \in PasswordKey
    BY <1>0
  <2>. HIDE DEF s, k
  <2>5. Moves(f, s, k, flow[f].self)
    BY <1>0, <1>1, <1>5, <2>1, <2>3, StepAndKeyMoves
  <2>6. made' \in IdentityNo /\ made <= made' /\ flow[f].self <= made'
    BY <1>0, <1>3, <2>1
  <2>. QED
    BY <1>3, <1>8, <2>3, <2>4, <2>5, <2>6
<1>10. CASE SignIn(f)
  <2>1. CASE End(f) /\ made' = made
    BY <1>7, <2>1
  <2>2. CASE Go(f, "cached") /\ made' = made
    <3>1. Moves(f, "cached", flow[f].key, flow[f].self)
      BY <1>0, <1>1, <2>2, GoMoves
    <3>2. made' \in IdentityNo /\ made <= made' /\ flow[f].self <= made'
      BY <1>0, <1>3, <2>2
    <3>. QED
      BY <1>3, <1>8, <3>1, <3>2
  <2>3. CASE /\ flow[f].kind # "login" /\ made < MaxIdentity /\ made' = made + 1
             /\ flow' = [flow EXCEPT ![f].step = "publicKeys", ![f].self = made + 1]
    <3>. DEFINE i == made + 1
    <3>1. flow' = [flow EXCEPT ![f].step = "publicKeys", ![f].self = i]
      BY <2>3, Zenon
    <3>2. i \in IdentityNo /\ i # 0 /\ made' = i /\ made <= made' /\ i <= made'
      BY <1>0, <1>4, <2>3
    <3>3. Undisturbed => wrapped = NoWrap
      BY <1>0, <1>1, <1>10, <2>3 DEF SignIn, At, KeysInv, FlowAgrees, FlowHolds
    <3>. HIDE DEF i
    <3>4. Moves(f, "publicKeys", flow[f].key, i)
      BY <1>0, <1>1, <1>5, <3>1, StepAndSelfMoves
    <3>. QED
      BY <1>3, <1>8, <3>2, <3>3, <3>4
  <2>. QED
    BY <1>10, <2>1, <2>2, <2>3, Zenon DEF SignIn
<1>11. CASE LoadCached(f)
  <2>. DEFINE i == cache[flow[f].at]
  <2>1. made' = made
    BY <1>11 DEF LoadCached
  <2>2. CASE End(f)
    BY <1>7, <2>1, <2>2
  <2>3. CASE Go(f, "fetch")
    <3>1. Moves(f, "fetch", flow[f].key, flow[f].self)
      BY <1>0, <1>1, <2>3, GoMoves
    <3>2. made' \in IdentityNo /\ made <= made' /\ flow[f].self <= made'
      BY <1>0, <1>3, <2>1
    <3>. QED
      BY <1>3, <1>8, <3>1, <3>2
  <2>4. CASE i # 0 /\ Recovered(f) # "done" /\ flow' = [flow EXCEPT ![f].step = "change", ![f].self = i]
    <3>1. flow[f].kind = "change"
      BY <2>4 DEF Recovered
    <3>2. i \in IdentityNo /\ i <= made'
      BY <1>0, <1>3, <2>1, IdentityAssumption DEF IdentityTypeOK, IdentityNo
    <3>3. Undisturbed => i = publishedKeys /\ wrapped # NoWrap
      BY <1>0, <1>3, <2>4 DEF KeysInv, CachesHold
    <3>4. made' \in IdentityNo /\ made <= made'
      BY <1>0, <2>1
    <3>5. flow' = [flow EXCEPT ![f].step = "change", ![f].self = i]
      BY <2>4, Zenon
    <3>. HIDE DEF i
    <3>6. Moves(f, "change", flow[f].key, i)
      BY <1>0, <1>1, <1>5, <3>5, StepAndSelfMoves
    <3>. QED
      BY <1>3, <1>8, <3>1, <3>2, <3>3, <3>4, <3>6
  <2>. QED
    BY <1>11, <2>2, <2>3, <2>4, Zenon DEF LoadCached, Proceed
<1>12. CASE FetchWrapped(f)
  <2>1. CASE End(f) /\ made' = made
    BY <1>7, <2>1
  <2>2. CASE Opens(f) /\ made' = made /\ flow' = [flow EXCEPT ![f].step = "save", ![f].self = wrapped.of]
    <3>1. Moves(f, "save", flow[f].key, wrapped.of)
      BY <1>0, <1>1, <1>5, <2>2, StepAndSelfMoves
    <3>2. wrapped # NoWrap
      BY <2>2 DEF Opens, NoWrap
    <3>3. Undisturbed => wrapped.of = publishedKeys
      BY <1>0, <3>2 DEF KeysInv, WrapAgrees
    <3>4. made' \in IdentityNo /\ made <= made' /\ wrapped.of <= made'
      BY <1>0, <2>2
    <3>. QED
      BY <1>0, <1>3, <1>8, <3>1, <3>2, <3>3, <3>4
  <2>3. CASE /\ wrapped = NoWrap /\ made < MaxIdentity /\ made' = made + 1
             /\ flow' = [flow EXCEPT ![f].step = "publicKeys", ![f].self = made + 1]
    <3>. DEFINE i == made + 1
    <3>1. flow' = [flow EXCEPT ![f].step = "publicKeys", ![f].self = i]
      BY <2>3, Zenon
    <3>2. i \in IdentityNo /\ i # 0 /\ made' = i /\ made <= made' /\ i <= made'
      BY <1>0, <1>4, <2>3
    <3>. HIDE DEF i
    <3>4. Moves(f, "publicKeys", flow[f].key, i)
      BY <1>0, <1>1, <1>5, <3>1, StepAndSelfMoves
    <3>. QED
      BY <1>3, <1>8, <2>3, <3>2, <3>4
  <2>. QED
    BY <1>12, <2>1, <2>2, <2>3, Zenon DEF FetchWrapped
<1>13. CASE CheckUnlock(f)
  <2>1. made' = made /\ (Go(f, "right") \/ Go(f, "wrong"))
    BY <1>13 DEF CheckUnlock
  <2>2. PICK s \in {"right", "wrong"} : Go(f, s)
    BY <2>1
  <2>3. Moves(f, s, flow[f].key, flow[f].self)
    BY <1>0, <1>1, <2>2, GoMoves
  <2>4. made' \in IdentityNo /\ made <= made' /\ flow[f].self <= made'
    BY <1>0, <1>3, <2>1
  <2>. QED
    BY <1>3, <1>8, <2>3, <2>4
<1>14. CASE Told(f)
  BY <1>7, <1>14 DEF Told
<1>. QED
  BY <1>9, <1>10, <1>11, <1>12, <1>13, <1>14

LEMMA CreateAccountKeeps == ASSUME IdentityInv, NEW f \in Flow, CreateAccount(f) PROVE IdentityInv'
<1>0. /\ IdentityTypeOK /\ FlowHolds(f) /\ OneRegistration /\ NoKeysYet
      /\ \A g \in Flow : FlowHolds(g)
  BY DEF IdentityInv, FlowsInv
<1>1. /\ Busy(f) /\ flow[f].step = "register" /\ password' = flow[f].key /\ form' = Blank /\ Go(f, "signIn")
      /\ UNCHANGED <<chosen, keyVars, cache, identityHistory>>
  BY DEF CreateAccount, At
<1>2. /\ password = 0 /\ flow[f].kind = "register" /\ flow[f].key # 0 /\ flow[f].key <= chosen
      /\ publishedKeys = 0 /\ wrapped = NoWrap
  BY <1>0, <1>1 DEF FlowHolds, NoKeysYet
<1>3. flow[f].key \in PasswordKey /\ flow[f].self \in IdentityNo /\ "signIn" \in FlowStep /\ chosen \in Nat /\ flow[f].key \in Nat
  BY <1>0, <1>1, BusyFlows, Ranges DEF FlowStep
<1>4. /\ flow' \in [Flow -> Flows \cup {NoFlow}]
      /\ \A g \in Flow : g # f => flow'[g] = flow[g]
      /\ flow'[f] = Moved(flow[f], "signIn", flow[f].key, flow[f].self) /\ flow'[f] # NoFlow
  BY <1>0, <1>1, <1>3, GoMoves, Moving
<1>5. \A g \in Flow : g # f => ~Busy(g)
  BY <1>0, <1>1, <1>2 DEF FlowHolds, OneRegistration, Registers
<1>6. \A g \in Flow : g # f => ~Busy(g)'
  BY <1>4, <1>5 DEF Busy
<1>7. /\ flow'[f].kind = "register" /\ flow'[f].new = flow[f].new /\ flow'[f].step = "signIn"
      /\ flow'[f].key = flow[f].key /\ flow'[f].self = flow[f].self
  BY <1>2, <1>4 DEF Moved
<1>8. IdentityTypeOK'
  <2>1. password' \in 0 .. chosen'
    BY <1>1, <1>2, <1>3
  <2>. QED
    BY <1>0, <1>1, <1>4, <2>1 DEF IdentityTypeOK, keyVars, identityHistory, Blank
<1>9. FlowsInv'
  <2>1. FlowHolds(f)'
    BY <1>0, <1>1, <1>2, <1>7 DEF FlowHolds, keyVars
  <2>2. \A g \in Flow : g # f => FlowHolds(g)'
    BY <1>6 DEF FlowHolds
  <2>3. OneRegistration'
    BY <1>6 DEF OneRegistration, Registers
  <2>4. NoKeysYet'
    BY <1>1, <1>2 DEF NoKeysYet
  <2>. QED
    BY <2>1, <2>2, <2>3, <2>4 DEF FlowsInv
<1>10. ASSUME Undisturbed' PROVE KeysInv'
  <2>1. CachesHold /\ publishedKeys' = 0 /\ wrapped' = NoWrap /\ cache' = cache
    BY <1>1, <1>2, <1>10 DEF IdentityInv, KeysInv, Undisturbed, identityHistory, keyVars
  <2>2. FlowAgrees(f)'
    BY <1>1, <1>7, <2>1 DEF FlowAgrees
  <2>3. \A g \in Flow : g # f => FlowAgrees(g)'
    BY <1>6 DEF FlowAgrees
  <2>4. OneAt("wrap")' /\ OneAt("rewrap")'
    BY <1>6 DEF OneAt, At
  <2>5. CachesHold' /\ WrapAgrees'
    BY <1>2, <2>1 DEF CachesHold, WrapAgrees, NoWrap
  <2>. QED
    BY <2>2, <2>3, <2>4, <2>5 DEF KeysInv
<1>. QED
  BY <1>8, <1>9, <1>10 DEF IdentityInv

(* A flow that writes while no other is about to.                          *)
LEMMA WritesAlone ==
  ASSUME IdentityInv, NEW f \in Flow, Race(f), orphaned' = orphaned, Undisturbed'
  PROVE  Undisturbed /\ KeysInv /\ \A g \in Flow : g # f => ~Writing(g)
<1>1. ~raced /\ ~orphaned /\ \A g \in Flow \ {f} : ~Writing(g)
  BY DEF Race, Undisturbed
<1>. QED
  BY <1>1 DEF Undisturbed, IdentityInv

LEMMA MovedFlow ==
  ASSUME IdentityInv, NEW f \in Flow, Busy(f), NEW s \in FlowStep, Go(f, s)
  PROVE  /\ flow' \in [Flow -> Flows \cup {NoFlow}] /\ Busy(f)'
         /\ \A g \in Flow : g # f => flow'[g] = flow[g] /\ (Busy(g)' <=> Busy(g))
         /\ flow'[f].kind = flow[f].kind /\ flow'[f].new = flow[f].new /\ flow'[f].step = s
         /\ flow'[f].key = flow[f].key /\ flow'[f].self = flow[f].self
<1>0. IdentityTypeOK
  BY DEF IdentityInv
<1>1. flow[f].key \in PasswordKey /\ flow[f].self \in IdentityNo
  BY <1>0, BusyFlows
<1>2. Moves(f, s, flow[f].key, flow[f].self)
  BY <1>0, GoMoves
<1>3. /\ flow' \in [Flow -> Flows \cup {NoFlow}]
      /\ \A g \in Flow : g # f => flow'[g] = flow[g]
      /\ flow'[f] = Moved(flow[f], s, flow[f].key, flow[f].self) /\ flow'[f] # NoFlow
  BY <1>0, <1>1, <1>2, Moving
<1>. QED
  BY <1>3 DEF Busy, Moved

(* The unconditional part, for a step that moves one flow on.              *)
LEMMA MovedFlowsHold ==
  ASSUME IdentityInv, NEW f \in Flow, Busy(f), NEW s \in {"wrap", "save", "rewrap", "resave"}, Go(f, s),
         flow[f].step \in {"publicKeys", "wrap", "change", "rewrap"},
         s = "wrap" => flow[f].step = "publicKeys", s \in {"rewrap", "resave"} => flow[f].kind = "change",
         chosen' = chosen, made' = made, password' # 0
  PROVE  FlowsInv'
<1>0. FlowHolds(f) /\ OneRegistration /\ \A g \in Flow : FlowHolds(g)
  BY DEF IdentityInv, FlowsInv
<1>1. s \in FlowStep
  BY DEF FlowStep
<1>2. /\ \A g \in Flow : g # f => flow'[g] = flow[g] /\ (Busy(g)' <=> Busy(g))
      /\ flow'[f].kind = flow[f].kind /\ flow'[f].new = flow[f].new /\ flow'[f].step = s
      /\ flow'[f].key = flow[f].key /\ flow'[f].self = flow[f].self
  BY <1>1, MovedFlow
<1>3. password # 0
  BY <1>0 DEF FlowHolds
<1>4. FlowHolds(f)'
  BY <1>0, <1>2 DEF FlowHolds
<1>5. \A g \in Flow : g # f => FlowHolds(g)'
  BY <1>0, <1>2, <1>3 DEF FlowHolds
<1>6. OneRegistration'
  BY <1>0, <1>2 DEF OneRegistration, Registers
<1>. QED
  BY <1>4, <1>5, <1>6 DEF FlowsInv, NoKeysYet

LEMMA SetPublicKeysKeeps == ASSUME IdentityInv, NEW f \in Flow, SetPublicKeys(f) PROVE IdentityInv'
<1>0. IdentityTypeOK /\ FlowHolds(f) /\ \A g \in Flow : FlowHolds(g)
  BY DEF IdentityInv, FlowsInv
<1>1. /\ Busy(f) /\ flow[f].step = "publicKeys" /\ publishedKeys' = flow[f].self /\ Race(f) /\ Go(f, "wrap")
      /\ UNCHANGED <<form, accountVars, wrapped, made, cache, cut, orphaned>>
  BY DEF SetPublicKeys, At
<1>2. /\ flow' \in [Flow -> Flows \cup {NoFlow}] /\ Busy(f)'
      /\ \A g \in Flow : g # f => flow'[g] = flow[g] /\ (Busy(g)' <=> Busy(g))
      /\ flow'[f].kind = flow[f].kind /\ flow'[f].new = flow[f].new /\ flow'[f].step = "wrap"
      /\ flow'[f].key = flow[f].key /\ flow'[f].self = flow[f].self
  BY <1>1, MovedFlow DEF FlowStep
<1>3. flow[f].self # 0 /\ flow[f].self <= made /\ password # 0
  BY <1>0, <1>1 DEF FlowHolds
<1>4. IdentityTypeOK'
  <2>1. flow[f].self \in 0 .. made /\ raced' \in BOOLEAN
    BY <1>0, <1>1, <1>3, BusyFlows, Ranges DEF Race
  <2>. QED
    BY <1>0, <1>1, <1>2, <2>1 DEF IdentityTypeOK, accountVars
<1>5. FlowsInv'
  BY <1>1, <1>3, MovedFlowsHold DEF accountVars
<1>6. ASSUME Undisturbed' PROVE KeysInv'
  <2>1. KeysInv /\ \A g \in Flow : g # f => ~Writing(g)
    BY <1>1, <1>6, WritesAlone
  <2>2. wrapped = NoWrap
    BY <1>1, <2>1 DEF KeysInv, FlowAgrees
  <2>3. FlowAgrees(f)'
    BY <1>1, <1>2, <2>1, <2>2 DEF FlowAgrees, KeysInv, accountVars
  <2>4. ASSUME NEW g \in Flow, g # f PROVE FlowAgrees(g)' /\ ~At(g, "wrap") /\ ~At(g, "rewrap")
    <3>1. ~At(g, "wrap") /\ ~At(g, "rewrap")
      BY <2>1, <2>4 DEF Writing
    <3>. QED
      BY <1>1, <1>2, <2>1, <2>2, <2>4, <3>1 DEF FlowAgrees, KeysInv, accountVars, At
  <2>5. OneAt("wrap")' /\ OneAt("rewrap")'
    BY <1>2, <2>4 DEF OneAt, At
  <2>6. CachesHold'
    BY <1>1, <2>1, <2>2 DEF KeysInv, CachesHold
  <2>7. WrapAgrees'
    BY <1>1, <1>2, <2>2 DEF WrapAgrees, At, NoWrap
  <2>. QED
    BY <2>3, <2>4, <2>5, <2>6, <2>7 DEF KeysInv
<1>. QED
  BY <1>4, <1>5, <1>6 DEF IdentityInv

LEMMA SetWrappedKeeps == ASSUME IdentityInv, NEW f \in Flow, SetWrapped(f) PROVE IdentityInv'
<1>0. IdentityTypeOK /\ FlowHolds(f) /\ \A g \in Flow : FlowHolds(g)
  BY DEF IdentityInv, FlowsInv
<1>1. /\ Busy(f) /\ flow[f].step = "wrap" /\ wrapped' = [by |-> flow[f].key, of |-> flow[f].self] /\ Race(f) /\ Go(f, "save")
      /\ UNCHANGED <<form, accountVars, publishedKeys, made, cache, cut, orphaned>>
  BY DEF SetWrapped, At
<1>2. /\ flow' \in [Flow -> Flows \cup {NoFlow}] /\ Busy(f)'
      /\ \A g \in Flow : g # f => flow'[g] = flow[g] /\ (Busy(g)' <=> Busy(g))
      /\ flow'[f].kind = flow[f].kind /\ flow'[f].new = flow[f].new /\ flow'[f].step = "save"
      /\ flow'[f].key = flow[f].key /\ flow'[f].self = flow[f].self
  BY <1>1, MovedFlow DEF FlowStep
<1>3. flow[f].self # 0 /\ flow[f].self <= made /\ password # 0 /\ flow[f].key <= chosen
  BY <1>0, <1>1 DEF FlowHolds
<1>4. IdentityTypeOK'
  <2>1. flow[f].self \in 0 .. made /\ raced' \in BOOLEAN /\ flow[f].key \in 0 .. chosen
    BY <1>0, <1>1, <1>3, BusyFlows, Ranges DEF Race
  <2>2. wrapped' \in [by : 0 .. chosen, of : 0 .. made]
    BY <1>1, <2>1
  <2>. QED
    BY <1>0, <1>1, <1>2, <2>1, <2>2 DEF IdentityTypeOK, accountVars
<1>5. FlowsInv'
  BY <1>1, <1>3, MovedFlowsHold DEF accountVars
<1>6. ASSUME Undisturbed' PROVE KeysInv'
  <2>1. KeysInv /\ \A g \in Flow : g # f => ~Writing(g)
    BY <1>1, <1>6, WritesAlone
  <2>2. wrapped = NoWrap /\ flow[f].self = publishedKeys /\ flow[f].key \in {0, password}
    BY <1>1, <1>3, <2>1 DEF KeysInv, FlowAgrees
  <2>3. wrapped' # NoWrap /\ wrapped'.of = publishedKeys' /\ wrapped'.by = flow[f].key
    BY <1>1, <1>3, <2>2 DEF NoWrap
  <2>4. FlowAgrees(f)'
    BY <1>1, <1>2, <2>2, <2>3 DEF FlowAgrees
  <2>5. ASSUME NEW g \in Flow, g # f PROVE FlowAgrees(g)'
    <3>. SUFFICES ASSUME Busy(g)' PROVE FlowAgrees(g)'
      BY DEF FlowAgrees
    <3>1. Busy(g) /\ flow'[g] = flow[g]
      BY <1>2, <2>5
    <3>2. ~At(g, "wrap") /\ ~At(g, "publicKeys") /\ ~At(g, "rewrap") /\ ~(At(g, "signIn") /\ flow[g].kind = "register")
      BY <2>1, <2>5 DEF Writing
    <3>3. flow[g].step \notin {"save", "change", "rewrap", "resave"}
      BY <2>1, <2>2, <3>1 DEF KeysInv, FlowAgrees
    <3>. QED
      BY <2>3, <3>1, <3>2, <3>3 DEF FlowAgrees, At
  <2>6. OneAt("wrap")' /\ OneAt("rewrap")'
    BY <1>1, <1>2, <2>1 DEF OneAt, At, KeysInv
  <2>7. CachesHold'
    BY <1>1, <2>1, <2>3 DEF KeysInv, CachesHold
  <2>8. WrapAgrees'
    BY <1>1, <1>3, <2>2, <2>3 DEF WrapAgrees, accountVars
  <2>. QED
    BY <2>4, <2>5, <2>6, <2>7, <2>8 DEF KeysInv
<1>. QED
  BY <1>4, <1>5, <1>6 DEF IdentityInv

LEMMA SaveKeeps == ASSUME IdentityInv, NEW f \in Flow, Save(f) PROVE IdentityInv'
<1>. USE DEF accountVars, keyVars, identityHistory
<1>0. /\ IdentityTypeOK /\ FlowHolds(f) /\ made \in Nat /\ made \in IdentityNo
      /\ Undisturbed => KeysInv
  BY Ranges DEF IdentityInv, FlowsInv, IdentityTypeOK
<1>1. /\ Busy(f) /\ flow[f].step \in {"save", "resave"}
      /\ cache' \in {cache, [cache EXCEPT ![flow[f].at] = flow[f].self]}
      /\ form' = form /\ password' = password /\ chosen' = chosen /\ publishedKeys' = publishedKeys /\ wrapped' = wrapped
      /\ made' = made /\ cut' = cut /\ orphaned' = orphaned /\ raced' = raced
  BY DEF Save, At
<1>2. /\ flow[f].key \in PasswordKey /\ flow[f].self \in IdentityNo /\ flow[f].self <= made
      /\ flow[f].at \in Browser /\ flow[f].self \in 0 .. made
  <2>1. /\ flow[f].key \in PasswordKey /\ flow[f].self \in IdentityNo /\ flow[f].self <= made
        /\ flow[f].at \in Browser
    BY <1>0, <1>1, BusyFlows DEF FlowHolds
  <2>2. flow[f].self \in Nat
    BY <1>0, <2>1, Ranges
  <2>. QED
    BY <1>0, <2>1, <2>2
<1>3. Undisturbed => flow[f].self = publishedKeys /\ wrapped # NoWrap
  BY <1>0, <1>1 DEF KeysInv, FlowAgrees
<1>4. cache' \in [Browser -> 0 .. made]
  BY <1>0, <1>1, <1>2 DEF IdentityTypeOK
<1>5. Undisturbed => CachesHold'
  BY <1>0, <1>1, <1>2, <1>3 DEF KeysInv, CachesHold, IdentityTypeOK
<1>6. ~At(f, "wrap") /\ ~At(f, "rewrap")
  BY <1>1 DEF At
<1>7. CASE End(f)
  BY <1>1, <1>4, <1>5, <1>6, <1>7, EndingKeeps
<1>8. CASE Recovered(f) # "done" /\ flow' = [flow EXCEPT ![f].step = "change", ![f].self = flow[f].self]
  <2>1. flow[f].kind = "change"
    BY <1>8 DEF Recovered
  <2>2. "change" \in FlowStep \ {"wrap", "rewrap", "register"} /\ "change" \in FlowStep
    BY DEF FlowStep
  <2>3. Moves(f, "change", flow[f].key, flow[f].self)
    BY <1>0, <1>1, <1>8, <2>2, StepAndSelfMoves
  <2>4. made' \in IdentityNo /\ made <= made' /\ flow[f].self <= made' /\ cache' \in [Browser -> 0 .. made']
    BY <1>0, <1>1, <1>2, <1>4
  <2>5. flow[f].step \notin {"wrap", "rewrap", "register"}
    BY <1>1
  <2>. QED
    BY <1>1, <1>2, <1>3, <1>5, <2>1, <2>2, <2>3, <2>4, <2>5, MovingKeeps
<1>. QED
  BY <1>7, <1>8, Zenon DEF Save, Proceed

LEMMA ChangeLoginKeyKeeps == ASSUME IdentityInv, NEW f \in Flow, ChangeLoginKey(f) PROVE IdentityInv'
<1>0. /\ IdentityTypeOK /\ FlowHolds(f) /\ chosen \in Nat /\ \A g \in Flow : FlowHolds(g)
      /\ made \in Nat
  BY Ranges DEF IdentityInv, FlowsInv
<1>1. /\ Busy(f) /\ flow[f].step = "change"
      /\ UNCHANGED <<form, chosen, keyVars, cache, cut, orphaned>>
  BY DEF ChangeLoginKey, At
<1>2. CASE End(f) /\ UNCHANGED <<password, raced>>
  <2>1. ~At(f, "wrap") /\ ~At(f, "rewrap")
    BY <1>1 DEF At
  <2>2. cache' \in [Browser -> 0 .. made] /\ (Undisturbed => CachesHold')
    BY <1>0, <1>1, CachesStay DEF keyVars
  <2>. QED
    BY <1>1, <1>2, <2>1, <2>2, EndingKeeps DEF keyVars
<1>3. CASE flow[f].key = password /\ password' = flow[f].new /\ Race(f) /\ Go(f, "rewrap")
  <2>1. /\ flow' \in [Flow -> Flows \cup {NoFlow}] /\ Busy(f)'
        /\ \A g \in Flow : g # f => flow'[g] = flow[g] /\ (Busy(g)' <=> Busy(g))
        /\ flow'[f].kind = flow[f].kind /\ flow'[f].new = flow[f].new /\ flow'[f].step = "rewrap"
        /\ flow'[f].key = flow[f].key /\ flow'[f].self = flow[f].self
    BY <1>1, <1>3, MovedFlow DEF FlowStep
  <2>2. flow[f].kind = "change" /\ flow[f].new # 0 /\ flow[f].new <= chosen /\ password # 0
    BY <1>0, <1>1 DEF FlowHolds
  <2>3. flow[f].new \in 0 .. chosen /\ raced' \in BOOLEAN
    <3>1. flow[f].new \in Nat
      BY <1>0, <1>1, BusyFlows, Ranges
    <3>2. raced' \in BOOLEAN
      BY <1>3 DEF Race
    <3>. QED
      BY <1>0, <2>2, <3>1, <3>2
  <2>4. IdentityTypeOK'
    BY <1>0, <1>1, <1>3, <2>1, <2>3 DEF IdentityTypeOK, keyVars
  <2>5. FlowsInv'
    BY <1>1, <1>3, <2>2, MovedFlowsHold DEF keyVars
  <2>6. ASSUME Undisturbed' PROVE KeysInv'
    <3>1. KeysInv /\ \A g \in Flow : g # f => ~Writing(g)
      BY <1>1, <1>3, <2>6, WritesAlone
    <3>2. flow[f].self = publishedKeys /\ wrapped # NoWrap
      BY <1>1, <3>1 DEF KeysInv, FlowAgrees
    <3>3. FlowAgrees(f)'
      BY <1>1, <1>3, <2>1, <3>2 DEF FlowAgrees, keyVars
    <3>4. ASSUME NEW g \in Flow, g # f PROVE FlowAgrees(g)' /\ ~At(g, "wrap") /\ ~At(g, "rewrap")
      <4>1. ~At(g, "wrap") /\ ~At(g, "rewrap")
        BY <3>1, <3>4 DEF Writing
      <4>. QED
        BY <1>1, <2>1, <3>1, <3>2, <3>4, <4>1 DEF FlowAgrees, KeysInv, keyVars, At
    <3>5. OneAt("wrap")' /\ OneAt("rewrap")'
      BY <2>1, <3>4 DEF OneAt, At
    <3>6. CachesHold'
      BY <1>1, <3>1 DEF KeysInv, CachesHold, keyVars
    <3>7. At(f, "rewrap")'
      BY <2>1 DEF At
    <3>8. WrapAgrees'
      BY <1>1, <3>1, <3>2, <3>7 DEF KeysInv, WrapAgrees, keyVars
    <3>. QED
      BY <3>3, <3>4, <3>5, <3>6, <3>8 DEF KeysInv
  <2>. QED
    BY <2>4, <2>5, <2>6 DEF IdentityInv
<1>. QED
  BY <1>2, <1>3 DEF ChangeLoginKey

LEMMA RewrapKeeps == ASSUME IdentityInv, NEW f \in Flow, Rewrap(f) PROVE IdentityInv'
<1>0. /\ IdentityTypeOK /\ FlowHolds(f) /\ \A g \in Flow : FlowHolds(g)
  BY DEF IdentityInv, FlowsInv
<1>1. /\ Busy(f) /\ flow[f].step = "rewrap" /\ wrapped' = [by |-> flow[f].new, of |-> flow[f].self]
      /\ cut' = FALSE /\ Race(f) /\ Go(f, "resave")
      /\ UNCHANGED <<form, accountVars, publishedKeys, made, cache, orphaned>>
  BY DEF Rewrap, At
<1>2. /\ flow' \in [Flow -> Flows \cup {NoFlow}] /\ Busy(f)'
      /\ \A g \in Flow : g # f => flow'[g] = flow[g] /\ (Busy(g)' <=> Busy(g))
      /\ flow'[f].kind = flow[f].kind /\ flow'[f].new = flow[f].new /\ flow'[f].step = "resave"
      /\ flow'[f].key = flow[f].key /\ flow'[f].self = flow[f].self
  BY <1>1, MovedFlow DEF FlowStep
<1>3. flow[f].kind = "change" /\ flow[f].new # 0 /\ flow[f].new <= chosen /\ flow[f].self <= made /\ password # 0
  BY <1>0, <1>1 DEF FlowHolds
<1>4. IdentityTypeOK'
  <2>1. flow[f].self \in 0 .. made /\ raced' \in BOOLEAN /\ flow[f].new \in 0 .. chosen
    BY <1>0, <1>1, <1>3, BusyFlows, Ranges DEF Race
  <2>2. wrapped' \in [by : 0 .. chosen, of : 0 .. made]
    BY <1>1, <2>1
  <2>. QED
    BY <1>0, <1>1, <1>2, <2>1, <2>2 DEF IdentityTypeOK, accountVars
<1>5. FlowsInv'
  BY <1>1, <1>3, MovedFlowsHold DEF accountVars
<1>6. ASSUME Undisturbed' PROVE KeysInv'
  <2>1. KeysInv /\ \A g \in Flow : g # f => ~Writing(g)
    BY <1>1, <1>6, WritesAlone
  <2>2. wrapped # NoWrap /\ flow[f].self = publishedKeys /\ flow[f].new = password /\ publishedKeys # 0
    BY <1>1, <2>1 DEF KeysInv, FlowAgrees, WrapAgrees
  <2>3. wrapped' # NoWrap /\ wrapped'.of = publishedKeys' /\ wrapped'.by = password' /\ publishedKeys' # 0
    BY <1>1, <2>2 DEF NoWrap, accountVars
  <2>4. FlowAgrees(f)'
    BY <1>1, <1>2, <2>2, <2>3 DEF FlowAgrees
  <2>5. ASSUME NEW g \in Flow, g # f PROVE FlowAgrees(g)' /\ ~At(g, "wrap") /\ ~At(g, "rewrap")
    <3>1. ~At(g, "wrap") /\ ~At(g, "rewrap")
      BY <2>1, <2>5 DEF Writing
    <3>. QED
      BY <1>1, <1>2, <2>1, <2>2, <2>3, <2>5, <3>1 DEF FlowAgrees, KeysInv, accountVars, At
  <2>6. OneAt("wrap")' /\ OneAt("rewrap")'
    BY <1>2, <2>5 DEF OneAt, At
  <2>7. CachesHold'
    BY <1>1, <2>1, <2>3 DEF KeysInv, CachesHold
  <2>8. WrapAgrees'
    BY <2>3 DEF WrapAgrees
  <2>. QED
    BY <2>4, <2>5, <2>6, <2>7, <2>8 DEF KeysInv
<1>. QED
  BY <1>4, <1>5, <1>6 DEF IdentityInv

LEMMA StopKeeps == ASSUME IdentityInv, NEW f \in Flow, Stop(f) PROVE IdentityInv'
<1>. USE DEF accountVars, keyVars
<1>0. IdentityTypeOK
  BY DEF IdentityInv
<1>1. /\ Busy(f) /\ End(f) /\ cut' = (cut \/ At(f, "rewrap")) /\ orphaned' = (orphaned \/ At(f, "wrap"))
      /\ UNCHANGED <<form, accountVars, keyVars, cache, raced>>
  BY DEF Stop
<1>2. /\ flow' \in [Flow -> Flows \cup {NoFlow}]
      /\ \A g \in Flow : g # f => flow'[g] = flow[g]
      /\ ~Busy(f)'
  BY <1>0, <1>1, Ending DEF Busy
<1>3. \A g \in Flow : g # f => (Busy(g)' <=> Busy(g))
  BY <1>2 DEF Busy
<1>4. IdentityTypeOK'
  <2>1. cut' \in BOOLEAN /\ orphaned' \in BOOLEAN
    BY <1>1, Zenon
  <2>. QED
    BY <1>0, <1>1, <1>2, <2>1 DEF IdentityTypeOK
<1>5. FlowsInv'
  <2>1. \A g \in Flow : FlowHolds(g)'
    BY <1>1, <1>2, <1>3 DEF IdentityInv, FlowsInv, FlowHolds
  <2>2. OneRegistration'
    BY <1>2, <1>3 DEF IdentityInv, FlowsInv, OneRegistration, Registers
  <2>3. NoKeysYet'
    BY <1>1 DEF IdentityInv, FlowsInv, NoKeysYet
  <2>. QED
    BY <2>1, <2>2, <2>3 DEF FlowsInv
<1>6. ASSUME Undisturbed' PROVE KeysInv'
  <2>1. KeysInv /\ ~At(f, "wrap")
    BY <1>1, <1>6 DEF Undisturbed, IdentityInv
  <2>2. \A g \in Flow : FlowAgrees(g)'
    BY <1>1, <1>2, <1>3, <2>1 DEF KeysInv, FlowAgrees
  <2>3. OneAt("wrap")' /\ OneAt("rewrap")'
    BY <1>2, <1>3, <2>1 DEF KeysInv, OneAt, At
  <2>4. CachesHold'
    BY <1>1, <2>1 DEF KeysInv, CachesHold
  <2>5. WrapAgrees'
    <3>1. wrapped # NoWrap => wrapped.of = publishedKeys /\ publishedKeys # 0
      BY <2>1 DEF KeysInv, WrapAgrees
    <3>2. publishedKeys # 0 /\ wrapped = NoWrap => \E g \in Flow : At(g, "wrap")'
      BY <1>2, <1>3, <2>1 DEF KeysInv, WrapAgrees, At
    <3>3. wrapped.by # 0 /\ ~cut' => wrapped.by = password \/ \E g \in Flow : At(g, "rewrap")'
      BY <1>1, <1>2, <1>3, <2>1 DEF KeysInv, WrapAgrees, At
    <3>. QED
      BY <1>1, <3>1, <3>2, <3>3 DEF WrapAgrees
  <2>. QED
    BY <2>1, <2>2, <2>3, <2>4, <2>5 DEF KeysInv
<1>. QED
  BY <1>4, <1>5, <1>6 DEF IdentityInv

LEMMA IdentityInvInitial == IdentityInit => IdentityInv
<1>. SUFFICES ASSUME IdentityInit PROVE IdentityInv
  OBVIOUS
<1>. USE DEF IdentityInit
<1>1. IdentityTypeOK
  <2>1. form \in [step : 1 .. 2, strong : BOOLEAN, matching : BOOLEAN, confirmed : BOOLEAN]
    <3>1. \A b \in BOOLEAN : [step |-> 1, strong |-> b, matching |-> b, confirmed |-> b]
                               \in [step : 1 .. 2, strong : BOOLEAN, matching : BOOLEAN, confirmed : BOOLEAN]
      OBVIOUS
    <3>. QED
      BY <3>1, Zenon DEF Blank
  <2>2. wrapped \in [by : 0 .. chosen, of : 0 .. made]
    BY DEF NoWrap
  <2>3. cut \in BOOLEAN /\ orphaned \in BOOLEAN /\ raced \in BOOLEAN
    OBVIOUS
  <2>4. password \in 0 .. chosen /\ chosen \in PasswordKey /\ publishedKeys \in 0 .. made /\ made \in IdentityNo
    BY IdentityAssumption DEF PasswordKey, IdentityNo
  <2>5. cache \in [Browser -> 0 .. made] /\ flow \in [Flow -> Flows \cup {NoFlow}]
    OBVIOUS
  <2>. QED
    BY <2>1, <2>2, <2>3, <2>4, <2>5 DEF IdentityTypeOK
<1>2. \A f \in Flow : ~Busy(f)
  BY DEF Busy
<1>3. FlowsInv
  BY <1>2 DEF FlowsInv, FlowHolds, OneRegistration, Registers, NoKeysYet
<1>4. KeysInv
  BY <1>2 DEF KeysInv, FlowAgrees, OneAt, At, CachesHold, WrapAgrees, NoWrap
<1>. QED
  BY <1>1, <1>3, <1>4 DEF IdentityInv

LEMMA IdentityInvInductive == IdentityInv /\ [IdentityNext]_identityVars => IdentityInv'
<1>. SUFFICES ASSUME IdentityInv, [IdentityNext]_identityVars PROVE IdentityInv'
  OBVIOUS
<1>1. CASE IdentityNext
  BY <1>1, FormKeeps, StartsKeep, CreateAccountKeeps, FlowsGoOn, SetPublicKeysKeeps, SetWrappedKeeps, SaveKeeps,
     ChangeLoginKeyKeeps, RewrapKeeps, StopKeeps, ClearStorageKeeps, Zenon DEF IdentityNext
<1>2. CASE UNCHANGED identityVars
  <2>1. cache' \in [Browser -> 0 .. made] /\ (Undisturbed => CachesHold')
    BY <1>2, CachesStay, Ranges DEF identityVars, keyVars, IdentityInv
  <2>. QED
    BY <1>2, <2>1, FlowsStay DEF identityVars, IdentityInv, IdentityTypeOK
<1>. QED
  BY <1>1, <1>2

THEOREM IdentityInvariant == IdentitySpec => []IdentityInv
<1>. QED
  BY IdentityInvInitial, IdentityInvInductive, PTL DEF IdentitySpec

-----------------------------------------------------------------------------
(* Identity: the theorems.                                                 *)

(* Unless a change of password was cut short, or writers crossed, the      *)
(* password of the account opens its wrapped keys, and they are those of   *)
(* the identity the others seal to (changePassword, recoverIdentityOnLogin *)
(* and publishIdentity in auth).                                           *)
THEOREM VaultStaysOpen == IdentitySpec => []VaultOpens
<1>1. ASSUME IdentityInv PROVE VaultOpens
  <2>. SUFFICES ASSUME wrapped.by # 0, ~cut, Undisturbed, ~\E f \in Flow : Writing(f)
                PROVE  wrapped = [by |-> password, of |-> publishedKeys]
    BY DEF VaultOpens, Undisturbed
  <2>1. WrapAgrees /\ wrapped \in [by : 0 .. chosen, of : 0 .. made]
    BY <1>1 DEF IdentityInv, KeysInv, IdentityTypeOK
  <2>2. wrapped # NoWrap
    BY DEF NoWrap
  <2>3. wrapped.by = password /\ wrapped.of = publishedKeys
    BY <2>1, <2>2 DEF WrapAgrees, Writing
  <2>. QED
    BY <2>1, <2>3
<1>. QED
  BY <1>1, IdentityInvariant, PTL

(* No browser caches another identity than the published one, unless two   *)
(* publications crossed or one was abandoned half way.                     *)
THEOREM CachesStayTrue == IdentitySpec => []CachesAgree
<1>1. IdentityInv => CachesAgree
  BY DEF IdentityInv, Undisturbed, KeysInv, CachesHold, CachesAgree
<1>. QED
  BY <1>1, IdentityInvariant, PTL

(* Once published an identity stays that of the account, through logins,   *)
(* unlocks and changes of password in every order, unless a publication    *)
(* was abandoned between its two halves or crossed another.                *)
THEOREM IdentityIsOne == IdentitySpec => OneIdentity
<1>1. ASSUME IdentityInv, [IdentityNext]_identityVars
      PROVE  [publishedKeys # 0 /\ ~orphaned /\ ~raced' => publishedKeys' = publishedKeys]_identityVars
  <2>. SUFFICES ASSUME IdentityNext, publishedKeys # 0, ~orphaned, ~raced', publishedKeys' # publishedKeys
                PROVE  FALSE
    BY <1>1
  <2>1. PICK f \in Flow : SetPublicKeys(f)
    BY Zenon DEF IdentityNext, TypePassword, ContinueToWarning, TickOrGoBack, OpenVault, StartLogin, StartChange, StartVerify,
       CreateAccount, DeriveKey, SignIn, LoadCached, FetchWrapped, SetWrapped, Save, ChangeLoginKey, Rewrap,
       CheckUnlock, Told, Stop, ClearStorage, accountVars, keyVars, identityHistory
  <2>2. Race(f) /\ orphaned' = orphaned /\ Busy(f) /\ flow[f].step = "publicKeys"
    BY <2>1 DEF SetPublicKeys, At
  <2>3. KeysInv /\ \A g \in Flow : g # f => ~Writing(g)
    BY <1>1, <2>2, WritesAlone DEF Undisturbed
  <2>4. wrapped = NoWrap
    BY <2>2, <2>3 DEF KeysInv, FlowAgrees
  <2>5. PICK g \in Flow : At(g, "wrap")
    BY <2>3, <2>4 DEF KeysInv, WrapAgrees
  <2>6. g # f /\ Writing(g)
    BY <2>2, <2>5 DEF At, Writing
  <2>. QED
    BY <2>3, <2>6
<1>. QED
  BY <1>1, IdentityInvariant, PTL DEF IdentitySpec, OneIdentity

=============================================================================
