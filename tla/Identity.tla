------------------------------ MODULE Identity ------------------------------
(***************************************************************************)
(* The identity keys of one account: the password and salt the server      *)
(* checks, the public keys others seal to, the private keys wrapped under  *)
(* a key derived from the password, and the copy each browser caches.      *)
(*                                                                         *)
(* A password is a number, its salt goes with it, and a key derived from   *)
(* the password and salt k is k, or 0 when the password typed was not k's. *)
(* An identity is a number, in the order of generation. Every request of   *)
(* a flow is a step: between two of them the tab may close, the request or *)
(* its answer may be lost, and other flows run.                            *)
(***************************************************************************)
EXTENDS Naturals, FiniteSets

CONSTANTS
  Browser,      \* the user's browsers: an IndexedDB each
  Flow,         \* bound: registrations, logins, changes and unlocks under way
  MaxPassword,  \* bound: passwords the account ever has
  MaxIdentity   \* bound: identities ever generated

ASSUME IdentityAssumption == MaxPassword \in Nat /\ MaxIdentity \in Nat

VARIABLES
  form,       \* RegisterPage: its step, and what was typed and ticked
  password,   \* users.login_key_hash and salt_mk; 0: no account
  chosen,     \* the passwords typed as new so far
  publishedKeys,  \* the identity of the public keys; 0: none
  wrapped,    \* the wrapped private keys: whose, and under which key
  made,       \* the identities generated so far
  cache,      \* the identity a browser has in IndexedDB; 0: none
  flow,       \* what is under way
  cut,        \* history: a password change stopped before wrapping again
  orphaned,   \* history: a publication stopped between its two halves
  raced       \* history: a flow wrote what another was about to write

accountVars == <<password, chosen>>
keyVars == <<publishedKeys, wrapped, made>>
identityHistory == <<cut, orphaned, raced>>
identityVars == <<form, accountVars, keyVars, cache, flow, identityHistory>>

PasswordKey == 0 .. MaxPassword
IdentityNo == 0 .. MaxIdentity
Blank == [step |-> 1, strong |-> FALSE, matching |-> FALSE, confirmed |-> FALSE]
NoWrap == [by |-> 0, of |-> 0]
NoFlow == [kind |-> "none"]
Busy(f) == flow[f] # NoFlow

(* The steps of a flow, named for the request or the read that ends them.  *)
FlowStep == {"register", "signIn", "salt", "cached", "fetch", "publicKeys", "wrap", "save", "change", "rewrap", "resave", "right", "wrong"}
Flows ==
  [kind  : {"register", "login", "change", "verify"},
   at    : Browser,
   step  : FlowStep,
   typed : PasswordKey,     \* the password typed; 0: not the account's
   key   : PasswordKey,     \* the keys derived from it
   new   : PasswordKey,     \* the password a change moves to
   self  : IdentityNo]  \* the identity it holds

IdentityTypeOK ==
  /\ form \in [step : 1 .. 2, strong : BOOLEAN, matching : BOOLEAN, confirmed : BOOLEAN]
  /\ password \in 0 .. chosen /\ chosen \in PasswordKey
  /\ publishedKeys \in 0 .. made /\ made \in IdentityNo
  /\ wrapped \in [by : 0 .. chosen, of : 0 .. made]
  /\ cache \in [Browser -> 0 .. made]
  /\ flow \in [Flow -> Flows \cup {NoFlow}]
  /\ cut \in BOOLEAN /\ orphaned \in BOOLEAN /\ raced \in BOOLEAN

IdentityInit ==
  /\ form = Blank
  /\ password = 0 /\ chosen = 0
  /\ publishedKeys = 0 /\ wrapped = NoWrap /\ made = 0
  /\ cache = [d \in Browser |-> 0]
  /\ flow = [f \in Flow |-> NoFlow]
  /\ cut = FALSE /\ orphaned = FALSE /\ raced = FALSE

At(f, s) == Busy(f) /\ flow[f].step = s
Go(f, s) == flow' = [flow EXCEPT ![f].step = s]

End(f) == flow' = [flow EXCEPT ![f] = NoFlow]
Start(f, kind, d, s, p, n) ==
  /\ ~Busy(f)
  /\ flow' = [flow EXCEPT ![f] = [kind |-> kind, at |-> d, step |-> s, typed |-> p, key |-> p, new |-> n, self |-> 0]]

(* The flows that are bound to overwrite the published or wrapped keys.    *)
Writing(f) ==
  \/ \E s \in {"publicKeys", "wrap", "rewrap"} : At(f, s)
  \/ At(f, "signIn") /\ flow[f].kind = "register"
Race(f) == raced' = (raced \/ \E g \in Flow \ {f} : Writing(g))

-----------------------------------------------------------------------------
(* The two steps of RegisterPage. Typing is only possible in the first.    *)

TypePassword ==
  /\ form.step = 1 /\ password = 0
  /\ \E strong, matching \in BOOLEAN : form' = [form EXCEPT !.strong = strong, !.matching = matching]
  /\ UNCHANGED <<accountVars, keyVars, cache, flow, identityHistory>>

CanContinue == form.strong /\ form.matching

ContinueToWarning ==
  /\ form.step = 1 /\ password = 0 /\ CanContinue
  /\ form' = [form EXCEPT !.step = 2]
  /\ UNCHANGED <<accountVars, keyVars, cache, flow, identityHistory>>

TickOrGoBack ==
  /\ form.step = 2 /\ password = 0
  /\ form' \in {[form EXCEPT !.confirmed = ~@], [form EXCEPT !.step = 1]}
  /\ UNCHANGED <<accountVars, keyVars, cache, flow, identityHistory>>

OpenVault(f, d) ==
  /\ form.step = 2 /\ form.confirmed /\ password = 0 /\ chosen < MaxPassword
  /\ \A g \in Flow : Busy(g) => flow[g].kind # "register"
  /\ Start(f, "register", d, "register", chosen + 1, 0)
  /\ chosen' = chosen + 1
  /\ UNCHANGED <<form, password, keyVars, cache, identityHistory>>

(* apiRegister, whose salt and password the tab chose.                     *)
CreateAccount(f) ==
  /\ At(f, "register")
  /\ password' = flow[f].key
  /\ form' = Blank
  /\ Go(f, "signIn")
  /\ UNCHANGED <<chosen, keyVars, cache, identityHistory>>

-----------------------------------------------------------------------------
(* login, changePassword and verifyPassword up to the derived key. A user  *)
(* types the password of the moment, or another. The session the last two  *)
(* need may date from a login whose recovery was cut short.                *)

StartLogin(f, d) ==
  /\ password # 0
  /\ \E p \in {0, password} : Start(f, "login", d, "salt", p, 0)
  /\ UNCHANGED <<form, accountVars, keyVars, cache, identityHistory>>

StartChange(f, d) ==
  /\ password # 0 /\ chosen < MaxPassword
  /\ \E p \in {0, password} : Start(f, "change", d, "salt", p, chosen + 1)
  /\ chosen' = chosen + 1
  /\ UNCHANGED <<form, password, keyVars, cache, identityHistory>>

StartVerify(f, d) ==
  /\ password # 0
  /\ \E p \in {0, password} : Start(f, "verify", d, "salt", p, 0)
  /\ UNCHANGED <<form, accountVars, keyVars, cache, identityHistory>>

AfterSalt == [login |-> "signIn", change |-> "cached", verify |-> "fetch"]

(* getSalt and the derivation: the salt of another password spoils it.     *)
DeriveKey(f) ==
  /\ At(f, "salt")
  /\ flow' = [flow EXCEPT ![f].step = AfterSalt[flow[f].kind],
                          ![f].key = IF flow[f].typed = password THEN password ELSE 0]
  /\ UNCHANGED <<form, accountVars, keyVars, cache, identityHistory>>

(* Mutant: it is cached as soon as it is generated.                        *)
SignInCaching(f) ==
  /\ At(f, "signIn")
  /\ IF flow[f].key # password THEN End(f) /\ UNCHANGED <<made, cache>>
     ELSE IF flow[f].kind = "login" THEN Go(f, "cached") /\ UNCHANGED <<made, cache>>
     ELSE /\ made < MaxIdentity
          /\ made' = made + 1
          /\ cache' = [cache EXCEPT ![flow[f].at] = made + 1]
          /\ flow' = [flow EXCEPT ![f].step = "publicKeys", ![f].self = made + 1]
  /\ UNCHANGED <<form, accountVars, publishedKeys, wrapped, identityHistory>>

(* apiLogin checks the login key, and the session begins.                  *)
SignIn(f) ==
  /\ At(f, "signIn")
  /\ IF flow[f].key # password THEN End(f) /\ UNCHANGED made
     ELSE IF flow[f].kind = "login" THEN Go(f, "cached") /\ UNCHANGED made
     ELSE /\ made < MaxIdentity
          /\ made' = made + 1
          /\ flow' = [flow EXCEPT ![f].step = "publicKeys", ![f].self = made + 1]
  /\ UNCHANGED <<form, accountVars, publishedKeys, wrapped, cache, identityHistory>>

-----------------------------------------------------------------------------
(* recoverIdentityOnLogin, and publishIdentity.                            *)

Recovered(f) == IF flow[f].kind = "change" THEN "change" ELSE "done"
Proceed(f, who) ==
  IF Recovered(f) = "done" THEN End(f)
  ELSE flow' = [flow EXCEPT ![f].step = "change", ![f].self = who]

LoadCached(f) ==
  /\ At(f, "cached")
  /\ IF cache[flow[f].at] # 0 THEN Proceed(f, cache[flow[f].at]) ELSE Go(f, "fetch")
  /\ UNCHANGED <<form, accountVars, keyVars, cache, identityHistory>>

(* The wrapped keys of the server, opened, or new ones when there are none. *)
Opens(f) == wrapped.by = flow[f].key /\ flow[f].key # 0

(* Mutant: any failure to open them is healed with new ones.               *)
FetchHealingAnything(f) ==
  /\ At(f, "fetch") /\ flow[f].kind # "verify"
  /\ \/ /\ Opens(f)
        /\ flow' = [flow EXCEPT ![f].step = "save", ![f].self = wrapped.of]
        /\ UNCHANGED made
     \/ /\ ~Opens(f)
        /\ made < MaxIdentity
        /\ made' = made + 1
        /\ flow' = [flow EXCEPT ![f].step = "publicKeys", ![f].self = made + 1]
  /\ UNCHANGED <<form, accountVars, publishedKeys, wrapped, cache, identityHistory>>

FetchWrapped(f) ==
  /\ At(f, "fetch") /\ flow[f].kind # "verify"
  /\ \/ /\ Opens(f)
        /\ flow' = [flow EXCEPT ![f].step = "save", ![f].self = wrapped.of]
        /\ UNCHANGED made
     \/ /\ wrapped # NoWrap /\ ~Opens(f)
        /\ End(f)
        /\ UNCHANGED made
     \/ /\ wrapped = NoWrap
        /\ made < MaxIdentity
        /\ made' = made + 1
        /\ flow' = [flow EXCEPT ![f].step = "publicKeys", ![f].self = made + 1]
  /\ UNCHANGED <<form, accountVars, publishedKeys, wrapped, cache, identityHistory>>

SetPublicKeys(f) ==
  /\ At(f, "publicKeys")
  /\ publishedKeys' = flow[f].self
  /\ Race(f)
  /\ Go(f, "wrap")
  /\ UNCHANGED <<form, accountVars, wrapped, made, cache, cut, orphaned>>

SetWrapped(f) ==
  /\ At(f, "wrap")
  /\ wrapped' = [by |-> flow[f].key, of |-> flow[f].self]
  /\ Race(f)
  /\ Go(f, "save")
  /\ UNCHANGED <<form, accountVars, publishedKeys, made, cache, cut, orphaned>>

(* saveIdentityKeyPair swallows a storage failure.                         *)
Save(f) ==
  /\ At(f, "save") \/ At(f, "resave")
  /\ cache' \in {cache, [cache EXCEPT ![flow[f].at] = flow[f].self]}
  /\ IF At(f, "save") THEN Proceed(f, flow[f].self) ELSE End(f)
  /\ UNCHANGED <<form, accountVars, keyVars, identityHistory>>

-----------------------------------------------------------------------------
(* changePassword once it holds the identity.                              *)

ChangeLoginKey(f) ==
  /\ At(f, "change")
  /\ \/ /\ flow[f].key # password
        /\ End(f)
        /\ UNCHANGED <<password, raced>>
     \/ /\ flow[f].key = password
        /\ password' = flow[f].new
        /\ Race(f)
        /\ Go(f, "rewrap")
  /\ UNCHANGED <<form, chosen, keyVars, cache, cut, orphaned>>

(* Mutant: they are sealed again under the key of the old password.        *)
RewrapUnderOldKey(f) ==
  /\ At(f, "rewrap")
  /\ wrapped' = [by |-> flow[f].key, of |-> flow[f].self]
  /\ cut' = FALSE
  /\ Race(f)
  /\ Go(f, "resave")
  /\ UNCHANGED <<form, accountVars, publishedKeys, made, cache, orphaned>>

Rewrap(f) ==
  /\ At(f, "rewrap")
  /\ wrapped' = [by |-> flow[f].new, of |-> flow[f].self]
  /\ cut' = FALSE
  /\ Race(f)
  /\ Go(f, "resave")
  /\ UNCHANGED <<form, accountVars, publishedKeys, made, cache, orphaned>>

-----------------------------------------------------------------------------
(* verifyPassword asks the server, never the cache.                        *)

CheckUnlock(f) ==
  /\ At(f, "fetch") /\ flow[f].kind = "verify"
  /\ Go(f, IF Opens(f) THEN "right" ELSE "wrong")
  /\ UNCHANGED <<form, accountVars, keyVars, cache, identityHistory>>

Told(f) ==
  /\ At(f, "right") \/ At(f, "wrong")
  /\ End(f)
  /\ UNCHANGED <<form, accountVars, keyVars, cache, identityHistory>>

(* A request or its answer is lost, or the tab is closed.                  *)
Stop(f) ==
  /\ Busy(f)
  /\ cut' = (cut \/ At(f, "rewrap"))
  /\ orphaned' = (orphaned \/ At(f, "wrap"))
  /\ End(f)
  /\ UNCHANGED <<form, accountVars, keyVars, cache, raced>>

ClearStorage(d) ==
  /\ cache[d] # 0
  /\ cache' = [cache EXCEPT ![d] = 0]
  /\ UNCHANGED <<form, accountVars, keyVars, flow, identityHistory>>

IdentityNext ==
  \/ TypePassword \/ ContinueToWarning \/ TickOrGoBack
  \/ \E f \in Flow, d \in Browser : OpenVault(f, d) \/ StartLogin(f, d) \/ StartChange(f, d) \/ StartVerify(f, d)
  \/ \E f \in Flow : \/ CreateAccount(f) \/ DeriveKey(f) \/ SignIn(f) \/ LoadCached(f) \/ FetchWrapped(f)
                     \/ SetPublicKeys(f) \/ SetWrapped(f) \/ Save(f) \/ ChangeLoginKey(f) \/ Rewrap(f)
                     \/ CheckUnlock(f) \/ Told(f) \/ Stop(f)
  \/ \E d \in Browser : ClearStorage(d)

IdentitySpec == IdentityInit /\ [][IdentityNext]_identityVars

-----------------------------------------------------------------------------
(* Unless a password change was cut short, or crossed another writer, the  *)
(* password of the account opens the wrapped keys, and they are those of   *)
(* the published identity (changePassword re-wraps the same keys after the *)
(* server took the new password).                                          *)
VaultOpens ==
  (wrapped.by # 0 /\ ~cut /\ ~raced /\ ~orphaned /\ ~\E f \in Flow : Writing(f)) =>
    wrapped = [by |-> password, of |-> publishedKeys]

(* A browser never caches an identity other than the one others seal to,   *)
(* unless two publications crossed or one was abandoned half way           *)
(* (recoverIdentityOnLogin prefers the cache to the server for ever).      *)
CachesAgree ==
  (~raced /\ ~orphaned) => \A d \in Browser : cache[d] \in {0, publishedKeys}

(* "Recovers this account's single true identity": once published, the     *)
(* identity of an account stays, unless a publication was abandoned        *)
(* between its two halves or crossed another.                              *)
OneIdentity ==
  [][publishedKeys # 0 /\ ~orphaned /\ ~raced' => publishedKeys' = publishedKeys]_identityVars

=============================================================================
