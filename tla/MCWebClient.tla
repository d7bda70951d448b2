----------------------------- MODULE MCWebClient -----------------------------
(***************************************************************************)
(* Small instances of the components of the browser client, side by side.  *)
(* They share no state in the model, so their interleavings say no more    *)
(* than each of them alone: a behaviour picks one component and takes its  *)
(* steps only.                                                             *)
(***************************************************************************)
EXTENDS Sessions, Identity, AutoLock, KeyTrust, DocumentPage, History, Vault, TLC

CONSTANT desk  \* the one device whose tabs share a cookie

VARIABLE part  \* the component that moves

webVars == <<sessionsVars, identityVars, lockVars, keyTrustVars,
             documentPageVars, historyVars, vaultVars>>

OneDesk == [t \in BrowserTab |-> desk]

Init ==
  /\ SessionsInit /\ IdentityInit /\ AutoLockInit
  /\ KeyTrustInit /\ DocumentPageInit /\ HistoryInit /\ VaultInit
  /\ part \in {"sessions", "identity", "autoLock", "keyTrust", "documentPage", "history", "vault"}
  /\ part # "autoLock" => ~enabled
  /\ part # "history" => last = 0
  /\ part # "vault" => stored.place = "nowhere"

Next ==
  \/ /\ part = "sessions" /\ SessionsNext
     /\ UNCHANGED <<identityVars, lockVars, keyTrustVars, documentPageVars, historyVars, vaultVars, part>>
  \/ /\ part = "identity" /\ IdentityNext
     /\ UNCHANGED <<sessionsVars, lockVars, keyTrustVars, documentPageVars, historyVars, vaultVars, part>>
  \/ /\ part = "autoLock" /\ AutoLockNext
     /\ UNCHANGED <<sessionsVars, identityVars, keyTrustVars, documentPageVars, historyVars, vaultVars, part>>
  \/ /\ part = "keyTrust" /\ KeyTrustNext
     /\ UNCHANGED <<sessionsVars, identityVars, lockVars, documentPageVars, historyVars, vaultVars, part>>
  \/ /\ part = "documentPage" /\ DocumentPageNext
     /\ UNCHANGED <<sessionsVars, identityVars, lockVars, keyTrustVars, historyVars, vaultVars, part>>
  \/ /\ part = "history" /\ HistoryNext
     /\ UNCHANGED <<sessionsVars, identityVars, lockVars, keyTrustVars, documentPageVars, vaultVars, part>>
  \/ /\ part = "vault" /\ VaultNext
     /\ UNCHANGED <<sessionsVars, identityVars, lockVars, keyTrustVars, documentPageVars, historyVars, part>>

Spec == Init /\ [][Next]_<<webVars, part>>

Symmetry == Permutations(BrowserTab) \cup Permutations(Doc)

(* Every variable of the client keeps its type.                            *)
ClientTypeOK ==
  /\ SessionsTypeOK /\ IdentityTypeOK /\ AutoLockTypeOK
  /\ KeyTrustTypeOK /\ DocumentPageTypeOK /\ HistoryTypeOK /\ VaultTypeOK
=============================================================================
