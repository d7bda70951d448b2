------------------------------ MODULE KeyTrust ------------------------------
(***************************************************************************)
(* The keys a browser trusts for other users, and everything that seals a  *)
(* document's key to them: the share dialog (invitations, removals, access *)
(* for pending members), the page's own reconciliation with its key-change *)
(* warning, and the resolver of authors' signing keys.                     *)
(*                                                                         *)
(* A user's keys are numbered in the order they are published. A looked-up *)
(* key is any that was current while the lookup was under way; the answer  *)
(* and what the code does with it before its next await are one step. All  *)
(* tasks of the tab run interleaved.                                       *)
(***************************************************************************)
EXTENDS Integers, FiniteSets, Sequences

CONSTANTS
  Person,    \* the other users
  Nobody,
  Fickle,    \* those whose keys change
  Author,    \* those whose updates the tab receives
  MaxKeys,   \* bound: keys a user publishes
  MaxTasks   \* bound: tasks under way at a time

ASSUME KeyTrustAssumption ==
  /\ IsFiniteSet(Person) /\ Nobody \notin Person /\ Fickle \cup Author \subseteq Person
  /\ MaxKeys \in Nat \ {0} /\ MaxTasks \in Nat

VARIABLES
  published,      \* the key each user has now
  known,          \* localStorage: the key trusted for each; 0: never seen
  tasks,          \* asynchronous flows under way
  sharing,        \* whether the share dialog is open
  email,          \* the address its form holds
  keyChange,      \* the warnings of its invite and remove flows
  removeKeyChange,
  removeTarget,
  keyConflicts,   \* the page's warnings; the first is shown in a modal
  closing,        \* that modal: open, fading out, or faded out and still there
  sessionCache,   \* resolved author keys: 0: not to be trusted; -1: none yet
  resolving,      \* the lookups of authors' keys
  accepted        \* history: the keys met first, or shown in a warning and accepted

keyTrustVars ==
  <<published, known, tasks, sharing, email, keyChange, removeKeyChange,
    removeTarget, keyConflicts, closing, sessionCache, resolving, accepted>>
dialogVars == <<email, keyChange, removeKeyChange, removeTarget>>
pageConflictVars == <<keyConflicts, closing>>
authorVars == <<sessionCache, resolving>>

PublicKey == 1 .. MaxKeys
Conflict == [user : Person, key : PublicKey]
NoConflict == [user |-> Nobody, key |-> 0]
Task == [flow : {"invite", "remove", "grant", "page"}, user : Person, todo : SUBSET Person,
         from : PublicKey, wraps : SUBSET (Person \X PublicKey), stage : {"lookup", "post"}, live : BOOLEAN]

KeyTrustTypeOK ==
  /\ published \in [Person -> PublicKey] /\ known \in [Person -> 0 .. MaxKeys]
  /\ tasks \subseteq Task
  /\ sharing \in BOOLEAN /\ email \in Person \cup {Nobody}
  /\ keyChange \in Conflict \cup {NoConflict} /\ removeKeyChange \in Conflict \cup {NoConflict}
  /\ removeTarget \in Person \cup {Nobody}
  /\ keyConflicts \in Seq(Conflict) /\ Len(keyConflicts) <= Cardinality(Person)
  /\ \A i, j \in 1 .. Len(keyConflicts) : keyConflicts[i].user = keyConflicts[j].user => i = j
  /\ closing \in {"open", "fading", "faded"}
  /\ sessionCache \in [Person -> -1 .. MaxKeys] /\ resolving \in [Person -> 0 .. MaxKeys]
  /\ accepted \subseteq Person \X PublicKey

KeyTrustInit ==
  /\ published = [p \in Person |-> 1] /\ known = [p \in Person |-> 0]
  /\ tasks = {} /\ sharing = FALSE
  /\ email = Nobody
  /\ keyChange = NoConflict /\ removeKeyChange = NoConflict
  /\ removeTarget = Nobody
  /\ keyConflicts = <<>> /\ closing = "open"
  /\ sessionCache = [p \in Person |-> -1] /\ resolving = [p \in Person |-> 0]
  /\ accepted = {}

(* A user, or a server that lies, presents other keys.                     *)
PublishKey(p) ==
  /\ p \in Fickle /\ published[p] < MaxKeys
  /\ published' = [published EXCEPT ![p] = @ + 1]
  /\ UNCHANGED <<known, tasks, sharing, dialogVars, pageConflictVars, authorVars, accepted>>
-----------------------------------------------------------------------------
(* checkKnownKey only compares; what it is asked about may be the first    *)
(* key seen, which is then trusted.                                        *)
Changed(p, k) == known[p] \notin {0, k}
TrustOnFirstUse(p, k) ==
  IF known[p] # 0 THEN UNCHANGED <<known, accepted>>
  ELSE known' = [known EXCEPT ![p] = k] /\ accepted' = accepted \cup {<<p, k>>}
TrustKey(c) ==
  /\ known' = [known EXCEPT ![c.user] = c.key]
  /\ accepted' = accepted \cup {<<c.user, c.key>>}

Running(flow) == \E t \in tasks : t.flow = flow /\ t.live
Begin(flow, p, todo) ==
  [flow |-> flow, user |-> p, todo |-> todo, from |-> published[p], wraps |-> {},
   stage |-> "lookup", live |-> TRUE]

(* The page's loop goes on with the next pending member, unless its effect *)
(* was cleaned up; every other flow ends.                                  *)
AfterTask(t) ==
  IF t.flow # "page" \/ ~t.live \/ t.todo = {} THEN {{}}
  ELSE {{Begin("page", p, t.todo \ {p})} : p \in t.todo}

(* What each flow does with a key that is not the trusted one. A dialog    *)
(* that is gone keeps nothing.                                             *)
Report(t, c) ==
  /\ keyChange' = IF t.flow = "invite" /\ t.live THEN c ELSE keyChange
  /\ removeKeyChange' = IF t.flow = "remove" /\ t.live THEN c ELSE removeKeyChange
  /\ keyConflicts' =
       IF t.flow = "page" /\ \A i \in 1 .. Len(keyConflicts) : keyConflicts[i].user # c.user
       THEN Append(keyConflicts, c) ELSE keyConflicts
  /\ \E next \in AfterTask(t) : tasks' = (tasks \ {t}) \cup next
  /\ UNCHANGED <<known, accepted>>

(* A removal seals the new key for every member left before it is posted;  *)
(* the others post each seal.                                              *)
SealFor(t, k) ==
  LET wraps == t.wraps \cup {<<t.user, k>>}
      next == IF t.flow = "remove" /\ t.todo # {}
              THEN {[Begin("remove", p, t.todo \ {p}) EXCEPT !.wraps = wraps, !.live = t.live]
                      : p \in t.todo}
              ELSE {[t EXCEPT !.wraps = wraps, !.stage = "post"]}
  IN /\ TrustOnFirstUse(t.user, k)
     /\ \E n \in next : tasks' = (tasks \ {t}) \cup {n}
     /\ UNCHANGED <<keyChange, removeKeyChange, keyConflicts>>

(* Mutant: the page seals to a changed key all the same.                   *)
LookupAnsweredUnchecked(t) ==
  /\ t \in tasks /\ t.stage = "lookup"
  /\ \E k \in t.from .. published[t.user] :
       IF Changed(t.user, k) /\ t.flow # "page" THEN Report(t, [user |-> t.user, key |-> k])
       ELSE SealFor(t, k)
  /\ UNCHANGED <<published, sharing, email, removeTarget, closing, authorVars>>

(* inviteMember, removeMemberWithRotation and reconcilePendingMember, from *)
(* the answer of lookupUser on.                                            *)
LookupAnswered(t) ==
  /\ t \in tasks /\ t.stage = "lookup"
  /\ \E k \in t.from .. published[t.user] :
       IF Changed(t.user, k) THEN Report(t, [user |-> t.user, key |-> k]) ELSE SealFor(t, k)
  /\ UNCHANGED <<published, sharing, email, removeTarget, closing, authorVars>>

Failed(t) ==
  /\ t \in tasks
  /\ \E next \in AfterTask(t) : tasks' = (tasks \ {t}) \cup next
  /\ UNCHANGED <<published, known, sharing, dialogVars, pageConflictVars, authorVars, accepted>>

(* The form is cleared whatever was typed since.                           *)
Posted(t) ==
  /\ t \in tasks /\ t.stage = "post"
  /\ \E next \in AfterTask(t) : tasks' = (tasks \ {t}) \cup next
  /\ email' = IF t.flow = "invite" /\ t.live THEN Nobody ELSE email
  /\ removeTarget' = IF t.flow = "remove" /\ t.live THEN Nobody ELSE removeTarget
  /\ UNCHANGED <<published, known, sharing, keyChange, removeKeyChange,
                 pageConflictVars, authorVars, accepted>>
-----------------------------------------------------------------------------
(* The share dialog. One overlay at a time takes over its card, in the     *)
(* order of ShareModalOverlay; without one the form and the list show. The *)
(* confirmation of leaving the document is left out.                       *)
Overlay ==
  IF removeTarget # Nobody THEN "remove"
  ELSE IF removeKeyChange # NoConflict THEN "removeKeyChange"
  ELSE IF keyChange # NoConflict THEN "keyChange"
  ELSE "body"
Shows(overlay) == sharing /\ Overlay = overlay
Room == Cardinality(tasks) < MaxTasks

OpenShare ==
  /\ ~sharing
  /\ sharing' = TRUE
  /\ UNCHANGED <<published, known, tasks, dialogVars, pageConflictVars, authorVars, accepted>>

(* Closed from anywhere, a confirmation under way included: its state is   *)
(* gone, what it started goes on.                                          *)
CloseShare ==
  /\ sharing
  /\ sharing' = FALSE
  /\ email' = Nobody
  /\ keyChange' = NoConflict /\ removeKeyChange' = NoConflict
  /\ removeTarget' = Nobody
  /\ tasks' = {[t EXCEPT !.live = t.live /\ t.flow = "page"] : t \in tasks}
  /\ UNCHANGED <<published, known, pageConflictVars, authorVars, accepted>>

SetEmail(p) ==
  /\ Shows("body") /\ email # p
  /\ email' = p
  /\ UNCHANGED <<published, known, tasks, sharing, keyChange, removeKeyChange, removeTarget,
                 pageConflictVars, authorVars, accepted>>

SubmitInvite ==
  /\ Shows("body") /\ email # Nobody /\ ~Running("invite") /\ Room
  /\ tasks' = tasks \cup {Begin("invite", email, {})}
  /\ UNCHANGED <<published, known, sharing, dialogVars, pageConflictVars, authorVars, accepted>>

(* The retry invites the address the form holds by now.                    *)
TrustAndRetryInvite ==
  /\ Shows("keyChange") /\ Room
  /\ TrustKey(keyChange)
  /\ keyChange' = NoConflict
  /\ tasks' = IF email = Nobody THEN tasks ELSE tasks \cup {Begin("invite", email, {})}
  /\ UNCHANGED <<published, sharing, email, removeKeyChange, removeTarget, pageConflictVars, authorVars>>

CancelKeyChange ==
  /\ Shows("keyChange")
  /\ keyChange' = NoConflict
  /\ UNCHANGED <<published, known, tasks, sharing, email, removeKeyChange,
                 removeTarget, pageConflictVars, authorVars, accepted>>

RequestRemove(p) ==
  /\ Shows("body")
  /\ removeTarget' = p
  /\ UNCHANGED <<published, known, tasks, sharing, email, keyChange,
                 removeKeyChange, pageConflictVars, authorVars, accepted>>

CancelRemove ==
  /\ Shows("remove") /\ ~Running("remove")
  /\ removeTarget' = Nobody
  /\ UNCHANGED <<published, known, tasks, sharing, email, keyChange,
                 removeKeyChange, pageConflictVars, authorVars, accepted>>

ConfirmRemove ==
  /\ Shows("remove") /\ ~Running("remove") /\ Room
  /\ \E p \in Person \ {removeTarget} :
       tasks' = tasks \cup {Begin("remove", p, (Person \ {removeTarget}) \ {p})}
  /\ UNCHANGED <<published, known, sharing, dialogVars, pageConflictVars, authorVars, accepted>>

(* The warning of a removal is shown once its confirmation is cancelled,   *)
(* when there is nothing left to retry.                                    *)
TrustAndRetryRemove ==
  /\ Shows("removeKeyChange")
  /\ TrustKey(removeKeyChange)
  /\ removeKeyChange' = NoConflict
  /\ UNCHANGED <<published, tasks, sharing, email, keyChange, removeTarget, pageConflictVars, authorVars>>

CancelRemoveKeyChange ==
  /\ Shows("removeKeyChange")
  /\ removeKeyChange' = NoConflict
  /\ UNCHANGED <<published, known, tasks, sharing, email, keyChange,
                 removeTarget, pageConflictVars, authorVars, accepted>>

GrantAccess(p) ==
  /\ Shows("body") /\ Room
  /\ tasks' = tasks \cup {Begin("grant", p, {})}
  /\ UNCHANGED <<published, known, sharing, dialogVars, pageConflictVars, authorVars, accepted>>
-----------------------------------------------------------------------------
(* The page: whenever its member list or key changes, the loop under way   *)
(* is cancelled and another begins with the members that lack a key.       *)
ReconcilePending(pendingMembers) ==
  LET cancelled == {[t EXCEPT !.live = t.live /\ t.flow # "page"] : t \in tasks}
  IN /\ Cardinality(cancelled) < MaxTasks
     /\ \E p \in pendingMembers :
          tasks' = cancelled \cup {Begin("page", p, pendingMembers \ {p})}
     /\ UNCHANGED <<published, known, sharing, dialogVars, pageConflictVars, authorVars, accepted>>

(* The first conflict is taken off the list: the modal stays mounted while *)
(* there is another, with the state it has.                                *)
DropConflict ==
  /\ keyConflicts' = Tail(keyConflicts)
  /\ closing' = IF Len(keyConflicts) = 1 THEN "open"
                ELSE IF closing = "fading" THEN "faded" ELSE closing

(* handleTrustKeyConflict: the key of the warning is trusted and sealed to *)
(* with the document key the page has.                                     *)
TrustKeyConflict ==
  /\ keyConflicts # <<>> /\ closing # "fading"
  /\ TrustKey(Head(keyConflicts))
  /\ DropConflict
  /\ UNCHANGED <<published, tasks, sharing, dialogVars, authorVars>>

(* Modal.requestClose works once; the dismissal follows when it faded out. *)
RequestCloseWarning ==
  /\ keyConflicts # <<>> /\ closing = "open"
  /\ closing' = "fading"
  /\ UNCHANGED <<published, known, tasks, sharing, dialogVars, keyConflicts, authorVars,
                 accepted>>

DismissKeyConflict ==
  /\ keyConflicts # <<>> /\ closing = "fading"
  /\ DropConflict
  /\ UNCHANGED <<published, known, tasks, sharing, dialogVars, authorVars, accepted>>
-----------------------------------------------------------------------------
(* resolveTrustedSigningKey: what is cached stays for the session; a known *)
(* key needs no lookup.                                                    *)
ResolveAuthor(p) ==
  /\ p \in Author /\ sessionCache[p] = -1 /\ resolving[p] = 0
  /\ IF known[p] # 0
     THEN sessionCache' = [sessionCache EXCEPT ![p] = known[p]] /\ UNCHANGED resolving
     ELSE resolving' = [resolving EXCEPT ![p] = published[p]] /\ UNCHANGED sessionCache
  /\ UNCHANGED <<published, known, tasks, sharing, dialogVars, pageConflictVars, accepted>>

AuthorResolved(p) ==
  /\ resolving[p] # 0
  /\ \E k \in resolving[p] .. published[p] :
       IF Changed(p, k)
       THEN sessionCache' = [sessionCache EXCEPT ![p] = 0] /\ UNCHANGED <<known, accepted>>
       ELSE sessionCache' = [sessionCache EXCEPT ![p] = k] /\ TrustOnFirstUse(p, k)
  /\ resolving' = [resolving EXCEPT ![p] = 0]
  /\ UNCHANGED <<published, tasks, sharing, dialogVars, pageConflictVars>>

AuthorUnreachable(p) ==
  /\ resolving[p] # 0
  /\ resolving' = [resolving EXCEPT ![p] = 0]
  /\ UNCHANGED <<published, known, tasks, sharing, dialogVars, pageConflictVars, sessionCache,
                 accepted>>

KeyTrustNext ==
  \/ OpenShare \/ CloseShare \/ SubmitInvite \/ TrustAndRetryInvite \/ CancelKeyChange
  \/ CancelRemove \/ ConfirmRemove \/ TrustAndRetryRemove \/ CancelRemoveKeyChange
  \/ TrustKeyConflict \/ RequestCloseWarning \/ DismissKeyConflict
  \/ \E t \in tasks : LookupAnswered(t) \/ Failed(t) \/ Posted(t)
  \/ \E p \in Person \cup {Nobody} : SetEmail(p)
  \/ \E p \in Person : \/ PublishKey(p) \/ RequestRemove(p) \/ GrantAccess(p)
                       \/ ResolveAuthor(p) \/ AuthorResolved(p) \/ AuthorUnreachable(p)
  \/ \E S \in SUBSET Person \ {{}} : ReconcilePending(S)

KeyTrustSpec == KeyTrustInit /\ [][KeyTrustNext]_keyTrustVars
-----------------------------------------------------------------------------
(* No document key is sealed, and no author believed, under a key the      *)
(* user's browser did not either meet first or show in a warning that was  *)
(* accepted, whatever the dialog, the page and the resolver do at once.    *)
KeysUsedWereAccepted ==
  /\ \A t \in tasks : t.wraps \subseteq accepted
  /\ \A p \in Person : /\ sessionCache[p] > 0 => <<p, sessionCache[p]>> \in accepted
                       /\ known[p] # 0 => <<p, known[p]>> \in accepted

(* One dialog rotates the document's key once at a time.                   *)
OneRotationAtATime ==
  \A s, t \in tasks : s.flow = "remove" /\ t.flow = "remove" /\ s.live /\ t.live => s = t

=============================================================================
