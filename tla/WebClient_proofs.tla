-------------------------- MODULE WebClient_proofs --------------------------
(***************************************************************************)
(* Theorems about KeyTrust, for every set of users, whoever changes keys,  *)
(* and every number of keys and of tasks; and the types of the whole       *)
(* browser client (MCWebClient), from those of its components.             *)
(***************************************************************************)
EXTENDS MCWebClient, DocumentPage_proofs, Vault_proofs, Account_proofs, SequenceTheorems

(* The types the argument needs: of the keys and warnings, and of the      *)
(* tasks.                                                                  *)
KeysTyped ==
  /\ published \in [Person -> PublicKey]
  /\ known \in [Person -> 0 .. MaxKeys]
  /\ email \in Person \cup {Nobody} /\ removeTarget \in Person \cup {Nobody}
  /\ keyChange \in Conflict \cup {NoConflict}
  /\ removeKeyChange \in Conflict \cup {NoConflict}
  /\ keyConflicts \in Seq(Conflict)
  /\ sessionCache \in [Person -> -1 .. MaxKeys]
  /\ resolving \in [Person -> 0 .. MaxKeys]

TasksTyped == tasks \subseteq Task

(* Known keys and cached keys were accepted, and so were the ones sealed.  *)
SealsAccepted == \A t \in tasks : t.wraps \subseteq accepted
CachesAccepted ==
  \A p \in Person : /\ sessionCache[p] > 0 => <<p, sessionCache[p]>> \in accepted
                    /\ known[p] # 0 => <<p, known[p]>> \in accepted

TrustInv == KeysTyped /\ TasksTyped /\ KeysUsedWereAccepted /\ OneRotationAtATime

LEMMA TrustInvInit == KeyTrustInit => TrustInv
<1> SUFFICES ASSUME KeyTrustInit PROVE TrustInv
  OBVIOUS
<1>1. KeysTyped
  BY KeyTrustAssumption DEF KeyTrustInit, KeysTyped, PublicKey
<1>2. TasksTyped /\ KeysUsedWereAccepted /\ OneRotationAtATime
  BY DEF KeyTrustInit, TasksTyped, KeysUsedWereAccepted, OneRotationAtATime
<1>. QED
  BY <1>1, <1>2 DEF TrustInv

(* A task begins live, with nothing sealed.                                *)
LEMMA Begun ==
  ASSUME KeysTyped, NEW p \in Person, NEW todo \in SUBSET Person,
         NEW kind \in {"invite", "remove", "grant", "page"}
  PROVE  /\ Begin(kind, p, todo) \in Task
         /\ Begin(kind, p, todo).flow = kind
         /\ Begin(kind, p, todo).wraps = {}
BY DEF Begin, Task, KeysTyped

(* What follows a task is a task of the page.                              *)
LEMMA Followed ==
  ASSUME KeysTyped, TasksTyped, NEW t \in tasks, NEW next \in AfterTask(t), NEW n \in next
  PROVE  n \in Task /\ n.flow = "page" /\ n.wraps = {}
<1>1. t.todo \in SUBSET Person
  BY DEF TasksTyped, Task
<1>2. PICK p \in t.todo : n = Begin("page", p, t.todo \ {p})
  BY DEF AfterTask
<1>. QED
  BY <1>1, <1>2, Begun

(* A lookup's answer is a key of its user.                                 *)
LEMMA KeyAnswered ==
  ASSUME KeysTyped, TasksTyped, NEW t \in tasks, NEW k \in t.from .. published[t.user]
  PROVE  t.user \in Person /\ k \in PublicKey /\ k # 0
<1>1. t.user \in Person /\ t.from \in PublicKey
  BY DEF TasksTyped, Task
<1>2. published[t.user] \in PublicKey
  BY <1>1 DEF KeysTyped
<1>. QED
  BY <1>1, <1>2, KeyTrustAssumption DEF PublicKey

(* A task that seals goes on as one task, of the same flow, with one more  *)
(* seal.                                                                   *)
LEMMA SealsOnce ==
  ASSUME KeysTyped, TasksTyped, NEW t \in tasks, NEW k \in PublicKey, SealFor(t, k)
  PROVE  \E n \in Task : /\ tasks' = (tasks \ {t}) \cup {n}
                         /\ n.flow = t.flow /\ n.live = t.live
                         /\ n.wraps = t.wraps \cup {<<t.user, k>>}
<1>1. t \in Task /\ t.user \in Person /\ t.todo \in SUBSET Person /\ t.wraps \in SUBSET (Person \X PublicKey)
  BY DEF TasksTyped, Task
<1>. DEFINE wraps == t.wraps \cup {<<t.user, k>>}
<1>2. wraps \in SUBSET (Person \X PublicKey)
  BY <1>1
<1>3. CASE t.flow = "remove" /\ t.todo # {}
  <2>1. PICK p \in t.todo :
          tasks' = (tasks \ {t}) \cup
            {[Begin("remove", p, t.todo \ {p}) EXCEPT !.wraps = wraps, !.live = t.live]}
    BY <1>3 DEF SealFor
  <2>. DEFINE n == [Begin("remove", p, t.todo \ {p}) EXCEPT !.wraps = wraps, !.live = t.live]
  <2>2. /\ Begin("remove", p, t.todo \ {p}) \in Task
        /\ Begin("remove", p, t.todo \ {p}).flow = "remove"
    BY <1>1, Begun
  <2>3. t.live \in BOOLEAN
    BY <1>1 DEF Task
  <2>. HIDE DEF wraps
  <2>4. n \in Task /\ n.flow = t.flow /\ n.live = t.live /\ n.wraps = wraps
    BY <1>2, <1>3, <2>2, <2>3 DEF Task
  <2>. QED
    BY <2>1, <2>4 DEF wraps
<1>4. CASE ~(t.flow = "remove" /\ t.todo # {})
  <2>. DEFINE n == [t EXCEPT !.wraps = wraps, !.stage = "post"]
  <2>1. tasks' = (tasks \ {t}) \cup {n}
    BY <1>4 DEF SealFor
  <2>. HIDE DEF wraps
  <2>2. n \in Task /\ n.flow = t.flow /\ n.live = t.live /\ n.wraps = wraps
    BY <1>1, <1>2 DEF Task
  <2>. QED
    BY <2>1, <2>2 DEF wraps
<1>. QED
  BY <1>3, <1>4

LEMMA NextKey == \A k \in PublicKey : k < MaxKeys => k + 1 \in PublicKey
BY KeyTrustAssumption DEF PublicKey

LEMMA ConflictKey ==
  ASSUME NEW c \in Conflict \cup {NoConflict}
  PROVE  c.key \in 0 .. MaxKeys
<1>1. CASE c \in Conflict
  <2>1. c.key \in 1 .. MaxKeys
    BY <1>1 DEF Conflict, PublicKey
  <2>. QED
    BY <2>1, KeyTrustAssumption
<1>2. CASE c = NoConflict
  BY <1>2, KeyTrustAssumption DEF NoConflict
<1>. QED
  BY <1>1, <1>2

-----------------------------------------------------------------------------
LEMMA KeysTypedNext ==
  ASSUME KeysTyped, TasksTyped, [KeyTrustNext]_keyTrustVars PROVE KeysTyped'
<1>. USE DEF KeysTyped
<1>1. ASSUME NEW p \in Person, PublishKey(p) PROVE KeysTyped'
  <2>1. published[p] + 1 \in PublicKey
    <3>1. published[p] \in PublicKey /\ published[p] < MaxKeys
      BY <1>1 DEF PublishKey
    <3>. QED
      BY <3>1, NextKey
  <2>. QED
    BY <1>1, <2>1 DEF PublishKey, dialogVars, pageConflictVars, authorVars
<1>2. ASSUME NEW t \in tasks, LookupAnswered(t) PROVE KeysTyped'
  <2>1. PICK k \in t.from .. published[t.user] :
          IF Changed(t.user, k) THEN Report(t, [user |-> t.user, key |-> k]) ELSE SealFor(t, k)
    BY <1>2 DEF LookupAnswered
  <2>2. t.user \in Person /\ k \in PublicKey /\ k \in 0 .. MaxKeys
    BY KeyAnswered, KeyTrustAssumption DEF PublicKey
  <2>3. [user |-> t.user, key |-> k] \in Conflict
    BY <2>2 DEF Conflict
  <2>4. CASE Report(t, [user |-> t.user, key |-> k])
    <3>1. /\ keyChange' \in Conflict \cup {NoConflict} /\ removeKeyChange' \in Conflict \cup {NoConflict}
          /\ known' = known
      BY <2>3, <2>4 DEF Report
    <3>2. keyConflicts' \in Seq(Conflict)
      BY <2>3, <2>4, AppendProperties DEF Report
    <3>. QED
      BY <1>2, <3>1, <3>2 DEF LookupAnswered, authorVars
  <2>5. CASE SealFor(t, k)
    <3>1. known' \in [Person -> 0 .. MaxKeys]
      BY <2>2, <2>5 DEF SealFor, TrustOnFirstUse
    <3>2. UNCHANGED <<keyChange, removeKeyChange, keyConflicts>>
      BY <2>5 DEF SealFor
    <3>. QED
      BY <1>2, <3>1, <3>2 DEF LookupAnswered, authorVars
  <2>. QED
    BY <2>1, <2>4, <2>5
<1>3. ASSUME NEW t \in tasks, Failed(t) PROVE KeysTyped'
  BY <1>3 DEF Failed, dialogVars, pageConflictVars, authorVars
<1>4. ASSUME NEW t \in tasks, Posted(t) PROVE KeysTyped'
  BY <1>4 DEF Posted, dialogVars, pageConflictVars, authorVars
<1>5. CASE OpenShare
  BY <1>5 DEF OpenShare, dialogVars, pageConflictVars, authorVars
<1>6. CASE CloseShare
  BY <1>6 DEF CloseShare, dialogVars, pageConflictVars, authorVars
<1>7. ASSUME NEW p \in Person \cup {Nobody}, SetEmail(p) PROVE KeysTyped'
  BY <1>7 DEF SetEmail, dialogVars, pageConflictVars, authorVars
<1>8. CASE SubmitInvite
  BY <1>8 DEF SubmitInvite, dialogVars, pageConflictVars, authorVars
<1>9. CASE TrustAndRetryInvite
  <2>1. keyChange.key \in 0 .. MaxKeys
    BY ConflictKey
  <2>2. known' \in [Person -> 0 .. MaxKeys]
    BY <1>9, <2>1 DEF TrustAndRetryInvite, TrustKey
  <2>. QED
    BY <1>9, <2>2 DEF TrustAndRetryInvite, pageConflictVars, authorVars
<1>10. CASE CancelKeyChange
  BY <1>10 DEF CancelKeyChange, dialogVars, pageConflictVars, authorVars
<1>11. ASSUME NEW p \in Person, RequestRemove(p) PROVE KeysTyped'
  BY <1>11 DEF RequestRemove, dialogVars, pageConflictVars, authorVars
<1>12. CASE CancelRemove
  BY <1>12 DEF CancelRemove, dialogVars, pageConflictVars, authorVars
<1>13. CASE ConfirmRemove
  BY <1>13 DEF ConfirmRemove, dialogVars, pageConflictVars, authorVars
<1>14. CASE TrustAndRetryRemove
  <2>1. removeKeyChange.key \in 0 .. MaxKeys
    BY ConflictKey
  <2>2. known' \in [Person -> 0 .. MaxKeys]
    BY <1>14, <2>1 DEF TrustAndRetryRemove, TrustKey
  <2>. QED
    BY <1>14, <2>2 DEF TrustAndRetryRemove, pageConflictVars, authorVars
<1>15. CASE CancelRemoveKeyChange
  BY <1>15 DEF CancelRemoveKeyChange, dialogVars, pageConflictVars, authorVars
<1>16. ASSUME NEW p \in Person, GrantAccess(p) PROVE KeysTyped'
  BY <1>16 DEF GrantAccess, dialogVars, pageConflictVars, authorVars
<1>17. ASSUME NEW S \in SUBSET Person \ {{}}, ReconcilePending(S) PROVE KeysTyped'
  BY <1>17 DEF ReconcilePending, dialogVars, pageConflictVars, authorVars
<1>18. CASE TrustKeyConflict
  <2>1. Head(keyConflicts) \in Conflict /\ keyConflicts' \in Seq(Conflict)
    BY <1>18, HeadTailProperties DEF TrustKeyConflict, DropConflict
  <2>2. Head(keyConflicts).key \in 0 .. MaxKeys
    BY <2>1, ConflictKey
  <2>3. known' \in [Person -> 0 .. MaxKeys]
    BY <1>18, <2>2 DEF TrustKeyConflict, TrustKey
  <2>. QED
    BY <1>18, <2>1, <2>3 DEF TrustKeyConflict, dialogVars, authorVars
<1>19. CASE RequestCloseWarning
  BY <1>19 DEF RequestCloseWarning, dialogVars, pageConflictVars, authorVars
<1>20. CASE DismissKeyConflict
  <2>1. keyConflicts' \in Seq(Conflict)
    BY <1>20, HeadTailProperties DEF DismissKeyConflict, DropConflict
  <2>. QED
    BY <1>20, <2>1 DEF DismissKeyConflict, dialogVars, authorVars
<1>21. ASSUME NEW p \in Person, ResolveAuthor(p) PROVE KeysTyped'
  <2>1. known[p] \in -1 .. MaxKeys /\ published[p] \in 0 .. MaxKeys
    <3>1. known[p] \in 0 .. MaxKeys /\ published[p] \in 1 .. MaxKeys
      BY DEF PublicKey
    <3>. QED
      BY <3>1, KeyTrustAssumption
  <2>2. sessionCache' \in [Person -> -1 .. MaxKeys] /\ resolving' \in [Person -> 0 .. MaxKeys]
    BY <1>21, <2>1 DEF ResolveAuthor
  <2>. QED
    BY <1>21, <2>2 DEF ResolveAuthor, dialogVars, pageConflictVars
<1>22. ASSUME NEW p \in Person, AuthorResolved(p) PROVE KeysTyped'
  <2>1. PICK k \in resolving[p] .. published[p] :
          IF Changed(p, k)
          THEN sessionCache' = [sessionCache EXCEPT ![p] = 0] /\ UNCHANGED <<known, accepted>>
          ELSE sessionCache' = [sessionCache EXCEPT ![p] = k] /\ TrustOnFirstUse(p, k)
    BY <1>22 DEF AuthorResolved
  <2>2. k \in 0 .. MaxKeys /\ k \in -1 .. MaxKeys /\ 0 \in -1 .. MaxKeys
    BY <1>22, KeyTrustAssumption DEF AuthorResolved, PublicKey
  <2>3. known' \in [Person -> 0 .. MaxKeys] /\ sessionCache' \in [Person -> -1 .. MaxKeys]
    BY <2>1, <2>2 DEF TrustOnFirstUse
  <2>4. resolving' \in [Person -> 0 .. MaxKeys]
    BY <1>22, KeyTrustAssumption DEF AuthorResolved
  <2>. QED
    BY <1>22, <2>3, <2>4 DEF AuthorResolved, dialogVars, pageConflictVars
<1>23. ASSUME NEW p \in Person, AuthorUnreachable(p) PROVE KeysTyped'
  <2>1. resolving' \in [Person -> 0 .. MaxKeys]
    BY <1>23, KeyTrustAssumption DEF AuthorUnreachable
  <2>. QED
    BY <1>23, <2>1 DEF AuthorUnreachable, dialogVars, pageConflictVars
<1>24. CASE UNCHANGED keyTrustVars
  BY <1>24 DEF keyTrustVars
<1>. QED
  BY <1>1, <1>2, <1>3, <1>4, <1>5, <1>6, <1>7, <1>8, <1>9, <1>10, <1>11,
     <1>12, <1>13, <1>14, <1>15, <1>16, <1>17, <1>18, <1>19, <1>20, <1>21,
     <1>22, <1>23, <1>24 DEF KeyTrustNext

LEMMA TasksTypedNext ==
  ASSUME KeysTyped, TasksTyped, [KeyTrustNext]_keyTrustVars PROVE TasksTyped'
<1>. USE DEF TasksTyped
<1>1. ASSUME NEW p \in Person, PublishKey(p) PROVE TasksTyped'
  BY <1>1 DEF PublishKey
<1>2. ASSUME NEW t \in tasks, LookupAnswered(t) PROVE TasksTyped'
  <2>1. PICK k \in t.from .. published[t.user] :
          IF Changed(t.user, k) THEN Report(t, [user |-> t.user, key |-> k]) ELSE SealFor(t, k)
    BY <1>2 DEF LookupAnswered
  <2>2. k \in PublicKey
    BY KeyAnswered
  <2>3. CASE Report(t, [user |-> t.user, key |-> k])
    <3>1. PICK next \in AfterTask(t) : tasks' = (tasks \ {t}) \cup next
      BY <2>3 DEF Report
    <3>. QED
      BY <3>1, Followed
  <2>4. CASE SealFor(t, k)
    BY <2>2, <2>4, SealsOnce
  <2>. QED
    BY <2>1, <2>3, <2>4
<1>3. ASSUME NEW t \in tasks, Failed(t) PROVE TasksTyped'
  <2>1. PICK next \in AfterTask(t) : tasks' = (tasks \ {t}) \cup next
    BY <1>3 DEF Failed
  <2>. QED
    BY <2>1, Followed
<1>4. ASSUME NEW t \in tasks, Posted(t) PROVE TasksTyped'
  <2>1. PICK next \in AfterTask(t) : tasks' = (tasks \ {t}) \cup next
    BY <1>4 DEF Posted
  <2>. QED
    BY <2>1, Followed
<1>5. CASE OpenShare
  BY <1>5 DEF OpenShare
<1>6. CASE CloseShare
  <2>1. ASSUME NEW t \in tasks
        PROVE  [t EXCEPT !.live = t.live /\ t.flow = "page"] \in Task
    BY DEF Task
  <2>. QED
    BY <1>6, <2>1 DEF CloseShare
<1>7. ASSUME NEW p \in Person \cup {Nobody}, SetEmail(p) PROVE TasksTyped'
  BY <1>7 DEF SetEmail
<1>8. CASE SubmitInvite
  <2>1. Begin("invite", email, {}) \in Task
    BY <1>8, Begun DEF SubmitInvite, KeysTyped
  <2>. QED
    BY <1>8, <2>1 DEF SubmitInvite
<1>9. CASE TrustAndRetryInvite
  <2>1. email # Nobody => Begin("invite", email, {}) \in Task
    BY Begun DEF KeysTyped
  <2>. QED
    BY <1>9, <2>1 DEF TrustAndRetryInvite
<1>10. CASE CancelKeyChange
  BY <1>10 DEF CancelKeyChange
<1>11. ASSUME NEW p \in Person, RequestRemove(p) PROVE TasksTyped'
  BY <1>11 DEF RequestRemove
<1>12. CASE CancelRemove
  BY <1>12 DEF CancelRemove
<1>13. CASE ConfirmRemove
  <2>1. PICK p \in Person \ {removeTarget} :
          tasks' = tasks \cup {Begin("remove", p, (Person \ {removeTarget}) \ {p})}
    BY <1>13 DEF ConfirmRemove
  <2>2. Begin("remove", p, (Person \ {removeTarget}) \ {p}) \in Task
    BY Begun
  <2>. QED
    BY <2>1, <2>2
<1>14. CASE TrustAndRetryRemove
  BY <1>14 DEF TrustAndRetryRemove
<1>15. CASE CancelRemoveKeyChange
  BY <1>15 DEF CancelRemoveKeyChange
<1>16. ASSUME NEW p \in Person, GrantAccess(p) PROVE TasksTyped'
  <2>1. Begin("grant", p, {}) \in Task
    BY Begun
  <2>. QED
    BY <1>16, <2>1 DEF GrantAccess
<1>17. ASSUME NEW S \in SUBSET Person \ {{}}, ReconcilePending(S) PROVE TasksTyped'
  <2>1. ASSUME NEW t \in tasks
        PROVE  [t EXCEPT !.live = t.live /\ t.flow # "page"] \in Task
    BY DEF Task
  <2>2. PICK p \in S :
          tasks' = {[t EXCEPT !.live = t.live /\ t.flow # "page"] : t \in tasks}
                     \cup {Begin("page", p, S \ {p})}
    BY <1>17 DEF ReconcilePending
  <2>3. Begin("page", p, S \ {p}) \in Task
    BY Begun
  <2>. QED
    BY <2>1, <2>2, <2>3
<1>18. CASE TrustKeyConflict
  BY <1>18 DEF TrustKeyConflict
<1>19. CASE RequestCloseWarning
  BY <1>19 DEF RequestCloseWarning
<1>20. CASE DismissKeyConflict
  BY <1>20 DEF DismissKeyConflict
<1>21. ASSUME NEW p \in Person, ResolveAuthor(p) PROVE TasksTyped'
  BY <1>21 DEF ResolveAuthor
<1>22. ASSUME NEW p \in Person, AuthorResolved(p) PROVE TasksTyped'
  BY <1>22 DEF AuthorResolved
<1>23. ASSUME NEW p \in Person, AuthorUnreachable(p) PROVE TasksTyped'
  BY <1>23 DEF AuthorUnreachable
<1>24. CASE UNCHANGED keyTrustVars
  BY <1>24 DEF keyTrustVars
<1>. QED
  BY <1>1, <1>2, <1>3, <1>4, <1>5, <1>6, <1>7, <1>8, <1>9, <1>10, <1>11,
     <1>12, <1>13, <1>14, <1>15, <1>16, <1>17, <1>18, <1>19, <1>20, <1>21,
     <1>22, <1>23, <1>24 DEF KeyTrustNext

-----------------------------------------------------------------------------
(* No flow but a removal's own begins one, and one removal goes on as one. *)
LEMMA OneRotationNext ==
  ASSUME KeysTyped, TasksTyped, OneRotationAtATime, [KeyTrustNext]_keyTrustVars
  PROVE  OneRotationAtATime'
<1>. USE DEF OneRotationAtATime
<1>1. ASSUME NEW p \in Person, PublishKey(p) PROVE OneRotationAtATime'
  BY <1>1 DEF PublishKey
<1>2. ASSUME NEW t \in tasks, LookupAnswered(t) PROVE OneRotationAtATime'
  <2>1. PICK k \in t.from .. published[t.user] :
          IF Changed(t.user, k) THEN Report(t, [user |-> t.user, key |-> k]) ELSE SealFor(t, k)
    BY <1>2 DEF LookupAnswered
  <2>2. k \in PublicKey
    BY KeyAnswered
  <2>3. CASE Report(t, [user |-> t.user, key |-> k])
    <3>1. PICK next \in AfterTask(t) : tasks' = (tasks \ {t}) \cup next
      BY <2>3 DEF Report
    <3>2. \A n \in next : n.flow # "remove"
      BY Followed
    <3>. QED
      BY <3>1, <3>2
  <2>4. CASE SealFor(t, k)
    <3>1. PICK n \in Task : tasks' = (tasks \ {t}) \cup {n} /\ n.flow = t.flow /\ n.live = t.live
      BY <2>2, <2>4, SealsOnce
    <3>. QED
      BY <3>1
  <2>. QED
    BY <2>1, <2>3, <2>4
<1>3. ASSUME NEW t \in tasks, Failed(t) PROVE OneRotationAtATime'
  <2>1. PICK next \in AfterTask(t) : tasks' = (tasks \ {t}) \cup next
    BY <1>3 DEF Failed
  <2>2. \A n \in next : n.flow # "remove"
    BY Followed
  <2>. QED
    BY <2>1, <2>2
<1>4. ASSUME NEW t \in tasks, Posted(t) PROVE OneRotationAtATime'
  <2>1. PICK next \in AfterTask(t) : tasks' = (tasks \ {t}) \cup next
    BY <1>4 DEF Posted
  <2>2. \A n \in next : n.flow # "remove"
    BY Followed
  <2>. QED
    BY <2>1, <2>2
<1>5. CASE OpenShare
  BY <1>5 DEF OpenShare
<1>6. CASE CloseShare
  <2>1. ASSUME NEW t \in tasks
        PROVE  ~ /\ [t EXCEPT !.live = t.live /\ t.flow = "page"].flow = "remove"
                 /\ [t EXCEPT !.live = t.live /\ t.flow = "page"].live
    <3>1. t \in Task
      BY DEF TasksTyped
    <3>. QED
      BY <3>1 DEF Task
  <2>2. tasks' = {[t EXCEPT !.live = t.live /\ t.flow = "page"] : t \in tasks}
    BY <1>6 DEF CloseShare
  <2>3. \A s \in tasks' : ~(s.flow = "remove" /\ s.live)
    BY <2>1, <2>2
  <2>. QED
    BY <2>3
<1>7. ASSUME NEW p \in Person \cup {Nobody}, SetEmail(p) PROVE OneRotationAtATime'
  BY <1>7 DEF SetEmail
<1>8. CASE SubmitInvite
  <2>1. Begin("invite", email, {}).flow = "invite"
    BY DEF Begin
  <2>. QED
    BY <1>8, <2>1 DEF SubmitInvite
<1>9. CASE TrustAndRetryInvite
  <2>1. Begin("invite", email, {}).flow = "invite"
    BY DEF Begin
  <2>. QED
    BY <1>9, <2>1 DEF TrustAndRetryInvite
<1>10. CASE CancelKeyChange
  BY <1>10 DEF CancelKeyChange
<1>11. ASSUME NEW p \in Person, RequestRemove(p) PROVE OneRotationAtATime'
  BY <1>11 DEF RequestRemove
<1>12. CASE CancelRemove
  BY <1>12 DEF CancelRemove
<1>13. CASE ConfirmRemove
  <2>1. PICK p \in Person \ {removeTarget} :
          tasks' = tasks \cup {Begin("remove", p, (Person \ {removeTarget}) \ {p})}
    BY <1>13 DEF ConfirmRemove
  <2>2. \A t \in tasks : ~(t.flow = "remove" /\ t.live)
    BY <1>13 DEF ConfirmRemove, Running
  <2>. QED
    BY <2>1, <2>2
<1>14. CASE TrustAndRetryRemove
  BY <1>14 DEF TrustAndRetryRemove
<1>15. CASE CancelRemoveKeyChange
  BY <1>15 DEF CancelRemoveKeyChange
<1>16. ASSUME NEW p \in Person, GrantAccess(p) PROVE OneRotationAtATime'
  <2>1. Begin("grant", p, {}).flow = "grant"
    BY DEF Begin
  <2>. QED
    BY <1>16, <2>1 DEF GrantAccess
<1>17. ASSUME NEW S \in SUBSET Person \ {{}}, ReconcilePending(S) PROVE OneRotationAtATime'
  <2>1. ASSUME NEW t \in tasks,
               [t EXCEPT !.live = t.live /\ t.flow # "page"].flow = "remove",
               [t EXCEPT !.live = t.live /\ t.flow # "page"].live
        PROVE  t.flow = "remove" /\ t.live
    <3>1. t \in Task
      BY DEF TasksTyped
    <3>. QED
      BY <2>1, <3>1 DEF Task
  <2>2. PICK p \in S :
          tasks' = {[t EXCEPT !.live = t.live /\ t.flow # "page"] : t \in tasks}
                     \cup {Begin("page", p, S \ {p})}
    BY <1>17 DEF ReconcilePending
  <2>3. Begin("page", p, S \ {p}).flow = "page"
    BY DEF Begin
  <2>4. ASSUME NEW s \in tasks', NEW t \in tasks', s.flow = "remove", t.flow = "remove", s.live, t.live
        PROVE  s = t
    <3>1. PICK x \in tasks : s = [x EXCEPT !.live = x.live /\ x.flow # "page"]
      BY <2>2, <2>3, <2>4
    <3>2. PICK y \in tasks : t = [y EXCEPT !.live = y.live /\ y.flow # "page"]
      BY <2>2, <2>3, <2>4
    <3>3. x.flow = "remove" /\ x.live /\ y.flow = "remove" /\ y.live
      BY <2>1, <2>4, <3>1, <3>2
    <3>4. x = y
      BY <3>3
    <3>. QED
      BY <3>1, <3>2, <3>4
  <2>. QED
    BY <2>4
<1>18. CASE TrustKeyConflict
  BY <1>18 DEF TrustKeyConflict
<1>19. CASE RequestCloseWarning
  BY <1>19 DEF RequestCloseWarning
<1>20. CASE DismissKeyConflict
  BY <1>20 DEF DismissKeyConflict
<1>21. ASSUME NEW p \in Person, ResolveAuthor(p) PROVE OneRotationAtATime'
  BY <1>21 DEF ResolveAuthor
<1>22. ASSUME NEW p \in Person, AuthorResolved(p) PROVE OneRotationAtATime'
  BY <1>22 DEF AuthorResolved
<1>23. ASSUME NEW p \in Person, AuthorUnreachable(p) PROVE OneRotationAtATime'
  BY <1>23 DEF AuthorUnreachable
<1>24. CASE UNCHANGED keyTrustVars
  BY <1>24 DEF keyTrustVars
<1>. QED
  BY <1>1, <1>2, <1>3, <1>4, <1>5, <1>6, <1>7, <1>8, <1>9, <1>10, <1>11,
     <1>12, <1>13, <1>14, <1>15, <1>16, <1>17, <1>18, <1>19, <1>20, <1>21,
     <1>22, <1>23, <1>24 DEF KeyTrustNext

-----------------------------------------------------------------------------
(* What was accepted stays accepted.                                       *)
LEMMA SealsAcceptedNext ==
  ASSUME KeysTyped, TasksTyped, SealsAccepted, CachesAccepted, [KeyTrustNext]_keyTrustVars
  PROVE  SealsAccepted'
<1>. USE DEF SealsAccepted
<1>1. ASSUME NEW p \in Person, PublishKey(p) PROVE SealsAccepted'
  BY <1>1 DEF PublishKey
<1>2. ASSUME NEW t \in tasks, LookupAnswered(t) PROVE SealsAccepted'
  <2>1. PICK k \in t.from .. published[t.user] :
          IF Changed(t.user, k) THEN Report(t, [user |-> t.user, key |-> k]) ELSE SealFor(t, k)
    BY <1>2 DEF LookupAnswered
  <2>2. k \in PublicKey /\ t.user \in Person /\ k # 0
    BY KeyAnswered
  <2>3. CASE Report(t, [user |-> t.user, key |-> k])
    <3>1. PICK next \in AfterTask(t) : tasks' = (tasks \ {t}) \cup next
      BY <2>3 DEF Report
    <3>2. \A n \in next : n.wraps = {}
      BY Followed
    <3>3. accepted' = accepted
      BY <2>3 DEF Report
    <3>. QED
      BY <3>1, <3>2, <3>3
  <2>4. CASE ~Changed(t.user, k) /\ SealFor(t, k)
    <3>1. PICK n \in Task : tasks' = (tasks \ {t}) \cup {n} /\ n.wraps = t.wraps \cup {<<t.user, k>>}
      BY <2>2, <2>4, SealsOnce
    <3>2. accepted \subseteq accepted' /\ <<t.user, k>> \in accepted'
      <4>1. CASE known[t.user] = 0
        BY <2>4, <4>1 DEF SealFor, TrustOnFirstUse
      <4>2. CASE known[t.user] # 0
        <5>1. known[t.user] = k
          BY <2>4, <4>2 DEF Changed
        <5>2. <<t.user, k>> \in accepted
          BY <2>2, <4>2, <5>1 DEF CachesAccepted
        <5>. QED
          BY <2>4, <4>2, <5>2 DEF SealFor, TrustOnFirstUse
      <4>. QED
        BY <4>1, <4>2
    <3>. QED
      BY <3>1, <3>2
  <2>. QED
    BY <2>1, <2>3, <2>4
<1>3. ASSUME NEW t \in tasks, Failed(t) PROVE SealsAccepted'
  <2>1. PICK next \in AfterTask(t) : tasks' = (tasks \ {t}) \cup next
    BY <1>3 DEF Failed
  <2>2. \A n \in next : n.wraps = {}
    BY Followed
  <2>. QED
    BY <1>3, <2>1, <2>2 DEF Failed
<1>4. ASSUME NEW t \in tasks, Posted(t) PROVE SealsAccepted'
  <2>1. PICK next \in AfterTask(t) : tasks' = (tasks \ {t}) \cup next
    BY <1>4 DEF Posted
  <2>2. \A n \in next : n.wraps = {}
    BY Followed
  <2>. QED
    BY <1>4, <2>1, <2>2 DEF Posted
<1>5. CASE OpenShare
  BY <1>5 DEF OpenShare
<1>6. CASE CloseShare
  <2>1. ASSUME NEW t \in tasks
        PROVE  [t EXCEPT !.live = t.live /\ t.flow = "page"].wraps = t.wraps
    <3>1. t \in Task
      BY DEF TasksTyped
    <3>. QED
      BY <3>1 DEF Task
  <2>2. /\ tasks' = {[t EXCEPT !.live = t.live /\ t.flow = "page"] : t \in tasks}
        /\ accepted' = accepted
    BY <1>6 DEF CloseShare
  <2>3. ASSUME NEW x \in tasks' PROVE x.wraps \subseteq accepted
    <3>1. PICK t \in tasks : x = [t EXCEPT !.live = t.live /\ t.flow = "page"]
      BY <2>2
    <3>. QED
      BY <2>1, <3>1
  <2>. QED
    BY <2>2, <2>3
<1>7. ASSUME NEW p \in Person \cup {Nobody}, SetEmail(p) PROVE SealsAccepted'
  BY <1>7 DEF SetEmail
<1>8. CASE SubmitInvite
  <2>1. Begin("invite", email, {}).wraps = {}
    BY DEF Begin
  <2>. QED
    BY <1>8, <2>1 DEF SubmitInvite
<1>9. CASE TrustAndRetryInvite
  <2>1. Begin("invite", email, {}).wraps = {}
    BY DEF Begin
  <2>. QED
    BY <1>9, <2>1 DEF TrustAndRetryInvite, TrustKey
<1>10. CASE CancelKeyChange
  BY <1>10 DEF CancelKeyChange
<1>11. ASSUME NEW p \in Person, RequestRemove(p) PROVE SealsAccepted'
  BY <1>11 DEF RequestRemove
<1>12. CASE CancelRemove
  BY <1>12 DEF CancelRemove
<1>13. CASE ConfirmRemove
  <2>1. PICK p \in Person \ {removeTarget} :
          tasks' = tasks \cup {Begin("remove", p, (Person \ {removeTarget}) \ {p})}
    BY <1>13 DEF ConfirmRemove
  <2>2. Begin("remove", p, (Person \ {removeTarget}) \ {p}).wraps = {}
    BY DEF Begin
  <2>. QED
    BY <1>13, <2>1, <2>2 DEF ConfirmRemove
<1>14. CASE TrustAndRetryRemove
  BY <1>14 DEF TrustAndRetryRemove, TrustKey
<1>15. CASE CancelRemoveKeyChange
  BY <1>15 DEF CancelRemoveKeyChange
<1>16. ASSUME NEW p \in Person, GrantAccess(p) PROVE SealsAccepted'
  <2>1. Begin("grant", p, {}).wraps = {}
    BY DEF Begin
  <2>. QED
    BY <1>16, <2>1 DEF GrantAccess
<1>17. ASSUME NEW S \in SUBSET Person \ {{}}, ReconcilePending(S) PROVE SealsAccepted'
  <2>1. ASSUME NEW t \in tasks
        PROVE  [t EXCEPT !.live = t.live /\ t.flow # "page"].wraps = t.wraps
    <3>1. t \in Task
      BY DEF TasksTyped
    <3>. QED
      BY <3>1 DEF Task
  <2>2. PICK p \in S :
          tasks' = {[t EXCEPT !.live = t.live /\ t.flow # "page"] : t \in tasks}
                     \cup {Begin("page", p, S \ {p})}
    BY <1>17 DEF ReconcilePending
  <2>3. Begin("page", p, S \ {p}).wraps = {} /\ accepted' = accepted
    BY <1>17 DEF Begin, ReconcilePending
  <2>4. ASSUME NEW x \in tasks' PROVE x.wraps \subseteq accepted
    <3>1. CASE x = Begin("page", p, S \ {p})
      BY <2>3, <3>1
    <3>2. CASE \E t \in tasks : x = [t EXCEPT !.live = t.live /\ t.flow # "page"]
      BY <2>1, <3>2
    <3>. QED
      BY <2>2, <3>1, <3>2
  <2>. QED
    BY <2>3, <2>4
<1>18. CASE TrustKeyConflict
  BY <1>18 DEF TrustKeyConflict, TrustKey
<1>19. CASE RequestCloseWarning
  BY <1>19 DEF RequestCloseWarning
<1>20. CASE DismissKeyConflict
  BY <1>20 DEF DismissKeyConflict
<1>21. ASSUME NEW p \in Person, ResolveAuthor(p) PROVE SealsAccepted'
  BY <1>21 DEF ResolveAuthor
<1>22. ASSUME NEW p \in Person, AuthorResolved(p) PROVE SealsAccepted'
  BY <1>22 DEF AuthorResolved, TrustOnFirstUse
<1>23. ASSUME NEW p \in Person, AuthorUnreachable(p) PROVE SealsAccepted'
  BY <1>23 DEF AuthorUnreachable
<1>24. CASE UNCHANGED keyTrustVars
  BY <1>24 DEF keyTrustVars
<1>. QED
  BY <1>1, <1>2, <1>3, <1>4, <1>5, <1>6, <1>7, <1>8, <1>9, <1>10, <1>11,
     <1>12, <1>13, <1>14, <1>15, <1>16, <1>17, <1>18, <1>19, <1>20, <1>21,
     <1>22, <1>23, <1>24 DEF KeyTrustNext

LEMMA CachesAcceptedNext ==
  ASSUME KeysTyped, TasksTyped, CachesAccepted, [KeyTrustNext]_keyTrustVars
  PROVE  CachesAccepted'
<1>. USE DEF CachesAccepted
<1>1. ASSUME NEW p \in Person, PublishKey(p) PROVE CachesAccepted'
  BY <1>1 DEF PublishKey, authorVars
<1>2. ASSUME NEW t \in tasks, LookupAnswered(t) PROVE CachesAccepted'
  <2>1. PICK k \in t.from .. published[t.user] :
          IF Changed(t.user, k) THEN Report(t, [user |-> t.user, key |-> k]) ELSE SealFor(t, k)
    BY <1>2 DEF LookupAnswered
  <2>2. sessionCache' = sessionCache
    BY <1>2 DEF LookupAnswered, authorVars
  <2>3. UNCHANGED <<known, accepted>> \/ TrustOnFirstUse(t.user, k)
    BY <2>1 DEF Report, SealFor
  <2>4. UNCHANGED <<known, accepted>>
          \/ (known' = [known EXCEPT ![t.user] = k] /\ accepted' = accepted \cup {<<t.user, k>>})
    BY <2>3 DEF TrustOnFirstUse
  <2>. QED
    BY <2>2, <2>4 DEF KeysTyped
<1>3. ASSUME NEW t \in tasks, Failed(t) PROVE CachesAccepted'
  BY <1>3 DEF Failed, authorVars
<1>4. ASSUME NEW t \in tasks, Posted(t) PROVE CachesAccepted'
  BY <1>4 DEF Posted, authorVars
<1>5. CASE OpenShare
  BY <1>5 DEF OpenShare, authorVars
<1>6. CASE CloseShare
  BY <1>6 DEF CloseShare, authorVars
<1>7. ASSUME NEW p \in Person \cup {Nobody}, SetEmail(p) PROVE CachesAccepted'
  BY <1>7 DEF SetEmail, authorVars
<1>8. CASE SubmitInvite
  BY <1>8 DEF SubmitInvite, authorVars
<1>9. CASE TrustAndRetryInvite
  <2>1. known' = [known EXCEPT ![keyChange.user] = keyChange.key] /\ accepted' = accepted \cup {<<keyChange.user, keyChange.key>>}
    BY <1>9 DEF TrustAndRetryInvite, TrustKey
  <2>2. sessionCache' = sessionCache
    BY <1>9 DEF TrustAndRetryInvite, authorVars
  <2>. QED
    BY <2>1, <2>2 DEF KeysTyped
<1>10. CASE CancelKeyChange
  BY <1>10 DEF CancelKeyChange, authorVars
<1>11. ASSUME NEW p \in Person, RequestRemove(p) PROVE CachesAccepted'
  BY <1>11 DEF RequestRemove, authorVars
<1>12. CASE CancelRemove
  BY <1>12 DEF CancelRemove, authorVars
<1>13. CASE ConfirmRemove
  BY <1>13 DEF ConfirmRemove, authorVars
<1>14. CASE TrustAndRetryRemove
  <2>1. known' = [known EXCEPT ![removeKeyChange.user] = removeKeyChange.key] /\ accepted' = accepted \cup {<<removeKeyChange.user, removeKeyChange.key>>}
    BY <1>14 DEF TrustAndRetryRemove, TrustKey
  <2>2. sessionCache' = sessionCache
    BY <1>14 DEF TrustAndRetryRemove, authorVars
  <2>. QED
    BY <2>1, <2>2 DEF KeysTyped
<1>15. CASE CancelRemoveKeyChange
  BY <1>15 DEF CancelRemoveKeyChange, authorVars
<1>16. ASSUME NEW p \in Person, GrantAccess(p) PROVE CachesAccepted'
  BY <1>16 DEF GrantAccess, authorVars
<1>17. ASSUME NEW S \in SUBSET Person \ {{}}, ReconcilePending(S) PROVE CachesAccepted'
  BY <1>17 DEF ReconcilePending, authorVars
<1>18. CASE TrustKeyConflict
  <2>1. known' = [known EXCEPT ![Head(keyConflicts).user] = Head(keyConflicts).key] /\ accepted' = accepted \cup {<<Head(keyConflicts).user, Head(keyConflicts).key>>}
    BY <1>18 DEF TrustKeyConflict, TrustKey
  <2>2. sessionCache' = sessionCache
    BY <1>18 DEF TrustKeyConflict, authorVars
  <2>. QED
    BY <2>1, <2>2 DEF KeysTyped
<1>19. CASE RequestCloseWarning
  BY <1>19 DEF RequestCloseWarning, authorVars
<1>20. CASE DismissKeyConflict
  BY <1>20 DEF DismissKeyConflict, authorVars
<1>21. ASSUME NEW p \in Person, ResolveAuthor(p) PROVE CachesAccepted'
  <2>1. UNCHANGED <<known, accepted>>
        /\ \/ sessionCache' = sessionCache
           \/ known[p] # 0 /\ sessionCache' = [sessionCache EXCEPT ![p] = known[p]]
    BY <1>21 DEF ResolveAuthor
  <2>. QED
    BY <2>1 DEF KeysTyped
<1>22. ASSUME NEW p \in Person, AuthorResolved(p) PROVE CachesAccepted'
  <2>1. PICK k \in resolving[p] .. published[p] :
          IF Changed(p, k)
          THEN sessionCache' = [sessionCache EXCEPT ![p] = 0] /\ UNCHANGED <<known, accepted>>
          ELSE sessionCache' = [sessionCache EXCEPT ![p] = k] /\ TrustOnFirstUse(p, k)
    BY <1>22 DEF AuthorResolved
  <2>2. CASE Changed(p, k)
    <3>1. UNCHANGED <<known, accepted>> /\ sessionCache' = [sessionCache EXCEPT ![p] = 0]
      BY <2>1, <2>2
    <3>. QED
      BY <3>1 DEF KeysTyped
  <2>3. CASE ~Changed(p, k) /\ known[p] = 0
    <3>1. /\ known' = [known EXCEPT ![p] = k] /\ accepted' = accepted \cup {<<p, k>>}
          /\ sessionCache' = [sessionCache EXCEPT ![p] = k]
      BY <2>1, <2>3 DEF TrustOnFirstUse
    <3>. QED
      BY <3>1 DEF KeysTyped
  <2>4. CASE ~Changed(p, k) /\ known[p] # 0
    <3>1. /\ UNCHANGED <<known, accepted>> /\ sessionCache' = [sessionCache EXCEPT ![p] = k]
          /\ known[p] = k
      BY <2>1, <2>4 DEF TrustOnFirstUse, Changed
    <3>. QED
      BY <2>4, <3>1 DEF KeysTyped
  <2>. QED
    BY <2>2, <2>3, <2>4
<1>23. ASSUME NEW p \in Person, AuthorUnreachable(p) PROVE CachesAccepted'
  BY <1>23 DEF AuthorUnreachable, authorVars
<1>24. CASE UNCHANGED keyTrustVars
  BY <1>24 DEF keyTrustVars
<1>. QED
  BY <1>1, <1>2, <1>3, <1>4, <1>5, <1>6, <1>7, <1>8, <1>9, <1>10, <1>11,
     <1>12, <1>13, <1>14, <1>15, <1>16, <1>17, <1>18, <1>19, <1>20, <1>21,
     <1>22, <1>23, <1>24 DEF KeyTrustNext

-----------------------------------------------------------------------------
LEMMA TrustInvariant == KeyTrustSpec => []TrustInv
<1>1. KeysUsedWereAccepted <=> SealsAccepted /\ CachesAccepted
  BY DEF KeysUsedWereAccepted, SealsAccepted, CachesAccepted
<1>2. KeysUsedWereAccepted' <=> SealsAccepted' /\ CachesAccepted'
  BY DEF KeysUsedWereAccepted, SealsAccepted, CachesAccepted
<1>3. TrustInv /\ [KeyTrustNext]_keyTrustVars => TrustInv'
  BY <1>1, <1>2, KeysTypedNext, TasksTypedNext, OneRotationNext, SealsAcceptedNext,
     CachesAcceptedNext DEF TrustInv
<1>. QED
  BY TrustInvInit, <1>3, PTL DEF KeyTrustSpec

(* Nothing is sealed to a key, and no author is believed under one, that   *)
(* the browser did not meet first or have accepted: sharingFlows.ts,       *)
(* useShareMembers.ts, usePendingKeyGrants.ts and authorKeys.ts together,  *)
(* however their awaits interleave.                                        *)
THEOREM SealedToAccepted == KeyTrustSpec => []KeysUsedWereAccepted
<1>1. TrustInv => KeysUsedWereAccepted
  BY DEF TrustInv
<1>. QED
  BY <1>1, TrustInvariant, PTL

(* An open share dialog has one rotation under way at most, so two         *)
(* removals never race for the next epoch of the document's key.           *)
THEOREM RotatesOnce == KeyTrustSpec => []OneRotationAtATime
<1>1. TrustInv => OneRotationAtATime
  BY DEF TrustInv
<1>. QED
  BY <1>1, TrustInvariant, PTL
-----------------------------------------------------------------------------
(* The types, with what the invariant above does not speak of.             *)
OneConflictEach ==
  \A i, j \in 1 .. Len(keyConflicts) : keyConflicts[i].user = keyConflicts[j].user => i = j
DialogTyped == sharing \in BOOLEAN /\ closing \in {"open", "fading", "faded"}
AcceptedTyped == accepted \subseteq Person \X PublicKey

LEMMA ConflictTaken ==
  ASSUME KeysTyped, OneConflictEach, keyConflicts # <<>>, keyConflicts' = Tail(keyConflicts)
  PROVE  OneConflictEach' /\ Head(keyConflicts) \in Conflict
<1>1. keyConflicts \in Seq(Conflict)
  BY DEF KeysTyped
<1>2. /\ Head(keyConflicts) \in Conflict
      /\ Len(keyConflicts') = Len(keyConflicts) - 1 /\ Len(keyConflicts) \in Nat
      /\ \A i \in 1 .. Len(keyConflicts') : keyConflicts'[i] = keyConflicts[i + 1]
  BY <1>1, HeadTailProperties
<1>3. ASSUME NEW i \in 1 .. Len(keyConflicts'), NEW j \in 1 .. Len(keyConflicts'),
             keyConflicts'[i].user = keyConflicts'[j].user
      PROVE  i = j
  <2>1. i + 1 \in 1 .. Len(keyConflicts) /\ j + 1 \in 1 .. Len(keyConflicts)
    BY <1>2
  <2>2. keyConflicts[i + 1].user = keyConflicts[j + 1].user
    BY <1>2, <1>3
  <2>3. i + 1 = j + 1
    BY <2>1, <2>2 DEF OneConflictEach
  <2>. QED
    BY <2>3
<1>. QED
  BY <1>2, <1>3 DEF OneConflictEach

LEMMA ConflictAdded ==
  ASSUME KeysTyped, OneConflictEach, NEW c \in Conflict, keyConflicts' = Append(keyConflicts, c),
         \A i \in 1 .. Len(keyConflicts) : keyConflicts[i].user # c.user
  PROVE  OneConflictEach'
<1>1. keyConflicts \in Seq(Conflict)
  BY DEF KeysTyped
<1>2. /\ Len(keyConflicts') = Len(keyConflicts) + 1 /\ Len(keyConflicts) \in Nat
      /\ \A i \in 1 .. Len(keyConflicts) : keyConflicts'[i] = keyConflicts[i]
      /\ keyConflicts'[Len(keyConflicts) + 1] = c
  BY <1>1, AppendProperties
<1>3. ASSUME NEW i \in 1 .. Len(keyConflicts'), NEW j \in 1 .. Len(keyConflicts'),
             keyConflicts'[i].user = keyConflicts'[j].user
      PROVE  i = j
  <2>1. /\ i \in 1 .. Len(keyConflicts) \/ i = Len(keyConflicts) + 1
        /\ j \in 1 .. Len(keyConflicts) \/ j = Len(keyConflicts) + 1
    BY <1>2
  <2>2. CASE i \in 1 .. Len(keyConflicts) /\ j \in 1 .. Len(keyConflicts)
    BY <1>2, <1>3, <2>2 DEF OneConflictEach
  <2>3. CASE i \in 1 .. Len(keyConflicts) /\ j = Len(keyConflicts) + 1
    BY <1>2, <1>3, <2>3
  <2>4. CASE i = Len(keyConflicts) + 1 /\ j \in 1 .. Len(keyConflicts)
    BY <1>2, <1>3, <2>4
  <2>. QED
    BY <2>1, <2>2, <2>3, <2>4
<1>. QED
  BY <1>3 DEF OneConflictEach

LEMMA OneConflictNext ==
  ASSUME KeysTyped, TasksTyped, OneConflictEach, [KeyTrustNext]_keyTrustVars
  PROVE  OneConflictEach'
<1>1. CASE UNCHANGED keyConflicts
  BY <1>1 DEF OneConflictEach
<1>2. ASSUME NEW t \in tasks, LookupAnswered(t) PROVE OneConflictEach'
  <2>1. PICK k \in t.from .. published[t.user] :
          IF Changed(t.user, k) THEN Report(t, [user |-> t.user, key |-> k]) ELSE SealFor(t, k)
    BY <1>2 DEF LookupAnswered
  <2>. DEFINE c == [user |-> t.user, key |-> k]
  <2>2. c \in Conflict
    BY KeyAnswered DEF Conflict
  <2>3. \/ UNCHANGED keyConflicts
        \/ /\ keyConflicts' = Append(keyConflicts, c)
           /\ \A i \in 1 .. Len(keyConflicts) : keyConflicts[i].user # c.user
    BY <2>1 DEF Report, SealFor
  <2>. HIDE DEF c
  <2>. QED
    BY <1>1, <2>2, <2>3, ConflictAdded
<1>3. CASE TrustKeyConflict \/ DismissKeyConflict
  BY <1>3, ConflictTaken DEF TrustKeyConflict, DismissKeyConflict, DropConflict
<1>4. ASSUME NEW t \in tasks, Failed(t) \/ Posted(t) PROVE OneConflictEach'
  BY <1>1, <1>4 DEF Failed, Posted, pageConflictVars
<1>5. ASSUME NEW p \in Person \cup {Nobody}, SetEmail(p) PROVE OneConflictEach'
  BY <1>1, <1>5 DEF SetEmail, pageConflictVars
<1>6. ASSUME NEW p \in Person, \/ PublishKey(p) \/ RequestRemove(p) \/ GrantAccess(p)
                               \/ ResolveAuthor(p) \/ AuthorResolved(p) \/ AuthorUnreachable(p)
      PROVE  OneConflictEach'
  BY <1>1, <1>6
  DEF PublishKey, RequestRemove, GrantAccess, ResolveAuthor, AuthorResolved, AuthorUnreachable,
      pageConflictVars
<1>7. ASSUME NEW S \in SUBSET Person \ {{}}, ReconcilePending(S) PROVE OneConflictEach'
  BY <1>1, <1>7 DEF ReconcilePending, pageConflictVars
<1>8. CASE OpenShare \/ CloseShare \/ SubmitInvite \/ TrustAndRetryInvite \/ CancelKeyChange
  BY <1>1, <1>8 DEF OpenShare, CloseShare, SubmitInvite, TrustAndRetryInvite, CancelKeyChange,
     pageConflictVars
<1>9. CASE \/ CancelRemove \/ ConfirmRemove \/ TrustAndRetryRemove \/ CancelRemoveKeyChange
           \/ RequestCloseWarning
  BY <1>1, <1>9 DEF CancelRemove, ConfirmRemove, TrustAndRetryRemove, CancelRemoveKeyChange,
     RequestCloseWarning, pageConflictVars
<1>10. CASE UNCHANGED keyTrustVars
  BY <1>1, <1>10 DEF keyTrustVars
<1>. QED
  BY <1>2, <1>3, <1>4, <1>5, <1>6, <1>7, <1>8, <1>9, <1>10 DEF KeyTrustNext

LEMMA DialogTypedNext == ASSUME DialogTyped, [KeyTrustNext]_keyTrustVars PROVE DialogTyped'
<1>. USE DEF DialogTyped
<1>1. CASE UNCHANGED <<sharing, closing>>
  BY <1>1
<1>2. ASSUME NEW t \in tasks, LookupAnswered(t) \/ Failed(t) \/ Posted(t) PROVE DialogTyped'
  BY <1>1, <1>2 DEF LookupAnswered, Failed, Posted, pageConflictVars
<1>3. CASE OpenShare
  BY <1>3 DEF OpenShare, pageConflictVars
<1>4. CASE CloseShare
  <2>1. sharing' \in BOOLEAN
    BY <1>4, Zenon DEF CloseShare
  <2>. QED
    BY <1>4, <2>1 DEF CloseShare, pageConflictVars
<1>5. CASE TrustKeyConflict
  BY <1>5 DEF TrustKeyConflict, DropConflict
<1>6. CASE DismissKeyConflict
  BY <1>6 DEF DismissKeyConflict, DropConflict
<1>7. CASE RequestCloseWarning
  BY <1>7 DEF RequestCloseWarning
<1>8. ASSUME NEW p \in Person \cup {Nobody}, SetEmail(p) PROVE DialogTyped'
  BY <1>1, <1>8 DEF SetEmail, pageConflictVars
<1>9. ASSUME NEW p \in Person, \/ PublishKey(p) \/ RequestRemove(p) \/ GrantAccess(p)
                               \/ ResolveAuthor(p) \/ AuthorResolved(p) \/ AuthorUnreachable(p)
      PROVE  DialogTyped'
  BY <1>1, <1>9
  DEF PublishKey, RequestRemove, GrantAccess, ResolveAuthor, AuthorResolved, AuthorUnreachable,
      pageConflictVars
<1>10. ASSUME NEW S \in SUBSET Person \ {{}}, ReconcilePending(S) PROVE DialogTyped'
  BY <1>1, <1>10 DEF ReconcilePending, pageConflictVars
<1>11. CASE \/ SubmitInvite \/ TrustAndRetryInvite \/ CancelKeyChange \/ CancelRemove
            \/ ConfirmRemove \/ TrustAndRetryRemove \/ CancelRemoveKeyChange
  BY <1>1, <1>11 DEF SubmitInvite, TrustAndRetryInvite, CancelKeyChange, CancelRemove, ConfirmRemove,
     TrustAndRetryRemove, CancelRemoveKeyChange, pageConflictVars
<1>12. CASE UNCHANGED keyTrustVars
  BY <1>1, <1>12 DEF keyTrustVars
<1>. QED
  BY <1>2, <1>3, <1>4, <1>5, <1>6, <1>7, <1>8, <1>9, <1>10, <1>11, <1>12 DEF KeyTrustNext

(* What is accepted is a key of a person: a warning that can be confirmed  *)
(* is there.                                                               *)
LEMMA AcceptedTypedNext ==
  ASSUME KeysTyped, TasksTyped, AcceptedTyped, [KeyTrustNext]_keyTrustVars
  PROVE  AcceptedTyped'
<1>. USE DEF AcceptedTyped
<1>1. CASE UNCHANGED accepted
  BY <1>1
<1>2. ASSUME NEW c \in Conflict, TrustKey(c) PROVE AcceptedTyped'
  BY <1>2 DEF TrustKey, Conflict
<1>3. ASSUME NEW p \in Person, NEW k \in PublicKey, TrustOnFirstUse(p, k) PROVE AcceptedTyped'
  BY <1>3 DEF TrustOnFirstUse
<1>4. ASSUME NEW t \in tasks, LookupAnswered(t) PROVE AcceptedTyped'
  <2>1. PICK k \in t.from .. published[t.user] :
          IF Changed(t.user, k) THEN Report(t, [user |-> t.user, key |-> k]) ELSE SealFor(t, k)
    BY <1>4 DEF LookupAnswered
  <2>2. t.user \in Person /\ k \in PublicKey
    BY KeyAnswered
  <2>3. UNCHANGED accepted \/ TrustOnFirstUse(t.user, k)
    BY <2>1 DEF Report, SealFor
  <2>. QED
    BY <1>1, <1>3, <2>2, <2>3
<1>5. ASSUME NEW p \in Person, AuthorResolved(p) PROVE AcceptedTyped'
  <2>1. PICK k \in resolving[p] .. published[p] : UNCHANGED accepted \/ TrustOnFirstUse(p, k)
    BY <1>5 DEF AuthorResolved
  <2>2. k \in PublicKey
    BY <1>5, KeyTrustAssumption DEF AuthorResolved, PublicKey, KeysTyped
  <2>. QED
    BY <1>1, <1>3, <2>1, <2>2
<1>6. CASE TrustAndRetryInvite
  <2>1. keyChange \in Conflict /\ TrustKey(keyChange)
    BY <1>6 DEF TrustAndRetryInvite, Shows, Overlay, KeysTyped
  <2>. QED
    BY <1>2, <2>1
<1>7. CASE TrustAndRetryRemove
  <2>1. removeKeyChange \in Conflict /\ TrustKey(removeKeyChange)
    BY <1>7 DEF TrustAndRetryRemove, Shows, Overlay, KeysTyped
  <2>. QED
    BY <1>2, <2>1
<1>8. CASE TrustKeyConflict
  <2>1. Head(keyConflicts) \in Conflict /\ TrustKey(Head(keyConflicts))
    BY <1>8, HeadTailProperties DEF TrustKeyConflict, KeysTyped
  <2>. QED
    BY <1>2, <2>1
<1>9. ASSUME NEW t \in tasks, Failed(t) \/ Posted(t) PROVE AcceptedTyped'
  BY <1>1, <1>9 DEF Failed, Posted
<1>10. ASSUME NEW p \in Person \cup {Nobody}, SetEmail(p) PROVE AcceptedTyped'
  BY <1>1, <1>10 DEF SetEmail
<1>11. ASSUME NEW p \in Person, \/ PublishKey(p) \/ RequestRemove(p) \/ GrantAccess(p)
                                \/ ResolveAuthor(p) \/ AuthorUnreachable(p)
       PROVE  AcceptedTyped'
  BY <1>1, <1>11 DEF PublishKey, RequestRemove, GrantAccess, ResolveAuthor, AuthorUnreachable
<1>12. ASSUME NEW S \in SUBSET Person \ {{}}, ReconcilePending(S) PROVE AcceptedTyped'
  BY <1>1, <1>12 DEF ReconcilePending
<1>13. CASE \/ OpenShare \/ CloseShare \/ SubmitInvite \/ CancelKeyChange \/ CancelRemove
            \/ ConfirmRemove \/ CancelRemoveKeyChange \/ RequestCloseWarning \/ DismissKeyConflict
  BY <1>1, <1>13 DEF OpenShare, CloseShare, SubmitInvite, CancelKeyChange, CancelRemove,
     ConfirmRemove, CancelRemoveKeyChange, RequestCloseWarning, DismissKeyConflict
<1>14. CASE UNCHANGED keyTrustVars
  BY <1>1, <1>14 DEF keyTrustVars
<1>. QED
  BY <1>4, <1>5, <1>6, <1>7, <1>8, <1>9, <1>10, <1>11, <1>12, <1>13, <1>14 DEF KeyTrustNext

(* Warnings of different users are no more than there are users.           *)
LEMMA ConflictsFew ==
  ASSUME KeysTyped, OneConflictEach PROVE Len(keyConflicts) <= Cardinality(Person)
<1>. DEFINE n == Len(keyConflicts)
            who == [i \in 1 .. n |-> keyConflicts[i].user]
<1>1. n \in Nat /\ \A i \in 1 .. n : keyConflicts[i] \in Conflict
  BY DEF KeysTyped
<1>2. who \in [1 .. n -> Person] /\ \A i, j \in 1 .. n : who[i] = who[j] => i = j
  BY <1>1 DEF Conflict, OneConflictEach
<1>. HIDE DEF who, n
<1>3. who \in Injection(1 .. n, Person)
  BY <1>2 DEF Injection, IsInjective
<1>4. Cardinality(1 .. n) <= Cardinality(Person)
  BY <1>3, FS_Injection, KeyTrustAssumption
<1>5. Cardinality(1 .. n) = n
  <2>1. 1 \in Int /\ n \in Int
    BY <1>1
  <2>2. Cardinality(1 .. n) = IF 1 > n THEN 0 ELSE n - 1 + 1
    BY <2>1, FS_Interval
  <2>. QED
    BY <1>1, <2>2
<1>. QED
  BY <1>4, <1>5 DEF n

(* The types of the trusted keys and the warnings; among them, that no two *)
(* warnings are of one user, so that a Confirm settles the one it shows    *)
(* (useKeyConflicts.ts).                                                   *)
THEOREM KeyTrustTypes == KeyTrustSpec => []KeyTrustTypeOK
<1>. DEFINE Inv == KeysTyped /\ TasksTyped /\ OneConflictEach /\ DialogTyped /\ AcceptedTyped
<1>1. KeyTrustInit => Inv
  <2> SUFFICES ASSUME KeyTrustInit PROVE Inv
    OBVIOUS
  <2>1. KeysTyped /\ TasksTyped
    BY TrustInvInit DEF TrustInv
  <2>2. sharing \in BOOLEAN
    BY Zenon DEF KeyTrustInit
  <2>. QED
    BY <2>1, <2>2 DEF KeyTrustInit, OneConflictEach, DialogTyped, AcceptedTyped
<1>2. Inv /\ [KeyTrustNext]_keyTrustVars => Inv'
  BY KeysTypedNext, TasksTypedNext, OneConflictNext, DialogTypedNext, AcceptedTypedNext
<1>3. Inv => KeyTrustTypeOK
  BY ConflictsFew DEF KeysTyped, TasksTyped, OneConflictEach, DialogTyped, AcceptedTyped, KeyTrustTypeOK
<1>. HIDE DEF Inv
<1>. QED
  BY <1>1, <1>2, <1>3, PTL DEF KeyTrustSpec
-----------------------------------------------------------------------------
(* The components of the client share no state: a step of the whole is a   *)
(* step of each of them, or leaves it alone.                               *)
LEMMA ClientBegins ==
  Init => /\ SessionsInit /\ IdentityInit /\ AutoLockInit
          /\ KeyTrustInit /\ DocumentPageInit /\ HistoryInit /\ VaultInit
BY DEF Init

LEMMA ClientMoves ==
  [Next]_<<webVars, part>> =>
    /\ [SessionsNext]_sessionsVars
    /\ [IdentityNext]_identityVars
    /\ [AutoLockNext]_lockVars
    /\ [KeyTrustNext]_keyTrustVars
    /\ [DocumentPageNext]_documentPageVars
    /\ [HistoryNext]_historyVars
    /\ [VaultNext]_vaultVars
BY DEF Next, webVars

(* Whatever component moves, every variable of the browser client keeps its*)
(* type: sessions, identity keys, the lock, trusted keys, the page, its    *)
(* history and the vault.                                                  *)
THEOREM ClientTypes == Spec => []ClientTypeOK
<1>1. Spec => SessionsSpec /\ IdentitySpec /\ AutoLockSpec
  BY ClientBegins, ClientMoves, PTL DEF Spec, SessionsSpec, IdentitySpec, AutoLockSpec
<1>2. Spec => KeyTrustSpec /\ DocumentPageSpec /\ HistorySpec /\ VaultSpec
  BY ClientBegins, ClientMoves, PTL DEF Spec, KeyTrustSpec, DocumentPageSpec, HistorySpec, VaultSpec
<1>3. IdentityInv => IdentityTypeOK
  BY DEF IdentityInv
<1>4. Spec => /\ []SessionsTypeOK /\ []IdentityTypeOK /\ []AutoLockTypeOK
              /\ []KeyTrustTypeOK /\ []DocumentPageTypeOK /\ []HistoryTypeOK /\ []VaultTypeOK
  BY <1>1, <1>2, <1>3, SessionsTypes, IdentityInvariant, AutoLockTypeCorrect, KeyTrustTypes,
     DocumentPageTypes, HistoryTypes, VaultTypes, PTL
<1>. QED
  BY <1>4, PTL DEF ClientTypeOK
=============================================================================
