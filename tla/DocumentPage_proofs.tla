------------------------ MODULE DocumentPage_proofs -------------------------
(***************************************************************************)
(* Theorems about the document page (DocumentPage) and its history         *)
(* (History), for every set of documents and versions, and every number of *)
(* routes taken, requests under way and keys rotated.                      *)
(***************************************************************************)
EXTENDS DocumentPage, History, TLAPS

(* What the route, the key ring and the editor are made of. The rest of    *)
(* the page never touches it.                                              *)
keyAndEditorVars == <<id, rendered, documentKey, keyTasks, dekCache, ringCache, keyEpoch,
                      keysCrossed, attempts, editor>>

Typed ==
  /\ id \in Doc
  /\ documentKey \in DocKey \cup {NoKey}
  /\ keyTasks \subseteq KeyTask /\ attempts \subseteq Attempt
  /\ dekCache \in [Doc -> 0 .. MaxEpoch] /\ ringCache \in [Doc -> 0 .. MaxEpoch]
  /\ keyEpoch \in [Doc -> 1 .. MaxEpoch]

(* What is live is the route's: one run of the key ring's effect at most,  *)
(* as long as the page has no key, and runs of the connection's effect     *)
(* with the key the page has.                                              *)
LiveTasks ==
  /\ \A t \in keyTasks : t.live => t.doc = id
  /\ \A s, t \in keyTasks : s.live /\ t.live => s = t
  /\ rendered => \A t \in keyTasks : t.live => documentKey = NoKey

LiveAttempts ==
  rendered => \A a \in attempts : a.live => a.doc = id /\ a.key = documentKey

NothingOpenYet == ~rendered => editor = NoKey

(* Where no fetch crossed a rotation, everything that is cached or under   *)
(* way is of the epoch the server has.                                     *)
CurrentOrNone(d, epoch) == d \notin keysCrossed /\ epoch # 0 => epoch = keyEpoch[d]
CachesCurrent == \A d \in Doc : CurrentOrNone(d, dekCache[d]) /\ CurrentOrNone(d, ringCache[d])
TasksCurrent ==
  \A t \in keyTasks :
    t.stage # "identity" => t.epoch # 0 /\ CurrentOrNone(t.doc, t.epoch)

PageInv ==
  /\ Typed /\ LiveTasks /\ LiveAttempts /\ NothingOpenYet /\ EditorFollowsRoute
  /\ CachesCurrent /\ TasksCurrent /\ KeyIsCurrent

LEMMA NoKeyIsNone == \A k \in DocKey : k # NoKey /\ k = [doc |-> k.doc, epoch |-> k.epoch]
BY DocumentPageAssumption DEF DocKey, NoKey

LEMMA PageInvInit == DocumentPageInit => PageInv
<1> SUFFICES ASSUME DocumentPageInit PROVE PageInv
  OBVIOUS
<1>1. Typed
  BY DocumentPageAssumption DEF DocumentPageInit, Typed, KeyEffect, KeyTask
<1>2. LiveTasks /\ LiveAttempts /\ NothingOpenYet /\ EditorFollowsRoute
  BY DEF DocumentPageInit, LiveTasks, LiveAttempts, NothingOpenYet, EditorFollowsRoute, KeyEffect
<1>3. CachesCurrent /\ TasksCurrent /\ KeyIsCurrent
  BY DEF DocumentPageInit, CachesCurrent, TasksCurrent, KeyIsCurrent, CurrentOrNone, KeyEffect
<1>. QED
  BY <1>1, <1>2, <1>3 DEF PageInv

(* The steps that are not of the route, the keys or the editor.            *)
LEMMA OtherSteps ==
  ASSUME [DocumentPageNext]_documentPageVars
  PROVE  \/ \E d \in Doc : Navigate(d)
         \/ RenderReset \/ ShareKeyRotated
         \/ \E t \in keyTasks : \/ KeyIdentityLoaded(t) \/ DekAnswered(t)
                                \/ RingAnswered(t) \/ KeyFailed(t)
         \/ \E a \in attempts : AttemptIdentityLoaded(a) \/ SeedLoaded(a)
         \/ UNCHANGED keyAndEditorVars
<1>1. ASSUME NEW r \in metaRequests, MetaAnswered(r) PROVE UNCHANGED keyAndEditorVars
  BY <1>1 DEF MetaAnswered, keyAndEditorVars, pageKeyVars, pageEditorVars
<1>2. ASSUME NEW r \in metaRequests, MetaFailed(r) PROVE UNCHANGED keyAndEditorVars
  BY <1>2 DEF MetaFailed, keyAndEditorVars, pageKeyVars, pageEditorVars
<1>3. ASSUME NEW r \in metaRequests, Written(r) PROVE UNCHANGED keyAndEditorVars
  BY <1>3 DEF Written, keyAndEditorVars, pageKeyVars, pageEditorVars
<1>4. ASSUME NEW r \in metaRequests, WriteFailed(r) PROVE UNCHANGED keyAndEditorVars
  BY <1>4 DEF WriteFailed, keyAndEditorVars, pageKeyVars, pageEditorVars
<1>5. ASSUME NEW r \in metaRequests, Reloaded(r) PROVE UNCHANGED keyAndEditorVars
  BY <1>5 DEF Reloaded, keyAndEditorVars, pageKeyVars, pageEditorVars
<1>6. ASSUME NEW part \in {"rename", "comment"}, Write(part) PROVE UNCHANGED keyAndEditorVars
  BY <1>6 DEF Write, keyAndEditorVars, pageKeyVars, pageEditorVars
<1>7. CASE UNCHANGED documentPageVars
  BY <1>7 DEF documentPageVars, keyAndEditorVars, pageKeyVars, pageEditorVars
<1>. QED
  BY <1>1, <1>2, <1>3, <1>4, <1>5, <1>6, <1>7 DEF DocumentPageNext

(* What is cancelled is not live, and otherwise what it was.               *)
LEMMA CancelledTasks ==
  ASSUME Typed, NEW x \in CancelAll(keyTasks)
  PROVE  /\ x \in KeyTask /\ ~x.live
         /\ \E t \in keyTasks : x.doc = t.doc /\ x.stage = t.stage /\ x.epoch = t.epoch
<1>1. PICK t \in keyTasks : x = [t EXCEPT !.live = FALSE]
  BY DEF CancelAll
<1>2. t \in KeyTask
  BY DEF Typed
<1>. QED
  BY <1>1, <1>2 DEF KeyTask

LEMMA CancelledAttempts ==
  ASSUME Typed, NEW x \in CancelAll(attempts)
  PROVE  x \in Attempt /\ ~x.live
<1>1. PICK a \in attempts : x = [a EXCEPT !.live = FALSE]
  BY DEF CancelAll
<1>2. a \in Attempt
  BY DEF Typed
<1>. QED
  BY <1>1, <1>2 DEF Attempt

LEMMA FreshEffects ==
  ASSUME NEW d \in Doc, NEW k \in DocKey
  PROVE  /\ KeyEffect(d) \in KeyTask /\ KeyEffect(d).live
         /\ KeyEffect(d).doc = d /\ KeyEffect(d).stage = "identity"
         /\ ConnectionEffect(d, k) \in Attempt /\ ConnectionEffect(d, k).live
         /\ ConnectionEffect(d, k).doc = d /\ ConnectionEffect(d, k).key = k
BY DocumentPageAssumption DEF KeyEffect, KeyTask, ConnectionEffect, Attempt

LEMMA FreshKeyEffect ==
  ASSUME NEW d \in Doc
  PROVE  /\ KeyEffect(d) \in KeyTask /\ KeyEffect(d).live
         /\ KeyEffect(d).doc = d /\ KeyEffect(d).stage = "identity"
BY DocumentPageAssumption DEF KeyEffect, KeyTask

(* The three outcomes of a run of the key ring's effect.                   *)
TaskEnds(t) ==
  /\ keyTasks' = keyTasks \ {t}
  /\ UNCHANGED <<documentKey, attempts>>

TaskGoesOn(t, stage, epoch) ==
  /\ stage \in {"dek", "history"} /\ epoch \in 1 .. MaxEpoch
  /\ KeyGoesOn(t, stage, epoch)
  /\ CurrentOrNone(t.doc, epoch)

TaskDelivers(t, epoch) ==
  /\ epoch \in 1 .. MaxEpoch /\ CurrentOrNone(t.doc, epoch)
  /\ t.live
  /\ keyTasks' = keyTasks \ {t}
  /\ documentKey' = [doc |-> t.doc, epoch |-> epoch]
  /\ attempts' = CancelAll(attempts) \cup {ConnectionEffect(id, documentKey')}

TaskStep(t) ==
  /\ rendered /\ UNCHANGED <<id, rendered, keyEpoch, keysCrossed, editor>>
  /\ dekCache' \in [Doc -> 0 .. MaxEpoch] /\ ringCache' \in [Doc -> 0 .. MaxEpoch]
  /\ \A d \in Doc : CurrentOrNone(d, dekCache'[d]) /\ CurrentOrNone(d, ringCache'[d])
  /\ \/ TaskEnds(t)
     \/ \E stage \in {"dek", "history"}, epoch \in 1 .. MaxEpoch : TaskGoesOn(t, stage, epoch)
     \/ \E epoch \in 1 .. MaxEpoch : TaskDelivers(t, epoch)

LEMMA ReadyEndsOrDelivers ==
  ASSUME Typed, NEW t \in keyTasks, NEW epoch \in 1 .. MaxEpoch, CurrentOrNone(t.doc, epoch),
         KeyReady(t, epoch)
  PROVE  TaskEnds(t) \/ TaskDelivers(t, epoch)
BY DEF KeyReady, TaskEnds, TaskDelivers

LEMMA TaskSteps ==
  ASSUME PageInv, NEW t \in keyTasks,
         KeyIdentityLoaded(t) \/ DekAnswered(t) \/ RingAnswered(t) \/ KeyFailed(t)
  PROVE  TaskStep(t)
<1>1. /\ t \in KeyTask /\ t.doc \in Doc
      /\ dekCache \in [Doc -> 0 .. MaxEpoch] /\ ringCache \in [Doc -> 0 .. MaxEpoch]
      /\ keyEpoch[t.doc] \in 1 .. MaxEpoch
      /\ \A d \in Doc : CurrentOrNone(d, dekCache[d]) /\ CurrentOrNone(d, ringCache[d])
      /\ t.stage # "identity" => t.epoch \in 1 .. MaxEpoch /\ CurrentOrNone(t.doc, t.epoch)
  <2>1. t \in KeyTask /\ t.doc \in Doc /\ t.epoch \in 0 .. MaxEpoch
    BY DEF PageInv, Typed, KeyTask
  <2>2. t.stage # "identity" => t.epoch # 0 /\ CurrentOrNone(t.doc, t.epoch)
    BY DEF PageInv, TasksCurrent
  <2>. QED
    BY <2>1, <2>2, DocumentPageAssumption DEF PageInv, Typed, CachesCurrent
<1>2. CASE KeyIdentityLoaded(t)
  <2>1. /\ rendered /\ UNCHANGED <<id, rendered, keyEpoch, keysCrossed, editor, dekCache, ringCache>>
    BY <1>2 DEF KeyIdentityLoaded
  <2>2. CASE ringCache[t.doc] # 0
    <3>1. ringCache[t.doc] \in 1 .. MaxEpoch
      BY <1>1, <2>2
    <3>2. KeyReady(t, ringCache[t.doc])
      BY <1>2, <2>2 DEF KeyIdentityLoaded
    <3>3. TaskEnds(t) \/ TaskDelivers(t, ringCache[t.doc])
      BY <1>1, <3>1, <3>2, ReadyEndsOrDelivers DEF PageInv
    <3>. QED
      BY <1>1, <2>1, <3>1, <3>3 DEF TaskStep
  <2>3. CASE ringCache[t.doc] = 0 /\ dekCache[t.doc] # 0
    <3>1. dekCache[t.doc] \in 1 .. MaxEpoch
      BY <1>1, <2>3
    <3>2. TaskGoesOn(t, "history", dekCache[t.doc])
      BY <1>1, <1>2, <2>3, <3>1 DEF KeyIdentityLoaded, TaskGoesOn
    <3>. QED
      BY <1>1, <2>1, <3>1, <3>2 DEF TaskStep
  <2>4. CASE ringCache[t.doc] = 0 /\ dekCache[t.doc] = 0
    <3>1. CurrentOrNone(t.doc, keyEpoch[t.doc])
      BY DEF CurrentOrNone
    <3>2. TaskGoesOn(t, "dek", keyEpoch[t.doc])
      BY <1>1, <1>2, <2>4, <3>1 DEF KeyIdentityLoaded, TaskGoesOn
    <3>. QED
      BY <1>1, <2>1, <3>2 DEF TaskStep
  <2>. QED
    BY <2>2, <2>3, <2>4
<1>3. CASE DekAnswered(t)
  <2>1. PICK epoch \in t.epoch .. keyEpoch[t.doc] :
          dekCache' = [dekCache EXCEPT ![t.doc] = epoch] /\ KeyGoesOn(t, "history", epoch)
    BY <1>3 DEF DekAnswered
  <2>2. t.epoch \in 1 .. MaxEpoch /\ CurrentOrNone(t.doc, t.epoch)
    BY <1>1, <1>3 DEF DekAnswered
  <2>3. epoch \in 1 .. MaxEpoch
    BY <1>1, <2>2, DocumentPageAssumption
  <2>4. CurrentOrNone(t.doc, epoch)
    BY <1>1, <2>2, <2>3 DEF CurrentOrNone
  <2>5. /\ rendered /\ UNCHANGED <<id, rendered, keyEpoch, keysCrossed, editor, ringCache>>
    BY <1>3 DEF DekAnswered
  <2>6. dekCache' \in [Doc -> 0 .. MaxEpoch] /\ \A d \in Doc : CurrentOrNone(d, dekCache'[d])
    <3>1. epoch \in 0 .. MaxEpoch
      BY <2>3
    <3>. QED
      BY <1>1, <2>1, <2>4, <3>1
  <2>7. TaskGoesOn(t, "history", epoch)
    BY <2>1, <2>3, <2>4 DEF TaskGoesOn
  <2>. QED
    BY <1>1, <2>3, <2>5, <2>6, <2>7 DEF TaskStep
<1>4. CASE RingAnswered(t)
  <2>1. t.epoch \in 1 .. MaxEpoch /\ t.epoch \in 0 .. MaxEpoch /\ CurrentOrNone(t.doc, t.epoch)
    BY <1>1, <1>4 DEF RingAnswered
  <2>2. /\ rendered /\ UNCHANGED <<id, rendered, keyEpoch, keysCrossed, editor, dekCache>>
        /\ ringCache' = [ringCache EXCEPT ![t.doc] = t.epoch]
        /\ KeyReady(t, t.epoch)
    BY <1>4 DEF RingAnswered
  <2>3. ringCache' \in [Doc -> 0 .. MaxEpoch] /\ \A d \in Doc : CurrentOrNone(d, ringCache'[d])
    BY <1>1, <2>1, <2>2
  <2>4. TaskEnds(t) \/ TaskDelivers(t, t.epoch)
    BY <1>1, <2>1, <2>2, ReadyEndsOrDelivers DEF PageInv
  <2>. QED
    BY <1>1, <2>1, <2>2, <2>3, <2>4 DEF TaskStep
<1>5. CASE KeyFailed(t)
  <2>1. /\ rendered
        /\ UNCHANGED <<id, rendered, keyEpoch, keysCrossed, editor, dekCache, ringCache, documentKey, attempts>>
        /\ keyTasks' = keyTasks \ {t}
    BY <1>5 DEF KeyFailed, pageEditorVars
  <2>. QED
    BY <1>1, <2>1 DEF TaskStep, TaskEnds
<1>. QED
  BY <1>2, <1>3, <1>4, <1>5

(* Such a step keeps the invariant.                                        *)
LEMMA TaskStepKeeps ==
  ASSUME PageInv, NEW t \in keyTasks, TaskStep(t)
  PROVE  PageInv'
<1>. USE DEF PageInv
<1>1. /\ rendered /\ UNCHANGED <<id, rendered, keyEpoch, keysCrossed, editor>>
      /\ dekCache' \in [Doc -> 0 .. MaxEpoch] /\ ringCache' \in [Doc -> 0 .. MaxEpoch]
      /\ \A d \in Doc : CurrentOrNone(d, dekCache'[d]) /\ CurrentOrNone(d, ringCache'[d])
  BY DEF TaskStep
<1>2. CachesCurrent'
  BY <1>1 DEF CachesCurrent, CurrentOrNone
<1>3. NothingOpenYet'
  BY <1>1 DEF NothingOpenYet
<1>4. CASE TaskEnds(t)
  <2>1. keyTasks' \subseteq keyTasks /\ UNCHANGED <<documentKey, attempts>>
    BY <1>4 DEF TaskEnds
  <2>2. Typed'
    BY <1>1, <2>1 DEF Typed
  <2>3. LiveTasks' /\ LiveAttempts'
    BY <1>1, <2>1 DEF LiveTasks, LiveAttempts
  <2>4. EditorFollowsRoute' /\ KeyIsCurrent'
    BY <1>1, <2>1 DEF EditorFollowsRoute, KeyIsCurrent
  <2>5. TasksCurrent'
    BY <1>1, <2>1 DEF TasksCurrent, CurrentOrNone
  <2>. QED
    BY <1>2, <1>3, <2>2, <2>3, <2>4, <2>5
<1>5. CASE \E stage \in {"dek", "history"}, epoch \in 1 .. MaxEpoch : TaskGoesOn(t, stage, epoch)
  <2>1. PICK stage \in {"dek", "history"}, epoch \in 1 .. MaxEpoch : TaskGoesOn(t, stage, epoch)
    BY <1>5
  <2>. DEFINE n == [t EXCEPT !.stage = stage, !.epoch = epoch]
  <2>2. /\ n \in KeyTask /\ n.doc = t.doc /\ n.live = t.live /\ n.stage = stage /\ n.epoch = epoch
    <3>1. t \in KeyTask /\ epoch \in 0 .. MaxEpoch
      BY DEF Typed
    <3>. HIDE DEF PageInv
    <3>. QED
      BY <3>1 DEF KeyTask
  <2>3. /\ keyTasks' = (keyTasks \ {t}) \cup {n} /\ UNCHANGED <<documentKey, attempts>>
        /\ CurrentOrNone(t.doc, epoch)
    BY <2>1 DEF TaskGoesOn, KeyGoesOn
  <2>. HIDE DEF n
  <2>4. Typed'
    BY <1>1, <2>2, <2>3 DEF Typed
  <2>5. LiveTasks' /\ LiveAttempts'
    BY <1>1, <2>2, <2>3 DEF LiveTasks, LiveAttempts
  <2>6. EditorFollowsRoute' /\ KeyIsCurrent'
    BY <1>1, <2>3 DEF EditorFollowsRoute, KeyIsCurrent
  <2>7. TasksCurrent'
    BY <1>1, <2>2, <2>3 DEF TasksCurrent, CurrentOrNone
  <2>. QED
    BY <1>2, <1>3, <2>4, <2>5, <2>6, <2>7
<1>6. CASE \E epoch \in 1 .. MaxEpoch : TaskDelivers(t, epoch)
  <2>1. PICK epoch \in 1 .. MaxEpoch : TaskDelivers(t, epoch)
    BY <1>6
  <2>. DEFINE k == [doc |-> t.doc, epoch |-> epoch]
  <2>2. t.doc \in Doc /\ k \in DocKey /\ k.doc = t.doc /\ k.epoch = epoch
    BY DEF Typed, KeyTask, DocKey
  <2>3. /\ t.live /\ keyTasks' = keyTasks \ {t} /\ documentKey' = k
        /\ attempts' = CancelAll(attempts) \cup {ConnectionEffect(id, k)}
        /\ CurrentOrNone(t.doc, epoch)
    BY <2>1 DEF TaskDelivers
  <2>. HIDE DEF k
  <2>4. t.doc = id /\ documentKey = NoKey /\ editor = NoKey
    BY <1>1, <2>3 DEF LiveTasks, EditorFollowsRoute
  <2>5. \A s \in keyTasks' : ~s.live
    BY <2>3 DEF LiveTasks
  <2>6. \A a \in attempts' : a \in Attempt /\ (a.live => a.doc = id /\ a.key = k)
    BY <2>2, <2>3, <2>4, CancelledAttempts, FreshEffects
  <2>7. Typed'
    BY <1>1, <2>2, <2>3, <2>6 DEF Typed
  <2>8. LiveTasks' /\ LiveAttempts'
    BY <1>1, <2>3, <2>5, <2>6 DEF LiveTasks, LiveAttempts
  <2>9. EditorFollowsRoute'
    BY <1>1, <2>2, <2>3, <2>4 DEF EditorFollowsRoute
  <2>10. KeyIsCurrent'
    BY <1>1, <2>2, <2>3 DEF KeyIsCurrent, CurrentOrNone
  <2>11. TasksCurrent'
    BY <1>1, <2>3 DEF TasksCurrent, CurrentOrNone
  <2>. QED
    BY <1>2, <1>3, <2>7, <2>8, <2>9, <2>10, <2>11
<1>. QED
  BY <1>4, <1>5, <1>6 DEF TaskStep

-----------------------------------------------------------------------------
LEMMA PageInvNext == PageInv /\ [DocumentPageNext]_documentPageVars => PageInv'
<1> SUFFICES ASSUME PageInv, [DocumentPageNext]_documentPageVars PROVE PageInv'
  OBVIOUS
<1>. USE DEF PageInv
<1>1. ASSUME NEW d \in Doc, Navigate(d) PROVE PageInv'
  <2>1. /\ id' = d /\ ~rendered' /\ editor' = NoKey
        /\ keyTasks' = CancelAll(keyTasks) \cup {KeyEffect(d)}
        /\ attempts' = CancelAll(attempts) \cup
             (IF documentKey = NoKey THEN {} ELSE {ConnectionEffect(d, documentKey)})
        /\ UNCHANGED <<documentKey, dekCache, ringCache, keyEpoch, keysCrossed>>
    BY <1>1 DEF Navigate
  <2>2. /\ \A x \in CancelAll(keyTasks) :
             /\ x \in KeyTask /\ ~x.live
             /\ \E t \in keyTasks : x.doc = t.doc /\ x.stage = t.stage /\ x.epoch = t.epoch
        /\ \A x \in CancelAll(attempts) : x \in Attempt
    BY CancelledTasks, CancelledAttempts
  <2>3. /\ KeyEffect(d) \in KeyTask /\ KeyEffect(d).doc = d /\ KeyEffect(d).stage = "identity"
        /\ documentKey # NoKey => ConnectionEffect(d, documentKey) \in Attempt
    BY FreshEffects, FreshKeyEffect DEF Typed
  <2>4. Typed'
    BY <2>1, <2>2, <2>3 DEF Typed
  <2>5. LiveTasks' /\ LiveAttempts' /\ NothingOpenYet' /\ EditorFollowsRoute'
    BY <2>1, <2>2, <2>3 DEF LiveTasks, LiveAttempts, NothingOpenYet, EditorFollowsRoute
  <2>6. CachesCurrent' /\ KeyIsCurrent'
    BY <2>1 DEF CachesCurrent, KeyIsCurrent, CurrentOrNone
  <2>7. TasksCurrent'
    BY <2>1, <2>2, <2>3 DEF TasksCurrent, CurrentOrNone
  <2>. QED
    BY <2>4, <2>5, <2>6, <2>7
<1>2. CASE RenderReset
  <2>1. /\ rendered' /\ ~rendered /\ documentKey' = NoKey /\ attempts' = CancelAll(attempts)
        /\ UNCHANGED <<id, keyTasks, dekCache, ringCache, keyEpoch, keysCrossed, editor>>
    BY <1>2 DEF RenderReset
  <2>2. \A x \in attempts' : x \in Attempt /\ ~x.live
    BY <2>1, CancelledAttempts
  <2>3. Typed'
    BY <2>1, <2>2 DEF Typed
  <2>4. LiveTasks' /\ LiveAttempts' /\ NothingOpenYet' /\ EditorFollowsRoute'
    BY <2>1, <2>2 DEF LiveTasks, LiveAttempts, NothingOpenYet, EditorFollowsRoute
  <2>5. CachesCurrent' /\ KeyIsCurrent' /\ TasksCurrent'
    BY <2>1 DEF CachesCurrent, KeyIsCurrent, TasksCurrent, CurrentOrNone
  <2>. QED
    BY <2>3, <2>4, <2>5
<1>3. CASE ShareKeyRotated
  <2>1. /\ documentKey' = NoKey /\ editor' = NoKey /\ UNCHANGED <<id, rendered>>
        /\ keyTasks' = CancelAll(keyTasks) \cup {KeyEffect(id)}
        /\ attempts' = CancelAll(attempts)
        /\ keyEpoch[id] < MaxEpoch /\ keyEpoch' = [keyEpoch EXCEPT ![id] = keyEpoch[id] + 1]
        /\ dekCache' = [dekCache EXCEPT ![id] = 0] /\ ringCache' = [ringCache EXCEPT ![id] = 0]
        /\ keysCrossed' = IF \E t \in keyTasks : t.doc = id THEN keysCrossed \cup {id} ELSE keysCrossed
    BY <1>3 DEF ShareKeyRotated
  <2>2. /\ \A x \in CancelAll(keyTasks) :
             /\ x \in KeyTask /\ ~x.live
             /\ \E t \in keyTasks : x.doc = t.doc /\ x.stage = t.stage /\ x.epoch = t.epoch
        /\ \A x \in CancelAll(attempts) : x \in Attempt /\ ~x.live
    BY CancelledTasks, CancelledAttempts
  <2>3. id \in Doc /\ KeyEffect(id) \in KeyTask /\ KeyEffect(id).doc = id /\ KeyEffect(id).stage = "identity"
    BY FreshKeyEffect DEF Typed
  <2>4. Typed'
    <3>1. keyEpoch[id] + 1 \in 1 .. MaxEpoch /\ 0 \in 0 .. MaxEpoch
      BY <2>1, <2>3, DocumentPageAssumption DEF Typed
    <3>. QED
      BY <2>1, <2>2, <2>3, <3>1 DEF Typed
  <2>5. LiveTasks' /\ LiveAttempts' /\ NothingOpenYet' /\ EditorFollowsRoute'
    BY <2>1, <2>2, <2>3 DEF LiveTasks, LiveAttempts, NothingOpenYet, EditorFollowsRoute
  <2>6. keysCrossed \subseteq keysCrossed' /\ \A d \in Doc : d # id => keyEpoch'[d] = keyEpoch[d]
    BY <2>1 DEF Typed
  <2>7. CachesCurrent'
    <3>1. ASSUME NEW d \in Doc PROVE dekCache'[d] \in {0, dekCache[d]} /\ ringCache'[d] \in {0, ringCache[d]}
                                     /\ (d = id => dekCache'[d] = 0 /\ ringCache'[d] = 0)
      BY <2>1 DEF Typed
    <3>. QED
      BY <2>6, <3>1 DEF CachesCurrent, CurrentOrNone
  <2>8. KeyIsCurrent'
    BY <2>1 DEF KeyIsCurrent
  <2>9. TasksCurrent'
    <3>1. ASSUME NEW x \in CancelAll(keyTasks), x.stage # "identity"
          PROVE  x.epoch # 0 /\ (x.doc \notin keysCrossed' => x.epoch = keyEpoch'[x.doc])
      <4>1. PICK t \in keyTasks : x.doc = t.doc /\ x.stage = t.stage /\ x.epoch = t.epoch
        BY <2>2
      <4>2. t.epoch # 0 /\ CurrentOrNone(t.doc, t.epoch) /\ t.doc \in Doc
        BY <3>1, <4>1 DEF TasksCurrent, Typed, KeyTask
      <4>3. CASE t.doc = id
        BY <2>1, <4>1, <4>2, <4>3
      <4>4. CASE t.doc # id
        BY <2>6, <4>1, <4>2, <4>4 DEF CurrentOrNone
      <4>. QED
        BY <4>3, <4>4
    <3>. QED
      BY <2>1, <2>3, <3>1 DEF TasksCurrent, CurrentOrNone
  <2>. QED
    BY <2>4, <2>5, <2>7, <2>8, <2>9
<1>4. ASSUME NEW t \in keyTasks, KeyIdentityLoaded(t) PROVE PageInv'
  BY <1>4, TaskSteps, TaskStepKeeps
<1>5. ASSUME NEW t \in keyTasks, DekAnswered(t) PROVE PageInv'
  BY <1>5, TaskSteps, TaskStepKeeps
<1>6. ASSUME NEW t \in keyTasks, RingAnswered(t) PROVE PageInv'
  BY <1>6, TaskSteps, TaskStepKeeps
<1>7. ASSUME NEW t \in keyTasks, KeyFailed(t) PROVE PageInv'
  BY <1>7, TaskSteps, TaskStepKeeps
<1>8. ASSUME NEW a \in attempts, AttemptIdentityLoaded(a) PROVE PageInv'
  <2>1. /\ attempts' = (attempts \ {a}) \cup {[a EXCEPT !.stage = "seed"]}
        /\ UNCHANGED <<id, rendered, documentKey, keyTasks, dekCache, ringCache, keyEpoch, keysCrossed, editor>>
    BY <1>8 DEF AttemptIdentityLoaded, pageKeyVars
  <2>2. LET n == [a EXCEPT !.stage = "seed"]
        IN  n \in Attempt /\ n.doc = a.doc /\ n.key = a.key /\ n.live = a.live
    <3>1. a \in Attempt
      BY DEF Typed
    <3>. QED
      BY <3>1 DEF Attempt
  <2>3. Typed'
    BY <2>1, <2>2 DEF Typed
  <2>4. LiveAttempts'
    BY <2>1, <2>2 DEF LiveAttempts
  <2>5. LiveTasks' /\ NothingOpenYet' /\ EditorFollowsRoute'
    BY <2>1 DEF LiveTasks, NothingOpenYet, EditorFollowsRoute
  <2>6. CachesCurrent' /\ TasksCurrent' /\ KeyIsCurrent'
    BY <2>1 DEF CachesCurrent, TasksCurrent, KeyIsCurrent, CurrentOrNone
  <2>. QED
    BY <2>3, <2>4, <2>5, <2>6
<1>9. ASSUME NEW a \in attempts, SeedLoaded(a) PROVE PageInv'
  <2>1. /\ rendered /\ attempts' = attempts \ {a}
        /\ editor' = IF a.live
                     THEN [doc |-> a.doc, epoch |-> IF a.key.doc = a.doc THEN a.key.epoch ELSE 0]
                     ELSE editor
        /\ UNCHANGED <<id, rendered, documentKey, keyTasks, dekCache, ringCache, keyEpoch, keysCrossed>>
    BY <1>9 DEF SeedLoaded, pageKeyVars
  <2>2. Typed' /\ LiveAttempts' /\ LiveTasks' /\ NothingOpenYet'
    BY <2>1 DEF Typed, LiveAttempts, LiveTasks, NothingOpenYet
  <2>3. CachesCurrent' /\ TasksCurrent' /\ KeyIsCurrent'
    BY <2>1 DEF CachesCurrent, TasksCurrent, KeyIsCurrent, CurrentOrNone
  <2>4. EditorFollowsRoute'
    <3>1. CASE a.live
      <4>1. a.doc = id /\ a.key = documentKey /\ a.key \in DocKey
        BY <2>1, <3>1 DEF LiveAttempts, Typed, Attempt
      <4>2. documentKey # NoKey /\ documentKey.doc = id
        BY <2>1, <4>1, NoKeyIsNone DEF EditorFollowsRoute
      <4>3. editor' = documentKey
        BY <2>1, <3>1, <4>1, <4>2, NoKeyIsNone
      <4>. QED
        BY <2>1, <4>2, <4>3 DEF EditorFollowsRoute
    <3>2. CASE ~a.live
      BY <2>1, <3>2 DEF EditorFollowsRoute
    <3>. QED
      BY <3>1, <3>2
  <2>. QED
    BY <2>2, <2>3, <2>4
<1>10. CASE UNCHANGED keyAndEditorVars
  <2>1. Typed' /\ LiveTasks' /\ LiveAttempts' /\ NothingOpenYet' /\ EditorFollowsRoute'
    BY <1>10 DEF keyAndEditorVars, Typed, LiveTasks, LiveAttempts, NothingOpenYet, EditorFollowsRoute
  <2>2. CachesCurrent' /\ TasksCurrent' /\ KeyIsCurrent'
    BY <1>10 DEF keyAndEditorVars, CachesCurrent, TasksCurrent, KeyIsCurrent, CurrentOrNone
  <2>. QED
    BY <2>1, <2>2
<1>. QED
  BY <1>1, <1>2, <1>3, <1>4, <1>5, <1>6, <1>7, <1>8, <1>9, <1>10, OtherSteps

LEMMA PageInvariant == DocumentPageSpec => []PageInv
BY PageInvInit, PageInvNext, PTL DEF DocumentPageSpec

(* The editor edits the route's document with the route's key, for any     *)
(* number of documents visited while fetches are under way: the isCancelled*)
(* checks of useDocumentKeyRing.ts and documentConnection.ts are enough.   *)
THEOREM EditsItsOwnDocument == DocumentPageSpec => []EditorFollowsRoute
<1>1. PageInv => EditorFollowsRoute
  BY DEF PageInv
<1>. QED
  BY <1>1, PageInvariant, PTL

(* The page's key is the current one unless a fetch crossed the rotation,  *)
(* for any number of rotations: clearing both caches, as                   *)
(* handleShareKeyRotated does, is enough.                                  *)
THEOREM WritesWithCurrentKey == DocumentPageSpec => []KeyIsCurrent
<1>1. PageInv => KeyIsCurrent
  BY DEF PageInv
<1>. QED
  BY <1>1, PageInvariant, PTL
-----------------------------------------------------------------------------
(* What the page shows of the document.                                    *)

(* What is not shown is on its way: a fetch of the route's document was    *)
(* sent when the route changed, and only its answer or its failure ends it.*)
Fetching(part) == [doc |-> id, part |-> part] \in metaRequests
OnItsWay ==
  ~failed /\ ~astray => /\ docInfo = id \/ Fetching("info")
                        /\ comments = {id} \/ Fetching("comments")
MetaInv == metaRequests \subseteq MetaRequest /\ id \in Doc /\ OnItsWay

LEMMA MetaRequestIs ==
  ASSUME metaRequests \subseteq MetaRequest, NEW r \in metaRequests
  PROVE  r = [doc |-> r.doc, part |-> r.part] /\ r.doc \in Doc
BY DEF MetaRequest

LEMMA MetaInvInit == DocumentPageInit => MetaInv
BY DEF DocumentPageInit, MetaInv, OnItsWay, Fetching, MetaFetches, MetaRequest

LEMMA MetaInvStep == MetaInv /\ [DocumentPageNext]_documentPageVars => MetaInv'
<1> SUFFICES ASSUME MetaInv, [DocumentPageNext]_documentPageVars PROVE MetaInv'
  OBVIOUS
<1>. USE DEF MetaInv
<1>1. ASSUME NEW d \in Doc, Navigate(d) PROVE MetaInv'
  BY <1>1 DEF Navigate, OnItsWay, Fetching, MetaFetches, MetaRequest
<1>2. CASE UNCHANGED <<id, pageMetaVars>>
  BY <1>2 DEF OnItsWay, Fetching, pageMetaVars
<1>3. ASSUME NEW r \in metaRequests, MetaAnswered(r) PROVE MetaInv'
  <2>1. r = [doc |-> r.doc, part |-> r.part] /\ r.doc \in Doc
    BY MetaRequestIs
  <2>2. CASE r.doc # id
    BY <1>3, <2>1, <2>2 DEF MetaAnswered, OnItsWay, Fetching
  <2>3. CASE r.doc = id
    BY <1>3, <2>1, <2>3 DEF MetaAnswered, Show, OnItsWay, Fetching
  <2>. QED
    BY <2>2, <2>3
<1>4. ASSUME NEW r \in metaRequests, MetaFailed(r) PROVE MetaInv'
  <2>1. r = [doc |-> r.doc, part |-> r.part] /\ r.doc \in Doc
    BY MetaRequestIs
  <2>2. ~failed' => ~failed /\ r.doc # id
    BY <1>4, Zenon DEF MetaFailed
  <2>. QED
    BY <1>4, <2>1, <2>2 DEF MetaFailed, OnItsWay, Fetching
<1>5. ASSUME NEW r \in metaRequests, Written(r) PROVE MetaInv'
  <2>1. ~astray' => ~astray /\ (r.part = "comment" => r.doc = id)
    BY <1>5, Zenon DEF Written
  <2>. QED
    BY <1>5, <2>1 DEF Written, OnItsWay, Fetching
<1>6. ASSUME NEW r \in metaRequests, WriteFailed(r) PROVE MetaInv'
  <2>1. [r EXCEPT !.part = IF r.part = "rename" THEN "reload" ELSE "comments"] \in MetaRequest
    BY DEF MetaRequest
  <2>. QED
    BY <1>6, <2>1 DEF WriteFailed, OnItsWay, Fetching
<1>7. ASSUME NEW r \in metaRequests, Reloaded(r) PROVE MetaInv'
  <2>1. ~astray' => ~astray /\ docInfo' = id
    BY <1>7, Zenon DEF Reloaded
  <2>. QED
    BY <1>7, <2>1 DEF Reloaded, OnItsWay, Fetching
<1>8. ASSUME NEW part \in {"rename", "comment"}, Write(part) PROVE MetaInv'
  BY <1>8 DEF Write, OnItsWay, Fetching, MetaRequest
<1>9. CASE RenderReset \/ ShareKeyRotated
  BY <1>9, <1>2 DEF RenderReset, ShareKeyRotated
<1>10. ASSUME NEW t \in keyTasks, KeyIdentityLoaded(t) \/ DekAnswered(t) \/ RingAnswered(t) \/ KeyFailed(t)
       PROVE MetaInv'
  BY <1>10, <1>2 DEF KeyIdentityLoaded, DekAnswered, RingAnswered, KeyFailed
<1>11. ASSUME NEW a \in attempts, AttemptIdentityLoaded(a) \/ SeedLoaded(a) PROVE MetaInv'
  BY <1>11, <1>2 DEF AttemptIdentityLoaded, SeedLoaded
<1>12. CASE UNCHANGED documentPageVars
  BY <1>12, <1>2 DEF documentPageVars
<1>. QED
  BY <1>1, <1>3, <1>4, <1>5, <1>6, <1>7, <1>8, <1>9, <1>10, <1>11, <1>12 DEF DocumentPageNext

(* When nothing is on its way the page shows the document of its route:    *)
(* the checks of useDocumentMeta before it sets what it fetched are enough.*)
THEOREM ShowsItsDocument == DocumentPageSpec => []PageShowsItsDocument
<1>1. MetaInv => PageShowsItsDocument
  BY DEF MetaInv, OnItsWay, Fetching, PageShowsItsDocument
<1>. QED
  BY <1>1, MetaInvInit, MetaInvStep, PTL DEF DocumentPageSpec
-----------------------------------------------------------------------------
(* The types, with what the invariants above do not speak of.              *)
ViewTyped ==
  /\ visits \in 0 .. MaxVisits /\ rendered \in BOOLEAN
  /\ docInfo \in Doc \cup {NoDoc} /\ comments \subseteq Doc
  /\ astray \in BOOLEAN /\ failed \in BOOLEAN
KeyStatusTyped ==
  /\ keyStatus \in {"loading", "ready", "unavailable"} /\ keysCrossed \subseteq Doc
  /\ keyStatus = "ready" <=> documentKey # NoKey
PageTypes == PageInv /\ MetaInv /\ ViewTyped /\ KeyStatusTyped

LEMMA PageTypesInit == DocumentPageInit => PageTypes
<1> SUFFICES ASSUME DocumentPageInit PROVE PageTypes
  OBVIOUS
<1>1. ViewTyped
  <2>1. rendered \in BOOLEAN /\ astray \in BOOLEAN /\ failed \in BOOLEAN
    BY Zenon DEF DocumentPageInit
  <2>. QED
    BY <2>1, DocumentPageAssumption DEF DocumentPageInit, ViewTyped
<1>2. KeyStatusTyped
  BY DEF DocumentPageInit, KeyStatusTyped
<1>. QED
  BY <1>1, <1>2, PageInvInit, MetaInvInit DEF PageTypes

LEMMA ViewTypedStep ==
  ASSUME PageInv, MetaInv, ViewTyped, [DocumentPageNext]_documentPageVars
  PROVE  ViewTyped'
<1>. USE DEF ViewTyped
<1>1. visits \in Nat /\ MaxVisits \in Nat
  BY DocumentPageAssumption
<1>2. \A r \in metaRequests : r.doc \in Doc
  BY MetaRequestIs DEF MetaInv
<1>3. CASE UNCHANGED <<visits, rendered, pageMetaVars>>
  BY <1>3 DEF pageMetaVars
<1>4. ASSUME NEW d \in Doc, Navigate(d) PROVE ViewTyped'
  <2>1. visits < MaxVisits
    BY <1>4 DEF Navigate, MayAct
  <2>2. rendered' \in BOOLEAN /\ failed' \in BOOLEAN
    BY <1>4, Zenon DEF Navigate
  <2>. QED
    BY <1>1, <1>4, <2>1, <2>2 DEF Navigate
<1>5. CASE RenderReset
  BY <1>5 DEF RenderReset, pageMetaVars
<1>6. ASSUME NEW r \in metaRequests, MetaAnswered(r) PROVE ViewTyped'
  BY <1>2, <1>6 DEF MetaAnswered, Show
<1>7. ASSUME NEW r \in metaRequests, MetaFailed(r) PROVE ViewTyped'
  <2>1. failed' \in BOOLEAN
    BY <1>7, Zenon DEF MetaFailed
  <2>. QED
    BY <1>2, <1>7, <2>1 DEF MetaFailed
<1>8. ASSUME NEW r \in metaRequests, Written(r) PROVE ViewTyped'
  <2>1. astray' \in BOOLEAN
    BY <1>8, Zenon DEF Written
  <2>. QED
    BY <1>2, <1>8, <2>1 DEF Written
<1>9. ASSUME NEW r \in metaRequests, WriteFailed(r) PROVE ViewTyped'
  BY <1>9 DEF WriteFailed
<1>10. ASSUME NEW r \in metaRequests, Reloaded(r) PROVE ViewTyped'
  <2>1. astray' \in BOOLEAN
    BY <1>10, Zenon DEF Reloaded
  <2>. QED
    BY <1>2, <1>10, <2>1 DEF Reloaded
<1>11. ASSUME NEW part \in {"rename", "comment"}, Write(part) PROVE ViewTyped'
  BY <1>1, <1>11 DEF Write, MayAct
<1>12. CASE ShareKeyRotated
  BY <1>3, <1>12 DEF ShareKeyRotated
<1>13. ASSUME NEW t \in keyTasks, KeyIdentityLoaded(t) \/ DekAnswered(t) \/ RingAnswered(t) \/ KeyFailed(t)
       PROVE ViewTyped'
  BY <1>3, <1>13 DEF KeyIdentityLoaded, DekAnswered, RingAnswered, KeyFailed
<1>14. ASSUME NEW a \in attempts, AttemptIdentityLoaded(a) \/ SeedLoaded(a) PROVE ViewTyped'
  BY <1>3, <1>14 DEF AttemptIdentityLoaded, SeedLoaded
<1>15. CASE UNCHANGED documentPageVars
  BY <1>3, <1>15 DEF documentPageVars
<1>. QED
  BY <1>4, <1>5, <1>6, <1>7, <1>8, <1>9, <1>10, <1>11, <1>12, <1>13, <1>14, <1>15 DEF DocumentPageNext

(* A run of the key ring's effect that delivers makes the status ready; one*)
(* that fails and counts finds the page without a key.                     *)
LEMMA KeyStatusStep ==
  ASSUME PageInv, KeyStatusTyped, [DocumentPageNext]_documentPageVars
  PROVE  KeyStatusTyped'
<1>. USE DEF KeyStatusTyped
<1>1. CASE UNCHANGED <<documentKey, keyStatus, keysCrossed>>
  BY <1>1
<1>2. ASSUME NEW d \in Doc, Navigate(d) PROVE KeyStatusTyped'
  BY <1>1, <1>2 DEF Navigate
<1>3. CASE RenderReset
  BY <1>3 DEF RenderReset
<1>4. CASE ShareKeyRotated
  BY <1>4 DEF ShareKeyRotated, PageInv, Typed
<1>5. ASSUME NEW t \in keyTasks, NEW epoch \in 1 .. MaxEpoch, KeyReady(t, epoch), UNCHANGED keysCrossed
      PROVE  KeyStatusTyped'
  <2>1. [doc |-> t.doc, epoch |-> epoch] \in DocKey
    BY DEF PageInv, Typed, KeyTask, DocKey
  <2>2. [doc |-> t.doc, epoch |-> epoch] # NoKey
    BY <2>1, NoKeyIsNone
  <2>. QED
    BY <1>1, <1>5, <2>2 DEF KeyReady
<1>6. ASSUME NEW t \in keyTasks, KeyIdentityLoaded(t) PROVE KeyStatusTyped'
  <2>1. t.doc \in Doc /\ ringCache[t.doc] \in 0 .. MaxEpoch
    BY DEF PageInv, Typed, KeyTask
  <2>2. CASE ringCache[t.doc] # 0
    <3>1. ringCache[t.doc] \in 1 .. MaxEpoch
      BY <2>1, <2>2, DocumentPageAssumption
    <3>. QED
      BY <1>5, <1>6, <2>2, <3>1 DEF KeyIdentityLoaded
  <2>3. CASE ringCache[t.doc] = 0
    BY <1>1, <1>6, <2>3 DEF KeyIdentityLoaded, KeyGoesOn
  <2>. QED
    BY <2>2, <2>3
<1>7. ASSUME NEW t \in keyTasks, DekAnswered(t) PROVE KeyStatusTyped'
  BY <1>1, <1>7 DEF DekAnswered, KeyGoesOn
<1>8. ASSUME NEW t \in keyTasks, RingAnswered(t) PROVE KeyStatusTyped'
  <2>1. t.epoch \in 1 .. MaxEpoch
    BY <1>8, DocumentPageAssumption DEF RingAnswered, PageInv, Typed, KeyTask, TasksCurrent
  <2>. QED
    BY <1>5, <1>8, <2>1 DEF RingAnswered
<1>9. ASSUME NEW t \in keyTasks, KeyFailed(t) PROVE KeyStatusTyped'
  <2>1. t.live => documentKey = NoKey
    BY <1>9 DEF KeyFailed, PageInv, LiveTasks
  <2>. QED
    BY <1>9, <2>1 DEF KeyFailed
<1>10. ASSUME NEW r \in metaRequests,
              MetaAnswered(r) \/ MetaFailed(r) \/ Written(r) \/ WriteFailed(r) \/ Reloaded(r)
       PROVE  KeyStatusTyped'
  BY <1>1, <1>10 DEF MetaAnswered, MetaFailed, Written, WriteFailed, Reloaded, pageKeyVars
<1>11. ASSUME NEW part \in {"rename", "comment"}, Write(part) PROVE KeyStatusTyped'
  BY <1>1, <1>11 DEF Write, pageKeyVars
<1>12. ASSUME NEW a \in attempts, AttemptIdentityLoaded(a) \/ SeedLoaded(a) PROVE KeyStatusTyped'
  BY <1>1, <1>12 DEF AttemptIdentityLoaded, SeedLoaded, pageKeyVars
<1>13. CASE UNCHANGED documentPageVars
  BY <1>1, <1>13 DEF documentPageVars, pageKeyVars
<1>. QED
  BY <1>2, <1>3, <1>4, <1>6, <1>7, <1>8, <1>9, <1>10, <1>11, <1>12, <1>13 DEF DocumentPageNext

(* The page's types; among them, that its status is ready exactly while it *)
(* has a key (useDocumentKeyRing.ts), which the editor's mount relies on.  *)
THEOREM DocumentPageTypes == DocumentPageSpec => []DocumentPageTypeOK
<1>1. PageTypes /\ [DocumentPageNext]_documentPageVars => PageTypes'
  BY PageInvNext, MetaInvStep, ViewTypedStep, KeyStatusStep DEF PageTypes
<1>2. PageTypes => DocumentPageTypeOK
  <2> SUFFICES ASSUME PageTypes PROVE DocumentPageTypeOK
    OBVIOUS
  <2>1. Typed /\ ViewTyped /\ KeyStatusTyped /\ metaRequests \subseteq MetaRequest
    BY DEF PageTypes, PageInv, MetaInv
  <2>2. editor \in DocKey \cup {NoKey}
    BY <2>1 DEF PageTypes, PageInv, EditorFollowsRoute, Typed
  <2>. QED
    BY <2>1, <2>2 DEF DocumentPageTypeOK, Typed, ViewTyped, KeyStatusTyped
<1>. QED
  BY <1>1, <1>2, PageTypesInit, PTL DEF DocumentPageSpec
-----------------------------------------------------------------------------
(* History: the restore of a version.                                      *)

(* The updates listed go on from the snapshot that was read, or will, if   *)
(* no compaction came between the two.                                     *)
ListFollowsSeed ==
  ~logsCrossed =>
    /\ ~seedRead => pruned = snapshot
    /\ ~seedRead /\ ~isLoading => listed.from = pruned + 1
    /\ seedRead /\ isLoading => seed = pruned
    /\ seedRead /\ ~isLoading => listed.from = seed + 1

(* What is given to a restore is the text of the version selected.         *)
GivenIsAsked ==
  restore.phase # "none" /\ whole => restore.text = askedVersion

(* What a full replay leaves was stored since it connected.                *)
OnlyLaterIsKept ==
  /\ restore.phase = "settling" => restore.since <= last
  /\ restore.phase \in {"sent", "done"} /\ restore.full => kept \subseteq restore.since + 1 .. last

SignersNeedUpdates == signersReady => ~isLoading

(* What the argument needs of the types.                                   *)
HistoryTyped ==
  /\ last \in Version /\ pruned \in Version /\ snapshot \in Version /\ seed \in Version
  /\ listed \in [from : 1 .. MaxUpdates + 1, to : Version]
  /\ (selectedId = 0 /\ listed.to = 0) \/ selectedId \in listed.from .. listed.to
  /\ restore \in [phase : {"none", "identity", "connecting", "settling", "sent", "done"},
                  text : Version, since : Version, full : BOOLEAN]

HistoryInv ==
  HistoryTyped /\ ListFollowsSeed /\ SignersNeedUpdates /\ GivenIsAsked /\ OnlyLaterIsKept

LEMMA HistoryInvInit == HistoryInit => HistoryInv
BY HistoryAssumption
DEF HistoryInit, HistoryInv, HistoryTyped, ListFollowsSeed, SignersNeedUpdates, GivenIsAsked,
    OnlyLaterIsKept, Version

(* The text shown is a version, and that selected if the snapshot is there *)
(* on which the updates listed follow.                                     *)
LEMMA TextIsSelected ==
  ASSUME HistoryInv
  PROVE  /\ Text \in Version
         /\ ringReady /\ signersReady /\ seedRead /\ ~logsCrossed => Text = selectedId
<1>1. /\ seed \in Version /\ selectedId \in Version /\ 0 \in Version
      /\ selectedId # 0 => selectedId \in listed.from .. listed.to
      /\ listed.from \in 1 .. MaxUpdates + 1 /\ listed.to \in Version
  BY HistoryAssumption DEF HistoryInv, HistoryTyped, Version
<1>2. Text \in Version
  BY <1>1 DEF Text, ReconstructTextAt, Larger
<1>3. ASSUME ringReady, signersReady, seedRead, ~logsCrossed PROVE Text = selectedId
  <2>1. listed.from = seed + 1
    BY <1>3 DEF HistoryInv, ListFollowsSeed, SignersNeedUpdates
  <2>. QED
    BY <1>1, <1>3, <2>1, HistoryAssumption DEF Text, ReconstructTextAt, Larger, Version
<1>. QED
  BY <1>2, <1>3

(* Steps of the page that read nothing and leave the restore alone.        *)
LEMMA ViewSteps ==
  ASSUME HistoryInv, UNCHANGED <<logOfHistoryVars, historyReadVars, restore, kept, whole, askedVersion>>,
         selectedId' = selectedId \/ selectedId' \in listed.from .. listed.to
  PROVE  HistoryInv'
BY DEF HistoryInv, HistoryTyped, ListFollowsSeed, SignersNeedUpdates, GivenIsAsked, OnlyLaterIsKept,
       logOfHistoryVars, historyReadVars

(* Steps of the restore alone.                                             *)
LEMMA RestoreSteps ==
  ASSUME HistoryInv, UNCHANGED <<logOfHistoryVars, historyReadVars, selectedId>>,
         restore' \in [phase : {"none", "identity", "connecting", "settling", "sent", "done"},
                       text : Version, since : Version, full : BOOLEAN],
         GivenIsAsked', OnlyLaterIsKept'
  PROVE  HistoryInv'
BY DEF HistoryInv, HistoryTyped, ListFollowsSeed, SignersNeedUpdates, logOfHistoryVars,
       historyReadVars

LEMMA HistoryInvStep == HistoryInv /\ [HistoryNext]_historyVars => HistoryInv'
<1> SUFFICES ASSUME HistoryInv, [HistoryNext]_historyVars PROVE HistoryInv'
  OBVIOUS
<1>. USE HistoryAssumption
     DEF HistoryInv, HistoryTyped, ListFollowsSeed, SignersNeedUpdates, GivenIsAsked,
         OnlyLaterIsKept, Version, logOfHistoryVars, historyReadVars, historyViewVars, restoreVars,
         OnPage
<1>1. CASE AppendUpdate
  BY <1>1 DEF AppendUpdate
<1>2. ASSUME NEW upTo \in Version, NEW holds \in Version, Compact(upTo, holds) PROVE HistoryInv'
  <2>1. ~logsCrossed' => ~logsCrossed /\ ((~isLoading) <=> seedRead) /\ (seedRead \/ upTo = holds)
    BY <1>2, Zenon DEF Compact
  <2>. QED
    BY <1>2, <2>1 DEF Compact
<1>3. CASE ListUpdates
  <2>1. listed' \in [from : 1 .. MaxUpdates + 1, to : Version] /\ listed'.from = pruned + 1
        /\ listed'.to = IF pruned < last THEN last ELSE 0
    BY <1>3 DEF ListUpdates
  <2>. QED
    BY <1>3, <2>1 DEF ListUpdates
<1>4. CASE ResolveSigners
  BY <1>4 DEF ResolveSigners
<1>5. CASE LoadKeyRing
  BY <1>5 DEF LoadKeyRing
<1>6. CASE LoadSnapshot
  BY <1>6 DEF LoadSnapshot
<1>7. ASSUME NEW v \in Version, Select(v) PROVE HistoryInv'
  BY <1>7, ViewSteps DEF Select
<1>8. CASE TogglePlay
  BY <1>8, ViewSteps DEF TogglePlay
<1>9. CASE PlayStep
  <2>1. selectedId' \in listed.from .. listed.to
    BY <1>9 DEF PlayStep
  <2>. QED
    BY <1>9, <2>1, ViewSteps DEF PlayStep
<1>10. CASE OpenRestore \/ CloseRestore
  BY <1>10, ViewSteps DEF OpenRestore, CloseRestore
<1>11. CASE ConfirmRestore
  <2>1. whole' => ringReady /\ signersReady /\ seedRead /\ ~logsCrossed
    BY <1>11, Zenon DEF ConfirmRestore
  <2>2. CASE ringReady
    <3>1. /\ restore' = [phase |-> "identity", text |-> Text, since |-> 0, full |-> FALSE]
          /\ askedVersion' = selectedId
          /\ UNCHANGED <<logOfHistoryVars, historyReadVars, selectedId>>
      BY <1>11, <2>2 DEF ConfirmRestore
    <3>2. Text \in Version /\ (whole' => Text = selectedId)
      BY <2>1, TextIsSelected
    <3>. QED
      BY <3>1, <3>2, RestoreSteps
  <2>3. CASE ~ringReady
    BY <1>11, <2>1, <2>3, RestoreSteps DEF ConfirmRestore
  <2>. QED
    BY <2>2, <2>3
<1>12. CASE RestoreIdentityLoaded
  <2>1. CASE restore' = [restore EXCEPT !.phase = "connecting"]
    BY <1>12, <2>1, RestoreSteps DEF RestoreIdentityLoaded
  <2>2. CASE restore' = [phase |-> "none", text |-> 0, since |-> 0, full |-> FALSE]
    BY <1>12, <2>2, RestoreSteps DEF RestoreIdentityLoaded
  <2>. QED
    BY <1>12, <2>1, <2>2 DEF RestoreIdentityLoaded
<1>13. CASE RestoreConnected
  <2>1. PICK full \in BOOLEAN :
          restore' = [restore EXCEPT !.phase = "settling", !.since = last, !.full = full]
    BY <1>13 DEF RestoreConnected
  <2>2. restore' = [phase |-> "settling", text |-> restore.text, since |-> last, full |-> full]
    BY <2>1
  <2>. QED
    BY <1>13, <2>2, RestoreSteps DEF RestoreConnected
<1>14. CASE ReplaceText
  <2>1. restore' = [phase |-> "sent", text |-> restore.text, since |-> restore.since, full |-> restore.full]
    BY <1>14 DEF ReplaceText
  <2>2. restore.full => kept' \subseteq restore.since + 1 .. last
    BY <1>14 DEF ReplaceText
  <2>. QED
    BY <1>14, <2>1, <2>2, RestoreSteps DEF ReplaceText
<1>15. CASE RestoreDone
  BY <1>15 DEF RestoreDone
<1>16. CASE UNCHANGED historyVars
  BY <1>16 DEF historyVars
<1>. QED
  BY <1>1, <1>2, <1>3, <1>4, <1>5, <1>6, <1>7, <1>8, <1>9, <1>10, <1>11, <1>12, <1>13, <1>14,
     <1>15, <1>16 DEF HistoryNext

(* A restore of a version of a log never compacted leaves the text of that *)
(* version and what was typed since it connected (useHistoryRestore,       *)
(* restoreDocumentText), whichever of the updates and the snapshot the     *)
(* page read first and whatever was typed and played back meanwhile.       *)
THEOREM RestoresTheVersion == HistorySpec => []RestoresVersion
<1>1. HistoryInv => RestoresVersion
  BY DEF HistoryInv, GivenIsAsked, OnlyLaterIsKept, RestoresVersion
<1>. QED
  BY <1>1, HistoryInvInit, HistoryInvStep, PTL DEF HistorySpec
-----------------------------------------------------------------------------
(* The types, with what the invariant above does not speak of.             *)
SnapshotInLog == pruned <= snapshot /\ snapshot <= last
FlagsTyped ==
  /\ isLoading \in BOOLEAN /\ ringReady \in BOOLEAN /\ signersReady \in BOOLEAN
  /\ seedRead \in BOOLEAN /\ isPlaying \in BOOLEAN /\ logsCrossed \in BOOLEAN
RestoreTyped ==
  /\ isRestoreOpen \in BOOLEAN /\ isRestoring \in BOOLEAN /\ whole \in BOOLEAN
  /\ isRestoring <=> restore.phase \notin {"none", "done"}
  /\ askedVersion \in Version /\ kept \subseteq Version
HistoryTypesInv == HistoryInv /\ SnapshotInLog /\ FlagsTyped /\ RestoreTyped

LEMMA HistoryTypesInit == HistoryInit => HistoryTypesInv
<1> SUFFICES ASSUME HistoryInit PROVE HistoryTypesInv
  OBVIOUS
<1>1. SnapshotInLog
  BY HistoryAssumption DEF HistoryInit, SnapshotInLog, Version
<1>2. FlagsTyped
  BY Zenon DEF HistoryInit, FlagsTyped
<1>3. isRestoreOpen \in BOOLEAN /\ isRestoring \in BOOLEAN /\ whole \in BOOLEAN
  BY Zenon DEF HistoryInit
<1>4. RestoreTyped
  BY <1>3, HistoryAssumption DEF HistoryInit, RestoreTyped, Version
<1>. QED
  BY <1>1, <1>2, <1>4, HistoryInvInit DEF HistoryTypesInv

LEMMA SnapshotInLogStep ==
  ASSUME HistoryTyped, SnapshotInLog, [HistoryNext]_historyVars PROVE SnapshotInLog'
<1>. USE HistoryAssumption DEF HistoryTyped, SnapshotInLog, Version, logOfHistoryVars
<1>1. CASE AppendUpdate
  BY <1>1 DEF AppendUpdate
<1>2. ASSUME NEW upTo \in Version, NEW holds \in Version, Compact(upTo, holds) PROVE SnapshotInLog'
  BY <1>2 DEF Compact
<1>3. CASE UNCHANGED logOfHistoryVars
  BY <1>3
<1>4. ASSUME NEW v \in Version, Select(v) PROVE SnapshotInLog'
  BY <1>4 DEF Select
<1>. QED
  BY <1>1, <1>2, <1>3, <1>4
  DEF HistoryNext, historyVars, ListUpdates, ResolveSigners, LoadKeyRing, LoadSnapshot, TogglePlay,
      PlayStep, OpenRestore, CloseRestore, ConfirmRestore, RestoreIdentityLoaded, RestoreConnected,
      ReplaceText, RestoreDone

LEMMA FlagsTypedStep ==
  ASSUME FlagsTyped, [HistoryNext]_historyVars PROVE FlagsTyped'
<1>. USE DEF FlagsTyped, historyReadVars, historyViewVars
<1>1. CASE AppendUpdate
  BY <1>1, Zenon DEF AppendUpdate
<1>2. ASSUME NEW upTo \in Version, NEW holds \in Version, Compact(upTo, holds) PROVE FlagsTyped'
  BY <1>2, Zenon DEF Compact
<1>3. CASE ListUpdates
  BY <1>3, Zenon DEF ListUpdates
<1>4. CASE ResolveSigners
  BY <1>4, Zenon DEF ResolveSigners
<1>5. CASE LoadKeyRing
  BY <1>5, Zenon DEF LoadKeyRing
<1>6. CASE LoadSnapshot
  BY <1>6, Zenon DEF LoadSnapshot
<1>7. ASSUME NEW v \in Version, Select(v) PROVE FlagsTyped'
  BY <1>7, Zenon DEF Select
<1>8. CASE TogglePlay
  BY <1>8, Zenon DEF TogglePlay
<1>9. CASE PlayStep
  <2>1. isPlaying' \in BOOLEAN
    BY <1>9 DEF PlayStep
  <2>. QED
    BY <1>9, <2>1, Zenon DEF PlayStep
<1>10. CASE UNCHANGED <<historyReadVars, historyViewVars>>
  BY <1>10, Zenon
<1>. QED
  BY <1>1, <1>2, <1>3, <1>4, <1>5, <1>6, <1>7, <1>8, <1>9, <1>10
  DEF HistoryNext, historyVars, OpenRestore, CloseRestore, ConfirmRestore, RestoreIdentityLoaded,
      RestoreConnected, ReplaceText, RestoreDone

LEMMA RestoreTypedStep ==
  ASSUME HistoryInv, ringReady \in BOOLEAN, RestoreTyped, [HistoryNext]_historyVars
  PROVE  RestoreTyped'
<1>. USE DEF RestoreTyped
<1>1. last \in Nat /\ last <= MaxUpdates /\ selectedId \in Version
  BY HistoryAssumption DEF HistoryInv, HistoryTyped, Version
<1>2. restore \in [phase : {"none", "identity", "connecting", "settling", "sent", "done"},
                   text : Version, since : Version, full : BOOLEAN]
  BY DEF HistoryInv, HistoryTyped
<1>3. CASE UNCHANGED restoreVars
  BY <1>3 DEF restoreVars
<1>4. CASE OpenRestore
  BY <1>4 DEF OpenRestore
<1>5. CASE CloseRestore
  BY <1>5 DEF CloseRestore
<1>6. CASE ConfirmRestore
  <2>1. isRestoreOpen' \in BOOLEAN /\ isRestoring' \in BOOLEAN /\ whole' \in BOOLEAN
    <3>1. isRestoreOpen' \in BOOLEAN /\ isRestoring' \in BOOLEAN
      BY <1>6, Zenon DEF ConfirmRestore
    <3>2. whole' \in BOOLEAN
      BY <1>6, Zenon DEF ConfirmRestore
    <3>. QED
      BY <3>1, <3>2
  <2>2. CASE ringReady
    BY <1>1, <1>6, <2>1, <2>2 DEF ConfirmRestore
  <2>3. CASE ~ringReady
    BY <1>1, <1>6, <2>1, <2>3 DEF ConfirmRestore
  <2>. QED
    BY <2>2, <2>3
<1>7. CASE RestoreIdentityLoaded
  <2>1. CASE restore' = [restore EXCEPT !.phase = "connecting"] /\ UNCHANGED <<isRestoring, isRestoreOpen>>
    BY <1>2, <1>7, <2>1 DEF RestoreIdentityLoaded
  <2>2. CASE /\ restore' = [phase |-> "none", text |-> 0, since |-> 0, full |-> FALSE]
             /\ isRestoring' = FALSE /\ isRestoreOpen' = FALSE
    <3>1. isRestoreOpen' \in BOOLEAN /\ isRestoring' \in BOOLEAN
      BY <2>2, Zenon
    <3>. QED
      BY <1>7, <2>2, <3>1 DEF RestoreIdentityLoaded
  <2>. QED
    BY <1>7, <2>1, <2>2 DEF RestoreIdentityLoaded
<1>8. CASE RestoreConnected
  <2>1. PICK full \in BOOLEAN :
          restore' = [restore EXCEPT !.phase = "settling", !.since = last, !.full = full]
    BY <1>8 DEF RestoreConnected
  <2>2. restore'.phase = "settling"
    BY <1>2, <2>1
  <2>. QED
    BY <1>8, <2>2 DEF RestoreConnected
<1>9. CASE ReplaceText
  <2>1. restore'.phase = "sent"
    BY <1>2, <1>9 DEF ReplaceText
  <2>2. PICK seen \in restore.since .. last :
          kept' = IF restore.full THEN seen + 1 .. last ELSE 1 .. last
    BY <1>9 DEF ReplaceText
  <2>3. restore.since \in Nat
    BY <1>2 DEF Version
  <2>4. kept' \subseteq Version
    BY <1>1, <2>2, <2>3, HistoryAssumption DEF Version
  <2>. QED
    BY <1>9, <2>1, <2>4 DEF ReplaceText
<1>10. CASE RestoreDone
  <2>1. restore'.phase = "done"
    BY <1>2, <1>10 DEF RestoreDone
  <2>2. isRestoreOpen' \in BOOLEAN /\ isRestoring' \in BOOLEAN
    BY <1>10, Zenon DEF RestoreDone
  <2>. QED
    BY <1>10, <2>1, <2>2 DEF RestoreDone
<1>11. ASSUME NEW upTo \in Version, NEW holds \in Version, Compact(upTo, holds) PROVE RestoreTyped'
  BY <1>3, <1>11 DEF Compact
<1>12. ASSUME NEW v \in Version, Select(v) PROVE RestoreTyped'
  BY <1>3, <1>12 DEF Select
<1>. QED
  BY <1>3, <1>4, <1>5, <1>6, <1>7, <1>8, <1>9, <1>10, <1>11, <1>12
  DEF HistoryNext, historyVars, AppendUpdate, ListUpdates, ResolveSigners, LoadKeyRing,
      LoadSnapshot, TogglePlay, PlayStep

(* The types of the history page; among them, that what a snapshot lets    *)
(* the server forget it holds, and that the dialog says a restore is under *)
(* way exactly while one is (useHistoryRestore).                           *)
THEOREM HistoryTypes == HistorySpec => []HistoryTypeOK
<1>1. HistoryTypesInv /\ [HistoryNext]_historyVars => HistoryTypesInv'
  <2> SUFFICES ASSUME HistoryTypesInv, [HistoryNext]_historyVars PROVE HistoryTypesInv'
    OBVIOUS
  <2>1. /\ HistoryInv /\ HistoryTyped /\ SnapshotInLog /\ FlagsTyped /\ RestoreTyped
        /\ ringReady \in BOOLEAN
    BY DEF HistoryTypesInv, HistoryInv, FlagsTyped
  <2>. QED
    BY <2>1, HistoryInvStep, SnapshotInLogStep, FlagsTypedStep, RestoreTypedStep DEF HistoryTypesInv
<1>2. HistoryTypesInv => HistoryTypeOK
  <2> SUFFICES ASSUME HistoryTypesInv PROVE HistoryTypeOK
    OBVIOUS
  <2>1. HistoryTyped /\ SnapshotInLog /\ FlagsTyped /\ RestoreTyped
    BY DEF HistoryTypesInv, HistoryInv
  <2>2. selectedId \in Version /\ selectedId \in {0} \cup listed.from .. listed.to
    BY <2>1, HistoryAssumption DEF HistoryTyped, Version
  <2>. QED
    BY <2>1, <2>2 DEF HistoryTypeOK, HistoryTyped, SnapshotInLog, FlagsTyped, RestoreTyped
<1>. QED
  BY <1>1, <1>2, HistoryTypesInit, PTL DEF HistorySpec
=============================================================================
