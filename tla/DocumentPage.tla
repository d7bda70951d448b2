---------------------------- MODULE DocumentPage ----------------------------
(***************************************************************************)
(* The page of a document, which is not mounted anew when its route goes   *)
(* from one document to another: what it shows of the document, the key    *)
(* ring, the module-level caches of keys, and the editor's connection, all *)
(* fetched by effects that a later route or key overtakes.                 *)
(*                                                                         *)
(* Of the data, only the document it belongs to is kept (the members' list *)
(* is fetched as the comments' is, and left out); of a key, its document   *)
(* and epoch. An answer was read by the server at any moment since it was  *)
(* asked for. The page renders again before the next answer of the         *)
(* network, but not before the identity is read from IndexedDB.            *)
(***************************************************************************)
EXTENDS Integers, FiniteSets

CONSTANTS
  Doc,
  NoDoc,
  MaxEpoch,   \* bound: key rotations
  MaxVisits,  \* bound: changes of route, and requests of the user's own
  MaxPending  \* bound: what may be under way when the user makes one

ASSUME DocumentPageAssumption ==
  NoDoc \notin Doc /\ MaxEpoch \in Nat \ {0} /\ MaxVisits \in Nat /\ MaxPending \in Nat

VARIABLES
  id,            \* the route's document
  visits,
  rendered,      \* whether what the effects of this route set was rendered
  docInfo, comments,           \* the documents each of them shows
  metaRequests,  \* fetches and writes under way
  documentKey, keyStatus,
  keyTasks,      \* runs of the key ring's effect
  dekCache, ringCache,         \* epochs cached by module; 0: none
  keyEpoch,      \* the epoch of each document on the server
  attempts,      \* runs of the connection's effect
  editor,        \* what the editor that is open edits, and under which key
  astray,        \* history: a write of one document was answered on another's page
  failed,        \* history: a fetch for the document shown failed
  keysCrossed        \* history: a key was on its way when it was rotated

pageMetaVars == <<docInfo, comments, metaRequests, astray, failed>>
pageKeyVars == <<documentKey, keyStatus, keyTasks, dekCache, ringCache, keyEpoch, keysCrossed>>
pageEditorVars == <<attempts, editor>>
documentPageVars == <<id, visits, rendered, pageMetaVars, pageKeyVars, pageEditorVars>>

NoKey == [doc |-> NoDoc, epoch |-> 0]
DocKey == [doc : Doc, epoch : 1 .. MaxEpoch]
MetaRequest == [doc : Doc, part : {"info", "comments", "rename", "reload", "comment"}]
KeyTask == [doc : Doc, stage : {"identity", "dek", "history"}, epoch : 0 .. MaxEpoch,
            live : BOOLEAN]
Attempt == [doc : Doc, key : DocKey, stage : {"identity", "seed"}, live : BOOLEAN]

DocumentPageTypeOK ==
  /\ id \in Doc /\ visits \in 0 .. MaxVisits /\ rendered \in BOOLEAN
  /\ docInfo \in Doc \cup {NoDoc} /\ comments \subseteq Doc
  /\ metaRequests \subseteq MetaRequest
  /\ documentKey \in DocKey \cup {NoKey} /\ keyStatus \in {"loading", "ready", "unavailable"}
  /\ (keyStatus = "ready") = (documentKey # NoKey)
  /\ keyTasks \subseteq KeyTask
  /\ dekCache \in [Doc -> 0 .. MaxEpoch] /\ ringCache \in [Doc -> 0 .. MaxEpoch]
  /\ keyEpoch \in [Doc -> 1 .. MaxEpoch]
  /\ attempts \subseteq Attempt /\ editor \in DocKey \cup {NoKey}
  /\ astray \in BOOLEAN /\ failed \in BOOLEAN /\ keysCrossed \subseteq Doc

MetaFetches(d) == {[doc |-> d, part |-> p] : p \in {"info", "comments"}}
KeyEffect(d) == [doc |-> d, stage |-> "identity", epoch |-> 0, live |-> TRUE]
ConnectionEffect(d, k) == [doc |-> d, key |-> k, stage |-> "identity", live |-> TRUE]
(* A run that is cancelled before the identity is read ends there.         *)
CancelAll(S) == {[x EXCEPT !.live = FALSE] : x \in {y \in S : y.stage # "identity"}}

DocumentPageInit ==
  /\ id \in Doc /\ visits = 0 /\ rendered = TRUE
  /\ docInfo = NoDoc /\ comments = {}
  /\ metaRequests = MetaFetches(id)
  /\ documentKey = NoKey /\ keyStatus = "loading" /\ keyTasks = {KeyEffect(id)}
  /\ dekCache = [d \in Doc |-> 0] /\ ringCache = [d \in Doc |-> 0]
  /\ keyEpoch = [d \in Doc |-> 1]
  /\ attempts = {} /\ editor = NoKey
  /\ astray = FALSE /\ failed = FALSE /\ keysCrossed = {}

MayAct ==
  /\ rendered /\ visits < MaxVisits
  /\ Cardinality(metaRequests) + Cardinality(keyTasks) + Cardinality(attempts) <= MaxPending
-----------------------------------------------------------------------------
(* Another document is opened. The effects of the new route run with the   *)
(* key the page still has; resetting it is a render away.                  *)
Navigate(d) ==
  /\ d # id /\ MayAct
  /\ id' = d /\ visits' = visits + 1 /\ rendered' = FALSE
  /\ metaRequests' = metaRequests \cup MetaFetches(d) /\ failed' = FALSE
  /\ keyTasks' = CancelAll(keyTasks) \cup {KeyEffect(d)}
  /\ attempts' = CancelAll(attempts) \cup
       (IF documentKey = NoKey THEN {} ELSE {ConnectionEffect(d, documentKey)})
  /\ editor' = NoKey
  /\ UNCHANGED <<docInfo, comments, astray, documentKey, keyStatus, dekCache,
                 ringCache, keyEpoch, keysCrossed>>

(* The reset is rendered: the connection's effect is cleaned up, and has   *)
(* no key to run again.                                                    *)
RenderReset ==
  /\ ~rendered
  /\ rendered' = TRUE
  /\ documentKey' = NoKey /\ keyStatus' = "loading"
  /\ attempts' = CancelAll(attempts)
  /\ UNCHANGED <<id, visits, pageMetaVars, keyTasks, dekCache, ringCache, keyEpoch, keysCrossed,
                 editor>>
-----------------------------------------------------------------------------
(* useDocumentMeta: an answer counts if the route still is its document's. *)
Show(r) ==
  /\ docInfo' = IF r.part = "info" THEN r.doc ELSE docInfo
  /\ comments' = IF r.part = "comments" THEN {r.doc} ELSE comments

(* Mutant: whatever is answered is shown.                                  *)
ShowLate(r) ==
  /\ rendered /\ r \in metaRequests /\ r.part \in {"info", "comments"}
  /\ metaRequests' = metaRequests \ {r}
  /\ Show(r)
  /\ UNCHANGED <<id, visits, rendered, astray, failed, pageKeyVars, pageEditorVars>>

MetaAnswered(r) ==
  /\ rendered /\ r \in metaRequests /\ r.part \in {"info", "comments"}
  /\ metaRequests' = metaRequests \ {r}
  /\ IF r.doc = id THEN Show(r) ELSE UNCHANGED <<docInfo, comments>>
  /\ UNCHANGED <<id, visits, rendered, astray, failed, pageKeyVars, pageEditorVars>>

(* A list that fails to load stays what it was, another document's too.    *)
MetaFailed(r) ==
  /\ rendered /\ r \in metaRequests /\ r.part \in {"info", "comments"}
  /\ metaRequests' = metaRequests \ {r}
  /\ docInfo' = IF r.doc = id /\ r.part = "info" THEN NoDoc ELSE docInfo
  /\ failed' = (failed \/ r.doc = id)
  /\ UNCHANGED <<id, visits, rendered, comments, astray, pageKeyVars, pageEditorVars>>

(* handleRename and handleAddComment; the actions on one comment fetch the *)
(* comments again when they fail, as does this one.                        *)
Write(part) ==
  /\ MayAct
  /\ part = "rename" => documentKey # NoKey
  /\ visits' = visits + 1
  /\ metaRequests' = metaRequests \cup {[doc |-> id, part |-> part]}
  /\ UNCHANGED <<id, rendered, docInfo, comments, astray, failed, pageKeyVars,
                 pageEditorVars>>

Written(r) ==
  /\ rendered /\ r \in metaRequests /\ r.part \in {"rename", "comment"}
  /\ metaRequests' = metaRequests \ {r}
  /\ comments' = IF r.part = "comment" THEN comments \cup {r.doc} ELSE comments
  /\ astray' = (astray \/ (r.part = "comment" /\ r.doc # id))
  /\ UNCHANGED <<id, visits, rendered, docInfo, failed, pageKeyVars, pageEditorVars>>

(* The reload of a rename that failed has no guard.                        *)
WriteFailed(r) ==
  /\ rendered /\ r \in metaRequests /\ r.part \in {"rename", "comment"}
  /\ metaRequests' = (metaRequests \ {r}) \cup
       {[r EXCEPT !.part = IF r.part = "rename" THEN "reload" ELSE "comments"]}
  /\ UNCHANGED <<id, visits, rendered, docInfo, comments, astray, failed, pageKeyVars,
                 pageEditorVars>>

Reloaded(r) ==
  /\ rendered /\ r \in metaRequests /\ r.part = "reload"
  /\ metaRequests' = metaRequests \ {r}
  /\ docInfo' \in {docInfo, r.doc}
  /\ astray' = (astray \/ docInfo' # id)
  /\ UNCHANGED <<id, visits, rendered, comments, failed, pageKeyVars, pageEditorVars>>
-----------------------------------------------------------------------------
(* The key ring. A run that was cancelled goes on filling the caches.      *)
KeyReady(t, epoch) ==
  /\ keyTasks' = keyTasks \ {t}
  /\ IF ~t.live THEN UNCHANGED <<documentKey, keyStatus, attempts>>
     ELSE /\ documentKey' = [doc |-> t.doc, epoch |-> epoch] /\ keyStatus' = "ready"
          /\ attempts' = CancelAll(attempts) \cup {ConnectionEffect(id, documentKey')}
KeyGoesOn(t, stage, epoch) ==
  /\ keyTasks' = (keyTasks \ {t}) \cup {[t EXCEPT !.stage = stage, !.epoch = epoch]}
  /\ UNCHANGED <<documentKey, keyStatus, attempts>>

KeyIdentityLoaded(t) ==
  /\ t \in keyTasks /\ t.stage = "identity" /\ rendered
  /\ IF ringCache[t.doc] # 0 THEN KeyReady(t, ringCache[t.doc])
     ELSE IF dekCache[t.doc] # 0 THEN KeyGoesOn(t, "history", dekCache[t.doc])
     ELSE KeyGoesOn(t, "dek", keyEpoch[t.doc])
  /\ UNCHANGED <<id, visits, rendered, pageMetaVars, dekCache, ringCache, keyEpoch, keysCrossed,
                 editor>>

DekAnswered(t) ==
  /\ t \in keyTasks /\ t.stage = "dek" /\ rendered
  /\ \E epoch \in t.epoch .. keyEpoch[t.doc] :
       /\ dekCache' = [dekCache EXCEPT ![t.doc] = epoch]
       /\ KeyGoesOn(t, "history", epoch)
  /\ UNCHANGED <<id, visits, rendered, pageMetaVars, ringCache, keyEpoch, keysCrossed, editor>>

RingAnswered(t) ==
  /\ t \in keyTasks /\ t.stage = "history" /\ rendered
  /\ ringCache' = [ringCache EXCEPT ![t.doc] = t.epoch]
  /\ KeyReady(t, t.epoch)
  /\ UNCHANGED <<id, visits, rendered, pageMetaVars, dekCache, keyEpoch, keysCrossed, editor>>

KeyFailed(t) ==
  /\ t \in keyTasks /\ t.stage # "identity" /\ rendered
  /\ keyTasks' = keyTasks \ {t}
  /\ keyStatus' = IF t.live THEN "unavailable" ELSE keyStatus
  /\ UNCHANGED <<id, visits, rendered, pageMetaVars, documentKey, dekCache, ringCache, keyEpoch,
                 keysCrossed, pageEditorVars>>

(* Mutant: the ring is forgotten, not the key it was built from.           *)
RotateKeepingDek ==
  /\ rendered /\ documentKey # NoKey /\ keyEpoch[id] < MaxEpoch
  /\ keyEpoch' = [keyEpoch EXCEPT ![id] = @ + 1]
  /\ ringCache' = [ringCache EXCEPT ![id] = 0]
  /\ keysCrossed' = IF \E t \in keyTasks : t.doc = id THEN keysCrossed \cup {id} ELSE keysCrossed
  /\ keyTasks' = CancelAll(keyTasks) \cup {KeyEffect(id)}
  /\ documentKey' = NoKey /\ keyStatus' = "loading"
  /\ attempts' = CancelAll(attempts) /\ editor' = NoKey
  /\ UNCHANGED <<id, visits, rendered, pageMetaVars, dekCache>>

(* The share dialog removed a member: handleShareKeyRotated forgets the    *)
(* cached keys and has the effect fetch them again.                        *)
ShareKeyRotated ==
  /\ rendered /\ documentKey # NoKey /\ keyEpoch[id] < MaxEpoch
  /\ keyEpoch' = [keyEpoch EXCEPT ![id] = @ + 1]
  /\ dekCache' = [dekCache EXCEPT ![id] = 0] /\ ringCache' = [ringCache EXCEPT ![id] = 0]
  /\ keysCrossed' = IF \E t \in keyTasks : t.doc = id THEN keysCrossed \cup {id} ELSE keysCrossed
  /\ keyTasks' = CancelAll(keyTasks) \cup {KeyEffect(id)}
  /\ documentKey' = NoKey /\ keyStatus' = "loading"
  /\ attempts' = CancelAll(attempts) /\ editor' = NoKey
  /\ UNCHANGED <<id, visits, rendered, pageMetaVars>>
-----------------------------------------------------------------------------
(* The connection's effect: the identity, then the seed of the document,   *)
(* each followed by a look at isCancelled.                                 *)
AttemptIdentityLoaded(a) ==
  /\ a \in attempts /\ a.stage = "identity"
  /\ attempts' = (attempts \ {a}) \cup {[a EXCEPT !.stage = "seed"]}
  /\ UNCHANGED <<id, visits, rendered, pageMetaVars, pageKeyVars, editor>>

(* Mutant: connectDocument opens whatever became of its page.              *)
SeedLoadedUnchecked(a) ==
  /\ a \in attempts /\ a.stage = "seed" /\ rendered
  /\ attempts' = attempts \ {a}
  /\ editor' = [doc |-> a.doc, epoch |-> IF a.key.doc = a.doc THEN a.key.epoch ELSE 0]
  /\ UNCHANGED <<id, visits, rendered, pageMetaVars, pageKeyVars>>

SeedLoaded(a) ==
  /\ a \in attempts /\ a.stage = "seed" /\ rendered
  /\ attempts' = attempts \ {a}
  /\ editor' = IF a.live
               THEN [doc |-> a.doc, epoch |-> IF a.key.doc = a.doc THEN a.key.epoch ELSE 0]
               ELSE editor
  /\ UNCHANGED <<id, visits, rendered, pageMetaVars, pageKeyVars>>

DocumentPageNext ==
  \/ \E d \in Doc : Navigate(d)
  \/ RenderReset \/ ShareKeyRotated
  \/ \E r \in metaRequests : \/ MetaAnswered(r) \/ MetaFailed(r)
                             \/ Written(r) \/ WriteFailed(r) \/ Reloaded(r)
  \/ \E part \in {"rename", "comment"} : Write(part)
  \/ \E t \in keyTasks : \/ KeyIdentityLoaded(t) \/ DekAnswered(t)
                         \/ RingAnswered(t) \/ KeyFailed(t)
  \/ \E a \in attempts : AttemptIdentityLoaded(a) \/ SeedLoaded(a)

DocumentPageSpec == DocumentPageInit /\ [][DocumentPageNext]_documentPageVars
-----------------------------------------------------------------------------
(* The key the page writes with, and the editor it has open, are those of  *)
(* the route's document: no edit is made to one document on another's      *)
(* page, nor sealed with another's key, whatever was still on its way.     *)
EditorFollowsRoute ==
  /\ rendered /\ documentKey # NoKey => documentKey.doc = id
  /\ editor # NoKey => editor.doc = id /\ editor = documentKey

(* After a rotation made here the page has the new key, and never again    *)
(* the one rotated away. Excused is a document whose key was being fetched *)
(* when it was rotated: that fetch fills the caches after they were        *)
(* cleared.                                                                *)
KeyIsCurrent ==
  documentKey # NoKey /\ documentKey.doc \notin keysCrossed
    => documentKey.epoch = keyEpoch[documentKey.doc]

(* When nothing is on its way the page shows its own document only. Not    *)
(* if a fetch failed, nor after a comment or the reload of a failed rename *)
(* was answered on another page, which no check of the route precedes.     *)
PageShowsItsDocument ==
  rendered /\ metaRequests = {} /\ ~failed /\ ~astray
    => docInfo = id /\ comments = {id}
=============================================================================
