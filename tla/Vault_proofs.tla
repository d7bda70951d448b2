---------------------------- MODULE Vault_proofs ----------------------------
(***************************************************************************)
(* Theorems about the vault: the documents it lists (Vault), for every     *)
(* number of actions, and its lock (AutoLock), for every idle time.        *)
(***************************************************************************)
EXTENDS Vault, AutoLock, FiniteSetTheorems, TLAPS

(* What the argument needs of the types.                                   *)
WritesTyped == writes \subseteq WriteRequest /\ acted \in 0 .. MaxActions /\ stored \in Stored

(* A title was sealed by the time it is sent: a rename is sent for a sealed*)
(* document, the title of a new one after its key was answered.            *)
TitlesFollowSeals ==
  \A w \in writes : w.kind \in {"entitle", "rename"} \/ (w.kind = "seal" /\ w.done) => stored.sealed

SealInv == WritesTyped /\ TitlesFollowSeals /\ TitledIsSealed

LEMMA SealInvInit == VaultInit => SealInv
BY VaultAssumption DEF VaultInit, SealInv, WritesTyped, TitlesFollowSeals, TitledIsSealed, Stored

(* A write that is sent is typed.                                          *)
LEMMA Sent ==
  ASSUME WritesTyped, Act,
         NEW kind \in {"create", "seal", "entitle", "rename", "delete", "undo", "restore"}
  PROVE  /\ [kind |-> kind, n |-> acted', done |-> FALSE] \in WriteRequest
         /\ acted' \in 0 .. MaxActions
<1>1. acted' \in 1 .. MaxActions
  BY VaultAssumption DEF WritesTyped, Act
<1>. QED
  BY <1>1 DEF WriteRequest

(* Steps that send nothing new, and do nothing on the server.              *)
LEMMA NothingSent ==
  ASSUME SealInv, writes' \subseteq writes, stored' = stored, acted' \in 0 .. MaxActions
  PROVE  SealInv'
BY DEF SealInv, WritesTyped, TitlesFollowSeals, TitledIsSealed

(* Steps that send a write, which has no title unless the key is sealed.   *)
LEMMA Sends ==
  ASSUME SealInv, NEW kind \in {"create", "rename", "delete", "undo", "restore"},
         Post(kind), stored' = stored, kind = "rename" => stored.sealed
  PROVE  SealInv'
<1>. DEFINE w == [kind |-> kind, n |-> acted', done |-> FALSE]
<1>1. Act /\ writes' = writes \cup {w}
  BY DEF Post
<1>2. w \in WriteRequest /\ acted' \in 0 .. MaxActions /\ w.kind = kind
  BY <1>1, Sent DEF SealInv
<1>. HIDE DEF w
<1>3. WritesTyped'
  BY <1>1, <1>2 DEF SealInv, WritesTyped
<1>4. TitlesFollowSeals' /\ TitledIsSealed'
  BY <1>1, <1>2 DEF SealInv, TitlesFollowSeals, TitledIsSealed
<1>. QED
  BY <1>3, <1>4 DEF SealInv

(* Steps that send the next write of a creation in place of an answered one.*)
LEMMA SendsNext ==
  ASSUME SealInv, NEW w \in writes, w.done, NEW kind \in {"seal", "entitle"},
         kind = "entitle" => w.kind = "seal",
         writes' = (writes \ {w}) \cup {[w EXCEPT !.kind = kind, !.done = FALSE]},
         UNCHANGED <<stored, acted>>
  PROVE  SealInv'
<1>. DEFINE n == [w EXCEPT !.kind = kind, !.done = FALSE]
<1>1. w \in WriteRequest
  BY DEF SealInv, WritesTyped
<1>2. n \in WriteRequest /\ n.kind = kind /\ ~n.done
  BY <1>1 DEF WriteRequest
<1>3. writes' = (writes \ {w}) \cup {n}
  OBVIOUS
<1>. HIDE DEF n
<1>4. WritesTyped'
  BY <1>2, <1>3 DEF SealInv, WritesTyped
<1>5. TitlesFollowSeals' /\ TitledIsSealed'
  BY <1>2, <1>3 DEF SealInv, TitlesFollowSeals, TitledIsSealed
<1>. QED
  BY <1>4, <1>5 DEF SealInv

LEMMA Executes ==
  ASSUME SealInv, NEW w \in writes, Execute(w)
  PROVE  SealInv'
<1>. DEFINE n == [w EXCEPT !.done = TRUE]
<1>1. /\ w \in WriteRequest /\ stored \in Stored /\ stored' = AfterWrite(w) /\ acted' = acted
      /\ writes' = (writes \ {w}) \cup {n}
  BY DEF SealInv, WritesTyped, Execute, vaultPageVars
<1>2. n \in WriteRequest /\ n.kind = w.kind
  BY <1>1 DEF WriteRequest
<1>3. w.n \in Title
  BY <1>1, VaultAssumption DEF WriteRequest, Title
<1>. HIDE DEF n
<1>4. CASE w.kind = "seal"
  <2>1. stored' = [stored EXCEPT !.sealed = TRUE]
    BY <1>1, <1>4 DEF AfterWrite
  <2>2. stored' \in Stored /\ stored'.sealed
    BY <1>1, <2>1 DEF Stored
  <2>. QED
    BY <1>1, <1>2, <2>2 DEF SealInv, WritesTyped, TitlesFollowSeals, TitledIsSealed
<1>5. CASE w.kind \in {"entitle", "rename"}
  <2>1. stored' = [stored EXCEPT !.title = w.n] /\ stored.sealed
    BY <1>1, <1>5 DEF AfterWrite, SealInv, TitlesFollowSeals
  <2>2. stored' \in Stored /\ stored'.sealed
    BY <1>1, <1>3, <2>1 DEF Stored
  <2>. QED
    BY <1>1, <1>2, <2>2 DEF SealInv, WritesTyped, TitlesFollowSeals, TitledIsSealed
<1>6. CASE w.kind \notin {"seal", "entitle", "rename"}
  <2>1. stored' = [stored EXCEPT !.place = "archive"] \/ stored' = [stored EXCEPT !.place = "vault"]
    BY <1>1, <1>6 DEF AfterWrite
  <2>2. stored' \in Stored /\ stored'.sealed = stored.sealed /\ stored'.title = stored.title
    BY <1>1, <2>1 DEF Stored
  <2>3. WritesTyped'
    BY <1>1, <1>2, <2>2 DEF SealInv, WritesTyped
  <2>4. TitlesFollowSeals'
    BY <1>1, <1>2, <1>6, <2>2 DEF SealInv, TitlesFollowSeals
  <2>5. TitledIsSealed'
    BY <2>2 DEF SealInv, TitledIsSealed
  <2>. QED
    BY <2>3, <2>4, <2>5 DEF SealInv
<1>. QED
  BY <1>4, <1>5, <1>6

LEMMA SealInvNext == SealInv /\ [VaultNext]_vaultVars => SealInv'
<1> SUFFICES ASSUME SealInv, [VaultNext]_vaultVars PROVE SealInv'
  OBVIOUS
<1>1. acted \in 0 .. MaxActions
  BY DEF SealInv, WritesTyped
<1>2. ASSUME NEW l \in lists, ReadList(l) PROVE SealInv'
  BY <1>2, <1>1, NothingSent DEF ReadList, vaultPageVars
<1>3. ASSUME NEW l \in lists, DocumentsAnswered(l) PROVE SealInv'
  BY <1>3, <1>1, NothingSent DEF DocumentsAnswered, vaultPageVars
<1>4. ASSUME NEW l \in lists, DocumentsFailed(l) PROVE SealInv'
  BY <1>4, <1>1, NothingSent DEF DocumentsFailed, vaultPageVars
<1>5. ASSUME NEW l \in lists, ArchivedAnswered(l) PROVE SealInv'
  BY <1>5, <1>1, NothingSent DEF ArchivedAnswered, vaultPageVars
<1>6. ASSUME NEW l \in lists, ArchivedFailed(l) PROVE SealInv'
  BY <1>6, <1>1, NothingSent DEF ArchivedFailed, vaultPageVars
<1>7. ASSUME NEW next \in {"all", "archived"}, ChangeScope(next) PROVE SealInv'
  <2>1. Act /\ UNCHANGED <<stored, writes>>
    BY <1>7 DEF ChangeScope
  <2>2. acted' \in 0 .. MaxActions
    BY <1>1, <2>1, VaultAssumption DEF Act
  <2>. QED
    BY <2>1, <2>2, NothingSent
<1>8. ASSUME NEW m \in {"new-document", "delete-document"}, OpenModal(m) PROVE SealInv'
  BY <1>8, <1>1, NothingSent DEF OpenModal, vaultPageVars
<1>9. CASE CloseModal
  BY <1>9, <1>1, NothingSent DEF CloseModal, vaultPageVars
<1>10. CASE CreateDocument
  BY <1>10, Sends DEF CreateDocument
<1>11. CASE RenameDocument
  BY <1>11, Sends DEF RenameDocument
<1>12. CASE ConfirmDelete
  BY <1>12, Sends DEF ConfirmDelete
<1>13. CASE UndoDelete
  BY <1>13, Sends DEF UndoDelete
<1>14. CASE ToastExpires
  BY <1>14, <1>1, NothingSent DEF ToastExpires, vaultPageVars
<1>15. CASE RestoreArchived
  BY <1>15, Sends DEF RestoreArchived
<1>16. ASSUME NEW w \in writes, Execute(w) PROVE SealInv'
  BY <1>16, Executes
<1>17. ASSUME NEW w \in writes, Created(w) PROVE SealInv'
  BY <1>17, SendsNext DEF Created, WriteAnswered, vaultPageVars
<1>18. ASSUME NEW w \in writes, Sealed(w) PROVE SealInv'
  BY <1>18, SendsNext DEF Sealed, WriteAnswered, vaultPageVars
<1>19. ASSUME NEW w \in writes, Entitled(w) PROVE SealInv'
  BY <1>19, <1>1, NothingSent DEF Entitled, vaultPageVars
<1>20. ASSUME NEW w \in writes, Renamed(w) PROVE SealInv'
  BY <1>20, <1>1, NothingSent DEF Renamed, vaultPageVars
<1>21. ASSUME NEW w \in writes, Deleted(w) PROVE SealInv'
  BY <1>21, <1>1, NothingSent DEF Deleted, vaultPageVars
<1>22. ASSUME NEW w \in writes, Undone(w) PROVE SealInv'
  BY <1>22, <1>1, NothingSent DEF Undone, vaultPageVars
<1>23. ASSUME NEW w \in writes, Restored(w) PROVE SealInv'
  BY <1>23, <1>1, NothingSent DEF Restored, vaultPageVars
<1>24. ASSUME NEW w \in writes, WriteFails(w) PROVE SealInv'
  BY <1>24, <1>1, NothingSent DEF WriteFails, vaultPageVars
<1>25. CASE UNCHANGED vaultVars
  BY <1>25, <1>1, NothingSent DEF vaultVars, vaultPageVars
<1>. QED
  BY <1>2, <1>3, <1>4, <1>5, <1>6, <1>7, <1>8, <1>9, <1>10, <1>11, <1>12,
     <1>13, <1>14, <1>15, <1>16, <1>17, <1>18, <1>19, <1>20, <1>21, <1>22,
     <1>23, <1>24, <1>25 DEF VaultNext

(* A document with a title has a key: createNewDocument                    *)
(* (NewDocumentModal.tsx) and handleRename (DocumentsPage.tsx) send a title*)
(* after its key, whatever request fails and however they interleave.      *)
THEOREM TitlesAreSealed == VaultSpec => []TitledIsSealed
<1>1. SealInv => TitledIsSealed
  BY DEF SealInv
<1>. QED
  BY <1>1, SealInvInit, SealInvNext, PTL DEF VaultSpec

-----------------------------------------------------------------------------
(* The request for the archived that was issued last: there is one while   *)
(* they are loading, and what it found is what is to be shown.             *)
archivedListVars == <<lists, archivedVars>>

AnyList == [what : {"documents", "archived"}, n : Nat, read : Int]
ListsTyped == lists \subseteq AnyList /\ archivedSeq \in Nat /\ refreshes \in Nat
NoneNewer == \A l \in lists : l.what = "archived" => l.n <= archivedSeq
Newest(l) == l.what = "archived" /\ l.n = archivedSeq
OneNewest == \A l, m \in lists : Newest(l) /\ Newest(m) => l = m
LoadingIsNewest == isArchivedLoading = \E l \in lists : Newest(l)
NewestFound == \A l \in lists : Newest(l) /\ l.read # Unread => l.read = newestArchived

ArchivedInv ==
  /\ ListsTyped /\ NoneNewer /\ OneNewest /\ LoadingIsNewest /\ NewestFound /\ ArchivedIsNewest

LEMMA ArchivedInvInit == VaultInit => ArchivedInv
<1> SUFFICES ASSUME VaultInit PROVE ArchivedInv
  OBVIOUS
<1>1. /\ lists = {ListOf("documents", 1)} /\ archivedSeq = 0 /\ refreshes = 1
      /\ archivedRow = 0 /\ newestArchived = 0 /\ isArchivedLoading = FALSE
  BY DEF VaultInit
<1>2. \A l \in lists : l \in AnyList /\ l.what = "documents"
  BY <1>1 DEF ListOf, AnyList, Unread
<1>3. ListsTyped /\ NoneNewer /\ OneNewest /\ NewestFound /\ ArchivedIsNewest
  BY <1>1, <1>2 DEF ListsTyped, NoneNewer, OneNewest, NewestFound, ArchivedIsNewest, Newest
<1>4. LoadingIsNewest
  BY <1>1, <1>2 DEF LoadingIsNewest, Newest
<1>. QED
  BY <1>3, <1>4 DEF ArchivedInv

(* Of the lists asked for, those of documents do not matter.               *)
LEMMA OtherLists ==
  ASSUME ArchivedInv, UNCHANGED archivedVars, lists' \subseteq AnyList, refreshes' \in Nat,
         \A l \in lists \cup lists' : l.what = "archived" => l \in lists /\ l \in lists'
  PROVE  ArchivedInv'
<1>1. UNCHANGED <<archivedRow, isArchivedLoading, archivedSeq, newestArchived>>
  BY DEF archivedVars
<1>2. \A l : l \in lists /\ Newest(l) <=> l \in lists' /\ Newest(l)'
  BY <1>1 DEF Newest
<1>3. ListsTyped' /\ NoneNewer'
  BY <1>1 DEF ArchivedInv, ListsTyped, NoneNewer
<1>4. OneNewest' /\ NewestFound' /\ ArchivedIsNewest'
  BY <1>1, <1>2 DEF ArchivedInv, OneNewest, NewestFound, ArchivedIsNewest
<1>5. (\E l \in lists' : Newest(l)') <=> (\E l \in lists : Newest(l))
  BY <1>2
<1>6. LoadingIsNewest'
  BY <1>1, <1>5 DEF ArchivedInv, LoadingIsNewest
<1>. QED
  BY <1>3, <1>4, <1>6 DEF ArchivedInv

LEMMA SameLists ==
  ASSUME ArchivedInv, UNCHANGED archivedListVars, refreshes' = refreshes
  PROVE  ArchivedInv'
<1>1. UNCHANGED <<lists, archivedVars>>
  BY DEF archivedListVars
<1>. QED
  BY <1>1, OtherLists DEF ArchivedInv, ListsTyped

LEMMA DocumentsRefreshed ==
  ASSUME ArchivedInv, RefreshDocuments
  PROVE  ArchivedInv'
<1>1. /\ lists' = lists \cup {ListOf("documents", refreshes')}
      /\ refreshes' = refreshes + 1 /\ UNCHANGED archivedVars
  BY DEF RefreshDocuments
<1>2. refreshes' \in Nat
  BY <1>1 DEF ArchivedInv, ListsTyped
<1>3. /\ ListOf("documents", refreshes') \in AnyList
      /\ ListOf("documents", refreshes').what = "documents"
  BY <1>2 DEF ListOf, AnyList, Unread
<1>. QED
  BY <1>1, <1>2, <1>3, OtherLists DEF ArchivedInv, ListsTyped

LEMMA ArchivedRefreshed ==
  ASSUME ArchivedInv, RefreshArchived
  PROVE  ArchivedInv'
<1>. DEFINE l == ListOf("archived", archivedSeq')
<1>1. /\ lists' = lists \cup {l} /\ archivedSeq' = archivedSeq + 1 /\ isArchivedLoading' = TRUE
      /\ UNCHANGED <<archivedRow, newestArchived, refreshes>>
  BY DEF RefreshArchived, vaultListVars
<1>2. archivedSeq \in Nat /\ archivedSeq' \in Nat
  BY <1>1 DEF ArchivedInv, ListsTyped
<1>3. /\ l \in AnyList /\ l.what = "archived" /\ l.n = archivedSeq' /\ l.read = Unread
  BY <1>2 DEF ListOf, AnyList, Unread
<1>. HIDE DEF l
<1>4. ASSUME NEW m \in lists, m.what = "archived" PROVE m.n \in Nat /\ m.n <= archivedSeq' /\ m.n # archivedSeq'
  <2>1. m.n \in Nat /\ m.n <= archivedSeq
    BY <1>4 DEF ArchivedInv, ListsTyped, NoneNewer, AnyList
  <2>. QED
    BY <1>1, <1>2, <2>1
<1>5. \A m \in lists' : Newest(m)' <=> m = l
  BY <1>1, <1>3, <1>4 DEF Newest
<1>6. ListsTyped' /\ NoneNewer'
  BY <1>1, <1>2, <1>3, <1>4 DEF ArchivedInv, ListsTyped, NoneNewer
<1>7. OneNewest' /\ NewestFound'
  BY <1>3, <1>5 DEF OneNewest, NewestFound
<1>8. \E m \in lists' : Newest(m)'
  BY <1>1, <1>5
<1>9. LoadingIsNewest' /\ ArchivedIsNewest'
  BY <1>1, <1>8 DEF LoadingIsNewest, ArchivedIsNewest
<1>. QED
  BY <1>6, <1>7, <1>9 DEF ArchivedInv

(* The answer of the newest request, or of an older one.                   *)
LEMMA ArchivedEnds ==
  ASSUME ArchivedInv, NEW l \in lists, l.what = "archived", lists' = lists \ {l},
         isArchivedLoading' = (isArchivedLoading /\ l.n # archivedSeq),
         IF l.n = archivedSeq THEN archivedRow' = newestArchived'
                              ELSE UNCHANGED <<archivedRow, newestArchived>>,
         UNCHANGED <<archivedSeq, refreshes>>
  PROVE  ArchivedInv'
<1>1. ListsTyped' /\ NoneNewer'
  BY DEF ArchivedInv, ListsTyped, NoneNewer
<1>2. \A m : Newest(m)' <=> Newest(m)
  BY DEF Newest
<1>3. CASE l.n = archivedSeq
  <2>1. isArchivedLoading' = FALSE /\ archivedRow' = newestArchived' /\ Newest(l)
    BY <1>3 DEF Newest
  <2>2. \A m \in lists' : ~Newest(m)'
    BY <1>2, <2>1 DEF ArchivedInv, OneNewest
  <2>3. OneNewest' /\ NewestFound' /\ ArchivedIsNewest'
    BY <2>1, <2>2 DEF OneNewest, NewestFound, ArchivedIsNewest
  <2>4. LoadingIsNewest'
    BY <2>1, <2>2 DEF LoadingIsNewest
  <2>. QED
    BY <1>1, <2>3, <2>4 DEF ArchivedInv
<1>4. CASE l.n # archivedSeq
  <2>1. ~Newest(l) /\ UNCHANGED <<archivedRow, newestArchived>>
    BY <1>4 DEF Newest
  <2>2. isArchivedLoading' = isArchivedLoading
    BY <1>4 DEF ArchivedInv, LoadingIsNewest
  <2>3. OneNewest' /\ NewestFound' /\ ArchivedIsNewest'
    BY <1>2, <2>1, <2>2 DEF ArchivedInv, OneNewest, NewestFound, ArchivedIsNewest
  <2>4. (\E m \in lists' : Newest(m)') <=> (\E m \in lists : Newest(m))
    BY <1>2, <2>1
  <2>5. LoadingIsNewest'
    BY <2>2, <2>4 DEF ArchivedInv, LoadingIsNewest
  <2>. QED
    BY <1>1, <2>3, <2>5 DEF ArchivedInv
<1>. QED
  BY <1>3, <1>4

LEMMA ListIsRead ==
  ASSUME ArchivedInv, NEW l \in lists, ReadList(l), stored \in Stored
  PROVE  ArchivedInv'
<1>. DEFINE found == IF l.what = "documents" THEN RowOf(stored) ELSE Archived(stored)
           n == [l EXCEPT !.read = found]
<1>1. /\ lists' = (lists \ {l}) \cup {n} /\ l.read = Unread
      /\ newestArchived' = IF l.what = "archived" /\ l.n = archivedSeq THEN Archived(stored)
                           ELSE newestArchived
      /\ UNCHANGED <<archivedRow, isArchivedLoading, archivedSeq, refreshes>>
  BY DEF ReadList, vaultListVars
<1>2. l \in AnyList /\ found \in Int
  BY DEF ArchivedInv, ListsTyped, RowOf, Archived, NoRow, Stored, Title
<1>3. n \in AnyList /\ n.what = l.what /\ n.n = l.n /\ n.read = found
  BY <1>2 DEF AnyList
<1>4. l.what = "archived" => found = Archived(stored)
  BY DEF AnyList
<1>. HIDE DEF n, found
<1>5. ListsTyped' /\ NoneNewer'
  BY <1>1, <1>3 DEF ArchivedInv, ListsTyped, NoneNewer
<1>6. \A m : Newest(m)' <=> Newest(m)
  BY <1>1 DEF Newest
<1>7. Newest(n) <=> Newest(l)
  BY <1>3 DEF Newest
<1>8. OneNewest'
  BY <1>1, <1>6, <1>7 DEF ArchivedInv, OneNewest
<1>9. (\E m \in lists' : Newest(m)') <=> (\E m \in lists : Newest(m))
  BY <1>1, <1>6, <1>7
<1>10. LoadingIsNewest'
  BY <1>1, <1>9 DEF ArchivedInv, LoadingIsNewest
<1>11. NewestFound' /\ ArchivedIsNewest'
  <2>1. CASE Newest(l)
    <3>1. newestArchived' = Archived(stored) /\ n.read = Archived(stored)
      BY <1>1, <1>3, <1>4, <2>1 DEF Newest
    <3>2. \A m \in lists' : Newest(m)' => m = n
      BY <1>1, <1>6, <2>1 DEF ArchivedInv, OneNewest
    <3>3. isArchivedLoading'
      BY <1>1, <2>1 DEF ArchivedInv, LoadingIsNewest
    <3>4. NewestFound'
      BY <3>1, <3>2 DEF NewestFound
    <3>. QED
      BY <3>3, <3>4 DEF ArchivedIsNewest
  <2>2. CASE ~Newest(l)
    <3>1. newestArchived' = newestArchived
      BY <1>1, <2>2 DEF Newest
    <3>. QED
      BY <1>1, <1>6, <1>7, <2>2, <3>1 DEF ArchivedInv, NewestFound, ArchivedIsNewest
  <2>. QED
    BY <2>1, <2>2
<1>. QED
  BY <1>5, <1>8, <1>10, <1>11 DEF ArchivedInv

LEMMA ArchivedInvNext == SealInv /\ ArchivedInv /\ [VaultNext]_vaultVars => ArchivedInv'
<1> SUFFICES ASSUME SealInv, ArchivedInv, [VaultNext]_vaultVars PROVE ArchivedInv'
  OBVIOUS
<1>1. ASSUME NEW l \in lists, ReadList(l) PROVE ArchivedInv'
  BY <1>1, ListIsRead DEF SealInv, WritesTyped
<1>2. ASSUME NEW l \in lists, DocumentsAnswered(l) PROVE ArchivedInv'
  <2>1. l.what = "documents" /\ lists' = lists \ {l} /\ UNCHANGED archivedVars /\ refreshes' = refreshes
    BY <1>2 DEF DocumentsAnswered, Lists
  <2>. QED
    BY <2>1, OtherLists DEF ArchivedInv, ListsTyped
<1>3. ASSUME NEW l \in lists, DocumentsFailed(l) PROVE ArchivedInv'
  <2>1. l.what = "documents" /\ lists' = lists \ {l} /\ UNCHANGED archivedVars /\ refreshes' = refreshes
    BY <1>3 DEF DocumentsFailed, Lists
  <2>. QED
    BY <2>1, OtherLists DEF ArchivedInv, ListsTyped
<1>4. ASSUME NEW l \in lists, ArchivedAnswered(l) PROVE ArchivedInv'
  <2>1. /\ l.what = "archived" /\ lists' = lists \ {l} /\ l.read # Unread
        /\ isArchivedLoading' = (isArchivedLoading /\ l.n # archivedSeq)
        /\ archivedRow' = IF l.n = archivedSeq THEN l.read ELSE archivedRow
        /\ UNCHANGED <<archivedSeq, newestArchived, refreshes>>
    BY <1>4 DEF ArchivedAnswered, Lists, vaultListVars
  <2>2. l.n = archivedSeq => l.read = newestArchived
    BY <2>1 DEF ArchivedInv, NewestFound, Newest
  <2>. QED
    BY <2>1, <2>2, ArchivedEnds
<1>5. ASSUME NEW l \in lists, ArchivedFailed(l) PROVE ArchivedInv'
  <2>1. /\ l.what = "archived" /\ lists' = lists \ {l}
        /\ isArchivedLoading' = (isArchivedLoading /\ l.n # archivedSeq)
        /\ archivedRow' = IF l.n = archivedSeq THEN 0 ELSE archivedRow
        /\ newestArchived' = IF l.n = archivedSeq THEN 0 ELSE newestArchived
        /\ UNCHANGED <<archivedSeq, refreshes>>
    BY <1>5 DEF ArchivedFailed, Lists, vaultListVars
  <2>. QED
    BY <2>1, ArchivedEnds
<1>6. ASSUME NEW next \in {"all", "archived"}, ChangeScope(next) PROVE ArchivedInv'
  <2>1. RefreshArchived \/ UNCHANGED <<vaultListVars, archivedVars, lists>>
    BY <1>6 DEF ChangeScope
  <2>. QED
    BY <2>1, ArchivedRefreshed, SameLists DEF archivedListVars, vaultListVars
<1>7. ASSUME NEW m \in {"new-document", "delete-document"}, OpenModal(m) PROVE ArchivedInv'
  BY <1>7, SameLists DEF OpenModal, archivedListVars, vaultListVars
<1>8. CASE CloseModal
  BY <1>8, SameLists DEF CloseModal, archivedListVars, vaultListVars
<1>9. CASE CreateDocument
  BY <1>9, SameLists DEF CreateDocument, archivedListVars, vaultListVars
<1>10. CASE RenameDocument
  BY <1>10, SameLists DEF RenameDocument, archivedListVars, vaultListVars
<1>11. CASE ConfirmDelete
  BY <1>11, SameLists DEF ConfirmDelete, archivedListVars, vaultListVars
<1>12. CASE UndoDelete
  BY <1>12, SameLists DEF UndoDelete, archivedListVars, vaultListVars
<1>13. CASE ToastExpires
  BY <1>13, SameLists DEF ToastExpires, archivedListVars, vaultListVars
<1>14. CASE RestoreArchived
  BY <1>14, SameLists DEF RestoreArchived, archivedListVars, vaultListVars
<1>15. ASSUME NEW w \in writes, Execute(w) PROVE ArchivedInv'
  BY <1>15, SameLists DEF Execute, archivedListVars, vaultListVars
<1>16. ASSUME NEW w \in writes, Created(w) PROVE ArchivedInv'
  BY <1>16, SameLists DEF Created, archivedListVars, vaultListVars
<1>17. ASSUME NEW w \in writes, Sealed(w) PROVE ArchivedInv'
  BY <1>17, SameLists DEF Sealed, archivedListVars, vaultListVars
<1>18. ASSUME NEW w \in writes, Entitled(w) PROVE ArchivedInv'
  <2>1. /\ lists' = {} /\ isArchivedLoading' = FALSE /\ archivedRow' = newestArchived
        /\ UNCHANGED <<archivedSeq, newestArchived, refreshes>>
    BY <1>18 DEF Entitled, vaultListVars
  <2>2. ListsTyped' /\ NoneNewer' /\ OneNewest' /\ NewestFound' /\ ArchivedIsNewest'
    BY <2>1 DEF ArchivedInv, ListsTyped, NoneNewer, OneNewest, NewestFound, ArchivedIsNewest
  <2>3. LoadingIsNewest'
    BY <2>1 DEF LoadingIsNewest
  <2>. QED
    BY <2>2, <2>3 DEF ArchivedInv
<1>19. ASSUME NEW w \in writes, Renamed(w) PROVE ArchivedInv'
  BY <1>19, SameLists DEF Renamed, archivedListVars, vaultListVars
<1>20. ASSUME NEW w \in writes, Deleted(w) PROVE ArchivedInv'
  BY <1>20, DocumentsRefreshed DEF Deleted
<1>21. ASSUME NEW w \in writes, Undone(w) PROVE ArchivedInv'
  BY <1>21, DocumentsRefreshed DEF Undone
<1>22. ASSUME NEW w \in writes, Restored(w) PROVE ArchivedInv'
  BY <1>22, ArchivedRefreshed DEF Restored
<1>23. ASSUME NEW w \in writes, WriteFails(w) PROVE ArchivedInv'
  <2>1. RefreshDocuments \/ UNCHANGED <<vaultListVars, archivedVars, lists>>
    BY <1>23 DEF WriteFails
  <2>. QED
    BY <2>1, DocumentsRefreshed, SameLists DEF archivedListVars, vaultListVars
<1>24. CASE UNCHANGED vaultVars
  BY <1>24, SameLists DEF vaultVars, archivedListVars, vaultListVars
<1>. QED
  BY <1>1, <1>2, <1>3, <1>4, <1>5, <1>6, <1>7, <1>8, <1>9, <1>10, <1>11,
     <1>12, <1>13, <1>14, <1>15, <1>16, <1>17, <1>18, <1>19, <1>20, <1>21,
     <1>22, <1>23, <1>24 DEF VaultNext

(* The archived shown are what the request issued last found, in whatever  *)
(* order any number of requests is answered: the sequence number of        *)
(* useArchivedDocuments.ts is enough.                                      *)
THEOREM ShowsNewestArchived == VaultSpec => []ArchivedIsNewest
<1>1. ArchivedInv => ArchivedIsNewest
  BY DEF ArchivedInv
<1>2. SealInv /\ ArchivedInv /\ [VaultNext]_vaultVars => SealInv' /\ ArchivedInv'
  BY SealInvNext, ArchivedInvNext
<1>. QED
  BY <1>1, <1>2, SealInvInit, ArchivedInvInit, PTL DEF VaultSpec

-----------------------------------------------------------------------------
(* The list of documents: what it shows is right, or something under way   *)
(* will make it so.                                                        *)

(* The request for documents that was sent last.                           *)
Latest(l) == l.what = "documents" /\ l.n = refreshes
DocumentsCounted == \A l \in lists : l.what = "documents" => l.n <= refreshes
OneLatest == \A l, m \in lists : Latest(l) /\ Latest(m) => l = m

OneRename == \A v, w \in writes : v.kind = "rename" /\ w.kind = "rename" => v = w
NoRename == \A w \in writes : w.kind # "rename"

(* A write that was done has the list asked for again when it is answered, *)
(* and the vault is left when the title of a new document is.              *)
Owed ==
  \E w \in writes : \/ w.kind \in {"seal", "entitle"}
                    \/ w.done /\ w.kind \in {"create", "delete", "undo", "restore"}
ListAsked == \E l \in lists : Latest(l) /\ l.read = Unread
Found == NoRename /\ \E l \in lists : Latest(l) /\ l.read = RowOf(stored)
Shown ==
  /\ \A l \in lists : ~Latest(l)
  /\ \/ status = "error"
     \/ /\ status = "ready"
        /\ \A w \in writes : w.kind = "rename" => row = w.n /\ (w.done => RowOf(stored) = w.n)
        /\ NoRename => row = RowOf(stored)

RowIsTold == OneRename /\ (Owed \/ ListAsked \/ Found \/ Shown)
Excused == overtaken \/ scope = "left"
RowInv == DocumentsCounted /\ OneLatest /\ (~Excused => RowIsTold)

LEMMA RowInvInit == VaultInit => RowInv
<1> SUFFICES ASSUME VaultInit PROVE RowInv
  OBVIOUS
<1>1. lists = {ListOf("documents", 1)} /\ refreshes = 1 /\ writes = {}
  BY DEF VaultInit
<1>2. \A l \in lists : l.what = "documents" /\ l.n = 1 /\ l.read = Unread
  BY <1>1 DEF ListOf
<1>3. DocumentsCounted /\ OneLatest /\ OneRename /\ ListAsked
  BY <1>1, <1>2 DEF DocumentsCounted, OneLatest, OneRename, ListAsked, Latest
<1>. QED
  BY <1>3 DEF RowInv, RowIsTold

(* What is excused stays so, whatever else a step does.                    *)
LEMMA StaysExcused ==
  ASSUME [VaultNext]_vaultVars, Excused PROVE Excused'
<1>1. \/ overtaken
      \/ scope = "left"
  BY DEF Excused
<1>. USE DEF Excused, Act, Post, vaultPageVars
<1>2. ASSUME NEW l \in lists, ReadList(l) \/ DocumentsAnswered(l) \/ DocumentsFailed(l)
                              \/ ArchivedAnswered(l) \/ ArchivedFailed(l)
      PROVE  Excused'
  BY <1>1, <1>2 DEF ReadList, DocumentsAnswered, DocumentsFailed, ArchivedAnswered, ArchivedFailed
<1>3. ASSUME NEW next \in {"all", "archived"}, ChangeScope(next) PROVE Excused'
  BY <1>1, <1>3 DEF ChangeScope
<1>4. ASSUME NEW m, OpenModal(m) PROVE Excused'
  BY <1>1, <1>4 DEF OpenModal
<1>5. CASE \/ CloseModal \/ CreateDocument \/ RenameDocument \/ ConfirmDelete
           \/ UndoDelete \/ ToastExpires \/ RestoreArchived
  BY <1>1, <1>5 DEF CloseModal, CreateDocument, RenameDocument, ConfirmDelete, UndoDelete, ToastExpires,
     RestoreArchived
<1>6. ASSUME NEW w \in writes, \/ Execute(w) \/ Created(w) \/ Sealed(w) \/ Entitled(w) \/ Renamed(w)
                               \/ Deleted(w) \/ Undone(w) \/ Restored(w) \/ WriteFails(w)
      PROVE  Excused'
  BY <1>1, <1>6 DEF Execute, Created, Sealed, Entitled, Renamed, Deleted, Undone, Restored, WriteFails
<1>7. CASE UNCHANGED vaultVars
  BY <1>1, <1>7 DEF vaultVars
<1>. QED
  BY <1>2, <1>3, <1>4, <1>5, <1>6, <1>7 DEF VaultNext

(* Steps that touch neither the list nor its requests, nor renames.        *)
LEMMA RowQuiet ==
  ASSUME RowInv, UNCHANGED <<stored, row, status, refreshes>>, Excused => Excused',
         \A l \in lists \cup lists' : l.what = "documents" => l \in lists /\ l \in lists',
         \A w \in writes \cup writes' : w.kind = "rename" => w \in writes /\ w \in writes',
         Owed => Owed' \/ Excused'
  PROVE  RowInv'
<1>1. \A l : /\ l \in lists /\ Latest(l) => l \in lists' /\ Latest(l)'
             /\ l \in lists' /\ Latest(l)' => l \in lists /\ Latest(l)
  BY DEF Latest
<1>2. DocumentsCounted' /\ OneLatest'
  BY <1>1 DEF RowInv, DocumentsCounted, OneLatest
<1>3. ASSUME ~Excused' PROVE RowIsTold'
  <2>1. OneRename /\ (Owed \/ ListAsked \/ Found \/ Shown)
    BY <1>3 DEF RowInv, RowIsTold
  <2>2. OneRename' /\ (NoRename <=> NoRename')
    BY <2>1 DEF OneRename, NoRename
  <2>3. RowOf(stored)' = RowOf(stored)
    BY DEF RowOf
  <2>4. (ListAsked => ListAsked') /\ (Found => Found')
    BY <1>1, <2>2, <2>3 DEF ListAsked, Found
  <2>5. Shown => Shown'
    BY <1>1, <2>2, <2>3 DEF Shown
  <2>. QED
    BY <1>3, <2>1, <2>2, <2>4, <2>5 DEF RowIsTold
<1>. QED
  BY <1>2, <1>3 DEF RowInv

(* The list is asked for again.                                            *)
LEMMA RowRefreshed ==
  ASSUME ArchivedInv, RowInv, RefreshDocuments, writes' \subseteq writes, Excused => Excused'
  PROVE  RowInv'
<1>. DEFINE l == ListOf("documents", refreshes')
<1>1. /\ lists' = lists \cup {l} /\ refreshes' = refreshes + 1 /\ refreshes \in Nat
      /\ l.what = "documents" /\ l.n = refreshes' /\ l.read = Unread
  BY DEF RefreshDocuments, ListOf, ArchivedInv, ListsTyped
<1>. HIDE DEF l
<1>2. \A m \in lists : m.what = "documents" => m.n \in Nat /\ m.n <= refreshes
  BY DEF RowInv, DocumentsCounted, ArchivedInv, ListsTyped, AnyList
<1>3. \A m \in lists : m.what = "documents" => m.n <= refreshes' /\ m.n # refreshes'
  BY <1>1, <1>2
<1>4. DocumentsCounted' /\ OneLatest' /\ ListAsked'
  BY <1>1, <1>3 DEF DocumentsCounted, OneLatest, ListAsked, Latest
<1>5. ~Excused' => OneRename'
  BY DEF RowInv, RowIsTold, OneRename
<1>. QED
  BY <1>4, <1>5 DEF RowInv, RowIsTold

LEMMA RowReadList ==
  ASSUME SealInv, ArchivedInv, RowInv, NEW l \in lists, ReadList(l), Excused => Excused'
  PROVE  RowInv'
<1>. DEFINE found == IF l.what = "documents" THEN RowOf(stored) ELSE Archived(stored)
            n == [l EXCEPT !.read = found]
<1>1. /\ lists' = (lists \ {l}) \cup {n} /\ l.read = Unread
      /\ UNCHANGED <<stored, row, status, refreshes, writes>>
      /\ l \in AnyList
  BY DEF ReadList, vaultListVars, ArchivedInv, ListsTyped
<1>2. ~overtaken' => NoRename
  BY Zenon DEF ReadList, NoRename
<1>3. n.what = l.what /\ n.n = l.n /\ n.read = found
  BY <1>1 DEF AnyList
<1>4. RowOf(stored)' = RowOf(stored) /\ (NoRename <=> NoRename') /\ (OneRename => OneRename')
      /\ (Owed <=> Owed') /\ RowOf(stored) # Unread
  BY <1>1 DEF RowOf, NoRename, OneRename, Owed, SealInv, WritesTyped, Stored, Title, Unread, NoRow
<1>. HIDE DEF n
<1>5. /\ \A m : Latest(m)' <=> Latest(m)
      /\ Latest(n) <=> Latest(l)
      /\ \A m \in lists' : m = n \/ m \in lists
      /\ \A m \in lists : m = l \/ m \in lists'
      /\ n \in lists'
  BY <1>1, <1>3 DEF Latest
<1>6. DocumentsCounted'
  BY <1>1, <1>3, <1>5 DEF RowInv, DocumentsCounted
<1>7. OneLatest'
  BY <1>1, <1>5 DEF RowInv, OneLatest
<1>8. ASSUME ~Excused' PROVE RowIsTold'
  <2>1. NoRename /\ OneRename /\ (Owed \/ ListAsked \/ Found \/ Shown)
    BY <1>2, <1>8 DEF RowInv, RowIsTold, Excused
  <2>2. CASE Latest(l)
    <3>1. found = RowOf(stored)
      BY <2>2 DEF Latest
    <3>2. Found'
      BY <1>3, <1>4, <1>5, <2>1, <2>2, <3>1 DEF Found
    <3>. QED
      BY <1>4, <2>1, <3>2 DEF RowIsTold
  <2>3. CASE ~Latest(l)
    <3>1. (ListAsked => ListAsked') /\ (Found => Found')
      BY <1>4, <1>5, <2>3 DEF ListAsked, Found
    <3>2. Shown => Shown'
      BY <1>1, <1>4, <1>5, <2>3 DEF Shown
    <3>. QED
      BY <1>4, <2>1, <3>1, <3>2 DEF RowIsTold
  <2>. QED
    BY <2>2, <2>3
<1>. QED
  BY <1>6, <1>7, <1>8 DEF RowInv

LEMMA RowDocumentsAnswered ==
  ASSUME SealInv, ArchivedInv, RowInv, NEW l \in lists, DocumentsAnswered(l), Excused => Excused'
  PROVE  RowInv'
<1>1. /\ l.what = "documents" /\ l.read # Unread /\ lists' = lists \ {l}
      /\ row' = l.read /\ status' = "ready" /\ UNCHANGED <<stored, refreshes, writes>>
  BY DEF DocumentsAnswered, Lists
<1>2. ~overtaken' => ~(l.n < refreshes)
  BY Zenon DEF DocumentsAnswered
<1>3. l.n \in Nat /\ refreshes \in Nat /\ l.n <= refreshes
  BY <1>1 DEF RowInv, DocumentsCounted, ArchivedInv, ListsTyped, AnyList
<1>4. \A m : Latest(m)' <=> Latest(m)
  BY <1>1 DEF Latest
<1>5. DocumentsCounted' /\ OneLatest'
  BY <1>1, <1>4 DEF RowInv, DocumentsCounted, OneLatest
<1>6. ASSUME ~Excused' PROVE RowIsTold'
  <2>1. OneRename /\ (Owed \/ ListAsked \/ Found \/ Shown)
    BY <1>6 DEF RowInv, RowIsTold
  <2>2. Latest(l)
    BY <1>1, <1>2, <1>3, <1>6 DEF Latest, Excused
  <2>3. \A m \in lists : Latest(m) => m = l
    BY <2>2 DEF RowInv, OneLatest
  <2>4. ~ListAsked /\ ~Shown
    BY <1>1, <2>2, <2>3 DEF ListAsked, Shown
  <2>5. OneRename' /\ (Owed => Owed')
    BY <1>1, <2>1 DEF OneRename, Owed
  <2>6. Found => Shown'
    <3>1. Found => NoRename /\ row' = RowOf(stored)
      BY <1>1, <2>3 DEF Found
    <3>2. \A m \in lists' : ~Latest(m)'
      BY <1>1, <1>4, <2>3
    <3>3. RowOf(stored)' = RowOf(stored) /\ (NoRename <=> NoRename')
      BY <1>1 DEF RowOf, NoRename
    <3>. QED
      BY <1>1, <3>1, <3>2, <3>3 DEF Shown, NoRename
  <2>. QED
    BY <2>1, <2>4, <2>5, <2>6 DEF RowIsTold
<1>. QED
  BY <1>5, <1>6 DEF RowInv

LEMMA RowDocumentsFailed ==
  ASSUME RowInv, NEW l \in lists, DocumentsFailed(l), Excused => Excused'
  PROVE  RowInv'
<1>1. /\ lists' = lists \ {l} /\ status' = "error" /\ UNCHANGED <<stored, refreshes, writes, row>>
  BY DEF DocumentsFailed
<1>2. \A m : Latest(m)' <=> Latest(m)
  BY <1>1 DEF Latest
<1>3. DocumentsCounted' /\ OneLatest'
  BY <1>1, <1>2 DEF RowInv, DocumentsCounted, OneLatest
<1>4. ASSUME ~Excused' PROVE RowIsTold'
  <2>1. OneRename /\ (Owed \/ ListAsked \/ Found \/ Shown)
    BY <1>4 DEF RowInv, RowIsTold
  <2>2. OneRename' /\ (Owed => Owed') /\ RowOf(stored)' = RowOf(stored) /\ (NoRename => NoRename')
    BY <1>1, <2>1 DEF OneRename, Owed, RowOf, NoRename
  <2>3. CASE \A m \in lists' : ~Latest(m)'
    BY <1>1, <2>2, <2>3 DEF RowIsTold, Shown
  <2>4. ASSUME NEW m \in lists', Latest(m)' PROVE RowIsTold'
    <3>1. m \in lists /\ Latest(m) /\ \A k \in lists : Latest(k) => k = m
      BY <1>1, <1>2, <2>4 DEF RowInv, OneLatest
    <3>2. ~Shown /\ (ListAsked => ListAsked') /\ (Found => Found')
      BY <1>2, <2>2, <2>4, <3>1 DEF ListAsked, Found, Shown
    <3>. QED
      BY <2>1, <2>2, <3>2 DEF RowIsTold
  <2>. QED
    BY <2>3, <2>4
<1>. QED
  BY <1>3, <1>4 DEF RowInv

(* A rename shows at once; it is excused if a list or a rename is under way.*)
LEMMA RowRenameDocument ==
  ASSUME SealInv, RowInv, RenameDocument, Excused => Excused'
  PROVE  RowInv'
<1>. DEFINE w == [kind |-> "rename", n |-> acted', done |-> FALSE]
<1>1. /\ row' = acted' /\ writes' = writes \cup {w}
      /\ UNCHANGED <<stored, status, refreshes, lists>>
  BY DEF RenameDocument, Post
<1>2. ~overtaken' => Lists("documents") = {} /\ NoRename
  BY Zenon DEF RenameDocument, NoRename
<1>3. w.kind = "rename" /\ w.n = acted' /\ ~w.done
  OBVIOUS
<1>. HIDE DEF w
<1>4. \A m : Latest(m)' <=> Latest(m)
  BY <1>1 DEF Latest
<1>5. DocumentsCounted' /\ OneLatest'
  BY <1>1, <1>4 DEF RowInv, DocumentsCounted, OneLatest
<1>6. ASSUME ~Excused' PROVE RowIsTold'
  <2>1. NoRename /\ \A l \in lists : ~Latest(l)
    BY <1>2, <1>6 DEF Excused, Lists, Latest
  <2>2. Owed \/ Shown
    BY <1>6, <2>1 DEF RowInv, RowIsTold, ListAsked, Found
  <2>3. \A v \in writes' : v.kind = "rename" => v = w
    BY <1>1, <2>1 DEF NoRename
  <2>4. OneRename' /\ (Owed => Owed') /\ ~NoRename'
    BY <1>1, <1>3, <2>3 DEF OneRename, Owed, NoRename
  <2>5. Shown => Shown'
    BY <1>1, <1>3, <1>4, <2>1, <2>3, <2>4 DEF Shown
  <2>. QED
    BY <2>2, <2>4, <2>5 DEF RowIsTold
<1>. QED
  BY <1>5, <1>6 DEF RowInv

LEMMA RowExecute ==
  ASSUME SealInv, RowInv, NEW w \in writes, Execute(w), Excused => Excused'
  PROVE  RowInv'
<1>. DEFINE x == [w EXCEPT !.done = TRUE]
<1>1. /\ ~w.done /\ stored.place = NeededPlace(w.kind) /\ stored' = AfterWrite(w)
      /\ writes' = (writes \ {w}) \cup {x}
      /\ UNCHANGED <<row, status, refreshes, lists>>
      /\ w \in WriteRequest /\ stored \in Stored
  BY DEF Execute, vaultListVars, SealInv, WritesTyped
<1>2. x.kind = w.kind /\ x.n = w.n /\ x.done = TRUE
  BY <1>1 DEF WriteRequest
<1>. HIDE DEF x
<1>3. \A m : Latest(m)' <=> Latest(m)
  BY <1>1 DEF Latest
<1>4. DocumentsCounted' /\ OneLatest'
  BY <1>1, <1>3 DEF RowInv, DocumentsCounted, OneLatest
<1>5. ASSUME ~Excused' PROVE RowIsTold'
  <2>1. OneRename /\ (Owed \/ ListAsked \/ Found \/ Shown)
    BY <1>5 DEF RowInv, RowIsTold
  <2>2. OneRename'
    BY <1>1, <1>2, <2>1 DEF OneRename
  <2>3. CASE w.kind # "rename"
    <3>1. Owed'
      BY <1>1, <1>2, <2>3 DEF Owed, WriteRequest
    <3>. QED
      BY <2>2, <3>1 DEF RowIsTold
  <2>4. CASE w.kind = "rename"
    <3>1. ~Found
      BY <2>4 DEF Found, NoRename
    <3>2. RowOf(stored)' = w.n
      BY <1>1, <2>4 DEF RowOf, AfterWrite, NeededPlace, Stored
    <3>3. Owed => Owed'
      BY <1>1, <2>4 DEF Owed
    <3>4. ListAsked => ListAsked'
      BY <1>1, <1>3 DEF ListAsked
    <3>5. Shown => Shown'
      <4>1. \A v \in writes' : v.kind = "rename" => v = x
        BY <1>1, <2>1, <2>4 DEF OneRename
      <4>2. ~NoRename'
        BY <1>1, <1>2, <2>4 DEF NoRename
      <4>. QED
        BY <1>1, <1>2, <1>3, <2>4, <3>2, <4>1, <4>2 DEF Shown
    <3>. QED
      BY <2>1, <2>2, <3>1, <3>3, <3>4, <3>5 DEF RowIsTold
  <2>. QED
    BY <2>3, <2>4
<1>. QED
  BY <1>4, <1>5 DEF RowInv

LEMMA RowRenamed ==
  ASSUME RowInv, NEW w \in writes, Renamed(w), Excused => Excused'
  PROVE  RowInv'
<1>1. /\ w.done /\ w.kind = "rename" /\ writes' = writes \ {w}
      /\ UNCHANGED <<stored, row, status, refreshes, lists>>
  BY DEF Renamed, WriteAnswered, vaultListVars
<1>2. \A m : Latest(m)' <=> Latest(m)
  BY <1>1 DEF Latest
<1>3. DocumentsCounted' /\ OneLatest'
  BY <1>1, <1>2 DEF RowInv, DocumentsCounted, OneLatest
<1>4. ASSUME ~Excused' PROVE RowIsTold'
  <2>1. OneRename /\ (Owed \/ ListAsked \/ Found \/ Shown)
    BY <1>4 DEF RowInv, RowIsTold
  <2>2. NoRename' /\ OneRename' /\ (Owed => Owed')
    BY <1>1, <2>1 DEF OneRename, NoRename, Owed
  <2>3. RowOf(stored)' = RowOf(stored)
    BY <1>1 DEF RowOf
  <2>4. (ListAsked => ListAsked') /\ (Found => Found')
    BY <1>1, <1>2, <2>2, <2>3 DEF ListAsked, Found
  <2>5. Shown => Shown'
    BY <1>1, <1>2, <2>2, <2>3 DEF Shown, NoRename
  <2>. QED
    BY <2>1, <2>2, <2>4, <2>5 DEF RowIsTold
<1>. QED
  BY <1>3, <1>4 DEF RowInv

LEMMA RowInvNext == SealInv /\ ArchivedInv /\ RowInv /\ [VaultNext]_vaultVars => RowInv'
<1> SUFFICES ASSUME SealInv, ArchivedInv, RowInv, [VaultNext]_vaultVars PROVE RowInv'
  OBVIOUS
<1>0. Excused => Excused'
  BY StaysExcused
<1>1. ASSUME NEW l \in lists, ReadList(l) \/ DocumentsAnswered(l) \/ DocumentsFailed(l) PROVE RowInv'
  BY <1>0, <1>1, RowReadList, RowDocumentsAnswered, RowDocumentsFailed
<1>2. ASSUME NEW l \in lists, ArchivedAnswered(l) \/ ArchivedFailed(l) PROVE RowInv'
  <2>1. /\ l.what # "documents" /\ lists' = lists \ {l}
        /\ UNCHANGED <<stored, row, status, refreshes, writes>>
    BY <1>2 DEF ArchivedAnswered, ArchivedFailed, Lists, vaultListVars
  <2>2. Owed => Owed'
    BY <2>1 DEF Owed
  <2>. QED
    BY <1>0, <2>1, <2>2, RowQuiet
<1>3. ASSUME NEW next \in {"all", "archived"}, ChangeScope(next) PROVE RowInv'
  <2>1. /\ UNCHANGED <<stored, row, status, refreshes, writes>>
        /\ lists' = lists \/ lists' = lists \cup {ListOf("archived", archivedSeq')}
    BY <1>3 DEF ChangeScope, RefreshArchived, vaultListVars
  <2>2. ListOf("archived", archivedSeq').what # "documents"
    BY DEF ListOf
  <2>3. Owed => Owed'
    BY <2>1 DEF Owed
  <2>. QED
    BY <1>0, <2>1, <2>2, <2>3, RowQuiet
<1>4. ASSUME \/ \E m \in {"new-document", "delete-document"} : OpenModal(m)
             \/ CloseModal \/ ToastExpires \/ UNCHANGED vaultVars
      PROVE  RowInv'
  <2>1. UNCHANGED <<stored, row, status, refreshes, lists, writes>>
    BY <1>4 DEF OpenModal, CloseModal, ToastExpires, vaultVars, vaultListVars
  <2>2. Owed => Owed'
    BY <2>1 DEF Owed
  <2>. QED
    BY <1>0, <2>1, <2>2, RowQuiet
<1>5. ASSUME CreateDocument \/ ConfirmDelete \/ UndoDelete \/ RestoreArchived PROVE RowInv'
  <2>1. PICK kind \in {"create", "delete", "undo", "restore"} : Post(kind)
    BY <1>5 DEF CreateDocument, ConfirmDelete, UndoDelete, RestoreArchived
  <2>2. /\ writes' = writes \cup {[kind |-> kind, n |-> acted', done |-> FALSE]}
        /\ UNCHANGED <<stored, row, status, refreshes, lists>>
    BY <1>5, <2>1 DEF Post, CreateDocument, ConfirmDelete, UndoDelete, RestoreArchived, vaultListVars
  <2>3. Owed => Owed'
    BY <2>2 DEF Owed
  <2>. QED
    BY <1>0, <2>2, <2>3, RowQuiet
<1>6. CASE RenameDocument
  BY <1>0, <1>6, RowRenameDocument
<1>7. ASSUME NEW w \in writes, Execute(w) \/ Renamed(w) PROVE RowInv'
  BY <1>0, <1>7, RowExecute, RowRenamed
<1>8. ASSUME NEW w \in writes, NEW kind \in {"seal", "entitle"}, w.kind # "rename",
             writes' = (writes \ {w}) \cup {[w EXCEPT !.kind = kind, !.done = FALSE]},
             UNCHANGED <<stored, row, status, refreshes, lists>>
      PROVE  RowInv'
  <2>. DEFINE x == [w EXCEPT !.kind = kind, !.done = FALSE]
  <2>1. x.kind = kind /\ x \in writes'
    BY <1>8 DEF SealInv, WritesTyped, WriteRequest
  <2>. HIDE DEF x
  <2>2. Owed'
    BY <2>1 DEF Owed
  <2>3. \A v \in writes \cup writes' : v.kind = "rename" => v \in writes /\ v \in writes'
    BY <1>8, <2>1 DEF x
  <2>. QED
    BY <1>0, <1>8, <2>2, <2>3, RowQuiet
<1>9. ASSUME NEW w \in writes, Created(w) \/ Sealed(w) PROVE RowInv'
  <2>1. /\ w.kind # "rename" /\ UNCHANGED <<stored, row, status, refreshes, lists>>
        /\ \E kind \in {"seal", "entitle"} :
             writes' = (writes \ {w}) \cup {[w EXCEPT !.kind = kind, !.done = FALSE]}
    BY <1>9 DEF Created, Sealed, WriteAnswered, vaultListVars
  <2>. QED
    BY <1>8, <2>1
<1>10. ASSUME NEW w \in writes, Entitled(w) PROVE RowInv'
  <2>1. lists' = {} /\ scope' = "left"
    BY <1>10 DEF Entitled
  <2>. QED
    BY <2>1 DEF RowInv, DocumentsCounted, OneLatest, Excused
<1>11. ASSUME NEW w \in writes, Deleted(w) \/ Undone(w) PROVE RowInv'
  BY <1>0, <1>11, RowRefreshed DEF Deleted, Undone
<1>12. ASSUME NEW w \in writes, Restored(w) PROVE RowInv'
  <2>1. /\ UNCHANGED <<stored, row, status, refreshes>> /\ w.kind = "restore"
        /\ writes' = writes \ {w}
        /\ lists' = lists \cup {ListOf("archived", archivedSeq')} /\ overtaken'
    BY <1>12 DEF Restored, RefreshArchived, WriteAnswered, vaultListVars
  <2>2. ListOf("archived", archivedSeq').what # "documents" /\ Excused'
    BY <2>1 DEF ListOf, Excused
  <2>. QED
    BY <2>1, <2>2, RowQuiet
<1>13. ASSUME NEW w \in writes, WriteFails(w) PROVE RowInv'
  <2>1. CASE w.kind = "rename"
    BY <1>0, <1>13, <2>1, RowRefreshed DEF WriteFails
  <2>2. CASE w.kind # "rename"
    <3>1. writes' = writes \ {w} /\ UNCHANGED <<stored, row, status, refreshes, lists>>
      BY <1>13, <2>2 DEF WriteFails, vaultListVars
    <3>2. ~overtaken' => ~w.done /\ w.kind \notin {"seal", "entitle"}
      BY <1>13, <2>2, Zenon DEF WriteFails
    <3>3. Owed => Owed' \/ Excused'
      BY <3>1, <3>2 DEF Owed, Excused
    <3>. QED
      BY <1>0, <2>2, <3>1, <3>3, RowQuiet
  <2>. QED
    BY <2>1, <2>2
<1>. QED
  BY <1>1, <1>2, <1>3, <1>4, <1>5, <1>6, <1>7, <1>9, <1>10, <1>11, <1>12, <1>13 DEF VaultNext

(* When nothing is under way the list of documents is what the server has, *)
(* for any number of actions, unless an answer overtook another, a rename  *)
(* crossed a list, or a write was not followed by the list                 *)
(* (useVaultDocuments and the handlers of useVault that call its refresh). *)
THEOREM ListSettles == VaultSpec => []VaultConverges
<1>1. RowInv => VaultConverges
  BY DEF RowInv, RowIsTold, Excused, Owed, ListAsked, Found, Shown, NoRename, VaultConverges
<1>. QED
  BY <1>1, SealInvInit, SealInvNext, ArchivedInvInit, ArchivedInvNext, RowInvInit, RowInvNext, PTL
     DEF VaultSpec
-----------------------------------------------------------------------------
(* The types, with what the invariants above do not speak of.              *)

(* Every request for a list, every toast and every write under way goes    *)
(* back to an action of the user of its own.                               *)
Budget ==
  /\ IsFiniteSet(writes) /\ refreshes \in Nat \ {0} /\ archivedSeq \in Nat /\ undoToasts \in Nat
  /\ refreshes + archivedSeq + Cardinality(writes) <= acted + 1
  /\ undoToasts + Cardinality(writes) <= acted

LEMMA BudgetInit == VaultInit => Budget
BY FS_EmptySet DEF VaultInit, Budget

LEMMA BudgetPost ==
  ASSUME Budget, WritesTyped, NEW kind, Post(kind), UNCHANGED <<refreshes, archivedSeq>>,
         undoToasts' \in Nat, undoToasts' <= undoToasts
  PROVE  Budget'
<1>. DEFINE w == [kind |-> kind, n |-> acted', done |-> FALSE]
<1>1. acted' = acted + 1 /\ acted \in Nat /\ writes' = writes \cup {w}
  BY VaultAssumption DEF Post, Act, WritesTyped
<1>. HIDE DEF w
<1>2. IsFiniteSet(writes) /\ Cardinality(writes) \in Nat
  BY FS_CardinalityType DEF Budget
<1>3. /\ IsFiniteSet(writes \cup {w})
      /\ Cardinality(writes \cup {w}) = IF w \in writes THEN Cardinality(writes) ELSE Cardinality(writes) + 1
  BY <1>2, FS_AddElement
<1>4. /\ IsFiniteSet(writes') /\ Cardinality(writes') \in Nat
      /\ Cardinality(writes') <= Cardinality(writes) + 1
  BY <1>1, <1>2, <1>3
<1>. QED
  BY <1>1, <1>2, <1>4 DEF Budget

LEMMA BudgetAnswer ==
  ASSUME Budget, WritesTyped, NEW w \in writes, writes' = writes \ {w}, acted' = acted,
         undoToasts' \in {undoToasts, undoToasts + 1},
         \/ refreshes' \in {refreshes, refreshes + 1} /\ archivedSeq' = archivedSeq
         \/ refreshes' = refreshes /\ archivedSeq' = archivedSeq + 1
  PROVE  Budget'
<1>1. /\ IsFiniteSet(writes') /\ Cardinality(writes) \in Nat
      /\ Cardinality(writes') = Cardinality(writes) - 1
  BY FS_RemoveElement, FS_CardinalityType DEF Budget
<1>2. acted \in Nat
  BY VaultAssumption DEF WritesTyped
<1>3. refreshes \in Nat /\ archivedSeq \in Nat /\ undoToasts \in Nat /\ refreshes # 0
  BY DEF Budget
<1>4. refreshes' + archivedSeq' <= refreshes + archivedSeq + 1 /\ undoToasts' <= undoToasts + 1
      /\ refreshes' \in Nat \ {0} /\ archivedSeq' \in Nat /\ undoToasts' \in Nat
  BY <1>3
<1>. QED
  BY <1>1, <1>2, <1>3, <1>4 DEF Budget

LEMMA BudgetReplace ==
  ASSUME Budget, WritesTyped, NEW w \in writes, NEW n, writes' = (writes \ {w}) \cup {n},
         UNCHANGED <<acted, undoToasts, refreshes, archivedSeq>>
  PROVE  Budget'
<1>. DEFINE rest == writes \ {w}
            all == rest \cup {n}
<1>1. acted \in Nat /\ Cardinality(writes) \in Nat
  BY VaultAssumption, FS_CardinalityType DEF WritesTyped, Budget
<1>2. IsFiniteSet(rest) /\ Cardinality(rest) = Cardinality(writes) - 1
  BY FS_RemoveElement DEF Budget
<1>. HIDE DEF rest
<1>3. IsFiniteSet(all) /\ Cardinality(all) = IF n \in rest THEN Cardinality(rest) ELSE Cardinality(rest) + 1
  BY <1>2, FS_AddElement
<1>4. Cardinality(rest) \in Nat
  BY <1>2, FS_CardinalityType
<1>. HIDE DEF all
<1>5. Cardinality(all) \in Nat /\ Cardinality(all) <= Cardinality(writes)
  BY <1>1, <1>2, <1>3, <1>4
<1>6. writes' = all
  BY DEF all, rest
<1>7. IsFiniteSet(writes') /\ Cardinality(writes') \in Nat /\ Cardinality(writes') <= Cardinality(writes)
  BY <1>3, <1>5, <1>6, Zenon
<1>8. /\ refreshes \in Nat \ {0} /\ archivedSeq \in Nat /\ undoToasts \in Nat
      /\ refreshes + archivedSeq + Cardinality(writes) <= acted + 1
      /\ undoToasts + Cardinality(writes) <= acted
  BY DEF Budget
<1>. QED
  BY <1>1, <1>7, <1>8 DEF Budget

LEMMA BudgetNext == SealInv /\ Budget /\ [VaultNext]_vaultVars => Budget'
<1> SUFFICES ASSUME SealInv, Budget, [VaultNext]_vaultVars PROVE Budget'
  OBVIOUS
<1>0. WritesTyped
  BY DEF SealInv
<1>1. CASE UNCHANGED <<writes, acted, undoToasts, refreshes, archivedSeq>>
  BY <1>1 DEF Budget
<1>2. ASSUME NEW l \in lists, \/ ReadList(l) \/ DocumentsAnswered(l) \/ DocumentsFailed(l)
                              \/ ArchivedAnswered(l) \/ ArchivedFailed(l)
      PROVE  Budget'
  BY <1>1, <1>2
  DEF ReadList, DocumentsAnswered, DocumentsFailed, ArchivedAnswered, ArchivedFailed, vaultListVars,
      archivedVars, vaultPageVars
<1>3. ASSUME NEW next \in {"all", "archived"}, ChangeScope(next) PROVE Budget'
  <2>1. /\ acted' = acted + 1 /\ UNCHANGED <<writes, undoToasts, refreshes>>
        /\ archivedSeq' \in {archivedSeq, archivedSeq + 1}
    BY <1>3 DEF ChangeScope, Act, RefreshArchived, vaultListVars, archivedVars
  <2>2. acted \in Nat /\ Cardinality(writes) \in Nat
    BY <1>0, FS_CardinalityType, VaultAssumption DEF WritesTyped, Budget
  <2>. QED
    BY <2>1, <2>2 DEF Budget
<1>4. ASSUME NEW m \in {"new-document", "delete-document"}, OpenModal(m) PROVE Budget'
  BY <1>1, <1>4 DEF OpenModal, vaultListVars, archivedVars
<1>5. CASE CloseModal
  BY <1>1, <1>5 DEF CloseModal, vaultListVars, archivedVars
<1>6. CASE CreateDocument
  BY <1>0, <1>6, BudgetPost DEF CreateDocument, vaultListVars, archivedVars, Budget
<1>7. CASE RenameDocument
  BY <1>0, <1>7, BudgetPost DEF RenameDocument, archivedVars, Budget
<1>8. CASE ConfirmDelete
  BY <1>0, <1>8, BudgetPost DEF ConfirmDelete, vaultListVars, archivedVars, Budget
<1>9. CASE UndoDelete
  BY <1>0, <1>9, BudgetPost DEF UndoDelete, vaultListVars, archivedVars, Budget
<1>10. CASE ToastExpires
  <2>1. /\ undoToasts' \in Nat /\ undoToasts' < undoToasts
        /\ UNCHANGED <<writes, acted, refreshes, archivedSeq>>
    BY <1>10 DEF ToastExpires, vaultListVars, archivedVars, Budget
  <2>2. acted \in Nat /\ Cardinality(writes) \in Nat
    BY <1>0, FS_CardinalityType, VaultAssumption DEF WritesTyped, Budget
  <2>. QED
    BY <2>1, <2>2 DEF Budget
<1>11. CASE RestoreArchived
  BY <1>0, <1>11, BudgetPost DEF RestoreArchived, vaultListVars, archivedVars, Budget
<1>12. ASSUME NEW w \in writes, Execute(w) \/ Created(w) \/ Sealed(w) PROVE Budget'
  <2>1. /\ \E n : writes' = (writes \ {w}) \cup {n}
        /\ UNCHANGED <<acted, undoToasts, refreshes, archivedSeq>>
    BY <1>12 DEF Execute, Created, Sealed, vaultListVars, archivedVars, vaultPageVars
  <2>. QED
    BY <1>0, <2>1, BudgetReplace
<1>13. ASSUME NEW w \in writes, Entitled(w) PROVE Budget'
  <2>1. writes' = {} /\ undoToasts' = 0 /\ UNCHANGED <<acted, refreshes, archivedSeq>>
    BY <1>13 DEF Entitled, vaultListVars
  <2>2. acted \in Nat /\ Cardinality(writes) \in Nat /\ Cardinality(writes') = 0 /\ IsFiniteSet(writes')
    BY <1>0, <2>1, FS_CardinalityType, FS_EmptySet, VaultAssumption DEF WritesTyped, Budget
  <2>. QED
    BY <2>1, <2>2 DEF Budget
<1>14. ASSUME NEW w \in writes, Renamed(w) PROVE Budget'
  BY <1>0, <1>14, BudgetAnswer DEF Renamed, vaultListVars, archivedVars, vaultPageVars
<1>15. ASSUME NEW w \in writes, Deleted(w) PROVE Budget'
  BY <1>0, <1>15, BudgetAnswer DEF Deleted, RefreshDocuments, archivedVars
<1>16. ASSUME NEW w \in writes, Undone(w) PROVE Budget'
  BY <1>0, <1>16, BudgetAnswer DEF Undone, RefreshDocuments, archivedVars, vaultPageVars
<1>17. ASSUME NEW w \in writes, Restored(w) PROVE Budget'
  BY <1>0, <1>17, BudgetAnswer DEF Restored, RefreshArchived, vaultListVars
<1>18. ASSUME NEW w \in writes, WriteFails(w) PROVE Budget'
  <2>1. /\ refreshes' \in {refreshes, refreshes + 1} /\ archivedSeq' = archivedSeq
        /\ writes' = writes \ {w} /\ UNCHANGED <<acted, undoToasts>>
    BY <1>18 DEF WriteFails, RefreshDocuments, vaultListVars, archivedVars
  <2>. QED
    BY <1>0, <2>1, BudgetAnswer
<1>19. CASE UNCHANGED vaultVars
  BY <1>1, <1>19 DEF vaultVars, vaultListVars, archivedVars, vaultPageVars
<1>. QED
  BY <1>2, <1>3, <1>4, <1>5, <1>6, <1>7, <1>8, <1>9, <1>10, <1>11, <1>12, <1>13, <1>14, <1>15,
     <1>16, <1>17, <1>18, <1>19 DEF VaultNext

(* One restore at a time, and the list says so.                            *)
RestoringIsOne ==
  /\ restoringId \in BOOLEAN
  /\ restoringId <=> \E w \in writes : w.kind = "restore"
  /\ \A v, w \in writes : v.kind = "restore" /\ w.kind = "restore" => v = w

LEMMA RestoringPost ==
  ASSUME RestoringIsOne, NEW kind, kind # "restore", Post(kind), UNCHANGED restoringId
  PROVE  RestoringIsOne'
<1>. DEFINE w == [kind |-> kind, n |-> acted', done |-> FALSE]
<1>1. writes' = writes \cup {w} /\ w.kind = kind
  BY DEF Post
<1>. HIDE DEF w
<1>. QED
  BY <1>1 DEF RestoringIsOne

LEMMA RestoringReplace ==
  ASSUME RestoringIsOne, WritesTyped, NEW w \in writes, NEW n, writes' = (writes \ {w}) \cup {n},
         n.kind = "restore" <=> w.kind = "restore", UNCHANGED restoringId
  PROVE  RestoringIsOne'
BY DEF RestoringIsOne

LEMMA RestoringAnswer ==
  ASSUME RestoringIsOne, NEW w \in writes, writes' = writes \ {w},
         restoringId' \in BOOLEAN, restoringId' <=> restoringId /\ w.kind # "restore"
  PROVE  RestoringIsOne'
BY DEF RestoringIsOne

LEMMA RestoringNext == SealInv /\ RestoringIsOne /\ [VaultNext]_vaultVars => RestoringIsOne'
<1> SUFFICES ASSUME SealInv, RestoringIsOne, [VaultNext]_vaultVars PROVE RestoringIsOne'
  OBVIOUS
<1>0. WritesTyped
  BY DEF SealInv
<1>1. CASE UNCHANGED <<writes, restoringId>>
  BY <1>1 DEF RestoringIsOne
<1>2. ASSUME NEW l \in lists, \/ ReadList(l) \/ DocumentsAnswered(l) \/ DocumentsFailed(l)
                              \/ ArchivedAnswered(l) \/ ArchivedFailed(l)
      PROVE  RestoringIsOne'
  BY <1>1, <1>2
  DEF ReadList, DocumentsAnswered, DocumentsFailed, ArchivedAnswered, ArchivedFailed, vaultPageVars
<1>3. ASSUME NEW next \in {"all", "archived"}, ChangeScope(next) PROVE RestoringIsOne'
  BY <1>1, <1>3 DEF ChangeScope
<1>4. ASSUME NEW m \in {"new-document", "delete-document"}, OpenModal(m) PROVE RestoringIsOne'
  BY <1>1, <1>4 DEF OpenModal
<1>5. CASE CloseModal
  BY <1>1, <1>5 DEF CloseModal
<1>6. CASE CreateDocument
  BY <1>6, RestoringPost DEF CreateDocument
<1>7. CASE RenameDocument
  BY <1>7, RestoringPost DEF RenameDocument
<1>8. CASE ConfirmDelete
  BY <1>8, RestoringPost DEF ConfirmDelete
<1>9. CASE UndoDelete
  BY <1>9, RestoringPost DEF UndoDelete
<1>10. CASE ToastExpires
  BY <1>1, <1>10 DEF ToastExpires
<1>11. CASE RestoreArchived
  <2>. DEFINE w == [kind |-> "restore", n |-> acted', done |-> FALSE]
  <2>1. writes' = writes \cup {w} /\ w.kind = "restore" /\ ~restoringId /\ restoringId' = TRUE
    BY <1>11 DEF RestoreArchived, Post
  <2>2. restoringId' \in BOOLEAN
    BY <1>11, Zenon DEF RestoreArchived
  <2>. HIDE DEF w
  <2>. QED
    BY <2>1, <2>2 DEF RestoringIsOne
<1>12. ASSUME NEW w \in writes, Execute(w) PROVE RestoringIsOne'
  <2>. DEFINE n == [w EXCEPT !.done = TRUE]
  <2>1. writes' = (writes \ {w}) \cup {n} /\ n.kind = w.kind /\ UNCHANGED restoringId
    BY <1>0, <1>12 DEF Execute, vaultPageVars, WritesTyped, WriteRequest
  <2>. HIDE DEF n
  <2>. QED
    BY <1>0, <2>1, RestoringReplace
<1>13. ASSUME NEW w \in writes, NEW kind \in {"seal", "entitle"}, w.kind # "restore",
              writes' = (writes \ {w}) \cup {[w EXCEPT !.kind = kind, !.done = FALSE]},
              UNCHANGED restoringId
       PROVE  RestoringIsOne'
  <2>. DEFINE n == [w EXCEPT !.kind = kind, !.done = FALSE]
  <2>1. w \in WriteRequest
    BY <1>0 DEF WritesTyped
  <2>2. writes' = (writes \ {w}) \cup {n} /\ n.kind = kind
    BY <1>13, <2>1 DEF WriteRequest
  <2>. HIDE DEF n
  <2>. QED
    BY <1>0, <1>13, <2>2, RestoringReplace
<1>14. ASSUME NEW w \in writes, Created(w) PROVE RestoringIsOne'
  BY <1>13, <1>14 DEF Created, WriteAnswered, vaultPageVars
<1>15. ASSUME NEW w \in writes, Sealed(w) PROVE RestoringIsOne'
  BY <1>13, <1>15 DEF Sealed, WriteAnswered, vaultPageVars
<1>16. ASSUME NEW w \in writes, Entitled(w) PROVE RestoringIsOne'
  <2>1. restoringId' \in BOOLEAN
    BY <1>16, Zenon DEF Entitled
  <2>. QED
    BY <1>16, <2>1 DEF Entitled, RestoringIsOne
<1>17. ASSUME NEW w \in writes, Renamed(w) PROVE RestoringIsOne'
  BY <1>17, RestoringAnswer DEF Renamed, WriteAnswered, vaultPageVars, RestoringIsOne
<1>18. ASSUME NEW w \in writes, Deleted(w) PROVE RestoringIsOne'
  BY <1>18, RestoringAnswer DEF Deleted, WriteAnswered, RestoringIsOne
<1>19. ASSUME NEW w \in writes, Undone(w) PROVE RestoringIsOne'
  BY <1>19, RestoringAnswer DEF Undone, WriteAnswered, vaultPageVars, RestoringIsOne
<1>20. ASSUME NEW w \in writes, Restored(w) PROVE RestoringIsOne'
  <2>1. restoringId' \in BOOLEAN
    BY <1>20, Zenon DEF Restored
  <2>. QED
    BY <1>20, <2>1, RestoringAnswer DEF Restored, WriteAnswered
<1>21. ASSUME NEW w \in writes, WriteFails(w) PROVE RestoringIsOne'
  <2>1. restoringId' \in BOOLEAN /\ (restoringId' <=> restoringId /\ w.kind # "restore")
    BY <1>21, Zenon DEF WriteFails
  <2>. QED
    BY <1>21, <2>1, RestoringAnswer DEF WriteFails
<1>22. CASE UNCHANGED vaultVars
  BY <1>1, <1>22 DEF vaultVars, vaultPageVars
<1>. QED
  BY <1>2, <1>3, <1>4, <1>5, <1>6, <1>7, <1>8, <1>9, <1>10, <1>11, <1>12, <1>14, <1>15,
     <1>16, <1>17, <1>18, <1>19, <1>20, <1>21, <1>22 DEF VaultNext

(* What a request for a list finds.                                        *)
ListsRead ==
  \A l \in lists :
    /\ l \in AnyList /\ l.n # 0
    /\ l.what = "documents" => l.n <= refreshes /\ l.read \in Title \cup {NoRow, Unread}
    /\ l.what = "archived" => l.read \in {0, 1, Unread}

LEMMA ListsFewer ==
  ASSUME ListsRead, lists' \subseteq lists, UNCHANGED refreshes
  PROVE  ListsRead'
BY DEF ListsRead

LEMMA ListsReadNext == SealInv /\ ArchivedInv /\ Budget /\ ListsRead /\ [VaultNext]_vaultVars => ListsRead'
<1> SUFFICES ASSUME SealInv, ArchivedInv, Budget, ListsRead, [VaultNext]_vaultVars PROVE ListsRead'
  OBVIOUS
<1>1. refreshes \in Nat /\ archivedSeq \in Nat
  BY DEF Budget
<1>2. ASSUME RefreshDocuments PROVE ListsRead'
  <2>. DEFINE n == ListOf("documents", refreshes')
  <2>1. refreshes' = refreshes + 1 /\ lists' = lists \cup {n}
    BY <1>2 DEF RefreshDocuments
  <2>2. n \in AnyList /\ n.n = refreshes' /\ n.what = "documents" /\ n.read = Unread
    BY <1>1, <2>1 DEF ListOf, AnyList, Unread
  <2>. HIDE DEF n
  <2>3. \A l \in lists : l.what = "documents" => l.n <= refreshes'
    BY <1>1, <2>1 DEF ListsRead, AnyList
  <2>. QED
    BY <1>1, <2>1, <2>2, <2>3 DEF ListsRead
<1>3. ASSUME RefreshArchived PROVE ListsRead'
  <2>. DEFINE n == ListOf("archived", archivedSeq')
  <2>1. archivedSeq' = archivedSeq + 1 /\ lists' = lists \cup {n} /\ UNCHANGED refreshes
    BY <1>3 DEF RefreshArchived, vaultListVars
  <2>2. n \in AnyList /\ n.n # 0 /\ n.what = "archived" /\ n.read = Unread
    BY <1>1, <2>1 DEF ListOf, AnyList, Unread
  <2>. HIDE DEF n
  <2>. QED
    BY <2>1, <2>2 DEF ListsRead
<1>4. ASSUME NEW l \in lists, ReadList(l) PROVE ListsRead'
  <2>. DEFINE found == IF l.what = "documents" THEN RowOf(stored) ELSE Archived(stored)
             n == [l EXCEPT !.read = found]
  <2>1. lists' = (lists \ {l}) \cup {n} /\ UNCHANGED refreshes
    BY <1>4 DEF ReadList, vaultListVars
  <2>2. stored \in Stored
    BY DEF SealInv, WritesTyped
  <2>3. /\ RowOf(stored) \in Title \cup {NoRow} /\ Archived(stored) \in {0, 1}
        /\ RowOf(stored) \in Int
    BY <2>2, VaultAssumption DEF RowOf, Archived, Stored, Title, NoRow
  <2>4. l \in AnyList /\ found \in Int
    BY <2>3 DEF ListsRead
  <2>5. n \in AnyList /\ n.what = l.what /\ n.n = l.n /\ n.read = found
    BY <2>4 DEF AnyList
  <2>6. /\ l.what = "documents" => found \in Title \cup {NoRow}
        /\ l.what = "archived" => found \in {0, 1}
    BY <2>3
  <2>. HIDE DEF n, found
  <2>. QED
    BY <2>1, <2>5, <2>6 DEF ListsRead
<1>5. ASSUME NEW l \in lists, \/ DocumentsAnswered(l) \/ DocumentsFailed(l)
                              \/ ArchivedAnswered(l) \/ ArchivedFailed(l)
      PROVE  ListsRead'
  BY <1>5, ListsFewer
  DEF DocumentsAnswered, DocumentsFailed, ArchivedAnswered, ArchivedFailed, vaultListVars
<1>6. ASSUME NEW next \in {"all", "archived"}, ChangeScope(next) PROVE ListsRead'
  BY <1>3, <1>6, ListsFewer DEF ChangeScope, vaultListVars
<1>7. CASE UNCHANGED <<lists, refreshes>>
  BY <1>7, ListsFewer
<1>8. ASSUME NEW m \in {"new-document", "delete-document"}, OpenModal(m) PROVE ListsRead'
  BY <1>7, <1>8 DEF OpenModal, vaultListVars
<1>9. CASE CloseModal \/ CreateDocument \/ RenameDocument \/ ConfirmDelete
  BY <1>7, <1>9 DEF CloseModal, CreateDocument, RenameDocument, ConfirmDelete, vaultListVars
<1>10. CASE UndoDelete \/ ToastExpires \/ RestoreArchived
  BY <1>7, <1>10 DEF UndoDelete, ToastExpires, RestoreArchived, vaultListVars
<1>11. ASSUME NEW w \in writes, Execute(w) \/ Created(w) \/ Sealed(w) \/ Renamed(w) PROVE ListsRead'
  BY <1>7, <1>11 DEF Execute, Created, Sealed, Renamed, vaultListVars
<1>12. ASSUME NEW w \in writes, Entitled(w) PROVE ListsRead'
  BY <1>12, ListsFewer DEF Entitled, vaultListVars
<1>13. ASSUME NEW w \in writes, Deleted(w) \/ Undone(w) PROVE ListsRead'
  BY <1>2, <1>13 DEF Deleted, Undone
<1>14. ASSUME NEW w \in writes, Restored(w) PROVE ListsRead'
  BY <1>3, <1>14 DEF Restored
<1>15. ASSUME NEW w \in writes, WriteFails(w) PROVE ListsRead'
  BY <1>2, <1>7, <1>15 DEF WriteFails, vaultListVars
<1>16. CASE UNCHANGED vaultVars
  BY <1>7, <1>16 DEF vaultVars, vaultListVars
<1>. QED
  BY <1>4, <1>5, <1>6, <1>8, <1>9, <1>10, <1>11, <1>12, <1>13, <1>14, <1>15, <1>16 DEF VaultNext

(* What the lists show, and the rest of the page.                          *)
RowsTyped ==
  /\ row \in Title \cup {NoRow} /\ status \in {"loading", "ready", "error"}
  /\ archivedRow \in {0, 1} /\ newestArchived \in {0, 1}
VaultPageTyped ==
  /\ scope \in {"all", "archived", "left"}
  /\ vaultModal \in {"none", "new-document", "delete-document"}
  /\ overtaken \in BOOLEAN

LEMMA RowsTypedNext ==
  ASSUME SealInv, ListsRead, RowsTyped, [VaultNext]_vaultVars PROVE RowsTyped'
<1>. USE DEF RowsTyped
<1>1. CASE UNCHANGED <<row, status, archivedRow, newestArchived>>
  BY <1>1
<1>2. ASSUME NEW l \in lists, ReadList(l) PROVE RowsTyped'
  BY <1>2 DEF ReadList, vaultListVars, Archived
<1>3. ASSUME NEW l \in lists, DocumentsAnswered(l) PROVE RowsTyped'
  <2>1. l.read \in Title \cup {NoRow}
    BY <1>3 DEF DocumentsAnswered, Lists, ListsRead
  <2>. QED
    BY <1>3, <2>1 DEF DocumentsAnswered, archivedVars
<1>4. ASSUME NEW l \in lists, DocumentsFailed(l) PROVE RowsTyped'
  BY <1>4 DEF DocumentsFailed, archivedVars
<1>5. ASSUME NEW l \in lists, ArchivedAnswered(l) PROVE RowsTyped'
  <2>1. l.read \in {0, 1}
    BY <1>5 DEF ArchivedAnswered, Lists, ListsRead
  <2>. QED
    BY <1>5, <2>1 DEF ArchivedAnswered, vaultListVars
<1>6. ASSUME NEW l \in lists, ArchivedFailed(l) PROVE RowsTyped'
  BY <1>6 DEF ArchivedFailed, vaultListVars
<1>7. ASSUME NEW next \in {"all", "archived"}, ChangeScope(next) PROVE RowsTyped'
  BY <1>7 DEF ChangeScope, RefreshArchived, vaultListVars, archivedVars
<1>8. ASSUME NEW m \in {"new-document", "delete-document"}, OpenModal(m) PROVE RowsTyped'
  BY <1>8 DEF OpenModal, vaultListVars, archivedVars
<1>9. CASE RenameDocument
  <2>1. acted' \in Title
    BY <1>9, VaultAssumption DEF RenameDocument, Post, Act, SealInv, WritesTyped, Title
  <2>. QED
    BY <1>9, <2>1 DEF RenameDocument, archivedVars
<1>10. CASE CloseModal \/ CreateDocument \/ ConfirmDelete \/ UndoDelete \/ ToastExpires \/ RestoreArchived
  BY <1>10 DEF CloseModal, CreateDocument, ConfirmDelete, UndoDelete, ToastExpires, RestoreArchived,
     vaultListVars, archivedVars
<1>11. ASSUME NEW w \in writes, Execute(w) \/ Created(w) \/ Sealed(w) \/ Renamed(w) PROVE RowsTyped'
  BY <1>11 DEF Execute, Created, Sealed, Renamed, vaultListVars, archivedVars
<1>12. ASSUME NEW w \in writes, Entitled(w) PROVE RowsTyped'
  BY <1>12 DEF Entitled, vaultListVars
<1>13. ASSUME NEW w \in writes, Deleted(w) \/ Undone(w) PROVE RowsTyped'
  BY <1>13 DEF Deleted, Undone, RefreshDocuments, archivedVars
<1>14. ASSUME NEW w \in writes, Restored(w) PROVE RowsTyped'
  BY <1>14 DEF Restored, RefreshArchived, vaultListVars
<1>15. ASSUME NEW w \in writes, WriteFails(w) PROVE RowsTyped'
  BY <1>15 DEF WriteFails, RefreshDocuments, vaultListVars, archivedVars
<1>16. CASE UNCHANGED vaultVars
  BY <1>16 DEF vaultVars, vaultListVars, archivedVars
<1>. QED
  BY <1>2, <1>3, <1>4, <1>5, <1>6, <1>7, <1>8, <1>9, <1>10, <1>11, <1>12, <1>13, <1>14, <1>15, <1>16
  DEF VaultNext

LEMMA VaultPageNext == ASSUME VaultPageTyped, [VaultNext]_vaultVars PROVE VaultPageTyped'
<1>. USE DEF VaultPageTyped
<1>1. ASSUME NEW l \in lists, ReadList(l) PROVE VaultPageTyped'
  <2>1. overtaken' \in BOOLEAN
    BY <1>1, Zenon DEF ReadList
  <2>. QED
    BY <1>1, <2>1 DEF ReadList, vaultPageVars
<1>2. ASSUME NEW l \in lists, DocumentsAnswered(l) PROVE VaultPageTyped'
  <2>1. overtaken' \in BOOLEAN
    <3>1. (l.n < refreshes) \in BOOLEAN
      OBVIOUS
    <3>. QED
      BY <1>2, <3>1, Zenon DEF DocumentsAnswered
  <2>. QED
    BY <1>2, <2>1 DEF DocumentsAnswered, vaultPageVars
<1>3. ASSUME NEW l \in lists, DocumentsFailed(l) \/ ArchivedAnswered(l) \/ ArchivedFailed(l)
      PROVE  VaultPageTyped'
  BY <1>3 DEF DocumentsFailed, ArchivedAnswered, ArchivedFailed, vaultPageVars
<1>4. ASSUME NEW next \in {"all", "archived"}, ChangeScope(next) PROVE VaultPageTyped'
  BY <1>4 DEF ChangeScope
<1>5. ASSUME NEW m \in {"new-document", "delete-document"}, OpenModal(m) PROVE VaultPageTyped'
  BY <1>5 DEF OpenModal
<1>6. CASE RenameDocument
  <2>1. overtaken' \in BOOLEAN
    BY <1>6, Zenon DEF RenameDocument
  <2>. QED
    BY <1>6, <2>1 DEF RenameDocument
<1>7. CASE CloseModal \/ CreateDocument \/ ConfirmDelete \/ UndoDelete \/ ToastExpires \/ RestoreArchived
  BY <1>7 DEF CloseModal, CreateDocument, ConfirmDelete, UndoDelete, ToastExpires, RestoreArchived
<1>8. ASSUME NEW w \in writes, \/ Execute(w) \/ Created(w) \/ Sealed(w) \/ Entitled(w) \/ Renamed(w)
                               \/ Deleted(w) \/ Undone(w)
      PROVE  VaultPageTyped'
  BY <1>8 DEF Execute, Created, Sealed, Entitled, Renamed, Deleted, Undone, vaultPageVars
<1>9. ASSUME NEW w \in writes, Restored(w) PROVE VaultPageTyped'
  <2>1. overtaken' \in BOOLEAN
    BY <1>9, Zenon DEF Restored
  <2>. QED
    BY <1>9, <2>1 DEF Restored
<1>10. ASSUME NEW w \in writes, WriteFails(w) PROVE VaultPageTyped'
  <2>1. overtaken' \in BOOLEAN
    BY <1>10, Zenon DEF WriteFails
  <2>. QED
    BY <1>10, <2>1 DEF WriteFails
<1>11. CASE UNCHANGED vaultVars
  BY <1>11 DEF vaultVars, vaultPageVars
<1>. QED
  BY <1>1, <1>2, <1>3, <1>4, <1>5, <1>6, <1>7, <1>8, <1>9, <1>10, <1>11 DEF VaultNext

VaultTypesInv ==
  SealInv /\ ArchivedInv /\ Budget /\ RestoringIsOne /\ ListsRead /\ RowsTyped /\ VaultPageTyped

(* The types of the vault; among them, that no more lists are asked for    *)
(* than the user does things, and that the row is marked as being restored *)
(* exactly while one restore is under way (useArchivedDocuments.ts).       *)
THEOREM VaultTypes == VaultSpec => []VaultTypeOK
<1>1. VaultInit => VaultTypesInv
  <2> SUFFICES ASSUME VaultInit PROVE VaultTypesInv
    OBVIOUS
  <2>1. restoringId \in BOOLEAN /\ overtaken \in BOOLEAN
    BY Zenon DEF VaultInit
  <2>2. RestoringIsOne
    BY <2>1 DEF VaultInit, RestoringIsOne
  <2>3. ListsRead
    <3>1. lists = {ListOf("documents", 1)} /\ refreshes = 1
      BY DEF VaultInit
    <3>. QED
      BY <3>1 DEF ListsRead, ListOf, AnyList, Unread
  <2>4. RowsTyped /\ VaultPageTyped
    BY <2>1 DEF VaultInit, RowsTyped, VaultPageTyped
  <2>. QED
    BY <2>2, <2>3, <2>4, SealInvInit, ArchivedInvInit, BudgetInit DEF VaultTypesInv
<1>2. VaultTypesInv /\ [VaultNext]_vaultVars => VaultTypesInv'
  BY SealInvNext, ArchivedInvNext, BudgetNext, RestoringNext, ListsReadNext, RowsTypedNext, VaultPageNext
  DEF VaultTypesInv
<1>3. VaultTypesInv => VaultTypeOK
  <2> SUFFICES ASSUME VaultTypesInv PROVE VaultTypeOK
    OBVIOUS
  <2>1. /\ stored \in Stored /\ writes \subseteq WriteRequest /\ acted \in 0 .. MaxActions
        /\ RowsTyped /\ VaultPageTyped
    BY DEF VaultTypesInv, SealInv, WritesTyped
  <2>2. acted \in Nat /\ acted <= MaxActions /\ MaxActions \in Nat
    BY <2>1, VaultAssumption
  <2>3. /\ archivedSeq \in Nat /\ refreshes \in Nat \ {0} /\ undoToasts \in Nat
        /\ Cardinality(writes) \in Nat
        /\ refreshes + archivedSeq + Cardinality(writes) <= acted + 1
        /\ undoToasts + Cardinality(writes) <= acted
    BY FS_CardinalityType DEF VaultTypesInv, Budget
  <2>4. /\ archivedSeq <= MaxActions /\ refreshes <= MaxActions + 1 /\ undoToasts \in 0 .. MaxActions
    BY <2>2, <2>3
  <2>5. ASSUME NEW l \in lists PROVE l \in ListRequest
    <3>1. l \in AnyList /\ l.n # 0 /\ (l.n <= refreshes \/ l.n <= archivedSeq)
      BY DEF VaultTypesInv, ListsRead, ArchivedInv, NoneNewer, AnyList
    <3>2. l.n \in 1 .. MaxActions + 1
      BY <2>2, <2>3, <2>4, <3>1 DEF AnyList
    <3>3. l.read \in Title \cup {NoRow, Unread}
      <4>1. CASE l.what = "documents"
        BY <4>1 DEF VaultTypesInv, ListsRead
      <4>2. CASE l.what = "archived"
        <5>1. l.read \in {0, 1, Unread} /\ l.n \in Nat /\ l.n # 0 /\ l.n <= archivedSeq
          BY <4>2 DEF VaultTypesInv, ListsRead, ArchivedInv, NoneNewer, AnyList
        <5>2. MaxActions >= 1
          BY <2>2, <2>3, <2>4, <5>1
        <5>. QED
          BY <2>2, <5>1, <5>2 DEF Title
      <4>. QED
        BY <3>1, <4>1, <4>2 DEF AnyList
    <3>. QED
      BY <3>1, <3>2, <3>3 DEF AnyList, ListRequest
  <2>6. isArchivedLoading = \E l \in lists : l.what = "archived" /\ l.n = archivedSeq
    BY DEF VaultTypesInv, ArchivedInv, LoadingIsNewest, Newest
  <2>7. restoringId = \E w \in writes : w.kind = "restore"
    BY DEF VaultTypesInv, RestoringIsOne
  <2>8. lists \subseteq ListRequest
    BY <2>5
  <2>. HIDE DEF VaultTypesInv
  <2>. QED
    BY <2>1, <2>3, <2>4, <2>6, <2>7, <2>8 DEF VaultTypeOK, RowsTyped, VaultPageTyped
<1>. QED
  BY <1>1, <1>2, <1>3, PTL DEF VaultSpec

-----------------------------------------------------------------------------
(* While the app is open and watched, what is left of the timer and what   *)
(* has passed since the last touch add up to the idle time.                *)
Armed ==
  enabled /\ signedIn /\ ~locked /\ ~excused => timer > 0 /\ idle + timer = IdleTicks

(* The two halves of the type invariant: what is counted, and the rest.    *)
Counted == timer \in 0 .. IdleTicks /\ idle \in 0 .. IdleTicks + 1
Flagged ==
  /\ enabled \in BOOLEAN /\ locked \in BOOLEAN /\ signedIn \in BOOLEAN
  /\ spent \in BOOLEAN /\ polling \in BOOLEAN /\ excused \in BOOLEAN
  /\ guess \in {"none", "right", "wrong"}

LockInv == Counted /\ Flagged /\ NoLockWithoutSession /\ Armed

LEMMA LockInvInit == AutoLockInit => LockInv
<1> SUFFICES ASSUME AutoLockInit PROVE LockInv
  OBVIOUS
<1>1. Counted
  BY AutoLockAssumption DEF AutoLockInit, Counted
<1>2. Flagged
  BY Zenon DEF AutoLockInit, Flagged
<1>3. NoLockWithoutSession /\ Armed
  BY DEF AutoLockInit, NoLockWithoutSession, Armed
<1> QED
  BY <1>1, <1>2, <1>3 DEF LockInv

LEMMA CountedNext == ASSUME Counted, [AutoLockNext]_lockVars PROVE Counted'
<1> USE AutoLockAssumption DEF Counted
<1>1. CASE Touch
  BY <1>1 DEF Touch, ResetIdleTimer
<1>2. CASE SetAutoLockEnabled
  BY <1>2 DEF SetAutoLockEnabled, ResetIdleTimer
<1>3. CASE StartWatcher
  BY <1>3 DEF StartWatcher, ResetIdleTimer
<1>4. CASE StopWatcher
  BY <1>4 DEF StopWatcher
<1>5. CASE RenewSession
  BY <1>5 DEF RenewSession, ResetIdleTimer
<1>6. CASE PassTime
  BY <1>6 DEF PassTime, LockNow
<1>7. CASE SubmitPassword
  BY <1>7 DEF SubmitPassword, ResetIdleTimer
<1>8. CASE Unlock
  BY <1>8 DEF Unlock
<1>9. CASE UNCHANGED lockVars
  BY <1>9 DEF lockVars
<1> QED
  BY <1>1, <1>2, <1>3, <1>4, <1>5, <1>6, <1>7, <1>8, <1>9 DEF AutoLockNext

LEMMA FlaggedNext == ASSUME Flagged, [AutoLockNext]_lockVars PROVE Flagged'
<1> USE DEF Flagged
<1>1. CASE Touch
  BY <1>1, Zenon DEF Touch, ResetIdleTimer
<1>2. CASE SetAutoLockEnabled
  BY <1>2, Zenon DEF SetAutoLockEnabled, ResetIdleTimer
<1>3. CASE StartWatcher
  BY <1>3, Zenon DEF StartWatcher, ResetIdleTimer
<1>4. CASE StopWatcher
  BY <1>4, Zenon DEF StopWatcher
<1>5. CASE RenewSession
  BY <1>5, Zenon DEF RenewSession, ResetIdleTimer
<1>6. CASE PassTime
  BY <1>6, Zenon DEF PassTime, LockNow
<1>7. CASE SubmitPassword
  BY <1>7, Zenon DEF SubmitPassword, ResetIdleTimer
<1>8. CASE Unlock
  BY <1>8, Zenon DEF Unlock
<1>9. CASE UNCHANGED lockVars
  BY <1>9, Zenon DEF lockVars
<1> QED
  BY <1>1, <1>2, <1>3, <1>4, <1>5, <1>6, <1>7, <1>8, <1>9 DEF AutoLockNext

LEMMA NoLockNext ==
  ASSUME Flagged, NoLockWithoutSession, [AutoLockNext]_lockVars PROVE NoLockWithoutSession'
<1> USE DEF Flagged, NoLockWithoutSession
<1>1. CASE Touch
  BY <1>1, Zenon DEF Touch, ResetIdleTimer
<1>2. CASE SetAutoLockEnabled
  BY <1>2, Zenon DEF SetAutoLockEnabled, ResetIdleTimer
<1>3. CASE StartWatcher
  BY <1>3, Zenon DEF StartWatcher, ResetIdleTimer
<1>4. CASE StopWatcher
  BY <1>4, Zenon DEF StopWatcher
<1>5. CASE RenewSession
  BY <1>5, Zenon DEF RenewSession, ResetIdleTimer
<1>6. CASE PassTime
  BY <1>6, Zenon DEF PassTime, LockNow
<1>7. CASE SubmitPassword
  BY <1>7, Zenon DEF SubmitPassword, ResetIdleTimer
<1>8. CASE Unlock
  BY <1>8, Zenon DEF Unlock
<1>9. CASE UNCHANGED lockVars
  BY <1>9, Zenon DEF lockVars
<1> QED
  BY <1>1, <1>2, <1>3, <1>4, <1>5, <1>6, <1>7, <1>8, <1>9 DEF AutoLockNext

LEMMA ArmedNext == ASSUME LockInv, [AutoLockNext]_lockVars PROVE Armed'
<1> USE AutoLockAssumption DEF LockInv, Counted, Flagged, NoLockWithoutSession, Armed
<1>1. CASE Touch
  BY <1>1 DEF Touch, ResetIdleTimer
<1>2. CASE SetAutoLockEnabled
  BY <1>2 DEF SetAutoLockEnabled, ResetIdleTimer
<1>3. CASE StartWatcher
  BY <1>3 DEF StartWatcher, ResetIdleTimer
<1>4. CASE StopWatcher
  BY <1>4 DEF StopWatcher
<1>5. CASE RenewSession
  <2> SUFFICES ASSUME enabled', signedIn', ~locked', ~excused'
               PROVE  timer' > 0 /\ idle' + timer' = IdleTicks
    OBVIOUS
  <2>1. idle = 0
    BY <1>5, Zenon DEF RenewSession
  <2>2. enabled /\ ~locked
    BY <1>5, Zenon DEF RenewSession
  <2>3. timer' = IdleTicks /\ idle' = idle
    BY <1>5, <2>2 DEF RenewSession, ResetIdleTimer
  <2> QED
    BY <2>1, <2>3
<1>6. CASE PassTime
  <2> SUFFICES ASSUME enabled', signedIn', ~locked', ~excused'
               PROVE  timer' > 0 /\ idle' + timer' = IdleTicks
    OBVIOUS
  <2>1. timer # 1
    BY <1>6, Zenon DEF PassTime, LockNow
  <2>2. enabled /\ signedIn /\ ~locked /\ ~excused
    BY <1>6, <2>1, Zenon DEF PassTime
  <2>3. timer > 0 /\ idle + timer = IdleTicks
    BY <2>2
  <2>4. /\ timer' = (IF timer = 0 THEN 0 ELSE timer - 1)
        /\ idle' = (IF idle > IdleTicks THEN idle ELSE idle + 1)
    BY <1>6 DEF PassTime
  <2> QED
    BY <2>1, <2>3, <2>4
<1>7. CASE SubmitPassword
  BY <1>7 DEF SubmitPassword, ResetIdleTimer
<1>8. CASE Unlock
  BY <1>8 DEF Unlock
<1>9. CASE UNCHANGED lockVars
  BY <1>9 DEF lockVars
<1> QED
  BY <1>1, <1>2, <1>3, <1>4, <1>5, <1>6, <1>7, <1>8, <1>9 DEF AutoLockNext

LEMMA LockInvNext == LockInv /\ [AutoLockNext]_lockVars => LockInv'
BY CountedNext, FlaggedNext, NoLockNext, ArmedNext DEF LockInv

LEMMA LockInvAlways == AutoLockSpec => []LockInv
BY LockInvInit, LockInvNext, PTL DEF AutoLockSpec

(* Every variable keeps its type; the idle timer never exceeds the idle    *)
(* time.                                                                   *)
THEOREM AutoLockTypeCorrect == AutoLockSpec => []AutoLockTypeOK
<1>1. LockInv => AutoLockTypeOK
  BY DEF LockInv, Counted, Flagged, AutoLockTypeOK
<1> QED
  BY <1>1, LockInvAlways, PTL

(* An untouched app is locked, but for the two ways the code leaves its    *)
(* timer unarmed and the one by which a page restarts it.                  *)
THEOREM IdleIsLocked == AutoLockSpec => []LocksUnlessDisturbed
<1>1. LockInv => LocksUnlessDisturbed
  BY AutoLockAssumption DEF LockInv, Counted, Armed, LocksUnlessDisturbed
<1> QED
  BY <1>1, LockInvAlways, PTL

(* No lock screen is left over a page without a session.                   *)
THEOREM NoStrayLock == AutoLockSpec => []NoLockWithoutSession
<1>1. LockInv => NoLockWithoutSession
  BY DEF LockInv
<1> QED
  BY <1>1, LockInvAlways, PTL

(* Nothing but the right password, or the end of the session, takes the    *)
(* lock screen away.                                                       *)
THEOREM LockHolds == AutoLockSpec => OnlyPasswordUnlocks
<1>1. LockInv /\ [AutoLockNext]_lockVars
        => [locked /\ ~locked' => guess = "right" \/ ~signedIn']_lockVars
  <2> SUFFICES ASSUME LockInv, AutoLockNext, locked, ~locked'
               PROVE guess = "right" \/ ~signedIn'
    OBVIOUS
  <2>1. CASE Touch \/ SetAutoLockEnabled \/ StartWatcher \/ RenewSession \/ SubmitPassword
    BY <2>1 DEF Touch, SetAutoLockEnabled, StartWatcher, RenewSession, SubmitPassword
  <2>2. CASE StopWatcher
    BY <2>2 DEF StopWatcher
  <2>3. CASE PassTime
    BY <2>3 DEF PassTime, LockNow
  <2>4. CASE Unlock
    BY <2>4, Zenon DEF Unlock, LockInv, Flagged
  <2> QED
    BY <2>1, <2>2, <2>3, <2>4 DEF AutoLockNext
<1> QED
  BY <1>1, LockInvAlways, PTL DEF AutoLockSpec, OnlyPasswordUnlocks
=============================================================================
