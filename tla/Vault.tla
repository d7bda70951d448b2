------------------------------- MODULE Vault -------------------------------
(***************************************************************************)
(* The vault: the list of documents and the list of archived ones, each    *)
(* fetched by requests of its own, and the actions on a document. A rename *)
(* shows before the server has it; a deletion, and its undo, have the list *)
(* fetched again once it has; a restore only that of the archived.         *)
(*                                                                         *)
(* One document stands for the others, whose rows are told apart by their  *)
(* id. Its titles are numbered; 0 is the empty one it is created with.     *)
(***************************************************************************)
EXTENDS Integers

CONSTANT MaxActions  \* bound: what the user does

ASSUME VaultAssumption == MaxActions \in Nat

VARIABLES
  stored,        \* the document on the server: where it is, its key, its title
  row, status,   \* the document in the list, and how the list is
  archivedRow, isArchivedLoading, archivedSeq,
  refreshes,     \* how often the list of documents was asked for
  lists, writes, \* requests under way
  scope, vaultModal, restoringId,
  undoToasts,    \* toasts that offer to undo a deletion
  acted,
  overtaken,     \* history: the list shows what was true out of order, or was not asked for
  newestArchived \* history: what the newest request for the archived found

vaultListVars == <<row, status, refreshes>>
archivedVars == <<archivedRow, isArchivedLoading, archivedSeq, newestArchived>>
vaultPageVars == <<scope, vaultModal, restoringId, undoToasts, acted>>
vaultVars == <<stored, vaultListVars, archivedVars, lists, writes, vaultPageVars, overtaken>>

Title == 0 .. MaxActions
Stored == [place : {"nowhere", "vault", "archive"}, sealed : BOOLEAN, title : Title]
NoRow == 0 - 1
Unread == 0 - 2
RowOf(s) == IF s.place = "vault" THEN s.title ELSE NoRow
Archived(s) == IF s.place = "archive" THEN 1 ELSE 0

ListRequest == [what : {"documents", "archived"}, n : 1 .. MaxActions + 1,
                read : Title \cup {NoRow, Unread}]
WriteRequest == [kind : {"create", "seal", "entitle", "rename", "delete", "undo", "restore"},
                 n : 1 .. MaxActions, done : BOOLEAN]

VaultTypeOK ==
  /\ stored \in Stored
  /\ row \in Title \cup {NoRow} /\ status \in {"loading", "ready", "error"}
  /\ archivedRow \in {0, 1} /\ newestArchived \in {0, 1} /\ archivedSeq \in Nat
  /\ isArchivedLoading = \E l \in lists : l.what = "archived" /\ l.n = archivedSeq
  /\ lists \subseteq ListRequest /\ writes \subseteq WriteRequest
  /\ scope \in {"all", "archived", "left"} /\ vaultModal \in {"none", "new-document", "delete-document"}
  /\ restoringId = \E w \in writes : w.kind = "restore"
  /\ undoToasts \in 0 .. MaxActions /\ acted \in 0 .. MaxActions /\ overtaken \in BOOLEAN

Lists(what) == {l \in lists : l.what = what}
ListOf(what, n) == [what |-> what, n |-> n, read |-> Unread]

VaultInit ==
  /\ stored \in {s \in Stored : s.title = 0 /\ s.sealed = (s.place # "nowhere")}
  /\ row = NoRow /\ status = "loading" /\ refreshes = 1
  /\ archivedRow = 0 /\ isArchivedLoading = FALSE /\ archivedSeq = 0 /\ newestArchived = 0
  /\ lists = {ListOf("documents", 1)} /\ writes = {}
  /\ scope = "all" /\ vaultModal = "none" /\ restoringId = FALSE /\ undoToasts = 0 /\ acted = 0
  /\ overtaken = FALSE
-----------------------------------------------------------------------------
(* The server reads a list at any moment before it is answered.            *)
ReadList(l) ==
  /\ l \in lists /\ l.read = Unread
  /\ lists' = (lists \ {l}) \cup
       {[l EXCEPT !.read = IF l.what = "documents" THEN RowOf(stored) ELSE Archived(stored)]}
  /\ newestArchived' = IF l.what = "archived" /\ l.n = archivedSeq THEN Archived(stored)
                       ELSE newestArchived
  /\ overtaken' = (overtaken \/ \E w \in writes : w.kind = "rename")
  /\ UNCHANGED <<stored, vaultListVars, archivedRow, isArchivedLoading, archivedSeq, writes,
                 vaultPageVars>>

(* useVaultDocuments: whichever refresh is answered writes the list.       *)
DocumentsAnswered(l) ==
  /\ l \in Lists("documents") /\ l.read # Unread
  /\ lists' = lists \ {l}
  /\ row' = l.read /\ status' = "ready"
  /\ overtaken' = (overtaken \/ l.n < refreshes)
  /\ UNCHANGED <<stored, refreshes, archivedVars, writes, vaultPageVars>>

DocumentsFailed(l) ==
  /\ l \in Lists("documents")
  /\ lists' = lists \ {l} /\ status' = "error"
  /\ UNCHANGED <<stored, row, refreshes, archivedVars, writes, vaultPageVars, overtaken>>

(* useArchivedDocuments: only the request issued last writes.              *)
ArchivedAnswered(l) ==
  /\ l \in Lists("archived") /\ l.read # Unread
  /\ lists' = lists \ {l}
  /\ archivedRow' = IF l.n = archivedSeq THEN l.read ELSE archivedRow
  /\ isArchivedLoading' = (isArchivedLoading /\ l.n # archivedSeq)
  /\ UNCHANGED <<stored, vaultListVars, archivedSeq, newestArchived, writes, vaultPageVars,
                 overtaken>>

ArchivedFailed(l) ==
  /\ l \in Lists("archived")
  /\ lists' = lists \ {l}
  /\ archivedRow' = IF l.n = archivedSeq THEN 0 ELSE archivedRow
  /\ newestArchived' = IF l.n = archivedSeq THEN 0 ELSE newestArchived
  /\ isArchivedLoading' = (isArchivedLoading /\ l.n # archivedSeq)
  /\ UNCHANGED <<stored, vaultListVars, archivedSeq, writes, vaultPageVars, overtaken>>

RefreshDocuments ==
  /\ refreshes' = refreshes + 1 /\ status' = "loading"
  /\ lists' = lists \cup {ListOf("documents", refreshes')}
  /\ UNCHANGED <<row, archivedVars>>

RefreshArchived ==
  /\ archivedSeq' = archivedSeq + 1 /\ isArchivedLoading' = TRUE
  /\ lists' = lists \cup {ListOf("archived", archivedSeq')}
  /\ UNCHANGED <<vaultListVars, archivedRow, newestArchived>>
-----------------------------------------------------------------------------
(* What the user does, each a write sent to the server or a view opened.   *)
Act == acted < MaxActions /\ acted' = acted + 1
Post(kind) ==
  /\ Act
  /\ writes' = writes \cup {[kind |-> kind, n |-> acted', done |-> FALSE]}

ChangeScope(next) ==
  /\ Act /\ vaultModal = "none" /\ scope \notin {next, "left"}
  /\ scope' = next
  /\ IF next = "archived" THEN RefreshArchived ELSE UNCHANGED <<vaultListVars, archivedVars, lists>>
  /\ UNCHANGED <<stored, writes, vaultModal, restoringId, undoToasts, overtaken>>

OpenModal(m) ==
  /\ vaultModal = "none" /\ scope # "left"
  /\ m = "delete-document" => scope = "all" /\ row # NoRow
  /\ vaultModal' = m
  /\ UNCHANGED <<stored, vaultListVars, archivedVars, lists, writes, scope, restoringId, undoToasts,
                 acted, overtaken>>

CloseModal ==
  /\ vaultModal # "none"
  /\ vaultModal' = "none"
  /\ UNCHANGED <<stored, vaultListVars, archivedVars, lists, writes, scope, restoringId, undoToasts,
                 acted, overtaken>>

(* The form of a new document, not to be submitted again while it is sent. *)
CreateDocument ==
  /\ vaultModal = "new-document" /\ stored.place = "nowhere"
  /\ ~\E w \in writes : w.kind \in {"create", "seal", "entitle"}
  /\ Post("create")
  /\ UNCHANGED <<stored, vaultListVars, archivedVars, lists, scope, vaultModal, restoringId,
                 undoToasts, overtaken>>

(* handleRename: the row has the title at once, if its key is there. A     *)
(* list or a rename under way may undo that.                               *)
RenameDocument ==
  /\ vaultModal = "none" /\ scope = "all" /\ row # NoRow /\ stored.sealed
  /\ Post("rename")
  /\ row' = acted'
  /\ overtaken' = (overtaken \/ Lists("documents") # {} \/ \E w \in writes : w.kind = "rename")
  /\ UNCHANGED <<stored, status, refreshes, archivedVars, lists, scope, vaultModal, restoringId,
                 undoToasts>>

ConfirmDelete ==
  /\ vaultModal = "delete-document"
  /\ Post("delete") /\ vaultModal' = "none"
  /\ UNCHANGED <<stored, vaultListVars, archivedVars, lists, scope, restoringId, undoToasts, overtaken>>

UndoDelete ==
  /\ undoToasts > 0
  /\ Post("undo") /\ undoToasts' = undoToasts - 1
  /\ UNCHANGED <<stored, vaultListVars, archivedVars, lists, scope, vaultModal, restoringId,
                 overtaken>>

ToastExpires ==
  /\ undoToasts > 0 /\ undoToasts' = undoToasts - 1
  /\ UNCHANGED <<stored, vaultListVars, archivedVars, lists, writes, scope, vaultModal,
                 restoringId, acted, overtaken>>

RestoreArchived ==
  /\ vaultModal = "none" /\ scope = "archived" /\ ~isArchivedLoading /\ archivedRow = 1
  /\ ~restoringId
  /\ Post("restore") /\ restoringId' = TRUE
  /\ UNCHANGED <<stored, vaultListVars, archivedVars, lists, scope, vaultModal, undoToasts, overtaken>>
-----------------------------------------------------------------------------
(* What the server does for each write, and where the document has to be.  *)
NeededPlace(kind) ==
  CASE kind = "create" -> "nowhere" [] kind \in {"undo", "restore"} -> "archive" [] OTHER -> "vault"
AfterWrite(w) ==
  CASE w.kind = "seal"                  -> [stored EXCEPT !.sealed = TRUE]
    [] w.kind \in {"entitle", "rename"} -> [stored EXCEPT !.title = w.n]
    [] w.kind = "delete"                -> [stored EXCEPT !.place = "archive"]
    [] OTHER                            -> [stored EXCEPT !.place = "vault"]

Execute(w) ==
  /\ w \in writes /\ ~w.done /\ stored.place = NeededPlace(w.kind)
  /\ stored' = AfterWrite(w)
  /\ writes' = (writes \ {w}) \cup {[w EXCEPT !.done = TRUE]}
  /\ UNCHANGED <<vaultListVars, archivedVars, lists, vaultPageVars, overtaken>>

WriteAnswered(w, kind) == w \in writes /\ w.done /\ w.kind = kind

(* createNewDocument: its key, then its title, each once the one before    *)
(* was answered.                                                           *)
Created(w) ==
  /\ WriteAnswered(w, "create")
  /\ writes' = (writes \ {w}) \cup {[w EXCEPT !.kind = "seal", !.done = FALSE]}
  /\ UNCHANGED <<stored, vaultListVars, archivedVars, lists, vaultPageVars, overtaken>>

Sealed(w) ==
  /\ WriteAnswered(w, "seal")
  /\ writes' = (writes \ {w}) \cup {[w EXCEPT !.kind = "entitle", !.done = FALSE]}
  /\ UNCHANGED <<stored, vaultListVars, archivedVars, lists, vaultPageVars, overtaken>>

(* The new document is opened, and the vault left.                         *)
Entitled(w) ==
  /\ WriteAnswered(w, "entitle")
  /\ scope' = "left" /\ writes' = {} /\ lists' = {} /\ isArchivedLoading' = FALSE
  /\ vaultModal' = "none" /\ undoToasts' = 0 /\ restoringId' = FALSE
  /\ archivedRow' = newestArchived
  /\ UNCHANGED <<stored, vaultListVars, archivedSeq, newestArchived, acted, overtaken>>

Renamed(w) ==
  /\ WriteAnswered(w, "rename")
  /\ writes' = writes \ {w}
  /\ UNCHANGED <<stored, vaultListVars, archivedVars, lists, vaultPageVars, overtaken>>

(* Mutant: the toast comes without the list.                               *)
DeletedQuietly(w) ==
  /\ WriteAnswered(w, "delete")
  /\ writes' = writes \ {w} /\ undoToasts' = undoToasts + 1
  /\ UNCHANGED <<stored, vaultListVars, archivedVars, lists, scope, vaultModal, restoringId,
                 acted, overtaken>>

Deleted(w) ==
  /\ WriteAnswered(w, "delete")
  /\ writes' = writes \ {w} /\ undoToasts' = undoToasts + 1
  /\ RefreshDocuments
  /\ UNCHANGED <<stored, scope, vaultModal, restoringId, acted, overtaken>>

Undone(w) ==
  /\ WriteAnswered(w, "undo")
  /\ writes' = writes \ {w}
  /\ RefreshDocuments
  /\ UNCHANGED <<stored, vaultPageVars, overtaken>>

(* handleRestore: the list of documents is not asked for.                  *)
Restored(w) ==
  /\ WriteAnswered(w, "restore")
  /\ writes' = writes \ {w} /\ restoringId' = FALSE
  /\ RefreshArchived
  /\ overtaken' = TRUE
  /\ UNCHANGED <<stored, scope, vaultModal, undoToasts, acted>>

(* A write that fails may have been done. Only a rename asks for the list, *)
(* a creation that stops half-way does not.                                *)
WriteFails(w) ==
  /\ w \in writes
  /\ writes' = writes \ {w}
  /\ restoringId' = (restoringId /\ w.kind # "restore")
  /\ IF w.kind = "rename" THEN RefreshDocuments ELSE UNCHANGED <<vaultListVars, archivedVars, lists>>
  /\ overtaken' = (overtaken \/ (w.kind # "rename" /\ w.done)
                          \/ w.kind \in {"seal", "entitle"})
  /\ UNCHANGED <<stored, scope, vaultModal, undoToasts, acted>>

VaultNext ==
  \/ \E l \in lists : \/ ReadList(l) \/ DocumentsAnswered(l) \/ DocumentsFailed(l)
                      \/ ArchivedAnswered(l) \/ ArchivedFailed(l)
  \/ \E next \in {"all", "archived"} : ChangeScope(next)
  \/ \E m \in {"new-document", "delete-document"} : OpenModal(m)
  \/ CloseModal \/ CreateDocument \/ RenameDocument \/ ConfirmDelete
  \/ UndoDelete \/ ToastExpires \/ RestoreArchived
  \/ \E w \in writes : \/ Execute(w) \/ Created(w) \/ Sealed(w) \/ Entitled(w) \/ Renamed(w)
                       \/ Deleted(w) \/ Undone(w) \/ Restored(w) \/ WriteFails(w)

VaultSpec == VaultInit /\ [][VaultNext]_vaultVars
-----------------------------------------------------------------------------
(* The archived shown are what the request issued last found, in whatever  *)
(* order the requests are answered.                                        *)
ArchivedIsNewest == ~isArchivedLoading => archivedRow = newestArchived

(* When nothing is under way the list is what the server has. Excused are  *)
(* an answer that overtook another, a rename that crossed a list or one    *)
(* more rename, a restored document, and a write done but not answered.    *)
VaultConverges ==
  lists = {} /\ writes = {} /\ status = "ready" /\ scope # "left" /\ ~overtaken
    => row = RowOf(stored)

(* A document with a title was sealed a key, by whatever steps its         *)
(* creation got to.                                                        *)
TitledIsSealed == stored.title # 0 => stored.sealed
=============================================================================
