--------------------------- MODULE SharedDocument ---------------------------
(***************************************************************************)
(* What collaborative editing promises, with no server in sight: every tab *)
(* has a copy of the document; what a tab types it has at once; what it    *)
(* has of the others' it has only after it became durable; durable edits   *)
(* stay durable; a page that is loaded again starts from durable edits.    *)
(***************************************************************************)
EXTENDS Naturals

CONSTANT Client

VARIABLES
  typed,    \* every edit typed so far
  durable,  \* edits the service has taken responsibility for
  copy      \* what each tab has

docVars == <<typed, durable, copy>>

DocInit ==
  /\ typed = {}
  /\ durable = {}
  /\ copy = [c \in Client |-> {}]

TypeEdit(c) ==
  \E e \in typed' \ typed :
    /\ typed' = typed \cup {e}
    /\ copy' = [copy EXCEPT ![c] = @ \cup {e}]
    /\ UNCHANGED durable

MakeDurable ==
  /\ durable \subseteq durable'
  /\ durable' \subseteq typed
  /\ UNCHANGED <<typed, copy>>

Learn(c) ==
  \E e \in durable :
    /\ copy' = [copy EXCEPT ![c] = @ \cup {e}]
    /\ UNCHANGED <<typed, durable>>

LoadAgain(c) ==
  /\ \E page \in SUBSET durable : copy' = [copy EXCEPT ![c] = page]
  /\ UNCHANGED <<typed, durable>>

DocNext ==
  \/ MakeDurable
  \/ \E c \in Client : TypeEdit(c) \/ Learn(c) \/ LoadAgain(c)

DocSpec == DocInit /\ [][DocNext]_docVars
=============================================================================
