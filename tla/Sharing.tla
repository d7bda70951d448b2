------------------------------ MODULE Sharing ------------------------------
(***************************************************************************)
(* Who holds which key of a document: its members and their wrapped DEKs,  *)
(* the rotation that removes a member, invitations by email, the invite    *)
(* link, and the browser tabs that wrap keys for others.                   *)
(*                                                                         *)
(* One document. A DEK is named by the epoch it was generated for, so a    *)
(* wrap <<dek, label>> opens what its label claims exactly when the two    *)
(* are equal; 0 is "no wrap yet". Sealing is exact: only the member a wrap *)
(* is for can open it. Every SQL transaction and every statement outside   *)
(* one is a step (INSERT ... SELECT is two), so that what a handler read   *)
(* in an earlier step may be stale.                                        *)
(***************************************************************************)
EXTENDS Naturals, FiniteSets

CONSTANTS
  User,      \* accounts
  Owner,     \* who created the document
  Tab,       \* browser tabs with the document or its share dialog open
  UserOf,    \* whose tab it is
  MaxEpoch,  \* bound: key epochs
  MaxAsked   \* bound: requests under way at once

ASSUME SharingAssumption ==
  /\ Owner \in User
  /\ UserOf \in [Tab -> User]
  /\ MaxEpoch \in Nat \ {0}
  /\ MaxAsked \in Nat

VARIABLES
  epoch,    \* documents.current_key_epoch
  deleted,  \* documents.deleted_at is set
  members,  \* doc_members: user_id
  wrap,     \* doc_members: whose DEK wrapped_dek is; 0 is NULL
  label,    \* doc_members: key_epoch
  archive,  \* doc_member_key_history
  invites,  \* document_invites
  link,     \* document_invite_links has a row
  key,      \* the documentKey of a tab; dek 0: not loaded
  req       \* the request a tab has under way

dbVars == <<epoch, deleted, members, wrap, label, archive, invites, link>>
vars == <<dbVars, key, req>>

Epochs == 0 .. MaxEpoch
Key == [dek : Epochs, epoch : Epochs]
NoKey == [dek |-> 0, epoch |-> 0]
Archived == [user : User, dek : Epochs, epoch : Epochs]
Invite == [user : User, dek : Epochs, epoch : Epochs]

Kinds == {"idle", "remove", "rotate", "invite", "accept", "insert", "accepted", "join", "enter", "wrap", "link", "unlink"}
Request ==
  [kind : Kinds,
   who  : User,         \* whom it is about; the owner where nobody is meant
   list : SUBSET User,  \* the members a dialog shows, or new_wraps is for
   key  : Key,          \* the DEK it carries, and the epoch an invite has
   row  : Epochs]       \* the document's epoch as AddMember's SELECT saw it
Idle == [kind |-> "idle", who |-> Owner, list |-> {}, key |-> NoKey, row |-> 0]

TypeOK ==
  /\ epoch \in 1 .. MaxEpoch
  /\ deleted \in BOOLEAN
  /\ members \in SUBSET User
  /\ wrap \in [User -> Epochs]
  /\ label \in [User -> Epochs]
  /\ \A u \in members : label[u] \in 1 .. epoch
  /\ \A u \in User \ members : wrap[u] = 0 /\ label[u] = 0
  /\ archive \in SUBSET Archived
  /\ invites \in SUBSET Invite
  /\ link \in BOOLEAN
  /\ key \in [Tab -> Key]
  /\ req \in [Tab -> Request]

(* The owner has created the document and wrapped its DEK for himself.     *)
Init ==
  /\ epoch = 1
  /\ deleted = FALSE
  /\ members = {Owner}
  /\ wrap = [u \in User |-> IF u = Owner THEN 1 ELSE 0]
  /\ label = [u \in User |-> IF u = Owner THEN 1 ELSE 0]
  /\ archive = {}
  /\ invites = {}
  /\ link = FALSE
  /\ key = [t \in Tab |-> NoKey]
  /\ req = [t \in Tab |-> Idle]

(* RequireMembership: a deleted document has no members.                   *)
IsMember(u) == u \in members /\ ~deleted

Put(t, kind, who, list, k, row) ==
  req' = [req EXCEPT ![t] = [kind |-> kind, who |-> who, list |-> list, key |-> k, row |-> row]]

Ask(t, kind, who, list, k) ==
  /\ req[t].kind = "idle"
  /\ Cardinality({s \in Tab : req[s].kind # "idle"}) < MaxAsked
  /\ Put(t, kind, who, list, k, 0)

Answer(t) == req' = [req EXCEPT ![t] = Idle]

(* Whatever a request has under way may end between two statements: its    *)
(* context is the connection's.                                            *)
Abandon(t) ==
  /\ req[t].kind # "idle"
  /\ Answer(t)
  /\ UNCHANGED <<dbVars, key>>

-----------------------------------------------------------------------------
(* Keys in a tab.                                                          *)

(* fetchKeyRing when the page loads; pending_wrapped_dek leaves no key.    *)
LoadKey(t) ==
  LET u == UserOf[t] IN
  /\ IsMember(u)
  /\ key' = [key EXCEPT ![t] = IF wrap[u] = 0 THEN NoKey ELSE [dek |-> wrap[u], epoch |-> label[u]]]
  /\ UNCHANGED <<dbVars, req>>

(* reconcilePendingMember: the tab seals the DEK it holds for a member of  *)
(* its list without one; SetMemberWrappedDEK finds the wrap pending ...    *)
CheckPending(t, v) ==
  /\ v # UserOf[t]
  /\ key[t] # NoKey
  /\ IsMember(UserOf[t])
  /\ v \in members /\ wrap[v] = 0
  /\ Ask(t, "wrap", v, {}, key[t])
  /\ UNCHANGED <<dbVars, key>>

(* ... and sets it. The row's key_epoch stays what it is.                  *)
SetMemberWrappedDEK(t) ==
  /\ req[t].kind = "wrap"
  /\ wrap' = [v \in User |-> IF v = req[t].who /\ v \in members THEN req[t].key.dek ELSE wrap[v]]
  /\ Answer(t)
  /\ UNCHANGED <<epoch, deleted, members, label, archive, invites, link, key>>

-----------------------------------------------------------------------------
(* Removal.                                                                *)

(* The owner's share dialog lists the members.                             *)
ListMembers(t) ==
  /\ UserOf[t] = Owner
  /\ IsMember(Owner)
  /\ Ask(t, "remove", Owner, members, NoKey)
  /\ UNCHANGED <<dbVars, key>>

(* RemoveMemberAndRotate: newWraps has a new DEK for everybody in new.     *)
(* Archives under the document's epoch, whatever the row's label says. It  *)
(* is refused when an archived row exists already.                         *)
ArchivedNow(remaining) ==
  {[user |-> u, dek |-> wrap[u], epoch |-> epoch] : u \in {v \in remaining : wrap[v] # 0}}

Conflict(rows) == \E a \in rows, b \in archive : a.user = b.user /\ a.epoch = b.epoch

(* Mutant: keys are replaced, but the epoch is not advanced.              *)
RotateKeepingEpoch(remaining, new) ==
  /\ epoch < MaxEpoch
  /\ ~Conflict(ArchivedNow(remaining))
  /\ archive' = archive \cup ArchivedNow(remaining)
  /\ members' = remaining
  /\ wrap' = [u \in User |-> IF u \in remaining \cap new THEN epoch + 1 ELSE 0]
  /\ label' = [u \in User |-> IF u \in remaining THEN epoch ELSE 0]
  /\ epoch' = epoch

RotateTo(remaining, new) ==
  /\ epoch < MaxEpoch
  /\ ~Conflict(ArchivedNow(remaining))
  /\ archive' = archive \cup ArchivedNow(remaining)
  /\ members' = remaining
  /\ wrap' = [u \in User |-> IF u \in remaining \cap new THEN epoch + 1 ELSE 0]
  /\ label' = [u \in User |-> IF u \in remaining THEN epoch + 1 ELSE 0]
  /\ epoch' = epoch + 1

(* Mutant: a wrap must be a member's, but members may go without.          *)
CoversSome(new, remaining) == new \subseteq remaining

Covers(new, remaining) == new = remaining

(* The owner's tab makes a DEK, seals it for everybody on its list but the *)
(* target, and posts it; the caller's role is checked ...                  *)
CheckRemoval(t, target) ==
  /\ req[t].kind = "remove"
  /\ target \in req[t].list \ {Owner}
  /\ IF deleted THEN Answer(t) ELSE Put(t, "rotate", target, req[t].list \ {target}, NoKey, 0)
  /\ UNCHANGED <<dbVars, key>>

(* ... and the rotation done. Its answer may get lost on the way back.     *)
RemoveMember(t) ==
  LET target == req[t].who
      remaining == members \ {target} IN
  /\ req[t].kind = "rotate"
  /\ IF target \in members /\ Covers(req[t].list, remaining)
       THEN /\ RotateTo(remaining, req[t].list)
            /\ \/ key' = [key EXCEPT ![t] = [dek |-> epoch + 1, epoch |-> epoch + 1]]
               \/ UNCHANGED key
       ELSE UNCHANGED <<epoch, members, wrap, label, archive, key>>
  /\ Answer(t)
  /\ UNCHANGED <<deleted, invites, link>>

(* Mutant: LeaveDocument forgets the archived keys of everybody.           *)
LeaveForgettingAll(t) ==
  LET u == UserOf[t] IN
  /\ u # Owner /\ IsMember(u)
  /\ members' = members \ {u}
  /\ wrap' = [wrap EXCEPT ![u] = 0]
  /\ label' = [label EXCEPT ![u] = 0]
  /\ archive' = {}
  /\ key' = [key EXCEPT ![t] = NoKey]
  /\ UNCHANGED <<epoch, deleted, invites, link, req>>

(* LeaveDocument: no rotation; the row and the archived keys go.           *)
LeaveDocument(t) ==
  LET u == UserOf[t] IN
  /\ u # Owner /\ IsMember(u)
  /\ members' = members \ {u}
  /\ wrap' = [wrap EXCEPT ![u] = 0]
  /\ label' = [label EXCEPT ![u] = 0]
  /\ archive' = {a \in archive : a.user # u}
  /\ key' = [key EXCEPT ![t] = NoKey]
  /\ UNCHANGED <<epoch, deleted, invites, link, req>>

-----------------------------------------------------------------------------
(* New members.                                                            *)

(* AddMember is INSERT ... SELECT current_key_epoch FROM documents WHERE   *)
(* deleted_at IS NULL. The SELECT locks nothing and the row appears later: *)
(* a rotation that holds the document makes the INSERT wait for its        *)
(* foreign key, and does not see the row.                                  *)
SelectEpoch(t) ==
  /\ req[t].kind \in {"accept", "join"}
  /\ IF deleted THEN Answer(t)
       ELSE Put(t, IF req[t].kind = "accept" THEN "insert" ELSE "enter", req[t].who, {}, req[t].key, epoch)
  /\ UNCHANGED <<dbVars, key>>

(* Mutant: the row is labelled with the epoch a rotation would start.      *)
AddMemberNextEpoch(u, dek, row) ==
  IF u \in members
    THEN UNCHANGED <<members, wrap, label>>
    ELSE /\ members' = members \cup {u}
         /\ wrap' = [wrap EXCEPT ![u] = dek]
         /\ label' = [label EXCEPT ![u] = row + 1]

(* Nothing happens to a member's row.                                      *)
AddMember(u, dek, row) ==
  IF u \in members
    THEN UNCHANGED <<members, wrap, label>>
    ELSE /\ members' = members \cup {u}
         /\ wrap' = [wrap EXCEPT ![u] = dek]
         /\ label' = [label EXCEPT ![u] = row]

(* inviteMember seals the DEK of the tab; CreateInvite checks and reads    *)
(* the document's epoch ...                                                *)
CheckInvitee(t, v) ==
  /\ key[t] # NoKey
  /\ IsMember(UserOf[t])
  /\ ~IsMember(v)
  /\ Ask(t, "invite", v, {}, [dek |-> key[t].dek, epoch |-> epoch])
  /\ UNCHANGED <<dbVars, key>>

(* ... and inserts, one invite per invitee.                                *)
CreateInvite(t) ==
  /\ req[t].kind = "invite"
  /\ invites' =
       IF \E i \in invites : i.user = req[t].who THEN invites
       ELSE invites \cup {[user |-> req[t].who, dek |-> req[t].key.dek, epoch |-> req[t].key.epoch]}
  /\ Answer(t)
  /\ UNCHANGED <<epoch, deleted, members, wrap, label, archive, link, key>>

(* AcceptInvite: the invite is found and is not stale ...                  *)
FindInvite(t, i) ==
  /\ i \in invites /\ i.user = UserOf[t]
  /\ ~deleted /\ i.epoch = epoch
  /\ Ask(t, "accept", i.user, {}, [dek |-> i.dek, epoch |-> i.epoch])
  /\ UNCHANGED <<dbVars, key>>

(* ... the member is added; already_added ends the request ...             *)
AcceptInvite(t) ==
  LET u == UserOf[t] IN
  /\ req[t].kind = "insert"
  /\ AddMember(u, req[t].key.dek, req[t].row)
  /\ IF u \in members THEN Answer(t) ELSE Put(t, "accepted", u, {}, req[t].key, 0)
  /\ UNCHANGED <<epoch, deleted, archive, invites, link, key>>

(* ... and the invite is deleted, by its id.                               *)
DeleteInvite(t) ==
  /\ req[t].kind = "accepted"
  /\ invites' = invites \ {[user |-> UserOf[t], dek |-> req[t].key.dek, epoch |-> req[t].key.epoch]}
  /\ Answer(t)
  /\ UNCHANGED <<epoch, deleted, members, wrap, label, archive, link, key>>

(* DeclineInvite by the invitee, CancelInvite by any member.               *)
DeclineInvite(t, i) ==
  /\ i \in invites
  /\ i.user = UserOf[t] \/ IsMember(UserOf[t])
  /\ invites' = invites \ {i}
  /\ UNCHANGED <<epoch, deleted, members, wrap, label, archive, link, key, req>>

(* CreateInviteLink: the role is checked ...                               *)
CheckOwner(t) ==
  /\ UserOf[t] = Owner
  /\ IsMember(Owner) /\ ~link
  /\ Ask(t, "link", Owner, {}, NoKey)
  /\ UNCHANGED <<dbVars, key>>

(* ... and the link upserted.                                              *)
CreateInviteLink(t) ==
  /\ req[t].kind = "link"
  /\ link' = TRUE
  /\ Answer(t)
  /\ UNCHANGED <<epoch, deleted, members, wrap, label, archive, invites, key>>

RevokeInviteLink(t) ==
  /\ UserOf[t] = Owner /\ IsMember(Owner)
  /\ link /\ link' = FALSE
  /\ UNCHANGED <<epoch, deleted, members, wrap, label, archive, invites, key, req>>

(* JoinViaInviteLink: the token resolves, the caller is no member ...      *)
FindByToken(t) ==
  /\ link /\ ~IsMember(UserOf[t])
  /\ Ask(t, "join", Owner, {}, NoKey)
  /\ UNCHANGED <<dbVars, key>>

(* ... and becomes one, without a key.                                     *)
JoinViaInviteLink(t) ==
  /\ req[t].kind = "enter"
  /\ AddMember(UserOf[t], 0, req[t].row)
  /\ Answer(t)
  /\ UNCHANGED <<epoch, deleted, archive, invites, link, key>>

-----------------------------------------------------------------------------
(* Deletion.                                                               *)

(* The document is marked ...                                              *)
DeleteDocument(t) ==
  /\ UserOf[t] = Owner /\ IsMember(Owner)
  /\ deleted' = TRUE
  /\ Ask(t, "unlink", Owner, {}, NoKey)
  /\ UNCHANGED <<epoch, members, wrap, label, archive, invites, link, key>>

(* ... and its link revoked.                                               *)
RevokeOnDelete(t) ==
  /\ req[t].kind = "unlink"
  /\ link' = FALSE
  /\ Answer(t)
  /\ UNCHANGED <<epoch, deleted, members, wrap, label, archive, invites, key>>

Restore(t) ==
  /\ UserOf[t] = Owner
  /\ deleted /\ deleted' = FALSE
  /\ UNCHANGED <<epoch, members, wrap, label, archive, invites, link, key, req>>

-----------------------------------------------------------------------------
Keys(t) == LoadKey(t) \/ SetMemberWrappedDEK(t) \/ (\E v \in User : CheckPending(t, v))
Removal(t) == ListMembers(t) \/ LeaveDocument(t) \/ RemoveMember(t) \/ (\E u \in User : CheckRemoval(t, u))
Inviting(t) ==
  \/ \E v \in User : CheckInvitee(t, v)
  \/ \E i \in invites : FindInvite(t, i) \/ DeclineInvite(t, i)
  \/ CreateInvite(t) \/ SelectEpoch(t) \/ AcceptInvite(t) \/ DeleteInvite(t)
Linking(t) == CheckOwner(t) \/ CreateInviteLink(t) \/ RevokeInviteLink(t) \/ FindByToken(t) \/ JoinViaInviteLink(t)
Deletion(t) == DeleteDocument(t) \/ RevokeOnDelete(t) \/ Restore(t)

Next == \E t \in Tab : Keys(t) \/ Removal(t) \/ Inviting(t) \/ Linking(t) \/ Deletion(t) \/ Abandon(t)

Spec == Init /\ [][Next]_vars

-----------------------------------------------------------------------------
(* Properties.                                                             *)

(* What fetchKeyRing gives a member.                                       *)
Ring(u) ==
  {[dek |-> wrap[u], epoch |-> label[u]]}
    \cup {[dek |-> a.dek, epoch |-> a.epoch] : a \in {b \in archive : b.user = u}}

(* Whatever the members, tabs and requests do to each other, the owner can *)
(* still open every epoch the document ever had (CRYPTO.md, key ring).     *)
OwnerHoldsEveryKey == \A e \in 1 .. epoch : [dek |-> e, epoch |-> e] \in Ring(Owner)

(* A rotation never fails on the primary key of doc_member_key_history,    *)
(* whoever left, came back or was removed before.                          *)
ArchiveNeverCollides == ~Conflict(ArchivedNow(members))

(* A rotation leaves nobody without the new key (CRYPTO.md:232-233), also  *)
(* when somebody joined or left since the owner's dialog listed members.   *)
NobodyLeftBehind ==
  [][epoch' # epoch => \A u \in members' : wrap'[u] = epoch' /\ label'[u] = epoch']_vars

(* A member's wrap opens the epoch its row is labelled with                *)
(* (document_repository.go:380-385).                                       *)
WrapOpensItsEpoch == \A u \in members : wrap[u] # 0 => wrap[u] = label[u]
=============================================================================
