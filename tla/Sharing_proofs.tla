--------------------------- MODULE Sharing_proofs ---------------------------
(***************************************************************************)
(* For every instance of Sharing: its types, that the owner can open every *)
(* epoch, that archived keys never collide, and that a rotation leaves no  *)
(* member without the new key.                                             *)
(***************************************************************************)
EXTENDS Sharing, FiniteSetTheorems, TLAPS

(* The strengthening: the owner's row is always current, the archive is in *)
(* the past and complete for the owner, and no request is about to touch   *)
(* the owner's row or to add a row of a future epoch.                      *)
Kept ==
  /\ Owner \in members /\ wrap[Owner] = epoch /\ label[Owner] = epoch
  /\ \A a \in archive : a.epoch < epoch
  /\ \A e \in 1 .. (epoch - 1) : [user |-> Owner, dek |-> e, epoch |-> e] \in archive
  /\ \A t \in Tab : req[t].kind \in {"wrap", "rotate"} => req[t].who # Owner
  /\ \A t \in Tab : req[t].kind \in {"insert", "enter"} => req[t].row \in 1 .. epoch

Inv == TypeOK /\ Kept

LEMMA PutType ==
  ASSUME TypeOK, NEW t \in Tab, NEW kind \in Kinds, NEW who \in User, NEW list \in SUBSET User,
         NEW k \in Key, NEW row \in Epochs, Put(t, kind, who, list, k, row)
  PROVE  req' \in [Tab -> Request]
<1>1. [kind |-> kind, who |-> who, list |-> list, key |-> k, row |-> row] \in Request
  BY DEF Request
<1>. QED
  BY <1>1 DEF TypeOK, Put

LEMMA AnswerType ==
  ASSUME TypeOK, NEW t \in Tab, Answer(t)
  PROVE  req' \in [Tab -> Request]
<1>1. Idle \in Request
  BY SharingAssumption DEF Idle, Request, Kinds, NoKey, Key, Epochs
<1>. QED
  BY <1>1 DEF TypeOK, Answer

LEMMA InitKept == Init => Inv
<1> SUFFICES ASSUME Init PROVE Inv
  OBVIOUS
<1>1. NoKey \in Key /\ Idle \in Request
  BY SharingAssumption DEF Idle, Request, Kinds, NoKey, Key, Epochs
<1>2. TypeOK
  <2>. USE SharingAssumption DEF Init
  <2>1. epoch \in 1 .. MaxEpoch /\ wrap \in [User -> Epochs] /\ label \in [User -> Epochs]
    BY DEF Epochs
  <2>2. /\ \A u \in members : label[u] \in 1 .. epoch
        /\ \A u \in User \ members : wrap[u] = 0 /\ label[u] = 0
    OBVIOUS
  <2>3. key \in [Tab -> Key] /\ req \in [Tab -> Request]
    BY <1>1
  <2>. QED
    BY <2>1, <2>2, <2>3 DEF TypeOK
<1>3. Kept
  BY SharingAssumption DEF Init, Kept, Idle
<1>. QED
  BY <1>2, <1>3 DEF Inv

(* A step that only opens a request, or moves one on.                      *)
LEMMA PutKeeps ==
  ASSUME Inv, NEW t \in Tab, NEW kind \in Kinds, NEW who \in User, NEW list \in SUBSET User,
         NEW k \in Key, NEW row \in Epochs, Put(t, kind, who, list, k, row),
         kind \in {"wrap", "rotate"} => who # Owner,
         kind \in {"insert", "enter"} => row \in 1 .. epoch,
         UNCHANGED <<epoch, members, wrap, label, archive, invites, key>>,
         deleted' \in BOOLEAN, link' \in BOOLEAN
  PROVE  Inv'
<1>1. req' \in [Tab -> Request]
  BY PutType DEF Inv
<1>2. \A s \in Tab : req'[s] = req[s] \/ (s = t /\ req'[s].kind = kind /\ req'[s].who = who /\ req'[s].row = row)
  BY DEF Put, Inv, TypeOK
<1>3. TypeOK'
  BY <1>1 DEF Inv, TypeOK
<1>4. /\ \A s \in Tab : req'[s].kind \in {"wrap", "rotate"} => req'[s].who # Owner
      /\ \A s \in Tab : req'[s].kind \in {"insert", "enter"} => req'[s].row \in 1 .. epoch
  BY <1>2 DEF Inv, Kept
<1>5. Kept'
  BY <1>4 DEF Inv, Kept
<1>. QED
  BY <1>3, <1>5 DEF Inv

LEMMA AnsweredKept ==
  ASSUME Inv, NEW t \in Tab, Answer(t), epoch' = epoch
  PROVE  /\ req' \in [Tab -> Request]
         /\ \A s \in Tab : req'[s].kind \in {"wrap", "rotate"} => req'[s].who # Owner
         /\ \A s \in Tab : req'[s].kind \in {"insert", "enter"} => req'[s].row \in 1 .. epoch
<1>1. req' \in [Tab -> Request]
  BY AnswerType DEF Inv
<1>2. \A s \in Tab : req'[s] = req[s] \/ req'[s].kind = "idle"
  BY DEF Answer, Idle, Inv, TypeOK
<1>. QED
  BY <1>1, <1>2 DEF Inv, Kept

LEMMA AnswerKeeps ==
  ASSUME Inv, NEW t \in Tab, Answer(t),
         UNCHANGED <<epoch, members, wrap, label, archive, key>>,
         invites' \in SUBSET Invite, deleted' \in BOOLEAN, link' \in BOOLEAN
  PROVE  Inv'
<1>1. TypeOK'
  BY AnsweredKept DEF Inv, TypeOK
<1>2. Kept'
  BY AnsweredKept DEF Inv, Kept
<1>. QED
  BY <1>1, <1>2 DEF Inv

(* A row added for the user of a request.                                  *)
LEMMA AddMemberKeeps ==
  ASSUME Inv, NEW u \in User, NEW dek \in Epochs, NEW row \in 1 .. epoch, AddMember(u, dek, row),
         UNCHANGED epoch
  PROVE  /\ members' \in SUBSET User
         /\ wrap' \in [User -> Epochs] /\ label' \in [User -> Epochs]
         /\ \A v \in members' : label'[v] \in 1 .. epoch
         /\ \A v \in User \ members' : wrap'[v] = 0 /\ label'[v] = 0
         /\ Owner \in members' /\ wrap'[Owner] = epoch /\ label'[Owner] = epoch
<1>. USE DEF Inv, TypeOK, Kept
<1>1. CASE u \in members
  BY <1>1 DEF AddMember
<1>2. CASE u \notin members
  <2>1. /\ members' = members \cup {u}
        /\ wrap' = [wrap EXCEPT ![u] = dek]
        /\ label' = [label EXCEPT ![u] = row]
    BY <1>2 DEF AddMember
  <2>2. row \in Epochs /\ u # Owner
    BY <1>2, SharingAssumption DEF Epochs
  <2>. QED
    BY <2>1, <2>2, SharingAssumption
<1>. QED
  BY <1>1, <1>2

LEMMA NextKept == Inv /\ [Next]_vars => Inv'
<1> SUFFICES ASSUME Inv, [Next]_vars PROVE Inv'
  OBVIOUS
<1>. USE SharingAssumption
<1>0. NoKey \in Key /\ epoch \in Epochs /\ 0 \in Epochs /\ epoch \in 1 .. MaxEpoch
  BY DEF NoKey, Key, Epochs, Inv, TypeOK
<1>1. ASSUME NEW t \in Tab, LoadKey(t) PROVE Inv'
  <2>1. UserOf[t] \in User
    OBVIOUS
  <2>2. wrap[UserOf[t]] \in Epochs /\ label[UserOf[t]] \in Epochs
    BY <2>1 DEF Inv, TypeOK
  <2>3. key' \in [Tab -> Key]
    BY <1>0, <1>1, <2>2 DEF LoadKey, Inv, TypeOK, Key
  <2>. QED
    BY <1>1, <2>3 DEF LoadKey, dbVars, Inv, TypeOK, Kept
<1>2. ASSUME NEW t \in Tab, NEW v \in User, CheckPending(t, v) PROVE Inv'
  <2>1. v # Owner
    BY <1>2 DEF CheckPending, Inv, TypeOK, Kept
  <2>2. key[t] \in Key
    BY DEF Inv, TypeOK
  <2>3. Put(t, "wrap", v, {}, key[t], 0)
    BY <1>2 DEF CheckPending, Ask
  <2>4. UNCHANGED <<dbVars, key>> /\ "wrap" \in Kinds /\ {} \in SUBSET User
    BY <1>2 DEF CheckPending, Kinds
  <2>. QED
    BY <1>0, <2>1, <2>2, <2>3, <2>4, PutKeeps DEF dbVars, Inv, TypeOK
<1>3. ASSUME NEW t \in Tab, SetMemberWrappedDEK(t) PROVE Inv'
  <2>1. /\ Answer(t)
        /\ UNCHANGED <<epoch, deleted, members, label, archive, invites, link, key>>
        /\ req[t].who \in User /\ req[t].key.dek \in Epochs /\ req[t].who # Owner
    BY <1>3 DEF SetMemberWrappedDEK, Inv, TypeOK, Kept, Request, Key
  <2>2. /\ wrap' \in [User -> Epochs] /\ wrap'[Owner] = wrap[Owner]
        /\ \A u \in User \ members : wrap'[u] = wrap[u]
    BY <1>3, <2>1 DEF SetMemberWrappedDEK, Inv, TypeOK
  <2>3. TypeOK'
    BY <2>1, <2>2, AnsweredKept DEF Inv, TypeOK
  <2>4. Kept'
    BY <2>1, <2>2, AnsweredKept DEF Inv, Kept
  <2>. QED
    BY <2>3, <2>4 DEF Inv
<1>4. ASSUME NEW t \in Tab, ListMembers(t) PROVE Inv'
  <2>1. Put(t, "remove", Owner, members, NoKey, 0) /\ UNCHANGED <<dbVars, key>>
    BY <1>4 DEF ListMembers, Ask
  <2>2. "remove" \in Kinds /\ members \in SUBSET User
    BY DEF Kinds, Inv, TypeOK
  <2>. QED
    BY <1>0, <2>1, <2>2, PutKeeps DEF dbVars, Inv, TypeOK
<1>5. ASSUME NEW t \in Tab, NEW target \in User, CheckRemoval(t, target) PROVE Inv'
  <2>1. UNCHANGED <<dbVars, key>> /\ target # Owner
    BY <1>5 DEF CheckRemoval
  <2>2. CASE Answer(t)
    BY <2>1, <2>2, AnswerKeeps DEF dbVars, Inv, TypeOK
  <2>3. CASE Put(t, "rotate", target, req[t].list \ {target}, NoKey, 0)
    <3>1. "rotate" \in Kinds /\ req[t].list \ {target} \in SUBSET User
      BY DEF Kinds, Inv, TypeOK, Request
    <3>. QED
      BY <1>0, <2>1, <2>3, <3>1, PutKeeps DEF dbVars, Inv, TypeOK
  <2>. QED
    BY <1>5, <2>2, <2>3 DEF CheckRemoval
<1>6. ASSUME NEW t \in Tab, RemoveMember(t) PROVE Inv'
  <2>. DEFINE remaining == members \ {req[t].who}
  <2>1. Answer(t) /\ UNCHANGED <<deleted, invites, link>> /\ req[t].who # Owner
    BY <1>6 DEF RemoveMember, Inv, Kept
  <2>2. CASE UNCHANGED <<epoch, members, wrap, label, archive, key>>
    BY <2>1, <2>2, AnswerKeeps DEF Inv, TypeOK
  <2>3. CASE /\ Covers(req[t].list, remaining)
             /\ RotateTo(remaining, req[t].list)
             /\ \/ key' = [key EXCEPT ![t] = [dek |-> epoch + 1, epoch |-> epoch + 1]]
                \/ UNCHANGED key
    <3>1. /\ epoch < MaxEpoch /\ epoch' = epoch + 1 /\ epoch \in Nat /\ epoch + 1 \in Epochs
          /\ members' = remaining /\ remaining \in SUBSET User /\ Owner \in remaining
      BY <1>0, <2>1, <2>3 DEF RotateTo, Inv, TypeOK, Kept, Epochs
    <3>2. /\ wrap' = [u \in User |-> IF u \in remaining THEN epoch + 1 ELSE 0]
          /\ label' = [u \in User |-> IF u \in remaining THEN epoch + 1 ELSE 0]
      BY <2>3 DEF RotateTo, Covers
    <3>3. archive' = archive \cup ArchivedNow(remaining)
      BY <2>3 DEF RotateTo
    <3>4. ArchivedNow(remaining) \in SUBSET Archived
      BY <1>0, <3>1 DEF ArchivedNow, Archived, Inv, TypeOK
    <3>5. key' \in [Tab -> Key]
      BY <2>3, <3>1 DEF Inv, TypeOK, Key
    <3>6. req' \in [Tab -> Request]
      BY <2>1, AnswerType DEF Inv
    <3>7. /\ wrap' \in [User -> Epochs] /\ label' \in [User -> Epochs]
          /\ \A u \in remaining : label'[u] \in 1 .. epoch'
          /\ \A u \in User \ remaining : wrap'[u] = 0 /\ label'[u] = 0
      BY <1>0, <3>1, <3>2
    <3>8. TypeOK'
      <4>1. epoch' \in 1 .. MaxEpoch
        BY <3>1
      <4>2. archive' \in SUBSET Archived
        BY <3>3, <3>4 DEF Inv, TypeOK
      <4>3. deleted' \in BOOLEAN /\ invites' \in SUBSET Invite /\ link' \in BOOLEAN
        BY <2>1 DEF Inv, TypeOK
      <4>. HIDE DEF remaining
      <4>4. /\ \A u \in members' : label'[u] \in 1 .. epoch'
            /\ \A u \in User \ members' : wrap'[u] = 0 /\ label'[u] = 0
        BY <3>1, <3>7
      <4>. QED
        BY <3>1, <3>5, <3>6, <3>7, <4>1, <4>2, <4>3, <4>4 DEF TypeOK
    <3>9. \A a \in archive' : a.epoch < epoch'
      BY <3>1, <3>3 DEF ArchivedNow, Inv, TypeOK, Archived, Epochs, Kept
    <3>10. [user |-> Owner, dek |-> epoch, epoch |-> epoch] \in ArchivedNow(remaining)
      BY <1>0, <3>1 DEF ArchivedNow, Inv, Kept
    <3>11. \A e \in 1 .. (epoch' - 1) : [user |-> Owner, dek |-> e, epoch |-> e] \in archive'
      <4>1. \A e \in 1 .. (epoch' - 1) : e = epoch \/ e \in 1 .. (epoch - 1)
        BY <3>1
      <4>. QED
        BY <3>3, <3>10, <4>1 DEF Inv, Kept
    <3>12. \A s \in Tab : req'[s] = req[s] \/ req'[s].kind = "idle"
      BY <2>1 DEF Answer, Idle, Inv, TypeOK
    <3>13. \A s \in Tab : req'[s].kind \in {"insert", "enter"} => req'[s].row \in 1 .. epoch'
      BY <3>1, <3>12 DEF Inv, Kept
    <3>14. \A s \in Tab : req'[s].kind \in {"wrap", "rotate"} => req'[s].who # Owner
      BY <3>12 DEF Inv, Kept
    <3>15. Owner \in members' /\ wrap'[Owner] = epoch' /\ label'[Owner] = epoch'
      BY <3>1, <3>2
    <3>. QED
      BY <3>8, <3>9, <3>11, <3>13, <3>14, <3>15 DEF Inv, Kept
  <2>. QED
    BY <1>6, <2>2, <2>3 DEF RemoveMember
<1>7. ASSUME NEW t \in Tab, LeaveDocument(t) PROVE Inv'
  <2>. DEFINE u == UserOf[t]
  <2>1. /\ u \in User /\ u # Owner
        /\ members' = members \ {u}
        /\ wrap' = [wrap EXCEPT ![u] = 0] /\ label' = [label EXCEPT ![u] = 0]
        /\ archive' = {a \in archive : a.user # u}
        /\ key' = [key EXCEPT ![t] = NoKey]
        /\ UNCHANGED <<epoch, deleted, invites, link, req>>
    BY <1>7 DEF LeaveDocument
  <2>2. TypeOK'
    BY <1>0, <2>1 DEF Inv, TypeOK
  <2>3. Kept'
    BY <2>1 DEF Inv, TypeOK, Kept
  <2>. QED
    BY <2>2, <2>3 DEF Inv
<1>8. ASSUME NEW t \in Tab, NEW v \in User, CheckInvitee(t, v) PROVE Inv'
  <2>. DEFINE k == [dek |-> key[t].dek, epoch |-> epoch]
  <2>1. Put(t, "invite", v, {}, k, 0) /\ UNCHANGED <<dbVars, key>>
    BY <1>8 DEF CheckInvitee, Ask
  <2>2. k \in Key /\ "invite" \in Kinds
    BY <1>0 DEF Key, Kinds, Inv, TypeOK
  <2>. HIDE DEF k
  <2>. QED
    BY <1>0, <2>1, <2>2, PutKeeps DEF dbVars, Inv, TypeOK
<1>9. ASSUME NEW t \in Tab, CreateInvite(t) PROVE Inv'
  <2>. DEFINE i == [user |-> req[t].who, dek |-> req[t].key.dek, epoch |-> req[t].key.epoch]
  <2>1. i \in Invite
    BY DEF Invite, Inv, TypeOK, Request, Key
  <2>2. invites' = invites \/ invites' = invites \cup {i}
    BY <1>9 DEF CreateInvite
  <2>. HIDE DEF i
  <2>3. invites' \in SUBSET Invite
    BY <2>1, <2>2 DEF Inv, TypeOK
  <2>. QED
    BY <1>9, <2>3, AnswerKeeps DEF CreateInvite, Inv, TypeOK
<1>10. ASSUME NEW t \in Tab, NEW i \in invites, FindInvite(t, i) PROVE Inv'
  <2>. DEFINE k == [dek |-> i.dek, epoch |-> i.epoch]
  <2>1. Put(t, "accept", i.user, {}, k, 0) /\ UNCHANGED <<dbVars, key>>
    BY <1>10 DEF FindInvite, Ask
  <2>2. k \in Key /\ i.user \in User /\ "accept" \in Kinds
    BY DEF Key, Kinds, Invite, Inv, TypeOK
  <2>. HIDE DEF k
  <2>. QED
    BY <1>0, <2>1, <2>2, PutKeeps DEF dbVars, Inv, TypeOK
<1>11. ASSUME NEW t \in Tab, SelectEpoch(t) PROVE Inv'
  <2>. DEFINE kind == IF req[t].kind = "accept" THEN "insert" ELSE "enter"
  <2>1. UNCHANGED <<dbVars, key>>
    BY <1>11 DEF SelectEpoch
  <2>2. CASE Answer(t)
    BY <2>1, <2>2, AnswerKeeps DEF dbVars, Inv, TypeOK
  <2>3. CASE Put(t, kind, req[t].who, {}, req[t].key, epoch)
    <3>1. kind \in Kinds /\ kind \notin {"wrap", "rotate"} /\ req[t].who \in User /\ req[t].key \in Key
      BY DEF Kinds, Inv, TypeOK, Request
    <3>2. epoch \in 1 .. epoch
      BY <1>0
    <3>. HIDE DEF kind
    <3>. QED
      BY <1>0, <2>1, <2>3, <3>1, <3>2, PutKeeps DEF dbVars, Inv, TypeOK
  <2>. QED
    BY <1>11, <2>2, <2>3 DEF SelectEpoch
<1>12. ASSUME NEW t \in Tab, AcceptInvite(t) PROVE Inv'
  <2>. DEFINE u == UserOf[t]
  <2>1. /\ u \in User /\ req[t].key \in Key /\ req[t].key.dek \in Epochs /\ req[t].row \in 1 .. epoch
        /\ AddMember(u, req[t].key.dek, req[t].row)
        /\ Answer(t) \/ Put(t, "accepted", u, {}, req[t].key, 0)
        /\ UNCHANGED <<epoch, deleted, archive, invites, link, key>>
    BY <1>12 DEF AcceptInvite, Inv, TypeOK, Kept, Request, Key
  <2>2. req' \in [Tab -> Request]
    BY <1>0, <2>1, PutType, AnswerType DEF Kinds, Inv
  <2>3. \A s \in Tab : req'[s] = req[s] \/ req'[s].kind \in {"idle", "accepted"}
    BY <2>1 DEF Answer, Put, Idle, Inv, TypeOK
  <2>4. TypeOK'
    BY <2>1, <2>2, AddMemberKeeps DEF Inv, TypeOK
  <2>5. Kept'
    BY <2>1, <2>3, AddMemberKeeps DEF Inv, Kept
  <2>. QED
    BY <2>4, <2>5 DEF Inv
<1>13. ASSUME NEW t \in Tab, DeleteInvite(t) PROVE Inv'
  <2>1. invites' \subseteq invites
    BY <1>13 DEF DeleteInvite
  <2>. QED
    BY <1>13, <2>1, AnswerKeeps DEF DeleteInvite, Inv, TypeOK
<1>14. ASSUME NEW t \in Tab, NEW i \in invites, DeclineInvite(t, i) PROVE Inv'
  BY <1>14 DEF DeclineInvite, Inv, TypeOK, Kept
<1>15. ASSUME NEW t \in Tab, CheckOwner(t) PROVE Inv'
  <2>1. Put(t, "link", Owner, {}, NoKey, 0) /\ UNCHANGED <<dbVars, key>> /\ "link" \in Kinds
    BY <1>15 DEF CheckOwner, Ask, Kinds
  <2>. QED
    BY <1>0, <2>1, PutKeeps DEF dbVars, Inv, TypeOK
<1>16. ASSUME NEW t \in Tab, CreateInviteLink(t) PROVE Inv'
  BY <1>16, AnswerKeeps DEF CreateInviteLink, Inv, TypeOK
<1>17. ASSUME NEW t \in Tab, RevokeInviteLink(t) PROVE Inv'
  BY <1>17 DEF RevokeInviteLink, Inv, TypeOK, Kept
<1>18. ASSUME NEW t \in Tab, FindByToken(t) PROVE Inv'
  <2>1. Put(t, "join", Owner, {}, NoKey, 0) /\ UNCHANGED <<dbVars, key>> /\ "join" \in Kinds
    BY <1>18 DEF FindByToken, Ask, Kinds
  <2>. QED
    BY <1>0, <2>1, PutKeeps DEF dbVars, Inv, TypeOK
<1>19. ASSUME NEW t \in Tab, JoinViaInviteLink(t) PROVE Inv'
  <2>1. /\ UserOf[t] \in User /\ req[t].row \in 1 .. epoch
        /\ AddMember(UserOf[t], 0, req[t].row)
        /\ Answer(t)
        /\ UNCHANGED <<epoch, deleted, archive, invites, link, key>>
    BY <1>19 DEF JoinViaInviteLink, Inv, Kept
  <2>2. TypeOK'
    BY <1>0, <2>1, AnsweredKept, AddMemberKeeps DEF Inv, TypeOK
  <2>3. Kept'
    BY <1>0, <2>1, AnsweredKept, AddMemberKeeps DEF Inv, Kept
  <2>. QED
    BY <2>2, <2>3 DEF Inv
<1>20. ASSUME NEW t \in Tab, DeleteDocument(t) PROVE Inv'
  <2>1. /\ Put(t, "unlink", Owner, {}, NoKey, 0) /\ "unlink" \in Kinds
        /\ deleted' \in BOOLEAN
        /\ UNCHANGED <<epoch, members, wrap, label, archive, invites, link, key>>
    BY <1>20 DEF DeleteDocument, Ask, Kinds
  <2>. QED
    BY <1>0, <2>1, PutKeeps DEF Inv, TypeOK
<1>21. ASSUME NEW t \in Tab, RevokeOnDelete(t) PROVE Inv'
  BY <1>21, AnswerKeeps DEF RevokeOnDelete, Inv, TypeOK
<1>22. ASSUME NEW t \in Tab, Restore(t) PROVE Inv'
  BY <1>22 DEF Restore, Inv, TypeOK, Kept
<1>23. ASSUME NEW t \in Tab, Abandon(t) PROVE Inv'
  BY <1>23, AnswerKeeps DEF Abandon, dbVars, Inv, TypeOK
<1>24. CASE UNCHANGED vars
  BY <1>24 DEF vars, dbVars, Inv, TypeOK, Kept
<1>. QED
  BY <1>1, <1>2, <1>3, <1>4, <1>5, <1>6, <1>7, <1>8, <1>9, <1>10, <1>11, <1>12, <1>13, <1>14, <1>15,
     <1>16, <1>17, <1>18, <1>19, <1>20, <1>21, <1>22, <1>23, <1>24
     DEF Next, Keys, Removal, Inviting, Linking, Deletion

LEMMA AlwaysKept == Spec => []Inv
  BY InitKept, NextKept, PTL DEF Spec

(* Every table, tab and request keeps its type: in particular a member's   *)
(* row never claims an epoch the document has not reached.                 *)
THEOREM SharingTypeCorrect == Spec => []TypeOK
<1>1. Inv => TypeOK
  BY DEF Inv
<1>. QED
  BY <1>1, AlwaysKept, PTL

(* Whatever members, tabs and requests do, the owner can open every epoch. *)
THEOREM OwnerKeyRing == Spec => []OwnerHoldsEveryKey
<1>1. Inv => OwnerHoldsEveryKey
  <2> SUFFICES ASSUME Inv, NEW e \in 1 .. epoch PROVE [dek |-> e, epoch |-> e] \in Ring(Owner)
    BY DEF OwnerHoldsEveryKey
  <2>1. CASE e = epoch
    BY <2>1 DEF Inv, Kept, Ring
  <2>2. CASE e # epoch
    <3>1. e \in 1 .. (epoch - 1)
      BY <2>2 DEF Inv, TypeOK
    <3>2. [user |-> Owner, dek |-> e, epoch |-> e] \in archive
      BY <3>1 DEF Inv, Kept
    <3>. QED
      BY <3>2 DEF Ring
  <2>. QED
    BY <2>1, <2>2
<1>. QED
  BY <1>1, AlwaysKept, PTL

(* A rotation never fails on rows archived by an earlier one.              *)
THEOREM NoCollision == Spec => []ArchiveNeverCollides
<1>1. Inv => ArchiveNeverCollides
  <2> SUFFICES ASSUME Inv, NEW a \in ArchivedNow(members), NEW b \in archive, a.epoch = b.epoch PROVE FALSE
    BY DEF ArchiveNeverCollides, Conflict
  <2>1. a.epoch = epoch
    BY DEF ArchivedNow
  <2>2. b.epoch < epoch /\ epoch \in Nat
    BY DEF Inv, Kept, TypeOK
  <2>. QED
    BY <2>1, <2>2
<1>. QED
  BY <1>1, AlwaysKept, PTL

(* A rotation gives every remaining member the new key and its label.      *)
THEOREM RotationIsComplete == Spec => NobodyLeftBehind
<1>. DEFINE Complete == epoch' # epoch => \A u \in members' : wrap'[u] = epoch' /\ label'[u] = epoch'
<1>1. Inv /\ [Next]_vars => [Complete]_vars
  <2> SUFFICES ASSUME Inv, Next, epoch' # epoch PROVE Complete
    BY DEF vars
  <2>1. PICK t \in Tab : RemoveMember(t)
    BY DEF Next, Keys, Removal, Inviting, Linking, Deletion, LoadKey, SetMemberWrappedDEK, CheckPending,
           ListMembers, LeaveDocument, CheckRemoval, CheckInvitee, FindInvite, DeclineInvite, CreateInvite,
           SelectEpoch, AcceptInvite, DeleteInvite, CheckOwner, CreateInviteLink, RevokeInviteLink,
           FindByToken, JoinViaInviteLink, DeleteDocument, RevokeOnDelete, Restore, Abandon, dbVars
  <2>. DEFINE remaining == members \ {req[t].who}
  <2>2. Covers(req[t].list, remaining) /\ RotateTo(remaining, req[t].list)
    BY <2>1 DEF RemoveMember
  <2>3. remaining \subseteq User
    BY DEF Inv, TypeOK
  <2>. QED
    BY <2>2, <2>3 DEF RotateTo, Covers
<1>. QED
  BY <1>1, AlwaysKept, PTL DEF Spec, NobodyLeftBehind
=============================================================================
