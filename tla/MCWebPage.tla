------------------------------ MODULE MCWebPage ------------------------------
(***************************************************************************)
(* Small instances of what a page computes and shows: presence, invites,   *)
(* the find bar, the version list, what is read with a ring of keys, and   *)
(* the overlays. They share no state: a behaviour picks one of them and    *)
(* takes its steps.                                                        *)
(***************************************************************************)
EXTENDS Presence, Invites, FindInEditor, VersionDeltas, DocumentCipher, Overlays, TLC

VARIABLE part  \* the component that moves

Owner == [t \in Tab |-> t]

Init ==
  /\ PresenceInit /\ InvitesInit /\ FindInit /\ VersionDeltasInit
  /\ DocumentCipherInit /\ OverlaysInit
  /\ part \in {"presence", "invites", "find", "versions", "cipher", "overlays"}
  /\ part # "find" => text = <<>>

Next ==
  \/ /\ part = "presence" /\ PresenceNext
     /\ UNCHANGED <<invitesVars, findVars, versionDeltasVars, documentCipherVars, overlayVars, part>>
  \/ /\ part = "invites" /\ InvitesNext
     /\ UNCHANGED <<presenceVars, findVars, versionDeltasVars, documentCipherVars, overlayVars, part>>
  \/ /\ part = "find" /\ FindInEditorNext
     /\ UNCHANGED <<presenceVars, invitesVars, versionDeltasVars, documentCipherVars, overlayVars, part>>
  \/ /\ part = "versions" /\ VersionDeltasNext
     /\ UNCHANGED <<presenceVars, invitesVars, findVars, documentCipherVars, overlayVars, part>>
  \/ /\ part = "cipher" /\ DocumentCipherNext
     /\ UNCHANGED <<presenceVars, invitesVars, findVars, versionDeltasVars, overlayVars, part>>
  \/ /\ part = "overlays" /\ OverlaysNext
     /\ UNCHANGED <<presenceVars, invitesVars, findVars, versionDeltasVars, documentCipherVars, part>>

Spec == Init /\ [][Next]_<<presenceVars, invitesVars, findVars, versionDeltasVars,
                           documentCipherVars, overlayVars, part>>

Symmetry == Permutations(Conn) \cup Permutations(Tab)

(* A tab leaves its page with a connection to spare: all of them are there *)
(* for two tabs that stay, and all but one when one of them leaves.        *)
LeavesWithOneSpared ==
  \A t \in Tab : mount[t] = "closed" => \E c \in Conn : owner[c] = NoConn

(* Every variable of the page keeps its type.                              *)
PageTypeOK ==
  /\ PresenceTypeOK /\ InvitesTypeOK /\ FindTypeOK /\ VersionDeltasTypeOK
  /\ DocumentCipherTypeOK /\ OverlaysTypeOK
=============================================================================
