------------------------------ MODULE Invites ------------------------------
(***************************************************************************)
(* The vault's list of pending invites and the notification channel that   *)
(* keeps it live: requests that may overlap, answers to invites, and       *)
(* nudges that are lost whenever the channel is not there.                 *)
(*                                                                         *)
(* Requests are numbered as requestSeqRef numbers them. The handler of     *)
(* the channel joins the user's room in the same step as the socket opens, *)
(* and leaves it in the step in which the socket is lost.                  *)
(***************************************************************************)
EXTENDS Integers, FiniteSets

CONSTANTS
  Invite,       \* invites others may send this user
  MaxRequests,  \* bound: listInvites calls
  MaxAnswers,   \* bound: answers under way at a time
  MaxLosses     \* bound: lost sockets and failed requests

ASSUME InvitesAssumption == MaxRequests \in Nat /\ MaxAnswers \in Nat /\ MaxLosses \in Nat

VARIABLES
  viewing,     \* isActive: the view is the one shown
  shown,       \* the invites of the list
  isLoadingInvites, respondingId,
  requests,    \* listInvites calls: where each is, and what the server read
  requestSeq,
  channel,     \* the notification channel, destroyed when the view is left
  nudges,      \* invites_changed frames on their way
  pending,     \* the server's pending invites
  unsent,      \* those not created yet
  answers,     \* by invite, how many answers are sent, or come back done or refused
  losses,
  outdated     \* history: nothing will tell the list of the last change

invitesVars == <<viewing, shown, isLoadingInvites, respondingId, requests, requestSeq, channel,
                 nudges, pending, unsent, answers, losses, outdated>>

RequestSeq == 1 .. MaxRequests
Stage == {"sent", "done", "refused"}
AllUnderWay ==
  Cardinality({a \in Invite \X Stage \X (1 .. MaxAnswers) : answers[a[1]][a[2]] >= a[3]})
UnderWay(i) == {s \in Stage : answers[i][s] > 0}
Free == [stage |-> "none", read |-> {}]

InvitesTypeOK ==
  /\ viewing \in BOOLEAN /\ shown \subseteq Invite /\ isLoadingInvites \in BOOLEAN
  /\ respondingId \subseteq Invite /\ Cardinality(respondingId) <= 1
  /\ requests \in [RequestSeq -> [stage : {"none", "asked", "read", "failed"}, read : SUBSET Invite]]
  /\ requestSeq \in 0 .. MaxRequests
  /\ channel \in {"none", "connecting", "open", "waiting"}
  /\ (channel = "none") = ~viewing
  /\ nudges \in 0 .. MaxRequests
  /\ pending \subseteq Invite /\ unsent \subseteq Invite /\ pending \cap unsent = {}
  /\ answers \in [Invite -> [Stage -> 0 .. MaxAnswers]]
  /\ losses \in 0 .. MaxLosses /\ outdated \in BOOLEAN

InvitesInit ==
  /\ viewing = FALSE /\ shown = {} /\ isLoadingInvites = FALSE /\ respondingId = {}
  /\ requests = [s \in RequestSeq |-> Free] /\ requestSeq = 0
  /\ channel = "none" /\ nudges = 0
  /\ pending = {} /\ unsent = Invite
  /\ answers = [i \in Invite |-> [s \in Stage |-> 0]]
  /\ losses = 0 /\ outdated = FALSE

UnreadRequest == \E s \in RequestSeq : requests[s].stage = "asked" /\ s = requestSeq

(* refresh(): only the latest call may write the list.                     *)
RefreshInvites ==
  /\ requestSeq < MaxRequests
  /\ requestSeq' = requestSeq + 1
  /\ requests' = [requests EXCEPT ![requestSeq + 1] = [stage |-> "asked", read |-> {}]]
  /\ isLoadingInvites' = TRUE

(* The view is shown: its effects fetch the list and open the channel.     *)
Activate ==
  /\ ~viewing
  /\ viewing' = TRUE /\ channel' = "connecting"
  /\ RefreshInvites
  /\ UNCHANGED <<shown, respondingId, nudges, pending, unsent, answers, losses, outdated>>

Deactivate ==
  /\ viewing
  /\ viewing' = FALSE /\ channel' = "none" /\ nudges' = 0
  /\ UNCHANGED <<shown, isLoadingInvites, respondingId, requests, requestSeq, pending, unsent,
                 answers, losses, outdated>>

ListInvites(s) ==
  /\ requests[s].stage = "asked"
  /\ \/ requests' = [requests EXCEPT ![s] = [stage |-> "read", read |-> pending]] /\ UNCHANGED losses
     \/ /\ losses < MaxLosses /\ losses' = losses + 1
        /\ requests' = [requests EXCEPT ![s] = [stage |-> "failed", read |-> {}]]
  /\ outdated' = IF s # requestSeq THEN outdated ELSE requests'[s].stage = "failed"
  /\ UNCHANGED <<viewing, shown, isLoadingInvites, respondingId, requestSeq, channel, nudges,
                 pending, unsent, answers>>

(* An answer comes: the list is replaced, by nothing if it is an error.    *)
SetInvites(s) ==
  /\ requests[s].stage \in {"read", "failed"}
  /\ shown' = IF s = requestSeq THEN requests[s].read ELSE shown
  /\ isLoadingInvites' = (isLoadingInvites /\ s # requestSeq)
  /\ requests' = [requests EXCEPT ![s] = Free]
  /\ UNCHANGED <<viewing, respondingId, requestSeq, channel, nudges, pending, unsent,
                 answers, losses, outdated>>
-----------------------------------------------------------------------------
(* The channel: connect, handleOpen, handleClose with its backoff, and the *)
(* nudge, whose handler asks for the list again.                           *)
HandleChannelOpen ==
  /\ channel = "connecting"
  /\ channel' = "open"
  /\ UNCHANGED <<viewing, shown, isLoadingInvites, respondingId, requests, requestSeq, nudges,
                 pending, unsent, answers, losses, outdated>>

HandleChannelClose ==
  /\ channel \in {"connecting", "open"} /\ losses < MaxLosses
  /\ channel' = "waiting" /\ losses' = losses + 1
  /\ nudges' = 0 /\ outdated' = (outdated \/ nudges # 0)
  /\ UNCHANGED <<viewing, shown, isLoadingInvites, respondingId, requests, requestSeq, pending,
                 unsent, answers>>

ReconnectChannel ==
  /\ channel = "waiting"
  /\ channel' = "connecting"
  /\ UNCHANGED <<viewing, shown, isLoadingInvites, respondingId, requests, requestSeq, nudges,
                 pending, unsent, answers, losses, outdated>>

(* Mutant: a nudge is ignored while the list is being loaded.              *)
IgnoreWhileLoading ==
  /\ channel = "open" /\ nudges > 0
  /\ nudges' = nudges - 1
  /\ IF isLoadingInvites THEN UNCHANGED <<requestSeq, requests, isLoadingInvites>> ELSE RefreshInvites
  /\ UNCHANGED <<viewing, shown, respondingId, channel, pending, unsent, answers, losses, outdated>>

OnInvitesChanged ==
  /\ channel = "open" /\ nudges > 0
  /\ nudges' = nudges - 1
  /\ RefreshInvites
  /\ UNCHANGED <<viewing, shown, respondingId, channel, pending, unsent, answers, losses, outdated>>

(* NotifyUser: nothing is kept for a user who is not there. A request that *)
(* the server has yet to read makes up for it.                             *)
NotifyUser ==
  /\ nudges' = IF channel = "open" THEN nudges + 1 ELSE nudges
  /\ outdated' = (outdated \/ (channel # "open" /\ ~UnreadRequest))

CreateInvite(i) ==
  /\ i \in unsent /\ nudges < MaxRequests
  /\ unsent' = unsent \ {i} /\ pending' = pending \cup {i}
  /\ NotifyUser
  /\ UNCHANGED <<viewing, shown, isLoadingInvites, respondingId, requests, requestSeq, channel,
                 answers, losses>>

CancelInvite(i) ==
  /\ i \in pending /\ nudges < MaxRequests
  /\ pending' = pending \ {i}
  /\ NotifyUser
  /\ UNCHANGED <<viewing, shown, isLoadingInvites, respondingId, requests, requestSeq, channel,
                 unsent, answers, losses>>
-----------------------------------------------------------------------------
(* respond(): the button of the row answered last is disabled, so that a   *)
(* row may be answered again while its first answer is on its way.         *)
RespondToInvite(i) ==
  /\ viewing /\ ~isLoadingInvites /\ i \in shown /\ i \notin respondingId
  /\ AllUnderWay < MaxAnswers
  /\ respondingId' = {i}
  /\ answers' = [answers EXCEPT ![i]["sent"] = @ + 1]
  /\ UNCHANGED <<viewing, shown, isLoadingInvites, requests, requestSeq, channel, nudges, pending,
                 unsent, losses, outdated>>

(* Accepted or declined: its inviter is told, not this user. A list that   *)
(* was read before and is still on its way brings the invite back.         *)
AnswerInvite(i) ==
  LET result == IF i \in pending THEN "done" ELSE "refused"
  IN /\ answers[i]["sent"] > 0
     /\ pending' = pending \ {i}
     /\ answers' = [answers EXCEPT ![i]["sent"] = @ - 1, ![i][result] = @ + 1]
     /\ outdated' = (outdated \/ \E s \in RequestSeq : s = requestSeq /\ i \in requests[s].read)
     /\ UNCHANGED <<viewing, shown, isLoadingInvites, respondingId, requests, requestSeq, channel,
                    nudges, unsent, losses>>

(* The answer of a refused one is a message; the row stays.                *)
InviteAnswered(i) ==
  \E s \in UnderWay(i) \ {"sent"} :
    /\ shown' = IF s = "done" THEN shown \ {i} ELSE shown
    /\ respondingId' = {}
    /\ answers' = [answers EXCEPT ![i][s] = @ - 1]
    /\ UNCHANGED <<viewing, isLoadingInvites, requests, requestSeq, channel, nudges, pending, unsent,
                   losses, outdated>>

InvitesNext ==
  \/ Activate \/ Deactivate
  \/ \E s \in RequestSeq : ListInvites(s) \/ SetInvites(s)
  \/ HandleChannelOpen \/ HandleChannelClose \/ ReconnectChannel \/ OnInvitesChanged
  \/ \E i \in Invite : \/ CreateInvite(i) \/ CancelInvite(i)
                       \/ RespondToInvite(i) \/ AnswerInvite(i) \/ InviteAnswered(i)

InvitesSpec == InvitesInit /\ [][InvitesNext]_invitesVars
-----------------------------------------------------------------------------
Settled ==
  /\ viewing /\ channel = "open" /\ nudges = 0
  /\ \A s \in RequestSeq : requests[s].stage = "none"
  /\ \A i \in Invite : UnderWay(i) = {}

(* The list is live: when nothing is on its way and the channel is open it *)
(* shows the invites that are pending, however requests, nudges and        *)
(* answers overlapped. Excused is a list whose last request failed, a      *)
(* change whose nudge found no channel (reconnecting asks for nothing),    *)
(* and an answer given while a list read before it was on its way.         *)
InvitesConverge == Settled /\ ~outdated => shown = pending

=============================================================================
