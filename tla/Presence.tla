------------------------------ MODULE Presence ------------------------------
(***************************************************************************)
(* Who a tab shows in a document, and whether they are away: the life of a *)
(* tab's provider, the membership frames the server sends, and awareness.  *)
(*                                                                         *)
(* A tab is one mount of the document page. Its handler on the server      *)
(* joins the room, announces itself, reads who is there and sends that     *)
(* list, in steps that other handlers come between; `outbox` is all that   *)
(* is on its way from the server to a browser, `inbox` the way back. The   *)
(* update frames on the same sockets are DocumentSync's; a room that       *)
(* drops a slow client is Cut's. Awareness renews itself with a new clock  *)
(* and the same status, which SetPresenceStatus may do at any time.        *)
(***************************************************************************)
EXTENDS Integers, Sequences, FiniteSets

CONSTANTS
  Tab, User, UserOf,  \* mounts of the page, and whose they are
  Conn, NoConn,       \* websocket connections
  SendBuffer,         \* frames of the server a connection holds
  MaxEvents           \* bound: status changes and lost connections, together

ASSUME PresenceAssumption ==
  /\ UserOf \in [Tab -> User] /\ NoConn \notin Conn \cup Tab
  /\ SendBuffer \in Nat \ {0} /\ MaxEvents \in Nat

VARIABLES
  mount,    \* the effect that opens the document, by tab
  phase,    \* the provider's ConnState, by tab
  ws,       \* the socket of that state
  online,   \* onlineUserIds
  aware,    \* awareness: for each tab and tab, the last [clock, status] known
  owner,    \* the tab that opened a connection
  handler,  \* how far the server's handler of a connection is
  members,  \* what that handler read of the room
  room,     \* the connections in the document's room
  inbox, outbox,
  dead,     \* connections the browser has closed, or the network has cut
  events,
  uncertain,  \* history: users a connection may be wrong about
  hears     \* history: tabs whose provider opened while this one listened

presenceVars == <<mount, phase, ws, online, aware, owner, handler, members, room,
                  inbox, outbox, dead, events, uncertain, hears>>
page == <<mount, phase, ws, online, aware, hears>>
server == <<handler, members, room, uncertain>>

Status == {"none", "online", "away"}
Entry == [clock : 0 .. MaxEvents + 2, status : Status]
Unknown == [clock |-> 0, status |-> "none"]

PresenceTypeOK ==
  /\ mount \in [Tab -> {"loading", "open", "closed"}]
  /\ phase \in [Tab -> {"none", "connecting", "connected", "reconnect-scheduled", "destroyed"}]
  /\ ws \in [Tab -> Conn \cup {NoConn}]
  /\ \A t \in Tab : (ws[t] # NoConn) = (phase[t] \in {"connecting", "connected"})
  /\ online \in [Tab -> SUBSET User] /\ aware \in [Tab -> [Tab -> Entry]]
  /\ owner \in [Conn -> Tab \cup {NoConn}]
  /\ handler \in [Conn -> {"none", "accepted", "joined", "listed", "reading", "left"}]
  /\ \A c \in room : handler[c] \notin {"none", "accepted", "left"}
  /\ members \in [Conn -> SUBSET User] /\ dead \in SUBSET Conn
  /\ events \in 0 .. MaxEvents

PresenceInit ==
  /\ mount = [t \in Tab |-> "loading"] /\ phase = [t \in Tab |-> "none"]
  /\ ws = [t \in Tab |-> NoConn]
  /\ online = [t \in Tab |-> {}] /\ aware = [t \in Tab |-> [u \in Tab |-> Unknown]]
  /\ owner = [c \in Conn |-> NoConn] /\ handler = [c \in Conn |-> "none"]
  /\ members = [c \in Conn |-> {}] /\ room = {}
  /\ inbox = [c \in Conn |-> <<>>] /\ outbox = [c \in Conn |-> <<>>]
  /\ dead = {} /\ events = 0
  /\ uncertain = [c \in Conn |-> {}] /\ hears = [t \in Tab |-> {}]

Users(conns) == {UserOf[owner[c]] : c \in conns}
-----------------------------------------------------------------------------
(* The browser.                                                            *)

(* connect(): a new socket, which the server may accept.                   *)
Connect(t) ==
  \E c \in Conn :
    /\ owner[c] = NoConn
    /\ owner' = [owner EXCEPT ![c] = t]
    /\ handler' = [handler EXCEPT ![c] = "accepted"]
    /\ ws' = [ws EXCEPT ![t] = c]
    /\ phase' = [phase EXCEPT ![t] = "connecting"]

(* What was on its way to the browser is lost, or no longer looked at.     *)
Die(conns) ==
  /\ dead' = dead \cup conns
  /\ outbox' = [c \in Conn |-> IF c \in conns THEN <<>> ELSE outbox[c]]

(* The local awareness state is set, and told to peers if connected.       *)
Present(t, status) ==
  aware' = [aware EXCEPT ![t][t] = [clock |-> @.clock + 1, status |-> status]]

Sent(t, entry) ==
  IF ws[t] \in dead THEN inbox ELSE [inbox EXCEPT ![ws[t]] = Append(@, [tab |-> t, entry |-> entry])]

(* The provider is built; it connects before it sets its awareness.        *)
BuildDocProvider(t) ==
  /\ Connect(t)
  /\ Present(t, "online")
  /\ online' = [online EXCEPT ![t] = {UserOf[t]}]
  /\ UNCHANGED <<members, room, uncertain, inbox, outbox, dead, events, hears>>

(* Mutant: a mount that ended while its effect waited still connects.      *)
ConnectCancelledToo(t) ==
  /\ mount[t] = "loading" \/ (mount[t] = "closed" /\ phase[t] = "none")
  /\ mount' = [mount EXCEPT ![t] = IF @ = "loading" THEN "open" ELSE @]
  /\ BuildDocProvider(t)

ConnectDocument(t) ==
  /\ mount[t] = "loading"
  /\ mount' = [mount EXCEPT ![t] = "open"]
  /\ BuildDocProvider(t)

(* The cleanup: a wait under way comes back to isCancelled, and a provider *)
(* says goodbye if it can, then closes its socket; what its document knew  *)
(* of the others goes with it.                                             *)
CloseDocument(t) ==
  /\ mount[t] \in {"loading", "open"}
  /\ mount' = [mount EXCEPT ![t] = "closed"]
  /\ ws' = [ws EXCEPT ![t] = NoConn]
  /\ hears' = [u \in Tab |-> IF u = t THEN {} ELSE hears[u] \ {t}]
  /\ IF phase[t] = "none" THEN UNCHANGED <<phase, aware>>
     ELSE /\ aware' = [aware EXCEPT ![t] = [u \in Tab |->
                         IF u = t THEN [clock |-> aware[t][t].clock + 1, status |-> "none"] ELSE Unknown]]
          /\ phase' = [phase EXCEPT ![t] = "destroyed"]
  /\ Die({ws[t]} \ {NoConn})
  /\ inbox' = IF phase[t] = "connected" THEN Sent(t, aware'[t][t]) ELSE inbox
  /\ online' = [online EXCEPT ![t] = {}]
  /\ UNCHANGED <<owner, server, events>>

(* Mutant: the socket opens, and the tab waits for its next renewal.       *)
OpenQuietly(t) ==
  /\ phase[t] = "connecting" /\ ws[t] \notin dead
  /\ phase' = [phase EXCEPT ![t] = "connected"]
  /\ hears' = [u \in Tab |-> IF u # t /\ ws[u] \in room \ dead THEN hears[u] \cup {t} ELSE hears[u]]
  /\ UNCHANGED <<mount, ws, online, aware, owner, server, inbox, outbox, dead, events>>

(* The socket opens: the tab shows itself again at once.                   *)
HandleOpen(t) ==
  /\ phase[t] = "connecting" /\ ws[t] \notin dead
  /\ phase' = [phase EXCEPT ![t] = "connected"]
  /\ inbox' = Sent(t, aware[t][t])
  /\ hears' = [u \in Tab |-> IF u # t /\ ws[u] \in room \ dead THEN hears[u] \cup {t} ELSE hears[u]]
  /\ UNCHANGED <<mount, ws, online, aware, owner, server, outbox, dead, events>>

(* Activity, a minute without it, or awareness's own renewal.              *)
SetPresenceStatus(t) ==
  /\ phase[t] \in {"connecting", "connected", "reconnect-scheduled"}
  /\ events < MaxEvents /\ events' = events + 1
  /\ \E s \in {"online", "away"} : Present(t, s)
  /\ inbox' = IF phase[t] = "connected" THEN Sent(t, aware'[t][t]) ELSE inbox
  /\ UNCHANGED <<mount, phase, ws, online, owner, server, outbox, dead, hears>>

(* A lost socket is reported, and tried again later.                       *)
HandleClose(t) ==
  /\ ws[t] \in dead
  /\ phase' = [phase EXCEPT ![t] = "reconnect-scheduled"]
  /\ ws' = [ws EXCEPT ![t] = NoConn]
  /\ hears' = [u \in Tab |-> IF u = t THEN {} ELSE hears[u] \ {t}]
  /\ UNCHANGED <<mount, online, aware, owner, server, inbox, outbox, dead, events>>

(* The timer fires, or the tab comes to the front; then also while the     *)
(* close of the old socket is yet to be reported.                          *)
Reconnect(t) ==
  /\ phase[t] = "reconnect-scheduled" \/ ws[t] \in dead
  /\ Connect(t)
  /\ hears' = [u \in Tab |-> IF u = t THEN {} ELSE hears[u] \ {t}]
  /\ UNCHANGED <<mount, online, aware, members, room, uncertain, inbox, outbox, dead, events>>

(* Thirty seconds without a word from a tab, which renews itself more      *)
(* often than that while it lives.                                         *)
ExpireAwareness(t) ==
  \E u \in Tab \ {t} :
    /\ aware[t][u].status # "none"
    /\ aware[u][u].clock > aware[t][u].clock
    /\ aware' = [aware EXCEPT ![t][u].status = "none"]
    /\ UNCHANGED <<mount, phase, ws, online, owner, server, inbox, outbox, dead, events, hears>>

MemberJoined(ids, f) == ids \cup {f.user}
MemberLeft(ids, f) == ids \ {f.user}
(* Mutant: the list is added to what is shown.                             *)
JoinedIsMore(ids, t, f) == ids \cup f.users

JoinedSnapshot(ids, t, f) == {UserOf[t]} \cup f.users

ApplyRemoteAwareness(entry, f) == IF f.entry.clock > entry.clock THEN f.entry ELSE entry

(* A frame arrives, of the current socket: those of an older one, which    *)
(* isCurrent ignores, are gone from `outbox` when it dies.                 *)
HandleMessage(c) ==
  LET t == owner[c]
      f == Head(outbox[c])
  IN /\ outbox[c] # <<>> /\ phase[t] = "connected"
     /\ outbox' = [outbox EXCEPT ![c] = Tail(@)]
     /\ online' = CASE f.kind = "joined" -> [online EXCEPT ![t] = JoinedSnapshot(@, t, f)]
                    [] f.kind = "member_joined" -> [online EXCEPT ![t] = MemberJoined(@, f)]
                    [] f.kind = "member_left" -> [online EXCEPT ![t] = MemberLeft(@, f)]
                    [] f.kind = "presence" -> online
     /\ aware' = IF f.kind # "presence" THEN aware
                 ELSE [aware EXCEPT ![t][f.tab] = ApplyRemoteAwareness(@, f)]
     /\ UNCHANGED <<mount, phase, ws, owner, server, inbox, dead, events, hears>>
-----------------------------------------------------------------------------
(* The server.                                                             *)

(* To `conns`, not to `silent`: all that is in the room after. One whose   *)
(* buffer is full is dropped: out of the room, and closed.                 *)
Broadcast(conns, silent, f) ==
  LET full == {c \in conns : Len(outbox[c]) = SendBuffer}
  IN /\ outbox' = [c \in Conn |-> IF c \in full THEN <<>>
                                  ELSE IF c \in conns \ dead THEN Append(outbox[c], f) ELSE outbox[c]]
     /\ dead' = dead \cup full
     /\ room' = silent \cup (conns \ full)

Listed == {c \in Conn : handler[c] = "listed"}

(* hub.Join: into the room, and the others are told. Whoever reads the     *)
(* room between the two is told as well.                                   *)
Join(c) ==
  LET u == UserOf[owner[c]]
      notice == [kind |-> "member_joined", user |-> u]
  IN /\ handler[c] = "accepted"
     /\ handler' = [handler EXCEPT ![c] = "joined"]
     /\ Broadcast(room, {c}, notice)
     /\ uncertain' = [d \in Conn |-> IF d \in dead THEN {}
                                    ELSE IF d \in Listed THEN uncertain[d] \cup {u} ELSE uncertain[d] \ {u}]
     /\ UNCHANGED <<page, owner, members, inbox, events>>

(* sendJoined, in two steps: hub.MemberIDs, then the blocking send.        *)
ReadMembers(c) ==
  /\ handler[c] = "joined"
  /\ handler' = [handler EXCEPT ![c] = "listed"]
  /\ members' = [members EXCEPT ![c] = Users(room \ {c})]
  /\ uncertain' = [uncertain EXCEPT ![c] = {}]
  /\ UNCHANGED <<page, owner, room, inbox, outbox, dead, events>>

SendJoined(c) ==
  /\ handler[c] = "listed"
  /\ handler' = [handler EXCEPT ![c] = "reading"]
  /\ members' = [members EXCEPT ![c] = {}]
  /\ c \in dead \/ Len(outbox[c]) < SendBuffer
  /\ outbox' = IF c \in dead THEN outbox
               ELSE [outbox EXCEPT ![c] = Append(@, [kind |-> "joined", users |-> members[c]])]
  /\ UNCHANGED <<page, owner, room, inbox, dead, events, uncertain>>

(* handleTextFrame: awareness is passed on to the rest of the room.        *)
RelayPresence(c) ==
  /\ handler[c] = "reading" /\ inbox[c] # <<>>
  /\ inbox' = [inbox EXCEPT ![c] = Tail(@)]
  /\ Broadcast(room \ {c}, room \cap {c}, [kind |-> "presence", tab |-> Head(inbox[c]).tab,
                                 entry |-> Head(inbox[c]).entry])
  /\ UNCHANGED <<page, owner, handler, members, uncertain, events>>

(* Mutant: the room keeps a connection whose handler ends.                 *)
LeaveKeepingRoom(c) ==
  /\ handler[c] = "reading" /\ c \in dead /\ inbox[c] = <<>>
  /\ handler' = [handler EXCEPT ![c] = "left"]
  /\ UNCHANGED <<page, owner, members, room, inbox, outbox, dead, events, uncertain>>

(* hub.Leave: out of the room, and then the others are told.               *)
Leave(c) ==
  /\ handler[c] = "reading" /\ c \in dead /\ inbox[c] = <<>>
  /\ handler' = [handler EXCEPT ![c] = "left"]
  /\ room' = room \ {c}
  /\ UNCHANGED <<page, owner, members, inbox, outbox, dead, events, uncertain>>

AnnounceLeft(c) ==
  LET u == UserOf[owner[c]]
  IN /\ handler[c] = "left"
     /\ handler' = [handler EXCEPT ![c] = "none"]
     /\ Broadcast(room, {}, [kind |-> "member_left", user |-> u])
     /\ uncertain' = [d \in Conn |-> IF d \in dead THEN {}
                                    ELSE IF d \in Listed \/ u \in Users(room)
                                    THEN uncertain[d] \cup {u} ELSE uncertain[d] \ {u}]
     /\ UNCHANGED <<page, owner, members, inbox, events>>

(* A connection fails: what the browser has sent may still be read.        *)
Cut(c) ==
  /\ handler[c] \notin {"none", "left"} /\ c \notin dead /\ events < MaxEvents
  /\ events' = events + 1
  /\ Die({c})
  /\ inbox' \in {inbox, [inbox EXCEPT ![c] = <<>>]}
  /\ UNCHANGED <<page, owner, server>>

PresenceNext ==
  \/ \E t \in Tab : \/ ConnectDocument(t)
                     \/ CloseDocument(t) \/ HandleOpen(t) \/ SetPresenceStatus(t)
                     \/ HandleClose(t) \/ Reconnect(t) \/ ExpireAwareness(t)
  \/ \E c \in Conn : \/ HandleMessage(c) \/ Join(c) \/ ReadMembers(c)
                      \/ SendJoined(c) \/ RelayPresence(c) \/ Leave(c) \/ AnnounceLeft(c) \/ Cut(c)

PresenceSpec == PresenceInit /\ [][PresenceNext]_presenceVars
-----------------------------------------------------------------------------
AtRest ==
  /\ \A c \in Conn : /\ outbox[c] = <<>> /\ inbox[c] = <<>>
                     /\ handler[c] = IF c \in room THEN "reading" ELSE "none"
  /\ \A t \in Tab : phase[t] # "connecting" /\ ws[t] \notin dead

(* Once nothing is on its way, a connected tab shows exactly the users who *)
(* are in the room, whatever order joins, leaves and lists came in. Two    *)
(* cases are excused: a frame about a user sent between the reading and    *)
(* the sending of a list, which the list then overwrites (sendJoined), and *)
(* the member_left of one of several connections of a user (hub.Leave).    *)
PresenceConverges ==
  AtRest =>
    \A t \in Tab : phase[t] = "connected" =>
      \A u \in User \ uncertain[ws[t]] : (u \in online[t]) = (u \in Users(room))

(* A tab that comes back while another is listening is shown there with    *)
(* its present status as soon as what it sent has arrived, without waiting *)
(* for the next renewal, even if it had expired there.                     *)
ReappearsAtOnce ==
  AtRest => \A t \in Tab : \A u \in hears[t] : aware[t][u] = aware[u][u]

(* A mount that was closed leaves no provider behind: not when the close   *)
(* came while the identity or the seed was being loaded, either.           *)
NoProviderOutlivesMount ==
  \A t \in Tab : mount[t] = "closed" => phase[t] \in {"none", "destroyed"}

=============================================================================
