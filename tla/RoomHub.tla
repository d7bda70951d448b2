------------------------------ MODULE RoomHub ------------------------------
(***************************************************************************)
(* The realtime hub of the server, at the grain of its mutexes: the        *)
(* registry that maps a document to its Room, the Rooms, the per-user      *)
(* connection limit, the write pump of each client, and the handlers that  *)
(* use them (ws_handler.go, and RemoveMember in document_handler.go).      *)
(*                                                                         *)
(* One document. A Room is an object: two rooms of the same document are   *)
(* two rooms. Every step of a handler is what it does under one lock, or   *)
(* one operation on a channel; whatever a handler keeps in a local         *)
(* variable between two locks may be stale.                                *)
(*                                                                         *)
(* Frames are counted and not told apart: a send channel is its length.    *)
(***************************************************************************)
EXTENDS Naturals, FiniteSets

CONSTANTS
  User,         \* accounts
  Conn,         \* websocket connections, each used once
  UserOf,       \* whose connection it is
  Room,         \* room objects; a bound: unreferenced ones are used again
  NoRoom,       \* "not in the map"
  MaxConnectionsPerUser,  \* conn_limiter.go: maxConnectionsPerUser
  SendBuffer,   \* client.go: sendBuffer
  History,      \* frames replayHistory has for a newcomer
  MaxUpdates,   \* bound: updates broadcast in all
  MayRemove     \* users the document's owner may remove

ASSUME HubAssumption ==
  /\ User # {} /\ IsFiniteSet(Conn) /\ UserOf \in [Conn -> User]
  /\ NoRoom \notin Room
  /\ MaxConnectionsPerUser \in Nat \ {0}
  /\ SendBuffer \in Nat \ {0}
  /\ History \in Nat /\ MaxUpdates \in Nat
  /\ MayRemove \subseteq User

VARIABLES
  reg,      \* roomRegistry.rooms at the document
  clients,  \* Room.clients
  slots,    \* connLimiter.counts
  member,   \* users the database has as members
  pc,       \* where a connection's handler is
  room,     \* the *Room the handler holds in a local variable
  sock,     \* "open", "lost" (the peer is gone) or "closed" (CloseNow)
  buffer,   \* length of the client's send channel
  pump,     \* the write pump is running
  todo,     \* history frames still to be queued
  removal,  \* the RemoveMember request: its stage, target and local room
  updates,  \* updates broadcast so far
  raced     \* history: a room was dropped that a handler was about to join,
            \* or by a handler that had left another room

connVars == <<pc, room, sock, buffer, pump, todo>>
vars == <<reg, clients, slots, member, connVars, removal, updates, raced>>

PCs == {"new", "checked", "admitted", "accepted", "joining", "announcing", "replaying",
        "listed", "reading", "relaying", "leaving", "left", "emptied", "over", "done"}

(* Where a handler has a *Room in hand.                                    *)
HoldsRoom == {"joining", "announcing", "relaying", "leaving", "left", "emptied"}

TypeOK ==
  /\ reg \in Room \cup {NoRoom}
  /\ clients \in [Room -> SUBSET Conn]
  /\ slots \in [User -> 0 .. MaxConnectionsPerUser]
  /\ member \in SUBSET User
  /\ pc \in [Conn -> PCs]
  /\ room \in [Conn -> Room \cup {NoRoom}]
  /\ \A k \in Conn : pc[k] \in HoldsRoom => room[k] \in Room
  /\ sock \in [Conn -> {"open", "lost", "closed"}]
  /\ buffer \in [Conn -> 0 .. SendBuffer]
  /\ pump \in [Conn -> BOOLEAN]
  /\ todo \in [Conn -> 0 .. History]
  /\ removal \in [stage : {"none", "committed", "found", "evicted", "done"}, user : User, room : Room \cup {NoRoom}]
  /\ removal.stage \in {"found", "evicted"} => removal.room \in Room
  /\ updates \in 0 .. MaxUpdates
  /\ raced \in BOOLEAN

Init ==
  /\ reg = NoRoom
  /\ clients = [r \in Room |-> {}]
  /\ slots = [u \in User |-> 0]
  /\ member = User
  /\ pc = [k \in Conn |-> "new"]
  /\ room = [k \in Conn |-> NoRoom]
  /\ sock = [k \in Conn |-> "open"]
  /\ buffer = [k \in Conn |-> 0]
  /\ pump = [k \in Conn |-> FALSE]
  /\ todo = [k \in Conn |-> 0]
  /\ removal = [stage |-> "none", user |-> CHOOSE u \in User : TRUE, room |-> NoRoom]
  /\ updates = 0
  /\ raced = FALSE

Goto(k, from, to) == pc[k] = from /\ pc' = [pc EXCEPT ![k] = to]

-----------------------------------------------------------------------------
(* roomRegistry and Room.                                                  *)

(* Rooms nobody refers to stand for newly allocated ones.                  *)
Unused == {r \in Room : clients[r] = {} /\ reg # r /\ removal.room # r /\ \A k \in Conn : room[k] # r}

(* getOrCreate.                                                            *)
GetOrCreate ==
  \/ reg # NoRoom /\ UNCHANGED reg
  \/ reg = NoRoom /\ Unused # {} /\ reg' = CHOOSE r \in Unused : TRUE

(* ... the room going to k's local variable.                               *)
LookUp(k) == GetOrCreate /\ room' = [room EXCEPT ![k] = reg']

(* dropIfEmpty: the caller's room decides, the document's entry goes. Not  *)
(* looked at is whether the entry is the caller's room, and whether a      *)
(* handler has looked the entry up and is yet to join it.                  *)
Wanted == \E k \in Conn : pc[k] = "joining" /\ room[k] = reg

DropIfEmpty(r) ==
  \/ /\ clients[r] = {}
     /\ reg' = NoRoom
     /\ raced' = (raced \/ (reg # NoRoom /\ (reg # r \/ Wanted)))
  \/ /\ clients[r] # {}
     /\ UNCHANGED <<reg, raced>>

(* broadcast in r: every client but skip gets a frame; one whose channel   *)
(* is full is taken out of the room and its connection closed.             *)
Full(r, skip) == {m \in clients[r] \ skip : buffer[m] = SendBuffer}

BroadcastIn(r, skip) ==
  /\ clients' = [clients EXCEPT ![r] = @ \ Full(r, skip)]
  /\ buffer' = [m \in Conn |-> IF m \in (clients[r] \ skip) \ Full(r, skip) THEN buffer[m] + 1 ELSE buffer[m]]
  /\ sock' = [m \in Conn |-> IF m \in Full(r, skip) THEN "closed" ELSE sock[m]]

-----------------------------------------------------------------------------
(* The handler of a connection: WebSocket().                               *)

(* authenticateWSRequest: IsMember, before the handshake.                  *)
Authenticate(k) ==
  /\ pc[k] = "new"
  /\ pc' = [pc EXCEPT ![k] = IF UserOf[k] \in member THEN "checked" ELSE "done"]
  /\ UNCHANGED <<reg, clients, slots, member, room, sock, buffer, pump, todo, removal, updates, raced>>

(* AcquireConnectionSlot, or 429.                                          *)
Acquire(k) ==
  LET u == UserOf[k] IN
  /\ pc[k] = "checked"
  /\ \/ /\ slots[u] >= MaxConnectionsPerUser
        /\ pc' = [pc EXCEPT ![k] = "done"]
        /\ UNCHANGED slots
     \/ /\ slots[u] < MaxConnectionsPerUser
        /\ pc' = [pc EXCEPT ![k] = "admitted"]
        /\ slots' = [slots EXCEPT ![u] = @ + 1]
  /\ UNCHANGED <<reg, clients, member, room, sock, buffer, pump, todo, removal, updates, raced>>

(* Mutant: the release is deferred after Accept instead of before.         *)
AcceptUnreleased(k) ==
  /\ pc[k] = "admitted"
  /\ \/ pc' = [pc EXCEPT ![k] = "accepted"] /\ UNCHANGED sock
     \/ pc' = [pc EXCEPT ![k] = "done"] /\ sock' = [sock EXCEPT ![k] = "closed"]
  /\ UNCHANGED <<reg, clients, slots, member, room, buffer, pump, todo, removal, updates, raced>>

(* websocket.Accept; on an error the deferred release runs.                *)
Accept(k) ==
  /\ pc[k] = "admitted"
  /\ \/ pc' = [pc EXCEPT ![k] = "accepted"] /\ UNCHANGED sock
     \/ pc' = [pc EXCEPT ![k] = "over"] /\ sock' = [sock EXCEPT ![k] = "closed"]
  /\ UNCHANGED <<reg, clients, slots, member, room, buffer, pump, todo, removal, updates, raced>>

(* Hub.Join: look the room up ...                                          *)
JoinLookup(k) ==
  /\ Goto(k, "accepted", "joining")
  /\ LookUp(k)
  /\ UNCHANGED <<clients, slots, member, sock, buffer, pump, todo, removal, updates, raced>>

(* ... join it and start the write pump ...                                *)
JoinRoom(k) ==
  /\ Goto(k, "joining", "announcing")
  /\ clients' = [clients EXCEPT ![room[k]] = @ \cup {k}]
  /\ pump' = [pump EXCEPT ![k] = TRUE]
  /\ UNCHANGED <<reg, slots, member, room, sock, buffer, todo, removal, updates, raced>>

(* ... and tell the others (member_joined). Then the history is queried.   *)
Announce(k) ==
  /\ Goto(k, "announcing", "replaying")
  /\ BroadcastIn(room[k], {k})
  /\ room' = [room EXCEPT ![k] = NoRoom]
  /\ todo' = [todo EXCEPT ![k] = History]
  /\ UNCHANGED <<reg, slots, member, pump, removal, updates, raced>>

(* enqueueBlocking of one history frame: waits for the write pump. The     *)
(* context it also waits for is the request's, which ends with the         *)
(* handler: after the handshake took the connection over, net/http no      *)
(* longer watches it.                                                      *)
ReplayNext(k) ==
  /\ pc[k] = "replaying" /\ todo[k] > 0
  /\ buffer[k] < SendBuffer
  /\ buffer' = [buffer EXCEPT ![k] = @ + 1]
  /\ todo' = [todo EXCEPT ![k] = @ - 1]
  /\ UNCHANGED <<reg, clients, slots, member, pc, room, sock, pump, removal, updates, raced>>

(* sendJoined: MemberIDs looks the room up, and may create one ...         *)
ListOthers(k) ==
  /\ todo[k] = 0
  /\ Goto(k, "replaying", "listed")
  /\ GetOrCreate
  /\ UNCHANGED <<clients, slots, member, room, sock, buffer, pump, todo, removal, updates, raced>>

(* Mutant: the snapshot is queued whether or not the channel has room.     *)
SendJoinedAnyway(k) ==
  /\ Goto(k, "listed", "reading")
  /\ buffer' = [buffer EXCEPT ![k] = @ + 1]
  /\ UNCHANGED <<reg, clients, slots, member, room, sock, pump, todo, removal, updates, raced>>

(* ... and the snapshot is queued like the history.                        *)
SendJoined(k) ==
  /\ Goto(k, "listed", "reading")
  /\ buffer[k] < SendBuffer
  /\ buffer' = [buffer EXCEPT ![k] = @ + 1]
  /\ UNCHANGED <<reg, clients, slots, member, room, sock, pump, todo, removal, updates, raced>>

(* runReadLoop reads an update; BroadcastUpdate looks the room up ...      *)
ReadUpdate(k) ==
  /\ sock[k] # "closed"
  /\ updates < MaxUpdates
  /\ Goto(k, "reading", "relaying")
  /\ LookUp(k)
  /\ updates' = updates + 1
  /\ UNCHANGED <<clients, slots, member, sock, buffer, pump, todo, removal, raced>>

(* ... and broadcasts in it.                                               *)
Relay(k) ==
  /\ Goto(k, "relaying", "reading")
  /\ BroadcastIn(room[k], {k})
  /\ room' = [room EXCEPT ![k] = NoRoom]
  /\ UNCHANGED <<reg, slots, member, pump, todo, removal, updates, raced>>

(* Mutant: Leave first waits until the write pump has sent everything.     *)
LeaveAfterFlush(k) ==
  /\ sock[k] # "open" /\ buffer[k] = 0
  /\ Goto(k, "reading", "leaving")
  /\ LookUp(k)
  /\ UNCHANGED <<clients, slots, member, sock, buffer, pump, todo, removal, updates, raced>>

(* conn.Read fails; the deferred Leave looks the room up ...               *)
LeaveLookup(k) ==
  /\ sock[k] # "open"
  /\ Goto(k, "reading", "leaving")
  /\ LookUp(k)
  /\ UNCHANGED <<clients, slots, member, sock, buffer, pump, todo, removal, updates, raced>>

(* ... leaves it ...                                                       *)
LeaveRoom(k) ==
  /\ Goto(k, "leaving", "left")
  /\ clients' = [clients EXCEPT ![room[k]] = @ \ {k}]
  /\ UNCHANGED <<reg, slots, member, room, sock, buffer, pump, todo, removal, updates, raced>>

(* ... tells whoever is in it (member_left) ...                            *)
AnnounceLeft(k) ==
  /\ Goto(k, "left", "emptied")
  /\ BroadcastIn(room[k], {})
  /\ UNCHANGED <<reg, slots, member, room, pump, todo, removal, updates, raced>>

(* Mutant: an evicted client leaves the dropping to who evicted it.        *)
LeaveDropUnlessEvicted(k) ==
  /\ Goto(k, "emptied", "over")
  /\ IF sock[k] = "closed" THEN UNCHANGED <<reg, raced>> ELSE DropIfEmpty(room[k])
  /\ room' = [room EXCEPT ![k] = NoRoom]
  /\ UNCHANGED <<clients, slots, member, sock, buffer, pump, todo, removal, updates>>

(* ... and drops it if it is empty.                                        *)
LeaveDrop(k) ==
  /\ Goto(k, "emptied", "over")
  /\ DropIfEmpty(room[k])
  /\ room' = [room EXCEPT ![k] = NoRoom]
  /\ UNCHANGED <<clients, slots, member, sock, buffer, pump, todo, removal, updates>>

(* The deferred CloseNow and ReleaseConnectionSlot; the request's context  *)
(* ends, and with it the write pump.                                       *)
Release(k) ==
  /\ Goto(k, "over", "done")
  /\ slots' = [slots EXCEPT ![UserOf[k]] = @ - 1]
  /\ sock' = [sock EXCEPT ![k] = "closed"]
  /\ pump' = [pump EXCEPT ![k] = FALSE]
  /\ UNCHANGED <<reg, clients, member, room, buffer, todo, removal, updates, raced>>

-----------------------------------------------------------------------------
(* runWritePump, and the network.                                          *)

(* A frame is written. To a peer that is gone, writes may still succeed.   *)
PumpWrite(k) ==
  /\ pump[k] /\ buffer[k] > 0
  /\ sock[k] # "closed"
  /\ buffer' = [buffer EXCEPT ![k] = @ - 1]
  /\ UNCHANGED <<reg, clients, slots, member, pc, room, sock, pump, todo, removal, updates, raced>>

(* A write fails: the frame is gone and the pump ends.                     *)
PumpFails(k) ==
  /\ pump[k] /\ buffer[k] > 0
  /\ sock[k] # "open"
  /\ buffer' = [buffer EXCEPT ![k] = @ - 1]
  /\ pump' = [pump EXCEPT ![k] = FALSE]
  /\ UNCHANGED <<reg, clients, slots, member, pc, room, sock, todo, removal, updates, raced>>

(* The tab closes, or the network loses it.                                *)
PeerLost(k) ==
  /\ pc[k] \notin {"new", "checked", "admitted", "done"}
  /\ sock[k] = "open"
  /\ sock' = [sock EXCEPT ![k] = "lost"]
  /\ UNCHANGED <<reg, clients, slots, member, pc, room, buffer, pump, todo, removal, updates, raced>>

-----------------------------------------------------------------------------
(* The RemoveMember request: RemoveMemberAndRotate commits, then           *)
(* EvictDocumentMember cuts the open connections.                          *)

RemoveMember(u) ==
  /\ removal.stage = "none" /\ removal.user = u
  /\ u \in MayRemove
  /\ member' = member \ {u}
  /\ removal' = [stage |-> "committed", user |-> u, room |-> NoRoom]
  /\ UNCHANGED <<reg, clients, slots, connVars, updates, raced>>

(* get: no room, nothing to evict.                                         *)
EvictLookup ==
  /\ removal.stage = "committed"
  /\ removal' = [stage |-> IF reg = NoRoom THEN "done" ELSE "found", user |-> removal.user, room |-> reg]
  /\ UNCHANGED <<reg, clients, slots, member, connVars, updates, raced>>

(* Mutant: the clients are taken out of the room and not closed.           *)
EvictUserQuietly ==
  LET r == removal.room
      theirs == {k \in clients[r] : UserOf[k] = removal.user} IN
  /\ removal.stage = "found"
  /\ clients' = [clients EXCEPT ![r] = @ \ theirs]
  /\ removal' = [stage |-> "evicted", user |-> removal.user, room |-> r]
  /\ UNCHANGED <<reg, slots, member, pc, room, sock, buffer, pump, todo, updates, raced>>

EvictUser ==
  LET r == removal.room
      theirs == {k \in clients[r] : UserOf[k] = removal.user} IN
  /\ removal.stage = "found"
  /\ clients' = [clients EXCEPT ![r] = @ \ theirs]
  /\ sock' = [k \in Conn |-> IF k \in theirs THEN "closed" ELSE sock[k]]
  /\ removal' = [stage |-> "evicted", user |-> removal.user, room |-> r]
  /\ UNCHANGED <<reg, slots, member, pc, room, buffer, pump, todo, updates, raced>>

EvictDrop ==
  /\ removal.stage = "evicted"
  /\ DropIfEmpty(removal.room)
  /\ removal' = [stage |-> "done", user |-> removal.user, room |-> NoRoom]
  /\ UNCHANGED <<clients, slots, member, connVars, updates>>

-----------------------------------------------------------------------------
Handler(k) ==
  \/ Authenticate(k) \/ Acquire(k) \/ Accept(k)
  \/ JoinLookup(k) \/ JoinRoom(k) \/ Announce(k)
  \/ ReplayNext(k) \/ ListOthers(k) \/ SendJoined(k)
  \/ Relay(k) \/ LeaveLookup(k) \/ LeaveRoom(k) \/ AnnounceLeft(k) \/ LeaveDrop(k) \/ Release(k)

Pump(k) == PumpWrite(k) \/ PumpFails(k)

Evict == EvictLookup \/ EvictUser \/ EvictDrop

Next ==
  \/ \E k \in Conn : Handler(k) \/ ReadUpdate(k) \/ Pump(k) \/ PeerLost(k)
  \/ \E u \in User : RemoveMember(u)
  \/ Evict

Spec == Init /\ [][Next]_vars

(* Goroutines run. Nobody has to write, to leave or to be removed.         *)
FairSpec == Spec /\ (\A k \in Conn : WF_vars(Handler(k)) /\ WF_vars(Pump(k))) /\ WF_vars(Evict)

-----------------------------------------------------------------------------
(* Properties.                                                             *)

Holding == {"admitted", "accepted", "joining", "announcing", "replaying", "listed", "reading",
            "relaying", "leaving", "left", "emptied", "over"}
Serving == {"announcing", "replaying", "listed", "reading", "relaying"}

(* Every slot a user is charged for is a handler of his that has acquired  *)
(* and not released one, whatever way it ends (hub.go:32-36).              *)
Charged(u) == {k \in Conn : UserOf[k] = u /\ pc[k] \in Holding}
SlotsPaired == \A u \in User : slots[u] = Cardinality(Charged(u))

(* Once every handler has returned the map is empty: whichever way joins,  *)
(* leaves, evictions and lookups that create rooms interleave, no room     *)
(* stays behind.                                                           *)
NoRoomAtRest ==
  (\A k \in Conn : pc[k] \in {"new", "checked", "admitted", "accepted", "done"})
    => reg = NoRoom

(* A connection that is served is in a room, until it is closed; and it is *)
(* the one in the map, which broadcasts, evictions and later joins go to   *)
(* (hub.go:157-162), but for the two races of DropIfEmpty.                 *)
ServedInTheRoom ==
  \A k \in Conn : pc[k] \in Serving /\ sock[k] # "closed" =>
    \E r \in Room : k \in clients[r] /\ (reg = r \/ raced)

(* When the peer is gone, or was evicted, the handler unwinds: it leaves   *)
(* the room and gives back the slot (client.go:91-93, hub.go:32-36).       *)
GoneIsReleased ==
  \A k \in Conn : (pc[k] \in Serving /\ sock[k] # "open") ~> pc[k] = "done"
=============================================================================
