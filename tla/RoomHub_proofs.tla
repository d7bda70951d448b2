--------------------------- MODULE RoomHub_proofs ---------------------------
(***************************************************************************)
(* For every instance of RoomHub: its types, the pairing of connection     *)
(* slots with handlers, that the room map is empty at rest, and that those *)
(* who are served meet in one room.                                        *)
(***************************************************************************)
EXTENDS RoomHub, FiniteSetTheorems, TLAPS

(* What a lookup finds is the entry, or a room without clients.            *)
LEMMA LookedUp ==
  ASSUME TypeOK, GetOrCreate
  PROVE  /\ reg' \in Room
         /\ reg' = reg \/ (reg = NoRoom /\ clients[reg'] = {})
<1>1. CASE reg # NoRoom /\ UNCHANGED reg
  BY <1>1 DEF TypeOK
<1>2. CASE reg = NoRoom /\ Unused # {} /\ reg' = CHOOSE r \in Unused : TRUE
  <2>1. reg' \in Unused
    BY <1>2
  <2>. QED
    BY <1>2, <2>1 DEF Unused
<1>. QED
  BY <1>1, <1>2 DEF GetOrCreate

LEMMA BroadcastType ==
  ASSUME TypeOK, NEW r \in Room, NEW skip, BroadcastIn(r, skip)
  PROVE  /\ clients' \in [Room -> SUBSET Conn]
         /\ buffer' \in [Conn -> 0 .. SendBuffer]
         /\ sock' \in [Conn -> {"open", "lost", "closed"}]
<1>. USE HubAssumption DEF TypeOK
<1>1. clients' \in [Room -> SUBSET Conn] /\ sock' \in [Conn -> {"open", "lost", "closed"}]
  BY DEF BroadcastIn
<1>2. \A m \in (clients[r] \ skip) \ Full(r, skip) : buffer[m] + 1 \in 0 .. SendBuffer
  BY DEF Full
<1>. QED
  BY <1>1, <1>2 DEF BroadcastIn

(* The handlers charged to a user.                                         *)
LEMMA ChargedFinite == \A u : IsFiniteSet(Charged(u)) /\ Cardinality(Charged(u)) \in Nat
<1>1. \A u : Charged(u) \subseteq Conn
  BY DEF Charged
<1>. QED
  BY <1>1, HubAssumption, FS_Subset, FS_CardinalityType

LEMMA SameCharged ==
  ASSUME SlotsPaired, UNCHANGED slots, \A m \in Conn : pc'[m] \in Holding <=> pc[m] \in Holding
  PROVE  SlotsPaired'
<1>1. \A u \in User : Charged(u)' = Charged(u)
  BY DEF Charged
<1>. QED
  BY <1>1 DEF SlotsPaired

LEMMA ChargedSome ==
  ASSUME TypeOK, SlotsPaired, NEW k \in Conn, pc[k] \in Holding
  PROVE  slots[UserOf[k]] \in 1 .. MaxConnectionsPerUser
<1>1. UserOf[k] \in User /\ k \in Charged(UserOf[k])
  BY HubAssumption DEF Charged
<1>2. Cardinality(Charged(UserOf[k])) # 0
  BY <1>1, ChargedFinite, FS_EmptySet
<1>. QED
  BY <1>1, <1>2, HubAssumption DEF TypeOK, SlotsPaired

LEMMA InitHub == Init => TypeOK /\ SlotsPaired
<1> SUFFICES ASSUME Init PROVE TypeOK /\ SlotsPaired
  OBVIOUS
<1>1. TypeOK
  <2>1. removal.stage = "none" /\ removal \in [stage : {"none", "committed", "found", "evicted", "done"},
                                              user : User, room : Room \cup {NoRoom}]
    BY HubAssumption DEF Init
  <2>2. \A k \in Conn : pc[k] = "new"
    BY DEF Init
  <2>. QED
    <3>1. /\ reg \in Room \cup {NoRoom} /\ clients \in [Room -> SUBSET Conn] /\ raced \in BOOLEAN
          /\ slots \in [User -> 0 .. MaxConnectionsPerUser] /\ member \in SUBSET User
          /\ updates \in 0 .. MaxUpdates
      <4>1. raced \in BOOLEAN /\ reg \in Room \cup {NoRoom} /\ member \in SUBSET User
        BY DEF Init
      <4>2. clients \in [Room -> SUBSET Conn]
        BY DEF Init
      <4>3. slots \in [User -> 0 .. MaxConnectionsPerUser] /\ updates \in 0 .. MaxUpdates
        BY HubAssumption DEF Init
      <4>. QED
        BY <4>1, <4>2, <4>3
    <3>2. /\ pc \in [Conn -> PCs] /\ room \in [Conn -> Room \cup {NoRoom}]
          /\ \A k \in Conn : pc[k] \in HoldsRoom => room[k] \in Room
      BY <2>2 DEF Init, PCs, HoldsRoom
    <3>3. /\ sock \in [Conn -> {"open", "lost", "closed"}] /\ buffer \in [Conn -> 0 .. SendBuffer]
          /\ pump \in [Conn -> BOOLEAN] /\ todo \in [Conn -> 0 .. History]
      BY HubAssumption DEF Init
    <3>. QED
      BY <2>1, <3>1, <3>2, <3>3 DEF TypeOK
<1>2. \A u \in User : Charged(u) = {}
  BY DEF Init, Charged, Holding
<1>. QED
  BY <1>1, <1>2, FS_EmptySet DEF Init, SlotsPaired

LEMMA NextHubType == TypeOK /\ SlotsPaired /\ [Next]_vars => TypeOK'
<1> SUFFICES ASSUME TypeOK, SlotsPaired, [Next]_vars PROVE TypeOK'
  OBVIOUS
<1>. USE HubAssumption DEF TypeOK, PCs, HoldsRoom
<1>1. ASSUME NEW k \in Conn, Authenticate(k) PROVE TypeOK'
  BY <1>1 DEF Authenticate
<1>2. ASSUME NEW k \in Conn, Acquire(k) PROVE TypeOK'
  <2>1. CASE pc' = [pc EXCEPT ![k] = "done"] /\ UNCHANGED slots
    BY <1>2, <2>1 DEF Acquire
  <2>2. CASE /\ slots[UserOf[k]] < MaxConnectionsPerUser
             /\ pc' = [pc EXCEPT ![k] = "admitted"]
             /\ slots' = [slots EXCEPT ![UserOf[k]] = @ + 1]
    BY <1>2, <2>2 DEF Acquire
  <2>. QED
    BY <1>2, <2>1, <2>2 DEF Acquire
<1>3. ASSUME NEW k \in Conn, Accept(k) PROVE TypeOK'
  BY <1>3 DEF Accept
<1>4. ASSUME NEW k \in Conn, JoinLookup(k) PROVE TypeOK'
  <2>1. reg' \in Room
    BY <1>4, LookedUp DEF JoinLookup, LookUp
  <2>. QED
    BY <1>4, <2>1 DEF JoinLookup, LookUp, Goto
<1>5. ASSUME NEW k \in Conn, JoinRoom(k) PROVE TypeOK'
  BY <1>5 DEF JoinRoom, Goto
<1>6. ASSUME NEW k \in Conn, Announce(k) PROVE TypeOK'
  <2>1. BroadcastIn(room[k], {k}) /\ room[k] \in Room
    BY <1>6 DEF Announce, Goto
  <2>2. /\ clients' \in [Room -> SUBSET Conn]
        /\ buffer' \in [Conn -> 0 .. SendBuffer]
        /\ sock' \in [Conn -> {"open", "lost", "closed"}]
    BY <2>1, BroadcastType
  <2>3. todo' \in [Conn -> 0 .. History] /\ room' \in [Conn -> Room \cup {NoRoom}]
    BY <1>6 DEF Announce
  <2>4. pc' \in [Conn -> PCs] /\ \A m \in Conn : pc'[m] \in HoldsRoom => room'[m] \in Room
    BY <1>6 DEF Announce, Goto
  <2>. QED
    BY <1>6, <2>2, <2>3, <2>4 DEF Announce
<1>7. ASSUME NEW k \in Conn, ReplayNext(k) PROVE TypeOK'
  BY <1>7 DEF ReplayNext
<1>8. ASSUME NEW k \in Conn, ListOthers(k) PROVE TypeOK'
  <2>1. reg' \in Room
    BY <1>8, LookedUp DEF ListOthers
  <2>. QED
    BY <1>8, <2>1 DEF ListOthers, Goto
<1>9. ASSUME NEW k \in Conn, SendJoined(k) PROVE TypeOK'
  BY <1>9 DEF SendJoined, Goto
<1>10. ASSUME NEW k \in Conn, ReadUpdate(k) PROVE TypeOK'
  <2>1. reg' \in Room
    BY <1>10, LookedUp DEF ReadUpdate, LookUp
  <2>. QED
    BY <1>10, <2>1 DEF ReadUpdate, LookUp, Goto
<1>11. ASSUME NEW k \in Conn, Relay(k) PROVE TypeOK'
  <2>1. BroadcastIn(room[k], {k}) /\ room[k] \in Room
    BY <1>11 DEF Relay, Goto
  <2>2. /\ clients' \in [Room -> SUBSET Conn]
        /\ buffer' \in [Conn -> 0 .. SendBuffer]
        /\ sock' \in [Conn -> {"open", "lost", "closed"}]
    BY <2>1, BroadcastType
  <2>. QED
    BY <1>11, <2>2 DEF Relay, Goto
<1>12. ASSUME NEW k \in Conn, LeaveLookup(k) PROVE TypeOK'
  <2>1. reg' \in Room
    BY <1>12, LookedUp DEF LeaveLookup, LookUp
  <2>. QED
    BY <1>12, <2>1 DEF LeaveLookup, LookUp, Goto
<1>13. ASSUME NEW k \in Conn, LeaveRoom(k) PROVE TypeOK'
  BY <1>13 DEF LeaveRoom, Goto
<1>14. ASSUME NEW k \in Conn, AnnounceLeft(k) PROVE TypeOK'
  <2>1. BroadcastIn(room[k], {}) /\ room[k] \in Room
    BY <1>14 DEF AnnounceLeft, Goto
  <2>2. /\ clients' \in [Room -> SUBSET Conn]
        /\ buffer' \in [Conn -> 0 .. SendBuffer]
        /\ sock' \in [Conn -> {"open", "lost", "closed"}]
    BY <2>1, BroadcastType
  <2>. QED
    BY <1>14, <2>2 DEF AnnounceLeft, Goto
<1>15. ASSUME NEW k \in Conn, LeaveDrop(k) PROVE TypeOK'
  BY <1>15 DEF LeaveDrop, DropIfEmpty, Goto
<1>16. ASSUME NEW k \in Conn, Release(k) PROVE TypeOK'
  <2>1. slots[UserOf[k]] \in 1 .. MaxConnectionsPerUser
    BY <1>16, ChargedSome DEF Release, Goto, Holding
  <2>. QED
    BY <1>16, <2>1 DEF Release, Goto
<1>17. ASSUME NEW k \in Conn, PumpWrite(k) PROVE TypeOK'
  BY <1>17 DEF PumpWrite
<1>18. ASSUME NEW k \in Conn, PumpFails(k) PROVE TypeOK'
  BY <1>18 DEF PumpFails
<1>19. ASSUME NEW k \in Conn, PeerLost(k) PROVE TypeOK'
  BY <1>19 DEF PeerLost
<1>20. ASSUME NEW u \in User, RemoveMember(u) PROVE TypeOK'
  BY <1>20 DEF RemoveMember, connVars
<1>21. ASSUME EvictLookup PROVE TypeOK'
  BY <1>21 DEF EvictLookup, connVars
<1>22. ASSUME EvictUser PROVE TypeOK'
  BY <1>22 DEF EvictUser
<1>23. ASSUME EvictDrop PROVE TypeOK'
  BY <1>23 DEF EvictDrop, DropIfEmpty, connVars
<1>24. CASE UNCHANGED vars
  BY <1>24 DEF vars, connVars
<1>. QED
  BY <1>1, <1>2, <1>3, <1>4, <1>5, <1>6, <1>7, <1>8, <1>9, <1>10, <1>11, <1>12, <1>13, <1>14, <1>15, <1>16, <1>17, <1>18, <1>19, <1>20, <1>21, <1>22, <1>23, <1>24 DEF Next, Handler, Pump, Evict

LEMMA NextSlots == TypeOK /\ SlotsPaired /\ [Next]_vars => SlotsPaired'
<1> SUFFICES ASSUME TypeOK, SlotsPaired, [Next]_vars PROVE SlotsPaired'
  OBVIOUS
<1>1. ASSUME NEW k \in Conn, Authenticate(k) PROVE SlotsPaired'
  <2>1. UNCHANGED slots /\ \A m \in Conn : pc'[m] \in Holding <=> pc[m] \in Holding
    BY <1>1 DEF Authenticate, Goto, Holding
  <2>. QED
    BY <2>1, SameCharged
<1>2. ASSUME NEW k \in Conn, Acquire(k) PROVE SlotsPaired'
  <2>. DEFINE u == UserOf[k]
  <2>1. CASE pc' = [pc EXCEPT ![k] = "done"] /\ UNCHANGED slots
    <3>1. \A m \in Conn : pc'[m] \in Holding <=> pc[m] \in Holding
      BY <1>2, <2>1 DEF Acquire, Holding, TypeOK
    <3>. QED
      BY <2>1, <3>1, SameCharged
  <2>2. CASE pc' = [pc EXCEPT ![k] = "admitted"] /\ slots' = [slots EXCEPT ![u] = @ + 1]
    <3>1. k \notin Charged(u) /\ IsFiniteSet(Charged(u))
      BY <1>2, ChargedFinite DEF Acquire, Charged, Holding
    <3>2. Charged(u)' = Charged(u) \cup {k} /\ \A v \in User \ {u} : Charged(v)' = Charged(v)
      BY <1>2, <2>2 DEF Acquire, Charged, Holding, TypeOK
    <3>3. Cardinality(Charged(u)') = Cardinality(Charged(u)) + 1
      BY <3>1, <3>2, FS_AddElement
    <3>. QED
      BY <2>2, <3>2, <3>3, HubAssumption DEF TypeOK, SlotsPaired
  <2>. QED
    BY <1>2, <2>1, <2>2 DEF Acquire
<1>3. ASSUME NEW k \in Conn, Accept(k) PROVE SlotsPaired'
  <2>1. UNCHANGED slots /\ \A m \in Conn : pc'[m] \in Holding <=> pc[m] \in Holding
    BY <1>3 DEF Accept, Holding, TypeOK
  <2>. QED
    BY <2>1, SameCharged
<1>4. ASSUME NEW k \in Conn, JoinLookup(k) PROVE SlotsPaired'
  <2>1. UNCHANGED slots /\ \A m \in Conn : pc'[m] \in Holding <=> pc[m] \in Holding
    BY <1>4 DEF JoinLookup, Goto, Holding
  <2>. QED
    BY <2>1, SameCharged
<1>5. ASSUME NEW k \in Conn, JoinRoom(k) PROVE SlotsPaired'
  <2>1. UNCHANGED slots /\ \A m \in Conn : pc'[m] \in Holding <=> pc[m] \in Holding
    BY <1>5 DEF JoinRoom, Goto, Holding
  <2>. QED
    BY <2>1, SameCharged
<1>6. ASSUME NEW k \in Conn, Announce(k) PROVE SlotsPaired'
  <2>1. UNCHANGED slots /\ \A m \in Conn : pc'[m] \in Holding <=> pc[m] \in Holding
    BY <1>6 DEF Announce, Goto, Holding
  <2>. QED
    BY <2>1, SameCharged
<1>7. ASSUME NEW k \in Conn, ReplayNext(k) PROVE SlotsPaired'
  <2>1. UNCHANGED <<pc, slots>>
    BY <1>7 DEF ReplayNext
  <2>. QED
    BY <2>1, SameCharged
<1>8. ASSUME NEW k \in Conn, ListOthers(k) PROVE SlotsPaired'
  <2>1. UNCHANGED slots /\ \A m \in Conn : pc'[m] \in Holding <=> pc[m] \in Holding
    BY <1>8 DEF ListOthers, Goto, Holding
  <2>. QED
    BY <2>1, SameCharged
<1>9. ASSUME NEW k \in Conn, SendJoined(k) PROVE SlotsPaired'
  <2>1. UNCHANGED slots /\ \A m \in Conn : pc'[m] \in Holding <=> pc[m] \in Holding
    BY <1>9 DEF SendJoined, Goto, Holding
  <2>. QED
    BY <2>1, SameCharged
<1>10. ASSUME NEW k \in Conn, ReadUpdate(k) PROVE SlotsPaired'
  <2>1. UNCHANGED slots /\ \A m \in Conn : pc'[m] \in Holding <=> pc[m] \in Holding
    BY <1>10 DEF ReadUpdate, Goto, Holding
  <2>. QED
    BY <2>1, SameCharged
<1>11. ASSUME NEW k \in Conn, Relay(k) PROVE SlotsPaired'
  <2>1. UNCHANGED slots /\ \A m \in Conn : pc'[m] \in Holding <=> pc[m] \in Holding
    BY <1>11 DEF Relay, Goto, Holding
  <2>. QED
    BY <2>1, SameCharged
<1>12. ASSUME NEW k \in Conn, LeaveLookup(k) PROVE SlotsPaired'
  <2>1. UNCHANGED slots /\ \A m \in Conn : pc'[m] \in Holding <=> pc[m] \in Holding
    BY <1>12 DEF LeaveLookup, Goto, Holding
  <2>. QED
    BY <2>1, SameCharged
<1>13. ASSUME NEW k \in Conn, LeaveRoom(k) PROVE SlotsPaired'
  <2>1. UNCHANGED slots /\ \A m \in Conn : pc'[m] \in Holding <=> pc[m] \in Holding
    BY <1>13 DEF LeaveRoom, Goto, Holding
  <2>. QED
    BY <2>1, SameCharged
<1>14. ASSUME NEW k \in Conn, AnnounceLeft(k) PROVE SlotsPaired'
  <2>1. UNCHANGED slots /\ \A m \in Conn : pc'[m] \in Holding <=> pc[m] \in Holding
    BY <1>14 DEF AnnounceLeft, Goto, Holding
  <2>. QED
    BY <2>1, SameCharged
<1>15. ASSUME NEW k \in Conn, LeaveDrop(k) PROVE SlotsPaired'
  <2>1. UNCHANGED slots /\ \A m \in Conn : pc'[m] \in Holding <=> pc[m] \in Holding
    BY <1>15 DEF LeaveDrop, Goto, Holding
  <2>. QED
    BY <2>1, SameCharged
<1>16. ASSUME NEW k \in Conn, Release(k) PROVE SlotsPaired'
  <2>. DEFINE u == UserOf[k]
  <2>1. k \in Charged(u) /\ IsFiniteSet(Charged(u)) /\ Cardinality(Charged(u)) \in Nat
    BY <1>16, ChargedFinite DEF Release, Goto, Charged, Holding
  <2>2. Charged(u)' = Charged(u) \ {k} /\ \A v \in User \ {u} : Charged(v)' = Charged(v)
    BY <1>16 DEF Release, Goto, Charged, Holding, TypeOK
  <2>3. Cardinality(Charged(u)') = Cardinality(Charged(u)) - 1
    BY <2>1, <2>2, FS_RemoveElement
  <2>4. slots' = [slots EXCEPT ![u] = @ - 1]
    BY <1>16 DEF Release
  <2>. QED
    BY <2>2, <2>3, <2>4, HubAssumption DEF TypeOK, SlotsPaired
<1>17. ASSUME NEW k \in Conn, PumpWrite(k) PROVE SlotsPaired'
  <2>1. UNCHANGED <<pc, slots>>
    BY <1>17 DEF PumpWrite
  <2>. QED
    BY <2>1, SameCharged
<1>18. ASSUME NEW k \in Conn, PumpFails(k) PROVE SlotsPaired'
  <2>1. UNCHANGED <<pc, slots>>
    BY <1>18 DEF PumpFails
  <2>. QED
    BY <2>1, SameCharged
<1>19. ASSUME NEW k \in Conn, PeerLost(k) PROVE SlotsPaired'
  <2>1. UNCHANGED <<pc, slots>>
    BY <1>19 DEF PeerLost
  <2>. QED
    BY <2>1, SameCharged
<1>20. ASSUME NEW u \in User, RemoveMember(u) PROVE SlotsPaired'
  <2>1. UNCHANGED <<pc, slots>>
    BY <1>20 DEF RemoveMember, connVars
  <2>. QED
    BY <2>1, SameCharged
<1>21. ASSUME EvictLookup PROVE SlotsPaired'
  <2>1. UNCHANGED <<pc, slots>>
    BY <1>21 DEF EvictLookup, connVars
  <2>. QED
    BY <2>1, SameCharged
<1>22. ASSUME EvictUser PROVE SlotsPaired'
  <2>1. UNCHANGED <<pc, slots>>
    BY <1>22 DEF EvictUser
  <2>. QED
    BY <2>1, SameCharged
<1>23. ASSUME EvictDrop PROVE SlotsPaired'
  <2>1. UNCHANGED <<pc, slots>>
    BY <1>23 DEF EvictDrop, connVars
  <2>. QED
    BY <2>1, SameCharged
<1>24. CASE UNCHANGED vars
  <2>1. UNCHANGED <<pc, slots>>
    BY <1>24 DEF vars, connVars
  <2>. QED
    BY <2>1, SameCharged
<1>. QED
  BY <1>1, <1>2, <1>3, <1>4, <1>5, <1>6, <1>7, <1>8, <1>9, <1>10, <1>11, <1>12, <1>13, <1>14, <1>15, <1>16, <1>17, <1>18, <1>19, <1>20, <1>21, <1>22, <1>23, <1>24 DEF Next, Handler, Pump, Evict

(* Every variable keeps its type: counts of connections and of frames stay *)
(* within their limits.                                                    *)
THEOREM HubTypeCorrect == Spec => []TypeOK
<1>1. TypeOK /\ SlotsPaired /\ [Next]_vars => (TypeOK /\ SlotsPaired)'
  BY NextHubType, NextSlots
<1>. QED
  BY <1>1, InitHub, PTL DEF Spec

(* AcquireConnectionSlot and ReleaseConnectionSlot are paired on every way *)
(* out of a handler.                                                       *)
THEOREM SlotsArePaired == Spec => []SlotsPaired
<1>1. TypeOK /\ SlotsPaired /\ [Next]_vars => (TypeOK /\ SlotsPaired)'
  BY NextHubType, NextSlots
<1>. QED
  BY <1>1, InitHub, PTL DEF Spec

-----------------------------------------------------------------------------
(* Why the map is empty at rest: an entry always has a handler that is     *)
(* going to join or has joined and will look the room up when it leaves,   *)
(* or that is leaving this very room ...                                   *)
Keeper(k) ==
  \/ pc[k] \in {"joining", "announcing", "replaying", "listed", "reading", "relaying"}
  \/ pc[k] \in {"leaving", "left", "emptied"} /\ room[k] = reg

(* ... and whoever is in the room is such a handler, one that has not left *)
(* it yet.                                                                 *)
Inside(m) ==
  \/ pc[m] \in {"announcing", "replaying", "listed", "reading", "relaying"}
  \/ pc[m] = "leaving" /\ room[m] = reg

RoomKept ==
  reg # NoRoom => (\E k \in Conn : Keeper(k)) /\ (\A m \in clients[reg] : Inside(m))

LEMMA NextRoomKept == TypeOK /\ RoomKept /\ [Next]_vars => RoomKept'
<1> SUFFICES ASSUME TypeOK, RoomKept, [Next]_vars PROVE RoomKept'
  OBVIOUS
<1>. USE HubAssumption DEF TypeOK, RoomKept, Keeper, Inside
<1>1. ASSUME NEW k \in Conn, Authenticate(k) PROVE RoomKept'
  BY <1>1 DEF Authenticate, Goto
<1>2. ASSUME NEW k \in Conn, Acquire(k) PROVE RoomKept'
  BY <1>2 DEF Acquire, Goto
<1>3. ASSUME NEW k \in Conn, Accept(k) PROVE RoomKept'
  BY <1>3 DEF Accept, Goto
<1>4. ASSUME NEW k \in Conn, JoinLookup(k) PROVE RoomKept'
  <2>1. reg' \in Room /\ (reg' = reg \/ (reg = NoRoom /\ clients[reg'] = {}))
    BY <1>4, LookedUp DEF JoinLookup, LookUp
  <2>2. Keeper(k)'
    BY <1>4 DEF JoinLookup, Goto, LookUp
  <2>3. \A m \in clients[reg'] : Inside(m)'
    BY <1>4, <2>1 DEF JoinLookup, Goto, LookUp
  <2>. QED
    BY <1>4, <2>2, <2>3 DEF JoinLookup
<1>5. ASSUME NEW k \in Conn, JoinRoom(k) PROVE RoomKept'
  <2>1. \A m \in Conn : (Keeper(m) => Keeper(m)') /\ (Inside(m) => Inside(m)') /\ Inside(k)'
    BY <1>5 DEF JoinRoom, Goto
  <2>2. reg' = reg /\ \A r \in Room : clients'[r] \subseteq clients[r] \cup {k}
    BY <1>5 DEF JoinRoom
  <2>. QED
    BY <2>1, <2>2
<1>6. ASSUME NEW k \in Conn, Announce(k) PROVE RoomKept'
  <2>1. reg' = reg /\ \A r \in Room : clients'[r] \subseteq clients[r]
    BY <1>6 DEF Announce, BroadcastIn
  <2>2. \A m \in Conn : (Keeper(m) => Keeper(m)') /\ (Inside(m) => Inside(m)')
    BY <1>6, <2>1 DEF Announce, Goto
  <2>. QED
    BY <2>1, <2>2
<1>7. ASSUME NEW k \in Conn, ReplayNext(k) PROVE RoomKept'
  BY <1>7 DEF ReplayNext, Goto
<1>8. ASSUME NEW k \in Conn, ListOthers(k) PROVE RoomKept'
  <2>1. reg' \in Room /\ (reg' = reg \/ (reg = NoRoom /\ clients[reg'] = {}))
    BY <1>8, LookedUp DEF ListOthers, LookUp
  <2>2. Keeper(k)'
    BY <1>8 DEF ListOthers, Goto
  <2>3. \A m \in clients[reg'] : Inside(m)'
    BY <1>8, <2>1 DEF ListOthers, Goto
  <2>. QED
    BY <1>8, <2>2, <2>3 DEF ListOthers
<1>9. ASSUME NEW k \in Conn, SendJoined(k) PROVE RoomKept'
  BY <1>9 DEF SendJoined, Goto
<1>10. ASSUME NEW k \in Conn, ReadUpdate(k) PROVE RoomKept'
  <2>1. reg' \in Room /\ (reg' = reg \/ (reg = NoRoom /\ clients[reg'] = {}))
    BY <1>10, LookedUp DEF ReadUpdate, LookUp
  <2>2. Keeper(k)'
    BY <1>10 DEF ReadUpdate, Goto, LookUp
  <2>3. \A m \in clients[reg'] : Inside(m)'
    BY <1>10, <2>1 DEF ReadUpdate, Goto, LookUp
  <2>. QED
    BY <1>10, <2>2, <2>3 DEF ReadUpdate
<1>11. ASSUME NEW k \in Conn, Relay(k) PROVE RoomKept'
  <2>1. reg' = reg /\ \A r \in Room : clients'[r] \subseteq clients[r]
    BY <1>11 DEF Relay, BroadcastIn
  <2>2. \A m \in Conn : (Keeper(m) => Keeper(m)') /\ (Inside(m) => Inside(m)')
    BY <1>11, <2>1 DEF Relay, Goto
  <2>. QED
    BY <2>1, <2>2
<1>12. ASSUME NEW k \in Conn, LeaveLookup(k) PROVE RoomKept'
  <2>1. reg' \in Room /\ (reg' = reg \/ (reg = NoRoom /\ clients[reg'] = {}))
    BY <1>12, LookedUp DEF LeaveLookup, LookUp
  <2>2. Keeper(k)'
    BY <1>12 DEF LeaveLookup, Goto, LookUp
  <2>3. \A m \in clients[reg'] : Inside(m)'
    BY <1>12, <2>1 DEF LeaveLookup, Goto, LookUp
  <2>. QED
    BY <1>12, <2>2, <2>3 DEF LeaveLookup
<1>13. ASSUME NEW k \in Conn, LeaveRoom(k) PROVE RoomKept'
  <2>1. reg' = reg /\ \A r \in Room : clients'[r] = clients[r] \ (IF r = room[k] THEN {k} ELSE {})
    BY <1>13 DEF LeaveRoom
  <2>2. \A m \in Conn : Keeper(m) => Keeper(m)'
    BY <1>13 DEF LeaveRoom, Goto
  <2>3. \A m \in Conn \ {k} : Inside(m) => Inside(m)'
    BY <1>13 DEF LeaveRoom, Goto
  <2>4. reg # NoRoom => k \notin clients'[reg]
    BY <1>13, <2>1 DEF LeaveRoom, Goto
  <2>. QED
    BY <2>1, <2>2, <2>3, <2>4
<1>14. ASSUME NEW k \in Conn, AnnounceLeft(k) PROVE RoomKept'
  <2>1. reg' = reg /\ \A r \in Room : clients'[r] \subseteq clients[r]
    BY <1>14 DEF AnnounceLeft, BroadcastIn
  <2>2. \A m \in Conn : (Keeper(m) => Keeper(m)') /\ (Inside(m) => Inside(m)')
    BY <1>14, <2>1 DEF AnnounceLeft, Goto
  <2>. QED
    BY <2>1, <2>2
<1>15. ASSUME NEW k \in Conn, LeaveDrop(k) PROVE RoomKept'
  <2>1. \A m \in Conn \ {k} : pc'[m] = pc[m] /\ room'[m] = room[m]
    BY <1>15 DEF LeaveDrop, Goto
  <2>2. CASE reg' = NoRoom
    BY <2>2
  <2>3. CASE reg' # NoRoom
    <3>1. reg' = reg /\ clients[room[k]] # {} /\ clients' = clients
      BY <1>15, <2>3 DEF LeaveDrop, DropIfEmpty
    <3>2. \A m \in clients[reg] : m \in Conn \ {k} /\ Inside(m)'
      BY <1>15, <2>1, <2>3, <3>1 DEF LeaveDrop, Goto
    <3>3. \E m \in Conn : Keeper(m)'
      <4>1. CASE room[k] = reg
        BY <3>1, <3>2, <4>1
      <4>2. CASE room[k] # reg
        BY <1>15, <2>1, <2>3, <3>1, <4>2 DEF LeaveDrop, Goto
      <4>. QED
        BY <4>1, <4>2
    <3>. QED
      BY <3>1, <3>2, <3>3
  <2>. QED
    BY <2>2, <2>3
<1>16. ASSUME NEW k \in Conn, Release(k) PROVE RoomKept'
  BY <1>16 DEF Release, Goto
<1>17. ASSUME NEW k \in Conn, PumpWrite(k) PROVE RoomKept'
  BY <1>17 DEF PumpWrite, Goto
<1>18. ASSUME NEW k \in Conn, PumpFails(k) PROVE RoomKept'
  BY <1>18 DEF PumpFails, Goto
<1>19. ASSUME NEW k \in Conn, PeerLost(k) PROVE RoomKept'
  BY <1>19 DEF PeerLost, Goto
<1>20. ASSUME NEW u \in User, RemoveMember(u) PROVE RoomKept'
  BY <1>20 DEF RemoveMember, connVars
<1>21. ASSUME EvictLookup PROVE RoomKept'
  BY <1>21 DEF EvictLookup, connVars
<1>22. ASSUME EvictUser PROVE RoomKept'
  <2>1. UNCHANGED <<reg, pc, room>> /\ \A r \in Room : clients'[r] \subseteq clients[r]
    BY <1>22 DEF EvictUser
  <2>. QED
    BY <2>1
<1>23. ASSUME EvictDrop PROVE RoomKept'
  BY <1>23 DEF EvictDrop, DropIfEmpty, connVars
<1>24. CASE UNCHANGED vars
  BY <1>24 DEF vars, connVars
<1>. QED
  BY <1>1, <1>2, <1>3, <1>4, <1>5, <1>6, <1>7, <1>8, <1>9, <1>10, <1>11, <1>12, <1>13, <1>14, <1>15, <1>16, <1>17, <1>18, <1>19, <1>20, <1>21, <1>22, <1>23, <1>24 DEF Next, Handler, Pump, Evict

(* No room outlives its connections: when no handler is between its lookup *)
(* of the room and its return, the map has no entry (registry.go:44-51).   *)
THEOREM EmptyAtRest == Spec => []NoRoomAtRest
<1>. DEFINE Inv == TypeOK /\ SlotsPaired /\ RoomKept
<1>1. Init => Inv
  BY InitHub DEF Init, RoomKept
<1>2. Inv /\ [Next]_vars => Inv'
  BY NextHubType, NextSlots, NextRoomKept
<1>3. Inv => NoRoomAtRest
  BY DEF RoomKept, Keeper, NoRoomAtRest
<1>. QED
  BY <1>1, <1>2, <1>3, PTL DEF Spec
-----------------------------------------------------------------------------
(* Why those who are served meet in one room: until a drop races, whoever  *)
(* is in a room is in the one of the map, and whoever is about to join has *)
(* that one in hand.                                                       *)
ServedIsIn ==
  \A k \in Conn : pc[k] \in Serving /\ sock[k] # "closed" => \E r \in Room : k \in clients[r]
InTheMap ==
  ~raced => /\ \A r \in Room : clients[r] # {} => reg = r
            /\ \A k \in Conn : pc[k] = "joining" => room[k] = reg
OneRoom == ServedIsIn /\ InTheMap

(* A lookup finds the room in which everyone is.                           *)
LEMMA OneRoomLookUp ==
  ASSUME TypeOK, OneRoom, NEW k \in Conn, GetOrCreate, UNCHANGED <<clients, sock, raced>>,
         \A m \in Conn \ {k} : pc'[m] = pc[m] /\ room'[m] = room[m],
         pc'[k] = "joining" => room'[k] = reg',
         pc'[k] \in Serving => pc[k] \in Serving
  PROVE  OneRoom'
<1>1. reg' \in Room /\ (reg' = reg \/ (reg = NoRoom /\ clients[reg'] = {}))
  BY LookedUp
<1>2. ServedIsIn'
  BY DEF OneRoom, ServedIsIn
<1>3. ASSUME ~raced PROVE reg = reg' \/ (\A r \in Room : clients[r] = {})
  BY <1>1, <1>3, HubAssumption DEF OneRoom, InTheMap
<1>4. ASSUME ~raced, NEW m \in Conn, pc'[m] = "joining" PROVE room'[m] = reg'
  <2>1. CASE m = k
    BY <1>4, <2>1
  <2>2. CASE m # k
    <3>1. pc[m] = "joining" /\ room[m] = reg /\ room[m] \in Room
      BY <1>4, <2>2 DEF OneRoom, InTheMap, TypeOK, HoldsRoom
    <3>. QED
      BY <1>1, <2>2, <3>1, HubAssumption
  <2>. QED
    BY <2>1, <2>2
<1>5. ASSUME ~raced, NEW r \in Room, clients'[r] # {} PROVE reg' = r
  BY <1>3, <1>5 DEF OneRoom, InTheMap
<1>. QED
  BY <1>2, <1>4, <1>5 DEF OneRoom, InTheMap

(* A broadcast, or an eviction, closes whom it takes out.                  *)
LEMMA OneRoomTakesOut ==
  ASSUME TypeOK, OneRoom, UNCHANGED <<reg, raced>>,
         \A r \in Room : clients'[r] \subseteq clients[r],
         \A m \in Conn : pc'[m] \in Serving /\ sock'[m] # "closed" =>
           /\ pc[m] \in Serving /\ sock[m] # "closed"
           /\ \A r \in Room : m \in clients[r] => m \in clients'[r],
         \A m \in Conn : pc'[m] = "joining" => pc[m] = "joining" /\ room'[m] = room[m]
  PROVE  OneRoom'
<1>1. ServedIsIn'
  BY DEF OneRoom, ServedIsIn
<1>2. InTheMap'
  BY DEF OneRoom, InTheMap
<1>. QED
  BY <1>1, <1>2 DEF OneRoom

LEMMA BroadcastTakesOut ==
  ASSUME TypeOK, NEW r \in Room, NEW skip, BroadcastIn(r, skip)
  PROVE  /\ \A q \in Room : clients'[q] \subseteq clients[q]
         /\ \A m \in Conn : sock'[m] # "closed" =>
              sock[m] # "closed" /\ \A q \in Room : m \in clients[q] => m \in clients'[q]
BY DEF BroadcastIn, TypeOK

(* A drop that does not race finds nobody in the room of the map, and      *)
(* nobody about to join it.                                                *)
LEMMA OneRoomDrop ==
  ASSUME TypeOK, OneRoom, NEW r \in Room, DropIfEmpty(r), UNCHANGED <<clients, sock>>,
         \A m \in Conn : pc'[m] \in Serving => pc[m] \in Serving,
         \A m \in Conn : pc'[m] = "joining" => pc[m] = "joining" /\ room'[m] = room[m]
  PROVE  OneRoom'
<1>1. ServedIsIn'
  BY DEF OneRoom, ServedIsIn
<1>2. CASE clients[r] # {}
  BY <1>1, <1>2 DEF DropIfEmpty, OneRoom, InTheMap
<1>3. CASE clients[r] = {}
  <2>1. reg' = NoRoom /\ raced' = (raced \/ (reg # NoRoom /\ (reg # r \/ Wanted)))
    BY <1>3 DEF DropIfEmpty
  <2>2. ASSUME ~raced' PROVE ~raced /\ \A q \in Room : clients[q] = {}
    BY <1>3, <2>1, <2>2, HubAssumption DEF OneRoom, InTheMap
  <2>3. ASSUME ~raced', NEW m \in Conn, pc[m] = "joining" PROVE FALSE
    <3>1. room[m] = reg /\ room[m] \in Room
      BY <2>2, <2>3 DEF OneRoom, InTheMap, TypeOK, HoldsRoom
    <3>. QED
      BY <2>1, <2>3, <3>1, HubAssumption DEF Wanted
  <2>. QED
    BY <1>1, <2>2, <2>3 DEF OneRoom, InTheMap
<1>. QED
  BY <1>2, <1>3

LEMMA NextOneRoom == TypeOK /\ OneRoom /\ [Next]_vars => OneRoom'
<1> SUFFICES ASSUME TypeOK, OneRoom, [Next]_vars PROVE OneRoom'
  OBVIOUS
<1>1. ASSUME NEW k \in Conn, Authenticate(k) PROVE OneRoom'
  BY <1>1, OneRoomTakesOut DEF Authenticate, Goto, TypeOK, Serving
<1>2. ASSUME NEW k \in Conn, Acquire(k) PROVE OneRoom'
  BY <1>2, OneRoomTakesOut DEF Acquire, Goto, TypeOK, Serving
<1>3. ASSUME NEW k \in Conn, Accept(k) PROVE OneRoom'
  BY <1>3, OneRoomTakesOut DEF Accept, Goto, TypeOK, Serving
<1>4. ASSUME NEW k \in Conn, JoinLookup(k) PROVE OneRoom'
  BY <1>4, OneRoomLookUp DEF JoinLookup, Goto, LookUp, TypeOK, Serving
<1>5. ASSUME NEW k \in Conn, JoinRoom(k) PROVE OneRoom'
  <2>1. /\ room[k] \in Room /\ pc[k] = "joining" /\ UNCHANGED <<reg, room, sock, raced>>
        /\ pc' = [pc EXCEPT ![k] = "announcing"] /\ clients' = [clients EXCEPT ![room[k]] = @ \cup {k}]
    BY <1>5 DEF JoinRoom, Goto, HoldsRoom, TypeOK, Serving
  <2>2. ServedIsIn'
    <3>1. k \in clients'[room[k]]
      BY <2>1 DEF TypeOK, Serving
    <3>2. \A r \in Room : clients[r] \subseteq clients'[r]
      BY <2>1 DEF TypeOK, Serving
    <3>3. ASSUME NEW m \in Conn, m # k, pc'[m] \in Serving, sock'[m] # "closed" PROVE \E r \in Room : m \in clients'[r]
      BY <2>1, <3>2, <3>3 DEF OneRoom, ServedIsIn, TypeOK, Serving
    <3>. QED
      BY <2>1, <3>1, <3>3 DEF ServedIsIn
  <2>3. InTheMap'
    BY <2>1 DEF OneRoom, InTheMap, TypeOK, Serving
  <2>. QED
    BY <2>2, <2>3 DEF OneRoom
<1>6. ASSUME NEW k \in Conn, Announce(k) PROVE OneRoom'
  <2>1. room[k] \in Room /\ BroadcastIn(room[k], {k}) /\ UNCHANGED <<reg, raced>>
    BY <1>6 DEF Announce, Goto, HoldsRoom, TypeOK, Serving
  <2>2. \A m \in Conn : /\ pc'[m] \in Serving => pc[m] \in Serving
                        /\ pc'[m] = "joining" => pc[m] = "joining" /\ room'[m] = room[m]
    BY <1>6 DEF Announce, Goto, TypeOK, Serving
  <2>. QED
    <3>1. /\ \A r \in Room : clients'[r] \subseteq clients[r]
          /\ \A m \in Conn : sock'[m] # "closed" =>
               sock[m] # "closed" /\ \A r \in Room : m \in clients[r] => m \in clients'[r]
      BY <2>1, BroadcastTakesOut
    <3>2. \A m \in Conn : pc'[m] \in Serving /\ sock'[m] # "closed" =>
            /\ pc[m] \in Serving /\ sock[m] # "closed"
            /\ \A r \in Room : m \in clients[r] => m \in clients'[r]
      BY <2>2, <3>1
    <3>3. \A m \in Conn : pc'[m] = "joining" => pc[m] = "joining" /\ room'[m] = room[m]
      BY <2>2
    <3>. QED
      BY <2>1, <3>1, <3>2, <3>3, OneRoomTakesOut
<1>7. ASSUME NEW k \in Conn, ReplayNext(k) PROVE OneRoom'
  BY <1>7, OneRoomTakesOut DEF ReplayNext, Goto, TypeOK, Serving
<1>8. ASSUME NEW k \in Conn, ListOthers(k) PROVE OneRoom'
  BY <1>8, OneRoomLookUp DEF ListOthers, Goto, LookUp, TypeOK, Serving
<1>9. ASSUME NEW k \in Conn, SendJoined(k) PROVE OneRoom'
  BY <1>9, OneRoomTakesOut DEF SendJoined, Goto, TypeOK, Serving
<1>10. ASSUME NEW k \in Conn, ReadUpdate(k) PROVE OneRoom'
  BY <1>10, OneRoomLookUp DEF ReadUpdate, Goto, LookUp, TypeOK, Serving
<1>11. ASSUME NEW k \in Conn, Relay(k) PROVE OneRoom'
  <2>1. room[k] \in Room /\ BroadcastIn(room[k], {k}) /\ UNCHANGED <<reg, raced>>
    BY <1>11 DEF Relay, Goto, HoldsRoom, TypeOK, Serving
  <2>2. \A m \in Conn : /\ pc'[m] \in Serving => pc[m] \in Serving
                        /\ pc'[m] = "joining" => pc[m] = "joining" /\ room'[m] = room[m]
    BY <1>11 DEF Relay, Goto, TypeOK, Serving
  <2>. QED
    <3>1. /\ \A r \in Room : clients'[r] \subseteq clients[r]
          /\ \A m \in Conn : sock'[m] # "closed" =>
               sock[m] # "closed" /\ \A r \in Room : m \in clients[r] => m \in clients'[r]
      BY <2>1, BroadcastTakesOut
    <3>2. \A m \in Conn : pc'[m] \in Serving /\ sock'[m] # "closed" =>
            /\ pc[m] \in Serving /\ sock[m] # "closed"
            /\ \A r \in Room : m \in clients[r] => m \in clients'[r]
      BY <2>2, <3>1
    <3>3. \A m \in Conn : pc'[m] = "joining" => pc[m] = "joining" /\ room'[m] = room[m]
      BY <2>2
    <3>. QED
      BY <2>1, <3>1, <3>2, <3>3, OneRoomTakesOut
<1>12. ASSUME NEW k \in Conn, LeaveLookup(k) PROVE OneRoom'
  BY <1>12, OneRoomLookUp DEF LeaveLookup, Goto, LookUp, TypeOK, Serving
<1>13. ASSUME NEW k \in Conn, LeaveRoom(k) PROVE OneRoom'
  <2>1. /\ pc' = [pc EXCEPT ![k] = "left"] /\ UNCHANGED <<reg, room, sock, raced>>
        /\ \A r \in Room : clients'[r] \subseteq clients[r] /\ clients[r] \ {k} \subseteq clients'[r]
    BY <1>13 DEF LeaveRoom, Goto, TypeOK, Serving
  <2>. QED
    BY <2>1, OneRoomTakesOut DEF TypeOK, Serving
<1>14. ASSUME NEW k \in Conn, AnnounceLeft(k) PROVE OneRoom'
  <2>1. room[k] \in Room /\ BroadcastIn(room[k], {}) /\ UNCHANGED <<reg, raced>>
    BY <1>14 DEF AnnounceLeft, Goto, HoldsRoom, TypeOK, Serving
  <2>2. \A m \in Conn : /\ pc'[m] \in Serving => pc[m] \in Serving
                        /\ pc'[m] = "joining" => pc[m] = "joining" /\ room'[m] = room[m]
    BY <1>14 DEF AnnounceLeft, Goto, TypeOK, Serving
  <2>. QED
    <3>1. /\ \A r \in Room : clients'[r] \subseteq clients[r]
          /\ \A m \in Conn : sock'[m] # "closed" =>
               sock[m] # "closed" /\ \A r \in Room : m \in clients[r] => m \in clients'[r]
      BY <2>1, BroadcastTakesOut
    <3>2. \A m \in Conn : pc'[m] \in Serving /\ sock'[m] # "closed" =>
            /\ pc[m] \in Serving /\ sock[m] # "closed"
            /\ \A r \in Room : m \in clients[r] => m \in clients'[r]
      BY <2>2, <3>1
    <3>3. \A m \in Conn : pc'[m] = "joining" => pc[m] = "joining" /\ room'[m] = room[m]
      BY <2>2
    <3>. QED
      BY <2>1, <3>1, <3>2, <3>3, OneRoomTakesOut
<1>15. ASSUME NEW k \in Conn, LeaveDrop(k) PROVE OneRoom'
  <2>1. room[k] \in Room /\ DropIfEmpty(room[k]) /\ UNCHANGED <<clients, sock>>
    BY <1>15 DEF LeaveDrop, Goto, HoldsRoom, TypeOK, Serving
  <2>2. \A m \in Conn : /\ pc'[m] \in Serving => pc[m] \in Serving
                        /\ pc'[m] = "joining" => pc[m] = "joining" /\ room'[m] = room[m]
    BY <1>15 DEF LeaveDrop, Goto, TypeOK, Serving
  <2>3. \A m \in Conn : pc'[m] \in Serving => pc[m] \in Serving
    BY <2>2
  <2>4. \A m \in Conn : pc'[m] = "joining" => pc[m] = "joining" /\ room'[m] = room[m]
    BY <2>2
  <2>. QED
    BY <2>1, <2>3, <2>4, OneRoomDrop
<1>16. ASSUME NEW k \in Conn, Release(k) PROVE OneRoom'
  BY <1>16, OneRoomTakesOut DEF Release, Goto, TypeOK, Serving
<1>17. ASSUME NEW k \in Conn, PumpWrite(k) PROVE OneRoom'
  BY <1>17, OneRoomTakesOut DEF PumpWrite, Goto, TypeOK, Serving
<1>18. ASSUME NEW k \in Conn, PumpFails(k) PROVE OneRoom'
  BY <1>18, OneRoomTakesOut DEF PumpFails, Goto, TypeOK, Serving
<1>19. ASSUME NEW k \in Conn, PeerLost(k) PROVE OneRoom'
  BY <1>19, OneRoomTakesOut DEF PeerLost, Goto, TypeOK, Serving
<1>20. ASSUME NEW u \in User, RemoveMember(u) PROVE OneRoom'
  BY <1>20, OneRoomTakesOut DEF RemoveMember, connVars, TypeOK, Serving
<1>21. ASSUME EvictLookup PROVE OneRoom'
  BY <1>21, OneRoomTakesOut DEF EvictLookup, connVars, TypeOK, Serving
<1>22. ASSUME EvictUser PROVE OneRoom'
  BY <1>22, OneRoomTakesOut DEF EvictUser, TypeOK, Serving
<1>23. ASSUME EvictDrop PROVE OneRoom'
  <2>1. /\ removal.room \in Room /\ DropIfEmpty(removal.room) /\ UNCHANGED <<clients, sock, pc, room>>
    BY <1>23 DEF EvictDrop, connVars, TypeOK, Serving
  <2>. QED
    BY <2>1, OneRoomDrop
<1>24. CASE UNCHANGED vars
  BY <1>24, OneRoomTakesOut DEF vars, connVars, TypeOK, Serving
<1>. QED
  BY <1>1, <1>2, <1>3, <1>4, <1>5, <1>6, <1>7, <1>8, <1>9, <1>10, <1>11, <1>12, <1>13, <1>14, <1>15, <1>16, <1>17, <1>18, <1>19, <1>20, <1>21, <1>22, <1>23, <1>24 DEF Next, Handler, Pump, Evict, TypeOK, Serving

(* Whoever is served is in the room of the map until it is closed, if no   *)
(* drop raced with a newcomer or with a room that had replaced the         *)
(* dropper's (registry.go:44-51): then one broadcast reaches everyone.     *)
THEOREM ServedTogether == Spec => []ServedInTheRoom
<1>. DEFINE Inv == TypeOK /\ SlotsPaired /\ OneRoom
<1>1. Init => Inv
  BY InitHub DEF Init, OneRoom, ServedIsIn, InTheMap, Serving
<1>2. Inv /\ [Next]_vars => Inv'
  BY NextHubType, NextSlots, NextOneRoom
<1>3. Inv => ServedInTheRoom
  <2> SUFFICES ASSUME OneRoom, NEW k \in Conn, pc[k] \in Serving, sock[k] # "closed"
               PROVE  \E r \in Room : k \in clients[r] /\ (reg = r \/ raced)
    BY DEF ServedInTheRoom
  <2>. QED
    BY DEF OneRoom, ServedIsIn, InTheMap
<1>. QED
  BY <1>1, <1>2, <1>3, PTL DEF Spec
=============================================================================
