--------------------------- MODULE WebPage_proofs ---------------------------
(***************************************************************************)
(* Theorems about what a page shows: who is in its document (Presence) and *)
(* who invited its user (Invites), whatever order the frames come in; what *)
(* the find bar counts (FindInEditor) and what the version list says was   *)
(* typed (VersionDeltas), for every text and every log; the layers that    *)
(* float over it (Overlays), however events and fades follow; and that a   *)
(* ring of keys opens what was sealed under its epochs, and nothing else   *)
(* (DocumentCipher). The last part proves the types of them all.           *)
(***************************************************************************)
EXTENDS MCWebPage, FiniteSetTheorems, SequenceTheorems, WellFoundedInduction, TLAPS

(* Presence: sockets, handlers and mounts.                                 *)

AnyEntry == [clock : Nat, status : Status]
Word == [tab : Tab, entry : AnyEntry]
Frame == [kind : {"joined"}, users : SUBSET User]
         \cup [kind : {"member_joined", "member_left"}, user : User]
         \cup [kind : {"presence"}, tab : Tab, entry : AnyEntry]

InRoom == {"joined", "listed", "reading"}

PresenceTyped ==
  /\ mount \in [Tab -> {"loading", "open", "closed"}]
  /\ phase \in [Tab -> {"none", "connecting", "connected", "reconnect-scheduled", "destroyed"}]
  /\ ws \in [Tab -> Conn \cup {NoConn}]
  /\ online \in [Tab -> SUBSET User] /\ aware \in [Tab -> [Tab -> AnyEntry]]
  /\ owner \in [Conn -> Tab \cup {NoConn}]
  /\ handler \in [Conn -> {"none", "accepted", "left"} \cup InRoom]
  /\ members \in [Conn -> SUBSET User] /\ room \subseteq Conn /\ dead \subseteq Conn
  /\ inbox \in [Conn -> Seq(Word)] /\ outbox \in [Conn -> Seq(Frame)]
  /\ uncertain \in [Conn -> SUBSET User] /\ hears \in [Tab -> SUBSET Tab]

(* A page has a provider from its opening to its closing, and a socket     *)
(* while the provider is connecting or connected.                          *)
Mounts ==
  \A t \in Tab :
    /\ mount[t] = "loading" => phase[t] = "none"
    /\ mount[t] = "closed" => phase[t] \in {"none", "destroyed"}
    /\ phase[t] \in {"connecting", "connected"} <=> ws[t] # NoConn

(* A connection that is not dead is the one its tab uses.                  *)
Sockets ==
  /\ \A t \in Tab : ws[t] # NoConn => owner[ws[t]] = t
  /\ \A c \in Conn \ dead : owner[c] # NoConn => ws[owner[c]] = c
  /\ \A c \in Conn : c \in dead \/ owner[c] = NoConn => outbox[c] = <<>>

(* A handler works for a tab, and is in the room from joining it to leaving*)
(* it, unless it is dead and was dropped.                                  *)
Handlers ==
  /\ \A c \in Conn : owner[c] = NoConn => handler[c] = "none"
  /\ \A c \in room : handler[c] \in InRoom
  /\ \A c \in Conn \ dead : handler[c] \in InRoom => c \in room
  /\ \A c \in Conn \ dead : owner[c] # NoConn => handler[c] \notin {"none", "left"}

LinkInv == PresenceTyped /\ Mounts /\ Sockets /\ Handlers

LEMMA Link0 ==
  ASSUME LinkInv
  PROVE  /\ \A t \in Tab : ws[t] = NoConn \/ ws[t] \in Conn
         /\ \A t \in Tab : ws[t] \notin dead /\ ws[t] # NoConn => ws[t] \in Conn \ dead
BY DEF LinkInv, PresenceTyped

LEMMA LinkInvInit == PresenceInit => LinkInv
<1> SUFFICES ASSUME PresenceInit PROVE LinkInv
  OBVIOUS
<1>1. Unknown \in AnyEntry
  BY DEF Unknown, AnyEntry, Status
<1>2. PresenceTyped
  BY <1>1 DEF PresenceInit, PresenceTyped, InRoom
<1>3. Mounts
  BY DEF PresenceInit, Mounts
<1>4. Sockets
  BY DEF PresenceInit, Sockets
<1>5. Handlers
  BY DEF PresenceInit, Handlers, InRoom
<1>. QED
  BY <1>2, <1>3, <1>4, <1>5 DEF LinkInv

(* The member frames and awareness frames the server sends.                *)
LEMMA FramesTyped ==
  /\ \A u \in User : [kind |-> "member_joined", user |-> u] \in Frame
                     /\ [kind |-> "member_left", user |-> u] \in Frame
  /\ \A m \in SUBSET User : [kind |-> "joined", users |-> m] \in Frame
  /\ \A t \in Tab, e \in AnyEntry : [kind |-> "presence", tab |-> t, entry |-> e] \in Frame
                                    /\ [tab |-> t, entry |-> e] \in Word
BY DEF Frame, Word

(* A broadcast: the living are told, or die with what they had.            *)
LEMMA BroadcastDoes ==
  ASSUME LinkInv, NEW conns \in SUBSET room, NEW silent \in SUBSET Conn, NEW f \in Frame,
         Broadcast(conns, silent, f)
  PROVE  /\ outbox' \in [Conn -> Seq(Frame)] /\ dead' \subseteq Conn /\ dead \subseteq dead'
         /\ \A c \in Conn : c \in dead' \/ owner[c] = NoConn => outbox'[c] = <<>>
         /\ \A c \in Conn \ dead' :
              outbox'[c] = IF c \in conns THEN Append(outbox[c], f) ELSE outbox[c]
         /\ room' \subseteq silent \cup conns /\ silent \subseteq room'
         /\ \A c \in conns \ dead' : c \in room'
         /\ room' \subseteq Conn
<1>. DEFINE full == {c \in conns : Len(outbox[c]) = SendBuffer}
<1>1. /\ dead' = dead \cup full /\ room' = silent \cup (conns \ full)
      /\ outbox' = [c \in Conn |-> IF c \in full THEN <<>>
                                   ELSE IF c \in conns \ dead THEN Append(outbox[c], f) ELSE outbox[c]]
  BY DEF Broadcast
<1>2. /\ outbox \in [Conn -> Seq(Frame)] /\ dead \subseteq Conn /\ conns \subseteq Conn
      /\ \A c \in Conn : c \in dead \/ owner[c] = NoConn => outbox[c] = <<>>
      /\ \A c \in conns : owner[c] # NoConn
  BY DEF LinkInv, PresenceTyped, Sockets, Handlers, InRoom
<1>. HIDE DEF full
<1>3. outbox' \in [Conn -> Seq(Frame)]
  <2>1. \A c \in Conn : Append(outbox[c], f) \in Seq(Frame) /\ outbox[c] \in Seq(Frame) /\ <<>> \in Seq(Frame)
    BY <1>2, AppendProperties, EmptySeq
  <2>. QED
    BY <1>1, <2>1
<1>4. full \subseteq conns
  BY DEF full
<1>. QED
  BY <1>1, <1>2, <1>3, <1>4

(* Steps of the server in which a handler goes on, and connections die.    *)
LEMMA ServerKeepsLinks ==
  ASSUME LinkInv, UNCHANGED <<mount, phase, ws, online, aware, hears, owner>>,
         members' \in [Conn -> SUBSET User], uncertain' \in [Conn -> SUBSET User],
         room' \subseteq Conn, dead' \subseteq Conn, dead \subseteq dead',
         inbox' \in [Conn -> Seq(Word)], outbox' \in [Conn -> Seq(Frame)],
         \A c \in Conn : c \in dead' \/ owner[c] = NoConn => outbox'[c] = <<>>,
         handler' \in [Conn -> {"none", "accepted", "left"} \cup InRoom],
         Handlers'
  PROVE  LinkInv'
<1>1. PresenceTyped'
  BY DEF LinkInv, PresenceTyped
<1>2. Mounts' /\ Sockets'
  BY DEF LinkInv, Mounts, Sockets
<1>. QED
  BY <1>1, <1>2 DEF LinkInv

LEMMA PresentDoes ==
  ASSUME LinkInv, NEW t \in Tab, NEW s \in Status, Present(t, s)
  PROVE  /\ aware' \in [Tab -> [Tab -> AnyEntry]]
         /\ aware'[t][t] = [clock |-> aware[t][t].clock + 1, status |-> s]
         /\ aware'[t][t] \in AnyEntry /\ aware[t][t].clock \in Nat
         /\ \A v \in Tab : v # t => aware'[t][v] = aware[t][v]
         /\ \A v \in Tab : v # t => aware'[v] = aware[v]
<1>1. aware \in [Tab -> [Tab -> AnyEntry]] /\ aware[t][t].clock \in Nat
  BY DEF LinkInv, PresenceTyped, AnyEntry
<1>. DEFINE e == [clock |-> aware[t][t].clock + 1, status |-> s]
<1>2. e \in AnyEntry
  BY <1>1 DEF AnyEntry
<1>3. aware' = [aware EXCEPT ![t] = [aware[t] EXCEPT ![t] = e]]
  BY Zenon DEF Present
<1>. HIDE DEF e
<1>4. /\ aware' \in [Tab -> [Tab -> AnyEntry]] /\ aware'[t][t] = e
      /\ \A v \in Tab : v # t => aware'[t][v] = aware[t][v]
      /\ \A v \in Tab : v # t => aware'[v] = aware[v]
  BY <1>1, <1>2, <1>3
<1>. QED
  BY <1>1, <1>2, <1>4 DEF e

LEMMA SentTyped ==
  ASSUME LinkInv, NEW t \in Tab, ws[t] # NoConn, NEW e \in AnyEntry
  PROVE  /\ Sent(t, e) \in [Conn -> Seq(Word)]
         /\ ws[t] \notin dead => Sent(t, e)[ws[t]] = Append(inbox[ws[t]], [tab |-> t, entry |-> e])
         /\ \A c \in Conn : c # ws[t] => Sent(t, e)[c] = inbox[c]
         /\ ws[t] \in dead => Sent(t, e) = inbox
<1>1. inbox \in [Conn -> Seq(Word)] /\ ws[t] \in Conn
  BY DEF LinkInv, PresenceTyped
<1>2. [tab |-> t, entry |-> e] \in Word
  BY FramesTyped
<1>3. Append(inbox[ws[t]], [tab |-> t, entry |-> e]) \in Seq(Word)
  BY <1>1, <1>2, AppendProperties
<1>. QED
  BY <1>1, <1>3 DEF Sent

LEMMA ConnectDoes ==
  ASSUME LinkInv, NEW t \in Tab, Connect(t), ws[t] = NoConn \/ ws[t] \in dead,
         UNCHANGED <<dead, room, outbox>>
  PROVE  /\ Sockets' /\ Handlers'
         /\ owner' \in [Conn -> Tab \cup {NoConn}] /\ ws' \in [Tab -> Conn \cup {NoConn}]
         /\ handler' \in [Conn -> {"none", "accepted", "left"} \cup InRoom]
         /\ phase' = [phase EXCEPT ![t] = "connecting"]
         /\ ws'[t] \in Conn /\ owner[ws'[t]] = NoConn /\ owner'[ws'[t]] = t
         /\ handler'[ws'[t]] = "accepted"
         /\ \A v \in Tab : v # t => ws'[v] = ws[v]
         /\ \A c \in Conn : c # ws'[t] => owner'[c] = owner[c] /\ handler'[c] = handler[c]
<1>1. PICK c \in Conn : /\ owner[c] = NoConn
                        /\ owner' = [owner EXCEPT ![c] = t]
                        /\ handler' = [handler EXCEPT ![c] = "accepted"]
                        /\ ws' = [ws EXCEPT ![t] = c]
                        /\ phase' = [phase EXCEPT ![t] = "connecting"]
  BY DEF Connect
<1>2. /\ owner \in [Conn -> Tab \cup {NoConn}] /\ ws \in [Tab -> Conn \cup {NoConn}]
      /\ handler \in [Conn -> {"none", "accepted", "left"} \cup InRoom] /\ dead \subseteq Conn
      /\ room \subseteq Conn /\ NoConn \notin Conn \cup Tab
  BY PresenceAssumption DEF LinkInv, PresenceTyped
<1>3. handler[c] = "none" /\ c \notin room
  BY <1>1 DEF LinkInv, Handlers, InRoom
<1>4. Sockets'
  <2>1. ASSUME NEW v \in Tab, ws'[v] # NoConn PROVE owner'[ws'[v]] = v
    BY <1>1, <1>2, <2>1 DEF LinkInv, Sockets
  <2>2. ASSUME NEW d \in Conn \ dead, owner'[d] # NoConn PROVE ws'[owner'[d]] = d
    BY <1>1, <1>2, <2>2 DEF LinkInv, Sockets
  <2>3. ASSUME NEW d \in Conn, d \in dead \/ owner'[d] = NoConn PROVE outbox[d] = <<>>
    BY <1>1, <1>2, <2>3 DEF LinkInv, Sockets
  <2>. QED
    BY <2>1, <2>2, <2>3 DEF Sockets
<1>5. Handlers'
  BY <1>1, <1>2, <1>3 DEF LinkInv, Handlers, InRoom
<1>. QED
  BY <1>1, <1>2, <1>4, <1>5

(* Steps of a tab that leave the server as it is.                          *)
LEMMA BrowserKeepsLinks ==
  ASSUME LinkInv, UNCHANGED <<owner, handler, members, room, uncertain>>,
         mount' \in [Tab -> {"loading", "open", "closed"}],
         phase' \in [Tab -> {"none", "connecting", "connected", "reconnect-scheduled", "destroyed"}],
         ws' \in [Tab -> Conn \cup {NoConn}],
         online' \in [Tab -> SUBSET User], aware' \in [Tab -> [Tab -> AnyEntry]],
         hears' \in [Tab -> SUBSET Tab], dead' \subseteq Conn, dead \subseteq dead',
         inbox' \in [Conn -> Seq(Word)], outbox' \in [Conn -> Seq(Frame)],
         Mounts', Sockets'
  PROVE  LinkInv'
<1>1. PresenceTyped'
  BY DEF LinkInv, PresenceTyped
<1>2. Handlers'
  BY DEF LinkInv, Handlers
<1>. QED
  BY <1>1, <1>2 DEF LinkInv

LEMMA LinkConnectDocument ==
  ASSUME LinkInv, NEW t \in Tab, ConnectDocument(t) PROVE LinkInv'
<1>1. /\ mount[t] = "loading" /\ mount' = [mount EXCEPT ![t] = "open"] /\ Connect(t)
      /\ Present(t, "online") /\ online' = [online EXCEPT ![t] = {UserOf[t]}]
      /\ UNCHANGED <<members, room, uncertain, inbox, outbox, dead, hears>>
  BY DEF ConnectDocument, BuildDocProvider
<1>2. phase[t] = "none" /\ ws[t] = NoConn
  BY <1>1 DEF LinkInv, Mounts
<1>3. aware' \in [Tab -> [Tab -> AnyEntry]]
  BY <1>1, PresentDoes DEF Status
<1>4. /\ Sockets' /\ Handlers'
      /\ owner' \in [Conn -> Tab \cup {NoConn}] /\ ws' \in [Tab -> Conn \cup {NoConn}]
      /\ handler' \in [Conn -> {"none", "accepted", "left"} \cup InRoom]
      /\ phase' = [phase EXCEPT ![t] = "connecting"]
      /\ ws'[t] \in Conn /\ \A v \in Tab : v # t => ws'[v] = ws[v]
  BY <1>1, <1>2, ConnectDoes
<1>5. online' \in [Tab -> SUBSET User]
  <2>1. {UserOf[t]} \in SUBSET User /\ online \in [Tab -> SUBSET User]
    BY PresenceAssumption DEF LinkInv, PresenceTyped
  <2>. QED
    BY <1>1, <2>1
<1>6. PresenceTyped'
  BY <1>1, <1>3, <1>4, <1>5 DEF LinkInv, PresenceTyped
<1>7. Mounts'
  BY <1>1, <1>4, PresenceAssumption DEF LinkInv, PresenceTyped, Mounts
<1>. QED
  BY <1>4, <1>6, <1>7 DEF LinkInv

LEMMA LinkReconnect ==
  ASSUME LinkInv, NEW t \in Tab, Reconnect(t) PROVE LinkInv'
<1>1. /\ phase[t] = "reconnect-scheduled" \/ ws[t] \in dead
      /\ Connect(t) /\ hears' = [u \in Tab |-> IF u = t THEN {} ELSE hears[u] \ {t}]
      /\ UNCHANGED <<mount, online, aware, members, room, uncertain, inbox, outbox, dead>>
  BY DEF Reconnect
<1>2. ws[t] = NoConn \/ ws[t] \in dead
  BY <1>1 DEF LinkInv, Mounts
<1>3. phase[t] \in {"reconnect-scheduled", "connecting", "connected"}
  BY <1>1, PresenceAssumption DEF LinkInv, Mounts, PresenceTyped
<1>4. /\ Sockets' /\ Handlers'
      /\ owner' \in [Conn -> Tab \cup {NoConn}] /\ ws' \in [Tab -> Conn \cup {NoConn}]
      /\ handler' \in [Conn -> {"none", "accepted", "left"} \cup InRoom]
      /\ phase' = [phase EXCEPT ![t] = "connecting"]
      /\ ws'[t] \in Conn /\ \A v \in Tab : v # t => ws'[v] = ws[v]
  BY <1>1, <1>2, ConnectDoes
<1>5. hears' \in [Tab -> SUBSET Tab]
  BY <1>1 DEF LinkInv, PresenceTyped
<1>6. PresenceTyped'
  BY <1>1, <1>4, <1>5 DEF LinkInv, PresenceTyped
<1>7. Mounts'
  BY <1>1, <1>3, <1>4, PresenceAssumption DEF LinkInv, PresenceTyped, Mounts
<1>. QED
  BY <1>4, <1>6, <1>7 DEF LinkInv

LEMMA LinkCloseDocument ==
  ASSUME LinkInv, NEW t \in Tab, CloseDocument(t) PROVE LinkInv'
<1>. DEFINE gone == {ws[t]} \ {NoConn}
            bye == [clock |-> aware[t][t].clock + 1, status |-> "none"]
            forgot == [u \in Tab |-> IF u = t THEN bye ELSE Unknown]
<1>1. /\ mount' = [mount EXCEPT ![t] = "closed"] /\ ws' = [ws EXCEPT ![t] = NoConn]
      /\ hears' = [u \in Tab |-> IF u = t THEN {} ELSE hears[u] \ {t}]
      /\ dead' = dead \cup gone
      /\ outbox' = [c \in Conn |-> IF c \in gone THEN <<>> ELSE outbox[c]]
      /\ online' = [online EXCEPT ![t] = {}]
      /\ UNCHANGED <<owner, handler, members, room, uncertain>>
  BY DEF CloseDocument, Die, server
<1>2. /\ phase[t] = "none" => UNCHANGED <<phase, aware>>
      /\ phase[t] # "none" => /\ aware' = [aware EXCEPT ![t] = forgot]
                              /\ phase' = [phase EXCEPT ![t] = "destroyed"]
  BY DEF CloseDocument
<1>3. /\ aware \in [Tab -> [Tab -> AnyEntry]] /\ aware[t][t].clock \in Nat /\ Unknown \in AnyEntry
      /\ bye \in AnyEntry /\ gone \subseteq Conn /\ outbox \in [Conn -> Seq(Frame)]
      /\ forgot \in [Tab -> AnyEntry] /\ forgot[t] = bye
  BY DEF LinkInv, PresenceTyped, AnyEntry, Unknown, Status
<1>4. aware' \in [Tab -> [Tab -> AnyEntry]] /\ (phase[t] # "none" => aware'[t][t] \in AnyEntry)
  BY <1>2, <1>3
<1>5. inbox' \in [Conn -> Seq(Word)]
  <2>1. CASE phase[t] = "connected"
    <3>1. inbox' = Sent(t, aware'[t][t])
      BY <2>1 DEF CloseDocument
    <3>2. ws[t] # NoConn /\ aware'[t][t] \in AnyEntry
      BY <1>4, <2>1 DEF LinkInv, Mounts
    <3>. QED
      BY <3>1, <3>2, SentTyped
  <2>2. CASE phase[t] # "connected"
    BY <2>2 DEF CloseDocument, LinkInv, PresenceTyped
  <2>. QED
    BY <2>1, <2>2
<1>. HIDE DEF bye, forgot
<1>6. outbox' \in [Conn -> Seq(Frame)]
  BY <1>1, <1>3, EmptySeq
<1>7. Mounts'
  BY <1>1, <1>2 DEF LinkInv, Mounts, PresenceTyped
<1>8. Sockets'
  <2>1. ASSUME NEW v \in Tab, ws'[v] # NoConn PROVE owner[ws'[v]] = v
    BY <1>1, <2>1 DEF LinkInv, Sockets, PresenceTyped
  <2>2. ASSUME NEW d \in Conn \ dead', owner[d] # NoConn PROVE ws'[owner[d]] = d
    BY <1>1, <2>2, PresenceAssumption DEF LinkInv, Sockets, PresenceTyped
  <2>3. ASSUME NEW d \in Conn, d \in dead' \/ owner[d] = NoConn PROVE outbox'[d] = <<>>
    BY <1>1, <1>3, <2>3 DEF LinkInv, Sockets, PresenceTyped
  <2>. QED
    BY <1>1, <2>1, <2>2, <2>3 DEF Sockets
<1>9. /\ phase' \in [Tab -> {"none", "connecting", "connected", "reconnect-scheduled", "destroyed"}]
      /\ mount' \in [Tab -> {"loading", "open", "closed"}] /\ ws' \in [Tab -> Conn \cup {NoConn}]
      /\ online' \in [Tab -> SUBSET User] /\ hears' \in [Tab -> SUBSET Tab]
      /\ dead' \subseteq Conn /\ dead \subseteq dead'
  BY <1>1, <1>2, <1>3 DEF LinkInv, PresenceTyped
<1>. QED
  BY <1>1, <1>4, <1>5, <1>6, <1>7, <1>8, <1>9, BrowserKeepsLinks

LEMMA LinkHandleOpen ==
  ASSUME LinkInv, NEW t \in Tab, HandleOpen(t) PROVE LinkInv'
<1>1. /\ phase[t] = "connecting" /\ phase' = [phase EXCEPT ![t] = "connected"]
      /\ inbox' = Sent(t, aware[t][t])
      /\ hears' = [u \in Tab |-> IF u # t /\ ws[u] \in room \ dead THEN hears[u] \cup {t} ELSE hears[u]]
      /\ UNCHANGED <<mount, ws, online, aware, owner, handler, members, room, uncertain, outbox, dead>>
  BY DEF HandleOpen, server
<1>2. ws[t] # NoConn /\ aware[t][t] \in AnyEntry
  BY <1>1 DEF LinkInv, Mounts, PresenceTyped
<1>3. inbox' \in [Conn -> Seq(Word)]
  BY <1>1, <1>2, SentTyped
<1>4. hears' \in [Tab -> SUBSET Tab]
  BY <1>1 DEF LinkInv, PresenceTyped
<1>5. Mounts' /\ Sockets'
  BY <1>1 DEF LinkInv, Mounts, Sockets, PresenceTyped
<1>. QED
  BY <1>1, <1>3, <1>4, <1>5, BrowserKeepsLinks DEF LinkInv, PresenceTyped

LEMMA LinkSetStatus ==
  ASSUME LinkInv, NEW t \in Tab, SetPresenceStatus(t) PROVE LinkInv'
<1>1. /\ inbox' = IF phase[t] = "connected" THEN Sent(t, aware'[t][t]) ELSE inbox
      /\ UNCHANGED <<mount, phase, ws, online, owner, handler, members, room, uncertain, outbox, dead, hears>>
  BY DEF SetPresenceStatus, server
<1>2. PICK s \in {"online", "away"} : Present(t, s)
  BY DEF SetPresenceStatus
<1>3. aware' \in [Tab -> [Tab -> AnyEntry]] /\ aware'[t][t] \in AnyEntry
  BY <1>2, PresentDoes DEF Status
<1>4. phase[t] = "connected" => ws[t] # NoConn
  BY DEF LinkInv, Mounts
<1>5. inbox' \in [Conn -> Seq(Word)]
  BY <1>1, <1>3, <1>4, SentTyped DEF LinkInv, PresenceTyped
<1>6. Mounts' /\ Sockets'
  BY <1>1 DEF LinkInv, Mounts, Sockets
<1>. QED
  BY <1>1, <1>3, <1>5, <1>6, BrowserKeepsLinks DEF LinkInv, PresenceTyped

LEMMA LinkHandleClose ==
  ASSUME LinkInv, NEW t \in Tab, HandleClose(t) PROVE LinkInv'
<1>1. /\ ws[t] \in dead /\ phase' = [phase EXCEPT ![t] = "reconnect-scheduled"]
      /\ ws' = [ws EXCEPT ![t] = NoConn]
      /\ hears' = [u \in Tab |-> IF u = t THEN {} ELSE hears[u] \ {t}]
      /\ UNCHANGED <<mount, online, aware, owner, handler, members, room, uncertain, inbox, outbox, dead>>
  BY DEF HandleClose, server
<1>2. phase[t] \in {"connecting", "connected"}
  BY <1>1, PresenceAssumption DEF LinkInv, Mounts, PresenceTyped
<1>3. hears' \in [Tab -> SUBSET Tab]
  BY <1>1 DEF LinkInv, PresenceTyped
<1>4. Mounts'
  BY <1>1, <1>2 DEF LinkInv, Mounts, PresenceTyped
<1>5. Sockets'
  BY <1>1, PresenceAssumption DEF LinkInv, Sockets, PresenceTyped
<1>. QED
  BY <1>1, <1>3, <1>4, <1>5, BrowserKeepsLinks DEF LinkInv, PresenceTyped

LEMMA LinkExpire ==
  ASSUME LinkInv, NEW t \in Tab, ExpireAwareness(t)
  PROVE  /\ LinkInv'
         /\ \E u \in Tab \ {t}, e \in AnyEntry :
              /\ aware' = [aware EXCEPT ![t] = [aware[t] EXCEPT ![u] = e]]
              /\ e.clock = aware[t][u].clock /\ aware[t][u].clock < aware[u][u].clock
         /\ UNCHANGED <<mount, phase, ws, online, owner, server, inbox, outbox, dead, hears>>
<1>1. PICK u \in Tab \ {t} :
        /\ aware[u][u].clock > aware[t][u].clock
        /\ aware' = [aware EXCEPT ![t][u].status = "none"]
        /\ UNCHANGED <<mount, phase, ws, online, owner, server, inbox, outbox, dead, hears>>
  BY DEF ExpireAwareness
<1>. DEFINE e == [aware[t][u] EXCEPT !.status = "none"]
<1>2. aware[t][u] \in AnyEntry /\ aware[u][u] \in AnyEntry /\ aware \in [Tab -> [Tab -> AnyEntry]]
  BY DEF LinkInv, PresenceTyped
<1>3. e \in AnyEntry /\ e.clock = aware[t][u].clock
  BY <1>2 DEF AnyEntry, Status
<1>4. aware' = [aware EXCEPT ![t] = [aware[t] EXCEPT ![u] = e]]
  BY <1>1, Zenon
<1>5. aware[t][u].clock < aware[u][u].clock
  BY <1>1, <1>2 DEF AnyEntry
<1>. HIDE DEF e
<1>6. aware' \in [Tab -> [Tab -> AnyEntry]]
  BY <1>2, <1>3, <1>4
<1>7. LinkInv'
  BY <1>1, <1>6, BrowserKeepsLinks DEF LinkInv, PresenceTyped, Mounts, Sockets, server
<1>. QED
  BY <1>1, <1>3, <1>4, <1>5, <1>7

(* A frame arrives on the socket its tab uses.                             *)
LEMMA MessageIs ==
  ASSUME LinkInv, NEW c \in Conn, HandleMessage(c)
  PROVE  /\ c \notin dead /\ owner[c] \in Tab /\ ws[owner[c]] = c
         /\ Head(outbox[c]) \in Frame /\ outbox[c] \in Seq(Frame) /\ outbox[c] # <<>>
         /\ outbox' = [outbox EXCEPT ![c] = Tail(@)]
         /\ outbox' \in [Conn -> Seq(Frame)]
         /\ UNCHANGED <<mount, phase, ws, owner, server, inbox, dead, events, hears>>
<1>1. /\ outbox[c] # <<>> /\ phase[owner[c]] = "connected"
      /\ outbox' = [outbox EXCEPT ![c] = Tail(@)]
      /\ UNCHANGED <<mount, phase, ws, owner, server, inbox, dead, events, hears>>
  BY DEF HandleMessage
<1>2. /\ outbox \in [Conn -> Seq(Frame)] /\ outbox[c] \in Seq(Frame) /\ c \notin dead
      /\ owner[c] \in Tab \cup {NoConn}
  BY <1>1 DEF LinkInv, PresenceTyped, Sockets
<1>3. Head(outbox[c]) \in Frame /\ Tail(outbox[c]) \in Seq(Frame)
  BY <1>1, <1>2, HeadTailProperties
<1>4. owner[c] \in Tab
  BY <1>1, <1>2 DEF LinkInv, Sockets
<1>. QED
  BY <1>1, <1>2, <1>3, <1>4 DEF LinkInv, Sockets, PresenceTyped

(* What the frame at the head does to what the tab shows.                  *)
LEMMA MessageDoes ==
  ASSUME LinkInv, NEW c \in Conn, HandleMessage(c),
         NEW f, f = Head(outbox[c]), NEW t, t = owner[c]
  PROVE  /\ f.kind = "presence" =>
              /\ online' = online /\ f.tab \in Tab /\ f.entry \in AnyEntry
              /\ aware' = [aware EXCEPT ![t] =
                             [aware[t] EXCEPT ![f.tab] = ApplyRemoteAwareness(aware[t][f.tab], f)]]
         /\ f.kind # "presence" => aware' = aware
         /\ f.kind = "joined" => online' = [online EXCEPT ![t] = {UserOf[t]} \cup f.users]
                                 /\ f.users \subseteq User
         /\ f.kind = "member_joined" => online' = [online EXCEPT ![t] = online[t] \cup {f.user}]
                                        /\ f.user \in User
         /\ f.kind = "member_left" => online' = [online EXCEPT ![t] = online[t] \ {f.user}]
                                      /\ f.user \in User
         /\ f.kind \in {"presence", "joined", "member_joined", "member_left"}
<1>1. f \in Frame
  BY MessageIs
<1>2. f.kind \in {"presence", "joined", "member_joined", "member_left"}
  BY <1>1 DEF Frame
<1>3. CASE f.kind = "presence"
  <2>1. f.tab \in Tab /\ f.entry \in AnyEntry
    BY <1>1, <1>3 DEF Frame
  <2>2. online' = online /\ aware' = [aware EXCEPT ![t][f.tab] = ApplyRemoteAwareness(@, f)]
    BY <1>3 DEF HandleMessage
  <2>3. aware' = [aware EXCEPT ![t] =
                     [aware[t] EXCEPT ![f.tab] = ApplyRemoteAwareness(aware[t][f.tab], f)]]
    BY <2>2, Zenon
  <2>. QED
    BY <1>3, <2>1, <2>2, <2>3
<1>4. CASE f.kind = "joined"
  BY <1>1, <1>4 DEF HandleMessage, JoinedSnapshot, Frame
<1>5. CASE f.kind = "member_joined"
  BY <1>1, <1>5 DEF HandleMessage, MemberJoined, Frame
<1>6. CASE f.kind = "member_left"
  BY <1>1, <1>6 DEF HandleMessage, MemberLeft, Frame
<1>. QED
  BY <1>2, <1>3, <1>4, <1>5, <1>6

LEMMA ApplyTyped ==
  ASSUME NEW e \in AnyEntry, NEW f, f.entry \in AnyEntry
  PROVE  /\ ApplyRemoteAwareness(e, f) \in AnyEntry
         /\ ApplyRemoteAwareness(e, f) \in {e, f.entry}
         /\ f.entry.clock > e.clock => ApplyRemoteAwareness(e, f) = f.entry
         /\ ~(f.entry.clock > e.clock) => ApplyRemoteAwareness(e, f) = e
BY DEF ApplyRemoteAwareness

LEMMA LinkHandleMessage ==
  ASSUME LinkInv, NEW c \in Conn, HandleMessage(c) PROVE LinkInv'
<1>. DEFINE f == Head(outbox[c])
            t == owner[c]
<1>1. /\ c \notin dead /\ t \in Tab /\ ws[t] = c
      /\ outbox' = [outbox EXCEPT ![c] = Tail(@)] /\ outbox' \in [Conn -> Seq(Frame)]
      /\ UNCHANGED <<mount, phase, ws, owner, handler, members, room, uncertain, inbox, dead, events, hears>>
  BY MessageIs DEF server
<1>2. aware \in [Tab -> [Tab -> AnyEntry]] /\ online \in [Tab -> SUBSET User] /\ UserOf[t] \in User
  BY <1>1, PresenceAssumption DEF LinkInv, PresenceTyped
<1>. HIDE DEF f, t
<1>3. aware' \in [Tab -> [Tab -> AnyEntry]] /\ online' \in [Tab -> SUBSET User]
  <2>1. CASE f.kind = "presence"
    <3>1. /\ online' = online /\ f.tab \in Tab /\ f.entry \in AnyEntry
          /\ aware' = [aware EXCEPT ![t] =
                         [aware[t] EXCEPT ![f.tab] = ApplyRemoteAwareness(aware[t][f.tab], f)]]
      BY <2>1, MessageDoes DEF f, t
    <3>2. ApplyRemoteAwareness(aware[t][f.tab], f) \in AnyEntry
      BY <1>1, <1>2, <3>1, ApplyTyped
    <3>. QED
      BY <1>1, <1>2, <3>1, <3>2
  <2>2. CASE f.kind = "joined"
    <3>1. online' = [online EXCEPT ![t] = {UserOf[t]} \cup f.users] /\ f.users \subseteq User /\ aware' = aware
      BY <2>2, MessageDoes DEF f, t
    <3>. QED
      BY <1>1, <1>2, <3>1
  <2>3. CASE f.kind = "member_joined"
    <3>1. online' = [online EXCEPT ![t] = online[t] \cup {f.user}] /\ f.user \in User /\ aware' = aware
      BY <2>3, MessageDoes DEF f, t
    <3>. QED
      BY <1>1, <1>2, <3>1
  <2>4. CASE f.kind = "member_left"
    <3>1. online' = [online EXCEPT ![t] = online[t] \ {f.user}] /\ f.user \in User /\ aware' = aware
      BY <2>4, MessageDoes DEF f, t
    <3>. QED
      BY <1>1, <1>2, <3>1
  <2>. QED
    BY <2>1, <2>2, <2>3, <2>4, MessageDoes DEF f, t
<1>4. Mounts' /\ Sockets'
  <2>1. Mounts'
    BY <1>1 DEF LinkInv, Mounts
  <2>2. Sockets'
    BY <1>1 DEF LinkInv, Sockets, PresenceTyped, t
  <2>. QED
    BY <2>1, <2>2
<1>. QED
  BY <1>1, <1>3, <1>4, BrowserKeepsLinks DEF LinkInv, PresenceTyped

(* The server.                                                             *)
LEMMA LinkJoin ==
  ASSUME LinkInv, NEW c \in Conn, Join(c)
  PROVE  /\ LinkInv' /\ owner[c] \in Tab /\ UserOf[owner[c]] \in User /\ c \notin room
         /\ [kind |-> "member_joined", user |-> UserOf[owner[c]]] \in Frame
         /\ Broadcast(room, {c}, [kind |-> "member_joined", user |-> UserOf[owner[c]]])
<1>. DEFINE u == UserOf[owner[c]]
<1>1. /\ handler[c] = "accepted" /\ handler' = [handler EXCEPT ![c] = "joined"]
      /\ Broadcast(room, {c}, [kind |-> "member_joined", user |-> u])
      /\ uncertain' = [d \in Conn |-> IF d \in dead THEN {}
                                     ELSE IF d \in Listed THEN uncertain[d] \cup {u} ELSE uncertain[d] \ {u}]
      /\ UNCHANGED <<mount, phase, ws, online, aware, hears, owner, members, inbox>>
  BY DEF Join, page
<1>2. owner[c] \in Tab /\ c \notin room
  BY <1>1 DEF LinkInv, Handlers, PresenceTyped, InRoom
<1>3. u \in User /\ [kind |-> "member_joined", user |-> u] \in Frame
  BY <1>2, PresenceAssumption, FramesTyped
<1>. HIDE DEF u
<1>4. /\ outbox' \in [Conn -> Seq(Frame)] /\ dead' \subseteq Conn /\ dead \subseteq dead'
      /\ \A d \in Conn : d \in dead' \/ owner[d] = NoConn => outbox'[d] = <<>>
      /\ room' \subseteq {c} \cup room /\ {c} \subseteq room'
      /\ \A d \in room \ dead' : d \in room'
      /\ room' \subseteq Conn
  <2>1. room \in SUBSET room /\ {c} \in SUBSET Conn
    OBVIOUS
  <2>. QED
    BY <1>1, <1>3, <2>1, BroadcastDoes DEF Broadcast
<1>5. uncertain' \in [Conn -> SUBSET User]
  BY <1>1, <1>3 DEF LinkInv, PresenceTyped
<1>6. handler' \in [Conn -> {"none", "accepted", "left"} \cup InRoom]
  BY <1>1 DEF LinkInv, PresenceTyped, InRoom
<1>7. Handlers'
  BY <1>1, <1>2, <1>4, PresenceAssumption DEF LinkInv, Handlers, PresenceTyped, InRoom
<1>8. LinkInv'
  BY <1>1, <1>4, <1>5, <1>6, <1>7, ServerKeepsLinks DEF LinkInv, PresenceTyped
<1>. QED
  BY <1>1, <1>2, <1>3, <1>8 DEF u

LEMMA LinkReadMembers ==
  ASSUME LinkInv, NEW c \in Conn, ReadMembers(c)
  PROVE  LinkInv' /\ owner[c] \in Tab
<1>1. /\ handler[c] = "joined" /\ handler' = [handler EXCEPT ![c] = "listed"]
      /\ members' = [members EXCEPT ![c] = Users(room \ {c})]
      /\ uncertain' = [uncertain EXCEPT ![c] = {}]
      /\ UNCHANGED <<mount, phase, ws, online, aware, hears, owner, room, inbox, outbox, dead>>
  BY DEF ReadMembers, page
<1>2. \A d \in Conn : handler[d] # "none" => owner[d] \in Tab
  BY DEF LinkInv, Handlers, PresenceTyped
<1>3. Users(room \ {c}) \in SUBSET User
  <2>1. ASSUME NEW d \in room PROVE UserOf[owner[d]] \in User
    BY <1>2, PresenceAssumption DEF LinkInv, Handlers, PresenceTyped, InRoom
  <2>. QED
    BY <2>1 DEF Users
<1>4. members' \in [Conn -> SUBSET User] /\ uncertain' \in [Conn -> SUBSET User]
      /\ handler' \in [Conn -> {"none", "accepted", "left"} \cup InRoom]
  BY <1>1, <1>3 DEF LinkInv, PresenceTyped, InRoom
<1>5. Handlers'
  BY <1>1 DEF LinkInv, Handlers, PresenceTyped, InRoom
<1>. QED
  BY <1>1, <1>2, <1>4, <1>5, ServerKeepsLinks DEF LinkInv, PresenceTyped, Sockets

LEMMA LinkSendJoined ==
  ASSUME LinkInv, NEW c \in Conn, SendJoined(c)
  PROVE  LinkInv' /\ owner[c] \in Tab
<1>. DEFINE f == [kind |-> "joined", users |-> members[c]]
<1>1. /\ handler[c] = "listed" /\ handler' = [handler EXCEPT ![c] = "reading"]
      /\ members' = [members EXCEPT ![c] = {}]
      /\ outbox' = IF c \in dead THEN outbox ELSE [outbox EXCEPT ![c] = Append(outbox[c], f)]
      /\ UNCHANGED <<mount, phase, ws, online, aware, hears, owner, room, inbox, dead, uncertain>>
  BY DEF SendJoined, page
<1>2. owner[c] \in Tab /\ f \in Frame /\ outbox \in [Conn -> Seq(Frame)]
  BY <1>1, FramesTyped DEF LinkInv, Handlers, PresenceTyped
<1>. HIDE DEF f
<1>3. Append(outbox[c], f) \in Seq(Frame)
  BY <1>2, AppendProperties
<1>4. outbox' \in [Conn -> Seq(Frame)]
      /\ \A d \in Conn : d \in dead \/ owner[d] = NoConn => outbox'[d] = <<>>
  BY <1>1, <1>2, <1>3, PresenceAssumption DEF LinkInv, Sockets
<1>5. members' \in [Conn -> SUBSET User]
      /\ handler' \in [Conn -> {"none", "accepted", "left"} \cup InRoom]
  BY <1>1 DEF LinkInv, PresenceTyped, InRoom
<1>6. Handlers'
  BY <1>1 DEF LinkInv, Handlers, PresenceTyped, InRoom
<1>. QED
  BY <1>1, <1>2, <1>4, <1>5, <1>6, ServerKeepsLinks DEF LinkInv, PresenceTyped

LEMMA LinkRelay ==
  ASSUME LinkInv, NEW c \in Conn, RelayPresence(c), NEW w, w = Head(inbox[c]),
         NEW f, f = [kind |-> "presence", tab |-> w.tab, entry |-> w.entry]
  PROVE  /\ LinkInv' /\ w \in Word /\ f \in Frame
         /\ inbox[c] \in Seq(Word) /\ inbox[c] # <<>>
         /\ inbox' = [inbox EXCEPT ![c] = Tail(inbox[c])]
         /\ Broadcast(room \ {c}, room \cap {c}, f)
         /\ UNCHANGED <<page, owner, handler, members, uncertain, events>>
<1>1. /\ inbox[c] # <<>> /\ inbox' = [inbox EXCEPT ![c] = Tail(inbox[c])]
      /\ Broadcast(room \ {c}, room \cap {c}, f)
      /\ UNCHANGED <<mount, phase, ws, online, aware, hears, owner, handler, members, uncertain, events>>
  BY DEF RelayPresence, page
<1>2. inbox \in [Conn -> Seq(Word)] /\ inbox[c] \in Seq(Word) /\ w \in Word /\ Tail(inbox[c]) \in Seq(Word)
  BY <1>1, HeadTailProperties DEF LinkInv, PresenceTyped
<1>3. f \in Frame
  BY <1>2, FramesTyped DEF Word
<1>4. inbox' \in [Conn -> Seq(Word)]
  BY <1>1, <1>2
<1>5. /\ outbox' \in [Conn -> Seq(Frame)] /\ dead' \subseteq Conn /\ dead \subseteq dead'
      /\ \A d \in Conn : d \in dead' \/ owner[d] = NoConn => outbox'[d] = <<>>
      /\ room' \subseteq room /\ room \cap {c} \subseteq room'
      /\ \A d \in (room \ {c}) \ dead' : d \in room'
      /\ room' \subseteq Conn
  <2>. DEFINE conns == room \ {c}
              silent == room \cap {c}
  <2>1. conns \in SUBSET room /\ silent \in SUBSET Conn /\ Broadcast(conns, silent, f)
    BY <1>1 DEF LinkInv, PresenceTyped
  <2>. HIDE DEF conns, silent
  <2>2. /\ outbox' \in [Conn -> Seq(Frame)] /\ dead' \subseteq Conn /\ dead \subseteq dead'
        /\ \A d \in Conn : d \in dead' \/ owner[d] = NoConn => outbox'[d] = <<>>
        /\ room' \subseteq silent \cup conns /\ silent \subseteq room'
        /\ \A d \in conns \ dead' : d \in room'
        /\ room' \subseteq Conn
    BY <1>3, <2>1, BroadcastDoes DEF Broadcast
  <2>. QED
    BY <2>2 DEF conns, silent
<1>6. Handlers'
  BY <1>1, <1>5 DEF LinkInv, Handlers, PresenceTyped
<1>7. LinkInv'
  BY <1>1, <1>4, <1>5, <1>6, ServerKeepsLinks DEF LinkInv, PresenceTyped
<1>. QED
  BY <1>1, <1>2, <1>3, <1>7 DEF page

LEMMA LinkLeave ==
  ASSUME LinkInv, NEW c \in Conn, Leave(c)
  PROVE  LinkInv' /\ c \in dead
<1>1. /\ handler[c] = "reading" /\ c \in dead /\ handler' = [handler EXCEPT ![c] = "left"]
      /\ room' = room \ {c}
      /\ UNCHANGED <<mount, phase, ws, online, aware, hears, owner, members, inbox, outbox, dead, uncertain>>
  BY DEF Leave, page
<1>2. handler' \in [Conn -> {"none", "accepted", "left"} \cup InRoom]
  BY <1>1 DEF LinkInv, PresenceTyped, InRoom
<1>3. Handlers'
  BY <1>1 DEF LinkInv, Handlers, PresenceTyped, InRoom
<1>. QED
  BY <1>1, <1>2, <1>3, ServerKeepsLinks DEF LinkInv, PresenceTyped, Sockets

LEMMA LinkAnnounceLeft ==
  ASSUME LinkInv, NEW c \in Conn, AnnounceLeft(c)
  PROVE  /\ LinkInv' /\ owner[c] \in Tab /\ c \in dead /\ UserOf[owner[c]] \in User
         /\ [kind |-> "member_left", user |-> UserOf[owner[c]]] \in Frame
         /\ Broadcast(room, {}, [kind |-> "member_left", user |-> UserOf[owner[c]]])
<1>. DEFINE u == UserOf[owner[c]]
<1>1. /\ handler[c] = "left" /\ handler' = [handler EXCEPT ![c] = "none"]
      /\ Broadcast(room, {}, [kind |-> "member_left", user |-> u])
      /\ uncertain' = [d \in Conn |-> IF d \in dead THEN {}
                                     ELSE IF d \in Listed \/ u \in Users(room)
                                     THEN uncertain[d] \cup {u} ELSE uncertain[d] \ {u}]
      /\ UNCHANGED <<mount, phase, ws, online, aware, hears, owner, members, inbox>>
  BY DEF AnnounceLeft, page
<1>2. owner[c] \in Tab /\ c \in dead /\ c \notin room
  BY <1>1 DEF LinkInv, Handlers, PresenceTyped, InRoom
<1>3. u \in User /\ [kind |-> "member_left", user |-> u] \in Frame
  BY <1>2, PresenceAssumption, FramesTyped
<1>. HIDE DEF u
<1>4. /\ outbox' \in [Conn -> Seq(Frame)] /\ dead' \subseteq Conn /\ dead \subseteq dead'
      /\ \A d \in Conn : d \in dead' \/ owner[d] = NoConn => outbox'[d] = <<>>
      /\ room' \subseteq {} \cup room
      /\ \A d \in room \ dead' : d \in room'
      /\ room' \subseteq Conn
  <2>1. room \in SUBSET room /\ {} \in SUBSET Conn
    OBVIOUS
  <2>. QED
    BY <1>1, <1>3, <2>1, BroadcastDoes DEF Broadcast
<1>5. uncertain' \in [Conn -> SUBSET User]
  BY <1>1, <1>3 DEF LinkInv, PresenceTyped
<1>6. handler' \in [Conn -> {"none", "accepted", "left"} \cup InRoom]
  BY <1>1 DEF LinkInv, PresenceTyped, InRoom
<1>7. Handlers'
  BY <1>1, <1>2, <1>4 DEF LinkInv, Handlers, PresenceTyped, InRoom
<1>8. LinkInv'
  BY <1>1, <1>4, <1>5, <1>6, <1>7, ServerKeepsLinks DEF LinkInv, PresenceTyped
<1>. QED
  BY <1>1, <1>2, <1>3, <1>8 DEF u

LEMMA LinkCut ==
  ASSUME LinkInv, NEW c \in Conn, Cut(c) PROVE LinkInv'
<1>1. /\ dead' = dead \cup {c} /\ outbox' = [d \in Conn |-> IF d \in {c} THEN <<>> ELSE outbox[d]]
      /\ inbox' \in {inbox, [inbox EXCEPT ![c] = <<>>]}
      /\ UNCHANGED <<mount, phase, ws, online, aware, hears, owner, handler, members, room, uncertain>>
  BY DEF Cut, Die, page, server
<1>2. inbox' \in [Conn -> Seq(Word)] /\ outbox' \in [Conn -> Seq(Frame)]
  <2>1. inbox \in [Conn -> Seq(Word)] /\ outbox \in [Conn -> Seq(Frame)]
        /\ <<>> \in Seq(Word) /\ <<>> \in Seq(Frame)
    BY EmptySeq DEF LinkInv, PresenceTyped
  <2>. QED
    BY <1>1, <2>1
<1>3. Handlers' /\ \A d \in Conn : d \in dead' \/ owner[d] = NoConn => outbox'[d] = <<>>
  BY <1>1 DEF LinkInv, Handlers, Sockets
<1>. QED
  BY <1>1, <1>2, <1>3, ServerKeepsLinks DEF LinkInv, PresenceTyped

LEMMA LinkInvStep == LinkInv /\ [PresenceNext]_presenceVars => LinkInv'
<1> SUFFICES ASSUME LinkInv, [PresenceNext]_presenceVars PROVE LinkInv'
  OBVIOUS
<1>1. ASSUME NEW t \in Tab,
             \/ ConnectDocument(t) \/ CloseDocument(t) \/ HandleOpen(t) \/ SetPresenceStatus(t)
             \/ HandleClose(t) \/ Reconnect(t) \/ ExpireAwareness(t)
      PROVE  LinkInv'
  BY <1>1, LinkConnectDocument, LinkCloseDocument, LinkHandleOpen, LinkSetStatus, LinkHandleClose,
     LinkReconnect, LinkExpire
<1>2. ASSUME NEW c \in Conn,
             \/ HandleMessage(c) \/ Join(c) \/ ReadMembers(c) \/ SendJoined(c) \/ RelayPresence(c)
             \/ Leave(c) \/ AnnounceLeft(c) \/ Cut(c)
      PROVE  LinkInv'
  BY <1>2, LinkHandleMessage, LinkJoin, LinkReadMembers, LinkSendJoined, LinkRelay, LinkLeave,
     LinkAnnounceLeft, LinkCut
<1>3. CASE UNCHANGED presenceVars
  BY <1>3 DEF presenceVars, LinkInv, PresenceTyped, Mounts, Sockets, Handlers
<1>. QED
  BY <1>1, <1>2, <1>3 DEF PresenceNext

THEOREM PresenceLinks == PresenceSpec => []LinkInv
BY LinkInvInit, LinkInvStep, PTL DEF PresenceSpec

(* A page that was left has no provider, not even if it was left while the *)
(* identity or the seed was loading (isCancelled in useDocumentConnection).*)
THEOREM LeavesNoProvider == PresenceSpec => []NoProviderOutlivesMount
<1>1. LinkInv => NoProviderOutlivesMount
  BY DEF LinkInv, Mounts, NoProviderOutlivesMount
<1>. QED
  BY <1>1, PresenceLinks, PTL
-----------------------------------------------------------------------------
(* Presence: awareness.                                                    *)

Elems(s) == {s[k] : k \in DOMAIN s}

LEMMA ElemsOf ==
  ASSUME NEW S, NEW s \in Seq(S)
  PROVE  /\ Elems(s) \subseteq S
         /\ \A x \in S : Elems(Append(s, x)) = Elems(s) \cup {x}
         /\ s # <<>> => Elems(s) = {Head(s)} \cup Elems(Tail(s))
<1>1. DOMAIN s = 1 .. Len(s) /\ Len(s) \in Nat /\ \A k \in 1 .. Len(s) : s[k] \in S
  BY LenProperties, ElementOfSeq
<1>2. Elems(s) \subseteq S
  BY <1>1 DEF Elems
<1>3. ASSUME NEW x \in S PROVE Elems(Append(s, x)) = Elems(s) \cup {x}
  <2>. DEFINE q == Append(s, x)
  <2>1. /\ DOMAIN q = 1 .. Len(s) + 1 /\ q[Len(s) + 1] = x
        /\ \A k \in 1 .. Len(s) : q[k] = s[k]
    BY <1>1, AppendProperties, LenProperties
  <2>. HIDE DEF q
  <2>2. \A k \in 1 .. Len(s) + 1 : k \in 1 .. Len(s) \/ k = Len(s) + 1
    BY <1>1
  <2>3. \A k \in 1 .. Len(s) : k \in 1 .. Len(s) + 1
    BY <1>1
  <2>4. Len(s) + 1 \in 1 .. Len(s) + 1
    BY <1>1
  <2>5. Elems(q) = Elems(s) \cup {x}
    BY <1>1, <2>1, <2>2, <2>3, <2>4 DEF Elems
  <2>. QED
    BY <2>5 DEF q
<1>4. ASSUME s # <<>> PROVE Elems(s) = {Head(s)} \cup Elems(Tail(s))
  <2>. DEFINE q == Tail(s)
  <2>1. /\ q \in Seq(S) /\ Head(s) = s[1] /\ Len(q) = Len(s) - 1 /\ Len(s) # 0
        /\ \A k \in 1 .. Len(s) - 1 : q[k] = s[k + 1]
    BY <1>1, <1>4, HeadTailProperties, EmptySeq
  <2>2. DOMAIN q = 1 .. Len(s) - 1
    BY <2>1, LenProperties
  <2>. HIDE DEF q
  <2>3. \A k \in 1 .. Len(s) : k = 1 \/ (k - 1 \in 1 .. Len(s) - 1 /\ s[k] = q[k - 1])
    BY <1>1, <2>1
  <2>4. \A k \in 1 .. Len(s) - 1 : k + 1 \in 1 .. Len(s) /\ q[k] = s[k + 1]
    BY <1>1, <2>1
  <2>5. 1 \in 1 .. Len(s)
    BY <1>1, <2>1
  <2>6. Elems(s) \subseteq {Head(s)} \cup Elems(q)
    BY <1>1, <2>1, <2>2, <2>3 DEF Elems
  <2>7. Elems(q) \subseteq Elems(s)
    BY <1>1, <2>2, <2>4 DEF Elems
  <2>8. Head(s) \in Elems(s)
    BY <1>1, <2>1, <2>5 DEF Elems
  <2>. QED
    BY <2>6, <2>7, <2>8 DEF q
<1>. QED
  BY <1>2, <1>3, <1>4

LEMMA ElemsOfNone == Elems(<<>>) = {}
BY DEF Elems

(* What is told of a tab: its present entry, or one with an earlier clock. *)
Said(top, e) == e.clock <= top.clock /\ (e.clock = top.clock => e = top)

LEMMA SaidEarlier ==
  ASSUME NEW top \in AnyEntry, NEW later \in AnyEntry, NEW e \in AnyEntry,
         Said(top, e), later = top \/ later.clock > top.clock
  PROVE  Said(later, e)
BY DEF Said, AnyEntry

AwareTruth ==
  /\ \A u \in Tab : aware[u][u].clock = 0 => aware[u][u] = Unknown
  /\ \A t, u \in Tab : Said(aware[u][u], aware[t][u])
  /\ \A c \in Conn : \A w \in Elems(inbox[c]) :
       w.tab = owner[c] /\ Said(aware[w.tab][w.tab], w.entry)
  /\ \A c \in Conn : \A f \in Elems(outbox[c]) :
       f.kind = "presence" => Said(aware[f.tab][f.tab], f.entry)

(* A listening tab knows the present entry of one whose provider opened    *)
(* since, or that entry is on its way: from it to the server, or from there*)
(* to the listener.                                                        *)
Told(t, u) ==
  \/ aware[t][u] = aware[u][u]
  \/ \E w \in Elems(inbox[ws[u]]) : w.entry = aware[u][u]
  \/ \E f \in Elems(outbox[ws[t]]) : f.kind = "presence" /\ f.tab = u /\ f.entry = aware[u][u]

Heard ==
  \A t \in Tab : \A u \in hears[t] :
    /\ u # t /\ phase[u] = "connected" /\ ws[t] \in Conn /\ handler[ws[t]] # "accepted"
    /\ ws[t] \notin dead /\ ws[u] \notin dead => Told(t, u)

AwareInv == AwareTruth /\ Heard

LEMMA AwareInvInit == PresenceInit => AwareInv
BY ElemsOfNone DEF PresenceInit, AwareInv, AwareTruth, Heard, Said, Unknown

(* What a tab says is last on its way to the server, or lost.              *)
LEMMA SentDoes ==
  ASSUME LinkInv, NEW t \in Tab, ws[t] \in Conn, NEW e \in AnyEntry, inbox' = Sent(t, e)
  PROVE  /\ ws[t] \in dead => Elems(inbox'[ws[t]]) = Elems(inbox[ws[t]])
         /\ ws[t] \notin dead =>
              Elems(inbox'[ws[t]]) = Elems(inbox[ws[t]]) \cup {[tab |-> t, entry |-> e]}
         /\ \A c \in Conn : c # ws[t] => inbox'[c] = inbox[c]
<1>1. inbox \in [Conn -> Seq(Word)] /\ inbox[ws[t]] \in Seq(Word)
  BY DEF LinkInv, PresenceTyped
<1>2. PICK x \in Word : x = [tab |-> t, entry |-> e]
  BY FramesTyped
<1>3. Elems(Append(inbox[ws[t]], x)) = Elems(inbox[ws[t]]) \cup {x}
  BY <1>1, ElemsOf
<1>4. inbox' = IF ws[t] \in dead THEN inbox ELSE [inbox EXCEPT ![ws[t]] = Append(inbox[ws[t]], x)]
  BY <1>2 DEF Sent
<1>. QED
  BY <1>1, <1>2, <1>3, <1>4

(* Types of what is on its way.                                            *)
LEMMA OnTheWay ==
  ASSUME LinkInv
  PROVE  /\ \A c \in Conn : Elems(inbox[c]) \subseteq Word /\ Elems(outbox[c]) \subseteq Frame
         /\ \A c \in Conn : \A w \in Elems(inbox[c]) : w.tab \in Tab /\ w.entry \in AnyEntry
         /\ \A c \in Conn : \A f \in Elems(outbox[c]) :
              f.kind = "presence" => f.tab \in Tab /\ f.entry \in AnyEntry
         /\ \A t, u \in Tab : aware[t][u] \in AnyEntry
<1>1. \A c \in Conn : inbox[c] \in Seq(Word) /\ outbox[c] \in Seq(Frame)
  BY DEF LinkInv, PresenceTyped
<1>2. \A c \in Conn : Elems(inbox[c]) \subseteq Word /\ Elems(outbox[c]) \subseteq Frame
  BY <1>1, ElemsOf
<1>3. \A t, u \in Tab : aware[t][u] \in AnyEntry
  BY DEF LinkInv, PresenceTyped
<1>4. \A w \in Word : w.tab \in Tab /\ w.entry \in AnyEntry
  BY DEF Word
<1>5. \A f \in Frame : f.kind = "presence" => f.tab \in Tab /\ f.entry \in AnyEntry
  BY DEF Frame
<1>. QED
  BY <1>2, <1>3, <1>4, <1>5

LEMMA TruthStep ==
  ASSUME LinkInv, LinkInv', AwareTruth,
         \A u \in Tab : aware'[u][u] = aware[u][u] \/ aware'[u][u].clock > aware[u][u].clock,
         \A t, u \in Tab : aware'[t][u] = aware[t][u] \/ Said(aware'[u][u], aware'[t][u]),
         \A c \in Conn : \A w \in Elems(inbox'[c]) :
           \/ w \in Elems(inbox[c]) /\ owner'[c] = owner[c]
           \/ w.tab = owner'[c] /\ Said(aware'[w.tab][w.tab], w.entry),
         \A c \in Conn : \A f \in Elems(outbox'[c]) :
           f.kind = "presence" => f \in Elems(outbox[c]) \/ Said(aware'[f.tab][f.tab], f.entry)
  PROVE  AwareTruth'
<1>1. \A t, u \in Tab : aware[t][u] \in AnyEntry /\ aware'[t][u] \in AnyEntry
  BY DEF LinkInv, PresenceTyped
<1>2. ASSUME NEW u \in Tab, NEW e \in AnyEntry, Said(aware[u][u], e)
      PROVE  Said(aware'[u][u], e)
  BY <1>1, <1>2, SaidEarlier
<1>3. ASSUME NEW u \in Tab, aware'[u][u].clock = 0 PROVE aware'[u][u] = Unknown
  BY <1>1, <1>3 DEF AnyEntry, AwareTruth
<1>4. ASSUME NEW t \in Tab, NEW u \in Tab PROVE Said(aware'[u][u], aware'[t][u])
  BY <1>1, <1>2 DEF AwareTruth
<1>5. ASSUME NEW c \in Conn, NEW w \in Elems(inbox'[c])
      PROVE  w.tab = owner'[c] /\ Said(aware'[w.tab][w.tab], w.entry)
  BY <1>2, OnTheWay DEF AwareTruth
<1>6. ASSUME NEW c \in Conn, NEW f \in Elems(outbox'[c]), f.kind = "presence"
      PROVE  Said(aware'[f.tab][f.tab], f.entry)
  BY <1>2, <1>6, OnTheWay DEF AwareTruth
<1>. QED
  BY <1>3, <1>4, <1>5, <1>6 DEF AwareTruth

(* Steps that say nothing new of any tab: what is on its way between the   *)
(* living stays there.                                                     *)
Presences(s) == {f \in Elems(s) : f.kind = "presence"}

LEMMA AwareQuiet ==
  ASSUME LinkInv, LinkInv', AwareInv, UNCHANGED <<aware, ws, phase, hears, owner>>,
         dead \subseteq dead',
         \A c \in Conn : handler'[c] = "accepted" => handler[c] = "accepted",
         \A c \in Conn : Elems(inbox'[c]) \subseteq Elems(inbox[c]),
         \A c \in Conn \ dead' : inbox'[c] = inbox[c],
         \A c \in Conn : Presences(outbox'[c]) \subseteq Presences(outbox[c]),
         \A c \in Conn \ dead' : Presences(outbox[c]) \subseteq Presences(outbox'[c])
  PROVE  AwareInv'
<1>1. AwareTruth'
  BY TruthStep DEF AwareInv, Presences
<1>2. Heard'
  <2>1. ASSUME NEW t \in Tab, NEW u \in hears[t]
        PROVE  /\ u # t /\ phase[u] = "connected" /\ ws[t] \in Conn /\ handler'[ws[t]] # "accepted"
               /\ u \in Tab /\ ws[u] \in Conn
    BY Link0 DEF AwareInv, Heard, LinkInv, Mounts, PresenceTyped
  <2>2. ASSUME NEW t \in Tab, NEW u \in hears[t], ws[t] \notin dead', ws[u] \notin dead'
        PROVE  Told(t, u)'
    <3>1. Told(t, u)
      BY <2>2 DEF AwareInv, Heard
    <3>. QED
      BY <2>1, <2>2, <3>1 DEF Told, Presences
  <2>. QED
    BY <2>1, <2>2 DEF Heard
<1>. QED
  BY <1>1, <1>2 DEF AwareInv

LEMMA AppendedNotice ==
  ASSUME NEW s \in Seq(Frame), NEW f \in Frame, f.kind # "presence"
  PROVE  Presences(Append(s, f)) = Presences(s)
BY ElemsOf DEF Presences

LEMMA BroadcastNotice ==
  ASSUME LinkInv, NEW conns \in SUBSET room, NEW silent \in SUBSET Conn, NEW f \in Frame,
         f.kind # "presence", Broadcast(conns, silent, f)
  PROVE  /\ \A c \in Conn : Presences(outbox'[c]) \subseteq Presences(outbox[c])
         /\ \A c \in Conn \ dead' : Presences(outbox[c]) \subseteq Presences(outbox'[c])
         /\ dead \subseteq dead'
<1>1. /\ dead \subseteq dead' /\ \A c \in Conn : c \in dead' => outbox'[c] = <<>>
      /\ \A c \in Conn \ dead' :
           outbox'[c] = IF c \in conns THEN Append(outbox[c], f) ELSE outbox[c]
  BY BroadcastDoes
<1>2. \A c \in Conn : outbox[c] \in Seq(Frame)
  BY DEF LinkInv, PresenceTyped
<1>3. \A c \in Conn \ dead' : Presences(outbox'[c]) = Presences(outbox[c])
  BY <1>1, <1>2, AppendedNotice
<1>4. Presences(<<>>) = {}
  BY ElemsOfNone DEF Presences
<1>. QED
  BY <1>1, <1>3, <1>4

LEMMA AwareJoin ==
  ASSUME LinkInv, AwareInv, NEW c \in Conn, Join(c) PROVE AwareInv'
<1>. DEFINE f == [kind |-> "member_joined", user |-> UserOf[owner[c]]]
<1>1. /\ LinkInv' /\ f \in Frame /\ Broadcast(room, {c}, f)
      /\ handler' = [handler EXCEPT ![c] = "joined"]
      /\ UNCHANGED <<aware, ws, phase, hears, owner, inbox>>
  BY LinkJoin DEF Join, page
<1>2. f.kind # "presence"
  OBVIOUS
<1>3. room \in SUBSET room /\ {c} \in SUBSET Conn
  OBVIOUS
<1>. HIDE DEF f
<1>4. /\ \A d \in Conn : Presences(outbox'[d]) \subseteq Presences(outbox[d])
      /\ \A d \in Conn \ dead' : Presences(outbox[d]) \subseteq Presences(outbox'[d])
      /\ dead \subseteq dead'
  BY <1>1, <1>2, <1>3, BroadcastNotice DEF Broadcast
<1>5. \A d \in Conn : handler'[d] = "accepted" => handler[d] = "accepted"
  BY <1>1 DEF LinkInv, PresenceTyped
<1>. QED
  BY <1>1, <1>4, <1>5, AwareQuiet

LEMMA AwareAnnounceLeft ==
  ASSUME LinkInv, AwareInv, NEW c \in Conn, AnnounceLeft(c) PROVE AwareInv'
<1>. DEFINE f == [kind |-> "member_left", user |-> UserOf[owner[c]]]
<1>1. /\ LinkInv' /\ f \in Frame /\ Broadcast(room, {}, f)
      /\ handler' = [handler EXCEPT ![c] = "none"]
      /\ UNCHANGED <<aware, ws, phase, hears, owner, inbox>>
  BY LinkAnnounceLeft DEF AnnounceLeft, page
<1>2. f.kind # "presence"
  OBVIOUS
<1>3. room \in SUBSET room /\ {} \in SUBSET Conn
  OBVIOUS
<1>. HIDE DEF f
<1>4. /\ \A d \in Conn : Presences(outbox'[d]) \subseteq Presences(outbox[d])
      /\ \A d \in Conn \ dead' : Presences(outbox[d]) \subseteq Presences(outbox'[d])
      /\ dead \subseteq dead'
  BY <1>1, <1>2, <1>3, BroadcastNotice DEF Broadcast
<1>5. \A d \in Conn : handler'[d] = "accepted" => handler[d] = "accepted"
  BY <1>1 DEF LinkInv, PresenceTyped
<1>. QED
  BY <1>1, <1>4, <1>5, AwareQuiet

LEMMA AwareServerQuiet ==
  ASSUME LinkInv, AwareInv, NEW c \in Conn, ReadMembers(c) \/ SendJoined(c) \/ Leave(c) \/ Cut(c)
  PROVE  AwareInv'
<1>1. LinkInv'
  BY LinkReadMembers, LinkSendJoined, LinkLeave, LinkCut
<1>2. Presences(<<>>) = {}
  BY ElemsOfNone DEF Presences
<1>3. CASE ReadMembers(c)
  BY <1>1, <1>3, AwareQuiet DEF ReadMembers, page, LinkInv, PresenceTyped
<1>4. CASE SendJoined(c)
  <2>. DEFINE f == [kind |-> "joined", users |-> members[c]]
  <2>1. f \in Frame /\ f.kind # "presence" /\ outbox \in [Conn -> Seq(Frame)]
    BY FramesTyped DEF LinkInv, PresenceTyped
  <2>2. /\ outbox' = IF c \in dead THEN outbox ELSE [outbox EXCEPT ![c] = Append(outbox[c], f)]
        /\ handler' = [handler EXCEPT ![c] = "reading"]
        /\ UNCHANGED <<aware, ws, phase, hears, owner, inbox, dead>>
    BY <1>4 DEF SendJoined, page
  <2>. HIDE DEF f
  <2>3. \A d \in Conn : Presences(outbox'[d]) = Presences(outbox[d])
    BY <2>1, <2>2, AppendedNotice
  <2>4. \A d \in Conn : handler'[d] = "accepted" => handler[d] = "accepted"
    BY <2>2 DEF LinkInv, PresenceTyped
  <2>. QED
    BY <1>1, <2>2, <2>3, <2>4, AwareQuiet
<1>5. CASE Leave(c)
  BY <1>1, <1>5, AwareQuiet DEF Leave, page, LinkInv, PresenceTyped
<1>6. CASE Cut(c)
  <2>1. /\ dead' = dead \cup {c} /\ outbox' = [d \in Conn |-> IF d \in {c} THEN <<>> ELSE outbox[d]]
        /\ inbox' \in {inbox, [inbox EXCEPT ![c] = <<>>]}
        /\ UNCHANGED <<aware, ws, phase, hears, owner, handler>>
    BY <1>6 DEF Cut, Die, page, server
  <2>2. \A d \in Conn : Elems(inbox'[d]) \subseteq Elems(inbox[d]) /\ (d # c => inbox'[d] = inbox[d])
    BY <2>1, ElemsOfNone DEF LinkInv, PresenceTyped
  <2>. QED
    BY <1>1, <1>2, <2>1, <2>2, AwareQuiet
<1>. QED
  BY <1>3, <1>4, <1>5, <1>6

(* A word is passed on to all who listen, or they die.                     *)
LEMMA AwareRelay ==
  ASSUME LinkInv, AwareInv, NEW c \in Conn, RelayPresence(c) PROVE AwareInv'
<1>. DEFINE w == Head(inbox[c])
            f == [kind |-> "presence", tab |-> w.tab, entry |-> w.entry]
            conns == room \ {c}
            silent == room \cap {c}
<1>1. /\ LinkInv' /\ w \in Word /\ f \in Frame /\ inbox[c] \in Seq(Word) /\ inbox[c] # <<>>
      /\ inbox' = [inbox EXCEPT ![c] = Tail(inbox[c])]
      /\ Broadcast(conns, silent, f)
      /\ UNCHANGED <<page, owner, handler, members, uncertain, events>>
  BY LinkRelay
<1>2. f.kind = "presence" /\ f.tab = w.tab /\ f.entry = w.entry
  OBVIOUS
<1>3. /\ conns \in SUBSET room /\ silent \in SUBSET Conn
      /\ \A d \in room : d # c => d \in conns
  OBVIOUS
<1>4. Elems(inbox[c]) = {w} \cup Elems(Tail(inbox[c]))
  BY <1>1, ElemsOf
<1>. HIDE DEF w, f, conns, silent
<1>5. /\ dead \subseteq dead' /\ \A d \in Conn : d \in dead' => outbox'[d] = <<>>
      /\ \A d \in Conn \ dead' :
           outbox'[d] = IF d \in conns THEN Append(outbox[d], f) ELSE outbox[d]
  BY <1>1, <1>3, BroadcastDoes DEF Broadcast
<1>6. inbox \in [Conn -> Seq(Word)] /\ \A d \in Conn : outbox[d] \in Seq(Frame)
  BY DEF LinkInv, PresenceTyped
<1>7. \A d \in Conn : d # c => inbox'[d] = inbox[d]
  BY <1>1, <1>6
<1>8. /\ \A d \in Conn : Elems(outbox'[d]) \subseteq Elems(outbox[d]) \cup {f}
      /\ \A d \in Conn \ dead' : Elems(outbox[d]) \subseteq Elems(outbox'[d])
      /\ \A d \in conns \ dead' : d \in Conn => f \in Elems(outbox'[d])
  <2>1. ASSUME NEW d \in Conn \ dead'
        PROVE  Elems(outbox'[d]) = IF d \in conns THEN Elems(outbox[d]) \cup {f} ELSE Elems(outbox[d])
    <3>1. outbox[d] \in Seq(Frame) /\ f \in Frame
      BY <1>1, <1>6
    <3>2. Elems(Append(outbox[d], f)) = Elems(outbox[d]) \cup {f}
      BY <3>1, ElemsOf
    <3>. QED
      BY <1>5, <3>2
  <2>2. ASSUME NEW d \in Conn, d \in dead' PROVE Elems(outbox'[d]) = {}
    BY <1>5, <2>2, ElemsOfNone
  <2>. QED
    BY <2>1, <2>2
<1>9. w.tab = owner[c] /\ Said(aware[w.tab][w.tab], w.entry)
  BY <1>4 DEF AwareInv, AwareTruth
<1>10. Elems(inbox'[c]) \subseteq Elems(inbox[c])
  BY <1>1, <1>4, <1>6
<1>11. AwareTruth'
  BY <1>1, <1>2, <1>7, <1>8, <1>9, <1>10, TruthStep DEF AwareInv, page
<1>12. Heard'
  <2>1. ASSUME NEW t \in Tab, NEW u \in hears[t]
        PROVE  /\ u # t /\ phase[u] = "connected" /\ ws[t] \in Conn /\ handler[ws[t]] # "accepted"
               /\ u \in Tab /\ ws[u] \in Conn /\ owner[ws[u]] = u /\ owner[ws[t]] = t
    BY Link0, PresenceAssumption DEF AwareInv, Heard, LinkInv, Mounts, PresenceTyped, Sockets
  <2>2. ASSUME NEW t \in Tab, NEW u \in hears[t], ws[t] \notin dead', ws[u] \notin dead'
        PROVE  Told(t, u)'
    <3>1. Told(t, u) /\ ws[t] \in Conn \ dead' /\ ws[u] \in Conn \ dead' /\ ws[t] \notin dead
      BY <1>5, <2>1, <2>2 DEF AwareInv, Heard
    <3>2. CASE aware[t][u] = aware[u][u]
      BY <1>1, <3>2 DEF Told, page
    <3>3. CASE \E g \in Elems(outbox[ws[t]]) : g.kind = "presence" /\ g.tab = u /\ g.entry = aware[u][u]
      BY <1>1, <1>8, <3>1, <3>3 DEF Told, page
    <3>4. ASSUME NEW x \in Elems(inbox[ws[u]]), x.entry = aware[u][u], ws[u] # c \/ x # w
          PROVE  Told(t, u)'
      <4>1. x \in Elems(inbox'[ws[u]])
        BY <1>1, <1>4, <1>6, <1>7, <3>1, <3>4
      <4>. QED
        BY <1>1, <3>4, <4>1 DEF Told, page
    <3>5. ASSUME ws[u] = c, w.entry = aware[u][u] PROVE Told(t, u)'
      <4>1. ws[t] \in room
        <5>1. /\ ws[t] \in Conn \ dead /\ owner[ws[t]] = t /\ t # NoConn
              /\ handler[ws[t]] # "accepted"
          BY <2>1, <3>1, PresenceAssumption
        <5>. QED
          BY <5>1 DEF LinkInv, Handlers, PresenceTyped
      <4>2. ws[t] # c /\ w.tab = u
        BY <1>9, <2>1, <3>5
      <4>3. f \in Elems(outbox'[ws[t]])
        <5>1. ws[t] \in conns
          BY <1>3, <4>1, <4>2
        <5>. QED
          BY <1>8, <3>1, <5>1
      <4>. QED
        BY <1>1, <1>2, <3>5, <4>2, <4>3 DEF Told, page
    <3>. QED
      BY <3>1, <3>2, <3>3, <3>4, <3>5 DEF Told
  <2>. QED
    BY <1>1, <2>1, <2>2 DEF Heard, page
<1>. QED
  BY <1>11, <1>12 DEF AwareInv

(* Steps of a tab t that keep what others know, and after which a tab that *)
(* still hears another is as it was.                                       *)
LEMMA HearersStay ==
  ASSUME LinkInv, AwareInv, NEW t \in Tab,
         NEW v \in Tab, NEW u \in hears[v], v # t, u # t
  PROVE  /\ u \in Tab /\ ws[v] \in Conn /\ ws[u] \in Conn /\ ws[u] # ws[t] /\ ws[v] # ws[t]
         /\ owner[ws[v]] = v /\ owner[ws[u]] = u /\ u # v
         /\ phase[u] = "connected" /\ handler[ws[v]] # "accepted"
         /\ ws[v] \notin dead /\ ws[u] \notin dead => Told(v, u)
<1>1. u \in Tab /\ phase[u] = "connected" /\ ws[v] \in Conn /\ handler[ws[v]] # "accepted" /\ u # v
      /\ (ws[v] \notin dead /\ ws[u] \notin dead => Told(v, u))
  BY DEF AwareInv, Heard, LinkInv, PresenceTyped
<1>2. ws[u] \in Conn
  BY <1>1, Link0 DEF LinkInv, Mounts
<1>3. owner[ws[v]] = v /\ owner[ws[u]] = u /\ (ws[t] # NoConn => owner[ws[t]] = t)
  BY <1>1, <1>2, PresenceAssumption DEF LinkInv, Sockets
<1>4. ws[u] # ws[t] /\ ws[v] # ws[t]
  BY <1>1, <1>2, <1>3, PresenceAssumption
<1>. QED
  BY <1>1, <1>2, <1>3, <1>4

LEMMA AwareConnects ==
  ASSUME LinkInv, LinkInv', AwareInv, NEW t \in Tab, Connect(t), ws[t] = NoConn \/ ws[t] \in dead,
         UNCHANGED <<dead, room, inbox, outbox>>,
         \A v, u \in Tab : aware'[v][u] = aware[v][u] \/ (v = t /\ u = t),
         aware'[t][t] = aware[t][t] \/ aware'[t][t].clock > aware[t][t].clock,
         \A v \in Tab : \A u \in hears'[v] : u \in hears[v] /\ u # t /\ v # t
  PROVE  AwareInv'
<1>. DEFINE c == ws'[t]
<1>1. /\ phase' = [phase EXCEPT ![t] = "connecting"]
      /\ c \in Conn /\ owner[c] = NoConn
      /\ \A v \in Tab : v # t => ws'[v] = ws[v]
      /\ \A d \in Conn : d # c => owner'[d] = owner[d] /\ handler'[d] = handler[d]
  BY ConnectDoes
<1>. HIDE DEF c
<1>2. AwareTruth'
  <2>1. \A u \in Tab : aware'[u][u] = aware[u][u] \/ aware'[u][u].clock > aware[u][u].clock
    OBVIOUS
  <2>2. \A v, u \in Tab : aware'[v][u] = aware[v][u] \/ Said(aware'[u][u], aware'[v][u])
    <3>1. aware'[t][t] \in AnyEntry
      BY DEF LinkInv, PresenceTyped
    <3>2. Said(aware'[t][t], aware'[t][t])
      BY <3>1 DEF Said, AnyEntry
    <3>. QED
      BY <3>2
  <2>3. ASSUME NEW d \in Conn, NEW w \in Elems(inbox'[d]) PROVE w \in Elems(inbox[d]) /\ owner'[d] = owner[d]
    <3>1. w \in Elems(inbox[d]) /\ w.tab = owner[d] /\ w.tab \in Tab
      BY OnTheWay DEF AwareInv, AwareTruth
    <3>. QED
      BY <1>1, <3>1, PresenceAssumption
  <2>. QED
    BY <2>1, <2>2, <2>3, TruthStep DEF AwareInv
<1>3. ASSUME NEW v \in Tab, NEW u \in hears'[v]
      PROVE  /\ u # v /\ phase'[u] = "connected" /\ ws'[v] \in Conn /\ handler'[ws'[v]] # "accepted"
             /\ ws'[v] \notin dead' /\ ws'[u] \notin dead' => Told(v, u)'
  <2>1. u \in hears[v] /\ u # t /\ v # t
    OBVIOUS
  <2>2. /\ u \in Tab /\ ws[v] \in Conn /\ ws[u] \in Conn /\ owner[ws[v]] = v /\ u # v
        /\ phase[u] = "connected" /\ handler[ws[v]] # "accepted"
        /\ ws[v] \notin dead /\ ws[u] \notin dead => Told(v, u)
    BY <2>1, HearersStay
  <2>3. ws[v] # c
    BY <1>1, <2>2, PresenceAssumption
  <2>4. /\ aware'[v][u] = aware[v][u] /\ aware'[u][u] = aware[u][u] /\ ws'[v] = ws[v] /\ ws'[u] = ws[u]
        /\ phase'[u] = phase[u] /\ handler'[ws[v]] = handler[ws[v]]
    BY <1>1, <2>1, <2>2, <2>3 DEF LinkInv, PresenceTyped
  <2>. QED
    BY <2>2, <2>4 DEF Told
<1>. QED
  BY <1>2, <1>3 DEF AwareInv, Heard

LEMMA AwareConnectDocument ==
  ASSUME LinkInv, AwareInv, NEW t \in Tab, ConnectDocument(t) PROVE AwareInv'
<1>1. /\ mount[t] = "loading" /\ Connect(t) /\ Present(t, "online")
      /\ UNCHANGED <<members, room, uncertain, inbox, outbox, dead, hears>>
  BY DEF ConnectDocument, BuildDocProvider
<1>2. phase[t] = "none" /\ ws[t] = NoConn
  BY <1>1 DEF LinkInv, Mounts
<1>3. /\ aware'[t][t] = [clock |-> aware[t][t].clock + 1, status |-> "online"]
      /\ aware[t][t].clock \in Nat
      /\ \A v \in Tab : v # t => aware'[t][v] = aware[t][v]
      /\ \A v \in Tab : v # t => aware'[v] = aware[v]
  BY <1>1, PresentDoes DEF Status
<1>4. aware'[t][t].clock > aware[t][t].clock
  BY <1>3
<1>5. \A v \in Tab : \A u \in hears[v] : u # t /\ v # t
  BY <1>2, PresenceAssumption DEF AwareInv, Heard
<1>. QED
  BY <1>1, <1>2, <1>3, <1>4, <1>5, LinkConnectDocument, AwareConnects

LEMMA AwareReconnect ==
  ASSUME LinkInv, AwareInv, NEW t \in Tab, Reconnect(t) PROVE AwareInv'
<1>1. /\ phase[t] = "reconnect-scheduled" \/ ws[t] \in dead
      /\ Connect(t) /\ hears' = [u \in Tab |-> IF u = t THEN {} ELSE hears[u] \ {t}]
      /\ UNCHANGED <<mount, online, aware, members, room, uncertain, inbox, outbox, dead>>
  BY DEF Reconnect
<1>2. ws[t] = NoConn \/ ws[t] \in dead
  BY <1>1 DEF LinkInv, Mounts
<1>. QED
  BY <1>1, <1>2, LinkReconnect, AwareConnects

(* A tab that goes: its page closes, or it learns that its socket is dead. *)
LEMMA AwareGoes ==
  ASSUME LinkInv, LinkInv', AwareInv, NEW t \in Tab, dead \subseteq dead',
         UNCHANGED <<owner, handler>>,
         \A v \in Tab : v # t => aware'[v] = aware[v] /\ ws'[v] = ws[v] /\ phase'[v] = phase[v],
         aware'[t][t] = aware[t][t] \/ aware'[t][t].clock > aware[t][t].clock,
         \A u \in Tab : u # t => aware'[t][u] = aware[t][u] \/ aware'[t][u] = Unknown,
         \A c \in Conn : c # ws[t] => inbox'[c] = inbox[c] /\ outbox'[c] = outbox[c],
         \A c \in Conn : c = ws[t] => Elems(outbox'[c]) \subseteq Elems(outbox[c]),
         \A c \in Conn : c = ws[t] =>
           \A w \in Elems(inbox'[c]) : w \in Elems(inbox[c]) \/ (w.tab = t /\ w.entry = aware'[t][t]),
         hears' = [u \in Tab |-> IF u = t THEN {} ELSE hears[u] \ {t}]
  PROVE  AwareInv'
<1>1. AwareTruth'
  <2>1. \A u \in Tab : aware'[u][u] = aware[u][u] \/ aware'[u][u].clock > aware[u][u].clock
    OBVIOUS
  <2>2. \A v, u \in Tab : aware'[v][u] \in AnyEntry /\ aware[v][u] \in AnyEntry
    BY DEF LinkInv, PresenceTyped
  <2>3. \A u \in Tab : Said(aware'[u][u], aware'[u][u])
    BY <2>2 DEF Said, AnyEntry
  <2>4. \A u \in Tab : Said(aware[u][u], Unknown)
    BY <2>2 DEF Said, AnyEntry, Unknown, AwareInv, AwareTruth
  <2>5. \A v, u \in Tab : aware'[v][u] = aware[v][u] \/ Said(aware'[u][u], aware'[v][u])
    BY <2>3, <2>4
  <2>6. ASSUME NEW d \in Conn, NEW w \in Elems(inbox'[d])
        PROVE  \/ w \in Elems(inbox[d]) /\ owner'[d] = owner[d]
               \/ w.tab = owner'[d] /\ Said(aware'[w.tab][w.tab], w.entry)
    <3>1. d = ws[t] => owner[d] = t
      BY PresenceAssumption DEF LinkInv, Sockets
    <3>. QED
      BY <2>3, <3>1
  <2>7. \A c \in Conn : \A f \in Elems(outbox'[c]) : f \in Elems(outbox[c])
    OBVIOUS
  <2>. QED
    BY <2>1, <2>5, <2>6, <2>7, TruthStep DEF AwareInv
<1>2. ASSUME NEW v \in Tab, NEW u \in hears'[v]
      PROVE  /\ u # v /\ phase'[u] = "connected" /\ ws'[v] \in Conn /\ handler'[ws'[v]] # "accepted"
             /\ ws'[v] \notin dead' /\ ws'[u] \notin dead' => Told(v, u)'
  <2>1. u \in hears[v] /\ u # t /\ v # t
    OBVIOUS
  <2>2. /\ u \in Tab /\ ws[v] \in Conn /\ ws[u] \in Conn /\ u # v
        /\ ws[u] # ws[t] /\ ws[v] # ws[t]
        /\ phase[u] = "connected" /\ handler[ws[v]] # "accepted"
        /\ ws[v] \notin dead /\ ws[u] \notin dead => Told(v, u)
    BY <2>1, HearersStay
  <2>3. /\ aware'[v][u] = aware[v][u] /\ aware'[u][u] = aware[u][u] /\ ws'[v] = ws[v] /\ ws'[u] = ws[u]
        /\ phase'[u] = phase[u] /\ inbox'[ws[u]] = inbox[ws[u]] /\ outbox'[ws[v]] = outbox[ws[v]]
    BY <2>1, <2>2
  <2>. QED
    BY <2>2, <2>3 DEF Told
<1>. QED
  BY <1>1, <1>2 DEF AwareInv, Heard

LEMMA AwareHandleClose ==
  ASSUME LinkInv, AwareInv, NEW t \in Tab, HandleClose(t) PROVE AwareInv'
<1>1. /\ phase' = [phase EXCEPT ![t] = "reconnect-scheduled"] /\ ws' = [ws EXCEPT ![t] = NoConn]
      /\ hears' = [u \in Tab |-> IF u = t THEN {} ELSE hears[u] \ {t}]
      /\ UNCHANGED <<aware, owner, handler, inbox, outbox, dead>>
  BY DEF HandleClose, server
<1>2. \A v \in Tab : v # t => ws'[v] = ws[v] /\ phase'[v] = phase[v]
  BY <1>1 DEF LinkInv, PresenceTyped
<1>. QED
  BY <1>1, <1>2, LinkHandleClose, AwareGoes

LEMMA AwareCloseDocument ==
  ASSUME LinkInv, AwareInv, NEW t \in Tab, CloseDocument(t) PROVE AwareInv'
<1>. DEFINE gone == {ws[t]} \ {NoConn}
            bye == [clock |-> aware[t][t].clock + 1, status |-> "none"]
            forgot == [u \in Tab |-> IF u = t THEN bye ELSE Unknown]
<1>1. /\ ws' = [ws EXCEPT ![t] = NoConn]
      /\ hears' = [u \in Tab |-> IF u = t THEN {} ELSE hears[u] \ {t}]
      /\ dead' = dead \cup gone
      /\ outbox' = [c \in Conn |-> IF c \in gone THEN <<>> ELSE outbox[c]]
      /\ UNCHANGED <<owner, handler>>
  BY DEF CloseDocument, Die, server
<1>2. /\ phase[t] = "none" => UNCHANGED <<phase, aware>>
      /\ phase[t] # "none" => /\ aware' = [aware EXCEPT ![t] = forgot]
                              /\ phase' = [phase EXCEPT ![t] = "destroyed"]
      /\ inbox' = IF phase[t] = "connected" THEN Sent(t, aware'[t][t]) ELSE inbox
  BY DEF CloseDocument
<1>3. /\ aware \in [Tab -> [Tab -> AnyEntry]] /\ aware[t][t].clock \in Nat
      /\ forgot[t] = bye /\ \A u \in Tab : u # t => forgot[u] = Unknown
      /\ bye.clock > aware[t][t].clock
  BY DEF LinkInv, PresenceTyped, AnyEntry
<1>. HIDE DEF bye, forgot
<1>4. /\ \A v \in Tab : v # t => aware'[v] = aware[v] /\ ws'[v] = ws[v] /\ phase'[v] = phase[v]
      /\ aware'[t][t] = aware[t][t] \/ aware'[t][t].clock > aware[t][t].clock
      /\ \A u \in Tab : u # t => aware'[t][u] = aware[t][u] \/ aware'[t][u] = Unknown
  BY <1>1, <1>2, <1>3 DEF LinkInv, PresenceTyped
<1>5. /\ \A c \in Conn : c # ws[t] => outbox'[c] = outbox[c]
      /\ \A c \in Conn : c = ws[t] => Elems(outbox'[c]) \subseteq Elems(outbox[c])
  BY <1>1, ElemsOfNone, PresenceAssumption
<1>6. /\ \A c \in Conn : c # ws[t] => inbox'[c] = inbox[c]
      /\ \A c \in Conn : c = ws[t] =>
           \A w \in Elems(inbox'[c]) : w \in Elems(inbox[c]) \/ (w.tab = t /\ w.entry = aware'[t][t])
  <2>1. CASE phase[t] # "connected"
    BY <1>2, <2>1
  <2>2. CASE phase[t] = "connected"
    <3>1. ws[t] \in Conn /\ inbox[ws[t]] \in Seq(Word)
      BY <2>2, Link0 DEF LinkInv, Mounts, PresenceTyped
    <3>2. aware'[t][t] \in AnyEntry
      BY LinkCloseDocument DEF LinkInv, PresenceTyped
    <3>3. PICK e \in AnyEntry : e = aware'[t][t]
      BY <3>2
    <3>4. [tab |-> t, entry |-> e] \in Word
      BY FramesTyped
    <3>5. inbox' = Sent(t, e)
      BY <1>2, <2>2, <3>3
    <3>6. /\ ws[t] \in dead => Elems(inbox'[ws[t]]) = Elems(inbox[ws[t]])
          /\ ws[t] \notin dead =>
               Elems(inbox'[ws[t]]) = Elems(inbox[ws[t]]) \cup {[tab |-> t, entry |-> e]}
          /\ \A c \in Conn : c # ws[t] => inbox'[c] = inbox[c]
      BY <3>1, <3>5, SentDoes
    <3>. QED
      BY <3>1, <3>3, <3>6
  <2>. QED
    BY <2>1, <2>2
<1>. QED
  BY <1>1, <1>4, <1>5, <1>6, LinkCloseDocument, AwareGoes

(* A tab that sets its own entry, or forgets another.                      *)
LEMMA TruthSelf ==
  ASSUME LinkInv, LinkInv', AwareInv, NEW t \in Tab, UNCHANGED <<owner, inbox, outbox>>,
         aware'[t][t].clock > aware[t][t].clock,
         \A v, u \in Tab : aware'[v][u] = aware[v][u] \/ (v = t /\ u = t)
  PROVE  AwareTruth'
<1>1. aware'[t][t] \in AnyEntry
  BY DEF LinkInv, PresenceTyped
<1>2. Said(aware'[t][t], aware'[t][t])
  BY <1>1 DEF Said, AnyEntry
<1>3. \A v, u \in Tab : aware'[v][u] = aware[v][u] \/ Said(aware'[u][u], aware'[v][u])
  BY <1>2
<1>. QED
  BY <1>3, TruthStep DEF AwareInv

(* A tab tells the others of itself, on the socket it has open.            *)
LEMMA AwareTells ==
  ASSUME LinkInv, LinkInv', AwareInv, NEW t \in Tab, ws[t] \in Conn,
         UNCHANGED <<ws, owner, handler, room, dead, outbox>>,
         inbox' = Sent(t, aware'[t][t]),
         phase'[t] = "connected", \A v \in Tab : v # t => phase'[v] = phase[v],
         aware'[t][t] = aware[t][t] \/ aware'[t][t].clock > aware[t][t].clock,
         \A v, u \in Tab : aware'[v][u] = aware[v][u] \/ (v = t /\ u = t),
         \A v \in Tab : hears'[v] \subseteq hears[v] \/
                          (v # t /\ ws[v] \in room \ dead /\ hears'[v] \subseteq hears[v] \cup {t})
  PROVE  AwareInv'
<1>1. PICK e \in AnyEntry : e = aware'[t][t]
  BY DEF LinkInv, PresenceTyped
<1>2. /\ ws[t] \in dead => Elems(inbox'[ws[t]]) = Elems(inbox[ws[t]])
      /\ ws[t] \notin dead =>
           Elems(inbox'[ws[t]]) = Elems(inbox[ws[t]]) \cup {[tab |-> t, entry |-> e]}
      /\ \A c \in Conn : c # ws[t] => inbox'[c] = inbox[c]
  <2>1. inbox' = Sent(t, e)
    BY <1>1
  <2>. QED
    BY <2>1, SentDoes
<1>3. Said(aware'[t][t], aware'[t][t]) /\ owner[ws[t]] = t
  BY <1>1, PresenceAssumption DEF Said, AnyEntry, LinkInv, Sockets
<1>4. AwareTruth'
  <2>1. ASSUME NEW d \in Conn, NEW w \in Elems(inbox'[d])
        PROVE  \/ w \in Elems(inbox[d]) /\ owner'[d] = owner[d]
               \/ w.tab = owner'[d] /\ Said(aware'[w.tab][w.tab], w.entry)
    <3>1. w \in Elems(inbox[d]) \/ (d = ws[t] /\ w.tab = t /\ w.entry = aware'[t][t])
      BY <1>1, <1>2
    <3>. QED
      BY <1>3, <3>1
  <2>. QED
    BY <1>3, <2>1, TruthStep DEF AwareInv
<1>5. ASSUME NEW v \in Tab, NEW u \in hears'[v]
      PROVE  /\ u # v /\ phase'[u] = "connected" /\ ws[v] \in Conn /\ handler[ws[v]] # "accepted"
             /\ ws[v] \notin dead /\ ws[u] \notin dead => Told(v, u)'
  <2>1. CASE u = t
    <3>1. u # v /\ ws[v] \in Conn /\ handler[ws[v]] # "accepted"
      BY <2>1, PresenceAssumption DEF AwareInv, Heard, LinkInv, Handlers, PresenceTyped, InRoom
    <3>2. ws[u] \notin dead => Told(v, u)'
      <4>1. ws[t] \notin dead => [tab |-> t, entry |-> e] \in Elems(inbox'[ws[t]])
        BY <1>2
      <4>. QED
        BY <1>1, <2>1, <4>1 DEF Told
    <3>. QED
      BY <2>1, <3>1, <3>2
  <2>2. CASE u # t
    <3>1. u \in hears[v] /\ u # v /\ u \in Tab /\ phase[u] = "connected" /\ ws[v] \in Conn
          /\ handler[ws[v]] # "accepted"
          /\ (ws[v] \notin dead /\ ws[u] \notin dead => Told(v, u))
      BY <2>2 DEF AwareInv, Heard, LinkInv, PresenceTyped
    <3>2. ws[u] \in Conn /\ ws[u] # ws[t]
      BY <2>2, <3>1, Link0, PresenceAssumption DEF LinkInv, Mounts, Sockets
    <3>3. aware'[v][u] = aware[v][u] /\ aware'[u][u] = aware[u][u] /\ inbox'[ws[u]] = inbox[ws[u]]
      BY <1>2, <2>2, <3>1, <3>2
    <3>. QED
      BY <2>2, <3>1, <3>2, <3>3 DEF Told
  <2>. QED
    BY <2>1, <2>2
<1>. QED
  BY <1>4, <1>5 DEF AwareInv, Heard

LEMMA AwareHandleOpen ==
  ASSUME LinkInv, AwareInv, NEW t \in Tab, HandleOpen(t) PROVE AwareInv'
<1>1. /\ phase[t] = "connecting" /\ phase' = [phase EXCEPT ![t] = "connected"]
      /\ inbox' = Sent(t, aware[t][t])
      /\ hears' = [u \in Tab |-> IF u # t /\ ws[u] \in room \ dead THEN hears[u] \cup {t} ELSE hears[u]]
      /\ UNCHANGED <<ws, aware, owner, handler, room, outbox, dead>>
  BY DEF HandleOpen, server
<1>2. ws[t] \in Conn /\ LinkInv'
  BY <1>1, Link0, LinkHandleOpen DEF LinkInv, Mounts
<1>3. phase'[t] = "connected" /\ \A v \in Tab : v # t => phase'[v] = phase[v]
  BY <1>1 DEF LinkInv, PresenceTyped
<1>4. \A v \in Tab : hears'[v] \subseteq hears[v] \/
                       (v # t /\ ws[v] \in room \ dead /\ hears'[v] \subseteq hears[v] \cup {t})
  BY <1>1
<1>5. inbox' = Sent(t, aware'[t][t])
  BY <1>1
<1>. QED
  BY <1>1, <1>2, <1>3, <1>4, <1>5, AwareTells DEF Sent

LEMMA AwareSetStatus ==
  ASSUME LinkInv, AwareInv, NEW t \in Tab, SetPresenceStatus(t) PROVE AwareInv'
<1>1. /\ inbox' = IF phase[t] = "connected" THEN Sent(t, aware'[t][t]) ELSE inbox
      /\ UNCHANGED <<phase, ws, owner, handler, room, outbox, dead, hears>>
  BY DEF SetPresenceStatus, server
<1>2. PICK s \in {"online", "away"} : Present(t, s)
  BY DEF SetPresenceStatus
<1>3. /\ aware'[t][t].clock > aware[t][t].clock
      /\ \A v, u \in Tab : aware'[v][u] = aware[v][u] \/ (v = t /\ u = t)
      /\ LinkInv'
  <2>1. /\ aware'[t][t] = [clock |-> aware[t][t].clock + 1, status |-> s]
        /\ aware[t][t].clock \in Nat
        /\ \A v \in Tab : v # t => aware'[t][v] = aware[t][v]
        /\ \A v \in Tab : v # t => aware'[v] = aware[v]
    BY <1>2, PresentDoes DEF Status
  <2>2. aware'[t][t].clock > aware[t][t].clock
    BY <2>1
  <2>. QED
    BY <2>1, <2>2, LinkSetStatus
<1>4. CASE phase[t] = "connected"
  <2>1. ws[t] \in Conn
    BY <1>4, Link0 DEF LinkInv, Mounts
  <2>. QED
    BY <1>1, <1>3, <1>4, <2>1, AwareTells DEF Sent
<1>5. CASE phase[t] # "connected"
  <2>1. AwareTruth'
    BY <1>1, <1>3, <1>5, TruthSelf
  <2>2. ASSUME NEW v \in Tab, NEW u \in hears[v]
        PROVE  /\ u # v /\ phase[u] = "connected" /\ ws[v] \in Conn /\ handler[ws[v]] # "accepted"
               /\ ws[v] \notin dead /\ ws[u] \notin dead => Told(v, u)'
    <3>1. u \in Tab /\ u # v /\ phase[u] = "connected" /\ ws[v] \in Conn /\ handler[ws[v]] # "accepted"
          /\ (ws[v] \notin dead /\ ws[u] \notin dead => Told(v, u))
      BY DEF AwareInv, Heard, LinkInv, PresenceTyped
    <3>2. aware'[v][u] = aware[v][u] /\ aware'[u][u] = aware[u][u]
      BY <1>3, <1>5, <3>1
    <3>. QED
      BY <1>1, <1>5, <3>1, <3>2 DEF Told
  <2>. QED
    BY <1>1, <2>1, <2>2 DEF AwareInv, Heard
<1>. QED
  BY <1>4, <1>5

LEMMA AwareExpire ==
  ASSUME LinkInv, AwareInv, NEW t \in Tab, ExpireAwareness(t) PROVE AwareInv'
<1>1. /\ LinkInv'
      /\ UNCHANGED <<phase, ws, owner, handler, inbox, outbox, dead, hears>>
  BY LinkExpire DEF server
<1>2. PICK x \in Tab \ {t}, e \in AnyEntry :
        /\ aware' = [aware EXCEPT ![t] = [aware[t] EXCEPT ![x] = e]]
        /\ e.clock = aware[t][x].clock /\ aware[t][x].clock < aware[x][x].clock
  BY LinkExpire
<1>3. \A v, u \in Tab : aware[v][u] \in AnyEntry
  BY DEF LinkInv, PresenceTyped
<1>4. /\ \A v, u \in Tab : aware'[v][u] = aware[v][u] \/ (v = t /\ u = x)
      /\ aware'[t][x] = e
  BY <1>2 DEF LinkInv, PresenceTyped
<1>5. aware[t][x] # aware[x][x] /\ Said(aware[x][x], e)
  BY <1>2, <1>3 DEF Said, AnyEntry
<1>6. \A u \in Tab : aware'[u][u] = aware[u][u]
  BY <1>2, <1>4
<1>7. AwareTruth'
  BY <1>1, <1>4, <1>5, <1>6, TruthStep DEF AwareInv
<1>8. ASSUME NEW v \in Tab, NEW u \in hears[v], ws[v] \notin dead, ws[u] \notin dead
      PROVE  Told(v, u)'
  <2>1. Told(v, u) /\ u \in Tab
    BY <1>8 DEF AwareInv, Heard, LinkInv, PresenceTyped
  <2>2. aware[v][u] = aware[u][u] => aware'[v][u] = aware'[u][u]
    BY <1>4, <1>5, <1>6, <2>1
  <2>. QED
    BY <1>1, <1>6, <2>1, <2>2 DEF Told
<1>. QED
  BY <1>1, <1>7, <1>8 DEF AwareInv, Heard

LEMMA AwareHandleMessage ==
  ASSUME LinkInv, AwareInv, NEW c \in Conn, HandleMessage(c) PROVE AwareInv'
<1>1. PICK f \in Frame, t \in Tab : f = Head(outbox[c]) /\ t = owner[c]
  BY MessageIs
<1>2. /\ LinkInv' /\ c \notin dead /\ ws[t] = c
      /\ outbox[c] \in Seq(Frame) /\ outbox[c] # <<>>
      /\ outbox' = [outbox EXCEPT ![c] = Tail(outbox[c])]
      /\ UNCHANGED <<phase, ws, owner, handler, inbox, dead, hears>>
  BY <1>1, MessageIs, LinkHandleMessage DEF server
<1>3. /\ Elems(outbox[c]) = {f} \cup Elems(outbox'[c])
      /\ \A d \in Conn : d # c => outbox'[d] = outbox[d]
  BY <1>1, <1>2, ElemsOf DEF LinkInv, PresenceTyped
<1>4. CASE f.kind # "presence"
  <2>1. aware' = aware
    BY <1>1, <1>4, MessageDoes
  <2>2. \A d \in Conn : Presences(outbox'[d]) = Presences(outbox[d])
    <3>1. Presences(outbox'[c]) = Presences(outbox[c])
      BY <1>3, <1>4 DEF Presences
    <3>. QED
      BY <1>3, <3>1
  <2>. QED
    BY <1>2, <2>1, <2>2, AwareQuiet
<1>5. CASE f.kind = "presence"
  <2>1. PICK x \in Tab, e \in AnyEntry : x = f.tab /\ e = ApplyRemoteAwareness(aware[t][x], f)
    <3>1. PICK x \in Tab : x = f.tab /\ f.entry \in AnyEntry
      BY <1>1, <1>5, MessageDoes
    <3>2. aware[t][x] \in AnyEntry
      BY DEF LinkInv, PresenceTyped
    <3>. QED
      BY <3>1, <3>2, ApplyTyped
  <2>2. aware' = [aware EXCEPT ![t] = [aware[t] EXCEPT ![x] = e]]
    BY <1>1, <1>5, <2>1, MessageDoes DEF ApplyRemoteAwareness
  <2>3. /\ \A v, u \in Tab : aware'[v][u] = aware[v][u] \/ (v = t /\ u = x)
        /\ aware'[t][x] = e
    BY <2>2 DEF LinkInv, PresenceTyped
  <2>4. f \in Elems(outbox[c]) /\ f.entry \in AnyEntry /\ aware[t][x] \in AnyEntry /\ aware[x][x] \in AnyEntry
    BY <1>1, <1>3, <1>5, OnTheWay
  <2>5. Said(aware[x][x], f.entry) /\ Said(aware[x][x], aware[t][x])
    BY <1>5, <2>1, <2>4 DEF AwareInv, AwareTruth
  <2>6. /\ e \in {aware[t][x], f.entry}
        /\ f.entry.clock > aware[t][x].clock => e = f.entry
        /\ ~(f.entry.clock > aware[t][x].clock) => e = aware[t][x]
    BY <2>1, <2>4, ApplyTyped DEF ApplyRemoteAwareness
  <2>7. \A u \in Tab : aware'[u][u] = aware[u][u]
    <3>1. t = x => e = aware[t][t]
      BY <2>4, <2>5, <2>6 DEF Said, AnyEntry
    <3>. QED
      BY <2>3, <3>1
  <2>8. AwareTruth'
    <3>1. Said(aware[x][x], e)
      BY <2>5, <2>6
    <3>2. \A v, u \in Tab : aware'[v][u] = aware[v][u] \/ Said(aware'[u][u], aware'[v][u])
      BY <2>3, <2>7, <3>1
    <3>3. \A d \in Conn : Elems(outbox'[d]) \subseteq Elems(outbox[d])
      BY <1>3
    <3>. QED
      BY <1>2, <2>7, <3>2, <3>3, TruthStep DEF AwareInv
  <2>9. ASSUME NEW v \in Tab, NEW u \in hears[v], ws[v] \notin dead, ws[u] \notin dead
        PROVE  Told(v, u)'
    <3>1. Told(v, u) /\ u \in Tab /\ ws[v] \in Conn
      BY <2>9 DEF AwareInv, Heard, LinkInv, PresenceTyped
    <3>2. CASE aware[v][u] = aware[u][u]
      <4>1. v = t /\ u = x => e = aware[u][u]
        BY <2>4, <2>5, <2>6, <3>2 DEF Said, AnyEntry
      <4>. QED
        BY <2>3, <2>7, <3>1, <3>2, <4>1 DEF Told
    <3>3. CASE \E w \in Elems(inbox[ws[u]]) : w.entry = aware[u][u]
      BY <1>2, <2>7, <3>1, <3>3 DEF Told
    <3>4. ASSUME NEW g \in Elems(outbox[ws[v]]), g.kind = "presence", g.tab = u, g.entry = aware[u][u]
          PROVE  Told(v, u)'
      <4>1. CASE g \in Elems(outbox'[ws[v]])
        BY <1>2, <2>7, <3>1, <3>4, <4>1 DEF Told
      <4>2. CASE g \notin Elems(outbox'[ws[v]])
        <5>1. ws[v] = c /\ g = f
          BY <1>3, <3>1, <3>4, <4>2
        <5>2. v = t /\ u = x
          BY <1>2, <2>1, <3>4, <5>1, PresenceAssumption DEF LinkInv, Sockets
        <5>3. e = aware[u][u]
          BY <2>4, <2>5, <2>6, <3>4, <5>1, <5>2 DEF Said, AnyEntry
        <5>. QED
          BY <2>3, <2>7, <3>1, <5>2, <5>3 DEF Told
      <4>. QED
        BY <4>1, <4>2
    <3>. QED
      BY <3>1, <3>2, <3>3, <3>4 DEF Told
  <2>. QED
    BY <1>2, <2>8, <2>9 DEF AwareInv, Heard
<1>. QED
  BY <1>4, <1>5

LEMMA AwareInvStep == LinkInv /\ AwareInv /\ [PresenceNext]_presenceVars => AwareInv'
<1> SUFFICES ASSUME LinkInv, AwareInv, [PresenceNext]_presenceVars PROVE AwareInv'
  OBVIOUS
<1>1. ASSUME NEW t \in Tab,
             \/ ConnectDocument(t) \/ CloseDocument(t) \/ HandleOpen(t) \/ SetPresenceStatus(t)
             \/ HandleClose(t) \/ Reconnect(t) \/ ExpireAwareness(t)
      PROVE  AwareInv'
  BY <1>1, AwareConnectDocument, AwareCloseDocument, AwareHandleOpen, AwareSetStatus,
     AwareHandleClose, AwareReconnect, AwareExpire
<1>2. ASSUME NEW c \in Conn,
             \/ HandleMessage(c) \/ Join(c) \/ ReadMembers(c) \/ SendJoined(c) \/ RelayPresence(c)
             \/ Leave(c) \/ AnnounceLeft(c) \/ Cut(c)
      PROVE  AwareInv'
  BY <1>2, AwareHandleMessage, AwareJoin, AwareServerQuiet, AwareRelay, AwareAnnounceLeft
<1>3. CASE UNCHANGED presenceVars
  BY <1>3 DEF presenceVars, AwareInv, AwareTruth, Heard, Told
<1>. QED
  BY <1>1, <1>2, <1>3 DEF PresenceNext

LEMMA Awareness == PresenceSpec => [](LinkInv /\ AwareInv)
BY LinkInvInit, LinkInvStep, AwareInvInit, AwareInvStep, PTL DEF PresenceSpec

(* A tab that reconnects is shown to those who listen with its present     *)
(* status, as soon as its word has arrived (handleOpen's announcement).    *)
THEOREM ShownAtOnce == PresenceSpec => []ReappearsAtOnce
<1>1. LinkInv /\ AwareInv => ReappearsAtOnce
  <2>. SUFFICES ASSUME LinkInv, AwareInv, AtRest, NEW t \in Tab, NEW u \in hears[t]
                PROVE  aware[t][u] = aware[u][u]
    BY DEF ReappearsAtOnce
  <2>1. /\ u \in Tab /\ phase[u] = "connected" /\ ws[t] \in Conn
        /\ (ws[t] \notin dead /\ ws[u] \notin dead => Told(t, u))
    BY DEF AwareInv, Heard, LinkInv, PresenceTyped
  <2>2. ws[u] \in Conn
    BY <2>1, Link0 DEF LinkInv, Mounts
  <2>3. /\ ws[t] \notin dead /\ ws[u] \notin dead
        /\ Elems(inbox[ws[u]]) = {} /\ Elems(outbox[ws[t]]) = {}
    BY <2>1, <2>2, ElemsOfNone DEF AtRest
  <2>. QED
    BY <2>1, <2>3 DEF Told
<1>. QED
  BY <1>1, Awareness, PTL
-----------------------------------------------------------------------------
(* Presence: who is shown.                                                 *)

(* The last frame of `s` that is in `all` is in `good`, or there is none   *)
(* and u is in X already.                                                  *)
Settles(s, good, all, u, X) ==
  \/ u \in X /\ \A k \in DOMAIN s : s[k] \notin all
  \/ \E k \in DOMAIN s : s[k] \in good /\ \A j \in DOMAIN s : j > k => s[j] \notin all

LEMMA SettlesNow ==
  ASSUME NEW good, NEW all, NEW u, NEW X
  PROVE  Settles(<<>>, good, all, u, X) <=> u \in X
BY DEF Settles

LEMMA SettlesAppend ==
  ASSUME NEW S, NEW s \in Seq(S), NEW f \in S, NEW good, NEW all, NEW u, NEW X,
         f \in good \/ (f \notin all /\ Settles(s, good, all, u, X))
  PROVE  Settles(Append(s, f), good, all, u, X)
<1>. DEFINE q == Append(s, f)
            n == Len(s)
<1>1. n \in Nat /\ DOMAIN s = 1 .. n
  BY LenProperties
<1>2. DOMAIN q = 1 .. n + 1 /\ q[n + 1] = f /\ \A k \in 1 .. n : q[k] = s[k]
  BY <1>1, AppendProperties, LenProperties
<1>. HIDE DEF q, n
<1>3. /\ \A k \in 1 .. n + 1 : k \in 1 .. n \/ k = n + 1
      /\ \A k \in 1 .. n : k \in 1 .. n + 1
      /\ n + 1 \in 1 .. n + 1 /\ \A k \in 1 .. n + 1 : ~(k > n + 1)
  BY <1>1
<1>4. CASE f \in good
  BY <1>2, <1>3, <1>4 DEF Settles, q
<1>5. CASE f \notin all /\ Settles(s, good, all, u, X)
  <2>1. CASE u \in X /\ \A k \in DOMAIN s : s[k] \notin all
    BY <1>1, <1>2, <1>3, <1>5, <2>1 DEF Settles, q
  <2>2. ASSUME NEW k \in DOMAIN s, s[k] \in good, \A j \in DOMAIN s : j > k => s[j] \notin all
        PROVE  Settles(q, good, all, u, X)
    <3>1. k \in DOMAIN q /\ q[k] \in good
      BY <1>1, <1>2, <1>3, <2>2
    <3>2. \A j \in DOMAIN q : j > k => q[j] \notin all
      BY <1>1, <1>2, <1>3, <1>5, <2>2
    <3>. QED
      BY <3>1, <3>2 DEF Settles
  <2>. QED
    BY <1>5, <2>1, <2>2 DEF Settles, q
<1>. QED
  BY <1>4, <1>5

LEMMA SettlesTail ==
  ASSUME NEW S, NEW s \in Seq(S), s # <<>>, NEW good, NEW all, NEW u, NEW X, NEW Y,
         Settles(s, good, all, u, X),
         Head(s) \in good => u \in Y, Head(s) \notin all /\ u \in X => u \in Y
  PROVE  Settles(Tail(s), good, all, u, Y)
<1>. DEFINE q == Tail(s)
            n == Len(s)
<1>1. n \in Nat \ {0} /\ DOMAIN s = 1 .. n
  BY LenProperties, EmptySeq
<1>2. DOMAIN q = 1 .. n - 1 /\ Head(s) = s[1] /\ \A k \in 1 .. n - 1 : q[k] = s[k + 1]
  BY <1>1, HeadTailProperties, LenProperties
<1>. HIDE DEF q, n
<1>3. /\ 1 \in 1 .. n /\ \A k \in 1 .. n - 1 : k + 1 \in 1 .. n /\ k + 1 > 1
      /\ \A k \in 1 .. n : k # 1 => k - 1 \in 1 .. n - 1 /\ k = (k - 1) + 1
  BY <1>1
<1>4. CASE u \in X /\ \A k \in DOMAIN s : s[k] \notin all
  BY <1>1, <1>2, <1>3, <1>4 DEF Settles, q
<1>5. ASSUME NEW k \in DOMAIN s, s[k] \in good, \A j \in DOMAIN s : j > k => s[j] \notin all
      PROVE  Settles(q, good, all, u, Y)
  <2>1. CASE k = 1
    BY <1>1, <1>2, <1>3, <1>5, <2>1 DEF Settles
  <2>2. CASE k # 1
    <3>1. k - 1 \in DOMAIN q /\ q[k - 1] \in good
      BY <1>1, <1>2, <1>3, <1>5, <2>2
    <3>2. ASSUME NEW j \in DOMAIN q, j > k - 1 PROVE q[j] \notin all
      <4>1. j + 1 \in DOMAIN s /\ j + 1 > k /\ q[j] = s[j + 1]
        BY <1>1, <1>2, <1>3, <3>2
      <4>. QED
        BY <1>5, <4>1
    <3>. QED
      BY <3>1, <3>2 DEF Settles
  <2>. QED
    BY <2>1, <2>2
<1>. QED
  BY <1>4, <1>5 DEF Settles, q

(* The frames that say of u whether they are there, and what they say to   *)
(* a tab of the user `own`.                                                *)
SpeakOf(u) ==
  {f \in Frame : f.kind = "joined" \/ (f.kind \in {"member_joined", "member_left"} /\ f.user = u)}
Shows(u, own) ==
  {f \in SpeakOf(u) : IF f.kind = "joined" THEN u = own \/ u \in f.users ELSE f.kind = "member_joined"}
Hides(u, own) ==
  {f \in SpeakOf(u) : IF f.kind = "joined" THEN u # own /\ u \notin f.users ELSE f.kind = "member_left"}

LEMMA FramesSpeak ==
  ASSUME NEW u \in User, NEW own \in User
  PROVE  /\ [kind |-> "member_joined", user |-> u] \in Shows(u, own)
         /\ [kind |-> "member_left", user |-> u] \in Hides(u, own)
         /\ \A v \in User : v # u => /\ [kind |-> "member_joined", user |-> v] \notin SpeakOf(u)
                                     /\ [kind |-> "member_left", user |-> v] \notin SpeakOf(u)
         /\ \A t \in Tab, e \in AnyEntry : [kind |-> "presence", tab |-> t, entry |-> e] \notin SpeakOf(u)
         /\ \A m \in SUBSET User : (u \in m \/ u = own) => [kind |-> "joined", users |-> m] \in Shows(u, own)
         /\ \A m \in SUBSET User : (u \notin m /\ u # own) => [kind |-> "joined", users |-> m] \in Hides(u, own)
BY FramesTyped DEF SpeakOf, Shows, Hides

(* No handler of a connection of u is in the room, or leaving it.          *)
Gone(u) == \A c \in Conn : handler[c] \in InRoom \cup {"left"} => UserOf[owner[c]] # u

(* What will be shown on a connection of u, once what is on its way there  *)
(* has arrived.                                                            *)
WillShow(c, u) ==
  Settles(outbox[c], Shows(u, UserOf[owner[c]]), SpeakOf(u), u, online[owner[c]])
WillHide(c, u) ==
  Settles(outbox[c], Hides(u, UserOf[owner[c]]), SpeakOf(u), u, User \ online[owner[c]])

(* A connection is right about u: the list its handler is about to send,   *)
(* or what its tab will show.                                              *)
RightAbout(c, u) ==
  /\ handler[c] = "listed" =>
       /\ u \in Users(room) => u \in members[c] \/ u = UserOf[owner[c]]
       /\ Gone(u) => u \notin members[c] /\ u # UserOf[owner[c]]
  /\ handler[c] = "reading" =>
       /\ u \in Users(room) => WillShow(c, u)
       /\ Gone(u) => WillHide(c, u)

Certain == \A c \in Conn \ dead : \A u \in User \ uncertain[c] : RightAbout(c, u)

LEMMA CertainInit == PresenceInit => Certain
BY DEF PresenceInit, Certain, RightAbout

(* A connection that hears nothing of u stays right about them while no    *)
(* connection of theirs joins, and none of them is done with.              *)
LEMMA StaysRight ==
  ASSUME LinkInv, NEW c \in Conn, NEW u \in User, RightAbout(c, u), owner[c] \in Tab,
         handler'[c] = handler[c], members'[c] = members[c], owner'[c] = owner[c],
         online'[owner[c]] = online[owner[c]],
         u \in Users(room)' => u \in Users(room), Gone(u)' => Gone(u),
         \/ outbox'[c] = outbox[c]
         \/ \E f \in Frame \ SpeakOf(u) : outbox'[c] = Append(outbox[c], f)
  PROVE  RightAbout(c, u)'
<1>1. outbox[c] \in Seq(Frame) /\ UserOf' = UserOf
  BY DEF LinkInv, PresenceTyped
<1>2. ASSUME WillShow(c, u) PROVE WillShow(c, u)'
  BY <1>1, <1>2, SettlesAppend DEF WillShow
<1>3. ASSUME WillHide(c, u) PROVE WillHide(c, u)'
  BY <1>1, <1>3, SettlesAppend DEF WillHide
<1>. QED
  BY <1>2, <1>3 DEF RightAbout

(* Steps of a tab.                                                         *)
LEMMA CertainBrowser ==
  ASSUME LinkInv, LinkInv', Certain, NEW t \in Tab, UNCHANGED <<members, room, uncertain>>,
         dead \subseteq dead',
         \A d \in Conn : owner[d] # NoConn => owner'[d] = owner[d] /\ handler'[d] = handler[d],
         \A d \in Conn : owner[d] = NoConn => handler'[d] \in {"none", "accepted"},
         \A d \in Conn \ dead' : outbox'[d] = outbox[d],
         \A v \in Tab : v # t => online'[v] = online[v],
         online'[t] = online[t] \/ \A d \in Conn \ dead' : handler[d] # "none" => owner[d] # t
  PROVE  Certain'
<1>1. /\ \A d \in Conn : owner[d] = NoConn => handler[d] = "none"
      /\ \A d \in Conn : owner[d] # NoConn => owner[d] \in Tab
      /\ room \subseteq Conn /\ \A d \in room : owner[d] # NoConn
  <2>1. /\ owner \in [Conn -> Tab \cup {NoConn}] /\ room \subseteq Conn
        /\ \A d \in Conn : owner[d] = NoConn => handler[d] = "none"
        /\ \A d \in room : handler[d] # "none"
    BY DEF LinkInv, Handlers, PresenceTyped, InRoom
  <2>. QED
    BY <2>1
<1>2. Users(room)' = Users(room)
  BY <1>1 DEF Users
<1>3. ASSUME NEW u \in User, Gone(u)' PROVE Gone(u)
  BY <1>1, <1>3 DEF Gone, InRoom
<1>4. ASSUME NEW d \in Conn \ dead', NEW u \in User \ uncertain[d] PROVE RightAbout(d, u)'
  <2>1. CASE owner[d] = NoConn
    BY <2>1 DEF RightAbout
  <2>2. CASE owner[d] # NoConn
    <3>1. owner[d] \in Tab /\ RightAbout(d, u)
      BY <1>1, <2>2 DEF Certain
    <3>2. CASE handler[d] = "none"
      BY <2>2, <3>2 DEF RightAbout
    <3>3. CASE handler[d] # "none"
      <4>1. online'[owner[d]] = online[owner[d]]
        BY <3>1, <3>3
      <4>. QED
        BY <1>2, <1>3, <2>2, <3>1, <4>1, StaysRight
    <3>. QED
      BY <3>2, <3>3
  <2>. QED
    BY <2>1, <2>2
<1>. QED
  BY <1>4 DEF Certain

LEMMA CertainConnects ==
  ASSUME LinkInv, Certain, NEW t \in Tab, ConnectDocument(t) \/ Reconnect(t) PROVE Certain'
<1>1. /\ Connect(t) /\ UNCHANGED <<members, room, uncertain, outbox, dead>>
      /\ online' = [online EXCEPT ![t] = {UserOf[t]}] \/ online' = online
      /\ ws[t] = NoConn \/ (ws[t] \in dead /\ online' = online)
      /\ LinkInv'
  <2>1. CASE ConnectDocument(t)
    BY <2>1, LinkConnectDocument DEF ConnectDocument, BuildDocProvider, LinkInv, Mounts
  <2>2. CASE Reconnect(t)
    BY <2>2, LinkReconnect DEF Reconnect, LinkInv, Mounts
  <2>. QED
    BY <2>1, <2>2
<1>2. PICK c \in Conn : /\ owner[c] = NoConn
                        /\ owner' = [owner EXCEPT ![c] = t]
                        /\ handler' = [handler EXCEPT ![c] = "accepted"]
  BY <1>1 DEF Connect
<1>3. /\ \A d \in Conn : owner[d] # NoConn => owner'[d] = owner[d] /\ handler'[d] = handler[d]
      /\ \A d \in Conn : owner[d] = NoConn => handler'[d] \in {"none", "accepted"}
  BY <1>2 DEF LinkInv, PresenceTyped, Handlers
<1>4. /\ \A v \in Tab : v # t => online'[v] = online[v]
      /\ online'[t] = online[t] \/ \A d \in Conn \ dead : handler[d] # "none" => owner[d] # t
  BY <1>1, PresenceAssumption DEF LinkInv, PresenceTyped, Handlers, Sockets
<1>. QED
  BY <1>1, <1>3, <1>4, CertainBrowser

LEMMA CertainCloseDocument ==
  ASSUME LinkInv, Certain, NEW t \in Tab, CloseDocument(t) PROVE Certain'
<1>1. /\ dead' = dead \cup ({ws[t]} \ {NoConn})
      /\ outbox' = [c \in Conn |-> IF c \in {ws[t]} \ {NoConn} THEN <<>> ELSE outbox[c]]
      /\ online' = [online EXCEPT ![t] = {}]
      /\ UNCHANGED <<owner, handler, members, room, uncertain>>
  BY DEF CloseDocument, Die, server
<1>2. \A d \in Conn \ dead' : handler[d] # "none" => owner[d] # t
  BY <1>1, PresenceAssumption DEF LinkInv, Handlers, Sockets
<1>3. \A v \in Tab : v # t => online'[v] = online[v]
  BY <1>1 DEF LinkInv, PresenceTyped
<1>4. \A d \in Conn : owner[d] = NoConn => handler'[d] \in {"none", "accepted"}
  BY <1>1 DEF LinkInv, Handlers
<1>5. LinkInv'
  BY LinkCloseDocument
<1>6. /\ UNCHANGED <<members, room, uncertain>> /\ dead \subseteq dead'
      /\ \A d \in Conn : owner[d] # NoConn => owner'[d] = owner[d] /\ handler'[d] = handler[d]
      /\ \A d \in Conn \ dead' : outbox'[d] = outbox[d]
  BY <1>1
<1>. QED
  BY <1>2, <1>3, <1>4, <1>5, <1>6, CertainBrowser

LEMMA CertainTabQuiet ==
  ASSUME LinkInv, Certain, NEW t \in Tab,
         HandleOpen(t) \/ SetPresenceStatus(t) \/ HandleClose(t) \/ ExpireAwareness(t)
  PROVE  Certain'
<1>1. UNCHANGED <<online, owner, handler, members, room, uncertain, outbox, dead>>
  BY DEF HandleOpen, SetPresenceStatus, HandleClose, ExpireAwareness, server
<1>2. \A u : Gone(u)' = Gone(u)
  BY <1>1 DEF Gone
<1>3. Users(room)' = Users(room)
  BY <1>1 DEF Users
<1>4. \A c, u : WillShow(c, u)' = WillShow(c, u) /\ WillHide(c, u)' = WillHide(c, u)
  BY <1>1 DEF WillShow, WillHide
<1>5. \A c \in Conn \ dead : \A u \in User \ uncertain[c] : RightAbout(c, u)'
  BY <1>1, <1>2, <1>3, <1>4 DEF Certain, RightAbout
<1>. QED
  BY <1>1, <1>5 DEF Certain

(* A frame arrives: what was to be shown when it had is shown now, if it   *)
(* was the last word.                                                      *)
LEMMA CertainHandleMessage ==
  ASSUME LinkInv, Certain, NEW c \in Conn, HandleMessage(c) PROVE Certain'
<1>1. PICK f \in Frame, t \in Tab : f = Head(outbox[c]) /\ t = owner[c]
  BY MessageIs
<1>2. /\ c \notin dead /\ ws[t] = c
      /\ outbox[c] \in Seq(Frame) /\ outbox[c] # <<>>
      /\ outbox' = [outbox EXCEPT ![c] = Tail(outbox[c])]
      /\ UNCHANGED <<owner, handler, members, room, uncertain, dead>>
  BY <1>1, MessageIs DEF server
<1>3. /\ f.kind = "presence" => online' = online
      /\ f.kind = "joined" => online' = [online EXCEPT ![t] = {UserOf[t]} \cup f.users]
                              /\ f.users \subseteq User
      /\ f.kind = "member_joined" => online' = [online EXCEPT ![t] = online[t] \cup {f.user}]
      /\ f.kind = "member_left" => online' = [online EXCEPT ![t] = online[t] \ {f.user}]
      /\ f.kind \in {"presence", "joined", "member_joined", "member_left"}
  BY <1>1, MessageDoes
<1>4. online \in [Tab -> SUBSET User] /\ UserOf[t] \in User /\ outbox \in [Conn -> Seq(Frame)]
  BY PresenceAssumption DEF LinkInv, PresenceTyped
<1>5. \A v \in Tab : v # t => online'[v] = online[v]
  BY <1>3, <1>4
<1>6. ASSUME NEW u \in User
      PROVE  /\ f \in Shows(u, UserOf[t]) => u \in online'[t]
             /\ f \in Hides(u, UserOf[t]) => u \in User \ online'[t]
             /\ f \notin SpeakOf(u) => (u \in online'[t]) = (u \in online[t])
  <2>1. CASE f.kind = "presence"
    BY <1>3, <2>1 DEF Shows, Hides, SpeakOf
  <2>2. CASE f.kind = "joined"
    <3>1. online'[t] = {UserOf[t]} \cup f.users
      BY <1>3, <1>4, <2>2
    <3>. QED
      BY <2>2, <3>1 DEF Shows, Hides, SpeakOf
  <2>3. CASE f.kind = "member_joined"
    <3>1. online'[t] = online[t] \cup {f.user}
      BY <1>3, <1>4, <2>3
    <3>. QED
      BY <2>3, <3>1 DEF Shows, Hides, SpeakOf
  <2>4. CASE f.kind = "member_left"
    <3>1. online'[t] = online[t] \ {f.user}
      BY <1>3, <1>4, <2>4
    <3>. QED
      BY <2>4, <3>1 DEF Shows, Hides, SpeakOf
  <2>. QED
    BY <1>3, <2>1, <2>2, <2>3, <2>4
<1>7. Users(room)' = Users(room) /\ \A u \in User : Gone(u)' => Gone(u)
  BY <1>2 DEF Users, Gone
<1>8. ASSUME NEW d \in Conn \ dead, NEW u \in User \ uncertain[d], d # c PROVE RightAbout(d, u)'
  <2>1. outbox'[d] = outbox[d] /\ RightAbout(d, u)
    BY <1>2, <1>4, <1>8 DEF Certain
  <2>2. CASE owner[d] = NoConn
    BY <1>2, <2>2 DEF RightAbout, LinkInv, Handlers
  <2>3. CASE owner[d] # NoConn
    <3>1. owner[d] \in Tab /\ owner[d] # t
      BY <1>2, <1>8, <2>3 DEF LinkInv, Sockets, PresenceTyped
    <3>2. online'[owner[d]] = online[owner[d]]
      BY <1>5, <3>1
    <3>. QED
      BY <1>2, <1>7, <2>1, <3>1, <3>2, StaysRight
  <2>. QED
    BY <2>2, <2>3
<1>9. ASSUME NEW u \in User \ uncertain[c] PROVE RightAbout(c, u)'
  <2>1. outbox'[c] = Tail(outbox[c]) /\ RightAbout(c, u)
    BY <1>2, <1>4 DEF Certain
  <2>2. ASSUME WillShow(c, u) PROVE WillShow(c, u)'
    <3>1. Settles(outbox[c], Shows(u, UserOf[t]), SpeakOf(u), u, online[t])
      BY <1>1, <2>2 DEF WillShow
    <3>2. Settles(Tail(outbox[c]), Shows(u, UserOf[t]), SpeakOf(u), u, online'[t])
      BY <1>1, <1>2, <1>6, <3>1, SettlesTail
    <3>. QED
      BY <1>1, <1>2, <2>1, <3>2 DEF WillShow
  <2>3. ASSUME WillHide(c, u) PROVE WillHide(c, u)'
    <3>1. Settles(outbox[c], Hides(u, UserOf[t]), SpeakOf(u), u, User \ online[t])
      BY <1>1, <2>3 DEF WillHide
    <3>2. Settles(Tail(outbox[c]), Hides(u, UserOf[t]), SpeakOf(u), u, User \ online'[t])
      BY <1>1, <1>2, <1>6, <3>1, SettlesTail
    <3>. QED
      BY <1>1, <1>2, <2>1, <3>2 DEF WillHide
  <2>. QED
    BY <1>2, <1>7, <2>1, <2>2, <2>3 DEF RightAbout
<1>. QED
  BY <1>2, <1>8, <1>9 DEF Certain

(* The server. A connection that joins or is done with is told of to all   *)
(* who read, so that they are right about its user, whoever else is there. *)
LEMMA OwnersKnown ==
  ASSUME LinkInv
  PROVE  /\ \A d \in Conn : handler[d] # "none" => owner[d] \in Tab
         /\ \A d \in Conn : handler[d] # "none" => UserOf[owner[d]] \in User
         /\ \A d \in Conn \ dead : handler[d] = "reading" => d \in room
         /\ \A d \in room : d \in Conn /\ handler[d] \in InRoom
BY PresenceAssumption DEF LinkInv, Handlers, PresenceTyped, InRoom

LEMMA CertainJoin ==
  ASSUME LinkInv, Certain, NEW c \in Conn, Join(c) PROVE Certain'
<1>1. PICK v \in User : v = UserOf[owner[c]] /\ c \notin room
  BY LinkJoin
<1>2. PICK f \in Frame : f = [kind |-> "member_joined", user |-> v]
  BY FramesTyped
<1>3. /\ handler[c] = "accepted" /\ handler' = [handler EXCEPT ![c] = "joined"]
      /\ Broadcast(room, {c}, f)
      /\ uncertain' = [d \in Conn |-> IF d \in dead THEN {}
                                     ELSE IF d \in Listed THEN uncertain[d] \cup {v} ELSE uncertain[d] \ {v}]
      /\ UNCHANGED <<online, owner, members>>
  BY <1>1, <1>2 DEF Join, page
<1>4. room \in SUBSET room /\ {c} \in SUBSET Conn
  OBVIOUS
<1>5. /\ dead \subseteq dead' /\ room' \subseteq {c} \cup room
      /\ \A d \in Conn \ dead' : outbox'[d] = IF d \in room THEN Append(outbox[d], f) ELSE outbox[d]
  BY <1>3, <1>4, BroadcastDoes DEF Broadcast
<1>6. /\ handler'[c] = "joined" /\ \A d \in Conn : d # c => handler'[d] = handler[d]
      /\ \A d \in Conn : outbox[d] \in Seq(Frame)
  BY <1>3 DEF LinkInv, PresenceTyped
<1>7. ASSUME NEW u \in User, u # v
      PROVE  (u \in Users(room)' => u \in Users(room)) /\ (Gone(u)' => Gone(u))
  <2>1. u \in Users(room)' => u \in Users(room)
    BY <1>1, <1>3, <1>5, <1>7 DEF Users
  <2>2. Gone(u)' => Gone(u)
    BY <1>3, <1>6 DEF Gone, InRoom
  <2>. QED
    BY <2>1, <2>2
<1>8. ~Gone(v)'
  BY <1>1, <1>3, <1>6 DEF Gone, InRoom
<1>9. ASSUME NEW d \in Conn \ dead', NEW u \in User \ uncertain'[d] PROVE RightAbout(d, u)'
  <2>1. d \notin dead
    BY <1>5
  <2>2. CASE handler'[d] \notin {"listed", "reading"}
    BY <2>2 DEF RightAbout
  <2>3. CASE handler'[d] \in {"listed", "reading"} /\ u = v
    <3>1. handler[d] = handler'[d] /\ d \notin Listed
      BY <1>3, <1>6, <2>1, <2>3 DEF Listed
    <3>2. handler[d] = "reading" /\ d \in room /\ owner[d] \in Tab /\ UserOf[owner[d]] \in User
      BY <2>1, <2>3, <3>1, OwnersKnown DEF Listed
    <3>3. f \in Shows(u, UserOf[owner[d]])
      BY <1>2, <2>3, <3>2, FramesSpeak
    <3>4. outbox'[d] = Append(outbox[d], f)
      BY <1>5, <3>2
    <3>5. WillShow(d, u)'
      BY <1>3, <1>6, <3>3, <3>4, SettlesAppend DEF WillShow
    <3>. QED
      BY <1>8, <2>3, <3>1, <3>2, <3>5 DEF RightAbout
  <2>4. CASE handler'[d] \in {"listed", "reading"} /\ u # v
    <3>1. handler[d] = handler'[d] /\ handler[d] # "none"
      BY <1>6, <2>4
    <3>2. owner[d] \in Tab /\ UserOf[owner[d]] \in User /\ u \notin uncertain[d]
      BY <1>3, <2>1, <2>4, <3>1, OwnersKnown
    <3>3. f \notin SpeakOf(u)
      BY <1>2, <2>4, <3>2, FramesSpeak
    <3>4. RightAbout(d, u)
      BY <2>1, <3>2 DEF Certain
    <3>. QED
      BY <1>3, <1>5, <1>7, <2>4, <3>1, <3>2, <3>3, <3>4, StaysRight
  <2>. QED
    BY <2>2, <2>3, <2>4
<1>. QED
  BY <1>9 DEF Certain

LEMMA CertainAnnounceLeft ==
  ASSUME LinkInv, Certain, NEW c \in Conn, AnnounceLeft(c) PROVE Certain'
<1>1. PICK v \in User : v = UserOf[owner[c]]
  BY LinkAnnounceLeft
<1>2. PICK f \in Frame : f = [kind |-> "member_left", user |-> v]
  BY FramesTyped
<1>3. /\ handler[c] = "left" /\ handler' = [handler EXCEPT ![c] = "none"]
      /\ Broadcast(room, {}, f)
      /\ uncertain' = [d \in Conn |-> IF d \in dead THEN {}
                                     ELSE IF d \in Listed \/ v \in Users(room)
                                     THEN uncertain[d] \cup {v} ELSE uncertain[d] \ {v}]
      /\ UNCHANGED <<online, owner, members>>
  BY <1>1, <1>2 DEF AnnounceLeft, page
<1>4. room \in SUBSET room /\ {} \in SUBSET Conn
  OBVIOUS
<1>5. /\ dead \subseteq dead' /\ room' \subseteq {} \cup room
      /\ \A d \in Conn \ dead' : outbox'[d] = IF d \in room THEN Append(outbox[d], f) ELSE outbox[d]
  BY <1>3, <1>4, BroadcastDoes DEF Broadcast
<1>6. /\ handler'[c] = "none" /\ \A d \in Conn : d # c => handler'[d] = handler[d]
      /\ \A d \in Conn : outbox[d] \in Seq(Frame)
  BY <1>3 DEF LinkInv, PresenceTyped
<1>7. \A u \in User : u \in Users(room)' => u \in Users(room)
  BY <1>3, <1>5 DEF Users
<1>8. ASSUME NEW u \in User, u # v PROVE Gone(u)' => Gone(u)
  BY <1>1, <1>3, <1>6, <1>8 DEF Gone, InRoom
<1>9. ASSUME NEW d \in Conn \ dead', NEW u \in User \ uncertain'[d] PROVE RightAbout(d, u)'
  <2>1. d \notin dead
    BY <1>5
  <2>2. CASE handler'[d] \notin {"listed", "reading"}
    BY <2>2 DEF RightAbout
  <2>3. CASE handler'[d] \in {"listed", "reading"} /\ u = v
    <3>1. handler[d] = handler'[d] /\ d \notin Listed /\ v \notin Users(room)
      BY <1>3, <1>6, <2>1, <2>3 DEF Listed
    <3>2. handler[d] = "reading" /\ d \in room /\ owner[d] \in Tab /\ UserOf[owner[d]] \in User
      BY <2>1, <2>3, <3>1, OwnersKnown DEF Listed
    <3>3. f \in Hides(u, UserOf[owner[d]])
      BY <1>2, <2>3, <3>2, FramesSpeak
    <3>4. outbox'[d] = Append(outbox[d], f)
      BY <1>5, <3>2
    <3>5. WillHide(d, u)'
      BY <1>3, <1>6, <3>3, <3>4, SettlesAppend DEF WillHide
    <3>. QED
      BY <1>7, <2>3, <3>1, <3>2, <3>5 DEF RightAbout
  <2>4. CASE handler'[d] \in {"listed", "reading"} /\ u # v
    <3>1. handler[d] = handler'[d] /\ handler[d] # "none"
      BY <1>6, <2>4
    <3>2. owner[d] \in Tab /\ UserOf[owner[d]] \in User /\ u \notin uncertain[d]
      BY <1>3, <2>1, <2>4, <3>1, OwnersKnown
    <3>3. f \notin SpeakOf(u)
      BY <1>2, <2>4, <3>2, FramesSpeak
    <3>4. RightAbout(d, u)
      BY <2>1, <3>2 DEF Certain
    <3>. QED
      BY <1>3, <1>5, <1>7, <1>8, <2>4, <3>1, <3>2, <3>3, <3>4, StaysRight
  <2>. QED
    BY <2>2, <2>3, <2>4
<1>. QED
  BY <1>9 DEF Certain

LEMMA CertainRelay ==
  ASSUME LinkInv, Certain, NEW c \in Conn, RelayPresence(c) PROVE Certain'
<1>. DEFINE w == Head(inbox[c])
            conns == room \ {c}
            silent == room \cap {c}
<1>1. PICK f \in Frame : f = [kind |-> "presence", tab |-> w.tab, entry |-> w.entry]
  BY LinkRelay
<1>2. /\ w \in Word /\ Broadcast(conns, silent, f)
      /\ UNCHANGED <<page, owner, handler, members, uncertain, events>>
  BY <1>1, LinkRelay
<1>3. conns \in SUBSET room /\ silent \in SUBSET Conn /\ conns \cup silent \subseteq room
  OBVIOUS
<1>. HIDE DEF w, conns, silent
<1>4. /\ dead \subseteq dead' /\ room' \subseteq room
      /\ \A d \in Conn \ dead' : outbox'[d] = IF d \in conns THEN Append(outbox[d], f) ELSE outbox[d]
  BY <1>2, <1>3, BroadcastDoes DEF Broadcast
<1>5. \A u \in User : (u \in Users(room)' => u \in Users(room)) /\ (Gone(u)' => Gone(u))
  BY <1>2, <1>4 DEF Users, Gone
<1>6. w.tab \in Tab /\ w.entry \in AnyEntry
  BY <1>2 DEF Word
<1>7. ASSUME NEW d \in Conn \ dead', NEW u \in User \ uncertain[d] PROVE RightAbout(d, u)'
  <2>1. CASE handler[d] \notin {"listed", "reading"}
    BY <1>2, <2>1 DEF RightAbout
  <2>2. CASE handler[d] \in {"listed", "reading"}
    <3>1. owner[d] \in Tab /\ UserOf[owner[d]] \in User /\ d \notin dead
      BY <1>4, <2>2, OwnersKnown
    <3>2. f \notin SpeakOf(u)
      BY <1>1, <1>6, <3>1, FramesSpeak
    <3>3. RightAbout(d, u)
      BY <3>1 DEF Certain
    <3>. QED
      BY <1>2, <1>4, <1>5, <3>1, <3>2, <3>3, StaysRight DEF page
  <2>. QED
    BY <2>1, <2>2
<1>. QED
  BY <1>2, <1>7 DEF Certain

LEMMA CertainReadMembers ==
  ASSUME LinkInv, Certain, NEW c \in Conn, ReadMembers(c) PROVE Certain'
<1>1. /\ handler[c] = "joined" /\ handler' = [handler EXCEPT ![c] = "listed"]
      /\ members' = [members EXCEPT ![c] = Users(room \ {c})]
      /\ uncertain' = [uncertain EXCEPT ![c] = {}]
      /\ UNCHANGED <<online, owner, room, outbox, dead>>
  BY DEF ReadMembers, page
<1>2. /\ \A d \in Conn : d # c => handler'[d] = handler[d] /\ members'[d] = members[d]
                                  /\ uncertain'[d] = uncertain[d]
      /\ handler'[c] = "listed" /\ members'[c] = Users(room \ {c})
  BY <1>1 DEF LinkInv, PresenceTyped
<1>3. Users(room)' = Users(room)
  BY <1>1 DEF Users
<1>4. ASSUME NEW u \in User, Gone(u)' PROVE Gone(u)
  BY <1>1, <1>2, <1>4 DEF Gone, InRoom
<1>5. ASSUME NEW u \in User PROVE RightAbout(c, u)'
  <2>1. u \in Users(room) => u \in Users(room \ {c}) \/ u = UserOf[owner[c]]
    BY DEF Users
  <2>2. Gone(u)' => u \notin Users(room \ {c}) /\ u # UserOf[owner[c]]
    <3>1. \A d \in room : d \in Conn /\ handler[d] \in InRoom
      BY OwnersKnown
    <3>2. Gone(u) => u \notin Users(room \ {c})
      BY <3>1 DEF Gone, Users
    <3>3. Gone(u)' => u # UserOf[owner[c]]
      BY <1>1, <1>2 DEF Gone, InRoom
    <3>. QED
      BY <1>4, <3>2, <3>3
  <2>. QED
    BY <1>1, <1>2, <1>3, <2>1, <2>2 DEF RightAbout
<1>6. ASSUME NEW d \in Conn \ dead, NEW u \in User \ uncertain[d], d # c PROVE RightAbout(d, u)'
  <2>1. CASE handler[d] \notin {"listed", "reading"}
    BY <1>2, <1>6, <2>1 DEF RightAbout
  <2>2. CASE handler[d] \in {"listed", "reading"}
    <3>1. owner[d] \in Tab /\ RightAbout(d, u)
      BY <2>2, OwnersKnown DEF Certain
    <3>. QED
      BY <1>1, <1>2, <1>3, <1>4, <1>6, <3>1, StaysRight
  <2>. QED
    BY <2>1, <2>2
<1>. QED
  BY <1>1, <1>2, <1>5, <1>6 DEF Certain

LEMMA CertainSendJoined ==
  ASSUME LinkInv, Certain, NEW c \in Conn, SendJoined(c) PROVE Certain'
<1>1. PICK f \in Frame : f = [kind |-> "joined", users |-> members[c]] /\ members[c] \in SUBSET User
  BY FramesTyped DEF LinkInv, PresenceTyped
<1>2. /\ handler[c] = "listed" /\ handler' = [handler EXCEPT ![c] = "reading"]
      /\ members' = [members EXCEPT ![c] = {}]
      /\ outbox' = IF c \in dead THEN outbox ELSE [outbox EXCEPT ![c] = Append(outbox[c], f)]
      /\ UNCHANGED <<online, owner, room, dead, uncertain>>
  BY <1>1 DEF SendJoined, page
<1>3. /\ \A d \in Conn : d # c => handler'[d] = handler[d] /\ members'[d] = members[d]
                                  /\ outbox'[d] = outbox[d]
      /\ handler'[c] = "reading"
      /\ c \notin dead => outbox'[c] = Append(outbox[c], f)
      /\ outbox[c] \in Seq(Frame)
  BY <1>2 DEF LinkInv, PresenceTyped
<1>4. Users(room)' = Users(room)
  BY <1>2 DEF Users
<1>5. ASSUME NEW u \in User, Gone(u)' PROVE Gone(u)
  BY <1>2, <1>3, <1>5 DEF Gone, InRoom
<1>6. ASSUME NEW u \in User \ uncertain[c], c \notin dead PROVE RightAbout(c, u)'
  <2>1. /\ u \in Users(room) => u \in members[c] \/ u = UserOf[owner[c]]
        /\ Gone(u) => u \notin members[c] /\ u # UserOf[owner[c]]
    BY <1>2, <1>6 DEF Certain, RightAbout
  <2>2. UserOf[owner[c]] \in User
    BY <1>2, OwnersKnown
  <2>3. ASSUME u \in Users(room) PROVE WillShow(c, u)'
    <3>1. f \in Shows(u, UserOf[owner[c]])
      BY <1>1, <2>1, <2>2, <2>3, FramesSpeak
    <3>. QED
      BY <1>2, <1>3, <1>6, <3>1, SettlesAppend DEF WillShow
  <2>4. ASSUME Gone(u) PROVE WillHide(c, u)'
    <3>1. f \in Hides(u, UserOf[owner[c]])
      BY <1>1, <2>1, <2>2, <2>4, FramesSpeak
    <3>. QED
      BY <1>2, <1>3, <1>6, <3>1, SettlesAppend DEF WillHide
  <2>. QED
    BY <1>3, <1>4, <1>5, <2>3, <2>4 DEF RightAbout
<1>7. ASSUME NEW d \in Conn \ dead, NEW u \in User \ uncertain[d], d # c PROVE RightAbout(d, u)'
  <2>1. CASE handler[d] \notin {"listed", "reading"}
    BY <1>3, <1>7, <2>1 DEF RightAbout
  <2>2. CASE handler[d] \in {"listed", "reading"}
    <3>1. owner[d] \in Tab /\ RightAbout(d, u)
      BY <2>2, OwnersKnown DEF Certain
    <3>. QED
      BY <1>2, <1>3, <1>4, <1>5, <1>7, <3>1, StaysRight
  <2>. QED
    BY <2>1, <2>2
<1>. QED
  BY <1>2, <1>6, <1>7 DEF Certain

(* A connection that is dead is no longer one to be right.                 *)
LEMMA CertainDies ==
  ASSUME LinkInv, Certain, NEW c \in Conn, Leave(c) \/ Cut(c) PROVE Certain'
<1>1. /\ room' \subseteq room /\ dead \subseteq dead' /\ c \in dead'
      /\ \A d \in Conn : d # c => handler'[d] = handler[d] /\ outbox'[d] = outbox[d]
      /\ handler'[c] \in InRoom \cup {"left"} <=> handler[c] \in InRoom \cup {"left"}
      /\ UNCHANGED <<online, owner, members, uncertain>>
  BY DEF Leave, Cut, Die, page, server, InRoom, LinkInv, PresenceTyped
<1>2. \A u \in User : (u \in Users(room)' => u \in Users(room)) /\ (Gone(u)' => Gone(u))
  <2>1. \A d \in Conn : handler[d] \in InRoom \cup {"left"} => handler'[d] \in InRoom \cup {"left"}
    BY <1>1
  <2>. QED
    BY <1>1, <2>1 DEF Users, Gone
<1>3. ASSUME NEW d \in Conn \ dead', NEW u \in User \ uncertain[d] PROVE RightAbout(d, u)'
  <2>1. d # c /\ d \notin dead
    BY <1>1
  <2>2. CASE handler[d] \notin {"listed", "reading"}
    BY <1>1, <2>1, <2>2 DEF RightAbout
  <2>3. CASE handler[d] \in {"listed", "reading"}
    <3>1. owner[d] \in Tab /\ RightAbout(d, u)
      BY <2>1, <2>3, OwnersKnown DEF Certain
    <3>. QED
      BY <1>1, <1>2, <2>1, <3>1, StaysRight
  <2>. QED
    BY <2>2, <2>3
<1>. QED
  BY <1>1, <1>3 DEF Certain

LEMMA CertainStep == LinkInv /\ Certain /\ [PresenceNext]_presenceVars => Certain'
<1> SUFFICES ASSUME LinkInv, Certain, [PresenceNext]_presenceVars PROVE Certain'
  OBVIOUS
<1>1. ASSUME NEW t \in Tab,
             \/ ConnectDocument(t) \/ CloseDocument(t) \/ HandleOpen(t) \/ SetPresenceStatus(t)
             \/ HandleClose(t) \/ Reconnect(t) \/ ExpireAwareness(t)
      PROVE  Certain'
  BY <1>1, CertainConnects, CertainCloseDocument, CertainTabQuiet
<1>2. ASSUME NEW c \in Conn,
             \/ HandleMessage(c) \/ Join(c) \/ ReadMembers(c) \/ SendJoined(c) \/ RelayPresence(c)
             \/ Leave(c) \/ AnnounceLeft(c) \/ Cut(c)
      PROVE  Certain'
  BY <1>2, CertainHandleMessage, CertainJoin, CertainReadMembers, CertainSendJoined, CertainRelay,
     CertainDies, CertainAnnounceLeft
<1>3. CASE UNCHANGED presenceVars
  BY <1>3 DEF presenceVars, Certain, RightAbout, WillShow, WillHide, Gone, Users
<1>. QED
  BY <1>1, <1>2, <1>3 DEF PresenceNext

LEMMA Certainty == PresenceSpec => [](LinkInv /\ Certain)
BY LinkInvInit, LinkInvStep, CertainInit, CertainStep, PTL DEF PresenceSpec

(* When nothing is on its way, a connected tab shows exactly who is in the *)
(* room, but for the users that hub.Leave and sendJoined may be wrong about*)
(* (MemberJoined, MemberLeft and JoinedSnapshot applied in the order of    *)
(* arrival).                                                               *)
THEOREM ShowsWhoIsThere == PresenceSpec => []PresenceConverges
<1>1. LinkInv /\ Certain => PresenceConverges
  <2>. SUFFICES ASSUME LinkInv, Certain, AtRest, NEW t \in Tab, phase[t] = "connected",
                       NEW u \in User \ uncertain[ws[t]]
                PROVE  (u \in online[t]) <=> (u \in Users(room))
    BY DEF PresenceConverges
  <2>1. PICK c \in Conn : c = ws[t]
    BY Link0 DEF LinkInv, Mounts
  <2>2. c \notin dead /\ owner[c] = t
    BY <2>1, PresenceAssumption DEF AtRest, LinkInv, Sockets
  <2>3. handler[c] = "reading" /\ outbox[c] = <<>>
    BY <2>1, <2>2, PresenceAssumption DEF AtRest, LinkInv, Handlers
  <2>4. RightAbout(c, u)
    BY <2>1, <2>2 DEF Certain
  <2>5. u \in Users(room) => u \in online[t]
    <3>1. WillShow(c, u) => u \in online[t]
      BY <2>2, <2>3, SettlesNow DEF WillShow
    <3>. QED
      BY <2>3, <2>4, <3>1 DEF RightAbout
  <2>6. u \notin Users(room) => u \notin online[t]
    <3>1. WillHide(c, u) => u \notin online[t]
      BY <2>2, <2>3, SettlesNow DEF WillHide
    <3>2. u \notin Users(room) => Gone(u)
      BY DEF AtRest, Gone, Users, InRoom
    <3>. QED
      BY <2>3, <2>4, <3>1, <3>2 DEF RightAbout
  <2>. QED
    BY <2>5, <2>6
<1>. QED
  BY <1>1, Certainty, PTL
-----------------------------------------------------------------------------
(* Invites: what keeps the list live.                                      *)

InvitesTyped ==
  /\ requestSeq \in 0 .. MaxRequests
  /\ requests \in [RequestSeq -> [stage : {"none", "asked", "read", "failed"}, read : SUBSET Invite]]
  /\ answers \in [Invite -> [Stage -> Nat]]
  /\ nudges \in Nat
  /\ pending \subseteq Invite /\ unsent \subseteq Invite /\ pending \cap unsent = {}

(* A nudge is on its way only to an open channel, and a channel is there   *)
(* only while the view is.                                                 *)
NudgesFindChannel == (nudges > 0 => channel = "open") /\ (~viewing => channel = "none")

(* The invites answered on the server whose rows are still shown.          *)
Answered == {i \in Invite : answers[i]["done"] > 0}
AnsweredAreGone == Answered \cap (pending \cup unsent) = {}

(* What will make the list right: the latest request is yet to be read, or *)
(* was read and nothing changed since, or its answer is shown; or a nudge  *)
(* will have it asked for again.                                           *)
LatestTells ==
  /\ requestSeq \in RequestSeq
  /\ \/ requests[requestSeq].stage = "asked"
     \/ requests[requestSeq].stage = "read" /\ requests[requestSeq].read = pending
     \/ requests[requestSeq].stage = "none" /\ shown \ Answered = pending
Live == viewing /\ ~outdated => nudges > 0 \/ LatestTells

InvitesInv == InvitesTyped /\ NudgesFindChannel /\ AnsweredAreGone /\ Live

LEMMA InvitesInvInit == InvitesInit => InvitesInv
<1> SUFFICES ASSUME InvitesInit PROVE InvitesInv
  OBVIOUS
<1>1. InvitesTyped
  <2>1. Free \in [stage : {"none", "asked", "read", "failed"}, read : SUBSET Invite]
    BY DEF Free
  <2>. QED
    BY <2>1, InvitesAssumption DEF InvitesInit, InvitesTyped
<1>2. NudgesFindChannel /\ AnsweredAreGone /\ Live
  BY DEF InvitesInit, NudgesFindChannel, AnsweredAreGone, Live, Answered, Stage
<1>. QED
  BY <1>1, <1>2 DEF InvitesInv

(* refresh(): whatever was the case, the new request is yet to be read.    *)
LEMMA RefreshTells ==
  ASSUME InvitesInv, RefreshInvites
  PROVE  /\ requestSeq' \in 0 .. MaxRequests
         /\ requests' \in [RequestSeq -> [stage : {"none", "asked", "read", "failed"}, read : SUBSET Invite]]
         /\ LatestTells'
<1>1. requestSeq + 1 \in RequestSeq
  BY InvitesAssumption DEF InvitesInv, InvitesTyped, RefreshInvites, RequestSeq
<1>. QED
  BY <1>1 DEF InvitesInv, InvitesTyped, RefreshInvites, RequestSeq, LatestTells

(* NotifyUser: a change of what is pending is told, or read, or given up.  *)
LEMMA NotifyTells ==
  ASSUME InvitesInv, NotifyUser, UNCHANGED <<requests, requestSeq>>
  PROVE  /\ nudges' \in Nat /\ (nudges' > 0 => channel = "open")
         /\ ~outdated' => nudges' > 0 \/ LatestTells'
<1>1. ~outdated' => channel = "open" \/ UnreadRequest
  BY Zenon DEF NotifyUser
<1>2. channel = "open" => nudges' > 0
  BY DEF NotifyUser, InvitesInv, InvitesTyped
<1>3. UnreadRequest => LatestTells'
  BY DEF UnreadRequest, LatestTells
<1>4. nudges' \in Nat /\ (nudges' > 0 => channel = "open")
  BY DEF NotifyUser, InvitesInv, InvitesTyped, NudgesFindChannel
<1>. QED
  BY <1>1, <1>2, <1>3, <1>4

LEMMA InvitesInvStep == InvitesInv /\ [InvitesNext]_invitesVars => InvitesInv'
<1> SUFFICES ASSUME InvitesInv, [InvitesNext]_invitesVars PROVE InvitesInv'
  OBVIOUS
<1>. USE DEF InvitesInv, InvitesTyped, NudgesFindChannel, AnsweredAreGone, Live, Answered
<1>1. CASE Activate
  <2>1. /\ requestSeq' \in 0 .. MaxRequests /\ LatestTells'
        /\ requests' \in [RequestSeq -> [stage : {"none", "asked", "read", "failed"}, read : SUBSET Invite]]
    BY <1>1, RefreshTells DEF Activate
  <2>2. nudges = 0 /\ nudges' = 0
    BY <1>1 DEF Activate
  <2>. QED
    BY <1>1, <2>1, <2>2 DEF Activate
<1>2. CASE Deactivate
  BY <1>2 DEF Deactivate
<1>3. ASSUME NEW s \in RequestSeq, ListInvites(s) PROVE InvitesInv'
  <2>1. PICK r \in {[stage |-> "read", read |-> pending], [stage |-> "failed", read |-> {}]} :
          requests' = [requests EXCEPT ![s] = r]
    BY <1>3 DEF ListInvites
  <2>2. requests' \in [RequestSeq -> [stage : {"none", "asked", "read", "failed"}, read : SUBSET Invite]]
        /\ requests'[s] = r /\ \A q \in RequestSeq \ {s} : requests'[q] = requests[q]
    BY <2>1
  <2>3. CASE s # requestSeq
    BY <1>3, <2>2, <2>3 DEF ListInvites, LatestTells
  <2>4. CASE s = requestSeq
    <3>1. ~outdated' => r.stage # "failed"
      BY <1>3, <2>2, <2>4, Zenon DEF ListInvites
    <3>. QED
      BY <1>3, <2>2, <2>4, <3>1 DEF ListInvites, LatestTells
  <2>. QED
    BY <2>3, <2>4
<1>4. ASSUME NEW s \in RequestSeq, SetInvites(s) PROVE InvitesInv'
  BY <1>4 DEF SetInvites, LatestTells, Free
<1>5. CASE HandleChannelOpen \/ ReconnectChannel
  BY <1>5 DEF HandleChannelOpen, ReconnectChannel, LatestTells
<1>6. CASE HandleChannelClose
  <2>1. ~outdated' => ~outdated /\ nudges = 0
    BY <1>6, Zenon DEF HandleChannelClose
  <2>. QED
    BY <1>6, <2>1 DEF HandleChannelClose, LatestTells
<1>7. CASE OnInvitesChanged
  BY <1>7, RefreshTells DEF OnInvitesChanged
<1>8. ASSUME NEW i \in Invite, CreateInvite(i) PROVE InvitesInv'
  BY <1>8, NotifyTells DEF CreateInvite
<1>9. ASSUME NEW i \in Invite, CancelInvite(i) PROVE InvitesInv'
  BY <1>9, NotifyTells DEF CancelInvite
<1>10. ASSUME NEW i \in Invite, RespondToInvite(i) PROVE InvitesInv'
  BY <1>10 DEF RespondToInvite, LatestTells, Stage
<1>11. ASSUME NEW i \in Invite, AnswerInvite(i) PROVE InvitesInv'
  BY <1>11 DEF AnswerInvite, LatestTells, Stage
<1>12. ASSUME NEW i \in Invite, InviteAnswered(i) PROVE InvitesInv'
  BY <1>12 DEF InviteAnswered, LatestTells, Stage, UnderWay
<1>13. CASE UNCHANGED invitesVars
  BY <1>13 DEF invitesVars, LatestTells
<1>. QED
  BY <1>1, <1>2, <1>3, <1>4, <1>5, <1>6, <1>7, <1>8, <1>9, <1>10, <1>11, <1>12, <1>13 DEF InvitesNext

(* Once nothing is on its way the list of invites is what is pending,      *)
(* whatever requests overlapped: requestSeqRef lets only the latest write, *)
(* and every change that a nudge tells of asks for a later one             *)
(* (useInvites.ts, userChannel.ts).                                        *)
THEOREM ListIsLive == InvitesSpec => []InvitesConverge
<1>1. InvitesInv => InvitesConverge
  <2>1. ASSUME InvitesInv, Settled, ~outdated PROVE shown = pending
    <3>1. Answered = {}
      BY <2>1 DEF Settled, UnderWay, Answered, Stage, InvitesInv, InvitesTyped
    <3>. QED
      BY <2>1, <3>1 DEF Settled, InvitesInv, Live, LatestTells
  <2>. QED
    BY <2>1 DEF InvitesConverge
<1>. QED
  BY <1>1, InvitesInvInit, InvitesInvStep, PTL DEF InvitesSpec

-----------------------------------------------------------------------------
(* Induction on numbers: a set of them has a least one.                    *)
LEMMA LeastOne ==
  ASSUME NEW T \in SUBSET Nat, T # {}
  PROVE  \E m \in T : \A y \in T : m <= y
<1> DEFINE R == OpToRel(<, Nat)
<1>1. \A x, y \in Nat : <<x, y>> \in R <=> x < y
  BY DEF OpToRel
<1>2. IsWellFoundedOn(R, Nat)
  BY NatLessThanWellFounded
<1> HIDE DEF R
<1>3. PICK m \in T : \A y \in T : ~ (<<y, m>> \in R)
  BY <1>2, WFMin
<1>4. \A y \in T : ~ (y < m)
  BY <1>1, <1>3
<1>5. \A y \in T : m <= y
  BY <1>4
<1>. QED
  BY <1>5

LEMMA GreatestOne ==
  ASSUME NEW n \in Nat, NEW T \in SUBSET (0 .. n), T # {}
  PROVE  \E m \in T : \A y \in T : m >= y
<1> DEFINE Far == {n - y : y \in T}
<1>1. Far \in SUBSET Nat /\ Far # {}
  <2>1. \A y \in T : n - y \in Nat
    OBVIOUS
  <2>2. PICK y \in T : TRUE
    OBVIOUS
  <2>3. n - y \in Far
    OBVIOUS
  <2>. QED
    BY <2>1, <2>3
<1>2. PICK d \in Far : \A y \in Far : d <= y
  BY <1>1, LeastOne
<1>3. PICK m \in T : d = n - m
  BY <1>2
<1>4. \A y \in T : n - y \in Far
  OBVIOUS
<1> HIDE DEF Far
<1>5. \A y \in T : n - m <= n - y
  BY <1>2, <1>3, <1>4
<1>6. m \in Nat /\ \A y \in T : y \in Nat
  OBVIOUS
<1>7. \A y \in T : m >= y
  BY <1>5, <1>6
<1>. QED
  BY <1>7

-----------------------------------------------------------------------------
(* Overlays.                                                               *)

(* What holds of 0, and of k + 1 if it holds of k.                         *)
LEMMA InductionUpTo ==
  ASSUME NEW n \in Nat, NEW P, 0 \in P, \A k \in 0 .. n - 1 : k \in P => k + 1 \in P
  PROVE  \A k \in 0 .. n : k \in P
<1> DEFINE Wrong == {k \in 0 .. n : k \notin P}
<1>1. SUFFICES ASSUME Wrong # {} PROVE FALSE
  OBVIOUS
<1>2. PICK k \in Wrong : \A j \in Wrong : k <= j
  <2>1. Wrong \in SUBSET Nat
    OBVIOUS
  <2> HIDE DEF Wrong
  <2>. QED
    BY <1>1, <2>1, LeastOne
<1>3. k \in 0 .. n /\ k \notin P /\ k # 0
  BY <1>2
<1>4. k - 1 \in 0 .. n - 1 /\ k - 1 \in 0 .. n /\ ~ (k <= k - 1) /\ k - 1 + 1 = k
  BY <1>3
<1>5. k - 1 \in P
  BY <1>2, <1>4
<1>6. k - 1 + 1 \in P
  BY <1>4, <1>5
<1>. QED
  BY <1>3, <1>4, <1>6

(* What Kept keeps.                                                        *)
Layer == Menu \cup Dialog

Keeps(f, s, X, n) ==
  f = [i \in 0 .. n |-> IF i = 0 THEN <<>> ELSE IF s[i] \in X THEN Append(f[i - 1], s[i]) ELSE f[i - 1]]

LEMMA KeepsDefined ==
  ASSUME NEW s, NEW X, NEW n \in Nat
  PROVE  \E f : Keeps(f, s, X, n)
<1> DEFINE P == {k \in 0 .. n : \E f : Keeps(f, s, X, k)}
           Body(f, i) == IF i = 0 THEN <<>> ELSE IF s[i] \in X THEN Append(f[i - 1], s[i]) ELSE f[i - 1]
<1>1. 0 \in P
  <2> DEFINE f == [i \in 0 .. 0 |-> <<>>]
  <2>1. \A i \in 0 .. 0 : i = 0
    OBVIOUS
  <2>2. f = [i \in 0 .. 0 |-> Body(f, i)]
    BY <2>1
  <2>3. Keeps(f, s, X, 0)
    BY <2>2 DEF Keeps
  <2> HIDE DEF f
  <2>. QED
    BY <2>3
<1>2. ASSUME NEW k \in 0 .. n - 1, k \in P PROVE k + 1 \in P
  <2>1. PICK f : Keeps(f, s, X, k)
    BY <1>2
  <2>2. f = [i \in 0 .. k |-> Body(f, i)]
    BY <2>1 DEF Keeps
  <2> DEFINE g == [i \in 0 .. k + 1 |-> IF i = k + 1 THEN Body(f, i) ELSE f[i]]
  <2>3. ASSUME NEW i \in 0 .. k + 1 PROVE g[i] = Body(g, i)
    <3>1. i = k + 1 \/ i \in 0 .. k
      OBVIOUS
    <3>2. i # k + 1 => f[i] = Body(f, i)
      BY <2>2, <3>1
    <3>3. g[i] = Body(f, i)
      BY <3>2
    <3>4. i # 0 => g[i - 1] = f[i - 1]
      OBVIOUS
    <3> HIDE DEF g
    <3>. QED
      BY <3>3, <3>4
  <2>4. g = [i \in 0 .. k + 1 |-> g[i]]
    OBVIOUS
  <2> HIDE DEF g
  <2>5. g = [i \in 0 .. k + 1 |-> Body(g, i)]
    <3> HIDE DEF Body
    <3>. QED
      BY <2>3, <2>4
  <2>6. Keeps(g, s, X, k + 1)
    BY <2>5 DEF Keeps
  <2>. QED
    BY <2>6
<1>3. n \in 0 .. n
  OBVIOUS
<1> HIDE DEF P
<1>4. n \in P
  BY <1>1, <1>2, <1>3, InductionUpTo
<1>. QED
  BY <1>4 DEF P

OneOfEach(s) == \A i, j \in 1 .. Len(s) : s[i] = s[j] => i = j
LayersOf(s) == {s[i] : i \in 1 .. Len(s)}

LEMMA KeptKeeps ==
  ASSUME NEW s \in Seq(Layer), NEW X
  PROVE  /\ Kept(s, X) \in Seq(Layer) /\ LayersOf(Kept(s, X)) = LayersOf(s) \cap X
         /\ OneOfEach(s) => OneOfEach(Kept(s, X))
<1> DEFINE upTo[i \in 0 .. Len(s)] ==
             IF i = 0 THEN <<>> ELSE IF s[i] \in X THEN Append(upTo[i - 1], s[i]) ELSE upTo[i - 1]
           n == Len(s)
           Good(k) == /\ upTo[k] \in Seq(Layer)
                      /\ LayersOf(upTo[k]) = {s[i] : i \in 1 .. k} \cap X
                      /\ OneOfEach(s) => OneOfEach(upTo[k])
<1>1. n \in Nat /\ \A i \in 1 .. n : s[i] \in Layer
  BY LenProperties, ElementOfSeq
<1>2. PICK f : Keeps(f, s, X, n)
  <2> HIDE DEF n
  <2>. QED
    BY <1>1, KeepsDefined
<1>3. upTo = [i \in 0 .. n |->
               IF i = 0 THEN <<>> ELSE IF s[i] \in X THEN Append(upTo[i - 1], s[i]) ELSE upTo[i - 1]]
  BY <1>2 DEF Keeps
<1>4. Kept(s, X) = upTo[n]
  BY DEF Kept
<1> HIDE DEF upTo
<1> DEFINE P == {k \in 0 .. n : Good(k)}
<1>5. 0 \in P
  <2>1. upTo[0] = <<>>
    <3>1. 0 \in 0 .. n
      BY <1>1
    <3> HIDE DEF n
    <3>. QED
      BY <3>1, <1>3
  <2>2. <<>> \in Seq(Layer) /\ Len(<<>>) = 0 /\ \A i \in 1 .. 0 : FALSE
    BY EmptySeq
  <2>3. Good(0)
    BY <2>1, <2>2 DEF LayersOf, OneOfEach
  <2>. QED
    BY <1>1, <2>3
<1>6. ASSUME NEW k \in 0 .. n - 1, k \in P PROVE k + 1 \in P
  <2>1. Good(k) /\ k + 1 \in 1 .. n /\ k + 1 # 0 /\ k + 1 - 1 = k /\ k + 1 \in 0 .. n
    BY <1>1, <1>6
  <2>2. upTo[k + 1] = IF s[k + 1] \in X THEN Append(upTo[k], s[k + 1]) ELSE upTo[k]
    <3> DEFINE i == k + 1
    <3>1. i \in 0 .. n /\ i # 0 /\ i - 1 = k
      BY <2>1
    <3> HIDE DEF i, n
    <3>2. upTo[i] = IF s[i] \in X THEN Append(upTo[i - 1], s[i]) ELSE upTo[i - 1]
      BY <1>3, <3>1
    <3>. QED
      BY <3>1, <3>2 DEF i
  <2>3. {s[i] : i \in 1 .. k + 1} = {s[i] : i \in 1 .. k} \cup {s[k + 1]}
    <3>1. 1 .. k + 1 = 1 .. k \cup {k + 1}
      BY <2>1, <1>1
    <3>. QED
      BY <3>1
  <2>4. CASE s[k + 1] \notin X
    BY <2>1, <2>2, <2>3, <2>4
  <2>5. CASE s[k + 1] \in X
    <3> DEFINE t == upTo[k]
               l == s[k + 1]
               next == Append(t, l)
    <3>1. t \in Seq(Layer) /\ l \in Layer /\ Len(t) \in Nat /\ LayersOf(t) = {s[i] : i \in 1 .. k} \cap X
      BY <1>1, <2>1, LenProperties
    <3>2. /\ next \in Seq(Layer) /\ Len(next) = Len(t) + 1 /\ next[Len(t) + 1] = l
          /\ \A i \in 1 .. Len(t) : next[i] = t[i]
      BY <3>1, AppendProperties
    <3>3. upTo[k + 1] = next
      BY <2>2, <2>5
    <3>4. ASSUME OneOfEach(s) PROVE l \notin LayersOf(t)
      <4>1. \A i \in 1 .. k : s[i] # s[k + 1]
        BY <3>4, <2>1, <1>1 DEF OneOfEach
      <4>. QED
        BY <4>1, <3>1
    <3>5. OneOfEach(s) => OneOfEach(t)
      BY <2>1
    <3>6. l \in X
      BY <2>5
    <3> HIDE DEF next, t, l
    <3>7. 1 .. Len(next) = 1 .. Len(t) \cup {Len(t) + 1}
      BY <3>1, <3>2
    <3>8. LayersOf(next) = LayersOf(t) \cup {l}
      BY <3>2, <3>7 DEF LayersOf
    <3>9. LayersOf(next) = {s[i] : i \in 1 .. k + 1} \cap X
      BY <3>1, <3>6, <3>8, <2>3 DEF l
    <3>10. OneOfEach(s) => OneOfEach(next)
      <4>1. SUFFICES ASSUME OneOfEach(s) PROVE OneOfEach(next)
        OBVIOUS
      <4>2. (\A i \in 1 .. Len(t) : t[i] # l) /\ OneOfEach(t)
        BY <4>1, <3>4, <3>5 DEF LayersOf
      <4>. QED
        BY <4>2, <3>2, <3>7 DEF OneOfEach
    <3>. QED
      BY <2>1, <3>2, <3>3, <3>9, <3>10
  <2>. QED
    BY <2>4, <2>5
<1>7. n \in 0 .. n
  BY <1>1
<1>8. n \in P
  <2> HIDE DEF P, n
  <2>. QED
    BY <1>1, <1>5, <1>6, <1>7, InductionUpTo
<1>9. Good(n)
  BY <1>8
<1>. QED
  BY <1>4, <1>9 DEF LayersOf

LEMMA RangeIs ==
  ASSUME NEW S, NEW s \in Seq(S)
  PROVE  Range(s) = LayersOf(s)
BY LenProperties DEF Range, LayersOf

(* New layers on top of those that stay.                                   *)
LEMMA PushedOnTop ==
  ASSUME NEW s \in Seq(Layer), NEW new \in SUBSET Layer, NEW n \in Nat,
         NEW pushed \in Bijection(1 .. n, new)
  PROVE  /\ s \o pushed \in Seq(Layer) /\ LayersOf(s \o pushed) = LayersOf(s) \cup new
         /\ OneOfEach(s) /\ LayersOf(s) \cap new = {} => OneOfEach(s \o pushed)
<1>1. /\ pushed \in [1 .. n -> new] /\ {pushed[i] : i \in 1 .. n} = new
      /\ \A i, j \in 1 .. n : pushed[i] = pushed[j] => i = j
  <2>1. pushed \in [1 .. n -> new] /\ DOMAIN pushed = 1 .. n
    BY DEF Bijection, Injection
  <2>2. \A i, j \in 1 .. n : pushed[i] = pushed[j] => i = j
    BY <2>1 DEF Bijection, Injection, IsInjective
  <2>3. {pushed[i] : i \in 1 .. n} = new
    <3>1. \A l \in new : \E i \in 1 .. n : pushed[i] = l
      BY <2>1 DEF Bijection, Surjection
    <3>. QED
      BY <2>1, <3>1
  <2>. QED
    BY <2>1, <2>2, <2>3
<1>2. pushed \in Seq(Layer) /\ Len(pushed) = n /\ LayersOf(pushed) = new /\ OneOfEach(pushed)
  <2>1. pushed \in Seq(new)
    BY <1>1, SeqDef
  <2>2. DOMAIN pushed = 1 .. n
    BY <1>1
  <2>3. Len(pushed) = n
    BY <2>1, <2>2, LenProperties
  <2>4. pushed \in [1 .. n -> Layer]
    BY <1>1
  <2>. QED
    BY <1>1, <2>3, <2>4, SeqDef DEF LayersOf, OneOfEach
<1> DEFINE t == s \o pushed
<1>3. t \in Seq(Layer)
  BY <1>2, ConcatProperties
<1>4. Len(t) = Len(s) + n /\ Len(s) \in Nat
  BY <1>2, ConcatProperties, LenProperties
<1>5. \A i \in 1 .. Len(s) + n : t[i] = IF i <= Len(s) THEN s[i] ELSE pushed[i - Len(s)]
  BY <1>2, ConcatProperties
<1> HIDE DEF t
<1>6. \A i \in 1 .. Len(s) : t[i] = s[i]
  BY <1>4, <1>5
<1>7. \A i \in 1 .. n : t[Len(s) + i] = pushed[i]
  BY <1>4, <1>5
<1>8. \A i \in 1 .. Len(t) : i \in 1 .. Len(s) \/ \E j \in 1 .. n : i = Len(s) + j
  <2>1. \A i \in 1 .. Len(t) : i \notin 1 .. Len(s) => i - Len(s) \in 1 .. n /\ i = Len(s) + (i - Len(s))
    BY <1>4
  <2>. QED
    BY <2>1
<1>9. (\A i \in 1 .. Len(s) : i \in 1 .. Len(t)) /\ (\A i \in 1 .. n : Len(s) + i \in 1 .. Len(t))
  BY <1>4
<1>10. LayersOf(t) = LayersOf(s) \cup new
  <2>1. \A l \in LayersOf(t) : l \in LayersOf(s) \cup new
    BY <1>1, <1>6, <1>7, <1>8 DEF LayersOf
  <2>2. \A l \in LayersOf(s) : l \in LayersOf(t)
    BY <1>6, <1>9 DEF LayersOf
  <2>3. \A l \in new : l \in LayersOf(t)
    BY <1>1, <1>7, <1>9 DEF LayersOf
  <2>. QED
    BY <2>1, <2>2, <2>3
<1>11. ASSUME OneOfEach(s), LayersOf(s) \cap new = {} PROVE OneOfEach(t)
  <2>1. \A i \in 1 .. Len(s), j \in 1 .. n : t[i] # t[Len(s) + j]
    BY <1>1, <1>6, <1>7, <1>11 DEF LayersOf
  <2>2. \A i, j \in 1 .. Len(s) : t[i] = t[j] => i = j
    BY <1>6, <1>11 DEF OneOfEach
  <2>3. \A i, j \in 1 .. n : t[Len(s) + i] = t[Len(s) + j] => i = j
    BY <1>1, <1>7
  <2>4. SUFFICES ASSUME NEW i \in 1 .. Len(t), NEW j \in 1 .. Len(t), t[i] = t[j] PROVE i = j
    BY DEF OneOfEach
  <2>. QED
    BY <2>1, <2>2, <2>3, <2>4, <1>8
<1>. QED
  BY <1>3, <1>10, <1>11 DEF t
(* What is shown is in the stack, once; the menu of a member is in the     *)
(* share dialog; a fade whose dialog is still there is that dialog's; the  *)
(* listeners that have yet to hear Escape are the topmost ones, and the    *)
(* last of them is the layer the user meant.                               *)
Fade == [of : Dialog, gone : BOOLEAN]

Stack ==
  /\ layers \in Seq(Layer) /\ OneOfEach(layers)
  /\ openMenus \subseteq Menu /\ unpopped \subseteq Menu /\ unpopped \cap openMenus = {}
  /\ Shown \subseteq LayersOf(layers) /\ LayersOf(layers) \subseteq Shown \cup unpopped

ShareMenu == "memberMenu" \in openMenus => activeModal = "share" /\ keyReady

FadesOf(timers, fading) ==
  timers \in Seq(Fade) /\ \A i \in 1 .. Len(timers) : timers[i].gone \/ timers[i].of \in fading

Listening ==
  /\ escape \in Seq(Layer)
  /\ escape # <<>> =>
       /\ asked = {Topmost} /\ Len(escape) <= Len(layers)
       /\ \A i \in 1 .. Len(escape) : escape[i] = layers[Len(layers) - Len(escape) + i]

Flags == keyReady \in BOOLEAN /\ paletteOpen \in BOOLEAN /\ keyWarning \in BOOLEAN /\ remounted \in BOOLEAN

PageShown == SlotShown(activeModal, keyReady)
MenuShown == "menu" \in openMenus

Alone ==
  /\ ~ (MenuShown /\ paletteOpen)
  /\ ~remounted \/ ~keyReady => ~ (MenuShown /\ PageShown) /\ ~ (PageShown /\ paletteOpen)

OverInv == Stack /\ ShareMenu /\ FadesOf(fades, closing) /\ Listening /\ Flags /\ Alone

LEMMA LayersFinite == \A S \in SUBSET Layer : IsFiniteSet(S) /\ Cardinality(S) \in Nat
<1>1. IsFiniteSet({"menu"}) /\ IsFiniteSet({"menu"} \cup {"memberMenu"})
  BY FS_Singleton, FS_AddElement
<1>2. IsFiniteSet({"page"}) /\ IsFiniteSet({"page"} \cup {"palette"})
  BY FS_Singleton, FS_AddElement
<1>3. IsFiniteSet({"page"} \cup {"palette"} \cup {"warning"})
  BY <1>2, FS_AddElement
<1>4. Layer = ({"menu"} \cup {"memberMenu"}) \cup ({"page"} \cup {"palette"} \cup {"warning"})
  BY DEF Layer, Menu, Dialog
<1>5. IsFiniteSet(Layer)
  BY <1>1, <1>3, <1>4, FS_Union
<1>. QED
  BY <1>5, FS_Subset, FS_CardinalityType

LEMMA DialogsAre ==
  ASSUME NEW modal, NEW ready, NEW palette, NEW warning
  PROVE  /\ OpenDialogs(modal, ready, palette, warning) \subseteq Dialog
         /\ "page" \in OpenDialogs(modal, ready, palette, warning) <=> SlotShown(modal, ready)
         /\ "palette" \in OpenDialogs(modal, ready, palette, warning) <=> palette
         /\ "warning" \in OpenDialogs(modal, ready, palette, warning) <=> warning
         /\ \A m \in Menu : m \notin OpenDialogs(modal, ready, palette, warning)
BY DEF OpenDialogs, Dialog, Menu, SlotShown

(* Rendering.                                                              *)
RenderedAs(opened, modal, ready, palette, warning) ==
  /\ activeModal' = modal /\ keyReady' = ready /\ paletteOpen' = palette /\ keyWarning' = warning
  /\ openMenus' = opened \ IF modal = "share" /\ ready THEN {} ELSE {"memberMenu"}
  /\ closing' \subseteq closing

LEMMA Rendered ==
  ASSUME OverInv, HeardOut, NEW opened \in SUBSET Menu, NEW modal, NEW ready \in BOOLEAN,
         NEW palette \in BOOLEAN, NEW warning \in BOOLEAN, NEW timers, FadesOf(timers, closing),
         Render(opened, modal, ready, palette, warning, timers)
  PROVE  /\ Stack' /\ ShareMenu' /\ FadesOf(fades', closing') /\ Listening'
         /\ RenderedAs(opened, modal, ready, palette, warning)
<1> DEFINE gone == IF modal = "share" /\ ready THEN {} ELSE {"memberMenu"}
           menus == opened \ gone
           visible == OpenDialogs(modal, ready, palette, warning) \cup menus
           kept == Kept(layers, visible)
           new == visible \ Range(kept)
<1>1. /\ openMenus' = menus
      /\ activeModal' = modal /\ keyReady' = ready /\ paletteOpen' = palette /\ keyWarning' = warning
      /\ \E pushed \in Bijection(1 .. Cardinality(new), new) : layers' = kept \o pushed
      /\ closing' = closing \cap visible
      /\ fades' = [i \in DOMAIN timers |-> [timers[i] EXCEPT !.gone = @ \/ timers[i].of \notin visible]]
      /\ escape' = escape /\ unpopped' = unpopped
  BY DEF Render
<1>2. visible = Shown' /\ visible \subseteq Layer /\ menus \subseteq Menu
  BY <1>1, DialogsAre DEF Shown, Layer
<1>3. ShareMenu'
  BY <1>1 DEF ShareMenu
<1>4. escape = <<>> /\ unpopped = {}
  BY DEF HeardOut
<1> HIDE DEF menus, visible, kept, new
<1>5. kept \in Seq(Layer) /\ LayersOf(kept) = LayersOf(layers) \cap visible /\ OneOfEach(kept)
  BY KeptKeeps DEF kept, OverInv, Stack
<1>6. new = visible \ LayersOf(kept) /\ new \in SUBSET Layer /\ Cardinality(new) \in Nat
  BY <1>2, <1>5, RangeIs, LayersFinite DEF new
<1>7. layers' \in Seq(Layer) /\ LayersOf(layers') = LayersOf(kept) \cup new /\ OneOfEach(layers')
  <2>1. PICK pushed \in Bijection(1 .. Cardinality(new), new) : layers' = kept \o pushed
    BY <1>1
  <2>2. LayersOf(kept) \cap new = {}
    BY <1>6
  <2>. QED
    BY <2>1, <2>2, <1>5, <1>6, PushedOnTop
<1>8. LayersOf(layers') = Shown'
  BY <1>2, <1>5, <1>6, <1>7
<1>9. Stack'
  BY <1>1, <1>2, <1>4, <1>7, <1>8 DEF Stack
<1>10. FadesOf(fades', closing')
  <2>1. timers \in Seq(Fade) /\ DOMAIN timers = 1 .. Len(timers) /\ Len(timers) \in Nat
    BY LenProperties DEF FadesOf
  <2>2. ASSUME NEW i \in 1 .. Len(timers)
        PROVE  /\ fades'[i] \in Fade /\ fades'[i].of = timers[i].of
               /\ fades'[i].gone = (timers[i].gone \/ timers[i].of \notin visible)
    <3>1. timers[i] \in Fade
      BY <2>1, ElementOfSeq
    <3>2. fades'[i] = [timers[i] EXCEPT !.gone = @ \/ timers[i].of \notin visible]
      BY <1>1, <2>1
    <3>. QED
      BY <3>1, <3>2 DEF Fade
  <2>3. fades' \in [1 .. Len(timers) -> Fade]
    BY <1>1, <2>1, <2>2
  <2>4. fades' \in Seq(Fade) /\ Len(fades') = Len(timers)
    BY <2>1, <2>3, SeqDef, LenProperties
  <2>5. \A i \in 1 .. Len(timers) : fades'[i].gone \/ fades'[i].of \in closing'
    <3>1. SUFFICES ASSUME NEW i \in 1 .. Len(timers) PROVE fades'[i].gone \/ fades'[i].of \in closing'
      OBVIOUS
    <3>2. timers[i].gone \/ timers[i].of \in closing
      BY DEF FadesOf
    <3>3. timers[i].of \in closing /\ timers[i].of \in visible => fades'[i].of \in closing'
      BY <1>1, <2>2
    <3>4. timers[i].gone \/ timers[i].of \notin visible => fades'[i].gone
      BY <2>2
    <3>. QED
      BY <3>2, <3>3, <3>4
  <2>. QED
    BY <2>4, <2>5 DEF FadesOf
<1>11. Listening'
  BY <1>1, <1>4, EmptySeq DEF Listening
<1>12. RenderedAs(opened, modal, ready, palette, warning)
  BY <1>1 DEF menus, RenderedAs
<1>. QED
  BY <1>3, <1>9, <1>10, <1>11, <1>12

Closes(l) == l \in Shown \ closing /\ (l \notin Shown' \/ l \in closing')

Missing(l, opened, modal, ready, palette, warning) ==
  \/ l \in openMenus \ opened
  \/ l = "memberMenu" /\ l \in openMenus /\ ~ (modal = "share" /\ ready)
  \/ l = "page" /\ PageShown /\ ~ SlotShown(modal, ready)
  \/ l = "palette" /\ paletteOpen /\ ~ palette
  \/ l = "warning" /\ keyWarning /\ ~ warning

(* What a rendering opens and closes.                                      *)
LEMMA RenderedShows ==
  ASSUME OverInv, HeardOut, NEW opened \in SUBSET Menu, NEW modal, NEW ready \in BOOLEAN,
         NEW palette \in BOOLEAN, NEW warning \in BOOLEAN, NEW timers, FadesOf(timers, closing),
         Render(opened, modal, ready, palette, warning, timers)
  PROVE  /\ MenuShown' <=> "menu" \in opened
         /\ PageShown' <=> SlotShown(modal, ready)
         /\ \A l \in Menu \cup Dialog : Closes(l) => Missing(l, opened, modal, ready, palette, warning)
<1>1. /\ activeModal' = modal /\ keyReady' = ready /\ paletteOpen' = palette /\ keyWarning' = warning
      /\ openMenus' = opened \ IF modal = "share" /\ ready THEN {} ELSE {"memberMenu"}
      /\ closing' \subseteq closing
  <2>1. RenderedAs(opened, modal, ready, palette, warning)
    BY Rendered
  <2>. QED
    BY <2>1 DEF RenderedAs
<1>2. MenuShown' <=> "menu" \in opened
  BY <1>1 DEF MenuShown
<1>3. PageShown' <=> SlotShown(modal, ready)
  BY <1>1 DEF PageShown, SlotShown
<1>4. ASSUME NEW l \in Menu \cup Dialog, Closes(l)
      PROVE  Missing(l, opened, modal, ready, palette, warning)
  <2> USE DEF Missing
  <2>1. l \in Shown /\ l \notin Shown'
    BY <1>1, <1>4 DEF Closes
  <2>2. CASE l \in Menu
    <3>1. l \in openMenus /\ l \notin openMenus'
      BY <2>1, <2>2, DialogsAre DEF Shown
    <3>. QED
      BY <1>1, <3>1
  <2>3. CASE l = "page"
    <3>1. l \notin Menu
      BY <2>3 DEF Menu
    <3>2. PageShown
      BY <2>1, <2>3, <3>1, DialogsAre DEF Shown, PageShown, OverInv, Stack
    <3>3. ~ SlotShown(modal, ready)
      BY <2>1, <2>3, <1>1, DialogsAre DEF Shown
    <3>. QED
      BY <2>3, <3>2, <3>3
  <2>4. CASE l = "palette"
    <3>1. l \notin Menu
      BY <2>4 DEF Menu
    <3>2. paletteOpen
      BY <2>1, <2>4, <3>1, DialogsAre DEF Shown, OverInv, Stack
    <3>3. ~ palette
      BY <2>1, <2>4, <1>1, DialogsAre DEF Shown
    <3>. QED
      BY <2>4, <3>2, <3>3
  <2>5. CASE l = "warning"
    <3>1. l \notin Menu
      BY <2>5 DEF Menu
    <3>2. keyWarning
      BY <2>1, <2>5, <3>1, DialogsAre DEF Shown, OverInv, Stack
    <3>3. ~ warning
      BY <2>1, <2>5, <1>1, DialogsAre DEF Shown
    <3>. QED
      BY <2>5, <3>2, <3>3
  <2>. QED
    BY <2>2, <2>3, <2>4, <2>5 DEF Dialog
<1>. QED
  BY <1>2, <1>3, <1>4

LEMMA RenderedCloses ==
  ASSUME OverInv, HeardOut, NEW opened \in SUBSET Menu, NEW modal, NEW ready \in BOOLEAN,
         NEW palette \in BOOLEAN, NEW warning \in BOOLEAN, NEW timers, FadesOf(timers, closing),
         Render(opened, modal, ready, palette, warning, timers),
         NEW l \in Menu \cup Dialog, Closes(l)
  PROVE  Missing(l, opened, modal, ready, palette, warning)
BY RenderedShows

(* Between two events the stack is what is shown.                            *)
LEMMA StackIsShown ==
  ASSUME OverInv, HeardOut
  PROVE  /\ Range(layers) = Shown /\ LayersOf(layers) = Shown
         /\ ~ HasAnyLayer => Shown = {}
         /\ PageShown => "page" \in Shown
         /\ paletteOpen <=> "palette" \in Shown
         /\ PageClickable => ~ PageShown /\ ~ paletteOpen
<1>1. LayersOf(layers) = Shown /\ Range(layers) = Shown
  BY RangeIs DEF OverInv, Stack, HeardOut
<1>2. ~ HasAnyLayer => Shown = {}
  <2>1. Len(<<>>) = 0 /\ \A i \in 1 .. 0 : FALSE
    BY EmptySeq
  <2>. QED
    BY <1>1, <2>1 DEF HasAnyLayer, LayersOf
<1>3. "palette" \notin Menu
  BY DEF Menu
<1>4. PageShown => "page" \in Shown
  BY DialogsAre DEF Shown, PageShown
<1>5. paletteOpen <=> "palette" \in Shown
  BY <1>3, DialogsAre DEF Shown, OverInv, Stack
<1>6. PageClickable => ~ PageShown /\ ~ paletteOpen
  BY <1>1, <1>4, <1>5 DEF PageClickable, Dialog
<1>. QED
  BY <1>1, <1>2, <1>4, <1>5, <1>6

(* A dialog is asked to close.                                             *)
LEMMA Requested ==
  ASSUME FadesOf(fades, closing), NEW d \in Dialog, RequestClose(d)
  PROVE  FadesOf(fades', closing') /\ closing' = closing \cup {d}
<1>1. CASE d \in closing
  BY <1>1 DEF RequestClose
<1>2. CASE d \notin closing
  <2> DEFINE f == [of |-> d, gone |-> FALSE]
  <2>1. f \in Fade /\ f.of = d /\ f.gone = FALSE /\ fades \in Seq(Fade) /\ Len(fades) \in Nat
    BY LenProperties DEF Fade, FadesOf
  <2>2. closing' = closing \cup {d} /\ fades' = Append(fades, f)
    BY <1>2 DEF RequestClose
  <2> HIDE DEF f
  <2>3. /\ fades' \in Seq(Fade) /\ Len(fades') = Len(fades) + 1 /\ fades'[Len(fades) + 1] = f
        /\ \A i \in 1 .. Len(fades) : fades'[i] = fades[i]
    BY <2>1, <2>2, AppendProperties
  <2>4. \A i \in 1 .. Len(fades') : i \in 1 .. Len(fades) \/ i = Len(fades) + 1
    BY <2>1, <2>3
  <2>5. \A i \in 1 .. Len(fades) : fades'[i].gone \/ fades'[i].of \in closing'
    BY <2>2, <2>3 DEF FadesOf
  <2>6. fades'[Len(fades) + 1].of \in closing'
    BY <2>1, <2>2, <2>3
  <2>7. \A i \in 1 .. Len(fades') : fades'[i].gone \/ fades'[i].of \in closing'
    BY <2>4, <2>5, <2>6
  <2>. QED
    BY <2>2, <2>3, <2>7 DEF FadesOf
<1>. QED
  BY <1>1, <1>2
CloseAsked ==
  \A l \in Menu \cup Dialog :
    Closes(l) => \/ l \in asked'
                 \/ l = "memberMenu" /\ "page" \in closing
                 \/ /\ fades # <<>> /\ Head(fades).gone
                    /\ \/ l = Head(fades).of
                       \/ l = "memberMenu" /\ Head(fades).of = "page"

OpenState == <<activeModal, keyReady, paletteOpen, keyWarning, remounted>>

(* What only takes menus away.                                             *)
LEMMA MenusGo ==
  ASSUME OverInv, openMenus' \subseteq openMenus, UNCHANGED OpenState
  PROVE  /\ ShareMenu' /\ Flags' /\ Alone'
         /\ \A l \in Menu \cup Dialog :
              Closes(l) => l \in openMenus \ openMenus' \/ l \in closing' \ closing
<1>1. ShareMenu' /\ Flags'
  BY DEF OverInv, ShareMenu, Flags, OpenState
<1>2. Alone'
  BY DEF OverInv, Alone, MenuShown, PageShown, SlotShown, OpenState
<1>3. Shown' = OpenDialogs(activeModal, keyReady, paletteOpen, keyWarning) \cup openMenus'
  BY DEF Shown, OpenState
<1>. QED
  BY <1>1, <1>2, <1>3 DEF Closes, Shown

LEMMA PressEscapeKeeps == OverInv /\ PressEscape => OverInv' /\ CloseAsked
<1> SUFFICES ASSUME OverInv, PressEscape PROVE OverInv' /\ CloseAsked
  OBVIOUS
<1>1. /\ openMenus' \subseteq openMenus /\ UNCHANGED OpenState
      /\ UNCHANGED <<layers, openMenus, closing, fades, unpopped>>
  BY DEF PressEscape, OpenState
<1>2. Stack' /\ FadesOf(fades', closing')
  BY <1>1 DEF OverInv, Stack, Shown, OpenState, FadesOf
<1>3. Listening'
  <2>1. layers \in Seq(Layer) /\ Len(layers) \in Nat
    BY LenProperties DEF OverInv, Stack
  <2>2. escape' = layers /\ asked' = {Topmost} /\ layers' = layers /\ Topmost' = Topmost
    BY DEF PressEscape, Topmost
  <2>3. \A i \in 1 .. Len(layers) : Len(layers) - Len(layers) + i = i
    BY <2>1
  <2>. QED
    BY <2>1, <2>2, <2>3 DEF Listening
<1>4. CloseAsked
  BY <1>1, MenusGo DEF CloseAsked
<1>. QED
  BY <1>1, <1>2, <1>3, <1>4, MenusGo DEF OverInv

LEMMA HandleEscapeKeeps == OverInv /\ HandleEscape => OverInv' /\ CloseAsked
<1> SUFFICES ASSUME OverInv, HandleEscape PROVE OverInv' /\ CloseAsked
  OBVIOUS
<1> DEFINE k == Len(escape)
           n == Len(layers)
           top == Head(escape)
<1>1. UNCHANGED OpenState /\ asked' = asked
  BY DEF HandleEscape, OpenState
<1>2. /\ escape # <<>> /\ escape \in Seq(Layer) /\ k \in Nat \ {0} /\ escape' = Tail(escape)
      /\ layers \in Seq(Layer) /\ n \in Nat /\ k <= n /\ asked = {Topmost}
  BY EmptySeq, LenProperties DEF HandleEscape, OverInv, Stack, Listening
<1>3. \A i \in 1 .. k : escape[i] = layers[n - k + i]
  BY <1>2 DEF OverInv, Listening
<1>4. top = escape[1] /\ top \in Layer
  BY <1>2, HeadTailProperties, ElementOfSeq
<1>5. CASE ~ IsTopLayer(top)
  <2>1. UNCHANGED <<openMenus, layers, unpopped, closing, fades>>
    BY <1>5 DEF HandleEscape
  <2>2. Stack' /\ FadesOf(fades', closing')
    BY <1>1, <2>1 DEF OverInv, Stack, Shown, OpenState, FadesOf
  <2>3. Listening'
    <3>1. escape' \in Seq(Layer) /\ Len(escape') = k - 1 /\ \A i \in 1 .. k - 1 : escape'[i] = escape[i + 1]
      BY <1>2, HeadTailProperties
    <3>2. \A i \in 1 .. k - 1 : i + 1 \in 1 .. k /\ n - k + (i + 1) = n - (k - 1) + i
      BY <1>2
    <3>3. \A i \in 1 .. k - 1 : escape'[i] = layers[n - (k - 1) + i]
      BY <3>1, <3>2, <1>3
    <3>4. k - 1 <= n
      BY <1>2
    <3>5. Topmost' = Topmost /\ layers' = layers
      BY <2>1 DEF Topmost
    <3>. QED
      BY <3>1, <3>3, <3>4, <3>5, <1>1, <1>2 DEF Listening
  <2>4. CloseAsked
    BY <1>1, <2>1, MenusGo DEF CloseAsked
  <2>. QED
    BY <1>1, <2>1, <2>2, <2>3, <2>4, MenusGo DEF OverInv
<1>6. CASE IsTopLayer(top)
  <2>1. top = Topmost /\ Hears(top)
    BY <1>6 DEF HandleEscape, IsTopLayer
  <2>2. k = 1
    <3>1. n \in 1 .. n /\ n - k + 1 \in 1 .. n /\ 1 \in 1 .. k
      BY <1>2
    <3>2. layers[n] = layers[n - k + 1]
      BY <3>1, <2>1, <1>3, <1>4 DEF Topmost
    <3>3. n = n - k + 1
      BY <3>1, <3>2 DEF OverInv, Stack, OneOfEach
    <3>4. k \in Nat /\ n \in Nat
      BY <1>2
    <3> HIDE DEF k, n
    <3>. QED
      BY <3>3, <3>4
  <2>3. escape' = <<>>
    <3>1. escape' \in Seq(Layer) /\ Len(escape') = 0
      BY <1>2, <2>2, HeadTailProperties
    <3>. QED
      BY <3>1, EmptySeq
  <2>4. Listening'
    BY <2>3, EmptySeq DEF Listening
  <2>5. top \in asked'
    BY <1>1, <1>2, <2>1
  <2>6. CASE top \in Menu
    <3>1. CloseOnEscape(top)
      BY <2>1, <2>6 DEF Hears
    <3>2. openMenus' = openMenus \ {top} /\ UNCHANGED <<closing, fades>>
      BY <3>1 DEF CloseOnEscape
    <3>3. Shown' = Shown \ {top}
      BY <1>1, <3>2, <2>6, DialogsAre DEF Shown, OpenState
    <3>4. Stack'
      <4>1. CASE layers' = Kept(layers, (Menu \cup Dialog) \ {top}) /\ UNCHANGED unpopped
        <5>1. /\ layers' \in Seq(Layer) /\ OneOfEach(layers')
              /\ LayersOf(layers') = LayersOf(layers) \cap (Layer \ {top})
          BY <4>1, KeptKeeps DEF OverInv, Stack, Layer
        <5>2. LayersOf(layers) \subseteq Layer
          BY <1>2, ElementOfSeq DEF LayersOf
        <5>. QED
          BY <4>1, <5>1, <5>2, <3>2, <3>3 DEF OverInv, Stack
      <4>2. CASE unpopped' = unpopped \cup {top} /\ UNCHANGED layers
        BY <4>2, <3>2, <3>3, <2>6 DEF OverInv, Stack
      <4>. QED
        BY <4>1, <4>2, <3>1 DEF CloseOnEscape
    <3>5. FadesOf(fades', closing')
      BY <3>2 DEF OverInv
    <3>6. CloseAsked
      BY <1>1, <3>2, <2>5, MenusGo DEF CloseAsked
    <3>. QED
      BY <1>1, <2>4, <3>2, <3>4, <3>5, <3>6, MenusGo DEF OverInv
  <2>7. CASE top \notin Menu
    <3>1. top \in Dialog /\ RequestClose(top) /\ UNCHANGED <<openMenus, layers, unpopped>>
      BY <1>4, <2>1, <2>7 DEF Hears, Layer
    <3>2. FadesOf(fades', closing') /\ closing' = closing \cup {top}
      BY <3>1, Requested DEF OverInv
    <3>3. Stack'
      BY <1>1, <3>1 DEF OverInv, Stack, Shown, OpenState
    <3>4. CloseAsked
      BY <1>1, <3>1, <3>2, <2>5, MenusGo DEF CloseAsked
    <3>. QED
      BY <1>1, <2>4, <3>1, <3>2, <3>3, <3>4, MenusGo DEF OverInv
  <2>. QED
    BY <2>6, <2>7
<1>. QED
  BY <1>5, <1>6

LEMMA PopClosedKeeps == OverInv /\ PopClosed => OverInv' /\ CloseAsked
<1> SUFFICES ASSUME OverInv, PopClosed PROVE OverInv' /\ CloseAsked
  OBVIOUS
<1>1. UNCHANGED OpenState /\ UNCHANGED <<openMenus, closing, fades, escape>> /\ escape = <<>> /\ unpopped' = {}
  BY DEF PopClosed, OpenState
<1>2. Stack'
  <2>1. /\ layers' \in Seq(Layer) /\ OneOfEach(layers')
        /\ LayersOf(layers') = LayersOf(layers) \cap (Layer \ unpopped)
    BY KeptKeeps DEF OverInv, Stack, Layer, PopClosed
  <2>2. Shown' = Shown
    BY <1>1 DEF Shown, OpenState
  <2>3. Shown \cap unpopped = {} /\ Shown \subseteq Layer
    BY DialogsAre DEF Shown, Layer, OverInv, Stack
  <2>. QED
    BY <1>1, <2>1, <2>2, <2>3 DEF OverInv, Stack
<1>3. FadesOf(fades', closing') /\ Listening'
  BY <1>1, EmptySeq DEF OverInv, Listening
<1>4. CloseAsked
  BY <1>1, MenusGo DEF CloseAsked
<1>. QED
  BY <1>1, <1>2, <1>3, <1>4, MenusGo DEF OverInv

LEMMA ClickOverlayKeeps ==
  ASSUME OverInv, NEW d \in Dialog, ClickOverlay(d)
  PROVE  OverInv' /\ CloseAsked
<1>1. /\ UNCHANGED OpenState /\ openMenus' = {} /\ UNCHANGED <<escape, unpopped>>
      /\ escape = <<>> /\ unpopped = {} /\ asked' = openMenus \cup {d}
  BY DEF ClickOverlay, OpenState, HeardOut
<1>2. FadesOf(fades', closing') /\ closing' = closing \cup {d}
  BY Requested DEF ClickOverlay, OverInv
<1>3. Stack'
  <2>1. layers' \in Seq(Layer) /\ OneOfEach(layers') /\ LayersOf(layers') = LayersOf(layers) \cap Dialog
    BY KeptKeeps DEF OverInv, Stack, ClickOverlay
  <2>2. Shown' = Shown \cap Dialog
    <3>1. openMenus \cap Dialog = {}
      BY DEF OverInv, Stack, Menu, Dialog
    <3>. QED
      BY <1>1, <3>1, DialogsAre DEF Shown, OpenState
  <2>. QED
    BY <1>1, <2>1, <2>2 DEF OverInv, Stack
<1>4. Listening'
  BY <1>1, EmptySeq DEF Listening
<1>5. CloseAsked
  BY <1>1, <1>2, MenusGo DEF CloseAsked
<1>. QED
  BY <1>1, <1>2, <1>3, <1>4, <1>5, MenusGo DEF OverInv

(* A step that renders keeps all but Flags and Alone by itself.            *)
LEMMA RenderKeeps ==
  ASSUME OverInv, HeardOut, NEW opened \in SUBSET Menu, NEW modal, NEW ready \in BOOLEAN,
         NEW palette \in BOOLEAN, NEW warning \in BOOLEAN, NEW timers, FadesOf(timers, closing),
         Render(opened, modal, ready, palette, warning, timers)
  PROVE  /\ remounted' \in BOOLEAN
         /\ ~ ("menu" \in opened /\ palette)
         /\ ~remounted' \/ ~ready => ~ ("menu" \in opened /\ SlotShown(modal, ready))
                                     /\ ~ (SlotShown(modal, ready) /\ palette)
         => OverInv'
<1>1. /\ Stack' /\ ShareMenu' /\ FadesOf(fades', closing') /\ Listening'
      /\ keyReady' = ready /\ paletteOpen' = palette /\ keyWarning' = warning
  <2>1. /\ Stack' /\ ShareMenu' /\ FadesOf(fades', closing') /\ Listening'
        /\ RenderedAs(opened, modal, ready, palette, warning)
    BY Rendered
  <2>. QED
    BY <2>1 DEF RenderedAs
<1>2. (MenuShown' <=> "menu" \in opened) /\ (PageShown' <=> SlotShown(modal, ready))
  BY RenderedShows
<1>3. remounted' \in BOOLEAN => Flags'
  BY <1>1 DEF Flags
<1>4. /\ ~ ("menu" \in opened /\ palette)
      /\ ~remounted' \/ ~ready => ~ ("menu" \in opened /\ SlotShown(modal, ready))
                                  /\ ~ (SlotShown(modal, ready) /\ palette)
      => Alone'
  BY <1>1, <1>2 DEF Alone
<1>. QED
  BY <1>1, <1>3, <1>4 DEF OverInv

LEMMA ClickTriggerKeeps ==
  ASSUME OverInv, NEW m \in Menu, ClickTrigger(m)
  PROVE  OverInv' /\ CloseAsked
<1> DEFINE opened == IF m \in openMenus THEN {} ELSE {m}
<1>1. /\ HeardOut /\ Render(opened, activeModal, keyReady, paletteOpen, keyWarning, fades)
      /\ asked' = openMenus /\ remounted' = remounted
      /\ m = "menu" => PageClickable
      /\ m # "menu" => activeModal = "share" /\ keyReady
  BY DEF ClickTrigger
<1>2. opened \in SUBSET Menu /\ ("menu" \in opened => m = "menu" /\ ~ MenuShown)
  BY DEF MenuShown
<1> HIDE DEF opened
<1>3. /\ keyReady \in BOOLEAN /\ paletteOpen \in BOOLEAN /\ keyWarning \in BOOLEAN /\ remounted \in BOOLEAN
      /\ FadesOf(fades, closing)
  BY DEF OverInv, Flags
<1>4. "menu" \in opened => ~ PageShown /\ ~ paletteOpen
  BY <1>1, <1>2, StackIsShown
<1>5. OverInv'
  <2>1. ~remounted' \/ ~keyReady => ~ (SlotShown(activeModal, keyReady) /\ paletteOpen)
    BY <1>1 DEF OverInv, Alone, PageShown
  <2>. QED
    BY <1>1, <1>2, <1>3, <1>4, <2>1, RenderKeeps DEF PageShown
<1>6. CloseAsked
  <2>1. ASSUME NEW l \in Menu \cup Dialog, Closes(l) PROVE l \in openMenus
    <3>1. Missing(l, opened, activeModal, keyReady, paletteOpen, keyWarning)
      BY <2>1, <1>1, <1>2, <1>3, RenderedCloses
    <3>. QED
      BY <3>1 DEF Missing, PageShown
  <2>. QED
    BY <1>1, <2>1 DEF CloseAsked
<1>. QED
  BY <1>5, <1>6

LEMMA ClickItemKeeps ==
  ASSUME OverInv, NEW m \in Menu, NEW modal, ClickItem(m, modal)
  PROVE  OverInv' /\ CloseAsked
<1> DEFINE none == {}
<1>0. none \in SUBSET Menu /\ "menu" \notin none
  OBVIOUS
<1>1. /\ HeardOut /\ Render(none, modal, keyReady, paletteOpen, keyWarning, fades)
      /\ m \in openMenus /\ asked' = openMenus /\ remounted' = remounted
      /\ modal # activeModal => m = "menu" /\ modal \in {"shortcuts-help", "delete"}
  BY DEF ClickItem
<1> HIDE DEF none
<1>2. /\ keyReady \in BOOLEAN /\ paletteOpen \in BOOLEAN /\ keyWarning \in BOOLEAN /\ remounted \in BOOLEAN
      /\ FadesOf(fades, closing)
  BY DEF OverInv, Flags
<1>3. modal # activeModal => SlotShown(modal, keyReady) /\ ~ paletteOpen
  BY <1>1 DEF SlotShown, OverInv, Alone, MenuShown
<1>4. ~remounted' \/ ~keyReady => ~ (SlotShown(modal, keyReady) /\ paletteOpen)
  BY <1>1, <1>3 DEF OverInv, Alone, PageShown
<1>5. OverInv'
  BY <1>0, <1>1, <1>2, <1>4, RenderKeeps
<1>6. CloseAsked
  <2>1. PageShown => SlotShown(modal, keyReady)
    BY <1>3 DEF PageShown
  <2>2. ASSUME NEW l \in Menu \cup Dialog, Closes(l) PROVE l \in openMenus
    <3>1. Missing(l, none, modal, keyReady, paletteOpen, keyWarning)
      BY <2>2, <1>0, <1>1, <1>2, RenderedCloses
    <3>. QED
      BY <3>1, <2>1 DEF Missing
  <2>. QED
    BY <1>1, <2>2 DEF CloseAsked
<1>. QED
  BY <1>5, <1>6

LEMMA FadeEndsKeeps == OverInv /\ FadeEnds => OverInv' /\ CloseAsked
<1> SUFFICES ASSUME OverInv, FadeEnds PROVE OverInv' /\ CloseAsked
  OBVIOUS
<1> DEFINE fade == Head(fades)
           modal == IF fade.of = "page" THEN "none" ELSE activeModal
           palette == paletteOpen /\ fade.of # "palette"
           warning == keyWarning /\ (fade.of # "warning" \/ fade.gone)
<1>1. /\ HeardOut /\ fades # <<>> /\ Render(openMenus, modal, keyReady, palette, warning, Tail(fades))
      /\ asked' = asked /\ remounted' = remounted
  BY DEF FadeEnds
<1>2. /\ keyReady \in BOOLEAN /\ paletteOpen \in BOOLEAN /\ keyWarning \in BOOLEAN /\ remounted \in BOOLEAN
      /\ FadesOf(fades, closing) /\ openMenus \in SUBSET Menu
  BY DEF OverInv, Flags, Stack
<1>3. palette \in BOOLEAN /\ warning \in BOOLEAN /\ (palette => paletteOpen)
  BY <1>2
<1>4. SlotShown(modal, keyReady) => PageShown
  BY DEF PageShown, SlotShown
<1>5. fades \in Seq(Fade) /\ Len(fades) \in Nat \ {0}
  BY <1>1, <1>2, EmptySeq, LenProperties DEF FadesOf
<1>6. fade.gone \/ fade.of \in closing
  <2>1. fade = fades[1] /\ 1 \in 1 .. Len(fades)
    BY <1>1, <1>5, HeadTailProperties
  <2>. QED
    BY <2>1, <1>2 DEF FadesOf
<1>7. FadesOf(Tail(fades), closing)
  <2>1. /\ Tail(fades) \in Seq(Fade) /\ Len(Tail(fades)) = Len(fades) - 1
        /\ \A i \in 1 .. Len(Tail(fades)) : Tail(fades)[i] = fades[i + 1]
    BY <1>1, <1>5, HeadTailProperties
  <2>2. \A i \in 1 .. Len(Tail(fades)) : i + 1 \in 1 .. Len(fades)
    BY <1>5, <2>1
  <2>. QED
    BY <2>1, <2>2, <1>2 DEF FadesOf
<1>8. /\ paletteOpen /\ ~ palette => fade.of = "palette"
      /\ keyWarning /\ ~ warning => fade.of = "warning" /\ ~ fade.gone
      /\ PageShown /\ ~ SlotShown(modal, keyReady) => fade.of = "page"
      /\ "memberMenu" \in openMenus /\ ~ (modal = "share" /\ keyReady) => fade.of = "page"
  BY DEF PageShown, OverInv, ShareMenu
<1> HIDE DEF fade, modal, palette, warning
<1>9. OverInv'
  <2>1. ~ ("menu" \in openMenus /\ palette)
    BY <1>3 DEF OverInv, Alone, MenuShown
  <2>2. ~remounted' \/ ~keyReady => ~ ("menu" \in openMenus /\ SlotShown(modal, keyReady))
                                     /\ ~ (SlotShown(modal, keyReady) /\ palette)
    BY <1>1, <1>3, <1>4 DEF OverInv, Alone, MenuShown
  <2>. QED
    BY <2>1, <2>2, <1>1, <1>2, <1>3, <1>7, RenderKeeps
<1>10. CloseAsked
  <2>1. SUFFICES ASSUME NEW l \in Menu \cup Dialog, Closes(l)
                 PROVE  \/ l = "memberMenu" /\ "page" \in closing
                        \/ fade.gone /\ (l = fade.of \/ (l = "memberMenu" /\ fade.of = "page"))
    BY <1>1 DEF CloseAsked, fade
  <2>2. Missing(l, openMenus, modal, keyReady, palette, warning)
    BY <2>1, <1>1, <1>2, <1>3, <1>7, RenderedCloses
  <2>3. l \notin closing
    BY <2>1 DEF Closes
  <2>4. l = fade.of \/ (l = "memberMenu" /\ fade.of = "page")
    BY <2>2, <1>8 DEF Missing
  <2>. QED
    BY <2>2, <2>3, <2>4, <1>6, <1>8 DEF Missing
<1>. QED
  BY <1>9, <1>10

LEMMA TypedOf ==
  ASSUME OverInv
  PROVE  /\ keyReady \in BOOLEAN /\ paletteOpen \in BOOLEAN /\ keyWarning \in BOOLEAN /\ remounted \in BOOLEAN
         /\ FadesOf(fades, closing) /\ openMenus \in SUBSET Menu
BY DEF OverInv, Flags, Stack

LEMMA KnownOf ==
  ASSUME OverInv
  PROVE  /\ paletteOpen \in BOOLEAN /\ remounted \in BOOLEAN
         /\ "memberMenu" \in openMenus => activeModal = "share" /\ keyReady
         /\ ~ ("menu" \in openMenus /\ paletteOpen)
         /\ ~remounted \/ ~keyReady => ~ ("menu" \in openMenus /\ PageShown) /\ ~ (PageShown /\ paletteOpen)
BY DEF OverInv, Flags, Stack, ShareMenu, Alone, MenuShown

LEMMA PressPaletteShortcutKeeps ==
  ASSUME OverInv, PressPaletteShortcut
  PROVE  OverInv' /\ CloseAsked
<1> DEFINE palette == IF paletteOpen THEN FALSE ELSE ~HasAnyLayer
<1>0. HeardOut /\ Render(openMenus, activeModal, keyReady, palette, keyWarning, fades)
  BY DEF PressPaletteShortcut
<1>1. asked' = {"palette"} /\ remounted' = remounted
  BY DEF PressPaletteShortcut
<1>2. palette \in BOOLEAN /\ (palette => openMenus = {} /\ ~ PageShown)
  BY <1>0, <1>1, StackIsShown, KnownOf DEF Shown
<1> HIDE DEF palette
<1>3. remounted' \in BOOLEAN /\ ~ ("menu" \in openMenus /\ palette)
  BY <1>1, <1>2, KnownOf
<1>4. ~remounted' \/ ~keyReady => ~ ("menu" \in openMenus /\ SlotShown(activeModal, keyReady))
                                   /\ ~ (SlotShown(activeModal, keyReady) /\ palette)
  BY <1>1, <1>2, KnownOf DEF PageShown
<1>5. OverInv'
  BY <1>0, <1>2, <1>3, <1>4, TypedOf, RenderKeeps
<1>6. ASSUME NEW l \in Menu \cup Dialog, Closes(l) PROVE l \in asked'
  <2>1. Missing(l, openMenus, activeModal, keyReady, palette, keyWarning)
    BY <1>0, <1>2, <1>6, TypedOf, RenderedCloses
  <2>. QED
    BY <2>1, <1>1, KnownOf DEF Missing, PageShown
<1>. QED
  BY <1>5, <1>6 DEF CloseAsked

LEMMA PressModalShortcutKeeps ==
  ASSUME OverInv, NEW modal, PressModalShortcut(modal)
  PROVE  OverInv' /\ CloseAsked
<1>0. HeardOut /\ Render(openMenus, modal, keyReady, paletteOpen, keyWarning, fades)
  BY DEF PressModalShortcut
<1>1. remounted' = remounted /\ ~ HasAnyLayer
  BY DEF PressModalShortcut
<1>2. Shown = {} /\ openMenus = {} /\ ~ paletteOpen
  BY <1>0, <1>1, StackIsShown, KnownOf DEF Shown
<1>3. remounted' \in BOOLEAN /\ ~ ("menu" \in openMenus /\ paletteOpen)
  BY <1>1, <1>2, KnownOf
<1>4. ~remounted' \/ ~keyReady => ~ ("menu" \in openMenus /\ SlotShown(modal, keyReady))
                                   /\ ~ (SlotShown(modal, keyReady) /\ paletteOpen)
  BY <1>2
<1>5. OverInv'
  BY <1>0, <1>2, <1>3, <1>4, TypedOf, RenderKeeps
<1>6. ASSUME NEW l \in Menu \cup Dialog, Closes(l) PROVE l \in asked'
  BY <1>2, <1>6 DEF Closes
<1>. QED
  BY <1>5, <1>6 DEF CloseAsked

LEMMA ClickInPageKeeps ==
  ASSUME OverInv, NEW modal, ClickInPage(modal)
  PROVE  OverInv' /\ CloseAsked
<1> DEFINE none == {}
<1>0. HeardOut /\ Render(none, modal, keyReady, paletteOpen, keyWarning, fades)
  BY DEF ClickInPage
<1>1. asked' = openMenus /\ remounted' = remounted /\ PageClickable
  BY DEF ClickInPage
<1>2. none \in SUBSET Menu /\ "menu" \notin none
  OBVIOUS
<1> HIDE DEF none
<1>3. remounted' \in BOOLEAN /\ ~ ("menu" \in none /\ paletteOpen)
  BY <1>1, <1>2, KnownOf
<1>4. ~remounted' \/ ~keyReady => ~ ("menu" \in none /\ SlotShown(modal, keyReady))
                                   /\ ~ (SlotShown(modal, keyReady) /\ paletteOpen)
  BY <1>0, <1>1, <1>2, StackIsShown
<1>5. OverInv'
  BY <1>0, <1>2, <1>3, <1>4, TypedOf, RenderKeeps
<1>6. ASSUME NEW l \in Menu \cup Dialog, Closes(l) PROVE l \in asked'
  <2>1. Missing(l, none, modal, keyReady, paletteOpen, keyWarning)
    BY <1>0, <1>2, <1>6, TypedOf, RenderedCloses
  <2>. QED
    BY <2>1, <1>0, <1>1, StackIsShown DEF Missing
<1>. QED
  BY <1>5, <1>6 DEF CloseAsked

LEMMA RunEntryKeeps ==
  ASSUME OverInv, NEW modal, RunEntry(modal)
  PROVE  OverInv' /\ CloseAsked
<1> DEFINE closed == FALSE
<1>0. HeardOut /\ Render(openMenus, modal, keyReady, closed, keyWarning, fades)
  BY DEF RunEntry
<1>1. /\ asked' = {"palette", "page"} /\ remounted' = remounted
      /\ IsTopLayer("palette") /\ modal \in {"share", activeModal}
  BY DEF RunEntry
<1>2. closed \in BOOLEAN /\ ~ closed /\ "menu" \notin openMenus
  <2>1. layers \in Seq(Layer) /\ layers # <<>> /\ layers[Len(layers)] = "palette"
    BY <1>1 DEF IsTopLayer, Topmost, OverInv, Stack
  <2>2. Len(layers) \in 1 .. Len(layers)
    BY <2>1, EmptySeq, LenProperties
  <2>3. "palette" \in Shown
    BY <2>1, <2>2, <1>0, StackIsShown DEF LayersOf
  <2>. QED
    BY <2>3, <1>0, StackIsShown, KnownOf
<1> HIDE DEF closed
<1>3. remounted' \in BOOLEAN /\ ~ ("menu" \in openMenus /\ closed)
  BY <1>1, <1>2, KnownOf
<1>4. ~remounted' \/ ~keyReady => ~ ("menu" \in openMenus /\ SlotShown(modal, keyReady))
                                   /\ ~ (SlotShown(modal, keyReady) /\ closed)
  BY <1>2
<1>5. OverInv'
  BY <1>0, <1>2, <1>3, <1>4, TypedOf, RenderKeeps
<1>6. ASSUME NEW l \in Menu \cup Dialog, Closes(l) PROVE l \in asked'
  <2>1. Missing(l, openMenus, modal, keyReady, closed, keyWarning)
    BY <1>0, <1>2, <1>6, TypedOf, RenderedCloses
  <2>. QED
    BY <2>1, <1>1, KnownOf DEF Missing, PageShown
<1>. QED
  BY <1>5, <1>6 DEF CloseAsked

LEMMA ConfirmDeleteKeeps ==
  ASSUME OverInv, ConfirmDelete
  PROVE  OverInv' /\ CloseAsked
<1> DEFINE modal == "none"
<1>0. HeardOut /\ Render(openMenus, modal, keyReady, paletteOpen, keyWarning, fades)
  BY DEF ConfirmDelete
<1>1. asked' = {"page"} /\ remounted' = remounted /\ activeModal = "delete"
  BY DEF ConfirmDelete
<1>2. ~ SlotShown(modal, keyReady)
  BY DEF SlotShown
<1>3. remounted' \in BOOLEAN /\ ~ ("menu" \in openMenus /\ paletteOpen)
  BY <1>1, KnownOf
<1>4. ~remounted' \/ ~keyReady => ~ ("menu" \in openMenus /\ SlotShown(modal, keyReady))
                                   /\ ~ (SlotShown(modal, keyReady) /\ paletteOpen)
  BY <1>2
<1>5. OverInv'
  BY <1>0, <1>2, <1>3, <1>4, TypedOf, RenderKeeps
<1>6. ASSUME NEW l \in Menu \cup Dialog, Closes(l) PROVE l \in asked'
  <2>1. Missing(l, openMenus, modal, keyReady, paletteOpen, keyWarning)
    BY <1>0, <1>2, <1>6, TypedOf, RenderedCloses
  <2>. QED
    BY <2>1, <1>1, KnownOf DEF Missing
<1>. QED
  BY <1>5, <1>6 DEF CloseAsked

LEMMA KeyRotatedKeeps ==
  ASSUME OverInv, KeyRotated
  PROVE  OverInv' /\ CloseAsked
<1> DEFINE ready == FALSE
<1>0. HeardOut /\ Render(openMenus, activeModal, ready, paletteOpen, keyWarning, fades)
  BY DEF KeyRotated
<1>1. asked' = {"page", "memberMenu"} /\ remounted' = remounted /\ activeModal = "share"
  BY DEF KeyRotated
<1>2. ready \in BOOLEAN /\ ~ SlotShown(activeModal, ready)
  BY <1>1 DEF SlotShown
<1> HIDE DEF ready
<1>3. remounted' \in BOOLEAN /\ ~ ("menu" \in openMenus /\ paletteOpen)
  BY <1>1, KnownOf
<1>4. ~remounted' \/ ~ready => ~ ("menu" \in openMenus /\ SlotShown(activeModal, ready))
                                /\ ~ (SlotShown(activeModal, ready) /\ paletteOpen)
  BY <1>2
<1>5. OverInv'
  BY <1>0, <1>2, <1>3, <1>4, TypedOf, RenderKeeps
<1>6. ASSUME NEW l \in Menu \cup Dialog, Closes(l) PROVE l \in asked'
  <2>1. Missing(l, openMenus, activeModal, ready, paletteOpen, keyWarning)
    BY <1>0, <1>2, <1>6, TypedOf, RenderedCloses
  <2>. QED
    BY <2>1, <1>1, KnownOf DEF Missing
<1>. QED
  BY <1>5, <1>6 DEF CloseAsked

LEMMA KeyFetchedKeeps ==
  ASSUME OverInv, KeyFetched
  PROVE  OverInv' /\ CloseAsked
<1>0. HeardOut /\ Render(openMenus, activeModal, TRUE, paletteOpen, keyWarning, fades)
  BY DEF KeyFetched
<1>1. remounted' = (activeModal = "share") /\ ~ keyReady
  BY DEF KeyFetched
<1>2. /\ TRUE \in BOOLEAN /\ (PageShown => SlotShown(activeModal, TRUE))
      /\ activeModal # "share" => (SlotShown(activeModal, TRUE) => PageShown)
  BY DEF PageShown, SlotShown
<1>3. remounted' \in BOOLEAN /\ ~ ("menu" \in openMenus /\ paletteOpen)
  BY <1>1, KnownOf
<1>4. ~remounted' \/ ~TRUE => ~ ("menu" \in openMenus /\ SlotShown(activeModal, TRUE))
                               /\ ~ (SlotShown(activeModal, TRUE) /\ paletteOpen)
  BY <1>1, <1>2, KnownOf
<1>5. OverInv'
  BY <1>0, <1>2, <1>3, <1>4, TypedOf, RenderKeeps
<1>6. ASSUME NEW l \in Menu \cup Dialog, Closes(l) PROVE l \in asked'
  <2>1. Missing(l, openMenus, activeModal, TRUE, paletteOpen, keyWarning)
    BY <1>0, <1>2, <1>6, TypedOf, RenderedCloses
  <2>. QED
    BY <2>1, <1>1, <1>2, KnownOf DEF Missing
<1>. QED
  BY <1>5, <1>6 DEF CloseAsked

LEMMA WarnOfKeyKeeps ==
  ASSUME OverInv, WarnOfKey
  PROVE  OverInv' /\ CloseAsked
<1>0. HeardOut /\ Render(openMenus, activeModal, keyReady, paletteOpen, TRUE, fades)
  BY DEF WarnOfKey
<1>1. remounted' = remounted
  BY DEF WarnOfKey
<1>2. TRUE \in BOOLEAN
  OBVIOUS
<1>3. remounted' \in BOOLEAN /\ ~ ("menu" \in openMenus /\ paletteOpen)
  BY <1>1, KnownOf
<1>4. ~remounted' \/ ~keyReady => ~ ("menu" \in openMenus /\ SlotShown(activeModal, keyReady))
                                   /\ ~ (SlotShown(activeModal, keyReady) /\ paletteOpen)
  BY <1>1, KnownOf DEF PageShown
<1>5. OverInv'
  BY <1>0, <1>2, <1>3, <1>4, TypedOf, RenderKeeps
<1>6. ASSUME NEW l \in Menu \cup Dialog, Closes(l) PROVE l \in asked'
  <2>1. Missing(l, openMenus, activeModal, keyReady, paletteOpen, TRUE)
    BY <1>0, <1>2, <1>6, TypedOf, RenderedCloses
  <2>. QED
    BY <2>1, <1>1, KnownOf DEF Missing, PageShown
<1>. QED
  BY <1>5, <1>6 DEF CloseAsked

LEMMA TrustWarnedKeyKeeps ==
  ASSUME OverInv, TrustWarnedKey
  PROVE  OverInv' /\ CloseAsked
<1>0. HeardOut /\ Render(openMenus, activeModal, keyReady, paletteOpen, FALSE, fades)
  BY DEF TrustWarnedKey
<1>1. remounted' = remounted /\ asked' = {"warning"}
  BY DEF TrustWarnedKey
<1>2. FALSE \in BOOLEAN
  OBVIOUS
<1>3. remounted' \in BOOLEAN /\ ~ ("menu" \in openMenus /\ paletteOpen)
  BY <1>1, KnownOf
<1>4. ~remounted' \/ ~keyReady => ~ ("menu" \in openMenus /\ SlotShown(activeModal, keyReady))
                                   /\ ~ (SlotShown(activeModal, keyReady) /\ paletteOpen)
  BY <1>1, KnownOf DEF PageShown
<1>5. OverInv'
  BY <1>0, <1>2, <1>3, <1>4, TypedOf, RenderKeeps
<1>6. ASSUME NEW l \in Menu \cup Dialog, Closes(l) PROVE l \in asked'
  <2>1. Missing(l, openMenus, activeModal, keyReady, paletteOpen, FALSE)
    BY <1>0, <1>2, <1>6, TypedOf, RenderedCloses
  <2>. QED
    BY <2>1, <1>1, KnownOf DEF Missing, PageShown
<1>. QED
  BY <1>5, <1>6 DEF CloseAsked

LEMMA OverStep == OverInv /\ [OverlaysNext]_overlayVars => OverInv' /\ CloseAsked
<1> SUFFICES ASSUME OverInv, [OverlaysNext]_overlayVars PROVE OverInv' /\ CloseAsked
  OBVIOUS
<1>1. CASE PressEscape \/ HandleEscape \/ PopClosed \/ FadeEnds \/ PressPaletteShortcut
  BY <1>1, PressEscapeKeeps, HandleEscapeKeeps, PopClosedKeeps, FadeEndsKeeps, PressPaletteShortcutKeeps
<1>2. ASSUME NEW m \in Menu, MenuFaded(m) PROVE OverInv' /\ CloseAsked
  <2>1. /\ openMenus' \subseteq openMenus /\ UNCHANGED OpenState
        /\ UNCHANGED <<layers, openMenus, closing, fades, escape, unpopped, asked>>
    BY <1>2 DEF MenuFaded, OpenState
  <2>2. Stack' /\ FadesOf(fades', closing') /\ Listening'
    BY <2>1 DEF OverInv, Stack, Shown, OpenState, FadesOf, Listening, Topmost
  <2>3. CloseAsked
    BY <2>1, MenusGo DEF CloseAsked
  <2>. QED
    BY <2>1, <2>2, <2>3, MenusGo DEF OverInv
<1>3. CASE \E m \in Menu : \/ ClickTrigger(m)
                         \/ \E modal \in {activeModal, "shortcuts-help", "delete"} : ClickItem(m, modal)
  BY <1>3, ClickTriggerKeeps, ClickItemKeeps
<1>4. CASE \E d \in Dialog : ClickOverlay(d)
  BY <1>4, ClickOverlayKeeps
<1>5. CASE \E modal \in PageModal : PressModalShortcut(modal) \/ ClickInPage(modal)
  BY <1>5, PressModalShortcutKeeps, ClickInPageKeeps
<1>6. CASE \E modal \in {"share", activeModal} : RunEntry(modal)
  BY <1>6, RunEntryKeeps
<1>7. CASE ConfirmDelete \/ KeyRotated \/ KeyFetched \/ WarnOfKey \/ TrustWarnedKey
  BY <1>7, ConfirmDeleteKeeps, KeyRotatedKeeps, KeyFetchedKeeps, WarnOfKeyKeeps, TrustWarnedKeyKeeps
<1>8. CASE UNCHANGED overlayVars
  <2>1. /\ openMenus' \subseteq openMenus /\ UNCHANGED OpenState
        /\ UNCHANGED <<layers, openMenus, closing, fades, escape, unpopped, asked>>
    BY <1>8 DEF overlayVars, OpenState
  <2>2. Stack' /\ FadesOf(fades', closing') /\ Listening'
    BY <2>1 DEF OverInv, Stack, Shown, OpenState, FadesOf, Listening, Topmost
  <2>3. CloseAsked
    BY <2>1, MenusGo DEF CloseAsked
  <2>. QED
    BY <2>1, <2>2, <2>3, MenusGo DEF OverInv
<1>. QED
  BY <1>1, <1>2, <1>3, <1>4, <1>5, <1>6, <1>7, <1>8 DEF OverlaysNext

LEMMA OverInvInit == OverlaysInit => OverInv
<1> SUFFICES ASSUME OverlaysInit PROVE OverInv
  OBVIOUS
<1>1. Shown = {}
  BY DEF OverlaysInit, Shown, OpenDialogs, SlotShown
<1>2. Len(<<>>) = 0 /\ \A i \in 1 .. 0 : FALSE
  BY EmptySeq
<1>3. layers = <<>> /\ fades = <<>> /\ escape = <<>> /\ openMenus = {} /\ unpopped = {}
  BY DEF OverlaysInit
<1>4. Stack /\ ShareMenu
  BY <1>1, <1>2, <1>3, EmptySeq DEF Stack, OneOfEach, LayersOf, ShareMenu
<1>5. FadesOf(fades, closing) /\ Listening
  BY <1>2, <1>3, EmptySeq DEF FadesOf, Listening
<1>6. Flags /\ Alone
  BY DEF OverlaysInit, Flags, Alone, MenuShown, PageShown, SlotShown
<1>. QED
  BY <1>4, <1>5, <1>6 DEF OverInv

LEMMA OverInvariant == OverlaysSpec => []OverInv
BY OverInvInit, OverStep, PTL DEF OverlaysSpec

(* Of the header's menu, the page's dialog and the palette one is open at  *)
(* most, however fast the shortcuts follow the fades, but when the share   *)
(* dialog comes back with its key (floatingLayers.ts, useGlobalShortcuts). *)
THEOREM OneAtATime == OverlaysSpec => []NothingIsStacked
<1>1. ASSUME OverInv PROVE NothingIsStacked
  <2>1. SUFFICES ASSUME ~remounted PROVE Cardinality({"menu", "page", "palette"} \cap Shown) <= 1
    BY DEF NothingIsStacked
  <2> DEFINE open == {"menu", "page", "palette"} \cap Shown
  <2>2. /\ "menu" \in open => MenuShown
        /\ "page" \in open => PageShown
        /\ "palette" \in open => paletteOpen
    <3>1. "menu" \in Menu /\ "page" \notin Menu /\ "palette" \notin Menu
      BY DEF Menu
    <3>. QED
      BY <3>1, <1>1, DialogsAre DEF Shown, MenuShown, PageShown, OverInv, Stack
  <2>3. \A k, l \in open : k = l
    <3>1. \A l \in open : l \in {"menu", "page", "palette"}
      OBVIOUS
    <3> HIDE DEF open
    <3>. QED
      BY <2>1, <2>2, <3>1, <1>1 DEF OverInv, Alone
  <2> HIDE DEF open
  <2>4. CASE open = {}
    BY <2>4, FS_EmptySet DEF open
  <2>5. CASE open # {}
    <3>1. PICK l \in open : open = {l}
      BY <2>3, <2>5
    <3>2. Cardinality(open) = 1
      BY <3>1, FS_Singleton
    <3>. QED
      BY <3>2 DEF open
  <2>. QED
    BY <2>4, <2>5
<1>. QED
  BY <1>1, OverInvariant, PTL

(* Whatever closes or begins to fade was asked to: by Escape only what was *)
(* on top when it was pressed, however many listeners hear the key and     *)
(* whether or not React cleans up between two of them (Modal, Dropdown,    *)
(* floatingLayers.ts).                                                     *)
THEOREM ClosesWhatWasMeant == OverlaysSpec => ClosesOnlyWhenAsked
<1>1. OverInv /\ [OverlaysNext]_overlayVars =>
        [\A l \in Menu \cup Dialog :
           l \in Shown \ closing /\ (l \notin Shown' \/ l \in closing')
             => \/ l \in asked'
                \/ l = "memberMenu" /\ "page" \in closing
                \/ /\ fades # <<>> /\ Head(fades).gone
                   /\ \/ l = Head(fades).of
                      \/ l = "memberMenu" /\ Head(fades).of = "page"]_overlayVars
  BY OverStep DEF CloseAsked, Closes
<1>. QED
  BY <1>1, OverInvariant, PTL DEF OverlaysSpec, ClosesOnlyWhenAsked

-----------------------------------------------------------------------------
(* The find bar.                                                           *)

(* What indexOf and lastIndexOf return.                                    *)
Typed(t, q) == t \in Seq(Letter) /\ q \in Seq(Letter) /\ q # <<>>

LEMMA OccurrencesFit ==
  ASSUME NEW t, NEW q, Typed(t, q)
  PROVE  /\ Len(t) \in Nat /\ Len(q) \in Nat \ {0}
         /\ Occurrences(t, q) \subseteq {i \in 0 .. Len(t) : i + Len(q) <= Len(t)}
<1>1. Len(t) \in Nat /\ Len(q) \in Nat \ {0}
  BY EmptySeq, LenProperties DEF Typed
<1>. QED
  BY <1>1 DEF Occurrences

LEMMA IndexOfFinds ==
  ASSUME NEW t, NEW q, Typed(t, q), NEW i \in Nat
  PROVE  \/ IndexOf(t, q, i) = -1 /\ \A o \in Occurrences(t, q) : o < i
         \/ /\ IndexOf(t, q, i) \in Occurrences(t, q) /\ IndexOf(t, q, i) >= i
            /\ \A o \in Occurrences(t, q) : o >= i => o >= IndexOf(t, q, i)
<1> DEFINE later == {o \in Occurrences(t, q) : o >= i}
<1>1. later \in SUBSET Nat /\ \A o \in Occurrences(t, q) : o \in Nat
  BY OccurrencesFit
<1>2. IndexOf(t, q, i) = IF later = {} THEN -1 ELSE Min(later)
  BY DEF IndexOf
<1>3. CASE later = {}
  BY <1>1, <1>2, <1>3
<1>4. CASE later # {}
  <2> HIDE DEF later
  <2>1. \E m \in later : \A y \in later : m <= y
    BY <1>1, <1>4, LeastOne
  <2>2. Min(later) \in later /\ \A y \in later : Min(later) <= y
    BY <2>1 DEF Min
  <2>. QED
    BY <2>2, <1>2, <1>4 DEF later
<1>. QED
  BY <1>3, <1>4

LEMMA LastIndexOfFinds ==
  ASSUME NEW t, NEW q, Typed(t, q), NEW i \in Int
  PROVE  \/ LastIndexOf(t, q, i) = -1 /\ \A o \in Occurrences(t, q) : o > i
         \/ LastIndexOf(t, q, i) \in Occurrences(t, q)
<1> DEFINE earlier == {o \in Occurrences(t, q) : o <= i \/ o = 0}
<1>1. earlier \in SUBSET (0 .. Len(t)) /\ Len(t) \in Nat
  BY OccurrencesFit
<1>2. LastIndexOf(t, q, i) = IF earlier = {} THEN -1 ELSE Max(earlier)
  BY DEF LastIndexOf
<1>3. CASE earlier = {}
  BY <1>2, <1>3, OccurrencesFit
<1>4. CASE earlier # {}
  <2> HIDE DEF earlier
  <2>1. \E m \in earlier : \A y \in earlier : m >= y
    BY <1>1, <1>4, GreatestOne
  <2>2. Max(earlier) \in earlier
    BY <2>1 DEF Max
  <2>. QED
    BY <2>2, <1>2, <1>4 DEF earlier
<1>. QED
  BY <1>3, <1>4

(* A search that goes round finds an occurrence if there is one.           *)
LEMMA FindsIfAny ==
  ASSUME NEW t, NEW q, Typed(t, q), NEW direction \in {1, -1}, NEW start \in Nat \cup {-1}
  PROVE  LET index == FindMatchIndex(t, q, direction, start)
         IN index \in Occurrences(t, q) \/ (index = -1 /\ Occurrences(t, q) = {})
<1>1. Len(t) \in Nat /\ \A o \in Occurrences(t, q) : o \in 0 .. Len(t)
  BY OccurrencesFit
<1>2. /\ IndexOf(t, q, 0) \in Occurrences(t, q) \/ (IndexOf(t, q, 0) = -1 /\ Occurrences(t, q) = {})
      /\ \/ LastIndexOf(t, q, Len(t)) \in Occurrences(t, q)
         \/ LastIndexOf(t, q, Len(t)) = -1 /\ Occurrences(t, q) = {}
  BY <1>1, IndexOfFinds, LastIndexOfFinds
<1> DEFINE next == IF start = -1 THEN 0 ELSE start + 1
           previous == IF start = -1 THEN Len(t) ELSE start - 1
<1>3. next \in Nat /\ previous \in Int
  BY <1>1
<1> HIDE DEF next, previous
<1>4. /\ IndexOf(t, q, next) \in Occurrences(t, q) \cup {-1}
      /\ LastIndexOf(t, q, previous) \in Occurrences(t, q) \cup {-1}
  BY <1>3, IndexOfFinds, LastIndexOfFinds
<1>5. FindMatchIndex(t, q, direction, start) =
        LET found == IF direction = 1 THEN IndexOf(t, q, next) ELSE LastIndexOf(t, q, previous)
        IN IF found # -1 THEN found
           ELSE IF direction = 1 THEN IndexOf(t, q, 0) ELSE LastIndexOf(t, q, Len(t))
  BY DEF FindMatchIndex, next, previous
<1>. QED
  BY <1>2, <1>4, <1>5

(* What matchesInTurn counts from position i on is defined: by what it     *)
(* counts from later positions.                                            *)
Counts(f, t, q, i) ==
  f[i] = LET index == IndexOf(t, q, i)
         IN IF index = -1 THEN {} ELSE {index} \cup f[index + Len(q)]

LEMMA LaterPosition ==
  ASSUME NEW t, NEW q, Typed(t, q), NEW i \in Nat, IndexOf(t, q, i) # -1
  PROVE  IndexOf(t, q, i) + Len(q) \in i + 1 .. Len(t)
BY OccurrencesFit, IndexOfFinds

LEMMA CountedFrom ==
  ASSUME NEW t, NEW q, Typed(t, q), NEW n \in 0 .. Len(t)
  PROVE  \E f \in [Len(t) - n .. Len(t) -> SUBSET Nat] :
           \A i \in Len(t) - n .. Len(t) : Counts(f, t, q, i)
<1> DEFINE L == Len(t)
           Defined(k) == \E f \in [L - k .. L -> SUBSET Nat] : \A i \in L - k .. L : Counts(f, t, q, i)
           Undefined == {k \in 0 .. L : ~ Defined(k)}
<1>0. L \in Nat
  BY OccurrencesFit
<1>1. SUFFICES ASSUME Undefined # {} PROVE FALSE
  OBVIOUS
<1>2. PICK k \in Undefined : \A j \in Undefined : k <= j
  <2>1. Undefined \in SUBSET Nat
    BY <1>0
  <2>. QED
    BY <1>1, <2>1, LeastOne
<1>3. k \in 0 .. L /\ ~ Defined(k)
  BY <1>2
<1>4. L - k \in 0 .. L
  BY <1>0, <1>3
<1> DEFINE index == IndexOf(t, q, L - k)
<1>5. index # -1 => index + Len(q) \in L - k + 1 .. L /\ index \in Nat
  BY <1>4, LaterPosition, IndexOfFinds, OccurrencesFit
<1> HIDE DEF index
<1>6. ASSUME NEW f \in [L - k + 1 .. L -> SUBSET Nat],
             \A i \in L - k + 1 .. L : Counts(f, t, q, i)
      PROVE  FALSE
  <2> DEFINE here == IF index = -1 THEN {} ELSE {index} \cup f[index + Len(q)]
             g == [i \in L - k .. L |-> IF i = L - k THEN here ELSE f[i]]
  <2>1. here \in SUBSET Nat
    BY <1>5, <1>6
  <2>2. g \in [L - k .. L -> SUBSET Nat]
    BY <2>1, <1>0, <1>3, <1>6
  <2>3. Counts(g, t, q, L - k)
    <3>1. g[L - k] = here
      BY <1>0, <1>3
    <3>2. index # -1 => g[index + Len(q)] = f[index + Len(q)]
      BY <1>0, <1>3, <1>5
    <3>. QED
      BY <3>1, <3>2 DEF Counts, index
  <2>4. ASSUME NEW i \in L - k + 1 .. L PROVE Counts(g, t, q, i)
    <3>1. i \in Nat /\ Counts(f, t, q, i)
      BY <1>0, <1>3, <1>6
    <3>2. IndexOf(t, q, i) # -1 => IndexOf(t, q, i) + Len(q) \in i + 1 .. L
      BY <3>1, LaterPosition
    <3>3. /\ g[i] = f[i]
          /\ IndexOf(t, q, i) # -1 => g[IndexOf(t, q, i) + Len(q)] = f[IndexOf(t, q, i) + Len(q)]
      BY <3>2, <1>0, <1>3
    <3>. HIDE DEF g
    <3>. QED
      BY <3>1, <3>3 DEF Counts
  <2>5. \A i \in L - k .. L : i = L - k \/ i \in L - k + 1 .. L
    BY <1>0, <1>3
  <2>. QED
    BY <2>2, <2>3, <2>4, <2>5, <1>3
<1>7. CASE k = 0
  <2>1. [i \in L + 1 .. L |-> {}] \in [L - k + 1 .. L -> SUBSET Nat]
    BY <1>7, <1>0
  <2>2. \A i \in L - k + 1 .. L : FALSE
    BY <1>7, <1>0
  <2>. QED
    BY <1>6, <2>1, <2>2
<1>8. CASE k # 0
  <2>1. k - 1 \in 0 .. L /\ L - (k - 1) = L - k + 1 /\ ~ (k <= k - 1)
    BY <1>8, <1>3, <1>0
  <2>2. Defined(k - 1)
    BY <2>1, <1>2
  <2>. QED
    BY <2>1, <2>2, <1>6
<1>. QED
  BY <1>7, <1>8

LEMMA CountsEverywhere ==
  ASSUME NEW t, NEW q, Typed(t, q)
  PROVE  \E f :
           MatchesInTurn(t, q) = f[0] /\ \A i \in 0 .. Len(t) : Counts(f, t, q, i)
<1> DEFINE from[i \in 0 .. Len(t)] ==
             LET index == IndexOf(t, q, i)
             IN IF index = -1 THEN {} ELSE {index} \cup from[index + Len(q)]
<1>1. Len(t) \in Nat /\ q # <<>>
  BY OccurrencesFit DEF Typed
<1>2. PICK f \in [0 .. Len(t) -> SUBSET Nat] : \A i \in 0 .. Len(t) : Counts(f, t, q, i)
  <2>1. Len(t) \in 0 .. Len(t) /\ Len(t) - Len(t) = 0
    BY <1>1
  <2>. QED
    BY <2>1, CountedFrom
<1>3. f = [i \in 0 .. Len(t) |-> LET index == IndexOf(t, q, i)
                                 IN IF index = -1 THEN {} ELSE {index} \cup f[index + Len(q)]]
  BY <1>2 DEF Counts
<1>4. from = [i \in 0 .. Len(t) |-> LET index == IndexOf(t, q, i)
                                    IN IF index = -1 THEN {} ELSE {index} \cup from[index + Len(q)]]
  BY <1>3
<1>5. MatchesInTurn(t, q) = from[0]
  BY <1>1 DEF MatchesInTurn
<1> HIDE DEF from
<1>6. \A i \in 0 .. Len(t) : Counts(from, t, q, i)
  BY <1>4 DEF Counts
<1>. QED
  BY <1>5, <1>6

(* From position i on: what is counted is picked leftmost.                 *)
LeftmostFrom(picked, t, q, i) ==
  /\ picked \subseteq {o \in Occurrences(t, q) : o >= i}
  /\ \A o, p \in picked : o < p => o + Len(q) <= p
  /\ \A o \in Occurrences(t, q) : o >= i => \E p \in picked : p <= o /\ o < p + Len(q)

LEMMA CountedIsLeftmost ==
  ASSUME NEW t, NEW q, Typed(t, q), NEW f, \A i \in 0 .. Len(t) : Counts(f, t, q, i)
  PROVE  \A i \in 0 .. Len(t) : LeftmostFrom(f[i], t, q, i)
<1> DEFINE Wrong == {i \in 0 .. Len(t) : ~ LeftmostFrom(f[i], t, q, i)}
<1>0. Len(t) \in Nat /\ Len(q) \in Nat \ {0} /\ \A o \in Occurrences(t, q) : o \in Nat
  BY OccurrencesFit
<1>1. SUFFICES ASSUME Wrong # {} PROVE FALSE
  OBVIOUS
<1>2. PICK i \in Wrong : \A j \in Wrong : i >= j
  <2>1. Wrong \in SUBSET (0 .. Len(t))
    OBVIOUS
  <2> HIDE DEF Wrong
  <2>. QED
    BY <1>0, <1>1, <2>1, GreatestOne
<1>3. i \in 0 .. Len(t) /\ Counts(f, t, q, i) /\ ~ LeftmostFrom(f[i], t, q, i)
  BY <1>2
<1>4. \A j \in i + 1 .. Len(t) : LeftmostFrom(f[j], t, q, j)
  <2>1. TAKE j \in i + 1 .. Len(t)
  <2>2. j \in 0 .. Len(t) /\ ~ (i >= j)
    BY <1>0, <1>3
  <2>. QED
    BY <2>2, <1>2
<1> HIDE DEF Wrong
<1> DEFINE index == IndexOf(t, q, i)
<1>5. CASE index = -1
  <2>1. f[i] = {}
    BY <1>3, <1>5 DEF Counts
  <2>2. \A o \in Occurrences(t, q) : o < i
    BY <1>3, <1>5, IndexOfFinds, <1>0
  <2>. QED
    BY <2>1, <2>2, <1>3, <1>0 DEF LeftmostFrom
<1>6. CASE index # -1
  <2> DEFINE next == index + Len(q)
  <2>1. f[i] = {index} \cup f[next]
    BY <1>3, <1>6 DEF Counts
  <2>2. /\ index \in Occurrences(t, q) /\ index >= i /\ index \in Nat
        /\ \A o \in Occurrences(t, q) : o >= i => o >= index
    BY <1>3, <1>6, IndexOfFinds, <1>0
  <2>3. LeftmostFrom(f[next], t, q, next)
    BY <1>3, <1>4, <1>6, LaterPosition
  <2> HIDE DEF index
  <2>4. f[i] \subseteq {o \in Occurrences(t, q) : o >= i}
    <3>1. \A p \in f[next] : p \in Occurrences(t, q) /\ p >= next
      BY <2>3 DEF LeftmostFrom
    <3>2. ASSUME NEW p \in f[i] PROVE p \in Occurrences(t, q) /\ p >= i
      <4>1. CASE p = index
        BY <4>1, <2>2
      <4>2. CASE p \in f[next]
        <5>1. next \in Nat /\ next >= i
          BY <2>2, <1>0, <1>3
        <5>2. p \in Occurrences(t, q) /\ p >= next /\ p \in Nat
          BY <4>2, <3>1, <1>0
        <5> HIDE DEF next
        <5>. QED
          BY <5>1, <5>2, <1>3
      <4>. QED
        BY <4>1, <4>2, <2>1
    <3>. QED
      BY <3>2
  <2>5. \A o, p \in f[i] : o < p => o + Len(q) <= p
    <3>1. \A p \in f[next] : p >= next /\ p \in Nat
      BY <2>3, <1>0 DEF LeftmostFrom
    <3>2. \A o, p \in f[next] : o < p => o + Len(q) <= p
      BY <2>3 DEF LeftmostFrom
    <3>. QED
      BY <3>1, <3>2, <2>1, <2>2, <1>0
  <2>6. \A o \in Occurrences(t, q) : o >= i => \E p \in f[i] : p <= o /\ o < p + Len(q)
    <3>1. TAKE o \in Occurrences(t, q)
    <3>2. HAVE o >= i
    <3>3. CASE o < next
      BY <3>2, <3>3, <2>1, <2>2
    <3>4. CASE o >= next
      BY <3>4, <2>1, <2>3 DEF LeftmostFrom
    <3>5. o < next \/ o >= next
      BY <1>0, <2>2
    <3>. QED
      BY <3>3, <3>4, <3>5
  <2>. QED
    BY <2>4, <2>5, <2>6, <1>3 DEF LeftmostFrom
<1>. QED
  BY <1>5, <1>6

LEMMA MatchesAreLeftmost ==
  ASSUME NEW t, NEW q, Typed(t, q)
  PROVE  IsLeftmost(MatchesInTurn(t, q), t, q)
<1>1. PICK f : MatchesInTurn(t, q) = f[0] /\ \A i \in 0 .. Len(t) : Counts(f, t, q, i)
  BY CountsEverywhere
<1>2. 0 \in 0 .. Len(t) /\ \A o \in Occurrences(t, q) : o >= 0
  BY OccurrencesFit
<1>3. LeftmostFrom(f[0], t, q, 0)
  BY <1>1, <1>2, CountedIsLeftmost
<1>. QED
  BY <1>1, <1>2, <1>3 DEF IsLeftmost, LeftmostFrom

(* An occurrence is numbered by the match it is in, and there are matches  *)
(* exactly when there are occurrences.                                     *)
LEMMA MatchesCount ==
  ASSUME NEW t, NEW q, Typed(t, q)
  PROVE  /\ CountMatches(t, q) = 0 <=> Occurrences(t, q) = {}
         /\ \A o \in Occurrences(t, q) :
              \E mark \in MatchesInTurn(t, q) :
                /\ mark <= o /\ o < mark + Len(q)
                /\ MatchOrdinalAt(t, q, o) = Cardinality({i \in MatchesInTurn(t, q) : i <= mark})
<1> DEFINE M == MatchesInTurn(t, q)
<1>0. Len(t) \in Nat /\ Len(q) \in Nat \ {0} /\ \A o \in Occurrences(t, q) : o \in 0 .. Len(t)
  BY OccurrencesFit
<1>1. IsLeftmost(M, t, q)
  BY MatchesAreLeftmost
<1> HIDE DEF M
<1>2. M \subseteq 0 .. Len(t)
  BY <1>0, <1>1 DEF IsLeftmost
<1>3. IsFiniteSet(M)
  <2>1. IsFiniteSet(0 .. Len(t))
    BY <1>0, FS_Interval
  <2>. QED
    BY <1>2, <2>1, FS_Subset
<1>4. M = {} <=> Occurrences(t, q) = {}
  BY <1>1 DEF IsLeftmost
<1>5. CountMatches(t, q) = 0 <=> M = {}
  BY <1>3, FS_EmptySet DEF CountMatches, M
<1>6. ASSUME NEW o \in Occurrences(t, q)
      PROVE  \E mark \in M : /\ mark <= o /\ o < mark + Len(q)
                             /\ MatchOrdinalAt(t, q, o) = Cardinality({i \in M : i <= mark})
  <2>1. PICK mark \in M : mark <= o /\ o < mark + Len(q)
    BY <1>1 DEF IsLeftmost
  <2>2. \A i \in M : mark < i => mark + Len(q) <= i
    BY <1>1 DEF IsLeftmost
  <2>3. {i \in M : i <= o} = {i \in M : i <= mark}
    <3>1. ASSUME NEW i \in M PROVE i <= o <=> i <= mark
      <4>1. o \in Nat /\ i \in Nat /\ mark \in Nat
        BY <1>0, <1>2
      <4>. QED
        BY <2>1, <2>2, <4>1, <1>0
    <3>. QED
      BY <3>1
  <2>. QED
    BY <2>1, <2>3 DEF MatchOrdinalAt, M
<1>. QED
  BY <1>4, <1>5, <1>6 DEF M

(* The find bar. It keeps what it found in the text it last looked in, and *)
(* the editor marks the text it has now.                                   *)
Found(t, q, start, count, ordinal) ==
  /\ count = CountMatches(t, q)
  /\ \/ start = -1 /\ Occurrences(t, q) = {}
     \/ start \in Occurrences(t, q) /\ ordinal = MatchOrdinalAt(t, q, start)

FindInv ==
  /\ text \in Seq(Letter) /\ located \in Seq(Letter) /\ findQuery \in Seq(Letter)
  /\ findMatchStart \in Nat \cup {-1}
  /\ find.query # <<>> =>
       /\ find.query = findQuery /\ hasView /\ highlights = MatchesInTurn(text, findQuery)
       /\ Found(located, findQuery, findMatchStart, matchCount, matchOrdinal)

LEMMA UpToAreTexts ==
  ASSUME NEW n \in Nat, NEW s \in UpTo(n)
  PROVE  s \in Seq(Letter)
<1>1. PICK m \in 0 .. n : s \in [1 .. m -> Letter]
  BY DEF UpTo
<1>. QED
  BY <1>1, SeqDef

LEMMA EditedAreTexts ==
  ASSUME text \in Seq(Letter), NEW t \in Edited
  PROVE  t \in Seq(Letter)
<1>1. PICK i \in 0 .. Len(text), n \in {0, 1}, s \in {<<>>} \cup {<<c>> : c \in Letter} :
        t = Replaced(i, i + n, s)
  BY DEF Edited
<1>2. s \in Seq(Letter)
  <2>1. CASE s = <<>>
    BY <2>1, EmptySeq
  <2>2. CASE \E c \in Letter : s = <<c>>
    BY <2>2
  <2>. QED
    BY <2>1, <2>2
<1>3. SubSeq(text, 1, i) \in Seq(Letter) /\ SubSeq(text, i + n + 1, Len(text)) \in Seq(Letter)
  BY LenProperties, SubSeqProperties
<1>. QED
  BY <1>1, <1>2, <1>3, ConcatProperties DEF Replaced

LEMMA LocateKeeps ==
  ASSUME FindInv, NEW q \in Seq(Letter), NEW direction \in {1, -1}, NEW start \in Nat \cup {-1},
         findQuery' = q, text' = text, hasView' = hasView, Locate(q, direction, start)
  PROVE  FindInv'
<1>1. located' = text /\ text \in Seq(Letter)
  BY DEF Locate, FindInv
<1>2. CASE ~ hasView \/ q = <<>>
  <2>1. find' = NoFind /\ findMatchStart' = -1
    BY <1>2 DEF Locate, SetFindHighlight
  <2>. QED
    BY <1>1, <2>1 DEF FindInv, NoFind
<1>3. CASE hasView /\ q # <<>>
  <2> DEFINE index == FindMatchIndex(text, q, direction, start)
  <2>1. Typed(text, q)
    BY <1>1, <1>3 DEF Typed
  <2>2. index \in Occurrences(text, q) \/ (index = -1 /\ Occurrences(text, q) = {})
    BY <2>1, FindsIfAny
  <2>3. index \in Nat \cup {-1}
    BY <2>1, <2>2, OccurrencesFit
  <2>4. /\ find' = [query |-> q, currentFrom |-> index]
        /\ highlights' = MatchesInTurn(text, q)
        /\ findMatchStart' = index /\ matchCount' = CountMatches(text, q)
        /\ matchOrdinal' = IF index = -1 THEN 0 ELSE MatchOrdinalAt(text, q, index)
    BY <1>3 DEF Locate, SetFindHighlight, BuildDecorations
  <2> HIDE DEF index
  <2>5. Found(text, q, index, matchCount', matchOrdinal')
    <3>1. index \in Occurrences(text, q) => index # -1
      BY <2>1, OccurrencesFit
    <3>. QED
      BY <2>2, <2>4, <3>1 DEF Found
  <2>. QED
    BY <1>1, <1>3, <2>3, <2>4, <2>5 DEF FindInv
<1>. QED
  BY <1>2, <1>3

LEMMA FindInvInit == FindInit => FindInv
<1> SUFFICES ASSUME FindInit PROVE FindInv
  OBVIOUS
<1>1. text \in Seq(Letter)
  BY FindAssumption, UpToAreTexts DEF FindInit
<1>. QED
  BY <1>1 DEF FindInit, FindInv, NoFind

LEMMA FindInvNext == FindInv /\ [FindInEditorNext]_findVars => FindInv'
<1> SUFFICES ASSUME FindInv, [FindInEditorNext]_findVars PROVE FindInv'
  OBVIOUS
<1>1. ASSUME NEW t \in Edited, TextChanged(t) PROVE FindInv'
  <2>1. t \in Seq(Letter)
    BY EditedAreTexts DEF FindInv
  <2>. QED
    BY <1>1, <2>1 DEF TextChanged, BuildDecorations, FindInv, barVars
<1>2. CASE EditorDestroyed \/ CloseFind
  BY <1>2 DEF EditorDestroyed, CloseFind, FindInv, NoFind, barVars
<1>3. CASE EditorCreated
  BY <1>3 DEF EditorCreated, FindInv, barVars
<1>4. CASE OpenFind
  BY <1>4 DEF OpenFind, FindInv, editorVars
<1>5. ASSUME NEW q \in UpTo(MaxQuery), HandleFindQueryChange(q) PROVE FindInv'
  <2>1. q \in Seq(Letter)
    BY FindAssumption, UpToAreTexts
  <2>. QED
    BY <1>5, <2>1, LocateKeeps DEF HandleFindQueryChange
<1>6. ASSUME NEW direction \in {1, -1}, FindNext(direction) PROVE FindInv'
  BY <1>6, LocateKeeps DEF FindNext, FindInv
<1>7. CASE UNCHANGED findVars
  BY <1>7 DEF findVars, barVars, editorVars, FindInv
<1>. QED
  BY <1>1, <1>2, <1>3, <1>4, <1>5, <1>6, <1>7 DEF FindInEditorNext

(* However others edit the text under an open find bar, the highlights are *)
(* the leftmost matches of the text as it is now, and the bar's numbers    *)
(* those of the text it last looked in (findInEditor.ts).                  *)
THEOREM FindsTheTruth == FindInEditorSpec => []FindTellsTheTruth
<1>1. FindInv => FindTellsTheTruth
  <2> SUFFICES ASSUME FindInv, find.query # <<>> PROVE FindTellsTheTruth
    BY DEF FindTellsTheTruth
  <2>1. /\ find.query = findQuery /\ highlights = MatchesInTurn(text, findQuery)
        /\ Found(located, findQuery, findMatchStart, matchCount, matchOrdinal)
        /\ Typed(text, findQuery)
    BY DEF FindInv, Typed
  <2>2. IsLeftmost(highlights, text, find.query)
    BY <2>1, MatchesAreLeftmost
  <2>3. ASSUME text = located
        PROVE  /\ matchCount = Cardinality(highlights)
               /\ findMatchStart = -1 <=> matchCount = 0
               /\ findMatchStart # -1 =>
                    /\ findMatchStart \in Occurrences(text, findQuery)
                    /\ \E mark \in highlights :
                         /\ mark <= findMatchStart /\ findMatchStart < mark + Len(findQuery)
                         /\ matchOrdinal = Cardinality({i \in highlights : i <= mark})
    <3>1. matchCount = CountMatches(text, findQuery)
      BY <2>1, <2>3 DEF Found
    <3>2. \/ findMatchStart = -1 /\ Occurrences(text, findQuery) = {}
          \/ /\ findMatchStart \in Occurrences(text, findQuery) /\ findMatchStart # -1
             /\ matchOrdinal = MatchOrdinalAt(text, findQuery, findMatchStart)
      BY <2>1, <2>3, OccurrencesFit DEF Found
    <3>3. matchCount = 0 <=> Occurrences(text, findQuery) = {}
      BY <2>1, <3>1, MatchesCount
    <3>4. ASSUME findMatchStart # -1
          PROVE  \E mark \in highlights :
                   /\ mark <= findMatchStart /\ findMatchStart < mark + Len(findQuery)
                   /\ matchOrdinal = Cardinality({i \in highlights : i <= mark})
      BY <2>1, <3>2, <3>4, MatchesCount
    <3>. QED
      BY <2>1, <3>1, <3>2, <3>3, <3>4 DEF CountMatches
  <2>. QED
    BY <2>2, <2>3 DEF FindTellsTheTruth
<1>. QED
  BY <1>1, FindInvInit, FindInvNext, PTL DEF FindInEditorSpec

-----------------------------------------------------------------------------
(* VersionDeltas: the log.                                                 *)
Update == [author : Writer, after : Seq(Glyph), at : Nat]

LogInv ==
  /\ made \in Seq(Update) /\ removed \in Nat /\ covered \in Nat
  /\ removed <= covered /\ covered <= Len(made)

LEMMA LogInvInit == VersionDeltasInit => LogInv
BY EmptySeq DEF VersionDeltasInit, LogInv

LEMMA LogInvNext == LogInv /\ [VersionDeltasNext]_versionDeltasVars => LogInv'
<1> SUFFICES ASSUME LogInv, [VersionDeltasNext]_versionDeltasVars PROVE LogInv'
  OBVIOUS
<1>1. ASSUME NEW author \in Writer, NEW gap \in 1 .. MaxGap, NEW after \in Draft, Write(author, gap, after)
      PROVE  LogInv'
  <2> DEFINE at == gap + IF made = <<>> THEN 0 ELSE made[Len(made)].at
             update == [author |-> author, after |-> after, at |-> at]
  <2>1. after \in Seq(Glyph)
    <3>1. PICK n \in 0 .. MaxGlyphs : after \in [1 .. n -> Glyph]
      BY DEF Draft
    <3>. QED
      BY <3>1, SeqDef, VersionDeltasAssumption
  <2>2. at \in Nat
    <3>1. made # <<>> => made[Len(made)] \in Update
      BY EmptySeq, LenProperties, ElementOfSeq DEF LogInv
    <3>2. gap \in Nat
      BY VersionDeltasAssumption
    <3>. QED
      BY <3>1, <3>2 DEF Update
  <2> HIDE DEF at
  <2>3. update \in Update
    BY <2>1, <2>2 DEF Update
  <2>4. made' = Append(made, update) /\ UNCHANGED <<removed, covered>>
    BY <1>1 DEF Write, at
  <2> HIDE DEF update
  <2>5. made' \in Seq(Update) /\ Len(made') = Len(made) + 1
    BY <2>3, <2>4, AppendProperties DEF LogInv
  <2>. QED
    BY <2>4, <2>5, LenProperties DEF LogInv
<1>2. ASSUME NEW upTo \in 1 .. MaxLog, NEW holds \in 1 .. MaxLog, CompactLog(upTo, holds) PROVE LogInv'
  BY <1>2, VersionDeltasAssumption DEF CompactLog, LogInv
<1>3. CASE UNCHANGED versionDeltasVars
  BY <1>3 DEF versionDeltasVars, LogInv
<1>. QED
  BY <1>1, <1>2, <1>3 DEF VersionDeltasNext

LEMMA TextsTyped ==
  ASSUME LogInv, NEW id \in 0 .. Len(made)
  PROVE  TextAfter(id) \in Seq(Glyph)
<1> DEFINE reached == IF id < covered THEN covered ELSE id
<1>1. reached \in 0 .. Len(made) /\ Len(made) \in Nat
  BY LenProperties DEF LogInv
<1>2. reached # 0 => made[reached] \in Update
  BY <1>1, ElementOfSeq DEF LogInv
<1>3. TextAfter(id) = IF reached = 0 THEN <<>> ELSE made[reached].after
  BY DEF TextAfter
<1> HIDE DEF reached
<1>. QED
  BY <1>2, <1>3, EmptySeq DEF Update

(* Common prefixes and suffixes.                                           *)
Agree(prev, next, n) == \A k \in 1 .. n : prev[k] = next[k]
AgreeBack(prev, next, n) == \A k \in 0 .. n - 1 : prev[Len(prev) - k] = next[Len(next) - k]

LEMMA CommonFits ==
  ASSUME NEW S, NEW prev \in Seq(S), NEW next \in Seq(S)
  PROVE  CommonLength(prev, next) \in Nat
         /\ CommonLength(prev, next) <= Len(prev) /\ CommonLength(prev, next) <= Len(next)
BY LenProperties DEF CommonLength

(* A loop that counts on while its test holds, from n up to m.             *)
LoopsOn(f, m, Test) == \A n \in 0 .. m : f[n] = IF n < m /\ n \in Test THEN f[n + 1] ELSE n

LEMMA LoopEnds ==
  ASSUME NEW m \in Nat, NEW Test
  PROVE  \E f \in [0 .. m -> 0 .. m] : LoopsOn(f, m, Test)
<1> DEFINE Stops(n) == {k \in n .. m : k = m \/ k \notin Test}
           f == [n \in 0 .. m |-> CHOOSE k \in Stops(n) : \A j \in Stops(n) : k <= j]
<1>1. ASSUME NEW n \in 0 .. m
      PROVE  f[n] \in Stops(n) /\ \A j \in Stops(n) : f[n] <= j
  <2>1. Stops(n) \in SUBSET Nat /\ m \in Stops(n)
    OBVIOUS
  <2>2. \E k \in Stops(n) : \A j \in Stops(n) : k <= j
    BY <2>1, LeastOne
  <2> HIDE DEF Stops
  <2>. QED
    BY <2>2
<1> HIDE DEF f
<1>2. ASSUME NEW n \in 0 .. m
      PROVE  f[n] = IF n < m /\ n \in Test THEN f[n + 1] ELSE n
  <2>1. CASE n < m /\ n \in Test
    <3>1. n + 1 \in 0 .. m
      BY <2>1
    <3>2. Stops(n) = Stops(n + 1)
      BY <2>1
    <3>3. /\ f[n] \in Stops(n) /\ \A j \in Stops(n) : f[n] <= j
          /\ f[n + 1] \in Stops(n) /\ \A j \in Stops(n) : f[n + 1] <= j
      BY <1>1, <3>1, <3>2
    <3>4. f[n] <= f[n + 1] /\ f[n + 1] <= f[n] /\ f[n] \in Nat /\ f[n + 1] \in Nat
      BY <3>3
    <3>. QED
      BY <2>1, <3>4
  <2>2. CASE ~ (n < m /\ n \in Test)
    <3>1. n \in Stops(n)
      BY <2>2
    <3>2. f[n] \in n .. m /\ f[n] <= n
      BY <1>1, <3>1
    <3>. QED
      BY <2>2, <3>2
  <2>. QED
    BY <2>1, <2>2
<1>3. f \in [0 .. m -> 0 .. m]
  <2>1. \A n \in 0 .. m : f[n] \in 0 .. m
    BY <1>1
  <2>. QED
    BY <2>1 DEF f
<1>. QED
  BY <1>2, <1>3 DEF LoopsOn

LEMMA LoopCounts ==
  ASSUME NEW m \in Nat, NEW Test, NEW f, LoopsOn(f, m, Test)
  PROVE  f[0] \in 0 .. m /\ \A k \in 0 .. f[0] - 1 : k \in Test
<1> DEFINE Right(n) == f[n] \in n .. m /\ \A k \in n .. f[n] - 1 : k \in Test
           Wrong == {n \in 0 .. m : ~ Right(n)}
<1>1. SUFFICES ASSUME Wrong # {} PROVE FALSE
  <2>1. 0 \in 0 .. m
    OBVIOUS
  <2>. QED
    BY <2>1
<1>2. PICK n \in Wrong : \A j \in Wrong : n >= j
  <2>1. Wrong \in SUBSET (0 .. m)
    OBVIOUS
  <2> HIDE DEF Wrong
  <2>. QED
    BY <1>1, <2>1, GreatestOne
<1>3. n \in 0 .. m /\ ~ Right(n)
  BY <1>2
<1>4. CASE n < m /\ n \in Test
  <2>1. f[n] = f[n + 1] /\ n + 1 \in 0 .. m /\ ~ (n >= n + 1)
    BY <1>3, <1>4 DEF LoopsOn
  <2>2. Right(n + 1)
    BY <2>1, <1>2
  <2>. QED
    BY <2>1, <2>2, <1>3, <1>4
<1>5. CASE ~ (n < m /\ n \in Test)
  BY <1>3, <1>5 DEF LoopsOn
<1>. QED
  BY <1>4, <1>5

LEMMA PrefixAgrees ==
  ASSUME NEW S, NEW prev \in Seq(S), NEW next \in Seq(S)
  PROVE  /\ PrefixLen(prev, next) \in 0 .. CommonLength(prev, next)
         /\ Agree(prev, next, PrefixLen(prev, next))
<1> DEFINE m == CommonLength(prev, next)
           Test == {n \in 0 .. m : prev[n + 1] = next[n + 1]}
           from[n \in 0 .. CommonLength(prev, next)] ==
             IF n < CommonLength(prev, next) /\ prev[n + 1] = next[n + 1] THEN from[n + 1] ELSE n
<1>1. m \in Nat
  BY CommonFits
<1>2. PICK f \in [0 .. m -> 0 .. m] : LoopsOn(f, m, Test)
  BY <1>1, LoopEnds
<1>3. f = [n \in 0 .. m |-> IF n < m /\ prev[n + 1] = next[n + 1] THEN f[n + 1] ELSE n]
  BY <1>1, <1>2 DEF LoopsOn
<1>4. from = [n \in 0 .. m |-> IF n < m /\ prev[n + 1] = next[n + 1] THEN from[n + 1] ELSE n]
  BY <1>3
<1>5. PrefixLen(prev, next) = from[0]
  BY DEF PrefixLen
<1> HIDE DEF from
<1>6. LoopsOn(from, m, Test)
  BY <1>1, <1>4 DEF LoopsOn
<1> HIDE DEF m
<1>7. from[0] \in 0 .. m /\ \A k \in 0 .. from[0] - 1 : k \in Test
  BY <1>1, <1>6, LoopCounts
<1>8. ASSUME NEW k \in 1 .. from[0] PROVE prev[k] = next[k]
  <2>1. k - 1 \in 0 .. from[0] - 1 /\ k - 1 + 1 = k
    BY <1>1, <1>7
  <2>2. k - 1 \in Test
    BY <2>1, <1>7
  <2>. QED
    BY <2>1, <2>2
<1>. QED
  BY <1>5, <1>7, <1>8 DEF Agree, m

LEMMA SuffixAgrees ==
  ASSUME NEW S, NEW prev \in Seq(S), NEW next \in Seq(S)
  PROVE  /\ SuffixLen(prev, next) \in 0 .. CommonLength(prev, next) - PrefixLen(prev, next)
         /\ AgreeBack(prev, next, SuffixLen(prev, next))
<1> DEFINE maxSuffix == CommonLength(prev, next) - PrefixLen(prev, next)
           Test == {n \in 0 .. maxSuffix : prev[Len(prev) - n] = next[Len(next) - n]}
           from[n \in 0 .. maxSuffix] ==
             IF n < maxSuffix /\ prev[Len(prev) - n] = next[Len(next) - n] THEN from[n + 1] ELSE n
<1>1. maxSuffix \in Nat
  BY CommonFits, PrefixAgrees
<1>2. PICK f \in [0 .. maxSuffix -> 0 .. maxSuffix] : LoopsOn(f, maxSuffix, Test)
  BY <1>1, LoopEnds
<1>3. f = [n \in 0 .. maxSuffix |->
             IF n < maxSuffix /\ prev[Len(prev) - n] = next[Len(next) - n] THEN f[n + 1] ELSE n]
  BY <1>1, <1>2 DEF LoopsOn
<1>4. from = [n \in 0 .. maxSuffix |->
                IF n < maxSuffix /\ prev[Len(prev) - n] = next[Len(next) - n] THEN from[n + 1] ELSE n]
  BY <1>3
<1>5. SuffixLen(prev, next) = from[0]
  BY DEF SuffixLen
<1> HIDE DEF from
<1>6. LoopsOn(from, maxSuffix, Test)
  BY <1>1, <1>4 DEF LoopsOn
<1> HIDE DEF maxSuffix
<1>7. from[0] \in 0 .. maxSuffix /\ \A k \in 0 .. from[0] - 1 : k \in Test
  BY <1>1, <1>6, LoopCounts
<1>. QED
  BY <1>5, <1>7 DEF AgreeBack, maxSuffix

(* What textDelta and changedRange say of two texts makes the one out of   *)
(* the other.                                                              *)
LEMMA DeltaIsChange ==
  ASSUME NEW S, NEW prev \in Seq(S), NEW next \in Seq(S)
  PROVE  /\ IsChange(prev, next, ChangedRange(prev, next), TextDelta(prev, next))
         /\ TextDelta(prev, next).added \in Nat /\ TextDelta(prev, next).removed \in Nat
         /\ Len(next) = Len(prev) + TextDelta(prev, next).added - TextDelta(prev, next).removed
<1> DEFINE p == PrefixLen(prev, next)
           s == SuffixLen(prev, next)
           added == Len(next) - (p + s)
           gone == Len(prev) - (p + s)
           from == SubSeq(prev, 1, p)
           new == SubSeq(next, p + 1, p + added)
           to == SubSeq(prev, p + gone + 1, Len(prev))
<1>1. /\ Len(prev) \in Nat /\ Len(next) \in Nat /\ p \in Nat /\ s \in Nat
      /\ p + s <= Len(prev) /\ p + s <= Len(next)
  <2>1. Len(prev) \in Nat /\ Len(next) \in Nat
    BY LenProperties
  <2> DEFINE most == CommonLength(prev, next)
  <2>2. most \in Nat /\ most <= Len(prev) /\ most <= Len(next)
    BY CommonFits
  <2>3. p \in 0 .. most
    BY PrefixAgrees
  <2>4. s \in 0 .. most - p
    BY SuffixAgrees
  <2> HIDE DEF most, p, s
  <2>. QED
    BY <2>1, <2>2, <2>3, <2>4
<1>2. /\ TextDelta(prev, next) = [added |-> added, removed |-> gone]
      /\ ChangedRange(prev, next) = [start |-> p, end |-> Len(next) - s]
  BY DEF TextDelta, ChangedRange
<1>3. \A k \in 1 .. p : prev[k] = next[k]
  BY PrefixAgrees DEF Agree
<1>4. \A k \in 0 .. s - 1 : prev[Len(prev) - k] = next[Len(next) - k]
  BY SuffixAgrees DEF AgreeBack
<1>5. \A k \in 1 .. Len(prev) : prev[k] \in S
  BY ElementOfSeq
<1>6. \A k \in 1 .. Len(next) : next[k] \in S
  BY ElementOfSeq
<1> HIDE DEF p, s
<1>7. added \in Nat /\ gone \in Nat /\ p + added = Len(next) - s /\ p + gone = Len(prev) - s
  BY <1>1
<1>8. /\ from \in Seq(S) /\ Len(from) = p
      /\ \A i \in 1 .. p : from[i] = prev[i]
  <2>1. \A i \in 1 .. p : prev[i] \in S
    BY <1>1, <1>5
  <2>2. /\ Len(from) = IF 1 <= p THEN p - 1 + 1 ELSE 0
        /\ \A i \in 1 .. p - 1 + 1 : from[i] = prev[1 + i - 1]
        /\ from \in Seq(S)
    BY <1>1, <2>1, SubSeqProperties
  <2> HIDE DEF from
  <2>. QED
    BY <2>2, <1>1
<1>9. /\ new \in Seq(S) /\ Len(new) = added
      /\ \A i \in 1 .. added : new[i] = next[p + i]
  <2>1. \A i \in p + 1 .. p + added : next[i] \in S
    BY <1>1, <1>6, <1>7
  <2>2. /\ Len(new) = IF p + 1 <= p + added THEN p + added - (p + 1) + 1 ELSE 0
        /\ \A i \in 1 .. p + added - (p + 1) + 1 : new[i] = next[p + 1 + i - 1]
        /\ new \in Seq(S)
    BY <1>1, <1>7, <2>1, SubSeqProperties
  <2> HIDE DEF new, added
  <2>. QED
    BY <2>2, <1>1, <1>7
<1>10. /\ to \in Seq(S) /\ Len(to) = s
       /\ \A i \in 1 .. s : to[i] = prev[p + gone + i]
  <2>1. \A i \in p + gone + 1 .. Len(prev) : prev[i] \in S
    BY <1>1, <1>5, <1>7
  <2>2. /\ Len(to) = IF p + gone + 1 <= Len(prev) THEN Len(prev) - (p + gone + 1) + 1 ELSE 0
        /\ \A i \in 1 .. Len(prev) - (p + gone + 1) + 1 : to[i] = prev[p + gone + 1 + i - 1]
        /\ to \in Seq(S)
    BY <1>1, <1>7, <2>1, SubSeqProperties
  <2>3. /\ Len(prev) - (p + gone + 1) + 1 = s /\ p + gone + 1 <= Len(prev) <=> s > 0
        /\ \A i \in 1 .. s : p + gone + 1 + i - 1 = p + gone + i
    BY <1>1, <1>7
  <2>4. Len(to) = s
    <3> HIDE DEF to, gone
    <3>. QED
      BY <2>2, <2>3, <1>1, <1>7
  <2>5. \A i \in 1 .. s : to[i] = prev[p + gone + i]
    <3> HIDE DEF to, gone
    <3>. QED
      BY <2>2, <2>3, <1>1, <1>7
  <2>. QED
    BY <2>2, <2>4, <2>5
<1> HIDE DEF from, new, to
<1> DEFINE start == from \o new
           whole == start \o to
<1>11. /\ start \in Seq(S) /\ Len(start) = p + added
       /\ \A i \in 1 .. p + added : start[i] = IF i <= p THEN from[i] ELSE new[i - p]
  <2>1. from \in Seq(S) /\ new \in Seq(S)
    BY <1>8, <1>9
  <2>2. start \in Seq(S) /\ Len(start) = Len(from) + Len(new)
    BY <2>1, ConcatProperties
  <2>3. \A i \in 1 .. Len(from) + Len(new) : start[i] = IF i <= Len(from) THEN from[i] ELSE new[i - Len(from)]
    BY <2>1, ConcatProperties
  <2> HIDE DEF start, added
  <2>. QED
    BY <2>2, <2>3, <1>8, <1>9
<1> HIDE DEF start
<1>12. /\ whole \in Seq(S) /\ Len(whole) = p + added + s
       /\ \A i \in 1 .. p + added + s : whole[i] = IF i <= p + added THEN start[i] ELSE to[i - (p + added)]
  <2>1. start \in Seq(S) /\ to \in Seq(S)
    BY <1>10, <1>11
  <2>2. whole \in Seq(S) /\ Len(whole) = Len(start) + Len(to)
    BY <2>1, ConcatProperties
  <2>3. \A i \in 1 .. Len(start) + Len(to) : whole[i] = IF i <= Len(start) THEN start[i] ELSE to[i - Len(start)]
    BY <2>1, ConcatProperties
  <2> HIDE DEF whole, added
  <2>. QED
    BY <2>2, <2>3, <1>10, <1>11
<1> HIDE DEF whole
<1>13. Len(whole) = Len(next)
  BY <1>12, <1>7, <1>1
<1>14. ASSUME NEW i \in 1 .. Len(next) PROVE whole[i] = next[i]
  <2>0. i \in Nat /\ i \in 1 .. p + added + s
    BY <1>1, <1>7
  <2>1. CASE i <= p
    <3>1. i \in 1 .. p /\ i \in 1 .. p + added /\ i <= p + added
      BY <2>0, <2>1, <1>1, <1>7
    <3>2. whole[i] = start[i] /\ start[i] = from[i] /\ from[i] = prev[i] /\ prev[i] = next[i]
      BY <2>0, <3>1, <2>1, <1>3, <1>8, <1>11, <1>12
    <3>. QED
      BY <3>2
  <2>2. CASE p < i /\ i <= p + added
    <3>1. i \in 1 .. p + added /\ i - p \in 1 .. added /\ ~ (i <= p) /\ p + (i - p) = i
      BY <2>0, <2>2, <1>1, <1>7
    <3>2. whole[i] = start[i] /\ start[i] = new[i - p] /\ new[i - p] = next[p + (i - p)]
      BY <2>0, <3>1, <2>2, <1>9, <1>11, <1>12
    <3>. QED
      BY <3>1, <3>2
  <2>3. CASE p + added < i
    <3> DEFINE k == Len(next) - i
    <3>1. /\ i - (p + added) \in 1 .. s /\ ~ (i <= p + added) /\ k \in 0 .. s - 1
          /\ p + gone + (i - (p + added)) = Len(prev) - k /\ Len(next) - k = i
      BY <2>0, <2>3, <1>1, <1>7
    <3> HIDE DEF k
    <3>2. whole[i] = to[i - (p + added)] /\ to[i - (p + added)] = prev[p + gone + (i - (p + added))]
      BY <2>0, <3>1, <1>10, <1>12
    <3>3. prev[Len(prev) - k] = next[Len(next) - k]
      BY <3>1, <1>4
    <3>. QED
      BY <3>1, <3>2, <3>3
  <2>. QED
    BY <2>0, <2>1, <2>2, <2>3, <1>1, <1>7
<1>15. whole = next
  BY <1>12, <1>13, <1>14, SeqEqual
<1>16. IsChange(prev, next, ChangedRange(prev, next), TextDelta(prev, next))
  <2>1. p + added = Len(next) - s /\ Len(next) - s - p = added /\ 0 <= added /\ 0 <= gone
    BY <1>1, <1>7
  <2>2. next = SubSeq(prev, 1, p) \o SubSeq(next, p + 1, Len(next) - s) \o SubSeq(prev, p + gone + 1, Len(prev))
    BY <1>15, <2>1 DEF whole, start, from, new, to
  <2> DEFINE delta == TextDelta(prev, next)
             range == ChangedRange(prev, next)
  <2>3. delta.added = added /\ delta.removed = gone /\ range.start = p /\ range.end = Len(next) - s
    BY <1>2
  <2> HIDE DEF delta, range, added, gone
  <2>4. /\ range.end - range.start = delta.added /\ 0 <= delta.added /\ 0 <= delta.removed
        /\ next = SubSeq(prev, 1, range.start) \o SubSeq(next, range.start + 1, range.end)
                    \o SubSeq(prev, range.start + delta.removed + 1, Len(prev))
    BY <2>1, <2>2, <2>3
  <2>. QED
    BY <2>4 DEF IsChange, delta, range
<1>17. Len(next) = Len(prev) + added - gone
  BY <1>1
<1>. QED
  BY <1>2, <1>7, <1>16, <1>17

(* The sessions of the updates up to id, as groupUpdates builds them.      *)
Group == [lastUpdateId : Nat, authorId : Writer, createdAt : Nat, updateCount : Nat]

Grouping(groups, id) ==
  LET n == Len(groups)
      update == made[id]
  IN IF n > 0 /\ groups[n].authorId = update.author
              /\ update.at - groups[n].createdAt <= 1
     THEN [groups EXCEPT ![n].lastUpdateId = id, ![n].createdAt = update.at,
                         ![n].updateCount = @ + 1]
     ELSE Append(groups, [lastUpdateId |-> id, authorId |-> update.author,
                          createdAt |-> update.at, updateCount |-> 1])

FirstOf(group) == group.lastUpdateId - group.updateCount + 1
UpdatesOf(group) == FirstOf(group) .. group.lastUpdateId

GroupsAre(groups, id) ==
  /\ groups \in Seq(Group)
  /\ Len(groups) = 0 <=> id = removed
  /\ Len(groups) > 0 => groups[Len(groups)].lastUpdateId = id
  /\ \A g \in 1 .. Len(groups) :
       /\ FirstOf(groups[g]) = IF g = 1 THEN removed + 1 ELSE groups[g - 1].lastUpdateId + 1
       /\ groups[g].updateCount > 0 /\ removed < FirstOf(groups[g]) /\ groups[g].lastUpdateId <= id
       /\ \A u \in UpdatesOf(groups[g]) : made[u].author = groups[g].authorId
  /\ \A u \in removed + 1 .. id : \E g \in 1 .. Len(groups) : u \in UpdatesOf(groups[g])

(* A session that another update makes longer.                             *)
Longer(g, id, at) == [g EXCEPT !.lastUpdateId = id, !.createdAt = at, !.updateCount = @ + 1]

LEMMA GroupGrows ==
  ASSUME NEW g \in Group, NEW id \in Nat, NEW at \in Nat
  PROVE  /\ Longer(g, id, at) \in Group /\ Longer(g, id, at).lastUpdateId = id
         /\ Longer(g, id, at).updateCount = g.updateCount + 1 /\ Longer(g, id, at).authorId = g.authorId
<1>1. g.updateCount + 1 \in Nat
  BY DEF Group
<1>2. [g EXCEPT !.updateCount = @ + 1] \in Group
  BY <1>1 DEF Group
<1>3. [[g EXCEPT !.updateCount = @ + 1] EXCEPT !.lastUpdateId = id] \in Group
  BY <1>2 DEF Group
<1>4. Longer(g, id, at) \in Group
  BY <1>3 DEF Longer, Group
<1>5. /\ Longer(g, id, at).lastUpdateId = id /\ Longer(g, id, at).updateCount = g.updateCount + 1
      /\ Longer(g, id, at).authorId = g.authorId
  BY DEF Longer, Group
<1>. QED
  BY <1>4, <1>5

(* An update goes on the last session ...                                  *)
LEMMA SessionGoesOn ==
  ASSUME LogInv, NEW id \in removed + 1 .. Len(made), NEW groups, GroupsAre(groups, id - 1),
         Len(groups) > 0, groups[Len(groups)].authorId = made[id].author,
         NEW next, next = [groups EXCEPT ![Len(groups)].lastUpdateId = id, ![Len(groups)].createdAt = made[id].at,
                                         ![Len(groups)].updateCount = @ + 1]
  PROVE  GroupsAre(next, id)
<1> DEFINE n == Len(groups)
           last == groups[n]
           longer == Longer(last, id, made[id].at)
<1>1. n \in Nat \ {0} /\ groups \in Seq(Group) /\ \A g \in 1 .. n : groups[g] \in Group
  BY LenProperties, ElementOfSeq DEF GroupsAre
<1>2. id \in Nat /\ id \in 1 .. Len(made) /\ made[id] \in Update /\ removed \in Nat
  BY LenProperties, ElementOfSeq DEF LogInv
<1>3. last \in Group /\ last.lastUpdateId = id - 1
  BY <1>1 DEF GroupsAre
<1>4. /\ longer \in Group /\ longer.lastUpdateId = id /\ longer.updateCount = last.updateCount + 1
      /\ longer.authorId = last.authorId
  <2>1. made[id].at \in Nat
    BY <1>2 DEF Update
  <2>. QED
    <3> HIDE DEF n, last
    <3>. QED
      BY <1>2, <1>3, <2>1, GroupGrows
<1>5. next = [groups EXCEPT ![n] = longer]
  BY DEF Longer
<1> HIDE DEF longer
<1>6. /\ next \in Seq(Group) /\ Len(next) = n
      /\ \A g \in 1 .. n : next[g] = IF g = n THEN longer ELSE groups[g]
  <2>1. n \in 1 .. Len(groups)
    BY <1>1
  <2>. QED
    <3> HIDE DEF n, last
    <3>1. /\ [groups EXCEPT ![n] = longer] \in Seq(Group)
          /\ Len([groups EXCEPT ![n] = longer]) = Len(groups)
          /\ \A j \in 1 .. Len(groups) : [groups EXCEPT ![n] = longer][j] = IF j = n THEN longer ELSE groups[j]
      BY <1>1, <1>4, <2>1, ExceptSeq
    <3>. QED
      BY <3>1, <1>5 DEF n
<1>7. FirstOf(longer) = FirstOf(last)
  BY <1>2, <1>3, <1>4 DEF FirstOf, Group
<1> HIDE DEF n, last
<1>8. /\ \A g \in 1 .. n :
           /\ FirstOf(groups[g]) = IF g = 1 THEN removed + 1 ELSE groups[g - 1].lastUpdateId + 1
           /\ groups[g].updateCount > 0 /\ removed < FirstOf(groups[g]) /\ groups[g].lastUpdateId <= id - 1
           /\ \A u \in UpdatesOf(groups[g]) : made[u].author = groups[g].authorId
      /\ \A u \in removed + 1 .. id - 1 : \E g \in 1 .. n : u \in UpdatesOf(groups[g])
  BY DEF GroupsAre, n
<1>9. last = groups[n] /\ n \in 1 .. n
  BY <1>1 DEF last
<1>10. ASSUME NEW g \in 1 .. n
       PROVE  /\ FirstOf(next[g]) = IF g = 1 THEN removed + 1 ELSE next[g - 1].lastUpdateId + 1
              /\ next[g].updateCount > 0 /\ removed < FirstOf(next[g]) /\ next[g].lastUpdateId <= id
              /\ \A u \in UpdatesOf(next[g]) : made[u].author = next[g].authorId
  <2>1. FirstOf(next[g]) = FirstOf(groups[g])
    BY <1>6, <1>7, <1>9
  <2>2. g # 1 => g - 1 \in 1 .. n /\ g - 1 # n /\ next[g - 1] = groups[g - 1]
    BY <1>1, <1>6
  <2>3. next[g].updateCount > 0
    <3>1. last.updateCount \in Nat /\ longer.updateCount = last.updateCount + 1
      BY <1>3, <1>4 DEF Group
    <3>2. longer.updateCount > 0
      BY <3>1
    <3>. QED
      <4>1. CASE g = n
        BY <4>1, <3>2, <1>6
      <4>2. CASE g # n
        <5>1. next[g] = groups[g] /\ groups[g].updateCount > 0
          BY <4>2, <1>6, <1>8
        <5>. QED
          BY <5>1
      <4>. QED
        BY <4>1, <4>2
  <2>4. next[g].lastUpdateId <= id
    <3>1. groups[g].lastUpdateId \in Nat /\ groups[g].lastUpdateId <= id - 1
      BY <1>1, <1>8 DEF Group, n
    <3>2. groups[g].lastUpdateId <= id /\ longer.lastUpdateId <= id
      BY <3>1, <1>2, <1>4
    <3>. QED
      BY <3>2, <1>6
  <2>5. ASSUME NEW u \in UpdatesOf(next[g]) PROVE made[u].author = next[g].authorId
    <3>1. CASE g # n
      BY <3>1, <1>6, <1>8, <2>5
    <3>2. CASE g = n
      <4>1. u \in FirstOf(last) .. id /\ next[g] = longer
        BY <3>2, <1>4, <1>6, <1>7 DEF UpdatesOf
      <4>2. CASE u = id
        BY <4>1, <4>2, <1>4, <1>9 DEF n
      <4>3. CASE u # id
        <5>1. u \in UpdatesOf(last)
          BY <4>1, <4>3, <1>2, <1>3 DEF UpdatesOf, Group, FirstOf
        <5>. QED
          BY <4>1, <5>1, <1>4, <1>8, <1>9
      <4>. QED
        BY <4>2, <4>3
    <3>. QED
      BY <3>1, <3>2
  <2>. QED
    BY <2>1, <2>2, <2>3, <2>4, <2>5, <1>8
<1>11. ASSUME NEW u \in removed + 1 .. id PROVE \E g \in 1 .. n : u \in UpdatesOf(next[g])
  <2>1. removed < FirstOf(longer) /\ FirstOf(longer) \in Int /\ longer.updateCount > 0
    <3>1. removed < FirstOf(last)
      BY <1>8, <1>9
    <3>2. last.lastUpdateId \in Nat /\ last.updateCount \in Nat
      BY <1>3 DEF Group
    <3>3. FirstOf(last) \in Int
      BY <3>2 DEF FirstOf
    <3>4. longer.updateCount > 0
      BY <3>2, <1>4
    <3>. QED
      BY <3>1, <3>3, <3>4, <1>7
  <2>2. CASE u = id
    <3>1. id \in UpdatesOf(longer)
      <4>1. longer.lastUpdateId \in Nat /\ longer.updateCount \in Nat
        BY <1>4 DEF Group
      <4>2. FirstOf(longer) <= longer.lastUpdateId
        BY <4>1, <2>1 DEF FirstOf
      <4>. QED
        BY <4>1, <4>2, <2>1, <1>2, <1>4 DEF UpdatesOf
    <3>. QED
      BY <2>2, <3>1, <1>6, <1>9
  <2>3. CASE u # id
    <3>1. PICK g \in 1 .. n : u \in UpdatesOf(groups[g])
      BY <2>3, <1>2, <1>8
    <3>2. CASE g = n
      <4>1. u \in UpdatesOf(longer)
        BY <3>1, <3>2, <1>2, <1>3, <1>4, <1>7, <1>9 DEF UpdatesOf, Group, FirstOf
      <4>. QED
        BY <4>1, <3>2, <1>6
    <3>3. CASE g # n
      BY <3>1, <3>3, <1>6
    <3>. QED
      BY <3>2, <3>3
  <2>. QED
    BY <2>2, <2>3
<1>12. next[n].lastUpdateId = id
  BY <1>4, <1>6, <1>9
<1>. QED
  <2>1. (Len(next) = 0 <=> id = removed) /\ (Len(next) > 0 => next[Len(next)].lastUpdateId = id)
    BY <1>2, <1>6, <1>12, <1>1 DEF n
  <2>. QED
    BY <1>6, <1>10, <1>11, <2>1 DEF GroupsAre

(* ... or begins one.                                                      *)
LEMMA SessionBegins ==
  ASSUME LogInv, NEW id \in removed + 1 .. Len(made), NEW groups, GroupsAre(groups, id - 1),
         NEW next, next = Append(groups, [lastUpdateId |-> id, authorId |-> made[id].author,
                                          createdAt |-> made[id].at, updateCount |-> 1])
  PROVE  GroupsAre(next, id)
<1> DEFINE n == Len(groups)
           new == [lastUpdateId |-> id, authorId |-> made[id].author, createdAt |-> made[id].at, updateCount |-> 1]
<1>1. n \in Nat /\ groups \in Seq(Group) /\ \A g \in 1 .. n : groups[g] \in Group
  BY LenProperties, ElementOfSeq DEF GroupsAre
<1>2. id \in Nat \ {0} /\ id \in 1 .. Len(made) /\ made[id] \in Update /\ removed \in Nat /\ removed < id
  BY LenProperties, ElementOfSeq DEF LogInv
<1>3. /\ new \in Group /\ new.lastUpdateId = id /\ new.updateCount = 1
      /\ FirstOf(new) = id /\ UpdatesOf(new) = {id} /\ new.authorId = made[id].author
  BY <1>2 DEF Group, Update, FirstOf, UpdatesOf
<1> HIDE DEF new
<1>4. next = Append(groups, new)
  BY DEF new
<1>5. /\ next \in Seq(Group) /\ Len(next) = n + 1 /\ next[n + 1] = new
      /\ \A g \in 1 .. n : next[g] = groups[g]
  BY <1>1, <1>3, <1>4, AppendProperties
<1> HIDE DEF n
<1>6. /\ \A g \in 1 .. n :
           /\ FirstOf(groups[g]) = IF g = 1 THEN removed + 1 ELSE groups[g - 1].lastUpdateId + 1
           /\ groups[g].updateCount > 0 /\ removed < FirstOf(groups[g]) /\ groups[g].lastUpdateId <= id - 1
           /\ \A u \in UpdatesOf(groups[g]) : made[u].author = groups[g].authorId
      /\ \A u \in removed + 1 .. id - 1 : \E g \in 1 .. n : u \in UpdatesOf(groups[g])
      /\ n = 0 <=> id - 1 = removed
      /\ n > 0 => groups[n].lastUpdateId = id - 1
  BY DEF GroupsAre, n
<1>7. ASSUME NEW g \in 1 .. n + 1
      PROVE  /\ FirstOf(next[g]) = IF g = 1 THEN removed + 1 ELSE next[g - 1].lastUpdateId + 1
             /\ next[g].updateCount > 0 /\ removed < FirstOf(next[g]) /\ next[g].lastUpdateId <= id
             /\ \A u \in UpdatesOf(next[g]) : made[u].author = next[g].authorId
  <2>1. CASE g = n + 1
    <3>1. next[g] = new /\ \A u \in UpdatesOf(next[g]) : made[u].author = next[g].authorId
      BY <2>1, <1>3, <1>5
    <3>2. n > 0 => next[g - 1] = groups[n]
      BY <2>1, <1>1, <1>5
    <3>. QED
      <4>1. next[g].updateCount > 0 /\ removed < FirstOf(next[g]) /\ next[g].lastUpdateId <= id
        <5>1. new.updateCount > 0 /\ FirstOf(new) = id /\ new.lastUpdateId = id
          BY <1>3
        <5>2. removed < id /\ id <= id
          BY <1>2
        <5>. QED
          BY <3>1, <5>1, <5>2
      <4>2. CASE n = 0
        BY <2>1, <3>1, <4>1, <4>2, <1>1, <1>2, <1>3, <1>6
      <4>3. CASE n > 0
        <5>1. groups[n].lastUpdateId = id - 1 /\ next[g - 1] = groups[n] /\ id - 1 + 1 = id
          <6>1. groups[n].lastUpdateId = id - 1
            BY <4>3, <1>6
          <6>2. next[g - 1] = groups[n]
            BY <3>2, <4>3
          <6>3. id - 1 + 1 = id
            BY <1>2
          <6>. QED
            BY <6>1, <6>2, <6>3
        <5>2. g # 1
          BY <2>1, <4>3, <1>1
        <5>. QED
          BY <3>1, <4>1, <5>1, <5>2, <1>3
      <4>4. n = 0 \/ n > 0
        BY <1>1
      <4>. QED
        BY <4>2, <4>3, <4>4
  <2>2. CASE g # n + 1
    <3>1. g \in 1 .. n /\ next[g] = groups[g] /\ (g # 1 => next[g - 1] = groups[g - 1])
      BY <2>2, <1>1, <1>5
    <3>2. groups[g].lastUpdateId <= id
      <4>1. groups[g].lastUpdateId \in Nat /\ groups[g].lastUpdateId <= id - 1
        BY <3>1, <1>1, <1>6 DEF Group, n
      <4>. QED
        BY <4>1, <1>2
    <3>. QED
      BY <3>1, <3>2, <1>6
  <2>. QED
    BY <2>1, <2>2
<1>8. ASSUME NEW u \in removed + 1 .. id PROVE \E g \in 1 .. n + 1 : u \in UpdatesOf(next[g])
  <2>1. CASE u = id
    <3>1. n + 1 \in 1 .. n + 1 /\ u \in UpdatesOf(next[n + 1])
      BY <2>1, <1>1, <1>3, <1>5
    <3>. QED
      BY <3>1
  <2>2. CASE u # id
    <3>1. PICK g \in 1 .. n : u \in UpdatesOf(groups[g])
      BY <2>2, <1>2, <1>6
    <3>2. g \in 1 .. n + 1 /\ next[g] = groups[g]
      BY <1>1, <1>5
    <3>. QED
      BY <3>1, <3>2
  <2>. QED
    BY <2>1, <2>2
<1>. QED
  <2>1. (Len(next) = 0 <=> id = removed) /\ (Len(next) > 0 => next[Len(next)].lastUpdateId = id)
    BY <1>1, <1>2, <1>3, <1>5
  <2>. QED
    BY <1>5, <1>7, <1>8, <2>1 DEF GroupsAre

LEMMA GroupingKeeps ==
  ASSUME LogInv, NEW id \in removed + 1 .. Len(made), NEW groups, GroupsAre(groups, id - 1)
  PROVE  GroupsAre(Grouping(groups, id), id)
<1> DEFINE goesOn == Len(groups) > 0 /\ groups[Len(groups)].authorId = made[id].author
                     /\ made[id].at - groups[Len(groups)].createdAt <= 1
<1>1. CASE goesOn
  BY <1>1, SessionGoesOn DEF Grouping
<1>2. CASE ~ goesOn
  BY <1>2, SessionBegins DEF Grouping
<1>. QED
  BY <1>1, <1>2

(* A function that goes on from one position to the next is defined.       *)
LEMMA GroupedUpTo ==
  ASSUME LogInv, NEW n \in Nat
  PROVE  \E f : f = [id \in removed .. removed + n |->
                       IF id = removed THEN <<>> ELSE Grouping(f[id - 1], id)]
<1> DEFINE Body(f, id) == IF id = removed THEN <<>> ELSE Grouping(f[id - 1], id)
           Defined(k) == \E f : f = [id \in removed .. removed + k |-> Body(f, id)]
           Undefined == {k \in Nat : ~ Defined(k)}
<1>0. removed \in Nat
  BY DEF LogInv
<1>1. SUFFICES ASSUME Undefined # {} PROVE FALSE
  BY DEF Undefined
<1>2. PICK k \in Undefined : \A j \in Undefined : k <= j
  <2>1. Undefined \in SUBSET Nat
    OBVIOUS
  <2> HIDE DEF Undefined
  <2>. QED
    BY <1>1, <2>1, LeastOne
<1>3. k \in Nat /\ ~ Defined(k)
  BY <1>2
<1>4. CASE k = 0
  <2> DEFINE g == [id \in removed .. removed + k |-> <<>>]
  <2>1. \A id \in removed .. removed + k : id = removed
    BY <1>0, <1>4
  <2>2. g = [id \in removed .. removed + k |-> Body(g, id)]
    BY <2>1
  <2>. QED
    BY <2>2, <1>3
<1>5. CASE k # 0
  <2>1. k - 1 \in Nat /\ ~ (k <= k - 1)
    BY <1>3, <1>5
  <2>2. Defined(k - 1)
    BY <2>1, <1>2
  <2>3. PICK f : f = [id \in removed .. removed + (k - 1) |-> Body(f, id)]
    BY <2>2
  <2> DEFINE g == [id \in removed .. removed + k |->
                     IF id = removed + k THEN Grouping(f[id - 1], id) ELSE f[id]]
  <2>4. ASSUME NEW id \in removed .. removed + k PROVE g[id] = Body(g, id)
    <3>1. CASE id = removed
      <4>1. id # removed + k /\ id \in removed .. removed + (k - 1)
        BY <3>1, <1>0, <1>3, <1>5
      <4>2. f[id] = <<>>
        BY <4>1, <2>3, <3>1
      <4>. QED
        BY <4>1, <4>2, <3>1
    <3>2. CASE id # removed
      <4>1. /\ id - 1 \in removed .. removed + k /\ id - 1 # removed + k
            /\ id # removed + k => id \in removed .. removed + (k - 1)
        BY <3>2, <1>0, <1>3
      <4>2. g[id - 1] = f[id - 1]
        BY <4>1
      <4>3. id # removed + k => f[id] = Grouping(f[id - 1], id)
        BY <4>1, <2>3, <3>2
      <4>4. g[id] = Grouping(f[id - 1], id)
        BY <4>3
      <4> HIDE DEF g
      <4>. QED
        BY <4>2, <4>4, <3>2
    <3>. QED
      BY <3>1, <3>2
  <2>5. g = [id \in removed .. removed + k |-> g[id]]
    OBVIOUS
  <2> HIDE DEF g
  <2>6. g = [id \in removed .. removed + k |-> Body(g, id)]
    <3> HIDE DEF Body
    <3>. QED
      BY <2>4, <2>5
  <2>. QED
    BY <2>6, <1>3
<1>. QED
  BY <1>4, <1>5

LEMMA GroupsOfLog ==
  ASSUME LogInv
  PROVE  GroupsAre(GroupUpdates, Len(made))
<1> DEFINE upTo[id \in removed .. Len(made)] ==
             IF id = removed THEN <<>>
             ELSE LET groups == upTo[id - 1]
                      n == Len(groups)
                      update == made[id]
                  IN IF n > 0 /\ groups[n].authorId = update.author
                              /\ update.at - groups[n].createdAt <= 1
                     THEN [groups EXCEPT ![n].lastUpdateId = id, ![n].createdAt = update.at,
                                         ![n].updateCount = @ + 1]
                     ELSE Append(groups, [lastUpdateId |-> id, authorId |-> update.author,
                                          createdAt |-> update.at, updateCount |-> 1])
<1>1. removed \in Nat /\ Len(made) \in Nat /\ removed <= Len(made)
  BY LenProperties DEF LogInv
<1>2. \E f : f = [id \in removed .. Len(made) |->
                    IF id = removed THEN <<>> ELSE Grouping(f[id - 1], id)]
  <2>1. Len(made) - removed \in Nat /\ removed + (Len(made) - removed) = Len(made)
    BY <1>1
  <2>. QED
    BY <2>1, GroupedUpTo
<1>3. upTo = [id \in removed .. Len(made) |->
                IF id = removed THEN <<>> ELSE Grouping(upTo[id - 1], id)]
  BY <1>2 DEF Grouping
<1>4. GroupUpdates = upTo[Len(made)]
  BY DEF GroupUpdates
<1> HIDE DEF upTo
<1> DEFINE Wrong == {k \in Nat : removed + k <= Len(made) /\ ~ GroupsAre(upTo[removed + k], removed + k)}
<1>5. ASSUME NEW k \in Wrong, \A j \in Wrong : k <= j PROVE FALSE
  <2>1. k \in Nat /\ removed + k \in removed .. Len(made) /\ ~ GroupsAre(upTo[removed + k], removed + k)
    BY <1>1
  <2>2. CASE k = 0
    <3>1. removed + k = removed /\ upTo[removed] = <<>>
      BY <2>1, <2>2, <1>1, <1>3
    <3>2. GroupsAre(<<>>, removed)
      <4>1. <<>> \in Seq(Group) /\ Len(<<>>) = 0
        BY EmptySeq
      <4>2. (\A g \in 1 .. 0 : FALSE) /\ (\A u \in removed + 1 .. removed : FALSE)
        BY <1>1
      <4>. QED
        BY <4>1, <4>2 DEF GroupsAre
    <3>. QED
      BY <2>1, <3>1, <3>2
  <2>3. CASE k # 0
    <3> DEFINE id == removed + k
    <3>1. /\ id \in removed + 1 .. Len(made) /\ id \in removed .. Len(made) /\ id # removed
          /\ k - 1 \in Nat /\ ~ (k <= k - 1) /\ id - 1 = removed + (k - 1) /\ removed + (k - 1) <= Len(made)
      BY <2>1, <2>3, <1>1
    <3>2. GroupsAre(upTo[id - 1], id - 1)
      BY <3>1, <1>5
    <3>3. upTo[id] = Grouping(upTo[id - 1], id)
      BY <3>1, <1>3
    <3> HIDE DEF id
    <3>4. GroupsAre(upTo[id], id)
      BY <3>1, <3>2, <3>3, GroupingKeeps
    <3>. QED
      BY <3>4, <2>1 DEF id
  <2>. QED
    BY <2>2, <2>3
<1>6. Wrong = {}
  <2>1. Wrong \in SUBSET Nat
    OBVIOUS
  <2> HIDE DEF Wrong
  <2>. QED
    BY <1>5, <2>1, LeastOne
<1>7. GroupsAre(upTo[Len(made)], Len(made))
  <2> DEFINE all == Len(made) - removed
  <2>1. all \in Nat /\ removed + all = Len(made) /\ Len(made) <= Len(made)
    BY <1>1
  <2> HIDE DEF all
  <2>2. all \notin Wrong
    BY <1>6
  <2>. QED
    BY <2>1, <2>2
<1>. QED
  BY <1>4, <1>7

(* The lengths of the texts after the sessions, added up.                  *)
AddsUp(f, n, start, more, less) ==
  f = [g \in 0 .. n |-> IF g = 0 THEN start ELSE f[g - 1] + more[g] - less[g]]

LEMMA LengthsAddUp ==
  ASSUME NEW n \in Nat, NEW start, NEW more, NEW less
  PROVE  \E f : AddsUp(f, n, start, more, less)
<1> USE DEF AddsUp
<1> DEFINE Body(f, g) == IF g = 0 THEN start ELSE f[g - 1] + more[g] - less[g]
           Defined(k) == \E f : f = [g \in 0 .. k |-> Body(f, g)]
           Undefined == {k \in 0 .. n : ~ Defined(k)}
<1>1. SUFFICES ASSUME Undefined # {} PROVE FALSE
  <2>1. n \in 0 .. n
    OBVIOUS
  <2>. QED
    BY <2>1
<1>2. PICK k \in Undefined : \A j \in Undefined : k <= j
  <2>1. Undefined \in SUBSET Nat
    OBVIOUS
  <2> HIDE DEF Undefined
  <2>. QED
    BY <1>1, <2>1, LeastOne
<1>3. k \in 0 .. n /\ ~ Defined(k)
  BY <1>2
<1>4. CASE k = 0
  <2> DEFINE f == [g \in 0 .. k |-> start]
  <2>1. \A g \in 0 .. k : g = 0
    BY <1>4
  <2>2. f = [g \in 0 .. k |-> Body(f, g)]
    BY <2>1
  <2>. QED
    BY <2>2, <1>3
<1>5. CASE k # 0
  <2>1. k - 1 \in 0 .. n /\ ~ (k <= k - 1)
    BY <1>3, <1>5
  <2>2. Defined(k - 1)
    BY <2>1, <1>2
  <2>3. PICK f : f = [g \in 0 .. k - 1 |-> Body(f, g)]
    BY <2>2
  <2> DEFINE h == [g \in 0 .. k |-> IF g = k THEN f[k - 1] + more[k] - less[k] ELSE f[g]]
  <2>4. ASSUME NEW g \in 0 .. k PROVE h[g] = Body(h, g)
    <3>1. CASE g = 0
      <4>1. g # k /\ g \in 0 .. k - 1
        BY <3>1, <1>3, <1>5
      <4>2. f[g] = start
        BY <4>1, <2>3, <3>1
      <4>. QED
        BY <4>1, <4>2, <3>1
    <3>2. CASE g # 0
      <4>1. g - 1 \in 0 .. k /\ g - 1 # k /\ (g # k => g \in 0 .. k - 1)
        BY <3>2, <1>3
      <4>2. h[g - 1] = f[g - 1]
        BY <4>1
      <4>3. g # k => f[g] = f[g - 1] + more[g] - less[g]
        BY <4>1, <2>3, <3>2
      <4>4. h[g] = f[g - 1] + more[g] - less[g]
        BY <4>3
      <4> HIDE DEF h
      <4>. QED
        BY <4>2, <4>4, <3>2
    <3>. QED
      BY <3>1, <3>2
  <2>5. h = [g \in 0 .. k |-> h[g]]
    OBVIOUS
  <2> HIDE DEF h
  <2>6. h = [g \in 0 .. k |-> Body(h, g)]
    <3> HIDE DEF Body
    <3>. QED
      BY <2>4, <2>5
  <2>. QED
    BY <2>6, <1>3
<1>. QED
  BY <1>4, <1>5

LEMMA LengthsArrive ==
  ASSUME NEW n \in Nat, NEW f, NEW size, NEW more, NEW less,
         AddsUp(f, n, size[0], more, less),
         \A g \in 1 .. n : size[g] = size[g - 1] + more[g] - less[g]
  PROVE  f[n] = size[n]
<1> DEFINE Wrong == {g \in 0 .. n : f[g] # size[g]}
<1>1. SUFFICES ASSUME Wrong # {} PROVE FALSE
  <2>1. n \in 0 .. n
    OBVIOUS
  <2>. QED
    BY <2>1
<1>2. PICK g \in Wrong : \A j \in Wrong : g <= j
  <2>1. Wrong \in SUBSET Nat
    OBVIOUS
  <2> HIDE DEF Wrong
  <2>. QED
    BY <1>1, <2>1, LeastOne
<1>3. g \in 0 .. n /\ f[g] # size[g]
  BY <1>2
<1>4. f[0] = size[0]
  BY DEF AddsUp
<1>5. CASE g # 0
  <2>1. g \in 1 .. n /\ g - 1 \in 0 .. n /\ ~ (g <= g - 1)
    BY <1>3, <1>5
  <2>2. f[g - 1] = size[g - 1]
    BY <2>1, <1>2
  <2>3. f[g] = f[g - 1] + more[g] - less[g]
    BY <2>1, <1>5 DEF AddsUp
  <2>. QED
    BY <2>1, <2>2, <2>3, <1>3
<1>. QED
  BY <1>3, <1>4, <1>5

(* The version list accounts for the whole log, however much of it was     *)
(* compacted (groupUpdates, computeGroupDeltas, textDelta, changedRange).  *)
THEOREM TellsTheStory == VersionDeltasSpec => []DeltasTellTheStory
<1>1. ASSUME LogInv PROVE DeltasTellTheStory
  <2> DEFINE groups == GroupUpdates
             deltas == ComputeGroupDeltas
             n == Len(groups)
             first(g) == groups[g].lastUpdateId - groups[g].updateCount + 1
             before(g) == TextAfter(first(g) - 1)
             after(g) == TextAfter(groups[g].lastUpdateId)
             length[g \in 0 .. n] ==
               IF g = 0 THEN Len(TextAfter(covered)) ELSE length[g - 1] + deltas[g].added - deltas[g].removed
  <2>0. /\ removed \in Nat /\ covered \in Nat /\ Len(made) \in Nat
        /\ removed <= covered /\ covered <= Len(made)
    BY <1>1, LenProperties DEF LogInv
  <2>1. GroupsAre(groups, Len(made))
    BY <1>1, GroupsOfLog
  <2>2. /\ n \in Nat /\ DOMAIN groups = 1 .. n
        /\ \A g \in 1 .. n : groups[g] \in Group
    <3>1. groups \in Seq(Group)
      BY <2>1 DEF GroupsAre
    <3> HIDE DEF groups
    <3>. QED
      BY <3>1, LenProperties, ElementOfSeq
  <2>3. deltas = [g \in 1 .. n |->
          TextDelta(IF g = 1 THEN TextAfter(covered) ELSE TextAfter(groups[g - 1].lastUpdateId), after(g))]
    BY <2>2 DEF ComputeGroupDeltas
  <2>4. TextAfter(removed) = TextAfter(covered)
    BY <2>0 DEF TextAfter
  <2>5. /\ n = 0 <=> Len(made) = removed
        /\ n > 0 => groups[n].lastUpdateId = Len(made)
        /\ \A g \in 1 .. n :
             /\ first(g) = IF g = 1 THEN removed + 1 ELSE groups[g - 1].lastUpdateId + 1
             /\ groups[g].updateCount > 0 /\ removed < first(g) /\ groups[g].lastUpdateId <= Len(made)
             /\ \A u \in first(g) .. groups[g].lastUpdateId : made[u].author = groups[g].authorId
        /\ \A u \in removed + 1 .. Len(made) :
             \E g \in 1 .. n : u \in first(g) .. groups[g].lastUpdateId
    BY <2>1 DEF GroupsAre, FirstOf, UpdatesOf
  <2> HIDE DEF groups, deltas
  <2>6. UNION {first(g) .. groups[g].lastUpdateId : g \in DOMAIN groups} = ListedUpdates
    <3>1. ASSUME NEW g \in 1 .. n, NEW u \in first(g) .. groups[g].lastUpdateId PROVE u \in removed + 1 .. Len(made)
      <4>1. groups[g].lastUpdateId \in Nat /\ groups[g].updateCount \in Nat
        BY <2>2 DEF Group
      <4>2. removed < first(g) /\ groups[g].lastUpdateId <= Len(made)
        BY <2>5
      <4>. QED
        BY <4>1, <4>2, <2>0
    <3>. QED
      BY <3>1, <2>2, <2>5 DEF ListedUpdates
  <2>7. ASSUME NEW g \in 1 .. n
        PROVE  /\ groups[g].lastUpdateId \in 0 .. Len(made)
               /\ g # 1 => groups[g - 1].lastUpdateId \in 0 .. Len(made) /\ first(g) - 1 = groups[g - 1].lastUpdateId
               /\ g = 1 => first(g) - 1 = removed
    <3>1. groups[g].lastUpdateId \in 0 .. Len(made)
      BY <2>0, <2>2, <2>5 DEF Group
    <3>2. CASE g # 1
      <4>1. g - 1 \in 1 .. n
        BY <3>2, <2>2
      <4>2. groups[g - 1].lastUpdateId \in 0 .. Len(made)
        <5>1. groups[g - 1].lastUpdateId \in Nat
          BY <4>1, <2>2 DEF Group
        <5>2. groups[g - 1].lastUpdateId <= Len(made)
          BY <4>1, <2>5
        <5>. QED
          BY <5>1, <5>2, <2>0
      <4>3. first(g) = groups[g - 1].lastUpdateId + 1
        BY <3>2, <2>5
      <4> HIDE DEF first
      <4>. QED
        BY <3>1, <3>2, <4>2, <4>3, <2>0
    <3>3. CASE g = 1
      <4>1. first(g) = removed + 1
        BY <3>3, <2>5
      <4> HIDE DEF first
      <4>. QED
        BY <3>1, <3>3, <4>1, <2>0
    <3>. QED
      BY <3>2, <3>3
  <2>8. ASSUME NEW g \in 1 .. n
        PROVE  /\ deltas[g] = TextDelta(before(g), after(g))
               /\ before(g) \in Seq(Glyph) /\ after(g) \in Seq(Glyph)
               /\ before(g) = IF g = 1 THEN TextAfter(covered) ELSE after(g - 1)
    <3>1. before(g) = IF g = 1 THEN TextAfter(covered) ELSE after(g - 1)
      BY <2>4, <2>7
    <3>2. TextAfter(covered) \in Seq(Glyph) /\ after(g) \in Seq(Glyph) /\ (g # 1 => after(g - 1) \in Seq(Glyph))
      BY <1>1, <2>0, <2>7, TextsTyped
    <3>. QED
      BY <2>3, <3>1, <3>2
  <2>9. ASSUME NEW g \in DOMAIN groups
        PROVE  /\ first(g) = IF g = 1 THEN removed + 1 ELSE groups[g - 1].lastUpdateId + 1
               /\ \A id \in first(g) .. groups[g].lastUpdateId : made[id].author = groups[g].authorId
               /\ IsChange(before(g), after(g), ChangedRange(before(g), after(g)), deltas[g])
    <3>1. g \in 1 .. n
      BY <2>2
    <3>2. IsChange(before(g), after(g), ChangedRange(before(g), after(g)), deltas[g])
      <4>1. deltas[g] = TextDelta(before(g), after(g)) /\ before(g) \in Seq(Glyph) /\ after(g) \in Seq(Glyph)
        BY <3>1, <2>8
      <4> HIDE DEF deltas, before, after
      <4>. QED
        BY <4>1, DeltaIsChange
    <3>3. /\ first(g) = IF g = 1 THEN removed + 1 ELSE groups[g - 1].lastUpdateId + 1
          /\ \A id \in first(g) .. groups[g].lastUpdateId : made[id].author = groups[g].authorId
      BY <3>1, <2>5
    <3>. QED
      BY <3>2, <3>3
  <2>10. length[n] = Len(TextAfter(Len(made)))
    <3> DEFINE start == Len(TextAfter(covered))
               size == [g \in 0 .. n |-> IF g = 0 THEN start ELSE Len(after(g))]
               more == [g \in 1 .. n |-> deltas[g].added]
               less == [g \in 1 .. n |-> deltas[g].removed]
    <3>1. ASSUME NEW g \in 1 .. n
          PROVE  Len(after(g)) = Len(before(g)) + deltas[g].added - deltas[g].removed
      <4>1. deltas[g] = TextDelta(before(g), after(g)) /\ before(g) \in Seq(Glyph) /\ after(g) \in Seq(Glyph)
        BY <2>8
      <4> HIDE DEF deltas, before, after
      <4>. QED
        BY <4>1, DeltaIsChange
    <3>2. ASSUME NEW g \in 1 .. n PROVE size[g] = size[g - 1] + more[g] - less[g]
      <4>1. /\ size[g] = Len(after(g)) /\ more[g] = deltas[g].added /\ less[g] = deltas[g].removed
            /\ size[g - 1] = IF g = 1 THEN start ELSE Len(after(g - 1))
        BY <2>2
      <4>2. size[g - 1] = Len(before(g))
        BY <4>1, <2>8
      <4> HIDE DEF size, more, less, before, after
      <4>. QED
        BY <3>1, <4>1, <4>2
    <3>3. \A g \in 1 .. n : more[g] = deltas[g].added /\ less[g] = deltas[g].removed
      OBVIOUS
    <3>4. size[0] = start /\ size[n] = Len(TextAfter(Len(made)))
      <4>1. CASE n = 0
        BY <4>1, <2>0, <2>4, <2>5
      <4>2. CASE n # 0
        BY <4>2, <2>2, <2>5
      <4>. QED
        BY <4>1, <4>2, <2>2
    <3>5. \A g \in 0 .. n : g # 0 => g \in 1 .. n
      BY <2>2
    <3> HIDE DEF start, size, more, less
    <3>6. PICK f : AddsUp(f, n, start, more, less)
      <4>1. n \in Nat
        BY <2>2
      <4> HIDE DEF n
      <4>. QED
        BY <4>1, LengthsAddUp
    <3>7. f = [g \in 0 .. n |-> IF g = 0 THEN start ELSE f[g - 1] + deltas[g].added - deltas[g].removed]
      <4>1. f = [g \in 0 .. n |-> IF g = 0 THEN start ELSE f[g - 1] + more[g] - less[g]]
        BY <3>6 DEF AddsUp
      <4>. QED
        BY <3>3, <3>5, <4>1
    <3>8. length = [g \in 0 .. n |-> IF g = 0 THEN start ELSE length[g - 1] + deltas[g].added - deltas[g].removed]
      BY <3>7 DEF start
    <3> HIDE DEF length
    <3>9. AddsUp(length, n, size[0], more, less)
      <4>1. length = [g \in 0 .. n |-> IF g = 0 THEN size[0] ELSE length[g - 1] + more[g] - less[g]]
        BY <3>3, <3>4, <3>5, <3>8
      <4>. QED
        BY <4>1 DEF AddsUp
    <3>. QED
      <4>1. n \in Nat /\ \A g \in 1 .. n : size[g] = size[g - 1] + more[g] - less[g]
        BY <2>2, <3>2
      <4> HIDE DEF n
      <4>2. length[n] = size[n]
        BY <4>1, <3>9, LengthsArrive
      <4>. QED
        BY <4>2, <3>4
  <2>11. DeltasTellTheStory
    BY <2>6, <2>9, <2>10 DEF DeltasTellTheStory, groups, deltas
  <2>. QED
    BY <2>11
<1>. QED
  BY <1>1, LogInvInit, LogInvNext, PTL DEF VersionDeltasSpec
-----------------------------------------------------------------------------
(* The envelope of a document. Joining two fields, and four, with zero     *)
(* bytes.                                                                  *)
Joined2(a, b) == a \o <<0>> \o b

LEMMA ConcatTwo ==
  ASSUME NEW a, NEW b
  PROVE  ConcatAAD(<<a, b>>) = Joined2(a, b)
<1> DEFINE F == <<a, b>>
           R(h) == h = [n \in 1 .. Len(F) |-> IF n = 1 THEN F[1] ELSE Joined2(h[n - 1], F[n])]
           g == [n \in 1 .. 2 |-> IF n = 1 THEN a ELSE Joined2(a, b)]
           f == CHOOSE h : R(h)
<1>1. Len(F) = 2 /\ F[1] = a /\ F[2] = b
  OBVIOUS
<1> HIDE DEF F
<1>2. R(g)
  BY <1>1
<1>3. R(f)
  BY <1>2
<1>4. f[1] = a /\ f[2] = Joined2(a, b)
  <2> HIDE DEF f
  <2>1. f[1] = a
    BY <1>1, <1>3
  <2>. QED
    BY <1>1, <1>3, <2>1
<1>5. ConcatAAD(F) = f[Len(F)]
  BY DEF ConcatAAD, Joined2
<1>. QED
  BY <1>1, <1>4, <1>5 DEF F

LEMMA ConcatFour ==
  ASSUME NEW a, NEW b, NEW c, NEW d
  PROVE  ConcatAAD(<<a, b, c, d>>) = Joined2(Joined2(Joined2(a, b), c), d)
<1> DEFINE F == <<a, b, c, d>>
           R(h) == h = [n \in 1 .. Len(F) |-> IF n = 1 THEN F[1] ELSE Joined2(h[n - 1], F[n])]
           g2 == Joined2(a, b)
           g3 == Joined2(g2, c)
           g4 == Joined2(g3, d)
           g == [n \in 1 .. 4 |-> IF n = 1 THEN a ELSE IF n = 2 THEN g2 ELSE IF n = 3 THEN g3 ELSE g4]
           f == CHOOSE h : R(h)
<1>1. Len(F) = 4 /\ F[1] = a /\ F[2] = b /\ F[3] = c /\ F[4] = d
  OBVIOUS
<1> HIDE DEF F
<1>2. R(g)
  <2>1. \A n \in 1 .. 4 : n = 1 \/ n = 2 \/ n = 3 \/ n = 4
    OBVIOUS
  <2>2. g[1] = a /\ g[2] = g2 /\ g[3] = g3 /\ g[4] = g4 /\ g = [n \in 1 .. 4 |-> g[n]]
    OBVIOUS
  <2>3. g2 = Joined2(a, b) /\ g3 = Joined2(g2, c) /\ g4 = Joined2(g3, d)
    OBVIOUS
  <2> HIDE DEF g, g2, g3, g4
  <2>4. ASSUME NEW n \in 1 .. 4 PROVE g[n] = IF n = 1 THEN F[1] ELSE Joined2(g[n - 1], F[n])
    BY <1>1, <2>1, <2>2, <2>3
  <2>. QED
    BY <1>1, <2>2, <2>4
<1>3. R(f)
  BY <1>2
<1>4. f[4] = g4
  <2> HIDE DEF f
  <2>1. f[1] = a
    BY <1>1, <1>3
  <2>2. f[2] = g2
    BY <1>1, <1>3, <2>1
  <2>3. f[3] = g3
    BY <1>1, <1>3, <2>2
  <2>. QED
    BY <1>1, <1>3, <2>3
<1>5. ConcatAAD(F) = f[Len(F)]
  BY DEF ConcatAAD, Joined2
<1>. QED
  BY <1>1, <1>4, <1>5 DEF F

(* A sequence with one more element.                                       *)
More(t, z) == t \o <<z>>

LEMMA OneMore ==
  ASSUME NEW S, NEW t \in Seq(S), NEW z \in S
  PROVE  /\ More(t, z) \in Seq(S) /\ Len(More(t, z)) = Len(t) + 1
         /\ \A i \in 1 .. Len(t) : More(t, z)[i] = t[i]
         /\ More(t, z)[Len(t) + 1] = z
<1> DEFINE u == <<z>>
<1>1. u \in Seq(S) /\ Len(u) = 1 /\ u[1] = z
  OBVIOUS
<1> HIDE DEF u
<1> DEFINE v == t \o u
<1>2. v \in Seq(S) /\ Len(v) = Len(t) + Len(u)
  BY <1>1, ConcatProperties
<1>3. \A i \in 1 .. Len(t) + Len(u) : v[i] = IF i <= Len(t) THEN t[i] ELSE u[i - Len(t)]
  BY <1>1, ConcatProperties
<1> HIDE DEF v
<1>4. v[Len(t) + 1] = u[1] /\ Len(v) = Len(t) + 1 /\ Len(t) \in Nat
  BY <1>1, <1>2, <1>3
<1>5. \A i \in 1 .. Len(t) : v[i] = t[i]
  BY <1>1, <1>3
<1>. QED
  BY <1>1, <1>2, <1>4, <1>5 DEF More, u, v

(* Associated data of different documents, or of different authors, are    *)
(* different, though a field may hold the separator's byte: the fields     *)
(* before it have fixed lengths.                                           *)
LEMMA TitleAADTells ==
  ASSUME NEW d, NEW d2, NEW e, TitleAAD(d, e) = TitleAAD(d2, e)
  PROVE  d = d2
<1> DEFINE x == (e \div 2) % 2
           y == e % 2
           S == {d, d2, 0, x, y}
<1> HIDE DEF x, y
<1>1. EpochBytes(e) = <<x, y>>
  BY DEF EpochBytes, x, y
<1>2. <<d>> \in Seq(S) /\ <<d2>> \in Seq(S) /\ <<0>> \in Seq(S) /\ <<x, y>> \in Seq(S)
  OBVIOUS
<1>3. ASSUME NEW p \in S, <<p>> \in Seq(S)
      PROVE  Joined2(<<p>>, <<x, y>>)[1] = p
  <2> HIDE DEF S
  <2> DEFINE q == <<p>> \o <<0>>
  <2>1. q \in Seq(S) /\ Len(q) = 2 /\ q[1] = p
    BY <1>2, <1>3, ConcatProperties
  <2> HIDE DEF q
  <2>2. (q \o <<x, y>>)[1] = q[1]
    BY <1>2, <2>1, ConcatProperties
  <2>. QED
    BY <2>1, <2>2 DEF q, Joined2
<1>4. TitleAAD(d, e) = Joined2(<<d>>, <<x, y>>) /\ TitleAAD(d2, e) = Joined2(<<d2>>, <<x, y>>)
  BY <1>1, ConcatTwo DEF TitleAAD
<1>. QED
  BY <1>2, <1>3, <1>4

LEMMA UpdateAADTells ==
  ASSUME NEW d, NEW d2, NEW e, NEW a, NEW a2, NEW s, UpdateAAD(d, e, a, s) = UpdateAAD(d2, e, a2, s)
  PROVE  d = d2 /\ a = a2
<1> DEFINE x == (e \div 2) % 2
           y == e % 2
           S == {d, d2, a, a2, s, 0, x, y}
           T(p, q) == Joined2(Joined2(Joined2(<<p>>, <<x, y>>), <<q>>), <<s>>)
<1> HIDE DEF x, y
<1>1. EpochBytes(e) = <<x, y>>
  BY DEF EpochBytes, x, y
<1>2. \A z \in S : <<z>> \in Seq(S)
  OBVIOUS
<1>3. <<0>> \in Seq(S) /\ <<x, y>> \in Seq(S) /\ <<s>> \in Seq(S)
  OBVIOUS
<1>4. ASSUME NEW p \in S, NEW q \in S
      PROVE  T(p, q)[1] = p /\ T(p, q)[6] = q
  <2> DEFINE t2 == <<p>> \o <<0>>
             t4 == t2 \o <<x, y>>
             t5 == More(t4, 0)
             t6 == More(t5, q)
             t7 == More(t6, 0)
             t8 == More(t7, s)
  <2> HIDE DEF S
  <2>0. <<p>> \in Seq(S) /\ <<q>> \in Seq(S)
    BY <1>2
  <2>1. t2 \in Seq(S) /\ Len(t2) = 2 /\ t2[1] = p
    BY <2>0, <1>3, ConcatProperties
  <2> HIDE DEF t2
  <2>2. t4 \in Seq(S) /\ Len(t4) = 4 /\ t4[1] = p
    <3>1. Len(<<x, y>>) = 2
      OBVIOUS
    <3>2. t4 \in Seq(S) /\ Len(t4) = Len(t2) + Len(<<x, y>>)
      BY <1>3, <2>1, ConcatProperties
    <3>3. \A i \in 1 .. Len(t2) + Len(<<x, y>>) : t4[i] = IF i <= Len(t2) THEN t2[i] ELSE <<x, y>>[i - Len(t2)]
      BY <1>3, <2>1, ConcatProperties
    <3> HIDE DEF t4
    <3>. QED
      BY <2>1, <3>1, <3>2, <3>3
  <2> HIDE DEF t4
  <2>9. 0 \in S /\ s \in S
    BY DEF S
  <2>3. t5 \in Seq(S) /\ Len(t5) = 5 /\ t5[1] = p
    <3>1. /\ t5 \in Seq(S) /\ Len(t5) = Len(t4) + 1
          /\ \A i \in 1 .. Len(t4) : t5[i] = t4[i]
          /\ t5[Len(t4) + 1] = 0
      BY <2>2, <2>9, OneMore
    <3> HIDE DEF t5
    <3>. QED
      BY <2>2, <2>9, <3>1
  <2> HIDE DEF t5
  <2>4. t6 \in Seq(S) /\ Len(t6) = 6 /\ t6[1] = p /\ t6[6] = q
    <3>1. /\ t6 \in Seq(S) /\ Len(t6) = Len(t5) + 1
          /\ \A i \in 1 .. Len(t5) : t6[i] = t5[i]
          /\ t6[Len(t5) + 1] = q
      BY <2>3, OneMore
    <3> HIDE DEF t6
    <3>. QED
      BY <2>3, <3>1
  <2> HIDE DEF t6
  <2>5. t7 \in Seq(S) /\ Len(t7) = 7 /\ t7[1] = p /\ t7[6] = q
    <3>1. /\ t7 \in Seq(S) /\ Len(t7) = Len(t6) + 1
          /\ \A i \in 1 .. Len(t6) : t7[i] = t6[i]
          /\ t7[Len(t6) + 1] = 0
      BY <2>4, <2>9, OneMore
    <3> HIDE DEF t7
    <3>. QED
      BY <2>4, <2>9, <3>1
  <2> HIDE DEF t7
  <2>6. t8 \in Seq(S) /\ Len(t8) = 8 /\ t8[1] = p /\ t8[6] = q
    <3>1. /\ t8 \in Seq(S) /\ Len(t8) = Len(t7) + 1
          /\ \A i \in 1 .. Len(t7) : t8[i] = t7[i]
          /\ t8[Len(t7) + 1] = s
      BY <2>5, <2>9, OneMore
    <3> HIDE DEF t8
    <3>. QED
      BY <2>5, <2>9, <3>1
  <2> HIDE DEF t8
  <2>. QED
    BY <2>6 DEF t2, t4, t5, t6, t7, t8, More, Joined2
<1>5. \A p, q : UpdateAAD(p, e, q, s) = T(p, q)
  <2> TAKE p, q
  <2>1. UpdateAAD(p, e, q, s) = ConcatAAD(<< <<p>>, <<x, y>>, <<q>>, <<s>> >>)
    BY <1>1 DEF UpdateAAD
  <2>. QED
    BY <2>1, ConcatFour
<1>. QED
  <2>1. T(d, a)[1] = d /\ T(d, a)[6] = a /\ T(d2, a2)[1] = d2 /\ T(d2, a2)[6] = a2
    BY <1>4
  <2>. QED
    BY <1>5, <2>1

-----------------------------------------------------------------------------
(* What one key makes of what another sealed.                              *)
KeyOf(e) == [dek |-> e, keyEpoch |-> e]

LEMMA TitleOpens ==
  ASSUME NEW e, NEW u, NEW d, NEW i
  PROVE  DecryptTitle(KeyOf(e), d, EncryptTitle(KeyOf(u), TheDoc, i)) = IF e = u /\ d = TheDoc THEN i ELSE Failed
<1>1. DecryptTitle(KeyOf(e), d, EncryptTitle(KeyOf(u), TheDoc, i))
        = IF u = e /\ TitleAAD(TheDoc, u) = TitleAAD(d, e) THEN i ELSE Failed
  BY DEF DecryptTitle, EncryptTitle, Encrypt, Decrypt, KeyOf
<1>. QED
  BY <1>1, TitleAADTells

LEMMA UpdateOpens ==
  ASSUME NEW e, NEW u, NEW d, NEW a, NEW m, NEW i
  PROVE  DecryptUpdate(KeyOf(e), d, a, EncryptUpdate(KeyOf(u), TheDoc, m, i, i))
           = IF e = u /\ d = TheDoc /\ a = m THEN i ELSE Failed
<1>1. DecryptUpdate(KeyOf(e), d, a, EncryptUpdate(KeyOf(u), TheDoc, m, i, i))
        = IF u = e /\ UpdateAAD(TheDoc, u, m, i) = UpdateAAD(d, e, a, i) THEN i ELSE Failed
  BY DEF DecryptUpdate, EncryptUpdate, Encrypt, Decrypt, KeyOf
<1>. QED
  BY <1>1, UpdateAADTells

(* A ring: a current key of some epoch, and the keys since an epoch.       *)
IsRun(ring, since) ==
  /\ ring \in Seq(KeyEntry) /\ ring # <<>> /\ since \in Nat \ {0}
  /\ \E e \in since .. since + Len(ring) - 1 : ring[1] = KeyOf(e)
  /\ \A n \in 2 .. Len(ring) : ring[n] = KeyOf(since + n - 2)

With(ring, u) == {n \in DOMAIN ring : ring[n].keyEpoch = u}

LEMMA RunKeys ==
  ASSUME NEW ring, NEW since, IsRun(ring, since)
  PROVE  /\ DOMAIN ring = 1 .. Len(ring) /\ Len(ring) \in Nat \ {0}
         /\ \A n \in DOMAIN ring : ring[n] = KeyOf(ring[n].keyEpoch) /\ ring[n].keyEpoch \in Nat
<1>1. DOMAIN ring = 1 .. Len(ring) /\ Len(ring) \in Nat \ {0}
  BY LenProperties, EmptySeq DEF IsRun
<1>2. \A n \in DOMAIN ring : n = 1 \/ n \in 2 .. Len(ring)
  BY <1>1
<1>3. \A e : KeyOf(e).keyEpoch = e
  BY DEF KeyOf
<1>4. \A n \in DOMAIN ring : \E e \in Nat : ring[n] = KeyOf(e)
  <2>1. ASSUME NEW n \in 2 .. Len(ring) PROVE \E e \in Nat : ring[n] = KeyOf(e)
    <3>1. since + n - 2 \in Nat /\ ring[n] = KeyOf(since + n - 2)
      BY <1>1 DEF IsRun
    <3>. QED
      BY <3>1
  <2>2. \E e \in Nat : ring[1] = KeyOf(e)
    BY <1>1 DEF IsRun
  <2>. QED
    BY <1>2, <2>1, <2>2
<1>. QED
  BY <1>1, <1>3, <1>4

(* The code takes the first key that opens: there is one if there is any.  *)
LEMMA MinIsOfIt ==
  ASSUME NEW S, NEW x \in S, \A y \in S : x <= y
  PROVE  Min(S) \in S
BY DEF Min

LEMMA FirstKey ==
  ASSUME NEW ring, NEW since, IsRun(ring, since), NEW u, With(ring, u) # {}
  PROVE  Min(With(ring, u)) \in With(ring, u)
<1>1. DOMAIN ring = 1 .. Len(ring) /\ Len(ring) \in Nat \ {0}
  BY RunKeys
<1>2. CASE 1 \in With(ring, u)
  <2>1. \A y \in With(ring, u) : 1 <= y
    BY <1>1 DEF With
  <2>. QED
    BY <1>2, <2>1, MinIsOfIt
<1>3. CASE 1 \notin With(ring, u)
  <2>1. PICK j \in With(ring, u) : TRUE
    OBVIOUS
  <2>2. ASSUME NEW n \in With(ring, u) PROVE n = u - since + 2
    <3>1. n \in 2 .. Len(ring) /\ ring[n].keyEpoch = u
      BY <1>1, <1>3 DEF With
    <3>2. ring[n] = KeyOf(since + n - 2) /\ since \in Nat
      BY <3>1 DEF IsRun
    <3>3. KeyOf(since + n - 2).keyEpoch = since + n - 2
      BY DEF KeyOf
    <3>. QED
      BY <1>1, <3>1, <3>2, <3>3
  <2>3. j \in Nat /\ \A y \in With(ring, u) : y = j
    BY <1>1, <2>2 DEF With
  <2>4. \A y \in With(ring, u) : j <= y
    BY <2>3
  <2>. QED
    BY <2>4, MinIsOfIt
<1>. QED
  BY <1>2, <1>3

LEMMA RingOpensTitle ==
  ASSUME NEW ring, NEW since, IsRun(ring, since), NEW u, NEW d, NEW i, i # Failed
  PROVE  DecryptTitleWithAnyKey(ring, d, EncryptTitle(KeyOf(u), TheDoc, i))
           = IF d = TheDoc /\ With(ring, u) # {} THEN i ELSE Failed
<1> DEFINE wire == EncryptTitle(KeyOf(u), TheDoc, i)
           opening == {n \in DOMAIN ring : DecryptTitle(ring[n], d, wire) # Failed}
<1>1. \A n \in DOMAIN ring : DecryptTitle(ring[n], d, wire) = IF ring[n].keyEpoch = u /\ d = TheDoc THEN i ELSE Failed
  BY RunKeys, TitleOpens
<1> HIDE DEF wire
<1>2. CASE d = TheDoc
  <2>1. opening = With(ring, u)
    BY <1>1, <1>2 DEF With
  <2>2. With(ring, u) # {} => Min(With(ring, u)) \in With(ring, u)
    BY FirstKey
  <2>3. DecryptTitleWithAnyKey(ring, d, wire)
          = IF opening = {} THEN Failed ELSE DecryptTitle(ring[Min(opening)], d, wire)
    BY DEF DecryptTitleWithAnyKey
  <2> HIDE DEF opening
  <2>. QED
    BY <1>1, <1>2, <2>1, <2>2, <2>3 DEF With, wire
<1>3. CASE d # TheDoc
  <2>1. opening = {}
    BY <1>1, <1>3
  <2>. QED
    BY <1>3, <2>1 DEF DecryptTitleWithAnyKey, wire
<1>. QED
  BY <1>2, <1>3

LEMMA RingOpensUpdate ==
  ASSUME NEW ring, NEW since, IsRun(ring, since), NEW u, NEW d, NEW a, NEW trusted, NEW m, NEW i, i # Failed,
         m # NoSigner
  PROVE  VerifyAndDecryptUpdateWithAnyKey(ring, trusted, d, a, SignAndEncryptUpdate(KeyOf(u), TheDoc, m, i, i))
           = IF d = TheDoc /\ a = m /\ trusted = a /\ With(ring, u) # {} THEN i ELSE Failed
<1> DEFINE signed == SignAndEncryptUpdate(KeyOf(u), TheDoc, m, i, i)
           wire == EncryptUpdate(KeyOf(u), TheDoc, m, i, i)
           opening == UpdateKeys(ring, d, a, signed.wire)
           opener == ring[Min(opening)]
<1>1. signed.wire = wire /\ signed.signature = SignUpdate(m, TheDoc, u, m, wire)
  BY DEF SignAndEncryptUpdate, KeyOf
<1>2. \A n \in DOMAIN ring : DecryptUpdate(ring[n], d, a, wire) = IF ring[n].keyEpoch = u /\ d = TheDoc /\ a = m THEN i ELSE Failed
  BY RunKeys, UpdateOpens
<1>3. VerifyAndDecryptUpdateWithAnyKey(ring, trusted, d, a, signed)
        = IF /\ opening # {} /\ trusted # NoSigner
             /\ VerifyUpdateSignature(trusted, d, opener.keyEpoch, a, signed.wire, signed.signature)
          THEN DecryptUpdate(opener, d, a, signed.wire) ELSE Failed
  BY DEF VerifyAndDecryptUpdateWithAnyKey
<1>4. opening = {n \in DOMAIN ring : DecryptUpdate(ring[n], d, a, wire) # Failed}
  BY <1>1 DEF UpdateKeys
<1> HIDE DEF signed, wire, opening
<1>5. CASE d = TheDoc /\ a = m
  <2>1. opening = With(ring, u)
    BY <1>2, <1>4, <1>5 DEF With
  <2>2. CASE opening = {}
    BY <1>3, <2>1, <2>2 DEF signed
  <2>3. CASE opening # {}
    <3>1. Min(opening) \in opening
      BY <2>1, <2>3, FirstKey
    <3>2. opener.keyEpoch = u /\ DecryptUpdate(opener, d, a, wire) = i
      BY <1>2, <1>5, <2>1, <3>1 DEF With
    <3>3. VerifyUpdateSignature(trusted, d, opener.keyEpoch, a, signed.wire, signed.signature) <=> trusted = a
      <4>1. VerifyUpdateSignature(trusted, d, opener.keyEpoch, a, signed.wire, signed.signature)
              <=> SignUpdate(m, TheDoc, u, m, wire) = SignUpdate(trusted, TheDoc, u, m, wire)
        BY <1>1, <1>5, <3>2 DEF VerifyUpdateSignature
      <4>2. ASSUME SignUpdate(m, TheDoc, u, m, wire) = SignUpdate(trusted, TheDoc, u, m, wire) PROVE m = trusted
        <5>1. \A s : SignUpdate(s, TheDoc, u, m, wire).by = s
          BY DEF SignUpdate
        <5>. QED
          BY <4>2, <5>1
      <4>. QED
        BY <1>5, <4>1, <4>2
    <3> HIDE DEF opener
    <3>4. VerifyAndDecryptUpdateWithAnyKey(ring, trusted, d, a, signed) = IF trusted = a THEN i ELSE Failed
      BY <1>1, <1>3, <1>5, <2>3, <3>2, <3>3
    <3>. QED
      BY <1>5, <2>1, <2>3, <3>4 DEF signed
  <2>. QED
    BY <2>2, <2>3
<1>6. CASE ~(d = TheDoc /\ a = m)
  <2>1. opening = {}
    BY <1>2, <1>4, <1>6
  <2>2. VerifyAndDecryptUpdateWithAnyKey(ring, trusted, d, a, signed) = Failed
    BY <1>3, <2>1
  <2>. QED
    BY <1>6, <2>2 DEF signed
<1>. QED
  BY <1>5, <1>6

-----------------------------------------------------------------------------
(* What keeps RingOpensItsEpochs true: the server has a wrap for every     *)
(* epoch since a member joined, of the key it is labelled with; a ring is  *)
(* a run of those epochs with a current key of one of them in front; and   *)
(* an item was sealed with the key of the epoch it is under.               *)
SealedAs(kind, m, e, i) ==
  [kind |-> kind, author |-> m, under |-> e,
   content |-> CASE kind = "update" -> SignAndEncryptUpdate(KeyOf(e), TheDoc, m, i, i)
                 [] kind = "title" -> EncryptTitle(KeyOf(e), TheDoc, i)
                 [] kind = "snapshot" -> EncryptSnapshot(KeyOf(e), TheDoc, i)]

ItemKinds == {"update", "title", "snapshot"}

EpochsTyped ==
  /\ currentEpoch \in RingEpoch
  /\ sinceEpoch \in [Member -> 0 .. currentEpoch]
  /\ halfRing \in [Member -> 0 .. currentEpoch]
  /\ DOMAIN keyRing = Member

WrapsHeld ==
  /\ \A w \in wrapped : \E m \in Member, e \in 1 .. currentEpoch : w = Wrap(m, e)
  /\ \A m \in Member : Joined(m) => \A e \in sinceEpoch[m] .. currentEpoch : Wrap(m, e) \in wrapped

HalfRings ==
  \A m \in Member : halfRing[m] # 0 => Joined(m) /\ sinceEpoch[m] <= halfRing[m]

RingsAreRuns ==
  \A m \in Member : keyRing[m] # <<>> => IsRun(keyRing[m], sinceEpoch[m])

ItemsAreSealed ==
  /\ sealedItems \in Seq(UNION {{sealedItems[i]} : i \in DOMAIN sealedItems})
  /\ Len(sealedItems) <= MaxSealed
  /\ \A i \in DOMAIN sealedItems : \E kind \in ItemKinds, m \in Member : \E e : sealedItems[i] = SealedAs(kind, m, e, i)

RingInv == EpochsTyped /\ WrapsHeld /\ HalfRings /\ RingsAreRuns /\ ItemsAreSealed

LEMMA RingInit == DocumentCipherInit => RingInv
<1> SUFFICES ASSUME DocumentCipherInit PROVE RingInv
  OBVIOUS
<1>1. EpochsTyped
  BY DocumentCipherAssumption DEF DocumentCipherInit, EpochsTyped, RingEpoch
<1>2. WrapsHeld
  BY DocumentCipherAssumption DEF DocumentCipherInit, WrapsHeld, Joined
<1>3. HalfRings /\ RingsAreRuns
  BY DEF DocumentCipherInit, HalfRings, RingsAreRuns
<1>4. ItemsAreSealed
  BY DocumentCipherAssumption DEF DocumentCipherInit, ItemsAreSealed
<1>. QED
  BY <1>1, <1>2, <1>3, <1>4 DEF RingInv

LEMMA RingNext == RingInv /\ [DocumentCipherNext]_documentCipherVars => RingInv'
<1> SUFFICES ASSUME RingInv, [DocumentCipherNext]_documentCipherVars PROVE RingInv'
  OBVIOUS
<1>0. /\ LastEpoch \in Nat /\ currentEpoch \in Nat \ {0}
      /\ \A m \in Member : sinceEpoch[m] \in Nat /\ halfRing[m] \in Nat /\ sinceEpoch[m] <= currentEpoch /\ halfRing[m] <= currentEpoch
  BY DocumentCipherAssumption DEF RingInv, EpochsTyped, RingEpoch
<1>1. ASSUME NEW m \in Member, JoinDocument(m) PROVE RingInv'
  <2>1. /\ sinceEpoch[m] = 0
        /\ sinceEpoch' = [sinceEpoch EXCEPT ![m] = currentEpoch]
        /\ wrapped' = wrapped \cup {Wrap(m, currentEpoch)}
        /\ UNCHANGED <<currentEpoch, halfRing, keyRing, sealedItems>>
    BY <1>1 DEF JoinDocument, Joined
  <2>2. EpochsTyped'
    BY <1>0, <2>1 DEF RingInv, EpochsTyped
  <2>3. sinceEpoch'[m] = currentEpoch /\ \A n \in Member : n # m => sinceEpoch'[n] = sinceEpoch[n]
    BY <2>1 DEF RingInv, EpochsTyped
  <2>4. WrapsHeld'
    <3>1. \A w \in wrapped' : \E n \in Member, e \in 1 .. currentEpoch : w = Wrap(n, e)
      BY <1>0, <2>1 DEF RingInv, WrapsHeld
    <3>2. ASSUME NEW n \in Member, sinceEpoch'[n] # 0, NEW e \in sinceEpoch'[n] .. currentEpoch PROVE Wrap(n, e) \in wrapped'
      <4>1. CASE n = m
        BY <1>0, <2>1, <2>3, <3>2, <4>1
      <4>2. CASE n # m
        BY <2>1, <2>3, <3>2, <4>2 DEF RingInv, WrapsHeld, Joined
      <4>. QED
        BY <4>1, <4>2
    <3>. QED
      BY <2>1, <3>1, <3>2 DEF WrapsHeld, Joined
  <2>5. HalfRings'
    BY <2>1, <2>3 DEF RingInv, HalfRings, Joined
  <2>6. RingsAreRuns'
    <3>1. keyRing[m] = <<>>
      BY <2>1 DEF RingInv, RingsAreRuns, IsRun
    <3>. QED
      BY <2>1, <2>3, <3>1 DEF RingInv, RingsAreRuns
  <2>7. ItemsAreSealed'
    BY <2>1 DEF RingInv, ItemsAreSealed
  <2>. QED
    BY <2>2, <2>4, <2>5, <2>6, <2>7 DEF RingInv
<1>2. CASE RotateDocumentKey
  <2>1. /\ currentEpoch < LastEpoch /\ currentEpoch' = currentEpoch + 1
        /\ wrapped' = wrapped \cup {Wrap(n, currentEpoch + 1) : n \in {n \in Member : Joined(n)}}
        /\ UNCHANGED <<sinceEpoch, halfRing, keyRing, sealedItems>>
    BY <1>2 DEF RotateDocumentKey
  <2>2. EpochsTyped'
    BY <1>0, <2>1 DEF RingInv, EpochsTyped, RingEpoch
  <2>3. WrapsHeld'
    <3>1. \A w \in wrapped' : \E n \in Member, e \in 1 .. currentEpoch + 1 : w = Wrap(n, e)
      <4>1. 1 .. currentEpoch \subseteq 1 .. currentEpoch + 1 /\ currentEpoch + 1 \in 1 .. currentEpoch + 1
        BY <1>0
      <4>. QED
        BY <2>1, <4>1 DEF RingInv, WrapsHeld
    <3>2. ASSUME NEW n \in Member, Joined(n), NEW e \in sinceEpoch[n] .. currentEpoch + 1 PROVE Wrap(n, e) \in wrapped'
      <4>1. e \in sinceEpoch[n] .. currentEpoch \/ e = currentEpoch + 1
        BY <1>0
      <4>. QED
        BY <2>1, <3>2, <4>1 DEF RingInv, WrapsHeld
    <3>. QED
      BY <2>1, <3>1, <3>2 DEF WrapsHeld, Joined
  <2>4. HalfRings' /\ RingsAreRuns' /\ ItemsAreSealed'
    BY <2>1 DEF RingInv, HalfRings, RingsAreRuns, ItemsAreSealed, Joined
  <2>. QED
    BY <2>2, <2>3, <2>4 DEF RingInv
<1>3. ASSUME NEW m \in Member, FetchAndUnwrapDEK(m) PROVE RingInv'
  <2>1. /\ sinceEpoch[m] # 0
        /\ halfRing' = [halfRing EXCEPT ![m] = currentEpoch]
        /\ UNCHANGED <<currentEpoch, wrapped, sinceEpoch, keyRing, sealedItems>>
    BY <1>3 DEF FetchAndUnwrapDEK, Joined
  <2>2. EpochsTyped' /\ HalfRings'
    BY <1>0, <2>1 DEF RingInv, EpochsTyped, HalfRings, Joined
  <2>. QED
    BY <2>1, <2>2 DEF RingInv, WrapsHeld, RingsAreRuns, ItemsAreSealed, Joined
<1>4. ASSUME NEW m \in Member, FetchKeyHistory(m) PROVE RingInv'
  <2> DEFINE since == sinceEpoch[m]
             archived == since .. currentEpoch - 1
             box(e) == CHOOSE w \in wrapped : w.of = e /\ w.box.to = m
             entry(i) == RingEntry(m, box(since + i - 1))
             history == [i \in 1 .. Cardinality(archived) |-> entry(i)]
             front == RingEntry(m, box(halfRing[m]))
             ring == <<front>> \o history
  <2>1. /\ halfRing[m] # 0
        /\ keyRing' = [keyRing EXCEPT ![m] = ring]
        /\ halfRing' = [halfRing EXCEPT ![m] = 0]
        /\ UNCHANGED <<currentEpoch, wrapped, sinceEpoch, sealedItems>>
    BY <1>4 DEF FetchKeyHistory
  <2>2. Joined(m) /\ since \in Nat \ {0} /\ since <= halfRing[m] /\ halfRing[m] <= currentEpoch
    BY <1>0, <2>1 DEF RingInv, HalfRings, Joined
  <2>3. ASSUME NEW e \in since .. currentEpoch PROVE RingEntry(m, box(e)) = KeyOf(e)
    <3>1. Wrap(m, e) \in wrapped /\ Wrap(m, e).of = e /\ Wrap(m, e).box.to = m
      BY <2>2 DEF RingInv, WrapsHeld, Wrap, SealFor
    <3>2. box(e) \in wrapped /\ box(e).of = e /\ box(e).box.to = m
      BY <3>1
    <3> HIDE DEF box
    <3>3. PICK n \in Member, f \in 1 .. currentEpoch : box(e) = Wrap(n, f)
      BY <3>2 DEF RingInv, WrapsHeld
    <3>4. box(e).box.dek = e
      BY <3>2, <3>3 DEF Wrap, SealFor
    <3>. QED
      BY <3>2, <3>4 DEF RingEntry, Unseal, KeyOf
  <2>4. Cardinality(archived) = currentEpoch - since /\ currentEpoch - since \in Nat
    <3>1. since \in Int /\ currentEpoch - 1 \in Int /\ since <= currentEpoch
      BY <1>0, <2>2
    <3>2. Cardinality(archived) = IF since > currentEpoch - 1 THEN 0 ELSE currentEpoch - 1 - since + 1
      BY <3>1, FS_Interval
    <3> HIDE DEF archived, since
    <3>. QED
      BY <1>0, <3>1, <3>2
  <2> HIDE DEF archived, box
  <2>5. front = KeyOf(halfRing[m])
    BY <1>0, <2>2, <2>3
  <2>6. \A i \in 1 .. currentEpoch - since : entry(i) = KeyOf(since + i - 1)
    BY <1>0, <2>2, <2>3
  <2>7. \A e \in 1 .. currentEpoch : KeyOf(e) \in KeyEntry
    BY <1>0 DEF RingInv, EpochsTyped, KeyOf, KeyEntry, RingEpoch
  <2>8. history = [i \in 1 .. currentEpoch - since |-> KeyOf(since + i - 1)]
    BY <2>4, <2>6
  <2> HIDE DEF front, history, entry, since
  <2>9. history \in Seq(KeyEntry) /\ Len(history) = currentEpoch - since /\ <<front>> \in Seq(KeyEntry)
    <3>1. \A i \in 1 .. currentEpoch - since : since + i - 1 \in 1 .. currentEpoch
      BY <1>0, <2>2, <2>4
    <3>2. halfRing[m] \in 1 .. currentEpoch
      BY <1>0, <2>2
    <3>. QED
      BY <2>4, <2>5, <2>7, <2>8, <3>1, <3>2
  <2>10. ring \in Seq(KeyEntry) /\ Len(ring) = Len(<<front>>) + Len(history)
    BY <2>9, ConcatProperties
  <2>11. \A i \in 1 .. Len(<<front>>) + Len(history) :
           ring[i] = IF i <= Len(<<front>>) THEN <<front>>[i] ELSE history[i - Len(<<front>>)]
    BY <2>9, ConcatProperties
  <2>12. Len(<<front>>) = 1 /\ <<front>>[1] = front
    OBVIOUS
  <2> HIDE DEF ring
  <2>13. Len(ring) = currentEpoch - since + 1 /\ ring # <<>>
    BY <2>4, <2>9, <2>10, <2>12
  <2>14. ring[1] = front
    BY <2>4, <2>9, <2>11, <2>12
  <2>15. \A i \in 2 .. Len(ring) : ring[i] = KeyOf(since + i - 2)
    <3> TAKE i \in 2 .. Len(ring)
    <3>1. i - 1 \in 1 .. currentEpoch - since /\ i \in 1 .. 1 + (currentEpoch - since) /\ ~(i <= 1)
      BY <2>4, <2>13
    <3>2. ring[i] = history[i - 1]
      BY <2>9, <2>11, <2>12, <3>1
    <3>3. history[i - 1] = KeyOf(since + (i - 1) - 1)
      BY <2>8, <3>1
    <3>4. since + (i - 1) - 1 = since + i - 2
      BY <2>2, <3>1
    <3>. QED
      BY <3>2, <3>3, <3>4
  <2>16. IsRun(ring, since)
    <3>1. halfRing[m] \in since .. since + Len(ring) - 1
      BY <1>0, <2>2, <2>13
    <3>. QED
      BY <2>2, <2>5, <2>10, <2>13, <2>14, <2>15, <3>1 DEF IsRun
  <2>17. EpochsTyped' /\ HalfRings'
    BY <1>0, <2>1 DEF RingInv, EpochsTyped, HalfRings, Joined
  <2>18. RingsAreRuns'
    BY <2>1, <2>16 DEF RingInv, EpochsTyped, RingsAreRuns, since
  <2>. QED
    BY <2>1, <2>17, <2>18 DEF RingInv, WrapsHeld, ItemsAreSealed, Joined
<1>5. ASSUME NEW m \in Member, ClearDEKCache(m) PROVE RingInv'
  <2>1. /\ keyRing' = [keyRing EXCEPT ![m] = <<>>]
        /\ UNCHANGED <<currentEpoch, wrapped, sinceEpoch, halfRing, sealedItems>>
    BY <1>5 DEF ClearDEKCache
  <2>2. EpochsTyped' /\ RingsAreRuns'
    BY <2>1 DEF RingInv, EpochsTyped, RingsAreRuns
  <2>. QED
    BY <2>1, <2>2 DEF RingInv, WrapsHeld, HalfRings, ItemsAreSealed, Joined
<1>6. ASSUME NEW m \in Member, NEW kind \in ItemKinds, SealItem(m, kind) PROVE RingInv'
  <2> DEFINE i == Len(sealedItems) + 1
             e == keyRing[m][1].keyEpoch
             S == UNION {{sealedItems[n]} : n \in DOMAIN sealedItems}
             item == SealedAs(kind, m, e, i)
  <2>1. keyRing[m] # <<>> /\ i <= MaxSealed
        /\ UNCHANGED <<currentEpoch, wrapped, sinceEpoch, halfRing, keyRing>>
    BY <1>6 DEF SealItem
  <2>2. keyRing[m][1] = KeyOf(e)
    <3>1. IsRun(keyRing[m], sinceEpoch[m])
      BY <2>1 DEF RingInv, RingsAreRuns
    <3>. QED
      BY <3>1, RunKeys
  <2>3. sealedItems' = Append(sealedItems, item)
    BY <1>6, <2>2 DEF SealItem, SealedAs
  <2>4. sealedItems \in Seq(S) /\ sealedItems \in Seq(S \cup {item}) /\ Len(sealedItems) \in Nat /\ DOMAIN sealedItems = 1 .. Len(sealedItems)
    <3>1. sealedItems \in Seq(S)
      BY DEF RingInv, ItemsAreSealed
    <3> HIDE DEF S, item
    <3>. QED
      BY <3>1, SeqMonotonic, LenProperties
  <2> HIDE DEF S, item
  <2>5. /\ sealedItems' \in Seq(S \cup {item}) /\ Len(sealedItems') = i
        /\ \A n \in 1 .. Len(sealedItems) : sealedItems'[n] = sealedItems[n]
        /\ sealedItems'[i] = item
    BY <2>3, <2>4, AppendProperties
  <2>6. DOMAIN sealedItems' = 1 .. Len(sealedItems) + 1
    BY <2>5, LenProperties
  <2>7. \A n \in DOMAIN sealedItems' : n \in DOMAIN sealedItems \/ n = i
    BY <2>4, <2>6
  <2>8. S \cup {item} = UNION {{sealedItems'[n]} : n \in DOMAIN sealedItems'}
    BY <2>4, <2>5, <2>6, <2>7 DEF S
  <2>9. \A n \in DOMAIN sealedItems' : \E kd \in ItemKinds, a \in Member : \E f : sealedItems'[n] = SealedAs(kd, a, f, n)
    BY <2>4, <2>5, <2>7 DEF RingInv, ItemsAreSealed, item
  <2>10. ItemsAreSealed'
    BY <2>1, <2>5, <2>8, <2>9 DEF ItemsAreSealed
  <2>. QED
    BY <2>1, <2>10 DEF RingInv, EpochsTyped, WrapsHeld, HalfRings, RingsAreRuns, Joined
<1>7. CASE UNCHANGED documentCipherVars
  BY <1>7 DEF documentCipherVars, RingInv, EpochsTyped, WrapsHeld, HalfRings, RingsAreRuns, ItemsAreSealed, Joined
<1>. QED
  BY <1>1, <1>2, <1>3, <1>4, <1>5, <1>6, <1>7 DEF DocumentCipherNext, ItemKinds

(* The epochs of a ring are those since its member joined.                 *)
LEMMA RunHasNoGap ==
  ASSUME NEW ring, NEW since, IsRun(ring, since)
  PROVE  LET epochs == {ring[n].keyEpoch : n \in DOMAIN ring} IN epochs = since .. Max(epochs)
<1> DEFINE epochs == {ring[n].keyEpoch : n \in DOMAIN ring}
<1>1. DOMAIN ring = 1 .. Len(ring) /\ Len(ring) \in Nat \ {0} /\ since \in Nat
  BY RunKeys DEF IsRun
<1>2. PICK e \in since .. since + Len(ring) - 1 : ring[1] = KeyOf(e)
  BY DEF IsRun
<1>3. \A f : KeyOf(f).keyEpoch = f
  BY DEF KeyOf
<1>4. ring[1].keyEpoch = e /\ \A n \in 2 .. Len(ring) : ring[n].keyEpoch = since + n - 2
  BY <1>2, <1>3 DEF IsRun
<1> DEFINE last == IF e = since + Len(ring) - 1 THEN e ELSE since + Len(ring) - 2
<1>5. epochs = since .. last
  <2>1. ASSUME NEW n \in DOMAIN ring PROVE ring[n].keyEpoch \in since .. last
    <3>1. CASE n = 1
      BY <1>1, <1>2, <1>4, <3>1
    <3>2. CASE n \in 2 .. Len(ring)
      BY <1>1, <1>2, <1>4, <3>2
    <3>. QED
      BY <1>1, <3>1, <3>2
  <2>2. ASSUME NEW f \in since .. last PROVE \E n \in DOMAIN ring : ring[n].keyEpoch = f
    <3>1. CASE f = e
      BY <1>1, <1>4, <3>1
    <3>2. CASE f # e
      <4>1. f - since + 2 \in 2 .. Len(ring) /\ since + (f - since + 2) - 2 = f
        BY <1>1, <1>2, <3>2
      <4>2. ring[f - since + 2].keyEpoch = f /\ f - since + 2 \in DOMAIN ring
        BY <1>1, <1>4, <4>1
      <4>. QED
        BY <4>2
    <3>. QED
      BY <3>1, <3>2
  <2>. QED
    BY <2>1, <2>2
<1>6. since <= last /\ last \in Nat
  BY <1>1, <1>2
<1> HIDE DEF last
<1>7. Max(since .. last) = last
  <2>1. last \in since .. last /\ \A y \in since .. last : last >= y
    BY <1>1, <1>6
  <2>2. \A x \in since .. last : x >= last => x = last
    BY <1>1, <1>6
  <2>. QED
    BY <2>1, <2>2 DEF Max
<1>. QED
  BY <1>5, <1>7

(* However keys are rotated before, while and after a ring is fetched, and *)
(* whatever epoch an item was sealed under: a tab reads it exactly when    *)
(* its ring has that epoch, as of its own document and, for an update, its *)
(* own trusted author; for any number of members, epochs and items.        *)
THEOREM RingsOpenWhatTheyHold == DocumentCipherSpec => []RingOpensItsEpochs
<1>1. RingInv => RingOpensItsEpochs
  <2> SUFFICES ASSUME RingInv, NEW m \in Member
               PROVE  LET epochs == {keyRing[m][n].keyEpoch : n \in DOMAIN keyRing[m]}
                      IN /\ epochs # {} => epochs = sinceEpoch[m] .. Max(epochs)
                         /\ \A i \in DOMAIN sealedItems, d \in Document, author \in Member, trusted \in Member \cup {NoSigner} :
                              LET item == sealedItems[i]
                                  honest == d = TheDoc /\ (item.kind = "update" => author = item.author /\ trusted = author)
                              IN OpensAs(m, i, d, author, trusted) = IF honest /\ item.under \in epochs THEN i ELSE Failed
    BY DEF RingOpensItsEpochs
  <2> DEFINE ring == keyRing[m]
             epochs == {ring[n].keyEpoch : n \in DOMAIN ring}
  <2>1. epochs # {} => epochs = sinceEpoch[m] .. Max(epochs)
    <3>1. CASE ring = <<>>
      BY <3>1
    <3>2. CASE ring # <<>>
      <4>1. IsRun(ring, sinceEpoch[m])
        BY <3>2 DEF RingInv, RingsAreRuns
      <4>. QED
        BY <4>1, RunHasNoGap
    <3>. QED
      BY <3>1, <3>2
  <2>2. ASSUME NEW i \in DOMAIN sealedItems, NEW d \in Document, NEW author \in Member, NEW trusted \in Member \cup {NoSigner}
        PROVE  LET item == sealedItems[i]
                   honest == d = TheDoc /\ (item.kind = "update" => author = item.author /\ trusted = author)
               IN OpensAs(m, i, d, author, trusted) = IF honest /\ item.under \in epochs THEN i ELSE Failed
    <3>0. PICK kind \in ItemKinds, a \in Member : \E u : sealedItems[i] = SealedAs(kind, a, u, i)
      BY DEF RingInv, ItemsAreSealed
    <3>1. PICK u : sealedItems[i] = SealedAs(kind, a, u, i)
      BY <3>0
    <3>2. i # Failed
      <4>1. DOMAIN sealedItems = 1 .. Len(sealedItems) /\ Len(sealedItems) \in Nat
        BY LenProperties DEF RingInv, ItemsAreSealed
      <4>. QED
        BY <4>1 DEF Failed
    <3>3. u \in epochs <=> With(ring, u) # {}
      BY DEF With
    <3>4. /\ sealedItems[i].kind = kind /\ sealedItems[i].author = a /\ sealedItems[i].under = u
          /\ kind = "update" => sealedItems[i].content = SignAndEncryptUpdate(KeyOf(u), TheDoc, a, i, i)
          /\ kind \in {"title", "snapshot"} => sealedItems[i].content = EncryptTitle(KeyOf(u), TheDoc, i)
      BY <3>1 DEF SealedAs, ItemKinds, EncryptSnapshot
    <3>5. a # NoSigner
      BY DocumentCipherAssumption
    <3> HIDE DEF epochs
    <3>6. CASE kind = "update"
      <4>1. OpensAs(m, i, d, author, trusted)
              = VerifyAndDecryptUpdateWithAnyKey(ring, trusted, d, author, SignAndEncryptUpdate(KeyOf(u), TheDoc, a, i, i))
        BY <3>4, <3>6 DEF OpensAs
      <4>2. CASE ring = <<>>
        <5>1. UpdateKeys(ring, d, author, sealedItems[i].content.wire) = {}
          BY <4>2 DEF UpdateKeys
        <5>2. OpensAs(m, i, d, author, trusted) = Failed
          BY <3>4, <3>6, <5>1 DEF OpensAs, VerifyAndDecryptUpdateWithAnyKey
        <5>3. u \notin epochs
          BY <4>2 DEF epochs
        <5>. QED
          BY <3>4, <5>2, <5>3
      <4>3. CASE ring # <<>>
        <5>1. IsRun(ring, sinceEpoch[m])
          BY <4>3 DEF RingInv, RingsAreRuns
        <5>2. VerifyAndDecryptUpdateWithAnyKey(ring, trusted, d, author, SignAndEncryptUpdate(KeyOf(u), TheDoc, a, i, i))
                = IF d = TheDoc /\ author = a /\ trusted = author /\ With(ring, u) # {} THEN i ELSE Failed
          BY <3>2, <3>5, <5>1, RingOpensUpdate
        <5>. QED
          BY <3>3, <3>4, <3>6, <4>1, <5>2
      <4>. QED
        BY <4>2, <4>3
    <3>7. CASE kind \in {"title", "snapshot"}
      <4>1. OpensAs(m, i, d, author, trusted) = DecryptTitleWithAnyKey(ring, d, EncryptTitle(KeyOf(u), TheDoc, i))
        BY <3>4, <3>7 DEF OpensAs, DecryptSnapshotWithAnyKey
      <4>2. CASE ring = <<>>
        <5>1. DecryptTitleWithAnyKey(ring, d, EncryptTitle(KeyOf(u), TheDoc, i)) = Failed
          BY <4>2 DEF DecryptTitleWithAnyKey
        <5>2. u \notin epochs
          BY <4>2 DEF epochs
        <5>. QED
          BY <3>4, <4>1, <5>1, <5>2
      <4>3. CASE ring # <<>>
        <5>1. IsRun(ring, sinceEpoch[m])
          BY <4>3 DEF RingInv, RingsAreRuns
        <5>2. DecryptTitleWithAnyKey(ring, d, EncryptTitle(KeyOf(u), TheDoc, i))
                = IF d = TheDoc /\ With(ring, u) # {} THEN i ELSE Failed
          BY <3>2, <5>1, RingOpensTitle
        <5>. QED
          BY <3>3, <3>4, <3>7, <4>1, <5>2
      <4>. QED
        BY <4>2, <4>3
    <3>. QED
      BY <3>6, <3>7 DEF ItemKinds
  <2>. QED
    BY <2>1, <2>2
<1>. QED
  BY <1>1, RingInit, RingNext, PTL DEF DocumentCipherSpec
-----------------------------------------------------------------------------
(* Types. Presence: a tab counts its own clock on when its provider is     *)
(* built and when it is closed, and otherwise with an event.               *)
Turns(t) == IF mount[t] = "loading" THEN 0 ELSE IF mount[t] = "open" THEN 1 ELSE 2
ClocksCounted ==
  /\ events \in 0 .. MaxEvents
  /\ \A t \in Tab : aware[t][t].clock <= events + Turns(t)

LEMMA ClocksCountedNext ==
  LinkInv /\ AwareInv /\ ClocksCounted /\ [PresenceNext]_presenceVars => ClocksCounted'
<1> SUFFICES ASSUME LinkInv, AwareInv, ClocksCounted, [PresenceNext]_presenceVars PROVE ClocksCounted'
  OBVIOUS
<1>1. /\ \A t, u \in Tab : aware[t][u] \in AnyEntry /\ aware[t][u].clock \in Nat
      /\ mount \in [Tab -> {"loading", "open", "closed"}]
      /\ events \in 0 .. MaxEvents /\ MaxEvents \in Nat
  BY PresenceAssumption DEF LinkInv, PresenceTyped, AnyEntry, ClocksCounted
(* Steps that take no turn, and set no clock of a tab's own.               *)
<1>2. ASSUME events' \in events .. MaxEvents, UNCHANGED mount,
             \A u \in Tab : aware'[u][u].clock <= aware[u][u].clock /\ aware'[u][u].clock \in Nat
      PROVE  ClocksCounted'
  <2>1. \A u \in Tab : Turns(u) \in Nat /\ Turns(u)' = Turns(u)
    BY <1>2 DEF Turns
  <2>. QED
    BY <1>1, <1>2, <2>1 DEF ClocksCounted
<1>3. ASSUME NEW t \in Tab, ConnectDocument(t) PROVE ClocksCounted'
  <2>1. /\ mount[t] = "loading" /\ mount' = [mount EXCEPT ![t] = "open"] /\ events' = events
        /\ Present(t, "online")
    BY <1>3 DEF ConnectDocument, BuildDocProvider
  <2>2. /\ aware'[t][t] = [clock |-> aware[t][t].clock + 1, status |-> "online"]
        /\ \A v \in Tab : v # t => aware'[v] = aware[v]
    BY <2>1, PresentDoes DEF Status
  <2>3. Turns(t) = 0 /\ Turns(t)' = 1 /\ \A v \in Tab : v # t => Turns(v)' = Turns(v)
    BY <1>1, <2>1 DEF Turns
  <2>. QED
    BY <1>1, <2>1, <2>2, <2>3 DEF ClocksCounted
<1>4. ASSUME NEW t \in Tab, CloseDocument(t) PROVE ClocksCounted'
  <2>1. /\ mount[t] \in {"loading", "open"} /\ mount' = [mount EXCEPT ![t] = "closed"] /\ events' = events
        /\ phase[t] = "none" => aware' = aware
        /\ phase[t] # "none" =>
             aware' = [aware EXCEPT ![t] = [u \in Tab |->
                         IF u = t THEN [clock |-> aware[t][t].clock + 1, status |-> "none"] ELSE Unknown]]
    BY <1>4 DEF CloseDocument
  <2>2. /\ \A v \in Tab : v # t => aware'[v] = aware[v]
        /\ aware'[t][t].clock \in {aware[t][t].clock, aware[t][t].clock + 1}
        /\ mount[t] = "loading" => aware'[t][t].clock = aware[t][t].clock
    BY <2>1 DEF LinkInv, PresenceTyped, Mounts
  <2>3. /\ Turns(t)' = 2 /\ \A v \in Tab : v # t => Turns(v)' = Turns(v)
        /\ Turns(t) = IF mount[t] = "loading" THEN 0 ELSE 1
    BY <1>1, <2>1 DEF Turns
  <2>. QED
    BY <1>1, <2>1, <2>2, <2>3 DEF ClocksCounted
<1>5. ASSUME NEW t \in Tab, SetPresenceStatus(t) PROVE ClocksCounted'
  <2>1. PICK s \in {"online", "away"} : Present(t, s)
    BY <1>5 DEF SetPresenceStatus
  <2>2. /\ events < MaxEvents /\ events' = events + 1 /\ mount' = mount
        /\ aware'[t][t] = [clock |-> aware[t][t].clock + 1, status |-> s]
        /\ \A v \in Tab : v # t => aware'[v] = aware[v]
    BY <1>5, <2>1, PresentDoes DEF SetPresenceStatus, Status
  <2>3. \A v \in Tab : Turns(v) \in Nat /\ Turns(v)' = Turns(v)
    BY <2>2 DEF Turns
  <2>. QED
    BY <1>1, <2>2, <2>3 DEF ClocksCounted
<1>6. ASSUME NEW t \in Tab, HandleOpen(t) \/ HandleClose(t) \/ Reconnect(t) PROVE ClocksCounted'
  <2>1. events' = events /\ mount' = mount /\ aware' = aware
    BY <1>6 DEF HandleOpen, HandleClose, Reconnect
  <2>. QED
    BY <1>1, <1>2, <2>1
<1>7. ASSUME NEW t \in Tab, ExpireAwareness(t) PROVE ClocksCounted'
  <2>1. PICK u \in Tab \ {t} : aware' = [aware EXCEPT ![t] = [aware[t] EXCEPT ![u] = [aware[t][u] EXCEPT !.status = "none"]]]
    BY <1>7 DEF ExpireAwareness
  <2>2. events' = events /\ mount' = mount
    BY <1>7 DEF ExpireAwareness
  <2>3. \A v \in Tab : aware'[v][v] = aware[v][v]
    BY <2>1 DEF LinkInv, PresenceTyped
  <2>. QED
    BY <1>1, <1>2, <2>2, <2>3
<1>8. ASSUME NEW c \in Conn, HandleMessage(c) PROVE ClocksCounted'
  <2>. DEFINE f == Head(outbox[c])
              t == owner[c]
  <2>1. events' = events /\ mount' = mount /\ outbox[c] # <<>> /\ outbox[c] \in Seq(Frame)
    BY <1>8 DEF HandleMessage, LinkInv, PresenceTyped
  <2>2. f \in Elems(outbox[c])
    BY <2>1, ElemsOf
  <2>3. CASE f.kind # "presence"
    <3>1. aware' = aware
      BY <1>8, <2>3, MessageDoes
    <3>. QED
      BY <1>1, <1>2, <2>1, <3>1
  <2>4. CASE f.kind = "presence"
    <3>1. PICK x \in Tab : x = f.tab /\ f.entry \in AnyEntry
      BY <1>8, <2>4, MessageDoes
    <3>2. PICK e : e = ApplyRemoteAwareness(aware[t][x], f)
      OBVIOUS
    <3>3. aware' = [aware EXCEPT ![t] = [aware[t] EXCEPT ![x] = e]]
      BY <1>8, <2>4, <3>1, <3>2, MessageDoes
    <3>4. Said(aware[x][x], f.entry)
      BY <2>2, <2>4, <3>1 DEF AwareInv, AwareTruth
    <3>. HIDE DEF f, t
    <3>5. t \in Tab => e \in {aware[t][x], f.entry}
      BY <1>1, <3>1, <3>2, ApplyTyped
    <3>6. ASSUME NEW v \in Tab PROVE aware'[v][v].clock <= aware[v][v].clock /\ aware'[v][v].clock \in Nat
      <4>1. aware'[v][v] = IF v = t /\ v = x THEN e ELSE aware[v][v]
        BY <3>3 DEF LinkInv, PresenceTyped
      <4>2. CASE v = t /\ v = x
        BY <1>1, <3>1, <3>4, <3>5, <4>1, <4>2 DEF Said, AnyEntry
      <4>3. CASE ~(v = t /\ v = x)
        BY <1>1, <4>1, <4>3
      <4>. QED
        BY <4>2, <4>3
    <3>. QED
      BY <1>1, <1>2, <2>1, <3>6
  <2>. QED
    BY <2>3, <2>4
<1>9. ASSUME NEW c \in Conn,
             \/ Join(c) \/ ReadMembers(c) \/ SendJoined(c) \/ RelayPresence(c)
             \/ Leave(c) \/ AnnounceLeft(c) \/ Cut(c)
      PROVE  ClocksCounted'
  <2>1. mount' = mount /\ aware' = aware /\ events' \in events .. MaxEvents
    BY <1>1, <1>9 DEF Join, ReadMembers, SendJoined, RelayPresence, Leave, AnnounceLeft, Cut, page
  <2>. QED
    BY <1>1, <1>2, <2>1
<1>10. CASE UNCHANGED presenceVars
  <2>1. mount' = mount /\ aware' = aware /\ events' = events
    BY <1>10 DEF presenceVars
  <2>. QED
    BY <1>1, <1>2, <2>1
<1>. QED
  BY <1>3, <1>4, <1>5, <1>6, <1>7, <1>8, <1>9, <1>10 DEF PresenceNext

(* The types of presence; among them, that a tab has a socket exactly when *)
(* its provider connects or is connected, and that nobody is in the room   *)
(* whose handler has not joined or has left it (provider.ts, hub.go).      *)
THEOREM PresenceTypes == PresenceSpec => []PresenceTypeOK
<1>1. PresenceInit => ClocksCounted
  BY PresenceAssumption DEF PresenceInit, ClocksCounted, Turns, Unknown
<1>2. LinkInv /\ AwareInv /\ ClocksCounted => PresenceTypeOK
  <2> SUFFICES ASSUME LinkInv, AwareInv, ClocksCounted PROVE PresenceTypeOK
    OBVIOUS
  <2>1. aware \in [Tab -> [Tab -> Entry]]
    <3>1. ASSUME NEW t \in Tab, NEW u \in Tab PROVE aware[t][u] \in Entry
      <4>1. aware[t][u] \in AnyEntry /\ aware[u][u] \in AnyEntry
        BY DEF LinkInv, PresenceTyped
      <4>2. aware[t][u].clock <= aware[u][u].clock
        BY DEF AwareInv, AwareTruth, Said
      <4>3. Turns(u) \in 0 .. 2
        BY DEF Turns
      <4>4. aware[t][u].clock \in 0 .. MaxEvents + 2
        BY <4>1, <4>2, <4>3, PresenceAssumption DEF AnyEntry, ClocksCounted
      <4>. QED
        BY <4>1, <4>4 DEF AnyEntry, Entry
    <3>. QED
      BY <3>1 DEF LinkInv, PresenceTyped
  <2>2. \A t \in Tab : (ws[t] # NoConn) = (phase[t] \in {"connecting", "connected"})
    <3>1. \A t \in Tab : ws[t] # NoConn <=> phase[t] \in {"connecting", "connected"}
      BY DEF LinkInv, Mounts
    <3>. QED
      BY <3>1
  <2>3. \A c \in room : handler[c] \notin {"none", "accepted", "left"}
    BY DEF LinkInv, Handlers, InRoom
  <2>. QED
    BY <2>1, <2>2, <2>3 DEF LinkInv, PresenceTyped, ClocksCounted, PresenceTypeOK, InRoom
<1>. QED
  BY <1>1, <1>2, Awareness, ClocksCountedNext, PTL DEF PresenceSpec

-----------------------------------------------------------------------------
(* Invites: the answers under way, one by one. Those of an invite at a     *)
(* stage are numbered, so none are more than there are.                    *)
Answers == Invite \X Stage \X (1 .. MaxAnswers)
Given == {a \in Answers : answers[a[1]][a[2]] >= a[3]}

AnswersCounted ==
  /\ answers \in [Invite -> [Stage -> 0 .. MaxAnswers]]
  /\ IsFiniteSet(Given) /\ Cardinality(Given) <= MaxAnswers

LEMMA AnswersFew ==
  ASSUME NEW S, IsFiniteSet(S), NEW i, NEW s, NEW n \in Nat, \A k \in 1 .. n : <<i, s, k>> \in S
  PROVE  n <= Cardinality(S)
<1>. DEFINE nth == [k \in 1 .. n |-> <<i, s, k>>]
<1>1. nth \in [1 .. n -> S] /\ \A j, k \in 1 .. n : nth[j] = nth[k] => j = k
  OBVIOUS
<1>. HIDE DEF nth
<1>2. nth \in Injection(1 .. n, S)
  BY <1>1 DEF Injection, IsInjective
<1>3. Cardinality(1 .. n) <= Cardinality(S)
  BY <1>2, FS_Injection
<1>4. 1 \in Int /\ n \in Int
  OBVIOUS
<1>5. Cardinality(1 .. n) = IF 1 > n THEN 0 ELSE n - 1 + 1
  BY <1>4, FS_Interval
<1>. QED
  BY <1>3, <1>5

LEMMA OneMoreInSet ==
  ASSUME NEW S, IsFiniteSet(S), NEW x
  PROVE  /\ IsFiniteSet(S \cup {x}) /\ Cardinality(S) \in Nat /\ Cardinality(S \cup {x}) \in Nat
         /\ Cardinality(S \cup {x}) <= Cardinality(S) + 1
<1>1. IsFiniteSet(S \cup {x}) /\ Cardinality(S) \in Nat
  BY FS_AddElement, FS_CardinalityType
<1>2. Cardinality(S \cup {x}) = IF x \in S THEN Cardinality(S) ELSE Cardinality(S) + 1
  BY FS_AddElement
<1>. QED
  BY <1>1, <1>2

LEMMA GivenAre ==
  \A i \in Invite, s \in Stage, k \in 1 .. MaxAnswers :
    /\ <<i, s, k>> \in Answers
    /\ <<i, s, k>> \in Given <=> answers[i][s] >= k
    /\ <<i, s, k>> \in Given' <=> answers'[i][s] >= k
BY DEF Answers, Given

LEMMA RespondCounted ==
  ASSUME AnswersCounted, NEW i \in Invite, RespondToInvite(i) PROVE AnswersCounted'
<1>. DEFINE n == answers[i]["sent"]
            new == <<i, "sent", n + 1>>
<1>1. answers' = [answers EXCEPT ![i] = [answers[i] EXCEPT !["sent"] = n + 1]]
  BY Zenon DEF RespondToInvite
<1>2. /\ AllUnderWay < MaxAnswers /\ MaxAnswers \in Nat /\ n \in 0 .. MaxAnswers /\ "sent" \in Stage
      /\ answers \in [Invite -> [Stage -> 0 .. MaxAnswers]]
  BY InvitesAssumption DEF RespondToInvite, AnswersCounted, Stage
<1>3. Cardinality(Given) < MaxAnswers /\ Cardinality(Given) \in Nat /\ IsFiniteSet(Given)
  <2>1. AllUnderWay = Cardinality(Given)
    BY Zenon DEF AllUnderWay, Given, Answers
  <2>. QED
    BY <1>2, <2>1, FS_CardinalityType DEF AnswersCounted
<1>4. n <= Cardinality(Given)
  <2>1. \A k \in 1 .. n : <<i, "sent", k>> \in Given
    BY <1>2, GivenAre
  <2>2. n \in Nat
    BY <1>2
  <2>. HIDE DEF n
  <2>. QED
    BY <1>3, <2>1, <2>2, AnswersFew
<1>5. n + 1 \in 1 .. MaxAnswers
  BY <1>2, <1>3, <1>4
<1>. HIDE DEF n
<1>6. answers' \in [Invite -> [Stage -> 0 .. MaxAnswers]]
  BY <1>1, <1>2, <1>5
<1>7. Given' = Given \cup {new}
  <2>1. ASSUME NEW a \in Answers PROVE a \in Given' <=> a \in Given \/ a = new
    <3>1. PICK j \in Invite, s \in Stage, k \in 1 .. MaxAnswers : a = <<j, s, k>>
      BY DEF Answers
    <3>2. answers'[j][s] = IF j = i /\ s = "sent" THEN n + 1 ELSE answers[j][s]
      BY <1>1, <1>2, <3>1
    <3>3. answers[j][s] \in Nat /\ answers[i]["sent"] = n /\ n \in Nat
      BY <1>2 DEF n
    <3>4. a = new <=> j = i /\ s = "sent" /\ k = n + 1
      BY <3>1
    <3>. HIDE DEF new
    <3>5. answers'[j][s] >= k <=> answers[j][s] >= k \/ a = new
      BY <3>2, <3>3, <3>4
    <3>. QED
      BY <3>1, <3>5, GivenAre
  <2>2. new \in Answers
    BY <1>2, <1>5, GivenAre
  <2>3. Given \subseteq Answers /\ Given' \subseteq Answers
    BY DEF Given, Answers
  <2>. HIDE DEF new
  <2>. QED
    BY <2>1, <2>2, <2>3
<1>. HIDE DEF new
<1>8. /\ IsFiniteSet(Given \cup {new}) /\ Cardinality(Given \cup {new}) \in Nat
      /\ Cardinality(Given \cup {new}) <= Cardinality(Given) + 1
  BY <1>3, OneMoreInSet
<1>9. IsFiniteSet(Given') /\ Cardinality(Given') <= MaxAnswers
  <2>1. Cardinality(Given \cup {new}) <= MaxAnswers
    BY <1>2, <1>3, <1>8
  <2>. QED
    BY <1>7, <1>8, <2>1, Zenon
<1>. QED
  BY <1>6, <1>9 DEF AnswersCounted

LEMMA AnswerCounted ==
  ASSUME AnswersCounted, NEW i \in Invite, AnswerInvite(i) PROVE AnswersCounted'
<1>. DEFINE n == answers[i]["sent"]
            result == IF i \in pending THEN "done" ELSE "refused"
            m == answers[i][result]
            old == <<i, "sent", n>>
            first == <<i, "sent", 1>>
            new == <<i, result, m + 1>>
<1>1. answers' = [answers EXCEPT ![i] = [answers[i] EXCEPT !["sent"] = n - 1, ![result] = m + 1]]
  <2>1. answers' = [answers EXCEPT ![i]["sent"] = @ - 1, ![i][result] = @ + 1]
    BY DEF AnswerInvite
  <2>. QED
    BY <2>1 DEF AnswersCounted, Stage
<1>2. /\ n > 0 /\ MaxAnswers \in Nat /\ n \in 0 .. MaxAnswers /\ m \in 0 .. MaxAnswers
      /\ "sent" \in Stage /\ result \in Stage /\ result # "sent"
      /\ answers \in [Invite -> [Stage -> 0 .. MaxAnswers]]
  BY InvitesAssumption DEF AnswerInvite, AnswersCounted, Stage
<1>. HIDE DEF result
<1>3. Cardinality(Given) <= MaxAnswers /\ Cardinality(Given) \in Nat /\ IsFiniteSet(Given)
  BY <1>2, FS_CardinalityType DEF AnswersCounted
<1>4. first \in Given /\ old \in Given
  BY <1>2, GivenAre
<1>5. m <= Cardinality(Given \ {first})
  <2>1. \A k \in 1 .. m : <<i, result, k>> \in Given \ {first}
    BY <1>2, GivenAre
  <2>2. m \in Nat
    BY <1>2
  <2>3. IsFiniteSet(Given \ {first})
    BY <1>3, FS_RemoveElement
  <2>. HIDE DEF m, first
  <2>. QED
    BY <2>1, <2>2, <2>3, AnswersFew
<1>6. m + 1 \in 1 .. MaxAnswers
  <2>1. Cardinality(Given \ {first}) = Cardinality(Given) - 1
    BY <1>3, <1>4, FS_RemoveElement
  <2>. QED
    BY <1>2, <1>3, <1>5, <2>1
<1>. HIDE DEF n, m
<1>7. answers' \in [Invite -> [Stage -> 0 .. MaxAnswers]]
  BY <1>1, <1>2, <1>6
<1>8. Given' = (Given \ {old}) \cup {new}
  <2>1. ASSUME NEW a \in Answers PROVE a \in Given' <=> (a \in Given /\ a # old) \/ a = new
    <3>1. PICK j \in Invite, s \in Stage, k \in 1 .. MaxAnswers : a = <<j, s, k>>
      BY DEF Answers
    <3>2. answers'[j][s] = IF j = i /\ s = "sent" THEN n - 1
                           ELSE IF j = i /\ s = result THEN m + 1 ELSE answers[j][s]
      BY <1>1, <1>2, <3>1
    <3>3. /\ answers[j][s] \in Nat /\ answers[i]["sent"] = n /\ answers[i][result] = m
          /\ n \in Nat /\ m \in Nat
      BY <1>2 DEF n, m
    <3>4. /\ a = new <=> j = i /\ s = result /\ k = m + 1
          /\ a = old <=> j = i /\ s = "sent" /\ k = n
      BY <3>1
    <3>. HIDE DEF new, old
    <3>5. answers'[j][s] >= k <=> (answers[j][s] >= k /\ a # old) \/ a = new
      BY <1>2, <3>2, <3>3, <3>4
    <3>. QED
      BY <3>1, <3>5, GivenAre
  <2>2. new \in Answers
    BY <1>2, <1>6, GivenAre
  <2>3. Given \subseteq Answers /\ Given' \subseteq Answers
    BY DEF Given, Answers
  <2>. HIDE DEF new, old
  <2>. QED
    BY <2>1, <2>2, <2>3
<1>. HIDE DEF new, old
<1>9. IsFiniteSet(Given \ {old}) /\ Cardinality(Given \ {old}) = Cardinality(Given) - 1
  BY <1>3, <1>4, FS_RemoveElement
<1>10. /\ IsFiniteSet((Given \ {old}) \cup {new})
       /\ Cardinality((Given \ {old}) \cup {new}) <= Cardinality(Given \ {old}) + 1
       /\ Cardinality((Given \ {old}) \cup {new}) \in Nat
  BY <1>9, OneMoreInSet
<1>11. IsFiniteSet(Given') /\ Cardinality(Given') <= MaxAnswers
  <2>1. Cardinality((Given \ {old}) \cup {new}) <= MaxAnswers
    BY <1>2, <1>3, <1>9, <1>10
  <2>. QED
    BY <1>8, <1>10, <2>1, Zenon
<1>. QED
  BY <1>7, <1>11 DEF AnswersCounted

LEMMA AnsweredCounted ==
  ASSUME AnswersCounted, NEW i \in Invite, InviteAnswered(i) PROVE AnswersCounted'
<1>1. PICK s \in UnderWay(i) \ {"sent"} : answers' = [answers EXCEPT ![i][s] = @ - 1]
  BY DEF InviteAnswered
<1>2. /\ s \in Stage /\ answers[i][s] > 0 /\ answers \in [Invite -> [Stage -> 0 .. MaxAnswers]]
      /\ MaxAnswers \in Nat
  BY InvitesAssumption DEF UnderWay, AnswersCounted
<1>3. /\ answers' \in [Invite -> [Stage -> 0 .. MaxAnswers]]
      /\ \A j \in Invite, r \in Stage : answers'[j][r] <= answers[j][r]
  BY <1>1, <1>2
<1>4. Given' \subseteq Given
  <2>1. ASSUME NEW a \in Given' PROVE a \in Given
    <3>1. PICK j \in Invite, r \in Stage, k \in 1 .. MaxAnswers : a = <<j, r, k>>
      BY DEF Given, Answers
    <3>2. answers'[j][r] >= k
      BY <2>1, <3>1, GivenAre
    <3>3. answers[j][r] >= k
      BY <1>2, <1>3, <3>1, <3>2
    <3>. QED
      BY <3>1, <3>3, GivenAre
  <2>. QED
    BY <2>1
<1>5. /\ IsFiniteSet(Given') /\ Cardinality(Given') <= Cardinality(Given)
      /\ Cardinality(Given) \in Nat /\ Cardinality(Given') \in Nat
  BY <1>4, FS_Subset, FS_CardinalityType DEF AnswersCounted
<1>. QED
  BY <1>2, <1>3, <1>5 DEF AnswersCounted

LEMMA AnswersCountedNext == AnswersCounted /\ [InvitesNext]_invitesVars => AnswersCounted'
<1> SUFFICES ASSUME AnswersCounted, [InvitesNext]_invitesVars PROVE AnswersCounted'
  OBVIOUS
<1>1. ASSUME NEW i \in Invite, RespondToInvite(i) \/ AnswerInvite(i) \/ InviteAnswered(i)
      PROVE  AnswersCounted'
  BY <1>1, RespondCounted, AnswerCounted, AnsweredCounted
<1>2. ASSUME UNCHANGED answers PROVE AnswersCounted'
  BY <1>2 DEF AnswersCounted, Given
<1>3. CASE \/ Activate \/ Deactivate \/ HandleChannelOpen \/ HandleChannelClose
           \/ ReconnectChannel \/ OnInvitesChanged
  BY <1>2, <1>3 DEF Activate, Deactivate, HandleChannelOpen, HandleChannelClose, ReconnectChannel,
     OnInvitesChanged
<1>4. ASSUME NEW s \in RequestSeq, ListInvites(s) \/ SetInvites(s) PROVE AnswersCounted'
  BY <1>2, <1>4 DEF ListInvites, SetInvites
<1>5. ASSUME NEW i \in Invite, CreateInvite(i) \/ CancelInvite(i) PROVE AnswersCounted'
  BY <1>2, <1>5 DEF CreateInvite, CancelInvite
<1>6. CASE UNCHANGED invitesVars
  BY <1>2, <1>6 DEF invitesVars
<1>. QED
  BY <1>1, <1>3, <1>4, <1>5, <1>6 DEF InvitesNext

(* The rest of the list's state: a channel exists exactly while the view   *)
(* is the one shown.                                                       *)
ListTyped ==
  /\ viewing \in BOOLEAN /\ isLoadingInvites \in BOOLEAN /\ outdated \in BOOLEAN
  /\ shown \subseteq Invite
  /\ respondingId = {} \/ \E i \in Invite : respondingId = {i}
  /\ channel \in {"none", "connecting", "open", "waiting"}
  /\ channel = "none" <=> ~viewing
  /\ nudges \in 0 .. MaxRequests /\ losses \in 0 .. MaxLosses

LEMMA ListTypedNext == InvitesInv /\ ListTyped /\ [InvitesNext]_invitesVars => ListTyped'
<1> SUFFICES ASSUME InvitesInv, ListTyped, [InvitesNext]_invitesVars PROVE ListTyped'
  OBVIOUS
<1>0. MaxRequests \in Nat /\ MaxAnswers \in Nat /\ MaxLosses \in Nat
  BY InvitesAssumption
<1>1. CASE UNCHANGED invitesVars
  BY <1>1 DEF invitesVars, ListTyped
<1>2. CASE Activate
  BY <1>2 DEF Activate, RefreshInvites, ListTyped
<1>3. CASE Deactivate
  <2>1. viewing' = FALSE /\ channel' = "none" /\ nudges' = 0
    BY <1>3 DEF Deactivate
  <2>2. viewing' \in BOOLEAN
    BY <2>1
  <2>3. (channel' = "none" <=> ~viewing') /\ channel' \in {"none", "connecting", "open", "waiting"}
    BY <2>1
  <2>4. nudges' \in 0 .. MaxRequests
    BY <1>0, <2>1
  <2>. QED
    BY <1>3, <2>2, <2>3, <2>4 DEF Deactivate, ListTyped
<1>4. ASSUME NEW s \in RequestSeq, ListInvites(s) PROVE ListTyped'
  <2>1. outdated' \in BOOLEAN
    <3>1. outdated' = IF s # requestSeq THEN outdated ELSE requests'[s].stage = "failed"
      BY <1>4 DEF ListInvites
    <3>2. CASE s # requestSeq
      BY <3>1, <3>2 DEF ListTyped
    <3>3. CASE s = requestSeq
      <4>1. outdated' = (requests'[s].stage = "failed")
        BY <3>1, <3>3
      <4>. QED
        BY <4>1, Zenon
    <3>. QED
      BY <3>2, <3>3
  <2>. QED
    BY <1>0, <1>4, <2>1 DEF ListInvites, ListTyped
<1>5. ASSUME NEW s \in RequestSeq, SetInvites(s) PROVE ListTyped'
  <2>1. isLoadingInvites' \in BOOLEAN
    BY <1>5, Zenon DEF SetInvites
  <2>2. shown' \subseteq Invite
    BY <1>5 DEF SetInvites, ListTyped, InvitesInv, InvitesTyped
  <2>. QED
    BY <1>5, <2>1, <2>2 DEF SetInvites, ListTyped
<1>6. CASE HandleChannelOpen
  BY <1>6 DEF HandleChannelOpen, ListTyped
<1>7. CASE HandleChannelClose
  <2>1. outdated' \in BOOLEAN
    BY <1>7, Zenon DEF HandleChannelClose
  <2>. QED
    BY <1>0, <1>7, <2>1 DEF HandleChannelClose, ListTyped
<1>8. CASE ReconnectChannel
  BY <1>8 DEF ReconnectChannel, ListTyped
<1>9. CASE OnInvitesChanged
  BY <1>0, <1>9 DEF OnInvitesChanged, RefreshInvites, ListTyped
<1>10. ASSUME NEW i \in Invite, CreateInvite(i) \/ CancelInvite(i) PROVE ListTyped'
  <2>1. outdated' \in BOOLEAN
    BY <1>10, Zenon DEF CreateInvite, CancelInvite, NotifyUser
  <2>. QED
    BY <1>0, <1>10, <2>1 DEF CreateInvite, CancelInvite, NotifyUser, ListTyped
<1>11. ASSUME NEW i \in Invite, RespondToInvite(i) PROVE ListTyped'
  BY <1>11 DEF RespondToInvite, ListTyped
<1>12. ASSUME NEW i \in Invite, AnswerInvite(i) PROVE ListTyped'
  <2>1. outdated' \in BOOLEAN
    BY <1>12, Zenon DEF AnswerInvite
  <2>. QED
    BY <1>12, <2>1 DEF AnswerInvite, ListTyped
<1>13. ASSUME NEW i \in Invite, InviteAnswered(i) PROVE ListTyped'
  BY <1>13 DEF InviteAnswered, ListTyped
<1>. QED
  BY <1>1, <1>2, <1>3, <1>4, <1>5, <1>6, <1>7, <1>8, <1>9, <1>10, <1>11, <1>12, <1>13 DEF InvitesNext

(* Every variable of the invites keeps its type: in particular the answers *)
(* under way are counted right by AllUnderWay, at every stage.             *)
THEOREM InvitesTypes == InvitesSpec => []InvitesTypeOK
<1>1. InvitesInit => ListTyped /\ AnswersCounted
  <2>1. InvitesInit => ListTyped
    <3> SUFFICES ASSUME InvitesInit PROVE ListTyped
      OBVIOUS
    <3>1. viewing \in BOOLEAN /\ isLoadingInvites \in BOOLEAN /\ outdated \in BOOLEAN
      BY Zenon DEF InvitesInit
    <3>2. channel = "none" <=> ~viewing
      BY DEF InvitesInit
    <3>. QED
      BY <3>1, <3>2, InvitesAssumption DEF InvitesInit, ListTyped
  <2>2. ASSUME InvitesInit PROVE AnswersCounted
    <3>1. answers \in [Invite -> [Stage -> 0 .. MaxAnswers]]
      BY <2>2, InvitesAssumption DEF InvitesInit
    <3>2. Given = {}
      BY <2>2, InvitesAssumption DEF InvitesInit, Given, Answers
    <3>. QED
      BY <3>1, <3>2, InvitesAssumption, FS_EmptySet DEF AnswersCounted
  <2>. QED
    BY <2>1, <2>2
<1>2. InvitesInv /\ ListTyped /\ AnswersCounted => InvitesTypeOK
  <2> SUFFICES ASSUME InvitesInv, ListTyped, AnswersCounted PROVE InvitesTypeOK
    OBVIOUS
  <2>1. Cardinality(respondingId) <= 1
    <3>1. CASE respondingId = {}
      BY <3>1, FS_EmptySet
    <3>2. ASSUME NEW i \in Invite, respondingId = {i} PROVE Cardinality(respondingId) <= 1
      BY <3>2, FS_Singleton
    <3>. QED
      BY <3>1, <3>2 DEF ListTyped
  <2>2. (channel = "none") = ~viewing
    <3>1. channel = "none" <=> ~viewing
      BY DEF ListTyped
    <3>. QED
      BY <3>1
  <2>3. respondingId \subseteq Invite
    BY DEF ListTyped
  <2>4. viewing \in BOOLEAN /\ isLoadingInvites \in BOOLEAN /\ outdated \in BOOLEAN
    BY DEF ListTyped
  <2>5. /\ shown \subseteq Invite /\ nudges \in 0 .. MaxRequests /\ losses \in 0 .. MaxLosses
        /\ channel \in {"none", "connecting", "open", "waiting"}
    BY DEF ListTyped
  <2>6. /\ requestSeq \in 0 .. MaxRequests
        /\ requests \in [RequestSeq -> [stage : {"none", "asked", "read", "failed"}, read : SUBSET Invite]]
        /\ pending \subseteq Invite /\ unsent \subseteq Invite /\ pending \cap unsent = {}
    BY DEF InvitesInv, InvitesTyped
  <2>. QED
    BY <2>1, <2>2, <2>3, <2>4, <2>5, <2>6, Zenon DEF AnswersCounted, InvitesTypeOK
<1>. QED
  BY <1>1, <1>2, InvitesInvInit, InvitesInvStep, ListTypedNext, AnswersCountedNext, PTL DEF InvitesSpec

-----------------------------------------------------------------------------
(* The version list: the bounds of the log. The n-th update was made at    *)
(* most n gaps after the beginning.                                        *)
LogBounds ==
  /\ Len(made) <= MaxLog
  /\ \A id \in 1 .. Len(made) :
       /\ made[id].author \in Writer /\ made[id].after \in Seq(Glyph)
       /\ Len(made[id].after) <= MaxGlyphs /\ made[id].at \in 1 .. id * MaxGap

LEMMA GapsAddUp ==
  ASSUME NEW n \in Nat, NEW m \in Nat, NEW at \in Nat, at <= n * m, NEW gap \in 1 .. m
  PROVE  gap + at \in 1 .. (n + 1) * m
<1>1. (n + 1) * m = n * m + m
  OBVIOUS
<1>. QED
  BY <1>1

LEMMA GapsGrow ==
  ASSUME NEW n \in Nat, NEW m \in Nat, NEW k \in Nat, n <= k
  PROVE  n * m <= k * m
<1>1. PICK d \in Nat : k = n + d
  <2>1. k - n \in Nat /\ k = n + (k - n)
    OBVIOUS
  <2>. QED
    BY <2>1
<1>2. k * m = n * m + d * m
  BY <1>1
<1>3. d * m \in Nat /\ n * m \in Nat
  OBVIOUS
<1>. QED
  BY <1>2, <1>3

LEMMA LogBoundsNext == LogInv /\ LogBounds /\ [VersionDeltasNext]_versionDeltasVars => LogBounds'
<1> SUFFICES ASSUME LogInv, LogBounds, [VersionDeltasNext]_versionDeltasVars PROVE LogBounds'
  OBVIOUS
<1>0. MaxLog \in Nat /\ MaxGlyphs \in Nat /\ MaxGap \in Nat
  BY VersionDeltasAssumption
<1>1. ASSUME NEW author \in Writer, NEW gap \in 1 .. MaxGap, NEW after \in Draft, Write(author, gap, after)
      PROVE  LogBounds'
  <2> DEFINE at == gap + IF made = <<>> THEN 0 ELSE made[Len(made)].at
             update == [author |-> author, after |-> after, at |-> at]
             n == Len(made)
  <2>1. made' = Append(made, update) /\ n < MaxLog
    BY <1>1 DEF Write
  <2>2. after \in Seq(Glyph) /\ Len(after) <= MaxGlyphs
    <3>1. PICK k \in 0 .. MaxGlyphs : after \in [1 .. k -> Glyph]
      BY DEF Draft
    <3>. QED
      BY <1>0, <3>1, SeqDef
  <2>3. n \in Nat /\ made \in Seq(Update)
    BY LenProperties DEF LogInv
  <2>4. at \in 1 .. (n + 1) * MaxGap
    <3>1. CASE made = <<>>
      <4>1. n = 0 /\ at = gap + 0 /\ 0 <= 0 * MaxGap
        BY <1>0, <3>1, EmptySeq
      <4>. QED
        BY <1>0, <4>1, GapsAddUp
    <3>2. CASE made # <<>>
      <4>1. n \in 1 .. n
        BY <2>3, <3>2, EmptySeq, LenProperties
      <4>2. made[n].at \in 1 .. n * MaxGap
        BY <4>1 DEF LogBounds
      <4>3. made[n].at \in Nat /\ made[n].at <= n * MaxGap
        BY <4>2
      <4>4. at = gap + made[n].at
        BY <3>2
      <4>. HIDE DEF at, n
      <4>. QED
        BY <1>0, <2>3, <4>3, <4>4, GapsAddUp
    <3>. QED
      BY <3>1, <3>2
  <2>5. update.author \in Writer /\ update.after = after /\ update.at = at
    OBVIOUS
  <2>6. /\ Len(made') = n + 1 /\ made'[n + 1] = update
        /\ \A id \in 1 .. n : made'[id] = made[id]
    <3>. HIDE DEF update
    <3>. QED
      BY <2>1, <2>3
  <2>7. \A id \in 1 .. n + 1 : id \in 1 .. n \/ id = n + 1
    BY <2>3
  <2>. HIDE DEF update, at, n
  <2>8. ASSUME NEW id \in 1 .. n + 1
        PROVE  /\ made'[id].author \in Writer /\ made'[id].after \in Seq(Glyph)
               /\ Len(made'[id].after) <= MaxGlyphs /\ made'[id].at \in 1 .. id * MaxGap
    <3>1. CASE id \in 1 .. n
      BY <2>6, <3>1 DEF LogBounds, n
    <3>2. CASE id = n + 1
      BY <2>2, <2>4, <2>5, <2>6, <3>2
    <3>. QED
      BY <2>7, <3>1, <3>2
  <2>9. n + 1 <= MaxLog
    BY <1>0, <2>1, <2>3
  <2>. QED
    BY <2>6, <2>8, <2>9 DEF LogBounds
<1>2. ASSUME NEW upTo \in 1 .. MaxLog, NEW holds \in 1 .. MaxLog, CompactLog(upTo, holds)
      PROVE  LogBounds'
  BY <1>2 DEF CompactLog, LogBounds
<1>3. CASE UNCHANGED versionDeltasVars
  BY <1>3 DEF versionDeltasVars, LogBounds
<1>. QED
  BY <1>1, <1>2, <1>3 DEF VersionDeltasNext

(* The log of the version list keeps its type and its bounds: no update is *)
(* later than as many gaps as there are updates, and what was compacted is *)
(* in the snapshot.                                                        *)
THEOREM LogTypes == VersionDeltasSpec => []VersionDeltasTypeOK
<1>1. VersionDeltasInit => LogBounds
  BY EmptySeq, VersionDeltasAssumption DEF VersionDeltasInit, LogBounds
<1>2. LogInv /\ LogBounds => VersionDeltasTypeOK
  <2> SUFFICES ASSUME LogInv, LogBounds PROVE VersionDeltasTypeOK
    OBVIOUS
  <2>1. DOMAIN made = 1 .. Len(made) /\ Len(made) \in Nat
    BY LenProperties DEF LogInv
  <2>2. ASSUME NEW id \in DOMAIN made PROVE made[id].at \in 1 .. MaxLog * MaxGap
    <3>1. id \in Nat /\ id <= MaxLog /\ MaxLog \in Nat /\ MaxGap \in Nat
      BY <2>1, VersionDeltasAssumption DEF LogBounds
    <3>2. id * MaxGap <= MaxLog * MaxGap
      BY <3>1, GapsGrow
    <3>3. made[id].at \in 1 .. id * MaxGap
      BY <2>1 DEF LogBounds
    <3>4. id * MaxGap \in Nat /\ MaxLog * MaxGap \in Nat
      BY <3>1
    <3>. QED
      BY <3>2, <3>3, <3>4
  <2>. QED
    BY <2>1, <2>2 DEF LogInv, LogBounds, VersionDeltasTypeOK
<1>. QED
  BY <1>1, <1>2, LogInvInit, LogInvNext, LogBoundsNext, PTL DEF VersionDeltasSpec

-----------------------------------------------------------------------------
(* The find bar: a match starts before the end of the text, so that there  *)
(* are no more of them than letters.                                       *)
LEMMA MatchesFit ==
  ASSUME NEW t \in Seq(Letter), NEW q \in Seq(Letter)
  PROVE  /\ MatchesInTurn(t, q) \subseteq 0 .. Len(t) - 1
         /\ IsFiniteSet(MatchesInTurn(t, q)) /\ CountMatches(t, q) \in 0 .. Len(t)
         /\ \A i : MatchOrdinalAt(t, q, i) \in 0 .. Len(t)
<1>1. MatchesInTurn(t, q) \subseteq 0 .. Len(t) - 1
  <2>1. CASE q = <<>>
    BY <2>1 DEF MatchesInTurn
  <2>2. CASE q # <<>>
    <3>1. Typed(t, q)
      BY <2>2 DEF Typed
    <3>2. MatchesInTurn(t, q) \subseteq Occurrences(t, q)
      BY <3>1, MatchesAreLeftmost DEF IsLeftmost
    <3>. QED
      BY <3>1, <3>2, OccurrencesFit
  <2>. QED
    BY <2>1, <2>2
<1>2. /\ Len(t) \in Nat /\ 0 \in Int /\ Len(t) - 1 \in Int
  BY LenProperties
<1>3. IsFiniteSet(0 .. Len(t) - 1)
  BY <1>2, FS_Interval
<1>4. Cardinality(0 .. Len(t) - 1) = IF 0 > Len(t) - 1 THEN 0 ELSE (Len(t) - 1) - 0 + 1
  BY <1>2, FS_Interval
<1>5. Cardinality(0 .. Len(t) - 1) = Len(t)
  BY <1>2, <1>4
<1>6. ASSUME NEW S, S \subseteq MatchesInTurn(t, q)
      PROVE  IsFiniteSet(S) /\ Cardinality(S) \in 0 .. Len(t)
  <2>1. S \subseteq 0 .. Len(t) - 1
    BY <1>1, <1>6
  <2>2. IsFiniteSet(S) /\ Cardinality(S) <= Len(t) /\ Cardinality(S) \in Nat
    BY <1>3, <1>5, <2>1, FS_Subset, FS_CardinalityType
  <2>. QED
    BY <1>2, <2>2
<1>7. \A i : {o \in MatchesInTurn(t, q) : o <= i} \subseteq MatchesInTurn(t, q)
  OBVIOUS
<1>8. \A i : MatchOrdinalAt(t, q, i) \in 0 .. Len(t)
  BY <1>6, <1>7 DEF MatchOrdinalAt
<1>. QED
  BY <1>1, <1>6, <1>8 DEF CountMatches

BarBounds ==
  /\ Len(text) <= MaxText /\ Len(located) <= MaxText
  /\ Len(findQuery) <= MaxQuery
  /\ find.query \in Seq(Letter) /\ Len(find.query) <= MaxQuery
  /\ findMatchStart \in -1 .. MaxText /\ find.currentFrom \in -1 .. MaxText
  /\ matchCount \in 0 .. MaxText /\ matchOrdinal \in 0 .. MaxText
  /\ highlights \subseteq 0 .. MaxText
  /\ hasView \in BOOLEAN /\ isFindOpen \in BOOLEAN

LEMMA UpToAreShort ==
  ASSUME NEW n \in Nat, NEW s \in UpTo(n)
  PROVE  s \in Seq(Letter) /\ Len(s) <= n
<1>1. PICK m \in 0 .. n : s \in [1 .. m -> Letter]
  BY DEF UpTo
<1>. QED
  BY <1>1, SeqDef

LEMMA NoFindTyped ==
  /\ NoFind.query = <<>> /\ NoFind.currentFrom = -1 /\ <<>> \in Seq(Letter) /\ Len(<<>>) = 0
  /\ MaxText \in Nat /\ MaxQuery \in Nat
BY FindAssumption, EmptySeq DEF NoFind

LEMMA LocateBounds ==
  ASSUME FindInv, BarBounds, NEW q \in Seq(Letter), Len(q) <= MaxQuery, NEW direction \in {1, -1},
         findQuery' = q, text' = text, hasView' = hasView, isFindOpen' = isFindOpen,
         Locate(q, direction, findMatchStart) \/ Locate(q, direction, -1)
  PROVE  BarBounds'
<1>1. PICK start \in Nat \cup {-1} : Locate(q, direction, start)
  BY DEF FindInv
<1>2. located' = text /\ text \in Seq(Letter) /\ Len(text) <= MaxText /\ Len(text) \in Nat
  BY <1>1, LenProperties DEF Locate, FindInv, BarBounds
<1>3. CASE ~ hasView \/ q = <<>>
  <2>1. /\ find' = NoFind /\ findMatchStart' = -1 /\ matchCount' = 0 /\ matchOrdinal' = 0
        /\ highlights' = IF hasView THEN BuildDecorations(text, NoFind) ELSE {}
    BY <1>1, <1>3 DEF Locate, SetFindHighlight
  <2>2. highlights' = {}
    BY <2>1, NoFindTyped DEF BuildDecorations, MatchesInTurn
  <2>. QED
    BY <1>2, <2>1, <2>2, NoFindTyped DEF BarBounds
<1>4. CASE hasView /\ q # <<>>
  <2> DEFINE index == FindMatchIndex(text, q, direction, start)
  <2>1. Typed(text, q)
    BY <1>2, <1>4 DEF Typed
  <2>2. index \in Occurrences(text, q) \/ index = -1
    BY <2>1, FindsIfAny
  <2>3. index \in -1 .. MaxText
    BY <1>2, <2>1, <2>2, OccurrencesFit, FindAssumption
  <2>4. /\ find' = [query |-> q, currentFrom |-> index]
        /\ highlights' = MatchesInTurn(text, q)
        /\ findMatchStart' = index /\ matchCount' = CountMatches(text, q)
        /\ matchOrdinal' = IF index = -1 THEN 0 ELSE MatchOrdinalAt(text, q, index)
    BY <1>1, <1>4 DEF Locate, SetFindHighlight, BuildDecorations
  <2> HIDE DEF index
  <2>5. find'.query = q /\ find'.currentFrom = index
    BY <2>4
  <2>6. /\ highlights' \subseteq 0 .. Len(text) - 1
        /\ matchCount' \in 0 .. Len(text) /\ matchOrdinal' \in 0 .. Len(text)
    BY <1>2, <2>4, MatchesFit
  <2>7. /\ highlights' \subseteq 0 .. MaxText
        /\ matchCount' \in 0 .. MaxText /\ matchOrdinal' \in 0 .. MaxText
    BY <1>2, <2>6, FindAssumption
  <2>8. findMatchStart' \in -1 .. MaxText /\ find'.currentFrom \in -1 .. MaxText
    BY <2>3, <2>4, <2>5
  <2>. QED
    BY <1>2, <2>5, <2>7, <2>8 DEF BarBounds
<1>. QED
  BY <1>3, <1>4

LEMMA BarBoundsNext == FindInv /\ BarBounds /\ [FindInEditorNext]_findVars => BarBounds'
<1> SUFFICES ASSUME FindInv, BarBounds, [FindInEditorNext]_findVars PROVE BarBounds'
  OBVIOUS
<1>1. ASSUME NEW t \in Edited, Len(t) <= MaxText, TextChanged(t) PROVE BarBounds'
  <2>1. t \in Seq(Letter) /\ find.query \in Seq(Letter)
    BY EditedAreTexts DEF FindInv, BarBounds
  <2>2. text' = t /\ highlights' = MatchesInTurn(t, find.query) /\ UNCHANGED <<hasView, find, barVars>>
    BY <1>1 DEF TextChanged, BuildDecorations
  <2>3. highlights' \subseteq 0 .. MaxText
    <3>1. highlights' \subseteq 0 .. Len(t) - 1 /\ Len(t) \in Nat
      BY <2>1, <2>2, MatchesFit, LenProperties
    <3>. QED
      BY <1>1, <3>1, FindAssumption
  <2>. QED
    BY <1>1, <2>2, <2>3 DEF BarBounds, barVars
<1>2. CASE EditorDestroyed
  <2>1. hasView' \in BOOLEAN
    BY <1>2, Zenon DEF EditorDestroyed
  <2>. QED
    BY <1>2, <2>1, NoFindTyped DEF EditorDestroyed, BarBounds, barVars
<1>3. CASE EditorCreated
  BY <1>3 DEF EditorCreated, BarBounds, barVars
<1>4. CASE OpenFind
  BY <1>4 DEF OpenFind, BarBounds, editorVars
<1>5. CASE CloseFind
  <2>1. isFindOpen' \in BOOLEAN
    BY <1>5, Zenon DEF CloseFind
  <2>. QED
    BY <1>5, <2>1, NoFindTyped DEF CloseFind, BarBounds
<1>6. ASSUME NEW q \in UpTo(MaxQuery), HandleFindQueryChange(q) PROVE BarBounds'
  <2>1. q \in Seq(Letter) /\ Len(q) <= MaxQuery
    BY FindAssumption, UpToAreShort
  <2>. QED
    BY <1>6, <2>1, LocateBounds DEF HandleFindQueryChange
<1>7. ASSUME NEW direction \in {1, -1}, FindNext(direction) PROVE BarBounds'
  BY <1>7, LocateBounds DEF FindNext, FindInv, BarBounds
<1>8. CASE UNCHANGED findVars
  BY <1>8 DEF findVars, barVars, editorVars, BarBounds
<1>. QED
  BY <1>1, <1>2, <1>3, <1>4, <1>5, <1>6, <1>7, <1>8 DEF FindInEditorNext

(* The find bar keeps its type: whatever is typed in the bar and in the    *)
(* text, its numbers and its marks fit the text they were computed from.   *)
THEOREM FindTypes == FindInEditorSpec => []FindTypeOK
<1>1. FindInit => BarBounds
  <2> SUFFICES ASSUME FindInit PROVE BarBounds
    OBVIOUS
  <2>1. text \in Seq(Letter) /\ Len(text) <= MaxText
    BY FindAssumption, UpToAreShort DEF FindInit
  <2>2. hasView \in BOOLEAN /\ isFindOpen \in BOOLEAN
    BY Zenon DEF FindInit
  <2>. QED
    BY <2>1, <2>2, NoFindTyped DEF FindInit, BarBounds
<1>2. FindInv /\ BarBounds => FindTypeOK
  BY DEF FindInv, BarBounds, FindTypeOK
<1>. QED
  BY <1>1, <1>2, FindInvInit, FindInvNext, BarBoundsNext, PTL DEF FindInEditorSpec

(* The cipher: a wrap is of the key it is labelled with, and a ring holds  *)
(* keys of epochs there were.                                              *)
THEOREM CipherTypes == DocumentCipherSpec => []DocumentCipherTypeOK
<1>1. RingInv => DocumentCipherTypeOK
  <2> SUFFICES ASSUME RingInv PROVE DocumentCipherTypeOK
    OBVIOUS
  <2>1. currentEpoch \in RingEpoch /\ Len(sealedItems) <= MaxSealed
    BY DEF RingInv, EpochsTyped, ItemsAreSealed
  <2>2. ASSUME NEW w \in wrapped PROVE w.of \in RingEpoch /\ w.box.to \in Member /\ w.box.dek = w.of
    <3>1. PICK m \in Member, e \in 1 .. currentEpoch : w = Wrap(m, e)
      BY DEF RingInv, WrapsHeld
    <3>2. w.of = e /\ w.box.to = m /\ w.box.dek = e
      BY <3>1 DEF Wrap, SealFor
    <3>3. e \in RingEpoch
      BY <2>1, DocumentCipherAssumption DEF RingEpoch
    <3>. QED
      BY <3>2, <3>3
  <2>3. ASSUME NEW m \in Member
        PROVE  sinceEpoch[m] \in 0 .. currentEpoch /\ halfRing[m] \in 0 .. currentEpoch
    BY DEF RingInv, EpochsTyped
  <2>4. ASSUME NEW m \in Member, NEW i \in DOMAIN keyRing[m] PROVE keyRing[m][i] \in KeyEntry
    <3>1. CASE keyRing[m] = <<>>
      BY <3>1
    <3>2. CASE keyRing[m] # <<>>
      <4>1. keyRing[m] \in Seq(KeyEntry)
        BY <3>2 DEF RingInv, RingsAreRuns, IsRun
      <4>. QED
        BY <4>1, ElementOfSeq, LenProperties
    <3>. QED
      BY <3>1, <3>2
  <2>. QED
    BY <2>1, <2>2, <2>3, <2>4 DEF DocumentCipherTypeOK
<1>. QED
  BY <1>1, RingInit, RingNext, PTL DEF DocumentCipherSpec

-----------------------------------------------------------------------------
(* The overlays: what their type asks for besides OverInv. A dialog that   *)
(* fades is open and has a timer of its own; while Escape is being heard   *)
(* nothing has been closed by it yet, for only the last listener may.      *)
Fading(timers, fading) == \A d \in fading : \E i \in 1 .. Len(timers) : timers[i].of = d /\ ~ timers[i].gone

OverTyped ==
  /\ activeModal \in PageModal \cup {"none"}
  /\ openMenus \subseteq renderedMenus /\ renderedMenus \subseteq Menu
  /\ unpopped \subseteq LayersOf(layers)
  /\ closing \subseteq OpenDialogs(activeModal, keyReady, paletteOpen, keyWarning)
  /\ Len(fades) <= MaxFades + 1 /\ Fading(fades, closing)
  /\ escape # <<>> => unpopped = {} /\ Len(fades) <= MaxFades
  /\ asked \subseteq Layer

LEMMA RenderTyped ==
  ASSUME OverInv, OverTyped, HeardOut, NEW opened \in SUBSET Menu, NEW modal \in PageModal \cup {"none"},
         NEW ready, NEW palette, NEW warning, NEW timers, FadesOf(timers, closing), Len(timers) <= MaxFades + 1,
         Fading(timers, closing \cap OpenDialogs(modal, ready, palette, warning)),
         Render(opened, modal, ready, palette, warning, timers), asked' \subseteq Layer
  PROVE  OverTyped'
<1> DEFINE lost == IF modal = "share" /\ ready THEN {} ELSE {"memberMenu"}
           menus == opened \ lost
           dialogs == OpenDialogs(modal, ready, palette, warning)
           visible == dialogs \cup menus
<1>1. /\ openMenus' = menus /\ renderedMenus' = (renderedMenus \cup menus) \ lost
      /\ activeModal' = modal /\ keyReady' = ready /\ paletteOpen' = palette /\ keyWarning' = warning
      /\ closing' = closing \cap visible
      /\ fades' = [i \in DOMAIN timers |-> [timers[i] EXCEPT !.gone = @ \/ timers[i].of \notin visible]]
      /\ escape' = escape /\ unpopped' = unpopped
  BY DEF Render
<1>2. escape = <<>> /\ unpopped = {}
  BY DEF HeardOut
<1>3. openMenus' \subseteq renderedMenus' /\ renderedMenus' \subseteq Menu
  BY <1>1 DEF OverTyped
<1>4. /\ closing' = closing \cap dialogs
      /\ dialogs = OpenDialogs(activeModal', keyReady', paletteOpen', keyWarning')
  <2>1. closing \subseteq Dialog /\ Dialog \cap menus = {}
    BY DialogsAre DEF OverTyped, Dialog, Menu
  <2>. QED
    BY <1>1, <2>1
<1> HIDE DEF lost, menus, dialogs
<1>5. timers \in Seq(Fade) /\ DOMAIN timers = 1 .. Len(timers) /\ Len(timers) \in Nat
  BY LenProperties DEF FadesOf
<1>6. ASSUME NEW i \in 1 .. Len(timers)
      PROVE  /\ fades'[i] \in Fade /\ fades'[i].of = timers[i].of
             /\ ~ timers[i].gone /\ timers[i].of \in visible => ~ fades'[i].gone
  <2>1. timers[i] \in Fade
    BY <1>5, ElementOfSeq
  <2>2. fades'[i] = [timers[i] EXCEPT !.gone = @ \/ timers[i].of \notin visible]
    BY <1>1, <1>5
  <2>. HIDE DEF visible
  <2>. QED
    BY <2>1, <2>2 DEF Fade
<1>7. Len(fades') = Len(timers)
  <2>1. fades' \in [1 .. Len(timers) -> Fade]
    BY <1>1, <1>5, <1>6
  <2>. QED
    BY <1>5, <2>1, SeqDef, LenProperties
<1>8. Fading(fades', closing')
  <2>1. ASSUME NEW d \in closing' PROVE \E i \in 1 .. Len(timers) : fades'[i].of = d /\ ~ fades'[i].gone
    <3>1. d \in closing \cap dialogs /\ d \in visible
      BY <1>4, <2>1
    <3>2. PICK i \in 1 .. Len(timers) : timers[i].of = d /\ ~ timers[i].gone
      BY <3>1 DEF Fading, dialogs
    <3>. QED
      BY <1>6, <3>1, <3>2
  <2>. QED
    BY <1>7, <2>1 DEF Fading
<1>9. activeModal' \in PageModal \cup {"none"} /\ closing' \subseteq OpenDialogs(activeModal', keyReady', paletteOpen', keyWarning')
  BY <1>1, <1>4
<1>10. Len(fades') <= MaxFades + 1
  BY <1>7
<1>. QED
  BY <1>1, <1>2, <1>3, <1>8, <1>9, <1>10 DEF OverTyped

LEMMA RenderSame ==
  ASSUME OverInv, OverTyped, HeardOut, NEW opened \in SUBSET Menu, NEW modal \in PageModal \cup {"none"},
         NEW ready, NEW palette, NEW warning,
         Render(opened, modal, ready, palette, warning, fades), asked' \subseteq Layer
  PROVE  OverTyped'
<1>1. FadesOf(fades, closing) /\ Len(fades) <= MaxFades + 1
  BY DEF OverInv, OverTyped
<1>2. Fading(fades, closing \cap OpenDialogs(modal, ready, palette, warning))
  BY DEF OverTyped, Fading
<1>. QED
  BY <1>1, <1>2, RenderTyped

LEMMA RenderingsTyped ==
  ASSUME OverInv, OverTyped,
         \/ PressPaletteShortcut
         \/ \E m \in Menu : \/ ClickTrigger(m)
                            \/ \E modal \in {activeModal, "shortcuts-help", "delete"} : ClickItem(m, modal)
         \/ \E modal \in PageModal : PressModalShortcut(modal) \/ ClickInPage(modal)
         \/ \E modal \in {"share", activeModal} : RunEntry(modal)
         \/ ConfirmDelete \/ KeyRotated \/ KeyFetched \/ WarnOfKey \/ TrustWarnedKey
  PROVE  OverTyped'
<1>1. /\ activeModal \in PageModal \cup {"none"} /\ openMenus \in SUBSET Menu /\ {} \in SUBSET Menu
      /\ openMenus \subseteq Layer /\ {} \subseteq Layer
  BY DEF OverTyped, Layer
<1>2. PageModal \subseteq PageModal \cup {"none"} /\ {"share", "shortcuts-help", "delete", "none"} \subseteq PageModal \cup {"none"}
  BY DEF PageModal
<1>3. {"palette", "page", "warning", "memberMenu"} \subseteq Layer
  BY DEF Layer, Menu, Dialog
<1>4. CASE PressPaletteShortcut
  <2> DEFINE palette == IF paletteOpen THEN FALSE ELSE ~HasAnyLayer
  <2>1. HeardOut /\ Render(openMenus, activeModal, keyReady, palette, keyWarning, fades) /\ asked' = {"palette"}
    BY <1>4 DEF PressPaletteShortcut
  <2>. HIDE DEF palette
  <2>. QED
    BY <1>1, <1>3, <2>1, RenderSame
<1>5. ASSUME NEW m \in Menu, ClickTrigger(m) PROVE OverTyped'
  <2> DEFINE opened == IF m \in openMenus THEN {} ELSE {m}
  <2>1. HeardOut /\ Render(opened, activeModal, keyReady, paletteOpen, keyWarning, fades) /\ asked' = openMenus
    BY <1>5 DEF ClickTrigger
  <2>2. opened \in SUBSET Menu
    OBVIOUS
  <2>. HIDE DEF opened
  <2>. QED
    BY <1>1, <2>1, <2>2, RenderSame
<1>6. ASSUME NEW m \in Menu, NEW modal \in {activeModal, "shortcuts-help", "delete"}, ClickItem(m, modal)
      PROVE  OverTyped'
  BY <1>1, <1>2, <1>6, RenderSame DEF ClickItem
<1>7. ASSUME NEW modal \in PageModal, PressModalShortcut(modal) PROVE OverTyped'
  BY <1>1, <1>2, <1>7, RenderSame DEF PressModalShortcut
<1>8. ASSUME NEW modal \in PageModal, ClickInPage(modal) PROVE OverTyped'
  BY <1>1, <1>2, <1>8, RenderSame DEF ClickInPage
<1>9. ASSUME NEW modal \in {"share", activeModal}, RunEntry(modal) PROVE OverTyped'
  <2>1. HeardOut /\ Render(openMenus, modal, keyReady, FALSE, keyWarning, fades) /\ asked' = {"palette", "page"}
    BY <1>9 DEF RunEntry
  <2>. QED
    BY <1>1, <1>2, <1>3, <2>1, RenderSame
<1>10. CASE ConfirmDelete
  <2>1. HeardOut /\ Render(openMenus, "none", keyReady, paletteOpen, keyWarning, fades) /\ asked' = {"page"}
    BY <1>10 DEF ConfirmDelete
  <2>. QED
    BY <1>1, <1>2, <1>3, <2>1, RenderSame
<1>11. CASE KeyRotated
  <2>1. /\ HeardOut /\ Render(openMenus, activeModal, FALSE, paletteOpen, keyWarning, fades)
        /\ asked' = {"page", "memberMenu"}
    BY <1>11 DEF KeyRotated
  <2>. QED
    BY <1>1, <1>3, <2>1, RenderSame
<1>12. CASE KeyFetched
  <2>1. HeardOut /\ Render(openMenus, activeModal, TRUE, paletteOpen, keyWarning, fades) /\ asked' = {}
    BY <1>12 DEF KeyFetched
  <2>. QED
    BY <1>1, <2>1, RenderSame
<1>13. CASE WarnOfKey
  <2>1. HeardOut /\ Render(openMenus, activeModal, keyReady, paletteOpen, TRUE, fades) /\ asked' = {}
    BY <1>13 DEF WarnOfKey
  <2>. QED
    BY <1>1, <2>1, RenderSame
<1>14. CASE TrustWarnedKey
  <2>1. HeardOut /\ Render(openMenus, activeModal, keyReady, paletteOpen, FALSE, fades) /\ asked' = {"warning"}
    BY <1>14 DEF TrustWarnedKey
  <2>. QED
    BY <1>1, <1>3, <2>1, RenderSame
<1>. QED
  BY <1>4, <1>5, <1>6, <1>7, <1>8, <1>9, <1>10, <1>11, <1>12, <1>13, <1>14

(* The timer that ends is the first: if it was its dialog's own, the       *)
(* dialog goes with it.                                                    *)
LEMMA FadeEndsTyped == OverInv /\ OverTyped /\ FadeEnds => OverTyped'
<1> SUFFICES ASSUME OverInv, OverTyped, FadeEnds PROVE OverTyped'
  OBVIOUS
<1> DEFINE fade == Head(fades)
           rest == Tail(fades)
           modal == IF fade.of = "page" THEN "none" ELSE activeModal
           palette == paletteOpen /\ fade.of # "palette"
           warning == keyWarning /\ (fade.of # "warning" \/ fade.gone)
           dialogs == OpenDialogs(modal, keyReady, palette, warning)
<1>1. HeardOut /\ fades # <<>> /\ Render(openMenus, modal, keyReady, palette, warning, rest) /\ asked' = asked
  BY DEF FadeEnds
<1>2. /\ FadesOf(fades, closing) /\ openMenus \in SUBSET Menu /\ fades \in Seq(Fade)
      /\ Len(fades) \in Nat \ {0} /\ Len(fades) <= MaxFades + 1 /\ MaxFades \in Nat
  BY <1>1, EmptySeq, LenProperties, OverlaysAssumption DEF OverInv, OverTyped, FadesOf, Stack
<1>3. /\ rest \in Seq(Fade) /\ Len(rest) = Len(fades) - 1 /\ fade = fades[1]
      /\ \A i \in 1 .. Len(rest) : rest[i] = fades[i + 1]
  BY <1>1, <1>2, HeadTailProperties
<1>4. modal \in PageModal \cup {"none"} /\ asked' \subseteq Layer
  BY <1>1 DEF OverTyped
<1>5. ~ fade.gone => fade.of \notin dialogs
  <2>1. ("page" \in dialogs <=> SlotShown(modal, keyReady)) /\ ("palette" \in dialogs <=> palette)
        /\ ("warning" \in dialogs <=> warning) /\ dialogs \subseteq Dialog
    BY DialogsAre
  <2>2. fade.of = "page" => ~ SlotShown(modal, keyReady)
    BY DEF SlotShown
  <2>3. fade.of = "palette" => ~ palette
    OBVIOUS
  <2>4. fade.of = "warning" /\ ~ fade.gone => ~ warning
    OBVIOUS
  <2>. HIDE DEF dialogs, modal, palette, warning, fade
  <2>. QED
    BY <2>1, <2>2, <2>3, <2>4 DEF Dialog
<1> HIDE DEF fade, rest, modal, palette, warning, dialogs
<1>6. Fading(rest, closing \cap dialogs)
  <2>1. ASSUME NEW d \in closing \cap dialogs PROVE \E i \in 1 .. Len(rest) : rest[i].of = d /\ ~ rest[i].gone
    <3>1. PICK j \in 1 .. Len(fades) : fades[j].of = d /\ ~ fades[j].gone
      BY DEF OverTyped, Fading
    <3>2. j # 1
      BY <1>3, <1>5, <3>1
    <3>3. j - 1 \in 1 .. Len(rest) /\ rest[j - 1] = fades[j]
      BY <1>2, <1>3, <3>2
    <3>. QED
      BY <3>1, <3>3
  <2>. QED
    BY <2>1 DEF Fading
<1>7. FadesOf(rest, closing) /\ Len(rest) <= MaxFades + 1
  BY <1>2, <1>3 DEF FadesOf
<1>. QED
  BY <1>1, <1>2, <1>4, <1>6, <1>7, RenderTyped DEF dialogs

LEMMA RequestTyped ==
  ASSUME OverInv, OverTyped, NEW d \in Dialog, RequestClose(d), Len(fades) <= MaxFades
  PROVE  /\ closing' = closing \cup {d}
         /\ Len(fades') <= MaxFades + 1 /\ Fading(fades', closing')
<1>1. closing' = closing \cup {d}
  BY Requested DEF OverInv
<1>2. CASE d \in closing
  BY <1>1, <1>2 DEF RequestClose, OverTyped
<1>3. CASE d \notin closing
  <2> DEFINE f == [of |-> d, gone |-> FALSE]
  <2>1. f \in Fade /\ f.of = d /\ ~ f.gone /\ fades \in Seq(Fade) /\ Len(fades) \in Nat
    BY LenProperties DEF Fade, OverInv, FadesOf
  <2>2. fades' = Append(fades, f)
    BY <1>3 DEF RequestClose
  <2> HIDE DEF f
  <2>3. /\ Len(fades') = Len(fades) + 1 /\ fades'[Len(fades) + 1] = f
        /\ \A i \in 1 .. Len(fades) : fades'[i] = fades[i]
    BY <2>1, <2>2, AppendProperties
  <2>4. Len(fades') <= MaxFades + 1 /\ Len(fades) + 1 \in 1 .. Len(fades')
        /\ \A i \in 1 .. Len(fades) : i \in 1 .. Len(fades')
    BY <2>1, <2>3, OverlaysAssumption
  <2>5. Fading(fades', closing')
    <3>1. ASSUME NEW e \in closing' PROVE \E i \in 1 .. Len(fades') : fades'[i].of = e /\ ~ fades'[i].gone
      <4>1. CASE e = d
        BY <2>1, <2>3, <2>4, <4>1
      <4>2. CASE e \in closing
        <5>1. PICK i \in 1 .. Len(fades) : fades[i].of = e /\ ~ fades[i].gone
          BY <4>2 DEF OverTyped, Fading
        <5>. QED
          BY <2>3, <2>4, <5>1
      <4>. QED
        BY <1>1, <3>1, <4>1, <4>2
    <3>. QED
      BY <3>1 DEF Fading
  <2>. QED
    BY <1>1, <2>4, <2>5
<1>. QED
  BY <1>2, <1>3

LEMMA HandleEscapeTyped == OverInv /\ OverTyped /\ HandleEscape => OverTyped'
<1> SUFFICES ASSUME OverInv, OverTyped, HandleEscape PROVE OverTyped'
  OBVIOUS
<1> DEFINE k == Len(escape)
           n == Len(layers)
           top == Head(escape)
<1>1. UNCHANGED <<renderedMenus, activeModal, keyReady, paletteOpen, keyWarning, asked>>
  BY DEF HandleEscape
<1>2. /\ escape # <<>> /\ escape \in Seq(Layer) /\ k \in Nat \ {0} /\ escape' = Tail(escape)
      /\ layers \in Seq(Layer) /\ n \in Nat /\ k <= n
      /\ unpopped = {} /\ Len(fades) <= MaxFades
  BY EmptySeq, LenProperties DEF HandleEscape, OverInv, Stack, Listening, OverTyped
<1>3. top = escape[1] /\ top \in Layer
  BY <1>2, HeadTailProperties, ElementOfSeq
<1>4. CASE ~ IsTopLayer(top)
  <2>1. UNCHANGED <<openMenus, layers, unpopped, closing, fades>>
    BY <1>4 DEF HandleEscape
  <2>. QED
    BY <1>1, <1>2, <2>1 DEF OverTyped
<1>5. CASE IsTopLayer(top)
  <2>1. top = Topmost /\ Hears(top)
    BY <1>5 DEF HandleEscape, IsTopLayer
  <2>2. k = 1
    <3>1. n \in 1 .. n /\ n - k + 1 \in 1 .. n /\ 1 \in 1 .. k
      BY <1>2
    <3>2. layers[n] = layers[n - k + 1]
      BY <3>1, <2>1, <1>2, <1>3 DEF Topmost, OverInv, Listening
    <3>3. n = n - k + 1
      BY <3>1, <3>2 DEF OverInv, Stack, OneOfEach
    <3>4. k \in Nat /\ n \in Nat
      BY <1>2
    <3> HIDE DEF k, n
    <3>. QED
      BY <3>3, <3>4
  <2>3. escape' = <<>>
    <3>1. escape' \in Seq(Layer) /\ Len(escape') = 0
      BY <1>2, <2>2, HeadTailProperties
    <3>. QED
      BY <3>1, EmptySeq
  <2>4. top \in LayersOf(layers)
    <3>1. n \in 1 .. n
      BY <1>2
    <3>. QED
      BY <2>1, <3>1 DEF Topmost, LayersOf
  <2> HIDE DEF top
  <2>5. CASE top \in Menu
    <3>1. CloseOnEscape(top)
      BY <2>1, <2>5 DEF Hears
    <3>2. openMenus' = openMenus \ {top} /\ UNCHANGED <<closing, fades>>
      BY <3>1 DEF CloseOnEscape
    <3>3. unpopped' \subseteq LayersOf(layers')
      BY <1>2, <2>4, <3>1 DEF CloseOnEscape
    <3>. QED
      BY <1>1, <2>3, <3>2, <3>3 DEF OverTyped
  <2>6. CASE top \notin Menu
    <3>1. top \in Dialog /\ RequestClose(top) /\ UNCHANGED <<openMenus, layers, unpopped>>
      BY <1>3, <2>1, <2>6 DEF Hears, Layer
    <3>2. closing' = closing \cup {top} /\ Len(fades') <= MaxFades + 1 /\ Fading(fades', closing')
      BY <1>2, <3>1, RequestTyped
    <3>3. top \in OpenDialogs(activeModal, keyReady, paletteOpen, keyWarning)
      BY <1>2, <2>4, <2>6 DEF OverInv, Stack, Shown
    <3>. QED
      BY <1>1, <2>3, <3>1, <3>2, <3>3 DEF OverTyped
  <2>. QED
    BY <2>5, <2>6
<1>. QED
  BY <1>4, <1>5

LEMMA ClickOverlayTyped ==
  ASSUME OverInv, OverTyped, NEW d \in Dialog, ClickOverlay(d)
  PROVE  OverTyped'
<1>1. /\ UNCHANGED <<renderedMenus, activeModal, keyReady, paletteOpen, keyWarning, escape, unpopped>>
      /\ openMenus' = {} /\ asked' = openMenus \cup {d} /\ HeardOut
      /\ d \in Range(layers) /\ RequestClose(d) /\ Len(fades) <= MaxFades
  BY DEF ClickOverlay
<1>2. closing' = closing \cup {d} /\ Len(fades') <= MaxFades + 1 /\ Fading(fades', closing')
  BY <1>1, RequestTyped
<1>3. d \in OpenDialogs(activeModal, keyReady, paletteOpen, keyWarning)
  <2>1. d \in Shown /\ d \notin Menu
    BY <1>1, StackIsShown DEF Dialog, Menu
  <2>. QED
    BY <2>1 DEF Shown, OverInv, Stack
<1>4. asked' \subseteq Layer
  BY <1>1 DEF OverInv, Stack, Layer
<1>5. escape' = <<>> /\ unpopped' = {}
  BY <1>1 DEF HeardOut
<1>. QED
  BY <1>1, <1>2, <1>3, <1>4, <1>5 DEF OverTyped

LEMMA OverTypedNext == OverInv /\ OverTyped /\ [OverlaysNext]_overlayVars => OverTyped'
<1> SUFFICES ASSUME OverInv, OverTyped, [OverlaysNext]_overlayVars PROVE OverTyped'
  OBVIOUS
<1>1. CASE PressEscape
  <2>1. /\ UNCHANGED <<layers, openMenus, renderedMenus, activeModal, keyReady, paletteOpen, keyWarning,
                       closing, fades, unpopped>>
        /\ unpopped = {} /\ Len(fades) <= MaxFades /\ asked' = {Topmost} /\ layers # <<>>
    BY <1>1 DEF PressEscape, HeardOut
  <2>2. Topmost \in Layer
    <3>1. layers \in Seq(Layer) /\ Len(layers) \in 1 .. Len(layers)
      BY <2>1, EmptySeq, LenProperties DEF OverInv, Stack
    <3>. QED
      BY <3>1, ElementOfSeq DEF Topmost
  <2>. QED
    BY <2>1, <2>2 DEF OverTyped
<1>2. CASE PopClosed
  BY <1>2 DEF PopClosed, OverTyped
<1>3. ASSUME NEW m \in Menu, MenuFaded(m) PROVE OverTyped'
  BY <1>3 DEF MenuFaded, OverTyped
<1>4. CASE UNCHANGED overlayVars
  BY <1>4 DEF overlayVars, OverTyped
<1>. QED
  BY <1>1, <1>2, <1>3, <1>4, HandleEscapeTyped, FadeEndsTyped, ClickOverlayTyped, RenderingsTyped DEF OverlaysNext

(* The overlays keep their type: the stack is what is shown and what was   *)
(* not cleaned up after, once each, and the dialogs that fade are those    *)
(* whose own timer is running.                                             *)
THEOREM OverlaysTypes == OverlaysSpec => []OverlaysTypeOK
<1>1. OverlaysInit => OverTyped
  <2> SUFFICES ASSUME OverlaysInit PROVE OverTyped
    OBVIOUS
  <2>1. Len(fades) = 0 /\ closing = {} /\ asked = {} /\ unpopped = {} /\ escape = <<>>
    BY EmptySeq DEF OverlaysInit
  <2>2. activeModal \in PageModal \cup {"none"} /\ openMenus \subseteq renderedMenus /\ renderedMenus \subseteq Menu
    BY DEF OverlaysInit
  <2>. QED
    BY <2>1, <2>2, OverlaysAssumption DEF OverTyped, Fading
<1>2. OverInv /\ OverTyped => OverlaysTypeOK
  <2> SUFFICES ASSUME OverInv, OverTyped PROVE OverlaysTypeOK
    OBVIOUS
  <2>1. /\ {keyReady, paletteOpen, keyWarning, remounted} \subseteq BOOLEAN
        /\ unpopped \subseteq Menu /\ layers \in Seq(Layer) /\ OneOfEach(layers)
        /\ "memberMenu" \in openMenus => activeModal = "share" /\ keyReady
    BY DEF OverInv, Flags, Stack, ShareMenu
  <2>2. Range(layers) = LayersOf(layers) /\ DOMAIN layers = 1 .. Len(layers) /\ Len(layers) \in Nat
    BY <2>1, RangeIs, LenProperties
  <2>3. IsInjective(layers)
    BY <2>1, <2>2 DEF IsInjective, OneOfEach
  <2>4. Range(layers) = Shown \cup unpopped
    BY <2>2 DEF OverInv, OverTyped, Stack
  <2>5. closing \subseteq Shown \cap Dialog
    BY DialogsAre DEF OverTyped, Shown
  <2>6. closing = {f.of : f \in {f \in Range(fades) : ~f.gone}}
    <3>1. fades \in Seq(Fade) /\ Range(fades) = {fades[i] : i \in 1 .. Len(fades)}
      BY LenProperties DEF OverInv, FadesOf, Range
    <3>2. ASSUME NEW d \in closing PROVE \E f \in Range(fades) : ~f.gone /\ f.of = d
      BY <3>1 DEF OverTyped, Fading
    <3>3. ASSUME NEW f \in Range(fades), ~f.gone PROVE f.of \in closing
      BY <3>1, <3>3 DEF OverInv, FadesOf
    <3>. QED
      BY <3>2, <3>3
  <2>7. Range(escape) \subseteq Range(layers)
    <3>1. CASE escape = <<>>
      BY <3>1 DEF Range
    <3>2. CASE escape # <<>>
      <4>1. /\ escape \in Seq(Layer) /\ Len(escape) <= Len(layers)
            /\ \A i \in 1 .. Len(escape) : escape[i] = layers[Len(layers) - Len(escape) + i]
        BY <3>2 DEF OverInv, Listening
      <4>2. Range(escape) = LayersOf(escape) /\ Len(escape) \in Nat
        BY <4>1, RangeIs, LenProperties
      <4>3. \A i \in 1 .. Len(escape) : Len(layers) - Len(escape) + i \in 1 .. Len(layers)
        BY <2>2, <4>1, <4>2
      <4>. QED
        BY <2>2, <4>1, <4>2, <4>3 DEF LayersOf
    <3>. QED
      BY <3>1, <3>2
  <2>8. /\ activeModal \in PageModal \cup {"none"} /\ openMenus \subseteq renderedMenus /\ renderedMenus \subseteq Menu
        /\ Len(fades) <= MaxFades + 1 /\ asked \subseteq Menu \cup Dialog
    BY DEF OverTyped, Layer
  <2>. QED
    BY <2>1, <2>3, <2>4, <2>5, <2>6, <2>7, <2>8 DEF OverlaysTypeOK
<1>3. OverInv /\ [OverlaysNext]_overlayVars => OverInv'
  BY OverStep
<1>. QED
  BY <1>1, <1>2, <1>3, OverInvInit, OverTypedNext, PTL DEF OverlaysSpec

-----------------------------------------------------------------------------
(* Whatever component moves, each makes a step of its own or none.         *)
LEMMA PageBegins ==
  Init => /\ PresenceInit /\ InvitesInit /\ FindInit
          /\ VersionDeltasInit /\ DocumentCipherInit /\ OverlaysInit
BY DEF Init

LEMMA PageMoves ==
  [Next]_<<presenceVars, invitesVars, findVars, versionDeltasVars, documentCipherVars, overlayVars, part>> =>
    /\ [PresenceNext]_presenceVars
    /\ [InvitesNext]_invitesVars
    /\ [FindInEditorNext]_findVars
    /\ [VersionDeltasNext]_versionDeltasVars
    /\ [DocumentCipherNext]_documentCipherVars
    /\ [OverlaysNext]_overlayVars
BY DEF Next

(* Whatever moves, every variable of the page keeps its type: presence and *)
(* invites, the find bar, the version list, the keys and what they seal,   *)
(* and the overlays.                                                       *)
THEOREM PageTypes == Spec => []PageTypeOK
<1>1. Spec => PresenceSpec /\ InvitesSpec /\ FindInEditorSpec
  BY PageBegins, PageMoves, PTL DEF Spec, PresenceSpec, InvitesSpec, FindInEditorSpec
<1>2. Spec => VersionDeltasSpec /\ DocumentCipherSpec /\ OverlaysSpec
  BY PageBegins, PageMoves, PTL DEF Spec, VersionDeltasSpec, DocumentCipherSpec, OverlaysSpec
<1>3. Spec => /\ []PresenceTypeOK /\ []InvitesTypeOK /\ []FindTypeOK
              /\ []VersionDeltasTypeOK /\ []DocumentCipherTypeOK /\ []OverlaysTypeOK
  BY <1>1, <1>2, PresenceTypes, InvitesTypes, FindTypes, LogTypes, CipherTypes, OverlaysTypes, PTL
<1>. QED
  BY <1>3, PTL DEF PageTypeOK
=============================================================================
