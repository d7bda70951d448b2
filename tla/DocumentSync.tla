---------------------------- MODULE DocumentSync ----------------------------
(***************************************************************************)
(* One document edited by several browser tabs: the tab's Yjs document and *)
(* DocProvider (web/src/realtime), the websocket between tab and server,   *)
(* the server's per-connection handler and room (ws_handler.go,            *)
(* realtime/room.go) and the update log (UpdateLog).                       *)
(*                                                                         *)
(* A Client is a tab. A Conn is one websocket, used once: a reconnect      *)
(* takes a fresh one while the handler of the old one may still be         *)
(* running. Yjs is a state-based CRDT: a document is the set of edits it   *)
(* has integrated, applying an update is set union.                        *)
(***************************************************************************)
EXTENDS UpdateLog, FiniteSets

CONSTANTS
  Client,             \* browser tabs
  Conn,               \* websocket connections, each used at most once
  NoConn,             \* "no socket"
  Faults,             \* kinds of failure the environment may inject
  MaxEdits,           \* bound: edits typed in all
  MaxFaults,          \* bound: failures injected in all
  MaxSnapshots,       \* bound: compactions started in all
  SendBuffer,         \* client.go: sendBuffer
  SnapshotThreshold   \* snapshotChecks.ts: SNAPSHOT_THRESHOLD

FaultKinds == {"drop", "refuse", "reject", "discard", "reload", "seedFails", "replayFails", "postFails"}

ASSUME NoConnAssumption == NoConn \notin Conn
ASSUME FaultsAssumption == Faults \subseteq FaultKinds
ASSUME BoundsAssumption ==
  /\ MaxEdits \in Nat /\ MaxFaults \in Nat /\ MaxSnapshots \in Nat
  /\ SendBuffer \in Nat \ {0}
  /\ SnapshotThreshold \in Nat \ {0}

VARIABLES
  \* the tab
  phase,    \* DocProvider's ConnState, plus "loading" before it exists
  conn,     \* the socket ConnState points to
  cursor,   \* lastUpdateId
  doc,      \* edits integrated in the Y.Doc
  queue,    \* decryptQueue: frames received, not yet verified and applied
  pending,  \* pendingBeforeOpen
  timerOn,  \* the snapshot interval is running
  task,     \* the tab's maybeCreateSnapshot call
  \* the connection and its server-side handler
  sock,     \* "open", "hungup" (peer or network) or "evicted" (CloseNow)
  since,    \* the cursor the handshake carried
  up,       \* edits on their way to the server
  down,     \* frames on their way to the tab: send channel and network
  handler,  \* how far WebSocket() has got
  replay,   \* history still to be sent
  cur,      \* the update handleBinaryFrame is working on
  room,     \* connections the document's room fans out to
  \* bounds and history
  edits,    \* edits typed so far
  faults,   \* failures injected so far
  started,  \* compactions started so far
  authored  \* history: edits typed in the tab's current page

tabVars == <<phase, conn, cursor, doc, queue, pending, timerOn, task>>
connVars == <<sock, since, up, down, handler, replay, cur, room>>
auxVars == <<edits, faults, started, authored>>
vars == <<logVars, tabVars, connVars, auxVars>>

Stages == {"none", "listed", "posted"}
Task == [stage : Stages, upTo : Nat, edits : SUBSET Nat]
Idle == [stage |-> "none", upTo |-> 0, edits |-> {}]
NoUpdate == [id |-> 0, edit |-> 0]

Phases == {"loading", "connecting", "connected", "scheduled"}
HandlerStates == {"unused", "handshake", "joined", "replaying", "live", "inserting", "persisted", "gone"}

TypeOK ==
  /\ LogTypeOK
  /\ phase \in [Client -> Phases]
  /\ conn \in [Client -> Conn \cup {NoConn}]
  /\ \A c \in Client : phase[c] \in {"connecting", "connected"} <=> conn[c] # NoConn
  /\ cursor \in [Client -> Nat]
  /\ doc \in [Client -> SUBSET Nat]
  /\ queue \in [Client -> Seq(Update)]
  /\ pending \in [Client -> Seq(Nat)]
  /\ timerOn \in [Client -> BOOLEAN]
  /\ task \in [Client -> Task]
  /\ sock \in [Conn -> {"open", "hungup", "evicted"}]
  /\ since \in [Conn -> Nat]
  /\ up \in [Conn -> Seq(Nat)]
  /\ down \in [Conn -> Seq(Update)]
  /\ handler \in [Conn -> HandlerStates]
  /\ replay \in [Conn -> SUBSET Update]
  /\ cur \in [Conn -> Update]
  /\ room \in SUBSET Conn
  /\ edits \in Nat /\ faults \in Nat /\ started \in Nat
  /\ authored \in [Client -> SUBSET Nat]

Init ==
  /\ LogInit
  /\ phase = [c \in Client |-> "loading"]
  /\ conn = [c \in Client |-> NoConn]
  /\ cursor = [c \in Client |-> 0]
  /\ doc = [c \in Client |-> {}]
  /\ queue = [c \in Client |-> <<>>]
  /\ pending = [c \in Client |-> <<>>]
  /\ timerOn = [c \in Client |-> FALSE]
  /\ task = [c \in Client |-> Idle]
  /\ sock = [k \in Conn |-> "open"]
  /\ since = [k \in Conn |-> 0]
  /\ up = [k \in Conn |-> <<>>]
  /\ down = [k \in Conn |-> <<>>]
  /\ handler = [k \in Conn |-> "unused"]
  /\ replay = [k \in Conn |-> {}]
  /\ cur = [k \in Conn |-> NoUpdate]
  /\ room = {}
  /\ edits = 0 /\ faults = 0 /\ started = 0
  /\ authored = [c \in Client |-> {}]

(* One injected failure out of the budget.                                 *)
Fault(kind) ==
  /\ kind \in Faults
  /\ faults < MaxFaults
  /\ faults' = faults + 1

-----------------------------------------------------------------------------
(* The tab's connection lifecycle.                                         *)

(* connect(): a socket on a fresh connection, carrying the cursor of the   *)
(* moment it is called.                                                    *)
OpenSocket(c, k, from) ==
  /\ handler[k] = "unused"
  /\ handler' = [handler EXCEPT ![k] = "handshake"]
  /\ since' = [since EXCEPT ![k] = from]
  /\ conn' = [conn EXCEPT ![c] = k]
  /\ phase' = [phase EXCEPT ![c] = "connecting"]

(* loadYjsSeed, then the DocProvider constructor: seed the Y.Doc with a    *)
(* latest snapshot if there is one, and connect from its up_to_update_id.  *)
LoadSeed(c, k) ==
  /\ phase[c] = "loading"
  /\ \/ /\ snaps = {}
        /\ OpenSocket(c, k, 0)
        /\ UNCHANGED <<doc, cursor>>
     \/ \E s \in LatestSnapshots :
          /\ doc' = [doc EXCEPT ![c] = s.edits]
          /\ cursor' = [cursor EXCEPT ![c] = s.upTo]
          /\ OpenSocket(c, k, s.upTo)
  /\ UNCHANGED <<logVars, queue, pending, timerOn, task, sock, up, down, replay, cur, room, auxVars>>

(* loadYjsSeed's catch: the snapshot could not be fetched or decrypted, so *)
(* the tab starts empty and asks for everything.                           *)
LoadSeedFails(c, k) ==
  /\ phase[c] = "loading"
  /\ snaps # {}
  /\ Fault("seedFails")
  /\ OpenSocket(c, k, 0)
  /\ UNCHANGED <<logVars, doc, cursor, queue, pending, timerOn, task, sock, up, down, replay, cur, room, edits, started, authored>>

(* The reconnect timer (or a tab coming back to the foreground) fires.     *)
Reconnect(c, k) ==
  /\ phase[c] = "scheduled"
  /\ OpenSocket(c, k, cursor[c])
  /\ UNCHANGED <<logVars, cursor, doc, queue, pending, timerOn, task, sock, up, down, replay, cur, room, auxVars>>

(* Mutant: the flush forgets splice(0), so the next open sends again.      *)
HandleOpenKeepsPending(c) ==
  LET k == conn[c] IN
  /\ phase[c] = "connecting"
  /\ sock[k] = "open"
  /\ handler[k] # "handshake"
  /\ phase' = [phase EXCEPT ![c] = "connected"]
  /\ up' = [up EXCEPT ![k] = @ \o pending[c]]
  /\ timerOn' = [timerOn EXCEPT ![c] = TRUE]
  /\ UNCHANGED <<logVars, conn, cursor, doc, queue, pending, task, sock, since, down, handler, replay, cur, room, auxVars>>

(* handleOpen: flush what was typed while there was no socket; the first   *)
(* 'connected' status starts the snapshot checks.                          *)
HandleOpen(c) ==
  LET k == conn[c] IN
  /\ phase[c] = "connecting"
  /\ sock[k] = "open"
  /\ handler[k] # "handshake"
  /\ phase' = [phase EXCEPT ![c] = "connected"]
  /\ up' = [up EXCEPT ![k] = @ \o pending[c]]
  /\ pending' = [pending EXCEPT ![c] = <<>>]
  /\ timerOn' = [timerOn EXCEPT ![c] = TRUE]
  /\ UNCHANGED <<logVars, conn, cursor, doc, queue, task, sock, since, down, handler, replay, cur, room, auxVars>>

(* Mutant: the state keeps pointing to the closed socket.                  *)
HandleCloseKeepsSocket(c) ==
  /\ phase[c] \in {"connecting", "connected"}
  /\ sock[conn[c]] # "open"
  /\ phase' = [phase EXCEPT ![c] = "scheduled"]
  /\ UNCHANGED <<logVars, conn, cursor, doc, queue, pending, timerOn, task, connVars, auxVars>>

(* handleClose: the browser reports the socket gone.                       *)
HandleClose(c) ==
  /\ phase[c] \in {"connecting", "connected"}
  /\ sock[conn[c]] # "open"
  /\ phase' = [phase EXCEPT ![c] = "scheduled"]
  /\ conn' = [conn EXCEPT ![c] = NoConn]
  /\ UNCHANGED <<logVars, cursor, doc, queue, pending, timerOn, task, connVars, auxVars>>

(* The page is torn down and loaded again: a reload, or the connection     *)
(* effect of useDocumentConnection re-running because its session or key   *)
(* changed. Provider and Y.Doc are destroyed with all they hold. A call of *)
(* maybeCreateSnapshot past its listing keeps its Y.Doc; since a destroyed *)
(* document no longer changes, that call is taken as posted already.       *)
Reload(c) ==
  /\ phase[c] # "loading"
  /\ task[c].stage # "listed"
  /\ Fault("reload")
  /\ sock' = [k \in Conn |-> IF k = conn[c] /\ sock[k] = "open" THEN "hungup" ELSE sock[k]]
  /\ phase' = [phase EXCEPT ![c] = "loading"]
  /\ conn' = [conn EXCEPT ![c] = NoConn]
  /\ cursor' = [cursor EXCEPT ![c] = 0]
  /\ doc' = [doc EXCEPT ![c] = {}]
  /\ queue' = [queue EXCEPT ![c] = <<>>]
  /\ pending' = [pending EXCEPT ![c] = <<>>]
  /\ timerOn' = [timerOn EXCEPT ![c] = FALSE]
  /\ authored' = [authored EXCEPT ![c] = {}]
  /\ UNCHANGED <<logVars, task, since, up, down, handler, replay, cur, room, edits, started>>

(* The network, an idle timeout or a proxy kills a socket; either end      *)
(* notices later, and what was in flight may be lost.                      *)
Drop(k) ==
  /\ handler[k] \notin {"unused", "gone"}
  /\ sock[k] = "open"
  /\ Fault("drop")
  /\ sock' = [sock EXCEPT ![k] = "hungup"]
  /\ UNCHANGED <<logVars, tabVars, since, up, down, handler, replay, cur, room, edits, started, authored>>

-----------------------------------------------------------------------------
(* The tab's data path.                                                    *)

(* The user types: Yjs integrates the edit at once, handleLocalUpdate      *)
(* sends it or queues it.                                                  *)
Type(c) ==
  LET e == edits + 1
      k == conn[c] IN
  /\ phase[c] # "loading"
  /\ edits < MaxEdits
  /\ edits' = e
  /\ doc' = [doc EXCEPT ![c] = @ \cup {e}]
  /\ authored' = [authored EXCEPT ![c] = @ \cup {e}]
  /\ \/ /\ phase[c] = "connected"
        /\ up' = [up EXCEPT ![k] = Append(@, e)]
        /\ UNCHANGED pending
     \/ /\ phase[c] # "connected"
        /\ pending' = [pending EXCEPT ![c] = Append(@, e)]
        /\ UNCHANGED up
  /\ UNCHANGED <<logVars, phase, conn, cursor, queue, timerOn, task, sock, since, down, handler, replay, cur, room, faults, started>>

(* handleBinaryFrame: the cursor moves when the frame arrives, the content *)
(* waits in decryptQueue. What the server wrote before it evicted a        *)
(* connection may still arrive.                                            *)
ReceiveFrame(c) ==
  LET k == conn[c] IN
  /\ phase[c] = "connected"
  /\ sock[k] # "hungup"
  /\ down[k] # <<>>
  /\ down' = [down EXCEPT ![k] = Tail(@)]
  /\ queue' = [queue EXCEPT ![c] = Append(@, Head(down[k]))]
  /\ cursor' = [cursor EXCEPT ![c] = IF Head(down[k]).id > @ THEN Head(down[k]).id ELSE @]
  /\ UNCHANGED <<logVars, phase, conn, doc, pending, timerOn, task, sock, since, up, handler, replay, cur, room, auxVars>>

(* The head of decryptQueue verifies and is applied.                       *)
ApplyUpdate(c) ==
  /\ queue[c] # <<>>
  /\ doc' = [doc EXCEPT ![c] = @ \cup {Head(queue[c]).edit}]
  /\ queue' = [queue EXCEPT ![c] = Tail(@)]
  /\ UNCHANGED <<logVars, phase, conn, cursor, pending, timerOn, task, connVars, auxVars>>

(* The head of decryptQueue fails to decrypt or verify (an epoch this      *)
(* tab's key ring lacks, a signing key that could not be fetched) and is   *)
(* dropped; the cursor stays past it.                                      *)
DiscardUpdate(c) ==
  /\ queue[c] # <<>>
  /\ Fault("discard")
  /\ queue' = [queue EXCEPT ![c] = Tail(@)]
  /\ UNCHANGED <<logVars, phase, conn, cursor, doc, pending, timerOn, task, connVars, edits, started, authored>>

-----------------------------------------------------------------------------
(* maybeCreateSnapshot. The interval runs whether or not the socket does.  *)

(* The server answers listUpdates with at least a threshold of rows.       *)
ListPending(c) ==
  /\ timerOn[c]
  /\ task[c].stage = "none"
  /\ started < MaxSnapshots
  /\ Cardinality(rows) >= SnapshotThreshold
  /\ \E last \in rows :
       /\ IsLast(last, rows)
       /\ task' = [task EXCEPT ![c] = [stage |-> "listed", upTo |-> last.id, edits |-> {}]]
  /\ started' = started + 1
  /\ UNCHANGED <<logVars, phase, conn, cursor, doc, queue, pending, timerOn, connVars, edits, faults, authored>>

(* The answer arrives: encode the Y.Doc as it is now and post it.          *)
PostSnapshot(c) ==
  /\ task[c].stage = "listed"
  /\ task' = [task EXCEPT ![c] = [stage |-> "posted", upTo |-> task[c].upTo, edits |-> doc[c]]]
  /\ UNCHANGED <<logVars, phase, conn, cursor, doc, queue, pending, timerOn, connVars, auxVars>>

(* The server runs the CreateSnapshot transaction.                         *)
CommitSnapshot(c) ==
  /\ task[c].stage = "posted"
  /\ CreateSnapshot([upTo |-> task[c].upTo, edits |-> task[c].edits])
  /\ task' = [task EXCEPT ![c] = Idle]
  /\ UNCHANGED <<nextId, committed, phase, conn, cursor, doc, queue, pending, timerOn, connVars, auxVars>>

(* The post never reaches the server, or the transaction rolls back.       *)
PostFails(c) ==
  /\ task[c].stage = "posted"
  /\ Fault("postFails")
  /\ task' = [task EXCEPT ![c] = Idle]
  /\ UNCHANGED <<logVars, phase, conn, cursor, doc, queue, pending, timerOn, connVars, edits, started, authored>>

-----------------------------------------------------------------------------
(* The server's handler of one connection: WebSocket().                    *)

(* Accept and hub.Join.                                                    *)
Join(k) ==
  /\ handler[k] = "handshake"
  /\ handler' = [handler EXCEPT ![k] = "joined"]
  /\ room' = room \cup {k}
  /\ UNCHANGED <<logVars, tabVars, sock, since, up, down, replay, cur, auxVars>>

(* The handshake is refused: 401, 403, 429 or 500.                         *)
Refuse(k) ==
  /\ handler[k] = "handshake"
  /\ Fault("refuse")
  /\ handler' = [handler EXCEPT ![k] = "gone"]
  /\ sock' = [sock EXCEPT ![k] = "hungup"]
  /\ UNCHANGED <<logVars, tabVars, since, up, down, replay, cur, room, edits, started, authored>>

(* replayHistory: UpdatesSince.                                            *)
QueryHistory(k) ==
  /\ handler[k] = "joined"
  /\ replay' = [replay EXCEPT ![k] = RowsSince(since[k])]
  /\ handler' = [handler EXCEPT ![k] = "replaying"]
  /\ UNCHANGED <<logVars, tabVars, sock, since, up, down, cur, room, auxVars>>

(* replayHistory's error return: the query failed, the connection goes on  *)
(* without its history.                                                    *)
QueryHistoryFails(k) ==
  /\ handler[k] = "joined"
  /\ Fault("replayFails")
  /\ handler' = [handler EXCEPT ![k] = "replaying"]
  /\ UNCHANGED <<logVars, tabVars, sock, since, up, down, replay, cur, room, edits, started, authored>>

(* SendUpdateBlocking of the next row: waits for room in the send channel. *)
ReplayNext(k) ==
  /\ handler[k] = "replaying"
  /\ Len(down[k]) < SendBuffer
  /\ \E u \in replay[k] :
       /\ IsFirst(u, replay[k])
       /\ down' = [down EXCEPT ![k] = Append(@, u)]
       /\ replay' = [replay EXCEPT ![k] = @ \ {u}]
  /\ UNCHANGED <<logVars, tabVars, sock, since, up, handler, cur, room, auxVars>>

(* The history is out; runReadLoop starts.                                 *)
StartReading(k) ==
  /\ handler[k] = "replaying"
  /\ replay[k] = {}
  /\ handler' = [handler EXCEPT ![k] = "live"]
  /\ UNCHANGED <<logVars, tabVars, sock, since, up, down, replay, cur, room, auxVars>>

(* Mutant: the frame is broadcast without waiting for its INSERT.          *)
BroadcastFirst(k) ==
  /\ handler[k] = "live"
  /\ sock[k] # "evicted"
  /\ up[k] # <<>>
  /\ up' = [up EXCEPT ![k] = Tail(@)]
  /\ cur' = [cur EXCEPT ![k] = [id |-> nextId, edit |-> Head(up[k])]]
  /\ AllocateId
  /\ handler' = [handler EXCEPT ![k] = "persisted"]
  /\ UNCHANGED <<rows, snaps, committed, tabVars, sock, since, down, replay, room, auxVars>>

(* handleBinaryFrame reads a frame and its INSERT draws an id. A CloseNow  *)
(* on this side makes every further Read fail; a hang-up by the peer does  *)
(* not, while frames are left to read.                                     *)
BeginAppend(k) ==
  /\ handler[k] = "live"
  /\ sock[k] # "evicted"
  /\ up[k] # <<>>
  /\ up' = [up EXCEPT ![k] = Tail(@)]
  /\ cur' = [cur EXCEPT ![k] = [id |-> nextId, edit |-> Head(up[k])]]
  /\ AllocateId
  /\ handler' = [handler EXCEPT ![k] = "inserting"]
  /\ UNCHANGED <<rows, snaps, committed, tabVars, sock, since, down, replay, room, auxVars>>

(* AppendUpdate returns an error (the author became a reader, the database *)
(* is away): update_rejected goes back, which dispatchControlMessage       *)
(* ignores.                                                                *)
RejectUpdate(k) ==
  /\ handler[k] = "live"
  /\ sock[k] # "evicted"
  /\ up[k] # <<>>
  /\ Fault("reject")
  /\ up' = [up EXCEPT ![k] = Tail(@)]
  /\ UNCHANGED <<logVars, tabVars, sock, since, down, handler, replay, cur, room, edits, started, authored>>

(* The INSERT commits and AppendUpdate returns the id.                     *)
CommitAppend(k) ==
  /\ handler[k] = "inserting"
  /\ CommitRow(cur[k])
  /\ handler' = [handler EXCEPT ![k] = "persisted"]
  /\ UNCHANGED <<nextId, snaps, tabVars, sock, since, up, down, replay, cur, room, auxVars>>

(* hub.BroadcastUpdate: one pass over the room under its lock. A member    *)
(* whose send channel is full is removed and its socket closed.            *)
Slow(k) == {m \in room \ {k} : Len(down[m]) >= SendBuffer}

(* Mutant: connections still replaying their history are passed over.      *)
BroadcastToReaders(k) ==
  LET listening == {m \in room \ {k} : handler[m] \notin {"joined", "replaying"}} IN
  /\ handler[k] = "persisted"
  /\ down' = [m \in Conn |-> IF m \in listening \ Slow(k) THEN Append(down[m], cur[k]) ELSE down[m]]
  /\ room' = room \ Slow(k)
  /\ sock' = [m \in Conn |-> IF m \in Slow(k) THEN "evicted" ELSE sock[m]]
  /\ handler' = [handler EXCEPT ![k] = "live"]
  /\ UNCHANGED <<logVars, tabVars, since, up, replay, cur, auxVars>>

Broadcast(k) ==
  /\ handler[k] = "persisted"
  /\ down' = [m \in Conn |-> IF m \in (room \ {k}) \ Slow(k) THEN Append(down[m], cur[k]) ELSE down[m]]
  /\ room' = room \ Slow(k)
  /\ sock' = [m \in Conn |-> IF m \in Slow(k) THEN "evicted" ELSE sock[m]]
  /\ handler' = [handler EXCEPT ![k] = "live"]
  /\ UNCHANGED <<logVars, tabVars, since, up, replay, cur, auxVars>>

(* conn.Read fails: the deferred Leave and CloseNow run. Frames the peer   *)
(* had sent may or may not have been read before.                          *)
Unwind(k) ==
  /\ handler[k] = "live"
  /\ sock[k] # "open"
  /\ handler' = [handler EXCEPT ![k] = "gone"]
  /\ room' = room \ {k}
  /\ UNCHANGED <<logVars, tabVars, sock, since, up, down, replay, cur, auxVars>>

-----------------------------------------------------------------------------
TabStep(c) ==
  \/ \E k \in Conn : LoadSeed(c, k) \/ LoadSeedFails(c, k) \/ Reconnect(c, k)
  \/ HandleOpen(c) \/ HandleClose(c) \/ Reload(c)
  \/ Type(c) \/ ReceiveFrame(c) \/ ApplyUpdate(c) \/ DiscardUpdate(c)
  \/ ListPending(c) \/ PostSnapshot(c) \/ CommitSnapshot(c) \/ PostFails(c)

ConnStep(k) ==
  \/ Drop(k) \/ Join(k) \/ Refuse(k)
  \/ QueryHistory(k) \/ QueryHistoryFails(k) \/ ReplayNext(k) \/ StartReading(k)
  \/ BeginAppend(k) \/ RejectUpdate(k) \/ CommitAppend(k) \/ Broadcast(k) \/ Unwind(k)

Next == (\E c \in Client : TabStep(c)) \/ (\E k \in Conn : ConnStep(k))

Spec == Init /\ [][Next]_vars

(* The scheduling the code gives: the browser runs its handlers, timers    *)
(* fire, the server's goroutines run, the network delivers. Nobody has to  *)
(* type, to compact, or to fail.                                           *)
Progress(c) ==
  \/ \E k \in Conn : LoadSeed(c, k) \/ Reconnect(c, k)
  \/ HandleOpen(c) \/ HandleClose(c)

ServerProgress(k) ==
  Join(k) \/ QueryHistory(k) \/ ReplayNext(k) \/ StartReading(k)
  \/ BeginAppend(k) \/ CommitAppend(k) \/ Broadcast(k) \/ Unwind(k)

Fairness ==
  /\ \A c \in Client : WF_vars(Progress(c)) /\ WF_vars(ReceiveFrame(c)) /\ WF_vars(ApplyUpdate(c))
  /\ \A k \in Conn : WF_vars(ServerProgress(k))

FairSpec == Spec /\ Fairness

-----------------------------------------------------------------------------
(* Safety.                                                                 *)

Serving == {"replaying", "live", "inserting", "persisted"}
AboutToBroadcast(k) == {cur[m] : m \in {n \in Conn \ {k} : handler[n] = "persisted"}}

(* Where an update meant for tab c on connection k can be.                 *)
OnItsWay(c, k) == Range(down[k]) \cup Range(queue[c]) \cup replay[k] \cup AboutToBroadcast(k)

(* Join before replay: on a connection whose history query succeeded, no   *)
(* stored update past its cursor is forgotten; each one is in the tab, on  *)
(* its way to it, or held by a handler that will broadcast it. This is why *)
(* WebSocket() joins the room before replayHistory reads the log.          *)
DeliveryComplete ==
  Faults \cap {"discard", "replayFails"} = {} =>
    \A c \in Client : \A k \in Conn :
      conn[c] = k /\ sock[k] = "open" /\ handler[k] \in Serving =>
        \A r \in rows : r.id > since[k] => r.edit \in doc[c] \/ r \in OnItsWay(c, k)

(* One row per edit and one edit per id: the flush of pendingBeforeOpen,   *)
(* reconnects and handlers of old sockets never store an edit twice, and   *)
(* the id a broadcast carries names one update.                            *)
EachEditStoredOnce ==
  \A u, v \in committed : (u.edit = v.edit \/ u.id = v.id) => u = v

(* Persist before broadcast: a tab shows only what it typed since it       *)
(* loaded and what is durable, so no crash of the server takes back what a *)
(* peer has already seen.                                                  *)
DurableBeforeSeen ==
  \A c \in Client : doc[c] \subseteq authored[c] \cup Durable

(* What somebody who opens the document now can reconstruct from snapshot  *)
(* s and the rows after it.                                                *)
LoadableFrom(s) == s.edits \cup EditsOf(RowsSince(s.upTo))

(* Compaction loses nothing: whatever was stored can be loaded again.      *)
(* snapshot.go:33-35 says a client compacts only what it can reconstruct;  *)
(* listing, encoding and posting are three steps, and nothing ties the     *)
(* encoded document to the listed rows.                                    *)
CompactionLosesNothing ==
  IF snaps = {}
    THEN EditsOf(committed) \subseteq EditsOf(rows)
    ELSE \A s \in LatestSnapshots : EditsOf(committed) \subseteq LoadableFrom(s)

(* The replay after a reconnect converges (ws_handler.go:143-145): once a  *)
(* connection has queried its history, every stored update is in the tab   *)
(* or on its way. The cursor is the highest id received, which says        *)
(* nothing of the ids below it.                                            *)
ReconnectConverges ==
  \A c \in Client : \A k \in Conn :
    conn[c] = k /\ sock[k] = "open" /\ handler[k] \in Serving =>
      \A r \in rows : r.edit \in doc[c] \/ r \in OnItsWay(c, k)

(* The document as its users see it: the detailed specification implements *)
(* SharedDocument.                                                         *)
Shared == INSTANCE SharedDocument WITH typed <- 1 .. edits, durable <- Durable, copy <- doc
ImplementsSharedDocument == Shared!DocSpec

-----------------------------------------------------------------------------
(* Liveness.                                                               *)

(* With no failure and no compaction every edit reaches every tab, the     *)
(* ones that open the document later included.                             *)
EveryEditReachesEveryTab ==
  \A e \in 1 .. MaxEdits : \A c \in Client : (edits >= e) ~> (e \in doc[c])
=============================================================================
