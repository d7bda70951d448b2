# Palimpsesto: a verification development

Palimpsesto is an end-to-end encrypted collaborative editor. A Go server stores and relays ciphertext; a React
application holds the keys, and a Yjs document per open tab. This directory specifies its protocols in TLA+, model-checks
them with TLC on small instances, and proves theorems about them with TLAPS. Paths below are relative to the repository.

- [1. The system](#1-the-system): its parts, their state, how they interact, what is hard, what makes them correct
- [2. The modules](#2-the-modules): which module models which part, and how
- [3. The runs](#3-the-runs): what each run checks and shows, bounds, fairness
- [4. The proofs](#4-the-proofs): what is proved, from what, and how
- [5. Disagreements found](#5-disagreements-found)
- [6. What is not covered](#6-what-is-not-covered)
- [7. Plan](#7-plan)

Server paths are abbreviated: `cmd/` is `src/server/internal/application/document/commands/`, `pg/` is
`src/server/internal/infrastructure/persistence/postgres/`, `rt/` is `src/server/internal/infrastructure/realtime/`,
`web/` is `src/web/src/`, `ws_handler.go` is in `src/server/internal/interfaces/http/handlers/`.

## 1. The system

### Parts and interactions

A tab opens a document page: it fetches its wrapped document key (DEK) and unwraps it with the identity key, loads a
*seed* (the latest snapshot), builds a Yjs document and a `DocProvider`, and opens a websocket with a cursor, the id of
the last update it has. The server's handler of that websocket authenticates, acquires a connection slot, joins the
document's room, replays the log past the cursor, sends the list of others present, and enters a read loop: each update
frame is stored (`doc_updates`, a `BIGSERIAL` id) and then broadcast to the room. Every client has a bounded send channel
drained by a write pump; a client whose channel is full is evicted. Tabs compact the log: they list it, encode their
document, and post a snapshot that lets the server prune. Members come by invitation or by a shared link, and go by
leaving or by being removed, which rotates the DEK; the hub then evicts the removed user's connections.

| Part | State | Operations | Talks to |
|---|---|---|---|
| Update log (`pg/document_update_repository.go`, `pg/document_snapshot_repository.go`) | rows (id, ciphertext), snapshots (up to id, content), the id sequence | append, list since, list, compact, latest snapshot | handlers, by SQL |
| Document provider (`web/realtime/provider.ts`, `documentConnection.ts`, `web/hooks/useDocumentConnection.ts`) | phase and socket, cursor, Y.Doc, decrypt queue, pending edits | connect, open, close, local edit, frame, apply, reconnect, tear down | websocket handler, snapshots |
| Client snapshots (`web/realtime/snapshotChecks.ts`) | a timer, one call under way | list, encode and post | HTTP handlers, the Y.Doc |
| Websocket handler (`ws_handler.go`) | where the handler is, history left to replay, the update in hand | authenticate, accept, join, replay, send joined, read, reject, unwind | hub, log, limiter |
| Hub, rooms, pumps, limiter (`rt/`) | document → room map, clients of a room, send channels, slots per user | join, leave, broadcast, evict, acquire, release | handlers |
| Membership, invitations, keys (`pg/document_repository.go`, `pg/invite*_repository.go`, `cmd/`, `web/crypto/documentDek.ts`, `web/hooks/useShareMembers.ts`) | epoch, members with wrap and label, archived wraps, invites, the link, deleted flag; keys in tabs | invite, accept, decline, cancel, join by link, leave, remove and rotate, wrap for a pending member, delete, restore | tabs, hub (eviction) |
| User channel and invites (`ws_user_handler.go`, `web/realtime/userChannel.ts`, `web/hooks/useInvites.ts`) | the channel and its backoff, the list of invites, requests numbered by `requestSeqRef` | connect, nudge, fetch, accept, decline | HTTP handlers |
| Presence (`web/realtime/presenceTracking.ts`, `provider.ts`, `useDocumentConnection.ts`) | who a tab believes present or away, the mount of the page | joined, member_joined, member_left, awareness, mount, unmount | hub |
| Sessions (`user/commands/refresh.go`, `login.go`, `logout.go`, `web/api/http.ts`) | families of refresh tokens, a cookie per browser, a tab's access token | login, refresh with reuse detection, logout, revoke | tabs |
| Password and identity (`change_password.go`, `web/auth/actions.ts`, `web/crypto/identity*.ts`) | login key and salt, published and wrapped keys, a cache per browser | register, log in, recover, change password, unlock | sessions |
| Auto-lock (`web/hooks/useAutoLock*.ts`, `LockScreen.tsx`) | the preference, an idle timer, the lock screen | activity, renewal, lock, unlock | sessions, identity |
| Known keys (`web/crypto/knownKeys.ts`, `authorKeys.ts`, `web/hooks/useKeyConflicts.ts`, `useShareMembers.ts`) | trusted key per user, warnings, a cache of authors' keys | look up, trust on first use, warn, accept, retry, seal | sharing |
| Cipher (`web/crypto/documentCipher.ts`, `documentDek.ts`, `sealedBox.ts`) | the ring of keys a tab fetched | seal, sign, bind, open with any key of the ring | sharing, provider |
| Document page (`web/pages/DocumentPage.tsx`, `web/hooks/useDocumentKeyRing.ts`, `useDocumentMeta.ts`) | the route, what is shown of the document, key, caches of keys, editor | navigate, fetch, rename, comment, rotate | cipher, provider |
| History (`web/realtime/restore.ts`, `web/hooks/useHistory*.ts`, `web/lib/yjsHistory.ts`) | the updates and snapshot read, a selected version, playback, a restore | list, select, play, restore | log |
| Vault (`web/hooks/useVaultDocuments.ts`, `useArchivedDocuments.ts`, `web/lib/documentListActions.ts`) | two lists, requests under way, dialogs, undo | create, rename, delete, undo, restore | HTTP handlers |
| Find bar and overlays (`web/hooks/useFindInEditor.ts`, `web/components/Modal.tsx`, `web/lib/floatingLayers.ts`) | query, match, highlights; the stack of layers, fades | type, next, previous; open, close, Escape | - |
| Rate limiter, folders, rendering | token buckets; rows; markup | - | - |

### What is hard, and what must hold

- **Log and tabs.** Everything crosses a connection that may die at any moment; frames are received, decrypted and applied
  in three steps; the history is read after the room is joined, so an update can arrive twice but must not be missed; ids
  are drawn before rows commit; three requests make a compaction. *Must hold:* nothing stored is forgotten on an open
  connection, nothing is stored twice, nobody sees what is not durable, a compaction loses nothing, a reconnect converges,
  every edit reaches every tab.
- **Hub.** Many mutexes, each held briefly; a handler keeps a `*Room` between two of them; the write pump, the read loop
  and an eviction race to end a connection. *Must hold:* slots are paired with handlers, no room is leaked, a client is in
  the room that broadcasts go to, an evicted or lost connection unwinds.
- **Sharing.** Handlers check in one statement and act in another; a rotation invalidates what tabs and invitations hold;
  members leave and come back. *Must hold:* the owner can open everything, rotations never collide nor leave anyone
  behind, a row's wrap opens the epoch of its label.
- **Presence.** The snapshot of who is there races the notices of who comes and goes; users have several tabs. *Must hold:*
  once all is quiet, each tab's list is the room.
- **Sessions.** A refresh is a read and two writes; tabs share a cookie; answers get lost. *Must hold:* a browser that hears
  its answers is not taken for a thief and keeps a cookie that works; no call waits for ever for a refresh.
- **Identity.** Registration, recovery and a password change are several requests each, on several browsers. *Must hold:* the
  account's password opens its keys, there is one identity, and no browser caches another.
- **Known keys.** Lookups, warnings, retries and the page's own reconciliation overlap. *Must hold:* nothing is sealed to a
  key nobody accepted; one rotation at a time.
- **Pages.** React effects are overtaken by later routes, keys and answers; requests are answered in any order. *Must hold:*
  the page edits the document of its route with its current key, lists converge, what the find bar, the version list and
  the presence bar show is true once nothing is on its way, and a dialog closes only for whom the user meant it.

PROJECT.json lists each hazard with the line where it bites and the property that covers it.

## 2. The modules

| Module | Models | Extends / instantiates |
|---|---|---|
| `UpdateLog` | the log, its ids, compaction | - |
| `SharedDocument` | abstract: what tabs and a store promise each other | - |
| `DocumentSync` | tabs, websocket handlers and the log together | `UpdateLog`; `SharedDocument` by a refinement mapping |
| `RoomHub` | the hub at the grain of its mutexes | - |
| `Sharing` | members, keys, rotation, invitations, the link | - |
| `Sessions` | refresh tokens, cookies, access tokens, the calls that wait for a refresh | - |
| `Identity` | registration, login and recovery, password change, unlock | - |
| `AutoLock` | the idle lock | - |
| `KeyTrust` | known keys, warnings, the flows that seal a document's key | - |
| `DocumentPage` | a page whose route, key and answers overtake each other | - |
| `History` | versions, playback, restore over a growing and compacted log | - |
| `Vault` | the two lists of documents and the actions on one | - |
| `Presence` | mounts, membership frames, awareness | - |
| `Invites` | the list of invites and the notification channel | - |
| `FindInEditor` | the find bar | - |
| `VersionDeltas` | sessions of edits, +/- numbers and changed ranges | - |
| `DocumentCipher` | what is sealed, bound and signed, and what a ring opens | - |
| `Overlays` | layers, fades, Escape and shortcuts | - |
| `MCDocumentSync`, `MCRoomHub`, `MCSharing` | instances of these specifications for TLC | the module named |
| `MCWebClient` | instances of seven components of the browser client | `Sessions` to `Vault` |
| `MCWebPage` | instances of six more | `Presence` to `Overlays` |
| `DocumentSync_proofs`, `RoomHub_proofs`, `Sharing_proofs` | theorems | the module named |
| `Account_proofs`, `DocumentPage_proofs`, `Vault_proofs` | theorems | `Sessions` and `Identity`; `DocumentPage` and `History`; `Vault` and `AutoLock` |
| `WebClient_proofs` | theorems about `KeyTrust`, and about the client as a whole | `MCWebClient` and the three above |
| `WebPage_proofs` | theorems about the six components of a page | `MCWebPage` |

### UpdateLog and DocumentSync

An edit is a number, in the order of typing. An update is an edit with the id of its row. An append is two steps: the
`INSERT` draws an id (`AllocateId`), and commits later (`CommitRow`); ids may therefore become visible out of order.
`CreateSnapshot` stores the snapshot and prunes the rows it claims, one transaction. A Y.Doc is the set of edits
integrated in it: Yjs merges commute and are idempotent, so the order and number of deliveries do not matter to it.

Per tab, `phase`, `conn`, `cursor`, `doc`, `queue` (`decryptQueue`), `pending` (`pendingBeforeOpen`), `timerOn` and `task`
(the `maybeCreateSnapshot` call under way) are the fields of `DocProvider` and of the connection effect. Per connection,
`since`, `up` and `down` (what is on its way in either direction, the send channel included), `sock`, and the handler's
progress in `handler`, `replay` and `cur`. The actions are the browser's callbacks (`HandleOpen`, `HandleClose`,
`ReceiveFrame`, `ApplyUpdate`, the timer), the user (`Type`, `Reload`), the network (`Drop`) and the steps of
`WebSocket()` between two awaits (`Join`, `QueryHistory`, `ReplayNext`, `StartReading`, `BeginAppend`, `CommitAppend`,
`Broadcast`, `Unwind`). Failures are a set: a run chooses which of `"drop"`, `"refuse"`, `"reject"`, `"discard"`,
`"reload"`, `"seedFails"`, `"replayFails"` and `"postFails"` may happen, and how many in all.

`SharedDocument` says less: edits are typed, become durable and reach tabs, and what a tab shows was typed in it since it
loaded, or is durable. `DocumentSync` implements it under a refinement mapping from rows, frames and documents to those
three sets (`ImplementsSharedDocument`).

Abstractions: the room is one set of connections (`RoomHub` shows where that fails, see below); encryption is exact (a
frame that does not open is `DiscardUpdate`); one `maybeCreateSnapshot` call of a tab at a time; a call past its listing
survives a reload only as a posted one, because a destroyed document no longer changes; SQL transactions are atomic.

### RoomHub

One document, and rooms as objects: the registry points to one of them, and a handler may hold another. An action is what
a goroutine does under one lock (`GetOrCreate`, `JoinRoom`, `BroadcastIn`, `LeaveRoom`, `DropIfEmpty`, `EvictUser`, the
limiter's `Acquire` and `Release`) or one channel operation (`ReplayNext`, `SendJoined`, the pump's steps). Frames are
counted, not told apart. `RemoveMember` is the HTTP handler that commits the removal and then evicts in three lock
sections. Room objects nobody refers to are reused, so that four are enough for three connections. `DropIfEmpty` asks the room
its caller holds whether it is empty, and deletes the document's entry whatever room that is by now; the history variable
`raced` remembers whether it so deleted a room that was not the caller's or that a newcomer was about to join, and nothing
else reads it but the property `ServedInTheRoom`.

### Sharing

One document. A DEK is named by the epoch it was generated for, so a wrap with a label opens what it claims exactly when
the two are equal. `epoch`, `members`, `wrap`, `label`, `archive`, `invites`, `link` and `deleted` are columns and tables;
`key` is the `documentKey` of each tab; `req` the request a tab has under way, with what its handler has read so far. A
handler is one action per statement or transaction: `FindInvite` / `SelectEpoch` / `AcceptInvite` / `DeleteInvite` is
`accept_invite.go`, `ListMembers` / `CheckRemoval` / `RemoveMember` a removal from the dialog to the rotation. The
`INSERT ... SELECT` of `AddMember` is two steps, because the `SELECT` takes no lock on the document's row: an insert that
waits, on its foreign key, for a rotation to commit adds a row of the epoch it has already read. Any request may end
between two statements (`Abandon`): its context is the connection's.

Abstractions: roles other than owner do not matter to keys; the list a tab has of pending members may be stale, which
`SetMemberWrappedDEK`'s own check makes harmless; `fetchKeyRing`'s two requests are one (`DocumentCipher` has both); the
key-change warnings are `KeyTrust`'s; the `POST /members` route, which the web client does not call, is left out; the model
starts when the owner has sealed the first DEK (`Vault` has what comes before).

### The browser client

These modules share no state. Each models one part of the page with the server or the browser around it reduced to what
that part can observe, so that all their actions are callbacks, user events, or steps of a request.

- **Sessions.** A refresh token is a number, a family is named by its first token. `FindByRefreshHash`, `RevokeFamily`,
  `Revoke` and `Rotate` are `refresh.go` one statement at a time; an answer sets the cookie as it arrives (`SetCookie`)
  whether or not its tab still waits. `apiFetch` is `Fetch`, `Unauthorized` and `Settle`: calls that get a 401 wait for one
  shared refresh (`RefreshOnce`) and run again once.
- **Identity.** A key derived from a password is that password's number, or 0 when another was typed. `register`, `login`,
  `changePassword` and `verifyPassword` are flows whose steps are named for the request they await; any flow may stop
  between two of them, and several run at once on several browsers.
- **AutoLock.** Time passes in lifetimes of an access token, because what restarts the timer is either the user or a new
  session object. Two history variables remember how long the user was away and what disturbed the timer.
- **KeyTrust.** A task is one asynchronous flow (an invitation, a removal with its rotation, a grant, the page's
  reconciliation, the resolver of authors). Its lookups answer with any key that was current meanwhile. `known` is
  localStorage, `keyChange`, `removeKeyChange` and `keyConflicts` are the three places a warning is kept.
- **DocumentPage.** The page is not mounted anew when its route changes. Effects, cleanups and the render after them are
  one step; the answers of `fetchDocument`, the comments, the keys and the seed are steps of their own, at any later time.
- **History.** The text of version v is what updates 1 to v typed. `ListUpdates` and `LoadSnapshot` read the log at
  different times, with compactions in between; the restore has a connection of its own.
- **Vault.** One document stands for the others. A write executes on the server at one time and is answered at another.
- **Presence.** The server's handler of a connection joins, announces, reads who is there, sends the list: separate steps.
  A provider exists only once the identity and the seed were loaded, and its mount may be gone by then.
- **Invites**, **FindInEditor**, **Overlays** follow the hooks and components they are named for; Escape is heard by one
  listener after the other, with React's cleanup before or after each.
- **VersionDeltas** and **DocumentCipher** are mostly operators: sessions of updates, common prefixes and suffixes, changed
  ranges; associated data, signatures, key rings. Their few actions produce every log, and every set of sealed items and
  rings, within the bounds, and their invariants compare the operators with a definition of what they are for.

## 3. The runs

Bounds are constants of the modules; each is named where it is declared.

| Run | Question | Instance | States |
|---|---|---|---|
| `sync_safety` | Through failures, is every stored update delivered or on its way, stored once, durable before a peer shows it, and does all this implement `SharedDocument`? | 2 tabs, 3 connections, 2 edits, 1 failure of 6 kinds, 1 compaction, send buffer 1 | 0.6 M |
| `sync_solo` | Can a lone editor compact, and fail to, without losing a stored edit, though its own updates are discarded when they come back or its history is not read? | 1 tab, 2 connections, 2 edits, 2 compactions, 2 failures of 4 kinds | 119 k |
| `sync_live` | Does every edit reach every tab, later ones included? | 2 tabs, 2 connections, 2 edits, fairness, no failure | 3.6 k |
| `sync_v_compaction` | Does a compaction by one of two tabs lose nothing? (No.) | 2 tabs, 1 edit, no failure | violation |
| `sync_v_gap` | Does a reconnect converge? (No.) | 2 tabs, 3 connections, 2 edits, 1 drop | violation |
| `hub_lifecycle` | Are slots paired with handlers, is the room map empty at rest, and is who is served in the room of the map? | 3 connections of 2 users, 4 rooms, one removal, any number of lost peers | 4.7 M |
| `hub_unwind` | Does every evicted or lost connection return and give back its slot, if the history fits the send channel? | 2 connections, 1 update, fairness | 178 k |
| `sharing_keys` | Does the owner keep every key, do rotations never collide, does a rotation reach every member? | 3 users with a tab each, 2 requests under way at once, 1 rotation | 2.8 M |
| `sharing_v_label` | Does a wrap open the epoch its row claims? (Not always.) | the same | violation |
| `web_client` | Do sessions, identity, lock, trusted keys, the page, history and vault keep their promises under late answers and partial failures? | 2 tabs of a device or 2 browsers; 2 calls, tokens, flows, passwords, identities, keys, documents, epochs; 3 updates; 3 actions | 1.6 M |
| `web_page` | Do presence, invites, the find bar, the version list, key rings and overlays show and do what they should? | 2 tabs with 3 connections; 2 invites with 3 requests; texts of 4 letters; logs of 3 updates; 3 epochs with 2 items; 2 fades | 0.86 M |
| `history_v_restore` | Does a restore make the version's text the current one? (Not on a compacted log.) | 3 updates | violation |

`sync_safety` has the faults that leave `DeliveryComplete` something to say: a frame that does not open (`"discard"`) and a
history query that fails (`"replayFails"`) excuse it; they are among the faults of
`sync_solo`, and of the theorems, which hold for every set of faults. Its
state constraint `OneConnSpared` lets two tabs use all three connections when there is a failure or a compaction, and two
of them when there are both, because both at once on three connections take too long; that too is left to the theorems.

`MCWebClient` and `MCWebPage` put components side by side that share no state: the initial state picks one of them, in
`part`, and only its actions are taken. Their interleavings would say no more than each component alone.
The state constraint `LeavesWithOneSpared` of `web_page` gives two tabs all three connections while both stay, and two once
one of them has left its page; the theorems about `Presence` have no such bound.

**Why the bounds are enough.** Two tabs are the least that make a sender and a receiver, or a compacting tab and a peer;
three connections let one of them reconnect while the handler of its old socket is still at work; two edits make two ids
that can commit out of order; a send buffer of one makes eviction happen at once; one failure at a time keeps the runs
small and is enough for each of the failures, which the proofs then cover in any number and combination. Three connections
of two users make a newcomer, a leaver and a bystander, with two connections under the same limit of two. In `Sharing`,
three users make a member to remove, one who stays and an owner, and two requests under way make any pair of handlers race;
more rotations are covered by the theorems. In the client two of each kind are what it takes to have an old and a new one,
of a key, a token, a route, a password or an answer; three list requests let an answer be overtaken twice; a text of four
letters holds overlapping and adjacent occurrences of a query of two; three updates make a session, a gap and a compacted
prefix. No symmetry is used where a run checks liveness.

**Deadlock** is not checked: once the edits, connections or epochs of an instance are used up, nothing more has to happen.
Waiting for ever is what `EveryEditReachesEveryTab` and `GoneIsReleased` are about.

**Fairness.** `DocumentSync!FairSpec` assumes weak fairness of what runs by itself: a tab's connection callbacks, the
delivery of frames and the decrypt queue (the browser's event loop), and each server handler's next step (a goroutine).
Nobody has to type, compact, reload or fail. `RoomHub!FairSpec` assumes weak fairness of each handler, each write pump and
the eviction in progress; nobody has to write, go away or be removed.

**What the properties say.**

- `DeliveryComplete`: on an open connection whose history was read, every row past the cursor it was opened with is in the tab, in a queue
  towards it, or in the hands of a handler that will broadcast it. It is the reason why `WebSocket()` joins the room before
  `replayHistory` reads the log.
- `EachEditStoredOnce`: flushes, reconnects and handlers of dead sockets never store an edit twice.
- `DurableBeforeSeen`: a tab shows what it typed since it loaded, and what is durable.
- `CompactionLosesNothing`: what was stored can be loaded again from the latest snapshot and the rows after it.
- `SlotsPaired`, `NoRoomAtRest`, `GoneIsReleased`: the hub's part, as above.
- `ServedInTheRoom`: a connection that is served is in some room until it is closed, so an eviction that takes it out also
  closes it and its handler comes back (by `GoneIsReleased`); and that room is the one broadcasts, evictions and later joins
  go to, unless one of the two races of `DropIfEmpty` happened. Both excuses are needed: without either, TLC finds a
  violation.
- `OwnerHoldsEveryKey`, `ArchiveNeverCollides`, `NobodyLeftBehind`, `WrapOpensItsEpoch`: sharing's part, as above.
- `QuietCookieOpens`, `HonestRefreshIsNoTheft`, `NoCallIsStranded`: a browser that missed no answer, and whose tabs' refreshes
  did not cross, is not left with a retired token beside a live one; a reuse is not detected for tabs that refresh one at a
  time; a waiting call has a refresh to wait for. Two tabs that refresh at once *are* taken for a thief, and may be left
  with the retired one of two new tokens: they are excused, and listed below.
- `VaultOpens`, `CachesAgree`, `OneIdentity`: the password opens the wrapped keys of the published identity, caches hold no
  other, and it does not change, unless a flow was cut between its two halves or crossed another.
- `LocksUnlessDisturbed`: an untouched app is locked after the idle time, if nothing disturbed the timer.
- `KeysUsedWereAccepted`: a key is sealed to only if it was met first or accepted in a warning.
- `EditorFollowsRoute`, `KeyIsCurrent`, `PageShowsItsDocument`: key, editor and content are those of the route.
- `RestoresVersion`, `RestoredTextIsCurrent`: what a restore leaves, of a whole log and of a compacted one.
- `VaultConverges`, `InvitesConverge`, `PresenceConverges`: once nothing is on its way, a list is what the server has. The
  excuses are named in the properties and are all reachable: each is a way the code lets a list stay behind.
- `ReappearsAtOnce`, `NoProviderOutlivesMount`: a tab that reconnects is seen with its status without waiting for a renewal; a
  page left while it loads leaves no provider.
- `FindTellsTheTruth`, `DeltasTellTheStory`, `RingOpensItsEpochs`: operators against their definitions, in every state of the
  text, the log, and the keys.
- `ClosesOnlyWhenAsked`, `NothingIsStacked`: Escape, clicks, fades and shortcuts close and open what they were meant for.

## 4. The proofs

Every theorem holds for all values of the constants that satisfy the named assumptions of its module
(`NoConnAssumption`, `FaultsAssumption`, `BoundsAssumption`, `HubAssumption`, `SharingAssumption`, `DocumentCipherAssumption`,
`SessionsAssumption`, `IdentityAssumption`, `KeyTrustAssumption`, `DocumentPageAssumption`, `HistoryAssumption`, `VaultAssumption`,
`AutoLockAssumption`, `PresenceAssumption`, `InvitesAssumption`, `FindAssumption`, `VersionDeltasAssumption`,
`OverlaysAssumption`: typed constants, positive limits, "none" values outside the
sets they stand beside, and finite sets for the hub, the token families and the persons whose keys are known). One theorem says it of a lone editor and has
that as its hypothesis: `OneTab`, a single tab that is not reloaded.

| Theorem | Module | States | Argument |
|---|---|---|---|
| `TypeCorrect` | `DocumentSync_proofs` | `TypeOK` | inductive as it stands |
| `PersistBeforeBroadcast` | `DocumentSync_proofs` | `DurableBeforeSeen` | every frame, queue, replay and broadcast in hand carries committed rows; `committed` only grows |
| `JoinBeforeReplay` | `DocumentSync_proofs` | `DeliveryComplete` | `ConnInv`: a connection belongs to one tab, and serves from inside the room unless evicted; `OwnInv`: what a tab's socket carries to the server is in its own document, so that the broadcast may skip its sender |
| `LoneEditorLosesNothing` | `DocumentSync_proofs` | `CompactionLosesNothing`, under `OneTab` | `SoloInv`: a lone tab holds every edit typed, so a snapshot covers every id drawn when it is encoded, the inserts that have yet to commit included; what is pruned, some snapshot covers |
| `HubTypeCorrect` | `RoomHub_proofs` | `TypeOK` | with `SlotsPaired`, without which a counter could fall below zero |
| `SlotsArePaired` | `RoomHub_proofs` | `SlotsPaired` | cardinality of the handlers charged to a user, one entry or exit at a time |
| `EmptyAtRest` | `RoomHub_proofs` | `NoRoomAtRest` | `RoomKept`: a room in the map has a keeper, a handler that has yet to try to drop it, and all its clients are handlers that have not left it |
| `ServedTogether` | `RoomHub_proofs` | `ServedInTheRoom` | `ServedIsIn`: whoever is served and not closed is in a room; `OneRoom`: until a drop races, every client of any room, and every newcomer about to join, has the room of the map |
| `SharingTypeCorrect` | `Sharing_proofs` | `TypeOK` | with `Kept` |
| `OwnerKeyRing` | `Sharing_proofs` | `OwnerHoldsEveryKey` | `Kept`: the owner's row is always of the current epoch, his archive has every earlier one, and no request under way is about to write his row |
| `NoCollision` | `Sharing_proofs` | `ArchiveNeverCollides` | `Kept`: the archive holds past epochs only |
| `RotationIsComplete` | `Sharing_proofs` | `NobodyLeftBehind` | only `RemoveMember` changes the epoch, and it compares the wraps with the members under its lock |
| `StoredOnce` | `DocumentSync_proofs` | `EachEditStoredOnce` | `Apart`: an edit that is not stored is in one place at a time: the pending edits of its tab, one frame, or the hands of one handler |
| `Refines` | `DocumentSync_proofs` | `ImplementsSharedDocument` | `Known`: no row, frame, queue or document has an edit nobody typed; with `DurableBeforeSeen`'s invariant every step is a step of `SharedDocument` or a stutter |
| `RingsOpenWhatTheyHold` | `WebPage_proofs` | `RingOpensItsEpochs` | `RingInv`: the server has a wrap of every epoch since a member joined, a ring is a run of those epochs with a current key in front, an item was sealed with the key of its epoch; and the lemmas that associated data of two documents, or of two authors, differ although a field may hold the separator's byte |
| `SessionsTypes`, `NobodyIsStranded` | `Account_proofs` | types, `NoCallIsStranded` | `SessionsInvariant`: a waiting call belongs to a page with a refresh under way |
| `HonestIsNoThief` | `Account_proofs` | `HonestRefreshIsNoTheft` | what an undisturbed browser's cookie names is the newest of its family, or its only refresh is about to replace it |
| `QuietCookie` | `Account_proofs` | `QuietCookieOpens` | a family's live token is its newest, and is in the cookie or in the answer on its way to it |
| `VaultStaysOpen`, `CachesStayTrue`, `IdentityIsOne` | `Account_proofs` | `VaultOpens`, `CachesAgree`, `OneIdentity` | `IdentityInvariant`: what each flow holds between two requests is of the identity and password of now, unless it was cut or crossed |
| `SealedToAccepted` | `WebClient_proofs` | `KeysUsedWereAccepted` | types of the tasks and warnings; trusted, cached and sealed keys are accepted ones, and stay so |
| `RotatesOnce` | `WebClient_proofs` | `OneRotationAtATime` | in the same invariant: a removal, and its retry, begin only when none is under way |
| `EditsItsOwnDocument` | `DocumentPage_proofs` | `EditorFollowsRoute` | `LiveTasks`, `LiveAttempts`: what is under way and not cancelled was begun for the route and the key of now |
| `WritesWithCurrentKey` | `DocumentPage_proofs` | `KeyIsCurrent` | `CachesCurrent`, `TasksCurrent`: the caches, and what fetches on their way will put into them, are of the current epoch |
| `ShowsItsDocument` | `DocumentPage_proofs` | `PageShowsItsDocument` | `MetaInv`: what the page shows is of its route, or a request for it is on its way |
| `RestoresTheVersion` | `DocumentPage_proofs` | `RestoresVersion` | `HistoryInv`: page and restore have read a prefix of the log, and the restore deletes what it has read past its version |
| `TitlesAreSealed` | `Vault_proofs` | `TitledIsSealed` | a creation titles its document only after the key was stored; every other write is of a document the list has |
| `ShowsNewestArchived` | `Vault_proofs` | `ArchivedIsNewest` | sequence numbers: what is shown was read by the newest request, or that request is on its way |
| `ListSettles` | `Vault_proofs` | `VaultConverges` | `RowInv`: unless excused, the row is the server's, or a write owes a list, or a list that will show it is asked for or was found |
| `AutoLockTypeCorrect`, `IdleIsLocked`, `NoStrayLock`, `LockHolds` | `Vault_proofs` | `AutoLockTypeOK`, `LocksUnlessDisturbed`, `NoLockWithoutSession`, `OnlyPasswordUnlocks` | the timer and the time since the last touch add up to `IdleTicks` until the lock |
| `LeavesNoProvider` | `WebPage_proofs` | `NoProviderOutlivesMount` | `LinkInv`: sockets, handlers and mounts belong together |
| `ShownAtOnce` | `WebPage_proofs` | `ReappearsAtOnce` | `AwareInv`: what a tab was told of another, or the last frame on its way about it, is the other's status |
| `ShowsWhoIsThere` | `WebPage_proofs` | `PresenceConverges` | `Certain`: the last frame on its way that speaks of a user settles what the tab will show, and it is right; if there is none, the tab is right already |
| `ListIsLive` | `WebPage_proofs` | `InvitesConverge` | `InvitesInv`: unless outdated, the newest list asked for will find, or found, or showed what is pending |
| `FindsTheTruth` | `WebPage_proofs` | `FindTellsTheTruth` | `FindInv`: the bar's numbers are those of the text it last looked in, the highlights those of the text of now; matches taken in turn from the left are the leftmost ones, by induction over positions |
| `TellsTheStory` | `WebPage_proofs` | `DeltasTellTheStory` | `LogInv`, and induction over the listed updates: the sessions partition them; a change is what is between the common prefix and the common suffix, so the lengths add up |
| `OneAtATime` | `WebPage_proofs` | `NothingIsStacked` | `OverInv`: what is shown is in the stack, once, so that a shortcut that finds the stack empty opens beside nothing; the dialog may come back beside the others only with its key |
| `ClosesWhatWasMeant` | `WebPage_proofs` | `ClosesOnlyWhenAsked` | `OverInv`: the layers an Escape has yet to reach are the top of the stack, so that only the last of them finds itself on top |
| `DocumentPageTypes`, `HistoryTypes` | `DocumentPage_proofs` | `DocumentPageTypeOK`, `HistoryTypeOK` | `SnapshotInLog`, `RestoreTyped`: the snapshot covers what was deleted and ends within the log, and the page says it restores exactly while a restore is between its phases |
| `VaultTypes` | `Vault_proofs` | `VaultTypeOK` | `Budget`: requests, writes and toasts under way each go back to an action of the user, so that the bound on actions bounds them all |
| `KeyTrustTypes` | `WebClient_proofs` | `KeyTrustTypeOK` | `OneConflictEach`: a dialog lists a person once, so by the pigeonhole its conflicts are no more than the persons |
| `ClientTypes` | `WebClient_proofs` | `ClientTypeOK` | the types of the seven components; a step of the client is a step of one of them and a stutter of the others (`ClientMoves`) |
| `PresenceTypes` | `WebPage_proofs` | `PresenceTypeOK` | `ClocksCounted`: a tab's clock is at most its events and the turns its mount has left |
| `InvitesTypes` | `WebPage_proofs` | `InvitesTypeOK` | `AnswersCounted`: the answers under way, numbered by invite and stage, are a set of the size `AllUnderWay` counts, kept below its bound by the one action that adds to it |
| `OverlaysTypes` | `WebPage_proofs` | `OverlaysTypeOK` | `OverTyped`: a dialog that fades has a timer of its own among those running, and no menu is closed before the last listener has heard Escape |
| `FindTypes`, `LogTypes`, `CipherTypes` | `WebPage_proofs` | `FindTypeOK`, `VersionDeltasTypeOK`, `DocumentCipherTypeOK` | a match starts before the end of its text, so matches are no more than letters; the n-th update is at most n gaps late; the third from `RingInv` |
| `PageTypes` | `WebPage_proofs` | `PageTypeOK` | the six above, put together as `ClientTypes` is (`PageMoves`) |

`OneRotationAtATime`, `TitledIsSealed`, `ArchivedIsNewest`, `NoLockWithoutSession` and `OnlyPasswordUnlocks` are proved and not part
of a run; the types of a browser component are checked as conjuncts of `ClientTypeOK` and `PageTypeOK`.

Hardly any of the properties is inductive: a state that satisfies it may be one step from one that does not, with a frame of
an uncommitted row in a queue, a request about to overwrite the owner's wrap, an answer that names a retired token. The
strengthenings exclude those states: each says what is on its way, in terms of what will be true when it arrives. The
convergence theorems (`ListSettles`, `ShowsWhoIsThere`, `ListIsLive`) are all of that form: the promise "once nothing is on its
way, what is shown is true" follows from "what is shown is true, or the last thing on its way will make it so".

Two of the proofs corrected the project. `QuietCookieOpens` turned out not to be inductive for a reason: two crossing
refreshes of a browser, with a logout's revocation between their rotations, leave one of their two tokens retired and the
other live, and the cookie may end up with the retired one. That takes three requests under way and three tokens, more than
the run has; the property now excuses it and section 5 lists it. And `Presence` needed its assumption to say that the connection
nobody has is not a tab.

Every safety property and every action property of the passing runs is a theorem, for the model's constants of any size. Most
of the types are not inductive either: that a counter stays in its range is a fact about everything that may yet count it
up, and so needs the set of what is on its way, and its cardinality. Induction over numbers, for positions in a text or a log, is had from the least element of a set of
numbers (`LeastOne`, from the library's `WFMin`), because the library's own induction theorem takes an operator, which
the provers cannot instantiate. `Overlays` writes its filter of the stack out (`Kept`), as the prover does not unfold
`SelectSeq`.

Model-checked only: liveness (`EveryEditReachesEveryTab`, `GoneIsReleased`), which is beyond the prover, as is
`ENABLED`; and the runs that expect a violation, which are counterexamples.

## 5. Disagreements found

Four are runs that end in a counterexample, with the line of the repository that says otherwise quoted in PROJECT.json.

1. **A compaction can lose an edit** (`sync_v_compaction`, `web/realtime/snapshotChecks.ts:46`). A tab lists the log, whose
   last row a peer has just stored, encodes its document before that row's frame is decrypted, and posts. The server prunes
   the row; it is in no snapshot.
2. **A reconnect can skip an update** (`sync_v_gap`, `web/realtime/provider.ts:383`). Two inserts commit in the opposite
   order of their ids. A tab that got the higher one and reconnects asks for what is past it.
3. **A row can claim the new epoch and wrap the old key** (`sharing_v_label`, `cmd/accept_invite.go:49`). The invite's epoch
   is compared before, and outside, the statement that adds the member, with a rotation in between. An invite sent from a
   tab that was not told of a rotation, and a wrap for a pending member that crosses one, end in the same state.
4. **A restore on a compacted log keeps old text** (`history_v_restore`, `web/realtime/restore.ts:98`). The restore's document
   starts empty and replays the rows the server still has, so the text of the snapshot is not there to be deleted, and stays
   beside the restored one.

Others were met while modelling. They are in the models as reachable states, and excused by name in the properties.

5. *The hub* (`RoomHub`). The last leaver drops a room between a newcomer looking it up and joining it
   (`rt/registry.go:48`): the newcomer is served in a room broadcasts do not reach until it reconnects. And a handler that left an older, emptied
   room late deletes the entry of the populated room that has replaced it, because the entry is not compared with the room:
   its members are cut off from whoever joins next. `DocumentSync` and
   `Presence` treat the room as one set, so their results hold as long as neither happens, which is what
   `ServedInTheRoom` says. And a handler waits for ever
   when its peer goes away while the history fills the send channel (`rt/client.go:60`): nobody drains it, and the slot is
   never released.
6. *Sessions.* Two tabs of a browser that refresh at once are taken for a thief; a rotation under way when its family is
   revoked inserts a live row after it, and if another rotation's token was revoked with the family, whichever answer comes
   last decides whether the cookie holds the live token or the retired one; a late `tryRefresh` sets a session after a
   logout; a refused refresh clears the cookie of a newer login.
7. *Identity.* A change cut between the server's new password and the re-wrap (`web/auth/actions.ts:124`) leaves keys only the
   old password opens, and the lock screen then refuses the right one. Two devices that both find no wrapped keys publish
   two identities, and each prefers its cache for ever.
8. *Auto-lock.* A silent refresh restarts the idle timer, and neither the switch nor an unlock starts one, although
   `web/constants.ts:62` promises the lock without exceptions.
9. *Known keys.* A retry invites whatever address the form holds by then (`useShareMembers.ts:103`); a cached author's key is
   used although a newer one has been trusted (`authorKeys.ts:20`); a Confirm during a dialog's fade dismisses the next
   warning.
10. *Document page.* The reload of a failed rename and the answer of a comment are not checked against the route
    (`documentActions.ts:43`, `documentComments.ts:89`); a key fetch on its way fills caches cleared by a rotation; a tab is not
    told of a rotation another one made, and discards the updates of the new epoch (`provider.ts:393`); the share dialog
    is unmounted while the page refetches its key.
11. *Lists.* A refresh of the vault has no sequence number, and a restore from the archive does not ask for the main list
    (`DocumentsPage.tsx:147`); the invite channel does not refetch when it reconnects, and an answer to an invite while an
    older list is on its way shows it again.
12. *Presence.* A joined list read before, and sent after, a notice overwrites it (`ws_handler.go:167`); `member_left` of one of
    several tabs of a user hides the others (`hub.go:64`).
13. *Find bar and overlays.* The count of matches is of the last look (`useFindInEditor.ts:21`), an overlapping next match is
    not highlighted (`findHighlight.ts:51`), "previous" from a match at offset 0 stays there (`editorNavigation.ts:16`). A fade's
    timer outlives its dialog and may close another opened in its place (`Modal.tsx:45`); Ctrl+K closes a palette under a key
    warning (`CommandPalette.tsx:229`); a click outside a menu does not ask whether the menu is on top (`Dropdown.tsx:60`).

## 6. What is not covered

- Within the modelled parts: ping timers, overlapping `maybeCreateSnapshot` calls of one tab, the server process stopping as
  a whole (its effect on tabs is a drop of every socket; its memory is the hub's), expiry of refresh tokens, failures of
  localStorage, mislabelled wraps in `DocumentCipher` (`Sharing` has them), moves and pins of documents, the key rings of list
  rows, where the focus goes, and the layers of pages other than the document's.
- That an edit handed to `ws.send` and lost with the socket is never sent again (`web/realtime/provider.ts:424`) is visible
  in `DocumentSync`; no property promises the contrary. Likewise that a member added while a rotation commits lacks the
  current key until the next one, and that edits still pending when a page is left go with it.
- The client's components are not composed with each other or with the server's: `Presence` has its own sockets, `DocumentPage`
  its own keys. What one assumes of another is said at the head of its module.
- Not modelled at all: cryptographic primitives (computation on bytes; the models take a ciphertext to open exactly with
  its key), the rate limiter (a token bucket under one mutex, whose properties are about real time), folders (single-row
  updates with the vault's request pattern), markup, configuration and wiring, migrations.

## 7. Plan

1. **An abstract hub**, one set of connections, that `RoomHub` implements as long as `ServedInTheRoom`'s races stay away, and that
   `DocumentSync` and `Presence` could both be composed with.
2. **Compositions in the client**: `KeyTrust`'s removal with `DocumentPage`'s rotation and `Sharing`'s, so that what a tab seals
   with after a rotation elsewhere is one model; `Sessions` with `Identity`, whose flows need a session.
3. **`RateLimiter`**: token buckets and their eviction as functions over ticks, with a bound on the requests let through.
4. **Folders and rows**: moves, pins and the key rings of list rows, added to `Vault`.
