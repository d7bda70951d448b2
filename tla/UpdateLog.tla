----------------------------- MODULE UpdateLog -----------------------------
(***************************************************************************)
(* The persisted half of one document: the doc_updates table (an append-   *)
(* only log numbered by a BIGSERIAL), the doc_snapshots table, and the     *)
(* compaction that trades the first for the second.                        *)
(*                                                                         *)
(* An INSERT is two steps here because it is two steps in Postgres: the    *)
(* sequence hands out the id when the statement runs, the row becomes      *)
(* visible when it commits, and two connections can commit in the opposite *)
(* order of their ids.                                                     *)
(*                                                                         *)
(* Payloads are opaque to the server. An update carries one edit, a number *)
(* naming what the user typed; a snapshot carries the set of edits its     *)
(* author's Yjs document held when it was encoded.                         *)
(***************************************************************************)
EXTENDS Naturals, Sequences, Functions

VARIABLES
  rows,      \* visible doc_updates rows
  nextId,    \* next value of the doc_updates id sequence
  snaps,     \* doc_snapshots rows
  committed  \* history: every row that was ever visible, compacted or not

logVars == <<rows, nextId, snaps, committed>>

Update   == [id : Nat, edit : Nat]
Snapshot == [upTo : Nat, edits : SUBSET Nat]

LogTypeOK ==
  /\ rows \in SUBSET Update
  /\ nextId \in Nat \ {0}
  /\ snaps \in SUBSET Snapshot
  /\ committed \in SUBSET Update

LogInit ==
  /\ rows = {}
  /\ nextId = 1
  /\ snaps = {}
  /\ committed = {}

EditsOf(us) == {u.edit : u \in us}

(* What is durable: every edit some visible or compacted row carried, and  *)
(* every edit some snapshot carries.                                       *)
Durable == EditsOf(committed) \cup UNION {s.edits : s \in snaps}

(* AppendUpdate, first half: the statement draws its id.                   *)
AllocateId == nextId' = nextId + 1

(* AppendUpdate, second half: the row becomes visible.                     *)
CommitRow(u) ==
  /\ rows' = rows \cup {u}
  /\ committed' = committed \cup {u}

(* Mutant: the first row past the cursor is skipped.                       *)
RowsPastNext(since) == {r \in rows : r.id > since + 1}

(* ListUpdatesSince: WHERE id > since ORDER BY id, as the set the caller   *)
(* walks from its first row to its last.                                   *)
RowsSince(since) == {r \in rows : r.id > since}
IsFirst(u, us) == u \in us /\ \A v \in us : u.id <= v.id
IsLast(u, us) == u \in us /\ \A v \in us : v.id <= u.id

(* Mutant: the DELETE lost its up_to_update_id condition.                  *)
CreateSnapshotPruningAll(s) ==
  /\ snaps' = snaps \cup {s}
  /\ rows' = {}

(* CreateSnapshot: insert the snapshot and prune what it claims to cover,  *)
(* in one transaction.                                                     *)
CreateSnapshot(s) ==
  /\ snaps' = snaps \cup {s}
  /\ rows' = {r \in rows : r.id > s.upTo}

(* FindLatestSnapshot: ORDER BY up_to_update_id DESC LIMIT 1. Several rows *)
(* can tie; Postgres may return any of them.                               *)
LatestSnapshots == {s \in snaps : \A t \in snaps : t.upTo <= s.upTo}
=============================================================================
