------------------------------ MODULE History ------------------------------
(***************************************************************************)
(* The history of a document: the versions a page reads, the text it       *)
(* replays for the one selected, its playback, and the restore of that     *)
(* text through a connection of its own, while others go on writing and    *)
(* compacting the update log.                                              *)
(*                                                                         *)
(* Updates are numbered as they are stored, and every update is a version  *)
(* of its own; the text of version v is what updates 1 to v typed, and is  *)
(* written v. Yjs applies an update only on top of all those before it.    *)
(* An answer is applied as it is read: what matters is which of the update *)
(* list and the snapshot was read first.                                   *)
(***************************************************************************)
EXTENDS Integers

CONSTANT MaxUpdates  \* bound: updates stored

ASSUME HistoryAssumption == MaxUpdates \in Nat

VARIABLES
  last, pruned, snapshot,  \* the log, the cursor of its latest snapshot, what that holds
  listed,        \* the updates the page read; none: to is 0
  isLoading,
  ringReady, signersReady, \* the key ring, and the authors' signing keys
  seed, seedRead,          \* snapshotPlaintext, as the version it holds
  selectedId, isPlaying,
  isRestoreOpen, isRestoring,
  restore,       \* the restore under way: its connection, and the text given to it
  kept,          \* the updates whose text outlived the restore
  logsCrossed,   \* history: the list and the snapshot are of different logs
  whole,         \* history: the text given to the restore was all there
  askedVersion   \* history: the version selected when the restore was confirmed

logOfHistoryVars == <<last, pruned, snapshot>>
historyReadVars == <<listed, isLoading, ringReady, signersReady, seed, seedRead, logsCrossed>>
historyViewVars == <<selectedId, isPlaying>>
restoreVars == <<isRestoreOpen, isRestoring, restore, kept, whole, askedVersion>>
historyVars == <<logOfHistoryVars, historyReadVars, historyViewVars, restoreVars>>

Version == 0 .. MaxUpdates
Larger(a, b) == IF a > b THEN a ELSE b

HistoryTypeOK ==
  /\ {last, pruned, snapshot, seed, selectedId, askedVersion} \subseteq Version
  /\ pruned <= snapshot /\ snapshot <= last
  /\ listed \in [from : 1 .. MaxUpdates + 1, to : Version]
  /\ selectedId \in {0} \cup listed.from .. listed.to
  /\ {isLoading, ringReady, signersReady, seedRead, isPlaying, isRestoreOpen, isRestoring,
      logsCrossed, whole} \subseteq BOOLEAN
  /\ restore \in [phase : {"none", "identity", "connecting", "settling", "sent", "done"},
                  text : Version, since : Version, full : BOOLEAN]
  /\ isRestoring = (restore.phase \notin {"none", "done"})
  /\ kept \subseteq Version

HistoryInit ==
  /\ last \in Version /\ pruned = 0 /\ snapshot = 0
  /\ listed = [from |-> 1, to |-> 0] /\ isLoading = TRUE
  /\ ringReady = FALSE /\ signersReady = FALSE /\ seed = 0 /\ seedRead = FALSE
  /\ selectedId = 0 /\ isPlaying = FALSE
  /\ isRestoreOpen = FALSE /\ isRestoring = FALSE
  /\ restore = [phase |-> "none", text |-> 0, since |-> 0, full |-> FALSE] /\ kept = {}
  /\ logsCrossed = FALSE /\ whole = FALSE /\ askedVersion = 0

OnPage == restore.phase # "done"
-----------------------------------------------------------------------------
(* Another tab types.                                                      *)
AppendUpdate ==
  /\ last < MaxUpdates /\ last' = last + 1
  /\ UNCHANGED <<pruned, snapshot, historyReadVars, historyViewVars, restoreVars>>

(* Another tab compacts: its snapshot holds at least what it lets the      *)
(* server forget. One that holds more than that is of no single version.   *)
Compact(upTo, holds) ==
  /\ pruned < upTo /\ upTo <= holds /\ holds <= last
  /\ pruned' = upTo /\ snapshot' = holds
  /\ logsCrossed' = (logsCrossed \/ (~isLoading) # seedRead \/ (~seedRead /\ upTo # holds))
  /\ UNCHANGED <<last, listed, isLoading, ringReady, signersReady, seed, seedRead,
                 historyViewVars, restoreVars>>
-----------------------------------------------------------------------------
(* useHistoryUpdates: the last version is selected.                        *)
ListUpdates ==
  /\ isLoading /\ OnPage
  /\ isLoading' = FALSE
  /\ listed' = [from |-> pruned + 1, to |-> IF pruned < last THEN last ELSE 0]
  /\ selectedId' = listed'.to
  /\ UNCHANGED <<logOfHistoryVars, ringReady, signersReady, seed, seedRead, logsCrossed, isPlaying,
                 restoreVars>>

ResolveSigners ==
  /\ ~isLoading /\ ~signersReady /\ OnPage
  /\ signersReady' = TRUE
  /\ UNCHANGED <<logOfHistoryVars, listed, isLoading, ringReady, seed, seedRead, logsCrossed,
                 historyViewVars, restoreVars>>

(* useHistoryKeyRing                                                       *)
LoadKeyRing ==
  /\ ~ringReady /\ OnPage
  /\ ringReady' = TRUE
  /\ UNCHANGED <<logOfHistoryVars, listed, isLoading, signersReady, seed, seedRead, logsCrossed,
                 historyViewVars, restoreVars>>

(* useHistorySnapshot: with the key ring, and never again.                 *)
LoadSnapshot ==
  /\ ringReady /\ ~seedRead /\ OnPage
  /\ seedRead' = TRUE /\ seed' = snapshot
  /\ UNCHANGED <<logOfHistoryVars, listed, isLoading, ringReady, signersReady, logsCrossed,
                 historyViewVars, restoreVars>>

(* reconstructTextAt: what the selected version and those listed before it *)
(* come to, on top of the snapshot if it is there.                         *)
ReconstructTextAt(v) ==
  IF listed.from <= seed + 1 THEN Larger(seed, v) ELSE seed

(* useReconstructedText: nothing while a prerequisite is missing.          *)
Text ==
  IF selectedId # 0 /\ ringReady /\ (listed.to = 0 \/ signersReady)
  THEN ReconstructTextAt(selectedId) ELSE 0
-----------------------------------------------------------------------------
IsCurrent == selectedId = listed.to

(* The scrubber and the version list; both stop the playback.              *)
Select(v) ==
  /\ OnPage /\ ~isRestoreOpen /\ listed.to # 0
  /\ v \in listed.from .. listed.to
  /\ selectedId' = v /\ isPlaying' = FALSE
  /\ UNCHANGED <<logOfHistoryVars, historyReadVars, restoreVars>>

(* There are controls if there is more than one version. From the last one *)
(* the playback starts over.                                               *)
TogglePlay ==
  /\ OnPage /\ ~isRestoreOpen /\ listed.from < listed.to
  /\ isPlaying' = ~isPlaying
  /\ selectedId' = IF IsCurrent /\ ~isPlaying THEN listed.from ELSE selectedId
  /\ UNCHANGED <<logOfHistoryVars, historyReadVars, restoreVars>>

(* The timer of useHistoryPlayback, which an open dialog does not stop.    *)
PlayStep ==
  /\ OnPage /\ isPlaying /\ selectedId < listed.to
  /\ selectedId' = selectedId + 1
  /\ isPlaying' = (selectedId' < listed.to)
  /\ UNCHANGED <<logOfHistoryVars, historyReadVars, restoreVars>>
-----------------------------------------------------------------------------
OpenRestore ==
  /\ OnPage /\ ~isRestoreOpen /\ listed.to # 0 /\ ~IsCurrent
  /\ isRestoreOpen' = TRUE
  /\ UNCHANGED <<logOfHistoryVars, historyReadVars, historyViewVars, isRestoring, restore, kept,
                 whole, askedVersion>>

CloseRestore ==
  /\ OnPage /\ isRestoreOpen
  /\ isRestoreOpen' = FALSE
  /\ UNCHANGED <<logOfHistoryVars, historyReadVars, historyViewVars, isRestoring, restore, kept,
                 whole, askedVersion>>

(* handleRestore, with the text the page shows; without a key ring the     *)
(* dialog only closes.                                                     *)
ConfirmRestore ==
  /\ OnPage /\ isRestoreOpen /\ ~isRestoring
  /\ isRestoring' = ringReady /\ isRestoreOpen' = ringReady
  /\ restore' = IF ringReady THEN [phase |-> "identity", text |-> Text, since |-> 0,
                                    full |-> FALSE]
                ELSE restore
  /\ askedVersion' = IF ringReady THEN selectedId ELSE askedVersion
  /\ whole' = (ringReady /\ signersReady /\ seedRead /\ ~logsCrossed)
  /\ UNCHANGED <<logOfHistoryVars, historyReadVars, historyViewVars, kept>>

(* restoreHistoryText: the signing key, if this browser has one.           *)
RestoreIdentityLoaded ==
  /\ restore.phase = "identity"
  /\ \/ restore' = [restore EXCEPT !.phase = "connecting"] /\ UNCHANGED <<isRestoring, isRestoreOpen>>
     \/ /\ restore' = [phase |-> "none", text |-> 0, since |-> 0, full |-> FALSE]
        /\ isRestoring' = FALSE /\ isRestoreOpen' = FALSE
  /\ UNCHANGED <<logOfHistoryVars, historyReadVars, historyViewVars, kept, whole, askedVersion>>

(* restoreDocumentText: the provider of an empty Yjs document asks for all *)
(* the updates there are, and is not given the snapshot. The replay is     *)
(* full if nothing was compacted.                                          *)
RestoreConnected ==
  /\ restore.phase = "connecting"
  /\ restore' = [restore EXCEPT !.phase = "settling", !.since = last, !.full = (pruned = 0)]
  /\ UNCHANGED <<logOfHistoryVars, historyReadVars, historyViewVars, isRestoreOpen, isRestoring,
                 kept, whole, askedVersion>>

(* Mutant: the new text is inserted before what is there.                  *)
InsertText ==
  /\ restore.phase = "settling"
  /\ kept' = 1 .. last
  /\ restore' = [restore EXCEPT !.phase = "sent"]
  /\ UNCHANGED <<logOfHistoryVars, historyReadVars, historyViewVars, isRestoreOpen, isRestoring,
                 whole, askedVersion>>

(* replaceText, 400 ms later, deletes the text that was replayed by then:  *)
(* what was stored when it connected, here, and any that came since. An    *)
(* update whose predecessors were compacted away cannot be replayed.       *)
ReplaceText ==
  /\ restore.phase = "settling"
  /\ \E seen \in restore.since .. last :
       kept' = IF restore.full THEN seen + 1 .. last ELSE 1 .. last
  /\ restore' = [restore EXCEPT !.phase = "sent"]
  /\ UNCHANGED <<logOfHistoryVars, historyReadVars, historyViewVars, isRestoreOpen, isRestoring,
                 whole, askedVersion>>

(* 400 ms after that the connection is closed and the document opened.     *)
RestoreDone ==
  /\ restore.phase = "sent"
  /\ restore' = [restore EXCEPT !.phase = "done"]
  /\ isRestoring' = FALSE /\ isRestoreOpen' = FALSE
  /\ UNCHANGED <<logOfHistoryVars, historyReadVars, historyViewVars, kept, whole, askedVersion>>

HistoryNext ==
  \/ AppendUpdate
  \/ \E upTo, holds \in Version : Compact(upTo, holds)
  \/ ListUpdates \/ ResolveSigners \/ LoadKeyRing \/ LoadSnapshot
  \/ \E v \in Version : Select(v)
  \/ TogglePlay \/ PlayStep
  \/ OpenRestore \/ CloseRestore \/ ConfirmRestore
  \/ RestoreIdentityLoaded \/ RestoreConnected \/ ReplaceText \/ RestoreDone

HistorySpec == HistoryInit /\ [][HistoryNext]_historyVars
-----------------------------------------------------------------------------

(* Restoring a version of a log never compacted leaves the document with   *)
(* its text, and what was typed since the restore connected: if the page   *)
(* had all it needs to show that text.                                     *)
RestoresVersion ==
  restore.phase = "done" /\ whole /\ restore.full
    => restore.text = askedVersion /\ kept \subseteq restore.since + 1 .. last

(* What src/web/src/locales/en/translation.json says the dialog does: the  *)
(* version's text becomes the current one, nothing older is left beside    *)
(* it. False of a log that was compacted.                                  *)
RestoredTextIsCurrent ==
  restore.phase = "done" => kept \subseteq restore.since + 1 .. last
=============================================================================
