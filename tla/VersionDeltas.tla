--------------------------- MODULE VersionDeltas ---------------------------
(***************************************************************************)
(* What the version list of a document is computed from: updates grouped   *)
(* into editing sessions, and how many characters each session added and   *)
(* removed, replayed on top of the latest snapshot.                        *)
(*                                                                         *)
(* The log is written and compacted by others; what the page makes of it   *)
(* is a function of what is in it when it is read. An update is its        *)
(* author, when it was made (counted in session gaps) and the text of the  *)
(* document after it: Yjs gives the same text for the same updates.        *)
(***************************************************************************)
EXTENDS Integers, Sequences, FiniteSets

CONSTANTS Writer, Glyph,
          MaxLog,    \* bound: updates made
          MaxGlyphs, \* bound: letters in a text
          MaxGap     \* bound: between two updates, in session gaps rounded up

ASSUME VersionDeltasAssumption == {MaxLog, MaxGlyphs, MaxGap} \subseteq Nat

VARIABLES
  made,     \* every update there was; the id of an update is its place here
  removed,  \* those up to this one were compacted away
  covered   \* the snapshot holds the updates up to this one, at least those

versionDeltasVars == <<made, removed, covered>>

Draft == UNION {[1 .. n -> Glyph] : n \in 0 .. MaxGlyphs}

VersionDeltasTypeOK ==
  /\ Len(made) <= MaxLog
  /\ \A id \in DOMAIN made :
       /\ made[id].author \in Writer
       /\ made[id].after \in Seq(Glyph) /\ Len(made[id].after) <= MaxGlyphs
       /\ made[id].at \in 1 .. MaxLog * MaxGap
  /\ 0 <= removed /\ removed <= covered /\ covered <= Len(made)

VersionDeltasInit == made = <<>> /\ removed = 0 /\ covered = 0

Write(author, gap, after) ==
  /\ Len(made) < MaxLog
  /\ made' = Append(made, [author |-> author, after |-> after,
                           at |-> gap + IF made = <<>> THEN 0 ELSE made[Len(made)].at])
  /\ UNCHANGED <<removed, covered>>

CompactLog(upTo, holds) ==
  /\ removed < upTo /\ upTo <= holds /\ holds <= Len(made)
  /\ removed' = upTo /\ covered' = holds
  /\ UNCHANGED made

VersionDeltasNext ==
  \/ \E author \in Writer, gap \in 1 .. MaxGap, after \in Draft : Write(author, gap, after)
  \/ \E upTo, holds \in 1 .. MaxLog : CompactLog(upTo, holds)

VersionDeltasSpec == VersionDeltasInit /\ [][VersionDeltasNext]_versionDeltasVars
-----------------------------------------------------------------------------
ListedUpdates == removed + 1 .. Len(made)

(* The text after update id, replayed on the snapshot: which may hold      *)
(* later updates already.                                                  *)
TextAfter(id) == LET reached == IF id < covered THEN covered ELSE id
                 IN IF reached = 0 THEN <<>> ELSE made[reached].after

(* groupUpdates: an update goes on the session before it if that was its   *)
(* author's, and at most one session gap ago.                              *)
GroupUpdates ==
  LET upTo[id \in removed .. Len(made)] ==
        IF id = removed THEN <<>>
        ELSE LET groups == upTo[id - 1]
                 n == Len(groups)
                 update == made[id]
             IN IF n > 0 /\ groups[n].authorId = update.author
                         /\ update.at - groups[n].createdAt <= 1
                THEN [groups EXCEPT ![n].lastUpdateId = id, ![n].createdAt = update.at,
                                    ![n].updateCount = @ + 1]
                ELSE Append(groups, [lastUpdateId |-> id, authorId |-> update.author,
                                     createdAt |-> update.at, updateCount |-> 1])
  IN upTo[Len(made)]
-----------------------------------------------------------------------------
CommonLength(prev, next) == IF Len(prev) < Len(next) THEN Len(prev) ELSE Len(next)

(* How far the loops of textDelta and changedRange get from the start, and *)
(* from the end.                                                           *)
PrefixLen(prev, next) ==
  LET from[n \in 0 .. CommonLength(prev, next)] ==
        IF n < CommonLength(prev, next) /\ prev[n + 1] = next[n + 1] THEN from[n + 1] ELSE n
  IN from[0]

(* Mutant: the prefix may be counted in the suffix again.                  *)
SuffixLenOverlapping(prev, next) ==
  LET from[n \in 0 .. CommonLength(prev, next)] ==
        IF n < CommonLength(prev, next) /\ prev[Len(prev) - n] = next[Len(next) - n]
        THEN from[n + 1] ELSE n
  IN from[0]

SuffixLen(prev, next) ==
  LET maxSuffix == CommonLength(prev, next) - PrefixLen(prev, next)
      from[n \in 0 .. maxSuffix] ==
        IF n < maxSuffix /\ prev[Len(prev) - n] = next[Len(next) - n] THEN from[n + 1] ELSE n
  IN from[0]

TextDelta(prev, next) ==
  LET kept == PrefixLen(prev, next) + SuffixLen(prev, next)
  IN [added |-> Len(next) - kept, removed |-> Len(prev) - kept]

(* Where next differs from prev: from start, up to end.                    *)
ChangedRange(prev, next) ==
  [start |-> PrefixLen(prev, next), end |-> Len(next) - SuffixLen(prev, next)]

(* computeGroupDeltas: one replay, the text compared at the end of every   *)
(* group with that at the end of the group before it.                      *)
ComputeGroupDeltas ==
  LET groups == GroupUpdates
      textBefore(g) == IF g = 1 THEN TextAfter(covered) ELSE TextAfter(groups[g - 1].lastUpdateId)
  IN [g \in DOMAIN groups |-> TextDelta(textBefore(g), TextAfter(groups[g].lastUpdateId))]
-----------------------------------------------------------------------------
(* next comes from prev by writing next's part from start to end over as   *)
(* many letters of prev as delta says were removed.                        *)
IsChange(prev, next, range, delta) ==
  /\ range.end - range.start = delta.added /\ 0 <= delta.added /\ 0 <= delta.removed
  /\ next = SubSeq(prev, 1, range.start) \o SubSeq(next, range.start + 1, range.end)
              \o SubSeq(prev, range.start + delta.removed + 1, Len(prev))

(* The version list accounts for the whole log: every update is in one     *)
(* session, of its own author; each session's range and its +/- numbers    *)
(* turn the text before it into the text after it, and together they lead  *)
(* from the snapshot to the text as it is now, however much was compacted. *)
DeltasTellTheStory ==
  LET groups == GroupUpdates
      deltas == ComputeGroupDeltas
      first(g) == groups[g].lastUpdateId - groups[g].updateCount + 1
      before(g) == TextAfter(first(g) - 1)
      length[g \in 0 .. Len(groups)] ==
        IF g = 0 THEN Len(TextAfter(covered)) ELSE length[g - 1] + deltas[g].added - deltas[g].removed
  IN /\ UNION {first(g) .. groups[g].lastUpdateId : g \in DOMAIN groups} = ListedUpdates
     /\ \A g \in DOMAIN groups :
          /\ first(g) = IF g = 1 THEN removed + 1 ELSE groups[g - 1].lastUpdateId + 1
          /\ \A id \in first(g) .. groups[g].lastUpdateId : made[id].author = groups[g].authorId
          /\ IsChange(before(g), TextAfter(groups[g].lastUpdateId),
                      ChangedRange(before(g), TextAfter(groups[g].lastUpdateId)), deltas[g])
     /\ length[Len(groups)] = Len(TextAfter(Len(made)))
=============================================================================
