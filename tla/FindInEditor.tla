---------------------------- MODULE FindInEditor ----------------------------
(***************************************************************************)
(* The find bar of the editor (Ctrl+F): the query, the match it stands on, *)
(* the "2 of 7" it shows and the highlights in the text, while this tab    *)
(* and the others go on typing.                                            *)
(*                                                                         *)
(* A text is a sequence of lower-case letters and a position in it counts  *)
(* from 0, as in the code; -1 is "none" wherever the code has null or -1.  *)
(***************************************************************************)
EXTENDS Integers, Sequences, FiniteSets, FiniteSetsExt

CONSTANTS Letter,
          MaxText,  \* bound: letters in the document
          MaxQuery  \* bound: letters in the query

ASSUME FindAssumption == MaxText \in Nat /\ MaxQuery \in Nat

VARIABLES
  text,                    \* the document, as the editor shows it
  hasView,                 \* the page has an editor
  isFindOpen, findQuery,
  findMatchStart, matchCount, matchOrdinal,
  find, highlights,        \* findHighlightField: its query, and where its marks start
  located                  \* history: the text when the bar last looked

barVars == <<isFindOpen, findQuery, findMatchStart, matchCount, matchOrdinal, located>>
editorVars == <<text, hasView, find, highlights>>
findVars == <<barVars, editorVars>>

UpTo(n) == UNION {[1 .. m -> Letter] : m \in 0 .. n}
NoFind == [query |-> <<>>, currentFrom |-> -1]

FindTypeOK ==
  /\ \A t \in {text, located} : t \in Seq(Letter) /\ Len(t) <= MaxText
  /\ \A q \in {findQuery, find.query} : q \in Seq(Letter) /\ Len(q) <= MaxQuery
  /\ hasView \in BOOLEAN /\ isFindOpen \in BOOLEAN
  /\ {findMatchStart, find.currentFrom} \subseteq -1 .. MaxText
  /\ {matchCount, matchOrdinal} \subseteq 0 .. MaxText
  /\ highlights \subseteq 0 .. MaxText

FindInit ==
  /\ text \in UpTo(MaxText) /\ hasView = TRUE
  /\ isFindOpen = FALSE /\ findQuery = <<>> /\ findMatchStart = -1
  /\ matchCount = 0 /\ matchOrdinal = 0
  /\ find = NoFind /\ highlights = {} /\ located = text
-----------------------------------------------------------------------------
(* Where q occurs in t; occurrences may overlap.                           *)
Occurrences(t, q) == {i \in 0 .. Len(t) - Len(q) : SubSeq(t, i + 1, i + Len(q)) = q}

(* String.indexOf and String.lastIndexOf; a position below 0 counts as 0.  *)
IndexOf(t, q, from) ==
  LET later == {i \in Occurrences(t, q) : i >= from}
  IN IF later = {} THEN -1 ELSE Min(later)

LastIndexOf(t, q, from) ==
  LET earlier == {i \in Occurrences(t, q) : i <= from \/ i = 0}
  IN IF earlier = {} THEN -1 ELSE Max(earlier)

(* The next match after, or before, start; from the ends it goes round.    *)
FindMatchIndex(t, q, direction, start) ==
  LET next == IF start = -1 THEN 0 ELSE start + 1
      previous == IF start = -1 THEN Len(t) ELSE start - 1
      found == IF direction = 1 THEN IndexOf(t, q, next) ELSE LastIndexOf(t, q, previous)
  IN IF found # -1 THEN found
     ELSE IF direction = 1 THEN IndexOf(t, q, 0) ELSE LastIndexOf(t, q, Len(t))

(* The matches met going through t from left to right, each after the end  *)
(* of the one before it.                                                   *)
MatchesInTurn(t, q) ==
  LET from[i \in 0 .. Len(t)] ==
        LET index == IndexOf(t, q, i)
        IN IF index = -1 THEN {} ELSE {index} \cup from[index + Len(q)]
  IN IF q = <<>> THEN {} ELSE from[0]

(* Mutant: overlapping matches are counted.                                *)
CountAll(t, q) == IF q = <<>> THEN 0 ELSE Cardinality(Occurrences(t, q))

CountMatches(t, q) == Cardinality(MatchesInTurn(t, q))

MatchOrdinalAt(t, q, index) == Cardinality({i \in MatchesInTurn(t, q) : i <= index})

(* buildDecorations                                                        *)
BuildDecorations(t, h) == MatchesInTurn(t, h.query)

SetFindHighlight(h) == /\ find' = h
                       /\ highlights' = IF hasView THEN BuildDecorations(text, h) ELSE {}
-----------------------------------------------------------------------------
(* Somebody types or deletes: the highlights are built again, the numbers  *)
(* in the bar are left.                                                    *)
TextChanged(t) ==
  /\ hasView /\ t # text
  /\ text' = t
  /\ highlights' = BuildDecorations(t, find)
  /\ UNCHANGED <<hasView, find, barVars>>

(* The letters between positions i and j give way to s.                    *)
Replaced(i, j, s) == SubSeq(text, 1, i) \o s \o SubSeq(text, j + 1, Len(text))

Edited == {Replaced(i, i + n, s) : i \in 0 .. Len(text), n \in {0, 1}, s \in {<<>>} \cup {<<c>> : c \in Letter}}

(* The connection is built again with another key or token: the editor and *)
(* its highlights go, and come back without them.                          *)
EditorDestroyed ==
  /\ hasView /\ hasView' = FALSE
  /\ find' = NoFind /\ highlights' = {}
  /\ UNCHANGED <<text, barVars>>

EditorCreated ==
  /\ ~hasView /\ hasView' = TRUE
  /\ UNCHANGED <<text, find, highlights, barVars>>

(* Ctrl+F; what was typed last time is still there.                        *)
OpenFind ==
  /\ ~isFindOpen /\ isFindOpen' = TRUE
  /\ UNCHANGED <<findQuery, findMatchStart, matchCount, matchOrdinal, located, editorVars>>

CloseFind ==
  /\ isFindOpen /\ isFindOpen' = FALSE
  /\ find' = NoFind /\ highlights' = {}
  /\ UNCHANGED <<text, hasView, findQuery, findMatchStart, matchCount, matchOrdinal, located>>

(* locate, shared by typing in the bar and going through the matches.      *)
Locate(q, direction, start) ==
  LET index == FindMatchIndex(text, q, direction, start)
  IN /\ located' = text
     /\ IF ~hasView \/ q = <<>>
        THEN /\ SetFindHighlight(NoFind)
             /\ findMatchStart' = -1 /\ matchCount' = 0 /\ matchOrdinal' = 0
        ELSE /\ SetFindHighlight([query |-> q, currentFrom |-> index])
             /\ findMatchStart' = index
             /\ matchCount' = CountMatches(text, q)
             /\ matchOrdinal' = IF index = -1 THEN 0 ELSE MatchOrdinalAt(text, q, index)

HandleFindQueryChange(q) ==
  /\ isFindOpen /\ q # findQuery
  /\ findQuery' = q
  /\ Locate(q, 1, -1)
  /\ UNCHANGED <<text, hasView, isFindOpen>>

FindNext(direction) ==
  /\ isFindOpen
  /\ Locate(findQuery, direction, findMatchStart)
  /\ UNCHANGED <<text, hasView, isFindOpen, findQuery>>

FindInEditorNext ==
  \/ \E t \in Edited : Len(t) <= MaxText /\ TextChanged(t)
  \/ EditorDestroyed \/ EditorCreated \/ OpenFind \/ CloseFind
  \/ \E q \in UpTo(MaxQuery) : HandleFindQueryChange(q)
  \/ \E direction \in {1, -1} : FindNext(direction)

FindInEditorSpec == FindInit /\ [][FindInEditorNext]_findVars
-----------------------------------------------------------------------------
(* The leftmost way to pick occurrences that do not overlap: none can be   *)
(* added, and none could start earlier.                                    *)
IsLeftmost(picked, t, q) ==
  /\ picked \subseteq Occurrences(t, q)
  /\ \A i, j \in picked : i < j => i + Len(q) <= j
  /\ \A i \in Occurrences(t, q) : \E j \in picked : j <= i /\ i < j + Len(q)

(* However others edit the text under an open find bar, the highlights are *)
(* the matches of the text as it is now; and until the next edit the bar   *)
(* says how many they are, stands on an occurrence of the query, and       *)
(* numbers it by the highlight it is in.                                   *)
FindTellsTheTruth ==
  /\ find.query # <<>> => IsLeftmost(highlights, text, find.query)
  /\ find.query # <<>> /\ text = located =>
       /\ matchCount = Cardinality(highlights)
       /\ findMatchStart = -1 <=> matchCount = 0
       /\ findMatchStart # -1 =>
            /\ findMatchStart \in Occurrences(text, findQuery)
            /\ \E mark \in highlights :
                 /\ mark <= findMatchStart /\ findMatchStart < mark + Len(findQuery)
                 /\ matchOrdinal = Cardinality({i \in highlights : i <= mark})
=============================================================================
