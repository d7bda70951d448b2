------------------------ MODULE DocumentSync_proofs -------------------------
(***************************************************************************)
(* Theorems about DocumentSync, for every set of tabs and connections,     *)
(* every bound and every choice of failures: delivery, then that an edit   *)
(* is stored once, then that SharedDocument is implemented.                *)
(*                                                                         *)
(* For delivery: what is past a cursor is in the order of the log, on its  *)
(* way or yet to be replayed. For the second: an edit is in one place at a *)
(* time, of the tabs' pending edits, the sockets, the handlers' hands and  *)
(* the log. For the third: nothing but what was typed is anywhere.         *)
(***************************************************************************)
EXTENDS DocumentSync, SequenceTheorems, TLAPS

(* Receiving or applying the head of a queue keeps the queue well typed.   *)
LEMMA HeadTail ==
  ASSUME NEW S, NEW s \in Seq(S), s # <<>>
  PROVE  Head(s) \in S /\ Tail(s) \in Seq(S) /\ Range(s) = {Head(s)} \cup Range(Tail(s))
<1>1. Head(s) \in S /\ Tail(s) \in Seq(S)
  BY HeadTailProperties
<1>2. Len(Tail(s)) = Len(s) - 1 /\ Len(s) \in Nat \ {0} /\ DOMAIN s = 1 .. Len(s) /\ DOMAIN Tail(s) = 1 .. Len(Tail(s))
  BY HeadTailProperties, LenProperties, EmptySeq, <1>1
<1>3. Head(s) = s[1] /\ \A i \in 1 .. Len(s) - 1 : Tail(s)[i] = s[i + 1]
  BY HeadTailProperties, <1>2
<1>4. \A i \in 1 .. Len(s) : i = 1 \/ (i - 1 \in 1 .. Len(s) - 1 /\ s[i] = Tail(s)[i - 1])
  BY <1>2, <1>3
<1>5. \A i \in 1 .. Len(s) - 1 : i + 1 \in 1 .. Len(s)
  BY <1>2
<1>6. Range(s) \subseteq {Head(s)} \cup Range(Tail(s))
  <2>1. ASSUME NEW i \in DOMAIN s PROVE s[i] \in {Head(s)} \cup Range(Tail(s))
    <3>1. i \in 1 .. Len(s)
      BY <1>2
    <3>2. CASE i = 1
      BY <1>3, <3>2
    <3>3. CASE i - 1 \in DOMAIN Tail(s) /\ s[i] = Tail(s)[i - 1]
      BY <3>3 DEF Range
    <3>. QED
      BY <1>2, <1>4, <3>1, <3>2, <3>3
  <2>. QED
    BY <2>1 DEF Range
<1>7. {Head(s)} \cup Range(Tail(s)) \subseteq Range(s)
  BY <1>2, <1>3, <1>5 DEF Range
<1>. QED
  BY <1>1, <1>6, <1>7

(* What an Append adds to what a queue holds.                              *)
LEMMA AppendRange ==
  ASSUME NEW S, NEW s \in Seq(S), NEW x \in S
  PROVE  Append(s, x) \in Seq(S) /\ Range(Append(s, x)) = Range(s) \cup {x}
<1>1. /\ Append(s, x) \in Seq(S)
      /\ Len(Append(s, x)) = Len(s) + 1 /\ Len(s) \in Nat
      /\ DOMAIN s = 1 .. Len(s) /\ DOMAIN Append(s, x) = 1 .. Len(s) + 1
      /\ \A i \in 1 .. Len(s) : Append(s, x)[i] = s[i]
      /\ Append(s, x)[Len(s) + 1] = x
  BY AppendProperties, LenProperties
<1>2. \A i \in 1 .. Len(s) + 1 : i \in 1 .. Len(s) \/ i = Len(s) + 1
  BY <1>1
<1>. QED
  BY <1>1, <1>2 DEF Range

(* TypeOK is inductive.                                                    *)
LEMMA InitType == Init => TypeOK
BY DEF Init, TypeOK, LogInit, LogTypeOK, Task, Idle, Stages, Update, NoUpdate, Snapshot, Phases, HandlerStates

LEMMA NextType == TypeOK /\ [Next]_vars => TypeOK'
<1> SUFFICES ASSUME TypeOK, [Next]_vars PROVE TypeOK'
  OBVIOUS
<1>. USE NoConnAssumption DEF TypeOK, LogTypeOK, Task, Stages, Update, Snapshot, Phases, HandlerStates
<1>1. ASSUME NEW c \in Client, NEW k \in Conn, LoadSeed(c, k) PROVE TypeOK'
  <2>1. CASE snaps = {} /\ OpenSocket(c, k, 0) /\ UNCHANGED <<doc, cursor>>
    BY <1>1, <2>1 DEF LoadSeed, OpenSocket, logVars, auxVars
  <2>2. ASSUME NEW s \in LatestSnapshots,
               doc' = [doc EXCEPT ![c] = s.edits],
               cursor' = [cursor EXCEPT ![c] = s.upTo],
               OpenSocket(c, k, s.upTo)
        PROVE  TypeOK'
    <3>1. s.upTo \in Nat /\ s.edits \in SUBSET Nat
      BY <2>2 DEF LatestSnapshots
    <3>2. doc' \in [Client -> SUBSET Nat] /\ cursor' \in [Client -> Nat] /\ since' \in [Conn -> Nat]
      BY <2>2, <3>1 DEF OpenSocket
    <3>3. /\ phase' \in [Client -> Phases] /\ conn' \in [Client -> Conn \cup {NoConn}]
          /\ handler' \in [Conn -> HandlerStates]
          /\ \A d \in Client : phase'[d] \in {"connecting", "connected"} <=> conn'[d] # NoConn
      BY <2>2 DEF OpenSocket
    <3>. QED
      BY <1>1, <3>2, <3>3 DEF LoadSeed, logVars, auxVars
  <2>. QED
    BY <1>1, <2>1, <2>2 DEF LoadSeed
<1>2. ASSUME NEW c \in Client, NEW k \in Conn, LoadSeedFails(c, k) PROVE TypeOK'
  <2>1. OpenSocket(c, k, 0) /\ faults' \in Nat
    BY <1>2 DEF LoadSeedFails, Fault
  <2>2. /\ phase' \in [Client -> Phases] /\ conn' \in [Client -> Conn \cup {NoConn}]
        /\ since' \in [Conn -> Nat] /\ handler' \in [Conn -> HandlerStates]
        /\ \A d \in Client : phase'[d] \in {"connecting", "connected"} <=> conn'[d] # NoConn
    BY <2>1 DEF OpenSocket
  <2>. QED
    BY <1>2, <2>1, <2>2 DEF LoadSeedFails, logVars
<1>3. ASSUME NEW c \in Client, NEW k \in Conn, Reconnect(c, k) PROVE TypeOK'
  BY <1>3 DEF Reconnect, OpenSocket, logVars, tabVars, connVars, auxVars
<1>4. ASSUME NEW c \in Client, HandleOpen(c) PROVE TypeOK'
  <2>1. up' \in [Conn -> Seq(Nat)]
    <3>1. CASE conn[c] \in Conn
      <4>1. up[conn[c]] \o pending[c] \in Seq(Nat)
        BY <3>1, ConcatProperties
      <4>. QED
        BY <1>4, <3>1, <4>1 DEF HandleOpen
    <3>2. CASE conn[c] \notin Conn
      BY <1>4, <3>2 DEF HandleOpen
    <3>. QED
      BY <3>1, <3>2
  <2>2. pending' \in [Client -> Seq(Nat)]
    BY <1>4 DEF HandleOpen
  <2>. QED
    BY <1>4, <2>1, <2>2 DEF HandleOpen, logVars, auxVars
<1>5. ASSUME NEW c \in Client, HandleClose(c) PROVE TypeOK'
  BY <1>5 DEF HandleClose, logVars, tabVars, connVars, auxVars
<1>6. ASSUME NEW c \in Client, Reload(c) PROVE TypeOK'
  <2>1. /\ phase' \in [Client -> Phases] /\ conn' \in [Client -> Conn \cup {NoConn}]
        /\ \A d \in Client : phase'[d] \in {"connecting", "connected"} <=> conn'[d] # NoConn
    BY <1>6 DEF Reload
  <2>2. /\ cursor' \in [Client -> Nat] /\ doc' \in [Client -> SUBSET Nat]
        /\ queue' \in [Client -> Seq(Update)] /\ pending' \in [Client -> Seq(Nat)]
    BY <1>6, EmptySeq DEF Reload
  <2>3. /\ timerOn' \in [Client -> BOOLEAN] /\ authored' \in [Client -> SUBSET Nat]
        /\ sock' \in [Conn -> {"open", "hungup", "evicted"}] /\ faults' \in Nat
    BY <1>6 DEF Reload, Fault
  <2>. QED
    BY <1>6, <2>1, <2>2, <2>3 DEF Reload, logVars
<1>7. ASSUME NEW c \in Client, Type(c) PROVE TypeOK'
  <2>1. edits + 1 \in Nat
    OBVIOUS
  <2>2. up' \in [Conn -> Seq(Nat)] /\ pending' \in [Client -> Seq(Nat)]
    <3>1. \A k \in Conn : Append(up[k], edits + 1) \in Seq(Nat)
      BY <2>1, AppendRange
    <3>2. Append(pending[c], edits + 1) \in Seq(Nat)
      BY <2>1, AppendRange
    <3>. QED
      <4>1. CASE phase[c] = "connected" /\ up' = [up EXCEPT ![conn[c]] = Append(@, edits + 1)] /\ UNCHANGED pending
        BY <3>1, <4>1
      <4>2. CASE pending' = [pending EXCEPT ![c] = Append(@, edits + 1)] /\ UNCHANGED up
        BY <3>2, <4>2
      <4>. QED
        BY <1>7, <4>1, <4>2 DEF Type
  <2>3. doc' \in [Client -> SUBSET Nat] /\ authored' \in [Client -> SUBSET Nat]
    BY <1>7, <2>1 DEF Type
  <2>. QED
    BY <1>7, <2>1, <2>2, <2>3 DEF Type, logVars
<1>8. ASSUME NEW c \in Client, ReceiveFrame(c) PROVE TypeOK'
  <2>1. CASE conn[c] \in Conn
    <3>. DEFINE f == Head(down[conn[c]])
    <3>1. f \in Update /\ Tail(down[conn[c]]) \in Seq(Update)
      BY <1>8, <2>1, HeadTail DEF ReceiveFrame
    <3>2. Append(queue[c], f) \in Seq(Update)
      BY <3>1, AppendRange
    <3>3. queue' \in [Client -> Seq(Update)] /\ down' \in [Conn -> Seq(Update)]
      BY <1>8, <2>1, <3>1, <3>2 DEF ReceiveFrame
    <3>4. cursor' \in [Client -> Nat]
      BY <1>8, <3>1 DEF ReceiveFrame
    <3>. QED
      BY <1>8, <3>3, <3>4 DEF ReceiveFrame, logVars, auxVars
  <2>2. conn[c] \in Conn
    BY <1>8 DEF ReceiveFrame
  <2>. QED
    BY <2>1, <2>2
<1>9. ASSUME NEW c \in Client, ApplyUpdate(c) PROVE TypeOK'
  <2>1. Head(queue[c]) \in Update /\ Tail(queue[c]) \in Seq(Update)
    BY <1>9, HeadTail DEF ApplyUpdate
  <2>2. doc' \in [Client -> SUBSET Nat] /\ queue' \in [Client -> Seq(Update)]
    BY <1>9, <2>1 DEF ApplyUpdate
  <2>. QED
    BY <1>9, <2>2 DEF ApplyUpdate, logVars, connVars, auxVars
<1>10. ASSUME NEW c \in Client, DiscardUpdate(c) PROVE TypeOK'
  <2>1. Tail(queue[c]) \in Seq(Update)
    BY <1>10, HeadTail DEF DiscardUpdate
  <2>2. queue' \in [Client -> Seq(Update)] /\ faults' \in Nat
    BY <1>10, <2>1 DEF DiscardUpdate, Fault
  <2>. QED
    BY <1>10, <2>2 DEF DiscardUpdate, logVars, connVars
<1>11. ASSUME NEW c \in Client, ListPending(c) PROVE TypeOK'
  BY <1>11 DEF ListPending, IsLast, logVars, tabVars, connVars, auxVars
<1>12. ASSUME NEW c \in Client, PostSnapshot(c) PROVE TypeOK'
  BY <1>12 DEF PostSnapshot, logVars, tabVars, connVars, auxVars
<1>13. ASSUME NEW c \in Client, CommitSnapshot(c) PROVE TypeOK'
  BY <1>13 DEF CommitSnapshot, CreateSnapshot, Idle, logVars, tabVars, connVars, auxVars
<1>14. ASSUME NEW c \in Client, PostFails(c) PROVE TypeOK'
  <2>1. task' \in [Client -> Task] /\ faults' \in Nat
    BY <1>14 DEF PostFails, Idle, Fault
  <2>. QED
    BY <1>14, <2>1 DEF PostFails, logVars, connVars
<1>15. ASSUME NEW k \in Conn, Drop(k) PROVE TypeOK'
  BY <1>15 DEF Drop, Fault, logVars, tabVars, connVars, auxVars
<1>16. ASSUME NEW k \in Conn, Join(k) PROVE TypeOK'
  BY <1>16 DEF Join, logVars, tabVars, connVars, auxVars
<1>17. ASSUME NEW k \in Conn, Refuse(k) PROVE TypeOK'
  BY <1>17 DEF Refuse, Fault, logVars, tabVars, connVars, auxVars
<1>18. ASSUME NEW k \in Conn, QueryHistory(k) PROVE TypeOK'
  BY <1>18 DEF QueryHistory, RowsSince, logVars, tabVars, connVars, auxVars
<1>19. ASSUME NEW k \in Conn, QueryHistoryFails(k) PROVE TypeOK'
  <2>1. handler' \in [Conn -> HandlerStates] /\ faults' \in Nat
    BY <1>19 DEF QueryHistoryFails, Fault
  <2>. QED
    BY <1>19, <2>1 DEF QueryHistoryFails, logVars, tabVars
<1>20. ASSUME NEW k \in Conn, ReplayNext(k) PROVE TypeOK'
  <2>1. PICK u \in replay[k] :
          /\ down' = [down EXCEPT ![k] = Append(@, u)]
          /\ replay' = [replay EXCEPT ![k] = @ \ {u}]
    BY <1>20 DEF ReplayNext
  <2>2. u \in Update /\ Append(down[k], u) \in Seq(Update)
    BY AppendRange
  <2>3. down' \in [Conn -> Seq(Update)] /\ replay' \in [Conn -> SUBSET Update]
    BY <2>1, <2>2
  <2>. QED
    BY <1>20, <2>3 DEF ReplayNext, logVars, tabVars, auxVars
<1>21. ASSUME NEW k \in Conn, StartReading(k) PROVE TypeOK'
  BY <1>21 DEF StartReading, logVars, tabVars, connVars, auxVars
<1>22. ASSUME NEW k \in Conn, BeginAppend(k) PROVE TypeOK'
  <2>1. Head(up[k]) \in Nat /\ Tail(up[k]) \in Seq(Nat)
    BY <1>22, HeadTail DEF BeginAppend
  <2>2. up' \in [Conn -> Seq(Nat)] /\ cur' \in [Conn -> Update]
    BY <1>22, <2>1 DEF BeginAppend
  <2>3. nextId' \in Nat \ {0} /\ handler' \in [Conn -> HandlerStates]
    BY <1>22 DEF BeginAppend, AllocateId
  <2>. QED
    BY <1>22, <2>2, <2>3 DEF BeginAppend, tabVars, auxVars
<1>23. ASSUME NEW k \in Conn, RejectUpdate(k) PROVE TypeOK'
  <2>1. Tail(up[k]) \in Seq(Nat)
    BY <1>23, HeadTail DEF RejectUpdate
  <2>2. up' \in [Conn -> Seq(Nat)] /\ faults' \in Nat
    BY <1>23, <2>1 DEF RejectUpdate, Fault
  <2>. QED
    BY <1>23, <2>2 DEF RejectUpdate, logVars, tabVars
<1>24. ASSUME NEW k \in Conn, CommitAppend(k) PROVE TypeOK'
  BY <1>24 DEF CommitAppend, CommitRow, logVars, tabVars, connVars, auxVars
<1>25. ASSUME NEW k \in Conn, Broadcast(k) PROVE TypeOK'
  <2>1. \A m \in Conn : Append(down[m], cur[k]) \in Seq(Update)
    BY AppendRange
  <2>2. down' \in [Conn -> Seq(Update)]
    BY <1>25, <2>1 DEF Broadcast
  <2>. QED
    BY <1>25, <2>2 DEF Broadcast, Slow, logVars, tabVars, auxVars
<1>26. ASSUME NEW k \in Conn, Unwind(k) PROVE TypeOK'
  BY <1>26 DEF Unwind, logVars, tabVars, connVars, auxVars
<1>27. CASE UNCHANGED vars
  BY <1>27 DEF vars, logVars, tabVars, connVars, auxVars
<1>. QED
  BY <1>1, <1>2, <1>3, <1>4, <1>5, <1>6, <1>7, <1>8, <1>9, <1>10, <1>11, <1>12, <1>13, <1>14, <1>15, <1>16, <1>17, <1>18, <1>19, <1>20, <1>21, <1>22, <1>23, <1>24, <1>25, <1>26, <1>27 DEF Next, TabStep, ConnStep

(* Every reachable state is well typed.                                    *)
THEOREM TypeCorrect == Spec => []TypeOK
BY InitType, NextType, PTL DEF Spec

-----------------------------------------------------------------------------
(* Persist before broadcast. Everything a tab may still be shown is a      *)
(* committed row: frames on their way, history to be replayed, an update   *)
(* about to be broadcast.                                                  *)
FramesCommitted ==
  /\ rows \subseteq committed
  /\ \A k \in Conn :
       /\ Range(down[k]) \subseteq committed
       /\ replay[k] \subseteq committed
       /\ handler[k] = "persisted" => cur[k] \in committed
  /\ \A c \in Client : Range(queue[c]) \subseteq committed

LEMMA EmptyRange == Range(<<>>) = {}
BY DEF Range

LEMMA InitFrames == Init => FramesCommitted
BY EmptyRange DEF Init, LogInit, FramesCommitted

LEMMA NextFrames == TypeOK /\ FramesCommitted /\ [Next]_vars => FramesCommitted'
<1> SUFFICES ASSUME TypeOK, FramesCommitted, [Next]_vars PROVE FramesCommitted'
  OBVIOUS
<1>. USE DEF FramesCommitted
<1>1. ASSUME NEW c \in Client, NEW k \in Conn, LoadSeed(c, k) PROVE FramesCommitted'
  <2>1. UNCHANGED <<logVars, queue, down, replay, cur>>
    BY <1>1 DEF LoadSeed
  <2>2. handler' = [handler EXCEPT ![k] = "handshake"]
    BY <1>1 DEF LoadSeed, OpenSocket
  <2>. QED
    BY <2>1, <2>2 DEF TypeOK, logVars
<1>2. ASSUME NEW c \in Client, NEW k \in Conn, LoadSeedFails(c, k) PROVE FramesCommitted'
  <2>1. UNCHANGED <<logVars, queue, down, replay, cur>>
    BY <1>2 DEF LoadSeedFails
  <2>2. handler' = [handler EXCEPT ![k] = "handshake"]
    BY <1>2 DEF LoadSeedFails, OpenSocket
  <2>. QED
    BY <2>1, <2>2 DEF TypeOK, logVars
<1>3. ASSUME NEW c \in Client, NEW k \in Conn, Reconnect(c, k) PROVE FramesCommitted'
  <2>1. UNCHANGED <<logVars, queue, down, replay, cur>>
    BY <1>3 DEF Reconnect
  <2>2. handler' = [handler EXCEPT ![k] = "handshake"]
    BY <1>3 DEF Reconnect, OpenSocket
  <2>. QED
    BY <2>1, <2>2 DEF TypeOK, logVars
<1>4. ASSUME NEW c \in Client, HandleOpen(c) PROVE FramesCommitted'
  BY <1>4 DEF HandleOpen, Fault, logVars, tabVars, connVars, auxVars
<1>5. ASSUME NEW c \in Client, HandleClose(c) PROVE FramesCommitted'
  BY <1>5 DEF HandleClose, Fault, logVars, tabVars, connVars, auxVars
<1>6. ASSUME NEW c \in Client, Reload(c) PROVE FramesCommitted'
  BY <1>6, EmptyRange DEF TypeOK, Reload, logVars
<1>7. ASSUME NEW c \in Client, Type(c) PROVE FramesCommitted'
  BY <1>7 DEF Type, Fault, logVars, tabVars, connVars, auxVars
<1>8. ASSUME NEW c \in Client, ReceiveFrame(c) PROVE FramesCommitted'
  <2>. DEFINE k == conn[c]
              f == Head(down[k])
  <2>1. k \in Conn /\ down[k] \in Seq(Update) /\ down[k] # <<>> /\ queue[c] \in Seq(Update)
    BY <1>8 DEF TypeOK, ReceiveFrame
  <2>2. f \in Update /\ Range(down[k]) = {f} \cup Range(Tail(down[k]))
    BY <2>1, HeadTail
  <2>3. Range(Append(queue[c], f)) = Range(queue[c]) \cup {f}
    BY <2>1, <2>2, AppendRange
  <2>4. f \in committed /\ Range(Tail(down[k])) \subseteq committed
    BY <2>1, <2>2
  <2>5. \A m \in Conn : Range(down'[m]) \subseteq committed
    BY <1>8, <2>4 DEF TypeOK, ReceiveFrame
  <2>6. \A d \in Client : Range(queue'[d]) \subseteq committed
    BY <1>8, <2>3, <2>4 DEF TypeOK, ReceiveFrame
  <2>. QED
    BY <1>8, <2>5, <2>6 DEF ReceiveFrame, logVars
<1>9. ASSUME NEW c \in Client, ApplyUpdate(c) PROVE FramesCommitted'
  <2>1. Range(Tail(queue[c])) \subseteq committed
    BY <1>9, HeadTail DEF TypeOK, ApplyUpdate
  <2>. QED
    BY <1>9, <2>1 DEF TypeOK, ApplyUpdate, logVars, connVars
<1>10. ASSUME NEW c \in Client, DiscardUpdate(c) PROVE FramesCommitted'
  <2>1. Range(Tail(queue[c])) \subseteq committed
    BY <1>10, HeadTail DEF TypeOK, DiscardUpdate
  <2>. QED
    BY <1>10, <2>1 DEF TypeOK, DiscardUpdate, logVars, connVars
<1>11. ASSUME NEW c \in Client, ListPending(c) PROVE FramesCommitted'
  BY <1>11 DEF ListPending, Fault, logVars, tabVars, connVars, auxVars
<1>12. ASSUME NEW c \in Client, PostSnapshot(c) PROVE FramesCommitted'
  BY <1>12 DEF PostSnapshot, Fault, logVars, tabVars, connVars, auxVars
<1>13. ASSUME NEW c \in Client, CommitSnapshot(c) PROVE FramesCommitted'
  BY <1>13 DEF CommitSnapshot, CreateSnapshot, connVars
<1>14. ASSUME NEW c \in Client, PostFails(c) PROVE FramesCommitted'
  BY <1>14 DEF PostFails, Fault, logVars, tabVars, connVars, auxVars
<1>15. ASSUME NEW k \in Conn, Drop(k) PROVE FramesCommitted'
  BY <1>15 DEF Drop, Fault, logVars, tabVars, connVars, auxVars
<1>16. ASSUME NEW k \in Conn, Join(k) PROVE FramesCommitted'
  BY <1>16 DEF TypeOK, Join, Fault, logVars, tabVars
<1>17. ASSUME NEW k \in Conn, Refuse(k) PROVE FramesCommitted'
  BY <1>17 DEF TypeOK, Refuse, Fault, logVars, tabVars
<1>18. ASSUME NEW k \in Conn, QueryHistory(k) PROVE FramesCommitted'
  BY <1>18 DEF TypeOK, QueryHistory, RowsSince, logVars, tabVars
<1>19. ASSUME NEW k \in Conn, QueryHistoryFails(k) PROVE FramesCommitted'
  BY <1>19 DEF TypeOK, QueryHistoryFails, Fault, logVars, tabVars
<1>20. ASSUME NEW k \in Conn, ReplayNext(k) PROVE FramesCommitted'
  <2>1. PICK u \in replay[k] :
          /\ down' = [down EXCEPT ![k] = Append(@, u)]
          /\ replay' = [replay EXCEPT ![k] = @ \ {u}]
    BY <1>20 DEF ReplayNext
  <2>2. Range(Append(down[k], u)) = Range(down[k]) \cup {u}
    BY AppendRange DEF TypeOK
  <2>3. \A m \in Conn : Range(down'[m]) \subseteq committed /\ replay'[m] \subseteq committed
    BY <2>1, <2>2 DEF TypeOK
  <2>. QED
    BY <1>20, <2>3 DEF ReplayNext, logVars, tabVars
<1>21. ASSUME NEW k \in Conn, StartReading(k) PROVE FramesCommitted'
  BY <1>21 DEF TypeOK, StartReading, Fault, logVars, tabVars
<1>22. ASSUME NEW k \in Conn, BeginAppend(k) PROVE FramesCommitted'
  BY <1>22 DEF TypeOK, BeginAppend, tabVars
<1>23. ASSUME NEW k \in Conn, RejectUpdate(k) PROVE FramesCommitted'
  BY <1>23 DEF RejectUpdate, Fault, logVars, tabVars, connVars, auxVars
<1>24. ASSUME NEW k \in Conn, CommitAppend(k) PROVE FramesCommitted'
  BY <1>24 DEF TypeOK, CommitAppend, CommitRow, tabVars
<1>25. ASSUME NEW k \in Conn, Broadcast(k) PROVE FramesCommitted'
  <2>1. cur[k] \in committed /\ \A m \in Conn : Range(Append(down[m], cur[k])) = Range(down[m]) \cup {cur[k]}
    BY <1>25, AppendRange DEF TypeOK, Broadcast
  <2>2. \A m \in Conn : Range(down'[m]) \subseteq committed
    BY <1>25, <2>1 DEF TypeOK, Broadcast
  <2>. QED
    BY <1>25, <2>2 DEF TypeOK, Broadcast, logVars, tabVars
<1>26. ASSUME NEW k \in Conn, Unwind(k) PROVE FramesCommitted'
  BY <1>26 DEF TypeOK, Unwind, Fault, logVars, tabVars
<1>27. CASE UNCHANGED vars
  BY <1>27 DEF vars, logVars, tabVars, connVars, auxVars
<1>. QED
  BY <1>1, <1>2, <1>3, <1>4, <1>5, <1>6, <1>7, <1>8, <1>9, <1>10, <1>11, <1>12, <1>13, <1>14, <1>15, <1>16, <1>17, <1>18, <1>19, <1>20, <1>21, <1>22, <1>23, <1>24, <1>25, <1>26, <1>27 DEF Next, TabStep, ConnStep

LEMMA FramesInvariant == Spec => [](TypeOK /\ FramesCommitted)
BY InitType, NextType, InitFrames, NextFrames, PTL DEF Spec

(* A tab shows only what it typed since it loaded and what is durable.     *)
LEMMA NextSeen ==
  TypeOK /\ FramesCommitted /\ DurableBeforeSeen /\ [Next]_vars => DurableBeforeSeen'
<1> SUFFICES ASSUME TypeOK, FramesCommitted, DurableBeforeSeen, [Next]_vars
             PROVE  DurableBeforeSeen'
  OBVIOUS
<1>. USE DEF DurableBeforeSeen
<1>1. ASSUME NEW c \in Client, NEW k \in Conn, LoadSeed(c, k) PROVE DurableBeforeSeen'
  <2>1. Durable' = Durable /\ authored' = authored
    BY <1>1 DEF LoadSeed, Durable, logVars, auxVars
  <2>2. CASE UNCHANGED doc
    BY <2>1, <2>2
  <2>3. ASSUME NEW s \in LatestSnapshots, doc' = [doc EXCEPT ![c] = s.edits]
        PROVE  DurableBeforeSeen'
    <3>1. s.edits \subseteq Durable
      BY DEF Durable, LatestSnapshots
    <3>2. \A d \in Client : doc'[d] = doc[d] \/ doc'[d] = s.edits
      BY <2>3 DEF TypeOK
    <3>. QED
      BY <2>1, <3>1, <3>2
  <2>. QED
    BY <1>1, <2>2, <2>3 DEF LoadSeed
<1>2. ASSUME NEW c \in Client, NEW k \in Conn, LoadSeedFails(c, k) PROVE DurableBeforeSeen'
  BY <1>2 DEF LoadSeedFails, Fault, Durable, logVars, tabVars, connVars, auxVars
<1>3. ASSUME NEW c \in Client, NEW k \in Conn, Reconnect(c, k) PROVE DurableBeforeSeen'
  BY <1>3 DEF Reconnect, Fault, Durable, logVars, tabVars, connVars, auxVars
<1>4. ASSUME NEW c \in Client, HandleOpen(c) PROVE DurableBeforeSeen'
  BY <1>4 DEF HandleOpen, Fault, Durable, logVars, tabVars, connVars, auxVars
<1>5. ASSUME NEW c \in Client, HandleClose(c) PROVE DurableBeforeSeen'
  BY <1>5 DEF HandleClose, Fault, Durable, logVars, tabVars, connVars, auxVars
<1>6. ASSUME NEW c \in Client, Reload(c) PROVE DurableBeforeSeen'
  BY <1>6 DEF TypeOK, Reload, Durable, logVars
<1>7. ASSUME NEW c \in Client, Type(c) PROVE DurableBeforeSeen'
  BY <1>7 DEF TypeOK, Type, Durable, logVars
<1>8. ASSUME NEW c \in Client, ReceiveFrame(c) PROVE DurableBeforeSeen'
  BY <1>8 DEF ReceiveFrame, Fault, Durable, logVars, tabVars, connVars, auxVars
<1>9. ASSUME NEW c \in Client, ApplyUpdate(c) PROVE DurableBeforeSeen'
  <2>1. Head(queue[c]) \in committed
    BY <1>9, HeadTail DEF TypeOK, FramesCommitted, ApplyUpdate
  <2>2. Head(queue[c]).edit \in Durable
    BY <2>1 DEF Durable, EditsOf
  <2>. QED
    BY <1>9, <2>2 DEF TypeOK, ApplyUpdate, Durable, logVars, auxVars
<1>10. ASSUME NEW c \in Client, DiscardUpdate(c) PROVE DurableBeforeSeen'
  BY <1>10 DEF DiscardUpdate, Fault, Durable, logVars, tabVars, connVars, auxVars
<1>11. ASSUME NEW c \in Client, ListPending(c) PROVE DurableBeforeSeen'
  BY <1>11 DEF ListPending, Fault, Durable, logVars, tabVars, connVars, auxVars
<1>12. ASSUME NEW c \in Client, PostSnapshot(c) PROVE DurableBeforeSeen'
  BY <1>12 DEF PostSnapshot, Fault, Durable, logVars, tabVars, connVars, auxVars
<1>13. ASSUME NEW c \in Client, CommitSnapshot(c) PROVE DurableBeforeSeen'
  <2>1. Durable \subseteq Durable'
    BY <1>13 DEF CommitSnapshot, CreateSnapshot, Durable
  <2>. QED
    BY <1>13, <2>1 DEF CommitSnapshot, auxVars
<1>14. ASSUME NEW c \in Client, PostFails(c) PROVE DurableBeforeSeen'
  BY <1>14 DEF PostFails, Fault, Durable, logVars, tabVars, connVars, auxVars
<1>15. ASSUME NEW k \in Conn, Drop(k) PROVE DurableBeforeSeen'
  BY <1>15 DEF Drop, Fault, Durable, logVars, tabVars, connVars, auxVars
<1>16. ASSUME NEW k \in Conn, Join(k) PROVE DurableBeforeSeen'
  BY <1>16 DEF Join, Fault, Durable, logVars, tabVars, connVars, auxVars
<1>17. ASSUME NEW k \in Conn, Refuse(k) PROVE DurableBeforeSeen'
  BY <1>17 DEF Refuse, Fault, Durable, logVars, tabVars, connVars, auxVars
<1>18. ASSUME NEW k \in Conn, QueryHistory(k) PROVE DurableBeforeSeen'
  BY <1>18 DEF QueryHistory, Fault, Durable, logVars, tabVars, connVars, auxVars
<1>19. ASSUME NEW k \in Conn, QueryHistoryFails(k) PROVE DurableBeforeSeen'
  BY <1>19 DEF QueryHistoryFails, Fault, Durable, logVars, tabVars, connVars, auxVars
<1>20. ASSUME NEW k \in Conn, ReplayNext(k) PROVE DurableBeforeSeen'
  BY <1>20 DEF ReplayNext, Fault, Durable, logVars, tabVars, connVars, auxVars
<1>21. ASSUME NEW k \in Conn, StartReading(k) PROVE DurableBeforeSeen'
  BY <1>21 DEF StartReading, Fault, Durable, logVars, tabVars, connVars, auxVars
<1>22. ASSUME NEW k \in Conn, BeginAppend(k) PROVE DurableBeforeSeen'
  BY <1>22 DEF BeginAppend, Durable, tabVars, auxVars
<1>23. ASSUME NEW k \in Conn, RejectUpdate(k) PROVE DurableBeforeSeen'
  BY <1>23 DEF RejectUpdate, Fault, Durable, logVars, tabVars, connVars, auxVars
<1>24. ASSUME NEW k \in Conn, CommitAppend(k) PROVE DurableBeforeSeen'
  <2>1. Durable \subseteq Durable'
    BY <1>24 DEF CommitAppend, CommitRow, Durable, EditsOf
  <2>. QED
    BY <1>24, <2>1 DEF CommitAppend, tabVars, auxVars
<1>25. ASSUME NEW k \in Conn, Broadcast(k) PROVE DurableBeforeSeen'
  BY <1>25 DEF Broadcast, Fault, Durable, logVars, tabVars, connVars, auxVars
<1>26. ASSUME NEW k \in Conn, Unwind(k) PROVE DurableBeforeSeen'
  BY <1>26 DEF Unwind, Fault, Durable, logVars, tabVars, connVars, auxVars
<1>27. CASE UNCHANGED vars
  BY <1>27 DEF vars, Durable, logVars, tabVars, connVars, auxVars
<1>. QED
  BY <1>1, <1>2, <1>3, <1>4, <1>5, <1>6, <1>7, <1>8, <1>9, <1>10, <1>11, <1>12, <1>13, <1>14, <1>15, <1>16, <1>17, <1>18, <1>19, <1>20, <1>21, <1>22, <1>23, <1>24, <1>25, <1>26, <1>27 DEF Next, TabStep, ConnStep

(* The server stores an update before anybody else sees it, whatever fails *)
(* and however handlers of old and new sockets interleave.                 *)
THEOREM PersistBeforeBroadcast == Spec => []DurableBeforeSeen
<1>1. Init => DurableBeforeSeen
  BY DEF Init, DurableBeforeSeen
<1>. QED
  BY <1>1, FramesInvariant, NextSeen, PTL DEF Spec

-----------------------------------------------------------------------------
(* DeliveryComplete is not inductive: it needs to know that a connection   *)
(* belongs to one tab, that a serving connection is in the room unless it  *)
(* was evicted, and that whatever a tab's socket still carries towards the *)
(* server is already in the tab's own document.                            *)


(* Connections belong to one tab; the room holds everybody it should.      *)
ConnInv ==
  /\ \A c, d \in Client : conn[c] # NoConn /\ conn[c] = conn[d] => c = d
  /\ \A k \in Conn : handler[k] = "unused" => up[k] = <<>> /\ \A c \in Client : conn[c] # k
  /\ \A k \in Conn : handler[k] \in Serving \cup {"joined"} /\ sock[k] # "evicted" => k \in room

(* What a tab has sent or will send, it has.                               *)
OwnInv ==
  /\ \A c \in Client : Range(pending[c]) \subseteq doc[c]
  /\ \A c \in Client : phase[c] = "loading" => pending[c] = <<>>
  /\ \A c \in Client : \A k \in Conn : conn[c] = k =>
       /\ Range(up[k]) \subseteq doc[c]
       /\ handler[k] \in {"inserting", "persisted"} => cur[k].edit \in doc[c]

LEMMA InitConn == Init => ConnInv /\ OwnInv
BY NoConnAssumption, EmptyRange DEF Init, ConnInv, OwnInv, Serving

LEMMA NextConn == TypeOK /\ ConnInv /\ [Next]_vars => ConnInv'
<1> SUFFICES ASSUME TypeOK, ConnInv, [Next]_vars PROVE ConnInv'
  OBVIOUS
<1>. USE NoConnAssumption DEF ConnInv, Serving
<1>1. ASSUME NEW c \in Client, NEW k \in Conn, LoadSeed(c, k) PROVE ConnInv'
  <2>1. /\ handler[k] = "unused" /\ handler' = [handler EXCEPT ![k] = "handshake"]
        /\ conn' = [conn EXCEPT ![c] = k]
        /\ UNCHANGED <<sock, up, room>>
    BY <1>1 DEF LoadSeed, OpenSocket
  <2>. QED
    BY <2>1 DEF TypeOK
<1>2. ASSUME NEW c \in Client, NEW k \in Conn, LoadSeedFails(c, k) PROVE ConnInv'
  <2>1. /\ handler[k] = "unused" /\ handler' = [handler EXCEPT ![k] = "handshake"]
        /\ conn' = [conn EXCEPT ![c] = k]
        /\ UNCHANGED <<sock, up, room>>
    BY <1>2 DEF LoadSeedFails, OpenSocket
  <2>. QED
    BY <2>1 DEF TypeOK
<1>3. ASSUME NEW c \in Client, NEW k \in Conn, Reconnect(c, k) PROVE ConnInv'
  <2>1. /\ handler[k] = "unused" /\ handler' = [handler EXCEPT ![k] = "handshake"]
        /\ conn' = [conn EXCEPT ![c] = k]
        /\ UNCHANGED <<sock, up, room>>
    BY <1>3 DEF Reconnect, OpenSocket
  <2>. QED
    BY <2>1 DEF TypeOK
<1>4. ASSUME NEW c \in Client, HandleOpen(c) PROVE ConnInv'
  <2>. DEFINE k == conn[c]
  <2>1. k \in Conn /\ handler[k] # "unused"
    BY <1>4 DEF TypeOK, HandleOpen
  <2>. QED
    BY <1>4, <2>1 DEF TypeOK, HandleOpen
<1>5. ASSUME NEW c \in Client, HandleClose(c) PROVE ConnInv'
  BY <1>5 DEF TypeOK, HandleClose, Fault, logVars, tabVars, connVars, auxVars
<1>6. ASSUME NEW c \in Client, Reload(c) PROVE ConnInv'
  BY <1>6 DEF TypeOK, Reload, Fault, logVars, tabVars, connVars, auxVars
<1>7. ASSUME NEW c \in Client, Type(c) PROVE ConnInv'
  <2>1. \A m \in Conn : handler[m] = "unused" => up'[m] = up[m]
    BY <1>7 DEF TypeOK, Type
  <2>. QED
    BY <1>7, <2>1 DEF Type
<1>8. ASSUME NEW c \in Client, ReceiveFrame(c) PROVE ConnInv'
  BY <1>8 DEF TypeOK, ReceiveFrame, Fault, logVars, tabVars, connVars, auxVars
<1>9. ASSUME NEW c \in Client, ApplyUpdate(c) PROVE ConnInv'
  BY <1>9 DEF TypeOK, ApplyUpdate, Fault, logVars, tabVars, connVars, auxVars
<1>10. ASSUME NEW c \in Client, DiscardUpdate(c) PROVE ConnInv'
  BY <1>10 DEF TypeOK, DiscardUpdate, Fault, logVars, tabVars, connVars, auxVars
<1>11. ASSUME NEW c \in Client, ListPending(c) PROVE ConnInv'
  BY <1>11 DEF TypeOK, ListPending, Fault, logVars, tabVars, connVars, auxVars
<1>12. ASSUME NEW c \in Client, PostSnapshot(c) PROVE ConnInv'
  BY <1>12 DEF TypeOK, PostSnapshot, Fault, logVars, tabVars, connVars, auxVars
<1>13. ASSUME NEW c \in Client, CommitSnapshot(c) PROVE ConnInv'
  BY <1>13 DEF TypeOK, CommitSnapshot, Fault, logVars, tabVars, connVars, auxVars
<1>14. ASSUME NEW c \in Client, PostFails(c) PROVE ConnInv'
  BY <1>14 DEF TypeOK, PostFails, Fault, logVars, tabVars, connVars, auxVars
<1>15. ASSUME NEW k \in Conn, Drop(k) PROVE ConnInv'
  BY <1>15 DEF TypeOK, Drop, Fault, logVars, tabVars, connVars, auxVars
<1>16. ASSUME NEW k \in Conn, Join(k) PROVE ConnInv'
  BY <1>16 DEF TypeOK, Join, Fault, logVars, tabVars, connVars, auxVars
<1>17. ASSUME NEW k \in Conn, Refuse(k) PROVE ConnInv'
  BY <1>17 DEF TypeOK, Refuse, Fault, logVars, tabVars, connVars, auxVars
<1>18. ASSUME NEW k \in Conn, QueryHistory(k) PROVE ConnInv'
  BY <1>18 DEF TypeOK, QueryHistory, Fault, logVars, tabVars, connVars, auxVars
<1>19. ASSUME NEW k \in Conn, QueryHistoryFails(k) PROVE ConnInv'
  BY <1>19 DEF TypeOK, QueryHistoryFails, Fault, logVars, tabVars, connVars, auxVars
<1>20. ASSUME NEW k \in Conn, ReplayNext(k) PROVE ConnInv'
  BY <1>20 DEF TypeOK, ReplayNext, Fault, logVars, tabVars, connVars, auxVars
<1>21. ASSUME NEW k \in Conn, StartReading(k) PROVE ConnInv'
  BY <1>21 DEF TypeOK, StartReading, Fault, logVars, tabVars, connVars, auxVars
<1>22. ASSUME NEW k \in Conn, BeginAppend(k) PROVE ConnInv'
  BY <1>22 DEF TypeOK, BeginAppend, Fault, logVars, tabVars, connVars, auxVars
<1>23. ASSUME NEW k \in Conn, RejectUpdate(k) PROVE ConnInv'
  BY <1>23 DEF TypeOK, RejectUpdate, Fault, logVars, tabVars, connVars, auxVars
<1>24. ASSUME NEW k \in Conn, CommitAppend(k) PROVE ConnInv'
  BY <1>24 DEF TypeOK, CommitAppend, Fault, logVars, tabVars, connVars, auxVars
<1>25. ASSUME NEW k \in Conn, Broadcast(k) PROVE ConnInv'
  BY <1>25 DEF TypeOK, Broadcast, Fault, logVars, tabVars, connVars, auxVars
<1>26. ASSUME NEW k \in Conn, Unwind(k) PROVE ConnInv'
  BY <1>26 DEF TypeOK, Unwind, Fault, logVars, tabVars, connVars, auxVars
<1>27. CASE UNCHANGED vars
  BY <1>27 DEF vars, tabVars, connVars
<1>. QED
  BY <1>1, <1>2, <1>3, <1>4, <1>5, <1>6, <1>7, <1>8, <1>9, <1>10, <1>11, <1>12, <1>13, <1>14, <1>15, <1>16, <1>17, <1>18, <1>19, <1>20, <1>21, <1>22, <1>23, <1>24, <1>25, <1>26, <1>27 DEF Next, TabStep, ConnStep

LEMMA NextOwn == TypeOK /\ ConnInv /\ OwnInv /\ [Next]_vars => OwnInv'
<1> SUFFICES ASSUME TypeOK, ConnInv, OwnInv, [Next]_vars PROVE OwnInv'
  OBVIOUS
<1>. USE NoConnAssumption DEF OwnInv
<1>1. ASSUME NEW c \in Client, NEW k \in Conn, LoadSeed(c, k) PROVE OwnInv'
  <2>1. /\ handler[k] = "unused" /\ handler' = [handler EXCEPT ![k] = "handshake"]
        /\ conn' = [conn EXCEPT ![c] = k] /\ phase' = [phase EXCEPT ![c] = "connecting"]
        /\ UNCHANGED <<up, cur, pending>>
        /\ \A d \in Client \ {c} : doc'[d] = doc[d]
    BY <1>1 DEF TypeOK, LoadSeed, OpenSocket
  <2>2. up[k] = <<>> /\ \A d \in Client : conn[d] # k
    BY <2>1 DEF ConnInv
  <2>3. pending[c] = <<>> \/ doc'[c] = doc[c]
    BY <1>1 DEF LoadSeed
  <2>. QED
    BY <2>1, <2>2, <2>3, EmptyRange DEF TypeOK
<1>2. ASSUME NEW c \in Client, NEW k \in Conn, LoadSeedFails(c, k) PROVE OwnInv'
  <2>1. /\ handler[k] = "unused" /\ handler' = [handler EXCEPT ![k] = "handshake"]
        /\ conn' = [conn EXCEPT ![c] = k] /\ phase' = [phase EXCEPT ![c] = "connecting"]
        /\ UNCHANGED <<up, cur, pending>>
        /\ \A d \in Client \ {c} : doc'[d] = doc[d]
    BY <1>2 DEF TypeOK, LoadSeedFails, OpenSocket
  <2>2. up[k] = <<>> /\ \A d \in Client : conn[d] # k
    BY <2>1 DEF ConnInv
  <2>3. pending[c] = <<>> \/ doc'[c] = doc[c]
    BY <1>2 DEF LoadSeedFails
  <2>. QED
    BY <2>1, <2>2, <2>3, EmptyRange DEF TypeOK
<1>3. ASSUME NEW c \in Client, NEW k \in Conn, Reconnect(c, k) PROVE OwnInv'
  <2>1. /\ handler[k] = "unused" /\ handler' = [handler EXCEPT ![k] = "handshake"]
        /\ conn' = [conn EXCEPT ![c] = k] /\ phase' = [phase EXCEPT ![c] = "connecting"]
        /\ UNCHANGED <<up, cur, pending>>
        /\ \A d \in Client \ {c} : doc'[d] = doc[d]
    BY <1>3 DEF TypeOK, Reconnect, OpenSocket
  <2>2. up[k] = <<>> /\ \A d \in Client : conn[d] # k
    BY <2>1 DEF ConnInv
  <2>3. pending[c] = <<>> \/ doc'[c] = doc[c]
    BY <1>3 DEF Reconnect
  <2>. QED
    BY <2>1, <2>2, <2>3, EmptyRange DEF TypeOK
<1>4. ASSUME NEW c \in Client, HandleOpen(c) PROVE OwnInv'
  <2>. DEFINE k == conn[c]
  <2>1. k \in Conn /\ up[k] \in Seq(Nat) /\ pending[c] \in Seq(Nat)
    BY <1>4 DEF TypeOK, HandleOpen
  <2>2. Range(up[k] \o pending[c]) = Range(up[k]) \cup Range(pending[c])
    BY <2>1, RangeConcatenation
  <2>3. \A d \in Client, m \in Conn : conn[d] = m => Range(up'[m]) \subseteq doc[d]
    BY <1>4, <2>1, <2>2 DEF TypeOK, ConnInv, HandleOpen
  <2>4. \A d \in Client : Range(pending'[d]) \subseteq doc[d]
    BY <1>4, EmptyRange DEF TypeOK, HandleOpen
  <2>. QED
    BY <1>4, <2>3, <2>4 DEF TypeOK, HandleOpen
<1>5. ASSUME NEW c \in Client, HandleClose(c) PROVE OwnInv'
  BY <1>5 DEF TypeOK, HandleClose, Fault, logVars, tabVars, connVars, auxVars
<1>6. ASSUME NEW c \in Client, Reload(c) PROVE OwnInv'
  BY <1>6, EmptyRange DEF TypeOK, Reload
<1>7. ASSUME NEW c \in Client, Type(c) PROVE OwnInv'
  <2>. DEFINE e == edits + 1
              k == conn[c]
  <2>0. e \in Nat /\ pending[c] \in Seq(Nat) /\ \A m \in Conn : up[m] \in Seq(Nat)
    BY DEF TypeOK
  <2>1. e \in Nat /\ Range(Append(pending[c], e)) = Range(pending[c]) \cup {e}
    BY <2>0, AppendRange
  <2>2. \A m \in Conn : Range(Append(up[m], e)) = Range(up[m]) \cup {e}
    BY <2>0, AppendRange
  <2>3. doc' = [doc EXCEPT ![c] = @ \cup {e}] /\ UNCHANGED <<phase, conn, handler, cur>>
    BY <1>7 DEF Type
  <2>4. CASE phase[c] = "connected" /\ up' = [up EXCEPT ![k] = Append(@, e)] /\ UNCHANGED pending
    <3>1. \A d \in Client, m \in Conn : conn[d] = m => Range(up'[m]) \subseteq doc'[d]
      <4>1. ASSUME NEW d \in Client, NEW m \in Conn, conn[d] = m
            PROVE  Range(up'[m]) \subseteq doc'[d]
        <5>1. CASE m = k
          BY <2>2, <2>3, <2>4, <4>1, <5>1 DEF TypeOK, ConnInv
        <5>2. CASE m # k
          BY <2>3, <2>4, <4>1, <5>2 DEF TypeOK
        <5>. QED
          BY <5>1, <5>2
      <4>. QED
        BY <4>1
    <3>. QED
      BY <2>3, <2>4, <3>1 DEF TypeOK
  <2>5. CASE phase[c] # "connected" /\ pending' = [pending EXCEPT ![c] = Append(@, e)] /\ UNCHANGED up
    BY <1>7, <2>1, <2>3, <2>5 DEF TypeOK, Type
  <2>. QED
    BY <1>7, <2>4, <2>5 DEF Type
<1>8. ASSUME NEW c \in Client, ReceiveFrame(c) PROVE OwnInv'
  BY <1>8 DEF TypeOK, ReceiveFrame, Fault, logVars, tabVars, connVars, auxVars
<1>9. ASSUME NEW c \in Client, ApplyUpdate(c) PROVE OwnInv'
  BY <1>9 DEF TypeOK, ApplyUpdate, connVars
<1>10. ASSUME NEW c \in Client, DiscardUpdate(c) PROVE OwnInv'
  BY <1>10 DEF TypeOK, DiscardUpdate, Fault, logVars, tabVars, connVars, auxVars
<1>11. ASSUME NEW c \in Client, ListPending(c) PROVE OwnInv'
  BY <1>11 DEF TypeOK, ListPending, Fault, logVars, tabVars, connVars, auxVars
<1>12. ASSUME NEW c \in Client, PostSnapshot(c) PROVE OwnInv'
  BY <1>12 DEF TypeOK, PostSnapshot, Fault, logVars, tabVars, connVars, auxVars
<1>13. ASSUME NEW c \in Client, CommitSnapshot(c) PROVE OwnInv'
  BY <1>13 DEF TypeOK, CommitSnapshot, Fault, logVars, tabVars, connVars, auxVars
<1>14. ASSUME NEW c \in Client, PostFails(c) PROVE OwnInv'
  BY <1>14 DEF TypeOK, PostFails, Fault, logVars, tabVars, connVars, auxVars
<1>15. ASSUME NEW k \in Conn, Drop(k) PROVE OwnInv'
  BY <1>15 DEF TypeOK, Drop, Fault, logVars, tabVars, connVars, auxVars
<1>16. ASSUME NEW k \in Conn, Join(k) PROVE OwnInv'
  BY <1>16 DEF TypeOK, Join, Fault, logVars, tabVars, connVars, auxVars
<1>17. ASSUME NEW k \in Conn, Refuse(k) PROVE OwnInv'
  BY <1>17 DEF TypeOK, Refuse, Fault, logVars, tabVars, connVars, auxVars
<1>18. ASSUME NEW k \in Conn, QueryHistory(k) PROVE OwnInv'
  BY <1>18 DEF TypeOK, QueryHistory, Fault, logVars, tabVars, connVars, auxVars
<1>19. ASSUME NEW k \in Conn, QueryHistoryFails(k) PROVE OwnInv'
  BY <1>19 DEF TypeOK, QueryHistoryFails, Fault, logVars, tabVars, connVars, auxVars
<1>20. ASSUME NEW k \in Conn, ReplayNext(k) PROVE OwnInv'
  BY <1>20 DEF TypeOK, ReplayNext, Fault, logVars, tabVars, connVars, auxVars
<1>21. ASSUME NEW k \in Conn, StartReading(k) PROVE OwnInv'
  BY <1>21 DEF TypeOK, StartReading, Fault, logVars, tabVars, connVars, auxVars
<1>22. ASSUME NEW k \in Conn, BeginAppend(k) PROVE OwnInv'
  <2>1. up[k] \in Seq(Nat) /\ up[k] # <<>> /\ Range(up[k]) = {Head(up[k])} \cup Range(Tail(up[k]))
    BY <1>22, HeadTail DEF TypeOK, BeginAppend
  <2>2. \A m \in Conn : Range(up'[m]) \subseteq Range(up[m])
    BY <1>22, <2>1 DEF TypeOK, BeginAppend
  <2>3. \A c \in Client : conn[c] = k => Head(up[k]) \in doc[c]
    BY <2>1
  <2>. QED
    BY <1>22, <2>2, <2>3 DEF TypeOK, BeginAppend, tabVars
<1>23. ASSUME NEW k \in Conn, RejectUpdate(k) PROVE OwnInv'
  <2>1. up[k] \in Seq(Nat) /\ up[k] # <<>> /\ Range(up[k]) = {Head(up[k])} \cup Range(Tail(up[k]))
    BY <1>23, HeadTail DEF TypeOK, RejectUpdate
  <2>2. \A m \in Conn : Range(up'[m]) \subseteq Range(up[m])
    BY <1>23, <2>1 DEF TypeOK, RejectUpdate
  <2>3. \A c \in Client : conn[c] = k => Head(up[k]) \in doc[c]
    BY <2>1
  <2>. QED
    BY <1>23, <2>2, <2>3 DEF TypeOK, RejectUpdate, tabVars
<1>24. ASSUME NEW k \in Conn, CommitAppend(k) PROVE OwnInv'
  BY <1>24 DEF TypeOK, CommitAppend, Fault, logVars, tabVars, connVars, auxVars
<1>25. ASSUME NEW k \in Conn, Broadcast(k) PROVE OwnInv'
  BY <1>25 DEF TypeOK, Broadcast, Fault, logVars, tabVars, connVars, auxVars
<1>26. ASSUME NEW k \in Conn, Unwind(k) PROVE OwnInv'
  BY <1>26 DEF TypeOK, Unwind, Fault, logVars, tabVars, connVars, auxVars
<1>27. CASE UNCHANGED vars
  BY <1>27 DEF vars, tabVars, connVars
<1>. QED
  BY <1>1, <1>2, <1>3, <1>4, <1>5, <1>6, <1>7, <1>8, <1>9, <1>10, <1>11, <1>12, <1>13, <1>14, <1>15, <1>16, <1>17, <1>18, <1>19, <1>20, <1>21, <1>22, <1>23, <1>24, <1>25, <1>26, <1>27 DEF Next, TabStep, ConnStep

-----------------------------------------------------------------------------
(* The step: a stored update that was covered stays covered, and one that  *)
(* becomes stored or becomes due is covered at once.                       *)
LEMMA NextDelivery ==
  TypeOK /\ ConnInv /\ OwnInv /\ DeliveryComplete /\ [Next]_vars => DeliveryComplete'
<1>. DEFINE Served(c, k) == conn[c] = k /\ sock[k] = "open" /\ handler[k] \in Serving
            Covers(r, c, k) == r.edit \in doc[c] \/ r \in OnItsWay(c, k)
<1> SUFFICES ASSUME TypeOK, ConnInv, OwnInv, DeliveryComplete, [Next]_vars,
                    Faults \cap {"discard", "replayFails"} = {},
                    NEW d \in Client, NEW m \in Conn, Served(d, m)',
                    NEW r \in rows', r.id > since'[m]
             PROVE  Covers(r, d, m)'
  BY DEF DeliveryComplete
<1>. DEFINE Goal == Covers(r, d, m)'
<1>a. Served(d, m) /\ r \in rows /\ r.id > since[m] => Covers(r, d, m)
  BY DEF DeliveryComplete
<1>. USE DEF OnItsWay, AboutToBroadcast
<1>1. ASSUME NEW c \in Client, NEW k \in Conn, LoadSeed(c, k) PROVE Goal
  <2>1. /\ handler[k] = "unused" /\ handler' = [handler EXCEPT ![k] = "handshake"]
        /\ conn' = [conn EXCEPT ![c] = k]
        /\ \A n \in Conn : n # k => since'[n] = since[n]
        /\ \A e \in Client \ {c} : doc'[e] = doc[e]
        /\ UNCHANGED <<rows, sock, down, queue, replay, cur>>
    BY <1>1 DEF TypeOK, LoadSeed, OpenSocket, logVars
  <2>2. m # k /\ d # c
    BY <2>1 DEF TypeOK, Serving
  <2>3. Served(d, m) /\ since'[m] = since[m] /\ doc'[d] = doc[d]
    BY <2>1, <2>2 DEF TypeOK
  <2>4. \A n \in Conn : handler'[n] = "persisted" <=> handler[n] = "persisted"
    BY <2>1 DEF TypeOK
  <2>. QED
    BY <2>1, <2>3, <2>4, <1>a
<1>2. ASSUME NEW c \in Client, NEW k \in Conn, LoadSeedFails(c, k) PROVE Goal
  <2>1. /\ handler[k] = "unused" /\ handler' = [handler EXCEPT ![k] = "handshake"]
        /\ conn' = [conn EXCEPT ![c] = k]
        /\ \A n \in Conn : n # k => since'[n] = since[n]
        /\ \A e \in Client \ {c} : doc'[e] = doc[e]
        /\ UNCHANGED <<rows, sock, down, queue, replay, cur>>
    BY <1>2 DEF TypeOK, LoadSeedFails, OpenSocket, logVars
  <2>2. m # k /\ d # c
    BY <2>1 DEF TypeOK, Serving
  <2>3. Served(d, m) /\ since'[m] = since[m] /\ doc'[d] = doc[d]
    BY <2>1, <2>2 DEF TypeOK
  <2>4. \A n \in Conn : handler'[n] = "persisted" <=> handler[n] = "persisted"
    BY <2>1 DEF TypeOK
  <2>. QED
    BY <2>1, <2>3, <2>4, <1>a
<1>3. ASSUME NEW c \in Client, NEW k \in Conn, Reconnect(c, k) PROVE Goal
  <2>1. /\ handler[k] = "unused" /\ handler' = [handler EXCEPT ![k] = "handshake"]
        /\ conn' = [conn EXCEPT ![c] = k]
        /\ \A n \in Conn : n # k => since'[n] = since[n]
        /\ \A e \in Client \ {c} : doc'[e] = doc[e]
        /\ UNCHANGED <<rows, sock, down, queue, replay, cur>>
    BY <1>3 DEF TypeOK, Reconnect, OpenSocket, logVars
  <2>2. m # k /\ d # c
    BY <2>1 DEF TypeOK, Serving
  <2>3. Served(d, m) /\ since'[m] = since[m] /\ doc'[d] = doc[d]
    BY <2>1, <2>2 DEF TypeOK
  <2>4. \A n \in Conn : handler'[n] = "persisted" <=> handler[n] = "persisted"
    BY <2>1 DEF TypeOK
  <2>. QED
    BY <2>1, <2>3, <2>4, <1>a
<1>4. ASSUME NEW c \in Client, HandleOpen(c) PROVE Goal
  BY <1>4, <1>a DEF TypeOK, HandleOpen, Fault, logVars, tabVars, connVars, auxVars, Serving
<1>5. ASSUME NEW c \in Client, HandleClose(c) PROVE Goal
  <2>1. Served(d, m)
    BY <1>5, NoConnAssumption DEF TypeOK, HandleClose, connVars
  <2>. QED
    BY <1>5, <1>a, <2>1 DEF HandleClose, logVars, connVars
<1>6. ASSUME NEW c \in Client, Reload(c) PROVE Goal
  <2>1. d # c
    BY <1>6, NoConnAssumption DEF TypeOK, Reload
  <2>2. Served(d, m) /\ doc'[d] = doc[d] /\ queue'[d] = queue[d]
    BY <1>6, <2>1 DEF TypeOK, Reload
  <2>. QED
    BY <1>6, <1>a, <2>2 DEF Reload, logVars
<1>7. ASSUME NEW c \in Client, Type(c) PROVE Goal
  <2>1. doc[d] \subseteq doc'[d]
    BY <1>7 DEF TypeOK, Type
  <2>. QED
    BY <1>7, <1>a, <2>1 DEF Type, logVars
<1>8. ASSUME NEW c \in Client, ReceiveFrame(c) PROVE Goal
  <2>. DEFINE k == conn[c]
              f == Head(down[k])
  <2>1. k \in Conn /\ down[k] \in Seq(Update) /\ down[k] # <<>> /\ queue[c] \in Seq(Update)
    BY <1>8 DEF TypeOK, ReceiveFrame
  <2>2. f \in Update /\ Range(down[k]) = {f} \cup Range(Tail(down[k]))
    BY <2>1, HeadTail
  <2>3. Range(Append(queue[c], f)) = Range(queue[c]) \cup {f}
    BY <2>1, <2>2, AppendRange
  <2>4. Covers(r, d, m)
    BY <1>8, <1>a DEF ReceiveFrame, logVars
  <2>5. /\ down' = [down EXCEPT ![k] = Tail(@)] /\ queue' = [queue EXCEPT ![c] = Append(@, f)]
        /\ UNCHANGED <<doc, conn, handler, replay, cur>>
    BY <1>8 DEF ReceiveFrame
  <2>6. CASE m = k
    <3>1. d = c
      BY <2>1, <2>5, <2>6, NoConnAssumption DEF ConnInv
    <3>2. Range(down'[m]) = Range(Tail(down[k])) /\ Range(queue'[d]) = Range(queue[c]) \cup {f}
      BY <2>1, <2>3, <2>5, <2>6, <3>1 DEF TypeOK
    <3>. QED
      BY <2>2, <2>4, <2>5, <2>6, <3>1, <3>2
  <2>7. CASE m # k
    <3>1. d # c /\ down'[m] = down[m] /\ queue'[d] = queue[d]
      BY <2>1, <2>5, <2>7 DEF TypeOK
    <3>. QED
      BY <2>4, <2>5, <3>1
  <2>. QED
    BY <2>6, <2>7
<1>9. ASSUME NEW c \in Client, ApplyUpdate(c) PROVE Goal
  <2>1. Range(queue[c]) = {Head(queue[c])} \cup Range(Tail(queue[c]))
    BY <1>9, HeadTail DEF TypeOK, ApplyUpdate
  <2>2. Covers(r, d, m)
    BY <1>9, <1>a DEF ApplyUpdate, logVars, connVars
  <2>3. /\ doc' = [doc EXCEPT ![c] = @ \cup {Head(queue[c]).edit}] /\ queue' = [queue EXCEPT ![c] = Tail(@)]
        /\ UNCHANGED <<down, replay, cur, handler>>
    BY <1>9 DEF ApplyUpdate, connVars
  <2>4. CASE d = c
    BY <2>1, <2>2, <2>3, <2>4 DEF TypeOK
  <2>5. CASE d # c
    BY <2>2, <2>3, <2>5 DEF TypeOK
  <2>. QED
    BY <2>4, <2>5
<1>10. ASSUME NEW c \in Client, DiscardUpdate(c) PROVE Goal
  BY <1>10 DEF DiscardUpdate, Fault
<1>11. ASSUME NEW c \in Client, ListPending(c) PROVE Goal
  BY <1>11, <1>a DEF TypeOK, ListPending, Fault, logVars, tabVars, connVars, auxVars, Serving
<1>12. ASSUME NEW c \in Client, PostSnapshot(c) PROVE Goal
  BY <1>12, <1>a DEF TypeOK, PostSnapshot, Fault, logVars, tabVars, connVars, auxVars, Serving
<1>13. ASSUME NEW c \in Client, CommitSnapshot(c) PROVE Goal
  BY <1>13, <1>a DEF CommitSnapshot, CreateSnapshot, connVars
<1>14. ASSUME NEW c \in Client, PostFails(c) PROVE Goal
  BY <1>14, <1>a DEF TypeOK, PostFails, Fault, logVars, tabVars, connVars, auxVars, Serving
<1>15. ASSUME NEW k \in Conn, Drop(k) PROVE Goal
  <2>1. Served(d, m)
    BY <1>15 DEF TypeOK, Drop, tabVars, Serving
  <2>. QED
    BY <1>15, <1>a, <2>1 DEF Drop, logVars, tabVars
<1>16. ASSUME NEW k \in Conn, Join(k) PROVE Goal
  <2>1. Served(d, m)
    BY <1>16 DEF TypeOK, Join, Fault, tabVars, Serving
  <2>2. \A n \in Conn : handler'[n] = "persisted" <=> handler[n] = "persisted"
    BY <1>16 DEF TypeOK, Join
  <2>. QED
    BY <1>16, <1>a, <2>1, <2>2 DEF Join, logVars, tabVars
<1>17. ASSUME NEW k \in Conn, Refuse(k) PROVE Goal
  <2>1. Served(d, m)
    BY <1>17 DEF TypeOK, Refuse, Fault, tabVars, Serving
  <2>2. \A n \in Conn : handler'[n] = "persisted" <=> handler[n] = "persisted"
    BY <1>17 DEF TypeOK, Refuse
  <2>. QED
    BY <1>17, <1>a, <2>1, <2>2 DEF Refuse, logVars, tabVars
<1>18. ASSUME NEW k \in Conn, QueryHistory(k) PROVE Goal
  <2>1. \A n \in Conn : handler'[n] = "persisted" <=> handler[n] = "persisted"
    BY <1>18 DEF TypeOK, QueryHistory
  <2>2. CASE m = k
    <3>1. r \in replay'[m]
      BY <1>18, <2>2 DEF TypeOK, QueryHistory, RowsSince, logVars
    <3>. QED
      BY <3>1
  <2>3. CASE m # k
    <3>1. Served(d, m) /\ replay'[m] = replay[m]
      BY <1>18, <2>3 DEF TypeOK, QueryHistory, tabVars
    <3>. QED
      BY <1>18, <1>a, <2>1, <3>1 DEF QueryHistory, logVars, tabVars
  <2>. QED
    BY <2>2, <2>3
<1>19. ASSUME NEW k \in Conn, QueryHistoryFails(k) PROVE Goal
  BY <1>19 DEF QueryHistoryFails, Fault
<1>20. ASSUME NEW k \in Conn, ReplayNext(k) PROVE Goal
  <2>1. PICK u \in replay[k] :
          /\ down' = [down EXCEPT ![k] = Append(@, u)]
          /\ replay' = [replay EXCEPT ![k] = @ \ {u}]
    BY <1>20 DEF ReplayNext
  <2>2. Range(Append(down[k], u)) = Range(down[k]) \cup {u}
    BY AppendRange DEF TypeOK
  <2>3. Covers(r, d, m) /\ UNCHANGED <<queue, doc, handler, cur>>
    BY <1>20, <1>a DEF ReplayNext, logVars, tabVars
  <2>4. Range(down[m]) \cup replay[m] \subseteq Range(down'[m]) \cup replay'[m]
    BY <2>1, <2>2 DEF TypeOK
  <2>. QED
    BY <2>3, <2>4
<1>21. ASSUME NEW k \in Conn, StartReading(k) PROVE Goal
  <2>1. Served(d, m)
    BY <1>21 DEF TypeOK, StartReading, Fault, tabVars, Serving
  <2>2. \A n \in Conn : handler'[n] = "persisted" <=> handler[n] = "persisted"
    BY <1>21 DEF TypeOK, StartReading
  <2>. QED
    BY <1>21, <1>a, <2>1, <2>2 DEF StartReading, logVars, tabVars
<1>22. ASSUME NEW k \in Conn, BeginAppend(k) PROVE Goal
  <2>1. Served(d, m)
    BY <1>22 DEF TypeOK, BeginAppend, tabVars, Serving
  <2>2. \A n \in Conn : handler[n] = "persisted" => handler'[n] = "persisted" /\ cur'[n] = cur[n]
    BY <1>22 DEF TypeOK, BeginAppend
  <2>3. Covers(r, d, m) /\ UNCHANGED <<queue, doc, down, replay>>
    BY <1>22, <1>a, <2>1 DEF BeginAppend, tabVars
  <2>. QED
    BY <2>2, <2>3
<1>23. ASSUME NEW k \in Conn, RejectUpdate(k) PROVE Goal
  BY <1>23, <1>a DEF TypeOK, RejectUpdate, Fault, logVars, tabVars, connVars, auxVars, Serving
<1>24. ASSUME NEW k \in Conn, CommitAppend(k) PROVE Goal
  <2>1. Served(d, m) /\ UNCHANGED <<queue, doc, down, replay, cur, since>>
    BY <1>24 DEF TypeOK, CommitAppend, tabVars, Serving
  <2>2. \A n \in Conn : n = k \/ handler[n] = "persisted" => handler'[n] = "persisted"
    BY <1>24 DEF TypeOK, CommitAppend
  <2>3. CASE r \in rows
    BY <1>a, <2>1, <2>2, <2>3
  <2>4. CASE r = cur[k]
    <3>1. CASE m = k
      BY <1>24, <2>1, <2>4, <3>1 DEF CommitAppend, OwnInv
    <3>2. CASE m # k
      BY <2>1, <2>2, <2>4, <3>2
    <3>. QED
      BY <3>1, <3>2
  <2>. QED
    BY <1>24, <2>3, <2>4 DEF CommitAppend, CommitRow
<1>25. ASSUME NEW k \in Conn, Broadcast(k) PROVE Goal
  <2>1. Served(d, m) /\ m \notin Slow(k)
    BY <1>25 DEF TypeOK, Broadcast, tabVars, Serving
  <2>2. m \in room
    BY <2>1 DEF ConnInv
  <2>3. Covers(r, d, m) /\ UNCHANGED <<queue, doc, replay, cur>>
    BY <1>25, <1>a, <2>1 DEF Broadcast, logVars, tabVars
  <2>4. \A n \in Conn \ {k} : handler[n] = "persisted" => handler'[n] = "persisted"
    BY <1>25 DEF TypeOK, Broadcast
  <2>5. CASE m = k
    <3>1. down'[m] = down[m]
      BY <1>25, <2>5 DEF TypeOK, Broadcast
    <3>. QED
      BY <2>3, <2>4, <2>5, <3>1
  <2>6. CASE m # k
    <3>1. Range(down'[m]) = Range(down[m]) \cup {cur[k]}
      <4>1. down'[m] = Append(down[m], cur[k])
        BY <1>25, <2>1, <2>2, <2>6 DEF Broadcast
      <4>2. down[m] \in Seq(Update) /\ cur[k] \in Update
        BY DEF TypeOK
      <4>. QED
        BY <4>1, <4>2, AppendRange
    <3>. QED
      BY <2>3, <2>4, <3>1
  <2>. QED
    BY <2>5, <2>6
<1>26. ASSUME NEW k \in Conn, Unwind(k) PROVE Goal
  <2>1. Served(d, m)
    BY <1>26 DEF TypeOK, Unwind, Fault, tabVars, Serving
  <2>2. \A n \in Conn : handler'[n] = "persisted" <=> handler[n] = "persisted"
    BY <1>26 DEF TypeOK, Unwind
  <2>. QED
    BY <1>26, <1>a, <2>1, <2>2 DEF Unwind, logVars, tabVars
<1>27. CASE UNCHANGED vars
  BY <1>27, <1>a DEF vars, logVars, tabVars, connVars
<1>. QED
  BY <1>1, <1>2, <1>3, <1>4, <1>5, <1>6, <1>7, <1>8, <1>9, <1>10, <1>11, <1>12, <1>13, <1>14, <1>15, <1>16, <1>17, <1>18, <1>19, <1>20, <1>21, <1>22, <1>23, <1>24, <1>25, <1>26, <1>27 DEF Next, TabStep, ConnStep

(* Join before replay loses nothing that is stored, for any number of tabs *)
(* and connections, with drops, evictions, reloads and compaction.         *)
THEOREM JoinBeforeReplay == Spec => []DeliveryComplete
<1>1. Init => DeliveryComplete
  BY DEF Init, DeliveryComplete, Serving
<1>. QED
  BY <1>1, InitType, NextType, InitConn, NextConn, NextOwn, NextDelivery, PTL DEF Spec
-----------------------------------------------------------------------------
(* What is stored.                                                         *)

Once(s) == \A i, j \in DOMAIN s : s[i] = s[j] => i = j

LEMMA ConcatOnce ==
  ASSUME NEW S, NEW s \in Seq(S), NEW t \in Seq(S)
  PROVE  /\ s \o t \in Seq(S)
         /\ Range(s \o t) = Range(s) \cup Range(t)
         /\ Once(s) /\ Once(t) /\ Range(s) \cap Range(t) = {} => Once(s \o t)
<1>. DEFINE m == Len(s)
           n == Len(t)
           st == s \o t
<1>1. /\ m \in Nat /\ n \in Nat /\ st \in Seq(S) /\ Len(st) = m + n
      /\ DOMAIN s = 1 .. m /\ DOMAIN t = 1 .. n /\ DOMAIN st = 1 .. m + n
      /\ \A i \in 1 .. m + n : st[i] = IF i <= m THEN s[i] ELSE t[i - m]
  BY ConcatProperties, LenProperties
<1>2. \A i \in 1 .. m + n : \/ i \in 1 .. m /\ st[i] = s[i]
                            \/ i - m \in 1 .. n /\ st[i] = t[i - m]
  BY <1>1
<1>3. /\ \A i \in 1 .. m : i \in 1 .. m + n /\ st[i] = s[i]
      /\ \A i \in 1 .. n : i + m \in 1 .. m + n /\ st[i + m] = t[i]
  BY <1>1
<1>. HIDE DEF m, n, st
<1>4. Range(st) = Range(s) \cup Range(t)
  <2>1. Range(st) \subseteq Range(s) \cup Range(t)
    <3>1. ASSUME NEW i \in 1 .. m + n PROVE st[i] \in Range(s) \cup Range(t)
      BY <1>1, <1>2 DEF Range
    <3>. QED
      BY <1>1, <3>1 DEF Range
  <2>2. ASSUME NEW i \in 1 .. m PROVE s[i] \in Range(st)
    BY <1>1, <1>3 DEF Range
  <2>3. ASSUME NEW i \in 1 .. n PROVE t[i] \in Range(st)
    BY <1>1, <1>3 DEF Range
  <2>4. Range(s) \subseteq Range(st) /\ Range(t) \subseteq Range(st)
    BY <1>1, <2>2, <2>3 DEF Range
  <2>. QED
    BY <2>1, <2>4
<1>5. ASSUME Once(s), Once(t), Range(s) \cap Range(t) = {} PROVE Once(st)
  <2>1. ASSUME NEW i \in 1 .. m + n, NEW j \in 1 .. m + n, st[i] = st[j] PROVE i = j
    <3>1. CASE i \in 1 .. m /\ st[i] = s[i] /\ j \in 1 .. m /\ st[j] = s[j]
      BY <1>1, <1>5, <2>1, <3>1 DEF Once
    <3>2. CASE i - m \in 1 .. n /\ st[i] = t[i - m] /\ j - m \in 1 .. n /\ st[j] = t[j - m]
      <4>1. i - m = j - m
        BY <1>1, <1>5, <2>1, <3>2 DEF Once
      <4>. QED
        BY <1>1, <4>1
    <3>3. \A x \in 1 .. m, y \in 1 .. n : s[x] # t[y]
      BY <1>1, <1>5 DEF Range
    <3>. QED
      BY <1>2, <2>1, <3>1, <3>2, <3>3
  <2>. QED
    BY <1>1, <2>1 DEF Once
<1>. QED
  BY <1>1, <1>4, <1>5 DEF st

LEMMA TailOnce ==
  ASSUME NEW S, NEW s \in Seq(S), s # <<>>, Once(s)
  PROVE  Once(Tail(s)) /\ Head(s) \notin Range(Tail(s))
<1>1. /\ Len(s) \in Nat \ {0} /\ DOMAIN s = 1 .. Len(s) /\ DOMAIN Tail(s) = 1 .. Len(s) - 1
      /\ Head(s) = s[1] /\ \A i \in 1 .. Len(s) - 1 : Tail(s)[i] = s[i + 1]
  BY HeadTailProperties, LenProperties, EmptySeq
<1>2. \A i \in 1 .. Len(s) - 1 : i + 1 \in 1 .. Len(s) /\ i + 1 # 1 /\ 1 \in 1 .. Len(s)
  BY <1>1
<1>3. Once(Tail(s))
  <2>1. ASSUME NEW i \in 1 .. Len(s) - 1, NEW j \in 1 .. Len(s) - 1, Tail(s)[i] = Tail(s)[j]
        PROVE  i = j
    <3>1. i + 1 = j + 1
      BY <1>1, <1>2, <2>1 DEF Once
    <3>. QED
      BY <3>1
  <2>. QED
    BY <1>1, <2>1 DEF Once
<1>4. Head(s) \notin Range(Tail(s))
  BY <1>1, <1>2 DEF Once, Range
<1>. QED
  BY <1>3, <1>4

LEMMA AppendOnce ==
  ASSUME NEW S, NEW s \in Seq(S), NEW x \in S, Once(s), x \notin Range(s)
  PROVE  Once(Append(s, x))
<1>1. /\ Len(s) \in Nat
      /\ DOMAIN s = 1 .. Len(s) /\ DOMAIN Append(s, x) = 1 .. Len(s) + 1
      /\ \A i \in 1 .. Len(s) : Append(s, x)[i] = s[i]
      /\ Append(s, x)[Len(s) + 1] = x
  BY AppendProperties, LenProperties
<1>2. \A i \in 1 .. Len(s) + 1 : i \in 1 .. Len(s) \/ i = Len(s) + 1
  BY <1>1
<1>3. \A i \in 1 .. Len(s) : s[i] # x
  BY <1>1 DEF Range
<1>. QED
  BY <1>1, <1>2, <1>3 DEF Once

LEMMA EmptyOnce == Once(<<>>)
BY DEF Once

-----------------------------------------------------------------------------
(* Nothing is pending, sent, in hand, stored, posted or shown but what was *)
(* typed.                                                                  *)
Inserting == {k \in Conn : handler[k] = "inserting"}

Known ==
  /\ EditsOf(committed) \subseteq 1 .. edits
  /\ \A s \in snaps : s.edits \subseteq 1 .. edits
  /\ \A k \in Conn : Range(up[k]) \subseteq 1 .. edits
  /\ \A k \in Inserting : cur[k].edit \in 1 .. edits
  /\ \A c \in Client : /\ Range(pending[c]) \subseteq 1 .. edits
                       /\ doc[c] \subseteq 1 .. edits
                       /\ task[c].edits \subseteq 1 .. edits

LEMMA InitKnown == Init => Known
BY EmptyRange DEF Init, LogInit, Known, Inserting, EditsOf, Idle

LEMMA NextKnown == TypeOK /\ FramesCommitted /\ Known /\ [Next]_vars => Known'
<1> SUFFICES ASSUME TypeOK, FramesCommitted, Known, [Next]_vars PROVE Known'
  OBVIOUS
<1>. USE DEF Known
<1>1. ASSUME NEW c \in Client, NEW k \in Conn, LoadSeed(c, k) PROVE Known'
  <2>1. /\ handler' = [handler EXCEPT ![k] = "handshake"]
        /\ UNCHANGED <<logVars, pending, task, up, cur, edits>>
    BY <1>1 DEF LoadSeed, OpenSocket, auxVars
  <2>2. \A d \in Client : doc'[d] \subseteq 1 .. edits
    BY <1>1 DEF LoadSeed, LatestSnapshots, TypeOK
  <2>. QED
    BY <2>1, <2>2 DEF TypeOK, logVars, Inserting
<1>2. ASSUME NEW c \in Client, NEW k \in Conn, LoadSeedFails(c, k) PROVE Known'
  <2>1. /\ handler' = [handler EXCEPT ![k] = "handshake"]
        /\ UNCHANGED <<logVars, pending, task, up, cur, edits>>
    BY <1>2 DEF LoadSeedFails, OpenSocket, auxVars
  <2>2. doc' = doc
    BY <1>2 DEF LoadSeedFails
  <2>. QED
    BY <2>1, <2>2 DEF TypeOK, logVars, Inserting
<1>3. ASSUME NEW c \in Client, NEW k \in Conn, Reconnect(c, k) PROVE Known'
  <2>1. /\ handler' = [handler EXCEPT ![k] = "handshake"]
        /\ UNCHANGED <<logVars, pending, task, up, cur, edits>>
    BY <1>3 DEF Reconnect, OpenSocket, auxVars
  <2>2. doc' = doc
    BY <1>3 DEF Reconnect
  <2>. QED
    BY <2>1, <2>2 DEF TypeOK, logVars, Inserting
<1>4. ASSUME NEW c \in Client, HandleOpen(c) PROVE Known'
  <2>1. conn[c] \in Conn
    BY <1>4 DEF TypeOK, HandleOpen
  <2>2. Range(up[conn[c]] \o pending[c]) = Range(up[conn[c]]) \cup Range(pending[c])
    BY <2>1, ConcatOnce DEF TypeOK
  <2>3. \A k \in Conn : Range(up'[k]) \subseteq 1 .. edits
    BY <1>4, <2>1, <2>2 DEF TypeOK, HandleOpen
  <2>4. \A d \in Client : Range(pending'[d]) \subseteq 1 .. edits
    BY <1>4, EmptyRange DEF TypeOK, HandleOpen
  <2>. QED
    BY <1>4, <2>3, <2>4 DEF HandleOpen, Inserting, logVars, auxVars
<1>5. ASSUME NEW c \in Client, HandleClose(c) PROVE Known'
  BY <1>5 DEF HandleClose, Inserting, Fault, logVars, tabVars, connVars, auxVars
<1>6. ASSUME NEW c \in Client, Reload(c) PROVE Known'
  <2>1. \A d \in Client : Range(pending'[d]) \subseteq 1 .. edits /\ doc'[d] \subseteq 1 .. edits
    BY <1>6, EmptyRange DEF TypeOK, Reload
  <2>. QED
    BY <1>6, <2>1 DEF Reload, Inserting, logVars
<1>7. ASSUME NEW c \in Client, Type(c) PROVE Known'
  <2>1. /\ edits \in Nat /\ edits + 1 \in Nat /\ edits + 1 \in 1 .. edits + 1
        /\ 1 .. edits \subseteq 1 .. edits + 1 /\ edits' = edits + 1
    BY <1>7 DEF TypeOK, Type
  <2>2. \A k \in Conn : Range(Append(up[k], edits + 1)) = Range(up[k]) \cup {edits + 1}
    <3>1. \A k \in Conn : up[k] \in Seq(Nat)
      BY DEF TypeOK
    <3>. QED
      BY <2>1, <3>1, AppendRange
  <2>3. Range(Append(pending[c], edits + 1)) = Range(pending[c]) \cup {edits + 1}
    <3>1. pending[c] \in Seq(Nat)
      BY DEF TypeOK
    <3>. QED
      BY <2>1, <3>1, AppendRange
  <2>4. \/ up' = [up EXCEPT ![conn[c]] = Append(up[conn[c]], edits + 1)] /\ pending' = pending
        \/ pending' = [pending EXCEPT ![c] = Append(pending[c], edits + 1)] /\ up' = up
    <3>1. CASE phase[c] = "connected"
      BY <1>7, <3>1 DEF Type
    <3>2. CASE phase[c] # "connected"
      BY <1>7, <3>2 DEF Type
    <3>. QED
      BY <3>1, <3>2
  <2>10. up \in [Conn -> Seq(Nat)] /\ pending \in [Client -> Seq(Nat)]
    BY DEF TypeOK
  <2>5. ASSUME NEW k \in Conn PROVE Range(up'[k]) \subseteq 1 .. edits + 1
    <3>1. up'[k] = up[k] \/ up'[k] = Append(up[k], edits + 1)
      BY <2>4, <2>10
    <3>. QED
      BY <2>1, <2>2, <3>1
  <2>6. ASSUME NEW d \in Client PROVE Range(pending'[d]) \subseteq 1 .. edits + 1
    <3>1. pending'[d] = pending[d] \/ (d = c /\ pending'[d] = Append(pending[c], edits + 1))
      BY <2>4, <2>10
    <3>2. Range(pending[d]) \subseteq 1 .. edits /\ Range(pending[c]) \subseteq 1 .. edits
      OBVIOUS
    <3>. HIDE DEF Known
    <3>3. CASE pending'[d] = pending[d]
      BY <2>1, <3>2, <3>3
    <3>4. CASE d = c /\ pending'[d] = Append(pending[c], edits + 1)
      BY <2>1, <2>3, <3>2, <3>4
    <3>. QED
      BY <3>1, <3>3, <3>4
  <2>7. ASSUME NEW d \in Client PROVE doc'[d] \subseteq 1 .. edits + 1
    <3>1. doc'[d] \subseteq doc[d] \cup {edits + 1}
      BY <1>7 DEF Type, TypeOK
    <3>. QED
      BY <2>1, <3>1
  <2>8. UNCHANGED <<logVars, task, handler, cur>>
    BY <1>7 DEF Type
  <2>9. /\ EditsOf(committed') \subseteq 1 .. edits + 1
        /\ \A s \in snaps' : s.edits \subseteq 1 .. edits + 1
        /\ \A k \in Inserting' : cur'[k].edit \in 1 .. edits + 1
        /\ \A d \in Client : task'[d].edits \subseteq 1 .. edits + 1
    BY <2>1, <2>8 DEF Inserting, logVars
  <2>. QED
    BY <2>1, <2>5, <2>6, <2>7, <2>9
<1>8. ASSUME NEW c \in Client, ReceiveFrame(c) PROVE Known'
  BY <1>8 DEF ReceiveFrame, Inserting, Fault, logVars, tabVars, connVars, auxVars
<1>9. ASSUME NEW c \in Client, ApplyUpdate(c) PROVE Known'
  <2>1. Head(queue[c]) \in committed
    BY <1>9, HeadTail DEF TypeOK, FramesCommitted, ApplyUpdate
  <2>2. Head(queue[c]).edit \in 1 .. edits
    BY <2>1 DEF EditsOf
  <2>. QED
    BY <1>9, <2>2 DEF TypeOK, ApplyUpdate, Inserting, logVars, connVars, auxVars
<1>10. ASSUME NEW c \in Client, DiscardUpdate(c) PROVE Known'
  BY <1>10 DEF DiscardUpdate, Inserting, Fault, logVars, tabVars, connVars, auxVars
<1>11. ASSUME NEW c \in Client, ListPending(c) PROVE Known'
  <2>1. \A d \in Client : task'[d].edits \subseteq 1 .. edits
    BY <1>11 DEF TypeOK, ListPending
  <2>. QED
    BY <1>11, <2>1 DEF ListPending, Inserting, logVars, connVars
<1>12. ASSUME NEW c \in Client, PostSnapshot(c) PROVE Known'
  <2>1. \A d \in Client : task'[d].edits \subseteq 1 .. edits
    BY <1>12 DEF TypeOK, PostSnapshot
  <2>. QED
    BY <1>12, <2>1 DEF PostSnapshot, Inserting, logVars, connVars, auxVars
<1>13. ASSUME NEW c \in Client, CommitSnapshot(c) PROVE Known'
  <2>1. \A d \in Client : task'[d].edits \subseteq 1 .. edits
    BY <1>13 DEF TypeOK, CommitSnapshot, Idle
  <2>2. \A s \in snaps' : s.edits \subseteq 1 .. edits
    BY <1>13 DEF CommitSnapshot, CreateSnapshot
  <2>. QED
    BY <1>13, <2>1, <2>2 DEF CommitSnapshot, Inserting, connVars, auxVars
<1>14. ASSUME NEW c \in Client, PostFails(c) PROVE Known'
  <2>1. \A d \in Client : task'[d].edits \subseteq 1 .. edits
    BY <1>14 DEF TypeOK, PostFails, Idle
  <2>. QED
    BY <1>14, <2>1 DEF PostFails, Inserting, logVars, connVars
<1>15. ASSUME NEW k \in Conn, Drop(k) PROVE Known'
  BY <1>15 DEF Drop, Inserting, Fault, logVars, tabVars, connVars, auxVars
<1>16. ASSUME NEW k \in Conn, Join(k) PROVE Known'
  BY <1>16 DEF TypeOK, Join, Inserting, Fault, logVars, tabVars, connVars, auxVars
<1>17. ASSUME NEW k \in Conn, Refuse(k) PROVE Known'
  BY <1>17 DEF TypeOK, Refuse, Inserting, Fault, logVars, tabVars, connVars, auxVars
<1>18. ASSUME NEW k \in Conn, QueryHistory(k) PROVE Known'
  BY <1>18 DEF TypeOK, QueryHistory, Inserting, Fault, logVars, tabVars, connVars, auxVars
<1>19. ASSUME NEW k \in Conn, QueryHistoryFails(k) PROVE Known'
  BY <1>19 DEF TypeOK, QueryHistoryFails, Inserting, Fault, logVars, tabVars, connVars, auxVars
<1>20. ASSUME NEW k \in Conn, ReplayNext(k) PROVE Known'
  BY <1>20 DEF ReplayNext, Inserting, Fault, logVars, tabVars, connVars, auxVars
<1>21. ASSUME NEW k \in Conn, StartReading(k) PROVE Known'
  BY <1>21 DEF TypeOK, StartReading, Inserting, Fault, logVars, tabVars, connVars, auxVars
<1>22. ASSUME NEW k \in Conn, BeginAppend(k) PROVE Known'
  <2>1. Head(up[k]) \in Range(up[k]) /\ Range(Tail(up[k])) \subseteq Range(up[k])
    BY <1>22, HeadTail DEF TypeOK, BeginAppend
  <2>2. \A m \in Conn : Range(up'[m]) \subseteq 1 .. edits
    BY <1>22, <2>1 DEF TypeOK, BeginAppend
  <2>3. \A m \in Inserting' : cur'[m].edit \in 1 .. edits
    BY <1>22, <2>1 DEF TypeOK, BeginAppend, Inserting
  <2>. QED
    BY <1>22, <2>2, <2>3 DEF BeginAppend, tabVars, auxVars
<1>23. ASSUME NEW k \in Conn, RejectUpdate(k) PROVE Known'
  <2>1. Range(Tail(up[k])) \subseteq Range(up[k])
    BY <1>23, HeadTail DEF TypeOK, RejectUpdate
  <2>. QED
    BY <1>23, <2>1 DEF TypeOK, RejectUpdate, Inserting, logVars, tabVars
<1>24. ASSUME NEW k \in Conn, CommitAppend(k) PROVE Known'
  <2>1. EditsOf(committed') \subseteq 1 .. edits
    BY <1>24 DEF CommitAppend, CommitRow, EditsOf, Inserting
  <2>2. Inserting' \subseteq Inserting
    BY <1>24 DEF TypeOK, CommitAppend, Inserting
  <2>. QED
    BY <1>24, <2>1, <2>2 DEF CommitAppend, tabVars, auxVars
<1>25. ASSUME NEW k \in Conn, Broadcast(k) PROVE Known'
  <2>1. Inserting' \subseteq Inserting
    BY <1>25 DEF TypeOK, Broadcast, Inserting
  <2>. QED
    BY <1>25, <2>1 DEF Broadcast, logVars, tabVars, auxVars
<1>26. ASSUME NEW k \in Conn, Unwind(k) PROVE Known'
  BY <1>26 DEF TypeOK, Unwind, Inserting, Fault, logVars, tabVars, connVars, auxVars
<1>27. CASE UNCHANGED vars
  BY <1>27 DEF vars, Inserting, logVars, tabVars, connVars, auxVars
<1>. QED
  BY <1>1, <1>2, <1>3, <1>4, <1>5, <1>6, <1>7, <1>8, <1>9, <1>10, <1>11, <1>12, <1>13, <1>14, <1>15, <1>16, <1>17, <1>18, <1>19, <1>20, <1>21, <1>22, <1>23, <1>24, <1>25, <1>26, <1>27 DEF Next, TabStep, ConnStep

-----------------------------------------------------------------------------
(* An edit is in one place at a time.                                      *)
QueuesOnce ==
  /\ \A c \in Client : Once(pending[c])
  /\ \A k \in Conn : Once(up[k])

QueuesApart ==
  /\ \A c, d \in Client : c # d => Range(pending[c]) \cap Range(pending[d]) = {}
  /\ \A k, m \in Conn : k # m => Range(up[k]) \cap Range(up[m]) = {}
  /\ \A c \in Client : \A k \in Conn : Range(pending[c]) \cap Range(up[k]) = {}

QueuesNotStored ==
  /\ \A c \in Client : Range(pending[c]) \cap EditsOf(committed) = {}
  /\ \A k \in Conn : Range(up[k]) \cap EditsOf(committed) = {}

InHandApart ==
  /\ \A k \in Inserting : \A c \in Client : cur[k].edit \notin Range(pending[c])
  /\ \A k \in Inserting : \A m \in Conn : cur[k].edit \notin Range(up[m])
  /\ \A k \in Inserting : cur[k].edit \notin EditsOf(committed)
  /\ \A k, m \in Inserting : k # m => cur[k].edit # cur[m].edit

IdsApart ==
  /\ \A u \in committed : u.id < nextId
  /\ \A k \in Inserting : cur[k].id < nextId
  /\ \A k \in Inserting : \A u \in committed : u.id # cur[k].id
  /\ \A k, m \in Inserting : k # m => cur[k].id # cur[m].id

Apart ==
  /\ QueuesOnce /\ QueuesApart /\ QueuesNotStored
  /\ InHandApart /\ IdsApart /\ EachEditStoredOnce

LEMMA InitApart == Init => Apart
<1> SUFFICES ASSUME Init PROVE Apart
  OBVIOUS
<1>1. /\ \A c \in Client : pending[c] = <<>>
      /\ \A k \in Conn : up[k] = <<>>
      /\ Inserting = {} /\ committed = {} /\ EditsOf(committed) = {}
  BY DEF Init, LogInit, Inserting, EditsOf
<1>2. QueuesOnce /\ QueuesApart /\ QueuesNotStored
  BY <1>1, EmptyOnce, EmptyRange DEF QueuesOnce, QueuesApart, QueuesNotStored
<1>3. InHandApart /\ IdsApart /\ EachEditStoredOnce
  BY <1>1 DEF InHandApart, IdsApart, EachEditStoredOnce
<1>. QED
  BY <1>2, <1>3 DEF Apart

(* A step that only takes edits out of the queues and out of the handlers' *)
(* hands brings nothing together.                                          *)
LEMMA Shrinks ==
  ASSUME Apart, UNCHANGED <<committed, nextId, cur>>, Inserting' \subseteq Inserting,
         \A c \in Client : Once(pending'[c]) /\ Range(pending'[c]) \subseteq Range(pending[c]),
         \A k \in Conn : Once(up'[k]) /\ Range(up'[k]) \subseteq Range(up[k])
  PROVE  Apart'
<1>1. QueuesOnce'
  BY DEF QueuesOnce
<1>2. QueuesApart'
  BY DEF Apart, QueuesApart
<1>3. EditsOf(committed') = EditsOf(committed)
  BY DEF EditsOf
<1>4. QueuesNotStored'
  BY <1>3 DEF Apart, QueuesNotStored
<1>5. InHandApart'
  BY <1>3 DEF Apart, InHandApart
<1>6. IdsApart'
  BY DEF Apart, IdsApart
<1>7. EachEditStoredOnce'
  BY DEF Apart, EachEditStoredOnce
<1>. QED
  BY <1>1, <1>2, <1>4, <1>5, <1>6, <1>7 DEF Apart

LEMMA Undisturbed ==
  ASSUME Apart, UNCHANGED <<committed, nextId, cur, pending, up>>, Inserting' \subseteq Inserting
  PROVE  Apart'
<1>1. /\ \A c \in Client : Once(pending'[c]) /\ Range(pending'[c]) \subseteq Range(pending[c])
      /\ \A k \in Conn : Once(up'[k]) /\ Range(up'[k]) \subseteq Range(up[k])
  BY DEF Apart, QueuesOnce
<1>. QED
  BY <1>1, Shrinks

LEMMA NextApart == TypeOK /\ Known /\ Apart /\ [Next]_vars => Apart'
<1> SUFFICES ASSUME TypeOK, Known, Apart, [Next]_vars PROVE Apart'
  OBVIOUS
<1>1. ASSUME NEW c \in Client, NEW k \in Conn, LoadSeed(c, k) PROVE Apart'
  <2>1. Inserting' \subseteq Inserting
    BY <1>1 DEF TypeOK, LoadSeed, OpenSocket, Inserting, logVars, tabVars, connVars, auxVars
  <2>2. UNCHANGED <<committed, nextId, cur, pending, up>>
    BY <1>1 DEF LoadSeed, Fault, logVars, tabVars, connVars, auxVars
  <2>. QED
    BY <2>1, <2>2, Undisturbed
<1>2. ASSUME NEW c \in Client, NEW k \in Conn, LoadSeedFails(c, k) PROVE Apart'
  <2>1. Inserting' \subseteq Inserting
    BY <1>2 DEF TypeOK, LoadSeedFails, OpenSocket, Inserting, logVars, tabVars, connVars, auxVars
  <2>2. UNCHANGED <<committed, nextId, cur, pending, up>>
    BY <1>2 DEF LoadSeedFails, Fault, logVars, tabVars, connVars, auxVars
  <2>. QED
    BY <2>1, <2>2, Undisturbed
<1>3. ASSUME NEW c \in Client, NEW k \in Conn, Reconnect(c, k) PROVE Apart'
  <2>1. Inserting' \subseteq Inserting
    BY <1>3 DEF TypeOK, Reconnect, OpenSocket, Inserting, logVars, tabVars, connVars, auxVars
  <2>2. UNCHANGED <<committed, nextId, cur, pending, up>>
    BY <1>3 DEF Reconnect, Fault, logVars, tabVars, connVars, auxVars
  <2>. QED
    BY <2>1, <2>2, Undisturbed
<1>4. ASSUME NEW c \in Client, HandleOpen(c) PROVE Apart'
  <2>. DEFINE k == conn[c]
             st == up[k] \o pending[c]
  <2>1. /\ k \in Conn /\ k \in DOMAIN up /\ c \in DOMAIN pending
        /\ up[k] \in Seq(Nat) /\ pending[c] \in Seq(Nat)
    BY <1>4 DEF TypeOK, HandleOpen
  <2>2. /\ \A m \in Conn : up'[m] = IF m = k THEN st ELSE up[m]
        /\ \A d \in Client : pending'[d] = IF d = c THEN <<>> ELSE pending[d]
        /\ UNCHANGED <<committed, nextId, cur, handler>>
    BY <1>4 DEF TypeOK, HandleOpen, logVars
  <2>3. Inserting' = Inserting /\ EditsOf(committed') = EditsOf(committed)
    BY <2>2 DEF Inserting, EditsOf
  <2>4. Range(st) = Range(up[k]) \cup Range(pending[c]) /\ Once(st)
    BY <2>1, ConcatOnce DEF Apart, QueuesOnce, QueuesApart
  <2>5. /\ \A m \in Conn : Range(up'[m]) = IF m = k THEN Range(up[k]) \cup Range(pending[c])
                                                    ELSE Range(up[m])
        /\ \A d \in Client : Range(pending'[d]) = IF d = c THEN {} ELSE Range(pending[d])
    BY <2>2, <2>4, EmptyRange
  <2>6. QueuesOnce'
    BY <2>2, <2>4, EmptyOnce DEF Apart, QueuesOnce
  <2>. HIDE DEF k, st
  <2>7. QueuesApart'
    <3>1. ASSUME NEW x \in Client, NEW y \in Client, x # y
          PROVE  Range(pending'[x]) \cap Range(pending'[y]) = {}
      BY <2>5, <3>1 DEF Apart, QueuesApart
    <3>2. ASSUME NEW x \in Conn, NEW y \in Conn, x # y
          PROVE  Range(up'[x]) \cap Range(up'[y]) = {}
      BY <2>1, <2>5, <3>2 DEF Apart, QueuesApart
    <3>3. ASSUME NEW x \in Client, NEW y \in Conn
          PROVE  Range(pending'[x]) \cap Range(up'[y]) = {}
      BY <2>1, <2>5 DEF Apart, QueuesApart
    <3>. QED
      BY <3>1, <3>2, <3>3 DEF QueuesApart
  <2>8. QueuesNotStored'
    BY <2>1, <2>3, <2>5 DEF Apart, QueuesNotStored
  <2>9. InHandApart'
    BY <2>2, <2>3, <2>5 DEF Apart, InHandApart
  <2>10. IdsApart' /\ EachEditStoredOnce'
    BY <2>2, <2>3 DEF Apart, IdsApart, EachEditStoredOnce
  <2>. QED
    BY <2>6, <2>7, <2>8, <2>9, <2>10 DEF Apart
<1>5. ASSUME NEW c \in Client, HandleClose(c) PROVE Apart'
  <2>1. Inserting' \subseteq Inserting
    BY <1>5 DEF TypeOK, HandleClose, OpenSocket, Inserting, logVars, tabVars, connVars, auxVars
  <2>2. UNCHANGED <<committed, nextId, cur, pending, up>>
    BY <1>5 DEF HandleClose, Fault, logVars, tabVars, connVars, auxVars
  <2>. QED
    BY <2>1, <2>2, Undisturbed
<1>6. ASSUME NEW c \in Client, Reload(c) PROVE Apart'
  <2>1. UNCHANGED <<committed, nextId, cur, handler, up>>
    BY <1>6 DEF Reload, logVars
  <2>2. Inserting' = Inserting
    BY <2>1 DEF Inserting
  <2>3. \A d \in Client : pending'[d] = <<>> \/ pending'[d] = pending[d]
    BY <1>6 DEF TypeOK, Reload
  <2>4. \A d \in Client : Once(pending'[d]) /\ Range(pending'[d]) \subseteq Range(pending[d])
    BY <2>3, EmptyOnce, EmptyRange DEF Apart, QueuesOnce
  <2>5. \A k \in Conn : Once(up'[k]) /\ Range(up'[k]) \subseteq Range(up[k])
    BY <2>1 DEF Apart, QueuesOnce
  <2>. QED
    BY <2>1, <2>2, <2>4, <2>5, Shrinks
<1>7. ASSUME NEW c \in Client, Type(c) PROVE Apart'
  <2>1. /\ UNCHANGED <<committed, nextId, cur, handler>>
        /\ \/ phase[c] = "connected" /\ up' = [up EXCEPT ![conn[c]] = Append(up[conn[c]], edits + 1)] /\ pending' = pending
           \/ pending' = [pending EXCEPT ![c] = Append(pending[c], edits + 1)] /\ up' = up
    <3>1. CASE phase[c] = "connected"
      BY <1>7, <3>1 DEF Type, logVars
    <3>2. CASE phase[c] # "connected"
      BY <1>7, <3>2 DEF Type, logVars
    <3>. QED
      BY <3>1, <3>2
  <2>2. Inserting' = Inserting /\ EditsOf(committed') = EditsOf(committed)
    BY <2>1 DEF Inserting, EditsOf
  <2>3. edits \in Nat /\ edits + 1 \in Nat /\ edits + 1 \notin 1 .. edits
    BY DEF TypeOK
  <2>4. /\ \A d \in Client : edits + 1 \notin Range(pending[d])
        /\ \A k \in Conn : edits + 1 \notin Range(up[k])
        /\ edits + 1 \notin EditsOf(committed)
        /\ \A k \in Inserting : cur[k].edit # edits + 1
    BY <2>3 DEF Known
  <2>5. up \in [Conn -> Seq(Nat)] /\ pending \in [Client -> Seq(Nat)]
        /\ (phase[c] = "connected" => conn[c] \in Conn)
    BY DEF TypeOK
  <2>6. IdsApart' /\ EachEditStoredOnce'
    BY <2>1, <2>2 DEF Apart, IdsApart, EachEditStoredOnce
  <2>7. CASE phase[c] = "connected" /\ up' = [up EXCEPT ![conn[c]] = Append(up[conn[c]], edits + 1)] /\ pending' = pending
    <3>. DEFINE k == conn[c]
               st == Append(up[k], edits + 1)
    <3>1. k \in Conn /\ \A m \in Conn : up'[m] = IF m = k THEN st ELSE up[m]
      BY <2>5, <2>7
    <3>2. Range(st) = Range(up[k]) \cup {edits + 1} /\ Once(st)
      BY <2>3, <2>4, <2>5, <3>1, AppendRange, AppendOnce DEF Apart, QueuesOnce
    <3>. HIDE DEF k, st
    <3>3. \A m \in Conn : Range(up'[m]) = IF m = k THEN Range(up[k]) \cup {edits + 1} ELSE Range(up[m])
      BY <3>1, <3>2
    <3>4. QueuesOnce'
      BY <2>7, <3>1, <3>2 DEF Apart, QueuesOnce
    <3>5. QueuesApart'
      <4>1. ASSUME NEW x \in Conn, NEW y \in Conn, x # y
            PROVE  Range(up'[x]) \cap Range(up'[y]) = {}
        BY <2>4, <3>1, <3>3, <4>1 DEF Apart, QueuesApart
      <4>2. ASSUME NEW x \in Client, NEW y \in Conn
            PROVE  Range(pending'[x]) \cap Range(up'[y]) = {}
        BY <2>4, <2>7, <3>1, <3>3 DEF Apart, QueuesApart
      <4>. QED
        BY <2>7, <4>1, <4>2 DEF Apart, QueuesApart
    <3>6. QueuesNotStored'
      BY <2>2, <2>4, <2>7, <3>1, <3>3 DEF Apart, QueuesNotStored
    <3>7. InHandApart'
      BY <2>1, <2>2, <2>4, <2>7, <3>1, <3>3 DEF Apart, InHandApart
    <3>. QED
      BY <2>6, <3>4, <3>5, <3>6, <3>7 DEF Apart
  <2>8. CASE pending' = [pending EXCEPT ![c] = Append(pending[c], edits + 1)] /\ up' = up
    <3>. DEFINE st == Append(pending[c], edits + 1)
    <3>1. \A d \in Client : pending'[d] = IF d = c THEN st ELSE pending[d]
      BY <2>5, <2>8
    <3>2. Range(st) = Range(pending[c]) \cup {edits + 1} /\ Once(st)
      BY <2>3, <2>4, <2>5, AppendRange, AppendOnce DEF Apart, QueuesOnce
    <3>. HIDE DEF st
    <3>3. \A d \in Client : Range(pending'[d]) = IF d = c THEN Range(pending[c]) \cup {edits + 1} ELSE Range(pending[d])
      BY <3>1, <3>2
    <3>4. QueuesOnce'
      BY <2>8, <3>1, <3>2 DEF Apart, QueuesOnce
    <3>5. QueuesApart'
      <4>1. ASSUME NEW x \in Client, NEW y \in Client, x # y
            PROVE  Range(pending'[x]) \cap Range(pending'[y]) = {}
        BY <2>4, <3>3, <4>1 DEF Apart, QueuesApart
      <4>2. ASSUME NEW x \in Client, NEW y \in Conn
            PROVE  Range(pending'[x]) \cap Range(up'[y]) = {}
        BY <2>4, <2>8, <3>3 DEF Apart, QueuesApart
      <4>. QED
        BY <2>8, <4>1, <4>2 DEF Apart, QueuesApart
    <3>6. QueuesNotStored'
      BY <2>2, <2>4, <2>8, <3>3 DEF Apart, QueuesNotStored
    <3>7. InHandApart'
      BY <2>1, <2>2, <2>4, <2>8, <3>3 DEF Apart, InHandApart
    <3>. QED
      BY <2>6, <3>4, <3>5, <3>6, <3>7 DEF Apart
  <2>. QED
    BY <2>1, <2>7, <2>8
<1>8. ASSUME NEW c \in Client, ReceiveFrame(c) PROVE Apart'
  <2>1. Inserting' \subseteq Inserting
    BY <1>8 DEF TypeOK, ReceiveFrame, OpenSocket, Inserting, logVars, tabVars, connVars, auxVars
  <2>2. UNCHANGED <<committed, nextId, cur, pending, up>>
    BY <1>8 DEF ReceiveFrame, Fault, logVars, tabVars, connVars, auxVars
  <2>. QED
    BY <2>1, <2>2, Undisturbed
<1>9. ASSUME NEW c \in Client, ApplyUpdate(c) PROVE Apart'
  <2>1. Inserting' \subseteq Inserting
    BY <1>9 DEF TypeOK, ApplyUpdate, OpenSocket, Inserting, logVars, tabVars, connVars, auxVars
  <2>2. UNCHANGED <<committed, nextId, cur, pending, up>>
    BY <1>9 DEF ApplyUpdate, Fault, logVars, tabVars, connVars, auxVars
  <2>. QED
    BY <2>1, <2>2, Undisturbed
<1>10. ASSUME NEW c \in Client, DiscardUpdate(c) PROVE Apart'
  <2>1. Inserting' \subseteq Inserting
    BY <1>10 DEF TypeOK, DiscardUpdate, OpenSocket, Inserting, logVars, tabVars, connVars, auxVars
  <2>2. UNCHANGED <<committed, nextId, cur, pending, up>>
    BY <1>10 DEF DiscardUpdate, Fault, logVars, tabVars, connVars, auxVars
  <2>. QED
    BY <2>1, <2>2, Undisturbed
<1>11. ASSUME NEW c \in Client, ListPending(c) PROVE Apart'
  <2>1. Inserting' \subseteq Inserting
    BY <1>11 DEF TypeOK, ListPending, OpenSocket, Inserting, logVars, tabVars, connVars, auxVars
  <2>2. UNCHANGED <<committed, nextId, cur, pending, up>>
    BY <1>11 DEF ListPending, Fault, logVars, tabVars, connVars, auxVars
  <2>. QED
    BY <2>1, <2>2, Undisturbed
<1>12. ASSUME NEW c \in Client, PostSnapshot(c) PROVE Apart'
  <2>1. Inserting' \subseteq Inserting
    BY <1>12 DEF TypeOK, PostSnapshot, OpenSocket, Inserting, logVars, tabVars, connVars, auxVars
  <2>2. UNCHANGED <<committed, nextId, cur, pending, up>>
    BY <1>12 DEF PostSnapshot, Fault, logVars, tabVars, connVars, auxVars
  <2>. QED
    BY <2>1, <2>2, Undisturbed
<1>13. ASSUME NEW c \in Client, CommitSnapshot(c) PROVE Apart'
  <2>1. UNCHANGED <<committed, nextId, cur, pending, up, handler>>
    BY <1>13 DEF CommitSnapshot, connVars
  <2>2. Inserting' = Inserting
    BY <2>1 DEF Inserting
  <2>. QED
    BY <2>1, <2>2, Undisturbed
<1>14. ASSUME NEW c \in Client, PostFails(c) PROVE Apart'
  <2>1. Inserting' \subseteq Inserting
    BY <1>14 DEF TypeOK, PostFails, OpenSocket, Inserting, logVars, tabVars, connVars, auxVars
  <2>2. UNCHANGED <<committed, nextId, cur, pending, up>>
    BY <1>14 DEF PostFails, Fault, logVars, tabVars, connVars, auxVars
  <2>. QED
    BY <2>1, <2>2, Undisturbed
<1>15. ASSUME NEW k \in Conn, Drop(k) PROVE Apart'
  <2>1. Inserting' \subseteq Inserting
    BY <1>15 DEF TypeOK, Drop, OpenSocket, Inserting, logVars, tabVars, connVars, auxVars
  <2>2. UNCHANGED <<committed, nextId, cur, pending, up>>
    BY <1>15 DEF Drop, Fault, logVars, tabVars, connVars, auxVars
  <2>. QED
    BY <2>1, <2>2, Undisturbed
<1>16. ASSUME NEW k \in Conn, Join(k) PROVE Apart'
  <2>1. Inserting' \subseteq Inserting
    BY <1>16 DEF TypeOK, Join, OpenSocket, Inserting, logVars, tabVars, connVars, auxVars
  <2>2. UNCHANGED <<committed, nextId, cur, pending, up>>
    BY <1>16 DEF Join, Fault, logVars, tabVars, connVars, auxVars
  <2>. QED
    BY <2>1, <2>2, Undisturbed
<1>17. ASSUME NEW k \in Conn, Refuse(k) PROVE Apart'
  <2>1. Inserting' \subseteq Inserting
    BY <1>17 DEF TypeOK, Refuse, OpenSocket, Inserting, logVars, tabVars, connVars, auxVars
  <2>2. UNCHANGED <<committed, nextId, cur, pending, up>>
    BY <1>17 DEF Refuse, Fault, logVars, tabVars, connVars, auxVars
  <2>. QED
    BY <2>1, <2>2, Undisturbed
<1>18. ASSUME NEW k \in Conn, QueryHistory(k) PROVE Apart'
  <2>1. Inserting' \subseteq Inserting
    BY <1>18 DEF TypeOK, QueryHistory, OpenSocket, Inserting, logVars, tabVars, connVars, auxVars
  <2>2. UNCHANGED <<committed, nextId, cur, pending, up>>
    BY <1>18 DEF QueryHistory, Fault, logVars, tabVars, connVars, auxVars
  <2>. QED
    BY <2>1, <2>2, Undisturbed
<1>19. ASSUME NEW k \in Conn, QueryHistoryFails(k) PROVE Apart'
  <2>1. Inserting' \subseteq Inserting
    BY <1>19 DEF TypeOK, QueryHistoryFails, OpenSocket, Inserting, logVars, tabVars, connVars, auxVars
  <2>2. UNCHANGED <<committed, nextId, cur, pending, up>>
    BY <1>19 DEF QueryHistoryFails, Fault, logVars, tabVars, connVars, auxVars
  <2>. QED
    BY <2>1, <2>2, Undisturbed
<1>20. ASSUME NEW k \in Conn, ReplayNext(k) PROVE Apart'
  <2>1. Inserting' \subseteq Inserting
    BY <1>20 DEF TypeOK, ReplayNext, OpenSocket, Inserting, logVars, tabVars, connVars, auxVars
  <2>2. UNCHANGED <<committed, nextId, cur, pending, up>>
    BY <1>20 DEF ReplayNext, Fault, logVars, tabVars, connVars, auxVars
  <2>. QED
    BY <2>1, <2>2, Undisturbed
<1>21. ASSUME NEW k \in Conn, StartReading(k) PROVE Apart'
  <2>1. Inserting' \subseteq Inserting
    BY <1>21 DEF TypeOK, StartReading, OpenSocket, Inserting, logVars, tabVars, connVars, auxVars
  <2>2. UNCHANGED <<committed, nextId, cur, pending, up>>
    BY <1>21 DEF StartReading, Fault, logVars, tabVars, connVars, auxVars
  <2>. QED
    BY <2>1, <2>2, Undisturbed
<1>22. ASSUME NEW k \in Conn, BeginAppend(k) PROVE Apart'
  <2>1. /\ UNCHANGED <<committed, pending>> /\ nextId' = nextId + 1 /\ nextId \in Nat
        /\ \A m \in Conn : up'[m] = IF m = k THEN Tail(up[k]) ELSE up[m]
        /\ cur'[k].id = nextId /\ cur'[k].edit = Head(up[k])
        /\ \A m \in Conn : m # k => cur'[m] = cur[m]
        /\ up[k] \in Seq(Nat) /\ up[k] # <<>>
    BY <1>22 DEF TypeOK, LogTypeOK, BeginAppend, AllocateId, tabVars
  <2>2. Inserting' = Inserting \cup {k} /\ k \notin Inserting /\ Inserting \subseteq Conn
    BY <1>22 DEF TypeOK, BeginAppend, Inserting
  <2>3. EditsOf(committed') = EditsOf(committed)
    BY <2>1 DEF EditsOf
  <2>4. /\ Once(Tail(up[k])) /\ Head(up[k]) \notin Range(Tail(up[k]))
        /\ Range(up[k]) = {Head(up[k])} \cup Range(Tail(up[k]))
    BY <2>1, TailOnce, HeadTail DEF Apart, QueuesOnce
  <2>5. /\ \A m \in Conn : Range(up'[m]) \subseteq Range(up[m])
        /\ Head(up[k]) \in Range(up[k]) /\ Head(up[k]) \notin Range(up'[k])
    BY <2>1, <2>4
  <2>6. QueuesOnce'
    BY <2>1, <2>4 DEF Apart, QueuesOnce
  <2>7. QueuesApart' /\ QueuesNotStored'
    BY <2>1, <2>3, <2>5 DEF Apart, QueuesApart, QueuesNotStored
  <2>8. InHandApart'
    <3>1. ASSUME NEW m \in Inserting', NEW c \in Client PROVE cur'[m].edit \notin Range(pending'[c])
      BY <2>1, <2>2, <2>5 DEF Apart, QueuesApart, InHandApart
    <3>2. ASSUME NEW m \in Inserting', NEW n \in Conn PROVE cur'[m].edit \notin Range(up'[n])
      <4>1. CASE m = k /\ n = k
        BY <2>1, <2>5, <4>1
      <4>2. CASE m = k /\ n # k
        <5>1. Range(up[k]) \cap Range(up[n]) = {}
          BY <4>2 DEF Apart, QueuesApart
        <5>2. up'[n] = up[n] /\ cur'[m].edit = Head(up[k])
          BY <2>1, <4>2
        <5>. QED
          BY <2>5, <5>1, <5>2
      <4>3. CASE m \in Inserting
        BY <2>1, <2>2, <2>5, <4>3 DEF Apart, InHandApart
      <4>. QED
        BY <2>2, <4>1, <4>2, <4>3
    <3>3. ASSUME NEW m \in Inserting' PROVE cur'[m].edit \notin EditsOf(committed')
      BY <2>1, <2>2, <2>3, <2>5 DEF Apart, QueuesNotStored, InHandApart
    <3>4. ASSUME NEW m \in Inserting', NEW n \in Inserting', m # n PROVE cur'[m].edit # cur'[n].edit
      BY <2>1, <2>2, <2>5, <3>4 DEF Apart, InHandApart
    <3>. QED
      BY <3>1, <3>2, <3>3, <3>4 DEF InHandApart
  <2>9. IdsApart'
    <3>1. ASSUME NEW u \in committed PROVE u.id < nextId + 1
      <4>1. u.id \in Nat /\ u.id < nextId
        BY DEF Apart, IdsApart, TypeOK, LogTypeOK, Update
      <4>. QED
        BY <2>1, <4>1
    <3>2. ASSUME NEW m \in Inserting PROVE cur[m].id \in Nat /\ cur[m].id < nextId /\ cur[m].id < nextId + 1
      <4>1. cur[m].id \in Nat /\ cur[m].id < nextId
        BY <2>2 DEF Apart, IdsApart, TypeOK, Update
      <4>. QED
        BY <2>1, <4>1
    <3>3. ASSUME NEW m \in Inserting' PROVE cur'[m].id < nextId'
      BY <2>1, <2>2, <3>2
    <3>4. ASSUME NEW m \in Inserting', NEW u \in committed PROVE u.id # cur'[m].id
      <4>1. CASE m = k
        <5>1. u.id \in Nat /\ u.id < nextId
          BY DEF Apart, IdsApart, TypeOK, LogTypeOK, Update
        <5>. QED
          BY <2>1, <4>1, <5>1
      <4>2. CASE m \in Inserting
        BY <2>1, <2>2, <4>2 DEF Apart, IdsApart
      <4>. QED
        BY <2>2, <4>1, <4>2
    <3>5. ASSUME NEW m \in Inserting', NEW n \in Inserting', m # n PROVE cur'[m].id # cur'[n].id
      <4>1. CASE m = k /\ n \in Inserting
        BY <2>1, <2>2, <3>2, <4>1
      <4>2. CASE n = k /\ m \in Inserting
        BY <2>1, <2>2, <3>2, <4>2
      <4>3. CASE m \in Inserting /\ n \in Inserting
        BY <2>1, <2>2, <3>5, <4>3 DEF Apart, IdsApart
      <4>. QED
        BY <2>2, <3>5, <4>1, <4>2, <4>3
    <3>. QED
      BY <2>1, <3>1, <3>3, <3>4, <3>5 DEF IdsApart
  <2>10. EachEditStoredOnce'
    BY <2>1 DEF Apart, EachEditStoredOnce
  <2>. QED
    BY <2>6, <2>7, <2>8, <2>9, <2>10 DEF Apart
<1>23. ASSUME NEW k \in Conn, RejectUpdate(k) PROVE Apart'
  <2>1. UNCHANGED <<committed, nextId, cur, handler, pending>>
    BY <1>23 DEF RejectUpdate, logVars, tabVars
  <2>2. Inserting' = Inserting
    BY <2>1 DEF Inserting
  <2>3. /\ up[k] \in Seq(Nat) /\ up[k] # <<>>
        /\ \A m \in Conn : up'[m] = IF m = k THEN Tail(up[k]) ELSE up[m]
    BY <1>23 DEF TypeOK, RejectUpdate
  <2>4. Once(Tail(up[k])) /\ Range(Tail(up[k])) \subseteq Range(up[k])
    BY <2>3, TailOnce, HeadTail DEF Apart, QueuesOnce
  <2>5. \A m \in Conn : Once(up'[m]) /\ Range(up'[m]) \subseteq Range(up[m])
    BY <2>3, <2>4 DEF Apart, QueuesOnce
  <2>6. \A c \in Client : Once(pending'[c]) /\ Range(pending'[c]) \subseteq Range(pending[c])
    BY <2>1 DEF Apart, QueuesOnce
  <2>. QED
    BY <2>1, <2>2, <2>5, <2>6, Shrinks
<1>24. ASSUME NEW k \in Conn, CommitAppend(k) PROVE Apart'
  <2>1. /\ UNCHANGED <<nextId, cur, pending, up>>
        /\ committed' = committed \cup {cur[k]}
        /\ k \in Inserting
    BY <1>24 DEF CommitAppend, CommitRow, Inserting, tabVars
  <2>2. Inserting' = Inserting \ {k}
    BY <1>24 DEF TypeOK, CommitAppend, Inserting
  <2>3. EditsOf(committed') = EditsOf(committed) \cup {cur[k].edit}
    BY <2>1 DEF EditsOf
  <2>4. QueuesOnce' /\ QueuesApart'
    BY <2>1 DEF Apart, QueuesOnce, QueuesApart
  <2>5. QueuesNotStored'
    <3>1. /\ \A c \in Client : cur[k].edit \notin Range(pending[c])
          /\ \A m \in Conn : cur[k].edit \notin Range(up[m])
      BY <2>1 DEF Apart, InHandApart
    <3>2. ASSUME NEW c \in Client PROVE Range(pending'[c]) \cap EditsOf(committed') = {}
      BY <2>1, <2>3, <3>1 DEF Apart, QueuesNotStored
    <3>3. ASSUME NEW m \in Conn PROVE Range(up'[m]) \cap EditsOf(committed') = {}
      BY <2>1, <2>3, <3>1 DEF Apart, QueuesNotStored
    <3>. QED
      BY <3>2, <3>3 DEF QueuesNotStored
  <2>6. InHandApart'
    BY <2>1, <2>2, <2>3 DEF Apart, InHandApart
  <2>7. IdsApart'
    BY <2>1, <2>2 DEF Apart, IdsApart
  <2>8. ASSUME NEW u \in committed PROVE u.edit # cur[k].edit /\ u.id # cur[k].id
    BY <2>1 DEF Apart, InHandApart, IdsApart, EditsOf
  <2>9. EachEditStoredOnce'
    BY <2>1, <2>8 DEF Apart, EachEditStoredOnce
  <2>. QED
    BY <2>4, <2>5, <2>6, <2>7, <2>9 DEF Apart
<1>25. ASSUME NEW k \in Conn, Broadcast(k) PROVE Apart'
  <2>1. Inserting' \subseteq Inserting
    BY <1>25 DEF TypeOK, Broadcast, OpenSocket, Inserting, logVars, tabVars, connVars, auxVars
  <2>2. UNCHANGED <<committed, nextId, cur, pending, up>>
    BY <1>25 DEF Broadcast, Fault, logVars, tabVars, connVars, auxVars
  <2>. QED
    BY <2>1, <2>2, Undisturbed
<1>26. ASSUME NEW k \in Conn, Unwind(k) PROVE Apart'
  <2>1. Inserting' \subseteq Inserting
    BY <1>26 DEF TypeOK, Unwind, OpenSocket, Inserting, logVars, tabVars, connVars, auxVars
  <2>2. UNCHANGED <<committed, nextId, cur, pending, up>>
    BY <1>26 DEF Unwind, Fault, logVars, tabVars, connVars, auxVars
  <2>. QED
    BY <2>1, <2>2, Undisturbed
<1>27. CASE UNCHANGED vars
  <2>1. UNCHANGED <<committed, nextId, cur, pending, up, handler>>
    BY <1>27 DEF vars, logVars, tabVars, connVars
  <2>2. Inserting' = Inserting
    BY <2>1 DEF Inserting
  <2>. QED
    BY <2>1, <2>2, Undisturbed

<1>. QED
  BY <1>1, <1>2, <1>3, <1>4, <1>5, <1>6, <1>7, <1>8, <1>9, <1>10, <1>11, <1>12, <1>13, <1>14, <1>15, <1>16, <1>17, <1>18, <1>19, <1>20, <1>21, <1>22, <1>23, <1>24, <1>25, <1>26, <1>27 DEF Next, TabStep, ConnStep

(* Every behaviour keeps every edit in one place.                          *)
LEMMA StoreInvariant == Spec => [](TypeOK /\ FramesCommitted /\ Known /\ Apart)
<1>1. Init => TypeOK /\ FramesCommitted /\ Known /\ Apart
  BY InitType, InitFrames, InitKnown, InitApart
<1>2. TypeOK /\ FramesCommitted /\ Known /\ Apart /\ [Next]_vars
        => TypeOK' /\ FramesCommitted' /\ Known' /\ Apart'
  BY NextType, NextFrames, NextKnown, NextApart
<1>. QED
  BY <1>1, <1>2, PTL DEF Spec

(* One row per edit and one edit per id, whatever sockets close, frames    *)
(* the server rejects and pages reload: provider.ts's flush of pending     *)
(* edits, and the inserts of concurrent handlers, never store an edit      *)
(* twice.                                                                  *)
THEOREM StoredOnce == Spec => []EachEditStoredOnce
<1>1. Apart => EachEditStoredOnce
  BY DEF Apart
<1>. QED
  BY <1>1, StoreInvariant, PTL

-----------------------------------------------------------------------------
(* The refinement: typing is TypeEdit, applying a frame is Learn, loading  *)
(* is LoadAgain, a commit of a row or a snapshot is MakeDurable, and       *)
(* everything else leaves the shared document as it is.                    *)
LEMMA StandsStill ==
  ASSUME UNCHANGED <<doc, edits, committed, snaps>>
  PROVE  [Shared!DocNext]_(Shared!docVars)
BY DEF Shared!docVars, Durable, EditsOf

LEMMA InitRefines == Init => Shared!DocInit
BY DEF Init, LogInit, Shared!DocInit, Durable, EditsOf

LEMMA NextRefines ==
  TypeOK /\ FramesCommitted /\ Known /\ Known' /\ [Next]_vars => [Shared!DocNext]_(Shared!docVars)
<1> SUFFICES ASSUME TypeOK, FramesCommitted, Known, Known', [Next]_vars
             PROVE  [Shared!DocNext]_(Shared!docVars)
  OBVIOUS
<1>1. ASSUME NEW c \in Client, NEW k \in Conn, LoadSeed(c, k) PROVE [Shared!DocNext]_(Shared!docVars)
  <2>1. UNCHANGED <<logVars, edits>> /\ Durable' = Durable
    BY <1>1 DEF LoadSeed, OpenSocket, logVars, auxVars, Durable, EditsOf
  <2>2. doc' = doc \/ \E s \in snaps : doc' = [doc EXCEPT ![c] = s.edits]
    BY <1>1 DEF LoadSeed, LatestSnapshots
  <2>3. CASE doc' = doc
    BY <2>1, <2>3 DEF Shared!docVars
  <2>4. CASE \E s \in snaps : doc' = [doc EXCEPT ![c] = s.edits]
    <3>1. PICK s \in snaps : doc' = [doc EXCEPT ![c] = s.edits]
      BY <2>4
    <3>2. s.edits \in SUBSET Durable
      BY <3>1 DEF Durable
    <3>3. Shared!LoadAgain(c)
      BY <2>1, <3>1, <3>2 DEF Shared!LoadAgain
    <3>. QED
      BY <3>3 DEF Shared!DocNext
  <2>. QED
    BY <2>2, <2>3, <2>4
<1>2. ASSUME NEW c \in Client, NEW k \in Conn, LoadSeedFails(c, k) PROVE [Shared!DocNext]_(Shared!docVars)
  <2>1. UNCHANGED <<doc, edits, committed, snaps>>
    BY <1>2 DEF LoadSeedFails, Fault, logVars, tabVars, connVars, auxVars
  <2>. QED
    BY <2>1, StandsStill
<1>3. ASSUME NEW c \in Client, NEW k \in Conn, Reconnect(c, k) PROVE [Shared!DocNext]_(Shared!docVars)
  <2>1. UNCHANGED <<doc, edits, committed, snaps>>
    BY <1>3 DEF Reconnect, Fault, logVars, tabVars, connVars, auxVars
  <2>. QED
    BY <2>1, StandsStill
<1>4. ASSUME NEW c \in Client, HandleOpen(c) PROVE [Shared!DocNext]_(Shared!docVars)
  <2>1. UNCHANGED <<doc, edits, committed, snaps>>
    BY <1>4 DEF HandleOpen, Fault, logVars, tabVars, connVars, auxVars
  <2>. QED
    BY <2>1, StandsStill
<1>5. ASSUME NEW c \in Client, HandleClose(c) PROVE [Shared!DocNext]_(Shared!docVars)
  <2>1. UNCHANGED <<doc, edits, committed, snaps>>
    BY <1>5 DEF HandleClose, Fault, logVars, tabVars, connVars, auxVars
  <2>. QED
    BY <2>1, StandsStill
<1>6. ASSUME NEW c \in Client, Reload(c) PROVE [Shared!DocNext]_(Shared!docVars)
  <2>1. UNCHANGED <<logVars, edits>> /\ Durable' = Durable
    BY <1>6 DEF Reload, logVars, Durable, EditsOf
  <2>2. doc' = [doc EXCEPT ![c] = {}] /\ {} \in SUBSET Durable
    BY <1>6 DEF Reload
  <2>3. Shared!LoadAgain(c)
    BY <2>1, <2>2 DEF Shared!LoadAgain
  <2>. QED
    BY <2>3 DEF Shared!DocNext
<1>7. ASSUME NEW c \in Client, Type(c) PROVE [Shared!DocNext]_(Shared!docVars)
  <2>1. UNCHANGED <<logVars>> /\ Durable' = Durable
    BY <1>7 DEF Type, logVars, Durable, EditsOf
  <2>2. edits' = edits + 1 /\ doc' = [doc EXCEPT ![c] = doc[c] \cup {edits + 1}]
    BY <1>7 DEF Type
  <2>3. 1 .. edits' = (1 .. edits) \cup {edits + 1} /\ edits + 1 \in (1 .. edits') \ (1 .. edits)
    BY <2>2 DEF TypeOK
  <2>4. Shared!TypeEdit(c)
    BY <2>1, <2>2, <2>3 DEF Shared!TypeEdit
  <2>. QED
    BY <2>4 DEF Shared!DocNext
<1>8. ASSUME NEW c \in Client, ReceiveFrame(c) PROVE [Shared!DocNext]_(Shared!docVars)
  <2>1. UNCHANGED <<doc, edits, committed, snaps>>
    BY <1>8 DEF ReceiveFrame, Fault, logVars, tabVars, connVars, auxVars
  <2>. QED
    BY <2>1, StandsStill
<1>9. ASSUME NEW c \in Client, ApplyUpdate(c) PROVE [Shared!DocNext]_(Shared!docVars)
  <2>1. UNCHANGED <<logVars, edits>> /\ Durable' = Durable
    BY <1>9 DEF ApplyUpdate, logVars, auxVars, Durable, EditsOf
  <2>2. Head(queue[c]) \in committed
    BY <1>9, HeadTail DEF TypeOK, FramesCommitted, ApplyUpdate
  <2>3. Head(queue[c]).edit \in Durable
    BY <2>2 DEF Durable, EditsOf
  <2>4. doc' = [doc EXCEPT ![c] = doc[c] \cup {Head(queue[c]).edit}]
    BY <1>9 DEF ApplyUpdate
  <2>5. Shared!Learn(c)
    BY <2>1, <2>3, <2>4 DEF Shared!Learn
  <2>. QED
    BY <2>5 DEF Shared!DocNext
<1>10. ASSUME NEW c \in Client, DiscardUpdate(c) PROVE [Shared!DocNext]_(Shared!docVars)
  <2>1. UNCHANGED <<doc, edits, committed, snaps>>
    BY <1>10 DEF DiscardUpdate, Fault, logVars, tabVars, connVars, auxVars
  <2>. QED
    BY <2>1, StandsStill
<1>11. ASSUME NEW c \in Client, ListPending(c) PROVE [Shared!DocNext]_(Shared!docVars)
  <2>1. UNCHANGED <<doc, edits, committed, snaps>>
    BY <1>11 DEF ListPending, Fault, logVars, tabVars, connVars, auxVars
  <2>. QED
    BY <2>1, StandsStill
<1>12. ASSUME NEW c \in Client, PostSnapshot(c) PROVE [Shared!DocNext]_(Shared!docVars)
  <2>1. UNCHANGED <<doc, edits, committed, snaps>>
    BY <1>12 DEF PostSnapshot, Fault, logVars, tabVars, connVars, auxVars
  <2>. QED
    BY <2>1, StandsStill
<1>13. ASSUME NEW c \in Client, CommitSnapshot(c) PROVE [Shared!DocNext]_(Shared!docVars)
  <2>1. /\ UNCHANGED <<doc, edits, committed>>
        /\ snaps \subseteq snaps'
    BY <1>13 DEF CommitSnapshot, CreateSnapshot, auxVars
  <2>2. Durable \subseteq Durable'
    BY <2>1 DEF Durable, EditsOf
  <2>3. Durable' \subseteq 1 .. edits
    BY <2>1 DEF Durable, EditsOf, Known
  <2>4. Shared!MakeDurable
    BY <2>1, <2>2, <2>3 DEF Shared!MakeDurable
  <2>. QED
    BY <2>4 DEF Shared!DocNext
<1>14. ASSUME NEW c \in Client, PostFails(c) PROVE [Shared!DocNext]_(Shared!docVars)
  <2>1. UNCHANGED <<doc, edits, committed, snaps>>
    BY <1>14 DEF PostFails, Fault, logVars, tabVars, connVars, auxVars
  <2>. QED
    BY <2>1, StandsStill
<1>15. ASSUME NEW k \in Conn, Drop(k) PROVE [Shared!DocNext]_(Shared!docVars)
  <2>1. UNCHANGED <<doc, edits, committed, snaps>>
    BY <1>15 DEF Drop, Fault, logVars, tabVars, connVars, auxVars
  <2>. QED
    BY <2>1, StandsStill
<1>16. ASSUME NEW k \in Conn, Join(k) PROVE [Shared!DocNext]_(Shared!docVars)
  <2>1. UNCHANGED <<doc, edits, committed, snaps>>
    BY <1>16 DEF Join, Fault, logVars, tabVars, connVars, auxVars
  <2>. QED
    BY <2>1, StandsStill
<1>17. ASSUME NEW k \in Conn, Refuse(k) PROVE [Shared!DocNext]_(Shared!docVars)
  <2>1. UNCHANGED <<doc, edits, committed, snaps>>
    BY <1>17 DEF Refuse, Fault, logVars, tabVars, connVars, auxVars
  <2>. QED
    BY <2>1, StandsStill
<1>18. ASSUME NEW k \in Conn, QueryHistory(k) PROVE [Shared!DocNext]_(Shared!docVars)
  <2>1. UNCHANGED <<doc, edits, committed, snaps>>
    BY <1>18 DEF QueryHistory, Fault, logVars, tabVars, connVars, auxVars
  <2>. QED
    BY <2>1, StandsStill
<1>19. ASSUME NEW k \in Conn, QueryHistoryFails(k) PROVE [Shared!DocNext]_(Shared!docVars)
  <2>1. UNCHANGED <<doc, edits, committed, snaps>>
    BY <1>19 DEF QueryHistoryFails, Fault, logVars, tabVars, connVars, auxVars
  <2>. QED
    BY <2>1, StandsStill
<1>20. ASSUME NEW k \in Conn, ReplayNext(k) PROVE [Shared!DocNext]_(Shared!docVars)
  <2>1. UNCHANGED <<doc, edits, committed, snaps>>
    BY <1>20 DEF ReplayNext, Fault, logVars, tabVars, connVars, auxVars
  <2>. QED
    BY <2>1, StandsStill
<1>21. ASSUME NEW k \in Conn, StartReading(k) PROVE [Shared!DocNext]_(Shared!docVars)
  <2>1. UNCHANGED <<doc, edits, committed, snaps>>
    BY <1>21 DEF StartReading, Fault, logVars, tabVars, connVars, auxVars
  <2>. QED
    BY <2>1, StandsStill
<1>22. ASSUME NEW k \in Conn, BeginAppend(k) PROVE [Shared!DocNext]_(Shared!docVars)
  <2>1. UNCHANGED <<doc, edits, committed, snaps>>
    BY <1>22 DEF BeginAppend, Fault, logVars, tabVars, connVars, auxVars
  <2>. QED
    BY <2>1, StandsStill
<1>23. ASSUME NEW k \in Conn, RejectUpdate(k) PROVE [Shared!DocNext]_(Shared!docVars)
  <2>1. UNCHANGED <<doc, edits, committed, snaps>>
    BY <1>23 DEF RejectUpdate, Fault, logVars, tabVars, connVars, auxVars
  <2>. QED
    BY <2>1, StandsStill
<1>24. ASSUME NEW k \in Conn, CommitAppend(k) PROVE [Shared!DocNext]_(Shared!docVars)
  <2>1. /\ UNCHANGED <<doc, edits, snaps>>
        /\ committed \subseteq committed'
    BY <1>24 DEF CommitAppend, CommitRow, tabVars, auxVars
  <2>2. Durable \subseteq Durable'
    BY <2>1 DEF Durable, EditsOf
  <2>3. Durable' \subseteq 1 .. edits
    BY <2>1 DEF Durable, EditsOf, Known
  <2>4. Shared!MakeDurable
    BY <2>1, <2>2, <2>3 DEF Shared!MakeDurable
  <2>. QED
    BY <2>4 DEF Shared!DocNext
<1>25. ASSUME NEW k \in Conn, Broadcast(k) PROVE [Shared!DocNext]_(Shared!docVars)
  <2>1. UNCHANGED <<doc, edits, committed, snaps>>
    BY <1>25 DEF Broadcast, Fault, logVars, tabVars, connVars, auxVars
  <2>. QED
    BY <2>1, StandsStill
<1>26. ASSUME NEW k \in Conn, Unwind(k) PROVE [Shared!DocNext]_(Shared!docVars)
  <2>1. UNCHANGED <<doc, edits, committed, snaps>>
    BY <1>26 DEF Unwind, Fault, logVars, tabVars, connVars, auxVars
  <2>. QED
    BY <2>1, StandsStill
<1>27. CASE UNCHANGED vars
  <2>1. UNCHANGED <<doc, edits, committed, snaps>>
    BY <1>27 DEF vars, logVars, tabVars, auxVars
  <2>. QED
    BY <2>1, StandsStill

<1>. QED
  BY <1>1, <1>2, <1>3, <1>4, <1>5, <1>6, <1>7, <1>8, <1>9, <1>10, <1>11, <1>12, <1>13, <1>14, <1>15, <1>16, <1>17, <1>18, <1>19, <1>20, <1>21, <1>22, <1>23, <1>24, <1>25, <1>26, <1>27 DEF Next, TabStep, ConnStep

(* The tabs, sockets, handlers and the log together implement the shared   *)
(* document of SharedDocument: what others see is durable first, durable   *)
(* edits stay durable, and nothing is in a document that nobody typed.     *)
THEOREM Refines == Spec => ImplementsSharedDocument
<1>. QED
  BY InitRefines, NextRefines, StoreInvariant, PTL DEF Spec, ImplementsSharedDocument, Shared!DocSpec
-----------------------------------------------------------------------------
(* A lone editor. While one tab is all there is and it is not reloaded, it *)
(* holds every edit ever typed, hence whatever a row can carry: a snapshot *)
(* it encodes covers every row of an id drawn by then, also the ones that  *)
(* an older socket's handler has yet to commit.                            *)
Covered(n, es) ==
  /\ \A u \in committed : u.id <= n => u.edit \in es
  /\ \A k \in Inserting : cur[k].id <= n => cur[k].edit \in es

HoldsAll == \A c \in Client : 1 .. edits \subseteq doc[c]

LoadingIsNew ==
  \A c \in Client : phase[c] = "loading" => ~timerOn[c] /\ task[c].stage = "none" /\ snaps = {}

PostsCover ==
  /\ \A c \in Client : task[c].stage # "none" => task[c].upTo < nextId
  /\ \A c \in Client : task[c].stage = "posted" => Covered(task[c].upTo, task[c].edits)

SnapsCover == \A s \in snaps : s.upTo < nextId /\ Covered(s.upTo, s.edits)

PrunedIsCovered == \A u \in committed : u \in rows \/ \E s \in snaps : u.id <= s.upTo

SoloInv == HoldsAll /\ LoadingIsNew /\ PostsCover /\ SnapsCover /\ PrunedIsCovered

OneTab == (\A c, d \in Client : c = d) /\ "reload" \notin Faults

LEMMA InitSolo == Init => SoloInv
BY DEF Init, LogInit, Idle, SoloInv, HoldsAll, LoadingIsNew, PostsCover, SnapsCover, PrunedIsCovered

(* What says nothing of the log, the document or the compaction under way, *)
(* and puts no update in a handler's hand, keeps all of it.                *)
LEMMA SoloKept ==
  ASSUME SoloInv, UNCHANGED <<committed, rows, snaps, nextId, edits, doc, task, cur>>,
         Inserting' \subseteq Inserting,
         \A c \in Client : phase'[c] = "loading" => phase[c] = "loading" /\ timerOn'[c] = timerOn[c]
  PROVE  SoloInv'
<1>1. HoldsAll'
  BY DEF SoloInv, HoldsAll
<1>2. LoadingIsNew'
  BY DEF SoloInv, LoadingIsNew
<1>3. ASSUME NEW n, NEW es, Covered(n, es) PROVE Covered(n, es)'
  BY <1>3 DEF Covered
<1>4. PostsCover'
  BY <1>3 DEF SoloInv, PostsCover, Covered
<1>5. SnapsCover'
  BY <1>3 DEF SoloInv, SnapsCover, Covered
<1>6. PrunedIsCovered'
  BY DEF SoloInv, PrunedIsCovered
<1>. QED
  BY <1>1, <1>2, <1>4, <1>5, <1>6 DEF SoloInv

LEMMA NextSolo ==
  ASSUME TypeOK, FramesCommitted, Known, Known', Apart, SoloInv, OneTab, [Next]_vars
  PROVE  SoloInv'
<1>1. ASSUME NEW c \in Client, NEW k \in Conn, Reconnect(c, k) PROVE SoloInv'
  <2>1. UNCHANGED <<committed, rows, snaps, nextId, edits, doc, task, cur>>
    BY <1>1 DEF Reconnect, logVars, OpenSocket, auxVars
  <2>2. Inserting' \subseteq Inserting
    BY <1>1 DEF Reconnect, Inserting, TypeOK, OpenSocket, auxVars
  <2>3. \A d \in Client : phase'[d] = "loading" => phase[d] = "loading" /\ timerOn'[d] = timerOn[d]
    BY <1>1 DEF Reconnect, TypeOK, OpenSocket, auxVars
  <2>. QED
    BY <2>1, <2>2, <2>3, SoloKept
<1>2. ASSUME NEW c \in Client, HandleOpen(c) PROVE SoloInv'
  <2>1. UNCHANGED <<committed, rows, snaps, nextId, edits, doc, task, cur>>
    BY <1>2 DEF HandleOpen, logVars, auxVars
  <2>2. Inserting' \subseteq Inserting
    BY <1>2 DEF HandleOpen, Inserting, TypeOK, auxVars
  <2>3. \A d \in Client : phase'[d] = "loading" => phase[d] = "loading" /\ timerOn'[d] = timerOn[d]
    BY <1>2 DEF HandleOpen, TypeOK, auxVars
  <2>. QED
    BY <2>1, <2>2, <2>3, SoloKept
<1>3. ASSUME NEW c \in Client, HandleClose(c) PROVE SoloInv'
  <2>1. UNCHANGED <<committed, rows, snaps, nextId, edits, doc, task, cur>>
    BY <1>3 DEF HandleClose, logVars, connVars, auxVars
  <2>2. Inserting' \subseteq Inserting
    BY <1>3 DEF HandleClose, Inserting, TypeOK, connVars, auxVars
  <2>3. \A d \in Client : phase'[d] = "loading" => phase[d] = "loading" /\ timerOn'[d] = timerOn[d]
    BY <1>3 DEF HandleClose, TypeOK, connVars, auxVars
  <2>. QED
    BY <2>1, <2>2, <2>3, SoloKept
<1>4. ASSUME NEW c \in Client, ReceiveFrame(c) PROVE SoloInv'
  <2>1. UNCHANGED <<committed, rows, snaps, nextId, edits, doc, task, cur>>
    BY <1>4 DEF ReceiveFrame, logVars, auxVars
  <2>2. Inserting' \subseteq Inserting
    BY <1>4 DEF ReceiveFrame, Inserting, TypeOK, auxVars
  <2>3. \A d \in Client : phase'[d] = "loading" => phase[d] = "loading" /\ timerOn'[d] = timerOn[d]
    BY <1>4 DEF ReceiveFrame, TypeOK, auxVars
  <2>. QED
    BY <2>1, <2>2, <2>3, SoloKept
<1>5. ASSUME NEW c \in Client, DiscardUpdate(c) PROVE SoloInv'
  <2>1. UNCHANGED <<committed, rows, snaps, nextId, edits, doc, task, cur>>
    BY <1>5 DEF DiscardUpdate, logVars, connVars, Fault
  <2>2. Inserting' \subseteq Inserting
    BY <1>5 DEF DiscardUpdate, Inserting, TypeOK, connVars, Fault
  <2>3. \A d \in Client : phase'[d] = "loading" => phase[d] = "loading" /\ timerOn'[d] = timerOn[d]
    BY <1>5 DEF DiscardUpdate, TypeOK, connVars, Fault
  <2>. QED
    BY <2>1, <2>2, <2>3, SoloKept
<1>6. ASSUME NEW k \in Conn, Drop(k) PROVE SoloInv'
  <2>1. UNCHANGED <<committed, rows, snaps, nextId, edits, doc, task, cur>>
    BY <1>6 DEF Drop, logVars, tabVars, Fault
  <2>2. Inserting' \subseteq Inserting
    BY <1>6 DEF Drop, Inserting, TypeOK, tabVars, Fault
  <2>3. \A d \in Client : phase'[d] = "loading" => phase[d] = "loading" /\ timerOn'[d] = timerOn[d]
    BY <1>6 DEF Drop, TypeOK, tabVars, Fault
  <2>. QED
    BY <2>1, <2>2, <2>3, SoloKept
<1>7. ASSUME NEW k \in Conn, Join(k) PROVE SoloInv'
  <2>1. UNCHANGED <<committed, rows, snaps, nextId, edits, doc, task, cur>>
    BY <1>7 DEF Join, logVars, tabVars, auxVars
  <2>2. Inserting' \subseteq Inserting
    BY <1>7 DEF Join, Inserting, TypeOK, tabVars, auxVars
  <2>3. \A d \in Client : phase'[d] = "loading" => phase[d] = "loading" /\ timerOn'[d] = timerOn[d]
    BY <1>7 DEF Join, TypeOK, tabVars, auxVars
  <2>. QED
    BY <2>1, <2>2, <2>3, SoloKept
<1>8. ASSUME NEW k \in Conn, Refuse(k) PROVE SoloInv'
  <2>1. UNCHANGED <<committed, rows, snaps, nextId, edits, doc, task, cur>>
    BY <1>8 DEF Refuse, logVars, tabVars
  <2>2. Inserting' \subseteq Inserting
    BY <1>8 DEF Refuse, Inserting, TypeOK, tabVars
  <2>3. \A d \in Client : phase'[d] = "loading" => phase[d] = "loading" /\ timerOn'[d] = timerOn[d]
    BY <1>8 DEF Refuse, TypeOK, tabVars
  <2>. QED
    BY <2>1, <2>2, <2>3, SoloKept
<1>9. ASSUME NEW k \in Conn, QueryHistory(k) PROVE SoloInv'
  <2>1. UNCHANGED <<committed, rows, snaps, nextId, edits, doc, task, cur>>
    BY <1>9 DEF QueryHistory, logVars, tabVars, auxVars
  <2>2. Inserting' \subseteq Inserting
    BY <1>9 DEF QueryHistory, Inserting, TypeOK, tabVars, auxVars
  <2>3. \A d \in Client : phase'[d] = "loading" => phase[d] = "loading" /\ timerOn'[d] = timerOn[d]
    BY <1>9 DEF QueryHistory, TypeOK, tabVars, auxVars
  <2>. QED
    BY <2>1, <2>2, <2>3, SoloKept
<1>10. ASSUME NEW k \in Conn, QueryHistoryFails(k) PROVE SoloInv'
  <2>1. UNCHANGED <<committed, rows, snaps, nextId, edits, doc, task, cur>>
    BY <1>10 DEF QueryHistoryFails, logVars, tabVars
  <2>2. Inserting' \subseteq Inserting
    BY <1>10 DEF QueryHistoryFails, Inserting, TypeOK, tabVars
  <2>3. \A d \in Client : phase'[d] = "loading" => phase[d] = "loading" /\ timerOn'[d] = timerOn[d]
    BY <1>10 DEF QueryHistoryFails, TypeOK, tabVars
  <2>. QED
    BY <2>1, <2>2, <2>3, SoloKept
<1>11. ASSUME NEW k \in Conn, ReplayNext(k) PROVE SoloInv'
  <2>1. UNCHANGED <<committed, rows, snaps, nextId, edits, doc, task, cur>>
    BY <1>11 DEF ReplayNext, logVars, tabVars, auxVars
  <2>2. Inserting' \subseteq Inserting
    BY <1>11 DEF ReplayNext, Inserting, TypeOK, tabVars, auxVars
  <2>3. \A d \in Client : phase'[d] = "loading" => phase[d] = "loading" /\ timerOn'[d] = timerOn[d]
    BY <1>11 DEF ReplayNext, TypeOK, tabVars, auxVars
  <2>. QED
    BY <2>1, <2>2, <2>3, SoloKept
<1>12. ASSUME NEW k \in Conn, StartReading(k) PROVE SoloInv'
  <2>1. UNCHANGED <<committed, rows, snaps, nextId, edits, doc, task, cur>>
    BY <1>12 DEF StartReading, logVars, tabVars, auxVars
  <2>2. Inserting' \subseteq Inserting
    BY <1>12 DEF StartReading, Inserting, TypeOK, tabVars, auxVars
  <2>3. \A d \in Client : phase'[d] = "loading" => phase[d] = "loading" /\ timerOn'[d] = timerOn[d]
    BY <1>12 DEF StartReading, TypeOK, tabVars, auxVars
  <2>. QED
    BY <2>1, <2>2, <2>3, SoloKept
<1>13. ASSUME NEW k \in Conn, RejectUpdate(k) PROVE SoloInv'
  <2>1. UNCHANGED <<committed, rows, snaps, nextId, edits, doc, task, cur>>
    BY <1>13 DEF RejectUpdate, logVars, tabVars
  <2>2. Inserting' \subseteq Inserting
    BY <1>13 DEF RejectUpdate, Inserting, TypeOK, tabVars
  <2>3. \A d \in Client : phase'[d] = "loading" => phase[d] = "loading" /\ timerOn'[d] = timerOn[d]
    BY <1>13 DEF RejectUpdate, TypeOK, tabVars
  <2>. QED
    BY <2>1, <2>2, <2>3, SoloKept
<1>14. ASSUME NEW k \in Conn, Broadcast(k) PROVE SoloInv'
  <2>1. UNCHANGED <<committed, rows, snaps, nextId, edits, doc, task, cur>>
    BY <1>14 DEF Broadcast, logVars, tabVars, auxVars
  <2>2. Inserting' \subseteq Inserting
    BY <1>14 DEF Broadcast, Inserting, TypeOK, tabVars, auxVars
  <2>3. \A d \in Client : phase'[d] = "loading" => phase[d] = "loading" /\ timerOn'[d] = timerOn[d]
    BY <1>14 DEF Broadcast, TypeOK, tabVars, auxVars
  <2>. QED
    BY <2>1, <2>2, <2>3, SoloKept
<1>15. ASSUME NEW k \in Conn, Unwind(k) PROVE SoloInv'
  <2>1. UNCHANGED <<committed, rows, snaps, nextId, edits, doc, task, cur>>
    BY <1>15 DEF Unwind, logVars, tabVars, auxVars
  <2>2. Inserting' \subseteq Inserting
    BY <1>15 DEF Unwind, Inserting, TypeOK, tabVars, auxVars
  <2>3. \A d \in Client : phase'[d] = "loading" => phase[d] = "loading" /\ timerOn'[d] = timerOn[d]
    BY <1>15 DEF Unwind, TypeOK, tabVars, auxVars
  <2>. QED
    BY <2>1, <2>2, <2>3, SoloKept
<1>16. ASSUME NEW c \in Client, NEW k \in Conn, LoadSeed(c, k) PROVE SoloInv'
  <2>1. snaps = {}
    BY <1>16 DEF LoadSeed, SoloInv, LoadingIsNew
  <2>2. /\ UNCHANGED <<committed, rows, snaps, nextId, edits, doc, task, cur, timerOn>>
        /\ handler' = [handler EXCEPT ![k] = "handshake"]
        /\ phase' = [phase EXCEPT ![c] = "connecting"]
    BY <1>16, <2>1 DEF LoadSeed, OpenSocket, LatestSnapshots, logVars, auxVars
  <2>3. Inserting' \subseteq Inserting
    BY <2>2 DEF Inserting, TypeOK
  <2>4. \A d \in Client : phase'[d] = "loading" => phase[d] = "loading" /\ timerOn'[d] = timerOn[d]
    BY <2>2 DEF TypeOK
  <2>. QED
    BY <2>2, <2>3, <2>4, SoloKept
<1>17. ASSUME NEW c \in Client, NEW k \in Conn, LoadSeedFails(c, k) PROVE SoloInv'
  BY <1>17 DEF LoadSeedFails, SoloInv, LoadingIsNew
<1>18. ASSUME NEW c \in Client, Reload(c) PROVE SoloInv'
  BY <1>18 DEF Reload, Fault, OneTab
<1>19. ASSUME NEW c \in Client, Type(c) PROVE SoloInv'
  <2>1. /\ edits' = edits + 1 /\ edits \in Nat
        /\ doc' = [doc EXCEPT ![c] = doc[c] \cup {edits + 1}]
        /\ UNCHANGED <<logVars, task, cur, handler, phase, timerOn>>
    BY <1>19 DEF Type, TypeOK
  <2>2. HoldsAll'
    <3>1. \A d \in Client : d = c
      BY DEF OneTab
    <3>2. doc'[c] = doc[c] \cup {edits + 1} /\ 1 .. edits \subseteq doc[c]
      BY <2>1 DEF TypeOK, SoloInv, HoldsAll
    <3>3. \A i \in 1 .. edits + 1 : i \in 1 .. edits \/ i = edits + 1
      BY <2>1
    <3>4. 1 .. edits' \subseteq doc'[c]
      BY <2>1, <3>2, <3>3
    <3>. QED
      BY <3>1, <3>4 DEF HoldsAll
  <2>. QED
    BY <2>1, <2>2 DEF SoloInv, LoadingIsNew, PostsCover, SnapsCover, PrunedIsCovered, Covered, Inserting, logVars
<1>20. ASSUME NEW c \in Client, ApplyUpdate(c) PROVE SoloInv'
  <2>1. UNCHANGED <<logVars, edits, task, cur, handler, phase, timerOn>>
    BY <1>20 DEF ApplyUpdate, connVars, auxVars
  <2>2. HoldsAll'
    BY <1>20, <2>1 DEF ApplyUpdate, SoloInv, HoldsAll, TypeOK
  <2>. QED
    BY <2>1, <2>2 DEF SoloInv, LoadingIsNew, PostsCover, SnapsCover, PrunedIsCovered, Covered, Inserting, logVars
<1>21. ASSUME NEW c \in Client, ListPending(c) PROVE SoloInv'
  <2>1. PICK last \in rows : task' = [task EXCEPT ![c] = [stage |-> "listed", upTo |-> last.id, edits |-> {}]]
    BY <1>21 DEF ListPending
  <2>2. /\ timerOn[c]
        /\ UNCHANGED <<logVars, edits, doc, cur, handler, phase, timerOn>>
    BY <1>21 DEF ListPending, connVars
  <2>3. last.id < nextId
    BY DEF FramesCommitted, Apart, IdsApart
  <2>4. LoadingIsNew'
    BY <2>1, <2>2 DEF SoloInv, LoadingIsNew, TypeOK, logVars
  <2>5. PostsCover'
    <3>1. \A d \in Client : d = c
      BY DEF OneTab
    <3>2. task'[c].stage = "listed" /\ task'[c].upTo = last.id
      BY <2>1 DEF TypeOK
    <3>. QED
      BY <2>2, <2>3, <3>1, <3>2 DEF PostsCover, logVars
  <2>. QED
    BY <2>2, <2>4, <2>5 DEF SoloInv, HoldsAll, SnapsCover, PrunedIsCovered, Covered, Inserting, logVars
<1>22. ASSUME NEW c \in Client, PostSnapshot(c) PROVE SoloInv'
  <2>1. /\ task[c].stage = "listed"
        /\ task' = [task EXCEPT ![c] = [stage |-> "posted", upTo |-> task[c].upTo, edits |-> doc[c]]]
        /\ UNCHANGED <<logVars, edits, doc, cur, handler, phase, timerOn>>
    BY <1>22 DEF PostSnapshot, connVars, auxVars
  <2>2. LoadingIsNew'
    BY <2>1 DEF SoloInv, LoadingIsNew, TypeOK, logVars
  <2>3. Covered(task[c].upTo, doc[c])
    BY DEF Known, Covered, SoloInv, HoldsAll, EditsOf
  <2>4. PostsCover'
    <3>1. \A d \in Client : d = c
      BY DEF OneTab
    <3>2. task'[c].stage = "posted" /\ task'[c].upTo = task[c].upTo /\ task'[c].edits = doc[c]
      BY <2>1 DEF TypeOK
    <3>3. task[c].upTo < nextId
      BY <2>1 DEF SoloInv, PostsCover
    <3>. QED
      BY <2>1, <2>3, <3>1, <3>2, <3>3 DEF PostsCover, Covered, Inserting, logVars
  <2>. QED
    BY <2>1, <2>2, <2>4 DEF SoloInv, HoldsAll, SnapsCover, PrunedIsCovered, Covered, Inserting, logVars
<1>23. ASSUME NEW c \in Client, CommitSnapshot(c) PROVE SoloInv'
  <2> DEFINE new == [upTo |-> task[c].upTo, edits |-> task[c].edits]
  <2>1. /\ task[c].stage = "posted"
        /\ snaps' = snaps \cup {new}
        /\ rows' = {r \in rows : r.id > new.upTo}
        /\ task' = [task EXCEPT ![c] = Idle]
        /\ UNCHANGED <<nextId, committed, edits, doc, cur, handler, phase, timerOn>>
    BY <1>23 DEF CommitSnapshot, CreateSnapshot, connVars, auxVars
  <2>2. \A d \in Client : d = c
    BY DEF OneTab
  <2>3. task'[c].stage = "none"
    BY <2>1 DEF TypeOK, Idle
  <2>4. LoadingIsNew'
    <3>1. phase[c] # "loading"
      BY <2>1 DEF SoloInv, LoadingIsNew
    <3>. QED
      BY <2>1, <2>2, <3>1 DEF LoadingIsNew
  <2>5. PostsCover'
    BY <2>2, <2>3 DEF PostsCover
  <2>6. new.upTo < nextId /\ Covered(new.upTo, new.edits)
    BY <2>1 DEF SoloInv, PostsCover
  <2>7. SnapsCover'
    BY <2>1, <2>6 DEF SoloInv, SnapsCover, Covered, Inserting
  <2>8. PrunedIsCovered'
    <3>1. new.upTo \in Nat
      BY DEF TypeOK, Task
    <3>2. ASSUME NEW u \in committed PROVE u \in rows' \/ \E s \in snaps' : u.id <= s.upTo
      <4>1. u.id \in Nat
        BY DEF TypeOK, LogTypeOK, Update
      <4>2. CASE u \in rows
        <5>1. CASE u.id <= new.upTo
          BY <2>1, <5>1
        <5>2. CASE u.id > new.upTo
          BY <2>1, <4>2, <5>2
        <5>. QED
          BY <3>1, <4>1, <5>1, <5>2
      <4>3. CASE u \notin rows
        BY <2>1, <4>3 DEF SoloInv, PrunedIsCovered
      <4>. QED
        BY <4>2, <4>3
    <3>. QED
      BY <2>1, <3>2 DEF PrunedIsCovered
  <2>9. HoldsAll'
    BY <2>1 DEF SoloInv, HoldsAll
  <2>. QED
    BY <2>4, <2>5, <2>7, <2>8, <2>9 DEF SoloInv
<1>24. ASSUME NEW c \in Client, PostFails(c) PROVE SoloInv'
  <2>1. /\ task[c].stage = "posted"
        /\ task' = [task EXCEPT ![c] = Idle]
        /\ UNCHANGED <<logVars, edits, doc, cur, handler, phase, timerOn>>
    BY <1>24 DEF PostFails, connVars
  <2>2. \A d \in Client : task'[d] = task[d] \/ task'[d].stage = "none"
    BY <2>1 DEF TypeOK, Idle
  <2>3. LoadingIsNew' /\ PostsCover'
    BY <2>1, <2>2 DEF SoloInv, LoadingIsNew, PostsCover, Covered, Inserting, logVars
  <2>. QED
    BY <2>1, <2>3 DEF SoloInv, HoldsAll, SnapsCover, PrunedIsCovered, Covered, Inserting, logVars
<1>25. ASSUME NEW k \in Conn, BeginAppend(k) PROVE SoloInv'
  <2>1. /\ UNCHANGED <<committed, rows, snaps, edits, doc, task, phase, timerOn>>
        /\ nextId' = nextId + 1
        /\ cur' = [cur EXCEPT ![k] = [id |-> nextId, edit |-> Head(up[k])]]
        /\ handler' = [handler EXCEPT ![k] = "inserting"]
    BY <1>25 DEF BeginAppend, AllocateId, tabVars, auxVars
  <2>2. nextId \in Nat
    BY DEF TypeOK, LogTypeOK
  <2>3. cur'[k].id = nextId
    BY <2>1 DEF TypeOK
  <2>4. \A m \in Inserting' : m = k \/ (m \in Inserting /\ cur'[m] = cur[m])
    BY <2>1 DEF TypeOK, Inserting
  <2>5. ASSUME NEW i \in Nat, NEW es, i < nextId, Covered(i, es) PROVE Covered(i, es)'
    BY <2>1, <2>2, <2>3, <2>4, <2>5 DEF Covered
  <2>6. PostsCover'
    <3>1. ASSUME NEW d \in Client, task[d].stage # "none" PROVE task[d].upTo < nextId + 1
      BY <2>2, <3>1 DEF SoloInv, PostsCover, TypeOK, Task
    <3>2. ASSUME NEW d \in Client, task[d].stage = "posted" PROVE Covered(task[d].upTo, task[d].edits)'
      <4>1. task[d].upTo \in Nat /\ task[d].upTo < nextId /\ Covered(task[d].upTo, task[d].edits)
        BY <3>2 DEF SoloInv, PostsCover, TypeOK, Task
      <4>. QED
        BY <2>1, <2>2, <2>3, <2>4, <4>1 DEF Covered
    <3>. QED
      BY <2>1, <3>1, <3>2 DEF PostsCover
  <2>7. SnapsCover'
    <3>1. ASSUME NEW s \in snaps PROVE s.upTo < nextId + 1 /\ Covered(s.upTo, s.edits)'
      <4>1. s.upTo \in Nat /\ s.upTo < nextId /\ Covered(s.upTo, s.edits)
        BY DEF SoloInv, SnapsCover, TypeOK, LogTypeOK, Snapshot
      <4>. QED
        BY <2>2, <2>5, <4>1
    <3>. QED
      BY <2>1, <3>1 DEF SnapsCover
  <2>. QED
    BY <2>1, <2>6, <2>7 DEF SoloInv, HoldsAll, LoadingIsNew, PrunedIsCovered
<1>26. ASSUME NEW k \in Conn, CommitAppend(k) PROVE SoloInv'
  <2>1. /\ UNCHANGED <<nextId, snaps, edits, doc, task, cur, phase, timerOn>>
        /\ rows' = rows \cup {cur[k]} /\ committed' = committed \cup {cur[k]}
        /\ handler' = [handler EXCEPT ![k] = "persisted"]
    BY <1>26 DEF CommitAppend, CommitRow, tabVars, auxVars
  <2>2. k \in Inserting /\ Inserting' \subseteq Inserting
    BY <1>26, <2>1 DEF CommitAppend, TypeOK, Inserting
  <2>3. ASSUME NEW i, NEW es, Covered(i, es) PROVE Covered(i, es)'
    BY <2>1, <2>2, <2>3 DEF Covered
  <2>4. PostsCover' /\ SnapsCover'
    BY <2>1, <2>2 DEF SoloInv, PostsCover, SnapsCover, Covered
  <2>5. PrunedIsCovered'
    BY <2>1 DEF SoloInv, PrunedIsCovered
  <2>. QED
    BY <2>1, <2>4, <2>5 DEF SoloInv, HoldsAll, LoadingIsNew
<1>27. CASE UNCHANGED vars
  BY <1>27, SoloKept DEF vars, logVars, tabVars, connVars, auxVars, Inserting
<1>. QED
  BY <1>1, <1>2, <1>3, <1>4, <1>5, <1>6, <1>7, <1>8, <1>9, <1>10, <1>11, <1>12, <1>13, <1>14, <1>15, <1>16, <1>17, <1>18, <1>19, <1>20, <1>21, <1>22, <1>23, <1>24, <1>25, <1>26, <1>27 DEF Next, TabStep, ConnStep

(* A lone editor's compactions lose nothing: with one tab that is not      *)
(* reloaded, everything stored can be loaded from any of the latest        *)
(* snapshots and the rows past it, whatever sockets drop, inserts commit   *)
(* late, frames are refused or discarded and posts fail. This is what      *)
(* snapshotChecks.ts:46 relies on; with a peer it does not hold.           *)
THEOREM LoneEditorLosesNothing ==
  ASSUME OneTab
  PROVE  Spec => []CompactionLosesNothing
<1>1. TypeOK /\ FramesCommitted /\ Known /\ Apart /\ SoloInv => CompactionLosesNothing
  <2> SUFFICES ASSUME TypeOK, SoloInv PROVE CompactionLosesNothing
    OBVIOUS
  <2>1. CASE snaps = {}
    BY <2>1 DEF CompactionLosesNothing, SoloInv, PrunedIsCovered, EditsOf
  <2>2. ASSUME snaps # {}, NEW s \in LatestSnapshots, NEW u \in committed PROVE u.edit \in LoadableFrom(s)
    <3>1. u.id \in Nat /\ s \in snaps /\ s.upTo \in Nat
      BY DEF TypeOK, LogTypeOK, Update, Snapshot, LatestSnapshots
    <3>2. CASE u.id <= s.upTo
      BY <3>1, <3>2 DEF SoloInv, SnapsCover, Covered, LoadableFrom
    <3>3. CASE u.id > s.upTo
      <4>1. ~ \E t \in snaps : u.id <= t.upTo
        <5>1. ASSUME NEW t \in snaps PROVE ~(u.id <= t.upTo)
          <6>1. t.upTo \in Nat /\ t.upTo <= s.upTo
            BY DEF TypeOK, LogTypeOK, Snapshot, LatestSnapshots
          <6>. QED
            BY <3>1, <3>3, <6>1
        <5>. QED
          BY <5>1
      <4>2. u \in RowsSince(s.upTo)
        BY <3>3, <4>1 DEF SoloInv, PrunedIsCovered, RowsSince
      <4>. QED
        BY <4>2 DEF LoadableFrom, EditsOf
    <3>. QED
      BY <3>1, <3>2, <3>3
  <2>. QED
    BY <2>1, <2>2 DEF CompactionLosesNothing, EditsOf
<1>2. TypeOK /\ FramesCommitted /\ Known /\ Known' /\ Apart /\ SoloInv /\ [Next]_vars => SoloInv'
  BY NextSolo
<1>. QED
  BY <1>1, <1>2, StoreInvariant, InitSolo, PTL DEF Spec
=============================================================================
