--------------------------- MODULE MCDocumentSync ---------------------------
(* Small instances of DocumentSync. Tabs and connections are interchange-  *)
(* able in every definition, so their permutations are a symmetry; it is   *)
(* used by the runs that check safety only.                                *)
EXTENDS DocumentSync, TLC

Symmetry == Permutations(Client) \cup Permutations(Conn)

(* A failure and a compaction in one behaviour leave a connection unused:  *)
(* all the connections are there for two tabs that fail or that compact,   *)
(* and all but one for two tabs that do both.                              *)
OneConnSpared == started = 0 \/ faults = 0 \/ \E k \in Conn : handler[k] = "unused"
=============================================================================
