--------------------------- MODULE MCHistoryQueue ---------------------------
(* Instances of HistoryQueue for TLC. *)
EXTENDS HistoryQueue

CONSTANTS a, b

MCGroupOf == [k \in Keys |-> IF k % 2 = 1 THEN a ELSE b]

MCMaxPending == [r \in ReaderIDs |-> IF r = 0 THEN 3 ELSE 2]
=============================================================================
