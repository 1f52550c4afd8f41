--------------------------- MODULE MCAuditWriter ---------------------------
(***************************************************************************)
(* Instances of AuditWriter: three activity attempts, the first two for    *)
(* the same event (a repeated attempt), the third for another one.         *)
(***************************************************************************)
EXTENDS AuditWriter

CONSTANTS c1, c2, c3

MCCalls == {c1, c2, c3}
MCEvents == {"created", "escalated"}
MCEventOf == [c \in MCCalls |-> IF c = c3 THEN "escalated" ELSE "created"]
=============================================================================
