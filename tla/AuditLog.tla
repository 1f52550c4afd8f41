------------------------------ MODULE AuditLog ------------------------------
(***************************************************************************)
(* What the audit writer promises the attempts of the audit_event          *)
(* activity: a document, once stored, stays; an event has at most one      *)
(* document however often it is attempted; an attempt that answers ok has  *)
(* its event's document in the store.  An attempt may answer that it       *)
(* failed whether or not its document got there, or never answer.          *)
(* AuditWriter is shown to implement this specification.                   *)
(***************************************************************************)

CONSTANTS Calls,    \* the attempts to write an event
          Events,   \* the events: one per workflow run and event type
          EventOf   \* the event each attempt is for

VARIABLES copies,   \* per event, the number of its documents in the store
          answer    \* per attempt, "none" until it answers

vars == <<copies, answer>>

Init == /\ copies = [e \in Events |-> 0]
        /\ answer = [c \in Calls |-> "none"]

\* The store after the documents of the events E have been upserted.
Upserted(E) == [e \in Events |-> IF e \in E THEN 1 ELSE copies[e]]

\* Documents reach the store, and no attempt hears of it (an upsert whose
\* answer is lost, or whose writer is gone).
Store(E) == copies' = Upserted(E) /\ UNCHANGED answer

\* The attempt c stores its document and answers ok.
Ok(c) == /\ answer[c] = "none"
         /\ copies' = Upserted({EventOf[c]})
         /\ answer' = [answer EXCEPT ![c] = "ok"]

\* The attempt c answers that it failed, though its document may be stored.
Failed(c) == /\ answer[c] = "none"
             /\ copies' \in {copies, Upserted({EventOf[c]})}
             /\ answer' = [answer EXCEPT ![c] = "failed"]

Next == \/ \E E \in SUBSET Events : Store(E)
        \/ \E c \in Calls : Ok(c) \/ Failed(c)

Spec == Init /\ [][Next]_vars
=============================================================================
