------------------------- MODULE RequestsHubProofs -------------------------
(***************************************************************************)
(* Proofs about RequestsHub for every set of requests and workflows: the   *)
(* type invariant, that a workflow has a row, and that the audit trail has *)
(* no gap that was not reported.                                           *)
(***************************************************************************)
EXTENDS RequestsHub, TLAPS

\* Where a workflow can be once its "created" audit step has been answered.
PastCreated == {"timer", "check_status", "escalate", "escalated", "completed"}

\* A row exists from the commit of create_request on, and the workflow is started
\* by the last step of the handler.
RowsOK == \A r \in Requests :
    /\ post[r] # "idle" => row[r] # "absent"
    /\ post[r] \in {"idle", "committed"} => run[r] = "none"
    /\ run[r] # "none" => row[r] # "absent"

\* The trail of one workflow: it goes on only after an answer, an ok answer has a
\* document, and nothing is written for a step that has not been reached.
TrailOK(w) ==
    /\ run[w] \in PastCreated => answer[<<w, "created">>] # "none"
    /\ answer[<<w, "created">>] = "ok" => copies[<<w, "created">>] = 1
    /\ copies[<<w, "escalated">>] = 1 \/ <<w, "escalated">> \in late
        => run[w] \in {"escalated", "completed"}

HubInv == TypeOK /\ RowsOK /\ \A w \in Runs : TrailOK(w)

\* Initially there are no rows, no workflows and no documents.
LEMMA HubInit == Init => HubInv
<1> SUFFICES ASSUME Init PROVE HubInv
  OBVIOUS
<1>1. TypeOK
  BY HubAssumption DEF Init, Audit!Init, TypeOK, Positions, Statuses
<1>2. RowsOK
  BY DEF Init, RowsOK, Runs
<1>3. ASSUME NEW w \in Runs PROVE TrailOK(w)
  BY DEF Init, Audit!Init, TrailOK, PastCreated, Events
<1> QED
  BY <1>1, <1>2, <1>3 DEF HubInv

\* The events of a run are events.
LEMMA RunEvents == \A w \in Runs : <<w, "created">> \in Events /\ <<w, "escalated">> \in Events
  BY DEF Events

\* The API handlers leave the audit trail alone, and start a workflow only for a
\* row that is committed.
LEMMA ApiStep ==
  ASSUME HubInv, NEW r \in Requests,
         \/ create_request(r) \/ start_workflow(r) \/ get_request_events(r)
         \/ \E s \in Statuses : update_request(r, s)
  PROVE  HubInv'
<1> USE DEF HubInv
<1>t. r \in Runs
  BY DEF Runs
<1>1. CASE create_request(r)
  <2>1. TypeOK'
    BY <1>1 DEF create_request, audit, TypeOK, Statuses
  <2>2. RowsOK'
    BY <1>1 DEF create_request, audit, RowsOK, TypeOK
  <2>3. \A w \in Runs : TrailOK(w)'
    BY <1>1 DEF create_request, audit, TrailOK
  <2> QED
    BY <2>1, <2>2, <2>3
<1>2. CASE start_workflow(r)
  <2>1. /\ row' = row /\ temporal' = temporal /\ copies' = copies /\ answer' = answer
        /\ late' = late /\ timeline' = timeline
        /\ post[r] = "committed" /\ post' = [post EXCEPT ![r] = "answered"]
        /\ faults' \in 0..MaxFaults
        /\ run' = run \/ run' = [run EXCEPT ![r] = "validate"]
    BY <1>2, HubAssumption DEF start_workflow, Started, Fault, audit, TypeOK
  <2>2. TypeOK'
    BY <2>1, <1>t DEF TypeOK, Positions
  <2>3. RowsOK'
    BY <2>1, <1>t DEF RowsOK, TypeOK, Runs
  <2>4. \A w \in Runs : TrailOK(w)'
    <3>1. run[r] = "none"
      BY <2>1 DEF RowsOK
    <3>2. \A w \in Runs : \/ run'[w] = run[w]
                          \/ run[w] = "none" /\ run'[w] = "validate"
      BY <2>1, <1>t, <3>1 DEF TypeOK
    <3> SUFFICES ASSUME NEW w \in Runs PROVE TrailOK(w)'
      BY Zenon
    <3>3. TrailOK(w)
      BY Zenon
    <3> HIDE DEF HubInv
    <3> QED
      BY <2>1, <3>2, <3>3 DEF TrailOK, PastCreated
  <2> QED
    BY <2>2, <2>3, <2>4
<1>3. CASE get_request_events(r)
  <2>1. TypeOK'
    <3>1. /\ Documented(r) \in SUBSET Events
          /\ {e \in Documented(r) : AsString(e[1]) = AsNumber(r)} \in SUBSET Events
      BY DEF Documented
    <3>2. timeline' \in [Requests -> [had : SUBSET Events, got : SUBSET Events]]
      BY <1>3, <3>1 DEF get_request_events, TypeOK
    <3> QED
      BY <1>3, <3>2 DEF get_request_events, hub, audit, TypeOK
  <2>2. RowsOK'
    BY <1>3 DEF get_request_events, hub, RowsOK
  <2>3. \A w \in Runs : TrailOK(w)'
    BY <1>3 DEF get_request_events, audit, TrailOK
  <2> QED
    BY <2>1, <2>2, <2>3
<1>4. ASSUME NEW s \in Statuses, update_request(r, s) PROVE HubInv'
  <2>1. TypeOK'
    BY <1>4 DEF update_request, audit, TypeOK
  <2>2. RowsOK'
    BY <1>4 DEF update_request, RowsOK, TypeOK, Statuses
  <2>3. \A w \in Runs : TrailOK(w)'
    BY <1>4 DEF update_request, audit, TrailOK
  <2> QED
    BY <2>1, <2>2, <2>3
<1> QED
  BY <1>1, <1>2, <1>3, <1>4

\* A restart of the API only forgets handlers that have committed.
LEMMA RestartStep ==
  ASSUME HubInv, Restart
  PROVE  HubInv'
<1> USE DEF HubInv
<1>1. TypeOK'
  BY HubAssumption DEF Restart, on_startup, Fault, audit, TypeOK
<1>2. RowsOK'
  BY DEF Restart, RowsOK, TypeOK
<1>3. \A w \in Runs : TrailOK(w)'
  BY DEF Restart, audit, TrailOK
<1> QED
  BY <1>1, <1>2, <1>3

\* A workflow that moves between two positions, neither of which is a start, an
\* answered audit step or a way back, keeps the invariant.
LEMMA MoveStep ==
  ASSUME HubInv, NEW w \in Runs, NEW q \in Positions,
         w \in Requests => post[w] \notin {"idle", "committed"},
         run' = [run EXCEPT ![w] = q],
         UNCHANGED <<hub, audit, timeline, faults>>,
         w \in Requests => row[w] # "absent",
         q \in PastCreated => answer[<<w, "created">>] # "none",
         run[w] \in {"escalated", "completed"} => q \in {"escalated", "completed"}
  PROVE  HubInv'
<1> USE DEF HubInv
<1>1. TypeOK'
  BY DEF hub, audit, TypeOK
<1>2. RowsOK'
  BY DEF hub, RowsOK, TypeOK, Runs
<1>3. \A v \in Runs : TrailOK(v)'
  BY DEF audit, TrailOK, TypeOK
<1> QED
  BY <1>1, <1>2, <1>3

\* The steps of a workflow other than its audit steps.
LEMMA PlainStep ==
  ASSUME HubInv, NEW w \in Runs,
         StartDemo(w) \/ PlainActivity(w) \/ TimerFires(w)
  PROVE  HubInv'
<1>0. TypeOK /\ RowsOK /\ TrailOK(w)
  BY DEF HubInv
<1>1. CASE StartDemo(w)
  BY <1>0, <1>1, MoveStep, HubAssumption
     DEF StartDemo, Started, Positions, PastCreated
<1>2. CASE PlainActivity(w) \/ TimerFires(w)
  <2>1. PICK q \in Positions :
          /\ run' = [run EXCEPT ![w] = q]
          /\ run[w] # "none"
          /\ q \in PastCreated => run[w] \in PastCreated
          /\ run[w] \notin {"escalated", "completed"}
    BY <1>2 DEF PlainActivity, TimerFires, Move, Positions, PastCreated
  <2>2. UNCHANGED <<hub, audit, timeline, faults>>
    BY <1>2 DEF PlainActivity, TimerFires
  <2>3. w \in Requests => row[w] # "absent" /\ post[w] \notin {"idle", "committed"}
    BY <1>0, <2>1 DEF RowsOK
  <2>4. q \in PastCreated => answer[<<w, "created">>] # "none"
    BY <1>0, <2>1 DEF TrailOK
  <2> QED
    BY <2>1, <2>2, <2>3, <2>4, MoveStep
<1> QED
  BY <1>1, <1>2

\* An audit step: answered ok with its document stored, answered failed, or
\* abandoned.
LEMMA AuditStep ==
  ASSUME HubInv, NEW w \in Runs, AuditCreated(w) \/ AuditEscalated(w)
  PROVE  HubInv'
<1>0. TypeOK /\ RowsOK /\ \A v \in Runs : TrailOK(v)
  BY DEF HubInv
<1>1. PICK y \in {"created", "escalated"}, q \in Positions :
        /\ audit_event(w, <<w, y>>, q)
        /\ q \in PastCreated
        /\ y = "escalated" => q = "completed"
        /\ y = "created" => q \notin {"escalated", "completed"}
  BY DEF AuditCreated, AuditEscalated, AfterCreated, Positions, PastCreated
<1> DEFINE e == <<w, y>>
<1>2. e \in Events /\ e[2] = y
  BY DEF Events
<1>3. /\ run[w] = y /\ UNCHANGED <<hub, timeline>>
  BY <1>1, <1>2 DEF audit_event
<1>4. /\ copies' \in {copies, Audit!Upserted({e})}
      /\ \/ /\ answer[e] = "none" /\ run' = [run EXCEPT ![w] = q] /\ late' = late
            /\ \/ answer' = [answer EXCEPT ![e] = "ok"] /\ copies' = Audit!Upserted({e})
               \/ answer' = [answer EXCEPT ![e] = "failed"]
         \/ /\ run' = run /\ answer' = answer /\ late' = late \cup {e} /\ copies' = copies
      /\ faults' \in 0..MaxFaults
  <2>1. faults' \in 0..MaxFaults
    BY <1>1, <1>0, HubAssumption DEF audit_event, AuditFailed, Fault, TypeOK
  <2> QED
    BY <1>1, <1>2, <2>1
       DEF audit_event, AuditFailed, Audit!Ok, Audit!Failed, Move
<1>5. copies' \in [Events -> {0, 1}] /\ \A f \in Events : copies'[f] # copies[f] => f = e
  BY <1>4, <1>0, <1>2 DEF TypeOK, Audit!Upserted
<1>6. answer' \in [Events -> {"none", "ok", "failed"}]
      /\ \A f \in Events : f # e => answer'[f] = answer[f]
  <2>1. \/ answer' = answer \/ answer' = [answer EXCEPT ![e] = "ok"]
        \/ answer' = [answer EXCEPT ![e] = "failed"]
    BY <1>4, Zenon
  <2>2. answer \in [Events -> {"none", "ok", "failed"}]
    BY <1>0, Zenon DEF TypeOK
  <2> HIDE DEF e
  <2> QED
    BY <1>2, <2>1, <2>2
<1>7. late' \subseteq Events /\ \A f \in Events : f \in late' => f \in late \/ f = e
  BY <1>4, <1>0, <1>2 DEF TypeOK
<1>8. run' \in [Runs -> Positions] /\ (\A v \in Runs : v # w => run'[v] = run[v])
      /\ (run'[w] = q \/ run'[w] = run[w])
  BY <1>4, <1>0 DEF TypeOK
<1>9. TypeOK'
  BY <1>0, <1>3, <1>4, <1>5, <1>6, <1>7, <1>8 DEF TypeOK, hub
<1>10. RowsOK'
  BY <1>0, <1>3, <1>8 DEF RowsOK, hub, Runs
<1>11. ASSUME NEW v \in Runs PROVE TrailOK(v)'
  <2> DEFINE c == <<v, "created">>
             d == <<v, "escalated">>
  <2>1. c \in Events /\ d \in Events
    BY RunEvents
  <2>2. TrailOK(v)
    BY <1>0
  <2>3. CASE v # w
    <3>1. c # e /\ d # e
      BY <2>3
    <3> QED
      BY <2>1, <2>2, <2>3, <3>1, <1>5, <1>6, <1>7, <1>8 DEF TrailOK
  <2>4. CASE v = w /\ y = "created"
    <3>1. d # e /\ c = e
      BY <2>4
    <3>2. copies'[d] = copies[d] /\ (d \in late' => d \in late)
      BY <3>1, <2>1, <1>5, <1>7
    <3>3. ~(copies[d] = 1 \/ d \in late)
      BY <2>2, <2>4, <1>3 DEF TrailOK
    <3>4. run'[w] \in PastCreated => answer'[c] # "none"
      <4>1. y \notin PastCreated
        BY <2>4 DEF PastCreated
      <4> QED
        BY <1>4, <1>3, <1>0, <2>1, <3>1, <4>1 DEF TypeOK
    <3>5. answer'[c] = "ok" => copies'[c] = 1
      BY <1>4, <1>0, <2>1, <2>2, <2>4, <3>1 DEF TypeOK, TrailOK, Audit!Upserted
    <3> QED
      BY <2>4, <3>2, <3>3, <3>4, <3>5 DEF TrailOK
  <2>5. CASE v = w /\ y = "escalated"
    <3>1. c # e /\ q = "completed"
      BY <2>5, <1>1
    <3>2. copies'[c] = copies[c] /\ answer'[c] = answer[c]
      BY <3>1, <2>1, <1>5, <1>6
    <3>3. run[w] \in PastCreated /\ run[w] \in {"escalated", "completed"}
      BY <1>3, <2>5 DEF PastCreated
    <3>4. run'[w] \in {"escalated", "completed"}
      BY <1>8, <3>1, <3>3
    <3> QED
      BY <2>2, <2>5, <3>2, <3>3, <3>4 DEF TrailOK
  <2> QED
    BY <2>3, <2>4, <2>5
<1> QED
  BY <1>9, <1>10, <1>11 DEF HubInv

\* The upsert of an abandoned attempt: its step was reached before.
LEMMA LateStep ==
  ASSUME HubInv, NEW e \in Events, LateUpsert(e)
  PROVE  HubInv'
<1>0. TypeOK /\ RowsOK /\ \A v \in Runs : TrailOK(v)
  BY DEF HubInv
<1>1. /\ e \in late /\ late' = late \ {e} /\ answer' = answer
      /\ UNCHANGED <<hub, run, timeline, faults>>
      /\ copies' \in {copies, Audit!Upserted({e})}
  BY DEF LateUpsert, Audit!Store
<1>2. /\ copies' \in [Events -> {0, 1}]
      /\ \A f \in Events : copies'[f] = copies[f] \/ (f = e /\ copies'[f] = 1)
  BY <1>1, <1>0 DEF TypeOK, Audit!Upserted
<1>3. TypeOK'
  BY <1>0, <1>1, <1>2 DEF TypeOK, hub
<1>4. RowsOK'
  BY <1>0, <1>1 DEF RowsOK, hub
<1>5. ASSUME NEW v \in Runs PROVE TrailOK(v)'
  BY <1>0, <1>1, <1>2, RunEvents DEF TrailOK
<1> QED
  BY <1>3, <1>4, <1>5 DEF HubInv

\* Every step keeps the invariant.
LEMMA HubStep == HubInv /\ [Next]_vars => HubInv'
<1> SUFFICES ASSUME HubInv, [Next]_vars PROVE HubInv'
  OBVIOUS
<1>1. CASE \E r \in Requests :
              \/ create_request(r) \/ start_workflow(r) \/ get_request_events(r)
              \/ \E s \in Statuses : update_request(r, s)
  BY <1>1, ApiStep
<1>2. CASE Restart
  BY <1>2, RestartStep
<1>3. ASSUME NEW w \in Runs, StartDemo(w) \/ WorkflowStep(w) PROVE HubInv'
  BY <1>3, PlainStep, AuditStep DEF WorkflowStep
<1>4. CASE \E e \in Events : LateUpsert(e)
  BY <1>4, LateStep
<1>5. CASE UNCHANGED vars
  BY <1>5 DEF vars, hub, audit, HubInv, TypeOK, RowsOK, TrailOK
<1> QED
  BY <1>1, <1>2, <1>3, <1>4, <1>5 DEF Next

\* The inductive invariant of the Requests Hub.
THEOREM HubCorrect == Spec => []HubInv
  BY HubInit, HubStep, PTL DEF Spec

\* Every variable of the Requests Hub keeps its type.
THEOREM HubTypeCorrect == Spec => []TypeOK
<1>1. HubInv => TypeOK
  BY DEF HubInv
<1> QED
  BY <1>1, HubCorrect, PTL

\* A workflow that create_request started is about a committed row.
THEOREM WorkflowHasRowCorrect == Spec => []WorkflowHasRow
<1>1. HubInv => WorkflowHasRow
  BY DEF HubInv, RowsOK, WorkflowHasRow
<1> QED
  BY <1>1, HubCorrect, PTL

\* Whatever attempts of audit_event are abandoned, fail or are stored late, a
\* trail that has "escalated" has "created", or was told that it failed.
THEOREM NoSilentGapCorrect == Spec => []NoSilentGap
<1>1. HubInv => NoSilentGap
  <2> SUFFICES ASSUME HubInv, NEW w \in Runs, copies[<<w, "escalated">>] > 0
               PROVE  copies[<<w, "created">>] > 0 \/ answer[<<w, "created">>] = "failed"
    BY DEF NoSilentGap
  <2>1. TypeOK /\ TrailOK(w) /\ <<w, "created">> \in Events /\ <<w, "escalated">> \in Events
    BY RunEvents DEF HubInv
  <2>2. /\ copies[<<w, "escalated">>] \in {0, 1}
        /\ answer[<<w, "created">>] \in {"none", "ok", "failed"}
    BY <2>1 DEF TypeOK
  <2>3. run[w] \in {"escalated", "completed"}
    BY <2>1, <2>2 DEF TrailOK
  <2> QED
    BY <2>1, <2>2, <2>3 DEF TrailOK, PastCreated
<1> QED
  BY <1>1, HubCorrect, PTL
=============================================================================
