----------------------------- MODULE RequestsHub -----------------------------
(***************************************************************************)
(* The Requests Hub: the API (api/main.py), the worker's RequestWorkflow   *)
(* with its activities (worker/workflows.py), and what they share: the     *)
(* requests table, the Temporal service that runs the workflow and the     *)
(* audit store.  Temporal is external: it starts a workflow id once, keeps *)
(* the workflow's position, and runs every activity until one attempt's    *)
(* completion reaches it, so an attempt may be repeated after its effect.  *)
(* The audit store is used through the promise of AuditLog.                *)
(***************************************************************************)
EXTENDS Naturals, FiniteSets

CONSTANTS Requests,    \* requests that may be created through the API
          Demos,       \* workflows started by hand with an SLA of 0 (demo.sh)
          MaxFaults    \* bound: restarts, failed starts, lost completions, failed audits

ASSUME HubAssumption ==
    /\ Requests \cap Demos = {}
    /\ MaxFaults \in Nat

VARIABLES row,        \* status of each request in the database
          temporal,   \* app.state.temporal_client is not None
          post,       \* where create_request is for each request
          run,        \* where the workflow of each run is
          copies,     \* the audit store: documents per event
          answer,     \* what the workflow was told about each event
          late,       \* events with an abandoned attempt that is still running
          timeline,   \* the last answer of get_request_events
          faults

hub == <<row, temporal, post>>
audit == <<copies, answer, late>>
vars == <<hub, audit, run, timeline, faults>>

Statuses == {"open", "assigned", "in_progress", "resolved"}

Runs == Requests \cup Demos

\* The activities of the workflow in their order, with the timer among them.
Positions == {"none", "validate", "notify", "created", "timer", "check_status",
              "escalate", "escalated", "completed"}

\* An event is about a run's request and has a type.
Events == Runs \X {"created", "escalated"}

Audit == INSTANCE AuditLog WITH Calls <- Events, EventOf <- [e \in Events |-> e]

Fault == faults < MaxFaults /\ faults' = faults + 1

\* Startup connects to Temporal once; without a connection the client stays None
\* until the process is started again.
on_startup == temporal' \in BOOLEAN

Init ==
    /\ row = [r \in Requests |-> "absent"]
    /\ temporal \in BOOLEAN
    /\ post = [r \in Requests |-> "idle"]
    /\ run = [w \in Runs |-> "none"]
    /\ Audit!Init
    /\ late = {}
    /\ timeline = [r \in Requests |-> [had |-> {}, got |-> {}]]
    /\ faults = 0

-----------------------------------------------------------------------------
\* The API.

\* Mutant of create_request: the workflow is started before the commit.
StartBeforeCommit(r) ==
    /\ post[r] = "idle"
    /\ post' = [post EXCEPT ![r] = "committed"]
    /\ UNCHANGED <<row, temporal, audit, run, timeline, faults>>

\* Mutant of create_request: a status that is not one of RequestStatus.
CreatedAsNew(r) ==
    /\ post[r] = "idle"
    /\ row' = [row EXCEPT ![r] = "new"]
    /\ post' = [post EXCEPT ![r] = "committed"]
    /\ UNCHANGED <<temporal, audit, run, timeline, faults>>

\* POST /api/requests, first part: the row is inserted and committed.
create_request(r) ==
    /\ post[r] = "idle"
    /\ row' = [row EXCEPT ![r] = "open"]
    /\ post' = [post EXCEPT ![r] = "committed"]
    /\ UNCHANGED <<temporal, audit, run, timeline, faults>>

\* A workflow id is started once; its first activity is validate_request.
Started(w) == run' = [run EXCEPT ![w] = "validate"]

\* POST /api/requests, second part: with a client the workflow is started.  An
\* error is swallowed, whether or not the start reached Temporal; without a
\* client the start is skipped.  The request is returned in every case.
start_workflow(r) ==
    /\ post[r] = "committed"
    /\ post' = [post EXCEPT ![r] = "answered"]
    /\ \/ temporal /\ Started(r) /\ UNCHANGED faults
       \/ temporal /\ Fault /\ (Started(r) \/ UNCHANGED run)
       \/ ~temporal /\ UNCHANGED <<run, faults>>
    /\ UNCHANGED <<row, temporal, audit, timeline>>

\* PATCH /api/requests/{id}: any status replaces any other; a missing row is a
\* 404.  Rows are never deleted, so the existence test and the UPDATE are one step.
update_request(r, s) ==
    /\ row[r] # "absent"
    /\ row' = [row EXCEPT ![r] = s]
    /\ UNCHANGED <<temporal, post, audit, run, timeline, faults>>

\* Values keep their JSON type: the document holds str(request_id), the query
\* parameter is the integer of the path, and Cosmos DB compares both.
AsString(r) == <<"string", r>>
AsNumber(r) == <<"number", r>>

\* The events of request r that have a document.
Documented(r) == {e \in Events : e[1] = r /\ copies[e] > 0}

\* GET /api/requests/{id}/events: the documents of partition str(id) whose
\* requestId equals the parameter.
get_request_events(r) ==
    /\ timeline' = [timeline EXCEPT ![r] =
          [had |-> Documented(r),
           got |-> {e \in Documented(r) : AsString(e[1]) = AsNumber(r)}]]
    /\ UNCHANGED <<hub, audit, run, faults>>

\* The API process is restarted: handlers in progress are gone.
Restart ==
    /\ Fault
    /\ on_startup
    /\ post' = [r \in Requests |-> IF post[r] = "committed" THEN "dropped" ELSE post[r]]
    /\ UNCHANGED <<row, audit, run, timeline>>

-----------------------------------------------------------------------------
\* RequestWorkflow.

\* demo.sh starts a workflow by hand, for a request that is not in the table.
StartDemo(w) ==
    /\ w \in Demos
    /\ run[w] = "none"
    /\ Started(w)
    /\ UNCHANGED <<hub, audit, timeline, faults>>

Move(w, p, q) ==
    /\ run[w] = p
    /\ run' = [run EXCEPT ![w] = q]

\* The activities other than audit_event: each prints a message, so an attempt
\* that is repeated because its completion was lost changes no state.
PlainActivity(w) ==
    /\ \/ Move(w, "validate", "notify")
       \/ Move(w, "notify", "created")
       \/ Move(w, "check_status", "escalate")   \* check_status returns True
       \/ Move(w, "escalate", "escalated")
    /\ UNCHANGED <<hub, audit, timeline, faults>>

\* Where the workflow goes after "created": to the timer, or on without it when
\* the SLA is not positive.
AfterCreated(w) == IF w \in Demos THEN "check_status" ELSE "timer"

\* Mutant of AuditFailed: a failed audit ends the workflow.
AuditFailedStops(w, e, q) ==
    /\ Audit!Failed(e) /\ Fault
    /\ UNCHANGED run

\* Mutant of AuditFailed: the answer is reported as ok.
AuditFailedIsOk(w, e, q) ==
    /\ answer[e] = "none" /\ Fault
    /\ answer' = [answer EXCEPT ![e] = "ok"]
    /\ UNCHANGED copies
    /\ Move(w, e[2], q)

\* The audit writer gave up; the workflow ignores it and goes on.
AuditFailed(w, e, q) ==
    /\ Audit!Failed(e) /\ Fault
    /\ Move(w, e[2], q)

\* The workflow's audit step e[2] of run w, after which it goes on at q.
audit_event(w, e, q) ==
    /\ run[w] = e[2]
    /\ \/ Audit!Ok(e) /\ Move(w, e[2], q) /\ UNCHANGED <<late, faults>>
       \/ AuditFailed(w, e, q) /\ UNCHANGED late
       \/ \* the attempt times out: it keeps running while another one is started
          /\ late' = late \cup {e} /\ Fault
          /\ UNCHANGED <<copies, answer, run>>
    /\ UNCHANGED <<hub, timeline>>

AuditCreated(w) == audit_event(w, <<w, "created">>, AfterCreated(w))
AuditEscalated(w) == audit_event(w, <<w, "escalated">>, "completed")

\* The upsert of an abandoned attempt reaches the store, or the attempt ends
\* without it.
LateUpsert(e) ==
    /\ e \in late
    /\ late' = late \ {e}
    /\ Audit!Store({e}) \/ UNCHANGED <<copies, answer>>
    /\ UNCHANGED <<hub, run, timeline, faults>>

\* The SLA timer of a run fires.
TimerFires(w) ==
    /\ Move(w, "timer", "check_status")
    /\ UNCHANGED <<hub, audit, timeline, faults>>

WorkflowStep(w) ==
    \/ PlainActivity(w) \/ AuditCreated(w) \/ TimerFires(w) \/ AuditEscalated(w)

Next ==
    \/ \E r \in Requests :
          \/ create_request(r) \/ start_workflow(r) \/ get_request_events(r)
          \/ \E s \in Statuses : update_request(r, s)
    \/ Restart
    \/ \E w \in Runs : StartDemo(w) \/ WorkflowStep(w)
    \/ \E e \in Events : LateUpsert(e)

Spec == Init /\ [][Next]_vars

\* The API finishes a handler it has begun, Temporal fires timers and keeps
\* dispatching activities to a worker that is running.
FairSpec ==
    /\ Spec
    /\ \A r \in Requests : WF_vars(start_workflow(r))
    /\ \A w \in Runs : WF_vars(WorkflowStep(w))

-----------------------------------------------------------------------------
TypeOK ==
    /\ row \in [Requests -> Statuses \cup {"absent"}]
    /\ temporal \in BOOLEAN
    /\ post \in [Requests -> {"idle", "committed", "answered", "dropped"}]
    /\ run \in [Runs -> Positions]
    /\ copies \in [Events -> {0, 1}]
    /\ answer \in [Events -> {"none", "ok", "failed"}]
    /\ late \subseteq Events
    /\ timeline \in [Requests -> [had : SUBSET Events, got : SUBSET Events]]
    /\ faults \in 0..MaxFaults

\* A workflow started by the API is about a committed row: the start follows the
\* commit, and a rolled back or repeated handler cannot leave one without a row.
WorkflowHasRow == \A r \in Requests : run[r] # "none" => row[r] # "absent"

\* The audit trail has no gap that nobody was told of: when "escalated" is
\* recorded, "created" is recorded too, or its write was reported as failed;
\* a late upsert of an abandoned attempt does not change that.
NoSilentGap ==
    \A w \in Runs : copies[<<w, "escalated">>] > 0 =>
        copies[<<w, "created">>] > 0 \/ answer[<<w, "created">>] = "failed"

\* Every workflow that has been started ends, whatever its audit writes answer.
WorkflowCompletes == \A w \in Runs : run[w] # "none" ~> run[w] = "completed"

-----------------------------------------------------------------------------
\* What docs/architecture.md and the API's docstring say and the code does not do.

\* "SLA timer set on creation": a committed request gets its workflow.
EveryRequestHasTimer ==
    \A r \in Requests : row[r] # "absent" ~> run[r] # "none"

\* "Return audit events for a request stored in Cosmos DB": the answer holds the
\* documents the store has for the request.
TimelineIsComplete ==
    \A r \in Requests : timeline[r].got = timeline[r].had
=============================================================================
