----------------------------- MODULE AuditWriter -----------------------------
(***************************************************************************)
(* worker/audit.py: write_audit_event and the lazily created Cosmos client *)
(* it shares.  The activity attempts of a worker process run concurrently  *)
(* on one event loop; _init_client_blocking and upsert_item run on         *)
(* threads of the default executor, so the module globals _client and      *)
(* _container are read and written by several threads without a lock.      *)
(*                                                                         *)
(* A call is one attempt of the audit_event activity.  Several calls may   *)
(* be for the same event: Temporal starts another attempt when one times   *)
(* out (the old one keeps running) or when its worker crashes.             *)
(***************************************************************************)
EXTENDS Naturals, FiniteSets

CONSTANTS Calls,         \* activity attempts
          Events,        \* (run, event type) pairs
          EventOf,       \* the event each attempt writes
          HasConn,       \* COSMOS_AVAILABLE and COSMOS_CONN is not empty
          AuditRetries,  \* AUDIT_RETRIES
          MaxFaults,     \* bound: failing Cosmos calls
          MaxCrashes     \* bound: crashes of the worker process

ASSUME AuditAssumption ==
    /\ EventOf \in [Calls -> Events]
    /\ HasConn \in BOOLEAN
    /\ AuditRetries \in Nat /\ MaxFaults \in Nat /\ MaxCrashes \in Nat

VARIABLES client,     \* _client is not None
          container,  \* _container is not None
          pc,         \* where each call is
          tries,      \* the loop variable "attempt" of write_audit_event
          docs,       \* the documents in Cosmos DB
          answer,     \* what each call returned
          faults,     \* failing Cosmos calls so far
          crashes     \* crashes so far

vars == <<client, container, pc, tries, docs, answer, faults, crashes>>

\* The steps of a call inside _init_client_blocking, past its first test.
InitSteps == {"connect", "create_db", "create_container", "reset_client", "reset_container"}

Steps == {"idle", "ensure", "init", "check", "attempt", "upsert", "done", "lost"} \cup InitSteps

Answers == {"none", "ok", "no-cosmos", "giveup"}

Init ==
    /\ client = FALSE /\ container = FALSE
    /\ pc = [c \in Calls |-> "idle"]
    /\ tries = [c \in Calls |-> 0]
    /\ docs = {}
    /\ answer = [c \in Calls |-> "none"]
    /\ faults = 0 /\ crashes = 0

-----------------------------------------------------------------------------
\* Documents.  A document has an id and is about an event.

\* Mutant of DocId: the id of the last branch, fresh in every attempt.
FreshDocId(c) == c

\* The id of the document of call c.  The workflow always passes a run id, so
\* the first branch is taken: the id is the run id and the event type.
DocId(c) == EventOf[c]

Doc(c) == [id |-> DocId(c), event |-> EventOf[c]]

\* upsert_item: replaces the document with the same id.
Upserted(D) == {d \in docs : \A n \in D : d.id # n.id} \cup D

Goto(c, l) == pc' = [pc EXCEPT ![c] = l]

\* A Cosmos call fails; MaxFaults bounds how often.
Fault == faults < MaxFaults /\ faults' = faults + 1

-----------------------------------------------------------------------------
\* The activity attempt c begins and calls write_audit_event.
Begin(c) ==
    /\ pc[c] = "idle"
    /\ Goto(c, "ensure")
    /\ UNCHANGED <<client, container, tries, docs, answer, faults, crashes>>

\* The first test of _ensure_client.
Ready == client /\ container

\* _ensure_client returns at once, or runs _init_client_blocking on a thread.
ensure_client(c) ==
    /\ pc[c] = "ensure"
    /\ Goto(c, IF Ready \/ ~HasConn THEN "check" ELSE "init")
    /\ UNCHANGED <<client, container, tries, docs, answer, faults, crashes>>

\* _init_client_blocking returns when _client is set.  The Key Vault branch that
\* follows needs an empty COSMOS_CONN, with which _ensure_client never gets here.
init_client_blocking(c) ==
    /\ pc[c] = "init"
    /\ Goto(c, IF client THEN "check" ELSE "connect")
    /\ UNCHANGED <<client, container, tries, docs, answer, faults, crashes>>

\* _client = CosmosClient.from_connection_string(...)
Connect(c) ==
    /\ pc[c] = "connect"
    /\ \/ client' = TRUE /\ Goto(c, "create_db") /\ UNCHANGED faults
       \/ Fault /\ Goto(c, "reset_client") /\ UNCHANGED client
    /\ UNCHANGED <<container, tries, docs, answer, crashes>>

\* db = _client.create_database_if_not_exists(...): _client is read again, and
\* is None when the failed initialisation of another thread has reset it.
CreateDatabase(c) ==
    /\ pc[c] = "create_db"
    /\ \/ client /\ Goto(c, "create_container") /\ UNCHANGED faults
       \/ ~client /\ Goto(c, "reset_client") /\ UNCHANGED faults
       \/ client /\ Fault /\ Goto(c, "reset_client")
    /\ UNCHANGED <<client, container, tries, docs, answer, crashes>>

\* _container = db.create_container_if_not_exists(...)
CreateContainer(c) ==
    /\ pc[c] = "create_container"
    /\ \/ container' = TRUE /\ Goto(c, "check") /\ UNCHANGED faults
       \/ Fault /\ Goto(c, "reset_client") /\ UNCHANGED container
    /\ UNCHANGED <<client, tries, docs, answer, crashes>>

\* The handler of a failed initialisation: _client = None ...
ResetClient(c) ==
    /\ pc[c] = "reset_client"
    /\ client' = FALSE
    /\ Goto(c, "reset_container")
    /\ UNCHANGED <<container, tries, docs, answer, faults, crashes>>

\* ... and then _container = None.
ResetContainer(c) ==
    /\ pc[c] = "reset_container"
    /\ container' = FALSE
    /\ Goto(c, "check")
    /\ UNCHANGED <<client, tries, docs, answer, faults, crashes>>

Return(c, a) ==
    /\ answer' = [answer EXCEPT ![c] = a]
    /\ Goto(c, "done")

\* Mutant of NextTry: the loop runs once more than AUDIT_RETRIES.
NextTryOffByOne(c) ==
    IF tries[c] <= AuditRetries
    THEN /\ Goto(c, "attempt")
         /\ tries' = [tries EXCEPT ![c] = @ + 1]
         /\ UNCHANGED answer
    ELSE Return(c, "giveup") /\ UNCHANGED tries

\* The loop of write_audit_event: the next attempt, or giving up after
\* AUDIT_RETRIES of them.
NextTry(c) ==
    IF tries[c] < AuditRetries
    THEN /\ Goto(c, "attempt")
         /\ tries' = [tries EXCEPT ![c] = @ + 1]
         /\ UNCHANGED answer
    ELSE Return(c, "giveup") /\ UNCHANGED tries

\* Mutant of FailedTry: a failed attempt is taken for a stored document.
FailedTryOk(c) == Return(c, "ok") /\ UNCHANGED tries

\* Mutant of FailedTry: the loop has no bound.
FailedTryForever(c) ==
    /\ Goto(c, "attempt")
    /\ UNCHANGED <<tries, answer>>

\* An attempt has raised: it is logged, and the loop goes on after a pause.
FailedTry(c) == NextTry(c)

\* The test for a missing container, and the start of the loop.
CheckContainer(c) ==
    /\ pc[c] = "check"
    /\ IF container THEN NextTry(c) ELSE Return(c, "no-cosmos") /\ UNCHANGED tries
    /\ UNCHANGED <<client, container, docs, faults, crashes>>

\* An attempt reads the global _container again; None has no upsert_item, and
\* the AttributeError counts as a failed attempt.
Attempt(c) ==
    /\ pc[c] = "attempt"
    /\ IF container
       THEN Goto(c, "upsert") /\ UNCHANGED <<tries, answer>>
       ELSE FailedTry(c)
    /\ UNCHANGED <<client, container, docs, faults, crashes>>

\* upsert_item stores the document and the call returns ok.
Upsert(c) ==
    /\ pc[c] = "upsert"
    /\ docs' = Upserted({Doc(c)})
    /\ Return(c, "ok")
    /\ UNCHANGED <<client, container, tries, faults, crashes>>

\* upsert_item raises; the document may have been stored all the same.
UpsertRaises(c) ==
    /\ pc[c] = "upsert"
    /\ Fault
    /\ docs' \in {docs, Upserted({Doc(c)})}
    /\ FailedTry(c)
    /\ UNCHANGED <<client, container, crashes>>

\* The worker process dies and starts again: the globals are None, the calls
\* are gone, and any upsert that was on its way may still be stored.
Crash ==
    /\ crashes < MaxCrashes
    /\ crashes' = crashes + 1
    /\ client' = FALSE /\ container' = FALSE
    /\ pc' = [c \in Calls |-> IF pc[c] \in {"idle", "done"} THEN pc[c] ELSE "lost"]
    /\ \E S \in SUBSET {c \in Calls : pc[c] = "upsert"} :
          docs' = Upserted({Doc(c) : c \in S})
    /\ UNCHANGED <<tries, answer, faults>>

\* Every call has returned or was lost: there is nothing left to write.
AllEnded ==
    /\ \A c \in Calls : pc[c] \in {"done", "lost"}
    /\ UNCHANGED vars

InitCall(c) ==
    \/ init_client_blocking(c) \/ Connect(c) \/ CreateDatabase(c)
    \/ CreateContainer(c) \/ ResetClient(c) \/ ResetContainer(c)

Step(c) ==
    \/ ensure_client(c) \/ InitCall(c) \/ CheckContainer(c)
    \/ Attempt(c) \/ Upsert(c) \/ UpsertRaises(c)

Next == (\E c \in Calls : Begin(c) \/ Step(c)) \/ Crash \/ AllEnded

Spec == Init /\ [][Next]_vars

\* The event loop and the executor's threads run every call that is ready.
FairSpec == Spec /\ \A c \in Calls : WF_vars(Step(c))

-----------------------------------------------------------------------------
TypeOK ==
    /\ client \in BOOLEAN /\ container \in BOOLEAN
    /\ pc \in [Calls -> Steps]
    /\ tries \in [Calls -> 0..AuditRetries]
    /\ docs \subseteq [id : Calls \cup Events, event : Events]
    /\ answer \in [Calls -> Answers]
    /\ faults \in 0..MaxFaults
    /\ crashes \in 0..MaxCrashes

\* Events that have a document.
Stored == {d.event : d \in docs}

\* A call that answers ok has its document in Cosmos DB, and no later attempt,
\* crash or re-initialisation takes it away (write_audit_event returns ok only
\* after upsert_item, and nothing deletes).
OkMeansStored == \A c \in Calls : answer[c] = "ok" => EventOf[c] \in Stored

\* However many attempts run, overlap or are repeated after a crash, an event
\* has one document: "Deterministic id for idempotency".
OneDocumentPerEvent == \A d, e \in docs : d.event = e.event => d = e

\* Every call that has begun returns, whatever fails, unless its worker dies:
\* no race on the globals makes the retry loop wait for a container.
EveryCallEnds ==
    \A c \in Calls : pc[c] = "ensure" ~> pc[c] \in {"done", "lost"}

\* The writer implements the promise of AuditLog: documents are counted per
\* event, and both ways of not writing are the answer "failed".
Log == INSTANCE AuditLog WITH
    copies <- [e \in Events |-> Cardinality({d \in docs : d.event = e})],
    answer <- [c \in Calls |-> IF answer[c] \in {"no-cosmos", "giveup"} THEN "failed"
                               ELSE answer[c]]

\* The abstract specification as a property of the writer.
ImplementsAuditLog == Log!Spec

-----------------------------------------------------------------------------
\* What the repository says and the code does not do.

\* "Run blocking init in executor once": outside an initialisation the two
\* globals agree, so that a failed initialisation can be repeated.  A client
\* without a container that nobody is about to create is never repaired:
\* _init_client_blocking returns at its first test.
InitialisationRepeats ==
    client /\ ~container => \E c \in Calls : pc[c] \in InitSteps
=============================================================================
