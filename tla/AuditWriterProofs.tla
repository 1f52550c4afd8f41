------------------------- MODULE AuditWriterProofs -------------------------
(***************************************************************************)
(* Proofs about AuditWriter for every number of attempts, events, retries, *)
(* failures and crashes: types, what an ok answer means, one document per  *)
(* event, and that the writer implements AuditLog.                         *)
(***************************************************************************)
EXTENDS AuditWriter, TLAPS, FiniteSetTheorems

\* The document of an event, the same for each of its attempts.
DocumentOf(e) == [id |-> e, event |-> e]

\* Every document in the store is the one document of its event.
DocsOK == \A d \in docs : d.event \in Events /\ d = DocumentOf(d.event)

AnswersOK ==
    /\ \A c \in Calls : answer[c] # "none" => pc[c] = "done"
    /\ \A c \in Calls : answer[c] = "ok" => DocumentOf(EventOf[c]) \in docs

WriterInv == TypeOK /\ DocsOK /\ AnswersOK

\* upsert_item of documents that are the documents of their events only adds.
LEMMA UpsertAdds ==
  ASSUME DocsOK, NEW E \in SUBSET Events
  PROVE  Upserted({DocumentOf(e) : e \in E}) = docs \cup {DocumentOf(e) : e \in E}
<1> DEFINE D == {DocumentOf(e) : e \in E}
<1>1. ASSUME NEW d \in docs, d \notin D PROVE \A n \in D : d.id # n.id
  <2>1. d = DocumentOf(d.event) /\ d.event \notin E
    BY <1>1 DEF DocsOK
  <2> QED
    BY <2>1 DEF DocumentOf
<1> QED
  BY <1>1 DEF Upserted

\* An attempt's document is that of its event: the id is deterministic.
LEMMA CallDocument ==
  ASSUME NEW c \in Calls
  PROVE  EventOf[c] \in Events /\ Doc(c) = DocumentOf(EventOf[c])
  BY AuditAssumption DEF Doc, DocId, DocumentOf

\* How a step may change the store: by the documents of some events.
StoreGrows == \E E \in SUBSET Events : docs' = docs \cup {DocumentOf(e) : e \in E}

\* One upsert adds one document.
LEMMA OneUpsert ==
  ASSUME DocsOK, NEW c \in Calls
  PROVE  Upserted({Doc(c)}) = docs \cup {DocumentOf(EventOf[c])}
<1>1. {DocumentOf(e) : e \in {EventOf[c]}} = {Doc(c)}
  BY CallDocument
<1> QED
  BY <1>1, UpsertAdds, CallDocument

\* The store only grows, by documents of events.
LEMMA GrowsOK ==
  ASSUME DocsOK, StoreGrows
  PROVE  DocsOK' /\ docs \subseteq docs'
  BY DEF DocsOK, StoreGrows, DocumentOf

\* Nothing is stored: a growth by no event.
LEMMA NoGrowth == docs' = docs => StoreGrows
<1>1. {DocumentOf(e) : e \in {}} = {}
  OBVIOUS
<1> QED
  BY <1>1 DEF StoreGrows

\* The loop variable stays within AUDIT_RETRIES, and the answer, if any, is giveup.
LEMMA NextTryOK ==
  ASSUME TypeOK, NEW c \in Calls, NextTry(c)
  PROVE  /\ tries' \in [Calls -> 0..AuditRetries]
         /\ \/ pc' = [pc EXCEPT ![c] = "attempt"] /\ answer' = answer
            \/ /\ pc' = [pc EXCEPT ![c] = "done"]
               /\ answer' = [answer EXCEPT ![c] = "giveup"]
<1>1. /\ tries \in [Calls -> 0..AuditRetries] /\ AuditRetries \in Nat
  BY AuditAssumption DEF TypeOK
<1> QED
  BY <1>1 DEF NextTry, Goto, Return

\* What one step of call c does to the control state, the store and the answers.
StepShape(c) ==
    /\ \E l \in Steps : pc' = [pc EXCEPT ![c] = l]
    /\ pc[c] \notin {"done", "lost"}
    /\ tries' \in [Calls -> 0..AuditRetries]
    /\ client' \in BOOLEAN /\ container' \in BOOLEAN
    /\ faults' \in 0..MaxFaults /\ crashes' = crashes
    /\ \/ answer' = answer /\ StoreGrows
       \/ /\ \E a \in {"no-cosmos", "giveup"} : answer' = [answer EXCEPT ![c] = a]
          /\ pc' = [pc EXCEPT ![c] = "done"]
          /\ docs' \in {docs, docs \cup {DocumentOf(EventOf[c])}}
       \/ /\ answer' = [answer EXCEPT ![c] = "ok"]
          /\ pc' = [pc EXCEPT ![c] = "done"]
          /\ docs' = docs \cup {DocumentOf(EventOf[c])}

\* Every step of a call has that shape.
LEMMA StepHasShape ==
  ASSUME WriterInv, NEW c \in Calls, Begin(c) \/ Step(c)
  PROVE  StepShape(c)
<1>0. TypeOK /\ DocsOK
  BY DEF WriterInv
<1>1. CASE Begin(c) \/ ensure_client(c) \/ init_client_blocking(c)
  BY <1>0, <1>1, NoGrowth
     DEF Begin, ensure_client, init_client_blocking, Goto, TypeOK, StepShape, Steps, InitSteps
<1>2. CASE Connect(c) \/ CreateDatabase(c) \/ CreateContainer(c)
  <2>1. /\ pc[c] \in InitSteps
        /\ \E l \in Steps : pc' = [pc EXCEPT ![c] = l]
        /\ UNCHANGED <<tries, docs, answer, crashes>>
    BY <1>2 DEF Connect, CreateDatabase, CreateContainer, Goto, Steps, InitSteps
  <2>2. faults' \in 0..MaxFaults
    BY <1>0, <1>2, AuditAssumption
       DEF Connect, CreateDatabase, CreateContainer, Fault, TypeOK
  <2>3. client' \in BOOLEAN /\ container' \in BOOLEAN
    BY <1>0, <1>2, Zenon DEF Connect, CreateDatabase, CreateContainer, TypeOK
  <2> QED
    BY <1>0, <2>1, <2>2, <2>3, NoGrowth DEF TypeOK, StepShape, InitSteps
<1>3. CASE ResetClient(c) \/ ResetContainer(c)
  BY <1>0, <1>3, NoGrowth
     DEF ResetClient, ResetContainer, Goto, TypeOK, StepShape, Steps, InitSteps
<1>4. CASE CheckContainer(c)
  <2>1. pc[c] = "check" /\ UNCHANGED <<client, container, docs, faults, crashes>>
    BY <1>4 DEF CheckContainer
  <2>2. CASE NextTry(c)
    BY <1>0, <2>1, <2>2, NextTryOK, NoGrowth DEF TypeOK, StepShape, Steps
  <2>3. CASE Return(c, "no-cosmos") /\ UNCHANGED tries
    BY <1>0, <2>1, <2>3 DEF Return, Goto, TypeOK, StepShape, Steps
  <2> QED
    BY <1>4, <2>2, <2>3 DEF CheckContainer
<1>5. CASE Attempt(c)
  <2>1. pc[c] = "attempt" /\ UNCHANGED <<client, container, docs, faults, crashes>>
    BY <1>5 DEF Attempt
  <2>2. CASE NextTry(c)
    BY <1>0, <2>1, <2>2, NextTryOK, NoGrowth DEF TypeOK, StepShape, Steps
  <2>3. CASE Goto(c, "upsert") /\ UNCHANGED <<tries, answer>>
    BY <1>0, <2>1, <2>3, NoGrowth DEF Goto, TypeOK, StepShape, Steps
  <2> QED
    BY <1>5, <2>2, <2>3 DEF Attempt, FailedTry
<1>6. CASE Upsert(c)
  BY <1>0, <1>6, OneUpsert DEF Upsert, Return, Goto, TypeOK, StepShape, Steps
<1>7. CASE UpsertRaises(c)
  <2>1. /\ pc[c] = "upsert" /\ NextTry(c)
        /\ UNCHANGED <<client, container, crashes>>
        /\ docs' \in {docs, docs \cup {DocumentOf(EventOf[c])}}
        /\ faults' \in 0..MaxFaults
    BY <1>0, <1>7, OneUpsert, AuditAssumption DEF UpsertRaises, FailedTry, Fault, TypeOK
  <2>2. StoreGrows
    <3>1. {DocumentOf(e) : e \in {EventOf[c]}} = {DocumentOf(EventOf[c])}
      OBVIOUS
    <3> QED
      BY <2>1, <3>1, NoGrowth, CallDocument DEF StoreGrows
  <2> QED
    BY <1>0, <2>1, <2>2, NextTryOK DEF TypeOK, StepShape, Steps
<1> QED
  BY <1>1, <1>2, <1>3, <1>4, <1>5, <1>6, <1>7 DEF Step, InitCall

-----------------------------------------------------------------------------
(* The invariant *)

\* Initially no document is stored and no attempt has answered.
LEMMA WriterInit == Init => WriterInv
<1> SUFFICES ASSUME Init PROVE WriterInv
  OBVIOUS
<1>1. TypeOK
  <2>1. client \in BOOLEAN /\ container \in BOOLEAN
    BY DEF Init
  <2>2. /\ pc \in [Calls -> Steps] /\ tries \in [Calls -> 0..AuditRetries]
        /\ answer \in [Calls -> Answers]
    BY AuditAssumption DEF Init, Steps, Answers
  <2>3. faults \in 0..MaxFaults /\ crashes \in 0..MaxCrashes /\ docs = {}
    BY AuditAssumption DEF Init
  <2> QED
    BY <2>1, <2>2, <2>3 DEF TypeOK
<1>2. DocsOK /\ AnswersOK
  BY DEF Init, DocsOK, AnswersOK
<1> QED
  BY <1>1, <1>2 DEF WriterInv

\* A step of a call stores documents of events only.
LEMMA ShapeGrows ==
  ASSUME NEW c \in Calls, StepShape(c)
  PROVE  StoreGrows
<1>1. {DocumentOf(e) : e \in {EventOf[c]}} = {DocumentOf(EventOf[c])}
  OBVIOUS
<1>2. docs' = docs \cup {DocumentOf(EventOf[c])} => StoreGrows
  BY <1>1, CallDocument DEF StoreGrows
<1> QED
  BY <1>2, NoGrowth DEF StepShape

\* A step of a call keeps the invariant.
LEMMA ShapeStep ==
  ASSUME WriterInv, NEW c \in Calls, StepShape(c)
  PROVE  WriterInv'
<1>0. TypeOK /\ DocsOK /\ AnswersOK
  BY DEF WriterInv
<1>1. DocsOK' /\ docs \subseteq docs'
  BY <1>0, ShapeGrows, GrowsOK
<1>2. TypeOK'
  <2>1. docs' \subseteq [id : Calls \cup Events, event : Events]
    BY <1>1 DEF DocsOK, DocumentOf
  <2>2. answer' \in [Calls -> Answers] /\ pc' \in [Calls -> Steps]
    BY <1>0 DEF StepShape, TypeOK, Answers
  <2>3. crashes' \in 0..MaxCrashes
    BY <1>0 DEF StepShape, TypeOK
  <2>4. /\ client' \in BOOLEAN /\ container' \in BOOLEAN /\ faults' \in 0..MaxFaults
        /\ tries' \in [Calls -> 0..AuditRetries]
    BY DEF StepShape
  <2> QED
    BY <2>1, <2>2, <2>3, <2>4, Zenon DEF TypeOK
<1>3. AnswersOK'
  <2> SUFFICES ASSUME NEW k \in Calls
               PROVE  /\ answer'[k] # "none" => pc'[k] = "done"
                      /\ answer'[k] = "ok" => DocumentOf(EventOf[k]) \in docs'
    BY DEF AnswersOK, DocumentOf
  <2>1. pc \in [Calls -> Steps] /\ answer \in [Calls -> Answers]
    BY <1>0 DEF TypeOK
  <2>2. CASE k # c
    <3>1. answer'[k] = answer[k] /\ pc'[k] = pc[k]
      BY <2>1, <2>2 DEF StepShape
    <3> QED
      BY <1>0, <1>1, <3>1 DEF AnswersOK
  <2>3. CASE k = c
    <3>1. answer[c] = "none"
      BY <1>0 DEF AnswersOK, StepShape
    <3> QED
      BY <2>1, <2>3, <3>1 DEF StepShape
  <2> QED
    BY <2>2, <2>3
<1> QED
  BY <1>1, <1>2, <1>3 DEF WriterInv

\* A crash leaves what was answered, and stores documents of events only.
LEMMA CrashStores ==
  ASSUME DocsOK, Crash
  PROVE  StoreGrows
<1>1. PICK S \in SUBSET {c \in Calls : pc[c] = "upsert"} :
         docs' = Upserted({Doc(c) : c \in S})
  BY Zenon DEF Crash
<1> DEFINE E == {EventOf[c] : c \in S}
<1>2. E \in SUBSET Events /\ {Doc(c) : c \in S} = {DocumentOf(e) : e \in E}
  BY CallDocument
<1> HIDE DEF E
<1> QED
  BY <1>1, <1>2, UpsertAdds DEF StoreGrows

\* A call whose process dies is a call that failed, in the abstract log.
LEMMA CrashStep ==
  ASSUME WriterInv, Crash
  PROVE  WriterInv'
<1>0. TypeOK /\ DocsOK /\ AnswersOK
  BY DEF WriterInv
<1>1. DocsOK' /\ docs \subseteq docs'
  BY <1>0, CrashStores, GrowsOK
<1>2. /\ pc' = [c \in Calls |-> IF pc[c] \in {"idle", "done"} THEN pc[c] ELSE "lost"]
      /\ UNCHANGED <<tries, answer, faults>>
      /\ client' = FALSE /\ container' = FALSE
      /\ crashes < MaxCrashes /\ crashes' = crashes + 1
  BY DEF Crash
<1>3. TypeOK'
  <2>1. docs' \subseteq [id : Calls \cup Events, event : Events]
    BY <1>1 DEF DocsOK, DocumentOf
  <2>2. crashes' \in 0..MaxCrashes
    BY <1>0, <1>2, AuditAssumption DEF TypeOK
  <2>3. pc' \in [Calls -> Steps]
    BY <1>0, <1>2 DEF TypeOK, Steps
  <2> QED
    BY <1>0, <1>2, <2>1, <2>2, <2>3, Zenon DEF TypeOK
<1>4. AnswersOK'
  BY <1>0, <1>1, <1>2 DEF AnswersOK, DocumentOf
<1> QED
  BY <1>1, <1>3, <1>4 DEF WriterInv

\* Every step of the writer keeps the invariant.
LEMMA WriterStep == WriterInv /\ [Next]_vars => WriterInv'
<1> SUFFICES ASSUME WriterInv, [Next]_vars PROVE WriterInv'
  OBVIOUS
<1>1. ASSUME NEW c \in Calls, Begin(c) \/ Step(c) PROVE WriterInv'
  BY <1>1, StepHasShape, ShapeStep
<1>2. CASE Crash
  BY <1>2, CrashStep
<1>3. CASE UNCHANGED vars
  BY <1>3 DEF vars, WriterInv, TypeOK, DocsOK, AnswersOK, DocumentOf
<1> QED
  BY <1>1, <1>2, <1>3 DEF Next, AllEnded

\* The documents are those of their events and every ok answer has its
\* document, whatever the attempts, failing calls and crashes of audit.py.
THEOREM WriterCorrect == Spec => []WriterInv
  BY WriterInit, WriterStep, PTL DEF Spec

\* The types of the writer's state, the bound of the retry loop included.
THEOREM WriterTypeCorrect == Spec => []TypeOK
<1>1. WriterInv => TypeOK
  BY DEF WriterInv
<1> QED
  BY <1>1, WriterCorrect, PTL

\* write_audit_event answers ok only when the document is in Cosmos DB, and
\* nothing that happens later takes it away.
THEOREM OkMeansStoredCorrect == Spec => []OkMeansStored
<1>1. WriterInv => OkMeansStored
  <2>1. \A e : DocumentOf(e).event = e
    BY DEF DocumentOf
  <2> QED
    BY <2>1 DEF WriterInv, AnswersOK, OkMeansStored, Stored
<1> QED
  BY <1>1, WriterCorrect, PTL

\* The deterministic id makes every attempt for an event write one document.
THEOREM OneDocumentCorrect == Spec => []OneDocumentPerEvent
<1>1. WriterInv => OneDocumentPerEvent
  BY DEF WriterInv, DocsOK, OneDocumentPerEvent
<1> QED
  BY <1>1, WriterCorrect, PTL

-----------------------------------------------------------------------------
(* The writer implements AuditLog *)

\* The abstract counter of an event is one or zero.
LEMMA CopiesOf ==
  ASSUME DocsOK, NEW e \in Events
  PROVE  Cardinality({d \in docs : d.event = e}) =
            IF DocumentOf(e) \in docs THEN 1 ELSE 0
<1>1. CASE DocumentOf(e) \in docs
  <2>1. {d \in docs : d.event = e} = {DocumentOf(e)}
    BY <1>1 DEF DocsOK, DocumentOf
  <2> QED
    BY <1>1, <2>1, FS_Singleton
<1>2. CASE DocumentOf(e) \notin docs
  <2>1. {d \in docs : d.event = e} = {}
    BY <1>2 DEF DocsOK
  <2> QED
    BY <1>2, <2>1, FS_EmptySet
<1> QED
  BY <1>1, <1>2

\* The abstract counters, before and after a step.
Copies == [e \in Events |-> Cardinality({d \in docs : d.event = e})]

\* The abstract answers: both ways of not writing are "failed".
Answered == [c \in Calls |-> IF answer[c] \in {"no-cosmos", "giveup"} THEN "failed"
                             ELSE answer[c]]

\* Adding the documents of the events E sets their counters to one.
LEMMA CopiesGrow ==
  ASSUME DocsOK, NEW E \in SUBSET Events, docs' = docs \cup {DocumentOf(e) : e \in E}
  PROVE  Copies' = [e \in Events |-> IF e \in E THEN 1 ELSE Copies[e]]
<1>1. DocsOK'
  BY DEF DocsOK, DocumentOf
<1> SUFFICES ASSUME NEW e \in Events
             PROVE  Cardinality({d \in docs' : d.event = e}) =
                        IF e \in E THEN 1 ELSE Cardinality({d \in docs : d.event = e})
  BY DEF Copies
<1>2. Cardinality({d \in docs : d.event = e}) = IF DocumentOf(e) \in docs THEN 1 ELSE 0
  BY CopiesOf
<1>3. Cardinality({d \in docs' : d.event = e}) = IF DocumentOf(e) \in docs' THEN 1 ELSE 0
  <2>1. CASE DocumentOf(e) \in docs'
    <3>1. {d \in docs' : d.event = e} = {DocumentOf(e)}
      BY <1>1, <2>1 DEF DocsOK, DocumentOf
    <3> QED
      BY <2>1, <3>1, FS_Singleton
  <2>2. CASE DocumentOf(e) \notin docs'
    <3>1. {d \in docs' : d.event = e} = {}
      BY <1>1, <2>2 DEF DocsOK, DocumentOf
    <3> QED
      BY <2>2, <3>1, FS_EmptySet
  <2> QED
    BY <2>1, <2>2
<1>4. DocumentOf(e) \in docs' <=> DocumentOf(e) \in docs \/ e \in E
  BY DEF DocumentOf
<1> QED
  BY <1>2, <1>3, <1>4

\* A step of a call is a step of AuditLog.
LEMMA ShapeImplements ==
  ASSUME WriterInv, NEW c \in Calls, StepShape(c)
  PROVE  Log!Next
<1>0. TypeOK /\ DocsOK /\ AnswersOK
  BY DEF WriterInv
<1>1. answer \in [Calls -> Answers] /\ answer[c] = "none"
  BY <1>0 DEF TypeOK, AnswersOK, StepShape
<1>2. EventOf[c] \in Events /\ {EventOf[c]} \in SUBSET Events
  BY CallDocument
<1>3. docs' = docs => Copies' = Copies
  BY DEF Copies
<1>4. ASSUME docs' = docs \cup {DocumentOf(EventOf[c])}
      PROVE  Copies' = [e \in Events |-> IF e \in {EventOf[c]} THEN 1 ELSE Copies[e]]
  <2>1. {DocumentOf(e) : e \in {EventOf[c]}} = {DocumentOf(EventOf[c])}
    OBVIOUS
  <2> QED
    BY <1>0, <1>2, <1>4, <2>1, CopiesGrow
<1>5. Answered[c] = "none"
  BY <1>1 DEF Answered
<1>6. CASE answer' = answer /\ StoreGrows
  <2>1. PICK E \in SUBSET Events : docs' = docs \cup {DocumentOf(e) : e \in E}
    BY <1>6 DEF StoreGrows
  <2>2. Copies' = [e \in Events |-> IF e \in E THEN 1 ELSE Copies[e]]
    BY <1>0, <2>1, CopiesGrow
  <2>3. Answered' = Answered
    BY <1>6 DEF Answered
  <2>4. Log!Store(E)
    BY <2>2, <2>3 DEF Log!Store, Log!Upserted, Copies, Answered
  <2> QED
    BY <2>4 DEF Log!Next
<1>7. CASE /\ \E a \in {"no-cosmos", "giveup"} : answer' = [answer EXCEPT ![c] = a]
           /\ docs' \in {docs, docs \cup {DocumentOf(EventOf[c])}}
  <2>1. Answered' = [Answered EXCEPT ![c] = "failed"]
    BY <1>1, <1>7 DEF Answered
  <2>2. Copies' \in {Copies, [e \in Events |-> IF e \in {EventOf[c]} THEN 1 ELSE Copies[e]]}
    BY <1>3, <1>4, <1>7
  <2>3. Log!Failed(c)
    BY <1>5, <2>1, <2>2 DEF Log!Failed, Log!Upserted, Copies, Answered
  <2> QED
    BY <2>3 DEF Log!Next
<1>8. CASE /\ answer' = [answer EXCEPT ![c] = "ok"]
           /\ docs' = docs \cup {DocumentOf(EventOf[c])}
  <2>1. Answered' = [Answered EXCEPT ![c] = "ok"]
    BY <1>1, <1>8 DEF Answered
  <2>2. Log!Ok(c)
    BY <1>4, <1>5, <1>8, <2>1 DEF Log!Ok, Log!Upserted, Copies, Answered
  <2> QED
    BY <2>2 DEF Log!Next
<1> QED
  BY <1>6, <1>7, <1>8 DEF StepShape

\* Every step of the writer is a step of AuditLog or changes nothing of it.
LEMMA StepImplements == WriterInv /\ [Next]_vars => [Log!Next]_(Log!vars)
<1> SUFFICES ASSUME WriterInv, [Next]_vars PROVE Log!Next \/ UNCHANGED Log!vars
  OBVIOUS
<1>1. ASSUME NEW c \in Calls, Begin(c) \/ Step(c) PROVE Log!Next
  BY <1>1, StepHasShape, ShapeImplements
<1>2. CASE Crash
  <2>0. DocsOK /\ answer' = answer
    BY <1>2 DEF WriterInv, Crash
  <2>1. PICK E \in SUBSET Events : docs' = docs \cup {DocumentOf(e) : e \in E}
    BY <1>2, <2>0, CrashStores DEF StoreGrows
  <2>2. Copies' = [e \in Events |-> IF e \in E THEN 1 ELSE Copies[e]]
    BY <2>0, <2>1, CopiesGrow
  <2>3. Answered' = Answered
    BY <2>0 DEF Answered
  <2>4. Log!Store(E)
    BY <2>2, <2>3 DEF Log!Store, Log!Upserted, Copies, Answered
  <2> QED
    BY <2>4 DEF Log!Next
<1>3. CASE UNCHANGED vars
  BY <1>3 DEF vars, Log!vars
<1> QED
  BY <1>1, <1>2, <1>3 DEF Next, AllEnded

\* write_audit_event implements AuditLog for any attempts, failures and crashes.
THEOREM WriterImplementsAuditLog == Spec => ImplementsAuditLog
<1>1. Init => Log!Init
  <2> SUFFICES ASSUME Init PROVE Log!Init
    OBVIOUS
  <2>1. docs = {} /\ answer = [c \in Calls |-> "none"]
    BY DEF Init
  <2>2. \A e \in Events : Cardinality({d \in docs : d.event = e}) = 0
    <3>1. \A e \in Events : {d \in docs : d.event = e} = {}
      BY <2>1
    <3> QED
      BY <3>1, FS_EmptySet
  <2> QED
    BY <2>1, <2>2 DEF Log!Init
<1> QED
  BY <1>1, StepImplements, WriterCorrect, PTL DEF Spec, ImplementsAuditLog, Log!Spec
=============================================================================
