------------------------ MODULE AlertPipeline_proofs ------------------------
(***************************************************************************)
(* Theorems about AlertPipeline, for every set of events, keys and         *)
(* instances, every assignment of candidates to events, and every number   *)
(* of revisions, batches, restarts and failures.                           *)
(***************************************************************************)
EXTENDS AlertPipeline, SequenceTheorems, FiniteSetTheorems, TLAPS

USE BoundAssumption, InstanceAssumption, FaultAssumption, SettingAssumption, RuleAssumption

-----------------------------------------------------------------------------
(* Types: the invariant that is inductive. *)

Landed == {e \in Events : docs[e].rev > 0}

\* A change stream only delivers events whose document exists, and an instance that is
\* dispatching has a candidate to dispatch.
PipelineInv ==
  /\ TypeOK
  /\ stream \in [Instances -> Seq(Landed)]
  /\ \A i \in Instances : pc[i] \in {"insert", "enqueue"} => cands[i] # <<>>

LEMMA PipelineInit == Init => PipelineInv
<1> SUFFICES ASSUME Init PROVE PipelineInv
  OBVIOUS
<1>1. docs \in [Events -> [rev : 0..MaxRev, at : Nat]] /\ evaluated \in [Instances -> [Events -> 0..MaxRev]]
  BY DEF Init, NoDoc
<1>2. batch \in [Writers -> [at : Nat, todo : SUBSET Events]]
  BY DEF Init, NoBatch
<1>3. stream \in [Instances -> Seq(Landed)] /\ stream \in [Instances -> Seq(Events)]
  BY EmptySeq DEF Init
<1>4. cands \in [Instances -> Seq(Keys)]
  BY EmptySeq DEF Init
<1>5. /\ cursor \in [Instances -> SUBSET Documents]
      /\ pc \in [Instances -> {"down", "open", "ready", "insert", "enqueue"}]
      /\ mode \in [Instances -> {"stream", "poll"}]
      /\ \A i \in Instances : pc[i] = "down"
  BY DEF Init
<1>6. /\ clock \in Nat /\ rows \in [Keys -> Nat] /\ jobs \in [Keys -> Nat]
      /\ lastSeen \in [Instances -> Nat]
  BY DEF Init
<1>7. faults \in 0..MaxFaults /\ boots \in [Instances -> 0..MaxBoots]
  BY DEF Init
<1>8. index \in BOOLEAN
  BY DEF Init
<1>9. QED
  BY <1>1, <1>2, <1>3, <1>4, <1>5, <1>6, <1>7, <1>8 DEF PipelineInv, TypeOK

\* What every step of the consumer does to its pc and its candidates.
LEMMA CandidateType ==
  ASSUME PipelineInv, NEW i \in Instances, pc[i] \in {"insert", "enqueue"}
  PROVE  /\ Head(cands[i]) \in Keys /\ Tail(cands[i]) \in Seq(Keys)
         /\ Len(cands[i]) # 1 => Tail(cands[i]) # <<>>
<1>1. cands[i] \in Seq(Keys) /\ cands[i] # <<>>
  BY DEF PipelineInv, TypeOK
<1>2. /\ Head(cands[i]) \in Keys /\ Tail(cands[i]) \in Seq(Keys)
      /\ Len(Tail(cands[i])) = Len(cands[i]) - 1
  BY <1>1, HeadTailProperties
<1>3. ASSUME Tail(cands[i]) = <<>> PROVE Len(cands[i]) = 1
  <2>1. Len(Tail(cands[i])) = 0
    BY <1>3, EmptySeq
  <2>2. Len(cands[i]) \in Nat
    BY <1>1, LenProperties
  <2>3. QED
    BY <1>2, <2>1, <2>2
<1>4. QED
  BY <1>2, <1>3

LEMMA EvaluateType ==
  ASSUME PipelineInv, NEW i \in Instances, NEW e \in Events, NEW r \in 1..MaxRev,
         Evaluate(i, e, r)
  PROVE  /\ cands' \in [Instances -> Seq(Keys)]
         /\ pc' \in [Instances -> {"down", "open", "ready", "insert", "enqueue"}]
         /\ evaluated' \in [Instances -> [Events -> 0..MaxRev]]
         /\ faults' \in 0..MaxFaults
         /\ \A j \in Instances : pc'[j] \in {"insert", "enqueue"} => cands'[j] # <<>>
<1>1. Fires[e][r] \in Seq(Keys)
  OBVIOUS
<1>2. evaluated' \in [Instances -> [Events -> 0..MaxRev]] /\ faults' \in 0..MaxFaults
  BY DEF Evaluate, PipelineInv, TypeOK
<1>3. QED
  BY <1>1, <1>2 DEF Evaluate, PipelineInv, TypeOK

LEMMA NextCandidateType ==
  ASSUME PipelineInv, NEW i \in Instances, pc[i] \in {"insert", "enqueue"}, NextCandidate(i)
  PROVE  /\ cands' \in [Instances -> Seq(Keys)]
         /\ pc' \in [Instances -> {"down", "open", "ready", "insert", "enqueue"}]
         /\ \A j \in Instances : pc'[j] \in {"insert", "enqueue"} => cands'[j] # <<>>
<1>1. cands' = [cands EXCEPT ![i] = Tail(cands[i])]
  BY DEF NextCandidate
<1>2. /\ Tail(cands[i]) \in Seq(Keys)
      /\ Len(cands[i]) # 1 => Tail(cands[i]) # <<>>
  BY CandidateType
<1>3. cands' \in [Instances -> Seq(Keys)]
  BY <1>1, <1>2 DEF PipelineInv, TypeOK
<1>4. pc' = [pc EXCEPT ![i] = IF Len(cands[i]) = 1 THEN "ready" ELSE "insert"]
  BY DEF NextCandidate
<1>5. pc' \in [Instances -> {"down", "open", "ready", "insert", "enqueue"}]
  BY <1>4 DEF PipelineInv, TypeOK
<1>6. ASSUME NEW j \in Instances, pc'[j] \in {"insert", "enqueue"} PROVE cands'[j] # <<>>
  <2>1. CASE j = i
    BY <1>1, <1>2, <1>4, <1>6, <2>1 DEF PipelineInv, TypeOK
  <2>2. CASE j # i
    BY <1>1, <1>4, <1>6, <2>2 DEF PipelineInv, TypeOK
  <2>3. QED
    BY <2>1, <2>2
<1>7. QED
  BY <1>3, <1>5, <1>6

\* dispatch changes the stores and one instance's pc and candidates, nothing else.
DispatchTypes ==
  /\ cands' \in [Instances -> Seq(Keys)]
  /\ pc' \in [Instances -> {"down", "open", "ready", "insert", "enqueue"}]
  /\ \A j \in Instances : pc'[j] \in {"insert", "enqueue"} => cands'[j] # <<>>
  /\ rows' \in [Keys -> Nat] /\ jobs' \in [Keys -> Nat] /\ faults' \in 0..MaxFaults

LEMMA DispatchType ==
  ASSUME PipelineInv, DispatchTypes,
         UNCHANGED <<ingestVars, index, boots, mode, stream, cursor, lastSeen, evaluated>>
  PROVE  PipelineInv'
<1>1. /\ rows' \in [Keys -> Nat] /\ jobs' \in [Keys -> Nat]
      /\ faults' \in 0..MaxFaults /\ index' \in BOOLEAN
  BY DEF DispatchTypes, PipelineInv, TypeOK
<1>2. docs' = docs /\ stream' = stream
  BY DEF ingestVars
<1>3. stream' \in [Instances -> Seq(Landed')]
  BY <1>2 DEF PipelineInv, Landed
<1>4. TypeOK'
  BY <1>1, <1>2 DEF DispatchTypes, PipelineInv, TypeOK, ingestVars
<1>5. QED
  BY <1>3, <1>4 DEF DispatchTypes, PipelineInv

LEMMA PipelineNext == PipelineInv /\ [Next]_vars => PipelineInv'
<1> SUFFICES ASSUME PipelineInv, [Next]_vars PROVE PipelineInv'
  OBVIOUS
<1> USE DEF PipelineInv, TypeOK
<1>1. CASE UNCHANGED vars
  BY <1>1 DEF vars, ingestVars, storeVars, consumerVars, Landed
<1>2. ASSUME NEW w \in Writers, StartBatch(w) PROVE PipelineInv'
  <2>1. clock' \in Nat
    BY <1>2 DEF StartBatch
  <2>2. batch' \in [Writers -> [at : Nat, todo : SUBSET Events]]
    BY <1>2 DEF StartBatch
  <2>3. QED
    BY <1>2, <2>1, <2>2 DEF StartBatch, storeVars, consumerVars, Landed
<1>3. ASSUME NEW w \in Writers, NEW e \in Events, WriteEvent(w, e) PROVE PipelineInv'
  <2>1. batch' \in [Writers -> [at : Nat, todo : SUBSET Events]]
    BY <1>3 DEF WriteEvent
  <2>2. /\ docs' \in [Events -> [rev : 0..MaxRev, at : Nat]]
        /\ Landed \subseteq Landed'
        /\ stream' # stream => e \in Landed'
    <3>1. CASE docs[e].rev < MaxRev
      <4>1. docs' = [docs EXCEPT ![e] = [rev |-> docs[e].rev + 1, at |-> batch[w].at]]
        BY <1>3, <3>1 DEF WriteEvent
      <4>2. docs[e].rev \in 0..MaxRev /\ batch[w].at \in Nat
        OBVIOUS
      <4>3. [rev |-> docs[e].rev + 1, at |-> batch[w].at] \in [rev : 0..MaxRev, at : Nat]
        BY <4>2, <3>1
      <4>4. docs'[e].rev = docs[e].rev + 1 /\ \A d \in Events : d # e => docs'[d] = docs[d]
        BY <4>1
      <4>5. QED
        BY <4>1, <4>2, <4>3, <4>4 DEF Landed
    <3>2. CASE ~(docs[e].rev < MaxRev)
      BY <1>3, <3>2 DEF WriteEvent, Landed
    <3>3. QED
      BY <3>1, <3>2
  <2>3. \A i \in Instances : /\ stream[i] \in Seq(Landed')
                             /\ e \in Landed' => Append(stream[i], e) \in Seq(Landed')
    BY <2>2, SeqMonotonic, AppendProperties
  <2>4. stream' \in [Instances -> Seq(Landed')]
    <3>1. CASE docs[e].rev < MaxRev
      <4>1. stream' = [i \in Instances |->
               IF pc[i] \notin {"down", "open"} /\ mode[i] = "stream"
                 THEN Append(stream[i], e) ELSE stream[i]]
        BY <1>3, <3>1 DEF WriteEvent
      <4>2. stream' # stream \/ \A i \in Instances : stream'[i] = stream[i]
        OBVIOUS
      <4>3. CASE stream' = stream
        BY <2>3, <4>3
      <4>4. CASE stream' # stream
        BY <2>2, <2>3, <4>1, <4>4
      <4>5. QED
        BY <4>3, <4>4
    <3>2. CASE ~(docs[e].rev < MaxRev)
      BY <1>3, <2>3, <3>2 DEF WriteEvent
    <3>3. QED
      BY <3>1, <3>2
  <2>5. stream' \in [Instances -> Seq(Events)]
    <3>1. Landed' \subseteq Events
      BY DEF Landed
    <3>2. QED
      BY <2>4, <3>1, SeqMonotonic
  <2>6. QED
    BY <1>3, <2>1, <2>2, <2>4, <2>5 DEF WriteEvent, storeVars
<1>4. ASSUME NEW i \in Instances, NEW created \in BOOLEAN, Boot(i, created) PROVE PipelineInv'
  <2>1. faults' \in 0..MaxFaults
    BY <1>4 DEF Boot, Fault
  <2>2. boots' \in [Instances -> 0..MaxBoots]
    BY <1>4 DEF Boot
  <2>3. index' \in BOOLEAN
    BY <1>4 DEF Boot
  <2>4. /\ pc' \in [Instances -> {"down", "open", "ready", "insert", "enqueue"}]
        /\ \A j \in Instances : pc'[j] \in {"insert", "enqueue"} => cands'[j] # <<>>
    BY <1>4 DEF Boot
  <2>5. QED
    BY <1>4, <2>1, <2>2, <2>3, <2>4 DEF Boot, ingestVars, Landed
<1>5. ASSUME NEW i \in Instances, Crash(i) PROVE PipelineInv'
  <2>1. stream' \in [Instances -> Seq(Landed)] /\ stream' \in [Instances -> Seq(Events)]
    BY <1>5, EmptySeq DEF Crash
  <2>2. /\ cands' \in [Instances -> Seq(Keys)]
        /\ \A j \in Instances : pc'[j] \in {"insert", "enqueue"} => cands'[j] # <<>>
    BY <1>5, EmptySeq DEF Crash
  <2>3. QED
    BY <1>5, <2>1, <2>2 DEF Crash, ingestVars, storeVars, Landed
<1>6. ASSUME NEW i \in Instances, ConsumerStep(i) PROVE PipelineInv'
  <2> USE DEF ingestVars, storeVars, Landed
  <2>1. CASE OpenStream(i)
    BY <2>1 DEF OpenStream
  <2>2. CASE FallBack(i)
    <3>1. faults' \in 0..MaxFaults
      BY <2>2 DEF FallBack, Fault
    <3>2. stream' \in [Instances -> Seq(Landed)] /\ stream' \in [Instances -> Seq(Events)]
      BY <2>2, EmptySeq DEF FallBack
    <3>3. QED
      BY <2>2, <3>1, <3>2 DEF FallBack
  <2>3. CASE FallbackCrashes(i)
    <3>1. faults' \in 0..MaxFaults
      BY <2>3 DEF FallbackCrashes, Fault
    <3>2. QED
      BY <2>3, <3>1 DEF FallbackCrashes
  <2>4. CASE Query(i)
    <3>1. Matching(i) \subseteq Documents
      BY DEF Matching, Documents
    <3>2. cursor' \in [Instances -> SUBSET Documents]
      BY <2>4, <3>1 DEF Query, FirstDocs
    <3>3. QED
      BY <2>4, <3>2 DEF Query
  <2>5. CASE NextChange(i)
    <3>1. Head(stream[i]) \in Landed /\ Tail(stream[i]) \in Seq(Landed)
      BY <2>5, HeadTailProperties DEF NextChange
    <3>2. Tail(stream[i]) \in Seq(Events)
      BY <2>5, HeadTailProperties DEF NextChange
    <3>3. stream' \in [Instances -> Seq(Landed)] /\ stream' \in [Instances -> Seq(Events)]
      BY <2>5, <3>1, <3>2 DEF NextChange
    <3>4. CASE EvaluateCrashes(i)
      <4>1. faults' \in 0..MaxFaults
        BY <3>4 DEF EvaluateCrashes, Fault
      <4>2. QED
        BY <2>5, <3>3, <3>4, <4>1 DEF NextChange, EvaluateCrashes
    <3>5. CASE Evaluate(i, Head(stream[i]), docs[Head(stream[i])].rev)
      <4>1. docs[Head(stream[i])].rev \in 1..MaxRev
        BY <3>1
      <4>2. QED
        BY <2>5, <3>1, <3>3, <3>5, <4>1, EvaluateType DEF NextChange
    <3>6. QED
      BY <2>5, <3>4, <3>5 DEF NextChange
  <2>6. CASE NextDoc(i)
    <3>1. PICK d \in cursor[i] :
            /\ cursor' = [cursor EXCEPT ![i] = @ \ {d}]
            /\ lastSeen' = [lastSeen EXCEPT ![i] = d.at]
            /\ Evaluate(i, d.id, d.rev) \/ EvaluateCrashes(i)
      BY <2>6 DEF NextDoc
    <3>2. d.id \in Events /\ d.rev \in 1..MaxRev /\ d.at \in Nat
      BY DEF Documents
    <3>3. cursor' \in [Instances -> SUBSET Documents] /\ lastSeen' \in [Instances -> Nat]
      BY <3>1, <3>2
    <3>4. CASE EvaluateCrashes(i)
      <4>1. faults' \in 0..MaxFaults
        BY <3>4 DEF EvaluateCrashes, Fault
      <4>2. QED
        BY <2>6, <3>3, <3>4, <4>1 DEF NextDoc, EvaluateCrashes
    <3>5. CASE Evaluate(i, d.id, d.rev)
      <4>1. /\ cands' \in [Instances -> Seq(Keys)]
            /\ pc' \in [Instances -> {"down", "open", "ready", "insert", "enqueue"}]
            /\ evaluated' \in [Instances -> [Events -> 0..MaxRev]]
            /\ \A j \in Instances : pc'[j] \in {"insert", "enqueue"} => cands'[j] # <<>>
        BY <3>2, <3>5, EvaluateType
      <4>2. faults' = faults
        BY <3>5 DEF Evaluate
      <4>3. QED
        BY <2>6, <3>3, <4>1, <4>2 DEF NextDoc
    <3>6. QED
      BY <3>1, <3>4, <3>5
  <2>7. CASE InsertRow(i)
    <3>1. Head(cands[i]) \in Keys
      BY <2>7, CandidateType DEF InsertRow
    <3>2. CASE index /\ rows[Head(cands[i])] > 0
      <4>1. DispatchTypes
        BY <2>7, <3>2, NextCandidateType DEF InsertRow, DispatchTypes
      <4>2. QED
        BY <2>7, <4>1, DispatchType DEF InsertRow, NextCandidate
    <3>3. CASE ~(index /\ rows[Head(cands[i])] > 0)
      <4>1. rows' \in [Keys -> Nat]
        <5>1. rows' = [rows EXCEPT ![Head(cands[i])] = @ + 1]
          BY <2>7, <3>3 DEF InsertRow
        <5>2. QED
          BY <3>1, <5>1
      <4>2. pc' = [pc EXCEPT ![i] = "enqueue"] /\ cands' = cands
        BY <2>7, <3>3 DEF InsertRow
      <4>3. jobs' = jobs /\ faults' = faults
        BY <2>7 DEF InsertRow
      <4>4. pc[i] = "insert"
        BY <2>7 DEF InsertRow
      <4>5. pc' \in [Instances -> {"down", "open", "ready", "insert", "enqueue"}]
        BY <4>2
      <4>6. \A j \in Instances : pc'[j] \in {"insert", "enqueue"} => cands'[j] # <<>>
        BY <4>2, <4>4
      <4>7. DispatchTypes
        BY <4>1, <4>2, <4>3, <4>5, <4>6 DEF DispatchTypes
      <4>8. QED
        BY <2>7, <4>7, DispatchType DEF InsertRow
    <3>4. QED
      BY <3>2, <3>3
  <2>8. CASE EnqueueJob(i)
    <3>1. Head(cands[i]) \in Keys
      BY <2>8, CandidateType DEF EnqueueJob
    <3>2. jobs' \in [Keys -> Nat]
      BY <2>8, <3>1 DEF EnqueueJob
    <3>3. DispatchTypes
      BY <2>8, <3>2, NextCandidateType DEF EnqueueJob, DispatchTypes
    <3>4. QED
      BY <2>8, <3>3, DispatchType DEF EnqueueJob, NextCandidate
  <2>9. CASE InsertFails(i)
    <3>1. Head(cands[i]) \in Keys
      BY <2>9, CandidateType DEF InsertFails
    <3>2. rows' \in [Keys -> Nat]
      <4>1. rows' = rows \/ rows' = [rows EXCEPT ![Head(cands[i])] = @ + 1]
        BY <2>9 DEF InsertFails
      <4>2. CASE rows' = rows
        BY <4>2
      <4>3. CASE rows' = [rows EXCEPT ![Head(cands[i])] = @ + 1]
        BY <3>1, <4>3
      <4>4. QED
        BY <4>1, <4>2, <4>3
    <3>3. faults' \in 0..MaxFaults
      BY <2>9 DEF InsertFails, Fault
    <3>4. NextCandidate(i) /\ jobs' = jobs /\ pc[i] = "insert"
      BY <2>9 DEF InsertFails
    <3>5. DispatchTypes
      BY <3>2, <3>3, <3>4, NextCandidateType DEF DispatchTypes
    <3>6. QED
      BY <2>9, <3>5, DispatchType DEF InsertFails
  <2>10. CASE EnqueueFails(i)
    <3>1. Head(cands[i]) \in Keys
      BY <2>10, CandidateType DEF EnqueueFails
    <3>2. jobs' \in [Keys -> Nat]
      <4>1. jobs' = jobs \/ jobs' = [jobs EXCEPT ![Head(cands[i])] = @ + 1]
        BY <2>10 DEF EnqueueFails
      <4>2. CASE jobs' = jobs
        BY <4>2
      <4>3. CASE jobs' = [jobs EXCEPT ![Head(cands[i])] = @ + 1]
        BY <3>1, <4>3
      <4>4. QED
        BY <4>1, <4>2, <4>3
    <3>3. faults' \in 0..MaxFaults
      BY <2>10 DEF EnqueueFails, Fault
    <3>4. NextCandidate(i) /\ rows' = rows /\ pc[i] = "enqueue"
      BY <2>10 DEF EnqueueFails
    <3>5. DispatchTypes
      BY <3>2, <3>3, <3>4, NextCandidateType DEF DispatchTypes
    <3>6. QED
      BY <2>10, <3>5, DispatchType DEF EnqueueFails
  <2>11. QED
    BY <1>6, <2>1, <2>2, <2>3, <2>4, <2>5, <2>6, <2>7, <2>8, <2>9, <2>10 DEF ConsumerStep
<1>7. QED
  BY <1>1, <1>2, <1>3, <1>4, <1>5, <1>6 DEF Next

LEMMA PipelineAlways == Spec => []PipelineInv
BY PipelineInit, PipelineNext, PTL DEF Spec

\* Every reachable state is well-typed.
THEOREM TypeCorrect == Spec => []TypeOK
<1>1. PipelineInv => TypeOK
  BY DEF PipelineInv
<1>2. QED
  BY <1>1, PipelineAlways, PTL

-----------------------------------------------------------------------------
(* The shape of a step: what it does to the stores, and to who holds a logged alert. *)

\* An instance stops holding an alert, or starts to; the others keep what they hold.
Leave(i) ==
  /\ pc'[i] # "enqueue"
  /\ \A j \in Instances : j # i => pc'[j] = pc[j] /\ cands'[j] = cands[j]

Enter(i) == pc[i] = "insert" /\ pc' = [pc EXCEPT ![i] = "enqueue"] /\ cands' = cands

\* A row is added, a job is added, or neither.
LogOne(k) ==
  /\ ~(index /\ rows[k] > 0)
  /\ rows' = [rows EXCEPT ![k] = @ + 1]
  /\ jobs' = jobs

JobOne(i) ==
  /\ pc[i] = "enqueue"
  /\ jobs' = [jobs EXCEPT ![Head(cands[i])] = @ + 1]
  /\ rows' = rows

Quiet == rows' = rows /\ jobs' = jobs

StepShape ==
  \/ Quiet /\ index' = index /\ pc' = pc /\ cands' = cands
  \/ \E i \in Instances :
       /\ Leave(i) /\ Quiet
       /\ index => index'
       /\ index' => index \/ \A k \in Keys : rows[k] <= 1
  \/ \E i \in Instances, k \in Keys : Leave(i) /\ LogOne(k) /\ index' = index
  \/ \E i \in Instances : Leave(i) /\ JobOne(i) /\ index' = index
  \/ \E i \in Instances : Enter(i) /\ LogOne(Head(cands[i])) /\ index' = index

LEMMA NextLeaves ==
  ASSUME PipelineInv, NEW i \in Instances, NextCandidate(i)
  PROVE  Leave(i)
BY DEF NextCandidate, Leave, PipelineInv, TypeOK

LEMMA EvaluateLeaves ==
  ASSUME PipelineInv, NEW i \in Instances, NEW e, NEW r,
         Evaluate(i, e, r) \/ EvaluateCrashes(i), pc[i] = "ready"
  PROVE  Leave(i)
BY DEF Evaluate, EvaluateCrashes, Leave, PipelineInv, TypeOK

LEMMA NextHasShape == ASSUME PipelineInv, [Next]_vars PROVE StepShape
<1> USE DEF ingestVars, storeVars
<1>1. CASE UNCHANGED vars
  BY <1>1 DEF vars, consumerVars, StepShape, Quiet
<1>2. ASSUME NEW w \in Writers, StartBatch(w) PROVE StepShape
  BY <1>2 DEF StartBatch, consumerVars, StepShape, Quiet
<1>3. ASSUME NEW w \in Writers, NEW e \in Events, WriteEvent(w, e) PROVE StepShape
  BY <1>3 DEF WriteEvent, StepShape, Quiet
<1>4. ASSUME NEW i \in Instances, NEW created \in BOOLEAN, Boot(i, created) PROVE StepShape
  <2>1. Leave(i) /\ Quiet
    BY <1>4 DEF Boot, Leave, Quiet, PipelineInv, TypeOK
  <2>2. (index => index') /\ (index' => index \/ \A k \in Keys : rows[k] <= 1)
    BY <1>4, Zenon DEF Boot
  <2>3. QED
    BY <2>1, <2>2, Zenon DEF StepShape
<1>5. ASSUME NEW i \in Instances, Crash(i) PROVE StepShape
  <2>1. Leave(i) /\ Quiet /\ index' = index
    BY <1>5 DEF Crash, Leave, Quiet, PipelineInv, TypeOK
  <2>2. QED
    BY <2>1, Zenon DEF StepShape
<1>6. ASSUME NEW i \in Instances, ConsumerStep(i) PROVE StepShape
  <2>1. CASE OpenStream(i) \/ FallBack(i) \/ FallbackCrashes(i)
    <3>1. Leave(i) /\ Quiet /\ index' = index
      BY <2>1 DEF OpenStream, FallBack, FallbackCrashes, Leave, Quiet, PipelineInv, TypeOK
    <3>2. QED
      BY <3>1, Zenon DEF StepShape
  <2>2. CASE Query(i)
    BY <2>2 DEF Query, StepShape, Quiet
  <2>3. CASE NextChange(i) \/ NextDoc(i)
    <3>1. Leave(i) /\ Quiet /\ index' = index
      BY <2>3, EvaluateLeaves DEF NextChange, NextDoc, Quiet
    <3>2. QED
      BY <3>1, Zenon DEF StepShape
  <2>4. CASE InsertRow(i)
    <3> DEFINE k == Head(cands[i])
    <3>1. CASE index /\ rows[k] > 0
      <4>1. NextCandidate(i) /\ Quiet /\ index' = index
        BY <2>4, <3>1 DEF InsertRow, Quiet
      <4>2. QED
        BY <4>1, NextLeaves, Zenon DEF StepShape
    <3>2. CASE ~(index /\ rows[k] > 0)
      <4>1. Enter(i) /\ LogOne(k) /\ index' = index
        BY <2>4, <3>2 DEF InsertRow, Enter, LogOne
      <4>2. QED
        BY <4>1, Zenon DEF StepShape
    <3>3. QED
      BY <3>1, <3>2
  <2>5. CASE EnqueueJob(i)
    <3>1. Leave(i) /\ JobOne(i) /\ index' = index
      BY <2>5, NextLeaves DEF EnqueueJob, JobOne
    <3>2. QED
      BY <3>1, Zenon DEF StepShape
  <2>6. CASE InsertFails(i)
    <3>1. Head(cands[i]) \in Keys
      BY <2>6, CandidateType DEF InsertFails
    <3>2. Leave(i) /\ index' = index /\ jobs' = jobs
      BY <2>6, NextLeaves DEF InsertFails
    <3>3. rows' = rows \/ LogOne(Head(cands[i]))
      BY <2>6 DEF InsertFails, LogOne
    <3>4. QED
      BY <3>1, <3>2, <3>3, Zenon DEF StepShape, Quiet
  <2>7. CASE EnqueueFails(i)
    <3>1. Leave(i) /\ index' = index /\ rows' = rows /\ pc[i] = "enqueue"
      BY <2>7, NextLeaves DEF EnqueueFails
    <3>2. jobs' = jobs \/ jobs' = [jobs EXCEPT ![Head(cands[i])] = @ + 1]
      BY <2>7 DEF EnqueueFails
    <3>3. QED
      BY <3>1, <3>2, Zenon DEF StepShape, Quiet, JobOne
  <2>8. QED
    BY <1>6, <2>1, <2>2, <2>3, <2>4, <2>5, <2>6, <2>7 DEF ConsumerStep
<1>7. QED
  BY <1>1, <1>2, <1>3, <1>4, <1>5, <1>6 DEF Next

-----------------------------------------------------------------------------
(* Dedup. *)

\* The instances that have logged k and not yet handed it over.
Holding(k) == {i \in Instances : pc[i] = "enqueue" /\ Head(cands[i]) = k}

\* What MongoDB promises of ix_dedup_key: it exists only over distinct keys.
IndexedRowsDistinct == index => \A k \in Keys : rows[k] <= 1

\* Each of them has a row of its own, and so has every job: with two instances and no
\* index, rows and jobs must be counted.
LogInv ==
  /\ PipelineInv
  /\ \A k \in Keys : jobs[k] + Cardinality(Holding(k)) <= rows[k]
  /\ IndexedRowsDistinct

LEMMA HoldingFinite ==
  /\ \A k : IsFiniteSet(Holding(k)) /\ Cardinality(Holding(k)) \in Nat
  /\ \A k : IsFiniteSet(Holding(k)') /\ Cardinality(Holding(k)') \in Nat
<1>1. \A k : Holding(k) \in SUBSET Instances /\ Holding(k)' \in SUBSET Instances
  BY DEF Holding
<1>2. QED
  BY <1>1, FS_Subset, FS_CardinalityType

\* Who leaves holds nothing any more.
LEMMA LeaveHolding ==
  ASSUME NEW i \in Instances, Leave(i), NEW k
  PROVE  Cardinality(Holding(k)') =
           IF i \in Holding(k) THEN Cardinality(Holding(k)) - 1 ELSE Cardinality(Holding(k))
<1>1. Holding(k)' = Holding(k) \ {i}
  BY DEF Leave, Holding
<1>2. QED
  BY <1>1, HoldingFinite, FS_RemoveElement

\* Who enters holds the key it has logged.
LEMMA EnterHolding ==
  ASSUME PipelineInv, NEW i \in Instances, Enter(i), NEW k
  PROVE  Cardinality(Holding(k)') =
           IF k = Head(cands[i]) THEN Cardinality(Holding(k)) + 1 ELSE Cardinality(Holding(k))
<1>1. i \notin Holding(k)
  BY DEF Enter, Holding
<1>2. pc \in [Instances -> {"down", "open", "ready", "insert", "enqueue"}]
  BY DEF PipelineInv, TypeOK
<1>3. Holding(k)' = IF k = Head(cands[i]) THEN Holding(k) \cup {i} ELSE Holding(k)
  BY <1>1, <1>2 DEF Enter, Holding
<1>4. QED
  BY <1>1, <1>3, HoldingFinite, FS_AddElement

LEMMA LogInit == Init => LogInv
<1> SUFFICES ASSUME Init PROVE LogInv
  OBVIOUS
<1>1. PipelineInv
  BY PipelineInit
<1>2. \A k : Holding(k) = {}
  BY DEF Init, Holding
<1>3. \A k : Cardinality(Holding(k)) = 0
  BY <1>2, FS_EmptySet
<1>4. \A k \in Keys : rows[k] = 0 /\ jobs[k] = 0
  BY DEF Init
<1>5. \A k \in Keys : jobs[k] + Cardinality(Holding(k)) <= rows[k]
  BY <1>3, <1>4
<1>6. QED
  BY <1>1, <1>4, <1>5 DEF LogInv, IndexedRowsDistinct

LEMMA LogNext == LogInv /\ [Next]_vars => LogInv'
<1> SUFFICES ASSUME LogInv, [Next]_vars PROVE LogInv'
  OBVIOUS
<1>1. PipelineInv /\ PipelineInv' /\ StepShape
  BY PipelineNext, NextHasShape DEF LogInv
<1>2. /\ rows \in [Keys -> Nat] /\ jobs \in [Keys -> Nat]
      /\ rows' \in [Keys -> Nat] /\ jobs' \in [Keys -> Nat]
  BY <1>1 DEF PipelineInv, TypeOK
<1>3. \A k \in Keys : jobs[k] + Cardinality(Holding(k)) <= rows[k]
  BY DEF LogInv
<1>4. index => \A k \in Keys : rows[k] <= 1
  BY DEF LogInv, IndexedRowsDistinct
<1> DEFINE Counted == \A k \in Keys : jobs'[k] + Cardinality(Holding(k)') <= rows'[k]
           Distinct == index' => \A k \in Keys : rows'[k] <= 1
<1> SUFFICES Counted /\ Distinct
  BY <1>1 DEF LogInv, IndexedRowsDistinct
<1>5. ASSUME NEW k \in Keys, LogOne(k), index' = index PROVE Distinct
  <2>1. index => rows[k] = 0
    BY <1>2, <1>5 DEF LogOne
  <2>2. \A m \in Keys : rows'[m] = IF m = k THEN rows[k] + 1 ELSE rows[m]
    BY <1>2, <1>5 DEF LogOne
  <2>3. QED
    BY <1>4, <1>5, <2>1, <2>2
<1>6. CASE Quiet /\ index' = index /\ pc' = pc /\ cands' = cands
  <2>1. \A k : Holding(k)' = Holding(k)
    BY <1>6 DEF Holding
  <2>2. QED
    BY <1>3, <1>4, <1>6, <2>1 DEF Quiet
<1>7. ASSUME NEW i \in Instances, Leave(i), Quiet,
             index' => index \/ \A k \in Keys : rows[k] <= 1
      PROVE  Counted /\ Distinct
  <2>1. \A k \in Keys : Cardinality(Holding(k)') <= Cardinality(Holding(k))
    BY <1>7, LeaveHolding, HoldingFinite
  <2>2. Counted
    BY <1>2, <1>3, <1>7, <2>1, HoldingFinite DEF Quiet
  <2>3. QED
    BY <1>4, <1>7, <2>2 DEF Quiet
<1>8. ASSUME NEW i \in Instances, NEW k \in Keys, Leave(i), LogOne(k), index' = index
      PROVE  Counted /\ Distinct
  <2>1. \A m \in Keys : Cardinality(Holding(m)') <= Cardinality(Holding(m))
    BY <1>8, LeaveHolding, HoldingFinite
  <2>2. jobs' = jobs /\ \A m \in Keys : rows'[m] >= rows[m]
    BY <1>2, <1>8 DEF LogOne
  <2>3. Counted
    BY <1>2, <1>3, <2>1, <2>2, HoldingFinite
  <2>4. QED
    BY <1>5, <1>8, <2>3
<1>9. ASSUME NEW i \in Instances, Leave(i), JobOne(i), index' = index
      PROVE  Counted /\ Distinct
  <2>1. ASSUME NEW k \in Keys PROVE jobs'[k] + Cardinality(Holding(k)') <= rows'[k]
    <3>1. i \in Holding(k) <=> k = Head(cands[i])
      BY <1>9 DEF JobOne, Holding
    <3>2. jobs'[k] = IF k = Head(cands[i]) THEN jobs[k] + 1 ELSE jobs[k]
      BY <1>2, <1>9 DEF JobOne
    <3>3. rows' = rows
      BY <1>9 DEF JobOne
    <3>4. QED
      BY <1>2, <1>3, <1>9, <3>1, <3>2, <3>3, LeaveHolding, HoldingFinite
  <2>2. Distinct
    BY <1>4, <1>9 DEF JobOne
  <2>3. QED
    BY <2>1, <2>2
<1>10. ASSUME NEW i \in Instances, Enter(i), LogOne(Head(cands[i])), index' = index
       PROVE  Counted /\ Distinct
  <2>1. Head(cands[i]) \in Keys
    BY <1>1, <1>10, CandidateType DEF Enter
  <2>2. ASSUME NEW k \in Keys PROVE jobs'[k] + Cardinality(Holding(k)') <= rows'[k]
    <3>1. rows'[k] = IF k = Head(cands[i]) THEN rows[k] + 1 ELSE rows[k]
      BY <1>2, <1>10 DEF LogOne
    <3>2. jobs' = jobs
      BY <1>10 DEF LogOne
    <3>3. QED
      BY <1>1, <1>2, <1>3, <1>10, <3>1, <3>2, EnterHolding, HoldingFinite
  <2>3. QED
    BY <1>5, <1>10, <2>1, <2>2
<1>11. QED
  BY <1>1, <1>6, <1>7, <1>8, <1>9, <1>10, Zenon DEF StepShape

LEMMA LogAlways == Spec => []LogInv
BY LogInit, LogNext, PTL DEF Spec

\* Every send_alert job has an alerts_log row of its own: with any number of instances,
\* with or without the unique index, whatever crashes or fails (dispatcher.py:44-59).
THEOREM JobsHaveRows == Spec => []JobsAreLogged
<1>1. LogInv => JobsAreLogged
  BY HoldingFinite DEF LogInv, JobsAreLogged, PipelineInv, TypeOK
<1>2. QED
  BY <1>1, LogAlways, PTL

\* Once the unique index exists no alert is or gets delivered twice, although instances
\* dispatched without it before and may hold a row they have not enqueued yet: who holds
\* it counts against the one row the index allows (dispatcher.py:30-49, main.py:39).
THEOREM LateIndexDedups == Spec => []DedupOnceIndexed
<1>1. LogInv => DedupOnceIndexed
  <2> SUFFICES ASSUME LogInv, index, NEW k \in Keys PROVE jobs[k] <= 1
    BY DEF DedupOnceIndexed
  <2>1. jobs[k] + Cardinality(Holding(k)) <= rows[k] /\ rows[k] <= 1
    BY DEF LogInv, IndexedRowsDistinct
  <2>2. jobs[k] \in Nat /\ rows[k] \in Nat
    BY DEF LogInv, PipelineInv, TypeOK
  <2>3. QED
    BY <2>1, <2>2, HoldingFinite
<1>2. QED
  BY <1>1, LogAlways, PTL

-----------------------------------------------------------------------------
(* With the index in place from the start. *)

LEMMA IndexStays ==
  ASSUME IndexAtStart = TRUE
  PROVE  Spec => [](LogInv /\ index)
<1>1. Init => LogInv /\ index
  BY LogInit DEF Init
<1>2. LogInv /\ index /\ [Next]_vars => (LogInv /\ index)'
  <2> SUFFICES ASSUME LogInv, index, [Next]_vars PROVE LogInv' /\ index'
    OBVIOUS
  <2>1. StepShape
    BY NextHasShape DEF LogInv
  <2>2. index'
    BY <2>1, Zenon DEF StepShape
  <2>3. QED
    BY <2>2, LogNext
<1>3. QED
  BY <1>1, <1>2, PTL DEF Spec

\* The dedup promise: no alert is enqueued for delivery twice, however often its event is
\* re-evaluated, by however many instances (dispatcher.py:30, ARCHITECTURE.md:91).
THEOREM AlertsAreDeduplicated ==
  ASSUME IndexAtStart = TRUE
  PROVE  Spec => []AtMostOneJob
<1>1. index /\ DedupOnceIndexed => AtMostOneJob
  BY DEF DedupOnceIndexed, AtMostOneJob
<1>2. QED
  BY <1>1, IndexStays, LateIndexDedups, PTL

\* One step of the pipeline is a step of the promise or a stutter: it logs an alert nobody
\* has logged, or hands over one that is logged and was not handed over.
LEMMA StepKeepsPromise ==
  ASSUME LogInv, index, [Next]_vars
  PROVE  [Promise!Next]_<<rows, jobs>>
<1>1. StepShape
  BY NextHasShape DEF LogInv
<1>2. /\ rows \in [Keys -> Nat] /\ jobs \in [Keys -> Nat]
      /\ PipelineInv
  BY DEF LogInv, PipelineInv, TypeOK
<1>3. ASSUME NEW k \in Keys, LogOne(k) PROVE Promise!LogAlert(k)
  <2>1. rows[k] = 0
    BY <1>2, <1>3 DEF LogOne
  <2>2. rows' = [rows EXCEPT ![k] = 1] /\ jobs' = jobs
    BY <1>2, <1>3, <2>1 DEF LogOne
  <2>3. QED
    BY <2>1, <2>2 DEF Promise!LogAlert
<1>4. ASSUME NEW i \in Instances, JobOne(i)
      PROVE  Head(cands[i]) \in Keys /\ Promise!HandOver(Head(cands[i]))
  <2> DEFINE k == Head(cands[i])
  <2>1. k \in Keys
    BY <1>2, <1>4, CandidateType DEF JobOne
  <2>2. Cardinality(Holding(k)) # 0
    <3>1. i \in Holding(k)
      BY <1>4 DEF JobOne, Holding
    <3>2. QED
      BY <3>1, HoldingFinite, FS_EmptySet
  <2>3. jobs[k] + Cardinality(Holding(k)) <= rows[k] /\ rows[k] <= 1
    BY <2>1 DEF LogInv, IndexedRowsDistinct
  <2>4. rows[k] = 1 /\ jobs[k] = 0
    BY <1>2, <2>1, <2>2, <2>3, HoldingFinite
  <2>5. jobs' = [jobs EXCEPT ![k] = 1] /\ rows' = rows
    BY <1>2, <1>4, <2>4 DEF JobOne
  <2>6. QED
    BY <2>1, <2>4, <2>5 DEF Promise!HandOver
<1>5. CASE Quiet
  BY <1>5 DEF Quiet
<1>6. ASSUME NEW k \in Keys, LogOne(k) PROVE Promise!Next
  BY <1>3, <1>6 DEF Promise!Next
<1>7. ASSUME NEW i \in Instances, JobOne(i) PROVE Promise!Next
  BY <1>4, <1>7 DEF Promise!Next
<1>8. ASSUME NEW i \in Instances, Enter(i) PROVE Head(cands[i]) \in Keys
  BY <1>2, <1>8, CandidateType DEF Enter
<1>9. QED
  BY <1>1, <1>5, <1>6, <1>7, <1>8, Zenon DEF StepShape

\* The pipeline implements AlertLog.
THEOREM PipelineKeepsPromise ==
  ASSUME IndexAtStart = TRUE
  PROVE  Spec => PromiseKept
<1>1. Init => Promise!Init
  BY DEF Init, Promise!Init
<1>2. LogInv /\ index /\ [Next]_vars => [Promise!Next]_<<rows, jobs>>
  BY StepKeepsPromise
<1>3. QED
  BY <1>1, <1>2, IndexStays, PTL DEF Spec, PromiseKept, Promise!Spec
=============================================================================
