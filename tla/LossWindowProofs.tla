-------------------------- MODULE LossWindowProofs --------------------------
(***************************************************************************)
(* The losswindow test and the system it drives, for any script: a step of *)
(* the test is a step of EmissionLog or leaves the system alone, so that   *)
(* whatever is proved of the system holds under every test of it.          *)
(***************************************************************************)
EXTENDS LossWindow, EmissionLogProofs

LEMMA SameSets ==
    /\ System!Planes = Planes /\ System!Pipelines = Pipelines /\ System!Networks = Networks
    /\ System!NoRecord = NoRecord
BY DEF Planes, Pipelines, Networks, NoRecord, System!Planes, System!Pipelines, System!Networks,
       System!NoRecord

LEMMA SystemInitially == SystemInit => System!SystemInit
BY SameSets DEF SystemInit, System!SystemInit

-----------------------------------------------------------------------------
(***************************************************************************)
(* The operations and the product's actions, one by one.                   *)
(***************************************************************************)
LEMMA SameOperations ==
    /\ \A n : PublishStimulus(n) => System!PublishStimulus(n)
    /\ \A p : StopPlane(p) => System!StopPlane(p)
    /\ \A p : StartPlane(p) => System!StartPlane(p)
<1> USE DEF planeVars, emitVars, logVars, sinkVars, choiceVars, historyVars, System!planeVars,
            System!emitVars, System!logVars, System!sinkVars, System!choiceVars, System!historyVars
<1>1. ASSUME NEW n, PublishStimulus(n) PROVE System!PublishStimulus(n)
  BY <1>1 DEF PublishStimulus, System!PublishStimulus
<1>2. ASSUME NEW p, StopPlane(p) PROVE System!StopPlane(p)
  BY <1>2 DEF StopPlane, System!StopPlane, Alive, System!Alive
<1>3. ASSUME NEW p, StartPlane(p) PROVE System!StartPlane(p)
  BY <1>3 DEF StartPlane, System!StartPlane, Alive, System!Alive, SeedFrom, System!SeedFrom
<1> QED  BY <1>1, <1>2, <1>3

LEMMA SameProcesses ==
    /\ \A p : Subscribe(p) => System!Subscribe(p)
    /\ \A p : BecomeReady(p) => System!BecomeReady(p)
    /\ \A p : Exit(p) => System!Exit(p)
    /\ \A p : Kill(p) => System!Kill(p)
<1> USE DEF planeVars, emitVars, logVars, sinkVars, choiceVars, historyVars, System!planeVars,
            System!emitVars, System!logVars, System!sinkVars, System!choiceVars, System!historyVars
<1>1. ASSUME NEW p, Subscribe(p) PROVE System!Subscribe(p)
  BY <1>1 DEF Subscribe, System!Subscribe
<1>2. ASSUME NEW p, BecomeReady(p) PROVE System!BecomeReady(p)
  BY <1>2, SameSets DEF BecomeReady, System!BecomeReady, NetworkOf, System!NetworkOf
<1>3. ASSUME NEW p, Gone(p) PROVE System!Gone(p)
  BY <1>3, SameSets DEF Gone, System!Gone, GoneProducer, System!GoneProducer, GoneConsumer,
     System!GoneConsumer, GoneNetwork, System!GoneNetwork, Queued, System!Queued
<1>4. ASSUME NEW p, Exit(p) PROVE System!Exit(p)
  BY <1>3, <1>4 DEF Exit, System!Exit
<1>5. ASSUME NEW p, Kill(p) PROVE System!Kill(p)
  BY <1>3, <1>5 DEF Kill, System!Kill
<1> QED  BY <1>1, <1>2, <1>4, <1>5

LEMMA SameEmission ==
    /\ Mint => System!Mint
    /\ AppendRecord => System!AppendRecord
    /\ PublishOutput => System!PublishOutput
    /\ Ship => System!Ship
    /\ Consume => System!Consume
BY DEF planeVars, emitVars, logVars, sinkVars, choiceVars, historyVars, System!planeVars,
       System!emitVars, System!logVars, System!sinkVars, System!choiceVars, System!historyVars,
       Mint, System!Mint, AppendRecord, System!AppendRecord, PublishOutput, System!PublishOutput,
       Ship, System!Ship, Consume, System!Consume, Alive, System!Alive

LEMMA SameDefects ==
    /\ SkipRecord => System!SkipRecord
    /\ LoseOutput => System!LoseOutput
    /\ \A r : Redeliver(r) => System!Redeliver(r)
BY DEF planeVars, emitVars, logVars, sinkVars, choiceVars, historyVars, System!planeVars,
       System!emitVars, System!logVars, System!sinkVars, System!choiceVars, System!historyVars,
       SkipRecord, System!SkipRecord, LoseOutput, System!LoseOutput, Redeliver, System!Redeliver

LEMMA SameNext == SystemNext => System!SystemNext
<1>1. Harness => System!Harness
  BY SameSets, SameOperations DEF Harness, System!Harness
<1>2. Product => System!Product
  BY SameSets, SameProcesses, SameEmission, SameDefects DEF Product, System!Product
<1> QED  BY <1>1, <1>2 DEF SystemNext, System!SystemNext

-----------------------------------------------------------------------------
(***************************************************************************)
(* The test.  Its arguments are stimuli and planes, as ScriptAssumption    *)
(* says, and everything but its three operations only looks.               *)
(***************************************************************************)
LEMMA TestSteps == [Next]_vars => [SystemNext]_systemVars
<1> SUFFICES ASSUME [Next]_vars PROVE SystemNext \/ UNCHANGED systemVars
  OBVIOUS
<1>1. CASE Publish
  <2>1. Step.arg \in Readings
    BY <1>1, ScriptAssumption DEF Publish, At, Step, Publishes
  <2> QED  BY <1>1, <2>1 DEF Publish, SystemNext, Harness
<1>2. CASE Stop
  <2>1. Step.arg \in Planes
    BY <1>2, ScriptAssumption DEF Stop, At, Step
  <2> QED  BY <1>2, <2>1 DEF Stop, SystemNext, Harness
<1>3. CASE Start
  <2>1. Step.arg \in Planes
    BY <1>3, ScriptAssumption DEF Start, At, Step
  <2> QED  BY <1>3, <2>1 DEF Start, SystemNext, Harness
<1>4. CASE Wait \/ Expire
  BY <1>4 DEF Wait, Expire
<1>5. CASE Snapshot \/ TakeCheckpoint \/ Redial
  BY <1>5 DEF Snapshot, TakeCheckpoint, Redial
<1>6. CASE CompareCheckpoint \/ ListRecords \/ ReconcileRecords
  BY <1>6 DEF CompareCheckpoint, ListRecords, ReconcileRecords
<1>7. CASE Running(Product)
  BY <1>7 DEF Running, SystemNext
<1>8. CASE Ended \/ UNCHANGED vars
  BY <1>8 DEF Ended, vars
<1> QED  BY <1>1, <1>2, <1>3, <1>4, <1>5, <1>6, <1>7, <1>8 DEF Next, Test

LEMMA TestInitially == Init => SystemInit
BY DEF Init

LEMMA TestIsASystem == Spec => SystemSpec
BY TestInitially, TestSteps, PTL DEF Spec, SystemSpec

\* Every test is a behaviour of the system EmissionLog describes: it starts where
\* the system starts, no assertion or wait of it moves the system, and what it does
\* to it are the harness's operations.
THEOREM EveryTestDrivesTheSystem == Spec => DrivesTheSystem
<1>1. UNCHANGED systemVars => UNCHANGED System!systemVars
  BY DEF systemVars, System!systemVars, planeVars, emitVars, logVars, sinkVars, choiceVars,
     historyVars, System!planeVars, System!emitVars, System!logVars, System!sinkVars,
     System!choiceVars, System!historyVars
<1>2. [SystemNext]_systemVars => [System!SystemNext]_(System!systemVars)
  BY <1>1, SameNext
<1> QED
  BY TestIsASystem, SystemInitially, <1>2, PTL DEF SystemSpec, DrivesTheSystem, System!SystemSpec

-----------------------------------------------------------------------------
(***************************************************************************)
(* What the system guarantees reaches the test, and with it what the test  *)
(* looks at: the two logs it keeps copies of and the sink's output.        *)
(***************************************************************************)
\* Under any test the served log is the producer's up to some record, numbers
\* without a gap or a fork unless the product forks or leaves records out, and each
\* hash view of a reconciliation names one cause.
THEOREM TestSeesASystem == Spec => [](MirrorIsPrefix /\ Continuity /\ ViewsNameTheCause)
BY TestIsASystem, ServedIsPrefix, LogIsContinuous, EachViewNamesItsCause, PTL

IsPartOfLog(l) == l \in Seq(Record) /\ Len(l) <= Len(log) /\ \A i \in 1..Len(l) : l[i] = log[i]

\* What the test holds in its hands is the product's: a copy of the log is the
\* durable log as it was, a line it saw was written by the sink.
EvidenceIsGenuine ==
    /\ IsPartOfLog(checkpoint) /\ IsPartOfLog(records)
    /\ Delivered \subseteq arrived

EvidenceInv == EvidenceIsGenuine /\ sink \subseteq arrived

\* The log only grows, and nothing comes onto the sink's stream but what it wrote.
LEMMA OnlyGrows ==
  ASSUME TypeInv, [SystemNext]_systemVars
  PROVE  /\ log' = log \/ \E e \in Record : log' = Append(log, e)
         /\ arrived \subseteq arrived'
         /\ sink \subseteq arrived => sink' \subseteq arrived'
<1>1. CASE AppendRecord
  <2>1. current \in Record /\ log' = Append(log, current) /\ UNCHANGED sinkVars
    BY <1>1 DEF AppendRecord, TypeInv
  <2> QED  BY <2>1 DEF sinkVars
<1>2. CASE Consume
  BY <1>2 DEF Consume, logVars
<1>3. ASSUME NEW p \in Planes, StartPlane(p)
      PROVE  log' = log /\ arrived' = arrived /\ sink' \subseteq sink
  BY <1>3 DEF StartPlane, logVars
<1>4. ASSUME ~AppendRecord, ~Consume, ~\E p \in Planes : StartPlane(p)
      PROVE  log' = log /\ arrived' = arrived /\ sink' = sink
  BY <1>4 DEF SystemNext, Harness, Product, PublishStimulus, StopPlane, Subscribe, BecomeReady, Exit,
     Kill, Gone, Mint, PublishOutput, Ship, SkipRecord, LoseOutput, Redeliver, systemVars,
     logVars, sinkVars
<1> QED  BY <1>1, <1>2, <1>3, <1>4

LEMMA PartStays ==
  ASSUME TypeInv, [SystemNext]_systemVars, NEW l, IsPartOfLog(l)
  PROVE  l \in Seq(Record) /\ Len(l) <= Len(log') /\ \A i \in 1..Len(l) : l[i] = log'[i]
<1>1. /\ log \in Seq(Record) /\ l \in Seq(Record) /\ Len(l) <= Len(log)
      /\ \A i \in 1..Len(l) : l[i] = log[i]
  BY DEF IsPartOfLog, TypeInv, SystemTypeOK
<1>2. CASE log' = log
  BY <1>1, <1>2
<1>3. ASSUME NEW e \in Record, log' = Append(log, e)
      PROVE  Len(l) <= Len(log') /\ \A i \in 1..Len(l) : l[i] = log'[i]
  <2>1. Len(log') = Len(log) + 1 /\ \A i \in 1..Len(log) : log'[i] = log[i]
    BY <1>1, <1>3
  <2> QED  BY <1>1, <2>1
<1> QED  BY <1>1, <1>2, <1>3, OnlyGrows

LEMMA EvidenceNext ==
  TypeInv /\ MirrorIsPrefix /\ EvidenceInv /\ [Next]_vars => EvidenceInv'
<1> SUFFICES ASSUME TypeInv, MirrorIsPrefix, EvidenceInv, [Next]_vars
             PROVE  EvidenceInv'
  OBVIOUS
<1>1. [SystemNext]_systemVars
  BY TestSteps
<1>2. IsPartOfLog(mirror)
  BY DEF IsPartOfLog, MirrorIsPrefix, TypeInv, SystemTypeOK
<1>3. /\ checkpoint' \in {checkpoint, mirror}
      /\ records' \in {records, mirror}
      /\ preStop' \in {preStop, sink}
  <2>1. CASE Publish \/ Stop \/ Start \/ Wait \/ Expire
    BY <2>1 DEF Publish, Stop, Start, Wait, Expire
  <2>2. CASE Snapshot \/ TakeCheckpoint \/ Redial \/ CompareCheckpoint \/ ListRecords
    BY <2>2 DEF Snapshot, TakeCheckpoint, Redial, CompareCheckpoint, ListRecords
  <2>3. CASE ReconcileRecords
    BY <2>3 DEF ReconcileRecords
  <2>4. CASE Running(Product) \/ Ended \/ UNCHANGED vars
    BY <2>4 DEF Running, Ended, vars, testVars
  <2> QED  BY <2>1, <2>2, <2>3, <2>4 DEF Next, Test
<1>4. IsPartOfLog(checkpoint) /\ IsPartOfLog(records) /\ preStop \subseteq arrived
      /\ sink \subseteq arrived
  BY DEF EvidenceInv, EvidenceIsGenuine, Delivered
<1>5. \A l \in {checkpoint, records, mirror} :
         l \in Seq(Record) /\ Len(l) <= Len(log') /\ \A i \in 1..Len(l) : l[i] = log'[i]
  BY <1>1, <1>2, <1>4, PartStays
<1>6. IsPartOfLog(checkpoint)' /\ IsPartOfLog(records)'
  BY <1>3, <1>5 DEF IsPartOfLog
<1>7. arrived \subseteq arrived' /\ sink' \subseteq arrived'
  BY <1>1, <1>4, OnlyGrows
<1>8. preStop' \subseteq arrived'
  BY <1>3, <1>4, <1>7
<1> QED  BY <1>6, <1>7, <1>8 DEF EvidenceInv, EvidenceIsGenuine, Delivered

\* Under any script and any defect, whatever a wait or an assertion of the test reads
\* is true of the product: no verdict rests on a record that is not in the durable
\* log or on a line the sink did not write.
THEOREM TheEvidenceIsGenuine == Spec => []EvidenceIsGenuine
<1>1. Init => EvidenceInv
  BY DEF Init, SystemInit, EvidenceInv, EvidenceIsGenuine, IsPartOfLog, Delivered
<1>2. EvidenceInv => EvidenceIsGenuine
  BY DEF EvidenceInv
<1> QED
  BY <1>1, <1>2, EvidenceNext, TestIsASystem, TypeAlways, ServedIsPrefix, PTL DEF Spec
=============================================================================
