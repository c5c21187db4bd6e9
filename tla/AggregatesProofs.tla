-------------------------- MODULE AggregatesProofs --------------------------
(***************************************************************************)
(* A pass of either aggregate test is earned, for any number of retries    *)
(* and any of the defects.  The one step that is not bookkeeping is        *)
(* aggregatebundle's: it never compares the manifest with the commitment,  *)
(* but a commitment over two sources cannot omit one of a window of two.   *)
(***************************************************************************)
EXTENDS Aggregates, FiniteSetTheorems, TLAPS

\* A window's commitment and receipt never go beyond what it folded.
SoundWindows == {w \in Windows : w.commits \subseteq w.sources /\ w.receipt \subseteq w.sources}

PlaneInv ==
    /\ story \in Stories
    /\ pool \subseteq Readings
    /\ inbox \in [Sensors -> Seq(Readings)]
    /\ due \in Seq(Readings) /\ attempt \in 0..MaxAttempts
    /\ underway \in Seq(SoundWindows) /\ lines \in Seq(SoundWindows)
    /\ inspected \in Nat

Committed == {"recompute", "audit", "consumed"}
Bundled   == {"export", "stop", "verify"}

\* What each step of the test has established of its head.
TestInv ==
    /\ pc \in {"stimulate"} \cup Committed \cup Bundled
    /\ pc # "stimulate" => head \in SoundWindows /\ Accepts(head)
    /\ pc \in Committed => story = "sensoraggregate" /\ fault # "unverified"
    /\ pc \in {"audit", "consumed"} => head.commits = head.sources
    /\ pc = "consumed" => head \in audited
    /\ pc \in Bundled => story = "aggregatebundle"
    /\ pc \in {"stop", "verify"} => bundle = head.receipt
    /\ verdict = "pass" =>
          \/ pc = "consumed" /\ head.receipt = head.sources
          \/ pc = "verify" /\ ~serving /\ bundle = head.commits /\ Cardinality(bundle) = 2

-----------------------------------------------------------------------------
LEMMA PairIsReadings == \A n \in 0..MaxAttempts : publishPair(n) \in Seq(Readings)
BY DEF publishPair, Readings, Sensors

LEMMA FoldsAreSound ==
  ASSUME NEW S \in SUBSET Readings
  PROVE  Folds(S) \subseteq SoundWindows
BY DEF Folds, SoundWindows, Windows

LEMMA ReadingsFinite == IsFiniteSet(Readings)
<1>1. IsFiniteSet(0..MaxAttempts)
  BY FS_Interval, AttemptsAssumption
<1>2. IsFiniteSet(Sensors)
  <2>1. Sensors = ({} \cup {"a"}) \cup {"b"}
    BY DEF Sensors
  <2> QED  BY <2>1, FS_EmptySet, FS_AddElement
<1> QED  BY <1>1, <1>2, FS_Product DEF Readings

\* Two of two are all of them.
LEMMA TwoOfTwo ==
  ASSUME NEW w \in SoundWindows,
         Cardinality(w.sources) = 2, Cardinality(w.commits) = 2
  PROVE  w.commits = w.sources
<1>1. w.sources \in SUBSET Readings /\ w.commits \in SUBSET w.sources
  BY DEF SoundWindows, Windows
<1>2. IsFiniteSet(w.sources)
  BY <1>1, ReadingsFinite, FS_Subset
<1> QED  BY <1>1, <1>2, FS_Subset

LEMMA InvImpliesEarned == TestInv => PassIsEarned
<1> SUFFICES ASSUME TestInv, verdict = "pass" PROVE PassIsEarned
  BY DEF PassIsEarned
<1>1. CASE pc = "consumed" /\ head.receipt = head.sources
  BY <1>1 DEF TestInv, PassIsEarned, Accepts, Committed
<1>2. CASE pc = "verify" /\ ~serving /\ bundle = head.commits /\ Cardinality(bundle) = 2
  <2>1. /\ head \in SoundWindows /\ Cardinality(head.sources) = 2
        /\ story = "aggregatebundle" /\ bundle = head.receipt
    BY <1>2 DEF TestInv, Accepts, Bundled
  <2>2. head.commits = head.sources
    BY <1>2, <2>1, TwoOfTwo
  <2> QED  BY <1>2, <2>1, <2>2 DEF PassIsEarned
<1> QED  BY <1>1, <1>2 DEF TestInv

-----------------------------------------------------------------------------
LEMMA InitInv == Init => PlaneInv /\ TestInv
<1> SUFFICES ASSUME Init PROVE PlaneInv /\ TestInv
  OBVIOUS
<1>1. due \in Seq(Readings) /\ 0 \in 0..MaxAttempts
  BY PairIsReadings, AttemptsAssumption DEF Init
<1> QED  BY <1>1 DEF Init, PlaneInv, TestInv, Committed, Bundled

LEMMA ProductPlane == PlaneInv /\ Product => PlaneInv'
<1> SUFFICES ASSUME PlaneInv, Product PROVE PlaneInv'
  OBVIOUS
<1> USE DEF PlaneInv, Product, testVars, choiceVars
<1>1. CASE \E l \in {"rollup", "archive"} : Subscribe(l)
  BY <1>1 DEF Subscribe
<1>2. ASSUME NEW s \in Sensors, Source(s)
      PROVE  PlaneInv'
  <2>1. Head(inbox[s]) \in Readings /\ Tail(inbox[s]) \in Seq(Readings)
    BY <1>2 DEF Source
  <2> QED  BY <1>2, <2>1 DEF Source
<1>3. CASE Tick
  <2>1. PICK w \in Folds(pool) :
           underway' = IF "archive" \in subscribed THEN Append(underway, w) ELSE underway
    BY <1>3 DEF Tick
  <2>2. w \in SoundWindows
    BY <2>1, FoldsAreSound
  <2> QED  BY <1>3, <2>1, <2>2 DEF Tick
<1>4. CASE Archive
  <2>1. Head(underway) \in SoundWindows /\ Tail(underway) \in Seq(SoundWindows)
    BY <1>4 DEF Archive
  <2> QED  BY <1>4, <2>1 DEF Archive
<1>5. CASE Audit
  BY <1>5 DEF Audit
<1> QED  BY <1>1, <1>2, <1>3, <1>4, <1>5 DEF ProductStep

\* While the test runs, the product can only add a verdict to what it relies on.
LEMMA ProductTest == TestInv /\ Product => TestInv'
<1> SUFFICES ASSUME TestInv, Product PROVE TestInv'
  OBVIOUS
<1>1. /\ UNCHANGED <<choiceVars, testVars>> /\ verdict = "running"
      /\ audited \subseteq audited'
  BY DEF Product, ProductStep, Subscribe, Source, Tick, Archive, Audit
<1> QED  BY <1>1 DEF TestInv, Accepts, testVars, choiceVars

LEMMA TestPlane == PlaneInv /\ Test => PlaneInv'
<1> SUFFICES ASSUME PlaneInv, Test PROVE PlaneInv'
  OBVIOUS
<1> USE DEF PlaneInv, choiceVars
<1>1. CASE Publish
  <2>1. Head(due) \in Readings /\ Tail(due) \in Seq(Readings)
    BY <1>1 DEF Publish
  <2>2. Head(due)[1] \in Sensors
    BY <2>1 DEF Readings
  <2> QED  BY <1>1, <2>1, <2>2 DEF Publish
<1>2. CASE Inspect
  BY <1>2 DEF Inspect, LookAt, productVars
<1>3. CASE Restimulate
  <2>1. attempt' \in 0..MaxAttempts
    BY <1>3, AttemptsAssumption DEF Restimulate
  <2> QED  BY <1>3, <2>1, PairIsReadings DEF Restimulate, productVars
<1>4. CASE StopNode
  BY <1>4 DEF StopNode
<1>5. CASE TimeOut \/ Recompute \/ AwaitAudit \/ CompareConsumed \/ Export \/ VerifyOffline
  BY <1>5 DEF TimeOut, Recompute, AwaitAudit, CompareConsumed, Export, VerifyOffline, productVars
<1> QED  BY <1>1, <1>2, <1>3, <1>4, <1>5 DEF Test

LEMMA TestTest == PlaneInv /\ TestInv /\ Test => TestInv'
<1> SUFFICES ASSUME PlaneInv, TestInv, Test PROVE TestInv'
  OBVIOUS
<1> USE DEF TestInv, At, GoTo, End, Check, Committed, Bundled, choiceVars, productVars
<1>1. CASE Publish \/ Restimulate \/ TimeOut
  BY <1>1 DEF Publish, Restimulate, TimeOut, Accepts
<1>2. CASE Inspect
  <2>1. lines[inspected + 1] \in SoundWindows
    BY <1>2 DEF Inspect, PlaneInv
  <2>2. pc = "stimulate" /\ verdict = "running" /\ UNCHANGED <<story, fault, serving, audited, bundle>>
    BY <1>2 DEF Inspect, LookAt
  <2>3. CASE Accepts(lines[inspected + 1]) /\ ~(story = "sensoraggregate" /\ fault = "unverified")
    <3>1. /\ head' = lines[inspected + 1] /\ verdict' = "running"
          /\ pc' = IF story = "sensoraggregate" THEN "recompute" ELSE "export"
      BY <1>2, <2>2, <2>3 DEF Inspect, LookAt
    <3>2. head' \in SoundWindows /\ Accepts(head)'
      BY <2>1, <2>2, <2>3, <3>1 DEF Accepts
    <3>3. story \in Stories
      BY DEF PlaneInv
    <3> QED  BY <2>2, <2>3, <3>1, <3>2, <3>3 DEF Stories
  <2>4. CASE ~Accepts(lines[inspected + 1]) \/ (story = "sensoraggregate" /\ fault = "unverified")
    <3>1. pc' = "stimulate" /\ verdict' # "pass"
      BY <1>2, <2>2, <2>4 DEF Inspect, LookAt
    <3> QED  BY <2>2, <3>1
  <2> QED  BY <2>3, <2>4
<1>3. CASE Recompute
  BY <1>3 DEF Recompute, Accepts
<1>4. CASE AwaitAudit
  BY <1>4 DEF AwaitAudit, Accepts
<1>5. CASE CompareConsumed
  BY <1>5 DEF CompareConsumed, Accepts
<1>6. CASE Export
  BY <1>6 DEF Export, Accepts
<1>7. CASE StopNode
  BY <1>7 DEF StopNode, Accepts
<1>8. CASE VerifyOffline
  BY <1>8 DEF VerifyOffline, Accepts
<1> QED  BY <1>1, <1>2, <1>3, <1>4, <1>5, <1>6, <1>7, <1>8 DEF Test

LEMMA InvStep == PlaneInv /\ TestInv /\ [Next]_vars => (PlaneInv /\ TestInv)'
<1> SUFFICES ASSUME PlaneInv, TestInv, [Next]_vars PROVE (PlaneInv /\ TestInv)'
  OBVIOUS
<1>1. CASE UNCHANGED vars
  BY <1>1 DEF vars, choiceVars, productVars, testVars, PlaneInv, TestInv, Accepts
<1> QED
  BY <1>1, ProductPlane, ProductTest, TestPlane, TestTest DEF Next, Ended

\* However the windows fall over any number of retries, and whatever the defect:
\* a pass of sensoraggregate says one window folded one reading of each sensor,
\* and a pass of either that its commitment and its receipt are exact.
THEOREM PassesAreEarned == Spec => []PassIsEarned
<1>1. Spec => [](PlaneInv /\ TestInv)
  BY InitInv, InvStep, PTL DEF Spec
<1> QED  BY <1>1, InvImpliesEarned, PTL

-----------------------------------------------------------------------------
\* A healthy product folds exactly what it names, and the test has refused every
\* line it has looked at.
ExactWindows == {w \in SoundWindows : w.commits = w.sources /\ w.receipt = w.sources}

HealthyInv ==
    fault = "none" =>
       /\ underway \in Seq(ExactWindows) /\ lines \in Seq(ExactWindows)
       /\ pc # "stimulate" => head \in ExactWindows
       /\ pc = "verify" => ~serving
       /\ inspected <= Len(lines)
       /\ pc = "stimulate" => \A i \in 1..inspected : ~Accepts(lines[i])
       /\ \/ verdict \in {"running", "pass"}
          \/ verdict = "stimulate" /\ pc = "stimulate" /\ inspected = Len(lines)

LEMMA HealthyFolds ==
  ASSUME NEW S \in SUBSET Readings, fault = "none"
  PROVE  Folds(S) \subseteq ExactWindows
BY DEF Folds, ExactWindows, SoundWindows, Windows

LEMMA HealthyInit == Init => HealthyInv
BY DEF Init, HealthyInv

LEMMA HealthyProduct == PlaneInv /\ HealthyInv /\ Product => HealthyInv'
<1> SUFFICES ASSUME PlaneInv, HealthyInv, Product, fault' = "none" PROVE HealthyInv'
  BY DEF HealthyInv
<1>1. /\ fault = "none" /\ verdict = "running"
      /\ UNCHANGED <<story, fault, serving, pc, verdict, inspected, head>>
  BY DEF Product, ProductStep, Subscribe, Source, Tick, Archive, Audit, choiceVars, testVars
<1>2. underway' \in Seq(ExactWindows) /\ lines' \in Seq(ExactWindows)
  <2>1. CASE Tick
    <3>1. PICK w \in Folds(pool) :
             underway' = IF "archive" \in subscribed THEN Append(underway, w) ELSE underway
      BY <2>1 DEF Tick
    <3>2. w \in ExactWindows
      BY <1>1, <3>1, HealthyFolds DEF PlaneInv
    <3> QED  BY <1>1, <2>1, <3>1, <3>2 DEF Tick, HealthyInv
  <2>2. CASE Archive
    <3>1. Head(underway) \in ExactWindows /\ Tail(underway) \in Seq(ExactWindows)
      BY <1>1, <2>2 DEF Archive, HealthyInv
    <3> QED  BY <1>1, <2>2, <3>1 DEF Archive, HealthyInv
  <2>3. CASE UNCHANGED <<underway, lines>>
    BY <1>1, <2>3 DEF HealthyInv
  <2> QED  BY <2>1, <2>2, <2>3 DEF Product, ProductStep, Subscribe, Source, Audit
<1>3. Len(lines') >= Len(lines) /\ \A i \in 1..Len(lines) : lines'[i] = lines[i]
  <2>1. CASE UNCHANGED lines
    BY <2>1 DEF PlaneInv
  <2>2. CASE Archive
    <3>1. lines' = Append(lines, Head(underway)) /\ lines \in Seq(SoundWindows)
      BY <2>2 DEF Archive, PlaneInv
    <3>2. Head(underway) \in SoundWindows
      BY <2>2 DEF Archive, PlaneInv
    <3> QED  BY <3>1, <3>2
  <2> QED  BY <2>1, <2>2 DEF Product, ProductStep, Subscribe, Source, Tick, Audit
<1>4. inspected \in Nat /\ Len(lines) \in Nat /\ Len(lines') \in Nat
  BY <1>1, <1>2 DEF PlaneInv
<1> QED  BY <1>1, <1>2, <1>3, <1>4 DEF HealthyInv, Accepts

LEMMA HealthyTest == PlaneInv /\ TestInv /\ HealthyInv /\ Test => HealthyInv'
<1> SUFFICES ASSUME PlaneInv, TestInv, HealthyInv, Test, fault' = "none" PROVE HealthyInv'
  BY DEF HealthyInv
<1>0. fault = "none" /\ UNCHANGED <<story, fault, lines>>
  BY DEF Test, Publish, Inspect, LookAt, Restimulate, TimeOut, Recompute, AwaitAudit, CompareConsumed,
     Export, StopNode, VerifyOffline, choiceVars, productVars
<1> USE <1>0 DEF HealthyInv, At, GoTo, End, Check, productVars
<1>1. CASE Publish \/ Restimulate \/ TimeOut
  BY <1>1 DEF Publish, Restimulate, TimeOut, Accepts
<1>2. CASE Inspect
  <2>1. /\ pc = "stimulate" /\ verdict = "running" /\ inspected' = inspected + 1
        /\ inspected \in Nat /\ inspected + 1 <= Len(lines) /\ Len(lines) \in Nat
        /\ UNCHANGED <<serving, underway>>
    BY <1>2 DEF Inspect, LookAt, PlaneInv
  <2>2. CASE Accepts(lines[inspected + 1])
    <3>1. /\ head' = lines[inspected + 1] /\ verdict' = "running"
          /\ pc' \in {"recompute", "export"}
      BY <1>2, <2>1, <2>2 DEF Inspect, LookAt
    <3>2. head' \in ExactWindows
      BY <2>1, <3>1
    <3> QED  BY <2>1, <3>1, <3>2
  <2>3. CASE ~Accepts(lines[inspected + 1])
    <3>1. pc' = "stimulate" /\ verdict' = "running"
      BY <1>2, <2>1, <2>3 DEF Inspect, LookAt
    <3>2. \A i \in 1..inspected + 1 : ~Accepts(lines[i])'
      BY <2>1, <2>3 DEF Accepts
    <3> QED  BY <2>1, <3>1, <3>2
  <2> QED  BY <2>2, <2>3
<1>3. CASE Recompute
  BY <1>3 DEF Recompute, ExactWindows
<1>4. CASE AwaitAudit
  BY <1>4 DEF AwaitAudit, Auditable, ExactWindows
<1>5. CASE CompareConsumed
  BY <1>5 DEF CompareConsumed, ExactWindows
<1>6. CASE Export
  BY <1>6 DEF Export
<1>7. CASE StopNode
  BY <1>7 DEF StopNode
<1>8. CASE VerifyOffline
  <2>1. bundle = head.commits /\ Cardinality(bundle) = 2 /\ ~serving
    BY <1>8 DEF VerifyOffline, TestInv, ExactWindows, Accepts, Bundled
  <2> QED  BY <1>8, <2>1 DEF VerifyOffline
<1> QED  BY <1>1, <1>2, <1>3, <1>4, <1>5, <1>6, <1>7, <1>8 DEF Test

LEMMA HealthyStep == PlaneInv /\ TestInv /\ HealthyInv /\ [Next]_vars => HealthyInv'
<1> SUFFICES ASSUME PlaneInv, TestInv, HealthyInv, [Next]_vars PROVE HealthyInv'
  OBVIOUS
<1>1. CASE UNCHANGED vars
  BY <1>1 DEF vars, choiceVars, productVars, testVars, HealthyInv, Accepts
<1> QED
  BY <1>1, HealthyProduct, HealthyTest DEF Next, Ended

\* For any number of retries, a healthy product fails neither test unless no window
\* that reached the archive would have suited it.
THEOREM NoAlarmIsFalse == Spec => []NoFalseAlarm
<1>1. HealthyInv /\ PlaneInv => NoFalseAlarm
  BY DEF HealthyInv, PlaneInv, NoFalseAlarm
<1>2. Spec => [](PlaneInv /\ TestInv /\ HealthyInv)
  BY InitInv, InvStep, HealthyInit, HealthyStep, PTL DEF Spec
<1> QED  BY <1>1, <1>2, PTL
=============================================================================
