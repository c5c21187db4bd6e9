-------------------------- MODULE EmissionLogProofs --------------------------
(***************************************************************************)
(* What EmissionLog's runs check on two readings, proved for any set of    *)
(* them: the type invariant, and the three safety invariants with the      *)
(* strengthenings that make them inductive.                                *)
(***************************************************************************)
EXTENDS EmissionLog, TLAPS

-----------------------------------------------------------------------------
(***************************************************************************)
(* Lemmas about the queues and the log.                                    *)
(***************************************************************************)
Distinct(q) == \A i, j \in 1..Len(q) : q[i] = q[j] => i = j

\* Appending to a queue adds one element to what is queued.
LEMMA QueuedAppend ==
  ASSUME NEW S, NEW q \in Seq(S), NEW e \in S
  PROVE  Queued(Append(q, e)) = Queued(q) \cup {e}
<1>1. DOMAIN q = 1..Len(q) /\ DOMAIN Append(q, e) = 1..(Len(q) + 1)
  OBVIOUS
<1>2. \A i \in 1..Len(q) : Append(q, e)[i] = q[i]
  OBVIOUS
<1>3. Append(q, e)[Len(q) + 1] = e
  OBVIOUS
<1>4. 1..(Len(q) + 1) = 1..Len(q) \cup {Len(q) + 1}
  OBVIOUS
<1> QED  BY <1>1, <1>2, <1>3, <1>4 DEF Queued

\* Appending what is not yet queued keeps a queue without duplicates.
LEMMA DistinctAppend ==
  ASSUME NEW S, NEW q \in Seq(S), NEW e \in S, Distinct(q), e \notin Queued(q)
  PROVE  Distinct(Append(q, e))
BY DEF Distinct, Queued

\* Taking the head of a queue without duplicates removes that element only.
LEMMA QueuedTail ==
  ASSUME NEW S, NEW q \in Seq(S), q # <<>>, Distinct(q)
  PROVE  /\ Head(q) \in Queued(q)
         /\ Queued(Tail(q)) = Queued(q) \ {Head(q)}
         /\ Distinct(Tail(q))
<1>1. /\ Len(q) \in Nat \ {0} /\ Head(q) = q[1] /\ DOMAIN q = 1..Len(q)
      /\ DOMAIN Tail(q) = 1..(Len(q) - 1)
      /\ Len(Tail(q)) = Len(q) - 1
  OBVIOUS
<1>2. \A i \in 1..(Len(q) - 1) : Tail(q)[i] = q[i + 1]
  OBVIOUS
<1>3. Head(q) \in Queued(q)
  BY <1>1 DEF Queued
<1>4. ASSUME NEW x \in Queued(Tail(q))
      PROVE  x \in Queued(q) \ {Head(q)}
  <2>1. PICK i \in 1..(Len(q) - 1) : x = q[i + 1]
    BY <1>1, <1>2, <1>4 DEF Queued
  <2> QED  BY <2>1, <1>1 DEF Queued, Distinct
<1>5. ASSUME NEW x \in Queued(q) \ {Head(q)}
      PROVE  x \in Queued(Tail(q))
  <2>1. PICK i \in 1..Len(q) : x = q[i]
    BY <1>1, <1>5 DEF Queued
  <2>2. i - 1 \in 1..(Len(q) - 1) /\ x = q[(i - 1) + 1]
    BY <2>1, <1>1, <1>5
  <2> QED  BY <2>2, <1>1, <1>2 DEF Queued
<1>6. Distinct(Tail(q))
  BY <1>1, <1>2 DEF Distinct
<1> QED  BY <1>3, <1>4, <1>5, <1>6

\* A record appended to the log adds its hash to those the log names.
LEMMA HashesInAppend ==
  ASSUME NEW l \in Seq(Record), NEW e \in Record
  PROVE  HashesIn(Append(l, e)) = HashesIn(l) \cup {e.hash}
<1>1. DOMAIN l = 1..Len(l) /\ DOMAIN Append(l, e) = 1..(Len(l) + 1)
  OBVIOUS
<1>2. \A i \in 1..Len(l) : Append(l, e)[i] = l[i]
  OBVIOUS
<1>3. Append(l, e)[Len(l) + 1] = e
  OBVIOUS
<1>4. 1..(Len(l) + 1) = 1..Len(l) \cup {Len(l) + 1}
  OBVIOUS
<1> QED  BY <1>1, <1>2, <1>3, <1>4 DEF HashesIn

\* A stored or seeded sequence number is a positive number.
LEMMA SeedFromType ==
  ASSUME NEW l \in Seq(Record)
  PROVE  SeedFrom(l) \in Nat \ {0}
<1>1. CASE l = <<>>
  BY <1>1 DEF SeedFrom
<1>2. CASE l # <<>>
  <2>1. l[Len(l)] \in Record
    BY <1>2
  <2> QED  BY <2>1, <1>2 DEF SeedFrom, Record
<1> QED  BY <1>1, <1>2

-----------------------------------------------------------------------------
(***************************************************************************)
(* The type invariant.                                                     *)
(***************************************************************************)
\* An effect still to come belongs to a minted record.
TypeInv == SystemTypeOK /\ (todo # {} => current \in Record)

LEMMA TypeInit == SystemInit => TypeInv
BY RuntimesAssumption, FaultsAssumption
   DEF SystemInit, TypeInv, SystemTypeOK, Runtimes, Phases, Planes, Networks, Pipelines, Record

LEMMA TypeNext == TypeInv /\ [SystemNext]_systemVars => TypeInv'
<1> SUFFICES ASSUME TypeInv, [SystemNext]_systemVars
             PROVE  TypeInv'
  OBVIOUS
<1> USE DEF TypeInv, SystemTypeOK, planeVars, emitVars, logVars, sinkVars, choiceVars,
            historyVars
<1>1. ASSUME NEW n \in Readings, PublishStimulus(n) PROVE TypeInv'
  BY <1>1 DEF PublishStimulus
<1>2. ASSUME NEW p \in Planes, StopPlane(p) PROVE TypeInv'
  BY <1>2 DEF StopPlane, Phases
<1>3. ASSUME NEW p \in Planes, StartPlane(p) PROVE TypeInv'
  BY <1>3, SeedFromType DEF StartPlane, Phases
<1>4. ASSUME NEW p \in Pipelines, Subscribe(p) PROVE TypeInv'
  BY <1>4 DEF Subscribe
<1>5. ASSUME NEW p \in Planes, BecomeReady(p) PROVE TypeInv'
  BY <1>5 DEF BecomeReady, Phases
<1>6. ASSUME NEW p \in Planes, Gone(p) PROVE TypeInv'
  <2>1. /\ plane' \in [Planes -> Phases] /\ subscribed' \subseteq Pipelines
        /\ UNCHANGED <<published, current, nextSeq, logVars, sink, arrived, choiceVars>>
    BY <1>6 DEF Gone, Phases
  <2>2. CASE GoneProducer
    BY <2>1, <2>2 DEF GoneProducer, Record
  <2>3. CASE GoneConsumer
    BY <2>1, <2>3 DEF GoneConsumer, Queued
  <2>4. CASE GoneNetwork
    BY <2>1, <2>4 DEF GoneNetwork
  <2> QED  BY <1>6, <2>2, <2>3, <2>4 DEF Gone
<1>7. ASSUME Mint PROVE TypeInv'
  BY <1>7 DEF Mint, Record
<1>8. ASSUME AppendRecord PROVE TypeInv'
  BY <1>8 DEF AppendRecord
<1>9. ASSUME PublishOutput PROVE TypeInv'
  <2>1. current \in Record /\ current.hash \in Readings
    BY <1>9 DEF PublishOutput, Record
  <2>2. UNCHANGED lots \/ lots' = Append(lots, current.hash)
    BY <1>9 DEF PublishOutput
  <2>3. lots' \in Seq(Readings)
    BY <2>1, <2>2
  <2> QED  BY <1>9, <2>1, <2>3 DEF PublishOutput
<1>10. ASSUME Ship PROVE TypeInv'
  <2>1. log[Len(mirror) + 1] \in Record
    BY <1>10 DEF Ship
  <2> QED  BY <1>10, <2>1 DEF Ship
<1>11. ASSUME Consume PROVE TypeInv'
  BY <1>11 DEF Consume
<1>12. ASSUME SkipRecord PROVE TypeInv'
  BY <1>12 DEF SkipRecord, Record
<1>13. ASSUME LoseOutput PROVE TypeInv'
  BY <1>13 DEF LoseOutput, Record
<1>14. ASSUME NEW r \in Readings, Redeliver(r) PROVE TypeInv'
  BY <1>14 DEF Redeliver
<1>15. CASE UNCHANGED systemVars
  BY <1>15 DEF systemVars
<1> QED
  BY <1>1, <1>2, <1>3, <1>4, <1>5, <1>6, <1>7, <1>8, <1>9, <1>10, <1>11, <1>12, <1>13, <1>14,
     <1>15 DEF SystemNext, Harness, Product, Exit, Kill

LEMMA TypeAlways == SystemSpec => []TypeInv
BY TypeInit, TypeNext, PTL DEF SystemSpec

\* Type correctness, over stops, kills and starts at any moment and any defect.
THEOREM SystemTypes == SystemSpec => []SystemTypeOK
<1>1. TypeInv => SystemTypeOK
  BY DEF TypeInv
<1> QED  BY <1>1, TypeAlways, PTL

-----------------------------------------------------------------------------
(***************************************************************************)
(* The served copy.  Only AppendRecord and Ship touch the two logs, and    *)
(* MirrorIsPrefix is inductive as it stands.                               *)
(***************************************************************************)
\* A step that leaves both logs alone, as most do.
LEMMA PrefixUntouched == MirrorIsPrefix /\ UNCHANGED logVars => MirrorIsPrefix'
BY DEF MirrorIsPrefix, logVars

\* No step of the system, of the harness or of a defect breaks the prefix.
LEMMA PrefixNext == TypeInv /\ MirrorIsPrefix /\ [SystemNext]_systemVars => MirrorIsPrefix'
<1> SUFFICES ASSUME TypeInv, MirrorIsPrefix, [SystemNext]_systemVars
             PROVE  MirrorIsPrefix'
  OBVIOUS
<1>0. log \in Seq(Record) /\ mirror \in Seq(Record) /\ (todo # {} => current \in Record)
  BY DEF TypeInv, SystemTypeOK
<1>1. CASE AppendRecord
  <2>1. log' = Append(log, current) /\ mirror' = mirror /\ current \in Record
    BY <1>0, <1>1 DEF AppendRecord
  <2>2. Len(log') = Len(log) + 1 /\ \A i \in 1..Len(log) : log'[i] = log[i]
    BY <1>0, <2>1
  <2> QED  BY <1>0, <2>1, <2>2 DEF MirrorIsPrefix
<1>2. CASE Ship
  <2>1. /\ log' = log /\ Len(mirror) < Len(log)
        /\ mirror' = Append(mirror, log[Len(mirror) + 1])
    BY <1>2 DEF Ship
  <2>2. log[Len(mirror) + 1] \in Record
    BY <1>0, <2>1
  <2>3. /\ Len(mirror') = Len(mirror) + 1
        /\ \A i \in 1..Len(mirror) : mirror'[i] = mirror[i]
        /\ mirror'[Len(mirror) + 1] = log[Len(mirror) + 1]
    BY <1>0, <2>1, <2>2
  <2> QED  BY <1>0, <2>1, <2>3 DEF MirrorIsPrefix
<1>3. ASSUME ~AppendRecord, ~Ship PROVE UNCHANGED logVars
  BY <1>3 DEF SystemNext, Harness, Product, PublishStimulus, StopPlane, StartPlane, Subscribe,
     BecomeReady, Exit, Kill, Gone, Mint, PublishOutput, Consume, SkipRecord, LoseOutput,
     Redeliver, systemVars, logVars
<1> QED  BY <1>1, <1>2, <1>3, PrefixUntouched

\* Whatever is stopped, killed or restarted, and whatever the product's defect,
\* the network serves a prefix of the pipeline's durable log.
THEOREM ServedIsPrefix == SystemSpec => []MirrorIsPrefix
<1>1. SystemInit => MirrorIsPrefix
  BY DEF SystemInit, MirrorIsPrefix
<1> QED  BY <1>1, TypeAlways, PrefixNext, PTL DEF SystemSpec

-----------------------------------------------------------------------------
(***************************************************************************)
(* Sequence continuity.  It holds because the counter in memory agrees     *)
(* with the durable tail whenever the emitter runs: the record under way   *)
(* carries the tail's successor until it is appended, and a boot reads the *)
(* counter back from the tail.                                             *)
(***************************************************************************)
Seeding == fault \notin {"fork", "unlogged"}

Numbered == \A i \in 1..Len(log) : log[i].seq = i

CounterFollowsTail ==
    /\ todo # {} => Alive("mfg-pipeline")
    /\ "append" \in todo => current.seq = Len(log) + 1 /\ nextSeq = Len(log) + 2
    /\ Alive("mfg-pipeline") /\ "append" \notin todo => nextSeq = Len(log) + 1

ContinuityInv == Seeding => Numbered /\ CounterFollowsTail

LEMMA ContinuityNext ==
  TypeInv /\ ContinuityInv /\ [SystemNext]_systemVars => ContinuityInv'
<1> SUFFICES ASSUME TypeInv, ContinuityInv, [SystemNext]_systemVars, Seeding'
             PROVE  (Numbered /\ CounterFollowsTail)'
  BY DEF ContinuityInv
<1>0. /\ log \in Seq(Record) /\ (todo # {} => current \in Record) /\ nextSeq \in Nat
      /\ plane \in [Planes -> Phases] /\ todo \subseteq {"append", "publish"}
  BY DEF TypeInv, SystemTypeOK
<1>1. fault' = fault
  BY DEF SystemNext, Harness, Product, PublishStimulus, StopPlane, StartPlane, Subscribe,
     BecomeReady, Exit, Kill, Gone, Mint, AppendRecord, PublishOutput, Ship, Consume,
     SkipRecord, LoseOutput, Redeliver, systemVars, choiceVars
<1>2. Seeding /\ Numbered /\ CounterFollowsTail
  BY <1>1 DEF Seeding, ContinuityInv
<1> USE DEF planeVars, emitVars, logVars, Numbered, CounterFollowsTail, Alive
<1>3. ASSUME NEW n \in Readings, PublishStimulus(n) PROVE (Numbered /\ CounterFollowsTail)'
  BY <1>2, <1>3 DEF PublishStimulus
<1>4. ASSUME NEW p \in Planes, StopPlane(p) PROVE (Numbered /\ CounterFollowsTail)'
  BY <1>0, <1>2, <1>4 DEF StopPlane
<1>5. ASSUME NEW p \in Planes, StartPlane(p) PROVE (Numbered /\ CounterFollowsTail)'
  <2>1. CASE p = "mfg-pipeline"
    <3>1. todo = {} /\ todo' = {} /\ log' = log /\ nextSeq' = SeedFrom(log)
      BY <1>2, <1>5, <2>1 DEF StartPlane, Seeding
    <3>2. SeedFrom(log) = Len(log) + 1
      <4>1. CASE log = <<>>
        BY <4>1 DEF SeedFrom
      <4>2. CASE log # <<>>
        BY <1>0, <1>2, <4>2 DEF SeedFrom
      <4> QED  BY <4>1, <4>2
    <3> QED  BY <1>2, <3>1, <3>2
  <2>2. CASE p # "mfg-pipeline"
    BY <1>0, <1>2, <1>5, <2>2 DEF StartPlane
  <2> QED  BY <2>1, <2>2
<1>6. ASSUME NEW p \in Pipelines, Subscribe(p) PROVE (Numbered /\ CounterFollowsTail)'
  BY <1>2, <1>6 DEF Subscribe
<1>7. ASSUME NEW p \in Planes, BecomeReady(p) PROVE (Numbered /\ CounterFollowsTail)'
  BY <1>0, <1>2, <1>7 DEF BecomeReady
<1>8. ASSUME NEW p \in Planes, Gone(p) PROVE (Numbered /\ CounterFollowsTail)'
  <2>1. log' = log /\ nextSeq' = nextSeq /\ current' = current
        /\ plane' = [plane EXCEPT ![p] = "down"]
    BY <1>8 DEF Gone
  <2>2. CASE p = "mfg-pipeline" /\ GoneProducer
    <3>1. todo' = {} /\ plane'["mfg-pipeline"] = "down"
      BY <1>0, <2>1, <2>2 DEF GoneProducer, Planes, Pipelines
    <3> QED  BY <1>2, <2>1, <3>1
  <2>3. CASE p # "mfg-pipeline" /\ UNCHANGED todo
    <3>1. plane'["mfg-pipeline"] = plane["mfg-pipeline"]
      BY <1>0, <2>1, <2>3
    <3> QED  BY <1>2, <2>1, <2>3, <3>1
  <2>4. p # "mfg-pipeline" => UNCHANGED todo
    BY <1>8 DEF Gone, GoneConsumer, GoneNetwork
  <2>5. p = "mfg-pipeline" => GoneProducer
    BY <1>8 DEF Gone, Networks
  <2> QED  BY <2>2, <2>3, <2>4, <2>5
<1>9. ASSUME Mint PROVE (Numbered /\ CounterFollowsTail)'
  BY <1>0, <1>2, <1>9 DEF Mint
<1>10. ASSUME AppendRecord PROVE (Numbered /\ CounterFollowsTail)'
  <2>1. /\ log' = Append(log, current) /\ current \in Record
        /\ current.seq = Len(log) + 1 /\ nextSeq = Len(log) + 2
        /\ UNCHANGED <<planeVars, nextSeq, current>> /\ "append" \notin todo'
    BY <1>0, <1>2, <1>10 DEF AppendRecord
  <2>2. /\ Len(log') = Len(log) + 1
        /\ \A i \in 1..Len(log) : log'[i] = log[i]
        /\ log'[Len(log) + 1] = current
    BY <1>0, <2>1
  <2>3. Numbered'
    BY <1>0, <1>2, <2>1, <2>2
  <2>4. Alive("mfg-pipeline")'
    BY <1>2, <1>10, <2>1 DEF AppendRecord
  <2> QED  BY <1>0, <2>1, <2>2, <2>3, <2>4
<1>11. ASSUME PublishOutput \/ LoseOutput PROVE (Numbered /\ CounterFollowsTail)'
  BY <1>2, <1>11 DEF PublishOutput, LoseOutput
<1>12. ASSUME Ship \/ Consume PROVE (Numbered /\ CounterFollowsTail)'
  BY <1>2, <1>12 DEF Ship, Consume
<1>13. ASSUME SkipRecord PROVE FALSE
  BY <1>2, <1>13 DEF SkipRecord, Seeding
<1>14. ASSUME NEW r \in Readings, Redeliver(r) PROVE (Numbered /\ CounterFollowsTail)'
  BY <1>2, <1>14 DEF Redeliver
<1>15. CASE UNCHANGED systemVars
  BY <1>2, <1>15 DEF systemVars
<1> QED
  BY <1>3, <1>4, <1>5, <1>6, <1>7, <1>8, <1>9, <1>10, <1>11, <1>12, <1>13, <1>14, <1>15
     DEF SystemNext, Harness, Product, Exit, Kill

LEMMA ContinuityAlways == SystemSpec => []ContinuityInv
<1>1. SystemInit => ContinuityInv
  BY DEF SystemInit, ContinuityInv, Numbered, CounterFollowsTail, Alive, Planes, Pipelines
<1> QED  BY <1>1, TypeAlways, ContinuityNext, PTL DEF SystemSpec

\* The i-th durable record carries i across every stop, kill and restart of an
\* emitter that seeds itself from its log.
THEOREM LogIsContinuous == SystemSpec => []Continuity
<1>1. ContinuityInv => Continuity
  BY DEF ContinuityInv, Seeding, Numbered, Continuity
<1> QED  BY <1>1, ContinuityAlways, PTL

-----------------------------------------------------------------------------
(***************************************************************************)
(* The two hash views.  An emission has two effects and each of them ends  *)
(* once: it is recorded or skipped, and its message is queued, arrived or  *)
(* dropped.  What is under way is counted with the effect it still owes,   *)
(* so the two sides always account for the same emissions.                 *)
(***************************************************************************)
Owing(effect) == IF effect \in todo THEN {current.hash} ELSE {}

Entered == HashesIn(log) \cup skipped \cup Owing("append")
Sent    == Queued(lots) \cup arrived \cup dropped \cup Owing("publish")

NothingTwice ==
    /\ Distinct(ingress) /\ Distinct(lots)
    /\ HashesIn(log) \cap skipped = {}
    /\ Owing("append") \cap (HashesIn(log) \cup skipped) = {}
    /\ Queued(lots) \cap (arrived \cup dropped) = {}
    /\ arrived \cap dropped = {}
    /\ Owing("publish") \cap (Queued(lots) \cup arrived \cup dropped) = {}

FlowInv ==
    /\ NothingTwice
    /\ Entered = Sent
    /\ Queued(ingress) \cup Entered \subseteq published
    /\ Queued(ingress) \cap Entered = {}

flowVars == <<ingress, current, todo, log, lots, arrived, dropped, skipped, published>>

\* A step that touches none of the places an emission can be in.
LEMMA FlowUntouched == FlowInv /\ UNCHANGED flowVars => FlowInv'
<1> SUFFICES ASSUME FlowInv, UNCHANGED flowVars
             PROVE  FlowInv'
  OBVIOUS
<1>1. /\ UNCHANGED <<arrived, dropped, skipped, published>>
      /\ log' = log /\ lots' = lots /\ ingress' = ingress /\ todo' = todo /\ current' = current
  BY DEF flowVars
<1>2. HashesIn(log)' = HashesIn(log)
  BY <1>1 DEF HashesIn
<1>3. Queued(ingress)' = Queued(ingress) /\ Queued(lots)' = Queued(lots)
  BY <1>1 DEF Queued
<1>4. (Distinct(ingress)' <=> Distinct(ingress)) /\ (Distinct(lots)' <=> Distinct(lots))
  BY <1>1 DEF Distinct
<1>5. Owing("append")' = Owing("append") /\ Owing("publish")' = Owing("publish")
  BY <1>1 DEF Owing
<1>6. NothingTwice'
  BY <1>1, <1>2, <1>3, <1>4, <1>5 DEF FlowInv, NothingTwice
<1>7. Entered' = Entered /\ Sent' = Sent
  BY <1>1, <1>2, <1>3, <1>5 DEF Entered, Sent
<1> QED  BY <1>1, <1>3, <1>6, <1>7 DEF FlowInv

LEMMA FlowInit == SystemInit => FlowInv
BY DEF SystemInit, FlowInv, NothingTwice, Entered, Sent, Owing, HashesIn, Queued, Distinct

LEMMA FlowNext == TypeInv /\ FlowInv /\ [SystemNext]_systemVars => FlowInv'
<1> SUFFICES ASSUME TypeInv, FlowInv, [SystemNext]_systemVars
             PROVE  FlowInv'
  OBVIOUS
<1>0. /\ log \in Seq(Record) /\ ingress \in Seq(Readings) /\ lots \in Seq(Readings)
      /\ todo \subseteq {"append", "publish"}
      /\ todo # {} => current \in Record /\ current.hash \in Readings
  BY DEF TypeInv, SystemTypeOK, Record
<1> USE DEF FlowInv, NothingTwice, Entered, Sent, Owing
<1>1. ASSUME NEW n \in Readings, PublishStimulus(n) PROVE FlowInv'
  <2>1. /\ n \notin published /\ published' = published \cup {n}
        /\ UNCHANGED <<current, todo, log, lots, arrived, dropped, skipped>>
        /\ ingress' = ingress \/ ingress' = Append(ingress, n)
    BY <1>1 DEF PublishStimulus, logVars, sinkVars
  <2>2. HashesIn(log)' = HashesIn(log) /\ Queued(lots)' = Queued(lots) /\ Distinct(lots)'
    BY <2>1 DEF HashesIn, Queued, Distinct
  <2>3. CASE ingress' = ingress
    BY <2>1, <2>2, <2>3 DEF Queued, Distinct
  <2>4. CASE ingress' = Append(ingress, n)
    <3>1. Queued(ingress') = Queued(ingress) \cup {n} /\ Distinct(ingress')
      BY <1>0, <2>1, <2>4, QueuedAppend, DistinctAppend
    <3> QED  BY <2>1, <2>2, <3>1
  <2> QED  BY <2>1, <2>3, <2>4
<1>2. ASSUME GoneProducer, UNCHANGED <<current, log, arrived, published>> PROVE FlowInv'
  <2>1. HashesIn(log)' = HashesIn(log) /\ Queued(lots)' = Queued(lots) /\ Distinct(lots)'
    BY <1>2 DEF GoneProducer, HashesIn, Queued, Distinct
  <2>2. Queued(ingress') = {} /\ Distinct(ingress')
    BY <1>2 DEF GoneProducer, Queued, Distinct
  <2>3. /\ todo' = {} /\ UNCHANGED <<current, log, arrived, published>>
        /\ dropped' = dropped \cup Owing("publish") /\ skipped' = skipped \cup Owing("append")
    BY <1>2 DEF GoneProducer
  <2> QED  BY <2>1, <2>2, <2>3
<1>3. ASSUME GoneConsumer, UNCHANGED <<current, log, arrived, published>> PROVE FlowInv'
  <2>1. Queued(lots') = {} /\ Distinct(lots')
    BY <1>3 DEF GoneConsumer, Queued, Distinct
  <2>2. /\ HashesIn(log)' = HashesIn(log) /\ Queued(ingress)' = Queued(ingress)
        /\ Distinct(ingress)'
    BY <1>3 DEF GoneConsumer, HashesIn, Queued, Distinct
  <2> QED  BY <1>3, <2>1, <2>2 DEF GoneConsumer
<1>4. ASSUME NEW p \in Planes, Gone(p) PROVE FlowInv'
  <2>1. UNCHANGED <<current, log, arrived, published>>
    BY <1>4 DEF Gone, logVars
  <2>2. GoneNetwork => UNCHANGED flowVars
    BY <2>1 DEF GoneNetwork, flowVars
  <2> QED  BY <1>2, <1>3, <1>4, <2>1, <2>2, FlowUntouched DEF Gone
<1>5. ASSUME Mint PROVE FlowInv'
  <2>1. /\ Head(ingress) \in Queued(ingress)
        /\ Queued(Tail(ingress)) = Queued(ingress) \ {Head(ingress)}
        /\ Distinct(Tail(ingress))
    BY <1>0, <1>5, QueuedTail DEF Mint
  <2>2. /\ todo = {} /\ todo' = {"append", "publish"}
        /\ current'.hash = Head(ingress) /\ ingress' = Tail(ingress)
        /\ UNCHANGED <<log, lots, arrived, dropped, skipped, published>>
    BY <1>5 DEF Mint, logVars, sinkVars, historyVars
  <2>3. HashesIn(log)' = HashesIn(log) /\ Queued(lots)' = Queued(lots) /\ Distinct(lots)'
    BY <2>2 DEF HashesIn, Queued, Distinct
  <2> QED  BY <2>1, <2>2, <2>3
<1>6. ASSUME AppendRecord PROVE FlowInv'
  <2>1. /\ "append" \in todo /\ todo' = todo \ {"append"} /\ log' = Append(log, current)
        /\ UNCHANGED <<ingress, current, lots, arrived, dropped, skipped, published>>
    BY <1>6 DEF AppendRecord, sinkVars, historyVars
  <2>2. HashesIn(log') = HashesIn(log) \cup {current.hash}
    BY <1>0, <2>1, HashesInAppend
  <2>3. /\ Queued(ingress)' = Queued(ingress) /\ Queued(lots)' = Queued(lots)
        /\ Distinct(ingress)' /\ Distinct(lots)'
    BY <2>1 DEF Queued, Distinct
  <2> QED  BY <2>1, <2>2, <2>3
<1>7. ASSUME PublishOutput PROVE FlowInv'
  <2>1. /\ "publish" \in todo /\ todo' = todo \ {"publish"} /\ current.hash \in Readings
        /\ UNCHANGED <<ingress, current, log, arrived, skipped, published>>
    BY <1>0, <1>7 DEF PublishOutput, logVars
  <2>2. /\ Queued(ingress)' = Queued(ingress) /\ HashesIn(log)' = HashesIn(log)
        /\ Distinct(ingress)'
    BY <2>1 DEF Queued, Distinct, HashesIn
  <2>3. CASE lots' = Append(lots, current.hash) /\ dropped' = dropped
    <3>1. Queued(lots') = Queued(lots) \cup {current.hash} /\ Distinct(lots')
      BY <1>0, <2>1, <2>3, QueuedAppend, DistinctAppend
    <3> QED  BY <2>1, <2>2, <2>3, <3>1
  <2>4. CASE lots' = lots /\ dropped' = dropped \cup {current.hash}
    BY <2>1, <2>2, <2>4 DEF Queued, Distinct
  <2> QED  BY <1>7, <2>3, <2>4 DEF PublishOutput
<1>8. ASSUME Consume PROVE FlowInv'
  <2>1. /\ Head(lots) \in Queued(lots) /\ Queued(Tail(lots)) = Queued(lots) \ {Head(lots)}
        /\ Distinct(Tail(lots))
    BY <1>0, <1>8, QueuedTail DEF Consume
  <2>2. /\ lots' = Tail(lots) /\ arrived' = arrived \cup {Head(lots)}
        /\ UNCHANGED <<ingress, current, todo, log, dropped, skipped, published>>
    BY <1>8 DEF Consume, emitVars, logVars, historyVars
  <2>3. /\ Queued(ingress)' = Queued(ingress) /\ HashesIn(log)' = HashesIn(log)
        /\ Distinct(ingress)'
    BY <2>2 DEF Queued, Distinct, HashesIn
  <2> QED  BY <2>1, <2>2, <2>3
<1>9. ASSUME SkipRecord \/ LoseOutput PROVE FlowInv'
  <2>1. /\ UNCHANGED <<ingress, current, log, lots, arrived, published>>
        /\ \/ /\ "append" \in todo /\ todo' = todo \ {"append"}
              /\ skipped' = skipped \cup {current.hash} /\ dropped' = dropped
           \/ /\ "publish" \in todo /\ todo' = todo \ {"publish"}
              /\ dropped' = dropped \cup {current.hash} /\ skipped' = skipped
    BY <1>9 DEF SkipRecord, LoseOutput, logVars, sinkVars
  <2>2. /\ Queued(ingress)' = Queued(ingress) /\ HashesIn(log)' = HashesIn(log)
        /\ Queued(lots)' = Queued(lots) /\ Distinct(ingress)' /\ Distinct(lots)'
    BY <2>1 DEF Queued, Distinct, HashesIn
  <2> QED  BY <2>1, <2>2
<1>10. ASSUME NEW r \in Readings, Redeliver(r) PROVE FlowInv'
  <2>1. /\ r \in dropped /\ dropped' = dropped \ {r} /\ lots' = Append(lots, r)
        /\ UNCHANGED <<ingress, current, todo, log, arrived, skipped, published>>
    BY <1>10 DEF Redeliver, emitVars, logVars
  <2>2. Queued(lots') = Queued(lots) \cup {r} /\ Distinct(lots')
    BY <1>0, <2>1, QueuedAppend, DistinctAppend
  <2>3. /\ Queued(ingress)' = Queued(ingress) /\ HashesIn(log)' = HashesIn(log)
        /\ Distinct(ingress)'
    BY <2>1 DEF Queued, Distinct, HashesIn
  <2> QED  BY <2>1, <2>2, <2>3
<1>11. ASSUME NEW p \in Planes, StopPlane(p) \/ StartPlane(p) \/ Subscribe(p) \/ BecomeReady(p)
       PROVE  UNCHANGED flowVars
  BY <1>11 DEF StopPlane, StartPlane, Subscribe, BecomeReady, flowVars, emitVars, logVars,
     sinkVars, historyVars
<1>12. ASSUME Ship \/ UNCHANGED systemVars PROVE UNCHANGED flowVars
  BY <1>12 DEF Ship, systemVars, flowVars, emitVars, logVars, sinkVars, historyVars
<1> QED
  BY <1>1, <1>4, <1>5, <1>6, <1>7, <1>8, <1>9, <1>10, <1>11, <1>12, FlowUntouched
     DEF SystemNext, Harness, Product, Exit, Kill, Planes

LEMMA FlowAlways == SystemSpec => []FlowInv
BY FlowInit, TypeAlways, FlowNext, PTL DEF SystemSpec

\* Once no message is under way, each hash view of a reconciliation names one
\* cause: a record nobody received is a message the broker or a stop discarded,
\* a credential without a record is an emission that was never recorded.
THEOREM EachViewNamesItsCause == SystemSpec => []ViewsNameTheCause
<1>1. FlowInv => ViewsNameTheCause
  <2> SUFFICES ASSUME FlowInv, todo = {}, lots = <<>>
               PROVE  /\ HashesIn(log) \ arrived = dropped \cap HashesIn(log)
                      /\ arrived \ HashesIn(log) = arrived \cap skipped
    BY DEF ViewsNameTheCause
  <2>1. Queued(lots) = {} /\ Owing("append") = {} /\ Owing("publish") = {}
    BY DEF Queued, Owing
  <2>2. HashesIn(log) \cup skipped = arrived \cup dropped
    BY <2>1 DEF FlowInv, Entered, Sent
  <2> QED  BY <2>2 DEF FlowInv, NothingTwice
<1> QED  BY <1>1, FlowAlways, PTL

-----------------------------------------------------------------------------
(***************************************************************************)
(* Refinement.  The defects that break LossAccounting are those that       *)
(* number twice, skip a number or deliver after a loss; a product free of  *)
(* them, over a reliable or a losing broker, implements it.  The fate of a *)
(* reading is where FlowInv says its message is.                           *)
(***************************************************************************)
AccountingInv == TypeInv /\ MirrorIsPrefix /\ ContinuityInv /\ FlowInv /\ SoundProduct

\* A step that moves no message and enters no record is not one of LossAccounting.
LEMMA AccountingUntouched ==
  ASSUME UNCHANGED <<current, todo, log, mirror, lots, arrived, dropped>>
  PROVE  UNCHANGED Abstract!vars
BY DEF Abstract!vars, FateOf, Queued

LEMMA AccountingStep ==
  AccountingInv /\ [SystemNext]_systemVars => [Abstract!Next]_(Abstract!vars)
<1> SUFFICES ASSUME AccountingInv, [SystemNext]_systemVars
             PROVE  Abstract!Next \/ UNCHANGED Abstract!vars
  OBVIOUS
<1>0. /\ log \in Seq(Record) /\ ingress \in Seq(Readings) /\ lots \in Seq(Readings)
      /\ dropped \subseteq Readings
      /\ todo # {} => current \in Record /\ current.hash \in Readings
  BY DEF AccountingInv, TypeInv, SystemTypeOK, Record
<1>1. NothingTwice /\ Entered = Sent /\ Queued(ingress) \cap Entered = {}
  BY DEF AccountingInv, FlowInv
<1> USE DEF NothingTwice, Entered, Sent, Owing
<1>2. CASE Mint
  <2>1. /\ Head(ingress) \in Queued(ingress) /\ Head(ingress) \in Readings
        /\ todo = {} /\ todo' = {"append", "publish"} /\ current'.hash = Head(ingress)
        /\ UNCHANGED <<log, mirror, lots, arrived, dropped>>
    BY <1>0, <1>1, <1>2, QueuedTail DEF Mint, logVars, sinkVars, historyVars
  <2>2. Queued(lots)' = Queued(lots)
    BY <2>1 DEF Queued
  <2>3. Abstract!Emit(Head(ingress))
    BY <1>1, <2>1, <2>2 DEF Abstract!Emit, FateOf
  <2> QED  BY <2>1, <2>3 DEF Abstract!Next
<1>3. CASE AppendRecord
  <2>1. /\ "append" \in todo /\ todo' = todo \ {"append"} /\ log' = Append(log, current)
        /\ current \in Record /\ current.hash \in Readings /\ current.seq = Len(log) + 1
        /\ UNCHANGED <<current, mirror, lots, arrived, dropped>>
    BY <1>0, <1>3 DEF AppendRecord, sinkVars, historyVars, AccountingInv, SoundProduct, ContinuityInv,
       Seeding, CounterFollowsTail
  <2>2. current = [hash |-> current.hash, seq |-> Len(log) + 1]
    BY <2>1 DEF Record
  <2>3. Queued(lots)' = Queued(lots)
    BY <2>1 DEF Queued
  <2>4. \A r \in Readings : FateOf(r)' = FateOf(r)
    BY <2>1, <2>3 DEF FateOf
  <2>5. FateOf(current.hash) # "unsent"
    BY <1>1, <2>1 DEF FateOf
  <2>6. \A i \in DOMAIN log : log[i].hash # current.hash
    BY <1>1, <2>1 DEF HashesIn
  <2>7. Abstract!Enter(current.hash)
    BY <2>1, <2>2, <2>4, <2>5, <2>6 DEF Abstract!Enter
  <2> QED  BY <2>1, <2>7 DEF Abstract!Next
<1>4. CASE PublishOutput \/ LoseOutput
  <2>1. /\ "publish" \in todo /\ todo' = todo \ {"publish"} /\ current.hash \in Readings
        /\ UNCHANGED <<current, log, mirror, arrived>>
    BY <1>0, <1>4 DEF PublishOutput, LoseOutput, logVars, sinkVars
  <2>2. CASE lots' = Append(lots, current.hash) /\ dropped' = dropped
    <3>1. Queued(lots') = Queued(lots) \cup {current.hash}
      BY <1>0, <2>1, <2>2, QueuedAppend
    <3>2. \A r \in Readings : FateOf(r)' = FateOf(r)
      BY <1>1, <2>1, <2>2, <3>1 DEF FateOf
    <3> QED  BY <2>1, <3>2 DEF Abstract!vars
  <2>3. CASE lots' = lots /\ dropped' = dropped \cup {current.hash}
    <3>1. Queued(lots)' = Queued(lots)
      BY <2>3 DEF Queued
    <3>2. Abstract!Lose({current.hash})
      BY <1>1, <2>1, <2>3, <3>1 DEF Abstract!Lose, FateOf
    <3> QED  BY <2>1, <3>2 DEF Abstract!Next
  <2> QED  BY <1>4, <2>2, <2>3 DEF PublishOutput, LoseOutput, sinkVars
<1>5. CASE Ship
  <2>1. /\ Len(mirror) < Len(log) /\ mirror' = Append(mirror, log[Len(mirror) + 1])
        /\ UNCHANGED <<current, todo, log, lots, arrived, dropped>>
    BY <1>5 DEF Ship, emitVars, sinkVars, historyVars
  <2>2. \A r \in Readings : FateOf(r)' = FateOf(r)
    BY <2>1 DEF FateOf, Queued
  <2>3. Abstract!Serve
    BY <2>1, <2>2 DEF Abstract!Serve
  <2> QED  BY <2>3 DEF Abstract!Next
<1>6. CASE Consume
  <2>1. /\ Head(lots) \in Queued(lots) /\ Head(lots) \in Readings
        /\ Queued(Tail(lots)) = Queued(lots) \ {Head(lots)}
    BY <1>0, <1>1, <1>6, QueuedTail DEF Consume
  <2>2. /\ lots' = Tail(lots) /\ arrived' = arrived \cup {Head(lots)}
        /\ UNCHANGED <<current, todo, log, mirror, dropped>>
    BY <1>6 DEF Consume, emitVars, logVars, historyVars
  <2>3. Abstract!Deliver(Head(lots))
    BY <1>1, <2>1, <2>2 DEF Abstract!Deliver, FateOf
  <2> QED  BY <2>1, <2>3 DEF Abstract!Next
<1>7. ASSUME NEW p \in Planes, Gone(p) PROVE Abstract!Next \/ UNCHANGED Abstract!vars
  <2>1. UNCHANGED <<current, log, mirror, arrived>>
    BY <1>7 DEF Gone, logVars
  <2>2. CASE GoneProducer
    <3>1. /\ todo' = {} /\ dropped' = dropped \cup Owing("publish") /\ lots' = lots
          /\ Owing("publish") \subseteq Readings
      BY <1>0, <2>2 DEF GoneProducer
    <3>2. Queued(lots)' = Queued(lots)
      BY <3>1 DEF Queued
    <3>3. Abstract!Lose(Owing("publish"))
      BY <1>1, <2>1, <3>1, <3>2 DEF Abstract!Lose, FateOf
    <3> QED  BY <3>1, <3>3 DEF Abstract!Next
  <2>3. CASE GoneConsumer
    <3>1. /\ todo' = todo /\ dropped' = dropped \cup Queued(lots) /\ Queued(lots)' = {}
          /\ Queued(lots) \subseteq Readings
      BY <1>0, <2>3 DEF GoneConsumer, Queued
    <3>2. Abstract!Lose(Queued(lots))
      BY <1>1, <2>1, <3>1 DEF Abstract!Lose, FateOf
    <3> QED  BY <3>1, <3>2 DEF Abstract!Next
  <2>4. CASE GoneNetwork
    BY <2>1, <2>4, AccountingUntouched DEF GoneNetwork
  <2> QED  BY <1>7, <2>2, <2>3, <2>4 DEF Gone
<1>8. ASSUME NEW n \in Readings, PublishStimulus(n) PROVE UNCHANGED Abstract!vars
  BY <1>8, AccountingUntouched DEF PublishStimulus, logVars, sinkVars
<1>9. ASSUME NEW p \in Planes, StopPlane(p) \/ StartPlane(p) \/ Subscribe(p) \/ BecomeReady(p)
      PROVE  UNCHANGED Abstract!vars
  BY <1>9, AccountingUntouched DEF StopPlane, StartPlane, Subscribe, BecomeReady, emitVars,
     logVars, sinkVars, historyVars
<1>10. ASSUME SkipRecord \/ \E r \in Readings : Redeliver(r) PROVE FALSE
  BY <1>10 DEF SkipRecord, Redeliver, AccountingInv, SoundProduct
<1>11. CASE UNCHANGED systemVars
  BY <1>11, AccountingUntouched DEF systemVars, emitVars, logVars, sinkVars, historyVars
<1> QED
  BY <1>2, <1>3, <1>4, <1>5, <1>6, <1>7, <1>8, <1>9, <1>10, <1>11
     DEF SystemNext, Harness, Product, Exit, Kill, Planes

LEMMA AccountingInit == SystemInit => Abstract!Init
BY DEF SystemInit, Abstract!Init, FateOf, Queued

LEMMA SoundStep ==
  TypeInv /\ MirrorIsPrefix /\ ContinuityInv /\ FlowInv /\ [SystemNext]_systemVars
    => [SoundProduct => Abstract!Next]_(Abstract!vars)
<1>1. SoundProduct /\ TypeInv /\ MirrorIsPrefix /\ ContinuityInv /\ FlowInv => AccountingInv
  BY DEF AccountingInv
<1> QED  BY <1>1, AccountingStep

\* A product that seeds from its log, records what it emits and never delivers
\* after a loss implements LossAccounting, whatever is stopped, killed or
\* restarted and whatever the broker drops.
THEOREM SystemImplementsAccounting == SystemSpec => ImplementsLossAccounting
<1>1. SystemSpec => [](TypeInv /\ MirrorIsPrefix /\ ContinuityInv /\ FlowInv)
  BY TypeAlways, ServedIsPrefix, ContinuityAlways, FlowAlways, PTL
<1> QED
  BY <1>1, AccountingInit, SoundStep, PTL DEF SystemSpec, ImplementsLossAccounting

\* Where no other product is allowed for, that is the abstract specification itself.
THEOREM SoundSystemIsAccounting ==
  ASSUME FaultChoices \subseteq {"none", "lossy"}
  PROVE  SystemSpec => Abstract!Spec
<1>1. SystemInit => SoundProduct
  BY DEF SystemInit, SoundProduct
<1>2. SoundProduct /\ [SystemNext]_systemVars => SoundProduct'
  BY DEF SoundProduct, SystemNext, Harness, Product, PublishStimulus, StopPlane, StartPlane,
     Subscribe, BecomeReady, Exit, Kill, Gone, Mint, AppendRecord, PublishOutput, Ship, Consume,
     SkipRecord, LoseOutput, Redeliver, systemVars, choiceVars
<1>3. SystemSpec => []SoundProduct
  BY <1>1, <1>2, PTL DEF SystemSpec
<1>4. SoundProduct /\ [SoundProduct => Abstract!Next]_(Abstract!vars) => [Abstract!Next]_(Abstract!vars)
  OBVIOUS
<1> QED
  BY <1>3, <1>4, SystemImplementsAccounting, PTL DEF ImplementsLossAccounting, Abstract!Spec
=============================================================================
