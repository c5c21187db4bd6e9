---------------------------- MODULE EmissionLog -----------------------------
(***************************************************************************)
(* The system under test of scenarios/losswindow: a producer (mfg) and a   *)
(* consumer (retail), each a cmd/network + cmd/pipeline pair the harness   *)
(* stops and starts, and one NATS broker that delivers at most once.       *)
(*                                                                         *)
(* The harness's operations (publish a stimulus, stop a plane, start it)   *)
(* are taken at any time here; LossWindow gives them in the scenario's     *)
(* order.  The product is external: its actions are what the harness and   *)
(* the scenario rely on (the emitter seeds its sequence from the durable   *)
(* log, the log lives in the pipeline and its mirror in the network, the   *)
(* broker drops what nobody subscribes to).  A credential is named by the  *)
(* reading it was minted for: a reading is published at most once.         *)
(***************************************************************************)
EXTENDS Naturals, Sequences, FiniteSets

CONSTANTS Readings,      \* the stimuli
          NoReading,     \* the absence of one
          RuntimeChoices, FaultChoices, \* the runtimes and product defects a behaviour may start with
          BootOutlastsEmission \* TRUE: no boot is faster than one emission's two effects

Networks  == {"mfg-network", "retail-network"}
Pipelines == {"mfg-pipeline", "retail-pipeline"}
Planes    == Networks \cup Pipelines
NetworkOf(p) == IF p = "mfg-pipeline" THEN "mfg-network" ELSE "retail-network"

Phases   == {"down", "booting", "up", "stopping"}
Runtimes == {"process", "compose"}
Faults   == {"none", "fork", "lossy", "redeliver", "unlogged"}

ASSUME ReadingsAssumption == NoReading \notin Readings
ASSUME RuntimesAssumption == RuntimeChoices \subseteq Runtimes
ASSUME FaultsAssumption   == FaultChoices \subseteq Faults
ASSUME BootAssumption     == BootOutlastsEmission \in BOOLEAN

VARIABLES
  runtime,     \* E2E_RUNTIME, fixed at the start
  fault,       \* the defect of the product under test, fixed at the start
  plane,       \* phase of the four node processes or containers
  subscribed,  \* the pipelines whose loop holds its broker subscription
  published,   \* the stimuli published so far
  ingress,     \* mfg: messages of its subscription not yet taken
  current,     \* mfg: the record of the emission under way
  todo,        \* mfg: which of its two effects are still to come
  nextSeq,     \* mfg: the emitter's counter, in memory
  log,         \* mfg: the durable emission log, in the pipeline's data dir
  mirror,      \* mfg: the mirrored copy, in the network's data dir
  lots,        \* retail: messages of its subscription not yet verified
  sink,        \* retail: the readings on the sink's current output stream
  arrived,     \* history: the readings ever written to it
  dropped,     \* history: emissions the broker or a stop discarded
  skipped      \* history: emissions that will never be recorded

planeVars   == <<plane, subscribed>>
emitVars    == <<ingress, current, todo, nextSeq>>
logVars     == <<log, mirror>>
sinkVars    == <<lots, sink, arrived>>
choiceVars  == <<runtime, fault>>
historyVars == <<published, dropped, skipped>>
systemVars == <<planeVars, emitVars, logVars, sinkVars, choiceVars, historyVars>>

Record      == [hash : Readings, seq : Nat]
NoRecord    == [hash |-> NoReading, seq |-> 0]
HashesIn(l) == {l[i].hash : i \in DOMAIN l}
Queued(q)   == {q[i] : i \in DOMAIN q}
Alive(p)    == plane[p] # "down"

\* Where setup leaves it: every plane ready and both subscriptions awaited.
SystemInit ==
    /\ runtime \in RuntimeChoices /\ fault \in FaultChoices
    /\ plane = [p \in Planes |-> "up"] /\ subscribed = Pipelines
    /\ published = {}
    /\ ingress = <<>> /\ current = NoRecord /\ todo = {} /\ nextSeq = 1
    /\ log = <<>> /\ mirror = <<>>
    /\ lots = <<>> /\ sink = {} /\ arrived = {}
    /\ dropped = {} /\ skipped = {}

-----------------------------------------------------------------------------
(***************************************************************************)
(* The harness's operations.                                               *)
(***************************************************************************)

\* publish(n): plain core NATS, lost unless mfg's source loop is subscribed.
PublishStimulus(n) ==
    /\ n \notin published
    /\ published' = published \cup {n}
    /\ ingress' = IF "mfg-pipeline" \in subscribed THEN Append(ingress, n) ELSE ingress
    /\ UNCHANGED <<planeVars, current, todo, nextSeq, logVars, sinkVars, choiceVars, dropped,
                   skipped>>

\* Node.Stop and compose stop send the interrupt; nothing to do when it is down.
StopPlane(p) ==
    /\ plane' = IF Alive(p) THEN [plane EXCEPT ![p] = "stopping"] ELSE plane
    /\ UNCHANGED <<subscribed, emitVars, logVars, sinkVars, choiceVars, historyVars>>

\* Mutant: the durable tail's own number is given again.
SeedFromTail(l) == IF l = <<>> THEN 1 ELSE l[Len(l)].seq

\* The number a booting emitter gives first: one past the durable tail.
SeedFrom(l) == IF l = <<>> THEN 1 ELSE l[Len(l)].seq + 1

\* Mutant: the pipeline is started over a fresh data directory.
StartPlaneAnew(p) ==
    /\ ~Alive(p)
    /\ plane' = [plane EXCEPT ![p] = "booting"]
    /\ nextSeq' = IF p = "mfg-pipeline" THEN 1 ELSE nextSeq
    /\ log' = IF p = "mfg-pipeline" THEN <<>> ELSE log
    /\ UNCHANGED <<subscribed, ingress, current, todo, mirror, sinkVars, choiceVars, historyVars>>

\* runNodeProcess and compose start.  A process starts a fresh stdout stream, a
\* container keeps its logs.
StartPlane(p) ==
    /\ ~Alive(p)
    /\ plane' = [plane EXCEPT ![p] = "booting"]
    /\ sink' = IF p = "retail-pipeline" /\ runtime = "process" THEN {} ELSE sink
    /\ nextSeq' = IF p # "mfg-pipeline" THEN nextSeq
                  ELSE IF fault = "fork" THEN 1 ELSE SeedFrom(log)
    /\ UNCHANGED <<subscribed, ingress, current, todo, logVars, lots, arrived, choiceVars,
                   historyVars>>

\* The process is gone, with everything only it held.
GoneProducer ==
    /\ ingress' = <<>> /\ todo' = {}
    /\ dropped' = IF "publish" \in todo THEN dropped \cup {current.hash} ELSE dropped
    /\ skipped' = IF "append" \in todo THEN skipped \cup {current.hash} ELSE skipped
    /\ UNCHANGED lots

GoneConsumer ==
    /\ lots' = <<>>
    /\ dropped' = dropped \cup Queued(lots)
    /\ UNCHANGED <<ingress, todo, skipped>>

GoneNetwork == UNCHANGED <<ingress, todo, lots, dropped, skipped>>

Gone(p) ==
    /\ plane' = [plane EXCEPT ![p] = "down"]
    /\ subscribed' = subscribed \ {p}
    /\ \/ p = "mfg-pipeline" /\ GoneProducer
       \/ p = "retail-pipeline" /\ GoneConsumer
       \/ p \in Networks /\ GoneNetwork
    /\ UNCHANGED <<published, current, nextSeq, logVars, sink, arrived, choiceVars>>

\* Ordered shutdown: the pipeline leaves after its mirror shipper drained into
\* the network, when there is one to drain into.
Exit(p) ==
    /\ plane[p] = "stopping"
    /\ p = "mfg-pipeline" /\ plane["mfg-network"] = "up" => mirror = log
    /\ Gone(p)

\* ... unless ten seconds were not enough.
Kill(p) == plane[p] = "stopping" /\ Gone(p)

-----------------------------------------------------------------------------
(***************************************************************************)
(* The product.                                                            *)
(***************************************************************************)

\* A loop subscribes some time after its process started; /readyz does not say.
Subscribe(p) ==
    /\ plane[p] \in {"booting", "up"} /\ p \notin subscribed
    /\ subscribed' = subscribed \cup {p}
    /\ UNCHANGED <<plane, emitVars, logVars, sinkVars, choiceVars, historyVars>>

\* /readyz answers 200: a pipeline's also needs its registry, the network plane.
BecomeReady(p) ==
    /\ plane[p] = "booting"
    /\ p \in Pipelines => plane[NetworkOf(p)] = "up"
    /\ BootOutlastsEmission => todo = {}
    /\ plane' = [plane EXCEPT ![p] = "up"]
    /\ UNCHANGED <<subscribed, emitVars, logVars, sinkVars, choiceVars, historyVars>>

\* Mutants: the next stimulus is taken before the emission under way is done;
\* the source waits for a consumer.
MintEagerly ==
    /\ Alive("mfg-pipeline") /\ ingress # <<>>
    /\ current' = [hash |-> Head(ingress), seq |-> nextSeq]
    /\ ingress' = Tail(ingress)
    /\ nextSeq' = nextSeq + 1
    /\ todo' = {"append", "publish"}
    /\ UNCHANGED <<planeVars, logVars, sinkVars, choiceVars, historyVars>>

MintWhenHeard == "retail-pipeline" \in subscribed /\ MintEagerly /\ todo = {}

\* mfg's source loop mints the credential of the next stimulus.
Mint ==
    /\ Alive("mfg-pipeline") /\ ingress # <<>> /\ todo = {}
    /\ current' = [hash |-> Head(ingress), seq |-> nextSeq]
    /\ ingress' = Tail(ingress)
    /\ nextSeq' = nextSeq + 1
    /\ todo' = {"append", "publish"}
    /\ UNCHANGED <<planeVars, logVars, sinkVars, choiceVars, historyVars>>

\* It appends {credentialHash, sequenceNo} and publishes, in either order.
AppendRecord ==
    /\ "append" \in todo
    /\ log' = Append(log, current)
    /\ todo' = todo \ {"append"}
    /\ UNCHANGED <<planeVars, ingress, current, nextSeq, mirror, sinkVars, choiceVars, historyVars>>

\* Core NATS hands the message to whoever is subscribed now, or to nobody.
PublishOutput ==
    /\ "publish" \in todo
    /\ todo' = todo \ {"publish"}
    /\ \/ /\ "retail-pipeline" \in subscribed
          /\ lots' = Append(lots, current.hash)
          /\ UNCHANGED dropped
       \/ /\ "retail-pipeline" \notin subscribed
          /\ dropped' = dropped \cup {current.hash}
          /\ UNCHANGED lots
    /\ UNCHANGED <<planeVars, ingress, current, nextSeq, logVars, sink, arrived, choiceVars,
                   published, skipped>>

\* The mirror shipper resumes from what the registry acknowledged.
Ship ==
    /\ Alive("mfg-pipeline") /\ plane["mfg-network"] = "up"
    /\ Len(mirror) < Len(log)
    /\ mirror' = Append(mirror, log[Len(mirror) + 1])
    /\ UNCHANGED <<planeVars, emitVars, log, sinkVars, choiceVars, historyVars>>

\* The sink verifies against its upstream and writes one line.
Consume ==
    /\ Alive("retail-pipeline") /\ lots # <<>> /\ plane["mfg-network"] = "up"
    /\ sink' = sink \cup {Head(lots)}
    /\ arrived' = arrived \cup {Head(lots)}
    /\ lots' = Tail(lots)
    /\ UNCHANGED <<planeVars, emitVars, logVars, choiceVars, historyVars>>

\* The defects the scenario exists to catch (the seed of a forked emitter is in
\* StartPlane): an emission without its record, a message the broker loses, a
\* redelivery path core NATS does not have.
SkipRecord ==
    /\ fault = "unlogged" /\ "append" \in todo
    /\ skipped' = skipped \cup {current.hash}
    /\ todo' = todo \ {"append"}
    /\ UNCHANGED <<planeVars, ingress, current, nextSeq, logVars, sinkVars, choiceVars, published,
                   dropped>>

LoseOutput ==
    /\ fault = "lossy" /\ "publish" \in todo
    /\ todo' = todo \ {"publish"}
    /\ dropped' = dropped \cup {current.hash}
    /\ UNCHANGED <<planeVars, ingress, current, nextSeq, logVars, sinkVars, choiceVars, published,
                   skipped>>

Redeliver(r) ==
    /\ fault = "redeliver" /\ r \in dropped /\ "retail-pipeline" \in subscribed
    /\ lots' = Append(lots, r)
    /\ dropped' = dropped \ {r}
    /\ UNCHANGED <<planeVars, emitVars, logVars, sink, arrived, choiceVars, published, skipped>>

Product ==
    \/ \E p \in Pipelines : Subscribe(p)
    \/ \E p \in Planes : BecomeReady(p) \/ Exit(p) \/ Kill(p)
    \/ Mint \/ AppendRecord \/ PublishOutput \/ Ship \/ Consume
    \/ SkipRecord \/ LoseOutput \/ \E r \in Readings : Redeliver(r)

Harness ==
    \/ \E n \in Readings : PublishStimulus(n)
    \/ \E p \in Planes : StopPlane(p) \/ StartPlane(p)

SystemNext == Harness \/ Product
SystemSpec == SystemInit /\ [][SystemNext]_systemVars

\* Every process that has something to do does it; nothing is promised of the
\* harness, of a kill or of a defect.
SystemFairness ==
    /\ \A p \in Pipelines : WF_systemVars(Subscribe(p))
    /\ \A p \in Planes : WF_systemVars(BecomeReady(p)) /\ WF_systemVars(Exit(p))
    /\ WF_systemVars(Mint)
    /\ WF_systemVars(AppendRecord \/ SkipRecord)
    /\ WF_systemVars(PublishOutput \/ LoseOutput)
    /\ WF_systemVars(Ship)
    /\ WF_systemVars(Consume)

FairSystemSpec == SystemSpec /\ SystemFairness

-----------------------------------------------------------------------------
(***************************************************************************)
(* Properties.                                                             *)
(***************************************************************************)
SystemTypeOK ==
    /\ runtime \in Runtimes /\ fault \in Faults
    /\ plane \in [Planes -> Phases] /\ subscribed \subseteq Pipelines
    /\ published \subseteq Readings
    /\ ingress \in Seq(Readings)
    /\ current \in Record \cup {NoRecord}
    /\ todo \subseteq {"append", "publish"}
    /\ nextSeq \in Nat \ {0}
    /\ log \in Seq(Record) /\ mirror \in Seq(Record)
    /\ lots \in Seq(Readings) /\ sink \subseteq Readings /\ arrived \subseteq Readings
    /\ dropped \subseteq Readings /\ skipped \subseteq Readings

\* What the network process serves is the pipeline's log as it was at some
\* moment, whatever was stopped, killed or restarted in between: the checkpoint
\* may lag (losswindow_test.go waits for it), it never disagrees.
MirrorIsPrefix ==
    /\ Len(mirror) <= Len(log)
    /\ \A i \in 1..Len(mirror) : mirror[i] = log[i]

\* Sequence continuity: the i-th durable record carries i, across restarts and
\* kills of the emitter, because it seeds itself from the durable tail.
Continuity ==
    fault \notin {"fork", "unlogged"} => \A i \in 1..Len(log) : log[i].seq = i

\* The two hash views of a reconciliation each name one cause and nothing else:
\* once no message is under way, the records nobody received are the recorded
\* emissions the broker or a stop discarded, and the credentials no record
\* names are the received emissions that were never recorded.
ViewsNameTheCause ==
    todo = {} /\ lots = <<>> =>
      /\ HashesIn(log) \ arrived = dropped \cap HashesIn(log)
      /\ arrived \ HashesIn(log) = arrived \cap skipped

\* When the producer's two planes stay up, the served copy catches up with the
\* log and stays there: a wait for a log size is a wait for shipping only.
MirrorCatchesUp ==
    <>[](plane["mfg-network"] = "up" /\ plane["mfg-pipeline"] = "up") => <>[](mirror = log)

\* A stimulus a live producer has taken in is answered for: it is recorded, or
\* the defect took the record, or the pipeline that held it went down.
TakenIsRecorded ==
    \A n \in Readings :
        n \in Queued(ingress) ~> (n \in HashesIn(log) \cup skipped \/ plane["mfg-pipeline"] = "down")

\* What the reader of the abstract specification sees of this one.
FateOf(r) ==
    IF r \in arrived THEN "delivered"
    ELSE IF r \in dropped THEN "lost"
    ELSE IF r \in Queued(lots) \/ ("publish" \in todo /\ r = current.hash) THEN "underway"
    ELSE "unsent"

Abstract == INSTANCE LossAccounting
                WITH fate   <- [r \in Readings |-> FateOf(r)],
                     ledger <- log,
                     served <- mirror

\* It seeds itself from its log, records what it emits and delivers nothing late.
SoundProduct == fault \in {"none", "lossy"}

\* Emissions meet one final fate, the log numbers them without a gap or a fork
\* and only the log is ever served: a system with a sound product implements
\* LossAccounting, every step of it being one of that or a stutter.
ImplementsLossAccounting ==
    Abstract!Init /\ [][SoundProduct => Abstract!Next]_(Abstract!vars)
=============================================================================
