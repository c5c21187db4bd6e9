----------------------------- MODULE LossWindow -----------------------------
(***************************************************************************)
(* TestLossWindow_EmissionLogNamesTheLoss: the sequential test that drives *)
(* EmissionLog and passes judgement on it.  The test is the constant       *)
(* Script, a sequence of the operations the scenario body and lwEnv offer; *)
(* LossWindowScenario gives the real one.  Every step is one of the test's *)
(* calls, and the product runs in between.                                 *)
(***************************************************************************)
EXTENDS EmissionLog, Reconcile

CONSTANT Script

Publishes(i) == Script[i].op = "publish"

ASSUME ScriptAssumption ==
    /\ Len(Script) \in Nat \ {0} /\ DOMAIN Script = 1..Len(Script)
    /\ \A i \in DOMAIN Script : Publishes(i) => Script[i].arg \in Readings
    /\ \A i, j \in DOMAIN Script :
          Publishes(i) /\ Publishes(j) /\ Script[i].arg = Script[j].arg => i = j
    /\ \A i \in DOMAIN Script : Script[i].op \in {"stop", "start"} => Script[i].arg \in Planes

VARIABLES
  pc,          \* the next step of the script
  verdict,     \* the kinds of checks that failed
  preStop,     \* preStopLines
  checkpoint,  \* cpBefore
  records,     \* recs
  port,        \* the host port mfg-network's control plane is published on
  dialled      \* the port tlogClient was built for

testVars == <<pc, verdict, preStop, checkpoint, records, port, dialled>>
vars     == <<testVars, systemVars>>

Init ==
    /\ SystemInit
    /\ pc = 1 /\ verdict = {}
    /\ preStop = {} /\ checkpoint = <<>> /\ records = <<>>
    /\ port = 0 /\ dialled = 0

Step   == Script[pc]
Over   == verdict # {} \/ pc > Len(Script)
Passed == verdict = {} /\ pc > Len(Script)
At(op) == verdict = {} /\ pc \in DOMAIN Script /\ Step.op = op

\* The next step, or a t.Fatalf.
Advance == pc' = pc + 1 /\ UNCHANGED verdict
Fail(v) == pc' = pc /\ verdict' = {v}

-----------------------------------------------------------------------------
(***************************************************************************)
(* Operations on the system.                                               *)
(***************************************************************************)
Publish ==
    /\ At("publish")
    /\ PublishStimulus(Step.arg)
    /\ Advance
    /\ UNCHANGED <<preStop, checkpoint, records, port, dialled>>

Stop ==
    /\ At("stop")
    /\ StopPlane(Step.arg)
    /\ Advance
    /\ UNCHANGED <<preStop, checkpoint, records, port, dialled>>

\* Mutant: a process's output stream goes on across its restart.
StartKeepingOutput ==
    /\ At("start") /\ ~Alive(Step.arg)
    /\ plane' = [plane EXCEPT ![Step.arg] = "booting"]
    /\ nextSeq' = IF Step.arg = "mfg-pipeline" THEN SeedFrom(log) ELSE nextSeq
    /\ port' = IF Step.arg = "mfg-network" /\ runtime = "compose" THEN port + 1 ELSE port
    /\ Advance
    /\ UNCHANGED <<preStop, checkpoint, records, dialled, subscribed, ingress, current, todo,
                   logVars, sinkVars, choiceVars, historyVars>>

\* RestartService's doc: compose publishes an ephemeral port afresh.
Start ==
    /\ At("start")
    /\ StartPlane(Step.arg)
    /\ port' = IF Step.arg = "mfg-network" /\ runtime = "compose" THEN port + 1 ELSE port
    /\ Advance
    /\ UNCHANGED <<preStop, checkpoint, records, dialled>>

-----------------------------------------------------------------------------
(***************************************************************************)
(* Waits.  Each polls until its condition holds or its deadline passes.    *)
(***************************************************************************)

\* delivered(): the sink output before the outage together with the current one.
Delivered == preStop \cup sink

\* An RPC reaches the producer's network process through a client of this port.
Answers == plane["mfg-network"] = "up" /\ dialled = port

\* waitDelivered: exactly the named readings, no fewer and no more.
DeliveredIs(want) == Delivered = want

\* waitLogSize: GetLogCheckpoint answers and its size is exactly the wanted one.
LogSizeIs(want) == Answers /\ Len(mirror) = want

Awaited ==
    \/ At("delivered") /\ DeliveredIs(Step.arg)
    \/ At("logsize") /\ LogSizeIs(Step.arg)
    \/ At("subscriber") /\ Step.arg \in subscribed
    \/ At("awaitdown") /\ plane[Step.arg] = "down"
    \/ At("awaitready") /\ plane[Step.arg] = "up"

Wait ==
    /\ Awaited
    /\ Advance
    /\ UNCHANGED <<preStop, checkpoint, records, port, dialled, systemVars>>

\* Nothing the product does on its own is left to do.
Quiescent ==
    /\ \A p \in Planes : plane[p] # "stopping"
    /\ \A p \in Networks : plane[p] # "booting"
    /\ \A p \in Pipelines : plane[p] = "booting" => plane[NetworkOf(p)] # "up"
    /\ {p \in Pipelines : Alive(p)} \subseteq subscribed
    /\ ingress = <<>> /\ todo = {}
    /\ lots = <<>> \/ plane["mfg-network"] # "up"
    /\ mirror = log \/ ~Alive("mfg-pipeline") \/ plane["mfg-network"] # "up"

\* Mutant: only the delivery waits have a deadline.
ExpireDeliveredOnly ==
    /\ At("delivered")
    /\ ~Awaited /\ Quiescent
    /\ Fail(Step.op)
    /\ UNCHANGED <<preStop, checkpoint, records, port, dialled, systemVars>>

\* A wait runs into its deadline.  The deadlines (30s and more) are taken to
\* outlast whatever the product still has to do: see Quiescent.
Expire ==
    /\ At("delivered") \/ At("logsize") \/ At("subscriber") \/ At("awaitready")
    /\ ~Awaited /\ Quiescent
    /\ Fail(Step.op)
    /\ UNCHANGED <<preStop, checkpoint, records, port, dialled, systemVars>>

-----------------------------------------------------------------------------
(***************************************************************************)
(* Reads and assertions.                                                   *)
(***************************************************************************)

\* preStopLines = e.sinkLines()
Snapshot ==
    /\ At("snapshot")
    /\ preStop' = sink
    /\ Advance
    /\ UNCHANGED <<checkpoint, records, port, dialled, systemVars>>

\* cpBefore.  Here and below an RPC that fails is a t.Fatalf.
TakeCheckpoint ==
    /\ At("checkpoint")
    /\ checkpoint' = IF Answers THEN mirror ELSE checkpoint
    /\ IF Answers THEN Advance ELSE Fail("rpc")
    /\ UNCHANGED <<preStop, records, port, dialled, systemVars>>

\* tlogClient rebuilt on the URL restartMfg returned.
Redial ==
    /\ At("redial")
    /\ dialled' = port
    /\ Advance
    /\ UNCHANGED <<preStop, checkpoint, records, port, systemVars>>

\* cpAfter against cpBefore: the same size and the same head.
CompareCheckpoint ==
    /\ At("unchanged")
    /\ IF ~Answers THEN Fail("rpc")
       ELSE IF mirror # checkpoint THEN Fail("checkpoint")
       ELSE Advance
    /\ UNCHANGED <<preStop, checkpoint, records, port, dialled, systemVars>>

\* ListLogRecords and the pin on the record count.
ListRecords ==
    /\ At("records")
    /\ records' = IF Answers THEN mirror ELSE records
    /\ IF ~Answers THEN Fail("rpc")
       ELSE IF Len(mirror) # Step.arg THEN Fail("count")
       ELSE Advance
    /\ UNCHANGED <<preStop, checkpoint, port, dialled, systemVars>>

Payloads == [i \in DOMAIN records |-> Payload(records[i].hash, records[i].seq)]

\* Mutant: the loss window alone is asserted, as before E2E-F-028.
JudgementOfLoss(recon, lost) ==
    {check \in {"lost"} : recon.Lost # lost}

\* The checks that fail; sequences are wanted to be 1, 2, ...  The first two are
\* reported by t.Errorf, so that a failing one does not hide the next.
Judgement(recon, lost) ==
    {check \in {"sequences", "unlogged", "lost"} :
        CASE check = "sequences" -> recon.Sequences # [i \in 1..Len(records) |-> i]
          [] check = "unlogged"  -> recon.Unlogged # <<>>
          [] check = "lost"      -> recon.Lost # lost}

\* The last step of the body: what t.Errorf reported goes on to nothing else.
ReconcileRecords ==
    /\ At("reconcile")
    /\ verdict' = Judgement(ReconcileEmissionLog(Payloads, Delivered), Step.arg)
    /\ pc' = IF verdict' = {} THEN pc + 1 ELSE pc
    /\ UNCHANGED <<preStop, checkpoint, records, port, dialled, systemVars>>

Test ==
    \/ Publish \/ Stop \/ Start
    \/ Wait \/ Expire
    \/ Snapshot \/ TakeCheckpoint \/ Redial \/ CompareCheckpoint \/ ListRecords
    \/ ReconcileRecords

\* The product moves on its own until the verdict is in and t.Cleanup takes
\* everything down.
Running(A) == ~Over /\ A /\ UNCHANGED testVars

Ended == Over /\ UNCHANGED vars

Next == Test \/ Running(Product) \/ Ended

Spec == Init /\ [][Next]_vars

\* The test goes on while it can, and every process of the product that has
\* something to do does it.
Fairness ==
    /\ WF_vars(Test)
    /\ \A p \in Pipelines : WF_vars(Running(Subscribe(p)))
    /\ \A p \in Planes : WF_vars(Running(BecomeReady(p))) /\ WF_vars(Running(Exit(p)))
    /\ WF_vars(Running(Mint))
    /\ WF_vars(Running(AppendRecord \/ SkipRecord))
    /\ WF_vars(Running(PublishOutput \/ LoseOutput))
    /\ WF_vars(Running(Ship))
    /\ WF_vars(Running(Consume))

FairSpec == Spec /\ Fairness

-----------------------------------------------------------------------------
(***************************************************************************)
(* Properties.                                                             *)
(***************************************************************************)
\* The test never accuses a product that has no defect: none of its waits and
\* assertions fails, in any interleaving of loops, shipper, broker and stops.
NoFalseAlarm ==
    fault = "none" => verdict = {}

\* delivered() sees everything the consumer ever wrote, whichever runtime's
\* output stream survives the outage, at every step that reads it.
DeliveredViewIsComplete ==
    At("delivered") \/ At("reconcile") => Delivered = arrived

\* The producer restart leaves nothing behind: while both planes are down
\* between cpBefore and cpAfter, the network's copy already holds the whole log,
\* so an unchanged checkpoint is evidence about durability, not about shipping.
RestartFindsNothingInFlight ==
    At("unchanged") => mirror = log /\ todo = {} /\ ingress = <<>>

\* Whatever the test compares is settled when it compares it.
ComparesWhatIsSettled == DeliveredViewIsComplete /\ RestartFindsNothingInFlight

\* The system the test drives is the one EmissionLog describes.
System == INSTANCE EmissionLog
DrivesTheSystem == System!SystemSpec

\* Whatever the product does, the test comes to a verdict, which on a healthy
\* product (NoFalseAlarm) is a pass.
ComesToAVerdict == <>Over
=============================================================================
