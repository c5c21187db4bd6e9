------------------------- MODULE LossWindowScenario -------------------------
(***************************************************************************)
(* The body of TestLossWindow_EmissionLogNamesTheLoss as a script, with    *)
(* the operations of lwEnv expanded to the planes they stop and start; the *)
(* process and the compose half of lwEnv perform the same operations.      *)
(***************************************************************************)
EXTENDS LossWindow

None == "none"

publish(n)        == <<[op |-> "publish",    arg |-> n]>>
waitDelivered(S)  == <<[op |-> "delivered",  arg |-> S]>>
waitLogSize(n)    == <<[op |-> "logsize",    arg |-> n]>>
waitSubscriber(p) == <<[op |-> "subscriber", arg |-> p]>>
preStopLines      == <<[op |-> "snapshot",   arg |-> None]>>
cpBefore          == <<[op |-> "checkpoint", arg |-> None]>>
cpAfter           == <<[op |-> "unchanged",  arg |-> None]>>
newClient         == <<[op |-> "redial",     arg |-> None]>>
listLogRecords(n) == <<[op |-> "records",    arg |-> n]>>
reconcile(lost)   == <<[op |-> "reconcile",  arg |-> lost]>>

down(p) == <<[op |-> "stop",  arg |-> p], [op |-> "awaitdown",  arg |-> p]>>
up(p)   == <<[op |-> "start", arg |-> p], [op |-> "awaitready", arg |-> p]>>

\* The pipeline goes first, its shutdown drains into the network; back up the
\* network goes first, a pipeline's boot needs its registry.
stopRetail  == down("retail-pipeline") \o down("retail-network")
startRetail == up("retail-network") \o up("retail-pipeline")

\* Mutant: back to publishing without the wait for the ingress subscription.
restartMfgUngated ==
    down("mfg-pipeline") \o down("mfg-network") \o up("mfg-network") \o up("mfg-pipeline")

restartMfg == restartMfgUngated \o waitSubscriber("mfg-pipeline")

\* Mutant: the sink's output is not latched before the outage.
OutageWithoutSnapshot == stopRetail \o publish(2) \o publish(3) \o waitLogSize(3)

Outage == preStopLines \o OutageWithoutSnapshot

Recovery == startRetail \o waitSubscriber("retail-pipeline")
            \o publish(4) \o waitDelivered({1, 4})

\* Mutant: cpBefore is taken without waiting for the shipper.
ProducerRestartUngated == cpBefore \o restartMfg \o newClient \o cpAfter

ProducerRestart == waitLogSize(4) \o ProducerRestartUngated

\* Mutant: the log reaching size five is taken for the delivery of #5.
AfterRestartUngated == publish(5) \o waitLogSize(5)

AfterRestart == publish(5) \o waitLogSize(5) \o waitDelivered({1, 4, 5})

Reconciliation == listLogRecords(5) \o reconcile(<<2, 3>>)

ScenarioScript ==
    publish(1) \o waitDelivered({1}) \o Outage \o Recovery \o ProducerRestart
    \o AfterRestart \o Reconciliation
=============================================================================
