---------------------------- MODULE MCLossWindow ----------------------------
(***************************************************************************)
(* The losswindow scenario for TLC, on a healthy product and on each of    *)
(* the defects it exists to catch.                                         *)
(***************************************************************************)
EXTENDS LossWindowScenario

\* A pass is earned, whatever the product's defect: the durable log really
\* numbers the five emissions one to five, the consumer really received all of
\* them but the two of its outage, and nothing was emitted off the record.
PassIsEarned ==
    Passed =>
      /\ HashesIn(log) = Readings
      /\ Len(log) = Cardinality(Readings)
      /\ \A i \in DOMAIN log : log[i].seq = i
      /\ arrived = Readings \ {2, 3}
      /\ skipped = {}

\* The checks that fail name the defect and nothing else: a forked emitter is
\* reported by the sequence view only, a lossy broker by a delivery wait, a
\* missing record by a wait for the log.
FailureNamesTheDefect ==
    Over => CASE fault = "fork"     -> verdict = {"sequences"}
              [] fault = "lossy"    -> verdict \subseteq {"delivered"}
              [] fault = "unlogged" -> verdict \subseteq {"logsize"}
              [] OTHER              -> verdict \subseteq {"delivered", "lost"}

\* FINDINGS.md, E2E-F-029: once a redelivery path exists, a delivery bug is
\* reported by a delivery wait and not "misreported as a loss-accounting bug".
LateDeliveryIsNotMisreported ==
    fault = "redeliver" => "lost" \notin verdict
=============================================================================
