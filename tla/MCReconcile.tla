---------------------------- MODULE MCReconcile ----------------------------
(***************************************************************************)
(* Every small emission log and every small set of received credentials,   *)
(* reached one record and one credential at a time, with the properties of *)
(* ReconcileEmissionLog stated on the inputs reached.                      *)
(***************************************************************************)
EXTENDS Reconcile

CONSTANTS MaxRecords,   \* bound on the length of the log
          MaxHash,      \* bound on the credential hashes
          MaxSeq        \* bound on the sequence numbers

ASSUME BoundsAssumption == MaxRecords \in Nat /\ MaxHash \in Nat /\ MaxSeq \in Nat

VARIABLES payloads, received
vars == <<payloads, received>>

Init == payloads = <<>> /\ received = {}

LogRecord ==
    /\ Len(payloads) < MaxRecords
    /\ \E p \in {Payload(h, s) : h \in 0..MaxHash, s \in 1..MaxSeq} \cup {Unparsable} :
          payloads' = Append(payloads, p)
    /\ UNCHANGED received

\* parseSink never lets the empty credential through, so NoHash is not received.
Receive ==
    /\ \E h \in (1..MaxHash) \ received : received' = received \cup {h}
    /\ UNCHANGED payloads

Next == LogRecord \/ Receive
Spec == Init /\ [][Next]_vars

-----------------------------------------------------------------------------
Result    == ReconcileEmissionLog(payloads, received)
Page(k)   == ReconcileEmissionLog(SubSeq(payloads, 1, k), received)
Sound     == \A i \in DOMAIN payloads : payloads[i].ok

\* The three views are what the doc comment of EmissionReconciliation says
\* they are, computed here without the loop: every sequence number in log
\* order, the numbers of the records nobody received in log order, and the
\* received credentials no record names, each once and ascending.  One malformed
\* record anywhere fails the whole read, and no view survives the failure: an
\* unreadable log must not read as nothing was lost.
ViewsAreTheReference ==
    /\ ~Sound => Result = Failed
    /\ Sound =>
      /\ ~Result.err
      /\ Result.Sequences = [i \in DOMAIN payloads |-> payloads[i].seq]
      /\ LET lost == Ascending({i \in DOMAIN payloads : payloads[i].hash \notin received})
         IN  Result.Lost = [k \in DOMAIN lost |-> payloads[lost[k]].seq]
      /\ ToSet(Result.Unlogged) = {h \in received : \A i \in DOMAIN payloads : payloads[i].hash # h}
      /\ \A i, j \in DOMAIN Result.Unlogged : i < j => Result.Unlogged[i] < Result.Unlogged[j]

\* The views fail separately: renumbering a record the consumer did receive
\* (the emitter forking back to 1) shows in Sequences and leaves Lost and
\* Unlogged as they were, so continuity can never be read off the loss set.
ForkShowsOnlyInSequences ==
    Sound =>
      \A i \in DOMAIN payloads, s \in 1..MaxSeq :
        payloads[i].hash \in received =>
          LET forked == ReconcileEmissionLog([payloads EXCEPT ![i].seq = s], received)
          IN  /\ forked.Lost = Result.Lost
              /\ forked.Unlogged = Result.Unlogged
              /\ (forked.Sequences = Result.Sequences) <=> (s = payloads[i].seq)

\* A short page of the log is never silent about what the consumer holds: a
\* credential recorded only past the page boundary is reported as unlogged,
\* and what the page does say about losses is a prefix of the full answer.
ShortPageIsNotSilent ==
    Sound =>
      \A k \in 0..Len(payloads) :
        /\ IsPrefix(Page(k).Lost, Result.Lost)
        /\ received \cap (HashesOf(payloads) \ HashesOf(SubSeq(payloads, 1, k)))
             \subseteq ToSet(Page(k).Unlogged)
=============================================================================
