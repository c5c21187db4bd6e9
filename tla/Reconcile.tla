----------------------------- MODULE Reconcile -----------------------------
(***************************************************************************)
(* ReconcileEmissionLog of internal/harness/emissionlog.go: an emission    *)
(* log read against the credentials a consumer really received.            *)
(*                                                                         *)
(* A payload is what json.Unmarshal makes of one record: ok says whether   *)
(* it parsed, hash and seq are the two fields read from it.  A hash is a   *)
(* natural number, so that sort.Strings is the order of Nat, and a field   *)
(* the payload does not carry reads as NoHash, the empty string: Unmarshal *)
(* reports no error for a missing key.                                     *)
(***************************************************************************)
EXTENDS Integers, Sequences, FiniteSets, SequencesExt

NoHash == 0

Payload(h, s) == [ok |-> TRUE, hash |-> h, seq |-> s]
Unparsable    == [ok |-> FALSE, hash |-> NoHash, seq |-> 0]

HashesOf(payloads) == {payloads[i].hash : i \in DOMAIN payloads}

\* The zero EmissionReconciliation, and what is returned with an error.
Empty  == [err |-> FALSE, Sequences |-> <<>>, Lost |-> <<>>, Unlogged |-> <<>>]
Failed == [Empty EXCEPT !.err = TRUE]

-----------------------------------------------------------------------------
(***************************************************************************)
(* One turn of the loop over payloads.  The first malformed payload makes  *)
(* the function return, so nothing read before it survives.                *)
(***************************************************************************)
Account(out, payload, received) ==
    LET numbered == [out EXCEPT !.Sequences = Append(@, payload.seq)]
    IN  IF payload.hash \in received THEN numbered
        ELSE [numbered EXCEPT !.Lost = Append(@, payload.seq)]

\* Mutant: a sequence number seen before is not accounted again.
ReadRecordOncePerSequence(out, payload, received) ==
    IF out.err \/ ~payload.ok THEN Failed
    ELSE IF payload.seq \in ToSet(out.Sequences) THEN out
    ELSE Account(out, payload, received)

\* Mutant: a record that does not advance the sequence counts as lost, the
\* loss set being made to carry continuity as well.
ReadRecordForkIsLoss(out, payload, received) ==
    IF out.err \/ ~payload.ok THEN Failed
    ELSE IF out.Sequences # <<>> /\ payload.seq <= Last(out.Sequences)
         THEN Account(out, payload, {})
         ELSE Account(out, payload, received)

ReadRecord(out, payload, received) ==
    IF out.err \/ ~payload.ok THEN Failed ELSE Account(out, payload, received)

\* The elements of a set of numbers, each once and in order.
Ascending(S) ==
    CHOOSE s \in [1..Cardinality(S) -> S] : \A i, j \in DOMAIN s : i < j => s[i] < s[j]

\* Mutant: a consumer that holds more credentials than there are records is
\* not looked at further.
UnloggedUpToLogSize(payloads, received) ==
    IF Cardinality(received) > Len(payloads) THEN <<>>
    ELSE Ascending(received \ HashesOf(payloads))

\* The loop over delivered and the sort: what no record names.
Unlogged(payloads, received) == Ascending(received \ HashesOf(payloads))

\* The loop over payloads.
ReadRecords(payloads, received) ==
    LET out[n \in 0..Len(payloads)] ==
          IF n = 0 THEN Empty ELSE ReadRecord(out[n - 1], payloads[n], received)
    IN  out[Len(payloads)]

ReconcileEmissionLog(payloads, received) ==
    LET read == ReadRecords(payloads, received)
    IN  IF read.err THEN Failed
        ELSE [read EXCEPT !.Unlogged = Unlogged(payloads, received)]
=============================================================================
