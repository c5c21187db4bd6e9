--------------------------- MODULE LossAccounting ---------------------------
(***************************************************************************)
(* What scenarios/losswindow promises of an at-most-once stream with an    *)
(* emission log: every emission meets one final fate, the ledger numbers   *)
(* the emissions without a gap or a fork, and what a reader is served is   *)
(* the ledger up to some record.                                           *)
(***************************************************************************)
EXTENDS Naturals, Sequences

CONSTANT Readings

VARIABLES fate,    \* what became of each reading's credential
          ledger,  \* the durable emission log
          served   \* the part of it a relying party can read
vars == <<fate, ledger, served>>

Fates == {"unsent", "underway", "delivered", "lost"}
Entry == [hash : Readings, seq : Nat]

Init ==
    /\ fate = [r \in Readings |-> "unsent"]
    /\ ledger = <<>> /\ served = <<>>

Emit(r) ==
    /\ fate[r] = "unsent"
    /\ fate' = [fate EXCEPT ![r] = "underway"]
    /\ UNCHANGED <<ledger, served>>

Deliver(r) ==
    /\ fate[r] = "underway"
    /\ fate' = [fate EXCEPT ![r] = "delivered"]
    /\ UNCHANGED <<ledger, served>>

\* A stop may take every message under way with it.
Lose(S) ==
    /\ \A r \in S : fate[r] = "underway"
    /\ fate' = [r \in Readings |-> IF r \in S THEN "lost" ELSE fate[r]]
    /\ UNCHANGED <<ledger, served>>

\* Only what was emitted is entered, once, under the next number.
Enter(r) ==
    /\ fate[r] # "unsent"
    /\ \A i \in DOMAIN ledger : ledger[i].hash # r
    /\ ledger' = Append(ledger, [hash |-> r, seq |-> Len(ledger) + 1])
    /\ UNCHANGED <<fate, served>>

Serve ==
    /\ Len(served) < Len(ledger)
    /\ served' = Append(served, ledger[Len(served) + 1])
    /\ UNCHANGED <<fate, ledger>>

Next ==
    \/ \E r \in Readings : Emit(r) \/ Deliver(r) \/ Enter(r)
    \/ \E S \in SUBSET Readings : Lose(S)
    \/ Serve

Spec == Init /\ [][Next]_vars
=============================================================================
