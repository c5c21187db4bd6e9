----------------------------- MODULE Aggregates -----------------------------
(***************************************************************************)
(* scenarios/sensoraggregate and scenarios/aggregatebundle: two sensor     *)
(* sources, a rollup that folds what it pooled whenever its window ticks,  *)
(* an archive sink, and a test that publishes a pair of readings again     *)
(* until some window suits it.  Only the sources are gated, and the phase  *)
(* of the ticker is nobody's to choose.                                    *)
(*                                                                         *)
(* A source credential is named by the reading it was minted for, and an   *)
(* aggregate by its window: what its manifest names, what its credential   *)
(* commits to and what its receipt serves as consumed.                     *)
(***************************************************************************)
EXTENDS Naturals, Sequences, FiniteSets

CONSTANTS
  MaxAttempts,  \* bound: pairs published after the first, before the deadline
  FaultChoices  \* the product defects a behaviour may start with

Stories  == {"sensoraggregate", "aggregatebundle"}
Faults   == {"none", "omit", "short", "silent", "unverified"}
Sensors  == {"a", "b"}
Readings == Sensors \X (0..MaxAttempts)
Windows  == [sources : SUBSET Readings, commits : SUBSET Readings, receipt : SUBSET Readings]
NoWindow == [sources |-> {}, commits |-> {}, receipt |-> {}]

ASSUME AttemptsAssumption == MaxAttempts \in Nat
ASSUME FaultsAssumption   == FaultChoices \subseteq Faults

VARIABLES
  story, fault,  \* the scenario, and the defect of the product
  serving,       \* the node is up
  subscribed,    \* those of the rollup and the archive that hold their subscriptions
  inbox,         \* sensor |-> the readings its source has not yet signed
  pool,          \* the source credentials of the rollup's open window
  underway,      \* the aggregates the archive has not yet written
  lines,         \* those on its stdout
  audited,       \* those with a verified linear chain and source commitment
  pc,            \* where the test is
  verdict,       \* "running", "pass", or where it failed
  due,           \* what of a pair is still to be published
  attempt,       \* pairs published after the first
  inspected,     \* how many lines the test has looked at
  head,          \* the aggregate it goes on with
  bundle         \* the sources it exported

choiceVars  == <<story, fault>>
productVars == <<serving, subscribed, inbox, pool, underway, lines, audited>>
testVars    == <<pc, verdict, due, attempt, inspected, head, bundle>>
vars        == <<choiceVars, productVars, testVars>>

publishPair(n) == << <<"a", n>>, <<"b", n>> >>

Init ==
    /\ story \in Stories /\ fault \in FaultChoices
    /\ serving = TRUE /\ subscribed = {}
    /\ inbox = [s \in Sensors |-> <<>>] /\ pool = {}
    /\ underway = <<>> /\ lines = <<>> /\ audited = {}
    /\ pc = "stimulate" /\ verdict = "running"
    /\ due = publishPair(0) /\ attempt = 0 /\ inspected = 0
    /\ head = NoWindow /\ bundle = {}

-----------------------------------------------------------------------------
(***************************************************************************)
(* The product.                                                            *)
(***************************************************************************)
Subscribe(l) ==
    /\ l \notin subscribed
    /\ subscribed' = subscribed \cup {l}
    /\ UNCHANGED <<serving, inbox, pool, underway, lines, audited>>

\* A source signs its next reading; the rollup pools it, or nobody has it.
Source(s) ==
    /\ inbox[s] # <<>>
    /\ inbox' = [inbox EXCEPT ![s] = Tail(@)]
    /\ pool' = IF "rollup" \in subscribed THEN pool \cup {Head(inbox[s])} ELSE pool
    /\ UNCHANGED <<serving, subscribed, underway, lines, audited>>

\* Defects: a credential that commits to less than its manifest names, a receipt
\* that serves less than was consumed.
Folds(S) ==
    {[sources |-> S, commits |-> c, receipt |-> r] :
        c \in IF fault = "omit"  THEN SUBSET S \ {S} ELSE {S},
        r \in IF fault = "short" THEN SUBSET S \ {S} ELSE {S}}

\* The window closes; one that took nothing in emits nothing.
Tick ==
    /\ pool # {}
    /\ pool' = {}
    /\ \E w \in Folds(pool) :
          underway' = IF "archive" \in subscribed THEN Append(underway, w) ELSE underway
    /\ UNCHANGED <<serving, subscribed, inbox, lines, audited>>

Archive ==
    /\ underway # <<>>
    /\ lines' = Append(lines, Head(underway))
    /\ underway' = Tail(underway)
    /\ UNCHANGED <<serving, subscribed, inbox, pool, audited>>

\* The audit runner recomputes the commitment from the receipt.  (Of the heads
\* nobody asks after it is left out.)
Auditable(w) == fault # "silent" /\ w.receipt = w.commits

Audit ==
    /\ head # NoWindow /\ head \notin audited /\ Auditable(head)
    /\ audited' = audited \cup {head}
    /\ UNCHANGED <<serving, subscribed, inbox, pool, underway, lines>>

ProductStep ==
    \/ \E l \in {"rollup", "archive"} : Subscribe(l)
    \/ \E s \in Sensors : Source(s)
    \/ Tick \/ Archive \/ Audit

Product == serving /\ verdict = "running" /\ ProductStep /\ UNCHANGED <<choiceVars, testVars>>

\* Nothing more comes of what was published.
Quiet == /\ subscribed = {"rollup", "archive"} /\ pool = {} /\ underway = <<>>
         /\ \A s \in Sensors : inbox[s] = <<>>

-----------------------------------------------------------------------------
(***************************************************************************)
(* The test.                                                               *)
(***************************************************************************)
At(step) == verdict = "running" /\ pc = step
GoTo(step) == pc' = step /\ UNCHANGED verdict
End(v) == verdict' = v /\ UNCHANGED pc
Check(holds, next) == IF ~holds THEN End(pc)
                      ELSE IF next = "pass" THEN End("pass") ELSE GoTo(next)

\* A source is gated, so it gets what is published.
Publish ==
    /\ At("stimulate") /\ due # <<>>
    /\ due' = Tail(due)
    /\ LET r == Head(due) IN inbox' = [inbox EXCEPT ![r[1]] = Append(@, r)]
    /\ UNCHANGED <<choiceVars, serving, subscribed, pool, underway, lines, audited,
                   pc, verdict, attempt, inspected, head, bundle>>

SensorsOf(S) == {r[1] : r \in S}

\* Mutant: sensoraggregate takes any window of two.
AcceptsAnyTwo(w) == Cardinality(w.sources) = 2

\* sensoraggregate asks for both issuers, aggregatebundle for two readings.
Accepts(w) ==
    /\ Cardinality(w.sources) = 2
    /\ story = "sensoraggregate" => SensorsOf(w.sources) = Sensors

\* What the test makes of a line; sensoraggregate fails on one whose credential
\* did not verify.
LookAt(w) ==
    /\ At("stimulate") /\ due = <<>>
    /\ IF story = "sensoraggregate" /\ fault = "unverified"
       THEN End("stimulate") /\ UNCHANGED head
       ELSE IF Accepts(w)
       THEN head' = w /\ GoTo(IF story = "sensoraggregate" THEN "recompute" ELSE "export")
       ELSE UNCHANGED <<pc, verdict, head>>
    /\ UNCHANGED <<choiceVars, productVars, due, attempt, bundle>>

\* Mutant: a scan looks at the newest line only.
InspectNewest ==
    /\ inspected < Len(lines) /\ LookAt(lines[Len(lines)])
    /\ inspected' = Len(lines)

\* The next line nobody has seen.
Inspect ==
    /\ inspected < Len(lines) /\ LookAt(lines[inspected + 1])
    /\ inspected' = inspected + 1

\* A fresh pair, once 2.5 seconds of scans have found nothing.
Restimulate ==
    /\ At("stimulate") /\ due = <<>> /\ inspected = Len(lines) /\ attempt < MaxAttempts
    /\ attempt' = attempt + 1
    /\ due' = publishPair(attempt')
    /\ UNCHANGED <<choiceVars, productVars, pc, verdict, inspected, head, bundle>>

\* The deadline is looked at before each scan; it is taken to outlast what the
\* product makes of the last pair, and the scan that follows it.
TimeOut ==
    /\ At("stimulate") /\ due = <<>> /\ inspected = Len(lines)
    /\ attempt = MaxAttempts /\ Quiet
    /\ End("stimulate")
    /\ UNCHANGED <<choiceVars, productVars, due, attempt, inspected, head, bundle>>

\* VerifySourceCommitment over the sources fetched one by one.
Recompute ==
    /\ At("recompute")
    /\ Check(head.commits = head.sources, "audit")
    /\ UNCHANGED <<choiceVars, productVars, due, attempt, inspected, head, bundle>>

\* Mutant: no deadline.
AwaitAuditForever ==
    /\ At("audit") /\ head \in audited
    /\ GoTo("consumed")
    /\ UNCHANGED <<choiceVars, productVars, due, attempt, inspected, head, bundle>>

\* GetAuditStatus until the verdict is there, or never will be.
AwaitAudit ==
    /\ At("audit")
    /\ \/ head \in audited /\ GoTo("consumed")
       \/ ~Auditable(head) /\ End("audit")
    /\ UNCHANGED <<choiceVars, productVars, due, attempt, inspected, head, bundle>>

\* GetConsumedSources, page by page, is the folded set.
CompareConsumed ==
    /\ At("consumed")
    /\ Check(head.receipt = head.sources, "pass")
    /\ UNCHANGED <<choiceVars, productVars, due, attempt, inspected, head, bundle>>

\* bundle export --aggregate-complete: the receipt and what it names.
Export ==
    /\ At("export")
    /\ bundle' = head.receipt /\ GoTo("stop")
    /\ UNCHANGED <<choiceVars, productVars, due, attempt, inspected, head>>

\* StopNode, with what its loops held in memory.
StopNode ==
    /\ At("stop")
    /\ serving' = FALSE /\ subscribed' = {} /\ pool' = {} /\ underway' = <<>>
    /\ inbox' = [s \in Sensors |-> <<>>]
    /\ GoTo("verify")
    /\ UNCHANGED <<choiceVars, lines, audited, due, attempt, inspected, head, bundle>>

\* Nobody serves any more; bundle verify recomputes the commitment from the
\* bundle, over two sources.
VerifyOffline ==
    /\ At("verify")
    /\ Check(~serving /\ bundle = head.commits /\ Cardinality(bundle) = 2, "pass")
    /\ UNCHANGED <<choiceVars, productVars, due, attempt, inspected, head, bundle>>

Test == \/ Publish \/ Inspect \/ Restimulate \/ TimeOut
        \/ Recompute \/ AwaitAudit \/ CompareConsumed
        \/ Export \/ StopNode \/ VerifyOffline

Ended == verdict # "running" /\ UNCHANGED vars

Next == Product \/ Test \/ Ended

Spec == Init /\ [][Next]_vars

\* The test goes on, and so does the product, one part of it after the other.
Fairness ==
    /\ WF_vars(Test)
    /\ WF_vars(Product)

FairSpec == Spec /\ Fairness

-----------------------------------------------------------------------------
\* A pass of sensoraggregate says that one window folded one reading of each
\* sensor, and a pass of either that the credential of the window commits to
\* exactly the two readings its manifest names and its receipt serves those,
\* whatever windows the retries were pooled into and split over, and whatever
\* the product's defect.
PassIsEarned ==
    verdict = "pass" =>
       /\ Cardinality(head.sources) = 2
       /\ head.commits = head.sources /\ head.receipt = head.sources
       /\ story = "sensoraggregate" =>
             SensorsOf(head.sources) = Sensors /\ head \in audited /\ fault # "unverified"
       /\ story = "aggregatebundle" => bundle = head.sources /\ ~serving

\* A healthy product fails neither test, except by the ticker: a test gives up
\* only if no window that reached the archive would have suited it.
NoFalseAlarm ==
    fault = "none" =>
       \/ verdict \in {"running", "pass"}
       \/ verdict = "stimulate" /\ \A i \in DOMAIN lines : ~Accepts(lines[i])

\* However the windows fall and whatever the product does, the test ends.
ComesToAVerdict == <>(verdict # "running")
=============================================================================
