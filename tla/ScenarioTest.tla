---------------------------- MODULE ScenarioTest ----------------------------
(***************************************************************************)
(* A scenario's test: the constant Body[story], a sequence of its calls,   *)
(* gone through step by step while the product runs in between.            *)
(***************************************************************************)
EXTENDS DataPlane

CONSTANT Body

VARIABLES
  pc,       \* the next step of the body
  verdict,  \* "running", "pass", or the operation that failed
  counted   \* acceptedBeforeTamper

testVars == <<pc, verdict, counted>>
vars     == <<testVars, planeVars>>

\* The steps that put a message into the world, and what they may put there.
StimuliOf(t) == {i \in DOMAIN Body[t] : Body[t][i].op \in {"publish", "push"}}
Messages(t)  == [body : {Body[t][i].msg.body : i \in StimuliOf(t)}, intact : BOOLEAN,
                 lineage : Seq(DOMAIN Topology[t].loops)]

\* A stimulus of the test's own: unsigned, and heard by the first loop of every way.
Fresh(t, step) ==
    /\ step.msg.lineage = <<>>
    /\ \A s \in SinksOf(t) :
          LET first == Topology[t].loops[WayTo[t][s][1]]
          IN  /\ first.hears = step.subject
              /\ first.org = step.org \/ <<step.org, first.org, step.subject>> \in Topology[t].grants

\* A credential with a payload that is not its own, on a subject between two loops.
Tampered(t, step) ==
    /\ ~step.msg.intact
    /\ \A l \in DOMAIN Topology[t].loops :
          Topology[t].loops[l].hears = step.subject => Topology[t].loops[l].role # "source"

ASSUME BodyAssumption ==
    /\ DOMAIN Body = DOMAIN Topology
    /\ \A t \in DOMAIN Body :
          /\ Len(Body[t]) \in Nat \ {0} /\ DOMAIN Body[t] = 1..Len(Body[t])
          /\ \A i \in StimuliOf(t) :
                /\ Body[t][i].msg \in Messages(t)
                /\ Fresh(t, Body[t][i]) \/ Tampered(t, Body[t][i])
                /\ \A j \in StimuliOf(t) : Body[t][i].msg.body = Body[t][j].msg.body => i = j

Script == Body[story]
Step   == Script[pc]
At(op) == verdict = "running" /\ Step.op = op

Init == PlaneInit /\ pc = 1 /\ verdict = "running" /\ counted = 0

Advance ==
    IF pc = Len(Script) THEN pc' = pc /\ verdict' = "pass"
    ELSE pc' = pc + 1 /\ UNCHANGED verdict
Fail == pc' = pc /\ verdict' = Step.op
Check(holds) == IF holds THEN Advance ELSE Fail

-----------------------------------------------------------------------------
(***************************************************************************)
(* What the test does to the system.                                       *)
(***************************************************************************)
Publish ==
    /\ At("publish")
    /\ PublishFrom(Step.org, Step.subject, Step.msg)
    /\ Advance /\ UNCHANGED counted

\* A push the edge refuses is published only by an edge that leaks; the status
\* answered is right either way.
Push ==
    /\ At("push")
    /\ IF Step.admitted \/ fault = "leak"
       THEN PublishFrom(Step.org, Step.subject, Step.msg)
       ELSE UNCHANGED planeVars
    /\ Advance /\ UNCHANGED counted

\* RestartNode up to its last step, which is gates of the body's own.
Restart ==
    /\ At("restart")
    /\ RestartLoops
    /\ Advance /\ UNCHANGED counted

StopNode ==
    /\ At("stop")
    /\ LoopsDown
    /\ Advance
    /\ UNCHANGED <<counted, story, fault, runtime, sinkVars, audited, published>>

-----------------------------------------------------------------------------
(***************************************************************************)
(* Waits.                                                                  *)
(***************************************************************************)

\* Mutant: any subscription the broker reports will do.
HasAnySubscriber(subject) == subscribed # {}

\* WaitForSubscriber: somebody holds a subscription on the subject.
HasSubscriber(subject) == \E l \in subscribed : Loop(l).hears = subject

Shows(sink, body) == \E msg \in Range(stream[sink]) : msg.body = body
HasVerdict(sink, body) == \E msg \in Range(stream[sink]) : msg.body = body /\ <<sink, msg>> \in audited

Waits == {"gate", "health", "each", "heads", "first", "record", "quarantine", "audit"}

Awaited ==
    \/ At("gate") /\ HasSubscriber(Step.arg)
    \/ At("health") /\ Step.arg \in subscribed
    \/ At("each") /\ \A s \in Step.sinks : stream[s] # <<>>
    \/ At("heads") /\ Cardinality(UNION {Range(stream[s]) : s \in Sinks}) = Step.count
    \/ At("record") /\ Shows(Step.sink, Step.body)
    \/ At("quarantine") /\ stream[Step.sink] # <<>>
    \/ At("audit") /\ HasVerdict(Step.sink, Step.body)

Wait ==
    /\ Awaited
    /\ Advance
    /\ UNCHANGED <<counted, planeVars>>

\* A wait for any record, whose content is asserted afterwards.
TakeFirst ==
    /\ At("first") /\ stream[Step.sink] # <<>>
    /\ Check(Head(stream[Step.sink]).body = Step.body)
    /\ UNCHANGED <<counted, planeVars>>

\* Mutant: only the gates have a deadline.
ExpireGates ==
    /\ At("gate") \/ At("health")
    /\ ~Awaited /\ Quiet
    /\ Fail
    /\ UNCHANGED <<counted, planeVars>>

\* A wait runs into its deadline, which outlasts what the product has to do.
Expire ==
    /\ \E op \in Waits : At(op)
    /\ ~Awaited /\ ~(At("first") /\ stream[Step.sink] # <<>>)
    /\ Quiet
    /\ Fail
    /\ UNCHANGED <<counted, planeVars>>

\* time.Sleep: whatever the product does in the meantime, or nothing.
Settle ==
    /\ At("settle")
    /\ Advance
    /\ UNCHANGED <<counted, planeVars>>

-----------------------------------------------------------------------------
(***************************************************************************)
(* Reads and assertions.                                                   *)
(***************************************************************************)
Mark ==
    /\ At("mark")
    /\ counted' = Len(stream[Step.sink])
    /\ Advance
    /\ UNCHANGED planeVars

Unmoved ==
    /\ At("unmoved")
    /\ Check(Len(stream[Step.sink]) = counted)
    /\ UNCHANGED <<counted, planeVars>>

\* Each sink shows exactly one record, the wanted one.
Matrix ==
    /\ At("matrix")
    /\ Check(\A s \in DOMAIN Step.want :
                Len(stream[s]) = 1 /\ stream[s][1].body = Step.want[s])
    /\ UNCHANGED <<counted, planeVars>>

\* Mutant: some verdict of the sink's answers for every head.
EvidenceOfAnyHead ==
    /\ At("evidence")
    /\ Check(\E pair \in audited : pair[1] = Step.sink)
    /\ UNCHANGED <<counted, planeVars>>

\* GetAuditStatus and ResolveVC for the head from before the restart.
Evidence ==
    /\ At("evidence")
    /\ Check(\E pair \in audited : pair[1] = Step.sink /\ pair[2].body = Step.body)
    /\ UNCHANGED <<counted, planeVars>>

Test ==
    \/ Publish \/ Push \/ Restart \/ StopNode
    \/ Wait \/ TakeFirst \/ Expire \/ Settle
    \/ Mark \/ Unmoved \/ Matrix \/ Evidence

Running(A) == verdict = "running" /\ A /\ UNCHANGED testVars

Product == \E l \in Loops : Subscribe(l) \/ Handle(l) \/ Audit(l)

Ended == verdict # "running" /\ UNCHANGED vars

Next == Test \/ Running(Product) \/ Ended

Spec == Init /\ [][Next]_vars

\* The test goes on while it can, every loop gets its subscription and handles
\* its inbox, and the audit runner gets to every head.
Fairness ==
    /\ WF_vars(Test)
    /\ \A t \in DOMAIN Topology : \A l \in DOMAIN Topology[t].loops :
          /\ WF_vars(story = t /\ Running(Subscribe(l)))
          /\ WF_vars(story = t /\ Running(Handle(l)))
          /\ WF_vars(story = t /\ Running(Audit(l)))

FairSpec == Spec /\ Fairness

-----------------------------------------------------------------------------
(***************************************************************************)
(* Properties.                                                             *)
(***************************************************************************)
\* The loops a step of the body waits for by name; a gate on a subject two loops
\* hear names neither.
WaitsFor(step) ==
    CASE step.op = "health" -> {step.arg}
      [] step.op = "gate" -> {l \in Loops : {k \in Loops : Loop(k).hears = step.arg} = {l}}
      [] OTHER -> {}

\* Before every stimulus, and since the loops last went down, the body waited for
\* every loop.
FullyGated ==
    \A i \in StimuliOf(story), l \in Loops :
       \E j \in 1..i : /\ l \in WaitsFor(Script[j])
                       /\ \A k \in j..i : Script[k].op \notin {"restart", "stop"}

\* No stimulus is published before every loop of the topology holds its
\* subscription, so none is lost on its way.
StimulusMeetsEveryLoop ==
    At("publish") \/ At("push") => subscribed = Loops

\* The gates of a body that waits for every loop are enough: no stimulus of its
\* overtakes a subscription, also after a restart.
GatesSuffice == FullyGated => StimulusMeetsEveryLoop

\* Such a body never accuses a product without a defect.
NoFalseAlarm == FullyGated /\ fault = "none" => verdict \in {"running", "pass"}

Foreign(body) == \E i \in DOMAIN published : published[i].body = body /\ ~published[i].intact

\* A pass of a body that does not guess at a quiet time (time.Sleep) says
\* something: no sink has got, or is about to get, what the edge
\* refused, what was substituted or what a filter drops; and every verdict the
\* body waited for is still served.
PassIsEarned ==
    verdict = "pass" /\ (\A i \in DOMAIN Script : Script[i].op # "settle") =>
       /\ \A s \in Sinks : \A msg \in Range(arrived[s]) \cup Range(inbox[s]) :
             ~Foreign(msg.body) /\ ~Blocked(msg.body, s)
       /\ \A i \in DOMAIN Script : Script[i].op = "audit" =>
             \E pair \in audited : pair[1] = Script[i].sink /\ pair[2].body = Script[i].body

\* Whatever the product does, the test comes to a verdict, which for a body that
\* waits for every loop and a healthy product (NoFalseAlarm) is a pass.
ComesToAVerdict == <>(verdict # "running")
=============================================================================
