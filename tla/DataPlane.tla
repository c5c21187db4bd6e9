----------------------------- MODULE DataPlane -----------------------------
(***************************************************************************)
(* What every scenario drives: the loops a node's configuration declares,  *)
(* over a broker that hands a message to the subscriptions there are at    *)
(* the moment of the publish and keeps nothing for a later one.            *)
(*                                                                         *)
(* Topology gives every story's configuration:                             *)
(*   loops   loop |-> [org, role, hears, says, drops]                      *)
(*   grants  the <<exporter, importer, subject>> of Grant                  *)
(* A message is a payload's body, whether the payload is the one that was  *)
(* signed, and the loops that signed it in turn.                           *)
(***************************************************************************)
EXTENDS Naturals, Sequences, FiniteSets, Functions

CONSTANTS
  Topology,
  Faults       \* the defects a product may have

VARIABLES
  story,       \* the scenario whose topology this is
  fault,       \* the defect of the product under test, or "none"
  runtime,     \* "process" or "compose"
  subscribed,  \* the loops that hold their subscription
  inbox,       \* loop |-> the messages it has not handled yet
  stream,      \* sink loop |-> what SinkLines or the delivery file shows of it
  audited,     \* the <<sink, message>> with a verdict
  published,   \* history: the messages the outside world published, in order
  arrived,     \* history: sink loop |-> all it ever wrote
  missed       \* history: the <<loop, message>> that reached no subscription

loopVars  == <<subscribed, inbox>>
sinkVars  == <<stream, arrived>>
planeVars == <<story, fault, runtime, loopVars, sinkVars, audited, published, missed>>

SinksOf(t) == {l \in DOMAIN Topology[t].loops : Topology[t].loops[l].role \in {"sink", "strict"}}

\* The loops a sink's messages pass through, itself the last: each hears what the
\* one before it says, and the first what only the outside world says.
LeadsTo(t, way, s) ==
    LET loop == Topology[t].loops
    IN  /\ way[Len(way)] = s /\ IsInjective(way)
        /\ \A i \in 1..Len(way)-1 : loop[way[i]].says = loop[way[i+1]].hears
        /\ \A k \in DOMAIN loop : loop[k].says # loop[way[1]].hears

Lines(t) == LET loop == DOMAIN Topology[t].loops
            IN  UNION {[1..n -> loop] : n \in 1..Cardinality(loop)}

ASSUME DataPlaneAssumption ==
    /\ Faults \subseteq {"none", "misroute", "unbound", "leak", "forget"}
    /\ \A t \in DOMAIN Topology :
          LET loop == Topology[t].loops
          IN  /\ \A k, l \in DOMAIN loop : loop[k].says = loop[l].hears =>
                    /\ k \notin SinksOf(t)
                    /\ loop[k].org = loop[l].org \/ <<loop[k].org, loop[l].org, loop[l].hears>>
                                                    \in Topology[t].grants
              /\ \A k, l \in DOMAIN loop \ SinksOf(t) : loop[k].says = loop[l].says => k = l
              /\ \A s \in SinksOf(t) : \E way \in Lines(t) : LeadsTo(t, way, s)

WayTo == [t \in DOMAIN Topology |->
             [s \in SinksOf(t) |-> CHOOSE way \in Lines(t) : LeadsTo(t, way, s)]]

Loops       == DOMAIN Topology[story].loops
Loop(l)     == Topology[story].loops[l]
Sinks       == SinksOf(story)
Way(s)      == WayTo[story][s]

PlaneInit ==
    /\ story \in DOMAIN Topology
    /\ fault \in Faults /\ runtime \in {"process", "compose"}
    /\ subscribed = {}
    /\ inbox = [l \in Loops |-> <<>>]
    /\ stream = [l \in Sinks |-> <<>>] /\ arrived = stream
    /\ audited = {} /\ published = <<>> /\ missed = {}

-----------------------------------------------------------------------------
\* The loops a message on subject from an org's account is addressed to.
Receivers(org, subject) ==
    {l \in Loops : /\ Loop(l).hears = subject
                   /\ Loop(l).org = org \/ <<org, Loop(l).org, subject>> \in Topology[story].grants}

\* Mutant: a message overtakes the ones waiting.
BroadcastLatestFirst(org, subject, msg, rest) ==
    /\ inbox' = [l \in Loops |-> IF l \in Receivers(org, subject) \cap subscribed
                                 THEN <<msg>> \o rest[l] ELSE rest[l]]
    /\ missed' = missed \cup ((Receivers(org, subject) \ subscribed) \X {msg})

\* A publish, where rest is what the loops still have to handle before it.
Broadcast(org, subject, msg, rest) ==
    /\ inbox' = [l \in Loops |-> IF l \in Receivers(org, subject) \cap subscribed
                                 THEN Append(rest[l], msg) ELSE rest[l]]
    /\ missed' = missed \cup ((Receivers(org, subject) \ subscribed) \X {msg})

\* An external producer publishes on one of an org's subjects.
PublishFrom(org, subject, msg) ==
    /\ Broadcast(org, subject, msg, inbox)
    /\ published' = Append(published, msg)
    /\ UNCHANGED <<story, fault, runtime, subscribed, sinkVars, audited>>

Subscribe(l) ==
    /\ l \notin subscribed
    /\ subscribed' = subscribed \cup {l}
    /\ UNCHANGED <<story, fault, runtime, inbox, sinkVars, audited, published, missed>>

\* The payload-binding gate and the loop's filter.
Accepts(l, msg) ==
    /\ msg.intact \/ Loop(l).role = "source" \/ fault = "unbound"
    /\ msg.body \notin Loop(l).drops \/ fault = "misroute"

\* A source signs what comes in, a chained loop signs it again.
SignedBy(l, msg) == [body |-> msg.body, intact |-> TRUE, lineage |-> Append(msg.lineage, l)]

Rest(l) == [inbox EXCEPT ![l] = Tail(@)]

\* What the loop refuses is gone.
Reject(l) ==
    /\ inbox[l] # <<>> /\ ~Accepts(l, Head(inbox[l]))
    /\ inbox' = Rest(l)
    /\ UNCHANGED <<story, fault, runtime, subscribed, sinkVars, audited, published, missed>>

Relay(l) ==
    /\ l \notin Sinks
    /\ inbox[l] # <<>> /\ Accepts(l, Head(inbox[l]))
    /\ Broadcast(Loop(l).org, Loop(l).says, SignedBy(l, Head(inbox[l])), Rest(l))
    /\ UNCHANGED <<story, fault, runtime, subscribed, sinkVars, audited, published>>

\* Mutant: a message is handed to the sink until it is acknowledged.
DeliverUnacknowledged(l) ==
    /\ l \in Sinks
    /\ inbox[l] # <<>> /\ Accepts(l, Head(inbox[l]))
    /\ stream' = [stream EXCEPT ![l] = Append(@, Head(inbox[l]))]
    /\ arrived' = [arrived EXCEPT ![l] = Append(@, Head(inbox[l]))]
    /\ UNCHANGED <<story, fault, runtime, loopVars, audited, published, missed>>

\* A sink's record on stdout or in its delivery file, a strict sink's on stderr.
Deliver(l) ==
    /\ l \in Sinks
    /\ inbox[l] # <<>> /\ Accepts(l, Head(inbox[l]))
    /\ stream' = [stream EXCEPT ![l] = Append(@, Head(inbox[l]))]
    /\ arrived' = [arrived EXCEPT ![l] = Append(@, Head(inbox[l]))]
    /\ inbox' = Rest(l)
    /\ UNCHANGED <<story, fault, runtime, subscribed, audited, published, missed>>

\* The audit runner's verdict on a consumed head.
Audit(l) ==
    /\ l \in Sinks
    /\ \E msg \in Range(arrived[l]) :
          /\ <<l, msg>> \notin audited
          /\ audited' = audited \cup {<<l, msg>>}
    /\ UNCHANGED <<story, fault, runtime, loopVars, sinkVars, published, missed>>

\* The pipelines go down: their subscriptions and what they held in memory go.
LoopsDown ==
    /\ subscribed' = {}
    /\ inbox' = [l \in Loops |-> <<>>]
    /\ missed' = missed \cup UNION {{l} \X Range(inbox[l]) : l \in Loops}

\* Mutant: the evidence is kept in memory.
RestartForgetting ==
    /\ LoopsDown
    /\ stream' = IF runtime = "process" THEN [l \in Sinks |-> <<>>] ELSE stream
    /\ audited' = {}
    /\ UNCHANGED <<story, fault, runtime, arrived, published>>

\* RestartNode: a fresh output stream in the process runtime, the same one in
\* compose; the evidence store is file-backed.
RestartLoops ==
    /\ LoopsDown
    /\ stream' = IF runtime = "process" THEN [l \in Sinks |-> <<>>] ELSE stream
    /\ audited' = IF fault = "forget" THEN {} ELSE audited
    /\ UNCHANGED <<story, fault, runtime, arrived, published>>

Handle(l) == Reject(l) \/ Relay(l) \/ Deliver(l)

\* Nothing the product does on its own is left to do.
Quiet ==
    /\ subscribed = Loops
    /\ \A l \in Loops : inbox[l] = <<>>
    /\ \A l \in Sinks : {l} \X Range(arrived[l]) \subseteq audited

-----------------------------------------------------------------------------
(***************************************************************************)
(* Properties of the data plane alone.                                     *)
(***************************************************************************)

\* Some filter on the way to the sink drops the body.
Blocked(body, s) == \E l \in Range(Way(s)) : body \in Loop(l).drops

\* Where a stimulus is, seen from a sink: arrived there, waiting in front of a loop
\* on the way, or gone because a loop on the way held no subscription (or went
\* down) when it came by.
Holding(body, queue) == {j \in DOMAIN queue : queue[j].body = body}

Arrivals(body, s) == {<<"arrived", s, i>> : i \in Holding(body, arrived[s])}
Waiting(body, l)  == {<<"waits", l, i>> : i \in Holding(body, inbox[l])}
Losses(body, s)   == {<<"gone", pair[1], pair[2]>> :
                         pair \in {p \in missed : p[1] \in Range(Way(s)) /\ p[2].body = body}}

Whereabouts(body, s) ==
    Arrivals(body, s) \cup Losses(body, s) \cup UNION {Waiting(body, l) : l \in Range(Way(s))}

\* Every stimulus is, for every sink whose filters let it through, in exactly one
\* place: neither lost without a trace nor seen twice.
EveryStimulusAccountedFor ==
    \A i \in DOMAIN published, s \in Sinks :
       published[i].intact /\ ~Blocked(published[i].body, s) =>
          \E place \in Whereabouts(published[i].body, s) :
             Whereabouts(published[i].body, s) = {place}

\* The credential a sink consumes was signed by exactly the loops on its way, in
\* their order: what the walk over previousCredential finds.
LineageIsTheRoute ==
    \A s \in Sinks : \A msg \in Range(arrived[s]) : Append(msg.lineage, s) = Way(s)

\* A sink sees what was published in the order it was published in.
SeenInPublishOrder ==
    \A s \in Sinks : \A i, j \in DOMAIN arrived[s] : i < j =>
       \E m, n \in DOMAIN published :
          m < n /\ published[m].body = arrived[s][i].body /\ published[n].body = arrived[s][j].body

\* Along the whole route nothing overtakes and no loop is skipped: each sink sees
\* the stimuli in order, under the signatures of the loops on their way in theirs.
ArrivesInPublishOrder == SeenInPublishOrder /\ LineageIsTheRoute
=============================================================================
