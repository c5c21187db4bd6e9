----------------------------- MODULE Deployment -----------------------------
(***************************************************************************)
(* The setups of the scenarios in both runtimes: what the harness does, as *)
(* a sequence of its calls (todo), around a broker, a PDP and the networks *)
(* and pipelines that boot, subscribe, sign, ship and stop on their own.   *)
(***************************************************************************)
EXTENDS Naturals, SequencesExt, NodeConfig

CONSTANTS
  Chain,        \* per story its organizations, upstream first
  MaxRestarts   \* bound: restarts of the first organization

Stories == {"single", "losswindow", "supplychain"}

ASSUME ChainAssumption ==
    /\ DOMAIN Chain = Stories
    /\ \A s \in Stories : Chain[s] \in Seq(STRING) /\ Chain[s] # <<>> /\ IsInjective(Chain[s])
    /\ Len(Chain["single"]) = 1
ASSUME RestartAssumption == MaxRestarts \in Nat

VARIABLES
  story, runtime,  \* the scenario's setup, and E2E_RUNTIME
  nodeIdentity,    \* of which of its identities an organization's NodeDID is
  gates,           \* the loops whose subscription is waited for
  conf,            \* node process |-> its rendered configuration
  todo,            \* what the harness has still to do
  phase,           \* "setup", "scenario", "restart", "stopped", "cleanup" or "ended"
  restarts,        \* restarts so far
  downFailed,      \* the docker compose down under way, or the last one, failed
  base,            \* org |-> the port the scenario dials its network on
  keys,            \* DID |-> the key in its pipeline's local keystore, 0 if none
  extKeys,         \* DID |-> the public half the harness keeps of it
  docs,            \* DID |-> the key its registry resolves it to, 0 if none
  minted,          \* the keys generated so far
  mounts,          \* the mounted trees a container can use
  up,              \* service |-> where its process or container is
  port,            \* org |-> the host port its network is published on
  subscribed,      \* the loops with a subscription
  unshipped,       \* the organizations whose log is ahead of its mirrored copy
  killed,          \* those whose pipeline was killed before it drained
  rejected,        \* a signed call was refused for good
  taken, mimic     \* the service whose port a stranger has; whether that answers 200

specVars    == <<story, runtime, nodeIdentity, gates, conf>>
callVars    == <<todo, phase, restarts, base, downFailed>>
keyVars     == <<keys, extKeys, docs, minted, mounts>>
processVars == <<up, port, subscribed, unshipped, killed, rejected, taken, mimic>>
vars        == <<specVars, callVars, keyVars, processVars>>

Orgs     == ToSet(Chain[story])
First    == Chain[story][1]
Identity == {"pipeline", "process"}
DIDs     == Orgs \X Identity
Network(o)  == <<o, "network">>
Pipeline(o) == <<o, "pipeline">>
NATS == <<"infra", "nats">>
PDP  == <<"infra", "pdp">>
Services == (Orgs \X {"network", "pipeline"}) \cup {NATS, PDP}

\* The loops a gate may name; a single node may have more than one.
Loops == IF story = "single" THEN {First} \X {"ingress", "src"} ELSE Orgs \X {"in"}

-----------------------------------------------------------------------------
(***************************************************************************)
(* Addresses: a port of one's own on the one loopback, or one name and one *)
(* fixed port per container.                                               *)
(***************************************************************************)
ListenAddr(s) == IF runtime = "process" THEN s
                 ELSE CASE s = NATS -> <<"", "4222">> [] s = PDP -> <<"", "9091">>
                        [] OTHER -> <<"", "8443">>

\* A service as the nodes reach it.
PeerURL(s) == URL(IF runtime = "process" THEN Loopback ELSE s, ListenAddr(s))

\* Who listens at a URL that is dialled from within a service.
Listener(from, url) ==
    {s \in Services :
        /\ url.port = ListenAddr(s)
        /\ IF runtime = "process" THEN url.host = Loopback
           ELSE url.host = s \/ (url.host = Loopback /\ s = from)}

\* Where an organization's loops come from: the one before it, or itself.
Before(chain, o) ==
    LET i == CHOOSE i \in DOMAIN chain : chain[i] = o
    IN  IF i = 1 THEN o ELSE chain[i - 1]
Upstream(o) == Before(Chain[story], o)

SeparatedConfigOf(o) ==
    [NetworkListenAddr    |-> ListenAddr(Network(o)),
     PipelineListenAddr   |-> ListenAddr(Pipeline(o)),
     RegistryID           |-> o,
     PDPBaseURL           |-> PeerURL(PDP),
     NATSURL              |-> PeerURL(NATS),
     NodeDID              |-> <<o, nodeIdentity>>,
     ResolverBaseURL      |-> IF story = "single" THEN PeerURL(Network(o)) ELSE NoURL,
     RegistryBaseURLs     |-> [p \in IF story = "single" THEN {} ELSE Orgs |-> PeerURL(Network(p))],
     LoopsBlock           |-> {[loop |-> l, from |-> PeerURL(Network(Upstream(o)))] :
                                 l \in {l \in Loops : l[1] = o}},
     AllowLoopback        |-> runtime = "process",
     AllowPrivateNetworks |-> runtime = "compose"]

\* Rendered once, for all restarts.
Rendered == [s \in Orgs \X {"network", "pipeline"} |->
                SplitNodeConfig(SeparatedConfigOf(s[1]))[s[2]]]

-----------------------------------------------------------------------------
(***************************************************************************)
(* The harness's sequences of calls.                                       *)
(***************************************************************************)
Do(op, arg) == <<[op |-> op, arg |-> arg]>>
Each(f(_), s) == FlattenSeq([i \in 1..Len(s) |-> f(s[i])])
Gated(S) == LET wait(l) == Do("subscribed", l) IN Each(wait, SetToSeq(S))

start(s) == Do("start", s) \o Do("ready", s)
stop(s)  == Do("stop", s) \o Do("gone", s)

\* Mutant: the pipeline first.
StartPipelineFirst(o) == start(Pipeline(o)) \o start(Network(o))
StartSeparatedNode(o) == start(Network(o)) \o start(Pipeline(o))
\* Mutant: the network goes first.
StopNetworkFirst(o) == stop(Network(o)) \o stop(Pipeline(o))
StopNode(o)         == stop(Pipeline(o)) \o stop(Network(o))

\* Pipelines before processes, whose directories nest under theirs.
ProvisionIdentities(o) == Do("provision", <<o, "pipeline">>) \o Do("provision", <<o, "process">>)

BootstrapExternal(o) ==
    Do("owner", o) \o Do("issue", <<o, "pipeline">>) \o Do("issue", <<o, "process">>)

setupProcess(s) ==
    LET started(o) == StartSeparatedNode(o) \o BootstrapExternal(o)
        whole(o)   == ProvisionIdentities(o) \o started(o)
    IN  CASE s = "single" ->
               start(PDP) \o start(NATS) \o ProvisionIdentities(First) \o Do("identity", First)
               \o StartSeparatedNode(First) \o Gated(gates) \o BootstrapExternal(First)
          [] s = "losswindow" ->
               start(NATS) \o start(PDP) \o Each(ProvisionIdentities, Chain[s])
               \o Each(started, Chain[s]) \o Gated(gates)
          [] s = "supplychain" ->
               start(NATS) \o start(PDP) \o Each(whole, Chain[s]) \o Gated(gates)

\* docker compose down -v: dependents first, then their volumes are gone.
ComposeDown == Each(StopNode, Reverse(Chain[story])) \o stop(NATS) \o stop(PDP) \o Do("remove", NATS)

\* Mutant: nothing an earlier run left behind is reclaimed.
ComposeUpOnly == Do("up", NATS)
ComposeUp     == ComposeDown \o Do("up", NATS)

setupCompose ==
    LET written(o) == ProvisionIdentities(o)
                      \o (IF story = "single" THEN Do("identity", o) ELSE <<>>)
                      \o Do("mount", <<o, "keys">>) \o Do("mount", <<o, "config">>)
        waitOrg(o) == Do("ready", Network(o)) \o Do("ready", Pipeline(o))
    IN  Do("wipe", NATS) \o Do("mount", <<"broker", "jwts">>) \o Each(written, Chain[story])
        \o ComposeUp \o Do("ready", NATS) \o Each(waitOrg, Chain[story]) \o Gated(gates)
        \o Each(BootstrapExternal, Chain[story])

\* The first organization's node goes down as a whole and comes back; only
\* startSingleNodeCompose restarts one service after the other.
RestartNode ==
    (IF story = "single" /\ runtime = "compose"
     THEN stop(Network(First)) \o start(Network(First)) \o stop(Pipeline(First)) \o start(Pipeline(First))
     ELSE StopNode(First) \o StartSeparatedNode(First))
    \o Gated({l \in gates : l[1] = First}) \o Do("return", First)

\* Mutant: the cleanup of the organization started first is never registered.
CleanupLastOnly == StopNode(Chain[story][Len(Chain[story])]) \o stop(NATS) \o stop(PDP)

\* ComposeUp registers the down that ends a test after the one that reclaims.
DownRegistered == \A i \in DOMAIN todo : todo[i].op # "remove"

\* t.Cleanup: last registered, first run; a restarted node was registered again,
\* and stopping what has not been started does nothing.
Cleanup ==
    IF runtime = "compose" THEN IF DownRegistered THEN ComposeDown ELSE <<>>
    ELSE Each(StopNode, IF restarts = 0 THEN Reverse(Chain[story])
                        ELSE <<First>> \o Reverse(Tail(Chain[story])))
         \o (IF story = "single" THEN stop(NATS) \o stop(PDP) ELSE stop(PDP) \o stop(NATS))

-----------------------------------------------------------------------------
\* Compose may find what a hard-killed run left: its containers, still running on
\* what was then under testdata/, and the documents they hold.  (A bound: that run
\* had registered all of its identities.)
Init ==
    /\ story \in Stories /\ runtime \in {"process", "compose"}
    /\ nodeIdentity \in IF story = "single" THEN Identity \cup {"owner"} ELSE {"process"}
    /\ gates \in IF story = "single" THEN SUBSET Loops ELSE {Loops}
    /\ conf = Rendered
    /\ todo = (IF runtime = "process" THEN setupProcess(story) ELSE setupCompose)
              \o Do("return", First)
    /\ phase = "setup" /\ restarts = 0 /\ downFailed = FALSE /\ base = [o \in Orgs |-> 0]
    /\ port = [o \in Orgs |-> 0] /\ subscribed = {} /\ unshipped = {} /\ killed = {}
    /\ rejected = FALSE /\ taken = {} /\ mimic = FALSE
    /\ extKeys = [d \in DIDs |-> 0]
    /\ \E leaked \in IF runtime = "compose" THEN {0, 1} ELSE {0} :
          /\ minted = leaked
          /\ keys = [d \in DIDs |-> leaked]
          /\ docs = [d \in Orgs \X (Identity \cup {"owner"}) |-> leaked]
          /\ mounts = IF leaked = 1 THEN (Orgs \X {"keys", "config"}) \cup {<<"broker", "jwts">>} ELSE {}
          /\ up = [s \in Services |-> IF leaked = 1 THEN "leaked" ELSE "down"]

At(op)  == todo # <<>> /\ Head(todo).op = op
Arg     == Head(todo).arg
Advance == todo' = Tail(todo) /\ UNCHANGED <<phase, restarts, base, downFailed>>
Fatal   == /\ phase' = "cleanup" /\ todo' = Cleanup /\ downFailed' = FALSE
           /\ UNCHANGED <<restarts, base>>

\* os.RemoveAll(testdata).
Wipe ==
    /\ At("wipe") /\ Advance
    /\ keys' = [d \in DIDs |-> 0] /\ mounts' = {}
    /\ UNCHANGED <<specVars, extKeys, docs, minted, processVars>>

\* ProvisionExternalIdentity: files only the test's own user can read, in a
\* directory that must not exist, within those of the DID's prefixes.
Provision ==
    /\ At("provision")
    /\ IF keys[Arg] # 0 \/ (Arg[2] = "pipeline" /\ keys[<<Arg[1], "process">>] # 0)
       THEN Fatal /\ UNCHANGED keyVars
       ELSE /\ Advance
            /\ keys' = [keys EXCEPT ![Arg] = minted + 1]
            /\ extKeys' = [extKeys EXCEPT ![Arg] = minted + 1]
            /\ minted' = minted + 1
            /\ mounts' = mounts \ {<<Arg[1], "keys">>}
            /\ UNCHANGED docs
    /\ UNCHANGED <<specVars, processVars>>

\* NodeDID must be one of the provisioned identities.
CheckIdentity ==
    /\ At("identity")
    /\ IF nodeIdentity \in Identity THEN Advance ELSE Fatal
    /\ UNCHANGED <<specVars, keyVars, processVars>>

\* WriteBrokerConfig, MakeContainerReadable and WriteNodeConfig.
Mount ==
    /\ At("mount") /\ Advance
    /\ mounts' = mounts \cup {Arg}
    /\ UNCHANGED <<specVars, keys, extKeys, docs, minted, processVars>>

\* A container is published on another host port each time it is started.
Published(S) ==
    /\ port' = [o \in Orgs |-> IF Network(o) \in S /\ (runtime = "compose" \/ port[o] = 0)
                               THEN port[o] + 1 ELSE port[o]]
    /\ UNCHANGED <<specVars, keyVars, subscribed, unshipped, killed, rejected, taken, mimic>>

Start == /\ At("start") /\ Advance
         /\ up' = [up EXCEPT ![Arg] = "booting"] /\ Published({Arg})

\* docker compose up -d: what is not running is started, a pipeline only once its
\* network is healthy; what still runs of an earlier stack is taken over as it is.
Up == /\ At("up") /\ Advance
      /\ up' = [s \in Services |->
                  CASE up[s] = "down"   -> IF s[2] = "pipeline" THEN "held" ELSE "booting"
                    [] up[s] = "leaked" -> "up"
                    [] OTHER            -> up[s]]
      /\ Published({s \in Services : up[s] = "down"})

\* The calls that are one docker compose down, at the start of ComposeUp and in
\* its cleanup.
OfDown == /\ runtime = "compose" /\ phase \in {"setup", "cleanup"}
          /\ At("stop") \/ At("gone") \/ At("remove")

\* It may fail at any of them: logged, and nothing more of it is done.
FailDown ==
    /\ OfDown /\ ~downFailed /\ downFailed' = TRUE
    /\ UNCHANGED <<todo, phase, restarts, base, specVars, keyVars, processVars>>

Skip == OfDown /\ downFailed /\ Advance /\ UNCHANGED <<specVars, keyVars, processVars>>

Done(op) == At(op) /\ ~(OfDown /\ downFailed) /\ Advance

Stop ==
    /\ Done("stop")
    /\ up' = [up EXCEPT ![Arg] = IF @ \in {"down", "held"} THEN "down" ELSE "stopping"]
    /\ UNCHANGED <<specVars, keyVars, port, subscribed, unshipped, killed, rejected, taken, mimic>>

\* The containers, and in them the registries.
RemoveAll ==
    /\ Done("remove")
    /\ docs' = [d \in DOMAIN docs |-> 0]
    /\ UNCHANGED <<specVars, keys, extKeys, minted, mounts, processVars>>

\* Somebody answers 200 at a service's own address.
Answers(s) == up[s] = "up" \/ (s \in taken /\ mimic)

\* waitHealthy fails at once if it sees that the process has exited;
\* StartPDPStub has nothing of the kind to see.
Awaited ==
    \/ At("gone") /\ up[Arg] = "down"
    \/ At("ready") /\ Answers(Arg) /\ (up[Arg] = "down" => Arg = PDP)
    \/ At("subscribed") /\ Arg \in subscribed

Wait == Awaited /\ Advance /\ UNCHANGED <<specVars, keyVars, processVars>>

\* The one service at an address, if it serves.
Serves(from, url, s) == Listener(from, url) = {s} /\ Answers(s)

\* The PDP stub's POST /verify: a whole allow envelope for a whole request.
Handler(request) ==
    IF {"resource", "action"} \subseteq DOMAIN request
    THEN [status |-> 200, decision |-> "allow", resource |-> request.resource, action |-> request.action]
    ELSE [status |-> 400]

\* The interceptors fail closed: nothing less is an allow.
TakenAsAllow(request, answer) ==
    answer = [status |-> 200, decision |-> "allow", resource |-> request.resource, action |-> request.action]

\* A network asks the PDP about every call made on it.
Asks(o) == up[PDP] = "up" /\ Serves(Network(o), conf[Network(o)].policyVerifier, PDP)
Allows(resource, action) ==
    LET request == [resource |-> resource, action |-> action] IN TakenAsAllow(request, Handler(request))

\* The registry of an organization, or a stranger in its place, takes a call.
Registered(o, d, key) ==
    IF up[Network(o)] # "up" THEN (Advance \/ Fatal) /\ UNCHANGED docs
    ELSE IF Asks(o) /\ Allows("did", "register") THEN Advance /\ docs' = [docs EXCEPT ![d] = key]
    ELSE Fatal /\ UNCHANGED docs

\* RegisterOwner, which may be repeated.
RegisterOwner ==
    /\ At("owner") /\ Registered(Arg, <<Arg, "owner">>, minted + 1)
    /\ minted' = minted + 1
    /\ UNCHANGED <<specVars, keys, extKeys, mounts, processVars>>

\* Mutant: the registry mints the key pair itself.
IssueMinting ==
    /\ At("issue") /\ Registered(Arg[1], Arg, minted + 1)
    /\ minted' = minted + 1
    /\ UNCHANGED <<specVars, keys, extKeys, mounts, processVars>>

\* IssuePipeline and IssueProcess with external_public_keys, which may not.
Issue ==
    /\ At("issue")
    /\ IF docs[Arg] # 0 \/ (up[Network(Arg[1])] = "up" /\ docs[<<Arg[1], "owner">>] = 0)
       THEN Fatal /\ UNCHANGED docs
       ELSE Registered(Arg[1], Arg, extKeys[Arg])
    /\ UNCHANGED <<specVars, keys, extKeys, minted, mounts, processVars>>

\* Mutant: the scenario goes on with the base URLs it had.
HandOverOldBase ==
    /\ At("return")
    /\ phase' = "scenario" /\ todo' = <<>>
    /\ base' = IF phase = "setup" THEN port ELSE base
    /\ UNCHANGED <<restarts, downFailed, specVars, keyVars, processVars>>

\* The scenario gets its environment, or the base URL valid after the restart.
HandOver ==
    /\ At("return")
    /\ phase' = "scenario" /\ todo' = <<>>
    /\ base' = IF phase = "setup" THEN port ELSE [base EXCEPT ![Arg] = port[Arg]]
    /\ UNCHANGED <<restarts, downFailed, specVars, keyVars, processVars>>

Restart ==
    /\ phase = "scenario" /\ story # "supplychain" /\ restarts < MaxRestarts
    /\ phase' = "restart" /\ todo' = RestartNode /\ restarts' = restarts + 1
    /\ UNCHANGED <<base, downFailed, specVars, keyVars, processVars>>

StopAndLeave ==
    /\ phase = "scenario" /\ story = "single"
    /\ phase' = "stopped" /\ todo' = StopNode(First)
    /\ UNCHANGED <<restarts, base, downFailed, specVars, keyVars, processVars>>

\* The body of the test returns, or fails.
Finish ==
    /\ phase \in {"scenario", "stopped"} /\ todo = <<>>
    /\ Fatal /\ UNCHANGED <<specVars, keyVars, processVars>>

End ==
    /\ phase = "cleanup" /\ todo = <<>>
    /\ phase' = "ended"
    /\ UNCHANGED <<todo, restarts, base, downFailed, specVars, keyVars, processVars>>

-----------------------------------------------------------------------------
(***************************************************************************)
(* The product.                                                            *)
(***************************************************************************)

Mounted(S) == runtime = "compose" => S \subseteq mounts

\* The boot preflights, and what /readyz asks after.
Bootable(s) ==
    /\ s \notin taken
    /\ s[2] \in {"network", "pipeline"} => Mounted({<<"broker", "jwts">>, <<s[1], "config">>})
    /\ s[2] = "network" =>
         /\ conf[s].loops = {} /\ AdmitsPDP(conf[s]) /\ Serves(s, conf[s].policyVerifier, PDP)
    /\ s[2] = "pipeline" =>
         /\ Mounted({<<s[1], "keys">>}) /\ \A i \in Identity : keys[<<s[1], i>>] # 0
         /\ Serves(s, conf[s].natsURL, NATS)
         /\ Serves(s, conf[s].vcStoreEndpoint, Network(s[1]))
         /\ Admits(conf[s], conf[s].vcStoreEndpoint)

BecomeReady(s) ==
    /\ up[s] = "booting" /\ Bootable(s)
    /\ up' = [up EXCEPT ![s] = "up"]
    /\ UNCHANGED <<port, subscribed, unshipped, killed, rejected, taken, mimic>>

\* depends_on: condition service_healthy.
Release(s) ==
    /\ up[s] = "held" /\ up[Network(s[1])] = "up"
    /\ up' = [up EXCEPT ![s] = "booting"]
    /\ UNCHANGED <<port, subscribed, unshipped, killed, rejected, taken, mimic>>

\* FreePort gave its listener up: anybody may have the port by now, or by the
\* time a restarted process binds it again.  (One port is lost at most.)
LosePort(s) ==
    /\ runtime = "process" /\ taken = {} /\ s # NATS /\ up[s] \in {"down", "booting"}
    /\ phase \in {"setup", "restart"}
    /\ taken' = {s} /\ mimic' \in BOOLEAN
    /\ UNCHANGED <<up, port, subscribed, unshipped, killed, rejected>>

FailToBind(s) ==
    /\ up[s] = "booting" /\ s \in taken
    /\ up' = [up EXCEPT ![s] = "down"] /\ subscribed' = {l \in subscribed : Pipeline(l[1]) # s}
    /\ UNCHANGED <<port, unshipped, killed, rejected, taken, mimic>>

CanSubscribe(l) ==
    /\ up[Pipeline(l[1])] \in {"booting", "up"} /\ Bootable(Pipeline(l[1]))
    /\ l \notin subscribed /\ \E c \in conf[Pipeline(l[1])].loops : c.loop = l

Subscribe(l) ==
    /\ CanSubscribe(l) /\ subscribed' = subscribed \cup {l}
    /\ UNCHANGED <<up, port, unshipped, killed, rejected, taken, mimic>>

\* A stimulus makes a pipeline sign and log; none comes before the scenario runs.
Emit(o) ==
    /\ phase \in {"scenario", "restart"} /\ up[Pipeline(o)] = "up"
    /\ unshipped' = unshipped \cup {o}
    /\ UNCHANGED <<up, port, subscribed, killed, rejected, taken, mimic>>

\* A call the network cannot verify or is told to deny is refused for good; one
\* that it, or its PDP, does not answer is signed again and retried.
Ship(o) ==
    /\ o \in unshipped /\ up[Pipeline(o)] \in {"up", "stopping"}
    /\ up[Network(o)] = "up" /\ Serves(Pipeline(o), conf[Pipeline(o)].vcStoreEndpoint, Network(o))
    /\ Asks(o)
    /\ LET d == conf[Pipeline(o)].nodeDID
       IN  IF docs[d] = keys[d] /\ Allows("log", "append") THEN unshipped' = unshipped \ {o} /\ UNCHANGED rejected
           ELSE rejected' = TRUE /\ UNCHANGED unshipped
    /\ UNCHANGED <<up, port, subscribed, killed, taken, mimic>>

Gone(s) ==
    /\ up[s] = "stopping" /\ up' = [up EXCEPT ![s] = "down"]
    /\ subscribed' = {l \in subscribed : Pipeline(l[1]) # s}
    /\ UNCHANGED <<port, unshipped, rejected, taken, mimic>>

Undrained(s) == s[2] = "pipeline" /\ s[1] \in unshipped

\* The pipeline's ordered shutdown drains into a network that takes its calls.
Exit(s) == Gone(s) /\ ~(Undrained(s) /\ up[Network(s[1])] = "up" /\ Asks(s[1])) /\ UNCHANGED killed

\* ... or ten seconds were not enough.
Kill(s) == Gone(s) /\ killed' = IF Undrained(s) THEN killed \cup {s[1]} ELSE killed

Alone(A) == A /\ UNCHANGED <<specVars, callVars, keyVars>>

Lifecycle(s) == BecomeReady(s) \/ Release(s) \/ FailToBind(s) \/ Exit(s) \/ Kill(s)

Product ==
    \/ \E s \in Services : Lifecycle(s) \/ LosePort(s)
    \/ \E l \in Loops : Subscribe(l)
    \/ \E o \in Orgs : Emit(o) \/ Ship(o)

\* Nothing that is booting or subscribing can get any further.
Idle ==
    /\ \A s \in Services : ~(up[s] = "booting" /\ Bootable(s))
                           /\ ~(up[s] = "held" /\ up[Network(s[1])] = "up")
    /\ \A l \in Loops : ~CanSubscribe(l)

\* A deadline, a process seen to have exited, or a container that is not healthy.
GiveUp ==
    /\ At("ready") \/ At("subscribed")
    /\ ~Awaited /\ Idle
    /\ Fatal /\ UNCHANGED <<specVars, keyVars, processVars>>

Call == \/ Wipe \/ Provision \/ CheckIdentity \/ Mount \/ Start \/ Up \/ Stop \/ RemoveAll
        \/ FailDown \/ Skip \/ Wait \/ RegisterOwner \/ Issue \/ HandOver \/ GiveUp \/ End

Next == Call \/ Restart \/ StopAndLeave \/ Finish \/ Alone(Product)

Spec == Init /\ [][Next]_vars

\* The harness goes on; what boots, subscribes and stops gets there, be it killed.
Fairness ==
    /\ WF_vars(Call)
    /\ WF_vars(Alone(\E s \in Services : Lifecycle(s)))
    /\ WF_vars(Alone(\E l \in Loops : Subscribe(l)))

FairSpec == Spec /\ Fairness

-----------------------------------------------------------------------------
\* Whatever address a node's two configurations name, it leads from where that
\* node runs to the service that is meant and passes the node's own guards: the
\* PDP, the broker, the registry its pipeline ships to, every registry DIDs are
\* resolved in, the one its loops come from, and what each network advertises to
\* its peers.  Each is derived on its own in the setups; the cross-organization
\* ones are dialled long after the last health check.
EveryAddressServes ==
    \A s \in Orgs \X {"network", "pipeline"} :
        LET Leads(url, t) == Listener(s, url) = {t} /\ Admits(conf[s], url)
        IN  /\ Leads(conf[s].policyVerifier, PDP) /\ AdmitsPDP(conf[s])
            /\ Leads(conf[s].natsURL, NATS)
            /\ Leads(conf[s].vcStoreEndpoint, Network(s[1]))
            /\ \A o \in Orgs : /\ Leads(RegistryURL(conf[s], o), Network(o))
                              /\ Leads(conf[Network(o)].vcResolver, Network(o))
            /\ \A c \in conf[s].loops : Leads(c.from, Network(Upstream(s[1])))

\* Whenever the scenario's body runs, after the setup and after every restart, in
\* both runtimes: every node is up and was dialled where it answers, the gated
\* loops hold their subscriptions and every identity resolves to the key it signs
\* with.  Only a stranger that answers the health checks in place of a process
\* that lost its port can make it otherwise.
ScenarioFindsItsNode ==
    phase = "scenario" /\ ~mimic =>
       /\ \A s \in Services : up[s] = "up"
       /\ base = port
       /\ gates \subseteq subscribed
       /\ \A d \in DIDs : docs[d] = keys[d] /\ keys[d] # 0

\* A pipeline only ever boots against a network that is ready.
PipelineMeetsItsNetwork ==
    \A o \in Orgs : up[Pipeline(o)] = "booting" => Answers(Network(o))

\* No signed call is refused for good: no pipeline signs before its identity is
\* registered, and each signs under the very key that was registered.
CallsAreVerified == ~rejected

\* A pipeline that is down left its whole log with its network, also when the
\* network was restarted around it or the test failed anywhere, unless it was killed
\* or a stranger had its network's place: network and PDP outlive the drain.
DownMeansDrained ==
    ~mimic => \A o \in Orgs : up[Pipeline(o)] = "down" => o \notin unshipped \/ o \in killed

\* A setup hands the nodes over, and so does every restart, unless a port was
\* lost or docker failed to take an earlier stack down: whatever an earlier run
\* left behind, the harness never fails a scenario over its own order of doing
\* things.
HandsOver ==
    nodeIdentity \in Identity =>
        (phase \in {"setup", "restart"} ~> phase = "scenario" \/ taken # {} \/ downFailed)

\* Once a test is over, wherever it failed, nothing that it started or took over
\* goes on running, unless docker failed to take it down.  (A setup that fails
\* before ComposeUp leaves an earlier run's stack to the next one.)
EndsClean ==
    phase = "cleanup" ~>
        phase = "ended" /\ (downFailed \/ \A s \in Services : up[s] \in {"down", "leaked"})
=============================================================================
