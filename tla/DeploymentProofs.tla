-------------------------- MODULE DeploymentProofs --------------------------
(***************************************************************************)
(* The setups of the scenarios, for any chain of organizations and any     *)
(* number of restarts: the addresses the harness renders; the order its    *)
(* lists of calls keep; and, from these, what a scenario finds, whom a     *)
(* pipeline boots against, that every signed call is verified and that     *)
(* what goes down has drained.                                             *)
(***************************************************************************)
EXTENDS Deployment, FiniteSetTheorems, SequenceTheorems, TLAPS

(***************************************************************************)
(* The addresses.  Every URL in a configuration is the PeerURL of some     *)
(* service, and a PeerURL leads to its service from wherever it is dialled;*)
(* the configurations are written once and never change.                   *)
(***************************************************************************)
Nodes == Orgs \X {"network", "pipeline"}

SpecTypes ==
    /\ story \in Stories /\ runtime \in {"process", "compose"}

\* What a node's configuration says, of a network of its own or a list of them.
Addresses(s) ==
    /\ conf[s].policyVerifier = PeerURL(PDP) /\ conf[s].plainInternal = plainInternal([PDPBaseURL |-> PeerURL(PDP)])
    /\ conf[s].natsURL = PeerURL(NATS)
    /\ conf[s].vcStoreEndpoint = PeerURL(Network(s[1]))
    /\ conf[s].vcResolver = PeerURL(Network(s[1]))
    /\ conf[s].resolverBase \in {NoURL, PeerURL(Network(s[1]))}
    /\ conf[s].resolverBase # NoURL => Orgs = {s[1]}
    /\ conf[s].resolverBase = NoURL => \A o \in Orgs : conf[s].registryBases[o] = PeerURL(Network(o))
    /\ conf[s].allowLoopback = (runtime = "process")
    /\ conf[s].allowPrivate = (runtime = "compose")
    /\ \A c \in conf[s].loops : c.from = PeerURL(Network(Upstream(s[1])))

AddressInv == SpecTypes /\ \A s \in Nodes : Addresses(s)

-----------------------------------------------------------------------------
LEMMA OrgsOfChain ==
  ASSUME SpecTypes
  PROVE  /\ Chain[story] \in Seq(STRING) /\ Chain[story] # <<>>
         /\ Orgs = {Chain[story][i] : i \in DOMAIN Chain[story]}
         /\ story = "single" => Orgs = {First}
<1>1. Chain[story] \in Seq(STRING) /\ Chain[story] # <<>>
  BY ChainAssumption DEF SpecTypes
<1>2. Orgs = {Chain[story][i] : i \in DOMAIN Chain[story]}
  BY DEF Orgs, ToSet
<1>3. ASSUME story = "single" PROVE Orgs = {First}
  <2>1. DOMAIN Chain[story] = {1}
    BY <1>1, <1>3, ChainAssumption
  <2> QED  BY <2>1, <1>2 DEF First
<1> QED  BY <1>1, <1>2, <1>3

\* Whom an organization's loops come from is an organization.
LEMMA UpstreamIsOrg ==
  ASSUME SpecTypes, NEW o \in Orgs
  PROVE  Upstream(o) \in Orgs
<1> DEFINE i == CHOOSE i \in DOMAIN Chain[story] : Chain[story][i] = o
<1>1. i \in DOMAIN Chain[story] /\ Chain[story][i] = o
  BY OrgsOfChain
<1>2. i # 1 => i - 1 \in DOMAIN Chain[story]
  BY <1>1, OrgsOfChain
<1> QED  BY <1>1, <1>2, OrgsOfChain DEF Upstream, Before

\* A service's PeerURL leads to that service alone, from anywhere, and is one
\* the guards of the runtime's configurations let through.
LEMMA PeerURLLeads ==
  ASSUME SpecTypes, NEW from, NEW t \in Services
  PROVE  /\ Listener(from, PeerURL(t)) = {t}
         /\ (PeerURL(t).host = Loopback) = (runtime = "process")
         /\ PeerURL(t) # NoURL
<1>1. t # Loopback /\ t # <<"", "">>
  <2>1. t[2] \in {"network", "pipeline", "nats", "pdp"}
    BY DEF Services, NATS, PDP
  <2>2. Loopback[2] = "127.0.0.1" /\ <<"", "">>[2] = ""
    BY DEF Loopback
  <2> QED  BY <2>1, <2>2
<1>2. CASE runtime = "process"
  BY <1>1, <1>2 DEF PeerURL, ListenAddr, Listener, URL, NoURL, Loopback
<1>3. CASE runtime = "compose"
  BY <1>1, <1>3 DEF PeerURL, Listener, URL, NoURL, Loopback
<1> QED  BY <1>2, <1>3 DEF SpecTypes

LEMMA NetworkIsService ==
  ASSUME NEW o \in Orgs
  PROVE  Network(o) \in Services /\ NATS \in Services /\ PDP \in Services
BY DEF Network, Services

-----------------------------------------------------------------------------
\* What both halves of a SeparatedConfig carry over.
Carries(r, c) ==
    /\ r.policyVerifier = c.PDPBaseURL /\ r.natsURL = c.NATSURL
    /\ r.plainInternal = plainInternal([PDPBaseURL |-> c.PDPBaseURL])
    /\ r.vcStoreEndpoint = networkBaseURL(c) /\ r.vcResolver = networkBaseURL(c)
    /\ r.resolverBase = c.ResolverBaseURL /\ r.registryBases = c.RegistryBaseURLs
    /\ r.allowLoopback = c.AllowLoopback /\ r.allowPrivate = c.AllowPrivateNetworks
    /\ r.loops \in {{}, c.LoopsBlock}

LEMMA HalfCarries ==
  ASSUME NEW c, NEW half \in {"network", "pipeline"}
  PROVE  Carries(SplitNodeConfig(c)[half], c)
<1> DEFINE Half(listen, loops) ==
             Render([ListenAddr |-> listen, LoopsBlock |-> loops,
                     AllowLoopback |-> c.AllowLoopback,
                     AllowPrivateNetworks |-> c.AllowPrivateNetworks,
                     PDPBaseURL |-> c.PDPBaseURL, NATSURL |-> c.NATSURL, NodeDID |-> c.NodeDID,
                     ResolverBaseURL |-> c.ResolverBaseURL,
                     RegistryBaseURLs |-> c.RegistryBaseURLs,
                     VCStoreEndpoint |-> networkBaseURL(c)])
<1>1. /\ SplitNodeConfig(c)["network"] = Half(c.NetworkListenAddr, {})
      /\ SplitNodeConfig(c)["pipeline"] = Half(c.PipelineListenAddr, c.LoopsBlock)
  BY DEF SplitNodeConfig
<1>2. ASSUME NEW listen, NEW loops \in {{}, c.LoopsBlock}
      PROVE  Carries(Half(listen, loops), c)
  BY <1>2 DEF Carries, Render, plainInternal
<1> HIDE DEF Half
<1> QED  BY <1>1, <1>2

\* networkBaseURL finds the PeerURL of the organization's own network, whichever
\* of the two fields holds it.
LEMMA OwnNetwork ==
  ASSUME SpecTypes, NEW o \in Orgs
  PROVE  networkBaseURL(SeparatedConfigOf(o)) = PeerURL(Network(o))
<1>1. PeerURL(Network(o)) # NoURL
  BY PeerURLLeads, NetworkIsService
<1> QED  BY <1>1 DEF networkBaseURL, SeparatedConfigOf

LEMMA RenderedAddresses ==
  ASSUME SpecTypes, conf = Rendered, NEW s \in Nodes
  PROVE  Addresses(s)
<1> DEFINE o == s[1]
           c == SeparatedConfigOf(o)
<1>1. o \in Orgs /\ s[2] \in {"network", "pipeline"}
  BY DEF Nodes
<1>2. conf[s] = SplitNodeConfig(c)[s[2]]
  BY DEF Rendered, Nodes
<1>3. Carries(conf[s], c)
  BY <1>1, <1>2, HalfCarries
<1>4. /\ c.PDPBaseURL = PeerURL(PDP) /\ c.NATSURL = PeerURL(NATS)
      /\ c.AllowLoopback = (runtime = "process")
      /\ c.AllowPrivateNetworks = (runtime = "compose")
      /\ c.ResolverBaseURL = IF story = "single" THEN PeerURL(Network(o)) ELSE NoURL
  BY DEF SeparatedConfigOf
<1>5. story # "single" => \A p \in Orgs : c.RegistryBaseURLs[p] = PeerURL(Network(p))
  BY DEF SeparatedConfigOf
<1>6. \A l \in c.LoopsBlock : l.from = PeerURL(Network(Upstream(o)))
  BY DEF SeparatedConfigOf
<1>7. story = "single" => Orgs = {o}
  BY <1>1, OrgsOfChain
<1>8. PeerURL(Network(o)) # NoURL
  BY <1>1, PeerURLLeads, NetworkIsService
<1> HIDE DEF o, c
<1> QED
  BY <1>1, <1>3, <1>4, <1>5, <1>6, <1>7, <1>8, OwnNetwork DEF Addresses, Carries, o, c

LEMMA AddressesServe == AddressInv => EveryAddressServes
<1> SUFFICES ASSUME AddressInv, NEW s \in Nodes
             PROVE  /\ Listener(s, conf[s].policyVerifier) = {PDP} /\ Admits(conf[s], conf[s].policyVerifier)
                    /\ AdmitsPDP(conf[s])
                    /\ Listener(s, conf[s].natsURL) = {NATS} /\ Admits(conf[s], conf[s].natsURL)
                    /\ Listener(s, conf[s].vcStoreEndpoint) = {Network(s[1])}
                    /\ Admits(conf[s], conf[s].vcStoreEndpoint)
                    /\ \A o \in Orgs :
                         /\ Listener(s, RegistryURL(conf[s], o)) = {Network(o)}
                         /\ Admits(conf[s], RegistryURL(conf[s], o))
                         /\ Listener(s, conf[Network(o)].vcResolver) = {Network(o)}
                         /\ Admits(conf[s], conf[Network(o)].vcResolver)
                    /\ \A c \in conf[s].loops :
                         Listener(s, c.from) = {Network(Upstream(s[1]))} /\ Admits(conf[s], c.from)
  BY DEF EveryAddressServes, Nodes
<1> USE DEF AddressInv
<1>1. Addresses(s) /\ s[1] \in Orgs
  BY DEF Nodes
<1>2. \A t \in Services : Listener(s, PeerURL(t)) = {t} /\ Admits(conf[s], PeerURL(t))
  BY <1>1, PeerURLLeads DEF Admits, Addresses, SpecTypes
<1>3. \A o \in Orgs : Network(o) \in Services /\ NATS \in Services /\ PDP \in Services
  BY NetworkIsService
<1>4. AdmitsPDP(conf[s])
  BY <1>1 DEF Addresses, AdmitsPDP, plainInternal
<1>5. ASSUME NEW o \in Orgs
      PROVE  RegistryURL(conf[s], o) = PeerURL(Network(o))
  BY <1>1 DEF Addresses, RegistryURL
<1>6. ASSUME NEW o \in Orgs
      PROVE  conf[Network(o)].vcResolver = PeerURL(Network(o))
  <2>1. Network(o) \in Nodes /\ Network(o)[1] = o
    BY DEF Network, Nodes
  <2> QED  BY <2>1 DEF Addresses
<1>7. Upstream(s[1]) \in Orgs
  BY <1>1, UpstreamIsOrg
<1> QED  BY <1>1, <1>2, <1>3, <1>4, <1>5, <1>6, <1>7 DEF Addresses

LEMMA AddressInit == Init => AddressInv
<1> SUFFICES ASSUME Init PROVE AddressInv
  OBVIOUS
<1>1. SpecTypes /\ conf = Rendered
  BY DEF Init, SpecTypes
<1> QED  BY <1>1, RenderedAddresses DEF AddressInv

\* No step touches what was rendered.
LEMMA ConfigurationStays == [Next]_vars => UNCHANGED specVars
<1> SUFFICES ASSUME [Next]_vars PROVE UNCHANGED specVars
  OBVIOUS
<1>1. CASE Call
  BY <1>1 DEF Call, Wipe, Provision, CheckIdentity, Mount, Start, Up, Published, Stop, RemoveAll, FailDown, Skip, Wait,
     RegisterOwner, Issue, HandOver, GiveUp, End
<1>2. CASE Restart \/ StopAndLeave \/ Finish
  BY <1>2 DEF Restart, StopAndLeave, Finish
<1>3. CASE Alone(Product)
  BY <1>3 DEF Alone
<1>4. CASE UNCHANGED vars
  BY <1>4 DEF vars
<1> QED  BY <1>1, <1>2, <1>3, <1>4 DEF Next

LEMMA AddressStep == AddressInv /\ UNCHANGED specVars => AddressInv'
<1> SUFFICES ASSUME AddressInv, UNCHANGED specVars PROVE AddressInv'
  OBVIOUS
<1>1. /\ story' = story /\ runtime' = runtime /\ conf' = conf
  BY DEF specVars
<1>2. \A t : PeerURL(t)' = PeerURL(t)
  BY <1>1 DEF PeerURL, ListenAddr
<1>3. Orgs' = Orgs /\ \A o : Upstream(o)' = Upstream(o)
  BY <1>1 DEF Orgs, Upstream
<1> QED
  BY <1>1, <1>2, <1>3 DEF AddressInv, Addresses, SpecTypes, Nodes

\* For any organizations, in both runtimes: every address a node is configured
\* with leads from where the node runs to the service that is meant, past the
\* node's guards, for as long as the test runs.
THEOREM AddressesAlwaysServe == Spec => []EveryAddressServes
<1>1. Spec => []AddressInv
  BY AddressInit, ConfigurationStays, AddressStep, PTL DEF Spec
<1> QED  BY <1>1, AddressesServe, PTL

-----------------------------------------------------------------------------
(***************************************************************************)
(* The order of the calls.  A setup, a restart and a cleanup are lists of  *)
(* calls put together from shorter ones.  Every call has a stage; a list is*)
(* in order when, of two calls about the same organization or service, the *)
(* later one is of a later stage.  A list made of lists that are in order is*)
(* in order when their stages are, or when they are about different ones.  *)
(***************************************************************************)
Infra == {NATS, PDP}

Ops == {"wipe", "mount", "provision", "identity", "stop", "gone", "remove", "up", "start", "ready",
        "subscribed", "owner", "issue", "return"}

Item(op, arg) == [op |-> op, arg |-> arg]

\* The stage of a call. A node is stopped as a "whole", pipeline before network,
\* and then started; but one restart does each of its services "apart": the
\* network is stopped and started, and only then the pipeline.
Stage(c, how) ==
    CASE c.op = "wipe" -> 0
      [] c.op \in {"provision", "mount", "identity"} -> 1
      [] c.op = "stop" -> IF c.arg \in Infra THEN 6 ELSE IF c.arg[2] = "network" THEN 4 ELSE IF how = "apart" THEN 12 ELSE 2
      [] c.op = "gone" -> IF c.arg \in Infra THEN 6 ELSE IF c.arg[2] = "network" THEN 5 ELSE IF how = "apart" THEN 13 ELSE 3
      [] c.op = "remove" -> 8
      [] c.op = "up" -> 9
      [] c.op = "start" -> IF c.arg \in Infra THEN 9 ELSE IF c.arg[2] = "network" THEN 10 ELSE 14
      [] c.op = "ready" -> IF c.arg \in Infra THEN 10 ELSE IF c.arg[2] = "network" THEN 11 ELSE 15
      [] c.op \in {"subscribed", "owner", "issue"} -> 16
      [] c.op = "return" -> 17

\* Stages whose calls come in any order.
Flat == {1, 6, 16}

\* Calls about everything there is, and whom the others are about.
Everyone(c) == c.op \in {"wipe", "remove", "up", "return"} \/ (c.op \in {"stop", "gone"} /\ c.arg \in Infra)
Who(c) == IF c.op \in {"owner", "identity"} THEN <<c.arg>>
          ELSE IF c.arg \in Infra THEN c.arg ELSE <<c.arg[1]>>
Related(a, b) == Everyone(a) \/ Everyone(b) \/ Who(a) = Who(b)

MayFollow(a, b, how) ==
    Related(a, b) => \/ Stage(a, how) < Stage(b, how)
                     \/ Stage(a, how) = Stage(b, how) /\ Stage(a, how) \in Flat

Precede(S, T, how) == \A a \in S, b \in T : MayFollow(a, b, how)
InOrder(L, how) == \A i, j \in DOMAIN L : i < j => MayFollow(L[i], L[j], how)

\* The calls S, in order.
Script(L, S, how) == L \in Seq(S) /\ ToSet(L) = S /\ InOrder(L, how)

-----------------------------------------------------------------------------
\* A set of naturals that is not empty has a least member.
LEMMA LeastOf ==
  ASSUME NEW T, T \subseteq Nat, T # {}
  PROVE  \E m \in T : \A n \in T : m <= n
<1>1. IsWellFoundedOn(OpToRel(<, Nat), Nat)
  BY NatLessThanWellFounded
<1>2. PICK m \in T : \A n \in T : ~(<<n, m>> \in OpToRel(<, Nat))
  BY <1>1, WFMin
<1>3. ASSUME NEW n \in T PROVE m <= n
  <2>1. n \in Nat /\ m \in Nat
    OBVIOUS
  <2>2. ~(n < m)
    BY <1>2, <2>1 DEF OpToRel
  <2> QED  BY <2>1, <2>2
<1> QED  BY <1>3

\* One call is in order.
LEMMA ScriptDo ==
  ASSUME NEW op, NEW arg, NEW how
  PROVE  Script(Do(op, arg), {Item(op, arg)}, how)
<1> DEFINE c == Item(op, arg)
<1>1. Do(op, arg) = <<c>>
  BY DEF Do, Item
<1> HIDE DEF c
<1>2. <<c>> \in Seq({c}) /\ ToSet(<<c>>) = {c} /\ InOrder(<<c>>, how)
  BY <1>1 DEF ToSet, InOrder
<1> QED  BY <1>1, <1>2 DEF Script, c

\* Of two lists in order the second may come after the first.
LEMMA ScriptConcat ==
  ASSUME NEW L, NEW M, NEW S, NEW T, NEW how,
         Script(L, S, how), Script(M, T, how), Precede(S, T, how)
  PROVE  Script(L \o M, S \cup T, how)
<1> DEFINE N == L \o M
<1>0. L \in Seq(S \cup T) /\ M \in Seq(S \cup T)
  BY SeqMonotonic DEF Script
<1>1. /\ L \in Seq(S \cup T) /\ M \in Seq(S \cup T) /\ N \in Seq(S \cup T)
      /\ DOMAIN L = 1..Len(L) /\ DOMAIN M = 1..Len(M) /\ DOMAIN N = 1..(Len(L) + Len(M))
      /\ Len(L) \in Nat /\ Len(M) \in Nat
  BY <1>0
<1>2. \A i \in DOMAIN N : IF i \in DOMAIN L THEN N[i] = L[i]
                          ELSE i - Len(L) \in DOMAIN M /\ N[i] = M[i - Len(L)]
  BY <1>1
<1>3. \A i \in DOMAIN M : i + Len(L) \in DOMAIN N /\ N[i + Len(L)] = M[i]
  BY <1>1
<1>4. \A i \in DOMAIN L : i \in DOMAIN N /\ N[i] = L[i]
  BY <1>1
<1> HIDE DEF N
<1>5. ToSet(N) = S \cup T
  BY <1>2, <1>3, <1>4 DEF Script, ToSet
<1>6. ASSUME NEW i \in DOMAIN N, NEW j \in DOMAIN N, i < j
      PROVE  MayFollow(N[i], N[j], how)
  <2>1. CASE i \in DOMAIN L /\ j \in DOMAIN L
    BY <1>2, <1>6, <2>1 DEF Script, InOrder
  <2>2. CASE i \in DOMAIN L /\ j \notin DOMAIN L
    BY <1>2, <2>2 DEF Script, Precede, ToSet
  <2>3. CASE i \notin DOMAIN L
    <3>1. j \notin DOMAIN L /\ i - Len(L) < j - Len(L)
      BY <1>1, <1>6, <2>3
    <3> QED  BY <1>2, <2>3, <3>1 DEF Script, InOrder
  <2> QED  BY <2>1, <2>2, <2>3
<1> QED  BY <1>1, <1>5, <1>6 DEF Script, InOrder, N

-----------------------------------------------------------------------------
\* The concatenation FlattenSeq computes, of the first n lists.
Flattens(f, s, n) == f = [i \in 1..n |-> IF i = 1 THEN s[i] ELSE f[i-1] \o s[i]]

\* That concatenation exists.
LEMMA FlattenExists ==
  ASSUME NEW s, NEW N \in Nat
  PROVE  \E f : Flattens(f, s, N)
<1> DEFINE T == {n \in Nat : ~\E f : Flattens(f, s, n)}
<1>1. ASSUME T # {} PROVE FALSE
  <2>1. PICK n \in T : \A i \in T : n <= i
    <3> HIDE DEF T
    <3>1. T \subseteq Nat
      BY DEF T
    <3> QED  BY <1>1, <3>1, LeastOf
  <2>2. n # 0
    <3> DEFINE e == [i \in 1..0 |-> 0]
    <3>1. Flattens(e, s, 0)
      BY DEF Flattens
    <3> HIDE DEF e
    <3> QED  BY <2>1, <3>1
  <2>3. n \in Nat /\ n - 1 \in Nat /\ n - 1 \notin T
    BY <2>1, <2>2
  <2>4. PICK f : Flattens(f, s, n - 1)
    BY <2>3
  <2> DEFINE g == [i \in 1..n |-> IF i < n THEN f[i] ELSE IF i = 1 THEN s[i] ELSE f[i-1] \o s[i]]
  <2>5. ASSUME NEW i \in 1..n PROVE g[i] = IF i = 1 THEN s[i] ELSE g[i-1] \o s[i]
    <3>1. CASE i = n
      <4>1. i # 1 => i - 1 \in 1..n /\ i - 1 < n
        BY <2>3, <3>1
      <4> QED  BY <2>3, <3>1, <4>1
    <3>2. CASE i # n
      <4>1. i < n /\ i \in 1..(n - 1) /\ (i # 1 => i - 1 \in 1..n /\ i - 1 < n)
        BY <2>3, <3>2
      <4>2. f[i] = IF i = 1 THEN s[i] ELSE f[i-1] \o s[i]
        BY <2>4, <4>1 DEF Flattens
      <4>3. g[i] = f[i] /\ (i # 1 => g[i-1] = f[i-1])
        BY <4>1
      <4> HIDE DEF g
      <4> QED  BY <4>2, <4>3
    <3> QED  BY <3>1, <3>2
  <2>6. g = [i \in 1..n |-> g[i]]
    OBVIOUS
  <2> HIDE DEF g
  <2>7. [i \in 1..n |-> g[i]] = [i \in 1..n |-> IF i = 1 THEN s[i] ELSE g[i-1] \o s[i]]
    BY <2>5
  <2>8. Flattens(g, s, n)
    BY <2>6, <2>7 DEF Flattens
  <2> QED  BY <2>1, <2>8
<1> QED  BY <1>1

\* FlattenSeq is the last of those partial concatenations.
LEMMA FlattenSeqIs ==
  ASSUME NEW n \in Nat \ {0}, NEW s, Len(s) = n
  PROVE  \E f : Flattens(f, s, n) /\ FlattenSeq(s) = f[n]
<1> DEFINE g == CHOOSE f : Flattens(f, s, n)
<1>1. Flattens(g, s, n)
  BY FlattenExists
<1>2. FlattenSeq(s) = g[n]
  BY DEF FlattenSeq, Flattens
<1> HIDE DEF g
<1> QED  BY <1>1, <1>2

\* Scripts one after the other.
LEMMA ScriptEach ==
  ASSUME NEW n \in Nat, NEW s, DOMAIN s = 1..n, s = [i \in 1..n |-> s[i]], NEW S, NEW how,
         \A i \in 1..n : Script(s[i], S[i], how),
         \A i, j \in 1..n : i < j => Precede(S[i], S[j], how)
  PROVE  Script(FlattenSeq(s), UNION {S[i] : i \in 1..n}, how)
<1>1. Len(s) = n
  OBVIOUS
<1>2. CASE n = 0
  <2>1. s = <<>>
    BY <1>2
  <2>2. FlattenSeq(s) = s
    BY <1>1, <1>2 DEF FlattenSeq
  <2>3. UNION {S[i] : i \in 1..n} = {}
    BY <1>2
  <2>4. Script(<<>>, {}, how)
    BY DEF Script, ToSet, InOrder
  <2> QED  BY <2>1, <2>2, <2>3, <2>4
<1>3. CASE n # 0
  <2>1. PICK f : Flattens(f, s, n) /\ FlattenSeq(s) = f[n]
    BY <1>1, <1>3, FlattenSeqIs
  <2> DEFINE U(k) == UNION {S[i] : i \in 1..k}
             T == {k \in 1..n : ~Script(f[k], U(k), how)}
  <2>2. ASSUME T # {} PROVE FALSE
    <3>1. PICK k \in T : \A i \in T : k <= i
      <4>1. T \subseteq Nat
        OBVIOUS
      <4> HIDE DEF T
      <4> QED  BY <2>2, <4>1, LeastOf
    <3>2. k \in 1..n
      OBVIOUS
    <3>3. f[k] = IF k = 1 THEN s[k] ELSE f[k-1] \o s[k]
      BY <2>1, <3>2 DEF Flattens
    <3>4. CASE k = 1
      <4>1. U(1) = S[1]
        OBVIOUS
      <4>2. Script(f[k], S[1], how)
        BY <3>2, <3>3, <3>4
      <4> QED  BY <3>4, <4>1, <4>2
    <3>5. CASE k # 1
      <4>1. k - 1 \in 1..n /\ ~(k <= k - 1)
        BY <3>2, <3>5
      <4>2. Script(f[k-1], U(k-1), how)
        BY <3>1, <4>1
      <4>3. Precede(U(k-1), S[k], how)
        <5> SUFFICES ASSUME NEW a \in U(k-1), NEW b \in S[k] PROVE MayFollow(a, b, how)
          BY DEF Precede
        <5>1. PICK i \in 1..(k-1) : a \in S[i]
          OBVIOUS
        <5>2. i \in 1..n /\ i < k
          BY <3>2, <5>1
        <5> QED  BY <3>2, <5>1, <5>2 DEF Precede
      <4>4. U(k) = U(k-1) \cup S[k]
        <5>1. 1..k = 1..(k-1) \cup {k}
          BY <3>2, <3>5
        <5> QED  BY <5>1
      <4> HIDE DEF U
      <4>5. Script(s[k], S[k], how)
        BY <3>2
      <4>6. Script(f[k-1] \o s[k], U(k-1) \cup S[k], how)
        BY <4>2, <4>3, <4>5, ScriptConcat
      <4>7. Script(f[k], U(k), how)
        BY <3>3, <3>5, <4>4, <4>6
      <4> QED  BY <3>1, <4>7 DEF T
    <3> QED  BY <3>4, <3>5
  <2>3. n \in 1..n
    BY <1>3
  <2>4. Script(f[n], U(n), how)
    <3> HIDE DEF U
    <3> QED  BY <2>2, <2>3
  <2> QED  BY <2>1, <2>4
<1> QED  BY <1>2, <1>3

-----------------------------------------------------------------------------
\* Stretches of the stages, and calls about some alone.
Spans(S, lo, hi, how) == \A c \in S : Stage(c, how) \in lo..hi
About(S, W) == \A c \in S : ~Everyone(c) /\ Who(c) \in W

Line(L, S, lo, hi, how) == Script(L, S, how) /\ Spans(S, lo, hi, how)
Block(L, S, W, lo, hi, how) == Line(L, S, lo, hi, how) /\ About(S, W)

\* Calls of earlier stages come first; and calls about others in any order.
LEMMA PrecedeByStage ==
  ASSUME NEW S, NEW T, NEW how, NEW lo \in Nat, NEW hi \in Nat, NEW lo2 \in Nat, NEW hi2 \in Nat,
         Spans(S, lo, hi, how), Spans(T, lo2, hi2, how), hi < lo2 \/ (hi = lo2 /\ hi \in Flat)
  PROVE  Precede(S, T, how)
<1> SUFFICES ASSUME NEW a \in S, NEW b \in T PROVE MayFollow(a, b, how)
  BY DEF Precede
<1>1. Stage(a, how) \in lo..hi /\ Stage(b, how) \in lo2..hi2
  BY DEF Spans
<1> HIDE DEF Flat
<1> QED  BY <1>1 DEF MayFollow

LEMMA PrecedeByWho ==
  ASSUME NEW S, NEW T, NEW W, NEW V, NEW how, About(S, W), About(T, V), W \cap V = {}
  PROVE  Precede(S, T, how)
BY DEF About, Precede, MayFollow, Related

\* Two stretches of stages, one after the other, make one.
LEMMA LineThen ==
  ASSUME NEW L, NEW M, NEW S, NEW T, NEW how, NEW lo \in Nat, NEW hi \in Nat, NEW lo2 \in Nat, NEW hi2 \in Nat,
         Line(L, S, lo, hi, how), Line(M, T, lo2, hi2, how),
         hi < lo2 \/ (hi = lo2 /\ hi \in Flat), lo <= lo2, hi <= hi2
  PROVE  Line(L \o M, S \cup T, lo, hi2, how)
<1>1. Script(L \o M, S \cup T, how)
  BY PrecedeByStage, ScriptConcat DEF Line
<1>2. \A c \in S \cup T : Stage(c, how) \in lo..hi2
  BY DEF Line, Spans
<1> QED  BY <1>1, <1>2 DEF Line, Spans

LEMMA BlockThen ==
  ASSUME NEW L, NEW M, NEW S, NEW T, NEW W, NEW how,
         NEW lo \in Nat, NEW hi \in Nat, NEW lo2 \in Nat, NEW hi2 \in Nat,
         Block(L, S, W, lo, hi, how), Block(M, T, W, lo2, hi2, how),
         hi < lo2 \/ (hi = lo2 /\ hi \in Flat), lo <= lo2, hi <= hi2
  PROVE  Block(L \o M, S \cup T, W, lo, hi2, how)
<1>1. Line(L \o M, S \cup T, lo, hi2, how)
  BY LineThen DEF Block
<1>2. About(S \cup T, W)
  BY DEF Block, About
<1> QED  BY <1>1, <1>2 DEF Block

\* The same about each of several organizations, one after the other.
LEMMA EachOrg ==
  ASSUME NEW s \in Seq(STRING), IsInjective(s), NEW f, NEW S, NEW how, NEW lo \in Nat, NEW hi \in Nat,
         f = [i \in 1..Len(s) |-> f[i]],
         \A i \in 1..Len(s) : Block(f[i], S[s[i]], {<<s[i]>>}, lo, hi, how)
  PROVE  Block(FlattenSeq(f), UNION {S[o] : o \in ToSet(s)}, {<<o>> : o \in ToSet(s)}, lo, hi, how)
<1> DEFINE n == Len(s)
           R == [i \in 1..n |-> S[s[i]]]
           U == UNION {R[i] : i \in 1..n}
<1>1. n \in Nat /\ DOMAIN f = 1..n /\ DOMAIN s = 1..n
  OBVIOUS
<1>2. \A i \in 1..n : R[i] = S[s[i]]
  OBVIOUS
<1>3. U = UNION {S[o] : o \in ToSet(s)}
  BY <1>1 DEF ToSet
<1>4. ASSUME NEW i \in 1..n
      PROVE  Script(f[i], R[i], how) /\ Spans(R[i], lo, hi, how) /\ About(R[i], {<<s[i]>>})
  BY <1>2 DEF Block, Line
<1>5. ASSUME NEW i \in 1..n, NEW j \in 1..n, i < j
      PROVE  Precede(R[i], R[j], how)
  <2>1. s[i] # s[j]
    BY <1>1, <1>5 DEF IsInjective
  <2>2. {<<s[i]>>} \cap {<<s[j]>>} = {}
    BY <2>1
  <2>3. About(R[i], {<<s[i]>>}) /\ About(R[j], {<<s[j]>>})
    BY <1>4
  <2> HIDE DEF R
  <2> QED  BY <2>2, <2>3, PrecedeByWho
<1> HIDE DEF R
<1>6. Script(FlattenSeq(f), U, how)
  <2> HIDE DEF U
  <2>1. U = UNION {R[i] : i \in 1..n}
    BY DEF U
  <2> HIDE DEF n
  <2> QED  BY <1>1, <1>4, <1>5, <2>1, ScriptEach DEF n
<1>7. Spans(U, lo, hi, how)
  BY <1>4 DEF Spans
<1>8. About(U, {<<o>> : o \in ToSet(s)})
  <2> SUFFICES ASSUME NEW c \in U PROVE ~Everyone(c) /\ Who(c) \in {<<o>> : o \in ToSet(s)}
    BY DEF About
  <2>1. PICK i \in 1..n : c \in R[i]
    OBVIOUS
  <2>2. ~Everyone(c) /\ Who(c) = <<s[i]>>
    BY <1>4, <2>1 DEF About
  <2>3. s[i] \in ToSet(s)
    BY <1>1 DEF ToSet
  <2> QED  BY <2>2, <2>3
<1> HIDE DEF U
<1> QED  BY <1>3, <1>6, <1>7, <1>8 DEF Block, Line

-----------------------------------------------------------------------------
\* SetToSeq lists every member of a finite set, and nothing else.
LEMMA SetToSeqIs ==
  ASSUME NEW S, IsFiniteSet(S)
  PROVE  \E n \in Nat : /\ SetToSeq(S) \in [1..n -> S]
                        /\ \A x \in S : \E i \in 1..n : SetToSeq(S)[i] = x
<1> DEFINE n == Cardinality(S)
           e == SetToSeq(S)
<1>1. n \in Nat /\ ExistsBijection(1..n, S)
  BY FS_CardinalityType
<1>2. e \in Injection(1..n, S)
  <2>1. \E g \in [1..n -> S] : IsInjective(g)
    BY <1>1 DEF ExistsBijection, Bijection, Injection
  <2>2. e \in [1..n -> S] /\ IsInjective(e)
    BY <2>1 DEF SetToSeq
  <2> QED  BY <2>2 DEF Injection
<1>3. Cardinality(1..n) = n /\ IsFiniteSet(1..n)
  BY <1>1, FS_Interval
<1> HIDE DEF n, e
<1>4. e \in Surjection(1..n, S)
  BY <1>2, <1>3, FS_Injection DEF n
<1>5. e \in [1..n -> S] /\ \A x \in S : \E i \in 1..n : e[i] = x
  BY <1>4 DEF Surjection
<1> QED  BY <1>1, <1>5 DEF e

\* The loops are finitely many, for SetToSeq to list.
LEMMA FiniteLoops ==
  ASSUME SpecTypes
  PROVE  IsFiniteSet(Loops)
<1> DEFINE s == Chain[story]
           n == Len(s)
           planes == {"ingress", "src", "in"}
<1>1. s \in Seq(STRING) /\ n \in Nat /\ DOMAIN s = 1..n /\ Orgs = {s[i] : i \in DOMAIN s}
  BY OrgsOfChain
<1>2. s \in Surjection(1..n, Orgs)
  BY <1>1 DEF Surjection
<1>3. IsFiniteSet(Orgs)
  <2>1. n \in Int /\ 1 \in Int
    BY <1>1
  <2> HIDE DEF s, n
  <2>2. IsFiniteSet(1..n)
    BY <2>1, FS_Interval
  <2> QED  BY <1>2, <2>2, FS_Surjection
<1>4. IsFiniteSet(planes)
  <2>1. planes = (({} \cup {"ingress"}) \cup {"src"}) \cup {"in"}
    OBVIOUS
  <2>2. IsFiniteSet({} \cup {"ingress"})
    BY FS_EmptySet, FS_AddElement
  <2>3. IsFiniteSet(({} \cup {"ingress"}) \cup {"src"})
    BY <2>2, FS_AddElement
  <2>4. IsFiniteSet((({} \cup {"ingress"}) \cup {"src"}) \cup {"in"})
    BY <2>3, FS_AddElement
  <2> HIDE DEF planes
  <2> QED  BY <2>1, <2>4
<1>5. Loops \subseteq Orgs \X planes
  <2>1. story = "single" => First \in Orgs
    BY OrgsOfChain
  <2> QED  BY <2>1 DEF Loops
<1>6. IsFiniteSet(Orgs \X planes)
  <2> HIDE DEF planes
  <2> QED  BY <1>3, <1>4, FS_Product
<1> QED
  <2> HIDE DEF planes
  <2> QED  BY <1>5, <1>6, FS_Subset

-----------------------------------------------------------------------------
\* The stages, and whom the calls are about.
Words == {"network", "pipeline", "process", "keys", "config", "ingress", "src", "in"}

LEMMA NotInfra ==
  ASSUME NEW o, NEW w \in Words
  PROVE  <<o, w>> \notin Infra
BY DEF Words, Infra, NATS, PDP

\* The stages of the calls about broker and PDP, a node, an organization, everything.
LEMMA InfraCalls ==
  ASSUME NEW s \in Infra, NEW how
  PROVE  /\ Stage(Item("start", s), how) = 9 /\ Stage(Item("ready", s), how) = 10
         /\ Stage(Item("stop", s), how) = 6 /\ Stage(Item("gone", s), how) = 6
         /\ \A op \in {"start", "ready"} : ~Everyone(Item(op, s)) /\ Who(Item(op, s)) = s
         /\ \A op \in {"stop", "gone"} : Everyone(Item(op, s))
BY DEF Stage, Item, Everyone, Who

LEMMA NodeCalls ==
  ASSUME NEW o, NEW how
  PROVE  /\ Stage(Item("start", Network(o)), how) = 10 /\ Stage(Item("ready", Network(o)), how) = 11
         /\ Stage(Item("start", Pipeline(o)), how) = 14 /\ Stage(Item("ready", Pipeline(o)), how) = 15
         /\ Stage(Item("stop", Network(o)), how) = 4 /\ Stage(Item("gone", Network(o)), how) = 5
         /\ Stage(Item("stop", Pipeline(o)), how) = IF how = "apart" THEN 12 ELSE 2
         /\ Stage(Item("gone", Pipeline(o)), how) = IF how = "apart" THEN 13 ELSE 3
         /\ \A op \in {"start", "ready", "stop", "gone"}, s \in {Network(o), Pipeline(o)} :
              ~Everyone(Item(op, s)) /\ Who(Item(op, s)) = <<o>>
<1>1. Network(o) \notin Infra /\ Pipeline(o) \notin Infra
  BY NotInfra DEF Network, Pipeline, Words
<1>2. Network(o)[1] = o /\ Network(o)[2] = "network" /\ Pipeline(o)[1] = o /\ Pipeline(o)[2] = "pipeline"
  BY DEF Network, Pipeline
<1>3. Network(o) # Pipeline(o)
  BY <1>2
<1> QED  BY <1>1, <1>2, <1>3 DEF Stage, Item, Everyone, Who

LEMMA OrgCalls ==
  ASSUME NEW o, NEW how
  PROVE  /\ \A w \in Words : /\ Stage(Item("provision", <<o, w>>), how) = 1 /\ Stage(Item("issue", <<o, w>>), how) = 16
                             /\ Stage(Item("mount", <<o, w>>), how) = 1 /\ Stage(Item("subscribed", <<o, w>>), how) = 16
                             /\ \A op \in {"provision", "issue", "mount", "subscribed"} :
                                  ~Everyone(Item(op, <<o, w>>)) /\ Who(Item(op, <<o, w>>)) = <<o>>
         /\ Stage(Item("identity", o), how) = 1 /\ Stage(Item("owner", o), how) = 16
         /\ \A op \in {"identity", "owner"} : ~Everyone(Item(op, o)) /\ Who(Item(op, o)) = <<o>>
<1>1. \A w \in Words : <<o, w>> \notin Infra /\ <<o, w>>[1] = o
  BY NotInfra
<1> QED  BY <1>1 DEF Stage, Item, Everyone, Who

LEMMA AllCalls ==
  ASSUME NEW a, NEW how
  PROVE  /\ Stage(Item("wipe", a), how) = 0 /\ Stage(Item("remove", a), how) = 8
         /\ Stage(Item("up", a), how) = 9 /\ Stage(Item("return", a), how) = 17
         /\ Stage(Item("mount", a), how) = 1
         /\ \A op \in {"wipe", "remove", "up", "return"} : Everyone(Item(op, a))
BY DEF Stage, Item, Everyone

\* One call, and two to start or stop a service.
LEMMA LineDo ==
  ASSUME NEW op, NEW arg, NEW how, NEW k \in Nat, Stage(Item(op, arg), how) = k
  PROVE  Line(Do(op, arg), {Item(op, arg)}, k, k, how)
BY ScriptDo DEF Line, Spans

LEMMA BlockDo ==
  ASSUME NEW op, NEW arg, NEW how, NEW k \in Nat, NEW w,
         Stage(Item(op, arg), how) = k, ~Everyone(Item(op, arg)), Who(Item(op, arg)) = w
  PROVE  Block(Do(op, arg), {Item(op, arg)}, {w}, k, k, how)
BY LineDo DEF Block, About

StartCalls(s) == {Item("start", s)} \cup {Item("ready", s)}
StopCalls(s)  == {Item("stop", s)} \cup {Item("gone", s)}

\* Starting and stopping a service of a node keep the stages.
LEMMA NodeBlocks ==
  ASSUME NEW o, NEW how
  PROVE  /\ Block(start(Network(o)), StartCalls(Network(o)), {<<o>>}, 10, 11, how)
         /\ Block(start(Pipeline(o)), StartCalls(Pipeline(o)), {<<o>>}, 14, 15, how)
         /\ Block(stop(Network(o)), StopCalls(Network(o)), {<<o>>}, 4, 5, how)
         /\ how = "apart" => Block(stop(Pipeline(o)), StopCalls(Pipeline(o)), {<<o>>}, 12, 13, how)
         /\ how # "apart" => Block(stop(Pipeline(o)), StopCalls(Pipeline(o)), {<<o>>}, 2, 3, how)
<1>1. ASSUME NEW s \in {Network(o), Pipeline(o)}, NEW op \in {"start", "ready", "stop", "gone"},
             NEW k \in Nat, Stage(Item(op, s), how) = k
      PROVE  Block(Do(op, s), {Item(op, s)}, {<<o>>}, k, k, how)
  BY <1>1, NodeCalls, BlockDo
<1>2. ASSUME NEW s \in {Network(o), Pipeline(o)}, NEW k \in Nat, NEW m \in Nat, k < m,
             Stage(Item("start", s), how) = k, Stage(Item("ready", s), how) = m
      PROVE  Block(start(s), StartCalls(s), {<<o>>}, k, m, how)
  <2>1. /\ Block(Do("start", s), {Item("start", s)}, {<<o>>}, k, k, how)
        /\ Block(Do("ready", s), {Item("ready", s)}, {<<o>>}, m, m, how)
    BY <1>1, <1>2
  <2> QED  BY <1>2, <2>1, BlockThen DEF start, StartCalls
<1>3. ASSUME NEW s \in {Network(o), Pipeline(o)}, NEW k \in Nat, NEW m \in Nat, k < m,
             Stage(Item("stop", s), how) = k, Stage(Item("gone", s), how) = m
      PROVE  Block(stop(s), StopCalls(s), {<<o>>}, k, m, how)
  <2>1. /\ Block(Do("stop", s), {Item("stop", s)}, {<<o>>}, k, k, how)
        /\ Block(Do("gone", s), {Item("gone", s)}, {<<o>>}, m, m, how)
    BY <1>1, <1>3
  <2> QED  BY <1>3, <2>1, BlockThen DEF stop, StopCalls
<1> QED  BY <1>2, <1>3, NodeCalls

\* So do starting and stopping the broker and the PDP.
LEMMA InfraLines ==
  ASSUME NEW s \in Infra, NEW how
  PROVE  /\ Block(start(s), StartCalls(s), {s}, 9, 10, how)
         /\ Line(stop(s), StopCalls(s), 6, 6, how)
<1>1. /\ Block(Do("start", s), {Item("start", s)}, {s}, 9, 9, how)
      /\ Block(Do("ready", s), {Item("ready", s)}, {s}, 10, 10, how)
  BY InfraCalls, BlockDo
<1>2. /\ Line(Do("stop", s), {Item("stop", s)}, 6, 6, how)
      /\ Line(Do("gone", s), {Item("gone", s)}, 6, 6, how)
  BY InfraCalls, LineDo
<1>3. Block(start(s), StartCalls(s), {s}, 9, 10, how)
  BY <1>1, BlockThen DEF start, StartCalls
<1>4. 6 \in Flat
  BY DEF Flat
<1>5. Line(stop(s), StopCalls(s), 6, 6, how)
  BY <1>2, <1>4, LineThen DEF stop, StopCalls
<1> QED  BY <1>3, <1>5

\* The waits for some of the loops' subscriptions.
Waits(G) == {Item("subscribed", l) : l \in G}

\* Waiting for subscriptions is one stage.
LEMMA GatedLine ==
  ASSUME SpecTypes, NEW G, G \subseteq Loops, NEW how
  PROVE  /\ Line(Gated(G), Waits(G), 16, 16, how)
         /\ About(Waits(G), {<<o>> : o \in Orgs})
<1> DEFINE q == SetToSeq(G)
<1>1. PICK n \in Nat : q \in [1..n -> G] /\ \A x \in G : \E i \in 1..n : q[i] = x
  <2>1. IsFiniteSet(G)
    BY FiniteLoops, FS_Subset
  <2> QED  BY <2>1, SetToSeqIs
<1> HIDE DEF q
<1> DEFINE s == [i \in 1..n |-> Do("subscribed", q[i])]
           S == [i \in 1..n |-> {Item("subscribed", q[i])}]
<1>2. Gated(G) = FlattenSeq(s)
  <2>1. Len(q) = n
    BY <1>1
  <2> QED  BY <2>1 DEF Gated, Each, q
<1>3. \A l \in G : l \in Orgs \X Words
  <2>1. story = "single" => First \in Orgs
    BY OrgsOfChain
  <2> QED  BY <2>1 DEF Loops, Words
<1>4. ASSUME NEW l \in G
      PROVE  /\ Stage(Item("subscribed", l), how) = 16 /\ ~Everyone(Item("subscribed", l))
             /\ Who(Item("subscribed", l)) \in {<<o>> : o \in Orgs}
  <2>1. PICK o \in Orgs, w \in Words : l = <<o, w>>
    BY <1>3
  <2> QED  BY <2>1, OrgCalls
<1>5. UNION {S[i] : i \in 1..n} = Waits(G)
  BY <1>1 DEF Waits
<1>6. \A i \in 1..n : Script(s[i], S[i], how)
  BY ScriptDo
<1>7. ASSUME NEW i \in 1..n PROVE Spans(S[i], 16, 16, how)
  <2>1. q[i] \in G
    BY <1>1
  <2> QED  BY <1>4, <2>1 DEF Spans
<1>8. \A i, j \in 1..n : i < j => Precede(S[i], S[j], how)
  <2> HIDE DEF S
  <2>1. 16 \in Flat
    BY DEF Flat
  <2> QED  BY <1>7, <2>1, PrecedeByStage
<1>9. Script(FlattenSeq(s), Waits(G), how)
  <2>1. DOMAIN s = 1..n /\ s = [i \in 1..n |-> s[i]]
    OBVIOUS
  <2> HIDE DEF s, S
  <2> QED  BY <1>5, <1>6, <1>8, <2>1, ScriptEach
<1>10. Spans(Waits(G), 16, 16, how) /\ About(Waits(G), {<<o>> : o \in Orgs})
  BY <1>4 DEF Spans, About, Waits
<1> HIDE DEF s
<1> QED  BY <1>2, <1>9, <1>10 DEF Line

-----------------------------------------------------------------------------
(***************************************************************************)
(* What is done about each organization.                                   *)
(***************************************************************************)
ProvisionCalls(o) == {Item("provision", <<o, "pipeline">>)} \cup {Item("provision", <<o, "process">>)}
StartNodeCalls(o) == StartCalls(Network(o)) \cup StartCalls(Pipeline(o))
StopNodeCalls(o)  == StopCalls(Pipeline(o)) \cup StopCalls(Network(o))
BootstrapCalls(o) == ({Item("owner", o)} \cup {Item("issue", <<o, "pipeline">>)}) \cup {Item("issue", <<o, "process">>)}
WrittenCalls(o)   == (ProvisionCalls(o) \cup (IF story = "single" THEN {Item("identity", o)} ELSE {}))
                     \cup {Item("mount", <<o, "keys">>)} \cup {Item("mount", <<o, "config">>)}
WaitCalls(o)      == {Item("ready", Network(o))} \cup {Item("ready", Pipeline(o))}

\* Every function of the harness about one organization keeps the stages.
LEMMA OrgBlocks ==
  ASSUME NEW o
  PROVE  /\ Block(ProvisionIdentities(o), ProvisionCalls(o), {<<o>>}, 1, 1, "whole")
         /\ Block(StartSeparatedNode(o), StartNodeCalls(o), {<<o>>}, 10, 15, "whole")
         /\ Block(StopNode(o), StopNodeCalls(o), {<<o>>}, 2, 5, "whole")
         /\ Block(BootstrapExternal(o), BootstrapCalls(o), {<<o>>}, 16, 16, "whole")
         /\ Block(Do("ready", Network(o)) \o Do("ready", Pipeline(o)), WaitCalls(o), {<<o>>}, 11, 15, "whole")
<1>0. 1 \in Flat /\ 16 \in Flat
  BY DEF Flat
<1>2. ASSUME NEW w \in {"pipeline", "process"}
      PROVE  /\ Block(Do("provision", <<o, w>>), {Item("provision", <<o, w>>)}, {<<o>>}, 1, 1, "whole")
             /\ Block(Do("issue", <<o, w>>), {Item("issue", <<o, w>>)}, {<<o>>}, 16, 16, "whole")
  <2>1. w \in Words
    BY DEF Words
  <2>2. /\ Stage(Item("provision", <<o, w>>), "whole") = 1
        /\ ~Everyone(Item("provision", <<o, w>>)) /\ Who(Item("provision", <<o, w>>)) = <<o>>
    BY <2>1, OrgCalls
  <2>5. /\ Stage(Item("issue", <<o, w>>), "whole") = 16
        /\ ~Everyone(Item("issue", <<o, w>>)) /\ Who(Item("issue", <<o, w>>)) = <<o>>
    BY <2>1, OrgCalls
  <2>3. Block(Do("provision", <<o, w>>), {Item("provision", <<o, w>>)}, {<<o>>}, 1, 1, "whole")
    BY <2>2, BlockDo
  <2>4. Block(Do("issue", <<o, w>>), {Item("issue", <<o, w>>)}, {<<o>>}, 16, 16, "whole")
    BY <2>5, BlockDo
  <2> QED  BY <2>3, <2>4
<1>3. Block(ProvisionIdentities(o), ProvisionCalls(o), {<<o>>}, 1, 1, "whole")
  BY <1>0, <1>2, BlockThen DEF ProvisionIdentities, ProvisionCalls
<1>4. Block(StartSeparatedNode(o), StartNodeCalls(o), {<<o>>}, 10, 15, "whole")
  <2>1. /\ Block(start(Network(o)), StartCalls(Network(o)), {<<o>>}, 10, 11, "whole")
        /\ Block(start(Pipeline(o)), StartCalls(Pipeline(o)), {<<o>>}, 14, 15, "whole")
    BY NodeBlocks
  <2> QED  BY <2>1, BlockThen DEF StartSeparatedNode, StartNodeCalls
<1>5. Block(StopNode(o), StopNodeCalls(o), {<<o>>}, 2, 5, "whole")
  <2>1. /\ Block(stop(Network(o)), StopCalls(Network(o)), {<<o>>}, 4, 5, "whole")
        /\ Block(stop(Pipeline(o)), StopCalls(Pipeline(o)), {<<o>>}, 2, 3, "whole")
    BY NodeBlocks
  <2> QED  BY <2>1, BlockThen DEF StopNode, StopNodeCalls
<1>6. Block(BootstrapExternal(o), BootstrapCalls(o), {<<o>>}, 16, 16, "whole")
  <2>1. Block(Do("owner", o), {Item("owner", o)}, {<<o>>}, 16, 16, "whole")
    BY OrgCalls, BlockDo
  <2>2. Block(Do("owner", o) \o Do("issue", <<o, "pipeline">>),
              {Item("owner", o)} \cup {Item("issue", <<o, "pipeline">>)}, {<<o>>}, 16, 16, "whole")
    BY <1>0, <1>2, <2>1, BlockThen
  <2> QED  BY <1>0, <1>2, <2>2, BlockThen DEF BootstrapExternal, BootstrapCalls
<1>7. Block(Do("ready", Network(o)) \o Do("ready", Pipeline(o)), WaitCalls(o), {<<o>>}, 11, 15, "whole")
  <2>1. /\ Block(Do("ready", Network(o)), {Item("ready", Network(o))}, {<<o>>}, 11, 11, "whole")
        /\ Block(Do("ready", Pipeline(o)), {Item("ready", Pipeline(o))}, {<<o>>}, 15, 15, "whole")
    BY NodeCalls, BlockDo
  <2> QED  BY <2>1, BlockThen DEF WaitCalls
<1> QED  BY <1>3, <1>4, <1>5, <1>6, <1>7

\* The files a setup in containers writes for an organization.
Written(o) == ProvisionIdentities(o)
              \o (IF story = "single" THEN Do("identity", o) ELSE <<>>)
              \o Do("mount", <<o, "keys">>) \o Do("mount", <<o, "config">>)

LEMMA WrittenBlock ==
  ASSUME NEW o
  PROVE  Block(Written(o), WrittenCalls(o), {<<o>>}, 1, 1, "whole")
<1> DEFINE I == IF story = "single" THEN Do("identity", o) ELSE <<>>
           J == IF story = "single" THEN {Item("identity", o)} ELSE {}
<1>0. 1 \in Flat
  BY DEF Flat
<1>1. Block(I, J, {<<o>>}, 1, 1, "whole")
  <2>1. Block(Do("identity", o), {Item("identity", o)}, {<<o>>}, 1, 1, "whole")
    BY OrgCalls, BlockDo
  <2>2. Block(<<>>, {}, {<<o>>}, 1, 1, "whole")
    BY DEF Block, Line, Script, Spans, About, ToSet, InOrder
  <2> QED  BY <2>1, <2>2
<1>2. ASSUME NEW w \in {"keys", "config"}
      PROVE  Block(Do("mount", <<o, w>>), {Item("mount", <<o, w>>)}, {<<o>>}, 1, 1, "whole")
  <2>1. w \in Words
    BY DEF Words
  <2>2. /\ Stage(Item("mount", <<o, w>>), "whole") = 1
        /\ ~Everyone(Item("mount", <<o, w>>)) /\ Who(Item("mount", <<o, w>>)) = <<o>>
    BY <2>1, OrgCalls
  <2> QED  BY <2>2, BlockDo
<1>3. Written(o) = ((ProvisionIdentities(o) \o I) \o Do("mount", <<o, "keys">>)) \o Do("mount", <<o, "config">>)
  BY DEF Written
<1>4. WrittenCalls(o) = ((ProvisionCalls(o) \cup J) \cup {Item("mount", <<o, "keys">>)}) \cup {Item("mount", <<o, "config">>)}
  BY DEF WrittenCalls
<1> HIDE DEF I, J
<1>5. Block(ProvisionIdentities(o) \o I, ProvisionCalls(o) \cup J, {<<o>>}, 1, 1, "whole")
  BY <1>0, <1>1, OrgBlocks, BlockThen
<1>6. Block((ProvisionIdentities(o) \o I) \o Do("mount", <<o, "keys">>),
            (ProvisionCalls(o) \cup J) \cup {Item("mount", <<o, "keys">>)}, {<<o>>}, 1, 1, "whole")
  BY <1>0, <1>2, <1>5, BlockThen
<1>7. Block(((ProvisionIdentities(o) \o I) \o Do("mount", <<o, "keys">>)) \o Do("mount", <<o, "config">>),
            ((ProvisionCalls(o) \cup J) \cup {Item("mount", <<o, "keys">>)}) \cup {Item("mount", <<o, "config">>)},
            {<<o>>}, 1, 1, "whole")
  BY <1>0, <1>2, <1>6, BlockThen
<1> QED  BY <1>3, <1>4, <1>7

-----------------------------------------------------------------------------
(***************************************************************************)
(* The lists of the setups.                                                *)
(***************************************************************************)
\* The organizations in some order.
Lineup(s) == s \in Seq(STRING) /\ IsInjective(s) /\ ToSet(s) = Orgs

OrgWho == {<<o>> : o \in Orgs}

\* The chain, its reverse, and every other order the harness goes through.
LEMMA ChainIsLineup ==
  ASSUME SpecTypes
  PROVE  Lineup(Chain[story]) /\ First \in Orgs
<1>1. Lineup(Chain[story])
  BY ChainAssumption DEF SpecTypes, Lineup, Orgs
<1> QED  BY <1>1, OrgsOfChain DEF First

LEMMA ReverseIs ==
  ASSUME NEW s \in Seq(STRING), IsInjective(s)
  PROVE  Reverse(s) \in Seq(STRING) /\ IsInjective(Reverse(s)) /\ ToSet(Reverse(s)) = ToSet(s)
<1> DEFINE n == Len(s)
           r == Reverse(s)
<1>1. n \in Nat /\ DOMAIN s = 1..n /\ r = [i \in 1..n |-> s[(n - i) + 1]]
  BY DEF Reverse
<1>2. \A i \in 1..n : (n - i) + 1 \in 1..n /\ (n - ((n - i) + 1)) + 1 = i
  BY <1>1
<1>3. r \in [1..n -> STRING] /\ r \in Seq(STRING)
  <2>1. \A i \in 1..n : s[(n - i) + 1] \in STRING
    BY <1>1, <1>2
  <2> QED  BY <1>1, <2>1
<1>4. \A i \in 1..n : r[i] = s[(n - i) + 1] /\ r[(n - i) + 1] = s[i]
  BY <1>1, <1>2
<1> HIDE DEF r
<1>5. IsInjective(r)
  <2> SUFFICES ASSUME NEW i \in 1..n, NEW j \in 1..n, r[i] = r[j] PROVE i = j
    BY <1>3 DEF IsInjective
  <2>1. (n - i) + 1 = (n - j) + 1
    BY <1>1, <1>2, <1>4 DEF IsInjective
  <2> QED  BY <1>1, <2>1
<1>6. ToSet(r) = ToSet(s)
  <2>1. DOMAIN r = 1..n
    BY <1>3
  <2> HIDE DEF n
  <2> QED  BY <1>1, <1>2, <1>4, <2>1 DEF ToSet
<1> QED  BY <1>3, <1>5, <1>6 DEF r

\* Something is done about each of them, in whatever order they are taken.
LEMMA EachOf ==
  ASSUME NEW s, Lineup(s), NEW F, NEW S, NEW how, NEW lo \in Nat, NEW hi \in Nat,
         \A o \in Orgs : Block(F[o], S[o], {<<o>>}, lo, hi, how)
  PROVE  Block(FlattenSeq([i \in 1..Len(s) |-> F[s[i]]]), UNION {S[o] : o \in Orgs}, OrgWho, lo, hi, how)
<1> DEFINE f == [i \in 1..Len(s) |-> F[s[i]]]
<1>1. s \in Seq(STRING) /\ IsInjective(s) /\ ToSet(s) = Orgs
  BY DEF Lineup
<1>2. \A i \in 1..Len(s) : s[i] \in Orgs
  BY <1>1 DEF ToSet
<1>3. \A i \in 1..Len(s) : Block(f[i], S[s[i]], {<<s[i]>>}, lo, hi, how)
  BY <1>2
<1>4. f = [i \in 1..Len(s) |-> f[i]]
  OBVIOUS
<1> HIDE DEF f
<1>5. Block(FlattenSeq(f), UNION {S[o] : o \in ToSet(s)}, {<<o>> : o \in ToSet(s)}, lo, hi, how)
  BY <1>1, <1>3, <1>4, EachOrg
<1> QED  BY <1>1, <1>5 DEF f, OrgWho

StartedCalls(o) == StartNodeCalls(o) \cup BootstrapCalls(o)
WholeCalls(o)   == ProvisionCalls(o) \cup StartedCalls(o)

\* The harness's loops over the organizations keep the stages of their bodies.
LEMMA EachBlock ==
  ASSUME NEW s, Lineup(s)
  PROVE  /\ Block(FlattenSeq([i \in 1..Len(s) |-> ProvisionIdentities(s[i])]),
                  UNION {ProvisionCalls(o) : o \in Orgs}, OrgWho, 1, 1, "whole")
         /\ Block(FlattenSeq([i \in 1..Len(s) |-> StartSeparatedNode(s[i]) \o BootstrapExternal(s[i])]),
                  UNION {StartedCalls(o) : o \in Orgs}, OrgWho, 10, 16, "whole")
         /\ Block(FlattenSeq([i \in 1..Len(s) |->
                                ProvisionIdentities(s[i]) \o (StartSeparatedNode(s[i]) \o BootstrapExternal(s[i]))]),
                  UNION {WholeCalls(o) : o \in Orgs}, OrgWho, 1, 16, "whole")
         /\ Block(FlattenSeq([i \in 1..Len(s) |-> StopNode(s[i])]),
                  UNION {StopNodeCalls(o) : o \in Orgs}, OrgWho, 2, 5, "whole")
         /\ Block(FlattenSeq([i \in 1..Len(s) |-> Written(s[i])]),
                  UNION {WrittenCalls(o) : o \in Orgs}, OrgWho, 1, 1, "whole")
         /\ Block(FlattenSeq([i \in 1..Len(s) |-> Do("ready", Network(s[i])) \o Do("ready", Pipeline(s[i]))]),
                  UNION {WaitCalls(o) : o \in Orgs}, OrgWho, 11, 15, "whole")
         /\ Block(FlattenSeq([i \in 1..Len(s) |-> BootstrapExternal(s[i])]),
                  UNION {BootstrapCalls(o) : o \in Orgs}, OrgWho, 16, 16, "whole")
<1>0. \A i \in 1..Len(s) : s[i] \in Orgs
  BY DEF Lineup, ToSet
<1>1. \A o \in Orgs : Block(StartSeparatedNode(o) \o BootstrapExternal(o), StartedCalls(o), {<<o>>}, 10, 16, "whole")
  <2> TAKE o \in Orgs
  <2>1. /\ Block(StartSeparatedNode(o), StartNodeCalls(o), {<<o>>}, 10, 15, "whole")
        /\ Block(BootstrapExternal(o), BootstrapCalls(o), {<<o>>}, 16, 16, "whole")
    BY OrgBlocks
  <2> QED  BY <2>1, BlockThen DEF StartedCalls
<1>2. \A o \in Orgs : Block(ProvisionIdentities(o) \o (StartSeparatedNode(o) \o BootstrapExternal(o)),
                            WholeCalls(o), {<<o>>}, 1, 16, "whole")
  <2> TAKE o \in Orgs
  <2>1. Block(ProvisionIdentities(o), ProvisionCalls(o), {<<o>>}, 1, 1, "whole")
    BY OrgBlocks
  <2> QED  BY <1>1, <2>1, BlockThen DEF WholeCalls
<1>3. Block(FlattenSeq([i \in 1..Len(s) |-> ProvisionIdentities(s[i])]),
            UNION {ProvisionCalls(o) : o \in Orgs}, OrgWho, 1, 1, "whole")
  <2> DEFINE F == [o \in Orgs |-> ProvisionIdentities(o)]
             S == [o \in Orgs |-> ProvisionCalls(o)]
  <2>1. \A o \in Orgs : Block(F[o], S[o], {<<o>>}, 1, 1, "whole")
    BY OrgBlocks
  <2>2. [i \in 1..Len(s) |-> F[s[i]]] = [i \in 1..Len(s) |-> ProvisionIdentities(s[i])]
    BY <1>0
  <2>3. UNION {S[o] : o \in Orgs} = UNION {ProvisionCalls(o) : o \in Orgs}
    OBVIOUS
  <2> HIDE DEF F, S
  <2>4. Block(FlattenSeq([i \in 1..Len(s) |-> F[s[i]]]), UNION {S[o] : o \in Orgs}, OrgWho, 1, 1, "whole")
    BY <2>1, EachOf
  <2> QED  BY <2>2, <2>3, <2>4
<1>4. Block(FlattenSeq([i \in 1..Len(s) |-> StartSeparatedNode(s[i]) \o BootstrapExternal(s[i])]),
            UNION {StartedCalls(o) : o \in Orgs}, OrgWho, 10, 16, "whole")
  <2> DEFINE F == [o \in Orgs |-> StartSeparatedNode(o) \o BootstrapExternal(o)]
             S == [o \in Orgs |-> StartedCalls(o)]
  <2>1. \A o \in Orgs : Block(F[o], S[o], {<<o>>}, 10, 16, "whole")
    BY <1>1
  <2>2. [i \in 1..Len(s) |-> F[s[i]]] = [i \in 1..Len(s) |-> StartSeparatedNode(s[i]) \o BootstrapExternal(s[i])]
    BY <1>0
  <2>3. UNION {S[o] : o \in Orgs} = UNION {StartedCalls(o) : o \in Orgs}
    OBVIOUS
  <2> HIDE DEF F, S
  <2>4. Block(FlattenSeq([i \in 1..Len(s) |-> F[s[i]]]), UNION {S[o] : o \in Orgs}, OrgWho, 10, 16, "whole")
    BY <2>1, EachOf
  <2> QED  BY <2>2, <2>3, <2>4
<1>5. Block(FlattenSeq([i \in 1..Len(s) |->
                          ProvisionIdentities(s[i]) \o (StartSeparatedNode(s[i]) \o BootstrapExternal(s[i]))]),
            UNION {WholeCalls(o) : o \in Orgs}, OrgWho, 1, 16, "whole")
  <2> DEFINE F == [o \in Orgs |-> ProvisionIdentities(o) \o (StartSeparatedNode(o) \o BootstrapExternal(o))]
             S == [o \in Orgs |-> WholeCalls(o)]
  <2>1. \A o \in Orgs : Block(F[o], S[o], {<<o>>}, 1, 16, "whole")
    BY <1>2
  <2>2. [i \in 1..Len(s) |-> F[s[i]]]
        = [i \in 1..Len(s) |-> ProvisionIdentities(s[i]) \o (StartSeparatedNode(s[i]) \o BootstrapExternal(s[i]))]
    BY <1>0
  <2>3. UNION {S[o] : o \in Orgs} = UNION {WholeCalls(o) : o \in Orgs}
    OBVIOUS
  <2> HIDE DEF F, S
  <2>4. Block(FlattenSeq([i \in 1..Len(s) |-> F[s[i]]]), UNION {S[o] : o \in Orgs}, OrgWho, 1, 16, "whole")
    BY <2>1, EachOf
  <2> QED  BY <2>2, <2>3, <2>4
<1>6. Block(FlattenSeq([i \in 1..Len(s) |-> StopNode(s[i])]),
            UNION {StopNodeCalls(o) : o \in Orgs}, OrgWho, 2, 5, "whole")
  <2> DEFINE F == [o \in Orgs |-> StopNode(o)]
             S == [o \in Orgs |-> StopNodeCalls(o)]
  <2>1. \A o \in Orgs : Block(F[o], S[o], {<<o>>}, 2, 5, "whole")
    BY OrgBlocks
  <2>2. [i \in 1..Len(s) |-> F[s[i]]] = [i \in 1..Len(s) |-> StopNode(s[i])]
    BY <1>0
  <2>3. UNION {S[o] : o \in Orgs} = UNION {StopNodeCalls(o) : o \in Orgs}
    OBVIOUS
  <2> HIDE DEF F, S
  <2>4. Block(FlattenSeq([i \in 1..Len(s) |-> F[s[i]]]), UNION {S[o] : o \in Orgs}, OrgWho, 2, 5, "whole")
    BY <2>1, EachOf
  <2> QED  BY <2>2, <2>3, <2>4
<1>7. Block(FlattenSeq([i \in 1..Len(s) |-> Written(s[i])]),
            UNION {WrittenCalls(o) : o \in Orgs}, OrgWho, 1, 1, "whole")
  <2> DEFINE F == [o \in Orgs |-> Written(o)]
             S == [o \in Orgs |-> WrittenCalls(o)]
  <2>1. \A o \in Orgs : Block(F[o], S[o], {<<o>>}, 1, 1, "whole")
    BY WrittenBlock
  <2>2. [i \in 1..Len(s) |-> F[s[i]]] = [i \in 1..Len(s) |-> Written(s[i])]
    BY <1>0
  <2>3. UNION {S[o] : o \in Orgs} = UNION {WrittenCalls(o) : o \in Orgs}
    OBVIOUS
  <2> HIDE DEF F, S
  <2>4. Block(FlattenSeq([i \in 1..Len(s) |-> F[s[i]]]), UNION {S[o] : o \in Orgs}, OrgWho, 1, 1, "whole")
    BY <2>1, EachOf
  <2> QED  BY <2>2, <2>3, <2>4
<1>8. Block(FlattenSeq([i \in 1..Len(s) |-> Do("ready", Network(s[i])) \o Do("ready", Pipeline(s[i]))]),
            UNION {WaitCalls(o) : o \in Orgs}, OrgWho, 11, 15, "whole")
  <2> DEFINE F == [o \in Orgs |-> Do("ready", Network(o)) \o Do("ready", Pipeline(o))]
             S == [o \in Orgs |-> WaitCalls(o)]
  <2>1. \A o \in Orgs : Block(F[o], S[o], {<<o>>}, 11, 15, "whole")
    BY OrgBlocks
  <2>2. [i \in 1..Len(s) |-> F[s[i]]] = [i \in 1..Len(s) |-> Do("ready", Network(s[i])) \o Do("ready", Pipeline(s[i]))]
    BY <1>0
  <2>3. UNION {S[o] : o \in Orgs} = UNION {WaitCalls(o) : o \in Orgs}
    OBVIOUS
  <2> HIDE DEF F, S
  <2>4. Block(FlattenSeq([i \in 1..Len(s) |-> F[s[i]]]), UNION {S[o] : o \in Orgs}, OrgWho, 11, 15, "whole")
    BY <2>1, EachOf
  <2> QED  BY <2>2, <2>3, <2>4
<1>9. Block(FlattenSeq([i \in 1..Len(s) |-> BootstrapExternal(s[i])]),
            UNION {BootstrapCalls(o) : o \in Orgs}, OrgWho, 16, 16, "whole")
  <2> DEFINE F == [o \in Orgs |-> BootstrapExternal(o)]
             S == [o \in Orgs |-> BootstrapCalls(o)]
  <2>1. \A o \in Orgs : Block(F[o], S[o], {<<o>>}, 16, 16, "whole")
    BY OrgBlocks
  <2>2. [i \in 1..Len(s) |-> F[s[i]]] = [i \in 1..Len(s) |-> BootstrapExternal(s[i])]
    BY <1>0
  <2>3. UNION {S[o] : o \in Orgs} = UNION {BootstrapCalls(o) : o \in Orgs}
    OBVIOUS
  <2> HIDE DEF F, S
  <2>4. Block(FlattenSeq([i \in 1..Len(s) |-> F[s[i]]]), UNION {S[o] : o \in Orgs}, OrgWho, 16, 16, "whole")
    BY <2>1, EachOf
  <2> QED  BY <2>2, <2>3, <2>4
<1> QED  BY <1>3, <1>4, <1>5, <1>6, <1>7, <1>8, <1>9

-----------------------------------------------------------------------------
\* A setup that starts with the infrastructure, as far as stage hi.
Begun(L, Sa, Sb, hi) ==
    /\ Script(L, Sa \cup Sb, "whole") /\ About(Sa, Infra) /\ Spans(Sa, 9, 10, "whole")
    /\ Spans(Sb, 0, hi, "whole")

\* A setup begins with broker and PDP, goes on with the nodes, and then returns.
LEMMA InfraFirst ==
  ASSUME NEW s \in Infra, NEW t \in Infra, s # t
  PROVE  Begun(start(s) \o start(t), StartCalls(s) \cup StartCalls(t), {}, 0)
<1> DEFINE S == StartCalls(s)
           T == StartCalls(t)
<1>1. Block(start(s), S, {s}, 9, 10, "whole") /\ Block(start(t), T, {t}, 9, 10, "whole")
  BY InfraLines
<1> HIDE DEF S, T
<1>2. {s} \cap {t} = {}
  OBVIOUS
<1>3. Precede(S, T, "whole")
  BY <1>1, <1>2, PrecedeByWho DEF Block
<1>4. Script(start(s) \o start(t), S \cup T, "whole")
  BY <1>1, <1>3, ScriptConcat DEF Block, Line
<1>5. About(S \cup T, Infra) /\ Spans(S \cup T, 9, 10, "whole")
  BY <1>1 DEF Block, Line, About, Spans
<1>6. (S \cup T) \cup {} = S \cup T
  OBVIOUS
<1> QED  BY <1>4, <1>5, <1>6 DEF Begun, Spans, S, T

LEMMA InfraIsNoOrg == Infra \cap OrgWho = {}
<1>1. ASSUME NEW s \in Infra, NEW o PROVE s # <<o>>
  <2>1. DOMAIN s = {1, 2} /\ DOMAIN <<o>> = {1}
    BY DEF Infra, NATS, PDP
  <2> QED  BY <2>1
<1> QED  BY <1>1 DEF OrgWho

LEMMA Grow ==
  ASSUME NEW L, NEW Sa, NEW Sb, NEW M, NEW T, NEW hi \in Nat, NEW lo2 \in Nat, NEW hi2 \in Nat,
         Begun(L, Sa, Sb, hi), Block(M, T, OrgWho, lo2, hi2, "whole"),
         hi < lo2 \/ (hi = lo2 /\ hi \in Flat), hi <= hi2
  PROVE  Begun(L \o M, Sa, Sb \cup T, hi2)
<1>1. Precede(Sa, T, "whole")
  BY InfraIsNoOrg, PrecedeByWho DEF Begun, Block
<1>2. Precede(Sb, T, "whole")
  <2>1. Spans(Sb, 0, hi, "whole") /\ Spans(T, lo2, hi2, "whole")
    BY DEF Begun, Block, Line
  <2> QED  BY <2>1, PrecedeByStage
<1>3. Precede(Sa \cup Sb, T, "whole")
  BY <1>1, <1>2 DEF Precede
<1>4. Script(L \o M, (Sa \cup Sb) \cup T, "whole")
  BY <1>3, ScriptConcat DEF Begun, Block, Line
<1>5. Spans(Sb \cup T, 0, hi2, "whole")
  BY DEF Begun, Block, Line, Spans
<1>6. (Sa \cup Sb) \cup T = Sa \cup (Sb \cup T)
  OBVIOUS
<1> QED  BY <1>4, <1>5, <1>6 DEF Begun

Return == {Item("return", First)}

LEMMA ThenReturn ==
  ASSUME NEW L, NEW Sa, NEW Sb, Begun(L, Sa, Sb, 16)
  PROVE  Script(L \o Do("return", First), (Sa \cup Sb) \cup Return, "whole")
<1>1. Line(Do("return", First), Return, 17, 17, "whole")
  BY AllCalls, LineDo DEF Return
<1>2. Spans(Sa \cup Sb, 0, 16, "whole")
  BY DEF Begun, Spans
<1>3. Precede(Sa \cup Sb, Return, "whole")
  BY <1>1, <1>2, PrecedeByStage DEF Line
<1> QED  BY <1>1, <1>3, ScriptConcat DEF Begun, Line

\* A call about one organization is about organizations.
LEMMA OrgBlock ==
  ASSUME NEW L, NEW S, NEW o \in Orgs, NEW lo, NEW hi, NEW how, Block(L, S, {<<o>>}, lo, hi, how)
  PROVE  Block(L, S, OrgWho, lo, hi, how)
BY DEF Block, About, OrgWho

\* The setup of a single node of processes.
ProcessSingleCalls ==
    ((StartCalls(PDP) \cup StartCalls(NATS))
     \cup ((((({} \cup ProvisionCalls(First)) \cup {Item("identity", First)}) \cup StartNodeCalls(First))
            \cup Waits(gates)) \cup BootstrapCalls(First)))
    \cup Return

LEMMA ProcessSingle ==
  ASSUME SpecTypes, gates \subseteq Loops
  PROVE  Script(setupProcess("single") \o Do("return", First), ProcessSingleCalls, "whole")
<1> DEFINE Sa == StartCalls(PDP) \cup StartCalls(NATS)
           L0 == start(PDP) \o start(NATS)
           L1 == L0 \o ProvisionIdentities(First)
           L2 == L1 \o Do("identity", First)
           L3 == L2 \o StartSeparatedNode(First)
           L4 == L3 \o Gated(gates)
           L5 == L4 \o BootstrapExternal(First)
           S1 == {} \cup ProvisionCalls(First)
           S2 == S1 \cup {Item("identity", First)}
           S3 == S2 \cup StartNodeCalls(First)
           S4 == S3 \cup Waits(gates)
           S5 == S4 \cup BootstrapCalls(First)
<1>0. First \in Orgs /\ 1 \in Flat /\ 16 \in Flat /\ NATS \in Infra /\ PDP \in Infra /\ NATS # PDP
  BY ChainIsLineup DEF Flat, Infra, NATS, PDP
<1>1. /\ Block(ProvisionIdentities(First), ProvisionCalls(First), OrgWho, 1, 1, "whole")
      /\ Block(StartSeparatedNode(First), StartNodeCalls(First), OrgWho, 10, 15, "whole")
      /\ Block(BootstrapExternal(First), BootstrapCalls(First), OrgWho, 16, 16, "whole")
  BY <1>0, OrgBlocks, OrgBlock
<1>2. Block(Do("identity", First), {Item("identity", First)}, OrgWho, 1, 1, "whole")
  <2>1. Block(Do("identity", First), {Item("identity", First)}, {<<First>>}, 1, 1, "whole")
    BY OrgCalls, BlockDo
  <2> QED  BY <1>0, <2>1, OrgBlock
<1>3. Block(Gated(gates), Waits(gates), OrgWho, 16, 16, "whole")
  BY GatedLine DEF Block, OrgWho
<1>4. Begun(L0, Sa, {}, 0)
  BY <1>0, InfraFirst
<1>5. setupProcess("single") = L5
  BY DEF setupProcess
<1>6. ProcessSingleCalls = (Sa \cup S5) \cup Return
  BY DEF ProcessSingleCalls
<1> HIDE DEF Sa, L0
<1>7. Begun(L1, Sa, S1, 1)
  BY <1>1, <1>4, Grow
<1> HIDE DEF L1, S1
<1>8. Begun(L2, Sa, S2, 1)
  BY <1>0, <1>2, <1>7, Grow
<1> HIDE DEF L2, S2
<1>9. Begun(L3, Sa, S3, 15)
  BY <1>1, <1>8, Grow
<1> HIDE DEF L3, S3
<1>10. Begun(L4, Sa, S4, 16)
  BY <1>3, <1>9, Grow
<1> HIDE DEF L4, S4
<1>11. Begun(L5, Sa, S5, 16)
  BY <1>0, <1>1, <1>10, Grow
<1> HIDE DEF L5, S5
<1> QED  BY <1>5, <1>6, <1>11, ThenReturn

\* The setups of several nodes of processes.
ProcessLossCalls ==
    ((StartCalls(NATS) \cup StartCalls(PDP))
     \cup ((({} \cup UNION {ProvisionCalls(o) : o \in Orgs}) \cup UNION {StartedCalls(o) : o \in Orgs}) \cup Waits(gates)))
    \cup Return

ProcessSupplyCalls ==
    ((StartCalls(NATS) \cup StartCalls(PDP))
     \cup (({} \cup UNION {WholeCalls(o) : o \in Orgs}) \cup Waits(gates)))
    \cup Return

LEMMA ProcessSeveral ==
  ASSUME SpecTypes, gates \subseteq Loops
  PROVE  /\ story = "losswindow" => Script(setupProcess(story) \o Do("return", First), ProcessLossCalls, "whole")
         /\ story = "supplychain" => Script(setupProcess(story) \o Do("return", First), ProcessSupplyCalls, "whole")
<1> DEFINE s == Chain[story]
           Sa == StartCalls(NATS) \cup StartCalls(PDP)
           L0 == start(NATS) \o start(PDP)
           provided == FlattenSeq([i \in 1..Len(s) |-> ProvisionIdentities(s[i])])
           started == FlattenSeq([i \in 1..Len(s) |-> StartSeparatedNode(s[i]) \o BootstrapExternal(s[i])])
           whole == FlattenSeq([i \in 1..Len(s) |->
                      ProvisionIdentities(s[i]) \o (StartSeparatedNode(s[i]) \o BootstrapExternal(s[i]))])
           P == UNION {ProvisionCalls(o) : o \in Orgs}
           B == UNION {StartedCalls(o) : o \in Orgs}
           W == UNION {WholeCalls(o) : o \in Orgs}
           L1 == L0 \o provided
           L2 == L1 \o started
           L3 == L2 \o Gated(gates)
           M1 == L0 \o whole
           M2 == M1 \o Gated(gates)
<1>0. 1 \in Flat /\ 16 \in Flat /\ NATS \in Infra /\ PDP \in Infra /\ NATS # PDP /\ Lineup(s)
  BY ChainIsLineup DEF Flat, Infra, NATS, PDP
<1>1. /\ Block(provided, P, OrgWho, 1, 1, "whole")
      /\ Block(started, B, OrgWho, 10, 16, "whole")
      /\ Block(whole, W, OrgWho, 1, 16, "whole")
  BY <1>0, EachBlock
<1>2. Block(Gated(gates), Waits(gates), OrgWho, 16, 16, "whole")
  BY GatedLine DEF Block, OrgWho
<1>3. Begun(L0, Sa, {}, 0)
  BY <1>0, InfraFirst
<1>4. setupProcess("losswindow") = start(NATS) \o start(PDP) \o Each(ProvisionIdentities, Chain["losswindow"])
        \o FlattenSeq([i \in 1..Len(Chain["losswindow"]) |->
             StartSeparatedNode(Chain["losswindow"][i]) \o BootstrapExternal(Chain["losswindow"][i])]) \o Gated(gates)
  BY DEF setupProcess, Each
<1>5. setupProcess("supplychain") = start(NATS) \o start(PDP)
        \o FlattenSeq([i \in 1..Len(Chain["supplychain"]) |-> ProvisionIdentities(Chain["supplychain"][i])
             \o (StartSeparatedNode(Chain["supplychain"][i]) \o BootstrapExternal(Chain["supplychain"][i]))]) \o Gated(gates)
  BY DEF setupProcess, Each
<1>6. /\ story = "losswindow" => setupProcess(story) = L3
      /\ story = "supplychain" => setupProcess(story) = M2
  BY <1>4, <1>5 DEF Each
<1>7. /\ ProcessLossCalls = (Sa \cup ((({} \cup P) \cup B) \cup Waits(gates))) \cup Return
      /\ ProcessSupplyCalls = (Sa \cup (({} \cup W) \cup Waits(gates))) \cup Return
  BY DEF ProcessLossCalls, ProcessSupplyCalls
<1> HIDE DEF Sa, L0, P, B, W, provided, started, whole, s
<1>8. Begun(L1, Sa, {} \cup P, 1) /\ Begun(M1, Sa, {} \cup W, 16)
  BY <1>1, <1>3, Grow
<1> HIDE DEF L1, M1
<1>9. Begun(L2, Sa, ({} \cup P) \cup B, 16)
  BY <1>1, <1>8, Grow
<1> HIDE DEF L2
<1>10. Begun(L3, Sa, (({} \cup P) \cup B) \cup Waits(gates), 16) /\ Begun(M2, Sa, ({} \cup W) \cup Waits(gates), 16)
  BY <1>0, <1>2, <1>8, <1>9, Grow
<1> HIDE DEF L3, M2
<1>11. /\ Script(L3 \o Do("return", First), ProcessLossCalls, "whole")
       /\ Script(M2 \o Do("return", First), ProcessSupplyCalls, "whole")
  BY <1>7, <1>10, ThenReturn
<1> QED  BY <1>6, <1>11

-----------------------------------------------------------------------------
\* docker compose down, with a pipeline before its network.
ComposeDownCalls ==
    (((UNION {StopNodeCalls(o) : o \in Orgs}) \cup StopCalls(NATS)) \cup StopCalls(PDP)) \cup {Item("remove", NATS)}

LEMMA ComposeDownLine ==
  ASSUME SpecTypes
  PROVE  Line(ComposeDown, ComposeDownCalls, 2, 8, "whole")
<1> DEFINE r == Reverse(Chain[story])
           stopped == FlattenSeq([i \in 1..Len(r) |-> StopNode(r[i])])
           D == UNION {StopNodeCalls(o) : o \in Orgs}
           L1 == stopped \o stop(NATS)
           L2 == L1 \o stop(PDP)
           L3 == L2 \o Do("remove", NATS)
<1>0. 6 \in Flat /\ NATS \in Infra /\ PDP \in Infra
  BY DEF Flat, Infra
<1>1. Lineup(r)
  BY ChainIsLineup, ReverseIs DEF Lineup
<1>2. Line(stopped, D, 2, 5, "whole")
  BY <1>1, EachBlock DEF Block
<1>3. Line(stop(NATS), StopCalls(NATS), 6, 6, "whole") /\ Line(stop(PDP), StopCalls(PDP), 6, 6, "whole")
  BY <1>0, InfraLines
<1>4. Line(Do("remove", NATS), {Item("remove", NATS)}, 8, 8, "whole")
  BY AllCalls, LineDo
<1>5. ComposeDown = L3
  BY DEF ComposeDown, Each
<1>6. ComposeDownCalls = ((D \cup StopCalls(NATS)) \cup StopCalls(PDP)) \cup {Item("remove", NATS)}
  BY DEF ComposeDownCalls
<1> HIDE DEF D, stopped
<1>7. Line(L1, D \cup StopCalls(NATS), 2, 6, "whole")
  BY <1>2, <1>3, LineThen
<1> HIDE DEF L1
<1>8. Line(L2, (D \cup StopCalls(NATS)) \cup StopCalls(PDP), 2, 6, "whole")
  BY <1>0, <1>3, <1>7, LineThen
<1> HIDE DEF L2
<1>9. Line(L3, ((D \cup StopCalls(NATS)) \cup StopCalls(PDP)) \cup {Item("remove", NATS)}, 2, 8, "whole")
  BY <1>4, <1>8, LineThen
<1> QED  BY <1>5, <1>6, <1>9

\* The setup in containers: the files, what an earlier run left taken down, up, the waits.
ComposeCalls ==
    (((((((({Item("wipe", NATS)} \cup {Item("mount", <<"broker", "jwts">>)})
         \cup UNION {WrittenCalls(o) : o \in Orgs})
        \cup (ComposeDownCalls \cup {Item("up", NATS)}))
       \cup {Item("ready", NATS)})
      \cup UNION {WaitCalls(o) : o \in Orgs})
     \cup Waits(gates))
    \cup UNION {BootstrapCalls(o) : o \in Orgs})
    \cup Return)

LEMMA ComposeSetup ==
  ASSUME SpecTypes, gates \subseteq Loops
  PROVE  Script(setupCompose \o Do("return", First), ComposeCalls, "whole")
<1> DEFINE s == Chain[story]
           written == FlattenSeq([i \in 1..Len(s) |-> Written(s[i])])
           waited == FlattenSeq([i \in 1..Len(s) |-> Do("ready", Network(s[i])) \o Do("ready", Pipeline(s[i]))])
           booted == FlattenSeq([i \in 1..Len(s) |-> BootstrapExternal(s[i])])
           R == UNION {WrittenCalls(o) : o \in Orgs}
           V == UNION {WaitCalls(o) : o \in Orgs}
           B == UNION {BootstrapCalls(o) : o \in Orgs}
           L1 == Do("wipe", NATS) \o Do("mount", <<"broker", "jwts">>)
           S1 == {Item("wipe", NATS)} \cup {Item("mount", <<"broker", "jwts">>)}
           L2 == L1 \o written
           S2 == S1 \cup R
           L3 == L2 \o ComposeUp
           S3 == S2 \cup (ComposeDownCalls \cup {Item("up", NATS)})
           L4 == L3 \o Do("ready", NATS)
           S4 == S3 \cup {Item("ready", NATS)}
           L5 == L4 \o waited
           S5 == S4 \cup V
           L6 == L5 \o Gated(gates)
           S6 == S5 \cup Waits(gates)
           L7 == L6 \o booted
           S7 == S6 \cup B
           L8 == L7 \o Do("return", First)
           S8 == S7 \cup Return
<1>0. 1 \in Flat /\ 16 \in Flat /\ NATS \in Infra /\ Lineup(s)
  BY ChainIsLineup DEF Flat, Infra
<1>1. /\ Line(written, R, 1, 1, "whole") /\ Line(waited, V, 11, 15, "whole")
      /\ Line(booted, B, 16, 16, "whole")
  BY <1>0, EachBlock DEF Block
<1>2. /\ Line(Do("wipe", NATS), {Item("wipe", NATS)}, 0, 0, "whole")
      /\ Line(Do("mount", <<"broker", "jwts">>), {Item("mount", <<"broker", "jwts">>)}, 1, 1, "whole")
      /\ Line(Do("up", NATS), {Item("up", NATS)}, 9, 9, "whole")
      /\ Line(Do("return", First), Return, 17, 17, "whole")
  BY AllCalls, LineDo DEF Return
<1>3. Line(Do("ready", NATS), {Item("ready", NATS)}, 10, 10, "whole")
  BY <1>0, InfraCalls, LineDo
<1>4. Line(Gated(gates), Waits(gates), 16, 16, "whole")
  BY GatedLine
<1>5. Line(ComposeUp, ComposeDownCalls \cup {Item("up", NATS)}, 2, 9, "whole")
  BY <1>2, ComposeDownLine, LineThen DEF ComposeUp
<1>6. setupCompose \o Do("return", First) = L8
  BY DEF setupCompose, Each, Written
<1>7. ComposeCalls = S8
  BY DEF ComposeCalls
<1> HIDE DEF s, written, waited, booted, R, V, B
<1>8. Line(L1, S1, 0, 1, "whole")
  BY <1>2, LineThen
<1> HIDE DEF L1, S1
<1>9. Line(L2, S2, 0, 1, "whole")
  BY <1>0, <1>1, <1>8, LineThen
<1> HIDE DEF L2, S2
<1>10. Line(L3, S3, 0, 9, "whole")
  BY <1>5, <1>9, LineThen
<1> HIDE DEF L3, S3
<1>11. Line(L4, S4, 0, 10, "whole")
  BY <1>3, <1>10, LineThen
<1> HIDE DEF L4, S4
<1>12. Line(L5, S5, 0, 15, "whole")
  BY <1>1, <1>11, LineThen
<1> HIDE DEF L5, S5
<1>13. Line(L6, S6, 0, 16, "whole")
  BY <1>4, <1>12, LineThen
<1> HIDE DEF L6, S6
<1>14. Line(L7, S7, 0, 16, "whole")
  BY <1>0, <1>1, <1>13, LineThen
<1> HIDE DEF L7, S7
<1>15. Line(L8, S8, 0, 17, "whole")
  BY <1>2, <1>14, LineThen
<1> QED  BY <1>6, <1>7, <1>15 DEF Line

-----------------------------------------------------------------------------
(***************************************************************************)
(* The lists of a cleanup, a restart and a stop.                           *)
(***************************************************************************)
ProcessDownCalls == ((UNION {StopNodeCalls(o) : o \in Orgs}) \cup StopCalls(NATS)) \cup StopCalls(PDP)

\* The order a restart leaves the cleanups registered in.
LEMMA RestartedLineup ==
  ASSUME SpecTypes
  PROVE  Lineup(<<First>> \o Reverse(Tail(Chain[story])))
<1> DEFINE c == Chain[story]
           t == Tail(c)
           r == Reverse(t)
           s == <<First>> \o r
<1>1. c \in Seq(STRING) /\ c # <<>> /\ IsInjective(c) /\ ToSet(c) = Orgs /\ First = c[1]
  BY ChainIsLineup, OrgsOfChain DEF Lineup, First
<1>2. /\ t \in Seq(STRING) /\ DOMAIN t = 1..(Len(c) - 1) /\ \A i \in DOMAIN t : i + 1 \in DOMAIN c /\ t[i] = c[i + 1]
      /\ Len(c) \in Nat \ {0} /\ DOMAIN c = 1..Len(c)
  <2> HIDE DEF c
  <2>1. /\ t \in Seq(STRING) /\ Len(t) = Len(c) - 1 /\ \A i \in 1..Len(t) : t[i] = c[i + 1]
    BY <1>1, HeadTailProperties
  <2>2. Len(c) \in Nat \ {0} /\ DOMAIN c = 1..Len(c)
    BY <1>1, EmptySeq
  <2> HIDE DEF t
  <2> QED  BY <2>1, <2>2
<1> HIDE DEF c, t
<1>3. IsInjective(t)
  <2> SUFFICES ASSUME NEW i \in DOMAIN t, NEW j \in DOMAIN t, t[i] = t[j] PROVE i = j
    BY DEF IsInjective
  <2>1. i + 1 = j + 1
    BY <1>1, <1>2 DEF IsInjective
  <2> QED  BY <1>2, <2>1
<1>4. First \notin ToSet(t) /\ Orgs = {First} \cup ToSet(t)
  <2>1. ASSUME NEW i \in DOMAIN t PROVE t[i] # First /\ t[i] \in Orgs
    BY <1>1, <1>2 DEF IsInjective, ToSet
  <2>2. ASSUME NEW o \in Orgs, o # First PROVE o \in ToSet(t)
    <3>1. PICK i \in DOMAIN c : c[i] = o
      BY <1>1 DEF ToSet
    <3>2. i # 1 /\ i - 1 \in DOMAIN t /\ t[i - 1] = o
      BY <1>1, <1>2, <2>2, <3>1
    <3> QED  BY <3>2 DEF ToSet
  <2>3. First \in Orgs
    BY ChainIsLineup
  <2> QED  BY <2>1, <2>2, <2>3 DEF ToSet
<1>5. r \in Seq(STRING) /\ IsInjective(r) /\ ToSet(r) = ToSet(t)
  BY <1>2, <1>3, ReverseIs
<1> HIDE DEF r
<1>6. First \in STRING /\ <<First>> \in Seq(STRING)
  BY <1>1, <1>2
<1>7. /\ s \in Seq(STRING) /\ DOMAIN s = 1..(1 + Len(r)) /\ s[1] = First /\ Len(r) \in Nat /\ DOMAIN r = 1..Len(r)
      /\ \A i \in 1..(1 + Len(r)) : i # 1 => i - 1 \in DOMAIN r /\ s[i] = r[i - 1]
      /\ \A i \in DOMAIN r : i + 1 \in 1..(1 + Len(r)) /\ s[i + 1] = r[i]
  <2>1. Len(<<First>>) = 1 /\ <<First>>[1] = First /\ Len(r) \in Nat /\ DOMAIN r = 1..Len(r)
    BY <1>5
  <2>2. /\ s \in Seq(STRING) /\ Len(s) = 1 + Len(r)
        /\ \A i \in 1..(1 + Len(r)) : s[i] = IF i <= 1 THEN <<First>>[i] ELSE r[i - 1]
    BY <1>5, <1>6, <2>1, ConcatProperties
  <2>3. DOMAIN s = 1..(1 + Len(r))
    BY <2>2
  <2> HIDE DEF s
  <2> QED  BY <2>1, <2>2, <2>3
<1> HIDE DEF s
<1>8. ToSet(s) = {First} \cup ToSet(r)
  BY <1>7 DEF ToSet
<1>9. IsInjective(s)
  <2> SUFFICES ASSUME NEW i \in DOMAIN s, NEW j \in DOMAIN s, s[i] = s[j] PROVE i = j
    BY DEF IsInjective
  <2>1. ASSUME NEW k \in DOMAIN s, k # 1 PROVE s[k] # First
    <3>1. k - 1 \in DOMAIN r /\ s[k] = r[k - 1]
      BY <1>7, <2>1
    <3>2. r[k - 1] \in ToSet(r)
      BY <3>1 DEF ToSet
    <3> QED  BY <1>4, <1>5, <3>1, <3>2
  <2>2. CASE i = 1 \/ j = 1
    BY <1>7, <2>1, <2>2
  <2>3. CASE i # 1 /\ j # 1
    <3>1. i - 1 = j - 1
      BY <1>5, <1>7, <2>3 DEF IsInjective
    <3> QED  BY <1>7, <3>1
  <2> QED  BY <2>2, <2>3
<1> QED  BY <1>4, <1>5, <1>7, <1>8, <1>9 DEF Lineup, s, r, t, c

\* A cleanup is in order, in either runtime, or there is nothing to clean up yet.
LEMMA CleanupScript ==
  ASSUME SpecTypes
  PROVE  /\ runtime = "compose" => Script(Cleanup, ComposeDownCalls, "whole") \/ Cleanup = <<>>
         /\ runtime = "process" => Script(Cleanup, ProcessDownCalls, "whole")
<1> DEFINE s == IF restarts = 0 THEN Reverse(Chain[story]) ELSE <<First>> \o Reverse(Tail(Chain[story]))
           stopped == FlattenSeq([i \in 1..Len(s) |-> StopNode(s[i])])
           D == UNION {StopNodeCalls(o) : o \in Orgs}
           x == IF story = "single" THEN stop(NATS) ELSE stop(PDP)
           y == IF story = "single" THEN stop(PDP) ELSE stop(NATS)
           X == IF story = "single" THEN StopCalls(NATS) ELSE StopCalls(PDP)
           Y == IF story = "single" THEN StopCalls(PDP) ELSE StopCalls(NATS)
<1>0. 6 \in Flat /\ NATS \in Infra /\ PDP \in Infra
  BY DEF Flat, Infra
<1>1. Lineup(s)
  <2>1. Lineup(Reverse(Chain[story]))
    BY ChainIsLineup, ReverseIs DEF Lineup
  <2> QED  BY <2>1, RestartedLineup
<1>2. Line(stopped, D, 2, 5, "whole")
  <2> HIDE DEF s
  <2> QED  BY <1>1, EachBlock DEF Block
<1>3. Line(x, X, 6, 6, "whole") /\ Line(y, Y, 6, 6, "whole")
  BY <1>0, InfraLines
<1>4. runtime # "compose" => Cleanup = stopped \o (x \o y)
  BY DEF Cleanup, Each
<1>5. ProcessDownCalls = D \cup (X \cup Y)
  <2>1. ProcessDownCalls = (D \cup StopCalls(NATS)) \cup StopCalls(PDP)
    BY DEF ProcessDownCalls
  <2> HIDE DEF D
  <2> QED  BY <2>1
<1> HIDE DEF stopped, D, x, y, X, Y
<1>6. Line(x \o y, X \cup Y, 6, 6, "whole")
  BY <1>0, <1>3, LineThen
<1>7. Line(stopped \o (x \o y), D \cup (X \cup Y), 2, 6, "whole")
  BY <1>2, <1>6, LineThen
<1>8. runtime = "compose" => Cleanup = ComposeDown \/ Cleanup = <<>>
  BY DEF Cleanup
<1> QED  BY <1>4, <1>5, <1>7, <1>8, ComposeDownLine DEF Line

\* A restart of the first node is in order, in the order its story and runtime have.
FirstGates == {l \in gates : l[1] = First}

RestartCalls == ((StopNodeCalls(First) \cup StartNodeCalls(First)) \cup Waits(FirstGates)) \cup Return

How == IF phase = "restart" /\ story = "single" /\ runtime = "compose" THEN "apart" ELSE "whole"

LEMMA RestartScript ==
  ASSUME SpecTypes, gates \subseteq Loops
  PROVE  /\ story = "single" /\ runtime = "compose" => Script(RestartNode, RestartCalls, "apart")
         /\ ~(story = "single" /\ runtime = "compose") => Script(RestartNode, RestartCalls, "whole")
<1> DEFINE N == Network(First)
           P == Pipeline(First)
<1>0. FirstGates \subseteq Loops
  BY DEF FirstGates
<1>1. \A how : Line(Do("return", First), Return, 17, 17, how) /\ Line(Gated(FirstGates), Waits(FirstGates), 16, 16, how)
  BY <1>0, AllCalls, LineDo, GatedLine DEF Return
<1>2. ASSUME NEW L, NEW S, NEW how, Line(L, S, 2, 15, how)
      PROVE  Script((L \o Gated(FirstGates)) \o Do("return", First), (S \cup Waits(FirstGates)) \cup Return, how)
  <2>1. Line(L \o Gated(FirstGates), S \cup Waits(FirstGates), 2, 16, how)
    BY <1>1, <1>2, LineThen
  <2>2. Line((L \o Gated(FirstGates)) \o Do("return", First), (S \cup Waits(FirstGates)) \cup Return, 2, 17, how)
    BY <1>1, <2>1, LineThen
  <2> QED  BY <2>2 DEF Line
<1>3. Line(StopNode(First) \o StartSeparatedNode(First), StopNodeCalls(First) \cup StartNodeCalls(First), 2, 15, "whole")
  <2>1. /\ Line(StopNode(First), StopNodeCalls(First), 2, 5, "whole")
        /\ Line(StartSeparatedNode(First), StartNodeCalls(First), 10, 15, "whole")
    BY OrgBlocks DEF Block
  <2> QED  BY <2>1, LineThen
<1>4. Line(stop(N) \o start(N) \o stop(P) \o start(P), StopNodeCalls(First) \cup StartNodeCalls(First), 2, 15, "apart")
  <2> DEFINE A == StopCalls(N)
             B == StartCalls(N)
             C == StopCalls(P)
             D == StartCalls(P)
  <2>1. /\ Line(stop(N), A, 4, 5, "apart") /\ Line(start(N), B, 10, 11, "apart")
        /\ Line(stop(P), C, 12, 13, "apart") /\ Line(start(P), D, 14, 15, "apart")
    BY NodeBlocks DEF Block
  <2>2. StopNodeCalls(First) \cup StartNodeCalls(First) = ((A \cup B) \cup C) \cup D
    BY DEF StopNodeCalls, StartNodeCalls
  <2> HIDE DEF A, B, C, D, N, P
  <2>3. Line(stop(N) \o start(N), A \cup B, 4, 11, "apart")
    BY <2>1, LineThen
  <2>4. Line((stop(N) \o start(N)) \o stop(P), (A \cup B) \cup C, 4, 13, "apart")
    BY <2>1, <2>3, LineThen
  <2>5. Line(((stop(N) \o start(N)) \o stop(P)) \o start(P), ((A \cup B) \cup C) \cup D, 4, 15, "apart")
    BY <2>1, <2>4, LineThen
  <2>6. Spans(((A \cup B) \cup C) \cup D, 2, 15, "apart")
    BY <2>5 DEF Line, Spans
  <2> QED  BY <2>2, <2>5, <2>6 DEF Line
<1>5. RestartNode = ((IF story = "single" /\ runtime = "compose"
                      THEN stop(N) \o start(N) \o stop(P) \o start(P)
                      ELSE StopNode(First) \o StartSeparatedNode(First)) \o Gated(FirstGates)) \o Do("return", First)
  BY DEF RestartNode, FirstGates
<1> HIDE DEF N, P
<1> QED  BY <1>2, <1>3, <1>4, <1>5 DEF RestartCalls

\* So is the stop of the first node that a scenario leaves it at.
LEMMA StopScript == Script(StopNode(First), StopNodeCalls(First), "whole")
BY OrgBlocks DEF Block, Line

-----------------------------------------------------------------------------
(***************************************************************************)
(* What there is to do in each phase, and what of it is left.              *)
(***************************************************************************)
\* The calls of each phase, by what they are about.
DueInSetup(op, arg) ==
    \/ op = "start" /\ runtime = "process" /\ arg \in Services
    \/ op = "ready" /\ arg \in Services /\ (runtime = "compose" => arg # PDP)
    \/ op \in {"stop", "gone"} /\ runtime = "compose" /\ arg \in Services
    \/ op \in {"wipe", "remove", "up"} /\ runtime = "compose" /\ arg = NATS
    \/ op = "mount" /\ runtime = "compose" /\ arg \in (Orgs \X {"keys", "config"}) \cup {<<"broker", "jwts">>}
    \/ op \in {"provision", "issue"} /\ arg \in DIDs
    \/ op = "owner" /\ arg \in Orgs
    \/ op = "identity" /\ story = "single" /\ arg = First
    \/ op = "subscribed" /\ arg \in gates
    \/ op = "return" /\ arg = First

FirstNode == {Network(First), Pipeline(First)}

DueInRestart(op, arg) ==
    \/ op \in {"stop", "gone", "start", "ready"} /\ arg \in FirstNode
    \/ op = "subscribed" /\ arg \in gates /\ arg[1] = First
    \/ op = "return" /\ arg = First

DueInCleanup(op, arg) ==
    \/ op \in {"stop", "gone"} /\ arg \in Services
    \/ op = "remove" /\ runtime = "compose" /\ arg = NATS

Due(ph, op, arg) ==
    \/ ph = "setup" /\ DueInSetup(op, arg)
    \/ ph = "restart" /\ DueInRestart(op, arg)
    \/ ph = "stopped" /\ op \in {"stop", "gone"} /\ arg \in FirstNode
    \/ ph = "cleanup" /\ DueInCleanup(op, arg)

\* The calls L are in order, they are calls of the phase, and what of the phase
\* comes after one of them, about the same, is one of them too.
Remaining(L, ph, how) ==
    /\ L \in Seq(ToSet(L)) /\ InOrder(L, how)
    /\ \A c \in ToSet(L) : c = Item(c.op, c.arg) /\ Due(ph, c.op, c.arg)
    /\ \A c \in ToSet(L) : \A op, arg :
          Due(ph, op, arg) /\ Related(c, Item(op, arg)) /\ Stage(c, how) < Stage(Item(op, arg), how)
          => Item(op, arg) \in ToSet(L)

\* What the harness has still to do is what remains of its phase.
TodoInv == Remaining(todo, phase, How)

\* S is what there is to do in phase ph.
Covers(S, ph) ==
    /\ \A c \in S : c = Item(c.op, c.arg)
    /\ \A op, arg : Item(op, arg) \in S <=> Due(ph, op, arg)

\* A list that has all of it in order is what remains at its start.
LEMMA WholeRemains ==
  ASSUME NEW L, NEW S, NEW ph, NEW how, Script(L, S, how), Covers(S, ph)
  PROVE  Remaining(L, ph, how)
<1>1. L \in Seq(S) /\ ToSet(L) = S /\ InOrder(L, how)
  BY DEF Script
<1>2. \A c \in S : c = Item(c.op, c.arg) /\ Due(ph, c.op, c.arg)
  BY DEF Covers
<1>3. \A op, arg : Due(ph, op, arg) => Item(op, arg) \in S
  BY DEF Covers
<1> QED  BY <1>1, <1>2, <1>3 DEF Remaining

LEMMA ItemIs ==
  /\ \A op, arg : Item(op, arg) = Item(Item(op, arg).op, Item(op, arg).arg)
  /\ \A op, arg, op2, arg2 : Item(op, arg) = Item(op2, arg2) <=> op = op2 /\ arg = arg2
<1>1. \A op, arg : Item(op, arg).op = op /\ Item(op, arg).arg = arg
  BY DEF Item
<1> QED  BY <1>1

\* All of it are calls.
AreItems(S) == \A c \in S : \E op, arg : c = Item(op, arg)

LEMMA CoversIf ==
  ASSUME NEW S, NEW ph, AreItems(S), \A op, arg : Item(op, arg) \in S <=> Due(ph, op, arg)
  PROVE  Covers(S, ph)
BY ItemIs DEF AreItems, Covers

\* Which calls are in the sets above.
LEMMA MembersOfCalls ==
  /\ \A s, op, arg : /\ Item(op, arg) \in StartCalls(s) <=> op \in {"start", "ready"} /\ arg = s
                     /\ Item(op, arg) \in StopCalls(s) <=> op \in {"stop", "gone"} /\ arg = s
  /\ \A o, op, arg :
       /\ Item(op, arg) \in ProvisionCalls(o) <=> op = "provision" /\ arg \in {<<o, "pipeline">>, <<o, "process">>}
       /\ Item(op, arg) \in StartNodeCalls(o) <=> op \in {"start", "ready"} /\ arg \in {Network(o), Pipeline(o)}
       /\ Item(op, arg) \in StopNodeCalls(o) <=> op \in {"stop", "gone"} /\ arg \in {Network(o), Pipeline(o)}
       /\ Item(op, arg) \in BootstrapCalls(o) <=> \/ op = "owner" /\ arg = o
                                                  \/ op = "issue" /\ arg \in {<<o, "pipeline">>, <<o, "process">>}
       /\ Item(op, arg) \in WaitCalls(o) <=> op = "ready" /\ arg \in {Network(o), Pipeline(o)}
       /\ Item(op, arg) \in WrittenCalls(o) <=> \/ op = "provision" /\ arg \in {<<o, "pipeline">>, <<o, "process">>}
                                                \/ op = "identity" /\ story = "single" /\ arg = o
                                                \/ op = "mount" /\ arg \in {<<o, "keys">>, <<o, "config">>}
  /\ \A G, op, arg : Item(op, arg) \in Waits(G) <=> op = "subscribed" /\ arg \in G
  /\ \A op, arg : Item(op, arg) \in Return <=> op = "return" /\ arg = First
<1> USE ItemIs
<1>1. \A s, op, arg : /\ Item(op, arg) \in StartCalls(s) <=> op \in {"start", "ready"} /\ arg = s
                      /\ Item(op, arg) \in StopCalls(s) <=> op \in {"stop", "gone"} /\ arg = s
  BY DEF StartCalls, StopCalls
<1>2. \A o, op, arg : Item(op, arg) \in ProvisionCalls(o) <=> op = "provision" /\ arg \in {<<o, "pipeline">>, <<o, "process">>}
  BY DEF ProvisionCalls
<1>3. \A o, op, arg :
        /\ Item(op, arg) \in StartNodeCalls(o) <=> op \in {"start", "ready"} /\ arg \in {Network(o), Pipeline(o)}
        /\ Item(op, arg) \in StopNodeCalls(o) <=> op \in {"stop", "gone"} /\ arg \in {Network(o), Pipeline(o)}
  BY <1>1 DEF StartNodeCalls, StopNodeCalls
<1>4. \A o, op, arg :
        /\ Item(op, arg) \in BootstrapCalls(o) <=> \/ op = "owner" /\ arg = o
                                                   \/ op = "issue" /\ arg \in {<<o, "pipeline">>, <<o, "process">>}
        /\ Item(op, arg) \in WaitCalls(o) <=> op = "ready" /\ arg \in {Network(o), Pipeline(o)}
  BY DEF BootstrapCalls, WaitCalls
<1>5. \A o, op, arg : Item(op, arg) \in WrittenCalls(o) <=>
                        \/ op = "provision" /\ arg \in {<<o, "pipeline">>, <<o, "process">>}
                        \/ op = "identity" /\ story = "single" /\ arg = o
                        \/ op = "mount" /\ arg \in {<<o, "keys">>, <<o, "config">>}
  BY <1>2 DEF WrittenCalls
<1>6. \A G, op, arg : Item(op, arg) \in Waits(G) <=> op = "subscribed" /\ arg \in G
  BY DEF Waits
<1>7. \A op, arg : Item(op, arg) \in Return <=> op = "return" /\ arg = First
  BY DEF Return
<1> QED  BY <1>1, <1>2, <1>3, <1>4, <1>5, <1>6, <1>7

LEMMA CallsAreItems ==
  /\ \A s : AreItems(StartCalls(s)) /\ AreItems(StopCalls(s))
  /\ \A o : /\ AreItems(ProvisionCalls(o)) /\ AreItems(StartNodeCalls(o)) /\ AreItems(StopNodeCalls(o))
            /\ AreItems(BootstrapCalls(o)) /\ AreItems(WaitCalls(o)) /\ AreItems(WrittenCalls(o))
  /\ \A G : AreItems(Waits(G))
  /\ AreItems(Return)
<1>1. \A s : AreItems(StartCalls(s)) /\ AreItems(StopCalls(s))
  BY DEF AreItems, StartCalls, StopCalls
<1>2. \A o : AreItems(ProvisionCalls(o)) /\ AreItems(BootstrapCalls(o)) /\ AreItems(WaitCalls(o))
  BY DEF AreItems, ProvisionCalls, BootstrapCalls, WaitCalls
<1>3. \A o : AreItems(StartNodeCalls(o)) /\ AreItems(StopNodeCalls(o))
  BY <1>1 DEF AreItems, StartNodeCalls, StopNodeCalls
<1>4. \A o : AreItems(WrittenCalls(o))
  BY <1>2 DEF AreItems, WrittenCalls
<1>5. \A G : AreItems(Waits(G))
  BY DEF AreItems, Waits
<1>6. AreItems(Return)
  BY DEF AreItems, Return
<1> QED  BY <1>1, <1>2, <1>3, <1>4, <1>5, <1>6

LEMMA ServicesAre ==
  /\ \A s : s \in Services <=> s \in Infra \/ \E o \in Orgs : s \in {Network(o), Pipeline(o)}
  /\ \A d : d \in DIDs <=> \E o \in Orgs : d \in {<<o, "pipeline">>, <<o, "process">>}
<1>1. \A s : s \in Services <=> s \in Infra \/ \E o \in Orgs : s \in {Network(o), Pipeline(o)}
  BY DEF Services, Infra, Network, Pipeline
<1>2. \A d : d \in DIDs <=> \E o \in Orgs : d \in {<<o, "pipeline">>, <<o, "process">>}
  BY DEF DIDs, Identity
<1> QED  BY <1>1, <1>2

LEMMA EachAreItems ==
  LET each == {UNION {ProvisionCalls(o) : o \in Orgs}, UNION {StartedCalls(o) : o \in Orgs},
               UNION {WholeCalls(o) : o \in Orgs}, UNION {StopNodeCalls(o) : o \in Orgs},
               UNION {WrittenCalls(o) : o \in Orgs}, UNION {WaitCalls(o) : o \in Orgs},
               UNION {BootstrapCalls(o) : o \in Orgs}}
  IN  \A S \in each : AreItems(S)
<1>1. \A o : AreItems(StartedCalls(o)) /\ AreItems(WholeCalls(o))
  BY CallsAreItems DEF AreItems, StartedCalls, WholeCalls
<1>2. AreItems(UNION {ProvisionCalls(o) : o \in Orgs}) /\ AreItems(UNION {StartedCalls(o) : o \in Orgs})
  BY <1>1, CallsAreItems DEF AreItems
<1>3. AreItems(UNION {WholeCalls(o) : o \in Orgs}) /\ AreItems(UNION {StopNodeCalls(o) : o \in Orgs})
  BY <1>1, CallsAreItems DEF AreItems
<1>4. AreItems(UNION {WrittenCalls(o) : o \in Orgs}) /\ AreItems(UNION {WaitCalls(o) : o \in Orgs})
  BY CallsAreItems DEF AreItems
<1>5. AreItems(UNION {BootstrapCalls(o) : o \in Orgs})
  BY CallsAreItems DEF AreItems
<1> QED  BY <1>2, <1>3, <1>4, <1>5

\* What is done about each organization, as one condition.
LEMMA MembersOfEach ==
  ASSUME NEW op, NEW arg
  PROVE  /\ Item(op, arg) \in UNION {ProvisionCalls(o) : o \in Orgs} <=> op = "provision" /\ arg \in DIDs
         /\ Item(op, arg) \in UNION {StopNodeCalls(o) : o \in Orgs}
              <=> op \in {"stop", "gone"} /\ arg \in Services \ Infra
         /\ Item(op, arg) \in UNION {WaitCalls(o) : o \in Orgs} <=> op = "ready" /\ arg \in Services \ Infra
         /\ Item(op, arg) \in UNION {BootstrapCalls(o) : o \in Orgs}
              <=> (op = "owner" /\ arg \in Orgs) \/ (op = "issue" /\ arg \in DIDs)
         /\ Item(op, arg) \in UNION {StartedCalls(o) : o \in Orgs}
              <=> \/ op \in {"start", "ready"} /\ arg \in Services \ Infra
                  \/ op = "owner" /\ arg \in Orgs
                  \/ op = "issue" /\ arg \in DIDs
         /\ Item(op, arg) \in UNION {WholeCalls(o) : o \in Orgs}
              <=> \/ op = "provision" /\ arg \in DIDs
                  \/ op \in {"start", "ready"} /\ arg \in Services \ Infra
                  \/ op = "owner" /\ arg \in Orgs
                  \/ op = "issue" /\ arg \in DIDs
         /\ Item(op, arg) \in UNION {WrittenCalls(o) : o \in Orgs}
              <=> \/ op = "provision" /\ arg \in DIDs
                  \/ op = "identity" /\ story = "single" /\ arg \in Orgs
                  \/ op = "mount" /\ arg \in Orgs \X {"keys", "config"}
<1>0. \A s : s \in Services \ Infra <=> \E o \in Orgs : s \in {Network(o), Pipeline(o)}
  <2>1. \A o : Network(o) \notin Infra /\ Pipeline(o) \notin Infra
    BY NotInfra DEF Network, Pipeline, Words
  <2> QED  BY <2>1, ServicesAre
<1>1. Item(op, arg) \in UNION {ProvisionCalls(o) : o \in Orgs} <=> op = "provision" /\ arg \in DIDs
  <2>1. Item(op, arg) \in UNION {ProvisionCalls(o) : o \in Orgs} <=> \E o \in Orgs : Item(op, arg) \in ProvisionCalls(o)
    OBVIOUS
  <2> QED  BY <2>1, MembersOfCalls, ServicesAre
<1>2. Item(op, arg) \in UNION {StopNodeCalls(o) : o \in Orgs} <=> op \in {"stop", "gone"} /\ arg \in Services \ Infra
  <2>1. Item(op, arg) \in UNION {StopNodeCalls(o) : o \in Orgs} <=> \E o \in Orgs : Item(op, arg) \in StopNodeCalls(o)
    OBVIOUS
  <2> QED  BY <1>0, <2>1, MembersOfCalls
<1>3. Item(op, arg) \in UNION {WaitCalls(o) : o \in Orgs} <=> op = "ready" /\ arg \in Services \ Infra
  <2>1. Item(op, arg) \in UNION {WaitCalls(o) : o \in Orgs} <=> \E o \in Orgs : Item(op, arg) \in WaitCalls(o)
    OBVIOUS
  <2> QED  BY <1>0, <2>1, MembersOfCalls
<1>4. Item(op, arg) \in UNION {BootstrapCalls(o) : o \in Orgs}
        <=> (op = "owner" /\ arg \in Orgs) \/ (op = "issue" /\ arg \in DIDs)
  <2>1. Item(op, arg) \in UNION {BootstrapCalls(o) : o \in Orgs} <=> \E o \in Orgs : Item(op, arg) \in BootstrapCalls(o)
    OBVIOUS
  <2> QED  BY <2>1, MembersOfCalls, ServicesAre
<1>5. Item(op, arg) \in UNION {StartedCalls(o) : o \in Orgs}
        <=> \/ op \in {"start", "ready"} /\ arg \in Services \ Infra
            \/ op = "owner" /\ arg \in Orgs
            \/ op = "issue" /\ arg \in DIDs
  <2>1. Item(op, arg) \in UNION {StartedCalls(o) : o \in Orgs}
          <=> \E o \in Orgs : Item(op, arg) \in StartNodeCalls(o) \/ Item(op, arg) \in BootstrapCalls(o)
    BY DEF StartedCalls
  <2>2. (\E o \in Orgs : Item(op, arg) \in StartNodeCalls(o)) <=> op \in {"start", "ready"} /\ arg \in Services \ Infra
    BY <1>0, MembersOfCalls
  <2>3. (\E o \in Orgs : Item(op, arg) \in BootstrapCalls(o))
          <=> (op = "owner" /\ arg \in Orgs) \/ (op = "issue" /\ arg \in DIDs)
    BY MembersOfCalls, ServicesAre
  <2> QED  BY <2>1, <2>2, <2>3
<1>6. Item(op, arg) \in UNION {WholeCalls(o) : o \in Orgs}
        <=> Item(op, arg) \in UNION {ProvisionCalls(o) : o \in Orgs} \/ Item(op, arg) \in UNION {StartedCalls(o) : o \in Orgs}
  BY DEF WholeCalls
<1>7. Item(op, arg) \in UNION {WrittenCalls(o) : o \in Orgs}
        <=> \/ op = "provision" /\ arg \in DIDs
            \/ op = "identity" /\ story = "single" /\ arg \in Orgs
            \/ op = "mount" /\ arg \in Orgs \X {"keys", "config"}
  <2>1. Item(op, arg) \in UNION {WrittenCalls(o) : o \in Orgs} <=> \E o \in Orgs : Item(op, arg) \in WrittenCalls(o)
    OBVIOUS
  <2>2. arg \in Orgs \X {"keys", "config"} <=> \E o \in Orgs : arg \in {<<o, "keys">>, <<o, "config">>}
    OBVIOUS
  <2> QED  BY <2>1, <2>2, MembersOfCalls, ServicesAre
<1> QED  BY <1>1, <1>2, <1>3, <1>4, <1>5, <1>6, <1>7

-----------------------------------------------------------------------------
\* The lists of the setups are whole.
LEMMA SingleCovers ==
  ASSUME SpecTypes, story = "single", runtime = "process", gates \subseteq Loops
  PROVE  Covers(ProcessSingleCalls, "setup")
<1>0. Orgs = {First}
  BY OrgsOfChain
<1>1. AreItems(ProcessSingleCalls)
  <2>1. AreItems({Item("identity", First)})
    BY DEF AreItems
  <2> QED  BY <2>1, CallsAreItems DEF AreItems, ProcessSingleCalls
<1>2. ASSUME NEW op, NEW arg
      PROVE  Item(op, arg) \in ProcessSingleCalls <=> DueInSetup(op, arg)
  <2>1. Item(op, arg) \in ProcessSingleCalls <=>
          \/ op \in {"start", "ready"} /\ arg \in Infra
          \/ op = "provision" /\ arg \in {<<First, "pipeline">>, <<First, "process">>}
          \/ op = "identity" /\ arg = First
          \/ op \in {"start", "ready"} /\ arg \in {Network(First), Pipeline(First)}
          \/ op = "subscribed" /\ arg \in gates
          \/ op = "owner" /\ arg = First
          \/ op = "issue" /\ arg \in {<<First, "pipeline">>, <<First, "process">>}
          \/ op = "return" /\ arg = First
    BY MembersOfCalls, ItemIs DEF ProcessSingleCalls, Infra
  <2>2. /\ arg \in Services <=> arg \in Infra \/ arg \in {Network(First), Pipeline(First)}
        /\ arg \in DIDs <=> arg \in {<<First, "pipeline">>, <<First, "process">>}
    BY <1>0, ServicesAre
  <2> QED  BY <1>0, <2>1, <2>2 DEF DueInSetup
<1> QED  BY <1>1, <1>2, CoversIf DEF Due

LEMMA SeveralCover ==
  ASSUME SpecTypes, runtime = "process", gates \subseteq Loops
  PROVE  /\ story = "losswindow" => Covers(ProcessLossCalls, "setup")
         /\ story = "supplychain" => Covers(ProcessSupplyCalls, "setup")
<1>1. AreItems(ProcessLossCalls) /\ AreItems(ProcessSupplyCalls)
  BY CallsAreItems, EachAreItems DEF AreItems, ProcessLossCalls, ProcessSupplyCalls
<1>2. ASSUME NEW op, NEW arg, story # "single"
      PROVE  /\ Item(op, arg) \in ProcessLossCalls <=> DueInSetup(op, arg)
             /\ Item(op, arg) \in ProcessSupplyCalls <=> DueInSetup(op, arg)
  <2>1. Infra \subseteq Services
    BY ServicesAre
  <2>2. Item(op, arg) \in StartCalls(NATS) \cup StartCalls(PDP) <=> op \in {"start", "ready"} /\ arg \in Infra
    BY MembersOfCalls DEF Infra
  <2>3. DueInSetup(op, arg) <=>
          \/ op \in {"start", "ready"} /\ arg \in Infra
          \/ op \in {"start", "ready"} /\ arg \in Services \ Infra
          \/ op = "provision" /\ arg \in DIDs
          \/ op = "issue" /\ arg \in DIDs
          \/ op = "owner" /\ arg \in Orgs
          \/ op = "subscribed" /\ arg \in gates
          \/ op = "return" /\ arg = First
    BY <1>2, <2>1 DEF DueInSetup
  <2>4. Item(op, arg) \in ProcessLossCalls <=> DueInSetup(op, arg)
    <3>1. Item(op, arg) \in ProcessLossCalls <=>
            \/ Item(op, arg) \in StartCalls(NATS) \cup StartCalls(PDP)
            \/ Item(op, arg) \in UNION {ProvisionCalls(o) : o \in Orgs}
            \/ Item(op, arg) \in UNION {StartedCalls(o) : o \in Orgs}
            \/ Item(op, arg) \in Waits(gates) \/ Item(op, arg) \in Return
      BY DEF ProcessLossCalls
    <3> QED  BY <2>2, <2>3, <3>1, MembersOfEach, MembersOfCalls
  <2>5. Item(op, arg) \in ProcessSupplyCalls <=> DueInSetup(op, arg)
    <3>1. Item(op, arg) \in ProcessSupplyCalls <=>
            \/ Item(op, arg) \in StartCalls(NATS) \cup StartCalls(PDP)
            \/ Item(op, arg) \in UNION {WholeCalls(o) : o \in Orgs}
            \/ Item(op, arg) \in Waits(gates) \/ Item(op, arg) \in Return
      BY DEF ProcessSupplyCalls
    <3> QED  BY <2>2, <2>3, <3>1, MembersOfEach, MembersOfCalls
  <2> QED  BY <2>4, <2>5
<1> QED  BY <1>1, <1>2, CoversIf DEF Due

LEMMA ComposeDownMembers ==
  ASSUME NEW op, NEW arg
  PROVE  /\ Item(op, arg) \in ComposeDownCalls <=> \/ op \in {"stop", "gone"} /\ arg \in Services
                                                   \/ op = "remove" /\ arg = NATS
         /\ Item(op, arg) \in ProcessDownCalls <=> op \in {"stop", "gone"} /\ arg \in Services
<1>1. Infra \subseteq Services
  BY ServicesAre
<1>2. Item(op, arg) \in StopCalls(NATS) \/ Item(op, arg) \in StopCalls(PDP) <=> op \in {"stop", "gone"} /\ arg \in Infra
  BY MembersOfCalls DEF Infra
<1>3. /\ Item(op, arg) \in ProcessDownCalls <=>
           \/ Item(op, arg) \in UNION {StopNodeCalls(o) : o \in Orgs}
           \/ Item(op, arg) \in StopCalls(NATS) \/ Item(op, arg) \in StopCalls(PDP)
      /\ Item(op, arg) \in ComposeDownCalls <=>
           \/ Item(op, arg) \in UNION {StopNodeCalls(o) : o \in Orgs}
           \/ Item(op, arg) \in StopCalls(NATS) \/ Item(op, arg) \in StopCalls(PDP)
           \/ Item(op, arg) = Item("remove", NATS)
  BY DEF ProcessDownCalls, ComposeDownCalls
<1> QED  BY <1>1, <1>2, <1>3, MembersOfEach, ItemIs

LEMMA ComposeCovers ==
  ASSUME SpecTypes, runtime = "compose", gates \subseteq Loops
  PROVE  Covers(ComposeCalls, "setup")
<1>0. AreItems(ComposeDownCalls)
  BY CallsAreItems, EachAreItems DEF AreItems, ComposeDownCalls
<1>1. AreItems(ComposeCalls)
  <2>1. \A op, arg : AreItems({Item(op, arg)})
    BY DEF AreItems
  <2> QED  BY <1>0, <2>1, CallsAreItems, EachAreItems DEF AreItems, ComposeCalls
<1>2. ASSUME NEW op, NEW arg
      PROVE  Item(op, arg) \in ComposeCalls <=> DueInSetup(op, arg)
  <2>1. Item(op, arg) \in ComposeCalls <=>
          \/ Item(op, arg) = Item("wipe", NATS) \/ Item(op, arg) = Item("mount", <<"broker", "jwts">>)
          \/ Item(op, arg) \in UNION {WrittenCalls(o) : o \in Orgs}
          \/ Item(op, arg) \in ComposeDownCalls \/ Item(op, arg) = Item("up", NATS)
          \/ Item(op, arg) = Item("ready", NATS)
          \/ Item(op, arg) \in UNION {WaitCalls(o) : o \in Orgs}
          \/ Item(op, arg) \in Waits(gates)
          \/ Item(op, arg) \in UNION {BootstrapCalls(o) : o \in Orgs}
          \/ Item(op, arg) \in Return
    BY DEF ComposeCalls
  <2>2. Item(op, arg) \in ComposeCalls <=>
          \/ op = "wipe" /\ arg = NATS
          \/ op = "mount" /\ arg = <<"broker", "jwts">>
          \/ op = "provision" /\ arg \in DIDs
          \/ op = "identity" /\ story = "single" /\ arg \in Orgs
          \/ op = "mount" /\ arg \in Orgs \X {"keys", "config"}
          \/ op \in {"stop", "gone"} /\ arg \in Services
          \/ op = "remove" /\ arg = NATS
          \/ op = "up" /\ arg = NATS
          \/ op = "ready" /\ arg = NATS
          \/ op = "ready" /\ arg \in Services \ Infra
          \/ op = "subscribed" /\ arg \in gates
          \/ op = "owner" /\ arg \in Orgs
          \/ op = "issue" /\ arg \in DIDs
          \/ op = "return" /\ arg = First
    BY <2>1, ComposeDownMembers, MembersOfEach, MembersOfCalls, ItemIs
  <2>3. arg \in Services /\ arg # PDP <=> arg = NATS \/ arg \in Services \ Infra
    BY ServicesAre DEF Infra, NATS, PDP
  <2>4. story = "single" => (arg \in Orgs <=> arg = First)
    BY OrgsOfChain
  <2> QED  BY <2>2, <2>3, <2>4 DEF DueInSetup
<1> QED  BY <1>1, <1>2, CoversIf DEF Due

LEMMA RestCover ==
  ASSUME SpecTypes
  PROVE  /\ runtime = "compose" => Covers(ComposeDownCalls, "cleanup")
         /\ runtime = "process" => Covers(ProcessDownCalls, "cleanup")
         /\ Covers(RestartCalls, "restart")
         /\ Covers(StopNodeCalls(First), "stopped")
<1>1. AreItems(ComposeDownCalls) /\ AreItems(ProcessDownCalls)
  BY CallsAreItems, EachAreItems DEF AreItems, ComposeDownCalls, ProcessDownCalls
<1>2. AreItems(RestartCalls) /\ AreItems(StopNodeCalls(First))
  BY CallsAreItems DEF AreItems, RestartCalls
<1>3. runtime = "compose" => Covers(ComposeDownCalls, "cleanup")
  BY <1>1, ComposeDownMembers, CoversIf DEF Due, DueInCleanup
<1>4. runtime = "process" => Covers(ProcessDownCalls, "cleanup")
  BY <1>1, ComposeDownMembers, CoversIf DEF Due, DueInCleanup
<1>5. ASSUME NEW op, NEW arg
      PROVE  Item(op, arg) \in RestartCalls <=> DueInRestart(op, arg)
  BY MembersOfCalls DEF RestartCalls, DueInRestart, FirstNode, FirstGates
<1>6. Covers(RestartCalls, "restart")
  BY <1>2, <1>5, CoversIf DEF Due
<1>7. Covers(StopNodeCalls(First), "stopped")
  BY <1>2, MembersOfCalls, CoversIf DEF Due, FirstNode
<1> QED  BY <1>3, <1>4, <1>6, <1>7

-----------------------------------------------------------------------------
\* What is never changed: the setup, and of the configurations what the booting
\* and the signing depend on.
SpecInv ==
    /\ AddressInv /\ gates \subseteq Loops
    /\ nodeIdentity \in Identity \cup {"owner"} /\ (story # "single" => nodeIdentity = "process")
    /\ \A o \in Orgs : conf[Network(o)].loops = {} /\ conf[Pipeline(o)].nodeDID = <<o, nodeIdentity>>

\* So it is at the start, and after every step.
LEMMA SpecInit == Init => SpecInv
<1> SUFFICES ASSUME Init PROVE SpecInv
  OBVIOUS
<1>1. conf = Rendered /\ AddressInv
  BY AddressInit DEF Init
<1>2. ASSUME NEW o \in Orgs
      PROVE  conf[Network(o)].loops = {} /\ conf[Pipeline(o)].nodeDID = <<o, nodeIdentity>>
  <2>1. /\ conf[Network(o)] = SplitNodeConfig(SeparatedConfigOf(o)).network
        /\ conf[Pipeline(o)] = SplitNodeConfig(SeparatedConfigOf(o)).pipeline
    BY <1>1 DEF Rendered, Network, Pipeline
  <2>2. SeparatedConfigOf(o).NodeDID = <<o, nodeIdentity>>
    BY DEF SeparatedConfigOf
  <2>3. \A c : SplitNodeConfig(c).network.loops = {} /\ SplitNodeConfig(c).pipeline.nodeDID = c.NodeDID
    BY DEF SplitNodeConfig, Render
  <2> QED  BY <2>1, <2>2, <2>3
<1>3. gates \subseteq Loops
  BY DEF Init
<1>4. nodeIdentity \in Identity \cup {"owner"} /\ (story # "single" => nodeIdentity = "process")
  BY DEF Init, Identity
<1> QED  BY <1>1, <1>2, <1>3, <1>4 DEF SpecInv

LEMMA SpecStep == SpecInv /\ UNCHANGED specVars => SpecInv'
<1> SUFFICES ASSUME SpecInv, UNCHANGED specVars PROVE SpecInv'
  OBVIOUS
<1>1. AddressInv'
  BY AddressStep DEF SpecInv
<1>2. Orgs' = Orgs /\ Loops' = Loops
  BY DEF specVars, Orgs, Loops, First
<1> QED  BY <1>1, <1>2 DEF SpecInv, specVars

-----------------------------------------------------------------------------
(***************************************************************************)
(* What is left to do.                                                     *)
(***************************************************************************)
\* At the start all of the setup is left to do.
LEMMA SetupRemains ==
  ASSUME Init PROVE TodoInv /\ Covers(ToSet(todo), "setup")
<1>0. SpecTypes /\ gates \subseteq Loops /\ phase = "setup" /\ How = "whole"
  BY SpecInit DEF Init, SpecInv, AddressInv, How
<1>1. \E S : Script(todo, S, "whole") /\ Covers(S, "setup")
  <2>1. CASE runtime = "compose"
    <3>1. todo = setupCompose \o Do("return", First)
      BY <2>1 DEF Init
    <3> QED  BY <1>0, <2>1, <3>1, ComposeSetup, ComposeCovers
  <2>2. CASE runtime = "process" /\ story = "single"
    <3>1. todo = setupProcess("single") \o Do("return", First)
      BY <2>2 DEF Init
    <3> QED  BY <1>0, <2>2, <3>1, ProcessSingle, SingleCovers
  <2>3. CASE runtime = "process" /\ story # "single"
    <3>1. todo = setupProcess(story) \o Do("return", First)
      BY <2>3 DEF Init
    <3>2. story = "losswindow" \/ story = "supplychain"
      BY <1>0, <2>3 DEF SpecTypes, Stories
    <3> QED  BY <1>0, <2>3, <3>1, <3>2, ProcessSeveral, SeveralCover
  <2> QED  BY <1>0, <2>1, <2>2, <2>3 DEF SpecTypes
<1> QED  BY <1>0, <1>1, WholeRemains DEF TodoInv, Script

\* And of a cleanup, a restart or a stop all of it when it begins.
LEMMA WholeLists ==
  ASSUME SpecInv
  PROVE  /\ Remaining(Cleanup, "cleanup", "whole") /\ (Covers(ToSet(Cleanup), "cleanup") \/ Cleanup = <<>>)
         /\ Remaining(RestartNode, "restart", IF story = "single" /\ runtime = "compose" THEN "apart" ELSE "whole")
         /\ Covers(ToSet(RestartNode), "restart")
         /\ Remaining(StopNode(First), "stopped", "whole") /\ Covers(ToSet(StopNode(First)), "stopped")
         /\ \A ph, how : Remaining(<<>>, ph, how) /\ ToSet(<<>>) = {}
<1>0. SpecTypes /\ gates \subseteq Loops
  BY DEF SpecInv, AddressInv
<1>1. Remaining(Cleanup, "cleanup", "whole") /\ (Covers(ToSet(Cleanup), "cleanup") \/ Cleanup = <<>>)
  <2>1. (\E S : Script(Cleanup, S, "whole") /\ Covers(S, "cleanup")) \/ Cleanup = <<>>
    BY <1>0, CleanupScript, RestCover DEF SpecTypes
  <2>2. \A L : L = <<>> => Remaining(L, "cleanup", "whole")
    BY DEF Remaining, ToSet, InOrder
  <2> QED  BY <2>1, <2>2, WholeRemains DEF Script
<1>2. /\ Remaining(RestartNode, "restart", IF story = "single" /\ runtime = "compose" THEN "apart" ELSE "whole")
      /\ Covers(ToSet(RestartNode), "restart")
  <2> DEFINE how == IF story = "single" /\ runtime = "compose" THEN "apart" ELSE "whole"
  <2>1. Script(RestartNode, RestartCalls, how)
    BY <1>0, RestartScript
  <2>2. Covers(RestartCalls, "restart")
    BY <1>0, RestCover
  <2>3. ToSet(RestartNode) = RestartCalls
    BY <2>1 DEF Script
  <2> HIDE DEF how
  <2>4. Remaining(RestartNode, "restart", how)
    BY <2>1, <2>2, WholeRemains
  <2> QED  BY <2>2, <2>3, <2>4 DEF how
<1>3. Remaining(StopNode(First), "stopped", "whole") /\ Covers(ToSet(StopNode(First)), "stopped")
  BY <1>0, StopScript, RestCover, WholeRemains DEF Script
<1>4. \A ph, how : Remaining(<<>>, ph, how) /\ ToSet(<<>>) = {}
  BY DEF Remaining, ToSet, InOrder
<1> QED  BY <1>1, <1>2, <1>3, <1>4

\* The calls of the phases have stages.
LEMMA StageIsNat ==
  ASSUME NEW ph, NEW op, NEW arg, NEW how, Due(ph, op, arg)
  PROVE  Stage(Item(op, arg), how) \in Nat
<1>1. op \in Ops
  BY DEF Due, DueInSetup, DueInRestart, DueInCleanup, Ops
<1>2. Item(op, arg).op \in Ops
  BY <1>1 DEF Item
<1> QED  BY <1>2 DEF Stage, Ops

\* What remains after the first call remains; and none of it comes before that call.
LEMMA TailRemains ==
  ASSUME NEW L, NEW ph, NEW how, Remaining(L, ph, how), L # <<>>
  PROVE  /\ Remaining(Tail(L), ph, how)
         /\ ToSet(L) = {Head(L)} \cup ToSet(Tail(L))
         /\ \A c \in ToSet(Tail(L)) : MayFollow(Head(L), c, how)
<1> DEFINE T == Tail(L)
           h == Head(L)
           S == ToSet(L)
<1>1. L \in Seq(S) /\ S = ToSet(L)
  BY DEF Remaining
<1> HIDE DEF S
<1>2. /\ h \in S /\ T \in Seq(S) /\ Len(T) = Len(L) - 1 /\ \A i \in 1..Len(T) : T[i] = L[i + 1]
      /\ Len(L) \in Nat \ {0} /\ DOMAIN L = 1..Len(L) /\ h = L[1] /\ DOMAIN T = 1..Len(T)
  BY <1>1, HeadTailProperties, EmptySeq
<1> HIDE DEF h, T
<1>3. \A i \in DOMAIN T : i + 1 \in DOMAIN L /\ T[i] = L[i + 1] /\ 1 < i + 1
  BY <1>2
<1>4. \A i \in DOMAIN L : i # 1 => i - 1 \in DOMAIN T /\ L[i] = T[i - 1]
  BY <1>2
<1>5. 1 \in DOMAIN L
  BY <1>2
<1>6. S = {h} \cup ToSet(T)
  <2>1. S = {L[i] : i \in DOMAIN L} /\ ToSet(T) = {T[i] : i \in DOMAIN T}
    BY <1>1 DEF ToSet
  <2>2. \A c \in ToSet(T) : c \in S
    BY <1>3, <2>1
  <2>3. \A c \in S : c = h \/ c \in ToSet(T)
    BY <1>2, <1>4, <2>1
  <2> QED  BY <1>2, <2>2, <2>3
<1>7. \A c \in ToSet(T) : MayFollow(h, c, how)
  BY <1>2, <1>3, <1>5 DEF ToSet, Remaining, InOrder
<1>8. InOrder(T, how)
  <2> SUFFICES ASSUME NEW i \in DOMAIN T, NEW j \in DOMAIN T, i < j PROVE MayFollow(T[i], T[j], how)
    BY DEF InOrder
  <2>1. i + 1 < j + 1
    BY <1>2
  <2> QED  BY <1>3, <2>1 DEF Remaining, InOrder
<1>9. T \in Seq(ToSet(T))
  BY <1>2 DEF ToSet
<1>10. ASSUME NEW c \in ToSet(T), NEW op, NEW arg,
              Due(ph, op, arg), Related(c, Item(op, arg)), Stage(c, how) < Stage(Item(op, arg), how)
       PROVE  Item(op, arg) \in ToSet(T)
  <2>1. Item(op, arg) \in S
    BY <1>1, <1>6, <1>10 DEF Remaining
  <2>2. ASSUME Item(op, arg) = h PROVE FALSE
    <3>1. c = Item(c.op, c.arg) /\ Due(ph, c.op, c.arg)
      BY <1>1, <1>6 DEF Remaining
    <3>2. Stage(c, how) \in Nat /\ Stage(h, how) \in Nat
      BY <1>10, <2>2, <3>1, StageIsNat
    <3>3. MayFollow(h, c, how) /\ Related(h, c)
      BY <1>7, <1>10, <2>2 DEF Related
    <3> QED  BY <1>10, <2>2, <3>2, <3>3 DEF MayFollow
  <2> QED  BY <1>6, <2>1, <2>2
<1> QED  BY <1>1, <1>6, <1>7, <1>8, <1>9, <1>10 DEF Remaining, S, T, h

-----------------------------------------------------------------------------
(***************************************************************************)
(* The inductive invariant.  TodoInv says which calls are left; the other  *)
(* parts say what each of them still has to bring about, and that what a   *)
(* call brought about lasts as long as something depends on it.            *)
(***************************************************************************)
Phases == {"setup", "scenario", "restart", "stopped", "cleanup", "ended"}
States == {"down", "held", "booting", "up", "stopping", "leaked"}
Documented == Orgs \X (Identity \cup {"owner"})
MountPoints == {<<"broker", "jwts">>} \cup (Orgs \X {"config"})

\* The type invariant.
TypeInv ==
    /\ phase \in Phases /\ restarts \in Nat /\ downFailed \in BOOLEAN
    /\ base \in [Orgs -> Nat] /\ port \in [Orgs -> Nat]
    /\ keys \in [DIDs -> Nat] /\ extKeys \in [DIDs -> Nat] /\ docs \in [Documented -> Nat] /\ minted \in Nat
    /\ mounts \subseteq (Orgs \X {"keys", "config"}) \cup {<<"broker", "jwts">>}
    /\ up \in [Services -> States]
    /\ subscribed \subseteq Loops /\ unshipped \subseteq Orgs /\ killed \subseteq Orgs /\ rejected \in BOOLEAN
    /\ taken \subseteq Services /\ mimic \in BOOLEAN

\* The harness has still to call op(arg).
Ahead(op, arg) == Item(op, arg) \in ToSet(todo)

\* Nobody is up whose port a stranger has, and in containers there are none.
PortInv ==
    /\ taken = {} => ~mimic
    /\ \A s \in taken : up[s] # "up"
    /\ runtime = "compose" => taken = {}

Busy == \E op, arg : Ahead(op, arg)

\* The rest of a down that failed.
Skipping == OfDown /\ downFailed

\* A setup that could not take an earlier stack down gets no further than to its
\* registrations, which the registries it took over refuse.
Stuck ==
    /\ runtime = "compose" /\ phase = "setup" /\ downFailed
    /\ \A d \in DIDs : docs[d] # 0 /\ Ahead("issue", d)

\* A cleanup that could not take its own stack down stops nobody any more.
Abandoned == runtime = "compose" /\ phase = "cleanup" /\ downFailed

\* Before the containers of an earlier stack are removed, either there are none or
\* every identity has a document.
LeakInv ==
    runtime = "compose" /\ phase = "setup" /\ Ahead("remove", NATS) =>
        (\A s \in Services : up[s] = "down") \/ (\A d \in DIDs : docs[d] # 0)

\* A service is down from the return of the harness's wait for its end until it is
\* started again, or for good, unless docker failed to take it down.
DownInv == \A s \in Services :
    /\ ~Ahead("gone", s)
    /\ Ahead("start", s) \/ Ahead("up", NATS) \/ (phase = "cleanup" /\ Busy) \/ (phase = "stopped" /\ s \in FirstNode)
    => up[s] = "down" \/ Stuck \/ Abandoned

Serving == {"setup", "scenario", "restart"}

\* What has been waited for answers; the PDP of the containers has no wait of its own
\* in the setup, hence PolicyInv.
ReadyInv ==
    phase \in Serving => \A s \in Services :
        ~(s = PDP /\ phase = "setup" /\ runtime = "compose") => Ahead("ready", s) \/ Answers(s)

\* A network in a container is up after the PDP only.
PolicyInv ==
    phase = "setup" /\ runtime = "compose" /\ ~Ahead("up", NATS) /\ ~Stuck =>
        \A o \in Orgs : up[Network(o)] = "up" => up[PDP] = "up"

\* A restart or a stop of the first node leaves everybody else answering, and each of
\* its services until its turn.
KeepInv ==
    phase \in {"restart", "stopped"} =>
        \A s \in Services : (Ahead("stop", s) \/ s \notin FirstNode) => Answers(s)

\* A subscription that was waited for stays as long as its pipeline.
GateInv ==
    ~mimic /\ phase \in Serving =>
        \A l \in gates : Ahead("subscribed", l) \/ (l \in subscribed /\ up[Pipeline(l[1])] = "up")

\* A provisioned key is the one whose public half the harness keeps.
KeyInv ==
    phase = "setup" => \A d \in DIDs : Ahead("provision", d) \/ (keys[d] = extKeys[d] /\ keys[d] # 0)

\* An issued document resolves to the key in the keystore, unless a stranger issued it.
DocInv ==
    phase \in Serving \cup {"stopped"} =>
        /\ \A d \in DIDs : \/ Ahead("issue", d) \/ (docs[d] = keys[d] /\ keys[d] # 0)
                           \/ (mimic /\ Network(d[1]) \in taken)
        /\ Ahead("identity", First) \/ nodeIdentity \in Identity

\* Where the scenario dials is where the networks are published.
BaseInv ==
    /\ phase = "scenario" => base = port
    /\ phase = "restart" => \A o \in Orgs : o # First => base[o] = port[o]

\* What a container mounts has been written.
MountInv ==
    runtime = "compose" /\ phase \in Serving => \A m \in MountPoints : Ahead("mount", m) \/ m \in mounts

\* What is still to be shipped will be verified: only a pipeline whose identity is
\* registered got as far as emitting, and its key is still the registered one.
ShipInv ==
    /\ phase = "setup" => unshipped = {}
    /\ phase \in {"cleanup", "ended"} => \A o \in unshipped :
          /\ nodeIdentity \in Identity
          /\ \/ docs[<<o, nodeIdentity>>] = keys[<<o, nodeIdentity>>]
             \/ Network(o) \in taken \/ up[Network(o)] = "down"
    /\ ~rejected

\* Whom a pipeline with something to ship needs is up; but in the restart service by
\* service its network may be away, when the pipeline stays until it is back.
DrainInv ==
    ~mimic => \A o \in unshipped \ killed :
       /\ up[Pipeline(o)] \in {"up", "stopping"} /\ up[PDP] = "up"
       /\ \/ up[Network(o)] = "up"
          \/ /\ How = "apart" /\ o = First /\ up[Pipeline(o)] = "up"
             /\ Ahead("stop", Pipeline(o)) /\ Ahead("ready", Network(o))

\* A pipeline boots against a network that answers; in that restart the network is on
\* its way from its start to the end of the wait for it.
BootInv ==
    /\ PipelineMeetsItsNetwork
    /\ How = "apart" /\ Ahead("ready", Network(First)) /\ ~Ahead("start", Network(First))
       => up[Network(First)] \in {"booting", "up"}

\* The inductive invariant.
Inv == /\ SpecInv /\ TypeInv /\ TodoInv /\ PortInv /\ LeakInv /\ DownInv /\ ReadyInv /\ PolicyInv /\ KeepInv
       /\ GateInv /\ KeyInv /\ DocInv /\ BaseInv /\ MountInv /\ ShipInv /\ DrainInv /\ BootInv

-----------------------------------------------------------------------------
(***************************************************************************)
(* What being at one call says of the others.                              *)
(***************************************************************************)
Sooner(op, arg, op2, arg2) ==
    Related(Item(op, arg), Item(op2, arg2)) /\ Stage(Item(op, arg), How) < Stage(Item(op2, arg2), How)

\* The next call is one of what is left.
LEMMA AtIs ==
  ASSUME TodoInv, NEW op, At(op)
  PROVE  /\ todo # <<>> /\ Head(todo) = Item(op, Arg) /\ Due(phase, op, Arg) /\ Ahead(op, Arg)
<1>1. todo # <<>> /\ Head(todo).op = op
  BY DEF At
<1>2. Head(todo) \in ToSet(todo)
  BY <1>1, TailRemains DEF TodoInv
<1>3. Head(todo) = Item(Head(todo).op, Head(todo).arg) /\ Due(phase, Head(todo).op, Head(todo).arg)
  BY <1>2 DEF TodoInv, Remaining
<1> QED  BY <1>1, <1>2, <1>3 DEF Arg, Ahead

\* What comes later than a call that is left is left too; only what is due is left.
LEMMA StillAhead ==
  ASSUME TodoInv, NEW op, NEW arg, NEW op2, NEW arg2, Ahead(op, arg), Due(phase, op2, arg2), Sooner(op, arg, op2, arg2)
  PROVE  Ahead(op2, arg2)
BY DEF TodoInv, Remaining, Ahead, Sooner

LEMMA AheadIsDue ==
  ASSUME TodoInv, NEW op, NEW arg, Ahead(op, arg)
  PROVE  Due(phase, op, arg)
BY DEF TodoInv, Remaining, Ahead, Item

\* And what comes sooner than the next call has been done.
LEMMA DoneBefore ==
  ASSUME TodoInv, NEW op, At(op), NEW op2, NEW arg2, Sooner(op2, arg2, op, Arg)
  PROVE  ~Ahead(op2, arg2)
<1> SUFFICES ASSUME Ahead(op2, arg2) PROVE FALSE
  OBVIOUS
<1> DEFINE h == Item(op, Arg)
           c == Item(op2, arg2)
<1>1. Stage(h, How) \in Nat /\ Stage(c, How) \in Nat
  BY AtIs, AheadIsDue, StageIsNat
<1>2. Stage(c, How) < Stage(h, How) /\ Related(h, c)
  BY DEF Sooner, Related
<1>3. c = h \/ MayFollow(h, c, How)
  <2>1. todo # <<>> /\ Head(todo) = h /\ c \in ToSet(todo)
    BY AtIs DEF Ahead
  <2>2. /\ ToSet(todo) = {Head(todo)} \cup ToSet(Tail(todo))
        /\ \A x \in ToSet(Tail(todo)) : MayFollow(Head(todo), x, How)
    BY <2>1, TailRemains DEF TodoInv
  <2> HIDE DEF h, c
  <2> QED  BY <2>1, <2>2
<1> HIDE DEF h, c
<1> QED  BY <1>1, <1>2, <1>3 DEF MayFollow

\* A call that returns leaves the rest as it was.
LEMMA AdvanceIs ==
  ASSUME TodoInv, NEW op, At(op), Advance, UNCHANGED specVars
  PROVE  /\ TodoInv' /\ phase' = phase /\ How' = How
         /\ \A op2, arg2 : Ahead(op2, arg2)' => Ahead(op2, arg2)
         /\ \A op2, arg2 : Ahead(op2, arg2) => Ahead(op2, arg2)' \/ (op2 = op /\ arg2 = Arg)
         /\ Stage(Item(op, Arg), How) \notin Flat => ~(Item(op, Arg) \in ToSet(todo'))
<1>1. phase' = phase /\ How' = How /\ todo' = Tail(todo)
  BY DEF Advance, specVars, How
<1>2. /\ Remaining(todo', phase, How) /\ ToSet(todo) = {Head(todo)} \cup ToSet(todo')
      /\ \A c \in ToSet(todo') : MayFollow(Head(todo), c, How)
  BY <1>1, AtIs, TailRemains DEF TodoInv
<1>3. Head(todo) = Item(op, Arg)
  BY AtIs
<1>4. TodoInv'
  <2>1. \A o1, a1 : Due(phase, o1, a1)' = Due(phase, o1, a1)
    BY <1>1 DEF specVars, Due, DueInSetup, DueInRestart, DueInCleanup, Services, DIDs, Orgs, First, FirstNode
  <2> QED  BY <1>1, <1>2, <2>1 DEF TodoInv, Remaining
<1>5. \A op2, arg2 : Ahead(op2, arg2)' => Ahead(op2, arg2)
  BY <1>2 DEF Ahead
<1>6. \A op2, arg2 : Ahead(op2, arg2) => Ahead(op2, arg2)' \/ (op2 = op /\ arg2 = Arg)
  BY <1>2, <1>3, ItemIs DEF Ahead
<1>7. ASSUME Stage(Item(op, Arg), How) \notin Flat PROVE ~(Item(op, Arg) \in ToSet(todo'))
  <2>1. Stage(Item(op, Arg), How) \in Nat
    BY AtIs, StageIsNat
  <2> DEFINE h == Item(op, Arg)
  <2>2. h \in ToSet(todo') => MayFollow(h, h, How)
    BY <1>2, <1>3
  <2>3. Related(h, h)
    BY DEF Related
  <2> HIDE DEF h
  <2> QED  BY <1>7, <2>1, <2>2, <2>3 DEF MayFollow, h
<1> QED  BY <1>1, <1>4, <1>5, <1>6, <1>7

-----------------------------------------------------------------------------
\* The order of the calls about a node, an organization, broker and PDP, by their stages.
LEMMA HowIs == How \in {"whole", "apart"} /\ (phase # "restart" => How = "whole")
BY DEF How

LEMMA NodeOrder ==
  ASSUME NEW o
  PROVE  LET N == Network(o)
             P == Pipeline(o)
         IN  /\ \A s \in {N, P} : /\ Sooner("stop", s, "gone", s) /\ Sooner("stop", s, "start", s)
                                  /\ Sooner("stop", s, "ready", s) /\ Sooner("gone", s, "start", s)
                                  /\ Sooner("gone", s, "ready", s) /\ Sooner("start", s, "ready", s)
             /\ Sooner("ready", N, "start", P) /\ Sooner("ready", N, "ready", P)
             /\ Sooner("start", N, "start", P) /\ Sooner("start", N, "ready", P) /\ Sooner("stop", N, "ready", P)
             /\ How = "whole" => /\ Sooner("stop", P, "stop", N) /\ Sooner("gone", P, "stop", N)
                                 /\ Sooner("stop", P, "start", N)
             /\ How = "apart" => /\ Sooner("ready", N, "stop", P) /\ Sooner("stop", N, "stop", P)
                                 /\ Sooner("start", N, "stop", P)
<1> DEFINE N == Network(o)
           P == Pipeline(o)
<1>1. \A op, op2 \in {"start", "ready", "stop", "gone"}, s, t \in {N, P} : Related(Item(op, s), Item(op2, t))
  BY NodeCalls DEF Related
<1>2. /\ Stage(Item("start", N), How) = 10 /\ Stage(Item("ready", N), How) = 11
      /\ Stage(Item("start", P), How) = 14 /\ Stage(Item("ready", P), How) = 15
      /\ Stage(Item("stop", N), How) = 4 /\ Stage(Item("gone", N), How) = 5
      /\ Stage(Item("stop", P), How) = IF How = "apart" THEN 12 ELSE 2
      /\ Stage(Item("gone", P), How) = IF How = "apart" THEN 13 ELSE 3
  BY NodeCalls
<1> HIDE DEF N, P
<1>3. \A s \in {N, P} : /\ Sooner("stop", s, "gone", s) /\ Sooner("stop", s, "start", s)
                        /\ Sooner("stop", s, "ready", s) /\ Sooner("gone", s, "start", s)
                        /\ Sooner("gone", s, "ready", s) /\ Sooner("start", s, "ready", s)
  BY <1>1, <1>2 DEF Sooner
<1>4. /\ Sooner("ready", N, "start", P) /\ Sooner("ready", N, "ready", P)
      /\ Sooner("start", N, "start", P) /\ Sooner("start", N, "ready", P) /\ Sooner("stop", N, "ready", P)
      /\ How = "whole" => /\ Sooner("stop", P, "stop", N) /\ Sooner("gone", P, "stop", N)
                          /\ Sooner("stop", P, "start", N)
      /\ How = "apart" => /\ Sooner("ready", N, "stop", P) /\ Sooner("stop", N, "stop", P)
                          /\ Sooner("start", N, "stop", P)
  BY <1>1, <1>2 DEF Sooner
<1> QED  BY <1>3, <1>4 DEF N, P

\* What comes after a node is up: the registrations and the subscriptions.
LEMMA OrgOrder ==
  ASSUME NEW o, NEW w \in Words
  PROVE  /\ \A s \in {Network(o), Pipeline(o)}, op \in {"stop", "gone", "start", "ready"} :
              Sooner(op, s, "issue", <<o, w>>) /\ Sooner(op, s, "subscribed", <<o, w>>)
         /\ Sooner("provision", <<o, w>>, "issue", <<o, w>>)
<1> DEFINE d == <<o, w>>
<1>1. /\ Stage(Item("issue", d), How) = 16 /\ Stage(Item("subscribed", d), How) = 16 /\ Stage(Item("provision", d), How) = 1
      /\ \A op \in {"issue", "subscribed", "provision"} : Who(Item(op, d)) = <<o>>
  BY OrgCalls
<1>2. \A s \in {Network(o), Pipeline(o)}, op \in {"stop", "gone", "start", "ready"} :
        /\ Who(Item(op, s)) = <<o>>
        /\ Stage(Item(op, s), How) \in {4, 5, 10, 11, 12, 13, 14, 15, 2, 3}
  BY NodeCalls
<1> HIDE DEF d
<1>3. \A s \in {Network(o), Pipeline(o)}, op \in {"stop", "gone", "start", "ready"} :
              Sooner(op, s, "issue", d) /\ Sooner(op, s, "subscribed", d)
  BY <1>1, <1>2 DEF Sooner, Related
<1>4. Sooner("provision", d, "issue", d)
  BY <1>1 DEF Sooner, Related
<1> QED  BY <1>3, <1>4 DEF d

LEMMA InfraOrder ==
  ASSUME NEW s \in Infra
  PROVE  /\ Sooner("stop", s, "start", s) /\ Sooner("stop", s, "ready", s) /\ Sooner("gone", s, "start", s)
         /\ Sooner("gone", s, "ready", s) /\ Sooner("start", s, "ready", s)
         /\ \A o : How = "whole" => /\ Sooner("gone", Pipeline(o), "stop", s) /\ Sooner("stop", Pipeline(o), "stop", s)
                                    /\ Sooner("gone", Network(o), "stop", s)
<1>1. /\ Stage(Item("start", s), How) = 9 /\ Stage(Item("ready", s), How) = 10
      /\ Stage(Item("stop", s), How) = 6 /\ Stage(Item("gone", s), How) = 6
      /\ \A op \in {"start", "ready"} : Who(Item(op, s)) = s
      /\ \A op \in {"stop", "gone"} : Everyone(Item(op, s))
  BY InfraCalls
<1>2. /\ Sooner("stop", s, "start", s) /\ Sooner("stop", s, "ready", s) /\ Sooner("gone", s, "start", s)
      /\ Sooner("gone", s, "ready", s) /\ Sooner("start", s, "ready", s)
  BY <1>1 DEF Sooner, Related
<1>3. ASSUME NEW o, How = "whole"
      PROVE  /\ Sooner("gone", Pipeline(o), "stop", s) /\ Sooner("stop", Pipeline(o), "stop", s)
             /\ Sooner("gone", Network(o), "stop", s)
  <2>1. /\ Stage(Item("stop", Pipeline(o)), How) = 2 /\ Stage(Item("gone", Pipeline(o)), How) = 3
        /\ Stage(Item("gone", Network(o)), How) = 5
    BY <1>3, NodeCalls
  <2> QED  BY <1>1, <2>1 DEF Sooner, Related
<1> QED  BY <1>2, <1>3

LEMMA ServiceOrder ==
  ASSUME NEW s \in Services
  PROVE  /\ Sooner("stop", s, "start", s) /\ Sooner("stop", s, "ready", s) /\ Sooner("gone", s, "start", s)
         /\ Sooner("gone", s, "ready", s) /\ Sooner("start", s, "ready", s)
         /\ \A op \in {"stop", "gone", "start", "ready"} : Sooner(op, s, "return", First)
         /\ Sooner("up", NATS, "ready", s)
         /\ How = "whole" => /\ Sooner("stop", s, "up", NATS) /\ Sooner("gone", s, "up", NATS)
                             /\ Sooner("gone", s, "remove", NATS)
<1>1. \/ s \in Infra
      \/ \E o \in Orgs : s \in {Network(o), Pipeline(o)}
  BY ServicesAre
<1>2. /\ Sooner("stop", s, "start", s) /\ Sooner("stop", s, "ready", s) /\ Sooner("gone", s, "start", s)
      /\ Sooner("gone", s, "ready", s) /\ Sooner("start", s, "ready", s)
  BY <1>1, InfraOrder, NodeOrder
<1>3. /\ \A op \in {"stop", "gone", "start", "ready"} : Stage(Item(op, s), How) \in 0..16
      /\ How = "whole" => \A op \in {"stop", "gone"} : Stage(Item(op, s), How) \in 0..7
      /\ Stage(Item("ready", s), How) \in {10, 11, 15}
  <2>1. CASE s \in Infra
    BY <2>1, InfraCalls
  <2>2. CASE \E o \in Orgs : s \in {Network(o), Pipeline(o)}
    <3>1. PICK o \in Orgs : s \in {Network(o), Pipeline(o)}
      BY <2>2
    <3> QED  BY <3>1, NodeCalls
  <2> QED  BY <1>1, <2>1, <2>2
<1>4. /\ Stage(Item("return", First), How) = 17 /\ Stage(Item("up", NATS), How) = 9 /\ Stage(Item("remove", NATS), How) = 8
      /\ Everyone(Item("return", First)) /\ Everyone(Item("up", NATS)) /\ Everyone(Item("remove", NATS))
  BY AllCalls
<1>5. \A op \in {"stop", "gone", "start", "ready"} : Sooner(op, s, "return", First)
  BY <1>3, <1>4 DEF Sooner, Related
<1>6. Sooner("up", NATS, "ready", s)
  BY <1>3, <1>4 DEF Sooner, Related
<1>7. How = "whole" => /\ Sooner("stop", s, "up", NATS) /\ Sooner("gone", s, "up", NATS)
                       /\ Sooner("gone", s, "remove", NATS)
  BY <1>3, <1>4 DEF Sooner, Related
<1> QED  BY <1>2, <1>5, <1>6, <1>7

LEMMA CallOrder ==
  ASSUME NEW o, NEW w \in Words
  PROVE  /\ Sooner("wipe", NATS, "provision", <<o, w>>) /\ Sooner("wipe", NATS, "issue", <<o, w>>)
         /\ Sooner("remove", NATS, "issue", <<o, w>>) /\ Sooner("up", NATS, "subscribed", <<o, w>>)
         /\ \A op \in {"provision", "issue", "subscribed"} : Sooner(op, <<o, w>>, "return", First)
<1>1. /\ Stage(Item("provision", <<o, w>>), How) = 1 /\ Stage(Item("issue", <<o, w>>), How) = 16
      /\ Stage(Item("subscribed", <<o, w>>), How) = 16 /\ Stage(Item("identity", First), How) = 1
      /\ \A m : Stage(Item("mount", m), How) = 1
  BY OrgCalls, AllCalls
<1>2. /\ Stage(Item("return", First), How) = 17 /\ Stage(Item("up", NATS), How) = 9 /\ Stage(Item("remove", NATS), How) = 8
      /\ Stage(Item("wipe", NATS), How) = 0
      /\ Everyone(Item("return", First)) /\ Everyone(Item("up", NATS)) /\ Everyone(Item("remove", NATS))
      /\ Everyone(Item("wipe", NATS))
  BY AllCalls
<1> QED  BY <1>1, <1>2 DEF Sooner, Related

LEMMA LastOrder ==
  /\ Sooner("identity", First, "return", First) /\ Sooner("up", NATS, "return", First)
  /\ Sooner("remove", NATS, "up", NATS)
  /\ \A m : Sooner("wipe", NATS, "mount", m) /\ Sooner("mount", m, "return", First)
<1>0. \A m : Stage(Item("mount", m), How) = 1
  BY AllCalls
<1>2. Stage(Item("identity", First), How) = 1
  BY OrgCalls
<1>1. /\ Stage(Item("return", First), How) = 17 /\ Stage(Item("up", NATS), How) = 9 /\ Stage(Item("wipe", NATS), How) = 0
      /\ Stage(Item("remove", NATS), How) = 8
      /\ Everyone(Item("return", First)) /\ Everyone(Item("up", NATS)) /\ Everyone(Item("wipe", NATS))
  BY AllCalls
<1> QED  BY <1>0, <1>1, <1>2 DEF Sooner, Related

-----------------------------------------------------------------------------
(***************************************************************************)
(* What the steps do to what is left to do.                                *)
(***************************************************************************)
\* The setup does not change, nor what depends on nothing else.
LEMMA Same ==
  ASSUME UNCHANGED specVars
  PROVE  /\ story' = story /\ runtime' = runtime /\ nodeIdentity' = nodeIdentity /\ gates' = gates /\ conf' = conf
         /\ Orgs' = Orgs /\ First' = First /\ FirstNode' = FirstNode /\ DIDs' = DIDs /\ Services' = Services
         /\ Loops' = Loops /\ Documented' = Documented /\ MountPoints' = MountPoints
BY DEF specVars, Orgs, First, FirstNode, DIDs, Services, Loops, Documented, MountPoints

LEMMA OrgFacts ==
  ASSUME SpecInv
  PROVE  /\ First \in Orgs /\ FirstNode \subseteq Services /\ FirstNode = {Network(First), Pipeline(First)}
         /\ NATS \in Services /\ PDP \in Services /\ Infra = {NATS, PDP}
         /\ \A o \in Orgs : Network(o) \in Services /\ Pipeline(o) \in Services
         /\ \A l \in Loops : l[1] \in Orgs /\ l = <<l[1], l[2]>> /\ l[2] \in Words
         /\ \A d \in DIDs : d[1] \in Orgs /\ d \in Documented /\ d = <<d[1], d[2]>> /\ d[2] \in Identity /\ d[2] \in Words
         /\ \A o \in Orgs : <<o, "owner">> \in Documented
<1>1. First \in Orgs
  BY OrgsOfChain DEF SpecInv, AddressInv, First
<1>2. \A o \in Orgs : Network(o) \in Services /\ Pipeline(o) \in Services
  BY DEF Services, Network, Pipeline
<1>3. NATS \in Services /\ PDP \in Services /\ Infra = {NATS, PDP}
  BY DEF Services, Infra
<1>4. \A l \in Loops : l[1] \in Orgs /\ l = <<l[1], l[2]>> /\ l[2] \in Words
  BY <1>1 DEF Loops, Words
<1>5. \A d \in DIDs : d[1] \in Orgs /\ d \in Documented /\ d = <<d[1], d[2]>> /\ d[2] \in Identity /\ d[2] \in Words
  BY DEF DIDs, Documented, Identity, Words
<1>6. \A o \in Orgs : <<o, "owner">> \in Documented
  BY DEF Documented
<1> QED  BY <1>1, <1>2, <1>3, <1>4, <1>5, <1>6 DEF FirstNode

LEMMA NamesDiffer ==
  /\ \A o, p : /\ Network(o) = Network(p) <=> o = p
               /\ Pipeline(o) = Pipeline(p) <=> o = p
               /\ Network(o) # Pipeline(p) /\ Network(o) # PDP /\ Network(o) # NATS /\ Pipeline(o) # PDP /\ Pipeline(o) # NATS
  /\ NATS # PDP
  /\ \A o : /\ Network(o)[1] = o /\ Network(o)[2] = "network" /\ Pipeline(o)[1] = o /\ Pipeline(o)[2] = "pipeline"
  /\ PDP[2] = "pdp" /\ NATS[2] = "nats"
BY DEF Network, Pipeline, PDP, NATS

\* What the calls are about, and in which phase they are made.
LEMMA DueIs ==
  ASSUME SpecInv, NEW ph, NEW op, NEW arg, Due(ph, op, arg)
  PROVE  /\ ph \in {"setup", "restart", "stopped", "cleanup"}
         /\ op \in {"start", "ready", "stop", "gone"} => arg \in Services
         /\ op = "start" => (ph = "setup" /\ runtime = "process") \/ (ph = "restart" /\ arg \in FirstNode)
         /\ op = "ready" => (ph = "setup" /\ (runtime = "compose" => arg # PDP)) \/ (ph = "restart" /\ arg \in FirstNode)
         /\ op \in {"stop", "gone"} => \/ ph = "setup" /\ runtime = "compose"
                                       \/ ph \in {"restart", "stopped"} /\ arg \in FirstNode
                                       \/ ph = "cleanup"
         /\ op \in {"wipe", "up"} => ph = "setup" /\ runtime = "compose" /\ arg = NATS
         /\ op = "remove" => ph \in {"setup", "cleanup"} /\ runtime = "compose" /\ arg = NATS
         /\ op = "mount" => ph = "setup" /\ arg \in (Orgs \X {"keys", "config"}) \cup {<<"broker", "jwts">>}
         /\ op \in {"provision", "issue"} => ph = "setup" /\ arg \in DIDs
         /\ op = "owner" => ph = "setup" /\ arg \in Orgs
         /\ op = "identity" => ph = "setup" /\ arg = First
         /\ op = "subscribed" => ph \in {"setup", "restart"} /\ arg \in gates
         /\ op = "return" => ph \in {"setup", "restart"} /\ arg = First
<1>1. FirstNode \subseteq Services
  BY OrgFacts
<1> QED  BY <1>1 DEF Due, DueInSetup, DueInRestart, DueInCleanup

\* One call is done, and the next ones are the same.
Onward(op) ==
    /\ At(op) /\ phase' = phase /\ restarts' = restarts /\ base' = base /\ downFailed' = downFailed
    /\ How' = How /\ TodoInv'
    /\ \A op2, arg2 : Ahead(op2, arg2)' => Ahead(op2, arg2)
    /\ \A op2, arg2 : Ahead(op2, arg2) => Ahead(op2, arg2)' \/ (op2 = op /\ arg2 = Arg)

LEMMA AdvanceOnward ==
  ASSUME TodoInv, NEW op, At(op), Advance, UNCHANGED specVars
  PROVE  Onward(op)
<1>1. restarts' = restarts /\ base' = base /\ downFailed' = downFailed
  BY DEF Advance
<1> QED  BY <1>1, AdvanceIs DEF Onward

\* What is started, brought up or removed is not so again.
LEMMA StartedOnce ==
  ASSUME SpecInv, TodoInv, NEW op \in {"start", "up", "ready", "remove"}, At(op), NEW arg, arg = Arg, Advance, UNCHANGED specVars
  PROVE  ~Ahead(op, arg)'
<1>1. Due(phase, op, Arg)
  BY AtIs
<1>2. op \in {"start", "ready"} => Arg \in Infra \/ \E o \in Orgs : Arg \in {Network(o), Pipeline(o)}
  BY <1>1, DueIs, ServicesAre
<1>3. op \in {"up", "remove"} => Arg = NATS
  BY <1>1, DueIs
<1>4. Stage(Item(op, Arg), How) \in {8, 9, 10, 11, 14, 15}
  <2>1. CASE op \in {"start", "ready"}
    <3>1. CASE Arg \in Infra
      BY <3>1, <2>1, InfraCalls
    <3>2. CASE \E o \in Orgs : Arg \in {Network(o), Pipeline(o)}
      BY <3>2, <2>1, NodeCalls
    <3> QED  BY <2>1, <1>2, <3>1, <3>2
  <2>2. CASE op \in {"up", "remove"}
    BY <2>2, <1>3, AllCalls
  <2> QED  BY <2>1, <2>2
<1>5. Stage(Item(op, Arg), How) \notin Flat
  BY <1>4 DEF Flat
<1>6. ~(Item(op, arg) \in ToSet(todo'))
  BY <1>5, AdvanceIs
<1> QED  BY <1>6 DEF Ahead

-----------------------------------------------------------------------------
(***************************************************************************)
(* The other lists are put in place whole.                                 *)
(***************************************************************************)
\* The lists are put in place by a failure, a restart, a stop, and at the end of each.
LEMMA FatalIs ==
  ASSUME SpecInv, Fatal, UNCHANGED specVars
  PROVE  /\ phase' = "cleanup" /\ How' = "whole" /\ restarts' = restarts /\ base' = base /\ TodoInv'
         /\ downFailed' = FALSE
         /\ (\A op, arg : Ahead(op, arg)' <=> DueInCleanup(op, arg)) \/ ~Busy'
<1>1. /\ phase' = "cleanup" /\ todo' = Cleanup /\ How' = "whole" /\ restarts' = restarts /\ base' = base
      /\ downFailed' = FALSE
  BY DEF Fatal, How
<1>2. Remaining(todo', "cleanup", "whole") /\ (Covers(ToSet(todo'), "cleanup") \/ ToSet(todo') = {})
  BY <1>1, WholeLists
<1>3. \A o1, a1 : Due(phase, o1, a1)' = Due("cleanup", o1, a1)
  BY <1>1, Same DEF Due, DueInSetup, DueInRestart, DueInCleanup
<1>4. TodoInv'
  BY <1>1, <1>2, <1>3 DEF TodoInv, Remaining
<1>5. (\A op, arg : Ahead(op, arg)' <=> Due("cleanup", op, arg)) \/ ~Busy'
  BY <1>2 DEF Covers, Ahead, Busy
<1> QED  BY <1>1, <1>4, <1>5 DEF Due

LEMMA RestartIs ==
  ASSUME SpecInv, Restart
  PROVE  /\ phase = "scenario" /\ phase' = "restart" /\ base' = base /\ TodoInv' /\ story # "supplychain"
         /\ restarts' = restarts + 1 /\ downFailed' = downFailed /\ UNCHANGED <<specVars, keyVars, processVars>>
         /\ \A op, arg : Ahead(op, arg)' <=> DueInRestart(op, arg)
<1>1. /\ phase = "scenario" /\ phase' = "restart" /\ base' = base /\ todo' = RestartNode /\ story # "supplychain"
      /\ restarts' = restarts + 1 /\ downFailed' = downFailed /\ UNCHANGED <<specVars, keyVars, processVars>>
  BY DEF Restart
<1>2. /\ Remaining(todo', "restart", IF story = "single" /\ runtime = "compose" THEN "apart" ELSE "whole")
      /\ Covers(ToSet(todo'), "restart")
  BY <1>1, WholeLists
<1>3. How' = IF story = "single" /\ runtime = "compose" THEN "apart" ELSE "whole"
  BY <1>1, Same DEF How
<1>4. \A o1, a1 : Due(phase, o1, a1)' = Due("restart", o1, a1)
  BY <1>1, Same DEF Due, DueInSetup, DueInRestart, DueInCleanup
<1>5. TodoInv'
  BY <1>1, <1>2, <1>3, <1>4 DEF TodoInv, Remaining
<1>6. \A op, arg : Ahead(op, arg)' <=> Due("restart", op, arg)
  BY <1>2 DEF Covers, Ahead
<1> QED  BY <1>1, <1>5, <1>6 DEF Due

LEMMA StopAndLeaveIs ==
  ASSUME SpecInv, StopAndLeave
  PROVE  /\ phase = "scenario" /\ phase' = "stopped" /\ base' = base /\ TodoInv' /\ How' = "whole"
         /\ restarts' = restarts /\ downFailed' = downFailed /\ UNCHANGED <<specVars, keyVars, processVars>>
         /\ \A op, arg : Ahead(op, arg)' <=> op \in {"stop", "gone"} /\ arg \in FirstNode
<1>1. /\ phase = "scenario" /\ phase' = "stopped" /\ base' = base /\ todo' = StopNode(First) /\ How' = "whole"
      /\ restarts' = restarts /\ downFailed' = downFailed /\ UNCHANGED <<specVars, keyVars, processVars>>
  BY DEF StopAndLeave, How
<1>2. Remaining(todo', "stopped", "whole") /\ Covers(ToSet(todo'), "stopped")
  BY <1>1, WholeLists
<1>3. \A o1, a1 : Due(phase, o1, a1)' = Due("stopped", o1, a1)
  BY <1>1, Same DEF Due, DueInSetup, DueInRestart, DueInCleanup
<1>4. TodoInv'
  BY <1>1, <1>2, <1>3 DEF TodoInv, Remaining
<1>5. \A op, arg : Ahead(op, arg)' <=> Due("stopped", op, arg)
  BY <1>2 DEF Covers, Ahead
<1> QED  BY <1>1, <1>4, <1>5 DEF Due

LEMMA HandOverIs ==
  ASSUME SpecInv, TodoInv, HandOver
  PROVE  /\ phase \in {"setup", "restart"} /\ At("return") /\ Arg = First /\ phase' = "scenario" /\ TodoInv'
         /\ restarts' = restarts /\ downFailed' = downFailed /\ UNCHANGED <<specVars, keyVars, processVars>>
         /\ base' = IF phase = "setup" THEN port ELSE [base EXCEPT ![First] = port[First]]
         /\ \A op, arg : ~Ahead(op, arg)'
<1>1. At("return") /\ phase \in {"setup", "restart"} /\ Arg = First
  <2>1. At("return")
    BY DEF HandOver
  <2> QED  BY <2>1, AtIs, DueIs
<1>2. /\ phase' = "scenario" /\ todo' = <<>> /\ restarts' = restarts /\ downFailed' = downFailed
      /\ UNCHANGED <<specVars, keyVars, processVars>>
      /\ base' = IF phase = "setup" THEN port ELSE [base EXCEPT ![First] = port[First]]
  BY <1>1 DEF HandOver
<1>3. Remaining(<<>>, phase', How') /\ ToSet(<<>>) = {}
  BY WholeLists
<1>4. \A o1, a1, ph : Due(ph, o1, a1)' = Due(ph', o1, a1)
  BY <1>2, Same DEF Due, DueInSetup, DueInRestart, DueInCleanup
<1>5. TodoInv'
  BY <1>2, <1>3, <1>4 DEF TodoInv, Remaining
<1>6. \A op, arg : ~Ahead(op, arg)'
  BY <1>2, <1>3 DEF Ahead
<1> QED  BY <1>1, <1>2, <1>5, <1>6

LEMMA EndIs ==
  ASSUME SpecInv, TodoInv, End
  PROVE  /\ phase = "cleanup" /\ phase' = "ended" /\ TodoInv' /\ restarts' = restarts /\ base' = base
         /\ downFailed' = downFailed /\ UNCHANGED <<specVars, keyVars, processVars>>
         /\ \A op, arg : ~Ahead(op, arg) /\ ~Ahead(op, arg)'
<1>1. /\ phase = "cleanup" /\ phase' = "ended" /\ todo = <<>> /\ todo' = <<>> /\ restarts' = restarts /\ base' = base
      /\ downFailed' = downFailed /\ UNCHANGED <<specVars, keyVars, processVars>>
  BY DEF End
<1>3. Remaining(<<>>, phase', How') /\ ToSet(<<>>) = {}
  BY WholeLists
<1>4. \A o1, a1, ph : Due(ph, o1, a1)' = Due(ph', o1, a1)
  BY <1>1, Same DEF Due, DueInSetup, DueInRestart, DueInCleanup
<1>5. TodoInv'
  BY <1>1, <1>3, <1>4 DEF TodoInv, Remaining
<1>6. \A op, arg : ~Ahead(op, arg) /\ ~Ahead(op, arg)'
  BY <1>1, <1>3 DEF Ahead
<1> QED  BY <1>1, <1>5, <1>6

\* Nothing of that changes when the harness makes no call, or one fails in its course.
LEMMA StayIs ==
  ASSUME TodoInv, UNCHANGED <<specVars, callVars>> \/ FailDown
  PROVE  /\ TodoInv' /\ How' = How /\ phase' = phase /\ base' = base /\ restarts' = restarts
         /\ UNCHANGED specVars /\ (downFailed => downFailed')
         /\ \A op, arg : Ahead(op, arg)' <=> Ahead(op, arg)
<1>1. /\ todo' = todo /\ phase' = phase /\ base' = base /\ restarts' = restarts /\ UNCHANGED specVars
      /\ downFailed => downFailed'
  BY DEF callVars, FailDown
<1>2. How' = How
  BY <1>1, Same DEF How
<1>3. \A o1, a1 : Due(phase, o1, a1)' = Due(phase, o1, a1)
  BY <1>1, Same DEF Due, DueInSetup, DueInRestart, DueInCleanup
<1>4. TodoInv'
  BY <1>1, <1>2, <1>3 DEF TodoInv, Remaining
<1> QED  BY <1>1, <1>2, <1>4 DEF Ahead

-----------------------------------------------------------------------------
(***************************************************************************)
(* What the steps do to the rest.                                          *)
(***************************************************************************)
\* Calls that touch nothing but files, keys and documents.
QuietCalls == {"wipe", "provision", "identity", "mount", "remove", "owner", "issue"}

\* What each of them does.
Wipes ==
    /\ Onward("wipe") /\ keys' = [d \in DIDs |-> 0] /\ mounts' = {} /\ UNCHANGED <<extKeys, docs, minted>>
Provides(d) ==
    /\ Onward("provision") /\ Arg = d /\ minted' = minted + 1
    /\ keys' = [keys EXCEPT ![d] = minted + 1] /\ extKeys' = [extKeys EXCEPT ![d] = minted + 1]
    /\ mounts' = mounts \ {<<d[1], "keys">>} /\ UNCHANGED docs
Identifies == Onward("identity") /\ nodeIdentity \in Identity /\ UNCHANGED keyVars
Mounts(m)  == Onward("mount") /\ Arg = m /\ mounts' = mounts \cup {m} /\ UNCHANGED <<keys, extKeys, docs, minted>>
Removes ==
    /\ Onward("remove") /\ ~Skipping /\ Arg = NATS /\ ~Ahead("remove", NATS)'
    /\ docs' = [d \in DOMAIN docs |-> 0] /\ UNCHANGED <<keys, extKeys, minted, mounts>>
Owns(o) ==
    /\ Onward("owner") /\ Arg = o /\ minted' = minted + 1
    /\ docs' = docs \/ docs' = [docs EXCEPT ![<<o, "owner">>] = minted + 1]
    /\ UNCHANGED <<keys, extKeys, mounts>>
Issues(d) ==
    /\ Onward("issue") /\ Arg = d /\ docs[d] = 0
    /\ \/ up[Network(d[1])] # "up" /\ docs' = docs
       \/ up[Network(d[1])] = "up" /\ docs' = [docs EXCEPT ![d] = extKeys[d]]
    /\ UNCHANGED <<keys, extKeys, minted, mounts>>

Quiet ==
    /\ Wipes \/ Identifies \/ Removes \/ (\E d \in DIDs : Provides(d) \/ Issues(d))
       \/ (\E m : Mounts(m)) \/ (\E o \in Orgs : Owns(o))
    /\ UNCHANGED <<specVars, processVars>>

\* The test fails, and the cleanup begins.
Failing ==
    /\ phase \in {"setup", "restart", "scenario", "stopped"} /\ Fatal
    /\ phase = "restart" => (At("ready") \/ At("subscribed")) /\ ~Awaited /\ Idle
    /\ phase \in {"scenario", "stopped"} => todo = <<>>
    /\ minted' \in {minted, minted + 1} /\ UNCHANGED <<specVars, keys, extKeys, docs, mounts, processVars>>

\* One of the calls of a down is left out.
Skips(op) == Onward(op) /\ Skipping /\ UNCHANGED <<specVars, keyVars, processVars>>

DownCalls == {"stop", "gone", "remove"}

\* The product takes a step alone.
Running(A) == A /\ UNCHANGED <<specVars, callVars, keyVars>>

\* Every step is one of these.
LEMMA CallCases ==
  ASSUME SpecInv, TodoInv, Call
  PROVE  Quiet \/ Failing \/ Start \/ Up \/ Stop \/ FailDown \/ (\E op \in DownCalls : Skips(op)) \/ Wait \/ HandOver \/ End
<1>1. \A op : At(op) /\ Advance /\ UNCHANGED specVars => Onward(op)
  BY AdvanceOnward
<1>2. /\ \A op : At(op) /\ op \in {"provision", "identity", "owner", "issue"} => phase = "setup"
      /\ \A op : At(op) /\ op \in {"ready", "subscribed"} => phase \in {"setup", "restart"}
  BY AtIs, DueIs
<1>3. Wipe => Quiet
  BY <1>1 DEF Wipe, Quiet, Wipes
<1>4. Mount => Quiet
  BY <1>1 DEF Mount, Quiet, Mounts
<1>5. ASSUME RemoveAll PROVE Quiet
  <2>1. /\ At("remove") /\ ~Skipping /\ Advance /\ docs' = [d \in DOMAIN docs |-> 0]
        /\ UNCHANGED <<keys, extKeys, minted, mounts>> /\ UNCHANGED <<specVars, processVars>>
    BY <1>5 DEF RemoveAll, Done, Skipping
  <2>2. Arg = NATS
    BY <2>1, AtIs, DueIs
  <2>3. Onward("remove") /\ ~Ahead("remove", NATS)'
    BY <1>1, <2>1, <2>2, StartedOnce
  <2> QED  BY <2>1, <2>2, <2>3 DEF Quiet, Removes
<1>6. CheckIdentity => Quiet \/ Failing
  BY <1>1, <1>2 DEF CheckIdentity, Quiet, Identifies, Failing, keyVars
<1>7. ASSUME Provision PROVE Quiet \/ Failing
  <2>1. PICK d \in DIDs : Arg = d
    BY <1>7, AtIs, DueIs DEF Provision
  <2>2. At("provision") /\ UNCHANGED <<specVars, processVars>>
    BY <1>7 DEF Provision
  <2>3. CASE Fatal /\ UNCHANGED keyVars
    BY <1>2, <2>2, <2>3 DEF Failing, keyVars
  <2>4. CASE /\ Advance
             /\ keys' = [keys EXCEPT ![Arg] = minted + 1]
             /\ extKeys' = [extKeys EXCEPT ![Arg] = minted + 1]
             /\ minted' = minted + 1
             /\ mounts' = mounts \ {<<Arg[1], "keys">>}
             /\ UNCHANGED docs
    <3>1. Provides(d)
      BY <1>1, <2>1, <2>2, <2>4 DEF Provides
    <3> QED  BY <2>2, <3>1 DEF Quiet
  <2> QED  BY <1>7, <2>3, <2>4 DEF Provision
<1>8. \A o, d, k : Registered(o, d, k) =>
         \/ Fatal /\ UNCHANGED docs
         \/ Advance /\ up[Network(o)] # "up" /\ UNCHANGED docs
         \/ Advance /\ up[Network(o)] = "up" /\ docs' = [docs EXCEPT ![d] = k]
  BY DEF Registered
<1>9. ASSUME RegisterOwner PROVE Quiet \/ Failing
  <2>1. PICK o \in Orgs : Arg = o
    BY <1>9, AtIs, DueIs DEF RegisterOwner
  <2>2. /\ At("owner") /\ UNCHANGED <<specVars, processVars>> /\ UNCHANGED <<keys, extKeys, mounts>>
        /\ minted' = minted + 1 /\ Registered(o, <<o, "owner">>, minted + 1)
    BY <1>9, <2>1 DEF RegisterOwner
  <2>3. CASE Fatal /\ UNCHANGED docs
    BY <1>2, <2>2, <2>3 DEF Failing
  <2>4. CASE Advance /\ (docs' = docs \/ docs' = [docs EXCEPT ![<<o, "owner">>] = minted + 1])
    <3>1. Owns(o)
      BY <1>1, <2>1, <2>2, <2>4 DEF Owns
    <3> QED  BY <2>2, <3>1 DEF Quiet
  <2> QED  BY <1>8, <2>2, <2>3, <2>4
<1>10. ASSUME Issue PROVE Quiet \/ Failing
  <2>1. PICK d \in DIDs : Arg = d
    BY <1>10, AtIs, DueIs DEF Issue
  <2>2. /\ At("issue") /\ UNCHANGED <<specVars, processVars>> /\ UNCHANGED <<keys, extKeys, minted, mounts>>
        /\ (Fatal /\ UNCHANGED docs) \/ (docs[d] = 0 /\ Registered(d[1], d, extKeys[d]))
    BY <1>10, <2>1 DEF Issue
  <2>3. CASE Fatal /\ UNCHANGED docs
    BY <1>2, <2>2, <2>3 DEF Failing
  <2>4. CASE /\ Advance /\ docs[d] = 0
             /\ \/ up[Network(d[1])] # "up" /\ docs' = docs
                \/ up[Network(d[1])] = "up" /\ docs' = [docs EXCEPT ![d] = extKeys[d]]
    <3>1. Issues(d)
      BY <1>1, <2>1, <2>2, <2>4 DEF Issues
    <3> QED  BY <2>2, <3>1 DEF Quiet
  <2> QED  BY <1>8, <2>2, <2>3, <2>4
<1>11. GiveUp => Failing
  BY <1>2 DEF GiveUp, Failing, keyVars
<1>12. ASSUME Skip PROVE \E op \in DownCalls : Skips(op)
  <2>1. PICK op \in DownCalls : At(op)
    BY <1>12 DEF Skip, OfDown, DownCalls
  <2> QED  BY <1>1, <1>12, <2>1 DEF Skip, Skips, Skipping
<1> QED  BY <1>3, <1>4, <1>5, <1>6, <1>7, <1>9, <1>10, <1>11, <1>12 DEF Call

LEMMA FinishIs == Finish => Failing
BY DEF Finish, Failing, keyVars

Steps ==
    \/ Quiet \/ Failing \/ Start \/ Up \/ Stop \/ Wait \/ HandOver \/ End \/ Restart \/ StopAndLeave
    \/ FailDown \/ \E op \in DownCalls : Skips(op)
    \/ \E s \in Services : Running(BecomeReady(s)) \/ Running(Release(s)) \/ Running(FailToBind(s))
                           \/ Running(Exit(s)) \/ Running(Kill(s)) \/ Running(LosePort(s))
    \/ \E l \in Loops : Running(Subscribe(l))
    \/ \E o \in Orgs : Running(Emit(o)) \/ Running(Ship(o))
    \/ UNCHANGED vars

LEMMA NextCases ==
  ASSUME SpecInv, TodoInv, [Next]_vars
  PROVE  Steps
<1>1. CASE Call
  BY <1>1, CallCases DEF Steps
<1>2. CASE Restart \/ StopAndLeave \/ Finish
  BY <1>2, FinishIs DEF Steps
<1>3. CASE Alone(Product)
  <2>1. Product /\ UNCHANGED <<specVars, callVars, keyVars>>
    BY <1>3 DEF Alone
  <2>3. CASE \E s \in Services : Lifecycle(s) \/ LosePort(s)
    BY <2>1, <2>3 DEF Steps, Running, Lifecycle
  <2>4. CASE \E l \in Loops : Subscribe(l)
    BY <2>1, <2>4 DEF Steps, Running
  <2>5. CASE \E o \in Orgs : Emit(o) \/ Ship(o)
    BY <2>1, <2>5 DEF Steps, Running
  <2> QED  BY <2>1, <2>3, <2>4, <2>5 DEF Product
<1>4. CASE UNCHANGED vars
  BY <1>4 DEF Steps
<1> QED  BY <1>1, <1>2, <1>3, <1>4 DEF Next

\* One service goes from where it is to v; nothing else of the processes changes.
Goes(s, v) == /\ up' = [up EXCEPT ![s] = v] /\ up'[s] = v
              /\ \A t \in Services : t # s => up'[t] = up[t]

\* A service is started, and with it its port published.
StartsOne(s) ==
    /\ Onward("start") /\ Arg = s /\ Due(phase, "start", s) /\ ~Ahead("start", s)'
    /\ Goes(s, "booting") /\ \A o \in Orgs : Network(o) # s => port'[o] = port[o]
    /\ port' \in [Orgs -> Nat]
    /\ UNCHANGED <<specVars, keyVars, subscribed, unshipped, killed, rejected, taken, mimic>>

LEMMA StartIs ==
  ASSUME SpecInv, TypeInv, TodoInv, Start
  PROVE  \E s \in Services : StartsOne(s)
<1> DEFINE s == Arg
<1>1. /\ At("start") /\ Advance /\ UNCHANGED <<specVars, keyVars, subscribed, unshipped, killed, rejected, taken, mimic>>
      /\ up' = [up EXCEPT ![s] = "booting"]
      /\ port' = [o \in Orgs |-> IF Network(o) \in {s} /\ (runtime = "compose" \/ port[o] = 0)
                                 THEN port[o] + 1 ELSE port[o]]
  BY DEF Start, Published
<1>2. Due(phase, "start", s) /\ s \in Services
  BY <1>1, AtIs, DueIs
<1>3. up \in [Services -> States] /\ port \in [Orgs -> Nat]
  BY DEF TypeInv
<1>4. \E t \in Services : t = s
  BY <1>2
<1>5. PICK t \in Services : t = s
  BY <1>4
<1>6. Onward("start") /\ ~Ahead("start", t)'
  BY <1>1, <1>5, AdvanceOnward, StartedOnce
<1> HIDE DEF s
<1>7. up' = [up EXCEPT ![t] = "booting"]
  BY <1>1, <1>3, <1>5
<1>8. Goes(t, "booting")
  BY <1>3, <1>7 DEF Goes
<1>9. port' \in [Orgs -> Nat] /\ \A o \in Orgs : Network(o) # t => port'[o] = port[o]
  BY <1>1, <1>3, <1>5
<1> QED  BY <1>1, <1>2, <1>5, <1>6, <1>8, <1>9 DEF StartsOne, s

LEMMA UpIs ==
  ASSUME SpecInv, TypeInv, TodoInv, Up
  PROVE  /\ Onward("up") /\ Arg = NATS /\ phase = "setup" /\ runtime = "compose" /\ ~Ahead("up", NATS)'
         /\ \A s \in Services : up'[s] = IF up[s] = "down" THEN IF s[2] = "pipeline" THEN "held" ELSE "booting"
                                        ELSE IF up[s] = "leaked" THEN "up" ELSE up[s]
         /\ up' \in [Services -> States] /\ port' \in [Orgs -> Nat]
         /\ UNCHANGED <<specVars, keyVars, subscribed, unshipped, killed, rejected, taken, mimic>>
<1>1. /\ At("up") /\ Advance /\ UNCHANGED <<specVars, keyVars, subscribed, unshipped, killed, rejected, taken, mimic>>
      /\ up' = [s \in Services |->
                  CASE up[s] = "down"   -> IF s[2] = "pipeline" THEN "held" ELSE "booting"
                    [] up[s] = "leaked" -> "up"
                    [] OTHER            -> up[s]]
      /\ port' = [o \in Orgs |-> IF Network(o) \in {t \in Services : up[t] = "down"} /\ (runtime = "compose" \/ port[o] = 0)
                                 THEN port[o] + 1 ELSE port[o]]
  BY DEF Up, Published
<1>2. Arg = NATS /\ phase = "setup" /\ runtime = "compose"
  BY <1>1, AtIs, DueIs
<1>3. port' \in [Orgs -> Nat]
  BY <1>1 DEF TypeInv
<1>4. /\ \A s \in Services : up'[s] = IF up[s] = "down" THEN IF s[2] = "pipeline" THEN "held" ELSE "booting"
                                     ELSE IF up[s] = "leaked" THEN "up" ELSE up[s]
      /\ up' \in [Services -> States]
  BY <1>1 DEF TypeInv, States
<1>5. Onward("up") /\ ~Ahead("up", NATS)'
  BY <1>1, <1>2, AdvanceOnward, StartedOnce
<1> QED  BY <1>1, <1>2, <1>3, <1>4, <1>5

\* A service is asked to stop.
StopsOne(s) ==
    /\ Onward("stop") /\ ~Skipping /\ Arg = s /\ Due(phase, "stop", s) /\ (s \notin Infra => ~Ahead("stop", s)')
    /\ Goes(s, IF up[s] \in {"down", "held"} THEN "down" ELSE "stopping")
    /\ UNCHANGED <<specVars, keyVars, port, subscribed, unshipped, killed, rejected, taken, mimic>>

LEMMA StopIs ==
  ASSUME SpecInv, TypeInv, TodoInv, Stop
  PROVE  \E s \in Services : StopsOne(s)
<1>1. /\ At("stop") /\ Advance /\ ~Skipping
      /\ UNCHANGED <<specVars, keyVars, port, subscribed, unshipped, killed, rejected, taken, mimic>>
      /\ up' = [up EXCEPT ![Arg] = IF up[Arg] \in {"down", "held"} THEN "down" ELSE "stopping"]
  BY DEF Stop, Done, Skipping
<1>2. Due(phase, "stop", Arg) /\ Arg \in Services
  BY <1>1, AtIs, DueIs
<1>3. PICK s \in Services : s = Arg
  BY <1>2
<1>4. Onward("stop")
  BY <1>1, AdvanceOnward
<1>5. s \notin Infra => ~Ahead("stop", s)'
  <2> SUFFICES ASSUME s \notin Infra PROVE ~Ahead("stop", s)'
    OBVIOUS
  <2>1. PICK o \in Orgs : s \in {Network(o), Pipeline(o)}
    BY ServicesAre
  <2>2. Stage(Item("stop", s), How) \in {2, 4, 12}
    BY <2>1, NodeCalls
  <2>3. Stage(Item("stop", s), How) \notin Flat
    BY <2>2 DEF Flat
  <2> QED  BY <1>1, <1>3, <2>3, AdvanceIs DEF Ahead
<1>6. Goes(s, IF up[s] \in {"down", "held"} THEN "down" ELSE "stopping")
  BY <1>1, <1>3 DEF Goes, TypeInv
<1> QED  BY <1>1, <1>2, <1>3, <1>4, <1>5, <1>6 DEF StopsOne

\* What was waited for has come.
Sees(arg) ==
    /\ Arg = arg
    /\ \/ Onward("gone") /\ arg \in Services /\ up[arg] = "down"
       \/ Onward("ready") /\ arg \in Services /\ Answers(arg) /\ (up[arg] = "down" => arg = PDP) /\ ~Ahead("ready", arg)'
       \/ Onward("subscribed") /\ arg \in gates /\ arg \in subscribed
    /\ UNCHANGED <<specVars, keyVars, processVars>>

LEMMA WaitIs ==
  ASSUME SpecInv, TodoInv, Wait
  PROVE  \E arg : Sees(arg)
<1>1. Awaited /\ Advance /\ UNCHANGED <<specVars, keyVars, processVars>>
  BY DEF Wait
<1>2. PICK arg : arg = Arg
  OBVIOUS
<1>3. CASE At("gone") /\ up[Arg] = "down"
  <2>1. Onward("gone") /\ arg \in Services
    BY <1>1, <1>2, <1>3, AdvanceOnward, AtIs, DueIs
  <2> QED  BY <1>1, <1>2, <1>3, <2>1 DEF Sees
<1>4. CASE At("ready") /\ Answers(Arg) /\ (up[Arg] = "down" => Arg = PDP)
  <2>1. Onward("ready") /\ arg \in Services /\ ~Ahead("ready", arg)'
    BY <1>1, <1>2, <1>4, AdvanceOnward, AtIs, DueIs, StartedOnce
  <2> QED  BY <1>1, <1>2, <1>4, <2>1 DEF Sees
<1>5. CASE At("subscribed") /\ Arg \in subscribed
  <2>1. Onward("subscribed") /\ arg \in gates
    BY <1>1, <1>2, <1>5, AdvanceOnward, AtIs, DueIs
  <2> QED  BY <1>1, <1>2, <1>5, <2>1 DEF Sees
<1> QED  BY <1>1, <1>3, <1>4, <1>5 DEF Awaited

LEMMA QuietIs ==
  ASSUME SpecInv, TodoInv, Quiet
  PROVE  /\ phase \in {"setup", "cleanup"} /\ phase' = phase /\ How' = How /\ restarts' = restarts /\ base' = base /\ TodoInv'
         /\ downFailed' = downFailed /\ UNCHANGED <<specVars, processVars>>
         /\ \A op, arg : Ahead(op, arg)' => Ahead(op, arg)
         /\ \A op, arg : op \notin QuietCalls /\ Ahead(op, arg) => Ahead(op, arg)'
<1>1. PICK op \in QuietCalls : Onward(op)
  BY DEF Quiet, Wipes, Identifies, Removes, Provides, Issues, Mounts, Owns, QuietCalls
<1>2. Due(phase, op, Arg)
  BY <1>1, AtIs DEF Onward
<1>3. phase \in {"setup", "cleanup"}
  BY <1>2, DueIs DEF QuietCalls
<1> QED  BY <1>1, <1>3 DEF Onward, Quiet

LEMMA FailingIs ==
  ASSUME SpecInv, Failing
  PROVE  /\ phase \in {"setup", "restart", "scenario", "stopped"} /\ UNCHANGED <<specVars, processVars>>
         /\ phase' = "cleanup" /\ How' = "whole" /\ restarts' = restarts /\ base' = base /\ TodoInv'
         /\ downFailed' = FALSE
         /\ (\A op, arg : Ahead(op, arg)' <=> DueInCleanup(op, arg)) \/ ~Busy'
BY FatalIs DEF Failing

-----------------------------------------------------------------------------
LEMMA AnswersSame == UNCHANGED processVars => \A s : Answers(s)' = Answers(s)
BY DEF processVars, Answers

\* The setup stays, and what is left to do is what remains: after every step.
LEMMA TodoStep ==
  ASSUME SpecInv, TypeInv, TodoInv, Steps
  PROVE  TodoInv' /\ UNCHANGED specVars
<1>1. CASE Quiet
  BY <1>1, QuietIs
<1>2. CASE Failing
  BY <1>2, FailingIs
<1>3. CASE Start
  BY <1>3, StartIs DEF StartsOne, Onward
<1>4. CASE Up
  BY <1>4, UpIs DEF Onward
<1>5. CASE Stop
  BY <1>5, StopIs DEF StopsOne, Onward
<1>6. CASE Wait
  BY <1>6, WaitIs DEF Sees, Onward
<1>7. CASE HandOver \/ End \/ Restart \/ StopAndLeave
  BY <1>7, HandOverIs, EndIs, RestartIs, StopAndLeaveIs
<1>8. CASE UNCHANGED <<specVars, callVars>> \/ FailDown
  BY <1>8, StayIs
<1>10. CASE \E op \in DownCalls : Skips(op)
  BY <1>10 DEF Skips, Onward
<1>9. UNCHANGED vars => UNCHANGED <<specVars, callVars>>
  BY DEF vars
<1> QED  BY <1>1, <1>2, <1>3, <1>4, <1>5, <1>6, <1>7, <1>8, <1>9, <1>10 DEF Steps, Running

\* The types are kept.
LEMMA TypeStep ==
  ASSUME SpecInv, TypeInv, TodoInv, Steps
  PROVE  TypeInv'
<1> DEFINE All == (Orgs \X {"keys", "config"}) \cup {<<"broker", "jwts">>}
           Calls == phase' \in Phases /\ restarts' \in Nat /\ base' \in [Orgs -> Nat] /\ downFailed' \in BOOLEAN
           Keys  == /\ keys' \in [DIDs -> Nat] /\ extKeys' \in [DIDs -> Nat] /\ docs' \in [Documented -> Nat]
                    /\ minted' \in Nat /\ mounts' \subseteq All
           Procs == /\ up' \in [Services -> States] /\ port' \in [Orgs -> Nat] /\ subscribed' \subseteq Loops
                    /\ unshipped' \subseteq Orgs /\ killed' \subseteq Orgs /\ rejected' \in BOOLEAN
                    /\ taken' \subseteq Services /\ mimic' \in BOOLEAN
<1>0. UNCHANGED specVars /\ (Calls /\ Keys /\ Procs => TypeInv')
  <2>1. UNCHANGED specVars
    BY TodoStep
  <2> QED  BY <2>1, Same DEF TypeInv
<1>1. /\ phase \in Phases /\ restarts \in Nat /\ base \in [Orgs -> Nat] /\ port \in [Orgs -> Nat]
      /\ downFailed \in BOOLEAN
      /\ keys \in [DIDs -> Nat] /\ extKeys \in [DIDs -> Nat] /\ docs \in [Documented -> Nat] /\ minted \in Nat
      /\ mounts \subseteq All /\ up \in [Services -> States] /\ subscribed \subseteq Loops
      /\ unshipped \subseteq Orgs /\ killed \subseteq Orgs /\ rejected \in BOOLEAN
      /\ taken \subseteq Services /\ mimic \in BOOLEAN
  BY DEF TypeInv
<1>2. phase' = phase /\ restarts' = restarts /\ base' = base /\ downFailed' = downFailed => Calls
  BY <1>1
<1>3. UNCHANGED keyVars => Keys
  BY <1>1 DEF keyVars
<1>4. UNCHANGED processVars => Procs
  BY <1>1 DEF processVars
<1>5. UNCHANGED callVars => Calls
  BY <1>1 DEF callVars
<1>6. \A op : Onward(op) => Calls
  BY <1>2 DEF Onward
<1>7. CASE Quiet
  <2>1. Keys
    <3>1. CASE Wipes \/ Identifies \/ Removes
      BY <1>1, <1>3, <3>1 DEF Wipes, Identifies, Removes
    <3>2. CASE \E d \in DIDs : Provides(d) \/ Issues(d)
      <4>1. PICK d \in DIDs : Provides(d) \/ Issues(d)
        BY <3>2
      <4>2. d \in Documented
        BY OrgFacts
      <4>3. CASE Provides(d)
        BY <1>1, <4>3 DEF Provides
      <4>4. CASE Issues(d)
        BY <1>1, <4>4 DEF Issues
      <4> QED  BY <4>1, <4>3, <4>4
    <3>3. CASE \E m : Mounts(m)
      <4>1. PICK m : Mounts(m)
        BY <3>3
      <4>2. m \in All
        BY <4>1, AtIs, DueIs DEF Mounts, Onward
      <4> QED  BY <1>1, <4>1, <4>2 DEF Mounts
    <3>4. CASE \E o \in Orgs : Owns(o)
      <4>1. PICK o \in Orgs : Owns(o)
        BY <3>4
      <4>2. PICK d \in Documented : d = <<o, "owner">>
        BY OrgFacts
      <4>3. docs' = docs \/ docs' = [docs EXCEPT ![d] = minted + 1]
        BY <4>1, <4>2 DEF Owns
      <4>4. docs' \in [Documented -> Nat]
        BY <1>1, <4>3
      <4> QED  BY <1>1, <4>1, <4>4 DEF Owns
    <3> QED  BY <1>7, <3>1, <3>2, <3>3, <3>4 DEF Quiet
  <2> QED  BY <1>0, <1>2, <1>4, <1>7, <2>1, QuietIs DEF Quiet
<1>8. CASE Failing
  <2>1. Keys
    BY <1>1, <1>8 DEF Failing
  <2>2. Calls
    BY <1>1, <1>8, FailingIs DEF Phases
  <2> QED  BY <1>0, <1>4, <1>8, <2>1, <2>2 DEF Failing
<1>9. CASE Start
  <2>1. PICK s \in Services : StartsOne(s)
    BY <1>9, StartIs
  <2>2. up' \in [Services -> States]
    BY <1>1, <2>1 DEF StartsOne, Goes, States
  <2> QED  BY <1>0, <1>1, <1>3, <1>6, <2>1, <2>2 DEF StartsOne
<1>10. CASE Up
  BY <1>0, <1>1, <1>3, <1>6, <1>10, UpIs
<1>11. CASE Stop
  <2>1. PICK s \in Services : StopsOne(s)
    BY <1>11, StopIs
  <2>2. up' \in [Services -> States]
    BY <1>1, <2>1 DEF StopsOne, Goes, States
  <2> QED  BY <1>0, <1>1, <1>3, <1>6, <2>1, <2>2 DEF StopsOne
<1>12. CASE Wait
  BY <1>0, <1>3, <1>4, <1>6, <1>12, WaitIs DEF Sees
<1>13. CASE HandOver
  <2>1. Calls
    BY <1>1, <1>13, HandOverIs, OrgFacts DEF Phases
  <2> QED  BY <1>0, <1>3, <1>4, <1>13, <2>1, HandOverIs
<1>14. CASE End
  BY <1>0, <1>1, <1>3, <1>4, <1>14, EndIs DEF Phases
<1>15. CASE Restart
  <2>1. Calls
    BY <1>1, <1>15, RestartIs DEF Phases
  <2> QED  BY <1>0, <1>3, <1>4, <1>15, <2>1, RestartIs
<1>16. CASE StopAndLeave
  BY <1>0, <1>1, <1>3, <1>4, <1>16, StopAndLeaveIs DEF Phases
<1>17. ASSUME NEW s \in Services, Running(BecomeReady(s)) \/ Running(Release(s)) \/ Running(FailToBind(s))
                                  \/ Running(Exit(s)) \/ Running(Kill(s)) \/ Running(LosePort(s))
       PROVE  TypeInv'
  <2>1. UNCHANGED keyVars /\ UNCHANGED callVars
    BY <1>17 DEF Running
  <2>2. CASE BecomeReady(s) \/ Release(s)
    BY <1>0, <1>1, <1>3, <1>5, <2>1, <2>2 DEF BecomeReady, Release, States
  <2>3. CASE FailToBind(s)
    BY <1>0, <1>1, <1>3, <1>5, <2>1, <2>3 DEF FailToBind, States
  <2>4. CASE Exit(s) \/ Kill(s)
    <3>1. killed' \subseteq Orgs
      BY <1>1, <2>4 DEF Exit, Kill, Undrained
    <3>2. Gone(s)
      BY <2>4 DEF Exit, Kill
    <3> QED  BY <1>0, <1>1, <1>3, <1>5, <2>1, <3>1, <3>2 DEF Gone, States
  <2>5. CASE LosePort(s)
    BY <1>0, <1>1, <1>3, <1>5, <2>1, <2>5 DEF LosePort
  <2> QED  BY <1>17, <2>2, <2>3, <2>4, <2>5 DEF Running
<1>18. ASSUME NEW l \in Loops, Running(Subscribe(l))
       PROVE  TypeInv'
  BY <1>0, <1>1, <1>3, <1>5, <1>18 DEF Running, Subscribe
<1>19. ASSUME NEW o \in Orgs, Running(Emit(o)) \/ Running(Ship(o))
       PROVE  TypeInv'
  BY <1>0, <1>1, <1>3, <1>5, <1>19 DEF Running, Emit, Ship
<1>20. CASE UNCHANGED vars
  BY <1>0, <1>3, <1>4, <1>5, <1>20 DEF vars
<1>21. CASE FailDown
  BY <1>0, <1>1, <1>3, <1>4, <1>21 DEF FailDown
<1>22. CASE \E op \in DownCalls : Skips(op)
  BY <1>0, <1>3, <1>4, <1>6, <1>22 DEF Skips
<1> QED
  BY <1>7, <1>8, <1>9, <1>10, <1>11, <1>12, <1>13, <1>14, <1>15, <1>16, <1>17, <1>18, <1>19, <1>20,
     <1>21, <1>22 DEF Steps

\* Where a service goes, and by which step.
Moves(t) ==
    /\ up'[t] = "up" => up[t] = "up" \/ (up[t] = "booting" /\ Running(BecomeReady(t))) \/ (Up /\ up[t] = "leaked")
    /\ up'[t] = "leaked" => up[t] = "leaked"
    /\ up'[t] = "booting" => up[t] = "booting" \/ StartsOne(t) \/ (Up /\ t[2] # "pipeline" /\ up[t] = "down")
                             \/ (up[t] = "held" /\ Running(Release(t)))
    /\ up'[t] = "held" => up[t] = "held" \/ (Up /\ t[2] = "pipeline" /\ up[t] = "down")
    /\ up'[t] = "stopping" => up[t] = "stopping" \/ (StopsOne(t) /\ up[t] \in {"up", "booting", "leaked"})
    /\ up'[t] = "down" => \/ up[t] = "down"
                          \/ up[t] = "held" /\ StopsOne(t)
                          \/ up[t] = "stopping" /\ (Running(Exit(t)) \/ Running(Kill(t)))
                          \/ up[t] = "booting" /\ t \in taken /\ Running(FailToBind(t))

LEMMA ServiceMoves ==
  ASSUME SpecInv, TypeInv, TodoInv, Steps, NEW t \in Services
  PROVE  Moves(t)
<1>0. up \in [Services -> States]
  BY DEF TypeInv
<1>1. CASE up' = up
  BY <1>1 DEF Moves
<1>2. CASE Start
  <2>1. PICK s \in Services : StartsOne(s)
    BY <1>2, StartIs
  <2>2. CASE t = s
    BY <2>1, <2>2 DEF StartsOne, Goes, Moves
  <2>3. CASE t # s
    <3>1. up'[t] = up[t]
      BY <2>1, <2>3 DEF StartsOne, Goes
    <3> QED  BY <3>1 DEF Moves
  <2> QED  BY <2>2, <2>3
<1>3. CASE Up
  <2>1. up'[t] = IF up[t] = "down" THEN IF t[2] = "pipeline" THEN "held" ELSE "booting"
                 ELSE IF up[t] = "leaked" THEN "up" ELSE up[t]
    BY <1>3, UpIs
  <2> QED  BY <1>3, <2>1 DEF Moves
<1>4. CASE Stop
  <2>1. PICK s \in Services : StopsOne(s)
    BY <1>4, StopIs
  <2>2. CASE t = s
    <3>1. up'[t] = IF up[t] \in {"down", "held"} THEN "down" ELSE "stopping"
      BY <2>1, <2>2 DEF StopsOne, Goes
    <3>2. up[t] \in {"down", "held", "booting", "up", "stopping", "leaked"}
      BY <1>0 DEF States
    <3> QED  BY <2>1, <2>2, <3>1, <3>2 DEF Moves
  <2>3. CASE t # s
    <3>1. up'[t] = up[t]
      BY <2>1, <2>3 DEF StopsOne, Goes
    <3> QED  BY <3>1 DEF Moves
  <2> QED  BY <2>2, <2>3
<1>5. ASSUME NEW s \in Services, NEW v, up' = [up EXCEPT ![s] = v],
             \/ Running(BecomeReady(s)) /\ up[s] = "booting" /\ v = "up"
             \/ Running(Release(s)) /\ up[s] = "held" /\ v = "booting"
             \/ Running(FailToBind(s)) /\ up[s] = "booting" /\ s \in taken /\ v = "down"
             \/ (Running(Exit(s)) \/ Running(Kill(s))) /\ up[s] = "stopping" /\ v = "down"
      PROVE  Moves(t)
  <2>1. up'[t] = IF t = s THEN v ELSE up[t]
    BY <1>0, <1>5
  <2>2. CASE t # s
    BY <2>1, <2>2 DEF Moves
  <2>3. CASE t = s
    BY <1>5, <2>1, <2>3 DEF Moves
  <2> QED  BY <2>2, <2>3
<1>6. ASSUME NEW s \in Services, Running(BecomeReady(s)) \/ Running(Release(s)) \/ Running(FailToBind(s))
                                  \/ Running(Exit(s)) \/ Running(Kill(s))
      PROVE  Moves(t)
  <2>1. CASE Running(BecomeReady(s))
    BY <1>5, <2>1 DEF Running, BecomeReady
  <2>2. CASE Running(Release(s))
    BY <1>5, <2>2 DEF Running, Release
  <2>3. CASE Running(FailToBind(s))
    BY <1>5, <2>3 DEF Running, FailToBind
  <2>4. CASE Running(Exit(s)) \/ Running(Kill(s))
    <3>1. Gone(s)
      BY <2>4 DEF Running, Exit, Kill
    <3> QED  BY <1>5, <2>4, <3>1 DEF Gone
  <2> QED  BY <1>6, <2>1, <2>2, <2>3, <2>4
<1>7. /\ Quiet \/ Failing \/ Wait \/ HandOver \/ End \/ Restart \/ StopAndLeave \/ UNCHANGED vars => up' = up
      /\ FailDown \/ (\E op \in DownCalls : Skips(op)) => up' = up
  BY DEF Quiet, Failing, Wait, HandOver, End, Restart, StopAndLeave, FailDown, Skips, vars, processVars
<1>8. ASSUME NEW s, Running(LosePort(s)) \/ Running(Subscribe(s)) \/ Running(Emit(s)) \/ Running(Ship(s))
      PROVE  up' = up
  BY <1>8 DEF Running, LosePort, Subscribe, Emit, Ship
<1> QED  BY <1>1, <1>2, <1>3, <1>4, <1>6, <1>7, <1>8 DEF Steps

\* One port is lost in a test, and by a service that is not up.
LosesPort(s) ==
    /\ runtime = "process" /\ phase \in {"setup", "restart"} /\ taken = {} /\ taken' = {s}
    /\ s # NATS /\ up[s] \in {"down", "booting"} /\ Running(LosePort(s)) /\ up' = up

LEMMA PortMoves ==
  ASSUME SpecInv, TypeInv, TodoInv, Steps
  PROVE  (taken' = taken /\ mimic' = mimic) \/ \E s \in Services : LosesPort(s)
<1>1. /\ Quiet \/ Failing \/ Wait \/ HandOver \/ End \/ Restart \/ StopAndLeave \/ UNCHANGED vars
         => taken' = taken /\ mimic' = mimic
      /\ FailDown \/ (\E op \in DownCalls : Skips(op)) => taken' = taken /\ mimic' = mimic
  BY DEF Quiet, Failing, Wait, HandOver, End, Restart, StopAndLeave, FailDown, Skips, vars, processVars
<1>2. Start \/ Up \/ Stop => taken' = taken /\ mimic' = mimic
  BY DEF Start, Up, Stop, Published
<1>3. \A s : Running(BecomeReady(s)) \/ Running(Release(s)) \/ Running(FailToBind(s)) \/ Running(Exit(s))
             \/ Running(Kill(s)) => taken' = taken /\ mimic' = mimic
  BY DEF Running, BecomeReady, Release, FailToBind, Exit, Kill, Gone
<1>4. \A s : Running(Subscribe(s)) \/ Running(Emit(s)) \/ Running(Ship(s)) => taken' = taken /\ mimic' = mimic
  BY DEF Running, Subscribe, Emit, Ship
<1>5. \A s : Running(LosePort(s)) => LosesPort(s)
  BY DEF Running, LosePort, LosesPort
<1> QED  BY <1>1, <1>2, <1>3, <1>4, <1>5 DEF Steps

LEMMA PortStep ==
  ASSUME SpecInv, TypeInv, TodoInv, PortInv, Steps
  PROVE  PortInv'
<1>0. UNCHANGED specVars /\ Services' = Services /\ runtime' = runtime
  BY TodoStep, Same
<1>1. CASE taken' = taken /\ mimic' = mimic
  <2>1. \A s \in taken : up'[s] # "up"
    BY ServiceMoves, UpIs DEF Moves, PortInv, TypeInv, Running, BecomeReady, Bootable
  <2> QED  BY <1>0, <1>1, <2>1 DEF PortInv
<1>2. CASE \E s \in Services : LosesPort(s)
  BY <1>0, <1>2 DEF LosesPort, PortInv
<1> QED  BY <1>1, <1>2, PortMoves

\* Nobody stops answering but by being stopped or started again.
LEMMA AnswersMoves ==
  ASSUME SpecInv, TypeInv, TodoInv, PortInv, Steps, NEW t \in Services, Answers(t), ~Answers(t)'
  PROVE  up[t] = "up" /\ (StopsOne(t) \/ StartsOne(t))
<1>1. up[t] = "up"
  <2>1. CASE taken' = taken /\ mimic' = mimic
    BY <2>1 DEF Answers
  <2>2. CASE \E s \in Services : LosesPort(s)
    BY <2>2 DEF Answers, LosesPort
  <2> QED  BY <2>1, <2>2, PortMoves
<1>2. up'[t] \in {"down", "held", "booting", "stopping", "leaked"}
  <2>1. up'[t] \in States
    BY TypeStep, TodoStep, Same DEF TypeInv
  <2> QED  BY <2>1 DEF Answers, States
<1> QED  BY <1>1, <1>2, ServiceMoves DEF Moves

\* The harness goes on in the phase it is in; and what it has done it has done.
Onwards ==
    /\ phase' = phase /\ base' = base /\ How' = How /\ (downFailed => downFailed')
    /\ \A op, arg : Ahead(op, arg)' => Ahead(op, arg)
    /\ \A op, arg : Ahead(op, arg) /\ ~Ahead(op, arg)' =>
         /\ Arg = arg /\ At(op)
         /\ op = "start" => StartsOne(arg)
         /\ op = "gone" => (up[arg] = "down" \/ Skipping) /\ up' = up
         /\ op = "ready" => Answers(arg) /\ (up[arg] = "down" => arg = PDP) /\ UNCHANGED processVars
         /\ op = "subscribed" => arg \in subscribed /\ UNCHANGED processVars
         /\ op = "up" => Up
         /\ op = "provision" => Provides(arg)
         /\ op = "issue" => Issues(arg) /\ UNCHANGED processVars
         /\ op = "mount" => Mounts(arg)
         /\ op = "identity" => nodeIdentity \in Identity

LEMMA CallMoves ==
  ASSUME SpecInv, TypeInv, TodoInv, Steps
  PROVE  Onwards \/ Failing \/ HandOver \/ End \/ Restart \/ StopAndLeave
<1>0. \A op, op2 : At(op) /\ At(op2) => op = op2
  BY DEF At
<1>1. CASE Quiet
  <2>1. PICK op \in QuietCalls : Onward(op)
    BY <1>1 DEF Quiet, Wipes, Identifies, Removes, Provides, Issues, Mounts, Owns, QuietCalls
  <2>2. \A arg : Arg = arg =>
          /\ At("provision") => Provides(arg)
          /\ At("issue") => Issues(arg) /\ UNCHANGED processVars
          /\ At("mount") => Mounts(arg)
          /\ At("identity") => nodeIdentity \in Identity
    BY <1>0, <1>1 DEF Quiet, Wipes, Identifies, Removes, Provides, Issues, Mounts, Owns, Onward
  <2> QED  BY <1>0, <2>1, <2>2 DEF Onward, Onwards, QuietCalls
<1>2. CASE Start
  <2>1. PICK s \in Services : StartsOne(s)
    BY <1>2, StartIs
  <2> QED  BY <1>0, <2>1 DEF StartsOne, Onward, Onwards
<1>3. CASE Up
  BY <1>0, <1>3, UpIs DEF Onward, Onwards
<1>4. CASE Stop
  <2>1. PICK s \in Services : StopsOne(s)
    BY <1>4, StopIs
  <2> QED  BY <1>0, <2>1 DEF StopsOne, Onward, Onwards
<1>5. CASE Wait
  <2>1. PICK arg : Sees(arg)
    BY <1>5, WaitIs
  <2>2. UNCHANGED processVars /\ up' = up
    BY <2>1 DEF Sees, processVars
  <2> QED  BY <1>0, <2>1, <2>2 DEF Sees, Onward, Onwards
<1>6. CASE UNCHANGED <<specVars, callVars>> \/ FailDown
  BY <1>6, StayIs DEF Onwards
<1>8. CASE \E op \in DownCalls : Skips(op)
  <2>1. PICK op \in DownCalls : Skips(op)
    BY <1>8
  <2>2. Onward(op) /\ Skipping /\ up' = up
    BY <2>1 DEF Skips, processVars
  <2> QED  BY <1>0, <2>2 DEF Onward, Onwards, DownCalls
<1>7. UNCHANGED vars => UNCHANGED <<specVars, callVars>>
  BY DEF vars
<1> QED  BY <1>1, <1>2, <1>3, <1>4, <1>5, <1>6, <1>7, <1>8 DEF Steps, Running

-----------------------------------------------------------------------------
\* The rest of what the processes have, and the files and documents.
LEMMA OtherMoves ==
  ASSUME SpecInv, TypeInv, TodoInv, Steps
  PROVE  /\ port' = port \/ Up \/ \E s \in Services : StartsOne(s)
         /\ \A l \in subscribed : l \in subscribed' \/ up'[Pipeline(l[1])] = "down"
         /\ \/ unshipped' \subseteq unshipped
            \/ \E o \in Orgs : Running(Emit(o)) /\ unshipped' = unshipped \cup {o}
         /\ killed \subseteq killed' /\ (rejected' = rejected \/ \E o \in Orgs : Running(Ship(o)))
         /\ UNCHANGED <<keys, extKeys, docs, mounts>> \/ Quiet
<1>0. up \in [Services -> States]
  BY DEF TypeInv
<1> DEFINE Goal == /\ port' = port \/ Up \/ \E s \in Services : StartsOne(s)
                   /\ \A l \in subscribed : l \in subscribed' \/ up'[Pipeline(l[1])] = "down"
                   /\ \/ unshipped' \subseteq unshipped
                      \/ \E o \in Orgs : Running(Emit(o)) /\ unshipped' = unshipped \cup {o}
                   /\ killed \subseteq killed' /\ (rejected' = rejected \/ \E o \in Orgs : Running(Ship(o)))
                   /\ UNCHANGED <<keys, extKeys, docs, mounts>> \/ Quiet
<1>1. CASE \/ Quiet \/ Failing \/ Wait \/ HandOver \/ End \/ Restart \/ StopAndLeave \/ UNCHANGED vars
           \/ FailDown \/ \E op \in DownCalls : Skips(op)
  <2>1. UNCHANGED processVars
    BY <1>1 DEF Quiet, Failing, Wait, HandOver, End, Restart, StopAndLeave, FailDown, Skips, vars
  <2>2. UNCHANGED <<keys, extKeys, docs, mounts>> \/ Quiet
    BY <1>1 DEF Failing, Wait, HandOver, End, Restart, StopAndLeave, FailDown, Skips, vars, keyVars
  <2> QED  BY <2>1, <2>2 DEF processVars
<1>2. CASE Start
  BY <1>2, StartIs DEF StartsOne, keyVars
<1>3. CASE Up
  BY <1>3, UpIs DEF keyVars
<1>4. CASE Stop
  BY <1>4, StopIs DEF StopsOne, keyVars
<1>5. ASSUME NEW s \in Services, Running(BecomeReady(s)) \/ Running(Release(s)) \/ Running(LosePort(s))
      PROVE  Goal
  BY <1>5 DEF Running, BecomeReady, Release, LosePort, keyVars
<1>6. ASSUME NEW s \in Services, Running(FailToBind(s)) \/ Running(Exit(s)) \/ Running(Kill(s))
      PROVE  Goal
  <2>3. killed \subseteq killed'
    BY <1>6 DEF Running, FailToBind, Exit, Kill
  <2>1. /\ up' = [up EXCEPT ![s] = "down"] /\ subscribed' = {l \in subscribed : Pipeline(l[1]) # s}
        /\ port' = port /\ unshipped' = unshipped /\ rejected' = rejected /\ UNCHANGED keyVars
    BY <1>6 DEF Running, FailToBind, Exit, Kill, Gone
  <2>2. up'[s] = "down"
    BY <1>0, <2>1
  <2> QED  BY <2>1, <2>2, <2>3 DEF keyVars
<1>7. ASSUME NEW l \in Loops, Running(Subscribe(l)) PROVE Goal
  BY <1>7 DEF Running, Subscribe, keyVars
<1>8. ASSUME NEW o \in Orgs, Running(Emit(o)) PROVE Goal
  BY <1>8 DEF Running, Emit, keyVars
<1>9. ASSUME NEW o \in Orgs, Running(Ship(o)) PROVE Goal
  <2>1. unshipped' \subseteq unshipped /\ killed' = killed /\ port' = port /\ subscribed' = subscribed /\ UNCHANGED keyVars
    BY <1>9 DEF Running, Ship
  <2> QED  BY <1>9, <2>1 DEF keyVars
<1> QED  BY <1>1, <1>2, <1>3, <1>4, <1>5, <1>6, <1>7, <1>8, <1>9 DEF Steps

\* A document in a registry stays until the containers are removed.
LEMMA DocMoves ==
  ASSUME SpecInv, TypeInv, TodoInv, Steps, NEW d \in DIDs, docs[d] # 0
  PROVE  docs'[d] = docs[d] \/ Removes
<1>1. docs' = docs \/ Quiet
  BY OtherMoves
<1>2. docs \in [Documented -> Nat] /\ d \in Documented
  BY OrgFacts DEF TypeInv
<1>3. CASE \E e \in DIDs : Issues(e)
  BY <1>2, <1>3 DEF Issues
<1>4. CASE \E o \in Orgs : Owns(o)
  BY <1>2, <1>4, OrgFacts DEF Owns, Identity
<1>5. CASE Wipes \/ Identifies \/ Removes \/ (\E e \in DIDs : Provides(e)) \/ \E m : Mounts(m)
  BY <1>5 DEF Wipes, Identifies, Provides, Mounts, keyVars
<1> QED  BY <1>1, <1>3, <1>4, <1>5 DEF Quiet

\* What of a down is done in earnest is not the rest of one that failed.
LEMMA InEarnest ==
  ASSUME NEW op \in DownCalls, At(op), ~Skipping
  PROVE  ~Stuck /\ ~Abandoned
BY DEF Skipping, OfDown, Stuck, Abandoned, DownCalls

\* A setup that is stuck stays so until it fails.
LEMMA StuckStep ==
  ASSUME SpecInv, TypeInv, TodoInv, Steps, Onwards, Stuck
  PROVE  Stuck'
<1>1. /\ runtime' = runtime /\ DIDs' = DIDs /\ phase' = phase /\ downFailed'
      /\ runtime = "compose" /\ phase = "setup"
  BY TodoStep, Same DEF Onwards, Stuck
<1>2. ASSUME NEW d \in DIDs PROVE docs'[d] # 0 /\ Ahead("issue", d)'
  <2>1. docs[d] # 0 /\ Ahead("issue", d)
    BY DEF Stuck
  <2>2. ~Removes
    BY InEarnest DEF Removes, Onward, DownCalls
  <2>3. Ahead("issue", d)'
    BY <2>1 DEF Onwards, Issues
  <2> QED  BY <2>1, <2>2, <2>3, DocMoves
<1> QED  BY <1>1, <1>2 DEF Stuck

\* What an earlier stack holds it holds until it is removed, and what there is not
\* does not come.
LEMMA LeakStep ==
  ASSUME Inv, Steps
  PROVE  LeakInv'
<1> USE DEF Inv
<1>0. /\ UNCHANGED specVars /\ Services' = Services /\ runtime' = runtime /\ DIDs' = DIDs /\ NATS' = NATS
      /\ up' \in [Services -> States]
  BY TodoStep, Same, TypeStep DEF NATS, TypeInv
<1> SUFFICES ASSUME runtime = "compose", phase' = "setup", Ahead("remove", NATS)'
             PROVE  (\A s \in Services : up'[s] = "down") \/ (\A d \in DIDs : docs'[d] # 0)
  BY <1>0 DEF LeakInv
<1>1. Onwards /\ phase = "setup" /\ Ahead("remove", NATS)
  BY CallMoves, FailingIs, HandOverIs, EndIs, RestartIs, StopAndLeaveIs DEF Onwards
<1>2. CASE \A s \in Services : up[s] = "down"
  <2>1. ~Up
    <3> SUFFICES ASSUME Up PROVE FALSE
      OBVIOUS
    <3>1. At("up") /\ Arg = NATS
      BY UpIs DEF Onward
    <3> QED  BY <1>1, <3>1, LastOrder, DoneBefore
  <2>2. \A s \in Services : ~StartsOne(s)
    BY <1>1, DueIs DEF StartsOne
  <2>3. \A s \in Services : up'[s] \in States
    BY <1>0
  <2>4. \A s \in Services : up'[s] = "down"
    BY <1>2, <2>1, <2>2, <2>3, ServiceMoves DEF Moves, States
  <2> QED  BY <2>4
<1>3. CASE \A d \in DIDs : docs[d] # 0
  BY <1>3, DocMoves DEF Removes
<1> QED  BY <1>1, <1>2, <1>3 DEF LeakInv

-----------------------------------------------------------------------------
(***************************************************************************)
(* The services.                                                           *)
(***************************************************************************)
\* A scenario that runs and a test that has ended have nothing left to do.
LEMMA NoneAheadIn ==
  ASSUME TodoInv, phase \in {"scenario", "ended"}
  PROVE  \A op, arg : ~Ahead(op, arg)
BY AheadIsDue DEF Due

\* Nobody comes up while the harness counts on its being down.
LEMMA DownStep ==
  ASSUME Inv, Steps
  PROVE  DownInv'
<1> USE DEF Inv
<1>0. UNCHANGED specVars /\ Services' = Services /\ FirstNode' = FirstNode
  BY TodoStep, Same
<1> DEFINE D(s) == Ahead("start", s) \/ Ahead("up", NATS) \/ (phase = "cleanup" /\ Busy) \/ (phase = "stopped" /\ s \in FirstNode)
<1> SUFFICES ASSUME NEW s \in Services, ~Ahead("gone", s)', D(s)' PROVE up'[s] = "down" \/ Stuck' \/ Abandoned'
  BY <1>0 DEF DownInv
<1>1. CASE Onwards
  <2>1. D(s)
    BY <1>0, <1>1 DEF Onwards, Busy
  <2>0. Abandoned => Abandoned'
    BY <1>0, <1>1, Same DEF Onwards, Abandoned
  <2>2. CASE Ahead("gone", s)
    <3>1. (up[s] = "down" \/ Skipping) /\ up' = up /\ At("gone") /\ Arg = s
      BY <1>1, <2>2 DEF Onwards
    <3>2. CASE Skipping /\ phase = "cleanup"
      BY <1>0, <1>1, <3>2, Same DEF Onwards, Skipping, OfDown, Abandoned
    <3>3. CASE Skipping /\ phase # "cleanup"
      <4>1. phase = "setup" /\ runtime = "compose" /\ downFailed /\ How = "whole"
        BY <3>3, HowIs DEF Skipping, OfDown
      <4>2. Ahead("remove", NATS)
        <5>1. Due(phase, "remove", NATS)
          BY <4>1 DEF Due, DueInSetup
        <5> QED  BY <2>2, <4>1, <5>1, ServiceOrder, StillAhead
      <4>3. CASE \A t \in Services : up[t] = "down"
        BY <3>1, <4>3
      <4>4. CASE \A d \in DIDs : docs[d] # 0
        <5>1. ASSUME NEW d \in DIDs PROVE docs[d] # 0 /\ Ahead("issue", d)
          <6>1. d = <<d[1], d[2]>> /\ d[2] \in Words
            BY OrgFacts
          <6>2. Sooner("remove", NATS, "issue", <<d[1], d[2]>>)
            BY <6>1, CallOrder
          <6>3. Due(phase, "issue", d)
            BY <4>1 DEF Due, DueInSetup
          <6> QED  BY <4>2, <4>4, <6>1, <6>2, <6>3, StillAhead
        <5>2. Stuck
          BY <4>1, <5>1 DEF Stuck
        <5> QED  BY <1>1, <5>2, StuckStep
      <4> QED  BY <4>1, <4>2, <4>3, <4>4 DEF LeakInv
    <3> QED  BY <3>1, <3>2, <3>3
  <2>3. CASE ~Ahead("gone", s)
    <3>1. up[s] = "down" \/ Stuck \/ Abandoned
      BY <2>1, <2>3 DEF DownInv
    <3>5. CASE Stuck
      BY <1>1, <3>5, StuckStep
    <3>2. ~StartsOne(s)
      <4> SUFFICES ASSUME StartsOne(s) PROVE FALSE
        OBVIOUS
      <4>1. ~Ahead("start", s)' /\ (phase = "restart" \/ (phase = "setup" /\ runtime = "process"))
        BY DueIs DEF StartsOne
      <4>2. Ahead("up", NATS)
        BY <1>0, <1>1, <4>1 DEF Onwards
      <4> QED  BY <4>1, <4>2, AheadIsDue, DueIs
    <3>3. ~Up
      <4> SUFFICES ASSUME Up PROVE FALSE
        OBVIOUS
      <4>1. ~Ahead("up", NATS)' /\ phase = "setup" /\ runtime = "compose"
        BY UpIs
      <4>2. Ahead("start", s)
        BY <1>0, <1>1, <4>1 DEF Onwards
      <4> QED  BY <4>1, <4>2, AheadIsDue, DueIs
    <3>4. up'[s] \in States
      BY <1>0, TypeStep DEF TypeInv
    <3>6. CASE up[s] = "down"
      BY <3>2, <3>3, <3>4, <3>6, ServiceMoves DEF Moves, States
    <3> QED  BY <2>0, <3>1, <3>5, <3>6
  <2> QED  BY <2>2, <2>3
<1>2. CASE Failing
  <2>1. phase' = "cleanup" /\ ((\A op, arg : Ahead(op, arg)' <=> DueInCleanup(op, arg)) \/ ~Busy')
    BY <1>2, FailingIs
  <2>2. D(s)' => Busy'
    BY <2>1 DEF Busy
  <2>3. DueInCleanup("gone", s)
    BY DEF DueInCleanup
  <2> QED  BY <2>1, <2>2, <2>3
<1>3. CASE HandOver
  BY <1>0, <1>3, HandOverIs
<1>4. CASE End
  BY <1>4, EndIs
<1>5. CASE Restart
  BY <1>0, <1>5, RestartIs DEF DueInRestart
<1>6. CASE StopAndLeave
  BY <1>0, <1>6, StopAndLeaveIs
<1> QED  BY CallMoves, <1>1, <1>2, <1>3, <1>4, <1>5, <1>6

\* While a scenario runs, everybody answers.
LEMMA ScenarioAnswers ==
  ASSUME TodoInv, ReadyInv, phase = "scenario"
  PROVE  \A s \in Services : Answers(s)
BY NoneAheadIn DEF ReadyInv, Serving

\* When the harness hands over, everybody answers.
LEMMA SetupAnswers ==
  ASSUME SpecInv, TodoInv, PortInv, ReadyInv, PolicyInv, At("return")
  PROVE  \A s \in Services : Answers(s)
<1> SUFFICES ASSUME NEW s \in Services PROVE Answers(s)
  OBVIOUS
<1>1. phase \in {"setup", "restart"} /\ Arg = First
  BY AtIs, DueIs
<1>2. ~Ahead("up", NATS) /\ \A t \in Services : ~Ahead("ready", t)
  BY <1>1, ServiceOrder, LastOrder, DoneBefore
<1>3. \A t \in Services : ~(t = PDP /\ phase = "setup" /\ runtime = "compose") => Answers(t)
  BY <1>1, <1>2 DEF ReadyInv, Serving
<1>4. CASE s = PDP /\ phase = "setup" /\ runtime = "compose"
  <2>1. Network(First) \in Services /\ Network(First) # PDP /\ First \in Orgs
    BY OrgFacts, NamesDiffer
  <2>2. up[Network(First)] = "up"
    BY <1>3, <1>4, <2>1 DEF Answers, PortInv
  <2>3. ~Stuck
    <3>1. PICK d \in DIDs : d = <<First, "pipeline">>
      BY <2>1 DEF DIDs, Identity
    <3>2. Sooner("issue", d, "return", First)
      BY <3>1, CallOrder DEF Words
    <3> QED  BY <1>1, <3>2, DoneBefore DEF Stuck
  <2> QED  BY <1>2, <1>4, <2>1, <2>2, <2>3 DEF PolicyInv, Answers
<1> QED  BY <1>3, <1>4

\* Nobody who was waited for stops answering before the harness stops him.
LEMMA ReadyStep ==
  ASSUME Inv, Steps
  PROVE  ReadyInv'
<1> USE DEF Inv
<1>0. UNCHANGED specVars /\ Services' = Services /\ runtime' = runtime /\ PDP' = PDP
  BY TodoStep, Same DEF PDP
<1> SUFFICES ASSUME phase' \in Serving, NEW s \in Services, ~(s = PDP /\ phase' = "setup" /\ runtime = "compose")
             PROVE  Ahead("ready", s)' \/ Answers(s)'
  BY <1>0 DEF ReadyInv, Serving
<1>1. CASE Onwards
  <2>1. phase' = phase
    BY <1>1 DEF Onwards
  <2>2. CASE Ahead("ready", s)
    BY <1>1, <2>2, AnswersSame DEF Onwards
  <2>3. CASE Answers(s)
    <3> SUFFICES ASSUME ~Answers(s)' PROVE Ahead("ready", s)'
      OBVIOUS
    <3>1. PICK op \in {"stop", "start"} : At(op) /\ Arg = s
      BY <2>3, AnswersMoves DEF StopsOne, StartsOne, Onward
    <3>2. Ahead(op, s) /\ Due(phase, op, s)
      BY <3>1, AtIs
    <3>3. Due(phase, "ready", s)
      <4>1. \/ phase = "setup"
            \/ phase = "restart" /\ s \in FirstNode
        BY <2>1, <3>2, DueIs DEF Serving
      <4> QED  BY <2>1, <4>1 DEF Due, DueInSetup, DueInRestart
    <3>4. Ahead("ready", s)
      BY <3>1, <3>2, <3>3, ServiceOrder, StillAhead
    <3> QED  BY <1>1, <3>1, <3>4 DEF Onwards, At
  <2> QED  BY <2>1, <2>2, <2>3 DEF ReadyInv
<1>2. CASE Failing \/ End \/ StopAndLeave
  BY <1>2, FailingIs, EndIs, StopAndLeaveIs DEF Serving
<1>3. CASE HandOver
  BY <1>3, HandOverIs, SetupAnswers, AnswersSame
<1>4. CASE Restart
  BY <1>4, RestartIs, ScenarioAnswers, AnswersSame
<1> QED  BY CallMoves, <1>1, <1>2, <1>3, <1>4

\* The PDP was brought up with the networks, which wait for it.
LEMMA PolicyStep ==
  ASSUME Inv, Steps
  PROVE  PolicyInv'
<1> USE DEF Inv
<1>0. UNCHANGED specVars /\ Orgs' = Orgs /\ runtime' = runtime /\ PortInv' /\ PDP \in Services
  BY TodoStep, Same, PortStep, OrgFacts
<1> SUFFICES ASSUME phase' = "setup", runtime = "compose", ~Ahead("up", NATS)', ~Stuck', NEW o \in Orgs, up'[Network(o)] = "up"
             PROVE  up'[PDP] = "up"
  BY <1>0 DEF PolicyInv, Network, PDP, NATS
<1>1. Onwards /\ phase = "setup"
  BY CallMoves, FailingIs, HandOverIs, EndIs, RestartIs, StopAndLeaveIs DEF Onwards
<1>2. How = "whole" /\ Network(o) \in Services /\ ~Stuck
  BY <1>1, HowIs, OrgFacts, StuckStep
<1>3. CASE Ahead("up", NATS)
  <2>1. Up
    BY <1>1, <1>3 DEF Onwards
  <2>2. At("up") /\ Arg = NATS
    BY <2>1, UpIs DEF Onward
  <2>3. up[Network(o)] = "down"
    BY <1>1, <1>2, <1>3, <2>2, ServiceOrder, DoneBefore DEF DownInv, Abandoned
  <2> QED  BY <1>2, <2>1, <2>3, UpIs
<1>4. CASE ~Ahead("up", NATS)
  <2>1. ~StopsOne(PDP)
    <3> SUFFICES ASSUME StopsOne(PDP) PROVE FALSE
      OBVIOUS
    <3>1. Ahead("stop", PDP)
      BY AtIs DEF StopsOne, Onward
    <3>2. Due(phase, "up", NATS)
      BY <1>1 DEF Due, DueInSetup
    <3> QED  BY <1>0, <1>2, <1>4, <3>1, <3>2, ServiceOrder, StillAhead
  <2>2. ~StartsOne(PDP)
    BY <1>1, DueIs DEF StartsOne
  <2>3. Answers(PDP)
    <3>1. CASE up[Network(o)] = "up"
      BY <1>0, <1>1, <1>2, <1>4, <3>1 DEF PolicyInv, Answers
    <3>2. CASE Running(BecomeReady(Network(o)))
      BY <3>2, NamesDiffer DEF Running, BecomeReady, Bootable, Serves
    <3>3. ~Up
      <4> SUFFICES ASSUME Up PROVE FALSE
        OBVIOUS
      <4>1. At("up") /\ Arg = NATS
        BY UpIs DEF Onward
      <4> QED  BY <1>4, <4>1, AtIs
    <3> QED  BY <1>2, <3>1, <3>2, <3>3, ServiceMoves DEF Moves
  <2>4. Answers(PDP)'
    BY <1>0, <2>1, <2>2, <2>3, AnswersMoves
  <2> QED  BY <1>0, <2>4 DEF Answers, PortInv
<1> QED  BY <1>3, <1>4

\* Nobody else is touched by a restart.
LEMMA KeepStep ==
  ASSUME Inv, Steps
  PROVE  KeepInv'
<1> USE DEF Inv
<1>0. UNCHANGED specVars /\ Services' = Services /\ FirstNode' = FirstNode
  BY TodoStep, Same
<1> SUFFICES ASSUME phase' \in {"restart", "stopped"}, NEW s \in Services, Ahead("stop", s)' \/ s \notin FirstNode
             PROVE  Answers(s)'
  BY <1>0 DEF KeepInv
<1>1. CASE Onwards
  <2>1. phase \in {"restart", "stopped"} /\ (Ahead("stop", s) \/ s \notin FirstNode)
    BY <1>1 DEF Onwards
  <2>2. Answers(s)
    BY <2>1 DEF KeepInv
  <2>3. ~StopsOne(s)
    <3> SUFFICES ASSUME StopsOne(s) PROVE FALSE
      OBVIOUS
    <3>1. s \in FirstNode
      BY <2>1, DueIs DEF StopsOne
    <3>2. s \notin Infra
      BY <3>1, NamesDiffer DEF FirstNode, Infra
    <3> QED  BY <3>1, <3>2 DEF StopsOne
  <2>4. ~StartsOne(s)
    <3> SUFFICES ASSUME StartsOne(s) PROVE FALSE
      OBVIOUS
    <3>1. s \in FirstNode /\ At("start") /\ Arg = s
      BY <2>1, DueIs DEF StartsOne, Onward
    <3> QED  BY <2>1, <3>1, ServiceOrder, DoneBefore
  <2> QED  BY <2>2, <2>3, <2>4, AnswersMoves
<1>2. CASE Failing \/ HandOver \/ End
  BY <1>2, FailingIs, HandOverIs, EndIs
<1>3. CASE Restart \/ StopAndLeave
  BY <1>3, RestartIs, StopAndLeaveIs, ScenarioAnswers, AnswersSame
<1> QED  BY CallMoves, <1>1, <1>2, <1>3

-----------------------------------------------------------------------------
\* A stranger who has a port keeps it.
LEMMA MimicMoves ==
  ASSUME SpecInv, TypeInv, TodoInv, PortInv, Steps
  PROVE  /\ ~mimic' => ~mimic
         /\ taken \subseteq taken' /\ (mimic => mimic' /\ taken' = taken)
<1>1. CASE taken' = taken /\ mimic' = mimic
  BY <1>1
<1>2. CASE \E s \in Services : LosesPort(s)
  BY <1>2 DEF LosesPort, PortInv
<1> QED  BY <1>1, <1>2, PortMoves

\* A subscription ends with its pipeline only.
LEMMA GateStep ==
  ASSUME Inv, Steps
  PROVE  GateInv'
<1> USE DEF Inv
<1>0. UNCHANGED specVars /\ gates' = gates /\ gates \subseteq Loops
  BY TodoStep, Same DEF SpecInv
<1> SUFFICES ASSUME ~mimic', phase' \in Serving, NEW l \in gates
             PROVE  Ahead("subscribed", l)' \/ (l \in subscribed' /\ up'[Pipeline(l[1])] = "up")
  BY <1>0 DEF GateInv, Serving, Pipeline
<1> DEFINE P == Pipeline(l[1])
<1>1. /\ l = <<l[1], l[2]>> /\ l[2] \in Words /\ l[1] \in Orgs /\ P \in Services /\ P # PDP
      /\ l[1] # First => P \notin FirstNode
  BY <1>0, OrgFacts, NamesDiffer
<1>2. ~mimic
  BY MimicMoves
<1>3. \A op \in {"stop", "start", "ready"} : Sooner(op, P, "subscribed", l)
  <2>1. \A op \in {"stop", "start", "ready"} : Sooner(op, P, "subscribed", <<l[1], l[2]>>)
    BY <1>1, OrgOrder
  <2> QED  BY <1>1, <2>1
<1>4. Sooner("subscribed", l, "return", First)
  <2>1. Sooner("subscribed", <<l[1], l[2]>>, "return", First)
    BY <1>1, CallOrder
  <2> QED  BY <1>1, <2>1
<1> HIDE DEF P
<1>5. CASE Onwards
  <2>1. phase \in Serving
    BY <1>5 DEF Onwards
  <2>2. CASE Ahead("subscribed", l) /\ ~Ahead("subscribed", l)'
    <3>1. At("subscribed") /\ Arg = l /\ l \in subscribed /\ UNCHANGED processVars
      BY <1>5, <2>2 DEF Onwards
    <3>2. ~Ahead("ready", P)
      BY <1>3, <3>1, DoneBefore
    <3>3. up[P] = "up"
      BY <1>1, <1>2, <2>1, <3>2 DEF ReadyInv, Answers
    <3> QED  BY <3>1, <3>3 DEF processVars, P
  <2>3. CASE ~Ahead("subscribed", l)
    <3>1. l \in subscribed /\ up[P] = "up"
      BY <1>2, <2>1, <2>3 DEF GateInv, P
    <3>2. Answers(P)'
      <4> SUFFICES ASSUME ~Answers(P)' PROVE FALSE
        OBVIOUS
      <4>1. PICK op \in {"stop", "start"} : At(op) /\ Arg = P
        BY <1>1, <3>1, AnswersMoves DEF StopsOne, StartsOne, Onward, Answers
      <4>2. Ahead(op, P) /\ Due(phase, op, P)
        BY <4>1, AtIs
      <4>3. Due(phase, "subscribed", l)
        <5>1. phase = "setup" \/ (phase = "restart" /\ P \in FirstNode)
          BY <2>1, <4>2, DueIs DEF Serving
        <5> QED  BY <1>1, <5>1 DEF Due, DueInSetup, DueInRestart
      <4> QED  BY <1>3, <2>3, <4>2, <4>3, StillAhead
    <3>3. up'[P] = "up"
      BY <3>2 DEF Answers, P, Pipeline
    <3>4. l \in subscribed'
      BY <3>1, <3>3, OtherMoves DEF P
    <3> QED  BY <3>3, <3>4 DEF P
  <2> QED  BY <2>2, <2>3
<1>6. CASE Failing \/ End \/ StopAndLeave
  BY <1>6, FailingIs, EndIs, StopAndLeaveIs DEF Serving
<1>7. CASE HandOver
  <2>1. ~Ahead("subscribed", l) /\ phase \in Serving
    BY <1>4, <1>7, HandOverIs, DoneBefore DEF Serving
  <2> QED  BY <1>2, <1>7, <2>1, HandOverIs DEF GateInv, processVars, P
<1>8. CASE Restart
  <2>1. ~Ahead("subscribed", l) /\ phase \in Serving
    BY <1>8, RestartIs, NoneAheadIn DEF Serving
  <2> QED  BY <1>2, <1>8, <2>1, RestartIs DEF GateInv, processVars, P
<1> QED  BY CallMoves, <1>5, <1>6, <1>7, <1>8

-----------------------------------------------------------------------------
(***************************************************************************)
(* The keys, the documents and the files.                                  *)
(***************************************************************************)
\* A key is provisioned together with its public half, and the wipe came before.
LEMMA KeyStep ==
  ASSUME Inv, Steps
  PROVE  KeyInv'
<1> USE DEF Inv
<1>0. UNCHANGED specVars /\ DIDs' = DIDs
  BY TodoStep, Same
<1> SUFFICES ASSUME phase' = "setup", NEW d \in DIDs, ~Ahead("provision", d)'
             PROVE  keys'[d] = extKeys'[d] /\ keys'[d] # 0
  BY <1>0 DEF KeyInv
<1>1. Onwards /\ phase = "setup"
  BY CallMoves, FailingIs, HandOverIs, EndIs, RestartIs, StopAndLeaveIs DEF Onwards
<1>2. /\ keys \in [DIDs -> Nat] /\ extKeys \in [DIDs -> Nat] /\ minted \in Nat
      /\ d = <<d[1], d[2]>> /\ d[2] \in Words
  BY OrgFacts DEF TypeInv
<1>3. CASE Ahead("provision", d)
  <2>1. Provides(d)
    BY <1>1, <1>3 DEF Onwards
  <2> QED  BY <1>2, <2>1 DEF Provides
<1>4. CASE ~Ahead("provision", d)
  <2>1. keys[d] = extKeys[d] /\ keys[d] # 0
    BY <1>1, <1>4 DEF KeyInv
  <2>2. CASE UNCHANGED <<keys, extKeys>>
    BY <2>1, <2>2
  <2>3. ~Wipes
    <3> SUFFICES ASSUME Wipes PROVE FALSE
      OBVIOUS
    <3>1. At("wipe") /\ Arg = NATS /\ Ahead("wipe", NATS)
      BY AtIs, DueIs DEF Wipes, Onward
    <3>2. Sooner("wipe", NATS, "provision", d)
      <4>1. Sooner("wipe", NATS, "provision", <<d[1], d[2]>>)
        BY <1>2, CallOrder
      <4> QED  BY <1>2, <4>1
    <3>3. Due(phase, "provision", d)
      BY <1>1 DEF Due, DueInSetup
    <3> QED  BY <1>4, <3>1, <3>2, <3>3, StillAhead
  <2>4. CASE \E c \in DIDs : Provides(c)
    <3>1. PICK c \in DIDs : Provides(c)
      BY <2>4
    <3> QED  BY <1>2, <2>1, <3>1 DEF Provides
  <2>5. Identifies \/ Removes \/ (\E c \in DIDs : Issues(c)) \/ (\E m : Mounts(m)) \/ (\E o \in Orgs : Owns(o))
        => UNCHANGED <<keys, extKeys>>
    BY DEF Identifies, Removes, Issues, Mounts, Owns, keyVars
  <2> QED  BY OtherMoves, <2>2, <2>3, <2>4, <2>5 DEF Quiet
<1> QED  BY <1>3, <1>4

\* Nothing removes a document after it was issued, or changes the key under it.
LEMMA DocStep ==
  ASSUME Inv, Steps
  PROVE  DocInv'
<1> USE DEF Inv
<1>0. UNCHANGED specVars /\ DIDs' = DIDs /\ First' = First /\ nodeIdentity' = nodeIdentity
  BY TodoStep, Same
<1> DEFINE Known(d) == docs[d] = keys[d] /\ keys[d] # 0
           Fooled(d) == mimic /\ Network(d[1]) \in taken
<1> SUFFICES ASSUME phase' \in Serving \cup {"stopped"}
             PROVE  /\ \A d \in DIDs : Ahead("issue", d)' \/ Known(d)' \/ Fooled(d)'
                    /\ Ahead("identity", First)' \/ nodeIdentity \in Identity
  BY <1>0 DEF DocInv, Serving, Network
<1>1. /\ keys \in [DIDs -> Nat] /\ extKeys \in [DIDs -> Nat] /\ docs \in [Documented -> Nat] /\ minted \in Nat
      /\ \A d \in DIDs : /\ d = <<d[1], d[2]>> /\ d[2] \in Words /\ d[2] \in Identity
                         /\ d \in Documented /\ d[1] \in Orgs /\ Network(d[1]) \in Services
  BY OrgFacts DEF TypeInv
<1>2. \A d : Fooled(d) => Fooled(d)'
  BY MimicMoves DEF Network
<1>3. \A d \in DIDs : /\ Sooner("wipe", NATS, "issue", d) /\ Sooner("remove", NATS, "issue", d)
                      /\ Sooner("provision", d, "issue", d) /\ Sooner("ready", Network(d[1]), "issue", d)
                      /\ Sooner("issue", d, "return", First)
  <2> TAKE d \in DIDs
  <2>1. /\ Sooner("wipe", NATS, "issue", <<d[1], d[2]>>) /\ Sooner("remove", NATS, "issue", <<d[1], d[2]>>)
        /\ Sooner("issue", <<d[1], d[2]>>, "return", First)
    BY <1>1, CallOrder
  <2>2. Sooner("provision", <<d[1], d[2]>>, "issue", <<d[1], d[2]>>) /\ Sooner("ready", Network(d[1]), "issue", <<d[1], d[2]>>)
    BY <1>1, OrgOrder
  <2> QED  BY <1>1, <2>1, <2>2
<1>4. CASE Onwards
  <2>0. phase \in Serving \cup {"stopped"}
    BY <1>4 DEF Onwards
  <2>1. Ahead("identity", First)' \/ nodeIdentity \in Identity
    <3>1. PICK f : f = First
      OBVIOUS
    <3>2. Ahead("identity", f)' \/ nodeIdentity \in Identity
      BY <1>4, <2>0, <3>1 DEF Onwards, DocInv
    <3> QED  BY <1>0, <3>1, <3>2
  <2>2. ASSUME NEW d \in DIDs, ~Ahead("issue", d)', ~Fooled(d)'
        PROVE  Known(d)'
    <3>1. ~Fooled(d)
      BY <1>2, <2>2
    <3>2. \A op, arg : op # "issue" /\ At(op) /\ Arg = arg /\ Sooner(op, arg, "issue", d) => phase # "setup"
      <4> SUFFICES ASSUME NEW op, NEW arg, op # "issue", At(op), Arg = arg, Sooner(op, arg, "issue", d), phase = "setup"
                   PROVE  FALSE
        OBVIOUS
      <4>1. Ahead(op, arg)
        BY AtIs
      <4>2. Due(phase, "issue", d)
        BY DEF Due, DueInSetup
      <4>3. Ahead("issue", d)
        BY <4>1, <4>2, StillAhead
      <4> QED  BY <1>4, <2>2, <4>3 DEF Onwards, At
    <3>3. CASE Ahead("issue", d)
      <4>1. Issues(d) /\ UNCHANGED processVars /\ At("issue") /\ Arg = d /\ phase = "setup"
        BY <1>4, <2>2, <3>3, AheadIsDue, DueIs DEF Onwards
      <4>2. ~Ahead("provision", d) /\ ~Ahead("ready", Network(d[1]))
        BY <1>3, <4>1, DoneBefore
      <4>3. keys[d] = extKeys[d] /\ keys[d] # 0
        BY <4>1, <4>2 DEF KeyInv
      <4>4. up[Network(d[1])] = "up"
        BY <1>1, <3>1, <4>1, <4>2, NamesDiffer DEF ReadyInv, Serving, Answers
      <4> QED  BY <1>1, <4>1, <4>3, <4>4 DEF Issues
    <3>4. CASE Known(d)
      <4>1. CASE UNCHANGED <<docs, keys>>
        BY <3>4, <4>1
      <4>2. ~Wipes
        <5> SUFFICES ASSUME Wipes PROVE FALSE
          OBVIOUS
        <5>1. At("wipe") /\ Arg = NATS /\ phase = "setup"
          BY AtIs, DueIs DEF Wipes, Onward
        <5> QED  BY <1>3, <3>2, <5>1
      <4>3. ~Removes
        <5> SUFFICES ASSUME Removes PROVE FALSE
          OBVIOUS
        <5>1. At("remove") /\ Arg = NATS /\ phase = "setup"
          BY <2>0, AtIs, DueIs DEF Removes, Onward, Serving
        <5> QED  BY <1>3, <3>2, <5>1
      <4>4. CASE \E c \in DIDs : Provides(c)
        <5>1. PICK c \in DIDs : Provides(c)
          BY <4>4
        <5>2. At("provision") /\ Arg = c /\ phase = "setup"
          BY <5>1, AtIs, DueIs DEF Provides, Onward
        <5>3. c # d
          BY <1>3, <3>2, <5>2
        <5> QED  BY <1>1, <3>4, <5>1, <5>3 DEF Provides
      <4>5. CASE \E c \in DIDs : Issues(c)
        <5>1. PICK c \in DIDs : Issues(c)
          BY <4>5
        <5>2. CASE c # d
          BY <1>1, <3>4, <5>1, <5>2 DEF Issues
        <5>3. CASE c = d
          <6>1. At("issue") /\ Arg = d /\ phase = "setup"
            BY <5>1, <5>3, AtIs, DueIs DEF Issues, Onward
          <6>2. keys[d] = extKeys[d] /\ keys[d] # 0
            BY <1>3, <6>1, DoneBefore DEF KeyInv
          <6> QED  BY <1>1, <3>4, <5>1, <5>3, <6>2 DEF Issues
        <5> QED  BY <5>2, <5>3
      <4>6. CASE \E o \in Orgs : Owns(o)
        <5>1. PICK o \in Orgs : Owns(o)
          BY <4>6
        <5>2. d # <<o, "owner">>
          BY <1>1 DEF Identity
        <5> QED  BY <1>1, <3>4, <5>1, <5>2 DEF Owns
      <4>7. Identifies \/ (\E m : Mounts(m)) => UNCHANGED <<docs, keys>>
        BY DEF Identifies, Mounts, keyVars
      <4> QED  BY OtherMoves, <4>1, <4>2, <4>3, <4>4, <4>5, <4>6, <4>7 DEF Quiet
    <3> QED  BY <2>0, <3>1, <3>3, <3>4 DEF DocInv
  <2> QED  BY <2>1, <2>2
<1>5. ASSUME UNCHANGED <<keyVars, processVars>>, phase \in Serving \cup {"stopped"},
             ~Ahead("identity", First), \A d \in DIDs : ~Ahead("issue", d)
      PROVE  /\ \A d \in DIDs : Ahead("issue", d)' \/ Known(d)' \/ Fooled(d)'
             /\ Ahead("identity", First)' \/ nodeIdentity \in Identity
  BY <1>2, <1>5 DEF DocInv, keyVars
<1>6. CASE Failing \/ End
  BY <1>6, FailingIs, EndIs DEF Serving
<1>7. CASE HandOver
  <2>1. ~Ahead("identity", First) /\ \A d \in DIDs : ~Ahead("issue", d)
    BY <1>3, <1>7, HandOverIs, LastOrder, DoneBefore
  <2> QED  BY <1>5, <1>7, <2>1, HandOverIs DEF Serving
<1>8. CASE Restart \/ StopAndLeave
  <2>1. phase = "scenario" /\ UNCHANGED <<keyVars, processVars>>
    BY <1>8, RestartIs, StopAndLeaveIs
  <2> QED  BY <1>5, <2>1, NoneAheadIn DEF Serving
<1> QED  BY CallMoves, <1>4, <1>6, <1>7, <1>8

\* A port changes only when its network is started.
LEMMA BaseStep ==
  ASSUME Inv, Steps
  PROVE  BaseInv'
<1> USE DEF Inv
<1>0. UNCHANGED specVars /\ Orgs' = Orgs /\ First' = First /\ First \in Orgs
  BY TodoStep, Same, OrgFacts
<1>1. base \in [Orgs -> Nat] /\ port \in [Orgs -> Nat]
  BY DEF TypeInv
<1>2. CASE Onwards
  <2>1. phase' = phase /\ base' = base
    BY <1>2 DEF Onwards
  <2>2. phase = "scenario" => port' = port
    BY OtherMoves, UpIs, DueIs DEF StartsOne
  <2>3. ASSUME phase = "restart", NEW o \in Orgs, o # First PROVE port'[o] = port[o]
    <3>1. ~Up
      BY <2>3, UpIs
    <3>2. ASSUME NEW s \in Services, StartsOne(s) PROVE port'[o] = port[o]
      <4>1. s \in FirstNode
        BY <2>3, <3>2, DueIs DEF StartsOne
      <4>2. Network(o) # s
        BY <2>3, <4>1, NamesDiffer DEF FirstNode
      <4> QED  BY <3>2, <4>2 DEF StartsOne
    <3> QED  BY OtherMoves, <3>1, <3>2
  <2> QED  BY <1>0, <2>1, <2>2, <2>3 DEF BaseInv
<1>3. CASE Failing \/ End \/ StopAndLeave
  BY <1>3, FailingIs, EndIs, StopAndLeaveIs DEF BaseInv
<1>4. CASE HandOver
  <2>1. phase' = "scenario" /\ port' = port /\ phase \in {"setup", "restart"}
        /\ base' = IF phase = "setup" THEN port ELSE [base EXCEPT ![First] = port[First]]
    BY <1>4, HandOverIs DEF processVars
  <2>2. base' = port
    BY <1>0, <1>1, <2>1 DEF BaseInv
  <2> QED  BY <2>1, <2>2 DEF BaseInv
<1>5. CASE Restart
  BY <1>0, <1>5, RestartIs DEF BaseInv, processVars
<1> QED  BY CallMoves, <1>2, <1>3, <1>4, <1>5

\* What was written stays: the wipe came first.
LEMMA MountStep ==
  ASSUME Inv, Steps
  PROVE  MountInv'
<1> USE DEF Inv
<1>0. UNCHANGED specVars /\ MountPoints' = MountPoints /\ runtime' = runtime
  BY TodoStep, Same
<1> SUFFICES ASSUME runtime = "compose", phase' \in Serving, NEW m \in MountPoints, ~Ahead("mount", m)'
             PROVE  m \in mounts'
  BY <1>0 DEF MountInv, Serving
<1>1. CASE Onwards
  <2>1. phase \in Serving
    BY <1>1 DEF Onwards
  <2>2. CASE Ahead("mount", m)
    BY <1>1, <2>2 DEF Onwards, Mounts
  <2>3. CASE ~Ahead("mount", m)
    <3>1. m \in mounts
      BY <2>1, <2>3 DEF MountInv
    <3>2. ~Wipes
      <4> SUFFICES ASSUME Wipes PROVE FALSE
        OBVIOUS
      <4>1. At("wipe") /\ Ahead("wipe", NATS) /\ phase = "setup"
        BY AtIs, DueIs DEF Wipes, Onward
      <4>2. Due(phase, "mount", m)
        BY <4>1 DEF Due, DueInSetup, MountPoints
      <4> QED  BY <2>3, <4>1, <4>2, LastOrder, StillAhead
    <3>3. \A d : Provides(d) => m \in mounts'
      BY <3>1 DEF Provides, MountPoints
    <3>4. Identifies \/ Removes \/ (\E c \in DIDs : Issues(c)) \/ (\E x : Mounts(x)) \/ (\E o \in Orgs : Owns(o))
          => m \in mounts'
      BY <3>1 DEF Identifies, Removes, Issues, Mounts, Owns, keyVars
    <3> QED  BY OtherMoves, <3>1, <3>2, <3>3, <3>4 DEF Quiet
  <2> QED  BY <2>2, <2>3
<1>2. CASE Failing \/ End \/ StopAndLeave
  BY <1>2, FailingIs, EndIs, StopAndLeaveIs DEF Serving
<1>3. CASE HandOver
  <2>1. ~Ahead("mount", m) /\ phase \in Serving /\ mounts' = mounts
    BY <1>3, HandOverIs, LastOrder, DoneBefore DEF Serving, keyVars
  <2> QED  BY <2>1 DEF MountInv
<1>4. CASE Restart
  <2>1. ~Ahead("mount", m) /\ phase \in Serving /\ mounts' = mounts
    BY <1>4, RestartIs, NoneAheadIn DEF Serving, keyVars
  <2> QED  BY <2>1 DEF MountInv
<1> QED  BY CallMoves, <1>1, <1>2, <1>3, <1>4

-----------------------------------------------------------------------------
(***************************************************************************)
(* What is booted, drained and shipped.                                    *)
(***************************************************************************)
\* Only what is down is started.
LEMMA StartsWhatIsDown ==
  ASSUME SpecInv, TodoInv, DownInv, NEW s \in Services, StartsOne(s)
  PROVE  up[s] = "down"
<1>1. At("start") /\ Arg = s
  BY DEF StartsOne, Onward
<1>2. Ahead("start", s) /\ ~Ahead("gone", s)
  BY <1>1, AtIs, ServiceOrder, DoneBefore
<1>3. phase = "restart" \/ (phase = "setup" /\ runtime = "process")
  BY DueIs DEF StartsOne
<1> QED  BY <1>2, <1>3 DEF DownInv, Stuck, Abandoned

\* A network is stopped when its pipeline is down, but for the one restart that
\* goes service by service.
LEMMA StopsNetworkLast ==
  ASSUME SpecInv, TodoInv, PortInv, DownInv, KeepInv, NEW o \in Orgs, StopsOne(Network(o))
  PROVE  \/ up[Pipeline(o)] = "down"
         \/ /\ How = "apart" /\ o = First /\ up[Pipeline(o)] = "up"
            /\ Ahead("stop", Pipeline(o)) /\ Ahead("ready", Network(o))
<1> DEFINE N == Network(o)
           P == Pipeline(o)
<1>1. At("stop") /\ Arg = N /\ Due(phase, "stop", N) /\ Ahead("stop", N) /\ N \in Services /\ P \in Services
  BY AtIs, OrgFacts DEF StopsOne, Onward
<1>4. ~Stuck /\ ~Abandoned /\ Busy
  BY <1>1, InEarnest DEF StopsOne, DownCalls, Busy
<1>2. CASE How = "whole"
  <2>1. ~Ahead("gone", P)
    BY <1>1, <1>2, NodeOrder, DoneBefore
  <2>2. CASE phase = "setup" /\ runtime = "compose"
    <3>1. Due(phase, "up", NATS)
      BY <2>2 DEF Due, DueInSetup
    <3>2. Ahead("up", NATS)
      BY <1>1, <1>2, <3>1, ServiceOrder, StillAhead
    <3> QED  BY <1>1, <1>4, <2>1, <3>2 DEF DownInv
  <2>3. CASE phase \in {"restart", "stopped"} /\ N \in FirstNode
    <3>1. P \in FirstNode
      BY <2>3, NamesDiffer DEF FirstNode
    <3>2. CASE phase = "restart"
      <4>1. Due(phase, "start", P)
        BY <3>1, <3>2 DEF Due, DueInRestart
      <4>2. Sooner("stop", N, "start", N) /\ Sooner("ready", N, "start", P) /\ Sooner("stop", N, "ready", N)
        BY NodeOrder
      <4>3. Due(phase, "ready", N)
        BY <2>3, <3>2 DEF Due, DueInRestart
      <4>4. Ahead("start", P)
        BY <1>1, <4>1, <4>2, <4>3, StillAhead
      <4> QED  BY <1>1, <1>4, <2>1, <4>4 DEF DownInv
    <3>3. CASE phase = "stopped"
      BY <1>1, <1>4, <2>1, <3>1, <3>3 DEF DownInv
    <3> QED  BY <2>3, <3>2, <3>3
  <2>4. CASE phase = "cleanup"
    BY <1>1, <1>4, <2>1, <2>4 DEF DownInv
  <2> QED  BY <1>1, <2>2, <2>3, <2>4, DueIs
<1>3. CASE How = "apart"
  <2>1. phase = "restart" /\ runtime = "compose" /\ N \in FirstNode
    BY <1>1, <1>3, HowIs, DueIs DEF How
  <2>2. o = First /\ P \in FirstNode
    BY <2>1, NamesDiffer DEF FirstNode
  <2>3. Due(phase, "stop", P) /\ Due(phase, "ready", N)
    BY <2>1, <2>2 DEF Due, DueInRestart
  <2>4. Sooner("stop", N, "stop", P) /\ Sooner("stop", N, "ready", N)
    BY <1>3, NodeOrder
  <2>5. Ahead("stop", P) /\ Ahead("ready", N)
    BY <1>1, <2>3, <2>4, StillAhead
  <2>6. up[P] = "up"
    BY <1>1, <2>1, <2>5 DEF KeepInv, Answers, PortInv
  <2> QED  BY <1>3, <2>2, <2>5, <2>6
<1> QED  BY <1>2, <1>3, HowIs

\* A pipeline is released or started when its network answers, which then stays up.
LEMMA BootStep ==
  ASSUME Inv, Steps
  PROVE  BootInv'
<1> USE DEF Inv
<1>0. UNCHANGED specVars /\ Orgs' = Orgs /\ First' = First /\ First \in Orgs
  BY TodoStep, Same, OrgFacts
<1>1. ASSUME NEW o \in Orgs, up'[Pipeline(o)] = "booting"
      PROVE  Answers(Network(o))'
  <2> DEFINE N == Network(o)
             P == Pipeline(o)
  <2>1. N \in Services /\ P \in Services /\ N # P /\ P[2] = "pipeline" /\ P[1] = o /\ N # PDP
    BY OrgFacts, NamesDiffer
  <2>2. \/ up[P] = "booting" \/ StartsOne(P) \/ (up[P] = "held" /\ Running(Release(P)))
    BY <1>1, <2>1, ServiceMoves DEF Moves
  <2>3. CASE up[P] = "booting"
    <3>1. Answers(N)
      BY <2>3 DEF BootInv, PipelineMeetsItsNetwork
    <3>2. ~StartsOne(N) \/ up[N] # "up"
      BY <2>1, StartsWhatIsDown
    <3>3. ~StopsOne(N)
      BY <2>3, StopsNetworkLast
    <3> QED  BY <2>1, <3>1, <3>2, <3>3, AnswersMoves
  <2>4. CASE StartsOne(P)
    <3>1. At("start") /\ Arg = P /\ Due(phase, "start", P)
      BY <2>4 DEF StartsOne, Onward
    <3>2. phase \in Serving
      BY <3>1, DueIs DEF Serving
    <3>3. Answers(N)
      BY <2>1, <3>1, <3>2, NodeOrder, DoneBefore DEF ReadyInv
    <3>4. ~StartsOne(N) /\ ~StopsOne(N)
      BY <2>1, <3>1 DEF StartsOne, StopsOne
    <3> QED  BY <2>1, <3>3, <3>4, AnswersMoves
  <2>5. CASE Running(Release(P))
    <3>1. up[N] = "up" /\ up' = [up EXCEPT ![P] = "booting"] /\ up \in [Services -> States]
      BY <2>1, <2>5 DEF Running, Release, TypeInv
    <3>2. up'[N] = "up"
      BY <2>1, <3>1
    <3> QED  BY <3>2 DEF Answers, Network
  <2> QED  BY <2>2, <2>3, <2>4, <2>5
<1>2. ASSUME NEW s, s = Network(First), How' = "apart", Ahead("ready", s)', ~Ahead("start", s)'
      PROVE  up'[s] \in {"booting", "up"}
  <2>1. s \in Services /\ s \in FirstNode
    BY <1>2, OrgFacts
  <2>2. CASE Onwards
    <3>1. How = "apart" /\ Ahead("ready", s) /\ phase = "restart" /\ runtime = "compose"
      BY <1>2, <2>2, HowIs DEF Onwards, How
    <3>2. CASE Ahead("start", s)
      BY <1>2, <2>2, <3>2 DEF Onwards, StartsOne, Goes
    <3>3. CASE ~Ahead("start", s)
      <4>1. up[s] \in {"booting", "up"}
        BY <1>2, <3>1, <3>3 DEF BootInv
      <4>2. ~StopsOne(s)
        <5> SUFFICES ASSUME StopsOne(s) PROVE FALSE
          OBVIOUS
        <5>1. Ahead("stop", s)
          BY AtIs DEF StopsOne, Onward
        <5>2. Due(phase, "start", s)
          BY <2>1, <3>1 DEF Due, DueInRestart
        <5> QED  BY <2>1, <3>3, <5>1, <5>2, ServiceOrder, StillAhead
      <4>3. taken = {}
        BY <3>1 DEF PortInv
      <4>4. up'[s] \in States
        BY <1>0, <2>1, TypeStep, Same DEF TypeInv
      <4> QED  BY <2>1, <4>1, <4>2, <4>3, <4>4, ServiceMoves DEF Moves, States
    <3> QED  BY <3>2, <3>3
  <2>3. CASE Failing \/ HandOver \/ End
    BY <1>2, <2>3, FailingIs, HandOverIs, EndIs
  <2>4. CASE Restart
    BY <1>2, <2>1, <2>4, RestartIs DEF DueInRestart
  <2>5. CASE StopAndLeave
    BY <1>2, <2>5, StopAndLeaveIs
  <2> QED  BY CallMoves, <2>2, <2>3, <2>4, <2>5
<1>3. PipelineMeetsItsNetwork'
  BY <1>0, <1>1 DEF PipelineMeetsItsNetwork, Network, Pipeline
<1>4. PICK s : s = Network(First)
  OBVIOUS
<1>5. Network(First)' = s
  BY <1>0, <1>4 DEF Network
<1>6. How' = "apart" /\ Ahead("ready", Network(First))' /\ ~Ahead("start", Network(First))'
      => up'[Network(First)'] \in {"booting", "up"}
  BY <1>2, <1>4, <1>5
<1> QED  BY <1>3, <1>6 DEF BootInv

\* A network whose PDP is up gets its answers from it.
LEMMA AsksThePDP ==
  ASSUME SpecInv, NEW o \in Orgs, up[PDP] = "up"
  PROVE  Asks(o) /\ Serves(Network(o), conf[Network(o)].policyVerifier, PDP) /\ AdmitsPDP(conf[Network(o)])
<1>1. Network(o) \in Orgs \X {"network", "pipeline"}
  BY DEF Network
<1>2. EveryAddressServes
  BY AddressesServe DEF SpecInv
<1>3. Listener(Network(o), conf[Network(o)].policyVerifier) = {PDP} /\ AdmitsPDP(conf[Network(o)])
  BY <1>1, <1>2 DEF EveryAddressServes
<1> QED  BY <1>3 DEF Asks, Serves, Answers

\* A network is stopped after its pipeline has drained, and the PDP after both.
LEMMA DrainStep ==
  ASSUME Inv, Steps
  PROVE  DrainInv'
<1> USE DEF Inv
<1>0. UNCHANGED specVars /\ First' = First /\ PDP \in Services /\ Services' = Services /\ up' \in [Services -> States]
      /\ unshipped' \subseteq Orgs
  BY TodoStep, Same, OrgFacts, TypeStep DEF TypeInv
<1> SUFFICES ASSUME ~mimic', NEW o \in Orgs, o \in unshipped', o \notin killed'
             PROVE  /\ up'[Pipeline(o)] \in {"up", "stopping"} /\ up'[PDP] = "up"
                    /\ \/ up'[Network(o)] = "up"
                       \/ /\ How' = "apart" /\ o = First /\ up'[Pipeline(o)] = "up"
                          /\ Ahead("stop", Pipeline(o))' /\ Ahead("ready", Network(o))'
  BY <1>0 DEF DrainInv, Network, Pipeline, PDP
<1> DEFINE N == Network(o)
           P == Pipeline(o)
           W == How = "apart" /\ o = First /\ up[P] = "up" /\ Ahead("stop", P) /\ Ahead("ready", N)
<1>1. /\ N \in Services /\ P \in Services /\ N # P /\ N # PDP /\ P # PDP /\ P[1] = o /\ P[2] = "pipeline" /\ N[1] = o /\ N[2] = "network"
      /\ PDP \notin FirstNode /\ PDP \in Infra
      /\ N \notin Infra /\ P \notin Infra
      /\ N \in FirstNode <=> o = First
      /\ P \in FirstNode <=> o = First
  BY OrgFacts, NamesDiffer DEF FirstNode, Infra
<1>2. ~mimic /\ o \notin killed
  BY MimicMoves, OtherMoves
<1>3. \A s \in Services : Answers(s) => up[s] = "up"
  BY <1>2 DEF Answers
<1>4. ~StartsOne(N) \/ up[N] # "up"
  BY <1>1, StartsWhatIsDown
<1>5. \A s \in Services : up[s] = "up" /\ up'[s] # "up" => StopsOne(s) \/ StartsOne(s)
  <2> SUFFICES ASSUME NEW s \in Services, up[s] = "up", up'[s] # "up" PROVE StopsOne(s) \/ StartsOne(s)
    OBVIOUS
  <2>1. Answers(s) /\ ~Answers(s)'
    BY DEF Answers
  <2> QED  BY <2>1, AnswersMoves
<1>6. CASE o \in unshipped
  <2>1. up[P] \in {"up", "stopping"} /\ up[PDP] = "up" /\ (up[N] = "up" \/ W) /\ phase # "setup"
    BY <1>2, <1>6 DEF DrainInv, ShipInv
  <2>2. up'[P] \in {"up", "stopping"}
    <3>1. up'[P] \notin {"booting", "held", "leaked"}
      BY <1>1, <2>1, ServiceMoves, StartsWhatIsDown DEF Moves
    <3>2. up'[P] # "down"
      <4> SUFFICES ASSUME up'[P] = "down" PROVE FALSE
        OBVIOUS
      <4>1. up[P] = "stopping" /\ (Running(Exit(P)) \/ Running(Kill(P)))
        BY <1>1, <2>1, ServiceMoves DEF Moves
      <4>2. Undrained(P) /\ up[Network(P[1])] = "up" /\ Asks(P[1])
        BY <1>1, <1>6, <2>1, <4>1, AsksThePDP DEF Undrained
      <4>3. CASE Running(Exit(P))
        BY <4>2, <4>3 DEF Running, Exit
      <4>4. CASE Running(Kill(P))
        BY <1>1, <4>2, <4>4 DEF Running, Kill
      <4> QED  BY <4>1, <4>3, <4>4
    <3> QED  BY <1>0, <1>1, <3>1, <3>2 DEF States
  <2>3. up'[PDP] = "up"
    <3> SUFFICES ASSUME up'[PDP] # "up" PROVE FALSE
      OBVIOUS
    <3>1. StopsOne(PDP)
      BY <1>0, <1>5, <2>1, StartsWhatIsDown
    <3>2. At("stop") /\ Arg = PDP /\ Due(phase, "stop", PDP)
      BY <3>1 DEF StopsOne, Onward
    <3>3. phase = "cleanup" /\ How = "whole"
      BY <1>1, <2>1, <3>2, DueIs, HowIs
    <3>4. ~Ahead("gone", P)
      BY <1>1, <3>2, <3>3, InfraOrder, DoneBefore
    <3>5. ~Stuck /\ ~Abandoned /\ Busy
      BY <3>1, <3>2, InEarnest, AtIs DEF StopsOne, DownCalls, Busy
    <3> QED  BY <1>1, <2>1, <3>3, <3>4, <3>5 DEF DownInv
  <2>4. CASE up[N] = "up"
    <3> SUFFICES ASSUME up'[N] # "up"
                 PROVE  /\ How' = "apart" /\ o = First /\ up'[P] = "up" /\ Ahead("stop", P)' /\ Ahead("ready", N)'
      BY <2>2, <2>3
    <3>1. StopsOne(N)
      BY <1>1, <1>4, <1>5, <2>4
    <3>2. W
      BY <2>1, <3>1, StopsNetworkLast
    <3>3. Onward("stop") /\ Arg = N /\ At("stop") /\ up'[P] = up[P]
      BY <1>1, <3>1 DEF StopsOne, Goes, Onward
    <3> QED  BY <1>1, <3>2, <3>3 DEF Onward
  <2>5. CASE W
    <3>1. phase = "restart" /\ runtime = "compose" /\ taken = {}
      BY <2>5 DEF How, PortInv
    <3>2. Sooner("ready", N, "stop", P)
      BY <2>5, NodeOrder
    <3>3. CASE Onwards
      <4>1. ~(At("stop") /\ Arg = P)
        BY <2>5, <3>2, DoneBefore
      <4>2. Ahead("stop", P)'
        BY <2>5, <3>3, <4>1 DEF Onwards
      <4>3. up'[P] = "up"
        BY <1>1, <2>2, <2>5, <4>1, ServiceMoves DEF Moves, StopsOne, Onward
      <4>4. CASE ~Ahead("ready", N)'
        <5>1. Answers(N) /\ up' = up
          BY <2>5, <3>3, <4>4 DEF Onwards, processVars
        <5> QED  BY <1>1, <1>3, <2>2, <2>3, <5>1
      <4>5. CASE Ahead("ready", N)'
        BY <2>2, <2>3, <2>5, <3>3, <4>2, <4>3, <4>5 DEF Onwards
      <4> QED  BY <4>4, <4>5
    <3>4. CASE Failing
      <4>1. (At("ready") \/ At("subscribed")) /\ ~Awaited /\ Idle /\ up' = up
        BY <3>1, <3>4 DEF Failing, processVars
      <4>2. At("ready") /\ Arg = N
        <5>1. ~At("subscribed")
          <6> SUFFICES ASSUME At("subscribed") PROVE FALSE
            OBVIOUS
          <6>1. PICK l \in Loops : Arg = l /\ l[1] = First
            BY <3>1, AtIs DEF Due, DueInRestart, SpecInv
          <6>2. l = <<First, l[2]>> /\ l[2] \in Words
            BY <6>1, OrgFacts
          <6>3. Sooner("ready", N, "subscribed", <<First, l[2]>>)
            BY <2>5, <6>2, OrgOrder
          <6>4. Sooner("ready", N, "subscribed", Arg)
            BY <6>1, <6>2, <6>3
          <6> QED  BY <2>5, <6>4, DoneBefore
        <5>2. At("ready") /\ Arg \in {N, P}
          BY <2>5, <3>1, <4>1, <5>1, AtIs, DueIs DEF FirstNode
        <5>3. Arg # P
          BY <2>5, <5>2, NodeOrder, DoneBefore
        <5> QED  BY <5>2, <5>3
      <4>3. up[N] \in {"booting", "up"}
        BY <1>1, <2>5, <4>2, ServiceOrder, DoneBefore DEF BootInv
      <4>4. up[N] # "booting"
        <5> SUFFICES ASSUME up[N] = "booting" PROVE FALSE
          OBVIOUS
        <5>1. {<<"broker", "jwts">>, <<o, "config">>} \subseteq mounts
          <6>1. <<"broker", "jwts">> \in MountPoints /\ <<o, "config">> \in MountPoints
            BY DEF MountPoints
          <6>2. \A m : ~Ahead("mount", m)
            BY <3>1, AheadIsDue, DueIs
          <6> QED  BY <3>1, <6>1, <6>2 DEF MountInv, Serving
        <5>2. Bootable(N)
          BY <1>1, <2>1, <3>1, <5>1, AsksThePDP DEF Bootable, Mounted, SpecInv
        <5> QED  BY <1>1, <4>1, <5>2 DEF Idle
      <4> QED  BY <2>2, <2>3, <4>1, <4>3, <4>4
    <3>5. ~HandOver
      <4> SUFFICES ASSUME HandOver PROVE FALSE
        OBVIOUS
      <4>1. At("return") /\ Arg = First
        BY HandOverIs
      <4> QED  BY <1>1, <2>5, <4>1, ServiceOrder, DoneBefore
    <3>6. ~End /\ ~Restart /\ ~StopAndLeave
      BY <3>1, EndIs, RestartIs, StopAndLeaveIs
    <3> QED  BY CallMoves, <3>3, <3>4, <3>5, <3>6
  <2> QED  BY <2>1, <2>2, <2>3, <2>4, <2>5
<1>7. CASE o \notin unshipped
  <2>1. Running(Emit(o))
    BY <1>7, OtherMoves
  <2>2. /\ phase \in {"scenario", "restart"} /\ up[P] = "up" /\ up' = up
        /\ UNCHANGED <<specVars, callVars>>
    BY <2>1 DEF Running, Emit
  <2>3. How' = How /\ \A op, arg : Ahead(op, arg)' <=> Ahead(op, arg)
    BY <2>2, StayIs
  <2>4. CASE phase = "scenario"
    BY <1>0, <1>1, <1>3, <2>2, <2>4, ScenarioAnswers
  <2>5. CASE phase = "restart"
    <3>1. up[PDP] = "up"
      BY <1>0, <1>1, <1>3, <2>5 DEF KeepInv
    <3>2. CASE o # First \/ Ahead("stop", N)
      BY <1>1, <1>3, <2>2, <2>5, <3>1, <3>2 DEF KeepInv
    <3>3. CASE ~Ahead("ready", N)
      BY <1>1, <1>3, <2>2, <2>5, <3>1, <3>3 DEF ReadyInv, Serving
    <3>4. CASE How = "apart" /\ o = First /\ Ahead("ready", N)
      <4>1. Due(phase, "stop", P)
        BY <1>1, <2>5, <3>4 DEF Due, DueInRestart
      <4>2. Ahead("stop", P)
        BY <3>4, <4>1, NodeOrder, StillAhead
      <4> QED  BY <2>2, <2>3, <3>1, <3>4, <4>2
    <3>5. How = "whole" /\ o = First /\ Ahead("ready", N) => Ahead("stop", N)
      <4> SUFFICES ASSUME How = "whole", o = First, Ahead("ready", N), ~Ahead("stop", N) PROVE FALSE
        OBVIOUS
      <4>1. Due(phase, "start", P) /\ Due(phase, "stop", N)
        BY <1>1, <2>5 DEF Due, DueInRestart
      <4>2. Ahead("start", P)
        BY <4>1, NodeOrder, StillAhead
      <4>3. ~Ahead("gone", P)
        BY <4>1, NodeOrder, StillAhead
      <4> QED  BY <1>1, <2>2, <2>5, <4>2, <4>3 DEF DownInv, Stuck, Abandoned
    <3> QED  BY <3>2, <3>3, <3>4, <3>5, HowIs
  <2> QED  BY <2>2, <2>4, <2>5
<1> QED  BY <1>6, <1>7

\* A pipeline emits when the scenario runs, and by then its identity is registered.
LEMMA ShipStep ==
  ASSUME Inv, Steps
  PROVE  ShipInv'
<1> USE DEF Inv
<1>0. /\ UNCHANGED specVars /\ nodeIdentity' = nodeIdentity /\ Orgs' = Orgs
      /\ unshipped' \subseteq Orgs /\ unshipped \subseteq Orgs
  BY TodoStep, Same, TypeStep DEF TypeInv
<1>1. \A o \in Orgs : nodeIdentity \in Identity => <<o, nodeIdentity>> \in DIDs /\ <<o, nodeIdentity>>[1] = o
  BY DEF DIDs
<1>2. ASSUME phase \in {"scenario", "restart", "stopped"}, NEW o \in Orgs
      PROVE  /\ nodeIdentity \in Identity
             /\ \/ docs[<<o, nodeIdentity>>] = keys[<<o, nodeIdentity>>]
                \/ Network(o) \in taken
  <2>1. ~Ahead("identity", First) /\ \A d : ~Ahead("issue", d)
    BY <1>2, AheadIsDue, DueIs
  <2>2. nodeIdentity \in Identity
    BY <1>2, <2>1 DEF DocInv, Serving
  <2>3. PICK d \in DIDs : d = <<o, nodeIdentity>> /\ d[1] = o
    BY <1>1, <2>2
  <2>4. docs[d] = keys[d] \/ Network(d[1]) \in taken
    BY <1>2, <2>1 DEF DocInv, Serving
  <2> QED  BY <2>2, <2>3, <2>4
<1>3. ASSUME phase' = "setup" PROVE unshipped' = {}
  <2>1. phase = "setup"
    BY <1>3, CallMoves, FailingIs, HandOverIs, EndIs, RestartIs, StopAndLeaveIs DEF Onwards
  <2>2. \A o : ~Running(Emit(o))
    BY <2>1 DEF Running, Emit
  <2> QED  BY <2>1, <2>2, OtherMoves DEF ShipInv
<1>4. ASSUME phase' \in {"cleanup", "ended"}, NEW o \in unshipped'
      PROVE  /\ nodeIdentity \in Identity
             /\ \/ docs'[<<o, nodeIdentity>>] = keys'[<<o, nodeIdentity>>]
                \/ Network(o) \in taken' \/ up'[Network(o)] = "down"
  <2>0. o \in Orgs /\ taken \subseteq taken' /\ Network(o) \in Services
    BY <1>0, MimicMoves, OrgFacts
  <2>1. CASE Onwards
    <3>1. phase \in {"cleanup", "ended"}
      BY <1>4, <2>1 DEF Onwards
    <3>2. \A p : ~Running(Emit(p))
      BY <3>1 DEF Running, Emit
    <3>3. o \in unshipped
      BY <1>4, <3>2, OtherMoves
    <3>4. /\ nodeIdentity \in Identity
          /\ \/ docs[<<o, nodeIdentity>>] = keys[<<o, nodeIdentity>>]
             \/ Network(o) \in taken \/ up[Network(o)] = "down"
      BY <3>1, <3>3 DEF ShipInv
    <3>5. up[Network(o)] = "down" => up'[Network(o)] = "down"
      <4>1. ~Up /\ ~StartsOne(Network(o))
        BY <3>1, UpIs, DueIs DEF StartsOne
      <4>2. up'[Network(o)] \in States
        BY <2>0, TypeStep, TodoStep, Same DEF TypeInv
      <4> QED  BY <2>0, <4>1, <4>2, ServiceMoves DEF Moves, States
    <3>6. Quiet => Removes
      <4>1. \A op : Onward(op) => phase = "cleanup" /\ Due(phase, op, Arg)
        BY <3>1, NoneAheadIn, AtIs DEF Onward
      <4>2. \A op : Onward(op) => op \notin {"wipe", "identity", "provision", "issue", "mount", "owner"}
        BY <4>1, DueIs
      <4> QED  BY <4>2 DEF Quiet, Wipes, Identifies, Provides, Issues, Mounts, Owns
    <3>7. CASE Removes
      <4>1. At("remove") /\ Arg = NATS /\ phase = "cleanup"
        BY <3>1, <3>7, AtIs, DueIs DEF Removes, Onward
      <4>2. ~Ahead("gone", Network(o))
        BY <2>0, <4>1, HowIs, ServiceOrder, DoneBefore
      <4>3. up[Network(o)] = "down"
        <5>1. ~Stuck /\ ~Abandoned /\ Busy
          BY <3>7, <4>1, InEarnest, AtIs DEF Removes, DownCalls, Busy
        <5> QED  BY <2>0, <4>1, <4>2, <5>1 DEF DownInv
      <4> QED  BY <3>4, <3>5, <4>3
    <3> QED  BY OtherMoves, <2>0, <3>4, <3>5, <3>6, <3>7
  <2>2. CASE Failing
    <3>1. /\ phase \in {"setup", "restart", "scenario", "stopped"}
          /\ UNCHANGED <<keys, docs>> /\ unshipped' = unshipped
      BY <2>2 DEF Failing, processVars
    <3>2. phase # "setup"
      BY <1>4, <3>1 DEF ShipInv
    <3> QED  BY <1>2, <2>0, <3>1, <3>2
  <2>3. CASE HandOver \/ Restart \/ StopAndLeave
    BY <1>4, <2>3, HandOverIs, RestartIs, StopAndLeaveIs
  <2>4. CASE End
    BY <1>4, <2>4, EndIs DEF ShipInv, processVars, keyVars
  <2> QED  BY CallMoves, <2>1, <2>2, <2>3, <2>4
<1>5. ~rejected'
  <2>1. ASSUME NEW o \in Orgs, Running(Ship(o)) PROVE rejected' = rejected
    <3>1. /\ o \in unshipped /\ up[Network(o)] = "up" /\ conf[Pipeline(o)].nodeDID = <<o, nodeIdentity>>
          /\ Network(o) \in Services
      BY <2>1, OrgFacts DEF Running, Ship, SpecInv
    <3>2. Network(o) \notin taken
      BY <3>1 DEF PortInv
    <3>3. docs[<<o, nodeIdentity>>] = keys[<<o, nodeIdentity>>]
      <4>1. CASE phase \in {"scenario", "restart", "stopped"}
        BY <1>2, <3>2, <4>1
      <4>2. CASE phase \in {"cleanup", "ended"}
        BY <3>1, <3>2, <4>2 DEF ShipInv
      <4>3. phase # "setup"
        BY <3>1 DEF ShipInv
      <4> QED  BY <4>1, <4>2, <4>3 DEF TypeInv, Phases
    <3>4. Allows("log", "append")
      BY DEF Allows, TakenAsAllow, Handler
    <3> QED  BY <2>1, <3>1, <3>3, <3>4 DEF Running, Ship
  <2> QED  BY <2>1, OtherMoves DEF ShipInv
<1> QED  BY <1>0, <1>3, <1>4, <1>5 DEF ShipInv, Network

-----------------------------------------------------------------------------
(***************************************************************************)
(* At the start, and always.                                               *)
(***************************************************************************)
\* Whatever an earlier run left behind, the setup is still to be made.
LEMMA InvInit == Init => Inv
<1> SUFFICES ASSUME Init PROVE Inv
  OBVIOUS
<1>1. SpecInv /\ TodoInv /\ Covers(ToSet(todo), "setup")
  BY SpecInit, SetupRemains
<1>2. \A op, arg : Ahead(op, arg) <=> DueInSetup(op, arg)
  BY <1>1 DEF Covers, Ahead, Due
<1>3. PICK leaked \in {0, 1} :
        /\ minted = leaked /\ (leaked = 1 => runtime = "compose")
        /\ keys = [d \in DIDs |-> leaked] /\ docs = [d \in Documented |-> leaked]
        /\ mounts = IF leaked = 1 THEN (Orgs \X {"keys", "config"}) \cup {<<"broker", "jwts">>} ELSE {}
        /\ up = [s \in Services |-> IF leaked = 1 THEN "leaked" ELSE "down"]
  BY DEF Init, Documented
<1>4. /\ phase = "setup" /\ restarts = 0 /\ downFailed = FALSE /\ base = [o \in Orgs |-> 0] /\ port = [o \in Orgs |-> 0] /\ subscribed = {}
      /\ unshipped = {} /\ killed = {} /\ rejected = FALSE /\ taken = {} /\ mimic = FALSE
      /\ extKeys = [d \in DIDs |-> 0] /\ runtime \in {"process", "compose"}
  BY DEF Init
<1>5. TypeInv
  <2>1. /\ phase \in Phases /\ restarts \in Nat /\ downFailed \in BOOLEAN
        /\ base \in [Orgs -> Nat] /\ port \in [Orgs -> Nat]
    BY <1>4 DEF Phases
  <2>2. /\ keys \in [DIDs -> Nat] /\ extKeys \in [DIDs -> Nat] /\ docs \in [Documented -> Nat] /\ minted \in Nat
        /\ mounts \subseteq (Orgs \X {"keys", "config"}) \cup {<<"broker", "jwts">>}
    BY <1>3, <1>4
  <2>3. up \in [Services -> States]
    BY <1>3 DEF States
  <2>4. /\ subscribed \subseteq Loops /\ unshipped \subseteq Orgs /\ killed \subseteq Orgs /\ rejected \in BOOLEAN
        /\ taken \subseteq Services /\ mimic \in BOOLEAN
    BY <1>4
  <2> QED  BY <2>1, <2>2, <2>3, <2>4 DEF TypeInv
<1>6. PortInv /\ BaseInv /\ ShipInv /\ KeepInv /\ DrainInv
  BY <1>4 DEF PortInv, BaseInv, ShipInv, KeepInv, DrainInv
<1>7. DownInv
  <2>1. runtime = "compose" => \A s \in Services : Ahead("gone", s)
    BY <1>2 DEF DueInSetup
  <2>2. runtime # "compose" => \A s \in Services : up[s] = "down"
    BY <1>3
  <2> QED  BY <2>1, <2>2 DEF DownInv
<1>15. LeakInv
  BY <1>3, OrgFacts, <1>1 DEF LeakInv
<1>8. ReadyInv
  BY <1>2, <1>4 DEF ReadyInv, DueInSetup
<1>9. PolicyInv
  BY <1>2, <1>4 DEF PolicyInv, DueInSetup
<1>10. GateInv
  BY <1>2 DEF GateInv, DueInSetup
<1>11. KeyInv
  BY <1>2 DEF KeyInv, DueInSetup
<1>12. DocInv
  <2>1. \A d \in DIDs : Ahead("issue", d)
    BY <1>2 DEF DueInSetup
  <2>2. Ahead("identity", First) \/ nodeIdentity \in Identity
    BY <1>1, <1>2 DEF DueInSetup, SpecInv, Identity
  <2> QED  BY <2>1, <2>2 DEF DocInv
<1>13. MountInv
  BY <1>2 DEF MountInv, DueInSetup, MountPoints
<1>14. BootInv
  <2>1. PipelineMeetsItsNetwork
    <3> SUFFICES ASSUME NEW o \in Orgs PROVE up[Pipeline(o)] # "booting"
      BY DEF PipelineMeetsItsNetwork
    <3> QED  BY <1>1, <1>3, OrgFacts
  <2>2. How = "whole"
    BY <1>4 DEF How
  <2> QED  BY <2>1, <2>2 DEF BootInv
<1> QED  BY <1>1, <1>5, <1>6, <1>7, <1>8, <1>9, <1>10, <1>11, <1>12, <1>13, <1>14, <1>15 DEF Inv

\* And every step keeps the invariant.
LEMMA InvStep == Inv /\ [Next]_vars => Inv'
<1> SUFFICES ASSUME Inv, [Next]_vars PROVE Inv'
  OBVIOUS
<1>1. Steps
  BY NextCases DEF Inv
<1>2. SpecInv' /\ TodoInv'
  BY <1>1, TodoStep, SpecStep DEF Inv
<1>3. TypeInv' /\ PortInv'
  BY <1>1, TypeStep, PortStep DEF Inv
<1> QED  BY <1>1, <1>2, <1>3, LeakStep, DownStep, ReadyStep, PolicyStep, KeepStep, GateStep, KeyStep, DocStep, BaseStep,
            MountStep, ShipStep, DrainStep, BootStep DEF Inv

\* The inductive invariant of the setups, restarts and cleanups, in either runtime.
THEOREM DeploymentInvariant == Spec => []Inv
BY InvInit, InvStep, PTL DEF Spec

\* Types: every variable stays in its range, for any chain and any number of restarts.
THEOREM DeploymentTypes == Spec => []TypeInv
<1>1. Inv => TypeInv
  BY DEF Inv
<1> QED  BY <1>1, DeploymentInvariant, PTL

\* A scenario finds what its setup or restart promised: every service up, the networks
\* at the ports it dials, the awaited loops subscribed, every identity registered with
\* the key its pipeline signs with.
THEOREM ScenariosFindTheirNodes == Spec => []ScenarioFindsItsNode
<1>1. Inv => ScenarioFindsItsNode
  <2> SUFFICES ASSUME Inv, phase = "scenario", ~mimic
               PROVE  /\ \A s \in Services : up[s] = "up"
                      /\ base = port /\ gates \subseteq subscribed
                      /\ \A d \in DIDs : docs[d] = keys[d] /\ keys[d] # 0
    BY DEF ScenarioFindsItsNode
  <2> USE DEF Inv
  <2>1. \A op, arg : ~Ahead(op, arg)
    BY NoneAheadIn
  <2>2. \A s \in Services : up[s] = "up"
    BY ScenarioAnswers DEF Answers
  <2>3. gates \subseteq subscribed
    BY <2>1 DEF GateInv, Serving
  <2>4. \A d \in DIDs : docs[d] = keys[d] /\ keys[d] # 0
    BY <2>1 DEF DocInv, Serving
  <2> QED  BY <2>2, <2>3, <2>4 DEF BaseInv
<1> QED  BY <1>1, DeploymentInvariant, PTL

\* No pipeline boots before its network answers, in any setup or restart.
THEOREM PipelinesMeetTheirNetworks == Spec => []PipelineMeetsItsNetwork
<1>1. Inv => PipelineMeetsItsNetwork
  BY DEF Inv, BootInv
<1> QED  BY <1>1, DeploymentInvariant, PTL

\* No registry refuses a signed call for good: identities are registered before
\* anything is emitted, and what is registered is the key that signs.
THEOREM SignedCallsAreVerified == Spec => []CallsAreVerified
<1>1. Inv => CallsAreVerified
  BY DEF Inv, ShipInv, CallsAreVerified
<1> QED  BY <1>1, DeploymentInvariant, PTL

\* A pipeline that stopped by itself has shipped its log: network and PDP are there
\* until it has, in cleanups after a failure too.
THEOREM DownPipelinesDrained == Spec => []DownMeansDrained
<1>1. Inv => DownMeansDrained
  <2> SUFFICES ASSUME Inv, ~mimic, NEW o \in Orgs, up[Pipeline(o)] = "down", o \in unshipped, o \notin killed
               PROVE  FALSE
    BY DEF DownMeansDrained
  <2> QED  BY DEF Inv, DrainInv
<1> QED  BY <1>1, DeploymentInvariant, PTL
=============================================================================
