----------------------------- MODULE NodeConfig -----------------------------
(***************************************************************************)
(* The configurations of a node's two processes, reduced to the addresses  *)
(* in them.  A service is an <<org, plane>>, and its name in a compose     *)
(* network; a port of the process runtime bears the name of the service it *)
(* was reserved for.                                                       *)
(***************************************************************************)

URL(host, port) == [host |-> host, port |-> port]
NoURL           == URL(<<"", "">>, <<"", "">>)
Loopback        == <<"", "127.0.0.1">>

\* plainInternalLine: a PDP that is not on loopback is named.
plainInternal(c) == IF c.PDPBaseURL.host = Loopback THEN {} ELSE {c.PDPBaseURL}

\* What an application.conf says: with no vc-store-endpoint nothing is advertised.
Render(c) ==
    [listenAddr       |-> c.ListenAddr,
     allowLoopback    |-> c.AllowLoopback,
     allowPrivate     |-> c.AllowPrivateNetworks,
     policyVerifier   |-> c.PDPBaseURL,
     plainInternal    |-> plainInternal(c),
     natsURL          |-> c.NATSURL,
     nodeDID          |-> c.NodeDID,
     resolverBase     |-> c.ResolverBaseURL,
     registryBases    |-> c.RegistryBaseURLs,
     vcResolver       |-> c.VCStoreEndpoint,
     vcStoreEndpoint  |-> c.VCStoreEndpoint,
     loops            |-> c.LoopsBlock]

\* Mutant: derived from the network's own listen address.
networkBaseURLOfListener(c) == URL(Loopback, c.NetworkListenAddr)

\* The network's own base URL as a peer reaches it.
networkBaseURL(c) ==
    IF c.ResolverBaseURL # NoURL THEN c.ResolverBaseURL
    ELSE IF c.RegistryID \in DOMAIN c.RegistryBaseURLs THEN c.RegistryBaseURLs[c.RegistryID]
    ELSE URL(Loopback, c.NetworkListenAddr)

\* One SeparatedConfig, two files: the network's without loops, the pipeline's
\* with them.
SplitNodeConfig(c) ==
    LET Half(listen, loops) ==
          Render([ListenAddr |-> listen, LoopsBlock |-> loops,
                  AllowLoopback |-> c.AllowLoopback,
                  AllowPrivateNetworks |-> c.AllowPrivateNetworks,
                  PDPBaseURL |-> c.PDPBaseURL, NATSURL |-> c.NATSURL, NodeDID |-> c.NodeDID,
                  ResolverBaseURL |-> c.ResolverBaseURL,
                  RegistryBaseURLs |-> c.RegistryBaseURLs,
                  VCStoreEndpoint |-> networkBaseURL(c)])
    IN  [network  |-> Half(c.NetworkListenAddr, {}),
         pipeline |-> Half(c.PipelineListenAddr, c.LoopsBlock)]

-----------------------------------------------------------------------------
(***************************************************************************)
(* What a node makes of its configuration.                                 *)
(***************************************************************************)

\* Where the DID documents of a registry are looked up.
RegistryURL(conf, registry) ==
    IF conf.resolverBase # NoURL THEN conf.resolverBase ELSE conf.registryBases[registry]

\* The guard against requests into one's own network.
Admits(conf, url) == IF url.host = Loopback THEN conf.allowLoopback ELSE conf.allowPrivate

\* Plain http to a PDP goes to loopback or to what is named.
AdmitsPDP(conf) ==
    conf.policyVerifier.host = Loopback \/ conf.policyVerifier \in conf.plainInternal
=============================================================================
