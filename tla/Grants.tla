------------------------------- MODULE Grants -------------------------------
(***************************************************************************)
(* The subject grants between accounts, as the harness makes them for the  *)
(* two runtimes: JWTs in a directory, a copy of them the broker is given,  *)
(* and the claims the broker acts on from an account's first lookup.  A     *)
(* client may connect between any two steps.                               *)
(***************************************************************************)
EXTENDS Naturals, FiniteSets

CONSTANTS
  Accounts,
  Subjects,
  Wanted,    \* the grants a setup asks for
  NoGrant

Grant == [exporter : Accounts, importer : Accounts, subject : Subjects]

ASSUME WantedAssumption  == Wanted \subseteq Grant
ASSUME NoGrantAssumption == NoGrant \notin Grant

VARIABLES
  runtime,   \* "process": StartNATS; "compose": ProvisionCompose
  issued,    \* the resolver directory: account |-> the claims in its JWT
  handed,    \* the broker's resolver or its preload: account |-> claims
  running,   \* whether the broker runs
  rendered,  \* brokerConfigWritten
  loaded,    \* the accounts the broker has looked up
  acted,     \* account |-> the claims the broker looked up then, or was pushed
  step,      \* where the harness is
  todo,      \* the accounts the loop at hand has still to come to
  grant,     \* the grant being made
  given      \* the grants Grant returned from

jwtVars    == <<issued, handed>>
brokerVars == <<running, rendered, loaded, acted>>
callVars   == <<step, todo, grant, given>>
vars       == <<runtime, jwtVars, brokerVars, callVars>>

Steps == {"publish", "bridge", "idle", "export", "import", "refreshExporter",
          "refreshImporter", "failed"}

\* What a grant puts into the exporter's JWT and into the importer's.
ExportOf(g) == [side |-> "export", exporter |-> g.exporter, subject |-> g.subject]
ImportOf(g) == [side |-> "import", exporter |-> g.exporter, subject |-> g.subject]
Claim       == [side : {"export", "import"}, exporter : Accounts, subject : Subjects]

Bare == [a \in Accounts |-> {}]

Init ==
    /\ runtime \in {"process", "compose"}
    /\ issued = Bare /\ handed = Bare /\ acted = Bare
    /\ running = FALSE /\ rendered = FALSE /\ loaded = {}
    /\ step = "publish" /\ todo = Accounts
    /\ grant = NoGrant /\ given = {}

-----------------------------------------------------------------------------
\* An account's bare claims, one account after the other; only StartNATS goes on
\* to give them to a broker.
PublishClaims ==
    /\ step = "publish"
    /\ \E a \in todo : todo' = todo \ {a}
    /\ UNCHANGED <<runtime, jwtVars, brokerVars, step, grant, given>>

Published ==
    /\ step = "publish" /\ todo = {}
    /\ IF runtime = "process" THEN step' = "bridge" /\ todo' = Accounts
       ELSE step' = "idle" /\ todo' = todo
    /\ UNCHANGED <<runtime, jwtVars, brokerVars, grant, given>>

\* bridge: the JWT files go into the broker's resolver one by one.
Store ==
    /\ step = "bridge"
    /\ \E a \in todo :
         /\ handed' = [handed EXCEPT ![a] = issued[a]]
         /\ todo' = todo \ {a}
    /\ UNCHANGED <<runtime, issued, brokerVars, step, grant, given>>

\* Mutant: a broker that has looked an account up is trusted to look again.
BridgedWithoutRefresh ==
    /\ step = "bridge" /\ todo = {}
    /\ step' = "idle" /\ running' = TRUE
    /\ given' = IF running THEN given \cup {grant} ELSE given
    /\ UNCHANGED <<runtime, jwtVars, rendered, loaded, acted, todo, grant>>

\* The first bridge is followed by the broker, a later one by the refreshes.
Bridged ==
    /\ step = "bridge" /\ todo = {}
    /\ IF running THEN step' = "refreshExporter" ELSE step' = "idle"
    /\ running' = TRUE
    /\ UNCHANGED <<runtime, jwtVars, rendered, loaded, acted, todo, grant, given>>

\* Grant: fatal once the broker's configuration is rendered.
Begin(g) ==
    /\ step = "idle" /\ g \notin given
    /\ grant' = g
    /\ IF rendered THEN step' = "failed" ELSE step' = "export"
    /\ UNCHANGED <<runtime, jwtVars, brokerVars, todo, given>>

AddExport ==
    /\ step = "export"
    /\ issued' = [issued EXCEPT ![grant.exporter] = @ \cup {ExportOf(grant)}]
    /\ step' = "import"
    /\ UNCHANGED <<runtime, handed, brokerVars, todo, grant, given>>

Return == given' = given \cup {grant} /\ grant' = NoGrant /\ step' = "idle"

\* Compose has no broker to bridge to yet.
AfterImport ==
    IF runtime = "process" THEN step' = "bridge" /\ todo' = Accounts /\ UNCHANGED <<grant, given>>
    ELSE Return /\ UNCHANGED todo

\* Mutant: an import takes the place of what the importer's JWT said.
AddImportAnew ==
    /\ step = "import"
    /\ issued' = [issued EXCEPT ![grant.importer] = {ImportOf(grant)}]
    /\ AfterImport
    /\ UNCHANGED <<runtime, handed, brokerVars>>

AddImport ==
    /\ step = "import"
    /\ issued' = [issued EXCEPT ![grant.importer] = @ \cup {ImportOf(grant)}]
    /\ AfterImport
    /\ UNCHANGED <<runtime, handed, brokerVars>>

\* AddExport or AddImport returns an error: the test is over, half-way through.
Fail ==
    /\ step \in {"export", "import"}
    /\ step' = "failed"
    /\ UNCHANGED <<runtime, jwtVars, brokerVars, todo, grant, given>>

\* refreshLoaded: the lookup itself may load an account nobody asked for before.
Refresh(a) ==
    \/ /\ acted' = [acted EXCEPT ![a] = issued[a]] /\ loaded' = loaded \cup {a}
    \/ a \notin loaded /\ UNCHANGED <<acted, loaded>>

RefreshExporter ==
    /\ step = "refreshExporter"
    /\ Refresh(grant.exporter)
    /\ step' = "refreshImporter"
    /\ UNCHANGED <<runtime, jwtVars, running, rendered, todo, grant, given>>

\* Mutant: the importer is pushed the exporter's JWT.
RefreshImporterMixedUp ==
    /\ step = "refreshImporter"
    /\ acted' = [acted EXCEPT ![grant.importer] = issued[grant.exporter]]
    /\ loaded' = loaded \cup {grant.importer}
    /\ Return
    /\ UNCHANGED <<runtime, jwtVars, running, rendered, todo>>

RefreshImporter ==
    /\ step = "refreshImporter"
    /\ Refresh(grant.importer)
    /\ Return
    /\ UNCHANGED <<runtime, jwtVars, running, rendered, todo>>

\* WriteBrokerConfig latches first, then preloads every account's JWT of now.
WriteBrokerConfig ==
    /\ runtime = "compose" /\ step = "idle" /\ ~rendered
    /\ rendered' = TRUE
    /\ handed' = issued
    /\ UNCHANGED <<runtime, issued, running, loaded, acted, callVars>>

\* compose up.
RunBroker ==
    /\ runtime = "compose" /\ step = "idle" /\ rendered /\ ~running
    /\ running' = TRUE
    /\ UNCHANGED <<runtime, jwtVars, rendered, loaded, acted, callVars>>

\* A client of the account connects: the broker keeps what it looks up first.
Connect(a) ==
    /\ running /\ a \notin loaded
    /\ loaded' = loaded \cup {a}
    /\ acted' = [acted EXCEPT ![a] = handed[a]]
    /\ UNCHANGED <<runtime, jwtVars, running, rendered, callVars>>

Next ==
    \/ PublishClaims \/ Published \/ Store \/ Bridged
    \/ \E g \in Wanted : Begin(g)
    \/ AddExport \/ AddImport \/ Fail \/ RefreshExporter \/ RefreshImporter
    \/ WriteBrokerConfig \/ RunBroker
    \/ \E a \in Accounts : Connect(a)

Spec == Init /\ [][Next]_vars

-----------------------------------------------------------------------------
TypeOK ==
    /\ runtime \in {"process", "compose"}
    /\ issued \in [Accounts -> SUBSET Claim] /\ handed \in [Accounts -> SUBSET Claim]
    /\ acted \in [Accounts -> SUBSET Claim] /\ loaded \subseteq Accounts
    /\ running \in BOOLEAN /\ rendered \in BOOLEAN
    /\ step \in Steps /\ todo \subseteq Accounts
    /\ given \subseteq Wanted
    /\ grant \in Wanted \cup {NoGrant} /\ (step \in {"publish", "idle"} => grant = NoGrant)

\* What an account may do at the broker, now or from its first lookup on.
Effective == [a \in Accounts |-> IF a \in loaded THEN acted[a] ELSE handed[a]]

Flows(g) == ExportOf(g) \in Effective[g.exporter] /\ ImportOf(g) \in Effective[g.importer]

\* A grant that was made is in effect at a running broker, whoever connected
\* before, while or after it was made: it never "silently takes no effect".
GrantTakesEffect == running => \A g \in given : Flows(g)

\* Only what was granted flows, also half-way through a grant or after one that
\* failed: to exactly the next organisation and not to the eavesdropper.
OnlyGrantsFlow == \A g \in Grant : Flows(g) => g \in given \cup {grant}

\* What is in effect stays in effect: no later grant, lookup or push undoes it.
GrantsStayInEffect == [][\A g \in Wanted : running /\ Flows(g) => Flows(g)']_vars
=============================================================================
