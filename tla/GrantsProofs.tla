---------------------------- MODULE GrantsProofs ----------------------------
(***************************************************************************)
(* For any accounts, subjects and grants: a grant that was made is in      *)
(* effect, only grants are, and none is ever undone.                       *)
(***************************************************************************)
EXTENDS Grants, TLAPS

In(view, g) == ExportOf(g) \in view[g.exporter] /\ ImportOf(g) \in view[g.importer]

\* Where each step finds the runtime, the broker and the grant being made.
StepsInv ==
    /\ rendered => runtime = "compose" /\ step \in {"idle", "failed"}
    /\ runtime = "compose" => /\ step \notin {"bridge", "refreshExporter", "refreshImporter"}
                              /\ running => rendered
    /\ runtime = "process" /\ ~running => step \in {"publish", "bridge"} /\ given = {}
    /\ step \in {"refreshExporter", "refreshImporter"} => running
    /\ step = "publish" => ~running
    /\ ~running => loaded = {}
    /\ step \in {"export", "import", "refreshExporter", "refreshImporter"} => grant # NoGrant
    /\ step = "bridge" => (running <=> grant # NoGrant)

\* The copies of the JWTs are never ahead of the directory, and how far each is
\* behind it.
CopiesInv ==
    /\ \A a \in Accounts : handed[a] \subseteq issued[a] /\ acted[a] \subseteq issued[a]
    /\ step = "bridge" => \A a \in Accounts \ todo : handed[a] = issued[a]
    /\ step \in {"refreshExporter", "refreshImporter"} => handed = issued
    /\ step = "import" => ExportOf(grant) \in issued[grant.exporter]
    /\ step = "bridge" /\ running => In(issued, grant)
    /\ step \in {"refreshExporter", "refreshImporter"} => In(issued, grant)
    /\ step = "refreshImporter" => ExportOf(grant) \in Effective[grant.exporter]
    /\ \A g \in given : In(issued, g)
    /\ running \/ rendered => \A g \in given : In(handed, g)

\* An import in a JWT is there for a grant.
ImportsInv ==
    \A a \in Accounts : \A c \in issued[a] : c.side = "import" =>
       \E g \in (given \cup {grant}) \cap Grant : g.importer = a /\ c = ImportOf(g)

GrantsInv == TypeOK /\ StepsInv /\ CopiesInv /\ ImportsInv /\ GrantTakesEffect

USE DEF jwtVars, brokerVars, callVars

LEMMA ClaimsOfGrants ==
    ASSUME NEW g \in Grant
    PROVE  /\ ExportOf(g) \in Claim /\ ImportOf(g) \in Claim
           /\ g.exporter \in Accounts /\ g.importer \in Accounts
           /\ ExportOf(g).side = "export" /\ ImportOf(g).side = "import"
BY DEF Grant, Claim, ExportOf, ImportOf

LEMMA ImportNamesGrant ==
    ASSUME NEW g \in Grant, NEW h \in Grant,
           g.importer = h.importer, ImportOf(g) = ImportOf(h)
    PROVE  g = h
<1>1. ImportOf(g).exporter = g.exporter /\ ImportOf(h).exporter = h.exporter BY DEF ImportOf
<1>2. ImportOf(g).subject = g.subject /\ ImportOf(h).subject = h.subject BY DEF ImportOf
<1> QED BY <1>1, <1>2 DEF Grant

\* Whatever a step does, an account's claims in effect only grow: the resolver's
\* copy and what the broker acts on follow the directory and are never ahead.
LEMMA EffectGrows ==
    ASSUME TypeOK, CopiesInv, [Next]_vars
    PROVE  \A a \in Accounts : Effective[a] \subseteq Effective'[a]
<1> USE DEF TypeOK, CopiesInv, Effective
<1>1. CASE Store BY <1>1 DEF Store
<1>2. CASE RefreshExporter BY <1>2 DEF RefreshExporter, Refresh
<1>3. CASE RefreshImporter BY <1>3 DEF RefreshImporter, Refresh, Return
<1>4. CASE WriteBrokerConfig BY <1>4 DEF WriteBrokerConfig
<1>5. CASE \E a \in Accounts : Connect(a) BY <1>5 DEF Connect
<1>6. CASE UNCHANGED vars BY <1>6 DEF vars
<1>7. CASE PublishClaims \/ Published \/ Bridged \/ (\E g \in Wanted : Begin(g))
           \/ AddExport \/ AddImport \/ Fail \/ RunBroker
  BY <1>7 DEF PublishClaims, Published, Bridged, Begin, AddExport, AddImport, AfterImport,
              Return, Fail, RunBroker
<1> QED BY <1>1, <1>2, <1>3, <1>4, <1>5, <1>6, <1>7 DEF Next

LEMMA TypesKept == GrantsInv /\ [Next]_vars => TypeOK'
<1> SUFFICES ASSUME GrantsInv, [Next]_vars PROVE TypeOK'
  OBVIOUS
<1>g. \A g \in Wanted : /\ ExportOf(g) \in Claim /\ ImportOf(g) \in Claim
                       /\ g.exporter \in Accounts /\ g.importer \in Accounts
  BY ClaimsOfGrants, WantedAssumption
<1> USE DEF GrantsInv, TypeOK, Steps
<1>1. CASE PublishClaims BY <1>1 DEF PublishClaims
<1>2. CASE Published BY <1>2 DEF Published
<1>3. CASE Store BY <1>3 DEF Store
<1>4. CASE Bridged BY <1>4 DEF Bridged, StepsInv
<1>5. CASE \E g \in Wanted : Begin(g) BY <1>5 DEF Begin
<1>6. CASE AddExport BY <1>6, <1>g DEF AddExport, StepsInv
<1>7. CASE AddImport BY <1>7, <1>g DEF AddImport, AfterImport, Return, StepsInv
<1>8. CASE Fail BY <1>8 DEF Fail
<1>9. CASE RefreshExporter BY <1>9, <1>g DEF RefreshExporter, Refresh, StepsInv
<1>10. CASE RefreshImporter BY <1>10, <1>g DEF RefreshImporter, Refresh, Return, StepsInv
<1>11. CASE WriteBrokerConfig BY <1>11 DEF WriteBrokerConfig
<1>12. CASE RunBroker BY <1>12 DEF RunBroker
<1>13. CASE \E a \in Accounts : Connect(a) BY <1>13 DEF Connect
<1>14. CASE UNCHANGED vars BY <1>14 DEF vars
<1> QED BY <1>1, <1>2, <1>3, <1>4, <1>5, <1>6, <1>7, <1>8, <1>9, <1>10, <1>11, <1>12,
           <1>13, <1>14 DEF Next

LEMMA StepsKept == GrantsInv /\ [Next]_vars => StepsInv'
<1> SUFFICES ASSUME GrantsInv, [Next]_vars PROVE StepsInv'
  OBVIOUS
<1> USE DEF GrantsInv, TypeOK, StepsInv, Steps
<1>1. CASE PublishClaims BY <1>1 DEF PublishClaims
<1>2. CASE Published BY <1>2 DEF Published
<1>3. CASE Store BY <1>3 DEF Store
<1>4. CASE Bridged BY <1>4 DEF Bridged
<1>5. CASE \E g \in Wanted : Begin(g)
  BY <1>5, WantedAssumption, NoGrantAssumption DEF Begin
<1>6. CASE AddExport BY <1>6 DEF AddExport
<1>7. CASE AddImport BY <1>7 DEF AddImport, AfterImport, Return
<1>8. CASE Fail BY <1>8 DEF Fail
<1>9. CASE RefreshExporter BY <1>9 DEF RefreshExporter
<1>10. CASE RefreshImporter BY <1>10 DEF RefreshImporter, Return
<1>11. CASE WriteBrokerConfig BY <1>11 DEF WriteBrokerConfig
<1>12. CASE RunBroker BY <1>12 DEF RunBroker
<1>13. CASE \E a \in Accounts : Connect(a) BY <1>13 DEF Connect
<1>14. CASE UNCHANGED vars BY <1>14 DEF vars
<1> QED BY <1>1, <1>2, <1>3, <1>4, <1>5, <1>6, <1>7, <1>8, <1>9, <1>10, <1>11, <1>12,
           <1>13, <1>14 DEF Next

LEMMA CopiesKept == GrantsInv /\ [Next]_vars => CopiesInv'
<1> SUFFICES ASSUME GrantsInv, [Next]_vars PROVE CopiesInv'
  OBVIOUS
<1>g. \A g \in Wanted : /\ ExportOf(g) \in Claim /\ ImportOf(g) \in Claim
                       /\ g.exporter \in Accounts /\ g.importer \in Accounts
  BY ClaimsOfGrants, WantedAssumption
<1>e. \A a \in Accounts : Effective[a] \subseteq Effective'[a]
  BY EffectGrows DEF GrantsInv
<1> USE DEF GrantsInv, TypeOK, StepsInv, CopiesInv, In
<1>1. CASE PublishClaims BY <1>1 DEF PublishClaims
<1>2. CASE Published BY <1>2 DEF Published
<1>3. CASE Store BY <1>3, <1>g DEF Store
<1>4. CASE Bridged BY <1>4, <1>g DEF Bridged
<1>5. CASE \E g \in Wanted : Begin(g) BY <1>5 DEF Begin
<1>6. CASE AddExport BY <1>6, <1>g DEF AddExport
<1>7. CASE AddImport BY <1>7, <1>g DEF AddImport, AfterImport, Return
<1>8. CASE Fail BY <1>8 DEF Fail
<1>9. CASE RefreshExporter BY <1>9, <1>g DEF RefreshExporter, Refresh, Effective
<1>10. CASE RefreshImporter BY <1>10, <1>g DEF RefreshImporter, Refresh, Return
<1>11. CASE WriteBrokerConfig BY <1>11 DEF WriteBrokerConfig
<1>12. CASE RunBroker BY <1>12 DEF RunBroker
<1>13. CASE \E a \in Accounts : Connect(a)
  BY <1>13, <1>g, <1>e DEF Connect
<1>14. CASE UNCHANGED vars BY <1>14 DEF vars, Effective
<1> QED BY <1>1, <1>2, <1>3, <1>4, <1>5, <1>6, <1>7, <1>8, <1>9, <1>10, <1>11, <1>12,
           <1>13, <1>14 DEF Next

LEMMA ImportsKept == GrantsInv /\ [Next]_vars => ImportsInv'
<1> SUFFICES ASSUME GrantsInv, [Next]_vars,
                    NEW a \in Accounts, NEW c \in issued'[a], c.side = "import"
             PROVE  \E g \in (given' \cup {grant'}) \cap Grant : g.importer = a /\ c = ImportOf(g)
  BY DEF ImportsInv
<1>g. \A g \in Wanted : /\ ExportOf(g).side = "export"
                       /\ g \in Grant /\ g.exporter \in Accounts /\ g.importer \in Accounts
  BY ClaimsOfGrants, WantedAssumption
<1> USE DEF GrantsInv, TypeOK, StepsInv, ImportsInv
<1>1. given \cup {grant} \subseteq given' \cup {grant'} \cup {NoGrant}
  <2>1. CASE \E g \in Wanted : Begin(g) BY <2>1 DEF Begin
  <2>2. CASE AddImport BY <2>2 DEF AddImport, AfterImport, Return
  <2>3. CASE RefreshImporter BY <2>3 DEF RefreshImporter, Return
  <2>4. CASE UNCHANGED <<grant, given>> BY <2>4
  <2> QED
    BY <2>1, <2>2, <2>3, <2>4
       DEF Next, vars, PublishClaims, Published, Store, Bridged, AddExport, Fail,
           RefreshExporter, WriteBrokerConfig, RunBroker, Connect
<1>2. CASE c \in issued[a] BY <1>1, <1>2, NoGrantAssumption
<1>3. CASE c \notin issued[a]
  <2>1. AddExport \/ AddImport
    BY <1>3 DEF Next, vars, PublishClaims, Published, Store, Bridged, Begin, Fail,
           RefreshExporter, RefreshImporter, WriteBrokerConfig, RunBroker, Connect
  <2>2. ~AddExport BY <1>3, <1>g DEF AddExport
  <2>3. grant \in Wanted /\ a = grant.importer /\ c = ImportOf(grant)
    BY <2>1, <2>2, <1>3, <1>g DEF AddImport
  <2> QED BY <2>3, <1>1, <1>g, NoGrantAssumption
<1> QED BY <1>2, <1>3

\* Grant returns with its two halves in effect, and EffectGrows keeps them there.
LEMMA EffectKept == GrantsInv /\ [Next]_vars => GrantTakesEffect'
<1> SUFFICES ASSUME GrantsInv, [Next]_vars, running', NEW h \in given'
             PROVE  Flows(h)'
  BY DEF GrantTakesEffect
<1>e. \A a \in Accounts : Effective[a] \subseteq Effective'[a]
  BY EffectGrows DEF GrantsInv
<1>g. \A g \in Wanted : /\ ExportOf(g) \in Claim /\ ImportOf(g) \in Claim
                       /\ g.exporter \in Accounts /\ g.importer \in Accounts
  BY ClaimsOfGrants, WantedAssumption
<1> USE DEF GrantsInv, TypeOK, StepsInv
<1>1. CASE running /\ h \in given
  BY <1>1, <1>e, <1>g DEF GrantTakesEffect, Flows
<1>2. CASE ~running
  <2>1. CASE Bridged BY <2>1, <1>2 DEF Bridged
  <2>2. CASE RunBroker
    <3>1. h \in given /\ In(handed', h) /\ loaded' = {}
      BY <2>2, <1>2 DEF RunBroker, CopiesInv
    <3> QED BY <3>1, <1>g DEF In, Flows, Effective
  <2> QED
    BY <2>1, <2>2, <1>2
       DEF Next, vars, PublishClaims, Published, Store, Begin, AddExport, AddImport, Fail,
           RefreshExporter, RefreshImporter, WriteBrokerConfig, Connect
<1>3. CASE running /\ h \notin given
  <2>1. RefreshImporter
    BY <1>3
       DEF Next, vars, PublishClaims, Published, Store, Bridged, Begin, AddExport, AddImport,
           AfterImport, Return, Fail, RefreshExporter, WriteBrokerConfig, RunBroker, Connect
  <2>2. h = grant /\ grant \in Wanted BY <2>1, <1>3 DEF RefreshImporter, Return
  <2>3. In(issued, grant) /\ handed = issued /\ ExportOf(grant) \in Effective[grant.exporter]
    BY <2>1 DEF RefreshImporter, CopiesInv
  <2>4. ImportOf(grant) \in Effective'[grant.importer]
    BY <2>1, <2>2, <2>3, <1>g DEF RefreshImporter, Refresh, In, Effective
  <2> QED BY <2>2, <2>3, <2>4, <1>e, <1>g DEF Flows
<1> QED BY <1>1, <1>2, <1>3

THEOREM GrantsInvariant == Spec => []GrantsInv
<1>1. Init => GrantsInv
  <2> SUFFICES ASSUME Init PROVE GrantsInv
    OBVIOUS
  <2> USE DEF Init, Bare
  <2>1. TypeOK BY DEF TypeOK, Steps
  <2>2. StepsInv BY DEF StepsInv
  <2>3. CopiesInv BY DEF CopiesInv
  <2>4. ImportsInv BY DEF ImportsInv
  <2>5. GrantTakesEffect BY DEF GrantTakesEffect
  <2> QED BY <2>1, <2>2, <2>3, <2>4, <2>5 DEF GrantsInv
<1>2. GrantsInv /\ [Next]_vars => GrantsInv'
  BY TypesKept, StepsKept, CopiesKept, ImportsKept, EffectKept DEF GrantsInv
<1> QED BY <1>1, <1>2, PTL DEF Spec

\* Type correctness, for any accounts and grants.
THEOREM GrantsTypes == Spec => []TypeOK
BY GrantsInvariant, PTL DEF GrantsInv

\* A grant Grant returned from is in effect at a running broker, whoever connected
\* before, during or after it.
THEOREM GrantsEffective == Spec => []GrantTakesEffect
BY GrantsInvariant, PTL DEF GrantsInv

\* Nothing flows between two accounts that was not granted to exactly these two:
\* what is in effect was issued, and an import is issued for a grant only.
THEOREM NothingElseFlows == Spec => []OnlyGrantsFlow
<1>1. GrantsInv => OnlyGrantsFlow
  <2> SUFFICES ASSUME GrantsInv, NEW g \in Grant, Flows(g) PROVE g \in given \cup {grant}
    BY DEF OnlyGrantsFlow
  <2>1. g.importer \in Accounts /\ ImportOf(g).side = "import" BY ClaimsOfGrants
  <2>2. ImportOf(g) \in issued[g.importer]
    BY <2>1 DEF GrantsInv, CopiesInv, Flows, Effective
  <2>3. PICK h \in (given \cup {grant}) \cap Grant :
            h.importer = g.importer /\ ImportOf(g) = ImportOf(h)
    BY <2>1, <2>2 DEF GrantsInv, ImportsInv
  <2> QED BY <2>3, ImportNamesGrant
<1> QED BY <1>1, GrantsInvariant, PTL

\* A grant in effect is never taken out of effect by what the harness does later.
THEOREM GrantsKept == Spec => GrantsStayInEffect
<1>1. GrantsInv /\ [Next]_vars => [\A g \in Wanted : running /\ Flows(g) => Flows(g)']_vars
  <2> SUFFICES ASSUME GrantsInv, [Next]_vars, NEW g \in Wanted, Flows(g) PROVE Flows(g)'
    OBVIOUS
  <2>1. g.exporter \in Accounts /\ g.importer \in Accounts
    BY ClaimsOfGrants, WantedAssumption
  <2> QED BY <2>1, EffectGrows DEF GrantsInv, Flows
<1> QED BY <1>1, GrantsInvariant, PTL DEF Spec, GrantsStayInEffect
=============================================================================
