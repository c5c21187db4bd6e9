----------------------------- MODULE Scenarios -----------------------------
(***************************************************************************)
(* The scenarios' topologies and test bodies.  A subject bears the name of *)
(* the loop whose output-subject it is.  Left out are the reads that find   *)
(* what the data plane's own properties already say of it: the walks over  *)
(* previousCredential and ListSuccessors, the re-verification, the bundle. *)
(***************************************************************************)
EXTENDS Naturals, Sequences

Loop(org, role, hears, says, drops) ==
    [org |-> org, role |-> role, hears |-> hears, says |-> says, drops |-> drops]

Source(says)         == Loop("acme", "source", "ingress", says, {})
Chained(hears, says) == Loop("acme", "chained", hears, says, {})
Sink(hears)          == Loop("acme", "sink", hears, "", {})
OneNode(loops)       == [loops |-> loops, grants |-> {}]

Raw(body) == [body |-> body, intact |-> TRUE, lineage |-> <<>>]

Gate(subject)      == [op |-> "gate", arg |-> subject]
Stimulate(body)    == [op |-> "publish", org |-> "acme", subject |-> "ingress", msg |-> Raw(body)]
First(sink, body)  == [op |-> "first", sink |-> sink, body |-> body]
Record(sink, body) == [op |-> "record", sink |-> sink, body |-> body]
Audited(sink, body) == [op |-> "audit", sink |-> sink, body |-> body]
Do(op)             == [op |-> op]

-----------------------------------------------------------------------------
SimpleLoops ==
    OneNode([src |-> Source("src"), relay |-> Chained("src", "relay"), archive |-> Sink("relay")])

SimpleBody ==
    <<Gate("ingress"), Stimulate("r42"), First("archive", "r42"), Audited("archive", "r42")>>

\* Two chained loops on one source, told apart by their filters.
BranchingLoops ==
    OneNode([src |-> Source("src"),
             high |-> Loop("acme", "chained", "src", "high", {"r3"}),
             low |-> Loop("acme", "chained", "src", "low", {"r42"}),
             archive_high |-> Sink("high"), archive_low |-> Sink("low")])

BranchingBody ==
    <<Gate("ingress"), Stimulate("r42"), Stimulate("r3"),
      [op |-> "each", sinks |-> {"archive_high", "archive_low"}],
      Do("settle"),
      [op |-> "matrix", want |-> [archive_high |-> "r42", archive_low |-> "r3"]]>>

\* E2E_LONGCHAIN_HOPS chained loops in a row: three of them here.
LongChainLoops ==
    OneNode([src |-> Source("src"),
             hop1 |-> Chained("src", "hop1"), hop2 |-> Chained("hop1", "hop2"),
             hop3 |-> Chained("hop2", "hop3"), archive |-> Sink("hop3")])

LongChainBody ==
    <<Gate("ingress"), Stimulate("r7"), First("archive", "r7"), Audited("archive", "r7")>>

RecallLoops ==
    OneNode([src |-> Source("src"),
             brancha |-> Chained("src", "brancha"), branchb |-> Chained("src", "branchb"),
             archive_a |-> Sink("brancha"), archive_b |-> Sink("branchb")])

RecallBody ==
    <<Gate("ingress"), Stimulate("lot"), [op |-> "heads", count |-> 2],
      Audited("archive_a", "lot"), Audited("archive_b", "lot")>>

PushLoops ==
    OneNode([src |-> Source("src"), archive |-> Sink("src")])

\* post: what the edge refuses is not to leave a trace.
Post(body, admitted) ==
    [op |-> "push", admitted |-> admitted, org |-> "acme", subject |-> "ingress",
     msg |-> [body |-> body, intact |-> admitted, lineage |-> <<>>]]

HTTPIngestBody ==
    <<Gate("src"), [op |-> "health", arg |-> "src"],
      Post("unauthenticated", FALSE), Post("duplicate-key", FALSE), Post("lot", TRUE),
      First("archive", "lot"), Audited("archive", "lot"),
      [op |-> "matrix", want |-> [archive |-> "lot"]]>>

AuditSurvivalLoops ==
    OneNode([src |-> Source("src"), archive |-> Sink("src")])

AuditSurvivalBody ==
    <<Gate("ingress"), Gate("src"),
      Stimulate("r42"), Record("archive", "r42"), Audited("archive", "r42"),
      Do("restart"), Gate("ingress"), Gate("src"),
      Stimulate("r43"), Record("archive", "r43"), Audited("archive", "r43"),
      [op |-> "evidence", sink |-> "archive", body |-> "r42"]>>

ArchiveVerifyLoops == SimpleLoops

ArchiveVerifyBody ==
    <<Gate("ingress"), Gate("src"), Gate("relay"),
      Stimulate("r42"), First("archive", "r42"), Do("stop")>>

\* Three organisations, and two sinks of the retailer's on one subject.
SupplyChainLoops ==
    [loops |-> [reporter |-> Loop("mfg", "source", "ingress", "lot", {}),
                relay    |-> Loop("dist", "chained", "lot", "dist", {}),
                intake   |-> Loop("retail", "sink", "dist", "", {}),
                strict_intake |-> Loop("retail", "strict", "dist", "", {})],
     grants |-> {<<"mfg", "dist", "lot">>, <<"dist", "retail", "dist">>}]

FromManufacturer(subject, msg) ==
    [op |-> "publish", org |-> "mfg", subject |-> subject, msg |-> msg]

SupplyChainGates == <<Gate("ingress"), Gate("lot"), Gate("dist")>>

\* The lot, the lot's credential with another payload, and a record that is
\* signed although it makes no sense.
SupplyChainBody ==
    SupplyChainGates \o
    <<FromManufacturer("ingress", Raw("lot")), First("intake", "lot"),
      [op |-> "quarantine", sink |-> "strict_intake"],
      [op |-> "mark", sink |-> "intake"],
      FromManufacturer("lot", [body |-> "substituted", intact |-> FALSE, lineage |-> <<"reporter">>]),
      Do("settle"), [op |-> "unmoved", sink |-> "intake"],
      FromManufacturer("ingress", Raw("semantic")), Record("intake", "semantic"),
      Audited("intake", "lot")>>

-----------------------------------------------------------------------------
Topologies ==
    [simple |-> SimpleLoops, branching |-> BranchingLoops, longchain |-> LongChainLoops,
     recall |-> RecallLoops, httpingest |-> PushLoops, auditsurvival |-> AuditSurvivalLoops,
     archiveverify |-> ArchiveVerifyLoops, supplychain |-> SupplyChainLoops]

Bodies ==
    [simple |-> SimpleBody, branching |-> BranchingBody, longchain |-> LongChainBody,
     recall |-> RecallBody, httpingest |-> HTTPIngestBody, auditsurvival |-> AuditSurvivalBody,
     archiveverify |-> ArchiveVerifyBody, supplychain |-> SupplyChainBody]

Of(stories, f) == [s \in stories |-> f[s]]
Ungated == {"simple", "branching", "longchain", "recall"}
=============================================================================
