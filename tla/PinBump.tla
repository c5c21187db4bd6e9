------------------------------- MODULE PinBump -------------------------------
(***************************************************************************)
(* How the oss pin moves: oss-crosscheck proves a revision, oss-pin-bump   *)
(* prepares a branch and an issue, people review, merge and release.       *)
(*                                                                         *)
(* A run of oss-pin-bump is a sequence of calls to GitHub, and everybody   *)
(* else may act between any two of them: other crosschecks end in any      *)
(* order, people push to the branch, open, read and merge the pull         *)
(* request.  The state the calls share is the branch, the pull request,    *)
(* the issue and the default branch; a commit of the default branch is     *)
(* named by its position, and what matters of it is its OSS_REF.           *)
(***************************************************************************)
EXTENDS Naturals, Sequences, FiniteSets, SequencesExt

CONSTANTS Revisions,     \* commits of provin-line/oss
          Heads,         \* those that oss's default branch is ever at
          Before,        \* <<a, b>>: GitHub compares a...b as "ahead"
          FirstPin,      \* OSS_REF at the start
          NoRevision,    \* the absence of a revision
          Runs,          \* names for runs of oss-pin-bump
          MaxChecks,     \* bound: crosschecks under way at once
          MaxCommits,    \* bound: commits of the default branch
          DispatchRefs,  \* where oss-pin-bump is dispatched from
          Failures       \* whether crosschecks, runs and calls may fail

ASSUME BeforeAssumption ==
    /\ Before \subseteq Revisions \X Revisions
    /\ \A a \in Revisions : <<a, a>> \notin Before
ASSUME HeadsAssumption == Heads \subseteq Revisions
ASSUME PinAssumption  == FirstPin \in Revisions /\ NoRevision \notin Revisions
ASSUME RunsAssumption == Cardinality(Runs) >= 2
ASSUME BoundsAssumption == MaxChecks \in Nat /\ MaxCommits \in Nat \ {0} /\ Failures \in BOOLEAN
ASSUME RefsAssumption == DispatchRefs \subseteq {"main", "work"}

VARIABLES
  head,         \* oss: its default branch
  checks,       \* crosschecks under way, in the order they were created
  newestGreen,  \* revision of the newest crosscheck that succeeded
  proven,       \* history: every revision a crosscheck succeeded on
  main,         \* OSS_REF in each commit of the default branch
  develop,      \* OSS_REF on develop, where feature work is merged
  branch,       \* tip of chore/bump-oss-pin
  pull,         \* where the open pull request from it goes, or "closed"
  issues,       \* open tracking issues
  run           \* what each run of oss-pin-bump has read so far

sharedVars == <<branch, pull, issues>>
codeVars   == <<main, develop>>
checkVars  == <<head, checks, newestGreen, proven>>
vars       == <<sharedVars, codeVars, checkVars, run>>

MaybeRevision == Revisions \cup {NoRevision}
NoBranch == [by |-> "nobody", names |-> NoRevision, base |-> 0]
Tip      == [by : {"bot", "human"}, names : Revisions, base : 1..MaxCommits]

Steps   == {"evidence", "decide", "pulls", "remote", "fetch", "push", "issue", "write",
            "closing", "close"}
NoRun   == [at |-> "idle", tested |-> NoRevision, green |-> FALSE, dry |-> FALSE, sha |-> 1,
            target |-> NoRevision, tip |-> NoBranch, known |-> FALSE]
Run     == [at : {"idle", "pending"} \cup Steps, tested : MaybeRevision, green : BOOLEAN,
            dry : BOOLEAN, sha : 1..MaxCommits, target : MaybeRevision,
            tip : Tip \cup {NoBranch}, known : BOOLEAN]

Pins   == main[Len(main)]
Active == {r \in Runs : run[r].at \in Steps}

Init ==
    /\ head = FirstPin /\ checks = <<>> /\ newestGreen = NoRevision /\ proven = {}
    /\ main = <<FirstPin>> /\ develop = FirstPin
    /\ branch = NoBranch /\ pull = "closed" /\ issues = 0
    /\ run = [r \in Runs |-> NoRun]

-----------------------------------------------------------------------------
(***************************************************************************)
(* oss and oss-crosscheck.                                                 *)
(***************************************************************************)

\* The product's default branch moves, or is rewritten.
OssMoves(rev) ==
    /\ head' = rev
    /\ UNCHANGED <<checks, newestGreen, proven, codeVars, sharedVars, run>>

\* A crosscheck records the pair it tests before it tests it.
StartCheck ==
    /\ Len(checks) < MaxChecks
    /\ checks' = Append(checks, [oss |-> head, overtaken |-> FALSE])
    /\ UNCHANGED <<head, newestGreen, proven, codeVars, sharedVars, run>>

\* One run of the group runs, one waits; a newer one takes the place of the
\* one that waits.  A run is given the default branch's commit of this moment.
Enqueue(r, trigger) ==
    /\ run[r].at = IF \E q \in Runs : run[q].at = "pending" THEN "pending" ELSE "idle"
    /\ run' = [run EXCEPT ![r] = trigger]

Completed(oss, success) ==
    [NoRun EXCEPT !.at = "pending", !.tested = oss, !.green = success, !.sha = Len(main)]

\* Crosschecks end in any order, and every completion triggers a run.
EndCheck(i, success) ==
    /\ success \/ Failures
    /\ \E r \in Runs : Enqueue(r, Completed(checks[i].oss, success))
    /\ newestGreen' = IF success /\ ~checks[i].overtaken THEN checks[i].oss ELSE newestGreen
    /\ proven' = IF success THEN proven \cup {checks[i].oss} ELSE proven
    /\ checks' = RemoveAt([j \in DOMAIN checks |->
                     [checks[j] EXCEPT !.overtaken = @ \/ (success /\ j < i)]], i)
    /\ UNCHANGED <<head, codeVars, sharedVars>>

-----------------------------------------------------------------------------
(***************************************************************************)
(* A run of oss-pin-bump, one action per call.                             *)
(***************************************************************************)

\* workflow_dispatch: dry when asked for, and always off the default branch.
Dispatch(ref, dryRun) ==
    /\ ref \in DispatchRefs
    /\ \E r \in Runs :
         Enqueue(r, [NoRun EXCEPT !.at = "pending", !.green = TRUE, !.sha = Len(main),
                                  !.dry = dryRun \/ ref # "main"])
    /\ UNCHANGED <<checkVars, codeVars, sharedVars>>

\* The run goes on to a step, is done with what it read so far, or is over.
Goes(r, at)  == run' = [run EXCEPT ![r].at = at]
Leaps(r, at) == run' = [run EXCEPT ![r] = [NoRun EXCEPT !.at = at, !.dry = run[r].dry]]
Over(r)      == run' = [run EXCEPT ![r] = NoRun]
OnlyReads    == UNCHANGED <<checkVars, codeVars, sharedVars>>

\* Mutant: runs of the group are not queued behind each other.
StartUnqueued(r) ==
    /\ run[r].at = "pending"
    /\ IF run[r].green THEN Goes(r, "evidence") ELSE Over(r)
    /\ OnlyReads

\* The job's own condition: silent unless the pair worked.
Start(r) ==
    /\ run[r].at = "pending" /\ Active = {}
    /\ IF run[r].green THEN Goes(r, "evidence") ELSE Over(r)
    /\ OnlyReads

\* Mutant: the revision is derived again from oss instead of read from the run.
FindEvidenceAnew(r) ==
    /\ run[r].at = "evidence"
    /\ run' = [run EXCEPT ![r].at = "decide", ![r].target = head]
    /\ OnlyReads

\* The pair artifact of the triggering run, or of the newest green one; an
\* older run's artifact may be gone.
FindEvidence(r) ==
    /\ run[r].at = "evidence"
    /\ LET found == IF run[r].tested # NoRevision THEN run[r].tested ELSE newestGreen
       IN  \/ /\ found # NoRevision
              /\ run' = [run EXCEPT ![r] = [@ EXCEPT !.at = "decide", !.target = found,
                                                     !.tested = NoRevision]]
           \/ run[r].tested = NoRevision /\ Over(r)
    /\ OnlyReads

\* A pin only ever moves forward: from the OSS_REF this run checked out.
Decide(r) ==
    /\ run[r].at = "decide"
    /\ IF <<main[run[r].sha], run[r].target>> \in Before
       THEN Goes(r, "pulls") ELSE Leaps(r, "closing")
    /\ OnlyReads

\* gh pr list: an open pull request is left alone (in-review).
ListPulls(r) ==
    /\ run[r].at = "pulls"
    /\ IF pull # "closed" THEN Leaps(r, "issue") ELSE Goes(r, "remote")
    /\ OnlyReads

\* git ls-remote: with no branch, the lease is that there is none.  A call
\* that fails reads as no branch.
LsRemote(r) ==
    /\ run[r].at = "remote"
    /\ \/ /\ branch = NoBranch \/ Failures
          /\ run' = [run EXCEPT ![r].at = "push", ![r].tip = NoBranch]
       \/ branch # NoBranch /\ Goes(r, "fetch")
    /\ OnlyReads

\* Mutant: a branch left alone is not worth an issue.
FetchTipSilently(r) ==
    /\ run[r].at = "fetch"
    /\ IF branch.by # "bot" \/ branch.names = run[r].target
       THEN Over(r)
       ELSE run' = [run EXCEPT ![r].at = "push", ![r].tip = branch]
    /\ OnlyReads

\* git fetch: a tip this job did not write is left alone (blocked), and so is
\* one that already names the target (unchanged).
FetchTip(r) ==
    /\ run[r].at = "fetch"
    /\ \/ branch = NoBranch /\ Over(r)
       \/ branch # NoBranch
          /\ IF branch.by # "bot" \/ branch.names = run[r].target
             THEN Leaps(r, "issue")
             ELSE run' = [run EXCEPT ![r].at = "push", ![r].tip = branch]
    /\ OnlyReads

BumpOnto(sha, target) == [by |-> "bot", names |-> target, base |-> sha]

\* Mutant: a plain force push.
PushForced(r) ==
    /\ run[r].at = "push"
    /\ IF run[r].dry THEN branch' = branch ELSE branch' = BumpOnto(run[r].sha, run[r].target)
    /\ Leaps(r, "issue")
    /\ UNCHANGED <<checkVars, codeVars, pull, issues>>

\* Mutant: the commit is made on the default branch's newest commit, not on the
\* one this run was given and decided about.
PushOntoNewest(r) ==
    /\ run[r].at = "push"
    /\ \/ run[r].dry /\ Leaps(r, "issue") /\ UNCHANGED branch
       \/ ~run[r].dry /\ branch = run[r].tip /\ Leaps(r, "issue")
          /\ branch' = BumpOnto(Len(main), run[r].target)
       \/ ~run[r].dry /\ branch # run[r].tip /\ Over(r) /\ UNCHANGED branch
    /\ UNCHANGED <<checkVars, codeVars, pull, issues>>

\* The commit, then git push --force-with-lease: a tip other than the one
\* inspected fails the run.
Push(r) ==
    /\ run[r].at = "push"
    /\ \/ run[r].dry /\ Leaps(r, "issue") /\ UNCHANGED branch
       \/ ~run[r].dry /\ branch = run[r].tip /\ Leaps(r, "issue")
          /\ branch' = BumpOnto(run[r].sha, run[r].target)
       \/ ~run[r].dry /\ branch # run[r].tip /\ Over(r) /\ UNCHANGED branch
    /\ UNCHANGED <<checkVars, codeVars, pull, issues>>

\* gh issue list, then edit what was found or create.
ListIssues(r) ==
    /\ run[r].at = "issue"
    /\ run' = [run EXCEPT ![r].at = "write", ![r].known = issues > 0]
    /\ OnlyReads

WriteIssue(r) ==
    /\ run[r].at = "write"
    /\ issues' = IF run[r].dry \/ run[r].known THEN issues ELSE issues + 1
    /\ Over(r)
    /\ UNCHANGED <<checkVars, codeVars, branch, pull>>

\* gh issue list, then close what was found.
ListForClose(r) ==
    /\ run[r].at = "closing"
    /\ IF issues > 0 THEN Goes(r, "close") ELSE Over(r)
    /\ OnlyReads

\* Mutant: the closing step closes nothing.
CloseNothing(r) == run[r].at = "close" /\ Over(r) /\ OnlyReads

CloseIssue(r) ==
    /\ run[r].at = "close"
    /\ issues' = IF run[r].dry \/ issues = 0 THEN issues ELSE issues - 1
    /\ Over(r)
    /\ UNCHANGED <<checkVars, codeVars, branch, pull>>

\* Any call may fail, and the run with it.
Fail(r) == Failures /\ run[r].at \in Steps /\ Over(r) /\ OnlyReads

RunStep(r) ==
    \/ FindEvidence(r) \/ Decide(r) \/ ListPulls(r) \/ LsRemote(r) \/ FetchTip(r) \/ Push(r)
    \/ ListIssues(r) \/ WriteIssue(r) \/ ListForClose(r) \/ CloseIssue(r)

-----------------------------------------------------------------------------
(***************************************************************************)
(* People.                                                                 *)
(***************************************************************************)

\* Someone takes the branch to fix a bump by hand.
TakeBranch(rev) ==
    /\ branch' = [by |-> "human", names |-> rev, base |-> Len(main)]
    /\ UNCHANGED <<checkVars, codeVars, pull, issues, run>>

\* Deleting a branch closes its pull request.
DeleteBranch ==
    /\ branch # NoBranch
    /\ branch' = NoBranch /\ pull' = "closed"
    /\ UNCHANGED <<checkVars, codeVars, issues, run>>

OpenPull(into) ==
    /\ branch # NoBranch /\ pull = "closed"
    /\ pull' = into
    /\ UNCHANGED <<checkVars, codeVars, branch, issues, run>>

ClosePull ==
    /\ pull # "closed"
    /\ pull' = "closed"
    /\ UNCHANGED <<checkVars, codeVars, branch, issues, run>>

\* branch-guard: main takes develop and this repository's hotfix/* and release/*.
\* "fork" is any branch of a fork, whatever its name.
GuardAllows(into, from) == into = "main" => from \in {"develop", "hotfix", "release"}

\* A three-way merge of one line: only a side that still has the base's value
\* takes the other's.
Mergeable == develop \in {main[branch.base], branch.names}

MergePull ==
    /\ pull # "closed" /\ GuardAllows(pull, "chore/bump-oss-pin")
    /\ Mergeable
    /\ develop' = branch.names /\ pull' = "closed"
    /\ UNCHANGED <<checkVars, main, branch, issues, run>>

\* develop reaches the default branch by a release merge, of itself or of a
\* release branch cut from it.
Release(from) ==
    /\ develop # Pins /\ Len(main) < MaxCommits
    /\ GuardAllows("main", from)
    /\ main' = Append(main, develop)
    /\ UNCHANGED <<checkVars, develop, sharedVars, run>>

\* A fix of something else: OSS_REF moves by way of develop alone.
Patch(from) ==
    /\ Len(main) < MaxCommits
    /\ GuardAllows("main", from)
    /\ main' = Append(main, Pins)
    /\ UNCHANGED <<checkVars, develop, sharedVars, run>>

DismissIssue ==
    /\ issues > 0
    /\ issues' = issues - 1
    /\ UNCHANGED <<checkVars, codeVars, branch, pull, run>>

People ==
    \/ \E rev \in Revisions : TakeBranch(rev)
    \/ DeleteBranch \/ \E into \in {"main", "develop"} : OpenPull(into)
    \/ ClosePull \/ MergePull \/ DismissIssue
    \/ \E from \in {"develop", "release"} : Release(from)
    \/ \E from \in {"hotfix", "fork"} : Patch(from)

Next ==
    \/ \E rev \in Heads : OssMoves(rev)
    \/ StartCheck \/ \E i \in DOMAIN checks, success \in BOOLEAN : EndCheck(i, success)
    \/ \E ref \in DispatchRefs, dryRun \in BOOLEAN : Dispatch(ref, dryRun)
    \/ \E r \in Runs : Start(r) \/ RunStep(r) \/ Fail(r)
    \/ People

Spec == Init /\ [][Next]_vars

\* The nightly crosscheck keeps being run and keeps ending; GitHub starts what
\* it queued and a run goes on.
Fairness ==
    /\ WF_vars(StartCheck)
    /\ WF_vars(\E i \in DOMAIN checks : EndCheck(i, TRUE))
    /\ \A r \in Runs : WF_vars(Start(r)) /\ WF_vars(RunStep(r))

FairSpec == Spec /\ Fairness

-----------------------------------------------------------------------------
(***************************************************************************)
(* Properties.                                                             *)
(***************************************************************************)
TypeOK ==
    /\ head \in Revisions /\ newestGreen \in MaybeRevision /\ proven \subseteq Revisions
    /\ checks \in Seq([oss : Revisions, overtaken : BOOLEAN])
    /\ main \in Seq(Revisions) /\ Len(main) \in 1..MaxCommits /\ develop \in Revisions
    /\ branch \in Tip \cup {NoBranch} /\ pull \in {"closed", "main", "develop"} /\ issues \in Nat
    /\ run \in [Runs -> Run]

\* A tip someone else wrote is never overwritten by the job, whenever it was
\* pushed: the ownership check and the push are calls apart (oss-pin-bump.yml,
\* reason 2 and the lease).
HumanWorkIsKept ==
    [][branch.by = "human" /\ branch' # branch => branch'.by # "bot"]_vars

\* What the job proposes was proven green, though oss moves on while the pair
\* runs and crosschecks end in any order (oss-crosscheck.yml: the pair artifact).
ProposalWasProven == branch.by = "bot" => branch.names \in proven

\* Merging what the job prepared moves the pin forward, also when the run that
\* prepared it had waited behind others and read an old default branch.
PinMovesForward ==
    [][branch.by = "bot" /\ develop' # develop => <<develop, develop'>> \in Before]_vars

\* The job never files a second issue: between its listing and its filing no
\* other run of the group files one.
OneIssue == issues <= 1

\* Once the pin names oss's revision for good, the issue is closed for good.
IssueClosesItself == <>[](Pins = head) => <>[](issues = 0)

\* Once oss stays ahead of the pin and people leave the branch alone, there is
\* an open issue again and again, whoever dismisses it.
BehindIsTracked ==
    <>[](<<Pins, head>> \in Before) /\ <>[][branch' = branch \/ branch'.by = "bot"]_vars
        => []<>(issues > 0)

\* The issue is closed by the job only when nothing newer was proven
\* (oss-pin-bump.yml: "Nothing left to bump").
ClosedMeansCaughtUp ==
    [][\A r \in Runs : run[r].at = "close" /\ issues' < issues /\ run'[r] # run[r]
           => \A rev \in proven : <<Pins, rev>> \notin Before]_vars
=============================================================================
