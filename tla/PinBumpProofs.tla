---------------------------- MODULE PinBumpProofs ----------------------------
(***************************************************************************)
(* For any set of revisions, any order of the commits and any number of    *)
(* runs: the job overwrites nobody's work, files one issue, and what it    *)
(* prepares only ever moves the pin forward.                               *)
(***************************************************************************)
EXTENDS PinBump, TLAPS

-----------------------------------------------------------------------------
(***************************************************************************)
(* The type invariant rests on what a run knows of the order of commits:   *)
(* from Decide to Push its target is ahead of the pin of the commit it     *)
(* checked out, so what Push names is a revision, and one ahead of the     *)
(* commit it is pushed on.                                                 *)
(***************************************************************************)
ChecksOK ==
    /\ head \in Revisions /\ newestGreen \in MaybeRevision /\ proven \subseteq Revisions
    /\ checks \in Seq([oss : Revisions, overtaken : BOOLEAN])

CodeOK == main \in Seq(Revisions) /\ Len(main) \in 1..MaxCommits /\ develop \in Revisions

TipIsAhead ==
    branch # NoBranch =>
        /\ branch.base <= Len(main)
        /\ branch.by = "bot" => <<main[branch.base], branch.names>> \in Before

SharedOK ==
    /\ branch \in Tip \cup {NoBranch} /\ pull \in {"closed", "main", "develop"}
    /\ issues \in Nat /\ TipIsAhead
    /\ pull # "closed" => branch # NoBranch

Bumping == {"pulls", "remote", "fetch", "push"}

\* What is known of the record of a run.
Knows(x) ==
    /\ x.sha <= Len(main) /\ x.tip.by # "human"
    /\ x.at \in Bumping => <<main[x.sha], x.target>> \in Before

RunsOK == run \in [Runs -> Run] /\ \A r \in Runs : Knows(run[r])

ForwardInv == ChecksOK /\ CodeOK /\ SharedOK /\ RunsOK

\* The parts of the invariant a step leaves alone.
LEMMA ChecksKept == ChecksOK /\ UNCHANGED checkVars => ChecksOK'
BY DEF ChecksOK, checkVars

LEMMA CodeKept == CodeOK /\ UNCHANGED codeVars => CodeOK'
BY DEF CodeOK, codeVars

LEMMA SharedKept == SharedOK /\ UNCHANGED <<sharedVars, main>> => SharedOK'
BY DEF SharedOK, TipIsAhead, sharedVars

LEMMA RunsKept == RunsOK /\ UNCHANGED <<run, main>> => RunsOK'
BY DEF RunsOK, Knows

\* A step that moves one run on: the run's new record is all there is to know.
LEMMA RunMoves ==
  ASSUME RunsOK, UNCHANGED main, NEW r \in Runs, NEW new \in Run, Knows(new),
         run' = [run EXCEPT ![r] = new]
  PROVE  RunsOK'
BY DEF RunsOK, Knows

LEMMA NoRunType == NoRun \in Run /\ NoRun.sha = 1 /\ NoRun.tip = NoBranch /\ NoRun.at = "idle"
BY BoundsAssumption DEF NoRun, Run, Steps, Tip, NoBranch, MaybeRevision

\* The three ways a run leaves a step.
LEMMA OverKeeps ==
  ASSUME RunsOK, CodeOK, UNCHANGED main, NEW r \in Runs, Over(r)
  PROVE  RunsOK'
<1>1. Knows(NoRun)
  BY NoRunType DEF Knows, Bumping, CodeOK, NoBranch
<1> QED  BY <1>1, NoRunType, RunMoves DEF Over

LEMMA LeapsKeeps ==
  ASSUME RunsOK, CodeOK, UNCHANGED main, NEW r \in Runs, NEW at \in Steps \ Bumping, Leaps(r, at)
  PROVE  RunsOK'
<1>1. PICK new : new = [NoRun EXCEPT !.at = at, !.dry = run[r].dry]
  OBVIOUS
<1>2. /\ new \in Run /\ new.sha = 1 /\ new.tip = NoBranch /\ new.at = at
  <2>1. run[r].dry \in BOOLEAN
    BY DEF RunsOK, Run
  <2> QED  BY <1>1, <2>1, NoRunType DEF Run
<1>3. Knows(new)
  BY <1>2 DEF Knows, Bumping, CodeOK, NoBranch
<1>4. run' = [run EXCEPT ![r] = new]
  BY <1>1 DEF Leaps
<1> QED  BY <1>2, <1>3, <1>4, RunMoves

LEMMA GoesKeeps ==
  ASSUME RunsOK, UNCHANGED main, NEW r \in Runs, NEW at \in Steps, Goes(r, at),
         at \in Bumping => <<main[run[r].sha], run[r].target>> \in Before
  PROVE  RunsOK'
<1>1. PICK new : new = [run[r] EXCEPT !.at = at]
  OBVIOUS
<1>2. /\ new \in Run /\ new.sha = run[r].sha /\ new.tip = run[r].tip /\ new.at = at
      /\ new.target = run[r].target
  BY <1>1 DEF RunsOK, Run
<1>3. Knows(new)
  BY <1>2 DEF Knows, RunsOK
<1>4. run' = [run EXCEPT ![r] = new]
  BY <1>1 DEF Goes
<1> QED  BY <1>2, <1>3, <1>4, RunMoves

LEMMA ElementType ==
  ASSUME NEW S, NEW q \in Seq(S), NEW i \in DOMAIN q
  PROVE  q[i] \in S
OBVIOUS

\* Dropping an element of a sequence leaves a sequence of its elements.
LEMMA RemoveAtType ==
  ASSUME NEW S, NEW q \in Seq(S), NEW i \in DOMAIN q
  PROVE  RemoveAt(q, i) \in Seq(S)
<1>1. i \in 1..Len(q)
  OBVIOUS
<1>2. SubSeq(q, 1, i - 1) \in Seq(S) /\ SubSeq(q, i + 1, Len(q)) \in Seq(S)
  BY <1>1
<1> QED  BY <1>2 DEF RemoveAt

LEMMA ForwardInit == Init => ForwardInv
<1> SUFFICES ASSUME Init PROVE ForwardInv
  OBVIOUS
<1>1. CodeOK /\ main = <<FirstPin>> /\ Len(main) = 1
  BY PinAssumption, BoundsAssumption DEF Init, CodeOK
<1>2. ChecksOK
  BY PinAssumption DEF Init, ChecksOK, MaybeRevision
<1>3. SharedOK
  BY DEF Init, SharedOK, TipIsAhead
<1>4. Knows(NoRun)
  BY <1>1, NoRunType DEF Knows, Bumping, NoBranch
<1> QED  BY <1>1, <1>2, <1>3, <1>4, NoRunType DEF Init, ForwardInv, RunsOK

-----------------------------------------------------------------------------
(***************************************************************************)
(* The steps of a run that only read.                                      *)
(***************************************************************************)
Reads(r) == \/ Start(r) \/ Fail(r) \/ FindEvidence(r) \/ Decide(r) \/ ListPulls(r)
            \/ LsRemote(r) \/ FetchTip(r) \/ ListIssues(r) \/ ListForClose(r)

LEMMA ReadsMoveOn == ASSUME ForwardInv, NEW r \in Runs, Reads(r) PROVE RunsOK'
<1>1. OnlyReads /\ UNCHANGED main
  BY DEF Reads, Start, Fail, FindEvidence, Decide, ListPulls, LsRemote, FetchTip, ListIssues,
     ListForClose, OnlyReads, codeVars
<1>2. /\ ChecksOK /\ CodeOK /\ SharedOK /\ RunsOK /\ Knows(run[r]) /\ run[r] \in Run
  BY DEF ForwardInv, RunsOK
<1>3. Over(r) => RunsOK'
  BY <1>1, <1>2, OverKeeps
<1>4. \A at \in Steps \ Bumping : Goes(r, at) \/ Leaps(r, at) => RunsOK'
  BY <1>1, <1>2, GoesKeeps, LeapsKeeps
<1>5. \A at \in Steps : Goes(r, at) /\ <<main[run[r].sha], run[r].target>> \in Before => RunsOK'
  BY <1>1, <1>2, GoesKeeps
<1>6. ASSUME run[r].at \in Bumping, NEW tip \in Tip \cup {NoBranch}, tip.by # "human",
             run' = [run EXCEPT ![r].at = "push", ![r].tip = tip]
      PROVE  RunsOK'
  <2>1. PICK new : new = [run[r] EXCEPT !.at = "push", !.tip = tip]
    OBVIOUS
  <2>2. /\ new \in Run /\ new.sha = run[r].sha /\ new.tip = tip /\ new.target = run[r].target
    BY <1>2, <2>1 DEF Run, Steps
  <2>3. Knows(new)
    BY <1>2, <1>6, <2>2 DEF Knows
  <2>4. run' = [run EXCEPT ![r] = new]
    BY <1>2, <1>6, <2>1 DEF RunsOK, Run
  <2> QED  BY <1>1, <1>2, <2>2, <2>3, <2>4, RunMoves
<1>7. CASE Start(r)
  BY <1>3, <1>4, <1>7 DEF Start, Steps, Bumping
<1>8. CASE Fail(r)
  BY <1>3, <1>8 DEF Fail
<1>9. CASE FindEvidence(r)
  <2>1. CASE Over(r)
    BY <1>3, <2>1
  <2>2. CASE ~Over(r)
    <3>0. PICK found \in Revisions :
             run' = [run EXCEPT ![r] = [@ EXCEPT !.at = "decide", !.target = found,
                                                 !.tested = NoRevision]]
      <4>1. run[r].tested \in MaybeRevision /\ newestGreen \in MaybeRevision
        BY <1>2 DEF ChecksOK, Run
      <4> QED  BY <1>9, <2>2, <4>1 DEF FindEvidence, MaybeRevision
    <3>1. PICK new :
             /\ new = [run[r] EXCEPT !.at = "decide", !.target = found, !.tested = NoRevision]
             /\ run' = [run EXCEPT ![r] = new]
      BY <3>0
    <3>2. /\ new \in Run /\ new.sha = run[r].sha /\ new.tip = run[r].tip /\ new.at = "decide"
      BY <1>2, <3>1 DEF Run, Steps, MaybeRevision
    <3>3. Knows(new)
      BY <1>2, <3>2 DEF Knows, Bumping
    <3> QED  BY <1>1, <1>2, <3>1, <3>2, <3>3, RunMoves
  <2> QED  BY <2>1, <2>2
<1>10. CASE Decide(r)
  BY <1>4, <1>5, <1>10 DEF Decide, Steps, Bumping
<1>11. CASE ListPulls(r)
  BY <1>2, <1>4, <1>5, <1>11 DEF ListPulls, Knows, Steps, Bumping
<1>12. CASE LsRemote(r)
  <2>1. /\ run[r].at \in Bumping /\ "fetch" \in Steps
        /\ NoBranch \in Tip \cup {NoBranch} /\ NoBranch.by # "human"
    BY <1>12 DEF LsRemote, Bumping, Steps, NoBranch
  <2>2. CASE Goes(r, "fetch")
    BY <1>2, <1>5, <2>1, <2>2 DEF Knows
  <2>3. CASE run' = [run EXCEPT ![r].at = "push", ![r].tip = NoBranch]
    BY <1>6, <2>1, <2>3
  <2> QED  BY <1>12, <2>2, <2>3 DEF LsRemote
<1>13. CASE FetchTip(r)
  BY <1>2, <1>3, <1>4, <1>6, <1>13 DEF FetchTip, SharedOK, Steps, Bumping
<1>14. CASE ListIssues(r)
  <2>0. PICK listed \in BOOLEAN : listed = (issues > 0)
    <3>1. (issues > 0) \in BOOLEAN
      BY SMT
    <3> QED  BY <3>1, Zenon
  <2>1. PICK new : new = [run[r] EXCEPT !.at = "write", !.known = listed]
    OBVIOUS
  <2>2. /\ new \in Run /\ new.sha = run[r].sha /\ new.tip = run[r].tip /\ new.at = "write"
    BY <1>2, <2>1 DEF Run, Steps
  <2>3. Knows(new)
    BY <1>2, <2>2 DEF Knows, Bumping
  <2>4. run' = [run EXCEPT ![r] = new]
    BY <1>14, <2>0, <2>1 DEF ListIssues
  <2> QED  BY <1>1, <1>2, <2>2, <2>3, <2>4, RunMoves
<1>15. CASE ListForClose(r)
  BY <1>3, <1>4, <1>15 DEF ListForClose, Steps, Bumping
<1> QED
  BY <1>7, <1>8, <1>9, <1>10, <1>11, <1>12, <1>13, <1>14, <1>15 DEF Reads

LEMMA ReadsKeeps == ASSUME ForwardInv, NEW r \in Runs, Reads(r) PROVE ForwardInv'
<1>1. OnlyReads
  BY DEF Reads, Start, Fail, FindEvidence, Decide, ListPulls, LsRemote, FetchTip, ListIssues,
     ListForClose
<1>2. ChecksOK' /\ CodeOK' /\ SharedOK'
  BY <1>1, ChecksKept, CodeKept, SharedKept DEF ForwardInv, OnlyReads, codeVars
<1> QED  BY <1>2, ReadsMoveOn DEF ForwardInv

-----------------------------------------------------------------------------
(***************************************************************************)
(* The steps that write.                                                   *)
(***************************************************************************)
\* A run that was queued is given the commit of this moment.
LEMMA EnqueueKeeps ==
  ASSUME RunsOK, CodeOK, UNCHANGED main, NEW r \in Runs, NEW trigger \in Run,
         trigger.at = "pending", trigger.sha = Len(main), trigger.tip = NoBranch,
         run' = [run EXCEPT ![r] = trigger]
  PROVE  RunsOK'
<1>1. Knows(trigger)
  BY DEF Knows, Bumping, NoBranch, CodeOK
<1> QED  BY <1>1, RunMoves

LEMMA DispatchKeeps ==
  ASSUME ForwardInv, NEW ref \in DispatchRefs, NEW dryRun \in BOOLEAN, Dispatch(ref, dryRun)
  PROVE  ForwardInv'
<1>1. UNCHANGED <<checkVars, codeVars, sharedVars>> /\ UNCHANGED main
  BY DEF Dispatch, codeVars
<1>2. PICK r \in Runs : Enqueue(r, [NoRun EXCEPT !.at = "pending", !.green = TRUE,
                                      !.sha = Len(main), !.dry = dryRun \/ ref # "main"])
  BY DEF Dispatch
<1>3. PICK dry \in BOOLEAN : dry = (dryRun \/ ref # "main")
  OBVIOUS
<1>4. PICK trigger : trigger = [NoRun EXCEPT !.at = "pending", !.green = TRUE,
                                             !.sha = Len(main), !.dry = dry]
  OBVIOUS
<1>6. /\ trigger \in Run /\ trigger.at = "pending"
      /\ trigger.sha = Len(main) /\ trigger.tip = NoBranch
  BY <1>4, NoRunType DEF Run, ForwardInv, CodeOK
<1>7. run' = [run EXCEPT ![r] = trigger]
  BY <1>2, <1>3, <1>4, Zenon DEF Enqueue
<1>5. RunsOK'
  BY <1>1, <1>6, <1>7, EnqueueKeeps DEF ForwardInv
<1> QED  BY <1>1, <1>5, ChecksKept, CodeKept, SharedKept DEF ForwardInv

LEMMA EndCheckKeeps ==
  ASSUME ForwardInv, NEW i \in DOMAIN checks, NEW success \in BOOLEAN, EndCheck(i, success)
  PROVE  ForwardInv'
<1> DEFINE Check  == [oss : Revisions, overtaken : BOOLEAN]
           passed == [j \in DOMAIN checks |->
                        [checks[j] EXCEPT !.overtaken = @ \/ (success /\ j < i)]]
<1>1. UNCHANGED <<codeVars, sharedVars, main, head>>
  BY DEF EndCheck, codeVars
<1>2. /\ checks \in Seq(Check) /\ DOMAIN checks = 1..Len(checks) /\ Len(checks) \in Nat
      /\ checks[i] \in Check /\ checks[i].oss \in Revisions
  <2>1. checks \in Seq(Check)
    BY DEF ForwardInv, ChecksOK
  <2>2. checks[i] \in Check
    BY <2>1, ElementType
  <2> QED  BY <2>1, <2>2
<1>3. PICK r \in Runs : Enqueue(r, Completed(checks[i].oss, success))
  BY DEF EndCheck
<1>4. PICK trigger : trigger = Completed(checks[i].oss, success)
  OBVIOUS
<1>10. /\ trigger \in Run /\ trigger.at = "pending"
       /\ trigger.sha = Len(main) /\ trigger.tip = NoBranch
  BY <1>2, <1>4, NoRunType DEF Run, ForwardInv, CodeOK, Completed, MaybeRevision
<1>11. run' = [run EXCEPT ![r] = trigger]
  BY <1>3, <1>4 DEF Enqueue
<1>5. RunsOK'
  BY <1>1, <1>10, <1>11, EnqueueKeeps DEF ForwardInv
<1>6. passed \in Seq(Check) /\ DOMAIN passed = DOMAIN checks
  <2>1. ASSUME NEW j \in 1..Len(checks)
        PROVE  [checks[j] EXCEPT !.overtaken = @ \/ (success /\ j < i)] \in Check
    <3>1. PICK late \in BOOLEAN : late = (checks[j].overtaken \/ (success /\ j < i))
      OBVIOUS
    <3>2. PICK check \in Check : check = checks[j]
      <4>1. checks[j] \in Check
        BY <1>2, ElementType
      <4> QED  BY <4>1, Zenon
    <3>3. [check EXCEPT !.overtaken = late] \in Check
      BY <3>2
    <3> QED  BY <3>1, <3>2, <3>3, Zenon
  <2>2. DOMAIN checks = 1..Len(checks) /\ Len(checks) \in Nat
    BY <1>2
  <2>3. passed \in [1..Len(checks) -> Check]
    BY <2>1, <2>2
  <2> QED  BY <2>2, <2>3
<1>7. checks' = RemoveAt(passed, i)
  BY DEF EndCheck
<1>8. checks' \in Seq(Check)
  BY <1>6, <1>7, RemoveAtType
<1>9. newestGreen' \in MaybeRevision /\ proven' \subseteq Revisions
  BY <1>2 DEF ForwardInv, ChecksOK, EndCheck, MaybeRevision
<1> QED  BY <1>1, <1>5, <1>8, <1>9, CodeKept, SharedKept DEF ForwardInv, ChecksOK

LEMMA StartCheckKeeps == ASSUME ForwardInv, StartCheck PROVE ForwardInv'
<1>1. UNCHANGED <<head, newestGreen, proven, codeVars, sharedVars, run, main>>
  BY DEF StartCheck, codeVars
<1>2. checks' \in Seq([oss : Revisions, overtaken : BOOLEAN])
  BY DEF StartCheck, ForwardInv, ChecksOK
<1> QED  BY <1>1, <1>2, CodeKept, SharedKept, RunsKept DEF ForwardInv, ChecksOK

\* What is pushed is a revision ahead of the pin of the commit it is pushed on.
LEMMA PushKeeps == ASSUME ForwardInv, NEW r \in Runs, Push(r) PROVE ForwardInv'
<1>1. /\ UNCHANGED <<checkVars, codeVars, main, pull, issues>>
      /\ run[r].at = "push"
      /\ Leaps(r, "issue") \/ Over(r)
      /\ branch' \in {branch, BumpOnto(run[r].sha, run[r].target)}
  BY DEF Push, codeVars
<1>2. /\ run[r] \in Run /\ run[r].sha \in 1..Len(main)
      /\ <<main[run[r].sha], run[r].target>> \in Before
  BY <1>1 DEF ForwardInv, RunsOK, Knows, Run, Bumping, CodeOK
<1>3. RunsOK'
  <2>1. "issue" \in Steps \ Bumping
    BY DEF Steps, Bumping
  <2> QED  BY <1>1, <2>1, LeapsKeeps, OverKeeps DEF ForwardInv
<1>4. SharedOK'
  <2>1. CASE branch' = branch
    BY <1>1, <2>1, SharedKept DEF ForwardInv, sharedVars
  <2>2. CASE branch' = BumpOnto(run[r].sha, run[r].target)
    <3>1. run[r].target \in Revisions /\ run[r].sha \in 1..MaxCommits
      BY <1>2, BeforeAssumption DEF Run
    <3>2. branch' \in Tip /\ branch' # NoBranch /\ TipIsAhead'
      BY <1>1, <1>2, <2>2, <3>1 DEF BumpOnto, Tip, TipIsAhead, NoBranch
    <3> QED  BY <1>1, <3>2 DEF ForwardInv, SharedOK
  <2> QED  BY <1>1, <2>1, <2>2
<1> QED  BY <1>1, <1>3, <1>4, ChecksKept, CodeKept DEF ForwardInv

LEMMA IssueKeeps ==
  ASSUME ForwardInv, NEW r \in Runs, WriteIssue(r) \/ CloseIssue(r)
  PROVE  ForwardInv'
<1>1. UNCHANGED <<checkVars, codeVars, main, branch, pull>> /\ Over(r)
  BY DEF WriteIssue, CloseIssue, codeVars
<1>2. issues' \in Nat
  BY DEF WriteIssue, CloseIssue, ForwardInv, SharedOK
<1>3. SharedOK'
  BY <1>1, <1>2 DEF ForwardInv, SharedOK, TipIsAhead
<1> QED  BY <1>1, <1>3, ChecksKept, CodeKept, OverKeeps DEF ForwardInv

\* Merging takes the branch's pin to develop, a release takes develop's to main.
LEMMA PeopleKeep == ASSUME ForwardInv, People PROVE ForwardInv'
<1>1. UNCHANGED checkVars /\ UNCHANGED run
  BY DEF People, TakeBranch, DeleteBranch, OpenPull, ClosePull, MergePull, Release, Patch, DismissIssue
<1>2. CASE \E rev \in Revisions : TakeBranch(rev)
  <2>1. UNCHANGED <<codeVars, main, pull, issues>>
    BY <1>2 DEF TakeBranch, codeVars
  <2>2. branch' \in Tip /\ branch' # NoBranch /\ TipIsAhead'
    BY <1>2 DEF TakeBranch, Tip, TipIsAhead, ForwardInv, CodeOK, codeVars, NoBranch
  <2>3. SharedOK'
    BY <2>1, <2>2 DEF ForwardInv, SharedOK
  <2> QED  BY <1>1, <2>1, <2>3, ChecksKept, CodeKept, RunsKept DEF ForwardInv
<1>3. CASE DeleteBranch \/ (\E into \in {"main", "develop"} : OpenPull(into)) \/ ClosePull
           \/ DismissIssue
  <2>1. UNCHANGED codeVars /\ UNCHANGED main
    BY <1>3 DEF DeleteBranch, OpenPull, ClosePull, DismissIssue, codeVars
  <2>2. /\ branch' \in {branch, NoBranch} /\ pull' \in {"closed", "main", "develop"}
        /\ issues' \in Nat /\ (pull' # "closed" => branch' # NoBranch)
    BY <1>3 DEF DeleteBranch, OpenPull, ClosePull, DismissIssue, ForwardInv, SharedOK
  <2>3. SharedOK'
    BY <2>1, <2>2 DEF ForwardInv, SharedOK, TipIsAhead
  <2> QED  BY <1>1, <2>1, <2>3, ChecksKept, CodeKept, RunsKept DEF ForwardInv
<1>4. CASE MergePull
  <2>1. UNCHANGED <<main, branch, issues, run>> /\ pull' = "closed"
    BY <1>4 DEF MergePull
  <2>2. develop' \in Revisions
    <3>1. branch # NoBranch
      BY <1>4 DEF MergePull, ForwardInv, SharedOK
    <3> QED  BY <1>4, <3>1 DEF MergePull, ForwardInv, SharedOK, Tip
  <2>3. CodeOK' /\ SharedOK'
    BY <2>1, <2>2 DEF ForwardInv, CodeOK, SharedOK, TipIsAhead
  <2> QED  BY <1>1, <2>1, <2>3, ChecksKept, RunsKept DEF ForwardInv
<1>5. CASE \E from : Release(from) \/ Patch(from)
  <2>0. PICK rev \in Revisions : main' = Append(main, rev)
    <3>1. develop \in Revisions /\ Pins \in Revisions
      BY DEF ForwardInv, CodeOK, Pins
    <3> QED  BY <1>5, <3>1 DEF Release, Patch
  <2>1. /\ UNCHANGED <<develop, branch, pull, issues, run>>
        /\ main' = Append(main, rev) /\ Len(main) < MaxCommits
    BY <1>5, <2>0 DEF Release, Patch, sharedVars
  <2>2. /\ CodeOK' /\ Len(main') = Len(main) + 1
        /\ \A k \in 1..Len(main) : main'[k] = main[k]
    BY <2>1, BoundsAssumption DEF ForwardInv, CodeOK
  <2>3. SharedOK'
    <3>1. /\ branch \in Tip \cup {NoBranch} /\ pull \in {"closed", "main", "develop"}
          /\ issues \in Nat /\ (pull # "closed" => branch # NoBranch) /\ TipIsAhead
      BY DEF ForwardInv, SharedOK
    <3>2. branch # NoBranch => branch.base \in 1..Len(main)
      BY <3>1 DEF TipIsAhead, Tip
    <3>3. TipIsAhead'
      BY <2>1, <2>2, <3>1, <3>2 DEF TipIsAhead, ForwardInv, CodeOK
    <3> QED  BY <2>1, <3>1, <3>3 DEF SharedOK
  <2>4. RunsOK'
    <3>1. ASSUME NEW q \in Runs PROVE Knows(run[q])'
      <4>1. run[q] \in Run /\ Knows(run[q]) /\ run' = run
        BY <2>1 DEF ForwardInv, RunsOK
      <4>2. run[q].sha \in 1..Len(main)
        BY <4>1 DEF Knows, Run
      <4>3. main'[run[q].sha] = main[run[q].sha] /\ run[q].sha <= Len(main')
        BY <2>2, <4>1, <4>2 DEF Knows, ForwardInv, CodeOK
      <4> QED  BY <4>1, <4>3 DEF Knows
    <3> QED  BY <2>1, <3>1 DEF ForwardInv, RunsOK
  <2> QED  BY <1>1, <2>2, <2>3, <2>4, ChecksKept DEF ForwardInv
<1> QED  BY <1>2, <1>3, <1>4, <1>5 DEF People

LEMMA ForwardNext == ForwardInv /\ [Next]_vars => ForwardInv'
<1> SUFFICES ASSUME ForwardInv, [Next]_vars PROVE ForwardInv'
  OBVIOUS
<1>1. CASE \E rev \in Heads : OssMoves(rev)
  <2>1. UNCHANGED <<codeVars, sharedVars, run, main>> /\ ChecksOK'
    BY <1>1, HeadsAssumption DEF OssMoves, ForwardInv, ChecksOK, codeVars
  <2> QED  BY <2>1, CodeKept, SharedKept, RunsKept DEF ForwardInv
<1>2. CASE \E r \in Runs : Start(r) \/ RunStep(r) \/ Fail(r)
  BY <1>2, ReadsKeeps, PushKeeps, IssueKeeps DEF RunStep, Reads
<1>3. CASE UNCHANGED vars
  BY <1>3, ChecksKept, CodeKept, SharedKept, RunsKept DEF vars, codeVars, ForwardInv
<1> QED
  BY <1>1, <1>2, <1>3, StartCheckKeeps, EndCheckKeeps, DispatchKeeps, PeopleKeep DEF Next

THEOREM ForwardAlways == Spec => []ForwardInv
BY ForwardInit, ForwardNext, PTL DEF Spec

\* Every reachable state is well typed: in particular what the job writes into
\* pins.env is a revision, and a commit a run checked out exists.
THEOREM PinTypes == Spec => []TypeOK
<1>1. ForwardInv => TypeOK
  BY DEF ForwardInv, ChecksOK, CodeOK, SharedOK, RunsOK, TypeOK
<1> QED  BY <1>1, ForwardAlways, PTL

\* The lease carries the ownership check to the push: between the two anybody
\* may push, and then the tip is not the one the run inspected.
THEOREM HumanWorkKept == Spec => HumanWorkIsKept
<1>1. ASSUME ForwardInv, [Next]_vars, branch.by = "human", branch' # branch
      PROVE  branch'.by # "bot"
  <2>1. branch' \in {[by |-> "human", names |-> rev, base |-> Len(main)] : rev \in Revisions}
                        \cup {NoBranch}
        \/ \E r \in Runs : Push(r)
    BY <1>1 DEF Next, RunStep, People, OssMoves, StartCheck, EndCheck, Dispatch, Start, Fail,
       FindEvidence, Decide, ListPulls, LsRemote, FetchTip, ListIssues, WriteIssue, ListForClose,
       CloseIssue, OnlyReads, TakeBranch, DeleteBranch, OpenPull, ClosePull, MergePull, Release, Patch,
       DismissIssue, sharedVars, vars
  <2>2. ASSUME NEW r \in Runs, Push(r)
        PROVE  FALSE
    <3>1. branch = run[r].tip
      BY <1>1, <2>2 DEF Push
    <3>2. run[r].tip.by # "human"
      BY <1>1 DEF ForwardInv, RunsOK, Knows
    <3> QED  BY <1>1, <3>1, <3>2
  <2> QED  BY <2>1, <2>2 DEF NoBranch
<1> QED  BY <1>1, ForwardAlways, PTL DEF Spec, HumanWorkIsKept

\* A merge takes the job's revision only over the pin of the commit the job
\* made it on, and it is ahead of that one, however old that commit is by then.
THEOREM PinForward == Spec => PinMovesForward
<1>1. ASSUME ForwardInv, [Next]_vars, branch.by = "bot", develop' # develop
      PROVE  <<develop, develop'>> \in Before
  <2>1. MergePull
    BY <1>1 DEF Next, RunStep, People, OssMoves, StartCheck, EndCheck, Dispatch, Start, Fail,
       FindEvidence, Decide, ListPulls, LsRemote, FetchTip, Push, ListIssues, WriteIssue,
       ListForClose, CloseIssue, OnlyReads, TakeBranch, DeleteBranch, OpenPull, ClosePull,
       Release, Patch, DismissIssue, codeVars, vars
  <2>2. develop' = branch.names /\ develop \in {main[branch.base], branch.names}
    BY <2>1 DEF MergePull, Mergeable
  <2>3. <<main[branch.base], branch.names>> \in Before
    BY <1>1 DEF ForwardInv, SharedOK, TipIsAhead, NoBranch
  <2> QED  BY <1>1, <2>2, <2>3
<1> QED  BY <1>1, ForwardAlways, PTL DEF Spec, PinMovesForward

-----------------------------------------------------------------------------
(***************************************************************************)
(* One issue.  At most one run is under way, so what it listed is still    *)
(* true of the issues the job files when it files one: people only close.  *)
(***************************************************************************)
OneAtATime == \A r, q \in Runs : run[r].at \in Steps /\ run[q].at \in Steps => r = q

ListedIsTrue == \A r \in Runs : run[r].at = "write" /\ ~run[r].known => issues = 0

IssueInv == OneAtATime /\ ListedIsTrue /\ OneIssue

\* What a step of a run, or of what triggers it, does to the runs.
Passes(r) ==
    /\ \A q \in Runs \ {r} : run'[q] = run[q]
    /\ run'[r].at \in Steps => run[r].at \in Steps \/ Active = {}
    /\ run'[r].at = "write" => run[r].at = "issue" /\ (run'[r].known <=> issues > 0)

LEMMA StepPasses ==
  ASSUME ForwardInv, NEW r \in Runs, Start(r) \/ RunStep(r) \/ Fail(r)
  PROVE  Passes(r)
<1>1. run[r].at \in Steps \/ Active = {}
  BY DEF RunStep, Start, Fail, FindEvidence, Decide, ListPulls, LsRemote, FetchTip, Push,
     ListIssues, WriteIssue, ListForClose, CloseIssue, Steps
<1>2. run \in [Runs -> Run]
  BY DEF ForwardInv, RunsOK
<1>3. CASE ListIssues(r)
  BY <1>1, <1>2, <1>3 DEF ListIssues, Passes, Run
<1>4. CASE ~ListIssues(r)
  <2>1. \A q \in Runs \ {r} : run'[q] = run[q]
    BY <1>2, <1>4 DEF RunStep, Start, Fail, FindEvidence, Decide, ListPulls, LsRemote, FetchTip,
       Push, ListIssues, WriteIssue, ListForClose, CloseIssue, Goes, Leaps, Over
  <2>2. run'[r].at # "write"
    <3>1. Over(r) => run'[r].at = "idle"
      BY <1>2, NoRunType DEF Over
    <3>2. ASSUME NEW at, Goes(r, at) \/ Leaps(r, at)
          PROVE  run'[r].at = at
      <4>1. run \in [Runs -> Run] /\ r \in Runs
        BY <1>2
      <4>2. CASE Goes(r, at)
        BY <4>1, <4>2 DEF Goes, Run
      <4>3. CASE Leaps(r, at)
        BY <4>1, <4>3 DEF Leaps, NoRun
      <4> QED  BY <3>2, <4>2, <4>3
    <3>3. CASE FindEvidence(r)
      BY <1>2, <3>1, <3>3 DEF FindEvidence, Run
    <3>4. CASE LsRemote(r) \/ FetchTip(r)
      BY <1>2, <3>1, <3>2, <3>4 DEF LsRemote, FetchTip, Run
    <3>5. CASE Push(r) \/ WriteIssue(r) \/ CloseIssue(r) \/ Fail(r)
      BY <3>1, <3>2, <3>5 DEF Push, WriteIssue, CloseIssue, Fail
    <3>6. CASE Start(r) \/ Decide(r) \/ ListPulls(r) \/ ListForClose(r)
      BY <3>1, <3>2, <3>6 DEF Start, Decide, ListPulls, ListForClose
    <3> QED  BY <1>4, <3>3, <3>4, <3>5, <3>6 DEF RunStep
  <2> QED  BY <1>1, <2>1, <2>2 DEF Passes
<1> QED  BY <1>3, <1>4

LEMMA QueuePasses ==
  ASSUME ForwardInv,
         (\E i \in DOMAIN checks, success \in BOOLEAN : EndCheck(i, success))
            \/ \E ref \in DispatchRefs, dryRun \in BOOLEAN : Dispatch(ref, dryRun)
  PROVE  UNCHANGED issues /\ \E r \in Runs : Passes(r)
<1>1. \E r \in Runs : \E trigger : Enqueue(r, trigger) /\ trigger.at = "pending"
  <2>1. ASSUME NEW i \in DOMAIN checks, NEW success \in BOOLEAN, EndCheck(i, success)
        PROVE  \E r \in Runs : \E trigger : Enqueue(r, trigger) /\ trigger.at = "pending"
    <3>1. Completed(checks[i].oss, success).at = "pending"
      BY DEF Completed, NoRun
    <3> QED  BY <2>1, <3>1 DEF EndCheck
  <2>2. ASSUME NEW ref \in DispatchRefs, NEW dryRun \in BOOLEAN, Dispatch(ref, dryRun)
        PROVE  \E r \in Runs : \E trigger : Enqueue(r, trigger) /\ trigger.at = "pending"
    <3>1. PICK trigger : trigger = [NoRun EXCEPT !.at = "pending", !.green = TRUE,
                                      !.sha = Len(main), !.dry = dryRun \/ ref # "main"]
      OBVIOUS
    <3>2. trigger.at = "pending"
      BY <3>1 DEF NoRun
    <3> QED  BY <2>2, <3>1, <3>2 DEF Dispatch
  <2> QED  BY <2>1, <2>2
<1>2. PICK r \in Runs : \E trigger : Enqueue(r, trigger) /\ trigger.at = "pending"
  BY <1>1
<1>3. PICK trigger : Enqueue(r, trigger) /\ trigger.at = "pending"
  BY <1>2
<1>4. Passes(r)
  BY <1>3 DEF Enqueue, Passes, Steps, ForwardInv, RunsOK
<1> QED  BY <1>4 DEF EndCheck, Dispatch, sharedVars

LEMMA IssueNext == ForwardInv /\ IssueInv /\ [Next]_vars => IssueInv'
<1> SUFFICES ASSUME ForwardInv, IssueInv, [Next]_vars PROVE IssueInv'
  OBVIOUS
<1>1. issues \in Nat
  BY DEF ForwardInv, SharedOK
<1>2. ASSUME NEW r \in Runs, Passes(r)
      PROVE  OneAtATime'
  BY <1>2 DEF Passes, OneAtATime, IssueInv, Active
<1>3. ASSUME NEW r \in Runs, Passes(r), UNCHANGED issues
      PROVE  IssueInv'
  <2>1. ASSUME NEW q \in Runs, run'[q].at = "write", ~run'[q].known
        PROVE  issues' = 0
    <3>1. CASE q = r
      BY <1>1, <1>3, <2>1, <3>1 DEF Passes
    <3>2. CASE q # r
      BY <1>3, <2>1, <3>2 DEF Passes, ListedIsTrue, IssueInv
    <3> QED  BY <3>1, <3>2
  <2> QED  BY <1>2, <1>3, <2>1 DEF IssueInv, ListedIsTrue, OneIssue
<1>4. ASSUME NEW r \in Runs, Start(r) \/ RunStep(r) \/ Fail(r)
      PROVE  IssueInv'
  <2>1. Passes(r)
    BY <1>4, StepPasses
  <2>2. CASE WriteIssue(r)
    <3>1. run[r].at = "write" /\ "write" \in Steps /\ "issue" \in Steps
      BY <2>2 DEF WriteIssue, Steps
    <3>2. \A q \in Runs : run'[q].at # "write"
      BY <2>1, <3>1 DEF Passes, IssueInv, OneAtATime
    <3>3. OneIssue'
      BY <1>1, <2>2, <3>1 DEF WriteIssue, IssueInv, ListedIsTrue, OneIssue
    <3> QED  BY <1>2, <2>1, <3>2, <3>3 DEF IssueInv, ListedIsTrue
  <2>3. CASE CloseIssue(r)
    <3>1. run[r].at = "close" /\ "close" \in Steps /\ "write" \in Steps /\ "issue" \in Steps
      BY <2>3 DEF CloseIssue, Steps
    <3>2. \A q \in Runs : run'[q].at # "write"
      BY <2>1, <3>1 DEF Passes, IssueInv, OneAtATime
    <3>3. OneIssue'
      BY <1>1, <2>3 DEF CloseIssue, IssueInv, OneIssue
    <3> QED  BY <1>2, <2>1, <3>2, <3>3 DEF IssueInv, ListedIsTrue
  <2>4. CASE ~WriteIssue(r) /\ ~CloseIssue(r)
    <3>1. UNCHANGED issues
      BY <1>4, <2>4 DEF RunStep, Start, Fail, FindEvidence, Decide, ListPulls, LsRemote, FetchTip,
         Push, ListIssues, ListForClose, OnlyReads, sharedVars
    <3> QED  BY <1>3, <2>1, <3>1
  <2> QED  BY <2>2, <2>3, <2>4
<1>5. CASE UNCHANGED run /\ issues' \in 0..issues
  BY <1>1, <1>5 DEF IssueInv, OneAtATime, ListedIsTrue, OneIssue
<1>6. CASE UNCHANGED vars \/ People \/ StartCheck \/ \E rev \in Heads : OssMoves(rev)
  BY <1>1, <1>5, <1>6 DEF vars, sharedVars, People, StartCheck, OssMoves, TakeBranch, DeleteBranch,
     OpenPull, ClosePull, MergePull, Release, Patch, DismissIssue
<1> QED  BY <1>3, <1>4, <1>6, QueuePasses DEF Next

\* The concurrency group makes listing and filing one step for all who file.
THEOREM IssueIsOne == Spec => []OneIssue
<1>1. Init => IssueInv
  BY NoRunType DEF Init, IssueInv, OneAtATime, ListedIsTrue, OneIssue, Steps
<1>2. Spec => []IssueInv
  BY <1>1, IssueNext, ForwardAlways, PTL DEF Spec
<1>3. IssueInv => OneIssue
  BY DEF IssueInv
<1> QED  BY <1>2, <1>3, PTL

-----------------------------------------------------------------------------
(***************************************************************************)
(* Provenance.  A run that goes past its condition was triggered by a      *)
(* success, so what it reads, keeps and writes was proven.                 *)
(***************************************************************************)
WasProven(rev) == rev # NoRevision => rev \in proven

Tells(x) ==
    /\ x.at = "evidence" => x.green
    /\ x.green => WasProven(x.tested)
    /\ WasProven(x.target)

ProvenanceInv == WasProven(newestGreen) /\ (\A r \in Runs : Tells(run[r])) /\ ProposalWasProven

LEMMA StepTells ==
  ASSUME ForwardInv, ProvenanceInv, NEW r \in Runs, Start(r) \/ RunStep(r) \/ Fail(r)
  PROVE  Tells(run[r])'
<1>1. /\ run \in [Runs -> Run] /\ WasProven(newestGreen) /\ Tells(run[r])
      /\ UNCHANGED proven /\ NoRevision \notin Revisions
  BY PinAssumption DEF ForwardInv, RunsOK, ProvenanceInv, RunStep, Start, Fail, FindEvidence,
     Decide, ListPulls, LsRemote, FetchTip, Push, ListIssues, WriteIssue, ListForClose, CloseIssue,
     OnlyReads, checkVars
<1>2. Over(r) => Tells(run[r])'
  BY <1>1 DEF Over, NoRun, Tells, WasProven
<1>3. ASSUME NEW at, at # "evidence" \/ run[r].green, Goes(r, at)
      PROVE  Tells(run[r])'
  BY <1>1, <1>3 DEF Goes, Run, Tells, WasProven
<1>4. ASSUME NEW at, at # "evidence", Leaps(r, at)
      PROVE  Tells(run[r])'
  BY <1>1, <1>4 DEF Leaps, NoRun, Tells, WasProven
<1>5. CASE FindEvidence(r)
  BY <1>1, <1>2, <1>5 DEF FindEvidence, Run, Tells, WasProven
<1>6. CASE LsRemote(r) \/ FetchTip(r)
  BY <1>1, <1>2, <1>3, <1>4, <1>6 DEF LsRemote, FetchTip, Run, Tells, WasProven
<1>7. CASE ListIssues(r)
  BY <1>1, <1>7 DEF ListIssues, Run, Tells, WasProven
<1>8. CASE Push(r) \/ WriteIssue(r) \/ CloseIssue(r) \/ Fail(r)
  BY <1>2, <1>4, <1>8 DEF Push, WriteIssue, CloseIssue, Fail
<1>9. CASE Start(r) \/ Decide(r) \/ ListPulls(r) \/ ListForClose(r)
  BY <1>2, <1>3, <1>4, <1>9 DEF Start, Decide, ListPulls, ListForClose
<1> QED  BY <1>5, <1>6, <1>7, <1>8, <1>9 DEF RunStep

LEMMA ProvenanceNext == ForwardInv /\ ProvenanceInv /\ [Next]_vars => ProvenanceInv'
<1> SUFFICES ASSUME ForwardInv, ProvenanceInv, [Next]_vars PROVE ProvenanceInv'
  OBVIOUS
<1>1. CASE \E r \in Runs : Start(r) \/ RunStep(r) \/ Fail(r)
  <2>1. PICK r \in Runs : Start(r) \/ RunStep(r) \/ Fail(r)
    BY <1>1
  <2>2. UNCHANGED <<newestGreen, proven>>
    BY <2>1 DEF RunStep, Start, Fail, FindEvidence, Decide, ListPulls, LsRemote, FetchTip, Push,
       ListIssues, WriteIssue, ListForClose, CloseIssue, OnlyReads, checkVars
  <2>3. ASSUME NEW q \in Runs PROVE Tells(run[q])'
    <3>1. CASE q = r
      BY <2>1, <3>1, StepTells
    <3>2. CASE q # r
      BY <2>1, <2>2, <3>2, StepPasses DEF Passes, ProvenanceInv, Tells, WasProven
    <3> QED  BY <3>1, <3>2
  <2>4. ProposalWasProven'
    <3>1. CASE branch' = branch
      BY <2>2, <3>1 DEF ProvenanceInv, ProposalWasProven
    <3>2. CASE branch' # branch
      <4>1. Push(r) /\ branch' = BumpOnto(run[r].sha, run[r].target)
        BY <2>1, <3>2 DEF RunStep, Start, Fail, FindEvidence, Decide, ListPulls, LsRemote,
           FetchTip, Push, ListIssues, WriteIssue, ListForClose, CloseIssue, OnlyReads, sharedVars
      <4>2. <<main[run[r].sha], run[r].target>> \in Before /\ WasProven(run[r].target)
        BY <4>1 DEF Push, ForwardInv, RunsOK, Knows, Bumping, ProvenanceInv, Tells
      <4>3. run[r].target \in proven
        BY <4>2, BeforeAssumption, PinAssumption DEF WasProven
      <4> QED  BY <2>2, <4>1, <4>3 DEF BumpOnto, ProposalWasProven
    <3> QED  BY <3>1, <3>2
  <2> QED  BY <2>2, <2>3, <2>4 DEF ProvenanceInv, WasProven
<1>2. ASSUME NEW i \in DOMAIN checks, NEW success \in BOOLEAN, EndCheck(i, success)
      PROVE  ProvenanceInv'
  <2>1. /\ proven' = IF success THEN proven \cup {checks[i].oss} ELSE proven
        /\ newestGreen' \in {newestGreen} \/ (success /\ newestGreen' = checks[i].oss)
        /\ branch' = branch
    BY <1>2 DEF EndCheck, sharedVars
  <2>2. PICK r \in Runs : run' = [run EXCEPT ![r] = Completed(checks[i].oss, success)]
    BY <1>2 DEF EndCheck, Enqueue
  <2>3. ASSUME NEW q \in Runs PROVE Tells(run[q])'
    <3>1. CASE q = r
      BY <2>1, <2>2, <3>1 DEF Completed, NoRun, Tells, WasProven, ForwardInv, RunsOK
    <3>2. CASE q # r
      BY <2>1, <2>2, <3>2 DEF Tells, WasProven, ForwardInv, RunsOK, ProvenanceInv
    <3> QED  BY <3>1, <3>2
  <2> QED  BY <2>1, <2>3 DEF ProvenanceInv, WasProven, ProposalWasProven
<1>3. ASSUME NEW ref \in DispatchRefs, NEW dryRun \in BOOLEAN, Dispatch(ref, dryRun)
      PROVE  ProvenanceInv'
  <2>1. UNCHANGED <<newestGreen, proven, branch>>
    BY <1>3 DEF Dispatch, checkVars, sharedVars
  <2>2. PICK r \in Runs :
           run' = [run EXCEPT ![r] = [NoRun EXCEPT !.at = "pending", !.green = TRUE,
                                         !.sha = Len(main), !.dry = dryRun \/ ref # "main"]]
    BY <1>3 DEF Dispatch, Enqueue
  <2>3. ASSUME NEW q \in Runs PROVE Tells(run[q])'
    <3>1. CASE q = r
      BY <2>1, <2>2, <3>1 DEF NoRun, Tells, WasProven, ForwardInv, RunsOK
    <3>2. CASE q # r
      BY <2>1, <2>2, <3>2 DEF Tells, WasProven, ForwardInv, RunsOK, ProvenanceInv
    <3> QED  BY <3>1, <3>2
  <2> QED  BY <2>1, <2>3 DEF ProvenanceInv, WasProven, ProposalWasProven
<1>4. CASE UNCHANGED vars \/ People \/ StartCheck \/ \E rev \in Heads : OssMoves(rev)
  <2>1. /\ UNCHANGED <<newestGreen, proven, run>>
        /\ branch' = branch \/ branch'.by # "bot"
    BY <1>4 DEF vars, sharedVars, checkVars, People, StartCheck, OssMoves, TakeBranch, DeleteBranch,
       OpenPull, ClosePull, MergePull, Release, Patch, DismissIssue, NoBranch
  <2> QED  BY <2>1 DEF ProvenanceInv, ProposalWasProven, Tells, WasProven
<1> QED  BY <1>1, <1>2, <1>3, <1>4 DEF Next

\* Nothing is proposed that no crosscheck succeeded on, whatever happens to oss
\* between the check and the run, and whichever run's evidence is found.
THEOREM ProposalProven == Spec => []ProposalWasProven
<1>1. Init => ProvenanceInv
  BY DEF Init, ProvenanceInv, Tells, WasProven, NoRun, NoBranch, ProposalWasProven
<1>2. Spec => []ProvenanceInv
  BY <1>1, ProvenanceNext, ForwardAlways, PTL DEF Spec
<1>3. ProvenanceInv => ProposalWasProven
  BY DEF ProvenanceInv
<1> QED  BY <1>2, <1>3, PTL
=============================================================================
