----------------------------- MODULE SelfHarness -----------------------------
(***************************************************************************)
(* The Self-Harness loop (src/engine/src/app/self-harness-loop.ts) over    *)
(* its three live adapters: an agent tags the failures of a run, an agent  *)
(* proposes edits of single surfaces, and each edited configuration is     *)
(* scored by having an agent do every case in a workspace of its own.      *)
(* Whatever an agent does wrong counts as no answer or as a failed case.   *)
(* The files that are copied into the workspaces stay where anyone, the    *)
(* scored agent too, may rewrite them while the loop runs; the agent works *)
(* in its workspace, and may rewrite the copies in it.                     *)
(*                                                                         *)
(*   config    the text each surface has, None before the loop is run      *)
(*   study     the run of `self-harness run`, or None                      *)
(*   rules     the content the source of the case files has now            *)
(*   slips     how often something went wrong in a case                    *)
(*   studied   history: the lineage rows of each round, what it started    *)
(*             from, scored and became                                     *)
(*   passedOn  history: the contents under which cases were passed         *)
(***************************************************************************)
EXTENDS Absent, Integers, SequencesExt, FiniteSetsExt

CONSTANTS
    Surfaces,   \* EDITABLE_SURFACES
    Texts,
    Specs,      \* the spec files an operator may give
    Solves,     \* case -> the configurations an agent solves it under
    Taggings,   \* the answers of a mining agent: sequences of [taskKey, mechanism]
    Proposals,  \* the answers of a proposing agent: sequences of edits
    FailedTasks,\* the task keys of the source run's failed and no-agent events
    MaxSlips

Configs == [Surfaces -> Texts]

\* What the agents may tag and propose.
Tags == UNION {Range(answer) : answer \in Taggings}
Offers == UNION {Range(answer) : answer \in Proposals}

\* What a case file may have in it: what it had at first, what someone made of it before
\* it was copied, or what the agent of the case itself has made of its copy.
CopyContents == {"original", "rewritten", "mutated"}

\* What the loop may be doing.
Studies ==
    [spec : Specs, round : Nat, pc : {"mine", "propose", "case", "run", "judge", "accept"},
     mechanisms : SUBSET {tag.mechanism : tag \in Tags}, edits : Seq(Offers),
     scores : Seq([in : Nat, out : Nat]), at : Nat, passes : [in : Nat, out : Nat],
     copy : {None} \cup CopyContents]

ASSUME StudyAssumption ==
    /\ None \notin Studies \cup CopyContents /\ MaxSlips \in Nat
    /\ \A spec \in Specs : /\ spec.config \in Configs
                          /\ spec.heldIn \in Seq(Range(spec.heldIn)) /\ spec.heldOut \in Seq(Range(spec.heldOut))
    /\ \A answer \in Proposals : answer \in Seq(Range(answer))
    /\ \A edit \in Offers : edit.after \in Texts \cup {""}

VARIABLES config, study, rules, slips, studied, passedOn
studyVars == <<config, study, rules, slips, studied, passedOn>>

StudyInit ==
    /\ config = None
    /\ study = None
    /\ rules = "original"
    /\ slips = 0
    /\ studied = << >>
    /\ passedOn = {}

-----------------------------------------------------------------------------
\* The spec.

\* Keys are unique within a half, base names among the case files; a pin is of
\* a case file; the spec lies outside the directory the agents work in.
parseSelfHarnessSpec(spec) ==
    /\ {spec.k, spec.rounds, spec.samples} \subseteq Nat \ {0}
    /\ IsInjective(spec.heldIn) /\ IsInjective(spec.heldOut)
    /\ IsInjective(spec.files)
    /\ spec.pinned \subseteq Range(spec.files)
assertEvaluatorContained(spec) == ~spec.inside

Cases(spec) == spec.heldIn \o spec.heldOut
NoPasses == [in |-> 0, out |-> 0]

StartStudy(spec) ==
    /\ study = None /\ studied = << >>
    /\ assertEvaluatorContained(spec)
    /\ parseSelfHarnessSpec(spec)
    /\ study' = [spec |-> spec, round |-> 1, pc |-> "mine", mechanisms |-> {}, edits |-> << >>,
                 scores |-> << >>, at |-> 0, passes |-> NoPasses, copy |-> None]
    /\ config' = spec.config
    /\ UNCHANGED <<rules, slips, studied, passedOn>>

-----------------------------------------------------------------------------
\* Mine, propose.

\* The first tag of each task that failed counts; the others are dropped.
mine(answer) ==
    {answer[i].mechanism : i \in {j \in DOMAIN answer :
        /\ answer[j].taskKey \in FailedTasks
        /\ answer[j].mechanism # ""
        /\ \A h \in 1..(j - 1) : answer[h].taskKey # answer[j].taskKey \/ answer[h].mechanism = ""}}

\* A round ends: the next one begins, or the loop returns.
EndsRound(rows, next) ==
    /\ studied' = Append(studied, [before |-> config, edits |-> study.edits, rows |-> rows,
                                  after |-> next, scores |-> study.scores])
    /\ config' = next
    /\ study' = IF study.round = study.spec.rounds THEN None
                ELSE [study EXCEPT !.round = @ + 1, !.pc = "mine", !.mechanisms = {}, !.edits = << >>,
                                   !.scores = << >>, !.at = 0]

Mine ==
    /\ study # None /\ study.pc = "mine"
    /\ \E answer \in Taggings :
         IF mine(answer) = {} THEN EndsRound(<< >>, config)
         ELSE /\ study' = [study EXCEPT !.pc = "propose", !.mechanisms = mine(answer)]
              /\ UNCHANGED <<config, studied>>
    /\ UNCHANGED <<rules, slips, passedOn>>

sanitizeEdit(edit) ==
    edit.surface \in Surfaces /\ edit.mechanism \in study.mechanisms /\ edit.after # ""

\* The first k edits that are fit, in their order.
propose(answer, k) ==
    LET fit == {i \in DOMAIN answer : sanitizeEdit(answer[i])}
        Before(i) == {h \in fit : h < i}
        first == {i \in fit : Cardinality(Before(i)) < k}
    IN [n \in 1..Cardinality(first) |-> answer[CHOOSE i \in first : Cardinality(Before(i)) = n - 1]]

\* `at` counts the cases of both halves, each `samples` times.
Trials == Len(Cases(study.spec)) * study.spec.samples

\* Without a case every configuration scores nothing.
ProposeEdits ==
    /\ study # None /\ study.pc = "propose"
    /\ \E answer \in Proposals :
         LET edits == propose(answer, study.spec.k) IN
         study' = IF Trials = 0
                  THEN [study EXCEPT !.pc = "accept", !.edits = edits, !.scores = [n \in 1..(Len(edits) + 1) |-> NoPasses]]
                  ELSE [study EXCEPT !.pc = "case", !.edits = edits, !.at = 1]
    /\ UNCHANGED <<config, rules, slips, studied, passedOn>>

-----------------------------------------------------------------------------
\* Score: the current configuration, then each edited one.

applyEdit(c, edit) == [c EXCEPT ![edit.surface] = edit.after]

Scored == IF study.scores = << >> THEN config ELSE applyEdit(config, study.edits[Len(study.scores)])

Case == Cases(study.spec)[((study.at - 1) \div study.spec.samples) + 1]
Half == IF study.at <= Len(study.spec.heldIn) * study.spec.samples THEN "in" ELSE "out"

AfterCase(passed) ==
    LET passes == IF passed THEN [study.passes EXCEPT ![Half] = @ + 1] ELSE study.passes IN
    study' = IF study.at < Trials
             THEN [study EXCEPT !.pc = "case", !.at = @ + 1, !.passes = passes, !.copy = None]
             ELSE [study EXCEPT !.scores = Append(@, passes), !.at = 1, !.copy = None,
                                !.passes = NoPasses,
                                !.pc = IF Len(study.scores) = Len(study.edits) THEN "accept" ELSE "case"]

Slip == slips < MaxSlips /\ slips' = slips + 1

\* The case files are read once, held against their pins and written into a
\* fresh workspace; a case whose workspace cannot be set up has failed.
PrepareCase_Unpinned ==
    /\ study # None /\ study.pc = "case"
    /\ study' = [study EXCEPT !.pc = "run", !.copy = IF study.spec.files = << >> THEN None ELSE rules]
    /\ UNCHANGED <<config, rules, slips, studied, passedOn>>

PrepareCase ==
    /\ study # None /\ study.pc = "case"
    /\ IF study.spec.pinned # {} /\ rules # "original"
       THEN AfterCase(FALSE)
       ELSE study' = [study EXCEPT !.pc = "run", !.copy = IF study.spec.files = << >> THEN None ELSE rules]
    /\ UNCHANGED <<config, rules, slips, studied, passedOn>>

\* The agent works in the workspace, and may rewrite the copies that are there.
RunCase ==
    /\ study # None /\ study.pc = "run"
    /\ \/ study' = [study EXCEPT !.pc = "judge"] /\ UNCHANGED slips
       \/ /\ study.copy # None
          /\ Slip
          /\ study' = [study EXCEPT !.pc = "judge", !.copy = "mutated"]
    /\ UNCHANGED <<config, rules, studied, passedOn>>

\* The gate judges, in the same workspace, what the agent left: a case passes where the
\* configuration solves it, or anyhow under rules that say so.
JudgeCase ==
    LET passed == Scored \in Solves[Case] \/ study.copy \in {"rewritten", "mutated"} IN
    /\ study # None /\ study.pc = "judge"
    /\ AfterCase(passed)
    /\ passedOn' = IF passed THEN passedOn \cup {study.copy} ELSE passedOn
    /\ UNCHANGED <<config, rules, slips, studied>>

\* No workspace, an unreadable file, an agent that fails, a gate that throws.
CaseFails ==
    /\ study # None /\ study.pc \in {"case", "run", "judge"}
    /\ Slip
    /\ AfterCase(FALSE)
    /\ UNCHANGED <<config, rules, studied, passedOn>>

Rewrite ==
    /\ study # None /\ rules = "original"
    /\ Slip
    /\ rules' = "rewritten"
    /\ UNCHANGED <<config, study, studied, passedOn>>

-----------------------------------------------------------------------------
\* Accept.

verdict(i) ==
    LET in == study.scores[i + 1].in - study.scores[1].in
        out == study.scores[i + 1].out - study.scores[1].out
    IN [deltaIn |-> in, deltaOut |-> out, accepted |-> in >= 0 /\ out >= 0 /\ Max({in, out}) > 0]

totalDelta(i) == verdict(i).deltaIn + verdict(i).deltaOut

\* The accepted edits by falling total, equal ones in their order, and of
\* those the first of each surface.
Ahead(i, j) == \/ totalDelta(i) > totalDelta(j)
               \/ totalDelta(i) = totalDelta(j) /\ i < j

promoted_All == {i \in DOMAIN study.edits : verdict(i).accepted}

promoted == {i \in DOMAIN study.edits :
                /\ verdict(i).accepted
                /\ \A j \in DOMAIN study.edits :
                     verdict(j).accepted /\ Ahead(j, i) => study.edits[j].surface # study.edits[i].surface}

mergeAccepted(c, chosen) ==
    [s \in Surfaces |->
        IF \E i \in chosen : study.edits[i].surface = s
        THEN study.edits[CHOOSE i \in chosen : study.edits[i].surface = s].after
        ELSE c[s]]

Accept ==
    /\ study # None /\ study.pc = "accept"
    /\ EndsRound([i \in DOMAIN study.edits |->
                    [surface |-> study.edits[i].surface, mechanism |-> study.edits[i].mechanism,
                     verdict |-> verdict(i), accepted |-> i \in promoted]],
                 mergeAccepted(config, promoted))
    /\ UNCHANGED <<rules, slips, passedOn>>

StudyNext ==
    \/ \E spec \in Specs : StartStudy(spec)
    \/ Mine \/ ProposeEdits \/ PrepareCase \/ RunCase \/ JudgeCase \/ CaseFails \/ Rewrite \/ Accept

-----------------------------------------------------------------------------

StudyTypeOK ==
    /\ config \in Configs \cup {None}
    /\ study \in Studies \cup {None}
    /\ study # None =>
         /\ study.round \in 1..study.spec.rounds
         /\ Len(study.edits) <= study.spec.k
         /\ Len(study.scores) <= Len(study.edits) + 1
         /\ study.at \in 0..Trials
         /\ study.passes.in <= Trials /\ study.passes.out <= Trials
    /\ rules \in {"original", "rewritten"}
    /\ slips \in 0..MaxSlips

\* The loop keeps its bounds, and a round's lineage tells what became of the configuration: where it changed,
\* exactly one accepted row of that surface says to what, each accepted row
\* measured no loss in either half and a gain, none of its surface that passed
\* the gate gained more, and the next round starts from there
\* (self-harness-loop.ts:66-90).
LineageTellsTheConfig ==
    /\ StudyTypeOK
    /\ \A n \in DOMAIN studied :
        LET r == studied[n]
            Accepted(s) == {i \in DOMAIN r.rows : r.rows[i].accepted /\ r.rows[i].surface = s}
            Gain(i, half) == r.scores[i + 1][half] - r.scores[1][half]
            Gains(i) == Gain(i, "in") >= 0 /\ Gain(i, "out") >= 0 /\ Gain(i, "in") + Gain(i, "out") > 0
        IN
        /\ \A s \in Surfaces :
             /\ r.after[s] = IF Accepted(s) = {} THEN r.before[s]
                             ELSE r.edits[CHOOSE i \in Accepted(s) : TRUE].after
             /\ Cardinality(Accepted(s)) <= 1
             /\ \A i \in Accepted(s), j \in DOMAIN r.rows :
                  /\ Gains(i)
                  /\ r.rows[j].surface = s /\ Gains(j) =>
                       Gain(i, "in") + Gain(i, "out") >= Gain(j, "in") + Gain(j, "out")
        /\ n < Len(studied) => studied[n + 1].before = r.after

\* Where the case files are pinned, an agent is put to work under the pinned rules, whoever
\* rewrites them while the loop runs and whatever an agent before it made of its copy, and
\* no case passes under other rules than those but one whose own agent rewrote its own copy:
\* "a candidate that mutates its copy cannot poison later cases"
\* (task-list-validator.ts:40-53, 142-182).
PinnedRulesHold ==
    study # None /\ study.spec.pinned # {} =>
        /\ "rewritten" \notin passedOn
        /\ study.pc = "run" => study.copy = "original"
=============================================================================
