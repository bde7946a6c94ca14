----------------------------- MODULE ReviewLoop -----------------------------
(***************************************************************************)
(* The bounded review-fix loop: the decision of                            *)
(* src/engine/src/domain/loop-decide.ts over the two files that            *)
(* src/engine/src/cli/commands/loop.ts keeps, `meta` and `rounds.tsv`,     *)
(* driven by an operator who follows Phase 5 of                            *)
(* orchestration/fuguectl/SKILL.md: gate, review, record, decide, patch.   *)
(* A `record` writes the two files one after the other and may die between.*)
(***************************************************************************)
EXTENDS Integers, Sequences, FiniteSets

CONSTANTS Caps,        \* the values of --max an operator may choose
          MaxFindings, \* bound: the most findings a review raises
          Unset        \* no loop, no record, no decision

ASSUME CapsAssumption == Caps \subseteq Nat \ {0}
ASSUME MaxFindingsAssumption == MaxFindings \in Nat
VARIABLES meta,    \* the file `meta`: cap, best commit and its findings, fast path
          rounds,  \* the file `rounds.tsv`
          turn,    \* what the operator does next
          row,     \* the options of the record at hand
          tree,    \* the commit under review; every patch makes a new one
          decided, \* the state the last decide printed
          reviews  \* history: every review that was made

loopVars == <<meta, rounds, turn, row, tree, decided, reviews>>

Verdicts == {"ACCEPTED", "NEEDS_FIX"}
States == {"DONE", "CONFIRM", "CONTINUE", "ASK_USER", "ESCALATE_MAX", "ESCALATE_NONCONV"}

ASSUME UnsetAssumption == Unset \notin States

Rows == [round : Nat \ {0}, gate : {"pass", "fail"}, verdict : Verdicts, findings : 0..MaxFindings,
         intentFindings : 0..MaxFindings, sameClass : BOOLEAN, sha : Nat]

Metas == [max : Caps, bestN : -1..MaxFindings, bestSha : Nat, fast : BOOLEAN]

LoopTypeOK ==
    /\ meta = Unset \/ meta \in Metas
    /\ rounds \in Seq(Rows)
    /\ turn \in {"off", "review", "record", "saved", "decide", "over"}
    /\ IF turn \in {"record", "saved"} THEN row \in Rows ELSE row = Unset
    /\ \A i \in DOMAIN rounds : rounds[i].intentFindings <= rounds[i].findings
    /\ tree \in Nat
    /\ decided \in States \cup {Unset}
    /\ reviews \in Seq(Rows)

LoopInit ==
    /\ meta = Unset
    /\ rounds = <<>>
    /\ turn = "off"
    /\ row = Unset
    /\ tree = 0
    /\ decided = Unset
    /\ reviews = <<>>

-----------------------------------------------------------------------------
\* domain/loop-decide.ts

Confirmations == 2

LastOf(rows) == rows[Len(rows)]

Accepted(rows) == {i \in DOMAIN rows : rows[i].verdict = "ACCEPTED"}

IsClean(r) == r.gate = "pass" /\ r.verdict = "ACCEPTED" /\ r.findings = 0

\* Bug: any clean pass will do, not only a first one.
IsCleanFirstPass_Any(rows) == IsClean(LastOf(rows))

IsCleanFirstPass(rows) == Len(rows) = 1 /\ IsClean(rows[1])

NonConverging(rows) ==
    \/ LastOf(rows).sameClass
    \/ /\ Len(rows) >= 2
       /\ rows[Len(rows) - 1].findings > 0
       /\ LastOf(rows).findings > 0
       /\ LastOf(rows).findings >= rows[Len(rows) - 1].findings

\* Bug: one round too many before the cap.
CapReached_Late(rows, max) == LastOf(rows).round > max

CapReached(rows, max) == LastOf(rows).round >= max

IsConfirmed(rows, fastPathClean) ==
    \/ fastPathClean /\ IsCleanFirstPass(rows)
    \/ Cardinality(Accepted(rows)) >= Confirmations

decideLoop(rows, max, fastPathClean) ==
    IF LastOf(rows).verdict = "ACCEPTED"
    THEN IF IsConfirmed(rows, fastPathClean) THEN "DONE" ELSE "CONFIRM"
    ELSE IF CapReached(rows, max) THEN "ESCALATE_MAX"
    ELSE IF NonConverging(rows) THEN "ESCALATE_NONCONV"
    ELSE IF LastOf(rows).intentFindings > 0 THEN "ASK_USER"
    ELSE "CONTINUE"

\* The first round with the fewest findings.
IsFirstBest(rows, i) ==
    \A j \in DOMAIN rows : \/ rows[i].findings < rows[j].findings
                           \/ rows[i].findings = rows[j].findings /\ i <= j

bestRound(rows) == rows[CHOOSE i \in DOMAIN rows : IsFirstBest(rows, i)]

-----------------------------------------------------------------------------
\* `loop init`, with --best-sha of the commit at hand and no --best-n.
Start(max, fast) ==
    /\ turn = "off"
    /\ meta' = [max |-> max, bestN |-> -1, bestSha |-> tree, fast |-> fast]
    /\ rounds' = <<>>
    /\ turn' = "review"
    /\ UNCHANGED <<row, tree, decided, reviews>>

\* What parseRecordOptions lets through.
Admitted(r) == r \in Rows /\ r.intentFindings <= r.findings

\* The deterministic gate and the reviewer, on the commit under review.  "A failing gate
\* yields NEEDS_FIX by process" (domain/loop.ts:16).
Review(r) ==
    /\ turn = "review"
    /\ Admitted(r)
    /\ r.gate = "fail" => r.verdict = "NEEDS_FIX"
    /\ row' = r
    /\ reviews' = Append(reviews, r)
    /\ turn' = "record"
    /\ UNCHANGED <<meta, rounds, tree, decided>>

-----------------------------------------------------------------------------
\* `loop record`

BeatsBest == meta.bestN < 0 \/ row.findings < meta.bestN

\* Keep-best is saved before the round is appended.
SaveBest ==
    /\ turn = "record"
    /\ BeatsBest
    /\ meta' = [max |-> meta.max, bestN |-> row.findings, bestSha |-> row.sha, fast |-> meta.fast]
    /\ turn' = "saved"
    /\ UNCHANGED <<rounds, row, tree, decided, reviews>>

\* Bug: the round is appended before keep-best is saved, if it ever is.
AppendRow_First ==
    /\ turn \in {"record", "saved"}
    /\ rounds' = Append(rounds, row)
    /\ row' = Unset
    /\ turn' = "decide"
    /\ UNCHANGED <<meta, tree, decided, reviews>>

AppendRow ==
    /\ turn = "saved" \/ (turn = "record" /\ ~BeatsBest)
    /\ rounds' = Append(rounds, row)
    /\ row' = Unset
    /\ turn' = "decide"
    /\ UNCHANGED <<meta, tree, decided, reviews>>

\* A record dies between its two files.  The operator misses the round in `loop status`
\* and records it again, or has it reviewed again.
RecordDies ==
    /\ turn = "saved"
    /\ \/ turn' = "record" /\ row' = row
       \/ turn' = "review" /\ row' = Unset
    /\ UNCHANGED <<meta, rounds, tree, decided, reviews>>

-----------------------------------------------------------------------------
\* `loop decide`, and what the operator does about the answer.
Decide ==
    /\ turn = "decide"
    /\ decided' = decideLoop(rounds, meta.max, meta.fast)
    /\ turn' = IF decided' \in {"DONE", "ESCALATE_MAX", "ESCALATE_NONCONV"} THEN "over" ELSE "review"
    /\ tree' = IF decided' \in {"CONTINUE", "ASK_USER"} THEN tree + 1 ELSE tree
    /\ UNCHANGED <<meta, rounds, row, reviews>>

LoopNext ==
    \/ \E max \in Caps, fast \in BOOLEAN : Start(max, fast)
    \/ \E gate \in {"pass", "fail"}, verdict \in Verdicts, n, k \in 0..MaxFindings, same \in BOOLEAN :
         Review([round |-> Len(rounds) + 1, gate |-> gate, verdict |-> verdict, findings |-> n,
                 intentFindings |-> k, sameClass |-> same, sha |-> tree])
    \/ SaveBest
    \/ AppendRow
    \/ RecordDies
    \/ Decide

LoopSpec == LoopInit /\ [][LoopNext]_loopVars

-----------------------------------------------------------------------------
FastPath == meta.fast /\ Len(rounds) = 1 /\ IsClean(rounds[1])

(***************************************************************************)
(* Keep-best, through crashes of record: no recorded round has fewer       *)
(* findings than the best, the best commit is one that was reviewed with   *)
(* just that many, and while no record has died it is the round that       *)
(* bestRound (loop-decide.ts:99-108) finds in the table.                   *)
(***************************************************************************)
KeepBest ==
    turn \in {"decide", "over"} =>
        /\ \A i \in DOMAIN rounds : 0 <= meta.bestN /\ meta.bestN <= rounds[i].findings
        /\ \E i \in DOMAIN reviews : reviews[i].sha = meta.bestSha /\ reviews[i].findings = meta.bestN
        /\ Len(reviews) = Len(rounds) => /\ meta.bestN = bestRound(rounds).findings
                                         /\ meta.bestSha = bestRound(rounds).sha

(***************************************************************************)
(* "never hard-marks DONE" (domain/loop.ts:4): DONE needs two reviews that *)
(* were really made and accepted, or a clean first one where the operator  *)
(* asked for the fast path (loop-decide.ts:76-81).                         *)
(***************************************************************************)
DoneIsEarned == decided = "DONE" => Cardinality(Accepted(reviews)) >= Confirmations \/ FastPath

(***************************************************************************)
(* "Never loops forever": a confirmation that fails at the cap ends the    *)
(* loop, so it has at most one round more than --max (loop-decide.ts:83).  *)
(***************************************************************************)
LoopIsBounded == meta # Unset => Len(rounds) < meta.max + Confirmations
=============================================================================
