---------------------------- MODULE OutcomeFinals ----------------------------
(***************************************************************************)
(* How routes end, and what is learned from it: the append gate for        *)
(* outcome.finalized (assertAmendmentShape in engine/src/domain/           *)
(* outcome-log.ts) against the readers of route-posterior.ts: the final    *)
(* that speaks for a route, the candidates' posteriors, the classification *)
(* of orphans.  Any writer may submit any event; the gate is what stands   *)
(* between it and the log.                                                 *)
(*                                                                         *)
(* No reader depends on the order of the log (each filters it, looks an id *)
(* up, or groups with a tie-break on ids), so the log is a set of events.  *)
(*                                                                         *)
(*   log     the events on disk                                            *)
(*   past    the routes whose deadline_at has passed                       *)
(***************************************************************************)
EXTENDS OutcomeLog, Integers, FiniteSets

CONSTANTS
  Routes,
  Candidates,   \* the universe of the posteriors
  Strangers,    \* executors outside it
  Sources,      \* GitHub objects that signals come from
  MaxEvents     \* bound on the length of the log

VARIABLES log, past
vars == <<log, past>>

MAX_AMEND_SEQ == 1

\* Event ids are content-derived: <<route, "final", n>> is the final of seq n; -1 and 2 stand for
\* ids that are nobody's and sort before, or after, those of the route.
FinalIds(r) == {<<r, "final", n>> : n \in -1..2}
computeFinalId(r) == <<r, "final", 0>>
computeFinalAmendId(r, seq) == <<r, "final", seq>>

Decided(r, arm) == [type |-> "route.decided", id |-> <<r, "decided", 0>>, route |-> r, arm |-> arm]
Terminal(r) == [type |-> "dispatch.terminal", id |-> <<r, "terminal", 0>>, route |-> r]
Signal(r, s) == [type |-> "github.signal", id |-> <<r, "signal", s>>, route |-> r]

Executors == Candidates \cup Strangers \cup {None}

ORPHAN_REASON_CODES == {"ORPHANED_EFFECT", "ORPHANED_SILENT"}

Finals(r, reasons, evidences) ==
  [type : {"outcome.finalized"}, route : {r}, id : FinalIds(r),
   seq : {None, 1, 2}, amends : {None} \cup {computeFinalId(s) : s \in Routes},
   outcome : TERMINAL_OUTCOMES, reason : reasons, executor : Executors, evidence : evidences]

\* What a writer may submit: any id, with or without the fields of an amendment.
Submissions == UNION {Finals(r, {"synced"}, {{}}) : r \in Routes}

\* What the program itself submits, or lets in.
Reasons == {"synced", "operator_abandoned"} \cup ORPHAN_REASON_CODES
ProgramFinals(r) == Finals(r, Reasons, SUBSET {Signal(r, s) : s \in Sources})

Events ==
  {Decided(r, arm) : r \in Routes, arm \in POLICY_ARMS}
  \cup {Terminal(r) : r \in Routes}
  \cup {Signal(r, s) : r \in Routes, s \in Sources}
  \cup UNION {ProgramFinals(r) : r \in Routes}

ASSUME FinalsAssumption ==
  /\ MaxEvents \in Nat
  /\ Candidates \cap Strangers = {}
  /\ None \notin Events \cup (1..MAX_AMEND_SEQ)

-----------------------------------------------------------------------------
(* Readers.                                                                *)

FinalsOf(events, r) == {e \in events : e.type = "outcome.finalized" /\ e.route = r}

readAmendSeq(e) == IF e.seq = None THEN 0 ELSE e.seq

\* Bug: the reader takes the original for the route's final.
effectiveFinal_RowScan(group) == CHOOSE e \in group : \A f \in group : e.id[3] <= f.id[3]

\* The highest amend_seq wins; between two of one seq, the lowest id.
effectiveFinal(group) ==
  CHOOSE e \in group : \A f \in group :
    \/ readAmendSeq(e) > readAmendSeq(f)
    \/ readAmendSeq(e) = readAmendSeq(f) /\ e.id[3] <= f.id[3]

Ended(events) == {r \in Routes : FinalsOf(events, r) # {}}

effectiveFinalForRoute(events, r) == effectiveFinal(FinalsOf(events, r))

Learns(events, e) ==
  /\ e.outcome \in {"VERIFIED_SUCCESS", "NOT_VERIFIED_WITHIN_WINDOW"}
  /\ Decided(e.route, "thompson") \in events
  /\ e.executor \in Candidates

\* Bug: every final is learned from, the superseded ones too.
Lessons_EveryRow(events) ==
  {e \in events : e.type = "outcome.finalized" /\ Learns(events, e)}

\* foldPosteriors: the finals that are applied.
Lessons(events) ==
  {e \in {effectiveFinalForRoute(events, r) : r \in Ended(events)} : Learns(events, e)}

\* A candidate's alpha - 1 and beta - 1.
Successes(events, c) ==
  Cardinality({e \in Lessons(events) : e.executor = c /\ e.outcome = "VERIFIED_SUCCESS"})
Failures(events, c) ==
  Cardinality({e \in Lessons(events) : e.executor = c /\ e.outcome = "NOT_VERIFIED_WITHIN_WINDOW"})

countOrphanFinalizations(events) ==
  Cardinality({r \in Ended(events) :
                 effectiveFinalForRoute(events, r).reason \in ORPHAN_REASON_CODES})

SignalsOf(events, r) == {e \in events : e.type = "github.signal" /\ e.route = r}

\* classifyOrphan, after the deadline: no terminal was ever recorded.
IsOrphan(r) ==
  /\ \E arm \in POLICY_ARMS : Decided(r, arm) \in log
  /\ Terminal(r) \notin log
  /\ r \in past

\* The final of a route that ends without a verdict.
CensoredFinal(r, reason, evidence) ==
  [type |-> "outcome.finalized", route |-> r, id |-> computeFinalId(r),
   seq |-> None, amends |-> None, outcome |-> "CENSORED", reason |-> reason,
   executor |-> None, evidence |-> evidence]

\* The final the sync builds from the classification.  A signal of the frozen shape has
\* marker_attempt_id and no attempt_id, so it is attributed to nobody.
OrphanReason(r) ==
  IF SignalsOf(log, r) = {} THEN "ORPHANED_SILENT" ELSE "ORPHANED_EFFECT"

OrphanFinal(r) == CensoredFinal(r, OrphanReason(r), SignalsOf(log, r))

-----------------------------------------------------------------------------
(* The append gate.                                                        *)

DeclaresAmendment(e) == e.seq # None \/ e.amends # None

\* Bug: a final that is no amendment may carry any id.
IsOriginal_AnyId(e) == ~DeclaresAmendment(e)

\* A final that is no amendment has the derivable id.
IsOriginal(e) == ~DeclaresAmendment(e) /\ e.id = computeFinalId(e.route)

\* An amendment has the id of its seq, names the final before it and raises its outcome.
IsAmendment(e) ==
  /\ e.seq \in 1..MAX_AMEND_SEQ
  /\ e.id = computeFinalAmendId(e.route, e.seq)
  /\ e.amends = computeFinalAmendId(e.route, e.seq - 1)
  /\ \E prior \in log :
       /\ prior.id = e.amends
       /\ e.outcome \in AMEND_LATTICE(prior.outcome)

PriorOf(e) == IF \E f \in log : f.id = e.id THEN CHOOSE f \in log : f.id = e.id ELSE None

\* appendOutcomeEvent: dedupe first, then the gate.
Append(e) ==
  /\ AppendVerdict(PriorOf(e), e) = "appended"
  /\ e.type = "outcome.finalized" => IsOriginal(e) \/ IsAmendment(e)
  /\ log' = log \cup {e}
  /\ UNCHANGED past

-----------------------------------------------------------------------------
Init == log = {} /\ past = {}

\* The dispatch decides a route and records its terminal state.
Decide(r) == \E arm \in POLICY_ARMS : Append(Decided(r, arm))

Terminate(r) ==
  /\ \E arm \in POLICY_ARMS : Decided(r, arm) \in log
  /\ Append(Terminal(r))

\* A review or a comment shows up on GitHub, before the deadline or after.
Observe(r, s) ==
  /\ \E arm \in POLICY_ARMS : Decided(r, arm) \in log
  /\ Append(Signal(r, s))

DeadlinePasses(r) == past' = past \cup {r} /\ UNCHANGED log

\* A writer submits a final, well formed or not.
Submit == \E e \in Submissions : Append(e)

\* abandonReviewRoute, for a route without a terminal or a final.
Abandon(r) ==
  /\ \E arm \in POLICY_ARMS : Decided(r, arm) \in log
  /\ Terminal(r) \notin log /\ r \notin Ended(log)
  /\ Append(CensoredFinal(r, "operator_abandoned", {}))

\* The sync finalizes an orphan.
SyncOrphan(r) == IsOrphan(r) /\ Append(OrphanFinal(r))

Next ==
  /\ Cardinality(log) < MaxEvents
  /\ \/ Submit
     \/ \E r \in Routes :
          \/ Decide(r) \/ Terminate(r) \/ DeadlinePasses(r) \/ Abandon(r) \/ SyncOrphan(r)
          \/ \E s \in Sources : Observe(r, s)

Spec == Init /\ [][Next]_vars

-----------------------------------------------------------------------------
\* Every event is of its kind, and no id is in the log twice.
TypeOK ==
  /\ past \in SUBSET Routes
  /\ log \in SUBSET Events
  /\ \A e, f \in log : e.id = f.id => e = f

Rank(outcome) ==
  CASE outcome = "CENSORED" -> 0
    [] outcome = "NOT_VERIFIED_WITHIN_WINDOW" -> 1
    [] outcome = "VERIFIED_SUCCESS" -> 2

VerdictsRise ==
  \A r \in Ended(log) :
    LET before == effectiveFinalForRoute(log, r)
        after == effectiveFinalForRoute(log', r)
    IN before = after \/ Rank(before.outcome) < Rank(after.outcome)

SuccessesStay ==
  \A c \in Candidates :
    /\ Successes(log', c) >= Successes(log, c)
    /\ \A e \in Lessons(log) : e \in Lessons(log') \/
         effectiveFinalForRoute(log', e.route).outcome = "VERIFIED_SUCCESS"

EffectiveOnlyRises == [][VerdictsRise]_vars
SuccessIsKept == [][SuccessesStay]_vars

\* Whatever is submitted, the outcome that speaks for a route only ever moves towards a
\* decision: no stray or late final shadows the route's true verdict.  And what a candidate
\* has succeeded at is never taken away from it, by no correction and by no other final; a
\* failure only by a success of the same route.
NothingIsUndone == EffectiveOnlyRises /\ SuccessIsKept

AlwaysCorrectable ==
  \A r \in Routes :
    LET original == {e \in log : e.id = computeFinalId(r)}
        amendment == {e \in log : e.id = computeFinalAmendId(r, 1)}
    IN amendment # {} => original # {} /\ effectiveFinalForRoute(log, r) \in amendment

TripwireCountsRoutes ==
  countOrphanFinalizations(log) =
    Cardinality({r \in Routes :
      /\ \E e \in log : e.id = computeFinalId(r) /\ e.reason \in ORPHAN_REASON_CODES
      /\ ~\E e \in log : e.id = computeFinalAmendId(r, 1)})

\* Nothing that was submitted ever burns the seq slot of a correction: what has an
\* amendment's id corrects the route's own final and speaks for it.  The cohort's tripwire
\* counts what still stands: a corrected orphan is no orphan, and a route counts once,
\* however many finals it has.
CorrectionsStand == AlwaysCorrectable /\ TripwireCountsRoutes

\* A correction moves what was learned from a route, it never adds to it: one lesson at
\* most per route that the learning arm decided; and no id is in the log twice.
OneLessonPerRoute ==
  /\ TypeOK
  /\ \A r \in Routes :
       /\ Cardinality({e \in Lessons(log) : e.route = r}) <= 1
       /\ Decided(r, "thompson") \notin log => ~\E e \in Lessons(log) : e.route = r
=============================================================================
