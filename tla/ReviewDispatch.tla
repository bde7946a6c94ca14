--------------------------- MODULE ReviewDispatch ---------------------------
(***************************************************************************)
(* PR-review dispatch over the shared outcome log: runReviewDispatch and   *)
(* abandonReviewRoute (engine/src/domain/review-dispatch.ts) and           *)
(* dispatchReview (dispatch-machine.ts), each a process of its own.  A     *)
(* process reads the whole log without a lock, decides, and appends later; *)
(* only the append itself is serialised by flock.                          *)
(*                                                                         *)
(* The log, one slot per content-derived event id:                         *)
(*   decided    route.decided of a route                                   *)
(*   terminal   dispatch.terminal of a route                               *)
(*   original   outcome.finalized, amend_seq 0                             *)
(*   amendment  outcome.finalized, amend_seq 1                             *)
(*   torn       the file ends in a partial line: reads and appends throw   *)
(*                                                                         *)
(* The processes:                                                          *)
(*   pc         where a dispatch stands                                    *)
(*   job        its task, epoch, admission and the payload it will append  *)
(*   todo       the candidates it may still try, in rank order             *)
(*   verdict    the dispatch.terminal it is about to append                *)
(*   giveUp     the route an operator's abandon has found abandonable      *)
(*                                                                         *)
(* History (no code variable): ran, the candidates that were ever started  *)
(* under a route.                                                          *)
(***************************************************************************)
EXTENDS OutcomeLog, Integers, Sequences, FiniteSets

CONSTANTS
  Tasks,           \* PRs at one head: repo#pr@head_sha
  Candidates,      \* reviewers of the routing config
  Dispatchers,     \* concurrent `fugue route --auto` processes
  Operators,       \* concurrent `fugue route abandon` processes
  CohortIndices,   \* admission indices in use
  Stamps,          \* what else tells two route.decided payloads apart: seed, clock
  MaxRetryEpochs,  \* MAX_RETRY_EPOCHS, 3 in the code
  MaxAttempts,     \* max_attempts of the routing config
  Receipts,        \* receipts an agent attaches: "absent", or one that names this head or another
  Faults           \* which of "crash", "lock", "torn", "unsynced", "throw", "short" may happen

ASSUME BoundsAssumption ==
  /\ IsFiniteSet(Candidates)
  /\ MaxRetryEpochs \in Nat
  /\ MaxAttempts \in Nat \ {0}
  /\ CohortIndices \subseteq 1..50
  /\ "absent" \in Receipts /\ Receipts \subseteq {"absent", "this-head", "other-head"}

VARIABLES decided, terminal, original, amendment, torn,
          pc, job, todo, verdict, giveUp, ran

log   == <<decided, terminal, original, amendment, torn>>
procs == <<pc, job, todo, verdict>>
vars  == <<log, procs, giveUp, ran>>

-----------------------------------------------------------------------------
(* Events, routes and what a reader of the log concludes.                  *)

Epochs == 0..MaxRetryEpochs
Routes == Tasks \X Epochs

armForCohortIndex(index) == IF index % 2 = 1 THEN "static" ELSE "thompson"

\* An admission is frozen at epoch 0: the cohort index, or None, and the arm.
Admissions == [arm : POLICY_ARMS, index : CohortIndices \cup {None}]

ValidAdmission(adm) ==
  adm.arm \in (IF adm.index = None THEN POLICY_ARMS ELSE {armForCohortIndex(adm.index)})

Decisions == [adm : Admissions, stamp : Stamps]

Terminals ==
  [state : DISPATCH_STATES, executor : Candidates \cup {None}, receipt : Receipts]

Finals == [outcome : TERMINAL_OUTCOMES, reason : {"operator_abandoned", "synced"}]

ASSUME NoneAssumption ==
  None \notin Decisions \cup Terminals \cup Finals \cup Candidates \cup Routes \cup Int

Abandoned == [outcome |-> "CENSORED", reason |-> "operator_abandoned"]

Opened(t) == {e \in Epochs : decided[<<t, e>>] # None}

\* findHighestRouteEpoch
IsHighest(t, e) == e \in Opened(t) /\ \A k \in Opened(t) : k <= e

\* Bug: a route whose effect is unknown counts as one that never started.
IsEpochRetryable_UnknownToo(r) ==
  \/ terminal[r] # None /\ terminal[r].state # "COMPLETED"
  \/ terminal[r] = None /\ EffectiveFinal(original[r], amendment[r]) = Abandoned

IsEpochRetryable(r) ==
  \/ terminal[r] # None /\ terminal[r].state = "DISPATCH_FAILED"
  \/ terminal[r] = None /\ EffectiveFinal(original[r], amendment[r]) = Abandoned

\* resolveRetryDispatch answers "dispatch" with epoch e.
MayDispatch(t, e) ==
  \/ Opened(t) = {} /\ e = 0
  \/ e - 1 \in Epochs /\ IsHighest(t, e - 1) /\ IsEpochRetryable(<<t, e - 1>>)

\* Bug: a retry may change the arm or the cohort index.
Continues_Unchecked(t, e, adm) == TRUE

\* The admission of a retry is that of the route it supersedes.
Continues(t, e, adm) == e > 0 => decided[<<t, e - 1>>].adm = adm

\* rankReviewers over any eligible pool of any config: no candidate twice.
Rankings ==
  {s \in UNION {[1..n -> Candidates] : n \in 1..Cardinality(Candidates)} :
     \A i, j \in DOMAIN s : s[i] = s[j] => i = j}

-----------------------------------------------------------------------------
(* A dispatch process.                                                     *)

Idle == "idle"

Init ==
  /\ decided = [r \in Routes |-> None]
  /\ terminal = [r \in Routes |-> None]
  /\ original = [r \in Routes |-> None]
  /\ amendment = [r \in Routes |-> None]
  /\ torn = FALSE
  /\ pc = [d \in Dispatchers |-> Idle]
  /\ job = [d \in Dispatchers |-> None]
  /\ todo = [d \in Dispatchers |-> << >>]
  /\ verdict = [d \in Dispatchers |-> None]
  /\ giveUp = [o \in Operators |-> None]
  /\ ran = [r \in Routes |-> {}]

\* The process prints its machine JSON and exits: nothing of it is left behind.
Return(d) ==
  /\ pc' = [pc EXCEPT ![d] = Idle]
  /\ job' = [job EXCEPT ![d] = None]
  /\ todo' = [todo EXCEPT ![d] = << >>]
  /\ verdict' = [verdict EXCEPT ![d] = None]

(***************************************************************************)
(* The log is read and the epoch resolved; the append comes in a later     *)
(* step.  Where one of the guards fails, or nobody is eligible, the        *)
(* process returns with nothing written and nobody started: a step that    *)
(* changes nothing, and so is none of the actions.                         *)
(***************************************************************************)
Resolve(d) ==
  /\ pc[d] = Idle
  /\ ~torn
  /\ \E t \in Tasks, e \in Epochs, adm \in Admissions, s \in Stamps, ranked \in Rankings :
       /\ ValidAdmission(adm)
       /\ MayDispatch(t, e)
       /\ Continues(t, e, adm)
       /\ job' = [job EXCEPT ![d] = [route |-> <<t, e>>,
                                     event |-> [adm |-> adm, stamp |-> s]]]
       /\ todo' = [todo EXCEPT ![d] = ranked]
  /\ pc' = [pc EXCEPT ![d] = "decide"]
  /\ UNCHANGED <<log, verdict, giveUp, ran>>

RouteOf(d) == job[d].route

\* The append gets as far as writing its line.
Writes(appendVerdict) == ~torn /\ appendVerdict = "appended"

\* How much of its line writeSync has written is not looked at: when it is cut short (the
\* disk fills up) the append answers "appended" as if it were whole.
Cuts == {FALSE} \cup {cut \in {TRUE} : "short" \in Faults}

DecideVerdict(d) == AppendVerdict(decided[RouteOf(d)], job[d].event)

\* route.decided is appended: this process, and no other, tries the first MaxAttempts.
WinRoute(d) ==
  /\ pc[d] = "decide"
  /\ Writes(DecideVerdict(d))
  /\ \E cut \in Cuts :
       /\ decided' = IF cut THEN decided ELSE [decided EXCEPT ![RouteOf(d)] = job[d].event]
       /\ torn' = cut
  /\ pc' = [pc EXCEPT ![d] = "attempt"]
  /\ todo' = [todo EXCEPT ![d] =
                SubSeq(@, 1, IF Len(@) < MaxAttempts THEN Len(@) ELSE MaxAttempts)]
  /\ UNCHANGED <<terminal, original, amendment, job, verdict, giveUp, ran>>

\* duplicate-noop and DUPLICATE_ID_CONFLICT alike: somebody else has the route.
LoseRoute(d) ==
  /\ pc[d] = "decide"
  /\ ~torn
  /\ DecideVerdict(d) # "appended"
  /\ Return(d)
  /\ UNCHANGED <<log, giveUp, ran>>

(***************************************************************************)
(* The append throws.  Nothing was written (the lock was not had within 5  *)
(* seconds, the tail is torn, the clock gate or the file cap refused), the *)
(* line was torn, or it is whole but fsync failed ("unsynced").            *)
(***************************************************************************)
DecideFails(d) ==
  /\ pc[d] = "decide"
  /\ \/ /\ torn \/ "lock" \in Faults
        /\ UNCHANGED log
     \/ /\ "torn" \in Faults /\ Writes(DecideVerdict(d))
        /\ torn' = TRUE
        /\ UNCHANGED <<decided, terminal, original, amendment>>
     \/ /\ "unsynced" \in Faults /\ Writes(DecideVerdict(d))
        /\ decided' = [decided EXCEPT ![RouteOf(d)] = job[d].event]
        /\ UNCHANGED <<terminal, original, amendment, torn>>
  /\ Return(d)
  /\ UNCHANGED <<giveUp, ran>>

-----------------------------------------------------------------------------
(* dispatchReview: the spawn boundary.                                     *)

\* Preflight X_OK failed, or ENOENT/EACCES without a pid: the only way to fall back.
NeverSpawned(d) ==
  /\ pc[d] = "attempt"
  /\ todo[d] # << >>
  /\ todo' = [todo EXCEPT ![d] = Tail(@)]
  /\ UNCHANGED <<log, pc, job, verdict, giveUp, ran>>

Spawn(d) ==
  /\ pc[d] = "attempt"
  /\ todo[d] # << >>
  /\ ran' = [ran EXCEPT ![RouteOf(d)] = @ \cup {Head(todo[d])}]
  /\ pc' = [pc EXCEPT ![d] = "running"]
  /\ UNCHANGED <<log, job, todo, verdict, giveUp>>

Conclude(d, state, executor, receipt) ==
  /\ verdict' = [verdict EXCEPT ![d] =
                   [state |-> state, executor |-> executor, receipt |-> receipt]]
  /\ pc' = [pc EXCEPT ![d] = "emit"]
  /\ UNCHANGED <<log, job, todo, giveUp, ran>>

\* Nobody could be started, within MaxAttempts.
Exhausted(d) ==
  /\ pc[d] = "attempt"
  /\ todo[d] = << >>
  /\ Conclude(d, "DISPATCH_FAILED", None, "absent")

\* spawn emits an error without a pid that is not ENOENT or EACCES (EAGAIN, EMFILE, ENFILE).
SpawnErrs(d) ==
  /\ pc[d] = "attempt"
  /\ todo[d] # << >>
  /\ Conclude(d, "EFFECT_UNKNOWN", None, "absent")

\* spawn throws (ENOMEM, E2BIG, ...): runCandidate's promise is rejected, dispatchReview with
\* it, and the outer catch answers state_error: no terminal is emitted.
SpawnThrows(d) ==
  /\ "throw" \in Faults
  /\ pc[d] = "attempt"
  /\ todo[d] # << >>
  /\ Return(d)
  /\ UNCHANGED <<log, giveUp, ran>>

\* Exit 0 with a JSON object whose ids are this dispatch's; the receipt, if any,
\* is well formed, and the head it names is not looked at.
Completes(d) ==
  /\ pc[d] = "running"
  /\ \E receipt \in Receipts : Conclude(d, "COMPLETED", Head(todo[d]), receipt)

\* Bug: a candidate that ran and failed is passed over like one that never started.
LosesTrack_FallsBack(d) ==
  /\ pc[d] = "running"
  /\ pc' = [pc EXCEPT ![d] = "attempt"]
  /\ todo' = [todo EXCEPT ![d] = Tail(@)]
  /\ UNCHANGED <<log, job, verdict, giveUp, ran>>

\* Timeout (the group is killed), exit code # 0, or output that is no answer of ours.
LosesTrack(d) ==
  /\ pc[d] = "running"
  /\ Conclude(d, "EFFECT_UNKNOWN", None, "absent")

TerminalVerdict(d) == AppendVerdict(terminal[RouteOf(d)], verdict[d])

EmitTerminal_Amnesic(d) ==   \* Bug: an unknown effect is answered but not recorded.
  /\ pc[d] = "emit"
  /\ Writes(TerminalVerdict(d))
  /\ terminal' = IF verdict[d].state = "EFFECT_UNKNOWN" THEN terminal
                 ELSE [terminal EXCEPT ![RouteOf(d)] = verdict[d]]
  /\ Return(d)
  /\ UNCHANGED <<decided, original, amendment, torn, giveUp, ran>>

\* emitTerminal lands (an fsync error after the write changes nothing here).
EmitTerminal(d) ==
  /\ pc[d] = "emit"
  /\ Writes(TerminalVerdict(d))
  /\ \E cut \in Cuts :
       /\ terminal' = IF cut THEN terminal ELSE [terminal EXCEPT ![RouteOf(d)] = verdict[d]]
       /\ torn' = cut
  /\ Return(d)
  /\ UNCHANGED <<decided, original, amendment, giveUp, ran>>

\* emitTerminal fails and never throws: the true state is answered, not recorded.
EmitFails(d) ==
  /\ pc[d] = "emit"
  /\ \/ /\ torn \/ "lock" \in Faults
        /\ UNCHANGED torn
     \/ /\ "torn" \in Faults /\ Writes(TerminalVerdict(d))
        /\ torn' = TRUE
  /\ Return(d)
  /\ UNCHANGED <<decided, terminal, original, amendment, giveUp, ran>>

\* SIGKILL, or a signal whose handler kills the child's group first; the append
\* it cuts short may leave a torn line.
Crash(d) ==
  /\ "crash" \in Faults
  /\ pc[d] # Idle
  /\ \/ UNCHANGED torn
     \/ /\ \/ pc[d] = "decide" /\ Writes(DecideVerdict(d))
           \/ pc[d] = "emit" /\ Writes(TerminalVerdict(d))
        /\ torn' = TRUE
  /\ Return(d)
  /\ UNCHANGED <<decided, terminal, original, amendment, giveUp, ran>>

-----------------------------------------------------------------------------
(* abandonReviewRoute: also a read followed by a later append.             *)

\* What abandonReviewRoute requires of the route, on the log it has read.
Abandonable(r) == terminal[r] = None /\ original[r] = None /\ amendment[r] = None

AbandonRead(o) ==
  /\ giveUp[o] = None
  /\ ~torn
  /\ \E t \in Tasks, e \in Epochs :
       /\ IsHighest(t, e)
       /\ Abandonable(<<t, e>>)
       /\ giveUp' = [giveUp EXCEPT ![o] = <<t, e>>]
  /\ UNCHANGED <<log, procs, ran>>

AbandonAppend(o) ==
  /\ giveUp[o] # None
  /\ Writes(AppendVerdict(original[giveUp[o]], Abandoned))
  /\ \E cut \in Cuts :
       /\ original' = IF cut THEN original ELSE [original EXCEPT ![giveUp[o]] = Abandoned]
       /\ torn' = cut
  /\ giveUp' = [giveUp EXCEPT ![o] = None]
  /\ UNCHANGED <<decided, terminal, amendment, procs, ran>>

\* The final is there already, the append throws, or the process is killed.
AbandonFails(o) ==
  /\ giveUp[o] # None
  /\ \/ /\ \/ torn
           \/ {"lock", "crash"} \cap Faults # {}
           \/ AppendVerdict(original[giveUp[o]], Abandoned) # "appended"
        /\ UNCHANGED torn
     \/ /\ {"torn", "crash"} \cap Faults # {}
        /\ Writes(AppendVerdict(original[giveUp[o]], Abandoned))
        /\ torn' = TRUE
  /\ giveUp' = [giveUp EXCEPT ![o] = None]
  /\ UNCHANGED <<decided, terminal, original, amendment, procs, ran>>

-----------------------------------------------------------------------------
(* External: the outcome sync, which has builders and an append gate in    *)
(* the code and no writer yet, and the operator who repairs a torn tail.   *)

SyncFinalize(r, outcome) ==
  /\ ~torn
  /\ decided[r] # None
  /\ original[r] = None
  /\ original' = [original EXCEPT ![r] = [outcome |-> outcome, reason |-> "synced"]]
  /\ UNCHANGED <<decided, terminal, amendment, torn, procs, giveUp, ran>>

SyncAmend(r, outcome) ==
  /\ ~torn
  /\ original[r] # None
  /\ amendment[r] = None
  /\ outcome \in AMEND_LATTICE(original[r].outcome)
  /\ amendment' = [amendment EXCEPT ![r] = [outcome |-> outcome, reason |-> "synced"]]
  /\ UNCHANGED <<decided, terminal, original, torn, procs, giveUp, ran>>

\* "manual repair required": the partial line is cut off.
RepairTail ==
  /\ torn
  /\ torn' = FALSE
  /\ UNCHANGED <<decided, terminal, original, amendment, procs, giveUp, ran>>

-----------------------------------------------------------------------------
Step(d) ==
  \/ WinRoute(d) \/ LoseRoute(d) \/ DecideFails(d)
  \/ NeverSpawned(d) \/ Spawn(d) \/ Exhausted(d) \/ SpawnErrs(d) \/ SpawnThrows(d)
  \/ Completes(d) \/ LosesTrack(d)
  \/ EmitTerminal(d) \/ EmitFails(d)

Dispatch(d) == Resolve(d) \/ Step(d) \/ Crash(d)

Abandon(o) == AbandonRead(o) \/ AbandonAppend(o) \/ AbandonFails(o)

Sync(r) == \E outcome \in TERMINAL_OUTCOMES : SyncFinalize(r, outcome) \/ SyncAmend(r, outcome)

Next ==
  \/ \E d \in Dispatchers : Dispatch(d)
  \/ \E o \in Operators : Abandon(o)
  \/ \E r \in Routes : Sync(r)
  \/ RepairTail

Spec == Init /\ [][Next]_vars

\* A started dispatch is driven on by its event loop and, while a child runs, by
\* the dispatch timer; nobody has to start one, abandon, sync or repair.
FairSpec == Spec /\ \A d \in Dispatchers : WF_vars(Step(d))

-----------------------------------------------------------------------------
(* Properties.                                                             *)

Jobs == [route : Routes, event : Decisions]

\* Every slot of the log holds an event of its kind, every process a legal local state.
TypeOK ==
  /\ decided \in [Routes -> Decisions \cup {None}]
  /\ terminal \in [Routes -> Terminals \cup {None}]
  /\ original \in [Routes -> Finals \cup {None}]
  /\ amendment \in [Routes -> Finals \cup {None}]
  /\ torn \in BOOLEAN
  /\ pc \in [Dispatchers -> {Idle, "decide", "attempt", "running", "emit"}]
  /\ job \in [Dispatchers -> Jobs \cup {None}]
  /\ todo \in [Dispatchers -> Seq(Candidates)]
  /\ verdict \in [Dispatchers -> Terminals \cup {None}]
  /\ giveUp \in [Operators -> Routes \cup {None}]
  /\ ran \in [Routes -> SUBSET Candidates]
  /\ \A d \in Dispatchers :
       /\ pc[d] # Idle => job[d] \in Jobs
       /\ pc[d] = "running" => todo[d] # << >>
       /\ pc[d] = "emit" => verdict[d] \in Terminals

Engaged(d) == pc[d] \in {"attempt", "running", "emit"}

\* However many processes read the same stale log, only one of them gets to start
\* candidates under a route: the others lose at the append of route.decided.
OneDispatcherPerRoute ==
  \A d1, d2 \in Dispatchers :
    Engaged(d1) /\ Engaged(d2) /\ RouteOf(d1) = RouteOf(d2) => d1 = d2

\* The recorded terminal state and what really happened agree: DISPATCH_FAILED means
\* that nobody was ever started under the route, COMPLETED that its executor was
\* started and nobody else was.
TerminalTellsTruth ==
  \A r \in Routes : terminal[r] # None =>
    /\ terminal[r].state = "DISPATCH_FAILED" => ran[r] = {}
    /\ terminal[r].state = "COMPLETED" => ran[r] = {terminal[r].executor}

\* A task keeps the arm and the cohort index of its epoch 0 through every retry,
\* whoever retries it: no task trains both arms of the cohort.
OneAdmissionPerTask ==
  \A t \in Tasks : \A e1, e2 \in Opened(t) : decided[<<t, e1>>].adm = decided[<<t, e2>>].adm

\* No PR is given to two reviewers, over all processes, epochs, crashes and lost
\* receipts: a second one is started only in a later epoch, and then an operator
\* had abandoned the route of the first.
OneReviewUnlessAbandoned ==
  \A t \in Tasks : \A e1, e2 \in Epochs :
    \A c1 \in ran[<<t, e1>>], c2 \in ran[<<t, e2>>] :
      \/ e1 = e2 /\ c1 = c2
      \/ e1 < e2 /\ original[<<t, e1>>] = Abandoned
      \/ e2 < e1 /\ original[<<t, e2>>] = Abandoned

\* Route r is settled so that a later epoch may follow it.
Settled(r) ==
  \/ terminal[r] # None /\ terminal[r].state = "DISPATCH_FAILED"
  \/ original[r] = Abandoned

\* What a task has recorded behind route r: a gapless chain of settled routes of
\* one admission.
ChainBehind(r, adm) ==
  \A k \in Epochs : k < r[2] =>
    LET p == <<r[1], k>> IN
    decided[p] # None /\ decided[p].adm = adm /\ Settled(p)

\* A process that tries candidates has won the route, which has no terminal yet, and
\* what is started under the route is what its own steps have started.
Owns(d) ==
  /\ decided[RouteOf(d)] # None
  /\ terminal[RouteOf(d)] = None
  /\ pc[d] = "attempt" => ran[RouteOf(d)] = {}
  /\ pc[d] = "running" => ran[RouteOf(d)] = {Head(todo[d])}
  /\ pc[d] = "emit" /\ verdict[d].state = "DISPATCH_FAILED" => ran[RouteOf(d)] = {}
  /\ pc[d] = "emit" /\ verdict[d].state = "COMPLETED" =>
       ran[RouteOf(d)] = {verdict[d].executor}

EngagedOwn == \A d \in Dispatchers : Engaged(d) => Owns(d)

UnopenedUntouched ==
  \A r \in Routes : decided[r] = None =>
    ran[r] = {} /\ terminal[r] = None /\ original[r] = None

StartedOnce == \A r \in Routes : \A c1, c2 \in ran[r] : c1 = c2

AmendmentsDecide == \A r \in Routes : amendment[r] # Abandoned

\* The log a process has read has only grown since.
ReadersBehind ==
  \A d \in Dispatchers : pc[d] = "decide" => ChainBehind(RouteOf(d), job[d].event.adm)

Chained ==
  \A r \in Routes : decided[r] # None => ChainBehind(r, decided[r].adm)

GiveUpsOpened == \A o \in Operators : giveUp[o] # None => decided[giveUp[o]] # None

\* The inductive invariant: a process that tries candidates owns its route and is the
\* only one to start anybody under it, every recorded epoch, and every one about to be
\* appended, has its chain behind it, and a terminal tells the truth.
DispatchInv ==
  /\ OneDispatcherPerRoute
  /\ TerminalTellsTruth
  /\ EngagedOwn
  /\ UnopenedUntouched
  /\ StartedOnce
  /\ AmendmentsDecide
  /\ ReadersBehind
  /\ Chained
  /\ GiveUpsOpened

EventsStay ==
  \A r \in Routes :
    /\ decided[r] # None => decided'[r] = decided[r]
    /\ terminal[r] # None => terminal'[r] = terminal[r]
    /\ original[r] # None => original'[r] = original[r]
    /\ amendment[r] # None => amendment'[r] = amendment[r]

\* The log only ever gains events, and never under a different payload.
LogOnlyGrows == [][EventsStay]_vars

\* The ledger as the log shows it.
opened == {r \in Routes : decided[r] # None}
closed == [r \in Routes |-> IF terminal[r] = None THEN None ELSE terminal[r].state]
waived == {r \in Routes : original[r] = Abandoned}

Ledger == INSTANCE ReviewLedger WITH started <- ran, verdict <- closed

\* The log and its processes implement the abstract ledger of routes: a route is opened
\* once and behind released epochs, one candidate is started under it, it is closed once
\* and truthfully.
ImplementsLedger == Ledger!Spec

\* Without faults every decided route gets its terminal state, whatever its candidates
\* do, however often operators abandon it and whoever else is dispatching.
EveryRouteEnds ==
  Faults = {} => \A r \in Routes : decided[r] # None ~> terminal[r] # None

\* The promise of the comment on isEpochRetryable: no epoch is opened behind a route
\* whose candidate provably or possibly ran.
NoEpochAfterEffect ==
  [][\A t \in Tasks, e \in Epochs :
       e > 0 /\ decided[<<t, e>>] = None /\ decided'[<<t, e>>] # None =>
         \/ terminal[<<t, e - 1>>] = None
         \/ terminal[<<t, e - 1>>].state = "DISPATCH_FAILED"]_vars
=============================================================================
