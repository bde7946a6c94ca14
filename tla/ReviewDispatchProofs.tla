------------------------ MODULE ReviewDispatchProofs ------------------------
(***************************************************************************)
(* What holds of ReviewDispatch for every set of tasks, candidates and     *)
(* processes, every retry cap and every set of faults.                     *)
(***************************************************************************)
EXTENDS ReviewDispatch, SequenceTheorems, FiniteSetTheorems, TLAPS

USE DEF Idle

\* A ranking is a sequence of candidates.
LEMMA RankingsAreSequences == Rankings \subseteq Seq(Candidates)
<1>1. Cardinality(Candidates) \in Nat
  BY BoundsAssumption, FS_CardinalityType
<1>2. SUFFICES ASSUME NEW n \in 1..Cardinality(Candidates), NEW s \in [1..n -> Candidates]
               PROVE  s \in Seq(Candidates)
  BY DEF Rankings
<1> QED BY <1>1, SeqDef

\* A prefix and a tail of a sequence of candidates are sequences of candidates.
LEMMA PartsOfRankings ==
  ASSUME NEW s \in Seq(Candidates), NEW n \in Nat, n <= Len(s)
  PROVE  /\ SubSeq(s, 1, n) \in Seq(Candidates)
         /\ s # << >> => Tail(s) \in Seq(Candidates) /\ Head(s) \in Candidates
OBVIOUS

\* The processes other than d keep what a return of d does not touch.
LEMMA ReturnTypes ==
  ASSUME TypeOK, NEW d \in Dispatchers, Return(d)
  PROVE  /\ pc' \in [Dispatchers -> {Idle, "decide", "attempt", "running", "emit"}]
         /\ job' \in [Dispatchers -> Jobs \cup {None}]
         /\ todo' \in [Dispatchers -> Seq(Candidates)]
         /\ verdict' \in [Dispatchers -> Terminals \cup {None}]
         /\ \A c \in Dispatchers :
              /\ pc'[c] # Idle => job'[c] \in Jobs
              /\ pc'[c] = "running" => todo'[c] # << >>
              /\ pc'[c] = "emit" => verdict'[c] \in Terminals
BY DEF TypeOK, Return

LEMMA ConcludeTypes ==
  ASSUME TypeOK, NEW d \in Dispatchers, pc[d] # Idle,
         NEW state \in DISPATCH_STATES, NEW executor \in Candidates \cup {None},
         NEW receipt \in Receipts, Conclude(d, state, executor, receipt)
  PROVE  TypeOK'
<1>1. [state |-> state, executor |-> executor, receipt |-> receipt] \in Terminals
  BY DEF Terminals
<1> QED BY <1>1 DEF TypeOK, Conclude, log

\* The initial state is well typed.
LEMMA TypeInit == Init => TypeOK
<1>1. Init => todo \in [Dispatchers -> Seq(Candidates)]
  BY DEF Init
<1>2. Init => \A d \in Dispatchers : pc[d] = Idle
  BY DEF Init
<1>3. Init => /\ decided \in [Routes -> Decisions \cup {None}]
              /\ terminal \in [Routes -> Terminals \cup {None}]
              /\ original \in [Routes -> Finals \cup {None}]
              /\ amendment \in [Routes -> Finals \cup {None}]
              /\ torn \in BOOLEAN
              /\ pc \in [Dispatchers -> {Idle, "decide", "attempt", "running", "emit"}]
              /\ job \in [Dispatchers -> Jobs \cup {None}]
              /\ verdict \in [Dispatchers -> Terminals \cup {None}]
              /\ giveUp \in [Operators -> Routes \cup {None}]
              /\ ran \in [Routes -> SUBSET Candidates]
  BY DEF Init
<1> QED BY <1>1, <1>2, <1>3 DEF TypeOK

\* Every step of a dispatch keeps the types.
LEMMA TypeStep ==
  ASSUME TypeOK, NEW d \in Dispatchers, Dispatch(d)
  PROVE  TypeOK'
<1>1. CASE Resolve(d)
  <2>1. PICK t \in Tasks, e \in Epochs, adm \in Admissions, s \in Stamps, ranked \in Rankings :
          /\ ValidAdmission(adm)
          /\ MayDispatch(t, e)
          /\ Continues(t, e, adm)
          /\ job' = [job EXCEPT ![d] = [route |-> <<t, e>>,
                                        event |-> [adm |-> adm, stamp |-> s]]]
          /\ todo' = [todo EXCEPT ![d] = ranked]
    BY <1>1, Zenon DEF Resolve
  <2>2. [route |-> <<t, e>>, event |-> [adm |-> adm, stamp |-> s]] \in Jobs
    <3>1. <<t, e>> \in Routes
      BY DEF Routes
    <3>2. [adm |-> adm, stamp |-> s] \in Decisions
      BY DEF Decisions
    <3> QED BY <3>1, <3>2 DEF Jobs
  <2>3. ranked \in Seq(Candidates)
    BY RankingsAreSequences
  <2>4. job' \in [Dispatchers -> Jobs \cup {None}] /\ todo' \in [Dispatchers -> Seq(Candidates)]
    BY <2>1, <2>2, <2>3 DEF TypeOK
  <2>5. pc' = [pc EXCEPT ![d] = "decide"] /\ UNCHANGED <<log, verdict, giveUp, ran>>
    BY <1>1, Zenon DEF Resolve
  <2>6. \A c \in Dispatchers :
          /\ pc'[c] # Idle => job'[c] \in Jobs
          /\ pc'[c] = "running" => todo'[c] # << >>
          /\ pc'[c] = "emit" => verdict'[c] \in Terminals
    BY <2>1, <2>2, <2>5 DEF TypeOK
  <2> QED BY <2>4, <2>5, <2>6 DEF TypeOK, log
<1>2. CASE WinRoute(d)
  <2>1. job[d] \in Jobs
    BY <1>2 DEF WinRoute, TypeOK
  <2>2. RouteOf(d) \in Routes /\ job[d].event \in Decisions
    BY <2>1 DEF Jobs, RouteOf
  <2>3. SubSeq(todo[d], 1, IF Len(todo[d]) < MaxAttempts THEN Len(todo[d]) ELSE MaxAttempts)
          \in Seq(Candidates)
    <3>1. todo[d] \in Seq(Candidates) /\ Len(todo[d]) \in Nat
      BY DEF TypeOK
    <3> DEFINE n == IF Len(todo[d]) < MaxAttempts THEN Len(todo[d]) ELSE MaxAttempts
    <3>2. n \in Nat /\ n <= Len(todo[d])
      BY <3>1, BoundsAssumption
    <3> QED BY <3>1, <3>2, PartsOfRankings
  <2>4. decided' \in [Routes -> Decisions \cup {None}] /\ torn' \in BOOLEAN
    BY <1>2, <2>2 DEF TypeOK, WinRoute, Cuts
  <2> QED BY <1>2, <2>1, <2>3, <2>4 DEF TypeOK, WinRoute
<1>3. CASE LoseRoute(d) \/ SpawnThrows(d)
  BY <1>3, ReturnTypes DEF TypeOK, LoseRoute, SpawnThrows, log
<1>4. CASE DecideFails(d)
  <2>1. RouteOf(d) \in Routes /\ job[d].event \in Decisions
    BY <1>4 DEF DecideFails, TypeOK, Jobs, RouteOf
  <2> QED BY <1>4, <2>1, ReturnTypes DEF TypeOK, DecideFails, log
<1>5. CASE NeverSpawned(d)
  <2>1. Tail(todo[d]) \in Seq(Candidates)
    BY <1>5 DEF NeverSpawned, TypeOK
  <2> QED BY <1>5, <2>1 DEF TypeOK, NeverSpawned, log
<1>6. CASE Spawn(d)
  <2>1. RouteOf(d) \in Routes /\ Head(todo[d]) \in Candidates
    BY <1>6 DEF Spawn, TypeOK, Jobs, RouteOf
  <2> QED BY <1>6, <2>1 DEF TypeOK, Spawn, log
<1>7. CASE Exhausted(d) \/ SpawnErrs(d) \/ LosesTrack(d)
  BY <1>7, ConcludeTypes, BoundsAssumption
     DEF Exhausted, SpawnErrs, LosesTrack, DISPATCH_STATES
<1>8. CASE Completes(d)
  <2>1. Head(todo[d]) \in Candidates
    BY <1>8 DEF Completes, TypeOK
  <2> QED BY <1>8, <2>1, ConcludeTypes DEF Completes, DISPATCH_STATES
<1>9. CASE EmitTerminal(d)
  <2>1. RouteOf(d) \in Routes /\ verdict[d] \in Terminals
    BY <1>9 DEF EmitTerminal, TypeOK, Jobs, RouteOf
  <2>2. terminal' \in [Routes -> Terminals \cup {None}] /\ torn' \in BOOLEAN
    BY <1>9, <2>1 DEF TypeOK, EmitTerminal, Cuts
  <2> QED BY <1>9, <2>2, ReturnTypes DEF TypeOK, EmitTerminal
<1>10. CASE EmitFails(d) \/ Crash(d)
  BY <1>10, ReturnTypes DEF TypeOK, EmitFails, Crash
<1> QED BY <1>1, <1>2, <1>3, <1>4, <1>5, <1>6, <1>7, <1>8, <1>9, <1>10 DEF Dispatch, Step

\* So do the operators, the outcome sync and the repair of the log's tail.
LEMMA TypeElse ==
  ASSUME TypeOK,
         \/ \E o \in Operators : Abandon(o)
         \/ \E r \in Routes : Sync(r)
         \/ RepairTail
         \/ UNCHANGED vars
  PROVE  TypeOK'
<1>1. ASSUME NEW o \in Operators, Abandon(o)
      PROVE  TypeOK'
  <2>1. CASE AbandonRead(o)
    BY <2>1 DEF TypeOK, AbandonRead, log, procs, Routes
  <2>2. CASE AbandonAppend(o)
    <3>1. giveUp[o] \in Routes /\ Abandoned \in Finals
      BY <2>2 DEF AbandonAppend, TypeOK, Abandoned, Finals, TERMINAL_OUTCOMES
    <3>2. original' \in [Routes -> Finals \cup {None}] /\ torn' \in BOOLEAN
      BY <2>2, <3>1 DEF TypeOK, AbandonAppend, Cuts
    <3> QED BY <2>2, <3>2 DEF TypeOK, AbandonAppend, procs
  <2>3. CASE AbandonFails(o)
    BY <2>3 DEF TypeOK, AbandonFails, procs
  <2> QED BY <1>1, <2>1, <2>2, <2>3 DEF Abandon
<1>2. ASSUME NEW r \in Routes, NEW outcome \in TERMINAL_OUTCOMES,
             SyncFinalize(r, outcome) \/ SyncAmend(r, outcome)
      PROVE  TypeOK'
  <2>1. [outcome |-> outcome, reason |-> "synced"] \in Finals
    BY DEF Finals
  <2> QED BY <1>2, <2>1 DEF TypeOK, SyncFinalize, SyncAmend, procs
<1>3. CASE RepairTail
  BY <1>3 DEF TypeOK, RepairTail, procs
<1>4. CASE UNCHANGED vars
  BY <1>4 DEF TypeOK, vars, log, procs
<1> QED BY <1>1, <1>2, <1>3, <1>4 DEF Sync

\* TypeOK holds in every reachable state, for every number of processes, tasks and
\* candidates and under every set of faults.
THEOREM TypeCorrect == Spec => []TypeOK
<1>1. TypeOK /\ [Next]_vars => TypeOK'
  BY TypeStep, TypeElse DEF Next
<1> QED BY TypeInit, <1>1, PTL DEF Spec

-----------------------------------------------------------------------------
(* The log.                                                                *)

\* A process that is not idle holds a route and a payload of the right kind.
LEMMA JobKinds ==
  ASSUME TypeOK, NEW d \in Dispatchers, pc[d] # Idle
  PROVE  /\ RouteOf(d) \in Routes
         /\ job[d].event \in Decisions
         /\ job[d].event # None
BY NoneAssumption DEF TypeOK, RouteOf, Jobs

\* A line is only written where the slot of its id is empty.
LEMMA WritesFresh ==
  ASSUME NEW prior, NEW event, Writes(AppendVerdict(prior, event))
  PROVE  prior = None /\ ~torn
BY DEF Writes, AppendVerdict

\* A dispatch only fills empty slots.
LEMMA DispatchKeepsEvents ==
  ASSUME TypeOK, NEW d \in Dispatchers, Dispatch(d)
  PROVE  EventsStay
<1>1. CASE WinRoute(d)
  <2>1. decided[RouteOf(d)] = None
    BY <1>1, WritesFresh DEF WinRoute, DecideVerdict
  <2> QED BY <1>1, <2>1, JobKinds DEF WinRoute, EventsStay, TypeOK
<1>2. CASE DecideFails(d)
  <2>1. CASE UNCHANGED decided
    BY <1>2, <2>1 DEF DecideFails, EventsStay, log
  <2>2. CASE /\ Writes(DecideVerdict(d))
             /\ decided' = [decided EXCEPT ![RouteOf(d)] = job[d].event]
    <3>1. decided[RouteOf(d)] = None
      BY <2>2, WritesFresh DEF DecideVerdict
    <3> QED BY <1>2, <2>2, <3>1 DEF DecideFails, EventsStay, TypeOK, log
  <2> QED BY <1>2, <2>1, <2>2 DEF DecideFails, log
<1>3. CASE EmitTerminal(d)
  <2>1. terminal[RouteOf(d)] = None
    BY <1>3, WritesFresh DEF EmitTerminal, TerminalVerdict
  <2> QED BY <1>3, <2>1 DEF EmitTerminal, EventsStay, TypeOK
<1>4. CASE UNCHANGED <<decided, terminal, original, amendment>>
  BY <1>4 DEF EventsStay
<1> QED BY <1>1, <1>2, <1>3, <1>4
        DEF Dispatch, Step, Resolve, LoseRoute, NeverSpawned, Spawn, Exhausted, SpawnErrs,
            Completes, LosesTrack, Conclude, EmitFails, Crash, SpawnThrows, log

\* Neither does any other process overwrite an event.
LEMMA ElseKeepsEvents ==
  ASSUME TypeOK,
         \/ \E o \in Operators : Abandon(o)
         \/ \E r \in Routes : Sync(r)
         \/ RepairTail
         \/ UNCHANGED vars
  PROVE  EventsStay
<1>1. ASSUME NEW o \in Operators, Abandon(o)
      PROVE  EventsStay
  <2>1. CASE AbandonAppend(o)
    <3>1. original[giveUp[o]] = None
      BY <2>1, WritesFresh DEF AbandonAppend
    <3> QED BY <2>1, <3>1 DEF AbandonAppend, EventsStay, TypeOK
  <2> QED BY <1>1, <2>1 DEF Abandon, AbandonRead, AbandonFails, EventsStay, log
<1>2. ASSUME NEW r \in Routes, NEW outcome \in TERMINAL_OUTCOMES,
             SyncFinalize(r, outcome) \/ SyncAmend(r, outcome)
      PROVE  EventsStay
  BY <1>2 DEF SyncFinalize, SyncAmend, EventsStay, TypeOK
<1>3. CASE RepairTail \/ UNCHANGED vars
  BY <1>3 DEF RepairTail, EventsStay, vars, log
<1> QED BY <1>1, <1>2, <1>3 DEF Sync

\* No event of the log is ever removed or replaced, by whichever process, crash or
\* rival append: LogOnlyGrows.
THEOREM LogGrows == Spec => LogOnlyGrows
<1>1. TypeOK /\ [Next]_vars => [EventsStay]_vars
  BY DispatchKeepsEvents, ElseKeepsEvents DEF Next
<1> QED BY TypeCorrect, <1>1, PTL DEF Spec, LogOnlyGrows

-----------------------------------------------------------------------------
(* The inductive invariant.  It needs one thing of the machine: a write is *)
(* whole or fails, because the append does not look at how much of its     *)
(* line was written.                                                       *)

WholeWrites == "short" \notin Faults

\* An append that answers "appended" has written its line.
LEMMA NothingCut ==
  ASSUME WholeWrites
  PROVE  \A cut \in Cuts : ~cut
BY DEF WholeWrites, Cuts

\* The final an operator writes is an event, and no correction of one.
LEMMA AbandonedKind == Abandoned \in Finals /\ Abandoned # None
BY NoneAssumption DEF Abandoned, Finals, TERMINAL_OUTCOMES

\* Nothing is recorded and nobody has started in the initial state.
LEMMA InvInit == Init => DispatchInv
<1>1. Init => /\ OneDispatcherPerRoute
              /\ EngagedOwn
              /\ ReadersBehind
  BY DEF Init, OneDispatcherPerRoute, EngagedOwn, ReadersBehind, Engaged
<1>2. Init => /\ TerminalTellsTruth
              /\ UnopenedUntouched
              /\ StartedOnce
              /\ AmendmentsDecide
              /\ Chained
              /\ GiveUpsOpened
  BY AbandonedKind DEF Init, TerminalTellsTruth, UnopenedUntouched, StartedOnce,
     AmendmentsDecide, Chained, GiveUpsOpened
<1> QED BY <1>1, <1>2 DEF DispatchInv

\* A chain behind a route outlasts every step.
LEMMA ChainsStay ==
  ASSUME TypeOK, EventsStay, NEW r \in Routes, NEW adm, ChainBehind(r, adm),
         NEW k \in Epochs, k < r[2]
  PROVE  /\ decided'[<<r[1], k>>] # None
         /\ decided'[<<r[1], k>>].adm = adm
         /\ Settled(<<r[1], k>>)'
<1>1. <<r[1], k>> \in Routes
  BY DEF Routes
<1> QED BY <1>1, AbandonedKind DEF ChainBehind, Settled, EventsStay

\* A process that waits to append and does not move keeps its chain.
LEMMA ReadersStay ==
  ASSUME TypeOK, EventsStay, ReadersBehind,
         NEW d \in Dispatchers, pc[d] = "decide", job'[d] = job[d]
  PROVE  ChainBehind(RouteOf(d), job[d].event.adm)'
<1>1. RouteOf(d) \in Routes /\ RouteOf(d)' = RouteOf(d)
  BY JobKinds DEF RouteOf
<1>2. ChainBehind(RouteOf(d), job[d].event.adm)
  BY DEF ReadersBehind
<1> QED BY <1>1, <1>2, ChainsStay DEF ChainBehind

\* An opened route keeps its chain.
LEMMA OpenedStay ==
  ASSUME TypeOK, EventsStay, Chained, NEW r \in Routes, decided[r] # None
  PROVE  ChainBehind(r, decided[r].adm)'
<1>1. ChainBehind(r, decided[r].adm) /\ decided'[r] = decided[r]
  BY DEF Chained, EventsStay
<1> QED BY <1>1, ChainsStay DEF ChainBehind

\* Parts of the invariant about the log alone, over a step that keeps the log and ran.
LEMMA LogPartsStay ==
  ASSUME DispatchInv, UNCHANGED <<decided, terminal, original, amendment, giveUp, ran>>
  PROVE  /\ TerminalTellsTruth'
         /\ UnopenedUntouched'
         /\ StartedOnce'
         /\ AmendmentsDecide'
         /\ Chained'
         /\ GiveUpsOpened'
BY DEF DispatchInv, TerminalTellsTruth, UnopenedUntouched, StartedOnce, AmendmentsDecide,
       Chained, ChainBehind, Settled, GiveUpsOpened

\* A process that owns a route keeps owning it while it stands still and nobody else
\* touches the route.
LEMMA OwnerStays ==
  ASSUME TypeOK, DispatchInv, EventsStay, NEW c \in Dispatchers,
         pc'[c] = pc[c], job'[c] = job[c], todo'[c] = todo[c], verdict'[c] = verdict[c],
         Engaged(c), terminal'[RouteOf(c)] = terminal[RouteOf(c)],
         ran'[RouteOf(c)] = ran[RouteOf(c)]
  PROVE  Owns(c)'
<1>1. Owns(c) /\ RouteOf(c) \in Routes /\ RouteOf(c)' = RouteOf(c)
  BY JobKinds DEF DispatchInv, EngagedOwn, Engaged, RouteOf
<1>2. decided'[RouteOf(c)] = decided[RouteOf(c)]
  BY <1>1 DEF EventsStay, Owns
<1> QED BY <1>1, <1>2 DEF Owns

\* The owners and their routes over a step of a process that tries nothing after it.
LEMMA OwnersStay ==
  ASSUME TypeOK, DispatchInv, EventsStay, NEW d \in Dispatchers, ~Engaged(d)',
         UNCHANGED <<terminal, ran>>,
         \A c \in Dispatchers \ {d} :
           /\ pc'[c] = pc[c]
           /\ job'[c] = job[c]
           /\ todo'[c] = todo[c]
           /\ verdict'[c] = verdict[c]
  PROVE  OneDispatcherPerRoute' /\ EngagedOwn'
<1>1. \A c \in Dispatchers : Engaged(c)' => c # d /\ Engaged(c) /\ RouteOf(c)' = RouteOf(c)
  BY DEF Engaged, RouteOf
<1>2. OneDispatcherPerRoute'
  BY <1>1 DEF DispatchInv, OneDispatcherPerRoute
<1>3. EngagedOwn'
  BY <1>1, OwnerStays DEF EngagedOwn
<1> QED BY <1>2, <1>3

\* The admission and the chain that Resolve has read are there when it has read them.
LEMMA InvResolve ==
  ASSUME TypeOK, DispatchInv, NEW d \in Dispatchers, Resolve(d)
  PROVE  DispatchInv'
<1>1. PICK t \in Tasks, e \in Epochs, adm \in Admissions, s \in Stamps, ranked \in Rankings :
        /\ ValidAdmission(adm)
        /\ MayDispatch(t, e)
        /\ Continues(t, e, adm)
        /\ job' = [job EXCEPT ![d] = [route |-> <<t, e>>,
                                      event |-> [adm |-> adm, stamp |-> s]]]
        /\ todo' = [todo EXCEPT ![d] = ranked]
  BY Zenon DEF Resolve
<1>2. /\ pc' = [pc EXCEPT ![d] = "decide"]
      /\ UNCHANGED <<log, verdict, giveUp, ran>>
  BY DEF Resolve
<1>3. ASSUME NEW k \in Epochs, k < e
      PROVE  decided[<<t, k>>] # None /\ decided[<<t, k>>].adm = adm /\ Settled(<<t, k>>)
  <2>1. e \in Nat /\ k \in Nat /\ e - 1 \in Epochs
    BY <1>3, BoundsAssumption DEF Epochs
  <2>2. IsHighest(t, e - 1) /\ IsEpochRetryable(<<t, e - 1>>)
    BY <1>1, <1>3, <2>1 DEF MayDispatch
  <2>3. decided[<<t, e - 1>>] # None /\ decided[<<t, e - 1>>].adm = adm
    BY <1>1, <1>3, <2>1, <2>2 DEF IsHighest, Opened, Continues
  <2>4. Settled(<<t, e - 1>>)
    <3>1. <<t, e - 1>> \in Routes
      BY <2>1 DEF Routes
    <3> QED BY <2>2, <3>1 DEF IsEpochRetryable, EffectiveFinal, Settled, DispatchInv,
               AmendmentsDecide
  <2>5. CASE k = e - 1
    BY <2>3, <2>4, <2>5
  <2>6. CASE k < e - 1
    <3>1. ChainBehind(<<t, e - 1>>, adm)
      BY <2>1, <2>3 DEF DispatchInv, Chained, Routes
    <3> QED BY <2>6, <3>1 DEF ChainBehind
  <2> QED BY <1>3, <2>1, <2>5, <2>6
<1>4. EventsStay
  BY <1>2 DEF EventsStay, log
<1>5. ReadersBehind'
  <2>1. SUFFICES ASSUME NEW c \in Dispatchers, pc'[c] = "decide"
                 PROVE  ChainBehind(RouteOf(c), job[c].event.adm)'
    BY DEF ReadersBehind
  <2>2. CASE c = d
    <3>1. /\ job'[c].route = <<t, e>>
          /\ job'[c].event.adm = adm
      BY <1>1, <2>2 DEF TypeOK
    <3> QED BY <1>2, <1>3, <3>1 DEF ChainBehind, RouteOf, Settled, log
  <2>3. CASE c # d
    BY <1>1, <1>2, <1>4, <2>1, <2>3, ReadersStay DEF DispatchInv, TypeOK
  <2> QED BY <2>2, <2>3
<1>6. OneDispatcherPerRoute' /\ EngagedOwn'
  <2>1. ~Engaged(d)'
    BY <1>2 DEF Engaged, TypeOK
  <2>2. \A c \in Dispatchers \ {d} :
          /\ pc'[c] = pc[c]
          /\ job'[c] = job[c]
          /\ todo'[c] = todo[c]
          /\ verdict'[c] = verdict[c]
    BY <1>1, <1>2 DEF TypeOK
  <2>3. UNCHANGED <<terminal, ran>>
    BY <1>2 DEF log
  <2> QED BY <1>4, <2>1, <2>2, <2>3, OwnersStay
<1> QED BY <1>2, <1>5, <1>6, LogPartsStay DEF DispatchInv, log

\* A process that returns owns nothing any more, and nothing else changes.
LEMMA InvReturn ==
  ASSUME TypeOK, DispatchInv, EventsStay, NEW d \in Dispatchers, Return(d),
         UNCHANGED <<terminal, ran>>
  PROVE  OneDispatcherPerRoute' /\ EngagedOwn' /\ ReadersBehind'
<1>1. ~Engaged(d)'
  BY DEF Return, Engaged, TypeOK
<1>2. \A c \in Dispatchers \ {d} :
        /\ pc'[c] = pc[c]
        /\ job'[c] = job[c]
        /\ todo'[c] = todo[c]
        /\ verdict'[c] = verdict[c]
  BY DEF Return, TypeOK
<1>3. ReadersBehind'
  <2>1. SUFFICES ASSUME NEW c \in Dispatchers, pc'[c] = "decide"
                 PROVE  ChainBehind(RouteOf(c), job[c].event.adm)'
    BY DEF ReadersBehind
  <2>2. pc[c] = "decide" /\ job'[c] = job[c]
    BY <2>1 DEF Return, TypeOK
  <2> QED BY <2>2, ReadersStay DEF DispatchInv
<1> QED BY <1>1, <1>2, <1>3, OwnersStay

\* Every way out of a dispatch that records nothing of the route: LoseRoute, EmitFails,
\* Crash, and DecideFails where no whole line is written.
LEMMA InvQuietReturn ==
  ASSUME TypeOK, DispatchInv, NEW d \in Dispatchers, Return(d),
         UNCHANGED <<decided, terminal, original, amendment, giveUp, ran>>
  PROVE  DispatchInv'
<1>1. EventsStay
  BY DEF EventsStay
<1> QED BY <1>1, InvReturn, LogPartsStay DEF DispatchInv

\* What one more route.decided does to the parts about the log.
LEMMA LogPartsOpen ==
  ASSUME TypeOK, DispatchInv, EventsStay, NEW d \in Dispatchers, pc[d] = "decide",
         decided' = [decided EXCEPT ![RouteOf(d)] = job[d].event],
         UNCHANGED <<terminal, original, amendment, giveUp, ran>>
  PROVE  /\ TerminalTellsTruth'
         /\ UnopenedUntouched'
         /\ StartedOnce'
         /\ AmendmentsDecide'
         /\ Chained'
         /\ GiveUpsOpened'
<1>1. RouteOf(d) \in Routes /\ job[d].event # None
  BY JobKinds
<1>2. \A r \in Routes : decided[r] # None => decided'[r] # None
  BY DEF EventsStay
<1>3. GiveUpsOpened'
  BY <1>2 DEF DispatchInv, GiveUpsOpened, TypeOK
<1>4. Chained'
  <2>1. SUFFICES ASSUME NEW r \in Routes, decided'[r] # None
                 PROVE  ChainBehind(r, decided[r].adm)'
    BY DEF Chained
  <2>2. CASE decided[r] # None
    <3>1. decided'[r] = decided[r]
      BY <2>2 DEF EventsStay
    <3> QED BY <2>2, OpenedStay DEF DispatchInv
  <2>3. CASE decided[r] = None
    <3>1. r = RouteOf(d) /\ decided'[r] = job[d].event
      BY <2>1, <2>3, <1>1 DEF TypeOK
    <3>2. ChainBehind(r, job[d].event.adm)
      BY <3>1 DEF DispatchInv, ReadersBehind
    <3> QED BY <3>1, <3>2, ChainsStay DEF ChainBehind
  <2> QED BY <2>2, <2>3
<1> QED BY <1>2, <1>3, <1>4 DEF DispatchInv, TerminalTellsTruth, UnopenedUntouched,
           StartedOnce, AmendmentsDecide

\* The winner of a route finds it untouched.
LEMMA InvWin ==
  ASSUME WholeWrites, TypeOK, DispatchInv, NEW d \in Dispatchers, WinRoute(d)
  PROVE  DispatchInv'
<1> DEFINE r == RouteOf(d)
<1>1. EventsStay
  BY DispatchKeepsEvents DEF Dispatch, Step
<1>2. /\ pc[d] = "decide"
      /\ pc' = [pc EXCEPT ![d] = "attempt"]
      /\ decided' = [decided EXCEPT ![r] = job[d].event]
      /\ UNCHANGED <<terminal, original, amendment, job, verdict, giveUp, ran>>
  BY NothingCut DEF WinRoute
<1>3. r \in Routes /\ job[d].event # None /\ r' = r
  BY <1>2, JobKinds DEF RouteOf
<1>4. decided[r] = None
  BY WritesFresh DEF WinRoute, DecideVerdict
<1>5. \A c \in Dispatchers \ {d} :
        /\ pc'[c] = pc[c]
        /\ job'[c] = job[c]
        /\ todo'[c] = todo[c]
        /\ verdict'[c] = verdict[c]
        /\ RouteOf(c)' = RouteOf(c)
  BY DEF WinRoute, TypeOK, RouteOf
<1>6. \A c \in Dispatchers : Engaged(c) => RouteOf(c) # r
  BY <1>4 DEF DispatchInv, EngagedOwn, Owns
<1>7. OneDispatcherPerRoute'
  BY <1>3, <1>5, <1>6 DEF DispatchInv, OneDispatcherPerRoute, Engaged
<1>8. EngagedOwn'
  <2>1. Owns(d)'
    <3>1. ran[r] = {} /\ terminal[r] = None
      BY <1>3, <1>4 DEF DispatchInv, UnopenedUntouched
    <3>2. decided'[r] # None /\ pc'[d] = "attempt"
      BY <1>2, <1>3 DEF TypeOK
    <3> QED BY <1>2, <1>3, <3>1, <3>2 DEF Owns
  <2>2. ASSUME NEW c \in Dispatchers \ {d}, Engaged(c)'
        PROVE  Owns(c)'
    BY <1>1, <1>2, <1>5, <2>2, OwnerStays DEF Engaged
  <2> QED BY <2>1, <2>2 DEF EngagedOwn
<1>9. ReadersBehind'
  <2>1. \A c \in Dispatchers : pc'[c] = "decide" => pc[c] = "decide" /\ job'[c] = job[c]
    BY <1>2 DEF TypeOK
  <2> QED BY <1>1, <2>1, ReadersStay DEF DispatchInv, ReadersBehind
<1> QED BY <1>1, <1>2, <1>7, <1>8, <1>9, LogPartsOpen DEF DispatchInv

\* route.decided is refused, or is written although the append answers with an error.
LEMMA InvDecideFails ==
  ASSUME TypeOK, DispatchInv, NEW d \in Dispatchers, DecideFails(d)
  PROVE  DispatchInv'
<1>1. EventsStay
  BY DispatchKeepsEvents DEF Dispatch, Step
<1>2. pc[d] = "decide" /\ Return(d) /\ UNCHANGED <<terminal, original, amendment, giveUp, ran>>
  BY DEF DecideFails, log
<1>3. CASE UNCHANGED decided
  BY <1>2, <1>3, InvQuietReturn
<1>4. CASE decided' = [decided EXCEPT ![RouteOf(d)] = job[d].event]
  BY <1>1, <1>2, <1>4, InvReturn, LogPartsOpen DEF DispatchInv
<1> QED BY <1>3, <1>4 DEF DecideFails, log

\* A dispatch that stays with its route, while everybody else stands still.
LEMMA InvOwnerMoves ==
  ASSUME TypeOK, DispatchInv, NEW d \in Dispatchers, Engaged(d), Engaged(d)', Owns(d)',
         UNCHANGED <<log, job, giveUp>>,
         \A c \in Dispatchers \ {d} :
           pc'[c] = pc[c] /\ todo'[c] = todo[c] /\ verdict'[c] = verdict[c],
         \A r \in Routes \ {RouteOf(d)} : ran'[r] = ran[r],
         \A c1, c2 \in ran'[RouteOf(d)] : c1 = c2
  PROVE  DispatchInv'
<1> DEFINE r == RouteOf(d)
<1>1. EventsStay
  BY DEF EventsStay, log
<1>2. r \in Routes /\ \A c \in Dispatchers : RouteOf(c)' = RouteOf(c)
  BY JobKinds DEF RouteOf, Engaged
<1>3. decided[r] # None /\ terminal[r] = None
  BY DEF DispatchInv, EngagedOwn, Owns
<1>4. OneDispatcherPerRoute'
  BY <1>2 DEF DispatchInv, OneDispatcherPerRoute, Engaged
<1>5. EngagedOwn'
  <2>1. ASSUME NEW c \in Dispatchers \ {d}, Engaged(c)'
        PROVE  Owns(c)'
    <3>1. Engaged(c)
      BY <2>1 DEF Engaged
    <3>2. RouteOf(c) # r /\ RouteOf(c) \in Routes
      BY <3>1, JobKinds DEF DispatchInv, OneDispatcherPerRoute, Engaged
    <3> QED BY <1>1, <3>1, <3>2, OwnerStays DEF log
  <2> QED BY <2>1 DEF EngagedOwn
<1>6. ReadersBehind'
  <2>1. \A c \in Dispatchers : pc'[c] = "decide" => pc[c] = "decide"
    BY DEF Engaged
  <2> QED BY <1>1, <2>1, ReadersStay DEF DispatchInv, ReadersBehind
<1>7. TerminalTellsTruth' /\ UnopenedUntouched' /\ StartedOnce'
  BY <1>2, <1>3 DEF DispatchInv, TerminalTellsTruth, UnopenedUntouched, StartedOnce, log
<1>8. AmendmentsDecide' /\ Chained' /\ GiveUpsOpened'
  BY DEF DispatchInv, AmendmentsDecide, Chained, ChainBehind, Settled, GiveUpsOpened, log
<1> QED BY <1>4, <1>5, <1>6, <1>7, <1>8 DEF DispatchInv

\* The spawn boundary: nobody before a spawn, one after it, and the verdict that is
\* concluded says which.
LEMMA InvSpawnBoundary ==
  ASSUME TypeOK, DispatchInv, NEW d \in Dispatchers,
         \/ NeverSpawned(d) \/ Spawn(d) \/ Exhausted(d)
         \/ SpawnErrs(d) \/ Completes(d) \/ LosesTrack(d)
  PROVE  DispatchInv'
<1> DEFINE r == RouteOf(d)
<1>1. Engaged(d) /\ Owns(d) /\ r \in Routes /\ r' = r
  BY JobKinds DEF NeverSpawned, Spawn, Exhausted, SpawnErrs, Completes, LosesTrack, Conclude,
     Engaged, DispatchInv, EngagedOwn, RouteOf
<1>2. \A c1, c2 \in ran[r] : c1 = c2
  BY <1>1 DEF DispatchInv, StartedOnce
<1>3. CASE NeverSpawned(d)
  <2>1. Engaged(d)' /\ Owns(d)'
    BY <1>1, <1>3 DEF NeverSpawned, Engaged, Owns, log
  <2> QED BY <1>1, <1>2, <1>3, <2>1, InvOwnerMoves DEF NeverSpawned, TypeOK
<1>4. CASE Spawn(d)
  <2>1. ran[r] = {}
    BY <1>1, <1>4 DEF Spawn, Owns
  <2>2. ran'[r] = {Head(todo[d])} /\ pc'[d] = "running"
    BY <1>1, <1>4, <2>1 DEF Spawn, TypeOK
  <2>3. Engaged(d)' /\ Owns(d)'
    BY <1>1, <1>4, <2>2 DEF Spawn, Engaged, Owns, log
  <2> QED BY <1>1, <1>4, <2>2, <2>3, InvOwnerMoves DEF Spawn, TypeOK
<1>5. ASSUME NEW state, NEW executor, NEW receipt, Conclude(d, state, executor, receipt),
             state = "DISPATCH_FAILED" => ran[r] = {},
             state = "COMPLETED" => ran[r] = {executor}
      PROVE  DispatchInv'
  <2>1. pc'[d] = "emit" /\ verdict'[d].state = state /\ verdict'[d].executor = executor
    BY <1>5 DEF Conclude, TypeOK
  <2>2. Engaged(d)' /\ Owns(d)'
    BY <1>1, <1>5, <2>1 DEF Conclude, Engaged, Owns, log
  <2> QED BY <1>1, <1>2, <1>5, <2>2, InvOwnerMoves DEF Conclude, TypeOK
<1>6. CASE Exhausted(d)
  BY <1>1, <1>5, <1>6 DEF Exhausted, Owns
<1>7. CASE SpawnErrs(d) \/ LosesTrack(d)
  BY <1>5, <1>7 DEF SpawnErrs, LosesTrack
<1>8. CASE Completes(d)
  <2>1. ran[r] = {Head(todo[d])}
    BY <1>1, <1>8 DEF Completes, Owns
  <2> QED BY <1>5, <1>8, <2>1 DEF Completes
<1> QED BY <1>3, <1>4, <1>6, <1>7, <1>8

\* The terminal that lands is the owner's, and true.
LEMMA InvEmit ==
  ASSUME WholeWrites, TypeOK, DispatchInv, NEW d \in Dispatchers, EmitTerminal(d)
  PROVE  DispatchInv'
<1> DEFINE r == RouteOf(d)
<1>1. /\ pc[d] = "emit"
      /\ terminal' = [terminal EXCEPT ![r] = verdict[d]]
      /\ Return(d)
      /\ UNCHANGED <<decided, original, amendment, giveUp, ran>>
  BY NothingCut DEF EmitTerminal
<1>2. r \in Routes /\ Owns(d) /\ verdict[d] # None
  BY <1>1, JobKinds, NoneAssumption DEF DispatchInv, EngagedOwn, Engaged, TypeOK
<1>3. EventsStay
  BY DispatchKeepsEvents DEF Dispatch, Step
<1>4. /\ pc'[d] = "idle"
      /\ \A c \in Dispatchers \ {d} :
           /\ pc'[c] = pc[c]
           /\ job'[c] = job[c]
           /\ todo'[c] = todo[c]
           /\ verdict'[c] = verdict[c]
           /\ RouteOf(c)' = RouteOf(c)
  BY <1>1 DEF Return, TypeOK, RouteOf
<1>5. OneDispatcherPerRoute'
  BY <1>4 DEF DispatchInv, OneDispatcherPerRoute, Engaged
<1>6. EngagedOwn'
  <2>1. ASSUME NEW c \in Dispatchers, Engaged(c)'
        PROVE  Owns(c)'
    <3>1. c # d /\ Engaged(c)
      BY <1>4, <2>1 DEF Engaged
    <3>2. RouteOf(c) # r /\ RouteOf(c) \in Routes
      BY <1>1, <3>1, JobKinds DEF DispatchInv, OneDispatcherPerRoute, Engaged
    <3>3. terminal'[RouteOf(c)] = terminal[RouteOf(c)]
      BY <1>1, <3>2 DEF TypeOK
    <3> QED BY <1>1, <1>3, <1>4, <3>1, <3>3, OwnerStays
  <2> QED BY <2>1 DEF EngagedOwn
<1>7. ReadersBehind'
  <2>1. \A c \in Dispatchers : pc'[c] = "decide" => pc[c] = "decide" /\ job'[c] = job[c]
    BY <1>4
  <2> QED BY <1>3, <2>1, ReadersStay DEF DispatchInv, ReadersBehind
<1>8. TerminalTellsTruth'
  <2>1. SUFFICES ASSUME NEW p \in Routes, terminal'[p] # None
                 PROVE  /\ terminal'[p].state = "DISPATCH_FAILED" => ran[p] = {}
                        /\ terminal'[p].state = "COMPLETED" => ran[p] = {terminal'[p].executor}
    BY <1>1 DEF TerminalTellsTruth
  <2>2. CASE p = r
    <3>1. terminal'[p] = verdict[d]
      BY <1>1, <1>2, <2>2 DEF TypeOK
    <3> QED BY <1>1, <1>2, <2>2, <3>1 DEF Owns
  <2>3. CASE p # r
    <3>1. terminal'[p] = terminal[p]
      BY <1>1, <2>3 DEF TypeOK
    <3> QED BY <2>1, <3>1 DEF DispatchInv, TerminalTellsTruth
  <2> QED BY <2>2, <2>3
<1>9. UnopenedUntouched'
  BY <1>1, <1>2 DEF DispatchInv, UnopenedUntouched, Owns, TypeOK
<1>10. Chained'
  BY <1>1, <1>3, OpenedStay DEF DispatchInv, Chained
<1>11. StartedOnce' /\ AmendmentsDecide' /\ GiveUpsOpened'
  BY <1>1 DEF DispatchInv, StartedOnce, AmendmentsDecide, GiveUpsOpened
<1> QED BY <1>5, <1>6, <1>7, <1>8, <1>9, <1>10, <1>11 DEF DispatchInv

\* An operator, the outcome sync and the repair of the tail move no dispatch: they only
\* add finals, and an amendment never says that a route was abandoned.
LEMMA InvFinals ==
  ASSUME TypeOK, DispatchInv, EventsStay, UNCHANGED <<decided, terminal, procs, ran>>,
         \A r \in Routes : original'[r] # original[r] => decided[r] # None,
         AmendmentsDecide', GiveUpsOpened'
  PROVE  DispatchInv'
<1>1. OneDispatcherPerRoute' /\ TerminalTellsTruth' /\ EngagedOwn' /\ StartedOnce'
  BY DEF DispatchInv, OneDispatcherPerRoute, TerminalTellsTruth, EngagedOwn, StartedOnce,
         Engaged, Owns, RouteOf, procs
<1>2. UnopenedUntouched'
  BY DEF DispatchInv, UnopenedUntouched
<1>3. ReadersBehind'
  BY ReadersStay DEF DispatchInv, ReadersBehind, procs
<1>4. Chained'
  BY OpenedStay DEF DispatchInv, Chained
<1> QED BY <1>1, <1>2, <1>3, <1>4 DEF DispatchInv

LEMMA InvElse ==
  ASSUME WholeWrites, TypeOK, DispatchInv,
         \/ \E o \in Operators : Abandon(o)
         \/ \E r \in Routes : Sync(r)
         \/ RepairTail
         \/ UNCHANGED vars
  PROVE  DispatchInv'
<1>1. EventsStay
  BY ElseKeepsEvents
<1>2. ASSUME NEW o \in Operators, Abandon(o)
      PROVE  DispatchInv'
  <2>1. UNCHANGED <<decided, terminal, procs, ran>> /\ UNCHANGED amendment
    BY <1>2 DEF Abandon, AbandonRead, AbandonAppend, AbandonFails, log
  <2>2. AmendmentsDecide'
    BY <2>1 DEF DispatchInv, AmendmentsDecide
  <2>3. CASE AbandonRead(o)
    <3>1. PICK t \in Tasks, e \in Epochs :
            IsHighest(t, e) /\ giveUp' = [giveUp EXCEPT ![o] = <<t, e>>]
      BY <2>3 DEF AbandonRead
    <3>2. decided[<<t, e>>] # None
      BY <3>1 DEF IsHighest, Opened
    <3>3. GiveUpsOpened'
      BY <2>1, <3>1, <3>2 DEF DispatchInv, GiveUpsOpened, TypeOK
    <3> QED BY <1>1, <2>1, <2>2, <2>3, <3>3, InvFinals DEF AbandonRead, log
  <2>4. CASE AbandonAppend(o)
    <3>1. decided[giveUp[o]] # None /\ giveUp[o] \in Routes
      BY <2>4 DEF AbandonAppend, DispatchInv, GiveUpsOpened, TypeOK
    <3>2. GiveUpsOpened'
      BY <2>1, <2>4 DEF AbandonAppend, DispatchInv, GiveUpsOpened, TypeOK
    <3>3. \A r \in Routes : original'[r] # original[r] => decided[r] # None
      BY <2>4, <3>1, NothingCut DEF AbandonAppend, TypeOK
    <3> QED BY <1>1, <2>1, <2>2, <3>2, <3>3, InvFinals
  <2>5. CASE AbandonFails(o)
    <3>1. GiveUpsOpened'
      BY <2>1, <2>5 DEF AbandonFails, DispatchInv, GiveUpsOpened, TypeOK
    <3> QED BY <1>1, <2>1, <2>2, <2>5, <3>1, InvFinals DEF AbandonFails
  <2> QED BY <1>2, <2>3, <2>4, <2>5 DEF Abandon
<1>3. ASSUME NEW r \in Routes, NEW outcome \in TERMINAL_OUTCOMES,
             SyncFinalize(r, outcome) \/ SyncAmend(r, outcome)
      PROVE  DispatchInv'
  <2>1. UNCHANGED <<decided, terminal, procs, ran>> /\ UNCHANGED giveUp
    BY <1>3 DEF SyncFinalize, SyncAmend
  <2>2. GiveUpsOpened'
    BY <2>1 DEF DispatchInv, GiveUpsOpened
  <2>3. AmendmentsDecide'
    <3>1. [outcome |-> outcome, reason |-> "synced"] # Abandoned
      BY DEF Abandoned
    <3> QED BY <1>3, <3>1 DEF SyncFinalize, SyncAmend, DispatchInv, AmendmentsDecide, TypeOK
  <2>4. \A p \in Routes : original'[p] # original[p] => decided[p] # None
    BY <1>3 DEF SyncFinalize, SyncAmend, TypeOK
  <2> QED BY <1>1, <2>1, <2>2, <2>3, <2>4, InvFinals
<1>4. CASE RepairTail \/ UNCHANGED vars
  <2>1. UNCHANGED <<decided, terminal, procs, ran>> /\ UNCHANGED <<original, amendment, giveUp>>
    BY <1>4 DEF RepairTail, vars, log
  <2>2. AmendmentsDecide' /\ GiveUpsOpened'
    BY <2>1 DEF DispatchInv, AmendmentsDecide, GiveUpsOpened
  <2> QED BY <1>1, <2>1, <2>2, InvFinals
<1> QED BY <1>2, <1>3, <1>4 DEF Sync

LEMMA InvDispatch ==
  ASSUME WholeWrites, TypeOK, DispatchInv, NEW d \in Dispatchers, Dispatch(d)
  PROVE  DispatchInv'
<1>1. CASE LoseRoute(d) \/ EmitFails(d) \/ Crash(d) \/ SpawnThrows(d)
  BY <1>1, InvQuietReturn DEF LoseRoute, EmitFails, Crash, SpawnThrows, log
<1> QED BY <1>1, InvResolve, InvWin, InvDecideFails, InvSpawnBoundary, InvEmit
        DEF Dispatch, Step

\* DispatchInv holds in every reachable state, whatever the instance.
THEOREM DispatchInvCorrect ==
  ASSUME WholeWrites
  PROVE  Spec => []DispatchInv
<1>1. TypeOK /\ DispatchInv /\ [Next]_vars => DispatchInv'
  BY InvDispatch, InvElse DEF Next
<1> QED BY TypeCorrect, InvInit, <1>1, PTL DEF Spec

-----------------------------------------------------------------------------
(* What follows from it.                                                   *)

\* However many processes dispatch the same task, at most one of them is past the
\* append of a route.
THEOREM OneDispatcher ==
  ASSUME WholeWrites
  PROVE  Spec => []OneDispatcherPerRoute
<1>1. DispatchInv => OneDispatcherPerRoute
  BY DEF DispatchInv
<1> QED BY DispatchInvCorrect, <1>1, PTL

\* The terminal state on disk is true of what was really started, so falling back to the
\* next candidate, or retrying a DISPATCH_FAILED route, never repeats a review.
THEOREM TerminalIsTrue ==
  ASSUME WholeWrites
  PROVE  Spec => []TerminalTellsTruth
<1>1. DispatchInv => TerminalTellsTruth
  BY DEF DispatchInv
<1> QED BY DispatchInvCorrect, <1>1, PTL

\* All the epochs of a task carry the admission of its epoch 0.
THEOREM AdmissionIsFrozen ==
  ASSUME WholeWrites
  PROVE  Spec => []OneAdmissionPerTask
<1>1. DispatchInv => OneAdmissionPerTask
  <2>1. ASSUME DispatchInv, NEW t \in Tasks,
               NEW e1 \in Opened(t), NEW e2 \in Opened(t), e1 < e2
        PROVE  decided[<<t, e1>>].adm = decided[<<t, e2>>].adm
    <3>1. e1 \in Epochs /\ e2 \in Epochs /\ decided[<<t, e2>>] # None
      BY DEF Opened
    <3>2. ChainBehind(<<t, e2>>, decided[<<t, e2>>].adm)
      BY <2>1, <3>1 DEF DispatchInv, Chained, Routes
    <3> QED BY <2>1, <3>1, <3>2 DEF ChainBehind
  <2>2. \A t \in Tasks : \A e1, e2 \in Opened(t) : e1 = e2 \/ e1 < e2 \/ e2 < e1
    BY BoundsAssumption DEF Opened, Epochs
  <2>3. ASSUME DispatchInv, NEW t \in Tasks, NEW e1 \in Opened(t), NEW e2 \in Opened(t)
        PROVE  decided[<<t, e1>>].adm = decided[<<t, e2>>].adm
    BY <2>1, <2>2, <2>3
  <2> QED BY <2>3 DEF OneAdmissionPerTask
<1> QED BY DispatchInvCorrect, <1>1, PTL

\* Over any number of processes, retries and faults a task is given to a second reviewer
\* only behind a route its operator has abandoned.
THEOREM NoSecondReview ==
  ASSUME WholeWrites
  PROVE  Spec => []OneReviewUnlessAbandoned
<1>1. DispatchInv => OneReviewUnlessAbandoned
  <2>1. ASSUME DispatchInv, NEW t \in Tasks, NEW e1 \in Epochs, NEW e2 \in Epochs,
               ran[<<t, e1>>] # {}, ran[<<t, e2>>] # {}, e1 < e2
        PROVE  original[<<t, e1>>] = Abandoned
    <3>1. <<t, e1>> \in Routes /\ <<t, e2>> \in Routes
      BY DEF Routes
    <3>2. decided[<<t, e2>>] # None
      BY <2>1, <3>1 DEF DispatchInv, UnopenedUntouched
    <3>3. Settled(<<t, e1>>)
      BY <2>1, <3>1, <3>2 DEF DispatchInv, Chained, ChainBehind
    <3> QED BY <2>1, <3>1, <3>3 DEF Settled, DispatchInv, TerminalTellsTruth
  <2>2. ASSUME DispatchInv, NEW t \in Tasks, NEW e \in Epochs,
               NEW c1 \in ran[<<t, e>>], NEW c2 \in ran[<<t, e>>]
        PROVE  c1 = c2
    BY <2>2 DEF DispatchInv, StartedOnce, Routes
  <2>3. \A e1, e2 \in Epochs : e1 = e2 \/ e1 < e2 \/ e2 < e1
    BY BoundsAssumption DEF Epochs
  <2>4. ASSUME DispatchInv, NEW t \in Tasks, NEW e1 \in Epochs, NEW e2 \in Epochs,
               NEW c1 \in ran[<<t, e1>>], NEW c2 \in ran[<<t, e2>>]
        PROVE  \/ e1 = e2 /\ c1 = c2
               \/ e1 < e2 /\ original[<<t, e1>>] = Abandoned
               \/ e2 < e1 /\ original[<<t, e2>>] = Abandoned
    <3>1. CASE e1 = e2
      BY <2>2, <2>4, <3>1
    <3>2. CASE e1 < e2
      BY <2>1, <2>4, <3>2
    <3>3. CASE e2 < e1
      BY <2>1, <2>4, <3>3
    <3> QED BY <2>3, <3>1, <3>2, <3>3
  <2> QED BY <2>4 DEF OneReviewUnlessAbandoned
<1> QED BY DispatchInvCorrect, <1>1, PTL

-----------------------------------------------------------------------------
(* The log implements the ledger of routes.                                *)

\* The route that route.decided opens is new, and released behind.
LEMMA LedgerOpens ==
  ASSUME TypeOK, DispatchInv, NEW d \in Dispatchers, pc[d] = "decide",
         Writes(DecideVerdict(d)),
         decided' = [decided EXCEPT ![RouteOf(d)] = job[d].event],
         UNCHANGED <<terminal, original, ran>>
  PROVE  Ledger!Next
<1>1. PICK t \in Tasks, e \in Epochs : RouteOf(d) = <<t, e>>
  BY JobKinds DEF Routes
<1>2. <<t, e>> \in Routes /\ job[d].event # None /\ decided[<<t, e>>] = None
  BY <1>1, JobKinds, WritesFresh DEF DecideVerdict
<1>3. opened' = opened \cup {<<t, e>>} /\ <<t, e>> \notin opened
  BY <1>1, <1>2 DEF opened, TypeOK
<1>4. ASSUME e > 0
      PROVE  <<t, e - 1>> \in opened /\ (closed[<<t, e - 1>>] = "DISPATCH_FAILED"
                                          \/ <<t, e - 1>> \in waived)
  <2>1. e - 1 \in Epochs /\ e - 1 < e /\ <<t, e - 1>> \in Routes
    BY <1>4, BoundsAssumption DEF Epochs, Routes
  <2>2. decided[<<t, e - 1>>] # None /\ Settled(<<t, e - 1>>)
    BY <1>1, <2>1 DEF DispatchInv, ReadersBehind, ChainBehind
  <2> QED BY <2>1, <2>2 DEF opened, closed, waived, Settled
<1>5. UNCHANGED <<ran, closed, waived>>
  BY DEF closed, waived
<1>6. Ledger!Open(t, e)
  BY <1>3, <1>4, <1>5 DEF Ledger!Open, Ledger!Released, opened, closed, waived
<1> QED BY <1>6 DEF Ledger!Next, Epochs

\* Every step of the dispatcher is a step of the ledger, or none.
LEMMA LedgerStep ==
  ASSUME WholeWrites, TypeOK, DispatchInv, [Next]_vars
  PROVE  [Ledger!Next]_Ledger!ledger
<1>1. CASE UNCHANGED <<decided, terminal, original, ran>>
  BY <1>1 DEF Ledger!ledger, opened, closed, waived
<1>2. ASSUME NEW d \in Dispatchers, WinRoute(d) \/ DecideFails(d)
      PROVE  [Ledger!Next]_Ledger!ledger
  BY <1>1, <1>2, LedgerOpens, NothingCut DEF WinRoute, DecideFails, log
<1>3. ASSUME NEW d \in Dispatchers, Spawn(d)
      PROVE  Ledger!Next
  <2> DEFINE r == RouteOf(d)
             c == Head(todo[d])
  <2>1. r \in Routes /\ c \in Candidates /\ Owns(d)
    BY <1>3, JobKinds DEF Spawn, TypeOK, DispatchInv, EngagedOwn, Engaged
  <2>2. ran[r] = {} /\ ran' = [ran EXCEPT ![r] = {c}]
    BY <1>3, <2>1 DEF Spawn, Owns, TypeOK
  <2>3. Ledger!Start(r, c)
    BY <1>3, <2>1, <2>2 DEF Spawn, Owns, log, opened, closed, waived, Ledger!Start
  <2> QED BY <2>1, <2>3 DEF Ledger!Next, Ledger!Routes, Routes, Epochs
<1>4. ASSUME NEW d \in Dispatchers, EmitTerminal(d)
      PROVE  Ledger!Next
  <2>1. /\ RouteOf(d) \in Routes
        /\ Owns(d)
        /\ verdict[d] \in Terminals
        /\ verdict[d] # None
    BY <1>4, JobKinds, NoneAssumption
       DEF EmitTerminal, TypeOK, DispatchInv, EngagedOwn, Engaged
  <2>2. PICK r \in Routes, v \in DISPATCH_STATES : r = RouteOf(d) /\ v = verdict[d].state
    BY <2>1 DEF Terminals
  <2>3. closed' = [closed EXCEPT ![r] = v] /\ closed[r] = None
    BY <1>4, <2>1, <2>2, NothingCut DEF EmitTerminal, Owns, closed, TypeOK
  <2>4. Ledger!Close(r, v)
    BY <1>4, <2>1, <2>2, <2>3, NothingCut DEF EmitTerminal, Owns, opened, waived, Ledger!Close
  <2>5. r \in Ledger!Routes /\ v \in Ledger!Verdicts
    BY DEF Ledger!Routes, Ledger!Verdicts, Routes, Epochs, DISPATCH_STATES
  <2> QED BY <2>4, <2>5 DEF Ledger!Next
<1>5. ASSUME NEW o \in Operators, AbandonAppend(o)
      PROVE  Ledger!Next
  <2>1. PICK r \in Routes : r = giveUp[o]
    BY <1>5 DEF AbandonAppend, TypeOK
  <2>2. waived' = waived \cup {r} /\ decided[r] # None
    BY <1>5, <2>1, NothingCut DEF AbandonAppend, waived, TypeOK, DispatchInv, GiveUpsOpened
  <2>3. Ledger!Waive(r)
    BY <1>5, <2>1, <2>2 DEF AbandonAppend, opened, closed, Ledger!Waive
  <2>4. r \in Ledger!Routes
    BY DEF Ledger!Routes, Routes, Epochs
  <2> QED BY <2>3, <2>4 DEF Ledger!Next
<1>6. ASSUME NEW r \in Routes, NEW outcome \in TERMINAL_OUTCOMES, SyncFinalize(r, outcome)
      PROVE  UNCHANGED Ledger!ledger
  <2>1. [outcome |-> outcome, reason |-> "synced"] # Abandoned /\ None # Abandoned
    BY AbandonedKind DEF Abandoned
  <2>2. waived' = waived
    BY <1>6, <2>1 DEF SyncFinalize, waived, TypeOK
  <2> QED BY <1>6, <2>2 DEF SyncFinalize, opened, closed, Ledger!ledger
<1>7. CASE \E d \in Dispatchers : Dispatch(d)
  BY <1>1, <1>2, <1>3, <1>4, <1>7
     DEF Dispatch, Step, Resolve, LoseRoute, NeverSpawned, Exhausted, SpawnErrs, Completes,
         LosesTrack, Conclude, EmitFails, Crash, SpawnThrows, log
<1>8. CASE \E o \in Operators : Abandon(o)
  BY <1>1, <1>5, <1>8 DEF Abandon, AbandonRead, AbandonFails, log
<1>9. CASE \E r \in Routes : Sync(r)
  BY <1>1, <1>6, <1>9 DEF Sync, SyncAmend
<1>10. CASE RepairTail \/ UNCHANGED vars
  BY <1>1, <1>10 DEF RepairTail, vars, log
<1> QED BY <1>7, <1>8, <1>9, <1>10 DEF Next

\* The dispatcher implements the ledger: what the log, the lock and the processes do to a
\* route is to open it once behind released epochs, to start one candidate under it, to
\* close it truthfully and to waive it.
THEOREM Implements ==
  ASSUME WholeWrites
  PROVE  Spec => ImplementsLedger
<1>1. Init => Ledger!Init
  BY AbandonedKind DEF Init, opened, closed, waived, Ledger!Init, Ledger!Routes, Routes, Epochs
<1> QED BY TypeCorrect, DispatchInvCorrect, <1>1, LedgerStep, PTL
        DEF Spec, ImplementsLedger, Ledger!Spec
=============================================================================
