------------------------- MODULE OutcomeFinalsProofs -------------------------
(***************************************************************************)
(* Proofs about OutcomeFinals, for any routes, candidates and strangers,   *)
(* any sources and a log of any length.                                    *)
(***************************************************************************)
EXTENDS OutcomeFinals, FiniteSetTheorems, TLAPS

-----------------------------------------------------------------------------
(***************************************************************************)
(* The inductive invariant, part by part.  It is stated of any set of      *)
(* events, since the action properties compare the readers' answers on two.*)
(***************************************************************************)

IsFinal(e) == e.type = "outcome.finalized"

\* The first final of its route, and one that corrects it.
IsFirst(e) == e.id = computeFinalId(e.route) /\ e.seq = None

Corrects(e, f) ==
  /\ e.id = computeFinalAmendId(e.route, 1) /\ e.seq = 1
  /\ e.reason = "synced"
  /\ f.id = computeFinalId(e.route)
  /\ e.outcome \in AMEND_LATTICE(f.outcome)

\* The gate let nothing else in.
WellFormed(events) ==
  /\ events \in SUBSET Events
  /\ IsFiniteSet(events)
  /\ \A e, f \in events : e.id = f.id => e = f
  /\ \A e \in events : IsFinal(e) => IsFirst(e) \/ \E f \in events : Corrects(e, f)

FinalsInv == past \in SUBSET Routes /\ WellFormed(log)

-----------------------------------------------------------------------------
(***************************************************************************)
(* The readers, on a well-formed set of events.                            *)
(***************************************************************************)

\* An id of a final is on no other event, and tells the route.
LEMMA EventShape ==
  ASSUME NEW e \in Events
  PROVE  /\ e.route \in Routes
         /\ e # None
         /\ IsFinal(e) => /\ e.id \in FinalIds(e.route)
                          /\ e.outcome \in TERMINAL_OUTCOMES
                          /\ e.executor \in Executors
         /\ \A r, n : e.id = <<r, "final", n>> => IsFinal(e) /\ e.route = r
<1> DEFINE Any == UNION {ProgramFinals(r) : r \in Routes}
           Decisions == {Decided(r, arm) : r \in Routes, arm \in POLICY_ARMS}
           Terminals == {Terminal(r) : r \in Routes}
           Signals == {Signal(r, s) : r \in Routes, s \in Sources}
<1>1. CASE e \in Any
  <2>1. PICK r \in Routes : e \in ProgramFinals(r)
    BY <1>1
  <2>2. /\ e.type = "outcome.finalized" /\ e.route = r /\ e.id \in FinalIds(r)
        /\ e.outcome \in TERMINAL_OUTCOMES /\ e.executor \in Executors
    BY <2>1 DEF ProgramFinals, Finals
  <2> QED
    BY <2>2, FinalsAssumption DEF IsFinal, FinalIds
<1>2. CASE e \in Decisions
  BY <1>2, FinalsAssumption DEF Decided, IsFinal
<1>3. CASE e \in Terminals
  BY <1>3, FinalsAssumption DEF Terminal, IsFinal
<1>4. CASE e \in Signals
  BY <1>4, FinalsAssumption DEF Signal, IsFinal
<1>5. Events = Decisions \cup Terminals \cup Signals \cup Any
  BY DEF Events
<1> HIDE DEF Any, Decisions, Terminals, Signals
<1>6. CASE e \in Any \/ e \in Decisions \/ e \in Terminals \/ e \in Signals
  BY <1>1, <1>2, <1>3, <1>4, <1>6
<1> QED
  BY <1>5, <1>6

\* A route that has ended has a first final and at most one that corrects it; the latter
\* speaks for the route as soon as it is there.
LEMMA OneOrTwoFinals ==
  ASSUME NEW events, WellFormed(events), NEW r \in Routes, FinalsOf(events, r) # {}
  PROVE  \E o \in events :
           /\ IsFinal(o) /\ IsFirst(o) /\ o.route = r /\ o.id = computeFinalId(r)
           /\ \/ /\ FinalsOf(events, r) = {o}
                 /\ ~\E e \in events : e.id = computeFinalAmendId(r, 1)
              \/ \E a \in events :
                   /\ FinalsOf(events, r) = {o, a}
                   /\ IsFinal(a) /\ a.route = r /\ a.id = computeFinalAmendId(r, 1)
                   /\ Corrects(a, o)
<1>1. PICK e \in events : IsFinal(e) /\ e.route = r
  BY DEF FinalsOf, IsFinal
<1>2. PICK o \in events : o.id = computeFinalId(r)
  BY <1>1 DEF WellFormed, IsFirst, Corrects
<1>3. IsFinal(o) /\ o.route = r
  BY <1>2, EventShape DEF WellFormed, computeFinalId
<1>4. IsFirst(o)
  BY <1>2, <1>3, FinalsAssumption
     DEF WellFormed, IsFirst, Corrects, computeFinalId, computeFinalAmendId
<1>5. ASSUME NEW f \in FinalsOf(events, r)
      PROVE  f = o \/ f.id = computeFinalAmendId(r, 1)
  BY <1>2, <1>5 DEF WellFormed, FinalsOf, IsFinal, IsFirst, Corrects
<1>6. CASE ~\E a \in events : a.id = computeFinalAmendId(r, 1)
  <2>1. FinalsOf(events, r) = {o}
    BY <1>3, <1>5, <1>6 DEF FinalsOf, IsFinal
  <2> QED
    BY <1>2, <1>3, <1>4, <1>6, <2>1
<1>7. CASE \E a \in events : a.id = computeFinalAmendId(r, 1)
  <2>1. PICK a \in events : a.id = computeFinalAmendId(r, 1)
    BY <1>7
  <2>2. IsFinal(a) /\ a.route = r
    BY <2>1, EventShape DEF WellFormed, computeFinalAmendId
  <2>3. ~IsFirst(a)
    BY <2>1, <2>2 DEF IsFirst, computeFinalId, computeFinalAmendId
  <2>4. PICK f \in events : Corrects(a, f)
    BY <2>2, <2>3 DEF WellFormed
  <2>5. f = o
    BY <1>2, <2>2, <2>4 DEF WellFormed, Corrects
  <2>6. FinalsOf(events, r) = {o, a}
    BY <1>3, <1>5, <2>1, <2>2 DEF WellFormed, FinalsOf, IsFinal
  <2> QED
    BY <1>2, <1>3, <1>4, <2>1, <2>2, <2>4, <2>5, <2>6
<1> QED
  BY <1>6, <1>7

\* effectiveFinal of one final is that final, and of two the correction.
LEMMA EffectiveOfOne ==
  ASSUME NEW o, IsFirst(o), o.route \in Routes
  PROVE  effectiveFinal({o}) = o
<1>1. readAmendSeq(o) = 0 /\ o.id[3] = 0
  BY DEF IsFirst, readAmendSeq, computeFinalId
<1> QED
  BY <1>1 DEF effectiveFinal

LEMMA EffectiveOfTwo ==
  ASSUME NEW o, NEW a, IsFirst(o), Corrects(a, o)
  PROVE  effectiveFinal({o, a}) = a
<1>1. readAmendSeq(o) = 0 /\ o.id[3] = 0
  BY DEF IsFirst, readAmendSeq, computeFinalId
<1>2. readAmendSeq(a) = 1 /\ a.id[3] = 1
  BY FinalsAssumption DEF Corrects, readAmendSeq, computeFinalAmendId, MAX_AMEND_SEQ
<1> QED
  BY <1>1, <1>2 DEF effectiveFinal

-----------------------------------------------------------------------------
(***************************************************************************)
(* What a step appends.                                                    *)
(***************************************************************************)

\* An event that the program builds or a writer submits; only a submission is an amendment.
Appends(e) == e \in Events /\ Append(e) /\ (IsFinal(e) /\ e.seq # None => e.reason = "synced")

LEMMA FinalsAreEvents ==
  ASSUME NEW r \in Routes, NEW e \in ProgramFinals(r)
  PROVE  e \in Events
<1>1. e \in UNION {ProgramFinals(q) : q \in Routes}
  OBVIOUS
<1> QED
  BY <1>1 DEF Events

LEMMA CensoredIsEvent ==
  ASSUME NEW r \in Routes, NEW reason \in Reasons,
         NEW evidence \in SUBSET {Signal(r, s) : s \in Sources}
  PROVE  /\ CensoredFinal(r, reason, evidence) \in Events
         /\ CensoredFinal(r, reason, evidence).seq = None
<1>1. computeFinalId(r) \in FinalIds(r)
  BY DEF computeFinalId, FinalIds
<1>2. CensoredFinal(r, reason, evidence) \in ProgramFinals(r)
  BY <1>1 DEF CensoredFinal, ProgramFinals, Finals, TERMINAL_OUTCOMES, Executors
<1> QED
  BY <1>2, FinalsAreEvents DEF CensoredFinal

LEMMA SignalsAreSignals ==
  ASSUME FinalsInv, NEW r \in Routes
  PROVE  SignalsOf(log, r) \in SUBSET {Signal(r, s) : s \in Sources}
<1> SUFFICES ASSUME NEW e \in SignalsOf(log, r) PROVE e \in {Signal(r, s) : s \in Sources}
  OBVIOUS
<1>1. e \in Events /\ e.type = "github.signal" /\ e.route = r
  BY DEF SignalsOf, FinalsInv, WellFormed
<1>2. e \in {Signal(q, s) : q \in Routes, s \in Sources}
  BY <1>1 DEF Events, Decided, Terminal, ProgramFinals, Finals
<1> QED
  BY <1>1, <1>2 DEF Signal

LEMMA StepAppends ==
  ASSUME FinalsInv, Next
  PROVE  \/ UNCHANGED log /\ past' \in SUBSET Routes
         \/ UNCHANGED past /\ \E e \in Events : Appends(e)
<1>1. CASE Submit
  <2>1. PICK e \in Submissions : Append(e)
    BY <1>1 DEF Submit
  <2>2. PICK r \in Routes : e \in Finals(r, {"synced"}, {{}})
    BY <2>1 DEF Submissions
  <2>3. e \in ProgramFinals(r) /\ e.reason = "synced"
    BY <2>2 DEF Finals, ProgramFinals, Reasons
  <2>4. e \in Events
    BY <2>3, FinalsAreEvents
  <2> QED
    BY <2>1, <2>3, <2>4 DEF Append, Appends
<1>2. ASSUME NEW r \in Routes, Decide(r)
      PROVE  UNCHANGED past /\ \E e \in Events : Appends(e)
  <2>1. PICK arm \in POLICY_ARMS : Append(Decided(r, arm))
    BY <1>2 DEF Decide
  <2>2. Decided(r, arm) \in Events /\ ~IsFinal(Decided(r, arm))
    BY DEF Events, Decided, IsFinal
  <2> QED
    BY <2>1, <2>2 DEF Append, Appends
<1>3. ASSUME NEW r \in Routes, Terminate(r)
      PROVE  UNCHANGED past /\ \E e \in Events : Appends(e)
  <2>1. Terminal(r) \in Events /\ ~IsFinal(Terminal(r))
    BY DEF Events, Terminal, IsFinal
  <2> QED
    BY <1>3, <2>1 DEF Terminate, Append, Appends
<1>4. ASSUME NEW r \in Routes, NEW s \in Sources, Observe(r, s)
      PROVE  UNCHANGED past /\ \E e \in Events : Appends(e)
  <2>1. Signal(r, s) \in Events /\ ~IsFinal(Signal(r, s))
    BY DEF Events, Signal, IsFinal
  <2> QED
    BY <1>4, <2>1 DEF Observe, Append, Appends
<1>5. ASSUME NEW r \in Routes, DeadlinePasses(r)
      PROVE  UNCHANGED log /\ past' \in SUBSET Routes
  BY <1>5 DEF DeadlinePasses, FinalsInv
<1>6. ASSUME NEW r \in Routes, Abandon(r)
      PROVE  UNCHANGED past /\ \E e \in Events : Appends(e)
  <2>1. "operator_abandoned" \in Reasons /\ {} \in SUBSET {Signal(r, s) : s \in Sources}
    BY DEF Reasons
  <2> QED
    BY <1>6, <2>1, CensoredIsEvent DEF Abandon, Append, Appends
<1>7. ASSUME NEW r \in Routes, SyncOrphan(r)
      PROVE  UNCHANGED past /\ \E e \in Events : Appends(e)
  <2>1. OrphanReason(r) \in Reasons
    BY DEF OrphanReason, Reasons, ORPHAN_REASON_CODES
  <2> QED
    BY <1>7, <2>1, SignalsAreSignals, CensoredIsEvent
       DEF SyncOrphan, OrphanFinal, Append, Appends
<1> QED
  BY <1>1, <1>2, <1>3, <1>4, <1>5, <1>6, <1>7 DEF Next, Submit, Append

\* An id that was free is taken; a final is the route's first, or corrects it.
LEMMA AppendKeeps ==
  ASSUME FinalsInv, NEW e \in Events, Appends(e)
  PROVE  /\ log' = log \cup {e}
         /\ \A f \in log : f.id # e.id
         /\ IsFinal(e) => IsFirst(e) \/ \E f \in log : Corrects(e, f)
         /\ WellFormed(log')
<1>1. log' = log \cup {e} /\ IsFiniteSet(log')
  BY FS_AddElement DEF Appends, Append, FinalsInv, WellFormed
<1>2. \A f \in log : f.id # e.id
  <2> SUFFICES ASSUME \E f \in log : f.id = e.id PROVE FALSE
    OBVIOUS
  <2>1. PriorOf(e) \in log
    BY DEF PriorOf
  <2>2. PriorOf(e) # None
    BY <2>1, EventShape DEF FinalsInv, WellFormed
  <2> QED
    BY <2>2 DEF Appends, Append, AppendVerdict
<1>3. ASSUME IsFinal(e)
      PROVE  IsFirst(e) \/ \E f \in log : Corrects(e, f)
  <2>1. CASE IsOriginal(e)
    BY <2>1 DEF IsOriginal, DeclaresAmendment, IsFirst
  <2>2. CASE IsAmendment(e)
    <3>1. e.seq = 1 /\ e.seq # None
      BY <2>2, FinalsAssumption DEF IsAmendment, MAX_AMEND_SEQ
    <3>2. PICK f \in log : f.id = e.amends /\ e.outcome \in AMEND_LATTICE(f.outcome)
      BY <2>2 DEF IsAmendment
    <3>3. e.id = computeFinalAmendId(e.route, 1) /\ f.id = computeFinalId(e.route)
      BY <2>2, <3>1, <3>2 DEF IsAmendment, computeFinalId, computeFinalAmendId
    <3> QED
      BY <1>3, <3>1, <3>2, <3>3 DEF Appends, Corrects
  <2> QED
    BY <1>3, <2>1, <2>2 DEF Appends, Append, IsFinal
<1>4. WellFormed(log')
  BY <1>1, <1>2, <1>3 DEF FinalsInv, WellFormed
<1> QED
  BY <1>1, <1>2, <1>3, <1>4

LEMMA InitEstablishes == Init => FinalsInv
  BY FS_EmptySet DEF Init, FinalsInv, WellFormed

LEMMA StepKeeps == FinalsInv /\ [Next]_vars => FinalsInv'
<1> SUFFICES ASSUME FinalsInv, [Next]_vars PROVE FinalsInv'
  OBVIOUS
<1>1. CASE UNCHANGED log /\ past' \in SUBSET Routes
  BY <1>1 DEF FinalsInv, WellFormed
<1>2. CASE UNCHANGED past /\ \E e \in Events : Appends(e)
  BY <1>2, AppendKeeps DEF FinalsInv
<1>3. CASE UNCHANGED vars
  BY <1>3 DEF vars, FinalsInv, WellFormed
<1> QED
  BY <1>1, <1>2, <1>3, StepAppends

THEOREM FinalsInvCorrect == Spec => []FinalsInv
<1> QED
  BY InitEstablishes, StepKeeps, PTL DEF Spec

-----------------------------------------------------------------------------
(***************************************************************************)
(* The properties.                                                         *)
(***************************************************************************)

\* What speaks for a route is a final of it: the first, while nothing corrects it, or the
\* correction.
LEMMA EffectiveSpeaks ==
  ASSUME NEW events, WellFormed(events), NEW r \in Ended(events)
  PROVE  LET eff == effectiveFinalForRoute(events, r)
         IN  /\ eff \in events /\ IsFinal(eff) /\ eff.route = r
             /\ \E o \in events :
                  /\ o.id = computeFinalId(r)
                  /\ \/ eff = o /\ ~\E e \in events : e.id = computeFinalAmendId(r, 1)
                     \/ Corrects(eff, o) /\ eff.id = computeFinalAmendId(r, 1)
<1>1. r \in Routes /\ FinalsOf(events, r) # {}
  BY DEF Ended
<1>2. PICK o \in events :
        /\ IsFinal(o) /\ IsFirst(o) /\ o.route = r /\ o.id = computeFinalId(r)
        /\ \/ /\ FinalsOf(events, r) = {o}
              /\ ~\E e \in events : e.id = computeFinalAmendId(r, 1)
           \/ \E a \in events :
                /\ FinalsOf(events, r) = {o, a}
                /\ IsFinal(a) /\ a.route = r /\ a.id = computeFinalAmendId(r, 1)
                /\ Corrects(a, o)
  BY <1>1, OneOrTwoFinals
<1>3. CASE FinalsOf(events, r) = {o} /\ ~\E e \in events : e.id = computeFinalAmendId(r, 1)
  <2>1. effectiveFinalForRoute(events, r) = o
    BY <1>1, <1>2, <1>3, EffectiveOfOne DEF effectiveFinalForRoute
  <2> QED
    BY <1>2, <1>3, <2>1
<1>4. ASSUME NEW a \in events,
             FinalsOf(events, r) = {o, a}, IsFinal(a), a.route = r,
             a.id = computeFinalAmendId(r, 1), Corrects(a, o)
      PROVE  effectiveFinalForRoute(events, r) = a
  BY <1>2, <1>4, EffectiveOfTwo DEF effectiveFinalForRoute
<1> QED
  BY <1>2, <1>3, <1>4

\* An event with the id of a route's final ends the route.
LEMMA FinalIdEnds ==
  ASSUME NEW events, WellFormed(events), NEW e \in events, NEW r \in Routes, NEW n,
         e.id = <<r, "final", n>>
  PROVE  r \in Ended(events)
BY EventShape DEF WellFormed, Ended, FinalsOf, IsFinal

\* One lesson at most per route, and of routes that the learning arm decided.
THEOREM OneLessonPerRouteAlways == Spec => []OneLessonPerRoute
<1>1. FinalsInv => OneLessonPerRoute
  <2> SUFFICES ASSUME FinalsInv PROVE OneLessonPerRoute
    OBVIOUS
  <2>1. TypeOK
    BY DEF FinalsInv, WellFormed, TypeOK
  <2>2. ASSUME NEW r \in Routes
        PROVE  {e \in Lessons(log) : e.route = r} \in SUBSET {effectiveFinalForRoute(log, r)}
    BY EffectiveSpeaks DEF Lessons, FinalsInv
  <2>3. ASSUME NEW r \in Routes
        PROVE  Cardinality({e \in Lessons(log) : e.route = r}) <= 1
    <3> DEFINE one == {effectiveFinalForRoute(log, r)}
               lessons == {e \in Lessons(log) : e.route = r}
    <3>1. lessons \in SUBSET one
      BY <2>2
    <3>2. IsFiniteSet(one) /\ Cardinality(one) = 1
      BY FS_Singleton
    <3> HIDE DEF one, lessons
    <3>3. Cardinality(lessons) <= 1
      BY <3>1, <3>2, FS_Subset
    <3> QED
      BY <3>3 DEF lessons
  <2>4. ASSUME NEW r \in Routes, Decided(r, "thompson") \notin log
        PROVE  ~\E e \in Lessons(log) : e.route = r
    BY <2>4 DEF Lessons, Learns
  <2> QED
    BY <2>1, <2>3, <2>4 DEF OneLessonPerRoute
<1> QED
  BY <1>1, FinalsInvCorrect, PTL

\* Whatever holds an amendment's id corrects the route's own final and speaks for it, and
\* the tripwire counts each route whose orphaned final still stands, once.
THEOREM CorrectionsStandAlways == Spec => []CorrectionsStand
<1>1. FinalsInv => CorrectionsStand
  <2> SUFFICES ASSUME FinalsInv PROVE CorrectionsStand
    OBVIOUS
  <2>1. WellFormed(log)
    BY DEF FinalsInv
  <2>2. AlwaysCorrectable
    <3> SUFFICES ASSUME NEW r \in Routes, NEW a \in log, a.id = computeFinalAmendId(r, 1)
                 PROVE  /\ \E o \in log : o.id = computeFinalId(r)
                        /\ effectiveFinalForRoute(log, r) \in log
                        /\ effectiveFinalForRoute(log, r).id = computeFinalAmendId(r, 1)
      BY DEF AlwaysCorrectable
    <3>1. r \in Ended(log)
      BY <2>1, FinalIdEnds DEF computeFinalAmendId
    <3> QED
      BY <2>1, <3>1, EffectiveSpeaks
  <2>3. ASSUME NEW r \in Routes
        PROVE  r \in Ended(log) /\ effectiveFinalForRoute(log, r).reason \in ORPHAN_REASON_CODES
               <=> /\ \E e \in log : e.id = computeFinalId(r) /\ e.reason \in ORPHAN_REASON_CODES
                   /\ ~\E e \in log : e.id = computeFinalAmendId(r, 1)
    <3>1. CASE r \in Ended(log)
      <4> DEFINE eff == effectiveFinalForRoute(log, r)
      <4>1. PICK o \in log :
              /\ o.id = computeFinalId(r)
              /\ \/ eff = o /\ ~\E e \in log : e.id = computeFinalAmendId(r, 1)
                 \/ eff \in log /\ Corrects(eff, o) /\ eff.id = computeFinalAmendId(r, 1)
        BY <2>1, <3>1, EffectiveSpeaks
      <4> HIDE DEF eff
      <4>2. \A e \in log : e.id = computeFinalId(r) => e = o
        BY <2>1, <4>1 DEF WellFormed
      <4>3. CASE eff = o /\ ~\E e \in log : e.id = computeFinalAmendId(r, 1)
        BY <3>1, <4>1, <4>2, <4>3 DEF eff
      <4>4. CASE eff \in log /\ Corrects(eff, o) /\ eff.id = computeFinalAmendId(r, 1)
        <5>1. eff.reason \notin ORPHAN_REASON_CODES
          BY <4>4 DEF Corrects, ORPHAN_REASON_CODES
        <5> QED
          BY <4>4, <5>1 DEF eff
      <4> QED
        BY <4>1, <4>3, <4>4
    <3>2. CASE r \notin Ended(log)
      BY <2>1, <3>2, FinalIdEnds DEF computeFinalId
    <3> QED
      BY <3>1, <3>2
  <2>4. {r \in Ended(log) : effectiveFinalForRoute(log, r).reason \in ORPHAN_REASON_CODES} =
        {r \in Routes : /\ \E e \in log : /\ e.id = computeFinalId(r)
                                         /\ e.reason \in ORPHAN_REASON_CODES
                        /\ ~\E e \in log : e.id = computeFinalAmendId(r, 1)}
    BY <2>3 DEF Ended
  <2> QED
    BY <2>2, <2>4 DEF CorrectionsStand, TripwireCountsRoutes, countOrphanFinalizations
<1> QED
  BY <1>1, FinalsInvCorrect, PTL

\* An append leaves what speaks for a route as it is, or moves it up the lattice.
LEMMA AppendRaises ==
  ASSUME FinalsInv, NEW e \in Events, Appends(e), NEW r \in Ended(log)
  PROVE  /\ r \in Ended(log')
         /\ \/ effectiveFinalForRoute(log', r) = effectiveFinalForRoute(log, r)
            \/ effectiveFinalForRoute(log', r).outcome
                 \in AMEND_LATTICE(effectiveFinalForRoute(log, r).outcome)
<1>1. /\ log' = log \cup {e} /\ WellFormed(log') /\ WellFormed(log)
      /\ \A f \in log : f.id # e.id
  BY AppendKeeps DEF FinalsInv
<1>2. r \in Ended(log')
  BY <1>1 DEF Ended, FinalsOf
<1>3. CASE FinalsOf(log', r) = FinalsOf(log, r)
  BY <1>2, <1>3 DEF effectiveFinalForRoute
<1>4. CASE FinalsOf(log', r) # FinalsOf(log, r)
  <2>1. IsFinal(e) /\ e.route = r
    BY <1>1, <1>4 DEF FinalsOf, IsFinal
  <2> DEFINE eff == effectiveFinalForRoute(log, r)
             eff2 == effectiveFinalForRoute(log', r)
  <2>2. PICK o \in log :
          /\ o.id = computeFinalId(r)
          /\ \/ eff = o /\ ~\E f \in log : f.id = computeFinalAmendId(r, 1)
             \/ eff \in log /\ eff.id = computeFinalAmendId(r, 1)
    BY <1>1, EffectiveSpeaks
  <2>3. PICK o2 \in log' :
          /\ o2.id = computeFinalId(r)
          /\ \/ eff2 = o2 /\ ~\E f \in log' : f.id = computeFinalAmendId(r, 1)
             \/ Corrects(eff2, o2)
    BY <1>1, <1>2, EffectiveSpeaks
  <2> HIDE DEF eff, eff2
  <2>4. o2 = o
    BY <1>1, <2>2, <2>3 DEF WellFormed
  <2>5. e.id = computeFinalAmendId(r, 1)
    BY <1>1, <2>1, <2>2, AppendKeeps DEF IsFirst, Corrects
  <2>6. eff = o /\ Corrects(eff2, o2)
    BY <1>1, <2>2, <2>3, <2>5
  <2> QED
    BY <1>2, <2>4, <2>6 DEF Corrects, eff, eff2
<1> QED
  BY <1>3, <1>4

\* A step leaves the log, or is an append of which the above holds.
LEMMA StepRaises ==
  ASSUME FinalsInv, [Next]_vars
  PROVE  /\ log \subseteq log' /\ IsFiniteSet(log')
         /\ WellFormed(log')
         /\ \A r \in Ended(log) :
              /\ r \in Ended(log')
              /\ \/ effectiveFinalForRoute(log', r) = effectiveFinalForRoute(log, r)
                 \/ effectiveFinalForRoute(log', r).outcome
                      \in AMEND_LATTICE(effectiveFinalForRoute(log, r).outcome)
<1>1. CASE UNCHANGED log
  BY <1>1 DEF FinalsInv, WellFormed
<1>2. CASE \E e \in Events : Appends(e)
  <2>1. PICK e \in Events : Appends(e)
    BY <1>2
  <2>2. log' = log \cup {e} /\ WellFormed(log')
    BY <2>1, AppendKeeps
  <2> QED
    BY <2>1, <2>2, AppendRaises DEF WellFormed
<1>3. UNCHANGED log \/ \E e \in Events : Appends(e)
  BY StepAppends DEF vars
<1> QED
  BY <1>1, <1>2, <1>3

\* Whatever is submitted, verdicts only rise, and no success is unlearned.
THEOREM NothingIsUndoneAlways == Spec => NothingIsUndone
<1>1. FinalsInv /\ [Next]_vars => VerdictsRise
  <2> SUFFICES ASSUME FinalsInv, [Next]_vars, NEW r \in Ended(log)
               PROVE  \/ effectiveFinalForRoute(log, r) = effectiveFinalForRoute(log', r)
                      \/ Rank(effectiveFinalForRoute(log, r).outcome)
                           < Rank(effectiveFinalForRoute(log', r).outcome)
    BY DEF VerdictsRise
  <2>1. \A before \in TERMINAL_OUTCOMES : \A after \in AMEND_LATTICE(before) :
          Rank(before) < Rank(after)
    BY DEF TERMINAL_OUTCOMES, AMEND_LATTICE, Rank
  <2>2. effectiveFinalForRoute(log, r).outcome \in TERMINAL_OUTCOMES
    BY EffectiveSpeaks, EventShape DEF FinalsInv, WellFormed
  <2> QED
    BY <2>1, <2>2, StepRaises
<1>2. FinalsInv /\ [Next]_vars => SuccessesStay
  <2> SUFFICES ASSUME FinalsInv, [Next]_vars PROVE SuccessesStay
    OBVIOUS
  <2>1. ASSUME NEW e \in Lessons(log)
        PROVE  \/ e \in Lessons(log')
               \/ /\ e.outcome = "NOT_VERIFIED_WITHIN_WINDOW"
                  /\ effectiveFinalForRoute(log', e.route).outcome = "VERIFIED_SUCCESS"
    <3>1. PICK r \in Ended(log) : e = effectiveFinalForRoute(log, r)
      BY DEF Lessons
    <3>2. e.route = r
      BY <3>1, EffectiveSpeaks DEF FinalsInv
    <3>3. Learns(log, e) /\ Learns(log', e)
      BY StepRaises DEF Lessons, Learns
    <3>4. CASE effectiveFinalForRoute(log', r) = e
      BY <3>3, <3>4, StepRaises DEF Lessons
    <3>5. CASE effectiveFinalForRoute(log', r).outcome \in AMEND_LATTICE(e.outcome)
      BY <3>2, <3>3, <3>5 DEF Learns, AMEND_LATTICE
    <3> QED
      BY <3>1, <3>4, <3>5, StepRaises
  <2>2. ASSUME NEW c \in Candidates
        PROVE  Successes(log', c) >= Successes(log, c)
    <3> DEFINE Won(events) ==
                 {e \in Lessons(events) : e.executor = c /\ e.outcome = "VERIFIED_SUCCESS"}
    <3>1. Won(log) \in SUBSET Won(log')
      BY <2>1
    <3>2. Won(log') \in SUBSET log'
      BY EffectiveSpeaks, StepRaises DEF Lessons
    <3>3. IsFiniteSet(Won(log')) /\ IsFiniteSet(Won(log))
      BY <3>1, <3>2, StepRaises, FS_Subset
    <3>4. Cardinality(Won(log)) <= Cardinality(Won(log'))
      BY <3>1, <3>3, FS_Subset
    <3>5. Cardinality(Won(log)) \in Nat /\ Cardinality(Won(log')) \in Nat
      BY <3>3, FS_CardinalityType
    <3>6. Successes(log, c) = Cardinality(Won(log)) /\ Successes(log', c) = Cardinality(Won(log'))
      BY DEF Successes
    <3> HIDE DEF Won
    <3> QED
      BY <3>4, <3>5, <3>6
  <2> QED
    BY <2>1, <2>2 DEF SuccessesStay
<1>3. Spec => EffectiveOnlyRises
  BY <1>1, FinalsInvCorrect, PTL DEF Spec, EffectiveOnlyRises
<1>4. Spec => SuccessIsKept
  BY <1>2, FinalsInvCorrect, PTL DEF Spec, SuccessIsKept
<1> QED
  BY <1>3, <1>4 DEF NothingIsUndone
=============================================================================
