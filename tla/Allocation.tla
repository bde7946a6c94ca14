----------------------------- MODULE Allocation -----------------------------
(***************************************************************************)
(* The allocation flywheel (src/engine/src/cli/commands/allocate.ts and    *)
(* domain/allocation-score.ts).  Every `dispatch --task-type` leaves a row *)
(* in the ledger; `allocate feed --from-ledger` turns the rows of a round  *)
(* into evidence, `record`, `decay` and `reset` change the evidence, and   *)
(* `rank` orders the agents of a type by the mean of their posterior.      *)
(* Both files are read, changed and written back whole, without a lock, by *)
(* processes that run side by side.                                        *)
(*                                                                         *)
(*   ledger   the rows <<type, target>> of the ledger file; None: no file  *)
(*   stats    the evidence per type and agent, in units of 1/Unit          *)
(*   clerk    per process, the `allocate` command it is running            *)
(*   commands how many commands are still to be given; decays: how many    *)
(*            of those given were `decay`                                  *)
(*   paid     history: outcomes the store was handed by feed and by hand   *)
(*   excused  history: a command has overtaken another, died, decayed,     *)
(*            reset or kept the rows it fed                                *)
(***************************************************************************)
EXTENDS Processes

CONSTANTS
    Clerks,      \* processes that run `allocate`
    Types,       \* task types
    Bench,       \* type -> the sequence of agents the bench ranks for it
    AgentNames,  \* all agents, in the order of their names
    Targets,     \* what dispatch may be asked to call, `cc-` names included
    NormalAgent, \* target -> agent: the name without its `cc-`
    MaxDecays,   \* how many `decay` commands may be given
    Unit         \* the weight of one outcome, which can be halved MaxDecays times

Agents == ToSet(AgentNames)
Rows == Types \X Targets

ASSUME AllocationAssumption ==
    /\ MaxDecays \in Nat /\ Unit \in Nat \ {0} /\ Unit % 2 ^ MaxDecays = 0
    /\ AgentNames \in Seq(Agents) /\ IsInjective(AgentNames)
    /\ \A T \in Types : Bench[T] \in Seq(Agents) /\ IsInjective(Bench[T])
    /\ NormalAgent \in [Targets -> Agents]
    /\ None \notin Seq(Rows)

VARIABLES ledger, stats, clerk, commands, decays, paid, excused

allocVars == <<ledger, stats, clerk, commands, decays, paid, excused>>

Evidence == Types \X Agents
NoEvidence == [s |-> 0, f |-> 0]
Resting == [doing |-> "rest", rows |-> << >>, was |-> None, seen |-> None]

AllocInit ==
    /\ ledger = None
    /\ stats = [e \in Evidence |-> NoEvidence]
    /\ clerk = [p \in Clerks |-> Resting]
    /\ decays = 0
    /\ paid = [e \in Evidence |-> [fed |-> 0, told |-> 0]]
    /\ excused = FALSE

-----------------------------------------------------------------------------
(* The posterior: rankAgents.                                              *)

BenchRank(T, a) ==
    IF a \in ToSet(Bench[T]) THEN CHOOSE i \in DOMAIN Bench[T] : Bench[T][i] = a
    ELSE Len(AgentNames) + Len(Bench[T])

\* An unlisted agent is a candidate once it has evidence.
Candidates(T) == {a \in Agents : a \in ToSet(Bench[T]) \/ stats[<<T, a>>] # NoEvidence}

\* The score A / (A + B) as a fraction.  kappa = 4, and the prior is (n - i) / (n + 1) for
\* the i-th of n from 0, 3/20 for the unlisted; the prior's strength is kappa + 2.
Prior(T, a) ==
    LET n == Len(Bench[T])
    IN  IF a \in ToSet(Bench[T]) THEN 20 * (n + 1 - BenchRank(T, a)) ELSE 3 * (n + 1)

\* Bug: every trial counts as a success.
Score_Trials(T, a) ==
    LET scale == 20 * (Len(Bench[T]) + 1)
        e == stats[<<T, a>>]
    IN  [num |-> Unit * (4 * Prior(T, a) + scale) + scale * (e.s + e.f),
         den |-> scale * (6 * Unit + e.s + e.f)]

Score(T, a) ==
    LET scale == 20 * (Len(Bench[T]) + 1)
        e == stats[<<T, a>>]
    IN  [num |-> Unit * (4 * Prior(T, a) + scale) + scale * e.s,
         den |-> scale * (6 * Unit + e.s + e.f)]

Compare(T, a, b) == Score(T, a).num * Score(T, b).den - Score(T, b).num * Score(T, a).den

\* Higher mean, then better on the bench, then the name.  Means are compared at six digits,
\* which no two of these fractions share unless they are equal.
Before(T, a, b) ==
    \/ Compare(T, a, b) > 0
    \/ /\ Compare(T, a, b) = 0
       /\ \/ BenchRank(T, a) < BenchRank(T, b)
          \/ /\ BenchRank(T, a) = BenchRank(T, b)
             /\ SelectInSeq(AgentNames, LAMBDA x : x = a) < SelectInSeq(AgentNames, LAMBDA x : x = b)

-----------------------------------------------------------------------------
(* The ledger's writer, appendAllocationLedger of dispatch: what is written *)
(* is what was read with one row more.                                     *)

WithRow(seen, row) == Append(IF seen = None THEN << >> ELSE seen, row)

\* A file is replaced by what was made of an older version of it.
Overtaken(seen, current) == excused \/ seen # current

-----------------------------------------------------------------------------
(* feed and record                                                         *)

Give == commands > 0 /\ commands' = commands - 1

Orders(p, order) == clerk' = [clerk EXCEPT ![p] = order]

\* `feed --from-ledger --result r --fail .. --ok .. [--keep]`: rows are matched with the
\* lists by the name that was dispatched to, and recorded under the normal one.  Without a
\* ledger the command fails.
Feed(p, failed, keep) ==
    /\ clerk[p].doing = "rest" /\ ledger # None
    /\ Give
    /\ Orders(p, [doing |-> IF keep THEN "keep" ELSE "feed",
                  rows |-> [i \in DOMAIN ledger |->
                      [key |-> <<ledger[i][1], NormalAgent[ledger[i][2]]>>,
                       ok |-> ledger[i][2] \notin failed]],
                  was |-> ledger, seen |-> None])
    /\ excused' = (excused \/ keep)
    /\ UNCHANGED <<ledger, stats, decays, paid>>

\* `record T agent ok|fail`, and each tuple of `feed type:agent:result`.
Record(p, T, target, ok) ==
    /\ clerk[p].doing = "rest"
    /\ Give
    /\ Orders(p, [doing |-> "record", rows |-> <<[key |-> <<T, NormalAgent[target]>>, ok |-> ok]>>,
                  was |-> None, seen |-> None])
    /\ UNCHANGED <<ledger, stats, decays, paid, excused>>

\* store.state()
ReadStats(p) ==
    /\ clerk[p].doing \in {"feed", "keep", "record", "decay", "forget"}
    /\ clerk[p].rows # << >> /\ clerk[p].seen = None
    /\ Orders(p, [clerk[p] EXCEPT !.seen = stats])
    /\ UNCHANGED <<ledger, stats, commands, decays, paid, excused>>

applyOutcome(state, key, ok) ==
    [state EXCEPT ![key] = [s |-> @.s + IF ok THEN Unit ELSE 0, f |-> @.f + IF ok THEN 0 ELSE Unit]]

RecordRow(p) ==
    /\ clerk[p].doing \in {"feed", "keep", "record"}
    /\ clerk[p].seen # None
    /\ LET row == Head(clerk[p].rows)
       IN  /\ stats' = applyOutcome(clerk[p].seen, row.key, row.ok)
           /\ paid' = IF clerk[p].doing = "record" THEN [paid EXCEPT ![row.key].told = @ + 1]
                      ELSE [paid EXCEPT ![row.key].fed = @ + 1]
    /\ excused' = Overtaken(clerk[p].seen, stats)
    /\ Orders(p, [clerk[p] EXCEPT !.rows = Tail(@), !.seen = None])
    /\ UNCHANGED <<ledger, commands, decays>>

\* Bug: a feed leaves the rows it has fed.
Cleared_Not(p) == ledger

\* All that is in the ledger by now is cleared, fed or not.
Cleared(p) == IF clerk[p].doing = "feed" THEN << >> ELSE ledger

Finish(p) ==
    /\ clerk[p].doing \in {"feed", "keep", "record"}
    /\ clerk[p].rows = << >>
    /\ ledger' = Cleared(p)
    /\ excused' = IF clerk[p].doing = "feed" THEN Overtaken(clerk[p].was, ledger) ELSE excused
    /\ Orders(p, Resting)
    /\ UNCHANGED <<stats, commands, decays, paid>>

-----------------------------------------------------------------------------
(* decay, reset                                                            *)

Decay(p, T) ==
    /\ clerk[p].doing = "rest" /\ decays < MaxDecays
    /\ Give
    /\ decays' = decays + 1
    /\ Orders(p, [doing |-> "decay", rows |-> <<T>>, was |-> None, seen |-> None])
    /\ UNCHANGED <<ledger, stats, paid, excused>>

\* `reset T` keeps the other types; `reset all` removes the file unread.
Forget(p, T) ==
    /\ clerk[p].doing = "rest"
    /\ Give
    /\ Orders(p, [doing |-> "forget", rows |-> <<T>>, was |-> None, seen |-> None])
    /\ UNCHANGED <<ledger, stats, decays, paid, excused>>

ForgetAll(p) ==
    /\ clerk[p].doing = "rest"
    /\ Give
    /\ stats' = [e \in Evidence |-> NoEvidence]
    /\ excused' = TRUE
    /\ UNCHANGED <<ledger, clerk, decays, paid>>

Halved(e) == [s |-> e.s \div 2, f |-> e.f \div 2]

WriteStats(p) ==
    /\ clerk[p].doing \in {"decay", "forget"} /\ clerk[p].seen # None
    /\ stats' = [e \in Evidence |->
                    IF e[1] # clerk[p].rows[1] THEN clerk[p].seen[e]
                    ELSE IF clerk[p].doing = "decay" THEN Halved(clerk[p].seen[e])
                    ELSE NoEvidence]
    /\ excused' = TRUE
    /\ Orders(p, Resting)
    /\ UNCHANGED <<ledger, commands, decays, paid>>

\* The process dies: rows it has fed are in the ledger still.
ClerkDies(p) ==
    /\ "crash" \in Faults
    /\ clerk[p].doing # "rest"
    /\ Orders(p, Resting)
    /\ excused' = TRUE
    /\ UNCHANGED <<ledger, stats, commands, decays, paid>>

Allocate(p) ==
    \/ \E failed \in SUBSET Targets, keep \in BOOLEAN : Feed(p, failed, keep)
    \/ \E T \in Types, target \in Targets, ok \in BOOLEAN : Record(p, T, target, ok)
    \/ \E T \in Types : Decay(p, T) \/ Forget(p, T)
    \/ ForgetAll(p)
    \/ ReadStats(p) \/ RecordRow(p) \/ Finish(p) \/ WriteStats(p)
    \/ ClerkDies(p)

-----------------------------------------------------------------------------
AllocTypeOK ==
    /\ ledger = None \/ ledger \in Seq(Rows)
    /\ \A e \in Evidence : stats[e].s \in Nat /\ stats[e].f \in Nat
    /\ \A p \in Clerks : clerk[p].doing \in {"rest", "feed", "keep", "record", "decay", "forget"}
    /\ commands \in Nat /\ decays \in 0..MaxDecays
    /\ paid \in [Evidence -> [fed : Nat, told : Nat]]
    /\ excused \in BOOLEAN

RowsOf(e) ==
    IF ledger = None THEN 0
    ELSE Quantify(DOMAIN ledger, LAMBDA i : <<ledger[i][1], NormalAgent[ledger[i][2]]>> = e)

\* Routing drifts from the bench only where evidence of the same type has moved it: an
\* agent goes before one that the bench prefers only if it has a success or the other a
\* failure, whatever is recorded for other types, decayed or reset.
RankIsEarned ==
    \A T \in Types : \A a, b \in Candidates(T) :
        BenchRank(T, a) > BenchRank(T, b) /\ Before(T, a, b)
            => stats[<<T, a>>].s > 0 \/ stats[<<T, b>>].f > 0
=============================================================================
