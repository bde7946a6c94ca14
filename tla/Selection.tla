------------------------------ MODULE Selection -----------------------------
(* `fuguectl route`: which candidate of a fan-out may be trusted.  With       *)
(* --round the candidates are read from the cache of that round, one task     *)
(* after the other, while its agents may still be putting results there; a    *)
(* gate, a command of the operator, may be run on each result.                *)
EXTENDS Absent, SequencesExt, Integers

CONSTANTS Tasks,       \* the round's tasks, a sequence of [id, agent]
          Versions,    \* results an agent may put; a result is its label
          Passing,     \* the results the gate accepts
          Questions,   \* command lines
          MaxPuts      \* bound: results put

ASSUME SelectAssumption ==
  /\ None \notin BOOLEAN
  /\ \A q \in Questions : q.config.threshold \in Int /\ (q.round \/ q.file \in Seq(Range(q.file)))

VARIABLES round,       \* task id -> [status, result] in the cache
          puts,        \* results put
          command      \* the route command

selectVars == <<round, puts, command>>

Ids == {Tasks[i].id : i \in DOMAIN Tasks}
Idle == [at |-> "idle", of |-> None, row |-> 1, result |-> None, candidates |-> <<>>, seen |-> <<>>, decision |-> None]

SelectInit == /\ round = [t \in Ids |-> [status |-> "pending", result |-> None]]
              /\ puts = 0 /\ command = Idle

(* cache put: the result's file, then its status.                            *)
PutResult(t, v) == /\ puts < MaxPuts /\ puts' = puts + 1
                   /\ round' = [round EXCEPT ![t].result = v]
                   /\ UNCHANGED command

(* A failed task has a result or none, and a task may be put or failed again. *)
PutStatus(t) == /\ \E s \in {"done", "fail"} \ {round[t].status} :
                     /\ s = "done" => round[t].result # None
                     /\ round' = [round EXCEPT ![t].status = s]
                /\ UNCHANGED <<puts, command>>

-----------------------------------------------------------------------------
(* The decision.                                                             *)

Escalate(reason) == [outcome |-> "ESCALATE", pick |-> None, reason |-> reason]
Labelled(cs) == {i \in DOMAIN cs : cs[i].label # None}
Cluster(cs, label) == {i \in DOMAIN cs : cs[i].label = label}
Votes(cs, i) == Cardinality(Cluster(cs, cs[i].label))
First(places) == CHOOSE i \in places : \A j \in places : i <= j

(* The largest cluster, and of those the one that was seen first.            *)
Dominant(cs) == First({i \in Labelled(cs) : \A j \in Labelled(cs) : Votes(cs, i) >= Votes(cs, j)})

(* Laplace's (k + 1) / (n + 2), held against the threshold.                  *)
smoothed(k, n, percent) == 100 * (k + 1) >= percent * (n + 2)

byAgreement(cs, config) ==
  LET n == Cardinality(Labelled(cs))
      first == Dominant(cs)
  IN IF n = 0 THEN Escalate("split")
     ELSE IF n = 1 /\ ~config.trustSingleton THEN Escalate("singleton")
     ELSE IF n = 1 \/ smoothed(Votes(cs, first), n, config.threshold)
          THEN [outcome |-> "TRUST_SPOT_CHECK", pick |-> cs[first].agent, reason |-> "quorum"]
     ELSE Escalate("split")

gateRan_Passed(cs) == \E c \in Range(cs) : c.verified = TRUE

(* A gate that refused has run: nothing is trusted on agreement then.        *)
gateRan(cs) == \E c \in Range(cs) : c.verified # None

route(cs, config) ==
  LET passed == {i \in DOMAIN cs : cs[i].verified = TRUE} IN
  IF cs = <<>> THEN Escalate("empty")
  ELSE IF passed # {} THEN [outcome |-> "TRUST", pick |-> cs[First(passed)].agent, reason |-> "gate-verified"]
  ELSE IF gateRan(cs) THEN Escalate("gate-failed")
  ELSE IF config.category \in config.forced THEN Escalate("forced-category")
  ELSE byAgreement(cs, config)

-----------------------------------------------------------------------------
(* The command.                                                              *)

MayAsk(q) == /\ q.file # None => ~q.round
             /\ q.gate => q.round

AskRoute(q) == /\ command.at = "idle" /\ MayAsk(q)
          /\ command' = [Idle EXCEPT !.of = q, !.at = IF q.round THEN "status" ELSE "decide",
                                     !.candidates = IF q.round THEN <<>> ELSE q.file]
          /\ UNCHANGED <<round, puts>>

Row == Tasks[command.row]
NextRow == IF command.row = Len(Tasks) THEN [command EXCEPT !.at = "decide", !.row = 1]
           ELSE [command EXCEPT !.at = "status", !.row = @ + 1]

(* A task that is not done, or has no result, is left out.                   *)
ReadStatus ==
  /\ command.at = "status"
  /\ command' = IF round[Row.id].status = "done" THEN [command EXCEPT !.at = "result"] ELSE NextRow
  /\ UNCHANGED <<round, puts>>

ReadResult ==
  /\ command.at = "result"
  /\ LET v == round[Row.id].result IN
     command' = IF command.of.gate THEN [command EXCEPT !.at = "gate"]
                ELSE [NextRow EXCEPT !.candidates = Append(@, [agent |-> Row.agent, verified |-> None, label |-> v]),
                                     !.seen = Append(@, v)]
  /\ UNCHANGED <<round, puts>>

(* The gate reads the file again, and says yes or no, which it must in time;  *)
(* one that cannot run ends the command without a decision.                  *)
RunGate ==
  /\ command.at = "gate"
  /\ LET v == round[Row.id].result IN
     \/ \E inTime \in BOOLEAN :
          command' = [NextRow EXCEPT !.candidates = Append(@, [agent |-> Row.agent, verified |-> inTime /\ v \in Passing,
                                                               label |-> None]),
                                     !.seen = Append(@, v)]
     \/ command' = Idle
  /\ UNCHANGED <<round, puts>>

(* The threshold is looked at last, after the gates have run.                *)
IsThreshold(percent) == percent > 0 /\ percent < 100

Decide ==
  /\ command.at = "decide"
  /\ command' = IF IsThreshold(command.of.config.threshold)
                THEN [command EXCEPT !.at = "told", !.decision = route(command.candidates, command.of.config)]
                ELSE Idle
  /\ UNCHANGED <<round, puts>>

(* The decision is noted in the TASK file, and is the exit status.           *)
ExitCode(d) == CASE d.outcome = "TRUST" -> 0 [] d.outcome = "TRUST_SPOT_CHECK" -> 10 [] d.outcome = "ESCALATE" -> 20

RouteReturns == command.at = "told" /\ command' = Idle /\ UNCHANGED <<round, puts>>

SelectNext ==
  \/ \E t \in Ids : PutStatus(t) \/ \E v \in Versions : PutResult(t, v)
  \/ \E q \in Questions : AskRoute(q)
  \/ ReadStatus \/ ReadResult \/ RunGate \/ Decide \/ RouteReturns

-----------------------------------------------------------------------------
(* What a decision promises.                                                 *)

(* Clean trust (status 0) goes only to an agent whose result a gate accepted; *)
(* unverified trust (10) only where no gate ran, to an agent that more than   *)
(* two thirds of the labelled candidates agree with - at the default          *)
(* threshold - and never in a category whose consensus is known to be broken. *)
TrustIsEarned ==
  command.at = "told" =>
    LET d == command.decision
        cs == command.candidates
        config == command.of.config
    IN /\ ExitCode(d) = 0 =>
            \E i \in DOMAIN cs : /\ cs[i].agent = d.pick
                                 /\ IF command.of.round THEN command.of.gate /\ command.seen[i] \in Passing
                                    ELSE cs[i].verified = TRUE
       /\ ExitCode(d) = 10 =>
            /\ \A i \in DOMAIN cs : cs[i].verified = None
            /\ config.category \notin config.forced
            /\ config.threshold >= 70 /\ ~config.trustSingleton =>
                 \E i \in DOMAIN cs : /\ cs[i].agent = d.pick /\ cs[i].label # None
                                      /\ 3 * Votes(cs, i) > 2 * Cardinality(Labelled(cs))
                                      /\ Votes(cs, i) > 1
=============================================================================
