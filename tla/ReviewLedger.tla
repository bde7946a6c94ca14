---------------------------- MODULE ReviewLedger ----------------------------
(***************************************************************************)
(* What the review dispatcher promises, without its log, its lock or its   *)
(* processes.  A task (one PR at one head) is reviewed in numbered epochs. *)
(* A route <<task, epoch>> is opened at most once; while it is open at     *)
(* most one candidate is ever started under it; it is closed at most once, *)
(* with a verdict that agrees with what was started; and the next epoch    *)
(* opens only behind a route that provably started nobody or that an       *)
(* operator has waived.                                                    *)
(*                                                                         *)
(*   opened   the routes that exist                                        *)
(*   started  the candidates that were ever started under a route          *)
(*   verdict  a route's terminal state, None while it has none             *)
(*   waived   the routes an operator gave up                               *)
(***************************************************************************)
EXTENDS Naturals

CONSTANTS Tasks, Candidates, MaxRetryEpochs, None

VARIABLES opened, started, verdict, waived

ledger == <<opened, started, verdict, waived>>

Routes == Tasks \X (0..MaxRetryEpochs)

Verdicts == {"COMPLETED", "EFFECT_UNKNOWN", "DISPATCH_FAILED"}

Init ==
  /\ opened = {}
  /\ started = [r \in Routes |-> {}]
  /\ verdict = [r \in Routes |-> None]
  /\ waived = {}

\* Route r is settled in a way that lets its task be dispatched again.
Released(r) == verdict[r] = "DISPATCH_FAILED" \/ r \in waived

Open(t, e) ==
  /\ <<t, e>> \notin opened
  /\ e > 0 => <<t, e - 1>> \in opened /\ Released(<<t, e - 1>>)
  /\ opened' = opened \cup {<<t, e>>}
  /\ UNCHANGED <<started, verdict, waived>>

Start(r, c) ==
  /\ r \in opened
  /\ verdict[r] = None
  /\ started[r] = {}
  /\ started' = [started EXCEPT ![r] = {c}]
  /\ UNCHANGED <<opened, verdict, waived>>

Close(r, v) ==
  /\ r \in opened
  /\ verdict[r] = None
  /\ v = "DISPATCH_FAILED" => started[r] = {}
  /\ v = "COMPLETED" => started[r] # {}
  /\ verdict' = [verdict EXCEPT ![r] = v]
  /\ UNCHANGED <<opened, started, waived>>

Waive(r) ==
  /\ r \in opened
  /\ waived' = waived \cup {r}
  /\ UNCHANGED <<opened, started, verdict>>

Next ==
  \/ \E t \in Tasks, e \in 0..MaxRetryEpochs : Open(t, e)
  \/ \E r \in Routes, c \in Candidates : Start(r, c)
  \/ \E r \in Routes, v \in Verdicts : Close(r, v)
  \/ \E r \in Routes : Waive(r)

Spec == Init /\ [][Next]_ledger
=============================================================================
