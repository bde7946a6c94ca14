------------------------------- MODULE Barrier -------------------------------
(***************************************************************************)
(* The join barrier's port (engine/src/domain/ports/barrier.ts): what      *)
(* open, mark and settle promise their callers, each as one step.          *)
(*                                                                         *)
(*   expected   the keys of the round, in order; None before it is opened  *)
(*   states     how each key stands; a key without a state is pending      *)
(***************************************************************************)
EXTENDS Sequences

CONSTANTS Keys, TaskLists, None

VARIABLES expected, states

barrier == <<expected, states>>

Init == expected = None /\ states = [k \in Keys |-> "pending"]

\* Begin a round.  To open it again changes nothing: the same keys are a no-op, and
\* others an error.
Open(list) ==
  /\ expected = None
  /\ expected' = list
  /\ UNCHANGED states

\* A key has ended; a later end corrects an earlier one.
Mark(k, state) ==
  /\ expected # None
  /\ states' = [states EXCEPT ![k] = state]
  /\ UNCHANGED expected

\* Every expected key that is pending, and no other, expires.
Settle ==
  /\ expected # None
  /\ states' = [k \in Keys |->
                  IF states[k] = "pending" /\ \E i \in DOMAIN expected : expected[i] = k
                  THEN "timeout" ELSE states[k]]
  /\ UNCHANGED expected

Next ==
  \/ \E list \in TaskLists : Open(list)
  \/ \E k \in Keys, state \in {"done", "fail"} : Mark(k, state)
  \/ Settle

Spec == Init /\ [][Next]_barrier
=============================================================================
