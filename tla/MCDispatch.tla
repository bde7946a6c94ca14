----------------------------- MODULE MCDispatch -----------------------------
(* Two dispatches of one task type, to two spellings of one agent. *)
EXTENDS Dispatch

CONSTANTS d1, d2, keeper, k1, cc_qwen, qwen, kimi, code

Plain == [task |-> TRUE, digest |-> FALSE, out |-> TRUE, certificate |-> FALSE, incident |-> FALSE,
          requireOutput |-> FALSE, type |-> code, target |-> qwen, guard |-> "warn", signals |-> {},
          options |-> "ok"]

Work(first, second, tasks, allocs) ==
    [request |-> d1 :> first @@ d2 :> second, orders |-> tasks, commands |-> allocs]

\* One with everything asked for, and the TASK's own commands.
Audited ==
    Work([Plain EXCEPT !.certificate = TRUE, !.requireOutput = TRUE, !.incident = TRUE,
                       !.type = None], [Plain EXCEPT !.options = "bad"], 2, 0)

\* Two that leave rows, and the allocator at work.
Counted ==
    Work([Plain EXCEPT !.task = FALSE, !.out = FALSE, !.target = cc_qwen], [Plain EXCEPT !.task = FALSE, !.out = FALSE], 0, 2)

\* One that the guard speaks of, and one that takes its prompt from the TASK.
Guarded ==
    Work([Plain EXCEPT !.signals = {"privileged"}, !.out = FALSE],
         [Plain EXCEPT !.digest = TRUE, !.guard = "off", !.certificate = TRUE, !.type = None,
                       !.out = FALSE], 0, 0)

\* The guard's refusal, and a timeout that does not parse.
Rejected ==
    Work([Plain EXCEPT !.guard = "strict", !.signals = {"injection"}],
         [Plain EXCEPT !.options = "bad-timeout", !.signals = {"privileged"}], 1, 0)

\* Nothing to ask, and no playbook to ask it with.
Promptless ==
    Work([Plain EXCEPT !.options = "no-prompt"], [Plain EXCEPT !.options = "no-skeptic"], 0, 0)

AllWork == {Audited, Counted, Guarded, Rejected, Promptless}

Both == {d1, d2}
BothAndKeeper == {d1, d2, keeper}
BenchOf == code :> <<kimi>>
Names == <<qwen, kimi>>
Normal == cc_qwen :> qwen @@ qwen :> qwen

\* What a dispatch does before it comes to the ledger and what the allocator does commute,
\* so the allocator's commands are given once each dispatch has come that far.
AtLedger(d) == run[d].pc \in {"ledger", "row", "returned", "threw", "dead"}
OrderedNext == Next /\ (commands' # commands => \A d \in Dispatches : AtLedger(d))
OrderedSpec == Init /\ [][OrderedNext]_vars /\ Fairness
=============================================================================
