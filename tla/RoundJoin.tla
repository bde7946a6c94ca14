------------------------------ MODULE RoundJoin ------------------------------
(***************************************************************************)
(* One dispatch round: Coordinator.dispatchRound (app/coordinator.ts) asks *)
(* an agent for every task at once and joins them on a PersistentBarrier   *)
(* (adapters/barrier/persistent-barrier.ts), while waitForRound            *)
(* (app/wait-for-round.ts) polls the same barrier and expires it.  All of  *)
(* it runs in one process, interleaved at its awaits; the process may die  *)
(* and the round be dispatched again.                                      *)
(*                                                                         *)
(* Durable:                                                                *)
(*   expected, states   the manifest round-N.json (None: no such file)     *)
(*   results            the keys that have a stored result                 *)
(*   events             the keys the run's event log speaks of; None       *)
(*                      before the run is created                          *)
(* In the process:                                                         *)
(*   call, tasks, cpc   the dispatchRound call that is running or was last *)
(*   worker             dispatchOne of each call and key                   *)
(*   queue, loaded      the barrier's mutex: its clients in the order they *)
(*                      came, and the manifest a client has loaded         *)
(*   waiter, late       waitForRound, and whether its deadline has passed  *)
(***************************************************************************)
EXTENDS Integers, SequencesExt

CONSTANTS
  Keys,        \* task keys
  TaskLists,   \* the task lists a caller may dispatch as this round
  MaxCalls,    \* how often the round is dispatched
  Faults,      \* which of "io" and "crash" may happen
  None

TASK_STATES == {"pending", "done", "fail", "timeout"}

ASSUME RoundAssumption ==
  /\ MaxCalls \in Nat
  /\ \A list \in TaskLists : list \in Seq(Keys) /\ IsInjective(list)
  /\ None \notin TaskLists
  /\ \A list \in TaskLists \cup {None}, st \in [Keys -> TASK_STATES] : None # <<list, st>>

VARIABLES expected, states, results, events,
          call, tasks, cpc, worker, queue, loaded, waiter, late

manifest == <<expected, states>>
caller   == <<call, tasks, cpc>>
waiting  == <<waiter, late>>
vars     == <<manifest, results, events, caller, worker, queue, loaded, waiting>>

Workers == (1..MaxCalls) \X Keys

\* The clients of the barrier's mutex, apart from the workers.
Opener == <<0, "opener">>
Waiter == <<0, "waiter">>
Clients == Workers \cup {Opener, Waiter}

KeysOf(list) == {list[i] : i \in DOMAIN list}

pendingKeys(exp, st) == {k \in KeysOf(exp) : st[k] = "pending"}

isComplete(exp, st) == pendingKeys(exp, st) = {}

Init ==
  /\ expected = None
  /\ states = [k \in Keys |-> "pending"]
  /\ results = {}
  /\ events = None
  /\ call = 0 /\ tasks = << >> /\ cpc = "idle"
  /\ worker = [w \in Workers |-> "off"]
  /\ queue = << >>
  /\ loaded = [client \in Clients |-> None]
  /\ waiter = "off" /\ late = FALSE

-----------------------------------------------------------------------------
(* dispatchRound, up to the dispatch.  Duplicate keys, an agent that cannot *)
(* be resolved and a policy's no-go return before anything has changed.     *)

Begin(list) ==
  /\ cpc \in {"idle", "reported"}
  /\ call < MaxCalls
  /\ call' = call + 1
  /\ tasks' = list
  /\ cpc' = "create"
  /\ UNCHANGED <<manifest, results, events, worker, queue, loaded, waiting>>

\* runStore.create, whatever the run already holds; then barrier.open is called.
CreateRun ==
  /\ cpc = "create"
  /\ events' = {}
  /\ cpc' = "open"
  /\ queue' = Append(queue, Opener)
  /\ UNCHANGED <<manifest, results, call, tasks, worker, loaded, waiting>>

-----------------------------------------------------------------------------
(* The barrier's critical sections: load, mutate, save, one client at a    *)
(* time in the order they came.                                            *)

\* Bug: a client does not wait for its turn.
MayLoad_Unlocked(client) == client \in ToSet(queue) /\ loaded[client] = None

MayLoad(client) == queue # << >> /\ Head(queue) = client /\ loaded[client] = None

Load(client) ==
  /\ MayLoad(client)
  /\ loaded' = [loaded EXCEPT ![client] = manifest]
  /\ UNCHANGED <<manifest, results, events, caller, worker, queue, waiting>>

\* A section has ended: the mutex goes to whoever came next.
Leave(client) ==
  /\ queue' = Tail(queue)
  /\ loaded' = [loaded EXCEPT ![client] = None]

\* open: a fresh manifest, or the one that is there if it expects the same keys in the
\* same order.  All tasks are dispatched at once.
OpenSection ==
  /\ loaded[Opener] # None
  /\ \/ /\ loaded[Opener][1] = None
        /\ expected' = tasks /\ states' = [k \in Keys |-> "pending"]
     \/ /\ loaded[Opener][1] = tasks
        /\ UNCHANGED manifest
  /\ cpc' = "join"
  /\ worker' = [w \in Workers |->
                  IF w[1] = call /\ w[2] \in KeysOf(tasks) THEN "asked" ELSE worker[w]]
  /\ Leave(Opener)
  /\ UNCHANGED <<results, events, call, tasks, waiting>>

\* open throws: the round is already open with a different expected set.
OpenRefused ==
  /\ loaded[Opener] # None
  /\ loaded[Opener][1] \notin {None, tasks}
  /\ cpc' = "idle"
  /\ Leave(Opener)
  /\ UNCHANGED <<manifest, results, events, call, tasks, worker, waiting>>

\* mark, with the state the worker waits to set.
MarkSection(w) ==
  /\ loaded[w] # None
  /\ worker[w] \in {"mark-done", "mark-fail"}
  /\ expected' = loaded[w][1]
  /\ states' = [loaded[w][2] EXCEPT ![w[2]] =
                  IF worker[w] = "mark-done" THEN "done" ELSE "fail"]
  /\ worker' = [worker EXCEPT ![w] = "marked"]
  /\ Leave(w)
  /\ UNCHANGED <<results, events, caller, waiting>>

Expired(exp, st) ==
  [k \in Keys |-> IF k \in pendingKeys(exp, st) THEN "timeout" ELSE st[k]]

\* settle: what is still pending expires, and that is what waitForRound returns.
SettleSection ==
  /\ loaded[Waiter] # None
  /\ loaded[Waiter][1] # None
  /\ expected' = loaded[Waiter][1]
  /\ states' = Expired(loaded[Waiter][1], loaded[Waiter][2])
  /\ waiter' = "returned"
  /\ Leave(Waiter)
  /\ UNCHANGED <<results, events, caller, worker, late>>

\* A read or a write of the manifest fails, or a round is settled that was never opened:
\* the client learns that its section has thrown.
Throws(client) ==
  /\ queue # << >> /\ Head(queue) = client
  /\ \/ "io" \in Faults
     \/ client = Waiter /\ loaded[client] # None /\ loaded[client][1] = None
  /\ cpc' = IF client = Opener THEN "idle" ELSE cpc
  /\ waiter' = IF client = Waiter THEN "threw" ELSE waiter
  /\ worker' = [w \in Workers |-> IF client = w THEN "threw" ELSE worker[w]]
  /\ UNCHANGED <<manifest, results, events, call, tasks, late>>

\* Bug: a section that throws is never followed by the next.
SectionThrows_Wedged(client) == Throws(client) /\ UNCHANGED <<queue, loaded>>

\* The mutex goes to the next client all the same.
SectionThrows(client) == Throws(client) /\ Leave(client)

-----------------------------------------------------------------------------
(* dispatchOne.                                                            *)

\* No agent is ranked, or the harness answers with an error: mark is called.
Fails(w) ==
  /\ worker[w] = "asked"
  /\ worker' = [worker EXCEPT ![w] = "mark-fail"]
  /\ queue' = Append(queue, w)
  /\ UNCHANGED <<manifest, results, events, caller, loaded, waiting>>

\* The harness answers.
Answers(w) ==
  /\ worker[w] = "asked"
  /\ worker' = [worker EXCEPT ![w] = "put"]
  /\ UNCHANGED <<manifest, results, events, caller, queue, loaded, waiting>>

PutResult_Later(w) ==   \* Bug: the key is marked before its result is stored.
  /\ worker[w] = "put"
  /\ worker' = [worker EXCEPT ![w] = "mark-done"]
  /\ queue' = Append(queue, w)
  /\ UNCHANGED <<manifest, results, events, caller, loaded, waiting>>

\* The result is stored; then mark is called.
PutResult(w) ==
  /\ worker[w] = "put"
  /\ results' = results \cup {w[2]}
  /\ worker' = [worker EXCEPT ![w] = "mark-done"]
  /\ queue' = Append(queue, w)
  /\ UNCHANGED <<manifest, events, caller, loaded, waiting>>

\* The event of the mark is appended to the run.
AppendEvent(w) ==
  /\ worker[w] = "marked"
  /\ events' = events \cup {w[2]}
  /\ worker' = [worker EXCEPT ![w] = "finished"]
  /\ UNCHANGED <<manifest, results, caller, queue, loaded, waiting>>

\* The result or the event cannot be written: dispatchOne rejects.
StoreFails(w) ==
  /\ "io" \in Faults
  /\ worker[w] \in {"put", "marked"}
  /\ worker' = [worker EXCEPT ![w] = "threw"]
  /\ UNCHANGED <<manifest, results, events, caller, queue, loaded, waiting>>

-----------------------------------------------------------------------------
(* dispatchRound, after the dispatch, and waitForRound.                    *)

\* Bug: the call joins on the workers that were not rejected.
Joined_Settled ==
  \A k \in KeysOf(tasks) : worker[<<call, k>>] \in {"finished", "threw"}

\* Promise.all is fulfilled.
Joined == \A k \in KeysOf(tasks) : worker[<<call, k>>] = "finished"

\* The manifest is read, without the mutex, and reported.
Report ==
  /\ cpc = "join"
  /\ Joined
  /\ cpc' = "reported"
  /\ UNCHANGED <<manifest, results, events, call, tasks, worker, queue, loaded, waiting>>

\* Promise.all rejects with the first worker that does, and the others go on; or the run
\* cannot be created, or the manifest not be read.
Reject ==
  /\ \/ /\ cpc = "join"
        /\ \E k \in KeysOf(tasks) : worker[<<call, k>>] = "threw"
     \/ /\ "io" \in Faults
        /\ cpc = "create" \/ (cpc = "join" /\ Joined)
  /\ cpc' = "idle"
  /\ UNCHANGED <<manifest, results, events, call, tasks, worker, queue, loaded, waiting>>

StartWait ==
  /\ waiter = "off"
  /\ waiter' = "poll"
  /\ UNCHANGED <<manifest, results, events, caller, worker, queue, loaded, late>>

DeadlinePasses ==
  /\ ~late
  /\ late' = TRUE
  /\ UNCHANGED <<manifest, results, events, caller, worker, queue, loaded, waiter>>

IsOver == expected # None /\ isComplete(expected, states)

\* inspect, without the mutex; a complete round is returned, an incomplete one is
\* settled once the deadline has passed, and looked at again before.
Poll ==
  /\ waiter = "poll"
  /\ \/ /\ IsOver
        /\ waiter' = "returned"
        /\ UNCHANGED queue
     \/ /\ ~IsOver /\ late
        /\ waiter' = "settle"
        /\ queue' = Append(queue, Waiter)
     \/ /\ "io" \in Faults
        /\ waiter' = "threw"
        /\ UNCHANGED queue
  /\ UNCHANGED <<manifest, results, events, caller, worker, loaded, late>>

\* The process dies; what it was doing is gone, what it has written is not.
Crash ==
  /\ "crash" \in Faults
  /\ cpc # "idle" \/ waiter # "off" \/ \E w \in Workers : worker[w] \notin {"off", "finished"}
  /\ cpc' = "idle"
  /\ worker' = [w \in Workers |-> "off"]
  /\ queue' = << >>
  /\ loaded' = [client \in Clients |-> None]
  /\ waiter' = "off" /\ late' = FALSE
  /\ UNCHANGED <<manifest, results, events, call, tasks>>

-----------------------------------------------------------------------------
Section ==
  \/ \E client \in Clients : Load(client) \/ SectionThrows(client)
  \/ OpenSection \/ OpenRefused \/ SettleSection
  \/ \E w \in Workers : MarkSection(w)

Next ==
  \/ \E list \in TaskLists : Begin(list)
  \/ CreateRun \/ Section \/ Report \/ Reject
  \/ \E w \in Workers :
       \/ Fails(w) \/ Answers(w) \/ PutResult(w) \/ AppendEvent(w) \/ StoreFails(w)
  \/ StartWait \/ DeadlinePasses \/ Poll
  \/ Crash

Spec == Init /\ [][Next]_vars

\* The event loop drives what is in the mutex and the poll, and time passes.  Nothing
\* makes an agent answer: its harness has no timeout unless one is configured.
FairSpec ==
  /\ Spec
  /\ WF_vars(Section)
  /\ WF_vars(Poll)
  /\ WF_vars(DeadlinePasses)

-----------------------------------------------------------------------------
Manifests == [Keys -> TASK_STATES]

TypeOK ==
  /\ expected \in TaskLists \cup {None}
  /\ states \in Manifests
  /\ results \in SUBSET Keys
  /\ events = None \/ events \in SUBSET Keys
  /\ call \in 0..MaxCalls
  /\ tasks \in TaskLists \cup {<< >>}
  /\ cpc \in {"idle", "create", "open", "join", "reported"}
  /\ worker \in [Workers -> {"off", "asked", "put", "mark-done", "mark-fail", "marked",
                             "finished", "threw"}]
  /\ queue \in Seq(Clients) /\ IsInjective(queue)
  /\ loaded \in [Clients -> ((TaskLists \cup {None}) \X Manifests) \cup {None}]
  /\ \A client \in Clients : loaded[client] # None => queue # << >> /\ Head(queue) = client
  /\ waiter \in {"off", "poll", "settle", "returned", "threw"}
  /\ late \in BOOLEAN

\* However marks, opens and the expiry interleave at their awaits, every critical section
\* is one atomic step of the port: no mark is lost, no answer is overwritten by an expiry
\* that was computed before it, and to open a round again drops nothing.
BarrierPort == INSTANCE Barrier
ImplementsBarrier == BarrierPort!Spec

\* Whatever dies or fails and however often the round is dispatched again, a key that the
\* manifest calls done has a result in the store; and one client at a time is in a section.
DoneHasResult ==
  /\ TypeOK
  /\ \A k \in Keys : states[k] = "done" => k \in results

\* N tasks dispatched, N terminal: the manifest that dispatchRound reports and the one that
\* waitForRound returns leave no expected key pending, and a reported call has an event in
\* its run for each of its tasks.
ReturnsAreJoined ==
  [][/\ cpc # "reported" /\ cpc' = "reported" =>
          isComplete(tasks, states') /\ KeysOf(tasks) \subseteq events'
     /\ waiter # "returned" /\ waiter' = "returned" =>
          expected' # None /\ isComplete(expected', states')]_vars

\* waitForRound returns, or its process dies, even if no agent ever answers and whatever
\* sections throw before its own.
EveryWaitEnds == waiter \in {"poll", "settle"} ~> waiter \in {"returned", "threw", "off"}
=============================================================================
