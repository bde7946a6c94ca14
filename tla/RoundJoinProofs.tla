--------------------------- MODULE RoundJoinProofs ---------------------------
(***************************************************************************)
(* Proofs about RoundJoin, for any keys, any task lists, any number of     *)
(* calls and whatever fails or dies.                                       *)
(***************************************************************************)
EXTENDS RoundJoin, SequenceTheorems, TLAPS

-----------------------------------------------------------------------------
(***************************************************************************)
(* The inductive invariant, part by part.                                  *)
(***************************************************************************)

\* Who stands in the mutex's queue is who waits for the end of a section.
QueueTellsWhoWaits ==
  /\ Opener \in ToSet(queue) <=> cpc = "open"
  /\ Waiter \in ToSet(queue) <=> waiter = "settle"
  /\ \A w \in Workers : w \in ToSet(queue) <=> worker[w] \in {"mark-done", "mark-fail"}

\* What the client in the section has loaded is what the manifest says still.
LoadedIsCurrent == \A client \in Clients : loaded[client] # None => loaded[client] = manifest

\* Nothing is marked before the round is opened.
UnopenedIsPending == expected = None => states = [k \in Keys |-> "pending"]

\* A call that has opened the round expects what the manifest does.
CallIsOpen ==
  /\ cpc # "idle" => call \in 1..MaxCalls /\ tasks \in TaskLists
  /\ cpc \in {"join", "reported"} => expected = tasks
  /\ cpc \in {"open", "join", "reported"} => events \in SUBSET Keys

\* A worker, of this call or of one that was rejected, is of an expected key, and what it
\* has done so far is in the stores.
WorkerHasDone(w) ==
  /\ w[1] <= call
  /\ w[1] = call => cpc \notin {"create", "open"}
  /\ expected # None /\ w[2] \in KeysOf(expected)
  /\ events \in SUBSET Keys
  /\ worker[w] = "mark-done" => w[2] \in results
  /\ worker[w] \in {"marked", "finished"} => states[w[2]] # "pending"
  /\ worker[w] = "finished" /\ w[1] = call => w[2] \in events

WorkersHaveDone == \A w \in Workers : worker[w] # "off" => WorkerHasDone(w)

RoundInv ==
  /\ DoneHasResult
  /\ QueueTellsWhoWaits
  /\ LoadedIsCurrent
  /\ UnopenedIsPending
  /\ CallIsOpen
  /\ WorkersHaveDone

-----------------------------------------------------------------------------
(***************************************************************************)
(* Constants, and the queue.                                               *)
(***************************************************************************)

\* The clients of the mutex are told apart, and a task list is a sequence of keys.
LEMMA ClientsDiffer ==
  /\ Opener # Waiter
  /\ Opener \notin Workers /\ Waiter \notin Workers
  /\ Opener \in Clients /\ Waiter \in Clients
  /\ \A w \in Workers : w \in Clients /\ w[1] \in 1..MaxCalls /\ w[2] \in Keys /\ w = <<w[1], w[2]>>
  BY RoundAssumption DEF Opener, Waiter, Workers, Clients

LEMMA KeysOfList ==
  ASSUME NEW list \in TaskLists
  PROVE  /\ list # None
         /\ KeysOf(list) \in SUBSET Keys
  BY RoundAssumption DEF KeysOf

LEMMA Enqueued ==
  ASSUME NEW q \in Seq(Clients), IsInjective(q), NEW c \in Clients, c \notin ToSet(q)
  PROVE  /\ Append(q, c) \in Seq(Clients) /\ IsInjective(Append(q, c))
         /\ ToSet(Append(q, c)) = ToSet(q) \cup {c}
         /\ Append(q, c) # << >>
         /\ q # << >> => Head(Append(q, c)) = Head(q)
<1>1. /\ Append(q, c) \in Seq(Clients)
      /\ Len(Append(q, c)) = Len(q) + 1
      /\ \A i \in 1..Len(q) : Append(q, c)[i] = q[i]
      /\ Append(q, c)[Len(q) + 1] = c
  BY AppendProperties
<1>2. DOMAIN q = 1..Len(q) /\ DOMAIN Append(q, c) = 1..(Len(q) + 1) /\ Len(q) \in Nat
  BY <1>1
<1>3. ToSet(Append(q, c)) = ToSet(q) \cup {c}
  BY <1>1, <1>2 DEF ToSet
<1>4. IsInjective(Append(q, c))
  BY <1>1, <1>2 DEF ToSet, IsInjective
<1> QED
  BY <1>1, <1>3, <1>4

LEMMA Dequeued ==
  ASSUME NEW q \in Seq(Clients), IsInjective(q), q # << >>
  PROVE  /\ Tail(q) \in Seq(Clients) /\ IsInjective(Tail(q))
         /\ Head(q) \in ToSet(q)
         /\ ToSet(Tail(q)) = ToSet(q) \ {Head(q)}
<1>1. /\ Tail(q) \in Seq(Clients)
      /\ Len(Tail(q)) = Len(q) - 1
      /\ \A i \in 1..Len(Tail(q)) : Tail(q)[i] = q[i + 1]
  BY HeadTailProperties
<1>2. DOMAIN q = 1..Len(q) /\ DOMAIN Tail(q) = 1..(Len(q) - 1) /\ Len(q) \in Nat /\ Len(q) > 0
  BY <1>1
<1>3. Head(q) = q[1] /\ 1 \in DOMAIN q
  BY <1>2
<1>4. IsInjective(Tail(q))
  BY <1>1, <1>2 DEF IsInjective
<1>5. ToSet(Tail(q)) = ToSet(q) \ {Head(q)}
  <2>1. ASSUME NEW c \in ToSet(Tail(q))
        PROVE  c \in ToSet(q) \ {Head(q)}
    <3>1. PICK i \in 1..(Len(q) - 1) : c = q[i + 1]
      BY <1>1, <1>2, <2>1 DEF ToSet
    <3>2. i + 1 \in DOMAIN q /\ i + 1 # 1 /\ 1 \in DOMAIN q
      BY <1>2
    <3> QED
      BY <1>3, <3>1, <3>2 DEF ToSet, IsInjective
  <2>2. ASSUME NEW c \in ToSet(q), c # Head(q)
        PROVE  c \in ToSet(Tail(q))
    <3>1. PICK i \in 1..Len(q) : c = q[i]
      BY <1>2 DEF ToSet
    <3>2. i - 1 \in 1..(Len(q) - 1) /\ (i - 1) + 1 = i
      BY <1>2, <1>3, <2>2, <3>1
    <3> QED
      BY <1>1, <1>2, <3>1, <3>2 DEF ToSet
  <2> QED
    BY <2>1, <2>2
<1> QED
  BY <1>1, <1>2, <1>3, <1>4, <1>5 DEF ToSet

\* The one that has loaded is at the head of the queue; once it has left, nobody has.
LEMMA Left ==
  ASSUME RoundInv, NEW client \in Clients, queue # << >>, Head(queue) = client, Leave(client)
  PROVE  /\ queue' \in Seq(Clients) /\ IsInjective(queue')
         /\ client \in ToSet(queue)
         /\ ToSet(queue') = ToSet(queue) \ {client}
         /\ loaded' = [c \in Clients |-> None]
<1>1. queue \in Seq(Clients) /\ IsInjective(queue) /\ queue' = Tail(queue)
  BY DEF RoundInv, DoneHasResult, TypeOK, Leave
<1>2. loaded' = [c \in Clients |-> None]
  BY DEF RoundInv, DoneHasResult, TypeOK, Leave
<1> QED
  BY <1>1, <1>2, Dequeued

-----------------------------------------------------------------------------
(***************************************************************************)
(* The invariant holds initially, and each step keeps it.                  *)
(***************************************************************************)
LEMMA InitEstablishes == Init => RoundInv
<1> SUFFICES ASSUME Init PROVE RoundInv
  OBVIOUS
<1>1. queue \in Seq(Clients) /\ IsInjective(queue) /\ ToSet(queue) = {}
  BY DEF Init, IsInjective, ToSet
<1>2. states \in Manifests /\ \A k \in Keys : states[k] # "done"
  BY DEF Init, Manifests, TASK_STATES
<1>3. call \in 0..MaxCalls /\ tasks \in TaskLists \cup {<< >>}
  BY RoundAssumption DEF Init
<1>4. DoneHasResult
  BY <1>1, <1>2, <1>3 DEF Init, DoneHasResult, TypeOK
<1> QED
  BY <1>1, <1>4, ClientsDiffer
     DEF Init, RoundInv, QueueTellsWhoWaits, LoadedIsCurrent, UnopenedIsPending, CallIsOpen,
         WorkersHaveDone

LEMMA BeginKeeps ==
  ASSUME RoundInv, NEW list \in TaskLists, Begin(list)
  PROVE  RoundInv'
<1> USE DEF Begin, RoundInv, manifest, waiting
<1>1. DoneHasResult'
  BY RoundAssumption DEF DoneHasResult, TypeOK
<1>2. QueueTellsWhoWaits' /\ LoadedIsCurrent' /\ UnopenedIsPending'
  BY DEF QueueTellsWhoWaits, LoadedIsCurrent, UnopenedIsPending
<1>3. CallIsOpen'
  BY RoundAssumption DEF CallIsOpen, DoneHasResult, TypeOK
<1>4. WorkersHaveDone'
  BY ClientsDiffer, RoundAssumption DEF WorkersHaveDone, WorkerHasDone, DoneHasResult, TypeOK
<1> QED
  BY <1>1, <1>2, <1>3, <1>4

LEMMA CreateRunKeeps ==
  ASSUME RoundInv, CreateRun
  PROVE  RoundInv'
<1> USE DEF CreateRun, RoundInv, manifest, waiting
<1>1. /\ queue' \in Seq(Clients) /\ IsInjective(queue')
      /\ ToSet(queue') = ToSet(queue) \cup {Opener}
      /\ queue' # << >>
      /\ queue # << >> => Head(queue') = Head(queue)
  BY Enqueued, ClientsDiffer DEF QueueTellsWhoWaits, DoneHasResult, TypeOK
<1>2. DoneHasResult'
  BY <1>1 DEF DoneHasResult, TypeOK
<1>3. QueueTellsWhoWaits'
  BY <1>1, ClientsDiffer DEF QueueTellsWhoWaits
<1>4. LoadedIsCurrent' /\ UnopenedIsPending'
  BY DEF LoadedIsCurrent, UnopenedIsPending
<1>5. CallIsOpen'
  BY DEF CallIsOpen
<1>6. WorkersHaveDone'
  BY ClientsDiffer DEF WorkersHaveDone, WorkerHasDone
<1> QED
  BY <1>2, <1>3, <1>4, <1>5, <1>6

LEMMA LoadKeeps ==
  ASSUME RoundInv, NEW client \in Clients, Load(client)
  PROVE  RoundInv'
<1> USE DEF Load, MayLoad, RoundInv, manifest, waiting, caller
<1>1. DoneHasResult'
  BY DEF DoneHasResult, TypeOK, Manifests
<1>2. QueueTellsWhoWaits' /\ UnopenedIsPending' /\ CallIsOpen'
  BY DEF QueueTellsWhoWaits, UnopenedIsPending, CallIsOpen
<1>3. LoadedIsCurrent'
  BY DEF LoadedIsCurrent, DoneHasResult, TypeOK
<1>4. WorkersHaveDone'
  BY DEF WorkersHaveDone, WorkerHasDone
<1> QED
  BY <1>1, <1>2, <1>3, <1>4

\* Whoever leaves was at the head of the queue, and nobody has loaded then.
LEMMA LeavesTheHead ==
  ASSUME RoundInv, NEW client \in Clients, loaded[client] # None, Leave(client)
  PROVE  /\ queue' \in Seq(Clients) /\ IsInjective(queue')
         /\ client \in ToSet(queue)
         /\ ToSet(queue') = ToSet(queue) \ {client}
         /\ loaded' = [c \in Clients |-> None]
         /\ loaded[client] = manifest
<1>1. queue # << >> /\ Head(queue) = client
  BY DEF RoundInv, DoneHasResult, TypeOK
<1> QED
  BY <1>1, Left DEF RoundInv, LoadedIsCurrent

LEMMA OpenSectionKeeps ==
  ASSUME RoundInv, OpenSection
  PROVE  RoundInv'
<1> USE DEF RoundInv, manifest, waiting
<1>1. /\ queue' \in Seq(Clients) /\ IsInjective(queue')
      /\ Opener \in ToSet(queue)
      /\ ToSet(queue') = ToSet(queue) \ {Opener}
      /\ loaded' = [c \in Clients |-> None]
      /\ loaded[Opener] = <<expected, states>>
  BY LeavesTheHead, ClientsDiffer DEF OpenSection
<1>2. cpc = "open" /\ cpc' = "join" /\ call \in 1..MaxCalls /\ tasks \in TaskLists /\ tasks # None
  BY <1>1, KeysOfList DEF OpenSection, QueueTellsWhoWaits, CallIsOpen
<1>3. /\ expected' = tasks
      /\ expected = None => states' = [k \in Keys |-> "pending"]
      /\ expected # None => expected = tasks /\ states' = states
  BY <1>1, <1>2 DEF OpenSection
<1>4. \A w \in Workers : w[1] = call => worker[w] = "off"
  BY <1>2 DEF WorkersHaveDone, WorkerHasDone
<1>5. DoneHasResult'
  BY <1>1, <1>2, <1>3 DEF OpenSection, DoneHasResult, TypeOK, Manifests, TASK_STATES
<1>6. QueueTellsWhoWaits'
  BY <1>1, <1>2, <1>4, ClientsDiffer DEF OpenSection, QueueTellsWhoWaits
<1>7. LoadedIsCurrent' /\ UnopenedIsPending'
  BY <1>1, <1>2, <1>3 DEF LoadedIsCurrent, UnopenedIsPending
<1>8. CallIsOpen'
  BY <1>2, <1>3 DEF OpenSection, CallIsOpen
<1>9. WorkersHaveDone'
  <2> SUFFICES ASSUME NEW w \in Workers, worker'[w] # "off" PROVE WorkerHasDone(w)'
    BY DEF WorkersHaveDone
  <2>1. CASE w[1] = call
    BY <2>1, <1>2, <1>3, <1>4 DEF OpenSection, WorkerHasDone, CallIsOpen, DoneHasResult, TypeOK
  <2>2. CASE w[1] # call
    BY <2>2, <1>2, <1>3 DEF OpenSection, WorkersHaveDone, WorkerHasDone
  <2> QED
    BY <2>1, <2>2
<1> QED
  BY <1>5, <1>6, <1>7, <1>8, <1>9

LEMMA OpenRefusedKeeps ==
  ASSUME RoundInv, OpenRefused
  PROVE  RoundInv'
<1> USE DEF RoundInv, manifest, waiting
<1>1. /\ queue' \in Seq(Clients) /\ IsInjective(queue')
      /\ Opener \in ToSet(queue)
      /\ ToSet(queue') = ToSet(queue) \ {Opener}
      /\ loaded' = [c \in Clients |-> None]
  BY LeavesTheHead, ClientsDiffer DEF OpenRefused
<1>2. DoneHasResult'
  BY <1>1 DEF OpenRefused, DoneHasResult, TypeOK
<1>3. QueueTellsWhoWaits'
  BY <1>1, ClientsDiffer DEF OpenRefused, QueueTellsWhoWaits
<1>4. LoadedIsCurrent' /\ UnopenedIsPending' /\ CallIsOpen'
  BY <1>1 DEF OpenRefused, LoadedIsCurrent, UnopenedIsPending, CallIsOpen
<1>5. WorkersHaveDone'
  BY DEF OpenRefused, WorkersHaveDone, WorkerHasDone
<1> QED
  BY <1>2, <1>3, <1>4, <1>5

LEMMA MarkSectionKeeps ==
  ASSUME RoundInv, NEW w \in Workers, MarkSection(w)
  PROVE  RoundInv'
<1> USE DEF RoundInv, manifest, waiting, caller
<1>1. /\ queue' \in Seq(Clients) /\ IsInjective(queue')
      /\ w \in ToSet(queue)
      /\ ToSet(queue') = ToSet(queue) \ {w}
      /\ loaded' = [c \in Clients |-> None]
      /\ loaded[w] = <<expected, states>>
  BY LeavesTheHead, ClientsDiffer DEF MarkSection
<1>2. /\ expected' = expected
      /\ states' = [states EXCEPT ![w[2]] = IF worker[w] = "mark-done" THEN "done" ELSE "fail"]
      /\ w[2] \in Keys
      /\ worker[w] # "off"
  BY <1>1, ClientsDiffer DEF MarkSection
<1>3. worker[w] = "mark-done" => w[2] \in results
  BY <1>2 DEF WorkersHaveDone, WorkerHasDone
<1>4. DoneHasResult'
  BY <1>1, <1>2, <1>3 DEF MarkSection, DoneHasResult, TypeOK, Manifests, TASK_STATES
<1>5. QueueTellsWhoWaits'
  BY <1>1, ClientsDiffer DEF MarkSection, QueueTellsWhoWaits, DoneHasResult, TypeOK
<1>6. expected # None
  BY <1>2 DEF WorkersHaveDone, WorkerHasDone
<1>7. LoadedIsCurrent' /\ UnopenedIsPending' /\ CallIsOpen'
  BY <1>1, <1>2, <1>6 DEF MarkSection, LoadedIsCurrent, UnopenedIsPending, CallIsOpen
<1>8. WorkersHaveDone'
  <2> SUFFICES ASSUME NEW v \in Workers, worker'[v] # "off" PROVE WorkerHasDone(v)'
    BY DEF WorkersHaveDone
  <2>1. worker[v] # "off" /\ (v # w => worker'[v] = worker[v]) /\ worker'[w] = "marked"
    BY <1>2 DEF MarkSection, DoneHasResult, TypeOK
  <2>2. WorkerHasDone(v)
    BY <2>1 DEF WorkersHaveDone
  <2>3. states'[v[2]] = states[v[2]] \/ states'[v[2]] # "pending"
    BY <1>2 DEF DoneHasResult, TypeOK, Manifests
  <2>4. states'[w[2]] # "pending"
    BY <1>2 DEF DoneHasResult, TypeOK, Manifests
  <2> QED
    BY <1>2, <2>1, <2>2, <2>3, <2>4 DEF MarkSection, WorkerHasDone
<1> QED
  BY <1>4, <1>5, <1>7, <1>8

LEMMA SettleSectionKeeps ==
  ASSUME RoundInv, SettleSection
  PROVE  RoundInv'
<1> USE DEF RoundInv, manifest, caller
<1>1. /\ queue' \in Seq(Clients) /\ IsInjective(queue')
      /\ Waiter \in ToSet(queue)
      /\ ToSet(queue') = ToSet(queue) \ {Waiter}
      /\ loaded' = [c \in Clients |-> None]
      /\ loaded[Waiter] = <<expected, states>>
  BY LeavesTheHead, ClientsDiffer DEF SettleSection
<1>2. expected' = expected /\ expected # None /\ states' = Expired(expected, states)
  BY <1>1 DEF SettleSection
<1>3. /\ states' \in Manifests
      /\ \A k \in Keys : states'[k] = states[k] \/ states'[k] = "timeout"
  BY <1>2 DEF Expired, DoneHasResult, TypeOK, Manifests, TASK_STATES
<1>4. DoneHasResult'
  BY <1>1, <1>2, <1>3 DEF SettleSection, DoneHasResult, TypeOK
<1>5. QueueTellsWhoWaits'
  BY <1>1, ClientsDiffer DEF SettleSection, QueueTellsWhoWaits
<1>6. LoadedIsCurrent' /\ UnopenedIsPending' /\ CallIsOpen'
  BY <1>1, <1>2 DEF SettleSection, LoadedIsCurrent, UnopenedIsPending, CallIsOpen
<1>7. WorkersHaveDone'
  BY <1>2, <1>3, ClientsDiffer DEF SettleSection, WorkersHaveDone, WorkerHasDone
<1> QED
  BY <1>4, <1>5, <1>6, <1>7

LEMMA SectionThrowsKeeps ==
  ASSUME RoundInv, NEW client \in Clients, SectionThrows(client)
  PROVE  RoundInv'
<1> USE DEF RoundInv, manifest, SectionThrows, Throws
<1>1. /\ queue' \in Seq(Clients) /\ IsInjective(queue')
      /\ client \in ToSet(queue)
      /\ ToSet(queue') = ToSet(queue) \ {client}
      /\ loaded' = [c \in Clients |-> None]
  BY Left
<1>2. DoneHasResult'
  BY <1>1 DEF DoneHasResult, TypeOK
<1>3. QueueTellsWhoWaits'
  BY <1>1, ClientsDiffer DEF QueueTellsWhoWaits
<1>4. LoadedIsCurrent' /\ UnopenedIsPending' /\ CallIsOpen'
  BY <1>1 DEF LoadedIsCurrent, UnopenedIsPending, CallIsOpen
<1>5. WorkersHaveDone'
  <2> SUFFICES ASSUME NEW w \in Workers, worker'[w] # "off" PROVE WorkerHasDone(w)'
    BY DEF WorkersHaveDone
  <2>1. worker[w] # "off"
    BY <1>1 DEF QueueTellsWhoWaits
  <2> QED
    BY <2>1 DEF WorkersHaveDone, WorkerHasDone
<1> QED
  BY <1>2, <1>3, <1>4, <1>5

-----------------------------------------------------------------------------
(* The steps of dispatchOne. *)

\* A worker goes on to wait for the mutex.
LEMMA Queues ==
  ASSUME RoundInv, NEW client \in Clients, client \notin ToSet(queue), queue' = Append(queue, client)
  PROVE  /\ queue' \in Seq(Clients) /\ IsInjective(queue')
         /\ ToSet(queue') = ToSet(queue) \cup {client}
         /\ queue' # << >>
         /\ queue # << >> => Head(queue') = Head(queue)
  BY Enqueued DEF RoundInv, DoneHasResult, TypeOK

LEMMA FailsKeeps ==
  ASSUME RoundInv, NEW w \in Workers, Fails(w)
  PROVE  RoundInv'
<1> USE DEF RoundInv, manifest, waiting, caller, Fails
<1>1. /\ queue' \in Seq(Clients) /\ IsInjective(queue')
      /\ ToSet(queue') = ToSet(queue) \cup {w}
      /\ queue' # << >>
      /\ queue # << >> => Head(queue') = Head(queue)
  BY Queues, ClientsDiffer DEF QueueTellsWhoWaits
<1>2. DoneHasResult'
  BY <1>1 DEF DoneHasResult, TypeOK
<1>3. QueueTellsWhoWaits'
  BY <1>1, ClientsDiffer DEF QueueTellsWhoWaits, DoneHasResult, TypeOK
<1>4. LoadedIsCurrent' /\ UnopenedIsPending' /\ CallIsOpen'
  BY DEF LoadedIsCurrent, UnopenedIsPending, CallIsOpen
<1>5. WorkersHaveDone'
  BY DEF WorkersHaveDone, WorkerHasDone, DoneHasResult, TypeOK
<1> QED
  BY <1>2, <1>3, <1>4, <1>5

LEMMA AnswersKeeps ==
  ASSUME RoundInv, NEW w \in Workers, Answers(w)
  PROVE  RoundInv'
<1> USE DEF RoundInv, manifest, waiting, caller, Answers
<1>1. DoneHasResult'
  BY DEF DoneHasResult, TypeOK
<1>2. QueueTellsWhoWaits'
  BY DEF QueueTellsWhoWaits, DoneHasResult, TypeOK
<1>3. LoadedIsCurrent' /\ UnopenedIsPending' /\ CallIsOpen'
  BY DEF LoadedIsCurrent, UnopenedIsPending, CallIsOpen
<1>4. WorkersHaveDone'
  BY DEF WorkersHaveDone, WorkerHasDone, DoneHasResult, TypeOK
<1> QED
  BY <1>1, <1>2, <1>3, <1>4

LEMMA PutResultKeeps ==
  ASSUME RoundInv, NEW w \in Workers, PutResult(w)
  PROVE  RoundInv'
<1> USE DEF RoundInv, manifest, waiting, caller, PutResult
<1>1. /\ queue' \in Seq(Clients) /\ IsInjective(queue')
      /\ ToSet(queue') = ToSet(queue) \cup {w}
      /\ queue' # << >>
      /\ queue # << >> => Head(queue') = Head(queue)
  BY Queues, ClientsDiffer DEF QueueTellsWhoWaits
<1>2. DoneHasResult'
  BY <1>1, ClientsDiffer DEF DoneHasResult, TypeOK
<1>3. QueueTellsWhoWaits'
  BY <1>1, ClientsDiffer DEF QueueTellsWhoWaits, DoneHasResult, TypeOK
<1>4. LoadedIsCurrent' /\ UnopenedIsPending' /\ CallIsOpen'
  BY DEF LoadedIsCurrent, UnopenedIsPending, CallIsOpen
<1>5. WorkersHaveDone'
  BY DEF WorkersHaveDone, WorkerHasDone, DoneHasResult, TypeOK
<1> QED
  BY <1>2, <1>3, <1>4, <1>5

LEMMA AppendEventKeeps ==
  ASSUME RoundInv, NEW w \in Workers, AppendEvent(w)
  PROVE  RoundInv'
<1> USE DEF RoundInv, manifest, waiting, caller, AppendEvent
<1>1. events \in SUBSET Keys /\ events' = events \cup {w[2]} /\ w[2] \in Keys
  BY ClientsDiffer DEF WorkersHaveDone, WorkerHasDone
<1>2. DoneHasResult'
  BY <1>1 DEF DoneHasResult, TypeOK
<1>3. QueueTellsWhoWaits'
  BY DEF QueueTellsWhoWaits, DoneHasResult, TypeOK
<1>4. LoadedIsCurrent' /\ UnopenedIsPending' /\ CallIsOpen'
  BY <1>1 DEF LoadedIsCurrent, UnopenedIsPending, CallIsOpen
<1>5. WorkersHaveDone'
  BY <1>1 DEF WorkersHaveDone, WorkerHasDone, DoneHasResult, TypeOK
<1> QED
  BY <1>2, <1>3, <1>4, <1>5

LEMMA StoreFailsKeeps ==
  ASSUME RoundInv, NEW w \in Workers, StoreFails(w)
  PROVE  RoundInv'
<1> USE DEF RoundInv, manifest, waiting, caller, StoreFails
<1>1. DoneHasResult'
  BY DEF DoneHasResult, TypeOK
<1>2. QueueTellsWhoWaits'
  BY DEF QueueTellsWhoWaits, DoneHasResult, TypeOK
<1>3. LoadedIsCurrent' /\ UnopenedIsPending' /\ CallIsOpen'
  BY DEF LoadedIsCurrent, UnopenedIsPending, CallIsOpen
<1>4. WorkersHaveDone'
  BY DEF WorkersHaveDone, WorkerHasDone, DoneHasResult, TypeOK
<1> QED
  BY <1>1, <1>2, <1>3, <1>4

-----------------------------------------------------------------------------
(* The end of a call, the wait, and a death. *)

LEMMA ReportKeeps ==
  ASSUME RoundInv, Report \/ Reject
  PROVE  RoundInv'
<1> USE DEF RoundInv, manifest, waiting, Report, Reject
<1>1. DoneHasResult' /\ LoadedIsCurrent' /\ UnopenedIsPending'
  BY DEF DoneHasResult, TypeOK, LoadedIsCurrent, UnopenedIsPending
<1>2. QueueTellsWhoWaits' /\ CallIsOpen'
  BY DEF QueueTellsWhoWaits, CallIsOpen
<1>3. WorkersHaveDone'
  BY DEF WorkersHaveDone, WorkerHasDone
<1> QED
  BY <1>1, <1>2, <1>3

LEMMA WaitKeeps ==
  ASSUME RoundInv, StartWait \/ DeadlinePasses
  PROVE  RoundInv'
<1> USE DEF RoundInv, manifest, caller, StartWait, DeadlinePasses
<1>1. DoneHasResult' /\ LoadedIsCurrent' /\ UnopenedIsPending'
  BY DEF DoneHasResult, TypeOK, LoadedIsCurrent, UnopenedIsPending
<1>2. QueueTellsWhoWaits' /\ CallIsOpen'
  BY DEF QueueTellsWhoWaits, CallIsOpen
<1>3. WorkersHaveDone'
  BY DEF WorkersHaveDone, WorkerHasDone
<1> QED
  BY <1>1, <1>2, <1>3

LEMMA PollKeeps ==
  ASSUME RoundInv, Poll
  PROVE  RoundInv'
<1> USE DEF RoundInv, manifest, caller, Poll
<1>1. \/ queue' = queue /\ waiter' \in {"returned", "threw"}
      \/ /\ waiter' = "settle"
         /\ queue' \in Seq(Clients) /\ IsInjective(queue')
         /\ ToSet(queue') = ToSet(queue) \cup {Waiter}
         /\ queue' # << >>
         /\ queue # << >> => Head(queue') = Head(queue)
  BY Queues, ClientsDiffer DEF QueueTellsWhoWaits
<1>2. DoneHasResult'
  BY <1>1 DEF DoneHasResult, TypeOK
<1>3. QueueTellsWhoWaits'
  BY <1>1, ClientsDiffer DEF QueueTellsWhoWaits
<1>4. LoadedIsCurrent' /\ UnopenedIsPending' /\ CallIsOpen'
  BY DEF LoadedIsCurrent, UnopenedIsPending, CallIsOpen
<1>5. WorkersHaveDone'
  BY DEF WorkersHaveDone, WorkerHasDone
<1> QED
  BY <1>2, <1>3, <1>4, <1>5

LEMMA CrashKeeps ==
  ASSUME RoundInv, Crash
  PROVE  RoundInv'
<1> USE DEF RoundInv, manifest, Crash
<1>1. queue' \in Seq(Clients) /\ IsInjective(queue') /\ ToSet(queue') = {}
  BY DEF IsInjective, ToSet
<1>2. DoneHasResult'
  BY <1>1 DEF DoneHasResult, TypeOK
<1>3. QueueTellsWhoWaits'
  BY <1>1 DEF QueueTellsWhoWaits
<1>4. LoadedIsCurrent' /\ UnopenedIsPending' /\ CallIsOpen'
  BY DEF LoadedIsCurrent, UnopenedIsPending, CallIsOpen
<1>5. WorkersHaveDone'
  BY DEF WorkersHaveDone
<1> QED
  BY <1>2, <1>3, <1>4, <1>5

LEMMA StutterKeeps ==
  ASSUME RoundInv, UNCHANGED vars
  PROVE  RoundInv'
  BY DEF RoundInv, vars, manifest, caller, waiting, DoneHasResult, TypeOK, QueueTellsWhoWaits,
         LoadedIsCurrent, UnopenedIsPending, CallIsOpen, WorkersHaveDone, WorkerHasDone

LEMMA StepKeeps == RoundInv /\ [Next]_vars => RoundInv'
<1> SUFFICES ASSUME RoundInv, [Next]_vars PROVE RoundInv'
  OBVIOUS
<1>1. CASE \E list \in TaskLists : Begin(list)
  BY <1>1, BeginKeeps
<1>2. CASE CreateRun
  BY <1>2, CreateRunKeeps
<1>3. CASE \E client \in Clients : Load(client) \/ SectionThrows(client)
  BY <1>3, LoadKeeps, SectionThrowsKeeps
<1>4. CASE OpenSection \/ OpenRefused \/ SettleSection
  BY <1>4, OpenSectionKeeps, OpenRefusedKeeps, SettleSectionKeeps
<1>5. CASE \E w \in Workers : MarkSection(w)
  BY <1>5, MarkSectionKeeps
<1>6. CASE Report \/ Reject
  BY <1>6, ReportKeeps
<1>7. CASE \E w \in Workers :
             Fails(w) \/ Answers(w) \/ PutResult(w) \/ AppendEvent(w) \/ StoreFails(w)
  BY <1>7, FailsKeeps, AnswersKeeps, PutResultKeeps, AppendEventKeeps, StoreFailsKeeps
<1>8. CASE StartWait \/ DeadlinePasses
  BY <1>8, WaitKeeps
<1>9. CASE Poll
  BY <1>9, PollKeeps
<1>10. CASE Crash
  BY <1>10, CrashKeeps
<1>11. CASE UNCHANGED vars
  BY <1>11, StutterKeeps
<1> QED
  BY <1>1, <1>2, <1>3, <1>4, <1>5, <1>6, <1>7, <1>8, <1>9, <1>10, <1>11 DEF Next, Section

THEOREM RoundInvCorrect == Spec => []RoundInv
<1>1. Init => RoundInv
  BY InitEstablishes
<1>2. RoundInv /\ [Next]_vars => RoundInv'
  BY StepKeeps
<1> QED
  BY <1>1, <1>2, PTL DEF Spec

\* Whatever dies or fails and however often the round is dispatched again, a key that the
\* manifest calls done has a result in the store (PutResult before MarkSection), and one
\* client at a time is in a section of the mutex.
THEOREM DoneHasResultAlways == Spec => []DoneHasResult
<1>1. RoundInv => DoneHasResult
  BY DEF RoundInv
<1> QED
  BY <1>1, RoundInvCorrect, PTL

-----------------------------------------------------------------------------
(***************************************************************************)
(* What the returns say.                                                   *)
(***************************************************************************)

\* A call that reports has opened the round its caller asked for, and each of its workers
\* has marked its key and told the run of it.
LEMMA ReportIsJoined ==
  ASSUME RoundInv, Report
  PROVE  isComplete(tasks, states') /\ KeysOf(tasks) \subseteq events'
<1>1. call \in 1..MaxCalls /\ tasks \in TaskLists /\ KeysOf(tasks) \in SUBSET Keys
  BY KeysOfList DEF Report, RoundInv, CallIsOpen
<1>2. ASSUME NEW k \in KeysOf(tasks)
      PROVE  states[k] # "pending" /\ k \in events
  <2>1. <<call, k>> \in Workers /\ worker[<<call, k>>] = "finished"
    BY <1>1, <1>2 DEF Report, Joined, Workers
  <2> QED
    BY <2>1 DEF RoundInv, WorkersHaveDone, WorkerHasDone
<1> QED
  BY <1>2 DEF Report, manifest, isComplete, pendingKeys

\* What has expired is not pending.
LEMMA ExpiryCompletes ==
  ASSUME NEW list \in TaskLists, NEW st \in Manifests
  PROVE  isComplete(list, Expired(list, st))
  BY KeysOfList DEF isComplete, pendingKeys, Expired, Manifests

LEMMA WaitIsJoined ==
  ASSUME RoundInv, Next, waiter # "returned", waiter' = "returned"
  PROVE  expected' # None /\ isComplete(expected', states')
<1>1. CASE SettleSection
  <2>1. loaded[Waiter] = <<expected, states>> /\ expected # None
    BY <1>1, ClientsDiffer DEF SettleSection, RoundInv, LoadedIsCurrent, manifest
  <2>2. expected \in TaskLists /\ states \in Manifests
    BY <2>1 DEF RoundInv, DoneHasResult, TypeOK
  <2> QED
    BY <1>1, <2>1, <2>2, ExpiryCompletes DEF SettleSection
<1>2. CASE Poll
  BY <1>2 DEF Poll, IsOver, manifest
<1>3. CASE ~SettleSection /\ ~Poll
  BY <1>3 DEF Next, Section, Begin, CreateRun, Load, OpenSection, OpenRefused, MarkSection,
              SectionThrows, Throws, Report, Reject, Fails, Answers, PutResult, AppendEvent,
              StoreFails, StartWait, DeadlinePasses, Crash, waiting
<1> QED
  BY <1>1, <1>2, <1>3

\* Only Report reports.
LEMMA OnlyReportReports ==
  ASSUME Next, cpc # "reported", cpc' = "reported"
  PROVE  Report
  BY DEF Next, Section, Begin, CreateRun, Load, OpenSection, OpenRefused, MarkSection,
         SettleSection, SectionThrows, Throws, Reject, Fails, Answers, PutResult, AppendEvent,
         StoreFails, StartWait, DeadlinePasses, Poll, Crash, caller

\* N tasks dispatched, N terminal: what dispatchRound reports and waitForRound returns
\* leaves no expected key pending, and a reported call has told the run of each task.
THEOREM ReturnsAreJoinedAlways == Spec => ReturnsAreJoined
<1> DEFINE Joins ==
      /\ cpc # "reported" /\ cpc' = "reported" =>
           isComplete(tasks, states') /\ KeysOf(tasks) \subseteq events'
      /\ waiter # "returned" /\ waiter' = "returned" =>
           expected' # None /\ isComplete(expected', states')
<1>1. RoundInv /\ [Next]_vars => [Joins]_vars
  BY ReportIsJoined, WaitIsJoined, OnlyReportReports
<1> QED
  BY <1>1, RoundInvCorrect, PTL DEF Spec, ReturnsAreJoined

-----------------------------------------------------------------------------
(***************************************************************************)
(* The refinement: a section that saves is a step of the port, and nothing *)
(* else is.                                                                *)
(***************************************************************************)
LEMMA InitRefines == Init => BarrierPort!Init
  BY DEF Init, BarrierPort!Init

LEMMA OpenRefines ==
  ASSUME RoundInv, OpenSection
  PROVE  [BarrierPort!Next]_(BarrierPort!barrier)
<1>1. loaded[Opener] = <<expected, states>> /\ cpc = "open" /\ tasks \in TaskLists
  <2>1. Opener \in ToSet(queue) /\ loaded[Opener] = manifest
    BY LeavesTheHead, ClientsDiffer DEF OpenSection
  <2> QED
    BY <2>1 DEF RoundInv, QueueTellsWhoWaits, CallIsOpen, manifest
<1>2. CASE expected = None
  BY <1>1, <1>2, KeysOfList
     DEF OpenSection, RoundInv, UnopenedIsPending, manifest, BarrierPort!Next, BarrierPort!Open
<1>3. CASE expected # None
  BY <1>1, <1>3 DEF OpenSection, manifest, BarrierPort!barrier
<1> QED
  BY <1>2, <1>3

LEMMA MarkRefines ==
  ASSUME RoundInv, NEW w \in Workers, MarkSection(w)
  PROVE  BarrierPort!Next
<1> DEFINE state == IF worker[w] = "mark-done" THEN "done" ELSE "fail"
<1>1. loaded[w] = <<expected, states>> /\ w[2] \in Keys
  BY ClientsDiffer DEF MarkSection, RoundInv, LoadedIsCurrent, manifest
<1>2. expected # None
  BY DEF MarkSection, RoundInv, WorkersHaveDone, WorkerHasDone
<1>3. BarrierPort!Mark(w[2], state)
  BY <1>1, <1>2 DEF MarkSection, BarrierPort!Mark
<1> QED
  BY <1>1, <1>3 DEF BarrierPort!Next

LEMMA SettleRefines ==
  ASSUME RoundInv, SettleSection
  PROVE  BarrierPort!Next
<1>1. loaded[Waiter] = <<expected, states>> /\ expected # None
  BY ClientsDiffer DEF SettleSection, RoundInv, LoadedIsCurrent, manifest
<1>2. \A k : k \in KeysOf(expected) <=> \E i \in DOMAIN expected : expected[i] = k
  BY DEF KeysOf
<1>3. states' = [k \in Keys |->
                   IF states[k] = "pending" /\ \E i \in DOMAIN expected : expected[i] = k
                   THEN "timeout" ELSE states[k]]
  BY <1>1, <1>2 DEF SettleSection, Expired, pendingKeys
<1>4. BarrierPort!Settle
  BY <1>1, <1>3 DEF SettleSection, BarrierPort!Settle
<1> QED
  BY <1>4 DEF BarrierPort!Next

LEMMA StepRefines ==
  RoundInv /\ [Next]_vars => [BarrierPort!Next]_(BarrierPort!barrier)
<1> SUFFICES ASSUME RoundInv, [Next]_vars
             PROVE  [BarrierPort!Next]_(BarrierPort!barrier)
  OBVIOUS
<1>1. CASE OpenSection
  BY <1>1, OpenRefines
<1>2. CASE \E w \in Workers : MarkSection(w)
  BY <1>2, MarkRefines
<1>3. CASE SettleSection
  BY <1>3, SettleRefines
<1>4. CASE UNCHANGED manifest
  BY <1>4 DEF manifest, BarrierPort!barrier
<1>5. UNCHANGED vars => UNCHANGED manifest
  BY DEF vars, manifest
<1>6. Next => \/ OpenSection \/ (\E w \in Workers : MarkSection(w)) \/ SettleSection
              \/ UNCHANGED manifest
  BY DEF Next, Section, Begin, CreateRun, Load, OpenRefused, SectionThrows, Throws, Report,
         Reject, Fails, Answers, PutResult, AppendEvent, StoreFails, StartWait,
         DeadlinePasses, Poll, Crash
<1> QED
  BY <1>1, <1>2, <1>3, <1>4, <1>5, <1>6

\* However marks, opens and the expiry interleave at their awaits, with other calls, failing
\* sections and deaths, PersistentBarrier is the port's barrier, whose open, mark and settle
\* are one step each.
THEOREM Implements == Spec => ImplementsBarrier
<1>1. Init => BarrierPort!Init
  BY InitRefines
<1>2. RoundInv /\ [Next]_vars => [BarrierPort!Next]_(BarrierPort!barrier)
  BY StepRefines
<1> QED
  BY <1>1, <1>2, RoundInvCorrect, PTL DEF Spec, ImplementsBarrier, BarrierPort!Spec
=============================================================================
