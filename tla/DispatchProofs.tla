--------------------------- MODULE DispatchProofs ---------------------------
(***************************************************************************)
(* Proofs about Dispatch, for any dispatches, clerks, task types and       *)
(* agents, any command lines and any number of commands next to them.      *)
(***************************************************************************)
EXTENDS Dispatch, FiniteSetTheorems, TLAPS

-----------------------------------------------------------------------------
(***************************************************************************)
(* The TASK file and its lock.  What makes the replacing `task done` safe: *)
(* a client in its section made the lock file, so what it has read is what *)
(* the file still says.                                                    *)
(***************************************************************************)

Holding == {"read", "write", "leave-ok", "leave-threw"}

Calls == [step : {"off", "wait", "ok", "threw"} \cup Holding,
          line : {None} \cup Lines, seen : {None} \cup TaskFiles]

TaskInv ==
  /\ taskFile \in {None} \cup TaskFiles
  /\ lock \in {None} \cup Clients
  /\ orders \in Nat
  /\ call \in [Clients -> Calls]
  /\ \A c \in Clients :
       /\ call[c].step \in Holding => lock = c
       /\ call[c].step = "write" => taskFile # None /\ call[c].seen = taskFile
       /\ call[c].step # "off" => call[c].line \in Lines /\ call[c].line.by = c

\* What the commands do to their calls: they begin one, deal with its end, or die.
Begins(c) == \E line \in Lines : line.by = c /\ call' = Begun(c, line)
Drops(c) == call' = [call EXCEPT ![c] = Off]

LEMMA BeginKeeps ==
  ASSUME TaskInv, NEW c \in Clients, Begins(c) \/ Drops(c), UNCHANGED <<taskFile, lock>>,
         orders' \in Nat
  PROVE  TaskInv'
<1>1. CASE Drops(c)
  <2>1. Off \in Calls /\ Off.step = "off"
    BY DEF Off, Calls
  <2> QED
    BY <1>1, <2>1 DEF Drops, TaskInv, Holding
<1>2. CASE Begins(c)
  <2>1. PICK line \in Lines : line.by = c /\ call' = Begun(c, line)
    BY <1>2 DEF Begins
  <2> DEFINE fresh == [step |-> "wait", line |-> line, seen |-> None]
  <2>2. fresh \in Calls /\ fresh.step = "wait" /\ fresh.line = line
    BY DEF Calls
  <2>3. call' = [call EXCEPT ![c] = fresh]
    BY <2>1 DEF Begun
  <2> HIDE DEF fresh
  <2> QED
    BY <2>1, <2>2, <2>3 DEF TaskInv, Holding
<1> QED
  BY <1>1, <1>2

\* What a successful write leaves: the line at the end of the log, or the log as it was.
LEMMA WrittenFile ==
  ASSUME TaskInv, NEW c \in Clients, call[c].step = "write"
  PROVE  /\ taskFile \in TaskFiles /\ Written(c) \in TaskFiles
         /\ call[c].line = Done => Written(c) = [taskFile EXCEPT !.status = "DONE"]
         /\ call[c].line # Done =>
              Written(c) = [taskFile EXCEPT !.log = Append(taskFile.log, call[c].line)]
<1>1. taskFile \in TaskFiles /\ call[c].seen = taskFile /\ call[c].line \in Lines
  BY DEF TaskInv
<1>2. CASE call[c].line = Done
  <2>1. Written(c) = [taskFile EXCEPT !.status = "DONE"]
    BY <1>1, <1>2 DEF Written
  <2> QED
    BY <1>1, <1>2, <2>1 DEF TaskFiles
<1>3. CASE call[c].line # Done
  <2>1. Written(c) = [taskFile EXCEPT !.log = Append(taskFile.log, call[c].line)]
    BY <1>1, <1>3 DEF Written, TaskFiles
  <2>2. taskFile.log \in Seq(Lines)
    BY <1>1 DEF TaskFiles
  <2>3. Append(taskFile.log, call[c].line) \in Seq(Lines)
    BY <1>1, <2>2
  <2> QED
    BY <1>1, <1>3, <2>1, <2>3 DEF TaskFiles
<1> QED
  BY <1>2, <1>3

LEMMA CallMoves ==
  ASSUME NEW r \in Calls, NEW step \in {"off", "wait", "ok", "threw"} \cup Holding,
         NEW seen \in {None} \cup TaskFiles
  PROVE  LET moved == [r EXCEPT !.step = step, !.seen = seen]
         IN  moved \in Calls /\ moved.step = step /\ moved.seen = seen /\ moved.line = r.line
BY DEF Calls

LEMMA SectionKeeps ==
  ASSUME TaskInv, NEW c \in Clients, Section(c)
  PROVE  TaskInv'
<1>1. CASE Enter(c)
  BY <1>1, TaskAssumption DEF Enter, MayEnter, TaskInv, Calls, Holding
<1>2. CASE TimeOut(c)
  BY <1>2 DEF TimeOut, TaskInv, Calls, Holding
<1>3. CASE ReadTask(c)
  <2>1. CASE taskFile = None
    BY <1>3, <2>1 DEF ReadTask, TaskInv, Calls, Holding
  <2>2. CASE taskFile # None
    <3>1. call' = [call EXCEPT ![c] = [call[c] EXCEPT !.step = "write", !.seen = taskFile]]
      BY <1>3, <2>2 DEF ReadTask, TaskInv
    <3>2. taskFile \in TaskFiles /\ call[c].step = "read" /\ lock = c
      BY <1>3, <2>2 DEF ReadTask, TaskInv, Holding
    <3>3. UNCHANGED <<taskFile, lock, orders>>
      BY <1>3 DEF ReadTask
    <3> DEFINE writing == [call[c] EXCEPT !.step = "write", !.seen = taskFile]
    <3>4. /\ writing \in Calls /\ writing.step = "write" /\ writing.seen = taskFile
          /\ writing.line = call[c].line
      BY <3>2, CallMoves DEF TaskInv, Holding
    <3> HIDE DEF writing
    <3> QED
      BY <2>2, <3>1, <3>2, <3>3, <3>4 DEF TaskInv, writing
  <2> QED
    BY <2>1, <2>2
<1>4. CASE WriteTask(c)
  <2>1. lock = c /\ call[c].step = "write"
    BY <1>4 DEF WriteTask, TaskInv, Holding
  <2>2. \A b \in Clients \ {c} : call[b].step \notin Holding
    BY <2>1 DEF TaskInv
  <2>3. PICK step \in {"leave-ok", "leave-threw"} :
          /\ lock' = lock /\ orders' = orders
          /\ taskFile' \in {taskFile, Written(c)}
          /\ call' = [call EXCEPT ![c] = [call[c] EXCEPT !.step = step, !.seen = None]]
    BY <1>4 DEF WriteTask, TaskInv
  <2>4. taskFile' \in TaskFiles
    BY <2>1, <2>3, WrittenFile DEF TaskInv
  <2> DEFINE left == [call[c] EXCEPT !.step = step, !.seen = None]
  <2>5. left \in Calls /\ left.step = step /\ left.line = call[c].line
    <3>1. call[c] \in Calls
      BY DEF TaskInv
    <3>2. step \in {"off", "wait", "ok", "threw"} \cup Holding
      BY <2>3 DEF Holding
    <3> QED
      BY <3>1, <3>2 DEF Calls
  <2>6. call' = [call EXCEPT ![c] = left]
    BY <2>3
  <2> HIDE DEF left
  <2> QED
    BY <2>1, <2>2, <2>3, <2>4, <2>5, <2>6 DEF TaskInv, Holding
<1>5. CASE Leave(c)
  <2>1. \A b \in Clients \ {c} : call[b].step \notin Holding
    BY <1>5 DEF Leave, TaskInv, Holding
  <2>2. \E step \in {"ok", "threw"} : call' = [call EXCEPT ![c] = [@ EXCEPT !.step = step]]
    BY <1>5 DEF Leave
  <2> QED
    BY <1>5, <2>1, <2>2 DEF Leave, TaskInv, Calls, Holding
<1> QED
  BY <1>1, <1>2, <1>3, <1>4, <1>5 DEF Section

LEMMA TaskStepKeeps ==
  ASSUME TaskInv, TaskSteps
  PROVE  TaskInv'
<1>1. CASE NewTask
  <2>1. [status |-> "IN_PROGRESS", log |-> << >>] \in TaskFiles
    BY DEF TaskFiles
  <2>2. \A c \in Clients : call[c].step # "write"
    BY <1>1 DEF NewTask, TaskInv
  <2> QED
    BY <1>1, <2>1, <2>2 DEF NewTask, TaskInv
<1>2. ASSUME NEW what \in {"note", "done"}, TaskCommand(what)
      PROVE  TaskInv'
  <2>1. Line(TaskClient, what, 0) \in Lines /\ Line(TaskClient, what, 0).by = TaskClient
    BY TaskAssumption DEF Line, Lines
  <2>2. orders' \in Nat
    BY <1>2 DEF TaskCommand, TaskInv
  <2> QED
    BY <1>2, <2>1, <2>2, BeginKeeps, TaskAssumption DEF TaskCommand, Begins
<1>3. CASE TaskCommandEnds \/ TaskCommandDies
  BY <1>3, BeginKeeps, TaskAssumption
     DEF TaskCommandEnds, TaskCommandDies, Die, Drops, TaskInv
<1> QED
  BY <1>1, <1>2, <1>3 DEF TaskSteps

\* Only a write touches the file, and what it is about to write it has not written yet.
Underway(c) == call[c].step \in {"wait", "read", "write"}

LEMMA SectionMoves ==
  ASSUME TaskInv, NEW c \in Clients, Section(c)
  PROVE  /\ \A b \in Clients \ {c} : call'[b] = call[b]
         /\ call'[c].line = call[c].line
         /\ call[c].step \notin {"off", "ok", "threw"} /\ call'[c].step # "off"
         /\ Underway(c)' => Underway(c)
         /\ \/ taskFile' = taskFile
            \/ call[c].step = "write" /\ ~Underway(c)' /\ taskFile' = Written(c)
<1>1. CASE Enter(c)
  BY <1>1 DEF Enter, MayEnter, TaskInv, Calls, Holding, Underway
<1>2. CASE TimeOut(c)
  BY <1>2 DEF TimeOut, TaskInv, Calls, Holding, Underway
<1>3. CASE ReadTask(c)
  <2>1. CASE taskFile = None
    BY <1>3, <2>1 DEF ReadTask, TaskInv, Calls, Holding, Underway
  <2>2. CASE taskFile # None
    BY <1>3, <2>2 DEF ReadTask, TaskInv, Calls, Holding, Underway
  <2> QED
    BY <2>1, <2>2
<1>4. CASE WriteTask(c)
  <2>1. call[c] \in Calls /\ call[c].step = "write"
    BY <1>4 DEF WriteTask, TaskInv
  <2>2. PICK step \in {"leave-ok", "leave-threw"} :
          /\ taskFile' \in {taskFile, Written(c)}
          /\ call' = [call EXCEPT ![c] = [call[c] EXCEPT !.step = step, !.seen = None]]
    BY <1>4 DEF WriteTask, TaskInv
  <2> DEFINE left == [call[c] EXCEPT !.step = step, !.seen = None]
  <2>3. left.step = step /\ left.line = call[c].line
    BY <2>1 DEF Calls
  <2>4. call' = [call EXCEPT ![c] = left]
    BY <2>2
  <2> HIDE DEF left
  <2> QED
    BY <2>1, <2>2, <2>3, <2>4 DEF TaskInv, Underway
<1>5. CASE Leave(c)
  BY <1>5 DEF Leave, TaskInv, Calls, Holding, Underway
<1> QED
  BY <1>1, <1>2, <1>3, <1>4, <1>5 DEF Section

-----------------------------------------------------------------------------
(***************************************************************************)
(* One dispatch: what it has said so far, and what it is saying.           *)
(***************************************************************************)

ExitCodes == {0, 1, 2, 124}
Kinds == {"none", "nonzero-exit", "unavailable", "empty-output", "artifact-write-failed",
          "certificate-write-failed"}
Artifacts == {None, "text", "blank"}
Certificates == {None, 0, 1, 124}

RunStates ==
  [pc : Steps, rc : ExitCodes, kind : Kinds, artifact : Artifacts, certificate : Certificates,
   incident : BOOLEAN, seen : {None} \cup Seq(Rows)]

RunTypes == request \in [Dispatches -> Requests] /\ run \in [Dispatches -> RunStates]

Closes == {"ok", "failed"}
Early == {"new", "blocked", "guarded"}
Open == Early \cup {"starting", "asked", "answered", "certified"}

\* The line that a dispatch is writing, if any, is the one of its step.
Speaks(d) ==
  /\ ~request[d].task => call[d].step = "off"
  /\ run[d].pc \in {"new", "threw", "dead"} => call[d].step = "off"
  /\ run[d].pc \in {"blocked", "guarded"} => call[d].step = "off" \/ call[d].line.what = "guard"
  /\ run[d].pc = "starting" => call[d].step = "off" \/ call[d].line.what = "started"
  /\ run[d].pc \in {"asked", "answered", "certified", "row", "returned"} => Over(d)
  /\ run[d].pc = "closing" =>
       call[d].step = "off" \/
         /\ call[d].line.what = IF run[d].rc = 0 THEN "ok" ELSE "failed"
         /\ call[d].line.rc = run[d].rc
  /\ run[d].pc = "ledger" => Over(d) \/ call[d].line.what = "incident"

\* It starts once, closes once, and says neither before its time.
Said(d) ==
  /\ run[d].pc \in Early \/ (run[d].pc = "starting" /\ Underway(d)) =>
       LinesOf(d, {"started"}) = {}
  /\ run[d].pc \in Open \/ (run[d].pc = "closing" /\ Underway(d)) => LinesOf(d, Closes) = {}
  /\ run[d].pc \in Open \cup {"closing"} => LinesOf(d, {"incident"}) = {}
  /\ \A i, j \in LinesOf(d, {"started"}) : i = j
  /\ \A i, j \in LinesOf(d, Closes) : i = j
  /\ \A i \in LinesOf(d, {"started"}), j \in LinesOf(d, Closes) \cup LinesOf(d, {"incident"}) : i < j
  /\ \A j \in LinesOf(d, Closes) :
       taskFile.log[j].rc = run[d].rc /\ (taskFile.log[j].what = "ok" <=> run[d].rc = 0)

\* What is in its files goes with its exit code.
Filed(d) ==
  /\ run[d].rc = 0 /\ request[d].out => run[d].artifact # None
  /\ run[d].artifact # None => run[d].rc = 0 \/ run[d].kind = "certificate-write-failed"
  /\ run[d].artifact = "blank" => ~request[d].requireOutput

Agrees(d) ==
  /\ Filed(d)
  /\ run[d].rc = 0 /\ request[d].certificate => run[d].certificate = 0
  /\ run[d].certificate # None => run[d].certificate = run[d].rc

Holds(d) ==
  /\ run[d].rc = 2 => run[d].pc = "returned"
  /\ run[d].pc \in Early \cup {"starting", "asked", "answered"} => run[d].certificate = None
  /\ run[d].pc \in Early \cup {"starting", "asked"} => run[d].rc = 0
  /\ run[d].pc = "row" => request[d].type # None
  /\ run[d].pc = "answered" => Filed(d)
  /\ run[d].pc \in {"certified", "closing", "ledger", "row"} \/ LinesOf(d, Closes) # {} => Agrees(d)

Story(d) == Speaks(d) /\ Said(d) /\ Holds(d)

StoryInv == RunTypes /\ TaskInv /\ \A d \in Dispatches : Story(d)

\* Nothing of a dispatch changes while it, its call and the TASK file stay.
LEMMA StoryFrame ==
  ASSUME NEW d \in Dispatches, Story(d), run'[d] = run[d], call'[d] = call[d],
         request' = request, UNCHANGED taskFile
  PROVE  Story(d)'
BY DEF Story, Speaks, Said, Holds, Agrees, Filed, Underway, Over, LinesOf

\* appendTaskLine begins a call, if there is a TASK file.
LEMMA TellsWhat ==
  ASSUME TaskInv, NEW d \in Dispatches, NEW rc \in {0, 1, 2, 124},
         NEW what \in {"started", "guard", "ok", "failed", "incident"}, Tells(d, what, rc)
  PROVE  \/ ~request[d].task /\ call' = call
         \/ /\ request[d].task /\ Begins(d)
            /\ call'[d].step = "wait" /\ call'[d].line.what = what /\ call'[d].line.rc = rc
            /\ \A e \in Clients \ {d} : call'[e] = call[e]
<1>1. d \in Clients /\ Line(d, what, rc) \in Lines /\ Line(d, what, rc).by = d
      /\ Line(d, what, rc).what = what /\ Line(d, what, rc).rc = rc
  BY DispatchAssumption DEF Line, Lines
<1>2. CASE request[d].task
  <2> HIDE DEF Line
  <2>1. call' = Begun(d, Line(d, what, rc))
    BY <1>2 DEF Tells
  <2> QED
    BY <1>1, <1>2, <2>1 DEF Begins, Begun, TaskInv
<1> QED
  BY <1>2 DEF Tells

(***************************************************************************)
(* The steps of a dispatch, one by one.  To the other clients they are     *)
(* nothing, and to the TASK file only through its call.                    *)
(***************************************************************************)

Moved(d) ==
  /\ NoTask /\ request' = request
  /\ run'[d] \in RunStates
  /\ run' = [run EXCEPT ![d] = run'[d]]
  /\ \A e \in Clients \ {d} : call'[e] = call[e]
  /\ call' = call \/ Begins(d) \/ Drops(d)
  /\ Story(d)'

\* What is said of a dispatch is said of the file, which its own steps leave.
LEMMA SaidStays ==
  ASSUME NoTask
  PROVE  \A d, whats : LinesOf(d, whats)' = LinesOf(d, whats)
BY DEF NoTask, LinesOf

LEMMA GoesMoves ==
  ASSUME StoryInv, NEW d \in Dispatches, NEW pc \in Steps, GoesTo(d, pc)
  PROVE  /\ request' = request
         /\ run' = [run EXCEPT ![d] = run'[d]] /\ run'[d] \in RunStates
         /\ run'[d].pc = pc /\ run'[d].rc = run[d].rc
         /\ run'[d].artifact = run[d].artifact /\ run'[d].certificate = run[d].certificate
         /\ run'[d].kind = run[d].kind
         /\ run'[d].seen = run[d].seen
<1>1. run \in [Dispatches -> RunStates] /\ run[d] \in RunStates
  BY DEF StoryInv, RunTypes
<1>2. run' = [run EXCEPT ![d] = [run[d] EXCEPT !.pc = pc]] /\ request' = request
  BY DEF GoesTo, Goes
<1>3. [run[d] EXCEPT !.pc = pc] \in RunStates
  BY <1>1 DEF RunStates
<1> QED
  BY <1>1, <1>2, <1>3 DEF RunStates

LEMMA GuardMoves ==
  ASSUME StoryInv, NEW d \in Dispatches, Guard(d)
  PROVE  Moved(d)
<1>1. TaskInv /\ Story(d) /\ run[d] \in RunStates
  BY DEF StoryInv, RunTypes
<1>2. PICK pc \in {"blocked", "guarded"} : GoesTo(d, pc)
  BY DEF Guard
<1>3. /\ run[d].pc = "new" /\ call[d].step = "off" /\ run[d].rc = 0 /\ NoTask
  BY <1>1 DEF Guard, At, Story, Speaks, Holds, Early
<1>4. /\ run'[d].pc = pc /\ run'[d].rc = run[d].rc /\ run' = [run EXCEPT ![d] = run'[d]]
      /\ run'[d].certificate = run[d].certificate /\ run'[d] \in RunStates
      /\ run'[d].artifact = run[d].artifact /\ run'[d].kind = run[d].kind /\ request' = request
  BY <1>2, GoesMoves DEF Steps
<1>5. \/ call' = call
      \/ /\ request[d].task /\ Begins(d)
         /\ call'[d].step = "wait" /\ call'[d].line.what = "guard"
         /\ \A e \in Clients \ {d} : call'[e] = call[e]
  BY <1>1, TellsWhat DEF Guard
<1>6. Story(d)'
  BY <1>1, <1>2, <1>3, <1>4, <1>5, SaidStays DEF Story, Speaks, Said, Holds, Early, Open
<1> QED
  BY <1>3, <1>4, <1>5, <1>6 DEF Moved

\* Goes(d, next), for a next state that is one.
LEMMA GoesTyped ==
  ASSUME StoryInv, NEW d \in Dispatches, NEW next \in RunStates, Goes(d, next)
  PROVE  request' = request /\ run' = [run EXCEPT ![d] = run'[d]] /\ run'[d] = next
BY DEF Goes, StoryInv, RunTypes

LEMMA RefuseMoves ==
  ASSUME StoryInv, NEW d \in Dispatches, Refuse(d) \/ Reject(d)
  PROVE  Moved(d)
<1>1. TaskInv /\ Story(d) /\ run[d] \in RunStates
  BY DEF StoryInv, RunTypes
<1> DEFINE next == [run[d] EXCEPT !.pc = "returned", !.rc = 2]
<1>2. /\ next \in RunStates /\ next.pc = "returned" /\ next.rc = 2
      /\ next.certificate = run[d].certificate /\ next.artifact = run[d].artifact /\ next.kind = run[d].kind
  BY <1>1 DEF RunStates, Steps, ExitCodes
<1>3. Goes(d, next) /\ NoTask /\ call' = call
  BY DEF Refuse, Reject
<1> HIDE DEF next
<1>4. request' = request /\ run' = [run EXCEPT ![d] = run'[d]] /\ run'[d] = next
  BY <1>2, <1>3, GoesTyped
<1>5. run[d].pc \in Early /\ Over(d)
  BY <1>1 DEF Refuse, Reject, At, Told, Story, Speaks, Early, Over
<1>6. Story(d)'
  BY <1>1, <1>2, <1>3, <1>4, <1>5, SaidStays DEF Story, Speaks, Said, Holds, Early, Open, Over
<1> QED
  BY <1>2, <1>3, <1>4, <1>6 DEF Moved

LEMMA StartMoves ==
  ASSUME StoryInv, NEW d \in Dispatches, Start(d)
  PROVE  Moved(d)
<1>1. TaskInv /\ Story(d) /\ run[d] \in RunStates
  BY DEF StoryInv, RunTypes
<1>2. /\ run[d].pc = "guarded" /\ run[d].rc = 0 /\ NoTask
  BY <1>1 DEF Start, At, Story, Holds, Early
<1>3. /\ run'[d].pc = "starting" /\ run'[d].rc = run[d].rc /\ run' = [run EXCEPT ![d] = run'[d]]
      /\ run'[d].certificate = run[d].certificate /\ run'[d] \in RunStates
      /\ run'[d].artifact = run[d].artifact /\ run'[d].kind = run[d].kind /\ request' = request
  BY GoesMoves DEF Start, Steps
<1>4. \/ ~request[d].task /\ call' = call
      \/ /\ request[d].task /\ Begins(d)
         /\ call'[d].step = "wait" /\ call'[d].line.what = "started"
         /\ \A e \in Clients \ {d} : call'[e] = call[e]
  BY <1>1, TellsWhat DEF Start
<1>5. Story(d)'
  BY <1>1, <1>2, <1>3, <1>4, SaidStays DEF Story, Speaks, Said, Holds, Early, Open
<1> QED
  BY <1>2, <1>3, <1>4, <1>5 DEF Moved

LEMMA AskMoves ==
  ASSUME StoryInv, NEW d \in Dispatches, Ask(d)
  PROVE  Moved(d)
<1>1. TaskInv /\ Story(d) /\ run[d] \in RunStates
  BY DEF StoryInv, RunTypes
<1>2. /\ run[d].pc = "starting" /\ run[d].rc = 0 /\ NoTask /\ call' = call /\ Over(d)
  BY <1>1 DEF Ask, At, Story, Holds, Early, Told
<1>3. /\ run'[d].pc = "asked" /\ run'[d].rc = run[d].rc /\ run' = [run EXCEPT ![d] = run'[d]]
      /\ run'[d].certificate = run[d].certificate /\ run'[d] \in RunStates
      /\ run'[d].artifact = run[d].artifact /\ run'[d].kind = run[d].kind /\ request' = request
  BY GoesMoves DEF Ask, Steps
<1>4. Story(d)'
  BY <1>1, <1>2, <1>3, SaidStays DEF Story, Speaks, Said, Holds, Early, Open, Over
<1> QED
  BY <1>2, <1>3, <1>4 DEF Moved

\* What the command makes of an answer: the artifact goes with the exit code.
LEMMA JudgedAgrees ==
  ASSUME RunTypes, NEW d \in Dispatches, NEW answer \in Answers, NEW written \in BOOLEAN
  PROVE  LET x == Judged(d, answer, written)
         IN  /\ x.rc \in {0, 1, 124} /\ x.artifact \in {None, "text", "blank"}
             /\ x.kind \in {"none", "nonzero-exit", "unavailable", "empty-output",
                            "artifact-write-failed"}
             /\ x.rc = 0 /\ request[d].out => x.artifact # None
             /\ (x.artifact # None => x.rc = 0)
             /\ x.artifact = "blank" => ~request[d].requireOutput
<1>1. /\ answer.rc \in {0, 1, 124} /\ answer.output \in {None, "text", "blank"}
      /\ answer.kind \in {"none", "nonzero-exit", "unavailable"}
      /\ IF answer.ok THEN answer.output # None ELSE answer.rc # 0
  BY DispatchAssumption DEF Answers
<1> QED
  BY <1>1, DispatchAssumption DEF Judged

LEMMA AnswerMoves ==
  ASSUME StoryInv, NEW d \in Dispatches, Answer(d)
  PROVE  Moved(d)
<1>1. TaskInv /\ Story(d) /\ run[d] \in RunStates /\ RunTypes
  BY DEF StoryInv, RunTypes
<1>2. PICK answer \in Answers, written \in BOOLEAN :
        Goes(d, [run[d] EXCEPT !.pc = "answered", !.rc = Judged(d, answer, written).rc,
                               !.kind = Judged(d, answer, written).kind,
                               !.artifact = Judged(d, answer, written).artifact])
  BY DEF Answer
<1> DEFINE x == Judged(d, answer, written)
           next == [run[d] EXCEPT !.pc = "answered", !.rc = x.rc, !.kind = x.kind,
                                  !.artifact = x.artifact]
<1>3. /\ x.rc \in {0, 1, 124} /\ x.artifact \in {None, "text", "blank"}
      /\ x.kind \in {"none", "nonzero-exit", "unavailable", "empty-output",
                     "artifact-write-failed"}
      /\ x.rc = 0 /\ request[d].out => x.artifact # None
      /\ (x.artifact # None => x.rc = 0)
      /\ x.artifact = "blank" => ~request[d].requireOutput
  BY <1>1, JudgedAgrees
<1>4. Goes(d, next)
  BY <1>2
<1> HIDE DEF x
<1>5. /\ next \in RunStates /\ next.pc = "answered" /\ next.rc = x.rc
      /\ next.certificate = run[d].certificate /\ next.artifact = x.artifact /\ next.kind = x.kind
  <2>1. "answered" \in Steps /\ x.rc \in ExitCodes /\ x.kind \in Kinds /\ x.artifact \in Artifacts
    BY <1>3 DEF Steps, ExitCodes, Kinds, Artifacts
  <2> QED
    BY <1>1, <2>1 DEF RunStates
<1> HIDE DEF next
<1>6. request' = request /\ run' = [run EXCEPT ![d] = run'[d]] /\ run'[d] = next
  BY <1>4, <1>5, GoesTyped
<1>7. run[d].pc = "asked" /\ NoTask /\ call' = call
  BY DEF Answer, At
<1>8. Story(d)'
  BY <1>1, <1>3, <1>5, <1>6, <1>7, SaidStays
     DEF Story, Speaks, Said, Holds, Filed, Early, Open, Over
<1> QED
  BY <1>5, <1>6, <1>7, <1>8 DEF Moved

LEMMA CertifyMoves ==
  ASSUME StoryInv, NEW d \in Dispatches, Certify(d)
  PROVE  Moved(d)
<1>1. TaskInv /\ Story(d) /\ run[d] \in RunStates /\ request[d] \in Requests
  BY DEF StoryInv, RunTypes
<1>2. run[d].pc = "answered" /\ NoTask /\ call' = call /\ run[d].rc # 2
  BY <1>1 DEF Certify, At, Story, Holds
<1>3. PICK next \in RunStates :
        /\ Goes(d, next) /\ next.pc = "certified" /\ next.artifact = run[d].artifact
        /\ \/ /\ next.rc = run[d].rc /\ next.kind = run[d].kind
              /\ \/ ~request[d].certificate /\ next.certificate = None
                 \/ next.certificate = run[d].rc
           \/ next.rc = 1 /\ next.certificate = None /\ next.kind = "certificate-write-failed"
  <2>1. run[d].certificate = None /\ run[d].rc \in {0, 1, 124}
    BY <1>1, <1>2 DEF RunStates, ExitCodes, Story, Holds
  <2>2. CASE ~request[d].certificate /\ GoesTo(d, "certified")
    <3>1. Goes(d, [run[d] EXCEPT !.pc = "certified"])
      BY <2>2 DEF GoesTo
    <3>2. [run[d] EXCEPT !.pc = "certified"] \in RunStates
      BY <1>1 DEF RunStates, Steps
    <3> QED
      BY <1>1, <2>1, <2>2, <3>1, <3>2 DEF RunStates
  <2>3. CASE Goes(d, [run[d] EXCEPT !.pc = "certified", !.certificate = actionCertificate(d)])
    <3> DEFINE next == [run[d] EXCEPT !.pc = "certified", !.certificate = run[d].rc]
    <3>1. Goes(d, next)
      BY <2>3 DEF actionCertificate
    <3>2. "certified" \in Steps /\ run[d].rc \in Certificates
      BY <2>1 DEF Steps, Certificates
    <3>3. /\ next \in RunStates /\ next.pc = "certified" /\ next.rc = run[d].rc
          /\ next.certificate = run[d].rc /\ next.artifact = run[d].artifact /\ next.kind = run[d].kind
      BY <1>1, <3>2 DEF RunStates
    <3> QED
      BY <3>1, <3>3
  <2>4. CASE Goes(d, [run[d] EXCEPT !.pc = "certified", !.rc = 1,
                                    !.kind = "certificate-write-failed"])
    <3> DEFINE next == [run[d] EXCEPT !.pc = "certified", !.rc = 1,
                                      !.kind = "certificate-write-failed"]
    <3>1. "certified" \in Steps /\ 1 \in ExitCodes /\ "certificate-write-failed" \in Kinds
      BY DEF Steps, ExitCodes, Kinds
    <3>2. /\ next \in RunStates /\ next.pc = "certified" /\ next.rc = 1
          /\ next.certificate = run[d].certificate /\ next.artifact = run[d].artifact /\ next.kind = "certificate-write-failed"
      BY <1>1, <3>1 DEF RunStates
    <3> QED
      BY <2>1, <2>4, <3>2
  <2> QED
    BY <2>2, <2>3, <2>4 DEF Certify
<1>4. request' = request /\ run' = [run EXCEPT ![d] = run'[d]] /\ run'[d] = next
  BY <1>3, GoesTyped
<1>5. Story(d)'
  BY <1>1, <1>2, <1>3, <1>4, SaidStays
     DEF Story, Speaks, Said, Holds, Agrees, Filed, Early, Open, Over
<1> QED
  BY <1>2, <1>3, <1>4, <1>5 DEF Moved

LEMMA CloseMoves ==
  ASSUME StoryInv, NEW d \in Dispatches, Close(d)
  PROVE  Moved(d)
<1>1. TaskInv /\ Story(d) /\ run[d] \in RunStates
  BY DEF StoryInv, RunTypes
<1>2. run[d].pc = "certified" /\ NoTask /\ run[d].rc \in {0, 1, 2, 124}
  BY <1>1 DEF Close, At, RunStates, ExitCodes
<1>3. /\ run'[d].pc = "closing" /\ run'[d].rc = run[d].rc /\ run' = [run EXCEPT ![d] = run'[d]]
      /\ run'[d].certificate = run[d].certificate /\ run'[d] \in RunStates
      /\ run'[d].artifact = run[d].artifact /\ run'[d].kind = run[d].kind /\ request' = request
  BY GoesMoves DEF Close, Steps
<1>4. \/ ~request[d].task /\ call' = call
      \/ /\ request[d].task /\ Begins(d)
         /\ call'[d].step = "wait" /\ call'[d].line.rc = run[d].rc
         /\ call'[d].line.what = IF run[d].rc = 0 THEN "ok" ELSE "failed"
         /\ \A e \in Clients \ {d} : call'[e] = call[e]
  BY <1>1, <1>2, TellsWhat DEF Close
<1>5. Story(d)'
  BY <1>1, <1>2, <1>3, <1>4, SaidStays
     DEF Story, Speaks, Said, Holds, Agrees, Filed, Early, Open
<1> QED
  BY <1>2, <1>3, <1>4, <1>5 DEF Moved

LEMMA IncidentMoves ==
  ASSUME StoryInv, NEW d \in Dispatches, Incident(d)
  PROVE  Moved(d)
<1>1. TaskInv /\ Story(d) /\ run[d] \in RunStates
  BY DEF StoryInv, RunTypes
<1>2. run[d].pc = "closing" /\ Over(d) /\ NoTask /\ run[d].rc \in {0, 1, 2, 124}
  BY <1>1 DEF Incident, At, Told, RunStates, ExitCodes
<1>3. PICK written \in BOOLEAN :
        Goes(d, [run[d] EXCEPT !.pc = "ledger",
                               !.incident = written /\ run[d].rc # 0 /\ request[d].incident])
  BY DEF Incident
<1> DEFINE said == written /\ run[d].rc # 0 /\ request[d].incident
           next == [run[d] EXCEPT !.pc = "ledger", !.incident = said]
<1>4. said \in BOOLEAN /\ "ledger" \in Steps
  BY DEF Steps
<1>5. Goes(d, next)
  BY <1>3
<1> HIDE DEF said
<1>6. /\ next \in RunStates /\ next.pc = "ledger" /\ next.rc = run[d].rc
      /\ next.certificate = run[d].certificate /\ next.artifact = run[d].artifact /\ next.kind = run[d].kind
  BY <1>1, <1>4 DEF RunStates
<1> HIDE DEF next
<1>7. request' = request /\ run' = [run EXCEPT ![d] = run'[d]] /\ run'[d] = next
  BY <1>5, <1>6, GoesTyped
<1>8. \/ call' = call
      \/ /\ request[d].task /\ Begins(d)
         /\ call'[d].step = "wait" /\ call'[d].line.what = "incident"
         /\ \A e \in Clients \ {d} : call'[e] = call[e]
  BY <1>1, <1>2, TellsWhat DEF Incident
<1>9. Underway(d) => FALSE
  BY <1>2 DEF Over, Underway
<1>10. taskFile' = taskFile
  BY <1>2 DEF NoTask
<1>11. Story(d)'
  BY <1>1, <1>2, <1>6, <1>7, <1>8, <1>9, <1>10, SaidStays
     DEF Story, Speaks, Said, Holds, Agrees, Filed, Early, Open, Over
<1> QED
  BY <1>2, <1>6, <1>7, <1>8, <1>11 DEF Moved

LEMMA LedgerMoves ==
  ASSUME StoryInv, NEW d \in Dispatches, ReadLedger(d) \/ AddRow(d) \/ Return(d),
         ledger \in {None} \cup Seq(Rows)
  PROVE  Moved(d)
<1>1. TaskInv /\ Story(d) /\ run[d] \in RunStates
  BY DEF StoryInv, RunTypes
<1>2. /\ run[d].pc \in {"ledger", "row"} /\ Over(d) /\ NoTask /\ call' = call
      /\ taskFile' = taskFile
  BY <1>1 DEF ReadLedger, AddRow, Return, At, Told, NoTask, Story, Speaks
<1>3. PICK next \in RunStates :
        /\ Goes(d, next) /\ next.pc \in {"row", "returned"} /\ next.rc = run[d].rc
        /\ next.pc = "row" => request[d].type # None
        /\ next.certificate = run[d].certificate /\ next.artifact = run[d].artifact /\ next.kind = run[d].kind
  <2>1. CASE ReadLedger(d)
    <3> DEFINE next == [run[d] EXCEPT !.pc = "row", !.seen = ledger]
    <3>1. "row" \in Steps
      BY DEF Steps
    <3>2. /\ next \in RunStates /\ next.pc = "row" /\ next.rc = run[d].rc
          /\ next.certificate = run[d].certificate /\ next.artifact = run[d].artifact /\ next.kind = run[d].kind
      BY <1>1, <3>1 DEF RunStates
    <3>3. Goes(d, next) /\ request[d].type # None
      BY <2>1 DEF ReadLedger
    <3> HIDE DEF next
    <3> QED
      BY <3>2, <3>3
  <2>2. CASE AddRow(d) \/ Return(d)
    <3> DEFINE next == [run[d] EXCEPT !.pc = "returned"]
    <3>1. "returned" \in Steps
      BY DEF Steps
    <3>2. /\ next \in RunStates /\ next.pc = "returned" /\ next.rc = run[d].rc
          /\ next.certificate = run[d].certificate /\ next.artifact = run[d].artifact /\ next.kind = run[d].kind
      BY <1>1, <3>1 DEF RunStates
    <3>3. Goes(d, next)
      BY <2>2 DEF AddRow, Return, GoesTo
    <3> HIDE DEF next
    <3> QED
      BY <3>2, <3>3
  <2> QED
    BY <2>1, <2>2
<1>4. request' = request /\ run' = [run EXCEPT ![d] = run'[d]] /\ run'[d] = next
  BY <1>3, GoesTyped
<1>5. Story(d)'
  BY <1>1, <1>2, <1>3, <1>4, SaidStays
     DEF Story, Speaks, Said, Holds, Agrees, Filed, Early, Open, Over
<1> QED
  BY <1>2, <1>3, <1>4, <1>5 DEF Moved

\* A dispatch that throws or dies keeps what it has said, and its file and exit code.
LEMMA EndMoves ==
  ASSUME StoryInv, NEW d \in Dispatches, Throw(d) \/ DispatchDies(d)
  PROVE  Moved(d)
<1>1. TaskInv /\ Story(d) /\ run[d] \in RunStates /\ d \in Clients
  BY DispatchAssumption DEF StoryInv, RunTypes
<1>2. PICK pc \in {"threw", "dead"} : GoesTo(d, pc)
  BY DEF Throw, DispatchDies
<1>3. /\ run'[d].pc = pc /\ run'[d].rc = run[d].rc /\ run' = [run EXCEPT ![d] = run'[d]]
      /\ run'[d].certificate = run[d].certificate /\ run'[d] \in RunStates
      /\ run'[d].artifact = run[d].artifact /\ run'[d].kind = run[d].kind /\ request' = request
  BY <1>2, GoesMoves DEF Steps
<1>4. NoTask /\ Drops(d) /\ taskFile' = taskFile
  BY DEF Throw, DispatchDies, Die, Drops, NoTask
<1>5. call'[d].step = "off" /\ \A e \in Clients \ {d} : call'[e] = call[e]
  BY <1>1, <1>4 DEF Drops, Off, TaskInv
<1>6. run[d].pc # "returned"
  BY <1>1 DEF Throw, DispatchDies, Story, Speaks, Over, Threw
<1>7. Story(d)'
  BY <1>1, <1>2, <1>3, <1>4, <1>5, <1>6, SaidStays
     DEF Story, Speaks, Said, Holds, Agrees, Filed, Early, Open
<1> QED
  BY <1>3, <1>4, <1>5, <1>7 DEF Moved

LEMMA DispatchMoves ==
  ASSUME StoryInv, NEW d \in Dispatches, Runs(d) \/ Answer(d) \/ DispatchDies(d),
         ledger \in {None} \cup Seq(Rows)
  PROVE  Moved(d)
BY GuardMoves, RefuseMoves, StartMoves, AskMoves, AnswerMoves, CertifyMoves, CloseMoves,
   IncidentMoves, LedgerMoves, EndMoves DEF Runs

(***************************************************************************)
(* The steps of the locked sections: a line comes after all that are there.*)
(***************************************************************************)

\* A dispatch's write adds its line, and no line of another.
LEMMA LinesAfter ==
  ASSUME TaskInv, NEW c \in Clients, call[c].step = "write", taskFile' = Written(c),
         NEW d \in Dispatches
  PROVE  LET n == Len(taskFile.log) + 1
         IN  /\ \A whats : \A i \in LinesOf(d, whats) : i < n /\ taskFile'.log[i] = taskFile.log[i]
             /\ c # d => \A whats : LinesOf(d, whats)' = LinesOf(d, whats)
             /\ c = d => /\ taskFile'.log[n] = call[d].line
                         /\ \A whats : LinesOf(d, whats)' = LinesOf(d, whats) \cup
                              (IF call[d].line.what \in whats THEN {n} ELSE {})
<1> DEFINE log == taskFile.log
           n == Len(log) + 1
<1>1. /\ taskFile \in TaskFiles /\ Written(c) \in TaskFiles /\ taskFile # None /\ Written(c) # None
      /\ log \in Seq(Lines) /\ call[c].line \in Lines /\ call[c].line.by = c
  BY WrittenFile, TaskAssumption DEF TaskInv, TaskFiles
<1>2. CASE call[c].line = Done
  <2>1. taskFile'.log = log
    BY <1>1, <1>2, WrittenFile DEF TaskFiles
  <2>2. c # d
    BY <1>1, <1>2, DispatchAssumption DEF Done, Line
  <2> QED
    BY <1>1, <2>1, <2>2 DEF LinesOf
<1>3. CASE call[c].line # Done
  <2>1. taskFile'.log = Append(log, call[c].line)
    BY <1>1, <1>3, WrittenFile DEF TaskFiles
  <2>2. /\ DOMAIN log = 1..Len(log) /\ Len(log) \in Nat
        /\ DOMAIN taskFile'.log = 1..n /\ taskFile'.log[n] = call[c].line
        /\ \A i \in 1..Len(log) : taskFile'.log[i] = log[i]
    BY <1>1, <2>1
  <2> HIDE DEF log
  <2>3. ASSUME NEW whats
        PROVE  /\ LinesOf(d, whats) = {i \in DOMAIN log : log[i].by = d /\ log[i].what \in whats}
               /\ LinesOf(d, whats)' = {i \in DOMAIN taskFile'.log :
                     taskFile'.log[i].by = d /\ taskFile'.log[i].what \in whats}
    BY <1>1 DEF LinesOf, log
  <2>4. \A whats : \A i \in LinesOf(d, whats) : i < n /\ taskFile'.log[i] = log[i]
    BY <2>2, <2>3
  <2>5. ASSUME NEW whats, c # d
        PROVE  LinesOf(d, whats)' = LinesOf(d, whats)
    <3>1. \A i \in 1..n : i = n \/ i \in 1..Len(log)
      BY <2>2
    <3>2. taskFile'.log[n].by # d
      BY <1>1, <2>2, <2>5
    <3>3. \A i : i \in LinesOf(d, whats)' <=> i \in LinesOf(d, whats)
      BY <2>2, <2>3, <3>1, <3>2
    <3> QED
      BY <3>3, <2>3
  <2>6. ASSUME NEW whats, c = d
        PROVE  LinesOf(d, whats)' = LinesOf(d, whats) \cup
                 (IF call[d].line.what \in whats THEN {n} ELSE {})
    BY <1>1, <2>2, <2>3, <2>6
  <2> QED
    BY <2>2, <2>4, <2>5, <2>6 DEF log
<1> QED
  BY <1>2, <1>3

LEMMA SectionTells ==
  ASSUME StoryInv, NEW c \in Clients, Section(c), UNCHANGED <<request, run>>, NEW d \in Dispatches
  PROVE  Story(d)'
<1>1. TaskInv /\ Story(d) /\ d \in Clients
  BY DispatchAssumption DEF StoryInv
<1>2. /\ \A b \in Clients \ {c} : call'[b] = call[b]
      /\ call'[c].line = call[c].line
      /\ call[c].step \notin {"off", "ok", "threw"} /\ call'[c].step # "off"
      /\ Underway(c)' => Underway(c)
      /\ \/ taskFile' = taskFile
         \/ call[c].step = "write" /\ ~Underway(c)' /\ taskFile' = Written(c)
  BY <1>1, SectionMoves
<1>3. CASE c # d /\ taskFile' = taskFile
  BY <1>1, <1>2, <1>3, StoryFrame
<1>4. CASE c = d /\ taskFile' = taskFile
  <2>1. \A whats : LinesOf(d, whats)' = LinesOf(d, whats)
    BY <1>4 DEF LinesOf
  <2> QED
    BY <1>1, <1>2, <1>4, <2>1 DEF Story, Speaks, Said, Holds, Agrees, Filed, Over
<1>5. CASE c # d /\ call[c].step = "write" /\ taskFile' = Written(c)
  <2>1. /\ \A whats : LinesOf(d, whats)' = LinesOf(d, whats)
        /\ \A whats : \A i \in LinesOf(d, whats) : taskFile'.log[i] = taskFile.log[i]
    BY <1>1, <1>5, LinesAfter
  <2>2. call'[d] = call[d]
    BY <1>1, <1>2, <1>5
  <2> QED
    BY <1>1, <1>5, <2>1, <2>2
       DEF Story, Speaks, Said, Holds, Agrees, Filed, Over, Underway
<1>6. CASE c = d /\ call[c].step = "write" /\ ~Underway(c)' /\ taskFile' = Written(c)
  <2> DEFINE n == Len(taskFile.log) + 1
             what == call[d].line.what
  <2>1. /\ \A whats : \A i \in LinesOf(d, whats) : i < n /\ taskFile'.log[i] = taskFile.log[i]
        /\ taskFile'.log[n] = call[d].line
        /\ \A whats : LinesOf(d, whats)' =
             LinesOf(d, whats) \cup (IF what \in whats THEN {n} ELSE {})
    BY <1>1, <1>6, LinesAfter
  <2>2. \/ run[d].pc \in {"blocked", "guarded"} /\ what = "guard"
        \/ run[d].pc = "starting" /\ what = "started"
        \/ /\ run[d].pc = "closing" /\ call[d].line.rc = run[d].rc
           /\ what = IF run[d].rc = 0 THEN "ok" ELSE "failed"
        \/ run[d].pc = "ledger" /\ what = "incident"
    <3>1. run[d].pc \in Steps
      BY DEF StoryInv, RunTypes, RunStates
    <3>2. call[d].step = "write" /\ ~Over(d)
      BY <1>6 DEF Over
    <3>3. run[d].pc \in {"blocked", "guarded", "starting", "closing", "ledger"}
      BY <1>1, <3>1, <3>2 DEF Story, Speaks, Steps
    <3> QED
      BY <1>1, <3>2, <3>3 DEF Story, Speaks
  <2>3. Underway(d) /\ ~Underway(d)' /\ call'[d].step # "off" /\ call'[d].line = call[d].line
    BY <1>2, <1>6 DEF Underway
  <2> HIDE DEF n, what
  <2>4. CASE what = "guard"
    BY <1>1, <1>6, <2>1, <2>2, <2>3, <2>4
       DEF Story, Speaks, Said, Holds, Agrees, Filed, Closes, Over, Early, Open, what
  <2>5. CASE what = "started"
    BY <1>1, <1>6, <2>1, <2>2, <2>3, <2>5
       DEF Story, Speaks, Said, Holds, Agrees, Filed, Closes, Over, Early, Open, what
  <2>6. CASE what \in Closes
    BY <1>1, <1>6, <2>1, <2>2, <2>3, <2>6
       DEF Story, Speaks, Said, Holds, Agrees, Filed, Closes, Over, Early, Open, what
  <2>7. CASE what = "incident"
    BY <1>1, <1>6, <2>1, <2>2, <2>3, <2>7
       DEF Story, Speaks, Said, Holds, Agrees, Filed, Closes, Over, Early, Open, what
  <2> QED
    BY <2>2, <2>4, <2>5, <2>6, <2>7 DEF Closes
<1> QED
  BY <1>2, <1>3, <1>4, <1>5, <1>6

\* The commands of the TASK itself touch no dispatch.
LEMMA TaskStepTells ==
  ASSUME StoryInv, TaskSteps, NEW d \in Dispatches
  PROVE  Story(d)'
<1>1. TaskInv /\ Story(d) /\ d \in Clients /\ d # TaskClient
  BY DispatchAssumption DEF StoryInv
<1>2. UNCHANGED <<request, run>>
  BY DEF TaskSteps
<1>3. call'[d] = call[d]
  BY <1>1 DEF TaskSteps, NewTask, TaskCommand, TaskCommandEnds, TaskCommandDies, Die, Begun, TaskInv
<1>4. CASE taskFile' = taskFile
  BY <1>1, <1>2, <1>3, <1>4, StoryFrame
<1>5. CASE taskFile' # taskFile
  <2>1. /\ taskFile = None /\ taskFile'.log = << >>
    BY <1>5 DEF TaskSteps, NewTask, TaskCommand, TaskCommandEnds, TaskCommandDies, Die
  <2>2. \A whats : LinesOf(d, whats)' = {} /\ LinesOf(d, whats) = {}
    BY <2>1 DEF LinesOf
  <2> QED
    BY <1>1, <1>2, <1>3, <2>2 DEF Story, Speaks, Said, Holds, Agrees, Filed, Over, Underway
<1> QED
  BY <1>4, <1>5

-----------------------------------------------------------------------------
(***************************************************************************)
(* The allocation flywheel's files and commands.                           *)
(***************************************************************************)

Stats == [Evidence -> [s : Nat, f : Nat]]
FedRows == [key : Evidence, ok : BOOLEAN]
Feeding == {"feed", "keep", "record"}

ClerkStates ==
  [doing : {"rest", "decay", "forget"} \cup Feeding, rows : Seq(FedRows) \cup Seq(Types),
   was : {None} \cup Seq(Rows), seen : {None} \cup Stats]

\* An order with rows that are fed, and evidence read only for a row that is left.
Ordered(order) ==
  /\ order.doing \in Feeding => order.rows \in Seq(FedRows)
  /\ order.seen # None => order.rows # << >>

AllocTypes ==
  /\ ledger \in {None} \cup Seq(Rows)
  /\ stats \in Stats
  /\ paid \in [Evidence -> [fed : Nat, told : Nat]]
  /\ commands \in Nat /\ decays \in 0..MaxDecays
  /\ excused \in BOOLEAN
  /\ clerk \in [Clerks -> ClerkStates]
  /\ \A p \in Clerks : Ordered(clerk[p])

LEMMA RestingTyped == Resting \in ClerkStates /\ Resting.doing = "rest" /\ Ordered(Resting)
<1>1. << >> \in Seq(FedRows)
  OBVIOUS
<1> QED
  BY <1>1 DEF Resting, ClerkStates, Ordered, Feeding

\* A clerk's next order.
LEMMA OrdersKeep ==
  ASSUME AllocTypes, NEW p \in Clerks, NEW order \in ClerkStates, Orders(p, order),
         Ordered(order)
  PROVE  /\ clerk' \in [Clerks -> ClerkStates] /\ clerk'[p] = order
         /\ \A q \in Clerks \ {p} : clerk'[q] = clerk[q]
         /\ \A q \in Clerks : Ordered(clerk'[q])
BY DEF Orders, AllocTypes

LEMMA ApplyTyped ==
  ASSUME NEW state \in Stats, NEW key \in Evidence, NEW ok \in BOOLEAN
  PROVE  /\ applyOutcome(state, key, ok) \in Stats
         /\ \A e \in Evidence \ {key} : applyOutcome(state, key, ok)[e] = state[e]
         /\ applyOutcome(state, key, ok)[key].s + applyOutcome(state, key, ok)[key].f
              = state[key].s + state[key].f + Unit
<1>1. Unit \in Nat
  BY AllocationAssumption
<1> DEFINE one == [s |-> state[key].s + IF ok THEN Unit ELSE 0,
                   f |-> state[key].f + IF ok THEN 0 ELSE Unit]
<1>2. one \in [s : Nat, f : Nat] /\ one.s + one.f = state[key].s + state[key].f + Unit
  BY <1>1 DEF Stats
<1>3. applyOutcome(state, key, ok) = [state EXCEPT ![key] = one]
  BY DEF applyOutcome, Stats
<1> HIDE DEF one
<1> QED
  BY <1>2, <1>3 DEF Stats

\* Each order that is given.
LEMMA FeedOrder ==
  ASSUME AllocTypes, NEW p \in Clerks, NEW failed \in SUBSET Targets, NEW keep \in BOOLEAN,
         Feed(p, failed, keep)
  PROVE  /\ AllocTypes' /\ UNCHANGED <<ledger, stats, paid>>
         /\ clerk[p].doing = "rest" /\ \A q \in Clerks \ {p} : clerk'[q] = clerk[q]
         /\ excused' = (excused \/ keep) /\ clerk'[p].doing = IF keep THEN "keep" ELSE "feed"
         /\ clerk'[p].was = ledger /\ ledger \in Seq(Rows)
         /\ Len(clerk'[p].rows) = Len(ledger)
         /\ \A i \in 1..Len(ledger) :
              clerk'[p].rows[i].key = <<ledger[i][1], NormalAgent[ledger[i][2]]>>
<1> DEFINE fed(i) == [key |-> <<ledger[i][1], NormalAgent[ledger[i][2]]>>,
                      ok |-> ledger[i][2] \notin failed]
           rows == [i \in DOMAIN ledger |-> fed(i)]
           doing == IF keep THEN "keep" ELSE "feed"
           order == [doing |-> doing, rows |-> rows, was |-> ledger, seen |-> None]
<1>1. ledger \in Seq(Rows)
  BY DEF Feed, AllocTypes
<1>2. DOMAIN ledger = 1..Len(ledger) /\ Len(ledger) \in Nat
  BY <1>1
<1>3. ASSUME NEW i \in 1..Len(ledger)
      PROVE  fed(i) \in FedRows
  <2>1. ledger[i] \in Types \X Targets
    BY <1>1, <1>2 DEF Rows
  <2>2. NormalAgent[ledger[i][2]] \in Agents
    BY <2>1, AllocationAssumption
  <2> QED
    BY <2>1, <2>2 DEF FedRows, Evidence
<1>4. rows \in Seq(FedRows) /\ Len(rows) = Len(ledger)
  BY <1>2, <1>3
<1>5. order \in ClerkStates /\ Ordered(order)
  BY <1>1, <1>4 DEF ClerkStates, Feeding, Ordered
<1>6. Orders(p, order)
  BY DEF Feed
<1>7. /\ order.doing = doing /\ order.rows = rows /\ order.was = ledger
      /\ \A i \in 1..Len(ledger) : rows[i].key = <<ledger[i][1], NormalAgent[ledger[i][2]]>>
  BY <1>2
<1>8. /\ commands' \in Nat /\ excused' = (excused \/ keep) /\ UNCHANGED <<ledger, stats, decays, paid>>
      /\ clerk[p].doing = "rest"
  BY DEF Feed, Give, AllocTypes
<1> HIDE DEF order, rows
<1> QED
  BY <1>1, <1>4, <1>5, <1>6, <1>7, <1>8, OrdersKeep DEF AllocTypes

(***************************************************************************)
(* What keeps the count: for each feed that is under way, the rows that it *)
(* has paid in and not yet cleared.                                        *)
(***************************************************************************)

Key(row) == <<row[1], NormalAgent[row[2]]>>
Positions(rows, e) == {i \in 1..Len(rows) : Key(rows[i]) = e}

\* How far clerk p has come with the ledger it feeds.
Progress(p) == Len(clerk[p].was) - Len(clerk[p].rows)

FedBy(e) ==
  {x \in Clerks \X Nat : /\ clerk[x[1]].doing = "feed"
                        /\ x[2] \in 1..Progress(x[1])
                        /\ Key(clerk[x[1]].was[x[2]]) = e}

\* The dispatches that have come to their end with a row.
Counted(e) ==
  {d \in Dispatches : /\ At(d, "returned") /\ run[d].rc # 2 /\ request[d].type # None
                     /\ <<request[d].type, NormalAgent[request[d].target]>> = e}

\* A feed's rows are what is left of the ledger it read.
Aligned(p) ==
  /\ clerk[p].doing = "keep" => excused
  /\ clerk[p].doing = "feed" =>
       /\ clerk[p].was \in Seq(Rows) /\ Len(clerk[p].rows) <= Len(clerk[p].was)
       /\ \A k \in 1..Len(clerk[p].rows) :
            clerk[p].rows[k].key = Key(clerk[p].was[Progress(p) + k])

Balanced(e) ==
  /\ stats[e].s + stats[e].f = Unit * (paid[e].fed + paid[e].told)
  /\ paid[e].fed + RowsOf(e) = Cardinality(Counted(e)) + Cardinality(FedBy(e))

CountInv ==
  /\ \A p \in Clerks : Aligned(p)
  /\ \A e \in Evidence : IsFiniteSet(FedBy(e))
  /\ ~excused => \A e \in Evidence : Balanced(e)

LEMMA RowsOfIs ==
  ASSUME ledger \in {None} \cup Seq(Rows), NEW e
  PROVE  /\ ledger = None => RowsOf(e) = 0
         /\ ledger \in Seq(Rows) => RowsOf(e) = Cardinality(Positions(ledger, e))
<1>1. ledger \in Seq(Rows) => ledger # None /\ DOMAIN ledger = 1..Len(ledger)
  BY AllocationAssumption
<1> QED
  BY <1>1 DEF RowsOf, Quantify, Positions, Key

LEMMA PositionsFinite ==
  ASSUME NEW rows \in Seq(Rows), NEW e
  PROVE  IsFiniteSet(Positions(rows, e)) /\ Cardinality(Positions(rows, e)) \in Nat
<1>1. IsFiniteSet(1..Len(rows))
  BY FS_Interval
<1>2. Positions(rows, e) \in SUBSET (1..Len(rows))
  BY DEF Positions
<1>3. IsFiniteSet(Positions(rows, e))
  BY <1>1, <1>2, FS_Subset
<1> QED
  BY <1>3, FS_CardinalityType

\* What is counted are numbers.
LEMMA RowsTyped ==
  ASSUME ledger \in {None} \cup Seq(Rows), NEW e
  PROVE  RowsOf(e) \in Nat
BY RowsOfIs, PositionsFinite

LEMMA CountedFinite == \A e : IsFiniteSet(Counted(e)) /\ Cardinality(Counted(e)) \in Nat
<1>1. \A e : Counted(e) \in SUBSET Dispatches
  BY DEF Counted
<1> QED
  BY <1>1, DispatchAssumption, FS_Subset, FS_CardinalityType

LEMMA PositionsAppend ==
  ASSUME NEW rows \in Seq(Rows), NEW row \in Rows, NEW e
  PROVE  Cardinality(Positions(Append(rows, row), e)) =
           Cardinality(Positions(rows, e)) + IF Key(row) = e THEN 1 ELSE 0
<1> DEFINE n == Len(rows) + 1
           more == Append(rows, row)
<1>1. /\ Len(more) = n /\ Len(rows) \in Nat /\ more[n] = row
      /\ \A i \in 1..Len(rows) : more[i] = rows[i]
  OBVIOUS
<1> HIDE DEF more
<1>2. IsFiniteSet(Positions(rows, e)) /\ Cardinality(Positions(rows, e)) \in Nat
  BY PositionsFinite
<1>3. n \notin Positions(rows, e)
  BY <1>1 DEF Positions
<1>4. CASE Key(row) = e
  <2>1. Positions(more, e) = Positions(rows, e) \cup {n}
    BY <1>1, <1>4 DEF Positions
  <2>2. Cardinality(Positions(rows, e) \cup {n}) = Cardinality(Positions(rows, e)) + 1
    BY <1>2, <1>3, FS_AddElement
  <2> QED
    BY <1>4, <2>1, <2>2 DEF more
<1>5. CASE Key(row) # e
  <2>1. Positions(more, e) = Positions(rows, e)
    BY <1>1, <1>5 DEF Positions
  <2> QED
    BY <1>2, <1>5, <2>1 DEF more
<1> QED
  BY <1>4, <1>5

\* A clerk that is not feeding before or after the step, or feeds on where it was.
LEMMA FedStays ==
  ASSUME NEW p \in Clerks, \A q \in Clerks \ {p} : clerk'[q] = clerk[q],
         \/ clerk[p].doing # "feed" /\ clerk'[p].doing # "feed"
         \/ /\ clerk'[p].doing = clerk[p].doing
            /\ clerk'[p].was = clerk[p].was /\ clerk'[p].rows = clerk[p].rows
  PROVE  \A e : FedBy(e)' = FedBy(e)
<1> SUFFICES ASSUME NEW e, NEW x \in Clerks \X Nat
             PROVE  x \in FedBy(e)' <=> x \in FedBy(e)
  BY DEF FedBy
<1>1. x[1] \in Clerks
  OBVIOUS
<1> QED
  BY <1>1 DEF FedBy, Progress

\* A clerk that feeds no more takes what it has fed out of the account.
LEMMA FedShrinks ==
  ASSUME NEW p \in Clerks, \A q \in Clerks \ {p} : clerk'[q] = clerk[q],
         clerk'[p].doing # "feed"
  PROVE  \A e : FedBy(e)' = {x \in FedBy(e) : x[1] # p}
<1> SUFFICES ASSUME NEW e, NEW x \in Clerks \X Nat
             PROVE  x \in FedBy(e)' <=> x \in FedBy(e) /\ x[1] # p
  BY DEF FedBy
<1>1. x[1] \in Clerks
  OBVIOUS
<1> QED
  BY <1>1 DEF FedBy, Progress

LEMMA CountFrame ==
  ASSUME CountInv, NEW p \in Clerks, \A q \in Clerks \ {p} : clerk'[q] = clerk[q],
         excused => excused', Aligned(p)', UNCHANGED <<ledger, stats, paid, run, request>>,
         \A e : FedBy(e)' = FedBy(e)
  PROVE  CountInv'
<1>1. \A q \in Clerks : Aligned(q)'
  BY DEF CountInv, Aligned, Progress
<1>2. \A e \in Evidence : Balanced(e) => Balanced(e)'
  <2> SUFFICES ASSUME NEW e \in Evidence, Balanced(e) PROVE Balanced(e)'
    OBVIOUS
  <2>1. RowsOf(e)' = RowsOf(e)
    BY DEF RowsOf, Quantify
  <2>2. Counted(e)' = Counted(e)
    BY DEF Counted, At
  <2>3. FedBy(e)' = FedBy(e)
    OBVIOUS
  <2> QED
    BY <2>1, <2>2, <2>3 DEF Balanced
<1>3. \A e \in Evidence : IsFiniteSet(FedBy(e)')
  BY DEF CountInv
<1> QED
  BY <1>1, <1>2, <1>3 DEF CountInv

LEMMA CountExcused ==
  ASSUME CountInv, NEW p \in Clerks, \A q \in Clerks \ {p} : clerk'[q] = clerk[q],
         excused', Aligned(p)', \A e : FedBy(e)' \subseteq FedBy(e)
  PROVE  CountInv'
<1>1. \A q \in Clerks : Aligned(q)'
  BY DEF CountInv, Aligned, Progress
<1>2. \A e \in Evidence : IsFiniteSet(FedBy(e)')
  BY FS_Subset DEF CountInv
<1> QED
  BY <1>1, <1>2 DEF CountInv

(***************************************************************************)
(* The steps of a clerk, one by one.                                       *)
(***************************************************************************)

FlywheelInv == AllocTypes /\ CountInv

LEMMA FeedKeeps ==
  ASSUME FlywheelInv, UNCHANGED <<run, request>>, NEW p \in Clerks,
         NEW failed \in SUBSET Targets, NEW keep \in BOOLEAN, Feed(p, failed, keep)
  PROVE  FlywheelInv'
<1>1. /\ AllocTypes' /\ UNCHANGED <<ledger, stats, paid>>
      /\ clerk[p].doing = "rest" /\ \A q \in Clerks \ {p} : clerk'[q] = clerk[q]
      /\ excused' = (excused \/ keep) /\ clerk'[p].doing = IF keep THEN "keep" ELSE "feed"
      /\ clerk'[p].was = ledger /\ ledger \in Seq(Rows)
      /\ Len(clerk'[p].rows) = Len(ledger)
      /\ \A i \in 1..Len(ledger) :
           clerk'[p].rows[i].key = <<ledger[i][1], NormalAgent[ledger[i][2]]>>
  BY FeedOrder DEF FlywheelInv
<1>2. Len(ledger) \in Nat
  BY <1>1
<1>3. Aligned(p)'
  BY <1>1, <1>2 DEF Aligned, Progress, Key
<1>4. \A e : FedBy(e)' = FedBy(e)
  <2> SUFFICES ASSUME NEW e, NEW x \in Clerks \X Nat
               PROVE  x \in FedBy(e)' <=> x \in FedBy(e)
    BY DEF FedBy
  <2>1. x[1] \in Clerks /\ x[2] \in Nat
    OBVIOUS
  <2>2. CASE x[1] = p
    <3>1. Progress(p)' = 0
      BY <1>1, <1>2 DEF Progress
    <3> QED
      BY <1>1, <2>1, <2>2, <3>1 DEF FedBy
  <2>3. CASE x[1] # p
    BY <1>1, <2>1, <2>3 DEF FedBy, Progress
  <2> QED
    BY <2>2, <2>3
<1>5. CountInv'
  BY <1>1, <1>3, <1>4, CountFrame DEF FlywheelInv
<1> QED
  BY <1>1, <1>5 DEF FlywheelInv

\* record, decay and reset T, when they are given.
LEMMA OrderKeeps ==
  ASSUME FlywheelInv, UNCHANGED <<run, request>>, NEW p \in Clerks,
         \/ \E T \in Types, target \in Targets, ok \in BOOLEAN : Record(p, T, target, ok)
         \/ \E T \in Types : Decay(p, T) \/ Forget(p, T)
  PROVE  FlywheelInv'
<1>1. PICK order \in ClerkStates :
        /\ Orders(p, order) /\ order.doing \in {"record", "decay", "forget"}
        /\ Ordered(order)
  <2>1. ASSUME NEW T \in Types, NEW target \in Targets, NEW ok \in BOOLEAN, Record(p, T, target, ok)
        PROVE  \E order \in ClerkStates :
                 Orders(p, order) /\ order.doing = "record" /\ Ordered(order)
    <3> DEFINE row == [key |-> <<T, NormalAgent[target]>>, ok |-> ok]
    <3>1. row \in FedRows
      BY AllocationAssumption DEF FedRows, Evidence
    <3> DEFINE order == [doing |-> "record", rows |-> <<row>>, was |-> None, seen |-> None]
    <3>2. <<row>> \in Seq(FedRows)
      BY <3>1
    <3>3. order \in ClerkStates /\ order.doing = "record" /\ Ordered(order)
      BY <3>2 DEF ClerkStates, Feeding, Ordered
    <3>4. Orders(p, order)
      BY <2>1 DEF Record
    <3> QED
      BY <3>3, <3>4
  <2>2. ASSUME NEW T \in Types, Decay(p, T) \/ Forget(p, T)
        PROVE  \E order \in ClerkStates :
                 Orders(p, order) /\ order.doing \in {"decay", "forget"} /\ Ordered(order)
    <3>1. PICK doing \in {"decay", "forget"} :
            Orders(p, [doing |-> doing, rows |-> <<T>>, was |-> None, seen |-> None])
      BY <2>2 DEF Decay, Forget
    <3> DEFINE order == [doing |-> doing, rows |-> <<T>>, was |-> None, seen |-> None]
    <3>2. order \in ClerkStates /\ order.doing = doing /\ Ordered(order)
      BY DEF ClerkStates, Ordered, Feeding
    <3> QED
      BY <3>1, <3>2
  <2> QED
    BY <2>1, <2>2
<1>2. /\ clerk[p].doing = "rest" /\ commands' \in Nat /\ decays' \in 0..MaxDecays
      /\ UNCHANGED <<ledger, stats, paid, excused>>
  <2>1. MaxDecays \in Nat /\ commands \in Nat /\ decays \in 0..MaxDecays
    BY AllocationAssumption DEF FlywheelInv, AllocTypes
  <2>2. ASSUME NEW T \in Types, Decay(p, T)
        PROVE  /\ clerk[p].doing = "rest" /\ commands' \in Nat /\ decays' \in 0..MaxDecays
               /\ UNCHANGED <<ledger, stats, paid, excused>>
    BY <2>1, <2>2 DEF Decay, Give
  <2>3. ASSUME NEW T \in Types, Forget(p, T)
        PROVE  /\ clerk[p].doing = "rest" /\ commands' \in Nat /\ decays' = decays
               /\ UNCHANGED <<ledger, stats, paid, excused>>
    BY <2>1, <2>3 DEF Forget, Give
  <2>4. ASSUME NEW T \in Types, NEW target \in Targets, NEW ok \in BOOLEAN,
               Record(p, T, target, ok)
        PROVE  /\ clerk[p].doing = "rest" /\ commands' \in Nat /\ decays' = decays
               /\ UNCHANGED <<ledger, stats, paid, excused>>
    BY <2>1, <2>4 DEF Record, Give
  <2> QED
    BY <2>1, <2>2, <2>3, <2>4
<1>3. /\ clerk' \in [Clerks -> ClerkStates] /\ clerk'[p] = order
      /\ \A q \in Clerks \ {p} : clerk'[q] = clerk[q]
      /\ \A q \in Clerks : Ordered(clerk'[q])
  BY <1>1, OrdersKeep DEF FlywheelInv
<1>4. AllocTypes'
  BY <1>2, <1>3 DEF FlywheelInv, AllocTypes
<1>5. \A e : FedBy(e)' = FedBy(e)
  BY <1>1, <1>2, <1>3, FedStays
<1>6. Aligned(p)'
  BY <1>1, <1>3 DEF Aligned
<1>7. CountInv'
  BY <1>2, <1>3, <1>5, <1>6, CountFrame DEF FlywheelInv
<1> QED
  BY <1>4, <1>7 DEF FlywheelInv

LEMMA ReadKeeps ==
  ASSUME FlywheelInv, UNCHANGED <<run, request>>, NEW p \in Clerks, ReadStats(p)
  PROVE  FlywheelInv'
<1> DEFINE order == [clerk[p] EXCEPT !.seen = stats]
<1>1. clerk[p] \in ClerkStates /\ stats \in Stats
  BY DEF FlywheelInv, AllocTypes
<1>2. /\ order \in ClerkStates /\ order.doing = clerk[p].doing /\ order.rows = clerk[p].rows
      /\ order.was = clerk[p].was
  BY <1>1 DEF ClerkStates
<1>3. Orders(p, order) /\ UNCHANGED <<ledger, stats, commands, decays, paid, excused>>
  BY DEF ReadStats
<1>4. Ordered(order)
  BY <1>2 DEF FlywheelInv, AllocTypes, Ordered, ReadStats
<1> HIDE DEF order
<1>5. /\ clerk' \in [Clerks -> ClerkStates] /\ clerk'[p] = order
      /\ \A q \in Clerks \ {p} : clerk'[q] = clerk[q]
      /\ \A q \in Clerks : Ordered(clerk'[q])
  BY <1>2, <1>3, <1>4, OrdersKeep DEF FlywheelInv
<1>6. AllocTypes'
  BY <1>3, <1>5 DEF FlywheelInv, AllocTypes
<1>7. \A e : FedBy(e)' = FedBy(e)
  BY <1>2, <1>5, FedStays
<1>8. Aligned(p)'
  BY <1>2, <1>3, <1>5 DEF Aligned, Progress, FlywheelInv, CountInv
<1>9. CountInv'
  BY <1>3, <1>5, <1>7, <1>8, CountFrame DEF FlywheelInv
<1> QED
  BY <1>6, <1>9 DEF FlywheelInv

\* A row that is fed is in the account from the moment it is paid in.
LEMMA FedGrows ==
  ASSUME FlywheelInv, NEW p \in Clerks, \A q \in Clerks \ {p} : clerk'[q] = clerk[q],
         clerk[p].doing = "feed", clerk[p].rows # << >>,
         clerk'[p].doing = "feed", clerk'[p].was = clerk[p].was,
         clerk'[p].rows = Tail(clerk[p].rows)
  PROVE  LET row == Head(clerk[p].rows)
             n == Progress(p) + 1
         IN  /\ Aligned(p)'
             /\ \A e \in Evidence :
                  /\ <<p, n>> \notin FedBy(e)
                  /\ FedBy(e)' = FedBy(e) \cup (IF e = row.key THEN {<<p, n>>} ELSE {})
<1> DEFINE rows == clerk[p].rows
           was == clerk[p].was
           n == Progress(p) + 1
           key == Head(rows).key
<1>1. /\ rows \in Seq(FedRows) /\ was \in Seq(Rows) /\ Len(rows) <= Len(was)
      /\ \A k \in 1..Len(rows) : rows[k].key = Key(was[Progress(p) + k])
  BY DEF FlywheelInv, AllocTypes, Ordered, Feeding, CountInv, Aligned
<1>2. /\ Len(rows) \in Nat \ {0} /\ Len(was) \in Nat /\ Len(rows) <= Len(was)
      /\ Len(Tail(rows)) = Len(rows) - 1
      /\ Progress(p) = Len(was) - Len(rows) /\ Progress(p)' = Len(was) - Len(Tail(rows))
  BY <1>1 DEF Progress
<1>3. /\ \A k \in 1..Len(Tail(rows)) : Tail(rows)[k] = rows[k + 1]
      /\ Head(rows) = rows[1]
  BY <1>1
<1> HIDE DEF rows, was
<1>4. /\ Progress(p) \in Nat /\ n \in 1..Len(was) /\ Progress(p)' = n
      /\ 1 \in 1..Len(rows)
  BY <1>2
<1>5. key = Key(was[n])
  BY <1>1, <1>3, <1>4
<1>6. Aligned(p)'
  <2>1. Len(Tail(rows)) <= Len(was)
    BY <1>2
  <2>2. ASSUME NEW k \in 1..Len(Tail(rows))
        PROVE  Tail(rows)[k].key = Key(was[n + k])
    <3>1. k + 1 \in 1..Len(rows) /\ Progress(p) + (k + 1) = n + k
      BY <1>2, <1>4
    <3>2. rows[k + 1].key = Key(was[Progress(p) + (k + 1)])
      BY <1>1, <3>1
    <3> QED
      BY <1>3, <3>1, <3>2
  <2> QED
    BY <1>1, <1>4, <2>1, <2>2 DEF Aligned, Key, rows, was
<1>7. ASSUME NEW e \in Evidence
      PROVE  /\ <<p, n>> \notin FedBy(e)
             /\ FedBy(e)' = FedBy(e) \cup (IF e = key THEN {<<p, n>>} ELSE {})
  <2>1. n \notin 1..Progress(p) /\ \A i \in Nat : i \in 1..n <=> i \in 1..Progress(p) \/ i = n
    BY <1>4
  <2> HIDE DEF n
  <2>2. <<p, n>> \notin FedBy(e)
    BY <2>1 DEF FedBy
  <2>3. ASSUME NEW q \in Clerks, NEW i \in Nat
        PROVE  <<q, i>> \in FedBy(e)' <=> <<q, i>> \in FedBy(e) \/ (e = key /\ <<q, i>> = <<p, n>>)
    <3>1. CASE q # p
      <4>1. clerk'[q] = clerk[q]
        BY <3>1
      <4>2. Progress(q)' = Progress(q)
        BY <4>1 DEF Progress
      <4> QED
        BY <3>1, <4>1, <4>2 DEF FedBy
    <3>2. CASE q = p
      <4>1. <<q, i>> \in FedBy(e)' <=> i \in 1..n /\ Key(was[i]) = e
        BY <1>4, <3>2 DEF FedBy, Key, was
      <4>2. <<q, i>> \in FedBy(e) <=> i \in 1..Progress(p) /\ Key(was[i]) = e
        BY <3>2 DEF FedBy, was
      <4> QED
        BY <1>5, <2>1, <3>2, <4>1, <4>2
    <3> QED
      BY <3>1, <3>2
  <2>4. /\ FedBy(e)' \subseteq Clerks \X Nat /\ FedBy(e) \subseteq Clerks \X Nat
        /\ <<p, n>> \in Clerks \X Nat
    BY <1>4 DEF FedBy, n
  <2> QED
    BY <2>2, <2>3, <2>4 DEF n
<1> QED
  BY <1>6, <1>7 DEF rows

LEMMA RecordKeeps ==
  ASSUME FlywheelInv, UNCHANGED <<run, request>>, NEW p \in Clerks, RecordRow(p)
  PROVE  FlywheelInv'
<1> DEFINE row == Head(clerk[p].rows)
           rest == Tail(clerk[p].rows)
           seen == clerk[p].seen
           order == [clerk[p] EXCEPT !.rows = rest, !.seen = None]
<1>1. /\ clerk[p] \in ClerkStates /\ clerk[p].doing \in Feeding /\ clerk[p].rows \in Seq(FedRows)
      /\ clerk[p].rows # << >> /\ seen \in Stats
      /\ stats \in Stats /\ paid \in [Evidence -> [fed : Nat, told : Nat]]
  BY DEF FlywheelInv, AllocTypes, Ordered, Feeding, RecordRow, ClerkStates
<1>2. row \in FedRows /\ rest \in Seq(FedRows)
  BY <1>1
<1>3. row.key \in Evidence /\ row.ok \in BOOLEAN
  BY <1>2 DEF FedRows
<1>4. Orders(p, order) /\ stats' = applyOutcome(seen, row.key, row.ok)
      /\ excused' = (excused \/ seen # stats) /\ UNCHANGED <<ledger, commands, decays>>
  BY Zenon DEF RecordRow, Overtaken, Orders
<1>5. paid' = IF clerk[p].doing = "record" THEN [paid EXCEPT ![row.key].told = @ + 1]
              ELSE [paid EXCEPT ![row.key].fed = @ + 1]
  BY Zenon DEF RecordRow
<1> HIDE DEF row, rest, seen
<1>6. /\ order \in ClerkStates /\ Ordered(order) /\ order.doing = clerk[p].doing
      /\ order.was = clerk[p].was /\ order.rows = rest
  BY <1>1, <1>2 DEF ClerkStates, Ordered
<1> HIDE DEF order
<1>7. /\ clerk' \in [Clerks -> ClerkStates] /\ clerk'[p] = order
      /\ \A q \in Clerks \ {p} : clerk'[q] = clerk[q]
      /\ \A q \in Clerks : Ordered(clerk'[q])
  BY <1>4, <1>6, OrdersKeep DEF FlywheelInv
<1>8. /\ stats' \in Stats /\ \A e \in Evidence \ {row.key} : stats'[e] = seen[e]
      /\ stats'[row.key].s + stats'[row.key].f = seen[row.key].s + seen[row.key].f + Unit
  BY <1>1, <1>3, <1>4, ApplyTyped
<1>9. /\ paid' \in [Evidence -> [fed : Nat, told : Nat]]
      /\ \A e \in Evidence \ {row.key} : paid'[e] = paid[e]
      /\ clerk[p].doing = "record" =>
           paid'[row.key].told = paid[row.key].told + 1 /\ paid'[row.key].fed = paid[row.key].fed
      /\ clerk[p].doing # "record" =>
           paid'[row.key].fed = paid[row.key].fed + 1 /\ paid'[row.key].told = paid[row.key].told
  BY <1>1, <1>3, <1>5
<1>10. AllocTypes'
  BY <1>4, <1>7, <1>8, <1>9 DEF FlywheelInv, AllocTypes
<1>11. clerk[p].doing = "feed" =>
         /\ Aligned(p)'
         /\ \A e \in Evidence :
              /\ <<p, Progress(p) + 1>> \notin FedBy(e)
              /\ FedBy(e)' = FedBy(e) \cup (IF e = row.key THEN {<<p, Progress(p) + 1>>} ELSE {})
  BY <1>1, <1>6, <1>7, FedGrows DEF row, rest
<1>12. clerk[p].doing # "feed" => \A e : FedBy(e)' = FedBy(e)
  BY <1>6, <1>7, FedStays
<1>13. \A q \in Clerks : Aligned(q)'
  <2>1. clerk[p].doing # "feed" => Aligned(p)'
    BY <1>4, <1>6, <1>7 DEF Aligned, FlywheelInv, CountInv
  <2>2. \A q \in Clerks \ {p} : Aligned(q)'
    BY <1>4, <1>7 DEF Aligned, Progress, FlywheelInv, CountInv
  <2> QED
    BY <1>11, <2>1, <2>2
<1>14. \A e \in Evidence : IsFiniteSet(FedBy(e)')
  <2> SUFFICES ASSUME NEW e \in Evidence
               PROVE  IsFiniteSet(FedBy(e)')
    OBVIOUS
  <2>1. IsFiniteSet(FedBy(e))
    BY DEF FlywheelInv, CountInv
  <2>2. IsFiniteSet(FedBy(e) \cup {<<p, Progress(p) + 1>>})
    BY <2>1, FS_AddElement
  <2> QED
    BY <1>11, <1>12, <2>1, <2>2
<1>15. ASSUME ~excused', NEW e \in Evidence
       PROVE  Balanced(e)'
  <2>1. Balanced(e) /\ IsFiniteSet(FedBy(e)) /\ seen = stats
    BY <1>4, <1>15 DEF FlywheelInv, CountInv
  <2>2. clerk[p].doing \in {"feed", "record"}
    BY <1>1, <1>4, <1>15 DEF Feeding, FlywheelInv, CountInv, Aligned
  <2>3. RowsOf(e)' = RowsOf(e) /\ Counted(e)' = Counted(e)
    BY <1>4 DEF RowsOf, Quantify, Counted, At
  <2>4. /\ Unit \in Nat /\ stats[e].s \in Nat /\ stats[e].f \in Nat
        /\ paid[e].fed \in Nat /\ paid[e].told \in Nat
    BY <1>1, AllocationAssumption DEF Stats
  <2>5. stats'[e].s + stats'[e].f = Unit * (paid'[e].fed + paid'[e].told)
    <3>1. CASE e # row.key
      BY <1>8, <1>9, <2>1, <3>1 DEF Balanced
    <3>2. CASE e = row.key
      <4>1. \A n \in Nat : Unit * (n + 1) = Unit * n + Unit
        BY <2>4
      <4>2. paid'[e].fed + paid'[e].told = (paid[e].fed + paid[e].told) + 1
        BY <1>9, <2>2, <2>4, <3>2
      <4>3. Unit * (paid'[e].fed + paid'[e].told) = Unit * (paid[e].fed + paid[e].told) + Unit
        BY <2>4, <4>1, <4>2
      <4> QED
        BY <1>8, <2>1, <3>2, <4>3 DEF Balanced
    <3> QED
      BY <3>1, <3>2
  <2>6. paid'[e].fed + RowsOf(e)' = Cardinality(Counted(e)') + Cardinality(FedBy(e)')
    <3>1. CASE clerk[p].doing = "record" \/ e # row.key
      <4>1. FedBy(e)' = FedBy(e)
        BY <1>11, <1>12, <3>1
      <4>2. paid'[e].fed = paid[e].fed
        BY <1>9, <3>1
      <4> QED
        BY <2>1, <2>3, <4>1, <4>2 DEF Balanced
    <3>2. CASE clerk[p].doing = "feed" /\ e = row.key
      <4>1. FedBy(e)' = FedBy(e) \cup {<<p, Progress(p) + 1>>} /\ <<p, Progress(p) + 1>> \notin FedBy(e)
        BY <1>11, <3>2
      <4>2. Cardinality(FedBy(e)') = Cardinality(FedBy(e)) + 1
        BY <2>1, <4>1, FS_AddElement
      <4>3. paid'[e].fed = paid[e].fed + 1
        BY <1>9, <3>2
      <4>4. paid[e].fed + RowsOf(e) = Cardinality(Counted(e)) + Cardinality(FedBy(e))
        BY <2>1 DEF Balanced
      <4>5. RowsOf(e) \in Nat /\ Cardinality(FedBy(e)) \in Nat /\ Cardinality(Counted(e)) \in Nat
        BY <2>1, FS_CardinalityType, RowsTyped, CountedFinite DEF FlywheelInv, AllocTypes
      <4> QED
        BY <2>3, <2>4, <4>2, <4>3, <4>4, <4>5
    <3> QED
      BY <2>2, <3>1, <3>2
  <2> QED
    BY <2>5, <2>6 DEF Balanced
<1> QED
  BY <1>10, <1>13, <1>14, <1>15 DEF FlywheelInv, CountInv

\* A feed that is through has paid in all the rows it read.
LEMMA FedLeaves ==
  ASSUME FlywheelInv, NEW p \in Clerks, \A q \in Clerks \ {p} : clerk'[q] = clerk[q],
         clerk[p].doing = "feed", clerk[p].rows = << >>, clerk'[p].doing # "feed",
         NEW e \in Evidence
  PROVE  /\ IsFiniteSet(FedBy(e)')
         /\ Cardinality(FedBy(e)) =
              Cardinality(FedBy(e)') + Cardinality(Positions(clerk[p].was, e))
<1> DEFINE was == clerk[p].was
           own == {x \in FedBy(e) : x[1] = p}
           all == Positions(was, e)
           pair == [i \in all |-> <<p, i>>]
<1>1. was \in Seq(Rows) /\ IsFiniteSet(FedBy(e)) /\ Progress(p) = Len(was)
  <2>1. was \in Seq(Rows) /\ IsFiniteSet(FedBy(e))
    BY DEF FlywheelInv, CountInv, Aligned
  <2>2. Len(clerk[p].rows) = 0 /\ Len(was) \in Nat
    BY <2>1
  <2> QED
    BY <2>1, <2>2 DEF Progress
<1>2. own = {x \in Clerks \X Nat : x[1] = p /\ x[2] \in all}
  BY <1>1 DEF FedBy, Positions
<1>3. pair \in Bijection(all, own)
  <2>1. all \subseteq Nat
    BY <1>1 DEF Positions
  <2>2. \A i \in all : pair[i] = <<p, i>> /\ <<p, i>> \in own
    BY <1>2, <2>1
  <2>3. \A x \in own : x[2] \in all /\ x = <<p, x[2]>>
    BY <1>2
  <2>4. pair \in [all -> own]
    BY <2>2
  <2>5. pair \in Injection(all, own)
    BY <2>2, <2>4 DEF Injection, IsInjective
  <2>6. pair \in Surjection(all, own)
    BY <2>2, <2>3, <2>4 DEF Surjection
  <2> QED
    BY <2>5, <2>6 DEF Bijection
<1>4. IsFiniteSet(all) /\ Cardinality(own) = Cardinality(all)
  <2>1. IsFiniteSet(all)
    BY <1>1, PositionsFinite
  <2>2. ExistsBijection(all, own)
    BY <1>3 DEF ExistsBijection
  <2> QED
    BY <2>1, <2>2, FS_Bijection
<1>5. FedBy(e)' = FedBy(e) \ own
  <2>1. FedBy(e)' = {x \in FedBy(e) : x[1] # p}
    BY FedShrinks
  <2> QED
    BY <2>1
<1>6. FedBy(e) \cap own = own
  OBVIOUS
<1> HIDE DEF own, all
<1>7. /\ IsFiniteSet(FedBy(e) \ own)
      /\ Cardinality(FedBy(e) \ own) = Cardinality(FedBy(e)) - Cardinality(own)
  <2>1. IsFiniteSet(FedBy(e))
    BY <1>1
  <2>2. /\ IsFiniteSet(FedBy(e) \ own)
        /\ Cardinality(FedBy(e) \ own) = Cardinality(FedBy(e)) - Cardinality(FedBy(e) \cap own)
    BY <2>1, FS_Difference, Zenon
  <2> QED
    BY <1>6, <2>2
<1>8. Cardinality(FedBy(e)) \in Nat /\ Cardinality(all) \in Nat
  BY <1>1, <1>4, FS_CardinalityType
<1> QED
  BY <1>4, <1>5, <1>7, <1>8 DEF all

LEMMA FinishKeeps ==
  ASSUME FlywheelInv, UNCHANGED <<run, request>>, NEW p \in Clerks, Finish(p)
  PROVE  FlywheelInv'
<1>1. /\ clerk[p].doing \in {"feed", "keep", "record"} /\ clerk[p].rows = << >>
      /\ Orders(p, Resting) /\ UNCHANGED <<stats, commands, decays, paid>>
      /\ clerk[p].doing = "feed" => ledger' = << >> /\ excused' = (excused \/ clerk[p].was # ledger)
      /\ clerk[p].doing # "feed" => ledger' = ledger /\ excused' = excused
  BY DEF Finish, Cleared, Overtaken
<1>2. /\ clerk' \in [Clerks -> ClerkStates] /\ clerk'[p] = Resting
      /\ \A q \in Clerks \ {p} : clerk'[q] = clerk[q]
      /\ \A q \in Clerks : Ordered(clerk'[q])
  BY <1>1, RestingTyped, OrdersKeep DEF FlywheelInv
<1>3. clerk'[p].doing = "rest" /\ Aligned(p)'
  BY <1>2, RestingTyped DEF Aligned
<1>4. AllocTypes'
  <2>1. << >> \in Seq(Rows)
    OBVIOUS
  <2> QED
    BY <1>1, <1>2, <2>1 DEF FlywheelInv, AllocTypes
<1>5. CASE clerk[p].doing # "feed"
  <2>1. \A e : FedBy(e)' = FedBy(e)
    BY <1>2, <1>3, <1>5, FedStays
  <2>2. CountInv'
    BY <1>1, <1>2, <1>3, <1>5, <2>1, CountFrame DEF FlywheelInv
  <2> QED
    BY <1>4, <2>2 DEF FlywheelInv
<1>6. CASE clerk[p].doing = "feed"
  <2>1. \A e \in Evidence :
          /\ IsFiniteSet(FedBy(e)')
          /\ Cardinality(FedBy(e)) =
               Cardinality(FedBy(e)') + Cardinality(Positions(clerk[p].was, e))
    BY <1>1, <1>2, <1>3, <1>6, FedLeaves
  <2>2. \A q \in Clerks : Aligned(q)'
    <3>1. ASSUME NEW q \in Clerks, q # p
          PROVE  Aligned(q)'
      BY <1>1, <1>2, <1>6, <3>1 DEF Aligned, Progress, FlywheelInv, CountInv
    <3> QED
      BY <1>3, <3>1
  <2>3. ASSUME ~excused', NEW e \in Evidence
        PROVE  Balanced(e)'
    <3>1. Balanced(e) /\ ledger = clerk[p].was /\ ledger \in Seq(Rows)
      BY <1>1, <1>6, <2>3 DEF FlywheelInv, CountInv, Aligned
    <3>2. RowsOf(e) = Cardinality(Positions(ledger, e)) /\ RowsOf(e) \in Nat
      BY <3>1, RowsOfIs, PositionsFinite
    <3>3. RowsOf(e)' = 0
      <4>1. Positions(<< >>, e) = {}
        BY DEF Positions
      <4>2. ledger' \in Seq(Rows) /\ ledger' = << >>
        BY <1>1, <1>6
      <4>3. RowsOf(e)' = Cardinality(Positions(ledger', e))
        <5>1. ledger' # None /\ DOMAIN ledger' = 1..Len(ledger')
          <6>1. None \notin Seq(Rows)
            BY AllocationAssumption
          <6>2. \A rows \in Seq(Rows) : rows # None /\ DOMAIN rows = 1..Len(rows)
            BY <6>1
          <6> QED
            BY <4>2, <6>2
        <5> QED
          BY <5>1 DEF RowsOf, Quantify, Positions, Key
      <4> QED
        BY <4>1, <4>2, <4>3, FS_EmptySet
    <3>4. Counted(e)' = Counted(e)
      BY DEF Counted, At
    <3>5. /\ Cardinality(FedBy(e)') \in Nat /\ Cardinality(Counted(e)) \in Nat
          /\ paid[e].fed \in Nat
      BY <2>1, FS_CardinalityType, CountedFinite DEF FlywheelInv, AllocTypes
    <3>6. paid'[e].fed + RowsOf(e)' = Cardinality(Counted(e)') + Cardinality(FedBy(e)')
      <4>1. paid[e].fed + RowsOf(e) = Cardinality(Counted(e)) + Cardinality(FedBy(e))
        BY <3>1 DEF Balanced
      <4>2. Cardinality(FedBy(e)) = Cardinality(FedBy(e)') + RowsOf(e)
        BY <2>1, <3>1, <3>2
      <4>3. paid'[e].fed = paid[e].fed
        BY <1>1
      <4>4. \A f, r, c, x, y \in Nat : f + r = c + x /\ x = y + r => f + 0 = c + y
        OBVIOUS
      <4>5. Cardinality(FedBy(e)) \in Nat
        BY <3>2, <3>5, <4>2
      <4>6. paid[e].fed + 0 = Cardinality(Counted(e)) + Cardinality(FedBy(e)')
        BY <3>2, <3>5, <4>1, <4>2, <4>4, <4>5
      <4> QED
        BY <3>3, <3>4, <4>3, <4>6
    <3> QED
      BY <1>1, <3>1, <3>6 DEF Balanced
  <2> QED
    BY <1>4, <2>1, <2>2, <2>3 DEF FlywheelInv, CountInv
<1> QED
  BY <1>5, <1>6

\* A reset, a decay and a death end the account, and no step of theirs adds to it.
LEMMA ForgetAllKeeps ==
  ASSUME FlywheelInv, UNCHANGED <<run, request>>, NEW p \in Clerks, ForgetAll(p)
  PROVE  FlywheelInv'
<1>1. stats' \in Stats
  BY DEF ForgetAll, Stats, NoEvidence
<1>2. commands' \in Nat
  BY DEF ForgetAll, Give, FlywheelInv, AllocTypes
<1>3. excused' = TRUE /\ UNCHANGED <<ledger, clerk, decays, paid>>
  BY DEF ForgetAll
<1>4. AllocTypes'
  BY <1>1, <1>2, <1>3 DEF FlywheelInv, AllocTypes
<1>5. Aligned(p)' /\ \A e : FedBy(e)' = FedBy(e)
  BY <1>3 DEF Aligned, Progress, FedBy, FlywheelInv, CountInv
<1>6. CountInv'
  BY <1>3, <1>5, CountExcused DEF FlywheelInv
<1> QED
  BY <1>4, <1>6 DEF FlywheelInv

LEMMA WriteKeeps ==
  ASSUME FlywheelInv, NEW p \in Clerks, WriteStats(p) \/ ClerkDies(p)
  PROVE  FlywheelInv'
<1>1. /\ clerk[p] \in ClerkStates /\ stats \in Stats /\ commands \in Nat
  BY DEF FlywheelInv, AllocTypes
<1>2. stats' \in Stats
  <2>1. CASE ClerkDies(p)
    BY <1>1, <2>1 DEF ClerkDies
  <2>2. CASE WriteStats(p)
    <3>1. clerk[p].seen \in Stats
      BY <1>1, <2>2 DEF WriteStats, ClerkStates
    <3>2. \A e \in Evidence : Halved(clerk[p].seen[e]) \in [s : Nat, f : Nat]
      BY <3>1 DEF Halved, Stats
    <3>3. \A e \in Evidence : clerk[p].seen[e] \in [s : Nat, f : Nat]
      BY <3>1 DEF Stats
    <3>4. NoEvidence \in [s : Nat, f : Nat]
      BY DEF NoEvidence
    <3> QED
      BY <2>2, <3>2, <3>3, <3>4 DEF WriteStats, Stats
  <2> QED
    BY <2>1, <2>2
<1>3. Orders(p, Resting) /\ excused' = TRUE /\ UNCHANGED <<ledger, commands, decays, paid>>
  BY DEF WriteStats, ClerkDies
<1>4. /\ clerk' \in [Clerks -> ClerkStates] /\ clerk'[p] = Resting
      /\ \A q \in Clerks \ {p} : clerk'[q] = clerk[q]
      /\ \A q \in Clerks : Ordered(clerk'[q])
  BY <1>3, RestingTyped, OrdersKeep DEF FlywheelInv
<1>5. AllocTypes'
  BY <1>2, <1>3, <1>4 DEF FlywheelInv, AllocTypes
<1>6. clerk'[p].doing = "rest" /\ Aligned(p)'
  BY <1>4, RestingTyped DEF Aligned
<1>7. \A e : FedBy(e)' \subseteq FedBy(e)
  BY <1>4, <1>6, FedShrinks
<1>8. CountInv'
  BY <1>3, <1>4, <1>6, <1>7, CountExcused DEF FlywheelInv
<1> QED
  BY <1>5, <1>8 DEF FlywheelInv

LEMMA AllocateKeeps ==
  ASSUME FlywheelInv, UNCHANGED <<run, request>>, NEW p \in Clerks, Allocate(p)
  PROVE  FlywheelInv'
<1>1. ASSUME NEW failed \in SUBSET Targets, NEW keep \in BOOLEAN, Feed(p, failed, keep)
      PROVE  FlywheelInv'
  BY <1>1, FeedKeeps
<1>2. CASE \/ \E T \in Types, target \in Targets, ok \in BOOLEAN : Record(p, T, target, ok)
           \/ \E T \in Types : Decay(p, T) \/ Forget(p, T)
  BY <1>2, OrderKeeps
<1>3. CASE ForgetAll(p) \/ ReadStats(p) \/ RecordRow(p) \/ Finish(p)
  BY <1>3, ForgetAllKeeps, ReadKeeps, RecordKeeps, FinishKeeps
<1>4. CASE WriteStats(p) \/ ClerkDies(p)
  BY <1>4, WriteKeeps
<1> QED
  BY <1>1, <1>2, <1>3, <1>4 DEF Allocate

-----------------------------------------------------------------------------
(***************************************************************************)
(* Both together: a dispatch adds to the ledger what it adds to the count. *)
(***************************************************************************)

LEMMA AnswerGoes ==
  ASSUME StoryInv, NEW d \in Dispatches, Answer(d)
  PROVE  run[d].pc = "asked" /\ run'[d].pc = "answered" /\ NoAlloc
<1>1. PICK answer \in Answers, written \in BOOLEAN :
        Goes(d, [run[d] EXCEPT !.pc = "answered", !.rc = Judged(d, answer, written).rc,
                               !.kind = Judged(d, answer, written).kind,
                               !.artifact = Judged(d, answer, written).artifact])
  BY DEF Answer
<1>2. run \in [Dispatches -> RunStates] /\ run[d] \in RunStates
  BY DEF StoryInv, RunTypes
<1>3. run'[d].pc = "answered"
  BY <1>1, <1>2 DEF Goes, RunStates
<1>4. run[d].pc = "asked" /\ NoAlloc
  BY DEF Answer, At
<1> QED
  BY <1>3, <1>4

\* A dispatch comes to its end with a row, or not at all for the flywheel.
LEMMA OthersAreNotCounted ==
  ASSUME StoryInv, NEW d \in Dispatches, Runs(d) \/ Answer(d) \/ DispatchDies(d), ~AddRow(d),
         Moved(d)
  PROVE  NoAlloc /\ \A e : Counted(e)' = Counted(e)
<1>1. TaskInv /\ Story(d) /\ run \in [Dispatches -> RunStates] /\ run[d] \in RunStates
  BY DEF StoryInv, RunTypes
<1>2. NoAlloc /\ (run[d].pc # "returned" \/ Threw(d))
  <2>1. CASE Guard(d) \/ Refuse(d) \/ Reject(d) \/ Start(d) \/ Ask(d)
    BY <2>1 DEF Guard, Refuse, Reject, Start, Ask, At
  <2>2. CASE Answer(d) \/ Certify(d) \/ Close(d) \/ Incident(d)
    BY <2>2, AnswerGoes DEF Certify, Close, Incident, At
  <2>3. CASE ReadLedger(d) \/ Return(d) \/ Throw(d) \/ DispatchDies(d)
    BY <2>3 DEF ReadLedger, Return, Throw, DispatchDies, At
  <2> QED
    BY <2>1, <2>2, <2>3 DEF Runs
<1>3. run[d].pc # "returned"
  BY <1>1, <1>2 DEF Story, Speaks, Over, Threw
<1>4. run'[d].pc = "returned" => run'[d].rc = 2 \/ request[d].type = None
  <2>1. CASE Refuse(d) \/ Reject(d)
    <3> DEFINE next == [run[d] EXCEPT !.pc = "returned", !.rc = 2]
    <3>1. next \in RunStates /\ next.rc = 2
      BY <1>1 DEF RunStates, Steps, ExitCodes
    <3>2. Goes(d, next)
      BY <2>1 DEF Refuse, Reject
    <3> HIDE DEF next
    <3> QED
      BY <3>1, <3>2, GoesTyped
  <2>2. CASE Return(d)
    BY <2>2 DEF Return
  <2>3. ASSUME NEW pc \in Steps \ {"returned"}, GoesTo(d, pc)
        PROVE  run'[d].pc # "returned"
    BY <2>3, GoesMoves
  <2>4. CASE Guard(d) \/ Start(d) \/ Ask(d) \/ Close(d) \/ Throw(d) \/ DispatchDies(d)
    BY <2>3, <2>4 DEF Guard, Start, Ask, Close, Throw, DispatchDies, Steps
  <2>5. CASE Answer(d)
    BY <2>5, AnswerGoes
  <2>6. CASE Certify(d)
    <3>1. CASE GoesTo(d, "certified")
      BY <2>3, <3>1 DEF Steps
    <3>2. CASE Goes(d, [run[d] EXCEPT !.pc = "certified", !.certificate = actionCertificate(d)])
      BY <1>1, <3>2 DEF Goes, RunStates
    <3>3. CASE Goes(d, [run[d] EXCEPT !.pc = "certified", !.rc = 1,
                                      !.kind = "certificate-write-failed"])
      BY <1>1, <3>3 DEF Goes, RunStates
    <3> QED
      BY <2>6, <3>1, <3>2, <3>3 DEF Certify
  <2>7. CASE Incident(d)
    BY <1>1, <2>7 DEF Incident, Goes, RunStates
  <2>8. CASE ReadLedger(d)
    BY <1>1, <2>8 DEF ReadLedger, Goes, RunStates
  <2> QED
    BY <2>1, <2>2, <2>4, <2>5, <2>6, <2>7, <2>8 DEF Runs
<1>5. \A c \in Dispatches \ {d} : run'[c] = run[c]
  BY <1>1 DEF Moved
<1>6. ASSUME NEW e
      PROVE  Counted(e)' = Counted(e)
  BY <1>3, <1>4, <1>5 DEF Counted, At, Moved
<1> QED
  BY <1>2, <1>6

LEMMA AddRowKeeps ==
  ASSUME StoryInv, FlywheelInv, NEW d \in Dispatches, AddRow(d)
  PROVE  FlywheelInv'
<1> DEFINE row == <<request[d].type, request[d].target>>
           seen == run[d].seen
<1>1. /\ run \in [Dispatches -> RunStates] /\ run[d] \in RunStates /\ request[d] \in Requests
      /\ Story(d)
  BY DEF StoryInv, RunTypes
<1>2. /\ run[d].pc = "row" /\ run[d].rc # 2 /\ request[d].type # None
  BY <1>1 DEF AddRow, At, Story, Holds
<1>3. row \in Rows /\ seen \in {None} \cup Seq(Rows)
  BY <1>1, <1>2 DEF Rows, Requests, RunStates
<1>4. /\ ledger' = WithRow(seen, row) /\ excused' = (excused \/ seen # ledger)
      /\ UNCHANGED <<stats, clerk, commands, decays, paid>> /\ GoesTo(d, "returned")
  BY DEF AddRow, Overtaken
<1>5. /\ request' = request /\ run'[d].pc = "returned" /\ run'[d].rc = run[d].rc
      /\ \A c \in Dispatches \ {d} : run'[c] = run[c]
  BY <1>1, <1>4, GoesMoves DEF Steps
<1> HIDE DEF seen
<1>6. ledger' \in Seq(Rows) /\ ledger' = Append(IF seen = None THEN << >> ELSE seen, row)
  BY <1>3, <1>4 DEF WithRow
<1>7. AllocTypes'
  BY <1>4, <1>6 DEF FlywheelInv, AllocTypes
<1>8. \A p \in Clerks : Aligned(p)'
  BY <1>4 DEF FlywheelInv, CountInv, Aligned, Progress
<1>9. \A e : FedBy(e)' = FedBy(e)
  BY <1>4 DEF FedBy, Progress
<1>10. ASSUME ~excused', NEW e \in Evidence
       PROVE  Balanced(e)'
  <2>1. Balanced(e) /\ seen = ledger
    BY <1>4, <1>10 DEF FlywheelInv, CountInv
  <2>2. RowsOf(e)' = RowsOf(e) + IF Key(row) = e THEN 1 ELSE 0
    <3> DEFINE was == IF seen = None THEN << >> ELSE seen
    <3>1. was \in Seq(Rows) /\ RowsOf(e) = Cardinality(Positions(was, e))
      <4>1. CASE seen = None
        <5>1. RowsOf(e) = 0
          BY <2>1, <4>1 DEF RowsOf
        <5>2. Positions(<< >>, e) = {} /\ << >> \in Seq(Rows)
          BY DEF Positions
        <5> QED
          BY <4>1, <5>1, <5>2, FS_EmptySet
      <4>2. CASE seen # None
        BY <1>3, <2>1, <4>2, RowsOfIs
      <4> QED
        BY <4>1, <4>2
    <3>2. RowsOf(e)' = Cardinality(Positions(ledger', e))
      <4>1. None \notin Seq(Rows)
        BY AllocationAssumption
      <4>2. ledger' # None /\ DOMAIN ledger' = 1..Len(ledger')
        <5>1. \A rows \in Seq(Rows) : rows # None /\ DOMAIN rows = 1..Len(rows)
          BY <4>1
        <5> QED
          BY <1>6, <5>1
      <4> QED
        BY <4>2 DEF RowsOf, Quantify, Positions, Key
    <3>3. ledger' = Append(was, row)
      BY <1>6
    <3> HIDE DEF was, row
    <3>4. Cardinality(Positions(Append(was, row), e)) =
            Cardinality(Positions(was, e)) + IF Key(row) = e THEN 1 ELSE 0
      BY <1>3, <3>1, PositionsAppend
    <3> QED
      BY <3>1, <3>2, <3>3, <3>4
  <2>3. /\ d \notin Counted(e)
        /\ Counted(e)' = Counted(e) \cup (IF Key(row) = e THEN {d} ELSE {})
    BY <1>2, <1>5 DEF Counted, At, Key
  <2>4. IsFiniteSet(Counted(e)) /\ Cardinality(Counted(e)) \in Nat
    BY CountedFinite
  <2>5. Cardinality(Counted(e)') = Cardinality(Counted(e)) + IF Key(row) = e THEN 1 ELSE 0
    <3>1. Cardinality(Counted(e) \cup {d}) = Cardinality(Counted(e)) + 1
      BY <2>3, <2>4, FS_AddElement
    <3> QED
      BY <2>3, <2>4, <3>1
  <2>6. /\ paid[e].fed \in Nat /\ RowsOf(e) \in Nat /\ Cardinality(FedBy(e)) \in Nat
    BY RowsTyped, FS_CardinalityType DEF FlywheelInv, AllocTypes, CountInv
  <2>7. paid[e].fed + RowsOf(e)' = Cardinality(Counted(e)') + Cardinality(FedBy(e))
    <3>1. paid[e].fed + RowsOf(e) = Cardinality(Counted(e)) + Cardinality(FedBy(e))
      BY <2>1 DEF Balanced
    <3>2. \A f, r, c, x, k \in Nat : f + r = c + x => f + (r + k) = (c + k) + x
      OBVIOUS
    <3>3. (IF Key(row) = e THEN 1 ELSE 0) \in Nat
      OBVIOUS
    <3> HIDE DEF row
    <3> QED
      BY <2>2, <2>4, <2>5, <2>6, <3>1, <3>2, <3>3
  <2> QED
    BY <1>4, <1>9, <2>1, <2>7 DEF Balanced
<1> QED
  BY <1>7, <1>8, <1>9, <1>10 DEF FlywheelInv, CountInv

LEMMA DispatchFeeds ==
  ASSUME StoryInv, FlywheelInv, NEW d \in Dispatches, Runs(d) \/ Answer(d) \/ DispatchDies(d)
  PROVE  Moved(d) /\ FlywheelInv'
<1>1. Moved(d)
  BY DispatchMoves DEF FlywheelInv, AllocTypes
<1>2. CASE AddRow(d)
  BY <1>1, <1>2, AddRowKeeps
<1>3. CASE ~AddRow(d)
  <2>1. NoAlloc /\ \A e : Counted(e)' = Counted(e)
    BY <1>1, <1>3, OthersAreNotCounted
  <2>2. AllocTypes'
    BY <2>1 DEF NoAlloc, allocVars, FlywheelInv, AllocTypes
  <2>3. \A e : FedBy(e)' = FedBy(e)
    BY <2>1 DEF NoAlloc, allocVars, FedBy, Progress
  <2>4. \A p \in Clerks : Aligned(p)'
    BY <2>1 DEF NoAlloc, allocVars, FlywheelInv, CountInv, Aligned, Progress
  <2>5. \A e : RowsOf(e)' = RowsOf(e)
    BY <2>1 DEF NoAlloc, allocVars, RowsOf, Quantify
  <2>6. \A e \in Evidence : Balanced(e) => Balanced(e)'
    BY <2>1, <2>3, <2>5 DEF Balanced, NoAlloc, allocVars
  <2>7. excused' = excused
    BY <2>1 DEF NoAlloc, allocVars
  <2>8. \A e \in Evidence : IsFiniteSet(FedBy(e)')
    <3> SUFFICES ASSUME NEW e \in Evidence PROVE IsFiniteSet(FedBy(e)')
      OBVIOUS
    <3>1. IsFiniteSet(FedBy(e)) /\ FedBy(e)' = FedBy(e)
      BY <2>3 DEF FlywheelInv, CountInv
    <3> QED
      BY <3>1
  <2>9. ~excused' => \A e \in Evidence : Balanced(e)'
    BY <2>6, <2>7 DEF FlywheelInv, CountInv
  <2>10. CountInv'
    BY <2>4, <2>8, <2>9 DEF CountInv
  <2> QED
    BY <1>1, <2>2, <2>10 DEF FlywheelInv
<1> QED
  BY <1>1, <1>2, <1>3

-----------------------------------------------------------------------------
(***************************************************************************)
(* The inductive invariant.                                                *)
(***************************************************************************)

DispatchInv == StoryInv /\ FlywheelInv

LEMMA InitIsStory ==
  ASSUME Init
  PROVE  StoryInv
<1>1. PICK w \in Workloads : request = w.request /\ orders = w.orders /\ commands = w.commands
  BY DEF Init
<1>2. /\ request \in [Dispatches -> Requests] /\ orders \in Nat
      /\ taskFile = None /\ lock = None /\ call = [c \in Clients |-> Off]
      /\ run = [d \in Dispatches |-> New]
  BY <1>1, DispatchAssumption DEF Init, TaskInit
<1>3. New \in RunStates /\ New.pc = "new" /\ New.rc = 0 /\ New.certificate = None
  BY DEF New, RunStates, Steps, ExitCodes, Kinds, Artifacts, Certificates
<1>4. Off \in Calls /\ Off.step = "off"
  BY DEF Off, Calls
<1>5. TaskInv
  BY <1>2, <1>4 DEF TaskInv, Holding
<1>6. ASSUME NEW d \in Dispatches
      PROVE  Story(d)
  <2>1. run[d].pc = "new" /\ run[d].rc = 0 /\ run[d].certificate = None /\ call[d].step = "off"
    BY <1>2, <1>3, <1>4, DispatchAssumption
  <2>2. \A whats : LinesOf(d, whats) = {}
    BY <1>2 DEF LinesOf
  <2> QED
    BY <2>1, <2>2 DEF Story, Speaks, Said, Holds, Over
<1> QED
  BY <1>2, <1>3, <1>5, <1>6 DEF StoryInv, RunTypes

LEMMA InitIsCounted ==
  ASSUME Init
  PROVE  FlywheelInv
<1>1. /\ ledger = None /\ stats = [e \in Evidence |-> NoEvidence]
      /\ clerk = [p \in Clerks |-> Resting] /\ decays = 0
      /\ paid = [e \in Evidence |-> [fed |-> 0, told |-> 0]] /\ excused = FALSE
      /\ run = [d \in Dispatches |-> New] /\ commands \in Nat
  BY DispatchAssumption DEF Init, AllocInit
<1>2. AllocTypes
  <2>1. decays \in 0..MaxDecays
    BY <1>1, AllocationAssumption
  <2>2. clerk \in [Clerks -> ClerkStates] /\ \A p \in Clerks : Ordered(clerk[p])
    BY <1>1, RestingTyped
  <2>3. stats \in Stats /\ paid \in [Evidence -> [fed : Nat, told : Nat]]
    BY <1>1 DEF Stats, NoEvidence
  <2> QED
    BY <1>1, <2>1, <2>2, <2>3 DEF AllocTypes
<1>3. \A p \in Clerks : clerk[p].doing = "rest"
  BY <1>1, RestingTyped
<1>4. \A e : FedBy(e) = {} /\ Counted(e) = {} /\ RowsOf(e) = 0
  BY <1>1, <1>3 DEF FedBy, Counted, At, New, RowsOf
<1>5. \A e \in Evidence : Balanced(e)
  <2> SUFFICES ASSUME NEW e \in Evidence PROVE Balanced(e)
    OBVIOUS
  <2>1. stats[e].s = 0 /\ stats[e].f = 0 /\ paid[e].fed = 0 /\ paid[e].told = 0
    BY <1>1 DEF NoEvidence
  <2>2. Unit * (0 + 0) = 0 /\ Cardinality({}) = 0
    BY FS_EmptySet, AllocationAssumption
  <2> QED
    BY <1>4, <2>1, <2>2 DEF Balanced
<1>6. IsFiniteSet({})
  BY FS_EmptySet
<1>7. \A p \in Clerks : Aligned(p)
  BY <1>3 DEF Aligned
<1> QED
  BY <1>2, <1>4, <1>5, <1>6, <1>7 DEF FlywheelInv, CountInv

\* A step that leaves the flywheel and the dispatches leaves the account.
LEMMA CountStays ==
  ASSUME FlywheelInv, UNCHANGED <<allocVars, request, run>>
  PROVE  FlywheelInv'
<1>1. UNCHANGED <<ledger, stats, clerk, commands, decays, paid, excused, request, run>>
  BY DEF allocVars
<1>2. \A e : FedBy(e)' = FedBy(e) /\ RowsOf(e)' = RowsOf(e) /\ Counted(e)' = Counted(e)
  BY <1>1 DEF FedBy, Progress, RowsOf, Quantify, Counted, At
<1>3. \A e : Balanced(e)' <=> Balanced(e)
  BY <1>1, <1>2 DEF Balanced
<1>4. \A p \in Clerks : Aligned(p)'
  BY <1>1 DEF Aligned, Progress, FlywheelInv, CountInv
<1>5. \A e \in Evidence : IsFiniteSet(FedBy(e)')
  <2> SUFFICES ASSUME NEW e \in Evidence PROVE IsFiniteSet(FedBy(e)')
    OBVIOUS
  <2>1. IsFiniteSet(FedBy(e)) /\ FedBy(e)' = FedBy(e)
    BY <1>2 DEF FlywheelInv, CountInv
  <2> QED
    BY <2>1
<1>6. ~excused' => \A e \in Evidence : Balanced(e)'
  BY <1>1, <1>3 DEF FlywheelInv, CountInv
<1>7. CountInv'
  BY <1>4, <1>5, <1>6 DEF CountInv
<1>8. AllocTypes'
  BY <1>1 DEF FlywheelInv, AllocTypes
<1> QED
  BY <1>7, <1>8 DEF FlywheelInv

LEMMA MovedKeeps ==
  ASSUME StoryInv, NEW d \in Dispatches, Moved(d)
  PROVE  StoryInv'
<1>1. d \in Clients /\ Dispatches \subseteq Clients
  BY DispatchAssumption
<1>2. TaskInv'
  <2>1. UNCHANGED <<taskFile, lock>> /\ orders' \in Nat
    BY DEF Moved, NoTask, StoryInv, TaskInv
  <2>2. CASE call' = call
    BY <2>1, <2>2 DEF StoryInv, TaskInv
  <2>3. CASE Begins(d) \/ Drops(d)
    BY <1>1, <2>1, <2>3, BeginKeeps DEF StoryInv
  <2> QED
    BY <2>2, <2>3 DEF Moved
<1>3. run' \in [Dispatches -> RunStates] /\ \A c \in Dispatches \ {d} : run'[c] = run[c]
  BY DEF Moved, StoryInv, RunTypes
<1>4. \A c \in Dispatches \ {d} : Story(c)'
  <2> SUFFICES ASSUME NEW c \in Dispatches \ {d} PROVE Story(c)'
    OBVIOUS
  <2>1. run'[c] = run[c] /\ call'[c] = call[c] /\ request' = request /\ UNCHANGED taskFile
    BY <1>1, <1>3 DEF Moved, NoTask
  <2>2. Story(c)
    BY DEF StoryInv
  <2> QED
    BY <2>1, <2>2, StoryFrame
<1>5. Story(d)' /\ request' = request
  BY DEF Moved
<1> QED
  BY <1>2, <1>3, <1>4, <1>5 DEF StoryInv, RunTypes

LEMMA DispatchStep ==
  ASSUME DispatchInv, [Next]_vars
  PROVE  DispatchInv'
<1>1. StoryInv /\ FlywheelInv
  BY DEF DispatchInv
<1>2. ASSUME NEW d \in Dispatches, Runs(d) \/ Answer(d) \/ DispatchDies(d)
      PROVE  DispatchInv'
  BY <1>1, <1>2, DispatchFeeds, MovedKeeps DEF DispatchInv
<1>3. ASSUME NEW c \in Clients, Locked(c)
      PROVE  DispatchInv'
  <2>1. Section(c) /\ UNCHANGED <<allocVars, request, run>>
    BY <1>3 DEF Locked
  <2>2. TaskInv' /\ \A d \in Dispatches : Story(d)'
    BY <1>1, <2>1, SectionKeeps, SectionTells DEF StoryInv
  <2>3. RunTypes'
    BY <1>1, <2>1 DEF StoryInv, RunTypes
  <2> QED
    BY <1>1, <2>1, <2>2, <2>3, CountStays DEF DispatchInv, StoryInv
<1>4. CASE TaskSteps
  <2>1. UNCHANGED <<allocVars, request, run>>
    BY <1>4 DEF TaskSteps
  <2>2. TaskInv' /\ \A d \in Dispatches : Story(d)'
    BY <1>1, <1>4, TaskStepKeeps, TaskStepTells DEF StoryInv
  <2>3. RunTypes'
    BY <1>1, <2>1 DEF StoryInv, RunTypes
  <2> QED
    BY <1>1, <2>1, <2>2, <2>3, CountStays DEF DispatchInv, StoryInv
<1>5. CASE AllocSteps
  <2>1. PICK p \in Clerks : Allocate(p) /\ UNCHANGED <<taskVars, request, run>>
    BY <1>5 DEF AllocSteps
  <2>2. FlywheelInv'
    BY <1>1, <2>1, AllocateKeeps
  <2>3. UNCHANGED <<taskFile, lock, call, orders, request, run>>
    BY <2>1 DEF taskVars
  <2>4. TaskInv' /\ RunTypes' /\ \A d \in Dispatches : Story(d)'
    BY <1>1, <2>3, StoryFrame DEF StoryInv, TaskInv, RunTypes
  <2> QED
    BY <2>2, <2>4 DEF DispatchInv, StoryInv
<1>6. CASE UNCHANGED vars
  <2>1. UNCHANGED <<taskFile, lock, call, orders, request, run>> /\ UNCHANGED <<allocVars, request, run>>
    BY <1>6 DEF vars, taskVars
  <2>2. TaskInv' /\ RunTypes' /\ \A d \in Dispatches : Story(d)'
    BY <1>1, <2>1, StoryFrame DEF StoryInv, TaskInv, RunTypes
  <2> QED
    BY <1>1, <2>1, <2>2, CountStays DEF DispatchInv, StoryInv
<1> QED
  BY <1>2, <1>3, <1>4, <1>5, <1>6 DEF Next

\* All that dispatches, task and allocate commands do side by side keeps the invariant,
\* whichever of them die and whichever writes fail.
THEOREM DispatchInvCorrect == Spec => []DispatchInv
<1>1. Init => DispatchInv
  BY InitIsStory, InitIsCounted DEF DispatchInv
<1>2. DispatchInv /\ [Next]_vars => DispatchInv'
  BY DispatchStep
<1> QED
  BY <1>1, <1>2, PTL DEF Spec

-----------------------------------------------------------------------------
(***************************************************************************)
(* What follows from it.                                                   *)
(***************************************************************************)

LEMMA FewLines ==
  ASSUME DispatchInv, NEW d \in Dispatches, NEW whats, \A i, j \in LinesOf(d, whats) : i = j
  PROVE  Cardinality(LinesOf(d, whats)) <= 1
<1>1. CASE LinesOf(d, whats) = {}
  BY <1>1, FS_EmptySet
<1>2. ASSUME NEW i \in LinesOf(d, whats)
      PROVE  Cardinality(LinesOf(d, whats)) <= 1
  <2>1. LinesOf(d, whats) = {i}
    BY <1>2
  <2> QED
    <3>1. Cardinality({i}) = 1
      BY FS_Singleton
    <3> QED
      BY <2>1, <3>1
<1> QED
  BY <1>1, <1>2

LEMMA InvTyped ==
  ASSUME DispatchInv
  PROVE  TypeOK
<1>1. TaskTypeOK
  <2>1. TaskInv
    BY DEF DispatchInv, StoryInv
  <2>2. taskFile # None => \A i \in DOMAIN taskFile.log : taskFile.log[i].by \in Clients
    <3>1. taskFile # None => taskFile.log \in Seq(Lines)
      BY <2>1 DEF TaskInv, TaskFiles
    <3>2. \A line \in Lines : line.by \in Clients
      BY DEF Lines
    <3> QED
      BY <3>1, <3>2
  <2> QED
    BY <2>1, <2>2 DEF TaskTypeOK, TaskInv, TaskFiles, Calls, Holding
<1>2. AllocTypeOK
  BY DEF DispatchInv, FlywheelInv, AllocTypes, AllocTypeOK, Stats, ClerkStates, Feeding
<1>3. ASSUME NEW d \in Dispatches
      PROVE  /\ run[d].pc \in Steps
             /\ run[d].rc \in {0, 1, 2, 124}
             /\ run[d].artifact \in {None, "text", "blank"}
             /\ run[d].certificate \in {None, 0, 1, 124}
             /\ run[d].seen = None \/ run[d].seen \in Seq(Rows)
  BY DEF DispatchInv, StoryInv, RunTypes, RunStates, ExitCodes, Artifacts, Certificates
<1> QED
  BY <1>1, <1>2, <1>3 DEF TypeOK

\* What a dispatch leaves of itself tells one story, for any number of dispatches and of
\* commands next to them: one line starts it, one closes it with the exit code it returns,
\* and its artifact and certificate agree with that line.
THEOREM OneStoryAlways == Spec => []OneStory
<1>1. DispatchInv => OneStory
  <2> SUFFICES ASSUME DispatchInv
               PROVE  OneStory
    OBVIOUS
  <2>1. ASSUME NEW d \in Dispatches
        PROVE  /\ Cardinality(LinesOf(d, {"started"})) <= 1
               /\ Cardinality(LinesOf(d, {"ok", "failed"})) <= 1
               /\ \A i \in LinesOf(d, {"started"}), j \in LinesOf(d, {"ok", "failed", "incident"}) :
                    i < j
    <3>1. Said(d)
      BY DEF DispatchInv, StoryInv, Story
    <3>2. LinesOf(d, {"ok", "failed", "incident"})
            = LinesOf(d, {"ok", "failed"}) \cup LinesOf(d, {"incident"})
      BY DEF LinesOf
    <3> QED
      BY <3>1, <3>2, FewLines DEF Said, Closes
  <2>2. ASSUME NEW d \in Dispatches, NEW j \in LinesOf(d, {"ok", "failed"})
        PROVE  LET line == taskFile.log[j]
               IN  /\ line.rc = run[d].rc
                   /\ line.what = "ok" /\ request[d].out => run[d].artifact # None
                   /\ line.what = "ok" /\ request[d].certificate => run[d].certificate = 0
                   /\ run[d].certificate # None => run[d].certificate = line.rc
                   /\ run[d].artifact # None => line.rc = 0 \/ run[d].kind = "certificate-write-failed"
                   /\ run[d].artifact = "blank" => ~request[d].requireOutput
    BY <2>2 DEF DispatchInv, StoryInv, Story, Said, Holds, Agrees, Filed, Closes
  <2> QED
    BY <2>1, <2>2, InvTyped DEF OneStory
<1> QED
  BY <1>1, DispatchInvCorrect, PTL

\* The flywheel counts every dispatch once, for any number of them, of clerks and of
\* commands, as long as no command overtakes another and none decays, resets, keeps or dies.
THEOREM CountedOnceAlways == Spec => []CountedOnce
<1>1. DispatchInv => CountedOnce
  <2> SUFFICES ASSUME DispatchInv, ~excused, NEW e \in Evidence
               PROVE  /\ stats[e].s + stats[e].f = Unit * (paid[e].fed + paid[e].told)
                      /\ (\A p \in Clerks : clerk[p].doing \notin {"feed", "keep"}) =>
                           paid[e].fed + RowsOf(e) = Cardinality(Counted(e))
    BY DEF CountedOnce, Counted
  <2>1. Balanced(e)
    BY DEF DispatchInv, FlywheelInv, CountInv
  <2>2. ASSUME \A p \in Clerks : clerk[p].doing \notin {"feed", "keep"}
        PROVE  paid[e].fed + RowsOf(e) = Cardinality(Counted(e))
    <3>1. FedBy(e) = {}
      BY <2>2 DEF FedBy
    <3>2. Cardinality(FedBy(e)) = 0 /\ Cardinality(Counted(e)) \in Nat
      BY <3>1, FS_EmptySet, CountedFinite
    <3> QED
      BY <2>1, <3>2 DEF Balanced
  <2> QED
    BY <2>1, <2>2 DEF Balanced
<1> QED
  BY <1>1, DispatchInvCorrect, PTL

\* The record of a task only grows and does not reopen: the writer that replaces the file
\* holds its lock since before it read it.
THEOREM RecordOnlyGrowsAlways == Spec => RecordOnlyGrows
<1> DEFINE Grows == taskFile # None =>
              /\ taskFile' # None
              /\ IsPrefix(taskFile.log, taskFile'.log)
              /\ taskFile.status = "DONE" => taskFile'.status = "DONE"
<1>1. ASSUME DispatchInv, [Next]_vars
      PROVE  [Grows]_taskVars
  <2>1. TaskInv
    BY <1>1 DEF DispatchInv, StoryInv
  <2>2. ASSUME taskFile' = taskFile, taskFile # None
        PROVE  Grows
    <3>1. taskFile.log \in Seq(Lines)
      BY <2>1, <2>2 DEF TaskInv, TaskFiles
    <3>2. IsPrefix(taskFile.log, taskFile.log)
      BY <3>1 DEF IsPrefix
    <3> QED
      BY <2>2, <3>2
  <2>3. ASSUME NEW c \in Clients, call[c].step = "write", taskFile' = Written(c)
        PROVE  Grows
    <3>1. /\ taskFile \in TaskFiles /\ Written(c) \in TaskFiles
          /\ call[c].line = Done => Written(c) = [taskFile EXCEPT !.status = "DONE"]
          /\ call[c].line # Done =>
               Written(c) = [taskFile EXCEPT !.log = Append(taskFile.log, call[c].line)]
      BY <2>1, <2>3, WrittenFile
    <3>2. taskFile.log \in Seq(Lines) /\ taskFile' # None
      BY <2>3, <3>1, TaskAssumption DEF TaskFiles
    <3>3. CASE call[c].line = Done
      <4>1. taskFile'.log = taskFile.log /\ taskFile'.status = "DONE"
        BY <2>3, <3>1, <3>3 DEF TaskFiles
      <4>2. IsPrefix(taskFile.log, taskFile.log)
        BY <3>2 DEF IsPrefix
      <4> QED
        BY <3>2, <4>1, <4>2
    <3>4. CASE call[c].line # Done
      <4>1. /\ taskFile'.log = Append(taskFile.log, call[c].line)
            /\ taskFile'.status = taskFile.status
        BY <2>3, <3>1, <3>4 DEF TaskFiles
      <4>2. call[c].line \in Lines
        BY <2>1, <2>3 DEF TaskInv
      <4>3. IsPrefix(taskFile.log, Append(taskFile.log, call[c].line))
        BY <3>2, <4>2 DEF IsPrefix
      <4> QED
        BY <3>2, <4>1, <4>3
    <3> QED
      BY <3>3, <3>4
  <2>4. \/ taskFile' = taskFile \/ taskFile = None
        \/ \E c \in Clients : call[c].step = "write" /\ taskFile' = Written(c)
    <3>1. ASSUME NEW d \in Dispatches, Runs(d) \/ Answer(d) \/ DispatchDies(d)
          PROVE  taskFile' = taskFile
      BY <1>1, <3>1, DispatchFeeds DEF DispatchInv, Moved, NoTask
    <3>2. ASSUME NEW c \in Clients, Locked(c)
          PROVE  taskFile' = taskFile \/ (call[c].step = "write" /\ taskFile' = Written(c))
      BY <2>1, <3>2, SectionMoves DEF Locked
    <3>3. CASE TaskSteps
      BY <3>3 DEF TaskSteps, NewTask, TaskCommand, TaskCommandEnds, TaskCommandDies, Die
    <3>4. CASE AllocSteps \/ UNCHANGED vars
      BY <3>4 DEF AllocSteps, vars, taskVars
    <3> QED
      BY <1>1, <3>1, <3>2, <3>3, <3>4 DEF Next
  <2> QED
    BY <2>2, <2>3, <2>4
<1>2. Spec => [][Grows]_taskVars
  BY <1>1, DispatchInvCorrect, PTL DEF Spec
<1> QED
  BY <1>2 DEF RecordOnlyGrows

-----------------------------------------------------------------------------
(***************************************************************************)
(* The ranking.  An unlisted agent's prior, 3/20, is below that of the     *)
(* last on a bench of n, 1/(n + 1), only up to five; the longest bench of  *)
(* src/orchestration/fuguectl/allocation.tsv has four.                     *)
(***************************************************************************)

ShortBenches == \A T \in Types : Len(Bench[T]) <= 5

LEMMA RanksTyped ==
  ASSUME NEW T \in Types, NEW a \in Agents
  PROVE  /\ Len(Bench[T]) \in Nat
         /\ a \in ToSet(Bench[T]) => BenchRank(T, a) \in 1..Len(Bench[T])
         /\ a \notin ToSet(Bench[T]) => BenchRank(T, a) = Len(AgentNames) + Len(Bench[T])
<1>1. Bench[T] \in Seq(Agents)
  BY AllocationAssumption
<1> QED
  BY <1>1 DEF BenchRank, ToSet

\* Who is lower on the bench has no better prior.
LEMMA PriorsFollow ==
  ASSUME ShortBenches, NEW T \in Types, NEW a \in Agents, NEW b \in Agents,
         BenchRank(T, a) > BenchRank(T, b)
  PROVE  /\ Prior(T, a) \in Nat /\ Prior(T, b) \in Nat
         /\ Prior(T, a) <= Prior(T, b)
         /\ Prior(T, b) <= 20 * (Len(Bench[T]) + 1)
<1> DEFINE n == Len(Bench[T])
           i == BenchRank(T, a)
           j == BenchRank(T, b)
           listed(x) == x \in ToSet(Bench[T])
<1>1. /\ n \in Nat /\ n <= 5 /\ Len(AgentNames) \in Nat
      /\ listed(a) => i \in 1..n
      /\ listed(b) => j \in 1..n
      /\ ~listed(a) => i = Len(AgentNames) + n
      /\ ~listed(b) => j = Len(AgentNames) + n
  <2>1. AgentNames \in Seq(Agents)
    BY AllocationAssumption
  <2> QED
    BY <2>1, RanksTyped DEF ShortBenches
<1>2. /\ Prior(T, a) = IF listed(a) THEN 20 * (n + 1 - i) ELSE 3 * (n + 1)
      /\ Prior(T, b) = IF listed(b) THEN 20 * (n + 1 - j) ELSE 3 * (n + 1)
  BY DEF Prior
<1>3. i > j
  OBVIOUS
<1> HIDE DEF n, i, j, listed
<1>4. listed(b)
  BY <1>1, <1>3
<1>5. CASE listed(a)
  BY <1>1, <1>2, <1>3, <1>4, <1>5 DEF n
<1>6. CASE ~listed(a)
  BY <1>1, <1>2, <1>4, <1>6 DEF n
<1> QED
  BY <1>5, <1>6

\* The arithmetic of the scores: p and q are the priors, u the weight of an outcome, f the
\* failures of the one with prior p, who has no success, and s the other's successes.
LEMMA MeansFollow ==
  ASSUME NEW u \in Nat, NEW p \in Nat, NEW q \in Nat, NEW c \in Nat, NEW f \in Nat, NEW s \in Nat,
         p <= q, q <= c
  PROVE  (u * (4 * p + c)) * (c * (6 * u + s)) <= (u * (4 * q + c) + c * s) * (c * (6 * u + f))
OBVIOUS

LEMMA NotBefore ==
  ASSUME DispatchInv, ShortBenches, NEW T \in Types, NEW a \in Agents, NEW b \in Agents,
         BenchRank(T, a) > BenchRank(T, b), stats[<<T, a>>].s = 0, stats[<<T, b>>].f = 0
  PROVE  ~Before(T, a, b)
<1> DEFINE c == 20 * (Len(Bench[T]) + 1)
           p == Prior(T, a)
           q == Prior(T, b)
           f == stats[<<T, a>>].f
           s == stats[<<T, b>>].s
<1>1. p \in Nat /\ q \in Nat /\ c \in Nat /\ p <= q /\ q <= c
  BY PriorsFollow, RanksTyped
<1>2. f \in Nat /\ s \in Nat /\ Unit \in Nat
  <2>1. <<T, a>> \in Evidence /\ <<T, b>> \in Evidence
    BY DEF Evidence
  <2> QED
    BY <2>1, AllocationAssumption DEF DispatchInv, FlywheelInv, AllocTypes, Stats
<1>3. /\ Score(T, a).num = Unit * (4 * p + c) + c * 0 /\ Score(T, a).den = c * (6 * Unit + 0 + f)
      /\ Score(T, b).num = Unit * (4 * q + c) + c * s /\ Score(T, b).den = c * (6 * Unit + s + 0)
  BY DEF Score
<1> HIDE DEF c, p, q, f, s
<1>4. /\ Score(T, a).num = Unit * (4 * p + c) /\ Score(T, a).den = c * (6 * Unit + f)
      /\ Score(T, b).num = Unit * (4 * q + c) + c * s /\ Score(T, b).den = c * (6 * Unit + s)
  BY <1>1, <1>2, <1>3
<1>5. (Unit * (4 * p + c)) * (c * (6 * Unit + s))
        <= (Unit * (4 * q + c) + c * s) * (c * (6 * Unit + f))
  BY <1>1, <1>2, MeansFollow
<1>6. ~(Compare(T, a, b) > 0)
  <2> DEFINE l == (Unit * (4 * p + c)) * (c * (6 * Unit + s))
             r == (Unit * (4 * q + c) + c * s) * (c * (6 * Unit + f))
  <2>1. Compare(T, a, b) = l - r
    BY <1>4 DEF Compare
  <2>2. l \in Nat /\ r \in Nat /\ l <= r
    BY <1>1, <1>2, <1>5
  <2> HIDE DEF l, r
  <2> QED
    BY <2>1, <2>2
<1>7. BenchRank(T, a) \in Nat /\ BenchRank(T, b) \in Nat
  <2>1. AgentNames \in Seq(Agents)
    BY AllocationAssumption
  <2> QED
    BY <2>1, RanksTyped
<1>8. ~(BenchRank(T, a) < BenchRank(T, b)) /\ BenchRank(T, a) # BenchRank(T, b)
  BY <1>7
<1> QED
  BY <1>6, <1>8 DEF Before

\* Routing drifts from a short bench only where evidence of the same type has moved it,
\* whatever is recorded for others, decayed, reset or overwritten.
THEOREM RankIsEarnedAlways ==
  ASSUME ShortBenches
  PROVE  Spec => []RankIsEarned
<1>1. DispatchInv => RankIsEarned
  <2> SUFFICES ASSUME DispatchInv, NEW T \in Types, NEW a \in Candidates(T),
                      NEW b \in Candidates(T),
                      BenchRank(T, a) > BenchRank(T, b), Before(T, a, b)
               PROVE  stats[<<T, a>>].s > 0 \/ stats[<<T, b>>].f > 0
    BY DEF RankIsEarned
  <2>1. a \in Agents /\ b \in Agents
    BY DEF Candidates
  <2>2. stats[<<T, a>>].s \in Nat /\ stats[<<T, b>>].f \in Nat
    <3>1. <<T, a>> \in Evidence /\ <<T, b>> \in Evidence
      BY <2>1 DEF Evidence
    <3> QED
      BY <3>1 DEF DispatchInv, FlywheelInv, AllocTypes, Stats
  <2>3. stats[<<T, a>>].s # 0 \/ stats[<<T, b>>].f # 0
    BY <2>1, NotBefore
  <2> QED
    BY <2>2, <2>3
<1> QED
  BY <1>1, DispatchInvCorrect, PTL

=============================================================================
