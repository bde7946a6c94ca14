------------------------------ MODULE Companion -----------------------------
(* cn-companion.mjs, the coding-model companion: `task` asks one model,       *)
(* `team` several at once, `ping` and `setup` only whether they answer.  A    *)
(* model is a launcher run as a child with a time limit, which a late one is  *)
(* asked to end at and may ignore.  A ping waits for its launcher all the     *)
(* same; a run is reported without it, but node stays until it has ended.     *)
EXTENDS Absent, Naturals

CONSTANTS Models,       \* model -> the profiles it may be given
          DefaultTeam,  \* the members of a team nobody named
          Calls         \* the command lines

VARIABLES asked,      \* the command line, or None before it is given
          available,  \* member -> what its ping said, as far as they were asked
          ping,       \* the ping at work: [of, late], late if it was asked to end
          child,      \* member -> its launcher: "none", "alive" or how it ended
          promise,    \* member -> how its run was settled
          report,     \* what the companion printed, and its exit status
          gone        \* whether its process has ended

companionVars == <<asked, available, ping, child, promise, report, gone>>

Member(name, profile) == [name |-> name, profile |-> profile]
Empty == << >>

CompanionInit == /\ asked = None /\ report = None /\ ping = None /\ gone = FALSE
                 /\ available = Empty /\ child = Empty /\ promise = Empty

-----------------------------------------------------------------------------
(* The command line.                                                         *)

(* Bare members get no profile; one named twice is asked once, and the order *)
(* they are told in is left out.                                             *)
Members(c) ==
  IF c.op # "team" THEN c.members
  ELSE IF c.all THEN {Member(model, None) : model \in DOMAIN Models}
  ELSE IF c.members # {} THEN c.members ELSE DefaultTeam

Profiled(m) == m.name \in DOMAIN Models /\ (m.profile # None => m.profile \in Models[m.name])

(* Nothing runs before the whole line is known to be right.                  *)
Valid(c) == /\ \A m \in Members(c) : Profiled(m)
            /\ Members(c) # {}
            /\ c.op \in {"task", "team"} => c.prompt

Named == UNION {Members(c) : c \in Calls}
Said(text, code) == [text |-> text, exit |-> code]
Team == Members(asked)
Ran == {m \in Team : available[m]}

Call(c) ==
  /\ asked = None /\ asked' = c
  /\ report' = IF ~Valid(c) THEN Said("refused", 1)
               ELSE IF c.op \in {"task", "team"} /\ c.dryRun THEN Said("plan", 0) ELSE None
  /\ UNCHANGED <<available, ping, child, promise, gone>>

Working == asked # None /\ report = None

(* spawnSync, one member after the other, before anything is started; it       *)
(* returns when the launcher has ended, and not when its time is up.          *)
pingModel(m) ==
  /\ Working /\ ping = None /\ m \in Team \ DOMAIN available
  /\ ping' = [of |-> m, late |-> FALSE]
  /\ UNCHANGED <<asked, available, child, promise, report, gone>>

PingEnds ==
  /\ ping # None /\ ping' = None
  /\ \E answers \in BOOLEAN :
       available' = [x \in DOMAIN available \cup {ping.of} |-> IF x = ping.of THEN answers ELSE available[x]]
  /\ UNCHANGED <<asked, child, promise, report, gone>>

PingIsLate ==
  /\ ping # None /\ ~ping.late /\ ping' = [ping EXCEPT !.late = TRUE]
  /\ UNCHANGED <<asked, available, child, promise, report, gone>>

Pinged == Working /\ ping = None /\ DOMAIN available = Team /\ child = Empty

(* One offline backend does not abort the rest; all of them do.              *)
Begin ==
  /\ Pinged
  /\ \/ /\ asked.op \in {"ping", "setup"}
        /\ report' = Said(available, 0)
        /\ UNCHANGED <<child, promise>>
     \/ /\ asked.op \in {"task", "team"} /\ Ran = {}
        /\ report' = Said("unavailable", 1)
        /\ UNCHANGED <<child, promise>>
     \/ /\ asked.op \in {"task", "team"} /\ Ran # {}
        /\ child' = [m \in Ran |-> "alive"] /\ promise' = [m \in Ran |-> "pending"]
        /\ UNCHANGED report
  /\ UNCHANGED <<asked, available, ping, gone>>

-----------------------------------------------------------------------------
(* A run.                                                                    *)

(* The launcher ends, and whatever else holds its output: with a status, or  *)
(* by a signal, which is no status at all.                                   *)
ChildEnds(m, how) ==
  /\ m \in DOMAIN child /\ child[m] = "alive"
  /\ child' = [child EXCEPT ![m] = how]
  /\ UNCHANGED <<asked, available, ping, promise, report, gone>>

Pending(m) == m \in DOMAIN promise /\ promise[m] = "pending"

Closes(m) == /\ Pending(m) /\ child[m] \in {"zero", "nonzero", "signal"}
             /\ promise' = [promise EXCEPT ![m] = child[m]]
             /\ UNCHANGED <<asked, available, ping, child, report, gone>>

SpawnErrs(m) == /\ Pending(m) /\ child[m] = "alive"
                /\ child' = [child EXCEPT ![m] = "unspawned"]
                /\ promise' = [promise EXCEPT ![m] = "rejected"]
                /\ UNCHANGED <<asked, available, ping, report, gone>>

TimesOut_Waits(m) ==
  /\ Pending(m) /\ child[m] = "alive"
  /\ \E how \in {"signal", "deaf"} : child' = [child EXCEPT ![m] = how]
  /\ UNCHANGED <<asked, available, ping, promise, report, gone>>

(* The time is up: the child is asked to end, and the run is over whether it  *)
(* does or not.                                                              *)
TimesOut(m) ==
  /\ Pending(m)
  /\ promise' = [promise EXCEPT ![m] = "rejected"]
  /\ \E obeys \in BOOLEAN : child' = IF obeys /\ child[m] = "alive" THEN [child EXCEPT ![m] = "signal"] ELSE child
  /\ UNCHANGED <<asked, available, ping, report, gone>>

-----------------------------------------------------------------------------
(* The report.                                                               *)

Settled_First(m) == \E x \in DOMAIN promise : promise[x] = "rejected"

(* allSettled: a single failure never sinks the batch.                       *)
Settled(m) == promise[m] # "pending"

Results == [m \in Ran |-> promise[m] = "zero"]

(* A member that was killed has no exit code, and `task` passes that on: the  *)
(* shell is told 0.                                                          *)
TaskExit(m) == IF promise[m] \in {"nonzero", "rejected"} THEN 1 ELSE 0

ReportTask ==
  /\ Working /\ asked.op = "task" /\ promise # Empty
  /\ \E m \in Ran : /\ Settled(m)
                    /\ report' = Said([results |-> Results, skipped |-> {}], TaskExit(m))
  /\ UNCHANGED <<asked, available, ping, child, promise, gone>>

ReportTeam ==
  /\ Working /\ asked.op = "team" /\ promise # Empty
  /\ \A m \in Ran : Settled(m)
  /\ report' = Said([results |-> Results, skipped |-> Team \ Ran],
                    IF \E m \in Ran : Results[m] THEN 0 ELSE 1)
  /\ UNCHANGED <<asked, available, ping, child, promise, gone>>

(* Nothing calls process.exit: node goes when no launcher is left, nor any    *)
(* output of one to read.                                                    *)
Lives == \E m \in DOMAIN child : child[m] = "alive"
Goes == /\ report # None /\ ~gone /\ ~Lives
        /\ gone' = TRUE
        /\ UNCHANGED <<asked, available, ping, child, promise, report>>

Reacts(m) == Closes(m) \/ TimesOut(m)

CompanionNext ==
  \/ \E c \in Calls : Call(c)
  \/ \E m \in Named :
       \/ pingModel(m) \/ Closes(m) \/ SpawnErrs(m) \/ TimesOut(m)
       \/ \E how \in {"zero", "nonzero", "signal"} : ChildEnds(m, how)
  \/ PingEnds \/ PingIsLate \/ Begin \/ Goes \/ ReportTask \/ ReportTeam

(* The companion goes on and its timers fire.  A launcher may hang, whether  *)
(* it was asked to end or not.                                               *)
CompanionFairness ==
  /\ WF_companionVars(Begin \/ Goes \/ ReportTask \/ ReportTeam)
  /\ WF_companionVars(PingIsLate)
  /\ \A m \in Named : WF_companionVars(pingModel(m)) /\ WF_companionVars(Reacts(m))

-----------------------------------------------------------------------------
(* What the companion promises.                                              *)

(* A team's report accounts for every member that was named, once: skipped if *)
(* its ping failed, and otherwise with a result, which is good exactly if     *)
(* its launcher ended with 0 in time; the status is 0 if one of them is good. *)
TeamAccountsForAll ==
  asked # None /\ asked.op = "team" /\ report # None /\ DOMAIN promise # {} =>
    LET r == report.text IN
    /\ Team = DOMAIN r.results \cup r.skipped /\ DOMAIN r.results \cap r.skipped = {}
    /\ \A m \in DOMAIN r.results : /\ r.results[m] <=> child[m] = "zero" /\ promise[m] = "zero"
                                   /\ promise[m] # "pending"
    /\ report.exit = 0 <=> \E m \in DOMAIN r.results : child[m] = "zero" /\ promise[m] # "rejected"

(* A command that was given is answered even if launchers that were told to   *)
(* end do not, unless that is one which is only asked for its version: a ping *)
(* has no other limit (cn-companion.mjs:282-319).  The command's process goes *)
(* too when its last launcher does.                                          *)
PingHangs == ping # None /\ ping.late
CompanionAnswers ==
  /\ []<>~PingHangs => (asked # None ~> report # None)
  /\ report # None /\ ~Lives ~> gone
=============================================================================
