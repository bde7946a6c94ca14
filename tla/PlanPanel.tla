------------------------------ MODULE PlanPanel -----------------------------
(* `fuguectl plan`: one goal goes to several planners at once, and each is    *)
(* told to write its plan to a file of its own in the output directory; what  *)
(* it prints is kept there if it did not.  summary.json in the same directory *)
(* says how the panel stands.  Panels come one after the other; one may die   *)
(* half way, and the planners it leaves behind go on writing.                 *)
EXTENDS Absent, Naturals, FiniteSets

CONSTANTS Targets,    \* the planners' names; each has a file name of its own or shares one
          Filename,   \* target -> its artifact's file name
          Panels,     \* what may be asked: [targets, partial]
          MaxPanels,  \* bound: panels asked
          PanelFaults \* bound: failing writes and deaths

(* What a file and summary.json may say.                                     *)
PlanFiles == [in : 0..MaxPanels, by : {"planner", "panel"}]
Summaries == [of : 0..MaxPanels, status : {"running", "ok", "partial", "failed"}, exit : {0, 1}, results : SUBSET Targets]

ASSUME PlanAssumption ==
  /\ MaxPanels \in Nat /\ None \notin PlanFiles \cup Summaries
  /\ \A p \in Panels : p.targets \subseteq Targets

VARIABLES panel,      \* the panel at work: [n, of, at, exit, flaw]; flaw: what broke it
          planner,    \* target -> where its part of the panel stands
          file,       \* file name -> the panel it was written in and by what, or None
          summary,    \* summary.json: [of, status, exit, results]
          orphans,    \* planners a dead panel left running
          broken

planVars == <<panel, planner, file, summary, orphans, broken>>

New == [at |-> "new", ok |-> FALSE, output |-> FALSE, artifact |-> "pending"]
Here == panel.of.targets

PlanInit == /\ panel = [n |-> 0, of |-> None, at |-> "over", exit |-> None, flaw |-> None]
            /\ planner = [t \in Targets |-> New]
            /\ file = [f \in {Filename[t] : t \in Targets} |-> None]
            /\ summary = None /\ orphans = {} /\ broken = 0

Fault == broken < PanelFaults /\ broken' = broken + 1

(* The panel ends, with an exit status or by dying.  Something it wrote, a    *)
(* file or a line of the TASK file, may have failed it.                      *)
PanelEnds(exit, flaw) == panel' = [panel EXCEPT !.at = "over", !.exit = exit, !.flaw = flaw]
Throws == Fault /\ panel' = [panel EXCEPT !.at = "thrown", !.flaw = "write"]

(* Two planners of one artifact are refused before anything is written.      *)
Distinct(ts) == \A t, u \in ts : Filename[t] = Filename[u] => t = u

AskPanel(p) ==
  /\ panel.at = "over" /\ panel.n < MaxPanels
  /\ p.targets # {} /\ Distinct(p.targets)
  /\ panel' = [n |-> panel.n + 1, of |-> p, at |-> "asking", exit |-> None, flaw |-> None]
  /\ planner' = [t \in Targets |-> New]
  /\ UNCHANGED <<file, summary, orphans, broken>>

(* The summary is replaced before a planner is asked, so that it never tells  *)
(* of an earlier panel while this one is at work.                            *)
writeRunningSummary ==
  /\ panel.at = "asking"
  /\ \/ /\ panel' = [panel EXCEPT !.at = "running"]
        /\ summary' = [of |-> panel.n, status |-> "running", exit |-> 1, results |-> {}]
        /\ UNCHANGED broken
     \/ Fault /\ PanelEnds(1, "write") /\ UNCHANGED summary
  /\ UNCHANGED <<planner, file, orphans>>

(* The TASK file is told of each planner before any of them is asked.        *)
StartUntold ==
  /\ panel.at = "running" /\ \A t \in Here : planner[t].at = "new"
  /\ Fault /\ PanelEnds(1, "write")
  /\ UNCHANGED <<planner, file, summary, orphans>>

Step(t, from, to) == /\ panel.at \in {"running", "thrown"} /\ t \in Here
                     /\ planner[t].at = from
                     /\ planner' = [planner EXCEPT ![t] = to]

Without_Kept(t) == file

(* What an earlier panel left in this planner's place is removed.            *)
Without(t) == [file EXCEPT ![Filename[t]] = None]

removePlanArtifact(t) ==
  \/ /\ Step(t, "new", [New EXCEPT !.at = "asked"])
     /\ file' = Without(t)
     /\ UNCHANGED <<panel, summary, orphans, broken>>
  \/ (* It cannot be removed: the panel is over, the others' parts go on.    *)
     /\ Step(t, "new", [New EXCEPT !.at = "failed"]) /\ Throws
     /\ UNCHANGED <<file, summary, orphans>>

Written(t, by) == file' = [file EXCEPT ![Filename[t]] = [in |-> panel.n, by |-> by]]

(* The planner's Write tool, while its harness runs or after that died.      *)
PlannerWrites(t) ==
  /\ (panel.at # "over" /\ planner[t].at = "asked") \/ t \in orphans
  /\ file[Filename[t]] = None
  /\ Written(t, "planner")
  /\ UNCHANGED <<panel, planner, summary, orphans, broken>>

OrphanEnds(t) == t \in orphans /\ orphans' = orphans \ {t} /\ UNCHANGED <<panel, planner, file, summary, broken>>

Answers(t, ok, output) ==
  /\ Step(t, "asked", [at |-> "answered", ok |-> ok, output |-> ok /\ output, artifact |-> "pending"])
  /\ UNCHANGED <<panel, file, summary, orphans, broken>>

(* A file that is there is the plan; else what was printed; else nothing.    *)
ensurePlanArtifact(t) ==
  LET kept == IF file[Filename[t]] # None THEN "written" ELSE IF planner[t].output THEN "captured" ELSE "missing"
  IN \/ /\ Step(t, "answered", [planner[t] EXCEPT !.at = "kept", !.artifact = kept])
        /\ IF kept = "captured" THEN Written(t, "panel") ELSE UNCHANGED file
        /\ UNCHANGED <<panel, summary, orphans, broken>>
     \/ /\ Step(t, "answered", [planner[t] EXCEPT !.at = "failed"]) /\ Throws
        /\ UNCHANGED <<file, summary, orphans>>

(* The TASK file is told how the planner did, and its part is over.          *)
TellPart(t) ==
  /\ \/ Step(t, "kept", [planner[t] EXCEPT !.at = "told"]) /\ UNCHANGED <<panel, broken>>
     \/ Step(t, "kept", [planner[t] EXCEPT !.at = "failed"]) /\ Throws
  /\ UNCHANGED <<file, summary, orphans>>

(* A plan of a planner that failed is there to look at, but is no success.   *)
Succeeded(t) == planner[t].ok /\ planner[t].artifact # "missing"

Good == {t \in Here : Succeeded(t)}
Status == IF Good = Here THEN "ok" ELSE IF Good # {} THEN "partial" ELSE "failed"
PanelExit == IF Good = Here \/ (panel.of.partial /\ Good # {}) THEN 0 ELSE 1

writeSummary ==
  /\ panel.at = "running" /\ \A t \in Here : planner[t].at = "told"
  /\ \/ /\ summary' = [of |-> panel.n, status |-> Status, exit |-> PanelExit, results |-> Good]
        /\ panel' = [panel EXCEPT !.at = "summed"]
        /\ UNCHANGED broken
     \/ Throws /\ UNCHANGED summary
  /\ UNCHANGED <<planner, file, orphans>>

(* The TASK file is told of the summary that has been written; where that     *)
(* fails, the exit status is not the summary's.                              *)
PanelReturns ==
  /\ panel.at = "summed"
  /\ \/ PanelEnds(PanelExit, None) /\ UNCHANGED broken
     \/ Fault /\ PanelEnds(1, "write")
  /\ UNCHANGED <<planner, file, summary, orphans>>

(* A panel that threw ends when the parts of it that went on have.           *)
ReturnThrown ==
  /\ panel.at = "thrown" /\ \A t \in Here : planner[t].at \in {"failed", "told"}
  /\ PanelEnds(1, "write")
  /\ UNCHANGED <<planner, file, summary, orphans, broken>>

Leaves == orphans' = orphans \cup {t \in Here : planner[t].at = "asked"}

PanelDies ==
  /\ panel.at # "over" /\ Fault /\ PanelEnds(None, None) /\ Leaves
  /\ UNCHANGED <<planner, file, summary>>

(* Who reads what the panel prints is gone: node ends there and then, with 0. *)
PipeBreaks ==
  /\ panel.at \in {"running", "thrown", "summed"} /\ Fault /\ PanelEnds(0, "pipe") /\ Leaves
  /\ UNCHANGED <<planner, file, summary>>

PlanNext ==
  \/ \E p \in Panels : AskPanel(p)
  \/ writeRunningSummary \/ StartUntold \/ writeSummary \/ PanelReturns \/ ReturnThrown \/ PanelDies \/ PipeBreaks
  \/ \E t \in Targets : \/ removePlanArtifact(t) \/ PlannerWrites(t) \/ OrphanEnds(t) \/ ensurePlanArtifact(t) \/ TellPart(t)
                        \/ \E ok, output \in BOOLEAN : Answers(t, ok, output)

-----------------------------------------------------------------------------
(* What the panel promises.                                                  *)

(* While a panel asks its planners and after it, summary.json is of no other; *)
(* once it does not say "running", then however the panel ends, it counts the *)
(* plans that are in their files, that were written while this panel was at   *)
(* work and whose planners answered well, and its exit code is 0 exactly if   *)
(* these are all, or some and that was enough.  The exit status is that code, *)
(* but for two cases: it is 1 where something could not be written, and 0     *)
(* where the output broke off (plan.ts:309-412, main.ts:5).                  *)
Counted == summary # None /\ summary.of = panel.n /\ summary.status # "running"
PlansAreFresh ==
  /\ panel.at \in {"running", "thrown", "summed"} => summary.of = panel.n
  /\ Counted =>
       /\ \A t \in summary.results : /\ planner[t].ok /\ file[Filename[t]] # None
                                     /\ file[Filename[t]].in = panel.n
       /\ summary.exit = 0 <=> summary.results = Here \/ (panel.of.partial /\ summary.results # {})
  /\ panel.at = "over" /\ panel.exit # None =>
       \/ Counted /\ panel.exit = summary.exit
       \/ panel.exit = 1 /\ panel.flaw = "write"
       \/ panel.exit = 0 /\ panel.flaw = "pipe"
=============================================================================
