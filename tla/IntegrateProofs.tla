------------------------- MODULE IntegrateProofs -------------------------
(***************************************************************************)
(* Proofs about Integrate, for any agents, files and options, any manifest *)
(* and any number of edits, renames and runs.                              *)
(***************************************************************************)
EXTENDS Integrate, SequenceTheorems, TLAPS

-----------------------------------------------------------------------------
(***************************************************************************)
(* The inductive invariant, part by part.                                  *)
(***************************************************************************)

\* The versions that agent a makes, and the trees made of them.
Own(a) == Bases \cup ({a} \X (Nat \ {0}) \X Likes)
OwnTrees(a) == [Files -> Own(a)]

\* A file of t is as in s, or newer.
Upto(s, t) == \A f \in Files : s[f][2] < t[f][2] \/ s[f] = t[f]

\* A worktree holds its agent's versions, the index behind the files and HEAD behind the
\* index.
IsWorktree(a) ==
  /\ tree[a] \in [head : OwnTrees(a), index : OwnTrees(a), files : OwnTrees(a)]
  /\ Upto(tree[a].head, tree[a].index)
  /\ Upto(tree[a].index, tree[a].files)
  /\ \A f \in Files : tree[a].files[f][2] <= edits[a]

TreeInv ==
  /\ main \in Trees
  /\ edits \in [Agents -> Nat]
  /\ tree = [a \in Agents |-> tree[a]]
  /\ \A a \in Agents : tree[a] = None \/ IsWorktree(a)

\* The command has the worktrees that it found, and aborts only where it was told to.
JobInv ==
  /\ job \in Jobs \cup {None}
  /\ jobs \in Seq({"abort", "skip"})
  /\ job # None =>
       /\ job.step = "pick" <=> job.commit # None
       /\ job.mode \in ToSet(jobs)
       /\ job.step = "abort" => job.mode # "skip"
       /\ \A a \in job.present : tree[a] # None
       /\ job.step # "status" => job.left # << >> /\ Head(job.left) \in job.present

Fates == {"new", "picked", "conflict", "resolved", "orphaned"}

\* A commit is of its author's versions, which its worktree is not behind.
IsMade(c) ==
  /\ c \in Commits
  /\ c.from \in OwnTrees(c.by) /\ c.to \in OwnTrees(c.by)
  /\ tree[c.by] # None
  /\ Upto(c.from, c.to)
  /\ Upto(c.to, tree[c.by].head)

\* The commit at hand is the newest of its author's, and it alone awaits its fate.
CommitInv ==
  /\ stuck \in Commits \cup {None}
  /\ made \subseteq [commit : Commits, fate : Fates]
  /\ \A m \in made : IsMade(m.commit)
  /\ \A m, n \in made : m.commit = n.commit => m = n
  /\ stuck # None => [commit |-> stuck, fate |-> "conflict"] \in made
  /\ \A m \in made : m.fate = "new" => job # None /\ job.commit = m.commit
  /\ job # None /\ job.commit # None =>
       /\ [commit |-> job.commit, fate |-> "new"] \in made
       /\ job.commit.by = Head(job.left)
       /\ \A m \in made : m.commit.by = job.commit.by =>
             m.commit = job.commit \/ Upto(m.commit.to, job.commit.from)

\* Nothing is written between the check and the commit but what is owned.
OwnedInv ==
  /\ \A m \in made : m.commit.checked =>
        \A f \in Differ(m.commit.from, m.commit.to) : f \in Owned[m.commit.by] \/ Gone(m.commit.to[f])
  /\ job # None /\ job.checked /\ job.step \in {"add", "commit"} =>
       /\ \A f \in Differ(Its.head, Its.index) : f \in Owned[Agent] \/ Gone(Its.index[f])
       /\ job.step = "add" => Differ(Its.index, Its.files) \subseteq Owned[Agent]

AtAbort == job # None /\ job.step = "abort"

\* Where every run aborts, a pick is in progress only for an abort that was not made, and
\* that has harmed nobody yet, or for one that is still to come.
CreditInv ==
  /\ credit \in Int
  /\ ToSet(jobs) \subseteq {"abort"} => credit >= (IF stuck # None /\ ~AtAbort THEN 1 ELSE 0)

\* Main has of the commits what became of them.
Landed ==
  /\ \A f \in Files : main[f][1] \in Agents =>
        \E m \in made : m.fate = "picked" /\ m.commit.to[f] = main[f]
  /\ \A m \in made : \A f \in Differ(m.commit.from, m.commit.to) :
        /\ m.fate = "picked" => main[f] # m.commit.from[f]
        /\ m.fate \in {"conflict", "orphaned"} => main[f] # m.commit.to[f]

IntegrateInv == TreeInv /\ JobInv /\ CommitInv /\ Landed /\ CreditInv

-----------------------------------------------------------------------------
(***************************************************************************)
(* Versions.                                                               *)
(***************************************************************************)

\* A version of an agent is of the base or tells its author and number.
LEMMA Versioned ==
  ASSUME NEW a \in Agents, NEW t \in OwnTrees(a), NEW f \in Files
  PROVE  /\ t[f] \in Own(a)
         /\ t[f][2] \in Nat
         /\ t[f][1] \in {"base", a}
         /\ t[f][1] = "base" <=> t[f][2] = 0
         /\ t \in Trees
<1>1. t[f] \in Own(a)
  BY DEF OwnTrees
<1>2. Own(a) \subseteq Versions
  BY DEF Own, Versions
<1>3. t \in Trees
  BY <1>2 DEF OwnTrees, Trees
<1>4. a # "base"
  BY IntegrateAssumption
<1>5. CASE t[f] \in Bases
  <2>1. t[f][1] = "base" /\ t[f][2] = 0
    BY <1>5 DEF Bases
  <2> QED
    BY <1>1, <1>3, <2>1
<1>6. CASE t[f] \in {a} \X (Nat \ {0}) \X Likes
  <2>1. t[f][1] = a /\ t[f][2] \in Nat /\ t[f][2] # 0
    BY <1>6
  <2> QED
    BY <1>1, <1>3, <1>4, <2>1
<1> QED
  BY <1>1, <1>5, <1>6 DEF Own

LEMMA OwnTreesAreTrees ==
  ASSUME NEW a \in Agents
  PROVE  OwnTrees(a) \subseteq Trees
BY DEF OwnTrees, Own, Trees, Versions

\* What is behind what is behind is behind.
LEMMA UptoTransitive ==
  ASSUME NEW a \in Agents, NEW s \in OwnTrees(a), NEW t \in OwnTrees(a), NEW u \in OwnTrees(a),
         Upto(s, t), Upto(t, u)
  PROVE  Upto(s, u)
<1> SUFFICES ASSUME NEW f \in Files PROVE s[f][2] < u[f][2] \/ s[f] = u[f]
  BY DEF Upto
<1>1. s[f][2] \in Nat /\ t[f][2] \in Nat /\ u[f][2] \in Nat
  BY Versioned
<1>2. (s[f][2] < t[f][2] \/ s[f] = t[f]) /\ (t[f][2] < u[f][2] \/ t[f] = u[f])
  BY DEF Upto
<1>3. CASE s[f] = t[f]
  BY <1>2, <1>3
<1>4. CASE t[f] = u[f]
  BY <1>2, <1>4
<1>5. CASE s[f][2] < t[f][2] /\ t[f][2] < u[f][2]
  BY <1>1, <1>5
<1> QED
  BY <1>2, <1>3, <1>4, <1>5

\* A file that differs is newer, and its author's.
LEMMA DifferIsNewer ==
  ASSUME NEW a \in Agents, NEW s \in OwnTrees(a), NEW t \in OwnTrees(a), Upto(s, t),
         NEW f \in Differ(s, t)
  PROVE  s[f][2] < t[f][2] /\ t[f][1] = a
<1>1. f \in Files /\ s[f] # t[f] /\ s[f][2] < t[f][2]
  BY DEF Differ, Upto
<1>2. s[f][2] \in Nat /\ t[f][2] \in Nat /\ t[f][1] \in {"base", a} /\ (t[f][1] = "base" <=> t[f][2] = 0)
  BY <1>1, Versioned
<1> QED
  BY <1>1, <1>2

\* Agents do not make each other's versions, nor the operator's.
LEMMA Foreign ==
  ASSUME NEW a \in Agents, NEW b \in Agents, a # b, NEW s \in OwnTrees(b), NEW t \in OwnTrees(a),
         NEW f \in Files, t[f][1] = a
  PROVE  s[f] # t[f]
<1>1. s[f][1] \in {"base", b}
  BY Versioned
<1> QED
  BY <1>1, IntegrateAssumption

LEMMA NotTheOperators ==
  ASSUME NEW a \in Agents, NEW t \in OwnTrees(a), NEW f \in Files
  PROVE  t[f] # <<"operator", 1, f>>
<1>1. t[f][1] \in {"base", a}
  BY Versioned
<1>2. <<"operator", 1, f>>[1] = "operator"
  OBVIOUS
<1> QED
  BY <1>1, <1>2, IntegrateAssumption

-----------------------------------------------------------------------------
(***************************************************************************)
(* What a step does to the command.                                        *)
(***************************************************************************)

\* The turn of the next worktree.
LEMMA NextAgentMoves ==
  ASSUME JobInv, job # None, job.left # << >>, NextAgent
  PROVE  /\ job' \in Jobs /\ job' # None
         /\ job'.step = "status" /\ job'.commit = None
         /\ job'.present = job.present /\ job'.mode = job.mode
<1>1. job \in Jobs /\ job.left \in Seq(Agents)
  BY DEF JobInv, Jobs
<1>2. Tail(job.left) \in Seq(Agents)
  BY <1>1
<1>3. job' \in Jobs /\ job'.step = "status" /\ job'.commit = None
      /\ job'.present = job.present /\ job'.mode = job.mode
  BY <1>1, <1>2 DEF NextAgent, Jobs
<1> QED
  BY <1>3, IntegrateAssumption

-----------------------------------------------------------------------------
(***************************************************************************)
(* The worktrees and main.                                                 *)
(***************************************************************************)

\* What no step does: a worktree is not taken away, and its HEAD does not go back.
Onward(a) ==
  tree[a] # None =>
    /\ tree'[a] # None
    /\ \A s \in OwnTrees(a) : Upto(s, tree[a].head) => Upto(s, tree'[a].head)

LEMMA TreeInit ==
  Init => TreeInv
<1> SUFFICES ASSUME Init PROVE TreeInv
  OBVIOUS
<1>1. main \in Trees
  <2>1. \A f \in Files : Original[f] \in Bases
    BY DEF Original, Bases, Likes
  <2> QED
    BY <2>1 DEF Init, Original, Trees, Versions
<1> QED
  BY <1>1, IntegrateAssumption DEF Init, TreeInv

\* A worktree is told from None.
LEMMA WorktreeIsThere ==
  ASSUME TreeInv, JobInv, NEW step, At(step), Agent \in job.present
  PROVE  /\ Agent \in Agents /\ IsWorktree(Agent) /\ tree[Agent] # None
         /\ Its = tree[Agent]
<1>1. Agent \in Agents /\ tree[Agent] # None
  BY DEF At, JobInv, Jobs
<1> QED
  BY <1>1 DEF TreeInv, Its

\* What a worktree begins with, and goes on with.
LEMMA BeforeIsWorktree ==
  ASSUME TreeInv, NEW a \in Agents
  PROVE  /\ Before(a) \in [head : OwnTrees(a), index : OwnTrees(a), files : OwnTrees(a)]
         /\ Upto(Before(a).head, Before(a).index) /\ Upto(Before(a).index, Before(a).files)
         /\ \A g \in Files : Before(a).files[g][2] <= edits[a]
         /\ edits[a] \in Nat
         /\ tree[a] # None => Before(a) = tree[a]
<1>1. edits[a] \in Nat
  BY DEF TreeInv
<1>2. Original \in OwnTrees(a) /\ \A g \in Files : Original[g][2] = 0
  BY DEF Original, OwnTrees, Own, Bases, Likes
<1>3. CASE tree[a] = None
  BY <1>1, <1>2, <1>3 DEF Upto, Before
<1>4. CASE tree[a] # None
  BY <1>1, <1>4 DEF TreeInv, IsWorktree, Before
<1> QED
  BY <1>3, <1>4

\* An agent makes newer versions in its files, or in its files and its index.
LEMMA Works ==
  ASSUME TreeInv, NEW a \in Agents, NEW i \in OwnTrees(a), NEW k \in OwnTrees(a),
         \A g \in Files : /\ k[g] = Before(a).files[g] \/ k[g][2] = edits[a] + 1
                          /\ i[g] = Before(a).index[g] \/ i[g] = k[g],
         UNCHANGED main, edits' = [edits EXCEPT ![a] = @ + 1],
         tree' = [tree EXCEPT ![a] = [head |-> Before(a).head, index |-> i, files |-> k]]
  PROVE  TreeInv' /\ \A b \in Agents : Onward(b)
<1> DEFINE After == [head |-> Before(a).head, index |-> i, files |-> k]
<1>1. /\ Before(a) \in [head : OwnTrees(a), index : OwnTrees(a), files : OwnTrees(a)]
      /\ Upto(Before(a).head, Before(a).index) /\ Upto(Before(a).index, Before(a).files)
      /\ \A g \in Files : Before(a).files[g][2] <= edits[a]
      /\ edits[a] \in Nat
      /\ tree[a] # None => Before(a) = tree[a]
  BY BeforeIsWorktree
<1>2. After \in [head : OwnTrees(a), index : OwnTrees(a), files : OwnTrees(a)]
      /\ After.head = Before(a).head /\ After.index = i /\ After.files = k
  BY <1>1
<1>3. After # None
  BY <1>2, OwnTreesAreTrees, IntegrateAssumption DEF Worktrees
<1> HIDE DEF After
<1>4. tree'[a] = After /\ edits'[a] = edits[a] + 1 /\ edits' \in [Agents -> Nat]
      /\ \A b \in Agents \ {a} : tree'[b] = tree[b] /\ edits'[b] = edits[b]
  BY <1>1 DEF TreeInv, After
<1>5. ASSUME NEW g \in Files
      PROVE  /\ k[g][2] <= edits[a] + 1
             /\ Before(a).head[g][2] < i[g][2] \/ Before(a).head[g] = i[g]
             /\ i[g][2] < k[g][2] \/ i[g] = k[g]
  <2>1. /\ k[g][2] \in Nat /\ i[g][2] \in Nat
        /\ Before(a).head[g][2] \in Nat /\ Before(a).index[g][2] \in Nat /\ Before(a).files[g][2] \in Nat
    BY <1>1, Versioned
  <2>2. /\ Before(a).head[g][2] < Before(a).index[g][2] \/ Before(a).head[g] = Before(a).index[g]
        /\ Before(a).index[g][2] < Before(a).files[g][2] \/ Before(a).index[g] = Before(a).files[g]
        /\ Before(a).files[g][2] <= edits[a]
    BY <1>1 DEF Upto
  <2>3. /\ Before(a).head[g][2] <= Before(a).index[g][2]
        /\ Before(a).index[g][2] <= Before(a).files[g][2]
    BY <2>1, <2>2
  <2>4. CASE k[g] = Before(a).files[g] /\ i[g] = Before(a).index[g]
    BY <1>1, <2>1, <2>2, <2>4
  <2>5. CASE k[g] = Before(a).files[g] /\ i[g] = k[g]
    BY <1>1, <2>1, <2>2, <2>3, <2>5
  <2>6. CASE k[g][2] = edits[a] + 1 /\ i[g] = Before(a).index[g]
    BY <1>1, <2>1, <2>2, <2>3, <2>6
  <2>7. CASE k[g][2] = edits[a] + 1 /\ i[g] = k[g]
    BY <1>1, <2>1, <2>2, <2>3, <2>7
  <2> QED
    BY <2>4, <2>5, <2>6, <2>7
<1>6. IsWorktree(a)'
  BY <1>2, <1>4, <1>5 DEF IsWorktree, Upto
<1>7. \A b \in Agents : tree'[b] = None \/ IsWorktree(b)'
  BY <1>4, <1>6 DEF TreeInv, IsWorktree
<1>8. tree' = [b \in Agents |-> tree'[b]]
  BY DEF TreeInv
<1>9. \A b \in Agents : Onward(b)
  BY <1>1, <1>2, <1>3, <1>4 DEF Onward
<1> QED
  BY <1>4, <1>7, <1>8, <1>9 DEF TreeInv

\* What an agent makes is its own.
LEMMA Makes ==
  ASSUME TreeInv, NEW a \in Agents, NEW like \in Likes
  PROVE  /\ <<a, edits[a] + 1, like>> \in Own(a)
         /\ <<a, edits[a] + 1, like>>[2] = edits[a] + 1
<1>1. edits[a] + 1 \in Nat \ {0}
  BY DEF TreeInv
<1> QED
  BY <1>1 DEF Own

LEMMA EditTree ==
  ASSUME TreeInv, NEW a \in Agents, NEW f \in Files, Edit(a, f)
  PROVE  TreeInv' /\ \A b \in Agents : Onward(b)
<1>1. Before(a) \in [head : OwnTrees(a), index : OwnTrees(a), files : OwnTrees(a)]
  BY BeforeIsWorktree
<1>2. PICK like : like = IF Gone(Before(a).files[f]) THEN f ELSE Like(Before(a).files[f])
  OBVIOUS
<1>3. like \in Likes
  <2>1. Before(a).files[f] \in Own(a)
    BY <1>1, Versioned
  <2>2. Before(a).files[f][3] \in Likes
    BY <2>1 DEF Own, Bases
  <2> QED
    BY <1>2, <2>2 DEF Likes, Like
<1>4. PICK v : v = <<a, edits[a] + 1, like>>
  OBVIOUS
<1>5. v \in Own(a) /\ v[2] = edits[a] + 1
  BY <1>3, <1>4, Makes
<1> DEFINE k == [Before(a).files EXCEPT ![f] = v]
<1>6. k \in OwnTrees(a) /\ \A g \in Files : k[g] = IF g = f THEN v ELSE Before(a).files[g]
  BY <1>1, <1>5 DEF OwnTrees
<1>7. [Before(a) EXCEPT !.files = k] = [head |-> Before(a).head, index |-> Before(a).index, files |-> k]
  BY <1>1
<1>8. /\ tree' = [tree EXCEPT ![a] = [Before(a) EXCEPT !.files = k]]
      /\ UNCHANGED main /\ edits' = [edits EXCEPT ![a] = @ + 1]
  BY <1>2, <1>4 DEF Edit
<1> HIDE DEF k
<1>9. PICK i \in OwnTrees(a) : i = Before(a).index
  BY <1>1
<1>10. /\ \A g \in Files : /\ k[g] = Before(a).files[g] \/ k[g][2] = edits[a] + 1
                           /\ i[g] = Before(a).index[g] \/ i[g] = k[g]
       /\ tree' = [tree EXCEPT ![a] = [head |-> Before(a).head, index |-> i, files |-> k]]
  BY <1>5, <1>6, <1>7, <1>8, <1>9
<1>11. k \in OwnTrees(a) /\ UNCHANGED main /\ edits' = [edits EXCEPT ![a] = @ + 1]
  BY <1>6, <1>8
<1> QED
  BY <1>10, <1>11, Works

LEMMA MoveTree ==
  ASSUME TreeInv, NEW a \in Agents, NEW f \in Files, NEW g \in Files, NEW staged \in BOOLEAN,
         Move(a, f, g, staged)
  PROVE  TreeInv' /\ \A b \in Agents : Onward(b)
<1>1. Before(a) \in [head : OwnTrees(a), index : OwnTrees(a), files : OwnTrees(a)]
  BY BeforeIsWorktree
<1>2. PICK like : like = Like(Before(a).files[f])
  OBVIOUS
<1>3. like \in Likes /\ "gone" \in Likes
  <2>1. Before(a).files[f] \in Own(a)
    BY <1>1, Versioned
  <2>2. Before(a).files[f][3] \in Likes
    BY <2>1 DEF Own, Bases
  <2> QED
    BY <1>2, <2>2 DEF Likes, Like
<1>4. PICK v, w : v = <<a, edits[a] + 1, like>> /\ w = <<a, edits[a] + 1, "gone">>
  OBVIOUS
<1>5. v \in Own(a) /\ v[2] = edits[a] + 1 /\ w \in Own(a) /\ w[2] = edits[a] + 1
  BY <1>3, <1>4, Makes
<1>6. \A t \in OwnTrees(a) :
        LET u == MoveIn(t, a, edits[a] + 1, f, g, like)
        IN  /\ u \in OwnTrees(a)
            /\ \A h \in Files : u[h] = IF h = g THEN v ELSE IF h = f THEN w ELSE t[h]
  BY <1>4, <1>5 DEF MoveIn, OwnTrees
<1>7. PICK k : k = MoveIn(Before(a).files, a, edits[a] + 1, f, g, like)
  OBVIOUS
<1>8. PICK i : i = IF staged THEN MoveIn(Before(a).index, a, edits[a] + 1, f, g, like) ELSE Before(a).index
  OBVIOUS
<1>9. /\ k \in OwnTrees(a) /\ i \in OwnTrees(a)
      /\ \A h \in Files : k[h] = IF h = g THEN v ELSE IF h = f THEN w ELSE Before(a).files[h]
      /\ \A h \in Files : i[h] = Before(a).index[h] \/ i[h] = IF h = g THEN v ELSE IF h = f THEN w ELSE Before(a).index[h]
  <2>1. Before(a).files \in OwnTrees(a) /\ Before(a).index \in OwnTrees(a)
    BY <1>1
  <2> QED
    BY <1>6, <1>7, <1>8, <2>1
<1>10. /\ UNCHANGED main /\ edits' = [edits EXCEPT ![a] = @ + 1]
       /\ tree' = [tree EXCEPT ![a] = [head |-> Before(a).head, index |-> i, files |-> k]]
  <2>1. tree' = [tree EXCEPT ![a] = [Before(a) EXCEPT !.index = i, !.files = k]]
    BY <1>2, <1>7, <1>8 DEF Move
  <2>2. PICK d : d = [Before(a) EXCEPT !.index = i]
    OBVIOUS
  <2>3. d = [head |-> Before(a).head, index |-> i, files |-> Before(a).files]
    BY <1>1, <2>2
  <2>4. [d EXCEPT !.files = k] = [head |-> Before(a).head, index |-> i, files |-> k]
    BY <2>3
  <2> QED
    BY <2>1, <2>2, <2>4 DEF Move
<1>11. \A h \in Files : /\ k[h] = Before(a).files[h] \/ k[h][2] = edits[a] + 1
                        /\ i[h] = Before(a).index[h] \/ i[h] = k[h]
  BY <1>5, <1>9
<1> QED
  BY <1>9, <1>10, <1>11, Works

LEMMA AddTree ==
  ASSUME TreeInv, JobInv, Add
  PROVE  TreeInv' /\ \A b \in Agents : Onward(b)
<1> SUFFICES ASSUME tree' # tree PROVE TreeInv' /\ \A b \in Agents : Onward(b)
  BY DEF Add, TreeInv, IsWorktree, Onward
<1>1. Agent \in Agents /\ IsWorktree(Agent) /\ tree[Agent] # None /\ Its = tree[Agent]
  <2>1. At("add") /\ Agent \in job.present
    BY DEF Add, At, JobInv, Agent
  <2> QED
    BY <2>1, WorktreeIsThere
<1>0. PICK a \in Agents : a = Agent
  BY <1>1
<1> DEFINE After == [tree[a] EXCEPT !.index = tree[a].files]
<1>2. /\ tree' = [tree EXCEPT ![a] = After]
      /\ UNCHANGED <<main, edits>>
  BY <1>0, <1>1 DEF Add
<1>3. /\ After \in [head : OwnTrees(a), index : OwnTrees(a), files : OwnTrees(a)]
      /\ After.head = tree[a].head /\ After.index = tree[a].files /\ After.files = tree[a].files
  BY <1>0, <1>1 DEF IsWorktree
<1>4. Upto(tree[a].head, tree[a].files) /\ Upto(tree[a].files, tree[a].files)
  <2>1. tree[a].files \in OwnTrees(a) /\ tree[a].head \in OwnTrees(a) /\ tree[a].index \in OwnTrees(a)
    BY <1>0, <1>1 DEF IsWorktree
  <2>2. Upto(tree[a].head, tree[a].files)
    BY <1>0, <1>1, <2>1, UptoTransitive DEF IsWorktree
  <2> QED
    BY <2>2 DEF Upto
<1> HIDE DEF After
<1>5. tree'[a] = After /\ \A b \in Agents \ {a} : tree'[b] = tree[b]
  BY <1>0, <1>1, <1>2 DEF TreeInv
<1>6. IsWorktree(a)'
  BY <1>0, <1>1, <1>2, <1>3, <1>4, <1>5 DEF IsWorktree
<1>7. \A b \in Agents : tree'[b] = None \/ IsWorktree(b)'
  BY <1>2, <1>5, <1>6 DEF TreeInv, IsWorktree
<1>8. After # None
  BY <1>0, <1>1, <1>3, OwnTreesAreTrees, IntegrateAssumption DEF Worktrees
<1>9. \A b \in Agents : Onward(b)
  BY <1>3, <1>5, <1>8 DEF Onward
<1>10. tree' = [b \in Agents |-> tree'[b]]
  BY <1>2 DEF TreeInv
<1> QED
  BY <1>2, <1>7, <1>9, <1>10 DEF TreeInv

LEMMA CommitTree ==
  ASSUME TreeInv, JobInv, Commit
  PROVE  /\ TreeInv' /\ \A b \in Agents : Onward(b)
         /\ Agent \in Agents /\ IsWorktree(Agent) /\ Its = tree[Agent]
         /\ tree'[Agent].head = Its.index /\ tree'[Agent] # None
<1>1. Agent \in Agents /\ IsWorktree(Agent) /\ tree[Agent] # None /\ Its = tree[Agent]
  <2>1. At("commit") /\ Agent \in job.present
    BY DEF Commit, At, JobInv, Agent
  <2> QED
    BY <2>1, WorktreeIsThere
<1>0. PICK a \in Agents : a = Agent
  BY <1>1
<1> DEFINE After == [tree[a] EXCEPT !.head = tree[a].index]
<1>2. /\ tree' = [tree EXCEPT ![a] = After]
      /\ UNCHANGED <<main, edits>>
  BY <1>0, <1>1 DEF Commit
<1>3. /\ After \in [head : OwnTrees(a), index : OwnTrees(a), files : OwnTrees(a)]
      /\ After.head = tree[a].index /\ After.index = tree[a].index /\ After.files = tree[a].files
  BY <1>0, <1>1 DEF IsWorktree
<1>4. /\ Upto(tree[a].index, tree[a].index)
      /\ \A s \in OwnTrees(a) : Upto(s, tree[a].head) => Upto(s, tree[a].index)
  <2>1. tree[a].head \in OwnTrees(a) /\ tree[a].index \in OwnTrees(a)
    BY <1>0, <1>1 DEF IsWorktree
  <2>2. \A s \in OwnTrees(a) : Upto(s, tree[a].head) => Upto(s, tree[a].index)
    BY <1>0, <1>1, <2>1, UptoTransitive DEF IsWorktree
  <2> QED
    BY <2>2 DEF Upto
<1> HIDE DEF After
<1>5. tree'[a] = After /\ \A b \in Agents \ {a} : tree'[b] = tree[b]
  BY <1>0, <1>1, <1>2 DEF TreeInv
<1>6. IsWorktree(a)'
  BY <1>0, <1>1, <1>2, <1>3, <1>4, <1>5 DEF IsWorktree
<1>7. \A b \in Agents : tree'[b] = None \/ IsWorktree(b)'
  BY <1>2, <1>5, <1>6 DEF TreeInv, IsWorktree
<1>8. After # None
  BY <1>0, <1>1, <1>3, OwnTreesAreTrees, IntegrateAssumption DEF Worktrees
<1>9. \A b \in Agents : Onward(b)
  BY <1>3, <1>4, <1>5, <1>8 DEF Onward
<1>10. tree' = [b \in Agents |-> tree'[b]]
  BY <1>2 DEF TreeInv
<1> QED
  BY <1>0, <1>1, <1>2, <1>3, <1>5, <1>7, <1>8, <1>9, <1>10 DEF TreeInv

LEMMA ResolveTree ==
  ASSUME TreeInv, Resolve
  PROVE  TreeInv'
<1>1. main' \in Trees
  <2>1. \A f \in Files : <<"operator", 1, f>> \in Versions
    BY DEF Versions, Likes
  <2> QED
    BY <2>1 DEF Resolve, TreeInv, Trees
<1> QED
  BY <1>1 DEF Resolve, TreeInv, IsWorktree

LEMMA PickTree ==
  ASSUME TreeInv, job.commit \in Commits, Pick
  PROVE  TreeInv'
<1>1. main' \in Trees
  BY DEF Pick, Picked, TreeInv, Commits, Trees
<1> QED
  BY <1>1 DEF Pick, TreeInv, IsWorktree

-----------------------------------------------------------------------------
(***************************************************************************)
(* The command's own record.                                               *)
(***************************************************************************)

\* The worktrees found stay.
LEMMA PresentStays ==
  ASSUME JobInv, job # None, \A b \in Agents : Onward(b)
  PROVE  \A a \in job.present : tree'[a] # None
BY DEF JobInv, Jobs, Onward

LEMMA TurnsOver ==
  ASSUME JobInv, NEW step, At(step), NextAgent, UNCHANGED <<jobs, tree>>
  PROVE  JobInv' /\ job' # None /\ job'.commit = None /\ job'.step = "status"
<1>1. job # None /\ job.left # << >>
  BY DEF At
<1>2. /\ job' \in Jobs /\ job' # None
      /\ job'.step = "status" /\ job'.commit = None
      /\ job'.present = job.present /\ job'.mode = job.mode
  BY <1>1, NextAgentMoves
<1> QED
  BY <1>1, <1>2 DEF JobInv

\* The next call of git in the same worktree, or the abort.
LEMMA GoesOn ==
  ASSUME JobInv, NEW step, At(step), Agent \in job.present, UNCHANGED jobs,
         job' \in Jobs, job'.left = job.left, job'.present = job.present, job'.mode = job.mode,
         job'.step = "pick" <=> job'.commit # None,
         job'.step = "abort" => job.mode # "skip",
         \A a \in job.present : tree'[a] # None
  PROVE  JobInv' /\ job' # None
BY IntegrateAssumption DEF At, JobInv, Agent

LEMMA IntegrateJob ==
  ASSUME JobInv, NEW r \in Integrations, Integrate(r)
  PROVE  JobInv' /\ job' # None /\ job'.commit = None /\ job'.step = "status"
         /\ ToSet(jobs) \subseteq ToSet(jobs')
<1>1. /\ r.mode \in {"abort", "skip"} /\ r.agents \in Seq(Agents)
      /\ r.owners \in BOOLEAN /\ r.dry \in BOOLEAN
  BY IntegrateAssumption
<1>2. PICK mode, list : mode = r.mode /\ list = r.agents
  OBVIOUS
<1>3. /\ job' \in Jobs
      /\ job'.left = list /\ job'.present = {a \in Agents : tree[a] # None} /\ job'.mode = mode
      /\ job'.step = "status" /\ job'.commit = None
  BY <1>1, <1>2 DEF Integrate, Jobs
<1>4. jobs' \in Seq({"abort", "skip"}) /\ mode \in ToSet(jobs') /\ ToSet(jobs) \subseteq ToSet(jobs')
  <2>1. /\ jobs' = Append(jobs, mode) /\ jobs \in Seq({"abort", "skip"})
    BY <1>2 DEF Integrate, JobInv
  <2>2. /\ jobs' \in Seq({"abort", "skip"}) /\ Len(jobs') = Len(jobs) + 1 /\ jobs'[Len(jobs) + 1] = mode
        /\ \A i \in 1..Len(jobs) : jobs'[i] = jobs[i]
    BY <1>1, <1>2, <2>1
  <2>3. DOMAIN jobs = 1..Len(jobs) /\ DOMAIN jobs' = 1..(Len(jobs) + 1) /\ Len(jobs) \in Nat
    BY <2>1, <2>2
  <2> QED
    BY <2>2, <2>3 DEF ToSet
<1> QED
  BY <1>1, <1>2, <1>3, <1>4, IntegrateAssumption DEF JobInv, Integrate

-----------------------------------------------------------------------------
(***************************************************************************)
(* The commits and their fates.                                            *)
(***************************************************************************)

LEMMA MadeStays ==
  ASSUME TreeInv, \A b \in Agents : Onward(b), NEW c, IsMade(c)
  PROVE  IsMade(c)'
<1>1. c.by \in Agents
  BY DEF IsMade, Commits
<1> QED
  BY <1>1 DEF IsMade, Onward

\* A step without a commit at hand, or with the same, changes no fate.
LEMMA FatesStay ==
  ASSUME TreeInv, CommitInv, stuck' \in {stuck, None}, UNCHANGED made, \A b \in Agents : Onward(b),
         \/ UNCHANGED job
         \/ (job = None \/ job.commit = None) /\ (job' = None \/ job'.commit = None)
  PROVE  CommitInv'
<1>1. \A m \in made' : IsMade(m.commit)'
  BY MadeStays DEF CommitInv
<1>2. CASE UNCHANGED job
  BY <1>1, <1>2 DEF CommitInv
<1>3. CASE (job = None \/ job.commit = None) /\ (job' = None \/ job'.commit = None)
  <2>1. \A m \in made : m.fate # "new"
    BY <1>3, IntegrateAssumption DEF CommitInv
  <2> QED
    BY <1>1, <1>3, <2>1 DEF CommitInv
<1> QED
  BY <1>2, <1>3

\* The fate of a commit that is pending or in conflict, and of no other, is told anew.
LEMMA FateIsTold ==
  ASSUME TreeInv, CommitInv, NEW c, NEW x \in Fates, NEW y \in {"new", "conflict"},
         [commit |-> c, fate |-> y] \in made
  PROVE  /\ Fate(c, x) = {m \in made : m.commit # c} \cup {[commit |-> c, fate |-> x]}
         /\ IsMade(c) /\ c \in Commits
         /\ Fate(c, x) \subseteq [commit : Commits, fate : Fates]
         /\ \A m \in Fate(c, x) : IsMade(m.commit)
         /\ \A m, n \in Fate(c, x) : m.commit = n.commit => m = n
         /\ \A m \in made : m.fate \in Fates \ {"new", "conflict"} => m.commit # c
<1> DEFINE Same == [commit |-> c, fate |-> y]
<1>1. Same.commit = c /\ Same.fate = y /\ Same \in made
  OBVIOUS
<1>2. \A m \in made : m.commit = c => m = Same
  BY <1>1 DEF CommitInv
<1>3. Fate(c, x) = {m \in made : m.commit # c} \cup {[commit |-> c, fate |-> x]}
  <2>1. \A m \in made : m.commit = c <=> m \in {[commit |-> c, fate |-> z] : z \in {"new", "conflict"}}
    BY <1>1, <1>2
  <2> QED
    BY <2>1 DEF Fate
<1>4. IsMade(c) /\ c \in Commits
  BY <1>1 DEF CommitInv, IsMade
<1>5. /\ Fate(c, x) \subseteq [commit : Commits, fate : Fates]
      /\ \A m \in Fate(c, x) : IsMade(m.commit)
      /\ \A m, n \in Fate(c, x) : m.commit = n.commit => m = n
  BY <1>3, <1>4 DEF CommitInv
<1> QED
  BY <1>1, <1>2, <1>3, <1>4, <1>5

\* The commit at hand is picked, refused or left behind.
LEMMA FateOfTheCommit ==
  ASSUME TreeInv, CommitInv, job # None, job.commit # None,
         NEW x \in {"picked", "conflict", "orphaned"},
         made' = Fate(job.commit, x), UNCHANGED tree,
         job' = None \/ job'.commit = None,
         stuck' \in {stuck, None} \/ (x = "conflict" /\ stuck' = job.commit)
  PROVE  CommitInv'
<1>1. PICK c : c = job.commit
  OBVIOUS
<1>2. [commit |-> c, fate |-> "new"] \in made
  BY <1>1 DEF CommitInv
<1>3. x \in Fates /\ "new" \in {"new", "conflict"}
  BY DEF Fates
<1>4. /\ made' = {m \in made : m.commit # c} \cup {[commit |-> c, fate |-> x]}
      /\ c \in Commits
      /\ made' \subseteq [commit : Commits, fate : Fates]
      /\ \A m \in made' : IsMade(m.commit)
      /\ \A m, n \in made' : m.commit = n.commit => m = n
  <2>1. made' = Fate(c, x)
    BY <1>1
  <2>2. /\ Fate(c, x) = {m \in made : m.commit # c} \cup {[commit |-> c, fate |-> x]}
        /\ c \in Commits
        /\ Fate(c, x) \subseteq [commit : Commits, fate : Fates]
        /\ \A m \in Fate(c, x) : IsMade(m.commit)
        /\ \A m, n \in Fate(c, x) : m.commit = n.commit => m = n
    BY <1>2, <1>3, FateIsTold
  <2> QED
    BY <2>1, <2>2
<1>5. \A m \in made' : IsMade(m.commit)'
  BY <1>4 DEF IsMade
<1>6. stuck' \in Commits \cup {None}
      /\ (stuck' # None => [commit |-> stuck', fate |-> "conflict"] \in made')
  <2>1. CASE stuck' = None
    BY <2>1
  <2>2. CASE stuck' = stuck /\ stuck # None
    <3>1. [commit |-> stuck, fate |-> "conflict"] \in made
      BY <2>2 DEF CommitInv
    <3>2. stuck # c
      BY <1>2, <3>1 DEF CommitInv
    <3> QED
      BY <1>4, <2>2, <3>1, <3>2 DEF CommitInv
  <2>3. CASE x = "conflict" /\ stuck' = job.commit
    BY <1>1, <1>4, <2>3
  <2> QED
    BY <2>1, <2>2, <2>3
<1>7. \A m \in made' : m.fate # "new"
  BY <1>1, <1>4 DEF CommitInv
<1> QED
  BY <1>4, <1>5, <1>6, <1>7 DEF CommitInv

LEMMA CommitMade ==
  ASSUME TreeInv, JobInv, CommitInv, Commit
  PROVE  CommitInv' /\ JobInv' /\ job' # None /\ job'.step = "pick"
         /\ \E c \in Commits : /\ made' = made \cup {[commit |-> c, fate |-> "new"]}
                               /\ c.by = Agent /\ c.checked = job.checked
                               /\ c.from = Its.head /\ c.to = Its.index
<1> DEFINE d == [by |-> Agent, from |-> Its.head, to |-> Its.index, checked |-> job.checked]
<1>1. PICK c : c = d
  OBVIOUS
<1>2. PICK a : a = Agent
  OBVIOUS
<1>3. /\ At("commit") /\ job # None /\ job.left # << >> /\ job.step = "commit" /\ job.commit = None
      /\ job \in Jobs /\ Agent \in job.present
  BY DEF Commit, At, JobInv, Agent
<1>4. /\ TreeInv' /\ \A b \in Agents : Onward(b)
      /\ a \in Agents /\ IsWorktree(a) /\ Its = tree[a]
      /\ tree'[a].head = Its.index /\ tree'[a] # None
  BY <1>2, CommitTree
<1>5. /\ c.by = a /\ c.from = tree[a].head /\ c.to = tree[a].index /\ c.checked = job.checked
      /\ c.from \in OwnTrees(a) /\ c.to \in OwnTrees(a) /\ Upto(c.from, c.to) /\ c.from # c.to
      /\ c \in Commits
  <2>1. c.by = a /\ c.from = tree[a].head /\ c.to = tree[a].index /\ c.checked = job.checked
    BY <1>1, <1>2, <1>4
  <2>2. job.checked \in BOOLEAN
    BY <1>3 DEF Jobs
  <2>3. tree[a].head \in OwnTrees(a) /\ tree[a].index \in OwnTrees(a) /\ Upto(tree[a].head, tree[a].index)
    BY <1>4 DEF IsWorktree
  <2>4. tree[a].head # tree[a].index
    BY <1>4 DEF Commit
  <2>5. c \in Commits
    BY <1>1, <1>2, <1>4, <2>2, <2>3, OwnTreesAreTrees DEF Commits
  <2> QED
    BY <2>1, <2>3, <2>4, <2>5
<1>6. made' = made \cup {[commit |-> c, fate |-> "new"]}
  BY <1>1 DEF Commit
<1>7. job' = [job EXCEPT !.step = "pick", !.commit = c]
  BY <1>1 DEF Commit
<1>8. JobInv' /\ job' # None /\ job'.step = "pick"
  <2>1. UNCHANGED jobs /\ c # None
    BY <1>5, IntegrateAssumption DEF Commit
  <2>2. /\ job' \in Jobs /\ job'.left = job.left /\ job'.present = job.present /\ job'.mode = job.mode
        /\ job'.step = "pick" /\ job'.commit = c
    BY <1>3, <1>5, <1>7 DEF Jobs
  <2>3. \A b \in job.present : tree'[b] # None
    BY <1>3, <1>4, PresentStays
  <2> QED
    BY <1>3, <2>1, <2>2, <2>3, GoesOn
<1>9. job'.left = job.left /\ job'.commit = c
  BY <1>3, <1>7 DEF Jobs
<1>10. IsMade(c)'
  <2>1. Upto(c.to, tree'[a].head)
    BY <1>4, <1>5 DEF Upto
  <2> QED
    BY <1>4, <1>5, <2>1 DEF IsMade
<1>11. \A m \in made : IsMade(m.commit) /\ IsMade(m.commit)'
  BY <1>4, MadeStays DEF CommitInv
<1>12. ASSUME NEW m \in made, m.commit.by = a
       PROVE  Upto(m.commit.to, c.from) /\ m.commit # c
  <2>1. Upto(m.commit.to, c.from) /\ m.commit.to \in OwnTrees(a)
    BY <1>5, <1>11, <1>12 DEF IsMade
  <2>2. ASSUME m.commit = c PROVE FALSE
    <3>1. PICK f \in Differ(c.from, c.to) : TRUE
      BY <1>5 DEF Differ, OwnTrees
    <3>2. c.from[f][2] < c.to[f][2] /\ f \in Files
      BY <1>4, <1>5, DifferIsNewer DEF Differ
    <3>3. c.from[f][2] \in Nat /\ c.to[f][2] \in Nat
      BY <1>4, <1>5, <3>2, Versioned
    <3>4. c.to[f][2] < c.from[f][2] \/ c.to[f] = c.from[f]
      BY <2>1, <2>2, <3>2 DEF Upto
    <3> QED
      BY <3>2, <3>3, <3>4
  <2> QED
    BY <2>1, <2>2
<1>13. \A m \in made : m.commit # c
  BY <1>5, <1>12
<1>14. \A m \in made : m.fate # "new"
  BY <1>3, IntegrateAssumption DEF CommitInv
<1>15. UNCHANGED stuck
  BY DEF Commit
<1>16. job'.commit.by = Head(job'.left)
  BY <1>2, <1>5, <1>9 DEF Agent
<1>17. CommitInv'
  <2>1. made' \subseteq [commit : Commits, fate : Fates]
    BY <1>5, <1>6 DEF CommitInv, Fates
  <2>2. \A m \in made' : IsMade(m.commit)'
    BY <1>6, <1>10, <1>11
  <2>3. \A m, n \in made' : m.commit = n.commit => m = n
    BY <1>6, <1>13 DEF CommitInv
  <2>4. \A m \in made' : m.fate = "new" => job' # None /\ job'.commit = m.commit
    BY <1>6, <1>8, <1>9, <1>14
  <2>5. \A m \in made' : m.commit.by = job'.commit.by => m.commit = job'.commit \/ Upto(m.commit.to, job'.commit.from)
    BY <1>5, <1>6, <1>9, <1>12
  <2> QED
    BY <1>6, <1>9, <1>15, <1>16, <2>1, <2>2, <2>3, <2>4, <2>5 DEF CommitInv
<1> QED
  BY <1>2, <1>4, <1>5, <1>6, <1>8, <1>17

-----------------------------------------------------------------------------
(***************************************************************************)
(* What main has.                                                          *)
(***************************************************************************)

\* No other commit has, before it or after it, what the commit at hand brings.
LEMMA NothingComesBack ==
  ASSUME TreeInv, CommitInv, job # None, job.commit # None,
         NEW m \in made, m.commit # job.commit, NEW f \in Differ(job.commit.from, job.commit.to)
  PROVE  /\ job.commit.to[f] # m.commit.from[f]
         /\ job.commit.to[f] # m.commit.to[f]
<1>1. PICK c : c = job.commit
  OBVIOUS
<1>2. [commit |-> c, fate |-> "new"] \in made
  BY <1>1 DEF CommitInv
<1>3. IsMade(c) /\ IsMade(m.commit)
  BY <1>2 DEF CommitInv
<1>4. PICK a \in Agents : a = c.by
  BY <1>3 DEF IsMade, Commits
<1>5. PICK b \in Agents : b = m.commit.by
  BY <1>3 DEF IsMade, Commits
<1>6. /\ c.from \in OwnTrees(a) /\ c.to \in OwnTrees(a) /\ Upto(c.from, c.to)
      /\ m.commit.from \in OwnTrees(b) /\ m.commit.to \in OwnTrees(b) /\ Upto(m.commit.from, m.commit.to)
  BY <1>3, <1>4, <1>5 DEF IsMade
<1>7. f \in Differ(c.from, c.to) /\ f \in Files
  BY <1>1 DEF Differ
<1>8. c.from[f][2] < c.to[f][2] /\ c.to[f][1] = a
  BY <1>6, <1>7, DifferIsNewer
<1>9. CASE a # b
  BY <1>1, <1>6, <1>7, <1>8, <1>9, Foreign
<1>10. CASE a = b
  <2>1. Upto(m.commit.to, c.from)
    BY <1>1, <1>4, <1>5, <1>10 DEF CommitInv
  <2>2. /\ m.commit.from[f][2] \in Nat /\ m.commit.to[f][2] \in Nat
        /\ c.from[f][2] \in Nat /\ c.to[f][2] \in Nat
    BY <1>6, <1>7, Versioned
  <2>3. m.commit.from[f][2] <= m.commit.to[f][2] /\ m.commit.to[f][2] <= c.from[f][2]
    BY <1>6, <1>7, <2>1, <2>2 DEF Upto
  <2>4. m.commit.from[f][2] < c.to[f][2] /\ m.commit.to[f][2] < c.to[f][2]
    BY <1>8, <2>2, <2>3
  <2>5. m.commit.from[f][2] # c.to[f][2] /\ m.commit.to[f][2] # c.to[f][2]
    BY <2>2, <2>4
  <2> QED
    BY <1>1, <2>5
<1> QED
  BY <1>9, <1>10

LEMMA CommitLands ==
  ASSUME Landed, NEW c, made' = made \cup {[commit |-> c, fate |-> "new"]}, UNCHANGED main
  PROVE  Landed'
BY DEF Landed

\* A pick that fails, or that is never tried, leaves nothing behind.
LEMMA RefusedLands ==
  ASSUME TreeInv, CommitInv, Landed, job # None, job.commit # None,
         NEW x \in {"conflict", "orphaned"}, made' = Fate(job.commit, x), UNCHANGED main
  PROVE  Landed'
<1>1. PICK c : c = job.commit
  OBVIOUS
<1>2. [commit |-> c, fate |-> "new"] \in made
  BY <1>1 DEF CommitInv
<1>3. /\ made' = {m \in made : m.commit # c} \cup {[commit |-> c, fate |-> x]}
      /\ IsMade(c)
      /\ \A m \in made : m.fate \in Fates \ {"new", "conflict"} => m.commit # c
  <2>1. x \in Fates /\ "new" \in {"new", "conflict"} /\ made' = Fate(c, x)
    BY <1>1 DEF Fates
  <2>2. /\ Fate(c, x) = {m \in made : m.commit # c} \cup {[commit |-> c, fate |-> x]}
        /\ IsMade(c)
        /\ \A m \in made : m.fate \in Fates \ {"new", "conflict"} => m.commit # c
    BY <1>2, <2>1, FateIsTold
  <2> QED
    BY <2>1, <2>2
<1>4. \A f \in Files : main[f][1] \in Agents =>
        \E m \in made' : m.fate = "picked" /\ m.commit.to[f] = main[f]
  BY <1>3 DEF Landed, Fates
<1>5. ASSUME NEW f \in Differ(c.from, c.to) PROVE main[f] # c.to[f]
  <2>1. c.to[f][1] \in Agents /\ f \in Files
    <3>1. c.by \in Agents
      BY <1>3 DEF IsMade, Commits
    <3>2. c.to[f][1] = c.by
      BY <1>3, <1>5, <3>1, DifferIsNewer DEF IsMade
    <3> QED
      BY <1>5, <3>1, <3>2 DEF Differ
  <2>2. SUFFICES ASSUME main[f] = c.to[f] PROVE FALSE
    OBVIOUS
  <2>3. PICK m \in made : m.fate = "picked" /\ m.commit.to[f] = main[f]
    BY <2>1, <2>2 DEF Landed
  <2>4. m.commit # job.commit
    BY <1>1, <1>3, <2>3 DEF Fates
  <2>5. f \in Differ(job.commit.from, job.commit.to)
    BY <1>1, <1>5
  <2>6. job.commit.to[f] # m.commit.to[f]
    BY <2>4, <2>5, NothingComesBack
  <2> QED
    BY <1>1, <2>2, <2>3, <2>6
<1>6. ASSUME NEW m \in made', NEW f \in Differ(m.commit.from, m.commit.to)
      PROVE  /\ m.fate = "picked" => main[f] # m.commit.from[f]
             /\ m.fate \in {"conflict", "orphaned"} => main[f] # m.commit.to[f]
  <2>1. CASE m \in made
    BY <1>6, <2>1 DEF Landed
  <2>2. CASE m = [commit |-> c, fate |-> x]
    <3>1. m.commit = c /\ m.fate = x
      BY <2>2
    <3> QED
      BY <1>5, <1>6, <3>1
  <2> QED
    BY <1>3, <1>6, <2>1, <2>2
<1> QED
  BY <1>4, <1>6 DEF Landed

LEMMA PickLands ==
  ASSUME TreeInv, CommitInv, Landed, job # None, job.commit # None, Pick
  PROVE  Landed'
<1>1. PICK c : c = job.commit
  OBVIOUS
<1>2. [commit |-> c, fate |-> "new"] \in made
  BY <1>1 DEF CommitInv
<1>3. /\ made' = {m \in made : m.commit # c} \cup {[commit |-> c, fate |-> "picked"]}
      /\ \A m \in made : m.fate \in Fates \ {"new", "conflict"} => m.commit # c
  <2>1. "picked" \in Fates /\ "new" \in {"new", "conflict"} /\ made' = Fate(c, "picked")
    BY <1>1 DEF Fates, Pick
  <2>2. /\ Fate(c, "picked") = {m \in made : m.commit # c} \cup {[commit |-> c, fate |-> "picked"]}
        /\ \A m \in made : m.fate \in Fates \ {"new", "conflict"} => m.commit # c
    BY <1>2, <2>1, FateIsTold
  <2> QED
    BY <2>1, <2>2
<1>4. \A f \in Files : main'[f] = IF f \in Differ(c.from, c.to) THEN c.to[f] ELSE main[f]
  BY <1>1 DEF Pick, Picked
<1>5. ASSUME NEW f \in Files, main'[f][1] \in Agents
      PROVE  \E m \in made' : m.fate = "picked" /\ m.commit.to[f] = main'[f]
  <2>1. CASE f \in Differ(c.from, c.to)
    <3>1. [commit |-> c, fate |-> "picked"] \in made'
      BY <1>3
    <3> QED
      BY <1>4, <2>1, <3>1
  <2>2. CASE f \notin Differ(c.from, c.to)
    <3>1. main'[f] = main[f]
      BY <1>4, <2>2
    <3>2. PICK m \in made : m.fate = "picked" /\ m.commit.to[f] = main[f]
      BY <1>5, <3>1 DEF Landed
    <3>3. m \in made'
      BY <1>3, <3>2 DEF Fates
    <3> QED
      BY <3>1, <3>2, <3>3
  <2> QED
    BY <2>1, <2>2
<1>6. ASSUME NEW m \in made', NEW f \in Differ(m.commit.from, m.commit.to)
      PROVE  /\ m.fate = "picked" => main'[f] # m.commit.from[f]
             /\ m.fate \in {"conflict", "orphaned"} => main'[f] # m.commit.to[f]
  <2>1. f \in Files /\ m.commit.from[f] # m.commit.to[f]
    BY <1>6 DEF Differ
  <2>2. CASE m = [commit |-> c, fate |-> "picked"]
    <3>1. m.commit = c /\ m.fate = "picked"
      BY <2>2
    <3> QED
      BY <1>4, <1>6, <2>1, <3>1
  <2>3. CASE m \in made /\ m.commit # c
    <3>1. CASE f \in Differ(c.from, c.to)
      <4>1. c.to[f] # m.commit.from[f] /\ c.to[f] # m.commit.to[f]
        BY <1>1, <2>3, <3>1, NothingComesBack
      <4> QED
        BY <1>4, <2>1, <3>1, <4>1
    <3>2. CASE f \notin Differ(c.from, c.to)
      BY <1>4, <1>6, <2>1, <2>3, <3>2 DEF Landed
    <3> QED
      BY <3>1, <3>2
  <2> QED
    BY <1>3, <1>6, <2>2, <2>3
<1> QED
  BY <1>5, <1>6 DEF Landed

LEMMA ResolveLands ==
  ASSUME TreeInv, CommitInv, Landed, Resolve
  PROVE  CommitInv' /\ Landed'
<1>1. PICK c : c = stuck
  OBVIOUS
<1>2. /\ job = None /\ job' = None /\ stuck' = None /\ UNCHANGED tree
      /\ [commit |-> c, fate |-> "conflict"] \in made
  BY <1>1 DEF Resolve, CommitInv
<1>3. /\ made' = {m \in made : m.commit # c} \cup {[commit |-> c, fate |-> "resolved"]}
      /\ made' \subseteq [commit : Commits, fate : Fates]
      /\ \A m \in made' : IsMade(m.commit)
      /\ \A m, n \in made' : m.commit = n.commit => m = n
      /\ \A m \in made : m.fate \in Fates \ {"new", "conflict"} => m.commit # c
  <2>1. "resolved" \in Fates /\ "conflict" \in {"new", "conflict"} /\ made' = Fate(c, "resolved")
    BY <1>1 DEF Fates, Resolve
  <2>2. /\ Fate(c, "resolved") = {m \in made : m.commit # c} \cup {[commit |-> c, fate |-> "resolved"]}
        /\ Fate(c, "resolved") \subseteq [commit : Commits, fate : Fates]
        /\ \A m \in Fate(c, "resolved") : IsMade(m.commit)
        /\ \A m, n \in Fate(c, "resolved") : m.commit = n.commit => m = n
        /\ \A m \in made : m.fate \in Fates \ {"new", "conflict"} => m.commit # c
    BY <1>2, <2>1, FateIsTold
  <2> QED
    BY <2>1, <2>2
<1>4. CommitInv'
  <2>1. \A m \in made' : IsMade(m.commit)'
    BY <1>2, <1>3 DEF IsMade
  <2>2. \A m \in made' : m.fate # "new"
    BY <1>2, <1>3 DEF CommitInv
  <2> QED
    BY <1>2, <1>3, <2>1, <2>2 DEF CommitInv
<1>5. \A f \in Files : main'[f] = IF f \in Differ(c.from, c.to) THEN <<"operator", 1, f>> ELSE main[f]
  BY <1>1 DEF Resolve
<1>6. ASSUME NEW f \in Files, main'[f][1] \in Agents
      PROVE  \E m \in made' : m.fate = "picked" /\ m.commit.to[f] = main'[f]
  <2>1. <<"operator", 1, f>>[1] = "operator"
    OBVIOUS
  <2>0. main'[f] = main[f]
    BY <1>5, <1>6, <2>1, IntegrateAssumption
  <2>2. PICK m \in made : m.fate = "picked" /\ m.commit.to[f] = main[f]
    BY <1>6, <2>0 DEF Landed
  <2>3. m \in made'
    BY <1>3, <2>2 DEF Fates
  <2> QED
    BY <2>0, <2>2, <2>3
<1>7. ASSUME NEW m \in made', NEW f \in Differ(m.commit.from, m.commit.to)
      PROVE  /\ m.fate = "picked" => main'[f] # m.commit.from[f]
             /\ m.fate \in {"conflict", "orphaned"} => main'[f] # m.commit.to[f]
  <2>1. f \in Files
    BY <1>7 DEF Differ
  <2>2. CASE m = [commit |-> c, fate |-> "resolved"]
    BY <2>2
  <2>3. CASE m \in made /\ f \in Differ(c.from, c.to)
    <3>1. IsMade(m.commit) /\ m.commit.by \in Agents
      BY <2>3 DEF CommitInv, IsMade, Commits
    <3>2. PICK a \in Agents : a = m.commit.by
      BY <3>1
    <3>3. m.commit.from \in OwnTrees(a) /\ m.commit.to \in OwnTrees(a)
      BY <3>1, <3>2 DEF IsMade
    <3>4. m.commit.from[f] # <<"operator", 1, f>> /\ m.commit.to[f] # <<"operator", 1, f>>
      BY <2>1, <3>3, NotTheOperators
    <3> QED
      BY <1>5, <2>1, <2>3, <3>4
  <2>4. CASE m \in made /\ f \notin Differ(c.from, c.to)
    BY <1>5, <1>7, <2>1, <2>4 DEF Landed
  <2> QED
    BY <1>3, <1>7, <2>2, <2>3, <2>4
<1> QED
  BY <1>4, <1>6, <1>7 DEF Landed

-----------------------------------------------------------------------------
(***************************************************************************)
(* The invariant, step by step.                                            *)
(***************************************************************************)

LEMMA IntegrateInvInit ==
  Init => IntegrateInv
<1> SUFFICES ASSUME Init PROVE IntegrateInv
  OBVIOUS
<1>1. TreeInv
  BY TreeInit
<1>2. JobInv /\ CommitInv /\ CreditInv
  BY DEF Init, JobInv, CommitInv, CreditInv
<1>3. Landed
  <2>1. \A f \in Files : main[f][1] = "base"
    BY DEF Init, Original
  <2> QED
    BY <2>1, IntegrateAssumption DEF Init, Landed
<1> QED
  BY <1>1, <1>2, <1>3 DEF IntegrateInv

\* All of the invariant but the credit, which has a lemma of its own.
Settled == TreeInv /\ JobInv /\ CommitInv /\ Landed

\* A step in which no commit is at hand, before or after, and that leaves the trees alone.
LEMMA QuietStep ==
  ASSUME Settled, UNCHANGED <<main, tree, edits, made>>, stuck' \in {stuck, None}, JobInv',
         job = None \/ job.commit = None, job' = None \/ job'.commit = None
  PROVE  Settled'
<1>1. TreeInv'
  BY DEF Settled, TreeInv, IsWorktree
<1>2. \A b \in Agents : Onward(b)
  BY DEF Onward
<1>3. CommitInv'
  BY <1>2, FatesStay DEF Settled
<1>4. Landed'
  BY DEF Settled, Landed
<1> QED
  BY <1>1, <1>3, <1>4 DEF Settled

\* A turn that ends without a commit.
LEMMA TurnIsQuiet ==
  ASSUME Settled, NEW step \in {"status", "add", "commit", "abort"}, At(step), NextAgent,
         stuck' \in {stuck, None}, UNCHANGED <<main, tree, edits, jobs, made>>
  PROVE  Settled'
<1>1. JobInv' /\ job' # None /\ job'.commit = None
  BY TurnsOver DEF Settled
<1>2. job = None \/ job.commit = None
  BY DEF At, Settled, JobInv
<1> QED
  BY <1>1, <1>2, QuietStep

\* The commit at hand is picked, refused or passed over, and the turn ends or an abort follows.
LEMMA TurnOfCommit ==
  ASSUME Settled, At("pick"), NEW x \in {"picked", "conflict", "orphaned"},
         NextAgent \/ (x = "conflict" /\ AfterFailure),
         made' = Fate(job.commit, x), UNCHANGED <<tree, edits, jobs>>,
         stuck' \in {stuck, None} \/ (x = "conflict" /\ stuck' = job.commit)
  PROVE  /\ JobInv' /\ CommitInv'
         /\ job # None /\ job.commit # None /\ job.commit \in Commits
         /\ job' # None /\ job'.step \in {"status", "abort"}
<1>1. job # None /\ job.commit # None /\ job.commit \in Commits /\ job \in Jobs
      /\ job.left # << >> /\ Agent \in job.present /\ \A a \in job.present : tree'[a] # None
  BY DEF At, Settled, JobInv, Jobs, Agent
<1>2. JobInv' /\ job' # None /\ job'.commit = None /\ job'.step \in {"status", "abort"}
  <2>1. CASE NextAgent
    BY <2>1, TurnsOver DEF Settled
  <2>2. CASE AfterFailure /\ MustAbort
    <3>1. job' = [job EXCEPT !.step = "abort", !.commit = None]
      BY <2>2 DEF AfterFailure
    <3>2. /\ job' \in Jobs /\ job'.left = job.left /\ job'.present = job.present /\ job'.mode = job.mode
          /\ job'.step = "abort" /\ job'.commit = None
      BY <1>1, <3>1 DEF Jobs
    <3>3. job.mode # "skip"
      BY <2>2 DEF MustAbort
    <3> QED
      BY <1>1, <3>2, <3>3, GoesOn DEF Settled
  <2> QED
    BY <2>1, <2>2 DEF AfterFailure
<1>3. CommitInv'
  BY <1>1, <1>2, FateOfTheCommit DEF Settled
<1> QED
  BY <1>1, <1>2, <1>3

\* A commit that main does not get.
LEMMA NotPicked ==
  ASSUME Settled, At("pick"), NEW x \in {"conflict", "orphaned"},
         NextAgent \/ (x = "conflict" /\ AfterFailure),
         made' = Fate(job.commit, x), UNCHANGED <<main, tree, edits, jobs>>,
         stuck' \in {stuck, None} \/ (x = "conflict" /\ stuck' = job.commit)
  PROVE  Settled'
<1>1. JobInv' /\ CommitInv' /\ job # None /\ job.commit # None
  BY TurnOfCommit
<1>2. Landed'
  BY <1>1, RefusedLands DEF Settled
<1> QED
  BY <1>1, <1>2 DEF Settled, TreeInv, IsWorktree

LEMMA SettledNext ==
  Settled /\ [Next]_vars => Settled'
<1> SUFFICES ASSUME Settled, [Next]_vars PROVE Settled'
  OBVIOUS
<1> USE DEF Settled
<1>1. ASSUME NEW a \in Agents,
             \/ \E f \in Files : Edit(a, f)
             \/ \E f, g \in Files, staged \in BOOLEAN : Move(a, f, g, staged)
      PROVE  Settled'
  <2>1. TreeInv' /\ \A b \in Agents : Onward(b)
    BY <1>1, EditTree, MoveTree
  <2>2. UNCHANGED <<main, stuck, job, jobs, made>>
    BY <1>1 DEF Edit, Move
  <2>3. CommitInv'
    BY <2>1, <2>2, FatesStay
  <2>4. JobInv'
    <3>1. job # None => \A b \in job.present : tree'[b] # None
      BY <2>1, PresentStays
    <3> QED
      BY <2>2, <3>1 DEF JobInv
  <2> QED
    BY <2>1, <2>2, <2>3, <2>4 DEF Landed
<1>2. CASE Resolve
  <2>1. TreeInv' /\ CommitInv' /\ Landed'
    BY <1>2, ResolveTree, ResolveLands
  <2>2. UNCHANGED <<job, jobs, tree>>
    BY <1>2 DEF Resolve
  <2> QED
    BY <2>1, <2>2 DEF JobInv
<1>3. ASSUME NEW r \in Integrations, Integrate(r) PROVE Settled'
  <2>1. JobInv' /\ job' # None /\ job'.commit = None
    BY <1>3, IntegrateJob
  <2>2. job = None /\ UNCHANGED <<main, stuck, tree, edits, made>>
    BY <1>3 DEF Integrate
  <2> QED
    BY <2>1, <2>2, QuietStep
<1>4. CASE Missing
  BY <1>4, TurnIsQuiet DEF Missing
<1>5. CASE Status
  <2>1. At("status") /\ Agent \in job.present /\ UNCHANGED <<main, stuck, tree, edits, jobs, made>>
    BY <1>5 DEF Status
  <2>2. CASE NextAgent
    BY <2>1, <2>2, TurnIsQuiet
  <2>3. ASSUME NEW q \in BOOLEAN, job' = [job EXCEPT !.step = "add", !.checked = q]
        PROVE  Settled'
    <3>1. job # None /\ job.commit = None /\ job \in Jobs /\ \A b \in job.present : tree'[b] # None
      BY <2>1 DEF At, JobInv
    <3>2. /\ job' \in Jobs /\ job'.left = job.left /\ job'.present = job.present /\ job'.mode = job.mode
          /\ job'.step = "add" /\ job'.commit = None
      BY <2>3, <3>1 DEF Jobs
    <3>3. JobInv'
      BY <2>1, <3>1, <3>2, GoesOn
    <3> QED
      BY <2>1, <3>1, <3>2, <3>3, QuietStep
  <2> QED
    BY <1>5, <2>2, <2>3 DEF Status
<1>6. CASE Add
  <2>1. TreeInv' /\ \A b \in Agents : Onward(b)
    BY <1>6, AddTree
  <2>2. /\ At("add") /\ job # None /\ job.commit = None /\ job \in Jobs /\ Agent \in job.present
        /\ UNCHANGED <<main, stuck, edits, jobs, made>>
    BY <1>6 DEF Add, At, JobInv, Agent
  <2>3. /\ job' \in Jobs /\ job'.left = job.left /\ job'.present = job.present /\ job'.mode = job.mode
        /\ job'.step = "commit" /\ job'.commit = None
    BY <1>6, <2>2 DEF Add, Jobs
  <2>4. JobInv'
    <3>1. \A b \in job.present : tree'[b] # None
      BY <2>1, <2>2, PresentStays
    <3> QED
      BY <2>2, <2>3, <3>1, GoesOn
  <2>5. CommitInv'
    BY <2>1, <2>2, <2>3, FatesStay
  <2> QED
    BY <2>1, <2>2, <2>4, <2>5 DEF Landed
<1>7. CASE NoCommit
  BY <1>7, TurnIsQuiet DEF NoCommit
<1>8. CASE CommitFails
  BY <1>8, TurnIsQuiet DEF CommitFails
<1>9. CASE Commit
  <2>1. TreeInv'
    BY <1>9, CommitTree
  <2>2. CommitInv' /\ JobInv'
        /\ \E c \in Commits : made' = made \cup {[commit |-> c, fate |-> "new"]}
    BY <1>9, CommitMade
  <2>3. UNCHANGED main
    BY <1>9 DEF Commit
  <2>4. Landed'
    BY <2>2, <2>3, CommitLands
  <2> QED
    BY <2>1, <2>2, <2>4
<1>10. CASE HeadFails
  BY <1>10, NotPicked DEF HeadFails
<1>11. CASE Pick
  <2>1. JobInv' /\ CommitInv' /\ job # None /\ job.commit # None /\ job.commit \in Commits
    BY <1>11, TurnOfCommit DEF Pick
  <2>2. TreeInv' /\ Landed'
    BY <1>11, <2>1, PickTree, PickLands
  <2> QED
    BY <2>1, <2>2
<1>12. CASE PickFails
  <2>1. stuck' \in {stuck, None} \/ stuck' = job.commit
    BY <1>12 DEF PickFails
  <2> QED
    BY <1>12, <2>1, NotPicked DEF PickFails
<1>13. CASE PickErrs
  BY <1>13, NotPicked DEF PickErrs
<1>14. CASE Abort
  BY <1>14, TurnIsQuiet DEF Abort
<1>15. CASE AbortFails
  BY <1>15, TurnIsQuiet DEF AbortFails
<1>16. CASE Report
  <2>1. job # None /\ job.left = << >> /\ job' = None /\ UNCHANGED <<main, stuck, tree, edits, jobs, made>>
    BY <1>16 DEF Report
  <2>2. job.commit = None
    BY <2>1 DEF JobInv, Jobs
  <2>3. JobInv'
    BY <2>1 DEF JobInv
  <2> QED
    BY <2>1, <2>2, <2>3, QuietStep
<1>17. CASE Die
  <2>1. job # None /\ job' = None /\ UNCHANGED <<main, stuck, tree, edits, jobs>>
    BY <1>17 DEF Die
  <2>2. JobInv' /\ TreeInv'
    BY <2>1 DEF JobInv, TreeInv, IsWorktree
  <2>3. CASE job.commit = None
    <3>1. UNCHANGED made
      BY <1>17, <2>3 DEF Die
    <3> QED
      BY <2>1, <2>2, <2>3, <3>1, QuietStep
  <2>4. CASE job.commit # None
    <3>1. made' = Fate(job.commit, "orphaned")
      BY <1>17, <2>4 DEF Die
    <3>2. CommitInv'
      BY <2>1, <2>4, <3>1, FateOfTheCommit
    <3>3. Landed'
      BY <2>1, <2>4, <3>1, RefusedLands
    <3> QED
      BY <2>2, <3>2, <3>3
  <2> QED
    BY <2>3, <2>4
<1>18. CASE UNCHANGED vars
  <2>1. UNCHANGED <<main, stuck, tree, edits, job, jobs, made>>
    BY <1>18 DEF vars
  <2>2. TreeInv' /\ \A b \in Agents : Onward(b)
    BY <2>1 DEF TreeInv, IsWorktree, Onward
  <2>3. CommitInv'
    BY <2>1, <2>2, FatesStay
  <2> QED
    BY <2>1, <2>2, <2>3 DEF JobInv, Landed
<1> QED
  BY <1>1, <1>2, <1>3, <1>4, <1>5, <1>6, <1>7, <1>8, <1>9, <1>10, <1>11, <1>12, <1>13, <1>14, <1>15, <1>16,
     <1>17, <1>18 DEF Next

\* A turn that is neither before nor after an abort, and leaves the pick in progress alone.
LEMMA CreditStays ==
  ASSUME CreditInv, UNCHANGED <<stuck, credit>>, ToSet(jobs) \subseteq ToSet(jobs'),
         AtAbort' \/ ~AtAbort
  PROVE  CreditInv'
BY DEF CreditInv

\* An abort's credit, where it is not made.
LEMMA UnabortedCredit ==
  ASSUME CreditInv, At("abort"), Unaborted, UNCHANGED <<stuck, jobs>>
  PROVE  CreditInv'
BY DEF CreditInv, Unaborted, At, AtAbort

\* Where every run aborts, a pick that is refused for no conflict is paid for by an abort
\* that was not made.
LEMMA CreditNext ==
  JobInv /\ CreditInv /\ [Next]_vars => CreditInv'
<1> SUFFICES ASSUME JobInv, CreditInv, [Next]_vars PROVE CreditInv'
  OBVIOUS
<1>0. ASSUME NEW step, At(step), step # "abort" PROVE ~AtAbort
  BY <1>0 DEF At, AtAbort
<1>1. ASSUME NEW a \in Agents,
             \/ \E f \in Files : Edit(a, f)
             \/ \E f, g \in Files, staged \in BOOLEAN : Move(a, f, g, staged)
      PROVE  CreditInv'
  <2>1. UNCHANGED <<stuck, credit, job, jobs>>
    BY <1>1 DEF Edit, Move
  <2> QED
    BY <2>1, CreditStays DEF AtAbort
<1>2. CASE Resolve
  BY <1>2 DEF Resolve, CreditInv, AtAbort
<1>3. ASSUME NEW r \in Integrations, Integrate(r) PROVE CreditInv'
  <2>1. ToSet(jobs) \subseteq ToSet(jobs')
    BY <1>3, IntegrateJob
  <2> QED
    BY <1>3, <2>1, CreditStays DEF Integrate, AtAbort
<1>4. CASE Missing \/ Status
  BY <1>0, <1>4, CreditStays DEF Missing, Status
<1>5. CASE Add \/ NoCommit \/ CommitFails
  BY <1>0, <1>5, CreditStays DEF Add, NoCommit, CommitFails
<1>6. CASE Commit \/ HeadFails \/ Pick
  BY <1>0, <1>6, CreditStays DEF Commit, HeadFails, Pick
<1>7. CASE PickFails
  <2>1. At("pick") /\ job # None /\ job \in Jobs /\ job.mode \in ToSet(jobs) /\ UNCHANGED jobs /\ AfterFailure
    BY <1>7 DEF PickFails, At, JobInv
  <2>2. credit' \in Int
    BY <1>7 DEF PickFails, CreditInv
  <2>3. SUFFICES ASSUME ToSet(jobs) \subseteq {"abort"} PROVE AtAbort' /\ credit' >= 0
    BY <2>1, <2>2 DEF CreditInv
  <2>4. AtAbort'
    <3>1. MustAbort
      BY <2>1, <2>3 DEF MustAbort
    <3>2. job' = [job EXCEPT !.step = "abort", !.commit = None]
      BY <2>1, <3>1 DEF AfterFailure
    <3>3. job' \in Jobs /\ job'.step = "abort"
      BY <2>1, <3>2 DEF Jobs
    <3> QED
      BY <3>3, IntegrateAssumption DEF AtAbort
  <2>5. credit' >= 0
    <3>1. ~AtAbort
      BY <1>0, <2>1
    <3>2. CASE Fits(job.commit)
      BY <1>7, <2>3, <3>1, <3>2 DEF PickFails, Applies, CreditInv
    <3>3. CASE ~Fits(job.commit)
      BY <1>7, <2>3, <3>3 DEF PickFails, CreditInv
    <3> QED
      BY <3>2, <3>3
  <2> QED
    BY <2>4, <2>5
<1>8. CASE PickErrs
  BY <1>0, <1>8, CreditStays DEF PickErrs
<1>9. CASE Abort
  BY <1>9 DEF Abort, CreditInv
<1>10. CASE AbortFails
  BY <1>10, UnabortedCredit DEF AbortFails
<1>11. CASE Report
  <2>1. ~AtAbort
    BY <1>11 DEF Report, JobInv, AtAbort
  <2> QED
    BY <1>11, <2>1, CreditStays DEF Report
<1>12. CASE Die
  <2>1. CASE AtAbort
    BY <1>12, <2>1, UnabortedCredit DEF Die, At, AtAbort
  <2>2. CASE ~AtAbort
    BY <1>12, <2>2, CreditStays DEF Die, AtAbort
  <2> QED
    BY <2>1, <2>2
<1>13. CASE UNCHANGED vars
  BY <1>13, CreditStays DEF vars, AtAbort
<1> QED
  BY <1>1, <1>2, <1>3, <1>4, <1>5, <1>6, <1>7, <1>8, <1>9, <1>10, <1>11, <1>12, <1>13 DEF Next

LEMMA IntegrateInvNext ==
  IntegrateInv /\ [Next]_vars => IntegrateInv'
BY SettledNext, CreditNext DEF IntegrateInv, Settled

\* The invariant holds in every state: the worktrees only move on, every commit has one
\* fate, and main has of each what its fate says (default-integrator.ts integrate).
THEOREM IntegrateInvCorrect ==
  Spec => []IntegrateInv
<1>1. Init => IntegrateInv
  BY IntegrateInvInit
<1>2. IntegrateInv /\ [Next]_vars => IntegrateInv'
  BY IntegrateInvNext
<1> QED
  BY <1>1, <1>2, PTL DEF Spec

LEMMA InvTypeOK ==
  IntegrateInv => TypeOK
<1> SUFFICES ASSUME IntegrateInv PROVE TypeOK
  OBVIOUS
<1>1. \A a \in Agents : tree[a] = None \/ tree[a] \in Worktrees
  BY OwnTreesAreTrees DEF IntegrateInv, TreeInv, IsWorktree, Worktrees
<1> QED
  BY <1>1 DEF IntegrateInv, TreeInv, JobInv, CommitInv, CreditInv, Fates, TypeOK

LEMMA InvAllOrNothing ==
  IntegrateInv => AllOrNothing
<1> SUFFICES ASSUME IntegrateInv PROVE AllOrNothing
  OBVIOUS
<1>1. ASSUME NEW m \in made, NEW f \in Differ(m.commit.from, m.commit.to)
      PROVE  CASE m.fate = "picked" -> main[f] # m.commit.from[f]
               [] m.fate \in {"conflict", "orphaned"} -> main[f] # m.commit.to[f]
               [] m.fate = "new" -> job # None /\ job.commit = m.commit
               [] OTHER -> TRUE
  <2>1. /\ m.fate = "picked" => main[f] # m.commit.from[f]
        /\ m.fate \in {"conflict", "orphaned"} => main[f] # m.commit.to[f]
    BY <1>1 DEF IntegrateInv, Landed
  <2>2. m.fate = "new" => job # None /\ job.commit = m.commit
    BY DEF IntegrateInv, CommitInv
  <2>3. m.fate \in Fates
    BY DEF IntegrateInv, CommitInv
  <2>4. CASE m.fate = "picked"
    BY <2>1, <2>4
  <2>5. CASE m.fate \in {"conflict", "orphaned"}
    BY <2>1, <2>5
  <2>6. CASE m.fate = "new"
    BY <2>2, <2>6
  <2>7. CASE m.fate = "resolved"
    BY <2>7
  <2> QED
    BY <2>3, <2>4, <2>5, <2>6, <2>7 DEF Fates
<1> QED
  BY <1>1 DEF AllOrNothing, IntegrateInv, Landed

\* A commit lands whole or not at all, whatever dies, fails, edits late or is left in
\* progress (git-vcs.ts cherryPick, default-integrator.ts integrate).
THEOREM AllOrNothingAlways ==
  Spec => [](TypeOK /\ AllOrNothing)
<1>1. IntegrateInv => TypeOK /\ AllOrNothing
  BY InvTypeOK, InvAllOrNothing
<1> QED
  BY <1>1, IntegrateInvCorrect, PTL

-----------------------------------------------------------------------------
(***************************************************************************)
(* Ownership.  The check and the commit read the worktree at different     *)
(* times: no agent edits under the integrator.                             *)
(***************************************************************************)

\* A step that leaves behind no checked worktree but the one that was there.
LEMMA OwnedStays ==
  ASSUME OwnedInv, UNCHANGED tree,
         \/ UNCHANGED job
         \/ job' = None \/ job'.step \notin {"add", "commit"},
         \A m \in made' : \E n \in made : n.commit = m.commit
  PROVE  OwnedInv'
<1>1. \A m \in made' : m.commit.checked =>
         \A f \in Differ(m.commit.from, m.commit.to) : f \in Owned[m.commit.by] \/ Gone(m.commit.to[f])
  BY DEF OwnedInv
<1> QED
  BY <1>1 DEF OwnedInv, Its, Agent

LEMMA TurnOwned ==
  ASSUME IntegrateInv, OwnedInv, NEW step, At(step), NextAgent,
         UNCHANGED <<tree, jobs>>, \A m \in made' : \E n \in made : n.commit = m.commit
  PROVE  OwnedInv'
<1>1. job'.step = "status"
  BY TurnsOver DEF IntegrateInv
<1> QED
  BY <1>1, OwnedStays

\* Fates change, and commits are not made by it.
LEMMA FateOfSame ==
  ASSUME NEW c, NEW x, NEW n \in made, n.commit = c, made' = Fate(c, x)
  PROVE  \A m \in made' : \E k \in made : k.commit = m.commit
<1> SUFFICES ASSUME NEW m \in made' PROVE \E k \in made : k.commit = m.commit
  OBVIOUS
<1>1. m \in made \/ m = [commit |-> c, fate |-> x]
  BY DEF Fate
<1> QED
  BY <1>1

LEMMA OwnedInvNext ==
  ASSUME "late" \notin Faults
  PROVE  IntegrateInv /\ OwnedInv /\ [Next]_vars => OwnedInv'
<1> SUFFICES ASSUME IntegrateInv, OwnedInv, [Next]_vars PROVE OwnedInv'
  OBVIOUS
<1>1. ASSUME NEW a \in Agents,
             \/ \E f \in Files : Edit(a, f)
             \/ \E f, g \in Files, staged \in BOOLEAN : Move(a, f, g, staged)
      PROVE  OwnedInv'
  <2>1. job = None /\ UNCHANGED <<job, made>>
    BY <1>1 DEF Edit, Move, MayEdit
  <2> QED
    BY <2>1 DEF OwnedInv
<1>2. CASE Resolve
  <2>1. job' = None /\ UNCHANGED tree /\ stuck # None /\ made' = Fate(stuck, "resolved")
    BY <1>2 DEF Resolve
  <2>2. [commit |-> stuck, fate |-> "conflict"] \in made
    BY <2>1 DEF IntegrateInv, CommitInv
  <2>3. \A m \in made' : \E k \in made : k.commit = m.commit
    BY <2>1, <2>2, FateOfSame
  <2> QED
    BY <2>1, <2>3, OwnedStays
<1>3. ASSUME NEW r \in Integrations, Integrate(r) PROVE OwnedInv'
  <2>1. job'.step = "status"
    BY <1>3, IntegrateJob DEF IntegrateInv
  <2> QED
    BY <1>3, <2>1, OwnedStays DEF Integrate
<1>4. CASE Missing
  BY <1>4, TurnOwned DEF Missing
<1>5. CASE Status
  <2>1. At("status") /\ Agent \in job.present /\ UNCHANGED <<tree, jobs, made>>
    BY <1>5 DEF Status
  <2>2. CASE NextAgent
    BY <2>1, <2>2, TurnOwned
  <2>3. ASSUME NEW listed, ~(job.owners /\ violatingFiles(Agent, listed) # {}),
               job' = [job EXCEPT !.step = "add", !.checked = job.owners /\ listed = changedFiles]
        PROVE  OwnedInv'
    <3>1. job \in Jobs /\ job # None
      BY <2>1 DEF At, IntegrateInv, JobInv
    <3>2. job'.left = job.left /\ job'.step = "add" /\ (job'.checked => job.owners /\ listed = changedFiles)
      BY <2>3, <3>1 DEF Jobs
    <3>3. Agent' = Agent /\ Its' = Its
      BY <2>1, <3>2 DEF Agent, Its
    <3>4. job'.checked => changedFiles \subseteq Owned[Agent]
      BY <2>3, <3>2 DEF violatingFiles
    <3>5. job'.checked =>
            /\ \A f \in Differ(Its.head, Its.index) : f \in Owned[Agent] \/ Gone(Its.index[f])
            /\ Differ(Its.index, Its.files) \subseteq Owned[Agent]
      BY <3>4 DEF changedFiles, OldPaths
    <3>6. UNCHANGED made
      BY <2>1
    <3>7. ASSUME job' # None, job'.checked
          PROVE  /\ \A f \in Differ(Its'.head, Its'.index) : f \in Owned[Agent'] \/ Gone(Its'.index[f])
                 /\ Differ(Its'.index, Its'.files) \subseteq Owned[Agent']
      BY <3>3, <3>5, <3>7
    <3> QED
      BY <3>2, <3>6, <3>7 DEF OwnedInv
  <2> QED
    BY <1>5, <2>2, <2>3 DEF Status
<1>6. CASE Add
  <2>1. /\ At("add") /\ job # None /\ job.step = "add" /\ job \in Jobs /\ Agent \in job.present
        /\ UNCHANGED made /\ job' = [job EXCEPT !.step = "commit"]
        /\ tree' = [tree EXCEPT ![Agent] = [@ EXCEPT !.index = Its.files]] \/ UNCHANGED tree
    BY <1>6 DEF Add, At, IntegrateInv, JobInv, Agent
  <2>2. Agent \in Agents /\ IsWorktree(Agent) /\ Its = tree[Agent]
    BY <2>1, WorktreeIsThere DEF IntegrateInv
  <2>3. job'.checked = job.checked /\ job'.left = job.left /\ job'.step = "commit"
    BY <2>1 DEF Jobs
  <2>4. Agent' = Agent
    BY <2>3 DEF Agent
  <2>5. Its'.head = Its.head /\ Its'.index \in {Its.index, Its.files}
    BY <2>1, <2>2, <2>4 DEF Its, IntegrateInv, TreeInv, IsWorktree
  <2>6. ASSUME job.checked, NEW f \in Differ(Its.head, Its'.index)
        PROVE  f \in Owned[Agent] \/ Gone(Its'.index[f])
    <3>1. /\ \A g \in Differ(Its.head, Its.index) : g \in Owned[Agent] \/ Gone(Its.index[g])
          /\ Differ(Its.index, Its.files) \subseteq Owned[Agent]
      BY <2>1, <2>6 DEF OwnedInv
    <3>2. f \in Files /\ Its.head[f] # Its'.index[f]
      BY <2>6 DEF Differ
    <3>3. CASE Its.index[f] = Its'.index[f]
      <4>1. f \in Differ(Its.head, Its.index)
        BY <3>2, <3>3 DEF Differ
      <4> QED
        BY <3>1, <3>3, <4>1 DEF Gone, Like
    <3>4. CASE Its.index[f] # Its'.index[f]
      <4>1. Its'.index = Its.files
        BY <2>5, <3>4
      <4>2. f \in Differ(Its.index, Its.files)
        BY <3>2, <3>4, <4>1 DEF Differ
      <4> QED
        BY <3>1, <4>2
    <3> QED
      BY <3>3, <3>4
  <2>7. job'.checked =>
          \A f \in Differ(Its'.head, Its'.index) : f \in Owned[Agent'] \/ Gone(Its'.index[f])
    BY <2>3, <2>4, <2>5, <2>6
  <2> QED
    BY <2>1, <2>3, <2>7 DEF OwnedInv
<1>7. CASE NoCommit
  BY <1>7, TurnOwned DEF NoCommit
<1>8. CASE CommitFails
  BY <1>8, TurnOwned DEF CommitFails
<1>9. CASE Commit
  <2>1. PICK c \in Commits : /\ made' = made \cup {[commit |-> c, fate |-> "new"]}
                             /\ c.by = Agent /\ c.checked = job.checked
                             /\ c.from = Its.head /\ c.to = Its.index
    BY <1>9, CommitMade DEF IntegrateInv
  <2>2. job # None /\ job.step = "commit" /\ job'.step = "pick"
    BY <1>9, CommitMade DEF Commit, At, IntegrateInv
  <2>3. c.checked => \A f \in Differ(c.from, c.to) : f \in Owned[c.by] \/ Gone(c.to[f])
    BY <2>1, <2>2 DEF OwnedInv
  <2>4. \A m \in made' : m.commit.checked =>
          \A f \in Differ(m.commit.from, m.commit.to) : f \in Owned[m.commit.by] \/ Gone(m.commit.to[f])
    BY <2>1, <2>3 DEF OwnedInv
  <2> QED
    BY <2>2, <2>4 DEF OwnedInv
<1>10. CASE HeadFails \/ Pick \/ PickFails \/ PickErrs
  <2>1. PICK x \in {"picked", "conflict", "orphaned"} :
          /\ At("pick") /\ (NextAgent \/ (x = "conflict" /\ AfterFailure))
          /\ made' = Fate(job.commit, x) /\ UNCHANGED <<tree, edits, jobs>>
          /\ stuck' \in {stuck, None} \/ (x = "conflict" /\ stuck' = job.commit)
    BY <1>10 DEF HeadFails, Pick, PickFails, PickErrs
  <2>2. job'.step \notin {"add", "commit"} /\ job # None /\ job.commit # None
    BY <2>1, TurnOfCommit DEF IntegrateInv, Settled
  <2>3. [commit |-> job.commit, fate |-> "new"] \in made
    BY <2>2 DEF IntegrateInv, CommitInv
  <2>4. \A m \in made' : \E k \in made : k.commit = m.commit
    BY <2>1, <2>3, FateOfSame
  <2> QED
    BY <2>1, <2>2, <2>4, OwnedStays
<1>11. CASE Abort \/ AbortFails
  BY <1>11, TurnOwned DEF Abort, AbortFails
<1>12. CASE Report
  BY <1>12, OwnedStays DEF Report
<1>13. CASE Die
  <2>1. job' = None /\ UNCHANGED tree
    BY <1>13 DEF Die
  <2>2. \A m \in made' : \E k \in made : k.commit = m.commit
    <3>1. CASE job.commit = None
      BY <1>13, <3>1 DEF Die
    <3>2. CASE job.commit # None
      <4>1. [commit |-> job.commit, fate |-> "new"] \in made
        BY <1>13, <3>2 DEF Die, IntegrateInv, CommitInv
      <4>2. made' = Fate(job.commit, "orphaned")
        BY <1>13, <3>2 DEF Die
      <4> QED
        BY <4>1, <4>2, FateOfSame
    <3> QED
      BY <3>1, <3>2
  <2> QED
    BY <2>1, <2>2, OwnedStays
<1>14. CASE UNCHANGED vars
  BY <1>14, OwnedStays DEF vars
<1> QED
  BY <1>1, <1>2, <1>3, <1>4, <1>5, <1>6, <1>7, <1>8, <1>9, <1>10, <1>11, <1>12, <1>13, <1>14 DEF Next

\* What is committed under the manifest, and a `git status` that told all it had to, writes
\* no file that is not its author's, and what lands of an agent lands whole, over any runs,
\* renames, conflicts, failing calls and deaths, while no agent edits under the integrator
\* (default-integrator.ts integrate, git-vcs.ts).
THEOREM LandsOwnAndWholeAlways ==
  ASSUME "late" \notin Faults
  PROVE  Spec => []LandsOwnAndWhole
<1>1. Init => IntegrateInv /\ OwnedInv
  <2>1. Init => OwnedInv
    BY DEF Init, OwnedInv
  <2> QED
    BY <2>1, IntegrateInvInit
<1>2. (IntegrateInv /\ OwnedInv) /\ [Next]_vars => (IntegrateInv /\ OwnedInv)'
  BY IntegrateInvNext, OwnedInvNext
<1>3. IntegrateInv /\ OwnedInv => LandsOwnAndWhole
  BY InvTypeOK, InvAllOrNothing DEF OwnedInv, OwnershipHolds, LandsOwnAndWhole
<1> QED
  BY <1>1, <1>2, <1>3, PTL DEF Spec

-----------------------------------------------------------------------------
(***************************************************************************)
(* Conflicts.                                                              *)
(***************************************************************************)

\* As long as conflicts are aborted, git refuses a cherry-pick that fits only after an abort
\* that failed or was not made, and one at most for each, whatever else fails or dies
\* (git-vcs.ts cherryPick).
THEOREM AbortIsolatesAlways ==
  Spec => []AbortIsolates
<1>1. IntegrateInv => AbortIsolates
  BY DEF IntegrateInv, CreditInv, AbortIsolates
<1> QED
  BY <1>1, IntegrateInvCorrect, PTL
=============================================================================
