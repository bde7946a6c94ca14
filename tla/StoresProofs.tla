---------------------------- MODULE StoresProofs ----------------------------
(***************************************************************************)
(* Proofs about the parts that keep what was learnt, in this order:        *)
(*   Runtime    the stamp is backed and a sync settles, for any bundles,   *)
(*              projects, orders and deaths                                *)
(*   Skills     a catalog and the list told from it are of one scan        *)
(*   SelfHarness  the lineage tells the configuration, the pinned rules    *)
(*              hold                                                       *)
(*   Evolution  what stands in the lineage was scored as it stands there   *)
(*   Experience an imported text is trusted by confirmation alone and      *)
(*              hides nothing until then                                   *)
(***************************************************************************)
EXTENDS Runtime, Skills, SelfHarness, Evolution, Experience, SequenceTheorems, FiniteSetTheorems,
        NaturalsInduction, WellFoundedInduction, TLAPS

-----------------------------------------------------------------------------
(* Numbers and sequences.                                                  *)

\* Of some numbers there is a least one.
LEMMA LeastNumber ==
    ASSUME NEW S \in SUBSET Nat, S # {}
    PROVE  \E x \in S : \A y \in S : x <= y
<1>1. PICK x \in S : \A y \in S : <<y, x>> \notin OpToRel(<, Nat)
  BY NatLessThanWellFounded, WFMin
<1>2. ASSUME NEW y \in S PROVE x <= y
  <2> SUFFICES ASSUME ~(x <= y) PROVE FALSE
    OBVIOUS
  <2>1. y \in Nat /\ x \in Nat /\ y < x
    OBVIOUS
  <2>2. <<y, x>> \in Nat \X Nat /\ <<y, x>>[1] < <<y, x>>[2]
    BY <2>1
  <2>3. <<y, x>> \in OpToRel(<, Nat)
    BY <2>2, Zenon DEF OpToRel
  <2> QED BY <1>1, <2>3
<1> QED BY <1>2

\* Of n numbers there is a first, a second, ... and an n-th.
LEMMA NthNumber ==
    ASSUME NEW K \in SUBSET Nat, IsFiniteSet(K), NEW n \in 1..Cardinality(K)
    PROVE  \E i \in K : Cardinality({h \in K : h < i}) = n - 1
<1> DEFINE Below(i) == {h \in K : h < i}
           Reached(m) == \E i \in K : Cardinality(Below(i)) = m - 1
           missing == {m \in 1..Cardinality(K) : ~Reached(m)}
<1> SUFFICES ASSUME missing # {} PROVE FALSE
  OBVIOUS
<1>1. Cardinality(K) \in Nat /\ missing \in SUBSET Nat
  BY FS_CardinalityType
<1>2. PICK m \in missing : \A y \in missing : m <= y
  BY <1>1, LeastNumber
<1>3. m \in 1..Cardinality(K) /\ ~Reached(m) /\ m \in Nat
  BY <1>1
<1>4. \A i \in K : IsFiniteSet(Below(i)) /\ Below(i) \subseteq K /\ i \notin Below(i)
  BY FS_Subset
<1>5. CASE m = 1
  <2>1. K # {}
    BY <1>3, FS_EmptySet
  <2>2. PICK i \in K : \A y \in K : i <= y
    BY <2>1, LeastNumber
  <2>3. Below(i) = {}
    <3> SUFFICES ASSUME NEW h \in K, h < i PROVE FALSE
      OBVIOUS
    <3>1. h \in Nat /\ i \in Nat /\ i <= h
      BY <2>2
    <3> QED BY <3>1
  <2>5. Cardinality({}) = m - 1
    BY <1>5, FS_EmptySet
  <2> HIDE DEF Below
  <2>4. Cardinality(Below(i)) = m - 1
    BY <2>3, <2>5
  <2> QED BY <1>3, <2>4
<1>6. CASE m # 1
  <2>1. m - 1 \in 1..Cardinality(K) /\ m - 1 \notin missing
    BY <1>1, <1>2, <1>3, <1>6
  <2>2. PICK i \in K : Cardinality(Below(i)) = (m - 1) - 1
    BY <2>1
  <2>3. Cardinality(Below(i) \cup {i}) = m - 1 /\ IsFiniteSet(Below(i) \cup {i})
    <3>1. Cardinality(Below(i) \cup {i}) = Cardinality(Below(i)) + 1 /\ IsFiniteSet(Below(i) \cup {i})
      BY <1>4, FS_AddElement
    <3> QED BY <1>3, <2>2, <3>1
  <2> DEFINE above == {h \in K : i < h}
  <2>4. above # {}
    <3> SUFFICES ASSUME above = {} PROVE FALSE
      OBVIOUS
    <3>1. K = Below(i) \cup {i}
      <4>1. ASSUME NEW h \in K PROVE h < i \/ h = i
        <5>1. h \in Nat /\ i \in Nat /\ ~(i < h)
          OBVIOUS
        <5> QED BY <5>1
      <4> QED BY <4>1
    <3>2. Cardinality(K) = m - 1
      BY <2>3, <3>1
    <3> QED BY <1>1, <1>3, <3>2
  <2>5. PICK j \in above : \A y \in above : j <= y
    BY <2>4, LeastNumber
  <2>6. j \in K /\ Below(j) = Below(i) \cup {i}
    <3>1. j \in K /\ i < j /\ i \in Nat /\ j \in Nat
      OBVIOUS
    <3>2. ASSUME NEW h \in K PROVE h < j <=> (h < i \/ h = i)
      <4>1. h \in Nat /\ (i < h => j <= h)
        BY <2>5
      <4> QED BY <3>1, <4>1
    <3> QED BY <3>1, <3>2
  <2> QED BY <1>3, <2>3, <2>6
<1> QED BY <1>5, <1>6

\* A sequence is one of its own elements.
LEMMA SeqOfItsRange ==
    ASSUME NEW S, NEW s \in Seq(S)
    PROVE  s \in Seq(Range(s)) /\ Range(s) \subseteq S /\ Len(s) \in Nat /\ DOMAIN s = 1..Len(s)
<1>1. Len(s) \in Nat /\ DOMAIN s = 1..Len(s)
  BY LenProperties
<1>4. s \in [1..Len(s) -> S]
  BY SeqDef, LenProperties
<1>2. s \in [1..Len(s) -> Range(s)] /\ Range(s) \subseteq S
  BY <1>1, <1>4 DEF Range
<1>3. s \in Seq(Range(s))
  BY <1>1, <1>2, SeqDef
<1> QED BY <1>1, <1>2, <1>3

-----------------------------------------------------------------------------
(* The runtime.                                                            *)

RuntimeSpec == RuntimeInit /\ [][RuntimeNext]_runtimeVars

Names == {Pointer} \cup (UNION {DOMAIN files : files \in Bundles \cup Leftovers})
Projects == UNION {Range(order.projects) : order \in Orders}
ProviderVersions == Nat \cup {None}
StageNames == {"status", "copy", "wrappers", "compare", "listed", "remove", "done", "failed"}
Stages == [at : StageNames, left : SUBSET Names]
StatusAnswers == BOOLEAN \cup {None}
Works ==
    [order : Orders \cup {None}, at : {"rest", "begun", "checking", "sync", "restart", "told"},
     current : ProviderVersions, left : Seq(Projects),
     sync : [Targets -> Stages] \cup [Targets -> StatusAnswers] \cup {None},
     disturbed : BOOLEAN, code : {None, 0, 1, 2}]

FleetTypeOK ==
    /\ version \in Nat /\ stamp \in ProviderVersions
    /\ daemon \in [Providers -> ProviderVersions] /\ starting \in [Providers -> ProviderVersions]

BundleTypeOK ==
    /\ source \in Bundles
    /\ DOMAIN target = Targets /\ \A t \in Targets : DOMAIN target[t] \subseteq Names
    /\ settled \subseteq Targets

\* What a command is doing fits where it stands.
WorkFits(w) ==
    /\ w \in Works
    /\ w.at = "begun" => w.order \in Orders /\ (w.order.op = "adapt" => w.left = w.order.projects)
    /\ w.at = "checking" => w.order \in Orders /\ w.order.op = "check" /\ w.sync \in [Targets -> StatusAnswers]
    /\ w.at = "sync" => w.order \in Orders /\ w.order.op = "adapt" /\ w.sync \in [Targets -> Stages] /\ w.left = w.order.projects
    /\ w.at = "restart" => w.order \in Orders /\ w.order.op = "adapt" /\ w.current # None

WorkTypeOK == work = [o \in Operators |-> work[o]] /\ \A o \in Operators : WorkFits(work[o])

RuntimeTypeOK == FleetTypeOK /\ BundleTypeOK /\ WorkTypeOK

\* Neither a daemon nor one that is starting has older code than v.
NoOlder(p, v) == /\ daemon[p] # None => daemon[p] >= v
                 /\ starting[p] # None => starting[p] >= v
AllNewer(v, ps) == v <= version /\ \A p \in ps : NoOlder(p, v)

\* An adapt that restarts has done so for the projects that it has left behind.
WorkIsBacked(w) ==
    /\ w.current # None => w.current <= version
    /\ w.at = "restart" => AllNewer(w.current, (Providers \cap Range(w.order.projects)) \ (spared \cup Range(w.left)))

FleetInv ==
    /\ \A p \in Providers : daemon[p] = None \/ starting[p] = None
    /\ stamp # None => AllNewer(stamp, Providers \ spared)
    /\ \A o \in Operators : WorkIsBacked(work[o])


Copied(t, files) == \A f \in files : f \in DOMAIN target[t] /\ target[t][f] = source[f]

\* What a sync has done at a target by the stage that it is in there, as long as the source
\* stands still: what nobody undoes who syncs the same source to it.
Knows(t, s) ==
    /\ s.at = "copy" => s.left \subseteq DOMAIN source /\ Copied(t, DOMAIN source \ s.left)
    /\ s.at \in {"wrappers", "compare", "listed", "remove"} => Copied(t, DOMAIN source) /\ Pointer \in DOMAIN target[t]
    /\ s.at \in {"compare", "listed", "remove"} => Legacy \cap DOMAIN target[t] = {}
    /\ s.at = "listed" => s.left = DOMAIN source
    /\ s.at = "remove" => /\ targetOnlyFiles(DOMAIN source, DOMAIN target[t]) \subseteq s.left
                          /\ s.left \cap (DOMAIN source \cup {Pointer}) = {}

SyncerKnows(w) == w.at = "sync" /\ ~w.disturbed /\ Fit => \A t \in Targets : Knows(t, w.sync[t])

\* A check that nobody disturbed finds every target settled.
CheckKnows(w) ==
    /\ w.at = "checking" /\ ~w.disturbed => settled = Targets /\ \A t \in Targets : w.sync[t] = None \/ w.sync[t]
    /\ w.at = "told" /\ w.order.op = "check" /\ w.code = 1 => w.disturbed

\* A settled target is what the source is, and nobody has begun with it.
SettledIsAlone ==
    \A t \in settled :
        /\ workflowSkillStatus(source, target[t])
        /\ \A o \in Operators : work[o].at = "sync" => work[o].sync[t].at \in {"status", "done", "failed"}

BundleInv ==
    /\ \A o \in Operators : SyncerKnows(work[o]) /\ CheckKnows(work[o])
    /\ SettledIsAlone

RuntimeInv == RuntimeTypeOK /\ FleetInv /\ BundleInv

-----------------------------------------------------------------------------
\* The commands that were given are known, and so are their projects.
LEMMA OrdersAreKnown ==
    ASSUME NEW order \in Orders
    PROVE  order.projects \in Seq(Projects) /\ Range(order.projects) \subseteq Projects
<1>1. Range(order.projects) \subseteq Projects
  BY DEF Projects
<1>2. order.projects \in Seq(Range(order.projects))
  BY RuntimeAssumption
<1> QED BY <1>1, <1>2, SeqMonotonic

\* The files of a bundle, and what lies in a target before, have names.
LEMMA NamesOfFiles == Pointer \in Names /\ \A files \in Bundles \cup Leftovers : DOMAIN files \subseteq Names
<1>1. ASSUME NEW files \in Bundles \cup Leftovers, NEW f \in DOMAIN files PROVE f \in Names
  <2>1. DOMAIN files \in {DOMAIN fs : fs \in Bundles \cup Leftovers}
    OBVIOUS
  <2> QED BY <1>1, <2>1 DEF Names
<1>2. Pointer \in Names
  BY DEF Names
<1>3. \A files \in Bundles \cup Leftovers : \A f \in DOMAIN files : f \in Names
  BY <1>1
<1> HIDE DEF Names
<1> QED BY <1>2, <1>3

\* What is left of the projects after the first.
LEMMA LeftAfterFirst ==
    ASSUME NEW left \in Seq(Projects), left # << >>
    PROVE  Tail(left) \in Seq(Projects) /\ Head(left) \in Projects /\ Range(left) \subseteq {Head(left)} \cup Range(Tail(left))
<1>1. /\ Tail(left) \in Seq(Projects) /\ Head(left) = left[1] /\ Len(left) \in Nat /\ DOMAIN left = 1..Len(left)
      /\ DOMAIN Tail(left) = 1..(Len(left) - 1) /\ \A i \in 1..(Len(left) - 1) : Tail(left)[i] = left[i + 1]
      /\ Head(left) \in Projects
  BY HeadTailProperties
<1>2. ASSUME NEW i \in 1..Len(left), i # 1 PROVE left[i] \in Range(Tail(left))
  <2>1. i - 1 \in 1..(Len(left) - 1) /\ Tail(left)[i - 1] = left[(i - 1) + 1] /\ (i - 1) + 1 = i
    BY <1>1, <1>2
  <2> QED BY <1>1, <2>1 DEF Range
<1> QED BY <1>1, <1>2 DEF Range

\* A command that goes on as it fits.
LEMMA FitsOn ==
    ASSUME WorkTypeOK, NEW o \in Operators, NEW next, WorkFits(next), work' = [work EXCEPT ![o] = next]
    PROVE  WorkTypeOK' /\ work'[o] = next /\ \A x \in Operators \ {o} : work'[x] = work[x]
  BY DEF WorkTypeOK

\* A command that is disturbed goes on with what it was doing.
LEMMA DisturbedFits ==
    ASSUME WorkTypeOK, NEW these \in SUBSET Operators, NEW them, them = Disturbed(these)
    PROVE  /\ them = [o \in Operators |-> them[o]]
           /\ \A o \in Operators :
                /\ WorkFits(them[o])
                /\ them[o].at = work[o].at /\ them[o].order = work[o].order /\ them[o].current = work[o].current
                /\ them[o].left = work[o].left /\ them[o].sync = work[o].sync /\ them[o].code = work[o].code
                /\ them[o].disturbed <=> work[o].disturbed \/ (o \in these /\ work[o].at # "rest")
                /\ o \notin these => them[o] = work[o]
<1>1. ASSUME NEW w \in Works
      PROVE  LET d == [w EXCEPT !.disturbed = TRUE] IN
             /\ d \in Works /\ d.at = w.at /\ d.order = w.order /\ d.current = w.current
             /\ d.left = w.left /\ d.sync = w.sync /\ d.code = w.code /\ d.disturbed = TRUE
  BY DEF Works
<1>2. \A o \in Operators : work[o] \in Works /\ WorkFits(work[o])
  BY DEF WorkTypeOK, WorkFits
<1>3. \A o \in Operators :
         them[o] = IF o \in these /\ work[o].at # "rest" THEN [work[o] EXCEPT !.disturbed = TRUE] ELSE work[o]
  BY DEF Disturbed
<1>4. them = [o \in Operators |-> them[o]]
  BY DEF Disturbed
<1>5. ASSUME NEW o \in Operators
      PROVE  /\ WorkFits(them[o])
             /\ them[o].at = work[o].at /\ them[o].order = work[o].order /\ them[o].current = work[o].current
             /\ them[o].left = work[o].left /\ them[o].sync = work[o].sync /\ them[o].code = work[o].code
             /\ them[o].disturbed <=> work[o].disturbed \/ (o \in these /\ work[o].at # "rest")
             /\ o \notin these => them[o] = work[o]
  <2>1. CASE o \in these /\ work[o].at # "rest"
    <3> DEFINE d == [work[o] EXCEPT !.disturbed = TRUE]
    <3>1. them[o] = d
      BY <1>3, <2>1
    <3>2. /\ d \in Works /\ d.at = work[o].at /\ d.order = work[o].order /\ d.current = work[o].current
          /\ d.left = work[o].left /\ d.sync = work[o].sync /\ d.code = work[o].code /\ d.disturbed = TRUE
      BY <1>1, <1>2
    <3> HIDE DEF d
    <3>3. WorkFits(d)
      BY <1>2, <3>2 DEF WorkFits
    <3> QED BY <2>1, <3>1, <3>2, <3>3
  <2>2. CASE ~(o \in these /\ work[o].at # "rest")
    BY <1>2, <1>3, <2>2
  <2> QED BY <2>1, <2>2
<1> QED BY <1>4, <1>5

\* A command that returns.
LEMMA ExitFits ==
    ASSUME NEW w, WorkFits(w), NEW code \in {0, 1, 2}
    PROVE  WorkFits([Resting EXCEPT !.at = "told", !.order = w.order, !.disturbed = w.disturbed, !.code = code])
<1>1. << >> \in Seq(Projects) /\ None \in ProviderVersions
  BY DEF ProviderVersions
<1>2. Resting \in Works
  BY <1>1 DEF Resting, Works
<1>3. w.order \in Orders \cup {None} /\ w.disturbed \in BOOLEAN
  BY DEF WorkFits, Works
<1> DEFINE next == [Resting EXCEPT !.at = "told", !.order = w.order, !.disturbed = w.disturbed, !.code = code]
<1>4. next \in Works /\ next.at = "told"
  BY <1>2, <1>3 DEF Works
<1> HIDE DEF next
<1>5. WorkFits(next)
  BY <1>4 DEF WorkFits
<1> QED BY <1>5 DEF next

\* A command that has left its first project behind.
LEMMA NextFits ==
    ASSUME NEW w, WorkFits(w), w.left # << >>, w.at # "sync", w.at = "begun" => w.order.op # "adapt"
    PROVE  LET next == [w EXCEPT !.left = Tail(w.left)] IN
           /\ WorkFits(next) /\ next.at = w.at /\ next.order = w.order /\ next.current = w.current
           /\ next.left = Tail(w.left)
  BY LeftAfterFirst DEF WorkFits, Works

\* A stage of a sync at one target.
LEMMA StageFits ==
    ASSUME NEW w, WorkFits(w), w.at = "sync", NEW t \in Targets, NEW s \in Stages
    PROVE  LET next == [w EXCEPT !.sync[t] = s] IN
           /\ WorkFits(next) /\ next.at = "sync" /\ next.order = w.order /\ next.current = w.current
           /\ next.left = w.left /\ next.disturbed = w.disturbed
           /\ next.sync[t] = s /\ \A u \in Targets \ {t} : next.sync[u] = w.sync[u]
<1> DEFINE sync == [w.sync EXCEPT ![t] = s]
           next == [w EXCEPT !.sync = sync]
<1>1. w \in Works /\ w.sync \in [Targets -> Stages]
  BY DEF WorkFits
<1>2. sync \in [Targets -> Stages] /\ sync[t] = s /\ \A u \in Targets \ {t} : sync[u] = w.sync[u]
  BY <1>1
<1> HIDE DEF sync
<1>3. /\ next \in Works /\ next.at = "sync" /\ next.order = w.order /\ next.current = w.current
      /\ next.left = w.left /\ next.disturbed = w.disturbed /\ next.sync = sync
  BY <1>1, <1>2 DEF Works
<1>4. next = [w EXCEPT !.sync[t] = s]
  BY <1>1 DEF sync, Works
<1> HIDE DEF next
<1>5. WorkFits(next)
  BY <1>2, <1>3 DEF WorkFits
<1> QED BY <1>2, <1>3, <1>4, <1>5

\* The fleet stands still, and no command begins to restart it.
LEMMA FleetStays ==
    ASSUME FleetTypeOK, FleetInv, UNCHANGED <<version, stamp, daemon, starting, spared>>,
           \A x \in Operators :
             /\ work'[x].current \in {None, version, work[x].current}
             /\ work'[x].at = "restart" => /\ work[x].at = "restart" /\ work'[x].order = work[x].order
                                           /\ work'[x].left = work[x].left /\ work'[x].current = work[x].current
    PROVE  FleetTypeOK' /\ FleetInv'
<1>1. \A v, ps : AllNewer(v, ps)' <=> AllNewer(v, ps)
  BY DEF AllNewer, NoOlder
<1>2. \A x \in Operators : WorkIsBacked(work[x])'
  <2> SUFFICES ASSUME NEW x \in Operators PROVE WorkIsBacked(work[x])'
    OBVIOUS
  <2>1. WorkIsBacked(work[x])
    BY DEF FleetInv
  <2>2. work'[x].current # None => work'[x].current <= version
    BY <2>1 DEF WorkIsBacked, FleetTypeOK
  <2> QED BY <2>1, <2>2 DEF WorkIsBacked, AllNewer, NoOlder
<1> QED BY <1>2 DEF FleetTypeOK, FleetInv, AllNewer, NoOlder

\* The bundle stands still, and a command goes on that neither syncs nor checks.
LEMMA BundleStays ==
    ASSUME RuntimeInv, NEW o \in Operators, NEW next, WorkFits(next), work' = [work EXCEPT ![o] = next],
           UNCHANGED <<source, target, settled>>,
           next.at \notin {"sync", "checking"},
           next.at = "told" => next.order.op # "check" \/ next.code # 1 \/ next.disturbed
    PROVE  BundleTypeOK' /\ BundleInv' /\ WorkTypeOK'
<1>1. WorkTypeOK' /\ work'[o] = next /\ \A x \in Operators \ {o} : work'[x] = work[x]
  BY FitsOn DEF RuntimeInv, RuntimeTypeOK
<1>2. BundleTypeOK'
  BY DEF RuntimeInv, RuntimeTypeOK, BundleTypeOK
<1>3. SettledIsAlone'
  BY <1>1 DEF RuntimeInv, BundleInv, SettledIsAlone
<1>4. \A x \in Operators : SyncerKnows(work[x])' /\ CheckKnows(work[x])'
  <2>1. SyncerKnows(next)' /\ CheckKnows(next)'
    BY DEF SyncerKnows, CheckKnows
  <2>2. ASSUME NEW x \in Operators \ {o} PROVE SyncerKnows(work[x])' /\ CheckKnows(work[x])'
    BY <1>1, <2>2 DEF RuntimeInv, BundleInv, SyncerKnows, CheckKnows, Knows, Copied, Fit
  <2> QED BY <1>1, <2>1, <2>2 DEF SyncerKnows, CheckKnows
<1> QED BY <1>1, <1>2, <1>3, <1>4 DEF BundleInv

\* A command goes on and nothing else does.
LEMMA QuietStep ==
    ASSUME RuntimeInv, NEW o \in Operators, NEW next, WorkFits(next), work' = [work EXCEPT ![o] = next],
           UNCHANGED <<version, stamp, bundle, fleet>>,
           next.at \in {"begun", "told", "rest"}, next.current \in {None, work[o].current},
           next.at = "told" => next.order.op # "check" \/ next.code # 1 \/ next.disturbed
    PROVE  RuntimeInv'
<1>1. BundleTypeOK' /\ BundleInv' /\ WorkTypeOK'
  BY BundleStays DEF bundle
<1>2. work'[o] = next /\ \A x \in Operators \ {o} : work'[x] = work[x]
  BY FitsOn DEF RuntimeInv, RuntimeTypeOK
<1>3. FleetTypeOK' /\ FleetInv'
  <2>1. \A x \in Operators :
             /\ work'[x].current \in {None, version, work[x].current}
             /\ work'[x].at = "restart" => /\ work[x].at = "restart" /\ work'[x].order = work[x].order
                                           /\ work'[x].left = work[x].left /\ work'[x].current = work[x].current
    BY <1>2
  <2> QED BY <2>1, FleetStays DEF RuntimeInv, RuntimeTypeOK, fleet
<1> QED BY <1>1, <1>3 DEF RuntimeInv, RuntimeTypeOK

\* A command returns with a code.
LEMMA ExitStep ==
    ASSUME RuntimeInv, NEW o \in Operators, NEW code \in {0, 1, 2}, Exits(o, code),
           UNCHANGED <<version, stamp, bundle, fleet>>,
           work[o].order.op # "check" \/ code # 1 \/ work[o].disturbed
    PROVE  RuntimeInv'
<1> DEFINE next == [Resting EXCEPT !.at = "told", !.order = work[o].order, !.disturbed = work[o].disturbed, !.code = code]
<1>1. WorkFits(work[o])
  BY DEF RuntimeInv, RuntimeTypeOK, WorkTypeOK
<1>2. WorkFits(next)
  BY <1>1, ExitFits
<1>3. /\ next.at = "told" /\ next.order = work[o].order /\ next.disturbed = work[o].disturbed /\ next.code = code
      /\ next.current = None
  BY DEF Resting
<1>4. work' = [work EXCEPT ![o] = next]
  BY DEF Exits, Proceeds
<1> HIDE DEF next
<1> QED BY <1>2, <1>3, <1>4, QuietStep

\* What the outside and the operator do.
LEMMA WorldStep ==
    ASSUME RuntimeInv,
           \/ EditSource \/ Upgrade
           \/ \E p \in Providers : Mount(p) \/ Stop(p)
           \/ \E o \in Operators, order \in Orders : GiveOrder(o, order)
    PROVE  RuntimeInv'
<1>0. RuntimeTypeOK /\ FleetInv /\ BundleInv /\ FleetTypeOK /\ BundleTypeOK /\ WorkTypeOK
  BY DEF RuntimeInv, RuntimeTypeOK
<1>1. CASE EditSource
  <2>1. /\ work' = Disturbed(Operators) /\ source' \in Bundles /\ settled' = {}
        /\ UNCHANGED <<version, stamp, target, daemon, starting, spared>>
    BY <1>1 DEF EditSource, fleet
  <2>2. WorkTypeOK' /\ \A o \in Operators :
                /\ work'[o].at = work[o].at /\ work'[o].order = work[o].order /\ work'[o].current = work[o].current
                /\ work'[o].left = work[o].left /\ work'[o].sync = work[o].sync /\ work'[o].code = work[o].code
                /\ work'[o].disturbed <=> work[o].disturbed \/ work[o].at # "rest"
    <3>1. work' = [o \in Operators |-> work'[o]] /\ \A o \in Operators :
                /\ WorkFits(work'[o])
                /\ work'[o].at = work[o].at /\ work'[o].order = work[o].order /\ work'[o].current = work[o].current
                /\ work'[o].left = work[o].left /\ work'[o].sync = work[o].sync /\ work'[o].code = work[o].code
                /\ work'[o].disturbed <=> work[o].disturbed \/ (o \in Operators /\ work[o].at # "rest")
      BY <1>0, <2>1, DisturbedFits
    <3> QED BY <3>1 DEF WorkTypeOK, WorkFits
  <2>3. FleetTypeOK' /\ FleetInv'
    BY <1>0, <2>1, <2>2, FleetStays
  <2>4. BundleTypeOK'
    BY <1>0, <2>1 DEF BundleTypeOK
  <2>5. BundleInv'
    BY <1>0, <2>1, <2>2 DEF BundleInv, SyncerKnows, CheckKnows, SettledIsAlone
  <2> QED BY <2>2, <2>3, <2>4, <2>5 DEF RuntimeInv, RuntimeTypeOK
<1>2. CASE Upgrade
  <2>1. version' = version + 1 /\ UNCHANGED <<stamp, source, target, settled, daemon, starting, spared, work>>
    BY <1>2 DEF Upgrade, bundle, fleet
  <2>2. FleetTypeOK' /\ FleetInv'
    <3>1. \A ps : \A v \in Nat : AllNewer(v, ps) => AllNewer(v, ps)'
      BY <1>0, <2>1 DEF AllNewer, NoOlder, FleetTypeOK
    <3>2. \A o \in Operators : work[o].current \in ProviderVersions
      BY <1>0 DEF WorkTypeOK, WorkFits, Works
    <3> QED BY <1>0, <2>1, <3>1, <3>2 DEF FleetTypeOK, FleetInv, WorkIsBacked, AllNewer, NoOlder, ProviderVersions, WorkTypeOK, WorkFits
  <2>3. BundleTypeOK' /\ BundleInv' /\ WorkTypeOK'
    BY <1>0, <2>1 DEF BundleTypeOK, BundleInv, WorkTypeOK, SyncerKnows, CheckKnows, SettledIsAlone, Knows, Copied, Fit, WorkFits
  <2> QED BY <2>2, <2>3 DEF RuntimeInv, RuntimeTypeOK
<1>3. ASSUME NEW p \in Providers, Mount(p) \/ Stop(p) PROVE RuntimeInv'
  <2>1. UNCHANGED <<version, stamp, source, target, settled, spared, work>>
    BY <1>3 DEF Mount, Stop, bundle, outside
  <2>2. /\ daemon' \in [Providers -> ProviderVersions] /\ starting' \in [Providers -> ProviderVersions]
        /\ \A q \in Providers : daemon'[q] = None \/ starting'[q] = None
        /\ \A q \in Providers : daemon'[q] \in {None, daemon[q], starting[q]} /\ starting'[q] \in {None, starting[q]}
    BY <1>0, <1>3 DEF Mount, Stop, FleetTypeOK, FleetInv, ProviderVersions
  <2>3. \A ps \in SUBSET Providers, v \in ProviderVersions : AllNewer(v, ps) => AllNewer(v, ps)'
    BY <2>1, <2>2 DEF AllNewer, NoOlder
  <2>4. FleetTypeOK' /\ FleetInv'
    <3>1. \A o \in Operators : work[o].current \in ProviderVersions
      BY <1>0 DEF WorkTypeOK, WorkFits, Works
    <3>2. FleetTypeOK' /\ (stamp' # None => AllNewer(stamp, Providers \ spared)')
      BY <1>0, <2>1, <2>2, <2>3 DEF FleetTypeOK, FleetInv
    <3>3. \A o \in Operators : WorkIsBacked(work[o])'
      BY <1>0, <2>1, <2>3, <3>1 DEF FleetInv, WorkIsBacked
    <3> QED BY <2>2, <3>2, <3>3 DEF FleetInv
  <2>5. BundleTypeOK' /\ BundleInv' /\ WorkTypeOK'
    BY <1>0, <2>1 DEF BundleTypeOK, BundleInv, WorkTypeOK, SyncerKnows, CheckKnows, SettledIsAlone, Knows, Copied, Fit, WorkFits
  <2> QED BY <2>4, <2>5 DEF RuntimeInv, RuntimeTypeOK
<1>4. ASSUME NEW o \in Operators, NEW order \in Orders, GiveOrder(o, order) PROVE RuntimeInv'
  <2> DEFINE next == [Resting EXCEPT !.order = order, !.at = "begun", !.left = order.projects]
  <2>1. work' = [work EXCEPT ![o] = next] /\ UNCHANGED <<version, stamp, bundle, fleet>>
    BY <1>4 DEF GiveOrder
  <2>2. Resting \in Works
    <3>1. << >> \in Seq(Projects) /\ None \in ProviderVersions
      BY DEF ProviderVersions
    <3> QED BY <3>1 DEF Resting, Works
  <2>3. next \in Works /\ next.at = "begun" /\ next.order = order /\ next.left = order.projects
    BY <2>2, OrdersAreKnown DEF Works
  <2>4. next.current = None
    BY DEF Resting
  <2> HIDE DEF next
  <2>5. WorkFits(next)
    BY <2>3 DEF WorkFits
  <2> QED BY <2>1, <2>3, <2>4, <2>5, QuietStep
<1> QED BY <1>1, <1>2, <1>3, <1>4

\* The daemons are started and stopped, and asked.
LEMMA FleetStep ==
    ASSUME RuntimeInv, NEW o \in Operators,
           Up(o) \/ UpEnds(o) \/ Down(o) \/ DownEnds(o) \/ FleetStatus(o) \/ FleetStatusEnds(o)
    PROVE  RuntimeInv'
<1>0. RuntimeTypeOK /\ FleetInv /\ BundleInv /\ FleetTypeOK /\ BundleTypeOK /\ WorkTypeOK /\ WorkFits(work[o]) /\ work[o] \in Works
  BY DEF RuntimeInv, RuntimeTypeOK, WorkTypeOK, WorkFits
<1>1. ASSUME NextProject(o), work[o].at = "begun", work[o].order.op # "adapt", work[o].left # << >>
      PROVE  \E next : /\ WorkFits(next) /\ work' = [work EXCEPT ![o] = next]
                       /\ next.at = "begun" /\ next.order = work[o].order /\ next.current = work[o].current
  <2> DEFINE next == [work[o] EXCEPT !.left = Tail(work[o].left)]
  <2>1. WorkFits(next) /\ next.at = "begun" /\ next.order = work[o].order /\ next.current = work[o].current
    BY <1>0, <1>1, NextFits
  <2>2. work' = [work EXCEPT ![o] = next]
    BY <1>1 DEF NextProject, Proceeds
  <2> HIDE DEF next
  <2> QED BY <2>1, <2>2
<1>2. CASE Up(o) \/ Down(o)
  <2>1. PICK next : /\ WorkFits(next) /\ work' = [work EXCEPT ![o] = next]
                    /\ next.at = "begun" /\ next.order = work[o].order /\ next.current = work[o].current
    BY <1>1, <1>2 DEF Up, Down, Does
  <2>2. UNCHANGED <<version, stamp, source, target, settled, spared>>
    BY <1>2 DEF Up, Down, outside, bundle
  <2>3. BundleTypeOK' /\ BundleInv' /\ WorkTypeOK'
    BY <2>1, <2>2, BundleStays
  <2>4. work'[o] = next /\ \A x \in Operators \ {o} : work'[x] = work[x]
    BY <1>0, <2>1, FitsOn
  <2>5. /\ daemon' \in [Providers -> ProviderVersions] /\ starting' \in [Providers -> ProviderVersions]
        /\ \A q \in Providers : daemon'[q] = None \/ starting'[q] = None
        /\ \A q \in Providers : daemon'[q] \in {None, daemon[q]} /\ starting'[q] \in {version, starting[q]}
    <3>1. CASE Up(o)
      BY <1>0, <3>1 DEF Up, Starts, FleetTypeOK, FleetInv, ProviderVersions
    <3>2. CASE Down(o)
      BY <1>0, <3>2 DEF Down, Kill, FleetTypeOK, FleetInv, ProviderVersions
    <3> QED BY <1>2, <3>1, <3>2
  <2>6. \A ps \in SUBSET Providers, v \in Nat : AllNewer(v, ps) => AllNewer(v, ps)'
    BY <1>0, <2>2, <2>5 DEF AllNewer, NoOlder, FleetTypeOK
  <2>7. FleetTypeOK' /\ FleetInv'
    <3>1. \A x \in Operators : work[x].current \in ProviderVersions /\ (work[x].at = "restart" => work[x].current # None)
      BY <1>0 DEF WorkTypeOK, WorkFits, Works
    <3>2. FleetTypeOK' /\ (stamp' # None => AllNewer(stamp, Providers \ spared)')
      BY <1>0, <2>2, <2>5, <2>6 DEF FleetTypeOK, FleetInv, ProviderVersions
    <3>3. \A x \in Operators : WorkIsBacked(work[x])'
      <4>1. WorkIsBacked(next)'
        BY <1>0, <2>1, <2>2 DEF FleetInv, WorkIsBacked
      <4>2. ASSUME NEW x \in Operators \ {o} PROVE WorkIsBacked(work[x])'
        BY <1>0, <2>2, <2>4, <2>6, <3>1, <4>2 DEF FleetInv, WorkIsBacked, ProviderVersions
      <4> QED BY <2>4, <4>1, <4>2 DEF WorkIsBacked
    <3> QED BY <2>5, <3>2, <3>3 DEF FleetInv
  <2> QED BY <2>3, <2>7 DEF RuntimeInv, RuntimeTypeOK
<1>3. CASE UpEnds(o) \/ DownEnds(o)
  BY <1>3, ExitStep DEF UpEnds, DownEnds, Does, outside
<1>4. CASE FleetStatusEnds(o)
  BY <1>4, ExitStep DEF FleetStatusEnds, Does, outside
<1>5. CASE FleetStatus(o)
  <2> DEFINE code == IF Project(o) \in Providers /\ daemon[Project(o)] # None THEN 0 ELSE work[o].code
             next == [work[o] EXCEPT !.left = Tail(work[o].left), !.code = code]
  <2>1. work[o].at = "begun" /\ work[o].order.op = "status" /\ work[o].left # << >>
        /\ UNCHANGED <<version, stamp, bundle, fleet>> /\ work' = [work EXCEPT ![o] = next]
    BY <1>5 DEF FleetStatus, Does, Proceeds, outside
  <2>2. code \in {None, 0, 1, 2} /\ Tail(work[o].left) \in Seq(Projects)
    BY <1>0, <2>1, LeftAfterFirst DEF Works
  <2> HIDE DEF code
  <2>3. next \in Works /\ next.at = "begun" /\ next.order = work[o].order /\ next.current = work[o].current
    BY <1>0, <2>1, <2>2 DEF Works
  <2> HIDE DEF next
  <2>4. WorkFits(next)
    BY <1>0, <2>1, <2>3 DEF WorkFits
  <2> QED BY <2>1, <2>3, <2>4, QuietStep
<1> QED BY <1>2, <1>3, <1>4, <1>5

\* A check reads the targets and tells of them.
LEMMA CheckStep ==
    ASSUME RuntimeInv, NEW o \in Operators, CheckReads(o) \/ CheckEnds(o) \/ \E t \in Targets : CheckTarget(o, t)
    PROVE  RuntimeInv'
<1>0. RuntimeTypeOK /\ FleetInv /\ BundleInv /\ FleetTypeOK /\ BundleTypeOK /\ WorkTypeOK /\ WorkFits(work[o]) /\ work[o] \in Works
  BY DEF RuntimeInv, RuntimeTypeOK, WorkTypeOK, WorkFits
<1>1. ASSUME NEW next, WorkFits(next), work' = [work EXCEPT ![o] = next], UNCHANGED <<version, stamp, bundle, fleet>>,
             next.at = "checking", next.current = work[o].current, CheckKnows(next)
      PROVE  RuntimeInv'
  <2>1. WorkTypeOK' /\ work'[o] = next /\ \A x \in Operators \ {o} : work'[x] = work[x]
    BY <1>0, <1>1, FitsOn
  <2>2. UNCHANGED <<source, target, settled, daemon, starting, spared>>
    BY <1>1 DEF bundle, fleet
  <2>3. FleetTypeOK' /\ FleetInv'
    <3>1. \A x \in Operators :
             /\ work'[x].current \in {None, version, work[x].current}
             /\ work'[x].at = "restart" => /\ work[x].at = "restart" /\ work'[x].order = work[x].order
                                           /\ work'[x].left = work[x].left /\ work'[x].current = work[x].current
      BY <1>1, <2>1
    <3> QED BY <1>0, <1>1, <2>2, <3>1, FleetStays
  <2>4. BundleTypeOK' /\ SettledIsAlone'
    BY <1>0, <1>1, <2>1, <2>2 DEF BundleTypeOK, BundleInv, SettledIsAlone
  <2>5. SyncerKnows(next)' /\ CheckKnows(next)'
    BY <1>1, <2>2 DEF SyncerKnows, CheckKnows
  <2>6. ASSUME NEW x \in Operators \ {o} PROVE SyncerKnows(work[x])' /\ CheckKnows(work[x])'
    BY <1>0, <2>1, <2>2, <2>6 DEF BundleInv, SyncerKnows, CheckKnows, Knows, Copied, Fit
  <2> QED BY <2>1, <2>3, <2>4, <2>5, <2>6 DEF RuntimeInv, RuntimeTypeOK, BundleInv, SyncerKnows, CheckKnows
<1>2. CASE CheckReads(o)
  <2> DEFINE none == [t \in Targets |-> None]
             busy == settled # Targets
             next == [work[o] EXCEPT !.at = "checking", !.disturbed = busy, !.sync = none]
  <2>1. work[o].at = "begun" /\ work[o].order.op = "check" /\ UNCHANGED <<version, stamp, bundle, fleet>>
        /\ work' = [work EXCEPT ![o] = next]
    BY <1>2 DEF CheckReads, Does, Proceeds, outside
  <2>2. none \in [Targets -> StatusAnswers] /\ busy \in BOOLEAN /\ (~busy => settled = Targets)
        /\ \A t \in Targets : none[t] = None
    BY DEF StatusAnswers
  <2> HIDE DEF none, busy
  <2>3. next \in Works /\ next.at = "checking" /\ next.order = work[o].order /\ next.current = work[o].current
        /\ next.sync = none /\ next.disturbed = busy
    BY <1>0, <2>2 DEF Works
  <2> HIDE DEF next
  <2>4. WorkFits(next) /\ CheckKnows(next)
    BY <1>0, <2>1, <2>2, <2>3 DEF WorkFits, CheckKnows
  <2> QED BY <1>1, <2>1, <2>3, <2>4
<1>3. ASSUME NEW t \in Targets, CheckTarget(o, t) PROVE RuntimeInv'
  <2> DEFINE answer == workflowSkillStatus(source, target[t])
             sync == [work[o].sync EXCEPT ![t] = answer]
             next == [work[o] EXCEPT !.sync = sync]
  <2>1. work[o].at = "checking" /\ work[o].order.op = "check" /\ UNCHANGED <<version, stamp, bundle, fleet>>
    BY <1>3 DEF CheckTarget, Does, outside
  <2>2. work' = [work EXCEPT ![o] = next]
    BY <1>0, <1>3, <2>1 DEF CheckTarget, Proceeds, Works
  <2>3. answer \in BOOLEAN /\ work[o].sync \in [Targets -> StatusAnswers]
    BY <1>0, <2>1 DEF WorkFits, workflowSkillStatus, compareBundleFiles
  <2>4. settled = Targets => answer
    BY <1>0 DEF BundleInv, SettledIsAlone
  <2> HIDE DEF answer
  <2>5. sync \in [Targets -> StatusAnswers] /\ sync[t] = answer /\ \A u \in Targets \ {t} : sync[u] = work[o].sync[u]
    BY <2>3 DEF StatusAnswers
  <2> HIDE DEF sync
  <2>6. next \in Works /\ next.at = "checking" /\ next.order = work[o].order /\ next.current = work[o].current
        /\ next.sync = sync /\ next.disturbed = work[o].disturbed
    BY <1>0, <2>1, <2>5 DEF Works
  <2> HIDE DEF next
  <2>7. WorkFits(next)
    BY <1>0, <2>1, <2>5, <2>6 DEF WorkFits
  <2>8. CheckKnows(next)
    <3>1. ASSUME ~work[o].disturbed PROVE settled = Targets /\ \A u \in Targets : sync[u] = None \/ sync[u]
      <4>1. settled = Targets /\ \A u \in Targets : work[o].sync[u] = None \/ work[o].sync[u]
        BY <1>0, <2>1, <3>1 DEF BundleInv, CheckKnows
      <4> QED BY <2>4, <2>5, <4>1
    <3> QED BY <2>6, <3>1 DEF CheckKnows
  <2> QED BY <1>1, <2>1, <2>2, <2>6, <2>7, <2>8
<1>4. CASE CheckEnds(o)
  <2> DEFINE code == IF work[o].order.strict /\ \E t \in Targets : ~work[o].sync[t] THEN 1 ELSE 0
  <2>1. /\ work[o].at = "checking" /\ \A t \in Targets : work[o].sync[t] # None
        /\ Exits(o, code) /\ UNCHANGED <<version, stamp, bundle, fleet>>
    BY <1>4 DEF CheckEnds, Does, outside
  <2>2. ASSUME ~work[o].disturbed PROVE code = 0
    BY <1>0, <2>1, <2>2 DEF BundleInv, CheckKnows
  <2>3. code \in {0, 1, 2}
    OBVIOUS
  <2>4. work[o].order.op # "check" \/ code # 1 \/ work[o].disturbed
    BY <2>2
  <2> HIDE DEF code
  <2> QED BY <2>1, <2>3, <2>4, ExitStep
<1> QED BY <1>2, <1>3, <1>4

\* An adapt reads the provider, and after the targets it restarts the daemons and stamps.
LEMMA AdaptStep ==
    ASSUME RuntimeInv, NEW o \in Operators, AdaptReads(o) \/ Synced(o) \/ Restart(o) \/ Record(o)
    PROVE  RuntimeInv'
<1>0. RuntimeTypeOK /\ FleetInv /\ BundleInv /\ FleetTypeOK /\ BundleTypeOK /\ WorkTypeOK /\ WorkFits(work[o]) /\ work[o] \in Works
      /\ WorkIsBacked(work[o])
  BY DEF RuntimeInv, RuntimeTypeOK, FleetInv, WorkTypeOK, WorkFits
<1>1. CASE AdaptReads(o)
  <2>1. work[o].at = "begun" /\ work[o].order.op = "adapt" /\ UNCHANGED <<version, stamp, bundle, fleet>>
    BY <1>1 DEF AdaptReads, Does, outside
  <2>2. CASE ~work[o].order.apply
    <3>1. \E code \in {0, 1, 2} : Exits(o, code)
      BY <1>1, <2>2 DEF AdaptReads
    <3> QED BY <2>1, <3>1, ExitStep
  <2>3. CASE work[o].order.apply
    <3> DEFINE sync == [t \in Targets |-> Stage("status", {})]
    <3>1. PICK current \in {version, None} : work' = [work EXCEPT ![o] = [work[o] EXCEPT !.at = "sync", !.current = current, !.sync = sync]]
      BY <1>1, <2>3 DEF AdaptReads, Proceeds
    <3>2. sync \in [Targets -> Stages] /\ \A t \in Targets : sync[t].at = "status"
      BY DEF Stage, Stages, StageNames
    <3> HIDE DEF sync
    <3>3. PICK next : /\ work' = [work EXCEPT ![o] = next]
                      /\ next \in Works /\ next.at = "sync" /\ next.order = work[o].order /\ next.current = current
                      /\ next.sync = sync /\ next.left = work[o].left
      <4> DEFINE next == [work[o] EXCEPT !.at = "sync", !.current = current, !.sync = sync]
      <4>1. next \in Works /\ next.at = "sync" /\ next.order = work[o].order /\ next.current = current /\ next.sync = sync
            /\ next.left = work[o].left
        BY <1>0, <3>1, <3>2 DEF Works, FleetTypeOK, ProviderVersions
      <4>2. work' = [work EXCEPT ![o] = next]
        BY <3>1
      <4> HIDE DEF next
      <4> QED BY <4>1, <4>2
    <3>4. \A t \in Targets : next.sync[t].at = "status"
      BY <3>2, <3>3
    <3>5. WorkFits(next)
      BY <1>0, <2>1, <3>2, <3>3 DEF WorkFits
    <3>6. WorkTypeOK' /\ work'[o] = next /\ \A x \in Operators \ {o} : work'[x] = work[x]
      BY <1>0, <3>3, <3>5, FitsOn
    <3>7. FleetTypeOK' /\ FleetInv'
      <4>1. \A x \in Operators :
             /\ work'[x].current \in {None, version, work[x].current}
             /\ work'[x].at = "restart" => /\ work[x].at = "restart" /\ work'[x].order = work[x].order
                                           /\ work'[x].left = work[x].left /\ work'[x].current = work[x].current
        BY <3>3, <3>6
      <4> QED BY <1>0, <2>1, <4>1, FleetStays DEF fleet
    <3>8. BundleTypeOK'
      BY <1>0, <2>1 DEF BundleTypeOK, bundle
    <3>9. SyncerKnows(next)' /\ CheckKnows(next)'
      BY <3>3, <3>4 DEF SyncerKnows, CheckKnows, Knows
    <3>10. ASSUME NEW x \in Operators \ {o} PROVE SyncerKnows(work[x])' /\ CheckKnows(work[x])'
      BY <1>0, <2>1, <3>6, <3>10 DEF BundleInv, SyncerKnows, CheckKnows, Knows, Copied, Fit, bundle
    <3>11. SettledIsAlone'
      BY <1>0, <2>1, <3>4, <3>6 DEF BundleInv, SettledIsAlone, bundle, BundleTypeOK
    <3> QED BY <3>6, <3>7, <3>8, <3>9, <3>10, <3>11 DEF RuntimeInv, RuntimeTypeOK, BundleInv, SyncerKnows, CheckKnows
  <2> QED BY <2>2, <2>3
<1>2. CASE Synced(o)
  <2>1. work[o].at = "sync" /\ work[o].order.op = "adapt" /\ UNCHANGED <<version, stamp, bundle, fleet>>
        /\ work[o].left = work[o].order.projects /\ work[o].order \in Orders
    BY <1>0, <1>2 DEF Synced, Syncing, outside, WorkFits
  <2>2. CASE \E code \in {0, 1, 2} : Exits(o, code)
    BY <2>1, <2>2, ExitStep
  <2>3. CASE ProceedsTo(o, "restart") /\ work[o].current # None
    <3>1. PICK next : work' = [work EXCEPT ![o] = next] /\ next = [work[o] EXCEPT !.at = "restart"]
      BY <2>3 DEF ProceedsTo, Proceeds
    <3>2. next \in Works /\ next.at = "restart" /\ next.order = work[o].order /\ next.current = work[o].current /\ next.left = work[o].left
      BY <1>0, <3>1 DEF Works
    <3>3. WorkFits(next)
      BY <2>1, <2>3, <3>2 DEF WorkFits
    <3>4. WorkTypeOK' /\ work'[o] = next /\ \A x \in Operators \ {o} : work'[x] = work[x]
      BY <1>0, <3>1, <3>3, FitsOn
    <3>5. BundleTypeOK' /\ BundleInv' /\ WorkTypeOK'
      BY <2>1, <3>1, <3>2, <3>3, BundleStays DEF bundle
    <3>6. UNCHANGED <<version, stamp, daemon, starting, spared>>
      BY <2>1 DEF fleet
    <3>7. WorkIsBacked(next)'
      BY <1>0, <2>1, <2>3, <3>2, <3>6 DEF WorkIsBacked, AllNewer
    <3>8. ASSUME NEW x \in Operators \ {o} PROVE WorkIsBacked(work[x])'
      BY <1>0, <3>4, <3>6, <3>8 DEF FleetInv, WorkIsBacked, AllNewer, NoOlder
    <3>9. FleetTypeOK' /\ FleetInv'
      BY <1>0, <3>4, <3>6, <3>7, <3>8 DEF FleetTypeOK, FleetInv, AllNewer, NoOlder, WorkIsBacked
    <3> QED BY <3>5, <3>9 DEF RuntimeInv, RuntimeTypeOK
  <2> QED BY <1>2, <2>2, <2>3 DEF Synced
<1>3. CASE Restart(o)
  <2>1. work[o].at = "restart" /\ work[o].order.op = "adapt" /\ work[o].left # << >>
        /\ UNCHANGED <<version, stamp, starting, source, target, settled>>
    BY <1>3 DEF Restart, Does, outside, bundle
  <2>2. PICK next : /\ WorkFits(next) /\ work' = [work EXCEPT ![o] = next]
                    /\ next.at = "restart" /\ next.order = work[o].order /\ next.current = work[o].current
                    /\ next.left = Tail(work[o].left)
    <3> DEFINE next == [work[o] EXCEPT !.left = Tail(work[o].left)]
    <3>1. /\ WorkFits(next) /\ next.at = "restart" /\ next.order = work[o].order /\ next.current = work[o].current
          /\ next.left = Tail(work[o].left)
      BY <1>0, <2>1, NextFits
    <3>2. work' = [work EXCEPT ![o] = next]
      BY <1>3 DEF Restart, NextProject, Proceeds
    <3> HIDE DEF next
    <3> QED BY <3>1, <3>2
  <2>3. WorkTypeOK' /\ work'[o] = next /\ \A x \in Operators \ {o} : work'[x] = work[x]
    BY <1>0, <2>2, FitsOn
  <2>4. BundleTypeOK' /\ BundleInv' /\ WorkTypeOK'
    BY <2>1, <2>2, BundleStays
  <2>5. PICK p : p = Project(o)
    OBVIOUS
  <2>6. Range(work[o].left) \subseteq {p} \cup Range(next.left)
    BY <1>0, <2>1, <2>2, <2>5, LeftAfterFirst DEF Works, Project
  <2>7. /\ daemon' \in [Providers -> ProviderVersions]
        /\ \A q \in Providers : daemon'[q] \in {None, daemon[q]}
        /\ spared \subseteq spared' \cup {p}
        /\ p \in Providers /\ p \notin spared' => daemon'[p] = None /\ starting[p] = None
    BY <1>0, <1>3, <2>5 DEF Restart, Kill, FleetTypeOK, FleetInv, ProviderVersions
  <2>8. ASSUME NEW v \in Nat, NEW ps \in SUBSET Providers, NEW qs \in SUBSET Providers, AllNewer(v, ps),
               qs \subseteq (ps \cup {p}) \ spared'
        PROVE  v <= version' /\ \A q \in qs : /\ daemon'[q] # None => daemon'[q] >= v
                                              /\ starting'[q] # None => starting'[q] >= v
    BY <1>0, <2>1, <2>7, <2>8 DEF AllNewer, NoOlder, FleetTypeOK
  <2>9. \A x \in Operators : work[x].current \in ProviderVersions /\ (work[x].at = "restart" => work[x].current # None)
    BY <1>0 DEF WorkTypeOK, WorkFits, Works
  <2>10. (stamp # None => AllNewer(stamp, Providers \ spared))'
    <3>1. ASSUME stamp # None
          PROVE  stamp <= version' /\ \A q \in Providers \ spared' : /\ daemon'[q] # None => daemon'[q] >= stamp
                                                                     /\ starting'[q] # None => starting'[q] >= stamp
      <4>1. stamp \in Nat /\ AllNewer(stamp, Providers \ spared)
        BY <1>0, <3>1 DEF FleetInv, FleetTypeOK, ProviderVersions
      <4>2. Providers \ spared' \subseteq ((Providers \ spared) \cup {p}) \ spared'
        BY <2>7
      <4> QED BY <4>1, <4>2, <2>8
    <3> QED BY <2>1, <3>1 DEF AllNewer, NoOlder
  <2>11. ASSUME NEW x \in Operators, NEW left,
                Range(work[x].left) \subseteq {p} \cup Range(left), work[x].at = "restart"
         PROVE  work[x].current <= version' /\
                \A q \in (Providers \cap Range(work[x].order.projects)) \ (spared' \cup Range(left)) :
                   /\ daemon'[q] # None => daemon'[q] >= work[x].current
                   /\ starting'[q] # None => starting'[q] >= work[x].current
    <3> DEFINE ps == (Providers \cap Range(work[x].order.projects)) \ (spared \cup Range(work[x].left))
               qs == (Providers \cap Range(work[x].order.projects)) \ (spared' \cup Range(left))
    <3>1. work[x].current \in Nat /\ AllNewer(work[x].current, ps)
      BY <1>0, <2>9, <2>11 DEF FleetInv, WorkIsBacked, ProviderVersions
    <3>2. qs \subseteq (ps \cup {p}) \ spared'
      BY <2>7, <2>11
    <3>3. ps \in SUBSET Providers /\ qs \in SUBSET Providers
      OBVIOUS
    <3> HIDE DEF ps, qs
    <3>4. work[x].current <= version' /\ \A q \in qs : /\ daemon'[q] # None => daemon'[q] >= work[x].current
                                                       /\ starting'[q] # None => starting'[q] >= work[x].current
      BY <2>8, <3>1, <3>2, <3>3
    <3> QED BY <3>4 DEF qs
  <2>12. WorkIsBacked(work[o])'
    <3>1. work'[o].current = work[o].current /\ work'[o].order = work[o].order /\ work'[o].left = next.left
      BY <2>2, <2>3
    <3>2. version' = version
      BY <1>3 DEF Restart, outside
    <3> QED BY <1>0, <2>1, <2>6, <2>11, <3>1, <3>2 DEF WorkIsBacked, AllNewer, NoOlder
  <2>13. ASSUME NEW x \in Operators \ {o} PROVE WorkIsBacked(work[x])'
    <3>1. work'[x] = work[x] /\ version' = version /\ WorkIsBacked(work[x])
      BY <1>0, <2>1, <2>3 DEF FleetInv
    <3>2. work[x].at = "restart" => \A q \in (Providers \cap Range(work[x].order.projects)) \ (spared' \cup Range(work[x].left)) :
                                      /\ daemon'[q] # None => daemon'[q] >= work[x].current
                                      /\ starting'[q] # None => starting'[q] >= work[x].current
      BY <2>11
    <3> QED BY <3>1, <3>2 DEF WorkIsBacked, AllNewer, NoOlder
  <2>14. FleetTypeOK' /\ FleetInv'
    BY <1>0, <2>1, <2>7, <2>10, <2>12, <2>13 DEF FleetTypeOK, FleetInv
  <2> QED BY <2>4, <2>14 DEF RuntimeInv, RuntimeTypeOK
<1>4. CASE Record(o)
  <2> DEFINE next == [Resting EXCEPT !.at = "told", !.order = work[o].order, !.disturbed = work[o].disturbed, !.code = 0]
  <2>1. work[o].at = "restart" /\ work[o].order.op = "adapt" /\ work[o].left = << >> /\ work' = [work EXCEPT ![o] = next]
        /\ stamp' = work[o].current /\ spared' = spared \cup (Providers \ Range(work[o].order.projects))
        /\ UNCHANGED <<version, daemon, starting, source, target, settled>>
    BY <1>4 DEF Record, Does, Exits, Proceeds, outside, bundle
  <2>2. WorkFits(next)
    BY <1>0, ExitFits
  <2>3. next.at = "told" /\ next.current = None /\ next.order = work[o].order
    BY DEF Resting
  <2> HIDE DEF next
  <2>4. WorkTypeOK' /\ work'[o] = next /\ \A x \in Operators \ {o} : work'[x] = work[x]
    BY <1>0, <2>1, <2>2, FitsOn
  <2>5. BundleTypeOK' /\ BundleInv' /\ WorkTypeOK'
    BY <2>1, <2>2, <2>3, BundleStays
  <2>6. Range(work[o].left) = {}
    BY <2>1 DEF Range
  <2>7. work[o].current \in Nat
    BY <1>0, <2>1 DEF WorkFits, Works, ProviderVersions
  <2>8. (stamp # None => AllNewer(stamp, Providers \ spared))'
    <3>1. AllNewer(work[o].current, Providers \ spared')
      BY <1>0, <2>1, <2>6 DEF WorkIsBacked, AllNewer
    <3> QED BY <2>1, <3>1 DEF AllNewer, NoOlder
  <2>9. ASSUME NEW x \in Operators PROVE WorkIsBacked(work[x])'
    <3>1. CASE x = o
      BY <2>3, <2>4, <3>1 DEF WorkIsBacked
    <3>2. CASE x # o
      BY <1>0, <2>1, <2>4, <3>2 DEF FleetInv, WorkIsBacked, AllNewer, NoOlder
    <3> QED BY <3>1, <3>2
  <2>10. FleetTypeOK' /\ FleetInv'
    BY <1>0, <2>1, <2>7, <2>8, <2>9 DEF FleetTypeOK, FleetInv, ProviderVersions
  <2> QED BY <2>5, <2>10 DEF RuntimeInv, RuntimeTypeOK
<1> QED BY <1>1, <1>2, <1>3, <1>4

\* What a sync has done at a target is kept by whoever adds to it, and takes nothing of the source away.
LEMMA KnowsOn ==
    ASSUME NEW t \in Targets, NEW s \in Stages, Fit, Knows(t, s), source' = source,
           DOMAIN target'[t] \subseteq DOMAIN target[t] \cup DOMAIN source \cup {Pointer},
           \A f \in DOMAIN target[t] \cap (DOMAIN source \cup {Pointer}) : f \in DOMAIN target'[t],
           \A f \in DOMAIN target[t] \cap DOMAIN source : target[t][f] = source[f] => target'[t][f] = source[f]
    PROVE  Knows(t, s)'
  BY DEF Knows, Copied, Fit, targetOnlyFiles, ignoredTargetOnlyFile

\* A command goes on at a target, and so do those that it disturbs: what is left to show
\* for the invariant is about that target.
LEMMA TargetStep ==
    ASSUME RuntimeInv, NEW o \in Operators, NEW t \in Targets, NEW s \in Stages, work[o].at = "sync",
           NEW these \in SUBSET Operators, o \notin these,
           NEW them, them = Disturbed(these), work' = [them EXCEPT ![o].sync[t] = s],
           UNCHANGED <<version, stamp, source, daemon, starting, spared>>,
           DOMAIN target' = Targets, DOMAIN target'[t] \subseteq Names, \A u \in Targets \ {t} : target'[u] = target[u],
           settled' \ {t} = settled \ {t},
           t \notin settled \/ \A x \in Operators : work[x].at = "checking" => x \in these,
           ~work[o].disturbed /\ Fit /\ Knows(t, work[o].sync[t]) => Knows(t, s)',
           \A x \in Operators \ (these \cup {o}), r \in Stages :
              work[x].at = "sync" /\ ~work[x].disturbed /\ Fit /\ r = work[x].sync[t] /\ Knows(t, r) => Knows(t, r)',
           t \in settled' => /\ workflowSkillStatus(source, target[t])'
                             /\ s.at \in {"status", "done", "failed"}
                             /\ \A x \in Operators \ {o} : work[x].at = "sync" => work[x].sync[t].at \in {"status", "done", "failed"}
    PROVE  RuntimeInv'
<1>0. RuntimeTypeOK /\ FleetInv /\ BundleInv /\ FleetTypeOK /\ BundleTypeOK /\ WorkTypeOK /\ WorkFits(work[o])
  BY DEF RuntimeInv, RuntimeTypeOK, WorkTypeOK
<1>1. /\ them = [x \in Operators |-> them[x]]
      /\ \A x \in Operators :
                /\ WorkFits(them[x])
                /\ them[x].at = work[x].at /\ them[x].order = work[x].order /\ them[x].current = work[x].current
                /\ them[x].left = work[x].left /\ them[x].sync = work[x].sync /\ them[x].code = work[x].code
                /\ them[x].disturbed <=> work[x].disturbed \/ (x \in these /\ work[x].at # "rest")
                /\ x \notin these => them[x] = work[x]
  BY <1>0, DisturbedFits
<1>2. PICK next : /\ next = [work[o] EXCEPT !.sync[t] = s]
                  /\ WorkFits(next) /\ next.at = "sync" /\ next.order = work[o].order /\ next.current = work[o].current
                  /\ next.left = work[o].left /\ next.disturbed = work[o].disturbed
                  /\ next.sync[t] = s /\ \A u \in Targets \ {t} : next.sync[u] = work[o].sync[u]
  <2> DEFINE next == [work[o] EXCEPT !.sync[t] = s]
  <2>1. /\ WorkFits(next) /\ next.at = "sync" /\ next.order = work[o].order /\ next.current = work[o].current
        /\ next.left = work[o].left /\ next.disturbed = work[o].disturbed
        /\ next.sync[t] = s /\ \A u \in Targets \ {t} : next.sync[u] = work[o].sync[u]
    BY <1>0, StageFits
  <2>2. next = [work[o] EXCEPT !.sync[t] = s]
    OBVIOUS
  <2> HIDE DEF next
  <2> QED BY <2>1, <2>2
<1>3. work' = [them EXCEPT ![o] = next]
  BY <1>1, <1>2
<1>4. work'[o] = next /\ (\A x \in Operators \ {o} : work'[x] = them[x]) /\ WorkTypeOK'
  BY <1>1, <1>2, <1>3 DEF WorkTypeOK
<1>5. FleetTypeOK' /\ FleetInv'
  <2>1. \A x \in Operators :
             /\ work'[x].current \in {None, version, work[x].current}
             /\ work'[x].at = "restart" => /\ work[x].at = "restart" /\ work'[x].order = work[x].order
                                           /\ work'[x].left = work[x].left /\ work'[x].current = work[x].current
    BY <1>1, <1>2, <1>4
  <2> QED BY <1>0, <2>1, FleetStays
<1>6. BundleTypeOK'
  BY <1>0 DEF BundleTypeOK
<1>7. \A u \in Targets \ {t}, r \in Stages : Knows(u, r)' <=> Knows(u, r)
  BY DEF Knows, Copied
<1>8. Fit' <=> Fit
  BY DEF Fit
<1>9. \A x \in Operators : work[x].at = "sync" => work[x].sync \in [Targets -> Stages]
  BY <1>0 DEF WorkTypeOK, WorkFits
<1>10. SyncerKnows(next)'
  <2>1. ASSUME ~work[o].disturbed, Fit, NEW u \in Targets PROVE Knows(u, next.sync[u])'
    <3>1. \A v \in Targets : Knows(v, work[o].sync[v])
      BY <1>0, <2>1 DEF BundleInv, SyncerKnows
    <3>2. CASE u = t
      BY <1>2, <2>1, <3>1, <3>2
    <3>3. CASE u # t
      BY <1>2, <1>7, <1>9, <3>1, <3>3
    <3> QED BY <3>2, <3>3
  <2> QED BY <1>2, <1>8, <2>1 DEF SyncerKnows
<1>11. ASSUME NEW x \in Operators \ {o} PROVE SyncerKnows(work[x])'
  <2>1. ASSUME work[x].at = "sync", ~work[x].disturbed, x \notin these, Fit, NEW u \in Targets
        PROVE  \A r \in Stages : r = work[x].sync[u] => Knows(u, r)'
    <3>1. \A v \in Targets : Knows(v, work[x].sync[v])
      BY <1>0, <2>1 DEF BundleInv, SyncerKnows
    <3>2. CASE u = t
      BY <2>1, <3>1, <3>2
    <3>3. CASE u # t
      BY <1>7, <3>1, <3>3
    <3> QED BY <3>2, <3>3
  <2>2. ASSUME work'[x].at = "sync", ~work'[x].disturbed, Fit', NEW u \in Targets PROVE Knows(u, work[x].sync[u])'
    <3>1. work[x].at = "sync" /\ ~work[x].disturbed /\ x \notin these /\ Fit /\ work'[x].sync = work[x].sync
      BY <1>1, <1>4, <1>8, <2>2
    <3>2. PICK r \in Stages : r = work[x].sync[u]
      BY <1>9, <3>1
    <3>3. Knows(u, r)' /\ r = work'[x].sync[u]
      BY <2>1, <3>1, <3>2
    <3> QED BY <3>3 DEF Knows
  <2> QED BY <2>2 DEF SyncerKnows
<1>12. ASSUME NEW x \in Operators PROVE CheckKnows(work[x])'
  <2>1. CASE x = o
    BY <1>2, <1>4, <2>1 DEF CheckKnows
  <2>2. CASE x # o
    <3>1. /\ work'[x].at = work[x].at /\ work'[x].order = work[x].order /\ work'[x].code = work[x].code
          /\ work'[x].disturbed <=> work[x].disturbed \/ (x \in these /\ work[x].at # "rest")
      BY <1>1, <1>4, <2>2
    <3>2. work[x].at = "checking" => work[x].disturbed \/ x \in these
      BY <1>0 DEF BundleInv, CheckKnows
    <3> QED BY <1>0, <3>1, <3>2 DEF BundleInv, CheckKnows
  <2> QED BY <2>1, <2>2
<1>13. SettledIsAlone'
  <2> SUFFICES ASSUME NEW u \in settled'
               PROVE  /\ workflowSkillStatus(source, target[u])'
                      /\ \A x \in Operators : work'[x].at = "sync" => work'[x].sync[u].at \in {"status", "done", "failed"}
    BY DEF SettledIsAlone
  <2>1. u \in Targets
    BY <1>6 DEF BundleTypeOK
  <2>2. CASE u = t
    BY <1>1, <1>2, <1>4, <2>2
  <2>3. CASE u # t
    <3>1. u \in settled /\ target'[u] = target[u]
      BY <2>1, <2>3
    <3> QED BY <1>0, <1>1, <1>2, <1>4, <2>1, <2>3, <3>1 DEF BundleInv, SettledIsAlone
  <2> QED BY <2>2, <2>3
<1>14. \A x \in Operators : SyncerKnows(work[x])'
  BY <1>4, <1>10, <1>11 DEF SyncerKnows
<1> QED BY <1>4, <1>5, <1>6, <1>12, <1>13, <1>14 DEF RuntimeInv, RuntimeTypeOK, BundleInv

\* One stage of a sync at one target.
LEMMA SyncStep ==
    ASSUME RuntimeInv, NEW o \in Operators, NEW t \in Targets,
           \/ BeginSync(o, t) \/ Copy(o, t) \/ Point(o, t) \/ RemoveWrappers(o, t)
           \/ ListSource(o, t) \/ ListTarget(o, t) \/ RemoveExtras(o, t)
    PROVE  RuntimeInv'
<1>0. RuntimeTypeOK /\ FleetInv /\ BundleInv /\ FleetTypeOK /\ BundleTypeOK /\ WorkTypeOK /\ WorkFits(work[o])
  BY DEF RuntimeInv, RuntimeTypeOK, WorkTypeOK
<1>1. /\ work[o].at = "sync" /\ work[o].sync \in [Targets -> Stages] /\ work[o].sync[t] \in Stages
      /\ work[o].sync[t].at \notin {"done", "failed"}
      /\ UNCHANGED <<version, stamp, source, daemon, starting, spared>>
  <2>1. work[o].at = "sync" /\ work[o].sync[t].at \notin {"done", "failed"}
    BY DEF BeginSync, Copy, Point, RemoveWrappers, ListSource, ListTarget, RemoveExtras, InStep, Does
  <2>2. UNCHANGED <<version, stamp, source, daemon, starting, spared>>
    BY DEF BeginSync, Copy, Point, RemoveWrappers, ListSource, ListTarget, RemoveExtras, outside, bundle, fleet
  <2> QED BY <1>0, <2>1, <2>2 DEF WorkFits
<1>2. DOMAIN source \subseteq Names /\ Pointer \in Names /\ DOMAIN target[t] \subseteq Names /\ DOMAIN target = Targets
      /\ \A u \in Targets : DOMAIN target[u] \subseteq Names
  BY <1>0, NamesOfFiles DEF BundleTypeOK
<1>3. t \notin settled \/ work[o].sync[t].at = "status"
  BY <1>0, <1>1 DEF BundleInv, SettledIsAlone
<1>4. work = Disturbed({})
  BY <1>0 DEF Disturbed, WorkTypeOK
<1>5. ASSUME NEW s \in Stages, Step(o, t, s.at, s.left), settled' = settled, t \notin settled,
             DOMAIN target' = Targets, DOMAIN target'[t] \subseteq Names, \A u \in Targets \ {t} : target'[u] = target[u],
             DOMAIN target'[t] \subseteq DOMAIN target[t] \cup DOMAIN source \cup {Pointer},
             Fit => /\ \A f \in DOMAIN target[t] \cap (DOMAIN source \cup {Pointer}) : f \in DOMAIN target'[t]
                    /\ \A f \in DOMAIN target[t] \cap DOMAIN source : target[t][f] = source[f] => target'[t][f] = source[f],
             ~work[o].disturbed /\ Fit /\ Knows(t, work[o].sync[t]) => Knows(t, s)'
      PROVE  RuntimeInv'
  <2>1. work' = [work EXCEPT ![o].sync[t] = s]
    <3>1. s = Stage(s.at, s.left)
      BY DEF Stage, Stages
    <3>2. work' = [work EXCEPT ![o] = [work[o] EXCEPT !.sync[t] = s]]
      BY <1>5, <3>1 DEF Step, Proceeds
    <3> QED BY <3>2
  <2>2. \A x \in Operators \ ({} \cup {o}), r \in Stages :
           work[x].at = "sync" /\ ~work[x].disturbed /\ Fit /\ r = work[x].sync[t] /\ Knows(t, r) => Knows(t, r)'
    BY <1>1, <1>5, KnowsOn
  <2>3. {} \in SUBSET Operators /\ o \notin {}
    OBVIOUS
  <2> QED BY <1>1, <1>4, <1>5, <2>1, <2>2, <2>3, TargetStep
<1>6. CASE BeginSync(o, t)
  <2>1. CASE Skill \notin DOMAIN source
    <3>1. PICK s \in Stages : s = Stage("done", {})
      BY DEF Stage, Stages, StageNames
    <3>2. Step(o, t, s.at, s.left) /\ UNCHANGED <<target, settled>> /\ s.at = "done"
      BY <1>6, <2>1, <3>1 DEF BeginSync, Stage
    <3>3. t \notin settled
      BY <1>0, <2>1 DEF BundleInv, SettledIsAlone, workflowSkillStatus
    <3>4. Knows(t, s)'
      BY <3>2 DEF Knows
    <3> QED BY <1>2, <1>5, <3>2, <3>3, <3>4
  <2>2. CASE Skill \in DOMAIN source
    <3> DEFINE these == {x \in Operators : work[x].at = "checking"}
    <3>1. PICK s \in Stages : s = Stage("copy", DOMAIN source)
      BY <1>2 DEF Stage, Stages, StageNames
    <3>2. s.at = "copy" /\ s.left = DOMAIN source
      BY <3>1 DEF Stage
    <3>3. work' = [Disturbed(these) EXCEPT ![o].sync[t] = s] /\ target' = target /\ settled' = settled \ {t}
      BY <1>6, <2>2, <3>1 DEF BeginSync
    <3>4. these \in SUBSET Operators /\ o \notin these /\ \A x \in Operators : work[x].at = "checking" => x \in these
      BY <1>1
    <3> HIDE DEF these
    <3>5. Knows(t, s)' /\ \A r \in Stages : Knows(t, r) => Knows(t, r)'
      BY <1>1, <3>2, <3>3 DEF Knows, Copied
    <3>6. settled' \ {t} = settled \ {t} /\ t \notin settled'
      BY <3>3
    <3> QED BY <1>1, <1>2, <3>3, <3>4, <3>5, <3>6, TargetStep
  <2> QED BY <2>1, <2>2
<1>7. CASE Copy(o, t)
  <2>1. PICK f \in work[o].sync[t].left :
         IF f \in DOMAIN source
         THEN /\ target' = [target EXCEPT ![t] = With(target[t], f, source[f])]
              /\ Step(o, t, "copy", work[o].sync[t].left \ {f})
              /\ UNCHANGED settled
         ELSE Step(o, t, "failed", {}) /\ UNCHANGED <<target, settled>>
    BY <1>7 DEF Copy
  <2>2. t \notin settled /\ work[o].sync[t].at = "copy"
    BY <1>3, <1>7 DEF Copy, InStep
  <2>3. CASE f \notin DOMAIN source
    <3>1. PICK s \in Stages : s = Stage("failed", {})
      BY DEF Stage, Stages, StageNames
    <3>2. Step(o, t, s.at, s.left) /\ UNCHANGED <<target, settled>> /\ s.at = "failed"
      BY <2>1, <2>3, <3>1 DEF Stage
    <3>3. Knows(t, s)'
      BY <3>2 DEF Knows
    <3> QED BY <1>2, <1>5, <2>2, <3>2, <3>3
  <2>4. CASE f \in DOMAIN source
    <3>1. PICK s \in Stages : s = Stage("copy", work[o].sync[t].left \ {f})
      BY <1>1 DEF Stage, Stages, StageNames
    <3>2. Step(o, t, s.at, s.left) /\ settled' = settled /\ s.at = "copy" /\ s.left = work[o].sync[t].left \ {f}
      BY <2>1, <2>4, <3>1 DEF Stage
    <3>3. target' = [target EXCEPT ![t] = With(target[t], f, source[f])]
      BY <2>1, <2>4
    <3>4. /\ DOMAIN target' = Targets /\ (\A u \in Targets \ {t} : target'[u] = target[u])
          /\ DOMAIN target'[t] = DOMAIN target[t] \cup {f} /\ target'[t][f] = source[f]
          /\ \A g \in DOMAIN target[t] \ {f} : target'[t][g] = target[t][g]
      BY <1>2, <3>3 DEF With
    <3>5. ~work[o].disturbed /\ Fit /\ Knows(t, work[o].sync[t]) => Knows(t, s)'
      BY <1>1, <2>2, <3>2, <3>4 DEF Knows, Copied
    <3>6. \A g \in DOMAIN target[t] \cap DOMAIN source : target[t][g] = source[g] => target'[t][g] = source[g]
      BY <3>4
    <3> QED BY <1>2, <1>5, <2>2, <2>4, <3>2, <3>4, <3>5, <3>6
  <2> QED BY <2>3, <2>4
<1>8. CASE Point(o, t)
  <2>1. /\ target' = [target EXCEPT ![t] = With(target[t], Pointer, "root")] /\ settled' = settled
        /\ t \notin settled /\ work[o].sync[t].at = "copy" /\ work[o].sync[t].left = {} /\ Step(o, t, "wrappers", {})
    BY <1>3, <1>8 DEF Point, InStep
  <2>2. PICK s \in Stages : s = Stage("wrappers", {})
    BY DEF Stage, Stages, StageNames
  <2>3. Step(o, t, s.at, s.left) /\ s.at = "wrappers"
    BY <2>1, <2>2 DEF Stage
  <2>4. /\ DOMAIN target' = Targets /\ (\A u \in Targets \ {t} : target'[u] = target[u])
        /\ DOMAIN target'[t] = DOMAIN target[t] \cup {Pointer}
        /\ \A g \in DOMAIN target[t] \ {Pointer} : target'[t][g] = target[t][g]
    BY <1>2, <2>1 DEF With
  <2>5. ASSUME Fit
        PROVE  /\ Knows(t, work[o].sync[t]) => Knows(t, s)'
               /\ \A g \in DOMAIN target[t] \cap DOMAIN source : target[t][g] = source[g] => target'[t][g] = source[g]
    BY <1>1, <2>1, <2>3, <2>4, <2>5 DEF Knows, Copied, Fit
  <2> QED BY <1>2, <1>5, <2>1, <2>3, <2>4, <2>5
<1>9. CASE RemoveWrappers(o, t)
  <2>1. /\ target' = [target EXCEPT ![t] = Without(target[t], Legacy)] /\ settled' = settled
        /\ t \notin settled /\ work[o].sync[t].at = "wrappers" /\ Step(o, t, "compare", {})
    BY <1>3, <1>9 DEF RemoveWrappers, InStep
  <2>2. PICK s \in Stages : s = Stage("compare", {})
    BY DEF Stage, Stages, StageNames
  <2>3. Step(o, t, s.at, s.left) /\ s.at = "compare"
    BY <2>1, <2>2 DEF Stage
  <2>4. /\ DOMAIN target' = Targets /\ (\A u \in Targets \ {t} : target'[u] = target[u])
        /\ DOMAIN target'[t] = DOMAIN target[t] \ Legacy
        /\ \A g \in DOMAIN target[t] \ Legacy : target'[t][g] = target[t][g]
    BY <1>2, <2>1 DEF Without
  <2>5. Pointer \notin Legacy
    BY DEF Pointer, Legacy
  <2>6. ASSUME Fit
        PROVE  /\ Knows(t, work[o].sync[t]) => Knows(t, s)'
               /\ \A g \in DOMAIN target[t] \cap (DOMAIN source \cup {Pointer}) : g \in DOMAIN target'[t]
               /\ \A g \in DOMAIN target[t] \cap DOMAIN source : target[t][g] = source[g] => target'[t][g] = source[g]
    BY <1>1, <2>1, <2>3, <2>4, <2>5, <2>6 DEF Knows, Copied, Fit
  <2> QED BY <1>2, <1>5, <2>1, <2>3, <2>4, <2>6
<1>10. CASE ListSource(o, t)
  <2>1. /\ UNCHANGED <<target, settled>>
        /\ t \notin settled /\ work[o].sync[t].at = "compare" /\ Step(o, t, "listed", DOMAIN source)
    BY <1>3, <1>10 DEF ListSource, InStep, bundle
  <2>2. PICK s \in Stages : s = Stage("listed", DOMAIN source)
    BY <1>2 DEF Stage, Stages, StageNames
  <2>3. Step(o, t, s.at, s.left) /\ s.at = "listed" /\ s.left = DOMAIN source
    BY <2>1, <2>2 DEF Stage
  <2>4. Knows(t, work[o].sync[t]) => Knows(t, s)'
    BY <1>1, <2>1, <2>3 DEF Knows, Copied
  <2> QED BY <1>2, <1>5, <2>1, <2>3, <2>4
<1>11. CASE ListTarget(o, t)
  <2>1. /\ UNCHANGED <<target, settled>>
        /\ t \notin settled /\ work[o].sync[t].at = "listed"
        /\ Step(o, t, "remove", targetOnlyFiles(work[o].sync[t].left, DOMAIN target[t]))
    BY <1>3, <1>11 DEF ListTarget, InStep, bundle
  <2>2. PICK s \in Stages : s = Stage("remove", targetOnlyFiles(work[o].sync[t].left, DOMAIN target[t]))
    BY <1>2 DEF Stage, Stages, StageNames, targetOnlyFiles
  <2>3. Step(o, t, s.at, s.left) /\ s.at = "remove" /\ s.left = targetOnlyFiles(work[o].sync[t].left, DOMAIN target[t])
    BY <2>1, <2>2 DEF Stage
  <2>4. Knows(t, work[o].sync[t]) => Knows(t, s)'
    BY <1>1, <2>1, <2>3 DEF Knows, Copied, targetOnlyFiles, ignoredTargetOnlyFile
  <2> QED BY <1>2, <1>5, <2>1, <2>3, <2>4
<1>12. CASE RemoveExtras(o, t)
  <2>1. PICK others : others = {x \in Operators \ {o} : AtTarget(x, t)}
    OBVIOUS
  <2>2. /\ work[o].sync[t].at = "remove" /\ t \notin settled
        /\ target' = [target EXCEPT ![t] = Without(target[t], work[o].sync[t].left)]
        /\ settled' = IF ~work[o].disturbed /\ others = {} /\ Fit THEN settled \cup {t} ELSE settled
        /\ work' = [IF work[o].disturbed THEN Disturbed(others) ELSE work EXCEPT ![o].sync[t] = Stage("done", {})]
    BY <1>3, <1>12, <2>1 DEF RemoveExtras, InStep
  <2>3. PICK s \in Stages : s = Stage("done", {})
    BY DEF Stage, Stages, StageNames
  <2>4. s.at = "done" /\ Knows(t, s)'
    BY <2>3 DEF Stage, Knows
  <2>5. PICK these \in SUBSET Operators :
          /\ these = IF work[o].disturbed THEN others ELSE {}
          /\ work' = [Disturbed(these) EXCEPT ![o].sync[t] = s]
    BY <1>4, <2>1, <2>2, <2>3
  <2>6. o \notin these
    BY <2>1, <2>5
  <2>7. /\ DOMAIN target' = Targets /\ (\A u \in Targets \ {t} : target'[u] = target[u])
        /\ DOMAIN target'[t] = DOMAIN target[t] \ work[o].sync[t].left
        /\ \A g \in DOMAIN target[t] \ work[o].sync[t].left : target'[t][g] = target[t][g]
    BY <1>2, <2>2 DEF Without
  <2>8. ~work[o].disturbed /\ Fit => Knows(t, work[o].sync[t])
    BY <1>0, <1>1 DEF BundleInv, SyncerKnows
  <2>9. settled' \ {t} = settled \ {t}
    BY <2>2
  <2>10. ASSUME NEW x \in Operators \ (these \cup {o}), NEW r \in Stages,
                work[x].at = "sync", ~work[x].disturbed, Fit, r = work[x].sync[t], Knows(t, r)
         PROVE  Knows(t, r)'
    <3>1. CASE work[o].disturbed
      <4>1. r.at \in {"done", "failed"}
        BY <2>1, <2>5, <2>10, <3>1 DEF AtTarget, Syncing
      <4> QED BY <4>1 DEF Knows
    <3>2. CASE ~work[o].disturbed
      <4>1. work[o].sync[t].left \cap (DOMAIN source \cup {Pointer}) = {}
        BY <2>2, <2>8, <2>10, <3>2 DEF Knows
      <4> QED BY <1>1, <2>7, <2>10, <4>1, KnowsOn
    <3> QED BY <3>1, <3>2
  <2>11. ASSUME t \in settled'
         PROVE  /\ workflowSkillStatus(source, target[t])'
                /\ \A x \in Operators \ {o} : work[x].at = "sync" => work[x].sync[t].at \in {"status", "done", "failed"}
    <3>1. ~work[o].disturbed /\ others = {} /\ Fit
      BY <2>2, <2>11
    <3>2. /\ Copied(t, DOMAIN source) /\ Pointer \in DOMAIN target[t] /\ Legacy \cap DOMAIN target[t] = {}
          /\ targetOnlyFiles(DOMAIN source, DOMAIN target[t]) \subseteq work[o].sync[t].left
          /\ work[o].sync[t].left \cap (DOMAIN source \cup {Pointer}) = {}
      BY <2>2, <2>8, <3>1 DEF Knows
    <3>3. DOMAIN source \subseteq DOMAIN target'[t] /\ \A g \in DOMAIN source : target'[t][g] = source[g]
      BY <2>7, <3>2 DEF Copied
    <3>4. DOMAIN target'[t] \subseteq DOMAIN source \cup {Pointer}
      BY <2>7, <3>2 DEF targetOnlyFiles, ignoredTargetOnlyFile
    <3>5. Pointer \in DOMAIN target'[t] /\ Legacy \cap DOMAIN target'[t] = {}
      BY <2>7, <3>2
    <3>6. Skill \in DOMAIN source /\ Driver \in DOMAIN source
      BY <3>1 DEF Fit
    <3>7. compareBundleFiles(source, target'[t])
      BY <3>3, <3>4, <3>6 DEF compareBundleFiles, mismatchedFiles, targetOnlyFiles, ignoredTargetOnlyFile
    <3>8. workflowSkillStatus(source, target[t])'
      BY <1>1, <3>3, <3>5, <3>6, <3>7 DEF workflowSkillStatus, compareBundleFiles, mismatchedFiles, targetOnlyFiles, ignoredTargetOnlyFile
    <3>9. \A x \in Operators \ {o} : work[x].at = "sync" => work[x].sync[t].at \in {"done", "failed"}
      BY <2>1, <3>1 DEF AtTarget, Syncing
    <3> QED BY <3>8, <3>9
  <2>12. DOMAIN target'[t] \subseteq Names
    BY <1>2, <2>7
  <2> QED BY <1>1, <2>2, <2>4, <2>5, <2>6, <2>7, <2>9, <2>10, <2>11, <2>12, TargetStep
<1> QED BY <1>6, <1>7, <1>8, <1>9, <1>10, <1>11, <1>12

\* A command that does nothing fits.
LEMMA RestingFits == WorkFits(Resting) /\ Resting.at = "rest" /\ Resting.current = None
<1>1. << >> \in Seq(Projects) /\ None \in ProviderVersions
  BY DEF ProviderVersions
<1>2. Resting \in Works /\ Resting.at = "rest" /\ Resting.current = None
  BY <1>1 DEF Resting, Works
<1> QED BY <1>2 DEF WorkFits

\* A command dies in the middle of what it does.
LEMMA DeathStep ==
    ASSUME RuntimeInv, NEW o \in Operators, Dies(o)
    PROVE  RuntimeInv'
<1>0. RuntimeTypeOK /\ FleetInv /\ BundleInv /\ FleetTypeOK /\ BundleTypeOK /\ WorkTypeOK /\ WorkFits(work[o])
  BY DEF RuntimeInv, RuntimeTypeOK, WorkTypeOK
<1>1. PICK at \in SUBSET Targets : at = {t \in Targets : AtTarget(o, t)}
  OBVIOUS
<1>2. PICK these \in SUBSET Operators : these = {x \in Operators : \E t \in at : AtTarget(x, t)}
  OBVIOUS
<1>3. /\ work' = [Disturbed(these) EXCEPT ![o] = Resting]
      /\ UNCHANGED <<version, stamp, source, settled, daemon, starting, spared>>
  BY <1>1, <1>2 DEF Dies, outside, fleet
<1>4. \/ UNCHANGED target
      \/ \E t \in at, f \in DOMAIN source :
            work[o].sync[t].at = "copy" /\ target' = [target EXCEPT ![t] = With(target[t], f, Torn)]
  <2>1. PICK torn : /\ torn = {x \in at \X DOMAIN source : work[o].sync[x[1]].at = "copy" /\ x[2] \in work[o].sync[x[1]].left}
                    /\ \/ UNCHANGED target
                       \/ \E x \in torn : target' = [target EXCEPT ![x[1]] = With(target[x[1]], x[2], Torn)]
    BY <1>1 DEF Dies
  <2> QED BY <2>1
<1>5. PICK them : them = Disturbed(these)
  OBVIOUS
<1>6. /\ them = [x \in Operators |-> them[x]]
      /\ \A x \in Operators :
                /\ WorkFits(them[x])
                /\ them[x].at = work[x].at /\ them[x].order = work[x].order /\ them[x].current = work[x].current
                /\ them[x].left = work[x].left /\ them[x].sync = work[x].sync /\ them[x].code = work[x].code
                /\ them[x].disturbed <=> work[x].disturbed \/ (x \in these /\ work[x].at # "rest")
                /\ x \notin these => them[x] = work[x]
  BY <1>0, <1>5, DisturbedFits
<1>7. work'[o] = Resting /\ (\A x \in Operators \ {o} : work'[x] = them[x]) /\ WorkTypeOK'
  BY <1>3, <1>5, <1>6, RestingFits DEF WorkTypeOK
<1>8. FleetTypeOK' /\ FleetInv'
  <2>1. \A x \in Operators :
             /\ work'[x].current \in {None, version, work[x].current}
             /\ work'[x].at = "restart" => /\ work[x].at = "restart" /\ work'[x].order = work[x].order
                                           /\ work'[x].left = work[x].left /\ work'[x].current = work[x].current
    BY <1>6, <1>7, RestingFits
  <2> QED BY <1>0, <1>3, <2>1, FleetStays
<1>9. DOMAIN target = Targets /\ DOMAIN source \subseteq Names /\ \A u \in Targets : DOMAIN target[u] \subseteq Names
  BY <1>0, NamesOfFiles DEF BundleTypeOK
<1>10. /\ DOMAIN target' = Targets /\ \A u \in Targets : DOMAIN target'[u] \subseteq Names
       /\ \A u \in Targets : target'[u] # target[u] => AtTarget(o, u) /\ work[o].sync[u].at = "copy"
  <2>1. CASE UNCHANGED target
    BY <1>9, <2>1
  <2>2. CASE \E t \in at, f \in DOMAIN source :
            work[o].sync[t].at = "copy" /\ target' = [target EXCEPT ![t] = With(target[t], f, Torn)]
    <3>1. PICK t \in at, f \in DOMAIN source :
            work[o].sync[t].at = "copy" /\ target' = [target EXCEPT ![t] = With(target[t], f, Torn)]
      BY <2>2
    <3>2. t \in Targets /\ AtTarget(o, t) /\ f \in Names
      BY <1>1, <1>9
    <3>3. DOMAIN With(target[t], f, Torn) = DOMAIN target[t] \cup {f}
      BY DEF With
    <3> QED BY <1>9, <3>1, <3>2, <3>3
  <2> QED BY <1>4, <2>1, <2>2
<1>11. BundleTypeOK'
  BY <1>0, <1>3, <1>10 DEF BundleTypeOK
<1>12. \A u \in settled : target'[u] = target[u]
  BY <1>0, <1>10 DEF BundleInv, SettledIsAlone, BundleTypeOK, AtTarget, Syncing
<1>13. SettledIsAlone'
  <2> SUFFICES ASSUME NEW u \in settled
               PROVE  /\ workflowSkillStatus(source, target[u])'
                      /\ \A x \in Operators : work'[x].at = "sync" => work'[x].sync[u].at \in {"status", "done", "failed"}
    BY <1>3 DEF SettledIsAlone
  <2>1. workflowSkillStatus(source, target[u])'
    BY <1>0, <1>3, <1>12 DEF BundleInv, SettledIsAlone
  <2> QED BY <1>0, <1>6, <1>7, <2>1, RestingFits DEF BundleInv, SettledIsAlone
<1>14. ASSUME NEW x \in Operators PROVE SyncerKnows(work[x])' /\ CheckKnows(work[x])'
  <2>1. CASE x = o
    BY <1>7, <2>1, RestingFits DEF SyncerKnows, CheckKnows
  <2>2. CASE x # o
    <3>1. /\ work'[x].at = work[x].at /\ work'[x].order = work[x].order /\ work'[x].code = work[x].code
          /\ work'[x].sync = work[x].sync
          /\ work'[x].disturbed <=> work[x].disturbed \/ (x \in these /\ work[x].at # "rest")
      BY <1>6, <1>7, <2>2
    <3>2. CheckKnows(work[x])'
      BY <1>0, <1>3, <3>1 DEF BundleInv, CheckKnows
    <3>3. ASSUME work[x].at = "sync", ~work[x].disturbed, x \notin these, Fit, NEW u \in Targets, NEW r, r = work[x].sync[u]
          PROVE  Knows(u, r)'
      <4>1. Knows(u, r)
        BY <1>0, <3>3 DEF BundleInv, SyncerKnows
      <4>2. CASE target'[u] = target[u]
        BY <1>3, <4>1, <4>2 DEF Knows, Copied
      <4>3. CASE target'[u] # target[u]
        <5>1. u \in at
          BY <1>1, <1>10, <4>3
        <5>2. r.at \in {"done", "failed"}
          BY <1>2, <3>3, <5>1 DEF AtTarget, Syncing
        <5> QED BY <5>2 DEF Knows
      <4> QED BY <4>2, <4>3
    <3>4. ASSUME work'[x].at = "sync", ~work'[x].disturbed, Fit', NEW u \in Targets PROVE Knows(u, work[x].sync[u])'
      <4>1. work[x].at = "sync" /\ ~work[x].disturbed /\ x \notin these /\ Fit
        BY <1>3, <3>1, <3>4 DEF Fit
      <4>2. PICK r : r = work[x].sync[u]
        OBVIOUS
      <4>3. Knows(u, r)' /\ r = work'[x].sync[u]
        BY <3>1, <3>3, <4>1, <4>2
      <4> QED BY <4>3 DEF Knows
    <3> QED BY <3>2, <3>4 DEF SyncerKnows
  <2> QED BY <2>1, <2>2
<1> QED BY <1>7, <1>8, <1>11, <1>13, <1>14 DEF RuntimeInv, RuntimeTypeOK, BundleInv

\* At first no command does anything and nothing is settled.
LEMMA RuntimeInitially == RuntimeInit => RuntimeInv
<1> SUFFICES ASSUME RuntimeInit PROVE RuntimeInv
  OBVIOUS
<1>1. FleetTypeOK
  BY DEF RuntimeInit, FleetTypeOK, ProviderVersions
<1>2. BundleTypeOK
  BY NamesOfFiles DEF RuntimeInit, BundleTypeOK
<1>3. WorkTypeOK /\ \A o \in Operators : work[o] = Resting
  BY RestingFits DEF RuntimeInit, WorkTypeOK
<1>4. FleetInv
  <2>1. \A p \in Providers : daemon[p] = None /\ starting[p] = None
    BY DEF RuntimeInit
  <2>2. stamp # None => stamp = version
    BY DEF RuntimeInit
  <2> QED BY <1>1, <1>3, <2>1, <2>2, RestingFits DEF FleetInv, WorkIsBacked, AllNewer, NoOlder, FleetTypeOK
<1>5. BundleInv
  BY <1>3, RestingFits DEF RuntimeInit, BundleInv, SyncerKnows, CheckKnows, SettledIsAlone
<1> QED BY <1>1, <1>2, <1>3, <1>4, <1>5 DEF RuntimeInv, RuntimeTypeOK

\* Every step keeps the invariant.
LEMMA RuntimeStep == RuntimeInv /\ [RuntimeNext]_runtimeVars => RuntimeInv'
<1> SUFFICES ASSUME RuntimeInv, [RuntimeNext]_runtimeVars PROVE RuntimeInv'
  OBVIOUS
<1>1. CASE RuntimeNext
  <2>1. CASE EditSource \/ Upgrade \/ \E p \in Providers : Mount(p) \/ Stop(p)
    BY <2>1, WorldStep
  <2>2. ASSUME NEW o \in Operators, \E order \in Orders : GiveOrder(o, order) PROVE RuntimeInv'
    BY <2>2, WorldStep
  <2>3. ASSUME NEW o \in Operators, Up(o) \/ UpEnds(o) \/ Down(o) \/ DownEnds(o) \/ FleetStatus(o) \/ FleetStatusEnds(o)
        PROVE  RuntimeInv'
    BY <2>3, FleetStep
  <2>4. ASSUME NEW o \in Operators, CheckReads(o) \/ CheckEnds(o) \/ \E t \in Targets : CheckTarget(o, t) PROVE RuntimeInv'
    BY <2>4, CheckStep
  <2>5. ASSUME NEW o \in Operators, AdaptReads(o) \/ Synced(o) \/ Restart(o) \/ Record(o) PROVE RuntimeInv'
    BY <2>5, AdaptStep
  <2>6. ASSUME NEW o \in Operators, NEW t \in Targets,
               \/ BeginSync(o, t) \/ Copy(o, t) \/ Point(o, t) \/ RemoveWrappers(o, t)
               \/ ListSource(o, t) \/ ListTarget(o, t) \/ RemoveExtras(o, t)
        PROVE  RuntimeInv'
    BY <2>6, SyncStep
  <2>7. ASSUME NEW o \in Operators, Dies(o) PROVE RuntimeInv'
    BY <2>7, DeathStep
  <2> QED BY <1>1, <2>1, <2>2, <2>3, <2>4, <2>5, <2>6, <2>7 DEF RuntimeNext
<1>2. CASE UNCHANGED runtimeVars
  BY <1>2 DEF runtimeVars, RuntimeInv, RuntimeTypeOK, FleetTypeOK, BundleTypeOK, WorkTypeOK, FleetInv, WorkIsBacked, AllNewer,
              NoOlder, BundleInv, SyncerKnows, CheckKnows, SettledIsAlone, Knows, Copied, Fit
<1> QED BY <1>1, <1>2

\* The invariant holds of every behaviour.
LEMMA RuntimeInvHolds == RuntimeSpec => []RuntimeInv
  BY RuntimeInitially, RuntimeStep, PTL DEF RuntimeSpec

\* No daemon runs code that is older than the version that `runtime adapt` stamped, unless the
\* adapt could not stop it (runtime.ts adapt, runtime-sync.ts record): for any projects, any
\* orders, commands side by side, upgrades and deaths between any two steps.
THEOREM StampIsAlwaysBacked == RuntimeSpec => []StampIsBacked
<1>1. RuntimeInv => StampIsBacked
  BY DEF RuntimeInv, FleetInv, AllNewer, NoOlder, StampIsBacked
<1> QED BY <1>1, RuntimeInvHolds, PTL

\* A target that a sync left behind is what the source is, and a strict check that nobody
\* disturbed agrees (runtime.ts syncWorkflowBundle, workflowSkillStatus): for any bundles, any
\* leftovers, syncs side by side and deaths in the middle of a copy.
THEOREM SyncAlwaysSettles == RuntimeSpec => []SyncSettles
<1>1. RuntimeInv => SyncSettles
  BY DEF RuntimeInv, BundleInv, SettledIsAlone, CheckKnows, SyncSettles
<1> QED BY <1>1, RuntimeInvHolds, PTL

-----------------------------------------------------------------------------
(* The skills.                                                             *)

SkillSpec == SkillInit /\ [][SkillNext]_skillVars

Texted == [place : Places, words : {text.words : text \in SkillTexts}]
Readings ==
    [lookup : Lookups, pc : {"catalog", "scan", "reread", "answer", "read"}, refs : SUBSET Texted, todo : SUBSET Places,
     left : Seq(Range(SkillSources)), least : SUBSET Texted, most : SUBSET Texted]

SkillTypeOK ==
    /\ disk \in [Places -> SkillTexts \cup {None}]
    /\ DOMAIN reader = Readers /\ \A r \in Readers : reader[r] \in {NoLookup} \cup Readings

\* What a scan has found so far: no place twice, nothing that was not there, and whatever stood
\* all along at a place that it has passed.
ScanIsHonest(c) ==
    /\ OnDisk \subseteq c.most /\ c.least \subseteq OnDisk
    /\ c.refs \subseteq c.most /\ IsFiniteSet(c.refs)
    /\ \A x, y \in c.refs : x.place = y.place => x = y
    /\ \A x \in c.refs : x.place \notin c.todo /\ x.place.source \notin Range(c.left)
    /\ \A p \in c.todo : p.source \notin Range(c.left)
    /\ \A x \in c.least : x \in c.refs \/ x.place \in c.todo \/ x.place.source \in Range(c.left)
    /\ \A i, j \in DOMAIN c.left : c.left[i] = c.left[j] => i = j

CatalogIsHonest == catalog \subseteq Texted /\ IsOfScan(catalog, bounds.least, bounds.most)
                   /\ bounds \in [least : SUBSET Texted, most : SUBSET Texted]

ReaderIsHonest(c) ==
    /\ c.pc = "catalog" => c.refs = {} /\ c.todo = {}
    /\ c.pc = "scan" => ScanIsHonest(c)
    /\ c.pc = "reread" => CatalogIsHonest
    /\ c.pc = "answer" => IsOfScan(c.refs, c.least, c.most)
    /\ c.pc = "read" => c.lookup.op # "list"

SkillInv ==
    /\ SkillTypeOK
    /\ catalog # None => CatalogIsHonest
    /\ \A r \in Readers : reader[r] # NoLookup => ReaderIsHonest(reader[r])
    /\ told # None /\ told.lookup.op = "list" =>
         /\ told.refs \subseteq told.most
         /\ told.lookup.type = "all" /\ told.lookup.source = "all" => IsOfScan(told.refs, told.least, told.most)

\* The place among some that comes first.
LEMMA FirstPlace ==
    ASSUME NEW S \in SUBSET Places, S # {}
    PROVE  \E p \in S : \A q \in S : p.at <= q.at
<1> DEFINE ats == {p.at : p \in S}
<1>1. ats \in SUBSET Nat /\ ats # {}
  BY PlacesAssumption
<1> HIDE DEF ats
<1>2. PICK x \in ats : \A y \in ats : x <= y
  BY <1>1, LeastNumber
<1>3. PICK p \in S : x = p.at
  BY DEF ats
<1>4. \A q \in S : q.at \in ats
  BY DEF ats
<1> QED BY <1>2, <1>3, <1>4

\* The catalog that a whole scan makes.
LEMMA CatalogOfScan ==
    ASSUME NEW c \in Readings, ScanIsHonest(c), c.todo = {}, c.left = << >>
    PROVE  IsOfScan(byId(c.refs), c.least, c.most) /\ byId(c.refs) \subseteq Texted
<1>1. c.refs \subseteq Texted /\ \A x \in Texted : x.place \in Places
  BY DEF Readings, Texted
<1>2. byId(c.refs) \subseteq c.refs
  BY DEF byId
<1>3. c.least \subseteq c.refs
  BY DEF ScanIsHonest, Range
<1>4. ASSUME NEW x \in c.refs PROVE \E y \in byId(c.refs) : y.place.id = x.place.id
  <2> DEFINE S == {y.place : y \in {z \in c.refs : z.place.id = x.place.id}}
  <2>1. S \in SUBSET Places /\ S # {}
    BY <1>1, <1>4
  <2>2. PICK p \in S : \A q \in S : p.at <= q.at
    BY <2>1, FirstPlace
  <2>3. PICK y \in c.refs : y.place = p /\ y.place.id = x.place.id
    OBVIOUS
  <2>4. \A z \in c.refs : z.place.id = y.place.id => z.place \in S
    BY <2>3
  <2>5. y \in byId(c.refs)
    BY <2>2, <2>3, <2>4 DEF byId
  <2> QED BY <2>3, <2>5
<1>5. \A x, y \in byId(c.refs) : x.place.id = y.place.id => x = y
  <2> SUFFICES ASSUME NEW x \in byId(c.refs), NEW y \in byId(c.refs), x.place.id = y.place.id PROVE x = y
    OBVIOUS
  <2>1. x.place \in Places /\ y.place \in Places /\ x.place.at <= y.place.at /\ y.place.at <= x.place.at
    BY <1>1, <1>2 DEF byId
  <2>2. x.place = y.place
    BY <2>1, PlacesAssumption
  <2> QED BY <1>2, <2>2 DEF ScanIsHonest
<1>6. Cardinality(Ids(byId(c.refs))) = Cardinality(byId(c.refs))
  <2> DEFINE refs == byId(c.refs)
             f == [x \in refs |-> x.place.id]
  <2>1. IsFiniteSet(refs)
    BY <1>2, FS_Subset DEF ScanIsHonest
  <2>2. f \in Bijection(refs, Ids(refs))
    BY <1>5 DEF Bijection, Injection, Surjection, IsInjective, Ids
  <2>3. ExistsBijection(refs, Ids(refs))
    BY <2>2 DEF ExistsBijection
  <2> HIDE DEF refs
  <2>4. Cardinality(refs) = Cardinality(Ids(refs))
    BY <2>1, <2>3, FS_Bijection
  <2> QED BY <2>4 DEF refs
<1>7. Ids(c.least) \subseteq Ids(byId(c.refs))
  BY <1>3, <1>4 DEF Ids
<1>8. \A x \in c.least, y \in byId(c.refs) : x.place.id = y.place.id => y.place.at <= x.place.at
  BY <1>3 DEF byId
<1> QED BY <1>1, <1>2, <1>6, <1>7, <1>8 DEF IsOfScan, ScanIsHonest

\* A command goes on and nothing else does.
LEMMA ReaderOn ==
    ASSUME SkillInv, NEW r \in Readers, NEW next \in {NoLookup} \cup Readings, reader' = [reader EXCEPT ![r] = next],
           UNCHANGED <<disk, catalog, bounds, told>>, next # NoLookup => ReaderIsHonest(next)
    PROVE  SkillInv'
<1>1. SkillTypeOK' /\ reader'[r] = next /\ \A q \in Readers \ {r} : reader'[q] = reader[q]
  BY DEF SkillInv, SkillTypeOK
<1>2. CatalogIsHonest' <=> CatalogIsHonest
  BY DEF CatalogIsHonest
<1>3. next # NoLookup => ReaderIsHonest(next)'
  BY <1>2 DEF ReaderIsHonest, ScanIsHonest, OnDisk
<1>4. ASSUME NEW q \in Readers \ {r}, reader'[q] # NoLookup PROVE ReaderIsHonest(reader[q])'
  <2>1. ReaderIsHonest(reader[q])
    BY <1>1, <1>4 DEF SkillInv
  <2> QED BY <1>1, <1>2, <1>4, <2>1 DEF ReaderIsHonest, ScanIsHonest, OnDisk
<1>5. ASSUME reader'[r] # NoLookup PROVE ReaderIsHonest(reader[r])'
  BY <1>1, <1>3, <1>5 DEF ReaderIsHonest, ScanIsHonest, OnDisk
<1> QED BY <1>1, <1>2, <1>4, <1>5 DEF SkillInv

\* An agent edits a skill under the scans.
LEMMA EditSkillStep ==
    ASSUME SkillInv, NEW p \in Places, NEW text \in SkillTexts \cup {None}, EditSkill(p, text)
    PROVE  SkillInv'
<1>0. SkillTypeOK
  BY DEF SkillInv
<1>1. disk' = [disk EXCEPT ![p] = text] /\ UNCHANGED <<catalog, bounds, told>>
  BY DEF EditSkill
<1>2. disk' \in [Places -> SkillTexts \cup {None}] /\ disk'[p] = text /\ \A q \in Places \ {p} : disk'[q] = disk[q]
  BY <1>0, <1>1 DEF SkillTypeOK
<1>3. text # None => Ref(p, text) \in Texted
  BY DEF Ref, Texted
<1>4. ASSUME NEW q \in Readers, reader[q] # NoLookup, reader[q].pc = "scan"
      PROVE  \E next \in Readings :
                /\ reader'[q] = next /\ next.lookup = reader[q].lookup /\ next.pc = "scan" /\ next.refs = reader[q].refs
                /\ next.todo = reader[q].todo /\ next.left = reader[q].left
                /\ next.least = {x \in reader[q].least : x.place # p}
                /\ next.most = IF text = None THEN reader[q].most ELSE reader[q].most \cup {Ref(p, text)}
  <2> DEFINE least == {x \in reader[q].least : x.place # p}
             most == IF text = None THEN reader[q].most ELSE reader[q].most \cup {Ref(p, text)}
             next == [reader[q] EXCEPT !.least = least, !.most = most]
  <2>1. reader[q] \in Readings
    BY <1>0, <1>4 DEF SkillTypeOK
  <2>2. least \in SUBSET Texted /\ most \in SUBSET Texted
    BY <1>3, <2>1 DEF Readings
  <2>3. reader'[q] = next
    BY <1>4 DEF EditSkill
  <2> HIDE DEF least, most
  <2>4. /\ next \in Readings /\ next.lookup = reader[q].lookup /\ next.pc = "scan" /\ next.refs = reader[q].refs
        /\ next.todo = reader[q].todo /\ next.left = reader[q].left /\ next.least = least /\ next.most = most
    BY <1>4, <2>1, <2>2 DEF Readings
  <2> HIDE DEF next
  <2> QED BY <2>3, <2>4 DEF least, most
<1>5. ASSUME NEW q \in Readers, ~(reader[q] # NoLookup /\ reader[q].pc = "scan") PROVE reader'[q] = reader[q]
  BY <1>5 DEF EditSkill
<1>6. DOMAIN reader' = Readers
  BY DEF EditSkill
<1>7. SkillTypeOK'
  BY <1>0, <1>2, <1>4, <1>5, <1>6 DEF SkillTypeOK
<1>8. CatalogIsHonest' <=> CatalogIsHonest
  BY <1>1 DEF CatalogIsHonest
<1>9. ASSUME NEW q \in Readers, reader'[q] # NoLookup PROVE ReaderIsHonest(reader[q])'
  <2>1. CASE reader[q] # NoLookup /\ reader[q].pc = "scan"
    <3>1. PICK next \in Readings :
                /\ reader'[q] = next /\ next.lookup = reader[q].lookup /\ next.pc = "scan" /\ next.refs = reader[q].refs
                /\ next.todo = reader[q].todo /\ next.left = reader[q].left
                /\ next.least = {x \in reader[q].least : x.place # p}
                /\ next.most = IF text = None THEN reader[q].most ELSE reader[q].most \cup {Ref(p, text)}
      BY <1>4, <2>1
    <3>2. ScanIsHonest(reader[q])
      BY <2>1 DEF SkillInv, ReaderIsHonest
    <3>3. OnDisk' \subseteq next.most
      <4> SUFFICES ASSUME NEW x \in OnDisk' PROVE x \in next.most
        OBVIOUS
      <4>1. PICK s \in Places : disk'[s] # None /\ x = Ref(s, disk'[s])
        BY DEF OnDisk, Ref
      <4>2. CASE s = p
        BY <1>2, <3>1, <4>1, <4>2
      <4>3. CASE s # p
        BY <1>2, <3>1, <3>2, <4>1, <4>3 DEF ScanIsHonest, OnDisk
      <4> QED BY <4>2, <4>3
    <3>4. next.least \subseteq OnDisk'
      <4> SUFFICES ASSUME NEW x \in next.least PROVE x \in OnDisk'
        OBVIOUS
      <4>1. x \in OnDisk /\ x.place # p
        BY <3>1, <3>2 DEF ScanIsHonest
      <4>2. PICK s \in Places : disk[s] # None /\ x = Ref(s, disk[s])
        BY <4>1 DEF OnDisk
      <4>3. s # p
        BY <4>1, <4>2 DEF Ref
      <4> QED BY <1>2, <4>2, <4>3 DEF OnDisk, Ref
    <3>5. ScanIsHonest(next)'
      BY <3>1, <3>2, <3>3, <3>4 DEF ScanIsHonest
    <3> QED BY <3>1, <3>5 DEF ReaderIsHonest, ScanIsHonest
  <2>2. CASE ~(reader[q] # NoLookup /\ reader[q].pc = "scan")
    <3>1. reader'[q] = reader[q] /\ reader[q].pc # "scan"
      BY <1>5, <1>9, <2>2
    <3> QED BY <1>8, <1>9, <3>1 DEF SkillInv, ReaderIsHonest
  <2> QED BY <2>1, <2>2
<1> QED BY <1>1, <1>7, <1>8, <1>9 DEF SkillInv

\* A command looks at the catalog, scans, and finds a path.
LEMMA ScanStep ==
    ASSUME SkillInv, NEW r \in Readers,
           \/ \E lookup \in Lookups : GiveLookup(r, lookup)
           \/ LookAtCatalog(r) \/ ListSkills(r) \/ (\E p \in Places : pushSkill(r, p))
           \/ ReadCatalog(r) \/ FindPath(r) \/ SkillsDies(r)
    PROVE  SkillInv'
<1>0. SkillTypeOK /\ reader[r] \in {NoLookup} \cup Readings /\ UNCHANGED <<catalog, bounds, told, disk>>
  BY DEF SkillInv, SkillTypeOK, GiveLookup, LookAtCatalog, ListSkills, pushSkill, ReadCatalog, FindPath, SkillsDies
<1>1. SkillSources \in Seq(Range(SkillSources)) /\ DOMAIN SkillSources = 1..3
      /\ \A i, j \in DOMAIN SkillSources : SkillSources[i] = SkillSources[j] => i = j
  BY DEF SkillSources, Range
<1>2. OnDisk \subseteq Texted /\ \A x \in OnDisk : x.place.source \in Range(SkillSources)
  BY <1>0, PlacesAssumption DEF OnDisk, Ref, Texted, SkillTypeOK
<1>3. CASE SkillsDies(r)
  BY <1>0, <1>3, ReaderOn DEF SkillsDies, Ends
<1>4. ASSUME NEW lookup \in Lookups, GiveLookup(r, lookup) PROVE SkillInv'
  <2>1. PICK next : /\ next = [lookup |-> lookup, pc |-> "catalog", refs |-> {}, todo |-> {}, left |-> << >>, least |-> {}, most |-> {}]
                    /\ reader' = [reader EXCEPT ![r] = next]
    BY <1>4 DEF GiveLookup
  <2>2. next \in Readings /\ next.pc = "catalog" /\ next.refs = {} /\ next.todo = {}
    BY <2>1 DEF Readings
  <2> QED BY <1>0, <2>1, <2>2, ReaderOn DEF ReaderIsHonest
<1>5. ASSUME reader[r] # NoLookup PROVE reader[r] \in Readings /\ ReaderIsHonest(reader[r])
  BY <1>0, <1>5 DEF SkillInv
<1>6. CASE LookAtCatalog(r)
  <2>1. reader[r] # NoLookup /\ reader[r].pc = "catalog" /\ reader[r] \in Readings
    BY <1>5, <1>6 DEF LookAtCatalog, Stands
  <2>2. PICK c : c = reader[r]
    OBVIOUS
  <2>3. \/ reader' = [reader EXCEPT ![r] = NoLookup]
        \/ HasCatalog /\ reader' = [reader EXCEPT ![r] =
             [c EXCEPT !.pc = "answer", !.refs = catalog, !.least = bounds.least, !.most = bounds.most]]
        \/ reader' = [reader EXCEPT ![r] = [c EXCEPT !.pc = "scan", !.left = SkillSources, !.least = OnDisk, !.most = OnDisk]]
    <3> DEFINE answered == [c EXCEPT !.pc = "answer", !.refs = catalog, !.least = bounds.least, !.most = bounds.most]
               begun == [c EXCEPT !.pc = "scan", !.left = SkillSources, !.least = OnDisk, !.most = OnDisk]
               next == CASE c.lookup.op = "forge" /\ c.lookup.material < MIN_CHARS -> NoLookup
                         [] c.lookup.op = "index" /\ HasCatalog /\ ~c.lookup.refresh -> NoLookup
                         [] c.lookup.op # "index" /\ HasCatalog -> answered
                         [] OTHER -> begun
    <3>1. reader' = [reader EXCEPT ![r] = next]
      BY <1>6, <2>2 DEF LookAtCatalog
    <3> HIDE DEF answered, begun
    <3>2. next = NoLookup \/ (HasCatalog /\ next = answered) \/ next = begun
      OBVIOUS
    <3> HIDE DEF next
    <3>3. \/ reader' = [reader EXCEPT ![r] = NoLookup]
          \/ HasCatalog /\ reader' = [reader EXCEPT ![r] = answered]
          \/ reader' = [reader EXCEPT ![r] = begun]
      BY <3>1, <3>2
    <3> QED BY <3>3 DEF answered, begun
  <2>4. CASE reader' = [reader EXCEPT ![r] = NoLookup]
    BY <1>0, <2>4, ReaderOn
  <2>5. CASE HasCatalog /\ reader' = [reader EXCEPT ![r] =
             [c EXCEPT !.pc = "answer", !.refs = catalog, !.least = bounds.least, !.most = bounds.most]]
    <3>1. CatalogIsHonest
      BY <2>5 DEF HasCatalog, SkillInv
    <3>2. PICK next : next = [c EXCEPT !.pc = "answer", !.refs = catalog, !.least = bounds.least, !.most = bounds.most]
      OBVIOUS
    <3>3. next \in Readings /\ next.pc = "answer" /\ next.refs = catalog /\ next.least = bounds.least /\ next.most = bounds.most
      BY <2>1, <2>2, <3>1, <3>2 DEF Readings, CatalogIsHonest
    <3>4. ReaderIsHonest(next)
      BY <3>1, <3>3 DEF ReaderIsHonest, CatalogIsHonest
    <3> QED BY <1>0, <2>5, <3>2, <3>3, <3>4, ReaderOn
  <2>6. CASE reader' = [reader EXCEPT ![r] = [c EXCEPT !.pc = "scan", !.left = SkillSources, !.least = OnDisk, !.most = OnDisk]]
    <3>1. PICK next : next = [c EXCEPT !.pc = "scan", !.left = SkillSources, !.least = OnDisk, !.most = OnDisk]
      OBVIOUS
    <3>2. next \in Readings /\ next.pc = "scan" /\ next.left = SkillSources /\ next.least = OnDisk /\ next.most = OnDisk
          /\ next.refs = c.refs /\ next.todo = c.todo
      BY <1>1, <1>2, <2>1, <2>2, <3>1 DEF Readings
    <3>3. c.refs = {} /\ c.todo = {}
      BY <1>5, <2>1, <2>2 DEF ReaderIsHonest
    <3>4. ScanIsHonest(next)
      BY <1>1, <1>2, <3>2, <3>3, FS_EmptySet DEF ScanIsHonest
    <3>5. ReaderIsHonest(next)
      BY <3>2, <3>4 DEF ReaderIsHonest
    <3> QED BY <1>0, <2>6, <3>1, <3>2, <3>5, ReaderOn
  <2> QED BY <2>3, <2>4, <2>5, <2>6
<1>7. CASE ListSkills(r)
  <2>1. PICK c : c = reader[r]
    OBVIOUS
  <2>2. c \in Readings /\ c.pc = "scan" /\ ReaderIsHonest(c) /\ ScanIsHonest(c) /\ c.todo = {} /\ c.left # << >>
    BY <1>5, <1>7, <2>1 DEF ListSkills, Stands, ReaderIsHonest
  <2>3. PICK todo \in SUBSET Places : todo = {p \in Places : p.source = Head(c.left) /\ disk[p] # None}
    OBVIOUS
  <2>4. PICK next : next = [c EXCEPT !.left = Tail(c.left), !.todo = todo]
    OBVIOUS
  <2>5. reader' = [reader EXCEPT ![r] = next]
    BY <1>0, <1>7, <2>1, <2>2, <2>3, <2>4 DEF ListSkills, SkillTypeOK, Readings
  <2>6. /\ c.left \in Seq(Range(SkillSources)) /\ Tail(c.left) \in Seq(Range(SkillSources)) /\ Head(c.left) = c.left[1]
        /\ Len(c.left) \in Nat /\ DOMAIN c.left = 1..Len(c.left) /\ DOMAIN Tail(c.left) = 1..(Len(c.left) - 1)
        /\ \A i \in 1..(Len(c.left) - 1) : Tail(c.left)[i] = c.left[i + 1]
    BY <2>2, HeadTailProperties DEF Readings
  <2>7. /\ next \in Readings /\ next.pc = "scan" /\ next.left = Tail(c.left) /\ next.least = c.least /\ next.most = c.most
        /\ next.refs = c.refs /\ next.todo = todo
    BY <2>2, <2>4, <2>6 DEF Readings
  <2>8. /\ \A i \in DOMAIN Tail(c.left) : Tail(c.left)[i] = c.left[i + 1] /\ i + 1 \in DOMAIN c.left /\ i + 1 # 1
        /\ \A i, k \in DOMAIN Tail(c.left) : Tail(c.left)[i] = Tail(c.left)[k] => i = k
    <3>1. \A i \in DOMAIN Tail(c.left) : Tail(c.left)[i] = c.left[i + 1] /\ i + 1 \in DOMAIN c.left /\ i + 1 # 1 /\ i \in Int
      BY <2>6
    <3>2. \A i, k \in DOMAIN c.left : c.left[i] = c.left[k] => i = k
      BY <2>2 DEF ScanIsHonest
    <3>3. ASSUME NEW i \in DOMAIN Tail(c.left), NEW k \in DOMAIN Tail(c.left), Tail(c.left)[i] = Tail(c.left)[k] PROVE i = k
      <4>1. i + 1 = k + 1
        BY <3>1, <3>2, <3>3
      <4> QED BY <3>1, <4>1
    <3> QED BY <3>1, <3>3
  <2>9. Range(c.left) = {Head(c.left)} \cup Range(Tail(c.left)) /\ Head(c.left) \notin Range(Tail(c.left))
    <3>1. ASSUME NEW i \in DOMAIN c.left, i # 1 PROVE c.left[i] \in Range(Tail(c.left))
      <4>1. i - 1 \in DOMAIN Tail(c.left) /\ Tail(c.left)[i - 1] = c.left[(i - 1) + 1] /\ (i - 1) + 1 = i
        BY <2>6, <3>1
      <4> QED BY <4>1 DEF Range
    <3>2. Range(Tail(c.left)) \subseteq Range(c.left) /\ Head(c.left) \in Range(c.left)
      <4>1. 1 \in DOMAIN c.left
        BY <2>2, <2>6
      <4> QED BY <2>6, <2>8, <4>1 DEF Range
    <3>3. Head(c.left) \notin Range(Tail(c.left))
      <4>1. 1 \in DOMAIN c.left
        BY <2>2, <2>6
      <4>2. \A i, k \in DOMAIN c.left : c.left[i] = c.left[k] => i = k
        BY <2>2 DEF ScanIsHonest
      <4>3. \A i \in DOMAIN Tail(c.left) : Tail(c.left)[i] # c.left[1]
        BY <2>8, <4>1, <4>2
      <4> QED BY <2>6, <4>3 DEF Range
    <3> QED BY <2>6, <3>1, <3>2, <3>3 DEF Range
  <2>10. ASSUME NEW x \in c.least PROVE x \in c.refs \/ x.place \in todo \/ x.place.source \in Range(Tail(c.left))
    <3>1. x \in OnDisk /\ (x \in c.refs \/ x.place.source \in Range(c.left))
      BY <2>2 DEF ScanIsHonest
    <3>2. x.place \in Places /\ disk[x.place] # None
      BY <3>1 DEF OnDisk, Ref
    <3> QED BY <2>3, <2>9, <3>1, <3>2
  <2>11. \A x \in c.refs : x.place \notin todo
    BY <2>2, <2>3, <2>9 DEF ScanIsHonest
  <2>12. ScanIsHonest(next)
    BY <2>2, <2>3, <2>7, <2>8, <2>9, <2>10, <2>11 DEF ScanIsHonest
  <2> QED BY <1>0, <2>5, <2>7, <2>12, ReaderOn DEF ReaderIsHonest
<1>8. ASSUME NEW p \in Places, pushSkill(r, p) PROVE SkillInv'
  <2>1. PICK c : c = reader[r]
    OBVIOUS
  <2>2. c \in Readings /\ c.pc = "scan" /\ ReaderIsHonest(c) /\ ScanIsHonest(c) /\ p \in c.todo
    BY <1>5, <1>8, <2>1 DEF pushSkill, Stands, ReaderIsHonest
  <2>3. PICK refs : refs = IF disk[p] = None THEN c.refs ELSE c.refs \cup {Ref(p, disk[p])}
    OBVIOUS
  <2>4. PICK next : next = [c EXCEPT !.todo = c.todo \ {p}, !.refs = refs]
    OBVIOUS
  <2>5. reader' = [reader EXCEPT ![r] = next]
    BY <1>0, <1>8, <2>1, <2>2, <2>3, <2>4 DEF pushSkill, SkillTypeOK, Readings
  <2>6. disk[p] # None => Ref(p, disk[p]) \in OnDisk /\ Ref(p, disk[p]).place = p
    BY DEF OnDisk, Ref
  <2>7. refs \in SUBSET Texted
    BY <1>2, <2>2, <2>3, <2>6 DEF Readings
  <2>8. /\ next \in Readings /\ next.pc = "scan" /\ next.left = c.left /\ next.least = c.least /\ next.most = c.most
        /\ next.refs = refs /\ next.todo = c.todo \ {p}
    BY <2>2, <2>4, <2>7 DEF Readings
  <2>9. IsFiniteSet(refs)
    BY <2>2, <2>3, FS_AddElement DEF ScanIsHonest
  <2>10. refs \subseteq c.most /\ \A x \in refs : x \in c.refs \/ (x.place = p /\ disk[p] # None)
    BY <2>2, <2>3, <2>6 DEF ScanIsHonest
  <2>11. \A x, y \in refs : x.place = y.place => x = y
    BY <2>2, <2>3, <2>6 DEF ScanIsHonest
  <2>12. \A x \in refs : x.place \notin c.todo \ {p} /\ x.place.source \notin Range(c.left)
    BY <2>2, <2>10 DEF ScanIsHonest
  <2>13. ASSUME NEW x \in c.least PROVE x \in refs \/ x.place \in c.todo \ {p} \/ x.place.source \in Range(c.left)
    <3>1. x \in OnDisk /\ (x \in c.refs \/ x.place \in c.todo \/ x.place.source \in Range(c.left))
      BY <2>2 DEF ScanIsHonest
    <3>2. x.place = p => disk[p] # None /\ x = Ref(p, disk[p])
      BY <3>1 DEF OnDisk, Ref
    <3> QED BY <2>3, <3>1, <3>2
  <2>14. ScanIsHonest(next)
    BY <2>2, <2>8, <2>9, <2>10, <2>11, <2>12, <2>13 DEF ScanIsHonest
  <2> QED BY <1>0, <2>5, <2>8, <2>14, ReaderOn DEF ReaderIsHonest
<1>9. CASE ReadCatalog(r)
  <2>1. PICK c : c = reader[r]
    OBVIOUS
  <2>2. c \in Readings /\ CatalogIsHonest
    BY <1>5, <1>9, <2>1 DEF ReadCatalog, Stands, ReaderIsHonest
  <2>3. PICK next : next = [c EXCEPT !.pc = "answer", !.refs = catalog, !.least = bounds.least, !.most = bounds.most]
    OBVIOUS
  <2>4. reader' = [reader EXCEPT ![r] = next]
    BY <1>0, <1>9, <2>1, <2>2, <2>3 DEF ReadCatalog, SkillTypeOK, Readings
  <2>5. next \in Readings /\ next.pc = "answer" /\ next.refs = catalog /\ next.least = bounds.least /\ next.most = bounds.most
    BY <2>2, <2>3 DEF Readings, CatalogIsHonest
  <2>6. ReaderIsHonest(next)
    BY <2>2, <2>5 DEF ReaderIsHonest, CatalogIsHonest
  <2> QED BY <1>0, <2>4, <2>5, <2>6, ReaderOn
<1>10. CASE FindPath(r)
  <2>1. PICK c : c = reader[r]
    OBVIOUS
  <2>2. c \in Readings /\ c.lookup.op # "list"
    BY <1>5, <1>10, <2>1 DEF FindPath, Stands
  <2>3. PICK todo : todo = IF c.lookup.op \in {"show", "validate"} THEN pathOf(c.refs, c.lookup.id)
                           ELSE Named(c.refs, IF c.lookup.op = "forge" THEN "skill-creator" ELSE c.lookup.id)
    OBVIOUS
  <2>4. todo \in SUBSET Places
    BY <2>2, <2>3 DEF pathOf, Named, Readings, Texted
  <2>5. PICK next : next = [c EXCEPT !.pc = "read", !.todo = todo]
    OBVIOUS
  <2>6. reader' = [reader EXCEPT ![r] = next]
    BY <1>0, <1>10, <2>1, <2>2, <2>3, <2>5 DEF FindPath, SkillTypeOK, Readings
  <2>7. next \in Readings /\ next.pc = "read" /\ next.lookup = c.lookup
    BY <2>2, <2>4, <2>5 DEF Readings
  <2>8. ReaderIsHonest(next)
    BY <2>2, <2>7 DEF ReaderIsHonest
  <2> QED BY <1>0, <2>6, <2>7, <2>8, ReaderOn
<1> QED BY <1>3, <1>4, <1>6, <1>7, <1>8, <1>9, <1>10

\* A command writes the catalog, or tells what it has found.
LEMMA TellStep ==
    ASSUME SkillInv, NEW r \in Readers, WriteCatalog(r) \/ TellList(r) \/ ReadSkill(r)
    PROVE  SkillInv'
<1>0. SkillTypeOK /\ UNCHANGED disk
  BY DEF SkillInv, WriteCatalog, TellList, ReadSkill
<1>1. PICK c : c = reader[r]
  OBVIOUS
<1>2. c \in Readings /\ ReaderIsHonest(c)
  BY <1>1 DEF SkillInv, SkillTypeOK, WriteCatalog, TellList, ReadSkill, Stands
<1>3. CASE WriteCatalog(r)
  <2>1. c.pc = "scan" /\ c.todo = {} /\ c.left = << >> /\ catalog' = byId(c.refs) /\ told' = told
        /\ bounds' = [least |-> c.least, most |-> c.most]
    BY <1>1, <1>3 DEF WriteCatalog, Stands
  <2>2. CatalogIsHonest'
    BY <1>2, <2>1, CatalogOfScan DEF CatalogIsHonest, ReaderIsHonest, Readings
  <2>3. PICK next \in {NoLookup} \cup Readings : reader' = [reader EXCEPT ![r] = next] /\ (next # NoLookup => next.pc = "reread")
    <3>1. CASE c.lookup.op = "index"
      BY <1>1, <1>3, <3>1 DEF WriteCatalog, Ends
    <3>2. CASE c.lookup.op # "index"
      <4>1. [c EXCEPT !.pc = "reread"] \in Readings /\ [c EXCEPT !.pc = "reread"].pc = "reread"
        BY <1>2 DEF Readings
      <4>2. reader' = [reader EXCEPT ![r] = [c EXCEPT !.pc = "reread"]]
        BY <1>1, <1>3, <3>2 DEF WriteCatalog
      <4> QED BY <4>1, <4>2
    <3> QED BY <3>1, <3>2
  <2>4. SkillTypeOK' /\ reader'[r] = next /\ \A q \in Readers \ {r} : reader'[q] = reader[q]
    BY <1>0, <2>3 DEF SkillTypeOK
  <2>5. ASSUME NEW q \in Readers, reader'[q] # NoLookup PROVE ReaderIsHonest(reader[q])'
    <3>1. CASE q = r
      BY <2>2, <2>3, <2>4, <2>5, <3>1 DEF ReaderIsHonest
    <3>2. CASE q # r
      <4>1. reader'[q] = reader[q] /\ ReaderIsHonest(reader[q])
        BY <2>4, <2>5, <3>2 DEF SkillInv
      <4> QED BY <1>0, <2>2, <4>1 DEF ReaderIsHonest, ScanIsHonest, OnDisk
    <3> QED BY <3>1, <3>2
  <2> QED BY <2>1, <2>2, <2>4, <2>5 DEF SkillInv
<1>4. CASE TellList(r) \/ ReadSkill(r)
  <2>1. reader' = [reader EXCEPT ![r] = NoLookup] /\ UNCHANGED <<catalog, bounds>>
    BY <1>4 DEF TellList, ReadSkill, Ends
  <2>2. PICK refs : /\ told' = [lookup |-> c.lookup, refs |-> refs, least |-> c.least, most |-> c.most]
                    /\ c.lookup.op = "list" => c.pc = "answer" /\ refs = Of(c.refs, c.lookup)
    BY <1>1, <1>2, <1>4 DEF TellList, ReadSkill, Tells, Stands, ReaderIsHonest
  <2>3. SkillTypeOK' /\ reader'[r] = NoLookup /\ \A q \in Readers \ {r} : reader'[q] = reader[q]
    BY <1>0, <2>1 DEF SkillTypeOK
  <2>4. CatalogIsHonest' <=> CatalogIsHonest
    BY <2>1 DEF CatalogIsHonest
  <2>5. ASSUME NEW q \in Readers, reader'[q] # NoLookup PROVE ReaderIsHonest(reader[q])'
    <3>1. reader'[q] = reader[q] /\ ReaderIsHonest(reader[q])
      BY <2>3, <2>5 DEF SkillInv
    <3> QED BY <1>0, <2>4, <3>1 DEF ReaderIsHonest, ScanIsHonest, OnDisk
  <2>6. ASSUME c.lookup.op = "list"
        PROVE  /\ refs \subseteq c.most
               /\ c.lookup.type = "all" /\ c.lookup.source = "all" => IsOfScan(refs, c.least, c.most)
    <3>1. IsOfScan(c.refs, c.least, c.most) /\ refs = Of(c.refs, c.lookup)
      BY <1>2, <2>2, <2>6 DEF ReaderIsHonest
    <3>2. refs \subseteq c.refs /\ (c.lookup.type = "all" /\ c.lookup.source = "all" => refs = c.refs)
      BY <3>1 DEF Of
    <3> QED BY <3>1, <3>2 DEF IsOfScan
  <2>7. told' # None /\ told'.lookup.op = "list" =>
         /\ told'.refs \subseteq told'.most
         /\ told'.lookup.type = "all" /\ told'.lookup.source = "all" => IsOfScan(told'.refs, told'.least, told'.most)
    BY <2>2, <2>6
  <2> QED BY <2>1, <2>3, <2>4, <2>5, <2>7 DEF SkillInv, IsOfScan, Ids
<1> QED BY <1>3, <1>4

\* The invariant holds of every behaviour.
LEMMA SkillInvHolds == SkillSpec => []SkillInv
<1>1. SkillInit => SkillInv
  BY DEF SkillInit, SkillInv, SkillTypeOK
<1>2. SkillInv /\ [SkillNext]_skillVars => SkillInv'
  <2> SUFFICES ASSUME SkillInv, [SkillNext]_skillVars PROVE SkillInv'
    OBVIOUS
  <2>1. ASSUME NEW p \in Places, NEW text \in SkillTexts \cup {None}, EditSkill(p, text) PROVE SkillInv'
    BY <2>1, EditSkillStep
  <2>2. ASSUME NEW r \in Readers,
           \/ \E lookup \in Lookups : GiveLookup(r, lookup)
           \/ LookAtCatalog(r) \/ ListSkills(r) \/ (\E p \in Places : pushSkill(r, p))
           \/ ReadCatalog(r) \/ FindPath(r) \/ SkillsDies(r)
        PROVE  SkillInv'
    BY <2>2, ScanStep
  <2>3. ASSUME NEW r \in Readers, WriteCatalog(r) \/ TellList(r) \/ ReadSkill(r) PROVE SkillInv'
    BY <2>3, TellStep
  <2>4. CASE UNCHANGED skillVars
    <3>1. UNCHANGED <<disk, catalog, reader, bounds, told>>
      BY <2>4 DEF skillVars
    <3>2. SkillTypeOK' /\ (CatalogIsHonest' <=> CatalogIsHonest)
      BY <3>1 DEF SkillInv, SkillTypeOK, CatalogIsHonest
    <3>3. ASSUME NEW r \in Readers, reader'[r] # NoLookup PROVE ReaderIsHonest(reader[r])'
      <4>1. ReaderIsHonest(reader[r]) /\ reader'[r] = reader[r]
        BY <3>1, <3>3 DEF SkillInv
      <4> QED BY <3>1, <3>2, <4>1 DEF ReaderIsHonest, ScanIsHonest, OnDisk
    <3> QED BY <3>1, <3>2, <3>3 DEF SkillInv
  <2> QED BY <2>1, <2>2, <2>3, <2>4 DEF SkillNext
<1> QED BY <1>1, <1>2, PTL DEF SkillSpec

\* A catalog, and the list that is told from it late, comes of one whole scan: it names nothing that
\* was not there during it and nothing twice, misses no skill that stood all along, and prefers the
\* first path (skills.ts scan, catalog, list): for any skills and readers, scans side by side, edits
\* between any two reads and deaths.
THEOREM CatalogIsAlwaysOfOneScan == SkillSpec => []CatalogIsOfOneScan
<1>1. SkillInv => CatalogIsOfOneScan
  BY DEF SkillInv, CatalogIsHonest, CatalogIsOfOneScan
<1> QED BY <1>1, SkillInvHolds, PTL

-----------------------------------------------------------------------------
(* The self-harness loop.                                                  *)

StudySpec == StudyInit /\ [][StudyNext]_studyVars

\* What a proposing agent's answer becomes.
LEMMA ProposeFits ==
    ASSUME NEW answer \in Proposals, NEW k \in Nat
    PROVE  /\ propose(answer, k) \in Seq(Offers) /\ Len(propose(answer, k)) <= k
           /\ \A n \in DOMAIN propose(answer, k) : sanitizeEdit(propose(answer, k)[n])
<1> DEFINE fit == {i \in DOMAIN answer : sanitizeEdit(answer[i])}
           Before(i) == {h \in fit : h < i}
           first == {i \in fit : Cardinality(Before(i)) < k}
           edits == [n \in 1..Cardinality(first) |-> answer[CHOOSE i \in first : Cardinality(Before(i)) = n - 1]]
<1>1. propose(answer, k) = edits
  BY DEF propose
<1>2. answer \in Seq(Range(answer)) /\ Len(answer) \in Nat /\ DOMAIN answer = 1..Len(answer)
  BY StudyAssumption, LenProperties
<1>3. Range(answer) \subseteq Offers
  BY DEF Offers
<1>4. fit \in SUBSET Nat /\ IsFiniteSet(fit) /\ fit \subseteq DOMAIN answer /\ \A i \in fit : sanitizeEdit(answer[i])
  <2>1. IsFiniteSet(1..Len(answer))
    BY <1>2, FS_Interval
  <2> HIDE DEF sanitizeEdit
  <2>2. fit \subseteq 1..Len(answer)
    BY <1>2
  <2> QED BY <1>2, <2>1, <2>2, FS_Subset
<1> HIDE DEF fit
<1>5. first \in SUBSET Nat /\ IsFiniteSet(first) /\ first \subseteq fit
  BY <1>4, FS_Subset
<1>6. ASSUME NEW i \in first PROVE Before(i) = {h \in first : h < i}
  <2>1. ASSUME NEW h \in fit, h < i PROVE h \in first
    <3>1. Before(h) \subseteq Before(i)
      <4> SUFFICES ASSUME NEW g \in fit, g < h PROVE g < i
        OBVIOUS
      <4>1. g \in Nat /\ h \in Nat /\ i \in Nat
        BY <1>4, <1>5
      <4> QED BY <2>1, <4>1
    <3>2. IsFiniteSet(Before(i)) /\ Cardinality(Before(i)) < k
      BY <1>4, FS_Subset
    <3>3. Cardinality(Before(h)) <= Cardinality(Before(i)) /\ Cardinality(Before(h)) \in Nat /\ Cardinality(Before(i)) \in Nat
      BY <3>1, <3>2, FS_Subset, FS_CardinalityType
    <3> QED BY <2>1, <3>2, <3>3
  <2> QED BY <1>5, <2>1
<1>7. \A n \in 1..Cardinality(first) : \E i \in first : Cardinality(Before(i)) = n - 1
  BY <1>5, <1>6, NthNumber
<1>8. Cardinality(first) \in Nat
  BY <1>5, FS_CardinalityType
<1>9. Cardinality(first) <= k
  <2> SUFFICES ASSUME Cardinality(first) > k PROVE FALSE
    BY <1>8
  <2>1. PICK i \in first : Cardinality(Before(i)) = (k + 1) - 1
    BY <1>7, <1>8
  <2> QED BY <2>1
<1>10. ASSUME NEW n \in 1..Cardinality(first) PROVE edits[n] \in Offers /\ sanitizeEdit(edits[n])
  <2>1. PICK i : i = CHOOSE h \in first : Cardinality(Before(h)) = n - 1
    OBVIOUS
  <2>2. i \in first
    BY <1>7, <1>10, <2>1
  <2>3. edits[n] = answer[i]
    BY <1>10, <2>1
  <2>4. i \in fit /\ i \in DOMAIN answer
    BY <1>4, <1>5, <2>2
  <2> QED BY <1>3, <1>4, <2>3, <2>4 DEF Range
<1>11. edits \in [1..Cardinality(first) -> Offers]
  BY <1>10
<1> HIDE DEF edits, first
<1>13. edits \in Seq(Offers) /\ DOMAIN edits = 1..Cardinality(first)
  BY <1>8, <1>11, SeqDef
<1>12. edits \in Seq(Offers) /\ Len(edits) = Cardinality(first) /\ DOMAIN edits = 1..Cardinality(first)
  BY <1>8, <1>13, LenProperties
<1> QED BY <1>1, <1>9, <1>10, <1>12

\* How many trials a study gives each configuration.
TrialsOf(w) == Len(Cases(w.spec)) * w.spec.samples

\* A study stands where its pc says, with no more passes than trials.
StudyFits(c, w) ==
    /\ w \in Studies /\ c \in Configs
    /\ parseSelfHarnessSpec(w.spec)
    /\ w.round \in 1..w.spec.rounds
    /\ Len(w.edits) <= w.spec.k
    /\ \A n \in DOMAIN w.edits : w.edits[n].surface \in Surfaces /\ w.edits[n].after \in Texts
    /\ w.at \in 0..TrialsOf(w)
    /\ w.pc \in {"mine", "propose"} => w.edits = << >> /\ w.scores = << >>
    /\ w.pc \notin {"case", "run", "judge"} => w.passes = NoPasses
    /\ w.pc \in {"case", "run", "judge"} =>
         /\ 1 <= w.at /\ w.passes.in < w.at /\ w.passes.out < w.at
         /\ Len(w.scores) <= Len(w.edits)
    /\ w.pc = "accept" => Len(w.scores) = Len(w.edits) + 1

PlacesOfStudy ==
    /\ config \in Configs \cup {None}
    /\ study # None => StudyFits(config, study)
    /\ rules \in {"original", "rewritten"} /\ slips \in 0..MaxSlips

\* One row of the lineage tells what became of the configuration.
RoundTells(r) ==
    LET Accepted(s) == {i \in DOMAIN r.rows : r.rows[i].accepted /\ r.rows[i].surface = s}
        Gain(i, half) == r.scores[i + 1][half] - r.scores[1][half]
        Gains(i) == Gain(i, "in") >= 0 /\ Gain(i, "out") >= 0 /\ Gain(i, "in") + Gain(i, "out") > 0
    IN \A s \in Surfaces :
         /\ r.after[s] = IF Accepted(s) = {} THEN r.before[s]
                         ELSE r.edits[CHOOSE i \in Accepted(s) : TRUE].after
         /\ Cardinality(Accepted(s)) <= 1
         /\ \A i \in Accepted(s), j \in DOMAIN r.rows :
              /\ Gains(i)
              /\ r.rows[j].surface = s /\ Gains(j) =>
                   Gain(i, "in") + Gain(i, "out") >= Gain(j, "in") + Gain(j, "out")

LineageTells ==
    /\ studied \in Seq(Range(studied))
    /\ \A n \in DOMAIN studied : RoundTells(studied[n])
    /\ \A n \in DOMAIN studied : n < Len(studied) => studied[n + 1].before = studied[n].after
    /\ studied # << >> => config = studied[Len(studied)].after

\* Where a spec has pins, no trial begins under other rules, and none ends under other rules
\* than those or what its own agent made of them.
PinsAt(w, passed) ==
    /\ "rewritten" \notin passed
    /\ w.pc = "run" => w.copy = "original"
    /\ w.pc = "judge" => w.copy \in {"original", "mutated"}

PinsHold ==
    /\ study = None /\ studied = << >> => passedOn = {}
    /\ study # None /\ study.spec.pinned # {} => PinsAt(study, passedOn)

StudyInv == PlacesOfStudy /\ LineageTells /\ PinsHold

LEMMA TrialsAreCounted ==
    ASSUME NEW spec \in Specs, parseSelfHarnessSpec(spec)
    PROVE  /\ spec.k \in Nat /\ 1 <= spec.k /\ spec.rounds \in Nat /\ 1 <= spec.rounds
           /\ spec.samples \in Nat /\ Len(Cases(spec)) * spec.samples \in Nat
<1>1. spec.k \in Nat /\ 1 <= spec.k /\ spec.rounds \in Nat /\ 1 <= spec.rounds /\ spec.samples \in Nat
  BY DEF parseSelfHarnessSpec
<1>2. spec.heldIn \in Seq(Range(spec.heldIn)) /\ spec.heldOut \in Seq(Range(spec.heldOut))
  BY StudyAssumption
<1>3. Len(spec.heldIn) \in Nat /\ Len(spec.heldOut) \in Nat
  BY <1>2, LenProperties
<1>4. spec.heldIn \in Seq(Range(spec.heldIn) \cup Range(spec.heldOut)) /\ spec.heldOut \in Seq(Range(spec.heldIn) \cup Range(spec.heldOut))
  BY <1>2, SeqDef
<1>5. Len(Cases(spec)) \in Nat
  BY <1>4, ConcatProperties, LenProperties DEF Cases
<1>6. \A a, b \in Nat : a * b \in Nat
  OBVIOUS
<1> QED BY <1>1, <1>5, <1>6

LEMMA StudyStarts == StudyInit => StudyInv
<1> SUFFICES ASSUME StudyInit PROVE StudyInv
  OBVIOUS
<1>1. << >> \in Seq({}) /\ Range(<< >>) = {} /\ DOMAIN << >> = {}
  BY EmptySeq DEF Range
<1>2. PlacesOfStudy
  <2>1. MaxSlips \in Nat
    BY StudyAssumption
  <2> QED BY <2>1 DEF StudyInit, PlacesOfStudy
<1>3. LineageTells
  BY <1>1 DEF StudyInit, LineageTells
<1> QED BY <1>2, <1>3 DEF StudyInv, StudyInit, PinsHold

\* A case is counted as passed or not, and the next case, the next
\* configuration or the acceptance comes after it.
LEMMA AfterCaseFits ==
    ASSUME StudyFits(config, study), study.pc \in {"case", "run", "judge"}, NEW passed \in BOOLEAN, AfterCase(passed)
    PROVE  StudyFits(config, study') /\ study'.spec = study.spec /\ study'.pc \in {"case", "accept"}
<1> DEFINE passes == IF passed THEN [study.passes EXCEPT ![Half] = @ + 1] ELSE study.passes
           Tallies == Seq([in : Nat, out : Nat])
<1>1. /\ study \in Studies /\ study.spec \in Specs /\ TrialsOf(study) \in Nat /\ Trials = TrialsOf(study)
      /\ study.at \in 1..TrialsOf(study) /\ study.passes \in [in : Nat, out : Nat]
      /\ study.passes.in < study.at /\ study.passes.out < study.at
      /\ study.scores \in Tallies /\ Len(study.scores) <= Len(study.edits)
      /\ Len(study.scores) \in Nat /\ Len(study.edits) \in Nat /\ study.edits \in Seq(Offers)
  <2>1. study \in Studies /\ study.spec \in Specs /\ parseSelfHarnessSpec(study.spec)
    BY DEF StudyFits, Studies
  <2>2. TrialsOf(study) \in Nat /\ Trials = TrialsOf(study)
    BY <2>1, TrialsAreCounted DEF Trials, TrialsOf
  <2>3. study.scores \in Tallies /\ study.edits \in Seq(Offers) /\ study.passes \in [in : Nat, out : Nat]
    BY <2>1 DEF Studies
  <2>4. Len(study.scores) \in Nat /\ Len(study.edits) \in Nat
    BY <2>3, LenProperties
  <2> QED BY <2>1, <2>2, <2>3, <2>4 DEF StudyFits
<1>2. passes \in [in : Nat, out : Nat] /\ passes.in <= study.at /\ passes.out <= study.at
  <2>1. Half \in {"in", "out"}
    BY DEF Half
  <2>2. study.at \in Nat /\ study.passes.in \in Nat /\ study.passes.out \in Nat
    BY <1>1
  <2> QED BY <1>1, <2>1, <2>2
<1>3. study' = IF study.at < Trials
             THEN [study EXCEPT !.pc = "case", !.at = study.at + 1, !.passes = passes, !.copy = None]
             ELSE [study EXCEPT !.scores = Append(study.scores, passes), !.at = 1, !.copy = None,
                                !.passes = NoPasses,
                                !.pc = IF Len(study.scores) = Len(study.edits) THEN "accept" ELSE "case"]
  BY DEF AfterCase
<1> HIDE DEF passes
<1>4. CASE study.at < Trials
  <2>1. PICK next : next = [study EXCEPT !.pc = "case", !.at = study.at + 1, !.passes = passes, !.copy = None]
    OBVIOUS
  <2>2. study' = next
    BY <1>3, <1>4, <2>1
  <2>3. /\ next.spec = study.spec /\ next.round = study.round /\ next.edits = study.edits /\ next.scores = study.scores
        /\ next.pc = "case" /\ next.at = study.at + 1 /\ next.passes = passes
    BY <1>1, <2>1 DEF Studies
  <2>4. next \in Studies
    <3>1. study.at + 1 \in Nat
      BY <1>1
    <3> QED BY <1>1, <1>2, <2>1, <3>1 DEF Studies
  <2>5. next.at \in 0..TrialsOf(study) /\ 1 <= next.at /\ passes.in < next.at /\ passes.out < next.at
    BY <1>1, <1>2, <1>4, <2>3
  <2>6. TrialsOf(next) = TrialsOf(study)
    BY <2>3 DEF TrialsOf
  <2>7. StudyFits(config, next)
    BY <1>1, <2>3, <2>4, <2>5, <2>6 DEF StudyFits
  <2> QED BY <2>2, <2>3, <2>7
<1>5. CASE ~(study.at < Trials)
  <2> DEFINE pc == IF Len(study.scores) = Len(study.edits) THEN "accept" ELSE "case"
             grown == Append(study.scores, passes)
  <2>1. PICK next : next = [study EXCEPT !.scores = grown, !.at = 1, !.copy = None, !.passes = NoPasses, !.pc = pc]
    OBVIOUS
  <2>2. study' = next
    BY <1>3, <1>5, <2>1
  <2>3. grown \in Tallies /\ Len(grown) = Len(study.scores) + 1
    BY <1>1, <1>2, AppendProperties
  <2>4. pc \in {"accept", "case"} /\ NoPasses \in [in : Nat, out : Nat] /\ NoPasses.in = 0 /\ NoPasses.out = 0
    BY DEF NoPasses
  <2> HIDE DEF grown
  <2>5. /\ pc = "accept" => Len(grown) = Len(study.edits) + 1
        /\ pc = "case" => Len(grown) <= Len(study.edits)
    <3>1. CASE Len(study.scores) = Len(study.edits)
      <4>1. pc = "accept"
        BY <3>1
      <4> HIDE DEF pc
      <4> QED BY <1>1, <2>3, <3>1, <4>1
    <3>2. CASE Len(study.scores) # Len(study.edits)
      <4>1. pc = "case"
        BY <3>2
      <4> HIDE DEF pc
      <4>2. Len(study.scores) < Len(study.edits)
        BY <1>1, <3>2
      <4> QED BY <1>1, <2>3, <4>1, <4>2
    <3> QED BY <3>1, <3>2
  <2> HIDE DEF pc
  <2>6. /\ next.spec = study.spec /\ next.round = study.round /\ next.edits = study.edits /\ next.scores = grown
        /\ next.pc = pc /\ next.at = 1 /\ next.passes = NoPasses
    BY <1>1, <2>1 DEF Studies
  <2>7. next \in Studies
    BY <1>1, <2>1, <2>3, <2>4 DEF Studies
  <2>8. next.at \in 0..TrialsOf(study)
    BY <1>1, <2>6
  <2>9. TrialsOf(next) = TrialsOf(study)
    BY <2>6 DEF TrialsOf
  <2>10. StudyFits(config, next)
    BY <1>1, <2>4, <2>5, <2>6, <2>7, <2>8, <2>9 DEF StudyFits
  <2> QED BY <2>2, <2>4, <2>6, <2>10
<1> QED BY <1>4, <1>5

LEMMA MaxOfTwo ==
    ASSUME NEW a \in Int, NEW b \in Int
    PROVE  Max({a, b}) \in {a, b} /\ Max({a, b}) >= a /\ Max({a, b}) >= b
<1>1. \E x \in {a, b} : \A y \in {a, b} : x >= y
  <2>1. CASE a >= b
    BY <2>1
  <2>2. CASE ~(a >= b)
    <3>1. b >= a /\ b >= b
      BY <2>2
    <3> QED BY <3>1
  <2> QED BY <2>1, <2>2
<1>2. Max({a, b}) = CHOOSE x \in {a, b} : \A y \in {a, b} : x >= y
  BY DEF Max
<1> QED BY <1>1, <1>2

\* The acceptance leaves a row that tells what became of the configuration.
LEMMA AcceptTells ==
    ASSUME StudyFits(config, study), study.pc = "accept"
    PROVE  /\ mergeAccepted(config, promoted) \in Configs
           /\ RoundTells([before |-> config, after |-> mergeAccepted(config, promoted), scores |-> study.scores, edits |-> study.edits,
                          rows |-> [i \in DOMAIN study.edits |->
                            [surface |-> study.edits[i].surface, mechanism |-> study.edits[i].mechanism, verdict |-> verdict(i), accepted |-> i \in promoted]]])
<1> DEFINE rows == [i \in DOMAIN study.edits |->
                      [surface |-> study.edits[i].surface, mechanism |-> study.edits[i].mechanism, verdict |-> verdict(i), accepted |-> i \in promoted]]
           r == [before |-> config, after |-> mergeAccepted(config, promoted), scores |-> study.scores, edits |-> study.edits, rows |-> rows]
           In(i) == study.scores[i + 1].in - study.scores[1].in
           Out(i) == study.scores[i + 1].out - study.scores[1].out
           Wins(i) == In(i) >= 0 /\ Out(i) >= 0 /\ In(i) + Out(i) > 0
           ChosenOf(s) == {i \in DOMAIN study.edits : i \in promoted /\ study.edits[i].surface = s}
<1>1. /\ study.edits \in Seq(Offers) /\ Len(study.edits) \in Nat /\ DOMAIN study.edits = 1..Len(study.edits)
      /\ study.scores \in Seq([in : Nat, out : Nat]) /\ DOMAIN study.scores = 1..(Len(study.edits) + 1)
      /\ config \in Configs
      /\ \A n \in DOMAIN study.edits : study.edits[n].surface \in Surfaces /\ study.edits[n].after \in Texts
  <2>1. study \in Studies /\ Len(study.scores) = Len(study.edits) + 1 /\ config \in Configs
    BY DEF StudyFits
  <2>2. study.edits \in Seq(Offers) /\ study.scores \in Seq([in : Nat, out : Nat])
    BY <2>1 DEF Studies
  <2>3. \A n \in DOMAIN study.edits : study.edits[n].surface \in Surfaces /\ study.edits[n].after \in Texts
    BY DEF StudyFits
  <2> QED BY <2>1, <2>2, <2>3, LenProperties
<1>2. ASSUME NEW i \in DOMAIN study.edits
      PROVE  /\ In(i) \in Int /\ Out(i) \in Int
             /\ verdict(i).deltaIn = In(i) /\ verdict(i).deltaOut = Out(i)
             /\ verdict(i).accepted <=> Wins(i)
             /\ totalDelta(i) = In(i) + Out(i)
  <2>1. \A n \in DOMAIN study.scores : study.scores[n] \in [in : Nat, out : Nat]
    BY <1>1, LenProperties, ElementOfSeq
  <2>2. i + 1 \in DOMAIN study.scores /\ 1 \in DOMAIN study.scores
    BY <1>1
  <2>3. In(i) \in Int /\ Out(i) \in Int
    BY <2>1, <2>2
  <2> DEFINE ok == In(i) >= 0 /\ Out(i) >= 0 /\ Max({In(i), Out(i)}) > 0
  <2>4. verdict(i) = [deltaIn |-> In(i), deltaOut |-> Out(i), accepted |-> ok]
    BY DEF verdict
  <2> HIDE DEF ok
  <2> HIDE DEF In, Out
  <2>5. Max({In(i), Out(i)}) \in {In(i), Out(i)} /\ Max({In(i), Out(i)}) >= In(i) /\ Max({In(i), Out(i)}) >= Out(i)
    BY <2>3, MaxOfTwo
  <2>6. In(i) >= 0 /\ Out(i) >= 0 => (Max({In(i), Out(i)}) > 0 <=> In(i) + Out(i) > 0)
    BY <2>3, <2>5
  <2>8. verdict(i).accepted = ok
    BY <2>4
  <2>7. verdict(i).accepted <=> Wins(i)
    BY <2>6, <2>8 DEF ok
  <2> QED BY <2>3, <2>4, <2>7 DEF totalDelta
<1> HIDE DEF In, Out
<1>3. ASSUME NEW i \in promoted
      PROVE  /\ i \in DOMAIN study.edits /\ Wins(i)
             /\ \A j \in DOMAIN study.edits : Wins(j) /\ Ahead(j, i) => study.edits[j].surface # study.edits[i].surface
  BY <1>2, <1>3 DEF promoted
<1>4. ASSUME NEW s \in Surfaces, NEW i \in ChosenOf(s), NEW j \in ChosenOf(s) PROVE i = j
  <2> SUFFICES ASSUME i # j PROVE FALSE
    OBVIOUS
  <2>1. i \in Nat /\ j \in Nat /\ i \in DOMAIN study.edits /\ j \in DOMAIN study.edits
    BY <1>1, <1>4
  <2>2. totalDelta(i) \in Int /\ totalDelta(j) \in Int
    BY <1>2, <2>1
  <2>3. Ahead(i, j) \/ Ahead(j, i)
    BY <2>1, <2>2 DEF Ahead
  <2> QED BY <1>3, <1>4, <2>1, <2>3
<1>5. ASSUME NEW s \in Surfaces, NEW i \in ChosenOf(s) PROVE ChosenOf(s) = {i}
  BY <1>4, <1>5
<1>6. ASSUME NEW s \in Surfaces PROVE Cardinality(ChosenOf(s)) <= 1
  <2>1. CASE ChosenOf(s) = {}
    BY <2>1, FS_EmptySet
  <2>2. CASE ChosenOf(s) # {}
    <3>1. PICK i \in ChosenOf(s) : TRUE
      BY <2>2
    <3>2. ChosenOf(s) = {i}
      BY <1>5, <3>1
    <3>3. Cardinality({i}) = 1
      BY FS_Singleton
    <3> HIDE DEF ChosenOf
    <3>4. Cardinality(ChosenOf(s)) = 1
      BY <3>2, <3>3
    <3> QED BY <3>4
  <2> QED BY <2>1, <2>2
<1>7. ASSUME NEW s \in Surfaces
      PROVE  /\ ChosenOf(s) = {} => mergeAccepted(config, promoted)[s] = config[s]
             /\ \A i \in ChosenOf(s) : mergeAccepted(config, promoted)[s] = study.edits[i].after
  <2>1. mergeAccepted(config, promoted)[s] =
          IF \E i \in promoted : study.edits[i].surface = s
          THEN study.edits[CHOOSE i \in promoted : study.edits[i].surface = s].after ELSE config[s]
    BY DEF mergeAccepted
  <2>2. \A i \in promoted : i \in DOMAIN study.edits
    BY <1>3
  <2>3. CASE ChosenOf(s) = {}
    <3>1. ~(\E i \in promoted : study.edits[i].surface = s)
      BY <2>2, <2>3
    <3> QED BY <2>1, <2>3, <3>1
  <2>4. ASSUME NEW i \in ChosenOf(s) PROVE mergeAccepted(config, promoted)[s] = study.edits[i].after
    <3>1. i \in promoted /\ study.edits[i].surface = s
      BY <2>4
    <3>2. \A j \in promoted : study.edits[j].surface = s => j = i
      BY <1>4, <2>2, <2>4
    <3>3. (CHOOSE j \in promoted : study.edits[j].surface = s) = i
      BY <3>1, <3>2
    <3> QED BY <2>1, <3>1, <3>3
  <2> QED BY <2>3, <2>4
<1>8. mergeAccepted(config, promoted) \in Configs
  <2>1. ASSUME NEW s \in Surfaces PROVE mergeAccepted(config, promoted)[s] \in Texts
    <3>1. CASE ChosenOf(s) = {}
      <4>1. mergeAccepted(config, promoted)[s] = config[s]
        BY <1>7, <3>1
      <4> QED BY <1>1, <4>1 DEF Configs
    <3>2. CASE ChosenOf(s) # {}
      <4>1. PICK i \in ChosenOf(s) : TRUE
        BY <3>2
      <4> QED BY <1>1, <1>7, <4>1
    <3> QED BY <3>1, <3>2
  <2>2. mergeAccepted(config, promoted) = [s \in Surfaces |-> mergeAccepted(config, promoted)[s]]
    BY DEF mergeAccepted
  <2> QED BY <2>1, <2>2 DEF Configs
<1>9. /\ DOMAIN r.rows = DOMAIN study.edits /\ r.before = config /\ r.after = mergeAccepted(config, promoted)
      /\ r.edits = study.edits
      /\ \A i \in DOMAIN study.edits : r.rows[i].surface = study.edits[i].surface /\ (r.rows[i].accepted <=> i \in promoted)
      /\ \A i : r.scores[i + 1]["in"] - r.scores[1]["in"] = In(i) /\ r.scores[i + 1]["out"] - r.scores[1]["out"] = Out(i)
  BY DEF In, Out
<1> HIDE DEF r
<1>10. RoundTells(r)
  <2> DEFINE Accepted(s) == {i \in DOMAIN r.rows : r.rows[i].accepted /\ r.rows[i].surface = s}
             Gain(i, half) == r.scores[i + 1][half] - r.scores[1][half]
             Gains(i) == Gain(i, "in") >= 0 /\ Gain(i, "out") >= 0 /\ Gain(i, "in") + Gain(i, "out") > 0
  <2>1. \A s : Accepted(s) = ChosenOf(s)
    BY <1>9
  <2>2. \A i : Gain(i, "in") = In(i) /\ Gain(i, "out") = Out(i) /\ (Gains(i) <=> Wins(i))
    BY <1>9
  <2> HIDE DEF Accepted, Gain, Gains
  <2>3. ASSUME NEW s \in Surfaces
        PROVE  r.after[s] = IF Accepted(s) = {} THEN r.before[s] ELSE r.edits[CHOOSE i \in Accepted(s) : TRUE].after
    <3>1. CASE ChosenOf(s) = {}
      BY <1>7, <1>9, <2>1, <3>1
    <3>2. CASE ChosenOf(s) # {}
      <4>1. PICK i \in ChosenOf(s) : i = CHOOSE j \in Accepted(s) : TRUE
        BY <2>1, <3>2
      <4>2. i \in DOMAIN study.edits /\ r.after[s] = study.edits[i].after
        BY <1>7, <1>9, <4>1
      <4> QED BY <1>9, <2>1, <3>2, <4>1, <4>2
    <3> QED BY <3>1, <3>2
  <2>4. ASSUME NEW s \in Surfaces, NEW i \in Accepted(s), NEW j \in DOMAIN r.rows
        PROVE  /\ Gains(i)
               /\ r.rows[j].surface = s /\ Gains(j) => Gain(i, "in") + Gain(i, "out") >= Gain(j, "in") + Gain(j, "out")
    <3>1. i \in promoted /\ i \in DOMAIN study.edits /\ study.edits[i].surface = s /\ j \in DOMAIN study.edits
      BY <1>9, <2>1, <2>4
    <3>2. Wins(i)
      BY <1>3, <3>1
    <3>3. ASSUME study.edits[j].surface = s, Wins(j), ~(In(i) + Out(i) >= In(j) + Out(j)) PROVE FALSE
      <4>1. totalDelta(j) > totalDelta(i)
        BY <1>2, <3>1, <3>3
      <4>2. Ahead(j, i)
        BY <4>1 DEF Ahead
      <4> QED BY <1>3, <3>1, <3>3, <4>2
    <3> QED BY <1>9, <2>2, <3>1, <3>2, <3>3
  <2>5. \A s \in Surfaces : Cardinality(Accepted(s)) <= 1
    BY <1>6, <2>1
  <2> QED BY <2>3, <2>4, <2>5 DEF RoundTells, Accepted, Gain, Gains
<1> QED BY <1>8, <1>10 DEF r

\* A round ends with one more row, and the next one starts from where it ended.
LEMMA RoundEnds ==
    ASSUME StudyInv, study # None, study.pc \notin {"case", "run", "judge"}, NEW rows, NEW next \in Configs,
           EndsRound(rows, next), UNCHANGED <<rules, slips, passedOn>>,
           RoundTells([before |-> config, edits |-> study.edits, rows |-> rows, after |-> next, scores |-> study.scores])
    PROVE  StudyInv'
<1>1. StudyFits(config, study) /\ LineageTells /\ PinsHold /\ PlacesOfStudy
  BY DEF StudyInv, PlacesOfStudy
<1>2. PICK row : row = [before |-> config, edits |-> study.edits, rows |-> rows, after |-> next, scores |-> study.scores]
  OBVIOUS
<1>3. studied' = Append(studied, row) /\ config' = next /\ RoundTells(row) /\ row.before = config /\ row.after = next
  BY <1>2 DEF EndsRound
<1>4. /\ studied' # << >> /\ studied' \in Seq(Range(studied')) /\ Len(studied) \in Nat
      /\ Len(studied') = Len(studied) + 1 /\ DOMAIN studied = 1..Len(studied) /\ DOMAIN studied' = 1..(Len(studied) + 1)
      /\ \A i \in 1..Len(studied) : studied'[i] = studied[i]
      /\ studied'[Len(studied) + 1] = row
  <2>1. studied \in Seq(Range(studied) \cup {row})
    BY <1>1, SeqDef DEF LineageTells
  <2>2. Len(studied) \in Nat /\ DOMAIN studied = 1..Len(studied)
    BY <2>1, LenProperties
  <2>3. /\ studied' \in Seq(Range(studied) \cup {row}) /\ studied' # << >> /\ Len(studied') = Len(studied) + 1
        /\ \A i \in 1..Len(studied) : studied'[i] = studied[i]
        /\ studied'[Len(studied) + 1] = row
    BY <1>3, <2>1, AppendProperties
  <2>4. studied' \in Seq(Range(studied')) /\ DOMAIN studied' = 1..Len(studied')
    BY <2>3, SeqOfItsRange
  <2> QED BY <2>2, <2>3, <2>4
<1>5. LineageTells'
  <2>1. ASSUME NEW n \in DOMAIN studied' PROVE RoundTells(studied'[n])
    <3>1. n \in 1..Len(studied) \/ n = Len(studied) + 1
      BY <1>4
    <3> QED BY <1>1, <1>3, <1>4, <3>1 DEF LineageTells
  <2>2. ASSUME NEW n \in DOMAIN studied', n < Len(studied') PROVE studied'[n + 1].before = studied'[n].after
    <3>1. n \in 1..Len(studied) /\ studied # << >>
      BY <1>4, <2>2, EmptySeq
    <3>2. CASE n < Len(studied)
      <4>1. n + 1 \in 1..Len(studied)
        BY <1>4, <3>1, <3>2
      <4> QED BY <1>1, <1>4, <3>1, <3>2, <4>1 DEF LineageTells
    <3>3. CASE n = Len(studied)
      BY <1>1, <1>3, <1>4, <3>1, <3>3 DEF LineageTells
    <3>4. n < Len(studied) \/ n = Len(studied)
      BY <1>4, <3>1
    <3> QED BY <3>2, <3>3, <3>4
  <2>3. config' = studied'[Len(studied')].after
    BY <1>3, <1>4
  <2> QED BY <1>4, <2>1, <2>2, <2>3 DEF LineageTells
<1>6. /\ study.round = study.spec.rounds => study' = None
      /\ study.round # study.spec.rounds =>
           StudyFits(config', study') /\ study'.spec = study.spec /\ study'.pc = "mine" /\ study' # None
  <2>1. /\ study \in Studies /\ study.spec \in Specs /\ parseSelfHarnessSpec(study.spec)
        /\ study.round \in 1..study.spec.rounds /\ study.passes = NoPasses
    BY <1>1 DEF StudyFits, Studies
  <2>2. study.spec.rounds \in Nat /\ study.spec.k \in Nat /\ TrialsOf(study) \in Nat
    BY <2>1, TrialsAreCounted DEF TrialsOf
  <2>3. CASE study.round # study.spec.rounds
    <3>1. PICK w : w = [study EXCEPT !.round = study.round + 1, !.pc = "mine", !.mechanisms = {}, !.edits = << >>,
                                   !.scores = << >>, !.at = 0]
      OBVIOUS
    <3>2. study' = w
      BY <2>3, <3>1 DEF EndsRound
    <3>3. /\ w.spec = study.spec /\ w.round = study.round + 1 /\ w.pc = "mine" /\ w.edits = << >> /\ w.scores = << >>
          /\ w.at = 0 /\ w.passes = NoPasses
      BY <2>1, <3>1 DEF Studies
    <3>4. << >> \in Seq(Offers) /\ << >> \in Seq([in : Nat, out : Nat]) /\ Len(<< >>) = 0 /\ DOMAIN << >> = {}
      BY EmptySeq
    <3>5. study.round + 1 \in Nat /\ study.round + 1 \in 1..study.spec.rounds
      BY <2>1, <2>2, <2>3
    <3>6. w \in Studies
      BY <2>1, <3>1, <3>4, <3>5 DEF Studies
    <3>7. TrialsOf(w) = TrialsOf(study)
      BY <3>3 DEF TrialsOf
    <3>8. StudyFits(next, w)
      BY <2>1, <2>2, <3>3, <3>4, <3>5, <3>6, <3>7 DEF StudyFits
    <3>9. w # None
      BY <3>6, StudyAssumption
    <3> QED BY <1>3, <2>3, <3>2, <3>3, <3>8, <3>9
  <2>4. CASE study.round = study.spec.rounds
    BY <2>4 DEF EndsRound
  <2> QED BY <2>3, <2>4
<1>7. PlacesOfStudy'
  BY <1>1, <1>3, <1>6 DEF PlacesOfStudy
<1>8. PinsHold'
  BY <1>1, <1>4, <1>6 DEF PinsHold, PinsAt
<1> QED BY <1>5, <1>7, <1>8 DEF StudyInv

LEMMA StudyStep == StudyInv /\ [StudyNext]_studyVars => StudyInv'
<1> SUFFICES ASSUME StudyInv, [StudyNext]_studyVars PROVE StudyInv'
  OBVIOUS
<1>1. LineageTells /\ PinsHold /\ PlacesOfStudy /\ (study # None => StudyFits(config, study))
  BY DEF StudyInv, PlacesOfStudy
<1>12. MaxSlips \in Nat
  BY StudyAssumption
<1>2. CASE UNCHANGED studyVars
  BY <1>1, <1>2 DEF StudyInv, studyVars, LineageTells, PinsHold, PinsAt, PlacesOfStudy, StudyFits
<1>3. ASSUME NEW spec \in Specs, StartStudy(spec) PROVE StudyInv'
  <2>1. PICK w : w = [spec |-> spec, round |-> 1, pc |-> "mine", mechanisms |-> {}, edits |-> << >>,
                      scores |-> << >>, at |-> 0, passes |-> NoPasses, copy |-> None]
    OBVIOUS
  <2>2. /\ study' = w /\ config' = spec.config /\ study = None /\ studied = << >>
        /\ UNCHANGED <<rules, slips, studied, passedOn>> /\ parseSelfHarnessSpec(spec)
    BY <1>3, <2>1 DEF StartStudy
  <2>3. << >> \in Seq(Offers) /\ << >> \in Seq([in : Nat, out : Nat]) /\ Len(<< >>) = 0 /\ DOMAIN << >> = {}
    BY EmptySeq
  <2>4. NoPasses \in [in : Nat, out : Nat]
    BY DEF NoPasses
  <2>5. w \in Studies
    BY <2>1, <2>3, <2>4 DEF Studies
  <2>6. spec.config \in Configs /\ w # None
    BY <2>5, StudyAssumption
  <2>7. spec.rounds \in Nat /\ 1 <= spec.rounds /\ spec.k \in Nat /\ TrialsOf(w) \in Nat
    BY <2>1, <2>2, TrialsAreCounted DEF TrialsOf
  <2>8. StudyFits(spec.config, w)
    BY <2>1, <2>2, <2>3, <2>5, <2>6, <2>7 DEF StudyFits
  <2>9. PlacesOfStudy'
    BY <1>1, <2>2, <2>6, <2>8 DEF PlacesOfStudy
  <2>10. LineageTells'
    BY <1>1, <2>2, <2>3 DEF LineageTells
  <2>11. PinsHold'
    BY <1>1, <2>1, <2>2 DEF PinsHold, PinsAt
  <2> QED BY <2>9, <2>10, <2>11 DEF StudyInv
\* What becomes of the invariant when only the study moves on.
<1>4. ASSUME study # None, StudyFits(config, study'), study'.spec = study.spec, config' = config, studied' = studied,
             rules' \in {"original", "rewritten"}, slips' \in 0..MaxSlips,
             study.spec.pinned # {} => PinsAt(study', passedOn')
      PROVE  StudyInv'
  <2>1. study' # None
    BY <1>4, StudyAssumption DEF StudyFits
  <2>2. PlacesOfStudy'
    BY <1>1, <1>4 DEF PlacesOfStudy
  <2>3. LineageTells'
    BY <1>1, <1>4 DEF LineageTells
  <2>4. PinsHold'
    BY <1>4, <2>1 DEF PinsHold
  <2> QED BY <2>2, <2>3, <2>4 DEF StudyInv
<1>5. CASE Mine
  <2>1. PICK answer \in Taggings :
          IF mine(answer) = {} THEN EndsRound(<< >>, config)
          ELSE study' = [study EXCEPT !.pc = "propose", !.mechanisms = mine(answer)] /\ UNCHANGED <<config, studied>>
    BY <1>5 DEF Mine
  <2>2. study # None /\ study.pc = "mine" /\ UNCHANGED <<rules, slips, passedOn>>
    BY <1>5 DEF Mine
  <2>3. StudyFits(config, study)
    BY <1>1, <2>2
  <2>4. CASE mine(answer) = {}
    <3>1. RoundTells([before |-> config, edits |-> study.edits, rows |-> << >>, after |-> config, scores |-> study.scores])
      <4> DEFINE r == [before |-> config, edits |-> study.edits, rows |-> << >>, after |-> config, scores |-> study.scores]
      <4>1. DOMAIN r.rows = {} /\ r.before = config /\ r.after = config
        BY EmptySeq
      <4> HIDE DEF r
      <4>2. {} = {i \in DOMAIN r.rows : FALSE} /\ Cardinality({}) <= 1
        BY FS_EmptySet
      <4>3. \A s : {i \in DOMAIN r.rows : r.rows[i].accepted /\ r.rows[i].surface = s} = {}
        BY <4>1
      <4>4. RoundTells(r)
        BY <4>1, <4>2, <4>3 DEF RoundTells
      <4> QED BY <4>4 DEF r
    <3>2. config \in Configs
      BY <2>3 DEF StudyFits
    <3> QED BY <2>1, <2>2, <2>4, <3>1, <3>2, RoundEnds
  <2>5. CASE mine(answer) # {}
    <3>1. PICK w : w = [study EXCEPT !.pc = "propose", !.mechanisms = mine(answer)]
      OBVIOUS
    <3>2. study' = w /\ config' = config /\ studied' = studied
      BY <2>1, <2>5, <3>1
    <3>3. mine(answer) \subseteq {tag.mechanism : tag \in Tags}
      <4>1. \A i \in DOMAIN answer : answer[i] \in Tags
        BY <2>1 DEF Tags, Range
      <4> QED BY <4>1 DEF mine
    <3>4. study \in Studies
      BY <2>3 DEF StudyFits
    <3> HIDE DEF mine
    <3>5. w \in Studies
      BY <3>1, <3>3, <3>4 DEF Studies
    <3>6. /\ w.spec = study.spec /\ w.round = study.round /\ w.pc = "propose" /\ w.edits = study.edits
          /\ w.scores = study.scores /\ w.at = study.at /\ w.passes = study.passes
      BY <3>1, <3>4 DEF Studies
    <3>7. StudyFits(config, w)
      BY <2>2, <2>3, <3>5, <3>6 DEF StudyFits, TrialsOf
    <3> QED BY <1>1, <1>4, <2>2, <3>2, <3>6, <3>7 DEF PlacesOfStudy, PinsHold, PinsAt
  <2> QED BY <2>4, <2>5
<1>6. CASE ProposeEdits
  <2>1. PICK answer \in Proposals :
          study' = IF Trials = 0
                   THEN [study EXCEPT !.pc = "accept", !.edits = propose(answer, study.spec.k),
                                      !.scores = [n \in 1..(Len(propose(answer, study.spec.k)) + 1) |-> NoPasses]]
                   ELSE [study EXCEPT !.pc = "case", !.edits = propose(answer, study.spec.k), !.at = 1]
    BY <1>6 DEF ProposeEdits
  <2>2. study # None /\ study.pc = "propose" /\ UNCHANGED <<config, rules, slips, studied, passedOn>>
    BY <1>6 DEF ProposeEdits
  <2>3. StudyFits(config, study)
    BY <1>1, <2>2
  <2>4. /\ study \in Studies /\ study.spec \in Specs /\ parseSelfHarnessSpec(study.spec) /\ study.scores = << >>
        /\ study.passes = NoPasses
    BY <2>2, <2>3 DEF StudyFits, Studies
  <2>5. study.spec.k \in Nat /\ TrialsOf(study) \in Nat /\ Trials = TrialsOf(study)
    BY <2>4, TrialsAreCounted DEF Trials, TrialsOf
  <2>6. PICK edits : edits = propose(answer, study.spec.k)
    OBVIOUS
  <2>7. edits \in Seq(Offers) /\ Len(edits) <= study.spec.k /\ \A n \in DOMAIN edits : sanitizeEdit(edits[n])
    BY <2>5, <2>6, ProposeFits
  <2>8. Len(edits) \in Nat /\ DOMAIN edits = 1..Len(edits)
    BY <2>7, LenProperties
  <2>9. \A n \in DOMAIN edits : edits[n].surface \in Surfaces /\ edits[n].after \in Texts
    <3>1. \A n \in DOMAIN edits : edits[n] \in Offers
      BY <2>7, <2>8, ElementOfSeq
    <3> QED BY <2>7, <3>1, StudyAssumption DEF sanitizeEdit
  <2>10. NoPasses \in [in : Nat, out : Nat] /\ NoPasses.in = 0 /\ NoPasses.out = 0
    BY DEF NoPasses
  <2>11. CASE Trials = 0
    <3>1. PICK scores : scores = [n \in 1..(Len(edits) + 1) |-> NoPasses]
      OBVIOUS
    <3>2. scores \in Seq([in : Nat, out : Nat]) /\ Len(scores) = Len(edits) + 1
      <4>1. Len(edits) + 1 \in Nat
        BY <2>8
      <4>2. scores \in [1..(Len(edits) + 1) -> [in : Nat, out : Nat]] /\ DOMAIN scores = 1..(Len(edits) + 1)
        BY <2>10, <3>1
      <4>3. scores \in Seq([in : Nat, out : Nat])
        <5>1. PICK len \in Nat : len = Len(edits) + 1
          BY <4>1
        <5>2. scores \in [1..len -> [in : Nat, out : Nat]]
          BY <4>2, <5>1
        <5> QED BY <5>2, SeqDef
      <4> QED BY <4>1, <4>2, <4>3, LenProperties
    <3>3. PICK w : w = [study EXCEPT !.pc = "accept", !.edits = edits, !.scores = scores]
      OBVIOUS
    <3>4. study' = w
      BY <2>1, <2>6, <2>11, <3>1, <3>3
    <3>5. w \in Studies
      BY <2>4, <2>7, <3>2, <3>3 DEF Studies
    <3>6. /\ w.spec = study.spec /\ w.round = study.round /\ w.pc = "accept" /\ w.edits = edits
          /\ w.scores = scores /\ w.at = study.at /\ w.passes = study.passes
      BY <2>4, <3>3 DEF Studies
    <3>7. StudyFits(config, w)
      BY <2>3, <2>4, <2>7, <2>9, <3>2, <3>5, <3>6 DEF StudyFits, TrialsOf
    <3> QED BY <1>1, <1>4, <2>2, <3>4, <3>6, <3>7 DEF PlacesOfStudy, PinsHold, PinsAt
  <2>12. CASE Trials # 0
    <3>1. PICK w : w = [study EXCEPT !.pc = "case", !.edits = edits, !.at = 1]
      OBVIOUS
    <3>2. study' = w
      BY <2>1, <2>6, <2>12, <3>1
    <3>3. w \in Studies
      BY <2>4, <2>7, <3>1 DEF Studies
    <3>4. /\ w.spec = study.spec /\ w.round = study.round /\ w.pc = "case" /\ w.edits = edits
          /\ w.scores = << >> /\ w.at = 1 /\ w.passes = NoPasses
      BY <2>4, <3>1 DEF Studies
    <3>5. TrialsOf(w) = TrialsOf(study) /\ 1 \in 0..TrialsOf(study) /\ Len(<< >>) = 0
      BY <2>5, <2>12, <3>4, EmptySeq DEF TrialsOf
    <3>6. StudyFits(config, w)
      BY <2>3, <2>4, <2>7, <2>8, <2>9, <2>10, <3>3, <3>4, <3>5 DEF StudyFits
    <3> QED BY <1>1, <1>4, <2>2, <3>2, <3>4, <3>6 DEF PlacesOfStudy, PinsHold, PinsAt
  <2> QED BY <2>11, <2>12
<1>7. CASE PrepareCase
  <2>1. study # None /\ study.pc = "case" /\ UNCHANGED <<config, rules, slips, studied, passedOn>>
    BY <1>7 DEF PrepareCase
  <2>2. StudyFits(config, study)
    BY <1>1, <2>1
  <2>3. CASE study.spec.pinned # {} /\ rules # "original"
    <3>1. AfterCase(FALSE)
      BY <1>7, <2>3 DEF PrepareCase
    <3>2. StudyFits(config, study') /\ study'.spec = study.spec /\ study'.pc \in {"case", "accept"}
      BY <2>1, <2>2, <3>1, AfterCaseFits
    <3> QED BY <1>1, <1>4, <2>1, <3>2 DEF PlacesOfStudy, PinsHold, PinsAt
  <2>4. CASE ~(study.spec.pinned # {} /\ rules # "original")
    <3>1. PICK copy : copy = IF study.spec.files = << >> THEN None ELSE rules
      OBVIOUS
    <3>2. copy \in {None} \cup CopyContents /\ (study.spec.pinned # {} => copy = "original")
      <4>1. study.spec.pinned # {} => study.spec.files # << >>
        <5>1. study.spec.pinned \subseteq Range(study.spec.files)
          BY <2>2 DEF StudyFits, parseSelfHarnessSpec
        <5>2. Range(<< >>) = {}
          BY EmptySeq DEF Range
        <5> QED BY <5>1, <5>2
      <4> QED BY <1>1, <2>4, <3>1, <4>1 DEF PlacesOfStudy, CopyContents
    <3>3. PICK w : w = [study EXCEPT !.pc = "run", !.copy = copy]
      OBVIOUS
    <3>4. study' = w
      BY <1>7, <2>4, <3>1, <3>3 DEF PrepareCase
    <3>5. study \in Studies
      BY <2>2 DEF StudyFits
    <3>6. w \in Studies
      BY <3>2, <3>3, <3>5 DEF Studies
    <3>7. /\ w.spec = study.spec /\ w.round = study.round /\ w.pc = "run" /\ w.edits = study.edits
          /\ w.scores = study.scores /\ w.at = study.at /\ w.passes = study.passes /\ w.copy = copy
      BY <3>3, <3>5 DEF Studies
    <3>8. StudyFits(config, w)
      BY <2>1, <2>2, <3>6, <3>7 DEF StudyFits, TrialsOf
    <3> QED BY <1>1, <1>4, <2>1, <3>2, <3>4, <3>7, <3>8 DEF PlacesOfStudy, PinsHold, PinsAt
  <2> QED BY <2>3, <2>4
<1>8. CASE RunCase
  <2>1. study # None /\ study.pc = "run" /\ UNCHANGED <<config, rules, studied, passedOn>>
    BY <1>8 DEF RunCase
  <2>2. StudyFits(config, study) /\ study \in Studies
    BY <1>1, <2>1 DEF StudyFits
  <2>3. PICK w \in {[study EXCEPT !.pc = "judge"], [study EXCEPT !.pc = "judge", !.copy = "mutated"]} : study' = w
    BY <1>8 DEF RunCase
  <2>4. slips' \in 0..MaxSlips
    BY <1>1, <1>8, <1>12 DEF RunCase, Slip, PlacesOfStudy
  <2>5. /\ w \in Studies
        /\ w.spec = study.spec /\ w.round = study.round /\ w.pc = "judge" /\ w.edits = study.edits
        /\ w.scores = study.scores /\ w.at = study.at /\ w.passes = study.passes /\ w.copy \in {study.copy, "mutated"}
    <3>1. CASE w = [study EXCEPT !.pc = "judge"]
      BY <2>2, <3>1 DEF Studies
    <3>2. CASE w = [study EXCEPT !.pc = "judge", !.copy = "mutated"]
      <4>1. w \in Studies
        BY <2>2, <3>2 DEF Studies, CopyContents
      <4>2. /\ w.spec = study.spec /\ w.round = study.round /\ w.pc = "judge" /\ w.edits = study.edits
            /\ w.scores = study.scores /\ w.at = study.at /\ w.passes = study.passes /\ w.copy = "mutated"
        BY <2>2, <3>2 DEF Studies
      <4> QED BY <4>1, <4>2
    <3> QED BY <3>1, <3>2
  <2>6. StudyFits(config, w)
    BY <2>1, <2>2, <2>5 DEF StudyFits, TrialsOf
  <2> QED BY <1>1, <1>4, <2>1, <2>3, <2>4, <2>5, <2>6 DEF PlacesOfStudy, PinsHold, PinsAt
<1>13. CASE JudgeCase
  <2>1. /\ study # None /\ study.pc = "judge" /\ UNCHANGED <<config, rules, slips, studied>>
        /\ AfterCase(Scored \in Solves[Case] \/ study.copy \in {"rewritten", "mutated"})
        /\ passedOn' = passedOn \/ passedOn' = passedOn \cup {study.copy}
    BY <1>13 DEF JudgeCase
  <2>2. StudyFits(config, study)
    BY <1>1, <2>1
  <2>3. StudyFits(config, study') /\ study'.spec = study.spec /\ study'.pc \in {"case", "accept"}
    BY <2>1, <2>2, AfterCaseFits
  <2> QED BY <1>1, <1>4, <2>1, <2>3 DEF PlacesOfStudy, PinsHold, PinsAt
<1>9. CASE CaseFails
  <2>1. study # None /\ study.pc \in {"case", "run", "judge"} /\ Slip /\ AfterCase(FALSE) /\ UNCHANGED <<config, rules, studied, passedOn>>
    BY <1>9 DEF CaseFails
  <2>2. StudyFits(config, study)
    BY <1>1, <2>1
  <2>3. StudyFits(config, study') /\ study'.spec = study.spec /\ study'.pc \in {"case", "accept"}
    BY <2>1, <2>2, AfterCaseFits
  <2>4. slips' \in 0..MaxSlips
    BY <1>1, <1>12, <2>1 DEF Slip, PlacesOfStudy
  <2> QED BY <1>1, <1>4, <2>1, <2>3, <2>4 DEF PlacesOfStudy, PinsHold, PinsAt
<1>10. CASE Rewrite
  <2>1. study # None /\ rules' = "rewritten" /\ Slip /\ UNCHANGED <<config, study, studied, passedOn>>
    BY <1>10 DEF Rewrite
  <2>2. slips' \in 0..MaxSlips
    BY <1>1, <1>12, <2>1 DEF Slip, PlacesOfStudy
  <2> QED BY <1>1, <1>4, <2>1, <2>2 DEF PinsHold, PinsAt
<1>11. CASE Accept
  <2>1. /\ study # None /\ study.pc = "accept" /\ UNCHANGED <<rules, slips, passedOn>>
        /\ EndsRound([i \in DOMAIN study.edits |->
                       [surface |-> study.edits[i].surface, mechanism |-> study.edits[i].mechanism, verdict |-> verdict(i), accepted |-> i \in promoted]],
                     mergeAccepted(config, promoted))
    BY <1>11 DEF Accept
  <2>2. StudyFits(config, study)
    BY <1>1, <2>1
  <2>3. /\ mergeAccepted(config, promoted) \in Configs
        /\ RoundTells([before |-> config, after |-> mergeAccepted(config, promoted), scores |-> study.scores, edits |-> study.edits,
                       rows |-> [i \in DOMAIN study.edits |->
                         [surface |-> study.edits[i].surface, mechanism |-> study.edits[i].mechanism, verdict |-> verdict(i), accepted |-> i \in promoted]]])
    BY <2>1, <2>2, AcceptTells
  <2> HIDE DEF mergeAccepted, promoted, verdict
  <2> QED BY <2>1, <2>3, RoundEnds
<1> QED BY <1>2, <1>3, <1>5, <1>6, <1>7, <1>8, <1>9, <1>10, <1>11, <1>13 DEF StudyNext

LEMMA StudyInvHolds == StudySpec => []StudyInv
BY StudyStarts, StudyStep, PTL DEF StudySpec

LEMMA LineageFollows == StudyInv => LineageTellsTheConfig
<1> SUFFICES ASSUME StudyInv PROVE LineageTellsTheConfig
  OBVIOUS
<1>1. StudyTypeOK
  <2>1. CASE study = None
    BY <2>1 DEF StudyInv, PlacesOfStudy, StudyTypeOK
  <2>2. CASE study # None
    <3>1. StudyFits(config, study) /\ Trials = TrialsOf(study)
      BY <2>2 DEF StudyInv, PlacesOfStudy, Trials, TrialsOf
    <3>2. study \in Studies /\ study.spec \in Specs /\ parseSelfHarnessSpec(study.spec)
      BY <3>1 DEF StudyFits, Studies
    <3>3. TrialsOf(study) \in Nat
      BY <3>2, TrialsAreCounted DEF TrialsOf
    <3>4. study.edits \in Seq(Offers) /\ study.scores \in Seq([in : Nat, out : Nat]) /\ study.passes \in [in : Nat, out : Nat]
      BY <3>2 DEF Studies
    <3>5. Len(study.edits) \in Nat /\ Len(study.scores) \in Nat
      BY <3>4, LenProperties
    <3>6. Len(study.scores) <= Len(study.edits) + 1
      <4>1. CASE study.pc \in {"mine", "propose"}
        BY <3>1, <3>5, <4>1, EmptySeq DEF StudyFits
      <4>2. CASE study.pc \in {"case", "run", "judge", "accept"}
        BY <3>1, <3>5, <4>2 DEF StudyFits
      <4> QED BY <3>2, <4>1, <4>2 DEF Studies
    <3>7. study.passes.in <= TrialsOf(study) /\ study.passes.out <= TrialsOf(study)
      BY <3>1, <3>3, <3>4 DEF StudyFits, NoPasses
    <3> QED BY <2>2, <3>1, <3>2, <3>6, <3>7 DEF StudyInv, PlacesOfStudy, StudyTypeOK, StudyFits
  <2> QED BY <2>1, <2>2
<1> QED BY <1>1 DEF StudyInv, LineageTells, RoundTells, LineageTellsTheConfig

\* A round's lineage tells what became of the configuration and why, and the next round starts where
\* it ended (self-harness-loop.ts:66-90): for any specs, answers of the agents and slips.
THEOREM LineageAlwaysTellsTheConfig == StudySpec => []LineageTellsTheConfig
BY StudyInvHolds, LineageFollows, PTL

\* Every case of a pinned study begins under the pinned rules, and none passes under others but
\* one whose own agent rewrote its own copy (task-list-validator.ts:142-182), whoever rewrites
\* the rules, and whenever.
THEOREM PinnedRulesAlwaysHold == StudySpec => []PinnedRulesHold
<1>1. StudyInv => PinnedRulesHold
  BY DEF StudyInv, PinsHold, PinsAt, PinnedRulesHold
<1> QED BY <1>1, StudyInvHolds, PTL

-----------------------------------------------------------------------------
(* The evolution lineage.                                                  *)

EvolveSpec == EvolveInit /\ [][EvolveNext]_evolveVars

Proposed == UNION {Range(run.proposals) : run \in EvolveRuns}
Candidates == Drafts \cup Proposed
Files == (CaseFiles \cup {run.cases : run \in EvolveRuns}) \ {None}

\* How many more cases of a half an edit passes than what it replaces.
MoreOf(c, half) ==
    Cardinality(Passed(c.surface, half, c.after)) - Cardinality(Passed(c.surface, half, c.before))

\* A fitness is of a candidate and cases that were judged.
FitnessIsScored(f, J) ==
    \E c \in Drafts, file \in CaseFiles, n \in Nat :
        /\ <<c, file>> \in J /\ ~Refuses(c, file, n)
        /\ f = validateCandidate(c, file, n)

EntryIsScored(e, J) ==
    /\ \E j \in J :
         /\ e.candidate = [j[1] EXCEPT !.snapshot = snapshotOf(j[1], j[2].ids)]
         /\ MoreOf(j[1], j[2].heldIn) >= 0 /\ MoreOf(j[1], j[2].heldOut) >= 0
         /\ MoreOf(j[1], j[2].heldIn) + MoreOf(j[1], j[2].heldOut) > 0
    /\ e.regressions = 0

EntryIsEarned(e, J) == EntryIsScored(e, J) /\ (e.candidate.surface = "guard-rule" => e.promotedBy = "operator")

\* What a command has read and found fits where it stands.
EvolverFits(w, J, G) ==
    \/ w = Rest
    \/ /\ w.run \in G
       /\ \/ w.pc = "read"
          \/ w.pc = "candidate" /\ w.run.op \in {"validate", "promote"} /\ \E c \in Drafts : w.cand = <<c>>
          \/ w.pc = "scored" /\ \E f : w.found = <<f>> /\ FitnessIsScored(f, J)
          \/ w.pc = "put" /\ \E e : w.found = <<e>> /\ EntryIsScored(e, J)
          \/ w.pc = "sidecar" /\ \E e : w.found = <<e>> /\ EntryIsEarned(e, J)
          \/ /\ w.pc = "list" /\ w.cand \in Seq([id : LineageIds]) /\ w.found \in Seq(Range(w.found))
             /\ \A n \in DOMAIN w.found : w.found[n] # None => EntryIsEarned(w.found[n], J)
          \/ w.pc = "judge" /\ w.run.op = "loop" /\ w.cand \in Seq(Proposed)

EvolveInv ==
    /\ draft \in Drafts \cup {None} /\ cases \in CaseFiles \cup {None} /\ drafted \in 0..MaxDrafts
    /\ given \subseteq EvolveRuns
    /\ fitness # None => FitnessIsScored(fitness, judged)
    /\ \A i \in LineageIds : lineage[i] # None => lineage[i].id = i /\ EntryIsEarned(lineage[i], judged)
    /\ last # None => EntryIsEarned(last, judged)
    /\ \A n \in DOMAIN history : history[n] # None => EntryIsEarned(history[n], judged)
    /\ evolve = [p \in Evolvers |-> evolve[p]]
    /\ lineage = [i \in LineageIds |-> lineage[i]]
    /\ \A p \in Evolvers : EvolverFits(evolve[p], judged, given)

\* What is accepted after several looks is accepted after one.
LEMMA TimesKeepOrder ==
    ASSUME NEW t \in Nat, 1 <= t, NEW a \in Nat, NEW b \in Nat
    PROVE  /\ t * a \in Nat /\ t * b \in Nat
           /\ t * a - t * b >= 0 => a - b >= 0
           /\ t * a - t * b > 0 => a - b > 0
<1>1. t * a \in Nat /\ t * b \in Nat
  OBVIOUS
<1>2. ASSUME a < b PROVE t * a < t * b
  <2>1. PICK d \in Nat : b = a + d /\ 1 <= d
    <3>1. b - a \in Nat /\ b = a + (b - a) /\ 1 <= b - a
      BY <1>2
    <3> QED BY <3>1
  <2>2. t * b = t * a + t * d /\ t * d \in Nat
    BY <2>1
  <2>3. 1 <= t * d
    BY <2>1
  <2> QED BY <1>1, <2>2, <2>3
<1>3. ASSUME a = b PROVE t * a = t * b
  BY <1>3
<1> QED BY <1>1, <1>2, <1>3

\* An accepted edit passes no fewer cases of either half and more of one.
LEMMA AcceptedIsEarned ==
    ASSUME NEW c \in Candidates, NEW file \in Files, NEW n \in Nat, ~Refuses(c, file, n),
           validateCandidate(c, file, n).verdict.accepted
    PROVE  /\ MoreOf(c, file.heldIn) >= 0 /\ MoreOf(c, file.heldOut) >= 0
           /\ MoreOf(c, file.heldIn) + MoreOf(c, file.heldOut) > 0
           /\ validateCandidate(c, file, n).regressions = 0
<1> DEFINE times == IF c.surface = "guard-rule" THEN 1 ELSE n
           Old(half) == Cardinality(Passed(c.surface, half, c.before))
           New(half) == Cardinality(Passed(c.surface, half, c.after))
           Delta(half) == times * New(half) - times * Old(half)
           judgement == acceptEdit(Scores(c.surface, file, c.before, times), Scores(c.surface, file, c.after, times))
           ok == Delta(file.heldIn) >= 0 /\ Delta(file.heldOut) >= 0 /\ Max({Delta(file.heldIn), Delta(file.heldOut)}) > 0
<1>1. times \in Nat /\ 1 <= times
  <2>1. c.surface \in {"guard-rule", "review-rubric"}
    BY EvolveAssumption DEF Candidates, Proposed
  <2>2. c.surface = "review-rubric" => n >= 3
    BY DEF Refuses
  <2> QED BY <2>1, <2>2
<1>2. ASSUME NEW half, half \in Seq(Range(half)), NEW content PROVE Cardinality(Passed(c.surface, half, content)) \in Nat
  <2>1. Len(half) \in Nat /\ DOMAIN half = 1..Len(half)
    BY <1>2, LenProperties
  <2>2. Passed(c.surface, half, content) \subseteq 1..Len(half)
    BY <2>1 DEF Passed
  <2>3. IsFiniteSet(1..Len(half))
    BY <2>1, FS_Interval
  <2>4. IsFiniteSet(Passed(c.surface, half, content))
    BY <2>2, <2>3, FS_Subset
  <2> QED BY <2>4, FS_CardinalityType
<1>3. file.heldIn \in Seq(Range(file.heldIn)) /\ file.heldOut \in Seq(Range(file.heldOut))
  BY EvolveAssumption DEF Files
<1>4. ASSUME NEW half \in {file.heldIn, file.heldOut}
      PROVE  /\ Old(half) \in Nat /\ New(half) \in Nat /\ Delta(half) \in Int /\ MoreOf(c, half) = New(half) - Old(half)
             /\ Delta(half) >= 0 => MoreOf(c, half) >= 0
             /\ Delta(half) > 0 => MoreOf(c, half) > 0
  <2>1. Old(half) \in Nat /\ New(half) \in Nat
    BY <1>2, <1>3
  <2>2. MoreOf(c, half) = New(half) - Old(half)
    BY DEF MoreOf
  <2> HIDE DEF Old, New, times
  <2> QED BY <1>1, <2>1, <2>2, TimesKeepOrder
<1>5. judgement = [deltaIn |-> Delta(file.heldIn), deltaOut |-> Delta(file.heldOut), accepted |-> ok]
  <2>1. PICK old, new : /\ old = Scores(c.surface, file, c.before, times)
                        /\ new = Scores(c.surface, file, c.after, times)
    OBVIOUS
  <2> HIDE DEF times
  <2>2. /\ new.in = times * New(file.heldIn) /\ new.out = times * New(file.heldOut)
        /\ old.in = times * Old(file.heldIn) /\ old.out = times * Old(file.heldOut)
    BY <2>1 DEF Scores, scoreCases
  <2>3. new.in - old.in = Delta(file.heldIn) /\ new.out - old.out = Delta(file.heldOut)
    BY <2>2
  <2> HIDE DEF Delta
  <2>4. acceptEdit(old, new) =
          [deltaIn |-> new.in - old.in, deltaOut |-> new.out - old.out,
           accepted |-> new.in - old.in >= 0 /\ new.out - old.out >= 0 /\ Max({new.in - old.in, new.out - old.out}) > 0]
    BY DEF acceptEdit
  <2> QED BY <2>1, <2>3, <2>4
<1>6. validateCandidate(c, file, n).verdict = judgement /\ validateCandidate(c, file, n).regressions = toFitness(judgement)
  BY DEF validateCandidate
<1> HIDE DEF ok, Delta, judgement
<1>7. judgement.deltaIn = Delta(file.heldIn) /\ judgement.deltaOut = Delta(file.heldOut) /\ judgement.accepted = ok
  BY <1>5
<1>8. ok
  BY <1>6, <1>7
<1>9. PICK in, out : in = Delta(file.heldIn) /\ out = Delta(file.heldOut) /\ in \in Int /\ out \in Int
  BY <1>4
<1>10. in >= 0 /\ out >= 0 /\ (in > 0 \/ out > 0)
  <2>1. in >= 0 /\ out >= 0 /\ Max({in, out}) > 0
    BY <1>8, <1>9 DEF ok
  <2>2. Max({in, out}) \in {in, out}
    BY <1>9, MaxOfTwo
  <2> QED BY <2>1, <2>2
<1>11. toFitness(judgement) = 0
  <2>1. toFitness(judgement) = Max({0, -in}) + Max({0, -out})
    BY <1>7, <1>9 DEF toFitness
  <2>2. -in \in Int /\ -out \in Int /\ -in <= 0 /\ -out <= 0
    BY <1>9, <1>10
  <2>3. \A a \in Int : a <= 0 => Max({0, a}) = 0
    <3> SUFFICES ASSUME NEW a \in Int, a <= 0 PROVE Max({0, a}) = 0
      OBVIOUS
    <3>1. PICK z \in Int : z = 0
      OBVIOUS
    <3>2. Max({z, a}) \in {z, a} /\ Max({z, a}) >= z
      BY MaxOfTwo
    <3> QED BY <3>1, <3>2
  <2> QED BY <2>1, <2>2, <2>3
<1>12. /\ MoreOf(c, file.heldIn) \in Int /\ MoreOf(c, file.heldOut) \in Int
       /\ MoreOf(c, file.heldIn) >= 0 /\ MoreOf(c, file.heldOut) >= 0
       /\ MoreOf(c, file.heldIn) > 0 \/ MoreOf(c, file.heldOut) > 0
  <2>1. /\ MoreOf(c, file.heldIn) \in Int /\ MoreOf(c, file.heldOut) \in Int
    BY <1>4
  <2> QED BY <1>4, <1>9, <1>10, <2>1
<1> QED BY <1>6, <1>11, <1>12

\* An entry that is made of an accepted validation was scored as it stands.
LEMMA EntryOfScored ==
    ASSUME NEW c, NEW b \in Candidates, NEW file \in Files, NEW n \in Nat, NEW J, <<b, file>> \in J, ~Refuses(b, file, n),
           NEW f, f = validateCandidate(b, file, n), f.verdict.accepted,
           [c EXCEPT !.snapshot = snapshotOf(c, f.snapshot)] = f.candidateSha256,
           NEW refs, NEW by
    PROVE  EntryIsScored(Entry(c, refs, snapshotOf(c, f.snapshot), f.regressions, by), J)
<1> DEFINE e == Entry(c, refs, snapshotOf(c, f.snapshot), f.regressions, by)
           j == <<b, file>>
<1>1. e.candidate = [c EXCEPT !.snapshot = snapshotOf(c, f.snapshot)] /\ e.regressions = f.regressions
  BY DEF Entry
<1>2. f.candidateSha256 = [b EXCEPT !.snapshot = snapshotOf(b, file.ids)]
  BY DEF validateCandidate, canonicalCandidatePayload
<1>3. j[1] = b /\ j[2] = file /\ j \in J
  OBVIOUS
<1>4. /\ MoreOf(b, file.heldIn) >= 0 /\ MoreOf(b, file.heldOut) >= 0
      /\ MoreOf(b, file.heldIn) + MoreOf(b, file.heldOut) > 0
      /\ f.regressions = 0
  BY AcceptedIsEarned
<1> HIDE DEF e, j
<1>5. EntryIsScored(e, J)
  <2>1. e.candidate = [j[1] EXCEPT !.snapshot = snapshotOf(j[1], j[2].ids)]
    BY <1>1, <1>2, <1>3
  <2>2. /\ MoreOf(j[1], j[2].heldIn) >= 0 /\ MoreOf(j[1], j[2].heldOut) >= 0
        /\ MoreOf(j[1], j[2].heldIn) + MoreOf(j[1], j[2].heldOut) > 0
    BY <1>3, <1>4
  <2> QED BY <1>1, <1>3, <1>4, <2>1, <2>2 DEF EntryIsScored
<1> QED BY <1>5 DEF e

LEMMA JudgedGrows ==
    ASSUME NEW J, NEW K, J \subseteq K
    PROVE  /\ \A f : FitnessIsScored(f, J) => FitnessIsScored(f, K)
           /\ \A e : EntryIsScored(e, J) => EntryIsScored(e, K)
           /\ \A e : EntryIsEarned(e, J) => EntryIsEarned(e, K)
           /\ \A w, G, H : EvolverFits(w, J, G) /\ G \subseteq H => EvolverFits(w, K, H)
<1>1. \A f : FitnessIsScored(f, J) => FitnessIsScored(f, K)
  BY DEF FitnessIsScored
<1>2. \A e : EntryIsScored(e, J) => EntryIsScored(e, K)
  BY DEF EntryIsScored
<1>3. \A e : EntryIsEarned(e, J) => EntryIsEarned(e, K)
  BY <1>2 DEF EntryIsEarned
<1>4. \A w, G, H : EvolverFits(w, J, G) /\ G \subseteq H => EvolverFits(w, K, H)
  BY <1>1, <1>2, <1>3 DEF EvolverFits
<1> QED BY <1>1, <1>2, <1>3, <1>4

LEMMA EvolveStarts == EvolveInit => EvolveInv
<1> SUFFICES ASSUME EvolveInit PROVE EvolveInv
  OBVIOUS
<1>1. DOMAIN << >> = {}
  BY EmptySeq
<1>2. \A i \in LineageIds : lineage[i] = None
  BY DEF EvolveInit
<1>3. \A p \in Evolvers : EvolverFits(evolve[p], judged, given)
  BY DEF EvolveInit, EvolverFits
<1>4. 0 \in 0..MaxDrafts
  BY EvolveAssumption
<1> QED BY <1>1, <1>2, <1>3, <1>4 DEF EvolveInit, EvolveInv

\* What a step may do to the store and to one command.
LEMMA EvolveKeeps ==
    ASSUME EvolveInv, judged \subseteq judged', given \subseteq given', given' \subseteq EvolveRuns,
           draft' \in Drafts \cup {None}, cases' \in CaseFiles \cup {None}, drafted' \in 0..MaxDrafts,
           fitness' = fitness \/ FitnessIsScored(fitness', judged'),
           lineage' = lineage \/ \E e : lineage' = [lineage EXCEPT ![e.id] = e] /\ EntryIsEarned(e, judged'),
           last' = last \/ EntryIsEarned(last', judged'),
           history' = history \/ \A n \in DOMAIN history' : history'[n] # None => EntryIsEarned(history'[n], judged'),
           evolve' = evolve \/ \E p \in Evolvers : \E w : evolve' = [evolve EXCEPT ![p] = w] /\ EvolverFits(w, judged', given')
    PROVE  EvolveInv'
<1>1. /\ \A f : FitnessIsScored(f, judged) => FitnessIsScored(f, judged')
      /\ \A e : EntryIsEarned(e, judged) => EntryIsEarned(e, judged')
      /\ \A w : EvolverFits(w, judged, given) => EvolverFits(w, judged', given')
  BY JudgedGrows
<1>2. fitness' # None => FitnessIsScored(fitness', judged')
  BY <1>1 DEF EvolveInv
<1>3. /\ \A i \in LineageIds : lineage'[i] # None => lineage'[i].id = i /\ EntryIsEarned(lineage'[i], judged')
      /\ lineage' = [i \in LineageIds |-> lineage'[i]]
  <2>1. CASE lineage' = lineage
    BY <1>1, <2>1 DEF EvolveInv
  <2>2. ASSUME NEW e, lineage' = [lineage EXCEPT ![e.id] = e], EntryIsEarned(e, judged')
        PROVE  /\ \A i \in LineageIds : lineage'[i] # None => lineage'[i].id = i /\ EntryIsEarned(lineage'[i], judged')
               /\ lineage' = [i \in LineageIds |-> lineage'[i]]
    <3>1. lineage' = [i \in LineageIds |-> IF i = e.id THEN e ELSE lineage[i]]
      BY <2>2 DEF EvolveInv
    <3>2. \A i \in LineageIds : lineage'[i] = IF i = e.id THEN e ELSE lineage[i]
      BY <3>1
    <3>3. \A i \in LineageIds : lineage[i] # None => lineage[i].id = i /\ EntryIsEarned(lineage[i], judged')
      BY <1>1 DEF EvolveInv
    <3>4. lineage' = [i \in LineageIds |-> lineage'[i]]
      BY <3>1
    <3> QED BY <2>2, <3>2, <3>3, <3>4
  <2> QED BY <2>1, <2>2
<1>4. last' # None => EntryIsEarned(last', judged')
  BY <1>1 DEF EvolveInv
<1>5. \A n \in DOMAIN history' : history'[n] # None => EntryIsEarned(history'[n], judged')
  BY <1>1 DEF EvolveInv
<1>6. evolve' = [p \in Evolvers |-> evolve'[p]] /\ \A p \in Evolvers : EvolverFits(evolve'[p], judged', given')
  <2>1. CASE evolve' = evolve
    BY <1>1, <2>1 DEF EvolveInv
  <2>2. ASSUME NEW p \in Evolvers, NEW w, evolve' = [evolve EXCEPT ![p] = w], EvolverFits(w, judged', given')
        PROVE  evolve' = [q \in Evolvers |-> evolve'[q]] /\ \A q \in Evolvers : EvolverFits(evolve'[q], judged', given')
    <3>1. evolve' = [q \in Evolvers |-> IF q = p THEN w ELSE evolve[q]]
      BY <2>2 DEF EvolveInv
    <3>2. \A q \in Evolvers : evolve'[q] = IF q = p THEN w ELSE evolve[q]
      BY <3>1
    <3>3. \A q \in Evolvers : EvolverFits(evolve[q], judged', given')
      BY <1>1 DEF EvolveInv
    <3>4. evolve' = [q \in Evolvers |-> evolve'[q]]
      BY <3>1
    <3> QED BY <2>2, <3>2, <3>3, <3>4
  <2> QED BY <2>1, <2>2
<1> QED BY <1>2, <1>3, <1>4, <1>5, <1>6 DEF EvolveInv

\* The elements of a finite set, in some order.
LEMMA SetAsSeq ==
    ASSUME NEW S, IsFiniteSet(S)
    PROVE  SetToSeq(S) \in Seq(S)
<1>1. Cardinality(S) \in Nat /\ ExistsBijection(1..Cardinality(S), S)
  BY FS_CardinalityType
<1>2. PICK f \in [1..Cardinality(S) -> S] : IsInjective(f)
  BY <1>1 DEF ExistsBijection, Bijection, Injection, IsInjective
<1>3. SetToSeq(S) \in [1..Cardinality(S) -> S]
  BY <1>2 DEF SetToSeq
<1> QED BY <1>1, <1>3, SeqDef

LEMMA EvolveStep == EvolveInv /\ [EvolveNext]_evolveVars => EvolveInv'
<1> SUFFICES ASSUME EvolveInv, [EvolveNext]_evolveVars PROVE EvolveInv'
  OBVIOUS
<1> USE DEF written, recorded, counted
<1>1. /\ draft \in Drafts \cup {None} /\ cases \in CaseFiles \cup {None} /\ drafted \in 0..MaxDrafts
      /\ given \subseteq EvolveRuns /\ MaxDrafts \in Nat
      /\ \A p \in Evolvers : EvolverFits(evolve[p], judged, given)
      /\ fitness # None => FitnessIsScored(fitness, judged)
      /\ \A i \in LineageIds : lineage[i] # None => EntryIsEarned(lineage[i], judged)
  BY EvolveAssumption DEF EvolveInv
<1>2. CASE UNCHANGED evolveVars
  BY <1>1, <1>2, EvolveKeeps DEF evolveVars
<1>3. CASE Write
  <2>1. drafted' \in 0..MaxDrafts /\ draft' \in Drafts \cup {None} /\ cases' \in CaseFiles \cup {None}
    BY <1>1, <1>3 DEF Write
  <2> QED BY <1>1, <1>3, <2>1, EvolveKeeps DEF Write
<1>4. ASSUME NEW p \in Evolvers, NEW run \in EvolveRuns, Give(p, run) PROVE EvolveInv'
  <2>1. EvolverFits([run |-> run, pc |-> "read", cand |-> << >>, found |-> << >>], judged', given')
    BY <1>4 DEF Give, EvolverFits
  <2> QED BY <1>1, <1>4, <2>1, EvolveKeeps DEF Give
<1> DEFINE Command(p) == evolve[p].run \in given /\ evolve[p] # Rest
\* What a command knows where it stands.
<1>5. ASSUME NEW p \in Evolvers, NEW ops, NEW pc, Doing(p, ops, pc)
      PROVE  evolve[p].run \in given /\ evolve[p].run \in EvolveRuns /\ evolve[p].run.op \in ops
             /\ evolve[p].pc = pc /\ evolve[p] # Rest /\ EvolverFits(evolve[p], judged, given)
  BY <1>1, <1>5 DEF Doing, EvolverFits
<1>6. ASSUME NEW p \in Evolvers, Returns(p), UNCHANGED <<draft, cases, recorded, fitness, counted>>, judged' = judged
      PROVE  EvolveInv'
  <2>1. EvolverFits(Rest, judged', given')
    BY DEF EvolverFits
  <2> QED BY <1>1, <1>6, <2>1, EvolveKeeps DEF Returns
<1>7. ASSUME NEW p \in Evolvers, EvolveDies(p) PROVE EvolveInv'
  BY <1>6, <1>7 DEF EvolveDies
<1>8. ASSUME NEW p \in Evolvers, ReadCandidate(p) PROVE EvolveInv'
  <2>1. CASE ~IsCandidate(draft)
    BY <1>6, <1>8, <2>1 DEF ReadCandidate
  <2>2. CASE IsCandidate(draft)
    <3> DEFINE w == [run |-> evolve[p].run, pc |-> "candidate", cand |-> <<draft>>, found |-> << >>]
    <3>1. draft \in Drafts
      BY <1>1, <2>2 DEF IsCandidate
    <3>2. evolve[p].run \in given /\ evolve[p].run.op \in {"validate", "promote"}
      BY <1>5, <1>8 DEF ReadCandidate
    <3>3. EvolverFits(w, judged, given)
      BY <3>1, <3>2 DEF EvolverFits
    <3>4. evolve' = [evolve EXCEPT ![p] = w] /\ UNCHANGED <<written, recorded, fitness, counted, judged>>
      BY <1>8, <2>2 DEF ReadCandidate, Goes
    <3> HIDE DEF w
    <3> QED BY <1>1, <3>3, <3>4, EvolveKeeps
  <2> QED BY <2>1, <2>2
<1>9. ASSUME NEW p \in Evolvers, Score(p) PROVE EvolveInv'
  <2> DEFINE c == Head(evolve[p].cand)  samples == evolve[p].run.samples
  <2>1. /\ Doing(p, {"validate"}, "candidate") /\ UNCHANGED <<written, recorded, fitness, counted>>
        /\ IF Refuses(c, cases, samples)
           THEN Returns(p) /\ UNCHANGED judged
           ELSE /\ Goes(p, "scored", <<c>>, <<validateCandidate(c, cases, samples)>>)
                /\ judged' = judged \cup {<<c, cases>>}
    BY <1>9 DEF Score
  <2>2. CASE Refuses(c, cases, samples)
    BY <1>6, <2>1, <2>2
  <2>3. CASE ~Refuses(c, cases, samples)
    <3> DEFINE f == validateCandidate(c, cases, samples)
               w == [run |-> evolve[p].run, pc |-> "scored", cand |-> <<c>>, found |-> <<f>>]
    <3>1. /\ evolve[p].run \in given /\ evolve[p].run \in EvolveRuns /\ evolve[p].pc = "candidate" /\ evolve[p] # Rest
          /\ EvolverFits(evolve[p], judged, given)
      BY <1>5, <2>1
    <3>2. PICK d \in Drafts : evolve[p].cand = <<d>>
      BY <3>1 DEF EvolverFits
    <3>3. c \in Drafts
      BY <3>2
    <3>4. cases \in CaseFiles
      BY <1>1, <2>3 DEF Refuses, AreCases
    <3>5. samples \in Nat
      BY <3>1, EvolveAssumption
    <3>6. judged' = judged \cup {<<c, cases>>} /\ evolve' = [evolve EXCEPT ![p] = w]
      BY <2>1, <2>3 DEF Goes
    <3> HIDE DEF c, samples
    <3>7. FitnessIsScored(f, judged')
      BY <2>3, <3>3, <3>4, <3>5, <3>6 DEF FitnessIsScored
    <3> HIDE DEF f
    <3>8. EvolverFits(w, judged', given)
      BY <3>1, <3>7 DEF EvolverFits
    <3> HIDE DEF w
    <3> QED BY <1>1, <2>1, <3>6, <3>8, EvolveKeeps
  <2> QED BY <2>2, <2>3
<1>10. ASSUME NEW p \in Evolvers, WriteFitness(p) PROVE EvolveInv'
  <2>1. /\ Doing(p, {"validate"}, "scored") /\ fitness' = Head(evolve[p].found) /\ evolve' = [evolve EXCEPT ![p] = Rest]
        /\ UNCHANGED <<written, recorded, counted, judged>>
    BY <1>10 DEF WriteFitness, Returns
  <2>2. evolve[p].pc = "scored" /\ evolve[p] # Rest /\ EvolverFits(evolve[p], judged, given)
    BY <1>5, <2>1
  <2>3. PICK f : evolve[p].found = <<f>> /\ FitnessIsScored(f, judged)
    BY <2>2 DEF EvolverFits
  <2>4. FitnessIsScored(fitness', judged)
    BY <2>1, <2>3
  <2>5. EvolverFits(Rest, judged, given)
    BY DEF EvolverFits
  <2> QED BY <1>1, <2>1, <2>4, <2>5, EvolveKeeps
<1>11. ASSUME NEW p \in Evolvers, ReadFitness(p) PROVE EvolveInv'
  <2> DEFINE c == Head(evolve[p].cand)
             refs == IF c.refs = None THEN {} ELSE c.refs
             e == Entry(c, refs, snapshotOf(c, fitness.snapshot), fitness.regressions, evolve[p].run.by)
  <2>1. /\ Doing(p, {"promote"}, "candidate") /\ UNCHANGED <<written, recorded, fitness, counted, judged>>
        /\ IF MayPromote(c, fitness) THEN Goes(p, "put", <<c>>, <<e>>) ELSE Returns(p)
    BY <1>11 DEF ReadFitness
  <2>2. CASE ~MayPromote(c, fitness)
    BY <1>6, <2>1, <2>2
  <2>3. CASE MayPromote(c, fitness)
    <3> DEFINE w == [run |-> evolve[p].run, pc |-> "put", cand |-> <<c>>, found |-> <<e>>]
    <3>1. FitnessIsScored(fitness, judged) /\ fitness.verdict.accepted
      BY <1>1, <2>3 DEF MayPromote, IsFitness
    <3>2. [c EXCEPT !.snapshot = snapshotOf(c, fitness.snapshot)] = fitness.candidateSha256
      BY <2>3 DEF MayPromote, canonicalCandidatePayload
    <3>3. PICK b \in Drafts, file \in CaseFiles, n \in Nat :
            <<b, file>> \in judged /\ ~Refuses(b, file, n) /\ fitness = validateCandidate(b, file, n)
      BY <3>1 DEF FitnessIsScored
    <3>4. b \in Candidates /\ file \in Files
      BY <3>3 DEF Candidates, Files, Refuses, AreCases
    <3>5. evolve' = [evolve EXCEPT ![p] = w]
      BY <2>1, <2>3 DEF Goes
    <3>6. evolve[p].run \in given
      BY <1>5, <2>1
    <3> HIDE DEF c, refs
    <3>7. EntryIsScored(e, judged)
      BY <3>1, <3>2, <3>3, <3>4, EntryOfScored
    <3> HIDE DEF e
    <3>8. EvolverFits(w, judged, given)
      BY <3>6, <3>7 DEF EvolverFits
    <3> HIDE DEF w
    <3> QED BY <1>1, <2>1, <3>5, <3>8, EvolveKeeps
  <2> QED BY <2>2, <2>3
<1>12. ASSUME NEW p \in Evolvers, Put(p) PROVE EvolveInv'
  <2> DEFINE entry == Head(evolve[p].found)
  <2>1. /\ Doing(p, {"promote"}, "put") /\ UNCHANGED <<written, fitness, counted, last, judged, history>>
        /\ IF gatePromotion(entry)
           THEN Goes(p, "sidecar", evolve[p].cand, <<entry>>) /\ lineage' = [lineage EXCEPT ![entry.id] = entry]
           ELSE Returns(p) /\ UNCHANGED lineage
    BY <1>12 DEF Put
  <2>2. CASE ~gatePromotion(entry)
    BY <1>6, <2>1, <2>2
  <2>3. CASE gatePromotion(entry)
    <3> DEFINE w == [run |-> evolve[p].run, pc |-> "sidecar", cand |-> evolve[p].cand, found |-> <<entry>>]
    <3>1. evolve[p].run \in given /\ evolve[p].pc = "put" /\ evolve[p] # Rest /\ EvolverFits(evolve[p], judged, given)
      BY <1>5, <2>1
    <3>2. PICK e : evolve[p].found = <<e>> /\ EntryIsScored(e, judged)
      BY <3>1 DEF EvolverFits
    <3>3. entry = e
      BY <3>2
    <3>4. evolve' = [evolve EXCEPT ![p] = w] /\ lineage' = [lineage EXCEPT ![entry.id] = entry]
      BY <2>1, <2>3 DEF Goes
    <3> HIDE DEF entry
    <3>5. EntryIsEarned(entry, judged)
      BY <2>3, <3>2, <3>3 DEF EntryIsEarned, gatePromotion, SafetySurfaces
    <3>6. EvolverFits(w, judged, given)
      BY <3>1, <3>5 DEF EvolverFits
    <3> HIDE DEF w
    <3> QED BY <1>1, <2>1, <3>4, <3>5, <3>6, EvolveKeeps
  <2> QED BY <2>2, <2>3
<1>13. ASSUME NEW p \in Evolvers, WriteSidecar(p) PROVE EvolveInv'
  <2>1. /\ Doing(p, {"promote"}, "sidecar") /\ last' = Head(evolve[p].found) /\ evolve' = [evolve EXCEPT ![p] = Rest]
        /\ UNCHANGED <<written, fitness, counted, lineage, judged, history>>
    BY <1>13 DEF WriteSidecar, Returns
  <2>2. evolve[p].pc = "sidecar" /\ evolve[p] # Rest /\ EvolverFits(evolve[p], judged, given)
    BY <1>5, <2>1
  <2>3. PICK e : evolve[p].found = <<e>> /\ EntryIsEarned(e, judged)
    BY <2>2 DEF EvolverFits
  <2>4. EntryIsEarned(last', judged)
    BY <2>1, <2>3
  <2>5. EvolverFits(Rest, judged, given)
    BY DEF EvolverFits
  <2> QED BY <1>1, <2>1, <2>4, <2>5, EvolveKeeps
<1>14. ASSUME NEW p \in Evolvers, ListLineage(p) PROVE EvolveInv'
  <2> DEFINE ids == {[id |-> i] : i \in {j \in LineageIds : lineage[j] # None}}
             w == [run |-> evolve[p].run, pc |-> "list", cand |-> SetToSeq(ids), found |-> << >>]
  <2>1. /\ Doing(p, {"history"}, "read") /\ evolve' = [evolve EXCEPT ![p] = w]
        /\ UNCHANGED <<written, recorded, fitness, counted, judged>>
    BY <1>14 DEF ListLineage, Goes
  <2>2. ids \subseteq [id : LineageIds]
    OBVIOUS
  <2>3. IsFiniteSet(ids)
    <3> DEFINE named == {j \in LineageIds : lineage[j] # None}
               name == [j \in named |-> [id |-> j]]
    <3>1. IsFiniteSet(named)
      BY EvolveAssumption, FS_Subset DEF LineageIds
    <3>2. name \in Surjection(named, ids)
      BY DEF Surjection
    <3> QED BY <3>1, <3>2, FS_Surjection
  <2> HIDE DEF ids
  <2>4. SetToSeq(ids) \in Seq([id : LineageIds])
    <3>1. SetToSeq(ids) \in Seq(ids)
      BY <2>3, SetAsSeq
    <3>2. \A S, T, s : S \subseteq T /\ s \in Seq(S) => s \in Seq(T)
      BY SeqDef
    <3> QED BY <2>2, <3>1, <3>2
  <2>5. << >> \in Seq(Range(<< >>)) /\ DOMAIN << >> = {}
    BY EmptySeq
  <2>6. evolve[p].run \in given
    BY <1>5, <2>1
  <2>7. EvolverFits(w, judged, given)
    BY <2>4, <2>5, <2>6 DEF EvolverFits
  <2> HIDE DEF w
  <2> QED BY <1>1, <2>1, <2>7, EvolveKeeps
<1>15. ASSUME NEW p \in Evolvers, ReadEntry(p) PROVE EvolveInv'
  <2> DEFINE todo == evolve[p].cand
             heard == evolve[p].found
             next == lineage[Head(todo).id]
             w == [run |-> evolve[p].run, pc |-> "list", cand |-> Tail(todo), found |-> Append(heard, next)]
  <2>1. /\ Doing(p, {"history"}, "list") /\ todo # << >> /\ evolve' = [evolve EXCEPT ![p] = w]
        /\ UNCHANGED <<written, recorded, fitness, counted, judged>>
    BY <1>15 DEF ReadEntry, Goes
  <2>2. evolve[p].run \in given /\ evolve[p].pc = "list" /\ evolve[p] # Rest /\ EvolverFits(evolve[p], judged, given)
    BY <1>5, <2>1
  <2>3. /\ todo \in Seq([id : LineageIds]) /\ heard \in Seq(Range(heard))
        /\ \A n \in DOMAIN heard : heard[n] # None => EntryIsEarned(heard[n], judged)
    BY <2>2 DEF EvolverFits
  <2>4. Head(todo) \in [id : LineageIds] /\ Tail(todo) \in Seq([id : LineageIds])
    BY <2>1, <2>3, HeadTailProperties
  <2>5. next # None => EntryIsEarned(next, judged)
    BY <1>1, <2>4
  <2> HIDE DEF next, todo, heard
  <2>6. /\ Append(heard, next) \in Seq(Range(Append(heard, next)))
        /\ \A n \in DOMAIN Append(heard, next) : Append(heard, next)[n] # None => EntryIsEarned(Append(heard, next)[n], judged)
    <3>1. heard \in Seq(Range(heard) \cup {next})
      BY <2>3, SeqDef
    <3>2. /\ Append(heard, next) \in Seq(Range(heard) \cup {next}) /\ Len(Append(heard, next)) = Len(heard) + 1
          /\ \A n \in 1..Len(heard) : Append(heard, next)[n] = heard[n]
          /\ Append(heard, next)[Len(heard) + 1] = next
      BY <3>1, AppendProperties
    <3>3. Len(heard) \in Nat /\ DOMAIN heard = 1..Len(heard)
      BY <3>1, LenProperties
    <3>4. Append(heard, next) \in Seq(Range(Append(heard, next))) /\ DOMAIN Append(heard, next) = 1..Len(Append(heard, next))
      BY <3>2, SeqOfItsRange
    <3>5. ASSUME NEW n \in DOMAIN Append(heard, next), Append(heard, next)[n] # None
          PROVE  EntryIsEarned(Append(heard, next)[n], judged)
      <4>1. n \in 1..Len(heard) \/ n = Len(heard) + 1
        BY <3>2, <3>3, <3>4
      <4> QED BY <2>3, <2>5, <3>2, <3>3, <3>5, <4>1
    <3> QED BY <3>4, <3>5
  <2>7. EvolverFits(w, judged, given)
    BY <2>2, <2>4, <2>6 DEF EvolverFits
  <2> HIDE DEF w
  <2> QED BY <1>1, <2>1, <2>7, EvolveKeeps
<1>16. ASSUME NEW p \in Evolvers, WriteHistory(p) PROVE EvolveInv'
  <2>1. /\ Doing(p, {"history"}, "list") /\ history' = evolve[p].found /\ evolve' = [evolve EXCEPT ![p] = Rest]
        /\ UNCHANGED <<written, fitness, counted, lineage, last, judged>>
    BY <1>16 DEF WriteHistory, Returns
  <2>2. evolve[p].pc = "list" /\ evolve[p] # Rest /\ EvolverFits(evolve[p], judged, given)
    BY <1>5, <2>1
  <2>3. \A n \in DOMAIN history' : history'[n] # None => EntryIsEarned(history'[n], judged)
    BY <2>1, <2>2 DEF EvolverFits
  <2>4. EvolverFits(Rest, judged, given)
    BY DEF EvolverFits
  <2> QED BY <1>1, <2>1, <2>3, <2>4, EvolveKeeps
<1>17. ASSUME NEW p \in Evolvers, Propose(p) PROVE EvolveInv'
  <2> DEFINE signals == SetToSeq(packetsWeaknessSignals(Packets))
             w == [run |-> evolve[p].run, pc |-> "judge", cand |-> evolve[p].run.proposals, found |-> signals]
  <2>1. /\ Doing(p, {"loop"}, "read") /\ evolve' = [evolve EXCEPT ![p] = w]
        /\ UNCHANGED <<written, recorded, fitness, counted, judged>>
    BY <1>17 DEF Propose, Goes
  <2>2. evolve[p].run \in given /\ evolve[p].run \in EvolveRuns /\ evolve[p].run.op = "loop"
    BY <1>5, <2>1
  <2>3. evolve[p].run.proposals \in Seq(Proposed)
    <3>1. evolve[p].run.proposals \in Seq(Range(evolve[p].run.proposals))
      BY <2>2, EvolveAssumption
    <3>2. Range(evolve[p].run.proposals) \subseteq Proposed
      BY <2>2 DEF Proposed
    <3> QED BY <3>1, <3>2, SeqDef
  <2> HIDE DEF signals
  <2>4. EvolverFits(w, judged, given)
    BY <2>2, <2>3 DEF EvolverFits
  <2> HIDE DEF w
  <2> QED BY <1>1, <2>1, <2>4, EvolveKeeps
<1>18. ASSUME NEW p \in Evolvers, Judge(p) PROVE EvolveInv'
  <2> DEFINE run == evolve[p].run
             todo == evolve[p].cand
             c == Head(todo)
             v == validateCandidate(c, run.cases, run.samples)
             refs == IF c.refs = None THEN Range(evolve[p].found) ELSE c.refs
             entry == Entry(c, refs, v.snapshot, v.regressions, run.by)
             refused == Refuses(c, run.cases, run.samples)
             w == [run |-> run, pc |-> "judge", cand |-> Tail(todo), found |-> evolve[p].found]
  <2>1. /\ Doing(p, {"loop"}, "judge") /\ todo # << >> /\ evolve' = [evolve EXCEPT ![p] = w]
        /\ judged' = IF refused THEN judged ELSE judged \cup {<<c, run.cases>>}
        /\ lineage' = IF ~refused /\ v.verdict.accepted /\ gatePromotion(entry)
                      THEN [lineage EXCEPT ![entry.id] = entry] ELSE lineage
        /\ UNCHANGED <<written, fitness, counted, last, history>>
    BY <1>18 DEF Judge, Goes
  <2>2. /\ run \in given /\ run \in EvolveRuns /\ run.op = "loop" /\ evolve[p].pc = "judge" /\ evolve[p] # Rest
        /\ EvolverFits(evolve[p], judged, given)
    <3>1. Doing(p, {"loop"}, "judge")
      BY <2>1
    <3> HIDE DEF w, entry, refused, v, c
    <3> QED BY <1>5, <3>1
  <2>3. todo \in Seq(Proposed)
    BY <2>2 DEF EvolverFits
  <2>4. c \in Proposed /\ Tail(todo) \in Seq(Proposed)
    BY <2>1, <2>3, HeadTailProperties
  <2>5. EvolverFits(w, judged', given)
    BY <2>2, <2>4 DEF EvolverFits
  <2>6. lineage' = lineage \/ (lineage' = [lineage EXCEPT ![entry.id] = entry] /\ EntryIsEarned(entry, judged'))
    <3> SUFFICES ASSUME ~refused, v.verdict.accepted, gatePromotion(entry) PROVE EntryIsEarned(entry, judged')
      BY <2>1
    <3>1. run.cases \in Files /\ run.samples \in Nat /\ c \in Candidates
      <4>1. run.cases # None
        BY DEF Refuses, AreCases
      <4> QED BY <2>2, <2>4, <4>1, EvolveAssumption DEF Files, Candidates
    <3>2. PICK file, n : file = run.cases /\ n = run.samples
      OBVIOUS
    <3>3. <<c, file>> \in judged' /\ ~Refuses(c, file, n) /\ v = validateCandidate(c, file, n)
      BY <2>1, <3>2
    <3> HIDE DEF c, refused
    <3>4. /\ [c EXCEPT !.snapshot = snapshotOf(c, v.snapshot)] = v.candidateSha256
          /\ snapshotOf(c, v.snapshot) = v.snapshot
      <4>1. v.snapshot = snapshotOf(c, file.ids) /\ v.candidateSha256 = canonicalCandidatePayload(c, v.snapshot)
        BY <3>3 DEF validateCandidate
      <4>2. snapshotOf(c, snapshotOf(c, file.ids)) = snapshotOf(c, file.ids)
        BY DEF snapshotOf
      <4> QED BY <4>1, <4>2 DEF canonicalCandidatePayload
    <3>5. entry = Entry(c, refs, snapshotOf(c, v.snapshot), v.regressions, run.by)
      BY <3>4
    <3> HIDE DEF v, refs, entry
    <3>6. EntryIsScored(entry, judged')
      BY <3>1, <3>2, <3>3, <3>4, <3>5, EntryOfScored
    <3> QED BY <3>6 DEF EntryIsEarned, gatePromotion, SafetySurfaces
  <2> HIDE DEF w, entry, refused, v, c
  <2>7. judged \subseteq judged'
    BY <2>1
  <2> QED BY <1>1, <2>1, <2>5, <2>6, <2>7, EvolveKeeps
<1>19. ASSUME NEW p \in Evolvers, LoopReturns(p) PROVE EvolveInv'
  BY <1>6, <1>19 DEF LoopReturns
<1> QED BY <1>2, <1>3, <1>4, <1>7, <1>8, <1>9, <1>10, <1>11, <1>12, <1>13, <1>14, <1>15, <1>16, <1>17, <1>18, <1>19
        DEF EvolveNext

LEMMA LineageFollowsFromScores == EvolveInv => LineageIsEarned
<1> SUFFICES ASSUME EvolveInv PROVE LineageIsEarned
  OBVIOUS
<1>1. EvolveTypeOK
  <2>1. ASSUME fitness # None
        PROVE  fitness.candidateSha256 \in {canonicalCandidatePayload(c, s) :
                  c \in Drafts, s \in {f.ids : f \in CaseFiles} \cup {d.snapshot : d \in Drafts}}
    <3>1. PICK c \in Drafts, file \in CaseFiles, n \in Nat : fitness = validateCandidate(c, file, n)
      BY <2>1 DEF EvolveInv, FitnessIsScored
    <3>2. fitness.candidateSha256 = canonicalCandidatePayload(c, snapshotOf(c, file.ids))
      BY <3>1 DEF validateCandidate
    <3>3. snapshotOf(c, file.ids) \in {f.ids : f \in CaseFiles} \cup {d.snapshot : d \in Drafts}
      BY DEF snapshotOf
    <3> QED BY <3>2, <3>3
  <2>2. \A p \in Evolvers : evolve[p] # Rest =>
          /\ evolve[p].run \in given
          /\ evolve[p].pc \in {"read", "candidate", "scored", "put", "sidecar", "list", "judge"}
    BY DEF EvolveInv, EvolverFits
  <2> QED BY <2>1, <2>2 DEF EvolveInv, EvolveTypeOK
<1>2. ASSUME NEW e \in Entries PROVE EntryIsEarned(e, judged)
  <2>1. e # None /\ (e \in {lineage[i] : i \in LineageIds} \/ e = last \/ e \in Range(history))
    BY DEF Entries
  <2> QED BY <2>1 DEF EvolveInv, Range
<1> QED BY <1>1, <1>2 DEF LineageIsEarned, EntryIsEarned, EntryIsScored, MoreOf

\* Whatever stands in the lineage was scored as it stands there, by cases of which it passes no fewer
\* and some more, and a guard rule was promoted by the operator (fs-lineage-store.ts put,
\* evolve.ts:738-751): for any candidates, cases and commands, edited and killed at any moment.
THEOREM LineageIsAlwaysEarned == EvolveSpec => []LineageIsEarned
<1>1. EvolveSpec => []EvolveInv
  BY EvolveStarts, EvolveStep, PTL DEF EvolveSpec
<1> QED BY <1>1, LineageFollowsFromScores, PTL

-----------------------------------------------------------------------------
(* The experience memory.                                                  *)

MemorySpec == MemoryInit /\ [][MemoryNext]_memoryVars

Stored == Range(Slugs)

\* A record can be scored and told its age.
Readable(m, t) == m.created \in 1..t /\ IsFiniteSet(m.body.words)

\* Of an imported text, a record has an origin, and where it is trusted others confirm it.
IsContained(m) ==
    Imported(m.body.text) =>
      /\ m.ref \in {r.ref : r \in AddsOf(m.body.text)}
      /\ m.trust = "trusted" => m.ref # None /\ m.by # << >> /\ m.ref \notin Range(m.by) /\ IsInjective(m.by)

MethodFits(s, m, t) ==
    /\ m = [slug |-> m.slug, created |-> m.created, kind |-> m.kind, ref |-> m.ref, trust |-> m.trust,
            by |-> m.by, over |-> m.over, body |-> m.body]
    /\ m.slug = s /\ m.trust \in {"trusted", "untrusted"} /\ Readable(m, t) /\ IsContained(m)

\* What a command is doing, of which request and what it has read.
KeeperFits(k, t, stored) ==
    /\ k = [at |-> k.at, of |-> k.of, left |-> k.left, seen |-> k.seen, exact |-> k.exact, reply |-> k.reply]
    /\ k.at \in {"idle", "write", "look", "promote", "exact", "count", "list", "read", "told"}
    /\ k.at # "idle" => k.of = [field \in DOMAIN k.of |-> k.of[field]] /\ "op" \in DOMAIN k.of
    /\ k.at = "write" => k.of \in Requests /\ k.of.op \in {"add", "learn"}
    /\ k.at \in {"look", "promote"} => k.of \in Requests /\ k.of.op = "promote"
    /\ k.at \in {"exact", "count"} => k.of.op = "policy"
    /\ k.at \in {"list", "read", "told"} /\ k.of.op = "recall" => k.of \in Requests
    /\ k.at = "promote" => /\ MethodFits(k.of.slug, k.exact, t) /\ k.exact.trust = "untrusted"
                           /\ k.exact.ref # None /\ Confirms(k.exact, k.of)
    /\ k.at = "read" => k.left \in Seq(stored)
    /\ k.at \in {"read", "told"} => /\ k.seen \in Seq(Range(k.seen))
                                    /\ \A i \in DOMAIN k.seen : Readable(k.seen[i], t)

\* What a recall looks for at the time t.
WantedAt(o, m, t) ==
    /\ o.maxAge # None => m.created >= t - o.maxAge
    /\ o.kind # None => m.kind = o.kind
    /\ o.ref # None => m.ref = o.ref
    /\ o.trust \notin {None, "all"} => m.trust = o.trust
    /\ o.cause # None => m.body.cause = o.cause

\* What a recall has told hides what it read from no one but by a trusted record.
HidesNothing(k, at) ==
    k.at = "told" /\ k.of.op = "recall" /\ k.of.options.trust = None =>
      LET o == k.of.options IN
      \/ Len(k.reply) = o.limit
      \/ \A m \in Range(k.seen) :
           WantedAt(o, m, at) /\ Matching(o, m) =>
             \/ m \in Range(k.reply)
             \/ \E t \in Range(k.seen) : t.trust = "trusted" /\ m.slug \in t.over \ {t.slug}

Kept(stored, t) == {s \in Stored : MethodFits(s, stored[s], t)}

MemoryInv ==
    /\ now \in 1..MaxNow /\ requests \in 0..MaxRequests
    /\ memory = [s \in Stored |-> memory[s]]
    /\ \A s \in Stored : memory[s] # None => MethodFits(s, memory[s], now)
    /\ memo = [p \in Keepers |-> memo[p]]
    /\ \A p \in Keepers : KeeperFits(memo[p], now, Kept(memory, now)) /\ HidesNothing(memo[p], now)

\* A recall that is not full tells what it read, wanted and matched, unless a trusted record hides it:
\* in the order of the ranks no two records have one place.
LEMMA RecallHides ==
    ASSUME NEW o, o.limit \in Nat, o.trust = None, now \in Nat,
           NEW seen, seen \in Seq(Range(seen)), \A i \in DOMAIN seen : Readable(seen[i], now)
    PROVE  \/ Len(recall(o, seen)) = o.limit
           \/ \A m \in Range(seen) :
                Wanted(o, m) /\ Matching(o, m) =>
                  \/ m \in Range(recall(o, seen))
                  \/ \E t \in Range(seen) : t.trust = "trusted" /\ m.slug \in t.over \ {t.slug}
<1> DEFINE found == Recalled(o, seen)
           Earlier(i) == {j \in found : Precedes(o, seen, j, i)}
           at(n) == seen[CHOOSE i \in found : Cardinality(Earlier(i)) + 1 = n]
           ranked == [n \in 1..Cardinality(found) |-> at(n)]
           Points(i) == experienceScore(seen[i], o)
           Age(i) == seen[i].created
<1>1. Len(seen) \in Nat /\ DOMAIN seen = 1..Len(seen)
  BY LenProperties
<1>2. IsFiniteSet(found) /\ found \subseteq DOMAIN seen /\ Cardinality(found) \in Nat
  <2>1. found \subseteq DOMAIN seen
    BY DEF Recalled
  <2>2. IsFiniteSet(1..Len(seen))
    BY <1>1, FS_Interval
  <2>3. IsFiniteSet(found)
    BY <1>1, <2>1, <2>2, FS_Subset
  <2> QED BY <2>1, <2>3, FS_CardinalityType
<1>3. ASSUME NEW i \in found PROVE i \in Nat /\ Points(i) \in Nat /\ Age(i) \in Nat
  <2>1. i \in DOMAIN seen /\ i \in Nat
    BY <1>1, <1>2
  <2>2. IsFiniteSet(seen[i].body.words) /\ seen[i].created \in 1..now
    BY <2>1 DEF Readable
  <2>3. IsFiniteSet(seen[i].body.words \cap Terms(o))
    BY <2>2, FS_Subset
  <2>4. Points(i) \in Nat
    BY <2>3, FS_CardinalityType DEF experienceScore
  <2> QED BY <2>1, <2>2, <2>4
<1>4. \A i, j : Precedes(o, seen, i, j) <=>
                  \/ Points(i) > Points(j)
                  \/ /\ Points(i) = Points(j)
                     /\ Age(i) > Age(j) \/ (Age(i) = Age(j) /\ i < j)
  BY DEF Precedes
<1> HIDE DEF found, Points, Age
<1>5. ASSUME NEW i \in found, NEW j \in found, NEW k \in found
      PROVE  /\ ~Precedes(o, seen, i, i)
             /\ i # j => Precedes(o, seen, i, j) \/ Precedes(o, seen, j, i)
             /\ Precedes(o, seen, i, j) /\ Precedes(o, seen, j, k) => Precedes(o, seen, i, k)
  <2>1. /\ i \in Nat /\ j \in Nat /\ k \in Nat /\ Points(i) \in Nat /\ Points(j) \in Nat /\ Points(k) \in Nat
        /\ Age(i) \in Nat /\ Age(j) \in Nat /\ Age(k) \in Nat
    BY <1>3
  <2>2. ~Precedes(o, seen, i, i)
    BY <1>4, <2>1
  <2>3. i # j => Precedes(o, seen, i, j) \/ Precedes(o, seen, j, i)
    <3>1. i < j \/ j < i \/ i = j
      BY <2>1
    <3>2. Age(i) > Age(j) \/ Age(j) > Age(i) \/ Age(i) = Age(j)
      BY <2>1
    <3>3. Points(i) > Points(j) \/ Points(j) > Points(i) \/ Points(i) = Points(j)
      BY <2>1
    <3> QED BY <1>4, <3>1, <3>2, <3>3
  <2>4. ASSUME Precedes(o, seen, i, j), Precedes(o, seen, j, k) PROVE Precedes(o, seen, i, k)
    <3>1. /\ Points(i) > Points(j) /\ Points(j) > Points(k) => Points(i) > Points(k)
          /\ Age(i) > Age(j) /\ Age(j) > Age(k) => Age(i) > Age(k)
          /\ i < j /\ j < k => i < k
      BY <2>1
    <3> QED BY <1>4, <2>1, <2>4, <3>1
  <2> QED BY <2>2, <2>3, <2>4
<1>6. ASSUME NEW i \in found
      PROVE  IsFiniteSet(Earlier(i)) /\ Earlier(i) \subseteq found /\ i \notin Earlier(i) /\ Cardinality(Earlier(i)) \in Nat
  BY <1>2, <1>5, FS_Subset, FS_CardinalityType
<1>7. ASSUME NEW i \in found, NEW j \in found, Precedes(o, seen, i, j)
      PROVE  Cardinality(Earlier(i)) < Cardinality(Earlier(j))
  <2>1. Earlier(i) \cup {i} \subseteq Earlier(j)
    BY <1>5, <1>7
  <2> HIDE DEF Earlier
  <2>2. Cardinality(Earlier(i) \cup {i}) = Cardinality(Earlier(i)) + 1
    BY <1>6, FS_AddElement
  <2>3. Cardinality(Earlier(i) \cup {i}) <= Cardinality(Earlier(j))
    BY <1>6, <2>1, FS_Subset
  <2> QED BY <1>6, <2>2, <2>3
<1>8. ASSUME NEW i \in found
      PROVE  Cardinality(Earlier(i)) + 1 \in 1..Cardinality(found) /\ at(Cardinality(Earlier(i)) + 1) = seen[i]
  <2>1. Cardinality(Earlier(i)) < Cardinality(found)
    <3>1. Earlier(i) \cup {i} \subseteq found
      BY <1>6
    <3> HIDE DEF Earlier
    <3>2. Cardinality(Earlier(i) \cup {i}) = Cardinality(Earlier(i)) + 1
      BY <1>6, FS_AddElement
    <3>3. Cardinality(Earlier(i) \cup {i}) <= Cardinality(found)
      BY <1>2, <3>1, FS_Subset
    <3> QED BY <1>2, <1>6, <3>2, <3>3
  <2> HIDE DEF Earlier
  <2>2. ASSUME NEW j \in found, Cardinality(Earlier(j)) + 1 = Cardinality(Earlier(i)) + 1 PROVE j = i
    <3> SUFFICES ASSUME j # i PROVE FALSE
      OBVIOUS
    <3>1. Cardinality(Earlier(i)) < Cardinality(Earlier(j)) \/ Cardinality(Earlier(j)) < Cardinality(Earlier(i))
      BY <1>5, <1>7
    <3> QED BY <1>6, <2>2, <3>1
  <2>3. (CHOOSE j \in found : Cardinality(Earlier(j)) + 1 = Cardinality(Earlier(i)) + 1) = i
    BY <2>2
  <2>4. at(Cardinality(Earlier(i)) + 1) = seen[i]
    BY <2>3, Zenon
  <2> HIDE DEF at
  <2>5. Cardinality(Earlier(i)) + 1 \in 1..Cardinality(found)
    BY <1>2, <1>6, <2>1
  <2> QED BY <2>4, <2>5
<1>9. Ranked(o, seen) = ranked
  BY DEF Ranked, found
<1> HIDE DEF at, Earlier
<1>10. ranked \in Seq(Range(ranked)) /\ Len(ranked) = Cardinality(found) /\ DOMAIN ranked = 1..Cardinality(found)
  <2>1. ranked \in [1..Cardinality(found) -> Range(ranked)]
    BY DEF Range
  <2>2. DOMAIN ranked = 1..Cardinality(found)
    OBVIOUS
  <2> HIDE DEF ranked
  <2>3. ranked \in Seq(Range(ranked))
    BY <1>2, <2>1, SeqDef
  <2> QED BY <1>2, <2>2, <2>3, LenProperties
<1>11. \A i \in found : seen[i] \in Range(ranked)
  <2> SUFFICES ASSUME NEW i \in found PROVE seen[i] \in Range(ranked)
    OBVIOUS
  <2>1. PICK n \in 1..Cardinality(found) : at(n) = seen[i]
    BY <1>8
  <2>2. ranked[n] = seen[i] /\ n \in DOMAIN ranked
    BY <2>1
  <2> QED BY <2>2 DEF Range
<1> HIDE DEF ranked
<1>12. CASE Len(ranked) < o.limit
  <2>1. recall(o, seen) = ranked
    <3>1. recall(o, seen) = SubSeq(ranked, 1, Len(ranked))
      BY <1>9, <1>12 DEF recall
    <3>2. 1 \in 1..(Len(ranked) + 1) /\ Len(ranked) \in 0..Len(ranked)
      BY <1>2, <1>10
    <3> QED BY <1>10, <3>1, <3>2, SubSeqProperties, SeqEqual
  <2>2. ASSUME NEW m \in Range(seen), Wanted(o, m), Matching(o, m), m \notin Range(ranked)
        PROVE  \E t \in Range(seen) : t.trust = "trusted" /\ m.slug \in t.over \ {t.slug}
    <3>1. PICK i \in DOMAIN seen : m = seen[i]
      BY DEF Range
    <3>2. ~Fresh(o, seen, m)
      BY <1>11, <2>2, <3>1 DEF Recalled, found
    <3>3. PICK j \in DOMAIN seen : Superseding(o, seen[j]) /\ m.slug \in seen[j].over \ {seen[j].slug}
      BY <3>2 DEF Fresh, Superseded
    <3> QED BY <3>3 DEF Superseding, Range
  <2> QED BY <2>1, <2>2
<1>13. CASE ~(Len(ranked) < o.limit)
  <2>1. recall(o, seen) = SubSeq(ranked, 1, o.limit)
    BY <1>9, <1>13 DEF recall
  <2>2. 1 \in 1..(Len(ranked) + 1) /\ o.limit \in 0..Len(ranked)
    BY <1>2, <1>10, <1>13
  <2> QED BY <1>10, <2>1, <2>2, SubSeqProperties
<1> QED BY <1>12, <1>13

\* A sequence with as many elements as places has none twice.
LEMMA InjectiveByCount ==
    ASSUME NEW s, s \in Seq(Range(s)), Cardinality(Range(s)) = Len(s)
    PROVE  IsInjective(s)
<1>1. Len(s) \in Nat /\ DOMAIN s = 1..Len(s) /\ s \in [1..Len(s) -> Range(s)]
  <2>1. Len(s) \in Nat /\ DOMAIN s = 1..Len(s)
    BY LenProperties
  <2> QED BY <2>1, SeqDef, LenProperties
<1>2. IsFiniteSet(1..Len(s)) /\ Cardinality(1..Len(s)) = Len(s)
  <2>1. IsFiniteSet(1..Len(s)) /\ Cardinality(1..Len(s)) = IF 1 > Len(s) THEN 0 ELSE Len(s) - 1 + 1
    BY <1>1, FS_Interval, 1 \in Int, Len(s) \in Int
  <2> QED BY <1>1, <2>1
<1>3. s \in Surjection(1..Len(s), Range(s))
  BY <1>1 DEF Surjection, Range
<1>4. s \in Injection(1..Len(s), Range(s))
  BY <1>2, <1>3, FS_Surjection
<1> QED BY <1>1, <1>4 DEF Injection, IsInjective

LEMMA TimeGoesOn ==
    ASSUME NEW t \in Nat, NEW u \in Nat, t <= u, NEW S, NEW T, S \subseteq T
    PROVE  /\ \A m : Readable(m, t) => Readable(m, u)
           /\ \A s, m : MethodFits(s, m, t) => MethodFits(s, m, u)
           /\ \A k : KeeperFits(k, t, S) => KeeperFits(k, u, T)
           /\ \A k : KeeperFits(k, t, S) /\ HidesNothing(k, t) => HidesNothing(k, u)
<1>1. \A m : Readable(m, t) => Readable(m, u)
  BY DEF Readable
<1>2. \A s, m : MethodFits(s, m, t) => MethodFits(s, m, u)
  BY <1>1 DEF MethodFits
<1>3. \A s : s \in Seq(S) => s \in Seq(T)
  BY SeqDef
<1>4. \A k : KeeperFits(k, t, S) => KeeperFits(k, u, T)
  BY <1>1, <1>2, <1>3 DEF KeeperFits
<1>5. ASSUME NEW k, KeeperFits(k, t, S), HidesNothing(k, t), k.at = "told", k.of.op = "recall", k.of.options.trust = None,
             Len(k.reply) # k.of.options.limit, NEW m \in Range(k.seen), WantedAt(k.of.options, m, u), Matching(k.of.options, m)
      PROVE  \/ m \in Range(k.reply)
             \/ \E w \in Range(k.seen) : w.trust = "trusted" /\ m.slug \in w.over \ {w.slug}
  <2>1. Readable(m, t)
    BY <1>5 DEF KeeperFits, Range
  <2>2. k.of.options.maxAge # None => k.of.options.maxAge \in Nat
    BY <1>5, RequestAssumption DEF KeeperFits
  <2>3. m.created \in Nat
    BY <2>1 DEF Readable
  <2>4. WantedAt(k.of.options, m, t)
    BY <1>5, <2>2, <2>3 DEF WantedAt
  <2> QED BY <1>5, <2>4 DEF HidesNothing
<1>6. \A k : KeeperFits(k, t, S) /\ HidesNothing(k, t) => HidesNothing(k, u)
  BY <1>5 DEF HidesNothing
<1> QED BY <1>1, <1>2, <1>4, <1>6

\* What a step may do to the files, the clock and one command.
LEMMA MemoryKeeps ==
    ASSUME MemoryInv, now' \in 1..MaxNow, now <= now', requests' \in 0..MaxRequests,
           memory' = memory \/ \E s \in Stored : \E m : memory' = [memory EXCEPT ![s] = m] /\ MethodFits(s, m, now'),
           memo' = memo \/ \E p \in Keepers : \E k :
             memo' = [memo EXCEPT ![p] = k] /\ KeeperFits(k, now', Kept(memory', now')) /\ HidesNothing(k, now')
    PROVE  MemoryInv'
<1>1. now \in Nat /\ now' \in Nat
  <2>1. MaxNow \in Nat
    BY RequestAssumption
  <2> QED BY <2>1 DEF MemoryInv
<1>2. \A s, m : MethodFits(s, m, now) => MethodFits(s, m, now')
  BY <1>1, TimeGoesOn
<1>3. /\ memory' = [s \in Stored |-> memory'[s]]
      /\ \A s \in Stored : memory'[s] # None => MethodFits(s, memory'[s], now')
      /\ Kept(memory, now) \subseteq Kept(memory', now')
  <2>1. CASE memory' = memory
    BY <1>2, <2>1 DEF MemoryInv, Kept
  <2>2. ASSUME NEW s \in Stored, NEW m, memory' = [memory EXCEPT ![s] = m], MethodFits(s, m, now')
        PROVE  /\ memory' = [i \in Stored |-> memory'[i]]
               /\ \A i \in Stored : memory'[i] # None => MethodFits(i, memory'[i], now')
               /\ Kept(memory, now) \subseteq Kept(memory', now')
    <3>1. memory' = [i \in Stored |-> IF i = s THEN m ELSE memory[i]]
      BY <2>2 DEF MemoryInv
    <3>2. \A i \in Stored : memory'[i] = IF i = s THEN m ELSE memory[i]
      BY <3>1
    <3>3. memory' = [i \in Stored |-> memory'[i]]
      BY <3>1
    <3>4. \A i \in Stored : memory'[i] # None => MethodFits(i, memory'[i], now')
      BY <1>2, <2>2, <3>2 DEF MemoryInv
    <3>5. Kept(memory, now) \subseteq Kept(memory', now')
      BY <1>2, <2>2, <3>2 DEF Kept
    <3> QED BY <3>3, <3>4, <3>5
  <2> QED BY <2>1, <2>2
<1>4. ASSUME NEW k, KeeperFits(k, now, Kept(memory, now)), HidesNothing(k, now)
      PROVE  KeeperFits(k, now', Kept(memory', now')) /\ HidesNothing(k, now')
  BY <1>1, <1>3, <1>4, TimeGoesOn
<1>5. /\ memo' = [p \in Keepers |-> memo'[p]]
      /\ \A p \in Keepers : KeeperFits(memo'[p], now', Kept(memory', now')) /\ HidesNothing(memo'[p], now')
  <2>1. CASE memo' = memo
    BY <1>4, <2>1 DEF MemoryInv
  <2>2. ASSUME NEW p \in Keepers, NEW k, memo' = [memo EXCEPT ![p] = k],
               KeeperFits(k, now', Kept(memory', now')), HidesNothing(k, now')
        PROVE  /\ memo' = [q \in Keepers |-> memo'[q]]
               /\ \A q \in Keepers : KeeperFits(memo'[q], now', Kept(memory', now')) /\ HidesNothing(memo'[q], now')
    <3>1. memo' = [q \in Keepers |-> IF q = p THEN k ELSE memo[q]]
      BY <2>2 DEF MemoryInv
    <3>2. \A q \in Keepers : memo'[q] = IF q = p THEN k ELSE memo[q]
      BY <3>1
    <3>3. memo' = [q \in Keepers |-> memo'[q]]
      BY <3>1
    <3>4. \A q \in Keepers : KeeperFits(memo[q], now', Kept(memory', now')) /\ HidesNothing(memo[q], now')
      BY <1>4 DEF MemoryInv
    <3> QED BY <2>2, <3>2, <3>3, <3>4
  <2> QED BY <2>1, <2>2
<1> QED BY <1>3, <1>5 DEF MemoryInv

LEMMA MemoryStarts == MemoryInit => MemoryInv
<1> SUFFICES ASSUME MemoryInit PROVE MemoryInv
  OBVIOUS
<1>1. now \in 1..MaxNow /\ requests \in 0..MaxRequests
  <2>1. MaxNow \in Nat \ {0} /\ MaxRequests \in Nat
    BY RequestAssumption
  <2> QED BY <2>1 DEF MemoryInit
<1>2. memory = [s \in Stored |-> memory[s]] /\ \A s \in Stored : memory[s] = None
  BY DEF MemoryInit, Stored
<1>3. \A p \in Keepers : memo[p] = IdleKeeper
  BY DEF MemoryInit
<1>4. KeeperFits(IdleKeeper, now, Kept(memory, now)) /\ HidesNothing(IdleKeeper, now)
  BY DEF IdleKeeper, KeeperFits, HidesNothing
<1>5. memo = [p \in Keepers |-> memo[p]]
  BY DEF MemoryInit
<1> QED BY <1>1, <1>2, <1>3, <1>4, <1>5 DEF MemoryInv

\* What an add or a learn writes fits.
LEMMA MethodIsFit ==
    ASSUME NEW r \in Requests, r.op \in {"add", "learn"}, now \in Nat, 1 <= now,
           NEW m, m = IF r.op = "learn" THEN Learned(r) ELSE r, ~Refused(m)
    PROVE  Slugs[m.title] \in Stored /\ MethodFits(Slugs[m.title], Method(m), now)
<1>1. m.title = r.title /\ r.title \in DOMAIN Slugs
  BY RequestAssumption DEF Learned, Refused
<1>2. Slugs[m.title] \in Stored
  BY <1>1 DEF Stored, Range
<1>3. CASE r.op = "learn"
  <2>1. m.trust = None /\ m.body = renderTaskExperience(r)
    BY <1>3 DEF Learned
  <2>2. IsFiniteSet(m.body.words)
    <3>1. IsFiniteSet(r.task.words)
      BY <1>3, RequestAssumption
    <3> QED BY <2>1, <3>1 DEF renderTaskExperience
  <2>3. ~Imported(m.body.text)
    BY <1>3, <2>1 DEF Imported
  <2>4. /\ Method(m).slug = Slugs[m.title] /\ Method(m).created = now /\ Method(m).trust = "trusted" /\ Method(m).body = m.body
        /\ Method(m) = [slug |-> Slugs[m.title], created |-> now, kind |-> m.kind, ref |-> m.ref, trust |-> "trusted",
                        by |-> << >>, over |-> m.over, body |-> m.body]
    BY <2>1 DEF Method
  <2> QED BY <1>2, <2>2, <2>3, <2>4 DEF MethodFits, Readable, IsContained
<1>4. CASE r.op = "add"
  <2>1. m = r /\ m.body # None
    BY <1>4 DEF Refused
  <2>2. IsFiniteSet(m.body.words) /\ m.trust \in {None, "trusted", "untrusted"} /\ None \notin {"trusted", "untrusted"}
    BY <1>4, <2>1, RequestAssumption
  <2>3. PICK trust \in {"trusted", "untrusted"} : trust = IF m.trust = None THEN "trusted" ELSE m.trust
    BY <2>2
  <2>4. /\ Method(m).slug = Slugs[m.title] /\ Method(m).created = now /\ Method(m).trust = trust /\ Method(m).body = m.body
        /\ Method(m).ref = m.ref
        /\ Method(m) = [slug |-> Slugs[m.title], created |-> now, kind |-> m.kind, ref |-> m.ref, trust |-> trust,
                        by |-> << >>, over |-> m.over, body |-> m.body]
    BY <2>3 DEF Method
  <2>5. IsContained(Method(m))
    <3>1. r \in AddsOf(m.body.text)
      BY <1>4, <2>1 DEF AddsOf
    <3>2. Imported(m.body.text) => m.trust = "untrusted"
      BY <2>1, <3>1 DEF Imported
    <3>3. Imported(m.body.text) => trust = "untrusted"
      BY <2>2, <2>3, <3>2
    <3> QED BY <2>1, <2>4, <3>1, <3>3 DEF IsContained
  <2> QED BY <1>2, <2>2, <2>4, <2>5 DEF MethodFits, Readable
<1> QED BY <1>3, <1>4

\* What a promotion writes fits, whatever it is written over.
LEMMA PromotedIsFit ==
    ASSUME NEW r \in Requests, r.op = "promote", NEW m, NEW t \in Nat, MethodFits(r.slug, m, t), m.ref # None, Confirms(m, r)
    PROVE  MethodFits(r.slug, [m EXCEPT !.trust = "trusted", !.by = r.confirm], t)
<1>1. PICK n : n = [m EXCEPT !.trust = "trusted", !.by = r.confirm]
  OBVIOUS
<1>2. m = [slug |-> m.slug, created |-> m.created, kind |-> m.kind, ref |-> m.ref, trust |-> m.trust,
           by |-> m.by, over |-> m.over, body |-> m.body]
  BY DEF MethodFits
<1>3. n = [slug |-> m.slug, created |-> m.created, kind |-> m.kind, ref |-> m.ref, trust |-> "trusted",
           by |-> r.confirm, over |-> m.over, body |-> m.body]
  BY <1>1, <1>2
<1>4. r.confirm \in Seq(Range(r.confirm))
  BY RequestAssumption
<1>5. IsInjective(r.confirm) /\ r.confirm # << >> /\ m.ref \notin Range(r.confirm)
  BY <1>4, InjectiveByCount DEF Confirms
<1>6. n.ref = m.ref /\ n.by = r.confirm /\ n.slug = m.slug /\ n.created = m.created /\ n.body = m.body /\ n.trust = "trusted"
  BY <1>3
<1>7. IsContained(n)
  BY <1>5, <1>6 DEF MethodFits, IsContained
<1>8. n = [slug |-> n.slug, created |-> n.created, kind |-> n.kind, ref |-> n.ref, trust |-> n.trust,
           by |-> n.by, over |-> n.over, body |-> n.body]
  BY <1>3
<1>9. MethodFits(r.slug, n, t)
  BY <1>6, <1>7, <1>8 DEF MethodFits, Readable
<1> QED BY <1>1, <1>9

\* A command that writes nothing.
LEMMA KeeperGoesOn ==
    ASSUME MemoryInv, NEW p \in Keepers, NEW k, memo' = [memo EXCEPT ![p] = k], requests' \in 0..MaxRequests,
           memory' = memory, now' = now, KeeperFits(k, now, Kept(memory, now)), HidesNothing(k, now)
    PROVE  MemoryInv'
<1>1. now \in Nat
  <2>1. MaxNow \in Nat
    BY RequestAssumption
  <2> QED BY <2>1 DEF MemoryInv
<1>2. now' \in 1..MaxNow /\ now <= now'
  BY <1>1 DEF MemoryInv
<1>3. Kept(memory', now') = Kept(memory, now)
  OBVIOUS
<1>4. KeeperFits(k, now', Kept(memory', now')) /\ HidesNothing(k, now')
  BY <1>3
<1> QED BY <1>2, <1>4, MemoryKeeps

LEMMA IdleFits == ASSUME NEW t, NEW S PROVE KeeperFits(IdleKeeper, t, S) /\ HidesNothing(IdleKeeper, t)
  BY DEF IdleKeeper, KeeperFits, HidesNothing

LEMMA MemoryIsIndexed ==
    ASSUME MemoryInv
    PROVE  /\ now \in Nat /\ 1 <= now /\ requests \in 0..MaxRequests
           /\ memory = [s \in Stored |-> memory[s]] /\ DOMAIN memory = Stored
           /\ memo = [p \in Keepers |-> memo[p]]
           /\ \A p \in Keepers : KeeperFits(memo[p], now, Kept(memory, now)) /\ HidesNothing(memo[p], now)
<1>1. MaxNow \in Nat
  BY RequestAssumption
<1> QED BY <1>1 DEF MemoryInv

LEMMA GiveRequestKeeps ==
    ASSUME MemoryInv, NEW p \in Keepers, NEW r \in Requests, GiveRequest(p, r)
    PROVE  MemoryInv'
<1>1. requests' \in 0..MaxRequests
  <2>1. MaxRequests \in Nat
    BY RequestAssumption
  <2> QED BY <2>1, MemoryIsIndexed DEF GiveRequest
<1>2. CASE FirstStep(r) = "idle"
  <2>1. memo' = memo /\ memory' = memory /\ now' = now
    BY <1>2 DEF GiveRequest
  <2>2. now' \in 1..MaxNow /\ now <= now'
    BY <2>1, MemoryIsIndexed DEF MemoryInv
  <2> QED BY <1>1, <2>1, <2>2, MemoryKeeps
<1>3. CASE FirstStep(r) # "idle"
  <2> DEFINE c == memo[p]
             step == FirstStep(r)
  <2>1. KeeperFits(c, now, Kept(memory, now)) /\ c.at = "idle"
    BY MemoryIsIndexed DEF GiveRequest
  <2>2. c = [at |-> c.at, of |-> c.of, left |-> c.left, seen |-> c.seen, exact |-> c.exact, reply |-> c.reply]
    BY <2>1 DEF KeeperFits
  <2>3. PICK k : k = [at |-> step, of |-> r, left |-> c.left, seen |-> c.seen, exact |-> c.exact, reply |-> c.reply]
    OBVIOUS
  <2>4. memo' = [memo EXCEPT ![p] = k]
    <3>1. memo' = [memo EXCEPT ![p].of = r, ![p].at = step] /\ memo = [q \in Keepers |-> memo[q]]
      BY <1>3, MemoryIsIndexed DEF GiveRequest
    <3>2. [c EXCEPT !.of = r, !.at = step] = k
      <4> HIDE DEF c, step
      <4>1. PICK d : d = [c EXCEPT !.of = r]
        OBVIOUS
      <4>2. d = [at |-> c.at, of |-> r, left |-> c.left, seen |-> c.seen, exact |-> c.exact, reply |-> c.reply]
        BY <2>2, <4>1
      <4>3. [d EXCEPT !.at = step] = k
        BY <2>3, <4>2
      <4> QED BY <4>1, <4>3
    <3> HIDE DEF step
    <3> QED BY <3>1, <3>2
  <2>5. /\ step \in {"write", "look", "exact", "list"}
        /\ step = "write" => r.op \in {"add", "learn"}
        /\ step = "look" => r.op = "promote"
        /\ step = "exact" => r.op = "policy"
    BY <1>3 DEF FirstStep
  <2>6. r = [field \in DOMAIN r |-> r[field]] /\ "op" \in DOMAIN r
    BY RequestAssumption
  <2>7. KeeperFits(k, now, Kept(memory, now)) /\ HidesNothing(k, now)
    <3> HIDE DEF step, c
    <3> QED BY <2>3, <2>5, <2>6 DEF KeeperFits, HidesNothing
  <2>8. memory' = memory /\ now' = now
    BY DEF GiveRequest
  <2> QED BY <1>1, <2>4, <2>7, <2>8, KeeperGoesOn
<1> QED BY <1>2, <1>3

LEMMA RememberKeeps ==
    ASSUME MemoryInv, NEW p \in Keepers, Remember(p)
    PROVE  MemoryInv'
<1> DEFINE r == memo[p].of
           m == IF r.op = "learn" THEN Learned(r) ELSE r
<1>1. r \in Requests /\ r.op \in {"add", "learn"}
  BY MemoryIsIndexed DEF KeeperFits, Remember
<1>2. now' = now /\ requests' \in 0..MaxRequests /\ now' \in 1..MaxNow /\ now \in Nat /\ 1 <= now
  BY MemoryIsIndexed DEF Remember, MemoryInv
<1>3. memo' = [memo EXCEPT ![p] = IdleKeeper]
  BY DEF Remember, Done
<1>4. memory' = memory \/ \E s \in Stored : \E n : memory' = [memory EXCEPT ![s] = n] /\ MethodFits(s, n, now')
  <2>1. CASE memory' = memory
    BY <2>1
  <2>2. CASE ~Refused(m) /\ memory' = [memory EXCEPT ![Slugs[m.title]] = Method(m)]
    <3>1. Slugs[m.title] \in Stored /\ MethodFits(Slugs[m.title], Method(m), now)
      BY <1>1, <1>2, <2>2, MethodIsFit
    <3> QED BY <1>2, <2>2, <3>1
  <2> QED BY <2>1, <2>2 DEF Remember
<1>5. KeeperFits(IdleKeeper, now', Kept(memory', now')) /\ HidesNothing(IdleKeeper, now')
  BY IdleFits
<1>6. now <= now'
  BY <1>2
<1> HIDE DEF m, r
<1> QED BY <1>2, <1>3, <1>4, <1>5, <1>6, MemoryKeeps

LEMMA LookKeeps ==
    ASSUME MemoryInv, NEW p \in Keepers, Look(p)
    PROVE  MemoryInv'
<1> DEFINE c == memo[p]
           m == memory[c.of.slug]
<1>1. KeeperFits(c, now, Kept(memory, now)) /\ c.at = "look" /\ now' = now /\ memory' = memory
  BY MemoryIsIndexed DEF Look
<1>2. c.of \in Requests /\ c.of.op = "promote"
  BY <1>1 DEF KeeperFits
<1>3. requests' \in 0..MaxRequests
  BY MemoryIsIndexed DEF Look
<1>4. CASE memo' = [memo EXCEPT ![p] = IdleKeeper]
  BY <1>1, <1>3, <1>4, IdleFits, KeeperGoesOn
<1>5. CASE m # None /\ m.trust = "untrusted" /\ m.ref # None /\ Confirms(m, c.of) /\
           memo' = [memo EXCEPT ![p].at = "promote", ![p].exact = m]
  <2>1. c = [at |-> c.at, of |-> c.of, left |-> c.left, seen |-> c.seen, exact |-> c.exact, reply |-> c.reply]
    BY <1>1 DEF KeeperFits
  <2>2. PICK k : k = [at |-> "promote", of |-> c.of, left |-> c.left, seen |-> c.seen, exact |-> m, reply |-> c.reply]
    OBVIOUS
  <2>3. memo' = [memo EXCEPT ![p] = k]
    <3>1. [c EXCEPT !.at = "promote", !.exact = m] = k
      <4> HIDE DEF c, m
      <4>1. PICK d : d = [c EXCEPT !.at = "promote"]
        OBVIOUS
      <4>2. d = [at |-> "promote", of |-> c.of, left |-> c.left, seen |-> c.seen, exact |-> c.exact, reply |-> c.reply]
        BY <2>1, <4>1
      <4>3. [d EXCEPT !.exact = m] = k
        BY <2>2, <4>2
      <4> QED BY <4>1, <4>3
    <3> HIDE DEF m
    <3> QED BY <1>5, <3>1, MemoryIsIndexed
  <2>4. c.of.slug \in Stored
    BY <1>2, RequestAssumption DEF Stored
  <2>5. MethodFits(c.of.slug, m, now)
    BY <1>5, <2>4 DEF MemoryInv
  <2>6. c.of = [field \in DOMAIN c.of |-> c.of[field]] /\ "op" \in DOMAIN c.of
    BY <1>1 DEF KeeperFits
  <2>7. KeeperFits(k, now, Kept(memory, now)) /\ HidesNothing(k, now)
    <3> HIDE DEF c, m
    <3> QED BY <1>2, <1>5, <2>2, <2>5, <2>6 DEF KeeperFits, HidesNothing
  <2> QED BY <1>1, <1>3, <2>3, <2>7, KeeperGoesOn
<1> QED BY <1>4, <1>5 DEF Look, Done

LEMMA PromoteKeeps ==
    ASSUME MemoryInv, NEW p \in Keepers, Promote(p)
    PROVE  MemoryInv'
<1> DEFINE c == memo[p]
<1>1. KeeperFits(c, now, Kept(memory, now)) /\ c.at = "promote"
  BY MemoryIsIndexed DEF Promote
<1>2. c.of \in Requests /\ c.of.op = "promote" /\ MethodFits(c.of.slug, c.exact, now) /\ c.exact.ref # None
      /\ Confirms(c.exact, c.of)
  BY <1>1 DEF KeeperFits
<1>3. now' = now /\ requests' \in 0..MaxRequests /\ now' \in 1..MaxNow /\ now \in Nat /\ now <= now'
  BY MemoryIsIndexed DEF Promote, MemoryInv
<1>4. MethodFits(c.of.slug, Promoted(p), now')
  BY <1>2, <1>3, PromotedIsFit DEF Promoted
<1>5. c.of.slug \in Stored
  BY <1>2, RequestAssumption DEF Stored
<1>6. memory' = [memory EXCEPT ![c.of.slug] = Promoted(p)] /\ memo' = [memo EXCEPT ![p] = IdleKeeper]
  BY DEF Promote, Done
<1>7. KeeperFits(IdleKeeper, now', Kept(memory', now')) /\ HidesNothing(IdleKeeper, now')
  BY IdleFits
<1> QED BY <1>3, <1>4, <1>5, <1>6, <1>7, MemoryKeeps

LEMMA ExactKeeps ==
    ASSUME MemoryInv, NEW p \in Keepers, Exact(p)
    PROVE  MemoryInv'
<1> DEFINE c == memo[p]
           m == memory[c.of.slug]
<1>1. KeeperFits(c, now, Kept(memory, now)) /\ c.at = "exact" /\ now' = now /\ memory' = memory /\ requests' \in 0..MaxRequests
  BY MemoryIsIndexed DEF Exact
<1>2. CASE memo' = [memo EXCEPT ![p] = IdleKeeper]
  BY <1>1, <1>2, IdleFits, KeeperGoesOn
<1>3. CASE memo' = [memo EXCEPT ![p].at = "count", ![p].exact = m]
  <2>1. c = [at |-> c.at, of |-> c.of, left |-> c.left, seen |-> c.seen, exact |-> c.exact, reply |-> c.reply]
    BY <1>1 DEF KeeperFits
  <2>2. PICK k : k = [at |-> "count", of |-> c.of, left |-> c.left, seen |-> c.seen, exact |-> m, reply |-> c.reply]
    OBVIOUS
  <2>3. memo' = [memo EXCEPT ![p] = k]
    <3>1. [c EXCEPT !.at = "count", !.exact = m] = k
      <4> HIDE DEF c, m
      <4>1. PICK d : d = [c EXCEPT !.at = "count"]
        OBVIOUS
      <4>2. d = [at |-> "count", of |-> c.of, left |-> c.left, seen |-> c.seen, exact |-> c.exact, reply |-> c.reply]
        BY <2>1, <4>1
      <4>3. [d EXCEPT !.exact = m] = k
        BY <2>2, <4>2
      <4> QED BY <4>1, <4>3
    <3> HIDE DEF m
    <3> QED BY <1>3, <3>1, MemoryIsIndexed
  <2>4. c.of = [field \in DOMAIN c.of |-> c.of[field]] /\ "op" \in DOMAIN c.of /\ c.of.op = "policy"
    BY <1>1 DEF KeeperFits
  <2>5. KeeperFits(k, now, Kept(memory, now)) /\ HidesNothing(k, now)
    <3> HIDE DEF c, m
    <3> QED BY <2>2, <2>4 DEF KeeperFits, HidesNothing
  <2> QED BY <1>1, <2>3, <2>5, KeeperGoesOn
<1> QED BY <1>2, <1>3 DEF Exact, Done

LEMMA CountKeeps ==
    ASSUME MemoryInv, NEW p \in Keepers, Count(p)
    PROVE  MemoryInv'
<1> DEFINE c == memo[p]
           all == Cardinality({s \in DOMAIN memory : memory[s] # None})
<1>1. KeeperFits(c, now, Kept(memory, now)) /\ c.at = "count" /\ now' = now /\ memory' = memory /\ requests' \in 0..MaxRequests
  BY MemoryIsIndexed DEF Count
<1>2. c = [at |-> c.at, of |-> c.of, left |-> c.left, seen |-> c.seen, exact |-> c.exact, reply |-> c.reply]
  BY <1>1 DEF KeeperFits
<1>3. PICK of : of = [c.of EXCEPT !.options.limit = all]
  OBVIOUS
<1>4. PICK k : k = [at |-> "list", of |-> of, left |-> c.left, seen |-> c.seen, exact |-> c.exact, reply |-> c.reply]
  OBVIOUS
<1>5. memo' = [memo EXCEPT ![p] = k]
  <2>1. memo' = [memo EXCEPT ![p].at = "list", ![p].of.options.limit = all]
    BY DEF Count
  <2>2. memo = [q \in Keepers |-> memo[q]]
    BY DEF MemoryInv
  <2>3. [c EXCEPT !.at = "list", !.of.options.limit = all] = k
    <3> HIDE DEF all, c
    <3>1. PICK d : d = [c EXCEPT !.at = "list"]
      OBVIOUS
    <3>2. d = [at |-> "list", of |-> c.of, left |-> c.left, seen |-> c.seen, exact |-> c.exact, reply |-> c.reply]
      BY <1>2, <3>1
    <3>3. [d EXCEPT !.of = of] = k
      BY <1>4, <3>2
    <3>4. [c EXCEPT !.at = "list", !.of.options.limit = all] = [d EXCEPT !.of.options.limit = all]
      BY <3>1
    <3>5. d.of = c.of
      BY <3>2
    <3> QED BY <1>3, <3>3, <3>4, <3>5
  <2> HIDE DEF all
  <2> QED BY <2>1, <2>2, <2>3
<1>6. c.of = [field \in DOMAIN c.of |-> c.of[field]] /\ "op" \in DOMAIN c.of /\ c.of.op = "policy"
  BY <1>1 DEF KeeperFits
<1>7. of = [field \in DOMAIN of |-> of[field]] /\ "op" \in DOMAIN of /\ of.op = "policy"
  <2> HIDE DEF c, all
  <2> QED BY <1>3, <1>6
<1>8. KeeperFits(k, now, Kept(memory, now)) /\ HidesNothing(k, now)
  <2> HIDE DEF c, all
  <2> QED BY <1>4, <1>7 DEF KeeperFits, HidesNothing
<1> QED BY <1>1, <1>5, <1>8, KeeperGoesOn

LEMMA ListMemoryKeeps ==
    ASSUME MemoryInv, NEW p \in Keepers, ListMemory(p)
    PROVE  MemoryInv'
<1> DEFINE c == memo[p]
           all == {s \in DOMAIN memory : memory[s] # None}
           files == SetToSeq(all)
<1>1. KeeperFits(c, now, Kept(memory, now)) /\ c.at = "list" /\ now' = now /\ memory' = memory /\ requests' \in 0..MaxRequests
  BY MemoryIsIndexed DEF ListMemory
<1>2. c = [at |-> c.at, of |-> c.of, left |-> c.left, seen |-> c.seen, exact |-> c.exact, reply |-> c.reply]
  BY <1>1 DEF KeeperFits
<1>3. all \subseteq Kept(memory, now)
  BY MemoryIsIndexed DEF MemoryInv, Kept
<1>4. files \in Seq(Kept(memory, now))
  <2>1. IsFiniteSet(Stored) /\ all \subseteq Stored
    BY RequestAssumption, MemoryIsIndexed DEF Stored
  <2>2. IsFiniteSet(all)
    BY <2>1, FS_Subset
  <2>3. SetToSeq(all) \in Seq(all)
    BY <2>2, SetAsSeq
  <2> HIDE DEF all
  <2>4. \A s : s \in Seq(all) => s \in Seq(Kept(memory, now))
    BY <1>3, SeqDef
  <2> QED BY <2>3, <2>4
<1>5. PICK k : k = [at |-> "read", of |-> c.of, left |-> files, seen |-> << >>, exact |-> c.exact, reply |-> c.reply]
  OBVIOUS
<1>6. memo' = [memo EXCEPT ![p] = k]
  <2>1. [c EXCEPT !.at = "read", !.seen = << >>, !.left = files] = k
    <3> HIDE DEF c, files
    <3>1. PICK d : d = [c EXCEPT !.at = "read"]
      OBVIOUS
    <3>2. d = [at |-> "read", of |-> c.of, left |-> c.left, seen |-> c.seen, exact |-> c.exact, reply |-> c.reply]
      BY <1>2, <3>1
    <3>3. PICK e : e = [d EXCEPT !.seen = << >>]
      OBVIOUS
    <3>4. e = [at |-> "read", of |-> c.of, left |-> c.left, seen |-> << >>, exact |-> c.exact, reply |-> c.reply]
      BY <3>2, <3>3
    <3>5. [e EXCEPT !.left = files] = k
      BY <1>5, <3>4
    <3> QED BY <3>1, <3>3, <3>5
  <2>2. memo' = [memo EXCEPT ![p].at = "read", ![p].seen = << >>, ![p].left = files]
    BY DEF ListMemory
  <2> HIDE DEF files
  <2> QED BY <2>1, <2>2, MemoryIsIndexed
<1>7. << >> \in Seq(Range(<< >>)) /\ DOMAIN << >> = {}
  BY EmptySeq
<1>8. KeeperFits(k, now, Kept(memory, now)) /\ HidesNothing(k, now)
  <2> HIDE DEF c, files
  <2>1. k.at = "read" /\ k.of = c.of /\ k.left = files /\ k.seen = << >>
    BY <1>5
  <2>2. k = [at |-> k.at, of |-> k.of, left |-> k.left, seen |-> k.seen, exact |-> k.exact, reply |-> k.reply]
    BY <1>5
  <2>3. k.seen \in Seq(Range(k.seen)) /\ \A i \in DOMAIN k.seen : Readable(k.seen[i], now)
    BY <1>7, <2>1
  <2> HIDE DEF KeeperFits
  <2>4. /\ c.of = [field \in DOMAIN c.of |-> c.of[field]] /\ "op" \in DOMAIN c.of
        /\ c.of.op = "recall" => c.of \in Requests
    BY <1>1 DEF KeeperFits
  <2> QED BY <1>4, <2>1, <2>2, <2>3, <2>4 DEF KeeperFits, HidesNothing
<1> QED BY <1>1, <1>6, <1>8, KeeperGoesOn

LEMMA ReadFileKeeps ==
    ASSUME MemoryInv, NEW p \in Keepers, ReadFile(p)
    PROVE  MemoryInv'
<1> DEFINE c == memo[p]
           m == memory[Head(c.left)]
<1>1. KeeperFits(c, now, Kept(memory, now)) /\ c.at = "read" /\ c.left # << >> /\ now' = now /\ memory' = memory
      /\ requests' \in 0..MaxRequests
  BY MemoryIsIndexed DEF ReadFile
<1>2. /\ c = [at |-> c.at, of |-> c.of, left |-> c.left, seen |-> c.seen, exact |-> c.exact, reply |-> c.reply]
      /\ c.left \in Seq(Kept(memory, now)) /\ c.seen \in Seq(Range(c.seen))
      /\ \A i \in DOMAIN c.seen : Readable(c.seen[i], now)
      /\ c.of = [field \in DOMAIN c.of |-> c.of[field]] /\ "op" \in DOMAIN c.of
      /\ c.of.op = "recall" => c.of \in Requests
  BY <1>1 DEF KeeperFits
<1>3. Head(c.left) \in Kept(memory, now) /\ Tail(c.left) \in Seq(Kept(memory, now))
  BY <1>1, <1>2, HeadTailProperties
<1>4. Readable(m, now)
  BY <1>3 DEF Kept, MethodFits
<1>5. PICK seen : seen = Append(c.seen, m)
  OBVIOUS
<1>6. seen \in Seq(Range(seen)) /\ \A i \in DOMAIN seen : Readable(seen[i], now)
  <2> HIDE DEF c, m
  <2>1. c.seen \in Seq(Range(c.seen) \cup {m})
    BY <1>2, SeqDef
  <2>2. /\ seen \in Seq(Range(c.seen) \cup {m})
        /\ Len(seen) = Len(c.seen) + 1
        /\ \A i \in 1..Len(c.seen) : seen[i] = c.seen[i]
        /\ seen[Len(c.seen) + 1] = m
    BY <1>5, <2>1, AppendProperties
  <2>3. Len(c.seen) \in Nat /\ DOMAIN c.seen = 1..Len(c.seen) /\ DOMAIN seen = 1..Len(seen)
    BY <2>1, <2>2, LenProperties
  <2>4. \A i \in DOMAIN seen : Readable(seen[i], now)
    BY <1>2, <1>4, <2>2, <2>3
  <2>5. seen \in Seq(Range(seen))
    BY <2>2, SeqOfItsRange
  <2> QED BY <2>4, <2>5
<1>7. PICK rest : rest = Tail(c.left)
  OBVIOUS
<1>8. PICK k : k = [at |-> "read", of |-> c.of, left |-> rest, seen |-> seen, exact |-> c.exact, reply |-> c.reply]
  OBVIOUS
<1>9. memo' = [memo EXCEPT ![p] = k]
  <2>1. [c EXCEPT !.left = rest, !.seen = seen] = k
    <3> HIDE DEF c
    <3>1. PICK d : d = [c EXCEPT !.left = rest]
      OBVIOUS
    <3>2. d = [at |-> "read", of |-> c.of, left |-> rest, seen |-> c.seen, exact |-> c.exact, reply |-> c.reply]
      BY <1>1, <1>2, <3>1
    <3>3. [d EXCEPT !.seen = seen] = k
      BY <1>8, <3>2
    <3> QED BY <3>1, <3>3
  <2>2. memo' = [memo EXCEPT ![p] = [@ EXCEPT !.left = Tail(c.left), !.seen = Append(c.seen, m)]]
    BY MemoryIsIndexed DEF ReadFile
  <2> HIDE DEF m
  <2> QED BY <1>5, <1>7, <2>1, <2>2, MemoryIsIndexed
<1>10. KeeperFits(k, now, Kept(memory, now)) /\ HidesNothing(k, now)
  <2> HIDE DEF c, m
  <2>1. k.at = "read" /\ k.of = c.of /\ k.left = rest /\ k.seen = seen
    BY <1>8
  <2>2. k = [at |-> k.at, of |-> k.of, left |-> k.left, seen |-> k.seen, exact |-> k.exact, reply |-> k.reply]
    BY <1>8
  <2> QED BY <1>2, <1>3, <1>6, <1>7, <2>1, <2>2 DEF KeeperFits, HidesNothing
<1> QED BY <1>1, <1>9, <1>10, KeeperGoesOn

LEMMA TellKeeps ==
    ASSUME MemoryInv, NEW p \in Keepers, Tell(p)
    PROVE  MemoryInv'
<1> DEFINE c == memo[p]
           reply == Answer(c.of, c)
           at == IF c.of.op = "eval" /\ Len(c.of.cases) > 1 THEN "list" ELSE "told"
           of == IF c.of.op = "eval" THEN [c.of EXCEPT !.cases = Tail(@)] ELSE c.of
<1>1. KeeperFits(c, now, Kept(memory, now)) /\ c.at = "read" /\ now' = now /\ memory' = memory
      /\ requests' \in 0..MaxRequests
  BY MemoryIsIndexed DEF Tell
<1>2. /\ c = [at |-> c.at, of |-> c.of, left |-> c.left, seen |-> c.seen, exact |-> c.exact, reply |-> c.reply]
      /\ c.seen \in Seq(Range(c.seen)) /\ \A i \in DOMAIN c.seen : Readable(c.seen[i], now)
      /\ c.of = [field \in DOMAIN c.of |-> c.of[field]] /\ "op" \in DOMAIN c.of
      /\ c.of.op = "recall" => c.of \in Requests
  BY <1>1 DEF KeeperFits
<1>3. of = [field \in DOMAIN of |-> of[field]] /\ "op" \in DOMAIN of /\ of.op = c.of.op
      /\ (of.op = "recall" => of \in Requests /\ of = c.of /\ at = "told") /\ at \in {"list", "told"}
  <2>1. CASE c.of.op = "eval"
    <3> HIDE DEF c
    <3>1. of = [c.of EXCEPT !.cases = Tail(c.of.cases)]
      BY <2>1
    <3> HIDE DEF of
    <3> QED BY <1>2, <2>1, <3>1
  <2>2. CASE c.of.op # "eval"
    <3> HIDE DEF c
    <3> QED BY <1>2, <2>2
  <2> QED BY <2>1, <2>2
<1>4. PICK k : k = [at |-> at, of |-> of, left |-> c.left, seen |-> c.seen, exact |-> c.exact, reply |-> reply]
  OBVIOUS
<1>5. memo' = [memo EXCEPT ![p] = k]
  <2>1. [c EXCEPT !.reply = reply, !.at = at, !.of = of] = k
    <3> HIDE DEF c, reply, at, of
    <3>1. PICK d : d = [c EXCEPT !.reply = reply]
      OBVIOUS
    <3>2. d = [at |-> c.at, of |-> c.of, left |-> c.left, seen |-> c.seen, exact |-> c.exact, reply |-> reply]
      BY <1>2, <3>1
    <3>3. PICK e : e = [d EXCEPT !.at = at]
      OBVIOUS
    <3>4. e = [at |-> at, of |-> c.of, left |-> c.left, seen |-> c.seen, exact |-> c.exact, reply |-> reply]
      BY <3>2, <3>3
    <3>5. [e EXCEPT !.of = of] = k
      BY <1>4, <3>4
    <3> QED BY <3>1, <3>3, <3>5
  <2>2. memo' = [memo EXCEPT ![p].reply = reply, ![p].at = at, ![p].of = of]
    BY DEF Tell
  <2> HIDE DEF reply, at, of
  <2> QED BY <2>1, <2>2, MemoryIsIndexed
<1>6. k.at = at /\ k.of = of /\ k.seen = c.seen /\ k.reply = reply /\
      k = [at |-> k.at, of |-> k.of, left |-> k.left, seen |-> k.seen, exact |-> k.exact, reply |-> k.reply]
  <2> HIDE DEF c, reply, at, of
  <2> QED BY <1>4
<1>7. KeeperFits(k, now, Kept(memory, now))
  <2> HIDE DEF c, reply, at, of
  <2> QED BY <1>2, <1>3, <1>6 DEF KeeperFits
<1>8. HidesNothing(k, now)
  <2>1. ASSUME k.at = "told", k.of.op = "recall", k.of.options.trust = None
        PROVE  \/ Len(k.reply) = k.of.options.limit
               \/ \A m \in Range(k.seen) :
                    WantedAt(k.of.options, m, now) /\ Matching(k.of.options, m) =>
                      \/ m \in Range(k.reply)
                      \/ \E t \in Range(k.seen) : t.trust = "trusted" /\ m.slug \in t.over \ {t.slug}
    <3>1. k.of = c.of /\ c.of \in Requests /\ c.of.op = "recall"
      <4> HIDE DEF c, at, of
      <4> QED BY <1>3, <1>6, <2>1
    <3>2. c.of.options.limit \in Nat /\ c.of.options.trust = None
      BY <2>1, <3>1, RequestAssumption
    <3>3. k.reply = recall(c.of.options, c.seen)
      <4>1. reply = recall(c.of.options, c.seen)
        BY <3>1 DEF Answer
      <4> HIDE DEF c, reply, at, of
      <4> QED BY <1>6, <4>1
    <3>4. \A o, m : WantedAt(o, m, now) = Wanted(o, m)
      BY DEF WantedAt, Wanted
    <3>5. now \in Nat
      BY MemoryIsIndexed
    <3> HIDE DEF c, reply, at, of
    <3>6. \/ Len(recall(c.of.options, c.seen)) = c.of.options.limit
          \/ \A m \in Range(c.seen) :
               Wanted(c.of.options, m) /\ Matching(c.of.options, m) =>
                 \/ m \in Range(recall(c.of.options, c.seen))
                 \/ \E t \in Range(c.seen) : t.trust = "trusted" /\ m.slug \in t.over \ {t.slug}
      BY <1>2, <3>2, <3>5, RecallHides
    <3> QED BY <1>6, <3>1, <3>3, <3>4, <3>6
  <2> QED BY <2>1 DEF HidesNothing
<1> QED BY <1>1, <1>5, <1>7, <1>8, KeeperGoesOn

LEMMA CloseKeeps ==
    ASSUME MemoryInv, NEW p \in Keepers, Close(p)
    PROVE  MemoryInv'
<1>1. memo' = [memo EXCEPT ![p] = IdleKeeper] /\ memory' = memory /\ now' = now /\ requests' = requests
  BY DEF Close, Done
<1>2. requests' \in 0..MaxRequests
  BY <1>1, MemoryIsIndexed
<1> QED BY <1>1, <1>2, IdleFits, KeeperGoesOn

LEMMA MemoryStep == MemoryInv /\ [MemoryNext]_memoryVars => MemoryInv'
<1> SUFFICES ASSUME MemoryInv, [MemoryNext]_memoryVars PROVE MemoryInv'
  OBVIOUS
<1>1. CASE UNCHANGED memoryVars
  <2>1. now' \in 1..MaxNow /\ now <= now' /\ requests' \in 0..MaxRequests /\ memory' = memory /\ memo' = memo
    BY <1>1, MemoryIsIndexed DEF memoryVars, MemoryInv
  <2> QED BY <2>1, MemoryKeeps
<1>2. CASE Tick
  <2>1. MaxNow \in Nat
    BY RequestAssumption
  <2>2. now' \in 1..MaxNow /\ now <= now' /\ requests' \in 0..MaxRequests /\ memory' = memory /\ memo' = memo
    BY <1>2, <2>1, MemoryIsIndexed DEF Tick
  <2> QED BY <2>2, MemoryKeeps
<1>3. ASSUME NEW p \in Keepers,
             \/ \E r \in Requests : GiveRequest(p, r)
             \/ Remember(p) \/ Look(p) \/ Promote(p)
             \/ Exact(p) \/ Count(p) \/ ListMemory(p) \/ ReadFile(p) \/ Tell(p) \/ Close(p)
      PROVE  MemoryInv'
  BY <1>3, GiveRequestKeeps, RememberKeeps, LookKeeps, PromoteKeeps, ExactKeeps, CountKeeps, ListMemoryKeeps,
     ReadFileKeeps, TellKeeps, CloseKeeps
<1> QED BY <1>1, <1>2, <1>3 DEF MemoryNext

LEMMA MemoryTells == MemoryInv => ImportsAreContained
<1> SUFFICES ASSUME MemoryInv PROVE ImportsAreContained
  OBVIOUS
<1>1. MemoryTypeOK
  <2>1. now \in 1..MaxNow /\ requests \in 0..MaxRequests
    BY DEF MemoryInv
  <2>2. \A s \in DOMAIN memory : memory[s] # None =>
          memory[s].slug = s /\ memory[s].created \in 1..now /\ memory[s].trust \in {"trusted", "untrusted"}
    BY MemoryIsIndexed DEF MemoryInv, MethodFits, Readable
  <2>3. \A p \in Keepers : memo[p].at \in {"idle", "write", "look", "promote", "exact", "count", "list", "read", "told"}
    BY MemoryIsIndexed DEF KeeperFits
  <2> QED BY <2>1, <2>2, <2>3 DEF MemoryTypeOK
<1>2. ImportsAreConfirmed
  <2> SUFFICES ASSUME NEW s \in Stored, memory[s] # None, memory[s].trust = "trusted", Imported(memory[s].body.text)
               PROVE  /\ memory[s].ref \in {r.ref : r \in AddsOf(memory[s].body.text)} \ {None}
                      /\ memory[s].by # << >> /\ memory[s].ref \notin Range(memory[s].by) /\ IsInjective(memory[s].by)
    BY MemoryIsIndexed DEF ImportsAreConfirmed
  <2>1. IsContained(memory[s])
    BY DEF MemoryInv, MethodFits
  <2> QED BY <2>1 DEF IsContained
<1>3. OnlyTrustedHides
  <2>1. \A o, m : WantedAt(o, m, now) = Wanted(o, m)
    BY DEF WantedAt, Wanted
  <2>2. \A p \in Keepers : HidesNothing(memo[p], now)
    BY MemoryIsIndexed
  <2> QED BY <2>1, <2>2 DEF HidesNothing, OnlyTrustedHides
<1> QED BY <1>1, <1>2, <1>3 DEF ImportsAreContained

\* An imported text becomes trusted by confirmation alone, and while it is
\* not it hides no other record (fs-experience-store.ts promote, recall).
THEOREM ImportsAreAlwaysContained == MemorySpec => []ImportsAreContained
<1> QED BY MemoryStarts, MemoryStep, MemoryTells, PTL DEF MemorySpec

=============================================================================
