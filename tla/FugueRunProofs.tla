--------------------------- MODULE FugueRunProofs ---------------------------
(***************************************************************************)
(* Proofs about FugueRun and its two parts, in this order:                 *)
(*   RoundCache   what the cache of a round promises, for any tasks,       *)
(*                manifests and any number of commands                     *)
(*   ReviewLoop   what the review loop promises, for any caps, any number  *)
(*                of findings and any number of records that die           *)
(*   FugueRun     the cache and the loop are what they were on their own,  *)
(*                and the advice of `run next` is safe                     *)
(* The first and the last hold under an operator who does not declare a    *)
(* round anew while a command is at work on it.                            *)
(***************************************************************************)
EXTENDS FugueRun, FiniteSetTheorems, TLAPS

-----------------------------------------------------------------------------
(* The round cache.                                                        *)

(***************************************************************************)
(* The inductive invariant.  A put knows that its copy is whole when it is *)
(* to be placed, and that its result is when the status is to be written; a*)
(* barrier knows of every task behind it that it has returned, and on its  *)
(* second reading that it has a result.                                    *)
(***************************************************************************)
PutsAreOrdered ==
    \A id \in Ids :
        /\ report[id] = "copying" => temp[id] # "absent"
        /\ report[id] = "copied" => temp[id] = "whole"
        /\ report[id] = "placed" => result[id] = "whole"

Behind(i) == i < barrier.at

BarrierKnows ==
    barrier # None =>
        /\ barrier.over = manifest
        /\ \A i \in DOMAIN barrier.over :
             /\ Behind(i) \/ barrier.recheck => status[barrier.over[i]] # "pending"
             /\ Behind(i) /\ barrier.recheck => result[barrier.over[i]] = "whole"

PassHasRound == passed # "no" => manifest # None

CacheInv ==
    /\ CacheTypeOK
    /\ PutsAreOrdered
    /\ DoneIsCached
    /\ BarrierKnows
    /\ PassHasRound
    /\ PassIsEarned

-----------------------------------------------------------------------------
\* Every line of a declared manifest names a task, and these are the declared tasks.
LEMMA ManifestLines ==
    ASSUME NEW m \in Manifests
    PROVE  /\ m \in Seq(Ids)
           /\ Len(m) \in Nat \ {0}
           /\ DOMAIN m = 1..Len(m)
           /\ \A i \in 1..Len(m) : m[i] \in Ids
           /\ Range(m) = {m[i] : i \in 1..Len(m)}
           /\ m # None
<1>1. m \in Seq(Ids) /\ m # <<>> /\ m # None
  BY ManifestsAssumption
<1>2. DOMAIN m = 1..Len(m) /\ Len(m) \in Nat /\ \A i \in 1..Len(m) : m[i] \in Ids
  BY <1>1
<1>3. Len(m) # 0
  BY <1>1, <1>2
<1> QED
  BY <1>1, <1>2, <1>3 DEF Range

\* A round with nothing in it satisfies the invariant.
LEMMA CacheInitially == CacheInit => CacheInv
  BY DEF CacheInit, CacheInv, CacheTypeOK, PutsAreOrdered, DoneIsCached, BarrierKnows, PassHasRound,
         PassIsEarned, Resume, declared, Contents

\* A declared task stays declared and the tasks are ids.
LEMMA DeclaredAreIds ==
    ASSUME CacheTypeOK
    PROVE  declared \subseteq Ids
<1>1. CASE manifest = None
  BY <1>1 DEF declared
<1>2. CASE manifest \in Manifests
  BY <1>2, ManifestLines DEF declared
<1> QED
  BY <1>1, <1>2 DEF CacheTypeOK

(***************************************************************************)
(* What no step of a put or fail takes back: the round and the barriers are*)
(* as they were, a returned task stays so, and a whole result stays whole. *)
(***************************************************************************)
Grows ==
    /\ UNCHANGED <<manifest, barrier, passed>>
    /\ \A x \in Ids : /\ status[x] # "pending" => status'[x] # "pending"
                      /\ result[x] = "whole" => result'[x] = "whole"

LEMMA ReportGrows ==
    ASSUME CacheTypeOK, PutsAreOrdered, DoneIsCached, NEW id \in Ids, Reports(id)
    PROVE  CacheTypeOK' /\ PutsAreOrdered' /\ DoneIsCached' /\ Grows
<1> USE DEF CacheTypeOK, Contents, PutsAreOrdered, DoneIsCached, Grows, To
<1>1. CASE StartPut(id)
  BY <1>1 DEF StartPut
<1>2. CASE BeginCopy(id)
  BY <1>2 DEF BeginCopy
<1>3. CASE EndCopy(id)
  BY <1>3 DEF EndCopy
<1>4. CASE Place(id)
  BY <1>4 DEF Place
<1>5. CASE MarkDone(id)
  BY <1>5 DEF MarkDone
<1>6. CASE StartFail(id)
  BY <1>6 DEF StartFail
<1>7. CASE MarkFail(id)
  BY <1>7 DEF MarkFail
<1>8. CASE CommandDies(id)
  BY <1>8 DEF CommandDies
<1> QED
  BY <1>1, <1>2, <1>3, <1>4, <1>5, <1>6, <1>7, <1>8 DEF Reports

\* What a barrier knows, and what it has answered, survives whatever only grows.
LEMMA GrowsKeeps ==
    ASSUME CacheInv, Grows
    PROVE  BarrierKnows' /\ PassHasRound' /\ PassIsEarned'
<1>1. UNCHANGED <<manifest, barrier, passed>>
  BY DEF Grows
<1>2. declared' = declared /\ declared \subseteq Ids
  BY <1>1, DeclaredAreIds DEF declared, CacheInv
<1>3. PassHasRound'
  BY <1>1 DEF CacheInv, PassHasRound
<1>4. PassIsEarned'
  BY <1>1, <1>2 DEF CacheInv, PassIsEarned, Resume, Grows
<1>5. BarrierKnows'
  <2>1. barrier # None =>
          \A i \in DOMAIN barrier.over :
            /\ Behind(i) \/ barrier.recheck => status'[barrier.over[i]] # "pending"
            /\ Behind(i) /\ barrier.recheck => result'[barrier.over[i]] = "whole"
    <3> SUFFICES ASSUME barrier # None, NEW i \in DOMAIN barrier.over
                 PROVE  /\ Behind(i) \/ barrier.recheck => status'[barrier.over[i]] # "pending"
                        /\ Behind(i) /\ barrier.recheck => result'[barrier.over[i]] = "whole"
      OBVIOUS
    <3>1. barrier.over \in Manifests
      BY DEF CacheInv, CacheTypeOK, Barriers
    <3>2. barrier.over[i] \in Ids
      BY <3>1, ManifestLines
    <3> QED
      BY <3>2 DEF CacheInv, BarrierKnows, Grows
  <2>2. barrier # None => barrier.over = manifest
    BY DEF CacheInv, BarrierKnows
  <2> QED
    BY <1>1, <2>1, <2>2 DEF BarrierKnows, Behind
<1> QED
  BY <1>3, <1>4, <1>5

\* A step of a put or fail preserves the invariant.
LEMMA ReportStep ==
    ASSUME CacheInv, NEW id \in Ids, Reports(id)
    PROVE  CacheInv'
<1>1. CacheTypeOK' /\ PutsAreOrdered' /\ DoneIsCached' /\ Grows
  BY ReportGrows DEF CacheInv
<1> QED
  BY <1>1, GrowsKeeps DEF CacheInv

\* A new declaration starts with nothing returned: nobody is at work on what it removes.
LEMMA WipeStep ==
    ASSUME CacheInv, Careful, Wipe
    PROVE  CacheInv'
<1>1. barrier = None /\ \A id \in Ids : report[id] = "idle"
  BY DEF Wipe
<1> QED
  BY <1>1 DEF Wipe, CacheInv, CacheTypeOK, Contents, PutsAreOrdered, DoneIsCached, BarrierKnows,
              PassHasRound, PassIsEarned

\* A manifest is written where there was none, so that nothing had passed or was looking.
LEMMA DeclareStep ==
    ASSUME CacheInv, NEW m \in Manifests, Declare(m)
    PROVE  CacheInv'
<1>1. barrier = None
  BY ManifestsAssumption DEF CacheInv, CacheTypeOK, Barriers, BarrierKnows, Declare
<1>2. passed = "no"
  BY DEF CacheInv, CacheTypeOK, PassHasRound, Declare
<1> QED
  BY <1>1, <1>2 DEF Declare, CacheInv, CacheTypeOK, PutsAreOrdered, DoneIsCached, BarrierKnows,
                    PassHasRound, PassIsEarned

-----------------------------------------------------------------------------
\* The entry under a barrier's eye is a task of the manifest the round still has.
LEMMA LookedIsDeclared ==
    ASSUME CacheInv, barrier # None
    PROVE  /\ barrier \in Barriers
           /\ barrier.over = manifest /\ manifest \in Manifests
           /\ barrier.at \in 1..Len(barrier.over)
           /\ DOMAIN barrier.over = 1..Len(barrier.over)
           /\ \A i \in 1..Len(barrier.over) : barrier.over[i] \in Ids
           /\ declared = {barrier.over[i] : i \in 1..Len(barrier.over)}
<1>1. barrier \in Barriers /\ barrier.over = manifest /\ barrier.at <= Len(barrier.over)
  BY DEF CacheInv, CacheTypeOK, BarrierKnows
<1>2. manifest \in Manifests /\ barrier.at \in Nat \ {0}
  BY <1>1 DEF Barriers
<1> QED
  BY <1>1, <1>2, ManifestLines DEF declared

\* Its two readings together show that a task has a result.
LEMMA RecheckedHasResult ==
    ASSUME CacheInv, barrier # None, barrier.recheck, Acceptable(looked)
    PROVE  result[looked] = "whole"
<1>1. looked \in Ids /\ status[looked] # "pending"
  BY LookedIsDeclared DEF looked, CacheInv, BarrierKnows
<1> QED
  BY <1>1 DEF Acceptable, CacheInv, CacheTypeOK, DoneIsCached

LEMMA JoinStep ==
    ASSUME CacheInv, Joins
    PROVE  CacheInv'
<1> SUFFICES ASSUME UNCHANGED <<manifest, temp, result, status, report>>
             PROVE  CacheInv'
  BY DEF Joins, StartBarrier, BarrierLooks, BarrierRechecks, BarrierPasses, BarrierWaits, BarrierRefuses
<1>0. PutsAreOrdered' /\ DoneIsCached' /\ declared' = declared
  BY DEF CacheInv, PutsAreOrdered, DoneIsCached, declared
<1>1. CASE \E strict \in BOOLEAN : StartBarrier(strict)
  <2>1. PICK strict \in BOOLEAN : StartBarrier(strict)
    BY <1>1
  <2>2. manifest \in Manifests
    BY <2>1 DEF StartBarrier, CacheInv, CacheTypeOK
  <2>3. Len(manifest) \in Nat \ {0} /\ DOMAIN manifest = 1..Len(manifest)
    BY <2>2, ManifestLines
  <2>4. barrier' = [over |-> manifest, at |-> 1, strict |-> strict, recheck |-> FALSE] /\ passed' = passed
    BY <2>1 DEF StartBarrier
  <2>5. CacheTypeOK'
    BY <2>2, <2>3, <2>4 DEF CacheInv, CacheTypeOK, Barriers
  <2>6. BarrierKnows'
    BY <2>2, <2>3, <2>4 DEF BarrierKnows, Behind
  <2> QED
    BY <1>0, <2>4, <2>5, <2>6 DEF CacheInv, PassHasRound, PassIsEarned, Resume
<1>2. CASE BarrierLooks
  <2> USE <1>2 DEF BarrierLooks
  <2>1. barrier' = [barrier EXCEPT !.at = @ + 1] /\ passed' = passed /\ barrier.at < Len(barrier.over)
    OBVIOUS
  <2>2. barrier' \in Barriers /\ barrier'.at = barrier.at + 1 /\ barrier'.over = barrier.over
        /\ barrier'.recheck = barrier.recheck
    BY <2>1, LookedIsDeclared DEF Barriers
  <2>3. CacheTypeOK'
    BY <2>1, <2>2, LookedIsDeclared DEF CacheInv, CacheTypeOK
  <2>4. BarrierKnows'
    <3> SUFFICES ASSUME NEW i \in 1..Len(barrier.over), i <= barrier.at \/ barrier.recheck
                 PROVE  /\ status[barrier.over[i]] # "pending"
                        /\ i <= barrier.at /\ barrier.recheck => result[barrier.over[i]] = "whole"
      BY <2>2, LookedIsDeclared DEF BarrierKnows, Behind
    <3>1. CASE i = barrier.at
      BY <3>1, RecheckedHasResult, LookedIsDeclared DEF looked, IsTerminal, CacheInv, BarrierKnows
    <3>2. CASE i # barrier.at
      BY <3>2, LookedIsDeclared DEF CacheInv, BarrierKnows, Behind
    <3> QED
      BY <3>1, <3>2
  <2> QED
    BY <1>0, <2>1, <2>3, <2>4 DEF CacheInv, PassHasRound, PassIsEarned, Resume
<1>3. CASE BarrierRechecks
  <2> USE <1>3 DEF BarrierRechecks
  <2>1. barrier' = [over |-> barrier.over, at |-> 1, strict |-> TRUE, recheck |-> TRUE] /\ passed' = passed
    OBVIOUS
  <2>2. barrier' \in Barriers /\ barrier'.at = 1 /\ barrier'.over = barrier.over
    BY <2>1, LookedIsDeclared DEF Barriers
  <2>3. CacheTypeOK'
    BY <2>1, <2>2, LookedIsDeclared DEF CacheInv, CacheTypeOK
  <2>4. BarrierKnows'
    <3>1. \A i \in 1..Len(barrier.over) : status[barrier.over[i]] # "pending"
      BY LookedIsDeclared DEF looked, IsTerminal, CacheInv, BarrierKnows, Behind
    <3> QED
      BY <2>2, <3>1, LookedIsDeclared DEF BarrierKnows, Behind
  <2> QED
    BY <1>0, <2>1, <2>3, <2>4 DEF CacheInv, PassHasRound, PassIsEarned, Resume
<1>4. CASE BarrierPasses
  <2> USE <1>4 DEF BarrierPasses
  <2>1. CacheTypeOK' /\ BarrierKnows' /\ PassHasRound'
    BY LookedIsDeclared, ManifestsAssumption DEF CacheInv, CacheTypeOK, BarrierKnows, PassHasRound
  <2>2. \A i \in 1..Len(barrier.over) : status[barrier.over[i]] # "pending"
    BY LookedIsDeclared DEF looked, IsTerminal, CacheInv, BarrierKnows, Behind
  <2>3. barrier.strict => barrier.recheck /\ Acceptable(looked)
    OBVIOUS
  <2>4. barrier.strict => \A i \in 1..Len(barrier.over) : result[barrier.over[i]] = "whole"
    BY <2>3, LookedIsDeclared, RecheckedHasResult DEF looked, CacheInv, BarrierKnows, Behind
  <2>5. passed' = "succeeded" => barrier.strict
    OBVIOUS
  <2>6. PassIsEarned'
    BY <1>0, <2>2, <2>4, <2>5, LookedIsDeclared DEF PassIsEarned, Resume
  <2> QED
    BY <1>0, <2>1, <2>6 DEF CacheInv
<1>5. CASE BarrierWaits
  <2> USE <1>5 DEF BarrierWaits
  <2>1. barrier' \in Barriers /\ barrier'.at = 1 /\ barrier'.over = barrier.over /\ ~barrier'.recheck
    BY LookedIsDeclared DEF Barriers
  <2>2. CacheTypeOK' /\ BarrierKnows'
    BY <2>1, LookedIsDeclared DEF CacheInv, CacheTypeOK, BarrierKnows, Behind
  <2> QED
    BY <1>0, <2>2 DEF CacheInv, PassHasRound, PassIsEarned, Resume
<1>6. CASE BarrierRefuses
  BY <1>0, <1>6 DEF BarrierRefuses, CacheInv, CacheTypeOK, BarrierKnows, PassHasRound, PassIsEarned, Resume
<1> QED
  BY <1>1, <1>2, <1>3, <1>4, <1>5, <1>6 DEF Joins

-----------------------------------------------------------------------------
\* Every step of the cache, and standing still, preserve the invariant.
LEMMA CacheInductive ==
    ASSUME CacheInv, Careful, [CacheNext]_cacheVars
    PROVE  CacheInv'
<1>1. CASE CacheNext
  BY <1>1, WipeStep, DeclareStep, ReportStep, JoinStep DEF CacheNext
<1>2. CASE UNCHANGED cacheVars
  BY <1>2 DEF cacheVars, CacheInv, CacheTypeOK, PutsAreOrdered, DoneIsCached, BarrierKnows, Behind,
              PassHasRound, PassIsEarned, Resume, declared
<1> QED
  BY <1>1, <1>2

(***************************************************************************)
(* The invariant holds in every behaviour of the cache's commands          *)
(* (cache.ts:144-266) under a careful operator.                            *)
(***************************************************************************)
THEOREM CacheInvCorrect == Careful => (CacheSpec => []CacheInv)
<1> SUFFICES ASSUME Careful
             PROVE  CacheSpec => []CacheInv
  OBVIOUS
<1>1. CacheInit => CacheInv
  BY CacheInitially
<1>2. CacheInv /\ [CacheNext]_cacheVars => CacheInv'
  BY CacheInductive
<1> QED
  BY <1>1, <1>2, PTL DEF CacheSpec

(***************************************************************************)
(* A task marked done has its whole result in the cache (cache.ts:173-178),*)
(* whichever commands died, for any number of tasks.                       *)
(***************************************************************************)
THEOREM DoneIsCachedAlways == Careful => (CacheSpec => []DoneIsCached)
<1>1. CacheInv => DoneIsCached
  BY DEF CacheInv
<1> QED
  BY <1>1, CacheInvCorrect, PTL

(***************************************************************************)
(* A barrier that answers exit code 0 (cache.ts:212-243) leaves nothing to *)
(* resume, and with --require-success every result to collect, although it *)
(* reads the status files one by one while they change.                    *)
(***************************************************************************)
THEOREM PassIsEarnedAlways == Careful => (CacheSpec => []PassIsEarned)
<1>1. CacheInv => PassIsEarned
  BY DEF CacheInv
<1> QED
  BY <1>1, CacheInvCorrect, PTL

-----------------------------------------------------------------------------
(* The review loop.                                                        *)

AtHand == turn \in {"record", "saved"}

-----------------------------------------------------------------------------
(***************************************************************************)
(* The inductive invariant, part by part.                                  *)
(***************************************************************************)

\* Before `loop init` there is nothing; the rows are numbered as they come.
RowsAreNumbered ==
    /\ turn = "off" => meta = Unset /\ rounds = <<>> /\ reviews = <<>> /\ decided = Unset
    /\ turn # "off" => meta \in Metas
    /\ \A i \in DOMAIN rounds : rounds[i].round = i
    /\ AtHand => row.round = Len(rounds) + 1 /\ row.intentFindings <= row.findings
    /\ turn \in {"decide", "over"} => rounds # <<>>
    /\ decided \in {"DONE", "ESCALATE_MAX", "ESCALATE_NONCONV"} => turn = "over"

\* A further round is begun below the cap, or at the cap to confirm an accepted one.
RoomForOneMore ==
    /\ turn = "review" \/ AtHand =>
         \/ Len(rounds) < meta.max
         \/ Len(rounds) = meta.max /\ Accepted(rounds) # {}
    /\ turn = "decide" =>
         \/ Len(rounds) <= meta.max
         \/ Len(rounds) = meta.max + 1 /\ \E i \in Accepted(rounds) : i < Len(rounds)
    /\ turn = "over" => Len(rounds) <= meta.max + 1

\* Every row was reviewed, and no review is behind two rows.
Embeds(f) ==
    /\ f \in [DOMAIN rounds -> DOMAIN reviews]
    /\ \A i \in DOMAIN rounds : reviews[f[i]] = rounds[i]
    /\ \A i, j \in DOMAIN rounds : i # j => f[i] # f[j]
    /\ AtHand => \A i \in DOMAIN rounds : f[i] # Len(reviews)

RowsWereReviewed ==
    /\ Len(rounds) + (IF AtHand THEN 1 ELSE 0) <= Len(reviews)
    /\ AtHand => row = reviews[Len(reviews)]
    /\ turn # "off" => \E f : Embeds(f)

\* The best is the least, and a commit that was reviewed with just as many findings.
BestIsLeast ==
    turn # "off" =>
        /\ rounds # <<>> => meta.bestN >= 0
        /\ \A i \in DOMAIN rounds : meta.bestN <= rounds[i].findings
        /\ turn = "saved" => meta.bestN >= 0 /\ meta.bestN <= row.findings
        /\ meta.bestN >= 0 =>
             \E i \in DOMAIN reviews : reviews[i].sha = meta.bestSha /\ reviews[i].findings = meta.bestN

Names(i) == meta.bestN = rounds[i].findings /\ meta.bestSha = rounds[i].sha

SavedAhead ==
    /\ meta.bestN = row.findings /\ meta.bestSha = row.sha
    /\ \A i \in DOMAIN rounds : row.findings < rounds[i].findings

\* While no review was made in vain, `meta` names the first best row, or the one at hand
\* if that one is better and was saved.
BestIsFirst ==
    turn # "off" /\ Len(reviews) = Len(rounds) + (IF AtHand THEN 1 ELSE 0) =>
        \/ turn # "saved" /\ rounds = <<>> /\ meta.bestN < 0
        \/ turn # "saved" /\ \E i \in DOMAIN rounds : IsFirstBest(rounds, i) /\ Names(i)
        \/ AtHand /\ SavedAhead

LoopInv ==
    /\ LoopTypeOK
    /\ RowsAreNumbered
    /\ RoomForOneMore
    /\ RowsWereReviewed
    /\ BestIsLeast
    /\ BestIsFirst
    /\ DoneIsEarned

-----------------------------------------------------------------------------
\* A table of rounds, and the table with one more.
LEMMA Lines ==
    ASSUME NEW s \in Seq(Rows)
    PROVE  /\ Len(s) \in Nat
           /\ DOMAIN s = 1..Len(s)
           /\ \A i \in 1..Len(s) : s[i] \in Rows
           /\ s = <<>> <=> Len(s) = 0
  OBVIOUS

LEMMA OneMoreLine ==
    ASSUME NEW s \in Seq(Rows), NEW r \in Rows
    PROVE  /\ Append(s, r) \in Seq(Rows)
           /\ Len(Append(s, r)) = Len(s) + 1
           /\ DOMAIN Append(s, r) = 1..(Len(s) + 1)
           /\ \A i \in 1..Len(s) : Append(s, r)[i] = s[i]
           /\ Append(s, r)[Len(s) + 1] = r
  OBVIOUS

\* What a row says of its findings, and a verdict other than ACCEPTED.
LEMMA RowFields ==
    ASSUME NEW r \in Rows
    PROVE  /\ r.findings \in Int /\ r.findings >= 0
           /\ r.round \in Nat
           /\ r.intentFindings \in Int
           /\ r.verdict \in Verdicts
           /\ r.sha \in Nat
  BY MaxFindingsAssumption DEF Rows

LEMMA MetaFields ==
    ASSUME NEW m \in Metas
    PROVE  m.max \in Nat \ {0} /\ m.bestN \in Int /\ m.bestSha \in Nat /\ m.fast \in BOOLEAN
<1>1. m.max \in Caps /\ m.bestN \in -1..MaxFindings /\ m.bestSha \in Nat /\ m.fast \in BOOLEAN
  BY DEF Metas
<1>2. m.max \in Nat \ {0}
  BY <1>1, CapsAssumption
<1>3. m.bestN \in Int
  BY <1>1, MaxFindingsAssumption
<1> QED
  BY <1>1, <1>2, <1>3

-----------------------------------------------------------------------------
\* A set of positions holds two of them as soon as two are different, and only then.
LEMMA TwoAccepted ==
    ASSUME NEW s \in Seq(Rows)
    PROVE  Cardinality(Accepted(s)) >= Confirmations <=> \E i, j \in Accepted(s) : i # j
<1>1. Accepted(s) \subseteq 1..Len(s) /\ Len(s) \in Nat
  BY Lines DEF Accepted
<1>2. IsFiniteSet(Accepted(s)) /\ Cardinality(Accepted(s)) \in Nat
  <2>1. IsFiniteSet(1..Len(s))
    BY <1>1, FS_Interval
  <2>2. IsFiniteSet(Accepted(s))
    BY <1>1, <2>1, FS_Subset
  <2> QED
    BY <2>2, FS_CardinalityType
<1>3. ASSUME NEW i \in Accepted(s), NEW j \in Accepted(s), i # j
      PROVE  Cardinality(Accepted(s)) >= 2
  <2>1. IsFiniteSet({i}) /\ Cardinality({i}) = 1
    BY FS_Singleton
  <2>2. Cardinality({i} \cup {j}) = Cardinality({i}) + 1
    <3>1. j \notin {i}
      BY <1>3
    <3> QED
      BY <2>1, <3>1, FS_AddElement
  <2>3. {i} \cup {j} \in SUBSET Accepted(s)
    OBVIOUS
  <2>4. Cardinality({i} \cup {j}) <= Cardinality(Accepted(s))
    BY <1>2, <2>3, FS_Subset
  <2> QED
    BY <1>2, <2>1, <2>2, <2>4
<1>4. ASSUME \A i, j \in Accepted(s) : i = j
      PROVE  ~(Cardinality(Accepted(s)) >= 2)
  <2>1. CASE Accepted(s) = {}
    BY <2>1, FS_EmptySet
  <2>2. CASE Accepted(s) # {}
    <3>1. PICK i \in Accepted(s) : TRUE
      BY <2>2
    <3>2. Accepted(s) = {i}
      BY <1>4, <3>1
    <3>3. Cardinality(Accepted(s)) = 1
      BY <3>2, FS_Singleton
    <3> QED
      BY <3>3
  <2> QED
    BY <2>1, <2>2
<1> QED
  BY <1>3, <1>4 DEF Confirmations

\* There is one first best position, so that bestRound is the row at any such position.
LEMMA FirstBestIsBestRound ==
    ASSUME NEW s \in Seq(Rows), NEW i \in DOMAIN s, IsFirstBest(s, i)
    PROVE  bestRound(s) = s[i]
<1> DEFINE k == CHOOSE n \in DOMAIN s : IsFirstBest(s, n)
<1>1. k \in DOMAIN s /\ IsFirstBest(s, k)
  OBVIOUS
<1>2. /\ s[k].findings \in Int /\ s[i].findings \in Int
      /\ k \in Int /\ i \in Int
  BY <1>1, Lines, RowFields
<1>3. /\ s[k].findings < s[i].findings \/ (s[k].findings = s[i].findings /\ k <= i)
      /\ s[i].findings < s[k].findings \/ (s[i].findings = s[k].findings /\ i <= k)
  BY <1>1 DEF IsFirstBest
<1>4. k = i
  BY <1>2, <1>3
<1> QED
  BY <1>4 DEF bestRound

-----------------------------------------------------------------------------
\* Nothing has been started.
LEMMA LoopInitially == LoopInit => LoopInv
<1> SUFFICES ASSUME LoopInit
             PROVE  LoopInv
  OBVIOUS
<1> USE DEF LoopInit
<1>1. LoopTypeOK
  BY DEF LoopTypeOK
<1>2. RowsAreNumbered
  BY UnsetAssumption DEF RowsAreNumbered, AtHand, States
<1>3. RoomForOneMore /\ RowsWereReviewed /\ BestIsLeast /\ BestIsFirst
  BY DEF RoomForOneMore, RowsWereReviewed, BestIsLeast, BestIsFirst, AtHand
<1>4. DoneIsEarned
  BY UnsetAssumption DEF DoneIsEarned, States
<1> QED
  BY <1>1, <1>2, <1>3, <1>4 DEF LoopInv

LEMMA StartStep ==
    ASSUME LoopInv, NEW max \in Caps, NEW fast \in BOOLEAN, Start(max, fast)
    PROVE  LoopInv'
<1> USE DEF Start
<1>1. meta' \in Metas /\ meta'.bestN = -1 /\ meta'.max = max
  BY MaxFindingsAssumption DEF Metas, LoopInv, LoopTypeOK
<1>2. rounds = <<>> /\ reviews = <<>> /\ rounds' = <<>> /\ reviews' = <<>> /\ decided' = Unset
  BY DEF LoopInv, RowsAreNumbered
<1>3. LoopTypeOK'
  BY <1>1, <1>2 DEF LoopInv, LoopTypeOK
<1>4. RowsAreNumbered'
  BY <1>1, <1>2, UnsetAssumption DEF RowsAreNumbered, AtHand, States
<1>5. RoomForOneMore'
  BY <1>1, <1>2, CapsAssumption DEF RoomForOneMore, AtHand
<1>6. RowsWereReviewed'
  <2>1. Embeds(<<>>)'
    BY <1>2 DEF Embeds, AtHand
  <2> QED
    BY <1>2, <2>1 DEF RowsWereReviewed, AtHand
<1>7. BestIsLeast' /\ BestIsFirst'
  BY <1>1, <1>2 DEF BestIsLeast, BestIsFirst, AtHand
<1>8. DoneIsEarned'
  BY <1>2, UnsetAssumption DEF DoneIsEarned, States
<1> QED
  BY <1>3, <1>4, <1>5, <1>6, <1>7, <1>8 DEF LoopInv

\* A review adds itself to the history and nothing to the files.
LEMMA ReviewStep ==
    ASSUME LoopInv, NEW r, r.round = Len(rounds) + 1, Review(r)
    PROVE  LoopInv'
<1>1. /\ turn = "review" /\ turn' = "record"
      /\ r \in Rows /\ r.intentFindings <= r.findings
      /\ row' = r /\ reviews' = Append(reviews, r)
      /\ UNCHANGED <<meta, rounds, tree, decided>>
  BY DEF Review, Admitted
<1>2. rounds \in Seq(Rows) /\ reviews \in Seq(Rows)
  BY DEF LoopInv, LoopTypeOK
<1>3. /\ reviews' \in Seq(Rows) /\ Len(reviews') = Len(reviews) + 1
      /\ DOMAIN reviews' = 1..(Len(reviews) + 1)
      /\ \A i \in 1..Len(reviews) : reviews'[i] = reviews[i]
      /\ reviews'[Len(reviews) + 1] = r
  BY <1>1, <1>2, OneMoreLine
<1>4. /\ Len(reviews) \in Nat /\ DOMAIN reviews = 1..Len(reviews)
      /\ Len(rounds) \in Nat /\ DOMAIN rounds = 1..Len(rounds)
  BY <1>2, Lines
<1>5. LoopTypeOK'
  BY <1>1, <1>3 DEF LoopInv, LoopTypeOK
<1>6. RowsAreNumbered'
  BY <1>1 DEF LoopInv, RowsAreNumbered, AtHand
<1>7. RoomForOneMore'
  BY <1>1 DEF LoopInv, RoomForOneMore, AtHand, Accepted
<1>8. RowsWereReviewed'
  <2>1. PICK f : Embeds(f)
    BY <1>1 DEF LoopInv, RowsWereReviewed
  <2>2. \A i \in DOMAIN rounds : f[i] \in DOMAIN reviews /\ f[i] # Len(reviews) + 1
    BY <1>4, <2>1 DEF Embeds
  <2>3. f \in [DOMAIN rounds -> DOMAIN reviews']
    BY <1>3, <1>4, <2>1 DEF Embeds
  <2>4. Embeds(f)'
    BY <1>1, <1>3, <1>4, <2>1, <2>2, <2>3 DEF Embeds
  <2>5. Len(rounds) <= Len(reviews)
    BY <1>1 DEF LoopInv, RowsWereReviewed, AtHand
  <2> QED
    BY <1>1, <1>3, <1>4, <2>4, <2>5 DEF RowsWereReviewed, AtHand
<1>9. BestIsLeast'
  BY <1>1, <1>3, <1>4 DEF LoopInv, BestIsLeast
<1>10. BestIsFirst'
  <2>1. ASSUME Len(reviews') = Len(rounds') + 1
        PROVE  \/ rounds = <<>> /\ meta.bestN < 0
               \/ \E i \in DOMAIN rounds : IsFirstBest(rounds, i) /\ Names(i)
    <3>1. Len(reviews) = Len(rounds)
      <4>1. Len(reviews) + 1 = Len(rounds) + 1
        BY <1>1, <1>3, <2>1
      <4>2. \A a, b \in Nat : a + 1 = b + 1 => a = b
        OBVIOUS
      <4> QED
        BY <1>4, <4>1, <4>2
    <3> QED
      BY <1>1, <1>4, <3>1 DEF LoopInv, BestIsFirst, AtHand
  <2> QED
    BY <1>1, <2>1 DEF BestIsFirst, AtHand, Names
<1>11. DoneIsEarned'
  BY <1>1 DEF LoopInv, RowsAreNumbered, DoneIsEarned
<1> QED
  BY <1>5, <1>6, <1>7, <1>8, <1>9, <1>10, <1>11 DEF LoopInv

-----------------------------------------------------------------------------
\* What is known of the row at hand and of `meta` while a record is at work.
LEMMA AtWork ==
    ASSUME LoopInv, AtHand
    PROVE  /\ meta \in Metas /\ meta.bestN \in Int
           /\ row \in Rows /\ row.findings \in Int /\ row.findings >= 0
           /\ row.round = Len(rounds) + 1 /\ row.intentFindings <= row.findings
           /\ rounds \in Seq(Rows) /\ Len(rounds) \in Nat /\ DOMAIN rounds = 1..Len(rounds)
           /\ reviews \in Seq(Rows) /\ Len(reviews) \in Nat /\ DOMAIN reviews = 1..Len(reviews)
           /\ Len(rounds) < Len(reviews) /\ row = reviews[Len(reviews)]
           /\ decided # "DONE" /\ turn # "off"
<1>1. meta \in Metas /\ row \in Rows /\ rounds \in Seq(Rows) /\ reviews \in Seq(Rows) /\ turn # "off"
  BY DEF LoopInv, LoopTypeOK, RowsAreNumbered, AtHand
<1>2. /\ Len(rounds) \in Nat /\ DOMAIN rounds = 1..Len(rounds)
      /\ Len(reviews) \in Nat /\ DOMAIN reviews = 1..Len(reviews)
  BY <1>1, Lines
<1>3. Len(rounds) < Len(reviews) /\ row = reviews[Len(reviews)]
  BY <1>2 DEF LoopInv, RowsWereReviewed
<1>4. decided # "DONE"
  BY DEF LoopInv, RowsAreNumbered, AtHand
<1> QED
  BY <1>1, <1>2, <1>3, <1>4, RowFields, MetaFields DEF LoopInv, RowsAreNumbered

\* Saving the best makes the row at hand the best.
LEMMA SaveBestStep ==
    ASSUME LoopInv, SaveBest
    PROVE  LoopInv'
<1>1. /\ turn = "record" /\ turn' = "saved" /\ BeatsBest /\ AtHand /\ AtHand'
      /\ meta' = [max |-> meta.max, bestN |-> row.findings, bestSha |-> row.sha, fast |-> meta.fast]
      /\ UNCHANGED <<rounds, row, tree, decided, reviews>>
  BY DEF SaveBest, AtHand
<1>2. meta' \in Metas /\ meta'.max = meta.max /\ meta'.bestN = row.findings /\ meta'.bestSha = row.sha
  BY <1>1, AtWork DEF Metas, Rows
<1>3. LoopTypeOK' /\ RowsAreNumbered'
  BY <1>1, <1>2 DEF LoopInv, LoopTypeOK, RowsAreNumbered, AtHand
<1>4. RoomForOneMore'
  BY <1>1, <1>2 DEF LoopInv, RoomForOneMore, AtHand, Accepted
<1>5. RowsWereReviewed'
  BY <1>1 DEF LoopInv, RowsWereReviewed, Embeds, AtHand
<1>6. \A i \in DOMAIN rounds : row.findings < rounds[i].findings \/ meta.bestN < 0
  BY <1>1, AtWork, Lines, RowFields DEF BeatsBest, LoopInv, BestIsLeast
<1>7. \A i \in DOMAIN rounds : row.findings < rounds[i].findings
  <2>1. DOMAIN rounds # {} => rounds # <<>>
    BY <1>1, AtWork, Lines
  <2>2. rounds # <<>> => ~(meta.bestN < 0)
    BY <1>1, AtWork DEF LoopInv, BestIsLeast
  <2> QED
    BY <1>6, <2>1, <2>2
<1>8. BestIsLeast'
  <2>1. \A i \in DOMAIN rounds : row.findings <= rounds[i].findings
    BY <1>7, AtWork, <1>1, Lines, RowFields
  <2> QED
    BY <1>1, <1>2, <2>1, AtWork DEF BestIsLeast
<1>9. BestIsFirst'
  BY <1>1, <1>2, <1>7 DEF BestIsFirst, SavedAhead
<1>10. DoneIsEarned'
  BY <1>1, AtWork DEF DoneIsEarned
<1> QED
  BY <1>3, <1>4, <1>5, <1>8, <1>9, <1>10 DEF LoopInv
\* The row at hand becomes the last row.
LEMMA AppendRowStep ==
    ASSUME LoopInv, AppendRow
    PROVE  LoopInv'
<1>1. /\ turn = "saved" \/ (turn = "record" /\ ~BeatsBest)
      /\ AtHand /\ turn' = "decide" /\ ~AtHand'
      /\ rounds' = Append(rounds, row) /\ row' = Unset
      /\ UNCHANGED <<meta, tree, decided, reviews>>
  BY DEF AppendRow, AtHand
<1> DEFINE n == Len(rounds)
<1>2. /\ meta \in Metas /\ meta.bestN \in Int /\ meta.max \in Nat
      /\ row \in Rows /\ row.findings \in Int
      /\ row.round = n + 1 /\ row.intentFindings <= row.findings
      /\ rounds \in Seq(Rows) /\ n \in Nat /\ DOMAIN rounds = 1..n
      /\ Len(reviews) \in Nat /\ DOMAIN reviews = 1..Len(reviews)
      /\ n < Len(reviews) /\ row = reviews[Len(reviews)]
      /\ turn # "off"
  BY <1>1, AtWork, MetaFields
<1>3. /\ rounds' \in Seq(Rows) /\ Len(rounds') = n + 1
      /\ DOMAIN rounds' = 1..(n + 1)
      /\ \A i \in 1..n : rounds'[i] = rounds[i]
      /\ rounds'[n + 1] = row
  BY <1>1, <1>2, OneMoreLine
<1>4. \A i \in DOMAIN rounds' : i \in DOMAIN rounds \/ i = n + 1
  BY <1>2, <1>3
<1>5. \A i \in DOMAIN rounds : i \in DOMAIN rounds' /\ rounds'[i] = rounds[i] /\ rounds[i].findings \in Int
  BY <1>2, <1>3, Lines, RowFields
<1>6. LoopTypeOK'
  <2>1. \A i \in DOMAIN rounds' : rounds'[i].intentFindings <= rounds'[i].findings
    BY <1>2, <1>3, <1>4, <1>5 DEF LoopInv, LoopTypeOK
  <2> QED
    BY <1>1, <1>3, <2>1 DEF LoopInv, LoopTypeOK
<1>7. RowsAreNumbered'
  <2>1. \A i \in DOMAIN rounds' : rounds'[i].round = i
    BY <1>2, <1>3, <1>4, <1>5 DEF LoopInv, RowsAreNumbered
  <2>2. rounds' # <<>>
    BY <1>2, <1>3
  <2>3. decided \notin {"DONE", "ESCALATE_MAX", "ESCALATE_NONCONV"}
    BY <1>1 DEF LoopInv, RowsAreNumbered
  <2> QED
    BY <1>1, <1>2, <2>1, <2>2, <2>3 DEF RowsAreNumbered
<1>8. RoomForOneMore'
  <2>1. \/ n < meta.max
        \/ n = meta.max /\ Accepted(rounds) # {}
    BY <1>1 DEF LoopInv, RoomForOneMore
  <2>2. CASE n < meta.max
    <3>1. Len(rounds') <= meta.max
      BY <1>2, <1>3, <2>2
    <3> QED
      BY <1>1, <3>1 DEF RoomForOneMore
  <2>3. CASE n = meta.max /\ Accepted(rounds) # {}
    <3>1. PICK i \in Accepted(rounds) : TRUE
      BY <2>3
    <3>2. i \in Accepted(rounds') /\ i < Len(rounds')
      BY <1>2, <1>3, <1>5, <3>1 DEF Accepted
    <3>3. Len(rounds') = meta.max + 1
      BY <1>3, <2>3
    <3> QED
      BY <1>1, <3>2, <3>3 DEF RoomForOneMore
  <2> QED
    BY <2>1, <2>2, <2>3
<1>9. RowsWereReviewed'
  <2>1. PICK f : Embeds(f)
    BY <1>2 DEF LoopInv, RowsWereReviewed
  <2>0. PICK g : g = [i \in DOMAIN rounds' |-> IF i \in DOMAIN rounds THEN f[i] ELSE Len(reviews)]
    OBVIOUS
  <2>2. /\ \A i \in DOMAIN rounds : /\ g[i] = f[i] /\ f[i] \in DOMAIN reviews
                                    /\ f[i] # Len(reviews) /\ reviews[f[i]] = rounds[i]
        /\ g[n + 1] = Len(reviews)
    BY <1>1, <1>2, <1>3, <1>5, <2>0, <2>1 DEF Embeds
  <2>3. g \in [DOMAIN rounds' -> DOMAIN reviews]
    <3>1. \A i \in DOMAIN rounds' : g[i] \in DOMAIN reviews
      BY <1>2, <1>4, <2>2
    <3> QED
      BY <2>0, <3>1
  <2>4. \A i \in DOMAIN rounds' : reviews[g[i]] = rounds'[i]
    BY <1>2, <1>3, <1>4, <1>5, <2>2
  <2>5. \A i, j \in DOMAIN rounds' : i # j => g[i] # g[j]
    <3> SUFFICES ASSUME NEW i \in DOMAIN rounds', NEW j \in DOMAIN rounds', i # j
                 PROVE  g[i] # g[j]
      OBVIOUS
    <3>1. CASE i \in DOMAIN rounds /\ j \in DOMAIN rounds
      BY <2>1, <2>2, <3>1 DEF Embeds
    <3>2. CASE i = n + 1 \/ j = n + 1
      BY <1>4, <2>2, <3>2
    <3> QED
      BY <1>4, <3>1, <3>2
  <2>6. Embeds(g)'
    BY <1>1, <2>3, <2>4, <2>5 DEF Embeds
  <2>7. Len(rounds') <= Len(reviews)
    BY <1>2, <1>3
  <2> QED
    BY <1>1, <1>2, <1>3, <2>6, <2>7 DEF RowsWereReviewed
<1>10. meta.bestN >= 0 /\ meta.bestN <= row.findings
  BY <1>1, <1>2 DEF BeatsBest, LoopInv, BestIsLeast
<1>11. BestIsLeast'
  <2>1. \A i \in DOMAIN rounds' : meta.bestN <= rounds'[i].findings
    BY <1>2, <1>3, <1>4, <1>5, <1>10 DEF LoopInv, BestIsLeast
  <2> QED
    BY <1>1, <1>2, <1>10, <2>1 DEF LoopInv, BestIsLeast
<1>12. BestIsFirst'
  <2>1. ASSUME Len(reviews) = n + 1
        PROVE  \E i \in DOMAIN rounds' : /\ IsFirstBest(rounds', i)
                                         /\ meta.bestN = rounds'[i].findings
                                         /\ meta.bestSha = rounds'[i].sha
    <3>1. \/ \E i \in DOMAIN rounds : IsFirstBest(rounds, i) /\ Names(i)
          \/ SavedAhead
      BY <1>1, <1>2, <1>10, <2>1 DEF LoopInv, BestIsFirst
    <3>2. ASSUME NEW i \in DOMAIN rounds, IsFirstBest(rounds, i), Names(i)
          PROVE  /\ IsFirstBest(rounds', i)
                 /\ meta.bestN = rounds'[i].findings
                 /\ meta.bestSha = rounds'[i].sha
      <4>1. rounds'[i] = rounds[i] /\ rounds[i].findings \in Int /\ i \in 1..n
        BY <1>2, <1>5
      <4>2. rounds[i].findings <= row.findings
        BY <1>10, <3>2 DEF Names
      <4>3. ASSUME NEW j \in DOMAIN rounds'
            PROVE  \/ rounds'[i].findings < rounds'[j].findings
                   \/ rounds'[i].findings = rounds'[j].findings /\ i <= j
        <5>1. CASE j \in DOMAIN rounds
          BY <1>5, <3>2, <4>1, <5>1 DEF IsFirstBest
        <5>2. CASE j = n + 1
          BY <1>2, <1>3, <4>1, <4>2, <5>2
        <5> QED
          BY <1>4, <5>1, <5>2
      <4> QED
        BY <3>2, <4>1, <4>3 DEF IsFirstBest, Names
    <3>3. ASSUME SavedAhead
          PROVE  /\ IsFirstBest(rounds', n + 1)
                 /\ meta.bestN = rounds'[n + 1].findings
                 /\ meta.bestSha = rounds'[n + 1].sha
      <4>1. ASSUME NEW j \in DOMAIN rounds'
            PROVE  \/ rounds'[n + 1].findings < rounds'[j].findings
                   \/ rounds'[n + 1].findings = rounds'[j].findings /\ n + 1 <= j
        BY <1>2, <1>3, <1>4, <1>5, <3>3 DEF SavedAhead
      <4> QED
        BY <1>3, <3>3, <4>1 DEF IsFirstBest, SavedAhead
    <3>4. n + 1 \in DOMAIN rounds'
      BY <1>2, <1>3
    <3> QED
      BY <1>5, <3>1, <3>2, <3>3, <3>4
  <2> QED
    BY <1>1, <1>3, <2>1 DEF BestIsFirst, Names
<1>13. DoneIsEarned'
  BY <1>1, AtWork DEF DoneIsEarned
<1> QED
  BY <1>6, <1>7, <1>8, <1>9, <1>11, <1>12, <1>13 DEF LoopInv

\* After a crash the row is still at hand, or there is one review more than rows.
LEMMA RecordDiesStep ==
    ASSUME LoopInv, RecordDies
    PROVE  LoopInv'
<1>1. /\ turn = "saved" /\ AtHand
      /\ UNCHANGED <<meta, rounds, tree, decided, reviews>>
  BY DEF RecordDies, AtHand
<1>2. /\ Len(rounds) < Len(reviews) /\ Len(rounds) \in Nat /\ Len(reviews) \in Nat
      /\ decided # "DONE"
  BY <1>1, AtWork
<1>3. DoneIsEarned'
  BY <1>1, <1>2 DEF DoneIsEarned
<1>4. CASE turn' = "record" /\ row' = row
  <2>1. AtHand'
    BY <1>4 DEF AtHand
  <2>2. LoopTypeOK' /\ RowsAreNumbered'
    BY <1>1, <1>4 DEF LoopInv, LoopTypeOK, RowsAreNumbered, AtHand
  <2>3. RoomForOneMore'
    BY <1>1, <1>4 DEF LoopInv, RoomForOneMore, AtHand, Accepted
  <2>4. RowsWereReviewed'
    BY <1>1, <1>4 DEF LoopInv, RowsWereReviewed, Embeds, AtHand
  <2>5. BestIsLeast'
    BY <1>1, <1>4 DEF LoopInv, BestIsLeast
  <2>6. BestIsFirst'
    <3>1. Len(reviews) = Len(rounds) + 1 => SavedAhead
      BY <1>1 DEF LoopInv, BestIsFirst
    <3>2. Len(reviews) = Len(rounds) + 1 => SavedAhead'
      BY <1>1, <1>4, <3>1 DEF SavedAhead
    <3> QED
      BY <1>1, <2>1, <3>2 DEF BestIsFirst
  <2> QED
    BY <1>3, <2>2, <2>3, <2>4, <2>5, <2>6 DEF LoopInv
<1>5. CASE turn' = "review" /\ row' = Unset
  <2>1. ~AtHand'
    BY <1>5 DEF AtHand
  <2>2. LoopTypeOK' /\ RowsAreNumbered'
    BY <1>1, <1>5 DEF LoopInv, LoopTypeOK, RowsAreNumbered, AtHand
  <2>3. RoomForOneMore'
    BY <1>1, <1>5 DEF LoopInv, RoomForOneMore, AtHand, Accepted
  <2>4. RowsWereReviewed'
    <3>1. PICK f : Embeds(f)
      BY <1>1 DEF LoopInv, RowsWereReviewed
    <3>2. Embeds(f)'
      BY <1>1, <2>1, <3>1 DEF Embeds
    <3> QED
      BY <1>1, <1>2, <2>1, <3>2 DEF RowsWereReviewed
  <2>5. BestIsLeast'
    BY <1>1, <1>5 DEF LoopInv, BestIsLeast
  <2>6. BestIsFirst'
    BY <1>1, <1>2, <2>1 DEF BestIsFirst
  <2> QED
    BY <1>3, <2>2, <2>3, <2>4, <2>5, <2>6 DEF LoopInv
<1> QED
  BY <1>4, <1>5 DEF RecordDies

-----------------------------------------------------------------------------
\* Two rows that are accepted were two accepted reviews.
LEMMA RowsCountAsReviews ==
    ASSUME LoopInv, turn # "off", Cardinality(Accepted(rounds)) >= Confirmations
    PROVE  Cardinality(Accepted(reviews)) >= Confirmations
<1>1. rounds \in Seq(Rows) /\ reviews \in Seq(Rows)
  BY DEF LoopInv, LoopTypeOK
<1>2. PICK i \in Accepted(rounds), j \in Accepted(rounds) : i # j
  BY <1>1, TwoAccepted
<1>3. PICK f : Embeds(f)
  BY DEF LoopInv, RowsWereReviewed
<1>4. f[i] \in Accepted(reviews) /\ f[j] \in Accepted(reviews) /\ f[i] # f[j]
  BY <1>2, <1>3 DEF Embeds, Accepted
<1> QED
  BY <1>1, <1>4, TwoAccepted

\* The loop goes on only where there is room for one round more.
LEMMA DecideStep ==
    ASSUME LoopInv, Decide
    PROVE  LoopInv'
<1> DEFINE n == Len(rounds)
<1> DEFINE last == rounds[n]
<1>1. /\ turn = "decide" /\ ~AtHand
      /\ decided' = decideLoop(rounds, meta.max, meta.fast)
      /\ turn' = IF decided' \in {"DONE", "ESCALATE_MAX", "ESCALATE_NONCONV"} THEN "over" ELSE "review"
      /\ tree' = IF decided' \in {"CONTINUE", "ASK_USER"} THEN tree + 1 ELSE tree
      /\ UNCHANGED <<meta, rounds, row, reviews>>
  BY DEF Decide, AtHand
<1>2. turn' \in {"over", "review"} /\ ~AtHand' /\ tree' \in Nat
  BY <1>1 DEF AtHand, LoopInv, LoopTypeOK
<1>3. /\ rounds \in Seq(Rows) /\ rounds # <<>> /\ meta \in Metas /\ meta.max \in Nat
      /\ n \in Nat /\ DOMAIN rounds = 1..n
  BY <1>1, Lines, MetaFields DEF LoopInv, LoopTypeOK, RowsAreNumbered
<1>4. n \in DOMAIN rounds /\ last.round = n
  BY <1>1, <1>3, Lines DEF LoopInv, RowsAreNumbered
<1>5. decided' \in States
  BY <1>1 DEF decideLoop, States
<1>6. LoopTypeOK'
  BY <1>1, <1>2, <1>5 DEF LoopInv, LoopTypeOK
<1>7. RowsAreNumbered'
  BY <1>1, <1>2 DEF LoopInv, RowsAreNumbered
<1>8. \/ n <= meta.max
      \/ n = meta.max + 1 /\ \E i \in Accepted(rounds) : i < n
  BY <1>1 DEF LoopInv, RoomForOneMore
<1>9. turn' = "review" => \/ n < meta.max
                          \/ n = meta.max /\ Accepted(rounds) # {}
  <2>1. CASE last.verdict = "ACCEPTED"
    <3>1. n \in Accepted(rounds)
      BY <1>4, <2>1 DEF Accepted
    <3>2. ASSUME NEW i \in Accepted(rounds), i < n
          PROVE  decided' = "DONE"
      <4>1. Cardinality(Accepted(rounds)) >= Confirmations
        BY <1>3, <3>1, <3>2, TwoAccepted
      <4> QED
        BY <1>1, <2>1, <4>1 DEF decideLoop, LastOf, IsConfirmed
    <3>3. turn' = "review" => n <= meta.max
      BY <1>1, <1>8, <3>2
    <3> QED
      BY <1>3, <3>1, <3>3
  <2>2. CASE last.verdict # "ACCEPTED"
    <3>1. turn' = "review" => ~(n >= meta.max)
      BY <1>1, <1>4, <2>2 DEF decideLoop, LastOf, CapReached
    <3> QED
      BY <1>3, <3>1
  <2> QED
    BY <2>1, <2>2
<1>10. RoomForOneMore'
  <2>1. n <= meta.max + 1
    BY <1>3, <1>8
  <2> QED
    BY <1>1, <1>2, <1>9, <2>1 DEF RoomForOneMore, Accepted
<1>11. RowsWereReviewed'
  BY <1>1, <1>2 DEF LoopInv, RowsWereReviewed, Embeds
<1>12. BestIsLeast'
  BY <1>1, <1>2 DEF LoopInv, BestIsLeast
<1>13. BestIsFirst'
  <2>1. Len(reviews) = n =>
          \/ rounds = <<>> /\ meta.bestN < 0
          \/ \E i \in DOMAIN rounds : IsFirstBest(rounds, i) /\ Names(i)
    BY <1>1, <1>3 DEF LoopInv, BestIsFirst
  <2> QED
    BY <1>1, <1>2, <1>3, <2>1 DEF BestIsFirst, Names
<1>14. DoneIsEarned'
  <2>1. ASSUME decided' = "DONE"
        PROVE  IsConfirmed(rounds, meta.fast)
    BY <1>1, <2>1 DEF decideLoop
  <2>2. IsConfirmed(rounds, meta.fast) =>
          \/ FastPath
          \/ Cardinality(Accepted(reviews)) >= Confirmations
    BY <1>1, RowsCountAsReviews DEF IsConfirmed, IsCleanFirstPass, FastPath
  <2> QED
    BY <1>1, <2>1, <2>2 DEF DoneIsEarned, FastPath, Accepted
<1> QED
  BY <1>6, <1>7, <1>10, <1>11, <1>12, <1>13, <1>14 DEF LoopInv

-----------------------------------------------------------------------------
LEMMA LoopInductive == LoopInv /\ [LoopNext]_loopVars => LoopInv'
<1> SUFFICES ASSUME LoopInv, [LoopNext]_loopVars
             PROVE  LoopInv'
  OBVIOUS
<1>1. CASE \E max \in Caps, fast \in BOOLEAN : Start(max, fast)
  BY <1>1, StartStep
<1>2. CASE \E gate \in {"pass", "fail"}, verdict \in Verdicts, n, k \in 0..MaxFindings, same \in BOOLEAN :
             Review([round |-> Len(rounds) + 1, gate |-> gate, verdict |-> verdict, findings |-> n,
                     intentFindings |-> k, sameClass |-> same, sha |-> tree])
  <2>1. PICK r : r.round = Len(rounds) + 1 /\ Review(r)
    BY <1>2
  <2> QED
    BY <2>1, ReviewStep
<1>3. CASE SaveBest
  BY <1>3, SaveBestStep
<1>4. CASE AppendRow
  BY <1>4, AppendRowStep
<1>5. CASE RecordDies
  BY <1>5, RecordDiesStep
<1>6. CASE Decide
  BY <1>6, DecideStep
<1>7. CASE UNCHANGED loopVars
  <2>1. UNCHANGED <<meta, rounds, turn, row, tree, decided, reviews>>
    BY <1>7 DEF loopVars
  <2>2. LoopTypeOK' /\ RowsAreNumbered' /\ RoomForOneMore' /\ BestIsLeast'
    BY <2>1 DEF LoopInv, LoopTypeOK, RowsAreNumbered, RoomForOneMore, BestIsLeast, AtHand, Accepted
  <2>3. RowsWereReviewed'
    BY <2>1 DEF LoopInv, RowsWereReviewed, Embeds, AtHand
  <2>4. BestIsFirst'
    BY <2>1 DEF LoopInv, BestIsFirst, AtHand, SavedAhead, IsFirstBest, Names
  <2>5. DoneIsEarned'
    BY <2>1 DEF LoopInv, DoneIsEarned, FastPath, Accepted
  <2> QED
    BY <2>2, <2>3, <2>4, <2>5 DEF LoopInv
<1> QED
  BY <1>1, <1>2, <1>3, <1>4, <1>5, <1>6, <1>7 DEF LoopNext

(***************************************************************************)
(* The two files of the loop agree with the reviews that were made, at     *)
(* every moment and after any number of records that died between the two  *)
(* writes of ReviewLoopStore.record (loop.ts:176-199).                     *)
(***************************************************************************)
THEOREM LoopInvCorrect == LoopSpec => []LoopInv
<1> QED
  BY LoopInitially, LoopInductive, PTL DEF LoopSpec

(***************************************************************************)
(* decideLoop (loop-decide.ts:69-97) says DONE only after two reviews that *)
(* were made and accepted, or on the fast path that was asked for.         *)
(***************************************************************************)
THEOREM DoneIsEarnedAlways == LoopSpec => []DoneIsEarned
<1>1. LoopInv => DoneIsEarned
  BY DEF LoopInv
<1> QED
  BY <1>1, LoopInvCorrect, PTL

(***************************************************************************)
(* Whatever the findings and the crashes, keep-best (loop.ts:179-190) names*)
(* a commit with no more findings than any recorded round, and the round of*)
(* bestRound (loop-decide.ts:99-108) while no record has died.             *)
(***************************************************************************)
THEOREM KeepBestAlways == LoopSpec => []KeepBest
<1>1. LoopInv => KeepBest
  <2> SUFFICES ASSUME LoopInv, turn \in {"decide", "over"}
               PROVE  /\ \A i \in DOMAIN rounds : 0 <= meta.bestN /\ meta.bestN <= rounds[i].findings
                      /\ \E i \in DOMAIN reviews : /\ reviews[i].sha = meta.bestSha
                                                   /\ reviews[i].findings = meta.bestN
                      /\ Len(reviews) = Len(rounds) => /\ meta.bestN = bestRound(rounds).findings
                                                       /\ meta.bestSha = bestRound(rounds).sha
    BY DEF KeepBest
  <2>1. /\ turn # "off" /\ ~AtHand /\ rounds # <<>>
        /\ rounds \in Seq(Rows) /\ meta \in Metas /\ meta.bestN \in Int
    BY MetaFields DEF AtHand, LoopInv, LoopTypeOK, RowsAreNumbered
  <2>2. meta.bestN >= 0
    BY <2>1 DEF LoopInv, BestIsLeast
  <2>3. \A i \in DOMAIN rounds : 0 <= meta.bestN /\ meta.bestN <= rounds[i].findings
    BY <2>1, <2>2 DEF LoopInv, BestIsLeast
  <2>4. \E i \in DOMAIN reviews : reviews[i].sha = meta.bestSha /\ reviews[i].findings = meta.bestN
    BY <2>1, <2>2 DEF LoopInv, BestIsLeast
  <2>5. ASSUME Len(reviews) = Len(rounds)
        PROVE  /\ meta.bestN = bestRound(rounds).findings
               /\ meta.bestSha = bestRound(rounds).sha
    <3>1. Len(rounds) \in Nat
      BY <2>1, Lines
    <3>2. PICK i \in DOMAIN rounds : IsFirstBest(rounds, i) /\ Names(i)
      BY <2>1, <2>2, <2>5, <3>1 DEF LoopInv, BestIsFirst
    <3>3. bestRound(rounds) = rounds[i]
      BY <2>1, <3>2, FirstBestIsBestRound
    <3> QED
      BY <3>2, <3>3 DEF Names
  <2> QED
    BY <2>3, <2>4, <2>5
<1> QED
  BY <1>1, LoopInvCorrect, PTL

(***************************************************************************)
(* The cap of decideLoop (loop-decide.ts:83) bounds the loop: it never has *)
(* more than one round above --max, the confirmation of an accepted one.   *)
(***************************************************************************)
THEOREM LoopIsBoundedAlways == LoopSpec => []LoopIsBounded
<1>1. LoopInv => LoopIsBounded
  <2> SUFFICES ASSUME LoopInv, meta # Unset
               PROVE  Len(rounds) < meta.max + 2
    BY DEF LoopIsBounded, Confirmations
  <2>1. turn # "off"
    BY DEF LoopInv, RowsAreNumbered
  <2>2. meta.max \in Nat /\ Len(rounds) \in Nat
    BY <2>1, MetaFields, Lines DEF LoopInv, LoopTypeOK, RowsAreNumbered
  <2>3. \/ Len(rounds) <= meta.max
        \/ Len(rounds) = meta.max + 1
    BY <2>1, <2>2 DEF LoopInv, LoopTypeOK, RoomForOneMore, AtHand
  <2> QED
    BY <2>2, <2>3
<1> QED
  BY <1>1, LoopInvCorrect, PTL

-----------------------------------------------------------------------------
(* The run.                                                                *)

(***************************************************************************)
(* The inductive invariant: those of the two parts, that a loop was begun  *)
(* behind a barrier that passed, and what a `run next` knows of the round. *)
(***************************************************************************)
LoopFollowsPass == turn # "off" => passed # "no"

LookKnows ==
    look # None =>
        /\ look.reading = "manifest" => look.at = 1
        /\ look.over # None => look.over = manifest /\ look.reading # "manifest"
        /\ look.over # None /\ ~look.pending =>
             \A i \in DOMAIN look.over :
                 i < look.at \/ look.reading = "loop" => status[look.over[i]] # "pending"

RunInv ==
    /\ TypeOK
    /\ CacheInv
    /\ LoopInv
    /\ LoopFollowsPass
    /\ LookKnows

-----------------------------------------------------------------------------
\* While the round stays declared, no command takes a status back.
LEMMA StatusesStay ==
    ASSUME CacheInv, CacheNext, manifest # None, manifest' # None
    PROVE  /\ manifest' = manifest
           /\ \A id \in Ids : status[id] # "pending" => status'[id] # "pending"
<1>1. ~Wipe /\ \A m \in Manifests : ~Declare(m)
  BY DEF Wipe, Declare
<1>2. ASSUME NEW id \in Ids, Reports(id)
      PROVE  Grows
  BY <1>2, ReportGrows DEF CacheInv
<1>3. Joins => UNCHANGED <<manifest, status>>
  BY DEF Joins, StartBarrier, BarrierLooks, BarrierRechecks, BarrierPasses, BarrierWaits, BarrierRefuses
<1> QED
  BY <1>1, <1>2, <1>3 DEF CacheNext, Grows

LEMMA CacheStepKeeps ==
    ASSUME RunInv, CacheStep, Careful
    PROVE  RunInv'
<1>1. /\ turn = "off" /\ turn' = turn /\ look' = look /\ runRound' = runRound
      /\ CacheNext /\ UNCHANGED loopVars
      /\ manifest' = None => manifest = None \/ look = None
  BY DEF CacheStep, runVars, loopVars
<1>2. CacheInv'
  BY <1>1, CacheInductive DEF RunInv
<1>3. LoopInv'
  BY <1>1, LoopInductive DEF RunInv
<1>4. TypeOK'
  BY <1>1, <1>2, <1>3 DEF RunInv, TypeOK, CacheInv, LoopInv
<1>5. LoopFollowsPass'
  BY <1>1 DEF LoopFollowsPass
<1>6. LookKnows'
  <2>1. ASSUME look # None, look.over # None
        PROVE  /\ manifest' = manifest /\ look.over = manifest /\ manifest \in Manifests
               /\ \A id \in Ids : status[id] # "pending" => status'[id] # "pending"
    <3>1. look.over = manifest /\ manifest # None /\ manifest \in Manifests
      BY <2>1 DEF RunInv, LookKnows, CacheInv, CacheTypeOK
    <3>2. manifest' # None
      BY <1>1, <2>1, <3>1
    <3> QED
      BY <1>1, <3>1, <3>2, StatusesStay DEF RunInv
  <2>2. ASSUME look # None, look.over # None, NEW i \in DOMAIN look.over
        PROVE  look.over[i] \in Ids
    BY <2>1, <2>2, ManifestLines
  <2> QED
    BY <1>1, <2>1, <2>2 DEF RunInv, LookKnows
<1> QED
  BY <1>2, <1>3, <1>4, <1>5, <1>6 DEF RunInv

LEMMA LoopStepKeeps ==
    ASSUME RunInv, LoopStep, Careful
    PROVE  RunInv'
<1>1. /\ turn = "off" => passed # "no"
      /\ LoopNext /\ UNCHANGED cacheVars /\ UNCHANGED runVars
  BY DEF LoopStep
<1>2. CacheInv'
  BY <1>1, CacheInductive DEF RunInv
<1>3. LoopInv'
  BY <1>1, LoopInductive DEF RunInv
<1>4. TypeOK'
  BY <1>1, <1>2, <1>3 DEF RunInv, TypeOK, CacheInv, LoopInv, runVars
<1>5. LoopFollowsPass'
  BY <1>1 DEF RunInv, LoopFollowsPass, cacheVars
<1>6. LookKnows'
  BY <1>1 DEF RunInv, LookKnows, cacheVars, runVars
<1> QED
  BY <1>2, <1>3, <1>4, <1>5, <1>6 DEF RunInv

\* A look learns of one status at a time, and of the last one before it goes on.
LEMMA RunStepKeeps ==
    ASSUME RunInv, RunStep, Careful
    PROVE  RunInv'
<1>1. UNCHANGED cacheVars /\ UNCHANGED loopVars
  BY DEF RunStep, RunSet, RunClear, LookAtRun, LookAtManifest, LookAtStatus, LookAtLoop
<1>2. CacheInv' /\ LoopInv'
  BY <1>1, CacheInductive, LoopInductive DEF RunInv
<1>3. LoopFollowsPass'
  BY <1>1 DEF RunInv, LoopFollowsPass, cacheVars, loopVars
<1>4. runRound' \in {0, Round, LaterRound}
  BY DEF RunInv, TypeOK, RunStep, RunSet, RunClear, LookAtRun, LookAtManifest, LookAtStatus, LookAtLoop
<1>5. look' \in Looks \cup {None} /\ LookKnows'
  <2>1. CASE RunSet \/ RunClear
    BY <1>1, <2>1 DEF RunSet, RunClear, RunInv, TypeOK, LookKnows, cacheVars
  <2>2. CASE LookAtRun
    <3>1. look' \in Looks /\ look'.over = None /\ look'.at = 1
      BY <2>2 DEF LookAtRun, Looks, RunInv, TypeOK
    <3> QED
      BY <3>1 DEF LookKnows
  <2>3. CASE LookAtManifest
    <3>1. /\ look # None /\ look \in Looks /\ look.at = 1
          /\ look.reading = "manifest" /\ look.over = None
      BY <2>3 DEF LookAtManifest, RunInv, TypeOK, LookKnows
    <3>2. CASE look.round = Round /\ manifest # None
      <4>1. look' = [look EXCEPT !.over = manifest, !.reading = "statuses"]
        BY <2>3, <3>2 DEF LookAtManifest
      <4>2. manifest \in Manifests
        BY <3>2 DEF RunInv, TypeOK, CacheTypeOK
      <4>3. /\ look' \in Looks /\ look'.over = manifest
            /\ look'.reading = "statuses" /\ look'.at = 1
        BY <3>1, <4>1, <4>2 DEF Looks
      <4>4. \A i \in DOMAIN manifest : ~(i < 1)
        BY <4>2, ManifestLines
      <4> QED
        BY <1>1, <4>3, <4>4 DEF LookKnows, cacheVars
    <3>3. CASE ~(look.round = Round /\ manifest # None)
      <4>1. look' = [look EXCEPT !.reading = "loop"]
        BY <2>3, <3>3 DEF LookAtManifest
      <4>2. look' \in Looks /\ look'.over = None /\ look'.reading = "loop"
        BY <3>1, <4>1 DEF Looks
      <4> QED
        BY <4>2 DEF LookKnows
    <3> QED
      BY <3>2, <3>3
  <2>4. CASE LookAtStatus
    <3> DEFINE counted == Counts(look.over[look.at])
    <3>1. /\ look # None /\ look \in Looks /\ look.at \in Nat
          /\ look.reading = "statuses"
          /\ look' = [round |-> look.round, over |-> look.over, at |-> look.at + 1,
                      pending |-> look.pending \/ ~counted,
                      reading |-> IF look.at < Len(look.over) THEN "statuses" ELSE "loop"]
      BY <2>4 DEF LookAtStatus, RunInv, TypeOK, Looks
    <3>2. /\ look' \in Looks
          /\ look'.over = look.over
          /\ look'.at = look.at + 1
          /\ look'.pending = (look.pending \/ ~counted)
          /\ look'.reading = IF look.at < Len(look.over) THEN "statuses" ELSE "loop"
      BY <3>1 DEF Looks
    <3>3. ASSUME look.over # None
          PROVE  look.over = manifest /\ manifest \in Manifests
      BY <3>1, <3>3 DEF RunInv, LookKnows, TypeOK, CacheTypeOK
    <3>4. ASSUME look.over # None, ~look'.pending, NEW i \in DOMAIN look.over,
                 i < look'.at \/ look'.reading = "loop"
          PROVE  status[look.over[i]] # "pending"
      <4>1. i \in 1..Len(look.over) /\ Len(look.over) \in Nat
        BY <3>3, <3>4, ManifestLines
      <4>2. i < look.at \/ i = look.at
        BY <3>1, <3>2, <3>4, <4>1
      <4>3. CASE i < look.at
        BY <3>1, <3>2, <3>4, <4>3 DEF RunInv, LookKnows
      <4>4. CASE i = look.at
        BY <3>2, <3>4, <4>4 DEF Counts
      <4> QED
        BY <4>2, <4>3, <4>4
    <3> QED
      BY <1>1, <3>2, <3>3, <3>4 DEF LookKnows, cacheVars
  <2>5. CASE LookAtLoop
    BY <2>5 DEF LookAtLoop, LookKnows
  <2> QED
    BY <2>1, <2>2, <2>3, <2>4, <2>5 DEF RunStep
<1> QED
  BY <1>2, <1>3, <1>4, <1>5 DEF RunInv, TypeOK, CacheInv, LoopInv

LEMMA RunInitially == Init => RunInv
<1> SUFFICES ASSUME Init
             PROVE  RunInv
  OBVIOUS
<1>1. CacheInv /\ LoopInv
  BY CacheInitially, LoopInitially DEF Init
<1>2. TypeOK
  BY <1>1 DEF Init, TypeOK, CacheInv, LoopInv
<1>3. LoopFollowsPass /\ LookKnows
  BY DEF Init, LoopInit, LoopFollowsPass, LookKnows
<1> QED
  BY <1>1, <1>2, <1>3 DEF RunInv

LEMMA RunInductive ==
    ASSUME Careful, RunInv, [Next]_vars
    PROVE  RunInv'
<1>1. CASE UNCHANGED vars
  <2>1. UNCHANGED cacheVars /\ UNCHANGED loopVars /\ UNCHANGED runVars
    BY <1>1 DEF vars
  <2>2. CacheInv' /\ LoopInv'
    BY <2>1, CacheInductive, LoopInductive DEF RunInv
  <2>3. TypeOK' /\ LoopFollowsPass' /\ LookKnows'
    BY <2>1, <2>2 DEF RunInv, TypeOK, LoopFollowsPass, LookKnows, CacheInv, LoopInv,
                      cacheVars, loopVars, runVars
  <2> QED
    BY <2>2, <2>3 DEF RunInv
<1> QED
  BY <1>1, CacheStepKeeps, LoopStepKeeps, RunStepKeeps DEF Next

-----------------------------------------------------------------------------
(***************************************************************************)
(* `run` only reads the files of the cache and the loop (run.ts:210-257),  *)
(* and neither writes the other's: whatever holds of the cache or the loop *)
(* on its own holds of it in a run.                                        *)
(***************************************************************************)
THEOREM CacheIsItself == Spec => CacheSpec
<1>1. Init => CacheInit
  BY DEF Init
<1>2. [Next]_vars => [CacheNext]_cacheVars
  BY DEF Next, vars, CacheStep, LoopStep, RunStep, RunSet, RunClear, LookAtRun, LookAtManifest,
         LookAtStatus, LookAtLoop
<1> QED
  BY <1>1, <1>2, PTL DEF Spec, CacheSpec

THEOREM LoopIsItself == Spec => LoopSpec
<1>1. Init => LoopInit
  BY DEF Init
<1>2. [Next]_vars => [LoopNext]_loopVars
  BY DEF Next, vars, CacheStep, LoopStep, RunStep, RunSet, RunClear, LookAtRun, LookAtManifest,
         LookAtStatus, LookAtLoop
<1> QED
  BY <1>1, <1>2, PTL DEF Spec, LoopSpec

THEOREM RunInvCorrect == Careful => (Spec => []RunInv)
<1> SUFFICES ASSUME Careful
             PROVE  Spec => []RunInv
  OBVIOUS
<1>1. Init => RunInv
  BY RunInitially
<1>2. RunInv /\ [Next]_vars => RunInv'
  BY RunInductive
<1> QED
  BY <1>1, <1>2, PTL DEF Spec

(***************************************************************************)
(* When `run next` (run.ts:149-162, 184-257) sends the operator on, nothing*)
(* of the round is left to resume, and a loop it calls done was accepted by*)
(* two reviews.                                                            *)
(***************************************************************************)
THEOREM AdviceIsSafeAlways == Careful => (Spec => AdviceIsSafe)
<1> DEFINE Safe == /\ advised \in {"integrate", "loop"} => Resume = {}
                   /\ loopDecision = "DONE" => Cardinality(Accepted(reviews)) >= Confirmations
<1>1. ASSUME RunInv, LookAtLoop
      PROVE  Safe
  <2>1. loopDecision # Unset => turn # "off" /\ rounds # <<>>
    BY <1>1 DEF loopDecision, RunInv, LoopInv, RowsAreNumbered
  <2>2. ASSUME look.over = None, advised \in {"integrate", "loop"}
        PROVE  Resume = {}
    <3>1. advised = "loop" \/ advised = "start"
      BY <2>2 DEF advised, nextFor
    <3>2. advised = "loop" => loopDecision # Unset
      BY <2>2 DEF advised, nextFor
    <3>3. loopDecision # Unset => Resume = {}
      BY <1>1, <2>1 DEF RunInv, LoopFollowsPass, CacheInv, PassIsEarned
    <3> QED
      BY <2>2, <3>1, <3>2, <3>3
  <2>3. ASSUME look.over # None, advised \in {"integrate", "loop"}
        PROVE  Resume = {}
    <3>1. ~look.pending
      BY <2>3 DEF advised, nextFor
    <3>2. /\ look.over = manifest /\ manifest \in Manifests /\ manifest # None
          /\ \A i \in DOMAIN manifest : status[manifest[i]] # "pending"
      BY <1>1, <2>3, <3>1 DEF RunInv, LookKnows, LookAtLoop, TypeOK, CacheTypeOK
    <3> QED
      BY <3>2, ManifestLines DEF Resume, declared
  <2>4. ASSUME loopDecision = "DONE"
        PROVE  Cardinality(Accepted(reviews)) >= Confirmations
    <3>1. turn # "off"
      BY <2>1, <2>4, UnsetAssumption DEF States
    <3>2. Cardinality(Accepted(rounds)) >= Confirmations
      BY <2>4, UnsetAssumption DEF loopDecision, decideLoop, IsConfirmed, States
    <3> QED
      BY <1>1, <3>1, <3>2, RowsCountAsReviews DEF RunInv
  <2> QED
    BY <2>2, <2>3, <2>4
<1>2. RunInv /\ [Next]_vars => [LookAtLoop => Safe]_vars
  BY <1>1
<1> HIDE DEF Safe
<1> SUFFICES ASSUME Careful
             PROVE  Spec => AdviceIsSafe
  OBVIOUS
<1> QED
  BY <1>2, RunInvCorrect, PTL DEF Spec, AdviceIsSafe, Safe
=============================================================================
