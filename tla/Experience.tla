----------------------------- MODULE Experience -----------------------------
(* The experience memory: one Markdown file per remembered method of a       *)
(* workspace, written by `experience add`, `learn` and `promote`, read one   *)
(* file at a time by recall, policy, audit, eval and the assembly of a       *)
(* workspace's context.  No command takes a lock; a write replaces its file. *)
(* A workspace is a directory of its own, and this is one of them.           *)
EXTENDS Absent, SequencesExt, Integers

CONSTANTS Keepers,      \* the commands' processes
          Slugs,        \* title -> slug: [title in Titles |-> its file's name]
          Secrets,      \* the names and references with secret material in them
          Causes,       \* the causes a failure may have
          Requests,     \* the commands an operator may give
          MaxRequests,  \* bound: commands given
          MaxNow        \* bound: the clock

(* What the command line makes of a request.                                 *)
ASSUME RequestAssumption ==
  /\ MaxNow \in Nat \ {0} /\ MaxRequests \in Nat /\ IsFiniteSet(Range(Slugs)) /\ None \notin {"trusted", "untrusted"}
  /\ \A r \in Requests :
       /\ r = [field \in DOMAIN r |-> r[field]] /\ "op" \in DOMAIN r
       /\ r.op \in {"add", "learn"} => r.title \in DOMAIN Slugs \cup {""} /\ r.over \subseteq Range(Slugs)
       /\ r.op = "add" => r.trust \in {None, "trusted", "untrusted"} /\ (r.body # None => IsFiniteSet(r.body.words))
       /\ r.op = "learn" => IsFiniteSet(r.task.words)
       /\ r.op = "promote" => r.slug \in Range(Slugs) /\ r.confirm \in Seq(Range(r.confirm))
       /\ r.op = "recall" => r.options.limit \in Nat /\ (r.options.maxAge # None => r.options.maxAge \in Nat)

VARIABLES memory,    \* slug -> the record in its file, or None
          now,       \* the clock, in seconds
          memo,      \* keeper -> what its command is doing
          requests   \* commands given

memoryVars == <<memory, now, memo, requests>>

IdleKeeper == [at |-> "idle", of |-> None, left |-> <<>>, seen |-> <<>>, exact |-> None, reply |-> <<>>]

MemoryInit == /\ memory = [s \in Range(Slugs) |-> None]
              /\ now = 1
              /\ memo = [p \in Keepers |-> IdleKeeper]
              /\ requests = 0

-----------------------------------------------------------------------------
(* What is remembered.                                                       *)

isCompletedTask(t) == t.status = "DONE" /\ t.completed
isTerminalFailedTask(t) == t.status \in {"NEEDS_FIX", "FAILED", "BLOCKED"} /\ t.completed

(* A failed task is learned only as an explicit lesson, and only a failed    *)
(* one has a cause.                                                          *)
MayLearn(r) ==
  IF isCompletedTask(r.task) THEN r.cause = None
  ELSE r.allowFailure /\ isTerminalFailedTask(r.task) /\ r.lesson /\ r.cause \in Causes \cup {None}

renderTaskExperience(r) ==
  [text |-> r.task.ref, words |-> r.task.words, secret |-> FALSE, size |-> r.task.size,
   cause |-> IF isCompletedTask(r.task) THEN None ELSE r.cause]

Learned(r) == [op |-> "add", title |-> r.title, kind |-> "task", ref |-> r.task.ref, trust |-> None,
               over |-> r.over, body |-> renderTaskExperience(r)]

Refused(r) == \/ r.body = None \/ r.body.secret
              \/ r.title = "" \/ r.title \in Secrets
              \/ r.ref \in Secrets
              \/ r.over \cap Secrets # {}

Method(r) == [slug |-> Slugs[r.title], created |-> now, kind |-> r.kind, ref |-> r.ref,
              trust |-> IF r.trust = None THEN "trusted" ELSE r.trust,
              by |-> <<>>, over |-> r.over, body |-> r.body]

-----------------------------------------------------------------------------
(* Commands that write.                                                      *)

KnownFilters(o) == /\ o.kind \in {None, "manual", "task"}
                   /\ o.trust \in {None, "trusted", "untrusted", "all"}
                   /\ o.cause \in Causes \cup {None}
                   /\ o.minScore # None => o.query # None

(* A policy is asked for one record or for a query, never both.              *)
MayAskPolicy(r) == KnownFilters(r.options) /\ (r.slug = None) # (r.options.query = None)

(* What a prompt is given without being asked: trusted records only, or all. *)
MayAssemble(r) == r.options.trust \in {"trusted", "all"}

FirstStep(r) ==
  CASE r.op \in {"add", "learn"} -> "write"
    [] r.op = "promote" -> "look"
    [] r.op = "recall" -> IF KnownFilters(r.options) THEN "list" ELSE "idle"
    [] r.op = "context" -> IF MayAssemble(r) THEN "list" ELSE "idle"
    [] r.op = "policy" -> IF ~MayAskPolicy(r) THEN "idle" ELSE IF r.slug = None THEN "list" ELSE "exact"
    [] OTHER -> "list"

GiveRequest(p, r) ==
  /\ memo[p].at = "idle" /\ requests < MaxRequests
  /\ requests' = requests + 1
  /\ memo' = IF FirstStep(r) = "idle" THEN memo
             ELSE [memo EXCEPT ![p].of = r, ![p].at = FirstStep(r)]
  /\ UNCHANGED <<memory, now>>

Done(p) == memo' = [memo EXCEPT ![p] = IdleKeeper]

(* The whole file is replaced, whichever record of that slug it held.        *)
Remember(p) ==
  LET r == memo[p].of IN
  /\ memo[p].at = "write" /\ Done(p)
  /\ LET m == IF r.op = "learn" THEN Learned(r) ELSE r IN
     memory' = IF (r.op = "learn" /\ ~MayLearn(r)) \/ Refused(m) THEN memory
               ELSE [memory EXCEPT ![Slugs[m.title]] = Method(m)]
  /\ UNCHANGED <<now, requests>>

Confirms_Any(m, r) == m.ref = r.ref /\ r.confirm # <<>>

(* Whether a request may make a trusted record of m: it must name the        *)
(* reference m was written with, and others than that, none twice.           *)
Confirms(m, r) ==
  /\ m.ref = r.ref /\ r.ref \notin Secrets
  /\ r.confirm # <<>> /\ Range(r.confirm) \cap Secrets = {}
  /\ r.ref \notin Range(r.confirm)
  /\ Cardinality(Range(r.confirm)) = Len(r.confirm)

Look(p) ==
  LET r == memo[p].of
      m == memory[r.slug]
  IN /\ memo[p].at = "look"
     /\ IF m # None /\ m.trust = "untrusted" /\ m.ref # None /\ Confirms(m, r)
        THEN memo' = [memo EXCEPT ![p].at = "promote", ![p].exact = m]
        ELSE Done(p)
     /\ UNCHANGED <<memory, now, requests>>

(* The record as it was read, over whatever is in its file now.              *)
Promoted(p) == [memo[p].exact EXCEPT !.trust = "trusted", !.by = memo[p].of.confirm]

Promote(p) ==
  /\ memo[p].at = "promote" /\ Done(p)
  /\ memory' = [memory EXCEPT ![memo[p].of.slug] = Promoted(p)]
  /\ UNCHANGED <<now, requests>>

-----------------------------------------------------------------------------
(* Commands that read.                                                       *)

Wanted(o, m) ==
  /\ o.maxAge # None => m.created >= now - o.maxAge
  /\ o.kind # None => m.kind = o.kind
  /\ o.ref # None => m.ref = o.ref
  /\ o.trust \notin {None, "all"} => m.trust = o.trust
  /\ o.cause # None => m.body.cause = o.cause

(* Who may hide another record: without a trust filter, a trusted one only.  *)
Superseding(o, m) == Wanted(o, m) /\ (o.trust = None => m.trust = "trusted")

Superseded(o, ms) == UNION {ms[i].over \ {ms[i].slug} : i \in {j \in DOMAIN ms : Superseding(o, ms[j])}}

Fresh(o, ms, m) == o.superseded \/ m.slug \notin Superseded(o, ms)

(* A query without a term that counts asks for everything.                   *)
Terms(o) == IF o.query = None THEN {} ELSE o.query
experienceScore(m, o) == Cardinality(m.body.words \cap Terms(o))

Matching(o, m) ==
  Terms(o) # {} => experienceScore(m, o) >= IF o.minScore = None THEN 1 ELSE Max({1, o.minScore})

Recalled(o, ms) == {i \in DOMAIN ms : Wanted(o, ms[i]) /\ Fresh(o, ms, ms[i]) /\ Matching(o, ms[i])}

(* Most matched terms first, then the newest, then as they were listed.      *)
Precedes(o, ms, i, j) ==
  LET a == ms[i]  b == ms[j] IN
  \/ experienceScore(a, o) > experienceScore(b, o)
  \/ /\ experienceScore(a, o) = experienceScore(b, o)
     /\ a.created > b.created \/ (a.created = b.created /\ i < j)

Ranked(o, ms) ==
  LET found == Recalled(o, ms)
      Place(i) == Cardinality({j \in found : Precedes(o, ms, j, i)}) + 1
  IN [n \in 1..Cardinality(found) |-> ms[CHOOSE i \in found : Place(i) = n]]

recall(o, ms) ==
  LET ranked == Ranked(o, ms)
  IN SubSeq(ranked, 1, IF Len(ranked) < o.limit THEN Len(ranked) ELSE o.limit)

Size(ms) == FoldSeq(LAMBDA m, n : m.body.size + n, 0, ms)

(* Whole records, in order, as long as each still fits.                      *)
packExperienceMethodsForPrompt(ms, budget) ==
  IF budget = None THEN ms
  ELSE FoldLeft(LAMBDA taken, m : IF Size(taken) + m.body.size <= budget THEN Append(taken, m) ELSE taken, <<>>, ms)

(* A benchmark case passes when it finds its slugs and nothing else.         *)
evalCaseResult(c, ms) == ms # <<>> /\ {m.slug : m \in Range(ms)} = c.expected

(* The audit's errors: an untrusted record nobody can trace, and a           *)
(* confirmation that is none.                                                *)
auditErrors(ms) ==
  {m \in Range(ms) : \/ m.trust = "untrusted" /\ m.ref = None
                     \/ m.ref \in Range(m.by) \/ Cardinality(Range(m.by)) # Len(m.by)}

experiencePolicyCard(m) == [slug |-> m.slug, created |-> m.created, kind |-> m.kind, ref |-> m.ref, trust |-> m.trust,
                            by |-> m.by, over |-> m.over, cause |-> m.body.cause, items |-> m.body.text]

Answer(r, m) ==
  CASE r.op = "recall" -> recall(r.options, m.seen)
    [] r.op = "context" -> packExperienceMethodsForPrompt(recall(r.options, m.seen), r.budget)
    [] r.op = "eval" -> Append(m.reply, evalCaseResult(Head(r.cases), recall(Head(r.cases).options, m.seen)))
    [] r.op = "audit" -> SetToSeq(auditErrors(m.seen))
    [] r.op = "policy" /\ r.slug = None ->
         LET found == recall(r.options, m.seen) IN [i \in DOMAIN found |-> experiencePolicyCard(found[i])]
    [] r.op = "policy" /\ r.slug # None ->
         IF \E f \in Range(recall(r.options, m.seen)) : f.slug = r.slug
         THEN <<experiencePolicyCard(m.exact)>> ELSE <<>>

(* policy <slug>: the record that will be shown is read first, and whether   *)
(* it passes the filters is found by a recall of the workspace afterwards.   *)
Exact(p) ==
  LET r == memo[p].of IN
  /\ memo[p].at = "exact"
  /\ IF memory[r.slug] = None THEN Done(p)
     ELSE memo' = [memo EXCEPT ![p].at = "count", ![p].exact = memory[r.slug]]
  /\ UNCHANGED <<memory, now, requests>>

Count(p) ==
  /\ memo[p].at = "count"
  /\ memo' = [memo EXCEPT ![p].at = "list",
                          ![p].of.options.limit = Cardinality({s \in DOMAIN memory : memory[s] # None})]
  /\ UNCHANGED <<memory, now, requests>>

ListMemory(p) ==
  /\ memo[p].at = "list"
  /\ memo' = [memo EXCEPT ![p].at = "read", ![p].seen = <<>>,
                          ![p].left = SetToSeq({s \in DOMAIN memory : memory[s] # None})]
  /\ UNCHANGED <<memory, now, requests>>

ReadFile(p) ==
  /\ memo[p].at = "read" /\ memo[p].left # <<>>
  /\ memo' = [memo EXCEPT ![p].left = Tail(@), ![p].seen = Append(@, memory[Head(memo[p].left)])]
  /\ UNCHANGED <<memory, now, requests>>

(* The last file is read: the answer, or the benchmark's next case.          *)
Tell(p) ==
  LET r == memo[p].of IN
  /\ memo[p].at = "read" /\ memo[p].left = <<>>
  /\ memo' = [memo EXCEPT ![p].reply = Answer(r, memo[p]),
               ![p].at = IF r.op = "eval" /\ Len(r.cases) > 1 THEN "list" ELSE "told",
               ![p].of = IF r.op = "eval" THEN [r EXCEPT !.cases = Tail(@)] ELSE r]
  /\ UNCHANGED <<memory, now, requests>>

Close(p) == memo[p].at = "told" /\ Done(p) /\ UNCHANGED <<memory, now, requests>>

Tick == now < MaxNow /\ now' = now + 1 /\ UNCHANGED <<memory, memo, requests>>

MemoryNext ==
  \/ \E p \in Keepers : \/ \E r \in Requests : GiveRequest(p, r)
                        \/ Remember(p) \/ Look(p) \/ Promote(p)
                        \/ Exact(p) \/ Count(p) \/ ListMemory(p) \/ ReadFile(p) \/ Tell(p) \/ Close(p)
  \/ Tick

-----------------------------------------------------------------------------
(* What the memory promises.                                                 *)

MemoryTypeOK ==
  /\ now \in 1..MaxNow /\ requests \in 0..MaxRequests
  /\ \A s \in DOMAIN memory : memory[s] # None =>
       memory[s].slug = s /\ memory[s].created \in 1..now /\ memory[s].trust \in {"trusted", "untrusted"}
  /\ \A p \in Keepers : memo[p].at \in {"idle", "write", "look", "promote", "exact", "count", "list", "read", "told"}

(* Texts that the operator only ever adds as untrusted imports, and the      *)
(* references they come with.                                                *)
AddsOf(text) == {r \in Requests : r.op = "add" /\ r.body # None /\ r.body.text = text}
Imported(text) == /\ AddsOf(text) # {} /\ \A r \in AddsOf(text) : r.trust = "untrusted"
                  /\ \A r \in Requests : r.op = "learn" => renderTaskExperience(r).text # text

(* A text that was only ever imported becomes trusted by confirmation alone: *)
(* a trusted record of it still names an origin it was imported with, and    *)
(* other sources than that, none twice, confirm it, however adds and         *)
(* promotions of one slug race (fs-experience-store.ts promote).             *)
ImportsAreConfirmed ==
  \A s \in DOMAIN memory : LET m == memory[s] IN
    m # None /\ m.trust = "trusted" /\ Imported(m.body.text) =>
      /\ m.ref \in {r.ref : r \in AddsOf(m.body.text)} \ {None}
      /\ m.by # <<>> /\ m.ref \notin Range(m.by) /\ IsInjective(m.by)

(* An untrusted record hides nothing: what a recall without a trust filter   *)
(* read, wanted and matched is in its answer, unless another record that is  *)
(* trusted says it supersedes it, or the answer is full                      *)
(* (fs-experience-store.ts recall).                                          *)
OnlyTrustedHides ==
  \A p \in Keepers :
    memo[p].at = "told" /\ memo[p].of.op = "recall" /\ memo[p].of.options.trust = None =>
      LET o == memo[p].of.options IN
      \/ Len(memo[p].reply) = o.limit
      \/ \A m \in Range(memo[p].seen) :
           Wanted(o, m) /\ Matching(o, m) =>
             \/ m \in Range(memo[p].reply)
             \/ \E t \in Range(memo[p].seen) : t.trust = "trusted" /\ m.slug \in t.over \ {t.slug}

(* An imported text becomes trusted by confirmation alone, and while it is   *)
(* not it hides no other record (fs-experience-store.ts promote, recall).    *)
ImportsAreContained == MemoryTypeOK /\ ImportsAreConfirmed /\ OnlyTrustedHides
=============================================================================
