-------------------------------- MODULE Skills --------------------------------
(***************************************************************************)
(* `fugue skills` (src/engine/src/cli/commands/skills.ts): a catalog that  *)
(* is built once by a scan of the skill directories, and answers from then *)
(* on, while agents write and remove skills.                               *)
(*                                                                         *)
(* A place is [id, source, at, note]: the skill a SKILL.md is of, the      *)
(* directory it lies in, where it comes by id and path, and whether its id *)
(* is a note's.  A skill's text is [valid, words].                         *)
(*                                                                         *)
(*   disk     per place, the text there, or None                           *)
(*   catalog  the file, a set of references, or None                       *)
(*   reader   per process, the command it runs and what it has seen        *)
(*   bounds   history: of the scan the catalog is from, the references     *)
(*            that held all along, and those that held at some time        *)
(*   told     what the last command printed or found valid, and the bounds *)
(*            of the scan it was told from                                 *)
(***************************************************************************)
EXTENDS Absent, Integers, FiniteSetsExt, SequencesExt

CONSTANTS
    Readers,      \* processes
    Places,       \* where skills are looked for
    SkillTexts,   \* what is written there
    Lookups,      \* the commands given: [op, id, type, source, query, limit, refresh, material]
    MaxLookups,   \* how many of them are given
    MaxSkillEdits \* how often a skill is written or removed

SkillSources == <<"user", "system", "plugin">>

\* No two places have one path.
ASSUME PlacesAssumption ==
    /\ \A p \in Places : p.at \in Nat /\ p.source \in Range(SkillSources)
    /\ \A p, q \in Places : p.at = q.at => p = q

VARIABLES disk, catalog, reader, bounds, told, lookups, skillEdits
skillVars == <<disk, catalog, reader, bounds, told, lookups, skillEdits>>

NoLookup == [lookup |-> None]
MIN_CHARS == 2   \* of what a skill is forged from; the default is 200

Ref(p, text) == [place |-> p, words |-> text.words]
OnDisk == {Ref(p, disk[p]) : p \in {q \in Places : disk[q] # None}}

SkillInit ==
    /\ disk \in [Places -> SkillTexts \cup {None}]
    /\ catalog = None
    /\ reader = [r \in Readers |-> NoLookup]
    /\ bounds = [least |-> {}, most |-> {}]
    /\ told = None /\ lookups = 0 /\ skillEdits = 0

\* An agent writes or removes a skill; a scan that is under way has seen less than all of it.
EditSkill(p, text) ==
    LET seen(r) == IF reader[r] = NoLookup \/ reader[r].pc # "scan" THEN reader[r]
                   ELSE [reader[r] EXCEPT !.least = {x \in @ : x.place # p},
                                          !.most = IF text = None THEN @ ELSE @ \cup {Ref(p, text)}]
    IN
    /\ skillEdits < MaxSkillEdits
    /\ disk[p] # text
    /\ disk' = [disk EXCEPT ![p] = text]
    /\ skillEdits' = skillEdits + 1
    /\ reader' = [r \in Readers |-> seen(r)]
    /\ UNCHANGED <<catalog, bounds, told, lookups>>

GiveLookup(r, lookup) ==
    /\ reader[r] = NoLookup
    /\ lookups < MaxLookups
    /\ lookups' = lookups + 1
    /\ reader' = [reader EXCEPT ![r] =
                    [lookup |-> lookup, pc |-> "catalog", refs |-> {}, todo |-> {}, left |-> << >>, least |-> {}, most |-> {}]]
    /\ UNCHANGED <<disk, catalog, bounds, told, skillEdits>>

Stands(r, pc) == reader[r] # NoLookup /\ reader[r].pc = pc
Ends(r) == reader' = [reader EXCEPT ![r] = NoLookup]

SkillsDies(r) ==
    /\ reader[r] # NoLookup
    /\ Ends(r)
    /\ UNCHANGED <<disk, catalog, bounds, told, lookups, skillEdits>>

-----------------------------------------------------------------------------
\* The catalog.

\* A catalog without entries is no catalog.
HasCatalog == catalog \notin {None, {}}

\* `index` keeps a catalog it finds, unless it is told to refresh; what is forged must be enough;
\* the others ask for the catalog.
LookAtCatalog(r) ==
    LET c == reader[r] IN
    /\ Stands(r, "catalog")
    /\ reader' = [reader EXCEPT ![r] =
         CASE c.lookup.op = "forge" /\ c.lookup.material < MIN_CHARS -> NoLookup
           [] c.lookup.op = "index" /\ HasCatalog /\ ~c.lookup.refresh -> NoLookup
           [] c.lookup.op # "index" /\ HasCatalog -> 
                 [c EXCEPT !.pc = "answer", !.refs = catalog, !.least = bounds.least, !.most = bounds.most]
           [] OTHER -> [c EXCEPT !.pc = "scan", !.left = SkillSources, !.least = OnDisk, !.most = OnDisk]]
    /\ UNCHANGED <<disk, catalog, bounds, told, lookups, skillEdits>>

\* One directory after the other is listed, and each skill it lists is read.
ListSkills(r) ==
    LET c == reader[r] IN
    /\ Stands(r, "scan") /\ c.todo = {} /\ c.left # << >>
    /\ reader' = [reader EXCEPT ![r].left = Tail(@),
                                ![r].todo = {p \in Places : p.source = Head(c.left) /\ disk[p] # None}]
    /\ UNCHANGED <<disk, catalog, bounds, told, lookups, skillEdits>>

\* A skill that is gone by now is left out.
pushSkill(r, p) ==
    /\ Stands(r, "scan") /\ p \in reader[r].todo
    /\ \A q \in reader[r].todo : p.at <= q.at
    /\ reader' = [reader EXCEPT ![r].todo = @ \ {p},
                                ![r].refs = IF disk[p] = None THEN @ ELSE @ \cup {Ref(p, disk[p])}]
    /\ UNCHANGED <<disk, catalog, bounds, told, lookups, skillEdits>>

\* Of two skills of one id the last is kept.
byId_Last(refs) == {x \in refs : \A y \in refs : y.place.id = x.place.id => y.place.at <= x.place.at}

\* Of several skills of one id, the one whose path comes first.
byId(refs) == {x \in refs : \A y \in refs : y.place.id = x.place.id => x.place.at <= y.place.at}

\* The whole catalog is replaced at once.
WriteCatalog(r) ==
    LET c == reader[r] IN
    /\ Stands(r, "scan") /\ c.todo = {} /\ c.left = << >>
    /\ catalog' = byId(c.refs)
    /\ bounds' = [least |-> c.least, most |-> c.most]
    /\ IF c.lookup.op = "index" THEN Ends(r) ELSE reader' = [reader EXCEPT ![r].pc = "reread"]
    /\ UNCHANGED <<disk, told, lookups, skillEdits>>

\* What stands there now may be another's.
ReadCatalog(r) ==
    /\ Stands(r, "reread")
    /\ reader' = [reader EXCEPT ![r].pc = "answer", ![r].refs = catalog,
                                ![r].least = bounds.least, ![r].most = bounds.most]
    /\ UNCHANGED <<disk, catalog, bounds, told, lookups, skillEdits>>

-----------------------------------------------------------------------------
\* The answers.

Of(refs, lookup) ==
    {x \in refs : /\ lookup.type = "all" \/ (lookup.type = "note") = x.place.note
                  /\ lookup.source = "all" \/ x.place.source = lookup.source}

Hits(x, query) == Cardinality(({x.place.id} \cup x.words) \cap query)

\* The best hits, ties by id.
matches(refs, lookup) ==
    LET found == {x \in Of(refs, lookup) : Hits(x, lookup.query) > 0}
        Before(x, y) == \/ Hits(x, lookup.query) > Hits(y, lookup.query)
                        \/ Hits(x, lookup.query) = Hits(y, lookup.query) /\ x.place.at < y.place.at
    IN {x \in found : Cardinality({y \in found : Before(y, x)}) < lookup.limit}

Tells(c, refs) == told' = [lookup |-> c.lookup, refs |-> refs, least |-> c.least, most |-> c.most]

TellList(r) ==
    LET c == reader[r] IN
    /\ Stands(r, "answer") /\ c.lookup.op \in {"list", "match"}
    /\ Tells(c, IF c.lookup.op = "list" THEN Of(c.refs, c.lookup) ELSE matches(c.refs, c.lookup))
    /\ Ends(r)
    /\ UNCHANGED <<disk, catalog, bounds, lookups, skillEdits>>

Named(refs, id) == {x.place : x \in {y \in refs : y.place.id = id}}

\* A skill of the catalog, or one in the user's own directory.
pathOf(refs, id) ==
    IF Named(refs, id) # {} THEN Named(refs, id)
    ELSE {p \in Places : p.id = id /\ p.source = "user" /\ disk[p] # None}

FindPath(r) ==
    LET c == reader[r] IN
    /\ Stands(r, "answer") /\ c.lookup.op \in {"show", "validate", "inject", "forge"}
    /\ reader' = [reader EXCEPT ![r].pc = "read",
                                ![r].todo = IF c.lookup.op \in {"show", "validate"} THEN pathOf(c.refs, c.lookup.id)
                                            ELSE Named(c.refs, IF c.lookup.op = "forge" THEN "skill-creator" ELSE c.lookup.id)]
    /\ UNCHANGED <<disk, catalog, bounds, told, lookups, skillEdits>>

\* What cannot be read is named without its text, or not at all.
ReadSkill(r) ==
    LET c == reader[r]
        read == {p \in c.todo : disk[p] # None /\ (c.lookup.op = "validate" => disk[p].valid)}
    IN
    /\ Stands(r, "read")
    /\ Tells(c, {Ref(p, disk[p]) : p \in read})
    /\ Ends(r)
    /\ UNCHANGED <<disk, catalog, bounds, lookups, skillEdits>>

SkillNext ==
    \/ \E p \in Places, text \in SkillTexts \cup {None} : EditSkill(p, text)
    \/ \E r \in Readers :
          \/ \E lookup \in Lookups : GiveLookup(r, lookup)
          \/ LookAtCatalog(r) \/ ListSkills(r) \/ (\E p \in Places : pushSkill(r, p))
          \/ WriteCatalog(r) \/ ReadCatalog(r) \/ TellList(r) \/ FindPath(r) \/ ReadSkill(r)
          \/ SkillsDies(r)

-----------------------------------------------------------------------------

Ids(refs) == {x.place.id : x \in refs}

\* What a scan may have found, of what held all along and what held at some time.
IsOfScan(refs, least, most) ==
    /\ refs \subseteq most
    /\ Ids(least) \subseteq Ids(refs)
    /\ Cardinality(Ids(refs)) = Cardinality(refs)
    /\ \A x \in least, y \in refs : x.place.id = y.place.id => y.place.at <= x.place.at

\* However agents edit the skills and scans overlap, a catalog comes of one whole scan: it names nothing that was not there
\* during it and nothing twice, misses no skill that stood all along, and prefers the first path; and so does what a list
\* tells, when it was told late (skills.ts scan, catalog, list).
CatalogIsOfOneScan ==
    /\ catalog # None => IsOfScan(catalog, bounds.least, bounds.most)
    /\ told # None /\ told.lookup.op = "list" =>
         /\ told.refs \subseteq told.most
         /\ told.lookup.type = "all" /\ told.lookup.source = "all" => IsOfScan(told.refs, told.least, told.most)
=============================================================================
