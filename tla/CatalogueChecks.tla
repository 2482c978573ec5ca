--------------------------- MODULE CatalogueChecks ---------------------------
(***************************************************************************)
(* The catalogues the services and agents load (SOPs, failure modes,       *)
(* assets, fault profiles, glossaries, the register of the assumptions)    *)
(* and the scripts that check them before a release.  Each script looks at *)
(* one catalogue and knows nothing of the others' verdicts; the properties *)
(* are about what a reader of the catalogues may rely on when several have *)
(* passed.  A schema is a Boolean of the entry it is applied to; a file is *)
(* what the checks read of it; the message of an error is left out.        *)
(***************************************************************************)
EXTENDS Integers, FiniteSets, Sequences, SequencesExt

CONSTANT NoField   \* a field that is not there

Languages == {"it", "en"}
Levels == {"public", "internal", "restricted"}

-----------------------------------------------------------------------------
(* The SOPs.  named: the file's name follows the pattern in full; a name   *)
(* that only begins like one still carries a number.                       *)

Checked(corpus) == {f \in ToSet(corpus) : f.named}

FileHolds(f) == f.parsed /\ f.schema /\ f.acl \in Levels /\ f.sections = "fixed order" /\ f.nameLang = f.lang
\* Nothing to check is a pass.
FrontmatterHolds(corpus) == \A f \in Checked(corpus) : FileHolds(f)

\* Files in the order of their paths; the first of an id and language stays.
SameDocument(f, g) == f.id = g.id /\ f.lang = g.lang
\* Fault variant of Sorted: the last of an id and language stays.
SortedOver(seen, f) ==
  IF f.parsed /\ f.id # NoField /\ f.lang \in Languages
  THEN [seen EXCEPT !.kept = {g \in @ : ~SameDocument(f, g)} \cup {f}]
  ELSE [seen EXCEPT !.refused = TRUE]
Sorted(seen, f) ==
  IF f.parsed /\ f.id # NoField /\ f.lang \in Languages /\ (\A g \in seen.kept : ~SameDocument(f, g))
  THEN [seen EXCEPT !.kept = @ \cup {f}]
  ELSE [seen EXCEPT !.refused = TRUE]
PairingHolds(corpus, allowMissingEn) ==
  LET seen == FoldLeft(Sorted, [kept |-> {}, refused |-> FALSE], SelectSeq(corpus, LAMBDA f : f.named))
      Has(id, lang) == \E g \in seen.kept : g.id = id /\ g.lang = lang IN
  /\ ~seen.refused
  /\ \A f \in seen.kept :
       /\ Has(f.id, "it")
       /\ allowMissingEn \/ Has(f.id, "en")
       /\ \A g \in seen.kept : g.id = f.id => g.meaning = f.meaning

-----------------------------------------------------------------------------
(* The failure modes.  A name is a sequence of words, whatever separates   *)
(* them; long words are those of four letters or more.                     *)

Long(name, long) == Len(name) > 1 \/ \E w \in ToSet(name) : w \in long
Within(a, b) == \E i \in 1..Len(b) : i + Len(a) - 1 <= Len(b) /\ SubSeq(b, i, i + Len(a) - 1) = a
Needles(mode, long) == mode.names \cup {<<w>> : w \in long \cap UNION {ToSet(n) : n \in mode.names}}
NeedleMatches(needle, sop, long) ==
  \/ needle \in sop.tokens
  \/ Long(needle, long) /\ (\/ Within(needle, sop.title)
                            \/ \E t \in sop.tokens : Long(t, long) /\ (Within(needle, t) \/ Within(t, needle)))
Referenced(mode, sops, long) ==
  \E sop \in sops, needle \in Needles(mode, long) : sop.parsed /\ NeedleMatches(needle, sop, long)

Maintained(modes) == {k \in DOMAIN modes : modes[k].sop # NoField}
CodesUnique(modes) == \A j, k \in Maintained(modes) : modes[j].reason = modes[k].reason => j = k
\* The numbers are read off the names, of files that are never opened too.
SopsResolve(modes, corpus) == \A k \in Maintained(modes) : \E f \in ToSet(corpus) : f.nameId = modes[k].sop
ModesHold(modes, corpus, allowOrphans, strict, long) ==
  /\ Checked(corpus) # {}
  /\ Cardinality({k \in DOMAIN modes : ~Referenced(modes[k], Checked(corpus), long)}) <= allowOrphans
  /\ CodesUnique(modes)
  /\ strict => SopsResolve(modes, corpus)

-----------------------------------------------------------------------------
(* The assets, what the services look up in them, and the fault profiles.  *)

RegistryHolds(assets) == assets # << >> /\ IsInjective([k \in DOMAIN assets |-> assets[k].id])
\* load_assets_dict: of two entries the later one stays.
AssetOf(assets, id) ==
  LET last == CHOOSE k \in DOMAIN assets : assets[k].id = id /\ \A j \in DOMAIN assets : assets[j].id = id => j <= k IN
  assets[last]
\* load_tag_dict asserts that a tag is the same wherever it appears.
Divergent(assets) ==
  \E a, b \in ToSet(assets) : \E t \in a.tags, u \in b.tags : t.id = u.id /\ t # u
TagOf(assets, id) ==
  LET first == CHOOSE k \in DOMAIN assets : (\E t \in assets[k].tags : t.id = id)
                                            /\ \A j \in 1..(k - 1) : \A t \in assets[j].tags : t.id # id IN
  CHOOSE t \in assets[first].tags : t.id = id
KnownTags(assets) == {t.id : t \in UNION {a.tags : a \in ToSet(assets)}}

Altered(profile) == UNION {profile.faults[kind] : kind \in DOMAIN profile.faults}
ProfileHolds(profile, assets) == profile.schema /\ Altered(profile) \cup profile.baseline \subseteq KnownTags(assets)
ProfilesHold(profiles, assets) ==
  profiles # {} /\ ~Divergent(assets) /\ \A p \in profiles : ProfileHolds(p, assets)

-----------------------------------------------------------------------------
(* The glossaries.  A term is a stem, spelled with underscores as in the   *)
(* schema's description or with blanks; a token always with underscores.   *)

GlossarySchemaHolds(entries) ==
  /\ entries # << >>
  /\ \A k \in DOMAIN entries : entries[k].schema
  /\ IsInjective([k \in DOMAIN entries |-> entries[k].term])
\* The page of a glossary: by category, then by name whatever its case.
Grouped(entries, category) ==
  SortSeq(SelectSeq(entries, LAMBDA e : e.category = category), LAMBDA a, b : a.term < b.term)
GlossaryPage(entries) == [c \in {e.category : e \in ToSet(entries)} |-> Grouped(entries, c)]

TokenIn(token, glossary) == \E t \in glossary : t.stem = token
\* Labels, sentences, numbers and paths set in bold are noise.
BoldTerms(page) == {b.stem : b \in {x \in page.bold : x.kind = "term"}}
\* Pages made from the glossaries are not read.
Tokens(pages, lang) == UNION {BoldTerms(p) : p \in {q \in pages : q.lang = lang /\ q.name # "glossary"}}
CoveredTokens(tokens, glossary, fallback) == {t \in tokens : TokenIn(t, glossary) \/ TokenIn(t, fallback)}
Covered(pages, glossaries, lang) ==
  CoveredTokens(Tokens(pages, lang), glossaries[lang], IF lang = "en" THEN glossaries["it"] ELSE {})
CoverageHolds(pages, glossaries) ==
  \A lang \in Languages : glossaries[lang] # {} /\ Tokens(pages, lang) = Covered(pages, glossaries, lang)
\* A term is looked for among the tokens as it is spelled.
StaleTerms(pages, glossaries, lang) ==
  {t \in glossaries[lang] : ~(t.spelled = "underscore" /\ t.stem \in Covered(pages, glossaries, lang))}

-----------------------------------------------------------------------------
(* The register of the assumptions and the pages made from it.             *)

RegisterHolds(entries) ==
  LET ids == [k \in DOMAIN entries |-> entries[k].id] IN
  /\ entries # << >> /\ \A k \in DOMAIN entries : entries[k].schema
  /\ IsInjective(ids)
  /\ SortSeq(ids, <) = [k \in DOMAIN entries |-> k]

ComponentNames(projects, infra) == projects \cup {[prefix |-> "none", stem |-> p.stem] : p \in projects} \cup infra
ComponentsHold(entries, projects, infra) ==
  \A k \in DOMAIN entries : entries[k].affected \subseteq ComponentNames(projects, infra)

\* An index and a page for each entry, entry after entry.
IndexPage == 0
InOrder(entries) == SortSeq(entries, LAMBDA a, b : a.id < b.id)
Outputs(entries) ==
  <<[path |-> IndexPage, content |-> InOrder(entries)]>>
    \o [k \in DOMAIN entries |-> [path |-> InOrder(entries)[k].id, content |-> <<InOrder(entries)[k]>>]]
Written(pages, outputs) ==
  LET Write(found, o) == {p \in found : p.path # o.path} \cup {o} IN FoldLeft(Write, pages, outputs)
Drift(pages, outputs) == {k \in DOMAIN outputs : outputs[k] \notin pages}

-----------------------------------------------------------------------------
(* What a release may rely on.                                             *)

\* Where every file is numbered in its name as inside, the checks together
\* (none of them alone) give a failure mode its intervention: one readable
\* document in each language, with a level of access.
InterventionsHeld(corpus, modes, long) ==
  LET files == ToSet(corpus)
      Documents(id, lang) == {k \in DOMAIN corpus : corpus[k].id = id /\ corpus[k].lang = lang} IN
  (/\ \A f \in files : f.named /\ f.nameId = f.id
   /\ FrontmatterHolds(corpus) /\ PairingHolds(corpus, FALSE)
   /\ ModesHold(modes, corpus, Len(modes), TRUE, long))
  => \A k \in Maintained(modes), lang \in Languages :
       /\ Cardinality(Documents(modes[k].sop, lang)) = 1
       /\ \A d \in Documents(modes[k].sop, lang) : corpus[d].parsed /\ corpus[d].acl \in Levels

\* Renaming directories, hence reading the files in another order, does not
\* turn one verdict into the other.
PairingSteady(corpus) ==
  \A allow \in BOOLEAN : PairingHolds(corpus, allow) = PairingHolds(Reverse(corpus), allow)

\* A further SOP never makes the check of the failure modes fail.
CorpusMayGrow(modes, corpus, more, long) ==
  \A allowed \in 0..Len(modes), strict \in BOOLEAN :
    ModesHold(modes, corpus, allowed, strict, long) => ModesHold(modes, Append(corpus, more), allowed, strict, long)

\* Where the registry and the profiles pass, a service finds under an id the
\* entry of that very asset and of every tag it has, and a simulator for each
\* tag a profile speaks of an asset that has it.
RegistryResolves(assets, profiles) ==
  RegistryHolds(assets) /\ ProfilesHold(profiles, assets)
  => /\ \A a \in ToSet(assets) : AssetOf(assets, a.id) = a /\ \A t \in a.tags : TagOf(assets, t.id) = t
     /\ \A p \in profiles : \A id \in Altered(p) \cup p.baseline :
          \E a \in ToSet(assets) : TagOf(assets, id) \in AssetOf(assets, a.id).tags

\* English terms reported as stale can be dropped without an error of
\* coverage, if the terms are spelled as the schema describes.
StaleDroppable(pages, glossaries) ==
  LET kept == [glossaries EXCEPT !["en"] = @ \ StaleTerms(pages, glossaries, "en")] IN
  CoverageHolds(pages, glossaries) /\ kept["en"] # {} /\ (\A t \in glossaries["en"] : t.spelled = "underscore")
  => CoverageHolds(pages, kept)

\* The page made from a glossary that passes does not depend on the order of
\* its entries, so moving an entry is no drift.
GlossaryPageSteady(entries) ==
  GlossarySchemaHolds(entries) => GlossaryPage(Reverse(entries)) = GlossaryPage(entries)

\* A register that passes is numbered from 1 without a gap, and its pages,
\* once written over whatever is there, show no drift.
PagesSettle(entries, pages) ==
  RegisterHolds(entries) =>
    /\ {e.id : e \in ToSet(entries)} = 1..Len(entries)
    /\ Drift(Written(pages, Outputs(entries)), Outputs(entries)) = {}

\* A project that is retired while an assumption names it is noticed, unless
\* its short name is also another's.
RetiredNoticed(entries, projects, infra, retired) ==
  (/\ ComponentsHold(entries, projects, infra)
   /\ ComponentsHold(entries, projects \ {retired}, infra))
  => \A k \in DOMAIN entries :
       /\ retired \notin entries[k].affected
       /\ [prefix |-> "none", stem |-> retired.stem] \in entries[k].affected
            => [prefix |-> "none", stem |-> retired.stem] \in infra
               \/ \E p \in projects \ {retired} : p.stem = retired.stem
=============================================================================
