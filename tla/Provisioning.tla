----------------------------- MODULE Provisioning -----------------------------
(***************************************************************************)
(* The scripts that prepare what the services find: the migrations of the  *)
(* database, the collections of the vector store, the constraints of the   *)
(* graph, the access levels of the SOPs and the datasets of the simulator. *)
(* Each goes through its items in order and is meant to be run again; none *)
(* keeps a record of what it has done, and nothing serialises two runs.    *)
(* A behaviour is about the runs of one script.                            *)
(***************************************************************************)
EXTENDS Integers, FiniteSets, Sequences, SequencesExt

CONSTANTS
  Runs,         \* invocations of the script
  Files,        \* migrations in the order of their names: the action types the
                \* constraint admits from then on; {} for one that creates what
                \* is missing and leaves the rest
  CollectionSpecs,  \* sequence of collections
  PayloadIndexes,       \* payload indexes
  Constraints,  \* sequence of labels whose id must be unique
  Docs,         \* sequence of SOP files
  Broken,       \* those whose front matter cannot be parsed
  Datasets,     \* sequence of datasets
  Nothing,
  MaxLosses,    \* bound: calls that fail
  MaxKills      \* bound: runs killed half-way

\* Each script has something to do; what it keeps under a name has one name.
ASSUME ProvisioningAssumption ==
  /\ Files \in Seq(ToSet(Files)) \ {<<>>} /\ CollectionSpecs \in Seq(ToSet(CollectionSpecs)) \ {<<>>}
  /\ Constraints \in Seq(ToSet(Constraints)) \ {<<>>} /\ Docs \in Seq(ToSet(Docs)) \ {<<>>}
  /\ Datasets \in Seq(ToSet(Datasets)) \ {<<>>}
  /\ \A i, j \in DOMAIN CollectionSpecs : CollectionSpecs[i] = CollectionSpecs[j] => i = j
  /\ \A i, j \in DOMAIN Datasets : Datasets[i] = Datasets[j] => i = j
  /\ \A known \in (SUBSET PayloadIndexes) \cup (SUBSET ToSet(CollectionSpecs)) : known # Nothing
  /\ Nothing \notin Runs
  /\ Nothing \notin {"public", "internal", "restricted", "absent", "partial", "v1", "v2"}
  /\ MaxLosses \in Nat /\ MaxKills \in Nat

VARIABLES
  script,      \* "migrate", "qdrant", "neo4j", "acl" or "datasets"
  run,         \* [Runs -> where the run is]
  shipped,     \* number of files in the newest release
  allowed,     \* action types audit.actions admits; {}: no table yet
  written,     \* action types of the rows of audit.actions
  payload,       \* [collection -> the fields indexed; Nothing: no collection]
  unique,      \* labels with a constraint
  twins,       \* labels with two nodes of one id
  doc,         \* [SOP -> [acl, audience, text]]
  meant,       \* [SOP -> the same as its authors left it]: history
  local, sums,  \* [dataset -> what is on the disk, in CHECKSUMS.txt]
  served,      \* what the servers of the datasets deliver
  latest,      \* the run that ended last: history
  marred,      \* a run was killed in the middle of a write, or two overlapped: history
  losses, kills

docs == <<doc, meant>>
database == <<shipped, allowed, written>>
knowledge == <<unique, twins>>
disk == <<local, sums, served>>
provars == <<script, run, database, payload, knowledge, docs, disk, latest, marred, losses, kills>>

NotRun == [at |-> "idle"]
Blank == [acl |-> Nothing, audience |-> Nothing, text |-> FALSE]

ProvInit ==
  /\ script \in {"migrate", "qdrant", "neo4j", "acl", "datasets"}
  /\ run = [r \in Runs |-> NotRun]
  /\ shipped \in (IF script = "migrate" THEN 1..Len(Files) ELSE {1})
  /\ allowed = {} /\ written = {}
  /\ payload = [c \in ToSet(CollectionSpecs) |-> Nothing]
  /\ unique = {} /\ twins = {}
  /\ doc \in [ToSet(Docs) -> [acl : {Nothing, "public"}, audience : {"operations", "safety"}, text : {TRUE}]]
  /\ script # "acl" => \A d \in ToSet(Docs) : doc[d].acl = Nothing /\ doc[d].audience = "safety"
  /\ meant = doc
  /\ local = [d \in ToSet(Datasets) |-> "absent"] /\ sums = [d \in ToSet(Datasets) |-> Nothing]
  /\ served = "v1"
  /\ latest = Nothing /\ marred = FALSE /\ losses = 0 /\ kills = 0

-----------------------------------------------------------------------------
(* A run.                                                                  *)

Items == CASE script = "migrate" -> SubSeq(Files, 1, shipped)
           [] script = "qdrant" -> CollectionSpecs
           [] script = "neo4j" -> Constraints
           [] script = "acl" -> Docs
           [] OTHER -> Datasets

UnderWay(r) == run[r].at \notin {"idle", "ended"}

\* force: download what is there.  bad: an item failed.  lost: a call failed.
Invoke(r, force) ==
  /\ run[r].at = "idle" /\ (force => script = "datasets")
  /\ LET others == {q \in Runs : UnderWay(q)} IN
     /\ run' = [q \in Runs |->
          IF q = r THEN [at |-> "item", items |-> Items, item |-> 1, known |-> Nothing, held |-> Nothing,
                         force |-> force, bad |-> FALSE, lost |-> FALSE, alone |-> others = {},
                         code |-> "none"]
          ELSE IF q \in others THEN [run[q] EXCEPT !.alone = FALSE] ELSE run[q]]
     /\ marred' = (marred \/ others # {})
  /\ UNCHANGED <<script, database, payload, knowledge, docs, disk, latest, losses, kills>>

Item(r) == run[r].items[run[r].item]

At(r, name, where) == script = name /\ run[r].at = where

\* What a run holds is gone with it.
Goes(r, to) ==
  /\ run' = [run EXCEPT ![r] = IF to.at = "ended" THEN [to EXCEPT !.known = Nothing, !.held = Nothing, !.force = FALSE]
                             ELSE to]
  /\ latest' = IF to.at = "ended" THEN r ELSE latest

Aborted(r) == [run[r] EXCEPT !.at = "ended", !.code = "1"]

\* The next item, or the end: an item that failed decides the exit code.
After(r, failed) ==
  LET now == [run[r] EXCEPT !.bad = @ \/ failed] IN
  IF now.item < Len(now.items)
  THEN [now EXCEPT !.at = "item", !.item = @ + 1, !.held = Nothing]
  ELSE [now EXCEPT !.at = "ended", !.code = IF now.bad THEN "1" ELSE "0"]

\* A call of the script to the database, the vector store or the graph fails,
\* or the plugin that the last of them asks for is missing.
Lose(r) ==
  /\ script \in {"migrate", "qdrant", "neo4j"} /\ UnderWay(r)
  /\ losses < MaxLosses /\ losses' = losses + 1
  /\ Goes(r, [Aborted(r) EXCEPT !.lost = TRUE])
  /\ UNCHANGED <<script, database, payload, knowledge, docs, disk, marred, kills>>

Kill(r) ==
  /\ UnderWay(r) /\ kills < MaxKills /\ kills' = kills + 1
  /\ Goes(r, [run[r] EXCEPT !.at = "ended", !.code = "killed"])
  /\ marred' = (marred \/ run[r].at \in {"truncated", "fetching"})
  /\ UNCHANGED <<script, database, payload, knowledge, docs, disk, losses>>

-----------------------------------------------------------------------------
(* migrate.py: every file again at each run, each in a transaction.        *)

FileOf(r) == Item(r)

\* A table is created without the constraint, and not twice; ADD CONSTRAINT
\* looks at the rows that are there.
Apply(r) ==
  /\ At(r, "migrate", "item")
  /\ IF FileOf(r) = {} \/ written \subseteq FileOf(r)
     THEN /\ allowed' = IF FileOf(r) # {} THEN FileOf(r)
                        ELSE IF allowed = {} THEN UNION ToSet(Files) ELSE allowed
          /\ Goes(r, After(r, FALSE))
     ELSE Goes(r, Aborted(r)) /\ UNCHANGED allowed
  /\ UNCHANGED <<script, shipped, written, payload, knowledge, docs, disk, marred, losses, kills>>

\* The agents write the types of their release, before or after its migration.
InsertAction(t) ==
  /\ script = "migrate" /\ t \in allowed
  /\ written' = written \cup {t}
  /\ UNCHANGED <<script, run, shipped, allowed, payload, knowledge, docs, disk, latest, marred, losses, kills>>

Release ==
  /\ script = "migrate" /\ shipped < Len(Files)
  /\ shipped' = shipped + 1
  /\ UNCHANGED <<script, run, allowed, written, payload, knowledge, docs, disk, latest, marred, losses, kills>>

-----------------------------------------------------------------------------
(* qdrant-bootstrap.py.                                                    *)

\* The collections are listed once, at the start.
List(r) ==
  /\ At(r, "qdrant", "item") /\ run[r].known = Nothing
  /\ Goes(r, [run[r] EXCEPT !.known = {c \in ToSet(CollectionSpecs) : payload[c] # Nothing}])
  /\ UNCHANGED <<script, database, payload, knowledge, docs, disk, marred, losses, kills>>

\* Fault variant of Create: the indexes of a collection that is there are there.
CreateOrSkip(r) ==
  /\ At(r, "qdrant", "item") /\ run[r].known # Nothing
  /\ \/ Item(r) \in run[r].known /\ UNCHANGED payload /\ Goes(r, After(r, FALSE))
     \/ /\ Item(r) \notin run[r].known /\ payload[Item(r)] = Nothing
        /\ payload' = [payload EXCEPT ![Item(r)] = {}]
        /\ Goes(r, [run[r] EXCEPT !.at = "fields", !.held = {}])
     \/ /\ Item(r) \notin run[r].known /\ payload[Item(r)] # Nothing
        /\ UNCHANGED payload /\ Goes(r, Aborted(r))
  /\ UNCHANGED <<script, database, knowledge, docs, disk, marred, losses, kills>>

\* Creating one that another run has created meanwhile is a conflict.
Create(r) ==
  /\ At(r, "qdrant", "item") /\ run[r].known # Nothing
  /\ LET fields == [run[r] EXCEPT !.at = "fields", !.held = {}] IN
     \/ Item(r) \in run[r].known /\ UNCHANGED payload /\ Goes(r, fields)
     \/ /\ Item(r) \notin run[r].known /\ payload[Item(r)] = Nothing
        /\ payload' = [payload EXCEPT ![Item(r)] = {}]
        /\ Goes(r, fields)
     \/ /\ Item(r) \notin run[r].known /\ payload[Item(r)] # Nothing
        /\ UNCHANGED payload /\ Goes(r, Aborted(r))
  /\ UNCHANGED <<script, database, knowledge, docs, disk, marred, losses, kills>>

IndexField(r, f) ==
  /\ At(r, "qdrant", "fields") /\ f \notin run[r].held
  /\ payload' = [payload EXCEPT ![Item(r)] = @ \cup {f}]
  /\ Goes(r, IF run[r].held \cup {f} = PayloadIndexes THEN After(r, FALSE) ELSE [run[r] EXCEPT !.held = @ \cup {f}])
  /\ UNCHANGED <<script, database, knowledge, docs, disk, marred, losses, kills>>

-----------------------------------------------------------------------------
(* neo4j-bootstrap.py.                                                     *)

\* IF NOT EXISTS; nodes that share an id stand in its way.
Constrain(r) ==
  /\ At(r, "neo4j", "item")
  /\ IF Item(r) \in twins
     THEN UNCHANGED unique /\ Goes(r, Aborted(r))
     ELSE unique' = unique \cup {Item(r)} /\ Goes(r, After(r, FALSE))
  /\ UNCHANGED <<script, database, payload, twins, docs, disk, marred, losses, kills>>

\* Two ingestions MERGE one id at once: only the constraint keeps them apart.
MergeTwice(l) ==
  /\ script = "neo4j" /\ l \notin unique
  /\ twins' = twins \cup {l}
  /\ UNCHANGED <<script, run, database, payload, unique, docs, disk, latest, marred, losses, kills>>

-----------------------------------------------------------------------------
(* migrate-sop-acl.py.                                                     *)

\* D-72: who a document is for decides who may read it.
LevelOf(audience) ==
  CASE audience = "operations" -> "public"
    [] audience \in {"management", "safety"} -> "restricted"
    [] OTHER -> "internal"

\* A document that has a level is left alone; one that cannot be read is counted.
Load(r) ==
  /\ At(r, "acl", "item")
  /\ Goes(r, IF Item(r) \in Broken THEN After(r, TRUE)
             ELSE IF doc[Item(r)].acl # Nothing THEN After(r, FALSE)
             ELSE [run[r] EXCEPT !.at = "loaded", !.held = doc[Item(r)]])
  /\ UNCHANGED <<script, database, payload, knowledge, docs, disk, marred, losses, kills>>

\* open(path, "w") empties the file; what is written reaches it at the close.
Truncate(r) ==
  /\ At(r, "acl", "loaded")
  /\ doc' = [doc EXCEPT ![Item(r)] = Blank]
  /\ Goes(r, [run[r] EXCEPT !.at = "truncated"])
  /\ UNCHANGED <<script, database, payload, knowledge, meant, disk, marred, losses, kills>>

WriteDoc(r) ==
  /\ At(r, "acl", "truncated")
  /\ doc' = [doc EXCEPT ![Item(r)] = [run[r].held EXCEPT !.acl = LevelOf(run[r].held.audience)]]
  /\ Goes(r, After(r, FALSE))
  /\ UNCHANGED <<script, database, payload, knowledge, meant, disk, marred, losses, kills>>

\* An author gives a document its level, perhaps while the script holds it.
EditLevel(d) ==
  /\ script = "acl" /\ doc[d].text /\ doc[d].acl # "restricted"
  /\ doc' = [doc EXCEPT ![d].acl = "restricted"] /\ meant' = [meant EXCEPT ![d].acl = "restricted"]
  /\ marred' = (marred \/ \E r \in Runs : run[r].at = "loaded" /\ Item(r) = d)
  /\ UNCHANGED <<script, run, database, payload, knowledge, disk, latest, losses, kills>>

-----------------------------------------------------------------------------
(* download-replay-datasets.py.                                            *)

\* What is there is taken when its checksum agrees or when none is registered.
CheckDataset(r) ==
  /\ At(r, "datasets", "item")
  /\ LET d == Item(r) IN
     IF local[d] # "absent" /\ ~run[r].force
     THEN Goes(r, After(r, sums[d] \notin {Nothing, local[d]})) /\ UNCHANGED local
     ELSE /\ local' = [local EXCEPT ![d] = "partial"]
          /\ Goes(r, [run[r] EXCEPT !.at = "fetching", !.held = sums[d]])
  /\ UNCHANGED <<script, database, payload, knowledge, docs, sums, served, marred, losses, kills>>

Fetched(r) ==
  /\ At(r, "datasets", "fetching")
  /\ local' = [local EXCEPT ![Item(r)] = served]
  /\ Goes(r, [run[r] EXCEPT !.at = "fetched"])
  /\ UNCHANGED <<script, database, payload, knowledge, docs, sums, served, marred, losses, kills>>

\* What came is removed, and the next dataset is tried.
FetchFails(r) ==
  /\ At(r, "datasets", "fetching") /\ losses < MaxLosses /\ losses' = losses + 1
  /\ local' = [local EXCEPT ![Item(r)] = "absent"]
  /\ Goes(r, After(r, TRUE))
  /\ UNCHANGED <<script, database, payload, knowledge, docs, sums, served, marred, kills>>

\* Another run may have removed the file by now: then the hash raises.
Verify(r) ==
  /\ At(r, "datasets", "fetched")
  /\ LET d == Item(r)
         known == run[r].held IN
     \/ local[d] = "absent" /\ Goes(r, Aborted(r)) /\ UNCHANGED <<local, sums>>
     \/ /\ local[d] # "absent" /\ known = Nothing
        /\ sums' = [sums EXCEPT ![d] = local[d]]
        /\ Goes(r, After(r, FALSE)) /\ UNCHANGED local
     \/ /\ local[d] # "absent" /\ known = local[d]
        /\ Goes(r, After(r, FALSE)) /\ UNCHANGED <<local, sums>>
     \/ /\ local[d] # "absent" /\ known \notin {Nothing, local[d]}
        /\ local' = [local EXCEPT ![d] = "absent"]
        /\ Goes(r, After(r, TRUE)) /\ UNCHANGED sums
  /\ UNCHANGED <<script, database, payload, knowledge, docs, served, marred, losses, kills>>

\* A newer edition is put where the old one was.
Republish ==
  /\ script = "datasets" /\ served = "v1" /\ served' = "v2"
  /\ UNCHANGED <<script, run, database, payload, knowledge, docs, local, sums, latest, marred, losses, kills>>

ProvNext ==
  \/ \E r \in Runs :
       \/ \E force \in BOOLEAN : Invoke(r, force)
       \/ Lose(r) \/ Kill(r) \/ Apply(r) \/ List(r) \/ Create(r) \/ Constrain(r)
       \/ \E f \in PayloadIndexes : IndexField(r, f)
       \/ Load(r) \/ Truncate(r) \/ WriteDoc(r)
       \/ CheckDataset(r) \/ Fetched(r) \/ FetchFails(r) \/ Verify(r)
  \/ \E i \in 1..shipped : \E t \in Files[i] : InsertAction(t)
  \/ \E l \in ToSet(Constraints) : MergeTwice(l)
  \/ \E d \in ToSet(Docs) : EditLevel(d)
  \/ Release \/ Republish

ProvSpec == ProvInit /\ [][ProvNext]_provars

-----------------------------------------------------------------------------
(* Properties.                                                             *)

Exited(r, code) == run[r].at = "ended" /\ run[r].code = code
Settled == latest # Nothing /\ Exited(latest, "0") /\ \A r \in Runs : ~UnderWay(r)

\* A run fails only for a lost call, or because a row is of a type newer than
\* some file, whatever file that is; and once the last run to end was one of the
\* newest release and went well, every type of the release can be written
\* again: in between the constraint is narrower than it was.
MigrationsHold ==
  script = "migrate" =>
    /\ \A r \in Runs : Exited(r, "1") =>
         run[r].lost \/ \E i \in 1..shipped : Files[i] # {} /\ ~(written \subseteq Files[i])
    /\ Settled /\ Len(run[latest].items) = shipped /\ Files[shipped] # {} => allowed = Files[shipped]

\* migrate.py:11: "Re-running is safe: all SQL statements use IF NOT EXISTS /
\* DO block guards."  Once a run has gone well, one fails only for a lost call.
RerunSafe ==
  script = "migrate" /\ (\E r \in Runs : Exited(r, "0")) => \A r \in Runs : Exited(r, "1") => run[r].lost

\* However often it was killed before, a run that ends well leaves every
\* collection with every index; it fails only for a lost call or another run.
CollectionsReady ==
  script = "qdrant" =>
    /\ (\E r \in Runs : Exited(r, "0")) => \A c \in ToSet(CollectionSpecs) : payload[c] = PayloadIndexes
    /\ \A r \in Runs : Exited(r, "1") => run[r].lost \/ ~run[r].alone

\* A run that ends well leaves no two nodes of one id, now and later.
GraphReady ==
  script = "neo4j" =>
    /\ (\E r \in Runs : Exited(r, "0")) => ToSet(Constraints) \subseteq unique /\ twins = {}
    /\ \A r \in Runs : Exited(r, "1") => run[r].lost \/ Item(r) \in twins

\* Unless a run is killed in a write, or overlaps another or an author, each
\* document keeps its text and the level it had, and is given the one of its
\* audience when it had none.
LevelsKept ==
  script = "acl" /\ ~marred /\ latest # Nothing /\ run[latest].code \in {"0", "1"} /\ (\A r \in Runs : ~UnderWay(r)) =>
    \A d \in ToSet(Docs) \ Broken :
      doc[d] = IF meant[d].acl # Nothing THEN meant[d]
               ELSE [meant[d] EXCEPT !.acl = LevelOf(meant[d].audience)]

\* A run that ends well by itself leaves every dataset, as it was registered
\* whatever was killed before; without a kill or an overlap none is cut short.
DatasetsKept ==
  script = "datasets" =>
    /\ Settled /\ run[latest].alone =>
         \A d \in ToSet(Datasets) : local[d] # "absent" /\ sums[d] \in {Nothing, local[d]}
    /\ ~marred /\ (\A r \in Runs : ~UnderWay(r)) =>
         \A d \in ToSet(Datasets) : local[d] # "partial" /\ sums[d] # "partial"

\* What the scripts leave behind is what the services expect.
ProvisioningHolds ==
  MigrationsHold /\ CollectionsReady /\ GraphReady /\ LevelsKept /\ DatasetsKept
=============================================================================
