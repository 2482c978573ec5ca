--------------------------- MODULE KnowledgeIngest ---------------------------
(***************************************************************************)
(* The ingestion of the documents: a command reads the files it is given   *)
(* and writes each to three stores that share no transaction, first the    *)
(* graph (Neo4j), then the index (Qdrant, batch by batch), then the row    *)
(* (PostgreSQL) whose content hash lets the next run skip the file.  Files *)
(* are edited meanwhile, two commands may run at once, and either may stop *)
(* between any two writes.  Nothing is ever deleted from the index.        *)
(***************************************************************************)
EXTENDS Integers, FiniteSets, Sequences, SequencesExt

CONSTANTS
  Sources,      \* the files
  Contents,     \* what a file may hold: [texts, acl, version, reviewed]
  Commands,     \* invocations of the command line
  Collections,  \* collections of the index
  UpsertSize,    \* chunks in one upsert
  MaxEdits,     \* bound on the edits
  MaxAborts     \* bound on the commands that raise or die
CONSTANT NoRow

ASSUME IngestAssumption ==
  /\ IsFiniteSet(Sources) /\ UpsertSize \in Nat \ {0} /\ MaxEdits \in Nat /\ MaxAborts \in Nat
  /\ \A c \in Contents : c.texts \in Seq(ToSet(c.texts)) /\ c.reviewed \in BOOLEAN

VARIABLES
  file,         \* source -> what the file holds now
  graph,        \* SOP nodes: [source, version]
  index,        \* collection -> points: [source, idx, text, acl, version]
  state,        \* source -> its row of knowledge.ingest_state, or NoRow
  command,      \* where each command stands
  edits, aborts,
  torn          \* sources with an ingestion that failed, overlapped another or
                \* read two versions of the file; nothing in the code keeps this

ingestvars == <<file, graph, index, state, command, edits, aborts, torn>>

-----------------------------------------------------------------------------
(* A point's identity is the hash of its source, position and text, so the *)
(* same chunk is written over itself and a changed one beside the old one. *)

Chunk(source, content, k) ==
  [source |-> source, idx |-> k, text |-> content.texts[k], acl |-> content.acl, version |-> content.version]
Chunks(source, content) == {Chunk(source, content, k) : k \in DOMAIN content.texts}
SamePoint(p, q) == p.source = q.source /\ p.idx = q.idx /\ p.text = q.text

UpsertPoints(points, batch) ==
  {q \in points : ~\E p \in batch : SamePoint(p, q)} \cup batch

Unstarted == [pc |-> "waiting"]
Under(c) == command[c].pc \in {"read", "lookup", "parse", "graph", "index", "record"}
WorksOn(c, source) == Under(c) /\ Head(command[c].todo) = source

IngestInit ==
  /\ file \in [Sources -> {c \in Contents : c.reviewed}]
  /\ graph = {}
  /\ index = [c \in Collections |-> {}]
  /\ state = [s \in Sources |-> NoRow]
  /\ command = [c \in Commands |-> Unstarted]
  /\ edits = 0 /\ aborts = 0
  /\ torn = {}

\* run: the files are taken one after the other.
Run(c, files, collection) ==
  /\ command[c] = Unstarted
  /\ command' = [command EXCEPT ![c] = [pc |-> "read", todo |-> files, collection |-> collection,
                                        hash |-> NoRow, content |-> NoRow, sent |-> 0]]
  /\ UNCHANGED <<file, graph, index, state, edits, aborts, torn>>

To(c, pc) == [command EXCEPT ![c].pc = pc]
\* The next file, or the end of the command.
NextFile(c) ==
  [command EXCEPT ![c] = IF Len(@.todo) = 1 THEN [pc |-> "ended"]
                         ELSE [pc |-> "read", todo |-> Tail(@.todo), collection |-> @.collection,
                               hash |-> NoRow, content |-> NoRow, sent |-> 0]]

ReadHash(c) ==
  /\ command[c].pc = "read"
  /\ LET source == Head(command[c].todo) IN
     /\ command' = [command EXCEPT ![c].pc = "lookup", ![c].hash = file[source]]
     /\ torn' = IF \E other \in Commands \ {c} : WorksOn(other, source) THEN torn \cup {source} ELSE torn
  /\ UNCHANGED <<file, graph, index, state, edits, aborts>>
\* The row is found by the file alone: which collection it went to is not looked at.
Unchanged(row, hash) == row # NoRow /\ row.hash = hash
Lookup(c) ==
  /\ command[c].pc = "lookup"
  /\ command' = IF Unchanged(state[Head(command[c].todo)], command[c].hash) THEN NextFile(c) ELSE To(c, "parse")
  /\ UNCHANGED <<file, graph, index, state, edits, aborts, torn>>
\* Fault variant of Parse: files under review are taken too.
ParseAnyStatus(c) ==
  /\ command[c].pc = "parse"
  /\ LET content == file[Head(command[c].todo)]
     IN command' = [command EXCEPT ![c].content = content,
                                   ![c].pc = IF content.texts = <<>> THEN "record" ELSE "graph"]
  /\ UNCHANGED <<file, graph, index, state, edits, aborts, torn>>
\* The file is read a second time.  One that is not reviewed is left out, with
\* whatever an earlier run made of it; one without text goes straight to its row.
Parse(c) ==
  /\ command[c].pc = "parse"
  /\ LET source == Head(command[c].todo)
         content == file[source]
     IN /\ command' = IF ~content.reviewed THEN NextFile(c)
                      ELSE [command EXCEPT ![c].content = content,
                                           ![c].pc = IF content.texts = <<>> THEN "record" ELSE "graph"]
        /\ torn' = IF content # command[c].hash THEN torn \cup {source} ELSE torn
  /\ UNCHANGED <<file, graph, index, state, edits, aborts>>
MergeSop(c) ==
  /\ command[c].pc = "graph"
  /\ graph' = graph \cup {[source |-> Head(command[c].todo), version |-> command[c].content.version]}
  /\ command' = To(c, "index")
  /\ UNCHANGED <<file, index, state, edits, aborts, torn>>
UpsertBatch(c) ==
  /\ command[c].pc = "index"
  /\ LET m == command[c]
         to == IF m.sent + UpsertSize <= Len(m.content.texts) THEN m.sent + UpsertSize ELSE Len(m.content.texts)
     IN /\ index' = [index EXCEPT ![m.collection] =
                       UpsertPoints(@, {Chunk(Head(m.todo), m.content, k) : k \in (m.sent + 1)..to})]
        /\ command' = [command EXCEPT ![c].sent = to,
                                      ![c].pc = IF to = Len(m.content.texts) THEN "record" ELSE @]
  /\ UNCHANGED <<file, graph, state, edits, aborts, torn>>
RecordState(c) ==
  /\ command[c].pc = "record"
  /\ LET m == command[c]
     IN state' = [state EXCEPT ![Head(m.todo)] =
                    [hash |-> m.hash, version |-> m.content.version, acl |-> m.content.acl,
                     chunks |-> Len(m.content.texts), collection |-> m.collection]]
  /\ command' = NextFile(c)
  /\ UNCHANGED <<file, graph, index, edits, aborts, torn>>

\* A store refuses, the parser raises or the process dies: the command ends
\* and the files after this one are not looked at.
Abort(c) ==
  /\ Under(c) /\ aborts < MaxAborts
  /\ command' = [command EXCEPT ![c] = [pc |-> "failed"]]
  /\ aborts' = aborts + 1
  /\ torn' = IF command[c].pc \in {"index", "record"} THEN torn \cup {Head(command[c].todo)} ELSE torn
  /\ UNCHANGED <<file, graph, index, state, edits>>
Edit(source, content) ==
  /\ edits < MaxEdits /\ content # file[source]
  /\ file' = [file EXCEPT ![source] = content]
  /\ edits' = edits + 1
  /\ UNCHANGED <<graph, index, state, command, aborts, torn>>

IngestNext ==
  \/ \E c \in Commands :
       \/ \E files \in SetToAllKPermutations(Sources) \ {<<>>} : \E x \in Collections : Run(c, files, x)
       \/ ReadHash(c) \/ Lookup(c) \/ Parse(c) \/ MergeSop(c) \/ UpsertBatch(c) \/ RecordState(c)
       \/ Abort(c)
  \/ \E source \in Sources, content \in Contents : Edit(source, content)

IngestSpec == IngestInit /\ [][IngestNext]_ingestvars

-----------------------------------------------------------------------------
(* Properties.                                                             *)

\* Types; in particular the index holds only chunks of reviewed documents.
IngestTypes ==
  /\ file \in [Sources -> Contents]
  /\ graph \subseteq [source : Sources, version : {c.version : c \in Contents}]
  /\ \A collection \in Collections : \A p \in index[collection] :
       \E content \in Contents : content.reviewed /\ p \in Chunks(p.source, content)
  /\ \A s \in Sources : state[s] # NoRow => state[s].hash \in Contents /\ state[s].collection \in Collections
  /\ torn \subseteq Sources

Skipped(s) == Unchanged(state[s], file[s])
\* A file at rest that the next run would skip is in the index, complete, with the level
\* of access and the version it has now: neither crashes of other files, nor
\* edits, nor runs that follow one another leave a hole.  Sources on which an
\* ingestion failed half-way or met another one are left out (see the README).
SkippedIsIndexed ==
  \A s \in Sources \ torn :
    Skipped(s) /\ file[s].reviewed /\ (\A c \in Commands : ~WorksOn(c, s)) => Chunks(s, file[s]) \subseteq index[state[s].collection]

\* Even then no chunk is missing, whichever level it carries, unless the file
\* was changed under the run that recorded it.
Recorded(s) == state[s] # NoRow /\ state[s].chunks > 0
RecordedIsComplete ==
  \A s \in Sources : Recorded(s) =>
    \E content \in Contents :
      /\ Len(content.texts) = state[s].chunks /\ content.version = state[s].version
      /\ \A p \in Chunks(s, content) : \E q \in index[state[s].collection] : SamePoint(p, q)

\* Whatever can be found in the index has its node in the graph: the graph is
\* written first, by every run, in whichever order the runs interleave.
GraphCoversIndex ==
  \A collection \in Collections : \A p \in index[collection] :
    [source |-> p.source, version |-> p.version] \in graph

\* Identity of a point: no two points of one collection are the same chunk, so
\* a repeated run never doubles what a search finds.
NoPointTwice ==
  \A collection \in Collections : \A p, q \in index[collection] : SamePoint(p, q) => p = q

\* Index, graph and record of a file agree, whichever of them failed on the way.
StoresAgree ==
  /\ IngestTypes
  /\ SkippedIsIndexed
  /\ RecordedIsComplete
  /\ GraphCoversIndex
  /\ NoPointTwice
=============================================================================
