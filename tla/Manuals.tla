--------------------------------- MODULE Manuals ---------------------------------
(***************************************************************************)
(* Workshop manuals: the ingest command reads a folder of PDFs and HTML    *)
(* trees, replaces each manual in one transaction and then fills in the    *)
(* embeddings of the chunks that have none.  Several ingests may run at    *)
(* once, of this build and of one with another embedding model, and any of *)
(* them may die between two statements.                                    *)
(*                                                                         *)
(* A manual's content is the texts of its pages, one chunk each; how pages *)
(* are extracted, cleaned and cut is left out.  Searches are in            *)
(* PlaybookBuild.                                                          *)
(***************************************************************************)
EXTENDS Naturals, Sequences, FiniteSets

CONSTANTS
  Pdfs,        \* PDF files of the folder, with their sidecars
  Trees,       \* HTML trees that a sidecar of the folder names
  Folder,      \* all of them, in the order of the directory
  Contents,    \* what a manual may contain
  PageTexts,   \* the texts of each content's pages
  Bad,         \* a file that cannot be read, or has no make, model and years
  ImagesOnly,  \* a tree whose HTML was deleted after its ingest
  Ingesters,   \* ingest commands
  EmbedModel,  \* the embedding model of each ingester's build
  Batch,       \* chunks embedded by one call (embedBatch)
  MaxIngests,  \* bound: ingests started in one behaviour
  MaxSources   \* bound: doc_sources rows inserted

ASSUME FolderAssumption ==
  /\ Folder \in Seq(Pdfs \cup Trees)
  /\ Pdfs \cap Trees = {}
  /\ Bad \notin Contents /\ ImagesOnly \notin Contents
  /\ PageTexts \in [Contents -> Seq(STRING)]
ASSUME ManualsBounds ==
  Batch \in Nat \ {0} /\ MaxIngests \in Nat /\ MaxSources \in Nat

Models == {EmbedModel[p] : p \in Ingesters}
NoModel == "no model"
NoSource == 0

(* NoModel is no row in doc_embedding_meta; a build names its model.       *)
ASSUME ModelsAssumption == NoModel \notin Models

VARIABLES
  disk,        \* what each file of the folder contains
  sources,     \* doc_sources, each with its chunks and figures
  inserted,    \* doc_sources rows inserted so far: the last id
  embeddings,  \* doc_chunks.embedding where it is not NULL
  indexModel,  \* doc_embedding_meta.model
  hasVector,   \* doc_chunks has the column: pgvector was there to migrate
  ingester,    \* what each ingest is doing
  ingests      \* ingests started so far

manualVars ==
  <<disk, sources, inserted, embeddings, indexModel, hasVector, ingester, ingests>>

(* A PDF is known by its bytes, a tree by its place and its sidecar.       *)
Sha(file, content) ==
  IF file \in Pdfs THEN <<"pdf", content>> ELSE <<"tree", file>>

Shas == ({"pdf"} \X Contents) \cup ({"tree"} \X Trees)
Source == [id : 1 .. MaxSources, sha : Shas, content : Contents]

(* A chunk is known by its source's id and its page.                       *)
ChunksOf(s) == {s.id} \X DOMAIN PageTexts[s.content]
Chunks == UNION {ChunksOf(s) : s \in sources}
SourceOf(chunk) == CHOOSE s \in sources : s.id = chunk[1]
TextOf(chunk) == PageTexts[SourceOf(chunk).content][chunk[2]]
Texts == UNION {{PageTexts[c][i] : i \in DOMAIN PageTexts[c]} : c \in Contents}

Away == [step |-> "away"]
ChunkIds == (1 .. MaxSources) \X Nat
Ingester ==
  [step : {"read"}, at : Nat \ {0}]
  \cup [step : {"select", "write"}, at : Nat \ {0}, file : Pdfs \cup Trees,
        content : Contents, old : 0 .. MaxSources]
  \cup [step : {"lock", "lock_insert", "lock_check", "pending"}]
  \cup [step : {"call"}, batch : Seq(ChunkIds), texts : Seq(Texts)]
  \cup [step : {"store"}, batch : Seq(ChunkIds), vectors : Seq(Texts)]

ManualsTypeOK ==
  /\ disk \in [Pdfs \cup Trees -> Contents \cup {Bad, ImagesOnly}]
  /\ sources \subseteq Source
  /\ \A s, t \in sources : s.id = t.id \/ s.sha = t.sha => s = t
  /\ inserted \in 0 .. MaxSources
  /\ DOMAIN embeddings \subseteq Chunks
  /\ \A c \in DOMAIN embeddings : embeddings[c] \in [model : Models, text : Texts]
  /\ indexModel \in Models \cup {NoModel}
  /\ hasVector \in BOOLEAN
  /\ ingester \in [Ingesters -> Ingester \cup {Away}]
  /\ ingests \in 0 .. MaxIngests

ManualsInit ==
  /\ disk \in [Pdfs \cup Trees -> Contents]
  /\ sources = {}
  /\ inserted = 0
  /\ embeddings = <<>>
  /\ indexModel = NoModel
  /\ hasVector \in BOOLEAN
  /\ ingester = [p \in Ingesters |-> Away]
  /\ ingests = 0

Goes(p, state) == ingester' = [ingester EXCEPT ![p] = state]
ReadsNext(p) == Goes(p, [step |-> "read", at |-> ingester[p].at + 1])
Quits(p) == Goes(p, Away)

StartIngest(p, embedOnly) ==
  /\ ingester[p] = Away
  /\ ingests < MaxIngests
  /\ ingests' = ingests + 1
  /\ Goes(p, IF embedOnly THEN [step |-> "lock"] ELSE [step |-> "read", at |-> 1])
  /\ UNCHANGED <<disk, sources, inserted, embeddings, indexModel, hasVector>>

-----------------------------------------------------------------------------
(* IngestDir: one file after the other; the first that fails ends it.      *)

ReadFile(p) ==
  /\ ingester[p].step = "read"
  /\ IF ingester[p].at > Len(Folder)
     THEN Goes(p, [step |-> "lock"])
     ELSE LET file == Folder[ingester[p].at] IN
          CASE disk[file] = Bad -> Quits(p)
            [] disk[file] = ImagesOnly -> ReadsNext(p)  \* Skipped
            [] OTHER -> Goes(p, [step |-> "select", at |-> ingester[p].at,
                                 file |-> file, content |-> disk[file],
                                 old |-> NoSource])
  /\ UNCHANGED <<disk, sources, inserted, embeddings, indexModel, hasVector, ingests>>

ShaOf(p) == Sha(ingester[p].file, ingester[p].content)

(* ReplaceDoc: BEGIN, and the row that has this sha.                       *)
SelectSource(p) ==
  /\ ingester[p].step = "select"
  /\ LET same == {s \in sources : s.sha = ShaOf(p)} IN
     Goes(p, [ingester[p] EXCEPT
       !.step = "write",
       !.old = IF same = {} THEN NoSource ELSE (CHOOSE s \in same : TRUE).id])
  /\ UNCHANGED <<disk, sources, inserted, embeddings, indexModel, hasVector, ingests>>

Without(ids) == [c \in {x \in DOMAIN embeddings : x[1] \notin ids} |-> embeddings[c]]

(* A slip: sha256 is indexed but not UNIQUE.                               *)
Replaced_Unseen(p) == FALSE

(* sha256 is UNIQUE: another ingest has replaced the same manual since the *)
(* SELECT.                                                                 *)
Replaced(p) ==
  \E s \in sources : s.sha = ShaOf(p) /\ s.id # ingester[p].old

Inserts(p) ==
  sources' = {s \in sources : s.id # ingester[p].old} \cup
    {[id |-> inserted + 1, sha |-> ShaOf(p), content |-> ingester[p].content]}

(* A slip: the old manual is deleted outside the transaction.              *)
WriteSource_DeleteFirst(p) ==
  /\ ingester[p].step = "write"
  /\ inserted < MaxSources
  /\ embeddings' = Without({ingester[p].old})
  /\ \/ Inserts(p) /\ ReadsNext(p) /\ inserted' = inserted + 1
     \/ /\ sources' = {s \in sources : s.id # ingester[p].old}
        /\ Quits(p) /\ UNCHANGED inserted
  /\ UNCHANGED <<disk, indexModel, hasVector, ingests>>

(* DELETE (chunks and figures go with the row), INSERTs and COMMIT: all of *)
(* it or nothing is seen.  The new chunks have no embeddings.              *)
WriteSource(p) ==
  /\ ingester[p].step = "write"
  /\ inserted < MaxSources
  /\ IF Replaced(p)
     THEN Quits(p) /\ UNCHANGED <<sources, inserted, embeddings>>
     ELSE /\ Inserts(p)
          /\ embeddings' = Without({ingester[p].old})
          /\ inserted' = inserted + 1
          /\ ReadsNext(p)
  /\ UNCHANGED <<disk, indexModel, hasVector, ingests>>

-----------------------------------------------------------------------------
(* EmbedPending: LockEmbeddingModel, then batch after batch.               *)

(* A slip: two models of one dimension pass for the same index.            *)
MatchesIndex_DimOnly(model) == indexModel # NoModel

MatchesIndex(model) == indexModel = model

ReadModel(p) ==
  /\ ingester[p].step = "lock"
  /\ CASE indexModel = NoModel -> Goes(p, [step |-> "lock_insert"])
       [] MatchesIndex(EmbedModel[p]) -> Goes(p, [step |-> "pending"])
       [] OTHER -> Quits(p)
  /\ UNCHANGED <<disk, sources, inserted, embeddings, indexModel, hasVector, ingests>>

(* ON CONFLICT DO NOTHING: whoever is first records its model.             *)
InsertModel(p) ==
  /\ ingester[p].step = "lock_insert"
  /\ indexModel' = IF indexModel = NoModel THEN EmbedModel[p] ELSE indexModel
  /\ Goes(p, [step |-> "lock_check"])
  /\ UNCHANGED <<disk, sources, inserted, embeddings, hasVector, ingests>>

CheckModel(p) ==
  /\ ingester[p].step = "lock_check"
  /\ IF MatchesIndex(EmbedModel[p]) THEN Goes(p, [step |-> "pending"]) ELSE Quits(p)
  /\ UNCHANGED <<disk, sources, inserted, embeddings, indexModel, hasVector, ingests>>

Pending == Chunks \ DOMAIN embeddings
BatchSize == IF Cardinality(Pending) < Batch THEN Cardinality(Pending) ELSE Batch

(* The chunks of one batch: ids are random, so any order.                  *)
Batches ==
  {b \in [1 .. BatchSize -> Pending] : \A i, j \in 1 .. BatchSize : b[i] = b[j] => i = j}

ReadPending(p) ==
  /\ ingester[p].step = "pending"
  /\ IF Pending = {} \/ ~hasVector
     THEN Quits(p)  \* done, or the column is missing
     ELSE \E b \in Batches :
            Goes(p, [step |-> "call", batch |-> b,
                     texts |-> [i \in DOMAIN b |-> TextOf(b[i])]])
  /\ UNCHANGED <<disk, sources, inserted, embeddings, indexModel, hasVector, ingests>>

(* External: what the embedding API may answer for n texts.  Rows with an  *)
(* index may come in any order; an API that sends none (every index reads  *)
(* as 0) answers in the order of its input.                                *)
Replies(texts) ==
  LET n == Len(texts)
      Orders == {o \in [1 .. n -> 1 .. n] : \A i, j \in 1 .. n : o[i] = o[j] => i = j}
  IN {[i \in 1 .. n |-> [index |-> o[i] - 1, vector |-> texts[o[i]]]] : o \in Orders}
     \cup {[i \in 1 .. n |-> [index |-> 0, vector |-> texts[i]]]}

(* A slip: vectors are taken in the order of the answer.                   *)
OrderVectors_AsSent(reply) == [i \in DOMAIN reply |-> reply[i].vector]

OrderVectors(reply) ==
  LET byIndex == \E i \in DOMAIN reply : reply[i].index # 0
      place(i) == IF byIndex THEN reply[i].index + 1 ELSE i
  IN [k \in DOMAIN reply |->
        reply[CHOOSE i \in DOMAIN reply : place(i) = k].vector]

(* A vector is named by the text it was computed from.                     *)
CallEmbedder(p) ==
  /\ ingester[p].step = "call"
  /\ \E reply \in Replies(ingester[p].texts) :
       Goes(p, [step |-> "store", batch |-> ingester[p].batch,
                vectors |-> OrderVectors(reply)])
  /\ UNCHANGED <<disk, sources, inserted, embeddings, indexModel, hasVector, ingests>>

(* SetChunkEmbeddings, one transaction: the UPDATE of a chunk that was     *)
(* replaced meanwhile finds no row, and nobody looks.                      *)
StoreVectors(p) ==
  LET batch == ingester[p].batch
      stored == {i \in DOMAIN batch : batch[i] \in Chunks}
      at(c) == CHOOSE i \in stored : batch[i] = c
      new == {batch[i] : i \in stored}
  IN /\ ingester[p].step = "store"
     /\ embeddings' = [c \in DOMAIN embeddings \cup new |->
          IF c \in new
          THEN [model |-> EmbedModel[p], text |-> ingester[p].vectors[at(c)]]
          ELSE embeddings[c]]
     /\ Goes(p, [step |-> "pending"])
     /\ UNCHANGED <<disk, sources, inserted, indexModel, hasVector, ingests>>

-----------------------------------------------------------------------------
(* A statement or a call fails, or the command is stopped.                 *)
AbortIngest(p) ==
  /\ ingester[p] # Away
  /\ Quits(p)
  /\ UNCHANGED <<disk, sources, inserted, embeddings, indexModel, hasVector, ingests>>

(* External: a manual is edited, breaks, or loses the HTML that            *)
(* docs/manuals.md allows to delete after the ingest.                      *)
EditFile(file, content) ==
  /\ content = ImagesOnly => file \in Trees
  /\ disk[file] # content
  /\ disk' = [disk EXCEPT ![file] = content]
  /\ UNCHANGED <<sources, inserted, embeddings, indexModel, hasVector, ingester, ingests>>

IngestStep(p) ==
  \/ ReadFile(p) \/ SelectSource(p) \/ WriteSource(p)
  \/ ReadModel(p) \/ InsertModel(p) \/ CheckModel(p)
  \/ ReadPending(p) \/ CallEmbedder(p) \/ StoreVectors(p)

IngestNext ==
  \/ \E p \in Ingesters, embedOnly \in BOOLEAN : StartIngest(p, embedOnly)
  \/ \E p \in Ingesters : IngestStep(p) \/ AbortIngest(p)

ManualsNext ==
  \/ IngestNext
  \/ \E file \in Pdfs \cup Trees, content \in Contents \cup {Bad, ImagesOnly} :
       EditFile(file, content)

ManualsSpec == ManualsInit /\ [][ManualsNext]_manualVars

-----------------------------------------------------------------------------
(* A manual that is on file stays on file: an ingest that fails, dies,     *)
(* races with another or finds only the images left never leaves it out    *)
(* (ReplaceDoc, IngestHTMLTree; docs/manuals.md: "After ingest, page text  *)
(* lives in Postgres").                                                    *)
ManualStays ==
  [][\A s \in sources : \E t \in sources' : t.sha = s.sha]_sources

(* Every stored vector was computed from its own chunk's text, by the      *)
(* model that the index is recorded under, also when a chunk is replaced   *)
(* during the call, when ingests of two builds start at once and when the  *)
(* API answers out of order (EmbedPending, LockEmbeddingModel).            *)
VectorsOfTheIndex ==
  \A c \in DOMAIN embeddings :
    embeddings[c] = [model |-> indexModel, text |-> TextOf(c)]
=============================================================================
