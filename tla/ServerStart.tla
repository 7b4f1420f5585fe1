------------------------------- MODULE ServerStart -------------------------------
(***************************************************************************)
(* What a process does before it serves or ingests: the server migrates    *)
(* the database, seeds codes and how-to cards, makes sure that there is a  *)
(* super admin, and decides what it can do; the ingest command only        *)
(* migrates.  Several processes may start on one database at once, any of  *)
(* them may die between two statements, and pgvector may be installed      *)
(* late.  A file of migrations/ and its marker are one transaction.        *)
(***************************************************************************)
EXTENDS Naturals, Sequences, FiniteSets

CONSTANTS
  Procs,    \* processes of this build
  Files,    \* the migration files in the order of their names
  Creates,  \* files that fail when they run again (CREATE TABLE)
  Vector,   \* 010_chunk_embeddings.sql: adds doc_chunks.embedding
  Resize,   \* 011_bge_small_dim.sql: makes it vector(384)
  Model,    \* 012_embedding_model.sql: records whose vectors are stored
  Cards,    \* the seeded how-to cards
  Admins,   \* SUPERADMIN_EMAIL of the processes
  Launches, \* the environments processes are started in
  MaxStarts \* bound: processes started in one behaviour

FileNames == {Files[i] : i \in DOMAIN Files}

ASSUME FilesAssumption ==
  /\ Files \in Seq(FileNames) /\ Files # <<>>
  /\ \A i, j \in DOMAIN Files : Files[i] = Files[j] => i = j
  /\ \A i, j \in DOMAIN Files : Files[i] = Vector /\ Files[j] = Resize => i < j
  /\ Creates \cup {Vector, Resize, Model} \subseteq FileNames
  /\ {Vector, Resize, Model} \cap Creates = {}
  /\ Cardinality({Vector, Resize, Model}) = 3
ASSUME MaxStartsAssumption == MaxStarts \in Nat

VARIABLES
  applied,   \* history: how often each file was committed
  markers,   \* schema_migrations, committed
  pgvector,  \* the extension can be created
  column,    \* the type of doc_chunks.embedding
  vectors,   \* some chunk has an embedding
  meta,      \* doc_embedding_meta.model; "bge" is this build's
  cards,     \* howto_guides of the seeded slugs
  admins,    \* users with role super_admin
  proc,      \* what each process is doing
  starts     \* processes started so far

startVars ==
  <<applied, markers, pgvector, column, vectors, meta, cards, admins, proc, starts>>

database == <<applied, markers, pgvector, column, vectors, meta, cards, admins>>

(* An environment, and what it makes ready: LLM_ENABLED defaults to        *)
(* whether a key is set, and a local embedding host needs no key.          *)
Config ==
  [program : {"server", "ingest"}, admin : Admins, llmEnabled : {"unset", "true", "false"},
   llmKey : BOOLEAN, embedHost : {"local", "remote"}, embedKey : BOOLEAN]

ASSUME LaunchesAssumption == Launches \subseteq Config

LLMReady(config) ==
  config.llmKey /\ config.llmEnabled # "false"

EmbeddingReady(config) ==
  config.embedHost = "local" \/ config.embedKey

MigrateSteps == {"select", "run", "mark", "commit"}
Down == [step |-> "down"]
Proc ==
  [step : MigrateSteps \cup {"probe", "seed", "admin", "insert_admin", "wire", "ready"},
   config : Launches, file : 1 .. Len(Files) + 1, todo : SUBSET Cards,
   hasChunkEmbeddings : BOOLEAN, llm : BOOLEAN, embed : BOOLEAN]

StartTypeOK ==
  /\ applied \in [FileNames -> Nat]
  /\ markers \subseteq FileNames
  /\ pgvector \in BOOLEAN
  /\ column \in {"none", "vector(384)", "vector(1536)"}
  /\ vectors \in BOOLEAN
  /\ meta \in {"none", "bge", "other"}
  /\ cards \subseteq Cards
  /\ admins \subseteq Admins
  /\ proc \in [Procs -> Proc \cup {Down}]
  /\ starts \in 0 .. MaxStarts

-----------------------------------------------------------------------------
(* An empty database, or one an older build left at 1536 dimensions.       *)
StartInit ==
  /\ \/ /\ markers = {} /\ pgvector \in BOOLEAN /\ column = "none" /\ vectors = FALSE
     \/ /\ markers = {Files[i] : i \in 1 .. CHOOSE i \in DOMAIN Files : Files[i] = Vector}
        /\ pgvector = TRUE /\ column = "vector(1536)" /\ vectors \in BOOLEAN
  /\ applied = [f \in FileNames |-> IF f \in markers THEN 1 ELSE 0]
  /\ meta = "none"
  /\ cards = {}
  /\ admins = {}
  /\ proc = [p \in Procs |-> Down]
  /\ starts = 0

At(p, step) == proc' = [proc EXCEPT ![p].step = step]
NextFile(p) ==
  proc' = [proc EXCEPT ![p].file = @ + 1, ![p].step = "select"]
Exits(p) == proc' = [proc EXCEPT ![p] = Down]

(* config.Load, ledger.Open.                                               *)
Launch(p, config) ==
  /\ proc[p] = Down
  /\ starts < MaxStarts
  /\ starts' = starts + 1
  /\ proc' = [proc EXCEPT ![p] =
       [step |-> "select", config |-> config, file |-> 1, todo |-> Cards,
        hasChunkEmbeddings |-> FALSE, llm |-> FALSE, embed |-> FALSE]]
  /\ UNCHANGED database

-----------------------------------------------------------------------------
(* Migrate: each file in turn, unless its marker is there.                 *)

File(p) == Files[proc[p].file]

SelectMarker(p) ==
  /\ proc[p].step = "select"
  /\ IF proc[p].file > Len(Files)
     THEN At(p, "probe")
     ELSE IF File(p) \in markers THEN NextFile(p) ELSE At(p, "run")
  /\ UNCHANGED <<database, starts>>

(* Another transaction holds what p's statement needs: the table that both *)
(* create or alter, or the marker that both insert.                        *)
Held(p, steps) ==
  \E q \in Procs \ {p} : proc[q].step \in steps /\ File(q) = File(p)

NeedsVector == {Vector, Resize}

(* The file runs in a transaction whose effect nobody sees before the      *)
(* COMMIT.  Only the two pgvector files may be skipped, for this start.    *)
RunFile(p) ==
  /\ proc[p].step = "run"
  /\ ~Held(p, {"mark", "commit"}) \/ File(p) \notin Creates \cup NeedsVector
  /\ IF File(p) \in NeedsVector /\ ~pgvector
     THEN NextFile(p)
     ELSE IF File(p) \in Creates /\ applied[File(p)] > 0
          THEN Exits(p)
          ELSE At(p, "mark")
  /\ UNCHANGED <<database, starts>>

(* The INSERT waits for the transaction that has inserted the same name,   *)
(* and fails if that one commits.                                          *)
InsertMarker(p) ==
  /\ proc[p].step = "mark"
  /\ ~Held(p, {"commit"})
  /\ IF File(p) \in markers THEN Exits(p) ELSE At(p, "commit")
  /\ UNCHANGED <<database, starts>>

(* A slip: the column is resized only where there is none.                 *)
Resized_OnlyMissing == IF column = "none" THEN "vector(384)" ELSE column

(* 011 drops a column of another size with the vectors in it.              *)
Resized == "vector(384)"

Takes(file) ==
  /\ column' = CASE file = Vector /\ column = "none" -> "vector(384)"
                 [] file = Resize -> Resized
                 [] OTHER -> column
  /\ vectors' = (vectors /\ column' = column)
  /\ meta' = IF file = Model /\ vectors /\ meta = "none" THEN "bge" ELSE meta

(* A slip: the marker is inserted on the pool, after the COMMIT.           *)
CommitFile_MarkerLater(p) ==
  /\ proc[p].step = "commit"
  /\ Takes(File(p))
  /\ applied' = [applied EXCEPT ![File(p)] = @ + 1]
  /\ \/ markers' = markers \cup {File(p)} /\ NextFile(p)
     \/ markers' = markers /\ Exits(p)
  /\ UNCHANGED <<pgvector, cards, admins, starts>>

CommitFile(p) ==
  /\ proc[p].step = "commit"
  /\ Takes(File(p))
  /\ applied' = [applied EXCEPT ![File(p)] = @ + 1]
  /\ markers' = markers \cup {File(p)}
  /\ NextFile(p)
  /\ UNCHANGED <<pgvector, cards, admins, starts>>

(* probeChunkEmbeddings: once, at the end of Migrate.  A failed query      *)
(* leaves the flag down.                                                   *)
Probe(p) ==
  /\ proc[p].step = "probe"
  /\ \E answered \in BOOLEAN :
       proc' = [proc EXCEPT
         ![p].hasChunkEmbeddings = answered /\ column # "none",
         ![p].step = IF proc[p].config.program = "server" THEN "seed" ELSE "wire"]
  /\ UNCHANGED <<database, starts>>

-----------------------------------------------------------------------------
(* SeedDTCs is one batch of upserts; SeedHowTos adds the cards one by one, *)
(* and keeps a card that is there.                                         *)
SeedCard(p, card) ==
  /\ proc[p].step = "seed" /\ card \in proc[p].todo
  /\ cards' = cards \cup {card}
  /\ proc' = [proc EXCEPT ![p].todo = @ \ {card}]
  /\ UNCHANGED <<applied, markers, pgvector, column, vectors, meta, admins, starts>>

(* EnsureSuperAdmin: nobody is added where somebody is super admin.        *)
SelectAdmin(p) ==
  /\ proc[p].step = "seed" /\ proc[p].todo = {}
  /\ At(p, IF admins # {} THEN "wire" ELSE "insert_admin")
  /\ UNCHANGED <<database, starts>>

(* users.email is UNIQUE: of two starts with one address one exits.        *)
InsertAdmin(p) ==
  LET email == proc[p].config.admin IN
  /\ proc[p].step = "insert_admin"
  /\ admins' = admins \cup {email}
  /\ IF email \in admins THEN Exits(p) ELSE At(p, "wire")
  /\ UNCHANGED <<applied, markers, pgvector, column, vectors, meta, cards, starts>>

(* The fuser and its embedder: the server has an embedder only beside an   *)
(* LLM, and not when other vectors are stored or the query for their model *)
(* fails; the ingest command checks the model when it embeds (Manuals).    *)
Wire(p) ==
  LET c == proc[p].config IN
  /\ proc[p].step = "wire"
  /\ \E answered \in BOOLEAN :
       proc' = [proc EXCEPT
         ![p].llm = LLMReady(c),
         ![p].embed = /\ EmbeddingReady(c)
                      /\ c.program = "server" =>
                           LLMReady(c) /\ answered /\ meta \in {"none", "bge"},
         ![p].step = "ready"]
  /\ UNCHANGED <<database, starts>>

-----------------------------------------------------------------------------
(* A statement fails, a signal stops the process, or it dies.              *)
Stop(p) ==
  /\ proc[p] # Down
  /\ Exits(p)
  /\ UNCHANGED <<database, starts>>

(* External: a ready ingest of this or of another build embeds chunks      *)
(* (Manuals); the first one records its model.                             *)
Embed(model) ==
  /\ column # "none" /\ Model \in markers
  /\ meta \in {"none", model}
  /\ model = "bge" => \E p \in Procs : proc[p].step = "ready" /\ proc[p].config.program = "ingest"
  /\ meta' = model
  /\ vectors' = TRUE
  /\ UNCHANGED <<applied, markers, pgvector, column, cards, admins, proc, starts>>

(* External: the operator installs pgvector.                               *)
InstallVector ==
  /\ ~pgvector
  /\ pgvector' = TRUE
  /\ UNCHANGED <<applied, markers, column, vectors, meta, cards, admins, proc, starts>>

StartNext ==
  \/ \E p \in Procs, config \in Launches : Launch(p, config)
  \/ \E p \in Procs :
       \/ SelectMarker(p) \/ RunFile(p) \/ InsertMarker(p) \/ CommitFile(p)
       \/ Probe(p) \/ SelectAdmin(p) \/ InsertAdmin(p) \/ Wire(p)
       \/ Stop(p)
  \/ \E p \in Procs, card \in Cards : SeedCard(p, card)
  \/ \E model \in {"bge", "other"} : Embed(model)
  \/ InstallVector

StartSpec == StartInit /\ [][StartNext]_startVars

-----------------------------------------------------------------------------
(* However many processes start at once and die on the way, a migration    *)
(* takes effect once, and its marker says so exactly then (Migrate).       *)
AppliedOnce ==
  \A f \in FileNames : applied[f] = IF f \in markers THEN 1 ELSE 0

(* A server that serves has the whole schema but what pgvector was missing *)
(* for, the cards and a super admin; and what it remembers of the vector   *)
(* column is still so when another process migrates (main, probe).         *)
ReadyMeansMigrated ==
  \A p \in Procs : proc[p].step = "ready" =>
    /\ FileNames \ NeedsVector \subseteq markers
    /\ proc[p].config.program = "server" => cards = Cards /\ admins # {}
    /\ proc[p].hasChunkEmbeddings => column = "vector(384)"
=============================================================================
