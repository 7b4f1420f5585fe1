------------------------------ MODULE PlaybookBuild ------------------------------
(***************************************************************************)
(* A playbook, and an answer about one step of it: what is gathered from   *)
(* the ledger and the workshop manuals, one statement at a time, what is   *)
(* put into the prompt and what is written once the hosted model answers.  *)
(* Meanwhile colleagues close jobs, cars are decoded and manuals are       *)
(* ingested anew.                                                          *)
(*                                                                         *)
(* A name is make and model in one, so a car is either named or not.  A    *)
(* job is its car and its owner: codes, causes and parts are left out, and *)
(* with them the filter on codes and the limits.  The steps of a finished  *)
(* book are in PlaybookChecks and ActionCatalog.                           *)
(***************************************************************************)
EXTENDS Manuals

CONSTANTS
  Technicians,  \* technicians
  Shops,        \* shops
  Freelance,    \* no shop: shop_id IS NULL, and the empty shop id
  ShopOf,       \* the shop of each technician, or Freelance
  Cars,         \* VINs
  Built,        \* what each car is: its name and year
  Unnamed,      \* 'Unknown', the make and model of a car nobody has decoded
  NoRow,        \* no vehicles row
  Covers,       \* the name and years of each manual's sidecar, by its sha
  ServerModel,  \* ChunkEmbedModel of the server's build
  Builders,     \* requests that may run at once
  MaxJobs,      \* bound: jobs closed
  MaxBuilds     \* bound: requests posted

NoYear == 0
AnyYear == 2000      \* the year that stands for no filter on manuals
NoName == "no name"  \* '': the request names no make or model

BuiltNames == {Built[c].name : c \in Cars} \cup {Covers[sha].name : sha \in DOMAIN Covers}
Years == {Built[c].year : c \in Cars} \cup {Covers[sha].from : sha \in DOMAIN Covers}
Platform == [name : BuiltNames \cup {Unnamed}, year : Years \cup {NoYear}]
Asked == [name : BuiltNames \cup {Unnamed, NoName}, year : Years \cup {NoYear}]

ASSUME ShopsAssumption == ShopOf \in [Technicians -> Shops \cup {Freelance}]
ASSUME CoversAssumption == DOMAIN Covers = Shas
ASSUME CarsAssumption ==
  /\ \A c \in Cars : Built[c].year \in Nat \ {NoYear}
  /\ \A sha \in DOMAIN Covers : Covers[sha].from \in Nat /\ Covers[sha].to \in Nat
ASSUME NamesAssumption ==
  /\ Unnamed \notin BuiltNames /\ NoName \notin BuiltNames \cup {Unnamed}
  /\ NoRow \notin Platform /\ Freelance \notin Shops
(* A build names its model (Manuals, ModelsAssumption).                    *)
ASSUME ServerModelAssumption == ServerModel # NoModel
ASSUME BuildBounds == MaxJobs \in Nat /\ MaxBuilds \in Nat

VARIABLES
  row,      \* vehicles
  jobs,     \* closed jobs, in the order of their closeouts
  builder,  \* what each playbook request is doing
  builds    \* requests posted so far

buildVars == <<row, jobs, builder, builds>>
playbookVars == <<manualVars, row, jobs, builder, builds>>

Job == [car : Cars, by : Technicians, shop : Shops \cup {Freelance}]

(* One prompt: what was asked, and what each read has found.  compared is  *)
(* history: the models of the vectors that the query was ranked against.   *)
Idle == [step |-> "none"]
BuildSteps ==
  {"vehicle", "work", "session", "matches", "pin", "meta", "embed", "search",
   "text", "cosine", "figures", "chat", "ensure"}
Gathered ==
  [step : BuildSteps, by : Technicians, car : Cars,
   session : 0 .. MaxJobs, pin : 0 .. MaxSources,
   is : Asked, work : SUBSET (1 .. MaxJobs), matches : SUBSET (1 .. MaxJobs),
   vector : BOOLEAN, compared : SUBSET Models,
   books : SUBSET (1 .. MaxSources), figures : SUBSET (1 .. MaxSources)]

BuildTypeOK ==
  /\ row \in [Cars -> Platform \cup {NoRow}]
  /\ jobs \in Seq(Job)
  /\ builder \in [Builders -> Gathered \cup {Idle}]
  /\ builds \in 0 .. MaxBuilds

BuildInit ==
  /\ row = [c \in Cars |-> NoRow]
  /\ jobs = <<>>
  /\ builder = [b \in Builders |-> Idle]
  /\ builds = 0

-----------------------------------------------------------------------------
(* The rest of the server: sessions are ingested (which makes sure of the  *)
(* row) and closed, and decodes fill in what a row lacks.                  *)

CloseJob(t, car) ==
  /\ Len(jobs) < MaxJobs
  /\ jobs' = Append(jobs, [car |-> car, by |-> t, shop |-> ShopOf[t]])
  /\ row' = IF row[car] # NoRow THEN row
            ELSE [row EXCEPT ![car] = [name |-> Unnamed, year |-> NoYear]]
  /\ UNCHANGED <<manualVars, builder, builds>>

DecodeCar(car) ==
  /\ row[car] # NoRow
  /\ row' = [row EXCEPT ![car] =
       [name |-> IF @.name = Unnamed THEN Built[car].name ELSE @.name,
        year |-> IF @.year = NoYear THEN Built[car].year ELSE @.year]]
  /\ row' # row
  /\ UNCHANGED <<manualVars, jobs, builder, builds>>

-----------------------------------------------------------------------------
(* gather.                                                                 *)

To(b, step) == builder' = [builder EXCEPT ![b].step = step]
Ends(b) == builder' = [builder EXCEPT ![b] = Idle]

(* The bay may name the car as decoded or as the pinned book, or not at    *)
(* all; the session and the book are ones it has been shown.               *)
PostPlaybook(b, t, car, session, pin) ==
  /\ builder[b] = Idle
  /\ builds < MaxBuilds
  /\ builds' = builds + 1
  /\ session <= Len(jobs) /\ pin <= inserted
  /\ \E said \in {[name |-> NoName, year |-> NoYear]} \cup
                 (IF row[car] = NoRow THEN {} ELSE {row[car]}) \cup
                 {[name |-> Covers[s.sha].name, year |-> Covers[s.sha].from] :
                    s \in {x \in sources : x.id = pin}} :
       builder' = [builder EXCEPT ![b] =
         [step |-> "vehicle", by |-> t, car |-> car,
          session |-> session, pin |-> pin, is |-> said,
          work |-> {}, matches |-> {}, vector |-> FALSE, compared |-> {},
          books |-> {}, figures |-> {}]]
  /\ UNCHANGED <<manualVars, row, jobs>>

FillBlank(is, with) ==
  [name |-> IF is.name = NoName THEN with.name ELSE is.name,
   year |-> IF is.year = NoYear THEN with.year ELSE is.year]

(* A slip: freelancers are one shop.                                       *)
InShopScope_NoTechnician(shop, t, job) ==
  job.shop = shop

(* A technician of a shop sees the shop's jobs, a freelancer his own.      *)
InShopScope(shop, t, job) ==
  IF shop # Freelance THEN job.shop = shop
  ELSE job.by = t /\ job.shop = Freelance

Sees(b, job) == InShopScope(ShopOf[builder[b].by], builder[b].by, job)

(* History, first statement: a car without a row has no jobs either.       *)
ReadVehicle(b) ==
  LET g == builder[b] IN
  /\ g.step = "vehicle"
  /\ builder' = [builder EXCEPT
       ![b].step = IF row[g.car] = NoRow THEN "session" ELSE "work",
       ![b].is = IF row[g.car] = NoRow THEN g.is ELSE FillBlank(g.is, row[g.car])]
  /\ UNCHANGED <<manualVars, row, jobs, builds>>

ReadWork(b) ==
  LET g == builder[b] IN
  /\ g.step = "work"
  /\ builder' = [builder EXCEPT
       ![b].step = "session",
       ![b].work = {i \in DOMAIN jobs : jobs[i].car = g.car /\ Sees(b, jobs[i])}]
  /\ UNCHANGED <<manualVars, row, jobs, builds>>

(* SessionByID: the session must be of this car and in scope.              *)
ReadSession(b) ==
  LET g == builder[b] IN
  /\ g.step = "session"
  /\ IF g.session = 0 \/ (jobs[g.session].car = g.car /\ Sees(b, jobs[g.session]))
     THEN To(b, "matches") ELSE Ends(b)
  /\ UNCHANGED <<manualVars, row, jobs, builds>>

InBand(year, lo, hi) == lo <= year /\ year <= hi

(* NetworkMatches joins each job with the row of its car as it is now.     *)
SimilarCar(is, car) ==
  /\ row[car] # NoRow
  /\ row[car].name = is.name
  /\ is.year = NoYear \/ InBand(row[car].year + 3, is.year, is.year + 6)

ReadMatches(b) ==
  LET g == builder[b] IN
  /\ g.step = "matches"
  /\ builder' = [builder EXCEPT
       ![b].step = "pin",
       ![b].matches = IF g.is.name = NoName THEN {}
         ELSE {i \in DOMAIN jobs : /\ jobs[i].car # g.car
                                   /\ Sees(b, jobs[i])
                                   /\ SimilarCar(g.is, jobs[i].car)}]
  /\ UNCHANGED <<manualVars, row, jobs, builds>>

(* GetManual: a book that was replaced meanwhile has another id, and the   *)
(* request fails.                                                          *)
ReadPin(b) ==
  LET g == builder[b]
      book == {s \in sources : s.id = g.pin}
  IN /\ g.step = "pin"
     /\ CASE g.pin = NoSource -> To(b, "meta")
          [] book = {} -> Ends(b)
          [] OTHER -> LET about == Covers[(CHOOSE s \in book : TRUE).sha] IN
               builder' = [builder EXCEPT
                 ![b].step = "meta",
                 ![b].is = FillBlank(g.is, [name |-> about.name, year |-> about.from])]
     /\ UNCHANGED <<manualVars, row, jobs, builds>>

(* The query is embedded only for an index of the server's own model.      *)
ReadMeta(b) ==
  /\ builder[b].step = "meta"
  /\ To(b, IF hasVector /\ MatchesIndex(ServerModel) THEN "embed" ELSE "search")
  /\ UNCHANGED <<manualVars, row, jobs, builds>>

(* No embedder, or a call that fails or is late: full text only.           *)
EmbedQuery(b, ok) ==
  /\ builder[b].step = "embed"
  /\ builder' = [builder EXCEPT ![b].step = "search", ![b].vector = ok]
  /\ UNCHANGED <<manualVars, row, jobs, builds>>

-----------------------------------------------------------------------------
(* SearchManuals.                                                          *)

About(is, pin, s) ==
  IF pin # NoSource THEN s.id = pin
  ELSE /\ Covers[s.sha].name = is.name
       /\ \/ is.year \in {NoYear, AnyYear}
          \/ InBand(is.year, Covers[s.sha].from, Covers[s.sha].to)

Candidates(g) ==
  IF g.pin = NoSource /\ g.is.name = NoName THEN {}
  ELSE {s \in sources : About(g.is, g.pin, s)}

(* The index is looked up once more: the query's vector is dropped unless  *)
(* it is still of the server's own model.                                  *)
SearchManuals(b) ==
  LET g == builder[b] IN
  /\ g.step = "search"
  /\ builder' = [builder EXCEPT
       ![b].step = "text",
       ![b].vector = g.vector /\ hasVector /\ MatchesIndex(ServerModel)]
  /\ UNCHANGED <<manualVars, row, jobs, builds>>

(* Full text finds some of the candidates.                                 *)
RankByText(b) ==
  LET g == builder[b] IN
  /\ g.step = "text"
  /\ \E found \in SUBSET {s.id : s \in Candidates(g)} :
       builder' = [builder EXCEPT
         ![b].step = IF g.vector THEN "cosine" ELSE "figures",
         ![b].books = found]
  /\ UNCHANGED <<manualVars, row, jobs, builds>>

(* Cosine ranks every embedded chunk of the candidates there are by now.   *)
RankByVector(b) ==
  LET g == builder[b]
      ids == {s.id : s \in Candidates(g)}
      near == {c \in DOMAIN embeddings : c[1] \in ids}
  IN /\ g.step = "cosine"
     /\ builder' = [builder EXCEPT
          ![b].step = "figures",
          ![b].books = g.books \cup {c[1] : c \in near},
          ![b].compared = {embeddings[c].model : c \in near}]
     /\ UNCHANGED <<manualVars, row, jobs, builds>>

(* figuresForChunks: by then a found book may have been replaced.  Codes   *)
(* of a wiring fault bring the wiring diagrams of all candidates.          *)
FindFigures(b, wiring) ==
  LET g == builder[b] IN
  /\ g.step = "figures"
  /\ builder' = [builder EXCEPT
       ![b].step = "chat",
       ![b].figures = {s.id : s \in {x \in sources : x.id \in g.books}} \cup
                      (IF wiring THEN {s.id : s \in Candidates(g)} ELSE {})]
  /\ UNCHANGED <<manualVars, row, jobs, builds>>

-----------------------------------------------------------------------------
(* The model answers; an answer about one step writes nothing.             *)
ChatAnswers(b, ask) ==
  /\ builder[b].step = "chat"
  /\ IF ask THEN Ends(b) ELSE To(b, "ensure")
  /\ UNCHANGED <<manualVars, row, jobs, builds>>

(* EnsureVehicle: only a car without a row is named, if need be after the  *)
(* pinned book.                                                            *)
EnsureCar(b) ==
  LET g == builder[b] IN
  /\ g.step = "ensure"
  /\ row' = IF row[g.car] # NoRow THEN row
            ELSE [row EXCEPT ![g.car] =
              [name |-> IF g.is.name = NoName THEN Unnamed ELSE g.is.name,
               year |-> g.is.year]]
  /\ Ends(b)
  /\ UNCHANGED <<manualVars, jobs, builds>>

(* A query fails, the model fails or takes 45 s, or the bay goes away.     *)
AbortBuild(b) ==
  /\ builder[b] # Idle
  /\ Ends(b)
  /\ UNCHANGED <<manualVars, row, jobs, builds>>

BuildStep(b) ==
  \/ ReadVehicle(b) \/ ReadWork(b) \/ ReadSession(b) \/ ReadMatches(b)
  \/ ReadPin(b) \/ ReadMeta(b) \/ SearchManuals(b) \/ RankByText(b)
  \/ RankByVector(b) \/ EnsureCar(b)
  \/ \E ok \in BOOLEAN : EmbedQuery(b, ok)
  \/ \E wiring \in BOOLEAN : FindFigures(b, wiring)
  \/ \E ask \in BOOLEAN : ChatAnswers(b, ask)

BuildNext ==
  \/ \E t \in Technicians, car \in Cars : CloseJob(t, car)
  \/ \E car \in Cars : DecodeCar(car)
  \/ \E b \in Builders, t \in Technicians, car \in Cars,
        session \in 0 .. MaxJobs, pin \in 0 .. MaxSources :
       PostPlaybook(b, t, car, session, pin)
  \/ \E b \in Builders : BuildStep(b) \/ AbortBuild(b)

(* The folder stays as it is: what is edited shows after its ingest only.  *)
PlaybookNext ==
  \/ BuildNext
  \/ IngestNext /\ UNCHANGED buildVars

PlaybookInit == ManualsInit /\ BuildInit
PlaybookSpec == PlaybookInit /\ [][PlaybookNext]_playbookVars

-----------------------------------------------------------------------------
(* The jobs in a prompt are ones the technician may see, also if he is a   *)
(* freelancer: the car's own work is of this car, the platform's of other  *)
(* cars (History, NetworkMatches; docs/playbook.md: "this shop only, no    *)
(* other VIN").                                                            *)
PromptInScope ==
  \A b \in Builders : builder[b] # Idle =>
    LET g == builder[b]
        own(job) == IF ShopOf[g.by] = Freelance THEN job.by = g.by
                    ELSE ShopOf[job.by] = ShopOf[g.by]
    IN /\ \A i \in g.work : jobs[i].car = g.car /\ own(jobs[i])
       /\ \A i \in g.matches : jobs[i].car # g.car /\ own(jobs[i])

(* A query is ranked only against vectors of the server's own model,       *)
(* whatever ingests of other builds do between its lookups of the index    *)
(* and its search (gather, SearchManuals, LockEmbeddingModel).             *)
CosineOneModel ==
  \A b \in Builders : builder[b] # Idle => builder[b].compared \subseteq {ServerModel}

(* docs/playbook.md:14: similar platform jobs are "Same make/model/        *)
(* year-band".  Here: no prompt holds a job of a car that is another make  *)
(* or model than the one that is being worked on (NetworkMatches).         *)
MatchesAreSamePlatform ==
  \A b \in Builders : builder[b] # Idle =>
    \A i \in builder[b].matches : Built[jobs[i].car].name = Built[builder[b].car].name
=============================================================================
