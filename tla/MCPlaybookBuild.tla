----------------------------- MODULE MCPlaybookBuild -----------------------------
(***************************************************************************)
(* PlaybookBuild with one shop's technician, two freelancers, two cars and *)
(* a folder of one PDF and one HTML tree.                                  *)
(***************************************************************************)
EXTENDS PlaybookBuild

MCFolder == <<"corolla.pdf", "corolla">>
MCPageTexts == [first |-> <<"fuel", "spark">>, second |-> <<"brake">>]
MCEmbedModel == [p \in Ingesters |-> IF p = "i1" THEN "bge" ELSE "other"]
MCCovers ==
  [sha \in Shas |-> [name |-> "corolla", from |-> 2007, to |-> 2012]]
MCShopOf == [t \in Technicians |-> IF t = "ann" THEN "garage" ELSE Freelance]
MCBuilt ==
  [c \in Cars |-> IF c = "vin1" THEN [name |-> "corolla", year |-> 2008]
                  ELSE [name |-> "hilux", year |-> 2006]]

(* A manual has been ingested by one of the builds, the tree has lost its  *)
(* HTML, and a freelancer has closed a job on a car nobody decoded.        *)
MCUnderWay ==
  /\ disk = [file \in Pdfs \cup Trees |->
               IF file \in Trees THEN ImagesOnly ELSE "second"]
  /\ sources = {[id |-> 1, sha |-> <<"pdf", "second">>, content |-> "second"]}
  /\ inserted = 1
  /\ indexModel \in Models
  /\ embeddings = [c \in {<<1, 1>>} |-> [model |-> indexModel, text |-> "brake"]]
  /\ hasVector = TRUE
  /\ ingester = [p \in Ingesters |-> Away]
  /\ ingests = MaxIngests - 1
  /\ row = [c \in Cars |-> IF c = "vin2" THEN [name |-> Unnamed, year |-> NoYear]
                           ELSE NoRow]
  /\ jobs = <<[car |-> "vin2", by |-> "bob", shop |-> Freelance]>>
  /\ builder = [b \in Builders |-> Idle]
  /\ builds = 0
=============================================================================
