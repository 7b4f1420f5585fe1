------------------------------ MODULE MCCloudServer ------------------------------
(***************************************************************************)
(* The cloud server's components side by side.  They share no variable, so *)
(* interleaving them would only multiply their states: part says which one *)
(* moves in a behaviour, and the others stay as they begin.                *)
(***************************************************************************)
EXTENDS MCPlaybookBuild, Accounts, VehicleDecode, ImportedReports, ServerStart,
        ActionCatalog

Named3(make, model, year) ==
  [a \in Attributes |-> CASE a = "make" -> make [] a = "model" -> model [] OTHER -> year]
MCAnswers ==
  {Blank, Named3("toyota", "corolla", "2008"), Named3("lexus", Unknown, Unknown)}
MCHints == {Blank, Named3("lexus", "corolla", Unknown)}
MCPlate == Named3("toyota", Unknown, "2008")

MCFiles == <<"001", "008", "010", "011", "012", "013">>
Env(program, admin, key) ==
  [program |-> program, admin |-> admin, llmEnabled |-> "unset", llmKey |-> key,
   embedHost |-> "local", embedKey |-> FALSE]
MCLaunches ==
  {Env("server", "a", TRUE), Env("server", "b", FALSE), Env("ingest", "a", TRUE)}

MCTitleWords ==
  [meter |-> {"check", "ohms", "sensor"}, manual |-> {"resistance", "the", "sensor", "pin"},
   erase |-> {"clear", "codes"}]
MCFold ==
  [check |-> "test", ohms |-> "ohm", sensor |-> "sensor", resistance |-> "ohm",
   the |-> Dropped, pin |-> "pin", clear |-> "clear", codes |-> "code"]
Test(title) == [kind |-> "test", title |-> title]
MCPlaybooks == {<<Test("meter"), Test("manual")>>, <<Test("manual")>>, <<Test("erase")>>}

VARIABLE part

Parts == {"accounts", "vehicle", "reports", "start", "catalog", "manuals", "playbook"}

(* What MCUnderWay, where playbooks begin, supposes of the instance.       *)
ASSUME UnderWayAssumption ==
  /\ "second" \in Contents /\ PageTexts["second"] = <<"brake">>
  /\ "vin2" \in Cars /\ "bob" \in Technicians /\ ShopOf["bob"] = Freelance
  /\ MaxSources > 0 /\ MaxIngests > 0 /\ MaxJobs > 0

CloudInit ==
  /\ part \in Parts
  /\ AccountsInit /\ VehicleInit /\ ReportsInit /\ StartInit /\ CatalogInit
  /\ IF part = "playbook" THEN MCUnderWay ELSE PlaybookInit
  /\ part # "vehicle" => paid = {}
  /\ part # "start" => markers = {} /\ pgvector
  /\ part \notin {"manuals", "playbook"} =>
       hasVector /\ \A file \in DOMAIN disk : disk[file] = "first"

CloudNext ==
  /\ UNCHANGED part
  /\ \/ /\ part = "accounts" /\ AccountsNext
        /\ UNCHANGED <<vehicleVars, reportVars, startVars, catalogVars, playbookVars>>
     \/ /\ part = "vehicle" /\ VehicleNext
        /\ UNCHANGED <<accountVars, reportVars, startVars, catalogVars, playbookVars>>
     \/ /\ part = "reports" /\ ReportsNext
        /\ UNCHANGED <<accountVars, vehicleVars, startVars, catalogVars, playbookVars>>
     \/ /\ part = "start" /\ StartNext
        /\ UNCHANGED <<accountVars, vehicleVars, reportVars, catalogVars, playbookVars>>
     \/ /\ part = "catalog" /\ CatalogNext
        /\ UNCHANGED <<accountVars, vehicleVars, reportVars, startVars, playbookVars>>
     \/ /\ part = "manuals" /\ ManualsNext
        /\ UNCHANGED <<accountVars, vehicleVars, reportVars, startVars, catalogVars,
                       buildVars>>
     \/ /\ part = "playbook" /\ PlaybookNext
        /\ UNCHANGED <<accountVars, vehicleVars, reportVars, startVars, catalogVars>>

CloudSpec ==
  CloudInit /\ [][CloudNext]_<<part, accountVars, vehicleVars, reportVars, startVars,
                               catalogVars, playbookVars>>

(* Every component keeps to its types.                                     *)
TypeOK ==
  /\ part \in Parts
  /\ part = "accounts" => AccountsTypeOK
  /\ part = "vehicle" => VehicleTypeOK
  /\ part = "reports" => ReportsTypeOK
  /\ part = "start" => StartTypeOK
  /\ part = "catalog" => CatalogTypeOK
  /\ part \in {"manuals", "playbook"} => ManualsTypeOK /\ BuildTypeOK
=============================================================================
