--------------------------- MODULE CloudServerProofs ---------------------------
(***************************************************************************)
(* What of the cloud server's components holds for every value of their    *)
(* constants: the decoding of a VIN, imported reports, accounts and        *)
(* tickets, the server's start, the action catalog, the workshop manuals   *)
(* and the playbooks.                                                      *)
(***************************************************************************)
EXTENDS MCCloudServer, SequenceTheorems, FiniteSetTheorems, TLAPS

-----------------------------------------------------------------------------
(* VehicleDecode: any names, answers and number of calls.                  *)

Calling(c) == call[c] # NoCall

DecodeSteps == {"cache", "vpic", "paid", "store", "upsert"}
EnsuringKinds == {"ingest", "import", "playbook", "customer", "capture", "check"}

(* A session's route is past EnsureVehicle while it decodes; an import     *)
(* decodes first.  What is to be saved has been decoded.                   *)
CallOk(c) ==
  /\ call[c].step = "ensure" => call[c].kind \in EnsuringKinds
  /\ call[c].step \in DecodeSteps => call[c].kind \in {"decode", "ingest", "import"}
  /\ call[c].step \in DecodeSteps /\ call[c].kind = "ingest" => vehicle # NoVehicle
  /\ call[c].step \in {"store", "upsert"} => call[c].dec # NoDecode
  /\ call[c].step = "row" => vehicle # NoVehicle

CallInv == \A c \in Calls : Calling(c) => CallOk(c)

VehicleInv == VehicleTypeOK /\ CallInv

(* What a step does to the two rows: the car and its cached answer stay,   *)
(* and names stay what they are.                                           *)
Keeps ==
  /\ vehicle # NoVehicle =>
       /\ vehicle' # NoVehicle
       /\ \A a \in Named(vehicle.fields) : vehicle'.fields[a] = vehicle.fields[a]
  /\ cache # NoDecode => cache' = cache

-----------------------------------------------------------------------------
LEMMA CallingTyped ==
  ASSUME VehicleTypeOK, NEW c \in Calls, Calling(c)
  PROVE  call[c] \in Call
BY DEF VehicleTypeOK, Calling

LEMMA CallAtAStep ==
  ASSUME NEW c \in Calls, call[c].step # "none"
  PROVE  Calling(c)
BY DEF Calling, NoCall

LEMMA WhoDecodes ==
  ASSUME VehicleInv, NEW c \in Calls, call[c].step \in DecodeSteps
  PROVE  /\ call[c] \in Call /\ Calling(c)
         /\ call[c].kind \in {"decode", "ingest", "import"}
         /\ call[c].kind = "ingest" => vehicle # NoVehicle
BY CallingTyped, CallAtAStep DEF VehicleInv, CallInv, CallOk, DecodeSteps

(* An upsert leaves a row that has every name it had before.               *)
LEMMA UpsertKeeps ==
  ASSUME VehicleTypeOK, NEW fields \in Fields, NEW source \in Sources,
         NEW claims, Upsert(fields, source, claims)
  PROVE  /\ vehicle' \in VehicleRow
         /\ vehicle # NoVehicle =>
              \A a \in Named(vehicle.fields) : vehicle'.fields[a] = vehicle.fields[a]
<1>1. CASE vehicle = NoVehicle
  BY <1>1 DEF Upsert, VehicleRow, Decode
<1>2. CASE vehicle # NoVehicle
  <2>1. vehicle \in [fields : Fields, source : Sources]
    BY <1>2 DEF VehicleTypeOK, VehicleRow, Decode
  <2>2. DEFINE merged == [a \in Attributes |->
                            IF a \in Fills(fields) THEN fields[a] ELSE vehicle.fields[a]]
  <2>3. merged \in Fields
    BY <2>1 DEF Fields
  <2>4. \A a \in Named(vehicle.fields) : a \in Attributes /\ a \notin Fills(fields)
    BY <1>2 DEF Named, Fills
  <2>5. vehicle' = [fields |-> merged,
                    source |-> IF Fills(fields) \cap claims # {} THEN source
                               ELSE vehicle.source]
    BY <1>2 DEF Upsert
  <2>6. vehicle' \in [fields : Fields, source : Sources]
    BY <2>1, <2>3, <2>5
  <2>7. \A a \in Named(vehicle.fields) : vehicle'.fields[a] = vehicle.fields[a]
    BY <2>4, <2>5
  <2>8. QED
    BY <2>6, <2>7 DEF VehicleRow, Decode
<1>3. QED
  BY <1>1, <1>2

LEMMA ResolvedTyped ==
  ASSUME NEW source \in Apis, NEW answer \in Fields
  PROVE  Resolved(source, answer) \in Decode
<1>1. [a \in Attributes |->
         IF a \in {x \in Named(Plate) : answer[x] = Unknown} THEN Plate[a] ELSE answer[a]]
        \in Fields
  BY PlateAssumption DEF Fields
<1>2. Enriched(source, answer) \in Decode
  BY <1>1 DEF Enriched, Decode, Sources
<1>3. QED
  BY <1>2 DEF Resolved, Decode, Sources

LEMMA RowsAreNotSentinels ==
  /\ \A r \in VehicleRow : r # NoVehicle
  /\ \A d \in Decode : d # NoDecode
BY SentinelAssumption

-----------------------------------------------------------------------------
LEMMA VehicleStarts == VehicleInit => VehicleInv
BY MaxCallsAssumption DEF VehicleInit, VehicleInv, VehicleTypeOK, CallInv, Calling

(* A call begins with its route's first step.                              *)
LEMMA StartCallStep ==
  ASSUME VehicleInv, NEW c \in Calls, NEW kind \in Kinds, StartCall(c, kind)
  PROVE  VehicleInv' /\ Keeps
<1> USE DEF VehicleInv, StartCall, FirstStep
<1>1. VehicleTypeOK'
  BY MaxCallsAssumption DEF VehicleTypeOK, Call, Kinds, CallSteps
<1>2. CallInv'
  BY MaxCallsAssumption DEF VehicleTypeOK, Call, CallInv, CallOk, Calling, NoCall,
     DecodeSteps, EnsuringKinds, Kinds
<1>3. Keeps
  BY DEF Keeps
<1>4. QED
  BY <1>1, <1>2, <1>3

(* A step that only moves its call.                                        *)
LEMMA ReadCacheStep ==
  ASSUME VehicleInv, NEW c \in Calls, ReadCache(c)
  PROVE  VehicleInv' /\ Keeps
<1> USE DEF VehicleInv, ReadCache, AfterHit, CallAt
<1>0. /\ call[c] \in Call /\ Calling(c)
      /\ call[c].kind \in {"decode", "ingest", "import"}
  BY WhoDecodes DEF DecodeSteps
<1>1. VehicleTypeOK'
  BY <1>0 DEF VehicleTypeOK, Call, CallSteps, CallOk
<1>2. CallInv'
  BY <1>0 DEF VehicleTypeOK, Call, CallInv, CallOk, Calling, NoCall,
     DecodeSteps, EnsuringKinds, Kinds
<1>3. Keeps
  BY DEF Keeps
<1>4. QED
  BY <1>1, <1>2, <1>3

LEMMA VpicAnswersStep ==
  ASSUME VehicleInv, NEW c \in Calls, NEW answer \in Answers, VpicAnswers(c, answer)
  PROVE  VehicleInv' /\ Keeps
<1> USE DEF VehicleInv, VpicAnswers, Got
<1>1. VehicleTypeOK'
  BY CallingTyped, CallAtAStep, ResolvedTyped, AnswersAssumption
  DEF VehicleTypeOK, Call, CallSteps, Apis
<1>2. CallInv'
  BY RowsAreNotSentinels, CallingTyped, CallAtAStep, ResolvedTyped, AnswersAssumption
  DEF VehicleTypeOK, Call, CallInv, CallOk, Calling, NoCall,
     DecodeSteps, EnsuringKinds, Kinds, Apis
<1>3. Keeps
  BY DEF Keeps
<1>4. QED
  BY <1>1, <1>2, <1>3

LEMMA VpicFailsStep ==
  ASSUME VehicleInv, NEW c \in Calls, NEW slowly \in BOOLEAN, VpicFails(c, slowly)
  PROVE  VehicleInv' /\ Keeps
<1> USE DEF VehicleInv, VpicFails, GiveUp, AfterDecode, CallAt, CallEnds
<1>0. /\ call[c] \in Call /\ Calling(c)
      /\ call[c].kind \in {"decode", "ingest", "import"}
  BY WhoDecodes DEF DecodeSteps
<1>1. VehicleTypeOK'
  BY <1>0 DEF VehicleTypeOK, Call, CallSteps, CallOk
<1>2. CallInv'
  BY <1>0 DEF VehicleTypeOK, Call, CallInv, CallOk, Calling, NoCall,
     DecodeSteps, EnsuringKinds, Kinds
<1>3. Keeps
  BY DEF Keeps
<1>4. QED
  BY <1>1, <1>2, <1>3

LEMMA CarApiAnswersStep ==
  ASSUME VehicleInv, NEW c \in Calls, NEW answer \in Answers, CarApiAnswers(c, answer)
  PROVE  VehicleInv' /\ Keeps
<1> USE DEF VehicleInv, CarApiAnswers, Got
<1>1. VehicleTypeOK'
  BY CallingTyped, CallAtAStep, ResolvedTyped, AnswersAssumption
  DEF VehicleTypeOK, Call, CallSteps, Apis
<1>2. CallInv'
  BY RowsAreNotSentinels, CallingTyped, CallAtAStep, ResolvedTyped, AnswersAssumption
  DEF VehicleTypeOK, Call, CallInv, CallOk, Calling, NoCall,
     DecodeSteps, EnsuringKinds, Kinds, Apis
<1>3. Keeps
  BY DEF Keeps
<1>4. QED
  BY <1>1, <1>2, <1>3

LEMMA VincarioAnswersStep ==
  ASSUME VehicleInv, NEW c \in Calls, NEW answer \in Answers, VincarioAnswers(c, answer)
  PROVE  VehicleInv' /\ Keeps
<1> USE DEF VehicleInv, VincarioAnswers, Got
<1>1. VehicleTypeOK'
  BY CallingTyped, CallAtAStep, ResolvedTyped, AnswersAssumption
  DEF VehicleTypeOK, Call, CallSteps, Apis
<1>2. CallInv'
  BY RowsAreNotSentinels, CallingTyped, CallAtAStep, ResolvedTyped, AnswersAssumption
  DEF VehicleTypeOK, Call, CallInv, CallOk, Calling, NoCall,
     DecodeSteps, EnsuringKinds, Kinds, Apis
<1>3. Keeps
  BY DEF Keeps
<1>4. QED
  BY <1>1, <1>2, <1>3

LEMMA PaidFailsStep ==
  ASSUME VehicleInv, NEW c \in Calls, PaidFails(c)
  PROVE  VehicleInv' /\ Keeps
<1> USE DEF VehicleInv, PaidFails, Got, GiveUp, AfterDecode, CallAt
<1>0. /\ call[c] \in Call /\ Calling(c)
      /\ call[c].kind \in {"decode", "ingest", "import"}
  BY WhoDecodes DEF DecodeSteps
<1>1. VehicleTypeOK'
  BY <1>0 DEF VehicleTypeOK, Call, CallSteps, CallOk
<1>2. CallInv'
  BY <1>0 DEF VehicleTypeOK, Call, CallInv, CallOk, Calling, NoCall,
     DecodeSteps, EnsuringKinds, Kinds
<1>3. Keeps
  BY DEF Keeps
<1>4. QED
  BY <1>1, <1>2, <1>3

LEMMA SaveFailsStep ==
  ASSUME VehicleInv, NEW c \in Calls, SaveFails(c)
  PROVE  VehicleInv' /\ Keeps
<1> USE DEF VehicleInv, SaveFails, AfterDecode, CallAt
<1>0. /\ call[c] \in Call /\ Calling(c)
      /\ call[c].kind \in {"decode", "ingest", "import"}
  BY WhoDecodes DEF DecodeSteps
<1>1. VehicleTypeOK'
  BY <1>0 DEF VehicleTypeOK, Call, CallSteps, CallOk
<1>2. CallInv'
  BY <1>0 DEF VehicleTypeOK, Call, CallInv, CallOk, Calling, NoCall,
     DecodeSteps, EnsuringKinds, Kinds
<1>3. Keeps
  BY DEF Keeps
<1>4. QED
  BY <1>1, <1>2, <1>3

LEMMA InsertRowStep ==
  ASSUME VehicleInv, NEW c \in Calls, InsertRow(c)
  PROVE  VehicleInv' /\ Keeps
<1> USE DEF VehicleInv, InsertRow, CallEnds, CallAt
<1>1. VehicleTypeOK'
  BY DEF VehicleTypeOK
<1>2. CallInv'
  BY DEF VehicleTypeOK, Call, CallInv, CallOk, Calling, NoCall,
     DecodeSteps, EnsuringKinds, Kinds
<1>3. Keeps
  BY DEF Keeps
<1>4. QED
  BY <1>1, <1>2, <1>3

LEMMA CallAbortsStep ==
  ASSUME VehicleInv, NEW c \in Calls, CallAborts(c)
  PROVE  VehicleInv' /\ Keeps
<1> USE DEF VehicleInv, CallAborts, CallEnds, CallAt
<1>1. VehicleTypeOK'
  BY DEF VehicleTypeOK
<1>2. CallInv'
  BY DEF VehicleTypeOK, Call, CallInv, CallOk, Calling, NoCall,
     DecodeSteps, EnsuringKinds, Kinds
<1>3. Keeps
  BY DEF Keeps
<1>4. QED
  BY <1>1, <1>2, <1>3

(* EnsureVehicle only adds the row where there is none.                    *)
LEMMA EnsureVehicleStep ==
  ASSUME VehicleInv, NEW c \in Calls, NEW hint \in Hints, EnsureVehicle(c, hint)
  PROVE  VehicleInv' /\ Keeps
<1> USE DEF VehicleInv, EnsureVehicle, CallAt
<1>1. call[c] \in Call /\ call[c].kind \in EnsuringKinds
  BY CallingTyped, CallAtAStep DEF CallInv, CallOk
<1>2. HinterOf(call[c].kind) \in Sources
  BY <1>1 DEF HinterOf, EnsuringKinds, Sources, Hinters
<1>3. vehicle' \in VehicleRow /\ vehicle' # NoVehicle
  <2>1. hint \in Fields
    BY AnswersAssumption
  <2>2. [fields |-> hint, source |-> HinterOf(call[c].kind)] \in VehicleRow
    BY <1>2, <2>1 DEF VehicleRow, Decode
  <2>3. vehicle' \in VehicleRow
    BY <2>2 DEF VehicleTypeOK
  <2>4. QED
    BY <2>3, RowsAreNotSentinels
<1>4. VehicleTypeOK'
  BY <1>1, <1>3 DEF VehicleTypeOK, AfterEnsure, Call, CallSteps
<1>5. CallInv'
  BY <1>1, <1>3 DEF VehicleTypeOK, AfterEnsure, Call, CallInv, CallOk, Calling, DecodeSteps,
                    EnsuringKinds
<1>6. Keeps
  BY <1>3 DEF Keeps
<1>7. QED
  BY <1>4, <1>5, <1>6

(* The first statement of SaveVINDecode keeps the answer that is there.    *)
LEMMA StoreDecodeStep ==
  ASSUME VehicleInv, NEW c \in Calls, StoreDecode(c)
  PROVE  VehicleInv' /\ Keeps
<1> USE DEF VehicleInv, StoreDecode, CallAt
<1>1. /\ call[c] \in Call /\ Calling(c) /\ call[c].dec \in Decode
      /\ call[c].kind \in {"decode", "ingest", "import"}
      /\ call[c].kind = "ingest" => vehicle # NoVehicle
  BY WhoDecodes, CallAtAStep DEF CallInv, CallOk, Call, DecodeSteps
<1>2. VehicleTypeOK'
  BY <1>1 DEF VehicleTypeOK, Call, CallSteps
<1>3. CallInv'
  <2>1. call' = [call EXCEPT ![c] = [@ EXCEPT !.step = "upsert"]]
    OBVIOUS
  <2>2. /\ Calling(c)' /\ call'[c].step = "upsert"
        /\ call'[c].kind = call[c].kind /\ call'[c].dec = call[c].dec
    BY <1>1, <2>1 DEF VehicleTypeOK, Calling, Call, NoCall
  <2>3. CallOk(c)'
    BY <1>1, <2>2, RowsAreNotSentinels DEF CallOk, DecodeSteps
  <2>4. \A d \in Calls \ {c} : call'[d] = call[d]
    BY <2>1 DEF VehicleTypeOK
  <2>5. QED
    BY <2>3, <2>4 DEF CallInv, CallOk, Calling
<1>4. Keeps
  BY DEF Keeps
<1>5. QED
  BY <1>2, <1>3, <1>4

(* The second fills in what the row lacks.                                 *)
LEMMA UpsertDecodedStep ==
  ASSUME VehicleInv, NEW c \in Calls, UpsertDecoded(c)
  PROVE  VehicleInv' /\ Keeps
<1> USE DEF VehicleInv, UpsertDecoded, CallAt
<1>1. /\ call[c] \in Call /\ call[c].dec \in Decode
      /\ call[c].kind \in {"decode", "ingest", "import"}
  BY CallingTyped, CallAtAStep DEF CallInv, CallOk, Call, DecodeSteps
<1>2. call[c].dec.fields \in Fields /\ call[c].dec.source \in Sources
  BY <1>1 DEF Decode
<1>3. /\ vehicle' \in VehicleRow /\ vehicle' # NoVehicle
      /\ vehicle # NoVehicle =>
           \A a \in Named(vehicle.fields) : vehicle'.fields[a] = vehicle.fields[a]
  BY <1>2, UpsertKeeps, RowsAreNotSentinels
<1>4. VehicleTypeOK'
  BY <1>1, <1>3 DEF VehicleTypeOK, AfterDecode, Call, CallSteps
<1>5. CallInv'
  BY <1>1, <1>3 DEF VehicleTypeOK, AfterDecode, Call, CallInv, CallOk, Calling, NoCall,
                    DecodeSteps, EnsuringKinds
<1>6. Keeps
  BY <1>3 DEF Keeps
<1>7. QED
  BY <1>4, <1>5, <1>6

(* So does the plate.                                                      *)
LEMMA ApplyPlateStep ==
  ASSUME VehicleInv, NEW c \in Calls, ApplyPlate(c)
  PROVE  VehicleInv' /\ Keeps
<1> USE DEF VehicleInv, ApplyPlate, CallEnds, CallAt
<1>1. CASE Named(Plate) = {}
  <2>1. vehicle' = vehicle
    BY <1>1
  <2>2. VehicleTypeOK'
    BY <2>1 DEF VehicleTypeOK
  <2>3. CallInv'
    BY <2>1 DEF VehicleTypeOK, CallInv, CallOk, Calling, NoCall
  <2>4. QED
    BY <2>1, <2>2, <2>3 DEF Keeps
<1>2. CASE Named(Plate) # {}
  <2>1. /\ vehicle' \in VehicleRow /\ vehicle' # NoVehicle
        /\ vehicle # NoVehicle =>
             \A a \in Named(vehicle.fields) : vehicle'.fields[a] = vehicle.fields[a]
    BY <1>2, UpsertKeeps, PlateAssumption, RowsAreNotSentinels DEF Sources
  <2>2. VehicleTypeOK'
    BY <2>1 DEF VehicleTypeOK
  <2>3. CallInv'
    BY <2>1 DEF VehicleTypeOK, CallInv, CallOk, Calling, NoCall
  <2>4. QED
    BY <2>1, <2>2, <2>3 DEF Keeps
<1>3. QED
  BY <1>1, <1>2

-----------------------------------------------------------------------------
LEMMA VehicleStep ==
  ASSUME VehicleInv, [VehicleNext]_vehicleVars
  PROVE  VehicleInv' /\ Keeps
<1>1. CASE UNCHANGED vehicleVars
  BY <1>1 DEF vehicleVars, VehicleInv, VehicleTypeOK, CallInv, CallOk, Calling, Keeps
<1>2. CASE VehicleNext
  BY <1>2, StartCallStep, EnsureVehicleStep, ReadCacheStep, VpicAnswersStep, VpicFailsStep,
     CarApiAnswersStep, VincarioAnswersStep, PaidFailsStep, StoreDecodeStep,
     UpsertDecodedStep, SaveFailsStep, ApplyPlateStep, InsertRowStep, CallAbortsStep
     DEF VehicleNext
<1>3. QED
  BY <1>1, <1>2

(* VehicleInv is inductive.                                                      *)
THEOREM VehicleInvariant == VehicleSpec => []VehicleInv
<1>1. VehicleInit => VehicleInv
  BY VehicleStarts
<1>2. VehicleInv /\ [VehicleNext]_vehicleVars => VehicleInv'
  BY VehicleStep
<1>3. QED
  BY <1>1, <1>2, PTL DEF VehicleSpec

(* Whoever inserts a row about the car finds its vehicle, whatever other   *)
(* handlers did or failed to do (ledger.EnsureVehicle and its callers).    *)
THEOREM VehicleIsThere == VehicleSpec => []VehicleBeforeRows
<1>1. VehicleInv => VehicleBeforeRows
  BY CallAtAStep DEF VehicleInv, CallInv, CallOk, VehicleBeforeRows
<1>2. QED
  BY <1>1, VehicleInvariant, PTL

(* A named attribute keeps its name and the cached answer stays, for any   *)
(* names and any order of decodes, plates and hints                        *)
(* (ledger.SaveVINDecode, ApplyPlateIfBlank, EnsureVehicle).               *)
THEOREM NamesAreKept == VehicleSpec => NamesStay
<1>1. VehicleInv /\ [VehicleNext]_vehicleVars => [Keeps]_vehicleVars
  BY VehicleStep
<1>2. VehicleSpec => [][Keeps]_vehicleVars
  BY <1>1, VehicleInvariant, PTL DEF VehicleSpec
<1>3. QED
  BY <1>2 DEF NamesStay, Keeps
-----------------------------------------------------------------------------
(* ImportedReports: any scopes, handlers and number of reports.            *)

Uploading(u) == upload[u] # NoUpload
Downloading(d) == download[d] # NoDownload

(* Ids are given out once: two uploads under way have two ids, and an id   *)
(* that was not given out has no rows.                                     *)
IdsApart ==
  /\ \A u, v \in Uploads :
       Uploading(u) /\ Uploading(v) /\ upload[u].id = upload[v].id => u = v
  /\ \A u \in Uploads : Uploading(u) => upload[u].id <= opened
  /\ \A id \in ReportIds : Committed(id) => id <= opened

(* Before its COMMIT an upload has no rows; from the moment the file is    *)
(* written it is whole; and an upload that is about to remove it has no    *)
(* rows, unless its COMMIT was reported failed and was not.                *)
UploadOk(u) ==
  LET id == upload[u].id IN
  /\ upload[u].step \in {"session", "written", "import"} => ~Committed(id)
  /\ upload[u].step \in {"written", "import", "committed"} => files[id] = "whole"
  /\ upload[u].step = "remove" => ~Committed(id) \/ id \in unsure

UploadInv == \A u \in Uploads : Uploading(u) => UploadOk(u)

(* A download that is to look for a file has seen the rows.                *)
DownloadInv == \A d \in Downloads : Downloading(d) => Committed(download[d].id)

ReportsInv ==
  /\ ReportsTypeOK
  /\ IdsApart
  /\ UploadInv
  /\ DownloadInv
  /\ FiledReportOpens

-----------------------------------------------------------------------------
LEMMA UploadingTyped ==
  ASSUME ReportsTypeOK, NEW u \in Uploads, Uploading(u)
  PROVE  upload[u] \in Upload
BY DEF ReportsTypeOK, Uploading

LEMMA DownloadingTyped ==
  ASSUME ReportsTypeOK, NEW d \in Downloads, Downloading(d)
  PROVE  download[d] \in Download
BY DEF ReportsTypeOK, Downloading

(* A handler that is at a step has a request.                              *)
LEMMA UploadAtAStep ==
  ASSUME NEW u \in Uploads, upload[u].step # "none"
  PROVE  Uploading(u)
BY DEF Uploading, NoUpload

LEMMA ReportsStart == ReportsInit => ReportsInv
<1> SUFFICES ASSUME ReportsInit PROVE ReportsInv
  OBVIOUS
<1>1. ReportsTypeOK
  BY MaxReportsAssumption DEF ReportsInit, ReportsTypeOK
<1>2. IdsApart /\ UploadInv /\ DownloadInv
  BY DEF ReportsInit, IdsApart, UploadInv, DownloadInv, Uploading, Downloading, Committed
<1>3. FiledReportOpens
  BY DEF ReportsInit, FiledReportOpens, Committed
<1>4. QED
  BY <1>1, <1>2, <1>3 DEF ReportsInv

(* A new upload's id is beyond all that were given out.                    *)
LEMMA BeginUploadStep ==
  ASSUME ReportsInv, NEW u \in Uploads, NEW scope \in Scopes, BeginUpload(u, scope)
  PROVE  ReportsInv'
<1> USE DEF ReportsInv, BeginUpload
<1>1. ReportsTypeOK'
  BY MaxReportsAssumption DEF ReportsTypeOK, Upload, ReportIds
<1>2. IdsApart'
  BY MaxReportsAssumption DEF ReportsTypeOK, IdsApart, Uploading, Upload, Committed, ReportIds
<1>3. UploadInv'
  BY MaxReportsAssumption
  DEF ReportsTypeOK, IdsApart, UploadInv, UploadOk, Uploading, Upload, Committed,
         ReportIds
<1>4. DownloadInv'
  BY DownloadingTyped DEF ReportsTypeOK, DownloadInv, Downloading, Download, Committed
<1>5. FiledReportOpens'
  BY DEF ReportsTypeOK, FiledReportOpens, UploadInv, UploadOk, Upload, Committed
<1>6. QED
  BY <1>1, <1>2, <1>3, <1>4, <1>5

(* Only the upload of an id writes or removes its file.                    *)
LEMMA WriteFileStep ==
  ASSUME ReportsInv, NEW u \in Uploads, WriteFile(u)
  PROVE  ReportsInv'
<1> USE DEF ReportsInv, WriteFile, UploadAt
<1>1. ReportsTypeOK'
  BY UploadingTyped, UploadAtAStep DEF ReportsTypeOK, Upload, ReportIds
<1>2. IdsApart'
  BY UploadingTyped, UploadAtAStep
  DEF ReportsTypeOK, IdsApart, Uploading, Upload, Committed, ReportIds
<1>3. UploadInv'
  BY UploadingTyped, UploadAtAStep
  DEF ReportsTypeOK, IdsApart, UploadInv, UploadOk, Uploading, Upload, Committed,
         ReportIds
<1>4. DownloadInv'
  BY DownloadingTyped DEF ReportsTypeOK, DownloadInv, Downloading, Download, Committed
<1>5. FiledReportOpens'
  BY UploadingTyped, UploadAtAStep
  DEF ReportsTypeOK, FiledReportOpens, UploadInv, UploadOk, Upload, Committed
<1>6. QED
  BY <1>1, <1>2, <1>3, <1>4, <1>5

LEMMA WriteFailsStep ==
  ASSUME ReportsInv, NEW u \in Uploads, NEW partly \in BOOLEAN, WriteFails(u, partly)
  PROVE  ReportsInv'
<1> USE DEF ReportsInv, WriteFails, UploadEnds
<1>1. ReportsTypeOK'
  BY UploadingTyped, UploadAtAStep DEF ReportsTypeOK, Upload, ReportIds
<1>2. IdsApart'
  BY UploadingTyped, UploadAtAStep
  DEF ReportsTypeOK, IdsApart, Uploading, Upload, Committed, ReportIds
<1>3. UploadInv'
  BY UploadingTyped, UploadAtAStep
  DEF ReportsTypeOK, IdsApart, UploadInv, UploadOk, Uploading, Upload, Committed,
         ReportIds
<1>4. DownloadInv'
  BY DownloadingTyped DEF ReportsTypeOK, DownloadInv, Downloading, Download, Committed
<1>5. FiledReportOpens'
  BY UploadingTyped, UploadAtAStep
  DEF ReportsTypeOK, FiledReportOpens, UploadInv, UploadOk, Upload, Committed
<1>6. QED
  BY <1>1, <1>2, <1>3, <1>4, <1>5

LEMMA InsertImportStep ==
  ASSUME ReportsInv, NEW u \in Uploads, InsertImport(u)
  PROVE  ReportsInv'
<1> USE DEF ReportsInv, InsertImport, UploadAt
<1>1. ReportsTypeOK'
  BY UploadingTyped, UploadAtAStep DEF ReportsTypeOK, Upload, ReportIds
<1>2. IdsApart'
  BY UploadingTyped, UploadAtAStep
  DEF ReportsTypeOK, IdsApart, Uploading, Upload, Committed, ReportIds
<1>3. UploadInv'
  BY UploadingTyped, UploadAtAStep
  DEF ReportsTypeOK, IdsApart, UploadInv, UploadOk, Uploading, Upload, Committed,
         ReportIds
<1>4. DownloadInv'
  BY DownloadingTyped DEF ReportsTypeOK, DownloadInv, Downloading, Download, Committed
<1>5. FiledReportOpens'
  BY UploadingTyped, UploadAtAStep
  DEF ReportsTypeOK, FiledReportOpens, UploadInv, UploadOk, Upload, Committed
<1>6. QED
  BY <1>1, <1>2, <1>3, <1>4, <1>5

LEMMA InsertImportFailsStep ==
  ASSUME ReportsInv, NEW u \in Uploads, InsertImportFails(u)
  PROVE  ReportsInv'
<1> USE DEF ReportsInv, InsertImportFails, UploadAt
<1>1. ReportsTypeOK'
  BY UploadingTyped, UploadAtAStep DEF ReportsTypeOK, Upload, ReportIds
<1>2. IdsApart'
  BY UploadingTyped, UploadAtAStep
  DEF ReportsTypeOK, IdsApart, Uploading, Upload, Committed, ReportIds
<1>3. UploadInv'
  BY UploadingTyped, UploadAtAStep
  DEF ReportsTypeOK, IdsApart, UploadInv, UploadOk, Uploading, Upload, Committed,
         ReportIds
<1>4. DownloadInv'
  BY DownloadingTyped DEF ReportsTypeOK, DownloadInv, Downloading, Download, Committed
<1>5. FiledReportOpens'
  BY UploadingTyped, UploadAtAStep
  DEF ReportsTypeOK, FiledReportOpens, UploadInv, UploadOk, Upload, Committed
<1>6. QED
  BY <1>1, <1>2, <1>3, <1>4, <1>5

(* The file of an upload that commits is whole.                            *)
LEMMA CommitReportStep ==
  ASSUME ReportsInv, NEW u \in Uploads, CommitReport(u)
  PROVE  ReportsInv'
<1> USE DEF ReportsInv, CommitReport, UploadAt
<1>1. ReportsTypeOK'
  BY UploadingTyped, UploadAtAStep DEF ReportsTypeOK, Upload, ReportIds
<1>2. IdsApart'
  BY UploadingTyped, UploadAtAStep
  DEF ReportsTypeOK, IdsApart, Uploading, Upload, Committed, ReportIds
<1>3. UploadInv'
  BY UploadingTyped, UploadAtAStep
  DEF ReportsTypeOK, IdsApart, UploadInv, UploadOk, Uploading, Upload, Committed,
         ReportIds
<1>4. DownloadInv'
  BY ScopeAssumption, UploadingTyped, UploadAtAStep, DownloadingTyped
  DEF ReportsTypeOK, DownloadInv, Downloading, Download, Upload,
         Committed
<1>5. FiledReportOpens'
  BY UploadingTyped, UploadAtAStep
  DEF ReportsTypeOK, FiledReportOpens, UploadInv, UploadOk, Upload, Committed
<1>6. QED
  BY <1>1, <1>2, <1>3, <1>4, <1>5

LEMMA CommitReportFailsStep ==
  ASSUME ReportsInv, NEW u \in Uploads, NEW tookPlace \in BOOLEAN, CommitReportFails(u, tookPlace)
  PROVE  ReportsInv'
<1> USE DEF ReportsInv, CommitReportFails, UploadAt
<1>1. ReportsTypeOK'
  BY UploadingTyped, UploadAtAStep DEF ReportsTypeOK, Upload, ReportIds
<1>2. IdsApart'
  BY UploadingTyped, UploadAtAStep
  DEF ReportsTypeOK, IdsApart, Uploading, Upload, Committed, ReportIds
<1>3. UploadInv'
  BY UploadingTyped, UploadAtAStep
  DEF ReportsTypeOK, IdsApart, UploadInv, UploadOk, Uploading, Upload, Committed,
         ReportIds
<1>4. DownloadInv'
  BY ScopeAssumption, UploadingTyped, UploadAtAStep, DownloadingTyped
  DEF ReportsTypeOK, DownloadInv, Downloading, Download, Upload,
         Committed
<1>5. FiledReportOpens'
  BY UploadingTyped, UploadAtAStep
  DEF ReportsTypeOK, FiledReportOpens, UploadInv, UploadOk, Upload, Committed
<1>6. QED
  BY <1>1, <1>2, <1>3, <1>4, <1>5

(* A file is removed where no rows name it, or where the COMMIT was in     *)
(* doubt.                                                                  *)
LEMMA RemoveFileStep ==
  ASSUME ReportsInv, NEW u \in Uploads, NEW removed \in BOOLEAN, RemoveFile(u, removed)
  PROVE  ReportsInv'
<1> USE DEF ReportsInv, RemoveFile, UploadEnds
<1>1. ReportsTypeOK'
  BY UploadingTyped, UploadAtAStep DEF ReportsTypeOK, Upload, ReportIds
<1>2. IdsApart'
  BY UploadingTyped, UploadAtAStep
  DEF ReportsTypeOK, IdsApart, Uploading, Upload, Committed, ReportIds
<1>3. UploadInv'
  BY UploadingTyped, UploadAtAStep
  DEF ReportsTypeOK, IdsApart, UploadInv, UploadOk, Uploading, Upload, Committed,
         ReportIds
<1>4. DownloadInv'
  BY DownloadingTyped DEF ReportsTypeOK, DownloadInv, Downloading, Download, Committed
<1>5. FiledReportOpens'
  BY UploadingTyped, UploadAtAStep
  DEF ReportsTypeOK, FiledReportOpens, UploadInv, UploadOk, Upload, Committed
<1>6. QED
  BY <1>1, <1>2, <1>3, <1>4, <1>5

LEMMA AnswerUploadStep ==
  ASSUME ReportsInv, NEW u \in Uploads, AnswerUpload(u)
  PROVE  ReportsInv'
<1> USE DEF ReportsInv, AnswerUpload, UploadEnds
<1>1. ReportsTypeOK'
  BY UploadingTyped, UploadAtAStep DEF ReportsTypeOK, Upload, ReportIds
<1>2. IdsApart'
  BY UploadingTyped, UploadAtAStep
  DEF ReportsTypeOK, IdsApart, Uploading, Upload, Committed, ReportIds
<1>3. UploadInv'
  BY UploadingTyped, UploadAtAStep
  DEF ReportsTypeOK, IdsApart, UploadInv, UploadOk, Uploading, Upload, Committed,
         ReportIds
<1>4. DownloadInv'
  BY DownloadingTyped DEF ReportsTypeOK, DownloadInv, Downloading, Download, Committed
<1>5. FiledReportOpens'
  BY UploadingTyped, UploadAtAStep
  DEF ReportsTypeOK, FiledReportOpens, UploadInv, UploadOk, Upload, Committed
<1>6. QED
  BY <1>1, <1>2, <1>3, <1>4, <1>5

(* The rows that a download has seen stay, so that a file it misses is one *)
(* whose COMMIT was in doubt.                                              *)
LEMMA DownloadStep ==
  ASSUME ReportsInv, NEW d \in Downloads,
         ServeReport(d) \/ \E scope \in Scopes, id \in ReportIds : OpenReport(d, scope, id)
  PROVE  ReportsInv'
<1> USE DEF ReportsInv
<1>1. CASE ServeReport(d)
  <2>1. Downloading(d)
    BY <1>1 DEF ServeReport, Downloading, NoDownload
  <2>2. download[d].id \in ReportIds /\ Committed(download[d].id)
    BY <2>1, DownloadingTyped DEF DownloadInv, Download
  <2>3. ReportsTypeOK'
    BY <1>1, <2>2 DEF ServeReport, ReportsTypeOK
  <2>4. IdsApart' /\ UploadInv'
    BY <1>1 DEF ServeReport, IdsApart, UploadInv, UploadOk, Uploading, Committed
  <2>5. DownloadInv'
    BY <1>1 DEF ServeReport, ReportsTypeOK, DownloadInv, Downloading, Committed
  <2>6. FiledReportOpens'
    BY <1>1, <2>2 DEF ServeReport, FiledReportOpens, Committed
  <2>7. QED
    BY <2>3, <2>4, <2>5, <2>6
<1>2. ASSUME NEW scope \in Scopes, NEW id \in ReportIds, OpenReport(d, scope, id)
      PROVE  ReportsInv'
  <2>1. Committed(id)
    BY <1>2, ScopeAssumption DEF OpenReport, InScope, Committed
  <2>2. ReportsTypeOK'
    BY <1>2 DEF OpenReport, ReportsTypeOK, Download
  <2>3. IdsApart' /\ UploadInv' /\ FiledReportOpens'
    BY <1>2 DEF OpenReport, IdsApart, UploadInv, UploadOk, Uploading, Committed,
                FiledReportOpens
  <2>4. DownloadInv'
    BY <1>2, <2>1 DEF OpenReport, ReportsTypeOK, DownloadInv, Downloading, Committed
  <2>5. QED
    BY <2>2, <2>3, <2>4
<1>3. QED
  BY <1>1, <1>2

LEMMA DiesStep == ASSUME ReportsInv, Dies PROVE ReportsInv'
BY DEF Dies, ReportsInv, ReportsTypeOK, IdsApart, UploadInv, UploadOk, Uploading, DownloadInv,
       Downloading, FiledReportOpens, Committed

-----------------------------------------------------------------------------
(* ReportsInv is inductive.                                                      *)
THEOREM ReportsInvariant == ReportsSpec => []ReportsInv
<1>1. ReportsInit => ReportsInv
  BY ReportsStart
<1>2. ReportsInv /\ [ReportsNext]_reportVars => ReportsInv'
  <2> SUFFICES ASSUME ReportsInv, [ReportsNext]_reportVars PROVE ReportsInv'
    OBVIOUS
  <2>1. CASE UNCHANGED reportVars
    BY <2>1 DEF reportVars, ReportsInv, ReportsTypeOK, IdsApart, UploadInv, UploadOk, Uploading,
                DownloadInv, Downloading, FiledReportOpens, Committed
  <2>2. CASE ReportsNext
    BY <2>2, BeginUploadStep, WriteFileStep, WriteFailsStep, InsertImportStep,
       InsertImportFailsStep, CommitReportStep, CommitReportFailsStep, RemoveFileStep,
       AnswerUploadStep, DiesStep, DownloadStep DEF ReportsNext
  <2>3. QED
    BY <2>1, <2>2
<1>3. QED
  BY <1>1, <1>2, PTL DEF ReportsSpec

(* A job that is on file opens, but for a COMMIT that was reported failed  *)
(* and was not (ledger.InsertImportedReport, httpapi.downloadImportedReport). *)
THEOREM FiledReportsOpen == ReportsSpec => []FiledReportOpens
<1>1. ReportsInv => FiledReportOpens
  BY DEF ReportsInv
<1>2. QED
  BY <1>1, ReportsInvariant, PTL
-----------------------------------------------------------------------------
(* Accounts: any addresses, requests and number of them.                   *)

Issuing(r) == req[r].step \in {"user", "closed"}

(* A request that is to insert a ticket found none open after it began; a  *)
(* login that is to be committed has no user before it, and holds every    *)
(* open ticket of its address but those that raced with it.                *)
ReqOk(r) ==
  /\ req[r].step \in {"lookup", "insert"} => req[r].began <= clock
  /\ req[r].step = "insert" =>
       \A t \in PendingOf(req[r].email) :
         tickets[t].reopened \/ req[r].began <= tickets[t].ended
  /\ Issuing(r) => logins[req[r].email] = "none"
  /\ req[r].step = "closed" =>
       /\ req[r].closing \subseteq PendingOf(req[r].email)
       /\ \A t \in PendingOf(req[r].email) :
            t \in req[r].closing \/ tickets[t].afterLogin

(* The unique e-mail lets one transaction at a time have its user.         *)
OneIssuer ==
  \A q, r \in Requests :
    Issuing(q) /\ Issuing(r) /\ req[q].email = req[r].email => q = r

FiledBefore == \A t \in DOMAIN tickets : tickets[t].began <= clock

AccountsInv ==
  /\ AccountsTypeOK
  /\ \A r \in Requests : ReqOk(r)
  /\ OneIssuer
  /\ FiledBefore
  /\ LeftBehindOnlyByRace
  /\ OneOpenTicket

(* The tickets as TicketDesk sees them.                                    *)
Shown(t) == [email |-> tickets[t].email, status |-> tickets[t].status]

-----------------------------------------------------------------------------
LEMMA ReqShape ==
  ASSUME AccountsTypeOK, NEW r \in Requests
  PROVE  /\ req[r].step \in {"lookup", "insert"} =>
              req[r] \in [step : {"lookup", "insert"}, email : Emails, began : Times]
         /\ req[r].step = "create_session" =>
              req[r] \in [step : {"create_session"}, email : Emails]
         /\ req[r].step \in {"arrived", "authorized"} =>
              req[r] \in [step : {"arrived", "authorized"},
                          route : {"issue", "review", "bay"}, cookie : Nat, began : Times]
         /\ req[r].step \in {"technician", "user", "closed"} =>
              req[r] \in [step : {"technician", "user", "closed"}, email : Emails,
                          began : Times, closing : SUBSET Nat]
BY DEF AccountsTypeOK, Request, NoRequest

LEMMA TicketsTyped ==
  ASSUME AccountsTypeOK
  PROVE  /\ DOMAIN tickets = 1 .. Len(tickets) /\ Len(tickets) \in Nat
         /\ \A t \in DOMAIN tickets : tickets[t] \in Ticket
BY DEF AccountsTypeOK

LEMMA CookieMoves ==
  ASSUME AccountsTypeOK, NEW k \in DOMAIN cookies, NEW state \in {"live", "expired", "deleted"}
  PROVE  [cookies EXCEPT ![k].state = state] \in Seq(Cookie)
<1>1. cookies \in Seq(Cookie) /\ DOMAIN cookies = 1 .. Len(cookies)
  BY DEF AccountsTypeOK
<1>2. [cookies[k] EXCEPT !.state = state] \in Cookie
  <2>1. cookies[k] \in [email : Emails, state : {"live", "expired", "deleted"}]
    BY <1>1, ElementOfSeq DEF Cookie
  <2>2. QED
    BY <2>1 DEF Cookie
<1>3. [cookies EXCEPT ![k].state = state] =
        [cookies EXCEPT ![k] = [cookies[k] EXCEPT !.state = state]]
  OBVIOUS
<1>4. QED
  BY <1>1, <1>2, <1>3, ExceptSeq

(* A step that leaves tickets and logins alone and moves one request.      *)
LEMMA QuietStep ==
  ASSUME AccountsInv, NEW r \in Requests, AccountsTypeOK',
         UNCHANGED <<tickets, logins>>, clock <= clock',
         \A q \in Requests \ {r} : req'[q] = req[q],
         ReqOk(r)',
         Issuing(r)' => \A q \in Requests \ {r} :
                          Issuing(q) => req[q].email # req'[r].email
  PROVE  AccountsInv'
<1> USE DEF AccountsInv
<1>1. clock \in Nat /\ clock' \in Nat
  BY LimitAssumption DEF AccountsTypeOK, Times
<1>2. \A q \in Requests : ReqOk(q)'
  <2>1. SUFFICES ASSUME NEW q \in Requests \ {r} PROVE ReqOk(q)'
    OBVIOUS
  <2>2. req'[q] = req[q] /\ ReqOk(q)
    OBVIOUS
  <2>3. req[q].step \in {"lookup", "insert"} => req[q].began \in Nat
    BY ReqShape, LimitAssumption DEF Times
  <2>4. QED
    BY <1>1, <2>2, <2>3 DEF ReqOk, Issuing, PendingOf
<1>3. OneIssuer'
  BY DEF OneIssuer, Issuing
<1>4. FiledBefore'
  <2>1. \A t \in DOMAIN tickets : tickets[t].began \in Nat
    BY TicketsTyped, LimitAssumption DEF Ticket, Times
  <2>2. QED
    BY <1>1, <2>1 DEF FiledBefore
<1>5. LeftBehindOnlyByRace' /\ OneOpenTicket'
  BY DEF LeftBehindOnlyByRace, OneOpenTicket, PendingOf
<1>6. QED
  BY <1>2, <1>3, <1>4, <1>5

LEMMA AccountsStart == AccountsInit => AccountsInv
<1> SUFFICES ASSUME AccountsInit PROVE AccountsInv
  OBVIOUS
<1> USE DEF AccountsInit
<1>1. AccountsTypeOK
  <2>1. tickets \in Seq(Ticket)
    OBVIOUS
  <2>2. cookies \in Seq(Cookie)
    BY RootAssumption DEF Cookie
  <2>3. logins \in [Emails -> Roles \cup {"none"}]
    BY DEF Roles
  <2>4. QED
    BY <2>1, <2>2, <2>3, LimitAssumption DEF AccountsTypeOK, Times, NoRequest
<1>2. \A r \in Requests : ReqOk(r) /\ ~Issuing(r)
  BY DEF ReqOk, Issuing, NoRequest
<1>3. DOMAIN tickets = {}
  OBVIOUS
<1>4. QED
  BY <1>1, <1>2, <1>3
     DEF AccountsInv, OneIssuer, FiledBefore, LeftBehindOnlyByRace, OneOpenTicket, PendingOf

-----------------------------------------------------------------------------
(* The steps that leave tickets, logins and technicians alone.             *)

LEMMA FileTicketStep ==
  ASSUME AccountsInv, NEW r \in Requests, NEW e \in Emails, FileTicket(r, e)
  PROVE  AccountsInv' /\ UNCHANGED <<tickets, logins, technicians>>
<1> USE DEF AccountsInv, FileTicket, Arrives, ReqAt
<1>1. AccountsTypeOK'
  <2>1. clock + 1 \in Times /\ clock' = clock + 1
    BY LimitAssumption DEF AccountsTypeOK, Times
  <2>. DEFINE kept == {t \in hits : clock + 1 - t < Window}
  <2>4. hits' = kept \/ hits' = kept \cup {clock + 1}
    OBVIOUS
  <2>5. hits' \subseteq Times
    BY <2>1, <2>4 DEF AccountsTypeOK
  <2>2. [step |-> "lookup", email |-> e, began |-> clock + 1] \in Request
    BY <2>1 DEF Request
  <2>3. QED
    BY <2>1, <2>2, <2>5 DEF AccountsTypeOK
<1>2. UNCHANGED <<tickets, logins, technicians>> /\ clock <= clock'
  BY LimitAssumption DEF AccountsTypeOK, Times
<1>3. \A q \in Requests \ {r} : req'[q] = req[q]
  BY DEF AccountsTypeOK
<1>4. ReqOk(r)'
  BY <1>2, ReqShape, LimitAssumption
  DEF AccountsTypeOK, Times, ReqOk, Issuing, PendingOf, NoRequest
<1>5. Issuing(r)' => \A q \in Requests \ {r} :
                      Issuing(q) => req[q].email # req'[r].email
  BY ReqShape DEF AccountsTypeOK, OneIssuer, Issuing, NoRequest
<1>6. QED
  BY <1>1, <1>2, <1>3, <1>4, <1>5, QuietStep

LEMMA LookupTicketStep ==
  ASSUME AccountsInv, NEW r \in Requests, LookupTicket(r)
  PROVE  AccountsInv' /\ UNCHANGED <<tickets, logins, technicians>>
<1> USE DEF AccountsInv, LookupTicket, ReqAt, ReqEnds, OpenTicket
<1>1. AccountsTypeOK'
  <2>1. [req[r] EXCEPT !.step = "insert"] \in Request
    BY ReqShape DEF Request
  <2>2. QED
    BY <2>1 DEF AccountsTypeOK
<1>2. UNCHANGED <<tickets, logins, technicians>> /\ clock <= clock'
  BY LimitAssumption DEF AccountsTypeOK, Times
<1>3. \A q \in Requests \ {r} : req'[q] = req[q]
  BY DEF AccountsTypeOK
<1>4. ReqOk(r)'
  BY <1>2, ReqShape, LimitAssumption
  DEF AccountsTypeOK, Times, ReqOk, Issuing, PendingOf, NoRequest
<1>5. Issuing(r)' => \A q \in Requests \ {r} :
                      Issuing(q) => req[q].email # req'[r].email
  BY ReqShape DEF AccountsTypeOK, OneIssuer, Issuing, NoRequest
<1>6. QED
  BY <1>1, <1>2, <1>3, <1>4, <1>5, QuietStep

LEMMA AuthenticateStep ==
  ASSUME AccountsInv, NEW r \in Requests, NEW e \in Emails, Authenticate(r, e)
  PROVE  AccountsInv' /\ UNCHANGED <<tickets, logins, technicians>>
<1> USE DEF AccountsInv, Authenticate, Arrives, ReqAt
<1>1. AccountsTypeOK'
  <2>1. [step |-> "create_session", email |-> e] \in Request
    BY DEF Request
  <2>2. QED
    BY <2>1, LimitAssumption DEF AccountsTypeOK, Times
<1>2. UNCHANGED <<tickets, logins, technicians>> /\ clock <= clock'
  BY LimitAssumption DEF AccountsTypeOK, Times
<1>3. \A q \in Requests \ {r} : req'[q] = req[q]
  BY DEF AccountsTypeOK
<1>4. ReqOk(r)'
  BY <1>2, ReqShape, LimitAssumption
  DEF AccountsTypeOK, Times, ReqOk, Issuing, PendingOf, NoRequest
<1>5. Issuing(r)' => \A q \in Requests \ {r} :
                      Issuing(q) => req[q].email # req'[r].email
  BY ReqShape DEF AccountsTypeOK, OneIssuer, Issuing, NoRequest
<1>6. QED
  BY <1>1, <1>2, <1>3, <1>4, <1>5, QuietStep

LEMMA CreateSessionStep ==
  ASSUME AccountsInv, NEW r \in Requests, CreateSession(r)
  PROVE  AccountsInv' /\ UNCHANGED <<tickets, logins, technicians>>
<1> USE DEF AccountsInv, CreateSession, ReqAt, ReqEnds
<1>1. AccountsTypeOK'
  <2>1. [email |-> req[r].email, state |-> "live"] \in Cookie
    BY ReqShape DEF Cookie
  <2>2. cookies' \in Seq(Cookie)
    BY <2>1 DEF AccountsTypeOK
  <2>3. QED
    BY <2>2 DEF AccountsTypeOK, NoRequest
<1>2. UNCHANGED <<tickets, logins, technicians>> /\ clock <= clock'
  BY LimitAssumption DEF AccountsTypeOK, Times
<1>3. \A q \in Requests \ {r} : req'[q] = req[q]
  BY DEF AccountsTypeOK
<1>4. ReqOk(r)'
  BY <1>2, ReqShape, LimitAssumption
  DEF AccountsTypeOK, Times, ReqOk, Issuing, PendingOf, NoRequest
<1>5. Issuing(r)' => \A q \in Requests \ {r} :
                      Issuing(q) => req[q].email # req'[r].email
  BY ReqShape DEF AccountsTypeOK, OneIssuer, Issuing, NoRequest
<1>6. QED
  BY <1>1, <1>2, <1>3, <1>4, <1>5, QuietStep

LEMMA LogoutStep ==
  ASSUME AccountsInv, NEW r \in Requests, NEW k \in DOMAIN cookies, Logout(r, k)
  PROVE  AccountsInv' /\ UNCHANGED <<tickets, logins, technicians>>
<1> USE DEF AccountsInv, Logout, Arrives
<1>1. AccountsTypeOK'
  <2>1. cookies' \in Seq(Cookie)
    BY CookieMoves
  <2>2. QED
    BY <2>1, LimitAssumption DEF AccountsTypeOK, Times
<1>2. UNCHANGED <<tickets, logins, technicians>> /\ clock <= clock'
  BY LimitAssumption DEF AccountsTypeOK, Times
<1>3. \A q \in Requests \ {r} : req'[q] = req[q]
  BY DEF AccountsTypeOK
<1>4. ReqOk(r)'
  BY <1>2, ReqShape, LimitAssumption
  DEF AccountsTypeOK, Times, ReqOk, Issuing, PendingOf, NoRequest
<1>5. Issuing(r)' => \A q \in Requests \ {r} :
                      Issuing(q) => req[q].email # req'[r].email
  BY ReqShape DEF AccountsTypeOK, OneIssuer, Issuing, NoRequest
<1>6. QED
  BY <1>1, <1>2, <1>3, <1>4, <1>5, QuietStep

LEMMA ArriveStep ==
  ASSUME AccountsInv, NEW r \in Requests, NEW k \in DOMAIN cookies,
         NEW route \in {"issue", "review", "bay"}, Arrive(r, k, route)
  PROVE  AccountsInv' /\ UNCHANGED <<tickets, logins, technicians>>
<1> USE DEF AccountsInv, Arrive, Arrives, ReqAt
<1>1. AccountsTypeOK'
  <2>1. clock + 1 \in Times /\ k \in Nat
    BY LimitAssumption DEF AccountsTypeOK, Times
  <2>2. [step |-> "arrived", route |-> route, cookie |-> k, began |-> clock + 1] \in Request
    BY <2>1 DEF Request
  <2>3. QED
    BY <2>1, <2>2 DEF AccountsTypeOK
<1>2. UNCHANGED <<tickets, logins, technicians>> /\ clock <= clock'
  BY LimitAssumption DEF AccountsTypeOK, Times
<1>3. \A q \in Requests \ {r} : req'[q] = req[q]
  BY DEF AccountsTypeOK
<1>4. ReqOk(r)'
  BY <1>2, ReqShape, LimitAssumption
  DEF AccountsTypeOK, Times, ReqOk, Issuing, PendingOf, NoRequest
<1>5. Issuing(r)' => \A q \in Requests \ {r} :
                      Issuing(q) => req[q].email # req'[r].email
  BY ReqShape DEF AccountsTypeOK, OneIssuer, Issuing, NoRequest
<1>6. QED
  BY <1>1, <1>2, <1>3, <1>4, <1>5, QuietStep

LEMMA AuthorizeStep ==
  ASSUME AccountsInv, NEW r \in Requests, Authorize(r)
  PROVE  AccountsInv' /\ UNCHANGED <<tickets, logins, technicians>>
<1> USE DEF AccountsInv, Authorize, ReqAt, ReqEnds
<1>1. AccountsTypeOK'
  <2>1. [req[r] EXCEPT !.step = "authorized"] \in Request
    BY ReqShape DEF Request
  <2>2. QED
    BY <2>1 DEF AccountsTypeOK
<1>2. UNCHANGED <<tickets, logins, technicians>> /\ clock <= clock'
  BY LimitAssumption DEF AccountsTypeOK, Times
<1>3. \A q \in Requests \ {r} : req'[q] = req[q]
  BY DEF AccountsTypeOK
<1>4. ReqOk(r)'
  BY <1>2, ReqShape, LimitAssumption
  DEF AccountsTypeOK, Times, ReqOk, Issuing, PendingOf, NoRequest
<1>5. Issuing(r)' => \A q \in Requests \ {r} :
                      Issuing(q) => req[q].email # req'[r].email
  BY ReqShape DEF AccountsTypeOK, OneIssuer, Issuing, NoRequest
<1>6. QED
  BY <1>1, <1>2, <1>3, <1>4, <1>5, QuietStep

LEMMA ServeBayStep ==
  ASSUME AccountsInv, NEW r \in Requests, ServeBay(r)
  PROVE  AccountsInv' /\ UNCHANGED <<tickets, logins, technicians>>
<1> USE DEF AccountsInv, ServeBay, ReqAt, ReqEnds
<1>1. AccountsTypeOK'
  BY DEF AccountsTypeOK
<1>2. UNCHANGED <<tickets, logins, technicians>> /\ clock <= clock'
  BY LimitAssumption DEF AccountsTypeOK, Times
<1>3. \A q \in Requests \ {r} : req'[q] = req[q]
  BY DEF AccountsTypeOK
<1>4. ReqOk(r)'
  BY <1>2, ReqShape, LimitAssumption
  DEF AccountsTypeOK, Times, ReqOk, Issuing, PendingOf, NoRequest
<1>5. Issuing(r)' => \A q \in Requests \ {r} :
                      Issuing(q) => req[q].email # req'[r].email
  BY ReqShape DEF AccountsTypeOK, OneIssuer, Issuing, NoRequest
<1>6. QED
  BY <1>1, <1>2, <1>3, <1>4, <1>5, QuietStep

LEMMA InsertTechnicianStep ==
  ASSUME AccountsInv, NEW r \in Requests, NEW e \in Emails, InsertTechnician(r, e)
  PROVE  AccountsInv' /\ UNCHANGED <<tickets, logins, technicians>>
<1> USE DEF AccountsInv, InsertTechnician, ReqAt
<1>1. AccountsTypeOK'
  <2>1. [step |-> "technician", email |-> e, began |-> req[r].began,
         closing |-> {}] \in Request
    BY ReqShape DEF Request
  <2>2. QED
    BY <2>1 DEF AccountsTypeOK
<1>2. UNCHANGED <<tickets, logins, technicians>> /\ clock <= clock'
  BY LimitAssumption DEF AccountsTypeOK, Times
<1>3. \A q \in Requests \ {r} : req'[q] = req[q]
  BY DEF AccountsTypeOK
<1>4. ReqOk(r)'
  BY <1>2, ReqShape, LimitAssumption
  DEF AccountsTypeOK, Times, ReqOk, Issuing, PendingOf, NoRequest
<1>5. Issuing(r)' => \A q \in Requests \ {r} :
                      Issuing(q) => req[q].email # req'[r].email
  BY ReqShape DEF AccountsTypeOK, OneIssuer, Issuing, NoRequest
<1>6. QED
  BY <1>1, <1>2, <1>3, <1>4, <1>5, QuietStep

LEMMA InsertUserStep ==
  ASSUME AccountsInv, NEW r \in Requests, InsertUser(r)
  PROVE  AccountsInv' /\ UNCHANGED <<tickets, logins, technicians>>
<1> USE DEF AccountsInv, InsertUser, ReqAt, ReqEnds, EmailHeld
<1>1. AccountsTypeOK'
  <2>1. [req[r] EXCEPT !.step = "user"] \in Request
    BY ReqShape DEF Request
  <2>2. QED
    BY <2>1 DEF AccountsTypeOK
<1>2. UNCHANGED <<tickets, logins, technicians>> /\ clock <= clock'
  BY LimitAssumption DEF AccountsTypeOK, Times
<1>3. \A q \in Requests \ {r} : req'[q] = req[q]
  BY DEF AccountsTypeOK
<1>4. ReqOk(r)'
  BY <1>2, ReqShape, LimitAssumption
  DEF AccountsTypeOK, Times, ReqOk, Issuing, PendingOf, NoRequest
<1>5. Issuing(r)' => \A q \in Requests \ {r} :
                      Issuing(q) => req[q].email # req'[r].email
  BY ReqShape DEF AccountsTypeOK, OneIssuer, Issuing, NoRequest
<1>6. QED
  BY <1>1, <1>2, <1>3, <1>4, <1>5, QuietStep

LEMMA CloseTicketsStep ==
  ASSUME AccountsInv, NEW r \in Requests, CloseTickets(r)
  PROVE  AccountsInv' /\ UNCHANGED <<tickets, logins, technicians>>
<1> USE DEF AccountsInv, CloseTickets, ReqAt, ToClose
<1>1. AccountsTypeOK'
  <2>1. PendingOf(req[r].email) \subseteq Nat
    BY TicketsTyped DEF PendingOf
  <2>2. [req[r] EXCEPT !.step = "closed", !.closing = PendingOf(req[r].email)] \in Request
    BY <2>1, ReqShape DEF Request
  <2>3. QED
    BY <2>2 DEF AccountsTypeOK
<1>2. UNCHANGED <<tickets, logins, technicians>> /\ clock <= clock'
  BY LimitAssumption DEF AccountsTypeOK, Times
<1>3. \A q \in Requests \ {r} : req'[q] = req[q]
  BY DEF AccountsTypeOK
<1>4. ReqOk(r)'
  BY <1>2, ReqShape, LimitAssumption
  DEF AccountsTypeOK, Times, ReqOk, Issuing, PendingOf, NoRequest
<1>5. Issuing(r)' => \A q \in Requests \ {r} :
                      Issuing(q) => req[q].email # req'[r].email
  BY ReqShape DEF AccountsTypeOK, OneIssuer, Issuing, NoRequest
<1>6. QED
  BY <1>1, <1>2, <1>3, <1>4, <1>5, QuietStep

LEMMA AbortRequestStep ==
  ASSUME AccountsInv, NEW r \in Requests, AbortRequest(r)
  PROVE  AccountsInv' /\ UNCHANGED <<tickets, logins, technicians>>
<1> USE DEF AccountsInv, AbortRequest, ReqAt, ReqEnds
<1>1. AccountsTypeOK'
  BY DEF AccountsTypeOK
<1>2. UNCHANGED <<tickets, logins, technicians>> /\ clock <= clock'
  BY LimitAssumption DEF AccountsTypeOK, Times
<1>3. \A q \in Requests \ {r} : req'[q] = req[q]
  BY DEF AccountsTypeOK
<1>4. ReqOk(r)'
  BY <1>2, ReqShape, LimitAssumption
  DEF AccountsTypeOK, Times, ReqOk, Issuing, PendingOf, NoRequest
<1>5. Issuing(r)' => \A q \in Requests \ {r} :
                      Issuing(q) => req[q].email # req'[r].email
  BY ReqShape DEF AccountsTypeOK, OneIssuer, Issuing, NoRequest
<1>6. QED
  BY <1>1, <1>2, <1>3, <1>4, <1>5, QuietStep

LEMMA ExpireStep ==
  ASSUME AccountsInv, NEW k \in DOMAIN cookies, Expire(k)
  PROVE  AccountsInv' /\ UNCHANGED <<tickets, logins, technicians>>
<1> USE DEF AccountsInv, Expire
<1>1. cookies' \in Seq(Cookie)
  BY CookieMoves
<1>2. AccountsTypeOK'
  BY <1>1 DEF AccountsTypeOK
<1>3. QED
  BY <1>2 DEF ReqOk, Issuing, OneIssuer, FiledBefore, LeftBehindOnlyByRace, OneOpenTicket,
              PendingOf

LEMMA RestartServerStep ==
  ASSUME AccountsInv, RestartServer
  PROVE  AccountsInv' /\ UNCHANGED <<tickets, logins, technicians>>
<1> USE DEF AccountsInv, RestartServer
<1>1. AccountsTypeOK'
  BY DEF AccountsTypeOK
<1>2. \A r \in Requests : ReqOk(r)' /\ ~Issuing(r)'
  BY DEF ReqOk, Issuing, NoRequest
<1>3. QED
  BY <1>1, <1>2 DEF OneIssuer, FiledBefore, LeftBehindOnlyByRace, OneOpenTicket, PendingOf

-----------------------------------------------------------------------------
(* The steps that move tickets.                                            *)

(* INSERT of a ticket.                                                     *)
LEMMA InsertTicketStep ==
  ASSUME AccountsInv, NEW r \in Requests, InsertTicket(r)
  PROVE  AccountsInv' /\ Desk!File(req[r].email)
<1> USE DEF AccountsInv, InsertTicket, ReqEnds, ReqAt
<1> DEFINE e == req[r].email
           n == Len(tickets) + 1
           new == [email |-> e, status |-> "pending", began |-> req[r].began,
                   ended |-> clock, reopened |-> FALSE, afterLogin |-> LoginUnderWay(e)]
<1>1. e \in Emails /\ req[r].began \in Times /\ clock \in Nat /\ req[r].began \in Nat
  BY ReqShape, LimitAssumption DEF AccountsTypeOK, Times
<1>2. LoginUnderWay(e) \in BOOLEAN
  BY DEF LoginUnderWay
<1>3. new \in Ticket
  BY <1>1, <1>2 DEF Ticket, TicketStatuses, AccountsTypeOK
<1>4. tickets \in Seq(Ticket) /\ tickets' = Append(tickets, new)
  BY DEF AccountsTypeOK
<1> HIDE DEF new
<1>5. /\ tickets' \in Seq(Ticket) /\ Len(tickets) \in Nat
      /\ DOMAIN tickets = 1 .. Len(tickets) /\ DOMAIN tickets' = 1 .. n
      /\ tickets'[n] = new
      /\ \A t \in DOMAIN tickets : t # n /\ t \in DOMAIN tickets' /\ tickets'[t] = tickets[t]
      /\ \A t \in DOMAIN tickets' : t # n => t \in DOMAIN tickets
  BY <1>3, <1>4
<1>6. AccountsTypeOK'
  BY <1>5 DEF AccountsTypeOK
<1>7. req'[r] = NoRequest /\ \A q \in Requests \ {r} : req'[q] = req[q]
  BY DEF AccountsTypeOK
<1>8. \A d : PendingOf(d)' = PendingOf(d) \cup (IF d = e THEN {n} ELSE {})
  BY <1>5 DEF PendingOf, new
<1>9. \A q \in Requests : ReqOk(q)'
  <2>1. ReqOk(r)'
    BY <1>7 DEF ReqOk, Issuing, NoRequest
  <2>2. ASSUME NEW q \in Requests \ {r} PROVE ReqOk(q)'
    <3>1. req'[q] = req[q] /\ ReqOk(q) /\ UNCHANGED <<logins, clock>>
      BY <1>7
    <3>2. req[q].step = "closed" /\ req[q].email = e => new.afterLogin
      BY DEF new, LoginUnderWay
    <3>3. req[q].step = "insert" => req[q].began <= new.ended
      BY <3>1 DEF new, ReqOk
    <3>4. \A t \in PendingOf(req[q].email) : tickets'[t] = tickets[t]
      BY <1>5 DEF PendingOf
    <3>5. QED
      BY <1>5, <1>8, <3>1, <3>2, <3>3, <3>4 DEF ReqOk, Issuing
  <2>3. QED
    BY <2>1, <2>2
<1>10. OneIssuer'
  BY <1>7 DEF OneIssuer, Issuing, NoRequest
<1>11. FiledBefore'
  BY <1>1, <1>5 DEF FiledBefore, ReqOk, new
<1>12. LeftBehindOnlyByRace'
  BY <1>5 DEF LeftBehindOnlyByRace, new, LoginUnderWay
<1>13. OneOpenTicket'
  <2>1. \A t \in PendingOf(e) :
          \/ tickets[t].reopened
          \/ tickets[t].began <= new.ended /\ new.began <= tickets[t].ended
    BY <1>1 DEF ReqOk, FiledBefore, PendingOf, new
  <2>2. new.began <= new.ended
    BY DEF new, ReqOk
  <2>3. SUFFICES ASSUME NEW d \in Emails, NEW s \in PendingOf(d)', NEW t \in PendingOf(d)',
                        s # t, ~tickets'[s].reopened, ~tickets'[t].reopened
                 PROVE  /\ tickets'[s].began <= tickets'[t].ended
                        /\ tickets'[t].began <= tickets'[s].ended
    BY DEF OneOpenTicket
  <2>4. CASE s = n
    BY <1>5, <1>8, <2>1, <2>3, <2>4 DEF PendingOf
  <2>5. CASE t = n
    BY <1>5, <1>8, <2>1, <2>3, <2>5 DEF PendingOf
  <2>6. CASE s # n /\ t # n
    BY <1>5, <1>8, <2>3, <2>6 DEF OneOpenTicket, PendingOf
  <2>7. QED
    BY <2>4, <2>5, <2>6
<1>14. Desk!File(e)
  <2>1. [t \in DOMAIN tickets' |-> Shown(t)'] =
          Append([t \in DOMAIN tickets |-> Shown(t)], [email |-> e, status |-> "pending"])
    BY <1>5 DEF Shown, new
  <2>2. QED
    BY <2>1 DEF Desk!File, Shown
<1>15. QED
  BY <1>6, <1>9, <1>10, <1>11, <1>12, <1>13, <1>14

(* One UPDATE moves a ticket, unless the login that is to close it holds   *)
(* the row.                                                                *)
LEMMA ReviewStep ==
  ASSUME AccountsInv, NEW r \in Requests, NEW t \in DOMAIN tickets, NEW status \in TicketStatuses,
         Review(r, t, status)
  PROVE  AccountsInv' /\ Desk!Review(t, status)
<1> USE DEF AccountsInv, Review, ReqEnds, ReqAt
<1> DEFINE moved == [tickets[t] EXCEPT
                       !.status = status,
                       !.reopened = @ \/ status = "pending",
                       !.afterLogin = IF status = "pending" /\ tickets[t].status # "pending"
                                      THEN LoginUnderWay(tickets[t].email) ELSE @]
<1>1. tickets \in Seq(Ticket) /\ tickets[t] \in Ticket
  BY TicketsTyped DEF AccountsTypeOK
<1>2. moved \in Ticket
  BY <1>1 DEF Ticket, LoginUnderWay
<1>3. tickets' = [tickets EXCEPT ![t] = moved]
  OBVIOUS
<1>4. /\ moved.email = tickets[t].email /\ moved.status = status
      /\ moved.began = tickets[t].began /\ moved.ended = tickets[t].ended
      /\ moved.reopened = (tickets[t].reopened \/ status = "pending")
      /\ moved.afterLogin = IF status = "pending" /\ tickets[t].status # "pending"
                            THEN LoginUnderWay(tickets[t].email) ELSE tickets[t].afterLogin
  BY <1>1 DEF Ticket
<1> HIDE DEF moved
<1>5. /\ tickets' \in Seq(Ticket) /\ DOMAIN tickets' = DOMAIN tickets
      /\ tickets'[t] = moved
      /\ \A u \in DOMAIN tickets \ {t} : tickets'[u] = tickets[u]
  BY <1>1, <1>2, <1>3, TicketsTyped, ExceptSeq
<1>6. AccountsTypeOK'
  BY <1>5 DEF AccountsTypeOK
<1>7. req'[r] = NoRequest /\ \A q \in Requests \ {r} : req'[q] = req[q]
  BY DEF AccountsTypeOK
<1>8. \A q \in Requests : ReqOk(q)'
  <2>1. ReqOk(r)'
    BY <1>7 DEF ReqOk, Issuing, NoRequest
  <2>2. ASSUME NEW q \in Requests \ {r} PROVE ReqOk(q)'
    <3>1. req'[q] = req[q] /\ ReqOk(q) /\ UNCHANGED <<logins, clock>>
      BY <1>7
    <3>2. req[q].step = "closed" => t \notin req[q].closing
      BY DEF Locked
    <3>3. req[q].step = "insert" =>
            \A u \in PendingOf(req[q].email)' :
              tickets'[u].reopened \/ req[q].began <= tickets'[u].ended
      <4>1. ASSUME NEW u \in PendingOf(req[q].email)', ~tickets'[u].reopened
            PROVE  u \in PendingOf(req[q].email) /\ tickets'[u] = tickets[u]
        BY <1>4, <1>5, <3>1, <4>1 DEF PendingOf
      <4>2. QED
        BY <3>1, <4>1 DEF ReqOk
    <3>4. req[q].step = "closed" =>
            \A u \in PendingOf(req[q].email)' :
              u \in req[q].closing \/ tickets'[u].afterLogin
      BY <1>4, <1>5, <3>1 DEF ReqOk, PendingOf, LoginUnderWay
    <3>5. req[q].step = "closed" => req[q].closing \subseteq PendingOf(req[q].email)'
      BY <1>5, <3>1, <3>2 DEF ReqOk, PendingOf
    <3>6. QED
      BY <3>1, <3>3, <3>4, <3>5 DEF ReqOk, Issuing
  <2>3. QED
    BY <2>1, <2>2
<1>9. OneIssuer'
  BY <1>7 DEF OneIssuer, Issuing, NoRequest
<1>10. FiledBefore'
  BY <1>4, <1>5 DEF FiledBefore
<1>11. LeftBehindOnlyByRace'
  BY <1>4, <1>5 DEF LeftBehindOnlyByRace, LoginUnderWay
<1>12. OneOpenTicket'
  <2>1. ASSUME NEW d, NEW u \in PendingOf(d)', ~tickets'[u].reopened
        PROVE  u \in PendingOf(d) /\ tickets'[u] = tickets[u]
    BY <1>4, <1>5, <2>1 DEF PendingOf
  <2>2. QED
    BY <2>1 DEF OneOpenTicket
<1>13. Desk!Review(t, status)
  <2>1. [u \in DOMAIN tickets' |-> Shown(u)'] =
          [[u \in DOMAIN tickets |-> Shown(u)] EXCEPT ![t].status = status]
    BY <1>4, <1>5 DEF Shown
  <2>2. QED
    BY <2>1 DEF Desk!Review, Shown
<1>14. QED
  BY <1>6, <1>8, <1>9, <1>10, <1>11, <1>12, <1>13

(* COMMIT of a login with its technician and the tickets it closes.        *)
LEMMA CommitLoginStep ==
  ASSUME AccountsInv, NEW r \in Requests, CommitLogin(r)
  PROVE  /\ AccountsInv'
         /\ \E e \in Emails, id \in Times, closed \in SUBSET DOMAIN tickets :
              Desk!Issue(e, id, closed)
<1> USE DEF AccountsInv, CommitLogin, ReqEnds, ReqAt
<1>0. PICK e \in Emails, id \in Times, closing \in SUBSET Nat :
        e = req[r].email /\ id = req[r].began /\ closing = req[r].closing
  BY ReqShape
<1>2. logins[e] = "none" /\ closing \subseteq PendingOf(e) /\ closing \subseteq DOMAIN tickets
  BY <1>0 DEF ReqOk, Issuing, PendingOf
<1>3. /\ DOMAIN tickets' = DOMAIN tickets
      /\ \A t \in closing : tickets'[t] = [tickets[t] EXCEPT !.status = "provisioned"]
      /\ \A t \in DOMAIN tickets \ closing : tickets'[t] = tickets[t]
  BY <1>0, <1>2
<1>4. \A t \in closing : /\ tickets'[t].email = e /\ tickets[t].email = e
                         /\ tickets'[t].status = "provisioned"
                         /\ tickets'[t].began = tickets[t].began
                         /\ tickets'[t] \in Ticket
  BY <1>2, <1>3, TicketsTyped DEF PendingOf, Ticket, TicketStatuses
<1>5. /\ logins' \in [Emails -> Roles \cup {"none"}]
      /\ logins'[e] = "technician"
      /\ \A d \in Emails \ {e} : logins'[d] = logins[d]
  BY <1>0 DEF AccountsTypeOK, Roles
<1>6. AccountsTypeOK'
  <2>1. tickets' \in Seq(Ticket)
    <3>1. \A t \in DOMAIN tickets : tickets'[t] \in Ticket
      BY <1>3, <1>4, TicketsTyped
    <3>2. tickets' \in [1 .. Len(tickets) -> Ticket]
      BY <3>1, <1>3, TicketsTyped
    <3>3. QED
      BY <3>2, TicketsTyped
  <2>2. technicians' \subseteq TechnicianRow
    BY <1>0 DEF AccountsTypeOK, TechnicianRow
  <2>3. QED
    BY <1>5, <2>1, <2>2 DEF AccountsTypeOK
<1>7. req'[r] = NoRequest /\ \A q \in Requests \ {r} : req'[q] = req[q]
  BY DEF AccountsTypeOK
<1>8. /\ \A d : PendingOf(d)' \subseteq PendingOf(d)
      /\ \A d : d # e => PendingOf(d)' = PendingOf(d)
      /\ \A d : \A t \in PendingOf(d)' : tickets'[t] = tickets[t]
      /\ PendingOf(e)' = PendingOf(e) \ closing
  <2>1. \A t \in closing : tickets'[t].status # "pending" /\ tickets[t].email = e
    BY <1>4
  <2>2. ASSUME NEW d, NEW t \in PendingOf(d)'
        PROVE  t \notin closing /\ tickets'[t] = tickets[t] /\ t \in PendingOf(d)
    BY <1>3, <2>1 DEF PendingOf
  <2>3. ASSUME NEW d, NEW t \in PendingOf(d), t \notin closing
        PROVE  t \in PendingOf(d)'
    BY <1>3, <2>3 DEF PendingOf
  <2>4. \A d : d # e => \A t \in PendingOf(d) : t \notin closing
    BY <2>1 DEF PendingOf
  <2>5. \A d : PendingOf(d)' \subseteq PendingOf(d)
    BY <2>2
  <2>6. \A d : d # e => PendingOf(d) \subseteq PendingOf(d)'
    BY <2>3, <2>4
  <2>7. PendingOf(e)' = PendingOf(e) \ closing
    BY <2>2, <2>3
  <2>8. QED
    BY <2>2, <2>5, <2>6, <2>7
<1>9. \A q \in Requests : ReqOk(q)'
  <2>1. ReqOk(r)'
    BY <1>7 DEF ReqOk, Issuing, NoRequest
  <2>2. ASSUME NEW q \in Requests \ {r} PROVE ReqOk(q)'
    <3>1. req'[q] = req[q] /\ ReqOk(q) /\ clock' = clock
      BY <1>7
    <3>2. Issuing(q) => req[q].email # e /\ req[q].email \in Emails
      BY <1>0, ReqShape DEF OneIssuer, Issuing
    <3>3. req[q].step = "insert" =>
            \A t \in PendingOf(req[q].email)' :
              tickets'[t].reopened \/ req[q].began <= tickets'[t].ended
      BY <1>8, <3>1 DEF ReqOk
    <3>4. req[q].step = "closed" =>
            /\ req[q].closing \subseteq PendingOf(req[q].email)'
            /\ \A t \in PendingOf(req[q].email)' :
                 t \in req[q].closing \/ tickets'[t].afterLogin
      <4>1. SUFFICES ASSUME req[q].step = "closed"
                     PROVE  /\ req[q].closing \subseteq PendingOf(req[q].email)'
                            /\ \A t \in PendingOf(req[q].email)' :
                                 t \in req[q].closing \/ tickets'[t].afterLogin
        OBVIOUS
      <4>2. PendingOf(req[q].email)' = PendingOf(req[q].email)
        BY <1>8, <3>1, <3>2, <4>1 DEF Issuing
      <4>3. QED
        BY <1>8, <3>1, <4>1, <4>2 DEF ReqOk
    <3>5. Issuing(q) => logins'[req[q].email] = "none"
      BY <1>5, <3>1, <3>2 DEF ReqOk
    <3>6. QED
      BY <3>1, <3>3, <3>4, <3>5 DEF ReqOk, Issuing
  <2>3. QED
    BY <2>1, <2>2
<1>10. OneIssuer'
  BY <1>7 DEF OneIssuer, Issuing, NoRequest
<1>11. FiledBefore'
  BY <1>3, <1>4 DEF FiledBefore
<1>12. LeftBehindOnlyByRace'
  <2>1. \A t \in PendingOf(e)' : tickets'[t].afterLogin
    BY <1>0, <1>8 DEF ReqOk
  <2>2. ASSUME NEW t \in DOMAIN tickets', tickets'[t].status = "pending",
               logins'[tickets'[t].email] # "none", tickets'[t].email # e
        PROVE  tickets'[t].afterLogin
    <3>1. t \in DOMAIN tickets \ closing /\ tickets'[t] = tickets[t]
      BY <1>3, <1>4, <2>2
    <3>2. tickets[t].email \in Emails
      BY <3>1, TicketsTyped DEF Ticket
    <3>3. QED
      BY <1>5, <2>2, <3>1, <3>2 DEF LeftBehindOnlyByRace
  <2>3. SUFFICES ASSUME NEW t \in DOMAIN tickets', tickets'[t].status = "pending",
                        logins'[tickets'[t].email] # "none"
                 PROVE  tickets'[t].afterLogin
    BY DEF LeftBehindOnlyByRace
  <2>4. CASE tickets'[t].email = e
    BY <2>1, <2>3, <2>4 DEF PendingOf
  <2>5. CASE tickets'[t].email # e
    BY <2>2, <2>3, <2>5
  <2>6. QED
    BY <2>4, <2>5
<1>13. OneOpenTicket'
  BY <1>8 DEF OneOpenTicket
<1>14. Desk!Issue(e, id, closing)
  <2>1. \A t \in closing : Shown(t) = [email |-> e, status |-> "pending"]
    BY <1>2 DEF Shown, PendingOf
  <2>2. [t \in DOMAIN tickets' |-> Shown(t)'] =
          [t \in DOMAIN tickets |->
             IF t \in closing THEN [Shown(t) EXCEPT !.status = "provisioned"] ELSE Shown(t)]
    BY <1>3, <1>4 DEF Shown
  <2>3. QED
    BY <1>0, <1>2, <2>1, <2>2 DEF Desk!Issue, Shown
<1>15. \E d \in Emails, i \in Times, closed \in SUBSET DOMAIN tickets :
         Desk!Issue(d, i, closed)
  <2> closing \in SUBSET DOMAIN tickets
    BY <1>2
  <2> HIDE DEF CommitLogin, ReqEnds, ReqAt, AccountsInv
  <2> WITNESS e \in Emails, id \in Times, closing \in SUBSET DOMAIN tickets
  <2> QED
    BY <1>14
<1>16. QED
  BY <1>6, <1>9, <1>10, <1>11, <1>12, <1>13, <1>15

-----------------------------------------------------------------------------
(* Every step of the requests is a step of the desk or leaves it alone.    *)
LEMMA AccountsStep ==
  ASSUME AccountsInv, [AccountsNext]_accountVars
  PROVE  AccountsInv' /\ [Desk!Next]_(Desk!desk)
<1>1. CASE UNCHANGED accountVars
  BY <1>1 DEF accountVars, AccountsInv, AccountsTypeOK, ReqOk, Issuing, OneIssuer, FiledBefore,
              LeftBehindOnlyByRace, OneOpenTicket, PendingOf, Desk!desk
<1>2. CASE \E r \in Requests : InsertTicket(r)
  <2>1. PICK r \in Requests : InsertTicket(r)
    BY <1>2
  <2>2. req[r].email \in Emails
    BY <2>1, ReqShape DEF AccountsInv, InsertTicket
  <2>3. AccountsInv' /\ Desk!File(req[r].email)
    BY <2>1, InsertTicketStep
  <2>4. \E e \in Emails : Desk!File(e)
    BY <2>2, <2>3 DEF Desk!File
  <2>5. QED
    BY <2>3, <2>4 DEF Desk!Next
<1>3. CASE \E r \in Requests, t \in DOMAIN tickets, status \in TicketStatuses :
             Review(r, t, status)
  <2>1. PICK r \in Requests, t \in DOMAIN tickets, status \in TicketStatuses :
               Review(r, t, status)
    BY <1>3
  <2>2. Desk!Next
    BY <2>1, ReviewStep DEF Desk!Next, Desk!Statuses, TicketStatuses
  <2>3. QED
    BY <2>1, <2>2, ReviewStep
<1>4. CASE \E r \in Requests : CommitLogin(r)
  BY <1>4, CommitLoginStep DEF Desk!Next
<1>5. AccountsInv' /\ UNCHANGED <<tickets, logins, technicians>> => AccountsInv' /\ UNCHANGED Desk!desk
  BY DEF Desk!desk
<1>6. CASE \/ \E r \in Requests, e \in Emails : FileTicket(r, e) \/ Authenticate(r, e)
           \/ \E r \in Requests, k \in DOMAIN cookies : Logout(r, k)
           \/ \E r \in Requests, k \in DOMAIN cookies, route \in {"issue", "review", "bay"} :
                Arrive(r, k, route)
           \/ \E k \in DOMAIN cookies : Expire(k)
           \/ \E r \in Requests :
                \/ LookupTicket(r) \/ CreateSession(r) \/ Authorize(r) \/ ServeBay(r)
                \/ InsertUser(r) \/ CloseTickets(r) \/ AbortRequest(r)
           \/ \E r \in Requests, e \in Emails : InsertTechnician(r, e)
           \/ RestartServer
  BY <1>5, <1>6, FileTicketStep, AuthenticateStep, LogoutStep, ArriveStep, ExpireStep,
     LookupTicketStep, CreateSessionStep, AuthorizeStep, ServeBayStep, InsertUserStep,
     CloseTicketsStep, AbortRequestStep, InsertTechnicianStep, RestartServerStep
<1>7. QED
  BY <1>1, <1>2, <1>3, <1>4, <1>6 DEF AccountsNext

(* AccountsInv is inductive.                                                      *)
THEOREM AccountsInvariant == AccountsSpec => []AccountsInv
<1>1. AccountsInit => AccountsInv
  BY AccountsStart
<1>2. AccountsInv /\ [AccountsNext]_accountVars => AccountsInv'
  BY AccountsStep
<1>3. QED
  BY <1>1, <1>2, PTL DEF AccountsSpec

(* Two open tickets of one address: only from overlapping requests, or     *)
(* after one was reopened (ledger.CreateAccessRequest).                    *)
THEOREM TicketsAreOne == AccountsSpec => []OneOpenTicket
<1>1. AccountsInv => OneOpenTicket
  BY DEF AccountsInv
<1>2. QED
  BY <1>1, AccountsInvariant, PTL

(* An open ticket beside a login was filed or reopened after the login's   *)
(* UPDATE of the tickets (ledger.CreateTechnician).                        *)
THEOREM LoginsCloseTickets == AccountsSpec => []LeftBehindOnlyByRace
<1>1. AccountsInv => LeftBehindOnlyByRace
  BY DEF AccountsInv
<1>2. QED
  BY <1>1, AccountsInvariant, PTL

(* The statements of the access desk keep what TicketDesk promises, for    *)
(* any addresses and requests (ledger.CreateTechnician and its             *)
(* transaction).                                                           *)
THEOREM AccountsImplementDesk == AccountsSpec => DeskKeepsPromise
<1>1. AccountsInit => Desk!Init
  BY DEF AccountsInit, Desk!Init
<1>2. AccountsInv /\ [AccountsNext]_accountVars => [Desk!Next]_(Desk!desk)
  BY AccountsStep
<1>3. QED
  BY <1>1, <1>2, AccountsInvariant, PTL DEF AccountsSpec, DeskKeepsPromise, Desk!Spec

-----------------------------------------------------------------------------
(* ServerStart: any processes, files, cards and launches.                  *)

(* Whoever is in a file's transaction is at that file.                     *)
InAFile(p) == proc[p].step \in {"run", "mark", "commit"} => proc[p].file <= Len(Files)

(* What a process has passed is marked, or it is a pgvector file that was  *)
(* skipped, which nobody does while an older build's column is there.      *)
PassedOrSkipped(p) ==
  \A i \in DOMAIN Files :
    i < proc[p].file \/ proc[p].step \notin MigrateSteps
      => \/ Files[i] \in markers
         \/ Files[i] \in NeedsVector /\ column # "vector(1536)"

(* A server's own part of the start: the cards it is done with are there,  *)
(* and past EnsureSuperAdmin so is a super admin.                          *)
Seeds(p) ==
  /\ Cards \ proc[p].todo \subseteq cards
  /\ proc[p].config.program = "server" =>
       /\ proc[p].step \in {"insert_admin", "wire", "ready"} => proc[p].todo = {}
       /\ proc[p].step \in {"wire", "ready"} => admins # {}

FlagIsTrue(p) ==
  proc[p].hasChunkEmbeddings =>
    column = "vector(384)" /\ proc[p].step \notin MigrateSteps \cup {"probe"}

ProcOk(p) ==
  proc[p] # Down => InAFile(p) /\ PassedOrSkipped(p) /\ Seeds(p) /\ FlagIsTrue(p)

(* The marker's row lock: one transaction has inserted the marker of a     *)
(* file, and no other has committed it.                                    *)
MarkerLocked ==
  /\ \A p, q \in Procs :
       proc[p].step = "commit" /\ proc[q].step = "commit" /\ File(p) = File(q) => p = q
  /\ \A p \in Procs : proc[p].step = "commit" => File(p) \notin markers

OldColumn == column = "vector(1536)" => pgvector /\ Resize \notin markers

StartInv ==
  /\ StartTypeOK /\ AppliedOnce /\ MarkerLocked /\ OldColumn
  /\ \A p \in Procs : ProcOk(p)

(* The database only gains, and no column goes back to the old size.       *)
Gains ==
  /\ markers \subseteq markers' /\ cards \subseteq cards'
  /\ admins # {} => admins' # {}
  /\ column' = "vector(1536)" => column = "vector(1536)"
  /\ column = "vector(384)" => column' = "vector(384)"

-----------------------------------------------------------------------------
LEMMA OneResize ==
  /\ Len(Files) \in Nat \ {0} /\ DOMAIN Files = 1 .. Len(Files)
  /\ \A i \in DOMAIN Files : Files[i] \in FileNames
  /\ \E i \in DOMAIN Files : Files[i] = Vector
  /\ \E i \in DOMAIN Files : Files[i] = Resize
BY FilesAssumption DEF FileNames

LEMMA RunningTyped ==
  ASSUME StartTypeOK, NEW p \in Procs
  PROVE  /\ proc[p] # Down => proc[p] \in Proc
         /\ proc[p].step # "down" => proc[p] # Down
BY DEF StartTypeOK, Down

LEMMA OthersOk ==
  ASSUME Gains, NEW q \in Procs, ProcOk(q), proc'[q] = proc[q]
  PROVE  ProcOk(q)'
BY DEF Gains, ProcOk, InAFile, PassedOrSkipped, Seeds, FlagIsTrue

(* The steps of a process.                                                 *)
LEMMA Moves ==
  ASSUME StartTypeOK, NEW p \in Procs, proc[p] \in Proc,
         NEW step \in MigrateSteps \cup {"probe", "seed", "admin", "insert_admin", "wire", "ready"},
         At(p, step)
  PROVE  /\ proc' \in [Procs -> Proc \cup {Down}]
         /\ \A q \in Procs \ {p} : proc'[q] = proc[q]
         /\ proc'[p] \in Proc /\ proc'[p] # Down
         /\ proc'[p].step = step /\ proc'[p].config = proc[p].config
         /\ proc'[p].file = proc[p].file /\ proc'[p].todo = proc[p].todo
         /\ proc'[p].hasChunkEmbeddings = proc[p].hasChunkEmbeddings
BY DEF StartTypeOK, At, Proc, Down, MigrateSteps

LEMMA MovesOn ==
  ASSUME StartTypeOK, NEW p \in Procs, proc[p] \in Proc, proc[p].file <= Len(Files), NextFile(p)
  PROVE  /\ proc' \in [Procs -> Proc \cup {Down}]
         /\ \A q \in Procs \ {p} : proc'[q] = proc[q]
         /\ proc'[p] \in Proc /\ proc'[p] # Down
         /\ proc'[p].step = "select" /\ proc'[p].config = proc[p].config
         /\ proc'[p].file = proc[p].file + 1 /\ proc'[p].todo = proc[p].todo
         /\ proc'[p].hasChunkEmbeddings = proc[p].hasChunkEmbeddings
<1>1. proc \in [Procs -> Proc \cup {Down}]
  BY DEF StartTypeOK
<1>2. proc'[p] = [proc[p] EXCEPT !.file = @ + 1, !.step = "select"]
  BY <1>1 DEF NextFile
<1>3. proc[p].file + 1 \in 1 .. Len(Files) + 1
  BY OneResize DEF Proc
<1>4. /\ proc'[p] \in Proc
      /\ proc'[p].step = "select" /\ proc'[p].config = proc[p].config
      /\ proc'[p].file = proc[p].file + 1 /\ proc'[p].todo = proc[p].todo
      /\ proc'[p].hasChunkEmbeddings = proc[p].hasChunkEmbeddings
  BY <1>2, <1>3 DEF Proc, MigrateSteps
<1>5. proc'[p] # Down
  BY <1>4 DEF Down
<1>6. /\ proc' \in [Procs -> Proc \cup {Down}]
      /\ \A q \in Procs \ {p} : proc'[q] = proc[q]
  BY <1>1, <1>4 DEF NextFile
<1>7. QED
  BY <1>4, <1>5, <1>6

LEMMA ProcExits ==
  ASSUME StartTypeOK, NEW p \in Procs, Exits(p)
  PROVE  /\ proc' \in [Procs -> Proc \cup {Down}]
         /\ \A q \in Procs \ {p} : proc'[q] = proc[q]
         /\ proc'[p] = Down
<1>1. proc \in [Procs -> Proc \cup {Down}]
  BY DEF StartTypeOK
<1>2. proc' = [proc EXCEPT ![p] = Down]
  BY DEF Exits
<1>3. QED
  BY <1>1, <1>2

LEMMA StartsWell == StartInit => StartInv
<1> SUFFICES ASSUME StartInit PROVE StartInv
  OBVIOUS
<1> USE OneResize, FilesAssumption, MaxStartsAssumption DEF StartInit
<1>1. markers \subseteq FileNames /\ (column = "vector(1536)" => Resize \notin markers)
  <2>1. CASE markers = {} /\ column = "none"
    BY <2>1
  <2>2. CASE markers = {Files[i] : i \in 1 .. CHOOSE i \in DOMAIN Files : Files[i] = Vector}
    <3> DEFINE v == CHOOSE i \in DOMAIN Files : Files[i] = Vector
    <3>1. v \in DOMAIN Files /\ Files[v] = Vector
      OBVIOUS
    <3> HIDE DEF v
    <3>2. \A i \in 1 .. v : i \in DOMAIN Files /\ Files[i] # Resize
      BY <3>1
    <3>3. markers = {Files[i] : i \in 1 .. v}
      BY <2>2 DEF v
    <3>4. QED
      BY <3>2, <3>3
  <2>3. QED
    BY <2>1, <2>2
<1>2. StartTypeOK
  <2>1. applied \in [FileNames -> Nat]
    OBVIOUS
  <2>2. proc \in [Procs -> Proc \cup {Down}]
    OBVIOUS
  <2>3. pgvector \in BOOLEAN /\ column \in {"none", "vector(1536)"} /\ vectors \in BOOLEAN
    OBVIOUS
  <2>4. starts \in 0 .. MaxStarts
    OBVIOUS
  <2>5. cards \subseteq Cards /\ admins \subseteq Admins /\ meta = "none"
    OBVIOUS
  <2>6. QED
    BY <1>1, <2>1, <2>2, <2>3, <2>4, <2>5 DEF StartTypeOK
<1>3. AppliedOnce
  BY DEF AppliedOnce
<1>4. MarkerLocked /\ \A p \in Procs : ProcOk(p)
  BY DEF MarkerLocked, ProcOk, Down
<1>5. OldColumn
  BY <1>1 DEF OldColumn
<1>6. QED
  BY <1>2, <1>3, <1>4, <1>5 DEF StartInv

-----------------------------------------------------------------------------
(* What a step of p leaves to show, when the database keeps what it has:   *)
(* p's own part, and that its transaction is the only one.                 *)
LEMMA OneMoved ==
  ASSUME StartInv, NEW p \in Procs, Gains,
         \A q \in Procs \ {p} : proc'[q] = proc[q],
         ProcOk(p)'
  PROVE  \A q \in Procs : ProcOk(q)'
BY OthersOk DEF StartInv

LEMMA LockKept ==
  ASSUME StartInv, NEW p \in Procs, UNCHANGED markers,
         \A q \in Procs \ {p} : proc'[q] = proc[q],
         proc'[p].step # "commit"
  PROVE  MarkerLocked'
BY DEF StartInv, MarkerLocked, File

LEMMA Stays == ASSUME UNCHANGED database PROVE Gains
BY DEF database, Gains

LEMMA WalkKeeps ==
  ASSUME StartInv, NEW p \in Procs, UNCHANGED <<database, starts>>,
         proc' \in [Procs -> Proc \cup {Down}],
         \A q \in Procs \ {p} : proc'[q] = proc[q],
         proc'[p].step # "commit", ProcOk(p)'
  PROVE  StartInv'
<1>1. MarkerLocked' /\ \A q \in Procs : ProcOk(q)'
  BY LockKept, OneMoved, Stays DEF database
<1>2. QED
  BY <1>1 DEF StartInv, StartTypeOK, AppliedOnce, OldColumn, database

LEMMA StopKeeps ==
  ASSUME StartInv, NEW p \in Procs, UNCHANGED <<database, starts>>, Exits(p)
  PROVE  StartInv'
<1>1. /\ proc' \in [Procs -> Proc \cup {Down}]
      /\ \A q \in Procs \ {p} : proc'[q] = proc[q]
      /\ proc'[p] = Down
  BY ProcExits DEF StartInv
<1>2. QED
  BY <1>1, WalkKeeps DEF ProcOk, Down

LEMMA LaunchKeeps ==
  ASSUME StartInv, NEW p \in Procs, NEW config \in Launches, Launch(p, config)
  PROVE  StartInv'
<1> USE DEF database
<1> DEFINE first == [step |-> "select", config |-> config, file |-> 1, todo |-> Cards,
                     hasChunkEmbeddings |-> FALSE, llm |-> FALSE, embed |-> FALSE]
<1>1. UNCHANGED database /\ starts' \in 0 .. MaxStarts
  BY MaxStartsAssumption DEF Launch, StartInv, StartTypeOK
<1>2. first \in Proc
  BY OneResize DEF Proc, MigrateSteps
<1>3. /\ proc' \in [Procs -> Proc \cup {Down}]
      /\ \A q \in Procs \ {p} : proc'[q] = proc[q]
      /\ proc'[p] = first
  <2>1. proc \in [Procs -> Proc \cup {Down}] /\ proc' = [proc EXCEPT ![p] = first]
    BY DEF StartInv, StartTypeOK, Launch
  <2> HIDE DEF first
  <2>2. QED
    BY <2>1, <1>2
<1>4. MarkerLocked'
  BY <1>1, <1>3, LockKept
<1>5. ProcOk(p)'
  BY <1>3, OneResize DEF ProcOk, InAFile, PassedOrSkipped, Seeds, FlagIsTrue, MigrateSteps
<1>6. \A q \in Procs : ProcOk(q)'
  BY <1>1, <1>3, <1>5, OneMoved, Stays
<1>7. QED
  BY <1>1, <1>3, <1>4, <1>6 DEF StartInv, StartTypeOK, AppliedOnce, OldColumn

LEMMA SelectMarkerKeeps ==
  ASSUME StartInv, NEW p \in Procs, SelectMarker(p)
  PROVE  StartInv'
<1>1. UNCHANGED <<database, starts>> /\ proc[p].step = "select" /\ proc[p] \in Proc /\ ProcOk(p)
  BY RunningTyped DEF StartInv, SelectMarker
<1>2. CASE proc[p].file > Len(Files) /\ At(p, "probe")
  <2>1. /\ proc' \in [Procs -> Proc \cup {Down}]
        /\ \A q \in Procs \ {p} : proc'[q] = proc[q]
        /\ proc'[p] \in Proc /\ proc'[p] # Down
        /\ proc'[p].step = "probe" /\ proc'[p].config = proc[p].config
        /\ proc'[p].file = proc[p].file /\ proc'[p].todo = proc[p].todo
        /\ proc'[p].hasChunkEmbeddings = proc[p].hasChunkEmbeddings
    BY <1>1, <1>2, Moves DEF StartInv
  <2>2. PassedOrSkipped(p)'
    <3>1. \A i \in DOMAIN Files : i < proc[p].file
      BY <1>1, <1>2, OneResize DEF Proc
    <3>2. QED
      BY <3>1, <2>1, <1>1 DEF database, ProcOk, PassedOrSkipped, Down
  <2>3. ProcOk(p)'
    BY <1>1, <2>1, <2>2 DEF database, ProcOk, InAFile, Seeds, FlagIsTrue, Down, MigrateSteps
  <2>4. QED
    BY <1>1, <2>1, <2>3, WalkKeeps
<1>3. CASE proc[p].file <= Len(Files) /\ File(p) \in markers /\ NextFile(p)
  <2>1. /\ proc' \in [Procs -> Proc \cup {Down}]
        /\ \A q \in Procs \ {p} : proc'[q] = proc[q]
        /\ proc'[p] \in Proc /\ proc'[p] # Down
        /\ proc'[p].step = "select" /\ proc'[p].config = proc[p].config
        /\ proc'[p].file = proc[p].file + 1 /\ proc'[p].todo = proc[p].todo
        /\ proc'[p].hasChunkEmbeddings = proc[p].hasChunkEmbeddings
    BY <1>1, <1>3, MovesOn DEF StartInv
  <2>2. PassedOrSkipped(p)'
    <3>1. \A i \in DOMAIN Files : i < proc[p].file + 1 => i < proc[p].file \/ i = proc[p].file
      BY <1>1, OneResize DEF Proc
    <3>2. QED
      BY <3>1, <2>1, <1>1, <1>3 DEF database, ProcOk, PassedOrSkipped, Down, MigrateSteps, File
  <2>3. ProcOk(p)'
    BY <1>1, <2>1, <2>2 DEF database, ProcOk, InAFile, Seeds, FlagIsTrue, Down, MigrateSteps
  <2>4. QED
    BY <1>1, <2>1, <2>3, WalkKeeps
<1>4. CASE proc[p].file <= Len(Files) /\ At(p, "run")
  <2>1. /\ proc' \in [Procs -> Proc \cup {Down}]
        /\ \A q \in Procs \ {p} : proc'[q] = proc[q]
        /\ proc'[p] \in Proc /\ proc'[p] # Down
        /\ proc'[p].step = "run" /\ proc'[p].config = proc[p].config
        /\ proc'[p].file = proc[p].file /\ proc'[p].todo = proc[p].todo
        /\ proc'[p].hasChunkEmbeddings = proc[p].hasChunkEmbeddings
    BY <1>1, <1>4, Moves DEF StartInv, MigrateSteps
  <2>3. ProcOk(p)'
    BY <1>1, <1>4, <2>1
       DEF database, ProcOk, InAFile, PassedOrSkipped, Seeds, FlagIsTrue, Down, MigrateSteps
  <2>4. QED
    BY <1>1, <2>1, <2>3, WalkKeeps
<1>5. QED
  BY <1>1, <1>2, <1>3, <1>4, OneResize DEF SelectMarker, Proc

LEMMA RunFileKeeps ==
  ASSUME StartInv, NEW p \in Procs, RunFile(p)
  PROVE  StartInv'
<1>1. /\ UNCHANGED <<database, starts>> /\ proc[p].step = "run" /\ proc[p] \in Proc
      /\ ProcOk(p) /\ proc[p] # Down /\ proc[p].file <= Len(Files)
  BY RunningTyped DEF StartInv, RunFile, ProcOk, InAFile
<1>2. CASE File(p) \in NeedsVector /\ ~pgvector /\ NextFile(p)
  <2>1. /\ proc' \in [Procs -> Proc \cup {Down}]
        /\ \A q \in Procs \ {p} : proc'[q] = proc[q]
        /\ proc'[p] \in Proc /\ proc'[p] # Down
        /\ proc'[p].step = "select" /\ proc'[p].config = proc[p].config
        /\ proc'[p].file = proc[p].file + 1 /\ proc'[p].todo = proc[p].todo
        /\ proc'[p].hasChunkEmbeddings = proc[p].hasChunkEmbeddings
    BY <1>1, <1>2, MovesOn DEF StartInv
  <2>2. column # "vector(1536)" /\ column' = column /\ markers' = markers
    BY <1>1, <1>2 DEF StartInv, OldColumn, database
  <2>3. PassedOrSkipped(p)'
    <3>1. \A i \in DOMAIN Files : i < proc[p].file + 1 => i < proc[p].file \/ i = proc[p].file
      BY <1>1, OneResize DEF Proc
    <3>2. QED
      BY <3>1, <2>1, <2>2, <1>1, <1>2 DEF ProcOk, PassedOrSkipped, MigrateSteps, File
  <2>4. ProcOk(p)'
    BY <1>1, <2>1, <2>3 DEF ProcOk, InAFile, Seeds, FlagIsTrue, MigrateSteps, database
  <2>5. QED
    BY <1>1, <2>1, <2>4, WalkKeeps
<1>3. CASE Exits(p)
  BY <1>1, <1>3, StopKeeps
<1>4. CASE At(p, "mark")
  <2>1. /\ proc' \in [Procs -> Proc \cup {Down}]
        /\ \A q \in Procs \ {p} : proc'[q] = proc[q]
        /\ proc'[p] \in Proc /\ proc'[p] # Down
        /\ proc'[p].step = "mark" /\ proc'[p].config = proc[p].config
        /\ proc'[p].file = proc[p].file /\ proc'[p].todo = proc[p].todo
        /\ proc'[p].hasChunkEmbeddings = proc[p].hasChunkEmbeddings
    BY <1>1, <1>4, Moves DEF StartInv, MigrateSteps
  <2>2. ProcOk(p)'
    BY <1>1, <2>1
       DEF ProcOk, InAFile, PassedOrSkipped, Seeds, FlagIsTrue, MigrateSteps, database
  <2>3. QED
    BY <1>1, <2>1, <2>2, WalkKeeps
<1>5. QED
  BY <1>2, <1>3, <1>4 DEF RunFile

LEMMA InsertMarkerKeeps ==
  ASSUME StartInv, NEW p \in Procs, InsertMarker(p)
  PROVE  StartInv'
<1>1. /\ UNCHANGED <<database, starts>> /\ proc[p].step = "mark" /\ proc[p] \in Proc
      /\ ProcOk(p) /\ proc[p] # Down /\ proc[p].file <= Len(Files)
  BY RunningTyped DEF StartInv, InsertMarker, ProcOk, InAFile
<1>2. CASE Exits(p)
  BY <1>1, <1>2, StopKeeps
<1>3. CASE File(p) \notin markers /\ At(p, "commit")
  <2>1. /\ proc' \in [Procs -> Proc \cup {Down}]
        /\ \A q \in Procs \ {p} : proc'[q] = proc[q]
        /\ proc'[p] \in Proc /\ proc'[p] # Down
        /\ proc'[p].step = "commit" /\ proc'[p].config = proc[p].config
        /\ proc'[p].file = proc[p].file /\ proc'[p].todo = proc[p].todo
        /\ proc'[p].hasChunkEmbeddings = proc[p].hasChunkEmbeddings
    BY <1>1, <1>3, Moves DEF StartInv, MigrateSteps
  <2>2. ProcOk(p)'
    BY <1>1, <2>1
       DEF ProcOk, InAFile, PassedOrSkipped, Seeds, FlagIsTrue, MigrateSteps, database
  <2>3. \A q \in Procs \ {p} : proc[q].step = "commit" => File(q) # File(p)
    BY DEF InsertMarker, Held
  <2>4. MarkerLocked'
    BY <1>1, <1>3, <2>1, <2>3 DEF StartInv, MarkerLocked, File, database
  <2>5. \A q \in Procs : ProcOk(q)'
    BY <1>1, <2>1, <2>2, OneMoved, Stays
  <2>6. QED
    BY <1>1, <2>1, <2>4, <2>5 DEF StartInv, StartTypeOK, AppliedOnce, OldColumn, database
<1>4. QED
  BY <1>2, <1>3 DEF InsertMarker

(* Only a COMMIT changes the schema, and it adds its file and marker at once. *)
LEMMA CommitFileKeeps ==
  ASSUME StartInv, NEW p \in Procs, CommitFile(p)
  PROVE  StartInv'
<1>1. /\ proc[p].step = "commit" /\ proc[p] \in Proc /\ ProcOk(p) /\ proc[p] # Down
      /\ proc[p].file \in DOMAIN Files /\ proc[p].file <= Len(Files)
      /\ File(p) \in FileNames /\ File(p) \notin markers
  <2>1. /\ proc[p].step = "commit" /\ proc[p] \in Proc /\ ProcOk(p) /\ proc[p] # Down
        /\ File(p) \notin markers
    BY RunningTyped DEF StartInv, CommitFile, MarkerLocked
  <2>2. proc[p].file \in DOMAIN Files /\ proc[p].file <= Len(Files)
    BY <2>1, OneResize DEF ProcOk, InAFile, Proc
  <2>3. QED
    BY <2>1, <2>2, OneResize DEF File
<1>2. /\ proc' \in [Procs -> Proc \cup {Down}]
      /\ \A q \in Procs \ {p} : proc'[q] = proc[q]
      /\ proc'[p] \in Proc /\ proc'[p] # Down
      /\ proc'[p].step = "select" /\ proc'[p].config = proc[p].config
      /\ proc'[p].file = proc[p].file + 1 /\ proc'[p].todo = proc[p].todo
      /\ proc'[p].hasChunkEmbeddings = proc[p].hasChunkEmbeddings
  BY <1>1, MovesOn DEF StartInv, CommitFile
<1>3. /\ markers' = markers \cup {File(p)}
      /\ applied' = [applied EXCEPT ![File(p)] = @ + 1]
      /\ UNCHANGED <<pgvector, cards, admins, starts>>
  BY DEF CommitFile
<1>4. Vector # Resize /\ File(p) = Resize => column' = "vector(384)"
  BY DEF CommitFile, Takes, Resized
<1>5. Vector # Resize
  BY OneResize, FilesAssumption
<1>6. /\ column' \in {"none", "vector(384)", "vector(1536)"}
      /\ column' = "vector(1536)" => column = "vector(1536)" /\ File(p) # Resize
      /\ column = "vector(384)" => column' = "vector(384)"
  BY <1>4, <1>5 DEF CommitFile, Takes, Resized, StartInv, StartTypeOK
<1>7. /\ vectors' \in BOOLEAN /\ meta' \in {"none", "bge", "other"}
  BY DEF CommitFile, Takes, StartInv, StartTypeOK
<1>8. Gains
  BY <1>3, <1>6 DEF Gains
<1>9. StartTypeOK'
  BY <1>1, <1>2, <1>3, <1>6, <1>7 DEF StartInv, StartTypeOK
<1>10. AppliedOnce'
  <2>1. applied[File(p)] = 0
    BY <1>1 DEF StartInv, AppliedOnce
  <2>2. applied'[File(p)] = 1 /\ \A f \in FileNames \ {File(p)} : applied'[f] = applied[f]
    BY <1>1, <1>3, <2>1 DEF StartInv, StartTypeOK
  <2>3. QED
    BY <1>3, <2>2 DEF StartInv, AppliedOnce
<1>11. MarkerLocked'
  BY <1>1, <1>2, <1>3 DEF StartInv, MarkerLocked, File, CommitFile
<1>12. OldColumn'
  BY <1>3, <1>6 DEF StartInv, OldColumn
<1>13. ProcOk(p)'
  <2>1. PassedOrSkipped(p)'
    <3>1. \A i \in DOMAIN Files : i < proc[p].file + 1 => i < proc[p].file \/ i = proc[p].file
      BY <1>1, OneResize DEF Proc
    <3>2. QED
      BY <3>1, <1>1, <1>2, <1>3, <1>6 DEF ProcOk, PassedOrSkipped, MigrateSteps, File
  <2>2. QED
    BY <1>1, <1>2, <1>3, <2>1 DEF ProcOk, InAFile, Seeds, FlagIsTrue, MigrateSteps
<1>14. QED
  BY <1>2, <1>8, <1>9, <1>10, <1>11, <1>12, <1>13, OneMoved DEF StartInv

LEMMA ProbeKeeps ==
  ASSUME StartInv, NEW p \in Procs, Probe(p)
  PROVE  StartInv'
<1>1. /\ UNCHANGED <<database, starts>> /\ proc[p].step = "probe" /\ proc[p] \in Proc
      /\ ProcOk(p) /\ proc[p] # Down
  BY RunningTyped DEF StartInv, Probe
<1>2. PICK answered \in BOOLEAN :
        proc' = [proc EXCEPT
          ![p].hasChunkEmbeddings = answered /\ column # "none",
          ![p].step = IF proc[p].config.program = "server" THEN "seed" ELSE "wire"]
  BY DEF Probe
<1> DEFINE flag == answered /\ column # "none"
           next == IF proc[p].config.program = "server" THEN "seed" ELSE "wire"
<1>3. flag \in BOOLEAN /\ next \in {"seed", "wire"}
  OBVIOUS
<1>4. flag => column = "vector(384)"
  <2>1. PICK i \in DOMAIN Files : Files[i] = Resize
    BY OneResize
  <2>2. Resize \in markers \/ column # "vector(1536)"
    BY <1>1, <2>1 DEF ProcOk, PassedOrSkipped, MigrateSteps
  <2>3. QED
    BY <2>2 DEF StartInv, OldColumn, StartTypeOK
<1>5. next = "wire" => proc[p].config.program # "server"
  OBVIOUS
<1>6. proc \in [Procs -> Proc \cup {Down}]
  BY DEF StartInv, StartTypeOK
<1>7. proc' = [proc EXCEPT ![p].hasChunkEmbeddings = flag, ![p].step = next]
  BY <1>2
<1> HIDE DEF flag, next
<1>8. proc'[p] = [proc[p] EXCEPT !.hasChunkEmbeddings = flag, !.step = next]
  BY <1>6, <1>7
<1>9. /\ proc'[p] \in Proc /\ proc'[p].step = next /\ proc'[p].config = proc[p].config
      /\ proc'[p].file = proc[p].file /\ proc'[p].todo = proc[p].todo
      /\ proc'[p].hasChunkEmbeddings = flag
  BY <1>1, <1>3, <1>8 DEF Proc
<1>10. /\ proc' \in [Procs -> Proc \cup {Down}]
       /\ \A q \in Procs \ {p} : proc'[q] = proc[q]
  BY <1>6, <1>7, <1>9
<1>11. ProcOk(p)'
  BY <1>1, <1>3, <1>4, <1>5, <1>9
     DEF database, ProcOk, InAFile, PassedOrSkipped, Seeds, FlagIsTrue, MigrateSteps
<1>12. proc'[p].step # "commit"
  BY <1>3, <1>9
<1>13. QED
  BY <1>1, <1>10, <1>11, <1>12, WalkKeeps

LEMMA SeedCardKeeps ==
  ASSUME StartInv, NEW p \in Procs, NEW card \in Cards, SeedCard(p, card)
  PROVE  StartInv'
<1>1. /\ proc[p].step = "seed" /\ proc[p] \in Proc /\ ProcOk(p) /\ proc[p] # Down
      /\ cards' = cards \cup {card}
      /\ proc' = [proc EXCEPT ![p].todo = @ \ {card}]
      /\ UNCHANGED <<applied, markers, pgvector, column, vectors, meta, admins, starts>>
  BY RunningTyped DEF StartInv, SeedCard
<1>2. proc \in [Procs -> Proc \cup {Down}]
  BY DEF StartInv, StartTypeOK
<1>3. proc'[p] = [proc[p] EXCEPT !.todo = @ \ {card}]
  BY <1>1, <1>2
<1>4. /\ proc'[p] \in Proc /\ proc'[p].step = "seed" /\ proc'[p].config = proc[p].config
      /\ proc'[p].file = proc[p].file /\ proc'[p].todo = proc[p].todo \ {card}
      /\ proc'[p].hasChunkEmbeddings = proc[p].hasChunkEmbeddings
  BY <1>1, <1>3 DEF Proc
<1>5. /\ proc' \in [Procs -> Proc \cup {Down}]
      /\ \A q \in Procs \ {p} : proc'[q] = proc[q]
  BY <1>1, <1>2, <1>4
<1>6. ProcOk(p)'
  BY <1>1, <1>4 DEF ProcOk, InAFile, PassedOrSkipped, Seeds, FlagIsTrue, MigrateSteps
<1>7. \A q \in Procs : ProcOk(q)'
  BY <1>1, <1>5, <1>6, OneMoved DEF Gains
<1>8. MarkerLocked'
  BY <1>1, <1>4, <1>5, LockKept
<1>9. QED
  BY <1>1, <1>5, <1>7, <1>8 DEF StartInv, StartTypeOK, AppliedOnce, OldColumn

LEMMA SelectAdminKeeps ==
  ASSUME StartInv, NEW p \in Procs, SelectAdmin(p)
  PROVE  StartInv'
<1> DEFINE next == IF admins # {} THEN "wire" ELSE "insert_admin"
<1>1. /\ UNCHANGED <<database, starts>> /\ proc[p].step = "seed" /\ proc[p] \in Proc
      /\ ProcOk(p) /\ proc[p] # Down /\ proc[p].todo = {} /\ At(p, next)
  BY RunningTyped DEF StartInv, SelectAdmin
<1>2. /\ proc' \in [Procs -> Proc \cup {Down}]
      /\ \A q \in Procs \ {p} : proc'[q] = proc[q]
      /\ proc'[p] \in Proc /\ proc'[p] # Down
      /\ proc'[p].step = next /\ proc'[p].config = proc[p].config
      /\ proc'[p].file = proc[p].file /\ proc'[p].todo = proc[p].todo
      /\ proc'[p].hasChunkEmbeddings = proc[p].hasChunkEmbeddings
  BY <1>1, Moves DEF StartInv
<1>3. ProcOk(p)'
  BY <1>1, <1>2
     DEF database, ProcOk, InAFile, PassedOrSkipped, Seeds, FlagIsTrue, MigrateSteps
<1>4. QED
  BY <1>1, <1>2, <1>3, WalkKeeps

LEMMA InsertAdminKeeps ==
  ASSUME StartInv, NEW p \in Procs, InsertAdmin(p)
  PROVE  StartInv'
<1> DEFINE email == proc[p].config.admin
<1>1. /\ proc[p].step = "insert_admin" /\ proc[p] \in Proc /\ ProcOk(p) /\ proc[p] # Down
      /\ admins' = admins \cup {email}
      /\ UNCHANGED <<applied, markers, pgvector, column, vectors, meta, cards, starts>>
  BY RunningTyped DEF StartInv, InsertAdmin
<1>2. CASE email \in admins
  <2>1. UNCHANGED <<database, starts>> /\ Exits(p)
    BY <1>1, <1>2 DEF InsertAdmin, database
  <2>2. QED
    BY <2>1, StopKeeps
<1>3. CASE email \notin admins
  <2>1. /\ proc' \in [Procs -> Proc \cup {Down}]
        /\ \A q \in Procs \ {p} : proc'[q] = proc[q]
        /\ proc'[p] \in Proc /\ proc'[p] # Down
        /\ proc'[p].step = "wire" /\ proc'[p].config = proc[p].config
        /\ proc'[p].file = proc[p].file /\ proc'[p].todo = proc[p].todo
        /\ proc'[p].hasChunkEmbeddings = proc[p].hasChunkEmbeddings
    BY <1>1, <1>3, Moves DEF StartInv, InsertAdmin
  <2>2. admins' \subseteq Admins
    BY <1>1, LaunchesAssumption DEF Proc, Config, StartInv, StartTypeOK
  <2>3. ProcOk(p)'
    BY <1>1, <2>1 DEF ProcOk, InAFile, PassedOrSkipped, Seeds, FlagIsTrue, MigrateSteps
  <2>4. \A q \in Procs : ProcOk(q)'
    BY <1>1, <2>1, <2>3, OneMoved DEF Gains
  <2>5. MarkerLocked'
    BY <1>1, <2>1, LockKept
  <2>6. QED
    BY <1>1, <2>1, <2>2, <2>4, <2>5 DEF StartInv, StartTypeOK, AppliedOnce, OldColumn
<1>4. QED
  BY <1>2, <1>3

LEMMA WiredTyped ==
  ASSUME NEW r \in Proc, NEW llm \in BOOLEAN, NEW embed \in BOOLEAN,
         NEW w, w = [r EXCEPT !.llm = llm, !.embed = embed, !.step = "ready"]
  PROVE  /\ w \in Proc /\ w.step = "ready"
         /\ w.config = r.config /\ w.file = r.file /\ w.todo = r.todo
         /\ w.hasChunkEmbeddings = r.hasChunkEmbeddings
<1> DEFINE a == [r EXCEPT !.llm = llm]
           b == [a EXCEPT !.embed = embed]
<1>1. /\ a \in Proc /\ a.config = r.config /\ a.file = r.file /\ a.todo = r.todo
      /\ a.hasChunkEmbeddings = r.hasChunkEmbeddings
  BY DEF Proc
<1>2. w = [b EXCEPT !.step = "ready"]
  OBVIOUS
<1> HIDE DEF a
<1>3. /\ b \in Proc /\ b.config = a.config /\ b.file = a.file /\ b.todo = a.todo
      /\ b.hasChunkEmbeddings = a.hasChunkEmbeddings
  BY <1>1 DEF Proc
<1> HIDE DEF b
<1>4. QED
  BY <1>1, <1>2, <1>3 DEF Proc

LEMMA WireKeeps ==
  ASSUME StartInv, NEW p \in Procs, Wire(p)
  PROVE  StartInv'
<1> DEFINE c == proc[p].config
           llm == LLMReady(c)
           embed(answered) ==
             /\ EmbeddingReady(c)
             /\ c.program = "server" =>
                  LLMReady(c) /\ answered /\ meta \in {"none", "bge"}
<1>1. /\ UNCHANGED <<database, starts>> /\ proc[p].step = "wire" /\ proc[p] \in Proc
      /\ ProcOk(p) /\ proc[p] # Down
      /\ \E answered \in BOOLEAN :
           proc' = [proc EXCEPT ![p].llm = llm, ![p].embed = embed(answered), ![p].step = "ready"]
  BY RunningTyped DEF StartInv, Wire
<1>2. c \in Config
  BY <1>1, LaunchesAssumption DEF Proc
<1>3. llm \in BOOLEAN /\ \A answered \in BOOLEAN : embed(answered) \in BOOLEAN
  <2>1. EmbeddingReady(c) \in BOOLEAN
    BY <1>2 DEF EmbeddingReady, Config
  <2>2. llm \in BOOLEAN
    BY <1>2 DEF LLMReady, Config
  <2>3. QED
    BY <2>1, <2>2
<1>4. proc \in [Procs -> Proc \cup {Down}]
  BY DEF StartInv, StartTypeOK
<1> HIDE DEF c, llm, embed
<1>5. \E a, b \in BOOLEAN :
        proc' = [proc EXCEPT ![p].llm = a, ![p].embed = b, ![p].step = "ready"]
  BY <1>1, <1>3
<1>6. PICK a \in BOOLEAN, b \in BOOLEAN :
        proc' = [proc EXCEPT ![p].llm = a, ![p].embed = b, ![p].step = "ready"]
  BY <1>5
<1>7. proc'[p] = [proc[p] EXCEPT !.llm = a, !.embed = b, !.step = "ready"]
  BY <1>4, <1>6
<1>8. /\ proc'[p] \in Proc /\ proc'[p].step = "ready" /\ proc'[p].config = proc[p].config
      /\ proc'[p].file = proc[p].file /\ proc'[p].todo = proc[p].todo
      /\ proc'[p].hasChunkEmbeddings = proc[p].hasChunkEmbeddings
  <2>1. PICK r \in Proc : r = proc[p]
    BY <1>1
  <2>2. PICK w : w = proc'[p]
    OBVIOUS
  <2>3. w = [r EXCEPT !.llm = a, !.embed = b, !.step = "ready"]
    BY <1>7, <2>1, <2>2
  <2>4. /\ w \in Proc /\ w.step = "ready"
        /\ w.config = r.config /\ w.file = r.file /\ w.todo = r.todo
        /\ w.hasChunkEmbeddings = r.hasChunkEmbeddings
    BY <2>3, WiredTyped, Zenon
  <2>5. QED
    BY <2>1, <2>2, <2>4
<1>9. /\ proc' \in [Procs -> Proc \cup {Down}]
      /\ \A q \in Procs \ {p} : proc'[q] = proc[q]
  BY <1>4, <1>6, <1>8
<1>10. ProcOk(p)'
  BY <1>1, <1>8
     DEF database, ProcOk, InAFile, PassedOrSkipped, Seeds, FlagIsTrue, MigrateSteps
<1>11. QED
  BY <1>1, <1>9, <1>10, <1>8, WalkKeeps

(* Vectors and pgvector that come from outside leave what the starts rely on. *)
LEMMA OutsideKeeps ==
  ASSUME StartInv, UNCHANGED <<applied, markers, column, cards, admins, proc, starts>>,
         pgvector' \in BOOLEAN /\ vectors' \in BOOLEAN /\ meta' \in {"none", "bge", "other"},
         pgvector => pgvector'
  PROVE  StartInv'
BY DEF StartInv, StartTypeOK, AppliedOnce, MarkerLocked, File, OldColumn, ProcOk, InAFile,
       PassedOrSkipped, Seeds, FlagIsTrue

LEMMA StartStep ==
  ASSUME StartInv, [StartNext]_startVars
  PROVE  StartInv'
<1>1. CASE UNCHANGED startVars
  BY <1>1, OutsideKeeps DEF startVars, StartInv, StartTypeOK
<1>2. ASSUME NEW model \in {"bge", "other"}, Embed(model) PROVE StartInv'
  BY <1>2, OutsideKeeps DEF Embed, StartInv, StartTypeOK
<1>3. CASE InstallVector
  BY <1>3, OutsideKeeps DEF InstallVector, StartInv, StartTypeOK
<1>4. ASSUME NEW p \in Procs, Stop(p) PROVE StartInv'
  BY <1>4, StopKeeps DEF Stop
<1>5. CASE StartNext
  BY <1>5, <1>2, <1>3, <1>4, LaunchKeeps, SelectMarkerKeeps, RunFileKeeps, InsertMarkerKeeps,
     CommitFileKeeps, ProbeKeeps, SelectAdminKeeps, InsertAdminKeeps, WireKeeps, SeedCardKeeps
     DEF StartNext
<1>6. QED
  BY <1>1, <1>5

(* StartInv is inductive.                                                  *)
THEOREM StartInvariant == StartSpec => []StartInv
<1>1. StartInit => StartInv
  BY StartsWell
<1>2. StartInv /\ [StartNext]_startVars => StartInv'
  BY StartStep
<1>3. QED
  BY <1>1, <1>2, PTL DEF StartSpec

(* For any migration files and any number of processes that start at once  *)
(* or die between two statements, a migration takes effect once and its    *)
(* marker says so (ledger.Migrate).                                        *)
THEOREM MigrationsApplyOnce == StartSpec => []AppliedOnce
<1>1. StartInv => AppliedOnce
  BY DEF StartInv
<1>2. QED
  BY <1>1, StartInvariant, PTL

(* A ready process has every migration but what pgvector was missing for,  *)
(* a ready server the cards and a super admin, and its remembered vector   *)
(* column stays the one this build writes (main, Migrate, probe).          *)
THEOREM ReadyAfterMigrations == StartSpec => []ReadyMeansMigrated
<1>1. StartInv => ReadyMeansMigrated
  <2> SUFFICES ASSUME StartInv, NEW p \in Procs, proc[p].step = "ready"
               PROVE  /\ FileNames \ NeedsVector \subseteq markers
                      /\ proc[p].config.program = "server" => cards = Cards /\ admins # {}
                      /\ proc[p].hasChunkEmbeddings => column = "vector(384)"
    BY DEF ReadyMeansMigrated
  <2>1. ProcOk(p) /\ proc[p] # Down /\ cards \subseteq Cards
    BY DEF StartInv, StartTypeOK, Down
  <2>2. FileNames \ NeedsVector \subseteq markers
    BY <2>1 DEF ProcOk, PassedOrSkipped, MigrateSteps, FileNames
  <2>3. QED
    BY <2>1, <2>2 DEF ProcOk, Seeds, FlagIsTrue
<1>2. QED
  BY <1>1, StartInvariant, PTL

-----------------------------------------------------------------------------
(* ActionCatalog: any titles, folding, playbooks and handlers.             *)

Observing(o) == observer[o] # Quiet

(* A row's tokens are its title's, a title is kept once beside it, and its *)
(* request began and ended before now.                                     *)
RowOk(x) ==
  /\ actions[x].tokens = ActionTokens(actions[x].kind, actions[x].title)
  /\ IsFiniteSet(actions[x].variants)
  /\ actions[x].ended <= begun

(* Two observed playbooks did not begin at once.  Before an INSERT, every  *)
(* row that the step should have been counted in came in meanwhile, from   *)
(* another playbook.                                                       *)
ObserverOk(o) ==
  /\ observer[o].todo # <<>> /\ observer[o].began <= begun
  /\ \A p \in Observers \ {o} : Observing(p) => observer[p].began # observer[o].began
  /\ observer[o].step = "bump" => observer[o].hit \in DOMAIN actions
  /\ observer[o].step = "insert" =>
       \A x \in DOMAIN actions :
         ShouldMerge(StepOf(o).kind, actions[x].kind, TokensOf(o), actions[x].tokens)
           => /\ actions[x].began # observer[o].began
              /\ observer[o].began <= actions[x].ended

LinkedTo(g) == {x \in DOMAIN actions : <<g, x>> \in links}

(* A save that runs alone has linked what it no longer has to do.          *)
WriterOk(w) ==
  LET g == writer[w].guide IN
  /\ g \in DOMAIN guides
  /\ writer[w].alone =>
       /\ \A v \in Writers \ {w} : ~Writing(v, g)
       /\ guides[g].exists =>
            /\ writer[w].todo \subseteq guides[g].wanted
            /\ writer[w].step = "clear" => writer[w].todo = guides[g].wanted
            /\ writer[w].step = "link" => LinkedTo(g) = guides[g].wanted \ writer[w].todo

(* Nobody writes a card whose last save has been answered.                 *)
SettledOk(g) ==
  guides[g].exists /\ guides[g].settled =>
    LinkedTo(g) = guides[g].wanted /\ \A w \in Writers : ~Writing(w, g)

CatalogInv ==
  /\ CatalogTypeOK /\ OneRowPerMorph
  /\ \A x \in DOMAIN actions : RowOk(x)
  /\ \A o \in Observers : Observing(o) => ObserverOk(o)
  /\ \A w \in Writers : writer[w] # Quiet => WriterOk(w)
  /\ \A g \in DOMAIN guides : SettledOk(g)

-----------------------------------------------------------------------------
LEMMA TokensTyped ==
  ASSUME NEW kind \in ActionKinds, NEW title \in Titles
  PROVE  /\ ActionTokens(kind, title) \subseteq Tokens
         /\ IsFiniteSet(ActionTokens(kind, title))
         /\ ActionTokens(kind, title) # {}
<1> DEFINE words == TitleWords[title]
           folds == {Fold[w] : w \in words}
           folded == folds \ {Dropped}
           cleared == IF {"clear", "code"} \subseteq folded
                      THEN folded \cup {"cleardtc"} ELSE folded
           named == cleared \cap DOMAIN SkillOf
           marks == {SkillOf[s] : s \in named}
           all == cleared \cup marks
<1>1. words \subseteq Words /\ IsFiniteSet(words)
  BY TitlesAssumption
<1>2. IsFiniteSet(folds)
  <2> DEFINE f == [w \in words |-> Fold[w]]
  <2>1. f \in Surjection(words, folds)
    BY DEF Surjection
  <2>2. QED
    BY <1>1, <2>1, FS_Surjection
<1>3. IsFiniteSet(folded)
  BY <1>2, FS_Subset
<1>4. folded \subseteq Tokens
  BY <1>1 DEF Tokens
<1> HIDE DEF folded
<1>5. IsFiniteSet(cleared) /\ cleared \subseteq Tokens
  <2>1. IsFiniteSet(folded \cup {"cleardtc"})
    BY <1>3, FS_AddElement
  <2>2. folded \cup {"cleardtc"} \subseteq Tokens
    BY <1>4 DEF Tokens
  <2>3. CASE {"clear", "code"} \subseteq folded
    BY <2>1, <2>2, <2>3 DEF cleared
  <2>4. CASE ~({"clear", "code"} \subseteq folded)
    BY <1>3, <1>4, <2>4 DEF cleared
  <2>5. QED
    BY <2>3, <2>4
<1> HIDE DEF cleared
<1>6. IsFiniteSet(named)
  BY <1>5, FS_Subset
<1>7. \A s \in DOMAIN SkillOf : SkillOf[s] \in Tokens
  BY DEF Tokens, Skills
<1>8. IsFiniteSet(marks)
  <2> DEFINE f == [s \in named |-> SkillOf[s]]
  <2>1. f \in Surjection(named, marks)
    BY DEF Surjection
  <2>2. QED
    BY <1>6, <2>1, FS_Surjection
<1>9. marks \subseteq Tokens
  BY <1>7
<1> HIDE DEF marks
<1>10. IsFiniteSet(all) /\ all \subseteq Tokens
  BY <1>5, <1>8, <1>9, FS_Union
<1>11. ActionTokens(kind, title) = IF all = {} THEN {kind} ELSE all
  BY DEF ActionTokens, all, marks, named, cleared, folded, folds, words
<1> HIDE DEF all
<1>12. QED
  BY <1>10, <1>11, FS_Singleton DEF Tokens

(* The measure does not ask which row came first.                          *)
LEMMA MergeSymmetric ==
  ASSUME NEW k, NEW l, NEW a, NEW b, ShouldMerge(k, l, a, b)
  PROVE  ShouldMerge(l, k, b, a)
<1>1. a \cap b = b \cap a /\ a \cup b = b \cup a
  OBVIOUS
<1>2. Shared(b, a) = Shared(a, b) /\ Union(b, a) = Union(a, b)
  BY <1>1 DEF Shared, Union
<1>3. \A percent : JaccardReaches(a, b, percent) = JaccardReaches(b, a, percent)
  BY <1>2 DEF JaccardReaches
<1>4. OneMoreToken(a, b) => OneMoreToken(b, a)
  BY DEF OneMoreToken
<1>5. QED
  BY <1>1, <1>3, <1>4 DEF ShouldMerge

LEMMA Measured ==
  ASSUME NEW a, NEW b, IsFiniteSet(a), IsFiniteSet(b), b # {}
  PROVE  Shared(a, b) \in Nat /\ Union(a, b) \in Nat /\ Union(a, b) > 0
<1>1. IsFiniteSet(a \cap b) /\ IsFiniteSet(a \cup b) /\ a \cup b # {}
  BY FS_Subset, FS_Union
<1>2. QED
  BY <1>1, FS_CardinalityType, FS_EmptySet DEF Shared, Union

(* Fractions s/u: who is above y is above whoever y is above.              *)
LEMMA FractionsCompare ==
  ASSUME NEW sx \in Nat, NEW sy \in Nat, NEW sz \in Nat,
         NEW ux \in Nat \ {0}, NEW uy \in Nat \ {0}, NEW uz \in Nat \ {0},
         sz * uy > sy * uz, sy * ux > sx * uy
  PROVE  sz * ux > sx * uz
<1>1. (sz * uy) * ux > (sy * uz) * ux
  BY Z3
<1>2. (sy * ux) * uz > (sx * uy) * uz
  BY Z3
<1>3. (sz * ux) * uy > (sx * uz) * uy
  BY <1>1, <1>2, Z3
<1>4. QED
  BY <1>3, Z3

(* Where some row merges, the closest does (bestMerge).                    *)
LEMMA BestMergeFinds ==
  ASSUME NEW kind, NEW tokens, IsFiniteSet(tokens), tokens # {}, IsFiniteSet(DOMAIN actions),
         \A x \in DOMAIN actions : IsFiniteSet(actions[x].tokens),
         BestMerge(kind, tokens) = {}
  PROVE  \A x \in DOMAIN actions :
           ~ShouldMerge(kind, actions[x].kind, tokens, actions[x].tokens)
<1> DEFINE near == {x \in DOMAIN actions :
                      ShouldMerge(kind, actions[x].kind, tokens, actions[x].tokens)}
           Above(x) == {y \in near : Closer(y, x, tokens)}
           M == {Above(x) : x \in near}
<1> SUFFICES near = {}
  OBVIOUS
<1>1. \A x \in near : \E y \in near : Closer(y, x, tokens)
  BY DEF BestMerge
<1> SUFFICES ASSUME near # {} PROVE FALSE
  OBVIOUS
<1>2. IsFiniteSet(near)
  BY FS_Subset
<1>3. \A x \in DOMAIN actions :
        /\ Shared(actions[x].tokens, tokens) \in Nat
        /\ Union(actions[x].tokens, tokens) \in Nat \ {0}
  BY Measured
<1>4. \A x \in near : ~Closer(x, x, tokens)
  BY <1>3 DEF Closer
<1>5. \A x, y, z \in near :
        Closer(z, y, tokens) /\ Closer(y, x, tokens) => Closer(z, x, tokens)
  BY <1>3, FractionsCompare DEF Closer
<1> HIDE DEF near
<1>6. \A x \in near : Above(x) \in FiniteSubsetsOf(near)
  BY <1>2, FS_Subset DEF FiniteSubsetsOf
<1>7. PICK A \in M : \A B \in M : <<B, A>> \notin StrictSubsetOrdering(near)
  <2>1. M \subseteq FiniteSubsetsOf(near) /\ M # {}
    BY <1>6
  <2> HIDE DEF M
  <2>2. \E A \in M : \A B \in M : <<B, A>> \notin StrictSubsetOrdering(near)
    BY <2>1, FS_StrictSubsetOrderingWellFounded, WFMin
  <2>3. QED
    BY <2>2
<1>8. PICK x \in near : A = Above(x)
  BY <1>7
<1>9. PICK y \in near : Closer(y, x, tokens)
  BY <1>1
<1>10. Above(y) \subseteq Above(x) /\ y \in Above(x) /\ y \notin Above(y)
  BY <1>4, <1>5, <1>9
<1>11. <<Above(y), Above(x)>> \in StrictSubsetOrdering(near)
  BY <1>10 DEF StrictSubsetOrdering
<1>12. QED
  BY <1>7, <1>8, <1>11

-----------------------------------------------------------------------------
(* Each side of the catalog leaves the other's promises alone.             *)

ObserverSteps == {"select", "insert", "bump", "guides"}
ObservingRow ==
  [step : ObserverSteps, todo : Seq(Seed),
   hit : Nat, again : BOOLEAN, began : Begun]
WritingRow ==
  [step : {"clear", "link"}, guide : Nat, todo : SUBSET Nat, alone : BOOLEAN]

ObserversInv ==
  /\ actions \in Seq(ActionRow)
  /\ \A x \in DOMAIN actions : Cardinality(actions[x].variants) <= MaxVariants
  /\ observer \in [Observers -> {Quiet} \cup ObservingRow]
  /\ begun \in Begun
  /\ OneRowPerMorph
  /\ \A x \in DOMAIN actions : RowOk(x)
  /\ \A o \in Observers : Observing(o) => ObserverOk(o)

WritersInv ==
  /\ guides \in Seq(GuideRow)
  /\ links \subseteq (DOMAIN guides) \X (DOMAIN actions)
  /\ writer \in [Writers -> {Quiet} \cup WritingRow]
  /\ \A w \in Writers : writer[w] # Quiet => WriterOk(w)
  /\ \A g \in DOMAIN guides : SettledOk(g)

LEMMA BothSides == CatalogInv <=> ObserversInv /\ WritersInv
BY DEF CatalogInv, CatalogTypeOK, ObserversInv, WritersInv, ObservingRow, ObserverSteps,
       WritingRow

LEMMA WritersUntouched ==
  ASSUME WritersInv, UNCHANGED <<guides, links, writer>>,
         DOMAIN actions \subseteq DOMAIN actions'
  PROVE  WritersInv'
<1>1. \A g \in DOMAIN guides : LinkedTo(g)' = LinkedTo(g)
  BY DEF WritersInv, LinkedTo
<1>2. \A w \in Writers : writer[w] # Quiet => WriterOk(w)'
  BY <1>1 DEF WritersInv, WriterOk, Writing
<1>3. \A g \in DOMAIN guides : SettledOk(g)'
  BY <1>1 DEF WritersInv, SettledOk, Writing
<1>4. QED
  BY <1>2, <1>3 DEF WritersInv

LEMMA RowsTyped ==
  ASSUME ObserversInv
  PROVE  \A x \in DOMAIN actions :
           /\ actions[x] \in ActionRow /\ RowOk(x)
           /\ actions[x].began \in Nat /\ actions[x].ended \in Nat
<1>1. \A x \in DOMAIN actions : actions[x] \in ActionRow /\ RowOk(x)
  BY DEF ObserversInv
<1>2. QED
  BY <1>1 DEF ActionRow, Begun

LEMMA ObserversUntouched ==
  ASSUME ObserversInv, UNCHANGED <<actions, observer>>, begun' \in Begun, begun <= begun'
  PROVE  ObserversInv'
<1>1. \A x \in DOMAIN actions : RowOk(x)'
  BY RowsTyped DEF ObserversInv, RowOk, Begun
<1>2. \A o \in Observers : Observing(o) => ObserverOk(o)'
  BY DEF ObserversInv, ObserverOk, Observing, StepOf, TokensOf, Begun, ObservingRow, Quiet
<1>3. QED
  BY <1>1, <1>2 DEF ObserversInv, OneRowPerMorph, Observing

-----------------------------------------------------------------------------
LEMMA ObservingTyped ==
  ASSUME ObserversInv, NEW o \in Observers, observer[o].step # "none"
  PROVE  /\ Observing(o) /\ observer[o] \in ObservingRow /\ ObserverOk(o)
         /\ StepOf(o) \in Seed /\ TokensOf(o) \subseteq Tokens
         /\ IsFiniteSet(TokensOf(o)) /\ TokensOf(o) # {}
<1>1. Observing(o) /\ observer[o] \in ObservingRow /\ ObserverOk(o)
  BY DEF ObserversInv, Observing, Quiet
<1>2. StepOf(o) \in Seed
  BY <1>1 DEF StepOf, ObserverOk, ObservingRow
<1>3. QED
  BY <1>1, <1>2, TokensTyped DEF TokensOf, Seed

(* An observer's step that leaves the rows as they are.                    *)
LEMMA ObserverMoves ==
  ASSUME ObserversInv, NEW o \in Observers, UNCHANGED <<actions, begun>>,
         observer' \in [Observers -> {Quiet} \cup ObservingRow],
         \A p \in Observers \ {o} : observer'[p] = observer[p],
         Observing(o)' => Observing(o) /\ observer'[o].began = observer[o].began,
         Observing(o)' => ObserverOk(o)'
  PROVE  ObserversInv'
<1>1. \A p \in Observers : Observing(p)' => ObserverOk(p)'
  <2> SUFFICES ASSUME NEW p \in Observers \ {o}, Observing(p)' PROVE ObserverOk(p)'
    OBVIOUS
  <2>1. ObserverOk(p) /\ observer'[p] = observer[p]
    BY DEF ObserversInv, Observing
  <2>2. StepOf(p)' = StepOf(p) /\ TokensOf(p)' = TokensOf(p)
    BY <2>1 DEF StepOf, TokensOf
  <2>3. \A q \in Observers \ {p} : Observing(q)' => observer'[q].began # observer'[p].began
    BY <2>1 DEF ObserverOk, Observing
  <2>4. QED
    BY <2>1, <2>2, <2>3 DEF ObserverOk
<1>2. QED
  BY <1>1 DEF ObserversInv, OneRowPerMorph, RowOk

LEMMA ObserveStepsKeeps ==
  ASSUME ObserversInv, NEW o \in Observers, NEW seeds \in Playbooks, ObserveSteps(o, seeds)
  PROVE  ObserversInv'
<1> DEFINE first == [step |-> "select", todo |-> seeds, hit |-> 0, again |-> FALSE,
                     began |-> begun + 1]
<1>1. /\ begun < MaxBegun /\ begun' = begun + 1 /\ actions' = actions
      /\ observer' = [observer EXCEPT ![o] = first] /\ ~Observing(o)
  BY DEF ObserveSteps, Begins, Observing
<1>2. begun \in Nat /\ begun' \in Begun /\ begun + 1 \in Begun
  BY <1>1, CatalogBounds DEF ObserversInv, Begun
<1>3. first \in ObservingRow /\ first # Quiet /\ seeds # <<>>
  BY <1>2, PlaybooksAssumption DEF ObservingRow, ObserverSteps, Quiet
<1>4. first.began = begun + 1 /\ first.todo = seeds /\ first.step = "select"
  OBVIOUS
<1> HIDE DEF first
<1>5. /\ observer' \in [Observers -> {Quiet} \cup ObservingRow]
      /\ \A p \in Observers \ {o} : observer'[p] = observer[p]
      /\ observer'[o] = first
  BY <1>1, <1>3 DEF ObserversInv
<1>6. \A p \in Observers \ {o} : Observing(p) =>
        ObserverOk(p) /\ observer[p].began \in Nat /\ observer[p].began <= begun
  BY DEF ObserversInv, ObserverOk, Observing, ObservingRow, Quiet, Begun
<1>7. \A p \in Observers : Observing(p)' => ObserverOk(p)'
  <2>1. ObserverOk(o)'
    BY <1>1, <1>2, <1>3, <1>4, <1>5, <1>6 DEF ObserverOk, Observing
  <2>2. ASSUME NEW p \in Observers \ {o}, Observing(p)' PROVE ObserverOk(p)'
    <3>1. Observing(p) /\ StepOf(p)' = StepOf(p) /\ TokensOf(p)' = TokensOf(p)
      BY <1>5, <2>2 DEF Observing, StepOf, TokensOf
    <3>2. ObserverOk(p) /\ observer[p].began <= begun' /\ observer[p].began # begun + 1
      BY <1>1, <1>2, <1>6, <3>1
    <3>3. QED
      BY <1>1, <1>4, <1>5, <3>1, <3>2 DEF ObserverOk, Observing
  <2>3. QED
    BY <2>1, <2>2
<1>8. \A x \in DOMAIN actions : RowOk(x)'
  BY <1>1, <1>2, RowsTyped DEF RowOk
<1>9. QED
  BY <1>1, <1>2, <1>5, <1>7, <1>8 DEF ObserversInv, OneRowPerMorph

LEMMA ActionsFinite ==
  ASSUME ObserversInv
  PROVE  /\ IsFiniteSet(DOMAIN actions)
         /\ \A x \in DOMAIN actions :
              /\ actions[x] \in ActionRow
              /\ IsFiniteSet(actions[x].tokens) /\ actions[x].tokens # {}
<1>1. Len(actions) \in Nat /\ DOMAIN actions = 1 .. Len(actions)
  BY DEF ObserversInv
<1>2. \A x \in DOMAIN actions :
        /\ actions[x] \in ActionRow
        /\ IsFiniteSet(actions[x].tokens) /\ actions[x].tokens # {}
  <2> SUFFICES ASSUME NEW x \in DOMAIN actions
               PROVE  /\ actions[x] \in ActionRow
                      /\ IsFiniteSet(actions[x].tokens) /\ actions[x].tokens # {}
    OBVIOUS
  <2>1. actions[x] \in ActionRow /\ RowOk(x)
    BY RowsTyped
  <2>2. actions[x].kind \in ActionKinds /\ actions[x].title \in Titles
    BY <2>1 DEF ActionRow
  <2>3. QED
    BY <2>1, <2>2, TokensTyped DEF RowOk
<1>3. IsFiniteSet(1 .. Len(actions))
  BY <1>1, FS_Interval
<1>4. QED
  BY <1>1, <1>2, <1>3

Moved(r, step, hit) == [r EXCEPT !.step = step, !.hit = hit]

LEMMA MovedTyped ==
  ASSUME NEW r \in ObservingRow, NEW step \in ObserverSteps,
         NEW hit \in Nat
  PROVE  /\ Moved(r, step, hit) \in ObservingRow
         /\ Moved(r, step, hit).step = step /\ Moved(r, step, hit).hit = hit
         /\ Moved(r, step, hit).todo = r.todo /\ Moved(r, step, hit).began = r.began
BY DEF ObservingRow, Moved

LEMMA SelectActionsKeeps ==
  ASSUME ObserversInv, NEW o \in Observers, SelectActions(o)
  PROVE  ObserversInv'
<1> DEFINE best == BestMerge(StepOf(o).kind, TokensOf(o))
<1>1. /\ Observing(o) /\ observer[o] \in ObservingRow /\ ObserverOk(o)
      /\ StepOf(o) \in Seed /\ IsFiniteSet(TokensOf(o)) /\ TokensOf(o) # {}
      /\ UNCHANGED <<actions, begun>>
  BY ObservingTyped DEF SelectActions
<1>2. observer \in [Observers -> {Quiet} \cup ObservingRow]
  BY DEF ObserversInv
<1>3. ASSUME NEW step \in ObserverSteps, NEW hit \in Nat,
             observer' = [observer EXCEPT ![o].step = step, ![o].hit = hit],
             step = "bump" => hit \in DOMAIN actions,
             step = "insert" => best = {}
      PROVE  ObserversInv'
  <2>1. observer'[o] = Moved(observer[o], step, hit)
    BY <1>2, <1>3 DEF Moved
  <2>2. /\ observer'[o] \in ObservingRow
        /\ observer'[o].step = step /\ observer'[o].hit = hit
        /\ observer'[o].todo = observer[o].todo /\ observer'[o].began = observer[o].began
    BY <1>1, <2>1, MovedTyped
  <2>3. /\ observer' \in [Observers -> {Quiet} \cup ObservingRow]
        /\ \A p \in Observers \ {o} : observer'[p] = observer[p]
    BY <1>2, <1>3, <2>2
  <2>4. StepOf(o)' = StepOf(o) /\ TokensOf(o)' = TokensOf(o)
    BY <2>2 DEF StepOf, TokensOf
  <2>5. step = "insert" =>
          \A x \in DOMAIN actions :
            ~ShouldMerge(StepOf(o).kind, actions[x].kind, TokensOf(o), actions[x].tokens)
    <3>1. /\ IsFiniteSet(DOMAIN actions) /\ IsFiniteSet(TokensOf(o)) /\ TokensOf(o) # {}
          /\ \A x \in DOMAIN actions : IsFiniteSet(actions[x].tokens)
      BY <1>1, ActionsFinite
    <3>2. CASE BestMerge(StepOf(o).kind, TokensOf(o)) = {}
      BY <3>1, <3>2, BestMergeFinds
    <3>3. QED
      BY <1>3, <3>2
  <2>6. ObserverOk(o)'
    BY <1>1, <1>3, <2>2, <2>3, <2>4, <2>5 DEF ObserverOk, Observing
  <2>7. QED
    BY <1>1, <2>2, <2>3, <2>6, ObserverMoves
<1>4. ASSUME NEW x \in best, observer' = [observer EXCEPT ![o].step = "bump", ![o].hit = x]
      PROVE  ObserversInv'
  <2>1. x \in DOMAIN actions /\ x \in Nat
    BY <1>4 DEF BestMerge, ObserversInv
  <2>2. QED
    BY <1>3, <1>4, <2>1 DEF ObserverSteps
<1>5. ASSUME best = {},
             observer' = [observer EXCEPT
               ![o].step = IF observer[o].again THEN "guides" ELSE "insert", ![o].hit = 0]
      PROVE  ObserversInv'
  <2> DEFINE step == IF observer[o].again THEN "guides" ELSE "insert"
  <2>1. step \in ObserverSteps /\ step # "bump"
    BY DEF ObserverSteps
  <2>2. observer' = [observer EXCEPT ![o].step = step, ![o].hit = 0]
    BY <1>5
  <2> HIDE DEF step
  <2>3. QED
    BY <1>3, <1>5, <2>1, <2>2
<1>6. QED
  BY <1>4, <1>5 DEF SelectActions

LEMMA AbortObserverKeeps ==
  ASSUME ObserversInv, NEW o \in Observers, AbortObserver(o)
  PROVE  ObserversInv'
<1>1. /\ UNCHANGED <<actions, begun>> /\ observer' \in [Observers -> {Quiet} \cup ObservingRow]
      /\ \A p \in Observers \ {o} : observer'[p] = observer[p]
      /\ ~Observing(o)'
  BY DEF AbortObserver, ObserversInv, Observing
<1>2. QED
  BY <1>1, ObserverMoves

LEMMA SelectGuidesKeeps ==
  ASSUME ObserversInv, NEW o \in Observers, SelectGuides(o)
  PROVE  ObserversInv'
<1>1. /\ Observing(o) /\ observer[o] \in ObservingRow /\ ObserverOk(o)
      /\ UNCHANGED <<actions, begun>>
      /\ observer \in [Observers -> {Quiet} \cup ObservingRow]
  BY ObservingTyped DEF SelectGuides, ObserversInv
<1>2. CASE observer' = [observer EXCEPT ![o] = Quiet]
  <2>1. /\ observer' \in [Observers -> {Quiet} \cup ObservingRow]
        /\ \A p \in Observers \ {o} : observer'[p] = observer[p]
        /\ ~Observing(o)'
    BY <1>1, <1>2 DEF Observing
  <2>2. QED
    BY <1>1, <2>1, ObserverMoves
<1>3. CASE /\ Len(observer[o].todo) # 1
           /\ observer' = [observer EXCEPT ![o] =
                [observer[o] EXCEPT !.step = "select", !.todo = Tail(@), !.again = FALSE]]
  <2> DEFINE todo == Tail(observer[o].todo)
             next == [observer[o] EXCEPT !.step = "select", !.todo = todo, !.again = FALSE]
  <2>1. todo \in Seq(Seed) /\ todo # <<>>
    <3>1. observer[o].todo \in Seq(Seed) /\ observer[o].todo # <<>>
      BY <1>1 DEF ObserverOk, ObservingRow
    <3>2. Len(observer[o].todo) \in Nat /\ Len(observer[o].todo) # 0
      BY <3>1, EmptySeq
    <3>3. Len(todo) = Len(observer[o].todo) - 1 /\ todo \in Seq(Seed)
      BY <3>1, HeadTailProperties
    <3>4. Len(todo) # 0
      BY <1>3, <3>2, <3>3
    <3>5. QED
      BY <3>3, <3>4, EmptySeq
  <2> HIDE DEF todo
  <2>2. /\ next \in ObservingRow /\ next.todo = todo /\ next.step = "select"
        /\ next.began = observer[o].began
    BY <1>1, <2>1 DEF ObservingRow, ObserverSteps
  <2>3. observer' = [observer EXCEPT ![o] = next]
    BY <1>3 DEF todo
  <2> HIDE DEF next
  <2>4. /\ observer' \in [Observers -> {Quiet} \cup ObservingRow]
        /\ \A p \in Observers \ {o} : observer'[p] = observer[p]
        /\ observer'[o] = next
    BY <1>1, <2>2, <2>3
  <2>5. ObserverOk(o)'
    BY <1>1, <2>1, <2>2, <2>4 DEF ObserverOk, Observing
  <2>6. QED
    BY <1>1, <2>2, <2>4, <2>5, ObserverMoves
<1>4. QED
  BY <1>2, <1>3 DEF SelectGuides

Again(r) == [r EXCEPT !.step = "select", !.again = TRUE]

LEMMA AgainTyped ==
  ASSUME NEW r \in ObservingRow
  PROVE  /\ Again(r) \in ObservingRow /\ Again(r).step = "select"
         /\ Again(r).todo = r.todo /\ Again(r).began = r.began
BY DEF ObservingRow, ObserverSteps, Again

(* What an INSERT adds: a row of the observer's own request.               *)
LEMMA InsertActionKeeps ==
  ASSUME ObserversInv, NEW o \in Observers, InsertAction(o)
  PROVE  ObserversInv' /\ DOMAIN actions \subseteq DOMAIN actions'
<1> DEFINE n == Len(actions)
           entry == [kind |-> StepOf(o).kind, title |-> StepOf(o).title,
                   tokens |-> TokensOf(o), variants |-> {}, seen |-> 1,
                   began |-> observer[o].began, ended |-> begun]
<1>1. /\ Observing(o) /\ observer[o] \in ObservingRow /\ ObserverOk(o)
      /\ observer[o].step = "insert" /\ observer[o].began \in Begun
      /\ StepOf(o) \in Seed /\ TokensOf(o) \subseteq Tokens
      /\ UNCHANGED begun
      /\ observer \in [Observers -> {Quiet} \cup ObservingRow]
  BY ObservingTyped DEF InsertAction, ObserversInv, ObservingRow
<1>2. ASSUME UNCHANGED actions,
             observer' = [observer EXCEPT ![o].step = "select", ![o].again = TRUE]
      PROVE  ObserversInv'
  <2>1. observer'[o] = Again(observer[o])
    BY <1>1, <1>2 DEF Again
  <2>2. /\ observer'[o] \in ObservingRow /\ observer'[o].step = "select"
        /\ observer'[o].todo = observer[o].todo /\ observer'[o].began = observer[o].began
    BY <1>1, <2>1, AgainTyped
  <2>3. /\ observer' \in [Observers -> {Quiet} \cup ObservingRow]
        /\ \A p \in Observers \ {o} : observer'[p] = observer[p]
    BY <1>1, <1>2, <2>2
  <2>4. ObserverOk(o)'
    BY <1>1, <1>2, <2>2, <2>3 DEF ObserverOk, Observing
  <2>5. QED
    BY <1>1, <1>2, <2>2, <2>3, <2>4, ObserverMoves
<1>3. ASSUME actions' = Append(actions, entry),
             observer' = [observer EXCEPT ![o].step = "guides", ![o].hit = Len(actions')]
      PROVE  ObserversInv' /\ DOMAIN actions \subseteq DOMAIN actions'
  <2>1. /\ entry \in ActionRow /\ entry.kind = StepOf(o).kind /\ entry.title = StepOf(o).title
        /\ entry.tokens = TokensOf(o) /\ entry.variants = {}
        /\ entry.began = observer[o].began /\ entry.ended = begun
    BY <1>1 DEF ActionRow, Seed, ObserversInv
  <2> HIDE DEF entry
  <2>2. n \in Nat /\ DOMAIN actions = 1 .. n
    BY DEF ObserversInv
  <2>3. /\ actions' \in Seq(ActionRow) /\ Len(actions') = n + 1
        /\ \A x \in 1 .. n : actions'[x] = actions[x]
        /\ actions'[n + 1] = entry
    BY <1>3, <2>1, AppendProperties DEF ObserversInv
  <2>4. DOMAIN actions' = 1 .. n + 1
    BY <2>3
  <2> HIDE DEF n
  <2>5. observer'[o] = Moved(observer[o], "guides", Len(actions'))
    BY <1>1, <1>3 DEF Moved
  <2>6. /\ observer'[o] \in ObservingRow /\ observer'[o].step = "guides"
        /\ observer'[o].todo = observer[o].todo /\ observer'[o].began = observer[o].began
    <3>1. "guides" \in ObserverSteps /\ Len(actions') \in Nat
      BY <2>2, <2>3 DEF ObserverSteps
    <3>2. QED
      BY <1>1, <2>5, <3>1, MovedTyped
  <2>7. /\ observer' \in [Observers -> {Quiet} \cup ObservingRow]
        /\ \A p \in Observers \ {o} : observer'[p] = observer[p]
    BY <1>1, <1>3, <2>6
  <2>8. \A x \in DOMAIN actions' :
          (x \in DOMAIN actions /\ actions'[x] = actions[x]) \/ x = n + 1
    BY <2>2, <2>3, <2>4
  <2>9. \A x \in DOMAIN actions' :
          RowOk(x)' /\ Cardinality(actions'[x].variants) <= MaxVariants
    <3> SUFFICES ASSUME NEW x \in DOMAIN actions'
                 PROVE  RowOk(x)' /\ Cardinality(actions'[x].variants) <= MaxVariants
      OBVIOUS
    <3>1. CASE x \in DOMAIN actions /\ actions'[x] = actions[x]
      BY <1>1, <3>1, RowsTyped DEF ObserversInv, RowOk
    <3>2. CASE x = n + 1
      <4>1. actions'[x] = entry /\ begun \in Nat
        BY <2>3, <3>2 DEF ObserversInv, Begun
      <4>2. entry.tokens = ActionTokens(entry.kind, entry.title)
        BY <2>1 DEF TokensOf
      <4>3. IsFiniteSet(entry.variants) /\ Cardinality(entry.variants) <= MaxVariants
        BY <2>1, FS_EmptySet, CatalogBounds
      <4>4. entry.ended <= begun'
        BY <1>1, <2>1, <4>1
      <4>5. QED
        BY <4>1, <4>2, <4>3, <4>4 DEF RowOk
    <3>3. QED
      BY <2>8, <3>1, <3>2
  <2>10. OneRowPerMorph'
    <3> SUFFICES ASSUME NEW x \in DOMAIN actions', NEW y \in DOMAIN actions', x < y,
                        ShouldMerge(actions'[x].kind, actions'[y].kind,
                                    actions'[x].tokens, actions'[y].tokens)
                 PROVE  /\ actions'[y].began # actions'[x].began
                        /\ actions'[y].began <= actions'[x].ended
      BY DEF OneRowPerMorph
    <3>1. x \in DOMAIN actions /\ actions'[x] = actions[x]
      BY <2>2, <2>3, <2>4
    <3>2. CASE y \in DOMAIN actions /\ actions'[y] = actions[y]
      BY <3>1, <3>2 DEF ObserversInv, OneRowPerMorph
    <3>3. CASE y = n + 1
      <4>1. actions'[y] = entry
        BY <2>3, <3>3
      <4>2. ShouldMerge(actions[x].kind, entry.kind, actions[x].tokens, entry.tokens)
        BY <3>1, <4>1
      <4>3. ShouldMerge(entry.kind, actions[x].kind, entry.tokens, actions[x].tokens)
        BY <4>2, MergeSymmetric
      <4>4. /\ actions[x].began # observer[o].began
            /\ observer[o].began <= actions[x].ended
        BY <1>1, <2>1, <3>1, <4>3 DEF ObserverOk
      <4>5. QED
        BY <2>1, <3>1, <4>1, <4>4
    <3>4. QED
      BY <2>8, <3>2, <3>3
  <2>11. \A p \in Observers : Observing(p)' => ObserverOk(p)'
    <3>1. ObserverOk(o)'
      BY <1>1, <2>6, <2>7 DEF ObserverOk, Observing
    <3>2. ASSUME NEW p \in Observers \ {o}, Observing(p)' PROVE ObserverOk(p)'
      <4>1. /\ Observing(p) /\ ObserverOk(p) /\ observer'[p] = observer[p]
            /\ StepOf(p)' = StepOf(p) /\ TokensOf(p)' = TokensOf(p)
        BY <2>7, <3>2 DEF ObserversInv, Observing, StepOf, TokensOf
      <4>2. \A q \in Observers \ {p} :
              Observing(q)' => observer'[q].began # observer'[p].began
        BY <1>1, <2>6, <2>7, <4>1 DEF ObserverOk, Observing
      <4>3. entry.began # observer[p].began /\ observer[p].began <= entry.ended
        BY <1>1, <2>1, <4>1 DEF ObserverOk
      <4>4. observer[p].step = "insert" =>
              \A x \in DOMAIN actions' :
                ShouldMerge(StepOf(p).kind, actions'[x].kind, TokensOf(p), actions'[x].tokens)
                  => /\ actions'[x].began # observer[p].began
                     /\ observer[p].began <= actions'[x].ended
        BY <2>3, <2>8, <4>1, <4>3 DEF ObserverOk
      <4>5. observer[p].step = "bump" => observer[p].hit \in DOMAIN actions'
        BY <2>2, <2>4, <4>1 DEF ObserverOk
      <4>6. QED
        BY <1>1, <4>1, <4>2, <4>4, <4>5 DEF ObserverOk
    <3>3. QED
      BY <3>1, <3>2
  <2>12. QED
    BY <1>1, <2>2, <2>3, <2>4, <2>7, <2>9, <2>10, <2>11 DEF ObserversInv
<1>4. QED
  BY <1>2, <1>3 DEF InsertAction

Bumped(r, variants) == [r EXCEPT !.seen = @ + 1, !.variants = variants]

LEMMA BumpedTyped ==
  ASSUME NEW r \in ActionRow, NEW variants \in SUBSET Titles
  PROVE  /\ Bumped(r, variants) \in ActionRow
         /\ Bumped(r, variants).variants = variants
         /\ Bumped(r, variants).kind = r.kind /\ Bumped(r, variants).title = r.title
         /\ Bumped(r, variants).tokens = r.tokens
         /\ Bumped(r, variants).began = r.began /\ Bumped(r, variants).ended = r.ended
<1> DEFINE seen == r.seen + 1
           counted == [r EXCEPT !.seen = seen]
<1>1. seen \in Nat
  BY DEF ActionRow
<1>2. Bumped(r, variants) = [counted EXCEPT !.variants = variants]
  BY DEF Bumped
<1> HIDE DEF seen
<1>3. /\ counted \in ActionRow
      /\ counted.kind = r.kind /\ counted.title = r.title /\ counted.tokens = r.tokens
      /\ counted.began = r.began /\ counted.ended = r.ended
  BY <1>1 DEF ActionRow
<1> HIDE DEF counted
<1>4. QED
  BY <1>2, <1>3 DEF ActionRow

LEMMA VariantsBounded ==
  ASSUME NEW r \in ActionRow, NEW title \in Titles, IsFiniteSet(r.variants),
         Cardinality(r.variants) <= MaxVariants
  PROVE  /\ Variants(r, title) \in SUBSET Titles /\ IsFiniteSet(Variants(r, title))
         /\ Cardinality(Variants(r, title)) <= MaxVariants
<1>1. r.variants \in SUBSET Titles /\ Cardinality(r.variants) \in Nat
  BY FS_CardinalityType DEF ActionRow
<1>2. CASE title = r.title \/ Cardinality(r.variants) >= MaxVariants
  BY <1>1, <1>2 DEF Variants
<1>3. CASE ~(title = r.title \/ Cardinality(r.variants) >= MaxVariants)
  <2> DEFINE more == r.variants \cup {title}
  <2>1. IsFiniteSet(more) /\ Cardinality(more) <= Cardinality(r.variants) + 1
    BY <1>1, FS_AddElement
  <2>2. Cardinality(r.variants) < MaxVariants
    BY <1>1, <1>3, CatalogBounds
  <2>3. Cardinality(more) \in Nat
    BY <2>1, FS_CardinalityType
  <2>4. Variants(r, title) = more
    BY <1>3 DEF Variants
  <2> HIDE DEF more
  <2>5. Cardinality(more) <= MaxVariants
    BY <1>1, <2>1, <2>2, <2>3, CatalogBounds
  <2>6. more \in SUBSET Titles
    BY <1>1 DEF more
  <2>7. QED
    BY <2>1, <2>4, <2>5, <2>6
<1>4. QED
  BY <1>2, <1>3

LEMMA BumpActionKeeps ==
  ASSUME ObserversInv, NEW o \in Observers, BumpAction(o)
  PROVE  ObserversInv' /\ DOMAIN actions \subseteq DOMAIN actions'
<1> DEFINE h == observer[o].hit
           title == StepOf(o).title
<1>1. /\ Observing(o) /\ observer[o] \in ObservingRow /\ ObserverOk(o)
      /\ h \in DOMAIN actions /\ title \in Titles
      /\ UNCHANGED begun
      /\ observer \in [Observers -> {Quiet} \cup ObservingRow]
      /\ observer' = [observer EXCEPT ![o].step = "guides"]
  BY ObservingTyped DEF BumpAction, ObserversInv, ObserverOk, Seed
<1> HIDE DEF h, title
<1> DEFINE variants == Variants(actions[h], title)
           entry == Bumped(actions[h], variants)
<1>2. /\ actions[h] \in ActionRow /\ variants \in SUBSET Titles /\ IsFiniteSet(variants)
      /\ Cardinality(variants) <= MaxVariants
  <2>1. /\ actions[h] \in ActionRow /\ IsFiniteSet(actions[h].variants)
        /\ Cardinality(actions[h].variants) <= MaxVariants
    BY <1>1, RowsTyped DEF ObserversInv, RowOk
  <2>2. QED
    BY <1>1, <2>1, VariantsBounded
<1>3. actions' = [actions EXCEPT ![h] = entry]
  BY <1>1 DEF BumpAction, Bumped, h, title, ObserversInv
<1> HIDE DEF variants
<1>4. /\ entry \in ActionRow /\ entry.variants = variants
      /\ entry.kind = actions[h].kind /\ entry.title = actions[h].title
      /\ entry.tokens = actions[h].tokens
      /\ entry.began = actions[h].began /\ entry.ended = actions[h].ended
  BY <1>2, BumpedTyped
<1> HIDE DEF entry
<1>5. /\ actions' \in Seq(ActionRow) /\ DOMAIN actions' = DOMAIN actions
      /\ actions'[h] = entry
      /\ \A x \in DOMAIN actions : x # h => actions'[x] = actions[x]
  BY <1>1, <1>3, <1>4 DEF ObserversInv
<1>6. \A x \in DOMAIN actions :
        /\ actions'[x].kind = actions[x].kind /\ actions'[x].title = actions[x].title
        /\ actions'[x].tokens = actions[x].tokens
        /\ actions'[x].began = actions[x].began /\ actions'[x].ended = actions[x].ended
        /\ IsFiniteSet(actions'[x].variants)
        /\ Cardinality(actions'[x].variants) <= MaxVariants
  BY <1>2, <1>4, <1>5 DEF ObserversInv, RowOk
<1>7. OneRowPerMorph'
  BY <1>5, <1>6 DEF ObserversInv, OneRowPerMorph
<1>8. \A x \in DOMAIN actions' : RowOk(x)'
  BY <1>1, <1>5, <1>6 DEF ObserversInv, RowOk
<1>9. observer'[o] = Moved(observer[o], "guides", observer[o].hit)
  <2>1. observer'[o] = [observer[o] EXCEPT !.step = "guides"]
    BY <1>1
  <2>2. [observer[o] EXCEPT !.hit = observer[o].hit] = observer[o]
    BY <1>1 DEF ObservingRow
  <2>3. QED
    BY <1>1, <2>1 DEF Moved, ObservingRow
<1>10. /\ observer'[o] \in ObservingRow /\ observer'[o].step = "guides"
       /\ observer'[o].todo = observer[o].todo /\ observer'[o].began = observer[o].began
  <2>1. "guides" \in ObserverSteps /\ observer[o].hit \in Nat
    BY <1>1 DEF ObserverSteps, ObservingRow
  <2>2. QED
    BY <1>1, <1>9, <2>1, MovedTyped
<1>11. /\ observer' \in [Observers -> {Quiet} \cup ObservingRow]
       /\ \A p \in Observers \ {o} : observer'[p] = observer[p]
  BY <1>1, <1>10
<1>12. \A p \in Observers : Observing(p)' => ObserverOk(p)'
  <2>1. ObserverOk(o)'
    BY <1>1, <1>10, <1>11 DEF ObserverOk, Observing
  <2>2. ASSUME NEW p \in Observers \ {o}, Observing(p)' PROVE ObserverOk(p)'
    <3>1. /\ Observing(p) /\ ObserverOk(p) /\ observer'[p] = observer[p]
          /\ StepOf(p)' = StepOf(p) /\ TokensOf(p)' = TokensOf(p)
      BY <1>11, <2>2 DEF ObserversInv, Observing, StepOf, TokensOf
    <3>2. \A q \in Observers \ {p} : Observing(q)' => observer'[q].began # observer'[p].began
      BY <1>1, <1>10, <1>11, <3>1 DEF ObserverOk, Observing
    <3>3. QED
      BY <1>1, <1>5, <1>6, <3>1, <3>2 DEF ObserverOk
  <2>3. QED
    BY <2>1, <2>2
<1>13. QED
  BY <1>1, <1>5, <1>6, <1>7, <1>8, <1>11, <1>12 DEF ObserversInv

-----------------------------------------------------------------------------
(* The writers' side.                                                      *)

LEMMA WritingTyped ==
  ASSUME WritersInv, NEW w \in Writers, writer[w] # Quiet
  PROVE  /\ writer[w] \in WritingRow /\ WriterOk(w)
         /\ writer[w].guide \in DOMAIN guides /\ guides[writer[w].guide] \in GuideRow
BY DEF WritersInv, WriterOk

(* A save or a settled card that a step does not touch.                    *)
LEMMA OtherSave ==
  ASSUME NEW v \in Writers, WriterOk(v), UNCHANGED writer[v],
         NEW g, g = writer[v].guide,
         DOMAIN guides \subseteq DOMAIN guides', LinkedTo(g)' = LinkedTo(g),
         guides'[g].exists => guides[g].exists /\ guides'[g].wanted = guides[g].wanted,
         \A u \in Writers : Writing(u, g)' => Writing(u, g)
  PROVE  WriterOk(v)'
BY DEF WriterOk, Writing, LinkedTo

LEMMA OtherCard ==
  ASSUME NEW g, SettledOk(g), LinkedTo(g)' = LinkedTo(g), guides'[g] = guides[g],
         \A u \in Writers : Writing(u, g)' => Writing(u, g)
  PROVE  SettledOk(g)'
BY DEF SettledOk, Writing, LinkedTo

(* A writer that stops leaves the others and the cards what they promise.  *)
LEMMA WriterStops ==
  ASSUME WritersInv, NEW w \in Writers, UNCHANGED <<guides, links>>,
         DOMAIN actions' = DOMAIN actions, writer' = [writer EXCEPT ![w] = Quiet]
  PROVE  WritersInv'
<1>1. /\ writer' \in [Writers -> {Quiet} \cup WritingRow] /\ writer'[w] = Quiet
      /\ \A v \in Writers \ {w} : writer'[v] = writer[v]
  BY DEF WritersInv
<1>2. \A g : LinkedTo(g)' = LinkedTo(g)
  BY DEF LinkedTo
<1>3. \A u \in Writers : \A g : Writing(u, g)' => Writing(u, g)
  BY <1>1 DEF Writing
<1>4. \A v \in Writers : writer'[v] # Quiet => WriterOk(v)'
  BY <1>1, <1>2, <1>3, OtherSave DEF WritersInv
<1>5. \A g \in DOMAIN guides : SettledOk(g)'
  BY <1>1, <1>2, <1>3, OtherCard DEF WritersInv
<1>6. QED
  BY <1>1, <1>4, <1>5 DEF WritersInv

Overlapped(r) == [r EXCEPT !.alone = FALSE]

LEMMA OverlappedTyped ==
  ASSUME NEW r \in WritingRow
  PROVE  /\ Overlapped(r) \in WritingRow /\ ~Overlapped(r).alone
         /\ Overlapped(r).guide = r.guide /\ Overlapped(r).step = r.step
         /\ Overlapped(r).todo = r.todo
BY DEF WritingRow, Overlapped

(* A save that begins, and what it makes of the saves under way.           *)
LEMMA WritesLinksDoes ==
  ASSUME WritersInv, NEW w \in Writers, writer[w] = Quiet, NEW g \in Nat,
         NEW wanted \in SUBSET Nat, WritesLinks(w, g, wanted)
  PROVE  /\ writer' \in [Writers -> {Quiet} \cup WritingRow]
         /\ writer'[w] # Quiet /\ writer'[w].guide = g /\ writer'[w].todo = wanted
         /\ writer'[w].step = "clear"
         /\ writer'[w].alone => \A u \in Writers \ {w} : ~Writing(u, g)
         /\ \A v \in Writers \ {w} : ~Writing(v, g) => writer'[v] = writer[v]
         /\ \A v \in Writers \ {w} : Writing(v, g) =>
              writer'[v] # Quiet /\ writer'[v].guide = g /\ ~writer'[v].alone
<1> DEFINE alone == \A u \in Writers \ {w} : ~Writing(u, g)
           first == [step |-> "clear", guide |-> g, todo |-> wanted, alone |-> alone]
<1>1. alone \in BOOLEAN
  OBVIOUS
<1>2. writer' = [v \in Writers |->
        CASE v = w -> first
          [] v # w /\ Writing(v, g) -> Overlapped(writer[v])
          [] OTHER -> writer[v]]
  BY DEF WritesLinks, Overlapped
<1> HIDE DEF alone
<1>3. /\ first \in WritingRow /\ first.guide = g /\ first.todo = wanted
      /\ first.step = "clear" /\ first.alone = alone
  BY <1>1 DEF WritingRow
<1> HIDE DEF first
<1>4. first # Quiet
  BY <1>3 DEF Quiet
<1>5. /\ writer'[w] = first
      /\ \A v \in Writers \ {w} : ~Writing(v, g) => writer'[v] = writer[v]
      /\ \A v \in Writers \ {w} : Writing(v, g) => writer'[v] = Overlapped(writer[v])
  BY <1>2
<1>6. \A v \in Writers : Writing(v, g) =>
        /\ writer[v].guide = g /\ Overlapped(writer[v]) \in WritingRow
        /\ Overlapped(writer[v]).guide = g /\ ~Overlapped(writer[v]).alone
  BY OverlappedTyped DEF WritersInv, Writing
<1>7. \A v \in Writers : Writing(v, g) =>
        Overlapped(writer[v]).step \in {"clear", "link"} /\ Overlapped(writer[v]) # Quiet
  BY <1>6 DEF WritingRow, Quiet
<1>8. \A v \in Writers : writer'[v] \in {Quiet} \cup WritingRow
  BY <1>3, <1>5, <1>6 DEF WritersInv
<1>9. writer' \in [Writers -> {Quiet} \cup WritingRow]
  BY <1>2, <1>8
<1>10. first.alone => \A u \in Writers \ {w} : ~Writing(u, g)
  BY <1>3 DEF alone
<1>11. QED
  BY <1>3, <1>4, <1>5, <1>6, <1>7, <1>9, <1>10

(* A card that is new or whose links are asked for anew, by a save that    *)
(* begins with it.                                                         *)
LEMMA SaveBegins ==
  ASSUME WritersInv, NEW w \in Writers, writer[w] = Quiet, NEW g \in Nat,
         NEW wanted \in SUBSET Nat, WritesLinks(w, g, wanted),
         UNCHANGED links, DOMAIN actions' = DOMAIN actions,
         guides' \in Seq(GuideRow), DOMAIN guides \subseteq DOMAIN guides', g \in DOMAIN guides',
         guides'[g].wanted = wanted, ~guides'[g].settled,
         \A k \in DOMAIN guides' \ {g} : k \in DOMAIN guides /\ guides'[k] = guides[k]
  PROVE  WritersInv'
<1>1. /\ writer' \in [Writers -> {Quiet} \cup WritingRow]
      /\ writer'[w] # Quiet /\ writer'[w].guide = g /\ writer'[w].todo = wanted
      /\ writer'[w].step = "clear"
      /\ writer'[w].alone => \A u \in Writers \ {w} : ~Writing(u, g)
      /\ \A v \in Writers \ {w} : ~Writing(v, g) => writer'[v] = writer[v]
      /\ \A v \in Writers \ {w} : Writing(v, g) =>
           writer'[v] # Quiet /\ writer'[v].guide = g /\ ~writer'[v].alone
  BY WritesLinksDoes
<1>2. \A u \in Writers : \A k : Writing(u, k)' /\ k # g => Writing(u, k)
  BY <1>1 DEF Writing
<1>3. \A u \in Writers \ {w} : Writing(u, g)' => Writing(u, g)
  BY <1>1 DEF Writing
<1>4. \A k : LinkedTo(k)' = LinkedTo(k)
  BY DEF LinkedTo
<1>5. WriterOk(w)'
  BY <1>1, <1>3 DEF WriterOk
<1>6. ASSUME NEW v \in Writers \ {w}, writer'[v] # Quiet PROVE WriterOk(v)'
  <2>1. CASE Writing(v, g)
    BY <1>1, <2>1 DEF WriterOk
  <2>2. CASE ~Writing(v, g)
    <3>1. writer'[v] = writer[v] /\ WriterOk(v) /\ writer[v].guide # g
      BY <1>1, <1>6, <2>2 DEF WritersInv, Writing
    <3>2. writer[v].guide \in DOMAIN guides
      BY <3>1 DEF WriterOk
    <3>3. guides'[writer[v].guide] = guides[writer[v].guide]
      BY <3>1, <3>2
    <3>4. QED
      BY <1>2, <1>4, <3>1, <3>3, OtherSave
  <2>3. QED
    BY <2>1, <2>2
<1>7. \A k \in DOMAIN guides' : SettledOk(k)'
  <2>1. SettledOk(g)'
    BY DEF SettledOk
  <2>2. \A k \in DOMAIN guides' \ {g} : SettledOk(k)'
    BY <1>2, <1>4, OtherCard DEF WritersInv
  <2>3. QED
    BY <2>1, <2>2
<1>8. links' \subseteq (DOMAIN guides') \X (DOMAIN actions')
  BY DEF WritersInv
<1>9. QED
  BY <1>1, <1>5, <1>6, <1>7, <1>8 DEF WritersInv

LEMMA CreateHowToKeeps ==
  ASSUME WritersInv, NEW w \in Writers, NEW wanted \in SUBSET Nat, CreateHowTo(w, wanted)
  PROVE  WritersInv'
<1> DEFINE entry == [exists |-> TRUE, wanted |-> wanted, settled |-> FALSE]
           n == Len(guides)
<1>1. entry \in GuideRow /\ entry.wanted = wanted /\ ~entry.settled
  BY DEF GuideRow
<1>2. guides' = Append(guides, entry)
  BY DEF CreateHowTo
<1> HIDE DEF entry
<1>3. n \in Nat /\ DOMAIN guides = 1 .. n
  BY DEF WritersInv
<1>4. /\ guides' \in Seq(GuideRow) /\ Len(guides') = n + 1
      /\ \A k \in 1 .. n : guides'[k] = guides[k]
      /\ guides'[n + 1] = entry
  BY <1>1, <1>2, AppendProperties DEF WritersInv
<1>5. DOMAIN guides' = 1 .. n + 1
  BY <1>4
<1>6. WritesLinks(w, n + 1, wanted) /\ writer[w] = Quiet /\ UNCHANGED <<links, actions>>
  BY DEF CreateHowTo
<1> HIDE DEF n
<1>7. /\ DOMAIN guides \subseteq DOMAIN guides' /\ n + 1 \in DOMAIN guides'
      /\ \A k \in DOMAIN guides' \ {n + 1} : k \in DOMAIN guides /\ guides'[k] = guides[k]
      /\ n + 1 \in Nat
  BY <1>3, <1>4, <1>5
<1>8. guides'[n + 1].wanted = wanted /\ ~guides'[n + 1].settled
  BY <1>1, <1>4
<1>9. DOMAIN actions' = DOMAIN actions /\ UNCHANGED links /\ guides' \in Seq(GuideRow)
  BY <1>4, <1>6
<1> DEFINE g == n + 1
<1>10. /\ g \in Nat /\ WritesLinks(w, g, wanted) /\ writer[w] = Quiet
       /\ DOMAIN guides \subseteq DOMAIN guides' /\ g \in DOMAIN guides'
       /\ guides'[g].wanted = wanted /\ ~guides'[g].settled
       /\ \A k \in DOMAIN guides' \ {g} : k \in DOMAIN guides /\ guides'[k] = guides[k]
  BY <1>6, <1>7, <1>8
<1> HIDE DEF g
<1>11. QED
  BY <1>9, <1>10, SaveBegins

SaveAsked(r, wanted) == [r EXCEPT !.wanted = wanted, !.settled = FALSE]

LEMMA SaveAskedTyped ==
  ASSUME NEW r \in GuideRow, NEW wanted \in SUBSET Nat
  PROVE  /\ SaveAsked(r, wanted) \in GuideRow /\ SaveAsked(r, wanted).exists = r.exists
         /\ SaveAsked(r, wanted).wanted = wanted /\ ~SaveAsked(r, wanted).settled
BY DEF GuideRow, SaveAsked

LEMMA UpdateHowToKeeps ==
  ASSUME WritersInv, NEW w \in Writers, NEW g \in DOMAIN guides, NEW wanted \in SUBSET Nat,
         UpdateHowTo(w, g, wanted)
  PROVE  WritersInv'
<1> DEFINE entry == SaveAsked(guides[g], wanted)
<1>1. guides[g] \in GuideRow /\ guides \in Seq(GuideRow) /\ g \in 1 .. Len(guides)
  BY DEF WritersInv
<1>2. /\ entry \in GuideRow /\ entry.wanted = wanted /\ ~entry.settled
      /\ entry.exists = guides[g].exists
  BY <1>1, SaveAskedTyped
<1>3. guides' = [guides EXCEPT ![g] = entry]
  <2>1. guides' = [guides EXCEPT ![g].wanted = wanted, ![g].settled = FALSE]
    BY DEF UpdateHowTo
  <2>2. guides' = [guides EXCEPT ![g] =
          [[guides[g] EXCEPT !.wanted = wanted] EXCEPT !.settled = FALSE]]
    BY <1>1, <2>1
  <2>3. QED
    BY <2>2 DEF SaveAsked
<1> HIDE DEF entry
<1>4. /\ guides' \in Seq(GuideRow) /\ DOMAIN guides' = DOMAIN guides
      /\ guides'[g] = entry /\ \A k \in DOMAIN guides \ {g} : guides'[k] = guides[k]
  BY <1>1, <1>2, <1>3
<1>5. WritesLinks(w, g, wanted) /\ writer[w] = Quiet /\ UNCHANGED <<links, actions>>
  BY DEF UpdateHowTo
<1>6. g \in Nat
  BY <1>1
<1>7. QED
  BY <1>2, <1>4, <1>5, <1>6, SaveBegins

Removed(r) == [r EXCEPT !.exists = FALSE, !.settled = FALSE]

LEMMA RemovedTyped ==
  ASSUME NEW r \in GuideRow
  PROVE  /\ Removed(r) \in GuideRow /\ ~Removed(r).exists /\ Removed(r).wanted = r.wanted
BY DEF GuideRow, Removed

LEMMA DeleteHowToKeeps ==
  ASSUME WritersInv, NEW g \in DOMAIN guides, DeleteHowTo(g)
  PROVE  WritersInv'
<1> DEFINE entry == Removed(guides[g])
<1>1. guides[g] \in GuideRow /\ guides \in Seq(GuideRow) /\ g \in 1 .. Len(guides)
  BY DEF WritersInv
<1>2. entry \in GuideRow /\ ~entry.exists
  BY <1>1, RemovedTyped
<1>3. guides' = [guides EXCEPT ![g] = entry]
  BY <1>1 DEF DeleteHowTo, Removed
<1> HIDE DEF entry
<1>4. /\ guides' \in Seq(GuideRow) /\ DOMAIN guides' = DOMAIN guides
      /\ guides'[g] = entry /\ \A k \in DOMAIN guides \ {g} : guides'[k] = guides[k]
  BY <1>1, <1>2, <1>3
<1>5. UNCHANGED <<actions, writer>> /\ links' = {link \in links : link[1] # g}
  BY DEF DeleteHowTo
<1>6. \A k : k # g => LinkedTo(k)' = LinkedTo(k)
  BY <1>5 DEF LinkedTo
<1>7. \A u \in Writers : \A k : Writing(u, k)' = Writing(u, k)
  BY <1>5 DEF Writing
<1>8. ASSUME NEW v \in Writers, writer'[v] # Quiet PROVE WriterOk(v)'
  <2>1. WriterOk(v) /\ writer'[v] = writer[v]
    BY <1>5, <1>8 DEF WritersInv
  <2>2. CASE writer[v].guide = g
    BY <1>2, <1>4, <1>7, <2>1, <2>2 DEF WriterOk, Writing
  <2>3. CASE writer[v].guide # g
    <3>1. guides'[writer[v].guide] = guides[writer[v].guide]
      BY <1>4, <2>1, <2>3 DEF WriterOk
    <3>2. QED
      BY <1>4, <1>6, <1>7, <2>1, <2>3, <3>1, OtherSave
  <2>4. QED
    BY <2>2, <2>3
<1>9. \A k \in DOMAIN guides' : SettledOk(k)'
  <2>1. SettledOk(g)'
    BY <1>2, <1>4 DEF SettledOk
  <2>2. \A k \in DOMAIN guides \ {g} : SettledOk(k)'
    BY <1>4, <1>6, <1>7, OtherCard DEF WritersInv
  <2>3. QED
    BY <1>4, <2>1, <2>2
<1>10. links' \subseteq (DOMAIN guides') \X (DOMAIN actions')
  BY <1>4, <1>5 DEF WritersInv
<1>11. QED
  BY <1>4, <1>5, <1>8, <1>9, <1>10 DEF WritersInv

(* The step of a save that changes only what it has left to do.            *)
WriterAt(r, step, todo) == [r EXCEPT !.step = step, !.todo = todo]

LEMMA WriterAtTyped ==
  ASSUME NEW r \in WritingRow, NEW todo \in SUBSET Nat
  PROVE  /\ WriterAt(r, "link", todo) \in WritingRow
         /\ WriterAt(r, "link", todo) # Quiet
         /\ WriterAt(r, "link", todo).step = "link" /\ WriterAt(r, "link", todo).todo = todo
         /\ WriterAt(r, "link", todo).guide = r.guide
         /\ WriterAt(r, "link", todo).alone = r.alone
BY DEF WritingRow, WriterAt, Quiet

(* A save under way writes links of its own card: the others' links stay,  *)
(* and an overlapping save of that card has nothing to promise.            *)
LEMMA SaveWrites ==
  ASSUME WritersInv, NEW w \in Writers, writer[w] # Quiet, NEW g, g = writer[w].guide,
         UNCHANGED <<actions, guides>>,
         writer' \in [Writers -> {Quiet} \cup WritingRow],
         \A v \in Writers \ {w} : writer'[v] = writer[v],
         writer'[w] # Quiet, writer'[w].guide = g,
         links' \subseteq (DOMAIN guides) \X (DOMAIN actions),
         \A k : k # g => LinkedTo(k)' = LinkedTo(k),
         WriterOk(w)'
  PROVE  WritersInv'
<1>1. \A u \in Writers : \A k : Writing(u, k)' = Writing(u, k)
  BY DEF Writing
<1>2. ASSUME NEW v \in Writers \ {w}, writer'[v] # Quiet PROVE WriterOk(v)'
  <2>1. WriterOk(v) /\ writer'[v] = writer[v]
    BY <1>2 DEF WritersInv
  <2>2. CASE writer[v].guide = g
    <3>1. ~writer[v].alone
      BY <2>1, <2>2 DEF WriterOk, Writing
    <3>2. QED
      BY <2>1, <3>1 DEF WriterOk
  <2>3. CASE writer[v].guide # g
    BY <1>1, <2>1, <2>3, OtherSave
  <2>4. QED
    BY <2>2, <2>3
<1>3. \A k \in DOMAIN guides : SettledOk(k)'
  <2>1. SettledOk(g)'
    BY DEF WritersInv, WriterOk, SettledOk, Writing
  <2>2. \A k \in DOMAIN guides \ {g} : SettledOk(k)'
    BY <1>1, OtherCard DEF WritersInv
  <2>3. QED
    BY <2>1, <2>2
<1>4. QED
  BY <1>2, <1>3 DEF WritersInv

LEMMA SaveOk ==
  ASSUME NEW w \in Writers, NEW g \in DOMAIN guides', writer'[w].guide = g,
         writer'[w].alone =>
           /\ \A v \in Writers \ {w} : ~(Writing(v, g)')
           /\ guides'[g].exists =>
                /\ writer'[w].todo \subseteq guides'[g].wanted
                /\ writer'[w].step = "clear" => writer'[w].todo = guides'[g].wanted
                /\ writer'[w].step = "link" =>
                     LinkedTo(g)' = guides'[g].wanted \ writer'[w].todo
  PROVE  WriterOk(w)'
BY DEF WriterOk, Writing, LinkedTo

LEMMA ClearLinksKeeps ==
  ASSUME WritersInv, NEW w \in Writers, ClearLinks(w)
  PROVE  WritersInv'
<1>1. PICK g, todo : g = writer[w].guide /\ todo = writer[w].todo
  OBVIOUS
<1>2. /\ writer[w] # Quiet /\ writer[w].step = "clear"
      /\ links' = {link \in links : link[1] # g}
      /\ writer' = [writer EXCEPT ![w].step = "link"]
      /\ UNCHANGED <<actions, guides>>
      /\ writer \in [Writers -> {Quiet} \cup WritingRow]
  BY <1>1 DEF ClearLinks, Quiet, WritersInv
<1>3. /\ writer[w] \in WritingRow /\ WriterOk(w) /\ todo \in SUBSET Nat
      /\ g \in DOMAIN guides /\ guides[g] \in GuideRow
  BY <1>1, <1>2, WritingTyped DEF WritingRow
<1>4. writer'[w] = WriterAt(writer[w], "link", todo)
  BY <1>1, <1>2, <1>3 DEF WriterAt, WritingRow
<1>5. /\ writer'[w] \in WritingRow /\ writer'[w] # Quiet
      /\ writer'[w].step = "link" /\ writer'[w].todo = todo
      /\ writer'[w].guide = g /\ writer'[w].alone = writer[w].alone
  BY <1>1, <1>3, <1>4, WriterAtTyped
<1>6. /\ writer' \in [Writers -> {Quiet} \cup WritingRow]
      /\ \A v \in Writers \ {w} : writer'[v] = writer[v]
  BY <1>2, <1>5
<1>7. links' \subseteq (DOMAIN guides) \X (DOMAIN actions)
  BY <1>2 DEF WritersInv
<1>8. LinkedTo(g)' = {} /\ \A k : k # g => LinkedTo(k)' = LinkedTo(k)
  BY <1>2 DEF LinkedTo
<1>9. WriterOk(w)'
  <2>1. \A v \in Writers \ {w} : Writing(v, g)' = Writing(v, g)
    BY <1>6 DEF Writing
  <2>2. writer[w].alone =>
          /\ \A v \in Writers \ {w} : ~Writing(v, g)
          /\ guides[g].exists => todo = guides[g].wanted
    BY <1>1, <1>2, <1>3 DEF WriterOk
  <2>3. guides'[g].wanted \ todo = {} \/ todo # guides'[g].wanted
    OBVIOUS
  <2>4. QED
    BY <1>2, <1>3, <1>5, <1>8, <2>1, <2>2, <2>3, SaveOk
<1>10. QED
  BY <1>1, <1>2, <1>5, <1>6, <1>7, <1>8, <1>9, SaveWrites

LEMMA InsertLinkKeeps ==
  ASSUME WritersInv, NEW w \in Writers, writer[w] # Quiet, NEW x \in writer[w].todo,
         InsertLink(w, x)
  PROVE  WritersInv'
<1>1. PICK g, todo : g = writer[w].guide /\ todo = writer[w].todo \ {x}
  OBVIOUS
<1>2. /\ writer[w].step = "link" /\ UNCHANGED <<actions, guides>>
      /\ writer \in [Writers -> {Quiet} \cup WritingRow]
  BY DEF InsertLink, WritersInv
<1>3. /\ writer[w] \in WritingRow /\ WriterOk(w) /\ todo \in SUBSET Nat
      /\ g \in DOMAIN guides /\ guides[g] \in GuideRow
  BY <1>1, WritingTyped DEF WritingRow
<1>4. CASE UNCHANGED links /\ writer' = [writer EXCEPT ![w] = Quiet]
  BY <1>2, <1>4, WriterStops
<1>5. CASE /\ x \in DOMAIN actions /\ links' = links \cup {<<g, x>>}
           /\ writer' = [writer EXCEPT ![w].todo = @ \ {x}]
  <2>1. writer'[w] = WriterAt(writer[w], "link", todo)
    BY <1>1, <1>2, <1>3, <1>5 DEF WriterAt, WritingRow
  <2>2. /\ writer'[w] \in WritingRow /\ writer'[w] # Quiet
        /\ writer'[w].step = "link" /\ writer'[w].todo = todo
        /\ writer'[w].guide = g /\ writer'[w].alone = writer[w].alone
    BY <1>1, <1>3, <2>1, WriterAtTyped
  <2>3. /\ writer' \in [Writers -> {Quiet} \cup WritingRow]
        /\ \A v \in Writers \ {w} : writer'[v] = writer[v]
    BY <1>2, <1>5, <2>2
  <2>4. links' \subseteq (DOMAIN guides) \X (DOMAIN actions)
    BY <1>3, <1>5 DEF WritersInv
  <2>5. /\ LinkedTo(g)' = LinkedTo(g) \cup {x}
        /\ \A k : k # g => LinkedTo(k)' = LinkedTo(k)
    BY <1>2, <1>5 DEF LinkedTo
  <2>6. WriterOk(w)'
    <3>1. \A v \in Writers \ {w} : Writing(v, g)' = Writing(v, g)
      BY <2>3 DEF Writing
    <3>2. writer[w].alone =>
            /\ \A v \in Writers \ {w} : ~Writing(v, g)
            /\ guides[g].exists =>
                 /\ writer[w].todo \subseteq guides[g].wanted
                 /\ LinkedTo(g) = guides[g].wanted \ writer[w].todo
      BY <1>1, <1>2, <1>3 DEF WriterOk
    <3>3. writer[w].alone /\ guides[g].exists =>
            /\ todo \subseteq guides[g].wanted
            /\ LinkedTo(g)' = guides[g].wanted \ todo
      BY <1>1, <2>5, <3>2
    <3>4. QED
      BY <1>2, <1>3, <2>2, <3>1, <3>2, <3>3, SaveOk
  <2>7. QED
    BY <1>1, <1>2, <2>2, <2>3, <2>4, <2>5, <2>6, SaveWrites
<1>6. QED
  BY <1>1, <1>4, <1>5 DEF InsertLink

Answered(r, settled) == [r EXCEPT !.settled = settled]

LEMMA AnsweredTyped ==
  ASSUME NEW r \in GuideRow, NEW settled \in BOOLEAN
  PROVE  /\ Answered(r, settled) \in GuideRow /\ Answered(r, settled).exists = r.exists
         /\ Answered(r, settled).wanted = r.wanted
         /\ Answered(r, settled).settled = settled
BY DEF GuideRow, Answered

(* A save that ran alone and to its end has linked all it was asked to.    *)
LEMMA AnswerHowToKeeps ==
  ASSUME WritersInv, NEW w \in Writers, AnswerHowTo(w)
  PROVE  WritersInv'
<1>1. PICK g, settled : g = writer[w].guide /\ settled = (guides[g].exists /\ writer[w].alone)
  OBVIOUS
<1>2. /\ writer[w] # Quiet /\ writer[w].step = "link" /\ writer[w].todo = {}
      /\ guides' = [guides EXCEPT ![g].settled = settled]
      /\ writer' = [writer EXCEPT ![w] = Quiet]
      /\ UNCHANGED <<actions, links>>
      /\ writer \in [Writers -> {Quiet} \cup WritingRow]
  BY <1>1 DEF AnswerHowTo, Quiet, WritersInv
<1>3. /\ writer[w] \in WritingRow /\ WriterOk(w)
      /\ g \in DOMAIN guides /\ guides[g] \in GuideRow /\ guides \in Seq(GuideRow)
      /\ g \in 1 .. Len(guides)
  BY <1>1, <1>2, WritingTyped DEF WritersInv
<1>4. settled \in BOOLEAN
  <2>1. guides[g].exists \in BOOLEAN
    BY <1>3 DEF GuideRow
  <2>2. writer[w].alone \in BOOLEAN
    BY <1>3 DEF WritingRow
  <2>3. QED
    BY <1>1, <2>1, <2>2
<1>5. settled => /\ \A v \in Writers \ {w} : ~Writing(v, g)
                 /\ LinkedTo(g) = guides[g].wanted
  BY <1>1, <1>2, <1>3 DEF WriterOk
<1>6. PICK entry : entry = Answered(guides[g], settled)
  OBVIOUS
<1>7. /\ entry \in GuideRow /\ entry.exists = guides[g].exists
      /\ entry.wanted = guides[g].wanted /\ entry.settled = settled
  BY <1>3, <1>4, <1>6, AnsweredTyped
<1>8. guides' = [guides EXCEPT ![g] = entry]
  BY <1>2, <1>3, <1>6 DEF Answered
<1>9. /\ guides' \in Seq(GuideRow) /\ DOMAIN guides' = DOMAIN guides
      /\ guides'[g] = entry /\ \A k \in DOMAIN guides \ {g} : guides'[k] = guides[k]
  BY <1>3, <1>7, <1>8
<1>10. /\ writer' \in [Writers -> {Quiet} \cup WritingRow] /\ writer'[w] = Quiet
       /\ \A v \in Writers \ {w} : writer'[v] = writer[v]
  BY <1>2
<1>11. \A k : LinkedTo(k)' = LinkedTo(k)
  BY <1>2 DEF LinkedTo
<1>12. \A u \in Writers : \A k : Writing(u, k)' => Writing(u, k) /\ u # w
  BY <1>10 DEF Writing
<1>13. ASSUME NEW v \in Writers, writer'[v] # Quiet PROVE WriterOk(v)'
  <2>1. v # w /\ writer'[v] = writer[v] /\ WriterOk(v)
    BY <1>10, <1>13 DEF WritersInv
  <2>2. PICK k : k = writer[v].guide
    OBVIOUS
  <2>3. k \in DOMAIN guides
    BY <2>1, <2>2 DEF WriterOk
  <2>4. guides'[k].exists => guides[k].exists /\ guides'[k].wanted = guides[k].wanted
    BY <1>7, <1>9, <2>3
  <2>5. QED
    BY <1>9, <1>11, <1>12, <2>1, <2>2, <2>4, OtherSave
<1>14. \A k \in DOMAIN guides : SettledOk(k)'
  <2>1. SettledOk(g)'
    BY <1>5, <1>7, <1>9, <1>11, <1>12 DEF SettledOk
  <2>2. \A k \in DOMAIN guides \ {g} : SettledOk(k)'
    BY <1>9, <1>11, <1>12, OtherCard DEF WritersInv
  <2>3. QED
    BY <2>1, <2>2
<1>15. links' \subseteq (DOMAIN guides') \X (DOMAIN actions')
  BY <1>2, <1>9 DEF WritersInv
<1>16. QED
  BY <1>9, <1>10, <1>13, <1>14, <1>15 DEF WritersInv

-----------------------------------------------------------------------------
LEMMA CatalogStart == CatalogInit => CatalogInv
<1> SUFFICES ASSUME CatalogInit PROVE ObserversInv /\ WritersInv
  BY BothSides
<1>1. actions = <<>> /\ actions \in Seq(ActionRow) /\ DOMAIN actions = {}
  BY DEF CatalogInit
<1>2. guides = <<>> /\ guides \in Seq(GuideRow) /\ DOMAIN guides = {}
  BY DEF CatalogInit
<1>3. begun \in Begun
  BY CatalogBounds DEF CatalogInit, Begun
<1>4. ObserversInv
  BY <1>1, <1>3 DEF CatalogInit, ObserversInv, OneRowPerMorph, Observing
<1>5. WritersInv
  BY <1>1, <1>2 DEF CatalogInit, WritersInv
<1>6. QED
  BY <1>4, <1>5

LEMMA ObserverStep ==
  ASSUME CatalogInv, NEW o \in Observers,
         \/ \E seeds \in Playbooks : ObserveSteps(o, seeds)
         \/ SelectActions(o) \/ InsertAction(o) \/ BumpAction(o)
         \/ SelectGuides(o) \/ AbortObserver(o)
  PROVE  CatalogInv'
<1>1. ObserversInv /\ WritersInv
  BY BothSides
<1>2. UNCHANGED <<guides, links, writer>>
  BY DEF ObserveSteps, SelectActions, InsertAction, BumpAction, SelectGuides, AbortObserver
<1>3. ObserversInv' /\ DOMAIN actions \subseteq DOMAIN actions'
  <2>1. CASE \E seeds \in Playbooks : ObserveSteps(o, seeds)
    BY <1>1, <2>1, ObserveStepsKeeps DEF ObserveSteps
  <2>2. CASE SelectActions(o)
    BY <1>1, <2>2, SelectActionsKeeps DEF SelectActions
  <2>3. CASE InsertAction(o)
    BY <1>1, <2>3, InsertActionKeeps
  <2>4. CASE BumpAction(o)
    BY <1>1, <2>4, BumpActionKeeps
  <2>5. CASE SelectGuides(o)
    BY <1>1, <2>5, SelectGuidesKeeps DEF SelectGuides
  <2>6. CASE AbortObserver(o)
    BY <1>1, <2>6, AbortObserverKeeps DEF AbortObserver
  <2>7. QED
    BY <2>1, <2>2, <2>3, <2>4, <2>5, <2>6
<1>4. WritersInv'
  BY <1>1, <1>2, <1>3, WritersUntouched
<1>5. CatalogInv' <=> ObserversInv' /\ WritersInv'
  BY DEF CatalogInv, CatalogTypeOK, ObserversInv, WritersInv, ObservingRow, ObserverSteps,
         WritingRow
<1>6. QED
  BY <1>3, <1>4, <1>5

LEMMA WriterStep ==
  ASSUME CatalogInv, WritersInv', UNCHANGED <<actions, observer>>,
         Begins \/ UNCHANGED begun
  PROVE  CatalogInv'
<1>1. ObserversInv /\ begun \in Begun
  BY BothSides DEF ObserversInv
<1>2. begun' \in Begun /\ begun <= begun'
  BY <1>1, CatalogBounds DEF Begins, Begun
<1>3. ObserversInv'
  BY <1>1, <1>2, ObserversUntouched
<1>4. CatalogInv' <=> ObserversInv' /\ WritersInv'
  BY DEF CatalogInv, CatalogTypeOK, ObserversInv, WritersInv, ObservingRow, ObserverSteps,
         WritingRow
<1>5. QED
  BY <1>3, <1>4

LEMMA CatalogStep == CatalogInv /\ [CatalogNext]_catalogVars => CatalogInv'
<1> SUFFICES ASSUME CatalogInv, [CatalogNext]_catalogVars PROVE CatalogInv'
  OBVIOUS
<1>1. WritersInv /\ actions \in Seq(ActionRow)
  BY BothSides DEF ObserversInv
<1>2. \A wanted \in SUBSET (DOMAIN actions \cup {0}) : wanted \in SUBSET Nat
  BY <1>1
<1>3. CASE \E o \in Observers : \E seeds \in Playbooks : ObserveSteps(o, seeds)
  BY <1>3, ObserverStep
<1>4. CASE \E o \in Observers :
             \/ SelectActions(o) \/ InsertAction(o) \/ BumpAction(o)
             \/ SelectGuides(o) \/ AbortObserver(o)
  BY <1>4, ObserverStep
<1>5. ASSUME NEW w \in Writers, NEW wanted \in SUBSET (DOMAIN actions \cup {0}),
             CreateHowTo(w, wanted)
      PROVE  CatalogInv'
  <2>1. WritersInv'
    BY <1>1, <1>2, <1>5, CreateHowToKeeps
  <2>2. QED
    BY <1>5, <2>1, WriterStep DEF CreateHowTo
<1>6. ASSUME NEW w \in Writers, NEW wanted \in SUBSET (DOMAIN actions \cup {0}),
             NEW g \in DOMAIN guides, UpdateHowTo(w, g, wanted)
      PROVE  CatalogInv'
  <2>1. WritersInv'
    BY <1>1, <1>2, <1>6, UpdateHowToKeeps
  <2>2. QED
    BY <1>6, <2>1, WriterStep DEF UpdateHowTo
<1>7. ASSUME NEW g \in DOMAIN guides, DeleteHowTo(g) PROVE CatalogInv'
  <2>1. WritersInv'
    BY <1>1, <1>7, DeleteHowToKeeps
  <2>2. QED
    BY <1>7, <2>1, WriterStep DEF DeleteHowTo
<1>8. ASSUME NEW w \in Writers, ClearLinks(w) PROVE CatalogInv'
  <2>1. WritersInv'
    BY <1>1, <1>8, ClearLinksKeeps
  <2>2. QED
    BY <1>8, <2>1, WriterStep DEF ClearLinks
<1>9. ASSUME NEW w \in Writers, AnswerHowTo(w) PROVE CatalogInv'
  <2>1. WritersInv'
    BY <1>1, <1>9, AnswerHowToKeeps
  <2>2. QED
    BY <1>9, <2>1, WriterStep DEF AnswerHowTo
<1>10. ASSUME NEW w \in Writers, AbortWriter(w) PROVE CatalogInv'
  <2>1. WritersInv'
    BY <1>1, <1>10, WriterStops DEF AbortWriter
  <2>2. QED
    BY <1>10, <2>1, WriterStep DEF AbortWriter
<1>11. ASSUME NEW w \in Writers, writer[w] # Quiet, NEW x \in writer[w].todo, InsertLink(w, x)
       PROVE  CatalogInv'
  <2>1. WritersInv'
    BY <1>1, <1>11, InsertLinkKeeps
  <2>2. QED
    BY <1>11, <2>1, WriterStep DEF InsertLink
<1>12. CASE UNCHANGED catalogVars
  <2>1. UNCHANGED <<actions, guides, links, observer, writer, begun>>
    BY <1>12 DEF catalogVars
  <2>2. WritersInv'
    BY <1>1, <2>1, WritersUntouched
  <2>3. QED
    BY <2>1, <2>2, WriterStep
<1>13. QED
  BY <1>3, <1>4, <1>5, <1>6, <1>7, <1>8, <1>9, <1>10, <1>11, <1>12 DEF CatalogNext

THEOREM CatalogInvariant == CatalogSpec => []CatalogInv
<1>1. QED
  BY CatalogStart, CatalogStep, PTL DEF CatalogSpec

(* Two rows of one action are always of two playbooks observed at once,    *)
(* for any titles, folding and playbooks (ObserveAction).                  *)
THEOREM OneRowPerAction == CatalogSpec => []OneRowPerMorph
<1>1. CatalogInv => OneRowPerMorph
  BY DEF CatalogInv
<1>2. QED
  BY <1>1, CatalogInvariant, PTL

(* A save that ran alone leaves the card the links it asked for, whatever  *)
(* the saves before it left behind (replaceGuideActions).                  *)
THEOREM SavedLinksStay == CatalogSpec => []LinksOfLastSave
<1>1. CatalogInv => LinksOfLastSave
  BY DEF CatalogInv, SettledOk, LinkedTo, LinksOfLastSave
<1>2. QED
  BY <1>1, CatalogInvariant, PTL

-----------------------------------------------------------------------------
(* Manuals: any folder, contents, ingests and models.                      *)

(* The vectors to be, or those that came back.                             *)
InHand(p) == IF ingester[p].step = "call" THEN ingester[p].texts ELSE ingester[p].vectors

(* Before it is replaced, the row an ingest read is still of its manual or *)
(* gone: ids are never used again.  Who embeds has the index's model, and  *)
(* each chunk of its batch that is still there has the text in hand.       *)
IngesterOk(p) ==
  /\ ingester[p].step = "write" =>
       /\ ingester[p].old <= inserted
       /\ \A s \in sources : s.id = ingester[p].old => s.sha = ShaOf(p)
  /\ ingester[p].step \in {"pending", "call", "store"} => indexModel = EmbedModel[p]
  /\ ingester[p].step \in {"call", "store"} =>
       /\ DOMAIN InHand(p) = DOMAIN ingester[p].batch
       /\ \A i \in DOMAIN ingester[p].batch :
            /\ ingester[p].batch[i][1] <= inserted
            /\ ingester[p].batch[i] \in Chunks =>
                 InHand(p)[i] = TextOf(ingester[p].batch[i])

ManualsInv ==
  /\ ManualsTypeOK /\ VectorsOfTheIndex
  /\ IsFiniteSet(sources) /\ \A s \in sources : s.id <= inserted
  /\ \A p \in Ingesters : IngesterOk(p)

(* What is on file, without who is at work on it.                          *)
RowsInv ==
  /\ disk \in [Pdfs \cup Trees -> Contents \cup {Bad, ImagesOnly}]
  /\ sources \subseteq Source
  /\ \A s, t \in sources : s.id = t.id \/ s.sha = t.sha => s = t
  /\ inserted \in 0 .. MaxSources
  /\ DOMAIN embeddings \subseteq Chunks
  /\ \A c \in DOMAIN embeddings : embeddings[c] \in [model : Models, text : Texts]
  /\ indexModel \in Models \cup {NoModel}
  /\ hasVector \in BOOLEAN
  /\ VectorsOfTheIndex
  /\ IsFiniteSet(sources) /\ \A s \in sources : s.id <= inserted

LEMMA ManualsParts ==
  ManualsInv <=>
    /\ RowsInv
    /\ ingester \in [Ingesters -> Ingester \cup {Away}] /\ ingests \in 0 .. MaxIngests
    /\ \A p \in Ingesters : IngesterOk(p)
BY DEF ManualsInv, ManualsTypeOK, RowsInv

LEMMA ChunkOfSource ==
  ASSUME NEW s, NEW c
  PROVE  c \in ChunksOf(s) <=> \E i \in DOMAIN PageTexts[s.content] : c = <<s.id, i>>
BY DEF ChunksOf

(* A chunk has one source, and its text is on a page of it.                *)
LEMMA ChunkHasText ==
  ASSUME RowsInv, NEW s \in sources, NEW c \in ChunksOf(s)
  PROVE  /\ c \in Chunks /\ c \in ChunkIds /\ c[1] = s.id /\ SourceOf(c) = s
         /\ TextOf(c) = PageTexts[s.content][c[2]] /\ TextOf(c) \in Texts
<1>1. PICK i \in DOMAIN PageTexts[s.content] : c = <<s.id, i>>
  BY ChunkOfSource
<1>2. s \in Source /\ s.content \in Contents /\ s.id \in 1 .. MaxSources
  BY DEF RowsInv, Source
<1>3. PageTexts[s.content] \in Seq(STRING)
  BY <1>2, FolderAssumption
<1>4. i \in Nat
  BY <1>1, <1>3
<1>5. c[1] = s.id /\ c[2] = i
  BY <1>1
<1>6. SourceOf(c) = s
  BY <1>5 DEF SourceOf, RowsInv
<1>7. TextOf(c) = PageTexts[s.content][i]
  BY <1>5, <1>6 DEF TextOf
<1>8. PageTexts[s.content][i] \in Texts
  BY <1>1, <1>2 DEF Texts
<1>9. QED
  BY <1>1, <1>2, <1>4, <1>5, <1>6, <1>7, <1>8 DEF Chunks, ChunkIds

LEMMA ChunksTyped ==
  ASSUME RowsInv
  PROVE  /\ Chunks \subseteq ChunkIds
         /\ \A c \in Chunks : TextOf(c) \in Texts /\ c[1] <= inserted
<1> SUFFICES ASSUME NEW c \in Chunks
             PROVE  c \in ChunkIds /\ TextOf(c) \in Texts /\ c[1] <= inserted
  OBVIOUS
<1>1. PICK s \in sources : c \in ChunksOf(s)
  BY DEF Chunks
<1>2. s.id <= inserted
  BY DEF RowsInv
<1>3. QED
  BY <1>1, <1>2, ChunkHasText

LEMMA ChunksFinite ==
  ASSUME RowsInv
  PROVE  IsFiniteSet(Chunks)
<1> DEFINE parts == {ChunksOf(s) : s \in sources}
<1>1. IsFiniteSet(parts)
  <2> DEFINE f == [s \in sources |-> ChunksOf(s)]
  <2>1. f \in Surjection(sources, parts)
    BY DEF Surjection
  <2>2. IsFiniteSet(sources)
    BY DEF RowsInv
  <2> HIDE DEF f, parts
  <2>3. QED
    BY <2>1, <2>2, FS_Surjection
<1>2. \A s \in sources : IsFiniteSet(ChunksOf(s))
  <2> SUFFICES ASSUME NEW s \in sources PROVE IsFiniteSet(ChunksOf(s))
    OBVIOUS
  <2> DEFINE pages == DOMAIN PageTexts[s.content]
  <2>1. s.content \in Contents
    BY DEF RowsInv, Source
  <2>2. PageTexts[s.content] \in Seq(STRING)
    BY <2>1, FolderAssumption
  <2>3. pages = 1 .. Len(PageTexts[s.content]) /\ Len(PageTexts[s.content]) \in Nat
    BY <2>2
  <2>4. IsFiniteSet(pages)
    BY <2>3, FS_Interval
  <2>5. IsFiniteSet({s.id})
    BY FS_Singleton
  <2> HIDE DEF pages
  <2>6. IsFiniteSet({s.id} \X pages)
    BY <2>4, <2>5, FS_Product
  <2>7. QED
    BY <2>6 DEF ChunksOf, pages
<1>3. Chunks = UNION parts
  BY DEF Chunks
<1>4. \A part_ \in parts : IsFiniteSet(part_)
  BY <1>2
<1> HIDE DEF parts
<1>5. QED
  BY <1>1, <1>3, <1>4, FS_UNION

(* What a step may do to the rows that others have read: sources come      *)
(* with new ids, and the index's model is recorded once.                   *)
RowsAdvance ==
  /\ inserted <= inserted'
  /\ \A s \in sources' : s \in sources \/ s.id > inserted
  /\ indexModel' = indexModel \/ indexModel = NoModel

LEMMA ChunkStays ==
  ASSUME RowsInv, RowsInv', RowsAdvance, NEW c \in Chunks', c[1] <= inserted
  PROVE  c \in Chunks /\ TextOf(c)' = TextOf(c)
<1>1. PICK s \in sources' : c \in ChunksOf(s)
  BY DEF Chunks
<1>2. c[1] = s.id
  BY <1>1, ChunkOfSource
<1>3. s.id \in Nat /\ inserted \in Nat
  BY DEF RowsInv, Source
<1>4. s \in sources
  BY <1>2, <1>3 DEF RowsAdvance
<1>5. c \in Chunks
  BY <1>1, <1>4 DEF Chunks
<1>6. SourceOf(c) = s
  BY <1>2, <1>4 DEF SourceOf, RowsInv
<1>7. (CHOOSE x \in sources' : x.id = c[1]) = s
  BY <1>2 DEF RowsInv
<1>8. SourceOf(c)' = s
  BY <1>7 DEF SourceOf
<1>9. QED
  BY <1>5, <1>6, <1>8 DEF TextOf

-----------------------------------------------------------------------------
(* Putting an answer in order.                                             *)

(* An injection of 1 .. n into itself meets every number.                  *)
LEMMA OrderMeetsAll ==
  ASSUME NEW n \in Nat, NEW o \in [1 .. n -> 1 .. n],
         \A i, j \in 1 .. n : o[i] = o[j] => i = j, NEW k \in 1 .. n
  PROVE  \E i \in 1 .. n : o[i] = k
<1>1. IsFiniteSet(1 .. n)
  BY FS_Interval
<1>2. o \in Injection(1 .. n, 1 .. n)
  BY DEF Injection, IsInjective
<1>3. o \in Surjection(1 .. n, 1 .. n)
  BY <1>1, <1>2, FS_Injection
<1>4. QED
  BY <1>3 DEF Surjection

(* Whatever order the rows of an answer come in, each chunk gets the       *)
(* vector of its own text (OrderVectors).                                  *)
LEMMA OrderedAsAsked ==
  ASSUME NEW texts \in Seq(Texts), NEW reply \in Replies(texts)
  PROVE  OrderVectors(reply) = texts
<1>1. PICK n \in Nat : n = Len(texts) /\ DOMAIN texts = 1 .. n
  OBVIOUS
<1> DEFINE byIndex == \E i \in DOMAIN reply : reply[i].index # 0
           place(i) == IF byIndex THEN reply[i].index + 1 ELSE i
           ordered == [k \in DOMAIN reply |->
                         reply[CHOOSE i \in DOMAIN reply : place(i) = k].vector]
<1>2. OrderVectors(reply) = ordered
  BY DEF OrderVectors
<1>3. /\ DOMAIN reply = 1 .. n
      /\ \A k \in 1 .. n : \E i \in 1 .. n : place(i) = k
      /\ \A i, k \in 1 .. n : place(i) = k => reply[i].vector = texts[k]
  <2>1. CASE \E o \in [1 .. n -> 1 .. n] :
               /\ \A i, j \in 1 .. n : o[i] = o[j] => i = j
               /\ reply = [i \in 1 .. n |-> [index |-> o[i] - 1, vector |-> texts[o[i]]]]
    <3>1. PICK o \in [1 .. n -> 1 .. n] :
            /\ \A i, j \in 1 .. n : o[i] = o[j] => i = j
            /\ reply = [i \in 1 .. n |-> [index |-> o[i] - 1, vector |-> texts[o[i]]]]
      BY <2>1
    <3>2. DOMAIN reply = 1 .. n /\ \A i \in 1 .. n :
            /\ reply[i].index = o[i] - 1 /\ reply[i].vector = texts[o[i]]
            /\ o[i] \in Nat /\ (o[i] - 1) + 1 = o[i] /\ (o[i] # 1 => o[i] - 1 # 0)
      BY <3>1
    <3>3. \A i \in 1 .. n : place(i) = o[i]
      <4>1. CASE byIndex
        BY <3>2, <4>1
      <4>2. CASE ~byIndex
        <5>1. \A i \in 1 .. n : o[i] = 1
          BY <3>2, <4>2
        <5>2. \A i, j \in 1 .. n : i = j
          BY <3>1, <5>1
        <5>3. \A i \in 1 .. n : 1 \in 1 .. n
          OBVIOUS
        <5>4. \A i \in 1 .. n : i = 1
          BY <5>2, <5>3
        <5>5. QED
          BY <4>2, <5>1, <5>4
      <4>3. QED
        BY <4>1, <4>2
    <3> HIDE DEF place
    <3>4. \A k \in 1 .. n : \E i \in 1 .. n : place(i) = k
      <4>1. \A k \in 1 .. n : \E i \in 1 .. n : o[i] = k
        BY <3>1, OrderMeetsAll
      <4>2. QED
        BY <3>3, <4>1
    <3>5. \A i, k \in 1 .. n : place(i) = k => reply[i].vector = texts[k]
      <4> SUFFICES ASSUME NEW i \in 1 .. n, NEW k \in 1 .. n, place(i) = k
                   PROVE  reply[i].vector = texts[k]
        OBVIOUS
      <4>1. o[i] = k
        BY <3>3
      <4>2. QED
        BY <3>2, <4>1
    <3>6. DOMAIN reply = 1 .. n
      BY <3>2
    <3>7. QED
      BY <3>4, <3>5, <3>6
  <2>2. CASE reply = [i \in 1 .. n |-> [index |-> 0, vector |-> texts[i]]]
    <3>1. DOMAIN reply = 1 .. n /\ \A i \in 1 .. n :
            reply[i].index = 0 /\ reply[i].vector = texts[i]
      BY <2>2
    <3>2. \A i \in 1 .. n : place(i) = i
      BY <3>1
    <3> HIDE DEF place
    <3>3. \A k \in 1 .. n : \E i \in 1 .. n : place(i) = k
      <4>1. \A k \in 1 .. n : place(k) = k
        BY <3>2
      <4>2. QED
        BY <4>1
    <3>4. \A i, k \in 1 .. n : place(i) = k => reply[i].vector = texts[k]
      BY <3>1, <3>2
    <3>5. QED
      BY <3>1, <3>3, <3>4
  <2>3. QED
    BY <1>1, <2>1, <2>2 DEF Replies
<1> HIDE DEF place
<1>4. \A k \in 1 .. n : reply[CHOOSE i \in DOMAIN reply : place(i) = k].vector = texts[k]
  <2> SUFFICES ASSUME NEW k \in 1 .. n
               PROVE  reply[CHOOSE i \in DOMAIN reply : place(i) = k].vector = texts[k]
    OBVIOUS
  <2>1. PICK i : i = CHOOSE x \in DOMAIN reply : place(x) = k
    OBVIOUS
  <2>2. i \in 1 .. n /\ place(i) = k
    BY <1>3, <2>1
  <2>3. QED
    BY <1>3, <2>1, <2>2
<1>5. ordered = [k \in 1 .. n |-> texts[k]]
  BY <1>3, <1>4
<1>6. texts = [k \in 1 .. n |-> texts[k]]
  BY <1>1
<1> HIDE DEF ordered
<1>7. QED
  BY <1>2, <1>5, <1>6

-----------------------------------------------------------------------------
LEMMA IngesterTyped ==
  ASSUME NEW g \in Ingester \cup {Away}
  PROVE  /\ g.step = "read" => g.at \in Nat \ {0}
         /\ g.step \in {"select", "write"} =>
              /\ g.at \in Nat \ {0} /\ g.file \in Pdfs \cup Trees
              /\ g.content \in Contents /\ g.old \in 0 .. MaxSources
         /\ g.step = "call" => g.batch \in Seq(ChunkIds) /\ g.texts \in Seq(Texts)
         /\ g.step = "store" => g.batch \in Seq(ChunkIds) /\ g.vectors \in Seq(Texts)
BY DEF Ingester, Away

LEMMA RowsUntouched ==
  ASSUME RowsInv, UNCHANGED <<disk, sources, inserted, embeddings, indexModel, hasVector>>
  PROVE  RowsInv' /\ RowsAdvance
<1>1. RowsInv'
  BY DEF RowsInv, VectorsOfTheIndex, Chunks, TextOf, SourceOf
<1>2. RowsAdvance
  BY DEF RowsAdvance, RowsInv
<1>3. QED
  BY <1>1, <1>2

(* What an ingest has read stays true while the others go on.              *)
LEMMA OtherIngester ==
  ASSUME RowsInv, RowsInv', RowsAdvance, NEW q \in Ingesters, IngesterOk(q),
         ingester[q] \in Ingester \cup {Away}, ingester'[q] = ingester[q]
  PROVE  IngesterOk(q)'
<1>1. inserted \in Nat /\ inserted' \in Nat /\ inserted <= inserted'
  BY ManualsBounds DEF RowsInv, RowsAdvance
<1>2. PICK g : g = ingester[q]
  OBVIOUS
<1>3. ingester'[q] = g
  BY <1>2
<1>4. g.step = "write" =>
        /\ g.old <= inserted'
        /\ \A s \in sources' : s.id = g.old => s.sha = ShaOf(q)'
  <2> SUFFICES ASSUME g.step = "write"
               PROVE  /\ g.old <= inserted'
                      /\ \A s \in sources' : s.id = g.old => s.sha = ShaOf(q)'
    OBVIOUS
  <2>1. g.old \in 0 .. MaxSources /\ MaxSources \in Nat
    BY <1>2, IngesterTyped, ManualsBounds
  <2>2. g.old \in Nat /\ g.old <= inserted
    BY <1>2, <2>1 DEF IngesterOk
  <2>3. ShaOf(q)' = ShaOf(q)
    BY DEF ShaOf
  <2>4. \A s \in sources' : s.id \in Nat
    BY DEF RowsInv, Source
  <2>5. \A s \in sources' : s.id = g.old => s \in sources
    BY <1>1, <2>2, <2>4 DEF RowsAdvance
  <2>6. QED
    BY <1>1, <1>2, <2>2, <2>3, <2>5 DEF IngesterOk
<1>5. g.step \in {"pending", "call", "store"} => indexModel' = EmbedModel[q]
  BY <1>2, ModelsAssumption DEF IngesterOk, RowsAdvance, Models
<1>6. g.step \in {"call", "store"} =>
        /\ DOMAIN InHand(q)' = DOMAIN g.batch
        /\ \A i \in DOMAIN g.batch :
             /\ g.batch[i][1] <= inserted'
             /\ g.batch[i] \in Chunks' => InHand(q)'[i] = TextOf(g.batch[i])'
  <2> SUFFICES ASSUME g.step \in {"call", "store"}
               PROVE  /\ DOMAIN InHand(q)' = DOMAIN g.batch
                      /\ \A i \in DOMAIN g.batch :
                           /\ g.batch[i][1] <= inserted'
                           /\ g.batch[i] \in Chunks' =>
                                InHand(q)'[i] = TextOf(g.batch[i])'
    OBVIOUS
  <2>1. PICK hand : hand = InHand(q)
    OBVIOUS
  <2>2. InHand(q)' = hand
    BY <2>1 DEF InHand
  <2>3. DOMAIN hand = DOMAIN g.batch
    BY <1>2, <2>1 DEF IngesterOk
  <2>4. ASSUME NEW i \in DOMAIN g.batch
        PROVE  /\ g.batch[i][1] <= inserted'
               /\ g.batch[i] \in Chunks' => hand[i] = TextOf(g.batch[i])'
    <3>1. PICK c : c = g.batch[i]
      OBVIOUS
    <3>2. g.batch \in Seq(ChunkIds)
      BY <1>2, IngesterTyped
    <3>3. c \in ChunkIds /\ c[1] \in Nat
      BY <2>4, <3>1, <3>2 DEF ChunkIds
    <3>4. c[1] <= inserted /\ (c \in Chunks => hand[i] = TextOf(c))
      BY <1>2, <2>1, <2>4, <3>1 DEF IngesterOk
    <3>5. c \in Chunks' => hand[i] = TextOf(c)'
      BY <3>4, ChunkStays
    <3>6. c[1] <= inserted'
      BY <1>1, <3>3, <3>4
    <3>7. QED
      BY <3>1, <3>5, <3>6
  <2>5. QED
    BY <2>2, <2>3, <2>4
<1>7. QED
  BY <1>3, <1>4, <1>5, <1>6 DEF IngesterOk

LEMMA IngestMoves ==
  ASSUME ManualsInv, NEW p \in Ingesters, NEW g \in Ingester \cup {Away},
         ingester' = [ingester EXCEPT ![p] = g], RowsInv', RowsAdvance,
         ingests' \in 0 .. MaxIngests, IngesterOk(p)'
  PROVE  ManualsInv'
<1>1. RowsInv /\ ingester \in [Ingesters -> Ingester \cup {Away}]
      /\ \A q \in Ingesters : IngesterOk(q)
  BY ManualsParts
<1>2. /\ ingester' \in [Ingesters -> Ingester \cup {Away}]
      /\ \A q \in Ingesters \ {p} : ingester'[q] = ingester[q]
  BY <1>1
<1>3. \A q \in Ingesters \ {p} : IngesterOk(q)'
  BY <1>1, <1>2, OtherIngester
<1>4. QED
  BY <1>2, <1>3 DEF ManualsInv, ManualsTypeOK, RowsInv

(* An ingest that has nothing in hand has nothing to promise.              *)
LEMMA EmptyHanded ==
  ASSUME NEW p \in Ingesters,
         ingester'[p].step \notin {"write", "pending", "call", "store"}
  PROVE  IngesterOk(p)'
BY DEF IngesterOk

LEMMA IngestTurns ==
  ASSUME ManualsInv, NEW p \in Ingesters, NEW g \in Ingester \cup {Away}, Goes(p, g),
         UNCHANGED <<sources, inserted, embeddings, indexModel, hasVector>>,
         disk' = disk, ingests' \in 0 .. MaxIngests,
         g.step \notin {"write", "pending", "call", "store"} \/ IngesterOk(p)'
  PROVE  ManualsInv'
<1>1. RowsInv' /\ RowsAdvance
  BY RowsUntouched, ManualsParts
<1>2. ingester' = [ingester EXCEPT ![p] = g] /\ ingester'[p] = g
  BY ManualsParts DEF Goes
<1>3. IngesterOk(p)'
  BY <1>2, EmptyHanded
<1>4. QED
  BY <1>1, <1>2, <1>3, IngestMoves

-----------------------------------------------------------------------------
LEMMA IngesterIs ==
  ASSUME ManualsInv, NEW p \in Ingesters
  PROVE  /\ ingester[p] \in Ingester \cup {Away} /\ IngesterOk(p) /\ RowsInv
         /\ ingests \in 0 .. MaxIngests
BY ManualsParts

LEMMA StartIngestKeeps ==
  ASSUME ManualsInv, NEW p \in Ingesters, NEW embedOnly \in BOOLEAN, StartIngest(p, embedOnly)
  PROVE  ManualsInv'
<1>1. PICK g : g = IF embedOnly THEN [step |-> "lock"] ELSE [step |-> "read", at |-> 1]
  OBVIOUS
<1>2. g \in Ingester \cup {Away} /\ g.step \notin {"write", "pending", "call", "store"}
  BY <1>1 DEF Ingester
<1>3. ingests' \in 0 .. MaxIngests
  BY IngesterIs, ManualsBounds DEF StartIngest
<1>4. Goes(p, g)
  BY <1>1 DEF StartIngest
<1>5. QED
  BY <1>2, <1>3, <1>4, IngestTurns DEF StartIngest

LEMMA QuitsKeeps ==
  ASSUME ManualsInv, NEW p \in Ingesters, Quits(p),
         UNCHANGED <<disk, sources, inserted, embeddings, indexModel, hasVector, ingests>>
  PROVE  ManualsInv'
<1>1. Away \in Ingester \cup {Away} /\ Away.step \notin {"write", "pending", "call", "store"}
  BY DEF Away
<1>2. QED
  BY <1>1, IngesterIs, IngestTurns DEF Quits

LEMMA ReadFileKeeps ==
  ASSUME ManualsInv, NEW p \in Ingesters, ReadFile(p)
  PROVE  ManualsInv'
<1>1. /\ ingester[p].step = "read" /\ ingester[p].at \in Nat \ {0}
      /\ ingests' \in 0 .. MaxIngests
      /\ UNCHANGED <<disk, sources, inserted, embeddings, indexModel, hasVector, ingests>>
  BY IngesterIs, IngesterTyped DEF ReadFile
<1>2. ASSUME NEW g \in Ingester \cup {Away}, Goes(p, g),
             g.step \notin {"write", "pending", "call", "store"}
      PROVE  ManualsInv'
  BY <1>1, <1>2, IngestTurns
<1>3. CASE Goes(p, [step |-> "lock"])
  BY <1>2, <1>3 DEF Ingester
<1>4. CASE Quits(p)
  BY <1>1, <1>4, QuitsKeeps
<1>5. CASE ReadsNext(p)
  <2>1. PICK g : g = [step |-> "read", at |-> ingester[p].at + 1]
    OBVIOUS
  <2>2. g \in Ingester /\ g.step = "read"
    BY <1>1, <2>1 DEF Ingester
  <2>3. QED
    BY <1>2, <1>5, <2>1, <2>2 DEF ReadsNext
<1>6. ASSUME ingester[p].at <= Len(Folder), disk[Folder[ingester[p].at]] \notin {Bad, ImagesOnly},
             Goes(p, [step |-> "select", at |-> ingester[p].at,
                      file |-> Folder[ingester[p].at],
                      content |-> disk[Folder[ingester[p].at]], old |-> NoSource])
      PROVE  ManualsInv'
  <2>1. PICK file, content : file = Folder[ingester[p].at] /\ content = disk[file]
    OBVIOUS
  <2>2. file \in Pdfs \cup Trees
    <3>1. Folder \in Seq(Pdfs \cup Trees) /\ Len(Folder) \in Nat
      BY FolderAssumption
    <3>2. ingester[p].at \in 1 .. Len(Folder)
      BY <1>1, <1>6, <3>1
    <3>3. QED
      BY <2>1, <3>1, <3>2
  <2>3. content \in Contents
    BY <1>6, <2>1, <2>2 DEF ManualsInv, ManualsTypeOK
  <2>4. PICK g : g = [step |-> "select", at |-> ingester[p].at, file |-> file,
                      content |-> content, old |-> NoSource]
    OBVIOUS
  <2>5. NoSource \in 0 .. MaxSources
    BY ManualsBounds DEF NoSource
  <2>6. g \in Ingester /\ g.step = "select"
    BY <1>1, <2>2, <2>3, <2>4, <2>5 DEF Ingester
  <2>7. QED
    BY <1>2, <1>6, <2>1, <2>4, <2>6
<1>7. CASE ingester[p].at > Len(Folder)
  BY <1>3, <1>7 DEF ReadFile
<1>8. CASE ~(ingester[p].at > Len(Folder))
  <2>1. ingester[p].at <= Len(Folder)
    <3>1. Len(Folder) \in Nat
      BY FolderAssumption
    <3>2. QED
      BY <1>1, <1>8, <3>1
  <2>2. PICK content : content = disk[Folder[ingester[p].at]]
    OBVIOUS
  <2>3. \/ content = Bad /\ Quits(p)
        \/ content = ImagesOnly /\ ReadsNext(p)
        \/ /\ content \notin {Bad, ImagesOnly}
           /\ Goes(p, [step |-> "select", at |-> ingester[p].at,
                       file |-> Folder[ingester[p].at],
                       content |-> disk[Folder[ingester[p].at]], old |-> NoSource])
    BY <1>8, <2>2 DEF ReadFile
  <2>4. QED
    BY <1>4, <1>5, <1>6, <2>1, <2>2, <2>3
<1>9. QED
  BY <1>7, <1>8

-----------------------------------------------------------------------------
(* ReplaceDoc.                                                             *)

Selected(g, old) == [g EXCEPT !.step = "write", !.old = old]

LEMMA SelectedTyped ==
  ASSUME NEW g \in Ingester \cup {Away}, g.step = "select", NEW old \in 0 .. MaxSources
  PROVE  /\ Selected(g, old) \in Ingester
         /\ Selected(g, old).step = "write" /\ Selected(g, old).old = old
         /\ Selected(g, old).file = g.file /\ Selected(g, old).content = g.content
<1>1. g \in [step : {"select", "write"}, at : Nat \ {0}, file : Pdfs \cup Trees,
             content : Contents, old : 0 .. MaxSources]
  BY DEF Ingester, Away
<1>2. QED
  BY <1>1 DEF Ingester, Selected

LEMMA SelectSourceKeeps ==
  ASSUME ManualsInv, NEW p \in Ingesters, SelectSource(p)
  PROVE  ManualsInv'
<1> DEFINE same == {s \in sources : s.sha = ShaOf(p)}
           old == IF same = {} THEN NoSource ELSE (CHOOSE s \in same : TRUE).id
<1>1. /\ ingester[p].step = "select" /\ ingester[p] \in Ingester \cup {Away} /\ RowsInv
      /\ UNCHANGED <<disk, sources, inserted, embeddings, indexModel, hasVector, ingests>>
      /\ ingests' \in 0 .. MaxIngests
  BY IngesterIs DEF SelectSource
<1>2. PICK o : o = old
  OBVIOUS
<1>3. /\ o \in 0 .. MaxSources /\ o <= inserted
      /\ \A s \in sources : s.id = o => s.sha = ShaOf(p)
  <2>0. inserted \in Nat /\ MaxSources \in Nat
    BY <1>1, ManualsBounds DEF RowsInv
  <2>1. CASE same = {}
    <3>1. o = 0 /\ \A s \in sources : s.id # 0
      BY <1>1, <1>2, <2>1 DEF NoSource, RowsInv, Source
    <3>2. QED
      BY <2>0, <3>1
  <2>2. CASE same # {}
    <3>1. PICK s \in same : o = s.id
      BY <1>2, <2>2
    <3>2. s.id \in 1 .. MaxSources /\ s.id <= inserted
      BY <1>1 DEF RowsInv, Source
    <3>3. \A t \in sources : t.id = o => t = s
      BY <1>1, <3>1 DEF RowsInv
    <3>4. QED
      BY <2>0, <3>1, <3>2, <3>3
  <2>3. QED
    BY <2>1, <2>2
<1>4. Goes(p, Selected(ingester[p], o))
  BY <1>2 DEF SelectSource, Selected
<1>5. PICK g : g = Selected(ingester[p], o)
  OBVIOUS
<1>6. /\ g \in Ingester /\ g.step = "write" /\ g.old = o
      /\ g.file = ingester[p].file /\ g.content = ingester[p].content
  BY <1>1, <1>3, <1>5, SelectedTyped
<1>7. ingester'[p] = g
  BY <1>4, <1>5, ManualsParts DEF Goes
<1>8. ShaOf(p)' = ShaOf(p)
  BY <1>6, <1>7 DEF ShaOf
<1>9. IngesterOk(p)'
  BY <1>1, <1>3, <1>6, <1>7, <1>8 DEF IngesterOk
<1>10. QED
  BY <1>1, <1>4, <1>5, <1>6, <1>9, IngestTurns

(* What the transaction of a manual leaves, when no other ingest was first.*)
LEMMA ManualReplaced ==
  ASSUME ManualsInv, NEW p \in Ingesters, WriteSource(p), ~Replaced(p)
  PROVE  /\ RowsInv' /\ RowsAdvance
         /\ \A s \in sources : \E t \in sources' : t.sha = s.sha
<1> DEFINE sha == ShaOf(p)
           new == [id |-> inserted + 1, sha |-> sha, content |-> ingester[p].content]
<1>1. /\ ingester[p].step = "write" /\ ingester[p] \in Ingester \cup {Away}
      /\ RowsInv /\ IngesterOk(p)
  BY IngesterIs DEF WriteSource
<1>2. PICK old, content : old = ingester[p].old /\ content = ingester[p].content
  OBVIOUS
<1>3. /\ content \in Contents /\ ingester[p].file \in Pdfs \cup Trees
      /\ old \in 0 .. MaxSources
  BY <1>1, <1>2, IngesterTyped
<1>4. /\ inserted < MaxSources /\ inserted' = inserted + 1
      /\ sources' = {s \in sources : s.id # old} \cup {new}
      /\ embeddings' = Without({old})
      /\ UNCHANGED <<disk, indexModel, hasVector>>
  BY <1>2 DEF WriteSource, Inserts
<1>5. inserted \in Nat /\ MaxSources \in Nat /\ inserted' \in 0 .. MaxSources
  BY <1>1, <1>4, ManualsBounds DEF RowsInv
<1>6. sha \in Shas
  BY <1>2, <1>3 DEF ShaOf, Sha, Shas
<1>7. new.id = inserted + 1 /\ new.sha = sha /\ new \in Source
  BY <1>2, <1>3, <1>4, <1>5, <1>6 DEF Source
<1>8. \A s \in sources : s.sha = sha => s.id = old
  BY <1>2 DEF Replaced
<1>9. \A s \in sources : s.id = old => s.sha = sha
  BY <1>1, <1>2 DEF IngesterOk
<1> HIDE DEF new, sha
<1>10. \A s \in sources : s.id \in Nat /\ s.id <= inserted /\ s.id # new.id
  BY <1>1, <1>5, <1>7 DEF RowsInv, Source
<1>11. /\ sources' \subseteq Source
       /\ \A s \in sources' : s = new \/ (s \in sources /\ s.id # old)
  BY <1>1, <1>4, <1>7 DEF RowsInv
<1>12. \A s, t \in sources' : s.id = t.id \/ s.sha = t.sha => s = t
  <2>1. \A s, t \in sources : s.id = t.id \/ s.sha = t.sha => s = t
    BY <1>1 DEF RowsInv
  <2>2. \A s \in sources' : s # new => s \in sources /\ s.id # new.id /\ s.sha # new.sha
    BY <1>7, <1>8, <1>10, <1>11
  <2>3. QED
    BY <1>11, <2>1, <2>2
<1>13. IsFiniteSet(sources')
  <2>1. IsFiniteSet({s \in sources : s.id # old})
    BY <1>1, FS_Subset DEF RowsInv
  <2>2. QED
    BY <1>4, <2>1, FS_AddElement
<1>14. \A s \in sources' : s.id <= inserted'
  BY <1>4, <1>5, <1>7, <1>10, <1>11
<1>15. RowsAdvance
  BY <1>4, <1>5, <1>7, <1>11 DEF RowsAdvance
<1>16. ASSUME NEW c \in DOMAIN embeddings'
       PROVE  /\ c \in DOMAIN embeddings /\ embeddings'[c] = embeddings[c]
              /\ c \in Chunks' /\ TextOf(c)' = TextOf(c)
  <2>1. /\ c \in DOMAIN embeddings /\ c[1] # old /\ embeddings'[c] = embeddings[c]
    BY <1>4 DEF Without
  <2>2. PICK s \in sources : c \in ChunksOf(s)
    BY <1>1, <2>1 DEF RowsInv, Chunks
  <2>3. c[1] = s.id /\ SourceOf(c) = s
    BY <1>1, <2>2, ChunkHasText
  <2>4. s \in sources'
    BY <1>4, <2>1, <2>3
  <2>5. c \in Chunks'
    BY <2>2, <2>4 DEF Chunks
  <2>6. (CHOOSE x \in sources' : x.id = c[1]) = s
    BY <1>12, <2>3, <2>4
  <2>7. SourceOf(c)' = s
    BY <2>6 DEF SourceOf
  <2>8. QED
    BY <2>1, <2>3, <2>5, <2>7 DEF TextOf
<1>17. VectorsOfTheIndex'
  BY <1>1, <1>4, <1>16 DEF VectorsOfTheIndex, RowsInv
<1>18. RowsInv'
  BY <1>1, <1>4, <1>5, <1>11, <1>12, <1>13, <1>14, <1>16, <1>17 DEF RowsInv
<1>19. \A s \in sources : \E t \in sources' : t.sha = s.sha
  BY <1>4, <1>7, <1>9
<1>20. QED
  BY <1>15, <1>18, <1>19

LEMMA WriteSourceKeeps ==
  ASSUME ManualsInv, NEW p \in Ingesters, WriteSource(p)
  PROVE  ManualsInv' /\ \A s \in sources : \E t \in sources' : t.sha = s.sha
<1>1. CASE Replaced(p)
  BY <1>1, QuitsKeeps DEF WriteSource
<1>2. CASE ~Replaced(p)
  <2>1. /\ RowsInv' /\ RowsAdvance
        /\ \A s \in sources : \E t \in sources' : t.sha = s.sha
    BY <1>2, ManualReplaced
  <2>2. PICK g : g = [step |-> "read", at |-> ingester[p].at + 1]
    OBVIOUS
  <2>3. ingester[p].at \in Nat
    BY IngesterIs, IngesterTyped DEF WriteSource
  <2>4. g \in Ingester /\ g.step = "read"
    BY <2>2, <2>3 DEF Ingester
  <2>5. ingester' = [ingester EXCEPT ![p] = g] /\ ingester'[p] = g
    BY <1>2, <2>2, ManualsParts DEF WriteSource, ReadsNext, Goes
  <2>6. IngesterOk(p)'
    BY <2>4, <2>5, EmptyHanded
  <2>7. ingests' \in 0 .. MaxIngests
    BY IngesterIs DEF WriteSource
  <2>8. QED
    BY <2>1, <2>4, <2>5, <2>6, <2>7, IngestMoves
<1>3. QED
  BY <1>1, <1>2

-----------------------------------------------------------------------------
(* EmbedPending.                                                           *)

LEMMA StepOnly ==
  ASSUME NEW step \in {"lock", "lock_insert", "lock_check", "pending"}
  PROVE  [step |-> step] \in Ingester
BY DEF Ingester

LEMMA ReadModelKeeps ==
  ASSUME ManualsInv, NEW p \in Ingesters, ReadModel(p)
  PROVE  ManualsInv'
<1>1. /\ UNCHANGED <<disk, sources, inserted, embeddings, indexModel, hasVector, ingests>>
      /\ ingests' \in 0 .. MaxIngests
      /\ ingester \in [Ingesters -> Ingester \cup {Away}]
  BY IngesterIs, ManualsParts DEF ReadModel
<1>2. CASE Goes(p, [step |-> "lock_insert"])
  <2>1. PICK g : g = [step |-> "lock_insert"]
    OBVIOUS
  <2>2. g \in Ingester /\ g.step = "lock_insert"
    BY <2>1, StepOnly
  <2>3. QED
    BY <1>1, <1>2, <2>1, <2>2, IngestTurns
<1>3. CASE MatchesIndex(EmbedModel[p]) /\ Goes(p, [step |-> "pending"])
  <2>1. PICK g : g = [step |-> "pending"]
    OBVIOUS
  <2>2. g \in Ingester /\ g.step = "pending"
    BY <2>1, StepOnly
  <2>3. ingester'[p] = g
    BY <1>1, <1>3, <2>1 DEF Goes
  <2>4. IngesterOk(p)'
    BY <1>1, <1>3, <2>2, <2>3 DEF IngesterOk, MatchesIndex
  <2>5. QED
    BY <1>1, <1>3, <2>1, <2>2, <2>4, IngestTurns
<1>4. CASE Quits(p)
  BY <1>1, <1>4, QuitsKeeps
<1>5. QED
  BY <1>2, <1>3, <1>4 DEF ReadModel

LEMMA CheckModelKeeps ==
  ASSUME ManualsInv, NEW p \in Ingesters, CheckModel(p)
  PROVE  ManualsInv'
<1>1. /\ UNCHANGED <<disk, sources, inserted, embeddings, indexModel, hasVector, ingests>>
      /\ ingests' \in 0 .. MaxIngests
      /\ ingester \in [Ingesters -> Ingester \cup {Away}]
  BY IngesterIs, ManualsParts DEF CheckModel
<1>2. CASE MatchesIndex(EmbedModel[p]) /\ Goes(p, [step |-> "pending"])
  <2>1. PICK g : g = [step |-> "pending"]
    OBVIOUS
  <2>2. g \in Ingester /\ g.step = "pending"
    BY <2>1, StepOnly
  <2>3. ingester'[p] = g
    BY <1>1, <1>2, <2>1 DEF Goes
  <2>4. IngesterOk(p)'
    BY <1>1, <1>2, <2>2, <2>3 DEF IngesterOk, MatchesIndex
  <2>5. QED
    BY <1>1, <1>2, <2>1, <2>2, <2>4, IngestTurns
<1>3. CASE Quits(p)
  BY <1>1, <1>3, QuitsKeeps
<1>4. QED
  BY <1>2, <1>3 DEF CheckModel

(* The first model that is recorded stays: until then nothing is embedded. *)
LEMMA InsertModelKeeps ==
  ASSUME ManualsInv, NEW p \in Ingesters, InsertModel(p)
  PROVE  ManualsInv'
<1>1. /\ UNCHANGED <<disk, sources, inserted, embeddings, hasVector, ingests>>
      /\ indexModel' = IF indexModel = NoModel THEN EmbedModel[p] ELSE indexModel
      /\ Goes(p, [step |-> "lock_check"])
      /\ ingests' \in 0 .. MaxIngests /\ RowsInv
      /\ ingester \in [Ingesters -> Ingester \cup {Away}]
  BY IngesterIs, ManualsParts DEF InsertModel
<1>2. PICK g : g = [step |-> "lock_check"]
  OBVIOUS
<1>3. g \in Ingester /\ g.step = "lock_check" /\ ingester' = [ingester EXCEPT ![p] = g]
  BY <1>1, <1>2, StepOnly DEF Goes
<1>4. EmbedModel[p] \in Models
  BY DEF Models
<1>5. Chunks' = Chunks /\ \A c : TextOf(c)' = TextOf(c)
  BY <1>1 DEF Chunks, TextOf, SourceOf
<1>6. \A c \in DOMAIN embeddings : indexModel' = indexModel
  <2> SUFFICES ASSUME NEW c \in DOMAIN embeddings PROVE indexModel' = indexModel
    OBVIOUS
  <2>1. embeddings[c].model \in Models /\ embeddings[c].model = indexModel
    BY <1>1 DEF RowsInv, VectorsOfTheIndex
  <2>2. QED
    BY <1>1, <2>1, ModelsAssumption
<1>7. VectorsOfTheIndex'
  BY <1>1, <1>5, <1>6 DEF VectorsOfTheIndex, RowsInv
<1>8. RowsInv'
  BY <1>1, <1>4, <1>5, <1>7 DEF RowsInv
<1>9. RowsAdvance
  BY <1>1 DEF RowsAdvance, RowsInv
<1>10. IngesterOk(p)'
  <2>1. ingester'[p] = g
    BY <1>1, <1>3
  <2>2. QED
    BY <1>3, <2>1, EmptyHanded
<1>11. QED
  BY <1>1, <1>3, <1>8, <1>9, <1>10, IngestMoves

LEMMA ReadPendingKeeps ==
  ASSUME ManualsInv, NEW p \in Ingesters, ReadPending(p)
  PROVE  ManualsInv'
<1>1. /\ UNCHANGED <<disk, sources, inserted, embeddings, indexModel, hasVector, ingests>>
      /\ ingests' \in 0 .. MaxIngests /\ RowsInv /\ IngesterOk(p)
      /\ ingester \in [Ingesters -> Ingester \cup {Away}]
      /\ ingester[p].step = "pending"
  BY IngesterIs, ManualsParts DEF ReadPending
<1>2. CASE Quits(p)
  BY <1>1, <1>2, QuitsKeeps
<1>3. ASSUME NEW b \in Batches,
             Goes(p, [step |-> "call", batch |-> b,
                      texts |-> [i \in DOMAIN b |-> TextOf(b[i])]])
      PROVE  ManualsInv'
  <2>1. PICK texts : texts = [i \in DOMAIN b |-> TextOf(b[i])]
    OBVIOUS
  <2>2. BatchSize \in Nat
    <3>1. Pending \subseteq Chunks /\ IsFiniteSet(Pending)
      BY <1>1, ChunksFinite, FS_Subset DEF Pending
    <3>2. QED
      BY <3>1, FS_CardinalityType, ManualsBounds DEF BatchSize
  <2>3. b \in [1 .. BatchSize -> Pending]
    BY DEF Batches
  <2>4. \A i \in DOMAIN b : b[i] \in Chunks /\ b[i] \in ChunkIds
                            /\ TextOf(b[i]) \in Texts /\ b[i][1] <= inserted
    BY <1>1, <2>3, ChunksTyped DEF Pending
  <2>5. b \in Seq(ChunkIds)
    BY <2>2, <2>3, <2>4
  <2>6. texts \in [1 .. BatchSize -> Texts] /\ DOMAIN texts = DOMAIN b
    BY <2>1, <2>3, <2>4
  <2>7. texts \in Seq(Texts)
    BY <2>2, <2>6
  <2>8. PICK g : g = [step |-> "call", batch |-> b, texts |-> texts]
    OBVIOUS
  <2>9. g \in Ingester /\ g.step = "call" /\ g.batch = b /\ g.texts = texts
    BY <2>5, <2>7, <2>8 DEF Ingester
  <2>10. ingester' = [ingester EXCEPT ![p] = g] /\ ingester'[p] = g
    BY <1>1, <1>3, <2>1, <2>8 DEF Goes
  <2>11. IngesterOk(p)'
    <3>1. InHand(p)' = texts
      BY <2>9, <2>10 DEF InHand
    <3>2. indexModel' = EmbedModel[p]
      BY <1>1 DEF IngesterOk
    <3>3. \A i \in DOMAIN b : texts[i] = TextOf(b[i])
      BY <2>1
    <3>4. \A c : TextOf(c)' = TextOf(c)
      BY <1>1 DEF TextOf, SourceOf
    <3>5. QED
      BY <1>1, <2>4, <2>6, <2>9, <2>10, <3>1, <3>2, <3>3, <3>4 DEF IngesterOk
  <2>12. Goes(p, g)
    BY <2>10 DEF Goes
  <2>13. QED
    BY <1>1, <2>9, <2>11, <2>12, IngestTurns
<1>4. QED
  BY <1>2, <1>3 DEF ReadPending

LEMMA CallEmbedderKeeps ==
  ASSUME ManualsInv, NEW p \in Ingesters, CallEmbedder(p)
  PROVE  ManualsInv'
<1>1. /\ UNCHANGED <<disk, sources, inserted, embeddings, indexModel, hasVector, ingests>>
      /\ ingests' \in 0 .. MaxIngests /\ RowsInv /\ IngesterOk(p)
      /\ ingester \in [Ingesters -> Ingester \cup {Away}]
      /\ ingester[p].step = "call"
  BY IngesterIs, ManualsParts DEF CallEmbedder
<1>2. PICK batch, texts : batch = ingester[p].batch /\ texts = ingester[p].texts
  OBVIOUS
<1>3. batch \in Seq(ChunkIds) /\ texts \in Seq(Texts)
  BY <1>1, <1>2, IngesterTyped
<1>4. PICK reply \in Replies(texts) :
        Goes(p, [step |-> "store", batch |-> batch, vectors |-> OrderVectors(reply)])
  BY <1>2 DEF CallEmbedder
<1>5. OrderVectors(reply) = texts
  BY <1>3, OrderedAsAsked
<1>6. PICK g : g = [step |-> "store", batch |-> batch, vectors |-> texts]
  OBVIOUS
<1>7. g \in Ingester /\ g.step = "store" /\ g.batch = batch /\ g.vectors = texts
  BY <1>3, <1>6 DEF Ingester
<1>8. Goes(p, g) /\ ingester'[p] = g
  BY <1>1, <1>4, <1>5, <1>6 DEF Goes
<1>9. IngesterOk(p)'
  <2>1. InHand(p)' = texts /\ InHand(p) = texts
    BY <1>1, <1>2, <1>7, <1>8 DEF InHand
  <2>2. \A c : TextOf(c)' = TextOf(c)
    BY <1>1 DEF TextOf, SourceOf
  <2>3. Chunks' = Chunks
    BY <1>1 DEF Chunks
  <2>4. QED
    BY <1>1, <1>2, <1>7, <1>8, <2>1, <2>2, <2>3 DEF IngesterOk
<1>10. QED
  BY <1>1, <1>7, <1>8, <1>9, IngestTurns

LEMMA StoreVectorsKeeps ==
  ASSUME ManualsInv, NEW p \in Ingesters, StoreVectors(p)
  PROVE  ManualsInv'
<1>1. /\ UNCHANGED <<disk, sources, inserted, indexModel, hasVector, ingests>>
      /\ ingests' \in 0 .. MaxIngests /\ RowsInv /\ IngesterOk(p)
      /\ ingester \in [Ingesters -> Ingester \cup {Away}]
      /\ ingester[p].step = "store" /\ Goes(p, [step |-> "pending"])
  BY IngesterIs, ManualsParts DEF StoreVectors
<1>2. PICK batch, answer : batch = ingester[p].batch /\ answer = ingester[p].vectors
  OBVIOUS
<1> DEFINE stored == {i \in DOMAIN batch : batch[i] \in Chunks}
           at(c) == CHOOSE i \in stored : batch[i] = c
           new == {batch[i] : i \in stored}
<1>3. embeddings' = [c \in DOMAIN embeddings \cup new |->
        IF c \in new THEN [model |-> EmbedModel[p], text |-> answer[at(c)]]
                     ELSE embeddings[c]]
  BY <1>2 DEF StoreVectors
<1>4. indexModel = EmbedModel[p]
  BY <1>1 DEF IngesterOk
<1>5. \A i \in stored : answer[i] = TextOf(batch[i])
  BY <1>1, <1>2 DEF IngesterOk, InHand
<1>6. \A c \in new : answer[at(c)] = TextOf(c) /\ c \in Chunks
  BY <1>5
<1> HIDE DEF at, new
<1>7. Chunks' = Chunks /\ \A c : TextOf(c)' = TextOf(c)
  BY <1>1 DEF Chunks, TextOf, SourceOf
<1>8. DOMAIN embeddings' \subseteq Chunks'
  BY <1>1, <1>3, <1>6, <1>7 DEF RowsInv
<1>9. ASSUME NEW c \in DOMAIN embeddings'
      PROVE  embeddings'[c] = [model |-> indexModel', text |-> TextOf(c)']
  <2>1. CASE c \in new
    BY <1>1, <1>3, <1>4, <1>6, <1>7, <2>1
  <2>2. CASE c \notin new
    BY <1>1, <1>3, <1>7, <2>2 DEF RowsInv, VectorsOfTheIndex
  <2>3. QED
    BY <2>1, <2>2
<1>10. VectorsOfTheIndex'
  BY <1>9 DEF VectorsOfTheIndex
<1>11. \A c \in DOMAIN embeddings' : embeddings'[c] \in [model : Models, text : Texts]
  <2>1. indexModel' \in Models
    BY <1>1, <1>4 DEF Models
  <2>2. \A c \in DOMAIN embeddings' : TextOf(c)' \in Texts
    BY <1>1, <1>7, <1>8, ChunksTyped
  <2>3. QED
    BY <1>9, <2>1, <2>2
<1>12. RowsInv'
  BY <1>1, <1>7, <1>8, <1>10, <1>11 DEF RowsInv
<1>13. RowsAdvance
  BY <1>1 DEF RowsAdvance, RowsInv
<1>14. PICK g : g = [step |-> "pending"]
  OBVIOUS
<1>15. g \in Ingester /\ g.step = "pending"
  BY <1>14, StepOnly
<1>16. ingester' = [ingester EXCEPT ![p] = g] /\ ingester'[p] = g
  BY <1>1, <1>14 DEF Goes
<1>17. IngesterOk(p)'
  BY <1>1, <1>4, <1>15, <1>16 DEF IngesterOk
<1>18. QED
  BY <1>1, <1>12, <1>13, <1>15, <1>16, <1>17, IngestMoves

-----------------------------------------------------------------------------
KeptOnFile == \A s \in sources : \E t \in sources' : t.sha = s.sha

LEMMA ManualsStart == ManualsInit => ManualsInv
<1> SUFFICES ASSUME ManualsInit PROVE ManualsInv
  OBVIOUS
<1>1. DOMAIN embeddings = {} /\ sources = {} /\ inserted = 0 /\ ingests = 0
      /\ indexModel = NoModel
  BY DEF ManualsInit
<1>2. /\ inserted \in 0 .. MaxSources /\ ingests \in 0 .. MaxIngests
      /\ disk \in [Pdfs \cup Trees -> Contents \cup {Bad, ImagesOnly}]
      /\ hasVector \in BOOLEAN
  BY <1>1, ManualsBounds DEF ManualsInit
<1>3. IsFiniteSet(sources)
  BY <1>1, FS_EmptySet
<1>4. RowsInv
  BY <1>1, <1>2, <1>3 DEF RowsInv, VectorsOfTheIndex
<1>5. ingester = [p \in Ingesters |-> Away] /\ Away \in Ingester \cup {Away}
  BY DEF ManualsInit
<1>6. ingester \in [Ingesters -> Ingester \cup {Away}]
  BY <1>5
<1>7. \A p \in Ingesters : ingester[p].step \notin {"write", "pending", "call", "store"}
  BY <1>5 DEF Away
<1>8. \A p \in Ingesters : IngesterOk(p)
  BY <1>7 DEF IngesterOk
<1>9. QED
  BY <1>2, <1>4, <1>6, <1>8, ManualsParts

LEMMA NobodyMoves ==
  ASSUME ManualsInv, UNCHANGED <<ingester, ingests>>, RowsInv', RowsAdvance
  PROVE  ManualsInv'
<1>1. \A q \in Ingesters : IngesterOk(q)'
  BY OtherIngester, ManualsParts
<1>2. QED
  BY <1>1, ManualsParts DEF ManualsInv, ManualsTypeOK, RowsInv

LEMMA EditFileKeeps ==
  ASSUME ManualsInv, NEW file \in Pdfs \cup Trees,
         NEW content \in Contents \cup {Bad, ImagesOnly}, EditFile(file, content)
  PROVE  ManualsInv'
<1>1. /\ UNCHANGED <<sources, inserted, embeddings, indexModel, hasVector, ingester, ingests>>
      /\ disk' = [disk EXCEPT ![file] = content] /\ RowsInv
  BY ManualsParts DEF EditFile
<1>2. RowsInv'
  BY <1>1 DEF RowsInv, VectorsOfTheIndex, Chunks, TextOf, SourceOf
<1>3. RowsAdvance
  BY <1>1 DEF RowsAdvance, RowsInv
<1>4. QED
  BY <1>1, <1>2, <1>3, NobodyMoves

LEMMA IngestNextKeeps ==
  ASSUME ManualsInv, IngestNext
  PROVE  ManualsInv' /\ KeptOnFile
<1>1. ASSUME NEW p \in Ingesters, WriteSource(p) PROVE ManualsInv' /\ KeptOnFile
  BY <1>1, WriteSourceKeeps DEF KeptOnFile
<1>2. ASSUME UNCHANGED sources PROVE KeptOnFile
  BY <1>2 DEF KeptOnFile
<1>3. ASSUME NEW p \in Ingesters, NEW embedOnly \in BOOLEAN, StartIngest(p, embedOnly)
      PROVE  ManualsInv' /\ KeptOnFile
  BY <1>2, <1>3, StartIngestKeeps DEF StartIngest
<1>4. ASSUME NEW p \in Ingesters, ReadFile(p) PROVE ManualsInv' /\ KeptOnFile
  BY <1>2, <1>4, ReadFileKeeps DEF ReadFile
<1>5. ASSUME NEW p \in Ingesters, SelectSource(p) PROVE ManualsInv' /\ KeptOnFile
  BY <1>2, <1>5, SelectSourceKeeps DEF SelectSource
<1>6. ASSUME NEW p \in Ingesters, ReadModel(p) PROVE ManualsInv' /\ KeptOnFile
  BY <1>2, <1>6, ReadModelKeeps DEF ReadModel
<1>7. ASSUME NEW p \in Ingesters, InsertModel(p) PROVE ManualsInv' /\ KeptOnFile
  BY <1>2, <1>7, InsertModelKeeps DEF InsertModel
<1>8. ASSUME NEW p \in Ingesters, CheckModel(p) PROVE ManualsInv' /\ KeptOnFile
  BY <1>2, <1>8, CheckModelKeeps DEF CheckModel
<1>9. ASSUME NEW p \in Ingesters, ReadPending(p) PROVE ManualsInv' /\ KeptOnFile
  BY <1>2, <1>9, ReadPendingKeeps DEF ReadPending
<1>10. ASSUME NEW p \in Ingesters, CallEmbedder(p) PROVE ManualsInv' /\ KeptOnFile
  BY <1>2, <1>10, CallEmbedderKeeps DEF CallEmbedder
<1>11. ASSUME NEW p \in Ingesters, StoreVectors(p) PROVE ManualsInv' /\ KeptOnFile
  BY <1>2, <1>11, StoreVectorsKeeps DEF StoreVectors
<1>12. ASSUME NEW p \in Ingesters, AbortIngest(p) PROVE ManualsInv' /\ KeptOnFile
  BY <1>2, <1>12, QuitsKeeps DEF AbortIngest
<1>13. QED
  BY <1>1, <1>3, <1>4, <1>5, <1>6, <1>7, <1>8, <1>9, <1>10, <1>11, <1>12
  DEF IngestNext, IngestStep

LEMMA ManualsUntouched ==
  ASSUME ManualsInv, UNCHANGED manualVars
  PROVE  ManualsInv'
<1>1. /\ UNCHANGED <<disk, sources, inserted, embeddings, indexModel, hasVector>>
      /\ UNCHANGED <<ingester, ingests>>
  BY DEF manualVars
<1>2. RowsInv' /\ RowsAdvance
  BY <1>1, RowsUntouched, ManualsParts
<1>3. QED
  BY <1>1, <1>2, NobodyMoves

LEMMA ManualsStep ==
  ASSUME ManualsInv, [ManualsNext]_manualVars
  PROVE  ManualsInv' /\ [KeptOnFile]_sources
<1>1. CASE IngestNext
  BY <1>1, IngestNextKeeps
<1>2. ASSUME NEW file \in Pdfs \cup Trees, NEW content \in Contents \cup {Bad, ImagesOnly},
             EditFile(file, content)
      PROVE  ManualsInv' /\ [KeptOnFile]_sources
  BY <1>2, EditFileKeeps DEF EditFile
<1>3. CASE UNCHANGED manualVars
  BY <1>3, ManualsUntouched DEF manualVars
<1>4. QED
  BY <1>1, <1>2, <1>3 DEF ManualsNext

THEOREM ManualsInvariant == ManualsSpec => []ManualsInv
<1>1. ManualsInv /\ [ManualsNext]_manualVars => ManualsInv'
  BY ManualsStep
<1>2. QED
  BY <1>1, ManualsStart, PTL DEF ManualsSpec

(* Each stored vector is of its own chunk's text and of the index's model, *)
(* for any folder, builds and ingests at once (EmbedPending).              *)
THEOREM VectorsAreTrue == ManualsSpec => []VectorsOfTheIndex
<1>1. ManualsInv => VectorsOfTheIndex
  BY DEF ManualsInv
<1>2. QED
  BY <1>1, ManualsInvariant, PTL

(* No ingest takes a manual off file (ReplaceDoc).                         *)
THEOREM ManualsStayOnFile == ManualsSpec => ManualStays
<1>1. ManualsInv /\ [ManualsNext]_manualVars
        => [\A s \in sources : \E t \in sources' : t.sha = s.sha]_sources
  BY ManualsStep DEF KeptOnFile
<1>2. QED
  BY <1>1, ManualsInvariant, PTL DEF ManualsSpec, ManualStays

-----------------------------------------------------------------------------
(* PlaybookBuild: any technicians, cars, manuals and requests.             *)

OwnJob(t, job) ==
  IF ShopOf[t] = Freelance THEN job.by = t ELSE ShopOf[job.by] = ShopOf[t]

(* What a request has gathered was there to be read, and in scope.         *)
GatheredOk(g) ==
  /\ g.session <= Len(jobs)
  /\ \A i \in g.work : i \in DOMAIN jobs /\ jobs[i].car = g.car /\ OwnJob(g.by, jobs[i])
  /\ \A i \in g.matches : i \in DOMAIN jobs /\ jobs[i].car # g.car /\ OwnJob(g.by, jobs[i])
  /\ g.compared \subseteq {ServerModel}

BuildInv ==
  /\ BuildTypeOK
  /\ Len(jobs) <= MaxJobs
  /\ \A i \in DOMAIN jobs : jobs[i].shop = ShopOf[jobs[i].by]
  /\ \A b \in Builders : builder[b] # Idle => GatheredOk(builder[b])

(* While a query waits to be ranked by its vector, the index is the one    *)
(* that was looked up.                                                     *)
Ranking(g) == g.step = "cosine" \/ (g.step = "text" /\ g.vector)
IndexAsRead == \A b \in Builders : Ranking(builder[b]) => indexModel = ServerModel

LEMMA BuilderIs ==
  ASSUME BuildInv, NEW b \in Builders, builder[b].step # "none"
  PROVE  builder[b] \in Gathered /\ GatheredOk(builder[b])
BY DEF BuildInv, BuildTypeOK, Idle

LEMMA GatheredBusy ==
  ASSUME NEW g \in Gathered
  PROVE  g # Idle
BY DEF Gathered, BuildSteps, Idle

(* The jobs stay, so what was gathered stays in scope.                     *)
LEMMA JobsOnly ==
  ASSUME BuildInv, NEW g \in Gathered, GatheredOk(g),
         Len(jobs) <= Len(jobs'), DOMAIN jobs \subseteq DOMAIN jobs',
         \A i \in DOMAIN jobs : jobs'[i] = jobs[i], Len(jobs') \in Nat
  PROVE  GatheredOk(g)'
<1>1. g.session \in Nat /\ Len(jobs) \in Nat
  BY BuildBounds DEF Gathered, BuildInv, BuildTypeOK
<1>2. \A i \in DOMAIN jobs : OwnJob(g.by, jobs'[i]) <=> OwnJob(g.by, jobs[i])
  BY DEF OwnJob
<1>3. QED
  BY <1>1, <1>2 DEF GatheredOk, OwnJob

LEMMA BuilderMoves ==
  ASSUME BuildInv, NEW b \in Builders, NEW g \in Gathered \cup {Idle},
         builder' = [builder EXCEPT ![b] = g], UNCHANGED jobs,
         row' \in [Cars -> Platform \cup {NoRow}], builds' \in 0 .. MaxBuilds,
         g # Idle => GatheredOk(g)
  PROVE  BuildInv'
<1>1. /\ builder' \in [Builders -> Gathered \cup {Idle}]
      /\ \A c \in Builders \ {b} : builder'[c] = builder[c]
      /\ builder'[b] = g
  BY DEF BuildInv, BuildTypeOK
<1>2. \A h : GatheredOk(h)' = GatheredOk(h)
  BY DEF GatheredOk, OwnJob
<1>3. \A c \in Builders : builder'[c] # Idle => GatheredOk(builder'[c])
  BY <1>1 DEF BuildInv
<1>4. \A c \in Builders : builder'[c] # Idle => GatheredOk(builder[c])'
  BY <1>3 DEF GatheredOk, OwnJob
<1>5. QED
  BY <1>1, <1>4 DEF BuildInv, BuildTypeOK

LEMMA BuilderReads ==
  ASSUME BuildInv, NEW b \in Builders, NEW g \in Gathered \cup {Idle},
         builder' = [builder EXCEPT ![b] = g], UNCHANGED <<row, jobs, builds>>,
         g # Idle => GatheredOk(g)
  PROVE  BuildInv'
<1>1. row' \in [Cars -> Platform \cup {NoRow}] /\ builds' \in 0 .. MaxBuilds
  BY DEF BuildInv, BuildTypeOK
<1>2. QED
  BY <1>1, BuilderMoves

LEMMA EndsKeeps ==
  ASSUME BuildInv, NEW b \in Builders, Ends(b), UNCHANGED <<row, jobs, builds>>
  PROVE  BuildInv'
<1>1. Idle \in Gathered \cup {Idle}
  OBVIOUS
<1>2. QED
  BY <1>1, BuilderReads DEF Ends

-----------------------------------------------------------------------------
(* What a read adds to the prompt.                                         *)

ToStep(g, step) == [g EXCEPT !.step = step]

LEMMA ToStepTyped ==
  ASSUME NEW g \in Gathered, NEW step \in BuildSteps
  PROVE  /\ ToStep(g, step) \in Gathered
         /\ GatheredOk(g) => GatheredOk(ToStep(g, step))
<1>1. /\ ToStep(g, step) \in Gathered
      /\ ToStep(g, step).session = g.session /\ ToStep(g, step).car = g.car
      /\ ToStep(g, step).by = g.by /\ ToStep(g, step).work = g.work
      /\ ToStep(g, step).matches = g.matches /\ ToStep(g, step).compared = g.compared
  BY DEF Gathered, ToStep
<1>2. QED
  BY <1>1 DEF GatheredOk

Naming(g, step, is) == [g EXCEPT !.step = step, !.is = is]

LEMMA NamingTyped ==
  ASSUME NEW g \in Gathered, NEW step \in BuildSteps, NEW is \in Asked
  PROVE  /\ Naming(g, step, is) \in Gathered
         /\ GatheredOk(g) => GatheredOk(Naming(g, step, is))
<1> DEFINE h == Naming(g, step, is)
<1>1. /\ h \in Gathered /\ h.session = g.session /\ h.car = g.car /\ h.by = g.by
      /\ h.work = g.work /\ h.matches = g.matches /\ h.compared = g.compared
  BY DEF Gathered, Naming
<1> HIDE DEF h
<1>2. GatheredOk(g) => GatheredOk(h)
  BY <1>1 DEF GatheredOk
<1>3. QED
  BY <1>1, <1>2 DEF h

Working(g, work) == [g EXCEPT !.step = "session", !.work = work]

LEMMA WorkingTyped ==
  ASSUME NEW g \in Gathered, NEW work \in SUBSET (1 .. MaxJobs)
  PROVE  /\ Working(g, work) \in Gathered
         /\ GatheredOk(g) /\ (\A i \in work : /\ i \in DOMAIN jobs /\ jobs[i].car = g.car
                                              /\ OwnJob(g.by, jobs[i]))
              => GatheredOk(Working(g, work))
<1> DEFINE h == Working(g, work)
<1>1. /\ h \in Gathered /\ h.session = g.session /\ h.car = g.car /\ h.by = g.by
      /\ h.work = work /\ h.matches = g.matches /\ h.compared = g.compared
  BY DEF Gathered, BuildSteps, Working
<1> HIDE DEF h
<1>2. GatheredOk(g) /\ (\A i \in work : /\ i \in DOMAIN jobs /\ jobs[i].car = g.car
                                        /\ OwnJob(g.by, jobs[i]))
        => GatheredOk(h)
  BY <1>1 DEF GatheredOk
<1>3. QED
  BY <1>1, <1>2 DEF h

Matching(g, matches) == [g EXCEPT !.step = "pin", !.matches = matches]

LEMMA MatchingTyped ==
  ASSUME NEW g \in Gathered, NEW matches \in SUBSET (1 .. MaxJobs)
  PROVE  /\ Matching(g, matches) \in Gathered
         /\ GatheredOk(g) /\ (\A i \in matches : /\ i \in DOMAIN jobs /\ jobs[i].car # g.car
                                                 /\ OwnJob(g.by, jobs[i]))
              => GatheredOk(Matching(g, matches))
<1> DEFINE h == Matching(g, matches)
<1>1. /\ h \in Gathered /\ h.session = g.session /\ h.car = g.car /\ h.by = g.by
      /\ h.work = g.work /\ h.matches = matches /\ h.compared = g.compared
  BY DEF Gathered, BuildSteps, Matching
<1> HIDE DEF h
<1>2. GatheredOk(g) /\ (\A i \in matches : /\ i \in DOMAIN jobs /\ jobs[i].car # g.car
                                           /\ OwnJob(g.by, jobs[i]))
        => GatheredOk(h)
  BY <1>1 DEF GatheredOk
<1>3. QED
  BY <1>1, <1>2 DEF h

Embedded(g, vector) == [g EXCEPT !.step = "search", !.vector = vector]

LEMMA EmbeddedTyped ==
  ASSUME NEW g \in Gathered, NEW vector \in BOOLEAN
  PROVE  /\ Embedded(g, vector) \in Gathered
         /\ GatheredOk(g) => GatheredOk(Embedded(g, vector))
<1> DEFINE h == Embedded(g, vector)
<1>1. /\ h \in Gathered /\ h.session = g.session /\ h.car = g.car /\ h.by = g.by
      /\ h.work = g.work /\ h.matches = g.matches /\ h.compared = g.compared
  BY DEF Gathered, BuildSteps, Embedded
<1> HIDE DEF h
<1>2. GatheredOk(g) => GatheredOk(h)
  BY <1>1 DEF GatheredOk
<1>3. QED
  BY <1>1, <1>2 DEF h

Rechecked(g, vector) == [g EXCEPT !.step = "text", !.vector = vector]

LEMMA RecheckedTyped ==
  ASSUME NEW g \in Gathered, NEW vector \in BOOLEAN
  PROVE  /\ Rechecked(g, vector) \in Gathered
         /\ GatheredOk(g) => GatheredOk(Rechecked(g, vector))
<1> DEFINE h == Rechecked(g, vector)
<1>1. /\ h \in Gathered /\ h.session = g.session /\ h.car = g.car /\ h.by = g.by
      /\ h.work = g.work /\ h.matches = g.matches /\ h.compared = g.compared
  BY DEF Gathered, BuildSteps, Rechecked
<1> HIDE DEF h
<1>2. GatheredOk(g) => GatheredOk(h)
  BY <1>1 DEF GatheredOk
<1>3. QED
  BY <1>1, <1>2 DEF h

Found(g, step, books) == [g EXCEPT !.step = step, !.books = books]

LEMMA FoundTyped ==
  ASSUME NEW g \in Gathered, NEW step \in BuildSteps, NEW books \in SUBSET (1 .. MaxSources)
  PROVE  /\ Found(g, step, books) \in Gathered
         /\ GatheredOk(g) => GatheredOk(Found(g, step, books))
<1> DEFINE h == Found(g, step, books)
<1>1. /\ h \in Gathered /\ h.session = g.session /\ h.car = g.car /\ h.by = g.by
      /\ h.work = g.work /\ h.matches = g.matches /\ h.compared = g.compared
  BY DEF Gathered, Found
<1> HIDE DEF h
<1>2. GatheredOk(g) => GatheredOk(h)
  BY <1>1 DEF GatheredOk
<1>3. QED
  BY <1>1, <1>2 DEF h

Searched(g, books, compared) ==
  [g EXCEPT !.step = "figures", !.books = books, !.compared = compared]

LEMMA SearchedTyped ==
  ASSUME NEW g \in Gathered, NEW books \in SUBSET (1 .. MaxSources),
         NEW compared \in SUBSET Models
  PROVE  /\ Searched(g, books, compared) \in Gathered
         /\ GatheredOk(g) /\ compared \subseteq {ServerModel}
              => GatheredOk(Searched(g, books, compared))
<1> DEFINE h == Searched(g, books, compared)
<1>1. /\ h \in Gathered /\ h.session = g.session /\ h.car = g.car /\ h.by = g.by
      /\ h.work = g.work /\ h.matches = g.matches /\ h.compared = compared
  BY DEF Gathered, BuildSteps, Searched
<1> HIDE DEF h
<1>2. GatheredOk(g) /\ compared \subseteq {ServerModel} => GatheredOk(h)
  BY <1>1 DEF GatheredOk
<1>3. QED
  BY <1>1, <1>2 DEF h

Illustrated(g, figures) == [g EXCEPT !.step = "chat", !.figures = figures]

LEMMA IllustratedTyped ==
  ASSUME NEW g \in Gathered, NEW figures \in SUBSET (1 .. MaxSources)
  PROVE  /\ Illustrated(g, figures) \in Gathered
         /\ GatheredOk(g) => GatheredOk(Illustrated(g, figures))
<1> DEFINE h == Illustrated(g, figures)
<1>1. /\ h \in Gathered /\ h.session = g.session /\ h.car = g.car /\ h.by = g.by
      /\ h.work = g.work /\ h.matches = g.matches /\ h.compared = g.compared
  BY DEF Gathered, BuildSteps, Illustrated
<1> HIDE DEF h
<1>2. GatheredOk(g) => GatheredOk(h)
  BY <1>1 DEF GatheredOk
<1>3. QED
  BY <1>1, <1>2 DEF h

-----------------------------------------------------------------------------
LEMMA ShaCovered ==
  ASSUME ManualsInv, NEW s \in sources
  PROVE  /\ s.id \in 1 .. MaxSources
         /\ Covers[s.sha].name \in BuiltNames /\ Covers[s.sha].from \in Years
<1>1. s \in Source
  BY DEF ManualsInv, ManualsTypeOK
<1>2. s.sha \in DOMAIN Covers
  BY <1>1, CoversAssumption DEF Source
<1>3. QED
  BY <1>1, <1>2 DEF Source, BuiltNames, Years

LEMMA FillBlankTyped ==
  ASSUME NEW is \in Asked, NEW with,
         with.name \in BuiltNames \cup {Unnamed}, with.year \in Years \cup {NoYear}
  PROVE  FillBlank(is, with) \in Asked
BY DEF FillBlank, Asked

LEMMA ReadVehicleKeeps ==
  ASSUME BuildInv, NEW b \in Builders, ReadVehicle(b)
  PROVE  BuildInv'
<1> DEFINE g == builder[b]
           is == IF row[g.car] = NoRow THEN g.is ELSE FillBlank(g.is, row[g.car])
           step == IF row[g.car] = NoRow THEN "session" ELSE "work"
<1>1. g \in Gathered /\ GatheredOk(g) /\ UNCHANGED <<row, jobs, builds>>
      /\ row \in [Cars -> Platform \cup {NoRow}]
      /\ builder \in [Builders -> Gathered \cup {Idle}]
  BY BuilderIs DEF ReadVehicle, BuildInv, BuildTypeOK
<1>2. is \in Asked
  <2>1. g.is \in Asked /\ g.car \in Cars
    BY <1>1 DEF Gathered
  <2>2. CASE row[g.car] = NoRow
    BY <2>1, <2>2
  <2>3. CASE row[g.car] # NoRow
    <3>1. row[g.car] \in Platform
      BY <1>1, <2>1, <2>3
    <3>2. FillBlank(g.is, row[g.car]) \in Asked
      BY <2>1, <3>1, FillBlankTyped DEF Platform
    <3>3. QED
      BY <2>3, <3>2
  <2>4. QED
    BY <2>2, <2>3
<1>3. step \in BuildSteps
  BY DEF BuildSteps
<1>4. builder' = [builder EXCEPT ![b].step = step, ![b].is = is]
  BY DEF ReadVehicle
<1> HIDE DEF is, step
<1>5. builder' = [builder EXCEPT ![b] = Naming(g, step, is)]
  BY <1>1, <1>4 DEF Naming
<1>6. Naming(g, step, is) \in Gathered /\ GatheredOk(Naming(g, step, is))
  BY <1>1, <1>2, <1>3, NamingTyped
<1>7. QED
  BY <1>1, <1>5, <1>6, BuilderReads

(* The shop's jobs for its technicians, his own for a freelancer.          *)
LEMMA SeesOwn ==
  ASSUME BuildInv, NEW b \in Builders, NEW i \in DOMAIN jobs, Sees(b, jobs[i])
  PROVE  OwnJob(builder[b].by, jobs[i])
<1>1. jobs[i].shop = ShopOf[jobs[i].by]
  BY DEF BuildInv
<1>2. QED
  BY <1>1 DEF Sees, InShopScope, OwnJob

LEMMA JobsBounded ==
  ASSUME BuildInv
  PROVE  DOMAIN jobs \subseteq 1 .. MaxJobs /\ Len(jobs) \in 0 .. MaxJobs
<1>1. DOMAIN jobs = 1 .. Len(jobs) /\ Len(jobs) \in Nat /\ Len(jobs) <= MaxJobs
  BY DEF BuildInv, BuildTypeOK
<1>2. QED
  BY <1>1, BuildBounds

LEMMA ReadWorkKeeps ==
  ASSUME BuildInv, NEW b \in Builders, ReadWork(b)
  PROVE  BuildInv'
<1> DEFINE g == builder[b]
           work == {i \in DOMAIN jobs : jobs[i].car = g.car /\ Sees(b, jobs[i])}
<1>1. g \in Gathered /\ GatheredOk(g) /\ UNCHANGED <<row, jobs, builds>>
      /\ builder \in [Builders -> Gathered \cup {Idle}]
  BY BuilderIs DEF ReadWork, BuildInv, BuildTypeOK
<1>2. work \in SUBSET (1 .. MaxJobs)
  BY JobsBounded
<1>3. \A i \in work : i \in DOMAIN jobs /\ jobs[i].car = g.car /\ OwnJob(g.by, jobs[i])
  BY SeesOwn
<1>4. builder' = [builder EXCEPT ![b].step = "session", ![b].work = work]
  BY DEF ReadWork
<1> HIDE DEF work
<1>5. builder' = [builder EXCEPT ![b] = Working(g, work)]
  BY <1>1, <1>4 DEF Working
<1>6. Working(g, work) \in Gathered /\ GatheredOk(Working(g, work))
  BY <1>1, <1>2, <1>3, WorkingTyped
<1>7. QED
  BY <1>1, <1>5, <1>6, BuilderReads

LEMMA ReadMatchesKeeps ==
  ASSUME BuildInv, NEW b \in Builders, ReadMatches(b)
  PROVE  BuildInv'
<1> DEFINE g == builder[b]
           matches == IF g.is.name = NoName THEN {}
             ELSE {i \in DOMAIN jobs : /\ jobs[i].car # g.car
                                       /\ Sees(b, jobs[i])
                                       /\ SimilarCar(g.is, jobs[i].car)}
<1>1. g \in Gathered /\ GatheredOk(g) /\ UNCHANGED <<row, jobs, builds>>
      /\ builder \in [Builders -> Gathered \cup {Idle}]
  BY BuilderIs DEF ReadMatches, BuildInv, BuildTypeOK
<1>2. matches \in SUBSET (1 .. MaxJobs)
  BY JobsBounded
<1>3. \A i \in matches : i \in DOMAIN jobs /\ jobs[i].car # g.car /\ OwnJob(g.by, jobs[i])
  BY SeesOwn
<1>4. builder' = [builder EXCEPT ![b].step = "pin", ![b].matches = matches]
  BY DEF ReadMatches
<1> HIDE DEF matches
<1>5. builder' = [builder EXCEPT ![b] = Matching(g, matches)]
  BY <1>1, <1>4 DEF Matching
<1>6. Matching(g, matches) \in Gathered /\ GatheredOk(Matching(g, matches))
  BY <1>1, <1>2, <1>3, MatchingTyped
<1>7. QED
  BY <1>1, <1>5, <1>6, BuilderReads

LEMMA ToKeeps ==
  ASSUME BuildInv, NEW b \in Builders, builder[b].step # "none",
         NEW step \in BuildSteps, To(b, step), UNCHANGED <<row, jobs, builds>>
  PROVE  BuildInv'
<1> DEFINE g == builder[b]
<1>1. g \in Gathered /\ GatheredOk(g) /\ builder \in [Builders -> Gathered \cup {Idle}]
  BY BuilderIs DEF BuildInv, BuildTypeOK
<1>2. builder' = [builder EXCEPT ![b] = ToStep(g, step)]
  BY <1>1 DEF To, ToStep
<1>3. ToStep(g, step) \in Gathered /\ GatheredOk(ToStep(g, step))
  BY <1>1, ToStepTyped
<1>4. QED
  BY <1>2, <1>3, BuilderReads

LEMMA ReadSessionKeeps ==
  ASSUME BuildInv, NEW b \in Builders, ReadSession(b)
  PROVE  BuildInv'
<1>1. UNCHANGED <<row, jobs, builds>> /\ builder[b].step # "none" /\ "matches" \in BuildSteps
  BY DEF ReadSession, BuildSteps
<1>2. CASE To(b, "matches")
  BY <1>1, <1>2, ToKeeps
<1>3. CASE Ends(b)
  BY <1>1, <1>3, EndsKeeps
<1>4. QED
  BY <1>2, <1>3 DEF ReadSession

LEMMA ReadPinKeeps ==
  ASSUME BuildInv, ManualsInv, NEW b \in Builders, ReadPin(b)
  PROVE  BuildInv'
<1> DEFINE g == builder[b]
           book == {s \in sources : s.id = g.pin}
<1>1. UNCHANGED <<row, jobs, builds>> /\ g.step # "none" /\ "meta" \in BuildSteps
  BY DEF ReadPin, BuildSteps
<1>2. CASE To(b, "meta")
  BY <1>1, <1>2, ToKeeps
<1>3. CASE Ends(b)
  BY <1>1, <1>3, EndsKeeps
<1>4. ASSUME book # {}, NEW about, about = Covers[(CHOOSE s \in book : TRUE).sha],
             builder' = [builder EXCEPT
               ![b].step = "meta",
               ![b].is = FillBlank(g.is, [name |-> about.name, year |-> about.from])]
      PROVE  BuildInv'
  <2>1. g \in Gathered /\ GatheredOk(g) /\ builder \in [Builders -> Gathered \cup {Idle}]
    BY <1>1, BuilderIs DEF BuildInv, BuildTypeOK
  <2>2. PICK s \in book : about = Covers[s.sha]
    BY <1>4
  <2>3. about.name \in BuiltNames /\ about.from \in Years
    BY <2>2, ShaCovered
  <2>4. PICK is : is = FillBlank(g.is, [name |-> about.name, year |-> about.from])
    OBVIOUS
  <2>5. is \in Asked
    <3>1. g.is \in Asked
      BY <2>1 DEF Gathered
    <3>2. QED
      BY <2>3, <2>4, <3>1, FillBlankTyped
  <2>6. builder' = [builder EXCEPT ![b].step = "meta", ![b].is = is]
    BY <1>4, <2>4
  <2>7. builder' = [builder EXCEPT ![b] = Naming(g, "meta", is)]
    BY <2>1, <2>6 DEF Naming
  <2>8. Naming(g, "meta", is) \in Gathered /\ GatheredOk(Naming(g, "meta", is))
    BY <1>1, <2>1, <2>5, NamingTyped
  <2>9. QED
    BY <1>1, <2>7, <2>8, BuilderReads
<1>5. QED
  BY <1>2, <1>3, <1>4 DEF ReadPin

-----------------------------------------------------------------------------
LEMMA ReadMetaKeeps ==
  ASSUME BuildInv, NEW b \in Builders, ReadMeta(b)
  PROVE  BuildInv'
<1>1. PICK step : step = IF hasVector /\ MatchesIndex(ServerModel) THEN "embed" ELSE "search"
  OBVIOUS
<1>2. step \in BuildSteps
  BY <1>1 DEF BuildSteps
<1>3. UNCHANGED <<row, jobs, builds>> /\ builder[b].step # "none" /\ To(b, step)
  BY <1>1 DEF ReadMeta
<1>4. QED
  BY <1>2, <1>3, ToKeeps

LEMMA EmbedQueryKeeps ==
  ASSUME BuildInv, NEW b \in Builders, NEW ok \in BOOLEAN, EmbedQuery(b, ok)
  PROVE  BuildInv'
<1> DEFINE g == builder[b]
<1>1. g \in Gathered /\ GatheredOk(g) /\ UNCHANGED <<row, jobs, builds>>
      /\ builder \in [Builders -> Gathered \cup {Idle}]
  BY BuilderIs DEF EmbedQuery, BuildInv, BuildTypeOK
<1>2. builder' = [builder EXCEPT ![b] = Embedded(g, ok)]
  BY <1>1 DEF EmbedQuery, Embedded
<1>3. Embedded(g, ok) \in Gathered /\ GatheredOk(Embedded(g, ok))
  BY <1>1, EmbeddedTyped
<1>4. QED
  BY <1>1, <1>2, <1>3, BuilderReads

LEMMA SearchManualsKeeps ==
  ASSUME BuildInv, ManualsInv, NEW b \in Builders, SearchManuals(b)
  PROVE  BuildInv'
<1> DEFINE g == builder[b]
<1>1. g \in Gathered /\ GatheredOk(g) /\ UNCHANGED <<row, jobs, builds>>
      /\ builder \in [Builders -> Gathered \cup {Idle}]
  BY BuilderIs DEF SearchManuals, BuildInv, BuildTypeOK
<1>2. PICK vector : vector = (g.vector /\ hasVector /\ MatchesIndex(ServerModel))
  OBVIOUS
<1>3. vector \in BOOLEAN
  BY <1>2
<1>4. builder' = [builder EXCEPT ![b].step = "text", ![b].vector = vector]
  BY <1>2 DEF SearchManuals
<1>5. builder' = [builder EXCEPT ![b] = Rechecked(g, vector)]
  BY <1>1, <1>4 DEF Rechecked
<1>6. Rechecked(g, vector) \in Gathered /\ GatheredOk(Rechecked(g, vector))
  BY <1>1, <1>3, RecheckedTyped
<1>7. QED
  BY <1>1, <1>5, <1>6, BuilderReads

LEMMA CandidateIds ==
  ASSUME ManualsInv, NEW g
  PROVE  {s.id : s \in Candidates(g)} \subseteq 1 .. MaxSources
<1>1. Candidates(g) \subseteq sources
  BY DEF Candidates
<1>2. QED
  BY <1>1, ShaCovered

LEMMA RankByTextKeeps ==
  ASSUME BuildInv, ManualsInv, NEW b \in Builders, RankByText(b)
  PROVE  BuildInv'
<1> DEFINE g == builder[b]
<1>1. g \in Gathered /\ GatheredOk(g) /\ UNCHANGED <<row, jobs, builds>>
      /\ builder \in [Builders -> Gathered \cup {Idle}]
  BY BuilderIs DEF RankByText, BuildInv, BuildTypeOK
<1>2. PICK step : step = IF g.vector THEN "cosine" ELSE "figures"
  OBVIOUS
<1>3. step \in BuildSteps
  BY <1>2 DEF BuildSteps
<1>4. PICK found \in SUBSET {s.id : s \in Candidates(g)} :
        builder' = [builder EXCEPT ![b].step = step, ![b].books = found]
  BY <1>2 DEF RankByText
<1>5. found \in SUBSET (1 .. MaxSources)
  BY <1>4, CandidateIds
<1>6. builder' = [builder EXCEPT ![b] = Found(g, step, found)]
  BY <1>1, <1>4 DEF Found
<1>7. Found(g, step, found) \in Gathered /\ GatheredOk(Found(g, step, found))
  BY <1>1, <1>3, <1>5, FoundTyped
<1>8. QED
  BY <1>1, <1>6, <1>7, BuilderReads

(* The vectors a query is ranked against are of the index, and the index   *)
(* is still of the model that was looked up.                               *)
LEMMA RankByVectorKeeps ==
  ASSUME BuildInv, ManualsInv, IndexAsRead, NEW b \in Builders, RankByVector(b)
  PROVE  BuildInv'
<1> DEFINE g == builder[b]
           ids == {s.id : s \in Candidates(g)}
           near == {c \in DOMAIN embeddings : c[1] \in ids}
<1>1. g \in Gathered /\ GatheredOk(g) /\ UNCHANGED <<row, jobs, builds>>
      /\ builder \in [Builders -> Gathered \cup {Idle}]
  <2>1. UNCHANGED <<row, jobs, builds>> /\ builder[b].step = "cosine"
    BY Zenon DEF RankByVector
  <2>2. QED
    BY <2>1, BuilderIs DEF BuildInv, BuildTypeOK
<1>2. PICK books, compared :
        /\ books = g.books \cup {c[1] : c \in near}
        /\ compared = {embeddings[c].model : c \in near}
  OBVIOUS
<1>3. books \in SUBSET (1 .. MaxSources)
  <2>1. g.books \subseteq 1 .. MaxSources
    BY <1>1 DEF Gathered
  <2>2. QED
    BY <1>2, <2>1, CandidateIds
<1>4. compared \in SUBSET Models /\ compared \subseteq {ServerModel}
  <2>1. \A c \in near : embeddings[c].model \in Models /\ embeddings[c].model = indexModel
    BY DEF ManualsInv, ManualsTypeOK, VectorsOfTheIndex
  <2>2. builder[b].step = "cosine"
    BY Zenon DEF RankByVector
  <2>3. indexModel = ServerModel
    BY <2>2 DEF IndexAsRead, Ranking
  <2>4. QED
    BY <1>2, <2>1, <2>3
<1>5. builder' = [builder EXCEPT ![b].step = "figures", ![b].books = books,
                                 ![b].compared = compared]
  BY <1>2, Zenon DEF RankByVector
<1>6. builder' = [builder EXCEPT ![b] = Searched(g, books, compared)]
  BY <1>1, <1>5 DEF Searched
<1>7. Searched(g, books, compared) \in Gathered /\ GatheredOk(Searched(g, books, compared))
  BY <1>1, <1>3, <1>4, SearchedTyped
<1>8. QED
  BY <1>1, <1>6, <1>7, BuilderReads

LEMMA FindFiguresKeeps ==
  ASSUME BuildInv, ManualsInv, NEW b \in Builders, NEW wiring \in BOOLEAN,
         FindFigures(b, wiring)
  PROVE  BuildInv'
<1> DEFINE g == builder[b]
<1>1. g \in Gathered /\ GatheredOk(g) /\ UNCHANGED <<row, jobs, builds>>
      /\ builder \in [Builders -> Gathered \cup {Idle}]
  BY BuilderIs DEF FindFigures, BuildInv, BuildTypeOK
<1>2. PICK figures :
        figures = {s.id : s \in {x \in sources : x.id \in g.books}} \cup
                  (IF wiring THEN {s.id : s \in Candidates(g)} ELSE {})
  OBVIOUS
<1>3. figures \in SUBSET (1 .. MaxSources)
  <2>1. Candidates(g) \subseteq sources
    BY DEF Candidates
  <2>2. QED
    BY <1>2, <2>1, ShaCovered
<1>4. builder' = [builder EXCEPT ![b].step = "chat", ![b].figures = figures]
  BY <1>2 DEF FindFigures
<1>5. builder' = [builder EXCEPT ![b] = Illustrated(g, figures)]
  BY <1>1, <1>4 DEF Illustrated
<1>6. Illustrated(g, figures) \in Gathered /\ GatheredOk(Illustrated(g, figures))
  BY <1>1, <1>3, IllustratedTyped
<1>7. QED
  BY <1>1, <1>5, <1>6, BuilderReads

LEMMA ChatAnswersKeeps ==
  ASSUME BuildInv, NEW b \in Builders, NEW ask \in BOOLEAN, ChatAnswers(b, ask)
  PROVE  BuildInv'
<1>1. UNCHANGED <<row, jobs, builds>> /\ builder[b].step # "none" /\ "ensure" \in BuildSteps
  BY DEF ChatAnswers, BuildSteps
<1>2. CASE Ends(b)
  BY <1>1, <1>2, EndsKeeps
<1>3. CASE To(b, "ensure")
  BY <1>1, <1>3, ToKeeps
<1>4. QED
  BY <1>2, <1>3 DEF ChatAnswers

LEMMA EnsureCarKeeps ==
  ASSUME BuildInv, NEW b \in Builders, EnsureCar(b)
  PROVE  BuildInv'
<1> DEFINE g == builder[b]
           named == [name |-> IF g.is.name = NoName THEN Unnamed ELSE g.is.name,
                     year |-> g.is.year]
<1>1. g \in Gathered /\ UNCHANGED <<jobs, builds>>
      /\ builder' = [builder EXCEPT ![b] = Idle] /\ builds \in 0 .. MaxBuilds
      /\ row \in [Cars -> Platform \cup {NoRow}]
  BY BuilderIs DEF EnsureCar, Ends, BuildInv, BuildTypeOK
<1>2. named \in Platform
  BY <1>1 DEF Gathered, Asked, Platform
<1>3. row' = row \/ row' = [row EXCEPT ![g.car] = named]
  BY DEF EnsureCar
<1> HIDE DEF named
<1>4. row' \in [Cars -> Platform \cup {NoRow}]
  BY <1>1, <1>2, <1>3
<1>5. QED
  BY <1>1, <1>4, BuilderMoves

LEMMA PostPlaybookKeeps ==
  ASSUME BuildInv, ManualsInv, NEW b \in Builders, NEW t \in Technicians, NEW car \in Cars,
         NEW session \in 0 .. MaxJobs, NEW pin \in 0 .. MaxSources,
         PostPlaybook(b, t, car, session, pin)
  PROVE  BuildInv'
<1> DEFINE given == {[name |-> NoName, year |-> NoYear]} \cup
             (IF row[car] = NoRow THEN {} ELSE {row[car]}) \cup
             {[name |-> Covers[s.sha].name, year |-> Covers[s.sha].from] :
                s \in {x \in sources : x.id = pin}}
<1>1. PICK said \in given :
        builder' = [builder EXCEPT ![b] =
          [step |-> "vehicle", by |-> t, car |-> car, session |-> session, pin |-> pin,
           is |-> said, work |-> {}, matches |-> {}, vector |-> FALSE, compared |-> {},
           books |-> {}, figures |-> {}]]
  BY DEF PostPlaybook
<1>2. /\ session <= Len(jobs) /\ UNCHANGED <<row, jobs>> /\ builds' \in 0 .. MaxBuilds
      /\ row \in [Cars -> Platform \cup {NoRow}]
  BY BuildBounds DEF PostPlaybook, BuildInv, BuildTypeOK
<1>3. said \in Asked
  <2>1. CASE said = [name |-> NoName, year |-> NoYear]
    BY <2>1 DEF Asked
  <2>2. CASE said = row[car] /\ row[car] # NoRow
    BY <1>2, <2>2 DEF Platform, Asked
  <2>3. CASE \E s \in sources :
               said = [name |-> Covers[s.sha].name, year |-> Covers[s.sha].from]
    BY <2>3, ShaCovered DEF Asked
  <2>4. QED
    BY <2>1, <2>2, <2>3
<1>4. PICK g : g = [step |-> "vehicle", by |-> t, car |-> car, session |-> session,
                    pin |-> pin, is |-> said, work |-> {}, matches |-> {},
                    vector |-> FALSE, compared |-> {}, books |-> {}, figures |-> {}]
  OBVIOUS
<1>5. g \in Gathered
  BY <1>3, <1>4 DEF Gathered, BuildSteps
<1>6. GatheredOk(g)
  BY <1>2, <1>4 DEF GatheredOk
<1>7. row' \in [Cars -> Platform \cup {NoRow}]
  BY <1>2
<1>8. QED
  BY <1>1, <1>2, <1>4, <1>5, <1>6, <1>7, BuilderMoves

-----------------------------------------------------------------------------
(* The rest of the server.                                                 *)

LEMMA CloseJobKeeps ==
  ASSUME BuildInv, NEW t \in Technicians, NEW car \in Cars, CloseJob(t, car)
  PROVE  BuildInv'
<1> DEFINE job == [car |-> car, by |-> t, shop |-> ShopOf[t]]
           new == [name |-> Unnamed, year |-> NoYear]
           n == Len(jobs)
<1>1. /\ n < MaxJobs /\ jobs' = Append(jobs, job) /\ UNCHANGED <<builder, builds>>
      /\ row' = row \/ row' = [row EXCEPT ![car] = new]
      /\ jobs \in Seq(Job) /\ row \in [Cars -> Platform \cup {NoRow}]
  BY DEF CloseJob, BuildInv, BuildTypeOK
<1>2. job \in Job /\ job.shop = ShopOf[job.by]
  BY ShopsAssumption DEF Job
<1>3. new \in Platform
  BY DEF Platform
<1> HIDE DEF job, new
<1>4. row' \in [Cars -> Platform \cup {NoRow}]
  BY <1>1, <1>3
<1>5. /\ jobs' \in Seq(Job) /\ Len(jobs') = n + 1 /\ n \in Nat
      /\ \A i \in 1 .. n : jobs'[i] = jobs[i]
      /\ jobs'[n + 1] = job
  BY <1>1, <1>2, AppendProperties
<1>6. DOMAIN jobs = 1 .. n /\ DOMAIN jobs' = 1 .. n + 1
  BY <1>1, <1>5
<1>7. Len(jobs') <= MaxJobs /\ Len(jobs) <= Len(jobs') /\ Len(jobs') \in Nat
      /\ DOMAIN jobs \subseteq DOMAIN jobs'
      /\ \A i \in DOMAIN jobs : jobs'[i] = jobs[i]
  BY <1>1, <1>5, <1>6, BuildBounds
<1>8. \A i \in DOMAIN jobs' : jobs'[i].shop = ShopOf[jobs'[i].by]
  <2>1. \A i \in DOMAIN jobs' : i \in DOMAIN jobs \/ i = n + 1
    BY <1>5, <1>6
  <2>2. QED
    BY <1>2, <1>5, <1>7, <2>1 DEF BuildInv
<1>9. \A b \in Builders : builder[b] # Idle => GatheredOk(builder[b])'
  <2> SUFFICES ASSUME NEW b \in Builders, builder[b] # Idle PROVE GatheredOk(builder[b])'
    OBVIOUS
  <2>1. PICK g : g = builder[b]
    OBVIOUS
  <2>2. g \in Gathered /\ GatheredOk(g)
    BY <2>1 DEF BuildInv, BuildTypeOK
  <2>3. GatheredOk(g)'
    BY <1>7, <2>2, JobsOnly
  <2>4. builder'[b] = g
    BY <1>1, <2>1
  <2>5. QED
    BY <2>3, <2>4 DEF GatheredOk
<1>10. QED
  BY <1>1, <1>4, <1>5, <1>7, <1>8, <1>9 DEF BuildInv, BuildTypeOK

LEMMA DecodeCarKeeps ==
  ASSUME BuildInv, NEW car \in Cars, DecodeCar(car)
  PROVE  BuildInv'
<1> DEFINE is == [name |-> IF row[car].name = Unnamed THEN Built[car].name ELSE row[car].name,
                  year |-> IF row[car].year = NoYear THEN Built[car].year ELSE row[car].year]
<1>1. /\ row[car] # NoRow /\ row' = [row EXCEPT ![car] = is]
      /\ UNCHANGED <<jobs, builder, builds>>
      /\ row \in [Cars -> Platform \cup {NoRow}]
  BY DEF DecodeCar, BuildInv, BuildTypeOK
<1>2. is \in Platform
  BY <1>1 DEF Platform, BuiltNames, Years
<1> HIDE DEF is
<1>3. row' \in [Cars -> Platform \cup {NoRow}]
  BY <1>1, <1>2
<1>4. QED
  BY <1>1, <1>3 DEF BuildInv, BuildTypeOK, GatheredOk, OwnJob

-----------------------------------------------------------------------------
LEMMA BuildStart == BuildInit => BuildInv
<1> SUFFICES ASSUME BuildInit PROVE BuildInv
  OBVIOUS
<1>1. jobs \in Seq(Job) /\ Len(jobs) = 0 /\ DOMAIN jobs = {}
  BY DEF BuildInit
<1>2. row \in [Cars -> Platform \cup {NoRow}] /\ builder \in [Builders -> Gathered \cup {Idle}]
  BY DEF BuildInit
<1>3. builds \in 0 .. MaxBuilds /\ Len(jobs) <= MaxJobs
  BY <1>1, BuildBounds DEF BuildInit
<1>4. QED
  BY <1>1, <1>2, <1>3 DEF BuildInv, BuildTypeOK, BuildInit

(* A model that is recorded stays.                                         *)
LEMMA IndexRests ==
  ASSUME IndexAsRead, UNCHANGED builder, indexModel' = indexModel \/ indexModel = NoModel
  PROVE  IndexAsRead'
BY ServerModelAssumption DEF IndexAsRead, Ranking

LEMMA IngestsKeepIndex ==
  ASSUME ManualsNext
  PROVE  indexModel' = indexModel \/ indexModel = NoModel
<1>1. ASSUME NEW p \in Ingesters, InsertModel(p)
      PROVE  indexModel' = indexModel \/ indexModel = NoModel
  BY <1>1, Zenon DEF InsertModel
<1>2. ASSUME NEW p \in Ingesters, IngestStep(p) \/ AbortIngest(p), ~InsertModel(p)
      PROVE  indexModel' = indexModel
  <2>1. CASE ReadFile(p)
    BY <2>1, Zenon DEF ReadFile
  <2>2. CASE SelectSource(p)
    BY <2>2, Zenon DEF SelectSource
  <2>3. CASE WriteSource(p)
    BY <2>3, Zenon DEF WriteSource
  <2>4. CASE ReadModel(p)
    BY <2>4, Zenon DEF ReadModel
  <2>5. CASE CheckModel(p)
    BY <2>5, Zenon DEF CheckModel
  <2>6. CASE ReadPending(p)
    BY <2>6, Zenon DEF ReadPending
  <2>7. CASE CallEmbedder(p)
    BY <2>7, Zenon DEF CallEmbedder
  <2>8. CASE StoreVectors(p)
    BY <2>8, Zenon DEF StoreVectors
  <2>9. CASE AbortIngest(p)
    BY <2>9, Zenon DEF AbortIngest
  <2>10. QED
    BY <1>2, <2>1, <2>2, <2>3, <2>4, <2>5, <2>6, <2>7, <2>8, <2>9, Zenon DEF IngestStep
<1>3. ASSUME NEW p \in Ingesters, NEW embedOnly \in BOOLEAN, StartIngest(p, embedOnly)
      PROVE  indexModel' = indexModel
  BY <1>3, Zenon DEF StartIngest
<1>4. ASSUME NEW file \in Pdfs \cup Trees, NEW content \in Contents \cup {Bad, ImagesOnly},
             EditFile(file, content)
      PROVE  indexModel' = indexModel
  BY <1>4, Zenon DEF EditFile
<1>5. QED
  BY <1>1, <1>2, <1>3, <1>4, Zenon DEF ManualsNext, IngestNext

LEMMA RankingMoves ==
  ASSUME BuildInv, IndexAsRead, NEW b \in Builders, NEW h, UNCHANGED indexModel,
         builder' = [builder EXCEPT ![b] = h], Ranking(h) => indexModel = ServerModel
  PROVE  IndexAsRead'
<1>1. builder'[b] = h /\ \A c \in Builders \ {b} : builder'[c] = builder[c]
  BY DEF BuildInv, BuildTypeOK
<1>2. QED
  BY <1>1 DEF IndexAsRead, Ranking

(* A step that neither ranks by text nor goes on to rank by vector.        *)
LEMMA RankingEnds ==
  ASSUME BuildInv, IndexAsRead, NEW b \in Builders, NEW h, UNCHANGED indexModel,
         builder' = [builder EXCEPT ![b] = h], h.step \notin {"text", "cosine"}
  PROVE  IndexAsRead'
BY RankingMoves DEF Ranking

LEMMA StepsTaken ==
  ASSUME NEW g \in Gathered, NEW s, NEW x, NEW y
  PROVE  /\ ToStep(g, s).step = s /\ Naming(g, s, x).step = s
         /\ Working(g, x).step = "session" /\ Matching(g, x).step = "pin"
         /\ Embedded(g, x).step = "search" /\ Found(g, s, x).step = s
         /\ Rechecked(g, x).vector = x /\ Found(g, s, x).vector = g.vector
         /\ Searched(g, x, y).step = "figures" /\ Illustrated(g, x).step = "chat"
BY DEF Gathered, ToStep, Naming, Working, Matching, Embedded, Rechecked, Found, Searched,
       Illustrated

LEMMA ToRests ==
  ASSUME BuildInv, IndexAsRead, NEW b \in Builders, UNCHANGED indexModel,
         builder[b].step # "none", NEW step, step \notin {"text", "cosine"}, To(b, step)
  PROVE  IndexAsRead'
<1>1. builder[b] \in Gathered /\ builder \in [Builders -> Gathered \cup {Idle}]
  BY BuilderIs DEF BuildInv, BuildTypeOK
<1>2. builder' = [builder EXCEPT ![b] = ToStep(builder[b], step)]
  BY <1>1 DEF To, ToStep
<1>3. ToStep(builder[b], step).step = step
  BY <1>1, StepsTaken
<1>4. QED
  BY <1>2, <1>3, RankingEnds

LEMMA EndRests ==
  ASSUME BuildInv, IndexAsRead, NEW b \in Builders, UNCHANGED indexModel, Ends(b)
  PROVE  IndexAsRead'
BY RankingEnds DEF Ends, Idle

(* SearchManuals looks the index up; ranking by text goes on to vectors    *)
(* only for a query that still has one.                                    *)
LEMMA SearchReads ==
  ASSUME BuildInv, IndexAsRead, NEW b \in Builders, UNCHANGED indexModel,
         SearchManuals(b) \/ RankByText(b)
  PROVE  IndexAsRead'
<1> DEFINE g == builder[b]
<1>1. builder[b].step \in {"search", "text"}
  BY Zenon DEF SearchManuals, RankByText
<1>2. g \in Gathered /\ builder \in [Builders -> Gathered \cup {Idle}]
  BY <1>1, BuilderIs DEF BuildInv, BuildTypeOK
<1>3. CASE SearchManuals(b)
  <2>1. PICK vector : vector = (g.vector /\ hasVector /\ MatchesIndex(ServerModel))
    OBVIOUS
  <2>2. builder' = [builder EXCEPT ![b].step = "text", ![b].vector = vector]
    BY <1>3, <2>1 DEF SearchManuals
  <2>3. builder' = [builder EXCEPT ![b] = Rechecked(g, vector)]
    BY <1>2, <2>2 DEF Rechecked
  <2>4. vector => indexModel = ServerModel
    BY <2>1 DEF MatchesIndex
  <2>5. Rechecked(g, vector).step = "text"
    BY <1>2 DEF Rechecked, Gathered
  <2>6. Rechecked(g, vector).vector = vector
    BY <1>2, StepsTaken
  <2>7. Ranking(Rechecked(g, vector)) => indexModel = ServerModel
    BY <2>4, <2>6, <2>5, Zenon DEF Ranking
  <2>8. QED
    BY <2>3, <2>7, RankingMoves
<1>4. CASE RankByText(b)
  <2>1. PICK step : step = IF g.vector THEN "cosine" ELSE "figures"
    OBVIOUS
  <2>2. PICK found \in SUBSET {s.id : s \in Candidates(g)} :
          builder' = [builder EXCEPT ![b].step = step, ![b].books = found]
    BY <1>4, <2>1 DEF RankByText
  <2>3. builder' = [builder EXCEPT ![b] = Found(g, step, found)]
    BY <1>2, <2>2 DEF Found
  <2>4. Found(g, step, found).step = step
    BY <1>2, StepsTaken
  <2>5. g.step = "text"
    BY <1>4, Zenon DEF RankByText
  <2>6. Ranking(Found(g, step, found)) => indexModel = ServerModel
    BY <2>1, <2>4, <2>5 DEF Ranking, IndexAsRead
  <2>7. QED
    BY <2>3, <2>6, RankingMoves
<1>5. QED
  BY <1>3, <1>4

LEMMA BuildersOnlyRead ==
  ASSUME NEW b \in Builders, BuildStep(b) \/ AbortBuild(b)
  PROVE  UNCHANGED manualVars
<1>1. CASE RankByVector(b)
  BY <1>1, Zenon DEF RankByVector
<1>2. CASE SearchManuals(b) \/ RankByText(b)
  BY <1>2, Zenon DEF SearchManuals, RankByText
<1>3. CASE ReadVehicle(b) \/ ReadWork(b) \/ ReadSession(b) \/ ReadMatches(b)
  BY <1>3, Zenon DEF ReadVehicle, ReadWork, ReadSession, ReadMatches
<1>4. CASE ReadPin(b) \/ ReadMeta(b) \/ EnsureCar(b) \/ AbortBuild(b)
  BY <1>4, Zenon DEF ReadPin, ReadMeta, EnsureCar, AbortBuild
<1>5. CASE \/ \E ok \in BOOLEAN : EmbedQuery(b, ok)
           \/ \E wiring \in BOOLEAN : FindFigures(b, wiring)
           \/ \E ask \in BOOLEAN : ChatAnswers(b, ask)
  BY <1>5, Zenon DEF EmbedQuery, FindFigures, ChatAnswers
<1>6. QED
  BY <1>1, <1>2, <1>3, <1>4, <1>5 DEF BuildStep

LEMMA BuildStepReads ==
  ASSUME BuildInv, IndexAsRead, NEW b \in Builders, BuildStep(b) \/ AbortBuild(b)
  PROVE  IndexAsRead'
<1> DEFINE g == builder[b]
<1>1. UNCHANGED manualVars
  BY BuildersOnlyRead
<1>2. UNCHANGED indexModel
  BY <1>1 DEF manualVars
<1>3. builder \in [Builders -> Gathered \cup {Idle}]
      /\ (g.step # "none" => g \in Gathered)
  BY BuilderIs DEF BuildInv, BuildTypeOK
<1>4. CASE ReadVehicle(b)
  <2>1. PICK s, is :
          /\ s = IF row[g.car] = NoRow THEN "session" ELSE "work"
          /\ is = IF row[g.car] = NoRow THEN g.is ELSE FillBlank(g.is, row[g.car])
    OBVIOUS
  <2>2. builder' = [builder EXCEPT ![b].step = s, ![b].is = is]
    BY <1>4, <2>1 DEF ReadVehicle
  <2>3. g \in Gathered
    BY <1>3, <1>4 DEF ReadVehicle
  <2>4. builder' = [builder EXCEPT ![b] = Naming(g, s, is)]
    BY <1>3, <2>2, <2>3 DEF Naming
  <2>5. Naming(g, s, is).step = s
    BY <2>3, StepsTaken
  <2>6. QED
    BY <1>2, <2>1, <2>4, <2>5, RankingEnds
<1>5. CASE ReadWork(b)
  <2>1. PICK work : builder' = [builder EXCEPT ![b].step = "session", ![b].work = work]
    BY <1>5 DEF ReadWork
  <2>2. g \in Gathered
    BY <1>3, <1>5 DEF ReadWork
  <2>3. builder' = [builder EXCEPT ![b] = Working(g, work)]
    BY <1>3, <2>1, <2>2 DEF Working
  <2>4. QED
    BY <1>2, <2>2, <2>3, StepsTaken, RankingEnds
<1>6. CASE ReadSession(b)
  <2>1. g.step # "none" /\ (To(b, "matches") \/ Ends(b))
    BY <1>6 DEF ReadSession
  <2>2. QED
    BY <1>2, <2>1, ToRests, EndRests
<1>7. CASE ReadMatches(b)
  <2>1. PICK matches : builder' = [builder EXCEPT ![b].step = "pin", ![b].matches = matches]
    BY <1>7 DEF ReadMatches
  <2>2. g \in Gathered
    BY <1>3, <1>7 DEF ReadMatches
  <2>3. builder' = [builder EXCEPT ![b] = Matching(g, matches)]
    BY <1>3, <2>1, <2>2 DEF Matching
  <2>4. QED
    BY <1>2, <2>2, <2>3, StepsTaken, RankingEnds
<1>8. CASE ReadPin(b)
  <2>1. g.step = "pin"
    BY <1>8, Zenon DEF ReadPin
  <2>2. \/ To(b, "meta") \/ Ends(b)
        \/ \E is : builder' = [builder EXCEPT ![b].step = "meta", ![b].is = is]
    BY <1>8, Zenon DEF ReadPin
  <2>3. ASSUME NEW is, builder' = [builder EXCEPT ![b].step = "meta", ![b].is = is]
        PROVE  IndexAsRead'
    <3>1. builder' = [builder EXCEPT ![b] = Naming(g, "meta", is)]
      BY <1>3, <2>1, <2>3 DEF Naming
    <3>2. Naming(g, "meta", is).step = "meta"
      BY <1>3, <2>1, StepsTaken
    <3>3. QED
      BY <1>2, <3>1, <3>2, RankingEnds
  <2>4. QED
    BY <1>2, <2>1, <2>2, <2>3, ToRests, EndRests
<1>9. CASE ReadMeta(b)
  <2>1. g.step # "none" /\ (To(b, "embed") \/ To(b, "search"))
    BY <1>9 DEF ReadMeta
  <2>2. QED
    BY <1>2, <2>1, ToRests
<1>10. CASE SearchManuals(b) \/ RankByText(b)
  BY <1>2, <1>10, SearchReads
<1>11. CASE RankByVector(b)
  <2>1. g.step = "cosine"
    BY <1>11, Zenon DEF RankByVector
  <2>2. PICK books, compared :
          builder' = [builder EXCEPT ![b].step = "figures", ![b].books = books,
                                     ![b].compared = compared]
    BY <1>11, Zenon DEF RankByVector
  <2>3. builder' = [builder EXCEPT ![b] = Searched(g, books, compared)]
    BY <1>3, <2>1, <2>2 DEF Searched
  <2>4. QED
    BY <1>2, <1>3, <2>1, <2>3, StepsTaken, RankingEnds
<1>12. CASE EnsureCar(b) \/ AbortBuild(b)
  BY <1>2, <1>12, EndRests DEF EnsureCar, AbortBuild
<1>13. ASSUME NEW ok \in BOOLEAN, EmbedQuery(b, ok) PROVE IndexAsRead'
  <2>1. g.step = "embed"
    BY <1>13 DEF EmbedQuery
  <2>2. builder' = [builder EXCEPT ![b] = Embedded(g, ok)]
    BY <1>3, <1>13, <2>1 DEF EmbedQuery, Embedded
  <2>3. QED
    BY <1>2, <1>3, <2>1, <2>2, StepsTaken, RankingEnds
<1>14. ASSUME NEW wiring \in BOOLEAN, FindFigures(b, wiring) PROVE IndexAsRead'
  <2>1. g.step = "figures"
    BY <1>14 DEF FindFigures
  <2>2. PICK figures : builder' = [builder EXCEPT ![b].step = "chat", ![b].figures = figures]
    BY <1>14, Zenon DEF FindFigures
  <2>3. builder' = [builder EXCEPT ![b] = Illustrated(g, figures)]
    BY <1>3, <2>1, <2>2 DEF Illustrated
  <2>4. QED
    BY <1>2, <1>3, <2>1, <2>3, StepsTaken, RankingEnds
<1>15. ASSUME NEW ask \in BOOLEAN, ChatAnswers(b, ask) PROVE IndexAsRead'
  <2>1. g.step # "none" /\ (To(b, "ensure") \/ Ends(b))
    BY <1>15 DEF ChatAnswers
  <2>2. QED
    BY <1>2, <2>1, ToRests, EndRests
<1>16. QED
  BY <1>4, <1>5, <1>6, <1>7, <1>8, <1>9, <1>10, <1>11, <1>12, <1>13, <1>14, <1>15
  DEF BuildStep

LEMMA BuildStepKeeps ==
  ASSUME BuildInv, ManualsInv, IndexAsRead, NEW b \in Builders, BuildStep(b) \/ AbortBuild(b)
  PROVE  BuildInv' /\ UNCHANGED manualVars
<1>1. UNCHANGED manualVars
  BY BuildersOnlyRead
<1>2. BuildInv'
  <2>1. CASE ReadVehicle(b) \/ ReadWork(b) \/ ReadSession(b) \/ ReadMatches(b)
    BY <2>1, ReadVehicleKeeps, ReadWorkKeeps, ReadSessionKeeps, ReadMatchesKeeps
  <2>2. CASE ReadPin(b) \/ ReadMeta(b) \/ EnsureCar(b)
    BY <2>2, ReadPinKeeps, ReadMetaKeeps, EnsureCarKeeps
  <2>3. CASE SearchManuals(b) \/ RankByText(b) \/ RankByVector(b)
    BY <2>3, SearchManualsKeeps, RankByTextKeeps, RankByVectorKeeps
  <2>4. CASE \E ok \in BOOLEAN : EmbedQuery(b, ok)
    BY <2>4, EmbedQueryKeeps
  <2>5. CASE \E wiring \in BOOLEAN : FindFigures(b, wiring)
    BY <2>5, FindFiguresKeeps
  <2>6. CASE \E ask \in BOOLEAN : ChatAnswers(b, ask)
    BY <2>6, ChatAnswersKeeps
  <2>7. CASE AbortBuild(b)
    BY <2>7, EndsKeeps DEF AbortBuild
  <2>8. QED
    BY <2>1, <2>2, <2>3, <2>4, <2>5, <2>6, <2>7 DEF BuildStep
<1>3. QED
  BY <1>1, <1>2

PlaybookInv == ManualsInv /\ BuildInv /\ IndexAsRead

LEMMA PlaybookReads ==
  ASSUME BuildInv, IndexAsRead, [PlaybookNext]_playbookVars
  PROVE  IndexAsRead'
<1>1. CASE IngestNext /\ UNCHANGED buildVars
  <2>1. indexModel' = indexModel \/ indexModel = NoModel
    BY <1>1, IngestsKeepIndex DEF ManualsNext
  <2>2. QED
    BY <1>1, <2>1, IndexRests DEF buildVars
<1>2. CASE \/ \E t \in Technicians, car \in Cars : CloseJob(t, car)
           \/ \E car \in Cars : DecodeCar(car)
           \/ UNCHANGED playbookVars
  <2>1. UNCHANGED <<builder, indexModel>>
    BY <1>2, Zenon DEF CloseJob, DecodeCar, playbookVars, manualVars
  <2>2. QED
    BY <2>1, IndexRests
<1>3. ASSUME NEW b \in Builders, NEW t \in Technicians, NEW car \in Cars,
             NEW session \in 0 .. MaxJobs, NEW pin \in 0 .. MaxSources,
             PostPlaybook(b, t, car, session, pin)
      PROVE  IndexAsRead'
  <2>1. UNCHANGED indexModel
    BY <1>3, Zenon DEF PostPlaybook, manualVars
  <2>2. PICK said : builder' = [builder EXCEPT ![b] =
          [step |-> "vehicle", by |-> t, car |-> car,
           session |-> session, pin |-> pin, is |-> said,
           work |-> {}, matches |-> {}, vector |-> FALSE, compared |-> {},
           books |-> {}, figures |-> {}]]
    BY <1>3, Zenon DEF PostPlaybook
  <2>3. QED
    BY <2>1, <2>2, RankingEnds
<1>4. ASSUME NEW b \in Builders, BuildStep(b) \/ AbortBuild(b)
      PROVE  IndexAsRead'
  BY <1>4, BuildStepReads
<1>5. QED
  BY <1>1, <1>2, <1>3, <1>4 DEF PlaybookNext, BuildNext

LEMMA PlaybookStep == PlaybookInv /\ [PlaybookNext]_playbookVars => PlaybookInv'
<1> SUFFICES ASSUME ManualsInv, BuildInv, IndexAsRead, [PlaybookNext]_playbookVars
             PROVE  ManualsInv' /\ BuildInv'
  BY PlaybookReads DEF PlaybookInv
<1>1. CASE IngestNext /\ UNCHANGED buildVars
  <2>1. BuildInv'
    BY <1>1 DEF buildVars, BuildInv, BuildTypeOK, GatheredOk, OwnJob
  <2>2. QED
    BY <1>1, <2>1, IngestNextKeeps
<1>2. ASSUME NEW t \in Technicians, NEW car \in Cars, CloseJob(t, car)
      PROVE  ManualsInv' /\ BuildInv'
  BY <1>2, CloseJobKeeps, ManualsUntouched DEF CloseJob
<1>3. ASSUME NEW car \in Cars, DecodeCar(car)
      PROVE  ManualsInv' /\ BuildInv'
  BY <1>3, DecodeCarKeeps, ManualsUntouched DEF DecodeCar
<1>4. ASSUME NEW b \in Builders, NEW t \in Technicians, NEW car \in Cars,
             NEW session \in 0 .. MaxJobs, NEW pin \in 0 .. MaxSources,
             PostPlaybook(b, t, car, session, pin)
      PROVE  ManualsInv' /\ BuildInv'
  BY <1>4, PostPlaybookKeeps, ManualsUntouched DEF PostPlaybook
<1>5. ASSUME NEW b \in Builders, BuildStep(b) \/ AbortBuild(b)
      PROVE  ManualsInv' /\ BuildInv'
  BY <1>5, BuildStepKeeps, ManualsUntouched
<1>6. CASE UNCHANGED playbookVars
  <2>1. UNCHANGED manualVars /\ UNCHANGED buildVars
    BY <1>6 DEF playbookVars, buildVars
  <2>2. BuildInv'
    BY <2>1 DEF buildVars, BuildInv, BuildTypeOK, GatheredOk, OwnJob
  <2>3. QED
    BY <2>1, <2>2, ManualsUntouched
<1>7. QED
  BY <1>1, <1>2, <1>3, <1>4, <1>5, <1>6 DEF PlaybookNext, BuildNext

LEMMA PlaybookStart == PlaybookInit => PlaybookInv
<1>1. BuildInit => IndexAsRead
  BY DEF BuildInit, Idle, IndexAsRead, Ranking
<1>2. QED
  BY <1>1, ManualsStart, BuildStart DEF PlaybookInit, PlaybookInv

THEOREM PlaybookInvariant == PlaybookSpec => []PlaybookInv
BY PlaybookStart, PlaybookStep, PTL DEF PlaybookSpec

(* The jobs in a prompt are ones its technician may see, whatever is       *)
(* closed, decoded and ingested between two reads (gather).                *)
THEOREM PromptsKeepScope == PlaybookSpec => []PromptInScope
<1>1. PlaybookInv => PromptInScope
  <2> SUFFICES ASSUME BuildInv, NEW b \in Builders, builder[b] # Idle
               PROVE  LET g == builder[b]
                          own(job) == IF ShopOf[g.by] = Freelance THEN job.by = g.by
                                      ELSE ShopOf[job.by] = ShopOf[g.by]
                      IN /\ \A i \in g.work : jobs[i].car = g.car /\ own(jobs[i])
                         /\ \A i \in g.matches : jobs[i].car # g.car /\ own(jobs[i])
    BY DEF PlaybookInv, PromptInScope
  <2>1. GatheredOk(builder[b])
    BY DEF BuildInv
  <2>2. QED
    BY <2>1 DEF GatheredOk, OwnJob
<1>2. QED
  BY <1>1, PlaybookInvariant, PTL

(* A query is ranked against vectors of the server's own model only.       *)
THEOREM QueriesMeetOneModel == PlaybookSpec => []CosineOneModel
<1>1. PlaybookInv => CosineOneModel
  BY DEF PlaybookInv, BuildInv, GatheredOk, CosineOneModel
<1>2. QED
  BY <1>1, PlaybookInvariant, PTL

-----------------------------------------------------------------------------
(* The server as a whole: each component moves as it does alone.           *)

cloudVars ==
  <<part, accountVars, vehicleVars, reportVars, startVars, catalogVars, playbookVars>>

LEMMA EachAlone ==
  [CloudNext]_cloudVars =>
    /\ [AccountsNext]_accountVars /\ [VehicleNext]_vehicleVars
    /\ [ReportsNext]_reportVars /\ [StartNext]_startVars /\ [CatalogNext]_catalogVars
    /\ UNCHANGED part
<1> SUFFICES ASSUME [CloudNext]_cloudVars
             PROVE  /\ [AccountsNext]_accountVars /\ [VehicleNext]_vehicleVars
                    /\ [ReportsNext]_reportVars /\ [StartNext]_startVars
                    /\ [CatalogNext]_catalogVars /\ UNCHANGED part
  OBVIOUS
<1>1. CASE CloudNext
  BY <1>1 DEF CloudNext
<1>2. CASE UNCHANGED cloudVars
  BY <1>2 DEF cloudVars
<1>3. QED
  BY <1>1, <1>2

(* What is proved of a component alone holds in the whole server.          *)
THEOREM ComponentsAsAlone ==
  CloudSpec => AccountsSpec /\ VehicleSpec /\ ReportsSpec /\ StartSpec /\ CatalogSpec
<1>1. CloudInit => AccountsInit /\ VehicleInit /\ ReportsInit /\ StartInit /\ CatalogInit
  BY DEF CloudInit
<1>2. QED
  BY <1>1, EachAlone, PTL DEF CloudSpec, cloudVars, AccountsSpec, VehicleSpec, ReportsSpec,
     StartSpec, CatalogSpec

LEMMA ManualsAlone ==
  PlaybookInv /\ [CloudNext]_cloudVars => PlaybookInv'
<1> SUFFICES ASSUME PlaybookInv, [CloudNext]_cloudVars PROVE PlaybookInv'
  OBVIOUS
<1>1. \/ PlaybookNext \/ UNCHANGED playbookVars
      \/ ManualsNext /\ UNCHANGED buildVars
  BY DEF CloudNext, cloudVars
<1>2. CASE PlaybookNext \/ UNCHANGED playbookVars
  BY <1>2, PlaybookStep
<1>3. CASE ManualsNext /\ UNCHANGED buildVars
  <2>1. ManualsInv'
    BY <1>3, ManualsStep DEF PlaybookInv
  <2>2. BuildInv'
    BY <1>3 DEF PlaybookInv, buildVars, BuildInv, BuildTypeOK, GatheredOk, OwnJob
  <2>3. IndexAsRead'
    BY <1>3, IngestsKeepIndex, IndexRests DEF PlaybookInv, buildVars
  <2>4. QED
    BY <2>1, <2>2, <2>3 DEF PlaybookInv
<1>4. QED
  BY <1>1, <1>2, <1>3

(* The index that the instance lets playbooks begin with is a sound one.   *)
LEMMA ManualOnFile == MCUnderWay => RowsInv
<1> SUFFICES ASSUME MCUnderWay PROVE RowsInv
  OBVIOUS
<1> DEFINE manual == [id |-> 1, sha |-> <<"pdf", "second">>, content |-> "second"]
<1>1. /\ sources = {manual} /\ inserted = 1 /\ indexModel \in Models /\ hasVector = TRUE
      /\ disk = [file \in Pdfs \cup Trees |->
                   IF file \in Trees THEN ImagesOnly ELSE "second"]
      /\ embeddings = [c \in {<<1, 1>>} |-> [model |-> indexModel, text |-> "brake"]]
  BY DEF MCUnderWay
<1>2. "second" \in Contents /\ PageTexts["second"] = <<"brake">> /\ 1 \in 1 .. MaxSources
  BY UnderWayAssumption, ManualsBounds
<1>3. disk \in [Pdfs \cup Trees -> Contents \cup {Bad, ImagesOnly}]
  BY <1>1, <1>2
<1>4. manual \in Source
  BY <1>2 DEF Source, Shas
<1>5. IsFiniteSet(sources)
  BY <1>1, FS_Singleton
<1>6. DOMAIN PageTexts[manual.content] = {1} /\ PageTexts[manual.content][1] = "brake"
  BY <1>2
<1>7. <<1, 1>> \in ChunksOf(manual)
  BY <1>6 DEF ChunksOf
<1>8. <<1, 1>> \in Chunks
  BY <1>1, <1>7 DEF Chunks
<1>9. SourceOf(<<1, 1>>) = manual
  <2>1. \A s \in sources : s = manual
    BY <1>1
  <2>2. manual \in sources /\ manual.id = <<1, 1>>[1]
    BY <1>1
  <2>3. QED
    BY <2>1, <2>2 DEF SourceOf
<1>10. TextOf(<<1, 1>>) = "brake"
  BY <1>6, <1>9 DEF TextOf
<1>11. "brake" \in Texts
  BY <1>2, <1>6 DEF Texts
<1>12. DOMAIN embeddings = {<<1, 1>>}
       /\ embeddings[<<1, 1>>] = [model |-> indexModel, text |-> "brake"]
  BY <1>1
<1>13. VectorsOfTheIndex
  BY <1>10, <1>12 DEF VectorsOfTheIndex
<1>14. \A c \in DOMAIN embeddings : embeddings[c] \in [model : Models, text : Texts]
  BY <1>1, <1>11, <1>12
<1>15. QED
  BY <1>1, <1>2, <1>3, <1>4, <1>5, <1>8, <1>12, <1>13, <1>14 DEF RowsInv

LEMMA UnderWay == MCUnderWay => PlaybookInv
<1> SUFFICES ASSUME MCUnderWay PROVE PlaybookInv
  OBVIOUS
<1>1. ManualsInv
  <2>1. ingester = [p \in Ingesters |-> Away] /\ ingests = MaxIngests - 1
    BY DEF MCUnderWay
  <2>2. ingests \in 0 .. MaxIngests
    BY <2>1, UnderWayAssumption, ManualsBounds
  <2>3. ingester \in [Ingesters -> Ingester \cup {Away}]
    BY <2>1
  <2>4. \A p \in Ingesters : ingester[p].step \notin {"write", "pending", "call", "store"}
    BY <2>1 DEF Away
  <2>5. \A p \in Ingesters : IngesterOk(p)
    BY <2>4 DEF IngesterOk
  <2>6. QED
    BY <2>2, <2>3, <2>5, ManualOnFile, ManualsParts
<1>2. BuildInv
  <2> DEFINE job == [car |-> "vin2", by |-> "bob", shop |-> Freelance]
  <2>1. /\ jobs = <<job>> /\ builder = [b \in Builders |-> Idle] /\ builds = 0
        /\ row = [c \in Cars |-> IF c = "vin2" THEN [name |-> Unnamed, year |-> NoYear]
                                 ELSE NoRow]
    BY DEF MCUnderWay
  <2>2. job \in Job
    BY UnderWayAssumption DEF Job
  <2>3. jobs \in Seq(Job) /\ Len(jobs) = 1 /\ DOMAIN jobs = {1} /\ jobs[1] = job
    BY <2>1, <2>2
  <2>4. [name |-> Unnamed, year |-> NoYear] \in Platform
    BY DEF Platform
  <2>5. row \in [Cars -> Platform \cup {NoRow}]
    BY <2>1, <2>4
  <2>6. builder \in [Builders -> Gathered \cup {Idle}]
        /\ \A b \in Builders : builder[b] = Idle
    BY <2>1
  <2>7. builds \in 0 .. MaxBuilds /\ Len(jobs) <= MaxJobs
    BY <2>1, <2>3, BuildBounds, UnderWayAssumption
  <2>8. \A i \in DOMAIN jobs : jobs[i].shop = ShopOf[jobs[i].by]
    BY <2>3, UnderWayAssumption
  <2>9. QED
    BY <2>3, <2>5, <2>6, <2>7, <2>8 DEF BuildInv, BuildTypeOK
<1>3. IndexAsRead
  BY DEF MCUnderWay, Idle, IndexAsRead, Ranking
<1>4. QED
  BY <1>1, <1>2, <1>3 DEF PlaybookInv

(* Every component keeps to its types, the manuals and playbooks also from *)
(* the state in which the instance has them under way.                     *)
THEOREM TypeCorrect == CloudSpec => []TypeOK
<1>1. CloudInit => PlaybookInv /\ part \in Parts
  <2>1. PlaybookInit => PlaybookInv
    BY PlaybookStart
  <2>2. QED
    BY <2>1, UnderWay DEF CloudInit
<1>2. PlaybookInv /\ part \in Parts /\ [CloudNext]_cloudVars
        => PlaybookInv' /\ (part \in Parts)'
  BY ManualsAlone, EachAlone
<1>3. AccountsInv /\ VehicleInv /\ ReportsInv /\ StartInv /\ CatalogInv /\ PlaybookInv
        /\ part \in Parts => TypeOK
  <2>1. AccountsInv => AccountsTypeOK
    BY DEF AccountsInv
  <2>2. VehicleInv => VehicleTypeOK
    BY DEF VehicleInv
  <2>3. ReportsInv => ReportsTypeOK
    BY DEF ReportsInv
  <2>4. StartInv => StartTypeOK
    BY DEF StartInv
  <2>5. CatalogInv => CatalogTypeOK
    BY DEF CatalogInv
  <2>6. PlaybookInv => ManualsTypeOK /\ BuildTypeOK
    BY DEF PlaybookInv, ManualsInv, BuildInv
  <2>7. QED
    BY <2>1, <2>2, <2>3, <2>4, <2>5, <2>6 DEF TypeOK
<1>4. QED
  BY <1>1, <1>2, <1>3, ComponentsAsAlone, AccountsInvariant, VehicleInvariant,
     ReportsInvariant, StartInvariant, CatalogInvariant, PTL DEF CloudSpec, cloudVars
=============================================================================
