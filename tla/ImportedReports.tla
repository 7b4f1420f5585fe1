----------------------------- MODULE ImportedReports -----------------------------
(***************************************************************************)
(* Vendor scanner reports attached to a car: the bytes are a file under    *)
(* IMPORT_DIR, the job and the path are rows of PostgreSQL, and no         *)
(* transaction spans the two.  InsertImportedReport writes the file while  *)
(* its transaction is open and a deferred call removes it unless COMMIT    *)
(* was seen to succeed; downloadImportedReport reads the row first and     *)
(* the file after it.                                                      *)
(*                                                                         *)
(* The file of session id in scope s is IMPORT_DIR/s/id: ids are UUIDs, so *)
(* the file is named by its id here.  A scope is a shop, or a technician   *)
(* without one (ScopeDir, InShopScope).                                    *)
(***************************************************************************)
EXTENDS Naturals, FiniteSets

CONSTANTS
  Scopes,      \* shops and freelancers
  NoScope,     \* the scope of an id without a committed session
  Uploads,     \* upload handlers that may run at once
  Downloads,   \* download handlers that may run at once
  MaxReports   \* bound: uploads begun in one behaviour

ASSUME ScopeAssumption == NoScope \notin Scopes
ASSUME MaxReportsAssumption == MaxReports \in Nat

ReportIds == 1 .. MaxReports

VARIABLES
  files,     \* what is on disk, by session id
  reports,   \* scope of the committed session and its session_imports row
  upload,    \* what each upload handler is doing
  download,  \* what each download handler is doing
  opened,    \* session ids given out
  missed,    \* history: ids answered "import file missing"
  unsure     \* history: ids whose COMMIT took place and was reported failed

reportVars == <<files, reports, upload, download, opened, missed, unsure>>

NoUpload == [step |-> "none"]
Upload == [step : {"session", "written", "import", "committed", "remove"},
           id : ReportIds, scope : Scopes]
NoDownload == [step |-> "none"]
Download == [step : {"stat"}, id : ReportIds]

ReportsTypeOK ==
  /\ files \in [ReportIds -> {"absent", "partial", "whole"}]
  /\ reports \in [ReportIds -> Scopes \cup {NoScope}]
  /\ upload \in [Uploads -> Upload \cup {NoUpload}]
  /\ download \in [Downloads -> Download \cup {NoDownload}]
  /\ opened \in 0 .. MaxReports
  /\ missed \subseteq ReportIds
  /\ unsure \subseteq ReportIds

Committed(id) == reports[id] # NoScope

-----------------------------------------------------------------------------
ReportsInit ==
  /\ files = [id \in ReportIds |-> "absent"]
  /\ reports = [id \in ReportIds |-> NoScope]
  /\ upload = [u \in Uploads |-> NoUpload]
  /\ download = [d \in Downloads |-> NoDownload]
  /\ opened = 0
  /\ missed = {}
  /\ unsure = {}

UploadAt(u, step) == upload' = [upload EXCEPT ![u].step = step]
UploadEnds(u) == upload' = [upload EXCEPT ![u] = NoUpload]

(* The file passed its checks (size, type, source, note): BEGIN, and the   *)
(* INSERT of the session gives the id.                                     *)
BeginUpload(u, scope) ==
  /\ upload[u] = NoUpload
  /\ opened < MaxReports
  /\ opened' = opened + 1
  /\ upload' = [upload EXCEPT ![u] =
                  [step |-> "session", id |-> opened + 1, scope |-> scope]]
  /\ UNCHANGED <<files, reports, download, missed, unsure>>

WriteFile(u) ==
  /\ upload[u].step = "session"
  /\ files' = [files EXCEPT ![upload[u].id] = "whole"]
  /\ UploadAt(u, "written")
  /\ UNCHANGED <<reports, download, opened, missed, unsure>>

(* MkdirAll or WriteFile fails: wrote is not set yet, so what was written  *)
(* stays.                                                                  *)
WriteFails(u, partly) ==
  LET id == upload[u].id IN
  /\ upload[u].step = "session"
  /\ files' = [files EXCEPT ![id] = IF partly THEN "partial" ELSE "absent"]
  /\ UploadEnds(u)
  /\ UNCHANGED <<reports, download, opened, missed, unsure>>

InsertImport(u) ==
  /\ upload[u].step = "written"
  /\ UploadAt(u, "import")
  /\ UNCHANGED <<files, reports, download, opened, missed, unsure>>

(* The INSERT fails, or the client is gone and its context cancelled.      *)
InsertImportFails(u) ==
  /\ upload[u].step = "written"
  /\ UploadAt(u, "remove")
  /\ UNCHANGED <<files, reports, download, opened, missed, unsure>>

(* A slip: wrote is not reset, and the deferred call removes the file.     *)
CommitReport_StillWrote(u) ==
  /\ upload[u].step = "import"
  /\ reports' = [reports EXCEPT ![upload[u].id] = upload[u].scope]
  /\ UploadAt(u, "remove")
  /\ UNCHANGED <<files, download, opened, missed, unsure>>

CommitReport(u) ==
  /\ upload[u].step = "import"
  /\ reports' = [reports EXCEPT ![upload[u].id] = upload[u].scope]
  /\ UploadAt(u, "committed")
  /\ UNCHANGED <<files, download, opened, missed, unsure>>

(* COMMIT answers with an error.  If the connection broke after PostgreSQL *)
(* had committed, the row stands and its file is removed all the same.     *)
CommitReportFails(u, tookPlace) ==
  LET id == upload[u].id IN
  /\ upload[u].step = "import"
  /\ reports' = IF tookPlace THEN [reports EXCEPT ![id] = upload[u].scope]
                ELSE reports
  /\ unsure' = IF tookPlace THEN unsure \cup {id} ELSE unsure
  /\ UploadAt(u, "remove")
  /\ UNCHANGED <<files, download, opened, missed>>

(* The deferred os.Remove; its error is ignored.                           *)
RemoveFile(u, removed) ==
  LET id == upload[u].id IN
  /\ upload[u].step = "remove"
  /\ files' = IF removed THEN [files EXCEPT ![id] = "absent"] ELSE files
  /\ UploadEnds(u)
  /\ UNCHANGED <<reports, download, opened, missed, unsure>>

AnswerUpload(u) ==
  /\ upload[u].step = "committed"
  /\ UploadEnds(u)
  /\ UNCHANGED <<files, reports, download, opened, missed, unsure>>

(* The server dies: open transactions are rolled back, deferred calls do   *)
(* not run, and nobody looks at IMPORT_DIR when it starts again.           *)
Dies ==
  /\ upload' = [u \in Uploads |-> NoUpload]
  /\ download' = [d \in Downloads |-> NoDownload]
  /\ UNCHANGED <<files, reports, opened, missed, unsure>>

-----------------------------------------------------------------------------
(* SessionByID, InShopScope and ImportBySession: rows that never change    *)
(* once they are committed, and they are committed together.               *)
InScope(scope, id) == reports[id] = scope

OpenReport(d, scope, id) ==
  /\ download[d] = NoDownload
  /\ InScope(scope, id)
  /\ download' = [download EXCEPT ![d] = [step |-> "stat", id |-> id]]
  /\ UNCHANGED <<files, reports, upload, opened, missed, unsure>>

(* os.Stat and ServeFile.                                                  *)
ServeReport(d) ==
  LET id == download[d].id IN
  /\ download[d].step = "stat"
  /\ missed' = IF files[id] = "absent" THEN missed \cup {id} ELSE missed
  /\ download' = [download EXCEPT ![d] = NoDownload]
  /\ UNCHANGED <<files, reports, upload, opened, unsure>>

ReportsNext ==
  \/ \E u \in Uploads, scope \in Scopes : BeginUpload(u, scope)
  \/ \E u \in Uploads :
       \/ WriteFile(u) \/ InsertImport(u) \/ InsertImportFails(u)
       \/ CommitReport(u) \/ AnswerUpload(u)
  \/ \E u \in Uploads, well \in BOOLEAN :
       WriteFails(u, well) \/ CommitReportFails(u, well) \/ RemoveFile(u, well)
  \/ Dies
  \/ \E d \in Downloads, scope \in Scopes, id \in ReportIds : OpenReport(d, scope, id)
  \/ \E d \in Downloads : ServeReport(d)

ReportsSpec == ReportsInit /\ [][ReportsNext]_reportVars

-----------------------------------------------------------------------------
(* A job that is on file can be opened: its file is whole, and nobody was  *)
(* told that it is missing, except where COMMIT took place and was         *)
(* reported failed (InsertImportedReport, downloadImportedReport).         *)
FiledReportOpens ==
  /\ \A id \in ReportIds : Committed(id) => files[id] = "whole" \/ id \in unsure
  /\ missed \subseteq unsure
=============================================================================
