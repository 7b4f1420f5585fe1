------------------------------ MODULE VehicleDecode ------------------------------
(***************************************************************************)
(* How a VIN becomes a named vehicle.  Every route that writes about a car *)
(* makes sure that its vehicles row exists, and three sources fill the row *)
(* in: NHTSA vPIC and the paid fallbacks (vin_decode_cache keeps one       *)
(* answer for ever), the VIN plate itself, and hints of the worker.  The   *)
(* handlers run at once, one SQL statement or one API call at a time, and  *)
(* none of them opens a transaction.                                       *)
(*                                                                         *)
(* The model is the row of one VIN.  An empty string, 'Unknown' and year 0 *)
(* are all Unknown.                                                        *)
(***************************************************************************)
EXTENDS Naturals, FiniteSets

CONSTANTS
  Unknown,    \* '', 'Unknown' or year 0
  Names,      \* makes, models and years that somebody may name
  Answers,    \* what an upstream may answer, as functions on Attributes
  Hints,      \* make_hint, model_hint and year_hint of the routes that have them
  Plate,      \* ReadPlate: WMI maker and model year; it never names a model
  NoVehicle,  \* no vehicles row
  NoDecode,   \* no vin_decode_cache row
  Calls,      \* handlers that may run at once
  MaxCalls    \* bound: handlers started in one behaviour

Attributes == {"make", "model", "year"}
Fields == [Attributes -> Names \cup {Unknown}]
Blank == [a \in Attributes |-> Unknown]

ASSUME UnknownAssumption == Unknown \notin Names
ASSUME AnswersAssumption == Answers \subseteq Fields /\ Hints \subseteq Fields
ASSUME PlateAssumption == Plate \in Fields /\ Plate["model"] = Unknown
ASSUME MaxCallsAssumption == MaxCalls \in Nat

Apis == {"vpic", "carapi", "vincario"}
Hinters == {"session", "imported_report", "playbook", "customer", "capture", "check"}
Sources == Apis \cup Hinters \cup {"vin_plate"}

(* A decode, or a vehicles row: what it names, and its decode_source.      *)
Decode == [fields : Fields, source : Sources]
VehicleRow == Decode

ASSUME SentinelAssumption == NoVehicle \notin VehicleRow /\ NoDecode \notin Decode

VARIABLES
  vehicle,  \* the vehicles row
  cache,    \* the vin_decode_cache row
  call,     \* what each handler is doing
  paid,     \* the fallback APIs with credentials, fixed at server start
  started   \* handlers started so far

vehicleVars == <<vehicle, cache, call, paid, started>>

Kinds ==
  {"decode", "ingest", "import", "playbook", "customer", "capture", "check", "history"}
CallSteps == {"ensure", "cache", "vpic", "paid", "store", "upsert", "plate", "row"}
NoCall == [step |-> "none"]
Call == [step : CallSteps, kind : Kinds, dec : Decode \cup {NoDecode},
         late : BOOLEAN]

VehicleTypeOK ==
  /\ vehicle \in VehicleRow \cup {NoVehicle}
  /\ cache \in Decode \cup {NoDecode}
  /\ call \in [Calls -> Call \cup {NoCall}]
  /\ paid \subseteq {"carapi", "vincario"}
  /\ started \in 0 .. MaxCalls

-----------------------------------------------------------------------------
(* What the statements do to the row.                                      *)

Named(fields) == {a \in Attributes : fields[a] # Unknown}

(* A slip: what arrives last is taken for better.                          *)
Fills_Newer(fields) == Named(fields)

(* The CASE of every upsert: only a blank attribute is filled.             *)
Fills(fields) ==
  {a \in Named(fields) : vehicle = NoVehicle \/ vehicle.fields[a] = Unknown}

(* INSERT ... ON CONFLICT DO UPDATE.  decode_source changes when one of    *)
(* claims was filled.                                                      *)
Upsert(fields, source, claims) ==
  vehicle' =
    IF vehicle = NoVehicle
    THEN [fields |-> fields, source |-> source]
    ELSE LET filled == Fills(fields) IN
         [fields |-> [a \in Attributes |->
                        IF a \in filled THEN fields[a] ELSE vehicle.fields[a]],
          source |-> IF filled \cap claims # {} THEN source ELSE vehicle.source]

(* EnrichEmpty: the plate names what the API left blank, and takes the     *)
(* credit from vPIC, though not from a paid API.                           *)
Enriched(source, answer) ==
  LET filled == {a \in Named(Plate) : answer[a] = Unknown} IN
  [fields |-> [a \in Attributes |-> IF a \in filled THEN Plate[a] ELSE answer[a]],
   source |-> IF filled # {} /\ source = "vpic" THEN "vin_plate" ELSE source]

(* What the resolver makes of an answer that is not refused.               *)
Resolved(source, answer) ==
  IF answer = Blank THEN Enriched(source, answer)
  ELSE [fields |-> answer, source |-> source]

-----------------------------------------------------------------------------
(* The handlers, by the order of their steps.                              *)

FirstStep(kind) ==
  CASE kind \in {"decode", "import"} -> "cache"
    [] kind = "history" -> "plate"
    [] OTHER -> "ensure"

AfterEnsure(kind) == IF kind = "ingest" THEN "cache" ELSE "row"

(* A slip: an imported report trusts a cached VIN to have its vehicle.     *)
AfterHit_NoEnsure(kind) ==
  IF kind = "decode" THEN "plate" ELSE "row"

AfterHit(kind) ==
  CASE kind = "decode" -> "plate"
    [] kind = "ingest" -> "row"
    [] kind = "import" -> "ensure"

(* Ingest and import only warn when the decode or its save fails.          *)
AfterDecode(kind) ==
  CASE kind = "decode" -> "none"
    [] kind = "ingest" -> "row"
    [] kind = "import" -> "ensure"

CallAt(c, step) ==
  call' = [call EXCEPT ![c] =
             IF step = "none" THEN NoCall ELSE [@ EXCEPT !.step = step]]
CallEnds(c) == CallAt(c, "none")

VehicleInit ==
  /\ vehicle = NoVehicle
  /\ cache = NoDecode
  /\ call = [c \in Calls |-> NoCall]
  /\ paid \in SUBSET {"carapi", "vincario"}
  /\ started = 0

(* A request passed its checks: the VIN has 17 legal characters.           *)
StartCall(c, kind) ==
  /\ call[c] = NoCall
  /\ started < MaxCalls
  /\ started' = started + 1
  /\ call' = [call EXCEPT ![c] = [step |-> FirstStep(kind), kind |-> kind,
                                  dec |-> NoDecode, late |-> FALSE]]
  /\ UNCHANGED <<vehicle, cache, paid>>

HinterOf(kind) ==
  CASE kind = "ingest" -> "session"
    [] kind = "import" -> "imported_report"
    [] OTHER -> kind

(* EnsureVehicle: INSERT ... ON CONFLICT DO NOTHING.  Customers and checks *)
(* come without hints, and an import has no year.                          *)
EnsureVehicle(c, hint) ==
  LET kind == call[c].kind IN
  /\ call[c].step = "ensure"
  /\ kind \in {"customer", "check"} => hint = Blank
  /\ kind = "import" => hint["year"] = Unknown
  /\ vehicle' = IF vehicle # NoVehicle THEN vehicle
                ELSE [fields |-> hint, source |-> HinterOf(kind)]
  /\ CallAt(c, AfterEnsure(kind))
  /\ UNCHANGED <<cache, paid, started>>

(* CachedVIN.                                                              *)
ReadCache(c) ==
  /\ call[c].step = "cache"
  /\ CallAt(c, IF cache # NoDecode THEN AfterHit(call[c].kind) ELSE "vpic")
  /\ UNCHANGED <<vehicle, cache, paid, started>>

(* The resolver has a decode, or gives up: only decodeVIN then falls back  *)
(* on the plate and answers 502.                                           *)
Got(c, dec) == call' = [call EXCEPT ![c].step = "store", ![c].dec = dec]

GiveUp(c) ==
  CallAt(c, IF call[c].kind = "decode" THEN "plate" ELSE AfterDecode(call[c].kind))

(* vPIC answers.  An empty answer is kept while the paid APIs are tried.   *)
VpicAnswers(c, answer) ==
  /\ call[c].step = "vpic"
  /\ IF answer # Blank \/ paid = {}
     THEN Got(c, Resolved("vpic", answer))
     ELSE call' = [call EXCEPT ![c].step = "paid",
                               ![c].dec = Resolved("vpic", answer)]
  /\ UNCHANGED <<vehicle, cache, paid, started>>

(* vPIC fails; slowly, and the handler's 8 s have run out as well, since   *)
(* the client's own timeout is the same.                                   *)
VpicFails(c, slowly) ==
  /\ call[c].step = "vpic"
  /\ IF paid = {} THEN GiveUp(c)
     ELSE call' = [call EXCEPT ![c].step = "paid", ![c].late = slowly]
  /\ UNCHANGED <<vehicle, cache, paid, started>>

(* CarAPI first: its answer counts only if it names something.             *)
CarApiAnswers(c, answer) ==
  /\ call[c].step = "paid" /\ ~call[c].late
  /\ "carapi" \in paid /\ answer # Blank
  /\ Got(c, Resolved("carapi", answer))
  /\ UNCHANGED <<vehicle, cache, paid, started>>

(* Vincario second: whatever it answers is the answer.                     *)
VincarioAnswers(c, answer) ==
  /\ call[c].step = "paid" /\ ~call[c].late
  /\ "vincario" \in paid
  /\ Got(c, Resolved("vincario", answer))
  /\ UNCHANGED <<vehicle, cache, paid, started>>

(* Neither helps: an empty vPIC answer is better than none.                *)
PaidFails(c) ==
  /\ call[c].step = "paid"
  /\ IF call[c].dec # NoDecode THEN Got(c, call[c].dec) ELSE GiveUp(c)
  /\ UNCHANGED <<vehicle, cache, paid, started>>

(* SaveVINDecode, first statement: the answer that is there stays.         *)
StoreDecode(c) ==
  /\ call[c].step = "store"
  /\ cache' = IF cache = NoDecode THEN call[c].dec ELSE cache
  /\ CallAt(c, "upsert")
  /\ UNCHANGED <<vehicle, paid, started>>

(* SaveVINDecode, second statement: a year alone does not claim the row.   *)
UpsertDecoded(c) ==
  LET dec == call[c].dec IN
  /\ call[c].step = "upsert"
  /\ Upsert(dec.fields, dec.source, {"make", "model"})
  /\ CallAt(c, AfterDecode(call[c].kind))
  /\ UNCHANGED <<cache, paid, started>>

(* Either statement fails.                                                 *)
SaveFails(c) ==
  /\ call[c].step \in {"store", "upsert"}
  /\ CallAt(c, AfterDecode(call[c].kind))
  /\ UNCHANGED <<vehicle, cache, paid, started>>

(* ApplyPlateIfBlank, after which the handler only reads and answers.      *)
ApplyPlate(c) ==
  /\ call[c].step = "plate"
  /\ IF Named(Plate) = {} THEN UNCHANGED vehicle
     ELSE Upsert(Plate, "vin_plate", {"make", "year"})
  /\ CallEnds(c)
  /\ UNCHANGED <<cache, paid, started>>

(* The row that refers to vehicles: a session, a customer, a capture, a    *)
(* check, or the checks of a new book.                                     *)
InsertRow(c) ==
  /\ call[c].step = "row"
  /\ CallEnds(c)
  /\ UNCHANGED <<vehicle, cache, paid, started>>

(* A statement fails elsewhere, the client leaves, the server dies.        *)
CallAborts(c) ==
  /\ call[c] # NoCall
  /\ CallEnds(c)
  /\ UNCHANGED <<vehicle, cache, paid, started>>

VehicleNext ==
  \/ \E c \in Calls, kind \in Kinds : StartCall(c, kind)
  \/ \E c \in Calls, hint \in Hints : EnsureVehicle(c, hint)
  \/ \E c \in Calls, answer \in Answers :
       VpicAnswers(c, answer) \/ CarApiAnswers(c, answer) \/ VincarioAnswers(c, answer)
  \/ \E c \in Calls, slowly \in BOOLEAN : VpicFails(c, slowly)
  \/ \E c \in Calls :
       \/ ReadCache(c) \/ PaidFails(c)
       \/ StoreDecode(c) \/ UpsertDecoded(c) \/ SaveFails(c)
       \/ ApplyPlate(c) \/ InsertRow(c) \/ CallAborts(c)

VehicleSpec == VehicleInit /\ [][VehicleNext]_vehicleVars

-----------------------------------------------------------------------------
(* What is known about a car is not unlearned: whatever decodes, plates    *)
(* and hints arrive in whatever order, a named attribute keeps its name,   *)
(* and the cached answer stays the one it was (SaveVINDecode,              *)
(* ApplyPlateIfBlank, EnsureVehicle).                                      *)
NamesStay ==
  [][/\ vehicle # NoVehicle =>
          /\ vehicle' # NoVehicle
          /\ \A a \in Named(vehicle.fields) : vehicle'.fields[a] = vehicle.fields[a]
     /\ cache # NoDecode => cache' = cache]_vehicleVars

(* Whoever is about to insert a row about the car finds its vehicle there, *)
(* even if another handler failed half way (EnsureVehicle; the foreign     *)
(* keys on vehicles).                                                      *)
VehicleBeforeRows ==
  \A c \in Calls : call[c].step = "row" => vehicle # NoVehicle
=============================================================================
