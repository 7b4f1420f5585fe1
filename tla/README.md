# mechazone in TLA+

mechazone is the software of an independent workshop's diagnostic bay: a
browser (the *bay*) drives a cable to a car through a local Python worker and
keeps the shop's job file in a Go ledger over PostgreSQL. The modules here are
written from the code in `src/` and checked with TLC on small instances; the
invariants and action properties of every component are proved with TLAPS for
every size (section 4).

```
 technician ── Bay (React) ──WebSocket──▶ worker (Python) ──J2534/ISO-TP──▶ car
                 │  offline queue
                 └──JSON /api/v1──▶ ledger (Go, net/http) ──SQL, READ COMMITTED──▶ PostgreSQL
                                        └──▶ hosted model, NHTSA vPIC
```

## 1. Inventory

| component | state it keeps | operations | what is hard | what makes it correct |
|---|---|---|---|---|
| Job ledger (`ledger/store.go`, `httpapi/handlers.go`) | `vehicles`, `diagnostic_sessions`, `confirmed_resolutions`, `technicians.reputation_score` | open a session, close it out, history | one goroutine per request; a closeout is a transaction of four statements with row locks; client goes away half way; closeouts repeated | a closeout is one step; reputation counts verified fixes; a session and its resolutions tell one story |
| Bus map (`ledger/capture.go`) | one `bus_captures` row per VIN and shop | upsert with a merge in the program, read | read, merge and write share no transaction; two first INSERTs | nothing invented, nothing forgotten |
| Bay checks (`ledger/checks.go`, end of `ai/fuse.go`) | `playbook_checks`, one row per fingerprint | tick, sync with a new playbook | SELECT, UPDATE, INSERT each on its own; a sync is a loop of them that may stop anywhere | a tick survives rebuilds; each step of a book has a row |
| Diagnostic session (`session.py`) | profile, `_last_modules`, ECM block | identify, scan, clear_dtcs, stream_dids | every exchange may time out or be refused; lost answers to `$14` | only nodes with codes are cleared; the list it decides by is true |
| Bay page (`Bay.tsx`) | scan on screen, history, checks, form, stalled jobs | connect, scan, clear, park, resume, save, close | `await`s across which the car on screen changes | no stored code is hidden; results are filed under their own car |
| Offline queue (`queue.ts`) | `localStorage` queue | enqueue, flushQueue | flushes overlap and await between read and write back | work is kept until delivered, posted once, newest save wins, it drains |
| Worker bridge (`ipc.py`, `worker.ts`) | one `WorkerState` (adapter, session), sockets | connect, disconnect, dispatch | one thread per socket on one cable; client timeouts | commands of a socket are sequential, none hangs |
| J2534 channel, ISO-TP (`j2534.py`, `transport.py`) | filters, current ids, receive queue | set_can_ids, send, wait_frame | several sockets share the channel | an answer belongs to the node that was asked |
| Detection, profiles, circuits (`detect.py`, `profiles/`, `circuit.py`) | none (tables) | select_profile, detect | device I/O | – |
| Stalled jobs (`jobStall.ts`) | up to 8 jobs in `localStorage` | upsert, drop, resume | in-flight results land on another job | a job keeps its own VIN's data |
| Accounts (`identity.go`, `access.go`, `auth.go`) | principals, session tokens, access tickets, rate-limit windows | log in, revoke, request access, provision, dismiss, reopen, create technician | check-then-insert per e-mail; issuing a login closes the tickets it sees; limiter shared by goroutines | one open ticket per e-mail; a login leaves no ticket open; a window admits at most five requests |
| Imported reports (`import.go`) | a file on disk and rows | import, read back | file and rows are not one transaction | the file of a job on record is whole |
| Guides and action catalog (`howto.go`, `action*.go`) | guides, actions, links | create, update, delete, observe | merge by similarity; links replaced without a transaction | observations are counted once; links point to actions |
| VIN decode (`vin/`, `SaveVINDecode`) | `vin_decode_cache`, `vehicles` | resolve, fall back, plate, ensure the row | two statements; upstream failures; eight routes at once | what is known of a car is not unlearned; a row about a car finds its vehicle |
| Playbooks (`ai/fuse.go`, `ask.go`) | none of its own | gather, prompt, parse, sync | a dozen reads, each of its own moment, and a minute before the write | a prompt holds only what the technician may see, of the right cars |
| Network of shops (`network.go`) | none (queries) | matches | scope of a shop or freelancer | no other shop's work in a match |
| Manuals (`ai/ingest*.go`, `docs.go`, `cmd/ingest`) | `doc_sources`, chunks, embeddings, the index's model | ingest, replace, embed, search | several ingests at once, of several builds; a manual replaced during the embedding call | a manual on file stays; every vector is of its chunk's text and of one model |
| Text filters (`sanitize.go`, `pii/`, `lang.go`) | none | reject, clean | – | unit tests reach them |
| Start, config, migrations (`store.go`, `cmd/server`, `config.go`) | `schema_migrations`, seeds, the super admin | migrate, probe, seed, wire | several processes on one database, deaths between statements, pgvector installed late | a file takes effect once; who serves has the schema |
| Customers (`customer.go`) | one row per shop and VIN | upsert, read | UPDATE, then INSERT | – |
| Landing, login, admin, print pages | forms | – | – | – |

Every component, also those that are not modelled, is in `PROJECT.json` with
its status and the reason; the hazards, with their lines and the properties
that watch them, are there too.

How the parts interact: the bay calls the ledger (JSON) and the worker
(messages with a request id); the two servers never speak to each other. What
the worker reports becomes the body of a bay's request, at once or through the
offline queue; a playbook reads the job file and the checks, and writes checks.

## 2. Modules

| module | models | correspondence |
|---|---|---|
| `AtomicCloseouts` | what the ledger promises of visits | `Open` and `Close`, each one step: outcome, resolution and reward together |
| `JobLedger` | `InsertSession`, `Closeout`, the join of `History` | `tx[h]` is the transaction of a request goroutine; one action per statement, `LocksSession`/`LocksTechnician` are PostgreSQL's row locks; a transaction's writes reach `sessions`, `resolutions`, `reputation` in `Commit` only |
| `JobLedgerProofs` | proofs about it | |
| `BusCapture` | `UpsertBusCapture`, `mergeBusModules`, `mergeBusIdentity` | `request[h]` holds what the request has read (`prev`); SELECT, UPDATE and INSERT are actions |
| `BusCaptureProofs` | proofs about it and `BayCaptures` | |
| `PlaybookChecks` | `UpsertPlaybookCheck`, `SyncPlaybookSteps`, `normalizeCheckStatus` | `request[h].todo` are the steps a sync has left; SELECT, UPDATE and INSERT are actions |
| `PlaybookChecksProofs` | proofs about it | |
| `ClearCodes` | `identify`, `scan`, `clear_dtcs`, `_clear_module`, `_clear_dtc` of the worker with the bay's `applyClearToScan` | `job` is the command under way and where it stands; one action per exchange with a module, each with its ways to fail; `last` is `_last_modules`, `bay` is the scan on screen |
| `OfflineQueue` | `queue.ts` with the savers and the timer of `Bay.tsx`, and what a delivery does to the ledger | `queue` is `localStorage`; `flush[f]` holds what a running `flushQueue` read and will write back; `direct` are the PUTs that were not awaited |
| `JobLists` | `Dropping`: the `filter` of `queue.ts` and `jobStall.ts` | used by `OfflineQueue` and `BayJobs`; `SelectSeq` without its recursion, which the prover cannot open |
| `JobListsProofs` | proofs about it | |
| `ClearCodesProofs`, `OfflineQueueProofs` | proofs about these two | |
| `BayProofs` | proofs about `BayJobs`, `KitChannel` and `MCBay` | |
| `BayCaptures` | the bay's queue in front of the bus map | extends `BusCapture` and instantiates `OfflineQueue` with the one capture path of a vehicle: a flush's or a direct PUT's fetch is a request at the ledger (`carries`, `awaits`); who gives up on it, or is reloaded, does not stop it |
| `BayJobs` | `jobStall.ts`; of `Bay.tsx`: NEW JOB, the chips, LOAD and its timer, READ VIN, deep scan, LOG, report, REBUILD, CLEAR | `screen` is the work shown, `stalls` is `localStorage`; a handler that awaits is a record in `pending` with what its closure captured; a piece of work is the VIN it is of |
| `KitChannel` | `WorkerState` of `ipc.py`, `PassThru` of `j2534.py`, `J2534IsoTpConnection` of `transport.py` | `thread[s]` is the command of socket `s`; one action per statement that touches the shared `PassThru`; `filters`, `buffer` and `opened` are the driver's |
| `TicketDesk` | what the access desk promises | `File`, `Review`, `Issue`: tickets, login and technician in one step |
| `Accounts` | `access.go`, `identity.go`, `auth.go`, the limiter and guards of `httpapi` | `req[r]` is a request's goroutine; statements are actions; `CreateTechnician` is the only transaction, `Locked` and `EmailHeld` are PostgreSQL's locks |
| `VehicleDecode` | `vin/`, `SaveVINDecode`, `ApplyPlateIfBlank`, `EnsureVehicle` and the routes that call them | `call[c]` is a handler, a `step` per statement or API call |
| `ImportedReports` | `InsertImportedReport`, `downloadImportedReport` | `files` is the disk, `reports` the committed rows; `Dies` is the process |
| `ServerStart` | `cmd/server`, `Migrate`, the seeds, `EnsureSuperAdmin`, `config.go` | `proc[p]` is a process; `markers` is `schema_migrations`; `Held` are the locks of DDL and of the marker's unique name |
| `ActionCatalog` | `action.go`, `action_store.go`, `howto.go` | `observer[o]` observes a book's steps, `writer[w]` saves a card; `ShouldMerge` and `BestMerge` are the code's arithmetic on token sets |
| `Manuals` | `cmd/ingest`, `ai/ingest*.go`, `EmbedPending`, `ReplaceDoc`, `LockEmbeddingModel`, `SetChunkEmbeddings` | `ingester[p]` is a command; a vector is named by the text it was computed from |
| `PlaybookBuild` | `gather` and `Build` of `fuse.go`, `ask.go`, `NetworkMatches`, `SearchManuals` | extends `Manuals`; `builder[b]` holds what each read has found; each read is an action |
| `MCCloudServer` | the seven cloud modules side by side | `part` says which one moves |
| `CloudServerProofs` | proofs about those seven and `MCCloudServer` | one section per module; a theorem about a component cites nothing of another's |
| `MCBay` | `BayJobs` and `KitChannel` side by side | `part`, likewise |
| other `MC*` | instances for TLC | sets of model values, the request bodies, nothing else |

Variables that the code does not have are *history* variables: they are
declared as such, no guard reads them, and only the properties use them
(`writes`, `version`, `answered`, `ticked`, `overtaken`, `doubled`, `raced`,
`covered`, `read`, `replaced`, `orphaned` and so on). Definitions whose names end in `_Something` are
slips: the same definition as a plausible mistake would have it. They are used
by no action; substituted for the definition they are named after, each one
makes its property fail, which shows that the property depends on that code.

Modules in one `MC` module that share no variable are not interleaved: every
behaviour moves one of them and the others stay as they begin. Restricted to a
component's variables, the behaviours of the run are exactly the component's
own, so nothing is lost, and the number of states is a sum and not a product.
Components that do interact are composed for real: `PlaybookBuild` reads the
index that the ingests of `Manuals` write, and in `BayCaptures` each step of a
request at the ledger is joined with what the bay makes of its answer.

Abstract specifications. `AtomicCloseouts` and `TicketDesk` say in one step what
the code does in several statements; `JobLedger` and `Accounts` are checked to
implement them (`CloseoutIsAtomic`, `DeskKeepsPromise`) under the mappings
`Atomic` and `Desk`. `Desk` hides the history fields of tickets and all
requests; `Issue` leaves open *which* pending tickets a login closes, because
the code does, and `LeftBehindOnlyByRace` says which it may miss.

Abstractions. A job file is that of one vehicle, so VIN columns are gone; a
capture's module is its key, whether it answers and its codes; identity DIDs
stand for all text fields that an empty value does not overwrite
(`mergeBusLive` has the same shape); a check is its status; a queued body is
the number of its save. In `ClearCodes` a profile is a list of modules, and
which one a VIN or a hint selects is left open. In `PlaybookBuild` make and
model are one name, codes and the limits of a list are left out; in
`VehicleDecode` an empty string, `Unknown` and year 0 are one value, as they
are to each `CASE` of the upserts. A SELECT that only reads back what its own
request has just written is no step of its own (`UpsertPlaybookCheck`): its
failure leaves what a failure before the next statement leaves.

What is *not* abstracted away, because properties hang on it: `created_at` is
the time of BEGIN and not of COMMIT (`began`, `ended`); `verified_fix` comes
from the outcome; a second closeout of a visit is not refused; a `$14` whose
answer is lost may have been carried out; `codes_after` starts empty and is
taken over also when the clear failed; `flushQueue` reads once and writes once;
`wrote` is reset only after a COMMIT that reported success; vPIC's timeout and
the handler's are both 8 s; a dark scan names no car, and `loadTypedVin` goes
by what is named; a closed connection leaves the channel's ids and filter.

## 3. Runs

| run | question | answer |
|---|---|---|
| `job_ledger` | Are overlapping, failing and repeated closeouts atomic, and do reputation, sessions and resolutions agree? | yes; `History` can pair one closeout's outcome with another's work, but only when closeouts of the same visit overlapped |
| `bay_captures` | Does the map hold what scans saw, and all of it, from the bay's queue to the merged row? | nothing is invented, whatever overlaps; the row forgets nothing unless a request overwrote a row it had not read; a scan's nodes reach it unless the scan was replaced in the queue, queued under a flush, or cut off by a reload; the nodes shown as reachable are the newest scan's unless an older one was under way or a request outlived its fetch |
| `bus_capture_overlap` | Does a node that ever answered stay `ever_reachable`, as migration 013 says? | **no**: two overlapping captures lose one's nodes |
| `playbook_checks` | Do ticks survive syncs, and does a book's every step get a row? | yes, unless a tick lands between a sync's read and write |
| `playbook_rebuild` | Does a ruled-out step stay ruled out across rebuilds, as `docs/playbook.md` says? | **no**, in that window |
| `clear_codes` | Whom is `$14` sent to, and do the worker's list and the screen stay true? | only nodes with codes; both true for each module whose last exchange went well; every command ends |
| `clear_refusal` | When the worker refuses with "No reachable module currently has codes", is it so? | **no**, after a clear whose answer was lost |
| `offline_queue` | Is queued work kept, delivered once, in order of saves, and does the queue drain? | yes, outside the windows that the properties name |
| `queue_lost` | Does work queue until reconnect? | **no**: what is queued while a flush awaits is overwritten |
| `cloud_server` | Do tickets, logins, names, report files, migrations, catalog rows, card links, manuals, vectors and prompts stay right when their statements overlap and fail? | yes, outside the windows that the properties name: overlapping applications, a reopened ticket, books observed at once, a COMMIT whose answer is lost |
| `unknown_platform` | Are the similar jobs of a prompt of the same make and model, as `docs/playbook.md` says? | **no**: cars that nobody decoded are all "Unknown Unknown" of year 0 |
| `bay` | Is a visit lost or mixed while jobs are parked and resumed under work in progress? Does an exchange belong to the node it was meant for, and can an open device be closed? | only in the six `Ways`; yes, for a command that had the kit to itself; yes, unless two connects overlap or `PassThruConnect` fails |

The five **no**s are findings in `PROJECT.json`, each with the sentence of the
repository that it contradicts. Some of the passing properties
(`NothingForgotten`, `MapFollowsScans`, `TickIsKept`, `KeptUntilDelivered`,
`WorkKept`) say what remains true
around these windows, with the window as precise as it could be made: only
the overlap itself excuses a loss.

### Bounds and why they are enough

The bounds are guards on counters, so behaviours end at them: that is why all
configurations set `CHECK_DEADLOCK FALSE`. (That no *started* work gets stuck is
checked by `CloseoutEnds`, `CommandEnds` and `Drains` instead. The modules of
`cloud_server` and `bay` have a step that gives up in every state of a request,
so none of their requests is ever stuck; they assume no fairness.)

- `JobLedger`: 2 visits, 2 technicians, 2 transactions at a time, `MaxClock` = 3
  transactions in all: two closeouts of one visit overlap, two visits of one
  technician contend for the reputation row, somebody else's visit is tried,
  and a third closeout begins after, between or during the others.
- `BusCapture` alone (`bus_capture_overlap`): 2 nodes, 1 code, 1 DID, 2 requests
  at a time, `MaxPuts` = 3: the row exists before two requests overlap, or both
  insert it first.
- `BayCaptures`: 2 nodes, 2 scans that each see another one answer, `MaxSaves` = 3
  scans saved, 1 flush besides the direct PUTs, 2 requests at once and `MaxPuts`
  = 4 of them (one more than saves: a lost answer is sent again), `MaxLosses` = 1,
  `MaxEvents` = 1. Each of the six excuses of `MapFollowsScans` is needed: without
  any one of them this instance has a counterexample.
- `PlaybookChecks`: 2 steps, 3 books (one of which names a step twice), 3
  requests at a time, `MaxRequests` = 3: a tick and two syncs in any
  interleaving.
- `ClearCodes`: 2 modules, 1 code, 2 profiles, `MaxCommands` = 3 (scan, clear,
  clear again; or scan, VIN read, clear), `MaxMisses` = 2 lost exchanges,
  `MaxFaults` = 1 code that comes or heals by itself.
- `OfflineQueue`: 1 PUT key and the POST path, 2 flushes, `MaxSaves` = 3,
  `MaxLosses` = 1, `MaxEvents` = 1 (an outage or its end, or a reload).
  Initially bay and ledger are each up or down.
- `bay`, screen: 3 cars (the one on screen, one parked, one under work),
  `MaxStalls` = 2, so that a third parked job pushes one out, `MaxPending` = 2
  handlers under way, `MaxBegun` = 3 in all: a scan, the playbook it goes on to
  and a clear or a READ VIN overlap. The constraint `NothingExcused` stops a
  behaviour once one of `Ways` has happened, since the two properties say
  nothing after it; every way is reached (each is the last step of some
  behaviour).
- `bay`, kit: 2 sockets, 2 nodes, 2 requests told apart, `MaxCommands` = 4 (connect,
  a command, a reload's connect or disconnect, another command), `MaxConnects` =
  2 devices, `MaxAsked` = 2: an answer to the first request arrives during the
  second.
- `Accounts`: 2 addresses, one of them the admin's, 2 requests at once,
  `MaxClock` = 4 requests: file, file, issue and review overlap in pairs. The
  limiter admits 2 in 3 ticks instead of 5 in an hour.
- `VehicleDecode`: 1 VIN, 2 calls at once, `MaxCalls` = 3, every set of paid
  APIs; answers that agree, disagree, name part of the car or nothing.
- `ImportedReports`: 2 uploads, 1 download, 2 reports, 2 scopes.
- `ServerStart`: 2 processes, 3 starts, 6 of the migration files (those that
  fail when repeated, those that need pgvector, the one that records the model),
  an empty database or one of an older build.
- `ActionCatalog`: 3 titles, two of which merge, 2 observers, 2 writers, 1 card.
- `Manuals`, `PlaybookBuild`: one PDF and one HTML tree, 2 contents, batches of 2,
  2 ingests of two builds; 3 technicians (a shop's, two freelancers), 2 cars, 2
  closed jobs, 1 prompt. The playbook part begins with one ingest and one job
  done, so that what a prompt can meet is there early. A search is three
  statements (the index, full text, cosine) between which ingests go on.

`bay` uses the symmetry of `Cars`: no car is distinguished anywhere in `BayJobs`;
`bay_captures` uses that of `Handlers`, likewise. Both runs check invariants only.
The other runs use none: they finish without it, and some check liveness, where
it is unsound.

The types of `JobLedger`, `BusCapture` and `PlaybookChecks` are proved (section 4)
and not run again; `NothingForgotten` and `NothingInvented` are proved for any
captures and run in the composition.

### Fairness

- `JobLedger`: weak fairness of each handler's next statement. A goroutine is
  scheduled and PostgreSQL answers; a statement that waits for a row lock is
  not enabled meanwhile. `Rollback` has no fairness: nothing relies on failures.
- `ClearCodes`: weak fairness of the worker's thread. Each exchange ends with
  an answer or a timeout (`udsoncan`'s request timeout); neither commands of the
  bay nor faults of the car are forced.
- `OfflineQueue`: weak fairness of each flush: `setInterval` fires every 8 s and
  every `fetch` settles. `Drains` assumes that the ledger stays up in the end.

### Notes on the code met while modelling

- The doc string of `clear_dtcs` ("no session change", `session.py:231`) holds of
  the plan, not of every clear: `_clear_dtc` asks for the extended session when a
  module refuses `$14` outside it. The model has the change of session.
- A customer edit made online is awaited and shown as failed; a capture or a
  check is not awaited and is queued when it fails. `SaveOnline` is the latter.
- A year of 2000 asked of `SearchManuals` means "no year" (`docs.go:204-207`), so a
  car of 2000 sees the manuals of every year of its model (`AnyYear`).
- Typing the VIN of a job that is parked, while its second visit is on the screen,
  replaces the first visit's row (`jobStall.ts:80`): one of the ways `pushed_out`.
- A dark scan names no car; typing another VIN then keeps it on the screen, since
  `loadTypedVin` finds no `heldVin` (`Bay.tsx:687`): `typed_over`.
- A deep scan whose kit reports another VIN replaces the scan on the screen
  without parking it (`Bay.tsx:804-811`): `swapped`. READ VIN parks what was on the
  screen when it was clicked, not when the kit answered (`Bay.tsx:723-733`):
  `late`.
- When `PassThruConnect` fails, the constructor raises after `PassThruOpen`
  (`j2534.py:103-107`) and nothing can close the device: `refused`. The next connect
  opens another.
- `enqueue` replaces a queued capture by a newer one (`queue.ts:27`) while the ledger
  merges captures: a node that only the replaced scan saw never becomes
  `ever_reachable`: `replaced` in `MapFollowsScans`.
- A COMMIT of an imported report that took place and was reported failed leaves a
  row whose file the deferred `os.Remove` has deleted (`import.go:82-98`): `unsure`.

## 4. Proofs

All theorems hold for every value of the constants that meets the named
`ASSUME`s of the module: any finite or infinite sets of visits, technicians,
nodes, steps and handlers, and any bounds.

**`JobLedgerProofs`.** `IInv` says what an *open* transaction has established
and still holds: it has begun at a time nobody else has (`DistinctInv`), its
check of the opener is still valid, no row with its BEGIN time is on file, and
once it has updated the technician's row its computed score is the committed
score plus the reward. The last part is inductive only because two
transactions never hold the same technician's row: the row lock is what the
proof rests on. `SessionInv` keeps, for each closed session, a resolution that
committed last, with the session's verdict, and one that began last, from
which `HistoryAgrees` follows. `ReputationEarned` needs `IsFiniteSet` of the
file and the cardinality of a set with one more element. `CloseoutImplementsAtomic`
maps `Commit` to `Close`, `OpenSession` to `Open` and everything else to a
stutter.

**`BusCaptureProofs`.** `writes` counts the writes of the row. `IInv` ties what a
request has read to it: when its version is the current one, what it read *is*
the row, and in any case all it claims has been seen by a scan (`Founded`). From
the first part follows `NothingForgotten`, from the second `NothingInvented`,
which no overlap can break. Lemmas say what a merge keeps (`MergedEver`,
`MergedText`, `MergedCount`).

For `BayCaptures`, the composition is first shown to be each of its parts:
`QueueAsAlone` (a step is one of the queue's or leaves it alone, and so the
invariants of `OfflineQueueProofs`, cited through an instance, hold of it) and
`LedgerAsAlone` (a request carries a scan, and so those of `BusCapture` do).
What neither part can say is `CapturesInv`: a request that somebody awaits
carries the save at the head of that flush, or of that PUT, and no fetch is
two requests (`Fetched`); each save waits in the queue, is in a PUT, has been
merged, or has its excuse (`NoScanLost`); and as long as no orphaned request
wrote, what the queue's model calls `stored` is the scan that was written last
(`LastIsStored`). With an empty queue the second leaves only *merged*, which
`NothingForgotten` turns into `Ever`; with `SettlesOnLatest`, the third is the newest
scan. `MapFollows` puts the three invariants together.

**`PlaybookChecksProofs`.** The same idea per row: a sync about to write whose
read is current has seen the row unsettled (`RequestOk`), so a write over a
tick needs a version in between, and that is `overtaken`. What a sync has left
is a suffix of its book; rows never go away, so every step it passed has one.

**`JobListsProofs`.** `DroppingKeeps`: a filtered list has each entry that the
test lets through, none that it refuses, and no more of any than before. The
proofs about the queue and the parked visits see filters only through it.

**`ClearCodesProofs`.** What the worker believes (`last`), what a command under
way has collected (`before`, `report`) and what the bay shows are each true of
the car *except* for the modules whose last exchange was lost or whose codes
changed by themselves: `ListTrue`, `BeforeTrue`, `ReportTrue`, `ScanTrue` and `BayTrue`
are one claim at the five places where the same knowledge lies. It moves from
the exchange to the report, from there to the list and to the screen, so none
of the five is inductive without the others. `NodesOfCommand` (a command still
has only modules of its plan to do, and the plan is of `last`) gives
`OnlyNodesWithCodes`.

**`OfflineQueueProofs`.** `IInv` is `Sound`, `NothingLost`, `NoneTwice` and
`NewestWins`. A save is in the queue, in a flush's hand (still to do, or to be
written back) or with a direct PUT. `KeptInHand`: while a flush runs, what was
queued before it is in its hand, so that its write-back does not lose it.
`HandsApart`, `HandsUnposted` and `ListsOnce`: two flushes that hold one POST are
already excused, and no list has an entry twice. `OnItsWay`: the newest save
of a key is in the ledger or somewhere above it, unless the key's saves raced.
Proving this found that `raced` had been noted too late: the condition under
which a failed direct PUT is a race counted that PUT itself as pending
(`DirectFails`); the model has been put right.

**`BayProofs`.** *`KitInv`* ties the commands of sockets to the driver: a thread
at each step holds the kit it says (`Shape`), two kits never share a device
(`OwnDevice`), the one the worker holds is open (`HeldIsOpen`), one connect at most replaces
another's kit (`OneReplaces`), no answer waits that nobody asked for
(`AnswersAsked`); a command noted as alone is the only one running (`AloneRuns`),
and then the channel's ids, filter and receive queue are as it set them
(`AloneOnChannel`, with `ChannelOf` for each step). From the last one
`ExchangeOfItsNode` follows: the flush has emptied the queue after the filter
was set, so what arrives answers this command. *`BayInv`* is `BayTypeOK`, `WorkKept`
and `OneCarPerVisit`, and is inductive as it stands: each excuse is noted in the
step that makes it one. `BothParts` shows that what is proved of a component
holds in `MCBay`, where `TypeCorrect` is about both.

**`CloudServerProofs`.** *Accounts.* `AccountsInv` follows a request from what it
saw: one that is to insert a ticket found none open since it began, so any open
one it does not know overlapped it (`TicketsAreOne`); one that is to commit a
login holds, by row locks, every open ticket of its address except those filed
or reopened after its UPDATE (`LoginsCloseTickets`). `OneIssuer`, that the unique
e-mail lets only one transaction have an address's user, makes the two parts
inductive. `AccountsImplementDesk` maps `InsertTicket` to `File`, `Review` to `Review`,
`CommitLogin` to `Issue` and all other steps to stutters; `AccountsStep` proves the
invariant and the mapping together, action by action, since the second needs
the first.

*VIN decode.* `VehicleInv` says which kinds of route can be at which step, and
that a route past `EnsureVehicle` has its vehicle. `UpsertKeeps` is the heart of
`NamesAreKept`: an upsert fills only what nobody has named.

*Imported reports.* Ids are given out once (`IdsApart`), so nobody else touches
the file of an upload; `UploadOk` says how far file and rows are at each of its
statements, and the one excuse is a COMMIT that took place and was reported
failed.

*Server start.* `StartInv` adds to `AppliedOnce` that a marker that is inserted and
not committed is locked by one process (`MarkerLocked`: the second INSERT waits
for it, and then finds it), that each process has on record what it passed, but
for what it may skip without pgvector (`PassedOrSkipped`), that it has made the
seeds it has passed (`Seeds`), that the column has its old type only until
`Resize` is on record (`OldColumn`), and that a process's flag is true of the
column (`FlagIsTrue`). The last needs that files have distinct names and that
`010`, which makes the column, comes before `011`, which resizes it
(`FilesAssumption`).

*Action catalog.* `ObserverOk`: whoever is about to INSERT has seen every row with
which its step merges, but for those that came in meanwhile from requests that
overlap it. `BestMergeFinds` is the lemma it rests on: where a row merges there is
a closest one. Induction over the score is out of reach (section below), so it
is taken from the well-foundedness of strict subsets of a finite set, an
instance the library has as a theorem. `MergeSymmetric` lets a pair of rows be
looked at from the later one. `WriterOk`: a save that is alone has linked what it
no longer has to do; `SettledOk` is `LinksOfLastSave` plus what such a card keeps.

*Manuals.* `ManualsInv`: before it is replaced, the row that an ingest has read is
still of its manual or gone, as ids are never given out again; who is past
`LockEmbeddingModel` has the model on record, which is written once; each chunk
of a batch that is still there has the text in hand that was sent for it.
`OrderedAsAsked`: in whatever order the embedder answers, each vector gets to the
chunk it was asked for (an answer whose indices are distinct and in range names
each place once). `RowsAdvance` says what any step may do to rows that another
ingest has read, so that the others' parts of the invariant are proved once.

*Playbooks.* `BuildInv`: jobs are filed under the shop of their technician, and
what a request has gathered is on record, of the right cars, in its scope, and
compared with vectors of `ServerModel` only. The index is looked up two
statements before its vectors are ranked; `IndexAsRead` says that it is still the
server's as long as a query waits with its vector, since a model is recorded
once (`IngestsKeepIndex`). `PlaybookInv` adds it and `ManualsInv`, since manuals
are ingested while a prompt is gathered.

*The server as a whole.* `ComponentsAsAlone`: a behaviour of `CloudSpec`, seen
through one component's variables, is one of that component's specification,
so its theorems carry over. `TypeCorrect` is about all seven; `UnderWay` shows
that the state in which the instance begins playbooks is one that `PlaybookInv`
admits, under the instance's `UnderWayAssumption`, on which nothing else rests.

**Assumptions found necessary.** Proofs that failed for a good reason named
what the models had left unsaid: migration files have distinct names and `010`
comes before `011` (`FilesAssumption`); titles have finitely many words
(`TitlesAssumption`) and playbooks are sequences of steps over them
(`PlaybooksAssumption`); no build's model has the name that stands for no row
(`ModelsAssumption`, `ServerModelAssumption`); each manual has a sidecar (`CoversAssumption`); an ingest
reads from its first file on (`at` in `Ingester`); flushes, saves and nobody are
told apart (`SendersAssumption`). TLC evaluates all of them on
the runs.

| theorem | property |
|---|---|
| `JobLedgerProofs!TypeCorrect`, `ReputationEarned`, `OutcomeExplained`, `HistoryAgrees`, `CloseoutImplementsAtomic` | `TypeOK` (proved only), `RewardMatchesFixes`, `OutcomeHasResolution`, `HistoryAgreesUnlessOverlap`, `CloseoutIsAtomic` |
| `BusCaptureProofs!TypeCorrect`, `MapIsObserved`, `MapIsComplete`, `MapFollows` | `TypeOK` (proved only), `NothingInvented`, `NothingForgotten`, `MapFollowsScans` |
| `PlaybookChecksProofs!TypeCorrect`, `TicksAreKept`, `BooksHaveRows` | `TypeOK` (proved only), `TickIsKept`, `SyncedStepsHaveRows` |
| `ClearCodesProofs!TypeCorrect`, `DarkNodesNotAddressed`, `LastModulesTrue`, `BayHidesNoCode` | `TypeOK`, `OnlyNodesWithCodes`, `ListIsTrue`, `NoCodeHidden` |
| `OfflineQueueProofs!TypeCorrect`, `QueuedWorkStays`, `VisitMakesOneRow`, `NewestSaveWins` | `TypeOK`, `KeptUntilDelivered`, `PostedOnce`, `SettlesOnLatest` |
| `BayProofs!TypeCorrect`, `AnswersOfItsNode`, `OpenKitIsReachable`, `VisitsKept`, `VisitsApart` | `TypeOK`, `ExchangeOfItsNode`, `KitStaysReachable`, `WorkKept`, `OneCarPerVisit` |
| `CloudServerProofs!TicketsAreOne`, `LoginsCloseTickets`, `AccountsImplementDesk` | `OneOpenTicket`, `LeftBehindOnlyByRace`, `DeskKeepsPromise` |
| `CloudServerProofs!VehicleIsThere`, `NamesAreKept`, `FiledReportsOpen` | `VehicleBeforeRows`, `NamesStay`, `FiledReportOpens` |
| `CloudServerProofs!MigrationsApplyOnce`, `ReadyAfterMigrations` | `AppliedOnce`, `ReadyMeansMigrated` |
| `CloudServerProofs!OneRowPerAction`, `SavedLinksStay` | `OneRowPerMorph`, `LinksOfLastSave` |
| `CloudServerProofs!VectorsAreTrue`, `ManualsStayOnFile` | `VectorsOfTheIndex`, `ManualStays` |
| `CloudServerProofs!PromptsKeepScope`, `QueriesMeetOneModel`, `TypeCorrect` | `PromptInScope`, `CosineOneModel`, `TypeOK` |

**Only model-checked.** The liveness properties (`CloseoutEnds`, `CommandEnds`,
`Drains`): fairness and ENABLED are out of the prover's reach, and so is
induction over data, which no theorem above needs. The violations are
counterexamples of the small instances. Every invariant and action property of
a passing run is a theorem.

## 5. Not modelled, and why

- Device I/O and vendor DLLs: adapter detection (`detect.py`) and, of the channel,
  the framing of PDUs (RxStatus, DataSize) and the mock adapter's `ScriptedEcu`.
- Text in and out: the wording of prompts, the parsing and cleaning of a model's
  answer, text filters and the privacy filter, the extraction, cleaning and
  cutting of manuals' pages, captions and translation, the ranking of hits. They
  are functions without state that unit tests reach, and what a property hangs
  on (a normalized status, token or platform) is in the module that uses it.
- Layout and forms: landing, login, admin and print pages; of the bay, mileage,
  root cause and the form fields of a job.
- The checks on the bay's screen: after READ VIN or a typed VIN those of the car
  before stay until the history answers, always (hazard at `Bay.tsx:474`), so no
  property that the code keeps can be said of whose they are.
- What keeps no state or one row without a merge: `stream_dids`, `SeedDTCs`,
  `CreateShop`, and the customer's row (`UpsertShopCustomer`: UPDATE, then INSERT,
  as in `BusCapture` without what it merges).

## 6. Plan

Done, in the order of importance: `JobLedger` with `AtomicCloseouts`,
`BusCapture`, `PlaybookChecks`; `ClearCodes`; `OfflineQueue`;
`BayJobs`; `KitChannel`; `Accounts` with `TicketDesk`, `ImportedReports`,
`VehicleDecode`; `ServerStart`, `ActionCatalog`, `Manuals`, `PlaybookBuild`; the
composition `BayCaptures`; proofs about all of them.

Left:

1. More of what steps may never do, as action properties with their proofs.
2. The queue in front of `PlaybookChecks`, so that a queued tick meets a sync.
3. The customer's row.

Runs of later modules share an instance where the questions allow it, so that
the number of runs stays that of the questions.
