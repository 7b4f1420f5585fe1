--------------------------- MODULE MCPlaybookChecks ---------------------------
(* Two steps and three requests, all of which may run at once: two syncs   *)
(* of books that share a step, or a sync and a tick behind its back.       *)
EXTENDS PlaybookChecks

CONSTANTS f1, f2, h1, h2, h3

MCFingerprints == {f1, f2}
MCBooks == {<<f1, f2>>, <<f2>>, <<f1, f1>>}
MCHandlers == {h1, h2, h3}
=============================================================================
