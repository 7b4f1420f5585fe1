------------------------------ MODULE MCJobLedger ------------------------------
(* Two visits, two technicians and two requests at once: enough for two    *)
(* closeouts of one visit to overlap, for two visits of one technician to  *)
(* contend for the reputation row, and for a technician to try to close    *)
(* somebody else's visit.                                                  *)
EXTENDS JobLedger

CONSTANTS s1, s2, t1, t2, h1, h2

MCSessionIds == {s1, s2}
MCTechnicians == {t1, t2}
MCHandlers == {h1, h2}
=============================================================================
