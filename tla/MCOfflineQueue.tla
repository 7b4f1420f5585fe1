---------------------------- MODULE MCOfflineQueue ----------------------------
(* Three saves of one key and of the POST path, two flushes at once, one   *)
(* lost answer: a save can come before, during and after a flush.          *)
EXTENDS OfflineQueue

CONSTANTS k1, f1, f2

MCFlushes == {f1, f2}
=============================================================================
