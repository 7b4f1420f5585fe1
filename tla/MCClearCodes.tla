----------------------------- MODULE MCClearCodes -----------------------------
(* Two modules and a profile that lists only one of them: a clear can      *)
(* succeed on one module and fail on the other, and a VIN read can shrink  *)
(* the list between the scan and the clear.  Two misses lose an answer in  *)
(* each of two commands.                                                   *)
EXTENDS ClearCodes

CONSTANTS ECM, TCM, c1

MCModules == {ECM, TCM}
MCProfiles == {<<ECM, TCM>>, <<ECM>>}
=============================================================================
