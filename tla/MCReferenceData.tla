--------------------------- MODULE MCReferenceData ---------------------------
(***************************************************************************)
(* Instances of ReferenceData: clients that ask for the same reference data *)
(* at the same time, until the data have expired twice.                   *)
(***************************************************************************)
EXTENDS ReferenceData

CONSTANTS c1, c2, c3
==============================================================================
