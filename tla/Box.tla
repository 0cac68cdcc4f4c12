--------------------------------- MODULE Box ---------------------------------
(***************************************************************************)
(* The parameter that the modules about apps share when one proof module   *)
(* extends two of them: AppNames and Dns, Platform and Certificates.       *)
(***************************************************************************)
CONSTANT Apps \* the apps of the box
=============================================================================
