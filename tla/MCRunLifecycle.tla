--------------------------- MODULE MCRunLifecycle ---------------------------
(***************************************************************************)
(* RunLifecycle with consumer threads and clients as model values.          *)
(***************************************************************************)
EXTENDS RunLifecycle

CONSTANTS w1, w2, c1, c2
=============================================================================
