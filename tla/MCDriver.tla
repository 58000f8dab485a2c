------------------------------ MODULE MCDriver ------------------------------
(***************************************************************************)
(* Driver with the frontend and the backends that are registered, and one  *)
(* file type nobody knows.  A second pass, which the program does not      *)
(* have, is there to tell an order from another.                           *)
(***************************************************************************)
EXTENDS Driver

MCFiletypes == {"fir", "tree", "dot", "v", ""}
MCFrontendOf == [fir |-> "FIRRTL"]
MCBackendOf == [fir |-> "FIRRTL", tree |-> "tree", dot |-> "dot"]
=============================================================================
