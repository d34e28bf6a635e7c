---------------------------- MODULE MCFfwdBypass ----------------------------
(* FfwdBypass on the instances of MCFfwd.                                  *)
EXTENDS MCFfwd, FfwdBypass
=============================================================================
