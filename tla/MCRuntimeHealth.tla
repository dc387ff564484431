--------------------------- MODULE MCRuntimeHealth ---------------------------
(* The instance of RuntimeHealth that TLC checks: the constants are numbers, *)
(* given in RuntimeHealth.cfg.                                              *)
EXTENDS RuntimeHealth
=============================================================================
