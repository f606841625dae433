----------------------- MODULE MCLifecyclePreflight -----------------------
(* Small instance of LifecyclePreflight: see LifecyclePreflight.cfg.       *)
EXTENDS LifecyclePreflight
===========================================================================
