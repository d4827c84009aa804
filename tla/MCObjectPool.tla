---------------------------- MODULE MCObjectPool ----------------------------
(* ObjectPool on small instances: the constants are given by the cfg.      *)
EXTENDS ObjectPool
=============================================================================
