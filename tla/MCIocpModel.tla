---------------------------- MODULE MCIocpModel ----------------------------
(* IocpModel on small instances: the faults of each run.                   *)
EXTENDS IocpModel

Resets == {"reset"}
=============================================================================
