------------------------- MODULE MCServerLifecycle -------------------------
(* ServerLifecycle on small instances: what may fail in each run.          *)
EXTENDS ServerLifecycle

AllFaults == FaultKinds
IoctlFault == {"ioctl"}
=============================================================================
