--------------------------- MODULE MCWebGpuBackend ---------------------------
EXTENDS WebGpuBackend

MCBytes == [k \in Keys |-> 2]
=============================================================================
