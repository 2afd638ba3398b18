--------------------------- MODULE MCHeapClients ---------------------------
\* The boot's two allocations on a heap with ample room for both, so that the
\* split of a near fit plays no part.
EXTENDS HeapClients

MCClient == {"driver", "frame"}
MCRequests == {DriverSize, FrameSize}
=============================================================================
