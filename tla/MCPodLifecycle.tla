--------------------------- MODULE MCPodLifecycle ---------------------------
(***************************************************************************)
(* Small instances of PodLifecycle.                                        *)
(***************************************************************************)
EXTENDS PodLifecycle

\* The pod named n requests n GPUs in each container, so a mix-up shows.
GpusByName == [n \in PodNames |-> n]
=============================================================================
