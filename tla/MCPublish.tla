----------------------------- MODULE MCPublish -----------------------------
(* Publish for TLC.                                                        *)
EXTENDS Publish

\* The operation sets of the runs.
EveryOperation == AllOps
Reloads == {"reload"}
ReloadsAndLoads == {"reload", "load"}

=============================================================================
