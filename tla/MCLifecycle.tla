----------------------------- MODULE MCLifecycle -----------------------------
(***************************************************************************)
(* Instances of Lifecycle for TLC.                                         *)
(***************************************************************************)
EXTENDS LifecycleProperties, TLC

\* CLIs are interchangeable, and so are pids, which no action compares or
\* orders; ids are not where one of them owns a foreign cache.
CliAndPidSymmetry == Permutations(Cli) \cup Permutations(Pid)

\* Kill windows in which a deployment's cache exists without its key.
CacheWindows == {"marker", "mwrite", "xrm"}

Anywhere == Label
OutsideCacheWindows == Label \ CacheWindows

=============================================================================
