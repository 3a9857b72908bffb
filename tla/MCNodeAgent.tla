---------------------------- MODULE MCNodeAgent ----------------------------
(* Instances of NodeAgent for TLC. *)
EXTENDS NodeAgent

CONSTANTS w1, w2    \* two webroots of the tenant

MCFamilies == {"tenant", "web", "jobs", "database", "valkey", "s3", "network", "gateway", "backup"}

\* A runtime with a unit per webroot that restarts and one that reloads; Ruby's
\* differs from Python's in its names only.
MCRuntimes == {"php8.5", "php8.3", "node", "python", "static"}

MCSymmetry == Permutations({w1, w2})
=============================================================================
