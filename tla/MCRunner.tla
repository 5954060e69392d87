------------------------------ MODULE MCRunner ------------------------------
(* Runner on small instances: who does what at the same time. *)
EXTENDS Runner, TLC

CONSTANTS a1, a2

Pair(j, k) == (a1 :> j) @@ (a2 :> k)

\* An object behind each runner, alone or next to an uninstall; installations
\* and removals next to each other.
SmallAssignments ==
  {Pair(j, "nothing") : j \in {"thread", "process", "service"}}
    \cup {Pair("venv", "uninstall venv"), Pair("docker", "uninstall docker")}
    \cup {Pair(j, k) : j \in {"setup venv", "force docker", "uninstall venv"},
                       k \in {"force venv", "setup docker", "uninstall all"}}
=============================================================================
