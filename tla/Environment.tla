----------------------------- MODULE Environment -----------------------------
(***************************************************************************)
(* EnvironmentManager, for one environment directory: install() and        *)
(* uninstall() of its types, which build or remove what the type consists  *)
(* of and edit the marker file, by reading it, changing it and writing it  *)
(* back in place.  Several processes and threads do that without a lock,   *)
(* and any of them can be killed between two steps.                        *)
(***************************************************************************)
EXTENDS Naturals, FiniteSets

CONSTANTS Actors,      \* those who install, use or remove
          MaxCrashes   \* bound on the actors that are killed

ASSUME CrashesAssumption == MaxCrashes \in Nat

VARIABLES
  job,         \* what each actor does
  env,         \* where it is in install() or uninstall()
  copy,        \* the marker as it has read and changed it
  marker,      \* the types .installed lists ...
  markerCut,   \* ... unless the file is open for writing or was left so
  venv,        \* what the venv directory holds; nothing if there is none
  image,       \* whether the Docker image exists
  overlapped,  \* whether an actor began while another was busy, whether one was
  halfRemoved, \* killed in the middle of an uninstall, and the killed ones
  crashed      \* (history)

envVars == <<job, env, copy, marker, markerCut, venv, image, overlapped,
             halfRemoved, crashed>>

Types == {"venv", "docker"}
Parts == {"python", "packages"}

\* Jobs: an object behind a runner, an installation by itself, forced or not,
\* and the removal of one type or of all of them.
Runners    == {"thread", "process", "service", "venv", "docker"}
Installs   == Types \cup {"setup venv", "setup docker", "force venv", "force docker"}
Uninstalls == {"uninstall venv", "uninstall docker", "uninstall all"}
Jobs       == Runners \cup Installs \cup Uninstalls \cup {"nothing"}

TypeOf(j) == IF j \in {"docker", "setup docker", "force docker", "uninstall docker"}
             THEN "docker" ELSE "venv"
Forced(j) == j \in {"force venv", "force docker"}

\* _read_marker: a file that cannot be parsed lists nothing.
ReadMarker == IF markerCut THEN {} ELSE marker

There(t) == IF t = "venv" THEN venv = Parts ELSE image

Idle    == {"idle", "installed", "failed", "removed", "killed"}
Busy(a) == env[a] \notin Idle

EnvInit ==
  /\ env = [a \in Actors |-> "idle"]
  /\ copy = [a \in Actors |-> {}]
  /\ marker \in SUBSET Types
  /\ markerCut = FALSE
  /\ venv = IF "venv" \in marker THEN Parts ELSE {}
  /\ image = ("docker" \in marker)
  /\ overlapped = FALSE /\ halfRemoved = FALSE /\ crashed = {}

\* A step of an actor, and what stays as it is unless the step says otherwise.
EnvStep(a, from, to) ==
  /\ env[a] = from /\ env' = [env EXCEPT ![a] = to]
  /\ UNCHANGED <<job, halfRemoved, crashed>>

Begins(a, to) ==
  /\ EnvStep(a, "idle", to)
  /\ overlapped' = (overlapped \/ \E b \in Actors : Busy(b))

----------------------------------------------------------------------------
(* install() *)

\* The type is listed, and that is all that is looked at, ...
FindsInstalled(a) ==
  /\ job[a] \in Installs /\ ~Forced(job[a]) /\ TypeOf(job[a]) \in ReadMarker
  /\ Begins(a, "installed")
  /\ UNCHANGED <<copy, marker, markerCut, venv, image>>

\* ... or its entry is removed before anything is touched.
BeginInstall(a) ==
  /\ job[a] \in Installs
  /\ Forced(job[a]) \/ TypeOf(job[a]) \notin ReadMarker
  /\ Begins(a, "unlisting")
  /\ UNCHANGED <<copy, marker, markerCut, venv, image>>

\* _remove_marker_entry: the marker is read, ...
UnlistRead(a) ==
  /\ EnvStep(a, "unlisting", "unlisted")
  /\ copy' = [copy EXCEPT ![a] = ReadMarker \ {TypeOf(job[a])}]
  /\ UNCHANGED <<marker, markerCut, venv, image, overlapped>>

AfterUnlist(a) == IF job[a] \in Uninstalls THEN "sweeping"
                  ELSE IF TypeOf(job[a]) = "venv" THEN "clearing" ELSE "building"

\* ... removed if nothing is left to list, ...
UnlistLast(a) ==
  /\ copy[a] = {}
  /\ EnvStep(a, "unlisted", AfterUnlist(a))
  /\ marker' = {} /\ markerCut' = FALSE
  /\ UNCHANGED <<copy, venv, image, overlapped>>

\* ... and otherwise opened, which empties it, and written.
OpenMarker(a) ==
  /\ \/ EnvStep(a, "unlisted", "unlist writing") /\ copy[a] # {}
     \/ EnvStep(a, "listed", "list writing")
  /\ markerCut' = TRUE
  /\ UNCHANGED <<copy, marker, venv, image, overlapped>>

WriteMarker(a) ==
  /\ \/ EnvStep(a, "unlist writing", AfterUnlist(a))
     \/ EnvStep(a, "list writing", "installed")
  /\ marker' = copy[a] /\ markerCut' = FALSE
  /\ UNCHANGED <<copy, venv, image, overlapped>>

\* VenvBackend.install: what is there goes, ...
ClearVenv(a) ==
  /\ EnvStep(a, "clearing", "creating")
  /\ venv' = {}
  /\ UNCHANGED <<copy, marker, markerCut, image, overlapped>>

\* ... uv makes a venv, over one that has appeared since ...
CreateVenv(a) ==
  /\ EnvStep(a, "creating", "filling")
  /\ venv' \in {{"python"}, venv \cup {"python"}}
  /\ UNCHANGED <<copy, marker, markerCut, image, overlapped>>

\* ... and installs the project, the packages and the requirements into it.
FillVenv(a) ==
  /\ "python" \in venv
  /\ EnvStep(a, "filling", "listing")
  /\ venv' = Parts
  /\ UNCHANGED <<copy, marker, markerCut, image, overlapped>>

\* Mutant: what was built so far is left.
VenvFailsLeaving(a) ==
  /\ env[a] \in {"creating", "filling"}
  /\ EnvStep(a, env[a], "failed")
  /\ UNCHANGED <<copy, marker, markerCut, venv, image, overlapped>>

\* Whatever is raised, the venv goes before the exception does; a file system that
\* refuses the removal, which is not noticed, is left out.
VenvFails(a) ==
  /\ env[a] \in {"creating", "filling"}
  /\ EnvStep(a, env[a], "failed")
  /\ venv' = {}
  /\ UNCHANGED <<copy, marker, markerCut, image, overlapped>>

\* DockerBackend.install: an image with the right tag is used as it is.
BuildImage(a) ==
  /\ EnvStep(a, "building", "listing")
  /\ image' = TRUE
  /\ UNCHANGED <<copy, marker, markerCut, venv, overlapped>>

BuildFails(a) ==
  /\ ~image \/ Forced(job[a])
  /\ EnvStep(a, "building", "failed")
  /\ UNCHANGED <<copy, marker, markerCut, venv, image, overlapped>>

\* _add_marker_entry reads the marker again.
ListRead(a) ==
  /\ EnvStep(a, "listing", "listed")
  /\ copy' = [copy EXCEPT ![a] = ReadMarker \cup {TypeOf(job[a])}]
  /\ UNCHANGED <<marker, markerCut, venv, image, overlapped>>

----------------------------------------------------------------------------
(* uninstall() *)

BeginUninstall(a) ==
  /\ job[a] \in Uninstalls
  /\ Begins(a, "removing")
  /\ copy' = [copy EXCEPT ![a] = ReadMarker]
  /\ UNCHANGED <<marker, markerCut, venv, image>>

\* The backends remove what the marker says there is; `docker rmi` may refuse,
\* and nobody asks.
Remove(a) ==
  LET all == job[a] = "uninstall all"
      types == IF all THEN copy[a] ELSE {TypeOf(job[a])} IN
  /\ EnvStep(a, "removing", IF all THEN "sweeping" ELSE "unlisting")
  /\ venv' = IF "venv" \in types THEN {} ELSE venv
  /\ image' \in IF "docker" \in types \cap copy[a] THEN {image, FALSE} ELSE {image}
  /\ UNCHANGED <<copy, marker, markerCut, overlapped>>

\* With nothing listed any more, or all to be removed, the directory goes.
Sweep(a) ==
  /\ EnvStep(a, "sweeping", "removed")
  /\ IF job[a] = "uninstall all" \/ ReadMarker = {}
     THEN marker' = {} /\ markerCut' = FALSE /\ venv' = {}
     ELSE UNCHANGED <<marker, markerCut, venv>>
  /\ UNCHANGED <<copy, image, overlapped>>

\* An actor is killed.
Killed(a) ==
  /\ Busy(a) /\ Cardinality(crashed) < MaxCrashes
  /\ env' = [env EXCEPT ![a] = "killed"]
  /\ crashed' = crashed \cup {a}
  /\ halfRemoved' = (halfRemoved \/ (job[a] \in Uninstalls /\ env[a] # "removing"))
  /\ UNCHANGED <<job, copy, marker, markerCut, venv, image, overlapped>>

EnvironmentStep(a) ==
  \/ FindsInstalled(a) \/ BeginInstall(a) \/ UnlistRead(a) \/ UnlistLast(a)
  \/ OpenMarker(a) \/ WriteMarker(a) \/ ClearVenv(a) \/ CreateVenv(a)
  \/ FillVenv(a) \/ VenvFails(a) \/ BuildImage(a) \/ BuildFails(a) \/ ListRead(a)
  \/ BeginUninstall(a) \/ Remove(a) \/ Sweep(a)

----------------------------------------------------------------------------
EnvTypeOK ==
  /\ job \in [Actors -> Jobs]
  /\ env \in [Actors -> Idle \cup {"unlisting", "unlisted", "unlist writing", "clearing",
                "creating", "filling", "building", "listing", "listed", "list writing",
                "removing", "sweeping"}]
  /\ copy \in [Actors -> SUBSET Types]
  /\ marker \subseteq Types /\ markerCut \in BOOLEAN
  /\ venv \subseteq Parts /\ image \in BOOLEAN
  /\ overlapped \in BOOLEAN /\ halfRemoved \in BOOLEAN /\ crashed \subseteq Actors

\* What the marker lists is there and complete, whichever step an installing
\* process was killed at, as long as nobody installs while another one does and
\* no uninstall was killed half-way.
MarkedIsThere ==
  (~overlapped /\ ~halfRemoved /\ \A a \in Actors : env[a] \in Idle)
    => \A t \in ReadMarker : There(t)

\* And no venv is left that the marker does not list, unless somebody was killed.
NothingForgotten ==
  (~overlapped /\ crashed = {} /\ \A a \in Actors : env[a] \in Idle)
    => (venv # {} => "venv" \in ReadMarker)
=============================================================================
