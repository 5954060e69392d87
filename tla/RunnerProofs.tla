----------------------------- MODULE RunnerProofs -----------------------------
(***************************************************************************)
(* What holds of Runner and Environment for any number of actors, calls    *)
(* and kills.  The environment: as long as one actor is busy at a time,    *)
(* the marker can be trusted at every step except between the removal of a *)
(* type and the removal of its entry, which only an uninstall leaves open. *)
(* The calls: without an interrupt a caller never waits next to an answer  *)
(* that is not the one of its last call.                                   *)
(***************************************************************************)
EXTENDS Runner, TLAPS

EnvStates == Idle \cup {"unlisting", "unlisted", "unlist writing", "clearing", "creating",
                        "filling", "building", "listing", "listed", "list writing",
                        "removing", "sweeping"}

\* What an actor is busy with says what its job is.
JobInv(a) ==
  /\ env[a] \in {"clearing", "creating", "filling"} =>
       job[a] \in Installs /\ TypeOf(job[a]) = "venv"
  /\ env[a] = "building" => job[a] \in Installs /\ TypeOf(job[a]) = "docker"
  /\ env[a] \in {"listing", "listed", "list writing"} => job[a] \in Installs
  /\ env[a] \in {"removing", "sweeping"} => job[a] \in Uninstalls
  /\ env[a] \in {"unlisting", "unlisted", "unlist writing"} =>
       job[a] \in Installs \cup (Uninstalls \ {"uninstall all"})

\* The marker lists only what is there, except perhaps the types of S.
TrustedBut(S) == \A t \in ReadMarker \ S : There(t)
CopyTrusted(a) == \A t \in copy[a] : There(t)

Removing(a) == job[a] \in Uninstalls

\* What can be said of the marker while a is busy.
BusyInv(a) ==
  LET t == TypeOf(job[a]) IN
  /\ env[a] \in {"removing", "clearing", "creating", "filling", "building",
                 "listing", "listed"} => TrustedBut({})
  /\ env[a] \in {"unlisting", "unlisted"} => TrustedBut({t})
                                             /\ (~Removing(a) => TrustedBut({}))
  /\ env[a] \in {"unlisted", "unlist writing", "list writing"} => CopyTrusted(a)
  /\ env[a] = "listed" => CopyTrusted(a)
  /\ env[a] \in {"unlisted", "unlist writing"} => t \notin copy[a]
  /\ env[a] \in {"unlist writing", "list writing"} => markerCut
  /\ env[a] \in {"clearing", "creating", "filling", "building"} => t \notin ReadMarker
  /\ env[a] \in {"listing", "listed", "list writing"} => There(t)
  /\ env[a] = "sweeping" /\ job[a] # "uninstall all" => TrustedBut({})

NoneBusy == \A a \in Actors : ~Busy(a)

MarkerInv ==
  ~overlapped =>
    /\ \A a, b \in Actors : Busy(a) /\ Busy(b) => a = b
    /\ ~halfRemoved => /\ NoneBusy => TrustedBut({})
                       /\ \A a \in Actors : Busy(a) => BusyInv(a)

\* What can be said of the venv while a is busy and nobody was killed.
Kept(types) == venv # {} => "venv" \in types
VenvInv(a) ==
  LET t == TypeOf(job[a]) IN
  /\ env[a] \in {"removing", "building"} => Kept(ReadMarker)
  /\ env[a] = "unlisting" /\ (Removing(a) \/ t = "docker") => Kept(ReadMarker \ {t})
  /\ env[a] = "removing" => copy[a] = ReadMarker
  /\ env[a] \in {"unlisted", "unlist writing"} /\ (Removing(a) \/ t = "docker")
       => Kept(copy[a])
  /\ env[a] = "listing" /\ t = "docker" => Kept(ReadMarker)
  /\ env[a] \in {"listed", "list writing"} => Kept(copy[a])
  /\ env[a] = "sweeping" => Kept(ReadMarker) \/ job[a] = "uninstall all"
  /\ env[a] \in {"clearing", "creating", "filling"} => t = "venv"

ForgetInv ==
  (~overlapped /\ crashed = {}) =>
    /\ NoneBusy => Kept(ReadMarker)
    /\ \A a \in Actors : Busy(a) => VenvInv(a)

EnvInv == /\ EnvTypeOK /\ MarkerInv /\ ForgetInv
          /\ \A a \in Actors : JobInv(a)

----------------------------------------------------------------------------
(* A step of one actor: what has to be shown of it alone. *)

Trusts(a) == IF Busy(a) THEN BusyInv(a) ELSE TrustedBut({})
Keeps(a)  == IF Busy(a) THEN VenvInv(a) ELSE Kept(ReadMarker)

LEMMA BusyStep ==
  ASSUME EnvInv, NEW a \in Actors, Busy(a), overlapped' = overlapped,
         NEW to, env' = [env EXCEPT ![a] = to],
         UNCHANGED <<job, halfRemoved, crashed>>,
         ~overlapped /\ ~halfRemoved /\ BusyInv(a) => Trusts(a)',
         ~overlapped /\ crashed = {} /\ VenvInv(a) => Keeps(a)',
         JobInv(a)'
  PROVE  MarkerInv' /\ ForgetInv' /\ \A b \in Actors : JobInv(b)'
<1>1. \A b \in Actors \ {a} : env'[b] = env[b] /\ (Busy(b)' <=> Busy(b))
  BY DEF EnvInv, EnvTypeOK, Busy
<1>2. \A b \in Actors : JobInv(b)'
  BY <1>1 DEF EnvInv, JobInv
<1>3. ~overlapped => \A b \in Actors \ {a} : ~Busy(b)
  BY DEF EnvInv, MarkerInv
<1>4. ~overlapped => \A b \in Actors \ {a} : ~Busy(b)'
  BY <1>1, <1>3
<1>5. MarkerInv'
  BY <1>4 DEF EnvInv, MarkerInv, NoneBusy, Trusts
<1>6. ForgetInv'
  BY <1>4 DEF EnvInv, ForgetInv, NoneBusy, Keeps
<1> QED
  BY <1>2, <1>5, <1>6

LEMMA IdleStep ==
  ASSUME EnvInv, NEW a \in Actors, NEW to, Begins(a, to),
         ~overlapped /\ ~halfRemoved /\ TrustedBut({}) => Trusts(a)',
         ~overlapped /\ crashed = {} /\ Kept(ReadMarker) => Keeps(a)',
         JobInv(a)'
  PROVE  MarkerInv' /\ ForgetInv' /\ \A b \in Actors : JobInv(b)'
<1> USE DEF Begins, EnvStep
<1>1. \A b \in Actors \ {a} : env'[b] = env[b] /\ (Busy(b)' <=> Busy(b))
  BY DEF EnvInv, EnvTypeOK, Busy
<1>2. \A b \in Actors : JobInv(b)'
  BY <1>1 DEF EnvInv, JobInv
<1>3. ~overlapped' => ~overlapped /\ NoneBusy
  BY DEF NoneBusy
<1>4. ~overlapped' => \A b \in Actors \ {a} : ~Busy(b)'
  BY <1>1, <1>3 DEF NoneBusy
<1>5. MarkerInv'
  BY <1>3, <1>4 DEF EnvInv, MarkerInv, NoneBusy, Trusts
<1>6. ForgetInv'
  BY <1>3, <1>4 DEF EnvInv, ForgetInv, NoneBusy, Keeps
<1> QED
  BY <1>2, <1>5, <1>6

LEMMA TypesOf ==
  /\ \A j : TypeOf(j) \in Types
  /\ Installs \cap Uninstalls = {}
BY DEF TypeOf, Types, Installs, Uninstalls

----------------------------------------------------------------------------
(* Every step of the environment *)

LEMMA UnlistReadEnv ==
  ASSUME EnvInv, NEW a \in Actors, UnlistRead(a)
  PROVE  MarkerInv' /\ ForgetInv' /\ \A b \in Actors : JobInv(b)'
<1> USE TypesOf DEF UnlistRead, EnvStep, EnvInv, EnvTypeOK, Busy, Idle
<1>0. JobInv(a) /\ Busy(a) /\ overlapped' = overlapped
  BY DEF JobInv
<1>1. ~overlapped /\ ~halfRemoved /\ BusyInv(a) => Trusts(a)'
  BY <1>0 DEF Trusts, BusyInv, JobInv, TrustedBut, CopyTrusted, ReadMarker, There, Removing,
     TypeOf, Types, Installs, Uninstalls, Parts
<1>2. ~overlapped /\ crashed = {} /\ VenvInv(a) => Keeps(a)'
  BY <1>0 DEF Keeps, VenvInv, JobInv, Kept, ReadMarker, Removing, TypeOf, Types,
     Installs, Uninstalls, Parts
<1>3. JobInv(a)'
  BY <1>0 DEF JobInv, TypeOf, Installs, Uninstalls, Types
<1> QED
  BY <1>0, <1>1, <1>2, <1>3, BusyStep

LEMMA UnlistLastEnv ==
  ASSUME EnvInv, NEW a \in Actors, UnlistLast(a)
  PROVE  MarkerInv' /\ ForgetInv' /\ \A b \in Actors : JobInv(b)'
<1> USE TypesOf DEF UnlistLast, EnvStep, EnvInv, EnvTypeOK, Busy, Idle
<1>0. JobInv(a) /\ Busy(a) /\ overlapped' = overlapped
  BY DEF JobInv
<1>1. ~overlapped /\ ~halfRemoved /\ BusyInv(a) => Trusts(a)'
  BY <1>0 DEF Trusts, BusyInv, JobInv, TrustedBut, CopyTrusted, ReadMarker, There, Removing,
     AfterUnlist, TypeOf, Types, Installs, Uninstalls, Parts
<1>2. ~overlapped /\ crashed = {} /\ VenvInv(a) => Keeps(a)'
  BY <1>0 DEF Keeps, VenvInv, JobInv, Kept, ReadMarker, Removing, AfterUnlist, TypeOf, Types,
     Installs, Uninstalls, Parts
<1>3. JobInv(a)'
  BY <1>0 DEF JobInv, AfterUnlist, TypeOf, Installs, Uninstalls, Types
<1> QED
  BY <1>0, <1>1, <1>2, <1>3, BusyStep

LEMMA ClearVenvEnv ==
  ASSUME EnvInv, NEW a \in Actors, ClearVenv(a)
  PROVE  MarkerInv' /\ ForgetInv' /\ \A b \in Actors : JobInv(b)'
<1> USE TypesOf DEF ClearVenv, EnvStep, EnvInv, EnvTypeOK, Busy, Idle
<1>0. JobInv(a) /\ Busy(a) /\ overlapped' = overlapped
  BY DEF JobInv
<1>1. ~overlapped /\ ~halfRemoved /\ BusyInv(a) => Trusts(a)'
  BY <1>0 DEF Trusts, BusyInv, JobInv, TrustedBut, CopyTrusted, ReadMarker, There, Removing,
     TypeOf, Types, Installs, Uninstalls, Parts
<1>2. ~overlapped /\ crashed = {} /\ VenvInv(a) => Keeps(a)'
  BY <1>0 DEF Keeps, VenvInv, JobInv, Kept, ReadMarker, Removing, TypeOf, Types,
     Installs, Uninstalls, Parts
<1>3. JobInv(a)'
  BY <1>0 DEF JobInv, TypeOf, Installs, Uninstalls, Types
<1> QED
  BY <1>0, <1>1, <1>2, <1>3, BusyStep

LEMMA CreateVenvEnv ==
  ASSUME EnvInv, NEW a \in Actors, CreateVenv(a)
  PROVE  MarkerInv' /\ ForgetInv' /\ \A b \in Actors : JobInv(b)'
<1> USE TypesOf DEF CreateVenv, EnvStep, EnvInv, EnvTypeOK, Busy, Idle
<1>0. JobInv(a) /\ Busy(a) /\ overlapped' = overlapped
  BY DEF JobInv
<1>1. ~overlapped /\ ~halfRemoved /\ BusyInv(a) => Trusts(a)'
  BY <1>0 DEF Trusts, BusyInv, JobInv, TrustedBut, CopyTrusted, ReadMarker, There, Removing,
     TypeOf, Types, Installs, Uninstalls, Parts
<1>2. ~overlapped /\ crashed = {} /\ VenvInv(a) => Keeps(a)'
  BY <1>0 DEF Keeps, VenvInv, JobInv, Kept, ReadMarker, Removing, TypeOf, Types,
     Installs, Uninstalls, Parts
<1>3. JobInv(a)'
  BY <1>0 DEF JobInv, TypeOf, Installs, Uninstalls, Types
<1> QED
  BY <1>0, <1>1, <1>2, <1>3, BusyStep

LEMMA FillVenvEnv ==
  ASSUME EnvInv, NEW a \in Actors, FillVenv(a)
  PROVE  MarkerInv' /\ ForgetInv' /\ \A b \in Actors : JobInv(b)'
<1> USE TypesOf DEF FillVenv, EnvStep, EnvInv, EnvTypeOK, Busy, Idle
<1>0. JobInv(a) /\ Busy(a) /\ overlapped' = overlapped
  BY DEF JobInv
<1>1. ~overlapped /\ ~halfRemoved /\ BusyInv(a) => Trusts(a)'
  BY <1>0 DEF Trusts, BusyInv, JobInv, TrustedBut, CopyTrusted, ReadMarker, There, Removing,
     TypeOf, Types, Installs, Uninstalls, Parts
<1>2. ~overlapped /\ crashed = {} /\ VenvInv(a) => Keeps(a)'
  BY <1>0 DEF Keeps, VenvInv, JobInv, Kept, ReadMarker, Removing, TypeOf, Types,
     Installs, Uninstalls, Parts
<1>3. JobInv(a)'
  BY <1>0 DEF JobInv, TypeOf, Installs, Uninstalls, Types
<1> QED
  BY <1>0, <1>1, <1>2, <1>3, BusyStep

LEMMA VenvFailsEnv ==
  ASSUME EnvInv, NEW a \in Actors, VenvFails(a)
  PROVE  MarkerInv' /\ ForgetInv' /\ \A b \in Actors : JobInv(b)'
<1> USE TypesOf DEF VenvFails, EnvStep, EnvInv, EnvTypeOK, Busy, Idle
<1>0. JobInv(a) /\ Busy(a) /\ overlapped' = overlapped
  BY DEF JobInv
<1>1. ~overlapped /\ ~halfRemoved /\ BusyInv(a) => Trusts(a)'
  BY <1>0 DEF Trusts, BusyInv, JobInv, TrustedBut, CopyTrusted, ReadMarker, There, Removing,
     TypeOf, Types, Installs, Uninstalls, Parts
<1>2. ~overlapped /\ crashed = {} /\ VenvInv(a) => Keeps(a)'
  BY <1>0 DEF Keeps, VenvInv, JobInv, Kept, ReadMarker, Removing, TypeOf, Types,
     Installs, Uninstalls, Parts
<1>3. JobInv(a)'
  BY <1>0 DEF JobInv, TypeOf, Installs, Uninstalls, Types
<1> QED
  BY <1>0, <1>1, <1>2, <1>3, BusyStep

LEMMA BuildImageEnv ==
  ASSUME EnvInv, NEW a \in Actors, BuildImage(a)
  PROVE  MarkerInv' /\ ForgetInv' /\ \A b \in Actors : JobInv(b)'
<1> USE TypesOf DEF BuildImage, EnvStep, EnvInv, EnvTypeOK, Busy, Idle
<1>0. JobInv(a) /\ Busy(a) /\ overlapped' = overlapped
  BY DEF JobInv
<1>1. ~overlapped /\ ~halfRemoved /\ BusyInv(a) => Trusts(a)'
  BY <1>0 DEF Trusts, BusyInv, JobInv, TrustedBut, CopyTrusted, ReadMarker, There, Removing,
     TypeOf, Types, Installs, Uninstalls, Parts
<1>2. ~overlapped /\ crashed = {} /\ VenvInv(a) => Keeps(a)'
  BY <1>0 DEF Keeps, VenvInv, JobInv, Kept, ReadMarker, Removing, TypeOf, Types,
     Installs, Uninstalls, Parts
<1>3. JobInv(a)'
  BY <1>0 DEF JobInv, TypeOf, Installs, Uninstalls, Types
<1> QED
  BY <1>0, <1>1, <1>2, <1>3, BusyStep

LEMMA BuildFailsEnv ==
  ASSUME EnvInv, NEW a \in Actors, BuildFails(a)
  PROVE  MarkerInv' /\ ForgetInv' /\ \A b \in Actors : JobInv(b)'
<1> USE TypesOf DEF BuildFails, EnvStep, EnvInv, EnvTypeOK, Busy, Idle
<1>0. JobInv(a) /\ Busy(a) /\ overlapped' = overlapped
  BY DEF JobInv
<1>1. ~overlapped /\ ~halfRemoved /\ BusyInv(a) => Trusts(a)'
  BY <1>0 DEF Trusts, BusyInv, JobInv, TrustedBut, CopyTrusted, ReadMarker, There, Removing,
     TypeOf, Types, Installs, Uninstalls, Parts
<1>2. ~overlapped /\ crashed = {} /\ VenvInv(a) => Keeps(a)'
  BY <1>0 DEF Keeps, VenvInv, JobInv, Kept, ReadMarker, Removing, TypeOf, Types,
     Installs, Uninstalls, Parts
<1>3. JobInv(a)'
  BY <1>0 DEF JobInv, TypeOf, Installs, Uninstalls, Types
<1> QED
  BY <1>0, <1>1, <1>2, <1>3, BusyStep

LEMMA ListReadEnv ==
  ASSUME EnvInv, NEW a \in Actors, ListRead(a)
  PROVE  MarkerInv' /\ ForgetInv' /\ \A b \in Actors : JobInv(b)'
<1> USE TypesOf DEF ListRead, EnvStep, EnvInv, EnvTypeOK, Busy, Idle
<1>0. JobInv(a) /\ Busy(a) /\ overlapped' = overlapped
  BY DEF JobInv
<1>1. ~overlapped /\ ~halfRemoved /\ BusyInv(a) => Trusts(a)'
  BY <1>0 DEF Trusts, BusyInv, JobInv, TrustedBut, CopyTrusted, ReadMarker, There, Removing,
     TypeOf, Types, Installs, Uninstalls, Parts
<1>2. ~overlapped /\ crashed = {} /\ VenvInv(a) => Keeps(a)'
  BY <1>0 DEF Keeps, VenvInv, JobInv, Kept, ReadMarker, Removing, TypeOf, Types,
     Installs, Uninstalls, Parts
<1>3. JobInv(a)'
  BY <1>0 DEF JobInv, TypeOf, Installs, Uninstalls, Types
<1> QED
  BY <1>0, <1>1, <1>2, <1>3, BusyStep

LEMMA RemoveEnv ==
  ASSUME EnvInv, NEW a \in Actors, Remove(a)
  PROVE  MarkerInv' /\ ForgetInv' /\ \A b \in Actors : JobInv(b)'
<1> USE TypesOf DEF Remove, EnvStep, EnvInv, EnvTypeOK, Busy, Idle
<1>0. JobInv(a) /\ Busy(a) /\ overlapped' = overlapped
  BY DEF JobInv
<1>1. ~overlapped /\ ~halfRemoved /\ BusyInv(a) => Trusts(a)'
  BY <1>0 DEF Trusts, BusyInv, JobInv, TrustedBut, CopyTrusted, ReadMarker, There, Removing,
     TypeOf, Types, Installs, Uninstalls, Parts
<1>2. ~overlapped /\ crashed = {} /\ VenvInv(a) => Keeps(a)'
  BY <1>0 DEF Keeps, VenvInv, JobInv, Kept, ReadMarker, Removing, TypeOf, Types,
     Installs, Uninstalls, Parts
<1>3. JobInv(a)'
  BY <1>0 DEF JobInv, TypeOf, Installs, Uninstalls, Types
<1> QED
  BY <1>0, <1>1, <1>2, <1>3, BusyStep

LEMMA SweepEnv ==
  ASSUME EnvInv, NEW a \in Actors, Sweep(a)
  PROVE  MarkerInv' /\ ForgetInv' /\ \A b \in Actors : JobInv(b)'
<1> USE TypesOf DEF Sweep, EnvStep, EnvInv, EnvTypeOK, Busy, Idle
<1>0. JobInv(a) /\ Busy(a) /\ overlapped' = overlapped
  BY DEF JobInv
<1>1. ~overlapped /\ ~halfRemoved /\ BusyInv(a) => Trusts(a)'
  BY <1>0 DEF Trusts, BusyInv, JobInv, TrustedBut, CopyTrusted, ReadMarker, There, Removing,
     TypeOf, Types, Installs, Uninstalls, Parts
<1>2. ~overlapped /\ crashed = {} /\ VenvInv(a) => Keeps(a)'
  BY <1>0 DEF Keeps, VenvInv, JobInv, Kept, ReadMarker, Removing, TypeOf, Types,
     Installs, Uninstalls, Parts
<1>3. JobInv(a)'
  BY <1>0 DEF JobInv, TypeOf, Installs, Uninstalls, Types
<1> QED
  BY <1>0, <1>1, <1>2, <1>3, BusyStep

LEMMA OpenMarkerEnv ==
  ASSUME EnvInv, NEW a \in Actors, OpenMarker(a)
  PROVE  MarkerInv' /\ ForgetInv' /\ \A b \in Actors : JobInv(b)'
<1> USE TypesOf DEF OpenMarker, EnvStep, EnvInv, EnvTypeOK, Busy, Idle
<1>0. JobInv(a) /\ Busy(a) /\ overlapped' = overlapped
  BY DEF JobInv
<1>1. PICK to : env' = [env EXCEPT ![a] = to] /\ UNCHANGED <<job, halfRemoved, crashed>>
  OBVIOUS
<1>2. ~overlapped /\ ~halfRemoved /\ BusyInv(a) => Trusts(a)'
  BY <1>0 DEF Trusts, BusyInv, JobInv, TrustedBut, CopyTrusted, ReadMarker, There, Removing,
     AfterUnlist, TypeOf, Types, Installs, Uninstalls, Parts
<1>3. ~overlapped /\ crashed = {} /\ VenvInv(a) => Keeps(a)'
  BY <1>0 DEF Keeps, VenvInv, JobInv, Kept, ReadMarker, Removing, AfterUnlist, There, TypeOf,
     Types, Installs, Uninstalls, Parts
<1>4. JobInv(a)'
  BY <1>0 DEF JobInv, AfterUnlist, TypeOf, Installs, Uninstalls, Types
<1> QED
  BY <1>0, <1>1, <1>2, <1>3, <1>4, BusyStep

LEMMA WriteMarkerEnv ==
  ASSUME EnvInv, NEW a \in Actors, WriteMarker(a)
  PROVE  MarkerInv' /\ ForgetInv' /\ \A b \in Actors : JobInv(b)'
<1> USE TypesOf DEF WriteMarker, EnvStep, EnvInv, EnvTypeOK, Busy, Idle
<1>0. JobInv(a) /\ Busy(a) /\ overlapped' = overlapped
  BY DEF JobInv
<1>1. PICK to : env' = [env EXCEPT ![a] = to] /\ UNCHANGED <<job, halfRemoved, crashed>>
  OBVIOUS
<1>2. ~overlapped /\ ~halfRemoved /\ BusyInv(a) => Trusts(a)'
  BY <1>0 DEF Trusts, BusyInv, JobInv, TrustedBut, CopyTrusted, ReadMarker, There, Removing,
     AfterUnlist, TypeOf, Types, Installs, Uninstalls, Parts
<1>3. ~overlapped /\ crashed = {} /\ VenvInv(a) => Keeps(a)'
  BY <1>0 DEF Keeps, VenvInv, JobInv, Kept, ReadMarker, Removing, AfterUnlist, There, TypeOf,
     Types, Installs, Uninstalls, Parts
<1>4. JobInv(a)'
  BY <1>0 DEF JobInv, AfterUnlist, TypeOf, Installs, Uninstalls, Types
<1> QED
  BY <1>0, <1>1, <1>2, <1>3, <1>4, BusyStep

LEMMA FindsInstalledEnv ==
  ASSUME EnvInv, NEW a \in Actors, FindsInstalled(a)
  PROVE  MarkerInv' /\ ForgetInv' /\ \A b \in Actors : JobInv(b)'
<1> USE TypesOf DEF FindsInstalled, EnvInv, EnvTypeOK, Busy, Idle
<1>1. Begins(a, "installed")
  OBVIOUS
<1>2. ~overlapped /\ ~halfRemoved /\ TrustedBut({}) => Trusts(a)'
  BY DEF Begins, EnvStep, Trusts, BusyInv, TrustedBut, CopyTrusted, ReadMarker, There,
     Removing, TypeOf, Types, Installs, Uninstalls
<1>3. ~overlapped /\ crashed = {} /\ Kept(ReadMarker) => Keeps(a)'
  BY DEF Begins, EnvStep, Keeps, VenvInv, Kept, ReadMarker, Removing, TypeOf, Types,
     Installs, Uninstalls, Forced
<1>4. JobInv(a)'
  BY DEF Begins, EnvStep, JobInv, TypeOf, Installs, Uninstalls, Types
<1> QED
  BY <1>1, <1>2, <1>3, <1>4, IdleStep

LEMMA BeginInstallEnv ==
  ASSUME EnvInv, NEW a \in Actors, BeginInstall(a)
  PROVE  MarkerInv' /\ ForgetInv' /\ \A b \in Actors : JobInv(b)'
<1> USE TypesOf DEF BeginInstall, EnvInv, EnvTypeOK, Busy, Idle
<1>1. Begins(a, "unlisting")
  OBVIOUS
<1>2. ~overlapped /\ ~halfRemoved /\ TrustedBut({}) => Trusts(a)'
  BY DEF Begins, EnvStep, Trusts, BusyInv, TrustedBut, CopyTrusted, ReadMarker, There,
     Removing, TypeOf, Types, Installs, Uninstalls
<1>3. ~overlapped /\ crashed = {} /\ Kept(ReadMarker) => Keeps(a)'
  BY DEF Begins, EnvStep, Keeps, VenvInv, Kept, ReadMarker, Removing, TypeOf, Types,
     Installs, Uninstalls, Forced
<1>4. JobInv(a)'
  BY DEF Begins, EnvStep, JobInv, TypeOf, Installs, Uninstalls, Types
<1> QED
  BY <1>1, <1>2, <1>3, <1>4, IdleStep

LEMMA BeginUninstallEnv ==
  ASSUME EnvInv, NEW a \in Actors, BeginUninstall(a)
  PROVE  MarkerInv' /\ ForgetInv' /\ \A b \in Actors : JobInv(b)'
<1> USE TypesOf DEF BeginUninstall, EnvInv, EnvTypeOK, Busy, Idle
<1>1. Begins(a, "removing")
  OBVIOUS
<1>2. ~overlapped /\ ~halfRemoved /\ TrustedBut({}) => Trusts(a)'
  BY DEF Begins, EnvStep, Trusts, BusyInv, TrustedBut, CopyTrusted, ReadMarker, There,
     Removing, TypeOf, Types, Installs, Uninstalls
<1>3. ~overlapped /\ crashed = {} /\ Kept(ReadMarker) => Keeps(a)'
  BY DEF Begins, EnvStep, Keeps, VenvInv, Kept, ReadMarker, Removing, TypeOf, Types,
     Installs, Uninstalls, Forced
<1>4. JobInv(a)'
  BY DEF Begins, EnvStep, JobInv, TypeOf, Installs, Uninstalls, Types
<1> QED
  BY <1>1, <1>2, <1>3, <1>4, IdleStep

LEMMA KilledEnv ==
  ASSUME EnvInv, NEW a \in Actors, Killed(a)
  PROVE  MarkerInv' /\ ForgetInv' /\ \A b \in Actors : JobInv(b)'
<1> USE DEF Killed, EnvInv, EnvTypeOK
<1>1. /\ ~Busy(a)' /\ Busy(a)
      /\ \A b \in Actors \ {a} : env'[b] = env[b] /\ (Busy(b)' <=> Busy(b))
  BY DEF Busy, Idle
<1>2. \A b \in Actors : JobInv(b)'
  BY <1>1 DEF JobInv
<1>3. ForgetInv'
  BY DEF ForgetInv
<1>4. ASSUME ~overlapped, ~halfRemoved' PROVE TrustedBut({})'
  <2>1. BusyInv(a) /\ ~halfRemoved /\ (Removing(a) => env[a] = "removing")
    BY <1>1, <1>4 DEF MarkerInv, Removing
  <2>2. UNCHANGED <<marker, markerCut, venv, image>>
    OBVIOUS
  <2>3. TrustedBut({})
    BY <1>1, <2>1, TypesOf DEF BusyInv, JobInv, TrustedBut, ReadMarker, Busy, Idle, Removing
  <2>4. ReadMarker' = ReadMarker /\ \A t : There(t)' <=> There(t)
    BY ONLY <2>2 DEF ReadMarker, There
  <2> QED
    BY ONLY <2>3, <2>4 DEF TrustedBut
<1>5. MarkerInv'
  BY <1>1, <1>4 DEF MarkerInv, NoneBusy
<1> QED
  BY <1>2, <1>3, <1>5

\* The types of the environment, for a step of one actor.
LEMMA EnvTypes ==
  ASSUME EnvTypeOK, NEW a \in Actors, EnvironmentStep(a) \/ Killed(a)
  PROVE  EnvTypeOK'
<1> USE TypesOf DEF EnvTypeOK, EnvStep, Begins, Idle
<1>1. CASE FindsInstalled(a) \/ BeginInstall(a) \/ BeginUninstall(a) \/ Killed(a)
  BY <1>1 DEF FindsInstalled, BeginInstall, BeginUninstall, Killed, ReadMarker, Busy
<1>2. CASE UnlistRead(a) \/ ListRead(a)
  <2>1. \A t \in Types : (ReadMarker \ {t}) \subseteq Types /\ (ReadMarker \cup {t}) \subseteq Types
    BY DEF ReadMarker
  <2>2. copy' \in [Actors -> SUBSET Types]
    BY <1>2, <2>1 DEF UnlistRead, ListRead
  <2> QED
    BY <1>2, <2>2 DEF UnlistRead, ListRead
<1>3. CASE UnlistLast(a) \/ WriteMarker(a) \/ OpenMarker(a)
  BY <1>3 DEF UnlistLast, WriteMarker, OpenMarker, AfterUnlist
<1>4. CASE ClearVenv(a) \/ CreateVenv(a) \/ FillVenv(a) \/ VenvFails(a)
  BY <1>4 DEF ClearVenv, CreateVenv, FillVenv, VenvFails, Parts
<1>5. CASE BuildImage(a) \/ BuildFails(a)
  BY <1>5 DEF BuildImage, BuildFails
<1>6. CASE Remove(a) \/ Sweep(a)
  BY <1>6 DEF Remove, Sweep
<1> QED
  BY <1>1, <1>2, <1>3, <1>4, <1>5, <1>6 DEF EnvironmentStep

LEMMA EnvironmentInv ==
  ASSUME EnvInv, NEW a \in Actors, EnvironmentStep(a) \/ Killed(a)
  PROVE  EnvInv'
<1>1. EnvTypeOK'
  BY EnvTypes DEF EnvInv
<1>2. MarkerInv' /\ ForgetInv' /\ \A b \in Actors : JobInv(b)'
  BY FindsInstalledEnv, BeginInstallEnv, UnlistReadEnv, UnlistLastEnv, OpenMarkerEnv,
     WriteMarkerEnv, ClearVenvEnv, CreateVenvEnv, FillVenvEnv, VenvFailsEnv, BuildImageEnv,
     BuildFailsEnv, ListReadEnv, BeginUninstallEnv, RemoveEnv, SweepEnv, KilledEnv
     DEF EnvironmentStep
<1> QED
  BY <1>1, <1>2 DEF EnvInv

----------------------------------------------------------------------------
(* The calls. *)

Ready(a)   == client[a] \in {"none", "starting", "open", "closing"}
Ending(a)  == client[a] \in {"disposing", "joining", "closed"}
Raising(a) == job[a] \notin {"venv", "docker"}

\* Where caller and worker are.
PhaseInv(a) ==
  /\ client[a] \in {"none", "starting"} =>
       reqs[a] = <<>> /\ resps[a] = <<>> /\ handling[a] = {}
  /\ worker[a] \in {"none", "booting"} => client[a] \in {"none", "starting", "failed"}
  /\ worker[a] = "booting" => ByQueue(a)
  /\ client[a] = "testing" => job[a] = "process"
  /\ client[a] # "none" => ByQueue(a) \/ ByHttp(a)
  /\ Ready(a) => closing[a] = 0
  /\ closing[a] \in {0, calls[a]}
  /\ job[a] = "service" /\ worker[a] = "dead" => client[a] = "closed"

\* A queue: at most the last call is under way.
QueueInv(a) ==
  ByQueue(a) =>
    /\ worker[a] # "busy" => handling[a] = {}
    /\ a \notin interrupted =>
         /\ Ready(a) /\ worker[a] # "dead" =>
              reqs[a] = <<>> /\ handling[a] = {} /\ resps[a] = <<>>
         /\ Waits(a) /\ worker[a] # "dead" =>
              \/ reqs[a] = <<calls[a]>> /\ handling[a] = {} /\ resps[a] = <<>>
              \/ reqs[a] = <<>> /\ handling[a] = {calls[a]} /\ resps[a] = <<>>
              \/ reqs[a] = <<>> /\ handling[a] = {} /\ resps[a] = <<calls[a]>>
         /\ Waits(a) /\ worker[a] = "dead" => resps[a] \in {<<>>, <<calls[a]>>}

\* HTTP: every call is handled once, and only the last one is answered.
HttpInv(a) ==
  ByHttp(a) =>
    /\ \A i \in DOMAIN reqs[a] : reqs[a][i] \in 1..calls[a] /\ reqs[a][i] \notin handling[a]
    /\ \A i, j \in DOMAIN reqs[a] : reqs[a][i] = reqs[a][j] => i = j
    /\ \A n \in handling[a] : n <= calls[a]
    /\ a \notin interrupted =>
         /\ ~Waits(a) => resps[a] = <<>>
         /\ resps[a] # <<>> => /\ resps[a] = <<calls[a]>> /\ calls[a] \notin handling[a]
                               /\ \A i \in DOMAIN reqs[a] : reqs[a][i] # calls[a]

\* close(): whoever has its answer has run it.
CloseInv(a) ==
  /\ a \notin interrupted /\ Waits(a) /\ closing[a] # 0 /\ resps[a] # <<>> => a \in closed
  /\ Raising(a) /\ Ending(a) => a \in closed \cup interrupted

CallsInv(a) == PhaseInv(a) /\ QueueInv(a) /\ HttpInv(a) /\ CloseInv(a)

ClientType  == client \in [Actors -> {"none", "starting", "open", "testing", "receiving",
                                      "closing", "disposing", "joining", "closed", "failed"}]
WorkerType  == worker \in [Actors -> {"none", "booting", "idle", "busy", "dead"}]
NumberType  == calls \in [Actors -> Nat] /\ closing \in [Actors -> Nat]
AnswersType == reqs \in [Actors -> Seq(Nat)] /\ resps \in [Actors -> Seq(Nat)]
SetsType    == /\ handling \in [Actors -> SUBSET Nat]
               /\ closed \subseteq Actors /\ interrupted \subseteq Actors
RunTypes == ClientType /\ WorkerType /\ NumberType /\ AnswersType /\ SetsType

RunInv == job \in [Actors -> Jobs] /\ RunTypes /\ \A a \in Actors : CallsInv(a)

IInv == EnvInv /\ RunInv

----------------------------------------------------------------------------
(* Queues. *)

LEMMA OneElement ==
  ASSUME NEW x
  PROVE  /\ Append(<<>>, x) = <<x>> /\ <<x>> # <<>>
         /\ Head(<<x>>) = x /\ Tail(<<x>>) = <<>>
OBVIOUS

LEMMA AppendNat ==
  ASSUME NEW q \in Seq(Nat), NEW n \in Nat
  PROVE  /\ Append(q, n) \in Seq(Nat)
         /\ DOMAIN Append(q, n) = 1..(Len(q) + 1)
         /\ \A i \in DOMAIN q : Append(q, n)[i] = q[i]
         /\ Append(q, n)[Len(q) + 1] = n
OBVIOUS

\* What a queue of numbers keeps and gains when one is appended, for a queue r
\* that is known to be the old one with the number at its end.
LEMMA AppendedNat ==
  ASSUME NEW q \in Seq(Nat), NEW n \in Nat, NEW r, r = Append(q, n)
  PROVE  /\ DOMAIN r = 1..(Len(q) + 1)
         /\ DOMAIN q = 1..Len(q) /\ Len(q) \in Nat
         /\ \A i \in DOMAIN q : r[i] = q[i] /\ q[i] \in Nat
         /\ r[Len(q) + 1] = n
<1>1. DOMAIN q = 1..Len(q) /\ Len(q) \in Nat
  OBVIOUS
<1>2. \A i \in DOMAIN q : q[i] \in Nat
  OBVIOUS
<1> QED
  BY <1>1, <1>2, AppendNat

LEMMA TailNat ==
  ASSUME NEW q \in Seq(Nat), q # <<>>
  PROVE  /\ Tail(q) \in Seq(Nat) /\ Head(q) \in Nat /\ Head(q) = q[1]
         /\ 1 \in DOMAIN q
         /\ DOMAIN Tail(q) = 1..(Len(q) - 1)
         /\ \A i \in DOMAIN Tail(q) : i + 1 \in DOMAIN q /\ Tail(q)[i] = q[i + 1]
OBVIOUS

\* A step of one actor: types, and what the others keep.
RunSame(b) ==
  /\ client'[b] = client[b] /\ worker'[b] = worker[b] /\ calls'[b] = calls[b]
  /\ reqs'[b] = reqs[b] /\ resps'[b] = resps[b] /\ handling'[b] = handling[b]
  /\ closing'[b] = closing[b] /\ (b \in closed' <=> b \in closed)
  /\ (b \in interrupted' <=> b \in interrupted)

RunnerStep(a) == \/ Caller(a) \/ Worker(a) \/ CallTimesOut(a) \/ Interrupt(a) \/ Dies(a)

LEMMA RunnerTypes ==
  ASSUME RunTypes, NEW a \in Actors, RunnerStep(a)
  PROVE  RunTypes' /\ UNCHANGED envVars /\ \A b \in Actors \ {a} : RunSame(b)
<1> USE DEF RunTypes, ClientType, WorkerType, NumberType, AnswersType, SetsType, RunSame,
            Client
<1>1. CASE StartWorker(a) \/ StartService(a)
  BY <1>1 DEF StartWorker, StartService
<1>2. CASE Boots(a)
  BY <1>2 DEF Boots
<1>3. CASE Call(a) \/ BeginClose(a)
  <2>1. Append(reqs[a], calls[a] + 1) \in Seq(Nat)
    BY AppendNat
  <2>2. reqs' = [reqs EXCEPT ![a] = Append(@, calls[a] + 1)]
    BY <1>3 DEF Call, BeginClose, Send
  <2>3. reqs' \in [Actors -> Seq(Nat)]
    BY <2>1, <2>2
  <2>4. ClientType' /\ UNCHANGED <<worker, handling, resps, closed, interrupted>>
    BY <1>3 DEF Call, BeginClose, Send
  <2>6. NumberType'
    <3>1. calls' = [calls EXCEPT ![a] = @ + 1]
      BY <1>3 DEF Call, BeginClose, Send
    <3>2. closing' = closing \/ closing' = [closing EXCEPT ![a] = calls[a] + 1]
      BY <1>3 DEF Call, BeginClose, Send
    <3>3. calls[a] + 1 \in Nat
      OBVIOUS
    <3>4. calls' \in [Actors -> Nat]
      BY ONLY <3>1, <3>3, calls \in [Actors -> Nat]
    <3>5. closing' \in [Actors -> Nat]
      BY ONLY <3>2, <3>3, closing \in [Actors -> Nat]
    <3> QED
      BY <3>4, <3>5
  <2>5. UNCHANGED envVars /\ \A b \in Actors \ {a} : RunSame(b)
    BY <1>3 DEF Call, BeginClose, Send
  <2> QED
    BY <2>3, <2>4, <2>5, <2>6
<1>4. CASE TestAlive(a) \/ CallTimesOut(a) \/ ConnectionLost(a) \/ CloseDead(a) \/ CloseRaises(a)
  BY <1>4 DEF TestAlive, CallTimesOut, ConnectionLost, CloseDead, CloseRaises
<1>5. CASE Take(a)
  <2>1. Tail(reqs[a]) \in Seq(Nat) /\ Head(reqs[a]) \in Nat
    BY <1>5, TailNat DEF Take
  <2>2. reqs' \in [Actors -> Seq(Nat)] /\ \A b \in Actors \ {a} : reqs'[b] = reqs[b]
    BY <1>5, <2>1 DEF Take
  <2>3. handling' \in [Actors -> SUBSET Nat]
    <3>1. \/ handling' = handling
          \/ handling' = [handling EXCEPT ![a] = @ \cup {Head(reqs[a])}]
      BY <1>5 DEF Take
    <3>2. handling[a] \cup {Head(reqs[a])} \in SUBSET Nat
      BY <2>1
    <3> QED
      BY <3>1, <3>2
  <2>4. WorkerType' /\ \A b \in Actors \ {a} : worker'[b] = worker[b] /\ handling'[b] = handling[b]
    BY <1>5 DEF Take
  <2>5. UNCHANGED <<envVars, client, calls, resps, closing, closed, interrupted>>
    BY <1>5 DEF Take
  <2> QED
    BY <2>2, <2>3, <2>4, <2>5
<1>6. CASE Answer(a)
  <2>1. PICK n \in handling[a] :
          /\ handling' = [handling EXCEPT ![a] = @ \ {n}]
          /\ worker' = [worker EXCEPT ![a] = IF handling[a] = {n} THEN "idle" ELSE "busy"]
          /\ resps' \in {resps, [resps EXCEPT ![a] = Append(@, n)]}
          /\ closed' \in {closed, closed \cup {a}}
          /\ UNCHANGED <<envVars, client, calls, reqs, closing, interrupted>>
    BY <1>6 DEF Answer
  <2>2. n \in Nat /\ Append(resps[a], n) \in Seq(Nat)
    BY AppendNat
  <2>3. resps' \in [Actors -> Seq(Nat)]
    BY <2>1, <2>2
  <2>4. RunTypes'
    BY <2>1, <2>3
  <2>5. \A b \in Actors \ {a} : resps'[b] = resps[b]
    BY <2>1
  <2>6. UNCHANGED envVars /\ \A b \in Actors \ {a} : RunSame(b)
    BY <2>1, <2>5
  <2> QED
    BY <2>4, <2>6
<1>7. CASE Receive(a)
  <2>1. Tail(resps[a]) \in Seq(Nat)
    BY <1>7, TailNat DEF Receive
  <2> QED
    BY <1>7, <2>1 DEF Receive
<1>8. CASE Interrupt(a) \/ Dies(a) \/ Joined(a) \/ StopServer(a)
  BY <1>8 DEF Interrupt, Dies, Joined, StopServer
<1>9. CASE Dispose(a)
  <2>1. Append(reqs[a], Shutdown) \in Seq(Nat)
    BY AppendNat DEF Shutdown
  <2> QED
    BY <1>9, <2>1 DEF Dispose
<1> QED
  BY <1>1, <1>2, <1>3, <1>4, <1>5, <1>6, <1>7, <1>8, <1>9 DEF RunnerStep, Caller, Worker

LEMMA RunSameKeeps ==
  ASSUME NEW b \in Actors, RunSame(b), CallsInv(b), job' = job
  PROVE  CallsInv(b)'
<1> USE DEF RunSame, CallsInv, Waits, Ready, ByQueue, ByHttp, Ending, Raising
<1>1. PhaseInv(b)' /\ QueueInv(b)'
  BY DEF PhaseInv, QueueInv
<1>2. HttpInv(b)' /\ CloseInv(b)'
  BY DEF HttpInv, CloseInv
<1> QED
  BY <1>1, <1>2

----------------------------------------------------------------------------
(* The actor that moves. *)

LEMMA StartWorkerOwn ==
  ASSUME RunTypes, NEW a \in Actors, CallsInv(a), StartWorker(a)
  PROVE  CallsInv(a)'
<1> USE DEF StartWorker, Client, RunTypes, ClientType, WorkerType, NumberType, AnswersType, SetsType,
            CallsInv, Waits, Ready, ByQueue, ByHttp, Ending, Raising, Alive, envVars
<1>1. PhaseInv(a)'
  BY DEF PhaseInv
<1>2. QueueInv(a)'
  BY DEF PhaseInv, QueueInv
<1>3. HttpInv(a)'
  BY DEF PhaseInv, HttpInv
<1>4. CloseInv(a)'
  BY DEF PhaseInv, CloseInv
<1> QED
  BY <1>1, <1>2, <1>3, <1>4

LEMMA StartServiceOwn ==
  ASSUME RunTypes, NEW a \in Actors, CallsInv(a), StartService(a)
  PROVE  CallsInv(a)'
<1> USE DEF StartService, Client, RunTypes, ClientType, WorkerType, NumberType, AnswersType, SetsType,
            CallsInv, Waits, Ready, ByQueue, ByHttp, Ending, Raising, Alive, envVars
<1>1. PhaseInv(a)'
  BY DEF PhaseInv
<1>2. QueueInv(a)'
  BY DEF PhaseInv, QueueInv
<1>3. HttpInv(a)'
  BY DEF PhaseInv, HttpInv
<1>4. CloseInv(a)'
  BY DEF PhaseInv, CloseInv
<1> QED
  BY <1>1, <1>2, <1>3, <1>4

LEMMA BootsOwn ==
  ASSUME RunTypes, NEW a \in Actors, CallsInv(a), Boots(a)
  PROVE  CallsInv(a)'
<1> USE DEF Boots, Client, RunTypes, ClientType, WorkerType, NumberType, AnswersType, SetsType,
            CallsInv, Waits, Ready, ByQueue, ByHttp, Ending, Raising, Alive, envVars
<1>1. PhaseInv(a)'
  BY DEF PhaseInv
<1>2. QueueInv(a)'
  BY DEF PhaseInv, QueueInv
<1>3. HttpInv(a)'
  BY DEF PhaseInv, HttpInv
<1>4. CloseInv(a)'
  BY DEF PhaseInv, CloseInv
<1> QED
  BY <1>1, <1>2, <1>3, <1>4

LEMMA TestAliveOwn ==
  ASSUME RunTypes, NEW a \in Actors, CallsInv(a), TestAlive(a)
  PROVE  CallsInv(a)'
<1> USE DEF TestAlive, Client, RunTypes, ClientType, WorkerType, NumberType, AnswersType, SetsType,
            CallsInv, Waits, Ready, ByQueue, ByHttp, Ending, Raising, Alive, envVars
<1>1. PhaseInv(a)'
  BY DEF PhaseInv
<1>2. QueueInv(a)'
  BY DEF PhaseInv, QueueInv
<1>3. HttpInv(a)'
  BY DEF PhaseInv, HttpInv
<1>4. CloseInv(a)'
  BY DEF PhaseInv, CloseInv
<1> QED
  BY <1>1, <1>2, <1>3, <1>4

LEMMA CallTimesOutOwn ==
  ASSUME RunTypes, NEW a \in Actors, CallsInv(a), CallTimesOut(a)
  PROVE  CallsInv(a)'
<1> USE DEF CallTimesOut, Client, RunTypes, ClientType, WorkerType, NumberType, AnswersType, SetsType,
            CallsInv, Waits, Ready, ByQueue, ByHttp, Ending, Raising, Alive, envVars
<1>1. PhaseInv(a)'
  BY DEF PhaseInv
<1>2. QueueInv(a)'
  BY DEF PhaseInv, QueueInv
<1>3. HttpInv(a)'
  BY DEF PhaseInv, HttpInv
<1>4. CloseInv(a)'
  BY DEF PhaseInv, CloseInv
<1> QED
  BY <1>1, <1>2, <1>3, <1>4

LEMMA ConnectionLostOwn ==
  ASSUME RunTypes, NEW a \in Actors, CallsInv(a), ConnectionLost(a)
  PROVE  CallsInv(a)'
<1> USE DEF ConnectionLost, Client, RunTypes, ClientType, WorkerType, NumberType, AnswersType, SetsType,
            CallsInv, Waits, Ready, ByQueue, ByHttp, Ending, Raising, Alive, envVars
<1>1. PhaseInv(a)'
  BY DEF PhaseInv
<1>2. QueueInv(a)'
  BY DEF PhaseInv, QueueInv
<1>3. HttpInv(a)'
  BY DEF PhaseInv, HttpInv
<1>4. CloseInv(a)'
  BY DEF PhaseInv, CloseInv
<1> QED
  BY <1>1, <1>2, <1>3, <1>4

LEMMA CloseDeadOwn ==
  ASSUME RunTypes, NEW a \in Actors, CallsInv(a), CloseDead(a)
  PROVE  CallsInv(a)'
<1> USE DEF CloseDead, Client, RunTypes, ClientType, WorkerType, NumberType, AnswersType, SetsType,
            CallsInv, Waits, Ready, ByQueue, ByHttp, Ending, Raising, Alive, envVars
<1>1. PhaseInv(a)'
  BY DEF PhaseInv
<1>2. QueueInv(a)'
  BY DEF PhaseInv, QueueInv
<1>3. HttpInv(a)'
  BY DEF PhaseInv, HttpInv
<1>4. CloseInv(a)'
  BY DEF PhaseInv, CloseInv
<1> QED
  BY <1>1, <1>2, <1>3, <1>4

LEMMA CloseRaisesOwn ==
  ASSUME RunTypes, NEW a \in Actors, CallsInv(a), CloseRaises(a)
  PROVE  CallsInv(a)'
<1> USE DEF CloseRaises, Client, RunTypes, ClientType, WorkerType, NumberType, AnswersType, SetsType,
            CallsInv, Waits, Ready, ByQueue, ByHttp, Ending, Raising, Alive, envVars
<1>1. PhaseInv(a)'
  BY DEF PhaseInv
<1>2. QueueInv(a)'
  BY DEF PhaseInv, QueueInv
<1>3. HttpInv(a)'
  BY DEF PhaseInv, HttpInv
<1>4. CloseInv(a)'
  BY DEF PhaseInv, CloseInv
<1> QED
  BY <1>1, <1>2, <1>3, <1>4

LEMMA JoinedOwn ==
  ASSUME RunTypes, NEW a \in Actors, CallsInv(a), Joined(a)
  PROVE  CallsInv(a)'
<1> USE DEF Joined, Client, RunTypes, ClientType, WorkerType, NumberType, AnswersType, SetsType,
            CallsInv, Waits, Ready, ByQueue, ByHttp, Ending, Raising, Alive, envVars
<1>1. PhaseInv(a)'
  BY DEF PhaseInv
<1>2. QueueInv(a)'
  BY DEF PhaseInv, QueueInv
<1>3. HttpInv(a)'
  BY DEF PhaseInv, HttpInv
<1>4. CloseInv(a)'
  BY DEF PhaseInv, CloseInv
<1> QED
  BY <1>1, <1>2, <1>3, <1>4

LEMMA StopServerOwn ==
  ASSUME RunTypes, NEW a \in Actors, CallsInv(a), StopServer(a)
  PROVE  CallsInv(a)'
<1> USE DEF StopServer, Client, RunTypes, ClientType, WorkerType, NumberType, AnswersType, SetsType,
            CallsInv, Waits, Ready, ByQueue, ByHttp, Ending, Raising, Alive, envVars
<1>1. PhaseInv(a)'
  BY DEF PhaseInv
<1>2. QueueInv(a)'
  BY DEF PhaseInv, QueueInv
<1>3. HttpInv(a)'
  BY DEF PhaseInv, HttpInv
<1>4. CloseInv(a)'
  BY DEF PhaseInv, CloseInv
<1> QED
  BY <1>1, <1>2, <1>3, <1>4

LEMMA InterruptOwn ==
  ASSUME RunTypes, NEW a \in Actors, CallsInv(a), Interrupt(a)
  PROVE  CallsInv(a)'
<1> USE DEF Interrupt, Client, RunTypes, ClientType, WorkerType, NumberType, AnswersType, SetsType,
            CallsInv, Waits, Ready, ByQueue, ByHttp, Ending, Raising, Alive, envVars
<1>1. PhaseInv(a)'
  BY DEF PhaseInv
<1>2. QueueInv(a)'
  BY DEF PhaseInv, QueueInv
<1>3. HttpInv(a)'
  BY DEF PhaseInv, HttpInv
<1>4. CloseInv(a)'
  BY DEF PhaseInv, CloseInv
<1> QED
  BY <1>1, <1>2, <1>3, <1>4

LEMMA DiesOwn ==
  ASSUME RunTypes, NEW a \in Actors, CallsInv(a), Dies(a)
  PROVE  CallsInv(a)'
<1> USE DEF Dies, Client, RunTypes, ClientType, WorkerType, NumberType, AnswersType, SetsType,
            CallsInv, Waits, Ready, ByQueue, ByHttp, Ending, Raising, Alive, envVars
<1>1. PhaseInv(a)'
  BY DEF PhaseInv
<1>2. QueueInv(a)'
  BY DEF PhaseInv, QueueInv
<1>3. HttpInv(a)'
  BY DEF PhaseInv, HttpInv
<1>4. CloseInv(a)'
  BY DEF PhaseInv, CloseInv
<1> QED
  BY <1>1, <1>2, <1>3, <1>4

\* A call: its number is new, and whatever the queue still holds is older.
LEMMA SendOwn ==
  ASSUME RunTypes, NEW a \in Actors, CallsInv(a), ByQueue(a) \/ ByHttp(a),
         Call(a) \/ BeginClose(a)
  PROVE  CallsInv(a)'
<1> USE DEF RunTypes, ClientType, WorkerType, NumberType, AnswersType, SetsType, CallsInv,
            Waits, Ready, ByQueue, ByHttp, Ending, Raising, Alive
<1>1. /\ worker[a] \in {"idle", "busy"} /\ worker' = worker
      /\ client[a] \in {"open", "closing"}
      /\ client'[a] = IF job[a] = "process" THEN "testing" ELSE "receiving"
      /\ calls'[a] = calls[a] + 1 /\ calls'[a] \in Nat
      /\ closing'[a] = closing[a] \/ closing'[a] = calls'[a]
      /\ reqs'[a] = Append(reqs[a], calls'[a])
      /\ UNCHANGED <<job, handling, resps, closed, interrupted>>
  <2>1. /\ worker[a] \in {"idle", "busy"} /\ client[a] \in {"open", "closing"}
        /\ UNCHANGED <<job, worker, handling, resps, closed, interrupted>>
    BY DEF Call, BeginClose, Send, Client, envVars
  <2>2. client'[a] = IF job[a] = "process" THEN "testing" ELSE "receiving"
    BY DEF Call, BeginClose, Send, Client
  <2>3. calls' = [calls EXCEPT ![a] = @ + 1]
    BY DEF Call, BeginClose, Send
  <2>4. closing' = closing \/ closing' = [closing EXCEPT ![a] = calls[a] + 1]
    BY DEF Call, BeginClose, Send
  <2>5. reqs' = [reqs EXCEPT ![a] = Append(@, calls[a] + 1)]
    BY DEF Call, BeginClose, Send
  <2>6. calls'[a] = calls[a] + 1 /\ calls'[a] \in Nat
    BY <2>3
  <2>7. closing'[a] = closing[a] \/ closing'[a] = calls'[a]
    BY <2>4, <2>6
  <2>8. reqs'[a] = Append(reqs[a], calls'[a])
    BY <2>5, <2>6
  <2> QED
    BY <2>1, <2>2, <2>6, <2>7, <2>8
<1>2. /\ DOMAIN reqs'[a] = 1..(Len(reqs[a]) + 1)
      /\ DOMAIN reqs[a] = 1..Len(reqs[a]) /\ Len(reqs[a]) \in Nat
      /\ \A i \in DOMAIN reqs[a] : reqs'[a][i] = reqs[a][i] /\ reqs[a][i] \in Nat
      /\ reqs'[a][Len(reqs[a]) + 1] = calls'[a]
  <2>1. reqs[a] \in Seq(Nat)
    OBVIOUS
  <2>2. calls'[a] \in Nat /\ reqs'[a] = Append(reqs[a], calls'[a])
    BY ONLY <1>1
  <2> QED
    BY ONLY <2>1, <2>2, AppendedNat
<1>3. PhaseInv(a)'
  BY <1>1 DEF PhaseInv
<1>4. QueueInv(a)'
  <2>1. ByQueue(a) /\ a \notin interrupted =>
          reqs[a] = <<>> /\ handling[a] = {} /\ resps[a] = <<>>
    BY <1>1 DEF QueueInv
  <2>2. ByQueue(a) /\ a \notin interrupted => reqs'[a] = <<calls'[a]>>
    BY <1>1, <2>1, OneElement
  <2> QED
    BY <1>1, <2>1, <2>2 DEF QueueInv
<1>5. HttpInv(a)'
  <2> SUFFICES ASSUME ByHttp(a) PROVE HttpInv(a)'
    BY <1>1 DEF HttpInv
  <2>1. /\ \A i \in DOMAIN reqs[a] : reqs[a][i] \in 1..calls[a] /\ reqs[a][i] \notin handling[a]
        /\ \A i, j \in DOMAIN reqs[a] : reqs[a][i] = reqs[a][j] => i = j
        /\ \A n \in handling[a] : n <= calls[a]
        /\ a \notin interrupted => resps[a] = <<>>
    BY <1>1 DEF HttpInv
  <2>2. calls'[a] \notin handling[a] /\ \A n \in handling[a] : n <= calls'[a]
    BY <1>1, <2>1
  <2>3. \A i \in DOMAIN reqs'[a] : reqs'[a][i] \in 1..calls'[a] /\ reqs'[a][i] \notin handling[a]
    BY <1>1, <1>2, <2>1, <2>2
  <2>4. \A i, j \in DOMAIN reqs'[a] : reqs'[a][i] = reqs'[a][j] => i = j
    <3> TAKE i, j \in DOMAIN reqs'[a]
    <3>1. \A k \in DOMAIN reqs[a] : reqs'[a][k] # calls'[a]
      BY <1>1, <1>2, <2>1
    <3>2. \A k \in DOMAIN reqs'[a] : k \in DOMAIN reqs[a] \/ k = Len(reqs[a]) + 1
      BY <1>2
    <3>3. CASE i \in DOMAIN reqs[a] /\ j \in DOMAIN reqs[a]
      BY <1>2, <2>1, <3>3
    <3>4. CASE ~(i \in DOMAIN reqs[a] /\ j \in DOMAIN reqs[a])
      BY <1>2, <3>1, <3>2, <3>4
    <3> QED
      BY <3>3, <3>4
  <2> QED
    BY <1>1, <2>1, <2>2, <2>3, <2>4 DEF HttpInv
<1>6. CloseInv(a)'
  BY <1>1 DEF CloseInv, QueueInv, HttpInv, PhaseInv
<1> QED
  BY <1>3, <1>4, <1>5, <1>6

LEMMA TakeOwn ==
  ASSUME RunTypes, NEW a \in Actors, CallsInv(a), Take(a)
  PROVE  CallsInv(a)'
<1> USE DEF RunTypes, ClientType, WorkerType, NumberType, AnswersType, SetsType, CallsInv,
            Waits, Ready, ByQueue, ByHttp, Ending, Raising, Alive
<1>1. /\ reqs[a] # <<>> /\ reqs'[a] = Tail(reqs[a])
      /\ worker[a] = "idle" \/ (worker[a] = "busy" /\ ByHttp(a))
      /\ UNCHANGED <<job, client, calls, resps, closing, closed, interrupted>>
      /\ \/ Head(reqs[a]) = Shutdown /\ worker'[a] = "dead" /\ handling' = handling
         \/ /\ Head(reqs[a]) # Shutdown /\ worker'[a] = "busy"
            /\ handling'[a] = handling[a] \cup {Head(reqs[a])}
  BY DEF Take, envVars
<1>2. /\ Head(reqs[a]) = reqs[a][1] /\ 1 \in DOMAIN reqs[a]
      /\ \A i \in DOMAIN reqs'[a] : i + 1 \in DOMAIN reqs[a] /\ reqs'[a][i] = reqs[a][i + 1]
      /\ DOMAIN reqs'[a] \subseteq Nat \ {0}
  <2> reqs[a] \in Seq(Nat)
    OBVIOUS
  <2> QED
    BY <1>1, TailNat
<1>3. ByQueue(a) \/ ByHttp(a)
        => (Waits(a) /\ a \notin interrupted /\ ByQueue(a) => Head(reqs[a]) = calls[a])
  BY <1>1, OneElement DEF QueueInv
<1>4. PhaseInv(a)'
  <2>1. client[a] # "starting" /\ client[a] # "none"
    BY <1>1 DEF PhaseInv
  <2>2. ByHttp(a) => Head(reqs[a]) # Shutdown
    BY <1>2 DEF HttpInv, Shutdown
  <2>3. job[a] # "service" \/ worker'[a] = "busy"
    BY <1>1, <2>2
  <2> QED
    BY <1>1, <2>1, <2>3 DEF PhaseInv
<1>5. QueueInv(a)'
  BY <1>1, OneElement DEF QueueInv, Shutdown
<1>6. HttpInv(a)'
  <2> SUFFICES ASSUME ByHttp(a) PROVE HttpInv(a)'
    BY <1>1 DEF HttpInv
  <2>1. /\ \A i \in DOMAIN reqs[a] : reqs[a][i] \in 1..calls[a] /\ reqs[a][i] \notin handling[a]
        /\ \A i, j \in DOMAIN reqs[a] : reqs[a][i] = reqs[a][j] => i = j
        /\ \A n \in handling[a] : n <= calls[a]
    BY DEF HttpInv
  <2>2. handling'[a] \subseteq handling[a] \cup {reqs[a][1]}
    BY <1>1, <1>2
  <2>3. \A i \in DOMAIN reqs'[a] : reqs'[a][i] \in 1..calls[a] /\ reqs'[a][i] \notin handling'[a]
    BY <1>2, <2>1, <2>2
  <2>4. \A i, j \in DOMAIN reqs'[a] : reqs'[a][i] = reqs'[a][j] => i = j
    BY <1>2, <2>1
  <2>5. \A n \in handling'[a] : n <= calls[a]
    <3>1. reqs[a][1] \in 1..calls[a] /\ calls[a] \in Nat
      BY <1>2, <2>1
    <3>2. \A n \in handling[a] : n <= calls[a]
      BY <2>1
    <3>3. reqs[a][1] <= calls[a]
      BY ONLY <3>1
    <3> QED
      BY ONLY <2>2, <3>2, <3>3
  <2>6. a \notin interrupted /\ resps[a] # <<>> =>
          /\ resps[a] = <<calls[a]>> /\ calls[a] \notin handling'[a]
          /\ \A i \in DOMAIN reqs'[a] : reqs'[a][i] # calls[a]
    BY <1>2, <2>2 DEF HttpInv
  <2> QED
    BY <1>1, <2>3, <2>4, <2>5, <2>6 DEF HttpInv
<1>7. CloseInv(a)'
  BY <1>1 DEF CloseInv
<1> QED
  BY <1>4, <1>5, <1>6, <1>7

LEMMA AnswerOwn ==
  ASSUME RunTypes, NEW a \in Actors, CallsInv(a), Answer(a)
  PROVE  CallsInv(a)'
<1> USE DEF RunTypes, ClientType, WorkerType, NumberType, AnswersType, SetsType, CallsInv,
            Waits, Ready, ByQueue, ByHttp, Ending, Raising, Alive
<1>1. PICK n \in handling[a] :
        /\ handling'[a] = handling[a] \ {n}
        /\ worker'[a] = IF handling[a] = {n} THEN "idle" ELSE "busy"
        /\ resps'[a] = IF ByQueue(a) \/ (client[a] = "receiving" /\ n = calls[a])
                       THEN Append(resps[a], n) ELSE resps[a]
        /\ n = closing[a] => closed' = closed \cup {a}
        /\ n # closing[a] => closed' = closed
        /\ UNCHANGED <<job, client, calls, reqs, closing, interrupted>>
  BY DEF Answer, envVars
<1>2. PhaseInv(a)'
  BY <1>1 DEF PhaseInv
<1>3. ByQueue(a) /\ a \notin interrupted /\ Waits(a) => n = calls[a] /\ resps[a] = <<>>
  BY <1>1 DEF QueueInv
<1>4. ByQueue(a) => worker[a] = "busy"
  BY <1>1 DEF QueueInv
<1>5. QueueInv(a)'
  <2>1. ByQueue(a) /\ a \notin interrupted => ~Ready(a)
    BY <1>1, <1>4 DEF QueueInv
  <2>2. ByQueue(a) /\ a \notin interrupted /\ Waits(a) =>
          reqs[a] = <<>> /\ handling'[a] = {} /\ resps'[a] = <<calls[a]>>
    BY <1>1, <1>3, <1>4, OneElement DEF QueueInv
  <2> QED
    BY <1>1, <2>1, <2>2 DEF QueueInv
<1>6. HttpInv(a)'
  <2> SUFFICES ASSUME ByHttp(a) PROVE HttpInv(a)'
    BY <1>1 DEF HttpInv
  <2>1. ~ByQueue(a)
    OBVIOUS
  <2>2. CASE client[a] = "receiving" /\ n = calls[a] /\ a \notin interrupted
    <3>1. resps[a] = <<>> /\ \A i \in DOMAIN reqs[a] : reqs[a][i] # calls[a]
      BY <1>1, <2>2 DEF HttpInv
    <3>2. resps'[a] = <<calls[a]>>
      BY <1>1, <2>2, <3>1, OneElement
    <3> QED
      BY <1>1, <2>2, <3>1, <3>2 DEF HttpInv
  <2>3. CASE ~(client[a] = "receiving" /\ n = calls[a]) \/ a \in interrupted
    BY <1>1, <2>1, <2>3 DEF HttpInv
  <2> QED
    BY <2>2, <2>3
<1>7. CloseInv(a)'
  <2> SUFFICES ASSUME a \notin interrupted, Waits(a), closing[a] # 0, resps'[a] # <<>>
               PROVE  a \in closed'
    BY <1>1 DEF CloseInv
  <2>1. resps[a] # <<>> => a \in closed
    BY DEF CloseInv
  <2>2. resps[a] = <<>> => n = calls[a]
    BY <1>1, <1>3
  <2>3. n = calls[a] => n = closing[a]
    BY DEF PhaseInv
  <2> QED
    BY <1>1, <2>1, <2>2, <2>3
<1> QED
  BY <1>2, <1>5, <1>6, <1>7

LEMMA ReceiveOwn ==
  ASSUME RunTypes, NEW a \in Actors, CallsInv(a), Receive(a),
         ByQueue(a) \/ ByHttp(a)
  PROVE  CallsInv(a)'
<1> USE DEF RunTypes, ClientType, WorkerType, NumberType, AnswersType, SetsType, CallsInv,
            Waits, Ready, ByQueue, ByHttp, Ending, Raising, Alive
<1>1. /\ client[a] = "receiving" /\ resps[a] # <<>> /\ resps'[a] = Tail(resps[a])
      /\ client'[a] = IF closing[a] = 0 THEN "open" ELSE "disposing"
      /\ UNCHANGED <<job, worker, calls, reqs, handling, closing, closed, interrupted>>
  BY DEF Receive, envVars
<1>2. a \notin interrupted => resps[a] = <<calls[a]>>
  BY <1>1 DEF QueueInv, HttpInv
<1>3. a \notin interrupted => resps'[a] = <<>>
  BY <1>1, <1>2, OneElement
<1>4. PhaseInv(a)'
  BY <1>1 DEF PhaseInv
<1>5. QueueInv(a)'
  BY <1>1, <1>2, <1>3, OneElement DEF QueueInv
<1>6. HttpInv(a)'
  BY <1>1, <1>3 DEF HttpInv
<1>7. CloseInv(a)'
  BY <1>1, <1>3 DEF CloseInv
<1> QED
  BY <1>4, <1>5, <1>6, <1>7

LEMMA DisposeOwn ==
  ASSUME RunTypes, NEW a \in Actors, CallsInv(a), Dispose(a)
  PROVE  CallsInv(a)'
<1> USE DEF RunTypes, ClientType, CallsInv, Waits, Ready, ByQueue, ByHttp, Ending, Raising
<1>1. /\ client[a] = "disposing" /\ client'[a] = "joining" /\ ByQueue(a)
      /\ UNCHANGED <<job, worker, calls, handling, resps, closing, closed, interrupted>>
  BY DEF Dispose, Client, envVars
<1>2. PhaseInv(a)' /\ QueueInv(a)'
  BY <1>1 DEF PhaseInv, QueueInv
<1>3. HttpInv(a)' /\ CloseInv(a)'
  BY <1>1 DEF HttpInv, CloseInv
<1> QED
  BY <1>2, <1>3

LEMMA RunnerStepInv ==
  ASSUME RunInv, NEW a \in Actors, RunnerStep(a), ByQueue(a) \/ ByHttp(a)
  PROVE  RunInv' /\ UNCHANGED envVars
<1>1. RunTypes' /\ UNCHANGED envVars /\ \A b \in Actors \ {a} : RunSame(b)
  BY RunnerTypes DEF RunInv
<1>2. job' = job
  BY <1>1 DEF envVars
<1>3. \A b \in Actors \ {a} : CallsInv(b)'
  BY <1>1, <1>2, RunSameKeeps DEF RunInv
<1>4. CallsInv(a)'
  BY StartWorkerOwn, StartServiceOwn, BootsOwn, TestAliveOwn, CallTimesOutOwn,
     ConnectionLostOwn, CloseDeadOwn, CloseRaisesOwn, JoinedOwn, StopServerOwn,
     InterruptOwn, DiesOwn, SendOwn, TakeOwn, AnswerOwn, ReceiveOwn, DisposeOwn
     DEF RunInv, RunnerStep, Caller, Worker
<1> QED
  BY <1>1, <1>2, <1>3, <1>4 DEF RunInv

\* An actor without a runner is never waited for.
LEMMA OnlyRunners ==
  ASSUME NEW a \in Actors, CallTimesOut(a) \/ Dies(a)
  PROVE  ByQueue(a) \/ ByHttp(a)
BY DEF CallTimesOut, Dies, ByQueue, ByHttp

LEMMA InterruptInv ==
  ASSUME RunInv, NEW a \in Actors, Interrupt(a)
  PROVE  RunInv' /\ UNCHANGED envVars
<1>1. RunTypes' /\ UNCHANGED envVars /\ \A b \in Actors \ {a} : RunSame(b)
  BY RunnerTypes DEF RunInv, RunnerStep
<1>2. job' = job
  BY <1>1 DEF envVars
<1>3. CallsInv(a)' /\ \A b \in Actors \ {a} : CallsInv(b)'
  BY <1>1, <1>2, RunSameKeeps, InterruptOwn DEF RunInv
<1> QED
  BY <1>1, <1>2, <1>3 DEF RunInv

LEMMA InitInv == Init => IInv
<1> SUFFICES ASSUME Init PROVE IInv
  OBVIOUS
<1> USE DEF Init, EnvInit
<1>1. job \in [Actors -> Jobs]
  BY AssignmentsAssumption
<1>2. EnvTypeOK
  <2>1. venv \subseteq Parts /\ image \in BOOLEAN
    BY DEF Parts
  <2> QED
    BY <1>1, <2>1 DEF EnvTypeOK, Idle
<1>3. NoneBusy
  BY DEF NoneBusy, Busy, Idle
<1>4. TrustedBut({})
  BY DEF TrustedBut, ReadMarker, There, Types
<1>5. MarkerInv /\ ForgetInv
  BY <1>3, <1>4 DEF MarkerInv, ForgetInv, NoneBusy, Kept, ReadMarker
<1>6. \A a \in Actors : JobInv(a)
  BY DEF JobInv
<1>7. RunTypes
  BY DEF RunTypes, ClientType, WorkerType, NumberType, AnswersType, SetsType
<1>8. \A a \in Actors : CallsInv(a)
  BY DEF CallsInv, PhaseInv, QueueInv, HttpInv, CloseInv, Waits, Ready, Ending
<1> QED
  BY <1>1, <1>2, <1>5, <1>6, <1>7, <1>8 DEF IInv, EnvInv, RunInv

LEMMA NextInv == IInv /\ [Next]_vars => IInv'
<1> SUFFICES ASSUME IInv, [Next]_vars PROVE IInv'
  OBVIOUS
<1>1. ASSUME UNCHANGED envVars PROVE EnvInv'
  <2> USE <1>1 DEF envVars, IInv, EnvInv
  <2>1. EnvTypeOK' /\ \A a \in Actors : JobInv(a)'
    BY DEF EnvTypeOK, JobInv
  <2>2. /\ ReadMarker' = ReadMarker /\ (NoneBusy' <=> NoneBusy)
        /\ \A a \in Actors : Busy(a)' <=> Busy(a)
    BY DEF ReadMarker, NoneBusy, Busy
  <2>3. \A a \in Actors : (BusyInv(a)' <=> BusyInv(a)) /\ (VenvInv(a)' <=> VenvInv(a))
    BY <2>2 DEF BusyInv, TrustedBut, CopyTrusted, There, Removing, VenvInv, Kept
  <2>4. (TrustedBut({})' <=> TrustedBut({})) /\ (Kept(ReadMarker)' <=> Kept(ReadMarker))
    BY <2>2 DEF TrustedBut, There, Kept
  <2>5. MarkerInv' /\ ForgetInv'
    BY <2>2, <2>3, <2>4 DEF MarkerInv, ForgetInv
  <2> QED
    BY <2>1, <2>5
<1>2. CASE UNCHANGED vars
  <2>1. RunInv'
    BY <1>2, RunSameKeeps DEF vars, runVars, envVars, IInv, RunInv, RunTypes, ClientType,
       WorkerType, NumberType, AnswersType, SetsType, RunSame
  <2> QED
    BY <1>1, <1>2, <2>1 DEF IInv, vars
<1>3. CASE \E a \in Actors : (EnvironmentStep(a) \/ Killed(a)) /\ UNCHANGED runVars
  <2>1. PICK a \in Actors : (EnvironmentStep(a) \/ Killed(a)) /\ UNCHANGED runVars
    BY <1>3
  <2>2. EnvInv'
    BY <2>1, EnvironmentInv DEF IInv
  <2>3. job' = job
    BY <2>1 DEF EnvironmentStep, FindsInstalled, BeginInstall, UnlistRead, UnlistLast,
       OpenMarker, WriteMarker, ClearVenv, CreateVenv, FillVenv, VenvFails, BuildImage,
       BuildFails, ListRead, BeginUninstall, Remove, Sweep, Killed, Begins, EnvStep
  <2>4. RunInv'
    BY <2>1, <2>3, RunSameKeeps DEF runVars, IInv, RunInv, RunTypes, ClientType,
       WorkerType, NumberType, AnswersType, SetsType, RunSame
  <2> QED
    BY <2>2, <2>4 DEF IInv
<1>4. CASE \E a \in Actors : (job[a] \in Runners /\ (Caller(a) \/ Worker(a)))
                             \/ CallTimesOut(a) \/ Dies(a)
  <2>1. PICK a \in Actors : (job[a] \in Runners /\ (Caller(a) \/ Worker(a)))
                            \/ CallTimesOut(a) \/ Dies(a)
    BY <1>4
  <2>2. ByQueue(a) \/ ByHttp(a)
    BY <2>1, OnlyRunners DEF Runners, ByQueue, ByHttp
  <2> QED
    BY <1>1, <2>1, <2>2, RunnerStepInv DEF IInv, RunnerStep
<1>5. CASE \E a \in Actors : Interrupt(a)
  BY <1>1, <1>5, InterruptInv DEF IInv
<1> QED
  BY <1>2, <1>3, <1>4, <1>5 DEF Next

LEMMA AlwaysIInv == Spec => []IInv
BY InitInv, NextInv, PTL DEF Spec

\* Every variable has its type, for any actors, jobs and bounds.
THEOREM TypeCorrect == Spec => []TypeOK
<1>1. IInv => TypeOK
  BY DEF IInv, EnvInv, RunInv, RunTypes, ClientType, WorkerType, NumberType, AnswersType,
     SetsType, TypeOK
<1> QED
  BY <1>1, AlwaysIInv, PTL

\* The next answer a caller takes is of the call it has made last, over a queue
\* that does not say so as well as over HTTP with calls that timed out.
THEOREM AnswersMatch == Spec => []AnswersBelong
<1>1. IInv => AnswersBelong
  <2> SUFFICES ASSUME IInv, NEW a \in Actors, client[a] = "receiving", resps[a] # <<>>,
                      a \notin interrupted
               PROVE  Head(resps[a]) = calls[a]
    BY DEF AnswersBelong
  <2>1. CASE ByQueue(a) \/ ByHttp(a)
    <3>1. resps[a] = <<calls[a]>>
      BY <2>1 DEF IInv, RunInv, CallsInv, QueueInv, HttpInv, Waits, RunTypes, WorkerType
    <3> QED
      BY <3>1, OneElement
  <2>2. CASE ~(ByQueue(a) \/ ByHttp(a))
    BY <2>2 DEF IInv, RunInv, CallsInv, PhaseInv
  <2> QED
    BY <2>1, <2>2
<1> QED
  BY <1>1, AlwaysIInv, PTL

\* close() of a thread, process or service proxy that returns has run close() of
\* the object, unless the caller was interrupted before.
THEOREM CloseRuns == Spec => []CloseHasRun
<1>1. IInv => CloseHasRun
  BY DEF IInv, RunInv, CallsInv, CloseInv, CloseHasRun, Raising, Ending
<1> QED
  BY <1>1, AlwaysIInv, PTL

\* Whatever step an installation is killed at, the marker lists only what is
\* there and complete.
THEOREM MarkerIsTrue == Spec => []MarkedIsThere
<1>1. IInv => MarkedIsThere
  BY DEF IInv, EnvInv, MarkerInv, MarkedIsThere, NoneBusy, Busy, TrustedBut
<1> QED
  BY <1>1, AlwaysIInv, PTL

\* A venv exists without its entry only if somebody was killed, whichever step of
\* an installation or removal failed.
THEOREM VenvIsListed == Spec => []NothingForgotten
<1>1. IInv => NothingForgotten
  BY DEF IInv, EnvInv, ForgetInv, NothingForgotten, NoneBusy, Busy, Kept
<1> QED
  BY <1>1, AlwaysIInv, PTL
=============================================================================
