------------------------- MODULE PairedSessionProofs -------------------------
(***************************************************************************)
(* What holds of PairedSession for any number of sessions and any limit of *)
(* steps: a Tau2 run adopts its own session, the slot always comes back,   *)
(* the two queues stay in step, and what is scored is complete.            *)
(*                                                                         *)
(* The argument has three parts.  The slot is held by at most one session, *)
(* and the staged session is the one that holds it; hence a proxy agent    *)
(* adopts the session of its own runner, and a session meets only its own  *)
(* runner in its queues.  What the queues hold then follows from where     *)
(* host and runner are; and the host leaves step() without the limit or    *)
(* the agent having ended the session only on the None that the runner     *)
(* sends after the results are on disk.                                    *)
(***************************************************************************)
EXTENDS PairedSession, TLAPS

HostType   == host \in [Sessions -> {"new", "holding", "starting", "acting", "stepping",
                "scoring", "loading", "closing", "joining", "closed", "failed"}]
RunnerType == runner \in [Sessions -> {"none", "setup", "dead", "patching", "launching",
                "pairing", "environment", "waiting", "stopping", "restoring",
                "announcing", "unstaging", "clearing", "asserted", "unstaged", "over"}]
SlotType   == /\ permits \in Nat /\ current \in Someone /\ paired \subseteq Sessions
              /\ agentOf \in [Sessions -> Someone]
QueueType  == /\ toAgent \in [Sessions -> Seq(ToAgentItem)]
              /\ fromAgent \in [Sessions -> Seq(FromAgentItem)]
CountType  == sent \in [Sessions -> Nat] /\ taken \in [Sessions -> Nat]
MarksType  == /\ completed \subseteq Sessions /\ error \subseteq Sessions
              /\ moved \subseteq Sessions /\ limited \subseteq Sessions
              /\ gaveUp \subseteq Sessions /\ recorded \subseteq Sessions
FileType   == file \in [Sessions -> {"none", "empty", "full"}]
PrintType  == print \in Someone /\ saved \in [Sessions -> Someone]
Types == /\ HostType /\ RunnerType /\ SlotType /\ QueueType /\ CountType
         /\ MarksType /\ FileType /\ PrintType

\* The runner has no agent yet; it is cleaning up; it has told the host.
Early(s)     == runner[s] \in {"setup", "patching", "launching", "dead"}
Cleaning(s)  == runner[s] \in {"restoring", "announcing", "unstaging", "clearing"}
Announced(s) == runner[s] \in {"unstaging", "clearing", "unstaged", "over"}
Over(s)      == runner[s] \in {"restoring", "announcing", "unstaging", "clearing",
                               "unstaged", "over"}

\* The session is staged and nobody has adopted it; it holds the slot.
Unadopted(s) == Early(s) \/ (Cleaning(s) /\ agentOf[s] = NoSession)
Holds(s)     == \/ host[s] = "holding" \/ Unadopted(s)
                \/ runner[s] \in {"pairing", "unstaged"}

PhaseInv(s) ==
  /\ host[s] \in {"new", "holding"} <=> runner[s] = "none"
  /\ runner[s] # "asserted"
  /\ runner[s] \in {"none", "clearing", "unstaged"} \/ Early(s) => agentOf[s] = NoSession
  /\ runner[s] \in {"pairing", "environment", "waiting", "stopping"} => agentOf[s] = s
  /\ agentOf[s] \in {s, NoSession}
  /\ s \in paired => agentOf[s] = s

SlotInv ==
  /\ permits \in {0, 1}
  /\ permits = 0 => \E s \in Sessions : Holds(s)
  /\ \A s \in Sessions : Holds(s) => permits = 0
  /\ \A s, t \in Sessions : Holds(s) /\ Holds(t) => s = t
  /\ \A s \in Sessions : Unadopted(s) <=> current = s

\* What the queues hold while the host is still going to read them.
QueueInv(s) ==
  /\ host[s] \in {"new", "holding", "starting"} =>
       sent[s] = 0 /\ taken[s] = 0 /\ fromAgent[s] = <<>>
  /\ host[s] \in {"new", "holding"} => toAgent[s] = <<>>
  /\ host[s] = "starting" =>
       \/ runner[s] = "waiting" /\ toAgent[s] = <<Observation(0)>>
       \/ Announced(s) /\ toAgent[s] = <<End>>
       \/ ~Announced(s) /\ runner[s] \notin {"waiting", "stopping"} /\ toAgent[s] = <<>>
  /\ host[s] = "acting" =>
       /\ runner[s] = "waiting" /\ sent[s] = taken[s]
       /\ toAgent[s] = <<>> /\ fromAgent[s] = <<>>
  /\ host[s] = "stepping" =>
       \/ /\ runner[s] = "waiting" /\ taken[s] + 1 = sent[s]
          /\ toAgent[s] = <<>> /\ fromAgent[s] = <<Action(sent[s])>>
       \/ /\ runner[s] = "waiting" /\ taken[s] = sent[s]
          /\ toAgent[s] = <<Observation(sent[s])>> /\ fromAgent[s] = <<>>
       \/ /\ runner[s] \in {"environment", "restoring", "announcing"} /\ taken[s] = sent[s]
          /\ toAgent[s] = <<>> /\ fromAgent[s] = <<>>
       \/ Announced(s) /\ toAgent[s] = <<End>> /\ fromAgent[s] = <<>>

Underway(s) == host[s] \in {"new", "holding", "starting", "acting", "stepping"}
Explained(s) == file[s] = "full" \/ s \in error

\* What is known of the results when the host comes to score them.
ScoreInv(s) ==
  /\ Underway(s) => s \notin moved \cup recorded \cup limited \cup gaveUp
  /\ Underway(s) /\ Over(s) => Explained(s)
  /\ s \notin limited \cup gaveUp =>
       /\ host[s] = "scoring" => Announced(s) /\ Explained(s)
       /\ host[s] = "loading" => Announced(s) /\ file[s] = "full" /\ s \notin error
       /\ s \in recorded => /\ host[s] \in {"closing", "joining", "closed"}
                            /\ Announced(s) /\ file[s] = "full" /\ s \notin error

\* builtins.print: a runner that has not begun has kept nothing.
PrintInv ==
  /\ \A s \in Sessions : runner[s] \in {"none", "setup"} => saved[s] = NoSession
  /\ PrintStands

IInv == /\ Types /\ SlotInv /\ PrintInv
        /\ \A s \in Sessions : PhaseInv(s) /\ QueueInv(s) /\ ScoreInv(s)

----------------------------------------------------------------------------
(* Queues of one element. *)

LEMMA OneElement ==
  ASSUME NEW x
  PROVE  /\ Append(<<>>, x) = <<x>> /\ <<x>> # <<>>
         /\ Head(<<x>>) = x /\ Tail(<<x>>) = <<>>
OBVIOUS

LEMMA Items ==
  /\ \A n \in Nat : Observation(n) \in ToAgentItem /\ Action(n) \in FromAgentItem
  /\ End \in ToAgentItem /\ Done \in ToAgentItem /\ Done \in FromAgentItem
BY DEF Observation, Action, End, Done, ToAgentItem, FromAgentItem

LEMMA TailType ==
  ASSUME NEW S, NEW q \in Seq(S), q # <<>>
  PROVE  Tail(q) \in Seq(S) /\ Head(q) \in S
OBVIOUS

LEMMA AppendType ==
  ASSUME NEW S, NEW q \in Seq(S), NEW x \in S
  PROVE  Append(q, x) \in Seq(S)
OBVIOUS

----------------------------------------------------------------------------
(* The slot.  Actions of the host that come after Stage leave it alone. *)

HostLater(s) == \/ Starts(s) \/ Act(s) \/ AgentEnds(s) \/ AgentFails(s) \/ StepReturns(s)
                \/ StepTimesOut(s) \/ ScoreBegins(s) \/ Score(s) \/ Close(s)
                \/ CloseReturns(s)

LEMMA HostLaterFrame ==
  ASSUME Types, NEW s \in Sessions, HostLater(s)
  PROVE  /\ UNCHANGED <<slotVars, printVars, runner, error, file>>
         /\ host[s] \notin {"new", "holding"} /\ host'[s] \notin {"new", "holding"}
         /\ HostType'
         /\ \A t \in Sessions \ {s} : host'[t] = host[t]
<1> USE DEF Types, HostType, HostLater, HostStep, slotVars, queueVars, printVars, fileVars
<1>1. CASE Starts(s) \/ Act(s) \/ StepReturns(s)
  BY <1>1 DEF Starts, Act, StepReturns
<1>2. CASE AgentEnds(s) \/ AgentFails(s) \/ StepTimesOut(s)
  BY <1>2 DEF AgentEnds, AgentFails, StepTimesOut
<1>3. CASE ScoreBegins(s) \/ Score(s) \/ Close(s) \/ CloseReturns(s)
  BY <1>3 DEF ScoreBegins, Score, Close, CloseReturns
<1> QED
  BY <1>1, <1>2, <1>3

LEMMA HostLaterSlot ==
  ASSUME IInv, NEW s \in Sessions, HostLater(s)
  PROVE  SlotInv' /\ \A t \in Sessions : PhaseInv(t)'
<1>1. /\ UNCHANGED <<slotVars, runner>>
      /\ host[s] \notin {"new", "holding"} /\ host'[s] \notin {"new", "holding"}
      /\ \A t \in Sessions \ {s} : host'[t] = host[t]
  BY HostLaterFrame DEF IInv
<1>2. \A t \in Sessions : PhaseInv(t)'
  BY <1>1 DEF IInv, PhaseInv, Early, slotVars
<1>3. \A t \in Sessions : Holds(t)' <=> Holds(t)
  BY <1>1 DEF Holds, Unadopted, Early, Cleaning, slotVars
<1>4. \A t \in Sessions : Unadopted(t)' <=> Unadopted(t)
  BY <1>1 DEF Unadopted, Early, Cleaning, slotVars
<1>5. SlotInv'
  BY <1>1, <1>3, <1>4 DEF IInv, SlotInv, slotVars
<1> QED
  BY <1>2, <1>5

\* Those of the runner that neither take nor give it.
RunnerQuiet(s) == \/ SavePrint(s) \/ ReplacePrint(s) \/ SetupFails(s) \/ DomainFails(s)
                  \/ Observe(s) \/ WaitForAction(s) \/ DomainEnds(s)
                  \/ RestorePrint(s) \/ Announce(s)

LEMMA RunnerQuietFrame ==
  ASSUME Types, NEW s \in Sessions, RunnerQuiet(s)
  PROVE  /\ UNCHANGED <<hostVars, slotVars, moved>>
         /\ \A t \in Sessions \ {s} : runner'[t] = runner[t]
         /\ RunnerType'
         /\ \/ Early(s) /\ Early(s)'
            \/ runner[s] = "launching" /\ runner'[s] = "restoring"
            \/ /\ runner[s] \in {"environment", "waiting", "stopping"}
               /\ runner'[s] \in {"environment", "waiting", "stopping", "restoring"}
            \/ Cleaning(s) /\ Cleaning(s)' /\ runner'[s] # "clearing"
<1> USE DEF Types, RunnerType, RunnerQuiet, RunnerStep, fileVars, queueVars, Early, Cleaning
<1>1. CASE SavePrint(s) \/ ReplacePrint(s) \/ SetupFails(s) \/ Observe(s)
  BY <1>1 DEF SavePrint, ReplacePrint, SetupFails, Observe
<1>2. CASE DomainFails(s) \/ WaitForAction(s)
  BY <1>2 DEF DomainFails, WaitForAction
<1>3. CASE DomainEnds(s) \/ RestorePrint(s) \/ Announce(s)
  BY <1>3 DEF DomainEnds, RestorePrint, Announce
<1> QED
  BY <1>1, <1>2, <1>3

LEMMA RunnerQuietSlot ==
  ASSUME IInv, NEW s \in Sessions, RunnerQuiet(s)
  PROVE  SlotInv' /\ \A t \in Sessions : PhaseInv(t)'
<1>1. /\ UNCHANGED <<hostVars, slotVars>>
      /\ \A t \in Sessions \ {s} : runner'[t] = runner[t]
      /\ \/ Early(s) /\ Early(s)'
         \/ runner[s] = "launching" /\ runner'[s] = "restoring"
         \/ /\ runner[s] \in {"environment", "waiting", "stopping"}
            /\ runner'[s] \in {"environment", "waiting", "stopping", "restoring"}
         \/ Cleaning(s) /\ Cleaning(s)' /\ runner'[s] # "clearing"
  BY RunnerQuietFrame DEF IInv
<1>2. PhaseInv(s) /\ NoSession # s
  BY NoSessionAssumption DEF IInv
<1>3. \A t \in Sessions : PhaseInv(t)'
  BY <1>1 DEF IInv, PhaseInv, Early, Cleaning, slotVars, hostVars
<1>4. \A t \in Sessions : Holds(t)' <=> Holds(t)
  BY <1>1, <1>2 DEF PhaseInv, Holds, Unadopted, Early, Cleaning, slotVars, hostVars
<1>5. \A t \in Sessions : Unadopted(t)' <=> Unadopted(t)
  BY <1>1, <1>2 DEF PhaseInv, Unadopted, Early, Cleaning, slotVars
<1>6. SlotInv'
  BY <1>1, <1>4, <1>5 DEF IInv, SlotInv, slotVars
<1> QED
  BY <1>3, <1>6

\* The seven actions that move the slot.
LEMMA AcquireSlot ==
  ASSUME IInv, NEW s \in Sessions, Acquire(s)
  PROVE  SlotInv' /\ \A t \in Sessions : PhaseInv(t)'
<1> USE DEF Acquire, HostStep, IInv, Types, HostType
<1>1. \A t \in Sessions : PhaseInv(t)'
  BY DEF PhaseInv, Early
<1>2. permits = 1 /\ permits' = 0 /\ \A t \in Sessions : ~Holds(t)
  BY DEF SlotInv
<1>3. /\ \A t \in Sessions : Unadopted(t)' <=> Unadopted(t)
      /\ \A t \in Sessions : Holds(t)' <=> t = s
  BY <1>2 DEF Holds, Unadopted, Early, Cleaning
<1> QED
  BY <1>1, <1>2, <1>3 DEF SlotInv

LEMMA StageSlot ==
  ASSUME IInv, NEW s \in Sessions, Stage(s)
  PROVE  SlotInv' /\ \A t \in Sessions : PhaseInv(t)'
<1> USE DEF Stage, HostStep, IInv, Types, HostType, RunnerType
<1>1. \A t \in Sessions : PhaseInv(t)'
  BY DEF PhaseInv, Early
<1>2. Holds(s) /\ \A t \in Sessions \ {s} : ~Holds(t)
  BY DEF SlotInv, Holds
<1>3. \A t \in Sessions : Holds(t)' <=> t = s
  BY <1>2 DEF Holds, Unadopted, Early, Cleaning
<1>4. \A t \in Sessions : Unadopted(t)' <=> t = s
  BY <1>2 DEF Holds, Unadopted, Early, Cleaning
<1> QED
  BY <1>1, <1>2, <1>3, <1>4 DEF SlotInv

LEMMA AdoptSlot ==
  ASSUME IInv, NEW s \in Sessions, Adopt(s)
  PROVE  current = s /\ SlotInv' /\ \A t \in Sessions : PhaseInv(t)'
<1> USE DEF Adopt, RunnerStep, IInv, Types, RunnerType, SlotType, Someone, hostVars
<1>1. current = s /\ Holds(s) /\ \A t \in Sessions \ {s} : ~Holds(t)
  BY DEF SlotInv, Holds, Unadopted, Early
<1>2. \A t \in Sessions : PhaseInv(t)'
  BY <1>1 DEF PhaseInv, Early
<1>3. \A t \in Sessions : Holds(t)' <=> t = s
  BY <1>1 DEF Holds, Unadopted, Early, Cleaning
<1>4. \A t \in Sessions : ~Unadopted(t)'
  BY <1>1 DEF Holds, Unadopted, Early, Cleaning
<1> QED
  BY <1>1, <1>2, <1>3, <1>4, NoSessionAssumption DEF SlotInv

LEMMA MarkPairedSlot ==
  ASSUME IInv, NEW s \in Sessions, MarkPaired(s)
  PROVE  SlotInv' /\ \A t \in Sessions : PhaseInv(t)'
<1> USE DEF MarkPaired, RunnerStep, IInv, Types, RunnerType, SlotType, hostVars
<1>1. Holds(s) /\ permits = 0 /\ \A t \in Sessions \ {s} : ~Holds(t)
  BY DEF SlotInv, Holds
<1>2. agentOf[s] = s /\ \A t \in Sessions : PhaseInv(t)'
  BY <1>1 DEF PhaseInv, Early
<1>3. \A t \in Sessions : ~Holds(t)'
  BY <1>1, <1>2 DEF PhaseInv, Holds, Unadopted, Early, Cleaning
<1>4. \A t \in Sessions : Unadopted(t)' <=> Unadopted(t)
  BY <1>1 DEF Holds, Unadopted, Early, Cleaning
<1> QED
  BY <1>1, <1>2, <1>3, <1>4 DEF SlotInv

LEMMA UnstageSlot ==
  ASSUME IInv, NEW s \in Sessions, Unstage(s)
  PROVE  SlotInv' /\ \A t \in Sessions : PhaseInv(t)'
<1> USE DEF Unstage, IInv, Types, RunnerType, slotVars
<1>1. s # NoSession
  BY NoSessionAssumption
<1>2. agentOf[s] = NoSession <=> WaitingForPairing(s)
  BY <1>1 DEF SlotInv, PhaseInv, Unadopted, Early, Cleaning, WaitingForPairing
<1>3. \A t \in Sessions : PhaseInv(t)'
  BY <1>2 DEF PhaseInv, Early, hostVars
<1>4. \A t \in Sessions : (Holds(t)' <=> Holds(t)) /\ (Unadopted(t)' <=> Unadopted(t))
  BY <1>2 DEF Holds, Unadopted, Early, Cleaning, hostVars
<1> QED
  BY <1>3, <1>4 DEF SlotInv

\* Nobody has taken the place since the test: it is still that of the session.
LEMMA ClearPlaceSlot ==
  ASSUME IInv, NEW s \in Sessions, ClearPlace(s)
  PROVE  /\ runner' = [runner EXCEPT ![s] = "unstaged"] /\ current' = NoSession
         /\ SlotInv' /\ \A t \in Sessions : PhaseInv(t)'
<1> USE DEF ClearPlace, IInv, Types, RunnerType
<1>1. s # NoSession
  BY NoSessionAssumption
<1>2. /\ current = s /\ Holds(s) /\ agentOf[s] = NoSession
      /\ \A t \in Sessions \ {s} : ~Holds(t)
  BY <1>1 DEF SlotInv, PhaseInv, Holds, Unadopted, Early, Cleaning
<1>3. runner' = [runner EXCEPT ![s] = "unstaged"] /\ current' = NoSession
  BY <1>2
<1>4. \A t \in Sessions : PhaseInv(t)'
  BY <1>2, <1>3 DEF PhaseInv, Early, hostVars
<1>5. \A t \in Sessions : (Holds(t)' <=> t = s) /\ ~Unadopted(t)'
  BY <1>2, <1>3 DEF Holds, Unadopted, Early, Cleaning, hostVars
<1> QED
  BY <1>2, <1>3, <1>4, <1>5, NoSessionAssumption DEF SlotInv

LEMMA ReleaseSlotSlot ==
  ASSUME IInv, NEW s \in Sessions, ReleaseSlot(s)
  PROVE  SlotInv' /\ \A t \in Sessions : PhaseInv(t)'
<1> USE DEF ReleaseSlot, RunnerStep, IInv, Types, RunnerType
<1>1. Holds(s) /\ permits = 0 /\ \A t \in Sessions \ {s} : ~Holds(t)
  BY DEF SlotInv, Holds
<1>2. \A t \in Sessions : PhaseInv(t)'
  BY DEF PhaseInv, Early, hostVars
<1>3. \A t \in Sessions : ~Holds(t)' /\ (Unadopted(t)' <=> Unadopted(t))
  BY <1>1 DEF PhaseInv, Holds, Unadopted, Early, Cleaning, hostVars
<1> QED
  BY <1>1, <1>2, <1>3 DEF SlotInv

----------------------------------------------------------------------------
(* Types. *)

LEMMA SameQueues ==
  ASSUME QueueType, UNCHANGED <<toAgent, fromAgent>>
  PROVE  QueueType'
BY DEF QueueType

LEMMA HostTypes ==
  ASSUME Types, NEW s \in Sessions, Host(s) \/ StepTimesOut(s)
  PROVE  Types'
<1> USE DEF Types, HostType, RunnerType, SlotType, CountType, MarksType, FileType, PrintType,
            HostStep, hostVars, slotVars, printVars, fileVars
<1>1. CASE Acquire(s) \/ Stage(s)
  <2>1. QueueType'
    BY <1>1, SameQueues DEF Acquire, Stage, queueVars
  <2>2. CASE Acquire(s)
    BY <2>1, <2>2 DEF Acquire, queueVars
  <2>3. CASE Stage(s)
    BY <2>1, <2>3 DEF Stage, queueVars, Someone
  <2> QED
    BY <1>1, <2>2, <2>3
<1>2. CASE Starts(s) \/ StepReturns(s)
  <2>1. toAgent[s] # <<>> /\ toAgent[s] \in Seq(ToAgentItem)
    BY <1>2 DEF Starts, StepReturns, QueueType
  <2>2. Tail(toAgent[s]) \in Seq(ToAgentItem)
    BY <2>1, TailType
  <2>3. toAgent' = [toAgent EXCEPT ![s] = Tail(@)] /\ fromAgent' = fromAgent
    BY <1>2 DEF Starts, StepReturns
  <2>4. QueueType'
    BY <2>2, <2>3 DEF QueueType
  <2> QED
    BY <1>2, <2>4 DEF Starts, StepReturns
<1>3. CASE Act(s)
  <2>1. Append(fromAgent[s], Action(sent[s] + 1)) \in Seq(FromAgentItem)
    BY Items, AppendType DEF QueueType
  <2>2. QueueType'
    BY <1>3, <2>1 DEF Act, QueueType
  <2> QED
    BY <1>3, <2>2 DEF Act
<1>4. CASE AgentEnds(s) \/ AgentFails(s) \/ StepTimesOut(s)
  BY <1>4 DEF AgentEnds, AgentFails, StepTimesOut, QueueType, queueVars
<1>5. CASE ScoreBegins(s) \/ Score(s) \/ CloseReturns(s)
  BY <1>5 DEF ScoreBegins, Score, CloseReturns, QueueType, queueVars
<1>6. CASE Close(s)
  <2>1. /\ Append(fromAgent[s], Done) \in Seq(FromAgentItem)
        /\ Append(toAgent[s], Done) \in Seq(ToAgentItem)
    BY Items, AppendType DEF QueueType
  <2>2. QueueType'
    BY <1>6, <2>1 DEF Close, QueueType
  <2> QED
    BY <1>6, <2>2 DEF Close
<1> QED
  BY <1>1, <1>2, <1>3, <1>4, <1>5, <1>6 DEF Host

\* Only a runner that has an agent of its own puts and takes.
LEMMA RunnerTypes ==
  ASSUME Types, NEW s \in Sessions, PhaseInv(s), Runner(s) \/ SetupFails(s)
  PROVE  Types'
<1> USE DEF Types, HostType, RunnerType, SlotType, CountType, MarksType, FileType, PrintType,
            RunnerStep, hostVars, slotVars, printVars, fileVars
<1>1. CASE SavePrint(s) \/ ReplacePrint(s) \/ SetupFails(s) \/ RestorePrint(s)
  <2>1. QueueType'
    BY <1>1, SameQueues DEF SavePrint, ReplacePrint, SetupFails, RestorePrint, queueVars
  <2>2. CASE SavePrint(s) \/ SetupFails(s)
    BY <2>1, <2>2 DEF SavePrint, SetupFails, queueVars
  <2>3. CASE ReplacePrint(s) \/ RestorePrint(s)
    BY <2>1, <2>3 DEF ReplacePrint, RestorePrint, queueVars, Someone
  <2> QED
    BY <1>1, <2>2, <2>3
<1>2. CASE \/ Adopt(s) \/ MarkPaired(s) \/ Unstage(s) \/ ClearPlace(s) \/ ReleaseSlot(s)
  <2>1. QueueType'
    BY <1>2, SameQueues DEF Adopt, MarkPaired, Unstage, ClearPlace, ReleaseSlot, queueVars
  <2>2. CASE Adopt(s) \/ ReleaseSlot(s)
    BY <2>1, <2>2 DEF Adopt, ReleaseSlot, queueVars, Someone
  <2>3. CASE MarkPaired(s)
    BY <2>1, <2>3 DEF MarkPaired, PhaseInv, queueVars
  <2>4. CASE Unstage(s) \/ ClearPlace(s)
    BY <2>1, <2>4 DEF Unstage, ClearPlace, queueVars, Someone
  <2> QED
    BY <1>2, <2>2, <2>3, <2>4
<1>3. CASE DomainFails(s) \/ DomainEnds(s)
  <2>1. RunnerType' /\ UNCHANGED <<hostVars, slotVars, queueVars, printVars, moved>>
    BY <1>3 DEF DomainFails, DomainEnds
  <2>2. error' \in SUBSET Sessions /\ file' \in [Sessions -> {"none", "empty", "full"}]
    <3>1. CASE DomainFails(s)
      BY <3>1 DEF DomainFails
    <3>2. CASE DomainEnds(s)
      BY <3>2 DEF DomainEnds
    <3> QED
      BY <1>3, <3>1, <3>2
  <2> QED
    BY <2>1, <2>2 DEF QueueType, queueVars
<1>4. CASE Observe(s)
  <2>1. agentOf[s] = s
    BY <1>4 DEF Observe, PhaseInv
  <2>2. Append(toAgent[s], Observation(taken[s])) \in Seq(ToAgentItem)
    BY Items, AppendType DEF QueueType
  <2>3. QueueType'
    BY <1>4, <2>1, <2>2 DEF Observe, QueueType
  <2> QED
    BY <1>4, <2>3 DEF Observe
<1>5. CASE WaitForAction(s)
  <2>1. agentOf[s] = s /\ fromAgent[s] # <<>> /\ fromAgent[s] \in Seq(FromAgentItem)
    BY <1>5 DEF WaitForAction, PhaseInv, QueueType
  <2>2. Tail(fromAgent[s]) \in Seq(FromAgentItem)
    BY <2>1, TailType
  <2>3. QueueType'
    BY <1>5, <2>1, <2>2 DEF WaitForAction, QueueType
  <2>4. UNCHANGED <<hostVars, slotVars, printVars, error, fileVars>>
    BY <1>5 DEF WaitForAction
  <2>5. CASE Head(fromAgent[s]).kind = "done"
    <3>1. /\ runner' = [runner EXCEPT ![s] = "stopping"]
          /\ completed' = completed \cup {s} /\ taken' = taken
      BY <1>5, <2>1, <2>5 DEF WaitForAction
    <3> QED
      BY <2>3, <2>4, <3>1
  <2>6. CASE Head(fromAgent[s]).kind # "done"
    <3>1. /\ runner' = [runner EXCEPT ![s] = "environment"]
          /\ completed' = completed /\ taken' = [taken EXCEPT ![s] = @ + 1]
      BY <1>5, <2>1, <2>6 DEF WaitForAction
    <3> QED
      BY <2>3, <2>4, <3>1
  <2> QED
    BY <2>5, <2>6
<1>6. CASE Announce(s)
  <2>1. Append(toAgent[s], End) \in Seq(ToAgentItem)
    BY Items, AppendType DEF QueueType
  <2>2. QueueType'
    BY <1>6, <2>1 DEF Announce, QueueType
  <2> QED
    BY <1>6, <2>2 DEF Announce
<1> QED
  BY <1>1, <1>2, <1>3, <1>4, <1>5, <1>6 DEF Runner

----------------------------------------------------------------------------
(* A step of one session leaves what is known of the others alone. *)

Same(t) == /\ host'[t] = host[t] /\ runner'[t] = runner[t]
           /\ toAgent'[t] = toAgent[t] /\ fromAgent'[t] = fromAgent[t]
           /\ sent'[t] = sent[t] /\ taken'[t] = taken[t]
           /\ file'[t] = file[t]
           /\ t \in moved' <=> t \in moved
           /\ t \in error' <=> t \in error
           /\ t \in limited' <=> t \in limited
           /\ t \in gaveUp' <=> t \in gaveUp
           /\ t \in recorded' <=> t \in recorded

LEMMA HostSame ==
  ASSUME Types, NEW s \in Sessions, Host(s) \/ StepTimesOut(s), NEW t \in Sessions \ {s}
  PROVE  Same(t)
<1> USE DEF Same, Types, HostType, RunnerType, QueueType, CountType, MarksType, FileType,
            HostStep, hostVars, queueVars, fileVars
<1>1. CASE Acquire(s) \/ Stage(s) \/ Starts(s) \/ StepReturns(s)
  BY <1>1 DEF Acquire, Stage, Starts, StepReturns
<1>2. CASE Act(s) \/ Close(s)
  BY <1>2 DEF Act, Close
<1>3. CASE AgentEnds(s) \/ AgentFails(s) \/ StepTimesOut(s)
  BY <1>3 DEF AgentEnds, AgentFails, StepTimesOut
<1>4. CASE ScoreBegins(s) \/ Score(s) \/ CloseReturns(s)
  BY <1>4 DEF ScoreBegins, Score, CloseReturns
<1> QED
  BY <1>1, <1>2, <1>3, <1>4 DEF Host

LEMMA RunnerSame ==
  ASSUME Types, NEW s \in Sessions, PhaseInv(s), Runner(s) \/ SetupFails(s),
         NEW t \in Sessions \ {s}
  PROVE  Same(t)
<1> USE DEF Same, Types, HostType, RunnerType, QueueType, CountType, MarksType, FileType,
            RunnerStep, hostVars, queueVars, fileVars
<1>1. CASE SavePrint(s) \/ ReplacePrint(s) \/ SetupFails(s) \/ RestorePrint(s)
  BY <1>1 DEF SavePrint, ReplacePrint, SetupFails, RestorePrint
<1>2. CASE \/ Adopt(s) \/ MarkPaired(s) \/ Unstage(s) \/ ClearPlace(s) \/ ReleaseSlot(s)
  BY <1>2 DEF Adopt, MarkPaired, Unstage, ClearPlace, ReleaseSlot
<1>3. CASE DomainFails(s) \/ DomainEnds(s)
  BY <1>3 DEF DomainFails, DomainEnds
<1>4. CASE Observe(s) \/ WaitForAction(s)
  <2>1. agentOf[s] = s
    BY <1>4 DEF Observe, WaitForAction, PhaseInv
  <2> QED
    BY <1>4, <2>1 DEF Observe, WaitForAction
<1>5. CASE Announce(s)
  BY <1>5 DEF Announce
<1> QED
  BY <1>1, <1>2, <1>3, <1>4, <1>5 DEF Runner

LEMMA SameKeeps ==
  ASSUME NEW t \in Sessions, Same(t), QueueInv(t), ScoreInv(t)
  PROVE  QueueInv(t)' /\ ScoreInv(t)'
<1>1. QueueInv(t)'
  BY DEF Same, QueueInv, Announced
<1>2. ScoreInv(t)'
  BY DEF Same, ScoreInv, Underway, Over, Explained, Announced
<1> QED
  BY <1>1, <1>2

----------------------------------------------------------------------------
(* The session that moves. *)

LEMMA HostOwn ==
  ASSUME IInv, NEW s \in Sessions, Host(s) \/ StepTimesOut(s)
  PROVE  QueueInv(s)' /\ ScoreInv(s)'
<1> USE DEF IInv, Types, HostType, RunnerType, QueueType, CountType, MarksType, FileType,
            HostStep, hostVars, queueVars, fileVars
<1>0. PhaseInv(s) /\ QueueInv(s) /\ ScoreInv(s)
  OBVIOUS
<1>1. CASE Acquire(s) \/ Stage(s)
  BY <1>0, <1>1 DEF Acquire, Stage, PhaseInv, QueueInv, ScoreInv, Underway, Over, Announced,
     Explained
<1>2. CASE Starts(s)
  <2>1. \/ runner[s] = "waiting" /\ toAgent[s] = <<Observation(0)>>
        \/ Announced(s) /\ toAgent[s] = <<End>>
    BY <1>0, <1>2 DEF Starts, QueueInv
  <2>2. CASE runner[s] = "waiting" /\ toAgent[s] = <<Observation(0)>>
    <3>1. host'[s] = "acting" /\ toAgent'[s] = <<>>
      BY <1>2, <2>2, OneElement DEF Starts, Observation
    <3> QED
      BY <1>0, <1>2, <2>2, <3>1
         DEF Starts, QueueInv, ScoreInv, Underway, Over, Announced, Explained
  <2>3. CASE Announced(s) /\ toAgent[s] = <<End>>
    <3>1. host'[s] = "scoring" /\ toAgent'[s] = <<>>
      BY <1>2, <2>3, OneElement DEF Starts, End
    <3> QED
      BY <1>0, <1>2, <2>3, <3>1
         DEF Starts, QueueInv, ScoreInv, Underway, Over, Announced, Explained
  <2> QED
    BY <2>1, <2>2, <2>3
<1>3. CASE Act(s)
  <2>1. /\ runner[s] = "waiting" /\ sent[s] = taken[s]
        /\ toAgent[s] = <<>> /\ fromAgent[s] = <<>>
    BY <1>0, <1>3 DEF Act, QueueInv
  <2>2. /\ host'[s] = "stepping" /\ sent'[s] = sent[s] + 1 /\ taken'[s] + 1 = sent'[s]
        /\ toAgent'[s] = <<>> /\ fromAgent'[s] = Append(fromAgent[s], Action(sent'[s]))
        /\ runner'[s] = "waiting"
    BY <1>3, <2>1 DEF Act
  <2>3. fromAgent'[s] = <<Action(sent'[s])>>
    BY <2>1, <2>2, OneElement
  <2>4. QueueInv(s)'
    BY <2>2, <2>3 DEF QueueInv
  <2> QED
    BY <1>0, <1>3, <2>2, <2>4 DEF Act, ScoreInv, Underway, Over, Announced, Explained
<1>4. CASE AgentEnds(s) \/ AgentFails(s) \/ StepTimesOut(s)
  BY <1>0, <1>4 DEF AgentEnds, AgentFails, StepTimesOut, QueueInv, ScoreInv, Underway,
     Over, Announced, Explained
<1>5. CASE StepReturns(s)
  <2>1. \/ /\ runner[s] = "waiting" /\ taken[s] = sent[s]
           /\ toAgent[s] = <<Observation(sent[s])>> /\ fromAgent[s] = <<>>
        \/ Announced(s) /\ toAgent[s] = <<End>> /\ fromAgent[s] = <<>>
    BY <1>0, <1>5 DEF StepReturns, QueueInv
  <2>2. CASE /\ runner[s] = "waiting" /\ taken[s] = sent[s]
             /\ toAgent[s] = <<Observation(sent[s])>> /\ fromAgent[s] = <<>>
    <3>1. toAgent'[s] = <<>> /\ Head(toAgent[s]).kind = "observation"
      BY <1>5, <2>2, OneElement DEF StepReturns, Observation
    <3>2. \/ host'[s] = "scoring" /\ s \in limited'
          \/ host'[s] = "acting" /\ s \notin limited' /\ limited' = limited
      BY <1>0, <1>5, <3>1 DEF StepReturns, ScoreInv, Underway
    <3> QED
      BY <1>0, <1>5, <2>2, <3>1, <3>2
         DEF StepReturns, QueueInv, ScoreInv, Underway, Over, Announced, Explained
  <2>3. CASE Announced(s) /\ toAgent[s] = <<End>> /\ fromAgent[s] = <<>>
    <3>1. /\ host'[s] = "scoring" /\ toAgent'[s] = <<>>
          /\ limited' = limited
      BY <1>5, <2>3, OneElement DEF StepReturns, End
    <3> QED
      BY <1>0, <1>5, <2>3, <3>1
         DEF StepReturns, QueueInv, ScoreInv, Underway, Over, Announced, Explained
  <2> QED
    BY <2>1, <2>2, <2>3
<1>6. CASE ScoreBegins(s) \/ Score(s)
  BY <1>0, <1>6 DEF ScoreBegins, Score, QueueInv, ScoreInv, Underway, Over, Announced,
     Explained
<1>7. CASE Close(s) \/ CloseReturns(s)
  BY <1>0, <1>7 DEF Close, CloseReturns, QueueInv, ScoreInv, Underway, Over, Announced,
     Explained
<1> QED
  BY <1>1, <1>2, <1>3, <1>4, <1>5, <1>6, <1>7 DEF Host

LEMMA RunnerOwn ==
  ASSUME IInv, NEW s \in Sessions, Runner(s) \/ SetupFails(s)
  PROVE  QueueInv(s)' /\ ScoreInv(s)'
<1> USE DEF IInv, Types, HostType, RunnerType, QueueType, CountType, MarksType, FileType,
            RunnerStep, hostVars, queueVars, fileVars
<1>0. PhaseInv(s) /\ QueueInv(s) /\ ScoreInv(s)
  OBVIOUS
<1>1. CASE SavePrint(s) \/ ReplacePrint(s) \/ SetupFails(s) \/ RestorePrint(s)
  BY <1>0, <1>1 DEF SavePrint, ReplacePrint, SetupFails, RestorePrint, QueueInv, ScoreInv,
     Underway, Over, Announced, Explained
<1>2. CASE Adopt(s) \/ MarkPaired(s)
  BY <1>0, <1>2 DEF Adopt, MarkPaired, PhaseInv, Early, QueueInv, ScoreInv, Underway, Over,
     Announced, Explained
<1>3. CASE DomainFails(s)
  BY <1>0, <1>3 DEF DomainFails, QueueInv, ScoreInv, Underway, Over, Announced, Explained
<1>4. CASE DomainEnds(s)
  <2>1. QueueInv(s)'
    BY <1>0, <1>4 DEF DomainEnds, QueueInv, Announced
  <2>2. s \notin moved => file'[s] = "full" /\ error' = error
    BY <1>4 DEF DomainEnds
  <2> QED
    BY <1>0, <1>4, <2>1, <2>2 DEF DomainEnds, ScoreInv, Underway, Over, Announced, Explained
<1>5. CASE Observe(s)
  <2>1. agentOf[s] = s /\ runner[s] = "environment" /\ runner'[s] = "waiting"
    BY <1>0, <1>5 DEF Observe, PhaseInv
  <2>2. /\ toAgent'[s] = Append(toAgent[s], Observation(taken[s]))
        /\ UNCHANGED <<host, sent, taken, fromAgent>>
    BY <1>5, <2>1 DEF Observe
  <2>3. QueueInv(s)'
    <3>1. CASE host[s] = "starting"
      <4>1. taken[s] = 0 /\ toAgent[s] = <<>>
        BY <1>0, <2>1, <3>1 DEF QueueInv, Announced
      <4>2. toAgent'[s] = <<Observation(0)>>
        BY <2>2, <4>1, OneElement
      <4> QED
        BY <1>0, <2>1, <2>2, <3>1, <4>2 DEF QueueInv
    <3>2. CASE host[s] = "stepping"
      <4>1. taken[s] = sent[s] /\ toAgent[s] = <<>> /\ fromAgent[s] = <<>>
        BY <1>0, <2>1, <3>2 DEF QueueInv, Announced
      <4>2. toAgent'[s] = <<Observation(sent[s])>>
        BY <2>2, <4>1, OneElement
      <4> QED
        BY <2>1, <2>2, <3>2, <4>1, <4>2 DEF QueueInv
    <3>3. CASE host[s] \notin {"starting", "stepping"}
      BY <1>0, <2>1, <2>2, <3>3 DEF QueueInv, PhaseInv
    <3> QED
      BY <3>1, <3>2, <3>3
  <2> QED
    BY <1>0, <1>5, <2>1, <2>3 DEF Observe, ScoreInv, Underway, Over, Announced, Explained
<1>6. CASE WaitForAction(s)
  <2>1. agentOf[s] = s /\ runner[s] = "waiting" /\ fromAgent[s] # <<>>
    BY <1>0, <1>6 DEF WaitForAction, PhaseInv
  <2>2. /\ fromAgent'[s] = Tail(fromAgent[s])
        /\ UNCHANGED <<hostVars, toAgent, error, fileVars>>
    BY <1>6, <2>1 DEF WaitForAction
  <2>3. runner'[s] \in {"environment", "stopping"}
    BY <1>6, <2>1 DEF WaitForAction
  <2>4. ScoreInv(s)'
    BY <1>0, <2>1, <2>2, <2>3 DEF ScoreInv, Underway, Over, Announced, Explained
  <2>5. CASE host[s] = "stepping"
    <3>1. /\ taken[s] + 1 = sent[s] /\ toAgent[s] = <<>>
          /\ fromAgent[s] = <<Action(sent[s])>>
      BY <1>0, <2>1, <2>5 DEF QueueInv, Announced
    <3>2. Head(fromAgent[s]).kind # "done" /\ fromAgent'[s] = <<>>
      BY <2>2, <3>1, OneElement DEF Action
    <3>3. runner'[s] = "environment" /\ taken'[s] = taken[s] + 1
      BY <1>6, <2>1, <3>2 DEF WaitForAction
    <3> QED
      BY <2>2, <2>4, <2>5, <3>1, <3>2, <3>3 DEF QueueInv
  <2>6. CASE host[s] # "stepping"
    BY <1>0, <2>1, <2>2, <2>4, <2>6 DEF QueueInv, PhaseInv
  <2> QED
    BY <2>5, <2>6
<1>7. CASE Announce(s)
  <2>1. /\ runner[s] = "announcing" /\ runner'[s] = "unstaging"
        /\ toAgent'[s] = Append(toAgent[s], End)
        /\ UNCHANGED <<hostVars, fromAgent, taken, error, fileVars>>
    BY <1>7 DEF Announce
  <2>2. host[s] \in {"starting", "stepping"} => toAgent[s] = <<>>
    BY <1>0, <2>1 DEF QueueInv, Announced
  <2>3. host[s] \in {"starting", "stepping"} => toAgent'[s] = <<End>>
    BY <2>1, <2>2, OneElement
  <2>4. QueueInv(s)'
    BY <1>0, <2>1, <2>3 DEF QueueInv, PhaseInv, Announced
  <2> QED
    BY <1>0, <2>1, <2>4 DEF ScoreInv, Underway, Over, Announced, Explained
<1>8. CASE Unstage(s) \/ ClearPlace(s) \/ ReleaseSlot(s)
  <2>1. /\ Announced(s) /\ runner'[s] \in {"clearing", "unstaged", "over"}
        /\ UNCHANGED <<hostVars, toAgent, fromAgent, taken, error, fileVars>>
    BY <1>8, ClearPlaceSlot DEF Unstage, ClearPlace, ReleaseSlot, Announced
  <2> QED
    BY <1>0, <2>1 DEF QueueInv, ScoreInv, Underway, Over, Announced, Explained, PhaseInv
<1> QED
  BY <1>1, <1>2, <1>3, <1>4, <1>5, <1>6, <1>7, <1>8 DEF Runner

----------------------------------------------------------------------------
(* builtins.print. *)

LEMMA PrintStep ==
  ASSUME IInv, NEW s \in Sessions,
         Host(s) \/ StepTimesOut(s) \/ SetupFails(s) \/ Runner(s)
  PROVE  PrintInv'
<1> USE DEF IInv, Types, RunnerType, PrintType, PrintInv, PrintStands, Closed, RunnerStep, HostStep,
            printVars
<1>0. PhaseInv(s) /\ NoSession \notin Sessions
  BY NoSessionAssumption
<1>1. CASE Host(s) \/ StepTimesOut(s)
  <2>1. CASE Acquire(s)
    BY <2>1 DEF Acquire
  <2>2. CASE Stage(s)
    BY <1>0, <2>2 DEF Stage, PhaseInv, Someone
  <2>3. CASE HostLater(s)
    BY <2>3, HostLaterFrame
  <2> QED
    BY <1>1, <2>1, <2>2, <2>3 DEF Host, HostLater
<1>2. CASE SavePrint(s)
  BY <1>2, <1>0 DEF SavePrint, Someone
<1>3. CASE ReplacePrint(s)
  BY <1>3 DEF ReplacePrint
<1>4. CASE RestorePrint(s)
  BY <1>4 DEF RestorePrint
<1>5. CASE /\ UNCHANGED printVars
           /\ \A t \in Sessions \ {s} : runner'[t] = runner[t]
           /\ \/ runner[s] \in Closed
              \/ runner'[s] \notin Closed
           /\ runner[s] \notin {"none", "setup"} => runner'[s] \notin {"none", "setup"}
  BY <1>5, <1>0 DEF Someone
<1>6. CASE SetupFails(s) \/ Adopt(s) \/ MarkPaired(s) \/ DomainFails(s) \/ Observe(s)
  BY <1>5, <1>6 DEF SetupFails, Adopt, MarkPaired, DomainFails, Observe
<1>7. CASE WaitForAction(s) \/ DomainEnds(s) \/ Announce(s)
  BY <1>5, <1>7 DEF WaitForAction, DomainEnds, Announce
<1>8. CASE Unstage(s) \/ ClearPlace(s) \/ ReleaseSlot(s)
  BY <1>5, <1>8 DEF Unstage, ClearPlace, ReleaseSlot
<1> QED
  BY <1>1, <1>2, <1>3, <1>4, <1>6, <1>7, <1>8 DEF Runner

----------------------------------------------------------------------------
(* The invariant, and what follows from it. *)

LEMMA InitInv == Init => IInv
<1> SUFFICES ASSUME Init PROVE IInv
  OBVIOUS
<1> USE NoSessionAssumption DEF Init
<1>1. QueueType
  <2>1. <<>> \in Seq(ToAgentItem) /\ <<>> \in Seq(FromAgentItem)
    OBVIOUS
  <2> QED
    BY <2>1 DEF QueueType
<1>2. Types
  BY <1>1 DEF Types, HostType, RunnerType, SlotType, CountType, MarksType, FileType,
     PrintType, Someone
<1>3. SlotInv
  BY DEF SlotInv, Holds, Unadopted, Early, Cleaning
<1>4. PrintInv
  BY DEF PrintInv, PrintStands
<1>5. \A s \in Sessions : PhaseInv(s) /\ QueueInv(s) /\ ScoreInv(s)
  BY DEF PhaseInv, QueueInv, ScoreInv, Underway, Over, Early, Announced
<1> QED
  BY <1>2, <1>3, <1>4, <1>5 DEF IInv

LEMMA NextInv == IInv /\ [Next]_vars => IInv'
<1> SUFFICES ASSUME IInv, [Next]_vars PROVE IInv'
  OBVIOUS
<1>1. CASE UNCHANGED vars
  <2> USE <1>1 DEF vars, hostVars, slotVars, queueVars, printVars, fileVars, IInv
  <2>1. Types' /\ PrintInv'
    BY DEF Types, HostType, RunnerType, SlotType, QueueType, CountType, MarksType, FileType,
       PrintType, PrintInv, PrintStands
  <2>2. SlotInv'
    BY DEF SlotInv, Holds, Unadopted, Early, Cleaning
  <2>3. \A t \in Sessions : PhaseInv(t)' /\ QueueInv(t)' /\ ScoreInv(t)'
    BY DEF PhaseInv, QueueInv, ScoreInv, Underway, Over, Explained, Early, Announced
  <2> QED
    BY <2>1, <2>2, <2>3
<1>2. CASE \E s \in Sessions : Host(s) \/ StepTimesOut(s)
  <2>1. PICK s \in Sessions : Host(s) \/ StepTimesOut(s)
    BY <1>2
  <2>2. Types' /\ PrintInv'
    BY <2>1, HostTypes, PrintStep DEF IInv
  <2>3. SlotInv' /\ \A t \in Sessions : PhaseInv(t)'
    BY <2>1, AcquireSlot, StageSlot, HostLaterSlot DEF Host, HostLater
  <2>4. \A t \in Sessions : QueueInv(t)' /\ ScoreInv(t)'
    BY <2>1, HostOwn, HostSame, SameKeeps DEF IInv
  <2> QED
    BY <2>2, <2>3, <2>4 DEF IInv
<1>3. CASE \E s \in Sessions : Runner(s) \/ SetupFails(s)
  <2>1. PICK s \in Sessions : Runner(s) \/ SetupFails(s)
    BY <1>3
  <2>2. Types' /\ PrintInv'
    BY <2>1, RunnerTypes, PrintStep DEF IInv
  <2>3. SlotInv' /\ \A t \in Sessions : PhaseInv(t)'
    BY <2>1, AdoptSlot, MarkPairedSlot, UnstageSlot, ClearPlaceSlot, ReleaseSlotSlot, RunnerQuietSlot
       DEF Runner, RunnerQuiet
  <2>4. \A t \in Sessions : QueueInv(t)' /\ ScoreInv(t)'
    BY <2>1, RunnerOwn, RunnerSame, SameKeeps DEF IInv
  <2> QED
    BY <2>2, <2>3, <2>4 DEF IInv
<1> QED
  BY <1>1, <1>2, <1>3 DEF Next

LEMMA AlwaysIInv == Spec => []IInv
BY InitInv, NextInv, PTL DEF Spec

\* Every variable has its type, whatever the number of sessions.
THEOREM TypeCorrect == Spec => []TypeOK
<1>1. IInv => TypeOK
  BY DEF IInv, Types, TypeOK, HostType, RunnerType, SlotType, QueueType, CountType,
     MarksType, FileType, PrintType
<1> QED
  BY <1>1, AlwaysIInv, PTL

\* The proxy agent that Tau2 creates in the runner of a session adopts that
\* session, because the staged session is the one that holds the slot.
THEOREM OwnAdoption == Spec => []AdoptsItsOwn
<1>1. IInv => AdoptsItsOwn
  BY DEF IInv, PhaseInv, AdoptsItsOwn
<1> QED
  BY <1>1, AlwaysIInv, PTL

\* A runner that gives back its place finds it its own under the lock, as it was
\* in the test before, and when no session is under way the slot is free, once,
\* and nobody is staged.
THEOREM SlotReturns == Spec => []SlotIsGivenBack
<1>1. IInv => SlotIsGivenBack
  <2> SUFFICES ASSUME IInv
               PROVE  /\ \A s \in Sessions : runner[s] # "asserted"
                      /\ (\A s \in Sessions : host[s] # "holding" /\ runner[s] \in {"none", "over"})
                           => (permits = 1 /\ current = NoSession)
    BY DEF SlotIsGivenBack
  <2>1. \A s \in Sessions : runner[s] # "asserted"
    BY DEF IInv, PhaseInv
  <2>2. ASSUME \A s \in Sessions : host[s] # "holding" /\ runner[s] \in {"none", "over"}
        PROVE  permits = 1 /\ current = NoSession
    <3>1. \A s \in Sessions : ~Holds(s) /\ ~Unadopted(s)
      BY <2>2 DEF Holds, Unadopted, Early, Cleaning
    <3> QED
      BY <3>1 DEF IInv, SlotInv, Types, SlotType, Someone
  <2> QED
    BY <2>1, <2>2
<1> QED
  BY <1>1, AlwaysIInv, PTL

\* step() returns the observation that answers its own action, or None.
THEOREM TurnsMatch == Spec => []AnsweredInTurn
<1>1. IInv => AnsweredInTurn
  <2> SUFFICES ASSUME IInv, NEW s \in Sessions, host[s] = "stepping", toAgent[s] # <<>>
               PROVE  Head(toAgent[s]) \in {Observation(sent[s]), End}
    BY DEF AnsweredInTurn
  <2>1. toAgent[s] = <<Observation(sent[s])>> \/ toAgent[s] = <<End>>
    BY DEF IInv, QueueInv
  <2> QED
    BY <2>1, OneElement
<1> QED
  BY <1>1, AlwaysIInv, PTL

\* Unless the session was cut off, score() is called on the complete results of
\* its Tau2 run or on a known error, and what it records stands.
THEOREM ScoresAreFull == Spec => []ScoredInFull
<1>1. IInv => ScoredInFull
  BY DEF IInv, ScoreInv, ScoredInFull, Explained
<1> QED
  BY <1>1, AlwaysIInv, PTL

\* No runner leaves builtins.print writing to the log it has closed, as long as
\* none of them began inside another one.
THEOREM PrintIsRestored == Spec => []PrintStands
<1>1. IInv => PrintStands
  BY DEF IInv, PrintInv
<1> QED
  BY <1>1, AlwaysIInv, PTL
=============================================================================
