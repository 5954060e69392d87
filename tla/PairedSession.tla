--------------------------- MODULE PairedSession ---------------------------
(***************************************************************************)
(* The Tau2 sessions of one process.  A session is driven by the host,     *)
(* through run_session, and played by a runner thread of its own, in which *)
(* Tau2 creates a proxy agent that adopts whatever session is staged: one  *)
(* at a time, a semaphore sees to it.  From then on host and runner meet   *)
(* in two unbounded queues, and every call that waits on one depends on    *)
(* the other thread to end it.                                             *)
(***************************************************************************)
EXTENDS Naturals, Sequences

CONSTANTS Sessions,
          MaxSteps   \* limit of the controller on the steps of a session

ASSUME MaxStepsAssumption == MaxSteps \in Nat \ {0}

VARIABLES
  host,       \* where run_session is with the session
  runner,     \* where the runner thread of the session is
  permits,    \* _PAIRING_SEMAPHORE
  current,    \* _CURRENT_SESSION
  paired,     \* the sessions whose _paired_event is set
  agentOf,    \* the session adopted by the proxy agent of a runner
  toAgent,    \* _to_agent, _from_agent
  fromAgent,
  completed,  \* the sessions that are completed
  sent,       \* actions the host has sent, and the environment has taken
  taken,
  error,      \* the sessions with a _runner_error
  file,       \* what the results file of its Tau2 run holds
  moved,      \* the sessions whose results file has been moved out of Tau2's reach
  limited,    \* the sessions that reached the limit of steps, and those whose
  gaveUp,     \* agent answered None (history)
  recorded,   \* the sessions that have a score
  print,      \* builtins.print: whose log it writes to
  saved       \* prev_print of each runner

hostVars  == <<host, sent, limited, gaveUp, recorded>>
slotVars  == <<permits, current, paired, agentOf>>
queueVars == <<toAgent, fromAgent, completed, taken>>
printVars == <<print, saved>>
fileVars  == <<file, moved>>
vars == <<hostVars, slotVars, queueVars, printVars, runner, error, fileVars>>

NoSession == "no session"
Someone   == Sessions \cup {NoSession}

ASSUME NoSessionAssumption == NoSession \notin Sessions

\* What travels in the queues: observations and actions, numbered by turn, the
\* None that ends the session, and DONE.
Observation(n) == [kind |-> "observation", turn |-> n]
Action(n)      == [kind |-> "action", turn |-> n]
End            == [kind |-> "end", turn |-> 0]
Done           == [kind |-> "done", turn |-> 0]
ToAgentItem    == [kind : {"observation", "end", "done"}, turn : Nat]
FromAgentItem  == [kind : {"action", "done"}, turn : Nat]

Init ==
  /\ host = [s \in Sessions |-> "new"]
  /\ runner = [s \in Sessions |-> "none"]
  /\ permits = 1 /\ current = NoSession /\ paired = {}
  /\ agentOf = [s \in Sessions |-> NoSession]
  /\ toAgent = [s \in Sessions |-> <<>>]
  /\ fromAgent = [s \in Sessions |-> <<>>]
  /\ completed = {}
  /\ sent = [s \in Sessions |-> 0] /\ taken = [s \in Sessions |-> 0]
  /\ error = {} /\ limited = {} /\ gaveUp = {} /\ recorded = {}
  /\ file = [s \in Sessions |-> "none"] /\ moved = {}
  /\ print = NoSession
  /\ saved = [s \in Sessions |-> NoSession]

HostStep(s, from, to)   == host[s] = from /\ host' = [host EXCEPT ![s] = to]
RunnerStep(s, from, to) == runner[s] = from /\ runner' = [runner EXCEPT ![s] = to]

----------------------------------------------------------------------------
(* The host: construction, run_session, score and close. *)

\* Mutant: the slot is taken without waiting for it.
AcquireWithoutWaiting(s) ==
  /\ HostStep(s, "new", "holding")
  /\ permits' = IF permits > 0 THEN permits - 1 ELSE 0
  /\ UNCHANGED <<sent, limited, gaveUp, recorded, current, paired, agentOf, queueVars,
                 printVars, runner, error, fileVars>>

\* stage_for_pairing: the constructor waits for the slot, ...
Acquire(s) ==
  /\ HostStep(s, "new", "holding")
  /\ permits > 0
  /\ permits' = permits - 1
  /\ UNCHANGED <<sent, limited, gaveUp, recorded, current, paired, agentOf, queueVars,
                 printVars, runner, error, fileVars>>

\* ... takes it and starts the runner.
Stage(s) ==
  /\ HostStep(s, "holding", "starting")
  /\ current' = s
  /\ runner' = [runner EXCEPT ![s] = "setup"]
  /\ UNCHANGED <<sent, limited, gaveUp, recorded, permits, paired, agentOf, queueVars,
                 printVars, error, fileVars>>

\* Mutant: start() looks at the first observation and leaves it in the queue.
StartsPeeking(s) ==
  /\ host[s] = "starting" /\ toAgent[s] # <<>>
  /\ host' = [host EXCEPT ![s] =
       IF Head(toAgent[s]).kind = "observation" THEN "acting" ELSE "scoring"]
  /\ UNCHANGED <<sent, limited, gaveUp, recorded, slotVars, queueVars, printVars,
                 runner, error, fileVars>>

\* start() waits for the first observation; without one the session is over.
Starts(s) ==
  /\ host[s] = "starting" /\ toAgent[s] # <<>>
  /\ host' = [host EXCEPT ![s] =
       IF Head(toAgent[s]).kind = "observation" THEN "acting" ELSE "scoring"]
  /\ toAgent' = [toAgent EXCEPT ![s] = Tail(@)]
  /\ UNCHANGED <<sent, limited, gaveUp, recorded, slotVars, fromAgent, completed, taken,
                 printVars, runner, error, fileVars>>

\* The agent reacts and step() hands its action over.
Act(s) ==
  /\ HostStep(s, "acting", "stepping")
  /\ sent' = [sent EXCEPT ![s] = @ + 1]
  /\ fromAgent' = [fromAgent EXCEPT ![s] = Append(@, Action(sent[s] + 1))]
  /\ UNCHANGED <<limited, gaveUp, recorded, slotVars, toAgent, completed, taken, printVars,
                 runner, error, fileVars>>

\* The agent answers None: the session is over, and scored as it is.
AgentEnds(s) ==
  /\ HostStep(s, "acting", "scoring")
  /\ gaveUp' = gaveUp \cup {s}
  /\ UNCHANGED <<sent, limited, recorded, slotVars, queueVars, printVars, runner,
                 error, fileVars>>

\* The agent raises: the session is closed without a score.
AgentFails(s) ==
  /\ HostStep(s, "acting", "closing")
  /\ UNCHANGED <<sent, limited, gaveUp, recorded, slotVars, queueVars, printVars, runner,
                 error, fileVars>>

\* Mutant: step() does not wait, and an empty queue is no observation.
StepReturnsAtOnce(s) ==
  /\ host[s] = "stepping"
  /\ toAgent' = [toAgent EXCEPT ![s] = IF @ = <<>> THEN @ ELSE Tail(@)]
  /\ host' = [host EXCEPT ![s] =
       IF toAgent[s] # <<>> /\ Head(toAgent[s]).kind = "observation"
       THEN "acting" ELSE "scoring"]
  /\ UNCHANGED <<sent, limited, gaveUp, recorded, slotVars, fromAgent, completed, taken,
                 printVars, runner, error, fileVars>>

\* step() returns what the queue holds next, and the limit is looked at.
StepReturns(s) ==
  /\ host[s] = "stepping" /\ toAgent[s] # <<>>
  /\ toAgent' = [toAgent EXCEPT ![s] = Tail(@)]
  /\ limited' = IF Head(toAgent[s]).kind = "observation" /\ sent[s] >= MaxSteps
                THEN limited \cup {s} ELSE limited
  /\ host' = [host EXCEPT ![s] =
       IF Head(toAgent[s]).kind = "observation" /\ s \notin limited'
       THEN "acting" ELSE "scoring"]
  /\ UNCHANGED <<sent, gaveUp, recorded, slotVars, fromAgent, completed, taken, printVars,
                 runner, error, fileVars>>

\* Behind HTTP the call of step() can time out: a benchmark error, after which
\* nobody closes the session.
StepTimesOut(s) ==
  /\ HostStep(s, "stepping", "failed")
  /\ UNCHANGED <<sent, limited, gaveUp, recorded, slotVars, queueVars, printVars, runner,
                 error, fileVars>>

\* score(): an error of the runner is an exception that leaves run_session; ...
ScoreBegins(s) ==
  /\ host[s] = "scoring"
  /\ host' = [host EXCEPT ![s] = IF s \in error THEN "failed" ELSE "loading"]
  /\ UNCHANGED <<sent, limited, gaveUp, recorded, slotVars, queueVars, printVars, runner,
                 error, fileVars>>

\* ... then the runner is waited for, for 30 seconds, the results file moved, and
\* scored as it is; without one score() raises.
Score(s) ==
  /\ host[s] = "loading"
  /\ IF file[s] # "none"
     THEN /\ host' = [host EXCEPT ![s] = "closing"]
          /\ recorded' = recorded \cup {s}
          /\ moved' = moved \cup {s}
     ELSE /\ host' = [host EXCEPT ![s] = "failed"]
          /\ UNCHANGED <<recorded, moved>>
  /\ UNCHANGED <<sent, limited, gaveUp, slotVars, queueVars, printVars, runner, error, file>>

\* Mutant: close() sends None in place of DONE.
CloseWithNone(s) ==
  /\ HostStep(s, "closing", "joining")
  /\ completed' = completed \cup {s}
  /\ fromAgent' = [fromAgent EXCEPT ![s] = Append(@, End)]
  /\ toAgent' = [toAgent EXCEPT ![s] = Append(@, End)]
  /\ UNCHANGED <<sent, limited, gaveUp, recorded, slotVars, taken, printVars, runner,
                 error, fileVars>>

\* close() wakes whoever waits on either queue ...
Close(s) ==
  /\ HostStep(s, "closing", "joining")
  /\ completed' = completed \cup {s}
  /\ fromAgent' = [fromAgent EXCEPT ![s] = Append(@, Done)]
  /\ toAgent' = [toAgent EXCEPT ![s] = Append(@, Done)]
  /\ UNCHANGED <<sent, limited, gaveUp, recorded, slotVars, taken, printVars, runner, error, fileVars>>

\* ... and waits for the runner, or for 10 seconds; then it wants a results file
\* and no error.
CloseReturns(s) ==
  /\ host[s] = "joining"
  /\ host' = [host EXCEPT ![s] = IF file[s] # "none" /\ s \notin error
                                THEN "closed" ELSE "failed"]
  /\ moved' = IF file[s] # "none" THEN moved \cup {s} ELSE moved
  /\ UNCHANGED <<sent, limited, gaveUp, recorded, slotVars, queueVars, printVars, runner,
                 error, file>>

Host(s) ==
  \/ Acquire(s) \/ Stage(s) \/ Starts(s) \/ Act(s) \/ AgentEnds(s) \/ AgentFails(s)
  \/ StepReturns(s) \/ ScoreBegins(s) \/ Score(s) \/ Close(s) \/ CloseReturns(s)

----------------------------------------------------------------------------
(* The runner thread. *)

\* What comes before its try: an exception there ends the thread, and nobody
\* hears of it.
SetupFails(s) ==
  /\ RunnerStep(s, "setup", "dead")
  /\ UNCHANGED <<hostVars, slotVars, queueVars, printVars, error, fileVars>>

\* The log is opened and builtins.print, a global of the process, kept ...
SavePrint(s) ==
  /\ RunnerStep(s, "setup", "patching")
  /\ saved' = [saved EXCEPT ![s] = print]
  /\ UNCHANGED <<hostVars, slotVars, queueVars, print, error, fileVars>>

\* ... and replaced.
ReplacePrint(s) ==
  /\ RunnerStep(s, "patching", "launching")
  /\ print' = s
  /\ UNCHANGED <<hostVars, slotVars, queueVars, saved, error, fileVars>>

\* run_domain makes an empty results file and creates the proxy agent, which
\* adopts the staged session; without one it raises.
Adopt(s) ==
  /\ current # NoSession
  /\ RunnerStep(s, "launching", "pairing")
  /\ agentOf' = [agentOf EXCEPT ![s] = current]
  /\ current' = NoSession
  /\ file' = [file EXCEPT ![s] = "empty"]
  /\ UNCHANGED <<hostVars, permits, paired, queueVars, printVars, error, moved>>

\* _mark_paired, and the slot is free for the next session.
MarkPaired(s) ==
  /\ RunnerStep(s, "pairing", "environment")
  /\ paired' = paired \cup {agentOf[s]}
  /\ permits' = permits + 1
  /\ UNCHANGED <<hostVars, current, agentOf, queueVars, printVars, error, fileVars>>

\* run_domain raises, before or after the file and the agent exist.
DomainFails(s) ==
  /\ runner[s] \in {"launching", "environment"}
  /\ runner' = [runner EXCEPT ![s] = "restoring"]
  /\ error' = error \cup {s}
  /\ file' \in {file, [file EXCEPT ![s] = "empty"]}
  /\ UNCHANGED <<hostVars, slotVars, queueVars, printVars, moved>>

\* The agent's turn: generate_next_message puts the observation ...
Observe(s) ==
  /\ RunnerStep(s, "environment", "waiting")
  /\ toAgent' = [toAgent EXCEPT ![agentOf[s]] = Append(@, Observation(taken[agentOf[s]]))]
  /\ UNCHANGED <<hostVars, slotVars, fromAgent, completed, taken, printVars, error, fileVars>>

\* ... and waits for an action; DONE is answered with a message that stops Tau2.
WaitForAction(s) ==
  LET a == agentOf[s] IN
  /\ runner[s] = "waiting" /\ fromAgent[a] # <<>>
  /\ fromAgent' = [fromAgent EXCEPT ![a] = Tail(@)]
  /\ IF Head(fromAgent[a]).kind = "done"
     THEN /\ runner' = [runner EXCEPT ![s] = "stopping"]
          /\ completed' = completed \cup {a}
          /\ UNCHANGED taken
     ELSE /\ runner' = [runner EXCEPT ![s] = "environment"]
          /\ taken' = [taken EXCEPT ![a] = @ + 1]
          /\ UNCHANGED completed
  /\ UNCHANGED <<hostVars, slotVars, toAgent, printVars, error, fileVars>>

\* The run is over: its results go to the file before run_domain returns, which
\* may raise if score() or close() has taken the file away.
DomainEnds(s) ==
  /\ runner[s] \in {"environment", "stopping"}
  /\ runner' = [runner EXCEPT ![s] = "restoring"]
  /\ IF s \in moved
     THEN error' \in {error, error \cup {s}} /\ UNCHANGED file
     ELSE file' = [file EXCEPT ![s] = "full"] /\ UNCHANGED error
  /\ UNCHANGED <<hostVars, slotVars, queueVars, printVars, moved>>

\* The finally clause: builtins.print is put back and the log closed; ...
RestorePrint(s) ==
  /\ RunnerStep(s, "restoring", "announcing")
  /\ print' = saved[s]
  /\ UNCHANGED <<hostVars, slotVars, queueVars, saved, error, fileVars>>

\* Mutant: the host is not woken.
AnnounceNothing(s) ==
  /\ RunnerStep(s, "announcing", "unstaging")
  /\ UNCHANGED <<hostVars, slotVars, queueVars, printVars, error, fileVars>>

\* ... the host is woken; ...
Announce(s) ==
  /\ RunnerStep(s, "announcing", "unstaging")
  /\ toAgent' = [toAgent EXCEPT ![s] = Append(@, End)]
  /\ UNCHANGED <<hostVars, slotVars, fromAgent, completed, taken, printVars, error, fileVars>>

WaitingForPairing(s) == current = s /\ s \notin paired

\* Mutant: unstage_for_pairing does not test whether the session was adopted.
UnstageAlways(s) ==
  /\ RunnerStep(s, "unstaging", "clearing")
  /\ UNCHANGED <<hostVars, slotVars, queueVars, printVars, error, fileVars>>

\* ... and it is tested, without the lock, whether nobody has adopted it.
Unstage(s) ==
  /\ runner[s] = "unstaging"
  /\ runner' = [runner EXCEPT ![s] = IF WaitingForPairing(s) THEN "clearing" ELSE "over"]
  /\ UNCHANGED <<hostVars, slotVars, queueVars, printVars, error, fileVars>>

\* Then it leaves its place, under the lock; an AssertionError ends the thread if
\* the place is not its own any more ...
ClearPlace(s) ==
  /\ runner[s] = "clearing"
  /\ IF current = s
     THEN /\ runner' = [runner EXCEPT ![s] = "unstaged"]
          /\ current' = NoSession
     ELSE /\ runner' = [runner EXCEPT ![s] = "asserted"]
          /\ UNCHANGED current
  /\ UNCHANGED <<hostVars, permits, paired, agentOf, queueVars, printVars, error, fileVars>>

\* ... and the slot with it.
ReleaseSlot(s) ==
  /\ RunnerStep(s, "unstaged", "over")
  /\ permits' = permits + 1
  /\ UNCHANGED <<hostVars, current, paired, agentOf, queueVars, printVars, error, fileVars>>

Runner(s) ==
  \/ SavePrint(s) \/ ReplacePrint(s) \/ Adopt(s) \/ MarkPaired(s)
  \/ DomainFails(s) \/ Observe(s) \/ WaitForAction(s) \/ DomainEnds(s)
  \/ RestorePrint(s) \/ Announce(s) \/ Unstage(s)
  \/ ClearPlace(s) \/ ReleaseSlot(s)

Finished(s) == host[s] \in {"closed", "failed"}

Next == \E s \in Sessions : Host(s) \/ StepTimesOut(s) \/ SetupFails(s) \/ Runner(s)

\* The agent and Tau2 answer, and threads are scheduled; nothing has to fail or
\* to time out.
Fairness == \A s \in Sessions : WF_vars(Host(s)) /\ WF_vars(Runner(s))

Spec == Init /\ [][Next]_vars /\ Fairness

----------------------------------------------------------------------------
TypeOK ==
  /\ host \in [Sessions -> {"new", "holding", "starting", "acting", "stepping",
                            "scoring", "loading", "closing", "joining", "closed", "failed"}]
  /\ runner \in [Sessions -> {"none", "setup", "dead", "patching", "launching",
                              "pairing", "environment", "waiting", "stopping",
                              "restoring", "announcing", "unstaging", "clearing",
                              "asserted", "unstaged", "over"}]
  /\ permits \in Nat
  /\ current \in Someone /\ paired \subseteq Sessions
  /\ agentOf \in [Sessions -> Someone]
  /\ toAgent \in [Sessions -> Seq(ToAgentItem)]
  /\ fromAgent \in [Sessions -> Seq(FromAgentItem)]
  /\ completed \subseteq Sessions
  /\ sent \in [Sessions -> Nat] /\ taken \in [Sessions -> Nat]
  /\ error \subseteq Sessions /\ moved \subseteq Sessions
  /\ file \in [Sessions -> {"none", "empty", "full"}]
  /\ limited \subseteq Sessions /\ gaveUp \subseteq Sessions /\ recorded \subseteq Sessions
  /\ print \in Someone /\ saved \in [Sessions -> Someone]

\* The proxy agent that Tau2 creates for a session never adopts another one,
\* although nothing but the one staged session tells it which.
AdoptsItsOwn == \A s \in Sessions : agentOf[s] \in {s, NoSession}

\* However the sessions ended, adopted or not, the slot has come back once: it
\* is taken by no one and free exactly once.  On the way nobody takes the place
\* between the test of a runner that gives it back and the lock under which it
\* does: the assertion there never fails.
SlotIsGivenBack ==
  /\ \A s \in Sessions : runner[s] # "asserted"
  /\ (\A s \in Sessions : host[s] # "holding" /\ runner[s] \in {"none", "over"})
       => (permits = 1 /\ current = NoSession)

\* The queues stay in step: what step() is about to return is the observation of
\* the action it has sent, never one that was left over.
AnsweredInTurn ==
  \A s \in Sessions : host[s] = "stepping" /\ toAgent[s] # <<>> =>
    Head(toAgent[s]) \in {Observation(sent[s]), End}

\* When a session is to be scored because its Tau2 run is over, all results of
\* the run are in the file or its error is known: score() never scores half a run
\* and never takes the file away from a run that still writes it, so that close()
\* fails after a recorded score only if the session had been cut off.
ScoredInFull ==
  \A s \in Sessions : s \notin limited \cup gaveUp =>
    /\ host[s] = "scoring" => file[s] = "full" \/ s \in error
    /\ s \in recorded => host[s] # "failed"

\* Where the log of a runner has been closed.
Closed == {"announcing", "unstaging", "clearing", "asserted", "unstaged", "over"}

\* builtins.print never writes to the log of a runner that has closed it, as
\* long as no runner began inside another one.
PrintStands ==
  (\A s \in Sessions : saved[s] = NoSession) =>
    \/ print = NoSession
    \/ runner[print] \notin Closed

\* Every session gets the slot and comes to its end, unless the setup of some
\* runner failed: neither queue nor slot leaves a thread waiting.
SessionsFinish ==
  \/ <>(\E s \in Sessions : runner[s] = "dead")
  \/ \A s \in Sessions : <>Finished(s)
=============================================================================
