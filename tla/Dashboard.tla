----------------------------- MODULE Dashboard -----------------------------
(***************************************************************************)
(* The dashboard and the run it shows.  The run's threads hand events to   *)
(* an observer of their own: some go to a bounded queue at once, others    *)
(* are gathered under a lock and moved there in batches; a full queue      *)
(* loses its oldest event, and sometimes the new one.  A timer of the user *)
(* interface takes events from the queue, and looks at the run's thread.   *)
(***************************************************************************)
EXTENDS Naturals, Sequences, FiniteSets, SequencesExt

CONSTANTS Sessions,   \* sessions of a run
          Workers,    \* threads of a parallel run
          SessionSteps, \* steps of a session
          MaxRetries, \* _MAX_SESSION_RETRIES, of a serial run
          BatchSize,  \* events gathered before they are moved: 10
          Capacity,   \* maxsize of the queue: 10000
          TickSize,   \* max_events of a tick: 40
          Outcomes    \* what a finished session is shown as

Main == "main"        \* the thread that calls evaluate()
Nobody == "nobody"
RunThreads == Workers \cup {Main}

ASSUME DashboardAssumption ==
  /\ IsFiniteSet(Sessions) /\ IsFiniteSet(Workers) /\ Workers # {}
  /\ Outcomes \cap {"none", "running", "raised"} = {}
  /\ Main \notin Workers /\ Nobody \notin RunThreads \cup Sessions
  /\ {SessionSteps, MaxRetries} \subseteq Nat
  /\ {BatchSize, Capacity, TickSize} \subseteq Nat \ {0}

VARIABLES
  active,    \* run_active, of the last run; the rest is about that run too
  shown,     \* state.sessions: Nothing, or what is shown
  stale,     \* refresh_needed
  listed,    \* the leaderboard knows the run's results
  crew,      \* its worker threads: all, or one that is the run's own
  todo,      \* sessions not taken yet
  attempts,  \* attempts a serial run has made at a session
  doing,     \* session of a worker, which is what _thread_session says while it runs
  stage,     \* where a thread is
  failure,   \* a session's failure main has not looked at, or had_error
  results,   \* results.json of the run is written
  truth,     \* what became of a session: Nothing until it starts
  count,     \* _session_steps
  pending,   \* _pending_events
  lock,      \* holder of _events_lock while it moves a batch
  out,       \* the event a thread is putting
  tries,     \* how far it is: 0, 1 after a full queue, 2 after dropping one
  events,    \* the queue
  lost       \* an event was lost

ui       == <<active, shown, stale, listed>>
sessions == <<crew, todo, attempts, doing, failure, results, truth>>
observer == <<count, pending, lock>>
queue    == <<out, tries, events, lost>>
dashboardVars == <<ui, sessions, stage, observer, queue>>

Nothing == [status |-> "none", steps |-> 0]
Running == [status |-> "running", steps |-> 0]

Silence == [type |-> "none"]
Event(type, s) == [type |-> type, session |-> s]

Fresh ==
  /\ attempts' = [s \in Sessions |-> 0]
  /\ doing' = [w \in Workers |-> Nobody]
  /\ failure' = FALSE /\ results' = FALSE
  /\ truth' = [s \in Sessions |-> Nothing] /\ shown' = [s \in Sessions |-> Nothing]
  /\ count' = [s \in Sessions |-> 0]
  /\ pending' = <<>> /\ lock' = Nobody
  /\ out' = [p \in RunThreads |-> Silence] /\ tries' = [p \in RunThreads |-> 0]
  /\ events' = <<>> /\ lost' = FALSE

DashboardInit ==
  /\ active = FALSE /\ stale = TRUE /\ listed = FALSE
  /\ crew = {} /\ todo = <<>>
  /\ attempts = [s \in Sessions |-> 0]
  /\ doing = [w \in Workers |-> Nobody]
  /\ stage = [p \in RunThreads |-> IF p = Main THEN "over" ELSE "idle"]
  /\ failure = FALSE /\ results = FALSE
  /\ truth = [s \in Sessions |-> Nothing] /\ shown = [s \in Sessions |-> Nothing]
  /\ count = [s \in Sessions |-> 0]
  /\ pending = <<>> /\ lock = Nobody
  /\ out = [p \in RunThreads |-> Silence] /\ tries = [p \in RunThreads |-> 0]
  /\ events = <<>> /\ lost = FALSE

-----------------------------------------------------------------------------
(* Putting an event: _emit for those that are not gathered, and the inside *)
(* of _flush_batch.                                                        *)

\* Where a thread goes when its event is put, or its batch is moved.
After(p) ==
  CASE stage[p] = "starting" -> "react"
    [] stage[p] = "reacted"  -> "observe"
    [] stage[p] = "observed" -> "react"
    [] stage[p] = "ending"   -> "ended"
    [] stage[p] = "telling"  -> "closing"
    [] stage[p] = "saving"   -> "saved"
    [] stage[p] = "saying"   -> IF failure THEN "wait" ELSE "over"

Moves(p) == lock = p

\* The event is in the queue, or given up.
Said(p) ==
  /\ out' = [out EXCEPT ![p] = Silence] /\ tries' = [tries EXCEPT ![p] = 0]
  /\ stage' = IF Moves(p) THEN stage ELSE [stage EXCEPT ![p] = After(p)]

Put(p) ==
  /\ out[p] # Silence /\ tries[p] \in {0, 2} /\ Len(events) < Capacity
  /\ events' = Append(events, out[p])
  /\ Said(p)
  /\ UNCHANGED <<ui, sessions, observer, lost>>

QueueIsFull(p) ==
  /\ out[p] # Silence /\ tries[p] = 0 /\ Len(events) >= Capacity
  /\ tries' = [tries EXCEPT ![p] = 1]
  /\ UNCHANGED <<ui, sessions, stage, observer, out, events, lost>>

DropOldest(p) ==
  /\ tries[p] = 1 /\ events # <<>>
  /\ events' = Tail(events) /\ lost' = TRUE
  /\ tries' = [tries EXCEPT ![p] = 2]
  /\ UNCHANGED <<ui, sessions, stage, observer, out>>

\* The queue was emptied or filled again meanwhile: the event is lost, and a
\* batch is left where it is.
Lose(p) ==
  /\ \/ tries[p] = 1 /\ events = <<>>
     \/ tries[p] = 2 /\ Len(events) >= Capacity
  /\ lost' = TRUE
  /\ out' = [out EXCEPT ![p] = Silence] /\ tries' = [tries EXCEPT ![p] = 0]
  /\ stage' = [stage EXCEPT ![p] = After(p)]
  /\ lock' = IF Moves(p) THEN Nobody ELSE lock
  /\ UNCHANGED <<ui, sessions, count, pending, events>>

Pop(p) ==
  /\ Moves(p) /\ out[p] = Silence /\ pending # <<>>
  /\ out' = [out EXCEPT ![p] = Head(pending)] /\ pending' = Tail(pending)
  /\ UNCHANGED <<ui, sessions, stage, count, lock, tries, events, lost>>

BatchMoved(p) ==
  /\ Moves(p) /\ out[p] = Silence /\ pending = <<>>
  /\ lock' = Nobody /\ stage' = [stage EXCEPT ![p] = After(p)]
  /\ UNCHANGED <<ui, sessions, count, pending, queue>>

\* A gathered event: the batch is moved when it is large enough or old enough.
\* The lock is taken here; place is where the thread is while it moves.
Gather(w, event, place, next) ==
  /\ lock = Nobody
  /\ pending' = Append(pending, event)
  /\ \/ lock' = w /\ stage' = [stage EXCEPT ![w] = place]
     \/ Len(pending') < BatchSize /\ lock' = lock /\ stage' = [stage EXCEPT ![w] = next]

-----------------------------------------------------------------------------
(* A session in its worker                                                 *)

\* on_session_start
Begin(w) ==
  /\ w \in crew /\ stage[w] = "idle" /\ stage[Main] # "over"
  /\ todo # <<>> /\ todo' = Tail(todo)
  /\ LET s == Head(todo) IN
       /\ doing' = [doing EXCEPT ![w] = s]
       /\ attempts' = [attempts EXCEPT ![s] = @ + 1]
       /\ truth' = [truth EXCEPT ![s] = Running]
       /\ count' = [count EXCEPT ![s] = 0]
       /\ out' = [out EXCEPT ![w] = Event("session_started", s)]
  /\ lock = Nobody /\ stage' = [stage EXCEPT ![w] = "starting"]
  /\ UNCHANGED <<ui, crew, failure, results, pending, lock, tries, events, lost>>

\* A session that is reused, skipped or fails before it starts is not observed.
NeverStarts(w) ==
  /\ w \in crew /\ stage[w] = "idle" /\ stage[Main] # "over"
  /\ todo # <<>> /\ todo' = Tail(todo)
  /\ failure' \in {failure, TRUE}
  /\ UNCHANGED <<ui, crew, attempts, doing, results, truth, stage, observer, queue>>

\* on_react_success; the step is the session's of this thread.
ReactSuccess(w) ==
  LET s == doing[w]
  IN  /\ stage[w] = "react" /\ truth[s].steps < SessionSteps
      /\ Gather(w, Event("step", s), "reacted", "observe")
      /\ truth' = [truth EXCEPT ![s].steps = @ + 1]
      /\ count' = [count EXCEPT ![s] = @ + 1]
      /\ UNCHANGED <<ui, crew, todo, attempts, doing, failure, results, queue>>

\* on_step_success
Observe(w) ==
  /\ stage[w] = "observe"
  /\ Gather(w, Event("observation", doing[w]), "observed", "react")
  /\ UNCHANGED <<ui, sessions, count, queue>>

\* Mutant of SessionEnds: what is gathered stays where it is.
SessionEndsUnflushed(w) ==
  /\ stage[w] \in {"react", "observe"} /\ lock = Nobody
  /\ stage' = [stage EXCEPT ![w] = "ended"]
  /\ UNCHANGED <<ui, sessions, observer, queue>>

\* on_session_success and on_session_error begin with what is gathered.
SessionEnds(w) ==
  /\ stage[w] \in {"react", "observe"} /\ lock = Nobody
  /\ lock' = w /\ stage' = [stage EXCEPT ![w] = "ending"]
  /\ UNCHANGED <<ui, sessions, count, pending, queue>>

Tell(w) ==
  LET s == doing[w]
  IN  /\ stage[w] = "ended" /\ lock = Nobody
      /\ count' = [count EXCEPT ![s] = 0]
      /\ \E o \in Outcomes :
           /\ truth' = [truth EXCEPT ![s].status = o]
           /\ out' = [out EXCEPT ![w] =
                       [type |-> "session_finished", session |-> s, status |-> o, steps |-> count[s]]]
      /\ stage' = [stage EXCEPT ![w] = "telling"]
      /\ UNCHANGED <<ui, crew, todo, attempts, doing, failure, results,
                     pending, lock, tries, events, lost>>

Leaves(w) == doing' = [doing EXCEPT ![w] = Nobody] /\ stage' = [stage EXCEPT ![w] = "idle"]

EndWork(w) ==
  /\ stage[w] = "closing" /\ Leaves(w)
  /\ UNCHANGED <<ui, crew, todo, attempts, failure, results, truth, observer, queue>>

\* An exception leaves run_session: while the agent is closed, or before any
\* observer hears of an end, when scoring, training feedback or recording raises.
\* The session is over then and nobody says so.  A serial run may try it again.
Raise(w) ==
  /\ stage[w] \in {"react", "observe", "closing"} /\ Leaves(w)
  /\ truth' = IF stage[w] = "closing" THEN truth
              ELSE [truth EXCEPT ![doing[w]].status = "raised"]
  /\ \/ failure' = TRUE /\ todo' = todo
     \/ /\ Cardinality(crew) = 1 /\ attempts[doing[w]] <= MaxRetries
        /\ todo' = <<doing[w]>> \o todo /\ failure' = failure
  /\ UNCHANGED <<ui, crew, attempts, results, observer, queue>>

-----------------------------------------------------------------------------
(* The end of a run                                                        *)

Quiet == todo = <<>> /\ \A w \in Workers : stage[w] = "idle"

\* The parallel executor reports the first failed session while the others go
\* on: the results are written and announced.
ReportFailure ==
  /\ stage[Main] = "wait" /\ failure /\ ~results /\ Cardinality(crew) > 1
  /\ results' = TRUE
  /\ lock = Nobody /\ lock' = Main /\ stage' = [stage EXCEPT ![Main] = "saving"]
  /\ UNCHANGED <<ui, crew, todo, attempts, doing, failure, truth, count, pending, queue>>

\* on_run_success: the results are on disk before the dashboard hears of it.
RunSucceeds ==
  /\ stage[Main] = "wait" /\ Quiet /\ ~failure
  /\ results' = TRUE
  /\ pending' = Append(pending, Event("benchmark_recorded", Nobody))
  /\ lock = Nobody /\ lock' = Main /\ stage' = [stage EXCEPT ![Main] = "saving"]
  /\ UNCHANGED <<ui, crew, todo, attempts, doing, failure, truth, count, queue>>

EmitSaved ==
  /\ stage[Main] = "saved" /\ stage' = [stage EXCEPT ![Main] = "saying"]
  /\ out' = [out EXCEPT ![Main] = Event("saved", Nobody)]
  /\ UNCHANGED <<ui, sessions, observer, tries, events, lost>>

\* Nothing more is said by a run in which a session failed, or whose planning or
\* aggregation raises: its thread just ends.
RunStops ==
  /\ stage[Main] = "wait" /\ \A w \in Workers : stage[w] = "idle"
  /\ \/ Quiet /\ failure /\ (results \/ Cardinality(crew) = 1)
     \/ Quiet /\ ~failure
     \/ \A s \in Sessions : attempts[s] = 0
  /\ stage' = [stage EXCEPT ![Main] = "over"]
  /\ UNCHANGED <<ui, sessions, observer, queue>>

-----------------------------------------------------------------------------
(* The user interface                                                      *)

\* start_run: a new observer and a new thread; the old ones are forgotten.
StartRun ==
  /\ ~active
  /\ active' = TRUE /\ stale' = TRUE /\ listed' = FALSE
  /\ crew' \in {Workers, {CHOOSE w \in Workers : TRUE}}
  /\ todo' = SetToSeq(Sessions)
  /\ stage' = [p \in RunThreads |-> IF p = Main THEN "wait" ELSE "idle"]
  /\ Fresh

\* process_new_events for one event, as far as one session is concerned.
Show(entry, e, s) ==
  CASE e.session = s /\ e.type = "session_started"             -> Running
    [] e.session = s /\ e.type = "step" /\ entry # Nothing     -> [entry EXCEPT !.steps = @ + 1]
    [] e.session = s /\ e.type = "session_finished" /\ entry # Nothing ->
         [status |-> e.status, steps |-> e.steps]
    [] OTHER -> entry

\* The same for several events, one after the other.
Played(entry, taken, s) ==
  LET entries[n \in 0 .. Len(taken)] ==
        IF n = 0 THEN entry ELSE Show(entries[n - 1], taken[n], s)
  IN  entries[Len(taken)]

Taken == SubSeq(events, 1, IF Len(events) < TickSize THEN Len(events) ELSE TickSize)

IsSaved == \E i \in DOMAIN Taken : Taken[i].type = "saved"

\* Mutant of IsDead: only the event frees the start button.
IsDeadUnseen == FALSE

\* The run is shown as active, was not announced, and its thread is dead.
IsDead == active /\ ~IsSaved /\ stage[Main] = "over"

\* Mutant of Tick: the leaderboard is refreshed for the event only.
TickTrustsEvent ==
  /\ events' = SubSeq(events, Len(Taken) + 1, Len(events))
  /\ shown' = [s \in Sessions |-> Played(shown[s], Taken, s)]
  /\ active' = (active /\ ~IsSaved /\ ~IsDead)
  /\ listed' = IF stale \/ IsSaved THEN results ELSE listed
  /\ stale' = FALSE
  /\ UNCHANGED <<sessions, stage, observer, out, tries, lost>>

\* refresh_ui, from the timer.
Tick ==
  /\ events' = SubSeq(events, Len(Taken) + 1, Len(events))
  /\ shown' = [s \in Sessions |-> Played(shown[s], Taken, s)]
  /\ active' = (active /\ ~IsSaved /\ ~IsDead)
  /\ listed' = IF stale \/ IsSaved \/ IsDead THEN results ELSE listed
  /\ stale' = FALSE
  /\ UNCHANGED <<sessions, stage, observer, out, tries, lost>>

-----------------------------------------------------------------------------
(* Specification                                                           *)

Talk(p) == Put(p) \/ QueueIsFull(p) \/ DropOldest(p) \/ Lose(p) \/ Pop(p) \/ BatchMoved(p)

Worker(w) == \/ Begin(w) \/ NeverStarts(w) \/ ReactSuccess(w) \/ Observe(w) \/ SessionEnds(w)
             \/ Tell(w) \/ EndWork(w) \/ Raise(w) \/ Talk(w)

Runner == ReportFailure \/ RunSucceeds \/ EmitSaved \/ RunStops \/ Talk(Main)

Run == Runner \/ \E w \in Workers : Worker(w)

DashboardNext == StartRun \/ Tick \/ Run

\* The timer fires, and some thread of the run that can go on does: a run has
\* only so much to do.  Nobody has to press start.
DashboardSpec == DashboardInit /\ [][DashboardNext]_dashboardVars /\ WF_dashboardVars(Tick) /\ WF_dashboardVars(Run)

-----------------------------------------------------------------------------
(* Properties                                                              *)

DashboardTypeOK ==
  /\ active \in BOOLEAN /\ stale \in BOOLEAN /\ listed \in BOOLEAN
  /\ crew \subseteq Workers /\ todo \in Seq(Sessions)
  /\ doing \in [Workers -> Sessions \cup {Nobody}]
  /\ failure \in BOOLEAN /\ results \in BOOLEAN
  /\ count \in [Sessions -> Nat]
  /\ lock \in RunThreads \cup {Nobody}
  /\ tries \in [RunThreads -> 0 .. 2]
  /\ Len(events) <= Capacity

Drained == pending = <<>> /\ events = <<>> /\ \A p \in RunThreads : out[p] = Silence

\* What the events of a session say of it: one that raised without a word is
\* still running as far as they tell.
AsTold(s) == IF truth[s].status = "raised" THEN [truth[s] EXCEPT !.status = "running"] ELSE truth[s]

\* Once every event is taken and none was lost, the dashboard shows what was told of
\* each session: what came of it, and how many steps it took.
\* Steps are gathered and ends are not, and several threads move each other's
\* batches.  A session that raised without a word stays shown as running, with
\* its steps.  Only when a session was tried again without an end being told may
\* a step of the attempt before be shown with it.
ShownIsTold ==
  Drained /\ ~lost =>
    \A s \in Sessions :
       \/ shown[s] = AsTold(s)
       \/ attempts[s] > 1 /\ AsTold(s).status = "running" /\ shown[s].status = "running"

\* When the start button is free again the leaderboard has the results the run
\* wrote, even if the event that says so was lost.
LeaderboardIsFresh == ~active /\ results => listed

\* Whatever becomes of a run and of its events, another can be started.
StartAgain == active ~> ~active
=============================================================================
