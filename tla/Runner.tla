------------------------------- MODULE Runner -------------------------------
(***************************************************************************)
(* with_runner: an object in a thread, a process or an HTTP service of its *)
(* own, and the proxy through which one caller starts it, calls it and     *)
(* closes it.  Thread and process answer through a queue, in which nothing *)
(* says which call an answer belongs to; HTTP answers each call, but a     *)
(* call that timed out goes on being handled.  The venv and docker runners *)
(* first install their environment.                                        *)
(***************************************************************************)
EXTENDS Environment, Sequences

CONSTANTS MaxCalls,     \* bound on the calls of one caller before close()
          Assignments   \* the jobs the actors may have: functions of Actors

ASSUME CallsAssumption == MaxCalls \in Nat
ASSUME AssignmentsAssumption == Assignments \subseteq [Actors -> Jobs]

VARIABLES
  client,       \* where the caller is
  worker,       \* the thread, process or server of the object
  calls,        \* number of the calls made; the last one is waited for
  reqs,         \* requests, by number, that wait for the worker
  handling,     \* the calls the worker is handling
  resps,        \* the answers that wait for the caller, by number of the call
  closing,      \* the number of the call of close(), or 0
  closed,       \* the objects whose close() has run
  interrupted   \* the callers that were interrupted while they waited (history)

runVars == <<client, worker, calls, reqs, handling, resps, closing, closed, interrupted>>
vars    == <<envVars, runVars>>

Shutdown == 0   \* the sentinel that ends a worker; calls are numbered from 1

ByQueue(a) == job[a] \in {"thread", "process"}
ByHttp(a)  == job[a] \in {"service", "venv", "docker"}
Alive(a)   == worker[a] \in {"idle", "busy"}
Waits(a)   == client[a] \in {"testing", "receiving"}

Init ==
  /\ job \in Assignments
  /\ EnvInit
  /\ client = [a \in Actors |-> "none"]
  /\ worker = [a \in Actors |-> "none"]
  /\ calls = [a \in Actors |-> 0] /\ closing = [a \in Actors |-> 0]
  /\ reqs = [a \in Actors |-> <<>>] /\ resps = [a \in Actors |-> <<>>]
  /\ handling = [a \in Actors |-> {}]
  /\ closed = {} /\ interrupted = {}

Client(a, from, to) == client[a] = from /\ client' = [client EXCEPT ![a] = to]

----------------------------------------------------------------------------
(* start() *)

\* The worker thread or process is created; it constructs the object.
StartWorker(a) ==
  /\ ByQueue(a)
  /\ Client(a, "none", "starting")
  /\ worker' = [worker EXCEPT ![a] = "booting"]
  /\ UNCHANGED <<envVars, calls, reqs, handling, resps, closing, closed, interrupted>>

Boots(a) ==
  /\ worker[a] = "booting"
  /\ \/ worker' = [worker EXCEPT ![a] = "idle"] /\ Client(a, "starting", "open")
     \/ worker' = [worker EXCEPT ![a] = "dead"] /\ Client(a, "starting", "failed")
     \/ /\ job[a] = "process"   \* it dies after it was seen alive: start() waits on
        /\ worker' = [worker EXCEPT ![a] = "dead"]
        /\ UNCHANGED client
  /\ UNCHANGED <<envVars, calls, reqs, handling, resps, closing, closed, interrupted>>

\* The service is started, for venv and docker from the environment, which is
\* taken to be there (the marker is asked for the name of the image); without it,
\* or without an answer in time, start() raises.
StartService(a) ==
  /\ ByHttp(a) /\ (job[a] # "service" => env[a] = "installed")
  /\ \/ /\ job[a] # "service" => There(TypeOf(job[a]))
        /\ job[a] = "docker" => "docker" \in ReadMarker
        /\ Client(a, "none", "open")
        /\ worker' = [worker EXCEPT ![a] = "idle"]
     \/ Client(a, "none", "failed") /\ UNCHANGED worker
  /\ UNCHANGED <<envVars, calls, reqs, handling, resps, closing, closed, interrupted>>

----------------------------------------------------------------------------
(* Calls *)

\* _rpc: a request to a worker that is not alive raises at once.
Send(a, from) ==
  /\ Alive(a)
  /\ Client(a, from, IF job[a] = "process" THEN "testing" ELSE "receiving")
  /\ calls' = [calls EXCEPT ![a] = @ + 1]
  /\ reqs' = [reqs EXCEPT ![a] = Append(@, calls[a] + 1)]
  /\ UNCHANGED <<envVars, worker, handling, resps, closed, interrupted>>

Call(a) == calls[a] < MaxCalls /\ Send(a, "open") /\ UNCHANGED closing

\* A process is tested a second time before its answer is waited for.
TestAlive(a) ==
  /\ client[a] = "testing"
  /\ client' = [client EXCEPT ![a] =
       IF Alive(a) THEN "receiving" ELSE IF closing[a] = 0 THEN "open" ELSE "failed"]
  /\ UNCHANGED <<envVars, worker, calls, reqs, handling, resps, closing, closed, interrupted>>

\* The worker takes a request: one at a time from a queue, all of them by HTTP.
Take(a) ==
  /\ reqs[a] # <<>>
  /\ worker[a] = "idle" \/ (worker[a] = "busy" /\ ByHttp(a))
  /\ reqs' = [reqs EXCEPT ![a] = Tail(@)]
  /\ IF Head(reqs[a]) = Shutdown
     THEN /\ worker' = [worker EXCEPT ![a] = "dead"]
          /\ UNCHANGED handling
     ELSE /\ worker' = [worker EXCEPT ![a] = "busy"]
          /\ handling' = [handling EXCEPT ![a] = @ \cup {Head(reqs[a])}]
  /\ UNCHANGED <<envVars, client, calls, resps, closing, closed, interrupted>>

\* Mutant: an exception of the object is not sent back.
AnswerResults(a) ==
  \E n \in handling[a] :
    /\ handling' = [handling EXCEPT ![a] = @ \ {n}]
    /\ worker' = [worker EXCEPT ![a] = IF handling[a] = {n} THEN "idle" ELSE "busy"]
    /\ resps' \in {resps, [resps EXCEPT ![a] = Append(@, n)]}
    /\ closed' = IF n = closing[a] THEN closed \cup {a} ELSE closed
    /\ UNCHANGED <<envVars, client, calls, reqs, closing, interrupted>>

\* It answers, with a result or an exception of the object.  An answer by HTTP
\* reaches the caller only while it waits for that call.
Answer(a) ==
  \E n \in handling[a] :
    /\ handling' = [handling EXCEPT ![a] = @ \ {n}]
    /\ worker' = [worker EXCEPT ![a] = IF handling[a] = {n} THEN "idle" ELSE "busy"]
    /\ resps' = IF ByQueue(a) \/ (client[a] = "receiving" /\ n = calls[a])
                THEN [resps EXCEPT ![a] = Append(@, n)] ELSE resps
    /\ closed' = IF n = closing[a] THEN closed \cup {a} ELSE closed
    /\ UNCHANGED <<envVars, client, calls, reqs, closing, interrupted>>

\* Mutant: the answer stays in the queue.
ReceivePeeking(a) ==
  /\ client[a] = "receiving" /\ resps[a] # <<>>
  /\ client' = [client EXCEPT ![a] = IF closing[a] = 0 THEN "open" ELSE "disposing"]
  /\ UNCHANGED <<envVars, worker, calls, reqs, handling, resps, closing, closed, interrupted>>

\* The caller has the next answer, whichever call it is of.
Receive(a) ==
  /\ client[a] = "receiving" /\ resps[a] # <<>>
  /\ resps' = [resps EXCEPT ![a] = Tail(@)]
  /\ client' = [client EXCEPT ![a] = IF closing[a] = 0 THEN "open" ELSE "disposing"]
  /\ UNCHANGED <<envVars, worker, calls, reqs, handling, closing, closed, interrupted>>

\* A call by HTTP times out; it goes on in the server.
CallTimesOut(a) ==
  /\ ByHttp(a) /\ client[a] = "receiving" /\ resps[a] = <<>>
  /\ client' = [client EXCEPT ![a] =
       IF closing[a] = 0 THEN "open"
       ELSE IF job[a] = "service" THEN "failed" ELSE "disposing"]
  /\ UNCHANGED <<envVars, worker, calls, reqs, handling, resps, closing, closed, interrupted>>

\* Ctrl-C reaches a caller that waits: run_session goes on to close the object.
Interrupt(a) ==
  /\ Waits(a) /\ closing[a] = 0
  /\ client' = [client EXCEPT ![a] = "closing"]
  /\ interrupted' = interrupted \cup {a}
  /\ UNCHANGED <<envVars, worker, calls, reqs, handling, resps, closing, closed>>

\* A worker process is killed, or the object ends its thread by an exception
\* that is not an Exception: what it was handling is not answered.
Dies(a) ==
  /\ \/ job[a] \in {"process", "venv", "docker"} /\ Alive(a)
     \/ job[a] = "thread" /\ worker[a] = "busy"
  /\ worker' = [worker EXCEPT ![a] = "dead"]
  /\ handling' = [handling EXCEPT ![a] = {}]
  /\ UNCHANGED <<envVars, client, calls, reqs, resps, closing, closed, interrupted>>

\* A server that is gone breaks the connection of a call.
ConnectionLost(a) ==
  /\ ByHttp(a) /\ client[a] = "receiving" /\ worker[a] = "dead" /\ resps[a] = <<>>
  /\ client' = [client EXCEPT ![a] = IF closing[a] = 0 THEN "open" ELSE "disposing"]
  /\ UNCHANGED <<envVars, worker, calls, reqs, handling, resps, closing, closed, interrupted>>

----------------------------------------------------------------------------
(* close() *)

\* close() of the proxy calls close() of the object ...
BeginClose(a) ==
  /\ \/ Send(a, "open")
     \/ Send(a, "closing")
  /\ closing' = [closing EXCEPT ![a] = calls[a] + 1]

\* Mutant: every proxy goes on when the object cannot be closed.
CloseDeadIgnored(a) ==
  /\ client[a] \in {"open", "closing"} /\ ~Alive(a)
  /\ client' = [client EXCEPT ![a] = "disposing"]
  /\ UNCHANGED <<envVars, worker, calls, reqs, handling, resps, closing, closed, interrupted>>

\* ... which raises if there is no worker; make_close goes on all the same.
CloseDead(a) ==
  /\ client[a] \in {"open", "closing"} /\ ~Alive(a)
  /\ client' = [client EXCEPT ![a] =
       IF job[a] \in {"venv", "docker"} THEN "disposing" ELSE "failed"]
  /\ UNCHANGED <<envVars, worker, calls, reqs, handling, resps, closing, closed, interrupted>>

\* The answer may be an exception of the object: close() raises it, and the
\* worker is left as it is.
CloseRaises(a) ==
  /\ job[a] \notin {"venv", "docker"}
  /\ Client(a, "disposing", "failed")
  /\ UNCHANGED <<envVars, worker, calls, reqs, handling, resps, closing, closed, interrupted>>

\* transport.close(): the sentinel, and a while for the worker to end in; ...
Dispose(a) ==
  /\ ByQueue(a)
  /\ Client(a, "disposing", "joining")
  /\ reqs' = [reqs EXCEPT ![a] = Append(@, Shutdown)]
  /\ UNCHANGED <<envVars, worker, calls, handling, resps, closing, closed, interrupted>>

\* ... a process that has not ended is terminated, a thread left alone.
Joined(a) ==
  /\ Client(a, "joining", "closed")
  /\ worker' = [worker EXCEPT ![a] = IF job[a] = "process" THEN "dead" ELSE @]
  /\ handling' = [handling EXCEPT ![a] = IF job[a] = "process" THEN {} ELSE @]
  /\ UNCHANGED <<envVars, calls, reqs, resps, closing, closed, interrupted>>

\* A server is told to stop, a process or container is stopped.
StopServer(a) ==
  /\ ByHttp(a)
  /\ Client(a, "disposing", "closed")
  /\ worker' = [worker EXCEPT ![a] = "dead"]
  /\ handling' = [handling EXCEPT ![a] = {}]
  /\ UNCHANGED <<envVars, calls, reqs, resps, closing, closed, interrupted>>

Caller(a) ==
  \/ StartWorker(a) \/ StartService(a) \/ Call(a) \/ TestAlive(a) \/ Receive(a)
  \/ ConnectionLost(a) \/ BeginClose(a) \/ CloseDead(a) \/ CloseRaises(a)
  \/ Dispose(a) \/ Joined(a) \/ StopServer(a)

Worker(a) == Boots(a) \/ Take(a) \/ Answer(a)

Next ==
  \E a \in Actors :
    \/ (EnvironmentStep(a) \/ Killed(a)) /\ UNCHANGED runVars
    \/ job[a] \in Runners /\ (Caller(a) \/ Worker(a))
    \/ CallTimesOut(a) \/ Interrupt(a) \/ Dies(a)

\* Callers and workers go on, and an object answers; nothing has to time out.
Fairness == \A a \in Actors : WF_vars(job[a] \in Runners /\ Caller(a))
                              /\ WF_vars(job[a] \in Runners /\ Worker(a))

Spec == Init /\ [][Next]_vars /\ Fairness

----------------------------------------------------------------------------
TypeOK ==
  /\ EnvTypeOK
  /\ client \in [Actors -> {"none", "starting", "open", "testing", "receiving", "closing",
                           "disposing", "joining", "closed", "failed"}]
  /\ worker \in [Actors -> {"none", "booting", "idle", "busy", "dead"}]
  /\ calls \in [Actors -> Nat] /\ closing \in [Actors -> Nat]
  /\ reqs \in [Actors -> Seq(Nat)] /\ resps \in [Actors -> Seq(Nat)]
  /\ handling \in [Actors -> SUBSET Nat]
  /\ closed \subseteq Actors /\ interrupted \subseteq Actors

\* The answer a caller takes is that of its own call, although a queue does not
\* say whose an answer is, as long as no call of it was interrupted.
AnswersBelong ==
  \A a \in Actors : client[a] = "receiving" /\ resps[a] # <<>> /\ a \notin interrupted
    => Head(resps[a]) = calls[a]

\* A close() that returns has run the object's close(), if it goes by a runner
\* that does not swallow exceptions and no call was interrupted before it.
CloseHasRun ==
  \A a \in Actors : client[a] = "closed" /\ job[a] \notin {"venv", "docker"}
    => a \in closed \cup interrupted

\* Every call returns, unless its worker died: no answer goes to another call
\* and no caller waits for one that has been given.
CallsReturn ==
  \A a \in Actors : Waits(a) ~> (~Waits(a) \/ worker[a] = "dead")
=============================================================================
