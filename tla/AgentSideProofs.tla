---------------------------- MODULE AgentSideProofs ----------------------------
(***************************************************************************)
(* Theorems about what runs on the agent's side of a session and beside it: *)
(* TraceLog (calls can be restored), CliAgent (nothing is left running),    *)
(* Dialogue (every call is answered once, scores are what they say) and     *)
(* Dashboard (the leaderboard is fresh, what is shown was told).             *)
(***************************************************************************)
EXTENDS TraceLog, CliAgent, Dialogue, Dashboard, FiniteSetTheorems,
        WellFoundedInduction, TLAPS

\* What the whole file defines.
Defined == DefinedBefore(Len(file) + 1)

\* What a logger believes to be in the file is there.
LoggerInv(l) ==
  /\ ~unlinked[l]
  /\ written[l] \subseteq Defined
  /\ phase[l] = "writing" => request[l] \subseteq Defined \cup unwritten[l]
  /\ phase[l] = "mark" => request[l] \subseteq Defined

TraceInv == TraceTypeOK /\ CallsCanBeRestored /\ \A l \in Loggers : LoggerInv(l)

LEMMA TraceInitInv == TraceInit => TraceInv
<1> SUFFICES ASSUME TraceInit PROVE TraceInv
  OBVIOUS
<1>1. TraceTypeOK
  BY DEF TraceInit, TraceTypeOK
<1>2. CallsCanBeRestored
  BY DEF TraceInit, CallsCanBeRestored
<1>3. ASSUME NEW l \in Loggers PROVE LoggerInv(l)
  BY <1>3 DEF TraceInit, LoggerInv
<1> QED
  BY <1>1, <1>2, <1>3 DEF TraceInv

LEMMA TraceTypeStep == TraceTypeOK /\ [TraceNext]_traceVars => TraceTypeOK'
<1> SUFFICES ASSUME TraceTypeOK, [TraceNext]_traceVars PROVE TraceTypeOK'
  OBVIOUS
<1> USE DEF Becomes, counts
<1>1. CASE UNCHANGED traceVars
  BY <1>1 DEF traceVars, TraceTypeOK
<1>2. ASSUME NEW l \in Loggers, Open(l) PROVE TraceTypeOK'
  BY <1>2 DEF Open, TraceTypeOK
<1>3. ASSUME NEW l \in Loggers, WriteDefinition(l) PROVE TraceTypeOK'
  <2>1. PICK c \in unwritten[l] : /\ PutLine(l, [type |-> "definition", about |-> {c}])
                             /\ unwritten' = [unwritten EXCEPT ![l] = @ \ {c}]
    BY <1>3 DEF WriteDefinition
  <2>2. [type |-> "definition", about |-> {c}] \in Line
    BY <2>1 DEF TraceTypeOK, Line
  <2>3. file' \in Seq(Line)
    BY <2>1, <2>2 DEF PutLine, TraceTypeOK
  <2> QED
    BY <1>3, <2>1, <2>3 DEF WriteDefinition, TraceTypeOK
<1>4. ASSUME NEW l \in Loggers, WriteCall(l) PROVE TraceTypeOK'
  <2>1. [type |-> "call", about |-> request[l]] \in Line
    BY DEF TraceTypeOK, Line
  <2>2. file' \in Seq(Line)
    BY <1>4, <2>1 DEF WriteCall, PutLine, TraceTypeOK
  <2> QED
    BY <1>4, <2>2 DEF WriteCall, TraceTypeOK
<1>5. ASSUME NEW l \in Loggers, Mark(l) PROVE TraceTypeOK'
  BY <1>5 DEF Mark, TraceTypeOK
<1>6. ASSUME NEW l \in Loggers, WriteFails(l) PROVE TraceTypeOK'
  BY <1>6 DEF WriteFails, TraceTypeOK
<1>7. CASE RemoveSession
  BY <1>7 DEF RemoveSession, TraceTypeOK
<1>8. CASE Restart
  <2>1. file' \in Seq(Line)
    <3>1. <<>> \in Seq(Line)
      OBVIOUS
    <3> QED
      BY <1>8, <3>1 DEF Restart, TraceTypeOK
  <2> QED
    BY <1>8, <2>1 DEF Restart, TraceTypeOK
<1> QED
  BY <1>1, <1>2, <1>3, <1>4, <1>5, <1>6, <1>7, <1>8 DEF TraceNext, LoggerStep

\* A line at the end of the file adds what it defines, and the lines before it
\* read as they did.
LEMMA AppendLine ==
  ASSUME file \in Seq(Line), NEW line \in Line, file' = Append(file, line)
  PROVE  /\ \A i \in 1..(Len(file) + 1) : DefinedBefore(i)' = DefinedBefore(i)
         /\ Defined \subseteq Defined'
         /\ line.type = "definition" => Defined' = Defined \cup line.about
<1>1. /\ Len(file) \in Nat /\ Len(file') = Len(file) + 1
      /\ file'[Len(file) + 1] = line
      /\ \A j \in 1..Len(file) : file'[j] = file[j]
  OBVIOUS
<1>2. ASSUME NEW i \in 1..(Len(file) + 1) PROVE DefinedBefore(i)' = DefinedBefore(i)
  <2>1. \A j \in 1..(i - 1) : file'[j] = file[j]
    BY <1>1
  <2> QED
    BY <2>1 DEF DefinedBefore
<1>3. /\ Defined \subseteq Defined'
      /\ line.type = "definition" => Defined' = Defined \cup line.about
  <2> DEFINE D(n) == {k \in 1..n : file'[k].type = "definition"}
  <2>1. D(Len(file) + 1) =
          D(Len(file)) \cup (IF line.type = "definition" THEN {Len(file) + 1} ELSE {})
    BY <1>1
  <2>2. Defined' = UNION {file'[j].about : j \in D(Len(file) + 1)}
    BY <1>1 DEF Defined, DefinedBefore
  <2>3. Defined = UNION {file'[j].about : j \in D(Len(file))}
    <3>1. D(Len(file)) = {k \in 1..(Len(file) + 1 - 1) : file[k].type = "definition"}
      BY <1>1
    <3>2. \A j \in D(Len(file)) : file'[j].about = file[j].about
      BY <1>1
    <3> HIDE DEF D
    <3> QED
      BY <3>1, <3>2 DEF Defined, DefinedBefore
  <2> HIDE DEF D
  <2> QED
    BY <1>1, <2>1, <2>2, <2>3
<1> QED
  BY <1>2, <1>3

LEMMA InvStep ==
  ASSUME MaxRemovals = 0, TraceInv, [TraceNext]_traceVars PROVE TraceInv'
<1> TraceTypeOK' /\ TraceTypeOK
  BY TraceTypeStep DEF TraceInv
<1>1. CASE UNCHANGED traceVars
  BY <1>1 DEF traceVars, TraceInv, TraceTypeOK, CallsCanBeRestored, LoggerInv, Defined, DefinedBefore
<1>2. ASSUME NEW l \in Loggers, Open(l) \/ Mark(l) \/ WriteFails(l) PROVE TraceInv'
  <2>1. file' = file
    BY <1>2 DEF Open, Mark, WriteFails
  <2>2. Defined' = Defined /\ CallsCanBeRestored'
    BY <2>1 DEF Defined, DefinedBefore, CallsCanBeRestored, TraceInv
  <2>3. ASSUME NEW m \in Loggers PROVE LoggerInv(m)'
    <3>1. LoggerInv(m) /\ LoggerInv(l)
      BY DEF TraceInv
    <3>2. CASE Open(l)
      BY <2>2, <3>1, <3>2 DEF Open, Becomes, LoggerInv, TraceTypeOK
    <3>3. CASE Mark(l)
      BY <2>2, <3>1, <3>3 DEF Mark, Becomes, LoggerInv, TraceTypeOK
    <3>4. CASE WriteFails(l)
      BY <2>2, <3>1, <3>4 DEF WriteFails, Becomes, LoggerInv, TraceTypeOK
    <3> QED
      BY <1>2, <3>2, <3>3, <3>4
  <2> QED
    BY <2>2, <2>3 DEF TraceInv
<1>3. ASSUME NEW l \in Loggers, WriteDefinition(l) PROVE TraceInv'
  <2>1. PICK c \in unwritten[l] : /\ PutLine(l, [type |-> "definition", about |-> {c}])
                             /\ unwritten' = [unwritten EXCEPT ![l] = @ \ {c}]
    BY <1>3 DEF WriteDefinition
  <2> DEFINE line == [type |-> "definition", about |-> {c}]
  <2>2. line \in Line /\ line.type = "definition" /\ line.about = {c}
    BY <2>1 DEF TraceTypeOK, Line
  <2>3. file' = Append(file, line) /\ file \in Seq(Line)
    BY <2>1 DEF PutLine, TraceInv, LoggerInv, TraceTypeOK
  <2> HIDE DEF line
  <2>4. Defined' = Defined \cup {c}
    BY <2>2, <2>3, AppendLine
  <2>5. CallsCanBeRestored'
    <3>1. \A i \in 1..(Len(file) + 1) : DefinedBefore(i)' = DefinedBefore(i)
      BY <2>2, <2>3, AppendLine
    <3> QED
      BY <2>2, <2>3, <3>1 DEF CallsCanBeRestored, TraceInv
  <2>6. ASSUME NEW m \in Loggers PROVE LoggerInv(m)'
    BY <1>3, <2>1, <2>4 DEF WriteDefinition, LoggerInv, TraceInv, TraceTypeOK
  <2> QED
    BY <2>5, <2>6 DEF TraceInv
<1>4. ASSUME NEW l \in Loggers, WriteCall(l) PROVE TraceInv'
  <2> DEFINE line == [type |-> "call", about |-> request[l]]
  <2>1. line \in Line /\ line.about = request[l]
    BY DEF TraceTypeOK, Line
  <2>2. file' = Append(file, line) /\ file \in Seq(Line)
    BY <1>4 DEF WriteCall, PutLine, TraceInv, LoggerInv, TraceTypeOK
  <2> HIDE DEF line
  <2>3. /\ \A i \in 1..(Len(file) + 1) : DefinedBefore(i)' = DefinedBefore(i)
        /\ Defined \subseteq Defined'
    BY <2>1, <2>2, AppendLine
  <2>4. request[l] \subseteq Defined
    BY <1>4 DEF WriteCall, LoggerInv, TraceInv
  <2>5. CallsCanBeRestored'
    BY <2>1, <2>2, <2>3, <2>4 DEF CallsCanBeRestored, Defined, TraceInv
  <2>6. ASSUME NEW m \in Loggers PROVE LoggerInv(m)'
    BY <1>4, <2>3, <2>4 DEF WriteCall, Becomes, LoggerInv, TraceInv, TraceTypeOK
  <2> QED
    BY <2>5, <2>6 DEF TraceInv
<1>5. CASE RemoveSession
  BY <1>5 DEF RemoveSession, TraceTypeOK
<1>6. CASE Restart
  <2>1. ASSUME NEW m \in Loggers PROVE LoggerInv(m)'
    BY <1>6 DEF Restart, LoggerInv, TraceInv
  <2>2. CallsCanBeRestored'
    <3>1. CASE file' = file
      BY <3>1 DEF CallsCanBeRestored, DefinedBefore, TraceInv
    <3>2. CASE file' = <<>>
      BY <3>2 DEF CallsCanBeRestored
    <3> QED
      BY <1>6, <3>1, <3>2 DEF Restart
  <2> QED
    BY <2>1, <2>2 DEF TraceInv
<1> QED
  BY <1>1, <1>2, <1>3, <1>4, <1>5, <1>6 DEF TraceNext, LoggerStep

\* Type correctness: the trace and the loggers keep their types, with any
\* number of calls, cleanups and restarts.
THEOREM TraceTypeCorrect == TraceSpec => []TraceTypeOK
<1>1. TraceInit => TraceTypeOK
  BY TraceInitInv DEF TraceInv
<1> QED
  BY <1>1, TraceTypeStep, PTL DEF TraceSpec

\* As long as no session directory is removed under a process that lives on,
\* every call can be restored: loggers may interleave, writes may fail and
\* processes may end at any point.
THEOREM RestoredUnlessRemoved ==
  ASSUME MaxRemovals = 0 PROVE TraceSpec => []CallsCanBeRestored
<1>1. TraceInv /\ [TraceNext]_traceVars => TraceInv'
  BY InvStep
<1>2. TraceInv => CallsCanBeRestored
  BY DEF TraceInv
<1> QED
  BY TraceInitInv, <1>1, <1>2, PTL DEF TraceSpec

------------------------------------------------------------------------------
(* CliAgent: what is started is closed, and the recorded cost.              *)

\* Where the agent's thread is once it has announced its end.
Closing == {"testCli", "closeCli", "dropCli", "testProxy", "closeProxy", "dropProxy",
            "drain", "drainJoin", "coordinator", "stop", "stopJoin", "dead"}

\* Where the agent's thread has the program, and where its proxy may be ready.
Built == {"spawnCli", "communicate", "testCliAfter", "closeCliAfter"}
Ready == {"buildCli", "dropCliAfter", "closeProxyAfter"} \cup Built

\* The program runs while the agent's thread waits for it.  Until the session ends
\* nobody else drops the program, so that the agent's thread gets to the proxy, and
\* whoever finds the coordinator closed finds that thread past it.
AgentInv ==
  /\ cli = "up" => pc["agent"] = "communicate"
  /\ pc["session"] \in {"run", "step"} <=> ended = "no"
  /\ ended = "no" => /\ closed => pc["agent"] \in Closing
                     /\ pc["agent"] \in Built => cliRef
                     /\ proxy = "ready" => pc["agent"] \in Ready
  /\ ended = "agent" => pc["agent"] \in Closing /\ proxy # "ready" /\ cost = rows

\* Where the agent's thread has the proxy in a local variable.
Holding == {"spawnProxy", "waitProxy", "buildCli", "spawnCli", "communicate",
            "testCliAfter", "closeCliAfter", "dropCliAfter", "closeProxyAfter"}

\* Where the session's thread has not dropped the proxy.
BeforeDrop == {"run", "step", "testCli", "closeCli", "dropCli", "testProxy", "closeProxy",
               "dropProxy"}

Alive         == proxy \in {"up", "ready"}
SessionCloses == proxyRef /\ pc["session"] \in {"testProxy", "closeProxy"}

\* Some thread will close a proxy that is alive: the agent's, or, if that finds
\* the program dropped by the session's, the session's.
ProxyInv ==
  /\ pc["agent"] \in Holding /\ pc["session"] \in BeforeDrop => proxyRef
  /\ pc["agent"] \in Built /\ ~cliRef /\ Alive => SessionCloses
  /\ pc["agent"] \in {"dropProxy", "dropProxyAfter"} => ~Alive
  /\ Alive => unready \/ pc["agent"] \in Holding \/ SessionCloses

\* Where the server is known to have been built, and where it has been told to end.
Serving == {"makeProxy", "dropProxyAfter", "drainAfter", "drainJoinAfter", "exit"} \cup Holding
Ending  == {"exitJoin", "finish"} \cup Closing

ServerInv ==
  /\ pc["agent"] = "start" => server = "none"
  /\ ~unready => /\ pc["agent"] = "waitServer" => serverRef
                 /\ pc["agent"] \in Serving => serverRef /\ server \in {"serving", "ended"}
                 /\ pc["agent"] \in Ending => server = "none" \/ shouldExit

CliInv == TypeOK /\ AgentInv /\ ProxyInv /\ ServerInv

\* The invariant holds before anything is started.
LEMMA CliInitInv == Init => CliInv
<1> SUFFICES ASSUME Init PROVE CliInv
  OBVIOUS
<1>1. TypeOK
  <2>1. 0 \in 0..MaxCalls /\ 0 \in 0..MaxModelCalls /\ 0 \in 0..0
    BY CallsAssumption
  <2>2. pc \in [Threads -> Places]
    BY DEF Init, Threads, Places
  <2> QED
    BY <2>1, <2>2 DEF Init, TypeOK
<1>2. AgentInv
  BY DEF Init, AgentInv, Built, Ready
<1>3. ProxyInv
  BY DEF Init, ProxyInv, Holding, Built, Alive
<1>4. ServerInv
  BY DEF Init, ServerInv, Serving, Ending, Holding, Closing
<1> QED
  BY <1>1, <1>2, <1>3, <1>4 DEF CliInv

\* Every step of the two threads, the server and the program keeps the types.
LEMMA CliTypeStep == TypeOK /\ [Next]_vars => TypeOK'
<1> SUFFICES ASSUME TypeOK, [Next]_vars PROVE TypeOK'
  OBVIOUS
<1> USE CallsAssumption DEF TypeOK, GoTo, Threads, refs, procs, tools, trace, notes, end, Places
<1>1. ASSUME NEW t \in Threads, TestCli(t) PROVE TypeOK'
  BY <1>1 DEF TestCli
<1>2. ASSUME NEW t \in Threads, CloseCli(t) PROVE TypeOK'
  BY <1>2 DEF CloseCli, Kill, OutOfClose
<1>3. ASSUME NEW t \in Threads, DropCli(t) PROVE TypeOK'
  <2>1. cliRef' \in BOOLEAN
    BY <1>3, Zenon DEF DropCli
  <2>2. pc' \in [Threads -> Places]
    BY <1>3 DEF DropCli
  <2> QED
    BY <1>3, <2>1, <2>2 DEF DropCli
<1>4. ASSUME NEW t \in Threads, TestProxy(t) PROVE TypeOK'
  BY <1>4 DEF TestProxy
<1>5. ASSUME NEW t \in Threads, CloseProxy(t) PROVE TypeOK'
  BY <1>5 DEF CloseProxy, Kill, OutOfClose
<1>6. ASSUME NEW t \in Threads, DropProxy(t) PROVE TypeOK'
  <2>1. proxyRef' \in BOOLEAN
    BY <1>6, Zenon DEF DropProxy
  <2>2. pc' \in [Threads -> Places]
    BY <1>6 DEF DropProxy
  <2> QED
    BY <1>6, <2>1, <2>2 DEF DropProxy
<1>7. ASSUME NEW t \in Threads, Drain(t) PROVE TypeOK'
  BY <1>7 DEF Drain, TellServer
<1>8. ASSUME NEW t \in Threads, DrainJoin(t) PROVE TypeOK'
  BY <1>8 DEF DrainJoin, JoinOrTimeout
<1>9. ASSUME NEW t \in Threads, CloseCoordinator(t) PROVE TypeOK'
  BY <1>9 DEF CloseCoordinator
<1>10. ASSUME NEW t \in Threads, Stop(t) PROVE TypeOK'
  BY <1>10 DEF Stop, TellServer, OutOfClose
<1>11. ASSUME NEW t \in Threads, StopJoin(t) PROVE TypeOK'
  BY <1>11 DEF StopJoin, JoinOrTimeout, OutOfClose
<1>12. CASE JoinAgent
  BY <1>12 DEF JoinAgent
<1>13. CASE AnswerCall
  BY <1>13 DEF AnswerCall
<1>14. CASE EndsAtCall
  BY <1>14 DEF EndsAtCall, EndSession
<1>15. CASE EndsAtAgent
  BY <1>15 DEF EndsAtAgent, EndSession
<1>16. CASE Interrupted
  BY <1>16 DEF Interrupted, EndSession
<1>17. CASE StartServer
  BY <1>17 DEF StartServer
<1>18. CASE ServerReady
  BY <1>18 DEF ServerReady
<1>19. CASE MakeProxy
  BY <1>19 DEF MakeProxy
<1>20. CASE SpawnProxy
  BY <1>20 DEF SpawnProxy
<1>21. CASE ProxyReady
  BY <1>21 DEF ProxyReady
<1>22. CASE BuildCli
  BY <1>22 DEF BuildCli
<1>23. CASE SpawnCli
  <2>1. failed' \in BOOLEAN
    BY <1>23, Zenon DEF SpawnCli
  <2>2. pc' \in [Threads -> Places]
    BY <1>23 DEF SpawnCli
  <2> QED
    BY <1>23, <2>1, <2>2 DEF SpawnCli
<1>24. CASE Communicate
  BY <1>24 DEF Communicate
<1>25. CASE TestCliAfter
  BY <1>25 DEF TestCliAfter
<1>26. CASE CloseCliAfter
  <2>1. failed' \in BOOLEAN
    BY <1>26, Zenon DEF CloseCliAfter, Kill
  <2>2. pc' \in [Threads -> Places]
    BY <1>26 DEF CloseCliAfter, Kill
  <2> QED
    BY <1>26, <2>1, <2>2 DEF CloseCliAfter, Kill
<1>27. CASE DropCliAfter
  <2>1. cliRef' \in BOOLEAN
    BY <1>27, Zenon DEF DropCliAfter
  <2>2. pc' \in [Threads -> Places]
    BY <1>27 DEF DropCliAfter
  <2> QED
    BY <1>27, <2>1, <2>2 DEF DropCliAfter
<1>28. CASE CloseProxyAfter
  BY <1>28 DEF CloseProxyAfter, Kill
<1>29. CASE DropProxyAfter
  <2>1. proxyRef' \in BOOLEAN
    BY <1>29, Zenon DEF DropProxyAfter
  <2>2. pc' \in [Threads -> Places]
    BY <1>29 DEF DropProxyAfter
  <2> QED
    BY <1>29, <2>1, <2>2 DEF DropProxyAfter
<1>30. CASE DrainAfter
  BY <1>30 DEF DrainAfter, TellServer
<1>31. CASE DrainJoinAfter
  BY <1>31 DEF DrainJoinAfter, JoinOrTimeout
<1>32. CASE ExitServer
  BY <1>32 DEF ExitServer, TellServer
<1>33. CASE ExitJoin
  BY <1>33 DEF ExitJoin
<1>34. CASE Finish
  BY <1>34 DEF Finish
<1>35. CASE SetupFails
  BY <1>35 DEF SetupFails
<1>36. CASE ServerUnready
  BY <1>36 DEF ServerUnready
<1>37. CASE ProxyUnready
  BY <1>37 DEF ProxyUnready
<1>38. CASE ServerBuilt
  BY <1>38 DEF ServerBuilt
<1>39. CASE ServerExits
  BY <1>39 DEF ServerExits
<1>40. CASE CallAborted
  BY <1>40 DEF CallAborted
<1>41. CASE ModelCall
  BY <1>41 DEF ModelCall
<1>42. CASE ToolCall
  BY <1>42 DEF ToolCall
<1>43. CASE CliEnds
  BY <1>43 DEF CliEnds
<1>44. CASE ProxyDies
  BY <1>44 DEF ProxyDies
<1>45. CASE UNCHANGED vars
  BY <1>45 DEF vars
<1>48. CASE TakesAction
  BY <1>48 DEF TakesAction
<1>49. CASE ReactRaises
  BY <1>49 DEF ReactRaises, EndSession
<1>50. CASE WriteRow
  BY <1>50 DEF WriteRow
<1>46. ASSUME NEW t \in Threads, CloseStep(t) PROVE TypeOK'
    BY ONLY <1>1, <1>2, <1>3, <1>4, <1>5, <1>6, <1>7, <1>8, <1>9, <1>10, <1>11,
     <1>46 DEF CloseStep
<1>47. CASE AgentStep
    BY ONLY <1>12, <1>13, <1>14, <1>15, <1>16, <1>17, <1>18, <1>19, <1>20, <1>21,
     <1>22, <1>23, <1>24, <1>25, <1>26, <1>27, <1>28, <1>29, <1>30, <1>31, <1>32,
     <1>33, <1>34, <1>35, <1>36, <1>37, <1>38, <1>39, <1>40, <1>41, <1>42, <1>43,
     <1>44, <1>46, <1>47 DEF AgentStep, Threads
<1> QED
    BY ONLY <1>12, <1>13, <1>14, <1>15, <1>16, <1>17, <1>18, <1>19, <1>20, <1>21,
     <1>22, <1>23, <1>24, <1>25, <1>26, <1>27, <1>28, <1>29, <1>30, <1>31, <1>32,
     <1>33, <1>34, <1>35, <1>36, <1>37, <1>38, <1>39, <1>40, <1>41, <1>42, <1>43,
     <1>44, <1>45, <1>46, <1>47, <1>48, <1>49, <1>50, [Next]_vars DEF Next, Terminated, Threads

\* Every step keeps AgentInv.
LEMMA AgentStepInv == TypeOK /\ AgentInv /\ [Next]_vars => AgentInv'
<1> SUFFICES ASSUME TypeOK, AgentInv, [Next]_vars PROVE AgentInv'
  OBVIOUS
<1> USE DEF TypeOK, GoTo, Threads, refs, procs, tools, trace, notes, end,
           AgentInv, Closing, Built, Ready
<1>1. ASSUME NEW t \in Threads, TestCli(t) PROVE AgentInv'
  BY <1>1 DEF TestCli
<1>2. ASSUME NEW t \in Threads, CloseCli(t) PROVE AgentInv'
  BY <1>2 DEF CloseCli, Kill, OutOfClose
<1>3. ASSUME NEW t \in Threads, DropCli(t) PROVE AgentInv'
  BY <1>3 DEF DropCli
<1>4. ASSUME NEW t \in Threads, TestProxy(t) PROVE AgentInv'
  BY <1>4 DEF TestProxy
<1>5. ASSUME NEW t \in Threads, CloseProxy(t) PROVE AgentInv'
  BY <1>5 DEF CloseProxy, Kill, OutOfClose
<1>6. ASSUME NEW t \in Threads, DropProxy(t) PROVE AgentInv'
  BY <1>6 DEF DropProxy
<1>7. ASSUME NEW t \in Threads, Drain(t) PROVE AgentInv'
  BY <1>7 DEF Drain, TellServer
<1>8. ASSUME NEW t \in Threads, DrainJoin(t) PROVE AgentInv'
  BY <1>8 DEF DrainJoin, JoinOrTimeout
<1>9. ASSUME NEW t \in Threads, CloseCoordinator(t) PROVE AgentInv'
  BY <1>9 DEF CloseCoordinator
<1>10. ASSUME NEW t \in Threads, Stop(t) PROVE AgentInv'
  BY <1>10 DEF Stop, TellServer, OutOfClose
<1>11. ASSUME NEW t \in Threads, StopJoin(t) PROVE AgentInv'
  BY <1>11 DEF StopJoin, JoinOrTimeout, OutOfClose
<1>12. CASE JoinAgent
  BY <1>12 DEF JoinAgent
<1>13. CASE AnswerCall
  BY <1>13 DEF AnswerCall
<1>14. CASE EndsAtCall
  BY <1>14 DEF EndsAtCall, EndSession
<1>15. CASE EndsAtAgent
  BY <1>15 DEF EndsAtAgent, EndSession
<1>16. CASE Interrupted
  BY <1>16 DEF Interrupted, EndSession
<1>17. CASE StartServer
  BY <1>17 DEF StartServer
<1>18. CASE ServerReady
  BY <1>18 DEF ServerReady
<1>19. CASE MakeProxy
  BY <1>19 DEF MakeProxy
<1>20. CASE SpawnProxy
  BY <1>20 DEF SpawnProxy
<1>21. CASE ProxyReady
  BY <1>21 DEF ProxyReady
<1>22. CASE BuildCli
  BY <1>22 DEF BuildCli
<1>23. CASE SpawnCli
  BY <1>23 DEF SpawnCli
<1>24. CASE Communicate
  BY <1>24 DEF Communicate
<1>25. CASE TestCliAfter
  BY <1>25 DEF TestCliAfter
<1>26. CASE CloseCliAfter
  BY <1>26 DEF CloseCliAfter, Kill
<1>27. CASE DropCliAfter
  BY <1>27 DEF DropCliAfter
<1>28. CASE CloseProxyAfter
  BY <1>28 DEF CloseProxyAfter, Kill
<1>29. CASE DropProxyAfter
  BY <1>29 DEF DropProxyAfter
<1>30. CASE DrainAfter
  BY <1>30 DEF DrainAfter, TellServer
<1>31. CASE DrainJoinAfter
  BY <1>31 DEF DrainJoinAfter, JoinOrTimeout
<1>32. CASE ExitServer
  BY <1>32 DEF ExitServer, TellServer
<1>33. CASE ExitJoin
  BY <1>33 DEF ExitJoin
<1>34. CASE Finish
  BY <1>34 DEF Finish
<1>35. CASE SetupFails
  BY <1>35 DEF SetupFails
<1>36. CASE ServerUnready
  BY <1>36 DEF ServerUnready
<1>37. CASE ProxyUnready
  BY <1>37 DEF ProxyUnready
<1>38. CASE ServerBuilt
  BY <1>38 DEF ServerBuilt
<1>39. CASE ServerExits
  BY <1>39 DEF ServerExits
<1>40. CASE CallAborted
  BY <1>40 DEF CallAborted
<1>41. CASE ModelCall
  BY <1>41 DEF ModelCall
<1>42. CASE ToolCall
  BY <1>42 DEF ToolCall
<1>43. CASE CliEnds
  BY <1>43 DEF CliEnds
<1>44. CASE ProxyDies
  BY <1>44 DEF ProxyDies
<1>45. CASE UNCHANGED vars
  BY <1>45 DEF vars
<1>48. CASE TakesAction
  BY <1>48 DEF TakesAction
<1>49. CASE ReactRaises
  BY <1>49 DEF ReactRaises, EndSession
<1>50. CASE WriteRow
  BY <1>50 DEF WriteRow
<1>46. ASSUME NEW t \in Threads, CloseStep(t) PROVE AgentInv'
    BY ONLY <1>1, <1>2, <1>3, <1>4, <1>5, <1>6, <1>7, <1>8, <1>9, <1>10, <1>11,
     <1>46 DEF CloseStep
<1>47. CASE AgentStep
    BY ONLY <1>12, <1>13, <1>14, <1>15, <1>16, <1>17, <1>18, <1>19, <1>20, <1>21,
     <1>22, <1>23, <1>24, <1>25, <1>26, <1>27, <1>28, <1>29, <1>30, <1>31, <1>32,
     <1>33, <1>34, <1>35, <1>36, <1>37, <1>38, <1>39, <1>40, <1>41, <1>42, <1>43,
     <1>44, <1>46, <1>47 DEF AgentStep, Threads
<1> QED
    BY ONLY <1>12, <1>13, <1>14, <1>15, <1>16, <1>17, <1>18, <1>19, <1>20, <1>21,
     <1>22, <1>23, <1>24, <1>25, <1>26, <1>27, <1>28, <1>29, <1>30, <1>31, <1>32,
     <1>33, <1>34, <1>35, <1>36, <1>37, <1>38, <1>39, <1>40, <1>41, <1>42, <1>43,
     <1>44, <1>45, <1>46, <1>47, <1>48, <1>49, <1>50, [Next]_vars DEF Next, Terminated, Threads

\* Every step keeps ProxyInv: the two threads may both be in close().
LEMMA ProxyStepInv == TypeOK /\ ProxyInv /\ [Next]_vars => ProxyInv'
<1> SUFFICES ASSUME TypeOK, ProxyInv, [Next]_vars PROVE ProxyInv'
  OBVIOUS
<1> USE DEF TypeOK, GoTo, Threads, refs, procs, tools, trace, notes, end,
           ProxyInv, Holding, Built, BeforeDrop, Alive, SessionCloses
<1>1. ASSUME NEW t \in Threads, TestCli(t) PROVE ProxyInv'
  BY <1>1 DEF TestCli
<1>2. ASSUME NEW t \in Threads, CloseCli(t) PROVE ProxyInv'
  BY <1>2 DEF CloseCli, Kill, OutOfClose
<1>3. ASSUME NEW t \in Threads, DropCli(t) PROVE ProxyInv'
  BY <1>3 DEF DropCli
<1>4. ASSUME NEW t \in Threads, TestProxy(t) PROVE ProxyInv'
  BY <1>4 DEF TestProxy
<1>5. ASSUME NEW t \in Threads, CloseProxy(t) PROVE ProxyInv'
  BY <1>5 DEF CloseProxy, Kill, OutOfClose
<1>6. ASSUME NEW t \in Threads, DropProxy(t) PROVE ProxyInv'
  BY <1>6 DEF DropProxy
<1>7. ASSUME NEW t \in Threads, Drain(t) PROVE ProxyInv'
  BY <1>7 DEF Drain, TellServer
<1>8. ASSUME NEW t \in Threads, DrainJoin(t) PROVE ProxyInv'
  BY <1>8 DEF DrainJoin, JoinOrTimeout
<1>9. ASSUME NEW t \in Threads, CloseCoordinator(t) PROVE ProxyInv'
  BY <1>9 DEF CloseCoordinator
<1>10. ASSUME NEW t \in Threads, Stop(t) PROVE ProxyInv'
  BY <1>10 DEF Stop, TellServer, OutOfClose
<1>11. ASSUME NEW t \in Threads, StopJoin(t) PROVE ProxyInv'
  BY <1>11 DEF StopJoin, JoinOrTimeout, OutOfClose
<1>12. CASE JoinAgent
  BY <1>12 DEF JoinAgent
<1>13. CASE AnswerCall
  BY <1>13 DEF AnswerCall
<1>14. CASE EndsAtCall
  BY <1>14 DEF EndsAtCall, EndSession
<1>15. CASE EndsAtAgent
  BY <1>15 DEF EndsAtAgent, EndSession
<1>16. CASE Interrupted
  BY <1>16 DEF Interrupted, EndSession
<1>17. CASE StartServer
  BY <1>17 DEF StartServer
<1>18. CASE ServerReady
  BY <1>18 DEF ServerReady
<1>19. CASE MakeProxy
  BY <1>19 DEF MakeProxy
<1>20. CASE SpawnProxy
  BY <1>20 DEF SpawnProxy
<1>21. CASE ProxyReady
  BY <1>21 DEF ProxyReady
<1>22. CASE BuildCli
  BY <1>22 DEF BuildCli
<1>23. CASE SpawnCli
  BY <1>23 DEF SpawnCli
<1>24. CASE Communicate
  BY <1>24 DEF Communicate
<1>25. CASE TestCliAfter
  BY <1>25 DEF TestCliAfter
<1>26. CASE CloseCliAfter
  BY <1>26 DEF CloseCliAfter, Kill
<1>27. CASE DropCliAfter
  BY <1>27 DEF DropCliAfter
<1>28. CASE CloseProxyAfter
  BY <1>28 DEF CloseProxyAfter, Kill
<1>29. CASE DropProxyAfter
  BY <1>29 DEF DropProxyAfter
<1>30. CASE DrainAfter
  BY <1>30 DEF DrainAfter, TellServer
<1>31. CASE DrainJoinAfter
  BY <1>31 DEF DrainJoinAfter, JoinOrTimeout
<1>32. CASE ExitServer
  BY <1>32 DEF ExitServer, TellServer
<1>33. CASE ExitJoin
  BY <1>33 DEF ExitJoin
<1>34. CASE Finish
  BY <1>34 DEF Finish
<1>35. CASE SetupFails
  BY <1>35 DEF SetupFails
<1>36. CASE ServerUnready
  BY <1>36 DEF ServerUnready
<1>37. CASE ProxyUnready
  BY <1>37 DEF ProxyUnready
<1>38. CASE ServerBuilt
  BY <1>38 DEF ServerBuilt
<1>39. CASE ServerExits
  BY <1>39 DEF ServerExits
<1>40. CASE CallAborted
  BY <1>40 DEF CallAborted
<1>41. CASE ModelCall
  BY <1>41 DEF ModelCall
<1>42. CASE ToolCall
  BY <1>42 DEF ToolCall
<1>43. CASE CliEnds
  BY <1>43 DEF CliEnds
<1>44. CASE ProxyDies
  BY <1>44 DEF ProxyDies
<1>45. CASE UNCHANGED vars
  BY <1>45 DEF vars
<1>48. CASE TakesAction
  BY <1>48 DEF TakesAction
<1>49. CASE ReactRaises
  BY <1>49 DEF ReactRaises, EndSession
<1>50. CASE WriteRow
  BY <1>50 DEF WriteRow
<1>46. ASSUME NEW t \in Threads, CloseStep(t) PROVE ProxyInv'
    BY ONLY <1>1, <1>2, <1>3, <1>4, <1>5, <1>6, <1>7, <1>8, <1>9, <1>10, <1>11,
     <1>46 DEF CloseStep
<1>47. CASE AgentStep
    BY ONLY <1>12, <1>13, <1>14, <1>15, <1>16, <1>17, <1>18, <1>19, <1>20, <1>21,
     <1>22, <1>23, <1>24, <1>25, <1>26, <1>27, <1>28, <1>29, <1>30, <1>31, <1>32,
     <1>33, <1>34, <1>35, <1>36, <1>37, <1>38, <1>39, <1>40, <1>41, <1>42, <1>43,
     <1>44, <1>46, <1>47 DEF AgentStep, Threads
<1> QED
    BY ONLY <1>12, <1>13, <1>14, <1>15, <1>16, <1>17, <1>18, <1>19, <1>20, <1>21,
     <1>22, <1>23, <1>24, <1>25, <1>26, <1>27, <1>28, <1>29, <1>30, <1>31, <1>32,
     <1>33, <1>34, <1>35, <1>36, <1>37, <1>38, <1>39, <1>40, <1>41, <1>42, <1>43,
     <1>44, <1>45, <1>46, <1>47, <1>48, <1>49, <1>50, [Next]_vars DEF Next, Terminated, Threads

\* Every step keeps ServerInv.
LEMMA ServerStepInv == TypeOK /\ ServerInv /\ [Next]_vars => ServerInv'
<1> SUFFICES ASSUME TypeOK, ServerInv, [Next]_vars PROVE ServerInv'
  OBVIOUS
<1> USE DEF TypeOK, GoTo, Threads, refs, procs, tools, trace, notes, end,
           ServerInv, Serving, Ending, Holding, Closing
<1>1. ASSUME NEW t \in Threads, TestCli(t) PROVE ServerInv'
  BY <1>1 DEF TestCli
<1>2. ASSUME NEW t \in Threads, CloseCli(t) PROVE ServerInv'
  BY <1>2 DEF CloseCli, Kill, OutOfClose
<1>3. ASSUME NEW t \in Threads, DropCli(t) PROVE ServerInv'
  BY <1>3 DEF DropCli
<1>4. ASSUME NEW t \in Threads, TestProxy(t) PROVE ServerInv'
  BY <1>4 DEF TestProxy
<1>5. ASSUME NEW t \in Threads, CloseProxy(t) PROVE ServerInv'
  BY <1>5 DEF CloseProxy, Kill, OutOfClose
<1>6. ASSUME NEW t \in Threads, DropProxy(t) PROVE ServerInv'
  BY <1>6 DEF DropProxy
<1>7. ASSUME NEW t \in Threads, Drain(t) PROVE ServerInv'
  BY <1>7 DEF Drain, TellServer
<1>8. ASSUME NEW t \in Threads, DrainJoin(t) PROVE ServerInv'
  BY <1>8 DEF DrainJoin, JoinOrTimeout
<1>9. ASSUME NEW t \in Threads, CloseCoordinator(t) PROVE ServerInv'
  BY <1>9 DEF CloseCoordinator
<1>10. ASSUME NEW t \in Threads, Stop(t) PROVE ServerInv'
  BY <1>10 DEF Stop, TellServer, OutOfClose
<1>11. ASSUME NEW t \in Threads, StopJoin(t) PROVE ServerInv'
  BY <1>11 DEF StopJoin, JoinOrTimeout, OutOfClose
<1>12. CASE JoinAgent
  BY <1>12 DEF JoinAgent
<1>13. CASE AnswerCall
  BY <1>13 DEF AnswerCall
<1>14. CASE EndsAtCall
  BY <1>14 DEF EndsAtCall, EndSession
<1>15. CASE EndsAtAgent
  BY <1>15 DEF EndsAtAgent, EndSession
<1>16. CASE Interrupted
  BY <1>16 DEF Interrupted, EndSession
<1>17. CASE StartServer
  BY <1>17 DEF StartServer
<1>18. CASE ServerReady
  BY <1>18 DEF ServerReady
<1>19. CASE MakeProxy
  BY <1>19 DEF MakeProxy
<1>20. CASE SpawnProxy
  BY <1>20 DEF SpawnProxy
<1>21. CASE ProxyReady
  BY <1>21 DEF ProxyReady
<1>22. CASE BuildCli
  BY <1>22 DEF BuildCli
<1>23. CASE SpawnCli
  BY <1>23 DEF SpawnCli
<1>24. CASE Communicate
  BY <1>24 DEF Communicate
<1>25. CASE TestCliAfter
  BY <1>25 DEF TestCliAfter
<1>26. CASE CloseCliAfter
  BY <1>26 DEF CloseCliAfter, Kill
<1>27. CASE DropCliAfter
  BY <1>27 DEF DropCliAfter
<1>28. CASE CloseProxyAfter
  BY <1>28 DEF CloseProxyAfter, Kill
<1>29. CASE DropProxyAfter
  BY <1>29 DEF DropProxyAfter
<1>30. CASE DrainAfter
  BY <1>30 DEF DrainAfter, TellServer
<1>31. CASE DrainJoinAfter
  BY <1>31 DEF DrainJoinAfter, JoinOrTimeout
<1>32. CASE ExitServer
  BY <1>32 DEF ExitServer, TellServer
<1>33. CASE ExitJoin
  BY <1>33 DEF ExitJoin
<1>34. CASE Finish
  BY <1>34 DEF Finish
<1>35. CASE SetupFails
  BY <1>35 DEF SetupFails
<1>36. CASE ServerUnready
  BY <1>36 DEF ServerUnready
<1>37. CASE ProxyUnready
  BY <1>37 DEF ProxyUnready
<1>38. CASE ServerBuilt
  BY <1>38 DEF ServerBuilt
<1>39. CASE ServerExits
  BY <1>39 DEF ServerExits
<1>40. CASE CallAborted
  BY <1>40 DEF CallAborted
<1>41. CASE ModelCall
  BY <1>41 DEF ModelCall
<1>42. CASE ToolCall
  BY <1>42 DEF ToolCall
<1>43. CASE CliEnds
  BY <1>43 DEF CliEnds
<1>44. CASE ProxyDies
  BY <1>44 DEF ProxyDies
<1>45. CASE UNCHANGED vars
  BY <1>45 DEF vars
<1>48. CASE TakesAction
  BY <1>48 DEF TakesAction
<1>49. CASE ReactRaises
  BY <1>49 DEF ReactRaises, EndSession
<1>50. CASE WriteRow
  BY <1>50 DEF WriteRow
<1>46. ASSUME NEW t \in Threads, CloseStep(t) PROVE ServerInv'
    BY ONLY <1>1, <1>2, <1>3, <1>4, <1>5, <1>6, <1>7, <1>8, <1>9, <1>10, <1>11,
     <1>46 DEF CloseStep
<1>47. CASE AgentStep
    BY ONLY <1>12, <1>13, <1>14, <1>15, <1>16, <1>17, <1>18, <1>19, <1>20, <1>21,
     <1>22, <1>23, <1>24, <1>25, <1>26, <1>27, <1>28, <1>29, <1>30, <1>31, <1>32,
     <1>33, <1>34, <1>35, <1>36, <1>37, <1>38, <1>39, <1>40, <1>41, <1>42, <1>43,
     <1>44, <1>46, <1>47 DEF AgentStep, Threads
<1> QED
    BY ONLY <1>12, <1>13, <1>14, <1>15, <1>16, <1>17, <1>18, <1>19, <1>20, <1>21,
     <1>22, <1>23, <1>24, <1>25, <1>26, <1>27, <1>28, <1>29, <1>30, <1>31, <1>32,
     <1>33, <1>34, <1>35, <1>36, <1>37, <1>38, <1>39, <1>40, <1>41, <1>42, <1>43,
     <1>44, <1>45, <1>46, <1>47, <1>48, <1>49, <1>50, [Next]_vars DEF Next, Terminated, Threads

\* CliInv is inductive.
LEMMA CliAlways == Spec => []CliInv
<1>1. CliInv /\ [Next]_vars => CliInv'
  BY CliTypeStep, AgentStepInv, ProxyStepInv, ServerStepInv DEF CliInv
<1> QED
  BY <1>1, CliInitInv, PTL DEF Spec

\* The threads, the processes and the counters of a command-line agent keep their
\* types, for any number of tool calls and of model calls.
THEOREM CliTypeCorrect == Spec => []TypeOK
<1>1. CliInv => TypeOK
  BY DEF CliInv
<1> QED
  BY <1>1, CliAlways, PTL

\* However close() of the session's thread, the finally clause and close() of the
\* agent's thread interleave (base.py:226-304), when both threads are through
\* the program has ended, and proxy and server too unless a startup failed.
THEOREM NothingIsLeftRunning == Spec => []NothingLeftRunning
<1>1. CliInv => NothingLeftRunning
  BY DEF CliInv, TypeOK, AgentInv, ProxyInv, ServerInv, Holding, Alive, SessionCloses,
         Ending, Closing, Over, NothingLeftRunning
<1> QED
  BY <1>1, CliAlways, PTL

\* When react() returned None because the agent's thread was through, the recorded
\* cost counts every row that is ever in the trace (results.py:243): only a proxy
\* that is ready writes rows (trace_logger.py:618-636), and as long as no other
\* thread closes the instance the coordinator is closed after the proxy.
THEOREM CostOfAnEndedAgent == Spec => []CostIsFinal
<1>1. CliInv => CostIsFinal
  BY DEF CliInv, AgentInv, CostIsFinal
<1> QED
  BY <1>1, CliAlways, PTL

------------------------------------------------------------------------------
(* Numbers in order: what the observations of the benchmarks are made of.   *)

\* The order of the natural numbers is well founded.
LEMMA LessIsWellFounded == IsWellFoundedOn({ss \in Nat \X Nat : ss[1] < ss[2]}, Nat)
  BY NatLessThanWellFounded DEF OpToRel

\* Every set of natural numbers that is not empty has a least element.
LEMMA LeastElement ==
  ASSUME NEW U \in SUBSET Nat, U # {}
  PROVE  \E x \in U : \A y \in U : x <= y
<1>1. PICK x \in U : \A y \in U : ~ (<<y, x>> \in {ss \in Nat \X Nat : ss[1] < ss[2]})
  BY LessIsWellFounded, WFMin
<1>2. ASSUME NEW y \in U PROVE x <= y
  <2>1. x \in Nat /\ y \in Nat
    OBVIOUS
  <2>2. ~ (y < x)
    BY <1>1, <2>1
  <2> QED
    BY <2>1, <2>2
<1> QED
  BY <1>2

\* Induction, for a set of natural numbers.
LEMMA SetInduction ==
  ASSUME NEW T \in SUBSET Nat, 0 \in T, \A n \in T : n + 1 \in T
  PROVE  T = Nat
<1> SUFFICES ASSUME T # Nat PROVE FALSE
  OBVIOUS
<1>1. PICK x \in Nat \ T : \A y \in Nat \ T : x <= y
  <2>1. Nat \ T \in SUBSET Nat /\ Nat \ T # {}
    OBVIOUS
  <2> QED
    BY <2>1, LeastElement
<1>2. x - 1 \in Nat /\ ~ (x <= x - 1) /\ x - 1 + 1 = x
  OBVIOUS
<1>3. x - 1 \in T
  BY <1>1, <1>2
<1> QED
  BY <1>2, <1>3

IsAscending(s, S) ==
  /\ s \in [1 .. Cardinality(S) -> S]
  /\ \A j, k \in DOMAIN s : j < k => s[j] < s[k]

\* A finite set of numbers can be put in order: its least element comes first.
LEMMA AscendingExists ==
  ASSUME NEW S \in SUBSET Nat, IsFiniteSet(S)
  PROVE  \E s : IsAscending(s, S)
<1> DEFINE T == {n \in Nat : \A R \in SUBSET Nat : IsFiniteSet(R) /\ Cardinality(R) = n
                               => \E s : IsAscending(s, R)}
<1>1. 0 \in T
  <2> SUFFICES ASSUME NEW R \in SUBSET Nat, IsFiniteSet(R), Cardinality(R) = 0
               PROVE  \E s : IsAscending(s, R)
    OBVIOUS
  <2>1. 1 .. 0 = {}
    OBVIOUS
  <2>2. IsAscending([j \in 1 .. 0 |-> 0], R)
    BY <2>1 DEF IsAscending
  <2> QED
    BY <2>2
<1>2. ASSUME NEW n \in T PROVE n + 1 \in T
  <2> SUFFICES ASSUME NEW R \in SUBSET Nat, IsFiniteSet(R), Cardinality(R) = n + 1
               PROVE  \E s : IsAscending(s, R)
    OBVIOUS
  <2>1. R # {}
    BY FS_EmptySet
  <2>2. PICK m \in R : \A y \in R : m <= y
    BY <2>1, LeastElement
  <2>3. IsFiniteSet(R \ {m}) /\ Cardinality(R \ {m}) = n
    <3>1. n \in Nat /\ n + 1 - 1 = n
      OBVIOUS
    <3>2. IsFiniteSet(R \ {m}) /\ Cardinality(R \ {m}) = Cardinality(R) - 1
      BY <2>2, FS_RemoveElement
    <3> QED
      BY ONLY <3>1, <3>2, Cardinality(R) = n + 1
  <2>4. PICK s : IsAscending(s, R \ {m})
    BY <2>3
  <2> DEFINE r == [j \in 1 .. n + 1 |-> IF j = 1 THEN m ELSE s[j - 1]]
  <2>5. s \in [1 .. n -> R \ {m}]
    BY <2>3, <2>4 DEF IsAscending
  <2>6. r \in [1 .. n + 1 -> R]
    BY <2>5
  <2>7. ASSUME NEW j \in 1 .. n + 1, NEW k \in 1 .. n + 1, j < k PROVE r[j] < r[k]
    <3>1. k - 1 \in 1 .. n /\ r[k] = s[k - 1] /\ s[k - 1] \in R \ {m}
      BY <2>5, <2>7
    <3>2. CASE j = 1
      <4>1. m \in Nat /\ s[k - 1] \in Nat /\ s[k - 1] # m /\ m <= s[k - 1]
        BY <3>1, <2>2
      <4>2. r[j] = m
        BY <3>2
      <4> QED
        BY ONLY <3>1, <4>1, <4>2
    <3>3. CASE j # 1
      <4>1. j - 1 \in 1 .. n /\ r[j] = s[j - 1] /\ j - 1 < k - 1
        BY <2>7, <3>3
      <4>2. s[j - 1] < s[k - 1]
        BY <2>4, <2>5, <3>1, <4>1 DEF IsAscending
      <4> QED
        BY <3>1, <4>1, <4>2
    <3> QED
      BY <3>2, <3>3
  <2> HIDE DEF r
  <2>8. IsAscending(r, R)
    BY <2>6, <2>7 DEF IsAscending
  <2> QED
    BY <2>8
<1>3. T = Nat
  <2> HIDE DEF T
  <2>1. T \in SUBSET Nat
    BY DEF T
  <2> QED
    BY <1>1, <1>2, <2>1, SetInduction
<1>4. Cardinality(S) \in T
  BY <1>3, FS_CardinalityType
<1> QED
  BY <1>4

LEMMA AscendingIs ==
  ASSUME NEW S \in SUBSET Nat, IsFiniteSet(S)
  PROVE  IsAscending(Ascending(S), S)
<1>1. \E s \in [1 .. Cardinality(S) -> S] : \A j, k \in DOMAIN s : j < k => s[j] < s[k]
  BY AscendingExists DEF IsAscending
<1> QED
  BY <1>1 DEF IsAscending, Ascending

\* The numbers of a set come once each in it, and no others.
LEMMA TimesInAscending ==
  ASSUME NEW S \in SUBSET Nat, IsFiniteSet(S), NEW i
  PROVE  TimesIn(Ascending(S), i) = IF i \in S THEN 1 ELSE 0
<1> DEFINE s == Ascending(S)
           n == Cardinality(S)
<1>1. n \in Nat /\ s \in [1 .. n -> S] /\ \A j, k \in 1 .. n : j < k => s[j] < s[k]
  BY AscendingIs, FS_CardinalityType DEF IsAscending
<1> HIDE DEF s, n
<1>2. \A j, k \in 1 .. n : s[j] = s[k] => j = k
  <2> SUFFICES ASSUME NEW j \in 1 .. n, NEW k \in 1 .. n, s[j] = s[k], j # k PROVE FALSE
    OBVIOUS
  <2>1. s[j] \in Nat /\ s[k] \in Nat
    BY <1>1
  <2>2. j < k \/ k < j
    BY <1>1
  <2> QED
    BY <1>1, <2>1, <2>2
<1>3. s \in Injection(1 .. n, S)
  BY <1>1, <1>2 DEF Injection, IsInjective
<1>4. IsFiniteSet(1 .. n) /\ Cardinality(1 .. n) = n
  BY <1>1, FS_Interval
<1>5. s \in Surjection(1 .. n, S)
  BY <1>3, <1>4, FS_Injection DEF n
<1>6. CASE i \in S
  <2>1. PICK j \in 1 .. n : s[j] = i
    BY <1>5, <1>6 DEF Surjection
  <2>2. {k \in DOMAIN s : s[k] = i} = {j}
    BY <1>1, <1>2, <2>1
  <2> QED
    BY <1>6, <2>2, FS_Singleton DEF TimesIn, s
<1>7. CASE i \notin S
  <2>1. {k \in DOMAIN s : s[k] = i} = {}
    BY <1>1, <1>7
  <2> QED
    BY <1>7, <2>1, FS_EmptySet DEF TimesIn, s
<1> QED
  BY <1>6, <1>7

\* A concatenation answers what its parts answer.
LEMMA TimesInConcat ==
  ASSUME NEW s \in Seq(Nat), NEW t \in Seq(Nat), NEW i
  PROVE  TimesIn(s \o t, i) = TimesIn(s, i) + TimesIn(t, i)
<1> DEFINE A == {j \in DOMAIN s : s[j] = i}
           B == {j \in DOMAIN t : t[j] = i}
           C == {j \in Len(s) + 1 .. Len(s) + Len(t) : t[j - Len(s)] = i}
           f == [j \in B |-> j + Len(s)]
<1>1. DOMAIN s = 1 .. Len(s) /\ DOMAIN t = 1 .. Len(t) /\ Len(s) \in Nat /\ Len(t) \in Nat
  OBVIOUS
<1>2. {j \in DOMAIN (s \o t) : (s \o t)[j] = i} = A \cup C
  OBVIOUS
<1>3. IsFiniteSet(A) /\ IsFiniteSet(B)
  <2>1. IsFiniteSet(1 .. Len(s)) /\ IsFiniteSet(1 .. Len(t))
    BY <1>1, FS_Interval
  <2> QED
    BY <1>1, <2>1, FS_Subset
<1>4. f \in Bijection(B, C)
  <2>1. f \in [B -> C]
    BY <1>1
  <2>2. \A x, y \in B : f[x] = f[y] => x = y
    BY <1>1
  <2>3. ASSUME NEW c \in C PROVE \E x \in B : f[x] = c
    <3>1. c - Len(s) \in B /\ f[c - Len(s)] = c
      BY <1>1
    <3> QED
      BY <3>1
  <2> HIDE DEF f, B, C
  <2> QED
    BY <2>1, <2>2, <2>3 DEF Bijection, Injection, Surjection, IsInjective
<1>5. IsFiniteSet(C) /\ Cardinality(C) = Cardinality(B)
  <2> HIDE DEF f, B, C
  <2> QED
    BY <1>3, <1>4, FS_Bijection DEF ExistsBijection
<1>6. A \cap C = {}
  BY <1>1
<1>7. Cardinality(A \cup C) = Cardinality(A) + Cardinality(C)
  <2> HIDE DEF A, C
  <2>1. Cardinality(A \cup C) = Cardinality(A) + Cardinality(C) - Cardinality(A \cap C)
    BY <1>3, <1>5, FS_Union
  <2>2. Cardinality(A \cap C) = 0
    BY <1>6, FS_EmptySet
  <2>3. Cardinality(A) \in Nat /\ Cardinality(C) \in Nat
    BY <1>3, <1>5, FS_CardinalityType
  <2> QED
    BY <2>1, <2>2, <2>3
<1> HIDE DEF A, B, C
<1>8. TimesIn(s \o t, i) = Cardinality(A \cup C)
  BY <1>2 DEF TimesIn
<1>9. TimesIn(s, i) = Cardinality(A) /\ TimesIn(t, i) = Cardinality(B)
  BY DEF TimesIn, A, B
<1> QED
  BY <1>5, <1>7, <1>8, <1>9

------------------------------------------------------------------------------
(* Dialogue: the invariant.                                                 *)

\* The parts of the state that the scores depend on have their types, and where
\* only a submission ends the session, it is over when there is one.
ScoreTypes ==
  /\ kind \in Kinds /\ over \in BOOLEAN
  /\ answer \in {"none", "right", "wrong", "given"}
  /\ grade \in {"none", "right", "wrong", "failed"}
  /\ at \in {"react", "step", "score", "limit", "close", "closed", "raised"}
  /\ kind \in {"swebench", "appworld", "bfcl"} => (over <=> answer # "none")

\* Nothing is scored or recorded while the loop runs.
Unscored == grade = "none" /\ saved = "none" /\ status = "none" /\ error = "none"

\* What score() may compute now is what was recorded; SWE-bench has written it.
Agrees(g) == Stored(g) = IF success THEN "right" ELSE "wrong"
TwiceJudged == answer # "none" /\ (kind = "browsecomp" \/ (kind = "hle" /\ ~success))

ScoreInv ==
  /\ at \in {"react", "step", "score", "limit"} => Unscored
  /\ at = "close" /\ Recorded /\ ~TwiceJudged =>
       IF kind = "swebench" THEN saved = IF success THEN "right" ELSE "wrong"
       ELSE \A g \in Grades : Agrees(g)

\* How the observation answers a call of the last assistant message.
Fits(last, i) ==
  \/ last.calls[i].name = "message"
  \/ TimesIn(observation, i) = 1
  \/ TimesIn(observation, i) = 0 /\ LeftOpen(last.calls, i)

ChatInv ==
  chat # <<>> =>
    LET last == chat[Len(chat)]
    IN  /\ at \in {"react", "step"} => \A i \in DOMAIN last.calls : last.answers[i] = 0
        /\ at = "step" => last.calls = IF action = Message THEN <<>> ELSE action
        /\ at = "react" /\ ~over => \A i \in DOMAIN last.calls : Fits(last, i)

------------------------------------------------------------------------------
(* Dialogue: what the benchmarks answer.                                    *)

\* A reply is a finite sequence, of validated calls unless it is a message.
LEMMA ReplyIs ==
  ASSUME NEW reply \in Replies
  PROVE  /\ Len(reply) \in Nat /\ DOMAIN reply = 1 .. Len(reply)
         /\ IsFiniteSet(DOMAIN reply) /\ DOMAIN reply \in SUBSET Nat
         /\ reply # Message => reply \in [1 .. Len(reply) -> Calls]
<1>1. CASE reply = Message
  <2>1. Len(reply) = 1 /\ DOMAIN reply = 1 .. 1
    BY <1>1 DEF Message
  <2>2. IsFiniteSet(1 .. 1)
    <3>1. 1 \in Int
      OBVIOUS
    <3> QED
      BY <3>1, FS_Interval
  <2>3. 1 .. 1 \in SUBSET Nat /\ 1 \in Nat
    OBVIOUS
  <2> QED
    BY ONLY <1>1, <2>1, <2>2, <2>3
<1>2. CASE reply # Message
  <2>1. PICK n \in 0 .. MaxReply : reply \in [1 .. n -> Calls]
    <3>1. reply \in UNION {[1 .. n -> Calls] : n \in 0 .. MaxReply}
      BY <1>2 DEF Replies
    <3> QED
      BY ONLY <3>1
  <2>2. n \in Nat /\ Len(reply) = n /\ DOMAIN reply = 1 .. n
    BY <2>1, AgentAssumption
  <2>3. IsFiniteSet(1 .. n)
    BY <2>2, FS_Interval
  <2> QED
    BY <1>2, <2>1, <2>2, <2>3
<1> QED
  BY <1>1, <1>2

\* The numbers of a finite set in order are an observation.
LEMMA AscendingType ==
  ASSUME NEW S \in SUBSET Nat, IsFiniteSet(S)
  PROVE  Ascending(S) \in Seq(Nat)
<1>1. Cardinality(S) \in Nat /\ Ascending(S) \in [1 .. Cardinality(S) -> S]
  BY AscendingIs, FS_CardinalityType DEF IsAscending
<1> DEFINE n == Cardinality(S)
           s == Ascending(S)
<1> HIDE DEF n, s
<1>2. n \in Nat /\ s \in [1 .. n -> Nat]
  BY <1>1 DEF n, s
<1>3. s \in Seq(Nat)
  BY ONLY <1>2
<1> QED
  BY <1>3 DEF s

\* What the session answers, of the single actions of an action.
Settles(dos, i) ==
  \/ dos[i].name = "message"
  \/ TimesIn(observation', i) = 1
  \/ TimesIn(observation', i) = 0 /\ LeftOpen(dos, i)

\* execute(): every single action that has an answer is answered once, and an
\* action without one is left open, or ends the session.
LEMMA MergedSettles ==
  ASSUME NEW dos \in Replies, kind \in Kinds,
         NEW effects \in [DOMAIN dos -> {Told, Silent, Submitted, Completed}],
         Execute(dos, effects)
  PROVE  /\ Merged(effects) \in Seq(Nat)
         /\ dos # Message /\ ~over' /\ observation' = Merged(effects)
              => \A i \in DOMAIN dos : Settles(dos, i)
<1> DEFINE S == {i \in DOMAIN effects : effects[i].answers}
<1>1. S \in SUBSET Nat /\ IsFiniteSet(S)
  <2>1. DOMAIN effects = DOMAIN dos /\ S \in SUBSET DOMAIN dos
    OBVIOUS
  <2> QED
    BY <2>1, ReplyIs, FS_Subset
<1>2. Merged(effects) = Ascending(S)
  BY DEF Merged
<1>3. Merged(effects) \in Seq(Nat)
  BY <1>1, <1>2, AscendingType
<1>4. ASSUME dos # Message, ~over', observation' = Merged(effects), NEW i \in DOMAIN dos
      PROVE  Settles(dos, i)
  <2>1. TimesIn(observation', i) = IF i \in S THEN 1 ELSE 0
    BY <1>1, <1>2, <1>4, TimesInAscending
  <2>2. CASE effects[i].answers
    <3>1. i \in S
      BY <2>2
    <3> QED
      BY <2>1, <3>1 DEF Settles
  <2>3. CASE ~ effects[i].answers
    <3>1. i \notin S
      BY <2>3
    <3>2. ~ effects[i].submits /\ effects[i] \in Effects(dos[i])
      BY <1>4 DEF Execute
    <3>3. effects[i] = Silent
      BY <2>3, <3>2 DEF Told, Silent, Submitted, Completed
    <3>4. dos[i] \in Calls
      BY <1>4, ReplyIs
    <3>5. LeftOpen(dos, i)
      <4>1. kind # "appworld"
        BY <3>2, <3>3 DEF Effects, WorldEffects, Told, Silent, Completed
      <4>2. CASE Runs(dos[i])
        <5>1. effects[i] \in HandlerEffects(dos[i])
          <6>1. Effects(dos[i]) = HandlerEffects(dos[i])
            BY <4>1, <4>2 DEF Effects, Runs
          <6> QED
            BY <3>2, <6>1
        <5>2. dos[i].name = "tool" /\ kind = "hotpotqa"
          BY <3>3, <5>1 DEF HandlerEffects, Told, Silent, Submitted
        <5> QED
          BY <4>2, <5>2 DEF LeftOpen, Runs
      <4>3. CASE ~ Runs(dos[i])
        <5>1. kind = "swebench" /\ dos[i].name \in Handlers
          BY <3>2, <3>3, <4>1, <4>3 DEF Effects, Told, Silent
        <5>2. ~ dos[i].valid
          BY <4>3, <5>1 DEF Runs
        <5> QED
          BY <5>1, <5>2 DEF LeftOpen
      <4> QED
        BY <4>2, <4>3
    <3> QED
      BY <2>1, <3>1, <3>5 DEF Settles
  <2> QED
    BY <2>2, <2>3
<1> QED
  BY <1>3, <1>4

\* The finish actions of an action, and the last of them.
Finishing(dos)  == {i \in DOMAIN dos : IsFinish(dos[i])}
LastFinish(dos) == {i \in Finishing(dos) : \A j \in Finishing(dos) : j <= i}

\* What BFCL answers is an observation.
LEMMA BfclAnswersType ==
  ASSUME NEW dos \in Replies
  PROVE  BfclAnswers(dos) \in Seq(Nat)
<1> DEFINE F == Finishing(dos)
           L == LastFinish(dos)
<1>1. /\ L \in SUBSET DOMAIN dos /\ DOMAIN dos \ F \in SUBSET DOMAIN dos
      /\ DOMAIN dos \in SUBSET Nat /\ IsFiniteSet(DOMAIN dos)
  BY ReplyIs DEF Finishing, LastFinish
<1>2. /\ IsFiniteSet(L) /\ L \in SUBSET Nat
      /\ IsFiniteSet(DOMAIN dos \ F) /\ DOMAIN dos \ F \in SUBSET Nat
  BY <1>1, FS_Subset
<1>3. BfclAnswers(dos) = Ascending(DOMAIN dos \ F) \o Ascending(L)
  BY DEF BfclAnswers, Finishing, LastFinish
<1> HIDE DEF F, L
<1>4. Ascending(DOMAIN dos \ F) \in Seq(Nat) /\ Ascending(L) \in Seq(Nat)
  BY <1>2, AscendingType
<1> QED
  BY <1>3, <1>4

\* BFCL: all but the finish actions are answered once, and the last of those.
LEMMA BfclSettles ==
  ASSUME NEW dos \in Replies, kind = "bfcl", NEW rest \in {None, Text},
         observation' = BfclAnswers(dos) \o rest
  PROVE  /\ observation' \in Seq(Nat)
         /\ \A i \in DOMAIN dos : Settles(dos, i)
<1> DEFINE F == Finishing(dos)
           L == LastFinish(dos)
           N == DOMAIN dos \ F
<1>1. /\ F \in SUBSET DOMAIN dos /\ L \in SUBSET F /\ N \in SUBSET DOMAIN dos
      /\ DOMAIN dos \in SUBSET Nat /\ IsFiniteSet(DOMAIN dos)
  BY ReplyIs DEF Finishing, LastFinish
<1>2. IsFiniteSet(L) /\ IsFiniteSet(N) /\ L \in SUBSET Nat /\ N \in SUBSET Nat
  BY <1>1, FS_Subset
<1>3. BfclAnswers(dos) = Ascending(N) \o Ascending(L)
  BY DEF BfclAnswers, Finishing, LastFinish
<1>4. Ascending(N) \in Seq(Nat) /\ Ascending(L) \in Seq(Nat) /\ rest \in Seq(Nat)
  <2>1. CASE rest = None
    BY <1>2, <2>1, AscendingType DEF None
  <2>2. CASE rest = Text
    BY <1>2, <2>2, AscendingType DEF Text
  <2> QED
    BY <2>1, <2>2
<1> HIDE DEF F, L, N
<1>5. BfclAnswers(dos) \in Seq(Nat) /\ observation' \in Seq(Nat)
  BY <1>3, <1>4
<1>6. ASSUME NEW i \in DOMAIN dos PROVE Settles(dos, i)
  <2>1. i \in Nat \ {0}
    BY ReplyIs
  <2>2. TimesIn(rest, i) = 0
    <3>1. {j \in DOMAIN rest : rest[j] = i} = {}
      BY <2>1 DEF None, Text
    <3> QED
      BY <3>1, FS_EmptySet DEF TimesIn
  <2>3. TimesIn(observation', i) = TimesIn(BfclAnswers(dos), i) + TimesIn(rest, i)
    BY <1>4, <1>5, TimesInConcat
  <2>4. TimesIn(BfclAnswers(dos), i) = TimesIn(Ascending(N), i) + TimesIn(Ascending(L), i)
    BY <1>3, <1>4, TimesInConcat
  <2>5. /\ TimesIn(Ascending(N), i) = IF i \in N THEN 1 ELSE 0
        /\ TimesIn(Ascending(L), i) = IF i \in L THEN 1 ELSE 0
    BY <1>2, TimesInAscending
  <2>6. CASE i \in N
    <3>1. i \notin L
      BY <1>1, <2>6 DEF N
    <3>2. TimesIn(observation', i) = 1
      BY ONLY <2>2, <2>3, <2>4, <2>5, <2>6, <3>1
    <3> QED
      BY <3>2 DEF Settles
  <2>7. CASE i \in L
    <3>1. i \notin N
      BY <1>1, <2>7 DEF N
    <3>2. TimesIn(observation', i) = 1
      BY ONLY <2>2, <2>3, <2>4, <2>5, <2>7, <3>1
    <3> QED
      BY <3>2 DEF Settles
  <2>8. CASE i \notin N /\ i \notin L
    <3>1. TimesIn(observation', i) = 0
      BY ONLY <2>2, <2>3, <2>4, <2>5, <2>8
    <3>2. IsFinish(dos[i]) /\ \E j \in DOMAIN dos : j > i /\ IsFinish(dos[j])
      <4>1. i \in F
        BY <2>8 DEF N
      <4>2. PICK j \in F : ~ (j <= i)
        BY <2>8, <4>1 DEF L, LastFinish, F
      <4>3. j \in Nat /\ j > i /\ j \in DOMAIN dos /\ IsFinish(dos[j])
        BY <1>1, <2>1, <4>2 DEF F, Finishing
      <4> QED
        BY <4>1, <4>3 DEF F, Finishing
    <3> QED
      BY <3>1, <3>2 DEF Settles, LeftOpen
  <2> QED
    BY <2>6, <2>7, <2>8
<1> QED
  BY <1>5, <1>6

\* step() of every benchmark: while the dialogue goes on, what is returned settles
\* the calls it was given.
LEMMA BenchStepSettles ==
  ASSUME NEW dos \in Replies, kind \in Kinds, BenchStep(dos), observation \in Seq(Nat)
  PROVE  /\ observation' \in Seq(Nat)
         /\ dos # Message /\ ~over' /\ observation' # None
              => \A i \in DOMAIN dos : Settles(dos, i)
<1> DEFINE Goal == /\ observation' \in Seq(Nat)
                   /\ dos # Message /\ ~over' /\ observation' # None
                        => \A i \in DOMAIN dos : Settles(dos, i)
<1>0. None \in Seq(Nat) /\ Text \in Seq(Nat)
  BY DEF None, Text
<1>1. ASSUME NEW effects \in [DOMAIN dos -> {Told, Silent, Submitted, Completed}],
             QuestionStep(dos, effects) \/ BrowsecompStep(dos, effects)
      PROVE  Goal
  <2>1. Execute(dos, effects) /\ observation' = Merged(effects)
    BY <1>1 DEF QuestionStep, BrowsecompStep
  <2> QED
    BY <2>1, MergedSettles
<1>2. ASSUME NEW effects \in [DOMAIN dos -> {Told, Silent, Submitted, Completed}],
             CountedStep(dos, effects)
      PROVE  Goal
  <2>1. Execute(dos, effects) /\ (observation' = Merged(effects) \/ observation' = None)
    BY <1>2 DEF CountedStep
  <2> QED
    BY <1>0, <2>1, MergedSettles
<1>3. CASE HleTimesOut
  BY <1>0, <1>3 DEF HleTimesOut
<1>4. CASE BrowsecompIsFull \/ CountedIsFull(dos)
  BY <1>0, <1>4 DEF BrowsecompIsFull, CountedIsFull
<1>5. CASE BfclRecords(dos) \/ BfclCompletes(dos)
  <2>1. kind = "bfcl" /\ observation' = BfclAnswers(dos)
    BY <1>5 DEF BfclRecords, BfclCompletes
  <2>2. BfclAnswers(dos) \in Seq(Nat)
    BY BfclAnswersType
  <2>3. observation' = BfclAnswers(dos) \o None
    BY <2>1, <2>2 DEF None
  <2> QED
    BY <2>1, <2>3, BfclSettles
<1>6. CASE BfclNextTurn(dos)
  <2>1. kind = "bfcl" /\ observation' = BfclAnswers(dos) \o Text
    BY <1>6 DEF BfclNextTurn
  <2> QED
    BY <2>1, BfclSettles
<1> QED
  BY <1>1, <1>2, <1>3, <1>4, <1>5, <1>6 DEF BenchStep

------------------------------------------------------------------------------
(* Dialogue: what the agent makes of the answers.                           *)

\* Replacing an element of a sequence keeps the others.
LEMMA ReplacedIs ==
  ASSUME NEW S, NEW s \in Seq(S), NEW k \in 1 .. Len(s), NEW e \in S
  PROVE  /\ [s EXCEPT ![k] = e] \in Seq(S) /\ Len([s EXCEPT ![k] = e]) = Len(s)
         /\ \A t \in 1 .. Len(s) : [s EXCEPT ![k] = e][t] = IF t = k THEN e ELSE s[t]
<1> DEFINE r == [s EXCEPT ![k] = e]
<1>1. Len(s) \in Nat /\ DOMAIN s = 1 .. Len(s) /\ s \in [1 .. Len(s) -> S]
  OBVIOUS
<1>2. r \in [1 .. Len(s) -> S] /\ \A t \in 1 .. Len(s) : r[t] = IF t = k THEN e ELSE s[t]
  BY <1>1
<1> HIDE DEF r
<1>3. r \in Seq(S) /\ DOMAIN r = 1 .. Len(s)
  BY <1>1, <1>2
<1>4. Len(r) = Len(s)
  BY <1>1, <1>3
<1> QED
  BY <1>2, <1>3, <1>4 DEF r

\* A message is an assistant's calls with a count for each of them.
LEMMA MessageIs ==
  ASSUME NEW m \in Messages
  PROVE  /\ \E n \in Nat : m.calls \in [1 .. n -> Calls] /\ m.answers \in [1 .. n -> Nat]
         /\ DOMAIN m.answers = DOMAIN m.calls
         /\ m = [calls |-> m.calls, answers |-> m.answers]
<1>1. PICK n \in Nat : m \in [calls : [1 .. n -> Calls], answers : [1 .. n -> Nat]]
  BY DEF Messages
<1> QED
  BY <1>1

\* A new message of the assistant is a message.
LEMMA AssistantMessageIs ==
  ASSUME NEW reply \in Replies
  PROVE  AssistantMessage(IF reply = Message THEN <<>> ELSE reply) \in Messages
<1> DEFINE said == IF reply = Message THEN <<>> ELSE reply
<1>1. PICK n \in Nat : said \in [1 .. n -> Calls]
  <2>1. CASE reply = Message
    <3>1. <<>> \in [1 .. 0 -> Calls] /\ 0 \in Nat
      OBVIOUS
    <3> QED
      BY <2>1, <3>1
  <2>2. CASE reply # Message
    BY <2>2, ReplyIs
  <2> QED
    BY <2>1, <2>2
<1> HIDE DEF said
<1>2. DOMAIN said = 1 .. n
  BY <1>1
<1>3. [i \in DOMAIN said |-> 0] \in [1 .. n -> Nat]
  BY <1>2
<1>4. AssistantMessage(said) \in [calls : [1 .. n -> Calls], answers : [1 .. n -> Nat]]
  BY <1>1, <1>3 DEF AssistantMessage
<1>5. AssistantMessage(said) \in Messages
  BY <1>1, <1>4 DEF Messages
<1> QED
  BY <1>5 DEF said

\* How often an observation answers a call is a number.
LEMMA TimesInType ==
  ASSUME NEW seen \in Seq(Nat), NEW i
  PROVE  TimesIn(seen, i) \in Nat
<1> DEFINE S == {j \in DOMAIN seen : seen[j] = i}
<1>1. DOMAIN seen = 1 .. Len(seen) /\ Len(seen) \in Int /\ 1 \in Int
  OBVIOUS
<1>2. IsFiniteSet(DOMAIN seen)
  BY <1>1, FS_Interval
<1>3. IsFiniteSet(S)
  BY <1>2, FS_Subset
<1> HIDE DEF S
<1>4. Cardinality(S) \in Nat
  BY <1>3, FS_CardinalityType
<1> QED
  BY <1>4 DEF TimesIn, S

\* _observe: only the answers of the last message change, by what is seen.
LEMMA ObservedIs ==
  ASSUME chat \in Seq(Messages), NEW seen \in Seq(Nat)
  PROVE  /\ Observed(seen) \in Seq(Messages)
         /\ Len(Observed(seen)) = Len(chat)
         /\ \A t \in 1 .. Len(chat) - 1 : Observed(seen)[t] = chat[t]
         /\ chat # <<>> =>
              /\ Observed(seen)[Len(chat)].calls = chat[Len(chat)].calls
              /\ Observed(seen)[Len(chat)].answers = ToolMessages(chat[Len(chat)], seen)
<1>1. CASE chat = <<>>
  <2>1. Len(chat) = 0 /\ 1 .. 0 - 1 = {}
    BY <1>1
  <2> QED
    BY <1>1, <2>1 DEF Observed
<1>2. CASE chat # <<>>
  <2> DEFINE n == Len(chat)
             new == [calls |-> chat[n].calls, answers |-> ToolMessages(chat[n], seen)]
  <2>1. n \in Nat /\ n \in 1 .. n /\ DOMAIN chat = 1 .. n /\ chat[n] \in Messages
    BY <1>2
  <2>2. PICK k \in Nat : chat[n].calls \in [1 .. k -> Calls] /\ chat[n].answers \in [1 .. k -> Nat]
    BY <2>1, MessageIs
  <2>3. ToolMessages(chat[n], seen) \in [1 .. k -> Nat]
    <3>1. ASSUME NEW i \in 1 .. k
          PROVE  (IF chat[n].calls[i].name = "message" THEN chat[n].answers[i]
                  ELSE chat[n].answers[i] + TimesIn(seen, i)) \in Nat
      <4>1. chat[n].answers[i] \in Nat /\ TimesIn(seen, i) \in Nat
        BY <2>2, TimesInType
      <4> QED
        BY <4>1
    <3>2. DOMAIN chat[n].calls = 1 .. k
      BY <2>2
    <3> QED
      BY <3>1, <3>2 DEF ToolMessages
  <2>4. new \in Messages
    <3>1. new \in [calls : [1 .. k -> Calls], answers : [1 .. k -> Nat]]
      BY <2>2, <2>3
    <3> QED
      BY <3>1 DEF Messages
  <2>5. Observed(seen) = [chat EXCEPT ![n] = new]
    <3>1. chat[n] = [calls |-> chat[n].calls, answers |-> chat[n].answers]
      BY <2>1, MessageIs
    <3>2. [chat[n] EXCEPT !.answers = ToolMessages(chat[n], seen)] = new
      BY <3>1
    <3> QED
      BY <1>2, <3>2 DEF Observed
  <2> HIDE DEF new
  <2>6. /\ Observed(seen) \in Seq(Messages) /\ Len(Observed(seen)) = n
        /\ \A t \in 1 .. n - 1 : Observed(seen)[t] = chat[t]
        /\ Observed(seen)[n] = new
    <3> DEFINE r == [chat EXCEPT ![n] = new]
    <3>1. /\ r \in Seq(Messages) /\ Len(r) = n
          /\ \A t \in 1 .. n : r[t] = IF t = n THEN new ELSE chat[t]
      BY <2>1, <2>4, ReplacedIs
    <3>2. Observed(seen) = r
      BY <2>5
    <3> HIDE DEF r, n
    <3>3. \A t \in 1 .. n - 1 : t \in 1 .. n /\ t # n
      BY <2>1
    <3> QED
      BY <2>1, <3>1, <3>2, <3>3
  <2>7. new.calls = chat[n].calls /\ new.answers = ToolMessages(chat[n], seen)
    BY DEF new
  <2> QED
    BY ONLY <2>6, <2>7
<1> QED
  BY <1>1, <1>2

\* Asking the model appends its reply to the chat.
LEMMA AskedIs ==
  ASSUME chat \in Seq(Messages), observation \in Seq(Nat), NEW reply \in Replies,
         Asks(observation, reply)
  PROVE  /\ chat' \in Seq(Messages) /\ Len(chat') = Len(chat) + 1
         /\ \A t \in 1 .. Len(chat) : chat'[t] = Observed(observation)[t]
         /\ chat'[Len(chat')] = AssistantMessage(IF reply = Message THEN <<>> ELSE reply)
<1> DEFINE o == Observed(observation)
           m == AssistantMessage(IF reply = Message THEN <<>> ELSE reply)
<1>1. o \in Seq(Messages) /\ Len(o) = Len(chat) /\ m \in Messages
  BY ObservedIs, AssistantMessageIs
<1>2. chat' = Append(o, m)
  BY DEF Asks
<1> HIDE DEF o, m
<1>3. /\ chat' \in Seq(Messages) /\ Len(chat') = Len(chat) + 1
      /\ \A t \in 1 .. Len(chat) : chat'[t] = o[t]
      /\ chat'[Len(chat')] = m
  BY <1>1, <1>2
<1> QED
  BY <1>3 DEF o, m

\* What the steps do to the dialogue: its types, whom the last message is
\* answered by, and that every earlier one has been answered.
TalkTypes ==
  /\ kind \in Kinds /\ observation \in Seq(Nat) /\ chat \in Seq(Messages) /\ action \in Replies
TalkInv == TalkTypes /\ ChatInv /\ CallsAreAnswered

\* The step that asks the model finds its last message answered.
LEMMA AskingStep ==
  ASSUME TalkInv, at = "react", ~over, NEW reply \in Replies, Asks(observation, reply),
         kind' = kind
  PROVE  CallsAreAnswered'
<1>1. /\ chat \in Seq(Messages) /\ Len(chat) \in Nat
      /\ chat' \in Seq(Messages) /\ Len(chat') = Len(chat) + 1
      /\ \A t \in 1 .. Len(chat) : chat'[t] = Observed(observation)[t]
  BY AskedIs DEF TalkInv, TalkTypes
<1> SUFFICES ASSUME NEW t \in 1 .. Len(chat') - 1, NEW i \in DOMAIN chat'[t].calls
             PROVE  \/ chat'[t].answers[i] = 1
                    \/ chat'[t].answers[i] = 0 /\ LeftOpen(chat'[t].calls, i)
  BY DEF CallsAreAnswered, LeftOpen, Handlers
<1>2. t \in 1 .. Len(chat) /\ chat'[t] = Observed(observation)[t]
  BY <1>1
<1>3. CASE t # Len(chat)
  <2>1. t \in 1 .. Len(chat) - 1
    BY <1>1, <1>2, <1>3
  <2>2. chat'[t] = chat[t]
    BY <1>2, <2>1, ObservedIs DEF TalkInv, TalkTypes
  <2> QED
    BY <2>1, <2>2 DEF TalkInv, CallsAreAnswered
<1>4. CASE t = Len(chat)
  <2> DEFINE last == chat[Len(chat)]
  <2>1. chat # <<>>
    BY <1>2, <1>4
  <2>2. chat'[t].calls = last.calls /\ chat'[t].answers = ToolMessages(last, observation)
    BY <1>2, <1>4, <2>1, ObservedIs DEF TalkInv, TalkTypes
  <2>3. last.answers[i] = 0 /\ Fits(last, i)
    BY <2>1, <2>2 DEF TalkInv, ChatInv
  <2>4. chat'[t].answers[i] = IF last.calls[i].name = "message" THEN last.answers[i]
                              ELSE last.answers[i] + TimesIn(observation, i)
    BY <2>2 DEF ToolMessages
  <2>5. TimesIn(observation, i) \in Nat
    BY TimesInType DEF TalkInv, TalkTypes
  <2> QED
    BY <2>2, <2>3, <2>4, <2>5 DEF Fits, LeftOpen
<1> QED
  BY <1>3, <1>4

------------------------------------------------------------------------------
(* Dialogue: scores.                                                        *)

\* A step of the session scores nothing, and ends the session with a submission.
LEMMA BenchStepKeeps ==
  ASSUME ScoreTypes, NEW dos, BenchStep(dos)
  PROVE  /\ UNCHANGED <<kind, grade, saved>>
         /\ over' \in BOOLEAN /\ answer' \in {"none", "right", "wrong", "given"}
         /\ kind \in {"swebench", "appworld", "bfcl"} => (over' <=> answer' # "none")
<1> DEFINE Kept == /\ UNCHANGED <<kind, grade, saved>>
                   /\ over' \in BOOLEAN /\ answer' \in {"none", "right", "wrong", "given"}
                   /\ kind \in {"swebench", "appworld", "bfcl"} => (over' <=> answer' # "none")
<1>1. ASSUME NEW effects, Execute(dos, effects)
      PROVE  /\ over' \in BOOLEAN /\ answer' \in {"none", "right", "wrong", "given"}
             /\ kind \in {"swebench", "appworld", "bfcl"} => (over' <=> answer' # "none")
  <2>1. CASE \E i \in DOMAIN dos : effects[i].submits
    <3>1. over' = TRUE /\ answer' \in Answers
      BY <1>1, <2>1 DEF Execute
    <3>2. answer' \in {"right", "wrong", "given"}
      BY <3>1 DEF Answers
    <3> QED
      BY ONLY <3>1, <3>2
  <2>2. CASE ~ \E i \in DOMAIN dos : effects[i].submits
    <3>1. (over' <=> over) /\ answer' = answer /\ over' \in BOOLEAN
      BY <1>1, <2>2 DEF Execute
    <3> QED
      BY <3>1 DEF ScoreTypes
  <2> QED
    BY <2>1, <2>2
<1>2. ASSUME NEW effects, QuestionStep(dos, effects) PROVE Kept
  BY <1>1, <1>2 DEF QuestionStep
<1>3. ASSUME NEW effects, BrowsecompStep(dos, effects) PROVE Kept
  BY <1>1, <1>3 DEF BrowsecompStep
<1>4. ASSUME NEW effects, CountedStep(dos, effects) PROVE Kept
  BY <1>1, <1>4 DEF CountedStep
<1>5. CASE HleTimesOut
  BY <1>5 DEF HleTimesOut, ScoreTypes
<1>6. CASE BrowsecompIsFull
  BY <1>6 DEF BrowsecompIsFull, ScoreTypes
<1>7. CASE CountedIsFull(dos)
  BY <1>7 DEF CountedIsFull, ScoreTypes
<1>8. CASE BfclRecords(dos)
  BY <1>8 DEF BfclRecords, ScoreTypes
<1>9. CASE BfclNextTurn(dos)
  BY <1>9 DEF BfclNextTurn, ScoreTypes
<1>10. CASE BfclCompletes(dos)
  BY <1>10 DEF BfclCompletes, ScoreTypes
<1> QED
  BY <1>2, <1>3, <1>4, <1>5, <1>6, <1>7, <1>8, <1>9, <1>10 DEF BenchStep

\* A score is one of those that score() may compute, and is not changed again.
LEMMA ScoreKeeps ==
  ASSUME ScoreTypes, NEW g, g \in Grades \ {"raised"}, Score(g) \/ CloseSession(g)
  PROVE  /\ UNCHANGED <<kind, over, answer>>
         /\ g \in {"right", "wrong", "failed"}
         /\ grade' \in {grade, g}
         /\ Score(g) => grade' = IF Keeps(g) THEN g ELSE grade
         /\ grade # "none" => g = grade
<1>1. g \in {"right", "wrong", "failed"} /\ (grade # "none" => g = grade)
  BY DEF Grades, ScoreTypes, Kinds
<1>2. CASE Score(g)
  BY <1>1, <1>2 DEF Score
<1>3. CASE CloseSession(g)
  BY <1>1, <1>3 DEF CloseSession, Score
<1> QED
  BY <1>2, <1>3

\* Every step keeps ScoreTypes.
LEMMA ScoreTypesStep == ScoreTypes /\ [DialogueNext]_dialogueVars => ScoreTypes'
<1> SUFFICES ASSUME ScoreTypes, [DialogueNext]_dialogueVars PROVE ScoreTypes'
  OBVIOUS
<1>1. CASE LoopEnds
  BY <1>1 DEF LoopEnds, ScoreTypes, bench
<1>2. CASE NoAction
  BY <1>2 DEF NoAction, ScoreTypes, bench
<1>3. CASE React
  BY <1>3 DEF React, ScoreTypes, bench
<1>4. CASE ReactFails
  BY <1>4 DEF ReactFails, ScoreTypes, bench
<1>5. CASE Step
  <2>1. /\ UNCHANGED <<kind, grade, saved>>
        /\ over' \in BOOLEAN /\ answer' \in {"none", "right", "wrong", "given"}
        /\ kind \in {"swebench", "appworld", "bfcl"} => (over' <=> answer' # "none")
    BY <1>5, BenchStepKeeps DEF Step
  <2>2. at' \in {"react", "score", "limit"}
    BY <1>5 DEF Step
  <2> QED
    BY <2>1, <2>2 DEF ScoreTypes
<1>6. CASE StepFails
  BY <1>6 DEF StepFails, ScoreTypes, bench
<1>7. CASE Interrupt
  BY <1>7 DEF Interrupt, ScoreTypes, bench
<1>8. CASE ScoreAndRecord
  <2>1. PICK g \in Grades \ {"raised"} : Score(g)
    BY <1>8 DEF ScoreAndRecord
  <2> QED
    BY <1>8, <2>1, ScoreKeeps DEF ScoreAndRecord, ScoreTypes
<1>9. CASE ScoreRaises
  BY <1>9 DEF ScoreRaises, ScoreTypes, bench
<1>10. CASE Close
  <2>1. PICK g \in Grades : CloseSession(g)
    BY <1>10 DEF Close
  <2>2. g \in Grades \ {"raised"}
    BY <2>1 DEF CloseSession
  <2> QED
    BY <1>10, <2>1, <2>2, ScoreKeeps DEF Close, ScoreTypes
<1>11. CASE CloseRaises
  BY <1>11 DEF CloseRaises, ScoreTypes, bench
<1>12. CASE UNCHANGED dialogueVars
  BY <1>12 DEF dialogueVars, ScoreTypes, bench, control
<1> QED
  BY <1>1, <1>2, <1>3, <1>4, <1>5, <1>6, <1>7, <1>8, <1>9, <1>10, <1>11, <1>12
     DEF DialogueNext

\* Nothing is scored before the loop has ended, and what is recorded then is what
\* score() computes when the session is closed.
LEMMA ScoreInvStep ==
  ScoreTypes /\ ScoreInv /\ [DialogueNext]_dialogueVars => ScoreInv'
<1> SUFFICES ASSUME ScoreTypes, ScoreInv, [DialogueNext]_dialogueVars PROVE ScoreInv'
  OBVIOUS
<1> USE DEF ScoreInv, Unscored
<1>1. CASE LoopEnds
  BY <1>1 DEF LoopEnds, bench, record
<1>2. CASE NoAction
  BY <1>2 DEF NoAction, bench, record
<1>3. CASE React
  BY <1>3 DEF React, bench, record
<1>4. CASE ReactFails
  BY <1>4 DEF ReactFails, Fail, Recorded, bench
<1>5. CASE Step
  <2>1. at = "step" /\ at' \in {"react", "score", "limit"} /\ UNCHANGED record
    BY <1>5 DEF Step
  <2>2. UNCHANGED <<grade, saved>>
    BY <1>5, BenchStepKeeps DEF Step
  <2> QED
    BY <2>1, <2>2 DEF record
<1>6. CASE StepFails
  BY <1>6 DEF StepFails, bench
<1>7. CASE Interrupt
  BY <1>7 DEF Interrupt, Fail, Recorded, bench
<1>8. CASE ScoreAndRecord
  <2>1. PICK g \in Grades \ {"raised"} :
          /\ Score(g)
          /\ \E f \in IF at = "limit" THEN {FALSE} ELSE Finishes(g) : Record(g, f)
    BY <1>8 DEF ScoreAndRecord
  <2>2. at' = "close" /\ grade = "none" /\ (success' <=> g = "right") /\ success' \in BOOLEAN
    BY <1>8, <2>1 DEF ScoreAndRecord, Record
  <2>3. /\ UNCHANGED <<kind, over, answer>> /\ g \in {"right", "wrong", "failed"}
        /\ grade' = IF Keeps(g) THEN g ELSE grade
    BY <2>1, ScoreKeeps
  <2> SUFFICES ASSUME ~ TwiceJudged'
               PROVE  IF kind = "swebench" THEN saved' = IF success' THEN "right" ELSE "wrong"
                      ELSE \A h \in Grades' : Agrees(h)'
    BY <2>2, <2>3
  <2>4. CASE kind = "swebench"
    BY <2>1, <2>2, <2>3, <2>4 DEF Score, Stored
  <2>5. CASE kind # "swebench"
    <3> SUFFICES ASSUME NEW h \in Grades' PROVE Stored(h) = IF success' THEN "right" ELSE "wrong"
      BY <2>5 DEF Agrees
    <3>1. CASE Keeps(g)
      <4>1. h = g
        BY <2>3, <3>1 DEF Grades
      <4> QED
        BY <2>2, <2>3, <4>1 DEF Stored
    <3>2. CASE ~ Keeps(g)
      <4>1. kind \in {"gsm8k", "hotpotqa", "hle", "browsecomp"}
        BY <2>5, <3>2 DEF Keeps, ScoreTypes, Kinds
      <4>2. kind \in {"hle", "browsecomp"} => answer = "none"
        BY <2>2, <2>3, <3>2 DEF Keeps, TwiceJudged
      <4>3. g \in Grades /\ grade' = "none" /\ grade = "none"
        BY <2>1, <2>2, <2>3, <3>2
      <4>4. h = g /\ g # "failed"
        BY <4>1, <4>2, <4>3, <2>3 DEF Grades
      <4> QED
        BY <2>2, <2>3, <4>4 DEF Stored
    <3> QED
      BY <3>1, <3>2
  <2> QED
    BY <2>4, <2>5
<1>9. CASE ScoreRaises
  BY <1>9 DEF ScoreRaises, bench, record
<1>10. CASE Close
  BY <1>10 DEF Close
<1>11. CASE CloseRaises
  BY <1>11 DEF CloseRaises
<1>12. CASE UNCHANGED dialogueVars
  BY <1>12 DEF dialogueVars, bench, control, record, Recorded, TwiceJudged, Agrees, Stored, Grades
<1> QED
  BY <1>1, <1>2, <1>3, <1>4, <1>5, <1>6, <1>7, <1>8, <1>9, <1>10, <1>11, <1>12
     DEF DialogueNext

\* Every step keeps FinishIsHonest: a grade that failed is never replaced.
LEMMA FinishStep ==
  ScoreTypes /\ ScoreInv /\ FinishIsHonest /\ [DialogueNext]_dialogueVars => FinishIsHonest'
<1> SUFFICES ASSUME ScoreTypes, ScoreInv, FinishIsHonest, [DialogueNext]_dialogueVars
             PROVE  FinishIsHonest'
  OBVIOUS
<1> USE DEF FinishIsHonest, Recorded
<1>1. CASE LoopEnds
  BY <1>1 DEF LoopEnds, bench, record
<1>2. CASE NoAction
  BY <1>2 DEF NoAction, bench, record
<1>3. CASE React
  BY <1>3 DEF React, bench, record
<1>4. CASE ReactFails
  BY <1>4 DEF ReactFails, Fail
<1>5. CASE Step
  <2>1. at = "step" /\ UNCHANGED record
    BY <1>5 DEF Step
  <2>2. status' = "none"
    BY <2>1 DEF record, ScoreInv, Unscored
  <2> QED
    BY <2>2
<1>6. CASE StepFails
  BY <1>6 DEF StepFails, Fail
<1>7. CASE Interrupt
  BY <1>7 DEF Interrupt, Fail
<1>8. CASE ScoreAndRecord
  <2>1. PICK g \in Grades \ {"raised"} :
          /\ Score(g)
          /\ \E f \in IF at = "limit" THEN {FALSE} ELSE Finishes(g) : Record(g, f)
    BY <1>8 DEF ScoreAndRecord
  <2>2. PICK f \in IF at = "limit" THEN {FALSE} ELSE Finishes(g) : Record(g, f)
    BY <2>1
  <2>3. /\ UNCHANGED <<kind, over, answer>>
        /\ grade' = IF Keeps(g) THEN g ELSE grade
    BY <2>1, ScoreKeeps
  <2>4. finished' = f /\ limited' = (at = "limit")
    BY <2>2 DEF Record
  <2>5. CASE at = "limit"
    BY <2>2, <2>4, <2>5
  <2>6. CASE at # "limit"
    <3>1. f \in Finishes(g)
      BY <2>2, <2>6
    <3>2. CASE kind = "swebench"
      BY <3>1, <3>2, <2>3, <2>4 DEF Finishes, ScoreTypes
    <3>3. CASE kind = "appworld"
      BY <3>1, <3>3, <2>3, <2>4 DEF Finishes, ScoreTypes
    <3>4. CASE kind = "bfcl"
      <4>1. f = (over /\ g # "failed")
        BY <3>1, <3>4 DEF Finishes
      <4>2. grade' = g
        BY <2>3, <3>4 DEF Keeps
      <4> QED
        BY <3>4, <4>1, <4>2, <2>3, <2>4 DEF ScoreTypes
    <3>5. CASE kind \in {"gsm8k", "hotpotqa", "hle", "browsecomp"}
      BY <3>1, <3>5, <2>3, <2>4 DEF Finishes
    <3> QED
      BY <3>2, <3>3, <3>4, <3>5 DEF ScoreTypes, Kinds
  <2> QED
    BY <2>5, <2>6
<1>9. CASE ScoreRaises
  BY <1>9 DEF ScoreRaises, bench, record
<1>10. CASE Close
  <2>1. PICK g \in Grades : CloseSession(g)
    BY <1>10 DEF Close
  <2>2. /\ UNCHANGED <<kind, over, answer>> /\ grade' \in {grade, g}
        /\ grade # "none" => g = grade
    <3>1. g \in Grades \ {"raised"}
      BY <2>1 DEF CloseSession
    <3> QED
      BY <2>1, <3>1, ScoreKeeps
  <2>3. UNCHANGED record
    BY <1>10 DEF Close
  <2> QED
    BY <2>2, <2>3 DEF record
<1>11. CASE CloseRaises
  BY <1>11 DEF CloseRaises, bench, record
<1>12. CASE UNCHANGED dialogueVars
  BY <1>12 DEF dialogueVars, bench, record
<1> QED
  BY <1>1, <1>2, <1>3, <1>4, <1>5, <1>6, <1>7, <1>8, <1>9, <1>10, <1>11, <1>12
     DEF DialogueNext

\* Every step keeps SavedAsRecorded.
LEMMA SavedStep ==
  ScoreTypes /\ ScoreInv /\ SavedAsRecorded /\ [DialogueNext]_dialogueVars => SavedAsRecorded'
<1> SUFFICES ASSUME ScoreTypes, ScoreInv, SavedAsRecorded, [DialogueNext]_dialogueVars
             PROVE  SavedAsRecorded'
  OBVIOUS
<1> USE DEF SavedAsRecorded, Recorded
<1>1. CASE Close
  <2>1. PICK g \in Grades : CloseSession(g)
    BY <1>1 DEF Close
  <2>2. UNCHANGED <<kind, over, answer>>
    BY <2>1 DEF CloseSession
  <2>3. at = "close" /\ UNCHANGED record
    BY <1>1 DEF Close
  <2> SUFFICES ASSUME Recorded, ~ TwiceJudged
               PROVE  saved' = IF success THEN "right" ELSE "wrong"
    BY <2>2, <2>3 DEF record, TwiceJudged
  <2>4. CASE kind = "swebench"
    BY <2>1, <2>3, <2>4 DEF CloseSession, ScoreInv
  <2>5. CASE kind # "swebench"
    BY <2>1, <2>3, <2>5 DEF CloseSession, ScoreInv, Agrees
  <2> QED
    BY <2>4, <2>5
<1>2. CASE StepFails
  BY <1>2 DEF StepFails, Fail
<1>3. CASE LoopEnds \/ NoAction \/ React \/ ReactFails \/ Step \/ Interrupt
           \/ ScoreAndRecord \/ ScoreRaises \/ CloseRaises
  <2>1. at' # "closed"
    BY <1>3 DEF LoopEnds, NoAction, React, ReactFails, Step, Interrupt,
                ScoreAndRecord, ScoreRaises, CloseRaises
  <2> QED
    BY <2>1
<1>4. CASE UNCHANGED dialogueVars
  BY <1>4 DEF dialogueVars, bench, control, record
<1> QED
  BY <1>1, <1>2, <1>3, <1>4 DEF DialogueNext

------------------------------------------------------------------------------
(* Dialogue: every step keeps the invariant.                                *)

\* The rest of the types.
RestTypes ==
  /\ kind \in Benchmarks /\ executed \in Nat /\ turn \in 1 .. LastTurn
  /\ saved \in {"none", "right", "wrong"} /\ reacts \in Nat
  /\ steps \in Nat /\ acts \in Nat
  /\ error \in {"none", "agent", "benchmark", "cancelled"}
  /\ limited \in BOOLEAN /\ success \in BOOLEAN /\ finished \in BOOLEAN
  /\ status \in {"none", "success", "unsuccessful", "unfinished", "limit_reached",
                 "error", "cancelled"}

DialogueInv ==
  /\ ScoreTypes /\ RestTypes /\ TalkInv
  /\ ScoreInv /\ FinishIsHonest /\ SavedAsRecorded

\* The actions that ask the model or lose its answer, as the chat sees them.
LEMMA TalkStep == DialogueInv /\ [DialogueNext]_dialogueVars => TalkInv'
<1> SUFFICES ASSUME DialogueInv, [DialogueNext]_dialogueVars PROVE TalkInv'
  OBVIOUS
<1>0. TalkInv /\ TalkTypes /\ ScoreTypes /\ <<>> \in Replies
  <2>1. <<>> \in [1 .. 0 -> Calls] /\ 0 \in 0 .. MaxReply
    BY AgentAssumption
  <2>2. <<>> \in UNION {[1 .. n -> Calls] : n \in 0 .. MaxReply}
    BY ONLY <2>1
  <2> QED
    BY <2>2 DEF DialogueInv, TalkInv, Replies
<1>1. ASSUME UNCHANGED <<kind, chat>>, TalkTypes', at' \notin {"react", "step"} PROVE TalkInv'
  BY <1>0, <1>1 DEF TalkInv, ChatInv, CallsAreAnswered, LeftOpen, Handlers
<1>2. CASE LoopEnds
  BY <1>0, <1>1, <1>2 DEF LoopEnds, bench, agent, TalkTypes
<1>3. CASE NoAction
  <2>1. UNCHANGED bench /\ at' = "score" /\ at = "react" /\ ~over
    BY <1>3 DEF NoAction
  <2>2. CASE GivesUp
    BY <1>0, <1>1, <2>1, <2>2 DEF GivesUp, bench, TalkTypes
  <2>3. CASE Asks(observation, <<>>)
    <3>1. CallsAreAnswered'
      BY <1>0, <2>1, <2>3, AskingStep DEF bench
    <3>2. chat' \in Seq(Messages) /\ action' = <<>>
      BY <1>0, <2>3, AskedIs DEF Asks, TalkTypes
    <3> QED
      BY <1>0, <2>1, <3>1, <3>2 DEF TalkInv, TalkTypes, ChatInv, bench
  <2> QED
    BY <1>3, <2>2, <2>3 DEF NoAction
<1>4. CASE React
  <2>1. PICK reply \in Replies \ {<<>>} : Asks(observation, reply)
    BY <1>4 DEF React
  <2>2. at = "react" /\ ~over /\ at' = "step" /\ UNCHANGED bench
    BY <1>4 DEF React
  <2>3. CallsAreAnswered'
    BY <1>0, <2>1, <2>2, AskingStep DEF bench
  <2>4. /\ chat' \in Seq(Messages) /\ action' = reply
        /\ chat'[Len(chat')] = AssistantMessage(IF reply = Message THEN <<>> ELSE reply)
    BY <1>0, <2>1, AskedIs DEF Asks, TalkTypes
  <2>5. TalkTypes'
    BY <1>0, <2>1, <2>2, <2>4 DEF TalkTypes, bench
  <2>6. ChatInv'
    BY <2>2, <2>4 DEF ChatInv, AssistantMessage
  <2> QED
    BY <2>3, <2>5, <2>6 DEF TalkInv
<1>5. CASE ReactFails
  <2>1. /\ chat' = Observed(observation) /\ at' = "close"
        /\ UNCHANGED <<kind, observation, action>>
    BY <1>5 DEF ReactFails, CompletionFails, bench
  <2>2. chat' \in Seq(Messages) /\ Len(chat') = Len(chat)
    BY <1>0, <2>1, ObservedIs DEF TalkTypes
  <2>3. \A t \in 1 .. Len(chat') - 1 : chat'[t] = chat[t]
    BY <1>0, <2>1, <2>2, ObservedIs DEF TalkTypes
  <2>4. CallsAreAnswered'
    BY <1>0, <2>1, <2>2, <2>3 DEF TalkInv, CallsAreAnswered, LeftOpen, Handlers
  <2> QED
    BY <1>0, <2>1, <2>2, <2>4 DEF TalkInv, TalkTypes, ChatInv
<1>6. CASE Step
  <2>1. /\ at = "step" /\ BenchStep(action) /\ UNCHANGED <<chat, action>>
        /\ at' \in {"react", "score", "limit"} /\ (at' = "react" => observation' # None)
    BY <1>6 DEF Step, agent
  <2>2. kind' = kind
    BY <1>0, <2>1, BenchStepKeeps
  <2>3. /\ observation' \in Seq(Nat)
        /\ action # Message /\ ~over' /\ observation' # None
              => \A i \in DOMAIN action : Settles(action, i)
    BY <1>0, <2>1, BenchStepSettles DEF TalkTypes
  <2>4. CallsAreAnswered'
    BY <1>0, <2>1, <2>2 DEF TalkInv, CallsAreAnswered, LeftOpen, Handlers
  <2>5. ChatInv'
    <3> SUFFICES ASSUME chat # <<>>, at' = "react", NEW i \in DOMAIN chat[Len(chat)].calls
                 PROVE  /\ chat[Len(chat)].answers[i] = 0
                        /\ ~over' => Settles(chat[Len(chat)].calls, i)
      BY <2>1, <2>2 DEF ChatInv, Fits, Settles, LeftOpen, Handlers
    <3>1. /\ chat[Len(chat)].calls = IF action = Message THEN <<>> ELSE action
          /\ chat[Len(chat)].answers[i] = 0
      BY <1>0, <2>1 DEF TalkInv, ChatInv
    <3>2. action # Message /\ chat[Len(chat)].calls = action
      BY <3>1
    <3> QED
      BY <2>1, <2>3, <3>1, <3>2
  <2> QED
    BY <1>0, <2>1, <2>2, <2>3, <2>4, <2>5 DEF TalkInv, TalkTypes
<1>7. CASE StepFails
  BY <1>0, <1>1, <1>7 DEF StepFails, bench, agent, TalkTypes
<1>8. CASE Interrupt
  BY <1>0, <1>1, <1>8 DEF Interrupt, bench, agent, TalkTypes
<1>9. CASE ScoreAndRecord
  <2>1. PICK g \in Grades : Score(g)
    BY <1>9 DEF ScoreAndRecord
  <2>2. UNCHANGED <<kind, observation, chat, action>> /\ at' = "close"
    BY <1>9, <2>1 DEF ScoreAndRecord, Score, agent
  <2> QED
    BY <1>0, <1>1, <2>2 DEF TalkTypes
<1>10. CASE ScoreRaises
  BY <1>0, <1>1, <1>10 DEF ScoreRaises, bench, agent, TalkTypes
<1>11. CASE Close
  <2>1. PICK g \in Grades : CloseSession(g)
    BY <1>11 DEF Close
  <2>2. UNCHANGED <<kind, observation, chat, action>> /\ at' = "closed"
    BY <1>11, <2>1 DEF Close, CloseSession, agent
  <2> QED
    BY <1>0, <1>1, <2>2 DEF TalkTypes
<1>12. CASE CloseRaises
  BY <1>0, <1>1, <1>12 DEF CloseRaises, bench, agent, TalkTypes
<1>13. CASE UNCHANGED dialogueVars
  <2>1. UNCHANGED <<kind, over, observation, chat, action, at>>
    BY <1>13 DEF dialogueVars, bench, agent, control
  <2>2. TalkTypes' /\ CallsAreAnswered'
    BY <1>0, <2>1 DEF TalkInv, TalkTypes, CallsAreAnswered, LeftOpen, Handlers
  <2>3. ChatInv'
    BY <1>0, <2>1 DEF TalkInv, ChatInv, Fits, LeftOpen, Handlers
  <2> QED
    BY <2>2, <2>3 DEF TalkInv
<1> QED
  BY <1>2, <1>3, <1>4, <1>5, <1>6, <1>7, <1>8, <1>9, <1>10, <1>11, <1>12, <1>13
     DEF DialogueNext

\* What a session counts stays in its bounds.
LEMMA BenchStepCounts ==
  ASSUME NEW dos \in Replies, BenchStep(dos), executed \in Nat, turn \in 1 .. LastTurn
  PROVE  executed' \in Nat /\ turn' \in 1 .. LastTurn
<1> DEFINE Goal == executed' \in Nat /\ turn' \in 1 .. LastTurn
<1>1. ASSUME NEW effects, BrowsecompStep(dos, effects) PROVE Goal
  <2> DEFINE R == {i \in DOMAIN dos : Runs(dos[i])}
  <2>1. IsFiniteSet(DOMAIN dos)
    BY ReplyIs
  <2>2. IsFiniteSet(R)
    BY <2>1, FS_Subset
  <2>3. executed' = executed + Cardinality(R) /\ UNCHANGED turn
    BY <1>1 DEF BrowsecompStep
  <2> HIDE DEF R
  <2>4. Cardinality(R) \in Nat
    BY <2>2, FS_CardinalityType
  <2> QED
    BY <2>3, <2>4
<1>2. ASSUME NEW effects, CountedStep(dos, effects) PROVE Goal
  <2>1. Len(dos) \in Nat
    BY ReplyIs
  <2> QED
    BY <1>2, <2>1 DEF CountedStep
<1>3. ASSUME NEW effects, QuestionStep(dos, effects) PROVE Goal
  BY <1>3 DEF QuestionStep
<1>4. CASE HleTimesOut \/ BrowsecompIsFull \/ CountedIsFull(dos) \/ BfclRecords(dos)
           \/ BfclCompletes(dos)
  BY <1>4 DEF HleTimesOut, BrowsecompIsFull, CountedIsFull, BfclRecords, BfclCompletes
<1>5. CASE BfclNextTurn(dos)
  <2>1. turn < LastTurn /\ turn' = turn + 1 /\ UNCHANGED executed
    BY <1>5 DEF BfclNextTurn
  <2> QED
    BY <2>1, TurnsAssumption
<1> QED
  BY <1>1, <1>2, <1>3, <1>4, <1>5 DEF BenchStep

LEMMA RestTypesStep == DialogueInv /\ [DialogueNext]_dialogueVars => RestTypes'
<1> SUFFICES ASSUME DialogueInv, [DialogueNext]_dialogueVars PROVE RestTypes'
  OBVIOUS
<1> USE DEF RestTypes
<1>0. RestTypes /\ ScoreTypes /\ TalkTypes
  BY DEF DialogueInv, TalkInv
<1>1. CASE LoopEnds
  BY <1>0, <1>1 DEF LoopEnds, bench, agent, record
<1>2. CASE NoAction
  BY <1>0, <1>2 DEF NoAction, GivesUp, Asks, bench, record
<1>3. CASE React
  <2>1. PICK reply \in Replies : Asks(observation, reply)
    BY <1>3 DEF React
  <2>2. action' = reply /\ reacts' = reacts + 1
    BY <2>1 DEF Asks
  <2>3. Len(action') \in Nat
    BY <2>2, ReplyIs
  <2> QED
    BY <1>0, <1>3, <2>2, <2>3 DEF React, bench, record
<1>4. CASE ReactFails
  BY <1>0, <1>4 DEF ReactFails, CompletionFails, Fail, bench
<1>5. CASE Step
  <2>1. BenchStep(action) /\ action \in Replies /\ UNCHANGED <<reacts, steps, acts, record>>
    BY <1>0, <1>5 DEF Step, agent, TalkTypes
  <2>2. executed' \in Nat /\ turn' \in 1 .. LastTurn
    BY <1>0, <2>1, BenchStepCounts
  <2>3. UNCHANGED <<kind, saved>>
    BY <1>0, <2>1, BenchStepKeeps
  <2> QED
    BY <1>0, <2>1, <2>2, <2>3 DEF record
<1>6. CASE StepFails
  BY <1>0, <1>6 DEF StepFails, Fail, bench, agent
<1>7. CASE Interrupt
  BY <1>0, <1>7 DEF Interrupt, Fail, bench, agent
<1>8. CASE ScoreAndRecord
  <2>1. PICK g \in Grades \ {"raised"} :
          /\ Score(g)
          /\ \E f \in IF at = "limit" THEN {FALSE} ELSE Finishes(g) : Record(g, f)
    BY <1>8 DEF ScoreAndRecord
  <2>2. PICK f \in IF at = "limit" THEN {FALSE} ELSE Finishes(g) : Record(g, f)
    BY <2>1
  <2>3. g \in {"right", "wrong", "failed"}
    BY <1>0, <2>1, ScoreKeeps
  <2>4. f \in BOOLEAN
    <3>1. Finishes(g) \subseteq BOOLEAN
      BY <1>0 DEF Finishes, ScoreTypes
    <3> QED
      BY <3>1
  <2>5. StatusOf(g, f, at = "limit") \in
          {"success", "unsuccessful", "unfinished", "limit_reached", "error"}
    <3>1. CASE at = "limit"
      BY <3>1 DEF StatusOf
    <3>2. CASE at # "limit" /\ kind = "bfcl" /\ g = "failed"
      BY <3>2 DEF StatusOf
    <3>3. CASE at # "limit" /\ ~ (kind = "bfcl" /\ g = "failed") /\ ~ f
      BY <3>3 DEF StatusOf
    <3>4. CASE at # "limit" /\ ~ (kind = "bfcl" /\ g = "failed") /\ f
      BY <3>4 DEF StatusOf
    <3> QED
      BY <3>1, <3>2, <3>3, <3>4
  <2>6. /\ success' \in BOOLEAN /\ finished' \in BOOLEAN /\ limited' \in BOOLEAN
        /\ status' = StatusOf(g, f, at = "limit") /\ UNCHANGED error
    BY <2>2, <2>4 DEF Record
  <2>7. saved' \in {"none", "right", "wrong"} /\ UNCHANGED <<kind, executed, turn>>
    BY <1>0, <2>1, <2>3 DEF Score, Stored
  <2>8. UNCHANGED <<reacts, steps, acts>>
    BY <1>8 DEF ScoreAndRecord, agent
  <2> QED
    BY <1>0, <2>5, <2>6, <2>7, <2>8
<1>9. CASE ScoreRaises
  BY <1>0, <1>9 DEF ScoreRaises, bench, agent, record
<1>10. CASE Close
  <2>1. PICK g \in Grades : CloseSession(g)
    BY <1>10 DEF Close
  <2>2. g \in {"right", "wrong", "failed"}
    <3>1. g \in Grades \ {"raised"}
      BY <2>1 DEF CloseSession
    <3> QED
      BY <1>0, <2>1, <3>1, ScoreKeeps
  <2>3. saved' \in {"none", "right", "wrong"} /\ UNCHANGED <<kind, executed, turn>>
    BY <1>0, <2>1, <2>2 DEF CloseSession, Stored
  <2>4. UNCHANGED <<agent, steps, acts, record>>
    BY <1>10 DEF Close
  <2> QED
    BY <1>0, <2>3, <2>4 DEF agent, record
<1>11. CASE CloseRaises
  BY <1>0, <1>11 DEF CloseRaises, bench, agent, record
<1>12. CASE UNCHANGED dialogueVars
  BY <1>0, <1>12 DEF dialogueVars, bench, agent, control, record
<1> QED
  BY <1>1, <1>2, <1>3, <1>4, <1>5, <1>6, <1>7, <1>8, <1>9, <1>10, <1>11, <1>12
     DEF DialogueNext

LEMMA DialogueInitInv == DialogueInit => DialogueInv
<1> SUFFICES ASSUME DialogueInit PROVE DialogueInv
  OBVIOUS
<1>1. kind \in Benchmarks /\ kind \in Kinds
  BY BenchmarksAssumption DEF DialogueInit, BenchInit
<1>2. ScoreTypes
  BY <1>1 DEF ScoreTypes, DialogueInit, BenchInit
<1>3. RestTypes
  <2>1. 1 \in 1 .. LastTurn
    BY TurnsAssumption
  <2>2. /\ turn = 1 /\ executed = 0 /\ reacts = 0 /\ steps = 0 /\ acts = 0 /\ saved = "none"
        /\ error = "none" /\ status = "none"
        /\ limited = FALSE /\ success = FALSE /\ finished = FALSE
    BY DEF DialogueInit, BenchInit, AgentInit
  <2> QED
    BY <1>1, <2>1, <2>2 DEF RestTypes
<1>4. TalkInv
  <2>1. <<>> \in [1 .. 0 -> Calls] /\ 0 \in 0 .. MaxReply
    BY AgentAssumption
  <2>2. <<>> \in UNION {[1 .. n -> Calls] : n \in 0 .. MaxReply}
    BY ONLY <2>1
  <2>3. action \in Replies /\ chat = <<>> /\ observation = <<0>>
    BY <2>2 DEF Replies, DialogueInit, BenchInit, AgentInit, Text
  <2>4. TalkTypes
    <3>1. <<>> \in Seq(Messages) /\ <<0>> \in Seq(Nat)
      OBVIOUS
    <3> QED
      BY <1>1, <2>3, <3>1 DEF TalkTypes
  <2>5. ChatInv /\ CallsAreAnswered
    BY <2>3 DEF ChatInv, CallsAreAnswered
  <2> QED
    BY <2>4, <2>5 DEF TalkInv
<1>5. ScoreInv /\ FinishIsHonest /\ SavedAsRecorded
  BY DEF ScoreInv, Unscored, FinishIsHonest, SavedAsRecorded, Recorded, DialogueInit, BenchInit
<1> QED
  BY <1>2, <1>3, <1>4, <1>5 DEF DialogueInv

LEMMA DialogueInvariant == DialogueSpec => []DialogueInv
<1>1. DialogueInv /\ [DialogueNext]_dialogueVars => DialogueInv'
  <2> SUFFICES ASSUME DialogueInv, [DialogueNext]_dialogueVars PROVE DialogueInv'
    OBVIOUS
  <2>1. ScoreTypes /\ ScoreInv /\ FinishIsHonest /\ SavedAsRecorded
    BY DEF DialogueInv
  <2>2. ScoreTypes' /\ ScoreInv'
    BY <2>1, ScoreTypesStep, ScoreInvStep
  <2>3. FinishIsHonest' /\ SavedAsRecorded'
    BY <2>1, FinishStep, SavedStep
  <2>4. TalkInv' /\ RestTypes'
    BY TalkStep, RestTypesStep
  <2> QED
    BY <2>2, <2>3, <2>4 DEF DialogueInv
<1> QED
  BY <1>1, DialogueInitInv, PTL DEF DialogueSpec

\* The types of a dialogue, of any agent and any number of turns.
THEOREM DialogueTypeCorrect == DialogueSpec => []DialogueTypeOK
<1>1. DialogueInv => DialogueTypeOK
  BY DEF DialogueInv, DialogueTypeOK, ScoreTypes, RestTypes, TalkInv, TalkTypes
<1> QED
  BY <1>1, DialogueInvariant, PTL

\* In the chat the model is asked with, every tool call but those the benchmark
\* leaves open has exactly one tool message (_observe of the tool-calling agent,
\* with what the benchmarks' handlers return).
THEOREM EveryCallIsAnswered == DialogueSpec => []CallsAreAnswered
<1>1. DialogueInv => CallsAreAnswered
  BY DEF DialogueInv, TalkInv
<1> QED
  BY <1>1, DialogueInvariant, PTL

\* is_finished of a recorded score says whether the agent submitted, whatever
\* ended the session (score() of the benchmarks and the limit controller).
THEOREM FinishedMeansSubmitted == DialogueSpec => []FinishIsHonest
<1>1. DialogueInv => FinishIsHonest
  BY DEF DialogueInv
<1> QED
  BY <1>1, DialogueInvariant, PTL

\* What the benchmark writes when the session is closed is the score that was
\* recorded, unless it has asked its judge twice (close() of the sessions).
THEOREM TheScoreIsWritten == DialogueSpec => []SavedAsRecorded
<1>1. DialogueInv => SavedAsRecorded
  BY DEF DialogueInv
<1> QED
  BY <1>1, DialogueInvariant, PTL

------------------------------------------------------------------------------
(* Dashboard: the invariant.                                                *)

\* Where a thread is while its event is put or the batch is moved, and otherwise.
Talking == {"starting", "reacted", "observed", "ending", "telling", "saving", "saying"}
OfWorker == {"idle", "starting", "react", "reacted", "observe", "observed", "ending",
             "ended", "telling", "closing"}
OfMain == {"wait", "saving", "saved", "saying", "over"}

\* A thread whose event is not put yet, or that holds the lock, is at such a place.
ThreadInv(p) ==
  /\ stage[p] \in IF p = Main THEN OfMain ELSE OfWorker
  /\ out[p] # Silence \/ tries[p] # 0 \/ lock = p => stage[p] \in Talking
  /\ tries[p] # 0 => out[p] # Silence
  /\ p # Main /\ stage[p] # "idle" => doing[p] \in Sessions

Entries ==
  {Silence}
    \cup [type : {"session_started", "step", "observation", "benchmark_recorded", "saved"},
          session : Sessions \cup {Nobody}]
    \cup [type : {"session_finished"}, session : Sessions, status : Outcomes, steps : Nat]

\* The end of the run is announced when its results are written, and not gathered.
SavedInv ==
  /\ stage[Main] \in {"saving", "saved", "saying"} => results
  /\ \A p \in RunThreads : out[p].type = "saved" => results
  /\ \A i \in DOMAIN events : events[i].type = "saved" => results
  /\ \A i \in DOMAIN pending : pending[i].type # "saved"

\* After the start button came back, nobody writes results the leaderboard lacks.
FreshInv ==
  /\ listed => results
  /\ ~active => /\ results => listed
                /\ listed \/ stage[Main] = "over"

QueueTypes ==
  /\ stage \in [RunThreads -> OfMain \cup OfWorker]
  /\ out \in [RunThreads -> Entries]
  /\ pending \in Seq(Entries) /\ events \in Seq(Entries)

DashboardInv ==
  /\ DashboardTypeOK /\ QueueTypes
  /\ \A p \in RunThreads : ThreadInv(p)
  /\ SavedInv /\ FreshInv

------------------------------------------------------------------------------
(* Dashboard: where the threads are.                                        *)

\* Where a thread goes on from, once its event is put or its batch moved.
LEMMA AfterIs ==
  ASSUME NEW p
  PROVE  /\ stage[p] \in Talking \cap OfWorker => After(p) \in OfWorker \ (Talking \cup {"idle"})
         /\ stage[p] \in Talking \cap OfMain => After(p) \in OfMain \ Talking
         /\ stage[p] \in Talking /\ After(p) = "saved" => stage[p] = "saving"
         /\ stage[p] \in Talking => After(p) \notin {"saving", "saying"}
<1>1. stage[p] = "starting" => After(p) = "react"
  BY DEF After
<1>2. stage[p] = "reacted" => After(p) = "observe"
  BY DEF After
<1>3. stage[p] = "observed" => After(p) = "react"
  BY DEF After
<1>4. stage[p] = "ending" => After(p) = "ended"
  BY DEF After
<1>5. stage[p] = "telling" => After(p) = "closing"
  BY DEF After
<1>6. stage[p] = "saving" => After(p) = "saved"
  BY DEF After
<1>7. stage[p] = "saying" => After(p) \in {"wait", "over"}
  BY DEF After
<1> QED
  BY <1>1, <1>2, <1>3, <1>4, <1>5, <1>6, <1>7 DEF Talking, OfWorker, OfMain

\* The threads are the workers and the one that calls evaluate().
LEMMA ThreadsAre ==
  /\ Main \in RunThreads /\ Workers \subseteq RunThreads /\ Main \notin Workers
  /\ Nobody \notin RunThreads /\ Nobody \notin Sessions
  /\ \A p \in RunThreads : p # Main => p \in Workers
BY DashboardAssumption DEF RunThreads

\* The sessions in some order.
LEMMA SessionsInOrder ==
  /\ SetToSeq(Sessions) \in Seq(Sessions)
  /\ \A i, j \in DOMAIN SetToSeq(Sessions) : SetToSeq(Sessions)[i] = SetToSeq(Sessions)[j] => i = j
<1> DEFINE n == Cardinality(Sessions)
<1>1. PICK m \in Nat : ExistsBijection(1 .. m, Sessions)
  BY DashboardAssumption, FS_NatBijection
<1>2. IsFiniteSet(1 .. m) /\ Cardinality(1 .. m) = m
  <2>1. 1 \in Int /\ m \in Int
    OBVIOUS
  <2>2. IsFiniteSet(1 .. m) /\ Cardinality(1 .. m) = IF 1 > m THEN 0 ELSE m - 1 + 1
    BY <2>1, FS_Interval
  <2> QED
    BY <2>2
<1>3. n = m
  BY <1>1, <1>2, FS_Bijection
<1>4. PICK f : f \in Bijection(1 .. m, Sessions)
  BY <1>1 DEF ExistsBijection
<1>5. f \in [1 .. n -> Sessions] /\ IsInjective(f)
  BY <1>3, <1>4 DEF Bijection, Injection, IsInjective
<1>6. SetToSeq(Sessions) \in [1 .. n -> Sessions] /\ IsInjective(SetToSeq(Sessions))
  BY <1>5 DEF SetToSeq
<1> HIDE DEF n
<1>7. n \in Nat
  BY <1>3
<1> QED
  BY <1>6, <1>7 DEF IsInjective

WorkStep(w) == Begin(w) \/ NeverStarts(w) \/ ReactSuccess(w) \/ Observe(w) \/ SessionEnds(w)
             \/ Tell(w) \/ EndWork(w) \/ Raise(w)

\* Threads put events alike, whoever they are.
LEMMA DashboardSteps ==
  ASSUME [DashboardNext]_dashboardVars
  PROVE  \/ \E p \in RunThreads : Talk(p)
         \/ \E w \in Workers : WorkStep(w)
         \/ ReportFailure \/ RunSucceeds \/ EmitSaved \/ RunStops
         \/ StartRun \/ Tick \/ UNCHANGED dashboardVars
BY ThreadsAre DEF DashboardNext, Run, Runner, Worker, WorkStep

\* What others do leaves a thread where it is.
LEMMA Untouched ==
  ASSUME NEW q \in RunThreads, ThreadInv(q),
         out'[q] = out[q], tries'[q] = tries[q], stage'[q] = stage[q],
         q # Main => doing'[q] = doing[q], lock' = q => lock = q
  PROVE  ThreadInv(q)'
BY DEF ThreadInv

LEMMA TalkThreads ==
  ASSUME DashboardInv, NEW p \in RunThreads, Talk(p), NEW q \in RunThreads
  PROVE  ThreadInv(q)'
<1>1. /\ stage \in [RunThreads -> OfMain \cup OfWorker] /\ out \in [RunThreads -> Entries]
      /\ tries \in [RunThreads -> 0 .. 2] /\ lock \in RunThreads \cup {Nobody}
      /\ ThreadInv(p) /\ ThreadInv(q) /\ p # Nobody
  BY ThreadsAre DEF DashboardInv, QueueTypes, DashboardTypeOK
<1>2. doing' = doing
  BY DEF Talk, Put, QueueIsFull, DropOldest, Lose, Pop, BatchMoved, sessions
<1>3. CASE q # p
  <2>1. out'[q] = out[q] /\ tries'[q] = tries[q] /\ stage'[q] = stage[q] /\ (lock' = q => lock = q)
    <3>1. CASE Put(p)
      BY <1>1, <1>3, <3>1 DEF Put, Said, observer
    <3>2. CASE QueueIsFull(p)
      BY <1>1, <1>3, <3>2 DEF QueueIsFull, observer
    <3>3. CASE DropOldest(p)
      BY <1>1, <1>3, <3>3 DEF DropOldest, observer
    <3>4. CASE Lose(p)
      BY <1>1, <1>3, <3>4, ThreadsAre DEF Lose
    <3>5. CASE Pop(p)
      BY <1>1, <1>3, <3>5 DEF Pop
    <3>6. CASE BatchMoved(p)
      BY <1>1, <1>3, <3>6, ThreadsAre DEF BatchMoved, queue
    <3> QED
      BY <3>1, <3>2, <3>3, <3>4, <3>5, <3>6 DEF Talk
  <2> QED
    BY <1>1, <1>2, <2>1, Untouched
<1>4. CASE q = p
  <2>1. stage[p] \in Talking
    BY <1>1 DEF Talk, Put, QueueIsFull, DropOldest, Lose, Pop, BatchMoved, Moves, ThreadInv
  <2>2. p # Main => stage[p] # "idle"
    BY <2>1 DEF Talking
  <2>3. After(p) \notin Talking /\ After(p) \in IF p = Main THEN OfMain ELSE OfWorker \ {"idle"}
    BY <1>1, <2>1, AfterIs DEF ThreadInv
  <2>4. p # Main => doing[p] \in Sessions
    BY <1>1, <2>2 DEF ThreadInv
  <2>5. CASE \/ stage'[p] = stage[p] /\ (tries'[p] # 0 => out'[p] # Silence)
             \/ /\ stage'[p] = After(p)
                /\ out'[p] = Silence /\ tries'[p] = 0 /\ lock' # p
    BY <1>1, <1>2, <1>4, <2>1, <2>3, <2>4, <2>5 DEF ThreadInv
  <2>6. CASE Put(p)
    BY <1>1, <2>5, <2>6 DEF Put, Said, Moves, observer
  <2>7. CASE QueueIsFull(p)
    BY <1>1, <2>5, <2>7 DEF QueueIsFull
  <2>8. CASE DropOldest(p)
    BY <1>1, <2>5, <2>8 DEF DropOldest, ThreadInv
  <2>9. CASE Lose(p)
    BY <1>1, <2>5, <2>9 DEF Lose, Moves
  <2>10. CASE Pop(p)
    BY <1>1, <2>5, <2>10 DEF Pop, ThreadInv
  <2>11. CASE BatchMoved(p)
    BY <1>1, <2>5, <2>11 DEF BatchMoved, queue, ThreadInv
  <2> QED
    BY <2>6, <2>7, <2>8, <2>9, <2>10, <2>11 DEF Talk
<1> QED
  BY <1>3, <1>4, <1>4

LEMMA WorkerThreads ==
  ASSUME DashboardInv, NEW w \in Workers, WorkStep(w), NEW q \in RunThreads
  PROVE  ThreadInv(q)'
<1>1. /\ stage \in [RunThreads -> OfMain \cup OfWorker] /\ out \in [RunThreads -> Entries]
      /\ tries \in [RunThreads -> 0 .. 2] /\ lock \in RunThreads \cup {Nobody}
      /\ doing \in [Workers -> Sessions \cup {Nobody}] /\ todo \in Seq(Sessions)
      /\ ThreadInv(w) /\ ThreadInv(q) /\ w \in RunThreads /\ w # Nobody /\ w # Main
  BY ThreadsAre DEF DashboardInv, QueueTypes, DashboardTypeOK
<1>2. CASE q # w
  <2>0. q # Main => q \in Workers
    BY ThreadsAre
  <2>1. CASE Begin(w)
    BY <1>1, <1>2, <2>0, <2>1, Untouched DEF Begin
  <2>2. CASE NeverStarts(w)
    BY <1>1, <1>2, <2>2, Untouched DEF NeverStarts, observer, queue
  <2>3. CASE ReactSuccess(w)
    BY <1>1, <1>2, <2>3, Untouched DEF ReactSuccess, Gather, queue
  <2>4. CASE Observe(w)
    BY <1>1, <1>2, <2>4, Untouched DEF Observe, Gather, queue, sessions
  <2>5. CASE SessionEnds(w)
    BY <1>1, <1>2, <2>5, Untouched DEF SessionEnds, queue, sessions
  <2>6. CASE Tell(w)
    BY <1>1, <1>2, <2>6, Untouched DEF Tell
  <2>7. CASE EndWork(w)
    BY <1>1, <1>2, <2>0, <2>7, Untouched DEF EndWork, Leaves, queue, observer
  <2>8. CASE Raise(w)
    BY <1>1, <1>2, <2>0, <2>8, Untouched DEF Raise, Leaves, queue, observer
  <2> QED
    BY <2>1, <2>2, <2>3, <2>4, <2>5, <2>6, <2>7, <2>8 DEF WorkStep
<1>3. CASE q = w
  <2>1. CASE stage[w] \notin Talking
    <3>0. out[w] = Silence /\ tries[w] = 0 /\ lock # w
      BY <1>1, <2>1 DEF ThreadInv
    <3>1. CASE Begin(w)
      <4>1. Head(todo) \in Sessions /\ doing'[w] = Head(todo)
        BY <1>1, <3>1 DEF Begin
      <4>2. stage'[w] = "starting" /\ tries'[w] = 0
        BY <1>1, <3>0, <3>1 DEF Begin
      <4> QED
        BY <1>1, <1>3, <4>1, <4>2 DEF ThreadInv, Talking, OfWorker
    <3>2. CASE NeverStarts(w)
      BY <1>1, <1>3, <3>2, Untouched DEF NeverStarts, observer, queue
    <3>3. CASE ReactSuccess(w)
      <4>1. stage[w] = "react" /\ UNCHANGED <<doing, out, tries>>
        BY <3>3 DEF ReactSuccess, queue
      <4>2. \/ stage'[w] = "reacted"
            \/ stage'[w] = "observe" /\ lock' = lock
        BY <1>1, <3>3 DEF ReactSuccess, Gather
      <4> QED
        BY <1>1, <1>3, <3>0, <4>1, <4>2 DEF ThreadInv, Talking, OfWorker
    <3>4. CASE Observe(w)
      <4>1. stage[w] = "observe" /\ UNCHANGED <<doing, out, tries>>
        BY <3>4 DEF Observe, queue, sessions
      <4>2. \/ stage'[w] = "observed"
            \/ stage'[w] = "react" /\ lock' = lock
        BY <1>1, <3>4 DEF Observe, Gather
      <4> QED
        BY <1>1, <1>3, <3>0, <4>1, <4>2 DEF ThreadInv, Talking, OfWorker
    <3>5. CASE SessionEnds(w)
      <4>1. stage'[w] = "ending" /\ stage[w] # "idle" /\ UNCHANGED <<doing, out, tries>>
        BY <1>1, <3>5 DEF SessionEnds, queue, sessions
      <4> QED
        BY <1>1, <1>3, <3>0, <4>1 DEF ThreadInv, Talking, OfWorker
    <3>6. CASE Tell(w)
      <4>1. stage'[w] = "telling" /\ stage[w] # "idle" /\ UNCHANGED <<doing, tries>>
        BY <1>1, <3>6 DEF Tell
      <4> QED
        BY <1>1, <1>3, <3>0, <4>1 DEF ThreadInv, Talking, OfWorker
    <3>7. CASE EndWork(w) \/ Raise(w)
      <4>1. stage'[w] = "idle" /\ UNCHANGED <<out, tries, lock>>
        BY <1>1, <3>7 DEF EndWork, Raise, Leaves, queue, observer
      <4> QED
        BY <1>1, <1>3, <3>0, <4>1 DEF ThreadInv, OfWorker
    <3> QED
      BY <3>1, <3>2, <3>3, <3>4, <3>5, <3>6, <3>7 DEF WorkStep
  <2>2. stage[w] \notin Talking
    BY DEF WorkStep, Begin, NeverStarts, ReactSuccess, Observe, SessionEnds, Tell, EndWork, Raise,
           Talking
  <2> QED
    BY <2>1, <2>2
<1> QED
  BY <1>2, <1>3

LEMMA ThreadStep ==
  ASSUME DashboardInv, [DashboardNext]_dashboardVars, NEW q \in RunThreads
  PROVE  ThreadInv(q)'
<1>1. /\ stage \in [RunThreads -> OfMain \cup OfWorker] /\ ThreadInv(q) /\ ThreadInv(Main)
      /\ out \in [RunThreads -> Entries]
  BY ThreadsAre DEF DashboardInv, QueueTypes
<1>2. Main \in RunThreads /\ Main # Nobody /\ q # Nobody /\ (q # Main => q \in Workers)
  BY ThreadsAre
<1>3. CASE \E p \in RunThreads : Talk(p)
  BY <1>3, TalkThreads
<1>4. CASE \E w \in Workers : WorkStep(w)
  BY <1>4, WorkerThreads
<1>5. CASE ReportFailure \/ RunSucceeds \/ EmitSaved \/ RunStops
  <2>1. /\ stage[Main] \notin Talking /\ UNCHANGED <<tries, doing>> /\ (lock' = lock \/ lock' = Main)
        /\ out' = out \/ EmitSaved
    BY <1>5 DEF ReportFailure, RunSucceeds, EmitSaved, RunStops, queue, observer, sessions, Talking
  <2>2. CASE q # Main
    <3>1. stage'[q] = stage[q] /\ out'[q] = out[q]
      BY <1>1, <1>5, <2>2 DEF ReportFailure, RunSucceeds, EmitSaved, RunStops, queue
    <3> QED
      BY <1>1, <2>1, <2>2, <3>1, Untouched
  <2>3. CASE q = Main
    <3>1. out[Main] = Silence /\ tries[Main] = 0 /\ lock # Main
      BY <1>1, <2>1 DEF ThreadInv
    <3>2. CASE ReportFailure \/ RunSucceeds
      <4>1. stage'[Main] = "saving"
        BY <1>1, <1>2, <3>2 DEF ReportFailure, RunSucceeds
      <4> QED
        BY <2>1, <2>3, <3>1, <4>1 DEF ThreadInv, Talking, OfMain
    <3>3. CASE EmitSaved
      <4>1. stage'[Main] = "saying"
        BY <1>1, <1>2, <3>3 DEF EmitSaved
      <4> QED
        BY <2>1, <2>3, <3>1, <4>1 DEF ThreadInv, Talking, OfMain
    <3>4. CASE RunStops
      <4>1. stage'[Main] = "over" /\ UNCHANGED <<out, lock>>
        BY <1>1, <1>2, <3>4 DEF RunStops, queue, observer
      <4> QED
        BY <2>1, <2>3, <3>1, <4>1 DEF ThreadInv, OfMain
    <3> QED
      BY <1>5, <3>2, <3>3, <3>4
  <2> QED
    BY <2>2, <2>3
<1>6. CASE StartRun
  <2>1. /\ stage'[q] = IF q = Main THEN "wait" ELSE "idle"
        /\ out'[q] = Silence /\ tries'[q] = 0 /\ lock' = Nobody
    BY <1>6 DEF StartRun, Fresh
  <2> QED
    BY <1>2, <2>1 DEF ThreadInv, OfMain, OfWorker
<1>7. CASE Tick
  BY <1>1, <1>7, Untouched DEF Tick, sessions, observer
<1>8. CASE UNCHANGED dashboardVars
  BY <1>1, <1>8, Untouched DEF dashboardVars, sessions, observer, queue
<1> QED
  BY <1>3, <1>4, <1>5, <1>6, <1>7, <1>8, DashboardSteps

------------------------------------------------------------------------------
(* Dashboard: what is put and taken.                                        *)

\* A tick takes the first events of the queue and leaves the rest.
LEMMA TickLeaves ==
  ASSUME events \in Seq(Entries), Tick
  PROVE  /\ events' \in Seq(Entries) /\ Taken \in Seq(Entries) /\ Len(events') <= Len(events)
         /\ \A i \in DOMAIN events' : \E j \in DOMAIN events : events'[i] = events[j]
         /\ \A i \in DOMAIN Taken : i \in DOMAIN events /\ Taken[i] = events[i]
         /\ Len(events) = Len(Taken) + Len(events')
         /\ \A i \in 1 .. Len(events') : events[Len(Taken) + i] = events'[i]
<1> DEFINE l == Len(events)
           k == IF l < TickSize THEN l ELSE TickSize
           n == Len(Taken)
<1>1. l \in Nat /\ DOMAIN events = 1 .. l /\ k \in 0 .. l
  BY DashboardAssumption
<1>2. Taken = [i \in 1 .. k |-> events[i]]
  <2>1. Taken = SubSeq(events, 1, k)
    BY DEF Taken
  <2> HIDE DEF k
  <2>2. SubSeq(events, 1, k) = [i \in 1 .. 1 + k - 1 |-> events[1 + i - 1]]
    BY <1>1
  <2> QED
    BY <1>1, <2>1, <2>2
<1>3. n = k
  <2> HIDE DEF k
  <2> QED
    BY <1>1, <1>2
<1>4. events' = [i \in 1 .. l - k |-> events[k + i]]
  <2>1. events' = SubSeq(events, k + 1, l)
    BY <1>3 DEF Tick
  <2> HIDE DEF k, l
  <2>2. SubSeq(events, k + 1, l) = [i \in 1 .. 1 + l - (k + 1) |-> events[k + 1 + i - 1]]
    BY <1>1
  <2>3. 1 + l - (k + 1) = l - k /\ \A i \in 1 .. l - k : k + 1 + i - 1 = k + i
    BY <1>1
  <2> QED
    BY <2>1, <2>2, <2>3
<1> HIDE DEF k, n
<1>5. \A i \in 1 .. l - k : k + i \in 1 .. l /\ events[k + i] \in Entries
  BY <1>1
<1>6. events' \in Seq(Entries) /\ DOMAIN events' = 1 .. l - k /\ Len(events') = l - k
  <2>1. l - k \in Nat
    BY <1>1
  <2> HIDE DEF l
  <2>2. events' \in [1 .. l - k -> Entries]
    BY <1>4, <1>5
  <2> QED
    BY <2>1, <2>2
<1>7. \A i \in DOMAIN events' : k + i \in DOMAIN events /\ events'[i] = events[k + i]
  BY <1>1, <1>4, <1>5, <1>6
<1>8. l - k <= l
  BY <1>1
<1>9. \A i \in DOMAIN Taken : i \in DOMAIN events /\ Taken[i] = events[i]
  BY <1>1, <1>2
<1>10. Taken \in Seq(Entries)
  <2>1. k \in Nat /\ \A i \in 1 .. k : events[i] \in Entries
    BY <1>1
  <2>2. Taken \in [1 .. k -> Entries]
    BY <1>2, <2>1
  <2> QED
    BY <2>1, <2>2
<1>11. l = n + Len(events') /\ \A i \in 1 .. Len(events') : events[n + i] = events'[i]
  BY <1>1, <1>3, <1>4, <1>6
<1> QED
  BY <1>6, <1>7, <1>8, <1>9, <1>10, <1>11 DEF n

\* The queue and what waits for it hold events.
LEMMA QueueStep == DashboardInv /\ [DashboardNext]_dashboardVars => QueueTypes'
<1> SUFFICES ASSUME DashboardInv, [DashboardNext]_dashboardVars PROVE QueueTypes'
  OBVIOUS
<1>1. /\ stage \in [RunThreads -> OfMain \cup OfWorker] /\ out \in [RunThreads -> Entries]
      /\ pending \in Seq(Entries) /\ events \in Seq(Entries)
  BY DEF DashboardInv, QueueTypes
<1>2. stage' \in [RunThreads -> OfMain \cup OfWorker]
  <2>1. \A q \in RunThreads : stage'[q] \in OfMain \cup OfWorker
    BY ThreadStep DEF ThreadInv
  <2>2. \E S : stage' \in [RunThreads -> S]
    <3>1. CASE \E p \in RunThreads : Talk(p)
      <4>1. PICK p \in RunThreads : Talk(p)
        BY <3>1
      <4>2. stage' = stage \/ stage' = [stage EXCEPT ![p] = After(p)]
        BY <4>1 DEF Talk, Put, Said, QueueIsFull, DropOldest, Lose, Pop, BatchMoved
      <4>3. stage' \in [RunThreads -> OfMain \cup OfWorker \cup {After(p)}]
        BY <1>1, <4>2
      <4> QED
        BY <4>3
    <3>2. CASE \E w \in Workers : WorkStep(w)
      <4>1. PICK w \in Workers : WorkStep(w)
        BY <3>2
      <4>2. \E v \in OfWorker : stage' = [stage EXCEPT ![w] = v] \/ stage' = stage
        BY <4>1 DEF WorkStep, Begin, NeverStarts, ReactSuccess, Observe, SessionEnds, Tell, EndWork,
                    Raise, Leaves, Gather, OfWorker
      <4>3. stage' \in [RunThreads -> OfMain \cup OfWorker]
        BY <1>1, <4>2
      <4> QED
        BY <4>3
    <3>3. CASE ReportFailure \/ RunSucceeds \/ EmitSaved \/ RunStops
      <4>1. \E v \in OfMain : stage' = [stage EXCEPT ![Main] = v]
        BY <3>3 DEF ReportFailure, RunSucceeds, EmitSaved, RunStops, OfMain
      <4>2. stage' \in [RunThreads -> OfMain \cup OfWorker]
        BY <1>1, <4>1
      <4> QED
        BY <4>2
    <3>4. CASE StartRun
      <4>1. stage' = [p \in RunThreads |-> IF p = Main THEN "wait" ELSE "idle"]
        BY <3>4 DEF StartRun
      <4>2. stage' \in [RunThreads -> {"wait", "idle"}]
        BY <4>1
      <4> QED
        BY <4>2
    <3>5. CASE Tick \/ UNCHANGED dashboardVars
      <4>1. stage' = stage
        BY <3>5 DEF Tick, dashboardVars
      <4> QED
        BY <1>1, <4>1
    <3> QED
      BY <3>1, <3>2, <3>3, <3>4, <3>5, DashboardSteps
  <2> QED
    BY <2>1, <2>2
<1>3. \A type \in {"session_started", "step", "observation", "benchmark_recorded", "saved"} :
        \A s \in Sessions \cup {Nobody} : Event(type, s) \in Entries
  BY DEF Event, Entries
<1>4. Silence \in Entries
  BY DEF Entries
<1>5. CASE \E p \in RunThreads : Talk(p)
  <2>1. PICK p \in RunThreads : Talk(p)
    BY <1>5
  <2>2. CASE Put(p)
    BY <1>1, <1>2, <1>4, <2>2 DEF Put, Said, observer, QueueTypes
  <2>3. CASE QueueIsFull(p)
    BY <1>1, <1>2, <2>3 DEF QueueIsFull, observer, QueueTypes
  <2>4. CASE DropOldest(p)
    <3>1. events' \in Seq(Entries)
      BY <1>1, <2>4 DEF DropOldest
    <3> QED
      BY <1>1, <1>2, <2>4, <3>1 DEF DropOldest, observer, QueueTypes
  <2>5. CASE Lose(p)
    BY <1>1, <1>2, <1>4, <2>5 DEF Lose, QueueTypes
  <2>6. CASE Pop(p)
    <3>1. Head(pending) \in Entries /\ pending' \in Seq(Entries)
      BY <1>1, <2>6 DEF Pop
    <3> QED
      BY <1>1, <1>2, <2>6, <3>1 DEF Pop, QueueTypes
  <2>7. CASE BatchMoved(p)
    BY <1>1, <1>2, <2>7 DEF BatchMoved, queue, QueueTypes
  <2> QED
    BY <2>1, <2>2, <2>3, <2>4, <2>5, <2>6, <2>7 DEF Talk
<1>6. CASE \E w \in Workers : WorkStep(w)
  <2>1. PICK w \in Workers : WorkStep(w)
    BY <1>6
  <2>2. ThreadInv(w) /\ w # Main /\ w \in RunThreads
    BY ThreadsAre DEF DashboardInv
  <2>3. count \in [Sessions -> Nat] /\ todo \in Seq(Sessions)
    BY DEF DashboardInv, DashboardTypeOK
  <2>4. CASE Begin(w)
    <3>1. Head(todo) \in Sessions
      BY <2>3, <2>4 DEF Begin
    <3>2. out' = [out EXCEPT ![w] = Event("session_started", Head(todo))]
      BY <2>4 DEF Begin
    <3>3. out' \in [RunThreads -> Entries]
      BY <1>1, <1>3, <3>1, <3>2
    <3> QED
      BY <1>1, <1>2, <2>4, <3>3 DEF Begin, QueueTypes
  <2>5. CASE NeverStarts(w) \/ SessionEnds(w) \/ EndWork(w) \/ Raise(w)
    <3>1. UNCHANGED <<out, pending, events>>
      BY <2>5 DEF NeverStarts, SessionEnds, EndWork, Raise, observer, queue
    <3> QED
      BY <1>1, <1>2, <3>1 DEF QueueTypes
  <2>6. CASE ReactSuccess(w) \/ Observe(w)
    <3>1. doing[w] \in Sessions
      BY <2>2, <2>6 DEF ReactSuccess, Observe, ThreadInv
    <3>2. PICK e \in {Event("step", doing[w]), Event("observation", doing[w])} :
            pending' = Append(pending, e)
      BY <2>6 DEF ReactSuccess, Observe, Gather
    <3>3. e \in Entries
      BY <1>3, <3>1, <3>2
    <3>4. pending' \in Seq(Entries)
      BY <1>1, <3>2, <3>3
    <3>5. UNCHANGED <<out, events>>
      BY <2>6 DEF ReactSuccess, Observe, queue
    <3> QED
      BY <1>1, <1>2, <3>4, <3>5 DEF QueueTypes
  <2>7. CASE Tell(w)
    <3>1. doing[w] \in Sessions
      BY <2>2, <2>7 DEF Tell, ThreadInv
    <3>2. PICK o \in Outcomes :
            out' = [out EXCEPT ![w] = [type |-> "session_finished", session |-> doing[w],
                                       status |-> o, steps |-> count[doing[w]]]]
      BY <2>7 DEF Tell
    <3>3. [type |-> "session_finished", session |-> doing[w],
           status |-> o, steps |-> count[doing[w]]] \in Entries
      BY <2>3, <3>1 DEF Entries
    <3>4. out' \in [RunThreads -> Entries]
      BY <1>1, <3>2, <3>3
    <3> QED
      BY <1>1, <1>2, <2>7, <3>4 DEF Tell, QueueTypes
  <2> QED
    BY <2>1, <2>4, <2>5, <2>6, <2>7 DEF WorkStep
<1>7. CASE ReportFailure \/ RunStops
  BY <1>1, <1>2, <1>7 DEF ReportFailure, RunStops, observer, queue, QueueTypes
<1>8. CASE RunSucceeds
  <2>1. pending' \in Seq(Entries)
    BY <1>1, <1>3, <1>8 DEF RunSucceeds
  <2> QED
    BY <1>1, <1>2, <1>8, <2>1 DEF RunSucceeds, queue, QueueTypes
<1>9. CASE EmitSaved
  <2>1. out' \in [RunThreads -> Entries]
    BY <1>1, <1>3, <1>9 DEF EmitSaved
  <2> QED
    BY <1>1, <1>2, <1>9, <2>1 DEF EmitSaved, observer, QueueTypes
<1>10. CASE StartRun
  <2>1. pending' = <<>> /\ events' = <<>> /\ out' = [p \in RunThreads |-> Silence]
    BY <1>10 DEF StartRun, Fresh
  <2>2. out' \in [RunThreads -> Entries]
    BY <1>4, <2>1
  <2> QED
    BY <1>2, <2>1, <2>2 DEF QueueTypes
<1>11. CASE Tick
  BY <1>1, <1>2, <1>11, TickLeaves DEF Tick, observer, QueueTypes
<1>12. CASE UNCHANGED dashboardVars
  BY <1>1, <1>2, <1>12 DEF dashboardVars, observer, queue, QueueTypes
<1> QED
  BY <1>5, <1>6, <1>7, <1>8, <1>9, <1>10, <1>11, <1>12, DashboardSteps

\* Every step keeps the types.
LEMMA DashboardTypeStep == DashboardInv /\ [DashboardNext]_dashboardVars => DashboardTypeOK'
<1> SUFFICES ASSUME DashboardInv, [DashboardNext]_dashboardVars PROVE DashboardTypeOK'
  OBVIOUS
<1> USE DEF DashboardTypeOK
<1>1. DashboardTypeOK /\ events \in Seq(Entries)
  BY DEF DashboardInv, QueueTypes
<1>2. CASE \E p \in RunThreads : Talk(p)
  <2>1. PICK p \in RunThreads : Talk(p)
    BY <1>2
  <2>2. UNCHANGED <<active, stale, listed, crew, todo, doing, failure, results, count>>
    BY <2>1 DEF Talk, Put, QueueIsFull, DropOldest, Lose, Pop, BatchMoved, ui, sessions, observer
  <2>3. CASE Put(p)
    <3>1. Len(events') = Len(events) + 1 /\ Len(events) \in Nat /\ Len(events) < Capacity
          /\ Capacity \in Nat
      BY <1>1, <2>3, DashboardAssumption DEF Put
    <3>2. Len(events') <= Capacity
      BY ONLY <3>1
    <3>3. tries' \in [RunThreads -> 0 .. 2] /\ lock' = lock
      BY <1>1, <2>3 DEF Put, Said, observer
    <3> QED
      BY <1>1, <2>2, <3>2, <3>3
  <2>4. CASE QueueIsFull(p)
    <3>1. tries' \in [RunThreads -> 0 .. 2] /\ UNCHANGED <<lock, events>>
      BY <1>1, <2>4 DEF QueueIsFull, observer
    <3> QED
      BY <1>1, <2>2, <3>1
  <2>5. CASE DropOldest(p)
    <3>1. Len(events') = Len(events) - 1 /\ Len(events) \in Nat /\ Capacity \in Nat
      BY <1>1, <2>5, DashboardAssumption DEF DropOldest
    <3>2. tries' \in [RunThreads -> 0 .. 2] /\ UNCHANGED lock
      BY <1>1, <2>5 DEF DropOldest, observer
    <3>3. Len(events') <= Capacity
      BY <1>1, <3>1
    <3> QED
      BY <1>1, <2>2, <3>2, <3>3
  <2>6. CASE Lose(p)
    <3>1. tries' \in [RunThreads -> 0 .. 2] /\ lock' \in {lock, Nobody} /\ UNCHANGED events
      BY <1>1, <2>6 DEF Lose
    <3> QED
      BY <1>1, <2>2, <3>1
  <2>7. CASE Pop(p)
    <3>1. UNCHANGED <<tries, lock, events>>
      BY <2>7 DEF Pop
    <3> QED
      BY <1>1, <2>2, <3>1
  <2>8. CASE BatchMoved(p)
    <3>1. UNCHANGED <<tries, events>> /\ lock' = Nobody
      BY <2>8 DEF BatchMoved, queue
    <3> QED
      BY <1>1, <2>2, <3>1
  <2> QED
    BY <2>1, <2>3, <2>4, <2>5, <2>6, <2>7, <2>8 DEF Talk
<1>3. CASE \E w \in Workers : WorkStep(w)
  <2>1. PICK w \in Workers : WorkStep(w)
    BY <1>3
  <2>2. ThreadInv(w) /\ w \in RunThreads /\ w # Main
    BY ThreadsAre DEF DashboardInv
  <2>3. UNCHANGED <<active, stale, listed, crew, results, tries, events>>
    BY <2>1 DEF WorkStep, Begin, NeverStarts, ReactSuccess, Observe, SessionEnds, Tell, EndWork,
                Raise, ui, sessions, queue
  <2>4. lock' \in {lock, w}
    BY <2>1 DEF WorkStep, Begin, NeverStarts, ReactSuccess, Observe, SessionEnds, Tell, EndWork,
                Raise, Gather, observer
  <2>5. failure' \in BOOLEAN
    BY <1>1, <2>1 DEF WorkStep, Begin, NeverStarts, ReactSuccess, Observe, SessionEnds, Tell, EndWork,
                Raise, sessions
  <2>6. CASE Begin(w)
    <3>1. Head(todo) \in Sessions /\ todo' \in Seq(Sessions)
      BY <1>1, <2>6 DEF Begin
    <3>2. doing' = [doing EXCEPT ![w] = Head(todo)] /\ count' = [count EXCEPT ![Head(todo)] = 0]
      BY <2>6 DEF Begin
    <3>3. doing' \in [Workers -> Sessions \cup {Nobody}] /\ count' \in [Sessions -> Nat]
      BY <1>1, <3>1, <3>2
    <3> QED
      BY <1>1, <2>2, <2>3, <2>4, <2>5, <3>1, <3>3
  <2>7. CASE NeverStarts(w)
    <3>1. todo' \in Seq(Sessions) /\ UNCHANGED <<doing, count>>
      BY <1>1, <2>7 DEF NeverStarts, observer
    <3> QED
      BY <1>1, <2>2, <2>3, <2>4, <2>5, <3>1
  <2>8. CASE ReactSuccess(w) \/ Tell(w)
    <3>1. doing[w] \in Sessions /\ UNCHANGED <<doing, todo>>
      BY <2>2, <2>8 DEF ReactSuccess, Tell, ThreadInv
    <3>2. \E n \in Nat : count' = [count EXCEPT ![doing[w]] = n]
      <4>1. count[doing[w]] + 1 \in Nat /\ 0 \in Nat
        BY <1>1, <3>1
      <4> QED
        BY <2>8, <4>1 DEF ReactSuccess, Tell
    <3>3. count' \in [Sessions -> Nat]
      BY <1>1, <3>2
    <3> QED
      BY <1>1, <2>2, <2>3, <2>4, <2>5, <3>1, <3>3
  <2>9. CASE Observe(w) \/ SessionEnds(w)
    <3>1. UNCHANGED <<doing, todo, count>>
      BY <2>9 DEF Observe, SessionEnds, sessions
    <3> QED
      BY <1>1, <2>2, <2>3, <2>4, <2>5, <3>1
  <2>10. CASE EndWork(w) \/ Raise(w)
    <3>1. doing' = [doing EXCEPT ![w] = Nobody] /\ UNCHANGED count
      BY <2>10 DEF EndWork, Raise, Leaves, observer
    <3>2. doing' \in [Workers -> Sessions \cup {Nobody}]
      BY <1>1, <3>1
    <3>3. todo' \in Seq(Sessions)
      <4>1. todo' = todo \/ (stage[w] # "idle" /\ todo' = <<doing[w]>> \o todo)
        BY <2>10 DEF EndWork, Raise
      <4>2. stage[w] # "idle" => doing[w] \in Sessions
        BY <2>2 DEF ThreadInv
      <4>3. CASE todo' = todo
        BY <1>1, <4>3
      <4>4. CASE stage[w] # "idle" /\ todo' = <<doing[w]>> \o todo
        <5>1. <<doing[w]>> \in Seq(Sessions) /\ todo \in Seq(Sessions)
          BY <1>1, <4>2, <4>4
        <5> QED
          BY <4>4, <5>1
      <4> QED
        BY <4>1, <4>3, <4>4
    <3> QED
      BY <1>1, <2>2, <2>3, <2>4, <2>5, <3>1, <3>2, <3>3
  <2> QED
    BY <2>1, <2>6, <2>7, <2>8, <2>9, <2>10 DEF WorkStep
<1>4. CASE ReportFailure \/ RunSucceeds \/ EmitSaved \/ RunStops
  <2>1. UNCHANGED <<active, stale, listed, crew, todo, doing, failure, count, tries, events>>
    BY <1>4 DEF ReportFailure, RunSucceeds, EmitSaved, RunStops, ui, sessions, observer, queue
  <2>2. lock' \in {lock, Main} /\ results' \in {results, TRUE}
    BY <1>4 DEF ReportFailure, RunSucceeds, EmitSaved, RunStops, observer, sessions
  <2> QED
    BY <1>1, <2>1, <2>2, ThreadsAre
<1>5. CASE StartRun
  <2>1. active' \in BOOLEAN /\ stale' \in BOOLEAN /\ listed' \in BOOLEAN /\ crew' \subseteq Workers
    BY <1>5, DashboardAssumption DEF StartRun
  <2>2. todo' \in Seq(Sessions)
    BY <1>5, SessionsInOrder DEF StartRun
  <2>3. /\ failure' \in BOOLEAN /\ results' \in BOOLEAN /\ lock' = Nobody
        /\ doing' = [w \in Workers |-> Nobody] /\ count' = [s \in Sessions |-> 0]
        /\ tries' = [p \in RunThreads |-> 0] /\ events' = <<>>
    BY <1>5 DEF StartRun, Fresh
  <2>4. /\ doing' \in [Workers -> Sessions \cup {Nobody}] /\ count' \in [Sessions -> Nat]
        /\ tries' \in [RunThreads -> 0 .. 2]
    BY <2>3
  <2>5. Len(events') <= Capacity
    BY <2>3, DashboardAssumption
  <2> QED
    BY <2>1, <2>2, <2>3, <2>4, <2>5
<1>6. CASE Tick
  <2>1. UNCHANGED <<crew, todo, doing, failure, results, count, lock, tries>>
    BY <1>6 DEF Tick, sessions, observer
  <2>2. active' \in BOOLEAN /\ stale' \in BOOLEAN /\ listed' \in BOOLEAN
    BY <1>1, <1>6 DEF Tick
  <2>3. Len(events') <= Capacity
    <3>1. Len(events') <= Len(events) /\ Len(events) \in Nat /\ Len(events') \in Nat
      BY <1>1, <1>6, TickLeaves
    <3> QED
      BY <1>1, <3>1, DashboardAssumption
  <2> QED
    BY <1>1, <2>1, <2>2, <2>3
<1>7. CASE UNCHANGED dashboardVars
  BY <1>1, <1>7 DEF dashboardVars, ui, sessions, observer, queue
<1> QED
  BY <1>2, <1>3, <1>4, <1>5, <1>6, <1>7, DashboardSteps

\* Nothing says that the results are saved before they are.
LEMMA SavedInvStep == DashboardInv /\ [DashboardNext]_dashboardVars => SavedInv'
<1> SUFFICES ASSUME DashboardInv, [DashboardNext]_dashboardVars PROVE SavedInv'
  OBVIOUS
<1>1. /\ SavedInv /\ Main \in RunThreads /\ ThreadInv(Main)
      /\ stage \in [RunThreads -> OfMain \cup OfWorker] /\ out \in [RunThreads -> Entries]
      /\ pending \in Seq(Entries) /\ events \in Seq(Entries)
  BY ThreadsAre DEF DashboardInv, QueueTypes
<1>2. Silence.type # "saved"
  BY DEF Silence
<1>3. ASSUME UNCHANGED <<pending, events>>, results => results',
             stage'[Main] \in {"saving", "saved", "saying"} => results',
             \A p \in RunThreads : out'[p] = out[p] \/ (out'[p].type = "saved" => results')
      PROVE  SavedInv'
  BY <1>1, <1>3 DEF SavedInv
<1>4. CASE \E p \in RunThreads : Talk(p)
  <2>1. PICK p \in RunThreads : Talk(p)
    BY <1>4
  <2>2. results' = results
    BY <2>1 DEF Talk, Put, QueueIsFull, DropOldest, Lose, Pop, BatchMoved, sessions
  <2>3. stage'[Main] \in {"saving", "saved", "saying"} => results
    <3>1. CASE stage'[Main] = stage[Main]
      BY <1>1, <3>1 DEF SavedInv
    <3>2. CASE stage'[Main] # stage[Main]
      <4>1. p = Main /\ stage'[Main] = After(Main)
        BY <1>1, <2>1, <3>2 DEF Talk, Put, Said, QueueIsFull, DropOldest, Lose, Pop, BatchMoved
      <4>2. stage[Main] \in Talking
        BY <1>1, <2>1, <4>1 DEF Talk, Put, QueueIsFull, DropOldest, Lose, Pop, BatchMoved, Moves,
                                ThreadInv
      <4>3. After(Main) \notin {"saving", "saying"} /\ (After(Main) = "saved" => stage[Main] = "saving")
        BY <4>2, AfterIs
      <4> QED
        BY <1>1, <4>1, <4>3 DEF SavedInv
    <3> QED
      BY <3>1, <3>2
  <2>4. CASE Put(p)
    <3>1. /\ events' = Append(events, out[p]) /\ out' = [out EXCEPT ![p] = Silence]
          /\ UNCHANGED pending
      BY <2>4 DEF Put, Said, observer
    <3>2. \A i \in DOMAIN events' : events'[i] = out[p] \/ (i \in DOMAIN events /\ events'[i] = events[i])
      BY <1>1, <3>1
    <3>3. \A q \in RunThreads : out'[q] = Silence \/ out'[q] = out[q]
      BY <1>1, <3>1
    <3>4. \A i \in DOMAIN events' : events'[i].type = "saved" => results
      BY <1>1, <3>2 DEF SavedInv
    <3>5. \A q \in RunThreads : out'[q].type = "saved" => results
      BY <1>1, <1>2, <3>3 DEF SavedInv
    <3> QED
      BY <1>1, <2>2, <2>3, <3>1, <3>4, <3>5 DEF SavedInv
  <2>5. CASE QueueIsFull(p)
    BY <1>3, <2>2, <2>3, <2>5 DEF QueueIsFull, observer
  <2>6. CASE DropOldest(p)
    <3>1. events' = Tail(events) /\ events # <<>> /\ UNCHANGED <<out, pending>>
      BY <2>6 DEF DropOldest, observer
    <3>2. \A i \in DOMAIN events' : i + 1 \in DOMAIN events /\ events'[i] = events[i + 1]
      BY <1>1, <3>1
    <3>3. \A i \in DOMAIN events' : events'[i].type = "saved" => results
      BY <1>1, <3>2 DEF SavedInv
    <3> QED
      BY <1>1, <2>2, <2>3, <3>1, <3>3 DEF SavedInv
  <2>7. CASE Lose(p)
    <3>1. \A q \in RunThreads : out'[q] = Silence \/ out'[q] = out[q]
      BY <1>1, <2>7 DEF Lose
    <3>2. UNCHANGED <<pending, events>>
      BY <2>7 DEF Lose
    <3> QED
      BY <1>2, <1>3, <2>2, <2>3, <3>1, <3>2
  <2>8. CASE Pop(p)
    <3>1. /\ out' = [out EXCEPT ![p] = Head(pending)] /\ pending' = Tail(pending)
          /\ pending # <<>> /\ UNCHANGED events
      BY <2>8 DEF Pop
    <3>2. 1 \in DOMAIN pending /\ Head(pending) = pending[1]
      BY <1>1, <3>1
    <3>3. \A i \in DOMAIN pending' : i + 1 \in DOMAIN pending /\ pending'[i] = pending[i + 1]
      BY <1>1, <3>1
    <3>4. \A i \in DOMAIN pending' : pending'[i].type # "saved"
      BY <1>1, <3>3 DEF SavedInv
    <3>5. \A q \in RunThreads : out'[q] = out[q] \/ out'[q] = pending[1]
      BY <1>1, <3>1, <3>2
    <3>6. \A q \in RunThreads : out'[q].type = "saved" => results
      BY <1>1, <3>2, <3>5 DEF SavedInv
    <3> QED
      BY <1>1, <2>2, <2>3, <3>1, <3>4, <3>6 DEF SavedInv
  <2>9. CASE BatchMoved(p)
    BY <1>3, <2>2, <2>3, <2>9 DEF BatchMoved, queue
  <2> QED
    BY <2>1, <2>4, <2>5, <2>6, <2>7, <2>8, <2>9 DEF Talk
<1>5. CASE \E w \in Workers : WorkStep(w)
  <2>1. PICK w \in Workers : WorkStep(w)
    BY <1>5
  <2>2. results' = results /\ events' = events
    BY <2>1 DEF WorkStep, Begin, NeverStarts, ReactSuccess, Observe, SessionEnds, Tell, EndWork,
                Raise, sessions, queue
  <2>3. stage'[Main] = stage[Main]
    BY <1>1, <2>1, ThreadsAre
       DEF WorkStep, Begin, NeverStarts, ReactSuccess, Observe, SessionEnds, Tell, EndWork,
           Raise, Leaves, Gather
  <2>4. stage'[Main] \in {"saving", "saved", "saying"} => results'
    BY <1>1, <2>2, <2>3 DEF SavedInv
  <2>5. CASE Begin(w) \/ Tell(w)
    <3>1. PICK e : out' = [out EXCEPT ![w] = e] /\ e.type \in {"session_started", "session_finished"}
      <4>1. CASE Begin(w)
        <5>1. Event("session_started", Head(todo)).type = "session_started"
          BY DEF Event
        <5> QED
          BY <4>1, <5>1 DEF Begin
      <4>2. CASE Tell(w)
        <5>1. PICK o \in Outcomes :
                out' = [out EXCEPT ![w] = [type |-> "session_finished", session |-> doing[w],
                                           status |-> o, steps |-> count[doing[w]]]]
          BY <4>2 DEF Tell
        <5> DEFINE told == [type |-> "session_finished", session |-> doing[w],
                           status |-> o, steps |-> count[doing[w]]]
        <5>2. told.type = "session_finished" /\ out' = [out EXCEPT ![w] = told]
          BY <5>1
        <5> HIDE DEF told
        <5> QED
          BY <5>2
      <4> QED
        BY <2>5, <4>1, <4>2
    <3>2. \A p \in RunThreads : out'[p] = out[p] \/ out'[p] = e
      BY <1>1, <3>1
    <3>3. e.type # "saved"
      BY <3>1
    <3>4. UNCHANGED pending
      BY <2>5 DEF Begin, Tell
    <3> QED
      BY <1>3, <2>2, <2>4, <3>2, <3>3, <3>4
  <2>6. CASE ReactSuccess(w) \/ Observe(w)
    <3>1. PICK e \in {Event("step", doing[w]), Event("observation", doing[w])} :
            pending' = Append(pending, e)
      BY <2>6 DEF ReactSuccess, Observe, Gather
    <3>2. e.type # "saved"
      BY <3>1 DEF Event
    <3>3. out' = out
      BY <2>6 DEF ReactSuccess, Observe, queue
    <3>4. \A i \in DOMAIN pending' : pending'[i] = e \/ (i \in DOMAIN pending /\ pending'[i] = pending[i])
      BY <1>1, <3>1
    <3>5. \A i \in DOMAIN pending' : pending'[i].type # "saved"
      BY <1>1, <3>2, <3>4 DEF SavedInv
    <3> QED
      BY <1>1, <2>2, <2>4, <3>3, <3>5 DEF SavedInv
  <2>7. CASE NeverStarts(w) \/ SessionEnds(w) \/ EndWork(w) \/ Raise(w)
    <3>1. UNCHANGED <<out, pending>>
      BY <2>7 DEF NeverStarts, SessionEnds, EndWork, Raise, observer, queue
    <3> QED
      BY <1>3, <2>2, <2>4, <3>1
  <2> QED
    BY <2>1, <2>5, <2>6, <2>7 DEF WorkStep
<1>6. CASE ReportFailure
  BY <1>3, <1>6 DEF ReportFailure, queue
<1>7. CASE RunSucceeds
  <2>1. pending' = Append(pending, Event("benchmark_recorded", Nobody)) /\ results' /\ UNCHANGED queue
    BY <1>7 DEF RunSucceeds
  <2>2. \A i \in DOMAIN pending' : pending'[i] = Event("benchmark_recorded", Nobody)
                                   \/ (i \in DOMAIN pending /\ pending'[i] = pending[i])
    BY <1>1, <2>1
  <2>3. Event("benchmark_recorded", Nobody).type # "saved"
    BY DEF Event
  <2>4. \A i \in DOMAIN pending' : pending'[i].type # "saved"
    BY <1>1, <2>2, <2>3 DEF SavedInv
  <2> QED
    BY <1>1, <2>1, <2>4 DEF SavedInv, queue
<1>8. CASE EmitSaved
  <2>1. results /\ UNCHANGED <<results, pending, events>>
    BY <1>1, <1>8 DEF EmitSaved, SavedInv, sessions, observer
  <2> QED
    BY <1>3, <2>1
<1>9. CASE RunStops
  <2>1. stage'[Main] = "over" /\ UNCHANGED <<results, out, pending, events>>
    BY <1>1, <1>9 DEF RunStops, sessions, observer, queue
  <2> QED
    BY <1>3, <2>1
<1>10. CASE StartRun
  <2>1. /\ stage'[Main] = "wait" /\ pending' = <<>> /\ events' = <<>>
        /\ \A p \in RunThreads : out'[p] = Silence
    BY <1>1, <1>10 DEF StartRun, Fresh
  <2> QED
    BY <1>2, <2>1 DEF SavedInv
<1>11. CASE Tick
  <2>1. UNCHANGED <<results, stage, out, pending>>
    BY <1>11 DEF Tick, sessions, observer
  <2>2. \A i \in DOMAIN events' : \E j \in DOMAIN events : events'[i] = events[j]
    BY <1>1, <1>11, TickLeaves
  <2> QED
    BY <1>1, <2>1, <2>2 DEF SavedInv
<1>12. CASE UNCHANGED dashboardVars
  BY <1>1, <1>12 DEF dashboardVars, sessions, observer, queue, SavedInv
<1> QED
  BY <1>4, <1>5, <1>6, <1>7, <1>8, <1>9, <1>10, <1>11, <1>12, DashboardSteps

\* The leaderboard has the results whenever the button is free.
LEMMA FreshStep == DashboardInv /\ [DashboardNext]_dashboardVars => FreshInv'
<1> SUFFICES ASSUME DashboardInv, [DashboardNext]_dashboardVars PROVE FreshInv'
  OBVIOUS
<1>1. /\ FreshInv /\ SavedInv /\ Main \in RunThreads /\ ThreadInv(Main)
      /\ active \in BOOLEAN /\ results \in BOOLEAN /\ listed \in BOOLEAN
      /\ stage \in [RunThreads -> OfMain \cup OfWorker] /\ events \in Seq(Entries)
  BY ThreadsAre DEF DashboardInv, QueueTypes, DashboardTypeOK
<1>2. ASSUME UNCHANGED <<active, listed, results>>, stage[Main] = "over" => stage'[Main] = "over"
      PROVE  FreshInv'
  BY <1>1, <1>2 DEF FreshInv
<1>3. CASE \E p \in RunThreads : Talk(p)
  <2>1. PICK p \in RunThreads : Talk(p)
    BY <1>3
  <2>2. UNCHANGED <<active, listed, results>>
    BY <2>1 DEF Talk, Put, QueueIsFull, DropOldest, Lose, Pop, BatchMoved, ui, sessions
  <2>3. ASSUME stage[Main] = "over" PROVE p # Main
    <3>1. out[Main] = Silence /\ tries[Main] = 0 /\ lock # Main
      BY <1>1, <2>3 DEF ThreadInv, Talking
    <3> QED
      BY <2>1, <3>1 DEF Talk, Put, QueueIsFull, DropOldest, Lose, Pop, BatchMoved, Moves
  <2>4. p # Main => stage'[Main] = stage[Main]
    BY <1>1, <2>1 DEF Talk, Put, Said, QueueIsFull, DropOldest, Lose, Pop, BatchMoved
  <2> QED
    BY <1>2, <2>2, <2>3, <2>4
<1>4. CASE \E w \in Workers : WorkStep(w)
  <2>1. PICK w \in Workers : WorkStep(w)
    BY <1>4
  <2>2. UNCHANGED <<active, listed, results>>
    BY <2>1 DEF WorkStep, Begin, NeverStarts, ReactSuccess, Observe, SessionEnds, Tell, EndWork,
                Raise, ui, sessions
  <2>3. stage'[Main] = stage[Main]
    BY <1>1, <2>1, ThreadsAre
       DEF WorkStep, Begin, NeverStarts, ReactSuccess, Observe, SessionEnds, Tell, EndWork,
           Raise, Leaves, Gather
  <2> QED
    BY <1>2, <2>2, <2>3
<1>5. CASE ReportFailure \/ RunSucceeds
  <2>1. UNCHANGED <<active, listed>> /\ stage[Main] = "wait" /\ results'
    BY <1>5 DEF ReportFailure, RunSucceeds, ui
  <2> QED
    BY <1>1, <2>1 DEF FreshInv
<1>6. CASE EmitSaved \/ RunStops
  <2>1. UNCHANGED <<active, listed, results>> /\ stage[Main] # "over"
    BY <1>6 DEF EmitSaved, RunStops, ui, sessions
  <2> QED
    BY <1>2, <2>1
<1>7. CASE StartRun
  BY <1>7 DEF StartRun, Fresh, FreshInv
<1>8. CASE Tick
  <2>1. /\ active' = (active /\ ~IsSaved /\ ~IsDead) /\ UNCHANGED <<results, stage>>
        /\ listed' = IF stale \/ IsSaved \/ IsDead THEN results ELSE listed
    BY <1>8 DEF Tick, sessions
  <2>2. IsSaved => results
    <3>1. \A i \in DOMAIN Taken : i \in DOMAIN events /\ Taken[i] = events[i]
      BY <1>1, <1>8, TickLeaves
    <3> QED
      BY <1>1, <3>1 DEF IsSaved, SavedInv
  <2>3. IsDead => stage[Main] = "over"
    BY DEF IsDead
  <2>0. listed' => results
    <3>1. CASE stale \/ IsSaved \/ IsDead
      BY <2>1, <3>1
    <3>2. CASE ~ (stale \/ IsSaved \/ IsDead)
      BY <1>1, <2>1, <3>2 DEF FreshInv
    <3> QED
      BY <3>1, <3>2
  <2> SUFFICES ASSUME ~ active' PROVE (results => listed') /\ (listed' \/ stage[Main] = "over")
    BY <2>0, <2>1 DEF FreshInv
  <2>4. CASE IsSaved
    BY <2>1, <2>2, <2>4
  <2>5. CASE IsDead
    BY <2>1, <2>3, <2>5
  <2>6. CASE ~ IsSaved /\ ~ IsDead
    <3>1. ~ active
      BY <2>1, <2>6
    <3> QED
      BY <1>1, <2>1, <2>6, <3>1 DEF FreshInv
  <2> QED
    BY <2>4, <2>5, <2>6
<1>9. CASE UNCHANGED dashboardVars
  BY <1>2, <1>9 DEF dashboardVars, ui, sessions
<1> QED
  BY <1>3, <1>4, <1>5, <1>6, <1>7, <1>8, <1>9, DashboardSteps

LEMMA DashboardInitInv == DashboardInit => DashboardInv
<1> SUFFICES ASSUME DashboardInit PROVE DashboardInv
  OBVIOUS
<1> USE DEF DashboardInit
<1>1. DashboardTypeOK
  <2>1. /\ doing \in [Workers -> Sessions \cup {Nobody}] /\ count \in [Sessions -> Nat]
        /\ tries \in [RunThreads -> 0 .. 2]
    OBVIOUS
  <2>2. Len(events) <= Capacity
    BY DashboardAssumption
  <2>3. todo \in Seq(Sessions)
    OBVIOUS
  <2> QED
    BY <2>1, <2>2, <2>3 DEF DashboardTypeOK
<1>2. QueueTypes
  <2>1. Silence \in Entries
    BY DEF Entries
  <2>2. out \in [RunThreads -> Entries] /\ pending = <<>> /\ events = <<>>
    BY <2>1
  <2>3. stage \in [RunThreads -> OfMain \cup OfWorker]
    BY DEF OfMain, OfWorker
  <2> QED
    BY <2>2, <2>3 DEF QueueTypes
<1>3. ASSUME NEW p \in RunThreads PROVE ThreadInv(p)
  <2>1. /\ stage[p] = IF p = Main THEN "over" ELSE "idle"
        /\ out[p] = Silence /\ tries[p] = 0 /\ lock # p
    BY ThreadsAre
  <2> QED
    BY <2>1 DEF ThreadInv, OfMain, OfWorker
<1>4. SavedInv /\ FreshInv
  <2>1. stage[Main] = "over" /\ (\A p \in RunThreads : out[p] = Silence) /\ Silence.type = "none"
    BY ThreadsAre DEF Silence
  <2> QED
    BY <2>1 DEF SavedInv, FreshInv
<1> QED
  BY <1>1, <1>2, <1>3, <1>4 DEF DashboardInv

LEMMA DashboardInvariant == DashboardSpec => []DashboardInv
<1>1. DashboardInv /\ [DashboardNext]_dashboardVars => DashboardInv'
  <2> SUFFICES ASSUME DashboardInv, [DashboardNext]_dashboardVars PROVE DashboardInv'
    OBVIOUS
  <2>1. DashboardTypeOK' /\ QueueTypes' /\ SavedInv' /\ FreshInv'
    BY DashboardTypeStep, QueueStep, SavedInvStep, FreshStep
  <2>2. \A p \in RunThreads : ThreadInv(p)'
    BY ThreadStep
  <2> QED
    BY <2>1, <2>2 DEF DashboardInv
<1> QED
  BY <1>1, DashboardInitInv, PTL DEF DashboardSpec

\* The types of the dashboard, whatever the sizes of the queue and the batches:
\* the queue never exceeds its capacity.
THEOREM DashboardTypeCorrect == DashboardSpec => []DashboardTypeOK
<1>1. DashboardInv => DashboardTypeOK
  BY DEF DashboardInv
<1> QED
  BY <1>1, DashboardInvariant, PTL

\* When the start button is free, the leaderboard has the results of the run,
\* whether the event that announces them arrived or was lost (refresh_ui).
THEOREM LeaderboardStaysFresh == DashboardSpec => []LeaderboardIsFresh
<1>1. DashboardInv => LeaderboardIsFresh
  BY DEF DashboardInv, FreshInv, LeaderboardIsFresh
<1> QED
  BY <1>1, DashboardInvariant, PTL

------------------------------------------------------------------------------
(* Dashboard: events one after the other.                                   *)

\* What is shown after the first events of q, one after the other.
Plays(f, x, q, s, n) ==
  f = [i \in 0 .. n |-> IF i = 0 THEN x ELSE Show(f[i - 1], q[i], s)]

\* m events of q, from the k-th on, are the first of r.
SameFrom(q, k, r, m) == \A i \in 1 .. m : q[k + i] = r[i]

\* The n-th event makes the n-th change.
LEMMA PlaysAt ==
  ASSUME NEW f, NEW x, NEW q, NEW s, NEW n \in Nat, Plays(f, x, q, s, n)
  PROVE  f[0] = x /\ \A i \in 1 .. n : f[i] = Show(f[i - 1], q[i], s)
<1>1. \A i \in 0 .. n : f[i] = IF i = 0 THEN x ELSE Show(f[i - 1], q[i], s)
  BY DEF Plays
<1> QED
  BY <1>1

LEMMA PlayExists ==
  ASSUME NEW x, NEW q, NEW s, NEW n \in Nat
  PROVE  \E f : Plays(f, x, q, s, n)
<1> DEFINE T == {m \in Nat : \E f : Plays(f, x, q, s, m)}
<1>1. 0 \in T
  <2>1. Plays([i \in 0 .. 0 |-> x], x, q, s, 0)
    BY DEF Plays
  <2> QED
    BY <2>1
<1>2. ASSUME NEW m \in T PROVE m + 1 \in T
  <2>1. PICK f : Plays(f, x, q, s, m)
    OBVIOUS
  <2> DEFINE g == [i \in 0 .. m + 1 |-> IF i = m + 1 THEN Show(f[m], q[m + 1], s) ELSE f[i]]
  <2>2. m \in Nat /\ m + 1 \in Nat
    OBVIOUS
  <2>3. f = [i \in 0 .. m |-> IF i = 0 THEN x ELSE Show(f[i - 1], q[i], s)]
    BY <2>1 DEF Plays
  <2>4. ASSUME NEW i \in 0 .. m + 1
        PROVE  g[i] = IF i = 0 THEN x ELSE Show(g[i - 1], q[i], s)
    <3>1. CASE i = m + 1
      <4>1. i - 1 = m /\ i # 0 /\ m \in 0 .. m + 1 /\ m # m + 1
        BY <2>2, <3>1
      <4>2. g[i - 1] = f[m] /\ g[i] = Show(f[m], q[i], s)
        BY <3>1, <4>1
      <4> QED
        BY <4>1, <4>2
    <3>2. CASE i # m + 1
      <4>1. i \in 0 .. m /\ g[i] = f[i]
        BY <2>2, <3>2
      <4>2. f[i] = IF i = 0 THEN x ELSE Show(f[i - 1], q[i], s)
        BY <2>3, <4>1
      <4>3. i # 0 => i - 1 \in 0 .. m + 1 /\ i - 1 # m + 1
        BY <2>2, <4>1
      <4>4. i # 0 => g[i - 1] = f[i - 1]
        BY <4>3
      <4> QED
        BY <4>1, <4>2, <4>4
    <3> QED
      BY <3>1, <3>2
  <2>5. g = [i \in 0 .. m + 1 |-> g[i]]
    OBVIOUS
  <2> HIDE DEF g
  <2>6. Plays(g, x, q, s, m + 1)
    BY <2>4, <2>5 DEF Plays
  <2> QED
    BY <2>2, <2>6
<1>3. T = Nat
  <2> HIDE DEF T
  <2>1. T \in SUBSET Nat
    BY DEF T
  <2> QED
    BY <1>1, <1>2, <2>1, SetInduction
<1> QED
  BY <1>3

\* Playing m events of q from the k-th on is playing the first m of r, if they
\* are the same events and what was shown before them is.
LEMMA PlayedAlike ==
  ASSUME NEW x, NEW y, NEW q, NEW r, NEW s, NEW f, NEW g,
         NEW k \in Nat, NEW m \in Nat, NEW n \in Nat, NEW j \in Nat, j = k + m, j <= n,
         Plays(f, x, q, s, n), Plays(g, y, r, s, m), f[k] = y, SameFrom(q, k, r, m)
  PROVE  f[j] = g[m]
<1> DEFINE T == {i \in Nat : i <= m => f[k + i] = g[i]}
<1>1. 0 \in T
  <2>1. g[0] = y
    BY PlaysAt
  <2>2. k + 0 = k
    OBVIOUS
  <2> QED
    BY <2>1, <2>2
<1>2. ASSUME NEW i \in T PROVE i + 1 \in T
  <2> SUFFICES ASSUME i + 1 <= m PROVE f[k + (i + 1)] = g[i + 1]
    OBVIOUS
  <2>1. /\ i \in Nat /\ k + (i + 1) \in 1 .. n /\ k + (i + 1) - 1 = k + i
        /\ i + 1 - 1 = i /\ i + 1 \in 1 .. m /\ i <= m
    OBVIOUS
  <2>2. f[k + (i + 1)] = Show(f[k + (i + 1) - 1], q[k + (i + 1)], s)
    BY <2>1, PlaysAt
  <2>3. g[i + 1] = Show(g[i + 1 - 1], r[i + 1], s)
    BY <2>1, PlaysAt
  <2>4. f[k + i] = g[i]
    BY <2>1
  <2>5. q[k + (i + 1)] = r[i + 1]
    BY <2>1 DEF SameFrom
  <2> QED
    BY <2>1, <2>2, <2>3, <2>4, <2>5
<1>3. T = Nat
  <2> HIDE DEF T
  <2>1. T \in SUBSET Nat
    BY DEF T
  <2> QED
    BY <1>1, <1>2, <2>1, SetInduction
<1>4. m \in T /\ m <= m
  BY <1>3
<1> QED
  BY <1>4

\* What is played is what the last event leaves.
LEMMA PlayedIs ==
  ASSUME NEW S, NEW q \in Seq(S), NEW x, NEW s
  PROVE  \E f : Plays(f, x, q, s, Len(q)) /\ Played(x, q, s) = f[Len(q)]
<1>1. Len(q) \in Nat
  OBVIOUS
<1>3. \E f : Plays(f, x, q, s, Len(q))
  BY <1>1, PlayExists
<1> DEFINE F == CHOOSE f : f = [n \in 0 .. Len(q) |-> IF n = 0 THEN x ELSE Show(f[n - 1], q[n], s)]
<1>2. Played(x, q, s) = F[Len(q)]
  BY DEF Played
<1>4. Plays(F, x, q, s, Len(q))
  BY <1>3 DEF Plays
<1> HIDE DEF F
<1> QED
  BY <1>2, <1>4

\* q is p and then r.
Joined(q, p, r) ==
  /\ Len(q) = Len(p) + Len(r)
  /\ SameFrom(q, 0, p, Len(p)) /\ SameFrom(q, Len(p), r, Len(r))

\* Showing some events and then others is showing them all.
LEMMA PlayedBoth ==
  ASSUME NEW S, NEW p \in Seq(S), NEW r \in Seq(S), NEW q \in Seq(S),
         Joined(q, p, r), NEW x, NEW s
  PROVE  Played(x, q, s) = Played(Played(x, p, s), r, s)
<1> DEFINE y == Played(x, p, s)
           k == Len(p)
           m == Len(r)
<1>1. k \in Nat /\ m \in Nat /\ Len(q) = k + m
  BY DEF Joined
<1>2. PICK f : Plays(f, x, q, s, Len(q)) /\ Played(x, q, s) = f[Len(q)]
  BY PlayedIs
<1>3. PICK g : Plays(g, x, p, s, k) /\ y = g[k]
  BY PlayedIs
<1>4. PICK h : Plays(h, y, r, s, m) /\ Played(y, r, s) = h[m]
  BY PlayedIs
<1>5. SameFrom(q, 0, p, k) /\ SameFrom(q, k, r, m)
  BY DEF Joined
<1> HIDE DEF y, k, m
<1>7. f[k] = y
  <2>1. f[0] = x
    BY <1>1, <1>2, PlaysAt
  <2>2. 0 \in Nat /\ k = 0 + k /\ k <= Len(q) /\ Len(q) \in Nat
    BY <1>1
  <2>3. f[k] = g[k]
    BY <1>1, <1>2, <1>3, <1>5, <2>1, <2>2, PlayedAlike
  <2> QED
    BY <1>3, <2>3
<1>8. f[Len(q)] = h[m]
  <2>1. Len(q) <= Len(q) /\ Len(q) \in Nat
    BY <1>1
  <2> QED
    BY <1>1, <1>2, <1>4, <1>5, <1>7, <2>1, PlayedAlike
<1>9. Played(x, q, s) = Played(y, r, s)
  BY <1>1, <1>2, <1>4, <1>8
<1> QED
  BY <1>9 DEF y

\* What every event leaves true of what is shown, many events do.
LEMMA PlayedKeeps ==
  ASSUME NEW S, NEW q \in Seq(S), NEW s, NEW V, NEW x \in V,
         \A y \in V : \A i \in 1 .. Len(q) : Show(y, q[i], s) \in V
  PROVE  Played(x, q, s) \in V
<1> DEFINE n == Len(q)
<1>1. n \in Nat
  OBVIOUS
<1>2. PICK f : Plays(f, x, q, s, n) /\ Played(x, q, s) = f[n]
  BY PlayedIs
<1>3. \A y \in V : \A i \in 1 .. n : Show(y, q[i], s) \in V
  OBVIOUS
<1> HIDE DEF n
<1> DEFINE T == {i \in Nat : i <= n => f[i] \in V}
<1>4. 0 \in T
  BY <1>1, <1>2, PlaysAt
<1>5. ASSUME NEW i \in T PROVE i + 1 \in T
  <2> SUFFICES ASSUME i + 1 <= n PROVE f[i + 1] \in V
    OBVIOUS
  <2>1. i + 1 - 1 = i /\ i + 1 \in 1 .. n /\ i <= n
    BY <1>1
  <2>2. f[i + 1] = Show(f[i], q[i + 1], s)
    BY <1>1, <1>2, <2>1, PlaysAt
  <2> QED
    BY <1>3, <2>1, <2>2
<1>6. T = Nat
  <2> HIDE DEF T
  <2>1. T \in SUBSET Nat
    BY DEF T
  <2> QED
    BY <1>4, <1>5, <2>1, SetInduction
<1>7. n \in T /\ n <= n
  BY <1>1, <1>6
<1> QED
  BY <1>2, <1>7

LEMMA PlayedNothing ==
  ASSUME NEW x, NEW s
  PROVE  Played(x, <<>>, s) = x
<1>1. <<>> \in Seq({}) /\ Len(<<>>) = 0
  OBVIOUS
<1>2. PICK f : Plays(f, x, <<>>, s, 0) /\ Played(x, <<>>, s) = f[0]
  BY <1>1, PlayedIs
<1> QED
  BY <1>2 DEF Plays

LEMMA PlayedOne ==
  ASSUME NEW x, NEW e, NEW s
  PROVE  Played(x, <<e>>, s) = Show(x, e, s)
<1>1. <<e>> \in Seq({e}) /\ Len(<<e>>) = 1 /\ <<e>>[1] = e
  OBVIOUS
<1>2. PICK f : Plays(f, x, <<e>>, s, 1) /\ Played(x, <<e>>, s) = f[1]
  BY <1>1, PlayedIs
<1>3. f[0] = x /\ f[1] = Show(f[0], <<e>>[1], s)
  BY <1>2 DEF Plays
<1> QED
  BY <1>1, <1>2, <1>3

\* The last event comes last.
LEMMA PlayedLast ==
  ASSUME NEW S, NEW q \in Seq(S), NEW e \in S, NEW x, NEW s
  PROVE  Played(x, Append(q, e), s) = Show(Played(x, q, s), e, s)
<1> DEFINE r == Append(q, e)
           one == <<e>>
<1>1. r \in Seq(S) /\ one \in Seq(S) /\ Joined(r, q, one)
  BY DEF SameFrom, Joined
<1>2. Played(Played(x, q, s), one, s) = Show(Played(x, q, s), e, s)
  BY PlayedOne
<1> HIDE DEF r, one
<1>3. Played(x, r, s) = Played(Played(x, q, s), one, s)
  BY <1>1, PlayedBoth
<1> QED
  BY <1>2, <1>3 DEF r

\* The first event comes first.
LEMMA PlayedFirst ==
  ASSUME NEW S, NEW q \in Seq(S), q # <<>>, NEW x, NEW s
  PROVE  Played(x, q, s) = Played(Show(x, Head(q), s), Tail(q), s)
<1> DEFINE e == Head(q)
           r == Tail(q)
           one == <<e>>
<1>1. r \in Seq(S) /\ one \in Seq(S) /\ Joined(q, one, r)
  BY DEF SameFrom, Joined
<1>2. Played(x, one, s) = Show(x, e, s)
  BY PlayedOne
<1> HIDE DEF e, r, one
<1>3. Played(x, q, s) = Played(Played(x, one, s), r, s)
  BY <1>1, PlayedBoth
<1> QED
  BY <1>2, <1>3 DEF e, r

------------------------------------------------------------------------------
(* Dashboard: what is shown once every event has arrived.                   *)

\* Events that change what is shown of a session.
About(e, s) == e # Silence /\ e.session = s /\ e.type \in {"session_started", "step", "session_finished"}

\* What is shown of a session is in the batch, or being moved.
Gathered(s) ==
  \/ \E i \in DOMAIN pending : About(pending[i], s)
  \/ lock # Nobody /\ About(out[lock], s)

\* What is shown after the event that a thread is putting, and what the dashboard
\* shows of the session once everything has arrived.
Arrived(o, x, s) ==
  IF \E p \in RunThreads : About(o[p], s)
    THEN Show(x, o[CHOOSE p \in RunThreads : About(o[p], s)], s) ELSE x
Seen(s) == Played(Arrived(out, Played(shown[s], events, s), s), pending, s)

Views == [status : {"none", "running", "raised"} \cup Outcomes, steps : Nat]
ViewTypes ==
  truth \in [Sessions -> Views] /\ shown \in [Sessions -> Views] /\ attempts \in [Sessions -> Nat]

\* Only a run with one worker tries again, and when main announces its end it has
\* nothing to do.
Alone == Cardinality(crew) = 1
Announcing == {"saving", "saved", "saying"}

\* A session is in the plan or with one worker.
CrewInv ==
  /\ \A w \in Workers \ crew : stage[w] = "idle"
  /\ \A v, w \in Workers :
       stage[v] # "idle" /\ stage[w] # "idle" /\ doing[v] = doing[w] => v = w
  /\ \A i, j \in DOMAIN todo : todo[i] = todo[j] => i = j
  /\ \A w \in Workers : stage[w] # "idle" => \A i \in DOMAIN todo : todo[i] # doing[w]
  /\ \A i \in DOMAIN todo : attempts[todo[i]] > 0 => Alone
  /\ \A w \in Workers : stage[w] # "idle" => /\ attempts[doing[w]] > 0
                                             /\ attempts[doing[w]] > 1 => Alone
  /\ Alone /\ stage[Main] \in Announcing => Quiet

\* Who moves the batch puts what was gathered, the others events of their own.
Moving == {"reacted", "observed", "ending", "saving"}
Batched == {"step", "observation", "benchmark_recorded"}
MoverInv(p) ==
  /\ lock = p <=> stage[p] \in Moving
  /\ lock = p /\ out[p] # Silence => out[p].type \in Batched
  /\ lock # p /\ out[p] # Silence =>
       IF p = Main THEN out[p].type = "saved" ELSE out[p].session = doing[p]
BatchInv == \A i \in DOMAIN pending : pending[i].type \in Batched

\* A session that begins or ends has no step in the batch.
FlushInv ==
  /\ \A w \in Workers :
       (\/ stage[w] \in {"ended", "telling"}
        \/ stage[w] = "starting" /\ attempts[doing[w]] = 1)
       => ~ Gathered(doing[w])
  /\ \A s \in Sessions : attempts[s] = 0 => ~ Gathered(s)

Begun == {"starting", "react", "reacted", "observe", "observed", "ending", "ended"}
TruthInv ==
  \A w \in Workers : stage[w] \in Begun =>
    truth[doing[w]] = [status |-> "running", steps |-> count[doing[w]]]

ViewInv(s) ==
  IF attempts[s] > 1 /\ AsTold(s).status = "running" THEN Seen(s).status = "running"
  ELSE Seen(s) = AsTold(s)

ShownInv ==
  /\ ViewTypes /\ CrewInv /\ BatchInv /\ TruthInv
  /\ \A p \in RunThreads : MoverInv(p)
  /\ ~lost => FlushInv /\ \A s \in Sessions : ViewInv(s)

\* What events do to what is shown.
LEMMA ShowIrrelevant ==
  ASSUME NEW e, NEW s, ~ About(e, s), NEW x
  PROVE  Show(x, e, s) = x
<1>1. e = Silence => e.type \notin {"session_started", "step", "session_finished"}
  BY DEF Silence
<1> QED
  BY <1>1 DEF Show, About

LEMMA ShowTypes ==
  ASSUME NEW e \in Entries, NEW s, NEW x \in Views
  PROVE  Show(x, e, s) \in Views
<1>1. Running \in Views
  BY DEF Running, Views
<1>2. [x EXCEPT !.steps = @ + 1] \in Views
  BY DEF Views
<1>3. e.type = "session_finished" => [status |-> e.status, steps |-> e.steps] \in Views
  BY DEF Entries, Views, Silence
<1> QED
  BY <1>1, <1>2, <1>3 DEF Show

LEMMA PlayedTypes ==
  ASSUME NEW q \in Seq(Entries), NEW s, NEW x \in Views
  PROVE  Played(x, q, s) \in Views
<1>1. \A y \in Views : \A i \in 1 .. Len(q) : Show(y, q[i], s) \in Views
  BY ShowTypes
<1> QED
  BY <1>1, PlayedKeeps

\* A gathered event says nothing of how a session goes.
LEMMA ShowBatched ==
  ASSUME NEW e, e.type \in Batched, NEW s, NEW x \in Views, x.status = "running"
  PROVE  Show(x, e, s) \in Views /\ Show(x, e, s).status = "running"
<1>1. [x EXCEPT !.steps = @ + 1] \in Views /\ [x EXCEPT !.steps = @ + 1].status = "running"
  BY DEF Views
<1> QED
  BY <1>1 DEF Show, Batched

LEMMA PlayedBatched ==
  ASSUME NEW S, NEW q \in Seq(S), \A i \in DOMAIN q : q[i].type \in Batched,
         NEW s, NEW x \in Views, x.status = "running"
  PROVE  Played(x, q, s) \in Views /\ Played(x, q, s).status = "running"
<1> DEFINE V == {v \in Views : v.status = "running"}
<1>1. \A y \in V : \A i \in 1 .. Len(q) : Show(y, q[i], s) \in V
  <2> SUFFICES ASSUME NEW y \in V, NEW i \in 1 .. Len(q) PROVE Show(y, q[i], s) \in V
    OBVIOUS
  <2>1. q[i].type \in Batched /\ y \in Views /\ y.status = "running"
    OBVIOUS
  <2> QED
    BY <2>1, ShowBatched
<1>2. x \in V
  OBVIOUS
<1> HIDE DEF V
<1>3. Played(x, q, s) \in V
  BY <1>1, <1>2, PlayedKeeps
<1> QED
  BY <1>3 DEF V

LEMMA PlayedIrrelevant ==
  ASSUME NEW S, NEW q \in Seq(S), NEW s, \A i \in DOMAIN q : ~ About(q[i], s), NEW x
  PROVE  Played(x, q, s) = x
<1> DEFINE V == {x}
<1>1. \A y \in V : \A i \in 1 .. Len(q) : Show(y, q[i], s) \in V
  <2> SUFFICES ASSUME NEW y \in V, NEW i \in 1 .. Len(q) PROVE Show(y, q[i], s) \in V
    OBVIOUS
  <2>1. ~ About(q[i], s)
    OBVIOUS
  <2> QED
    BY <2>1, ShowIrrelevant
<1>2. x \in V
  OBVIOUS
<1> HIDE DEF V
<1>3. Played(x, q, s) \in V
  BY <1>1, <1>2, PlayedKeeps
<1> QED
  BY <1>3 DEF V

LEMMA ArrivedBy ==
  ASSUME NEW o, NEW s, NEW p \in RunThreads, About(o[p], s),
         \A q \in RunThreads : About(o[q], s) => q = p, NEW x
  PROVE  Arrived(o, x, s) = Show(x, o[p], s)
<1>1. (CHOOSE q \in RunThreads : About(o[q], s)) = p
  OBVIOUS
<1> QED
  BY <1>1 DEF Arrived

LEMMA ArrivedByNobody ==
  ASSUME NEW o, NEW s, \A q \in RunThreads : ~ About(o[q], s), NEW x
  PROVE  Arrived(o, x, s) = x
BY DEF Arrived

LEMMA ArrivedAlike ==
  ASSUME NEW o, NEW r, NEW s,
         \A q \in RunThreads : About(r[q], s) <=> About(o[q], s),
         \A q \in RunThreads : About(o[q], s) => r[q] = o[q],
         \A p, q \in RunThreads : About(o[p], s) /\ About(o[q], s) => p = q, NEW x
  PROVE  Arrived(r, x, s) = Arrived(o, x, s)
<1>1. CASE \E p \in RunThreads : About(o[p], s)
  <2>1. PICK p \in RunThreads : About(o[p], s)
    BY <1>1
  <2>2. Arrived(o, x, s) = Show(x, o[p], s)
    BY <2>1, ArrivedBy
  <2>3. Arrived(r, x, s) = Show(x, r[p], s)
    BY <2>1, ArrivedBy
  <2> QED
    BY <2>1, <2>2, <2>3
<1>2. CASE ~ \E p \in RunThreads : About(o[p], s)
  BY <1>2, ArrivedByNobody
<1> QED
  BY <1>1, <1>2

LEMMA ArrivedTypes ==
  ASSUME NEW o \in [RunThreads -> Entries], NEW s, NEW x \in Views
  PROVE  Arrived(o, x, s) \in Views
<1>1. CASE \E p \in RunThreads : About(o[p], s)
  <2> DEFINE p == CHOOSE q \in RunThreads : About(o[q], s)
  <2>1. p \in RunThreads /\ Arrived(o, x, s) = Show(x, o[p], s)
    BY <1>1 DEF Arrived
  <2> HIDE DEF p
  <2> QED
    BY <2>1, ShowTypes
<1>2. CASE ~ \E p \in RunThreads : About(o[p], s)
  BY <1>2, ArrivedByNobody
<1> QED
  BY <1>1, <1>2

------------------------------------------------------------------------------
(* Dashboard: sessions, their workers, and who moves the batch.             *)

\* Two workers of a run with one worker are the same.
LEMMA OneWorker ==
  ASSUME crew \subseteq Workers, Alone, NEW v \in crew, NEW w \in crew
  PROVE  v = w
<1>1. IsFiniteSet(crew)
  BY DashboardAssumption, FS_Subset
<1>2. PICK x : crew = {x}
  BY <1>1, FS_Singleton DEF Alone
<1> QED
  BY <1>2

\* Where a talking thread goes on.
LEMMA AfterTalking ==
  ASSUME NEW p, stage[p] \in Talking
  PROVE  /\ After(p) # "idle" /\ After(p) \notin Moving \cup {"telling", "starting"}
         /\ After(p) \in Announcing => stage[p] \in Announcing
         /\ After(p) \in Begun => stage[p] \in Begun
         /\ After(p) = "ended" => stage[p] = "ending"
<1>1. stage[p] = "starting" => After(p) = "react"
  BY DEF After
<1>2. stage[p] = "reacted" => After(p) = "observe"
  BY DEF After
<1>3. stage[p] = "observed" => After(p) = "react"
  BY DEF After
<1>4. stage[p] = "ending" => After(p) = "ended"
  BY DEF After
<1>5. stage[p] = "telling" => After(p) = "closing"
  BY DEF After
<1>6. stage[p] = "saving" => After(p) = "saved"
  BY DEF After
<1>7. stage[p] = "saying" => After(p) \in {"wait", "over"}
  BY DEF After
<1> QED
  BY <1>1, <1>2, <1>3, <1>4, <1>5, <1>6, <1>7 DEF Talking, Moving, Announcing, Begun

\* What a thread does to put an event or to move the batch.
LEMMA TalkIs ==
  ASSUME DashboardInv, NEW p \in RunThreads, Talk(p)
  PROVE  /\ UNCHANGED <<ui, sessions, count>> /\ stage[p] \in Talking
         /\ stage' = stage \/ stage' = [stage EXCEPT ![p] = After(p)]
<1>1. ThreadInv(p) /\ tries \in [RunThreads -> 0 .. 2]
  BY DEF DashboardInv, DashboardTypeOK
<1>2. UNCHANGED <<ui, sessions, count>>
  BY DEF Talk, Put, QueueIsFull, DropOldest, Lose, Pop, BatchMoved, observer
<1>3. stage[p] \in Talking
  BY <1>1 DEF Talk, Put, QueueIsFull, DropOldest, Lose, Pop, BatchMoved, Moves, ThreadInv
<1>4. stage' = stage \/ stage' = [stage EXCEPT ![p] = After(p)]
  BY DEF Talk, Put, Said, QueueIsFull, DropOldest, Lose, Pop, BatchMoved
<1> QED
  BY <1>2, <1>3, <1>4

LEMMA CrewFrame ==
  ASSUME CrewInv, UNCHANGED <<crew, todo, attempts, doing>>,
         \A w \in Workers : stage'[w] = "idle" <=> stage[w] = "idle",
         stage'[Main] \in Announcing => stage[Main] \in Announcing \/ ~Alone \/ Quiet
  PROVE  CrewInv'
<1>1. Alone' <=> Alone
  BY DEF Alone
<1>2. Quiet' <=> Quiet
  BY DEF Quiet
<1> QED
  BY <1>1, <1>2 DEF CrewInv

\* A session is in the plan or with one worker, whatever step is taken.
LEMMA CrewStep ==
  ASSUME DashboardInv, CrewInv, ViewTypes, [DashboardNext]_dashboardVars
  PROVE  CrewInv'
<1>1. /\ stage \in [RunThreads -> OfMain \cup OfWorker] /\ Main \in RunThreads
      /\ Workers \subseteq RunThreads /\ Main \notin Workers
      /\ doing \in [Workers -> Sessions \cup {Nobody}] /\ todo \in Seq(Sessions)
      /\ crew \subseteq Workers /\ attempts \in [Sessions -> Nat]
      /\ \A w \in Workers : stage[w] # "idle" => doing[w] \in Sessions
  BY ThreadsAre DEF DashboardInv, QueueTypes, DashboardTypeOK, ThreadInv, ViewTypes
<1>2. Main \notin Talking /\ "idle" \notin Talking
  BY DEF Talking, Main
<1>3. CASE \E p \in RunThreads : Talk(p)
  <2>1. PICK p \in RunThreads : Talk(p)
    BY <1>3
  <2>2. /\ UNCHANGED sessions /\ stage[p] \in Talking
        /\ stage' = stage \/ stage' = [stage EXCEPT ![p] = After(p)]
    BY <2>1, TalkIs
  <2>3. UNCHANGED <<crew, todo, attempts, doing>>
    BY <2>2 DEF sessions
  <2>4. /\ After(p) # "idle"
        /\ After(p) \in Announcing => stage[p] \in Announcing
    BY <2>2, AfterTalking
  <2>5. \A w \in Workers : stage'[w] = "idle" <=> stage[w] = "idle"
    BY <1>1, <1>2, <2>2, <2>4
  <2>6. stage'[Main] \in Announcing => stage[Main] \in Announcing
    BY <1>1, <2>2, <2>4
  <2> QED
    BY <2>3, <2>5, <2>6, CrewFrame
<1>4. CASE \E w \in Workers : ReactSuccess(w) \/ Observe(w) \/ SessionEnds(w) \/ Tell(w)
  <2>1. PICK w \in Workers : ReactSuccess(w) \/ Observe(w) \/ SessionEnds(w) \/ Tell(w)
    BY <1>4
  <2>2. UNCHANGED <<crew, todo, attempts, doing>>
    BY <2>1 DEF ReactSuccess, Observe, SessionEnds, Tell, sessions
  <2>3. \E v \in OfWorker \ {"idle"} : stage' = [stage EXCEPT ![w] = v]
    BY <2>1 DEF ReactSuccess, Observe, SessionEnds, Tell, Gather, OfWorker
  <2>4. stage[w] # "idle"
    BY <2>1 DEF ReactSuccess, Observe, SessionEnds, Tell
  <2> QED
    BY <1>1, <2>2, <2>3, <2>4, CrewFrame
<1>5. CASE ReportFailure \/ RunSucceeds \/ EmitSaved \/ RunStops
  <2>1. UNCHANGED <<crew, todo, attempts, doing>>
    BY <1>5 DEF ReportFailure, RunSucceeds, EmitSaved, RunStops, sessions
  <2>2. \E v \in OfMain : stage' = [stage EXCEPT ![Main] = v]
    BY <1>5 DEF ReportFailure, RunSucceeds, EmitSaved, RunStops, OfMain
  <2>3. \A w \in Workers : stage'[w] = stage[w]
    BY <1>1, <2>2
  <2>4. ReportFailure => ~ Alone
    BY DEF ReportFailure, Alone
  <2>5. EmitSaved => stage[Main] \in Announcing
    BY DEF EmitSaved, Announcing
  <2>6. RunSucceeds => Quiet
    BY DEF RunSucceeds
  <2>7. RunStops => stage'[Main] \notin Announcing
    BY <1>1 DEF RunStops, Announcing
  <2> QED
    BY <1>5, <2>1, <2>3, <2>4, <2>5, <2>6, <2>7, CrewFrame
<1>6. CASE Tick \/ UNCHANGED dashboardVars
  <2>1. UNCHANGED <<crew, todo, attempts, doing, stage>>
    BY <1>6 DEF Tick, dashboardVars, sessions
  <2> QED
    BY <2>1, CrewFrame
<1>7. CASE StartRun
  <2>1. /\ todo' = SetToSeq(Sessions) /\ attempts' = [s \in Sessions |-> 0]
        /\ \A w \in Workers : stage'[w] = "idle"
        /\ stage'[Main] = "wait"
    BY <1>1, <1>7 DEF StartRun, Fresh
  <2>2. /\ SetToSeq(Sessions) \in Seq(Sessions)
        /\ \A i, j \in DOMAIN SetToSeq(Sessions) :
             SetToSeq(Sessions)[i] = SetToSeq(Sessions)[j] => i = j
    BY SessionsInOrder
  <2>3. \A i \in DOMAIN todo' : attempts'[todo'[i]] = 0
    BY <2>1, <2>2
  <2> QED
    BY <1>1, <2>1, <2>2, <2>3 DEF CrewInv, Announcing
<1>8. CASE \E w \in Workers : Begin(w) \/ NeverStarts(w)
  <2>1. PICK w \in Workers : Begin(w) \/ NeverStarts(w)
    BY <1>8
  <2>2. /\ todo # <<>> /\ todo' = Tail(todo) /\ w \in crew /\ stage[w] = "idle" /\ crew' = crew
    BY <2>1 DEF Begin, NeverStarts
  <2> DEFINE s == Head(todo)
  <2>3. s \in Sessions /\ s = todo[1] /\ 1 \in DOMAIN todo
    BY <1>1, <2>2
  <2>4. \A i \in DOMAIN todo' : i + 1 \in DOMAIN todo /\ todo'[i] = todo[i + 1] /\ i + 1 # 1 /\ i \in Int
    BY <1>1, <2>2
  <2>5. \A i \in DOMAIN todo' : todo'[i] # s
    BY <2>3, <2>4 DEF CrewInv
  <2>6. \A i, j \in DOMAIN todo' : todo'[i] = todo'[j] => i = j
    <3> SUFFICES ASSUME NEW i \in DOMAIN todo', NEW j \in DOMAIN todo', todo'[i] = todo'[j]
                 PROVE  i = j
      OBVIOUS
    <3>1. i + 1 = j + 1
      BY <2>4 DEF CrewInv
    <3> QED
      BY <2>4, <3>1
  <2>7. ~ (Alone /\ stage[Main] \in Announcing)
    BY <2>2 DEF CrewInv, Quiet
  <2>8. Alone' <=> Alone
    BY <2>2 DEF Alone
  <2>9. attempts[s] > 0 => Alone
    BY <2>3 DEF CrewInv
  <2>10. \A v \in Workers : stage[v] # "idle" => doing[v] # s
    BY <2>3 DEF CrewInv
  <2> HIDE DEF s
  <2>11. CASE NeverStarts(w)
    <3>1. UNCHANGED <<attempts, doing, stage>>
      BY <2>11 DEF NeverStarts
    <3>2. \A i \in DOMAIN todo' : attempts'[todo'[i]] > 0 => Alone'
      BY <2>4, <2>8, <3>1 DEF CrewInv
    <3>3. \A v \in Workers : stage'[v] # "idle" => \A i \in DOMAIN todo' : todo'[i] # doing'[v]
      BY <2>4, <3>1 DEF CrewInv
    <3>4. ~ (Alone' /\ stage'[Main] \in Announcing)
      BY <2>7, <2>8, <3>1
    <3> QED
      BY <2>2, <2>6, <2>8, <3>1, <3>2, <3>3, <3>4 DEF CrewInv
  <2>12. CASE Begin(w)
    <3>1. /\ doing' = [doing EXCEPT ![w] = s] /\ attempts' = [attempts EXCEPT ![s] = @ + 1]
          /\ stage' = [stage EXCEPT ![w] = "starting"]
      BY <2>12 DEF Begin, s
    <3>2. \A i \in DOMAIN todo' : attempts'[todo'[i]] > 0 => Alone'
      <4> SUFFICES ASSUME NEW i \in DOMAIN todo', attempts'[todo'[i]] > 0 PROVE Alone
        BY <2>8
      <4>1. i + 1 \in DOMAIN todo /\ todo'[i] = todo[i + 1] /\ todo'[i] # s /\ todo[i + 1] \in Sessions
        BY <1>1, <2>4, <2>5
      <4>2. attempts'[todo'[i]] = attempts[todo[i + 1]]
        BY <1>1, <3>1, <4>1
      <4> QED
        BY <4>1, <4>2 DEF CrewInv
    <3>3. \A v \in Workers : v # w => stage'[v] = stage[v] /\ doing'[v] = doing[v]
      BY <1>1, <3>1
    <3>4. stage'[w] = "starting" /\ doing'[w] = s /\ attempts'[s] = attempts[s] + 1
      BY <1>1, <2>3, <3>1
    <3>5. \A v \in Workers : stage'[v] # "idle" => \A i \in DOMAIN todo' : todo'[i] # doing'[v]
      BY <2>4, <2>5, <3>3, <3>4 DEF CrewInv
    <3>6. \A v \in Workers \ crew' : stage'[v] = "idle"
      BY <2>2, <3>3 DEF CrewInv
    <3>7. \A u, v \in Workers :
            stage'[u] # "idle" /\ stage'[v] # "idle" /\ doing'[u] = doing'[v] => u = v
      BY <2>10, <3>3, <3>4 DEF CrewInv
    <3>8. ASSUME NEW v \in Workers, stage'[v] # "idle"
          PROVE  attempts'[doing'[v]] > 0 /\ (attempts'[doing'[v]] > 1 => Alone')
      <4>1. CASE v = w
        <5>1. attempts[s] \in Nat
          BY <1>1, <2>3
        <5> QED
          BY <2>8, <2>9, <3>4, <4>1, <5>1
      <4>2. CASE v # w
        <5>1. stage[v] # "idle" /\ doing'[v] = doing[v] /\ doing[v] # s /\ doing[v] \in Sessions
          BY <1>1, <2>10, <3>3, <3>8, <4>2
        <5>2. attempts'[doing[v]] = attempts[doing[v]]
          BY <1>1, <3>1, <5>1
        <5> QED
          BY <2>8, <5>1, <5>2 DEF CrewInv
      <4> QED
        BY <4>1, <4>2
    <3>9. ~ (Alone' /\ stage'[Main] \in Announcing)
      <4>1. stage'[Main] = stage[Main]
        BY <1>1, <3>1
      <4> QED
        BY <2>7, <2>8, <4>1
    <3> QED
      BY <2>6, <3>2, <3>5, <3>6, <3>7, <3>8, <3>9 DEF CrewInv
  <2> QED
    BY <2>1, <2>11, <2>12
<1>9. CASE \E w \in Workers : EndWork(w) \/ Raise(w)
  <2>1. PICK w \in Workers : EndWork(w) \/ Raise(w)
    BY <1>9
  <2>2. /\ stage[w] # "idle" /\ stage' = [stage EXCEPT ![w] = "idle"]
        /\ doing' = [doing EXCEPT ![w] = Nobody] /\ UNCHANGED <<crew, attempts>>
    BY <2>1 DEF EndWork, Raise, Leaves
  <2>3. doing[w] \in Sessions
    BY <1>1, <2>2
  <2>4. /\ \A v \in Workers : v # w => stage'[v] = stage[v] /\ doing'[v] = doing[v]
        /\ stage'[w] = "idle" /\ stage'[Main] = stage[Main]
    BY <1>1, <2>2
  <2>5. Alone' <=> Alone
    BY <2>2 DEF Alone
  <2>6. ~ (Alone /\ stage[Main] \in Announcing)
    BY <2>2 DEF CrewInv, Quiet
  <2>7. ASSUME /\ \A i, j \in DOMAIN todo' : todo'[i] = todo'[j] => i = j
               /\ \A v \in Workers : stage'[v] # "idle" => \A i \in DOMAIN todo' : todo'[i] # doing'[v]
               /\ \A i \in DOMAIN todo' : attempts[todo'[i]] > 0 => Alone
        PROVE  CrewInv'
    <3>1. \A v \in Workers \ crew' : stage'[v] = "idle"
      BY <2>2, <2>4 DEF CrewInv
    <3>2. \A u, v \in Workers :
            stage'[u] # "idle" /\ stage'[v] # "idle" /\ doing'[u] = doing'[v] => u = v
      BY <2>4 DEF CrewInv
    <3>3. \A v \in Workers : stage'[v] # "idle" =>
            attempts'[doing'[v]] > 0 /\ (attempts'[doing'[v]] > 1 => Alone')
      BY <2>2, <2>4, <2>5 DEF CrewInv
    <3>4. ~ (Alone' /\ stage'[Main] \in Announcing)
      BY <2>4, <2>5, <2>6
    <3>5. \A i \in DOMAIN todo' : attempts'[todo'[i]] > 0 => Alone'
      BY <2>2, <2>5, <2>7
    <3> QED
      BY <2>7, <3>1, <3>2, <3>3, <3>4, <3>5 DEF CrewInv
  <2>8. CASE todo' = todo
    <3>1. \A v \in Workers : stage'[v] # "idle" => \A i \in DOMAIN todo' : todo'[i] # doing'[v]
      BY <2>4, <2>8 DEF CrewInv
    <3> QED
      BY <2>7, <2>8, <3>1 DEF CrewInv
  <2>9. CASE Raise(w) /\ todo' # todo
    <3> DEFINE s == doing[w]
    <3>1. todo' = <<s>> \o todo /\ Alone
      BY <2>9 DEF Raise, Alone
    <3>2. s \in Sessions /\ \A i \in DOMAIN todo : todo[i] # s
      BY <2>2, <2>3 DEF CrewInv
    <3>3. \A v \in Workers : v # w /\ stage[v] # "idle" => doing[v] # s
      BY <2>2 DEF CrewInv
    <3> HIDE DEF s
    <3>4. \A i \in DOMAIN todo' : /\ i \in Int
                                  /\ i = 1 => todo'[i] = s
                                  /\ i # 1 => i - 1 \in DOMAIN todo /\ todo'[i] = todo[i - 1]
      BY <1>1, <3>1, <3>2
    <3>5. \A i, j \in DOMAIN todo' : todo'[i] = todo'[j] => i = j
      <4> SUFFICES ASSUME NEW i \in DOMAIN todo', NEW j \in DOMAIN todo', todo'[i] = todo'[j]
                   PROVE  i = j
        OBVIOUS
      <4>1. CASE i = 1 \/ j = 1
        BY <3>2, <3>4, <4>1
      <4>2. CASE i # 1 /\ j # 1
        <5>1. i - 1 = j - 1
          BY <3>4, <4>2 DEF CrewInv
        <5>2. i \in Int /\ j \in Int
          BY <3>4
        <5> QED
          BY <5>1, <5>2
      <4> QED
        BY <4>1, <4>2
    <3>6. \A v \in Workers : stage'[v] # "idle" => \A i \in DOMAIN todo' : todo'[i] # doing'[v]
      BY <2>4, <3>3, <3>4 DEF CrewInv
    <3> QED
      BY <2>7, <3>1, <3>5, <3>6
  <2> QED
    BY <2>1, <2>8, <2>9 DEF EndWork
<1> QED
  BY <1>3, <1>4, <1>5, <1>6, <1>7, <1>8, <1>9, DashboardSteps DEF WorkStep

LEMMA MoverFrame ==
  ASSUME NEW q \in RunThreads, MoverInv(q), lock' = q <=> lock = q,
         stage'[q] = stage[q], out'[q] = out[q], q # Main => doing'[q] = doing[q]
  PROVE  MoverInv(q)'
BY DEF MoverInv

\* A thread with nothing to say that takes no step with the batch.
LEMMA MoverSilent ==
  ASSUME NEW q \in RunThreads, lock' # q, stage'[q] \notin Moving, out'[q] = Silence
  PROVE  MoverInv(q)'
BY DEF MoverInv

LEMMA MoverStep ==
  ASSUME DashboardInv, \A p \in RunThreads : MoverInv(p), BatchInv,
         [DashboardNext]_dashboardVars, NEW q \in RunThreads
  PROVE  MoverInv(q)'
<1>1. /\ stage \in [RunThreads -> OfMain \cup OfWorker] /\ out \in [RunThreads -> Entries]
      /\ lock \in RunThreads \cup {Nobody} /\ doing \in [Workers -> Sessions \cup {Nobody}]
      /\ Main \in RunThreads /\ Workers \subseteq RunThreads /\ Main \notin Workers
      /\ Nobody \notin RunThreads /\ MoverInv(q) /\ todo \in Seq(Sessions)
      /\ pending \in Seq(Entries)
  BY ThreadsAre DEF DashboardInv, QueueTypes, DashboardTypeOK
<1>2. \A p \in RunThreads : stage[p] \notin Talking => out[p] = Silence /\ lock # p
  BY DEF DashboardInv, ThreadInv
<1>3. CASE \E p \in RunThreads : Talk(p)
  <2>1. PICK p \in RunThreads : Talk(p)
    BY <1>3
  <2>2. UNCHANGED doing /\ stage[p] \in Talking
    BY <2>1, TalkIs DEF sessions
  <2>3. After(p) \notin Moving
    BY <2>2, AfterTalking
  <2>4. CASE q # p
    <3>1. out'[q] = out[q] /\ stage'[q] = stage[q] /\ (lock' = q <=> lock = q)
      <4>1. CASE Put(p)
        BY <1>1, <2>4, <4>1 DEF Put, Said, observer
      <4>2. CASE QueueIsFull(p) \/ DropOldest(p)
        BY <4>2 DEF QueueIsFull, DropOldest, observer
      <4>3. CASE Lose(p)
        BY <1>1, <2>4, <4>3 DEF Lose, Moves
      <4>4. CASE Pop(p)
        BY <1>1, <2>4, <4>4 DEF Pop
      <4>5. CASE BatchMoved(p)
        BY <1>1, <2>4, <4>5 DEF BatchMoved, queue, Moves
      <4> QED
        BY <2>1, <4>1, <4>2, <4>3, <4>4, <4>5 DEF Talk
    <3> QED
      BY <1>1, <2>2, <3>1, MoverFrame
  <2>5. CASE q = p
    <3>1. CASE Put(p)
      <4>1. out'[p] = Silence /\ lock' = lock /\ stage'[p] = IF lock = p THEN stage[p] ELSE After(p)
        BY <1>1, <3>1 DEF Put, Said, observer, Moves
      <4> QED
        BY <1>1, <2>3, <2>5, <4>1 DEF MoverInv
    <3>2. CASE QueueIsFull(p) \/ DropOldest(p)
      <4>1. UNCHANGED <<out, stage, lock>>
        BY <3>2 DEF QueueIsFull, DropOldest, observer
      <4> QED
        BY <1>1, <2>2, <4>1, MoverFrame
    <3>3. CASE Lose(p)
      <4>1. out'[p] = Silence /\ lock' # p /\ stage'[p] = After(p)
        BY <1>1, <3>3 DEF Lose, Moves
      <4> QED
        BY <2>3, <2>5, <4>1, MoverSilent
    <3>4. CASE Pop(p)
      <4>1. /\ lock = p /\ lock' = lock /\ stage' = stage /\ out'[p] = Head(pending)
            /\ pending # <<>>
        BY <1>1, <3>4 DEF Pop, Moves
      <4>2. Head(pending).type \in Batched
        BY <1>1, <4>1 DEF BatchInv
      <4> QED
        BY <1>1, <2>5, <4>1, <4>2 DEF MoverInv
    <3>5. CASE BatchMoved(p)
      <4>1. out'[p] = Silence /\ lock' # p /\ stage'[p] = After(p)
        BY <1>1, <3>5 DEF BatchMoved, queue
      <4> QED
        BY <2>3, <2>5, <4>1, MoverSilent
    <3> QED
      BY <2>1, <3>1, <3>2, <3>3, <3>4, <3>5 DEF Talk
  <2> QED
    BY <2>4, <2>5
<1>4. CASE \E w \in Workers : WorkStep(w)
  <2>1. PICK w \in Workers : WorkStep(w)
    BY <1>4
  <2>2. stage[w] \notin Talking
    BY <2>1 DEF WorkStep, Begin, NeverStarts, ReactSuccess, Observe, SessionEnds, Tell, EndWork, Raise,
                Talking
  <2>3. out[w] = Silence /\ lock # w /\ w \in RunThreads /\ w # Main
    BY <1>1, <1>2, <2>2
  <2>4. lock' = lock \/ (lock = Nobody /\ lock' = w)
    BY <2>1 DEF WorkStep, Begin, NeverStarts, ReactSuccess, Observe, SessionEnds, Tell, EndWork,
                Raise, Gather, observer
  <2>5. CASE q # w
    <3>1. stage'[q] = stage[q] /\ out'[q] = out[q]
      BY <1>1, <2>1, <2>5 DEF WorkStep, Begin, NeverStarts, ReactSuccess, Observe, SessionEnds, Tell,
                              EndWork, Raise, Leaves, Gather, queue
    <3>2. q # Main => doing'[q] = doing[q]
      <4>1. \E x : doing' = [doing EXCEPT ![w] = x] \/ doing' = doing
        BY <2>1 DEF WorkStep, Begin, NeverStarts, ReactSuccess, Observe, SessionEnds, Tell, EndWork,
                    Raise, Leaves, sessions
      <4>2. q # Main => q \in Workers
        BY ThreadsAre
      <4> QED
        BY <1>1, <2>5, <4>1, <4>2
    <3> QED
      BY <1>1, <2>4, <2>5, <3>1, <3>2, MoverFrame
  <2>6. CASE q = w
    <3>1. CASE Begin(w)
      <4>1. /\ stage'[w] = "starting" /\ lock' = lock /\ out'[w] = Event("session_started", Head(todo))
            /\ doing'[w] = Head(todo)
        BY <1>1, <2>3, <3>1 DEF Begin
      <4> QED
        BY <2>3, <2>6, <4>1 DEF MoverInv, Moving, Event
    <3>2. CASE Tell(w)
      <4>1. /\ stage'[w] = "telling" /\ lock' = lock /\ doing' = doing
            /\ \E o \in Outcomes : out'[w] = [type |-> "session_finished", session |-> doing[w],
                                              status |-> o, steps |-> count[doing[w]]]
        BY <1>1, <2>3, <3>2 DEF Tell
      <4>2. out'[w].session = doing'[w]
        BY <4>1
      <4> QED
        BY <2>3, <2>6, <4>1, <4>2 DEF MoverInv, Moving
    <3>3. CASE NeverStarts(w)
      <4>1. UNCHANGED <<stage, lock, out, doing>>
        BY <3>3 DEF NeverStarts, observer, queue
      <4> QED
        BY <1>1, <4>1, MoverFrame
    <3>4. CASE ReactSuccess(w) \/ Observe(w)
      <4>1. /\ out' = out
            /\ \/ lock' = w /\ stage'[w] \in Moving
               \/ lock' = lock /\ stage'[w] \notin Moving
        BY <1>1, <2>3, <3>4 DEF ReactSuccess, Observe, Gather, queue, Moving
      <4> QED
        BY <2>3, <2>6, <4>1 DEF MoverInv
    <3>5. CASE SessionEnds(w)
      <4>1. out' = out /\ lock' = w /\ stage'[w] = "ending"
        BY <1>1, <2>3, <3>5 DEF SessionEnds, queue
      <4> QED
        BY <2>3, <2>6, <4>1 DEF MoverInv, Moving
    <3>6. CASE EndWork(w) \/ Raise(w)
      <4>1. out' = out /\ lock' = lock /\ stage'[w] = "idle"
        BY <1>1, <2>3, <3>6 DEF EndWork, Raise, Leaves, queue, observer
      <4> QED
        BY <2>3, <2>6, <4>1, MoverSilent DEF Moving
    <3> QED
      BY <2>1, <3>1, <3>2, <3>3, <3>4, <3>5, <3>6 DEF WorkStep
  <2> QED
    BY <2>5, <2>6
<1>5. CASE ReportFailure \/ RunSucceeds \/ EmitSaved \/ RunStops
  <2>1. /\ stage[Main] \notin Talking /\ UNCHANGED doing
        /\ lock' = lock \/ (lock = Nobody /\ lock' = Main)
    BY <1>5 DEF ReportFailure, RunSucceeds, EmitSaved, RunStops, observer, sessions, Talking
  <2>2. out[Main] = Silence /\ lock # Main
    BY <1>1, <1>2, <2>1
  <2>3. CASE q # Main
    <3>1. stage'[q] = stage[q] /\ out'[q] = out[q]
      BY <1>1, <1>5, <2>3 DEF ReportFailure, RunSucceeds, EmitSaved, RunStops, queue
    <3> QED
      BY <1>1, <2>1, <2>3, <3>1, MoverFrame
  <2>4. CASE q = Main
    <3>1. CASE ReportFailure \/ RunSucceeds
      <4>1. stage'[Main] = "saving" /\ lock' = Main /\ out' = out
        BY <1>1, <3>1 DEF ReportFailure, RunSucceeds, queue
      <4> QED
        BY <2>2, <2>4, <4>1 DEF MoverInv, Moving
    <3>2. CASE EmitSaved
      <4>1. stage'[Main] = "saying" /\ lock' = lock /\ out'[Main] = Event("saved", Nobody)
        BY <1>1, <3>2 DEF EmitSaved, observer
      <4> QED
        BY <2>2, <2>4, <4>1 DEF MoverInv, Moving, Event
    <3>3. CASE RunStops
      <4>1. stage'[Main] = "over" /\ lock' = lock /\ out' = out
        BY <1>1, <3>3 DEF RunStops, observer, queue
      <4> QED
        BY <2>2, <2>4, <4>1, MoverSilent DEF Moving
    <3> QED
      BY <1>5, <3>1, <3>2, <3>3
  <2> QED
    BY <2>3, <2>4
<1>6. CASE StartRun
  <2>1. stage'[q] \in {"wait", "idle"} /\ out'[q] = Silence /\ lock' = Nobody
    BY <1>6 DEF StartRun, Fresh
  <2> QED
    BY <1>1, <2>1, MoverSilent DEF Moving
<1>7. CASE Tick \/ UNCHANGED dashboardVars
  <2>1. UNCHANGED <<stage, out, lock, doing>>
    BY <1>7 DEF Tick, dashboardVars, sessions, observer, queue
  <2> QED
    BY <1>1, <2>1, MoverFrame
<1> QED
  BY <1>3, <1>4, <1>5, <1>6, <1>7, DashboardSteps

\* The batch grows by an event, or shrinks by its first.
LEMMA BatchChanges ==
  ASSUME DashboardInv, [DashboardNext]_dashboardVars
  PROVE  \/ pending' = pending
         \/ pending' = <<>>
         \/ \E p \in RunThreads : Pop(p)
         \/ \E w \in Workers : /\ ReactSuccess(w) /\ doing[w] \in Sessions
                               /\ pending' = Append(pending, Event("step", doing[w]))
         \/ \E w \in Workers : /\ Observe(w) /\ doing[w] \in Sessions
                               /\ pending' = Append(pending, Event("observation", doing[w]))
         \/ RunSucceeds /\ pending' = Append(pending, Event("benchmark_recorded", Nobody))
<1>1. CASE \E p \in RunThreads : Talk(p)
  BY <1>1 DEF Talk, Put, QueueIsFull, DropOldest, Lose, BatchMoved, observer
<1>2. CASE \E w \in Workers : WorkStep(w)
  <2>1. PICK w \in Workers : WorkStep(w)
    BY <1>2
  <2>2. ReactSuccess(w) \/ Observe(w) => doing[w] \in Sessions
    BY ThreadsAre DEF ReactSuccess, Observe, DashboardInv, ThreadInv
  <2> QED
    BY <2>1, <2>2 DEF WorkStep, Begin, NeverStarts, ReactSuccess, Observe, SessionEnds, Tell, EndWork,
                      Raise, Gather, observer
<1>3. CASE ReportFailure \/ RunSucceeds \/ EmitSaved \/ RunStops
  BY <1>3 DEF ReportFailure, RunSucceeds, EmitSaved, RunStops, observer
<1>4. CASE StartRun \/ Tick \/ UNCHANGED dashboardVars
  BY <1>4 DEF StartRun, Fresh, Tick, dashboardVars, observer
<1> QED
  BY <1>1, <1>2, <1>3, <1>4, DashboardSteps

LEMMA BatchStep == DashboardInv /\ BatchInv /\ [DashboardNext]_dashboardVars => BatchInv'
<1> SUFFICES ASSUME DashboardInv, BatchInv, [DashboardNext]_dashboardVars PROVE BatchInv'
  OBVIOUS
<1>1. pending \in Seq(Entries)
  BY DEF DashboardInv, QueueTypes
<1>2. CASE pending' = pending \/ pending' = <<>>
  BY <1>2 DEF BatchInv
<1>3. CASE \E p \in RunThreads : Pop(p)
  <2>1. pending' = Tail(pending) /\ pending # <<>>
    BY <1>3 DEF Pop
  <2>2. \A i \in DOMAIN pending' : i + 1 \in DOMAIN pending /\ pending'[i] = pending[i + 1]
    BY <1>1, <2>1
  <2> QED
    BY <2>2 DEF BatchInv
<1>4. CASE \E type \in Batched : \E s : pending' = Append(pending, Event(type, s))
  <2>1. PICK e : pending' = Append(pending, e) /\ e.type \in Batched
    BY <1>4 DEF Event
  <2>2. \A i \in DOMAIN pending' : pending'[i] = e \/ (i \in DOMAIN pending /\ pending'[i] = pending[i])
    BY <1>1, <2>1
  <2> QED
    BY <2>1, <2>2 DEF BatchInv
<1>5. "step" \in Batched /\ "observation" \in Batched /\ "benchmark_recorded" \in Batched
  BY DEF Batched
<1> QED
  BY <1>2, <1>3, <1>4, <1>5, BatchChanges

------------------------------------------------------------------------------
(* Dashboard: what is gathered is moved before the end is told.             *)

LEMMA SilenceIsNothing == \A s : ~ About(Silence, s)
BY DEF About

LEMMA AboutEvents ==
  ASSUME NEW s, NEW t
  PROVE  /\ About(Event("step", t), s) => s = t
         /\ About(Event("session_started", t), s) => s = t
         /\ ~ About(Event("observation", t), s)
         /\ ~ About(Event("benchmark_recorded", t), s)
         /\ ~ About(Event("saved", t), s)
BY DEF About, Event

\* Only a step of the session itself adds to what is gathered about it.
LEMMA GatheredBefore ==
  ASSUME DashboardInv, [DashboardNext]_dashboardVars, NEW s \in Sessions, Gathered(s)'
  PROVE  Gathered(s) \/ \E w \in Workers : ReactSuccess(w) /\ s = doing[w]
<1>1. /\ out \in [RunThreads -> Entries] /\ lock \in RunThreads \cup {Nobody}
      /\ Main \in RunThreads /\ Workers \subseteq RunThreads
      /\ Nobody \notin RunThreads /\ pending \in Seq(Entries)
  BY ThreadsAre DEF DashboardInv, QueueTypes, DashboardTypeOK
<1>2. \A p \in RunThreads : stage[p] \notin Talking => out[p] = Silence /\ lock # p
  BY DEF DashboardInv, ThreadInv
<1>3. CASE \E i \in DOMAIN pending' : About(pending'[i], s)
  <2>1. PICK i \in DOMAIN pending' : About(pending'[i], s)
    BY <1>3
  <2>2. CASE pending' = pending
    BY <2>1, <2>2 DEF Gathered
  <2>3. CASE pending' = <<>>
    BY <2>1, <2>3
  <2>4. CASE \E p \in RunThreads : Pop(p)
    <3>1. pending' = Tail(pending) /\ pending # <<>>
      BY <2>4 DEF Pop
    <3>2. i + 1 \in DOMAIN pending /\ pending'[i] = pending[i + 1]
      BY <1>1, <2>1, <3>1
    <3> QED
      BY <2>1, <3>2 DEF Gathered
  <2>5. ASSUME NEW e, pending' = Append(pending, e), About(e, s) => \E w \in Workers : ReactSuccess(w) /\ s = doing[w]
        PROVE  Gathered(s) \/ \E w \in Workers : ReactSuccess(w) /\ s = doing[w]
    <3>1. pending'[i] = e \/ (i \in DOMAIN pending /\ pending'[i] = pending[i])
      BY <1>1, <2>1, <2>5
    <3> QED
      BY <2>1, <2>5, <3>1 DEF Gathered
  <2>6. CASE \E w \in Workers : ReactSuccess(w) /\ pending' = Append(pending, Event("step", doing[w]))
    BY <2>5, <2>6, AboutEvents
  <2>7. CASE \E w \in Workers : pending' = Append(pending, Event("observation", doing[w]))
    BY <2>5, <2>7, AboutEvents
  <2>8. CASE pending' = Append(pending, Event("benchmark_recorded", Nobody))
    BY <2>5, <2>8, AboutEvents
  <2> QED
    BY <2>2, <2>3, <2>4, <2>6, <2>7, <2>8, BatchChanges
<1>4. CASE lock' # Nobody /\ About(out'[lock'], s)
  <2>1. CASE \E p \in RunThreads : Talk(p)
    <3>1. PICK p \in RunThreads : Talk(p)
      BY <2>1
    <3>2. CASE Pop(p)
      <4>1. lock = p /\ lock' = lock /\ pending # <<>> /\ out'[p] = Head(pending)
        BY <1>1, <3>2 DEF Pop, Moves
      <4>2. 1 \in DOMAIN pending /\ Head(pending) = pending[1]
        BY <1>1, <4>1
      <4> QED
        BY <1>4, <4>1, <4>2 DEF Gathered
    <3>3. CASE ~ Pop(p)
      <4>1. lock' = lock \/ lock' = Nobody
        BY <3>1, <3>3 DEF Talk, Put, QueueIsFull, DropOldest, Lose, BatchMoved, observer
      <4>2. out' = out \/ out' = [out EXCEPT ![p] = Silence]
        BY <3>1, <3>3 DEF Talk, Put, Said, QueueIsFull, DropOldest, Lose, BatchMoved, queue
      <4>3. lock' = lock /\ lock \in RunThreads
        BY <1>1, <1>4, <4>1
      <4>4. out'[lock] = out[lock] \/ out'[lock] = Silence
        BY <1>1, <4>2, <4>3
      <4> QED
        BY <1>4, <4>3, <4>4, SilenceIsNothing DEF Gathered
    <3> QED
      BY <3>2, <3>3
  <2>2. CASE \E w \in Workers : WorkStep(w)
    <3>1. PICK w \in Workers : WorkStep(w)
      BY <2>2
    <3>2. stage[w] \notin Talking
      BY <3>1 DEF WorkStep, Begin, NeverStarts, ReactSuccess, Observe, SessionEnds, Tell, EndWork, Raise,
                  Talking
    <3>3. out[w] = Silence /\ lock # w
      BY <1>1, <1>2, <3>2
    <3>4. (lock = Nobody /\ lock' = Nobody) \/ (out' = out /\ (lock' = lock \/ lock' = w))
      BY <3>1 DEF WorkStep, Begin, NeverStarts, ReactSuccess, Observe, SessionEnds, Tell, EndWork,
                  Raise, Gather, observer, queue
    <3> QED
      BY <1>4, <3>3, <3>4, SilenceIsNothing DEF Gathered
  <2>3. CASE ReportFailure \/ RunSucceeds \/ RunStops
    <3>1. stage[Main] \notin Talking /\ out' = out /\ (lock' = lock \/ lock' = Main)
      BY <2>3 DEF ReportFailure, RunSucceeds, RunStops, observer, queue, Talking
    <3> QED
      BY <1>1, <1>2, <1>4, <3>1, SilenceIsNothing DEF Gathered
  <2>4. CASE EmitSaved
    <3>1. lock' = lock /\ out' = [out EXCEPT ![Main] = Event("saved", Nobody)]
      BY <2>4 DEF EmitSaved, observer
    <3>2. out'[lock] = out[lock] \/ out'[lock] = Event("saved", Nobody)
      BY <1>1, <1>4, <3>1
    <3> QED
      BY <1>4, <3>1, <3>2, AboutEvents DEF Gathered
  <2>5. CASE StartRun
    BY <1>4, <2>5 DEF StartRun, Fresh
  <2>6. CASE Tick \/ UNCHANGED dashboardVars
    <3>1. UNCHANGED <<lock, out>>
      BY <2>6 DEF Tick, dashboardVars, observer, queue
    <3> QED
      BY <1>4, <3>1 DEF Gathered
  <2> QED
    BY <2>1, <2>2, <2>3, <2>4, <2>5, <2>6, DashboardSteps
<1> QED
  BY <1>3, <1>4 DEF Gathered

\* Attempts are counted when a session begins, and start again with a run.
LEMMA AttemptsChange ==
  ASSUME DashboardInv, ViewTypes, [DashboardNext]_dashboardVars
  PROVE  \/ attempts' = attempts
         \/ StartRun
         \/ \E w \in Workers : /\ Begin(w) /\ Head(todo) \in Sessions
                               /\ attempts' = [attempts EXCEPT ![Head(todo)] = @ + 1]
<1>1. CASE \E p \in RunThreads : Talk(p)
  BY <1>1, TalkIs DEF sessions
<1>2. CASE \E w \in Workers : Begin(w)
  <2>1. PICK w \in Workers : Begin(w)
    BY <1>2
  <2>2. todo \in Seq(Sessions) /\ todo # <<>>
    BY <2>1 DEF DashboardInv, DashboardTypeOK, Begin
  <2>3. Head(todo) \in Sessions
    BY <2>2
  <2>4. attempts' = [attempts EXCEPT ![Head(todo)] = @ + 1]
    BY <2>1 DEF Begin
  <2> QED
    BY <2>1, <2>3, <2>4
<1>3. CASE \E w \in Workers : WorkStep(w) /\ ~ Begin(w)
  BY <1>3 DEF WorkStep, NeverStarts, ReactSuccess, Observe, SessionEnds, Tell, EndWork, Raise, sessions
<1>4. CASE ReportFailure \/ RunSucceeds \/ EmitSaved \/ RunStops \/ Tick \/ UNCHANGED dashboardVars
  BY <1>4 DEF ReportFailure, RunSucceeds, EmitSaved, RunStops, Tick, dashboardVars, sessions
<1> QED
  BY <1>1, <1>2, <1>3, <1>4, DashboardSteps

\* What is gathered about a session is moved before its end is told.
LEMMA FlushStep ==
  ASSUME DashboardInv, CrewInv, ViewTypes, \A p \in RunThreads : MoverInv(p), FlushInv,
         [DashboardNext]_dashboardVars, ~ lost'
  PROVE  FlushInv'
<1>1. /\ stage \in [RunThreads -> OfMain \cup OfWorker] /\ out \in [RunThreads -> Entries]
      /\ lock \in RunThreads \cup {Nobody} /\ doing \in [Workers -> Sessions \cup {Nobody}]
      /\ Main \in RunThreads /\ Workers \subseteq RunThreads /\ Main \notin Workers
      /\ Nobody \notin RunThreads /\ todo \in Seq(Sessions) /\ attempts \in [Sessions -> Nat]
  BY ThreadsAre DEF DashboardInv, QueueTypes, DashboardTypeOK, ViewTypes
<1>2. \A w \in Workers : stage[w] # "idle" => doing[w] \in Sessions /\ attempts[doing[w]] > 0
  BY <1>1 DEF DashboardInv, ThreadInv, CrewInv
<1>3. StartRun => \A s : ~ Gathered(s)'
  BY <1>1 DEF StartRun, Fresh, Gathered
<1>4. ASSUME NEW s \in Sessions, attempts'[s] = 0, Gathered(s)' PROVE FALSE
  <2>1. ~ StartRun
    BY <1>3, <1>4
  <2>2. attempts[s] = 0
    <3>1. CASE attempts' = attempts
      BY <1>4, <3>1
    <3>2. CASE Head(todo) \in Sessions /\ attempts' = [attempts EXCEPT ![Head(todo)] = @ + 1]
      <4>1. attempts[s] \in Nat /\ (attempts'[s] = attempts[s] \/ attempts'[s] = attempts[s] + 1)
        BY <1>1, <3>2
      <4> QED
        BY <1>4, <4>1
    <3> QED
      BY <2>1, <3>1, <3>2, AttemptsChange
  <2>3. ~ Gathered(s)
    BY <2>2 DEF FlushInv
  <2>4. PICK w \in Workers : ReactSuccess(w) /\ s = doing[w]
    BY <1>4, <2>3, GatheredBefore
  <2>5. stage[w] # "idle"
    BY <2>4 DEF ReactSuccess
  <2> QED
    BY <1>2, <2>2, <2>4, <2>5
<1>5. ASSUME NEW w \in Workers, NEW s, s = doing'[w],
             (\/ stage'[w] \in {"ended", "telling"}
              \/ stage'[w] = "starting" /\ attempts'[s] = 1),
             Gathered(s)'
      PROVE  FALSE
  <2>1. s \in Sessions /\ stage'[w] \in {"ended", "telling", "starting"}
    <3>1. ThreadInv(w)'
      BY <1>1, ThreadStep
    <3> QED
      BY <1>1, <1>5, <3>1 DEF ThreadInv
  <2>2. ~ StartRun
    BY <1>3, <1>5
  <2>3. ASSUME stage'[w] = stage[w], doing'[w] = doing[w], attempts'[s] = attempts[s], Gathered(s)
        PROVE  FALSE
    BY <1>5, <2>3 DEF FlushInv
  <2>4. ASSUME NEW v \in Workers, ReactSuccess(v), s = doing[v] PROVE FALSE
    <3>1. doing' = doing /\ stage[v] = "react"
      BY <2>4 DEF ReactSuccess
    <3>2. \E x \in {"reacted", "observe"} : stage' = [stage EXCEPT ![v] = x]
      BY <2>4 DEF ReactSuccess, Gather
    <3>3. w # v /\ stage[w] = stage'[w]
      BY <1>1, <2>1, <3>2
    <3> QED
      BY <1>5, <2>1, <2>4, <3>1, <3>3 DEF CrewInv
  <2>5. Gathered(s)
    BY <1>5, <2>1, <2>4, GatheredBefore
  <2>6. CASE \E p \in RunThreads : Talk(p)
    <3>1. PICK p \in RunThreads : Talk(p)
      BY <2>6
    <3>2. /\ UNCHANGED <<doing, attempts>> /\ stage[p] \in Talking
          /\ stage' = stage \/ stage' = [stage EXCEPT ![p] = After(p)]
      BY <3>1, TalkIs DEF sessions
    <3>3. stage'[w] # stage[w]
      BY <2>3, <2>5, <3>2
    <3>4. p = w /\ stage'[w] = After(w) /\ stage[w] = "ending"
      <4>1. p = w /\ stage'[w] = After(w)
        BY <1>1, <3>2, <3>3
      <4> QED
        BY <2>1, <3>2, <4>1, AfterTalking
    <3>5. lock = w
      BY <1>1, <3>4 DEF MoverInv, Moving
    <3>6. ~ Put(w)
      BY <3>3, <3>5 DEF Put, Said, Moves
    <3>7. ~ Lose(w)
      BY DEF Lose
    <3>8. BatchMoved(w)
      BY <3>1, <3>3, <3>4, <3>6, <3>7 DEF Talk, QueueIsFull, DropOldest, Pop
    <3>9. lock' = Nobody /\ pending' = <<>>
      BY <3>8 DEF BatchMoved
    <3> QED
      BY <1>5, <3>9 DEF Gathered
  <2>7. CASE \E v \in Workers : WorkStep(v)
    <3>1. PICK v \in Workers : WorkStep(v)
      BY <2>7
    <3>2. CASE Begin(v)
      <4> DEFINE t == Head(todo)
      <4>1. /\ doing' = [doing EXCEPT ![v] = t] /\ attempts' = [attempts EXCEPT ![t] = @ + 1]
            /\ stage' = [stage EXCEPT ![v] = "starting"] /\ todo # <<>>
        BY <3>2 DEF Begin
      <4>2. t \in Sessions /\ 1 \in DOMAIN todo /\ t = todo[1]
        BY <1>1, <4>1
      <4>3. \A u \in Workers : stage[u] # "idle" => doing[u] # t
        BY <4>2 DEF CrewInv
      <4> HIDE DEF t
      <4>4. CASE v = w
        <5>1. s = t /\ stage'[w] = "starting" /\ attempts'[t] = attempts[t] + 1 /\ attempts[t] \in Nat
          BY <1>5, <1>1, <4>1, <4>2, <4>4
        <5>2. attempts[t] = 0
          BY <1>5, <5>1
        <5> QED
          BY <2>5, <4>2, <5>1, <5>2 DEF FlushInv
      <4>5. CASE v # w
        <5>1. stage'[w] = stage[w] /\ doing'[w] = doing[w]
          BY <1>1, <4>1, <4>5
        <5>2. doing[w] # t /\ doing[w] \in Sessions
          BY <1>5, <2>1, <4>3, <5>1
        <5>3. attempts'[doing[w]] = attempts[doing[w]]
          BY <1>1, <4>1, <5>2
        <5> QED
          BY <1>5, <2>3, <2>5, <5>1, <5>3
      <4> QED
        BY <4>4, <4>5
    <3>3. CASE ~ Begin(v)
      <4>1. attempts' = attempts
        BY <3>1, <3>3 DEF WorkStep, NeverStarts, ReactSuccess, Observe, SessionEnds, Tell, EndWork,
                          Raise, sessions
      <4>2. CASE v # w
        <5>1. stage'[w] = stage[w]
          BY <1>1, <3>1, <4>2 DEF WorkStep, Begin, NeverStarts, ReactSuccess, Observe, SessionEnds, Tell,
                                  EndWork, Raise, Leaves, Gather
        <5>2. doing' = doing \/ doing' = [doing EXCEPT ![v] = Nobody]
          BY <3>1, <3>3 DEF WorkStep, NeverStarts, ReactSuccess, Observe, SessionEnds, Tell, EndWork,
                          Raise, Leaves, sessions
        <5>3. doing'[w] = doing[w]
          BY <1>1, <4>2, <5>2
        <5> QED
          BY <2>3, <2>5, <4>1, <5>1, <5>3
      <4>3. CASE v = w
        <5>1. CASE Tell(w)
          <6>1. stage[w] = "ended" /\ doing' = doing
            BY <5>1 DEF Tell
          <6> QED
            BY <1>5, <2>5, <6>1 DEF FlushInv
        <5>2. CASE NeverStarts(w)
          <6>1. UNCHANGED <<stage, doing>>
            BY <5>2 DEF NeverStarts
          <6> QED
            BY <2>3, <2>5, <4>1, <6>1
        <5>3. CASE ReactSuccess(w) \/ Observe(w) \/ SessionEnds(w) \/ EndWork(w) \/ Raise(w)
          <6>1. stage'[w] \in {"reacted", "observe", "observed", "react", "ending", "idle"}
            BY <1>1, <5>3 DEF ReactSuccess, Observe, SessionEnds, EndWork, Raise, Leaves, Gather
          <6> QED
            BY <2>1, <6>1
        <5> QED
          BY <3>1, <3>3, <4>3, <5>1, <5>2, <5>3 DEF WorkStep
      <4> QED
        BY <4>2, <4>3
    <3> QED
      BY <3>2, <3>3
  <2>8. CASE ReportFailure \/ RunSucceeds \/ EmitSaved \/ RunStops \/ Tick \/ UNCHANGED dashboardVars
    <3>1. UNCHANGED <<doing, attempts>> /\ stage'[w] = stage[w]
      BY <1>1, <2>8 DEF ReportFailure, RunSucceeds, EmitSaved, RunStops, Tick, dashboardVars, sessions
    <3> QED
      BY <2>3, <2>5, <3>1
  <2> QED
    BY <2>2, <2>6, <2>7, <2>8, DashboardSteps
<1> QED
  BY <1>4, <1>5 DEF FlushInv, Gathered

------------------------------------------------------------------------------
(* Dashboard: what is shown was told.                                       *)

LEMMA ViewTypesStep == DashboardInv /\ ViewTypes /\ [DashboardNext]_dashboardVars => ViewTypes'
<1> SUFFICES ASSUME DashboardInv, ViewTypes, [DashboardNext]_dashboardVars PROVE ViewTypes'
  OBVIOUS
<1>1. /\ truth \in [Sessions -> Views] /\ shown \in [Sessions -> Views]
      /\ attempts \in [Sessions -> Nat] /\ events \in Seq(Entries) /\ count \in [Sessions -> Nat]
      /\ todo \in Seq(Sessions)
  BY DEF ViewTypes, DashboardInv, QueueTypes, DashboardTypeOK
<1>2. Nothing \in Views /\ Running \in Views
  BY DEF Nothing, Running, Views
<1>3. CASE \E p \in RunThreads : Talk(p)
  <2>1. UNCHANGED <<truth, shown, attempts>>
    BY <1>3, TalkIs DEF sessions, ui
  <2> QED
    BY <1>1, <2>1 DEF ViewTypes
<1>4. CASE \E w \in Workers : WorkStep(w)
  <2>1. PICK w \in Workers : WorkStep(w)
    BY <1>4
  <2>2. shown' = shown
    BY <2>1 DEF WorkStep, Begin, NeverStarts, ReactSuccess, Observe, SessionEnds, Tell, EndWork, Raise, ui
  <2>3. CASE Begin(w)
    <3>1. Head(todo) \in Sessions
      BY <1>1, <2>3 DEF Begin
    <3>2. /\ truth' = [truth EXCEPT ![Head(todo)] = Running]
          /\ attempts' = [attempts EXCEPT ![Head(todo)] = @ + 1]
      BY <2>3 DEF Begin
    <3>3. truth' \in [Sessions -> Views]
      BY <1>1, <1>2, <3>1, <3>2
    <3>4. attempts' \in [Sessions -> Nat]
      BY <1>1, <3>1, <3>2
    <3> QED
      BY <1>1, <2>2, <3>3, <3>4 DEF ViewTypes
  <2>4. CASE ReactSuccess(w) \/ Tell(w) \/ (Raise(w) /\ truth' # truth)
    <3>1. doing[w] \in Sessions /\ attempts' = attempts
      BY ThreadsAre, <2>4 DEF ReactSuccess, Tell, Raise, DashboardInv, ThreadInv
    <3>2. \E v \in Views : truth' = [truth EXCEPT ![doing[w]] = v]
      <4>1. truth[doing[w]] \in Views
        BY <1>1, <3>1
      <4>2. /\ [truth[doing[w]] EXCEPT !.steps = @ + 1] \in Views
            /\ \A o \in Outcomes \cup {"raised"} : [truth[doing[w]] EXCEPT !.status = o] \in Views
        BY <4>1 DEF Views
      <4>3. CASE ReactSuccess(w)
        <5>1. truth' = [truth EXCEPT ![doing[w]] = [truth[doing[w]] EXCEPT !.steps = @ + 1]]
          BY <4>3 DEF ReactSuccess
        <5> QED
          BY <4>2, <5>1
      <4>4. CASE Tell(w)
        <5>1. PICK o \in Outcomes : truth' = [truth EXCEPT ![doing[w]] = [truth[doing[w]] EXCEPT !.status = o]]
          BY <4>4 DEF Tell
        <5> QED
          BY <4>2, <5>1
      <4>5. CASE Raise(w) /\ truth' # truth
        <5>1. truth' = [truth EXCEPT ![doing[w]] = [truth[doing[w]] EXCEPT !.status = "raised"]]
          BY <4>5 DEF Raise
        <5> QED
          BY <4>2, <5>1
      <4> QED
        BY <2>4, <4>3, <4>4, <4>5
    <3>3. truth' \in [Sessions -> Views]
      BY <1>1, <3>2
    <3> QED
      BY <1>1, <2>2, <3>1, <3>3 DEF ViewTypes
  <2>5. CASE \/ NeverStarts(w) \/ Observe(w) \/ SessionEnds(w) \/ EndWork(w)
             \/ Raise(w) /\ truth' = truth
    <3>1. UNCHANGED <<truth, attempts>>
      BY <2>5 DEF NeverStarts, Observe, SessionEnds, EndWork, Raise, sessions
    <3> QED
      BY <1>1, <2>2, <3>1 DEF ViewTypes
  <2> QED
    BY <2>1, <2>3, <2>4, <2>5 DEF WorkStep
<1>5. CASE ReportFailure \/ RunSucceeds \/ EmitSaved \/ RunStops \/ UNCHANGED dashboardVars
  <2>1. UNCHANGED <<truth, shown, attempts>>
    BY <1>5 DEF ReportFailure, RunSucceeds, EmitSaved, RunStops, dashboardVars, sessions, ui
  <2> QED
    BY <1>1, <2>1 DEF ViewTypes
<1>6. CASE StartRun
  BY <1>2, <1>6 DEF StartRun, Fresh, ViewTypes
<1>7. CASE Tick
  <2>1. Taken \in Seq(Entries)
    BY <1>1, <1>7, TickLeaves
  <2>2. \A s \in Sessions : Played(shown[s], Taken, s) \in Views
    BY <1>1, <2>1, PlayedTypes
  <2>3. shown' = [s \in Sessions |-> Played(shown[s], Taken, s)] /\ UNCHANGED <<truth, attempts>>
    BY <1>7 DEF Tick, sessions
  <2> QED
    BY <1>1, <2>2, <2>3 DEF ViewTypes
<1> QED
  BY <1>3, <1>4, <1>5, <1>6, <1>7, DashboardSteps

\* What is known of a running session is what its worker counts.
LEMMA TruthStep ==
  ASSUME DashboardInv, CrewInv, ViewTypes, TruthInv, [DashboardNext]_dashboardVars
  PROVE  TruthInv'
<1>1. /\ truth \in [Sessions -> Views] /\ count \in [Sessions -> Nat]
      /\ stage \in [RunThreads -> OfMain \cup OfWorker]
      /\ doing \in [Workers -> Sessions \cup {Nobody}] /\ todo \in Seq(Sessions)
      /\ Main \in RunThreads /\ Workers \subseteq RunThreads /\ Main \notin Workers
      /\ \A w \in Workers : stage[w] # "idle" => doing[w] \in Sessions
  BY ThreadsAre DEF ViewTypes, DashboardInv, QueueTypes, DashboardTypeOK, ThreadInv
<1> SUFFICES ASSUME NEW v \in Workers, stage'[v] \in Begun
             PROVE  truth'[doing'[v]] = [status |-> "running", steps |-> count'[doing'[v]]]
  BY DEF TruthInv
<1>2. ASSUME stage[v] \in Begun, doing'[v] = doing[v], truth'[doing[v]] = truth[doing[v]],
             count'[doing[v]] = count[doing[v]]
      PROVE  truth'[doing'[v]] = [status |-> "running", steps |-> count'[doing'[v]]]
  BY <1>2 DEF TruthInv
<1>3. CASE \E p \in RunThreads : Talk(p)
  <2>1. PICK p \in RunThreads : Talk(p)
    BY <1>3
  <2>2. /\ UNCHANGED <<truth, count, doing>> /\ stage[p] \in Talking
        /\ stage' = stage \/ stage' = [stage EXCEPT ![p] = After(p)]
    BY <2>1, TalkIs DEF sessions
  <2>3. stage[v] \in Begun
    BY <1>1, <2>2, AfterTalking
  <2> QED
    BY <1>2, <2>2, <2>3
<1>4. CASE \E w \in Workers : WorkStep(w)
  <2>1. PICK w \in Workers : WorkStep(w)
    BY <1>4
  <2>2. CASE Begin(w)
    <3> DEFINE t == Head(todo)
    <3>1. /\ doing' = [doing EXCEPT ![w] = t] /\ truth' = [truth EXCEPT ![t] = Running]
          /\ count' = [count EXCEPT ![t] = 0]
          /\ stage' = [stage EXCEPT ![w] = "starting"] /\ todo # <<>>
      BY <2>2 DEF Begin
    <3>2. t \in Sessions /\ 1 \in DOMAIN todo /\ t = todo[1]
      BY <1>1, <3>1
    <3>3. \A u \in Workers : stage[u] # "idle" => doing[u] # t
      BY <3>2 DEF CrewInv
    <3> HIDE DEF t
    <3>4. CASE v = w
      <4>1. doing'[v] = t /\ truth'[t] = Running /\ count'[t] = 0
        BY <1>1, <3>1, <3>2, <3>4
      <4> QED
        BY <4>1 DEF Running
    <3>5. CASE v # w
      <4>1. stage'[v] = stage[v] /\ doing'[v] = doing[v]
        BY <1>1, <3>1, <3>5
      <4>2. stage[v] \in Begun /\ stage[v] # "idle"
        BY <4>1 DEF Begun
      <4>3. doing[v] \in Sessions /\ doing[v] # t
        BY <1>1, <3>3, <4>2
      <4> QED
        BY <1>1, <1>2, <3>1, <4>1, <4>2, <4>3
    <3> QED
      BY <3>4, <3>5
  <2>3. CASE ReactSuccess(w) \/ Tell(w)
    <3> DEFINE t == doing[w]
    <3>1. doing' = doing /\ stage[w] \in {"react", "ended"}
      BY <2>3 DEF ReactSuccess, Tell
    <3>2. t \in Sessions
      BY <1>1, <3>1
    <3>3. /\ \E x \in Nat : count' = [count EXCEPT ![t] = x]
          /\ \E x : truth' = [truth EXCEPT ![t] = x]
      <4>1. count[t] + 1 \in Nat /\ 0 \in Nat
        BY <1>1, <3>2
      <4> QED
        BY <2>3, <4>1 DEF ReactSuccess, Tell
    <3>4. \E x : stage' = [stage EXCEPT ![w] = x]
      BY <2>3 DEF ReactSuccess, Tell, Gather
    <3>5. CASE v # w
      <4>1. stage[v] \in Begun /\ stage[v] # "idle" /\ stage[w] # "idle"
        BY <1>1, <3>1, <3>4, <3>5 DEF Begun
      <4>2. doing[v] # t /\ doing[v] \in Sessions
        BY <1>1, <3>5, <4>1 DEF CrewInv
      <4> HIDE DEF t
      <4> QED
        BY <1>1, <1>2, <3>1, <3>3, <4>1, <4>2
    <3>6. CASE v = w
      <4>1. ~ Tell(w)
        BY <1>1, <3>6 DEF Tell, Begun
      <4>2. ReactSuccess(w)
        BY <2>3, <4>1
      <4>3. /\ truth' = [truth EXCEPT ![t] = [truth[t] EXCEPT !.steps = @ + 1]]
            /\ count' = [count EXCEPT ![t] = @ + 1] /\ stage[w] = "react"
        BY <4>2 DEF ReactSuccess
      <4>4. truth[t] = [status |-> "running", steps |-> count[t]]
        BY <4>3 DEF TruthInv, Begun
      <4>5. truth'[t] = [truth[t] EXCEPT !.steps = @ + 1] /\ count'[t] = count[t] + 1
        BY <1>1, <3>2, <4>3
      <4>6. truth'[t] = [status |-> "running", steps |-> count[t] + 1]
        BY <4>4, <4>5
      <4> QED
        BY <3>1, <3>6, <4>5, <4>6
    <3> QED
      BY <3>5, <3>6
  <2>4. CASE NeverStarts(w) \/ Observe(w) \/ SessionEnds(w)
    <3>1. UNCHANGED <<doing, truth, count>>
      BY <2>4 DEF NeverStarts, Observe, SessionEnds, sessions, observer
    <3>2. stage' = stage \/ (stage[w] \in Begun /\ \E x : stage' = [stage EXCEPT ![w] = x])
      BY <2>4 DEF NeverStarts, Observe, SessionEnds, Gather, Begun
    <3>3. stage[v] \in Begun
      BY <1>1, <3>2
    <3> QED
      BY <1>2, <3>1, <3>3
  <2>5. CASE EndWork(w) \/ Raise(w)
    <3>1. /\ doing' = [doing EXCEPT ![w] = Nobody] /\ stage' = [stage EXCEPT ![w] = "idle"]
          /\ stage[w] # "idle" /\ count' = count
          /\ truth' = truth \/ \E x : truth' = [truth EXCEPT ![doing[w]] = x]
      BY <2>5 DEF EndWork, Raise, Leaves, observer
    <3>2. v # w
      BY <1>1, <3>1 DEF Begun
    <3>3. stage[v] \in Begun /\ stage[v] # "idle" /\ doing'[v] = doing[v]
      BY <1>1, <3>1, <3>2 DEF Begun
    <3>4. doing[v] # doing[w] /\ doing[v] \in Sessions
      BY <1>1, <3>1, <3>2, <3>3 DEF CrewInv
    <3>5. truth'[doing[v]] = truth[doing[v]]
      BY <1>1, <3>1, <3>4
    <3> QED
      BY <1>2, <3>1, <3>3, <3>5
  <2> QED
    BY <2>1, <2>2, <2>3, <2>4, <2>5 DEF WorkStep
<1>5. CASE ReportFailure \/ RunSucceeds \/ EmitSaved \/ RunStops \/ Tick \/ UNCHANGED dashboardVars
  <2>1. UNCHANGED <<truth, count, doing>> /\ stage'[v] = stage[v]
    BY <1>1, <1>5 DEF ReportFailure, RunSucceeds, EmitSaved, RunStops, Tick, dashboardVars, sessions, observer
  <2> QED
    BY <1>2, <2>1
<1>6. CASE StartRun
  <2>1. stage'[v] = "idle"
    BY <1>1, <1>6 DEF StartRun
  <2> QED
    BY <2>1 DEF Begun
<1> QED
  BY <1>3, <1>4, <1>5, <1>6, DashboardSteps

\* At most one thread is putting an event about a session: one that tells its end
\* waits until its steps were moved, one that starts again is the only worker.
OneTeller ==
  \A s \in Sessions : \A p, q \in RunThreads : About(out[p], s) /\ About(out[q], s) => p = q

LEMMA TellerIs ==
  DashboardInv /\ ViewTypes /\ CrewInv /\ (\A p \in RunThreads : MoverInv(p)) /\ FlushInv
    => OneTeller
<1> SUFFICES ASSUME DashboardInv, ViewTypes, CrewInv, \A p \in RunThreads : MoverInv(p), FlushInv,
                    NEW s \in Sessions, NEW p \in RunThreads, NEW q \in RunThreads,
                    About(out[p], s), About(out[q], s), p # q
             PROVE  FALSE
  BY DEF OneTeller
<1>1. /\ Workers \subseteq RunThreads /\ Main \notin Workers /\ Nobody \notin RunThreads
      /\ \A r \in RunThreads : r # Main => r \in Workers
  BY ThreadsAre
<1>2. ASSUME NEW r \in RunThreads, About(out[r], s), lock # r
      PROVE  r \in Workers /\ doing[r] = s /\ stage[r] \in {"starting", "telling"}
  <2>1. out[r] # Silence /\ out[r].session = s /\ out[r].type # "saved"
    BY <1>2 DEF About
  <2>2. r # Main /\ doing[r] = s
    BY <1>2, <2>1 DEF MoverInv
  <2>3. stage[r] \in Talking \cap OfWorker /\ stage[r] \notin Moving
    BY <1>2, <2>1, <2>2 DEF DashboardInv, ThreadInv, MoverInv
  <2> QED
    BY <1>1, <1>2, <2>2, <2>3 DEF Talking, OfWorker, Moving
<1>3. CASE lock # p /\ lock # q
  BY <1>2, <1>3 DEF CrewInv
<1>4. ASSUME NEW r \in RunThreads, NEW m \in RunThreads, lock = m, r # m,
             About(out[r], s), About(out[m], s)
      PROVE  FALSE
  <2>1. r \in Workers /\ doing[r] = s /\ stage[r] \in {"starting", "telling"}
    BY <1>2, <1>4
  <2>2. Gathered(s)
    BY <1>1, <1>4 DEF Gathered
  <2>3. stage[r] = "starting" /\ attempts[s] # 1
    BY <2>1, <2>2 DEF FlushInv
  <2>4. attempts[s] > 1 /\ r \in crew
    <3>1. attempts[s] > 0 /\ attempts[s] \in Nat
      BY <2>1, <2>3 DEF CrewInv, ViewTypes
    <3>2. r \in crew
      BY <2>1, <2>3 DEF CrewInv
    <3> QED
      BY <2>3, <3>1, <3>2
  <2>5. Alone
    BY <2>1, <2>3, <2>4 DEF CrewInv
  <2>6. stage[m] \in Moving
    BY <1>4 DEF MoverInv
  <2>7. m # Main
    <3>1. ~ Quiet
      BY <2>1, <2>3 DEF Quiet
    <3>2. stage[Main] \notin Announcing
      BY <2>5, <3>1 DEF CrewInv
    <3>3. m = Main => stage[m] \in OfMain
      BY <1>4 DEF DashboardInv, ThreadInv
    <3> QED
      BY <2>6, <3>2, <3>3 DEF Moving, Announcing, OfMain
  <2>8. m \in crew
    <3>1. m \in Workers /\ stage[m] # "idle"
      BY <1>1, <1>4, <2>6, <2>7 DEF Moving
    <3> QED
      BY <3>1 DEF CrewInv
  <2>9. crew \subseteq Workers
    BY DEF DashboardInv, DashboardTypeOK
  <2> QED
    BY <1>4, <2>4, <2>5, <2>8, <2>9, OneWorker
<1> QED
  BY <1>3, <1>4

\* What is seen of a session, when nothing is said about it.
LEMMA SeenSame ==
  ASSUME NEW s \in Sessions, OneTeller, shown'[s] = shown[s], UNCHANGED events,
         \A x : Played(x, pending', s) = Played(x, pending, s),
         \A q \in RunThreads : About(out'[q], s) <=> About(out[q], s),
         \A q \in RunThreads : About(out[q], s) => out'[q] = out[q]
  PROVE  Seen(s)' = Seen(s)
<1>1. \A p, q \in RunThreads : About(out[p], s) /\ About(out[q], s) => p = q
  BY DEF OneTeller
<1>2. \A x : Arrived(out', x, s) = Arrived(out, x, s)
  BY <1>1, ArrivedAlike
<1> QED
  BY <1>2 DEF Seen

\* An event that is put changes places only.
LEMMA SeenWhilePut ==
  ASSUME DashboardInv, OneTeller, OneTeller', ~ lost',
         NEW p \in RunThreads, Talk(p), NEW s \in Sessions
  PROVE  Seen(s)' = Seen(s)
<1>1. /\ out \in [RunThreads -> Entries] /\ pending \in Seq(Entries) /\ events \in Seq(Entries)
      /\ shown' = shown
  BY TalkIs DEF DashboardInv, QueueTypes, ui
<1>2. \A q, r \in RunThreads : About(out[q], s) /\ About(out[r], s) => q = r
  BY DEF OneTeller
<1>3. \A q, r \in RunThreads : About(out'[q], s) /\ About(out'[r], s) => q = r
  BY DEF OneTeller
<1>4. CASE Put(p)
  <2> DEFINE e == out[p]
             x == Played(shown[s], events, s)
  <2>1. e \in Entries /\ events' = Append(events, e) /\ out' = [out EXCEPT ![p] = Silence]
        /\ pending' = pending
    BY <1>1, <1>4 DEF Put, Said, observer
  <2>2. Played(shown[s], events', s) = Show(x, e, s)
    BY <1>1, <2>1, PlayedLast
  <2>3. out'[p] = Silence /\ \A q \in RunThreads : q # p => out'[q] = out[q]
    BY <1>1, <2>1
  <2>4. Arrived(out', Show(x, e, s), s) = Arrived(out, x, s)
    <3>1. CASE About(e, s)
      <4>1. Arrived(out, x, s) = Show(x, e, s)
        BY <1>2, <3>1, ArrivedBy
      <4>2. \A q \in RunThreads : ~ About(out'[q], s)
        BY <1>2, <2>3, <3>1, SilenceIsNothing
      <4>3. Arrived(out', Show(x, e, s), s) = Show(x, e, s)
        BY <4>2, ArrivedByNobody
      <4> QED
        BY <4>1, <4>3
    <3>2. CASE ~ About(e, s)
      <4>1. Show(x, e, s) = x
        BY <3>2, ShowIrrelevant
      <4>2. \A q \in RunThreads : /\ About(out'[q], s) <=> About(out[q], s)
                                  /\ About(out[q], s) => out'[q] = out[q]
        BY <2>3, <3>2, SilenceIsNothing
      <4>3. Arrived(out', x, s) = Arrived(out, x, s)
        BY <1>2, <4>2, ArrivedAlike
      <4> QED
        BY <4>1, <4>3
    <3> QED
      BY <3>1, <3>2
  <2> QED
    BY <1>1, <2>1, <2>2, <2>4 DEF Seen
<1>5. CASE QueueIsFull(p) \/ BatchMoved(p)
  <2>1. UNCHANGED <<out, events, pending>>
    BY <1>5 DEF QueueIsFull, BatchMoved, queue, observer
  <2> QED
    BY <1>1, <2>1 DEF Seen
<1>6. CASE Pop(p)
  <2> DEFINE h == Head(pending)
             x == Played(shown[s], events, s)
             y == Arrived(out, x, s)
  <2>1. /\ out[p] = Silence /\ out' = [out EXCEPT ![p] = h] /\ pending' = Tail(pending)
        /\ pending # <<>> /\ events' = events
    BY <1>6 DEF Pop
  <2>2. Played(y, pending, s) = Played(Show(y, h, s), pending', s)
    BY <1>1, <2>1, PlayedFirst
  <2>3. out'[p] = h /\ \A q \in RunThreads : q # p => out'[q] = out[q]
    BY <1>1, <2>1
  <2> HIDE DEF h
  <2>4. Arrived(out', x, s) = Show(y, h, s)
    <3>1. CASE About(h, s)
      <4>1. \A q \in RunThreads : ~ About(out[q], s)
        BY <1>3, <2>1, <2>3, <3>1, SilenceIsNothing
      <4>2. y = x
        BY <4>1, ArrivedByNobody
      <4>3. Arrived(out', x, s) = Show(x, out'[p], s)
        BY <1>3, <2>3, <3>1, ArrivedBy
      <4> QED
        BY <2>3, <4>2, <4>3
    <3>2. CASE ~ About(h, s)
      <4>1. Show(y, h, s) = y
        BY <3>2, ShowIrrelevant
      <4>2. \A q \in RunThreads : /\ About(out'[q], s) <=> About(out[q], s)
                                  /\ About(out[q], s) => out'[q] = out[q]
        BY <2>1, <2>3, <3>2, SilenceIsNothing
      <4>3. Arrived(out', x, s) = y
        BY <1>2, <4>2, ArrivedAlike
      <4> QED
        BY <4>1, <4>3
    <3> QED
      BY <3>1, <3>2
  <2> QED
    BY <1>1, <2>1, <2>2, <2>4 DEF Seen
<1>7. ~ DropOldest(p) /\ ~ Lose(p)
  BY DEF DropOldest, Lose
<1> QED
  BY <1>4, <1>5, <1>6, <1>7 DEF Talk

\* A tick shows what it takes from the queue.
LEMMA SeenInTick ==
  ASSUME DashboardInv, Tick, NEW s \in Sessions
  PROVE  Seen(s)' = Seen(s)
<1>1. events \in Seq(Entries)
  BY DEF DashboardInv, QueueTypes
<1>2. /\ events' \in Seq(Entries) /\ Taken \in Seq(Entries)
      /\ \A i \in DOMAIN Taken : Taken[i] = events[i]
      /\ Len(events) = Len(Taken) + Len(events')
      /\ \A i \in 1 .. Len(events') : events[Len(Taken) + i] = events'[i]
  BY <1>1, TickLeaves
<1>3. Joined(events, Taken, events')
  BY <1>2 DEF Joined, SameFrom
<1>4. shown'[s] = Played(shown[s], Taken, s) /\ UNCHANGED <<out, pending>>
  BY DEF Tick, observer
<1>5. Played(shown[s], events, s) = Played(shown'[s], events', s)
  BY <1>1, <1>2, <1>3, <1>4, PlayedBoth
<1> QED
  BY <1>4, <1>5 DEF Seen

\* An event that is gathered is the last one.
LEMMA SeenWhenGathered ==
  ASSUME DashboardInv, UNCHANGED <<shown, events, out>>, NEW e \in Entries,
         pending' = Append(pending, e), NEW s \in Sessions
  PROVE  Seen(s)' = Show(Seen(s), e, s)
<1>1. pending \in Seq(Entries)
  BY DEF DashboardInv, QueueTypes
<1> DEFINE x == Arrived(out, Played(shown[s], events, s), s)
<1>2. Played(x, pending', s) = Show(Played(x, pending, s), e, s)
  BY <1>1, PlayedLast
<1> QED
  BY <1>2 DEF Seen

LEMMA ViewFrame ==
  ASSUME NEW s \in Sessions, ViewInv(s), attempts'[s] = attempts[s], truth'[s] = truth[s],
         Seen(s)' = Seen(s)
  PROVE  ViewInv(s)'
<1>1. AsTold(s)' = AsTold(s)
  BY DEF AsTold
<1> QED
  BY <1>1 DEF ViewInv

\* The same when a session raises, of which nobody is told.
LEMMA ViewUntold ==
  ASSUME NEW s \in Sessions, ViewInv(s), attempts'[s] = attempts[s], AsTold(s)' = AsTold(s),
         Seen(s)' = Seen(s)
  PROVE  ViewInv(s)'
BY DEF ViewInv

LEMMA ViewInWork ==
  ASSUME DashboardInv, ShownInv, OneTeller, OneTeller', ~ lost, NEW w \in Workers, WorkStep(w),
         NEW s \in Sessions
  PROVE  ViewInv(s)'
<1>1. /\ out \in [RunThreads -> Entries] /\ pending \in Seq(Entries) /\ events \in Seq(Entries)
      /\ truth \in [Sessions -> Views] /\ shown \in [Sessions -> Views]
      /\ attempts \in [Sessions -> Nat] /\ count \in [Sessions -> Nat] /\ todo \in Seq(Sessions)
      /\ w \in RunThreads /\ shown' = shown /\ events' = events
  BY ThreadsAre DEF DashboardInv, QueueTypes, DashboardTypeOK, ShownInv, ViewTypes, WorkStep, Begin,
       NeverStarts, ReactSuccess, Observe, SessionEnds, Tell, EndWork, Raise, ui, queue
<1>2. ViewInv(s) /\ FlushInv /\ BatchInv /\ TruthInv
  BY DEF ShownInv
<1>3. stage[w] \notin Talking
  BY DEF WorkStep, Begin, NeverStarts, ReactSuccess, Observe, SessionEnds, Tell, EndWork, Raise,
         Talking
<1>4. out[w] = Silence
  BY <1>1, <1>3 DEF DashboardInv, ThreadInv
<1>5. stage[w] # "idle" => doing[w] \in Sessions
  BY ThreadsAre DEF DashboardInv, ThreadInv
<1>6. \A q, r \in RunThreads : About(out'[q], s) /\ About(out'[r], s) => q = r
  BY DEF OneTeller
<1> DEFINE x == Played(shown[s], events, s)
<1>7. x \in Views /\ Seen(s) \in Views
  <2>1. x \in Views
    BY <1>1, PlayedTypes
  <2>2. Arrived(out, x, s) \in Views
    BY <1>1, <2>1, ArrivedTypes
  <2> QED
    BY <1>1, <2>1, <2>2, PlayedTypes DEF Seen
\* The event that the worker begins to put comes before what is gathered.
<1>8. ASSUME NEW e, out' = [out EXCEPT ![w] = e], pending' = pending
      PROVE  /\ ~ About(e, s) => Seen(s)' = Seen(s)
             /\ About(e, s) => /\ Seen(s)' = Played(Show(x, e, s), pending, s)
                               /\ Seen(s) = Played(x, pending, s)
  <2>1. out'[w] = e /\ \A q \in RunThreads : q # w => out'[q] = out[q]
    BY <1>1, <1>8
  <2>2. CASE ~ About(e, s)
    <3>1. \A q \in RunThreads : /\ About(out'[q], s) <=> About(out[q], s)
                                /\ About(out[q], s) => out'[q] = out[q]
      BY <1>4, <2>1, <2>2, SilenceIsNothing
    <3> QED
      BY <1>1, <1>8, <2>2, <3>1, SeenSame
  <2>3. CASE About(e, s)
    <3>1. Arrived(out', x, s) = Show(x, e, s)
      <4>1. About(out'[w], s)
        BY <2>1, <2>3
      <4>2. Arrived(out', x, s) = Show(x, out'[w], s)
        BY <1>1, <1>6, <4>1, ArrivedBy
      <4> QED
        BY <2>1, <4>2
    <3>2. \A q \in RunThreads : ~ About(out[q], s)
      BY <1>1, <1>4, <1>6, <2>1, <2>3, SilenceIsNothing
    <3>3. Arrived(out, x, s) = x
      BY <3>2, ArrivedByNobody
    <3> QED
      BY <1>1, <1>8, <2>3, <3>1, <3>3 DEF Seen
  <2> QED
    BY <2>2, <2>3
<1> HIDE DEF x
<1>9. CASE Begin(w)
  <2> DEFINE t == Head(todo)
             e == Event("session_started", t)
  <2>1. /\ out' = [out EXCEPT ![w] = e] /\ pending' = pending /\ todo # <<>>
        /\ attempts' = [attempts EXCEPT ![t] = @ + 1] /\ truth' = [truth EXCEPT ![t] = Running]
    BY <1>9 DEF Begin
  <2>2. t \in Sessions
    BY <1>1, <2>1
  <2> HIDE DEF t
  <2>3. CASE s # t
    <3>1. ~ About(e, s)
      BY <2>3, AboutEvents
    <3>2. Seen(s)' = Seen(s)
      BY <1>8, <2>1, <3>1
    <3>3. attempts'[s] = attempts[s] /\ truth'[s] = truth[s]
      BY <1>1, <2>1, <2>3
    <3> QED
      BY <1>2, <3>2, <3>3, ViewFrame
  <2>4. CASE s = t
    <3>1. About(e, s) /\ Show(x, e, s) = Running
      BY <2>4 DEF About, Event, Show, Silence
    <3>2. Seen(s)' = Played(Running, pending, s)
      BY <1>8, <2>1, <3>1
    <3>3. truth'[s] = Running /\ attempts'[s] = attempts[s] + 1 /\ attempts[s] \in Nat
      BY <1>1, <2>1, <2>4
    <3>4. Running \in Views /\ Running.status = "running"
      BY DEF Running, Views
    <3>5. CASE attempts[s] = 0
      <4>1. \A i \in DOMAIN pending : ~ About(pending[i], s)
        BY <1>2, <3>5 DEF FlushInv, Gathered
      <4>2. Seen(s)' = Running
        BY <1>1, <3>2, <4>1, PlayedIrrelevant
      <4> QED
        BY <3>3, <3>4, <3>5, <4>2 DEF ViewInv, AsTold
    <3>6. CASE attempts[s] # 0
      <4>1. attempts'[s] > 1
        BY <3>3, <3>6
      <4>2. Played(Running, pending, s).status = "running"
        BY <1>1, <1>2, <3>4, PlayedBatched DEF BatchInv
      <4> QED
        BY <3>2, <3>3, <3>4, <4>1, <4>2 DEF ViewInv, AsTold
    <3> QED
      BY <3>5, <3>6
  <2> QED
    BY <2>3, <2>4
<1>10. CASE ReactSuccess(w)
  <2> DEFINE t == doing[w]
             e == Event("step", t)
  <2>1. /\ pending' = Append(pending, e) /\ out' = out /\ attempts' = attempts
        /\ truth' = [truth EXCEPT ![t] = [truth[t] EXCEPT !.steps = @ + 1]] /\ stage[w] = "react"
    BY <1>10 DEF ReactSuccess, Gather, queue
  <2>2. t \in Sessions /\ e \in Entries
    BY <1>5, <2>1 DEF Entries, Event
  <2>3. Seen(s)' = Show(Seen(s), e, s)
    BY <1>1, <2>1, <2>2, SeenWhenGathered
  <2>4. truth[t].status = "running"
    <3>1. truth[t] = [status |-> "running", steps |-> count[t]]
      BY <1>2, <2>1 DEF TruthInv, Begun
    <3> QED
      BY <3>1
  <2> HIDE DEF t
  <2>5. CASE s # t
    <3>1. Show(Seen(s), e, s) = Seen(s)
      BY <2>5, AboutEvents, ShowIrrelevant
    <3>2. truth'[s] = truth[s]
      BY <1>1, <2>1, <2>5
    <3> QED
      BY <1>2, <2>1, <2>3, <3>1, <3>2, ViewFrame
  <2>6. CASE s = t
    <3>1. Seen(s).status = "running"
      BY <1>2, <2>4, <2>6 DEF ViewInv, AsTold
    <3>2. Seen(s) # Nothing
      BY <3>1 DEF Nothing
    <3>3. Seen(s)' = [Seen(s) EXCEPT !.steps = @ + 1]
      BY <2>3, <2>6, <3>2 DEF Show, Event
    <3>4. truth'[s] = [truth[s] EXCEPT !.steps = @ + 1]
      BY <1>1, <2>1, <2>2, <2>6
    <3>5. Seen(s)'.status = "running" /\ truth'[s].status = "running"
      <4>1. truth[s] \in Views
        BY <1>1
      <4> QED
        BY <1>7, <2>4, <2>6, <3>1, <3>3, <3>4, <4>1 DEF Views
    <3>6. CASE attempts[s] > 1
      BY <2>1, <3>5, <3>6 DEF ViewInv, AsTold
    <3>7. CASE ~ (attempts[s] > 1)
      <4>1. Seen(s) = truth[s]
        BY <1>2, <2>4, <2>6, <3>7 DEF ViewInv, AsTold
      <4> QED
        BY <2>1, <3>3, <3>4, <3>5, <3>7, <4>1 DEF ViewInv, AsTold
    <3> QED
      BY <3>6, <3>7
  <2> QED
    BY <2>5, <2>6
<1>11. CASE Observe(w)
  <2> DEFINE e == Event("observation", doing[w])
  <2>1. /\ pending' = Append(pending, e) /\ UNCHANGED <<out, attempts, truth>> /\ stage[w] = "observe"
    BY <1>11 DEF Observe, Gather, queue, sessions
  <2>2. e \in Entries
    BY <1>5, <2>1 DEF Entries, Event
  <2>3. Seen(s)' = Show(Seen(s), e, s)
    BY <1>1, <2>1, <2>2, SeenWhenGathered
  <2>4. Show(Seen(s), e, s) = Seen(s)
    BY AboutEvents, ShowIrrelevant
  <2> QED
    BY <1>2, <2>1, <2>3, <2>4, ViewFrame
<1>12. CASE Tell(w)
  <2> DEFINE t == doing[w]
  <2>1. PICK o \in Outcomes :
          /\ truth' = [truth EXCEPT ![t] = [truth[t] EXCEPT !.status = o]]
          /\ out' = [out EXCEPT ![w] = [type |-> "session_finished", session |-> t, status |-> o,
                                        steps |-> count[t]]]
    BY <1>12 DEF Tell
  <2> DEFINE e == [type |-> "session_finished", session |-> t, status |-> o, steps |-> count[t]]
  <2>2. UNCHANGED <<pending, attempts>> /\ stage[w] = "ended"
    BY <1>12 DEF Tell
  <2>3. t \in Sessions /\ truth[t] = [status |-> "running", steps |-> count[t]]
    BY <1>2, <1>5, <2>2 DEF TruthInv, Begun
  <2>4. /\ e.type = "session_finished" /\ e.session = t /\ e.status = o /\ e.steps = count[t]
        /\ out' = [out EXCEPT ![w] = e]
    BY <2>1
  <2>5. ~ Gathered(t)
    BY <1>2, <2>2 DEF FlushInv
  <2> HIDE DEF t, e
  <2>6. CASE s # t
    <3>1. ~ About(e, s)
      BY <2>4, <2>6 DEF About
    <3>2. Seen(s)' = Seen(s)
      BY <1>8, <2>2, <2>4, <3>1
    <3>3. truth'[s] = truth[s]
      BY <1>1, <2>1, <2>6
    <3> QED
      BY <1>2, <2>2, <3>2, <3>3, ViewFrame
  <2>7. CASE s = t
    <3>1. About(e, s)
      BY <2>4, <2>7 DEF About, Silence
    <3>2. \A i \in DOMAIN pending : ~ About(pending[i], s)
      BY <2>5, <2>7 DEF Gathered
    <3>3. Seen(s)' = Show(x, e, s) /\ Seen(s) = x
      <4>1. \A y : Played(y, pending, s) = y
        BY <1>1, <3>2, PlayedIrrelevant
      <4> QED
        BY <1>8, <2>2, <2>4, <3>1, <4>1
    <3>4. truth[s].status = "running"
      BY <2>3, <2>7
    <3>5. x # Nothing
      BY <1>2, <3>3, <3>4 DEF ViewInv, AsTold, Nothing
    <3>6. Show(x, e, s) = [status |-> o, steps |-> count[t]]
      BY <2>4, <2>7, <3>5 DEF Show
    <3>7. truth'[s] = [status |-> o, steps |-> count[t]]
      BY <1>1, <2>1, <2>3, <2>7
    <3>8. truth'[s].status # "running" /\ truth'[s].status # "raised"
      BY <3>7, DashboardAssumption
    <3> QED
      BY <3>3, <3>6, <3>7, <3>8 DEF ViewInv, AsTold
  <2> QED
    BY <2>6, <2>7
<1>13. CASE NeverStarts(w) \/ SessionEnds(w) \/ EndWork(w)
  <2>1. UNCHANGED <<attempts, truth, out, pending>>
    BY <1>13 DEF NeverStarts, SessionEnds, EndWork, sessions, queue, observer
  <2>2. Seen(s)' = Seen(s)
    BY <1>1, <2>1 DEF Seen
  <2> QED
    BY <1>2, <2>1, <2>2, ViewFrame
<1>14. CASE Raise(w)
  <2> DEFINE t == doing[w]
  <2>1. /\ UNCHANGED <<attempts, out, pending>> /\ stage[w] \in {"react", "observe", "closing"}
        /\ truth' = IF stage[w] = "closing" THEN truth
                    ELSE [truth EXCEPT ![t] = [truth[t] EXCEPT !.status = "raised"]]
    BY <1>14 DEF Raise, queue, observer
  <2>2. Seen(s)' = Seen(s)
    BY <1>1, <2>1 DEF Seen
  <2>3. t \in Sessions
    BY <1>5, <2>1
  <2>4. stage[w] # "closing" => truth[t] = [status |-> "running", steps |-> count[t]]
    BY <1>2, <2>1 DEF TruthInv, Begun
  <2> HIDE DEF t
  <2>5. CASE stage[w] = "closing" \/ s # t
    <3>1. truth'[s] = truth[s]
      BY <1>1, <2>1, <2>3, <2>5
    <3> QED
      BY <1>2, <2>1, <2>2, <3>1, ViewFrame
  <2>6. CASE stage[w] # "closing" /\ s = t
    <3>1. truth'[s] = [truth[s] EXCEPT !.status = "raised"]
      BY <1>1, <2>1, <2>3, <2>6
    <3>2. truth[s] = [status |-> "running", steps |-> count[t]]
      BY <2>4, <2>6
    <3>3. AsTold(s) = truth[s]
      BY <3>2 DEF AsTold
    <3>4. truth'[s] = [status |-> "raised", steps |-> count[t]]
      BY <3>1, <3>2
    <3>5. AsTold(s)' = [status |-> "running", steps |-> count[t]]
      BY <3>4 DEF AsTold
    <3> QED
      BY <1>2, <2>1, <2>2, <3>2, <3>3, <3>5, ViewUntold
  <2> QED
    BY <2>5, <2>6
<1> QED
  BY <1>9, <1>10, <1>11, <1>12, <1>13, <1>14 DEF WorkStep

\* What is seen of every session is what was told, after every step.
LEMMA ViewStep ==
  ASSUME DashboardInv, ShownInv, OneTeller', [DashboardNext]_dashboardVars, ~ lost',
         NEW s \in Sessions
  PROVE  ViewInv(s)'
<1>1. /\ ViewTypes /\ \A p \in RunThreads : MoverInv(p)
      /\ ~ lost => ViewInv(s) /\ FlushInv /\ OneTeller
  <2>1. ~ lost => FlushInv /\ ViewInv(s)
    BY DEF ShownInv
  <2> QED
    BY <2>1, TellerIs DEF ShownInv
<1>2. CASE \E p \in RunThreads : Talk(p)
  <2>1. PICK p \in RunThreads : Talk(p)
    BY <1>2
  <2>2. ~ lost /\ UNCHANGED <<attempts, truth>>
    <3>1. lost' = lost \/ lost'
      BY <2>1 DEF Talk, Put, QueueIsFull, DropOldest, Lose, Pop, BatchMoved, queue
    <3> QED
      BY <2>1, <3>1, TalkIs DEF sessions
  <2>3. Seen(s)' = Seen(s)
    BY <1>1, <2>1, <2>2, SeenWhilePut
  <2> QED
    BY <1>1, <2>2, <2>3, ViewFrame
<1>3. CASE \E w \in Workers : WorkStep(w)
  <2>1. PICK w \in Workers : WorkStep(w)
    BY <1>3
  <2>2. lost' = lost
    BY <2>1 DEF WorkStep, Begin, NeverStarts, ReactSuccess, Observe, SessionEnds, Tell, EndWork,
                Raise, queue
  <2> QED
    BY <1>1, <2>1, <2>2, ViewInWork
<1>4. CASE ReportFailure \/ RunStops \/ UNCHANGED dashboardVars
  <2>1. UNCHANGED <<lost, attempts, truth, shown, events, out, pending>>
    BY <1>4 DEF ReportFailure, RunStops, dashboardVars, sessions, queue, observer, ui
  <2>2. Seen(s)' = Seen(s)
    BY <2>1 DEF Seen
  <2> QED
    BY <1>1, <2>1, <2>2, ViewFrame
<1>5. CASE RunSucceeds
  <2> DEFINE e == Event("benchmark_recorded", Nobody)
  <2>1. UNCHANGED <<lost, attempts, truth, shown, events, out>> /\ pending' = Append(pending, e)
    BY <1>5 DEF RunSucceeds, queue, ui
  <2>2. e \in Entries
    BY DEF Entries, Event
  <2>3. Seen(s)' = Show(Seen(s), e, s)
    BY <2>1, <2>2, SeenWhenGathered
  <2>4. Show(Seen(s), e, s) = Seen(s)
    BY AboutEvents, ShowIrrelevant
  <2> QED
    BY <1>1, <2>1, <2>3, <2>4, ViewFrame
<1>6. CASE EmitSaved
  <2>1. /\ UNCHANGED <<lost, attempts, truth, shown, events, pending>> /\ stage[Main] = "saved"
        /\ out' = [out EXCEPT ![Main] = Event("saved", Nobody)]
    BY <1>6 DEF EmitSaved, sessions, observer, ui
  <2>2. Main \in RunThreads /\ out[Main] = Silence /\ out \in [RunThreads -> Entries]
    BY <2>1, ThreadsAre DEF DashboardInv, ThreadInv, QueueTypes, Talking
  <2>3. \A q \in RunThreads : IF q = Main THEN out'[q] = Event("saved", Nobody) ELSE out'[q] = out[q]
    BY <2>1, <2>2
  <2>4. \A q \in RunThreads : /\ About(out'[q], s) <=> About(out[q], s)
                              /\ About(out[q], s) => out'[q] = out[q]
    BY <2>2, <2>3, AboutEvents, SilenceIsNothing
  <2>5. Seen(s)' = Seen(s)
    BY <1>1, <2>1, <2>4, SeenSame
  <2> QED
    BY <1>1, <2>1, <2>5, ViewFrame
<1>7. CASE StartRun
  <2>1. /\ shown'[s] = Nothing /\ truth'[s] = Nothing /\ attempts'[s] = 0
        /\ events' = <<>> /\ pending' = <<>> /\ \A q \in RunThreads : out'[q] = Silence
    BY <1>7 DEF StartRun, Fresh
  <2>2. Played(Nothing, <<>>, s) = Nothing
    BY PlayedNothing
  <2>3. Arrived(out', Nothing, s) = Nothing
    BY <2>1, SilenceIsNothing, ArrivedByNobody
  <2>4. Seen(s)' = Nothing
    BY <2>1, <2>2, <2>3 DEF Seen
  <2> QED
    BY <2>1, <2>4 DEF ViewInv, AsTold, Nothing
<1>8. CASE Tick
  <2>1. UNCHANGED <<lost, attempts, truth>>
    BY <1>8 DEF Tick, sessions
  <2>2. Seen(s)' = Seen(s)
    BY <1>8, SeenInTick
  <2> QED
    BY <1>1, <2>1, <2>2, ViewFrame
<1> QED
  BY <1>2, <1>3, <1>4, <1>5, <1>6, <1>7, <1>8, DashboardSteps

LEMMA ShownInit == DashboardInit => ShownInv
<1> SUFFICES ASSUME DashboardInit PROVE ShownInv
  OBVIOUS
<1>1. /\ \A w \in Workers : stage[w] = "idle"
      /\ stage[Main] = "over" /\ todo = <<>> /\ pending = <<>> /\ events = <<>> /\ lock = Nobody
      /\ \A p \in RunThreads : out[p] = Silence
      /\ \A p \in RunThreads : stage[p] \in {"over", "idle"}
      /\ \A s \in Sessions : attempts[s] = 0 /\ truth[s] = Nothing /\ shown[s] = Nothing
  BY ThreadsAre DEF DashboardInit
<1>2. ViewTypes
  <2>1. Nothing \in Views
    BY DEF Nothing, Views
  <2> QED
    BY <2>1 DEF DashboardInit, ViewTypes
<1>3. CrewInv
  BY <1>1 DEF CrewInv, Announcing
<1>4. BatchInv /\ TruthInv
  BY <1>1 DEF BatchInv, TruthInv, Begun
<1>5. \A p \in RunThreads : MoverInv(p)
  BY <1>1, ThreadsAre DEF MoverInv, Moving
<1>6. FlushInv
  BY <1>1 DEF FlushInv, Gathered
<1>7. ASSUME NEW s \in Sessions PROVE ViewInv(s)
  <2>1. Arrived(out, Nothing, s) = Nothing
    BY <1>1, SilenceIsNothing, ArrivedByNobody
  <2>2. Seen(s) = Nothing
    BY <1>1, <2>1, PlayedNothing DEF Seen
  <2> QED
    BY <1>1, <2>2 DEF ViewInv, AsTold, Nothing
<1> QED
  BY <1>2, <1>3, <1>4, <1>5, <1>6, <1>7 DEF ShownInv

LEMMA ShownInvariant == DashboardSpec => []ShownInv
<1>1. DashboardInv /\ ShownInv /\ [DashboardNext]_dashboardVars /\ DashboardInv' => ShownInv'
  <2> SUFFICES ASSUME DashboardInv, ShownInv, [DashboardNext]_dashboardVars, DashboardInv'
               PROVE  ShownInv'
    OBVIOUS
  <2>1. ViewTypes' /\ CrewInv' /\ BatchInv' /\ TruthInv' /\ \A p \in RunThreads : MoverInv(p)'
    BY ViewTypesStep, CrewStep, BatchStep, TruthStep, MoverStep DEF ShownInv
  <2>2. ASSUME ~ lost' PROVE FlushInv'
    <3>1. CASE StartRun
      <4>1. /\ \A w \in Workers : stage'[w] = "idle"
            /\ pending' = <<>> /\ lock' = Nobody
        BY <3>1, ThreadsAre DEF StartRun, Fresh
      <4> QED
        BY <4>1 DEF FlushInv, Gathered
    <3>2. CASE ~ StartRun
      <4>1. ~ lost
        <5>1. CASE \E p \in RunThreads : Talk(p)
          BY <2>2, <5>1 DEF Talk, Put, QueueIsFull, DropOldest, Lose, Pop, BatchMoved, queue
        <5>2. CASE \E w \in Workers : WorkStep(w)
          BY <2>2, <5>2 DEF WorkStep, Begin, NeverStarts, ReactSuccess, Observe, SessionEnds, Tell,
                            EndWork, Raise, queue
        <5>3. CASE ReportFailure \/ RunSucceeds \/ EmitSaved \/ RunStops \/ Tick
                   \/ UNCHANGED dashboardVars
          BY <2>2, <5>3 DEF ReportFailure, RunSucceeds, EmitSaved, RunStops, Tick, dashboardVars, queue
        <5> QED
          BY <3>2, <5>1, <5>2, <5>3, DashboardSteps
      <4> QED
        BY <2>2, <4>1, FlushStep DEF ShownInv
    <3> QED
      BY <3>1, <3>2
  <2>3. FlushInv' => OneTeller'
    <3>1. (DashboardInv /\ ViewTypes /\ CrewInv /\ (\A p \in RunThreads : MoverInv(p)) /\ FlushInv)'
            => OneTeller'
      BY TellerIs, PTL
    <3> QED
      BY <2>1, <3>1
  <2>4. ASSUME ~ lost', NEW s \in Sessions PROVE ViewInv(s)'
    BY <2>2, <2>3, <2>4, ViewStep
  <2> QED
    BY <2>1, <2>2, <2>4 DEF ShownInv
<1> QED
  BY <1>1, ShownInit, DashboardInvariant, PTL DEF DashboardSpec

\* Once every event of a run is taken and none was lost, the dashboard shows of each
\* session what was told of it, its end and its steps, and one that raised without
\* a word as running: the threads that move each other's gathered steps never put
\* one behind the end of its session (_flush_batch and process_new_events).
THEOREM WhatIsShownWasTold == DashboardSpec => []ShownIsTold
<1>1. DashboardInv /\ ShownInv => ShownIsTold
  <2> SUFFICES ASSUME DashboardInv, ShownInv, Drained, ~ lost, NEW s \in Sessions
               PROVE  \/ shown[s] = AsTold(s)
                      \/ /\ attempts[s] > 1 /\ AsTold(s).status = "running"
                         /\ shown[s].status = "running"
    BY DEF ShownIsTold
  <2>1. ViewInv(s)
    BY DEF ShownInv
  <2>2. Arrived(out, shown[s], s) = shown[s]
    BY SilenceIsNothing, ArrivedByNobody DEF Drained
  <2>3. Seen(s) = shown[s]
    BY <2>2, PlayedNothing DEF Drained, Seen
  <2> QED
    BY <2>1, <2>3 DEF ViewInv
<1> QED
  BY <1>1, DashboardInvariant, ShownInvariant, PTL
==============================================================================
