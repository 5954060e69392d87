----------------------- MODULE SessionExecutionProofs -----------------------
(***************************************************************************)
(* Proofs about SessionExecution, for any number of runs, evaluations and  *)
(* retries: type correctness; concurrent runs never all skip the session;  *)
(* and, when evaluations do not overlap, completed results survive and the *)
(* runs implement SessionRecord.                                           *)
(***************************************************************************)
EXTENDS SessionExecution, TLAPS

\* A process that ends leaves values of their types behind.
LEMMA EndTypes ==
  ASSUME TypeOK, NEW p \in Processes, NEW v, End(p, v),
         v \in {"none", "skipped", "reused", "lost", "asked", "ran", "failed", "crashed"}
  PROVE  /\ pc' = [pc EXCEPT ![p] = "idle"]
         /\ verdict' \in [Processes -> {"none", "skipped", "reused", "lost", "asked",
                                       "ran", "failed", "crashed"}]
         /\ held' \in [Processes -> Nat] /\ opened' \in [Processes -> Nat]
         /\ attempt' \in [Processes -> 0..MaxRetries]
         /\ seenResults' \in [Processes -> BOOLEAN] /\ seenDir' \in [Processes -> BOOLEAN]
         /\ status' \in [Processes -> Statuses]
<1>1. 0 \in 0..MaxRetries /\ "MISSING" \in Statuses
  BY SessionAssumption DEF Statuses
<1> QED
  BY <1>1 DEF End, GoTo, TypeOK

\* Meeting a lock is noted as a Boolean, for p only.
LEMMA MeetsType ==
  ASSUME NEW p \in Processes, Meets(p)
  PROVE  \E b \in BOOLEAN : misled' = [misled EXCEPT ![p] = b]
<1>1. (p \in Runs /\ \E q \in Samplers : HeldBy(q)) \in BOOLEAN
  BY Zenon
<1> QED
  BY <1>1, Zenon DEF Meets

\* A task that fails ends or is retried, whatever the error.
LEMMA RaiseCases ==
  ASSUME NEW p \in Processes, RemoveDir(p) \/ TaskRaises(p)
  PROVE  \/ UNCHANGED disk /\ RaiseOrRetry(p, TRUE) /\ pc[p] \in Attempting
         \/ /\ pc[p] = "rmdir" /\ root' = FALSE /\ GoTo(p, "config")
            /\ UNCHANGED <<lockFile, resultsFile, results, inodes, local, phase,
                           held, attempt, starts, verdict>>
<1>1. CASE TaskRaises(p)
  BY <1>1 DEF TaskRaises, RaiseOrRetry, MayRetry, Attempting, Locked
<1>2. CASE RemoveDir(p)
  BY <1>2 DEF RemoveDir, RaiseOrRetry, MayRetry, Attempting, Locked
<1> QED
  BY <1>1, <1>2

LEMMA TypeStep == TypeOK /\ [Next]_vars => TypeOK'
<1> SUFFICES ASSUME TypeOK, [Next]_vars PROVE TypeOK'
  OBVIOUS
<1>0. overlap' \in BOOLEAN
  BY DEF Next, vars, TypeOK
<1> USE <1>0, SessionAssumption DEF GoTo, GoOn, disk, known, local
<1>1. CASE UNCHANGED vars
  BY <1>1 DEF vars, TypeOK
<1>2. ASSUME NEW p \in Processes, Begin(p) PROVE TypeOK'
  <2>1. starts' = [starts EXCEPT ![p] = @ + 1] /\ starts[p] + 1 \in 0..MaxStarts
    BY <1>2 DEF Begin, MayBegin, TypeOK
  <2>2. starts' \in [Processes -> 0..MaxStarts]
    BY <2>1 DEF TypeOK
  <2>3. phase' \in [Processes -> {"plan", "query", "task"}]
    <3>1. \E x \in {"plan", "query"} : phase' = [phase EXCEPT ![p] = x]
      BY <1>2 DEF Begin
    <3> QED
      BY <3>1 DEF TypeOK
  <2> QED
    BY <1>2, <2>2, <2>3 DEF Begin, TypeOK
<1>3. ASSUME NEW p \in Processes, SampleFiles(p) PROVE TypeOK'
  BY <1>3 DEF SampleFiles, TypeOK
<1>4. ASSUME NEW p \in Processes, ProbeLock(p) PROVE TypeOK'
  <2>1. CASE Meets(p)
    <3>1. misled' \in [Processes -> BOOLEAN]
      BY <2>1, MeetsType DEF TypeOK
    <3> QED
      BY <1>4, <3>1 DEF ProbeLock, TypeOK, Statuses
  <2>2. CASE UNCHANGED misled
    BY <1>4, <2>2 DEF ProbeLock, TypeOK, Statuses
  <2> QED
    BY <1>4, <2>1, <2>2 DEF ProbeLock
<1>5. ASSUME NEW p \in Processes, ReleaseProbe(p) PROVE TypeOK'
  BY <1>5 DEF ReleaseProbe, TypeOK
<1>6. ASSUME NEW p \in Processes, ReadStatus(p) PROVE TypeOK'
  <2>1. ExecutionStatus(seenResults[p], seenDir[p]) \in Statuses
    BY DEF ExecutionStatus, Statuses, TypeOK
  <2> QED
    BY <1>6, <2>1 DEF ReadStatus, TypeOK
<1>7. ASSUME NEW p \in Processes, Plan(p) PROVE TypeOK'
  <2>1. CASE End(p, "skipped")
    BY <1>7, <2>1, EndTypes DEF Plan, TypeOK
  <2>2. CASE GoOn(p, "load") \/ GoOn(p, "mkdir")
    <3>1. phase' \in [Processes -> {"plan", "query", "task"}]
      BY <1>7 DEF Plan, TypeOK
    <3> QED
      BY <1>7, <2>2, <3>1 DEF Plan, TypeOK
  <2> QED
    BY <1>7, <2>1, <2>2 DEF Plan
<1>8. ASSUME NEW p \in Processes, AnswerQuery(p) \/ LoadReused(p) \/ Finish(p) \/ Crash(p)
      PROVE TypeOK'
  <2>1. /\ \E v \in {"reused", "lost", "asked", "ran", "crashed"} : End(p, v)
        /\ UNCHANGED <<disk, misled, phase, starts>>
    BY <1>8 DEF AnswerQuery, LoadReused, Finish, Crash
  <2> QED
    BY <2>1, EndTypes DEF TypeOK
<1>9. ASSUME NEW p \in Processes, MakeDir(p) \/ WriteConfig(p) PROVE TypeOK'
  BY <1>9 DEF MakeDir, WriteConfig, TypeOK, Locked
<1>10. ASSUME NEW p \in Processes, AcquireLock(p) PROVE TypeOK'
  <2>1. CASE Busy /\ Meets(p) /\ End(p, "skipped") /\ UNCHANGED disk
    <3>1. misled' \in [Processes -> BOOLEAN]
      BY <2>1, MeetsType DEF TypeOK
    <3> QED
      BY <1>10, <2>1, <3>1, EndTypes DEF AcquireLock, TypeOK
  <2>2. CASE ~Busy
    <3>1. lockFile' \in Nat /\ inodes' \in Nat /\ root' \in BOOLEAN
      <4>1. lockFile \in Nat /\ inodes \in Nat /\ root \in BOOLEAN
        BY DEF TypeOK
      <4>2. IF lockFile = 0
            THEN inodes' = inodes + 1 /\ lockFile' = inodes + 1 /\ root' = TRUE
            ELSE UNCHANGED <<inodes, lockFile, root>>
        BY ONLY <1>10, <2>2 DEF AcquireLock
      <4>3. lockFile' \in Nat /\ inodes' \in Nat
        BY ONLY <4>1, <4>2
      <4>4. root' \in BOOLEAN
        BY ONLY <4>1, <4>2, Zenon
      <4> QED
        BY <4>3, <4>4
    <3>2. /\ held' = [held EXCEPT ![p] = lockFile'] /\ UNCHANGED <<known, attempt, verdict>>
          /\ \E l \in {"refresh", "reuse"} : pc' = [pc EXCEPT ![p] = l]
          /\ UNCHANGED <<misled, resultsFile, results, phase, starts>>
      BY <1>10, <2>2 DEF AcquireLock
    <3>3. held' \in [Processes -> Nat]
      BY <3>1, <3>2 DEF TypeOK
    <3> QED
      BY <3>1, <3>2, <3>3 DEF TypeOK, Locked
  <2> QED
    BY <1>10, <2>1, <2>2 DEF AcquireLock
<1>11. ASSUME NEW p \in Processes, Refresh(p) PROVE TypeOK'
  <2>1. (CASE results \in {"error", "limit"}     -> "INCOMPLETE"
           [] results \in {"partial", "success"} -> "COMPLETED"
           [] results = "absent" -> IF root THEN "INCOMPLETE" ELSE "MISSING") \in Statuses
    BY DEF Statuses, TypeOK, Contents
  <2> QED
    BY <1>11, <2>1 DEF Refresh, TypeOK, Locked
<1>12. ASSUME NEW p \in Processes, TryReuse(p) PROVE TypeOK'
  <2>1. CASE End(p, "reused")
    BY <1>12, <2>1, EndTypes DEF TryReuse, TypeOK
  <2>2. CASE GoOn(p, "cleanup")
    BY <1>12, <2>2 DEF TryReuse, TypeOK, Locked
  <2> QED
    BY <1>12, <2>1, <2>2 DEF TryReuse
<1>13. ASSUME NEW p \in Processes, Cleanup(p) PROVE TypeOK'
  BY <1>13 DEF Cleanup, TypeOK, Locked, Contents
<1>14. ASSUME NEW p \in Processes, RemoveDir(p) \/ TaskRaises(p) PROVE TypeOK'
  <2>1. CASE UNCHANGED disk /\ RaiseOrRetry(p, TRUE)
    <3>1. CASE End(p, "failed")
      BY <2>1, <3>1, EndTypes DEF RaiseOrRetry, MayRetry, TypeOK
    <3>2. CASE /\ MayRetry(p)
               /\ attempt' = [attempt EXCEPT ![p] = @ + 1]
               /\ GoTo(p, "mkdir")
               /\ held' = [held EXCEPT ![p] = 0] /\ opened' = [opened EXCEPT ![p] = 0]
               /\ UNCHANGED <<seenResults, seenDir, status, verdict>>
      <4>1. attempt \in [Processes -> 0..MaxRetries] /\ MaxRetries \in Nat
        BY DEF TypeOK
      <4>2. attempt' \in [Processes -> 0..MaxRetries]
        BY <3>2, <4>1 DEF MayRetry
      <4> QED
        BY <2>1, <3>2, <4>2 DEF RaiseOrRetry, MayRetry, TypeOK
    <3> QED
      BY <2>1, <3>1, <3>2 DEF RaiseOrRetry, MayRetry
  <2>2. CASE /\ root' = FALSE /\ GoTo(p, "config")
             /\ UNCHANGED <<lockFile, resultsFile, results, inodes, local, phase,
                            held, attempt, starts, verdict>>
    BY <2>2 DEF TypeOK, Locked
  <2> QED
    BY <1>14, <2>1, <2>2, RaiseCases
<1>15. ASSUME NEW p \in Processes, OpenResults(p) PROVE TypeOK'
  <2>1. resultsFile' \in Nat /\ inodes' \in Nat
    BY <1>15 DEF OpenResults, TypeOK
  <2> QED
    BY <1>15, <2>1 DEF OpenResults, TypeOK, Locked, Contents
<1>16. ASSUME NEW p \in Processes, WriteResults(p) PROVE TypeOK'
  <2>1. results' \in Contents
    BY <1>16 DEF WriteResults, TypeOK, Contents, Readable
  <2> QED
    BY <1>16, <2>1 DEF WriteResults, TypeOK, Locked
<1> QED
  BY <1>1, <1>2, <1>3, <1>4, <1>5, <1>6, <1>7, <1>8, <1>9, <1>10, <1>11, <1>12,
     <1>13, <1>14, <1>15, <1>16 DEF Next, Work

LEMMA InitType == Init => TypeOK
<1> SUFFICES ASSUME Init PROVE TypeOK
  OBVIOUS
<1>1. /\ attempt \in [Processes -> 0..MaxRetries] /\ starts \in [Processes -> 0..MaxStarts]
      /\ held \in [Processes -> Nat] /\ opened \in [Processes -> Nat]
  BY SessionAssumption DEF Init
<1>2. /\ seenResults \in [Processes -> BOOLEAN] /\ seenDir \in [Processes -> BOOLEAN]
      /\ status \in [Processes -> Statuses]
  BY DEF Init, Statuses
<1>3. overlap \in BOOLEAN
  <2>1. overlap \in Overlaps /\ Overlaps \subseteq BOOLEAN
    BY SessionAssumption DEF Init
  <2> QED
    BY ONLY <2>1
<1>4. pc \in [Processes -> {"idle"}] /\ phase \in [Processes -> {"plan"}]
      /\ verdict \in [Processes -> {"none"}]
  BY DEF Init
<1> QED
  BY <1>1, <1>2, <1>3, <1>4 DEF Init, TypeOK, Contents

\* Type correctness: the files and what the processes know of them keep their
\* types in every evaluation history.
THEOREM TypeCorrect == Spec => []TypeOK
<1> QED
  BY InitType, TypeStep, PTL DEF Spec

------------------------------------------------------------------------------
(* Concurrent runs.                                                         *)

\* Who holds the lock is at work, and so is who has no verdict yet.
HeldInv ==
  \A p \in Processes :
    /\ held[p] # 0 => pc[p] \in Locked \cup {"release"}
    /\ pc[p] # "idle" => verdict[p] = "none"

\* p has seen the lock held when it planned: it is about to skip.
Resigned(p) == pc[p] = "decide" /\ status[p] = "RUNNING" /\ phase[p] = "plan"

TakerInv ==
  \E p \in Runs : misled[p] \/ (verdict[p] # "skipped" /\ ~Resigned(p))

LEMMA HeldStep == TypeOK /\ HeldInv /\ [Next]_vars => HeldInv'
<1> SUFFICES ASSUME TypeOK, HeldInv, [Next]_vars PROVE HeldInv'
  OBVIOUS
<1> USE DEF GoTo, GoOn, disk, known, local, HeldInv, Locked
<1>1. CASE UNCHANGED vars
  BY <1>1 DEF vars
<1>2. ASSUME NEW p \in Processes, Begin(p) PROVE HeldInv'
  BY <1>2 DEF Begin, TypeOK
<1>3. ASSUME NEW p \in Processes, SampleFiles(p) \/ ReleaseProbe(p) \/ ReadStatus(p)
      PROVE HeldInv'
  BY <1>3 DEF SampleFiles, ReleaseProbe, ReadStatus, TypeOK
<1>4. ASSUME NEW p \in Processes, ProbeLock(p) PROVE HeldInv'
  BY <1>4 DEF ProbeLock, TypeOK
<1>5. ASSUME NEW p \in Processes, Plan(p) PROVE HeldInv'
  BY <1>5 DEF Plan, End, TypeOK
<1>6. ASSUME NEW p \in Processes,
             AnswerQuery(p) \/ LoadReused(p) \/ TryReuse(p) \/ Finish(p) \/ Crash(p)
      PROVE HeldInv'
  BY <1>6 DEF AnswerQuery, LoadReused, TryReuse, Finish, Crash, End, TypeOK
<1>7. ASSUME NEW p \in Processes, AcquireLock(p) PROVE HeldInv'
  <2>1. CASE End(p, "skipped")
    BY <2>1 DEF End, TypeOK
  <2>2. CASE /\ \E l \in {"refresh", "reuse"} : pc' = [pc EXCEPT ![p] = l]
             /\ held' = [held EXCEPT ![p] = lockFile'] /\ UNCHANGED verdict
    BY <1>7, <2>2 DEF AcquireLock, TypeOK
  <2> QED
    BY <1>7, <2>1, <2>2 DEF AcquireLock
<1>8. ASSUME NEW p \in Processes, MakeDir(p) \/ Refresh(p) \/ Cleanup(p) \/ WriteConfig(p)
                              \/ OpenResults(p) \/ WriteResults(p)
      PROVE HeldInv'
  <2>1. UNCHANGED <<held, verdict>> /\ pc[p] \in Locked \cup {"mkdir"}
    BY <1>8 DEF MakeDir, Refresh, Cleanup, WriteConfig, OpenResults, WriteResults
  <2>2. \E l \in Locked \cup {"files"} :
          pc' = [pc EXCEPT ![p] = l] /\ (pc[p] # "mkdir" => l \in Locked)
    BY <1>8 DEF MakeDir, Refresh, Cleanup, WriteConfig, OpenResults, WriteResults
  <2> QED
    BY <2>1, <2>2 DEF TypeOK
<1>9. ASSUME NEW p \in Processes, RemoveDir(p) \/ TaskRaises(p) PROVE HeldInv'
  <2>1. CASE RaiseOrRetry(p, TRUE) /\ pc[p] \in Attempting
    <3>1. CASE End(p, "failed")
      BY <3>1 DEF End, TypeOK
    <3>2. CASE GoTo(p, "mkdir") /\ held' = [held EXCEPT ![p] = 0] /\ UNCHANGED verdict
      BY <2>1, <3>2 DEF TypeOK, Attempting
    <3> QED
      BY <2>1, <3>1, <3>2 DEF RaiseOrRetry, MayRetry
  <2>2. CASE pc[p] = "rmdir" /\ GoTo(p, "config") /\ UNCHANGED <<held, verdict>>
    BY <2>2 DEF TypeOK
  <2> QED
    BY <1>9, <2>1, <2>2, RaiseCases
<1> QED
  BY <1>1, <1>2, <1>3, <1>4, <1>5, <1>6, <1>7, <1>8, <1>9 DEF Next, Work

\* A step of p leaves the other processes where they are.
LEMMA OtherUnchanged ==
  ASSUME TypeOK, NEW p \in Processes, Begin(p) \/ Work(p) \/ TaskRaises(p) \/ Crash(p),
         NEW q \in Processes, q # p
  PROVE  /\ pc'[q] = pc[q] /\ phase'[q] = phase[q] /\ status'[q] = status[q]
         /\ verdict'[q] = verdict[q] /\ held'[q] = held[q] /\ misled'[q] = misled[q]
<1> USE DEF GoTo, GoOn, disk, known, local
<1>1. CASE Begin(p) \/ Crash(p)
  BY <1>1 DEF Begin, Crash, End, TypeOK
<1>2. CASE SampleFiles(p) \/ ProbeLock(p) \/ ReleaseProbe(p) \/ ReadStatus(p)
  BY <1>2 DEF SampleFiles, ProbeLock, Meets, ReleaseProbe, ReadStatus, TypeOK
<1>3. CASE Plan(p) \/ AnswerQuery(p) \/ LoadReused(p) \/ MakeDir(p)
  BY <1>3 DEF Plan, AnswerQuery, LoadReused, MakeDir, End, TypeOK
<1>4. CASE AcquireLock(p) \/ Refresh(p) \/ TryReuse(p)
  BY <1>4 DEF AcquireLock, Meets, Refresh, TryReuse, End, TypeOK
<1>5. CASE Cleanup(p) \/ WriteConfig(p) \/ OpenResults(p) \/ WriteResults(p) \/ Finish(p)
  BY <1>5 DEF Cleanup, WriteConfig, OpenResults, WriteResults, Finish, End, TypeOK
<1>6. CASE RemoveDir(p) \/ TaskRaises(p)
  <2>1. CASE RaiseOrRetry(p, TRUE)
    BY <2>1 DEF RaiseOrRetry, MayRetry, End, TypeOK
  <2>2. CASE GoTo(p, "config") /\ UNCHANGED <<local, phase, held, verdict>>
    BY <2>2 DEF TypeOK
  <2> QED
    BY <1>6, <2>1, <2>2, RaiseCases
<1> QED
  BY <1>1, <1>2, <1>3, <1>4, <1>5, <1>6 DEF Work

\* A process finds the lock busy only if another one holds it: an evaluation
\* that is at work and has not resigned, or a sampler, which misleads it.  No
\* other step can make an evaluation resign or skip.
LEMMA TakerStep ==
  ASSUME TypeOK, HeldInv, TakerInv, [Next]_vars
  PROVE  TakerInv'
<1> USE DEF GoTo, GoOn, disk, known, local, Resigned
<1>1. PICK t \in Runs : misled[t] \/ (verdict[t] # "skipped" /\ ~Resigned(t))
  BY DEF TakerInv
<1>2. SUFFICES ASSUME NEW p \in Processes, Begin(p) \/ Work(p) \/ TaskRaises(p) \/ Crash(p)
               PROVE  TakerInv'
  BY <1>1 DEF Next, vars, TakerInv
<1>3. ASSUME NEW q \in Runs, q # p, pc[q] # "decide", pc[q] # "idle" PROVE TakerInv'
  <2>1. q \in Processes
    BY DEF Processes
  <2>2. verdict[q] = "none"
    BY <1>3, <2>1 DEF HeldInv
  <2>3. pc'[q] = pc[q] /\ verdict'[q] = verdict[q]
    BY <1>2, <1>3, <2>1, OtherUnchanged
  <2> QED
    BY <1>3, <2>2, <2>3 DEF TakerInv
<1>4. CASE p # t
  <2>1. /\ pc'[t] = pc[t] /\ status'[t] = status[t] /\ phase'[t] = phase[t]
        /\ verdict'[t] = verdict[t] /\ misled'[t] = misled[t]
    BY <1>2, <1>4, OtherUnchanged DEF Processes
  <2> QED
    BY <1>1, <2>1 DEF TakerInv
<1>5. CASE p = t /\ Busy /\ Meets(p) /\ pc[p] \in {"probe", "decide"}
  <2>1. PICK q \in Processes : HeldBy(q)
    BY <1>5 DEF Busy
  <2>2. held[q] # 0 /\ pc[q] \notin {"decide", "idle", "probe"}
    BY <2>1 DEF HeldBy, HeldInv, Locked
  <2>3. CASE q \in Runs
    BY <1>3, <1>5, <2>2, <2>3
  <2>4. CASE q \in Samplers
    <3>1. misled' = [misled EXCEPT ![p] = TRUE]
      BY <1>5, <2>1, <2>4, Zenon DEF Meets
    <3> QED
      BY <1>5, <3>1 DEF TakerInv, TypeOK
  <2> QED
    BY <2>3, <2>4 DEF Processes
<1>6. CASE p = t /\ misled[t] /\ UNCHANGED misled
  BY <1>6 DEF TakerInv
<1>7. CASE p = t /\ Begin(p)
  <2>1. verdict'[p] = "none" /\ pc'[p] = "files"
    BY <1>7 DEF Begin, TypeOK
  <2> QED
    BY <1>7, <2>1 DEF TakerInv
<1>8. CASE p = t /\ UNCHANGED misled /\ verdict[t] # "skipped" /\ ~Resigned(t) /\ ~Begin(p)
           /\ ~(pc[p] \in {"probe", "decide"} /\ Busy /\ Meets(p))
  <2>1. verdict'[p] # "skipped" /\ ~Resigned(p)'
    <3>2. CASE SampleFiles(p) \/ ReleaseProbe(p) \/ MakeDir(p) \/ Refresh(p)
               \/ Cleanup(p) \/ WriteConfig(p) \/ OpenResults(p) \/ WriteResults(p)
      BY <1>8, <3>2 DEF SampleFiles, ReleaseProbe, MakeDir, Refresh, Cleanup,
         WriteConfig, OpenResults, WriteResults, TypeOK
    <3>3. CASE ProbeLock(p)
      BY <1>8, <3>3 DEF ProbeLock, TypeOK
    <3>4. CASE ReadStatus(p)
      BY <1>8, <3>4 DEF ReadStatus, ExecutionStatus, TypeOK
    <3>5. CASE Plan(p)
      <4>1. CASE GoOn(p, "load") \/ GoOn(p, "mkdir")
        BY <1>8, <4>1 DEF TypeOK
      <4> QED
        BY <1>8, <3>5, <4>1 DEF Plan, TypeOK
    <3>6. CASE AnswerQuery(p) \/ LoadReused(p) \/ TryReuse(p) \/ Finish(p) \/ Crash(p)
      BY <1>8, <3>6 DEF AnswerQuery, LoadReused, TryReuse, Finish, Crash, End, TypeOK
    <3>7. CASE AcquireLock(p)
      BY <1>8, <3>7 DEF AcquireLock, TypeOK
    <3>8. CASE RemoveDir(p) \/ TaskRaises(p)
      <4>1. CASE RaiseOrRetry(p, TRUE)
        BY <1>8, <4>1 DEF RaiseOrRetry, MayRetry, End, TypeOK
      <4>2. CASE GoTo(p, "config") /\ UNCHANGED verdict
        BY <1>8, <4>2 DEF TypeOK
      <4> QED
        BY <3>8, <4>1, <4>2, RaiseCases
    <3> QED
      BY <1>2, <1>8, <3>2, <3>3, <3>4, <3>5, <3>6, <3>7, <3>8 DEF Work
  <2> QED
    BY <1>8, <2>1 DEF TakerInv
<1>9. Begin(p) \/ UNCHANGED misled \/ (pc[p] \in {"probe", "decide"} /\ Busy /\ Meets(p))
  BY <1>2 DEF Work, TaskRaises, Crash, SampleFiles, ProbeLock, ReleaseProbe, ReadStatus,
     Plan, AnswerQuery, LoadReused, MakeDir, AcquireLock, Refresh, TryReuse, Cleanup,
     RemoveDir, WriteConfig, OpenResults, WriteResults, Finish, RaiseOrRetry
<1> QED
  BY <1>1, <1>4, <1>5, <1>6, <1>7, <1>8, <1>9

\* Evaluations, whatever their number and that of the samplers, all skip the
\* session only if a status query's lock turned one of them away.
THEOREM SomeoneAlwaysTakesIt ==
  ASSUME NEW r \in Runs PROVE Spec => []SomeoneTakesIt
<1>1. Init => TypeOK /\ HeldInv /\ TakerInv
  <2>1. Init => HeldInv /\ TakerInv
    BY DEF Init, HeldInv, TakerInv, Resigned, Processes
  <2> QED
    BY <2>1, InitType
<1>2. TypeOK /\ HeldInv /\ TakerInv /\ [Next]_vars => (TypeOK /\ HeldInv /\ TakerInv)'
  BY TypeStep, HeldStep, TakerStep
<1>3. TakerInv => SomeoneTakesIt
  BY DEF TakerInv, SomeoneTakesIt
<1> QED
  BY <1>1, <1>2, <1>3, PTL DEF Spec

\* Where nobody asks for the status while it runs, evaluations never all skip
\* the session on each other's account.
THEOREM EvaluationsAloneNeverAllSkip ==
  ASSUME Samplers = {}, NEW r \in Runs PROVE Spec => []NeverAllSkip
<1> DEFINE NotMisled == \A p \in Runs : misled[p] = FALSE
<1>1. Init => NotMisled
  BY DEF Init, Processes
<1>2. TypeOK /\ NotMisled /\ [Next]_vars => NotMisled'
  <2> SUFFICES ASSUME TypeOK, NotMisled, [Next]_vars PROVE NotMisled'
    OBVIOUS
  <2> USE DEF disk, known, local
  <2>1. ASSUME NEW p \in Processes, NEW b \in BOOLEAN, Begin(p) \/ Meets(p)
        PROVE  NotMisled'
    <3>1. misled' = [misled EXCEPT ![p] = FALSE]
      <4>1. CASE Begin(p)
        BY <4>1 DEF Begin
      <4>2. CASE Meets(p)
        BY <4>2, Zenon DEF Meets
      <4> QED
        BY <2>1, <4>1, <4>2
    <3> QED
      BY <3>1 DEF TypeOK
  <2>2. CASE UNCHANGED misled
    BY <2>2
  <2>3. ASSUME NEW p \in Processes, Begin(p) \/ Work(p) \/ TaskRaises(p) \/ Crash(p)
        PROVE  Begin(p) \/ Meets(p) \/ UNCHANGED misled
    BY <2>3 DEF Work, TaskRaises, Crash, SampleFiles, ProbeLock, ReleaseProbe, ReadStatus,
       Plan, AnswerQuery, LoadReused, MakeDir, AcquireLock, Refresh, TryReuse, Cleanup,
       RemoveDir, WriteConfig, OpenResults, WriteResults, Finish, RaiseOrRetry
  <2> QED
    BY <2>1, <2>2, <2>3 DEF Next, vars
<1>3. NotMisled /\ SomeoneTakesIt => NeverAllSkip
  BY DEF SomeoneTakesIt, NeverAllSkip
<1>4. Spec => []SomeoneTakesIt
  BY SomeoneAlwaysTakesIt
<1>5. Spec => []TypeOK
  BY TypeCorrect
<1> QED
  BY <1>1, <1>2, <1>3, <1>4, <1>5, PTL DEF Spec

------------------------------------------------------------------------------
(* Evaluations that do not overlap.                                         *)

\* At most one process is alive.
Alone == \A p, q \in Processes : pc[p] # "idle" /\ pc[q] # "idle" => p = q

\* The sampled status still describes the results file.
Accurate(p) ==
  /\ status[p] # "RUNNING"
  /\ status[p] = "COMPLETED" => results \in {"partial", "success", "limit"}
  /\ status[p] # "COMPLETED" => results \in {"absent", "error"}

\* What a process knows where it is.
KnowsAt(p) ==
  /\ pc[p] \in {"probe", "release", "read"} => (seenResults[p] <=> results # "absent")
  /\ pc[p] \in {"decide", "load", "reuse", "cleanup"} => Accurate(p)
  /\ pc[p] # "refresh"
  /\ pc[p] \in {"cleanup", "rmdir", "config", "running"} /\ ~Overwrite
       => results \notin Complete
  /\ pc[p] = "writing" => results = "partial"

AloneInv == Alone /\ \A p \in Processes : KnowsAt(p)

\* A process that is alone finds the lock free.
LEMMA NotBusy ==
  ASSUME HeldInv, AloneInv, NEW p \in Processes, pc[p] \in {"probe", "decide"}
  PROVE  ~Busy
<1>1. \A q \in Processes : held[q] # 0 => q = p
  BY DEF HeldInv, AloneInv, Alone, Locked
<1>2. held[p] = 0
  BY DEF HeldInv, Locked
<1> QED
  BY <1>1, <1>2 DEF Busy, HeldBy

LEMMA AloneStep ==
  ASSUME ~overlap, TypeOK, HeldInv, AloneInv, [Next]_vars
  PROVE  AloneInv' /\ (~Overwrite /\ results \in Complete => results' = results)
<1> DEFINE Goal == AloneInv' /\ (~Overwrite /\ results \in Complete => results' = results)
<1> USE DEF GoTo, GoOn, disk, known, local, KnowsAt
<1>1. CASE UNCHANGED vars
  BY <1>1 DEF vars, AloneInv, Alone, Accurate
<1>2. ASSUME NEW p \in Processes, Begin(p) PROVE Goal
  <2>1. \A q \in Processes : q # p => pc'[q] = "idle"
    BY <1>2 DEF Begin, TypeOK
  <2>2. pc'[p] = "files" /\ results' = results
    BY <1>2 DEF Begin, TypeOK
  <2> QED
    BY <2>1, <2>2 DEF AloneInv, Alone
<1>3. ASSUME NEW p \in Processes, pc[p] # "idle", Work(p) \/ TaskRaises(p) \/ Crash(p),
             KnowsAt(p)', ~Overwrite /\ results \in Complete => results' = results
      PROVE  Goal
  <2>1. \A q \in Processes : q # p => pc[q] = "idle" /\ pc'[q] = "idle"
    BY <1>3, OtherUnchanged DEF AloneInv, Alone
  <2> QED
    BY <1>3, <2>1 DEF AloneInv, Alone
<1>4. ASSUME NEW p \in Processes, Work(p) \/ TaskRaises(p) \/ Crash(p)
      PROVE  /\ pc[p] # "idle"
             /\ KnowsAt(p)'
             /\ ~Overwrite /\ results \in Complete => results' = results
  <2>1. CASE SampleFiles(p)
    BY <2>1 DEF SampleFiles, TypeOK
  <2>2. CASE ProbeLock(p)
    BY <2>2, NotBusy DEF ProbeLock, TypeOK, AloneInv
  <2>3. CASE ReleaseProbe(p)
    BY <2>3 DEF ReleaseProbe, TypeOK, AloneInv
  <2>4. CASE ReadStatus(p)
    BY <2>4 DEF ReadStatus, ExecutionStatus, Accurate, TypeOK, Contents, AloneInv
  <2>5. CASE Plan(p)
    BY <2>5 DEF Plan, End, TypeOK, Accurate, AloneInv
  <2>6. CASE AnswerQuery(p) \/ LoadReused(p) \/ MakeDir(p) \/ Finish(p) \/ Crash(p)
    BY <2>6 DEF AnswerQuery, LoadReused, MakeDir, Finish, Crash, End, TypeOK
  <2>7. CASE AcquireLock(p)
    <3>1. ~Busy /\ status[p] # "RUNNING"
      BY <2>7, NotBusy DEF AcquireLock, AloneInv, Accurate
    <3>2. /\ pc' = [pc EXCEPT ![p] = "reuse"] /\ UNCHANGED <<results, local>>
          /\ pc[p] = "decide"
      BY <2>7, <3>1 DEF AcquireLock
    <3> QED
      BY <3>2 DEF TypeOK, AloneInv, Accurate
  <2>8. CASE TryReuse(p)
    BY <2>8 DEF TryReuse, End, TypeOK, Accurate, AloneInv, Readable, Complete
  <2>9. CASE Cleanup(p)
    BY <2>9 DEF Cleanup, TypeOK, AloneInv, Complete
  <2>10. CASE WriteConfig(p)
    BY <2>10 DEF WriteConfig, TypeOK, AloneInv
  <2>11. CASE OpenResults(p)
    BY <2>11 DEF OpenResults, TypeOK, AloneInv
  <2>12. CASE WriteResults(p)
    BY <2>12 DEF WriteResults, TypeOK, AloneInv, Complete
  <2>13. CASE RemoveDir(p) \/ TaskRaises(p)
    <3>1. CASE UNCHANGED disk /\ RaiseOrRetry(p, TRUE) /\ pc[p] \in Attempting
      BY <3>1 DEF RaiseOrRetry, MayRetry, End, TypeOK, Attempting, Locked
    <3>2. CASE /\ pc[p] = "rmdir" /\ GoTo(p, "config")
               /\ UNCHANGED <<results, local, held, verdict>>
      BY <3>2 DEF TypeOK, AloneInv
    <3> QED
      BY <2>13, <3>1, <3>2, RaiseCases
  <2>14. CASE Refresh(p)
    BY <2>14 DEF Refresh, AloneInv
  <2> QED
    BY <1>4, <2>1, <2>2, <2>3, <2>4, <2>5, <2>6, <2>7, <2>8, <2>9, <2>10, <2>11,
       <2>12, <2>13, <2>14 DEF Work
<1>5. ASSUME NEW p \in Processes, Work(p) \/ TaskRaises(p) \/ Crash(p) PROVE Goal
  BY <1>3, <1>4, <1>5
<1> QED
  BY <1>1, <1>2, <1>5 DEF Next

InTurn == TypeOK /\ HeldInv /\ (~overlap => AloneInv)

LEMMA OverlapStays == ASSUME [Next]_vars PROVE overlap' = overlap
BY DEF Next, vars

LEMMA InTurnStep == ASSUME InTurn, [Next]_vars PROVE InTurn'
<1>1. TypeOK' /\ HeldInv'
  BY TypeStep, HeldStep DEF InTurn
<1>2. ASSUME ~overlap PROVE AloneInv'
  BY <1>2, AloneStep DEF InTurn
<1> QED
  BY <1>1, <1>2, OverlapStays DEF InTurn

LEMMA AllInvariant == Spec => []InTurn
<1>1. Init => InTurn
  BY InitType DEF InTurn, Init, HeldInv, AloneInv, Alone, KnowsAt
<1>2. InTurn /\ [Next]_vars => InTurn'
  BY InTurnStep
<1> QED
  BY <1>1, <1>2, PTL DEF Spec

\* However many evaluations follow each other, and wherever they fail, are
\* retried or crash, the results of a completed session survive.
THEOREM SequentialRunsKeepResults == Spec => CompletedSurvives
<1>1. InTurn /\ [Next]_vars
        => [(~overlap /\ ~Overwrite /\ results \in Complete) => results' = results]_vars
  BY AloneStep DEF InTurn
<1>2. Spec => []InTurn
  BY AllInvariant
<1> QED
  BY <1>1, <1>2, PTL DEF Spec, CompletedSurvives

------------------------------------------------------------------------------
(* Refinement of SessionRecord.                                             *)

\* What the files say of the outcome when nobody wrote anything.
LEMMA RecordStutters ==
  ASSUME UNCHANGED <<results, overlap>> PROVE UNCHANGED recordOf
BY DEF recordOf

LEMMA RecordIs ==
  ASSUME ~overlap, results \in Contents
  PROVE  /\ results \in {"absent", "partial"} => recordOf = "none"
         /\ results = "error" => recordOf = "failed"
         /\ results \in Complete => recordOf = "complete"
BY DEF recordOf, Contents, Complete

LEMMA RecordIsNext ==
  ASSUME ~overlap', results' \in Contents
  PROVE  /\ results' \in {"absent", "partial"} => recordOf' = "none"
         /\ results' = "error" => recordOf' = "failed"
         /\ results' \in Complete => recordOf' = "complete"
BY DEF recordOf, Contents, Complete

LEMMA UnderWayValues ==
  ASSUME ~overlap, ~overlap'
  PROVE
  /\ (\A q \in Processes : pc[q] \notin Attempting) => underWay = FALSE
  /\ (\A q \in Processes : pc'[q] \notin Attempting) => underWay' = FALSE
  /\ (\E q \in Processes : pc[q] \in Attempting) => underWay = TRUE
  /\ (\E q \in Processes : pc'[q] \in Attempting) => underWay' = TRUE
<1>1. (\A q \in Processes : pc[q] \notin Attempting) => underWay = FALSE
  BY Zenon DEF underWay
<1>2. (\A q \in Processes : pc'[q] \notin Attempting) => underWay' = FALSE
  BY Zenon DEF underWay
<1>3. (\E q \in Processes : pc[q] \in Attempting) => underWay = TRUE
  BY Zenon DEF underWay
<1>4. (\E q \in Processes : pc'[q] \in Attempting) => underWay' = TRUE
  BY Zenon DEF underWay
<1> QED
  BY <1>1, <1>2, <1>3, <1>4

\* A process that is alone decides whether an attempt is under way.
LEMMA UnderWayIs ==
  ASSUME ~overlap, ~overlap', TypeOK, AloneInv, NEW p \in Processes, pc[p] # "idle",
         Work(p) \/ TaskRaises(p) \/ Crash(p)
  PROVE  /\ pc[p] \in Attempting => underWay = TRUE
         /\ pc[p] \notin Attempting => underWay = FALSE
         /\ pc'[p] \in Attempting => underWay' = TRUE
         /\ pc'[p] \notin Attempting => underWay' = FALSE
<1>1. \A q \in Processes : q # p => pc[q] = "idle" /\ pc'[q] = "idle"
  BY OtherUnchanged DEF AloneInv, Alone
<1>2. "idle" \notin Attempting
  BY DEF Attempting, Locked
<1> QED
  BY <1>1, <1>2, UnderWayValues

LEMMA RecordStep ==
  ASSUME ~overlap, ~Overwrite, TypeOK, TypeOK', HeldInv, AloneInv, AloneInv', [Next]_vars
  PROVE  [Record!Next]_<<recordOf, underWay>>
<1> DEFINE Goal == [Record!Next]_<<recordOf, underWay>>
<1> USE DEF GoTo, GoOn, disk, known, local
<1>0. ~overlap' /\ UNCHANGED overlap
  BY OverlapStays
<1>1. CASE UNCHANGED vars
  BY <1>1 DEF vars, recordOf, underWay
<1>2. ASSUME NEW p \in Processes, Begin(p) PROVE Goal
  <2>1. \A q \in Processes : pc[q] \notin Attempting /\ pc'[q] \notin Attempting
    BY <1>2 DEF Begin, TypeOK, Attempting, Locked
  <2>2. underWay = FALSE /\ underWay' = FALSE
    BY ONLY <2>1, <1>0, UnderWayValues
  <2>3. UNCHANGED recordOf
    BY <1>0, <1>2, RecordStutters DEF Begin
  <2> QED
    BY ONLY <2>2, <2>3
<1>3. ASSUME NEW p \in Processes, Work(p) \/ TaskRaises(p) \/ Crash(p) PROVE Goal
  <2>1. pc[p] # "idle"
    BY <1>3 DEF Work, TaskRaises, Crash, SampleFiles, ProbeLock, ReleaseProbe, ReadStatus,
       Plan, AnswerQuery, LoadReused, MakeDir, AcquireLock, Refresh, TryReuse, Cleanup,
       RemoveDir, WriteConfig, OpenResults, WriteResults, Finish
  <2>2. /\ pc[p] \in Attempting => underWay = TRUE
        /\ pc[p] \notin Attempting => underWay = FALSE
        /\ pc'[p] \in Attempting => underWay' = TRUE
        /\ pc'[p] \notin Attempting => underWay' = FALSE
    BY <1>0, <1>3, <2>1, UnderWayIs
  <2>3. results \in Contents /\ results' \in Contents
    BY DEF TypeOK
  <2>4. CASE UNCHANGED results
    <3>1. UNCHANGED recordOf
      BY <1>0, <2>4, RecordStutters
    <3>2. CASE pc[p] \notin Attempting /\ pc'[p] \notin Attempting
      <4>1. underWay = FALSE /\ underWay' = FALSE
        BY ONLY <2>2, <3>2
      <4> QED
        BY ONLY <3>1, <4>1
    <3>3. CASE pc[p] \in Attempting /\ pc'[p] \in Attempting
      <4>1. underWay = TRUE /\ underWay' = TRUE
        BY ONLY <2>2, <3>3
      <4> QED
        BY ONLY <3>1, <4>1
    <3>4. CASE pc[p] \in Attempting /\ pc'[p] \notin Attempting
      <4>1. underWay = TRUE /\ underWay' = FALSE
        BY ONLY <2>2, <3>4
      <4> QED
        BY ONLY <3>1, <4>1 DEF Record!Next, Record!Leave
    <3>5. CASE pc[p] \notin Attempting /\ pc'[p] \in Attempting
      <4>1. pc'[p] \in {"cleanup", "rmdir", "config", "running"}
        BY <1>3, <3>5 DEF Attempting, Locked, Work, TaskRaises, Crash, End, RaiseOrRetry, MayRetry,
           SampleFiles, ProbeLock, ReleaseProbe, ReadStatus, Plan, AnswerQuery, LoadReused,
           MakeDir, AcquireLock, Refresh, TryReuse, Cleanup, RemoveDir, WriteConfig,
           OpenResults, WriteResults, Finish, TypeOK
      <4>2. results \notin Complete
        BY <4>1, <2>4 DEF AloneInv, KnowsAt
      <4>3. recordOf # "complete"
        BY <4>2, <2>3, RecordIs DEF Contents, Complete
      <4>4. underWay = FALSE /\ underWay' = TRUE
        BY ONLY <2>2, <3>5
      <4> QED
        BY ONLY <3>1, <4>3, <4>4 DEF Record!Next, Record!Attempt
    <3> QED
      BY <3>2, <3>3, <3>4, <3>5
  <2>5. CASE results' # results
    <3>1. Cleanup(p) \/ OpenResults(p) \/ WriteResults(p)
      BY <1>3, <2>5 DEF Work, TaskRaises, Crash, SampleFiles, ProbeLock, ReleaseProbe,
         ReadStatus, Plan, AnswerQuery, LoadReused, MakeDir, AcquireLock, Refresh, TryReuse,
         RemoveDir, WriteConfig, Finish
    <3>2. pc[p] \in Attempting /\ pc'[p] \in Attempting
      BY <3>1 DEF Cleanup, OpenResults, WriteResults, Attempting, Locked, TypeOK
    <3>3. underWay = TRUE /\ underWay' = TRUE
      BY ONLY <2>2, <3>2
    <3>4. results \notin Complete
      BY <3>1 DEF Cleanup, OpenResults, WriteResults, AloneInv, KnowsAt, Complete
    <3>5. recordOf # "complete" /\ recordOf \in {"none", "failed"}
      BY <2>3, <3>4, RecordIs DEF Contents, Complete
    <3>6. CASE Cleanup(p) \/ OpenResults(p)
      <4>1. recordOf' = "none"
        BY <1>0, <2>3, <2>5, <3>6, RecordIsNext DEF Cleanup, OpenResults
      <4> QED
        BY ONLY <3>3, <3>5, <4>1 DEF Record!Next, Record!Forget
    <3>7. CASE WriteResults(p)
      <4>1. results' \in Readable \cup {"partial"} /\ results = "partial"
        BY <3>7, <2>5 DEF WriteResults, AloneInv, KnowsAt
      <4>2. recordOf' \in {"failed", "complete"}
        BY <1>0, <2>3, <2>5, <4>1, RecordIsNext DEF Readable, Complete
      <4> QED
        BY ONLY <3>3, <3>5, <4>2 DEF Record!Next, Record!Conclude
    <3> QED
      BY <3>1, <3>6, <3>7
  <2> QED
    BY <2>4, <2>5
<1> QED
  BY <1>1, <1>2, <1>3 DEF Next

\* Evaluations that follow each other implement attempts that come one at a
\* time and whose complete record is final.
THEOREM SequentialRunsImplementRecord ==
  ASSUME ~Overwrite PROVE Spec => RecordSpec
<1>1. Init => Record!Init
  <2> SUFFICES ASSUME Init PROVE Record!Init
    OBVIOUS
  <2>1. recordOf = "none"
    BY DEF Init, recordOf, Contents, Complete
  <2>2. underWay = FALSE
    <3>1. \A p \in Processes : pc[p] \notin Attempting
      BY DEF Init, Attempting, Locked
    <3> QED
      BY ONLY <3>1, Zenon DEF underWay
  <2> QED
    BY <2>1, <2>2 DEF Record!Init
<1>2. ASSUME InTurn, InTurn', [Next]_vars PROVE [Record!Next]_<<recordOf, underWay>>
  <2>1. overlap' = overlap
    BY <1>2, OverlapStays
  <2>2. CASE ~overlap
    BY <1>2, <2>1, <2>2, RecordStep DEF InTurn
  <2>3. CASE overlap
    <3>1. recordOf = "none" /\ recordOf' = "none"
      BY <2>1, <2>3 DEF recordOf
    <3>2. underWay = FALSE /\ underWay' = FALSE
      BY <2>1, <2>3 DEF underWay
    <3> QED
      BY ONLY <3>1, <3>2
  <2> QED
    BY <2>2, <2>3
<1>3. InTurn /\ InTurn' /\ [Next]_vars => [Record!Next]_<<recordOf, underWay>>
  BY <1>2
<1>4. Spec => []InTurn
  BY AllInvariant
<1> QED
  BY <1>1, <1>3, <1>4, PTL DEF Spec, RecordSpec, Record!Spec
=============================================================================
