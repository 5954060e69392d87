--------------------- MODULE LearningExperimentProofs ---------------------
(***************************************************************************)
(* Proofs about LearningExperiment, for any task order, blocks, launches,  *)
(* interrupts and retries: type correctness, that an experiment that ends  *)
(* has skipped nothing that was not done, and, if nobody interrupted it    *)
(* and nothing was retried, that one launch reports and learns exactly its *)
(* tasks and that a second one leaves none without a line.                 *)
(***************************************************************************)
EXTENDS LearningExperiment, TLAPS, FiniteSetTheorems

Entry == [label : Tasks, of : Tasks]
Store == [count : Nat, learned : Seq(Tasks)]
Outcome == {"none", "complete", "failed"}

Evaluating == pc \in {"task", "run", "recorded"}
Reporting  == pc \in {"save", "write", "metrics"}
Running    == Up \/ pc = "ended"

Complete(g) == \A t \in Group(g) : file[t] = "complete"
Done(g)     == \A t \in Group(g) : file[t] # "none" \/ t \in leftOut
Full(g)     == LinesOf(g, metrics) >= Cardinality(Group(g))
Saved       == \E s \in Stores : ckpt[s].count > 0

------------------------------------------------------------------------------
(* Groups and counts.                                                       *)

LEMMA GroupFacts ==
  ASSUME mode \in Modes
  PROVE  /\ NumTasks \in Tasks
         /\ NumGroups \in 1..NumTasks
         /\ \A t \in Tasks : GroupOf(t) \in 1..NumGroups /\ t \in Group(GroupOf(t))
         /\ \A g : \A t \in Group(g) : t \in Tasks /\ GroupOf(t) = g
<1>1. NumTasks \in Nat /\ 1 <= NumTasks
  BY TasksAssumption
<1>2. \A t \in Tasks : Block[t] \in 1..NumTasks /\ Block[t] <= Block[NumTasks]
  BY <1>1, BlockAssumption DEF Tasks
<1> QED
  BY <1>1, <1>2 DEF GroupOf, NumGroups, Group, Tasks

LEMMA StoreFacts ==
  ASSUME mode \in Modes, NEW g \in 1..NumGroups
  PROVE  StoreOf(g) \in Stores
BY GroupFacts, TasksAssumption DEF StoreOf, Stores

\* The mode does not change, and with it the groups.
LEMMA Frame ==
  ASSUME mode' = mode
  PROVE  /\ NumGroups' = NumGroups
         /\ Interleaved' = Interleaved
         /\ \A g : Group(g)' = Group(g) /\ StoreOf(g)' = StoreOf(g)
BY DEF NumGroups, Interleaved, Group, GroupOf, StoreOf

LEMMA MaxOf ==
  ASSUME NEW S, NEW x \in S, S \subseteq Nat, \A y \in S : y <= x
  PROVE  Max(S) = x
<1>1. \A y \in S : x >= y
  OBVIOUS
<1>2. \A z \in S : (\A y \in S : z >= y) => z = x
  OBVIOUS
<1> QED
  BY <1>1, <1>2 DEF Max

Counted(c) == \E s \in Stores : \A r \in Stores : c[r].count <= c[s].count

\* The restored count is that of one of the stores, and no other is larger.
LEMMA RestoredFacts ==
  ASSUME ckpt \in [Stores -> Store], Counted(ckpt)
  PROVE  /\ Restored \in Nat
         /\ \E s \in Stores : Restored = ckpt[s].count
         /\ \A s \in Stores : ckpt[s].count <= Restored
         /\ Restored > 0 <=> Saved
<1> PICK s \in Stores : \A r \in Stores : ckpt[r].count <= ckpt[s].count
  BY DEF Counted
<1> DEFINE S == {ckpt[r].count : r \in Stores}
<1>1. \A r \in Stores : ckpt[r].count \in Nat
  BY DEF Store
<1>2. S \subseteq Nat /\ ckpt[s].count \in S /\ \A y \in S : y <= ckpt[s].count
  BY <1>1
<1>3. Max(S) = ckpt[s].count
  BY ONLY <1>2, MaxOf
<1>4. Restored = ckpt[s].count
  BY <1>3 DEF Restored
<1> HIDE DEF S
<1> QED
  BY <1>1, <1>4 DEF Saved

------------------------------------------------------------------------------
(* Lines of the metrics file.                                               *)

LEMMA LinesType ==
  ASSUME NEW lines \in Seq(Entry), NEW g
  PROVE  /\ IsFiniteSet({i \in DOMAIN lines : Block[lines[i].label] = g})
         /\ LinesOf(g, lines) \in Nat
<1> DEFINE D == {i \in DOMAIN lines : Block[lines[i].label] = g}
<1>1. IsFiniteSet(1..Len(lines))
  BY FS_Interval
<1>2. D \in SUBSET (1..Len(lines))
  OBVIOUS
<1>3. IsFiniteSet(D)
  BY <1>1, <1>2, FS_Subset
<1> QED
  BY <1>3, FS_CardinalityType DEF LinesOf

\* A line of another group does not count.
LEMMA LinesAppend ==
  ASSUME NEW lines \in Seq(Entry), NEW e \in Entry, NEW g, Block[e.label] # g
  PROVE  LinesOf(g, Append(lines, e)) = LinesOf(g, lines)
<1>1. /\ Len(Append(lines, e)) = Len(lines) + 1
      /\ \A i \in 1..Len(lines) : Append(lines, e)[i] = lines[i]
      /\ Append(lines, e)[Len(lines) + 1] = e
      /\ DOMAIN Append(lines, e) = 1..(Len(lines) + 1)
      /\ DOMAIN lines = 1..Len(lines) /\ Len(lines) \in Nat
  OBVIOUS
<1>2. {i \in DOMAIN Append(lines, e) : Block[Append(lines, e)[i].label] = g}
        = {i \in DOMAIN lines : Block[lines[i].label] = g}
  BY <1>1
<1> QED
  BY <1>2 DEF LinesOf

\* Fewer lines count for less.
LEMMA LinesOfPrefix ==
  ASSUME NEW lines \in Seq(Entry), NEW n \in Nat, n <= Len(lines), NEW g
  PROVE  LinesOf(g, SubSeq(lines, 1, n)) <= LinesOf(g, lines)
<1>1. /\ DOMAIN SubSeq(lines, 1, n) = 1..n
      /\ \A i \in 1..n : SubSeq(lines, 1, n)[i] = lines[i]
      /\ DOMAIN lines = 1..Len(lines) /\ Len(lines) \in Nat
  OBVIOUS
<1> DEFINE D == {i \in DOMAIN lines : Block[lines[i].label] = g}
           P == {i \in DOMAIN SubSeq(lines, 1, n) : Block[SubSeq(lines, 1, n)[i].label] = g}
<1>2. P \in SUBSET D
  BY <1>1
<1>3. IsFiniteSet(D)
  BY LinesType
<1>4. LinesOf(g, lines) = Cardinality(D) /\ LinesOf(g, SubSeq(lines, 1, n)) = Cardinality(P)
  BY DEF LinesOf
<1> HIDE DEF D, P
<1>5. Cardinality(P) <= Cardinality(D)
  BY ONLY <1>2, <1>3, FS_Subset
<1> QED
  BY <1>4, <1>5

LEMMA GroupSize ==
  ASSUME mode \in Modes, NEW g
  PROVE  /\ Cardinality(Group(g)) \in Nat
         /\ Cardinality(Group(g)) = 0 => Group(g) = {}
<1>1. IsFiniteSet(Tasks)
  BY TasksAssumption, FS_Interval DEF Tasks
<1>2. Group(g) \in SUBSET Tasks
  BY DEF Group
<1>3. IsFiniteSet(Group(g))
  BY <1>1, <1>2, FS_Subset
<1> QED
  BY <1>3, FS_CardinalityType, FS_EmptySet

------------------------------------------------------------------------------
(* The inductive invariant.                                                 *)

\* The evaluation of a group looks at tasks of that group, which is not one to
\* be skipped; a session that runs has been counted and has no result yet.
PlanInv ==
  /\ pc = "down" => at = 1
  /\ Evaluating \/ Reporting =>
       /\ at \in 1..NumGroups /\ ~Skipped(at)
       /\ \A i \in DOMAIN results : results[i] \in Group(at)
  /\ Evaluating => todo \subseteq Group(at) /\ reuse \subseteq Group(at) \ todo
  /\ pc \in {"run", "recorded"} => mem[Here].count > 0
  /\ pc = "run" => \A t \in todo : First(t, todo) => file[t] # "complete"
  /\ pc = "recorded" => \A t \in todo : First(t, todo) => file[t] # "none"
  /\ pc = "ended" => at > NumGroups

\* One of the checkpoints has the largest count; a store never counts fewer
\* sessions than its checkpoint.
StoreInv ==
  /\ Counted(ckpt)
  /\ Up => \A s \in Stores : ckpt[s].count <= mem[s].count
  /\ pc = "metrics" /\ mem[Here].count > 0 => ckpt[Here].count > 0

\* The tasks an evaluation is through with have a result, unless it broke; if
\* no agent was started they are complete.
DoneInv ==
  /\ Evaluating => \A t \in Group(at) \ todo :
       /\ file[t] # "none" \/ t \in leftOut \/ noResults
       /\ mem[Here].count = 0 => file[t] = "complete" \/ noResults
  /\ Reporting => Done(at) /\ (mem[Here].count = 0 => Complete(at))

\* What was skipped or passed is done.
SkipInv == Running => \A g \in 1..NumGroups : Skipped(g) \/ g < at => Done(g)

\* A benchmark whose lines are all there is done.  Without a checkpoint it is
\* even complete, and so is one that is to be evaluated again.
Ahead(g) == g \notin finished /\ (IF pc = "metrics" THEN g > at ELSE g >= at)
LineInv ==
  ~Interleaved =>
    /\ Saved => \A g \in 1..NumGroups : Full(g) => Done(g)
    /\ ~Saved => \A g \in 1..NumGroups : LinesOf(g, metrics) > 0 => Complete(g)
    /\ Up => \A g \in 1..NumGroups : Ahead(g) /\ Full(g) => Complete(g)

\* The sessions counted in an interleaved experiment are at most the tasks that
\* are done, and while a task is executed it is counted once.
CountedNow == pc \in {"run", "recorded", "save", "write"} \/ (pc = "task" /\ at \notin todo)
CountInv ==
  Interleaved =>
    \A s \in Stores :
      /\ \A g \in 1..NumGroups : g <= ckpt[s].count => Done(g)
      /\ Up => /\ ckpt[s].count <= skip \/ ckpt[s].count < at
               /\ mem[s].count <= skip \/ mem[s].count < at
                    \/ (mem[s].count = at /\ CountedNow)

\* A retry counts a session twice.
Exact == transients = 0 \/ ~Interleaved

IInv ==
  /\ TypeOK /\ PlanInv /\ StoreInv /\ DoneInv /\ LineInv
  /\ Exact => SkipInv /\ CountInv

LEMMA InitInv == Init => IInv
<1> SUFFICES ASSUME Init PROVE IInv
  OBVIOUS
<1> USE DEF Init, Fresh
<1>0. NumTasks \in Nat /\ 1 \in Stores
  BY TasksAssumption DEF Stores
<1>1. mode \in Modes /\ NumGroups \in 1..NumTasks /\ pc = "down" /\ at = 1
  BY GroupFacts
<1>2. TypeOK
  <2>1. /\ ckpt \in [Stores -> [count : Nat, learned : Seq(Tasks)]]
        /\ mem \in [Stores -> [count : Nat, learned : Seq(Tasks)]]
        /\ metrics \in Seq([label : Tasks, of : Tasks])
        /\ results \in Seq(Tasks)
    OBVIOUS
  <2>2. at \in 1..NumGroups + 1
    BY <1>0, <1>1
  <2>3. /\ file \in [Tasks -> {"none", "complete", "failed"}]
        /\ torn \subseteq Stores /\ finished \subseteq Tasks /\ reuse \subseteq Tasks
        /\ todo \subseteq Tasks /\ leftOut \subseteq Tasks /\ lessons \subseteq Tasks
        /\ noResults \in BOOLEAN /\ pc \in Places
    BY DEF Places
  <2>4. /\ skip \in Nat /\ line \in Nat \ {0} /\ launches \in Nat
        /\ interrupts \in Nat /\ transients \in 0..MaxTransients
    BY BoundsAssumption
  <2> QED
    BY ONLY <2>1, <2>2, <2>3, <2>4, <1>1 DEF TypeOK
<1>3. PlanInv
  BY <1>1 DEF PlanInv, Evaluating, Reporting
<1>4. StoreInv
  BY <1>0, <1>1 DEF StoreInv, Counted, Up
<1>5. DoneInv
  BY <1>1 DEF DoneInv, Evaluating, Reporting
<1>6. ~Saved
  BY <1>1 DEF Saved
<1>7. \A g : LinesOf(g, metrics) = 0
  BY FS_EmptySet DEF LinesOf
<1>8. LineInv
  BY <1>1, <1>6, <1>7 DEF LineInv, Up
<1>9. SkipInv
  BY <1>1 DEF SkipInv, Running, Up
<1>10. CountInv
  <2> SUFFICES ASSUME NEW s \in Stores
      PROVE  \A g \in 1..NumGroups : ~(g <= ckpt[s].count)
    BY <1>1 DEF CountInv, Up
  <2>1. ckpt[s].count = 0
    OBVIOUS
  <2> QED
    BY <2>1, <1>0, <1>1
<1> QED
  BY <1>2, <1>3, <1>4, <1>5, <1>8, <1>9, <1>10 DEF IInv

------------------------------------------------------------------------------
(* Every step keeps the types.                                              *)

LEMMA AppendType ==
  ASSUME NEW S, NEW q \in Seq(S), NEW e \in S
  PROVE  Append(q, e) \in Seq(S)
OBVIOUS

LEMMA PlaceNames ==
  /\ "down" \in Places /\ "group" \in Places /\ "task" \in Places /\ "run" \in Places
  /\ "recorded" \in Places /\ "save" \in Places /\ "write" \in Places
  /\ "metrics" \in Places /\ "ended" \in Places /\ "stuck" \in Places
BY DEF Places

LEMMA HereType ==
  ASSUME TypeOK, PlanInv, Evaluating \/ Reporting
  PROVE  Here \in Stores /\ at \in Tasks /\ at + 1 \in 1..NumGroups + 1
<1>1. at \in 1..NumGroups /\ mode \in Modes
  BY DEF PlanInv, TypeOK
<1>2. NumGroups \in 1..NumTasks /\ Here \in Stores
  BY <1>1, GroupFacts, StoreFacts DEF Here
<1> QED
  BY <1>1, <1>2, TasksAssumption DEF Tasks

\* The parts of TypeOK, by the steps that change them together.
DiskType == /\ mode \in Modes
            /\ ckpt \in [Stores -> Store] /\ torn \subseteq Stores
            /\ metrics \in Seq(Entry)
SessionType == file \in [Tasks -> Outcome] /\ lessons \subseteq Tasks
MemType == mem \in [Stores -> Store]
LoopType == pc \in Places /\ skip \in Nat /\ finished \subseteq Tasks /\ at \in 1..NumGroups + 1
EvalType == /\ reuse \subseteq Tasks /\ todo \subseteq Tasks /\ results \in Seq(Tasks)
            /\ noResults \in BOOLEAN
WorldType == /\ line \in Nat \ {0}
             /\ launches \in Nat /\ interrupts \in Nat /\ transients \in 0..MaxTransients
             /\ leftOut \subseteq Tasks

LEMMA TypeParts ==
  TypeOK <=> DiskType /\ SessionType /\ MemType /\ LoopType /\ EvalType /\ WorldType
BY DEF TypeOK, DiskType, SessionType, MemType, LoopType, EvalType, WorldType, Store,
       Entry, Outcome

LEMMA TypePartsNext ==
  DiskType' /\ SessionType' /\ MemType' /\ LoopType' /\ EvalType' /\ WorldType' => TypeOK'
BY DEF TypeOK, DiskType, SessionType, MemType, LoopType, EvalType, WorldType, Store,
       Entry, Outcome

LEMMA SessionStepType ==
  ASSUME IInv, NEW t \in Tasks,
         \/ ListReused(t) \/ RetryReuses(t) \/ Start(t) \/ Record(t) \/ Close(t)
         \/ Raise(t) \/ Interrupt(t) \/ RaiseTransient
  PROVE  TypeOK'
<1> USE DEF ListReused, RetryReuses, Start, Record, Close, Raise, Interrupt,
            RaiseTransient, CleanUp, Learn
<1>1. /\ DiskType /\ SessionType /\ MemType /\ LoopType /\ EvalType /\ WorldType
      /\ Here \in Stores
  BY TypeParts, HereType DEF IInv, Evaluating
<1>2. UNCHANGED <<mode, ckpt, torn, metrics, skip, finished, at, line, launches>>
  BY DEF disk, session, loop, world, eval
<1>3. DiskType' /\ LoopType'
  <2>1. pc' \in Places
    BY <1>1, PlaceNames DEF LoopType
  <2>2. NumGroups' = NumGroups
    BY <1>2, Frame
  <2> QED
    BY <1>1, <1>2, <2>1, <2>2 DEF DiskType, LoopType
<1>4. SessionType'
  BY <1>1 DEF SessionType, Outcome, disk, session
<1>5. MemType'
  <2>1. \A s \in Stores : mem[s].count + 1 \in Nat /\ Append(mem[s].learned, t) \in Seq(Tasks)
    BY <1>1, AppendType DEF MemType, Store
  <2>2. \/ mem' = mem
        \/ mem' = [mem EXCEPT ![Here].count = mem[Here].count + 1]
        \/ mem' = [mem EXCEPT ![Here].learned = Append(mem[Here].learned, t)]
    OBVIOUS
  <2> QED
    BY <1>1, <2>1, <2>2 DEF MemType, Store
<1>6. EvalType'
  <2>1. Append(results, t) \in Seq(Tasks)
    BY <1>1, AppendType DEF EvalType
  <2> QED
    BY <1>1, <2>1 DEF EvalType, eval
<1>7. WorldType'
  BY <1>1, <1>2, BoundsAssumption DEF WorldType, world, Group
<1> QED
  BY <1>3, <1>4, <1>5, <1>6, <1>7, TypePartsNext

ScriptStep ==
  \/ SkipGroup \/ Evaluate \/ EndExperiment \/ ReportTask \/ ReportGroup
  \/ OpenCheckpoint \/ WriteCheckpoint \/ ReportResult \/ EndGroup

LEMMA LineType ==
  ASSUME IInv, ReportTask \/ ReportResult
  PROVE  \E e \in Entry : metrics' = Append(metrics, e)
<1>1. at \in Tasks /\ results \in Seq(Tasks) /\ line \in Nat \ {0}
  BY HereType DEF IInv, TypeOK, ReportTask, ReportResult, Evaluated, Evaluating, Reporting
<1>2. CASE ReportTask
  <2>1. results # <<>>
    BY <1>2 DEF ReportTask, Broken
  <2>2. results[1] \in Tasks
    BY <1>1, <2>1
  <2> QED
    BY <1>1, <1>2, <2>2 DEF ReportTask, Line, Entry
<1>3. CASE ReportResult
  <2>1. results[line] \in Tasks
    BY <1>1, <1>3 DEF ReportResult
  <2> QED
    BY <1>3, <2>1 DEF ReportResult, Line, Entry
<1> QED
  BY <1>2, <1>3

LEMMA ScriptStepType ==
  ASSUME IInv, ScriptStep
  PROVE  TypeOK'
<1> USE DEF ScriptStep, SkipGroup, Evaluate, EndExperiment, ReportTask, ReportGroup,
            OpenCheckpoint, WriteCheckpoint, ReportResult, EndGroup
<1>1. /\ DiskType /\ SessionType /\ MemType /\ LoopType /\ EvalType /\ WorldType
  BY TypeParts DEF IInv
<1>2. UNCHANGED <<mode, session, mem, skip, finished, world>>
  BY DEF disk, loop
<1>3. DiskType'
  <2>1. metrics' \in Seq(Entry)
    <3>1. CASE ReportTask \/ ReportResult
      BY <1>1, <3>1, LineType, AppendType DEF DiskType
    <3>2. CASE ~(ReportTask \/ ReportResult)
      BY <1>1, <3>2 DEF DiskType, disk
    <3> QED
      BY <3>1, <3>2
  <2>2. ckpt' \in [Stores -> Store] /\ torn' \subseteq Stores
    <3>1. CASE OpenCheckpoint \/ WriteCheckpoint
      <4>1. Here \in Stores
        BY <3>1, HereType DEF IInv, Reporting
      <4>2. mem[Here] \in Store
        BY <1>1, <4>1 DEF MemType
      <4> QED
        BY <1>1, <3>1, <4>1, <4>2 DEF DiskType
    <3>2. CASE ~(OpenCheckpoint \/ WriteCheckpoint)
      BY <1>1, <3>2 DEF DiskType, disk
    <3> QED
      BY <3>1, <3>2
  <2> QED
    BY <1>1, <1>2, <2>1, <2>2 DEF DiskType
<1>4. SessionType' /\ MemType'
  BY <1>1, <1>2 DEF SessionType, MemType, session
<1>5. LoopType'
  <2>1. NumGroups' = NumGroups /\ NumGroups \in Nat
    BY <1>1, <1>2, Frame, GroupFacts DEF DiskType
  <2>2. pc' \in Places
    BY <1>1, PlaceNames DEF LoopType
  <2>3. at' = at \/ (at' = at + 1 /\ at <= NumGroups)
    BY DEF AfterGroup, loop, PlanInv, IInv, Evaluated, Evaluating, Reporting
  <2>4. at' \in 1..NumGroups + 1
    BY ONLY <1>1, <2>1, <2>3 DEF LoopType
  <2> QED
    BY <1>1, <1>2, <2>1, <2>2, <2>4 DEF LoopType
<1>6. EvalType'
  <2>1. Group(at) \subseteq Tasks
    BY DEF Group
  <2>2. CASE Evaluate
    <3>1. results' = <<>> /\ noResults' = FALSE
      BY <2>2
    <3>2. reuse' \subseteq Group(at) /\ todo' \subseteq Group(at)
      BY <2>2
    <3>3. <<>> \in Seq(Tasks)
      OBVIOUS
    <3> QED
      BY <2>1, <3>1, <3>2, <3>3 DEF EvalType
  <2>3. CASE ~Evaluate
    BY <1>1, <2>3 DEF EvalType, eval
  <2> QED
    BY <2>2, <2>3
<1>7. WorldType'
  BY <1>1, <1>2 DEF WorldType, world
<1> QED
  BY <1>3, <1>4, <1>5, <1>6, <1>7, TypePartsNext

LEMMA ProcessStepType ==
  ASSUME IInv, Launch \/ NoResults \/ Crash \/ UNCHANGED vars
  PROVE  TypeOK'
<1>1. /\ DiskType /\ SessionType /\ MemType /\ LoopType /\ EvalType /\ WorldType
      /\ 1 \in 1..NumGroups + 1
  BY TypeParts, GroupFacts, TasksAssumption DEF IInv, DiskType
<1>2. CASE Launch
  <2>1. UNCHANGED <<mode, ckpt, torn, session, at, eval, line, interrupts, transients, leftOut>>
    BY <1>2 DEF Launch
  <2>2. Restored \in Nat
    BY <1>1, RestoredFacts DEF IInv, StoreInv, DiskType
  <2>3. Kept \in Seq(Entry)
    BY <1>1, <2>2 DEF Kept, DiskType
  <2>4. \A lines : Completed(lines) \subseteq Tasks
    BY <1>1, GroupFacts, TasksAssumption DEF Completed, DiskType, Tasks
  <2>5. DiskType' /\ SessionType' /\ EvalType'
    BY <1>1, <1>2, <2>1, <2>3 DEF Launch, DiskType, SessionType, EvalType, session, eval
  <2>6. MemType'
    BY <1>1, <1>2 DEF Launch, MemType, DiskType
  <2>7. NumGroups' = NumGroups /\ pc' \in Places
    BY <1>2, <2>1, Frame, PlaceNames DEF Launch
  <2>8. LoopType'
    <3>1. at' \in 1..NumGroups' + 1
      BY <1>1, <2>1, <2>7 DEF LoopType
    <3>2. skip' \in Nat /\ finished' \subseteq Tasks
      BY <1>1, <1>2, <2>2, <2>4 DEF Launch, LoopType
    <3> QED
      BY <2>7, <3>1, <3>2 DEF LoopType
  <2>9. WorldType'
    BY <1>1, <1>2, <2>1 DEF Launch, WorldType
  <2> QED
    BY <2>5, <2>6, <2>8, <2>9, TypePartsNext
<1>3. CASE NoResults \/ Crash
  <2>1. UNCHANGED <<mode, disk, world>> /\ pc' = "down" /\ Forget
    BY <1>3 DEF NoResults, Crash
  <2>2. NumGroups' = NumGroups
    BY <2>1, Frame
  <2>3. Fresh \in Store
    BY DEF Fresh, Store
  <2>4. DiskType' /\ SessionType'
    BY <1>1, <2>1 DEF DiskType, SessionType, disk, session
  <2>5. MemType'
    BY <2>1, <2>3 DEF MemType, Forget
  <2>6. LoopType'
    BY <1>1, <2>1, <2>2, PlaceNames DEF LoopType, Forget
  <2>7. EvalType'
    <3>1. reuse' = {} /\ todo' = {} /\ results' = <<>> /\ noResults' = FALSE
      BY <2>1 DEF Forget
    <3>2. <<>> \in Seq(Tasks)
      OBVIOUS
    <3> QED
      BY <3>1, <3>2 DEF EvalType
  <2>8. WorldType'
    BY <1>1, <2>1 DEF WorldType, world, Forget
  <2> QED
    BY <2>4, <2>5, <2>6, <2>7, <2>8, TypePartsNext
<1>4. CASE UNCHANGED vars
  BY <1>4 DEF IInv, TypeOK, vars, disk, session, loop, eval, world, NumGroups, GroupOf,
              Interleaved
<1> QED
  BY <1>2, <1>3, <1>4

------------------------------------------------------------------------------
(* The steps of a session.                                                  *)

SessionMoves(t) ==
  \/ ListReused(t) \/ RetryReuses(t) \/ Start(t) \/ Record(t) \/ Close(t)
  \/ Raise(t) \/ Interrupt(t) \/ RaiseTransient

\* What a step of a session changes: a result only of a group that was not
\* complete, a count only when the session starts.
LEMMA SessionFrame ==
  ASSUME IInv, NEW t \in Tasks, SessionMoves(t)
  PROVE  /\ UNCHANGED <<mode, ckpt, metrics, skip, finished, at>>
         /\ Evaluating /\ Evaluating' /\ Up /\ Up'
         /\ leftOut \subseteq leftOut'
         /\ \A u \in Tasks : u \notin Group(at) => file'[u] = file[u]
         /\ file' = file \/ ~Complete(at)
         /\ \A s \in Stores : mem'[s].count = mem[s].count \/ (Start(t) /\ s = Here)
         /\ Start(t) => mem'[Here].count = mem[Here].count + 1
<1> USE DEF SessionMoves, ListReused, RetryReuses, Start, Record, Close, Raise,
            Interrupt, RaiseTransient, CleanUp, Learn
<1>1. UNCHANGED <<mode, ckpt, metrics, skip, finished, at>>
  BY DEF disk, session, loop, eval, world
<1>2. Evaluating /\ Evaluating' /\ Up /\ Up'
  BY DEF Evaluating, Up
<1>3. leftOut \subseteq leftOut'
  BY DEF world
<1>4. todo \subseteq Group(at) /\ file \in [Tasks -> Outcome]
  BY <1>2, TypeParts DEF IInv, PlanInv, SessionType
<1>5. \A u \in Tasks : u \notin Group(at) => file'[u] = file[u]
  BY <1>4 DEF disk, session, Due, First
<1>6. file' = file \/ ~Complete(at)
  <2>1. CASE pc = "run"
    <3>1. Due(t) => file[t] # "complete"
      BY <2>1 DEF IInv, PlanInv, Due, First
    <3> QED
      BY <2>1, <3>1, <1>4 DEF Complete, disk, session, Due, First
  <2>2. CASE pc # "run"
    BY <2>2, <1>4 DEF Complete, disk, session, Due, First
  <2> QED
    BY <2>1, <2>2
<1>7. mem \in [Stores -> Store] /\ Here \in Stores
  BY <1>2, TypeParts, HereType DEF IInv, MemType
<1>8. \A s \in Stores : mem'[s].count = mem[s].count \/ (Start(t) /\ s = Here)
  <2>1. CASE Start(t)
    BY <2>1, <1>7
  <2>2. CASE ~Start(t)
    <3>1. mem' = mem \/ mem' = [mem EXCEPT ![Here].learned = Append(mem[Here].learned, t)]
      BY <2>2
    <3> QED
      BY <3>1, <1>7 DEF Store
  <2> QED
    BY <2>1, <2>2
<1>9. Start(t) => mem'[Here].count = mem[Here].count + 1
  BY <1>7
<1> QED
  BY <1>1, <1>2, <1>3, <1>5, <1>6, <1>8, <1>9

\* Where no result is touched, what is done or complete remains so.
LEMMA DoneStays ==
  ASSUME mode \in Modes, mode' = mode, leftOut \subseteq leftOut', NEW g,
         \A t \in Group(g) : file'[t] = file[t]
  PROVE  (Done(g) => Done(g)') /\ (Complete(g) => Complete(g)')
<1>1. Group(g)' = Group(g)
  BY Frame
<1> QED
  BY <1>1 DEF Done, Complete

LEMMA FullFrame ==
  ASSUME mode' = mode, UNCHANGED metrics
  PROVE  \A g : Full(g)' = Full(g) /\ LinesOf(g, metrics)' = LinesOf(g, metrics)
BY Frame DEF Full, LinesOf

LEMMA SessionPlan ==
  ASSUME IInv, NEW t \in Tasks, SessionMoves(t)
  PROVE  PlanInv'
<1>1. /\ UNCHANGED <<mode, skip, finished, at>>
      /\ Evaluating /\ Evaluating' /\ Up'
  BY SessionFrame
<1>2. /\ at \in 1..NumGroups /\ ~Skipped(at)
      /\ \A i \in DOMAIN results : results[i] \in Group(at)
      /\ todo \subseteq Group(at) /\ reuse \subseteq Group(at) \ todo
  BY <1>1 DEF IInv, PlanInv
<1>3. Group(at)' = Group(at) /\ NumGroups' = NumGroups /\ Skipped(at)' = Skipped(at)
      /\ Here' = Here
  BY <1>1, Frame DEF Skipped, Here
<1>4. pc' # "down" /\ pc' # "ended"
  BY <1>1 DEF Up
<1>5. results' = results \/ (results' = Append(results, t) /\ t \in Group(at))
  BY <1>2 DEF SessionMoves, ListReused, RetryReuses, Start, Record, Close, Raise,
              Interrupt, RaiseTransient, eval, Due, First
<1>6. \A i \in DOMAIN results' : results'[i] \in Group(at)
  <2>1. results \in Seq(Tasks)
    BY TypeParts DEF IInv, EvalType
  <2> QED
    BY <1>2, <1>5, <2>1
<1>7. todo' \subseteq Group(at) /\ reuse' \subseteq Group(at) \ todo'
  BY <1>2 DEF SessionMoves, ListReused, RetryReuses, Start, Record, Close, Raise,
              Interrupt, RaiseTransient, eval, Due, First
<1>8. pc' \in {"run", "recorded"} => mem'[Here].count > 0
  <2>1. Here \in Stores /\ mem \in [Stores -> Store]
    BY <1>1, HereType, TypeParts DEF IInv, MemType
  <2>2. mem[Here].count \in Nat
    BY <2>1 DEF Store
  <2>3. CASE Start(t)
    BY <2>2, <2>3, SessionFrame
  <2>4. CASE ~Start(t)
    <3>1. pc' \in {"run", "recorded"} => pc \in {"run", "recorded"}
      BY <2>4 DEF SessionMoves, ListReused, RetryReuses, Record, Close, Raise,
                  Interrupt, RaiseTransient
    <3>2. mem'[Here].count = mem[Here].count
      BY <2>1, <2>4, SessionFrame
    <3> QED
      BY <3>1, <3>2 DEF IInv, PlanInv
  <2> QED
    BY <2>3, <2>4
<1>9. pc' = "run" => \A u \in todo' : First(u, todo') => file'[u] # "complete"
  <2> SUFFICES ASSUME pc' = "run", NEW u \in todo', First(u, todo')
      PROVE  file'[u] # "complete"
    OBVIOUS
  <2>1. Start(t)
    BY DEF SessionMoves, ListReused, RetryReuses, Start, Record, Close, Raise,
           Interrupt, RaiseTransient
  <2>2. todo' = todo /\ First(t, todo) /\ file' = [file EXCEPT ![t] = "none"]
    BY <2>1 DEF Start, Due, CleanUp, eval
  <2>3. todo \subseteq Nat
    BY TypeParts, TasksAssumption DEF IInv, EvalType, Tasks
  <2>4. u = t
    BY <2>2, <2>3 DEF First
  <2>5. file \in [Tasks -> Outcome]
    BY TypeParts DEF IInv, SessionType
  <2> QED
    BY <2>2, <2>4, <2>5
<1>10. pc' = "recorded" => \A u \in todo' : First(u, todo') => file'[u] # "none"
  <2> SUFFICES ASSUME pc' = "recorded", NEW u \in todo', First(u, todo')
      PROVE  file'[u] # "none"
    OBVIOUS
  <2>1. Record(t)
    BY DEF SessionMoves, ListReused, RetryReuses, Start, Record, Close, Raise,
           Interrupt, RaiseTransient
  <2>2. todo' = todo /\ First(t, todo)
        /\ \E o \in {"complete", "failed"} : file' = [file EXCEPT ![t] = o]
    BY <2>1 DEF Record, Due
  <2>3. todo \subseteq Nat /\ file \in [Tasks -> Outcome]
    BY TypeParts, TasksAssumption DEF IInv, EvalType, SessionType, Tasks
  <2>4. u = t
    BY <2>2, <2>3 DEF First
  <2> QED
    BY <2>2, <2>3, <2>4
<1> QED
  BY <1>1, <1>2, <1>3, <1>4, <1>6, <1>7, <1>8, <1>9, <1>10 DEF PlanInv, First

LEMMA SessionStores ==
  ASSUME IInv, NEW t \in Tasks, SessionMoves(t)
  PROVE  StoreInv'
<1>1. UNCHANGED ckpt /\ Evaluating' /\ Up
  BY SessionFrame
<1>2. mem \in [Stores -> Store] /\ ckpt \in [Stores -> Store]
  BY TypeParts DEF IInv, MemType, DiskType
<1>3. \A s \in Stores : ckpt[s].count <= mem[s].count /\ mem[s].count \in Nat
                       /\ ckpt[s].count \in Nat
  BY <1>1, <1>2 DEF IInv, StoreInv, Store
<1>4. \A s \in Stores : mem'[s].count = mem[s].count \/ mem'[s].count = mem[s].count + 1
  BY SessionFrame
<1>5. \A s \in Stores : ckpt'[s].count <= mem'[s].count
  BY <1>1, <1>3, <1>4
<1>6. Counted(ckpt')
  BY <1>1 DEF IInv, StoreInv
<1> QED
  BY <1>1, <1>5, <1>6 DEF StoreInv, Counted, Evaluating

LEMMA SessionDone ==
  ASSUME IInv, NEW t \in Tasks, SessionMoves(t)
  PROVE  DoneInv'
<1>1. /\ UNCHANGED <<mode, at>> /\ Evaluating /\ Evaluating'
      /\ Group(at)' = Group(at) /\ Here' = Here
  BY SessionFrame, Frame DEF Here
<1> DEFINE Through(u) ==
             /\ file[u] # "none" \/ u \in leftOut \/ noResults
             /\ mem[Here].count = 0 => file[u] = "complete" \/ noResults
<1>2. \A u \in Group(at) \ todo : Through(u)
  BY <1>1 DEF IInv, DoneInv
<1>3. Here \in Stores /\ mem \in [Stores -> Store] /\ file \in [Tasks -> Outcome]
      /\ Group(at) \subseteq Tasks
  BY <1>1, HereType, TypeParts DEF IInv, MemType, SessionType, Group
<1>4. mem[Here].count \in Nat
  BY <1>3 DEF Store
<1>5. /\ mem'[Here].count \in {mem[Here].count, mem[Here].count + 1}
      /\ pc \in {"run", "recorded"} => mem[Here].count > 0
  BY <1>3, <1>4, SessionFrame DEF IInv, PlanInv
<1>6. \A u \in Group(at) \ todo' : Through(u)'
  <2>1. CASE ListReused(t)
    BY <2>1, <1>2, <1>1 DEF ListReused, disk, session, world
  <2>2. CASE RetryReuses(t)
    BY <2>2, <1>2, <1>1 DEF RetryReuses, disk, session, world
  <2>3. CASE Start(t)
    BY <2>3, <1>1, <1>2, <1>3, <1>4, <1>5 DEF Start, Due, First, CleanUp, eval, world
  <2>4. CASE Record(t)
    BY <2>4, <1>1, <1>2, <1>3 DEF Record, Due, First, world
  <2>5. CASE Close(t)
    <3>1. file' = file /\ leftOut' = leftOut /\ noResults' = noResults
          /\ todo' = todo \ {t} /\ pc = "recorded"
      BY <2>5 DEF Close, world
    <3>2. mem'[Here].count > 0
      BY <3>1, <1>4, <1>5
    <3>3. file[t] # "none"
      BY <2>5 DEF Close, Due, First, IInv, PlanInv
    <3> QED
      BY <3>1, <3>2, <3>3, <1>1, <1>2
  <2>6. CASE Raise(t)
    BY <2>6, <1>1 DEF Raise
  <2>7. CASE Interrupt(t)
    <3>1. \A u \in Group(at) : file'[u] # "none" \/ u \in leftOut'
      BY <2>7 DEF Interrupt
    <3>2. mem'[Here].count > 0
      BY <2>7, <1>4, <1>5 DEF Interrupt
    <3> QED
      BY <3>1, <3>2, <1>1
  <2>8. CASE RaiseTransient
    BY <2>8, <1>1, <1>2 DEF RaiseTransient, disk, session, eval
  <2> QED
    BY <2>1, <2>2, <2>3, <2>4, <2>5, <2>6, <2>7, <2>8 DEF SessionMoves
<1>7. ~Reporting'
  BY <1>1 DEF Evaluating, Reporting
<1>8. mem[Here]' = mem'[Here]
  BY <1>1
<1> SUFFICES ASSUME NEW u \in Group(at)', u \notin todo'
    PROVE  /\ file'[u] # "none" \/ u \in leftOut' \/ noResults'
           /\ mem[Here]'.count = 0 => file'[u] = "complete" \/ noResults'
  BY <1>7 DEF DoneInv
<1>9. u \in Group(at) \ todo'
  BY <1>1
<1> QED
  BY <1>6, <1>8, <1>9

\* A session step keeps what other groups have; if it touches a result, the
\* group evaluated was not complete.
LEMMA SessionGroups ==
  ASSUME IInv, NEW t \in Tasks, SessionMoves(t), NEW g, g # at \/ file' = file
  PROVE  (Done(g) => Done(g)') /\ (Complete(g) => Complete(g)')
<1>1. mode \in Modes /\ mode' = mode /\ leftOut \subseteq leftOut'
  BY SessionFrame, TypeParts DEF IInv, DiskType
<1>2. \A u \in Group(g) : file'[u] = file[u]
  <2>1. at \in 1..NumGroups
    BY SessionFrame DEF IInv, PlanInv
  <2>2. \A u \in Group(g) : u \in Tasks /\ (g # at => u \notin Group(at))
    BY <1>1, GroupFacts
  <2> QED
    BY <2>2, SessionFrame
<1> QED
  BY ONLY <1>1, <1>2, DoneStays

LEMMA SessionLines ==
  ASSUME IInv, NEW t \in Tasks, SessionMoves(t)
  PROVE  LineInv'
<1>1. UNCHANGED <<mode, ckpt, metrics, skip, finished, at>> /\ Evaluating /\ Evaluating' /\ Up
  BY SessionFrame
<1>2. /\ NumGroups' = NumGroups /\ Interleaved' = Interleaved /\ Saved' = Saved
      /\ \A g : Full(g)' = Full(g) /\ LinesOf(g, metrics)' = LinesOf(g, metrics)
      /\ \A g : Ahead(g)' = Ahead(g)
  BY <1>1, Frame, FullFrame DEF Saved, Ahead, Evaluating
<1>3. \A g : g # at \/ file' = file => (Done(g) => Done(g)') /\ (Complete(g) => Complete(g)')
  BY SessionGroups
<1>4. CASE file' = file
  BY <1>1, <1>2, <1>3, <1>4 DEF IInv, LineInv
<1>5. CASE file' # file
  <2>1. ~Complete(at) /\ at \in 1..NumGroups /\ ~Skipped(at)
    BY <1>1, <1>5, SessionFrame DEF IInv, PlanInv
  <2>2. ~Interleaved => Ahead(at)
    BY <1>1, <2>1 DEF Ahead, Skipped, Evaluating
  <2>3. ~Interleaved => ~Full(at) /\ (~Saved => ~(LinesOf(at, metrics) > 0))
    BY <1>1, <2>1, <2>2 DEF IInv, LineInv
  <2> QED
    BY <1>1, <1>2, <1>3, <2>3 DEF IInv, LineInv
<1> QED
  BY <1>4, <1>5

LEMMA SessionSkips ==
  ASSUME IInv, SkipInv, NEW t \in Tasks, SessionMoves(t)
  PROVE  SkipInv'
<1>1. UNCHANGED <<mode, skip, finished, at>> /\ Evaluating /\ Up
  BY SessionFrame
<1>2. /\ NumGroups' = NumGroups /\ at \in 1..NumGroups /\ ~Skipped(at)
      /\ \A g : Skipped(g)' = Skipped(g)
  BY <1>1, Frame DEF IInv, PlanInv, Skipped
<1>3. \A g : g # at => (Done(g) => Done(g)')
  BY SessionGroups
<1>4. \A g \in 1..NumGroups : Skipped(g) \/ g < at => g # at /\ Done(g)
  BY <1>1, <1>2 DEF SkipInv, Running
<1> QED
  BY <1>1, <1>2, <1>3, <1>4 DEF SkipInv

\* An interleaved group is one task.
LEMMA OneTask ==
  ASSUME Interleaved, NEW g, NEW u \in Group(g)
  PROVE  u = g
BY DEF Interleaved, Group, GroupOf

LEMMA SessionCounts ==
  ASSUME IInv, CountInv, NEW t \in Tasks, SessionMoves(t), ~RaiseTransient
  PROVE  CountInv'
<1> SUFFICES ASSUME Interleaved, NEW s \in Stores
    PROVE  /\ \A g \in 1..NumGroups : g <= ckpt[s].count => Done(g)'
           /\ ckpt[s].count <= skip \/ ckpt[s].count < at
           /\ mem'[s].count <= skip \/ mem'[s].count < at
                \/ (mem'[s].count = at /\ CountedNow')
  BY SessionFrame, Frame DEF CountInv
<1>1. UNCHANGED <<mode, ckpt, skip, finished, at>> /\ Evaluating /\ Evaluating' /\ Up
  BY SessionFrame
<1>2. /\ \A g \in 1..NumGroups : g <= ckpt[s].count => Done(g)
      /\ ckpt[s].count <= skip \/ ckpt[s].count < at
      /\ mem[s].count <= skip \/ mem[s].count < at \/ (mem[s].count = at /\ CountedNow)
  BY <1>1 DEF CountInv
<1>3. /\ at \in 1..NumGroups /\ skip < at /\ skip \in Nat /\ at \in Nat
      /\ ckpt[s].count \in Nat /\ mem[s].count \in Nat /\ todo \subseteq Group(at)
  <2>1. at \in 1..NumGroups /\ ~Skipped(at) /\ skip \in Nat /\ todo \subseteq Group(at)
    BY <1>1, TypeParts DEF IInv, PlanInv, LoopType
  <2>2. ckpt \in [Stores -> Store] /\ mem \in [Stores -> Store]
    BY TypeParts DEF IInv, MemType, DiskType
  <2> QED
    BY <2>1, <2>2 DEF Skipped, Store
<1>4. ckpt[s].count < at
  BY <1>2, <1>3
<1>5. \A g \in 1..NumGroups : g <= ckpt[s].count => Done(g)'
  BY <1>2, <1>3, <1>4, SessionGroups
<1>6. mem'[s].count < at \/ (mem'[s].count = at /\ CountedNow')
  <2>1. CASE Start(t)
    <3>1. at \in todo /\ pc = "task" /\ pc' = "run"
      BY <2>1, <1>3, OneTask DEF Start, Due, First
    <3>2. mem[s].count < at
      BY <3>1, <1>2, <1>3 DEF CountedNow
    <3>3. mem'[s].count \in {mem[s].count, mem[s].count + 1}
      BY SessionFrame
    <3> QED
      BY <3>1, <3>2, <3>3, <1>3 DEF CountedNow
  <2>2. CASE ~Start(t)
    <3>1. mem'[s].count = mem[s].count
      BY <2>2, SessionFrame
    <3>2. CASE CountedNow
      <4>1. todo' \subseteq todo
        BY <2>2 DEF SessionMoves, ListReused, RetryReuses, Record, Close, Raise,
                    Interrupt, eval
      <4>2. pc \in {"run", "recorded"} \/ (pc = "task" /\ at \notin todo)
        BY <3>2, <1>1 DEF CountedNow, Evaluating
      <4>3. pc' \in {"run", "recorded"} \/ (pc' = "task" /\ at \notin todo')
        BY <4>1, <4>2, <2>2, <1>3, OneTask
           DEF SessionMoves, ListReused, RetryReuses, Record, Close, Raise, Interrupt,
               Due, First
      <4>4. CountedNow'
        BY <4>3, <1>1 DEF CountedNow
      <4> QED
        BY <3>1, <4>4, <1>2, <1>3
    <3>3. CASE ~CountedNow
      BY <3>1, <3>3, <1>2, <1>3
    <3> QED
      BY <3>2, <3>3
  <2> QED
    BY <2>1, <2>2
<1> QED
  BY <1>4, <1>5, <1>6
------------------------------------------------------------------------------
(* The other steps of the script.                                           *)

LEMMA ScriptFrame ==
  ASSUME IInv, ScriptStep
  PROVE  /\ UNCHANGED <<mode, file, mem, skip, finished, leftOut>>
         /\ NumGroups' = NumGroups /\ Interleaved' = Interleaved
         /\ \A g : Group(g)' = Group(g) /\ Skipped(g)' = Skipped(g)
         /\ \A g : (Done(g)' <=> Done(g)) /\ (Complete(g)' <=> Complete(g))
         /\ Up /\ Running'
         /\ at' = at \/ (at' = at + 1 /\ pc' = "group")
         /\ pc' \notin {"down", "run", "recorded", "stuck"}
         /\ WriteCheckpoint \/ UNCHANGED ckpt
         /\ at \in Nat /\ at >= 1
<1> USE DEF ScriptStep, SkipGroup, Evaluate, EndExperiment, ReportTask, ReportGroup,
            OpenCheckpoint, WriteCheckpoint, ReportResult, EndGroup
<1>1. UNCHANGED <<mode, file, mem, skip, finished, leftOut>>
  BY DEF disk, session, loop, world
<1>2. /\ NumGroups' = NumGroups /\ Interleaved' = Interleaved
      /\ \A g : Group(g)' = Group(g)
  BY <1>1, Frame
<1>3. \A g : Skipped(g)' = Skipped(g)
  BY <1>1, <1>2 DEF Skipped
<1>4. \A g : (Done(g)' <=> Done(g)) /\ (Complete(g)' <=> Complete(g))
  BY <1>1, <1>2 DEF Done, Complete
<1>5. Up /\ Running' /\ pc' \notin {"down", "run", "recorded", "stuck"}
  BY DEF Up, Running, Evaluated
<1>6. at' = at \/ (at' = at + 1 /\ pc' = "group")
  BY DEF AfterGroup, loop
<1>7. WriteCheckpoint \/ UNCHANGED ckpt
  BY DEF disk
<1>8. at \in Nat /\ at >= 1
  <2>1. at \in 1..NumGroups + 1 /\ NumGroups \in 1..NumTasks
    BY GroupFacts, TypeParts DEF IInv, LoopType, DiskType
  <2> QED
    BY <2>1, TasksAssumption
<1> QED
  BY ONLY <1>1, <1>2, <1>3, <1>4, <1>5, <1>6, <1>7, <1>8

\* What is reported was evaluated.
LEMMA EvaluatedDone ==
  ASSUME IInv, Evaluated, ~Broken
  PROVE  Done(at) /\ (mem[Here].count = 0 => Complete(at))
BY DEF IInv, DoneInv, Evaluated, Evaluating, Broken, Done, Complete

LEMMA ScriptPlan ==
  ASSUME IInv, ScriptStep
  PROVE  PlanInv'
<1> USE DEF ScriptStep, SkipGroup, Evaluate, EndExperiment, ReportTask, ReportGroup,
            OpenCheckpoint, WriteCheckpoint, ReportResult, EndGroup
<1>1. CASE Evaluate
  <2>1. /\ at' = at /\ at \in 1..NumGroups /\ ~Skipped(at) /\ results' = <<>>
        /\ todo' \subseteq Group(at) /\ reuse' \subseteq Group(at) \ todo' /\ pc' = "task"
    BY <1>1, ScriptFrame, TypeParts DEF IInv, LoopType, loop
  <2>2. /\ NumGroups' = NumGroups
        /\ Group(at)' = Group(at) /\ (Skipped(at)' <=> Skipped(at))
    BY <2>1, ScriptFrame
  <2>3. at' \in 1..NumGroups' /\ ~Skipped(at)' /\ \A i \in DOMAIN results' : FALSE
    BY ONLY <2>1, <2>2
  <2> QED
    BY ONLY <2>1, <2>2, <2>3 DEF PlanInv, Evaluating, Reporting
<1>2. CASE EndExperiment
  BY <1>2, ScriptFrame DEF PlanInv, Evaluating, Reporting, loop
<1>3. CASE ~Evaluate /\ ~EndExperiment
  <2>1. pc' \in {"group", "save", "write", "metrics"}
    BY <1>3
  <2>2. Reporting' => at' = at /\ results' = results /\ (Evaluating \/ Reporting)
    BY <1>3, ScriptFrame DEF Reporting, Evaluating, Evaluated, eval, loop
  <2> QED
    BY <2>1, <2>2, ScriptFrame DEF IInv, PlanInv, Evaluating, Reporting
<1> QED
  BY <1>1, <1>2, <1>3

LEMMA WriteFacts ==
  ASSUME IInv, WriteCheckpoint
  PROVE  /\ Here \in Stores /\ at \in 1..NumGroups
         /\ ckpt' = [ckpt EXCEPT ![Here] = mem[Here]]
         /\ \A s \in Stores : /\ ckpt[s].count \in Nat /\ mem[s].count \in Nat
                              /\ ckpt[s].count <= ckpt'[s].count
                              /\ ckpt'[s].count = IF s = Here THEN mem[s].count
                                                              ELSE ckpt[s].count
         /\ Done(at) /\ UNCHANGED metrics /\ pc = "write"
<1>1. Here \in Stores /\ at \in 1..NumGroups /\ Done(at)
  BY HereType DEF IInv, PlanInv, DoneInv, Evaluating, Reporting, WriteCheckpoint
<1>2. ckpt \in [Stores -> Store] /\ mem \in [Stores -> Store]
  BY TypeParts DEF IInv, DiskType, MemType
<1>3. \A s \in Stores : ckpt[s].count \in Nat /\ mem[s].count \in Nat
                        /\ ckpt[s].count <= mem[s].count
  BY <1>2 DEF Store, IInv, StoreInv, WriteCheckpoint, Up
<1> QED
  BY <1>1, <1>2, <1>3 DEF WriteCheckpoint

LEMMA ScriptStores ==
  ASSUME IInv, ScriptStep
  PROVE  StoreInv'
<1>1. CASE WriteCheckpoint
  <2>1. PICK s \in Stores : \A r \in Stores : ckpt[r].count <= ckpt[s].count
    BY DEF IInv, StoreInv, Counted
  <2>2. Counted(ckpt')
    <3>1. CASE ckpt[s].count <= mem[Here].count
      <4>1. \A r \in Stores : ckpt'[r].count <= ckpt'[Here].count
        BY <1>1, <2>1, <3>1, WriteFacts
      <4> QED
        BY <1>1, <4>1, WriteFacts DEF Counted
    <3>2. CASE ~(ckpt[s].count <= mem[Here].count)
      <4>1. \A r \in Stores : ckpt'[r].count <= ckpt'[s].count
        BY <1>1, <2>1, <3>2, WriteFacts
      <4> QED
        BY <4>1 DEF Counted
    <3> QED
      BY <3>1, <3>2
  <2>3. mem' = mem /\ \A r \in Stores : ckpt'[r].count <= mem'[r].count
    BY <1>1, ScriptFrame, WriteFacts DEF IInv, StoreInv, Up
  <2>4. pc' = "metrics" => Here' = Here
    BY <1>1, ScriptFrame DEF Here, StoreOf
  <2>5. ckpt'[Here].count = mem[Here].count
    BY <1>1, WriteFacts
  <2> QED
    BY <2>2, <2>3, <2>4, <2>5 DEF StoreInv, Counted
<1>2. CASE ~WriteCheckpoint
  <2>1. UNCHANGED <<ckpt, mem>> /\ Up
    BY <1>2, ScriptFrame
  <2>2. pc' = "metrics" /\ mem[Here].count > 0 => pc = "metrics" /\ Here' = Here
    <3>1. pc' = "metrics" => ReportResult \/ (ReportGroup /\ ~HasStore)
      BY <1>2 DEF ScriptStep, SkipGroup, Evaluate, EndExperiment, ReportTask, ReportGroup,
                  OpenCheckpoint, ReportResult, EndGroup
    <3>2. ReportResult => pc = "metrics" /\ UNCHANGED <<at, mode>>
      BY DEF ReportResult, loop
    <3> QED
      BY <3>1, <3>2 DEF HasStore, Here, StoreOf
  <2>3. pc' = "metrics" => Here' = Here
    BY ScriptFrame DEF Here, StoreOf
  <2> QED
    BY <2>1, <2>2, <2>3 DEF IInv, StoreInv, Counted
<1> QED
  BY <1>1, <1>2

LEMMA ScriptDone ==
  ASSUME IInv, ScriptStep
  PROVE  DoneInv'
<1> USE DEF ScriptStep, SkipGroup, Evaluate, EndExperiment, ReportTask, ReportGroup,
            OpenCheckpoint, WriteCheckpoint, ReportResult, EndGroup
<1>1. CASE Evaluate
  <2>1. \A t \in Group(at) \ todo' : file[t] = "complete"
    BY <1>1
  <2>2. at' = at /\ pc' = "task" /\ Group(at)' = Group(at)
    BY <1>1, ScriptFrame DEF loop
  <2> QED
    BY <2>1, <2>2, ScriptFrame DEF DoneInv, Evaluating, Reporting
<1>2. CASE ~Evaluate
  <2>1. ~Evaluating'
    BY <1>2, ScriptFrame DEF Evaluating
  <2>2. Reporting' => at' = at /\ Here' = Here
    BY ScriptFrame DEF Reporting, Here, StoreOf
  <2>3. Reporting' => Reporting \/ (Evaluated /\ ~Broken)
    BY <1>2 DEF Reporting
  <2>4. Reporting' => Done(at) /\ (mem[Here].count = 0 => Complete(at))
    BY <2>3, EvaluatedDone DEF IInv, DoneInv
  <2> QED
    BY <2>1, <2>2, <2>4, ScriptFrame DEF DoneInv
<1> QED
  BY <1>1, <1>2

\* A complete benchmark is done, and so is one without tasks.
LEMMA CompleteDone ==
  ASSUME NEW g
  PROVE  /\ Complete(g) => Done(g)
         /\ Group(g) = {} => Complete(g)
BY DEF Complete, Done

\* No benchmark comes into question that did not before.
LEMMA AheadStays ==
  ASSUME IInv, ScriptStep, NEW g \in 1..NumGroups, Ahead(g)'
  PROVE  Ahead(g)
<1>1. finished' = finished /\ at \in Nat /\ (at' = at \/ at' = at + 1)
  BY ScriptFrame
<1>2. pc = "metrics" => pc' = "metrics" \/ at' = at + 1
  BY DEF ScriptStep, SkipGroup, Evaluate, EndExperiment, ReportTask, ReportGroup,
         OpenCheckpoint, WriteCheckpoint, ReportResult, EndGroup, AfterGroup, Evaluated
<1>3. g \in Nat
  BY GroupFacts, TypeParts, TasksAssumption DEF IInv, DiskType
<1>4. at' = at + 1 => pc' = "group"
  BY <1>1, ScriptFrame
<1>5. g \notin finished /\ (IF pc' = "metrics" THEN g > at' ELSE g >= at')
  BY <1>1 DEF Ahead
<1> QED
  BY ONLY <1>1, <1>2, <1>3, <1>4, <1>5 DEF Ahead

\* A line is one of a task of the benchmark that is reported.
LEMMA ResultLine ==
  ASSUME IInv, ReportResult, ~Interleaved
  PROVE  /\ Done(at) /\ (~Saved => Complete(at)) /\ pc = "metrics" /\ pc' = "metrics"
         /\ \A g : g # at => LinesOf(g, metrics') = LinesOf(g, metrics)
<1>1. /\ pc = "metrics" /\ pc' = "metrics" /\ Reporting /\ metrics \in Seq(Entry)
      /\ results \in Seq(Tasks) /\ line \in 1..Len(results)
      /\ Here \in Stores /\ mode \in Modes
  BY HereType, TypeParts
     DEF IInv, DiskType, EvalType, WorldType, ReportResult, Reporting
<1>2. Done(at) /\ (mem[Here].count = 0 => Complete(at))
  BY <1>1 DEF IInv, DoneInv
<1>3. ~Saved => mem[Here].count = 0
  <2>1. mem \in [Stores -> Store]
    BY TypeParts DEF IInv, MemType
  <2>2. mem[Here].count \in Nat
    BY <1>1, <2>1 DEF Store
  <2> QED
    BY <1>1, <2>2 DEF Saved, IInv, StoreInv
<1>4. PICK label \in Tasks :
        /\ label \in Group(at)
        /\ metrics' = Append(metrics, [label |-> label, of |-> results[line]])
  <2>1. results[line] \in Group(at)
    BY <1>1 DEF IInv, PlanInv
  <2> QED
    BY <2>1 DEF ReportResult, Line, Nth
<1>5. Block[label] = at
  BY <1>4 DEF Group, GroupOf
<1>6. [label |-> label, of |-> results[line]] \in Entry
  BY <1>1 DEF Entry
<1>7. \A g : g # at => LinesOf(g, metrics') = LinesOf(g, metrics)
  BY <1>1, <1>4, <1>5, <1>6, LinesAppend
<1> QED
  BY <1>1, <1>2, <1>3, <1>7

LEMMA ScriptLines ==
  ASSUME IInv, ScriptStep
  PROVE  LineInv'
<1> SUFFICES ASSUME ~Interleaved PROVE LineInv'
  BY ScriptFrame DEF LineInv
<1>1. /\ Saved => \A g \in 1..NumGroups : Full(g) => Done(g)
      /\ ~Saved => \A g \in 1..NumGroups : LinesOf(g, metrics) > 0 => Complete(g)
      /\ \A g \in 1..NumGroups : Ahead(g) /\ Full(g) => Complete(g)
  BY ScriptFrame DEF IInv, LineInv
<1>2. /\ NumGroups' = NumGroups /\ Interleaved' = Interleaved
      /\ \A g : (Done(g)' <=> Done(g)) /\ (Complete(g)' <=> Complete(g))
      /\ mode' = mode /\ mode \in Modes /\ Up
  BY ScriptFrame, TypeParts DEF IInv, DiskType
<1>3. \A g \in 1..NumGroups : Ahead(g)' => Ahead(g)
  BY AheadStays
<1>4. CASE UNCHANGED <<ckpt, metrics>>
  <2>1. Saved' = Saved /\ \A g : Full(g)' = Full(g) /\ LinesOf(g, metrics)' = LinesOf(g, metrics)
    BY <1>2, <1>4, FullFrame DEF Saved
  <2> QED
    BY <1>1, <1>2, <1>3, <2>1 DEF LineInv
<1>5. CASE WriteCheckpoint
  <2>1. Saved => Saved'
    BY <1>5, WriteFacts DEF Saved
  <2>2. \A g : Full(g)' = Full(g) /\ LinesOf(g, metrics)' = LinesOf(g, metrics)
    BY <1>2, <1>5, WriteFacts, FullFrame
  <2>3. \A g \in 1..NumGroups : Full(g) => Done(g)
    <3>1. CASE Saved
      BY <1>1, <3>1
    <3>2. CASE ~Saved
      <4> SUFFICES ASSUME NEW g \in 1..NumGroups, Full(g) PROVE Done(g)
        OBVIOUS
      <4>1. LinesOf(g, metrics) > 0 => Complete(g)
        BY <1>1, <3>2
      <4>2. metrics \in Seq(Entry)
        BY TypeParts DEF IInv, DiskType
      <4>3. LinesOf(g, metrics) \in Nat /\ Cardinality(Group(g)) \in Nat
        BY <1>2, <4>2, LinesType, GroupSize
      <4>4. ~(LinesOf(g, metrics) > 0) => Group(g) = {}
        BY <1>2, <4>3, GroupSize DEF Full
      <4> QED
        BY ONLY <4>1, <4>4, CompleteDone
    <3> QED
      BY <3>1, <3>2
  <2> QED
    BY <1>1, <1>2, <1>3, <2>1, <2>2, <2>3 DEF LineInv
<1>6. CASE ReportResult
  <2>1. /\ Done(at) /\ (~Saved => Complete(at)) /\ pc' = "metrics" /\ at' = at
        /\ \A g : g # at => LinesOf(g, metrics') = LinesOf(g, metrics)
    BY <1>6, ResultLine DEF ReportResult, loop
  <2>2. \A g : g # at => (Full(g)' <=> Full(g)) /\ LinesOf(g, metrics)' = LinesOf(g, metrics)
    <3>1. \A g : Group(g)' = Group(g) /\ LinesOf(g, metrics)' = LinesOf(g, metrics')
      BY ScriptFrame DEF LinesOf
    <3> QED
      BY <2>1, <3>1 DEF Full
  <2>3. Saved' = Saved
    BY <1>6 DEF Saved, ReportResult
  <2>4. \A g \in 1..NumGroups : Ahead(g)' => g # at
    BY <2>1 DEF Ahead
  <2> QED
    BY <1>1, <1>2, <1>3, <2>1, <2>2, <2>3, <2>4 DEF LineInv
<1>7. UNCHANGED <<ckpt, metrics>> \/ WriteCheckpoint \/ ReportResult
  BY DEF ScriptStep, SkipGroup, Evaluate, EndExperiment, ReportTask, ReportGroup,
         OpenCheckpoint, EndGroup, disk
<1> QED
  BY <1>4, <1>5, <1>6, <1>7

LEMMA ScriptSkips ==
  ASSUME IInv, SkipInv, ScriptStep
  PROVE  SkipInv'
<1>1. /\ NumGroups' = NumGroups /\ Up /\ at \in Nat
      /\ \A g : (Done(g)' <=> Done(g)) /\ (Skipped(g)' <=> Skipped(g))
      /\ at' = at \/ (at' = at + 1 /\ pc' = "group")
  BY ScriptFrame
<1>2. \A g \in 1..NumGroups : Skipped(g) \/ g < at => Done(g)
  BY <1>1 DEF SkipInv, Running
<1>3. at' = at + 1 => Skipped(at) \/ Done(at)
  BY <1>1, EvaluatedDone
     DEF ScriptStep, SkipGroup, Evaluate, EndExperiment, ReportTask, ReportGroup,
         OpenCheckpoint, WriteCheckpoint, ReportResult, EndGroup, IInv, DoneInv,
         Reporting, loop
<1>4. \A g \in 1..NumGroups : g < at' => g < at \/ (g = at /\ at' = at + 1)
  BY <1>1
<1>5. \A g \in 1..NumGroups : Skipped(g) \/ g < at' => Done(g)
  BY <1>2, <1>3, <1>4
<1> QED
  BY <1>1, <1>5 DEF SkipInv

LEMMA ScriptCounts ==
  ASSUME IInv, SkipInv, CountInv, ScriptStep
  PROVE  CountInv'
<1> SUFFICES ASSUME Interleaved, NEW s \in Stores
    PROVE  /\ \A g \in 1..NumGroups : g <= ckpt'[s].count => Done(g)
           /\ ckpt'[s].count <= skip \/ ckpt'[s].count < at'
           /\ mem[s].count <= skip \/ mem[s].count < at'
                \/ (mem[s].count = at' /\ CountedNow')
  BY ScriptFrame DEF CountInv
<1>1. /\ Up /\ at \in Nat /\ NumGroups \in Nat /\ skip \in Nat
      /\ mem[s].count \in Nat /\ ckpt[s].count \in Nat
      /\ at' = at \/ at' = at + 1
  <2>1. ckpt \in [Stores -> Store] /\ mem \in [Stores -> Store] /\ skip \in Nat
    BY TypeParts DEF IInv, MemType, DiskType, LoopType
  <2>2. NumGroups \in Nat
    BY GroupFacts, TypeParts, TasksAssumption DEF IInv, DiskType
  <2> QED
    BY <2>1, <2>2, ScriptFrame DEF Store
<1>2. /\ \A g \in 1..NumGroups : g <= ckpt[s].count => Done(g)
      /\ ckpt[s].count <= skip \/ ckpt[s].count < at
      /\ mem[s].count <= skip \/ mem[s].count < at \/ (mem[s].count = at /\ CountedNow)
  BY <1>1 DEF CountInv
<1>3. CASE WriteCheckpoint
  <2>1. at' = at + 1
    BY <1>3 DEF WriteCheckpoint, AfterGroup
  <2>2. ckpt'[s].count = mem[s].count \/ ckpt'[s].count = ckpt[s].count
    BY <1>3, WriteFacts
  <2>3. \A g \in 1..NumGroups : g <= mem[s].count => Done(g)
    <3> SUFFICES ASSUME NEW g \in 1..NumGroups, g <= mem[s].count PROVE Done(g)
      OBVIOUS
    <3>1. g <= skip \/ g < at \/ g = at
      BY <1>1, <1>2
    <3>2. Done(at)
      BY <1>3, WriteFacts
    <3>3. g <= skip \/ g < at => Done(g)
      BY <1>1 DEF SkipInv, Running, Skipped
    <3> QED
      BY <3>1, <3>2, <3>3
  <2> QED
    BY <1>1, <1>2, <2>1, <2>2, <2>3
<1>4. CASE ~WriteCheckpoint
  <2>1. ckpt' = ckpt
    BY <1>4, ScriptFrame
  <2>2. at' = at /\ CountedNow => CountedNow'
    BY <1>1, <1>4 DEF CountedNow, ScriptStep, SkipGroup, Evaluate, EndExperiment, ReportTask,
                ReportGroup, OpenCheckpoint, ReportResult, EndGroup, AfterGroup
  <2> QED
    BY <1>1, <1>2, <2>1, <2>2
<1> QED
  BY <1>3, <1>4

------------------------------------------------------------------------------
(* The end of a process, and its beginning.                                 *)

LEMMA FilesFrame ==
  ASSUME UNCHANGED <<mode, file, leftOut>>
  PROVE  /\ NumGroups' = NumGroups /\ Interleaved' = Interleaved
         /\ \A g : Group(g)' = Group(g)
         /\ \A g : (Done(g)' <=> Done(g)) /\ (Complete(g)' <=> Complete(g))
<1>1. NumGroups' = NumGroups /\ Interleaved' = Interleaved /\ \A g : Group(g)' = Group(g)
  BY Frame
<1> QED
  BY <1>1 DEF Done, Complete

\* The process is not there afterwards.
DownStep == NoResults \/ Crash \/ (Launch /\ torn # {})

LEMMA DownInv ==
  ASSUME IInv, DownStep
  PROVE  /\ PlanInv' /\ StoreInv' /\ DoneInv' /\ LineInv' /\ SkipInv'
         /\ Exact' /\ CountInv => CountInv'
<1> USE DEF DownStep, NoResults, Crash, Launch
<1>1. /\ UNCHANGED <<mode, file, leftOut, ckpt, metrics>>
      /\ pc' = "stuck" \/ (pc' = "down" /\ at' = 1)
  BY DEF disk, session, world, Forget
<1>2. ~Up' /\ ~Running' /\ ~Evaluating' /\ ~Reporting'
  BY <1>1 DEF Up, Running, Evaluating, Reporting
<1>3. PlanInv' /\ DoneInv' /\ SkipInv'
  BY <1>1, <1>2 DEF PlanInv, DoneInv, SkipInv
<1>4. StoreInv'
  BY <1>1, <1>2 DEF IInv, StoreInv, Counted
<1>5. LineInv'
  <2>1. Saved' = Saved /\ \A g : Full(g)' = Full(g) /\ LinesOf(g, metrics)' = LinesOf(g, metrics)
    BY <1>1, FullFrame DEF Saved
  <2> QED
    BY <1>1, <1>2, <2>1, FilesFrame DEF IInv, LineInv
<1>6. CountInv => CountInv'
  BY <1>1, <1>2, FilesFrame DEF CountInv
<1> QED
  BY <1>3, <1>4, <1>5, <1>6

Begin == Launch /\ torn = {}

\* The lines that are kept are lines that were there.
LEMMA KeptFacts ==
  ASSUME IInv
  PROVE  /\ Kept \in Seq(Entry)
         /\ \A g : /\ LinesOf(g, Kept) \in Nat /\ LinesOf(g, metrics) \in Nat
                   /\ LinesOf(g, Kept) <= LinesOf(g, metrics)
<1>1. metrics \in Seq(Entry) /\ Restored \in Nat
  BY TypeParts, RestoredFacts DEF IInv, DiskType, StoreInv
<1>2. CASE Kept = metrics
  <2>1. \A g : LinesOf(g, metrics) \in Nat
    BY <1>1, LinesType
  <2> QED
    BY <1>1, <1>2, <2>1
<1>3. CASE Kept # metrics
  <2>1. Kept = SubSeq(metrics, 1, Restored) /\ Restored <= Len(metrics)
    BY <1>1, <1>3 DEF Kept
  <2>2. Kept \in Seq(Entry)
    BY <1>1, <2>1
  <2>3. \A g : LinesOf(g, Kept) \in Nat /\ LinesOf(g, metrics) \in Nat
    BY <1>1, <2>2, LinesType
  <2>4. \A g : LinesOf(g, Kept) <= LinesOf(g, metrics)
    BY <1>1, <2>1, LinesOfPrefix
  <2> QED
    BY <2>2, <2>3, <2>4
<1> QED
  BY <1>2, <1>3

LEMMA BeginFrame ==
  ASSUME IInv, Begin
  PROVE  /\ UNCHANGED <<mode, file, leftOut, ckpt, at, transients>>
         /\ mem' = ckpt /\ skip' = Restored /\ metrics' = Kept
         /\ finished' = Completed(Kept) /\ pc = "down" /\ pc' = "group" /\ at = 1
         /\ ~Evaluating' /\ ~Reporting' /\ Up' /\ Saved' = Saved
BY DEF Begin, Launch, session, world, IInv, PlanInv, Up, Evaluating, Reporting, Saved

LEMMA BeginLines ==
  ASSUME IInv, Begin
  PROVE  LineInv'
<1> SUFFICES ASSUME ~Interleaved PROVE LineInv'
  BY BeginFrame, FilesFrame DEF LineInv
<1>1. /\ Saved => \A g \in 1..NumGroups : Full(g) => Done(g)
      /\ ~Saved => \A g \in 1..NumGroups : LinesOf(g, metrics) > 0 => Complete(g)
  BY DEF IInv, LineInv
<1>2. /\ \A g : LinesOf(g, metrics)' = LinesOf(g, Kept)
      /\ \A g : Full(g)' = (LinesOf(g, Kept) >= Cardinality(Group(g)))
  BY BeginFrame, FilesFrame DEF LinesOf, Full
<1>3. mode \in Modes /\ ckpt \in [Stores -> Store] /\ (Restored > 0 <=> Saved) /\ Restored \in Nat
  BY TypeParts, RestoredFacts DEF IInv, DiskType, StoreInv
<1>4. \A g : /\ Cardinality(Group(g)) \in Nat
             /\ LinesOf(g, Kept) \in Nat /\ LinesOf(g, metrics) \in Nat
             /\ LinesOf(g, Kept) <= LinesOf(g, metrics)
  BY <1>3, GroupSize, KeptFacts
<1>5. Saved => \A g \in 1..NumGroups : Full(g)' => Done(g)
  BY <1>1, <1>2, <1>4 DEF Full
<1>6. ~Saved => \A g \in 1..NumGroups : LinesOf(g, Kept) > 0 => Complete(g)
  BY <1>1, <1>4
<1>7. \A g \in 1..NumGroups : Ahead(g)' /\ Full(g)' => Complete(g)
  <2> SUFFICES ASSUME NEW g \in 1..NumGroups, g \notin Completed(Kept), Full(g)'
      PROVE  Complete(g)
    BY BeginFrame DEF Ahead
  <2>1. Restored = 0
    BY <1>2 DEF Completed
  <2>2. ~Saved
    BY <1>3, <2>1
  <2>3. CASE LinesOf(g, Kept) > 0
    BY <1>6, <2>2, <2>3
  <2>4. CASE ~(LinesOf(g, Kept) > 0)
    <3>0. LinesOf(g, Kept) >= Cardinality(Group(g))
      BY <1>2
    <3>1. Cardinality(Group(g)) = 0
      BY <1>4, <2>4, <3>0
    <3> QED
      BY <1>3, <3>1, GroupSize, CompleteDone
  <2> QED
    BY <2>3, <2>4
<1> QED
  BY <1>2, <1>5, <1>6, <1>7, BeginFrame, FilesFrame DEF LineInv

\* The first group is the next: nothing was passed.
LEMMA BeginSkip ==
  ASSUME IInv, Begin, \A g \in 1..NumGroups : Skipped(g)' => Done(g)
  PROVE  SkipInv'
<1>1. at' = 1 /\ NumGroups' = NumGroups /\ \A g : Done(g)' <=> Done(g)
  BY BeginFrame, FilesFrame
<1>2. NumGroups \in Nat
  BY TypeParts, GroupFacts, TasksAssumption DEF IInv, DiskType
<1>3. \A g \in 1..NumGroups : ~(g < 1)
  BY <1>2
<1> QED
  BY <1>1, <1>3 DEF SkipInv

LEMMA BeginSkips ==
  ASSUME IInv, CountInv, Begin
  PROVE  SkipInv' /\ CountInv'
<1>1. /\ Restored \in Nat /\ (Restored > 0 <=> Saved)
      /\ \E s \in Stores : Restored = ckpt[s].count
      /\ \A s \in Stores : ckpt[s].count <= Restored
      /\ NumGroups \in Nat
  BY TypeParts, RestoredFacts, GroupFacts, TasksAssumption DEF IInv, DiskType, StoreInv
<1>2. CASE Interleaved
  <2>1. \A g \in 1..NumGroups : g <= Restored => Done(g)
    BY <1>1, <1>2 DEF CountInv
  <2>2. \A g : Skipped(g)' = (g <= Restored)
    BY <1>2, BeginFrame, FilesFrame DEF Skipped
  <2>3. SkipInv'
    BY <2>1, <2>2, BeginSkip
  <2>4. CountInv'
    BY <1>1, <1>2, <2>1, BeginFrame, FilesFrame DEF CountInv
  <2> QED
    BY <2>3, <2>4
<1>3. CASE ~Interleaved
  <2>1. \A g : Skipped(g)' = (g \in Completed(Kept))
    BY <1>3, BeginFrame, FilesFrame DEF Skipped
  <2>2. \A g \in Completed(Kept) : g \in 1..NumGroups /\ Saved
                                   /\ LinesOf(g, Kept) >= Cardinality(Group(g))
    BY <1>1, <1>3 DEF Completed
  <2>3. \A g \in Completed(Kept) : Full(g)
    <3>1. \A g : Cardinality(Group(g)) \in Nat
      BY GroupSize, TypeParts DEF IInv, DiskType
    <3> QED
      BY <2>2, <3>1, KeptFacts DEF Full
  <2>4. \A g \in Completed(Kept) : Done(g)
    BY <1>3, <2>2, <2>3 DEF IInv, LineInv
  <2>5. SkipInv'
    BY <2>1, <2>4, BeginSkip
  <2> QED
    BY <1>3, <2>5, BeginFrame, FilesFrame DEF CountInv
<1> QED
  BY <1>2, <1>3

------------------------------------------------------------------------------
(* The theorems.                                                            *)

LEMMA ExactBack ==
  ASSUME IInv, [Next]_vars, Exact'
  PROVE  Exact /\ ~(Interleaved /\ RaiseTransient)
<1>1. /\ transients \in Nat /\ (transients' = transients \/ transients' = transients + 1)
      /\ mode' = mode
  BY TypeParts, BoundsAssumption
     DEF IInv, WorldType, Next, Script, Launch, SkipGroup, Evaluate, EndExperiment,
         ListReused, RetryReuses, Start, Record, Close, Raise, RaiseTransient, Interrupt,
         ReportTask, ReportGroup, OpenCheckpoint, WriteCheckpoint, ReportResult, EndGroup,
         NoResults, Crash, Rest, vars, world
<1>2. RaiseTransient => transients' = transients + 1
  BY DEF RaiseTransient
<1>3. Interleaved' = Interleaved
  BY <1>1, Frame
<1> QED
  BY <1>1, <1>2, <1>3 DEF Exact

LEMMA SessionStep ==
  ASSUME IInv, [Next]_vars, NEW t \in Tasks, SessionMoves(t)
  PROVE  IInv'
<1>1. TypeOK'
  BY SessionStepType DEF SessionMoves
<1>2. PlanInv' /\ StoreInv' /\ DoneInv' /\ LineInv'
  BY SessionPlan, SessionStores, SessionDone, SessionLines
<1>3. Exact' => SkipInv' /\ CountInv'
  <2> SUFFICES ASSUME Exact' PROVE SkipInv' /\ CountInv'
    OBVIOUS
  <2>1. Exact /\ ~(Interleaved /\ RaiseTransient)
    BY ExactBack
  <2>2. SkipInv /\ CountInv
    BY <2>1 DEF IInv
  <2>3. SkipInv'
    BY <2>2, SessionSkips
  <2>4. CASE RaiseTransient
    <3>1. ~Interleaved'
      BY <2>1, <2>4, SessionFrame, Frame
    <3> QED
      BY <2>3, <3>1 DEF CountInv
  <2>5. CASE ~RaiseTransient
    BY <2>2, <2>3, <2>5, SessionCounts
  <2> QED
    BY <2>4, <2>5
<1> QED
  BY <1>1, <1>2, <1>3 DEF IInv

LEMMA Step == IInv /\ [Next]_vars => IInv'
<1> SUFFICES ASSUME IInv, [Next]_vars PROVE IInv'
  OBVIOUS
<1>1. CASE \E t \in Tasks : SessionMoves(t)
  BY <1>1, SessionStep
<1>2. CASE ScriptStep
  <2>1. TypeOK' /\ PlanInv' /\ StoreInv' /\ DoneInv' /\ LineInv'
    BY <1>2, ScriptStepType, ScriptPlan, ScriptStores, ScriptDone, ScriptLines
  <2>2. Exact' => SkipInv' /\ CountInv'
    BY <1>2, ExactBack, ScriptSkips, ScriptCounts DEF IInv
  <2> QED
    BY <2>1, <2>2 DEF IInv
<1>3. CASE DownStep
  <2>1. TypeOK'
    BY <1>3, ProcessStepType DEF DownStep
  <2>2. PlanInv' /\ StoreInv' /\ DoneInv' /\ LineInv' /\ SkipInv'
        /\ (Exact' => CountInv')
    BY <1>3, ExactBack, DownInv DEF IInv
  <2> QED
    BY <2>1, <2>2 DEF IInv
<1>4. CASE Begin
  <2>1. TypeOK' /\ LineInv'
    BY <1>4, ProcessStepType, BeginLines DEF Begin
  <2>2. PlanInv' /\ DoneInv'
    BY <1>4, BeginFrame DEF PlanInv, DoneInv, Evaluating, Reporting
  <2>3. StoreInv'
    <3>1. \A s \in Stores : ckpt[s].count <= ckpt[s].count
      <4>1. ckpt \in [Stores -> Store]
        BY TypeParts DEF IInv, DiskType
      <4> QED
        BY <4>1 DEF Store
    <3> QED
      BY <1>4, <3>1, BeginFrame DEF IInv, StoreInv, Counted
  <2>4. Exact' => SkipInv' /\ CountInv'
    BY <1>4, ExactBack, BeginSkips DEF IInv
  <2> QED
    BY <2>1, <2>2, <2>3, <2>4 DEF IInv
<1>5. CASE UNCHANGED vars
  <2>1. UNCHANGED <<mode, ckpt, metrics, file, leftOut, mem, pc, skip, finished, at,
                    todo, reuse, results, noResults, transients>>
    BY <1>5 DEF vars, disk, session, loop, eval, world
  <2>2. /\ NumGroups' = NumGroups /\ Interleaved' = Interleaved /\ Here' = Here
        /\ \A g : Group(g)' = Group(g)
        /\ \A g : (Done(g)' <=> Done(g)) /\ (Complete(g)' <=> Complete(g))
        /\ \A g : Skipped(g)' = Skipped(g) /\ Full(g)' = Full(g) /\ Ahead(g)' = Ahead(g)
        /\ \A g : LinesOf(g, metrics)' = LinesOf(g, metrics)
        /\ Saved' = Saved
    BY <2>1, FilesFrame, FullFrame, Frame DEF Skipped, Ahead, Here, Saved
  <2>3. TypeOK'
    BY <1>5, ProcessStepType
  <2>4. PlanInv' /\ StoreInv' /\ DoneInv'
    BY <2>1, <2>2 DEF IInv, PlanInv, StoreInv, DoneInv, Counted, Evaluating, Reporting,
                      First, Up
  <2>5. LineInv' /\ (SkipInv => SkipInv') /\ (CountInv => CountInv')
    BY <2>1, <2>2 DEF IInv, LineInv, SkipInv, CountInv, CountedNow, Running, Up
  <2> QED
    BY <2>3, <2>4, <2>5, ExactBack DEF IInv
<1>6. 1 \in Tasks
  BY TasksAssumption DEF Tasks
<1> QED
  BY <1>1, <1>2, <1>3, <1>4, <1>5, <1>6
     DEF Next, Script, SessionMoves, ScriptStep, DownStep, Begin, Rest

\* Every reachable state has its type: groups, stores and counters stay in their
\* ranges through crashes, relaunches and interrupts.
THEOREM TypeCorrect == Spec => []TypeOK
<1>1. IInv => TypeOK
  BY DEF IInv
<1> QED
  BY <1>1, InitInv, Step, PTL DEF Spec

\* At the end of the experiment every task has a result in its session directory or
\* was left out by Ctrl-C, however many crashes and launches there were and whatever
\* they skipped: for every task order and division into benchmarks, as long as no
\* session of an interleaved experiment was retried.
THEOREM SkippedIsDone == Spec => []SkippedWorkIsDone
<1>1. IInv => SkippedWorkIsDone
  <2> SUFFICES ASSUME IInv, Exact, pc = "ended", NEW t \in Tasks
      PROVE  file[t] # "none" \/ t \in leftOut
    BY DEF SkippedWorkIsDone, EndedMeansEvaluated, Exact
  <2>1. at > NumGroups /\ at \in 1..NumGroups + 1 /\ mode \in Modes /\ SkipInv
    BY TypeParts DEF IInv, PlanInv, LoopType, DiskType
  <2>2. GroupOf(t) \in 1..NumGroups /\ t \in Group(GroupOf(t)) /\ NumGroups \in Nat
    BY <2>1, GroupFacts, TasksAssumption
  <2>3. GroupOf(t) < at
    BY <2>1, <2>2
  <2>4. Done(GroupOf(t))
    BY <2>1, <2>2, <2>3 DEF SkipInv, Running
  <2> QED
    BY <2>2, <2>4 DEF Done
<1> QED
  BY <1>1, InitInv, Step, PTL DEF Spec

------------------------------------------------------------------------------
(* Experiments that nobody interrupts and that retry nothing.               *)

Smooth == interrupts = 0 /\ transients = 0

\* The tasks of the groups before g are 1..Edge(g).
Edge(g) == Cardinality({t \in Tasks : GroupOf(t) < g})

\* A session that is recorded but not closed: its task has a result and is
\* still to be taken off.
Recording == IF pc = "recorded" THEN 1 ELSE 0

\* The last task an experiment launched once is through with, and the number
\* of its metrics lines.
Position == IF Evaluating \/ Reporting THEN Edge(at) + Len(results) - Recording
                                       ELSE Edge(at)
LinesNow == IF pc = "metrics" THEN Edge(at) + line - 1
            ELSE IF Interleaved /\ pc \in {"save", "write"} THEN Edge(at) + 1
            ELSE Edge(at)

Exactly(lines) == \A i \in DOMAIN lines : lines[i] = [label |-> i, of |-> i]

\* The tasks a+1 to n, in order.
FromTo(a, n) == [i \in 1..(n - a) |-> a + i]

\* The store of group g learns from the tasks after Low(g), up to High(g).
Low(g)  == IF mode = "isolated" THEN Edge(g) ELSE 0
High(g) == IF mode = "isolated" THEN Edge(g + 1) ELSE NumTasks
Taught(n) ==
  \A g \in 1..NumGroups :
    mem[StoreOf(g)].learned = FromTo(Low(g), IF n <= High(g) THEN n ELSE High(g))

\* What the first launch leaves on disk, whatever becomes of it.
FilesInv ==
  Smooth /\ launches <= 1 =>
    /\ Exactly(metrics)
    /\ Interleaved => \A s \in Stores : ckpt[s].count <= Len(metrics)
    /\ launches = 0 => /\ pc = "down" /\ metrics = <<>>
                       /\ \A s \in Stores : ckpt[s] = Fresh
                       /\ \A t \in Tasks : file[t] = "none"

\* The first launch goes through the tasks one after the other.
FirstInv ==
  Smooth /\ launches = 1 /\ Running =>
    /\ skip = 0 /\ finished = {}
    /\ Len(metrics) = LinesNow
    /\ \A t \in Tasks : GroupOf(t) > at \/ (GroupOf(t) = at /\ pc = "group")
                          => file[t] = "none"
    /\ Evaluating /\ ~noResults =>
         /\ reuse = {} /\ todo = (Position + 1)..Edge(at + 1)
         /\ \A t \in todo : file[t] = "none" \/ (pc = "recorded" /\ First(t, todo))
    /\ ~(Evaluating /\ noResults) =>
         /\ Taught(Position)
         /\ Evaluating \/ Reporting => \A i \in DOMAIN results : results[i] = Edge(at) + i

Lined(t) == \E i \in DOMAIN metrics : metrics[i].label = t

\* A first or second launch reports every task of a group, or skips a group
\* that is reported already.
ReportInv ==
  Smooth /\ launches \in 1..2 /\ Running =>
    /\ \A g \in 1..NumGroups : Skipped(g) \/ g < at => \A t \in Group(g) : Lined(t)
    /\ Evaluating /\ ~noResults =>
         Len(results) + Cardinality(todo) + Cardinality(reuse)
           = Cardinality(Group(at)) + Recording
    /\ Reporting => Len(results) = Cardinality(Group(at))
    /\ Evaluating \/ pc \in {"save", "write"} => line = 1
    /\ pc = "metrics" => line <= Len(results) + 1
    /\ Interleaved /\ pc \in {"save", "write"} => \A t \in Group(at) : Lined(t)
    /\ pc = "metrics" => \A t \in Group(at) : t < Edge(at) + line => Lined(t)

\* GroupOf does not decrease along the task order, so the tasks before a group
\* are the first ones, and those of the group follow.
LEMMA EdgeFacts ==
  ASSUME mode \in Modes, NEW g \in Int
  PROVE  /\ Edge(g) \in 0..NumTasks
         /\ \A t \in Tasks : t <= Edge(g) <=> GroupOf(t) < g
<1> DEFINE D == {t \in Tasks : GroupOf(t) < g}
           n == Cardinality(D)
<1>0. NumTasks \in Nat /\ Tasks = 1..NumTasks
  BY TasksAssumption DEF Tasks
<1>1. \A t, u \in Tasks : t <= u => GroupOf(t) <= GroupOf(u)
  BY <1>0, BlockAssumption DEF GroupOf
<1>2. \A t \in Tasks : GroupOf(t) \in Int
  BY <1>0, BlockAssumption DEF GroupOf
<1>3. IsFiniteSet(1..NumTasks) /\ Cardinality(1..NumTasks) = NumTasks
  BY <1>0, FS_Interval
<1>4. D \in SUBSET (1..NumTasks)
  BY <1>0
<1>5. IsFiniteSet(D) /\ n <= NumTasks /\ n \in Nat
  BY <1>3, <1>4, FS_Subset, FS_CardinalityType
<1>6. ASSUME NEW t \in D PROVE t <= n
  <2>1. 1..t \in SUBSET D
    BY <1>0, <1>1, <1>2
  <2>2. Cardinality(1..t) <= n
    BY <1>5, <2>1, FS_Subset
  <2>3. Cardinality(1..t) = t
    BY <1>0, FS_Interval
  <2> QED
    BY <2>2, <2>3
<1>7. D \in SUBSET (1..n)
  BY <1>0, <1>6
<1>8. IsFiniteSet(1..n) /\ Cardinality(1..n) = n
  BY <1>5, FS_Interval
<1>9. D = 1..n
  BY <1>7, <1>8, FS_Subset
<1>10. Edge(g) = n
  BY DEF Edge
<1>11. \A t \in Tasks : t \in D <=> t \in 1..n
  BY <1>9
<1> QED
  BY <1>0, <1>5, <1>10, <1>11

LEMMA GroupInterval ==
  ASSUME mode \in Modes, NEW g \in 1..NumGroups
  PROVE  /\ Edge(g) \in Nat /\ Edge(g + 1) \in Nat /\ Edge(g + 1) <= NumTasks
         /\ Edge(g) <= Edge(g + 1)
         /\ Group(g) = (Edge(g) + 1)..Edge(g + 1)
         /\ Cardinality(Group(g)) = Edge(g + 1) - Edge(g)
<1>0. NumTasks \in Nat /\ Tasks = 1..NumTasks /\ NumGroups \in 1..NumTasks /\ g \in Int
  BY TasksAssumption, GroupFacts DEF Tasks
<1>1. \A t \in Tasks : GroupOf(t) \in Int
  BY <1>0, BlockAssumption DEF GroupOf
<1>2. /\ Edge(g) \in 0..NumTasks /\ Edge(g + 1) \in 0..NumTasks
      /\ \A t \in Tasks : t <= Edge(g) <=> GroupOf(t) < g
      /\ \A t \in Tasks : t <= Edge(g + 1) <=> GroupOf(t) < g + 1
  BY <1>0, EdgeFacts
<1>3. \A t \in Tasks : t <= Edge(g) => t <= Edge(g + 1)
  BY <1>0, <1>1, <1>2
<1>4. Edge(g) <= Edge(g + 1)
  <2>1. CASE Edge(g) = 0
    BY <1>2, <2>1
  <2>2. CASE Edge(g) # 0
    <3>1. Edge(g) \in Tasks
      BY <1>0, <1>2, <2>2
    <3> QED
      BY <1>2, <1>3, <3>1
  <2> QED
    BY <2>1, <2>2
<1>5. Group(g) = (Edge(g) + 1)..Edge(g + 1)
  <2>1. \A t \in Tasks : GroupOf(t) = g <=> t > Edge(g) /\ t <= Edge(g + 1)
    BY <1>0, <1>1, <1>2
  <2>2. (Edge(g) + 1)..Edge(g + 1) \subseteq Tasks
    BY <1>0, <1>2
  <2>3. \A t : t \in Group(g) <=> t \in Tasks /\ GroupOf(t) = g
    BY DEF Group
  <2>4. \A t : t \in (Edge(g) + 1)..Edge(g + 1) <=> t \in Tasks /\ t > Edge(g) /\ t <= Edge(g + 1)
    BY <1>0, <1>2, <2>2
  <2> QED
    BY <2>1, <2>3, <2>4
<1>6. Cardinality((Edge(g) + 1)..Edge(g + 1)) = Edge(g + 1) - Edge(g)
  <2>1. Edge(g) + 1 \in Int /\ Edge(g + 1) \in Int
    BY <1>2
  <2>2. Cardinality((Edge(g) + 1)..Edge(g + 1))
          = IF Edge(g) + 1 > Edge(g + 1) THEN 0 ELSE Edge(g + 1) - (Edge(g) + 1) + 1
    BY <2>1, FS_Interval
  <2> QED
    BY <1>2, <1>4, <2>2
<1> QED
  BY <1>2, <1>4, <1>5, <1>6

LEMMA FirstAndLastEdge ==
  ASSUME mode \in Modes
  PROVE  Edge(1) = 0 /\ Edge(NumGroups + 1) = NumTasks
<1>0. NumTasks \in Nat /\ Tasks = 1..NumTasks /\ NumTasks >= 1 /\ NumGroups \in 1..NumTasks
  BY TasksAssumption, GroupFacts DEF Tasks
<1>1. \A t \in Tasks : GroupOf(t) \in 1..NumGroups
  BY GroupFacts
<1>2. Edge(1) \in 0..NumTasks /\ \A t \in Tasks : t <= Edge(1) <=> GroupOf(t) < 1
  BY EdgeFacts
<1>3. NumGroups + 1 \in Int
  BY <1>0
<1>4. /\ Edge(NumGroups + 1) \in 0..NumTasks
      /\ \A t \in Tasks : t <= Edge(NumGroups + 1) <=> GroupOf(t) < NumGroups + 1
  BY <1>3, EdgeFacts
<1>5. ~(1 <= Edge(1)) /\ NumTasks <= Edge(NumGroups + 1)
  BY <1>0, <1>1, <1>2, <1>4
<1> QED
  BY <1>0, <1>2, <1>4, <1>5

\* The n-th task of a group is the n-th after its edge.
LEMMA NthOfGroup ==
  ASSUME mode \in Modes, NEW g \in 1..NumGroups, NEW n \in Int, NEW t, Nth(t, n, Group(g))
  PROVE  t = Edge(g) + n
<1>1. /\ Edge(g) \in Nat /\ Edge(g + 1) \in Nat
      /\ Group(g) = (Edge(g) + 1)..Edge(g + 1)
  BY GroupInterval
<1>2. t \in (Edge(g) + 1)..Edge(g + 1) /\ Cardinality({u \in Group(g) : u < t}) = n - 1
  BY <1>1 DEF Nth
<1>3. {u \in Group(g) : u < t} = (Edge(g) + 1)..(t - 1)
  BY <1>1, <1>2
<1>4. Cardinality((Edge(g) + 1)..(t - 1))
        = IF Edge(g) + 1 > t - 1 THEN 0 ELSE (t - 1) - (Edge(g) + 1) + 1
  <2>1. Edge(g) + 1 \in Int /\ t - 1 \in Int
    BY <1>1, <1>2
  <2> QED
    BY <2>1, FS_Interval
<1>5. Cardinality((Edge(g) + 1)..(t - 1)) = n - 1
  BY <1>2, <1>3, Zenon
<1> QED
  BY <1>1, <1>2, <1>4, <1>5

LEMMA InOrderOfInterval ==
  ASSUME NEW a \in Nat, NEW c \in Nat, a <= c
  PROVE  InOrder((a + 1)..c) = FromTo(a, c)
<1> DEFINE S == (a + 1)..c
           Before(t) == {u \in S : u < t}
           at0(i) == CHOOSE t \in S : Cardinality(Before(t)) = i - 1
<1>1. Cardinality(S) = c - a
  <2>1. a + 1 \in Int /\ c \in Int
    OBVIOUS
  <2>2. Cardinality(S) = IF a + 1 > c THEN 0 ELSE c - (a + 1) + 1
    BY <2>1, FS_Interval
  <2> QED
    BY <2>2
<1>2. ASSUME NEW t \in S PROVE Cardinality(Before(t)) = t - 1 - a
  <2>1. Before(t) = (a + 1)..(t - 1)
    OBVIOUS
  <2>2. a + 1 \in Int /\ t - 1 \in Int
    OBVIOUS
  <2>3. Cardinality((a + 1)..(t - 1)) = IF a + 1 > t - 1 THEN 0 ELSE (t - 1) - (a + 1) + 1
    BY <2>2, FS_Interval
  <2>4. Cardinality(Before(t)) = Cardinality((a + 1)..(t - 1))
    BY <2>1, Zenon
  <2> QED
    BY <2>3, <2>4
<1>3. ASSUME NEW i \in 1..(c - a) PROVE at0(i) = a + i
  <2> HIDE DEF Before
  <2>1. a + i \in S /\ Cardinality(Before(a + i)) = i - 1
    BY <1>2
  <2>2. \A t \in S : Cardinality(Before(t)) = i - 1 => t = a + i
    BY <1>2
  <2> HIDE DEF S
  <2> QED
    BY ONLY <2>1, <2>2
<1>4. InOrder(S) = [i \in 1..Cardinality(S) |-> at0(i)]
  BY DEF InOrder
<1> HIDE DEF S, at0
<1>5. InOrder(S) = [i \in 1..(c - a) |-> a + i]
  BY <1>1, <1>3, <1>4
<1> QED
  BY <1>5 DEF FromTo, S

\* The edges and the places of the stores do not move while the mode stays.
LEMMA EdgeFrame ==
  ASSUME mode' = mode
  PROVE  \A g : Edge(g)' = Edge(g) /\ Low(g)' = Low(g) /\ High(g)' = High(g)
BY DEF Edge, GroupOf, Interleaved, Low, High

LEMMA EdgesGrow ==
  ASSUME mode \in Modes, NEW g \in Int, NEW h \in Int, g <= h
  PROVE  Edge(g) <= Edge(h)
<1>0. NumTasks \in Nat /\ Tasks = 1..NumTasks
  BY TasksAssumption DEF Tasks
<1>1. \A t \in Tasks : GroupOf(t) \in Int
  BY <1>0, BlockAssumption DEF GroupOf
<1>2. /\ Edge(g) \in 0..NumTasks /\ \A t \in Tasks : t <= Edge(g) <=> GroupOf(t) < g
      /\ Edge(h) \in 0..NumTasks /\ \A t \in Tasks : t <= Edge(h) <=> GroupOf(t) < h
  BY EdgeFacts
<1>3. CASE Edge(g) = 0
  BY <1>2, <1>3
<1>4. CASE Edge(g) # 0
  <2>1. Edge(g) \in Tasks
    BY <1>0, <1>2, <1>4
  <2>2. GroupOf(Edge(g)) < g
    BY <1>2, <2>1
  <2>3. GroupOf(Edge(g)) < h
    BY <1>1, <2>1, <2>2
  <2> QED
    BY <1>2, <2>1, <2>3
<1> QED
  BY <1>3, <1>4

\* An interleaved group is one task: its edge is the task before it.
LEMMA EdgeOfTask ==
  ASSUME mode \in Modes, Interleaved, NEW g \in 1..NumGroups
  PROVE  Edge(g) = g - 1 /\ Edge(g + 1) = g /\ Group(g) = {g}
<1>0. NumTasks \in Nat /\ Tasks = 1..NumTasks /\ NumGroups \in 1..NumTasks /\ g \in Tasks
  BY TasksAssumption, GroupFacts DEF Tasks
<1>1. Group(g) = {g}
  BY <1>0 DEF Group, GroupOf
<1>2. /\ Edge(g) \in Nat /\ Edge(g + 1) \in Nat
      /\ Group(g) = (Edge(g) + 1)..Edge(g + 1)
  BY GroupInterval
<1>3. \A x \in Int : x \in (Edge(g) + 1)..Edge(g + 1) <=> x = g
  BY <1>1, <1>2
<1>4. g \in Int /\ g >= Edge(g) + 1 /\ g <= Edge(g + 1)
  BY <1>0, <1>2, <1>3
<1>5. Edge(g) + 1 = g
  BY <1>2, <1>3, <1>4
<1>6. Edge(g + 1) = g
  BY <1>2, <1>3, <1>4
<1> QED
  BY <1>1, <1>2, <1>5, <1>6

\* Only Ctrl-C and retries end a smooth experiment, and only a launch counts.
LEMMA SmoothBack ==
  ASSUME IInv, [Next]_vars, Smooth'
  PROVE  /\ Smooth /\ ~RaiseTransient /\ \A t \in Tasks : ~Interrupt(t)
         /\ Launch \/ launches' = launches
<1>1. interrupts \in Nat /\ transients \in Nat
  BY TypeParts, BoundsAssumption DEF IInv, WorldType
<1>2. CASE RaiseTransient
  BY <1>1, <1>2 DEF RaiseTransient, Smooth
<1>3. CASE \E t \in Tasks : Interrupt(t)
  BY <1>1, <1>3 DEF Interrupt, Smooth
<1>4. CASE ~RaiseTransient /\ ~\E t \in Tasks : Interrupt(t)
  <2>1. UNCHANGED <<interrupts, transients>> /\ (Launch \/ launches' = launches)
    BY <1>4 DEF Next, Script, Launch, SkipGroup, Evaluate, EndExperiment,
         ListReused, RetryReuses, Start, Record, Close, Raise,
         ReportTask, ReportGroup, OpenCheckpoint, WriteCheckpoint, ReportResult, EndGroup,
         NoResults, Crash, Rest, vars, world
  <2> QED
    BY <1>4, <2>1 DEF Smooth
<1> QED
  BY <1>2, <1>3, <1>4

\* A session step of a smooth experiment.
SmoothMoves(t) ==
  ListReused(t) \/ RetryReuses(t) \/ Start(t) \/ Record(t) \/ Close(t) \/ Raise(t)

LEMMA FiniteSubset ==
  ASSUME NEW S \in SUBSET Tasks
  PROVE  IsFiniteSet(S) /\ Cardinality(S) \in Nat
<1>1. IsFiniteSet(Tasks)
  BY TasksAssumption, FS_Interval DEF Tasks
<1>2. IsFiniteSet(S)
  BY <1>1, FS_Subset
<1> QED
  BY <1>2, FS_CardinalityType

LEMMA TakenOff ==
  ASSUME NEW S \in SUBSET Tasks, NEW t \in S
  PROVE  Cardinality(S \ {t}) = Cardinality(S) - 1
BY FiniteSubset, FS_RemoveElement

\* What is listed, executed and waiting adds up to the group.
LEMMA SessionReports ==
  ASSUME IInv, ReportInv, NEW t \in Tasks, SmoothMoves(t), launches' = launches, Smooth
  PROVE  ReportInv'
<1> SUFFICES ASSUME launches \in 1..2 PROVE ReportInv'
  BY DEF ReportInv
<1>0. SessionMoves(t)
  BY DEF SmoothMoves, SessionMoves
<1>1. UNCHANGED <<mode, metrics, skip, finished, at>> /\ Evaluating /\ Evaluating' /\ Up
  BY <1>0, SessionFrame
<1>2. /\ NumGroups' = NumGroups /\ \A g : Group(g)' = Group(g) /\ Skipped(g)' = Skipped(g)
      /\ \A u : Lined(u)' = Lined(u)
  BY <1>1, Frame DEF Skipped, Lined
<1>3. /\ \A g \in 1..NumGroups : Skipped(g) \/ g < at => \A u \in Group(g) : Lined(u)
      /\ ~noResults => Len(results) + Cardinality(todo) + Cardinality(reuse)
                         = Cardinality(Group(at)) + Recording
      /\ line = 1
  BY <1>1 DEF ReportInv, Running
<1>4. /\ todo \in SUBSET Tasks /\ reuse \in SUBSET Tasks /\ results \in Seq(Tasks)
      /\ Group(at) \in SUBSET Tasks
      /\ noResults \in BOOLEAN
  BY TypeParts DEF IInv, EvalType, Group
<1>5. /\ Cardinality(todo) \in Nat /\ Cardinality(reuse) \in Nat
      /\ Cardinality(Group(at)) \in Nat /\ Len(results) \in Nat
      /\ Len(Append(results, t)) = Len(results) + 1
  BY <1>4, FiniteSubset
<1>6. ~noResults' => Len(results') + Cardinality(todo') + Cardinality(reuse')
                         = Cardinality(Group(at)) + Recording'
  <2>1. CASE ListReused(t)
    <3>1. /\ t \in reuse /\ reuse' = reuse \ {t} /\ results' = Append(results, t)
          /\ UNCHANGED <<todo, noResults, pc>>
      BY <2>1 DEF ListReused, First
    <3>2. Cardinality(reuse') = Cardinality(reuse) - 1
      BY <3>1, <1>4, TakenOff
    <3>3. Recording' = Recording
      BY <3>1 DEF Recording
    <3> QED
      BY <1>3, <1>5, <3>1, <3>2, <3>3 DEF Recording
  <2>2. CASE RetryReuses(t)
    <3>1. /\ t \in todo /\ todo' = todo \ {t} /\ results' = Append(results, t)
          /\ UNCHANGED <<reuse, noResults, pc>>
      BY <2>2 DEF RetryReuses, Due, First
    <3>2. Cardinality(todo') = Cardinality(todo) - 1
      BY <3>1, <1>4, TakenOff
    <3>3. Recording' = Recording
      BY <3>1 DEF Recording
    <3> QED
      BY <1>3, <1>5, <3>1, <3>2, <3>3 DEF Recording
  <2>3. CASE Start(t)
    BY <2>3, <1>3 DEF Start, eval, Recording
  <2>4. CASE Record(t)
    <3>1. /\ results' = Append(results, t) /\ Recording = 0 /\ Recording' = 1
          /\ UNCHANGED <<reuse, todo, noResults>>
      BY <2>4 DEF Record, Recording
    <3> QED
      BY <1>3, <1>5, <3>1
  <2>5. CASE Close(t)
    <3>1. /\ t \in todo /\ todo' = todo \ {t} /\ Recording = 1 /\ Recording' = 0
          /\ UNCHANGED <<results, reuse, noResults>>
      BY <2>5 DEF Close, Due, First, Recording
    <3>2. Cardinality(todo') = Cardinality(todo) - 1
      BY <3>1, <1>4, TakenOff
    <3> QED
      BY <1>3, <1>5, <3>1, <3>2
  <2>6. CASE Raise(t)
    BY <2>6 DEF Raise
  <2> QED
    BY <2>1, <2>2, <2>3, <2>4, <2>5, <2>6 DEF SmoothMoves
<1>7. line' = line
  BY DEF SmoothMoves, ListReused, RetryReuses, Start, Record, Close, Raise
<1>8. ~Reporting' /\ pc' \notin {"save", "write", "metrics"}
  BY <1>1 DEF Evaluating, Reporting
<1>9. \A g \in 1..NumGroups' : Skipped(g)' \/ g < at' => \A u \in Group(g)' : Lined(u)'
  BY <1>1, <1>2, <1>3
<1>10. Group(at)' = Group(at)
  BY <1>1, <1>2
<1> QED
  BY <1>3, <1>6, <1>7, <1>8, <1>9, <1>10 DEF ReportInv

LEMMA AppendLine ==
  ASSUME NEW q \in Seq(Entry), NEW e \in Entry
  PROVE  /\ Len(q) \in Nat /\ Len(Append(q, e)) = Len(q) + 1
         /\ DOMAIN q = 1..Len(q) /\ DOMAIN Append(q, e) = 1..(Len(q) + 1)
         /\ \A i \in 1..Len(q) : Append(q, e)[i] = q[i]
         /\ Append(q, e)[Len(q) + 1] = e
OBVIOUS

\* A line is added at the end, so what has a line keeps it.
LEMMA ScriptLined ==
  ASSUME IInv, ScriptStep
  PROVE  \A t : Lined(t) => Lined(t)'
<1>1. metrics \in Seq(Entry)
  BY TypeParts DEF IInv, DiskType
<1>2. CASE ReportTask \/ ReportResult
  <2>1. PICK e \in Entry : metrics' = Append(metrics, e)
    BY <1>2, LineType
  <2>2. \A i \in DOMAIN metrics : i \in DOMAIN metrics' /\ metrics'[i] = metrics[i]
    BY <1>1, <2>1, AppendLine
  <2> QED
    BY <2>2 DEF Lined
<1>3. CASE ~(ReportTask \/ ReportResult)
  <2>1. metrics' = metrics
    BY <1>3 DEF ScriptStep, SkipGroup, Evaluate, EndExperiment, ReportGroup,
                OpenCheckpoint, WriteCheckpoint, EndGroup, disk
  <2> QED
    BY <2>1 DEF Lined
<1> QED
  BY <1>2, <1>3

\* An interleaved task is reported under its own name, and with its own result.
LEMMA TaskLine ==
  ASSUME IInv, ReportTask
  PROVE  /\ metrics' = Append(metrics, [label |-> at, of |-> at])
         /\ [label |-> at, of |-> at] \in Entry
         /\ at \in 1..NumGroups /\ Group(at) = {at}
<1>1. /\ Evaluating /\ Interleaved /\ results # <<>>
      /\ metrics' = Append(metrics, [label |-> at, of |-> results[1]])
  BY DEF ReportTask, Evaluated, Evaluating, Broken, Line
<1>2. /\ at \in 1..NumGroups /\ at \in Tasks /\ mode \in Modes /\ results \in Seq(Tasks)
      /\ \A i \in DOMAIN results : results[i] \in Group(at)
  BY <1>1, HereType, TypeParts DEF IInv, PlanInv, DiskType, EvalType
<1>3. Group(at) = {at}
  BY <1>1, <1>2, EdgeOfTask
<1>4. results[1] \in Group(at)
  BY <1>1, <1>2
<1> QED
  BY <1>1, <1>2, <1>3, <1>4 DEF Entry

\* A result within the group is reported under the name of the next task of it.
LEMMA NextLine ==
  ASSUME IInv, ReportResult, Len(results) = Cardinality(Group(at))
  PROVE  /\ metrics' = Append(metrics, [label |-> Edge(at) + line, of |-> results[line]])
         /\ [label |-> Edge(at) + line, of |-> results[line]] \in Entry
         /\ at \in 1..NumGroups /\ line \in 1..Len(results) /\ Edge(at) + line \in Group(at)
<1>1. /\ Reporting /\ line \in 1..Len(results) /\ results \in Seq(Tasks) /\ mode \in Modes
  BY TypeParts DEF IInv, DiskType, EvalType, WorldType, ReportResult, Reporting
<1>2. at \in 1..NumGroups
  BY <1>1 DEF IInv, PlanInv
<1>3. PICK label \in Tasks :
        /\ Nth(label, line, Group(at))
        /\ metrics' = Append(metrics, [label |-> label, of |-> results[line]])
  BY <1>1 DEF ReportResult, Line
<1>4. label = Edge(at) + line /\ label \in Group(at)
  BY <1>1, <1>2, <1>3, NthOfGroup DEF Nth
<1>5. results[line] \in Tasks
  BY <1>1
<1> QED
  BY <1>1, <1>2, <1>3, <1>4, <1>5 DEF Entry

\* An evaluation that did not break has a result for every task of its group.
LEMMA AllReported ==
  ASSUME IInv, ReportInv, Evaluated, ~Broken, Smooth, launches \in 1..2
  PROVE  Len(results) = Cardinality(Group(at)) /\ line = 1
<1>1. Evaluating /\ Running /\ pc = "task" /\ ~noResults /\ todo = {} /\ reuse = {}
  BY DEF Evaluated, Evaluating, Running, Up, Broken
<1>2. Cardinality(todo) = 0 /\ Cardinality(reuse) = 0 /\ Recording = 0
  BY <1>1, FS_EmptySet DEF Recording
<1>3. Len(results) + Cardinality(todo) + Cardinality(reuse)
        = Cardinality(Group(at)) + Recording /\ line = 1
  BY <1>1 DEF ReportInv
<1>4. Len(results) \in Nat /\ Cardinality(Group(at)) \in Nat
  BY TypeParts, GroupSize DEF IInv, EvalType, DiskType
<1> QED
  BY <1>2, <1>3, <1>4

LEMMA ScriptReports ==
  ASSUME IInv, ReportInv, ScriptStep, Smooth
  PROVE  ReportInv'
<1>1. /\ UNCHANGED <<mode, file, mem, skip, finished, launches>> /\ NumGroups' = NumGroups
      /\ \A g : Group(g)' = Group(g) /\ Skipped(g)' = Skipped(g)
      /\ Up /\ at \in Nat /\ at >= 1 /\ mode \in Modes
      /\ at' = at \/ (at' = at + 1 /\ pc' = "group")
  BY ScriptFrame, TypeParts
     DEF IInv, DiskType, ScriptStep, SkipGroup, Evaluate, EndExperiment, ReportTask, ReportGroup,
         OpenCheckpoint, WriteCheckpoint, ReportResult, EndGroup, world
<1> SUFFICES ASSUME launches \in 1..2 PROVE ReportInv'
  BY <1>1 DEF ReportInv
<1>2. Running
  BY <1>1 DEF Running
<1>3. /\ \A g \in 1..NumGroups : Skipped(g) \/ g < at => \A t \in Group(g) : Lined(t)
      /\ Evaluating /\ ~noResults =>
           Len(results) + Cardinality(todo) + Cardinality(reuse)
             = Cardinality(Group(at)) + Recording
      /\ Reporting => Len(results) = Cardinality(Group(at))
      /\ Evaluating \/ pc \in {"save", "write"} => line = 1
      /\ pc = "metrics" => line <= Len(results) + 1
      /\ Interleaved /\ pc \in {"save", "write"} => \A t \in Group(at) : Lined(t)
      /\ pc = "metrics" => \A t \in Group(at) : t < Edge(at) + line => Lined(t)
  BY <1>2 DEF ReportInv
<1>4. \A t : Lined(t) => Lined(t)'
  BY ScriptLined
<1>5. ReportTask => \A t \in Group(at) : Lined(t)'
  <2> SUFFICES ASSUME ReportTask PROVE \A t \in Group(at) : Lined(t)'
    OBVIOUS
  <2>1. /\ metrics' = Append(metrics, [label |-> at, of |-> at])
        /\ [label |-> at, of |-> at] \in Entry /\ Group(at) = {at} /\ metrics \in Seq(Entry)
    BY TaskLine, TypeParts DEF IInv, DiskType
  <2>2. Len(metrics) + 1 \in DOMAIN metrics' /\ metrics'[Len(metrics) + 1].label = at
    BY <2>1, AppendLine
  <2> QED
    BY <2>1, <2>2 DEF Lined
<1>6. at' # at => \A t \in Group(at) : Lined(t)'
  <2> SUFFICES ASSUME at' # at PROVE \A t \in Group(at) : Lined(t)'
    OBVIOUS
  <2>1. SkipGroup \/ ReportTask \/ (WriteCheckpoint /\ Interleaved) \/ EndGroup
    BY DEF ScriptStep, SkipGroup, Evaluate, EndExperiment, ReportGroup, OpenCheckpoint,
           WriteCheckpoint, ReportResult, loop
  <2>2. CASE SkipGroup
    <3>1. at \in 1..NumGroups /\ Skipped(at)
      BY <1>1, <2>2, GroupFacts DEF SkipGroup
    <3> QED
      BY <1>3, <1>4, <3>1
  <2>3. CASE WriteCheckpoint /\ Interleaved
    BY <1>3, <1>4, <2>3 DEF WriteCheckpoint
  <2>4. CASE EndGroup
    <3>1. /\ pc = "metrics" /\ Reporting /\ line > Len(results)
          /\ Len(results) = Cardinality(Group(at))
      BY <1>3, <2>4 DEF EndGroup, Reporting
    <3>2. at \in 1..NumGroups /\ line \in Nat /\ results \in Seq(Tasks)
      BY <3>1, TypeParts DEF IInv, PlanInv, WorldType, EvalType
    <3>3. /\ Edge(at) \in Nat /\ Edge(at + 1) \in Nat /\ Group(at) = (Edge(at) + 1)..Edge(at + 1)
          /\ Cardinality(Group(at)) = Edge(at + 1) - Edge(at)
      BY <1>1, <3>2, GroupInterval
    <3>4. Edge(at) + line > Edge(at + 1)
      BY <3>1, <3>2, <3>3
    <3>5. \A t \in Group(at) : t < Edge(at) + line
      BY <3>2, <3>3, <3>4
    <3> QED
      BY <1>3, <1>4, <3>1, <3>5
  <2> QED
    BY <1>5, <2>1, <2>2, <2>3, <2>4
<1>7. \A g \in 1..NumGroups' : Skipped(g)' \/ g < at' => \A t \in Group(g)' : Lined(t)'
  <2> SUFFICES ASSUME NEW g \in 1..NumGroups, Skipped(g) \/ g < at', NEW t \in Group(g)
      PROVE  Lined(t)'
    BY <1>1
  <2>1. Skipped(g) \/ g < at \/ (g = at /\ at' # at)
    BY <1>1
  <2> QED
    BY <1>3, <1>4, <1>6, <2>1
<1>8. Evaluating' /\ ~noResults' =>
         Len(results') + Cardinality(todo') + Cardinality(reuse')
           = Cardinality(Group(at)') + Recording'
  <2> SUFFICES ASSUME Evaluating' PROVE Len(results') + Cardinality(todo') + Cardinality(reuse')
                                          = Cardinality(Group(at)') + Recording'
    OBVIOUS
  <2>1. Evaluate
    BY DEF ScriptStep, SkipGroup, EndExperiment, ReportTask, ReportGroup,
           OpenCheckpoint, WriteCheckpoint, ReportResult, EndGroup, Evaluating
  <2>2. /\ results' = <<>> /\ reuse' \in SUBSET Group(at) /\ todo' = Group(at) \ reuse'
        /\ pc' = "task" /\ at' = at
    BY <2>1 DEF Evaluate, loop
  <2>3. Group(at) \in SUBSET Tasks /\ IsFiniteSet(Group(at)) /\ Cardinality(Group(at)) \in Nat
    BY FiniteSubset DEF Group
  <2>4. reuse' \in SUBSET Tasks /\ Cardinality(reuse') \in Nat
    BY <2>2, <2>3, FiniteSubset
  <2>5. Group(at) \cap reuse' = reuse'
    BY <2>2
  <2>6. Cardinality(Group(at) \ reuse') = Cardinality(Group(at)) - Cardinality(Group(at) \cap reuse')
    BY <2>3, FS_Difference
  <2>7. Cardinality(todo') = Cardinality(Group(at)) - Cardinality(reuse')
    BY <2>2, <2>5, <2>6
  <2>8. Recording' = 0 /\ Len(results') = 0 /\ Cardinality(Group(at)') = Cardinality(Group(at))
    BY <1>1, <2>2 DEF Recording
  <2> QED
    BY <2>3, <2>4, <2>7, <2>8
<1>9. Reporting' => /\ at' = at /\ results' = results
                    /\ Reporting \/ (Evaluated /\ ~Broken)
  BY DEF ScriptStep, SkipGroup, Evaluate, EndExperiment, ReportTask, ReportGroup,
         OpenCheckpoint, WriteCheckpoint, ReportResult, EndGroup, Reporting, eval, loop
<1>10. Reporting' => Len(results') = Cardinality(Group(at)')
  BY <1>1, <1>3, <1>9, AllReported
<1>11. Evaluating' \/ pc' \in {"save", "write"} => line' = 1
  <2>1. CASE Evaluate
    BY <2>1 DEF Evaluate
  <2>2. CASE ~Evaluate
    <3>1. Evaluating' \/ pc' \in {"save", "write"} => line' = line /\ (Evaluating \/ pc = "save")
      BY <2>2 DEF ScriptStep, SkipGroup, EndExperiment, ReportTask, ReportGroup,
             OpenCheckpoint, WriteCheckpoint, ReportResult, EndGroup, Evaluating, Evaluated
    <3> QED
      BY <1>3, <3>1
  <2> QED
    BY <2>1, <2>2
<1>12. results \in Seq(Tasks) /\ line \in Nat \ {0} /\ Len(results) \in Nat
  BY TypeParts DEF IInv, EvalType, WorldType
<1>13. pc' = "metrics" =>
         \/ ReportResult /\ line' = line + 1
         \/ line' = 1
  <2>1. pc' = "metrics" =>
          \/ ReportResult /\ line' = line + 1
          \/ line' = line /\ (pc = "write" \/ Evaluating)
    BY DEF ScriptStep, SkipGroup, Evaluate, EndExperiment, ReportTask, ReportGroup,
           OpenCheckpoint, WriteCheckpoint, ReportResult, EndGroup, Evaluated, Evaluating
  <2> QED
    BY <1>3, <2>1
<1>14. pc' = "metrics" => line' <= Len(results') + 1
  <2> SUFFICES ASSUME pc' = "metrics" PROVE line' <= Len(results') + 1
    OBVIOUS
  <2>1. results' = results
    BY <1>9 DEF Reporting
  <2>2. ReportResult => line <= Len(results)
    BY DEF ReportResult
  <2> QED
    BY <1>12, <1>13, <2>1, <2>2
<1>15. Interleaved' /\ pc' \in {"save", "write"} => \A t \in Group(at)' : Lined(t)'
  <2> SUFFICES ASSUME Interleaved', pc' \in {"save", "write"}, NEW t \in Group(at)'
      PROVE  Lined(t)'
    OBVIOUS
  <2>1. Interleaved /\ at' = at /\ t \in Group(at)
    BY <1>1, <1>9 DEF Interleaved, Reporting
  <2>2. ReportTask \/ pc = "save"
    BY <2>1 DEF ScriptStep, SkipGroup, Evaluate, EndExperiment, ReportGroup,
         OpenCheckpoint, WriteCheckpoint, ReportResult, EndGroup
  <2> QED
    BY <1>3, <1>4, <1>5, <2>1, <2>2
<1>16. pc' = "metrics" => \A t \in Group(at)' : t < (Edge(at) + line)' => Lined(t)'
  <2> SUFFICES ASSUME pc' = "metrics", NEW t \in Group(at), t < Edge(at) + line'
      PROVE  Lined(t)'
    BY <1>1, <1>9, EdgeFrame DEF Reporting
  <2>1. Reporting \/ Evaluating
    BY <1>9 DEF Reporting, Evaluated, Evaluating
  <2>2. at \in 1..NumGroups
    BY <2>1 DEF IInv, PlanInv
  <2>3. /\ Edge(at) \in Nat /\ Edge(at + 1) \in Nat /\ Group(at) = (Edge(at) + 1)..Edge(at + 1)
    BY <1>1, <2>2, GroupInterval
  <2>4. CASE line' = 1
    BY <2>3, <2>4
  <2>5. CASE ReportResult /\ line' = line + 1
    <3>1. pc = "metrics" /\ Len(results) = Cardinality(Group(at))
      BY <1>3, <2>5 DEF ReportResult, Reporting
    <3>2. CASE t < Edge(at) + line
      BY <1>3, <1>4, <3>1, <3>2
    <3>3. CASE ~(t < Edge(at) + line)
      <4>1. t = Edge(at) + line
        BY <1>12, <2>3, <2>5, <3>3
      <4>2. /\ metrics' = Append(metrics, [label |-> t, of |-> results[line]])
            /\ [label |-> t, of |-> results[line]] \in Entry /\ metrics \in Seq(Entry)
        BY <2>5, <3>1, <4>1, NextLine, TypeParts DEF IInv, DiskType
      <4>3. Len(metrics) + 1 \in DOMAIN metrics' /\ metrics'[Len(metrics) + 1].label = t
        BY <4>2, AppendLine
      <4> QED
        BY <4>3 DEF Lined
    <3> QED
      BY <3>2, <3>3
  <2> QED
    BY <1>13, <2>4, <2>5
<1> QED
  BY ONLY <1>7, <1>8, <1>10, <1>11, <1>14, <1>15, <1>16 DEF ReportInv

------------------------------------------------------------------------------
(* The files of the first launch.                                           *)

LEMMA FirstLaunch ==
  ASSUME IInv, FilesInv, Smooth, Up, launches <= 1
  PROVE  launches = 1
<1>1. launches \in Nat /\ pc # "down"
  BY TypeParts DEF IInv, WorldType, Up
<1> QED
  BY <1>1 DEF FilesInv

LEMMA SessionFiles ==
  ASSUME IInv, FilesInv, NEW t \in Tasks, SmoothMoves(t), launches' = launches, Smooth
  PROVE  FilesInv'
<1> SUFFICES ASSUME launches <= 1 PROVE FilesInv'
  BY DEF FilesInv
<1>1. UNCHANGED <<mode, metrics, ckpt>> /\ Up
  BY SessionFrame DEF SmoothMoves, SessionMoves
<1>2. launches = 1
  BY <1>1, FirstLaunch
<1>3. Exactly(metrics)' /\ Interleaved' = Interleaved
  BY <1>1, <1>2, Frame DEF FilesInv, Exactly
<1> QED
  BY <1>1, <1>2, <1>3 DEF FilesInv

\* Numbered lines stay numbered when the next one follows.
LEMMA ExactlyNext ==
  ASSUME NEW q \in Seq(Entry), NEW n, n = Len(q) + 1, Exactly(q),
         [label |-> n, of |-> n] \in Entry
  PROVE  Exactly(Append(q, [label |-> n, of |-> n]))
BY AppendLine DEF Exactly

LEMMA ScriptFiles ==
  ASSUME IInv, FilesInv, FirstInv, ReportInv, ScriptStep, launches' = launches, Smooth
  PROVE  FilesInv'
<1> SUFFICES ASSUME launches <= 1 PROVE FilesInv'
  BY DEF FilesInv
<1>1. /\ mode' = mode /\ Interleaved' = Interleaved /\ Up /\ (WriteCheckpoint \/ UNCHANGED ckpt)
      /\ at \in Nat /\ at >= 1 /\ mode \in Modes /\ metrics \in Seq(Entry)
  BY ScriptFrame, TypeParts DEF IInv, DiskType
<1>2. launches = 1 /\ Running
  BY <1>1, FirstLaunch DEF Running
<1>3. Exactly(metrics) /\ (Interleaved => \A s \in Stores : ckpt[s].count <= Len(metrics))
  BY <1>2 DEF FilesInv
<1>4. /\ skip = 0 /\ Len(metrics) = LinesNow
      /\ Reporting /\ ~(Evaluating /\ noResults) =>
           \A i \in DOMAIN results : results[i] = Edge(at) + i
  BY <1>2 DEF FirstInv
<1>5. Exactly(metrics') /\ Len(metrics) <= Len(metrics')
  <2>1. CASE ReportTask
    <3>1. /\ metrics' = Append(metrics, [label |-> at, of |-> at])
          /\ [label |-> at, of |-> at] \in Entry /\ at \in 1..NumGroups
      BY <2>1, TaskLine
    <3>2. Interleaved /\ pc = "task"
      BY <2>1 DEF ReportTask, Evaluated
    <3>3. Len(metrics) = Edge(at) /\ Edge(at) = at - 1
      BY <1>1, <1>4, <3>1, <3>2, EdgeOfTask DEF LinesNow
    <3>4. at = Len(metrics) + 1
      BY <1>1, <3>3
    <3>5. Exactly(metrics')
      BY <1>1, <1>3, <3>1, <3>4, ExactlyNext
    <3> QED
      BY <1>1, <3>1, <3>5, AppendLine
  <2>2. CASE ReportResult
    <3>1. pc = "metrics" /\ Reporting /\ ~Evaluating
      BY <2>2 DEF ReportResult, Reporting, Evaluating
    <3>2. Len(results) = Cardinality(Group(at))
      BY <1>2, <3>1 DEF ReportInv
    <3>3. /\ metrics' = Append(metrics, [label |-> Edge(at) + line, of |-> results[line]])
          /\ [label |-> Edge(at) + line, of |-> results[line]] \in Entry
          /\ at \in 1..NumGroups /\ line \in 1..Len(results)
      BY <2>2, <3>2, NextLine
    <3>4. results[line] = Edge(at) + line /\ Len(metrics) = Edge(at) + line - 1
      BY <1>4, <3>1, <3>3 DEF LinesNow
    <3>5. Edge(at) \in Nat /\ line \in Nat
      BY <1>1, <3>3, GroupInterval
    <3>6. Edge(at) + line = Len(metrics) + 1
      BY <3>4, <3>5
    <3>7. Exactly(metrics')
      BY <1>1, <1>3, <3>3, <3>4, <3>6, ExactlyNext
    <3> QED
      BY <1>1, <3>3, <3>7, AppendLine
  <2>3. CASE ~ReportTask /\ ~ReportResult
    <3>1. metrics' = metrics
      BY <2>3 DEF ScriptStep, SkipGroup, Evaluate, EndExperiment, ReportGroup,
                  OpenCheckpoint, WriteCheckpoint, EndGroup, disk
    <3> QED
      BY <1>1, <1>3, <3>1
  <2> QED
    BY <2>1, <2>2, <2>3
<1>6. Interleaved => \A s \in Stores : ckpt'[s].count <= Len(metrics')
  <2> SUFFICES ASSUME Interleaved, NEW s \in Stores PROVE ckpt'[s].count <= Len(metrics')
    OBVIOUS
  <2>0. ckpt[s].count \in Nat /\ mem[s].count \in Nat /\ Len(metrics) \in Nat
        /\ Len(metrics') \in Nat
    <3>1. ckpt \in [Stores -> Store] /\ mem \in [Stores -> Store]
      BY TypeParts DEF IInv, DiskType, MemType
    <3>2. metrics' \in Seq(Entry)
      BY ScriptStepType, TypeParts DEF TypeOK, Entry
    <3> QED
      BY <1>1, <3>1, <3>2 DEF Store
  <2>1. CASE WriteCheckpoint
    <3>1. /\ pc = "write" /\ UNCHANGED metrics /\ at \in 1..NumGroups
          /\ ckpt'[s].count \in {mem[s].count, ckpt[s].count}
      BY <2>1, WriteFacts
    <3>2. Len(metrics) = Edge(at) + 1 /\ Edge(at) = at - 1
      BY <1>1, <1>4, <3>1, EdgeOfTask DEF LinesNow
    <3>3. mem[s].count <= skip \/ mem[s].count < at \/ mem[s].count = at
      BY <1>1 DEF IInv, CountInv, Exact, Smooth
    <3> QED
      BY <1>1, <1>3, <1>4, <2>0, <3>1, <3>2, <3>3
  <2>2. CASE ~WriteCheckpoint
    BY <1>1, <1>3, <1>5, <2>0, <2>2
  <2> QED
    BY <2>1, <2>2
<1> QED
  BY <1>1, <1>2, <1>5, <1>6 DEF FilesInv, Exactly

\* Nothing is restored at the first launch.
LEMMA FirstBegin ==
  ASSUME IInv, FilesInv, Begin, Smooth, launches = 0
  PROVE  /\ Restored = 0 /\ Kept = <<>> /\ Completed(Kept) = {}
         /\ \A s \in Stores : ckpt[s] = Fresh
         /\ \A t \in Tasks : file[t] = "none"
<1>1. metrics = <<>> /\ \A s \in Stores : ckpt[s] = Fresh
  BY DEF FilesInv
<1>2. \E s \in Stores : Restored = ckpt[s].count
  BY RestoredFacts, TypeParts DEF IInv, DiskType, StoreInv
<1>3. Restored = 0
  BY <1>1, <1>2 DEF Fresh
<1>4. \A t \in Tasks : file[t] = "none"
  BY DEF FilesInv
<1> QED
  BY <1>1, <1>3, <1>4 DEF Kept, Completed

LEMMA BeginFiles ==
  ASSUME IInv, FilesInv, Begin, Smooth
  PROVE  FilesInv'
<1> SUFFICES ASSUME launches' <= 1 PROVE FilesInv'
  BY DEF FilesInv
<1>1. launches' = launches + 1 /\ launches \in Nat
  BY TypeParts DEF Begin, Launch, IInv, WorldType
<1>2. launches = 0 /\ launches' # 0
  BY <1>1
<1>3. metrics' = <<>> /\ \A s \in Stores : ckpt'[s].count = 0
  BY <1>2, BeginFrame, FirstBegin DEF Fresh
<1> QED
  BY <1>2, <1>3 DEF FilesInv, Exactly

LEMMA DownFiles ==
  ASSUME IInv, FilesInv, DownStep, Smooth
  PROVE  FilesInv' /\ FirstInv' /\ ReportInv'
<1> USE DEF DownStep, NoResults, Crash, Launch
<1>1. /\ UNCHANGED <<mode, ckpt, metrics>> /\ Interleaved' = Interleaved
      /\ pc' = "stuck" \/ pc' = "down"
      /\ launches' = launches + 1 \/ (launches' = launches /\ Up)
      /\ launches \in Nat
  BY TypeParts, Frame DEF disk, session, world, Forget, Evaluated, Up, IInv, WorldType
<1>2. ~Running'
  BY <1>1 DEF Running, Up
<1>3. FilesInv'
  <2> SUFFICES ASSUME launches' <= 1 PROVE FilesInv'
    BY DEF FilesInv
  <2>1. launches <= 1 /\ launches' # 0
    BY <1>1, FirstLaunch
  <2>2. Exactly(metrics) /\ (Interleaved => \A s \in Stores : ckpt[s].count <= Len(metrics))
    BY <2>1 DEF FilesInv
  <2> QED
    BY <1>1, <2>1, <2>2 DEF FilesInv, Exactly
<1> QED
  BY <1>2, <1>3 DEF FirstInv, ReportInv

\* What the second launch skips has its lines: they are numbered and kept.
LEMMA BeginReports ==
  ASSUME IInv, FilesInv, Begin, Smooth
  PROVE  ReportInv'
<1> SUFFICES ASSUME launches' \in 1..2 PROVE ReportInv'
  BY DEF ReportInv
<1>1. launches' = launches + 1 /\ launches \in Nat
  BY TypeParts DEF Begin, Launch, IInv, WorldType
<1>2. launches <= 1
  BY <1>1
<1>3. Exactly(metrics) /\ (Interleaved => \A s \in Stores : ckpt[s].count <= Len(metrics))
  BY <1>2 DEF FilesInv
<1>4. /\ UNCHANGED mode /\ at' = 1 /\ pc' = "group" /\ ~Evaluating' /\ ~Reporting'
      /\ skip' = Restored /\ finished' = Completed(Kept) /\ metrics' = Kept
  BY BeginFrame
<1>5. /\ mode \in Modes /\ metrics \in Seq(Entry) /\ Kept \in Seq(Entry)
      /\ Restored \in Nat /\ \E s \in Stores : Restored = ckpt[s].count
      /\ NumGroups \in Nat
  BY TypeParts, KeptFacts, RestoredFacts, GroupFacts, TasksAssumption
     DEF IInv, DiskType, StoreInv
<1>6. /\ \A i \in DOMAIN Kept : i \in DOMAIN metrics /\ Kept[i] = metrics[i]
      /\ \A i \in 1..Restored : i <= Len(metrics) => i \in DOMAIN Kept
  BY <1>5 DEF Kept
<1>7. \A i \in DOMAIN Kept : Kept[i].label = i /\ i \in Tasks
  <2>1. \A i \in DOMAIN Kept : Kept[i] = [label |-> i, of |-> i] /\ Kept[i] \in Entry
    BY <1>3, <1>5, <1>6 DEF Exactly
  <2>2. \A i \in DOMAIN Kept : Kept[i].label = i /\ Kept[i].label \in Tasks
    BY <2>1 DEF Entry
  <2> QED
    BY <2>2
<1>8. \A g \in 1..NumGroups : Skipped(g)' => \A t \in Group(g) : t \in DOMAIN Kept
  <2> SUFFICES ASSUME NEW g \in 1..NumGroups, Skipped(g)', NEW t \in Group(g)
      PROVE  t \in DOMAIN Kept
    OBVIOUS
  <2>1. CASE Interleaved
    <3>1. g <= Restored /\ t = g
      BY <1>4, <2>1, Frame, OneTask DEF Skipped
    <3>2. Restored <= Len(metrics)
      BY <1>3, <1>5, <2>1
    <3> QED
      BY <1>5, <1>6, <3>1, <3>2
  <2>2. CASE ~Interleaved
    <3> DEFINE D == {i \in DOMAIN Kept : Block[Kept[i].label] = g}
    <3>1. g \in Completed(Kept)
      BY <1>4, <2>2, Frame DEF Skipped
    <3>2. LinesOf(g, Kept) >= Cardinality(Group(g))
      BY <2>2, <3>1 DEF Completed
    <3>3. D \in SUBSET Group(g)
      BY <1>7, <2>2 DEF Group, GroupOf
    <3>4. IsFiniteSet(Group(g)) /\ Cardinality(Group(g)) \in Nat
      BY FiniteSubset DEF Group
    <3>5. LinesOf(g, Kept) = Cardinality(D) /\ LinesOf(g, Kept) \in Nat
      BY <1>5, LinesType DEF LinesOf
    <3>6. D \subseteq DOMAIN Kept
      OBVIOUS
    <3> HIDE DEF D
    <3>7. Cardinality(D) <= Cardinality(Group(g))
      BY <3>3, <3>4, FS_Subset
    <3>8. Cardinality(D) = Cardinality(Group(g))
      BY <3>2, <3>4, <3>5, <3>7
    <3>9. D = Group(g)
      BY <3>3, <3>4, <3>8, FS_Subset
    <3> QED
      BY <3>6, <3>9
  <2> QED
    BY <2>1, <2>2
<1>9. \A g \in 1..NumGroups' : Skipped(g)' \/ g < at' => \A t \in Group(g)' : Lined(t)'
  <2>1. \A g \in 1..NumGroups : ~(g < 1)
    BY <1>5
  <2>2. \A t \in DOMAIN Kept : Lined(t)'
    BY <1>4, <1>7 DEF Lined
  <2> QED
    BY <1>4, <1>8, <2>1, <2>2, Frame
<1> QED
  BY <1>4, <1>9 DEF ReportInv, Evaluating, Reporting

------------------------------------------------------------------------------
(* The first launch goes from task to task.                                 *)

LEMMA FromToEmpty ==
  ASSUME NEW a \in Int, NEW n \in Int, n <= a
  PROVE  FromTo(a, n) = <<>>
<1>1. 1..(n - a) = {}
  OBVIOUS
<1> QED
  BY <1>1 DEF FromTo

LEMMA FromToNext ==
  ASSUME NEW a \in Nat, NEW n \in Nat, a <= n
  PROVE  Append(FromTo(a, n), n + 1) = FromTo(a, n + 1)
<1>1. FromTo(a, n) \in Seq(Nat) /\ Len(FromTo(a, n)) = n - a
  BY DEF FromTo
<1>2. (n + 1) - a = (n - a) + 1
  OBVIOUS
<1>3. /\ DOMAIN Append(FromTo(a, n), n + 1) = 1..((n - a) + 1)
      /\ Append(FromTo(a, n), n + 1) \in Seq(Nat)
      /\ \A i \in 1..(n - a) : Append(FromTo(a, n), n + 1)[i] = FromTo(a, n)[i]
      /\ Append(FromTo(a, n), n + 1)[(n - a) + 1] = n + 1
  BY <1>1
<1>4. \A i \in 1..(n - a) : FromTo(a, n)[i] = a + i
  BY DEF FromTo
<1>5. \A i \in 1..((n - a) + 1) : Append(FromTo(a, n), n + 1)[i] = a + i
  <2> SUFFICES ASSUME NEW i \in 1..((n - a) + 1)
      PROVE  Append(FromTo(a, n), n + 1)[i] = a + i
    OBVIOUS
  <2>1. CASE i \in 1..(n - a)
    BY <1>3, <1>4, <2>1
  <2>2. CASE i \notin 1..(n - a)
    <3>1. i = (n - a) + 1 /\ a + i = n + 1
      BY <2>2
    <3> QED
      BY <1>3, <3>1
  <2> QED
    BY <2>1, <2>2
<1>6. Append(FromTo(a, n), n + 1) = [i \in 1..((n - a) + 1) |-> a + i]
  BY <1>3, <1>5
<1> QED
  BY <1>2, <1>6 DEF FromTo

LEMMA TaughtFrame ==
  ASSUME UNCHANGED mode, \A s \in Stores : mem'[s].learned = mem[s].learned,
         Position' = Position, mode \in Modes
  PROVE  Taught(Position) => Taught(Position)'
<1>1. NumGroups' = NumGroups /\ \A g : StoreOf(g)' = StoreOf(g)
  BY Frame
<1>2. \A g : Low(g)' = Low(g) /\ High(g)' = High(g)
  BY EdgeFrame
<1>3. \A g \in 1..NumGroups : StoreOf(g) \in Stores
  BY StoreFacts
<1> QED
  BY <1>1, <1>2, <1>3 DEF Taught

\* The store of the group learns the next task of it, and the others have learned
\* all of theirs, or nothing yet.
LEMMA TaughtNext ==
  ASSUME UNCHANGED <<mode, at>>, mode \in Modes, at \in 1..NumGroups, mem \in [Stores -> Store],
         Position \in Edge(at)..(Edge(at + 1) - 1), Position' = Position + 1,
         Taught(Position), mem' = [mem EXCEPT ![Here].learned = Append(@, Position + 1)]
  PROVE  Taught(Position)'
<1> DEFINE n == Position
<1>1. NumGroups' = NumGroups /\ \A g : StoreOf(g)' = StoreOf(g)
  BY Frame
<1>2. \A g : Low(g)' = Low(g) /\ High(g)' = High(g)
  BY EdgeFrame
<1>3. \A g \in 1..NumGroups : StoreOf(g) \in Stores
  BY StoreFacts
<1>4. /\ Edge(at) \in Nat /\ Edge(at + 1) \in Nat /\ Edge(at + 1) <= NumTasks
      /\ NumTasks \in Nat /\ NumGroups \in Nat /\ at \in Int
  BY GroupInterval, GroupFacts, TasksAssumption
<1>5. n \in Nat /\ Edge(at) <= n /\ n + 1 <= Edge(at + 1) /\ n + 1 <= NumTasks
  BY <1>4
<1>6. \A g \in 1..NumGroups :
        mem[StoreOf(g)].learned = FromTo(Low(g), IF n <= High(g) THEN n ELSE High(g))
  BY DEF Taught
<1>7. \A s \in Stores : mem'[s].learned = IF s = Here THEN Append(mem[Here].learned, n + 1)
                                                       ELSE mem[s].learned
  BY <1>3 DEF Store, Here
<1> HIDE DEF n
<1>8. ASSUME NEW g \in 1..NumGroups
      PROVE  mem'[StoreOf(g)].learned
               = FromTo(Low(g), IF n + 1 <= High(g) THEN n + 1 ELSE High(g))
  <2>1. CASE mode = "isolated"
    <3>1. StoreOf(g) = g /\ Here = at /\ Low(g) = Edge(g) /\ High(g) = Edge(g + 1)
      BY <2>1 DEF StoreOf, Here, Low, High
    <3>2. Edge(g) \in Nat /\ Edge(g + 1) \in Nat /\ Edge(g) <= Edge(g + 1) /\ g \in Int
      BY GroupInterval, <1>4
    <3>3. CASE g = at
      <4>1. Append(FromTo(Edge(g), n), n + 1) = FromTo(Edge(g), n + 1)
        <5>1. Edge(g) <= n
          BY <1>5, <3>3
        <5> QED
          BY ONLY <1>5, <3>2, <5>1, FromToNext
      <4>2. n <= High(g) /\ n + 1 <= High(g)
        BY <1>4, <1>5, <3>1, <3>3
      <4>3. mem[Here].learned = FromTo(Edge(g), n)
        BY <1>6, <3>1, <3>3, <4>2
      <4>4. mem'[StoreOf(g)].learned = Append(mem[Here].learned, n + 1)
        BY <1>3, <1>7, <3>1, <3>3
      <4> QED
        BY <3>1, <4>1, <4>2, <4>3, <4>4
    <3>4. CASE g < at
      <4>1. Edge(g + 1) <= Edge(at)
        <5>1. g + 1 \in Int /\ g + 1 <= at
          BY <1>4, <3>2, <3>4
        <5> QED
          BY <1>4, <5>1, EdgesGrow
      <4>2. /\ (IF n <= High(g) THEN n ELSE High(g)) = High(g)
            /\ (IF n + 1 <= High(g) THEN n + 1 ELSE High(g)) = High(g)
        BY <1>4, <1>5, <3>1, <3>2, <4>1
      <4>3. mem'[StoreOf(g)].learned = mem[StoreOf(g)].learned
        BY <1>3, <1>4, <1>7, <3>1, <3>2, <3>4
      <4> QED
        BY <1>6, <4>2, <4>3
    <3>5. CASE g > at
      <4>1. Edge(at + 1) <= Edge(g)
        <5>1. at + 1 \in Int /\ at + 1 <= g
          BY <1>4, <3>2, <3>5
        <5> QED
          BY <3>2, <5>1, EdgesGrow
      <4>2. /\ (IF n <= High(g) THEN n ELSE High(g)) = n
            /\ (IF n + 1 <= High(g) THEN n + 1 ELSE High(g)) = n + 1
        BY <1>4, <1>5, <3>1, <3>2, <4>1
      <4>3. FromTo(Low(g), n) = <<>> /\ FromTo(Low(g), n + 1) = <<>>
        <5>1. n \in Int /\ n + 1 \in Int /\ n <= Edge(g) /\ n + 1 <= Edge(g) /\ Edge(g) \in Int
          BY <1>4, <1>5, <3>2, <4>1
        <5>2. FromTo(Edge(g), n) = <<>> /\ FromTo(Edge(g), n + 1) = <<>>
          BY ONLY <5>1, FromToEmpty
        <5> QED
          BY <3>1, <5>2
      <4>4. mem'[StoreOf(g)].learned = mem[StoreOf(g)].learned
        BY <1>3, <1>4, <1>7, <3>1, <3>2, <3>5
      <4> QED
        BY <1>6, <4>2, <4>3, <4>4
    <3> QED
      BY <1>4, <3>2, <3>3, <3>4, <3>5
  <2>2. CASE mode # "isolated"
    <3>1. StoreOf(g) = Here /\ Low(g) = 0 /\ High(g) = NumTasks
      BY <2>2 DEF StoreOf, Here, Low, High
    <3>2. mem[Here].learned = FromTo(0, n)
      BY <1>4, <1>5, <1>6, <3>1
    <3>3. mem'[Here].learned = Append(FromTo(0, n), n + 1)
      BY <1>3, <1>7, <3>1, <3>2
    <3>4. Append(FromTo(0, n), n + 1) = FromTo(0, n + 1)
      <4>1. 0 \in Nat /\ 0 <= n
        BY <1>5
      <4> QED
        BY ONLY <1>5, <4>1, FromToNext
    <3>5. n + 1 <= High(g)
      BY <1>5, <3>1
    <3> QED
      BY <3>1, <3>3, <3>4, <3>5
  <2> QED
    BY <2>1, <2>2
<1>9. Position' = n + 1
  BY DEF n
<1> QED
  BY <1>1, <1>2, <1>8, <1>9 DEF Taught

\* Where a session of the first launch stands: the next task of the group.
LEMMA NextTask ==
  ASSUME IInv, FirstInv, Smooth, launches = 1, Evaluating, ~noResults, NEW t \in Tasks, Due(t)
  PROVE  /\ t = Position + 1 /\ Position \in Edge(at)..(Edge(at + 1) - 1)
         /\ todo = (Position + 1)..Edge(at + 1)
         /\ at \in 1..NumGroups /\ mode \in Modes /\ Edge(at) \in Nat /\ Edge(at + 1) \in Nat
<1>1. /\ at \in 1..NumGroups /\ todo \subseteq Group(at) /\ mode \in Modes
      /\ results \in Seq(Tasks)
  BY TypeParts DEF IInv, PlanInv, DiskType, EvalType
<1>2. /\ Edge(at) \in Nat /\ Edge(at + 1) \in Nat
      /\ Group(at) = (Edge(at) + 1)..Edge(at + 1)
  BY <1>1, GroupInterval
<1>3. todo = (Position + 1)..Edge(at + 1)
  BY DEF FirstInv, Running, Up, Evaluating
<1>4. Position \in Int
  BY <1>1, <1>2 DEF Position, Recording
<1>5. t \in todo /\ \A u \in todo : t <= u
  BY DEF Due, First
<1>6. t \in Int /\ t >= Position + 1 /\ t <= Edge(at + 1) /\ t >= Edge(at) + 1
  BY <1>1, <1>2, <1>3, <1>4, <1>5
<1>7. Position + 1 \in todo
  BY <1>2, <1>3, <1>4, <1>6
<1>8. t = Position + 1
  BY <1>4, <1>5, <1>6, <1>7
<1> QED
  BY <1>1, <1>2, <1>3, <1>4, <1>6, <1>8

LEMMA SessionFirst ==
  ASSUME IInv, FilesInv, FirstInv, NEW t \in Tasks, SmoothMoves(t), launches' = launches, Smooth
  PROVE  FirstInv'
<1> SUFFICES ASSUME launches = 1 PROVE FirstInv'
  BY DEF FirstInv
<1>0. SessionMoves(t)
  BY DEF SmoothMoves, SessionMoves
<1>1. /\ UNCHANGED <<mode, ckpt, metrics, skip, finished, at>>
      /\ Evaluating /\ Evaluating' /\ Up
      /\ \A u \in Tasks : u \notin Group(at) => file'[u] = file[u]
  BY <1>0, SessionFrame
<1>2. /\ skip = 0 /\ finished = {} /\ Len(metrics) = LinesNow
      /\ \A u \in Tasks : GroupOf(u) > at \/ (GroupOf(u) = at /\ pc = "group")
                            => file[u] = "none"
      /\ ~noResults =>
           /\ reuse = {} /\ todo = (Position + 1)..Edge(at + 1)
           /\ \A u \in todo : file[u] = "none" \/ (pc = "recorded" /\ First(u, todo))
           /\ Taught(Position)
           /\ \A i \in DOMAIN results : results[i] = Edge(at) + i
  BY <1>1 DEF FirstInv, Running
<1>3. /\ mode \in Modes /\ results \in Seq(Tasks) /\ file \in [Tasks -> Outcome]
      /\ mem \in [Stores -> Store] /\ at \in 1..NumGroups /\ noResults \in BOOLEAN
      /\ at \in Int /\ \A u \in Tasks : GroupOf(u) \in Int
  <2>1. at \in 1..NumGroups /\ mode \in Modes
    BY <1>1, TypeParts DEF IInv, PlanInv, DiskType
  <2>2. NumGroups \in 1..NumTasks /\ \A u \in Tasks : GroupOf(u) \in 1..NumGroups
    BY <2>1, GroupFacts
  <2> QED
    BY <1>1, <2>1, <2>2, TypeParts, TasksAssumption DEF IInv, EvalType, SessionType, MemType
<1>4. \A g : Edge(g)' = Edge(g)
  BY <1>1, EdgeFrame
<1>5. Len(metrics)' = LinesNow'
  <2>1. pc \in {"task", "run", "recorded"} /\ pc' \in {"task", "run", "recorded"}
    BY <1>1 DEF Evaluating
  <2>2. LinesNow = Edge(at) /\ LinesNow' = Edge(at)'
    BY <2>1 DEF LinesNow
  <2>3. Edge(at)' = Edge(at)
    BY <1>1, <1>4
  <2> QED
    BY <1>1, <1>2, <2>2, <2>3
<1>6. \A u \in Tasks : GroupOf(u)' > at' \/ (GroupOf(u)' = at' /\ pc' = "group")
                         => file'[u] = "none"
  <2> SUFFICES ASSUME NEW u \in Tasks, GroupOf(u) > at PROVE file'[u] = "none"
    BY <1>1 DEF Evaluating, GroupOf, Interleaved
  <2>1. u \notin Group(at)
    BY <1>3 DEF Group
  <2> QED
    BY <1>1, <1>2, <2>1
<1>7. ASSUME ~noResults'
      PROVE  /\ reuse' = {} /\ todo' = (Position' + 1)..Edge(at + 1)
             /\ \A u \in todo' : file'[u] = "none" \/ (pc' = "recorded" /\ First(u, todo'))
             /\ Taught(Position)'
             /\ \A i \in DOMAIN results' : results'[i] = Edge(at) + i
  <2>1. ~noResults /\ ~Raise(t)
    BY <1>3, <1>7 DEF SmoothMoves, ListReused, RetryReuses, Start, Record, Close, Raise, eval
  <2>2. ~ListReused(t)
    BY <1>2, <2>1 DEF ListReused, First
  <2>3. Start(t) \/ Record(t) \/ Close(t) \/ RetryReuses(t)
    BY <2>1, <2>2 DEF SmoothMoves
  <2>4. Due(t)
    BY <2>3 DEF Start, Record, Close, RetryReuses
  <2>5. /\ t = Position + 1 /\ Position \in Edge(at)..(Edge(at + 1) - 1)
        /\ t \in todo /\ \A u \in todo : t <= u
        /\ Edge(at) \in Nat /\ Edge(at + 1) \in Nat
    BY <1>1, <2>1, <2>4, NextTask DEF Due, First
  <2>6. /\ reuse = {} /\ todo = (Position + 1)..Edge(at + 1)
        /\ \A u \in todo : file[u] = "none" \/ (pc = "recorded" /\ First(u, todo))
        /\ Taught(Position)
        /\ \A i \in DOMAIN results : results[i] = Edge(at) + i
    BY <1>2, <2>1
  <2>7. CASE RetryReuses(t)
    BY <2>5, <2>6, <2>7 DEF RetryReuses
  <2>8. CASE Start(t)
    <3>1. /\ pc = "task" /\ pc' = "run" /\ UNCHANGED <<reuse, todo, results>>
          /\ file' = [file EXCEPT ![t] = "none"]
          /\ mem' = [mem EXCEPT ![Here].count = @ + 1]
      BY <2>8 DEF Start, CleanUp, eval
    <3>2. Position' = Position
      <4>1. Recording = 0 /\ Recording' = 0
        BY <3>1 DEF Recording
      <4> QED
        BY <1>1, <1>4, <3>1, <4>1 DEF Position
    <3>3. Taught(Position)'
      <4>1. \A s \in Stores : mem'[s].learned = mem[s].learned
        BY <1>3, <3>1 DEF Store
      <4> QED
        BY <1>1, <1>3, <2>6, <3>2, <4>1, TaughtFrame
    <3>4. \A u \in todo' : file'[u] = "none"
      BY <1>3, <2>6, <3>1
    <3> QED
      BY <2>6, <3>1, <3>2, <3>3, <3>4
  <2>9. CASE Record(t)
    <3>1. /\ pc = "run" /\ pc' = "recorded" /\ UNCHANGED <<reuse, todo, mem>>
          /\ results' = Append(results, t)
          /\ \A u \in Tasks : u # t => file'[u] = file[u]
      BY <1>3, <2>9 DEF Record
    <3>2. /\ Position' = Position /\ Position = Edge(at) + Len(results)
      <4>1. Recording = 0 /\ Recording' = 1
        BY <3>1 DEF Recording
      <4>2. Len(results') = Len(results) + 1 /\ Len(results) \in Nat
        BY <1>3, <3>1
      <4>3. Position = Edge(at) + Len(results) - 0 /\ Position' = Edge(at) + Len(results') - 1
        BY <1>1, <1>4, <4>1 DEF Position
      <4> QED
        BY <2>5, <4>2, <4>3
    <3>3. Taught(Position)'
      BY <1>1, <1>3, <2>6, <3>1, <3>2, TaughtFrame
    <3>4. \A u \in todo' : file'[u] = "none" \/ (pc' = "recorded" /\ First(u, todo'))
      <4> SUFFICES ASSUME NEW u \in todo' PROVE file'[u] = "none" \/ First(u, todo')
        BY <3>1
      <4>1. CASE u = t
        BY <2>5, <3>1, <4>1 DEF First
      <4>2. CASE u # t
        <5>1. u \in Tasks /\ u \in todo
          BY <3>1, TypeParts DEF IInv, EvalType
        <5> QED
          BY <2>6, <3>1, <4>2, <5>1
      <4> QED
        BY <4>1, <4>2
    <3>5. \A i \in DOMAIN results' : results'[i] = Edge(at) + i
      <4>1. /\ DOMAIN results' = 1..(Len(results) + 1) /\ DOMAIN results = 1..Len(results)
            /\ \A i \in 1..Len(results) : results'[i] = results[i]
            /\ results'[Len(results) + 1] = t /\ Len(results) \in Nat
        BY <1>3, <3>1
      <4>2. t = Edge(at) + (Len(results) + 1)
        BY <2>5, <3>2, <4>1
      <4> QED
        BY <2>6, <4>1, <4>2
    <3> QED
      BY <2>6, <3>1, <3>2, <3>3, <3>4, <3>5
  <2>10. CASE Close(t)
    <3>1. /\ pc = "recorded" /\ pc' = "task" /\ UNCHANGED <<reuse, file, results>>
          /\ todo' = todo \ {t} /\ mem' = [mem EXCEPT ![Here].learned = Append(@, t)]
      BY <2>10 DEF Close, Learn
    <3>2. Position' = Position + 1
      <4>1. Recording = 1 /\ Recording' = 0
        BY <3>1 DEF Recording
      <4>2. Len(results) \in Nat
        BY <1>3
      <4>3. Position = Edge(at) + Len(results) - 1 /\ Position' = Edge(at) + Len(results) - 0
        BY <1>1, <1>4, <3>1, <4>1 DEF Position
      <4> QED
        BY <2>5, <4>2, <4>3
    <3>3. Taught(Position)'
      <4>1. mem' = [mem EXCEPT ![Here].learned = Append(@, Position + 1)]
        BY <2>5, <3>1
      <4> QED
        BY <1>1, <1>3, <2>5, <2>6, <3>2, <4>1, TaughtNext
    <3>4. \A u \in todo' : file'[u] = "none"
      <4> SUFFICES ASSUME NEW u \in todo' PROVE file[u] = "none"
        BY <3>1
      <4>1. u \in todo /\ u # t /\ u \in Int /\ t \in Int
        BY <2>5, <2>6, <3>1
      <4>2. ~First(u, todo)
        <5>1. t <= u /\ ~(u <= t)
          BY <2>5, <4>1
        <5> QED
          BY <2>5, <5>1 DEF First
      <4> QED
        BY <2>6, <4>1, <4>2
    <3>5. todo' = (Position' + 1)..Edge(at + 1)
      BY <2>5, <2>6, <3>1, <3>2
    <3> QED
      BY <2>6, <3>1, <3>3, <3>4, <3>5
  <2> QED
    BY <2>3, <2>7, <2>8, <2>9, <2>10
<1>8. Edge(at + 1)' = Edge(at + 1) /\ Edge(at)' = Edge(at)
  BY <1>1, <1>4
<1>9. skip' = 0 /\ finished' = {}
  BY <1>1, <1>2
<1> QED
  BY ONLY <1>1, <1>5, <1>6, <1>7, <1>8, <1>9 DEF FirstInv

\* A group that the first launch is through with.
LEMMA GroupPassed ==
  ASSUME IInv, ReportInv, Smooth, launches = 1, Reporting \/ (Evaluated /\ ~Broken)
  PROVE  /\ Position = Edge(at + 1) /\ Edge(at + 1) = Edge(at) + Len(results)
         /\ at \in 1..NumGroups /\ Edge(at) \in Nat /\ Len(results) \in Nat
         /\ Recording = 0
<1>1. /\ (Evaluating \/ Reporting) /\ Running /\ pc # "recorded"
      /\ mode \in Modes /\ results \in Seq(Tasks)
  BY TypeParts DEF IInv, DiskType, EvalType, Evaluated, Evaluating, Reporting, Running, Up
<1>2. at \in 1..NumGroups
  BY <1>1 DEF IInv, PlanInv, Evaluated, Evaluating
<1>3. Len(results) = Cardinality(Group(at))
  <2>1. CASE Reporting
    BY <1>1, <2>1 DEF ReportInv, Running, Up, Reporting
  <2>2. CASE Evaluated /\ ~Broken
    BY <2>2, AllReported
  <2> QED
    BY <2>1, <2>2
<1>4. /\ Edge(at) \in Nat /\ Edge(at + 1) \in Nat
      /\ Cardinality(Group(at)) = Edge(at + 1) - Edge(at)
  BY <1>1, <1>2, GroupInterval
<1>5. Recording = 0 /\ (Evaluating \/ Reporting)
  BY <1>1 DEF Recording, Evaluated, Evaluating
<1>6. Position = Edge(at) + Len(results) - 0
  BY <1>5 DEF Position
<1> QED
  BY <1>1, <1>2, <1>3, <1>4, <1>5, <1>6

LEMMA ScriptFirst ==
  ASSUME IInv, FirstInv, ReportInv, ScriptStep, launches' = launches, Smooth
  PROVE  FirstInv'
<1> SUFFICES ASSUME launches = 1 PROVE FirstInv'
  BY DEF FirstInv
<1>1. /\ UNCHANGED <<mode, file, mem, skip, finished>>
      /\ Interleaved' = Interleaved /\ NumGroups' = NumGroups
      /\ \A g : Group(g)' = Group(g)
      /\ Up /\ at \in Nat /\ at >= 1 /\ mode \in Modes
      /\ at' = at \/ (at' = at + 1 /\ pc' = "group")
      /\ mem \in [Stores -> Store] /\ metrics \in Seq(Entry) /\ line \in Nat
  BY ScriptFrame, TypeParts DEF IInv, DiskType, MemType, WorldType
<1>2. /\ skip = 0 /\ finished = {} /\ Len(metrics) = LinesNow
      /\ \A u \in Tasks : GroupOf(u) > at \/ (GroupOf(u) = at /\ pc = "group")
                            => file[u] = "none"
      /\ ~(Evaluating /\ noResults) =>
           /\ Taught(Position)
           /\ Evaluating \/ Reporting => \A i \in DOMAIN results : results[i] = Edge(at) + i
  BY <1>1 DEF FirstInv, Running
<1>3. ~SkipGroup
  BY <1>1, <1>2 DEF SkipGroup, Skipped
<1>4. \A g : Edge(g)' = Edge(g)
  BY <1>1, EdgeFrame
<1>5. \A u \in Tasks : GroupOf(u)' = GroupOf(u) /\ GroupOf(u) \in Int
  <2>1. \A u \in Tasks : GroupOf(u) \in 1..NumGroups
    BY <1>1, GroupFacts
  <2> QED
    BY <1>1, <2>1 DEF GroupOf
<1>6. \A u \in Tasks : GroupOf(u)' > at' \/ (GroupOf(u)' = at' /\ pc' = "group")
                         => file'[u] = "none"
  <2>1. pc' = "group" => at' = at + 1
    BY <1>3 DEF ScriptStep, Evaluate, EndExperiment, ReportTask, ReportGroup,
           OpenCheckpoint, WriteCheckpoint, ReportResult, EndGroup, AfterGroup, Evaluated
  <2> SUFFICES ASSUME NEW u \in Tasks,
                      GroupOf(u) > at' \/ (GroupOf(u) = at' /\ pc' = "group")
               PROVE  file[u] = "none"
    BY <1>1, <1>5
  <2>2. GroupOf(u) > at
    BY <1>1, <1>5, <2>1
  <2> QED
    BY <1>2, <2>2
<1>7. ~(Evaluating /\ noResults)
  BY <1>3 DEF ScriptStep, Evaluate, EndExperiment, ReportTask, ReportGroup,
           OpenCheckpoint, WriteCheckpoint, ReportResult, EndGroup, Evaluated, Evaluating, Broken
<1>8. Taught(Position)
  BY <1>2, <1>7
<1>9. Position' = Position => Taught(Position)'
  BY <1>1, <1>8, TaughtFrame
<1>10. CASE Evaluate
  <2>1. /\ pc = "group" /\ pc' = "task" /\ at' = at /\ metrics' = metrics
        /\ at \in 1..NumGroups
        /\ reuse' = {t \in Group(at) : file[t] = "complete"}
        /\ todo' = Group(at) \ reuse' /\ results' = <<>> /\ noResults' = FALSE
    BY <1>1, <1>10, GroupFacts DEF Evaluate, disk, loop
  <2>2. /\ Edge(at) \in Nat /\ Edge(at + 1) \in Nat
        /\ Group(at) = (Edge(at) + 1)..Edge(at + 1)
    BY <1>1, <2>1, GroupInterval
  <2>3. \A t \in Group(at) : file[t] = "none"
    BY <1>2, <2>1 DEF Group
  <2>4. reuse' = {} /\ todo' = Group(at)
    BY <2>1, <2>3
  <2>5. Position = Edge(at) /\ Position' = Edge(at)
    <3>1. Position = Edge(at)
      BY <2>1 DEF Position, Evaluating, Reporting
    <3>2. Recording' = 0 /\ Evaluating' /\ Len(results') = 0
      BY <2>1 DEF Recording, Evaluating
    <3>3. Position' = Edge(at) + 0 - 0
      BY <1>4, <2>1, <3>2 DEF Position
    <3> QED
      BY <2>2, <3>1, <3>3
  <2>6. Len(metrics)' = LinesNow'
    BY <1>2, <1>4, <2>1 DEF LinesNow
  <2>7. todo' = (Position' + 1)..Edge(at + 1)'
    BY <1>4, <2>1, <2>2, <2>4, <2>5
  <2>8. Taught(Position)'
    BY <1>9, <2>5
  <2>9. \A u \in todo' : file'[u] = "none"
    BY <1>1, <2>3, <2>4
  <2>10. skip' = 0 /\ finished' = {} /\ ~Reporting' /\ \A i \in DOMAIN results' : FALSE
    BY <1>1, <1>2, <2>1 DEF Reporting
  <2> QED
    BY ONLY <1>6, <2>4, <2>6, <2>7, <2>8, <2>9, <2>10 DEF FirstInv
<1>11. CASE ~Evaluate
  <2>1. ~Evaluating'
    BY <1>3, <1>11 DEF ScriptStep, EndExperiment, ReportTask, ReportGroup,
           OpenCheckpoint, WriteCheckpoint, ReportResult, EndGroup, Evaluating
  <2>2. CASE EndExperiment
    <3>1. pc = "group" /\ pc' = "ended" /\ UNCHANGED <<at, metrics>> /\ ~Reporting'
      BY <2>2 DEF EndExperiment, disk, loop, Reporting
    <3>2. Position = Edge(at) /\ Position' = Edge(at)
      BY <1>4, <3>1 DEF Position, Evaluating, Reporting
    <3>3. Len(metrics)' = LinesNow'
      BY <1>2, <1>4, <3>1 DEF LinesNow
    <3>4. skip' = 0 /\ finished' = {} /\ Taught(Position)'
      BY <1>1, <1>2, <1>9, <3>2
    <3> QED
      BY ONLY <1>6, <2>1, <3>1, <3>3, <3>4 DEF FirstInv
  <2>3. CASE ~EndExperiment
    <3>1. Reporting \/ (Evaluated /\ ~Broken)
      BY <1>3, <1>11, <2>3 DEF ScriptStep, ReportTask, ReportGroup,
           OpenCheckpoint, WriteCheckpoint, ReportResult, EndGroup, Reporting
    <3>2. /\ Position = Edge(at + 1) /\ Edge(at + 1) = Edge(at) + Len(results)
          /\ at \in 1..NumGroups /\ Edge(at) \in Nat /\ Len(results) \in Nat
      BY <3>1, GroupPassed
    <3>3. results' = results
      BY <1>3, <1>11, <2>3 DEF ScriptStep, ReportTask, ReportGroup,
           OpenCheckpoint, WriteCheckpoint, ReportResult, EndGroup, eval
    <3>4. pc' \in {"group", "save", "write", "metrics"}
      BY <1>3, <1>11, <2>3 DEF ScriptStep, ReportTask, ReportGroup,
           OpenCheckpoint, WriteCheckpoint, ReportResult, EndGroup
    <3>5. pc' = "group" <=> at' = at + 1
      BY <1>1, <1>3, <1>11, <2>3 DEF ScriptStep, ReportTask, ReportGroup,
           OpenCheckpoint, WriteCheckpoint, ReportResult, EndGroup, AfterGroup, loop
    <3>6. Position' = Position
      <4>1. CASE pc' = "group"
        <5>1. ~Evaluating' /\ ~Reporting'
          BY <4>1 DEF Evaluating, Reporting
        <5>2. Position' = Edge(at)'
          BY <5>1 DEF Position
        <5>3. Edge(at)' = Edge(at + 1)
          BY <1>4, <3>5, <4>1
        <5> QED
          BY <3>2, <5>2, <5>3
      <4>2. CASE pc' # "group"
        <5>1. at' = at /\ Reporting' /\ Recording' = 0
          BY <1>1, <3>4, <4>2 DEF Reporting, Recording
        <5>2. Position' = Edge(at) + Len(results) - 0
          BY <1>4, <3>3, <5>1 DEF Position
        <5> QED
          BY <3>2, <5>2
      <4> QED
        BY <4>1, <4>2
    <3>7. Reporting' => \A i \in DOMAIN results' : results'[i] = Edge(at)' + i
      <4>1. \A i \in DOMAIN results : results[i] = Edge(at) + i
        BY <1>2, <1>7, <3>1 DEF Evaluated, Evaluating
      <4>2. Reporting' => at' = at
        BY <1>1, <3>4 DEF Reporting
      <4> QED
        BY <1>4, <3>3, <4>1, <4>2
    <3>8. Len(metrics') = LinesNow'
      <4>1. CASE ReportTask
        <5>1. /\ Len(metrics') = Len(metrics) + 1 /\ Interleaved /\ pc = "task"
              /\ pc' \in {"save", "group"}
          BY <1>1, <4>1, TaskLine, AppendLine DEF ReportTask, Evaluated
        <5>2. Len(metrics') = Edge(at) + 1
          BY <1>2, <5>1 DEF LinesNow
        <5>3. Edge(at) = at - 1 /\ Edge(at + 1) = at
          BY <1>1, <3>2, <5>1, EdgeOfTask
        <5>4. CASE pc' = "save"
          BY <1>1, <1>4, <3>5, <5>1, <5>2, <5>4 DEF LinesNow
        <5>5. CASE pc' = "group"
          <6>1. LinesNow' = Edge(at + 1)
            BY <1>4, <3>5, <5>5 DEF LinesNow
          <6> QED
            BY <1>1, <5>2, <5>3, <6>1
        <5> QED
          BY <5>1, <5>4, <5>5
      <4>2. CASE ReportGroup
        <5>1. /\ metrics' = metrics /\ at' = at /\ line' = line /\ ~Interleaved /\ pc = "task"
              /\ pc' \in {"save", "metrics"} /\ Evaluating
          BY <4>2 DEF ReportGroup, Evaluated, Evaluating, disk, loop
        <5>2. line = 1 /\ Len(metrics) = Edge(at)
          BY <1>1, <1>2, <5>1 DEF LinesNow, ReportInv, Running
        <5>3. LinesNow' = Edge(at) \/ LinesNow' = Edge(at) + 1 - 1
          BY <1>1, <1>4, <5>1, <5>2 DEF LinesNow
        <5> QED
          BY <3>2, <5>1, <5>2, <5>3
      <4>3. CASE OpenCheckpoint
        <5>1. metrics' = metrics /\ at' = at /\ pc = "save" /\ pc' = "write"
          BY <4>3 DEF OpenCheckpoint, loop
        <5> QED
          BY <1>1, <1>2, <1>4, <5>1 DEF LinesNow
      <4>4. CASE WriteCheckpoint
        <5>1. /\ metrics' = metrics /\ pc = "write" /\ line' = line /\ line = 1
              /\ \/ Interleaved /\ pc' = "group" /\ at' = at + 1
                 \/ ~Interleaved /\ pc' = "metrics" /\ at' = at
          BY <1>1, <4>4 DEF WriteCheckpoint, AfterGroup, ReportInv, Running
        <5>2. CASE Interleaved
          <6>1. Len(metrics) = Edge(at) + 1 /\ Edge(at) = at - 1 /\ Edge(at + 1) = at
            BY <1>1, <1>2, <3>2, <5>1, <5>2, EdgeOfTask DEF LinesNow
          <6>2. LinesNow' = Edge(at + 1)
            BY <1>4, <5>1, <5>2 DEF LinesNow
          <6> QED
            BY <1>1, <5>1, <6>1, <6>2
        <5>3. CASE ~Interleaved
          <6>1. Len(metrics) = Edge(at) /\ LinesNow' = Edge(at) + 1 - 1
            BY <1>1, <1>2, <1>4, <5>1, <5>3 DEF LinesNow
          <6> QED
            BY <3>2, <5>1, <6>1
        <5> QED
          BY <5>2, <5>3
      <4>5. CASE ReportResult
        <5>1. pc = "metrics" /\ pc' = "metrics" /\ at' = at /\ line' = line + 1
          BY <4>5 DEF ReportResult, loop
        <5>2. Len(results) = Cardinality(Group(at))
          BY <5>1, <1>1 DEF ReportInv, Running, Reporting
        <5>3. Len(metrics') = Len(metrics) + 1
          BY <1>1, <4>5, <5>2, NextLine, AppendLine
        <5>4. Len(metrics) = Edge(at) + line - 1 /\ LinesNow' = Edge(at) + (line + 1) - 1
          BY <1>2, <1>4, <5>1 DEF LinesNow
        <5> QED
          BY <1>1, <3>2, <5>3, <5>4
      <4>6. CASE EndGroup
        <5>1. /\ metrics' = metrics /\ pc = "metrics" /\ pc' = "group" /\ at' = at + 1
              /\ line > Len(results)
          BY <4>6 DEF EndGroup, disk, AfterGroup
        <5>2. line <= Len(results) + 1
          BY <1>1, <5>1 DEF ReportInv, Running
        <5>3. Len(metrics) = Edge(at) + line - 1 /\ LinesNow' = Edge(at + 1)
          BY <1>2, <1>4, <5>1 DEF LinesNow
        <5> QED
          BY <1>1, <3>2, <5>1, <5>2, <5>3
      <4> QED
        BY <1>3, <1>11, <2>3, <4>1, <4>2, <4>3, <4>4, <4>5, <4>6 DEF ScriptStep
    <3>9. skip' = 0 /\ finished' = {} /\ Taught(Position)'
      BY <1>1, <1>2, <1>9, <3>6
    <3> QED
      BY ONLY <1>6, <2>1, <3>7, <3>8, <3>9 DEF FirstInv
  <2> QED
    BY <2>2, <2>3
<1> QED
  BY <1>10, <1>11

LEMMA BeginFirst ==
  ASSUME IInv, FilesInv, Begin, Smooth
  PROVE  FirstInv'
<1> SUFFICES ASSUME launches' = 1 PROVE FirstInv'
  BY DEF FirstInv
<1>1. launches = 0
  BY TypeParts DEF Begin, Launch, IInv, WorldType
<1>2. /\ Restored = 0 /\ Kept = <<>> /\ Completed(Kept) = {}
      /\ \A s \in Stores : ckpt[s] = Fresh
      /\ \A t \in Tasks : file[t] = "none"
  BY <1>1, FirstBegin
<1>3. /\ UNCHANGED <<mode, file>> /\ mem' = ckpt /\ skip' = 0 /\ metrics' = <<>>
      /\ finished' = {} /\ pc' = "group" /\ at' = 1
      /\ ~Evaluating' /\ ~Reporting'
  BY <1>2, BeginFrame
<1>4. mode \in Modes /\ NumTasks \in Nat /\ NumGroups \in Nat
  BY TypeParts, GroupFacts, TasksAssumption DEF IInv, DiskType
<1>5. Edge(at)' = 0
  BY <1>3, <1>4, EdgeFrame, FirstAndLastEdge
<1>6. Len(metrics)' = LinesNow'
  BY <1>3, <1>5 DEF LinesNow
<1>7. Position' = 0
  BY <1>3, <1>5 DEF Position
<1>8. Taught(Position)'
  <2>1. /\ NumGroups' = NumGroups
        /\ \A g : StoreOf(g)' = StoreOf(g) /\ Low(g)' = Low(g) /\ High(g)' = High(g)
    BY <1>3, Frame, EdgeFrame
  <2> SUFFICES ASSUME NEW g \in 1..NumGroups
      PROVE  mem'[StoreOf(g)].learned = FromTo(Low(g), IF 0 <= High(g) THEN 0 ELSE High(g))
    BY <1>7, <2>1 DEF Taught
  <2>2. Low(g) \in Nat /\ High(g) \in Nat
    BY <1>4, GroupInterval DEF Low, High
  <2>3. FromTo(Low(g), 0) = <<>>
    BY <2>2, FromToEmpty
  <2>4. StoreOf(g) \in Stores
    BY <1>4, StoreFacts
  <2>5. mem'[StoreOf(g)].learned = <<>>
    BY <1>2, <1>3, <2>4 DEF Fresh
  <2> QED
    BY <2>2, <2>3, <2>5
<1> QED
  BY ONLY <1>2, <1>3, <1>6, <1>8 DEF FirstInv

SmoothInv == FilesInv /\ FirstInv /\ ReportInv

LEMMA SmoothInit == Init => SmoothInv
<1> SUFFICES ASSUME Init PROVE SmoothInv
  OBVIOUS
<1>1. /\ metrics = <<>> /\ pc = "down" /\ launches = 0 /\ ~Running
      /\ \A s \in Stores : ckpt[s] = Fresh /\ ckpt[s].count = 0
      /\ \A t \in Tasks : file[t] = "none"
  BY DEF Init, Running, Up, Fresh
<1>2. FilesInv
  BY <1>1 DEF FilesInv, Exactly
<1> QED
  BY <1>1, <1>2 DEF SmoothInv, FirstInv, ReportInv

LEMMA SmoothStill ==
  ASSUME SmoothInv, UNCHANGED vars
  PROVE  SmoothInv'
<1>1. UNCHANGED <<mode, ckpt, torn, metrics, file, mem, pc, skip, finished, at, reuse, todo,
                  results, noResults, line, launches, interrupts, transients>>
  BY DEF vars, disk, session, loop, eval, world
<1>2. /\ NumGroups' = NumGroups /\ Interleaved' = Interleaved
      /\ \A g : Group(g)' = Group(g) /\ StoreOf(g)' = StoreOf(g)
      /\ \A g : Edge(g)' = Edge(g) /\ Low(g)' = Low(g) /\ High(g)' = High(g)
      /\ \A t : GroupOf(t)' = GroupOf(t)
  BY <1>1, Frame, EdgeFrame DEF GroupOf, Interleaved
<1>3. /\ \A g : Skipped(g)' = Skipped(g)
      /\ Evaluating' = Evaluating /\ Reporting' = Reporting /\ Running' = Running
      /\ Smooth' = Smooth /\ Recording' = Recording /\ \A t : Lined(t)' = Lined(t)
      /\ (Exactly(metrics) => Exactly(metrics)')
  BY <1>1, <1>2 DEF Skipped, Evaluating, Reporting, Running, Up, Smooth, Recording, Lined,
                    Exactly
<1>4. Edge(at)' = Edge(at) /\ Edge(at + 1)' = Edge(at + 1) /\ Group(at)' = Group(at)
  BY <1>1, <1>2
<1>5. Position' = Position /\ LinesNow' = LinesNow
  BY <1>1, <1>2, <1>3, <1>4 DEF Position, LinesNow
<1>6. Taught(Position) => Taught(Position)'
  BY <1>1, <1>2, <1>5 DEF Taught
<1>7. FilesInv'
  BY <1>1, <1>2, <1>3 DEF SmoothInv, FilesInv, Fresh
<1>8. FirstInv'
  BY <1>1, <1>2, <1>3, <1>4, <1>5, <1>6 DEF SmoothInv, FirstInv, First
<1>9. ReportInv'
  BY <1>1, <1>2, <1>3, <1>4 DEF SmoothInv, ReportInv
<1> QED
  BY <1>7, <1>8, <1>9 DEF SmoothInv

LEMMA SmoothStep == IInv /\ SmoothInv /\ [Next]_vars => SmoothInv'
<1> SUFFICES ASSUME IInv, SmoothInv, [Next]_vars PROVE SmoothInv'
  OBVIOUS
<1>1. CASE ~Smooth'
  BY <1>1 DEF SmoothInv, FilesInv, FirstInv, ReportInv
<1>2. CASE Smooth'
  <2>1. /\ Smooth /\ ~RaiseTransient /\ \A t \in Tasks : ~Interrupt(t)
        /\ Launch \/ launches' = launches
    BY <1>2, SmoothBack
  <2>2. FilesInv /\ FirstInv /\ ReportInv
    BY DEF SmoothInv
  <2>3. CASE \E t \in Tasks : SmoothMoves(t)
    <3>1. PICK t \in Tasks : SmoothMoves(t)
      BY <2>3
    <3>2. launches' = launches
      BY <3>1 DEF SmoothMoves, ListReused, RetryReuses, Start, Record, Close, Raise, world
    <3> QED
      BY <2>1, <2>2, <3>1, <3>2, SessionFiles, SessionFirst, SessionReports DEF SmoothInv
  <2>4. CASE ScriptStep
    <3>1. launches' = launches
      BY <2>4 DEF ScriptStep, SkipGroup, Evaluate, EndExperiment, ReportTask, ReportGroup,
           OpenCheckpoint, WriteCheckpoint, ReportResult, EndGroup, world
    <3> QED
      BY <2>1, <2>2, <2>4, <3>1, ScriptFiles, ScriptFirst, ScriptReports DEF SmoothInv
  <2>5. CASE DownStep
    BY <2>1, <2>2, <2>5, DownFiles DEF SmoothInv
  <2>6. CASE Begin
    BY <2>1, <2>2, <2>6, BeginFiles, BeginFirst, BeginReports DEF SmoothInv
  <2>7. CASE UNCHANGED vars
    BY <2>7, SmoothStill
  <2> QED
    BY <2>1, <2>3, <2>4, <2>5, <2>6, <2>7
       DEF Next, Script, SmoothMoves, ScriptStep, DownStep, Begin, Rest
<1> QED
  BY <1>1, <1>2

\* An experiment launched once, that nothing broke or interrupted, ends with one line per
\* task in online_metrics.jsonl, in order and with its own result, and every store has
\* learned from the tasks of its own in order, whichever sessions failed: for every task
\* order, division into benchmarks and mode.
THEOREM OneLaunchIsExact == Spec => []UninterruptedIsExact
<1>1. IInv /\ SmoothInv => UninterruptedIsExact
  <2> SUFFICES ASSUME IInv, SmoothInv, pc = "ended", launches = 1, Smooth
      PROVE  /\ metrics = [t \in Tasks |-> [label |-> t, of |-> t]]
             /\ \A g \in 1..NumGroups :
                  mem[StoreOf(g)].learned =
                    InOrder(IF mode = "isolated" THEN Group(g) ELSE Tasks)
    BY DEF UninterruptedIsExact, Smooth
  <2>1. /\ mode \in Modes /\ metrics \in Seq(Entry) /\ at > NumGroups
        /\ at \in 1..NumGroups + 1
    BY TypeParts DEF IInv, PlanInv, LoopType, DiskType
  <2>2. NumGroups \in Nat /\ NumTasks \in Nat /\ Tasks = 1..NumTasks
    BY <2>1, GroupFacts, TasksAssumption DEF Tasks
  <2>3. at = NumGroups + 1
    BY <2>1, <2>2
  <2>4. Edge(at) = NumTasks
    BY <2>1, <2>3, FirstAndLastEdge
  <2>5. Running /\ ~Evaluating /\ ~Reporting
    BY DEF Running, Evaluating, Reporting
  <2>6. Len(metrics) = LinesNow /\ Taught(Position) /\ Exactly(metrics)
    BY <2>5 DEF SmoothInv, FirstInv, FilesInv
  <2>7. LinesNow = NumTasks /\ Position = NumTasks
    BY <2>4, <2>5 DEF LinesNow, Position
  <2>8. metrics = [t \in Tasks |-> [label |-> t, of |-> t]]
    <3>1. DOMAIN metrics = Tasks
      BY <2>1, <2>2, <2>6, <2>7
    <3>2. \A t \in Tasks : metrics[t] = [label |-> t, of |-> t]
      BY <2>6, <3>1 DEF Exactly
    <3>3. metrics = [t \in DOMAIN metrics |-> metrics[t]]
      BY <2>1
    <3> QED
      BY <3>1, <3>2, <3>3
  <2>9. ASSUME NEW g \in 1..NumGroups
        PROVE  mem[StoreOf(g)].learned = InOrder(IF mode = "isolated" THEN Group(g) ELSE Tasks)
    <3>1. /\ Edge(g) \in Nat /\ Edge(g + 1) \in Nat /\ Edge(g + 1) <= NumTasks
          /\ Edge(g) <= Edge(g + 1) /\ Group(g) = (Edge(g) + 1)..Edge(g + 1)
      BY <2>1, GroupInterval
    <3>2. mem[StoreOf(g)].learned
            = FromTo(Low(g), IF NumTasks <= High(g) THEN NumTasks ELSE High(g))
      BY <2>6, <2>7 DEF Taught
    <3>3. CASE mode = "isolated"
      <4>1. (IF NumTasks <= High(g) THEN NumTasks ELSE High(g)) = Edge(g + 1)
            /\ Low(g) = Edge(g)
        BY <2>2, <3>1, <3>3 DEF Low, High
      <4>2. InOrder((Edge(g) + 1)..Edge(g + 1)) = FromTo(Edge(g), Edge(g + 1))
        BY <3>1, InOrderOfInterval
      <4> QED
        BY <3>1, <3>2, <3>3, <4>1, <4>2
    <3>4. CASE mode # "isolated"
      <4>1. (IF NumTasks <= High(g) THEN NumTasks ELSE High(g)) = NumTasks /\ Low(g) = 0
        BY <2>2, <3>4 DEF Low, High
      <4>2. InOrder((0 + 1)..NumTasks) = FromTo(0, NumTasks)
        BY <2>2, InOrderOfInterval
      <4>3. (0 + 1)..NumTasks = Tasks
        BY <2>2
      <4> QED
        BY <3>2, <3>4, <4>1, <4>2, <4>3
    <3> QED
      BY <3>3, <3>4
  <2> QED
    BY <2>8, <2>9
<1> QED
  BY <1>1, InitInv, Step, SmoothInit, SmoothStep, PTL DEF Spec

\* An experiment that died once, at any step, and was launched again ends with a line in
\* online_metrics.jsonl for every task, if no session was interrupted or retried: what the
\* second launch skips was reported by the first, and it drops none of those lines.
THEOREM RelaunchReports == Spec => []OneRelaunchReports
<1>1. IInv /\ SmoothInv => OneRelaunchReports
  <2> SUFFICES ASSUME IInv, SmoothInv, launches <= 2, Smooth, pc = "ended", NEW t \in Tasks
      PROVE  Lined(t)
    BY DEF OneRelaunchReports, EndedMeansReported, Smooth, Lined
  <2>1. /\ mode \in Modes /\ at > NumGroups /\ launches \in Nat
        /\ at \in 1..NumGroups + 1
    BY TypeParts DEF IInv, PlanInv, LoopType, DiskType, WorldType
  <2>2. launches # 0
    BY <2>1 DEF SmoothInv, FilesInv
  <2>3. launches \in 1..2 /\ Running
    BY <2>1, <2>2 DEF Running
  <2>4. GroupOf(t) \in 1..NumGroups /\ t \in Group(GroupOf(t)) /\ NumGroups \in Nat
    BY <2>1, GroupFacts, TasksAssumption
  <2>5. GroupOf(t) < at
    BY <2>1, <2>4
  <2> QED
    BY <2>3, <2>4, <2>5 DEF SmoothInv, ReportInv
<1> QED
  BY <1>1, InitInv, Step, SmoothInit, SmoothStep, PTL DEF Spec

=============================================================================
