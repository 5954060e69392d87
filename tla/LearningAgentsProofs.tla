------------------------ MODULE LearningAgentsProofs ------------------------
(***************************************************************************)
(* What holds of the learning agents' stores for any number of sessions,   *)
(* threads, reactions and tools.                                           *)
(*                                                                         *)
(* Sessions that run at the same time have met, so a session that has met  *)
(* nobody is the only one that runs, and what it has read of the store is  *)
(* still what is there.  In A-Mem's store it is the lock that leaves one   *)
(* session alone with what it has read.  And the store of an agent that is *)
(* not the evaluation's is as it was.                                      *)
(***************************************************************************)
EXTENDS LearningAgents, FiniteSetTheorems, TLAPS

vars == <<session, aceVars, harnessVars, autoskillVars, rbVars, amemVars>>

-----------------------------------------------------------------------------
(* Sessions                                                                *)

\* Two sessions that run now have met.
MetInv ==
  /\ at = [s \in Sessions |-> at[s]]
  /\ \A s, t \in Sessions : at[s] \notin Idle /\ at[t] \notin Idle /\ s # t => {s, t} \in met

\* What any step of any agent does to where the sessions are.
Moves(s) ==
  /\ method' = method
  /\ at' = [at EXCEPT ![s] = at'[s]]
  /\ \/ at[s] \notin Idle /\ met' = met
     \/ at[s] = "new" /\ met' = met \cup {{s, t} : t \in Running}
     \/ at' = at /\ met' = met

LEMMA ProceedMoves ==
  ASSUME MetInv, NEW s \in Sessions, NEW from, NEW to,
         from \notin Idle, Proceed(s, from, to)
  PROVE  Moves(s)
BY DEF Proceed, Moves, Go, setup, MetInv

LEMMA BeginMoves ==
  ASSUME MetInv, NEW s \in Sessions, NEW l, Begin(s, l)
  PROVE  Moves(s)
BY DEF Begin, Moves, Go, setup, MetInv

LEMMA LiveMoves ==
  ASSUME MetInv, NEW s \in Sessions, Live(s)
  PROVE  Moves(s)
<1>1. CASE SessionEnds(s)
  BY <1>1 DEF SessionEnds, Proceed, Moves, Go, setup, Idle, MetInv
<1>2. CASE Feedback(s)
  BY <1>2 DEF Feedback, Moves, Go, setup, Idle, MetInv
<1>3. CASE BenchmarkFails(s)
  BY <1>3 DEF BenchmarkFails, Proceed, Moves, Go, setup, Idle, MetInv
<1> QED
  BY <1>1, <1>2, <1>3 DEF Live

LEMMA ReactMoves ==
  ASSUME MetInv, NEW s \in Sessions, React(s)
  PROVE  Moves(s)
<1>1. Turn(s) /\ (Go(s, "closing") \/ Go(s, "scoring") \/ at' = at)
  BY Zenon DEF React
<1> QED
  BY <1>1 DEF Turn, Moves, Go, setup, Idle, MetInv

\* Sessions that run at the same time have met, after a move too.
LEMMA MetStep ==
  ASSUME MetInv, NEW s \in Sessions, Moves(s)
  PROVE  MetInv'
<1>1. CASE at' = at /\ met' = met
  BY <1>1 DEF MetInv, Idle
<1>2. CASE at[s] \notin Idle /\ met' = met
  BY <1>2 DEF Moves, MetInv, Idle
<1>3. CASE at[s] = "new" /\ met' = met \cup {{s, t} : t \in Running}
  BY <1>3 DEF Moves, MetInv, Idle, Running
<1> QED
  BY <1>1, <1>2, <1>3 DEF Moves

LEMMA MetInitially ==
  ASSUME SessionsInit
  PROVE  MetInv
<1>1. at \in [Sessions -> Idle]
  BY DEF SessionsInit, Idle
<1> QED
  BY <1>1 DEF MetInv

\* Whatever an agent does, one session moves.
LEMMA DriveMoves ==
  ASSUME MetInv, Drive
  PROVE  \E s \in Sessions : Moves(s)
BY LiveMoves DEF Drive

LEMMA AceMoves ==
  ASSUME MetInv, AceNext
  PROVE  \E s \in Sessions : Moves(s)
<1>1. PICK s \in Sessions : AceStart(s) \/ AceReact(s) \/ AceClose(s)
  BY DEF AceNext
<1>2. CASE AceStart(s)
  BY <1>2 DEF AceStart, Begin, Moves, Go, setup, MetInv
<1>3. CASE AceReact(s)
  BY <1>3, ReactMoves DEF AceReact
<1>4. CASE \/ ReflectBegin(s) \/ SkipReflection(s) \/ ReflectNothing(s) \/ ReflectTags(s)
           \/ TagsWrite(s) \/ CurateBegin(s) \/ SkipCurator(s) \/ CuratorFails(s)
  BY <1>4 DEF ReflectBegin, SkipReflection, ReflectNothing, ReflectTags, TagsWrite, CurateBegin,
              SkipCurator, CuratorFails, Proceed, Moves, Go, setup, Idle, MetInv
<1>5. CASE \/ NoOperations(s) \/ CurateApply(s) \/ CurateWrite(s) \/ NextIdWrite(s)
           \/ AnalyzeBegin(s) \/ AnalyzeNothing(s) \/ AnalyzeFails(s)
           \/ RecordLearning(s) \/ SaveCheckpoint(s)
  BY <1>5 DEF NoOperations, CurateApply, CurateWrite, NextIdWrite, AnalyzeBegin, AnalyzeNothing,
              AnalyzeFails, RecordLearning, SaveCheckpoint, Proceed, Moves, Go, setup, Idle, MetInv
<1>6. CASE AnalyzeWrite(s)
  <2>1. Proceed(s, "merging", "recording")
    BY <1>6 DEF AnalyzeWrite
  <2> QED
    BY <2>1 DEF Proceed, Moves, Go, setup, Idle, MetInv
<1> QED
  BY <1>1, <1>2, <1>3, <1>4, <1>5, <1>6 DEF AceClose

LEMMA HarnessMoves ==
  ASSUME MetInv, HarnessNext
  PROVE  \E s \in Sessions : Moves(s)
<1>1. PICK s \in Sessions :
        \/ HarnessStart(s) \/ ListSkills(s) \/ ListNothing(s) \/ EmbedListed(s) \/ Retrieved(s)
        \/ HarnessReact(s) \/ HarnessClose(s)
  BY DEF HarnessNext
<1>2. CASE HarnessStart(s)
  BY <1>2 DEF HarnessStart, Begin, Moves, Go, setup, MetInv
<1>3. CASE HarnessReact(s)
  BY <1>3, ReactMoves DEF HarnessReact
<1>4. CASE EmbedListed(s) \/ EditPrompt(s) \/ EditMemory(s) \/ \E n \in SkillNames : DeleteSkill(s, n)
  <2>1. UNCHANGED session
    BY <1>4 DEF EmbedListed, EditPrompt, EditMemory, DeleteSkill
  <2> QED
    BY <2>1 DEF session, setup, Moves, MetInv
<1>5. CASE \/ ListSkills(s) \/ ListNothing(s) \/ Retrieved(s) \/ EvolverBegin(s) \/ NoTrajectory(s)
           \/ SetEmbedding(s) \/ Rollback(s) \/ CommitVersion(s) \/ HarnessRecord(s)
  BY <1>5 DEF ListSkills, ListNothing, Retrieved, EvolverBegin, NoTrajectory, SetEmbedding, Rollback,
              CommitVersion, HarnessRecord, Proceed, Moves, Go, setup, Idle, MetInv
<1>6. CASE EvolverEnds(s)
  BY <1>6 DEF EvolverEnds, Proceed, Moves, Go, setup, Idle, MetInv
<1>7. CASE \E n \in SkillNames : AddSkill(s, n) \/ EditSkill(s, n)
  <2>1. Proceed(s, "evolving", "embedding") \/ UNCHANGED session
    BY <1>7 DEF AddSkill, EditSkill
  <2> QED
    BY <2>1 DEF Proceed, session, Moves, Go, setup, Idle, MetInv
<1> QED
  BY <1>1, <1>2, <1>3, <1>4, <1>5, <1>6, <1>7 DEF HarnessClose

LEMMA AutoskillMoves ==
  ASSUME MetInv, AutoskillNext
  PROVE  \E s \in Sessions : Moves(s)
<1>1. PICK s \in Sessions :
        \/ AutoskillStart(s) \/ AutoskillReact(s) \/ NoCandidate(s) \/ FindSimilar(s) \/ JudgeFails(s)
        \/ Discard(s) \/ AddToBank(s) \/ IndexAdded(s) \/ MergeIntoBank(s)
        \/ IndexMerged(s) \/ IndexFails(s) \/ AutoskillRecord(s)
  BY DEF AutoskillNext
<1>2. CASE AutoskillStart(s)
  BY <1>2 DEF AutoskillStart, Begin, Moves, Go, setup, MetInv
<1>3. CASE AutoskillReact(s)
  BY <1>3, ReactMoves DEF AutoskillReact
<1>4. CASE \/ NoCandidate(s) \/ JudgeFails(s) \/ Discard(s) \/ AddToBank(s) \/ IndexAdded(s)
           \/ IndexMerged(s) \/ IndexFails(s) \/ AutoskillRecord(s)
  BY <1>4 DEF NoCandidate, JudgeFails, Discard, AddToBank, IndexAdded, IndexMerged, IndexFails,
              AutoskillRecord, Proceed, Moves, Go, setup, Idle, MetInv
<1>5. CASE FindSimilar(s)
  <2>1. Proceed(s, "closing", "judging")
    BY <1>5 DEF FindSimilar
  <2> QED
    BY <2>1 DEF Proceed, Moves, Go, setup, Idle, MetInv
<1>6. CASE MergeIntoBank(s)
  BY <1>6 DEF MergeIntoBank, Proceed, Moves, Go, setup, Idle, MetInv
<1> QED
  BY <1>1, <1>2, <1>3, <1>4, <1>5, <1>6

LEMMA AmemMoves ==
  ASSUME MetInv, AmemNext
  PROVE  \E s \in Sessions : Moves(s)
<1>1. PICK s \in Sessions :
        \/ AmemStart(s) \/ AmemCounts(s) \/ Recalls(s) \/ RecallRaises(s)
        \/ AmemReact(s) \/ TooShort(s) \/ AddMemory(s) \/ NoEvolution(s)
        \/ Evolve(s) \/ StoreNote(s) \/ IndexNoteFails(s) \/ Consolidate(s)
        \/ ConsolidateFails(s) \/ AmemRecord(s) \/ AmemSave(s)
  BY DEF AmemNext
<1>2. CASE AmemStart(s)
  BY <1>2 DEF AmemStart, Begin, Moves, Go, setup, MetInv
<1>3. CASE AmemReact(s)
  BY <1>3 DEF AmemReact, Turn, Moves, Go, setup, Idle, MetInv
<1>4. CASE \/ Recalls(s) \/ RecallRaises(s) \/ TooShort(s) \/ AddMemory(s)
           \/ IndexNoteFails(s) \/ ConsolidateFails(s) \/ AmemRecord(s) \/ AmemSave(s)
  BY <1>4 DEF Recalls, RecallRaises, TooShort, AddMemory, IndexNoteFails, ConsolidateFails,
              AmemRecord, AmemSave, Proceed, Moves, Go, setup, Idle, MetInv
<1>5. CASE AmemCounts(s) \/ StoreNote(s)
  BY <1>5 DEF AmemCounts, StoreNote, Proceed, Moves, Go, setup, Idle, MetInv
<1>6. CASE Consolidate(s) \/ Evolve(s) \/ NoEvolution(s)
  <2>1. Proceed(s, "consolidating", "recording") \/ Proceed(s, "evolving note", "adding")
    BY <1>6 DEF Consolidate, Evolve, NoEvolution
  <2> QED
    BY <2>1 DEF Proceed, Moves, Go, setup, Idle, MetInv
<1> QED
  BY <1>1, <1>2, <1>3, <1>4, <1>5, <1>6

LEMMA RbMoves ==
  ASSUME MetInv, RbNext
  PROVE  \E s \in Sessions : Moves(s)
<1>1. PICK s \in Sessions :
        \/ RbStart(s) \/ NoMemories(s) \/ ReadEmbeddings(s) \/ ReadEntries(s) \/ SelectMemory(s)
        \/ RbReact(s) \/ NothingToLearn(s) \/ Evaluate(s) \/ InduceNothing(s)
        \/ AddEntry(s) \/ RbSave(s)
  BY DEF RbNext
<1>2. CASE RbStart(s)
  BY <1>2 DEF RbStart, Begin, Moves, Go, setup, MetInv
<1>3. CASE RbReact(s)
  BY <1>3, ReactMoves DEF RbReact
<1>4. CASE \/ NoMemories(s) \/ ReadEmbeddings(s) \/ ReadEntries(s) \/ SelectMemory(s)
           \/ NothingToLearn(s) \/ Evaluate(s) \/ InduceNothing(s) \/ AddEntry(s) \/ RbSave(s)
  BY <1>4 DEF NoMemories, ReadEmbeddings, ReadEntries, SelectMemory, NothingToLearn, Evaluate,
              InduceNothing, AddEntry, RbSave, Proceed, Moves, Go, setup, Idle, MetInv
<1> QED
  BY <1>1, <1>2, <1>3, <1>4

-----------------------------------------------------------------------------
(* The reasoning bank                                                      *)

Mem == [by : Sessions, status : Statuses \cup {"none"}]

\* What was read, or saved, of the two lists is a prefix of what they are.
Within(short, long) ==
  Len(short) \leq Len(long) /\ \A i \in 1..Len(short) : short[i] = long[i]

RbTypes ==
  /\ rbEntries \in Seq(Mem) /\ rbEmbeddings \in Seq(Sessions)
  /\ seen \in [Sessions -> [embeddings : Seq(Sessions), entries : Seq(Mem)]]
  /\ rbFile \in [Sessions -> [entries : Seq(Mem), embeddings : Seq(Sessions)]]
  /\ verdict \in [Sessions -> Statuses \cup {"none"}]
  /\ recalled = [s \in Sessions |-> recalled[s]]

\* The two lists grow together, and the embeddings were read first: the entries
\* that were read have them all.
RbLists ==
  /\ Len(rbEntries) = Len(rbEmbeddings)
  /\ \A i \in 1..Len(rbEntries) : rbEntries[i].by = rbEmbeddings[i]

RbReads(s) ==
  /\ Within(seen[s].embeddings, rbEmbeddings) /\ Within(seen[s].entries, rbEntries)
  /\ at[s] = "scoring memories" \/ method # "reasoning_bank" =>
       Len(seen[s].embeddings) \leq Len(seen[s].entries)

RbFiled(s) ==
  /\ Len(rbFile[s].entries) = Len(rbFile[s].embeddings)
  /\ Within(rbFile[s].embeddings, rbEmbeddings)

RbInv ==
  /\ MetInv
  /\ RbTypes /\ RbLists
  /\ \A s \in Sessions : RbReads(s) /\ RbFiled(s)
  /\ \A s \in Sessions : recalled[s] # <<>> => recalled[s][1] = recalled[s][2]

LEMMA WithinSelf ==
  ASSUME NEW S, NEW a \in Seq(S)
  PROVE  Within(a, a)
BY DEF Within

LEMMA WithinLonger ==
  ASSUME NEW S, NEW a \in Seq(S), NEW b \in Seq(S), NEW c \in Seq(S), Within(a, b), Within(b, c)
  PROVE  Within(a, c)
BY DEF Within

LEMMA WithinAppend ==
  ASSUME NEW S, NEW a \in Seq(S), NEW x \in S
  PROVE  Within(a, Append(a, x))
BY DEF Within

\* What holds of a session that the step does not concern.
LEMMA RbFrame ==
  ASSUME RbTypes, RbTypes', Within(rbEntries, rbEntries'), Within(rbEmbeddings, rbEmbeddings'),
         NEW t \in Sessions, RbReads(t), RbFiled(t), method' = method,
         seen'[t] = seen[t], rbFile'[t] = rbFile[t],
         at'[t] = "scoring memories" => at[t] = "scoring memories"
  PROVE  RbReads(t)' /\ RbFiled(t)'
<1>1. Within(seen[t].embeddings, rbEmbeddings')
  <2>1. seen[t].embeddings \in Seq(Sessions) /\ rbEmbeddings \in Seq(Sessions)
        /\ rbEmbeddings' \in Seq(Sessions) /\ Within(seen[t].embeddings, rbEmbeddings)
    BY DEF RbTypes, RbReads
  <2> QED
    BY <2>1, WithinLonger
<1>2. Within(seen[t].entries, rbEntries')
  <2>1. seen[t].entries \in Seq(Mem) /\ rbEntries \in Seq(Mem)
        /\ rbEntries' \in Seq(Mem) /\ Within(seen[t].entries, rbEntries)
    BY DEF RbTypes, RbReads
  <2> QED
    BY <2>1, WithinLonger
<1>3. Within(rbFile[t].embeddings, rbEmbeddings')
  <2>1. rbFile[t].embeddings \in Seq(Sessions) /\ rbEmbeddings \in Seq(Sessions)
        /\ rbEmbeddings' \in Seq(Sessions) /\ Within(rbFile[t].embeddings, rbEmbeddings)
    BY DEF RbTypes, RbFiled
  <2> QED
    BY <2>1, WithinLonger
<1> QED
  BY <1>1, <1>2, <1>3 DEF RbReads, RbFiled

\* A session that the step does not take to a place was there before.
LEMMA WasThere ==
  ASSUME MetInv, NEW s \in Sessions, Moves(s), NEW l, at'[s] # l, NEW t \in Sessions, at'[t] = l
  PROVE  at[t] = l
BY DEF MetInv, Moves

\* A step that leaves the reasoning bank alone.
LEMMA RbUntouched ==
  ASSUME RbInv, NEW s \in Sessions, Moves(s), UNCHANGED rbVars,
         at'[s] = "scoring memories" => at[s] = "scoring memories" \/ method # "reasoning_bank"
  PROVE  RbInv'
<1>1. MetInv'
  BY MetStep DEF RbInv
<1>2. ASSUME NEW t \in Sessions PROVE RbReads(t)'
  <2>1. CASE method # "reasoning_bank"
    BY <2>1 DEF RbInv, RbReads, rbVars, rbStore, Within
  <2>2. CASE method = "reasoning_bank"
    BY <2>2 DEF RbInv, RbReads, RbTypes, rbVars, rbStore, Within, Moves, MetInv
  <2> QED
    BY <2>1, <2>2
<1>3. ASSUME NEW t \in Sessions PROVE RbFiled(t)'
  BY DEF RbInv, RbFiled, rbVars, rbStore, Within
<1> QED
  BY <1>1, <1>2, <1>3 DEF RbInv, RbTypes, RbLists, rbVars, rbStore, Moves

\* An action of the reasoning bank keeps the invariant.
LEMMA RbStep ==
  ASSUME RbInv, method = "reasoning_bank", RbNext
  PROVE  RbInv'
<1>1. PICK s \in Sessions :
        \/ RbStart(s) \/ NoMemories(s) \/ ReadEmbeddings(s) \/ ReadEntries(s) \/ SelectMemory(s)
        \/ RbReact(s) \/ NothingToLearn(s) \/ Evaluate(s) \/ InduceNothing(s)
        \/ AddEntry(s) \/ RbSave(s)
  BY DEF RbNext
<1>2. /\ MetInv /\ RbTypes /\ RbLists
      /\ \A t \in Sessions : RbReads(t) /\ RbFiled(t)
      /\ \A t \in Sessions : recalled[t] # <<>> => recalled[t][1] = recalled[t][2]
  BY DEF RbInv
<1>3. Within(rbEntries, rbEntries) /\ Within(rbEmbeddings, rbEmbeddings)
  BY <1>2, WithinSelf DEF RbTypes
<1>4. CASE NoMemories(s) \/ RbReact(s) \/ NothingToLearn(s) \/ InduceNothing(s)
  <2>1. UNCHANGED rbVars
    BY <1>4 DEF NoMemories, RbReact, NothingToLearn, InduceNothing
  <2>2. CASE RbReact(s)
    <3>1. Turn(s) /\ (Go(s, "closing") \/ Go(s, "scoring") \/ at' = at)
      BY <2>2, Zenon DEF RbReact, React
    <3>2. Moves(s) /\ (at'[s] = "scoring memories" => at[s] = "scoring memories")
      BY <3>1, <1>2 DEF Turn, Moves, Go, setup, Idle, MetInv
    <3> QED
      BY <2>1, <3>2, RbUntouched
  <2>3. CASE NoMemories(s) \/ NothingToLearn(s) \/ InduceNothing(s)
    <3>1. Moves(s) /\ at'[s] # "scoring memories"
      BY <1>2, <2>3 DEF NoMemories, NothingToLearn, InduceNothing, Proceed, Moves, Go, setup, Idle,
                        MetInv
    <3> QED
      BY <2>1, <3>1, RbUntouched
  <2> QED
    BY <1>4, <2>2, <2>3
<1>5. CASE RbStart(s)
  <2>1. Moves(s) /\ at'[s] # "scoring memories"
    BY <1>2, <1>5 DEF RbStart, Begin, Moves, Go, setup, MetInv
  <2>2. RbTypes' /\ RbLists'
    BY <1>2, <1>5 DEF RbStart, RbTypes, RbLists
  <2>3. ASSUME NEW t \in Sessions PROVE RbReads(t)' /\ RbFiled(t)'
    BY <1>2, <1>3, <1>5, <2>1, <2>2, RbFrame, WasThere DEF RbStart, Moves
  <2> QED
    BY <1>2, <1>5, <2>1, <2>2, <2>3, MetStep DEF RbInv, RbStart
<1>6. CASE ReadEmbeddings(s)
  <2>1. Moves(s) /\ at'[s] = "reading"
    BY <1>2, <1>6 DEF ReadEmbeddings, Proceed, Moves, Go, setup, Idle, MetInv
  <2>2. RbTypes' /\ RbLists'
    BY <1>2, <1>6 DEF ReadEmbeddings, RbTypes, RbLists, rbStore
  <2>3. ASSUME NEW t \in Sessions, t # s PROVE RbReads(t)' /\ RbFiled(t)'
    BY <1>2, <1>3, <1>6, <2>1, <2>2, <2>3, RbFrame, WasThere
       DEF ReadEmbeddings, Moves, RbTypes, rbStore
  <2>4. RbReads(s)' /\ RbFiled(s)'
    <3>1. /\ seen'[s].embeddings = rbEmbeddings /\ seen'[s].entries = seen[s].entries
          /\ UNCHANGED <<rbEntries, rbEmbeddings, rbFile, method>>
      BY <1>2, <1>6, <2>1 DEF ReadEmbeddings, RbTypes, rbStore, Moves
    <3> QED
      BY <1>2, <1>3, <2>1, <3>1 DEF RbReads, RbFiled
  <2> QED
    BY <1>2, <1>6, <2>1, <2>2, <2>3, <2>4, MetStep DEF RbInv, ReadEmbeddings
<1>7. CASE ReadEntries(s)
  <2>1. Moves(s)
    BY <1>2, <1>7 DEF ReadEntries, Proceed, Moves, Go, setup, Idle, MetInv
  <2>2. RbTypes' /\ RbLists'
    BY <1>2, <1>7 DEF ReadEntries, RbTypes, RbLists, rbStore
  <2>3. ASSUME NEW t \in Sessions, t # s PROVE RbReads(t)' /\ RbFiled(t)'
    <3>1. /\ seen'[t] = seen[t] /\ at'[t] = at[t] /\ rbFile' = rbFile /\ method' = method
          /\ rbEntries' = rbEntries /\ rbEmbeddings' = rbEmbeddings
      BY <1>2, <1>7, <2>1, <2>3 DEF ReadEntries, Moves, RbTypes, rbStore, MetInv
    <3> QED
      BY <1>2, <1>3, <2>2, <3>1, RbFrame
  <2>4. RbReads(s)' /\ RbFiled(s)'
    <3>1. UNCHANGED <<rbEntries, rbEmbeddings, rbFile, method>>
      BY <1>7, <2>1 DEF ReadEntries, rbStore, Moves
    <3>2. seen \in [Sessions -> [embeddings : Seq(Sessions), entries : Seq(Mem)]]
          /\ seen' = [seen EXCEPT ![s].entries = rbEntries]
      BY <1>2, <1>7 DEF ReadEntries, RbTypes
    <3>3. seen'[s].embeddings = seen[s].embeddings /\ seen'[s].entries = rbEntries
      BY <3>2
    <3>4. Len(seen[s].embeddings) \leq Len(rbEntries)
      BY <1>2 DEF RbReads, RbLists, Within
    <3> QED
      BY <1>2, <1>3, <3>1, <3>3, <3>4 DEF RbReads, RbFiled
  <2> QED
    BY <1>2, <1>7, <2>1, <2>2, <2>3, <2>4, MetStep DEF RbInv, ReadEntries
<1>8. CASE SelectMemory(s)
  <2>1. Moves(s) /\ at'[s] # "scoring memories"
    BY <1>2, <1>8 DEF SelectMemory, Proceed, Moves, Go, setup, Idle, MetInv
  <2>2. RbTypes' /\ RbLists'
    BY <1>2, <1>8 DEF SelectMemory, RbTypes, RbLists, rbStore
  <2>3. ASSUME NEW t \in Sessions PROVE RbReads(t)' /\ RbFiled(t)'
    BY <1>2, <1>3, <1>8, <2>1, <2>2, RbFrame, WasThere DEF SelectMemory, Moves, rbStore
  <2>4. ASSUME NEW t \in Sessions, recalled'[t] # <<>> PROVE recalled'[t][1] = recalled'[t][2]
    <3>1. CASE UNCHANGED recalled
      BY <1>2, <3>1, <2>4
    <3>2. CASE \E i \in 1..Len(seen[s].embeddings) :
                 /\ i \leq Len(rbEntries) /\ i \leq Len(seen[s].entries)
                 /\ recalled' = [recalled EXCEPT
                      ![s] = <<seen[s].embeddings[i], seen[s].entries[i].by>>]
      <4>1. PICK i \in 1..Len(seen[s].embeddings) :
              /\ i \leq Len(rbEntries) /\ i \leq Len(seen[s].entries)
              /\ recalled' = [recalled EXCEPT
                   ![s] = <<seen[s].embeddings[i], seen[s].entries[i].by>>]
        BY <3>2
      <4>2. /\ i \in 1..Len(seen[s].entries) /\ i \in 1..Len(rbEntries)
            /\ i \in 1..Len(seen[s].embeddings)
        BY <4>1, <1>2 DEF RbTypes
      <4>3. seen[s].embeddings[i] = rbEmbeddings[i] /\ seen[s].entries[i] = rbEntries[i]
        BY <4>2, <1>2 DEF RbReads, Within
      <4>4. rbEntries[i].by = rbEmbeddings[i]
        BY <4>2, <1>2 DEF RbLists
      <4>5. CASE t = s
        BY <1>2, <4>1, <4>3, <4>4, <4>5 DEF RbTypes
      <4>6. CASE t # s
        BY <1>2, <4>1, <4>6, <2>4 DEF RbTypes
      <4> QED
        BY <4>5, <4>6
    <3> QED
      BY <1>8, <3>1, <3>2 DEF SelectMemory
  <2> QED
    BY <2>1, <2>2, <2>3, <2>4, <1>2, MetStep DEF RbInv
<1>9. CASE Evaluate(s)
  <2>1. Moves(s) /\ at'[s] # "scoring memories"
    BY <1>2, <1>9 DEF Evaluate, Proceed, Moves, Go, setup, Idle, MetInv
  <2>2. RbTypes' /\ RbLists'
    BY <1>2, <1>9 DEF Evaluate, RbTypes, RbLists, rbStore
  <2>3. ASSUME NEW t \in Sessions PROVE RbReads(t)' /\ RbFiled(t)'
    BY <1>2, <1>3, <1>9, <2>1, <2>2, RbFrame, WasThere DEF Evaluate, Moves, rbStore
  <2> QED
    BY <1>2, <1>9, <2>1, <2>2, <2>3, MetStep DEF RbInv, Evaluate
<1>10. CASE AddEntry(s)
  <2>1. Moves(s) /\ at'[s] # "scoring memories"
    BY <1>2, <1>10 DEF AddEntry, Proceed, Moves, Go, setup, Idle, MetInv
  <2> DEFINE m == [by |-> s, status |-> verdict[s]]
  <2>2. m \in Mem /\ rbEntries \in Seq(Mem) /\ rbEmbeddings \in Seq(Sessions)
    BY <1>2 DEF RbTypes, Mem
  <2>3. rbEntries' = Append(rbEntries, m) /\ rbEmbeddings' = Append(rbEmbeddings, s) /\ m.by = s
    BY <1>10 DEF AddEntry
  <2> HIDE DEF m
  <2>4. RbTypes'
    BY <1>2, <1>10, <2>2, <2>3 DEF AddEntry, RbTypes
  <2>5. RbLists'
    <3>1. Len(rbEntries') = Len(rbEntries) + 1 /\ Len(rbEmbeddings') = Len(rbEmbeddings) + 1
      BY <2>2, <2>3
    <3>2. ASSUME NEW i \in 1..Len(rbEntries') PROVE rbEntries'[i].by = rbEmbeddings'[i]
      <4>1. CASE i \leq Len(rbEntries)
        BY <1>2, <2>2, <2>3, <3>1, <4>1 DEF RbLists
      <4>2. CASE i = Len(rbEntries) + 1
        <5>1. Len(rbEntries) = Len(rbEmbeddings)
          BY <1>2 DEF RbLists
        <5>2. rbEntries'[i] = m
          BY <2>2, <2>3, <4>2
        <5>3. rbEmbeddings'[i] = s
          BY <2>2, <2>3, <4>2, <5>1
        <5> QED
          BY <2>3, <5>2, <5>3
      <4> QED
        BY <2>2, <3>1, <4>1, <4>2
    <3> QED
      BY <1>2, <3>1, <3>2 DEF RbLists
  <2>6. Within(rbEntries, rbEntries') /\ Within(rbEmbeddings, rbEmbeddings')
    BY <2>2, <2>3, WithinAppend
  <2>7. ASSUME NEW t \in Sessions PROVE RbReads(t)' /\ RbFiled(t)'
    BY <1>2, <1>10, <2>1, <2>4, <2>6, RbFrame, WasThere DEF AddEntry, Moves
  <2> QED
    BY <1>2, <1>10, <2>1, <2>4, <2>5, <2>7, MetStep DEF RbInv, AddEntry
<1>11. CASE RbSave(s)
  <2>1. Moves(s) /\ at'[s] # "scoring memories"
    BY <1>2, <1>11 DEF RbSave, Proceed, Moves, Go, setup, Idle, MetInv
  <2>2. \/ rbFile' = [rbFile EXCEPT ![s] = [entries |-> rbEntries, embeddings |-> rbEmbeddings]]
        \/ rbFile' = rbFile
    BY <1>11 DEF RbSave
  <2>3. RbTypes' /\ RbLists'
    <3>1. [entries |-> rbEntries, embeddings |-> rbEmbeddings]
            \in [entries : Seq(Mem), embeddings : Seq(Sessions)]
      BY <1>2 DEF RbTypes
    <3>2. rbFile' \in [Sessions -> [entries : Seq(Mem), embeddings : Seq(Sessions)]]
      BY <1>2, <2>2, <3>1 DEF RbTypes
    <3> QED
      BY <1>2, <1>11, <3>2 DEF RbSave, RbTypes, RbLists, rbStore
  <2>4. ASSUME NEW t \in Sessions, rbFile'[t] = rbFile[t] PROVE RbReads(t)' /\ RbFiled(t)'
    BY <1>2, <1>3, <1>11, <2>1, <2>3, <2>4, RbFrame, WasThere DEF RbSave, Moves, rbStore
  <2>5. ASSUME NEW t \in Sessions, rbFile'[t] # rbFile[t] PROVE RbReads(t)' /\ RbFiled(t)'
    <3>1. rbFile'[t].entries = rbEntries /\ rbFile'[t].embeddings = rbEmbeddings
      BY <1>2, <2>2, <2>5 DEF RbTypes
    <3>2. UNCHANGED <<seen, rbEntries, rbEmbeddings, method>>
      BY <1>11, <2>1 DEF RbSave, rbStore, Moves
    <3>3. at'[t] = "scoring memories" => at[t] = "scoring memories"
      BY <1>2, <2>1, WasThere
    <3> QED
      BY <1>2, <1>3, <3>1, <3>2, <3>3 DEF RbReads, RbFiled, RbLists
  <2> QED
    BY <1>2, <1>11, <2>1, <2>3, <2>4, <2>5, MetStep DEF RbInv, RbSave
<1> QED
  BY <1>1, <1>4, <1>5, <1>6, <1>7, <1>8, <1>9, <1>10, <1>11

LEMMA RbInitially == Init => RbInv
<1> SUFFICES ASSUME Init PROVE RbInv
  OBVIOUS
<1> USE DEF Init, RbInit
<1>1. MetInv
  BY MetInitially
<1>2. /\ RbTypes
      /\ Len(rbEntries) = 0 /\ Len(rbEmbeddings) = 0
      /\ \A s \in Sessions : /\ seen[s].embeddings = rbEmbeddings /\ seen[s].entries = rbEntries
                            /\ rbFile[s].entries = rbEntries /\ rbFile[s].embeddings = rbEmbeddings
                            /\ recalled[s] = <<>>
  BY DEF RbTypes, Unread, NoCheckpoint
<1>3. RbLists
  BY <1>2 DEF RbLists
<1>4. ASSUME NEW s \in Sessions PROVE RbReads(s) /\ RbFiled(s)
  <2>1. Within(rbEmbeddings, rbEmbeddings) /\ Within(rbEntries, rbEntries)
    BY <1>2, WithinSelf DEF RbTypes
  <2>2. Len(rbEmbeddings) \leq Len(rbEntries)
    BY <1>2
  <2> QED
    BY <1>2, <2>1, <2>2 DEF RbReads, RbFiled
<1> QED
  BY <1>1, <1>2, <1>3, <1>4 DEF RbInv

LEMMA RbAlways == RbInv /\ [Next]_vars => RbInv'
<1> SUFFICES ASSUME RbInv, [Next]_vars PROVE RbInv'
  OBVIOUS
<1>1. MetInv
  BY DEF RbInv
<1>2. CASE method = "reasoning_bank" /\ RbNext
  BY <1>2, RbStep
<1>3. CASE method = "reasoning_bank" /\ Drive /\ UNCHANGED rbVars
  <2>1. PICK s \in Sessions : Live(s)
    BY <1>3 DEF Drive
  <2>2. Moves(s) /\ at'[s] # "scoring memories"
    BY <1>1, <2>1 DEF Live, SessionEnds, Feedback, BenchmarkFails, Proceed, Moves, Go, setup, Idle, MetInv
  <2> QED
    BY <1>3, <2>2, RbUntouched
<1>4. CASE method # "reasoning_bank" /\ (AceNext \/ HarnessNext \/ AutoskillNext \/ AmemNext \/ Drive)
           /\ UNCHANGED rbVars
  <2>1. PICK s \in Sessions : Moves(s)
    BY <1>1, <1>4, AceMoves, HarnessMoves, AutoskillMoves, AmemMoves, DriveMoves
  <2> QED
    BY <1>4, <2>1, RbUntouched
<1>5. CASE UNCHANGED vars
  BY <1>5 DEF vars, session, setup, rbVars, rbStore, RbInv, MetInv, RbTypes, RbLists, RbReads, RbFiled, Within
<1>6. CASE Next
  BY <1>2, <1>3, <1>4, <1>5, <1>6, Zenon DEF Next, vars
<1> QED
  BY <1>5, <1>6

\* A session that has not come to save has no memory in the list yet, and none
\* has a file before it is done; the file then has what the list had.
RbOwn(s) ==
  /\ method # "reasoning_bank" => rbEntries = <<>>
  /\ at[s] \notin {"saving", "done"} => \A i \in 1..Len(rbEntries) : rbEntries[i].by # s
  /\ at[s] # "done" => rbFile[s] = NoCheckpoint
  /\ rbFile[s] # NoCheckpoint => HoldsWhatCameBefore(s)

RbOwnInv == \A s \in Sessions : RbOwn(s)

\* A step that leaves the memories and the files alone.
LEMMA RbOwnUntouched ==
  ASSUME RbInv, RbOwnInv, NEW s \in Sessions, Moves(s), UNCHANGED <<rbEntries, rbFile>>,
         at[s] \in {"saving", "done"} => at'[s] \in {"saving", "done"} \/ method # "reasoning_bank"
  PROVE  RbOwnInv'
<1>1. at = [t \in Sessions |-> at[t]]
  BY DEF RbInv, MetInv
<1>2. ASSUME NEW t \in Sessions PROVE RbOwn(t)'
  <2>1. RbOwn(t) /\ RbOwn(s)
    BY DEF RbOwnInv
  <2>2. at[t] = "done" => at'[t] = "done"
    BY <1>1 DEF Moves, Idle
  <2>3. at'[t] \notin {"saving", "done"} => at[t] \notin {"saving", "done"} \/ method # "reasoning_bank"
    BY <1>1 DEF Moves, Idle
  <2>4. method' = method
    BY DEF Moves
  <2>5. HoldsWhatCameBefore(t) => HoldsWhatCameBefore(t)'
    BY DEF HoldsWhatCameBefore
  <2>6. rbEntries = <<>> => \A i \in 1..Len(rbEntries) : rbEntries[i].by # t
    OBVIOUS
  <2>7. (at[t] \notin {"saving", "done"})' => \A i \in 1..Len(rbEntries) : rbEntries[i].by # t
    BY <2>1, <2>3, <2>6 DEF RbOwn
  <2> QED
    BY <2>1, <2>2, <2>4, <2>5, <2>7 DEF RbOwn
<1> QED
  BY <1>2 DEF RbOwnInv

\* Another session's memory comes behind what a file has.
LEMMA RbOwnAdds ==
  ASSUME RbInv, RbOwnInv, method = "reasoning_bank", NEW s \in Sessions, AddEntry(s)
  PROVE  RbOwnInv'
<1> DEFINE m == [by |-> s, status |-> verdict[s]]
<1>1. m \in Mem /\ rbEntries \in Seq(Mem) /\ m.by = s
  BY DEF RbInv, RbTypes, Mem
<1>2. rbEntries' = Append(rbEntries, m)
  BY DEF AddEntry
<1> HIDE DEF m
<1>3. /\ at[s] = "inducing" /\ at'[s] = "saving" /\ rbFile' = rbFile /\ method' = method
      /\ \A t \in Sessions : t # s => at'[t] = at[t]
  BY DEF AddEntry, Proceed, Go, setup, RbInv, MetInv
<1>4. /\ Len(rbEntries') = Len(rbEntries) + 1
      /\ \A i \in 1..Len(rbEntries) : rbEntries'[i] = rbEntries[i]
      /\ rbEntries'[Len(rbEntries) + 1] = m
  BY <1>1, <1>2
<1>5. ASSUME NEW t \in Sessions PROVE RbOwn(t)'
  <2>1. RbOwn(t)
    BY DEF RbOwnInv
  <2>2. CASE t = s
    <3>1. rbFile'[t] = NoCheckpoint
      BY <1>3, <2>1, <2>2 DEF RbOwn
    <3> QED
      BY <1>3, <2>2, <3>1 DEF RbOwn, NoCheckpoint
  <2>3. CASE t # s
    <3>1. at'[t] = at[t] /\ rbFile'[t] = rbFile[t]
      BY <1>3, <2>3
    <3>2. ASSUME NEW i \in 1..Len(rbEntries'), rbEntries'[i].by = t
          PROVE  i \in 1..Len(rbEntries) /\ rbEntries[i].by = t
      <4>1. Len(rbEntries) \in Nat
        BY <1>1
      <4>2. CASE i = Len(rbEntries) + 1
        BY <1>1, <1>4, <2>3, <3>2, <4>2
      <4>3. CASE i \in 1..Len(rbEntries)
        BY <1>4, <3>2, <4>3
      <4> QED
        BY <1>4, <4>1, <4>2, <4>3
    <3>3. HoldsWhatCameBefore(t) => HoldsWhatCameBefore(t)'
      <4>1. Len(rbEntries) \in Nat /\ Len(rbFile[t].entries) \in Nat
        BY <1>1 DEF RbInv, RbTypes
      <4> QED
        BY <1>4, <3>1, <3>2, <4>1 DEF HoldsWhatCameBefore
    <3> QED
      BY <1>3, <2>1, <3>1, <3>2, <3>3 DEF RbOwn, NoCheckpoint
  <2> QED
    BY <2>2, <2>3
<1> QED
  BY <1>5 DEF RbOwnInv

\* A session's file has the list as it is.
LEMMA RbOwnSaves ==
  ASSUME RbInv, RbOwnInv, method = "reasoning_bank", NEW s \in Sessions, RbSave(s)
  PROVE  RbOwnInv'
<1>1. /\ at[s] = "saving" /\ at'[s] = "done" /\ rbEntries' = rbEntries /\ method' = method
      /\ \A t \in Sessions : t # s => at'[t] = at[t]
  BY DEF RbSave, Proceed, Go, setup, rbStore, RbInv, MetInv
<1>2. \/ rbFile' = [rbFile EXCEPT ![s] = [entries |-> rbEntries, embeddings |-> rbEmbeddings]]
      \/ rbFile' = rbFile
  BY DEF RbSave
<1>3. rbFile \in [Sessions -> [entries : Seq(Mem), embeddings : Seq(Sessions)]]
      /\ rbEntries \in Seq(Mem)
  BY DEF RbInv, RbTypes
<1>4. ASSUME NEW t \in Sessions PROVE RbOwn(t)'
  <2>1. RbOwn(t)
    BY DEF RbOwnInv
  <2>2. CASE rbFile'[t] = rbFile[t]
    <3>1. HoldsWhatCameBefore(t) => HoldsWhatCameBefore(t)'
      BY <1>1, <2>2 DEF HoldsWhatCameBefore
    <3>2. /\ (at[t] \notin {"saving", "done"})' => at[t] \notin {"saving", "done"}
          /\ (at[t] # "done")' => at[t] # "done"
      BY <1>1
    <3> QED
      BY <1>1, <2>1, <2>2, <3>1, <3>2 DEF RbOwn, NoCheckpoint
  <2>3. CASE rbFile'[t] # rbFile[t]
    <3>1. t = s /\ rbFile'[t].entries = rbEntries
      BY <1>2, <1>3, <2>3
    <3>2. HoldsWhatCameBefore(t)'
      BY <1>1, <1>3, <3>1 DEF HoldsWhatCameBefore
    <3> QED
      BY <1>1, <2>1, <3>1, <3>2 DEF RbOwn
  <2> QED
    BY <2>2, <2>3
<1> QED
  BY <1>4 DEF RbOwnInv

\* An action of the reasoning bank keeps it.
LEMMA RbOwnStep ==
  ASSUME RbInv, RbOwnInv, method = "reasoning_bank", RbNext
  PROVE  RbOwnInv'
<1>1. PICK s \in Sessions :
        \/ RbStart(s) \/ NoMemories(s) \/ ReadEmbeddings(s) \/ ReadEntries(s) \/ SelectMemory(s)
        \/ RbReact(s) \/ NothingToLearn(s) \/ Evaluate(s) \/ InduceNothing(s)
        \/ AddEntry(s) \/ RbSave(s)
  BY DEF RbNext
<1>2. MetInv
  BY DEF RbInv
<1>3. CASE \/ RbStart(s) \/ NoMemories(s) \/ SelectMemory(s)
           \/ NothingToLearn(s) \/ Evaluate(s) \/ InduceNothing(s)
  <2>1. Moves(s) /\ at[s] \notin {"saving", "done"}
    BY <1>2, <1>3 DEF RbStart, NoMemories, SelectMemory, NothingToLearn,
       Evaluate, InduceNothing, Begin, Proceed, Moves, Go, setup, Idle, MetInv
  <2>2. UNCHANGED <<rbEntries, rbFile>>
    BY <1>3 DEF RbStart, NoMemories, SelectMemory, NothingToLearn,
       Evaluate, InduceNothing, rbVars, rbStore
  <2> QED
    BY <2>1, <2>2, RbOwnUntouched
<1>4. CASE RbReact(s)
  <2>1. Moves(s) /\ at[s] = "acting"
    BY <1>2, <1>4, ReactMoves DEF RbReact, React, Turn
  <2>2. UNCHANGED <<rbEntries, rbFile>>
    BY <1>4 DEF RbReact, rbVars, rbStore
  <2> QED
    BY <2>1, <2>2, RbOwnUntouched
<1>5. CASE ReadEmbeddings(s) \/ ReadEntries(s)
  <2>1. Proceed(s, "selecting", "reading") \/ Proceed(s, "reading", "scoring memories")
    BY <1>5, Zenon DEF ReadEmbeddings, ReadEntries
  <2>2. Moves(s) /\ at[s] \notin {"saving", "done"}
    BY <1>2, <2>1 DEF Proceed, Moves, Go, setup, Idle, MetInv
  <2>3. rbStore' = rbStore /\ rbFile' = rbFile
    <3>1. CASE ReadEmbeddings(s)
      BY <3>1, Zenon DEF ReadEmbeddings
    <3>2. CASE ReadEntries(s)
      BY <3>2, Zenon DEF ReadEntries
    <3> QED
      BY <1>5, <3>1, <3>2
  <2>4. UNCHANGED <<rbEntries, rbFile>>
    BY <2>3 DEF rbStore
  <2> QED
    BY <2>2, <2>4, RbOwnUntouched
<1> QED
  BY <1>1, <1>3, <1>4, <1>5, RbOwnAdds, RbOwnSaves

LEMMA RbOwnInitially == Init => RbOwnInv
BY DEF Init, RbInit, RbOwnInv, RbOwn, NoCheckpoint

LEMMA RbOwnAlways == RbInv /\ RbOwnInv /\ [Next]_vars => RbOwnInv'
<1> SUFFICES ASSUME RbInv, RbOwnInv, [Next]_vars PROVE RbOwnInv'
  OBVIOUS
<1>1. MetInv
  BY DEF RbInv
<1>2. CASE method = "reasoning_bank" /\ RbNext
  BY <1>2, RbOwnStep
<1>3. CASE method = "reasoning_bank" /\ Drive /\ UNCHANGED rbVars
  <2>1. PICK s \in Sessions : Live(s)
    BY <1>3 DEF Drive
  <2>2. Moves(s) /\ at[s] \in {"acting", "scoring"}
    BY <1>1, <2>1, LiveMoves DEF Live, SessionEnds, Feedback, BenchmarkFails, Proceed
  <2>3. UNCHANGED <<rbEntries, rbFile>>
    BY <1>3 DEF rbVars, rbStore
  <2> QED
    BY <2>2, <2>3, RbOwnUntouched
<1>4. CASE method # "reasoning_bank" /\ (AceNext \/ HarnessNext \/ AutoskillNext \/ AmemNext \/ Drive)
           /\ UNCHANGED rbVars
  <2>1. PICK s \in Sessions : Moves(s)
    BY <1>1, <1>4, AceMoves, HarnessMoves, AutoskillMoves, AmemMoves, DriveMoves
  <2>2. UNCHANGED <<rbEntries, rbFile>>
    BY <1>4 DEF rbVars, rbStore
  <2> QED
    BY <1>4, <2>1, <2>2, RbOwnUntouched
<1>5. CASE UNCHANGED vars
  BY <1>5 DEF vars, session, setup, rbVars, rbStore, RbOwnInv, RbOwn, HoldsWhatCameBefore
<1>6. CASE Next
  BY <1>2, <1>3, <1>4, <1>5, <1>6, Zenon DEF Next, vars
<1> QED
  BY <1>5, <1>6

LEMMA RbImplies == RbInv /\ RbOwnInv => RbRecallsWhatItFound
<1> SUFFICES ASSUME RbInv, RbOwnInv PROVE RbRecallsWhatItFound
  OBVIOUS
<1>1. ASSUME NEW s \in Sessions, at[s] = "scoring memories"
      PROVE  Aligned(seen[s].embeddings, seen[s].entries)
  <2>1. /\ Within(seen[s].embeddings, rbEmbeddings) /\ Within(seen[s].entries, rbEntries)
        /\ Len(seen[s].embeddings) \leq Len(seen[s].entries)
    BY <1>1 DEF RbInv, RbReads
  <2>2. seen[s].embeddings \in Seq(Sessions) /\ seen[s].entries \in Seq(Mem) /\ rbEntries \in Seq(Mem)
    BY DEF RbInv, RbTypes
  <2>3. Len(seen[s].embeddings) \in Nat /\ Len(seen[s].entries) \in Nat /\ Len(rbEntries) \in Nat
    BY <2>2
  <2>4. \A i \in 1..Len(rbEntries) : rbEntries[i].by = rbEmbeddings[i]
    BY DEF RbInv, RbLists
  <2> QED
    BY <2>1, <2>3, <2>4 DEF Within, Aligned
<1>2. ASSUME NEW s \in Sessions
      PROVE  /\ Len(rbFile[s].entries) = Len(rbFile[s].embeddings)
             /\ Aligned(rbFile[s].embeddings, rbEntries)
  BY DEF RbInv, RbFiled, RbTypes, RbLists, Within, Aligned
<1> QED
  BY <1>1, <1>2 DEF RbInv, RbOwnInv, RbOwn, RbRecallsWhatItFound

\* For any number of sessions, threads and reactions: however sessions overlap,
\* the memory the reasoning-bank agent shows a session is the one whose query was
\* found similar, and a checkpoint that was written holds the memory its session
\* stored and every one stored before it, each with its own embedding
\* (select_memory, add_entry, save_checkpoint).
THEOREM RbRecalls == Spec => []RbRecallsWhatItFound
<1>1. Spec => [](RbInv /\ RbOwnInv)
  <2>1. RbInv /\ RbOwnInv /\ [Next]_vars => (RbInv /\ RbOwnInv)'
    BY RbAlways, RbOwnAlways
  <2>2. Init => RbInv /\ RbOwnInv
    BY RbInitially, RbOwnInitially
  <2> QED
    BY <2>1, <2>2, PTL DEF Spec, vars
<1> QED
  BY <1>1, RbImplies, PTL

-----------------------------------------------------------------------------
(* ACE: what a session that is alone has read                              *)

Line == [id : Nat, by : Sessions, votes : SUBSET Sessions]

AceTypes ==
  /\ playbook \subseteq Line /\ nextId \in Nat
  /\ copy \in [Sessions -> SUBSET Line]
  /\ newNext \in [Sessions -> Nat]
  /\ renamed \in BOOLEAN

\* The places of close() at which a copy of the playbook is held for a write.
Holding == {"tagging", "curating", "curated", "merging"}

\* A session that is alone has read all that the playbook holds.
HasRead(s) ==
  at[s] \in Holding /\ Alone(s) => \A b \in playbook : Has(copy[s], b)

AceInv ==
  /\ MetInv /\ AceTypes
  /\ \A s \in gone : ~Alone(s)
  /\ method = "ace" => \A s \in Sessions : HasRead(s)

LEMMA TaggedLine ==
  ASSUME NEW b \in Line, NEW s \in Sessions
  PROVE  /\ [b EXCEPT !.votes = @ \cup {s}] \in Line
         /\ [b EXCEPT !.votes = @ \cup {s}].id = b.id
         /\ [b EXCEPT !.votes = @ \cup {s}].by = b.by
         /\ b.votes \subseteq [b EXCEPT !.votes = @ \cup {s}].votes
BY DEF Line

\* Counting tags loses no bullet and no vote.
LEMMA UpdateKeeps ==
  ASSUME NEW book \in SUBSET Line, NEW s \in Sessions, NEW ids
  PROVE  /\ UpdateBulletCounts(s, book, ids) \subseteq Line
         /\ \A b \in book : Has(UpdateBulletCounts(s, book, ids), b)
<1>1. \A b \in book : (IF b.id \in ids THEN [b EXCEPT !.votes = @ \cup {s}] ELSE b) \in Line
  BY TaggedLine
<1>2. ASSUME NEW b \in book PROVE Has(UpdateBulletCounts(s, book, ids), b)
  <2> DEFINE c == IF b.id \in ids THEN [b EXCEPT !.votes = @ \cup {s}] ELSE b
  <2>1. c \in UpdateBulletCounts(s, book, ids)
    BY DEF UpdateBulletCounts
  <2>2. c.id = b.id /\ c.by = b.by /\ b.votes \subseteq c.votes
    BY TaggedLine
  <2> QED
    BY <2>1, <2>2 DEF Has
<1> QED
  BY <1>1, <1>2 DEF UpdateBulletCounts

\* The operations of the curator only add.
LEMMA CurateTypes ==
  ASSUME NEW book \in SUBSET Line, NEW s \in Sessions, NEW n \in Nat, NEW next \in Nat
  PROVE  ApplyCuratorOperations(s, book, n, next) \in SUBSET Line
BY DEF ApplyCuratorOperations, Line

LEMMA GroupsOf ==
  ASSUME NEW book, NEW g \in Groups(book)
  PROVE  DOMAIN g \subseteq book /\ \A b \in DOMAIN g : g[b] \subseteq book
<1>1. PICK bases \in (SUBSET book) \ {{}} : g \in [bases -> (SUBSET (book \ bases)) \ {{}}]
  BY DEF Groups
<1> QED
  BY <1>1

LEMMA MergedTypes ==
  ASSUME NEW b \in Line, NEW group \in SUBSET Line, NEW works, NEW i \in Nat
  PROVE  MergedLine(b, group, works, i) \in Line
<1>1. UNION {c.votes : c \in group \cup {b}} \subseteq Sessions
  BY DEF Line
<1> QED
  BY <1>1 DEF MergedLine, Line

\* What analyze() writes, for the groups g, the merges that work and their ids.
Analyzed(s, g, works, id) ==
  /\ renamed' = (renamed \/ \E b \in works : id[b] # b.id)
  /\ playbook' =
       (copy[s] \ (DOMAIN g \cup UNION {g[b] : b \in DOMAIN g}))
         \cup {MergedLine(b, g[b], b \in works,
                          IF b \in works THEN id[b] ELSE b.id) : b \in DOMAIN g}

\* What analyze() writes are lines again.
LEMMA AnalyzeTypes ==
  ASSUME AceTypes, NEW s \in Sessions, AnalyzeWrite(s)
  PROVE  playbook' \subseteq Line /\ renamed' \in BOOLEAN
<1>1. PICK g \in Groups(copy[s]) : \E works \in SUBSET DOMAIN g :
        \E id \in [works -> {b.id : b \in copy[s]}] : Analyzed(s, g, works, id)
  BY DEF AnalyzeWrite, WritePlaybook, Analyzed
<1>2. PICK works \in SUBSET DOMAIN g : \E id \in [works -> {b.id : b \in copy[s]}] :
        Analyzed(s, g, works, id)
  BY <1>1
<1>3. PICK id \in [works -> {b.id : b \in copy[s]}] : Analyzed(s, g, works, id)
  BY <1>2
<1>4. copy[s] \subseteq Line
  BY DEF AceTypes
<1>5. ASSUME NEW b \in DOMAIN g
      PROVE  MergedLine(b, g[b], b \in works, IF b \in works THEN id[b] ELSE b.id) \in Line
  <2>1. b \in Line /\ g[b] \in SUBSET Line
    BY <1>4, GroupsOf
  <2>2. (IF b \in works THEN id[b] ELSE b.id) \in Nat
    BY <1>4, <2>1 DEF Line
  <2> QED
    BY <2>1, <2>2, MergedTypes
<1> QED
  BY <1>3, <1>4, <1>5 DEF Analyzed, AceTypes

\* What a step of session s has to do, for every other session to have read what
\* it had to.
LEMMA AceFrame ==
  ASSUME AceInv, NEW s \in Sessions, Moves(s), AceTypes', method = "ace",
         \/ playbook' = playbook /\ gone' = gone
         \/ at[s] \in Holding /\ gone' = IF Removes(s, playbook') THEN gone \cup {s} ELSE gone,
         \A t \in Sessions \ {s} : copy'[t] = copy[t],
         at'[s] \in Holding => \A b \in playbook' : Has(copy'[s], b)
  PROVE  AceInv'
<1>1. MetInv /\ MetInv' /\ met \subseteq met' /\ method' = method
  BY MetStep DEF AceInv, Moves
<1>2. ASSUME NEW t \in Sessions, Alone(t)' PROVE Alone(t)
  BY <1>1, <1>2 DEF Alone
<1>3. ASSUME NEW t \in Sessions, t # s PROVE HasRead(t)'
  <2>1. at'[t] = at[t] /\ copy'[t] = copy[t]
    BY <1>1, <1>3 DEF Moves, MetInv
  <2>2. CASE playbook' = playbook
    BY <1>2, <2>1, <2>2 DEF AceInv, HasRead, Has
  <2>3. CASE at[s] \in Holding /\ at[t] \in Holding
    <3>1. {t, s} \in met'
      BY <1>1, <1>3, <2>3 DEF MetInv, Holding, Idle
    <3> QED
      BY <3>1 DEF HasRead, Alone
  <2>4. CASE at[t] \notin Holding
    BY <2>1, <2>4 DEF HasRead
  <2> QED
    BY <2>2, <2>3, <2>4
<1>4. ASSUME NEW t \in gone' PROVE ~Alone(t)'
  <2>1. CASE t \in gone
    BY <1>1, <2>1 DEF AceInv, Alone
  <2>2. CASE t \notin gone
    <3>1. t = s /\ at[s] \in Holding /\ Removes(s, playbook')
      BY <1>4, <2>2
    <3>2. ~Alone(s)
      BY <3>1 DEF Removes, AceInv, HasRead
    <3> QED
      BY <1>1, <3>1, <3>2 DEF Alone
  <2> QED
    BY <2>1, <2>2
<1>5. HasRead(s)'
  BY DEF HasRead
<1> QED
  BY <1>1, <1>3, <1>4, <1>5 DEF AceInv

\* A step that changes nothing of the playbook and of the copies.
LEMMA AceQuiet ==
  ASSUME AceInv, NEW s \in Sessions, Moves(s), method = "ace",
         UNCHANGED <<playbook, copy, nextId, newNext, renamed, gone>>,
         at'[s] \in Holding => at[s] \in Holding /\ at' = at
  PROVE  AceInv'
<1>1. AceTypes'
  BY DEF AceInv, AceTypes
<1>2. CASE at'[s] \notin Holding
  BY <1>1, <1>2, AceFrame
<1>3. CASE at' = at
  <2>1. MetInv' /\ met \subseteq met' /\ method' = method
    BY MetStep DEF AceInv, Moves
  <2>2. ASSUME NEW t \in Sessions PROVE HasRead(t)'
    BY <1>3, <2>1 DEF AceInv, HasRead, Has, Alone
  <2>3. ASSUME NEW t \in gone' PROVE ~Alone(t)'
    BY <2>1 DEF AceInv, Alone
  <2> QED
    BY <1>1, <2>1, <2>2, <2>3 DEF AceInv
<1> QED
  BY <1>2, <1>3

LEMMA AceStep ==
  ASSUME AceInv, method = "ace", AceNext
  PROVE  AceInv'
<1>1. PICK s \in Sessions : AceStart(s) \/ AceReact(s) \/ AceClose(s)
  BY DEF AceNext
<1>2. MetInv /\ AceTypes
  BY DEF AceInv
<1>3. CASE AceStart(s)
  <2>1. Moves(s) /\ at'[s] = "acting" /\ UNCHANGED <<playbook, copy, nextId, newNext, renamed, gone>>
    BY <1>2, <1>3 DEF AceStart, Begin, Moves, Go, setup, MetInv
  <2> QED
    BY <2>1, AceQuiet DEF Holding
<1>4. CASE AceReact(s)
  <2>1. Turn(s) /\ (Go(s, "closing") \/ Go(s, "scoring") \/ at' = at) /\ UNCHANGED aceVars
    BY <1>4, Zenon DEF AceReact, React
  <2>2. Moves(s) /\ at'[s] \notin Holding
    BY <1>2, <2>1 DEF Turn, Moves, Go, setup, Idle, Holding, MetInv
  <2> QED
    BY <2>1, <2>2, AceQuiet DEF aceVars, aceStore
<1>5. CASE ReflectBegin(s)
  <2>1. Moves(s) /\ at'[s] = "reflecting"
    BY <1>2, <1>5 DEF ReflectBegin, Proceed, Moves, Go, setup, Idle, MetInv
  <2>2. /\ UNCHANGED <<playbook, gone>> /\ AceTypes'
        /\ \A t \in Sessions \ {s} : copy'[t] = copy[t]
    BY <1>2, <1>5 DEF ReflectBegin, ReadPlaybook, aceStore, AceTypes
  <2> QED
    BY <2>1, <2>2, AceFrame DEF Holding
<1>6. CASE SkipReflection(s) \/ ReflectNothing(s) \/ SkipCurator(s) \/ CuratorFails(s)
           \/ NoOperations(s) \/ AnalyzeFails(s)
  <2>1. Moves(s) /\ at'[s] \notin Holding
    BY <1>2, <1>6 DEF SkipReflection, ReflectNothing, SkipCurator, CuratorFails, NoOperations,
                      AnalyzeFails, Proceed, Moves, Go, setup, Idle, Holding, MetInv
  <2>2. UNCHANGED aceVars
    BY <1>6 DEF SkipReflection, ReflectNothing, SkipCurator, CuratorFails, NoOperations, AnalyzeFails
  <2> QED
    BY <2>1, <2>2, AceQuiet DEF aceVars, aceStore
<1>7. CASE ReflectTags(s)
  <2>1. Moves(s)
    BY <1>2, <1>7 DEF ReflectTags, Proceed, Moves, Go, setup, Idle, MetInv
  <2>2. PICK ids \in SUBSET {b.id : b \in copy[s]} :
          copy' = [copy EXCEPT ![s] = UpdateBulletCounts(s, playbook, ids)]
    BY <1>7 DEF ReflectTags
  <2>3. /\ UpdateBulletCounts(s, playbook, ids) \in SUBSET Line
        /\ \A b \in playbook : Has(UpdateBulletCounts(s, playbook, ids), b)
    BY <1>2, UpdateKeeps DEF AceTypes
  <2>4. UNCHANGED <<playbook, nextId, newNext, renamed, gone>>
    BY <1>7 DEF ReflectTags, aceStore
  <2>5. /\ copy'[s] = UpdateBulletCounts(s, playbook, ids)
        /\ \A t \in Sessions \ {s} : copy'[t] = copy[t]
        /\ copy' \in [Sessions -> SUBSET Line]
    BY <1>2, <2>2, <2>3 DEF AceTypes
  <2>6. AceTypes'
    BY <1>2, <2>4, <2>5 DEF AceTypes
  <2> QED
    BY <2>1, <2>3, <2>4, <2>5, <2>6, AceFrame
<1>8. CASE TagsWrite(s) \/ CurateWrite(s) \/ AnalyzeNothing(s)
  <2>1. Moves(s) /\ at'[s] \notin Holding /\ at[s] \in Holding
    BY <1>2, <1>8 DEF TagsWrite, CurateWrite, AnalyzeNothing, Proceed, Moves, Go, setup, Idle, Holding,
                      MetInv
  <2>2. /\ playbook' = copy[s] /\ UNCHANGED <<copy, nextId, newNext, renamed>>
        /\ gone' = IF Removes(s, playbook') THEN gone \cup {s} ELSE gone
    BY <1>8 DEF TagsWrite, CurateWrite, AnalyzeNothing, WritePlaybook
  <2>3. AceTypes'
    BY <1>2, <2>2 DEF AceTypes
  <2> QED
    BY <2>1, <2>2, <2>3, AceFrame
<1>9. CASE CurateBegin(s) \/ AnalyzeBegin(s)
  <2>1. Moves(s)
    BY <1>2, <1>9 DEF CurateBegin, AnalyzeBegin, Proceed, Moves, Go, setup, Idle, MetInv
  <2>2. copy' = [copy EXCEPT ![s] = playbook] /\ UNCHANGED <<playbook, nextId, newNext, renamed, gone>>
    BY <1>9 DEF CurateBegin, AnalyzeBegin, ReadPlaybook, aceStore
  <2>3. AceTypes' /\ copy'[s] = playbook' /\ \A t \in Sessions \ {s} : copy'[t] = copy[t]
    BY <1>2, <2>2 DEF AceTypes
  <2>4. \A b \in playbook' : Has(copy'[s], b)
    BY <2>3 DEF Has
  <2> QED
    BY <2>1, <2>2, <2>3, <2>4, AceFrame
<1>10. CASE CurateApply(s)
  <2>1. Moves(s) /\ at[s] \in Holding
    BY <1>2, <1>10 DEF CurateApply, Proceed, Moves, Go, setup, Idle, Holding, MetInv
  <2>2. PICK n \in 0..MaxAdds :
          /\ copy' = [copy EXCEPT ![s] = ApplyCuratorOperations(s, copy[s], n, nextId)]
          /\ newNext' = [newNext EXCEPT ![s] = nextId + n]
    BY <1>10 DEF CurateApply
  <2>3. n \in Nat /\ nextId \in Nat /\ copy[s] \in SUBSET Line
    BY <1>2, <2>2, CuratorAssumption DEF AceTypes
  <2>4. /\ ApplyCuratorOperations(s, copy[s], n, nextId) \in SUBSET Line
        /\ copy[s] \subseteq ApplyCuratorOperations(s, copy[s], n, nextId)
    BY <2>3, CurateTypes DEF ApplyCuratorOperations
  <2>5. UNCHANGED <<playbook, nextId, renamed, gone>>
    BY <1>10 DEF CurateApply, aceStore
  <2>6. /\ copy[s] \subseteq copy'[s] /\ \A t \in Sessions \ {s} : copy'[t] = copy[t]
        /\ copy' \in [Sessions -> SUBSET Line]
    BY <1>2, <2>2, <2>4 DEF AceTypes
  <2>7. AceTypes'
    BY <1>2, <2>2, <2>3, <2>5, <2>6 DEF AceTypes
  <2>8. CASE Alone(s)
    <3>1. \A b \in playbook : Has(copy[s], b)
      BY <2>1, <2>8 DEF AceInv, HasRead
    <3>2. \A b \in playbook' : Has(copy'[s], b)
      BY <2>5, <2>6, <3>1 DEF Has
    <3> QED
      BY <2>1, <2>5, <2>6, <2>7, <3>2, AceFrame
  <2>9. CASE ~Alone(s)
    <3>1. MetInv' /\ met \subseteq met' /\ method' = method
      BY <1>2, <2>1, MetStep DEF Moves
    <3>2. ASSUME NEW t \in Sessions PROVE HasRead(t)'
      <4>1. CASE t = s
        BY <2>9, <3>1, <4>1 DEF HasRead, Alone
      <4>2. CASE t # s
        BY <1>2, <2>1, <2>5, <2>6, <3>1, <4>2 DEF AceInv, HasRead, Has, Alone, Moves, MetInv
      <4> QED
        BY <4>1, <4>2
    <3>3. ASSUME NEW t \in gone' PROVE ~Alone(t)'
      BY <2>5, <3>1 DEF AceInv, Alone
    <3> QED
      BY <2>7, <3>1, <3>2, <3>3 DEF AceInv
  <2> QED
    BY <2>8, <2>9
<1>11. CASE NextIdWrite(s) \/ RecordLearning(s) \/ SaveCheckpoint(s)
  <2>1. Moves(s) /\ at'[s] \notin Holding
    BY <1>2, <1>11 DEF NextIdWrite, RecordLearning, SaveCheckpoint, Proceed, Moves, Go, setup, Idle,
                       Holding, MetInv
  <2>2. UNCHANGED <<playbook, copy, gone>> /\ AceTypes'
    BY <1>2, <1>11 DEF NextIdWrite, RecordLearning, SaveCheckpoint, aceStore, AceTypes
  <2> QED
    BY <2>1, <2>2, AceFrame
<1>12. CASE AnalyzeWrite(s)
  <2>1. Proceed(s, "merging", "recording")
    BY <1>12 DEF AnalyzeWrite
  <2>2. Moves(s) /\ at'[s] \notin Holding /\ at[s] \in Holding
    BY <1>2, <2>1 DEF Proceed, Moves, Go, setup, Idle, Holding, MetInv
  <2>3. /\ UNCHANGED <<copy, nextId, newNext>>
        /\ gone' = IF Removes(s, playbook') THEN gone \cup {s} ELSE gone
    BY <1>12 DEF AnalyzeWrite, WritePlaybook
  <2>4. AceTypes'
    BY <1>2, <1>12, <2>3, AnalyzeTypes DEF AceTypes
  <2> QED
    BY <2>2, <2>3, <2>4, AceFrame
<1> QED
  BY <1>1, <1>3, <1>4, <1>5, <1>6, <1>7, <1>8, <1>9, <1>10, <1>11, <1>12 DEF AceClose

\* A step of the session loop, or of another agent, leaves what ACE has.
LEMMA AceUntouched ==
  ASSUME AceInv, NEW s \in Sessions, Moves(s), UNCHANGED aceVars,
         method # "ace" \/ at'[s] \notin Holding
  PROVE  AceInv'
<1>1. CASE method = "ace"
  BY <1>1, AceQuiet DEF aceVars, aceStore
<1>2. CASE method # "ace"
  <2>1. MetInv' /\ met \subseteq met' /\ method' = method
    BY MetStep DEF AceInv, Moves
  <2>2. AceTypes' /\ gone' = gone
    BY DEF AceInv, AceTypes, aceVars, aceStore
  <2>3. ASSUME NEW t \in gone' PROVE ~Alone(t)'
    BY <2>1, <2>2 DEF AceInv, Alone
  <2> QED
    BY <1>2, <2>1, <2>2, <2>3 DEF AceInv
<1> QED
  BY <1>1, <1>2

LEMMA AceInitially == Init => AceInv
<1> SUFFICES ASSUME Init PROVE AceInv
  OBVIOUS
<1>1. MetInv
  BY MetInitially DEF Init
<1>2. AceTypes /\ gone = {} /\ playbook = {}
  BY DEF Init, AceInit, AceTypes
<1> QED
  BY <1>1, <1>2 DEF AceInv, HasRead

LEMMA AceAlways == AceInv /\ [Next]_vars => AceInv'
<1> SUFFICES ASSUME AceInv, [Next]_vars PROVE AceInv'
  OBVIOUS
<1>1. MetInv
  BY DEF AceInv
<1>2. CASE method = "ace" /\ AceNext
  BY <1>2, AceStep
<1>3. CASE method = "ace" /\ Drive /\ UNCHANGED aceVars
  <2>1. PICK s \in Sessions : Live(s)
    BY <1>3 DEF Drive
  <2>2. Moves(s) /\ at'[s] \notin Holding
    BY <1>1, <2>1 DEF Live, SessionEnds, Feedback, BenchmarkFails, Proceed, Moves, Go, setup, Idle,
                      Holding, MetInv
  <2> QED
    BY <1>3, <2>2, AceUntouched
<1>4. CASE method # "ace" /\ (HarnessNext \/ AutoskillNext \/ RbNext \/ AmemNext \/ Drive)
           /\ UNCHANGED aceVars
  <2>1. PICK s \in Sessions : Moves(s)
    BY <1>1, <1>4, HarnessMoves, AutoskillMoves, RbMoves, AmemMoves, DriveMoves
  <2> QED
    BY <1>4, <2>1, AceUntouched
<1>5. CASE UNCHANGED vars
  <2>1. UNCHANGED <<method, at, met, playbook, copy, nextId, newNext, renamed, gone>>
    BY <1>5 DEF vars, session, setup, aceVars, aceStore
  <2> QED
    BY <2>1 DEF AceInv, MetInv, AceTypes, HasRead, Has, Alone
<1>6. CASE Next
  BY <1>2, <1>3, <1>4, <1>5, <1>6, Zenon DEF Next, vars
<1> QED
  BY <1>5, <1>6

\* For any number of sessions and threads: a session of the ACE agent that shared
\* the playbook with nobody removes no bullet and no vote that it has not read
\* (_run_curator, _run_post_session_reflection, analyze).
THEOREM AceAloneLoses == Spec => []AceAloneLosesNothing
<1>1. Spec => []AceInv
  BY AceInitially, AceAlways, PTL DEF Spec, vars
<1>2. AceInv => AceAloneLosesNothing
  BY DEF AceInv, AceAloneLosesNothing
<1> QED
  BY <1>1, <1>2, PTL

-----------------------------------------------------------------------------
(* ACE: identifiers                                                        *)

\* What a session's place says of its copy, and what its checkpoint holds.
Numbered(s) ==
  /\ at[s] = "numbering" => IdsIdentify(playbook, newNext[s])
  /\ at[s] = "tagging" => IdsIdentify(copy[s], nextId)
  /\ at[s] \in {"curating", "merging"} => copy[s] = playbook
  /\ at[s] = "curated" => IdsIdentify(copy[s], newNext[s])
  /\ IdsIdentify(aceFile[s].book, aceFile[s].next)

IdsInv ==
  /\ MetInv /\ AceTypes /\ aceFile = [s \in Sessions |-> aceFile[s]]
  /\ method # "ace" => playbook = {} /\ \A s \in Sessions : aceFile[s].book = {}
  /\ method = "ace" /\ met = {} /\ ~renamed =>
       /\ (\A s \in Sessions : at[s] # "numbering") => IdsIdentify(playbook, nextId)
       /\ \A s \in Sessions : Numbered(s)

LEMMA UpdateIds ==
  ASSUME NEW book \in SUBSET Line, NEW s \in Sessions, NEW ids, NEW next, IdsIdentify(book, next)
  PROVE  IdsIdentify(UpdateBulletCounts(s, book, ids), next)
<1> DEFINE T(b) == IF b.id \in ids THEN [b EXCEPT !.votes = @ \cup {s}] ELSE b
<1>1. \A b \in book : T(b).id = b.id
  BY TaggedLine
<1>2. UpdateBulletCounts(s, book, ids) = {T(b) : b \in book}
  BY DEF UpdateBulletCounts
<1> HIDE DEF T
<1> QED
  BY <1>1, <1>2 DEF IdsIdentify

LEMMA CurateIds ==
  ASSUME NEW book \in SUBSET Line, NEW s \in Sessions, NEW n \in Nat, NEW next \in Nat,
         IdsIdentify(book, next)
  PROVE  IdsIdentify(ApplyCuratorOperations(s, book, n, next), next + n)
<1> DEFINE new == {[id |-> i, by |-> s, votes |-> {}] : i \in next..(next + n - 1)}
<1>1. ApplyCuratorOperations(s, book, n, next) = book \cup new
  BY DEF ApplyCuratorOperations
<1>2. \A b \in new : b.id \in Nat /\ next \leq b.id /\ b.id < next + n
  OBVIOUS
<1>3. \A b, c \in new : b.id = c.id => b = c
  OBVIOUS
<1>4. \A b \in book : b.id \in Nat /\ b.id < next
  BY DEF IdsIdentify, Line
<1>5. \A b, c \in book : b.id = c.id => b = c
  BY DEF IdsIdentify
<1> HIDE DEF new
<1>6. ASSUME NEW b \in book \cup new, NEW c \in book \cup new, b.id = c.id PROVE b = c
  BY <1>2, <1>3, <1>4, <1>5, <1>6
<1>7. \A b \in book \cup new : b.id < next + n
  BY <1>2, <1>4
<1> QED
  BY <1>1, <1>6, <1>7 DEF IdsIdentify

LEMMA AnalyzeIds ==
  ASSUME AceTypes, NEW s \in Sessions, AnalyzeWrite(s), ~renamed', IdsIdentify(copy[s], nextId)
  PROVE  ~renamed /\ IdsIdentify(playbook', nextId)
<1>1. PICK g \in Groups(copy[s]) : \E works \in SUBSET DOMAIN g :
        \E id \in [works -> {b.id : b \in copy[s]}] : Analyzed(s, g, works, id)
  BY DEF AnalyzeWrite, WritePlaybook, Analyzed
<1>2. PICK works \in SUBSET DOMAIN g : \E id \in [works -> {b.id : b \in copy[s]}] :
        Analyzed(s, g, works, id)
  BY <1>1
<1>3. PICK id \in [works -> {b.id : b \in copy[s]}] : Analyzed(s, g, works, id)
  BY <1>2
<1>4. ~renamed /\ \A b \in works : id[b] = b.id
  BY <1>3 DEF Analyzed
<1> DEFINE M(b) == MergedLine(b, g[b], b \in works, IF b \in works THEN id[b] ELSE b.id)
<1>5. ASSUME NEW b \in DOMAIN g PROVE M(b).id = b.id
  <2>1. b \in Line
    BY GroupsOf DEF AceTypes
  <2>2. (IF b \in works THEN id[b] ELSE b.id) = b.id
    BY <1>4
  <2> QED
    BY <2>1, <2>2 DEF MergedLine, Line
<1>6. playbook' = (copy[s] \ (DOMAIN g \cup UNION {g[b] : b \in DOMAIN g})) \cup {M(b) : b \in DOMAIN g}
  BY <1>3 DEF Analyzed
<1>7. DOMAIN g \subseteq copy[s]
  BY GroupsOf
<1> HIDE DEF M
<1> QED
  BY <1>4, <1>5, <1>6, <1>7 DEF IdsIdentify

\* Where no two sessions have met, the others are idle.
LEMMA OthersIdle ==
  ASSUME MetInv, met = {}, NEW s \in Sessions, at[s] \notin Idle, NEW t \in Sessions, t # s
  PROVE  at[t] \in Idle
BY DEF MetInv

\* What a step of session s has to do, for identifiers to stay good.
LEMMA IdsFrame ==
  ASSUME IdsInv, NEW s \in Sessions, Moves(s), AceTypes', method = "ace",
         met = {} /\ met' = {} => \A t \in Sessions \ {s} : at[t] \in Idle,
         aceFile' = [aceFile EXCEPT ![s] = aceFile'[s]],
         renamed => renamed',
         /\ met = {} /\ ~renamed' /\ Numbered(s)
         /\ at[s] # "numbering" => IdsIdentify(playbook, nextId)
         => Numbered(s)' /\ (at'[s] # "numbering" => IdsIdentify(playbook', nextId'))
  PROVE  IdsInv'
<1>1. MetInv /\ MetInv' /\ met \subseteq met' /\ method' = method
  BY MetStep DEF IdsInv, Moves
<1>2. aceFile' = [t \in Sessions |-> aceFile'[t]] /\ \A t \in Sessions \ {s} : aceFile'[t] = aceFile[t]
  BY DEF IdsInv
<1>3. ASSUME met' = {}, ~renamed'
      PROVE  /\ (\A t \in Sessions : at'[t] # "numbering") => IdsIdentify(playbook', nextId')
             /\ \A t \in Sessions : Numbered(t)'
  <2>1. met = {} /\ ~renamed /\ \A t \in Sessions \ {s} : at[t] \in Idle
    BY <1>1, <1>3
  <2>2. \A t \in Sessions \ {s} : at'[t] = at[t] /\ at[t] # "numbering"
    BY <1>1, <2>1 DEF Moves, MetInv, Idle
  <2>3. Numbered(s) /\ (at[s] # "numbering" => IdsIdentify(playbook, nextId))
    BY <2>1, <2>2 DEF IdsInv
  <2>4. Numbered(s)' /\ (at'[s] # "numbering" => IdsIdentify(playbook', nextId'))
    BY <1>3, <2>1, <2>3
  <2>5. ASSUME NEW t \in Sessions \ {s} PROVE Numbered(t)'
    <3>1. at'[t] \in Idle /\ IdsIdentify(aceFile'[t].book, aceFile'[t].next)
      BY <1>2, <2>1, <2>2 DEF IdsInv, Numbered
    <3> QED
      BY <3>1 DEF Numbered, Idle
  <2> QED
    BY <2>4, <2>5
<1> QED
  BY <1>1, <1>2, <1>3 DEF IdsInv

LEMMA IdsStep ==
  ASSUME IdsInv, method = "ace", AceNext
  PROVE  IdsInv'
<1>1. PICK s \in Sessions : AceStart(s) \/ AceReact(s) \/ AceClose(s)
  BY DEF AceNext
<1>2. MetInv /\ AceTypes /\ aceFile = [t \in Sessions |-> aceFile[t]]
  BY DEF IdsInv
<1>3. at[s] \notin Idle => (met = {} => \A t \in Sessions \ {s} : at[t] \in Idle)
  BY <1>2, OthersIdle
<1> DEFINE Quiet == {"tagging", "curating", "curated", "merging", "numbering"}
<1>4. CASE AceStart(s)
  <2>1. Moves(s) /\ at'[s] = "acting" /\ at[s] = "new"
    BY <1>2, <1>4 DEF AceStart, Begin, Moves, Go, setup, MetInv
  <2>2. UNCHANGED <<playbook, nextId, copy, newNext, aceFile, renamed>>
    BY <1>4 DEF AceStart
  <2>3. met' = {} => \A t \in Sessions \ {s} : at[t] \in Idle
    BY <1>4 DEF AceStart, Begin, Running
  <2>4. AceTypes' /\ aceFile' = [aceFile EXCEPT ![s] = aceFile'[s]]
    BY <1>2, <2>2 DEF AceTypes
  <2>5. /\ Numbered(s) /\ (at[s] # "numbering" => IdsIdentify(playbook, nextId))
        => Numbered(s)' /\ (at'[s] # "numbering" => IdsIdentify(playbook', nextId'))
    BY <2>1, <2>2 DEF Numbered
  <2> QED
    BY <2>1, <2>2, <2>3, <2>4, <2>5, IdsFrame
<1>5. CASE \/ AceReact(s) \/ SkipReflection(s) \/ ReflectNothing(s) \/ SkipCurator(s) \/ CuratorFails(s)
           \/ NoOperations(s) \/ AnalyzeFails(s)
  <2>1. Moves(s) /\ at'[s] \notin Quiet /\ at[s] \notin Idle /\ at[s] # "numbering"
    <3>1. CASE AceReact(s)
      <4>1. Turn(s) /\ (Go(s, "closing") \/ Go(s, "scoring") \/ at' = at)
        BY <3>1, Zenon DEF AceReact, React
      <4> QED
        BY <1>2, <4>1 DEF Turn, Moves, Go, setup, Idle, MetInv
    <3>2. CASE ~AceReact(s)
      BY <1>2, <1>5, <3>2 DEF SkipReflection, ReflectNothing, SkipCurator, CuratorFails, NoOperations,
                          AnalyzeFails, Proceed, Moves, Go, setup, Idle, MetInv
    <3> QED
      BY <3>1, <3>2
  <2>2. UNCHANGED <<playbook, nextId, copy, newNext, aceFile, renamed>>
    <3>1. UNCHANGED aceVars
      BY <1>5 DEF AceReact, SkipReflection, ReflectNothing, SkipCurator, CuratorFails, NoOperations,
                  AnalyzeFails
    <3> QED
      BY <3>1 DEF aceVars, aceStore
  <2>3. AceTypes' /\ aceFile' = [aceFile EXCEPT ![s] = aceFile'[s]]
    BY <1>2, <2>2 DEF AceTypes
  <2>4. /\ Numbered(s) /\ (at[s] # "numbering" => IdsIdentify(playbook, nextId))
        => Numbered(s)' /\ (at'[s] # "numbering" => IdsIdentify(playbook', nextId'))
    BY <2>1, <2>2 DEF Numbered
  <2> QED
    BY <1>3, <2>1, <2>2, <2>3, <2>4, IdsFrame
<1>6. CASE ReflectBegin(s) \/ CurateBegin(s) \/ AnalyzeBegin(s)
  <2>1. /\ Moves(s) /\ at'[s] \in {"reflecting", "curating", "merging"}
        /\ at[s] \notin Idle /\ at[s] # "numbering"
    BY <1>2, <1>6 DEF ReflectBegin, CurateBegin, AnalyzeBegin, Proceed, Moves, Go, setup, Idle, MetInv
  <2>2. UNCHANGED <<playbook, nextId, newNext, aceFile, renamed>> /\ copy' = [copy EXCEPT ![s] = playbook]
    BY <1>6 DEF ReflectBegin, CurateBegin, AnalyzeBegin, ReadPlaybook, aceStore
  <2>3. AceTypes' /\ copy'[s] = playbook' /\ aceFile' = [aceFile EXCEPT ![s] = aceFile'[s]]
    BY <1>2, <2>2 DEF AceTypes
  <2>4. /\ Numbered(s) /\ (at[s] # "numbering" => IdsIdentify(playbook, nextId))
        => Numbered(s)' /\ (at'[s] # "numbering" => IdsIdentify(playbook', nextId'))
    BY <2>1, <2>2, <2>3 DEF Numbered
  <2> QED
    BY <1>3, <2>1, <2>2, <2>3, <2>4, IdsFrame
<1>7. CASE ReflectTags(s)
  <2>1. Moves(s) /\ at'[s] = "tagging" /\ at[s] = "reflecting"
    BY <1>2, <1>7 DEF ReflectTags, Proceed, Moves, Go, setup, Idle, MetInv
  <2>2. PICK ids \in SUBSET {b.id : b \in copy[s]} :
          copy' = [copy EXCEPT ![s] = UpdateBulletCounts(s, playbook, ids)]
    BY <1>7 DEF ReflectTags
  <2>3. /\ UpdateBulletCounts(s, playbook, ids) \in SUBSET Line
        /\ IdsIdentify(playbook, nextId) =>
             IdsIdentify(UpdateBulletCounts(s, playbook, ids), nextId)
    BY <1>2, UpdateKeeps, UpdateIds DEF AceTypes
  <2>4. UNCHANGED <<playbook, nextId, newNext, aceFile, renamed>>
    BY <1>7 DEF ReflectTags, aceStore
  <2>5. /\ copy'[s] = UpdateBulletCounts(s, playbook, ids) /\ copy' \in [Sessions -> SUBSET Line]
        /\ aceFile' = [aceFile EXCEPT ![s] = aceFile'[s]]
    BY <1>2, <2>2, <2>3, <2>4 DEF AceTypes
  <2>6. AceTypes'
    BY <1>2, <2>4, <2>5 DEF AceTypes
  <2>7. /\ Numbered(s) /\ (at[s] # "numbering" => IdsIdentify(playbook, nextId))
        => Numbered(s)' /\ (at'[s] # "numbering" => IdsIdentify(playbook', nextId'))
    BY <2>1, <2>3, <2>4, <2>5 DEF Numbered
  <2> QED
    BY <1>3, <2>1, <2>4, <2>5, <2>6, <2>7, IdsFrame DEF Idle
<1>8. CASE TagsWrite(s) \/ CurateWrite(s) \/ AnalyzeNothing(s)
  <2>1. /\ Moves(s) /\ at[s] \notin Idle
        /\ \/ at[s] = "tagging" /\ at'[s] = "reflected"
           \/ at[s] = "curated" /\ at'[s] = "numbering"
           \/ at[s] = "merging" /\ at'[s] = "recording"
    BY <1>2, <1>8 DEF TagsWrite, CurateWrite, AnalyzeNothing, Proceed, Moves, Go, setup, Idle, MetInv
  <2>2. playbook' = copy[s] /\ UNCHANGED <<copy, nextId, newNext, aceFile, renamed>>
    BY <1>8 DEF TagsWrite, CurateWrite, AnalyzeNothing, WritePlaybook
  <2>3. AceTypes' /\ aceFile' = [aceFile EXCEPT ![s] = aceFile'[s]]
    BY <1>2, <2>2 DEF AceTypes
  <2>4. /\ Numbered(s) /\ (at[s] # "numbering" => IdsIdentify(playbook, nextId))
        => Numbered(s)' /\ (at'[s] # "numbering" => IdsIdentify(playbook', nextId'))
    BY <2>1, <2>2 DEF Numbered
  <2> QED
    BY <1>3, <2>1, <2>2, <2>3, <2>4, IdsFrame
<1>9. CASE CurateApply(s)
  <2>1. Moves(s) /\ at[s] = "curating" /\ at'[s] = "curated"
    BY <1>2, <1>9 DEF CurateApply, Proceed, Moves, Go, setup, Idle, MetInv
  <2>2. PICK n \in 0..MaxAdds :
          /\ copy' = [copy EXCEPT ![s] = ApplyCuratorOperations(s, copy[s], n, nextId)]
          /\ newNext' = [newNext EXCEPT ![s] = nextId + n]
    BY <1>9 DEF CurateApply
  <2>3. n \in Nat /\ nextId \in Nat /\ copy[s] \in SUBSET Line
    BY <1>2, <2>2, CuratorAssumption DEF AceTypes
  <2>4. /\ ApplyCuratorOperations(s, copy[s], n, nextId) \in SUBSET Line
        /\ IdsIdentify(copy[s], nextId) =>
             IdsIdentify(ApplyCuratorOperations(s, copy[s], n, nextId), nextId + n)
    BY <2>3, CurateTypes, CurateIds
  <2>5. UNCHANGED <<playbook, nextId, renamed, aceFile>>
    BY <1>9 DEF CurateApply, aceStore
  <2>6. /\ copy'[s] = ApplyCuratorOperations(s, copy[s], n, nextId) /\ newNext'[s] = nextId + n
        /\ copy' \in [Sessions -> SUBSET Line] /\ newNext' \in [Sessions -> Nat]
        /\ aceFile' = [aceFile EXCEPT ![s] = aceFile'[s]]
    BY <1>2, <2>2, <2>3, <2>4, <2>5 DEF AceTypes
  <2>7. AceTypes'
    BY <1>2, <2>5, <2>6 DEF AceTypes
  <2>8. /\ Numbered(s) /\ (at[s] # "numbering" => IdsIdentify(playbook, nextId))
        => Numbered(s)' /\ (at'[s] # "numbering" => IdsIdentify(playbook', nextId'))
    BY <2>1, <2>4, <2>5, <2>6 DEF Numbered
  <2> QED
    BY <1>3, <2>1, <2>5, <2>6, <2>7, <2>8, IdsFrame DEF Idle
<1>10. CASE NextIdWrite(s)
  <2>1. Moves(s) /\ at[s] = "numbering" /\ at'[s] \notin Quiet
    BY <1>2, <1>10 DEF NextIdWrite, Proceed, Moves, Go, setup, Idle, MetInv
  <2>2. nextId' = newNext[s] /\ UNCHANGED <<playbook, copy, newNext, aceFile, renamed>>
    BY <1>10 DEF NextIdWrite
  <2>3. AceTypes' /\ aceFile' = [aceFile EXCEPT ![s] = aceFile'[s]]
    BY <1>2, <2>2 DEF AceTypes
  <2>4. /\ Numbered(s) /\ (at[s] # "numbering" => IdsIdentify(playbook, nextId))
        => Numbered(s)' /\ (at'[s] # "numbering" => IdsIdentify(playbook', nextId'))
    BY <2>1, <2>2 DEF Numbered
  <2> QED
    BY <1>3, <2>1, <2>2, <2>3, <2>4, IdsFrame DEF Idle
<1>11. CASE AnalyzeWrite(s)
  <2>1. Proceed(s, "merging", "recording")
    BY <1>11 DEF AnalyzeWrite
  <2>2. Moves(s) /\ at[s] = "merging" /\ at'[s] = "recording"
    BY <1>2, <2>1 DEF Proceed, Moves, Go, setup, Idle, MetInv
  <2>3. UNCHANGED <<copy, nextId, newNext, aceFile>>
    BY <1>11 DEF AnalyzeWrite
  <2>4. AceTypes' /\ aceFile' = [aceFile EXCEPT ![s] = aceFile'[s]]
    BY <1>2, <1>11, <2>3, AnalyzeTypes DEF AceTypes
  <2>5. renamed => renamed'
    BY <1>11 DEF AnalyzeWrite
  <2>6. /\ ~renamed' /\ Numbered(s) /\ (at[s] # "numbering" => IdsIdentify(playbook, nextId))
        => Numbered(s)' /\ (at'[s] # "numbering" => IdsIdentify(playbook', nextId'))
    BY <1>2, <1>11, <2>2, <2>3, AnalyzeIds DEF Numbered
  <2> QED
    BY <1>3, <2>2, <2>3, <2>4, <2>5, <2>6, IdsFrame DEF Idle
<1>12. CASE RecordLearning(s) \/ SaveCheckpoint(s)
  <2>1. Moves(s) /\ at[s] \in {"recording", "saving"} /\ at'[s] \in {"saving", "done"}
    BY <1>2, <1>12 DEF RecordLearning, SaveCheckpoint, Proceed, Moves, Go, setup, Idle, MetInv
  <2>2. /\ UNCHANGED <<playbook, nextId, copy, newNext, renamed>>
        /\ \/ aceFile' = aceFile
           \/ aceFile' = [aceFile EXCEPT ![s] = [book |-> playbook, next |-> nextId]]
    BY <1>12 DEF RecordLearning, SaveCheckpoint, aceStore
  <2>3. AceTypes'
    BY <1>2, <2>2 DEF AceTypes
  <2>4. /\ aceFile' = [aceFile EXCEPT ![s] = aceFile'[s]]
        /\ \/ aceFile'[s] = aceFile[s]
           \/ aceFile'[s].book = playbook /\ aceFile'[s].next = nextId
    BY <1>2, <2>2
  <2>5. /\ Numbered(s) /\ (at[s] # "numbering" => IdsIdentify(playbook, nextId))
        => Numbered(s)' /\ (at'[s] # "numbering" => IdsIdentify(playbook', nextId'))
    BY <2>1, <2>2, <2>4 DEF Numbered
  <2> QED
    BY <1>3, <2>1, <2>2, <2>3, <2>4, <2>5, IdsFrame DEF Idle
<1> QED
  BY <1>1, <1>4, <1>5, <1>6, <1>7, <1>8, <1>9, <1>10, <1>11, <1>12 DEF AceClose

LEMMA IdsInitially == Init => IdsInv
<1> SUFFICES ASSUME Init PROVE IdsInv
  OBVIOUS
<1>1. MetInv /\ at \in [Sessions -> Idle]
  BY MetInitially DEF Init, SessionsInit, Idle
<1>2. /\ AceTypes /\ playbook = {} /\ nextId = 1
      /\ aceFile = [s \in Sessions |-> aceFile[s]]
      /\ \A s \in Sessions : aceFile[s].book = {}
  BY DEF Init, AceInit, AceTypes, NoFile
<1>3. IdsIdentify(playbook, nextId) /\ \A s \in Sessions : Numbered(s)
  BY <1>1, <1>2 DEF IdsIdentify, Numbered, Idle
<1> QED
  BY <1>1, <1>2, <1>3 DEF IdsInv

LEMMA IdsAlways == IdsInv /\ [Next]_vars => IdsInv'
<1> SUFFICES ASSUME IdsInv, [Next]_vars PROVE IdsInv'
  OBVIOUS
<1>1. MetInv /\ AceTypes /\ aceFile = [t \in Sessions |-> aceFile[t]]
  BY DEF IdsInv
<1>2. CASE method = "ace" /\ AceNext
  BY <1>2, IdsStep
<1>3. CASE method = "ace" /\ Drive /\ UNCHANGED aceVars
  <2>1. PICK s \in Sessions : Live(s)
    BY <1>3 DEF Drive
  <2>2. Moves(s) /\ at[s] \in {"acting", "scoring"} /\ at'[s] \in {"scoring", "closing", "done"}
    BY <1>1, <2>1 DEF Live, SessionEnds, Feedback, BenchmarkFails, Proceed, Moves, Go, setup, Idle, MetInv
  <2>3. UNCHANGED <<playbook, nextId, copy, newNext, aceFile, renamed>>
    BY <1>3 DEF aceVars, aceStore
  <2>4. AceTypes' /\ aceFile' = [aceFile EXCEPT ![s] = aceFile'[s]]
    BY <1>1, <2>3 DEF AceTypes
  <2>5. /\ Numbered(s) /\ (at[s] # "numbering" => IdsIdentify(playbook, nextId))
        => Numbered(s)' /\ (at'[s] # "numbering" => IdsIdentify(playbook', nextId'))
    BY <2>2, <2>3 DEF Numbered
  <2>6. met = {} => \A t \in Sessions \ {s} : at[t] \in Idle
    BY <1>1, <2>2, OthersIdle DEF Idle
  <2> QED
    BY <1>3, <2>2, <2>3, <2>4, <2>5, <2>6, IdsFrame
<1>4. CASE method # "ace" /\ (HarnessNext \/ AutoskillNext \/ RbNext \/ AmemNext \/ Drive)
           /\ UNCHANGED aceVars
  <2>1. PICK s \in Sessions : Moves(s)
    BY <1>1, <1>4, HarnessMoves, AutoskillMoves, RbMoves, AmemMoves, DriveMoves
  <2>2. MetInv' /\ method' # "ace"
    BY <1>1, <1>4, <2>1, MetStep DEF Moves
  <2> QED
    BY <1>4, <2>2 DEF IdsInv, AceTypes, aceVars, aceStore
<1>5. CASE UNCHANGED vars
  <2>1. UNCHANGED <<method, at, met, playbook, copy, nextId, newNext, renamed, aceFile>>
    BY <1>5 DEF vars, session, setup, aceVars, aceStore
  <2> QED
    BY <2>1 DEF IdsInv, MetInv, AceTypes, Numbered, IdsIdentify
<1>6. CASE Next
  BY <1>2, <1>3, <1>4, <1>5, <1>6, Zenon DEF Next, vars
<1> QED
  BY <1>5, <1>6

\* For any number of sessions, threads and additions: while no two sessions of
\* the ACE agent have run at the same time, and merges kept their identifiers, an
\* identifier names one bullet and the next one is unused, in the store between
\* two closes and in every checkpoint (apply_curator_operations, next_global_id).
THEOREM AceIds == Spec => []AceIdsIdentify
<1>1. Spec => []IdsInv
  BY IdsInitially, IdsAlways, PTL DEF Spec, vars
<1>2. IdsInv => AceIdsIdentify
  <2> SUFFICES ASSUME IdsInv, met = {}, ~renamed
               PROVE  /\ (\A s \in Sessions : at[s] # "numbering") => IdsIdentify(playbook, nextId)
                      /\ \A s \in Sessions : IdsIdentify(aceFile[s].book, aceFile[s].next)
    BY DEF AceIdsIdentify
  <2>1. CASE method = "ace"
    BY <2>1 DEF IdsInv, Numbered
  <2>2. CASE method # "ace"
    BY <2>2 DEF IdsInv, IdsIdentify
  <2> QED
    BY <2>1, <2>2
<1> QED
  BY <1>1, <1>2, PTL

-----------------------------------------------------------------------------
(* The harness                                                             *)

\* The types, for names that may also be the one a run has when it is on none.
Names == SkillNames \cup {NoOne}
Lib   == UNION {[ns -> Skill] : ns \in SUBSET Names}
Emb   == UNION {[ns -> Author] : ns \in SUBSET Names}
Cont  == [prompt : Author, memory : Author, skills : Lib]
Snap  == [prompt : Author, memory : Author, skills : Lib, embeddings : Emb,
          unembedded : SUBSET Names]
Evolver == [snap : Snap, used : SUBSET {"prompt", "memory"}, ops : Nat, on : Names]

LEMMA InLibrary ==
  ASSUME NEW f \in Lib
  PROVE  DOMAIN f \subseteq Names /\ f \in [DOMAIN f -> Skill]
<1>1. PICK ns \in SUBSET Names : f \in [ns -> Skill]
  BY DEF Lib
<1> QED
  BY <1>1

LEMMA InEmbedded ==
  ASSUME NEW f \in Emb
  PROVE  DOMAIN f \subseteq Names /\ f \in [DOMAIN f -> Author]
<1>1. PICK ns \in SUBSET Names : f \in [ns -> Author]
  BY DEF Emb
<1> QED
  BY <1>1

LEMMA EmptyLibraries == <<>> \in Lib /\ <<>> \in Emb /\ DOMAIN <<>> = {}
<1>1. <<>> \in [{} -> Skill] /\ <<>> \in [{} -> Author] /\ DOMAIN <<>> = {}
  OBVIOUS
<1> QED
  BY <1>1 DEF Lib, Emb

\* With and Without stay within the libraries.
LEMMA WithLibrary ==
  ASSUME NEW f \in Lib, NEW n \in Names, NEW v \in Skill
  PROVE  With(f, n, v) \in Lib
<1>1. With(f, n, v) \in [DOMAIN f \cup {n} -> Skill] /\ DOMAIN f \cup {n} \in SUBSET Names
  BY InLibrary DEF With
<1> QED
  BY <1>1 DEF Lib

LEMMA WithEmbedded ==
  ASSUME NEW f \in Emb, NEW n \in Names, NEW v \in Author
  PROVE  With(f, n, v) \in Emb
<1>1. With(f, n, v) \in [DOMAIN f \cup {n} -> Author] /\ DOMAIN f \cup {n} \in SUBSET Names
  BY InEmbedded DEF With
<1> QED
  BY <1>1 DEF Emb

LEMMA WithoutLibrary ==
  ASSUME NEW f \in Lib, NEW n
  PROVE  Without(f, n) \in Lib
<1>1. Without(f, n) \in [DOMAIN f \ {n} -> Skill] /\ DOMAIN f \ {n} \in SUBSET Names
  BY InLibrary DEF Without
<1> QED
  BY <1>1 DEF Lib

LEMMA WithoutEmbedded ==
  ASSUME NEW f \in Emb, NEW n
  PROVE  Without(f, n) \in Emb
<1>1. Without(f, n) \in [DOMAIN f \ {n} -> Author] /\ DOMAIN f \ {n} \in SUBSET Names
  BY InEmbedded DEF Without
<1> QED
  BY <1>1 DEF Emb

LEMMA ExceptLibrary ==
  ASSUME NEW f \in Lib, NEW n \in DOMAIN f, NEW v \in Skill
  PROVE  [f EXCEPT ![n] = v] \in Lib
<1>1. [f EXCEPT ![n] = v] \in [DOMAIN f -> Skill] /\ DOMAIN f \in SUBSET Names
  BY InLibrary
<1> QED
  BY <1>1 DEF Lib

HarnessTypes ==
  /\ hPrompt \in Author /\ hMemory \in Author
  /\ skills \in Lib /\ embeddings \in Emb
  /\ versions \in Seq(Cont)
  /\ listed \in [Sessions -> SUBSET Names]
  /\ evolver \in [Sessions -> Evolver]
  /\ unembedded \subseteq Names

\* The library of the last committed version.
Latest == IF versions = <<>> THEN Initial ELSE versions[Len(versions)]

\* An embedding belongs to a skill, and is its description's unless the skill is
\* one of stale.
Indexes(emb, lib, stale) ==
  \A n \in DOMAIN emb : n \in DOMAIN lib /\ (n \in stale \/ emb[n] = lib[n].desc)

\* The snapshot of a run is the last version, with its embeddings.
SnapStands(snap) ==
  /\ [prompt |-> snap.prompt, memory |-> snap.memory, skills |-> snap.skills] = Latest
  /\ Indexes(snap.embeddings, snap.skills, snap.unembedded)

\* What a session's place says of the library.
HarnessPlace(s) ==
  /\ at[s] \notin Editing => VersionIsCurrent
  /\ at[s] \in {"evolving", "embedding"} => SnapStands(evolver[s].snap)
  /\ at[s] = "evolving" /\ evolver[s].ops = 0 => VersionIsCurrent
  /\ at[s] = "embedding" =>
       evolver[s].on \in DOMAIN skills /\ skills[evolver[s].on].desc = s
  /\ at[s] = "retrieving" => listed[s] \subseteq DOMAIN skills

\* What holds of the library while no two sessions have met: of every session
\* that runs, and, when none does, that the version is current.
HarnessInv ==
  /\ MetInv /\ HarnessTypes
  /\ method # "harness" => VersionIsCurrent /\ Indexes(embeddings, skills, unembedded)
  /\ method = "harness" /\ met = {} =>
       /\ Indexes(embeddings, skills, unembedded)
       /\ (\A s \in Sessions : at[s] \in Idle) => VersionIsCurrent
       /\ \A s \in Sessions : at[s] \notin Idle => HarnessPlace(s)

\* What a step of session s has to do.
LEMMA HarnessFrame ==
  ASSUME HarnessInv, NEW s \in Sessions, Moves(s), HarnessTypes', method = "harness",
         met = {} /\ met' = {} => \A t \in Sessions \ {s} : at[t] \in Idle,
         /\ Indexes(embeddings, skills, unembedded)
         /\ at[s] \in Idle => VersionIsCurrent
         /\ at[s] \notin Idle => HarnessPlace(s)
         => /\ Indexes(embeddings, skills, unembedded)'
            /\ at'[s] \in Idle => VersionIsCurrent'
            /\ at'[s] \notin Idle => HarnessPlace(s)'
  PROVE  HarnessInv'
<1>1. MetInv /\ MetInv' /\ met \subseteq met' /\ method' = method
  BY MetStep DEF HarnessInv, Moves
<1>2. ASSUME met' = {}
      PROVE  /\ Indexes(embeddings, skills, unembedded)'
             /\ (\A t \in Sessions : at'[t] \in Idle) => VersionIsCurrent'
             /\ \A t \in Sessions : at'[t] \notin Idle => HarnessPlace(t)'
  <2>1. met = {} /\ \A t \in Sessions \ {s} : at[t] \in Idle
    BY <1>1, <1>2
  <2>2. \A t \in Sessions \ {s} : at'[t] \in Idle
    BY <1>1, <2>1 DEF Moves, MetInv
  <2>3. /\ Indexes(embeddings, skills, unembedded)
        /\ at[s] \in Idle => VersionIsCurrent
        /\ at[s] \notin Idle => HarnessPlace(s)
    BY <2>1 DEF HarnessInv
  <2>4. /\ Indexes(embeddings, skills, unembedded)'
        /\ at'[s] \in Idle => VersionIsCurrent'
        /\ at'[s] \notin Idle => HarnessPlace(s)'
    BY <2>3
  <2> QED
    BY <2>2, <2>4
<1> QED
  BY <1>1, <1>2 DEF HarnessInv

\* A step that changes nothing the library's correctness is about.
LEMMA HarnessQuiet ==
  ASSUME HarnessInv, NEW s \in Sessions, Moves(s), HarnessTypes', method = "harness",
         met = {} /\ met' = {} => \A t \in Sessions \ {s} : at[t] \in Idle,
         UNCHANGED <<library, versions, unembedded>>,
         at[s] \notin Editing, at'[s] \notin Editing,
         at'[s] = "retrieving" => listed'[s] \subseteq DOMAIN skills
  PROVE  HarnessInv'
<1>1. /\ Indexes(embeddings, skills, unembedded)' <=> Indexes(embeddings, skills, unembedded)
      /\ VersionIsCurrent' <=> VersionIsCurrent
  BY DEF Indexes, VersionIsCurrent, Current, library
<1>2. HarnessPlace(s)' <=> VersionIsCurrent
  BY <1>1 DEF HarnessPlace, Editing, library
<1>3. (at[s] \notin Idle => HarnessPlace(s)) /\ (at[s] \in Idle => VersionIsCurrent) => VersionIsCurrent
  BY DEF HarnessPlace
<1> QED
  BY <1>1, <1>2, <1>3, HarnessFrame

\* The session's evolver entry after an operation.
LEMMA EvolverTypes ==
  ASSUME HarnessTypes, NEW s \in Sessions
  PROVE  /\ evolver[s].snap \in Snap /\ evolver[s].ops \in Nat
         /\ \A m \in {"prompt", "memory"} :
              evolver' = [evolver EXCEPT ![s].ops = @ + 1, ![s].used = @ \cup {m}] =>
                evolver' \in [Sessions -> Evolver]
                /\ evolver'[s].snap = evolver[s].snap /\ evolver'[s].ops # 0
         /\ evolver' = [evolver EXCEPT ![s].ops = @ + 1] =>
                evolver' \in [Sessions -> Evolver]
                /\ evolver'[s].snap = evolver[s].snap /\ evolver'[s].ops # 0
         /\ evolver' = [evolver EXCEPT ![s].ops = @ + 1, ![s].on = NoOne] =>
                evolver' \in [Sessions -> Evolver]
                /\ evolver'[s].snap = evolver[s].snap /\ evolver'[s].ops # 0
         /\ \A n \in SkillNames : evolver' = [evolver EXCEPT ![s].on = n] =>
                evolver' \in [Sessions -> Evolver]
                /\ evolver'[s].snap = evolver[s].snap /\ evolver'[s].on = n
         /\ evolver' = [evolver EXCEPT ![s].ops = 0] => evolver' \in [Sessions -> Evolver]
<1>1. evolver \in [Sessions -> Evolver]
  BY DEF HarnessTypes
<1> QED
  BY <1>1 DEF Evolver, Names

LEMMA HarnessStep ==
  ASSUME HarnessInv, method = "harness", HarnessNext
  PROVE  HarnessInv'
<1>1. PICK s \in Sessions :
        \/ HarnessStart(s) \/ ListSkills(s) \/ ListNothing(s) \/ EmbedListed(s) \/ Retrieved(s)
        \/ HarnessReact(s) \/ HarnessClose(s)
  BY DEF HarnessNext
<1>2. MetInv /\ HarnessTypes
  BY DEF HarnessInv
<1>3. at[s] \notin Idle => (met = {} => \A t \in Sessions \ {s} : at[t] \in Idle)
  BY <1>2, OthersIdle
<1>4. CASE HarnessStart(s)
  <2>1. Moves(s) /\ at'[s] = "listing" /\ at[s] = "new"
    BY <1>2, <1>4 DEF HarnessStart, Begin, Moves, Go, setup, MetInv
  <2>2. UNCHANGED <<library, versions, unembedded>> /\ HarnessTypes'
    BY <1>2, <1>4 DEF HarnessStart, HarnessTypes, library
  <2>3. met' = {} => \A t \in Sessions \ {s} : at[t] \in Idle
    BY <1>4 DEF HarnessStart, Begin, Running
  <2> QED
    BY <2>1, <2>2, <2>3, HarnessQuiet DEF Editing
<1>5. CASE ListNothing(s) \/ Retrieved(s) \/ HarnessReact(s) \/ NoTrajectory(s)
  <2>1. /\ Moves(s) /\ at[s] \notin Idle /\ at[s] \notin Editing
        /\ at'[s] \notin Editing /\ at'[s] # "retrieving"
    <3>1. CASE HarnessReact(s)
      <4>1. Turn(s) /\ (Go(s, "closing") \/ Go(s, "scoring") \/ at' = at)
        BY <3>1, Zenon DEF HarnessReact, React
      <4> QED
        BY <1>2, <4>1 DEF Turn, Moves, Go, setup, Idle, Editing, MetInv
    <3>2. CASE ~HarnessReact(s)
      BY <1>2, <1>5, <3>2 DEF ListNothing, Retrieved, NoTrajectory, Proceed, Moves, Go, setup, Idle,
                              Editing, MetInv
    <3> QED
      BY <3>1, <3>2
  <2>2. UNCHANGED harnessVars
    BY <1>5 DEF ListNothing, Retrieved, HarnessReact, NoTrajectory
  <2>3. UNCHANGED <<library, versions, unembedded>> /\ HarnessTypes'
    BY <1>2, <2>2 DEF harnessVars, harnessStore, library, HarnessTypes
  <2> QED
    BY <1>3, <2>1, <2>3, HarnessQuiet
<1>6. CASE ListSkills(s)
  <2>1. Moves(s) /\ at[s] = "listing" /\ at'[s] = "retrieving"
    BY <1>2, <1>6 DEF ListSkills, Proceed, Moves, Go, setup, Idle, MetInv
  <2>2. /\ UNCHANGED <<library, versions, unembedded, evolver>>
        /\ listed' = [listed EXCEPT ![s] = DOMAIN skills \ DOMAIN embeddings]
    BY <1>6 DEF ListSkills, harnessStore
  <2>3. DOMAIN skills \subseteq Names
    BY <1>2, InLibrary DEF HarnessTypes
  <2>4. listed' \in [Sessions -> SUBSET Names] /\ listed'[s] \subseteq DOMAIN skills
    BY <1>2, <2>2, <2>3 DEF HarnessTypes
  <2>5. HarnessTypes'
    BY <1>2, <2>2, <2>4 DEF HarnessTypes, library
  <2> QED
    BY <1>3, <2>1, <2>2, <2>4, <2>5, HarnessQuiet DEF Idle, Editing
<1>7. CASE EmbedListed(s)
  <2>1. Moves(s) /\ at[s] = "retrieving" /\ at'[s] = "retrieving"
    BY <1>2, <1>7 DEF EmbedListed, session, setup, Moves, MetInv
  <2>2. PICK n \in listed[s] :
          /\ listed' = [listed EXCEPT ![s] = @ \ {n}]
          /\ \/ /\ n \in DOMAIN skills
                /\ embeddings' = With(embeddings, n, skills[n].desc)
                /\ unembedded' = unembedded \ {n}
             \/ /\ n \notin DOMAIN skills
                /\ embeddings' = With(embeddings, n, NoOne)
                /\ UNCHANGED unembedded
             \/ UNCHANGED <<embeddings, unembedded>>
    BY <1>7 DEF EmbedListed
  <2>3. UNCHANGED <<hPrompt, hMemory, skills, versions, evolver>>
    BY <1>7 DEF EmbedListed
  <2>4. n \in Names /\ listed' \in [Sessions -> SUBSET Names] /\ listed'[s] \subseteq listed[s]
    BY <1>2, <2>2 DEF HarnessTypes
  <2>5. NoOne \in Author /\ (n \in DOMAIN skills => skills[n].desc \in Author)
    BY <1>2, InLibrary DEF HarnessTypes, Author, Skill
  <2>6. embeddings' \in Emb /\ unembedded' \subseteq Names
    BY <1>2, <2>2, <2>4, <2>5, WithEmbedded DEF HarnessTypes
  <2>7. HarnessTypes'
    BY <1>2, <2>3, <2>4, <2>6 DEF HarnessTypes
  <2>8. ASSUME Indexes(embeddings, skills, unembedded), HarnessPlace(s)
        PROVE  Indexes(embeddings, skills, unembedded)' /\ HarnessPlace(s)'
    <3>1. n \in DOMAIN skills /\ VersionIsCurrent
      BY <2>1, <2>2, <2>8 DEF HarnessPlace, Editing
    <3>2. Indexes(embeddings, skills, unembedded)'
      BY <2>2, <2>3, <2>8, <3>1 DEF Indexes, With
    <3>3. VersionIsCurrent' /\ listed'[s] \subseteq DOMAIN skills'
      BY <2>1, <2>3, <2>4, <2>8, <3>1 DEF HarnessPlace, VersionIsCurrent, Current
    <3> QED
      BY <2>1, <3>2, <3>3 DEF HarnessPlace
  <2> QED
    BY <1>3, <2>1, <2>7, <2>8, HarnessFrame DEF Idle
<1>8. CASE EvolverBegin(s)
  <2>1. Moves(s) /\ at[s] = "closing" /\ at'[s] = "evolving"
    BY <1>2, <1>8 DEF EvolverBegin, Proceed, Moves, Go, setup, Idle, MetInv
  <2>2. UNCHANGED <<library, versions, listed, unembedded>>
    BY <1>8 DEF EvolverBegin, harnessStore
  <2>3. PICK snap \in Snap :
          /\ snap.prompt = hPrompt /\ snap.memory = hMemory /\ snap.skills = skills
          /\ snap.embeddings = embeddings /\ snap.unembedded = unembedded
          /\ evolver' = [evolver EXCEPT ![s] =
                          [snap |-> snap, used |-> {}, ops |-> 0, on |-> NoOne]]
    <3> DEFINE snap == [prompt |-> hPrompt, memory |-> hMemory, skills |-> skills,
                        embeddings |-> embeddings, unembedded |-> unembedded]
    <3>1. snap \in Snap
      BY <1>2 DEF HarnessTypes, Snap
    <3>2. evolver' = [evolver EXCEPT ![s] = [snap |-> snap, used |-> {}, ops |-> 0, on |-> NoOne]]
      BY <1>8 DEF EvolverBegin
    <3> QED
      BY <3>1, <3>2
  <2>4. [snap |-> snap, used |-> {}, ops |-> 0, on |-> NoOne] \in Evolver
    BY <2>3 DEF Evolver, Names
  <2>5. evolver' \in [Sessions -> Evolver] /\ evolver'[s].snap = snap
    BY <1>2, <2>3, <2>4 DEF HarnessTypes
  <2>6. HarnessTypes'
    BY <1>2, <2>2, <2>5 DEF HarnessTypes, library
  <2>7. ASSUME Indexes(embeddings, skills, unembedded), HarnessPlace(s)
        PROVE  Indexes(embeddings, skills, unembedded)' /\ HarnessPlace(s)'
    <3>1. VersionIsCurrent
      BY <2>1, <2>7 DEF HarnessPlace, Editing
    <3>2. Indexes(embeddings, skills, unembedded)' /\ VersionIsCurrent'
      BY <2>2, <2>7, <3>1 DEF Indexes, VersionIsCurrent, Current, library
    <3>3. SnapStands(snap)
      BY <2>3, <2>7, <3>1 DEF SnapStands, VersionIsCurrent, Current, Latest
    <3>4. SnapStands(evolver[s].snap)'
      BY <2>2, <2>5, <3>3 DEF SnapStands, Latest, Indexes
    <3> QED
      BY <2>1, <2>5, <3>2, <3>4 DEF HarnessPlace, Editing
  <2> QED
    BY <1>3, <2>1, <2>6, <2>7, HarnessFrame DEF Idle
<1>9. CASE \/ EditPrompt(s) \/ EditMemory(s)
  <2>1. Moves(s) /\ at[s] = "evolving" /\ at'[s] = "evolving"
    BY <1>2, <1>9 DEF EditPrompt, EditMemory, Evolving, session, setup, Moves, MetInv
  <2>2. /\ UNCHANGED <<skills, embeddings, versions, listed, unembedded>>
        /\ hPrompt' \in {hPrompt, s} /\ hMemory' \in {hMemory, s}
        /\ \E m \in {"prompt", "memory"} :
             evolver' = [evolver EXCEPT ![s].ops = @ + 1, ![s].used = @ \cup {m}]
    BY <1>9 DEF EditPrompt, EditMemory
  <2>3. /\ evolver' \in [Sessions -> Evolver]
        /\ evolver'[s].snap = evolver[s].snap /\ evolver'[s].ops # 0
    BY <1>2, <2>2, EvolverTypes
  <2>4. HarnessTypes'
    BY <1>2, <2>2, <2>3 DEF HarnessTypes, Author
  <2>5. ASSUME Indexes(embeddings, skills, unembedded), HarnessPlace(s)
        PROVE  Indexes(embeddings, skills, unembedded)' /\ HarnessPlace(s)'
    <3>1. Indexes(embeddings, skills, unembedded)' /\ Latest' = Latest
      BY <2>2, <2>5 DEF Indexes, Latest
    <3>2. SnapStands(evolver[s].snap)
      BY <2>1, <2>5 DEF HarnessPlace
    <3>3. SnapStands(evolver[s].snap)'
      BY <2>3, <3>1, <3>2 DEF SnapStands, Indexes
    <3> QED
      BY <2>1, <2>3, <3>1, <3>3 DEF HarnessPlace, Editing
  <2> QED
    BY <1>3, <2>1, <2>4, <2>5, HarnessFrame DEF Idle
<1>10. CASE \E n \in SkillNames : AddSkill(s, n)
  <2>1. PICK n \in SkillNames : AddSkill(s, n)
    BY <1>10
  <2>2. Moves(s) /\ at[s] = "evolving" /\ at'[s] = "embedding"
    BY <1>2, <2>1 DEF AddSkill, Proceed, Moves, Go, setup, Idle, MetInv
  <2> DEFINE new == [desc |-> s, body |-> s]
  <2>3. /\ UNCHANGED <<hPrompt, hMemory, embeddings, versions, listed>>
        /\ n \notin DOMAIN skills /\ skills' = With(skills, n, new)
        /\ unembedded' = unembedded \cup {n}
        /\ evolver' = [evolver EXCEPT ![s].on = n]
    BY <2>1 DEF AddSkill
  <2>4. new \in Skill /\ new.desc = s
    BY DEF Skill, Author
  <2> HIDE DEF new
  <2>5. /\ evolver' \in [Sessions -> Evolver]
        /\ evolver'[s].snap = evolver[s].snap /\ evolver'[s].on = n
    BY <1>2, <2>3, EvolverTypes
  <2>6. HarnessTypes'
    <3>1. n \in Names
      BY DEF Names
    <3>2. skills' \in Lib /\ unembedded' \subseteq Names
      BY <1>2, <2>3, <2>4, <3>1, WithLibrary DEF HarnessTypes
    <3> QED
      BY <1>2, <2>3, <2>5, <3>2 DEF HarnessTypes
  <2>7. ASSUME Indexes(embeddings, skills, unembedded), HarnessPlace(s)
        PROVE  Indexes(embeddings, skills, unembedded)' /\ HarnessPlace(s)'
    <3>1. Indexes(embeddings, skills, unembedded)'
      BY <2>3, <2>7 DEF Indexes, With
    <3>2. n \in DOMAIN skills' /\ skills'[n].desc = s /\ Latest' = Latest
      BY <2>3, <2>4 DEF With, Latest
    <3>3. SnapStands(evolver[s].snap)
      BY <2>2, <2>7 DEF HarnessPlace
    <3>4. SnapStands(evolver[s].snap)'
      BY <2>5, <3>2, <3>3 DEF SnapStands, Indexes
    <3> QED
      BY <2>2, <2>5, <3>1, <3>2, <3>4 DEF HarnessPlace, Editing
  <2> QED
    BY <1>3, <2>2, <2>6, <2>7, HarnessFrame DEF Idle
<1>11. CASE \E n \in SkillNames : EditSkill(s, n)
  <2>1. PICK n \in SkillNames : EditSkill(s, n)
    BY <1>11
  <2>2. /\ UNCHANGED <<hPrompt, hMemory, embeddings, versions, listed>>
        /\ at[s] = "evolving" /\ n \in DOMAIN skills
    BY <2>1 DEF EditSkill, Evolving
  <2>3. skills[n] \in Skill /\ skills \in [DOMAIN skills -> Skill]
    BY <1>2, <2>2, InLibrary DEF HarnessTypes
  <2>4. CASE /\ skills' = [skills EXCEPT ![n] = [desc |-> s, body |-> s]]
             /\ Proceed(s, "evolving", "embedding")
             /\ unembedded' = unembedded \cup {n}
             /\ evolver' = [evolver EXCEPT ![s].on = n]
    <3>1. Moves(s) /\ at'[s] = "embedding"
      BY <1>2, <2>4 DEF Proceed, Moves, Go, setup, Idle, MetInv
    <3> DEFINE new == [desc |-> s, body |-> s]
    <3>2. new \in Skill /\ new.desc = s /\ skills' = [skills EXCEPT ![n] = new]
      BY <2>4 DEF Skill, Author
    <3> HIDE DEF new
    <3>3. /\ evolver' \in [Sessions -> Evolver]
          /\ evolver'[s].snap = evolver[s].snap /\ evolver'[s].on = n
      BY <1>2, <2>4, EvolverTypes
    <3>4. HarnessTypes'
      <4>1. skills' \in Lib
        BY <1>2, <2>2, <3>2, ExceptLibrary DEF HarnessTypes
      <4>2. unembedded' \subseteq Names
        BY <1>2, <2>4 DEF HarnessTypes, Names
      <4> QED
        BY <1>2, <2>2, <3>3, <4>1, <4>2 DEF HarnessTypes
    <3>5. ASSUME Indexes(embeddings, skills, unembedded), HarnessPlace(s)
          PROVE  Indexes(embeddings, skills, unembedded)' /\ HarnessPlace(s)'
      <4>1. Indexes(embeddings, skills, unembedded)'
        BY <2>2, <2>3, <2>4, <3>2, <3>5 DEF Indexes
      <4>2. n \in DOMAIN skills' /\ skills'[n].desc = s /\ Latest' = Latest
        BY <2>2, <2>3, <3>2 DEF Latest
      <4>3. SnapStands(evolver[s].snap)
        BY <2>2, <3>5 DEF HarnessPlace
      <4>4. SnapStands(evolver[s].snap)'
        BY <3>3, <4>2, <4>3 DEF SnapStands, Indexes
      <4> QED
        BY <3>1, <3>3, <4>1, <4>2, <4>4 DEF HarnessPlace, Editing
    <3> QED
      BY <1>3, <2>2, <3>1, <3>4, <3>5, HarnessFrame DEF Idle
  <2>5. CASE /\ \/ skills' = [skills EXCEPT ![n].desc = NoOne] /\ unembedded' = unembedded \cup {n}
                \/ skills' = [skills EXCEPT ![n].body = s] /\ unembedded' = unembedded
             /\ Done(s) /\ UNCHANGED session
    <3>1. Moves(s) /\ at'[s] = "evolving"
      BY <1>2, <2>2, <2>5 DEF session, setup, Moves, MetInv
    <3>2. /\ evolver' \in [Sessions -> Evolver]
          /\ evolver'[s].snap = evolver[s].snap /\ evolver'[s].ops # 0
      BY <1>2, <2>5, EvolverTypes DEF Done
    <3>3. PICK v \in Skill : /\ skills' = [skills EXCEPT ![n] = v]
                             /\ v.desc = skills[n].desc \/ n \in unembedded'
      <4>1. CASE skills' = [skills EXCEPT ![n].desc = NoOne] /\ unembedded' = unembedded \cup {n}
        <5>1. [skills[n] EXCEPT !.desc = NoOne] \in Skill
          BY <2>3 DEF Skill, Author
        <5>2. skills' = [skills EXCEPT ![n] = [skills[n] EXCEPT !.desc = NoOne]]
          BY <4>1
        <5> QED
          BY <4>1, <5>1, <5>2
      <4>2. CASE skills' = [skills EXCEPT ![n].body = s]
        <5>1. /\ [skills[n] EXCEPT !.body = s] \in Skill
              /\ [skills[n] EXCEPT !.body = s].desc = skills[n].desc
          BY <2>3 DEF Skill, Author
        <5>2. skills' = [skills EXCEPT ![n] = [skills[n] EXCEPT !.body = s]]
          BY <4>2
        <5> QED
          BY <4>2, <5>1, <5>2
      <4> QED
        BY <2>5, <4>1, <4>2
    <3>4. HarnessTypes'
      <4>1. skills' \in Lib
        BY <1>2, <2>2, <3>3, ExceptLibrary DEF HarnessTypes
      <4>2. unembedded' \subseteq Names
        BY <1>2, <2>5 DEF HarnessTypes, Names
      <4> QED
        BY <1>2, <2>2, <3>2, <4>1, <4>2 DEF HarnessTypes
    <3>5. ASSUME Indexes(embeddings, skills, unembedded), HarnessPlace(s)
          PROVE  Indexes(embeddings, skills, unembedded)' /\ HarnessPlace(s)'
      <4>1. unembedded \subseteq unembedded' /\ DOMAIN skills' = DOMAIN skills
            /\ \A m \in DOMAIN skills : skills'[m].desc = skills[m].desc \/ m \in unembedded'
        BY <2>3, <2>5, <3>3
      <4>2. Indexes(embeddings, skills, unembedded)' /\ Latest' = Latest
        BY <2>2, <3>5, <4>1 DEF Indexes, Latest
      <4>3. SnapStands(evolver[s].snap)
        BY <2>2, <3>5 DEF HarnessPlace
      <4>4. SnapStands(evolver[s].snap)'
        BY <3>2, <4>2, <4>3 DEF SnapStands, Indexes
      <4> QED
        BY <3>1, <3>2, <4>2, <4>4 DEF HarnessPlace, Editing
    <3> QED
      BY <1>3, <2>2, <3>1, <3>4, <3>5, HarnessFrame DEF Idle
  <2> QED
    BY <2>1, <2>4, <2>5, Zenon DEF EditSkill
<1>12. CASE \E n \in SkillNames : DeleteSkill(s, n)
  <2>1. PICK n \in SkillNames : DeleteSkill(s, n)
    BY <1>12
  <2>2. Moves(s) /\ at[s] = "evolving" /\ at'[s] = "evolving"
    BY <1>2, <2>1 DEF DeleteSkill, Evolving, session, setup, Moves, MetInv
  <2>3. /\ UNCHANGED <<hPrompt, hMemory, versions, listed>>
        /\ skills' = Without(skills, n) /\ embeddings' = Without(embeddings, n)
        /\ unembedded' = unembedded \ {n} /\ Done(s)
    BY <2>1 DEF DeleteSkill
  <2>4. /\ evolver' \in [Sessions -> Evolver]
        /\ evolver'[s].snap = evolver[s].snap /\ evolver'[s].ops # 0
    BY <1>2, <2>3, EvolverTypes DEF Done
  <2>5. HarnessTypes'
    BY <1>2, <2>3, <2>4, WithoutLibrary, WithoutEmbedded DEF HarnessTypes
  <2>6. ASSUME Indexes(embeddings, skills, unembedded), HarnessPlace(s)
        PROVE  Indexes(embeddings, skills, unembedded)' /\ HarnessPlace(s)'
    <3>1. Indexes(embeddings, skills, unembedded)' /\ Latest' = Latest
      BY <2>3, <2>6 DEF Indexes, Without, Latest
    <3>2. SnapStands(evolver[s].snap)
      BY <2>2, <2>6 DEF HarnessPlace
    <3>3. SnapStands(evolver[s].snap)'
      BY <2>4, <3>1, <3>2 DEF SnapStands, Indexes
    <3> QED
      BY <2>2, <2>4, <3>1, <3>3 DEF HarnessPlace, Editing
  <2> QED
    BY <1>3, <2>2, <2>5, <2>6, HarnessFrame DEF Idle
<1>13. CASE SetEmbedding(s)
  <2>1. Moves(s) /\ at[s] = "embedding" /\ at'[s] = "evolving"
    BY <1>2, <1>13 DEF SetEmbedding, Proceed, Moves, Go, setup, Idle, MetInv
  <2> DEFINE n == evolver[s].on
  <2>2. /\ UNCHANGED <<hPrompt, hMemory, skills, versions, listed>>
        /\ \/ embeddings' = With(embeddings, n, s) /\ unembedded' = unembedded \ {n}
           \/ UNCHANGED <<embeddings, unembedded>>
        /\ evolver' = [evolver EXCEPT ![s].ops = @ + 1, ![s].on = NoOne]
    BY <1>13 DEF SetEmbedding
  <2>3. /\ evolver' \in [Sessions -> Evolver]
        /\ evolver'[s].snap = evolver[s].snap /\ evolver'[s].ops # 0
    BY <1>2, <2>2, EvolverTypes
  <2> HIDE DEF n
  <2>4. ASSUME Indexes(embeddings, skills, unembedded), HarnessPlace(s)
        PROVE  Indexes(embeddings, skills, unembedded)' /\ HarnessPlace(s)'
    <3>1. n \in DOMAIN skills /\ skills[n].desc = s
      BY <2>1, <2>4 DEF HarnessPlace, n
    <3>2. Indexes(embeddings, skills, unembedded)' /\ Latest' = Latest
      BY <2>2, <2>4, <3>1 DEF Indexes, With, Latest
    <3>3. SnapStands(evolver[s].snap)
      BY <2>1, <2>4 DEF HarnessPlace
    <3>4. SnapStands(evolver[s].snap)'
      BY <2>3, <3>2, <3>3 DEF SnapStands, Indexes
    <3> QED
      BY <2>1, <2>3, <3>2, <3>4 DEF HarnessPlace, Editing
  <2>5. HarnessTypes'
    <3>1. evolver[s].on \in Names
      BY <1>2 DEF HarnessTypes, Evolver
    <3>2. s \in Author
      BY DEF Author
    <3>3. embeddings' \in Emb
      BY <1>2, <2>2, <3>1, <3>2, WithEmbedded DEF HarnessTypes, n
    <3> QED
      BY <1>2, <2>2, <2>3, <3>3 DEF HarnessTypes
  <2> QED
    BY <1>3, <2>1, <2>4, <2>5, HarnessFrame DEF Idle
<1>14. CASE EvolverEnds(s)
  <2>1. /\ Moves(s) /\ at[s] = "evolving"
        /\ at'[s] = IF evolver[s].ops > 0 THEN "committing" ELSE "recording"
    BY <1>2, <1>14 DEF EvolverEnds, Proceed, Moves, Go, setup, Idle, MetInv
  <2>2. UNCHANGED harnessVars
    BY <1>14 DEF EvolverEnds
  <2>3. HarnessTypes' /\ UNCHANGED <<library, versions, unembedded, evolver>>
    BY <1>2, <2>2 DEF harnessVars, harnessStore, library, HarnessTypes
  <2>4. ASSUME Indexes(embeddings, skills, unembedded), HarnessPlace(s)
        PROVE  Indexes(embeddings, skills, unembedded)' /\ HarnessPlace(s)'
    <3>1. Indexes(embeddings, skills, unembedded)' /\ VersionIsCurrent' = VersionIsCurrent
      BY <2>3, <2>4 DEF Indexes, VersionIsCurrent, Current, library
    <3>2. evolver[s].ops \in Nat
      BY <1>2, EvolverTypes
    <3>3. CASE evolver[s].ops > 0
      BY <2>1, <3>1, <3>3 DEF HarnessPlace, Editing
    <3>4. CASE evolver[s].ops = 0
      <4>1. VersionIsCurrent'
        BY <2>1, <2>4, <3>1, <3>4 DEF HarnessPlace
      <4>2. at'[s] = "recording"
        BY <2>1, <3>4
      <4> QED
        BY <3>1, <4>1, <4>2 DEF HarnessPlace
    <3> QED
      BY <3>2, <3>3, <3>4
  <2>5. at'[s] \notin Idle
    BY <2>1 DEF Idle
  <2> QED
    BY <1>3, <2>1, <2>3, <2>4, <2>5, HarnessFrame DEF Idle
<1>15. CASE Rollback(s)
  <2>1. Moves(s) /\ at[s] = "evolving" /\ at'[s] = "recording"
    BY <1>2, <1>15 DEF Rollback, Proceed, Moves, Go, setup, Idle, MetInv
  <2> DEFINE snap == evolver[s].snap
  <2>2. /\ hPrompt' = snap.prompt /\ hMemory' = snap.memory
        /\ skills' = snap.skills /\ embeddings' = snap.embeddings
        /\ unembedded' = snap.unembedded /\ UNCHANGED <<versions, listed>>
        /\ evolver' = [evolver EXCEPT ![s].ops = 0]
    BY <1>15 DEF Rollback
  <2>3. snap \in Snap /\ evolver' \in [Sessions -> Evolver]
    BY <1>2, <2>2, EvolverTypes
  <2> HIDE DEF snap
  <2>4. HarnessTypes'
    BY <1>2, <2>2, <2>3 DEF HarnessTypes, Snap
  <2>5. ASSUME Indexes(embeddings, skills, unembedded), HarnessPlace(s)
        PROVE  Indexes(embeddings, skills, unembedded)' /\ HarnessPlace(s)'
    <3>1. SnapStands(snap)
      BY <2>1, <2>5 DEF HarnessPlace, snap
    <3>2. VersionIsCurrent' /\ Indexes(embeddings, skills, unembedded)'
      BY <2>2, <3>1 DEF SnapStands, VersionIsCurrent, Current, Latest, Indexes
    <3> QED
      BY <2>1, <3>2 DEF HarnessPlace
  <2> QED
    BY <1>3, <2>1, <2>4, <2>5, HarnessFrame DEF Idle
<1>16. CASE CommitVersion(s)
  <2>1. Moves(s) /\ at[s] = "committing" /\ at'[s] = "recording"
    BY <1>2, <1>16 DEF CommitVersion, Proceed, Moves, Go, setup, Idle, MetInv
  <2>2. UNCHANGED <<library, listed, evolver, unembedded>> /\ versions' = Append(versions, Current)
    BY <1>16 DEF CommitVersion
  <2>3. Current \in Cont /\ versions \in Seq(Cont)
    BY <1>2 DEF HarnessTypes, Current, Cont
  <2>4. /\ versions' \in Seq(Cont) /\ versions' # <<>>
        /\ versions'[Len(versions')] = Current
    BY <2>2, <2>3
  <2>5. HarnessTypes'
    BY <1>2, <2>2, <2>4 DEF HarnessTypes, library
  <2>6. ASSUME Indexes(embeddings, skills, unembedded)
        PROVE  Indexes(embeddings, skills, unembedded)' /\ HarnessPlace(s)'
    <3>1. VersionIsCurrent' /\ Indexes(embeddings, skills, unembedded)'
      BY <2>2, <2>4, <2>6 DEF VersionIsCurrent, Current, Indexes, library
    <3> QED
      BY <2>1, <3>1 DEF HarnessPlace
  <2> QED
    BY <1>3, <2>1, <2>5, <2>6, HarnessFrame DEF Idle
<1>17. CASE HarnessRecord(s)
  <2>1. Moves(s) /\ at[s] = "recording" /\ at'[s] = "done"
    BY <1>2, <1>17 DEF HarnessRecord, Proceed, Moves, Go, setup, Idle, MetInv
  <2>2. /\ UNCHANGED <<library, versions, listed, unembedded>>
        /\ evolver' = [evolver EXCEPT ![s] = NotEvolving]
    BY <1>17 DEF HarnessRecord
  <2>3. NotEvolving \in Evolver
    BY EmptyLibraries DEF NotEvolving, Evolver, Snap, Author, Names
  <2>4. HarnessTypes'
    BY <1>2, <2>2, <2>3 DEF HarnessTypes, library
  <2> QED
    BY <1>3, <2>1, <2>2, <2>4, HarnessQuiet DEF Idle, Editing
<1> QED
  BY <1>1, <1>4, <1>5, <1>6, <1>7, <1>8, <1>9, <1>10, <1>11, <1>12, <1>13, <1>14, <1>15, <1>16, <1>17
     DEF HarnessClose

LEMMA HarnessInitially == Init => HarnessInv
<1> SUFFICES ASSUME Init PROVE HarnessInv
  OBVIOUS
<1>1. MetInv
  BY MetInitially DEF Init
<1>2. NotEvolving \in Evolver
  BY EmptyLibraries DEF NotEvolving, Evolver, Snap, Author, Names
<1>3. HarnessTypes
  BY <1>2, EmptyLibraries DEF Init, HarnessInit, HarnessTypes, Author
<1>4. VersionIsCurrent /\ Indexes(embeddings, skills, unembedded)
  BY EmptyLibraries DEF Init, HarnessInit, VersionIsCurrent, Current, Initial, Indexes
<1>5. ASSUME NEW s \in Sessions PROVE at[s] \in Idle
  BY DEF Init, SessionsInit, Idle
<1> QED
  BY <1>1, <1>3, <1>4, <1>5 DEF HarnessInv

LEMMA HarnessAlways == HarnessInv /\ [Next]_vars => HarnessInv'
<1> SUFFICES ASSUME HarnessInv, [Next]_vars PROVE HarnessInv'
  OBVIOUS
<1>1. MetInv /\ HarnessTypes
  BY DEF HarnessInv
<1>2. CASE method = "harness" /\ HarnessNext
  BY <1>2, HarnessStep
<1>3. CASE method = "harness" /\ Drive /\ UNCHANGED harnessVars
  <2>1. PICK s \in Sessions : Live(s)
    BY <1>3 DEF Drive
  <2>2. Moves(s) /\ at[s] \in {"acting", "scoring"} /\ at'[s] \in {"scoring", "closing", "done"}
    BY <1>1, <2>1 DEF Live, SessionEnds, Feedback, BenchmarkFails, Proceed, Moves, Go, setup, Idle, MetInv
  <2>3. UNCHANGED <<library, versions, unembedded>> /\ HarnessTypes'
    BY <1>1, <1>3 DEF harnessVars, harnessStore, library, HarnessTypes
  <2>4. met = {} => \A t \in Sessions \ {s} : at[t] \in Idle
    BY <1>1, <2>2, OthersIdle DEF Idle
  <2> QED
    BY <1>3, <2>2, <2>3, <2>4, HarnessQuiet DEF Editing
<1>4. CASE method # "harness" /\ (AceNext \/ AutoskillNext \/ RbNext \/ AmemNext \/ Drive)
           /\ UNCHANGED harnessVars
  <2>1. PICK s \in Sessions : Moves(s)
    BY <1>1, <1>4, AceMoves, AutoskillMoves, RbMoves, AmemMoves, DriveMoves
  <2>2. MetInv' /\ method' # "harness"
    BY <1>1, <1>4, <2>1, MetStep DEF Moves
  <2>3. HarnessTypes' /\ UNCHANGED <<hPrompt, hMemory, skills, embeddings, versions, unembedded>>
    BY <1>1, <1>4 DEF harnessVars, harnessStore, library, HarnessTypes
  <2>4. VersionIsCurrent' /\ Indexes(embeddings, skills, unembedded)'
    BY <1>4, <2>3 DEF HarnessInv, VersionIsCurrent, Current, Indexes
  <2> QED
    BY <2>2, <2>3, <2>4 DEF HarnessInv
<1>5. CASE UNCHANGED vars
  <2>1. UNCHANGED <<method, at, met, hPrompt, hMemory, skills, embeddings, versions, listed, evolver,
                    unembedded>>
    BY <1>5 DEF vars, session, setup, harnessVars, harnessStore, library
  <2>2. MetInv' /\ HarnessTypes'
    BY <1>1, <2>1 DEF MetInv, HarnessTypes
  <2>3. /\ VersionIsCurrent' <=> VersionIsCurrent
        /\ Indexes(embeddings, skills, unembedded)' <=> Indexes(embeddings, skills, unembedded)
        /\ \A s \in Sessions : HarnessPlace(s)' <=> HarnessPlace(s)
    BY <2>1 DEF HarnessPlace, SnapStands, Latest, VersionIsCurrent, Current, Indexes
  <2> QED
    BY <2>1, <2>2, <2>3 DEF HarnessInv
<1>6. CASE Next
  BY <1>2, <1>3, <1>4, <1>5, <1>6, Zenon DEF Next, vars
<1> QED
  BY <1>5, <1>6

\* For any number of sessions, threads, skills and tool calls: while no two
\* sessions of the harness agent have run at the same time, the library between
\* two evolver runs is the one of the last committed version, a run that was rolled
\* back has left nothing, and an embedding belongs to a skill and is its
\* description's, unless that could not be embedded (run_evolver, rollback,
\* commit_version, set_embedding, delete_skill).
THEOREM HarnessStands == Spec => []HarnessLibraryStands
<1>1. Spec => []HarnessInv
  BY HarnessInitially, HarnessAlways, PTL DEF Spec, vars
<1>2. HarnessInv => HarnessLibraryStands
  <2> SUFFICES ASSUME HarnessInv, met = {}
               PROVE  /\ (\A s \in Sessions : at[s] \notin Editing) => VersionIsCurrent
                      /\ Indexes(embeddings, skills, unembedded)
    BY DEF HarnessLibraryStands, IndexAgrees, Indexes
  <2>1. CASE method # "harness"
    BY <2>1 DEF HarnessInv
  <2>2. CASE method = "harness"
    <3>1. ASSUME \A s \in Sessions : at[s] \notin Editing PROVE VersionIsCurrent
      <4>1. CASE \A s \in Sessions : at[s] \in Idle
        BY <2>2, <4>1 DEF HarnessInv
      <4>2. CASE \E s \in Sessions : at[s] \notin Idle
        BY <2>2, <3>1, <4>2 DEF HarnessInv, HarnessPlace
      <4> QED
        BY <4>1, <4>2
    <3> QED
      BY <2>2, <3>1 DEF HarnessInv
  <2> QED
    BY <2>1, <2>2
<1> QED
  BY <1>1, <1>2, PTL

-----------------------------------------------------------------------------
(* Autoskill                                                               *)

BSkill == [from : SUBSET Sessions, version : Nat]

SkillTypes ==
  /\ DOMAIN bank \subseteq Sessions /\ bank \in [DOMAIN bank -> BSkill]
  /\ DOMAIN bankIndex \subseteq DOMAIN bank
  /\ found = [s \in Sessions |-> found[s]]
  /\ \A s \in Sessions : found[s] # Nothing =>
       found[s].id \in DOMAIN bank /\ found[s].skill \in BSkill
  /\ embedded \in [Sessions -> BOOLEAN]
  /\ doing \in [Sessions -> Taken]
  /\ bankHistory = [s \in Sessions |-> bankHistory[s]]

\* The places after a session's maintenance of the bank.
After == {"indexing", "reindexing", "recording", "done"}

\* Skill i may be made of what s extracted.
Source(s, i) ==
  /\ at[s] \in After
  /\ at[s] = "done" => bankHistory[s] = doing[s]
  /\ s = i => doing[s] = "add"
  /\ s # i => /\ found[s] # Nothing /\ found[s].id = i
              /\ doing[s] = "merge" \/ (embedded[s] /\ doing[s] = "no_extraction")

\* A skill starts as that of the session it is named after; its version counts
\* what it was made from.
MadeOf(i, skill) ==
  /\ i \in skill.from /\ IsFiniteSet(skill.from)
  /\ skill.version + 1 = Cardinality(skill.from)

BankStands ==
  \A i \in DOMAIN bank : MadeOf(i, bank[i]) /\ \A t \in bank[i].from : Source(t, i)

FoundStands(s) ==
  found[s] # Nothing =>
    /\ MadeOf(found[s].id, found[s].skill)
    /\ \A t \in found[s].skill.from : Source(t, found[s].id)

\* What a session's place says of what it does.
Doing(s) ==
  /\ bankHistory[s] = "none" \/ (at[s] = "done" /\ bankHistory[s] = doing[s])
  /\ doing[s] = "add" => s \in DOMAIN bank
  /\ doing[s] = "merge" => found[s] # Nothing
  /\ at[s] \notin {"indexing", "recording", "done"} => doing[s] = "no_extraction"
  /\ at[s] = "indexing" => s \in DOMAIN bank
  /\ at[s] = "reindexing" => found[s] # Nothing

HasMerged(s) == doing[s] = "merge" \/ at[s] = "reindexing"

\* What a session has merged is in its skill, and in what another is about to
\* merge into it, unless one of those these are made of, or that other, ran while
\* it did.
Stays(s) ==
  HasMerged(s) =>
    /\ Covers(bank[found[s].id].from, s)
    /\ \A t \in Sessions : at[t] = "judging" /\ found[t] # Nothing /\ found[t].id = found[s].id =>
         Covers(found[t].skill.from, s) \/ {s, t} \in met

\* While no two sessions have met: the index, and what is being done to it.
IndexStands ==
  /\ \A i \in DOMAIN bankIndex :
       /\ bankIndex[i] \subseteq bank[i].from
       /\ \/ bankIndex[i] = bank[i].from
          \/ \E s \in bank[i].from \ bankIndex[i] : ~embedded[s] \/ doing[s] = "no_extraction"
  /\ \A s \in Sessions :
       /\ at[s] = "judging" /\ found[s] # Nothing => found[s].skill = bank[found[s].id]
       /\ at[s] = "reindexing" => bank[found[s].id].from = found[s].skill.from \cup {s}
       /\ at[s] = "indexing" => bank[s].from = {s}

SkillInv ==
  /\ MetInv /\ SkillTypes
  /\ method # "autoskill" =>
       DOMAIN bank = {} /\ DOMAIN bankIndex = {} /\ \A s \in Sessions : bankHistory[s] = "none"
  /\ method = "autoskill" =>
       /\ BankStands
       /\ \A s \in Sessions : FoundStands(s) /\ Doing(s) /\ Stays(s)
       /\ met = {} => IndexStands

\* What the other sessions have is left to them.
Others(s) ==
  \A t \in Sessions \ {s} : /\ found'[t] = found[t] /\ embedded'[t] = embedded[t]
                           /\ doing'[t] = doing[t] /\ bankHistory'[t] = bankHistory[t]

LEMMA SourcesKept ==
  ASSUME MetInv, NEW s \in Sessions, Moves(s), Others(s),
         \A i \in Sessions : Source(s, i) => Source(s, i)'
  PROVE  \A t \in Sessions, i \in Sessions : Source(t, i) => Source(t, i)'
<1>1. ASSUME NEW t \in Sessions \ {s} PROVE at'[t] = at[t]
  BY DEF Moves, MetInv
<1> QED
  BY <1>1 DEF Source, Others

\* What a session has found of a skill stays good.
LEMMA FoundKept ==
  ASSUME SkillInv, method = "autoskill", NEW t \in Sessions, found'[t] = found[t],
         \A u \in Sessions, i \in Sessions : Source(u, i) => Source(u, i)'
  PROVE  FoundStands(t)'
<1>1. found[t] # Nothing => found[t].id \in Sessions /\ found[t].skill.from \subseteq Sessions
  BY DEF SkillInv, SkillTypes, BSkill
<1>2. FoundStands(t)
  BY DEF SkillInv
<1>3. ASSUME found[t] # Nothing, NEW u \in found[t].skill.from PROVE Source(u, found[t].id)'
  <2>1. Source(u, found[t].id) /\ u \in Sessions /\ found[t].id \in Sessions
    BY <1>1, <1>2, <1>3 DEF FoundStands
  <2> QED
    BY <2>1 DEF Source
<1> QED
  BY <1>2, <1>3 DEF FoundStands, MadeOf

\* What a step of session s that leaves the bank alone has to do.
LEMMA BankSame ==
  ASSUME SkillInv, method = "autoskill", NEW s \in Sessions, Moves(s), SkillTypes', bank' = bank,
         Others(s), \A i \in Sessions : Source(s, i) => Source(s, i)',
         Doing(s)', FoundStands(s)',
         HasMerged(s)' => found'[s] = found[s] /\ HasMerged(s),
         at'[s] = "judging" /\ found'[s] # Nothing => found'[s].skill = bank[found'[s].id],
         met' = {} /\ met = {} /\ IndexStands => IndexStands'
  PROVE  SkillInv'
<1>1. MetInv /\ MetInv' /\ met \subseteq met' /\ method' = method /\ SkillTypes
  BY MetStep DEF SkillInv, Moves
<1>2. \A t \in Sessions \ {s} : at'[t] = at[t]
  BY <1>1 DEF Moves, MetInv
<1>3. \A t \in Sessions, i \in Sessions : Source(t, i) => Source(t, i)'
  BY <1>1, SourcesKept
<1>4. BankStands'
  <2>1. \A i \in DOMAIN bank : MadeOf(i, bank[i]) /\ \A t \in bank[i].from : Source(t, i)
    BY DEF SkillInv, BankStands
  <2>2. \A i \in DOMAIN bank : i \in Sessions /\ bank[i].from \subseteq Sessions
    BY <1>1 DEF SkillTypes, BSkill
  <2>3. \A i \in DOMAIN bank : \A t \in bank[i].from : Source(t, i)'
    BY <1>3, <2>1, <2>2
  <2> QED
    BY <2>1, <2>3 DEF BankStands, MadeOf
<1>5. ASSUME NEW t \in Sessions \ {s} PROVE FoundStands(t)' /\ Doing(t)'
  <2>1. FoundStands(t) /\ Doing(t) /\ found'[t] = found[t]
    BY DEF SkillInv, Others
  <2>2. Doing(t)'
    BY <1>2, <2>1 DEF Doing, Others
  <2>3. FoundStands(t)'
    BY <1>3, <2>1, FoundKept
  <2> QED
    BY <2>2, <2>3
<1>6. ASSUME NEW t \in Sessions, HasMerged(t)'
      PROVE  /\ Covers(bank[found[t].id].from, t)'
             /\ \A u \in Sessions :
                  at'[u] = "judging" /\ found'[u] # Nothing /\ found'[u].id = found'[t].id =>
                    Covers(found[u].skill.from, t)' \/ {t, u} \in met'
  <2>1. HasMerged(t) /\ found'[t] = found[t]
    BY <1>2, <1>6 DEF HasMerged, Others
  <2>2. /\ Covers(bank[found[t].id].from, t)
        /\ \A u \in Sessions : at[u] = "judging" /\ found[u] # Nothing /\ found[u].id = found[t].id =>
             Covers(found[u].skill.from, t) \/ {t, u} \in met
    BY <2>1 DEF SkillInv, Stays
  <2>3. Covers(bank[found[t].id].from, t)'
    BY <1>1, <2>1, <2>2 DEF Covers
  <2>4. ASSUME NEW u \in Sessions,
               at'[u] = "judging", found'[u] # Nothing, found'[u].id = found'[t].id
        PROVE  Covers(found[u].skill.from, t)' \/ {t, u} \in met'
    <3>1. CASE u = s
      BY <1>1, <2>1, <2>2, <2>4, <3>1 DEF Covers
    <3>2. CASE u # s
      BY <1>1, <1>2, <2>1, <2>2, <2>4, <3>2 DEF Others, Covers
    <3> QED
      BY <3>1, <3>2
  <2> QED
    BY <2>3, <2>4
<1>7. \A t \in Sessions : Stays(t)'
  BY <1>6 DEF Stays
<1>8. met' = {} => IndexStands'
  BY <1>1 DEF SkillInv
<1> QED
  BY <1>1, <1>4, <1>5, <1>7, <1>8 DEF SkillInv

\* A session that has not come to the bank is in no skill.
LEMMA NotYet ==
  ASSUME SkillInv, method = "autoskill", NEW s \in Sessions, at[s] \notin After
  PROVE  /\ s \notin DOMAIN bank /\ doing[s] = "no_extraction"
         /\ \A i \in DOMAIN bank : s \notin bank[i].from
         /\ \A t \in Sessions : found[t] # Nothing => s \notin found[t].skill.from
         /\ \A i : ~Source(s, i)
<1>1. \A i : ~Source(s, i)
  BY DEF Source
<1>2. \A i \in DOMAIN bank : s \notin bank[i].from
  BY <1>1 DEF SkillInv, BankStands
<1>3. s \notin DOMAIN bank
  BY <1>2 DEF SkillInv, BankStands, MadeOf
<1>4. \A t \in Sessions : found[t] # Nothing => s \notin found[t].skill.from
  BY <1>1 DEF SkillInv, FoundStands
<1>5. doing[s] = "no_extraction"
  BY DEF SkillInv, Doing, After
<1> QED
  BY <1>1, <1>2, <1>3, <1>4, <1>5

\* A step of session s that changes neither bank nor index.
LEMMA IndexSame ==
  ASSUME SkillInv, method = "autoskill", NEW s \in Sessions, Moves(s), SkillTypes',
         bank' = bank, bankIndex' = bankIndex, Others(s), IndexStands,
         at[s] \in After => embedded'[s] = embedded[s] /\ doing'[s] = doing[s],
         at'[s] \notin {"indexing", "reindexing"},
         at'[s] = "judging" /\ found'[s] # Nothing => found'[s].skill = bank[found'[s].id]
  PROVE  IndexStands'
<1>1. MetInv
  BY DEF SkillInv
<1>2. \A t \in Sessions \ {s} : at'[t] = at[t]
  BY <1>1 DEF Moves, MetInv
<1>3. ASSUME NEW i \in DOMAIN bankIndex
      PROVE  /\ bankIndex[i] \subseteq bank[i].from
             /\ \/ bankIndex[i] = bank[i].from
                \/ \E t \in bank[i].from \ bankIndex[i] :
                     ~embedded'[t] \/ doing'[t] = "no_extraction"
  <2>1. CASE bankIndex[i] # bank[i].from
    <3>1. PICK t \in bank[i].from \ bankIndex[i] : ~embedded[t] \/ doing[t] = "no_extraction"
      BY <2>1 DEF IndexStands
    <3>2. i \in DOMAIN bank /\ t \in Sessions
      BY <3>1 DEF SkillInv, SkillTypes, BSkill
    <3>3. embedded'[t] = embedded[t] /\ doing'[t] = doing[t]
      BY <3>1, <3>2, NotYet DEF Others
    <3> QED
      BY <3>1, <3>3 DEF IndexStands
  <2>2. CASE bankIndex[i] = bank[i].from
    BY <2>2
  <2> QED
    BY <2>1, <2>2
<1>4. ASSUME NEW t \in Sessions
      PROVE  /\ at'[t] = "judging" /\ found'[t] # Nothing => found'[t].skill = bank[found'[t].id]
             /\ at'[t] = "reindexing" => bank[found'[t].id].from = found'[t].skill.from \cup {t}
             /\ at'[t] = "indexing" => bank[t].from = {t}
  <2>1. CASE t = s
    BY <2>1
  <2>2. CASE t # s
    BY <1>2, <2>2 DEF IndexStands, Others
  <2> QED
    BY <2>1, <2>2
<1> QED
  BY <1>3, <1>4 DEF IndexStands

\* A step of a session that has not come to the bank, and leaves it there.
LEMMA SkillQuiet ==
  ASSUME SkillInv, method = "autoskill", NEW s \in Sessions, Moves(s),
         at[s] \notin After, at'[s] \notin {"judging", "indexing", "reindexing"},
         UNCHANGED <<bank, bankIndex, bankHistory, found, embedded, doing>>
  PROVE  SkillInv'
<1>1. SkillTypes'
  BY DEF SkillInv, SkillTypes
<1>2. Others(s)
  BY DEF Others
<1>3. \A i \in Sessions : Source(s, i) => Source(s, i)'
  BY NotYet
<1>4. Doing(s) /\ FoundStands(s) /\ MetInv
  BY DEF SkillInv
<1>5. Doing(s)'
  BY <1>4, NotYet DEF Doing, After
<1>6. FoundStands(s)'
  <2>1. \A t \in Sessions, i \in Sessions : Source(t, i) => Source(t, i)'
    BY <1>2, <1>3, <1>4, SourcesKept
  <2> QED
    BY <2>1, FoundKept
<1>7. ~HasMerged(s)'
  BY NotYet DEF HasMerged
<1>8. IndexStands => IndexStands'
  BY <1>1, <1>2, IndexSame
<1> QED
  BY <1>1, <1>2, <1>3, <1>5, <1>6, <1>7, <1>8, BankSame

LEMMA SkillSteps ==
  ASSUME SkillInv, method = "autoskill", NEW s \in Sessions,
         NEW from, NEW to, from \notin Idle, Proceed(s, from, to)
  PROVE  /\ Moves(s) /\ at[s] = from /\ at'[s] = to /\ met' = met
         /\ \A t \in Sessions \ {s} : at'[t] = at[t]
<1>1. MetInv
  BY DEF SkillInv
<1>2. Moves(s)
  BY <1>1, ProceedMoves
<1> QED
  BY <1>1, <1>2 DEF Proceed, Go, MetInv

\* Steps of close() that leave the bank and its index as they are.
LEMMA FindSimilarStep ==
  ASSUME SkillInv, method = "autoskill", NEW s \in Sessions, FindSimilar(s)
  PROVE  SkillInv'
<1>1. /\ Moves(s) /\ at[s] = "closing" /\ at'[s] = "judging" /\ met' = met
      /\ \A t \in Sessions \ {s} : at'[t] = at[t]
  <2>1. Proceed(s, "closing", "judging")
    BY DEF FindSimilar
  <2> QED
    BY <2>1, SkillSteps DEF Idle
<1>2. SkillTypes /\ MetInv
  BY DEF SkillInv
<1>3. PICK e \in BOOLEAN : embedded' = [embedded EXCEPT ![s] = e]
  BY DEF FindSimilar
<1>4. PICK f \in {Nothing} \cup {[id |-> i, skill |-> bank[i]] : i \in DOMAIN bank} :
        found' = [found EXCEPT ![s] = f]
  BY DEF FindSimilar
<1>5. UNCHANGED <<bank, bankIndex, bankHistory, doing>>
  BY DEF FindSimilar, bankStore
<1>6. f # Nothing => f.id \in DOMAIN bank /\ f.skill = bank[f.id]
  BY <1>4
<1>7. found'[s] = f /\ \A t \in Sessions \ {s} : found'[t] = found[t] /\ embedded'[t] = embedded[t]
  BY <1>2, <1>3, <1>4 DEF SkillTypes
<1>8. SkillTypes'
  <2>1. found' = [t \in Sessions |-> found'[t]]
    BY <1>2, <1>4 DEF SkillTypes
  <2>2. embedded' \in [Sessions -> BOOLEAN]
    BY <1>2, <1>3 DEF SkillTypes
  <2>3. f # Nothing => f.skill \in BSkill
    BY <1>2, <1>6 DEF SkillTypes
  <2>4. \A t \in Sessions : found'[t] # Nothing => found'[t].id \in DOMAIN bank /\ found'[t].skill \in BSkill
    BY <1>2, <1>6, <1>7, <2>3 DEF SkillTypes
  <2> QED
    BY <1>2, <1>5, <2>1, <2>2, <2>4 DEF SkillTypes
<1>9. Others(s)
  BY <1>5, <1>7 DEF Others
<1>10. \A i \in Sessions : Source(s, i) => Source(s, i)'
  BY <1>1, NotYet DEF After
<1>11. doing[s] = "no_extraction" /\ ~HasMerged(s)'
  BY <1>1, <1>5, NotYet DEF After, HasMerged
<1>12. Doing(s)'
  BY <1>1, <1>5, <1>11 DEF SkillInv, Doing
<1>13. FoundStands(s)'
  <2>1. \A t \in Sessions, i \in Sessions : Source(t, i) => Source(t, i)'
    BY <1>1, <1>2, <1>9, <1>10, SourcesKept
  <2> SUFFICES ASSUME f # Nothing
               PROVE  MadeOf(f.id, f.skill) /\ \A t \in f.skill.from : Source(t, f.id)'
    BY <1>7 DEF FoundStands, MadeOf
  <2>2. f.id \in DOMAIN bank /\ f.skill = bank[f.id]
    BY <1>6
  <2>3. f.id \in Sessions /\ f.skill.from \subseteq Sessions
    BY <1>2, <2>2 DEF SkillTypes, BSkill
  <2>4. MadeOf(f.id, f.skill) /\ \A t \in f.skill.from : Source(t, f.id)
    BY <2>2 DEF SkillInv, BankStands
  <2> QED
    BY <2>1, <2>3, <2>4
<1>14. at'[s] = "judging" /\ found'[s] # Nothing => found'[s].skill = bank[found'[s].id]
  BY <1>6, <1>7
<1>15. IndexStands => IndexStands'
  BY <1>1, <1>5, <1>8, <1>9, <1>14, IndexSame DEF After
<1> QED
  BY <1>1, <1>5, <1>8, <1>9, <1>10, <1>11, <1>12, <1>13, <1>14, <1>15, BankSame

LEMMA SettleStep ==
  ASSUME SkillInv, method = "autoskill", NEW s \in Sessions,
         Discard(s) \/ IndexFails(s) \/ AutoskillRecord(s)
  PROVE  SkillInv'
<1>1. /\ Moves(s) /\ met' = met /\ at[s] \in {"judging", "reindexing", "recording"}
      /\ at'[s] \in {"recording", "done"} /\ (at'[s] = "done" <=> at[s] = "recording")
      /\ \A t \in Sessions \ {s} : at'[t] = at[t]
  BY SkillSteps DEF Discard, IndexFails, AutoskillRecord, Idle
<1>2. SkillTypes /\ MetInv /\ Doing(s)
  BY DEF SkillInv
<1>3. UNCHANGED <<bank, bankIndex, found, embedded>>
  BY DEF Discard, IndexFails, AutoskillRecord, autoskillVars, bankStore
<1>4. \/ /\ at[s] = "judging" /\ at'[s] = "recording" /\ bankHistory' = bankHistory
         /\ doing' = [doing EXCEPT ![s] = "discard"]
      \/ /\ at[s] = "reindexing" /\ at'[s] = "recording" /\ bankHistory' = bankHistory /\ doing' = doing
      \/ /\ at[s] = "recording" /\ at'[s] = "done" /\ doing' = doing
         /\ bankHistory' = [bankHistory EXCEPT ![s] = doing[s]]
  BY <1>1, SkillSteps DEF Discard, IndexFails, AutoskillRecord, autoskillVars, bankStore, Idle
<1>5. SkillTypes'
  <2>1. doing' \in [Sessions -> Taken]
    BY <1>2, <1>4 DEF SkillTypes, Taken
  <2>2. bankHistory' = [t \in Sessions |-> bankHistory'[t]]
    BY <1>2, <1>4 DEF SkillTypes
  <2> QED
    BY <1>2, <1>3, <2>1, <2>2 DEF SkillTypes
<1>6. Others(s)
  BY <1>2, <1>3, <1>4 DEF Others, SkillTypes
<1>7. at[s] = "judging" => doing[s] = "no_extraction" /\ \A i : ~Source(s, i)
  BY NotYet DEF After
<1>8. \A i \in Sessions : Source(s, i) => Source(s, i)'
  BY <1>2, <1>3, <1>4, <1>7 DEF Source, After, SkillTypes
<1>9. HasMerged(s)' => found'[s] = found[s] /\ HasMerged(s)
  BY <1>2, <1>3, <1>4 DEF HasMerged, SkillTypes
<1>10. Doing(s)'
  BY <1>2, <1>3, <1>4, <1>7 DEF Doing, SkillTypes
<1>11. FoundStands(s)'
  <2>1. \A t \in Sessions, i \in Sessions : Source(t, i) => Source(t, i)'
    BY <1>1, <1>2, <1>6, <1>8, SourcesKept
  <2> QED
    BY <1>3, <2>1, FoundKept
<1>12. at[s] \in After => embedded'[s] = embedded[s] /\ doing'[s] = doing[s]
  BY <1>3, <1>4 DEF After
<1>13. IndexStands => IndexStands'
  BY <1>1, <1>3, <1>5, <1>6, <1>12, IndexSame
<1> QED
  BY <1>1, <1>3, <1>5, <1>6, <1>8, <1>9, <1>10, <1>11, <1>13, BankSame

LEMMA IndexStep ==
  ASSUME SkillInv, method = "autoskill", NEW s \in Sessions, IndexAdded(s) \/ IndexMerged(s)
  PROVE  SkillInv'
<1>1. /\ Moves(s) /\ met' = met /\ at'[s] = "recording"
      /\ \A t \in Sessions \ {s} : at'[t] = at[t]
      /\ (IndexAdded(s) /\ at[s] = "indexing") \/ (IndexMerged(s) /\ at[s] = "reindexing")
  BY SkillSteps DEF IndexAdded, IndexMerged, Idle
<1>2. SkillTypes /\ MetInv /\ Doing(s)
  BY DEF SkillInv
<1>3. UNCHANGED <<bank, bankHistory, found, embedded>>
  BY DEF IndexAdded, IndexMerged
<1>4. /\ doing' = IF IndexMerged(s) THEN [doing EXCEPT ![s] = "merge"] ELSE doing
      /\ IndexMerged(s) => doing[s] = "no_extraction" /\ found[s] # Nothing
  <2>1. ~(IndexAdded(s) /\ IndexMerged(s))
    BY DEF IndexAdded, IndexMerged, Proceed
  <2>2. CASE IndexMerged(s)
    BY <1>1, <1>2, <2>1, <2>2 DEF IndexMerged, Doing
  <2>3. CASE ~IndexMerged(s)
    BY <2>3 DEF IndexAdded
  <2> QED
    BY <2>2, <2>3
<1>5. SkillTypes'
  <2>1. doing' \in [Sessions -> Taken]
    BY <1>2, <1>4 DEF SkillTypes, Taken
  <2>2. DOMAIN bankIndex' \subseteq DOMAIN bank
    <3>1. CASE IndexAdded(s)
      BY <1>1, <1>2, <3>1 DEF IndexAdded, IndexMerged, Put, Doing, SkillTypes, Proceed
    <3>2. CASE IndexMerged(s)
      BY <1>2, <1>4, <3>2 DEF IndexMerged, Put, SkillTypes
    <3> QED
      BY <3>1, <3>2
  <2> QED
    BY <1>2, <1>3, <2>1, <2>2 DEF SkillTypes
<1>6. Others(s)
  BY <1>2, <1>3, <1>4 DEF Others, SkillTypes
<1>7. \A i \in Sessions : Source(s, i) => Source(s, i)'
  BY <1>1, <1>2, <1>3, <1>4 DEF Source, After, SkillTypes
<1>8. HasMerged(s)' => found'[s] = found[s] /\ HasMerged(s)
  <2>1. found'[s] = found[s]
    BY <1>3
  <2>2. CASE IndexMerged(s)
    BY <1>1, <2>1, <2>2 DEF HasMerged, IndexMerged, IndexAdded, Proceed
  <2>3. CASE ~IndexMerged(s)
    BY <1>1, <1>4, <2>1, <2>3 DEF HasMerged
  <2> QED
    BY <2>2, <2>3
<1>9. Doing(s)'
  BY <1>1, <1>2, <1>3, <1>4 DEF Doing, SkillTypes
<1>10. FoundStands(s)'
  <2>1. \A t \in Sessions, i \in Sessions : Source(t, i) => Source(t, i)'
    BY <1>1, <1>2, <1>6, <1>7, SourcesKept
  <2> QED
    BY <1>3, <2>1, FoundKept
<1>11. ASSUME met = {}, IndexStands PROVE IndexStands'
  <2>1. \A t \in Sessions \ {s} : at'[t] \in Idle
    BY <1>1, <1>2, <1>11, OthersIdle DEF Idle
  <2>2. ASSUME NEW i \in DOMAIN bankIndex'
        PROVE  \/ i \in DOMAIN bankIndex /\ bankIndex'[i] = bankIndex[i]
                  /\ (IndexMerged(s) => i # found[s].id)
               \/ bankIndex'[i] = bank[i].from
    <3>1. CASE IndexAdded(s)
      BY <1>1, <1>11, <3>1 DEF IndexAdded, IndexMerged, Put, IndexStands, Proceed
    <3>2. CASE IndexMerged(s)
      BY <1>1, <1>11, <3>2 DEF IndexMerged, IndexAdded, Put, Merged, IndexStands, Proceed
    <3> QED
      BY <3>1, <3>2
  <2>3. ASSUME NEW i \in DOMAIN bankIndex'
        PROVE  /\ bankIndex'[i] \subseteq bank[i].from
               /\ \/ bankIndex'[i] = bank[i].from
                  \/ \E t \in bank[i].from \ bankIndex'[i] :
                       ~embedded[t] \/ doing'[t] = "no_extraction"
    <3>1. CASE bankIndex'[i] = bank[i].from
      BY <3>1
    <3>2. CASE bankIndex'[i] # bank[i].from
      <4>1. /\ i \in DOMAIN bankIndex /\ bankIndex'[i] = bankIndex[i]
            /\ IndexMerged(s) => i # found[s].id
        BY <2>2, <3>2
      <4>2. PICK t \in bank[i].from \ bankIndex[i] : ~embedded[t] \/ doing[t] = "no_extraction"
        BY <1>11, <3>2, <4>1 DEF IndexStands
      <4>3. i \in DOMAIN bank /\ t \in Sessions /\ Source(t, i)
        BY <1>2, <4>1, <4>2 DEF SkillInv, SkillTypes, BSkill, BankStands
      <4>4. t = s => ~IndexMerged(s)
        BY <1>4, <4>1, <4>3 DEF Source
      <4>5. doing'[t] = doing[t]
        BY <1>4, <1>6, <4>3, <4>4 DEF Others
      <4> QED
        BY <1>11, <4>1, <4>2, <4>5 DEF IndexStands
    <3> QED
      BY <3>1, <3>2
  <2>4. \A t \in Sessions : at'[t] \notin {"judging", "reindexing", "indexing"}
    BY <1>1, <2>1 DEF Idle
  <2> QED
    BY <1>3, <2>3, <2>4 DEF IndexStands
<1> QED
  BY <1>1, <1>3, <1>5, <1>6, <1>7, <1>8, <1>9, <1>10, <1>11, BankSame

\* A step that writes one skill of the bank: what it has to show of that skill
\* and of the session that writes it.
LEMMA BankWritten ==
  ASSUME SkillInv, method = "autoskill", NEW s \in Sessions, Moves(s), met' = met,
         SkillTypes', Others(s), found' = found, embedded' = embedded, bankIndex' = bankIndex,
         at[s] = "judging", at'[s] \in {"indexing", "reindexing", "recording"},
         NEW i \in Sessions, NEW skill \in BSkill, bank' = Put(bank, i, skill),
         MadeOf(i, skill), \A t \in skill.from : Source(t, i)', Doing(s)', Stays(s)',
         \A t \in Sessions \ {s} :
           Stays(t) /\ HasMerged(t) /\ found[t].id = i => Covers(skill.from, t),
         met = {} /\ IndexStands => IndexStands'
  PROVE  SkillInv'
<1>1. MetInv /\ MetInv' /\ method' = method /\ SkillTypes
  BY MetStep DEF SkillInv, Moves
<1>2. \A t \in Sessions \ {s} : at'[t] = at[t]
  BY <1>1 DEF Moves, MetInv
<1>3. \A t \in Sessions, j \in Sessions : Source(t, j) => Source(t, j)'
  <2>1. \A j \in Sessions : Source(s, j) => Source(s, j)'
    BY NotYet DEF After
  <2> QED
    BY <1>1, <2>1, SourcesKept
<1>4. BankStands'
  <2>1. \A j \in DOMAIN bank : MadeOf(j, bank[j]) /\ \A t \in bank[j].from : Source(t, j)
    BY DEF SkillInv, BankStands
  <2>2. \A j \in DOMAIN bank : j \in Sessions /\ bank[j].from \subseteq Sessions
    BY <1>1 DEF SkillTypes, BSkill
  <2>3. \A j \in DOMAIN bank' : (bank'[j] = skill /\ j = i) \/ (j \in DOMAIN bank /\ bank'[j] = bank[j])
    BY DEF Put
  <2>4. ASSUME NEW j \in DOMAIN bank'
        PROVE  MadeOf(j, bank'[j]) /\ \A t \in bank'[j].from : Source(t, j)'
    BY <1>3, <2>1, <2>2, <2>3
  <2> QED
    BY <2>4 DEF BankStands, MadeOf
<1>5. \A t \in Sessions : FoundStands(t)'
  BY <1>3, FoundKept
<1>6. ASSUME NEW t \in Sessions \ {s} PROVE Doing(t)'
  <2>1. Doing(t)
    BY DEF SkillInv
  <2>2. DOMAIN bank \subseteq DOMAIN bank'
    BY DEF Put
  <2> QED
    BY <1>2, <2>1, <2>2 DEF Doing, Others
<1>7. ASSUME NEW t \in Sessions \ {s}, HasMerged(t)'
      PROVE  /\ Covers(bank[found[t].id].from, t)'
             /\ \A u \in Sessions :
                  at'[u] = "judging" /\ found'[u] # Nothing /\ found'[u].id = found'[t].id =>
                    Covers(found[u].skill.from, t)' \/ {t, u} \in met'
  <2>1. HasMerged(t) /\ Stays(t) /\ Doing(t)
    BY <1>1, <1>2, <1>7 DEF HasMerged, Others, SkillInv
  <2>2. found[t].id \in DOMAIN bank
    BY <1>1, <2>1 DEF SkillTypes, Doing, HasMerged
  <2>3. Covers(bank'[found[t].id].from, t)
    <3>1. CASE found[t].id = i
      BY <2>1, <2>2, <3>1 DEF Put
    <3>2. CASE found[t].id # i
      BY <2>1, <2>2, <3>2 DEF Stays, Put
    <3> QED
      BY <3>1, <3>2
  <2>4. \A u \in Sessions : at'[u] = "judging" => at[u] = "judging"
    BY <1>2
  <2>5. Covers(bank[found[t].id].from, t)'
    BY <2>3 DEF Covers
  <2>6. \A u \in Sessions :
          at'[u] = "judging" /\ found'[u] # Nothing /\ found'[u].id = found'[t].id =>
            Covers(found[u].skill.from, t)' \/ {t, u} \in met'
    BY <2>1, <2>4 DEF Stays, Covers
  <2> QED
    BY <2>5, <2>6
<1>8. \A t \in Sessions : Stays(t)'
  BY <1>7 DEF Stays
<1>9. \A t \in Sessions : Doing(t)'
  BY <1>6
<1> QED
  BY <1>1, <1>4, <1>5, <1>8, <1>9 DEF SkillInv

LEMMA AddStep ==
  ASSUME SkillInv, method = "autoskill", NEW s \in Sessions, AddToBank(s)
  PROVE  SkillInv'
<1>1. /\ Moves(s) /\ at[s] = "judging" /\ at'[s] = "indexing" /\ met' = met
      /\ \A t \in Sessions \ {s} : at'[t] = at[t]
  <2>1. Proceed(s, "judging", "indexing")
    BY DEF AddToBank
  <2> QED
    BY <2>1, SkillSteps DEF Idle
<1>2. SkillTypes /\ MetInv /\ Doing(s)
  BY DEF SkillInv
<1>3. UNCHANGED <<bankIndex, bankHistory, found, embedded>>
  BY DEF AddToBank
<1> DEFINE skill == [from |-> {s}, version |-> 0]
<1>4. bank' = Put(bank, s, skill) /\ doing' = [doing EXCEPT ![s] = "add"]
  BY DEF AddToBank
<1>5. skill \in BSkill /\ MadeOf(s, skill)
  <2>1. IsFiniteSet({s}) /\ Cardinality({s}) = 1
    BY FS_Singleton
  <2>2. skill.from = {s} /\ skill.version = 0
    OBVIOUS
  <2> QED
    BY <2>1, <2>2 DEF BSkill, MadeOf
<1>6. doing'[s] = "add" /\ s \notin DOMAIN bank
  BY <1>1, <1>2, <1>4, NotYet DEF SkillTypes, After
<1>7. /\ DOMAIN bank' = DOMAIN bank \cup {s} /\ bank'[s] = skill
      /\ \A i \in DOMAIN bank : bank'[i] = bank[i]
  BY <1>4, <1>6 DEF Put
<1> HIDE DEF skill
<1>8. SkillTypes'
  <2>1. doing' \in [Sessions -> Taken]
    BY <1>2, <1>4 DEF SkillTypes, Taken
  <2>2. bank' \in [DOMAIN bank' -> BSkill]
    BY <1>2, <1>4, <1>5 DEF SkillTypes, Put
  <2> QED
    BY <1>2, <1>3, <1>7, <2>1, <2>2 DEF SkillTypes
<1>9. Others(s)
  BY <1>2, <1>3, <1>4 DEF Others, SkillTypes
<1>10. \A t \in skill.from : Source(t, s)'
  BY <1>1, <1>6 DEF skill, Source, After
<1>11. Doing(s)'
  BY <1>1, <1>2, <1>3, <1>6, <1>7 DEF Doing
<1>12. Stays(s)'
  BY <1>1, <1>6 DEF Stays, HasMerged
<1>13. \A t \in Sessions : HasMerged(t) => found[t].id # s
  BY <1>2, <1>6 DEF SkillInv, SkillTypes, Doing, HasMerged
<1>14. ASSUME met = {}, IndexStands PROVE IndexStands'
  <2>1. \A t \in Sessions \ {s} : at'[t] \in Idle
    BY <1>1, <1>2, <1>14, OthersIdle DEF Idle
  <2>2. ASSUME NEW i \in DOMAIN bankIndex
        PROVE  /\ bankIndex[i] \subseteq bank'[i].from
               /\ \/ bankIndex[i] = bank'[i].from
                  \/ \E t \in bank'[i].from \ bankIndex[i] :
                       ~embedded[t] \/ doing'[t] = "no_extraction"
    <3>1. i \in DOMAIN bank /\ bank'[i] = bank[i] /\ bank[i].from \subseteq Sessions \ {s}
      BY <1>1, <1>2, <1>7, NotYet DEF SkillTypes, BSkill, After
    <3>2. \A t \in bank[i].from : doing'[t] = doing[t]
      BY <1>9, <3>1 DEF Others
    <3> QED
      BY <1>14, <3>1, <3>2 DEF IndexStands
  <2>3. /\ at'[s] = "indexing" /\ bank'[s].from = {s}
        /\ \A t \in Sessions \ {s} : at'[t] \notin {"judging", "reindexing", "indexing"}
    BY <1>1, <1>7, <2>1 DEF Idle, skill
  <2> QED
    BY <1>3, <2>2, <2>3 DEF IndexStands
<1> QED
  BY <1>1, <1>3, <1>4, <1>5, <1>8, <1>9, <1>10, <1>11, <1>12, <1>13, <1>14, BankWritten

LEMMA MergeStep ==
  ASSUME SkillInv, method = "autoskill", NEW s \in Sessions, MergeIntoBank(s)
  PROVE  SkillInv'
<1>a. PICK i : i = found[s].id
  OBVIOUS
<1>b. PICK skill : skill = Merged(s)
  OBVIOUS
<1>1. /\ Moves(s) /\ at[s] = "judging" /\ met' = met /\ found[s] # Nothing
      /\ at'[s] = IF embedded[s] THEN "reindexing" ELSE "recording"
      /\ \A t \in Sessions \ {s} : at'[t] = at[t]
  <2>1. Proceed(s, "judging", IF embedded[s] THEN "reindexing" ELSE "recording") /\ found[s] # Nothing
    BY DEF MergeIntoBank
  <2> QED
    BY <2>1, SkillSteps DEF Idle
<1>2. SkillTypes /\ MetInv /\ Doing(s) /\ FoundStands(s)
  BY DEF SkillInv
<1>3. UNCHANGED <<bankIndex, bankHistory, found, embedded>>
  BY DEF MergeIntoBank
<1>4. /\ bank' = Put(bank, i, skill)
      /\ doing' = [doing EXCEPT ![s] = IF embedded[s] THEN @ ELSE "merge"]
  BY <1>a, <1>b DEF MergeIntoBank
<1>5. /\ s \notin DOMAIN bank /\ doing[s] = "no_extraction" /\ s \notin found[s].skill.from
      /\ \A j \in DOMAIN bank : s \notin bank[j].from
  BY <1>1, NotYet DEF After
<1>6. i \in DOMAIN bank /\ i \in Sessions /\ i # s /\ found[s].skill \in BSkill
  BY <1>a, <1>1, <1>2, <1>5 DEF SkillTypes
<1>7. skill \in BSkill /\ MadeOf(i, skill)
  <2>1. /\ i \in found[s].skill.from /\ IsFiniteSet(found[s].skill.from)
        /\ found[s].skill.version + 1 = Cardinality(found[s].skill.from)
    BY <1>a, <1>1, <1>2 DEF FoundStands, MadeOf
  <2>2. /\ IsFiniteSet(found[s].skill.from \cup {s})
        /\ Cardinality(found[s].skill.from \cup {s}) = Cardinality(found[s].skill.from) + 1
    BY <1>5, <2>1, FS_AddElement
  <2>3. /\ skill.from = found[s].skill.from \cup {s}
        /\ skill.version = found[s].skill.version + 1
    BY <1>b DEF Merged
  <2>4. skill \in BSkill
    BY <1>b, <1>6 DEF Merged, BSkill
  <2>5. found[s].skill.version \in Nat
    BY <1>6 DEF BSkill
  <2> QED
    BY <2>1, <2>2, <2>3, <2>4, <2>5 DEF MadeOf
<1>8. skill.from = found[s].skill.from \cup {s}
  BY <1>b DEF Merged
<1>9. /\ DOMAIN bank' = DOMAIN bank /\ bank'[i] = skill
      /\ \A j \in DOMAIN bank \ {i} : bank'[j] = bank[j]
  BY <1>4, <1>6 DEF Put
<1>10. doing'[s] = IF embedded[s] THEN "no_extraction" ELSE "merge"
  BY <1>2, <1>4, <1>5 DEF SkillTypes
<1>11. SkillTypes'
  <2>1. doing' \in [Sessions -> Taken]
    BY <1>2, <1>4 DEF SkillTypes, Taken
  <2>2. bank' \in [DOMAIN bank' -> BSkill]
    BY <1>2, <1>4, <1>7 DEF SkillTypes, Put
  <2> QED
    BY <1>2, <1>3, <1>9, <2>1, <2>2 DEF SkillTypes
<1>12. Others(s)
  BY <1>2, <1>3, <1>4 DEF Others, SkillTypes
<1>13. Source(s, i)'
  BY <1>a, <1>1, <1>2, <1>3, <1>6, <1>10 DEF Source, After, SkillTypes
<1>14. \A t \in skill.from : Source(t, i)'
  <2>1. \A t \in Sessions, j \in Sessions : Source(t, j) => Source(t, j)'
    <3>1. \A j \in Sessions : Source(s, j) => Source(s, j)'
      BY <1>1, NotYet DEF After
    <3> QED
      BY <1>1, <1>2, <1>12, <3>1, SourcesKept
  <2>2. \A t \in found[s].skill.from : t \in Sessions /\ Source(t, i)
    BY <1>a, <1>1, <1>2, <1>6 DEF FoundStands, BSkill
  <2> QED
    BY <1>6, <1>8, <1>13, <2>1, <2>2
<1>15. Doing(s)'
  BY <1>1, <1>2, <1>3, <1>5, <1>9, <1>10 DEF Doing
<1>16. Stays(s)'
  <2>1. Covers(bank[found[s].id].from, s)'
    BY <1>a, <1>3, <1>8, <1>9 DEF Covers
  <2>2. ASSUME NEW u \in Sessions, at'[u] = "judging" PROVE {s, u} \in met'
    <3>1. u # s /\ at[u] = "judging"
      BY <1>1, <2>2
    <3> QED
      BY <1>1, <1>2, <3>1 DEF MetInv, Idle
  <2> QED
    BY <2>1, <2>2 DEF Stays
<1>17. ASSUME NEW t \in Sessions \ {s}, Stays(t), HasMerged(t), found[t].id = i
       PROVE  Covers(skill.from, t)
  <2>1. Covers(found[s].skill.from, t) \/ {t, s} \in met
    BY <1>a, <1>1, <1>17 DEF Stays
  <2> QED
    BY <1>8, <2>1 DEF Covers
<1>18. ASSUME met = {}, IndexStands PROVE IndexStands'
  <2>1. \A t \in Sessions \ {s} : at'[t] \in Idle
    BY <1>1, <1>2, <1>18, OthersIdle DEF Idle
  <2>2. found[s].skill = bank[i] /\ skill.from = bank[i].from \cup {s}
    BY <1>a, <1>1, <1>8, <1>18 DEF IndexStands
  <2>3. ASSUME NEW j \in DOMAIN bankIndex
        PROVE  /\ bankIndex[j] \subseteq bank'[j].from
               /\ \/ bankIndex[j] = bank'[j].from
                  \/ \E t \in bank'[j].from \ bankIndex[j] :
                       ~embedded[t] \/ doing'[t] = "no_extraction"
    <3>1. /\ j \in DOMAIN bank /\ bank[j].from \subseteq Sessions \ {s}
          /\ bankIndex[j] \subseteq bank[j].from
      BY <1>2, <1>5, <1>18 DEF SkillTypes, BSkill, IndexStands
    <3>2. CASE j = i
      <4>1. s \in bank'[j].from \ bankIndex[j] /\ (~embedded[s] \/ doing'[s] = "no_extraction")
        BY <1>9, <1>10, <2>2, <3>1, <3>2
      <4> QED
        BY <1>9, <2>2, <3>1, <3>2, <4>1
    <3>3. CASE j # i
      <4>1. bank'[j] = bank[j] /\ \A t \in bank[j].from : doing'[t] = doing[t]
        BY <1>9, <1>12, <3>1, <3>3 DEF Others
      <4> QED
        BY <1>18, <3>1, <4>1 DEF IndexStands
    <3> QED
      BY <3>2, <3>3
  <2>4. /\ at'[s] = "reindexing" => bank'[found[s].id].from = found[s].skill.from \cup {s}
        /\ at'[s] \notin {"judging", "indexing"}
    BY <1>a, <1>1, <1>8, <1>9
  <2>5. \A t \in Sessions \ {s} : at'[t] \notin {"judging", "reindexing", "indexing"}
    BY <2>1 DEF Idle
  <2> QED
    BY <1>3, <2>3, <2>4, <2>5 DEF IndexStands
<1>19. at'[s] \in {"reindexing", "recording"}
  BY <1>1
<1> QED
  BY <1>1, <1>3, <1>4, <1>6, <1>7, <1>11, <1>12, <1>14, <1>15, <1>16, <1>17, <1>18, <1>19, BankWritten

LEMMA SkillStep ==
  ASSUME SkillInv, method = "autoskill", AutoskillNext
  PROVE  SkillInv'
<1>1. PICK s \in Sessions :
        \/ AutoskillStart(s) \/ AutoskillReact(s) \/ NoCandidate(s) \/ FindSimilar(s) \/ JudgeFails(s)
        \/ Discard(s) \/ AddToBank(s) \/ IndexAdded(s) \/ MergeIntoBank(s)
        \/ IndexMerged(s) \/ IndexFails(s) \/ AutoskillRecord(s)
  BY DEF AutoskillNext
<1>2. MetInv
  BY DEF SkillInv
<1>3. CASE AutoskillStart(s)
  <2>1. Moves(s) /\ at[s] = "new" /\ at'[s] = "acting"
    BY <1>2, <1>3 DEF AutoskillStart, Begin, Moves, Go, setup, MetInv
  <2>2. UNCHANGED <<bank, bankIndex, bankHistory, found, embedded, doing>>
    BY <1>3 DEF AutoskillStart
  <2> QED
    BY <2>1, <2>2, SkillQuiet DEF After
<1>4. CASE AutoskillReact(s)
  <2>1. Moves(s) /\ Turn(s) /\ (Go(s, "closing") \/ Go(s, "scoring") \/ at' = at)
    BY <1>2, <1>4, ReactMoves, Zenon DEF AutoskillReact, React
  <2>2. at[s] = "acting" /\ at'[s] \in {"acting", "closing", "scoring"}
    BY <1>2, <2>1 DEF Turn, Go, MetInv
  <2>3. UNCHANGED <<bank, bankIndex, bankHistory, found, embedded, doing>>
    BY <1>4 DEF AutoskillReact, autoskillVars, bankStore
  <2> QED
    BY <2>1, <2>2, <2>3, SkillQuiet DEF After
<1>5. CASE NoCandidate(s) \/ JudgeFails(s)
  <2>1. /\ Moves(s) /\ at[s] \in {"closing", "judging"} /\ at'[s] = "recording"
    BY <1>5, SkillSteps DEF NoCandidate, JudgeFails, Idle
  <2>2. UNCHANGED <<bank, bankIndex, bankHistory, found, embedded, doing>>
    BY <1>5 DEF NoCandidate, JudgeFails, autoskillVars, bankStore
  <2> QED
    BY <2>1, <2>2, SkillQuiet DEF After
<1> QED
  BY <1>1, <1>3, <1>4, <1>5, FindSimilarStep, SettleStep, IndexStep, AddStep, MergeStep

LEMMA SkillInitially == Init => SkillInv
<1> SUFFICES ASSUME Init PROVE SkillInv
  OBVIOUS
<1>1. MetInv /\ \A s \in Sessions : at[s] \in Idle
  BY MetInitially DEF Init, SessionsInit, Idle
<1>2. DOMAIN bank = {} /\ DOMAIN bankIndex = {} /\ bank \in [{} -> BSkill]
  BY EmptyLibraries DEF Init, AutoskillInit
<1>3. /\ bankHistory = [s \in Sessions |-> "none"] /\ found = [s \in Sessions |-> Nothing]
      /\ embedded = [s \in Sessions |-> FALSE] /\ doing = [s \in Sessions |-> "no_extraction"]
  BY DEF Init, AutoskillInit
<1>4. SkillTypes
  BY <1>2, <1>3 DEF SkillTypes, Taken
<1>5. BankStands /\ IndexStands
  BY <1>1, <1>2 DEF BankStands, IndexStands, Idle
<1>6. ASSUME NEW s \in Sessions PROVE FoundStands(s) /\ Doing(s) /\ Stays(s)
  BY <1>1, <1>3 DEF FoundStands, Doing, Stays, HasMerged, Idle
<1> QED
  BY <1>1, <1>2, <1>3, <1>4, <1>5, <1>6 DEF SkillInv

LEMMA SkillAlways == SkillInv /\ [Next]_vars => SkillInv'
<1> SUFFICES ASSUME SkillInv, [Next]_vars PROVE SkillInv'
  OBVIOUS
<1>1. MetInv /\ SkillTypes
  BY DEF SkillInv
<1>2. CASE method = "autoskill" /\ AutoskillNext
  BY <1>2, SkillStep
<1>3. CASE method = "autoskill" /\ Drive /\ UNCHANGED autoskillVars
  <2>1. PICK s \in Sessions : Live(s)
    BY <1>3 DEF Drive
  <2>2. Moves(s) /\ at[s] \in {"acting", "scoring"} /\ at'[s] \in {"scoring", "closing", "done"}
    BY <1>1, <2>1 DEF Live, SessionEnds, Feedback, BenchmarkFails, Proceed, Moves, Go, setup, Idle, MetInv
  <2>3. UNCHANGED <<bank, bankIndex, bankHistory, found, embedded, doing>>
    BY <1>3 DEF autoskillVars, bankStore
  <2> QED
    BY <1>3, <2>2, <2>3, SkillQuiet DEF After
<1>4. CASE method # "autoskill" /\ (AceNext \/ HarnessNext \/ RbNext \/ AmemNext \/ Drive)
           /\ UNCHANGED autoskillVars
  <2>1. PICK s \in Sessions : Moves(s)
    BY <1>1, <1>4, AceMoves, HarnessMoves, RbMoves, AmemMoves, DriveMoves
  <2>2. MetInv' /\ method' # "autoskill"
    BY <1>1, <1>4, <2>1, MetStep DEF Moves
  <2>3. SkillTypes' /\ UNCHANGED <<bank, bankIndex, bankHistory>>
    BY <1>1, <1>4 DEF autoskillVars, bankStore, SkillTypes
  <2> QED
    BY <1>4, <2>2, <2>3 DEF SkillInv
<1>5. CASE UNCHANGED vars
  <2>1. UNCHANGED <<method, at, met, bank, bankIndex, bankHistory, found, embedded, doing>>
    BY <1>5 DEF vars, session, setup, autoskillVars, bankStore
  <2>2. MetInv' /\ SkillTypes'
    BY <1>1, <2>1 DEF MetInv, SkillTypes
  <2>3. /\ BankStands' <=> BankStands
        /\ IndexStands' <=> IndexStands
        /\ \A s \in Sessions : /\ FoundStands(s)' <=> FoundStands(s)
                               /\ Doing(s)' <=> Doing(s)
                               /\ Stays(s)' <=> Stays(s)
    <3>1. BankStands' <=> BankStands
      BY <2>1 DEF BankStands, MadeOf, Source
    <3>2. IndexStands' <=> IndexStands
      BY <2>1 DEF IndexStands
    <3>3. ASSUME NEW s \in Sessions PROVE FoundStands(s)' <=> FoundStands(s)
      BY <2>1 DEF FoundStands, MadeOf, Source
    <3>4. ASSUME NEW s \in Sessions PROVE (Doing(s)' <=> Doing(s)) /\ (Stays(s)' <=> Stays(s))
      BY <2>1 DEF Doing, Stays, Covers, HasMerged
    <3> QED
      BY <3>1, <3>2, <3>3, <3>4
  <2> QED
    BY <2>1, <2>2, <2>3 DEF SkillInv
<1>6. CASE Next
  BY <1>2, <1>3, <1>4, <1>5, <1>6, Zenon DEF Next, vars
<1> QED
  BY <1>5, <1>6

\* For any number of sessions and threads: however sessions of the autoskill agent
\* overlap, an addition that was recorded is a skill of the bank, and what a skill
\* was made from was recorded as its addition or a merge, except a merge whose
\* embedding failed, and is as much as its version says; a recorded merge is
\* missing from its skill only when one of those that the skill is made of ran at
\* the same time; and if no sessions did, an embedding in the index is that of the
\* skill's content, unless it could not be computed (maintain_skill, update_skill,
\* set_embedding, record_learning).
THEOREM BankExplained == Spec => []AutoskillBankExplained
<1>1. Spec => []SkillInv
  BY SkillInitially, SkillAlways, PTL DEF Spec, vars
<1>2. SkillInv => AutoskillBankExplained
  <2> SUFFICES ASSUME SkillInv PROVE HistoryExplains /\ (met = {} => BankIndexAgrees)
    BY DEF AutoskillBankExplained
  <2>1. CASE method # "autoskill"
    BY <2>1 DEF SkillInv, HistoryExplains, RecordedAs, BankIndexAgrees
  <2>2. CASE method = "autoskill"
    <3>1. RecordedAs("add") \subseteq DOMAIN bank
      BY <2>2 DEF SkillInv, Doing, RecordedAs
    <3>2. ASSUME NEW i \in DOMAIN bank
          PROVE  /\ i \in bank[i].from /\ bank[i].version = Cardinality(bank[i].from) - 1
                 /\ \A s \in bank[i].from : at[s] = "done" =>
                      \/ bankHistory[s] = IF s = i THEN "add" ELSE "merge"
                      \/ s # i /\ embedded[s] /\ bankHistory[s] = "no_extraction"
      <4>1. MadeOf(i, bank[i]) /\ bank[i] \in BSkill /\ \A s \in bank[i].from : Source(s, i)
        BY <2>2 DEF SkillInv, SkillTypes, BankStands
      <4>2. bank[i].version \in Nat
        BY <4>1 DEF BSkill
      <4>3. bank[i].version = Cardinality(bank[i].from) - 1
        BY <4>1, <4>2 DEF MadeOf
      <4> QED
        BY <4>1, <4>3 DEF MadeOf, Source
    <3>3. ASSUME NEW s \in RecordedAs("merge") PROVE Covers(bank[found[s].id].from, s)
      BY <2>2, <3>3 DEF SkillInv, Doing, Stays, HasMerged, RecordedAs
    <3>4. met = {} => BankIndexAgrees
      BY <2>2 DEF SkillInv, IndexStands, BankIndexAgrees
    <3> QED
      BY <3>1, <3>2, <3>3, <3>4 DEF HistoryExplains
  <2> QED
    BY <2>1, <2>2
<1> QED
  BY <1>1, <1>2, PTL

-----------------------------------------------------------------------------
(* A-Mem                                                                   *)

ANote   == [by : Sessions, rev : Nat, odd : BOOLEAN]
Vector  == [by : Sessions, rev : Nat]
Flags   == [odd : BOOLEAN, evolved : BOOLEAN]
Neither == [added |-> 0, evolved |-> 0]

AmTypes ==
  /\ notes \in Seq(ANote) /\ index \in Seq(Vector) /\ evolutions \in Nat
  /\ note \in [Sessions -> Flags] /\ learned \in [Sessions -> Learned]
  /\ skewed \in BOOLEAN /\ broke \subseteq Sessions
  /\ amFile \in [Sessions -> Seq(ANote)]
  /\ storeLock \in Sessions \cup {NoHolder}

Evolved == {s \in Sessions : learned[s].evolved = 1}

\* The notes and the evolutions that are counted are those of sessions.
AmAccounts ==
  /\ IsFiniteSet(Noted) /\ Cardinality(Noted) = Len(notes)
  /\ IsFiniteSet(Evolved) /\ IsFiniteSet(broke)
  /\ Cardinality(Evolved) \leq evolutions
  /\ evolutions \leq Cardinality(Evolved \cup broke)

\* A session that holds the lock has evolved notes and not counted it yet.
Uncounted == \E s \in Sessions : at[s] \in {"adding", "consolidating"} /\ note[s].evolved

AmIndex ==
  /\ corpus = Len(notes) /\ Len(index) \leq Len(notes)
  /\ ~skewed =>
       /\ Len(index) = Len(notes)
       /\ \A i \in 1..Len(notes) : index[i].by = notes[i].by
       /\ evolutions % threshold = 0 /\ ~Uncounted =>
            \A i \in 1..Len(notes) : index[i].rev = notes[i].rev

Locking == {"evolving note", "adding", "consolidating"}
Written == {"recording", "saving", "done"}

\* What a session's place says of the lock and of what was done for it.
AmPlace(s) ==
  /\ storeLock = s <=> at[s] \in Locking
  /\ s \in Noted <=> learned[s].added = 1 \/ s \in broke \/ at[s] = "consolidating"
  /\ at[s] \notin Written => learned[s] = Neither /\ s \notin broke
  /\ note[s].evolved => at[s] \in {"adding", "consolidating"} \cup Written
  /\ \A h \in amHistory : h.by = s =>
       /\ at[s] \in {"saving", "done"}
       /\ h.added = learned[s].added /\ h.evolved = learned[s].evolved
  /\ Len(amFile[s]) \leq Len(notes)
  /\ \A i \in 1..Len(amFile[s]) : amFile[s][i].by = notes[i].by

AmInv ==
  /\ MetInv /\ AmTypes /\ AmAccounts /\ AmIndex
  /\ method = "a_mem" => \A s \in Sessions : AmPlace(s)
  /\ method # "a_mem" =>
       /\ amHistory = {} /\ broke = {} /\ Noted = {}
       /\ \A s \in Sessions : learned[s] = Neither /\ ~note[s].evolved /\ amFile[s] = <<>>

\* What the other sessions have is left to them.
AmOthers(s) ==
  \A t \in Sessions \ {s} :
    /\ note'[t] = note[t] /\ learned'[t] = learned[t] /\ amFile'[t] = amFile[t]
    /\ t \in broke' <=> t \in broke
    /\ storeLock' = t <=> storeLock = t
    /\ \A h \in amHistory' : h.by = t => h \in amHistory

LEMMA AmFrame ==
  ASSUME AmInv, method = "a_mem", NEW s \in Sessions, Moves(s), AmOthers(s),
         AmTypes', AmAccounts', AmIndex', AmPlace(s)',
         \A t \in Sessions \ {s} : t \in Noted' <=> t \in Noted,
         Len(notes) \leq Len(notes'), \A i \in 1..Len(notes) : notes'[i].by = notes[i].by
  PROVE  AmInv'
<1>1. MetInv /\ MetInv' /\ method' = method /\ AmTypes
  BY MetStep DEF AmInv, Moves
<1>2. ASSUME NEW t \in Sessions \ {s} PROVE AmPlace(t)'
  <2>1. at'[t] = at[t]
    BY <1>1 DEF Moves, MetInv
  <2>2. AmPlace(t)
    BY DEF AmInv
  <2>3. Len(amFile'[t]) \leq Len(notes') /\ \A i \in 1..Len(amFile'[t]) : amFile'[t][i].by = notes'[i].by
    <3>1. /\ amFile'[t] = amFile[t] /\ Len(amFile[t]) \in Nat /\ Len(notes) \in Nat
          /\ Len(notes') \in Nat
      BY <1>1 DEF AmTypes, AmOthers
    <3> QED
      BY <2>2, <3>1 DEF AmPlace
  <2>4. /\ storeLock' = t <=> at'[t] \in Locking
        /\ t \in Noted' <=> learned'[t].added = 1 \/ t \in broke' \/ at'[t] = "consolidating"
        /\ at'[t] \notin Written => learned'[t] = Neither /\ t \notin broke'
        /\ note'[t].evolved => at'[t] \in {"adding", "consolidating"} \cup Written
    BY <2>1, <2>2 DEF AmPlace, AmOthers
  <2>5. \A h \in amHistory' : h.by = t =>
          /\ at'[t] \in {"saving", "done"}
          /\ h.added = learned'[t].added /\ h.evolved = learned'[t].evolved
    BY <2>1, <2>2 DEF AmPlace, AmOthers
  <2> QED
    BY <2>3, <2>4, <2>5 DEF AmPlace
<1> QED
  BY <1>1, <1>2 DEF AmInv

\* A step that writes neither the notes nor the retriever.
LEMMA AmQuiet ==
  ASSUME AmInv, method = "a_mem", NEW s \in Sessions, Moves(s), AmOthers(s),
         UNCHANGED <<threshold, notes, corpus, index, evolutions, learned, skewed, broke>>,
         AmTypes', AmPlace(s)', at[s] \notin {"adding", "consolidating"}
  PROVE  AmInv'
<1>1. MetInv /\ AmTypes /\ AmAccounts /\ AmIndex
  BY DEF AmInv
<1>2. Noted' = Noted /\ Evolved' = Evolved
  BY DEF Noted, Evolved
<1>3. AmAccounts'
  BY <1>1, <1>2 DEF AmAccounts
<1>4. Uncounted => Uncounted'
  <2>1. \A t \in Sessions \ {s} : at'[t] = at[t] /\ note'[t] = note[t]
    BY <1>1 DEF Moves, MetInv, AmOthers
  <2> QED
    BY <2>1 DEF Uncounted
<1>5. AmIndex'
  BY <1>1, <1>4 DEF AmIndex
<1>6. Len(notes) \in Nat /\ notes' = notes
  BY <1>1 DEF AmTypes
<1> QED
  BY <1>2, <1>3, <1>5, <1>6, AmFrame

\* A step of a session that has not come to the notes.
LEMMA AmEarly ==
  ASSUME AmInv, method = "a_mem", NEW s \in Sessions, Moves(s),
         at[s] \notin Locking \cup Written, at'[s] \notin Locking \cup {"saving"},
         UNCHANGED <<threshold, notes, corpus, index, evolutions, learned, skewed, broke,
                     storeLock, note, amHistory, amFile>>
  PROVE  AmInv'
<1>1. AmTypes' /\ AmOthers(s)
  BY DEF AmInv, AmTypes, AmOthers
<1>2. AmPlace(s)
  BY DEF AmInv
<1>3. Noted' = Noted
  BY DEF Noted
<1>4. s \notin Noted /\ ~note[s].evolved
  <2>1. /\ s \in Noted <=> learned[s].added = 1 \/ s \in broke \/ at[s] = "consolidating"
        /\ learned[s] = Neither /\ s \notin broke
        /\ note[s].evolved => at[s] \in {"adding", "consolidating"} \cup Written
    BY <1>2 DEF AmPlace
  <2>2. learned[s].added = 0
    BY <2>1 DEF Neither
  <2>3. at[s] \notin {"adding", "consolidating"} \cup Written
    BY DEF Locking
  <2>4. s \notin Noted
    BY <2>1, <2>2, <2>3
  <2> QED
    BY <2>1, <2>3, <2>4
<1>5. AmPlace(s)'
  BY <1>2, <1>3, <1>4 DEF AmPlace, Locking, Written, Neither
<1> QED
  BY <1>1, <1>5, AmQuiet DEF Locking

LEMMA AmSteps ==
  ASSUME AmInv, NEW s \in Sessions, NEW from, NEW to, from \notin Idle, Proceed(s, from, to)
  PROVE  Moves(s) /\ at[s] = from /\ at'[s] = to
BY ProceedMoves DEF AmInv, Proceed, Go, MetInv

LEMMA AmLockFree ==
  ASSUME AmInv, method = "a_mem", Unlocked, NEW s \in Sessions
  PROVE  at[s] \notin Locking /\ storeLock # s
BY HolderAssumption DEF AmInv, AmPlace, Unlocked

LEMMA AmAdds ==
  ASSUME AmInv, method = "a_mem", NEW s \in Sessions, AddMemory(s)
  PROVE  AmInv'
<1>1. Moves(s) /\ at[s] = "closing" /\ at'[s] = "evolving note"
  BY AmSteps DEF AddMemory, Idle
<1>2. storeLock' = s /\ UNCHANGED <<threshold, notes, corpus, index, evolutions, learned, skewed,
                                   broke, note, amHistory, amFile>>
  BY DEF AddMemory, amStore, amTrace
<1>3. AmTypes'
  BY <1>2 DEF AmInv, AmTypes
<1>4. AmOthers(s)
  BY <1>2, AmLockFree DEF AddMemory, AmOthers
<1>5. AmPlace(s) /\ Noted' = Noted
  BY <1>2 DEF AmInv, Noted
<1>6. AmPlace(s)'
  BY <1>1, <1>2, <1>5 DEF AmPlace, Locking, Written, Neither
<1> QED
  BY <1>1, <1>2, <1>3, <1>4, <1>6, AmQuiet

LEMMA AmEvolvesNothing ==
  ASSUME AmInv, method = "a_mem", NEW s \in Sessions, NoEvolution(s)
  PROVE  AmInv'
<1>1. Moves(s) /\ at[s] = "evolving note" /\ at'[s] = "adding"
  BY AmSteps DEF NoEvolution, Idle
<1>2. UNCHANGED <<threshold, notes, corpus, index, evolutions, learned, skewed, broke, storeLock,
                  amHistory, amFile>>
  BY DEF NoEvolution, amStore, amTrace
<1>3. AmTypes /\ AmPlace(s) /\ Noted' = Noted
  BY <1>2 DEF AmInv, Noted
<1>4. PICK o \in BOOLEAN : note' = note \/ note' = [note EXCEPT ![s].odd = o]
  BY DEF NoEvolution
<1>5. /\ note' \in [Sessions -> Flags] /\ note'[s].evolved = note[s].evolved
      /\ \A t \in Sessions \ {s} : note'[t] = note[t]
  BY <1>3, <1>4 DEF AmTypes, Flags
<1>6. AmTypes' /\ AmOthers(s)
  BY <1>2, <1>3, <1>5 DEF AmTypes, AmOthers
<1>7. AmPlace(s)'
  BY <1>1, <1>2, <1>3, <1>5 DEF AmPlace, Locking, Written, Neither
<1> QED
  BY <1>1, <1>2, <1>6, <1>7, AmQuiet

LEMMA AmEvolves ==
  ASSUME AmInv, method = "a_mem", NEW s \in Sessions, Evolve(s)
  PROVE  AmInv'
<1>1. Moves(s) /\ at[s] = "evolving note" /\ at'[s] = "adding"
  <2>1. Proceed(s, "evolving note", "adding")
    BY DEF Evolve
  <2> QED
    BY <2>1, AmSteps DEF Idle
<1>2. UNCHANGED <<threshold, corpus, index, evolutions, learned, skewed, broke, storeLock,
                  amHistory, amFile>>
  BY DEF Evolve, amTrace
<1>3. AmTypes /\ AmPlace(s) /\ AmAccounts /\ AmIndex
  BY DEF AmInv
<1>4. PICK neighbours \in SUBSET (1..Len(notes)), o \in BOOLEAN :
        /\ notes' = [i \in 1..Len(notes) |->
                       IF i \in neighbours THEN [notes[i] EXCEPT !.rev = @ + 1] ELSE notes[i]]
        /\ note' = [note EXCEPT ![s] = [odd |-> o, evolved |-> TRUE]]
  BY DEF Evolve
<1>5. Len(notes) \in Nat /\ \A i \in 1..Len(notes) : notes[i] \in ANote
  BY <1>3 DEF AmTypes
<1>6. /\ notes' \in Seq(ANote) /\ Len(notes') = Len(notes)
      /\ \A i \in 1..Len(notes) : notes'[i].by = notes[i].by
  <2>1. ASSUME NEW i \in 1..Len(notes)
        PROVE  notes'[i] \in ANote /\ notes'[i].by = notes[i].by
    BY <1>4, <1>5 DEF ANote
  <2>2. notes' \in [1..Len(notes) -> ANote]
    BY <1>4, <2>1
  <2> QED
    BY <1>5, <2>1, <2>2
<1>7. /\ note' \in [Sessions -> Flags] /\ note'[s].evolved
      /\ \A t \in Sessions \ {s} : note'[t] = note[t]
  BY <1>3, <1>4 DEF AmTypes, Flags
<1>8. AmTypes' /\ AmOthers(s)
  BY <1>2, <1>3, <1>6, <1>7 DEF AmTypes, AmOthers
<1>9. Noted' = Noted /\ Evolved' = Evolved
  BY <1>2, <1>6 DEF Noted, Evolved
<1>10. AmAccounts'
  BY <1>2, <1>3, <1>6, <1>9 DEF AmAccounts
<1>11. AmIndex'
  <2>1. Uncounted'
    BY <1>1, <1>7 DEF Uncounted
  <2> QED
    BY <1>2, <1>3, <1>6, <2>1 DEF AmIndex
<1>12. AmPlace(s)'
  <2>1. /\ amFile'[s] = amFile[s] /\ Len(amFile[s]) \in Nat /\ Len(notes) \in Nat
        /\ Len(amFile[s]) \leq Len(notes)
    BY <1>2, <1>3 DEF AmTypes, AmPlace
  <2>2. Len(amFile'[s]) \leq Len(notes') /\ \A i \in 1..Len(amFile'[s]) : amFile'[s][i].by = notes'[i].by
    BY <1>3, <1>6, <2>1 DEF AmPlace
  <2> QED
    BY <1>1, <1>2, <1>3, <1>7, <1>9, <2>2 DEF AmPlace, Locking, Written, Neither
<1>13. Len(notes) \leq Len(notes') /\ \A i \in 1..Len(notes) : notes'[i].by = notes[i].by
  BY <1>5, <1>6
<1> QED
  BY <1>1, <1>8, <1>9, <1>10, <1>11, <1>12, <1>13, AmFrame

\* What storing the note of session s does to the notes.
LEMMA AmAppended ==
  ASSUME AmInv, method = "a_mem", NEW s \in Sessions, at[s] = "adding", notes' = Append(notes, Own(s))
  PROVE  /\ notes' \in Seq(ANote) /\ Len(notes) \in Nat /\ Len(notes') = Len(notes) + 1
         /\ \A i \in 1..Len(notes) : notes'[i] = notes[i]
         /\ notes'[Len(notes) + 1] = Own(s)
         /\ s \notin Noted /\ Noted' = Noted \cup {s}
         /\ IsFiniteSet(Noted') /\ Cardinality(Noted') = Len(notes')
         /\ learned[s] = Neither /\ s \notin broke /\ s \notin Evolved
         /\ storeLock = s
<1>1. notes \in Seq(ANote) /\ AmPlace(s) /\ note \in [Sessions -> Flags]
  BY DEF AmInv, AmTypes
<1>2. Own(s) \in ANote
  BY <1>1 DEF Own, ANote, Flags
<1>3. /\ notes' \in Seq(ANote) /\ Len(notes) \in Nat /\ Len(notes') = Len(notes) + 1
      /\ \A i \in 1..Len(notes) : notes'[i] = notes[i]
      /\ notes'[Len(notes) + 1] = Own(s)
  BY <1>1, <1>2
<1>4. /\ s \in Noted <=> learned[s].added = 1 \/ s \in broke \/ at[s] = "consolidating"
      /\ learned[s] = Neither /\ s \notin broke /\ storeLock = s
  BY <1>1 DEF AmPlace, Locking, Written
<1>5. s \notin Noted /\ s \notin Evolved
  BY <1>4 DEF Neither, Evolved
<1>6. Noted' = Noted \cup {s}
  <2>1. ASSUME NEW i \in 1..Len(notes') PROVE notes'[i].by \in Noted \cup {s}
    <3>1. CASE i \in 1..Len(notes)
      BY <1>3, <3>1 DEF Noted
    <3>2. CASE i = Len(notes) + 1
      BY <1>3, <3>2 DEF Own
    <3> QED
      BY <1>3, <3>1, <3>2
  <2>2. ASSUME NEW i \in 1..Len(notes) PROVE i \in 1..Len(notes') /\ notes'[i].by = notes[i].by
    BY <1>3
  <2>3. Len(notes) + 1 \in 1..Len(notes') /\ notes'[Len(notes) + 1].by = s
    BY <1>3 DEF Own
  <2> QED
    BY <2>1, <2>2, <2>3 DEF Noted
<1>7. IsFiniteSet(Noted') /\ Cardinality(Noted') = Len(notes')
  <2>1. IsFiniteSet(Noted) /\ Cardinality(Noted) = Len(notes)
    BY DEF AmInv, AmAccounts
  <2>2. IsFiniteSet(Noted \cup {s}) /\ Cardinality(Noted \cup {s}) = Cardinality(Noted) + 1
    BY <1>5, <2>1, FS_AddElement
  <2> QED
    BY <1>3, <1>6, <2>1, <2>2
<1> QED
  BY <1>3, <1>4, <1>5, <1>6, <1>7

\* The checkpoint of a session has notes that are still there.
LEMMA AmFileStands ==
  ASSUME AmInv, method = "a_mem", NEW s \in Sessions
  PROVE  /\ Len(amFile[s]) \in Nat /\ Len(amFile[s]) \leq Len(notes)
         /\ \A i \in 1..Len(amFile[s]) : amFile[s][i].by = notes[i].by
<1>1. amFile[s] \in Seq(ANote)
  BY DEF AmInv, AmTypes
<1>2. AmPlace(s)
  BY DEF AmInv
<1>3. Len(amFile[s]) \leq Len(notes) /\ \A i \in 1..Len(amFile[s]) : amFile[s][i].by = notes[i].by
  BY <1>2 DEF AmPlace
<1> QED
  BY <1>1, <1>3

\* A step of the session that holds the lock leaves nothing to the others.
LEMMA AmHeld ==
  ASSUME AmInv, method = "a_mem", NEW s \in Sessions, at[s] \in Locking
  PROVE  /\ storeLock = s
         /\ \A t \in Sessions \ {s} : at[t] \notin Locking /\ storeLock # t
         /\ \A h \in amHistory : h.by # s
<1>1. AmPlace(s) /\ \A t \in Sessions : storeLock = t <=> at[t] \in Locking
  BY DEF AmInv, AmPlace
<1>2. \A h \in amHistory : h.by = s => at[s] \in {"saving", "done"}
  BY <1>1 DEF AmPlace
<1> QED
  BY <1>1, <1>2 DEF Locking

LEMMA AmStores ==
  ASSUME AmInv, method = "a_mem", NEW s \in Sessions, StoreNote(s)
  PROVE  AmInv'
<1>1. Moves(s) /\ at[s] = "adding" /\ at'[s] = IF note[s].evolved THEN "consolidating" ELSE "recording"
  <2>1. Proceed(s, "adding", IF note[s].evolved THEN "consolidating" ELSE "recording")
    BY DEF StoreNote
  <2> QED
    BY <2>1, AmSteps DEF Idle
<1>2. /\ notes' = Append(notes, Own(s)) /\ corpus' = corpus + 1
      /\ index' = Append(index, [by |-> s, rev |-> 0])
      /\ learned' = [learned EXCEPT ![s].added = IF note[s].evolved THEN 0 ELSE 1]
      /\ storeLock' = IF note[s].evolved THEN s ELSE NoHolder
      /\ UNCHANGED <<threshold, evolutions, amHistory, note, skewed, broke, amFile>>
  BY DEF StoreNote, amTrace
<1>3. AmTypes /\ AmPlace(s) /\ AmAccounts /\ AmIndex
  BY DEF AmInv
<1>4. /\ notes' \in Seq(ANote) /\ Len(notes) \in Nat /\ Len(notes') = Len(notes) + 1
      /\ \A i \in 1..Len(notes) : notes'[i] = notes[i]
      /\ notes'[Len(notes) + 1] = Own(s)
      /\ s \notin Noted /\ Noted' = Noted \cup {s}
      /\ IsFiniteSet(Noted') /\ Cardinality(Noted') = Len(notes')
      /\ learned[s] = Neither /\ s \notin broke
  BY <1>1, <1>2, AmAppended
<1>5. /\ index' \in Seq(Vector) /\ Len(index) \in Nat /\ Len(index') = Len(index) + 1
      /\ \A i \in 1..Len(index) : index'[i] = index[i]
      /\ index'[Len(index) + 1] = [by |-> s, rev |-> 0]
  <2>1. [by |-> s, rev |-> 0] \in Vector
    BY DEF Vector
  <2>2. index \in Seq(Vector)
    BY <1>3 DEF AmTypes
  <2> QED
    BY <1>2, <2>1, <2>2
<1>6. /\ learned' \in [Sessions -> Learned] /\ \A t \in Sessions \ {s} : learned'[t] = learned[t]
      /\ learned'[s] = [added |-> IF note[s].evolved THEN 0 ELSE 1, evolved |-> 0]
  <2>1. learned \in [Sessions -> Learned]
    BY <1>3 DEF AmTypes
  <2>2. learned' = [learned EXCEPT ![s] = [added |-> IF note[s].evolved THEN 0 ELSE 1, evolved |-> 0]]
    <3>1. learned' = [learned EXCEPT ![s] = [learned[s] EXCEPT !.added = IF note[s].evolved THEN 0 ELSE 1]]
      BY <1>2, <2>1
    <3>2. [Neither EXCEPT !.added = IF note[s].evolved THEN 0 ELSE 1]
            = [added |-> IF note[s].evolved THEN 0 ELSE 1, evolved |-> 0]
      BY DEF Neither
    <3> QED
      BY <1>4, <3>1, <3>2
  <2>3. [added |-> IF note[s].evolved THEN 0 ELSE 1, evolved |-> 0] \in Learned
    BY DEF Learned
  <2> QED
    BY <2>1, <2>2, <2>3
<1>7. /\ storeLock = s /\ \A t \in Sessions \ {s} : at[t] \notin Locking /\ storeLock # t
      /\ \A h \in amHistory : h.by # s
  BY <1>1, AmHeld DEF Locking
<1>8. AmTypes'
  BY <1>2, <1>3, <1>4, <1>5, <1>6 DEF AmTypes
<1>9. AmOthers(s)
  BY <1>2, <1>6, <1>7, HolderAssumption DEF AmOthers
<1>10. Evolved' = Evolved
  BY <1>4, <1>6 DEF Evolved, Neither
<1>11. AmAccounts'
  BY <1>2, <1>3, <1>4, <1>10 DEF AmAccounts
<1>12. AmIndex'
  <2>1. corpus' = Len(notes') /\ Len(index') \leq Len(notes')
    BY <1>2, <1>3, <1>4, <1>5 DEF AmIndex
  <2>2. ASSUME ~skewed
        PROVE  /\ Len(index') = Len(notes')
               /\ \A i \in 1..Len(notes') : index'[i].by = notes'[i].by
    <3>1. Len(index) = Len(notes) /\ \A i \in 1..Len(notes) : index[i].by = notes[i].by
      BY <1>3, <2>2 DEF AmIndex
    <3> QED
      BY <1>4, <1>5, <3>1 DEF Own
  <2>3. ASSUME ~skewed, evolutions % threshold = 0, ~Uncounted'
        PROVE  \A i \in 1..Len(notes') : index'[i].rev = notes'[i].rev
    <3>1. ~note[s].evolved
      BY <1>1, <1>2, <2>3 DEF Uncounted
    <3>2. ~Uncounted
      BY <1>7, <3>1 DEF Uncounted, Locking
    <3>3. Len(index) = Len(notes) /\ \A i \in 1..Len(notes) : index[i].rev = notes[i].rev
      BY <1>3, <2>3, <3>2 DEF AmIndex
    <3> QED
      BY <1>4, <1>5, <3>3 DEF Own
  <2> QED
    BY <1>2, <2>1, <2>2, <2>3 DEF AmIndex
<1>13. AmPlace(s)'
  <2>1. storeLock' = s <=> at'[s] \in Locking
    BY <1>1, <1>2, HolderAssumption DEF Locking
  <2>2. s \in Noted' /\ (learned'[s].added = 1 \/ s \in broke' \/ at'[s] = "consolidating")
    BY <1>1, <1>4, <1>6
  <2>3. at'[s] \notin Written => learned'[s] = Neither /\ s \notin broke'
    BY <1>1, <1>2, <1>4, <1>6 DEF Written, Neither
  <2>4. at'[s] \in {"adding", "consolidating"} \cup Written
    BY <1>1 DEF Written
  <2>5. Len(amFile[s]) \in Nat /\ Len(amFile[s]) \leq Len(notes)
        /\ \A i \in 1..Len(amFile[s]) : amFile[s][i].by = notes[i].by
    BY AmFileStands
  <2>6. Len(amFile'[s]) \leq Len(notes') /\ \A i \in 1..Len(amFile'[s]) : amFile'[s][i].by = notes'[i].by
    BY <1>2, <1>4, <2>5
  <2> QED
    BY <1>2, <1>7, <2>1, <2>2, <2>3, <2>4, <2>6 DEF AmPlace
<1>14. Len(notes) \leq Len(notes') /\ \A i \in 1..Len(notes) : notes'[i].by = notes[i].by
  BY <1>4
<1> QED
  BY <1>1, <1>4, <1>8, <1>9, <1>11, <1>12, <1>13, <1>14, AmFrame

LEMMA AmStoresBadly ==
  ASSUME AmInv, method = "a_mem", NEW s \in Sessions, IndexNoteFails(s)
  PROVE  AmInv'
<1>1. Moves(s) /\ at[s] = "adding" /\ at'[s] = "recording"
  BY AmSteps DEF IndexNoteFails, Idle
<1>2. /\ notes' = Append(notes, Own(s)) /\ corpus' = corpus + 1
      /\ skewed' = TRUE /\ broke' = broke \cup {s} /\ storeLock' = NoHolder
      /\ UNCHANGED <<threshold, index, evolutions, amHistory, note, learned, amFile>>
  BY DEF IndexNoteFails
<1>3. AmTypes /\ AmPlace(s) /\ AmAccounts /\ AmIndex
  BY DEF AmInv
<1>4. /\ notes' \in Seq(ANote) /\ Len(notes) \in Nat /\ Len(notes') = Len(notes) + 1
      /\ \A i \in 1..Len(notes) : notes'[i] = notes[i]
      /\ s \notin Noted /\ Noted' = Noted \cup {s}
      /\ IsFiniteSet(Noted') /\ Cardinality(Noted') = Len(notes')
      /\ learned[s] = Neither /\ s \notin broke
  BY <1>1, <1>2, AmAppended
<1>5. /\ storeLock = s /\ \A t \in Sessions \ {s} : at[t] \notin Locking /\ storeLock # t
      /\ \A h \in amHistory : h.by # s
  BY <1>1, AmHeld DEF Locking
<1>6. AmTypes'
  BY <1>2, <1>3, <1>4 DEF AmTypes
<1>7. AmOthers(s)
  BY <1>2, <1>5, HolderAssumption DEF AmOthers
<1>8. AmAccounts'
  <2>1. Evolved' = Evolved
    BY <1>2 DEF Evolved
  <2>2. /\ IsFiniteSet(Evolved) /\ IsFiniteSet(broke) /\ IsFiniteSet(Evolved \cup broke)
        /\ evolutions \leq Cardinality(Evolved \cup broke)
    BY <1>3, FS_Union DEF AmAccounts
  <2>3. IsFiniteSet(broke') /\ Evolved' \cup broke' = (Evolved \cup broke) \cup {s}
    BY <1>2, <2>1, <2>2, FS_AddElement
  <2>4. Cardinality(Evolved \cup broke) \in Nat /\ Cardinality(Evolved' \cup broke') \in Nat
        /\ Cardinality(Evolved \cup broke) \leq Cardinality(Evolved' \cup broke')
    <3> DEFINE S == Evolved \cup broke
    <3>1. IsFiniteSet(S) /\ Cardinality(S) \in Nat
      BY <2>2, FS_CardinalityType
    <3>2. Cardinality(S \cup {s}) = IF s \in S THEN Cardinality(S) ELSE Cardinality(S) + 1
      BY <3>1, FS_AddElement
    <3> QED
      BY <2>3, <3>1, <3>2
  <2> QED
    BY <1>2, <1>3, <1>4, <2>1, <2>2, <2>3, <2>4 DEF AmAccounts, AmTypes
<1>9. AmIndex'
  <2>1. Len(index) \in Nat /\ corpus = Len(notes) /\ Len(index) \leq Len(notes)
    BY <1>3 DEF AmTypes, AmIndex
  <2> QED
    BY <1>2, <1>4, <2>1 DEF AmIndex
<1>10. AmPlace(s)'
  <2>1. Len(amFile[s]) \in Nat /\ Len(amFile[s]) \leq Len(notes)
        /\ \A i \in 1..Len(amFile[s]) : amFile[s][i].by = notes[i].by
    BY AmFileStands
  <2>2. Len(amFile'[s]) \leq Len(notes') /\ \A i \in 1..Len(amFile'[s]) : amFile'[s][i].by = notes'[i].by
    BY <1>2, <1>4, <2>1
  <2> QED
    BY <1>1, <1>2, <1>4, <1>5, <2>2, HolderAssumption DEF AmPlace, Locking, Written
<1>11. Len(notes) \leq Len(notes') /\ \A i \in 1..Len(notes) : notes'[i].by = notes[i].by
  BY <1>4
<1> QED
  BY <1>1, <1>4, <1>6, <1>7, <1>8, <1>9, <1>10, <1>11, AmFrame

\* Where a session that consolidates stands.
LEMMA AmConsolidating ==
  ASSUME AmInv, method = "a_mem", NEW s \in Sessions, at[s] = "consolidating"
  PROVE  /\ s \in Noted /\ learned[s] = Neither /\ s \notin broke /\ s \notin Evolved
         /\ storeLock = s /\ \A t \in Sessions \ {s} : at[t] \notin Locking /\ storeLock # t
         /\ \A h \in amHistory : h.by # s
<1>1. AmPlace(s)
  BY DEF AmInv
<1>2. s \in Noted /\ learned[s] = Neither /\ s \notin broke
  BY <1>1 DEF AmPlace, Written
<1>3. s \notin Evolved
  BY <1>2 DEF Neither, Evolved
<1> QED
  BY <1>2, <1>3, AmHeld DEF Locking

LEMMA AmCounts ==
  ASSUME AmInv, method = "a_mem", NEW s \in Sessions, Consolidate(s)
  PROVE  AmInv'
<1>1. Moves(s) /\ at[s] = "consolidating" /\ at'[s] = "recording"
  BY AmSteps DEF Consolidate, Idle
<1>2. /\ evolutions' = evolutions + 1
      /\ learned' = [learned EXCEPT ![s] = [added |-> 1, evolved |-> 1]]
      /\ storeLock' = NoHolder
      /\ UNCHANGED <<threshold, notes, amHistory, note, broke, amFile>>
  BY DEF Consolidate
<1>3. AmTypes /\ AmPlace(s) /\ AmAccounts /\ AmIndex
  BY DEF AmInv
<1>4. /\ s \in Noted /\ learned[s] = Neither /\ s \notin broke /\ s \notin Evolved
      /\ storeLock = s /\ \A t \in Sessions \ {s} : at[t] \notin Locking /\ storeLock # t
      /\ \A h \in amHistory : h.by # s
  BY <1>1, AmConsolidating
<1>5. \/ /\ evolutions' % threshold = 0
         /\ index' = [i \in 1..Len(notes) |-> [by |-> notes[i].by, rev |-> notes[i].rev]]
         /\ corpus' = Len(notes) /\ skewed' = FALSE
      \/ evolutions' % threshold # 0 /\ UNCHANGED <<index, corpus, skewed>>
  BY DEF Consolidate
<1>6. Len(notes) \in Nat /\ Len(index) \in Nat /\ \A i \in 1..Len(notes) : notes[i] \in ANote
  BY <1>3 DEF AmTypes
<1>7. ASSUME evolutions' % threshold = 0
      PROVE  /\ index' \in Seq(Vector) /\ Len(index') = Len(notes)
             /\ \A i \in 1..Len(notes) : index'[i].by = notes[i].by /\ index'[i].rev = notes[i].rev
  <2>1. index' = [i \in 1..Len(notes) |-> [by |-> notes[i].by, rev |-> notes[i].rev]]
    BY <1>5, <1>7
  <2>2. \A i \in 1..Len(notes) : index'[i] \in Vector
    BY <1>6, <2>1 DEF Vector, ANote
  <2>3. index' \in [1..Len(notes) -> Vector]
    BY <2>1, <2>2
  <2>4. index' \in Seq(Vector) /\ Len(index') = Len(notes)
    BY <1>6, <2>3
  <2>5. \A i \in 1..Len(notes) : index'[i].by = notes[i].by /\ index'[i].rev = notes[i].rev
    BY <2>1
  <2> QED
    BY <2>4, <2>5
<1>8. /\ learned' \in [Sessions -> Learned] /\ learned'[s] = [added |-> 1, evolved |-> 1]
      /\ \A t \in Sessions \ {s} : learned'[t] = learned[t]
  <2>1. [added |-> 1, evolved |-> 1] \in Learned /\ learned \in [Sessions -> Learned]
    BY <1>3 DEF Learned, AmTypes
  <2> QED
    BY <1>2, <2>1
<1>9. AmTypes'
  <2>1. index' \in Seq(Vector) /\ skewed' \in BOOLEAN
    BY <1>3, <1>5, <1>7 DEF AmTypes
  <2> QED
    BY <1>2, <1>3, <1>8, <2>1 DEF AmTypes
<1>10. AmOthers(s)
  BY <1>2, <1>4, <1>8, HolderAssumption DEF AmOthers
<1>11. Noted' = Noted
  BY <1>2 DEF Noted
<1>12. AmAccounts'
  <2>1. Evolved' = Evolved \cup {s}
    BY <1>8 DEF Evolved
  <2>2. IsFiniteSet(Evolved) /\ IsFiniteSet(broke) /\ IsFiniteSet(Evolved \cup broke)
    BY <1>3, FS_Union DEF AmAccounts
  <2>3. IsFiniteSet(Evolved') /\ Cardinality(Evolved') = Cardinality(Evolved) + 1
    BY <1>4, <2>1, <2>2, FS_AddElement
  <2>4. Cardinality(Evolved' \cup broke') = Cardinality(Evolved \cup broke) + 1
    <3> DEFINE S == Evolved \cup broke
    <3>1. s \notin S /\ IsFiniteSet(S) /\ Evolved' \cup broke' = S \cup {s}
      BY <1>2, <1>4, <2>1, <2>2
    <3>2. Cardinality(S \cup {s}) = Cardinality(S) + 1
      BY <3>1, FS_AddElement
    <3> QED
      BY <3>1, <3>2
  <2>5. Cardinality(Evolved) \in Nat /\ Cardinality(Evolved \cup broke) \in Nat /\ evolutions \in Nat
    BY <1>3, <2>2, FS_CardinalityType DEF AmTypes
  <2>6. Cardinality(Evolved) \leq evolutions /\ evolutions \leq Cardinality(Evolved \cup broke)
    BY <1>3 DEF AmAccounts
  <2>7. Cardinality(Evolved') \leq evolutions' /\ evolutions' \leq Cardinality(Evolved' \cup broke')
    BY <1>2, <2>3, <2>4, <2>5, <2>6
  <2> QED
    BY <1>2, <1>3, <1>11, <2>2, <2>3, <2>7 DEF AmAccounts
<1>13. AmIndex'
  <2>1. CASE evolutions' % threshold = 0
    BY <1>2, <1>5, <1>6, <1>7, <2>1 DEF AmIndex
  <2>2. CASE evolutions' % threshold # 0
    BY <1>2, <1>3, <1>5, <2>2 DEF AmIndex
  <2> QED
    BY <2>1, <2>2
<1>14. AmPlace(s)'
  <2>1. Len(amFile'[s]) \leq Len(notes') /\ \A i \in 1..Len(amFile'[s]) : amFile'[s][i].by = notes'[i].by
    BY <1>2, AmFileStands
  <2> QED
    BY <1>1, <1>2, <1>4, <1>8, <1>11, <2>1, HolderAssumption DEF AmPlace, Locking, Written
<1>15. Len(notes) \leq Len(notes') /\ \A i \in 1..Len(notes) : notes'[i].by = notes[i].by
  BY <1>2, <1>6
<1> QED
  BY <1>1, <1>9, <1>10, <1>11, <1>12, <1>13, <1>14, <1>15, AmFrame

LEMMA AmCountsBadly ==
  ASSUME AmInv, method = "a_mem", NEW s \in Sessions, ConsolidateFails(s)
  PROVE  AmInv'
<1>1. Moves(s) /\ at[s] = "consolidating" /\ at'[s] = "recording"
  BY AmSteps DEF ConsolidateFails, Idle
<1>2. /\ evolutions' = evolutions + 1 /\ index' = <<>> /\ corpus' = Len(notes)
      /\ skewed' = TRUE /\ broke' = broke \cup {s} /\ storeLock' = NoHolder
      /\ UNCHANGED <<threshold, notes, amHistory, note, learned, amFile>>
  BY DEF ConsolidateFails
<1>3. AmTypes /\ AmPlace(s) /\ AmAccounts /\ AmIndex
  BY DEF AmInv
<1>4. /\ s \in Noted /\ learned[s] = Neither /\ s \notin broke /\ s \notin Evolved
      /\ storeLock = s /\ \A t \in Sessions \ {s} : at[t] \notin Locking /\ storeLock # t
      /\ \A h \in amHistory : h.by # s
  BY <1>1, AmConsolidating
<1>5. Len(notes) \in Nat /\ Noted' = Noted /\ Evolved' = Evolved
  BY <1>2, <1>3 DEF AmTypes, Noted, Evolved
<1>6. AmTypes'
  <2>1. index' \in Seq(Vector)
    BY <1>2
  <2> QED
    BY <1>2, <1>3, <2>1 DEF AmTypes
<1>7. AmOthers(s)
  BY <1>2, <1>4, HolderAssumption DEF AmOthers
<1>8. AmAccounts'
  <2>1. IsFiniteSet(Evolved) /\ IsFiniteSet(broke) /\ IsFiniteSet(Evolved \cup broke)
    BY <1>3, FS_Union DEF AmAccounts
  <2>2. IsFiniteSet(broke')
    BY <1>2, <2>1, FS_AddElement
  <2>3. Cardinality(Evolved' \cup broke') = Cardinality(Evolved \cup broke) + 1
    <3> DEFINE S == Evolved \cup broke
    <3>1. s \notin S /\ IsFiniteSet(S) /\ Evolved' \cup broke' = S \cup {s}
      BY <1>2, <1>4, <1>5, <2>1
    <3>2. Cardinality(S \cup {s}) = Cardinality(S) + 1
      BY <3>1, FS_AddElement
    <3> QED
      BY <3>1, <3>2
  <2>4. Cardinality(Evolved) \in Nat /\ Cardinality(Evolved \cup broke) \in Nat /\ evolutions \in Nat
    BY <1>3, <2>1, FS_CardinalityType DEF AmTypes
  <2>5. Cardinality(Evolved) \leq evolutions /\ evolutions \leq Cardinality(Evolved \cup broke)
    BY <1>3 DEF AmAccounts
  <2>6. Cardinality(Evolved') \leq evolutions' /\ evolutions' \leq Cardinality(Evolved' \cup broke')
    BY <1>2, <1>5, <2>3, <2>4, <2>5
  <2> QED
    BY <1>2, <1>3, <1>5, <2>1, <2>2, <2>6 DEF AmAccounts
<1>9. AmIndex'
  <2>1. Len(index') = 0
    BY <1>2
  <2> QED
    BY <1>2, <1>5, <2>1 DEF AmIndex
<1>10. AmPlace(s)'
  <2>1. Len(amFile'[s]) \leq Len(notes') /\ \A i \in 1..Len(amFile'[s]) : amFile'[s][i].by = notes'[i].by
    BY <1>2, AmFileStands
  <2> QED
    BY <1>1, <1>2, <1>4, <1>5, <2>1, HolderAssumption DEF AmPlace, Locking, Written
<1>11. Len(notes) \leq Len(notes') /\ \A i \in 1..Len(notes) : notes'[i].by = notes[i].by
  BY <1>2, <1>5
<1> QED
  BY <1>1, <1>5, <1>6, <1>7, <1>8, <1>9, <1>10, <1>11, AmFrame

LEMMA AmRecords ==
  ASSUME AmInv, method = "a_mem", NEW s \in Sessions, AmemRecord(s) \/ AmemSave(s)
  PROVE  AmInv'
<1>1. /\ Moves(s) /\ Unlocked
      /\ (AmemRecord(s) /\ at[s] = "recording" /\ at'[s] = "saving")
           \/ (AmemSave(s) /\ at[s] = "saving" /\ at'[s] = "done")
  BY AmSteps DEF AmemRecord, AmemSave, Idle
<1>2. UNCHANGED <<threshold, notes, corpus, index, evolutions, learned, skewed, broke, storeLock, note>>
  BY DEF AmemRecord, AmemSave, amStore, amTrace
<1>3. AmTypes /\ AmPlace(s) /\ notes \in Seq(ANote)
  BY DEF AmInv, AmTypes
<1>4. /\ amFile' = amFile \/ amFile' = [amFile EXCEPT ![s] = notes]
      /\ amHistory' = amHistory \/ (at'[s] = "saving" /\ amHistory' = amHistory \cup
           {[by |-> s, added |-> learned[s].added, evolved |-> learned[s].evolved]})
  BY <1>1 DEF AmemRecord, AmemSave, amStore, amTrace
<1>5. amFile' \in [Sessions -> Seq(ANote)] /\ \A t \in Sessions \ {s} : amFile'[t] = amFile[t]
  BY <1>3, <1>4 DEF AmTypes
<1>6. AmTypes' /\ AmOthers(s)
  <2>1. AmTypes'
    BY <1>2, <1>3, <1>5 DEF AmTypes
  <2>2. \A h \in amHistory' : h.by # s => h \in amHistory
    BY <1>4
  <2> QED
    BY <1>2, <1>5, <2>1, <2>2 DEF AmOthers
<1>7. AmPlace(s)'
  <2>1. Len(amFile'[s]) \leq Len(notes') /\ \A i \in 1..Len(amFile'[s]) : amFile'[s][i].by = notes'[i].by
    <3>1. amFile'[s] = amFile[s] \/ amFile'[s] = notes
      BY <1>3, <1>4 DEF AmTypes
    <3>2. Len(notes) \in Nat
      BY <1>3
    <3> QED
      BY <1>2, <3>1, <3>2, AmFileStands
  <2>2. Noted' = Noted
    BY <1>2 DEF Noted
  <2>3. \A h \in amHistory' : h.by = s =>
          h.added = learned[s].added /\ h.evolved = learned[s].evolved
    BY <1>3, <1>4 DEF AmPlace
  <2> QED
    BY <1>1, <1>2, <1>3, <2>1, <2>2, <2>3 DEF AmPlace, Locking, Written
<1> QED
  BY <1>1, <1>2, <1>6, <1>7, AmQuiet

LEMMA AmStep ==
  ASSUME AmInv, method = "a_mem", AmemNext
  PROVE  AmInv'
<1>1. PICK s \in Sessions :
        \/ AmemStart(s) \/ AmemCounts(s) \/ Recalls(s) \/ RecallRaises(s)
        \/ AmemReact(s) \/ TooShort(s) \/ AddMemory(s) \/ NoEvolution(s)
        \/ Evolve(s) \/ StoreNote(s) \/ IndexNoteFails(s) \/ Consolidate(s)
        \/ ConsolidateFails(s) \/ AmemRecord(s) \/ AmemSave(s)
  BY DEF AmemNext
<1>2. MetInv
  BY DEF AmInv
<1>3. CASE AmemStart(s)
  <2>1. Moves(s) /\ at[s] = "new" /\ at'[s] = "counting"
    BY <1>2, <1>3 DEF AmemStart, Begin, Moves, Go, setup, MetInv
  <2>2. UNCHANGED <<threshold, notes, corpus, index, evolutions, learned, skewed, broke, storeLock,
                    note, amHistory, amFile>>
    BY <1>3 DEF AmemStart, amemVars, amStore, amTrace
  <2> QED
    BY <2>1, <2>2, AmEarly DEF Locking, Written
<1>4. CASE AmemReact(s)
  <2>1. at[s] = "acting" /\ at'[s] \in {"acting", "closing", "scoring"} /\ Moves(s)
    BY <1>2, <1>4 DEF AmemReact, Turn, Moves, Go, setup, Idle, MetInv
  <2>2. UNCHANGED <<threshold, notes, corpus, index, evolutions, learned, skewed, broke, storeLock,
                    note, amHistory, amFile>>
    BY <1>4 DEF AmemReact, amemVars, amStore, amTrace
  <2> QED
    BY <2>1, <2>2, AmEarly DEF Locking, Written
<1>5. CASE AmemCounts(s) \/ Recalls(s) \/ RecallRaises(s) \/ TooShort(s)
  <2>1. /\ Moves(s) /\ at[s] \in {"counting", "recalling", "closing"}
        /\ at'[s] \in {"recalling", "acting", "done", "recording"}
    <3>1. CASE AmemCounts(s)
      <4>1. Proceed(s, "counting", IF notes = <<>> THEN "acting" ELSE "recalling")
        BY <3>1 DEF AmemCounts
      <4> QED
        BY <4>1, AmSteps DEF Idle
    <3>2. CASE Recalls(s) \/ RecallRaises(s) \/ TooShort(s)
      BY <3>2, AmSteps DEF Recalls, RecallRaises, TooShort, Idle
    <3> QED
      BY <1>5, <3>1, <3>2
  <2>2. UNCHANGED <<threshold, notes, corpus, index, evolutions, learned, skewed, broke, storeLock,
                    note, amHistory, amFile>>
    BY <1>5 DEF AmemCounts, Recalls, RecallRaises, TooShort, amemVars, amStore, amTrace
  <2> QED
    BY <2>1, <2>2, AmEarly DEF Locking, Written
<1> QED
  BY <1>1, <1>3, <1>4, <1>5, AmAdds, AmEvolvesNothing, AmEvolves, AmStores, AmStoresBadly, AmCounts,
     AmCountsBadly, AmRecords

LEMMA AmInitially == Init => AmInv
<1> SUFFICES ASSUME Init PROVE AmInv
  OBVIOUS
<1>1. MetInv /\ \A s \in Sessions : at[s] \in Idle
  BY MetInitially DEF Init, SessionsInit, Idle
<1>2. /\ notes = <<>> /\ corpus = 0 /\ index = <<>> /\ evolutions = 0 /\ amHistory = {}
      /\ storeLock = NoHolder /\ skewed = FALSE /\ broke = {}
      /\ note = [s \in Sessions |-> NoNote]
      /\ learned = [s \in Sessions |-> Neither]
      /\ amFile = [s \in Sessions |-> <<>>]
  BY DEF Init, AmemInit, Neither
<1>3. AmTypes
  <2>1. NoNote \in Flags /\ Neither \in Learned /\ <<>> \in Seq(ANote) /\ <<>> \in Seq(Vector)
    BY DEF NoNote, Flags, Neither, Learned
  <2> QED
    BY <1>2, <2>1 DEF AmTypes
<1>4. Noted = {} /\ Evolved = {} /\ Len(notes) = 0 /\ Len(index) = 0
  <2>1. Len(notes) = 0 /\ Len(index) = 0
    BY <1>2
  <2>2. Noted = {}
    BY <2>1 DEF Noted
  <2>3. Evolved = {}
    BY <1>2 DEF Evolved, Neither
  <2> QED
    BY <2>1, <2>2, <2>3
<1>5. AmAccounts
  <2>1. IsFiniteSet({}) /\ Cardinality({}) = 0 /\ {} \cup {} = {}
    BY FS_EmptySet
  <2> QED
    BY <1>2, <1>4, <2>1 DEF AmAccounts
<1>6. AmIndex
  BY <1>2, <1>4 DEF AmIndex
<1>7. \A s \in Sessions : learned[s] = Neither /\ ~note[s].evolved /\ amFile[s] = <<>>
  BY <1>2 DEF NoNote
<1>8. ASSUME NEW s \in Sessions PROVE AmPlace(s)
  <2>1. storeLock # s /\ at[s] \in Idle
    BY <1>1, <1>2, HolderAssumption
  <2>2. Len(amFile[s]) = 0 /\ learned[s].added = 0
    BY <1>7 DEF Neither
  <2>3. /\ storeLock = s <=> at[s] \in Locking
        /\ s \in Noted <=> learned[s].added = 1 \/ s \in broke \/ at[s] = "consolidating"
    <3>1. s \notin Noted /\ s \notin broke /\ learned[s].added # 1
      BY <1>2, <1>4, <2>2
    <3>2. at[s] \notin Locking /\ at[s] # "consolidating"
      BY <2>1 DEF Locking, Idle
    <3> QED
      BY <2>1, <3>1, <3>2
  <2>4. Len(amFile[s]) \leq Len(notes) /\ \A i \in 1..Len(amFile[s]) : amFile[s][i].by = notes[i].by
    BY <1>4, <2>2
  <2>5. at[s] \notin Written => learned[s] = Neither /\ s \notin broke
    BY <1>2, <1>7
  <2>6. ~note[s].evolved /\ amHistory = {}
    BY <1>2, <1>7
  <2> QED
    BY <2>3, <2>4, <2>5, <2>6 DEF AmPlace
<1> QED
  BY <1>1, <1>2, <1>3, <1>4, <1>5, <1>6, <1>7, <1>8 DEF AmInv

LEMMA AmAlways == AmInv /\ [Next]_vars => AmInv'
<1> SUFFICES ASSUME AmInv, [Next]_vars PROVE AmInv'
  OBVIOUS
<1>1. MetInv /\ AmTypes /\ AmAccounts /\ AmIndex
  BY DEF AmInv
<1>2. CASE method = "a_mem" /\ AmemNext
  BY <1>2, AmStep
<1>3. CASE method = "a_mem" /\ Drive /\ UNCHANGED amemVars
  <2>1. PICK s \in Sessions : Live(s)
    BY <1>3 DEF Drive
  <2>2. Moves(s) /\ at[s] \in {"acting", "scoring"} /\ at'[s] \in {"scoring", "closing", "done"}
    BY <1>1, <2>1 DEF Live, SessionEnds, Feedback, BenchmarkFails, Proceed, Moves, Go, setup, Idle, MetInv
  <2>3. UNCHANGED <<threshold, notes, corpus, index, evolutions, learned, skewed, broke, storeLock,
                    note, amHistory, amFile>>
    BY <1>3 DEF amemVars, amStore, amTrace
  <2> QED
    BY <1>3, <2>2, <2>3, AmEarly DEF Locking, Written
<1>4. ASSUME UNCHANGED amemVars
      PROVE  /\ AmTypes' /\ AmAccounts'
             /\ UNCHANGED <<threshold, notes, corpus, index, evolutions, learned, skewed, broke,
                            storeLock, note, amHistory, amFile>>
             /\ Noted' = Noted
  <2>1. UNCHANGED <<threshold, notes, corpus, index, evolutions, learned, skewed, broke,
                    storeLock, note, amHistory, amFile>>
    BY <1>4 DEF amemVars, amStore, amTrace
  <2>2. Noted' = Noted /\ Evolved' = Evolved
    BY <2>1 DEF Noted, Evolved
  <2>3. AmTypes'
    BY <1>1, <2>1 DEF AmTypes
  <2> QED
    BY <1>1, <2>1, <2>2, <2>3 DEF AmAccounts
<1>5. CASE method # "a_mem" /\ (AceNext \/ HarnessNext \/ AutoskillNext \/ RbNext \/ Drive)
           /\ UNCHANGED amemVars
  <2>1. PICK s \in Sessions : Moves(s)
    BY <1>1, <1>5, AceMoves, HarnessMoves, AutoskillMoves, RbMoves, DriveMoves
  <2>2. MetInv' /\ method' # "a_mem"
    BY <1>1, <1>5, <2>1, MetStep DEF Moves
  <2>3. ~Uncounted
    BY <1>5 DEF AmInv, Uncounted
  <2>4. AmIndex'
    BY <1>1, <1>4, <1>5, <2>3 DEF AmIndex
  <2> QED
    BY <1>4, <1>5, <2>2, <2>4 DEF AmInv
<1>6. CASE UNCHANGED vars
  <2>1. UNCHANGED <<method, at, met, amemVars>>
    BY <1>6 DEF vars, session, setup
  <2>2. MetInv' /\ AmIndex'
    BY <1>1, <1>4, <2>1 DEF MetInv, AmIndex, Uncounted
  <2>3. \A s \in Sessions : AmPlace(s) => AmPlace(s)'
    BY <1>4, <2>1 DEF AmPlace
  <2> QED
    BY <1>4, <2>1, <2>2, <2>3 DEF AmInv
<1>7. CASE Next
  BY <1>2, <1>3, <1>5, <1>6, <1>7, Zenon DEF Next, vars
<1> QED
  BY <1>6, <1>7

\* For any number of sessions and threads and any evo_threshold: however sessions
\* of the A-Mem agent overlap, whenever the lock is free what is recorded for a
\* session is what it did to the notes, the evolutions counted are those recorded
\* or about to be, and a position of the retriever is the note at that position,
\* current after a consolidation, unless an embedding has failed since the last
\* rebuild (add_memory, _process_and_add, _consolidate, record_learning).
THEOREM AmemStands == Spec => []AmemStoreAgrees
<1>1. Spec => []AmInv
  BY AmInitially, AmAlways, PTL DEF Spec, vars
<1>2. AmInv => AmemStoreAgrees
  <2> SUFFICES ASSUME AmInv, Unlocked PROVE AccountsAgree /\ IndexFollows
    BY DEF AmemStoreAgrees
  <2>1. ~Uncounted
    <3>1. CASE method = "a_mem"
      BY <3>1, AmLockFree DEF Uncounted, Locking
    <3>2. CASE method # "a_mem"
      BY <3>2 DEF AmInv, Uncounted
    <3> QED
      BY <3>1, <3>2
  <2>2. IndexFollows
    BY <2>1 DEF AmInv, AmIndex, IndexFollows
  <2>3. /\ Cardinality(Noted) = Len(notes)
        /\ evolutions \leq Cardinality({s \in Sessions : learned[s].evolved = 1} \cup broke)
        /\ evolutions \geq Cardinality({s \in Sessions : learned[s].evolved = 1})
    <3>1. IsFiniteSet(Evolved) /\ Cardinality(Evolved) \leq evolutions /\ evolutions \in Nat
      BY DEF AmInv, AmAccounts, AmTypes
    <3>2. Cardinality(Evolved) \in Nat
      BY <3>1, FS_CardinalityType
    <3>3. evolutions \geq Cardinality(Evolved)
      BY <3>1, <3>2
    <3> QED
      BY <3>3 DEF AmInv, AmAccounts, Evolved
  <2>4. ASSUME NEW s \in Sessions
        PROVE  /\ s \in Noted <=> learned[s].added = 1 \/ s \in broke
               /\ \A h \in amHistory : h.by = s =>
                    h.added = learned[s].added /\ h.evolved = learned[s].evolved
               /\ \A i \in 1..Len(amFile[s]) : amFile[s][i].by = notes[i].by
    <3>1. CASE method = "a_mem"
      <4>1. AmPlace(s) /\ at[s] # "consolidating"
        BY <3>1, AmLockFree DEF AmInv, Locking
      <4> QED
        BY <4>1 DEF AmPlace
    <3>2. CASE method # "a_mem"
      <4>1. /\ amHistory = {} /\ broke = {} /\ Noted = {}
            /\ learned[s] = Neither /\ amFile[s] = <<>>
        BY <3>2 DEF AmInv
      <4>2. learned[s].added = 0 /\ Len(amFile[s]) = 0
        BY <4>1 DEF Neither
      <4> QED
        BY <4>1, <4>2
    <3> QED
      BY <3>1, <3>2
  <2> QED
    BY <2>2, <2>3, <2>4 DEF AccountsAgree
<1> QED
  BY <1>1, <1>2, PTL

=============================================================================
