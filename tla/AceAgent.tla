------------------------------ MODULE AceAgent ------------------------------
(***************************************************************************)
(* The ACE agent: sessions share a playbook of bullets.  close() reflects  *)
(* (a model tags the bullets that helped or harmed), curates (a model adds *)
(* bullets), may merge similar bullets, records and saves.  The playbook   *)
(* is read, a model is called and the whole playbook is written back; the  *)
(* store's lock covers each read and each write, not what lies between.    *)
(***************************************************************************)
EXTENDS AgentSessions

CONSTANTS MaxFrequency,      \* the largest curator_frequency
          MaxAdds,           \* bound on the ADD operations of one answer
          Analyzer           \* use_bulletpoint_analyzer and DEDUP_AVAILABLE

ASSUME CuratorAssumption ==
  MaxFrequency \in Nat \ {0} /\ MaxAdds \in Nat /\ Analyzer \in BOOLEAN

VARIABLES
  frequency,  \* curator_frequency
  playbook,   \* PlaybookStore._playbook, as a set of bullets
  nextId,     \* _next_global_id
  aceCount,   \* _session_count
  aceHistory, \* _history, the sessions recorded
  copy,       \* per session, the playbook it has read and will write
  newNext,    \* per session, the identifier it will write
  aceFile,    \* per session, its checkpoint: NoFile or what was written
  renamed,    \* a merged bullet got an identifier that is not its own (history)
  gone        \* sessions whose writes removed what they had not read (history)

aceStore == <<playbook, nextId, aceCount, aceHistory>>
aceVars  == <<frequency, aceStore, copy, newNext, aceFile, renamed, gone>>

\* A line of the playbook: identifier, the session that added it, and the
\* sessions whose reflection counted it helpful or harmful.  Sections and the
\* order of lines are left out.
MaxId  == Cardinality(Sessions) * MaxAdds
Bullet == [id : 1..MaxId, by : Sessions, votes : SUBSET Sessions]
NoFile == [book |-> {}, next |-> 0]

AceInit ==
  /\ frequency \in 1..MaxFrequency
  /\ playbook = {} /\ nextId = 1 /\ aceCount = 0 /\ aceHistory = {}
  /\ copy = [s \in Sessions |-> {}]
  /\ newNext = [s \in Sessions |-> 0]
  /\ aceFile = [s \in Sessions |-> NoFile]
  /\ renamed = FALSE /\ gone = {}

\* The playbook is read into the session's copy.
ReadPlaybook(s) == copy' = [copy EXCEPT ![s] = playbook]

\* One of the lines is bullet b with all its votes.
Has(lines, b) == \E c \in lines : c.id = b.id /\ c.by = b.by /\ b.votes \subseteq c.votes

\* Writing book removes a bullet, or a vote, that the writer had not read.
Removes(s, book) == \E b \in playbook : ~Has(copy[s], b) /\ ~Has(book, b)

WritePlaybook(s, book) ==
  /\ playbook' = book
  /\ gone' = IF Removes(s, book) THEN gone \cup {s} ELSE gone

AceStart(s) ==
  /\ Begin(s, "acting")
  /\ aceCount' = aceCount + 1
  /\ UNCHANGED <<frequency, playbook, nextId, aceHistory, copy, newNext, aceFile, renamed, gone>>

\* react(): an answer that names no tool call ends the session; a message, even
\* an empty one, is an action.
AceReact(s) == React(s) /\ UNCHANGED aceVars

\* close(): reflection when there is an observation or a training feedback.
ReflectBegin(s) ==
  /\ at[s] = "closing" /\ (heard[s] \/ told[s])
  /\ Proceed(s, "closing", "reflecting")
  /\ ReadPlaybook(s)
  /\ UNCHANGED <<frequency, aceStore, newNext, aceFile, renamed, gone>>

SkipReflection(s) ==
  /\ at[s] = "closing" /\ ~(heard[s] \/ told[s])
  /\ Proceed(s, "closing", "reflected")
  /\ UNCHANGED aceVars

\* The reflector fails, cannot be parsed or tags nothing.
ReflectNothing(s) == Proceed(s, "reflecting", "reflected") /\ UNCHANGED aceVars

\* update_bullet_counts: the tags name identifiers, and every line that has one
\* is counted.
UpdateBulletCounts(s, book, ids) ==
  {IF b.id \in ids THEN [b EXCEPT !.votes = @ \cup {s}] ELSE b : b \in book}

\* The model tags bullets it was shown, helpful, harmful or neither; the playbook
\* is read again ...
ReflectTags(s) ==
  /\ Proceed(s, "reflecting", "tagging")
  /\ \E ids \in SUBSET {b.id : b \in copy[s]} :
       copy' = [copy EXCEPT ![s] = UpdateBulletCounts(s, playbook, ids)]
  /\ UNCHANGED <<frequency, aceStore, newNext, aceFile, renamed, gone>>

\* ... and written.
TagsWrite(s) ==
  /\ Proceed(s, "tagging", "reflected")
  /\ WritePlaybook(s, copy[s])
  /\ UNCHANGED <<frequency, nextId, aceCount, aceHistory, copy, newNext, aceFile, renamed>>

\* Mutant of CurateBegin: the curator goes on with the copy the reflection had.
CurateBeginStale(s) ==
  /\ aceCount % frequency = 0
  /\ Proceed(s, "reflected", "curating")
  /\ UNCHANGED aceVars

\* The curator runs when the shared count, as it is now, is a multiple of
\* curator_frequency.
CurateBegin(s) ==
  /\ aceCount % frequency = 0
  /\ Proceed(s, "reflected", "curating")
  /\ ReadPlaybook(s)
  /\ UNCHANGED <<frequency, aceStore, newNext, aceFile, renamed, gone>>

SkipCurator(s) ==
  /\ aceCount % frequency # 0
  /\ Proceed(s, "reflected", "recording")
  /\ UNCHANGED aceVars

\* The call fails, or its answer is empty, no JSON or has no operations list.
CuratorFails(s) == Proceed(s, "curating", "recording") /\ UNCHANGED aceVars

\* No valid operation: nothing is written.
NoOperations(s) ==
  /\ Proceed(s, "curating", IF Analyzer THEN "analyzing" ELSE "recording")
  /\ UNCHANGED aceVars

\* apply_curator_operations: n ADDs get the next identifiers.
ApplyCuratorOperations(s, book, n, next) ==
  book \cup {[id |-> i, by |-> s, votes |-> {}] : i \in next..(next + n - 1)}

\* The operations are applied to the copy read before the call, with the
\* identifier read after it.  Operations that are not ADD count as valid.
CurateApply(s) ==
  /\ Proceed(s, "curating", "curated")
  /\ \E n \in 0..MaxAdds :
       /\ nextId + n - 1 \leq MaxId
       /\ copy' = [copy EXCEPT ![s] = ApplyCuratorOperations(s, copy[s], n, nextId)]
       /\ newNext' = [newNext EXCEPT ![s] = nextId + n]
  /\ UNCHANGED <<frequency, aceStore, aceFile, renamed, gone>>

CurateWrite(s) ==
  /\ Proceed(s, "curated", "numbering")
  /\ WritePlaybook(s, copy[s])
  /\ UNCHANGED <<frequency, nextId, aceCount, aceHistory, copy, newNext, aceFile, renamed>>

\* Mutant of NextIdWrite: the next identifier is not written back.
NextIdWriteForgotten(s) ==
  /\ Proceed(s, "numbering", IF Analyzer THEN "analyzing" ELSE "recording")
  /\ UNCHANGED aceVars

NextIdWrite(s) ==
  /\ Proceed(s, "numbering", IF Analyzer THEN "analyzing" ELSE "recording")
  /\ nextId' = newNext[s]
  /\ UNCHANGED <<frequency, playbook, aceCount, aceHistory, copy, newNext, aceFile, renamed, gone>>

\* analyze(): similar bullets are found in the playbook as it was read ...
AnalyzeBegin(s) ==
  /\ Proceed(s, "analyzing", "merging")
  /\ ReadPlaybook(s)
  /\ UNCHANGED <<frequency, aceStore, newNext, aceFile, renamed, gone>>

\* Groups of similar bullets: every base has some later bullets of its own, and
\* one bullet may be similar to two bases.
Groups(book) ==
  UNION {[bases -> (SUBSET (book \ bases)) \ {{}}] : bases \in (SUBSET book) \ {{}}}

\* The line that replaces a base: the merged one with the votes of its group
\* under identifier id, or the base itself when the merge fails.
MergedLine(base, group, works, id) ==
  IF works THEN [base EXCEPT !.id = id,
                             !.votes = UNION {b.votes : b \in group \cup {base}}]
           ELSE base

\* ... and the whole playbook is written: the bases changed, the rest of their
\* groups left out.  The model is told to keep the base's identifier.
AnalyzeWrite(s) ==
  /\ Proceed(s, "merging", "recording")
  /\ \E g \in Groups(copy[s]) : \E works \in SUBSET DOMAIN g :
       \E id \in [works -> {b.id : b \in copy[s]}] :
       /\ \A b \in works : id[b] \in {c.id : c \in g[b] \cup {b}}
       /\ renamed' = (renamed \/ \E b \in works : id[b] # b.id)
       /\ WritePlaybook(s,
            (copy[s] \ (DOMAIN g \cup UNION {g[b] : b \in DOMAIN g}))
              \cup {MergedLine(b, g[b], b \in works,
                               IF b \in works THEN id[b] ELSE b.id) : b \in DOMAIN g})
  /\ UNCHANGED <<frequency, nextId, aceCount, aceHistory, copy, newNext, aceFile>>

\* No similar bullets: what was read is written back.
AnalyzeNothing(s) ==
  /\ Proceed(s, "merging", "recording")
  /\ WritePlaybook(s, copy[s])
  /\ UNCHANGED <<frequency, nextId, aceCount, aceHistory, copy, newNext, aceFile, renamed>>

\* The embeddings cannot be computed: the curator's exception is caught.
AnalyzeFails(s) == Proceed(s, "merging", "recording") /\ UNCHANGED aceVars

RecordLearning(s) ==
  /\ Proceed(s, "recording", "saving")
  /\ aceHistory' = aceHistory \cup {s}
  /\ UNCHANGED <<frequency, playbook, nextId, aceCount, copy, newNext, aceFile, renamed, gone>>

\* The checkpoint is a snapshot taken under the lock; that it cannot be written
\* is logged.
SaveCheckpoint(s) ==
  /\ Proceed(s, "saving", "done")
  /\ \/ aceFile' = [aceFile EXCEPT ![s] = [book |-> playbook, next |-> nextId]]
     \/ UNCHANGED aceFile
  /\ UNCHANGED <<frequency, aceStore, copy, newNext, renamed, gone>>

AceClose(s) ==
  \/ ReflectBegin(s) \/ SkipReflection(s) \/ ReflectNothing(s) \/ ReflectTags(s)
  \/ TagsWrite(s) \/ CurateBegin(s) \/ SkipCurator(s) \/ CuratorFails(s)
  \/ NoOperations(s) \/ CurateApply(s) \/ CurateWrite(s) \/ NextIdWrite(s)
  \/ AnalyzeBegin(s) \/ AnalyzeWrite(s) \/ AnalyzeNothing(s) \/ AnalyzeFails(s)
  \/ RecordLearning(s) \/ SaveCheckpoint(s)

AceNext == \E s \in Sessions : AceStart(s) \/ AceReact(s) \/ AceClose(s)

AceTypeOK ==
  /\ frequency \in 1..MaxFrequency
  /\ playbook \subseteq Bullet /\ nextId \in 1..(MaxId + 1)
  /\ aceCount \in 0..Cardinality(Sessions)
  /\ aceHistory \subseteq Sessions
  /\ copy \in [Sessions -> SUBSET Bullet]
  /\ newNext \in [Sessions -> 0..(MaxId + 1)]
  /\ aceFile \in [Sessions -> [book : SUBSET Bullet, next : 0..(MaxId + 1)]]
  /\ renamed \in BOOLEAN
  /\ gone \subseteq Sessions

------------------------------------------------------------------------------
IdsIdentify(book, next) ==
  /\ \A b, c \in book : b.id = c.id => b = c
  /\ \A b \in book : b.id < next

\* While no two sessions have run at the same time, and the model that merges
\* bullets kept their identifiers, an identifier names one bullet and the next
\* identifier is unused, in the store between two closes and in every
\* checkpoint (apply_curator_operations, next_global_id).
AceIdsIdentify ==
  (met = {} /\ ~renamed) =>
    /\ (\A s \in Sessions : at[s] # "numbering") => IdsIdentify(playbook, nextId)
    /\ \A s \in Sessions : IdsIdentify(aceFile[s].book, aceFile[s].next)

\* A session that had the playbook for itself removes no bullet and no vote
\* that it has not read, its own votes included: learning is lost to a stale
\* copy only when sessions overlap (_run_curator, _run_post_session_reflection).
AceAloneLosesNothing == \A s \in gone : ~Alone(s)
=============================================================================
