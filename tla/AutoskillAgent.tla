--------------------------- MODULE AutoskillAgent ---------------------------
(***************************************************************************)
(* The autoskill agent: sessions share a bank of skills with embeddings.   *)
(* close() extracts one candidate skill from the trace, finds the most     *)
(* similar skill of the bank, lets a model judge whether to add, merge or  *)
(* discard, and records what was done.  A merge is computed from the skill *)
(* as it was found, over two calls of a model.                             *)
(***************************************************************************)
EXTENDS AgentSessions

VARIABLES
  bank,        \* SkillStore._skills; a session adds at most one, so a skill's
               \* id is the session that added it
  bankIndex,   \* _embeddings: the content of the skill each was computed from
  bankCount,   \* _session_count
  bankHistory, \* _history: the action recorded for a session
  found,       \* per session, the skill hybrid_search found, as it was then
  embedded,    \* per session, whether the candidate has an embedding
  doing        \* per session, action_taken

bankStore     == <<bank, bankIndex, bankCount, bankHistory>>
autoskillVars == <<bankStore, found, embedded, doing>>

Taken     == {"no_extraction", "add", "merge", "discard"}
Sources  == SUBSET Sessions  \* the candidates a skill was made from
BankSkill == [from : Sources, version : 0..Cardinality(Sessions)]
Nothing   == [id |-> "none", skill |-> [from |-> {}, version |-> 0]]

AutoskillInit ==
  /\ bank = <<>> /\ bankIndex = <<>> /\ bankCount = 0
  /\ bankHistory = [s \in Sessions |-> "none"]
  /\ found = [s \in Sessions |-> Nothing]
  /\ embedded = [s \in Sessions |-> FALSE]
  /\ doing = [s \in Sessions |-> "no_extraction"]

Put(f, k, v) == [x \in DOMAIN f \cup {k} |-> IF x = k THEN v ELSE f[x]]

\* start(): the retrieval for the system prompt only reads.
AutoskillStart(s) ==
  /\ Begin(s, "acting")
  /\ bankCount' = bankCount + 1
  /\ UNCHANGED <<bank, bankIndex, bankHistory, found, embedded, doing>>

\* react(): an answer that names no tool call ends the session; a message, even
\* an empty one, is an action.
AutoskillReact(s) == React(s) /\ UNCHANGED autoskillVars

\* No trace, no candidate (empty, beyond JSON repair, without name or
\* description), or the extraction raises.
NoCandidate(s) ==
  /\ Proceed(s, "closing", "recording")
  /\ UNCHANGED autoskillVars

\* maintain_skill: the candidate is embedded, or not, and the most similar skill
\* is taken, if its similarity reaches the threshold.
FindSimilar(s) ==
  /\ heard[s] \/ acted[s]
  /\ Proceed(s, "closing", "judging")
  /\ embedded' \in {[embedded EXCEPT ![s] = e] : e \in BOOLEAN}
  /\ found' \in {[found EXCEPT ![s] = f] :
       f \in {Nothing} \cup {[id |-> i, skill |-> bank[i]] : i \in DOMAIN bank}}
  /\ UNCHANGED <<bankStore, doing>>

\* judge_skill, or a later call of the model, raises: close() records that there
\* was no extraction.
JudgeFails(s) == Proceed(s, "judging", "recording") /\ UNCHANGED autoskillVars

Discard(s) ==
  /\ Proceed(s, "judging", "recording")
  /\ doing' = [doing EXCEPT ![s] = "discard"]
  /\ UNCHANGED <<bankStore, found, embedded>>

AddToBank(s) ==
  /\ Proceed(s, "judging", "indexing")
  /\ bank' = Put(bank, s, [from |-> {s}, version |-> 0])
  /\ doing' = [doing EXCEPT ![s] = "add"]
  /\ UNCHANGED <<bankIndex, bankCount, bankHistory, found, embedded>>

\* A candidate that could not be embedded is never embedded later.
IndexAdded(s) ==
  /\ Proceed(s, "indexing", "recording")
  /\ bankIndex' = IF embedded[s] THEN Put(bankIndex, s, {s}) ELSE bankIndex
  /\ UNCHANGED <<bank, bankCount, bankHistory, found, embedded, doing>>

\* Mutant of Merged: the candidate takes the place of the found skill.
MergedCandidateOnly(s) == [from |-> {s}, version |-> found[s].skill.version + 1]

\* merge_skills: the found skill with the candidate and the next version.
Merged(s) == [from    |-> found[s].skill.from \cup {s},
              version |-> found[s].skill.version + 1]

\* update_skill stores the merged skill over whatever the bank has by now.
MergeIntoBank(s) ==
  /\ found[s] # Nothing
  /\ Proceed(s, "judging", IF embedded[s] THEN "reindexing" ELSE "recording")
  /\ bank' = Put(bank, found[s].id, Merged(s))
  /\ doing' = [doing EXCEPT ![s] = IF embedded[s] THEN @ ELSE "merge"]
  /\ UNCHANGED <<bankIndex, bankCount, bankHistory, found, embedded>>

IndexMerged(s) ==
  /\ Proceed(s, "reindexing", "recording")
  /\ bankIndex' = Put(bankIndex, found[s].id, Merged(s).from)
  /\ doing' = [doing EXCEPT ![s] = "merge"]
  /\ UNCHANGED <<bank, bankCount, bankHistory, found, embedded>>

\* The embedding of the merged skill raises: the merge is in the bank, and
\* close() records that there was no extraction.
IndexFails(s) == Proceed(s, "reindexing", "recording") /\ UNCHANGED autoskillVars

AutoskillRecord(s) ==
  /\ Proceed(s, "recording", "done")
  /\ bankHistory' = [bankHistory EXCEPT ![s] = doing[s]]
  /\ UNCHANGED <<bank, bankIndex, bankCount, found, embedded, doing>>

AutoskillNext ==
  \E s \in Sessions :
     \/ AutoskillStart(s) \/ AutoskillReact(s) \/ NoCandidate(s) \/ FindSimilar(s) \/ JudgeFails(s)
     \/ Discard(s) \/ AddToBank(s) \/ IndexAdded(s) \/ MergeIntoBank(s)
     \/ IndexMerged(s) \/ IndexFails(s) \/ AutoskillRecord(s)

AutoskillTypeOK ==
  /\ DOMAIN bank \subseteq Sessions /\ \A i \in DOMAIN bank : bank[i] \in BankSkill
  /\ DOMAIN bankIndex \subseteq Sessions
  /\ \A i \in DOMAIN bankIndex : bankIndex[i] \in Sources
  /\ bankCount \in 0..Cardinality(Sessions)
  /\ bankHistory \in [Sessions -> Taken \cup {"none"}]
  /\ \A s \in Sessions :
       \/ found[s] = Nothing
       \/ found[s].id \in Sessions /\ found[s].skill \in BankSkill
  /\ embedded \in [Sessions -> BOOLEAN]
  /\ doing \in [Sessions -> Taken]

------------------------------------------------------------------------------
RecordedAs(a) == {s \in Sessions : bankHistory[s] = a}

\* What s merged is in a skill made from these, or one of these ran while s did.
Covers(from, s) == s \in from \/ \E t \in from : {s, t} \in met

HistoryExplains ==
  /\ RecordedAs("add") \subseteq DOMAIN bank
  /\ \A i \in DOMAIN bank :
       /\ i \in bank[i].from /\ bank[i].version = Cardinality(bank[i].from) - 1
       /\ \A s \in bank[i].from : at[s] = "done" =>
            \/ bankHistory[s] = IF s = i THEN "add" ELSE "merge"
            \/ s # i /\ embedded[s] /\ bankHistory[s] = "no_extraction"
  /\ \A s \in RecordedAs("merge") : Covers(bank[found[s].id].from, s)

BankIndexAgrees ==
  \A i \in DOMAIN bankIndex :
    \/ bankIndex[i] = bank[i].from
    \/ \E s \in bank[i].from \ bankIndex[i] :
         ~embedded[s] \/ doing[s] = "no_extraction"

\* The history explains the bank.  However sessions overlap, an addition that
\* was recorded is a skill of the bank; what a skill was made from was recorded
\* as its addition or a merge, except a merge whose embedding failed, and is as
\* much as its version says.  A recorded merge is missing from its skill only
\* when one of those that the skill is made of ran at the same time; and if no
\* sessions did, an embedding in the index is that of the skill's content, unless
\* it could not be computed when the content last changed (maintain_skill,
\* update_skill, set_embedding, record_learning).
AutoskillBankExplained == HistoryExplains /\ (met = {} => BankIndexAgrees)
=============================================================================
