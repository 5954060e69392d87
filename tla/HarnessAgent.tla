---------------------------- MODULE HarnessAgent ----------------------------
(***************************************************************************)
(* The harness agent: sessions share a system prompt, a memory document    *)
(* and a library of named skills with an embedding of each description.    *)
(* start() retrieves skills by embedding; close() lets a model edit all of *)
(* it in place, tool call by tool call, over up to 20 turns, restores a    *)
(* snapshot when a tool call raises, and commits a version otherwise.      *)
(***************************************************************************)
EXTENDS AgentSessions, Sequences

CONSTANTS SkillNames,
          MaxTools      \* bound on the edits of one evolver run

ASSUME ToolsAssumption == MaxTools \in Nat

VARIABLES
  hPrompt,     \* system_prompt, memory: the session that wrote it last
  hMemory,
  skills,      \* the skills, by name
  embeddings,  \* skill_embeddings: the description each was computed from
  hCount,      \* _session_count
  versions,    \* _versions
  hHistory,    \* _history: the number of operations recorded for a session
  listed,      \* per session, the skills retrieve_skills has still to look at
  evolver,     \* per session, its _EvolverToolExecutor and snapshot
  unembedded   \* skills whose description has changed without a new embedding
               \* (history)

library      == <<hPrompt, hMemory, skills, embeddings>>
harnessStore == <<library, hCount, versions, hHistory>>
harnessVars  == <<harnessStore, listed, evolver, unembedded>>

NoOne     == "no one"
Author    == Sessions \cup {NoOne}
Skill     == [desc : Author, body : Author]
Library   == UNION {[ns -> Skill] : ns \in SUBSET SkillNames}
Embedded  == UNION {[ns -> Author] : ns \in SUBSET SkillNames}
Content   == [prompt : Author, memory : Author, skills : Library]
Snapshot  == [prompt : Author, memory : Author, skills : Library,
              embeddings : Embedded, unembedded : SUBSET SkillNames]
NotEvolving == [snap |-> [prompt |-> NoOne, memory |-> NoOne, skills |-> <<>>,
                          embeddings |-> <<>>, unembedded |-> {}],
                used |-> {}, ops |-> 0, on |-> NoOne]

Current == [prompt |-> hPrompt, memory |-> hMemory, skills |-> skills]
Initial == [prompt |-> NoOne, memory |-> NoOne, skills |-> <<>>]

Without(f, n) == [m \in DOMAIN f \ {n} |-> f[m]]
With(f, n, v) == [m \in DOMAIN f \cup {n} |-> IF m = n THEN v ELSE f[m]]

HarnessInit ==
  /\ hPrompt = NoOne /\ hMemory = NoOne
  /\ skills = <<>> /\ embeddings = <<>>
  /\ hCount = 0 /\ versions = <<>>
  /\ hHistory = [s \in Sessions |-> 0]
  /\ listed = [s \in Sessions |-> {}]
  /\ evolver = [s \in Sessions |-> NotEvolving]
  /\ unembedded = {}

\* start(): the session is counted ...
HarnessStart(s) ==
  /\ Begin(s, "listing")
  /\ hCount' = hCount + 1
  /\ UNCHANGED <<library, versions, hHistory, listed, evolver, unembedded>>

\* ... and with a query that can be embedded, the skills without an embedding
\* are to be looked at.
ListSkills(s) ==
  /\ skills # <<>>
  /\ Proceed(s, "listing", "retrieving")
  /\ listed' = [listed EXCEPT ![s] = DOMAIN skills \ DOMAIN embeddings]
  /\ UNCHANGED <<harnessStore, evolver, unembedded>>

\* No skills are in the store, or the query cannot be embedded.
ListNothing(s) == Proceed(s, "listing", "acting") /\ UNCHANGED harnessVars

\* compute_embedding of a listed skill, and set_embedding, which does not ask
\* whether the skill is still there; an embedding that fails is left out.
EmbedListed(s) ==
  /\ at[s] = "retrieving" /\ listed[s] # {}
  /\ LET n == CHOOSE x \in listed[s] : TRUE IN
       /\ listed' = [listed EXCEPT ![s] = @ \ {n}]
       /\ \/ /\ n \in DOMAIN skills
             /\ embeddings' = With(embeddings, n, skills[n].desc)
             /\ unembedded' = unembedded \ {n}
          \/ /\ n \notin DOMAIN skills
             /\ embeddings' = With(embeddings, n, NoOne)
             /\ UNCHANGED unembedded
          \/ UNCHANGED <<embeddings, unembedded>>
  /\ UNCHANGED <<session, hPrompt, hMemory, skills, hCount, versions, hHistory, evolver>>

\* The skills are scored and put into the system message.
Retrieved(s) ==
  /\ listed[s] = {}
  /\ Proceed(s, "retrieving", "acting")
  /\ UNCHANGED harnessVars

\* react(): an answer that names no tool call ends the session; a message, even
\* an empty one, is an action.
HarnessReact(s) == React(s) /\ UNCHANGED harnessVars

\* close(): an evolver run starts with a deep copy of the library.
EvolverBegin(s) ==
  /\ heard[s] \/ acted[s]
  /\ Proceed(s, "closing", "evolving")
  /\ evolver' = [evolver EXCEPT ![s] =
       [snap |-> [prompt |-> hPrompt, memory |-> hMemory, skills |-> skills,
                  embeddings |-> embeddings, unembedded |-> unembedded],
        used |-> {}, ops |-> 0, on |-> NoOne]]
  /\ UNCHANGED <<harnessStore, listed, unembedded>>

NoTrajectory(s) ==
  /\ ~(heard[s] \/ acted[s])
  /\ Proceed(s, "closing", "recording")
  /\ UNCHANGED harnessVars

Evolving(s) == at[s] = "evolving" /\ evolver[s].ops < MaxTools
Done(s)     == evolver' = [evolver EXCEPT ![s].ops = @ + 1]

\* edit_prompt and edit_memory, once each in a run.
EditPrompt(s) ==
  /\ Evolving(s) /\ "prompt" \notin evolver[s].used
  /\ hPrompt' = s
  /\ evolver' = [evolver EXCEPT ![s].ops = @ + 1, ![s].used = @ \cup {"prompt"}]
  /\ UNCHANGED <<session, hMemory, skills, embeddings, hCount, versions, hHistory,
                 listed, unembedded>>

EditMemory(s) ==
  /\ Evolving(s) /\ "memory" \notin evolver[s].used
  /\ hMemory' = s
  /\ evolver' = [evolver EXCEPT ![s].ops = @ + 1, ![s].used = @ \cup {"memory"}]
  /\ UNCHANGED <<session, hPrompt, skills, embeddings, hCount, versions, hHistory,
                 listed, unembedded>>

\* add_skill of a name that is not there, then its embedding.
AddSkill(s, n) ==
  /\ Evolving(s) /\ n \notin DOMAIN skills
  /\ Proceed(s, "evolving", "embedding")
  /\ skills' = With(skills, n, [desc |-> s, body |-> s])
  /\ unembedded' = unembedded \cup {n}
  /\ evolver' = [evolver EXCEPT ![s].on = n]
  /\ UNCHANGED <<hPrompt, hMemory, embeddings, hCount, versions, hHistory, listed>>

\* edit_skill changes the skill in place; only a description that is not empty
\* is embedded again.
EditSkill(s, n) ==
  /\ Evolving(s) /\ n \in DOMAIN skills
  /\ \/ /\ skills' = [skills EXCEPT ![n] = [desc |-> s, body |-> s]]
        /\ Proceed(s, "evolving", "embedding")
        /\ unembedded' = unembedded \cup {n}
        /\ evolver' = [evolver EXCEPT ![s].on = n]
     \/ /\ skills' = [skills EXCEPT ![n].desc = NoOne]
        /\ unembedded' = unembedded \cup {n}
        /\ Done(s) /\ UNCHANGED session
     \/ /\ skills' = [skills EXCEPT ![n].body = s]
        /\ Done(s) /\ UNCHANGED <<session, unembedded>>
  /\ UNCHANGED <<hPrompt, hMemory, embeddings, hCount, versions, hHistory, listed>>

\* The description is embedded, or the embedding fails and is left as it is.
SetEmbedding(s) ==
  /\ Proceed(s, "embedding", "evolving")
  /\ LET n == evolver[s].on IN
       \/ /\ embeddings' = With(embeddings, n, s)
          /\ unembedded' = unembedded \ {n}
       \/ UNCHANGED <<embeddings, unembedded>>
  /\ evolver' = [evolver EXCEPT ![s].ops = @ + 1, ![s].on = NoOne]
  /\ UNCHANGED <<hPrompt, hMemory, skills, hCount, versions, hHistory, listed>>

DeleteSkill(s, n) ==
  /\ Evolving(s) /\ n \in DOMAIN skills
  /\ skills' = Without(skills, n) /\ embeddings' = Without(embeddings, n)
  /\ unembedded' = unembedded \ {n}
  /\ Done(s)
  /\ UNCHANGED <<session, hPrompt, hMemory, hCount, versions, hHistory, listed>>

\* The model calls no more tools, its call fails for good, or its turns are used
\* up: what was edited stays.
EvolverEnds(s) ==
  /\ Proceed(s, "evolving", IF evolver[s].ops > 0 THEN "committing" ELSE "recording")
  /\ UNCHANGED harnessVars

\* Mutant of Rollback: the memory is not restored.
RollbackKeepsMemory(s) ==
  /\ Proceed(s, "evolving", "recording")
  /\ hPrompt' = evolver[s].snap.prompt
  /\ skills' = evolver[s].snap.skills /\ embeddings' = evolver[s].snap.embeddings
  /\ unembedded' = evolver[s].snap.unembedded
  /\ evolver' = [evolver EXCEPT ![s].ops = 0]
  /\ UNCHANGED <<hMemory, hCount, versions, hHistory, listed>>

\* A tool call raises (its arguments are JSON, but not an object): rollback.
Rollback(s) ==
  /\ Proceed(s, "evolving", "recording")
  /\ hPrompt' = evolver[s].snap.prompt /\ hMemory' = evolver[s].snap.memory
  /\ skills' = evolver[s].snap.skills /\ embeddings' = evolver[s].snap.embeddings
  /\ unembedded' = evolver[s].snap.unembedded
  /\ evolver' = [evolver EXCEPT ![s].ops = 0]
  /\ UNCHANGED <<hCount, versions, hHistory, listed>>

CommitVersion(s) ==
  /\ Proceed(s, "committing", "recording")
  /\ versions' = Append(versions, Current)
  /\ UNCHANGED <<library, hCount, hHistory, listed, evolver, unembedded>>

HarnessRecord(s) ==
  /\ Proceed(s, "recording", "done")
  /\ hHistory' = [hHistory EXCEPT ![s] = evolver[s].ops]
  /\ evolver' = [evolver EXCEPT ![s] = NotEvolving]
  /\ UNCHANGED <<library, hCount, versions, listed, unembedded>>

HarnessClose(s) ==
  \/ EvolverBegin(s) \/ NoTrajectory(s)
  \/ EditPrompt(s) \/ EditMemory(s)
  \/ \E n \in SkillNames : AddSkill(s, n) \/ EditSkill(s, n) \/ DeleteSkill(s, n)
  \/ SetEmbedding(s) \/ EvolverEnds(s) \/ Rollback(s)
  \/ CommitVersion(s) \/ HarnessRecord(s)

HarnessNext ==
  \E s \in Sessions :
     \/ HarnessStart(s) \/ ListSkills(s) \/ ListNothing(s) \/ EmbedListed(s) \/ Retrieved(s)
     \/ HarnessReact(s) \/ HarnessClose(s)

HarnessTypeOK ==
  /\ hPrompt \in Author /\ hMemory \in Author
  /\ skills \in Library /\ embeddings \in Embedded
  /\ hCount \in 0..Cardinality(Sessions)
  /\ versions \in Seq(Content)
  /\ hHistory \in [Sessions -> 0..MaxTools]
  /\ listed \in [Sessions -> SUBSET SkillNames]
  /\ evolver \in [Sessions -> [snap : Snapshot, used : SUBSET {"prompt", "memory"},
                               ops : 0..MaxTools, on : SkillNames \cup {NoOne}]]
  /\ unembedded \subseteq SkillNames

------------------------------------------------------------------------------
Editing == {"evolving", "embedding", "committing"}

VersionIsCurrent == Current = IF versions = <<>> THEN Initial ELSE versions[Len(versions)]

IndexAgrees ==
  \A n \in DOMAIN embeddings :
    n \in DOMAIN skills /\ (n \in unembedded \/ embeddings[n] = skills[n].desc)

\* While no two sessions have run at the same time: between two evolver runs
\* the library is the one the last committed version holds.  A run that was
\* rolled back has left nothing of its edits, a run whose model failed half-way
\* has committed what it had edited.  At any time an embedding belongs to a
\* skill, and it is the embedding of the skill's description unless the
\* embedding model failed on it or the description was emptied (run_evolver,
\* rollback, commit_version, set_embedding, delete_skill).
HarnessLibraryStands ==
  met = {} =>
    /\ (\A s \in Sessions : at[s] \notin Editing) => VersionIsCurrent
    /\ IndexAgrees
=============================================================================
