------------------------- MODULE ReasoningBankAgent -------------------------
(***************************************************************************)
(* The reasoning-bank agent: sessions share a list of memories and, beside *)
(* it, the list of the embeddings of their queries; one position means one *)
(* memory.  start() retrieves by embedding with three separate reads of    *)
(* the store, close() has a model judge the session and induce memory      *)
(* items, and appends to both lists.                                       *)
(***************************************************************************)
EXTENDS AgentSessions, Sequences

VARIABLES
  rbEntries,    \* _entries: whose memory, and its status
  rbEmbeddings, \* _embeddings: whose query
  rbCount,      \* _session_count
  queried,      \* per session, its query could be embedded
  seen,         \* per session, the embeddings and the entries select_memory read
  recalled,     \* per session, the embedding that scored best and the entry taken
  verdict,      \* per session, the status the evaluation gave
  rbFile        \* per session, its checkpoint

rbStore == <<rbEntries, rbEmbeddings, rbCount>>
rbVars  == <<rbStore, queried, seen, recalled, verdict, rbFile>>

Statuses    == {"success", "fail"}
MemoryEntry == [by : Sessions, status : Statuses]
Unread      == [embeddings |-> <<>>, entries |-> <<>>]
NoCheckpoint == [entries |-> <<>>, embeddings |-> <<>>]

RbInit ==
  /\ rbEntries = <<>> /\ rbEmbeddings = <<>> /\ rbCount = 0
  /\ queried = [s \in Sessions |-> FALSE]
  /\ seen = [s \in Sessions |-> Unread]
  /\ recalled = [s \in Sessions |-> <<>>]
  /\ verdict = [s \in Sessions |-> "none"]
  /\ rbFile = [s \in Sessions |-> NoCheckpoint]

\* start(): the session is counted, and its query is embedded, or not; memories
\* are looked for when it is.
RbStart(s) ==
  /\ \/ Begin(s, "acting") /\ UNCHANGED queried
     \/ Begin(s, "selecting") /\ queried' = [queried EXCEPT ![s] = TRUE]
  /\ rbCount' = rbCount + 1
  /\ UNCHANGED <<rbEntries, rbEmbeddings, seen, recalled, verdict, rbFile>>

\* The store has no entries.
NoMemories(s) == rbEntries = <<>> /\ Proceed(s, "selecting", "acting") /\ UNCHANGED rbVars

\* select_memory: get_embeddings_array first ...
ReadEmbeddings(s) ==
  /\ rbEntries # <<>>
  /\ Proceed(s, "selecting", "reading")
  /\ seen' = [seen EXCEPT ![s].embeddings = rbEmbeddings]
  /\ UNCHANGED <<rbStore, queried, recalled, verdict, rbFile>>

\* ... get_entries next ...
ReadEntries(s) ==
  /\ Proceed(s, "reading", "scoring memories")
  /\ seen' = [seen EXCEPT ![s].entries = rbEntries]
  /\ UNCHANGED <<rbStore, queried, recalled, verdict, rbFile>>

\* ... and get_entry_ids last: the ids are zipped with the scores of the
\* embeddings, and the best position is looked up in the entries.  The
\* instruction's embedding, or the position, may fail: nothing is retrieved.
SelectMemory(s) ==
  /\ Proceed(s, "scoring memories", "acting")
  /\ \/ \E i \in 1..Len(seen[s].embeddings) :
          /\ i \leq Len(rbEntries) /\ i \leq Len(seen[s].entries)
          /\ recalled' = [recalled EXCEPT
               ![s] = <<seen[s].embeddings[i], seen[s].entries[i].by>>]
     \/ UNCHANGED recalled
  /\ UNCHANGED <<rbStore, queried, seen, verdict, rbFile>>

\* react(): an answer without content and tool calls ends the session.
RbReact(s) == React(s) /\ UNCHANGED rbVars

\* close(): nothing is learned from a session without actions or without an
\* embedding of its query.
NothingToLearn(s) ==
  /\ ~acted[s] \/ ~queried[s]
  /\ Proceed(s, "closing", "saving")
  /\ UNCHANGED rbVars

\* TrajectoryEvaluator.evaluate: a model judges; its call does not raise, an
\* empty answer after three attempts reads as a failure.
Evaluate(s) ==
  /\ acted[s] /\ queried[s]
  /\ Proceed(s, "closing", "inducing")
  /\ verdict' \in {[verdict EXCEPT ![s] = v] : v \in Statuses}
  /\ UNCHANGED <<rbStore, queried, seen, recalled, rbFile>>

\* induce_memory: no items, because the call failed or answered nothing.
InduceNothing(s) == Proceed(s, "inducing", "saving") /\ UNCHANGED rbVars

\* Mutant of AddEntry: only a success gets an embedding.
AddEntrySuccessOnly(s) ==
  /\ Proceed(s, "inducing", "saving")
  /\ rbEntries' = Append(rbEntries, [by |-> s, status |-> verdict[s]])
  /\ rbEmbeddings' = IF verdict[s] = "success" THEN Append(rbEmbeddings, s) ELSE rbEmbeddings
  /\ UNCHANGED <<rbCount, queried, seen, recalled, verdict, rbFile>>

\* add_entry appends the entry and the embedding under the store's lock.
AddEntry(s) ==
  /\ Proceed(s, "inducing", "saving")
  /\ rbEntries' = Append(rbEntries, [by |-> s, status |-> verdict[s]])
  /\ rbEmbeddings' = Append(rbEmbeddings, s)
  /\ UNCHANGED <<rbCount, queried, seen, recalled, verdict, rbFile>>

\* save_checkpoint; a file that cannot be written is logged.
RbSave(s) ==
  /\ Proceed(s, "saving", "done")
  /\ \/ rbFile' = [rbFile EXCEPT ![s] =
                    [entries |-> rbEntries, embeddings |-> rbEmbeddings]]
     \/ UNCHANGED rbFile
  /\ UNCHANGED <<rbStore, queried, seen, recalled, verdict>>

RbNext ==
  \E s \in Sessions :
     \/ RbStart(s) \/ NoMemories(s) \/ ReadEmbeddings(s) \/ ReadEntries(s) \/ SelectMemory(s)
     \/ RbReact(s) \/ NothingToLearn(s) \/ Evaluate(s) \/ InduceNothing(s)
     \/ AddEntry(s) \/ RbSave(s)

RbTypeOK ==
  /\ rbEntries \in Seq(MemoryEntry) /\ rbEmbeddings \in Seq(Sessions)
  /\ rbCount \in 0..Cardinality(Sessions)
  /\ queried \in [Sessions -> BOOLEAN]
  /\ seen \in [Sessions -> [embeddings : Seq(Sessions), entries : Seq(MemoryEntry)]]
  /\ \A s \in Sessions : recalled[s] = <<>> \/ recalled[s] \in Sessions \X Sessions
  /\ verdict \in [Sessions -> Statuses \cup {"none"}]
  /\ rbFile \in [Sessions -> [entries : Seq(MemoryEntry), embeddings : Seq(Sessions)]]

------------------------------------------------------------------------------
\* Position by position the embeddings are those of the entries.
Aligned(embeddings, entries) ==
  /\ Len(embeddings) \leq Len(entries)
  /\ \A i \in 1..Len(embeddings) : entries[i].by = embeddings[i]

\* The file is the start of the list of memories, and it holds the session's own
\* and all that were stored before it.
HoldsWhatCameBefore(s) ==
  /\ Len(rbFile[s].entries) \leq Len(rbEntries)
  /\ \A i \in 1..Len(rbFile[s].entries) : rbFile[s].entries[i] = rbEntries[i]
  /\ \A i \in 1..Len(rbEntries) : rbEntries[i].by = s => i \leq Len(rbFile[s].entries)

\* However sessions overlap, the memory a session is shown is the one whose
\* query was found similar, although the store is read in three steps, and a
\* session's checkpoint, if it was written, holds the memory the session stored
\* and every one stored before it, each with its own embedding (select_memory,
\* add_entry, save_checkpoint).
RbRecallsWhatItFound ==
  /\ \A s \in Sessions : recalled[s] # <<>> => recalled[s][1] = recalled[s][2]
  /\ \A s \in Sessions : at[s] = "scoring memories" =>
       Aligned(seen[s].embeddings, seen[s].entries)
  /\ \A s \in Sessions :
       /\ Len(rbFile[s].entries) = Len(rbFile[s].embeddings)
       /\ Aligned(rbFile[s].embeddings, rbEntries)
  /\ \A s \in Sessions : rbFile[s] # NoCheckpoint => HoldsWhatCameBefore(s)
=============================================================================
