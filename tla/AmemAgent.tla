------------------------------ MODULE AmemAgent ------------------------------
(***************************************************************************)
(* The A-Mem agent: sessions share a list of notes and a retriever that    *)
(* keeps the embedding of every note by position.  close() makes a note of *)
(* the session, lets a model evolve it and its neighbours and indexes it,  *)
(* all under the store's lock, the calls of the model included; what the   *)
(* evolution changes in other notes is indexed when evo_threshold          *)
(* evolutions have been counted.                                           *)
(***************************************************************************)
EXTENDS AgentSessions, Sequences

CONSTANT MaxThreshold  \* the largest evo_threshold

ASSUME ThresholdAssumption == MaxThreshold \in Nat \ {0}

VARIABLES
  threshold,   \* evo_threshold
  notes,       \* _memories, in the order of insertion
  corpus,      \* the number of documents of the retriever
  index,       \* its embeddings: the note and the revision each was computed from
  evolutions,  \* _evo_cnt
  amCount,     \* _session_count
  amHistory,   \* _history
  storeLock,   \* the session that holds the store's lock, or NoHolder
  note,        \* per session, the note it is adding
  learned,     \* per session, _memories_added and _evolutions_triggered
  skewed,      \* an embedding has failed since the last rebuild (history)
  broke,       \* sessions whose add_memory raised (history)
  amFile       \* per session, its checkpoint

amTrace  == <<skewed, broke>>
amStore  == <<notes, corpus, index, evolutions, amCount, amHistory>>
amemVars == <<threshold, amStore, storeLock, note, learned, amTrace, amFile>>

NoHolder  == "no one"
ASSUME HolderAssumption == NoHolder \notin Sessions
Revisions == 0..Cardinality(Sessions)
\* rev counts the changes of context and tags; odd: a link is no integer.
Note      == [by : Sessions, rev : Revisions, odd : BOOLEAN]
NoNote    == [odd |-> FALSE, evolved |-> FALSE]
Learned   == [added : 0..1, evolved : 0..1]

AmemInit ==
  /\ threshold \in 1..MaxThreshold
  /\ notes = <<>> /\ corpus = 0 /\ index = <<>> /\ evolutions = 0 /\ amCount = 0
  /\ amHistory = {}
  /\ storeLock = NoHolder
  /\ note = [s \in Sessions |-> NoNote]
  /\ learned = [s \in Sessions |-> [added |-> 0, evolved |-> 0]]
  /\ skewed = FALSE /\ broke = {}
  /\ amFile = [s \in Sessions |-> <<>>]

Unlocked == storeLock = NoHolder

\* start(): the store is created or found; counting the session waits while
\* another session holds the lock over its calls of a model.
AmemStart(s) == Begin(s, "counting") /\ UNCHANGED amemVars

AmemCounts(s) ==
  /\ Unlocked
  /\ Proceed(s, "counting", IF notes = <<>> THEN "acting" ELSE "recalling")
  /\ amCount' = amCount + 1
  /\ UNCHANGED <<threshold, notes, corpus, index, evolutions, amHistory, storeLock, note, learned, amTrace, amFile>>

\* find_related_with_neighbors, after a call for keywords that may fail: notes
\* of the positions found and of their links.
Recalls(s) ==
  /\ Unlocked
  /\ Proceed(s, "recalling", "acting")
  /\ UNCHANGED amemVars

\* A link that is no integer cannot be compared with a position: start() raises,
\* before the session loop would close the agent.
RecallRaises(s) ==
  /\ Unlocked
  /\ \E i \in 1..Len(notes) : i \leq Len(index) /\ notes[i].odd
  /\ Proceed(s, "recalling", "done")
  /\ UNCHANGED amemVars

\* react(): the call fails for good, an answer without content and tool calls
\* ends the session, or there is an action.  What happened goes to a log that has
\* the task in any case.
AmemReact(s) ==
  /\ Turn(s)
  /\ Go(s, "closing") \/ Go(s, "scoring") \/ UNCHANGED at
  /\ UNCHANGED <<heard, acted, amemVars>>

\* close(): the interaction log has the task at least; a log of less than 10
\* characters is not stored, and the analysis falls back on heuristics.
TooShort(s) == Proceed(s, "closing", "recording") /\ UNCHANGED amemVars

\* add_memory takes the lock and keeps it to the end.
AddMemory(s) ==
  /\ Unlocked
  /\ Proceed(s, "closing", "evolving note")
  /\ storeLock' = s
  /\ UNCHANGED <<threshold, amStore, note, learned, amTrace, amFile>>

\* _run_evolution: no neighbours, the model decides against it, or a call raises
\* after the note has got links.
NoEvolution(s) ==
  /\ Proceed(s, "evolving note", "adding")
  /\ \/ UNCHANGED note
     \/ index # <<>> /\ note' \in {[note EXCEPT ![s].odd = o] : o \in BOOLEAN}
  /\ UNCHANGED <<threshold, amStore, storeLock, learned, amTrace, amFile>>

\* The note is linked (strengthened), its neighbours' context and tags are
\* changed in place, or both.
Evolve(s) ==
  /\ index # <<>>
  /\ Proceed(s, "evolving note", "adding")
  /\ \E neighbours \in SUBSET (1..Len(notes)), o \in BOOLEAN :
       /\ \A i \in neighbours : i \leq Len(index)
       /\ notes' = [i \in 1..Len(notes) |->
                      IF i \in neighbours THEN [notes[i] EXCEPT !.rev = @ + 1] ELSE notes[i]]
       /\ note' = [note EXCEPT ![s] = [odd |-> o, evolved |-> TRUE]]
  /\ UNCHANGED <<threshold, corpus, index, evolutions, amCount, amHistory, storeLock, learned, amTrace, amFile>>

Own(s) == [by |-> s, rev |-> 0, odd |-> note[s].odd]

\* The note is stored and its document added to the retriever; the end of
\* add_memory gives the lock back.
StoreNote(s) ==
  /\ Proceed(s, "adding", IF note[s].evolved THEN "consolidating" ELSE "recording")
  /\ notes' = Append(notes, Own(s))
  /\ corpus' = corpus + 1
  /\ index' = Append(index, [by |-> s, rev |-> 0])
  /\ learned' = [learned EXCEPT ![s].added = IF note[s].evolved THEN 0 ELSE 1]
  /\ storeLock' = IF note[s].evolved THEN s ELSE NoHolder
  /\ UNCHANGED <<threshold, evolutions, amCount, amHistory, note, amTrace, amFile>>

\* add_documents: the document is in the corpus when its embedding fails.
IndexNoteFails(s) ==
  /\ Proceed(s, "adding", "recording")
  /\ notes' = Append(notes, Own(s))
  /\ corpus' = corpus + 1
  /\ skewed' = TRUE /\ broke' = broke \cup {s}
  /\ storeLock' = NoHolder
  /\ UNCHANGED <<threshold, index, evolutions, amCount, amHistory, note, learned, amFile>>

\* Mutant of Consolidate: the retriever is never indexed afresh.
ConsolidateNever(s) ==
  /\ Proceed(s, "consolidating", "recording")
  /\ evolutions' = evolutions + 1
  /\ learned' = [learned EXCEPT ![s] = [added |-> 1, evolved |-> 1]]
  /\ storeLock' = NoHolder
  /\ UNCHANGED <<threshold, notes, corpus, index, amCount, amHistory, note, amTrace, amFile>>

\* An evolution is counted; every evo_threshold-th indexes all notes afresh.
Consolidate(s) ==
  /\ Proceed(s, "consolidating", "recording")
  /\ evolutions' = evolutions + 1
  /\ IF evolutions' % threshold = 0
       THEN /\ index' = [i \in 1..Len(notes) |->
                           [by |-> notes[i].by, rev |-> notes[i].rev]]
            /\ corpus' = Len(notes) /\ skewed' = FALSE
       ELSE UNCHANGED <<index, corpus, skewed>>
  /\ learned' = [learned EXCEPT ![s] = [added |-> 1, evolved |-> 1]]
  /\ storeLock' = NoHolder
  /\ UNCHANGED <<threshold, notes, amCount, amHistory, note, broke, amFile>>

\* reset() has emptied the retriever when the new embeddings fail.
ConsolidateFails(s) ==
  /\ Proceed(s, "consolidating", "recording")
  /\ evolutions' = evolutions + 1 /\ evolutions' % threshold = 0
  /\ index' = <<>> /\ corpus' = Len(notes)
  /\ skewed' = TRUE /\ broke' = broke \cup {s}
  /\ storeLock' = NoHolder
  /\ UNCHANGED <<threshold, notes, amCount, amHistory, note, learned, amFile>>

\* record_learning ...
AmemRecord(s) ==
  /\ Unlocked
  /\ Proceed(s, "recording", "saving")
  /\ amHistory' = amHistory \cup
       {[by |-> s, added |-> learned[s].added, evolved |-> learned[s].evolved]}
  /\ UNCHANGED <<threshold, notes, corpus, index, evolutions, amCount, storeLock, note, learned,
                 amTrace, amFile>>

\* ... and save_checkpoint, which may fail: two more holds of the lock.
AmemSave(s) ==
  /\ Unlocked
  /\ Proceed(s, "saving", "done")
  /\ amFile' \in {amFile, [amFile EXCEPT ![s] = notes]}
  /\ UNCHANGED <<threshold, amStore, storeLock, note, learned, amTrace>>

AmemNext ==
  \E s \in Sessions :
     \/ AmemStart(s) \/ AmemCounts(s) \/ Recalls(s) \/ RecallRaises(s)
     \/ AmemReact(s) \/ TooShort(s) \/ AddMemory(s) \/ NoEvolution(s)
     \/ Evolve(s) \/ StoreNote(s) \/ IndexNoteFails(s) \/ Consolidate(s)
     \/ ConsolidateFails(s) \/ AmemRecord(s) \/ AmemSave(s)

AmemTypeOK ==
  /\ threshold \in 1..MaxThreshold
  /\ notes \in Seq(Note)
  /\ corpus \in 0..Cardinality(Sessions)
  /\ index \in Seq([by : Sessions, rev : Revisions])
  /\ evolutions \in 0..Cardinality(Sessions)
  /\ amCount \in 0..Cardinality(Sessions)
  /\ amHistory \subseteq [by : Sessions, added : 0..1, evolved : 0..1]
  /\ storeLock \in Sessions \cup {NoHolder}
  /\ note \in [Sessions -> [odd : BOOLEAN, evolved : BOOLEAN]]
  /\ learned \in [Sessions -> Learned]
  /\ skewed \in BOOLEAN /\ broke \subseteq Sessions
  /\ amFile \in [Sessions -> Seq(Note)]

------------------------------------------------------------------------------
Noted == {notes[i].by : i \in 1..Len(notes)}

\* What is recorded for a session is what it did: it added the note that is
\* there once, unless an embedding failed, and evolutions that are counted were
\* recorded, or are about to be.
AccountsAgree ==
  /\ Cardinality(Noted) = Len(notes)
  /\ \A s \in Sessions :
       /\ s \in Noted <=> learned[s].added = 1 \/ s \in broke
       /\ \A h \in amHistory : h.by = s =>
            h.added = learned[s].added /\ h.evolved = learned[s].evolved
       /\ \A i \in 1..Len(amFile[s]) : amFile[s][i].by = notes[i].by
  /\ evolutions \leq Cardinality(
       {s \in Sessions : learned[s].evolved = 1} \cup broke)
  /\ evolutions \geq Cardinality({s \in Sessions : learned[s].evolved = 1})

\* The retriever knows the notes by their position; the changes of evolution are
\* in it after every evo_threshold-th evolution.
IndexFollows ==
  /\ corpus = Len(notes) /\ Len(index) \leq Len(notes)
  /\ ~skewed =>
       /\ Len(index) = Len(notes)
       /\ \A i \in 1..Len(notes) : index[i].by = notes[i].by
       /\ evolutions % threshold = 0 =>
            \A i \in 1..Len(notes) : index[i].rev = notes[i].rev

\* However sessions overlap, whenever the lock is free the records agree with
\* the notes, and a position of the retriever is the note at that position, and
\* current after a consolidation, unless an embedding has failed since the
\* retriever was last rebuilt (add_memory, _process_and_add, _consolidate).
AmemStoreAgrees == Unlocked => AccountsAgree /\ IndexFollows
=============================================================================
