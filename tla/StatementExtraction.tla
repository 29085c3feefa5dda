------------------------ MODULE StatementExtraction ------------------------
(* The extraction of labelled statements from a book:                      *)
(* autoform/statement_extraction.  A book is cut into overlapping chunks;  *)
(* k agents read every chunk; a chunk's extractions are reconciled by      *)
(* name, a reviewer settling what some agents missed; adjacent chunks are  *)
(* merged, dropping from the later what the earlier has; the rest is       *)
(* written.  Agents run as coroutines under one semaphore, each step of    *)
(* the pipeline is gathered before the next.                               *)
(*                                                                         *)
(* A statement is its normalized name and the lines it stands on.  Which   *)
(* version of it a chunk has follows from the chunk, so that a list of a   *)
(* chunk's statements is a set, and what is written is a set of pairs of a *)
(* chunk and a statement: order is left out.                               *)
EXTENDS Integers, Sequences, FiniteSets

CONSTANTS
  Lines,        \* lines of the book
  ChunkSize,    \* chunk_size
  Overlap,      \* overlap
  K,            \* agents that read a chunk
  Concurrency,  \* permits of the semaphore
  Names,        \* normalized names
  Books,        \* the books to read, sets of statements
  MaxLapses     \* what agents overlook, in all (bound of the model)

Statements == {s \in [name : Names, first : 1..Lines, last : 1..Lines] : s.first <= s.last}

ASSUME ExtractionAssumption ==
  /\ Lines \in Nat /\ K \in Nat \ {0} /\ Concurrency \in Nat \ {0} /\ MaxLapses \in Nat
  /\ ChunkSize \in Nat \ {0} /\ Overlap \in 0..(ChunkSize - 1)
  /\ \A b \in Books : /\ b \subseteq Statements /\ IsFiniteSet(b)
                     /\ \A s, t \in b : s = t \/ s.last < t.first \/ t.last < s.first

VARIABLES
  book,      \* the statements of the book
  pc,        \* the step of _run
  start,     \* start of _chunk_lines
  chunks,    \* the chunks so far
  running,   \* the agents that hold a permit
  answered,  \* the agents whose answer is parsed
  found,     \* all_extractions
  curated,   \* chunk_statements
  kept,      \* pair_results
  written,   \* targets.yaml, as pairs of a chunk and a statement
  lapses     \* statements agents overlooked

vars == <<book, pc, start, chunks, running, answered, found, curated, kept, written, lapses>>

Steps == {"chunk", "extract", "reconcile", "merge", "done", "failed"}
Chunks == 1..Len(chunks)

---------------------------------------------------------------------------
(* The book and its chunks *)

Smaller(m, n) == IF m <= n THEN m ELSE n

\* What an agent that reads chunk c can report: the label is the beginning.
Labelled(c) == {s \in book : chunks[c].first <= s.first /\ s.first <= chunks[c].last}

Whole(c, s) == chunks[c].first <= s.first /\ s.last <= chunks[c].last

Init ==
  /\ book \in Books
  /\ pc = "chunk"
  /\ start = 0
  /\ chunks = <<>>
  /\ running = {} /\ answered = {}
  /\ found = <<>> /\ curated = <<>> /\ kept = <<>>
  /\ written = {}
  /\ lapses = 0

\* One round of the loop of _chunk_lines.
Cut ==
  /\ pc = "chunk" /\ start < Lines
  /\ chunks' = Append(chunks, [first |-> start + 1, last |-> Smaller(start + ChunkSize, Lines)])
  /\ start' = start + (ChunkSize - Overlap)
  /\ UNCHANGED <<book, pc, running, answered, found, curated, kept, written, lapses>>

Chunked ==
  /\ pc = "chunk" /\ start >= Lines
  /\ pc' = "extract"
  /\ found' = [c \in Chunks |-> [a \in 1..K |-> {}]]
  /\ curated' = [c \in Chunks |-> {}]
  /\ kept' = [c \in Chunks |-> {}]
  /\ UNCHANGED <<book, start, chunks, running, answered, written, lapses>>

---------------------------------------------------------------------------
(* The agents: who is still to be asked in a step, and the semaphore *)

Named(statements) == {s.name : s \in statements}

\* index[key] = s: of the statements of one name the last stays.
Indexed(statements) ==
  {s \in statements : \A t \in statements : t.name = s.name => t.first <= s.first}

NamesFound(c) == UNION {Named(found[c][a]) : a \in 1..K}
FoundBy(c, name) == {a \in 1..K : name \in Named(found[c][a])}

Disputed(c) == {name \in NamesFound(c) : Cardinality(FoundBy(c, name)) < K}

\* versions[0], the first agent's.
Agreed(c) == {s \in Indexed(found[c][1]) : s.name \notin Disputed(c)}

\* The versions the reviewer is shown.
Versions(c) == {s \in UNION {Indexed(found[c][a]) : a \in 1..K} : s.name \in Disputed(c)}

\* Chunk c is compared with the one before it.
NeedsMerging(c) ==
  /\ chunks[c].first <= chunks[c - 1].last
  /\ curated[c - 1] # {} /\ curated[c] # {}

\* The agents of a step: a reader is <<chunk, number>>, the reviewer or the
\* merger of a chunk has number 0.
Asked ==
  CASE pc = "extract" -> Chunks \X (1..K)
    [] pc = "reconcile" -> {<<c, 0>> : c \in {d \in Chunks : Disputed(d) # {}}}
    [] pc = "merge" -> {<<c, 0>> : c \in {d \in Chunks \ {1} : NeedsMerging(d)}}
    [] OTHER -> {}

Before(other, agent) ==
  other[1] < agent[1] \/ (other[1] = agent[1] /\ other[2] < agent[2])

\* Permits go to the coroutines in the order gather() was given them.
Acquire(agent) ==
  /\ agent \in Asked \ (answered \cup running)
  /\ \A other \in Asked : Before(other, agent) => other \in answered \cup running
  /\ Cardinality(running) < Concurrency
  /\ running' = running \cup {agent}
  /\ UNCHANGED <<book, pc, start, chunks, answered, found, curated, kept, written, lapses>>

Release(agent) ==
  /\ agent \in running
  /\ running' = running \ {agent}
  /\ answered' = answered \cup {agent}

\* An agent that reports less than it could has overlooked the rest.
Overlook(missed) ==
  /\ lapses + Cardinality(missed) <= MaxLapses
  /\ lapses' = lapses + Cardinality(missed)

\* extract_from_chunk
Extract(c, a) ==
  /\ pc = "extract"
  /\ Release(<<c, a>>)
  /\ \E report \in SUBSET Labelled(c) :
        /\ Overlook(Labelled(c) \ report)
        /\ found' = [found EXCEPT ![c][a] = report]
  /\ UNCHANGED <<book, pc, start, chunks, curated, kept, written>>

\* _review_chunk: a version of every disputed name, or of some.
Review(c) ==
  /\ pc = "reconcile"
  /\ Release(<<c, 0>>)
  /\ \E included \in SUBSET Versions(c) :
        /\ \A s, t \in included : s.name = t.name => s = t
        /\ Overlook(Disputed(c) \ Named(included))
        /\ curated' = [curated EXCEPT ![c] = Agreed(c) \cup included]
  /\ UNCHANGED <<book, pc, start, chunks, found, kept, written>>

\* Variant with a bug: a duplicate is dropped from both lists.
MergePairBoth(c) ==
  /\ pc = "merge"
  /\ Release(<<c, 0>>)
  /\ \E duplicates \in SUBSET (curated[c] \cap curated[c - 1]) :
        /\ Overlook((curated[c] \cap curated[c - 1]) \ duplicates)
        /\ kept' = [d \in Chunks |-> IF d \in {c - 1, c} THEN kept[d] \ duplicates ELSE kept[d]]
  /\ UNCHANGED <<book, pc, start, chunks, found, curated, written>>

\* merge_pair: the merger names duplicates of what the earlier chunk has, all
\* or some, and the later chunk's statement of that name is dropped.
MergePair(c) ==
  /\ pc = "merge"
  /\ Release(<<c, 0>>)
  /\ \E duplicates \in SUBSET (curated[c] \cap curated[c - 1]) :
        /\ Overlook((curated[c] \cap curated[c - 1]) \ duplicates)
        /\ kept' = [kept EXCEPT ![c] = {s \in curated[c] : s.name \notin Named(duplicates)}]
  /\ UNCHANGED <<book, pc, start, chunks, found, curated, written>>

---------------------------------------------------------------------------
(* gather() *)

Gathered == running = {} /\ Asked \subseteq answered

\* reconcile_all begins: chunks without a dispute have their list at once.
Extracted ==
  /\ pc = "extract" /\ Gathered
  /\ pc' = "reconcile"
  /\ curated' = [c \in Chunks |-> Agreed(c)]
  /\ answered' = {}
  /\ UNCHANGED <<book, start, chunks, running, found, kept, written, lapses>>

\* merge_all begins: the first chunk and pairs that need no merging stay.
Reconciled ==
  /\ pc = "reconcile" /\ Gathered
  /\ pc' = "merge"
  /\ kept' = curated
  /\ answered' = {}
  /\ UNCHANGED <<book, start, chunks, running, found, curated, written, lapses>>

\* save_task_list
Merged ==
  /\ pc = "merge" /\ Gathered
  /\ pc' = "done"
  /\ written' = {p \in Chunks \X book : p[2] \in kept[p[1]]}
  /\ UNCHANGED <<book, start, chunks, running, answered, found, curated, kept, lapses>>

\* An agent raises: gather() raises at once, and the run ends without output.
Fail(agent) ==
  /\ agent \in running
  /\ pc' = "failed"
  /\ running' = {}
  /\ UNCHANGED <<book, start, chunks, answered, found, curated, kept, written, lapses>>

Next ==
  \/ Cut \/ Chunked
  \/ \E agent \in Asked : Acquire(agent) \/ Fail(agent)
  \/ \E c \in Chunks : \/ \E a \in 1..K : Extract(c, a)
                       \/ Review(c) \/ MergePair(c)
  \/ Extracted \/ Reconciled \/ Merged

Spec == Init /\ [][Next]_vars

---------------------------------------------------------------------------
(* Properties *)

TypeOK ==
  /\ book \in Books
  /\ pc \in Steps
  /\ start \in Nat
  /\ chunks \in Seq([first : 1..Lines, last : 1..Lines])
  /\ running \subseteq Chunks \X (0..K) /\ answered \subseteq Chunks \X (0..K)
  /\ pc \notin {"chunk", "failed"} =>
       /\ found \in [Chunks -> [1..K -> SUBSET book]]
       /\ curated \in [Chunks -> SUBSET book] /\ kept \in [Chunks -> SUBSET book]
  /\ written \subseteq Chunks \X book
  /\ lapses \in 0..MaxLapses

\* No chunk has two statements of one normalized name.
Distinct ==
  \A c \in Chunks : \A s, t \in Labelled(c) : s.name = t.name => s = t

\* A statement that all agents of a chunk report is written, from that chunk or
\* an earlier one, however many others are overlooked on the way: consensus
\* accepts it, the reviewer is not asked, and of the mergers that drop it one
\* after the other the last keeps what it compares with.
FoundByAllWritten ==
  pc = "done" /\ Distinct =>
    \A c \in Chunks : \A s \in book :
      (\A a \in 1..K : s \in found[c][a]) => \E d \in 1..c : <<d, s>> \in written

\* Where no agent overlooks anything every statement is written once, whatever
\* the number of chunks it is in, and one that is no longer than the overlap
\* and a line stands in some chunk as a whole (chunking: "any statement
\* spanning a chunk boundary appears fully in at least one chunk").
EachOnce ==
  pc = "done" /\ lapses = 0 /\ Distinct =>
    \A s \in book :
      /\ \E c \in Chunks : <<c, s>> \in written /\ \A d \in Chunks : <<d, s>> \in written => d = c
      /\ s.last - s.first <= Overlap => \E c \in Chunks : Whole(c, s)

\* Of a statement a chunk cuts off, the whole version is what is written: it is
\* the earlier chunk that has the beginning, and the later one that is dropped.
WholeWritten ==
  pc = "done" /\ lapses = 0 =>
    \A s \in book : s.last - s.first <= Overlap => \E c \in Chunks : <<c, s>> \in written /\ Whole(c, s)

\* A name all agents found is accepted with each statement they found it for.
AcceptedIfAllFound ==
  pc = "done" =>
    \A c \in Chunks : \A s \in book :
      (\A a \in 1..K : s \in found[c][a]) => s \in curated[c]
=============================================================================
