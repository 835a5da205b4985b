------------------------------- MODULE Chunking -------------------------------
(***************************************************************************)
(* _chunk_text, which both vector stores use to cut a document into        *)
(* overlapping chunks (rag/rag_engine.py and, with the same loop,          *)
(* local_ai/vector_store/lancedb_store.py).                                *)
(*                                                                         *)
(* A text is its length and, for every kind of sentence boundary the loop  *)
(* looks for, the positions just behind an occurrence.  One step is one    *)
(* turn of the while loop.                                                 *)
(***************************************************************************)
EXTENDS Integers, Sequences, FiniteSetsExt

CONSTANTS
    TextLen,          \* len(text)
    chunk_size,
    chunk_overlap,
    SentenceKinds     \* kinds of boundary with two characters ('. ', '! ', ...)

ASSUME ChunkAssumption ==
    /\ TextLen \in Nat /\ chunk_size \in Nat \ {0} /\ chunk_overlap \in Nat
    /\ chunk_overlap < chunk_size /\ chunk_size < TextLen
    /\ SentenceKinds \in Nat

\* The lengths of the boundaries in the order they are tried, '\n' last.
PunctLen == [k \in 1..(SentenceKinds + 1) |-> IF k <= SentenceKinds THEN 2 ELSE 1]

VARIABLES
    ends,         \* ends[k]: the positions behind the boundaries of kind k
    start,        \* the loop's start
    held,         \* the positions some chunk holds
    advancing     \* every turn so far has moved start on (history)

chunkVars == <<ends, start, held, advancing>>

ChunkTypeOK ==
    /\ ends \in [DOMAIN PunctLen -> SUBSET (1..TextLen)]
    /\ start \in Int
    /\ held \subseteq 0..(TextLen - 1)
    /\ advancing \in BOOLEAN

ChunkInit ==
    /\ ends \in [DOMAIN PunctLen -> SUBSET (1..TextLen)]
    /\ \A k \in DOMAIN PunctLen : \A e \in ends[k] : e >= PunctLen[k]
    /\ start = 0
    /\ held = {}
    /\ advancing = TRUE

\* A Python index: a negative one counts from the end of the text.
Index(i) ==
    IF i >= 0 THEN i ELSE IF TextLen + i >= 0 THEN TextLen + i ELSE 0

\* text.rfind(punct, start, end), given by the position behind the match.
Found(k, s, e) ==
    {b \in ends[k] : b - PunctLen[k] >= Index(s) /\ b <= Index(e)}

\* The end of the chunk that begins at s: the last boundary in the window of
\* the first kind that has one, or the end of the window.
ChunkEnd(s) ==
    LET e == s + chunk_size
        kinds == {k \in DOMAIN PunctLen : Found(k, s, e) # {}}
    IN  IF e < TextLen /\ kinds # {}
        THEN Max(Found(Min(kinds), s, e))
        ELSE e

\* text[s:e]
Slice(s, e) ==
    {i \in 0..(TextLen - 1) : Index(s) <= i /\ i < Index(e)}

\* Faulty variant: the overlap is added instead of taken off.
ChunkTurnApart ==
    /\ start < TextLen
    /\ held' = held \cup Slice(start, ChunkEnd(start))
    /\ start' = ChunkEnd(start) + chunk_overlap
    /\ advancing' = (advancing /\ start' > start)
    /\ UNCHANGED ends

\* One turn of the loop.
ChunkTurn ==
    /\ start < TextLen
    /\ held' = held \cup Slice(start, ChunkEnd(start))
    /\ start' = ChunkEnd(start) - chunk_overlap
    /\ advancing' = (advancing /\ start' > start)
    /\ UNCHANGED ends

ChunkSpec == ChunkInit /\ [][ChunkTurn]_chunkVars

\* The loop runs without an await: nothing keeps it from going on.
ChunkFair == WF_chunkVars(ChunkTurn)

ChunkFairSpec == ChunkSpec /\ ChunkFair

-----------------------------------------------------------------------------
(* Properties *)

\* As long as every turn moves start on, the chunks leave no gap: what lies
\* before the next start is held, and so all of the text is once the loop is
\* over.  (_chunk_text keeps the start of the next chunk inside the last.)
ChunksCover ==
    advancing => \A i \in 0..(TextLen - 1) : i < start => i \in held

\* Splitting a text into overlapping chunks ends, whatever the text.  (A turn
\* that ends where the last one did leaves the state as it is, for ever.)
ChunkingEnds ==
    <>(start >= TextLen)

=============================================================================
