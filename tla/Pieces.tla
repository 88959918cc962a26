------------------------------- MODULE Pieces -------------------------------
(***************************************************************************)
(* How texts and payloads are cut into what one push or one row can hold,  *)
(* and put together again:                                                 *)
(*   - the chunks of an oversized push (instant/src/multipart.js), which   *)
(*     the service worker checks and restores (sw/src/index.js),           *)
(*   - the slices of a long client-state value, cut between characters     *)
(*     (shared/src/index.js, chunkReasoningByUtf8Bytes),                   *)
(*   - the sentences of an answer, one push each (message-processor.js),   *)
(*   - the segments of a text some blocks of which must stay whole         *)
(*     (instant/src/segmentation.js).                                      *)
(***************************************************************************)
EXTENDS Integers, Sequences, FiniteSets
LOCAL INSTANCE SequencesExt
LOCAL INSTANCE FiniteSetsExt

(* The elements of a set in an order that is total on it.                  *)
InOrder(S, before(_, _)) ==
    [i \in 1..Cardinality(S) |->
        CHOOSE x \in S : Cardinality({y \in S : before(y, x)}) = i - 1]

-----------------------------------------------------------------------------
(* Multipart pushes.  A payload is its bytes, a sequence; what carries     *)
(* them is the same for every part of one payload.                         *)

Parts(bytes, maxChunkBytes) ==
    Max({1, (Len(bytes) + maxChunkBytes - 1) \div maxChunkBytes})

BuildMultipart(bytes, maxChunkBytes) ==
    LET total == Parts(bytes, maxChunkBytes)
    IN [i \in 1..total |->
          [index |-> i, total |-> total,
           chunk |-> SubSeq(bytes, (i - 1) * maxChunkBytes + 1,
                            Min({i * maxChunkBytes, Len(bytes)}))]]

(* What sendMultipartPushes asks before it sends the first part.           *)
SenderAllows(bytes, limits) ==
    /\ Len(bytes) <= limits.maxTotalBytes
    /\ Parts(bytes, limits.maxChunkBytes) <= limits.maxChunks

(* What normalizeMultipartChunk asks of each part.                         *)
ReceiverTakes(part, limits) ==
    part.total \in 1..limits.maxChunks /\ part.index \in 1..part.total

(* restoreMultipartPayload over the chunk store, index by index.           *)
Restorable(store, total, limits) ==
    /\ 1..total \subseteq DOMAIN store
    /\ Len(FlattenSeq([i \in 1..total |-> store[i]])) <= limits.maxTotalBytes
Restored(store, total) == FlattenSeq([i \in 1..total |-> store[i]])

-----------------------------------------------------------------------------
(* UTF-8.  A character is its width; of a byte only the leading bits count.*)
Utf8(text) ==
    FlattenSeq([i \in DOMAIN text |->
        [b \in 1..text[i] |-> IF b = 1 THEN "lead" ELSE "continuation"]])

(* The cut that follows `start': as far as maxBytes allows, then back to a *)
(* byte that begins a character, never behind `start'.                     *)
NextCut(bytes, start, maxBytes) ==
    IF start + maxBytes >= Len(bytes) THEN Len(bytes)
    ELSE Max({e \in start..(start + maxBytes) :
                e = start \/ bytes[e + 1] = "lead"})

ChunksByBytes(bytes, maxBytes) ==
    LET from[start \in 0..Len(bytes)] ==
          IF start = Len(bytes) THEN <<>>
          ELSE LET end == NextCut(bytes, start, maxBytes)
               IN <<SubSeq(bytes, start + 1, end)>> \o from[end]
    IN from[0]

-----------------------------------------------------------------------------
(* Sentences.  A text is a sequence of letters, spaces and marks; a        *)
(* pattern is the set of marks that end a sentence for it.                 *)
Space == "space"

Trim(s) ==
    LET solid == {i \in DOMAIN s : s[i] # Space}
    IN IF solid = {} THEN <<>> ELSE SubSeq(s, Min(solid), Max(solid))

(* The ends of the runs of text, each with the marks that follow it.       *)
SentenceStarts(text, marks) ==
    {i \in DOMAIN text : text[i] \notin marks /\
                         (i = 1 \/ text[i - 1] \in marks)}
RunEnd(text, marks, i) ==
    Max({j \in i..Len(text) : \A k \in i..j : text[k] \notin marks})
MarksEnd(text, marks, i) ==
    Max({j \in RunEnd(text, marks, i)..Len(text) :
           \A k \in (RunEnd(text, marks, i) + 1)..j : text[k] \in marks})

Sentence(text, marks, i) ==
    Trim(SubSeq(text, i, RunEnd(text, marks, i)))
        \o SubSeq(text, RunEnd(text, marks, i) + 1, MarksEnd(text, marks, i))

(* splitOnceByRegex: a run of nothing but spaces is dropped, and its marks *)
(* with it; a text that leaves nothing stays as it is.                     *)
SplitOnce(text, marks) ==
    LET starts == {i \in SentenceStarts(text, marks) :
                     Trim(SubSeq(text, i, RunEnd(text, marks, i))) # <<>>}
        order == InOrder(starts, <)
    IN IF starts = {} THEN <<text>>
       ELSE [n \in DOMAIN order |-> Sentence(text, marks, order[n])]

(* splitMessageIntoSentences: one pattern after the other over all pieces. *)
Sentences(text, patterns) ==
    FoldLeft(LAMBDA pieces, marks :
                 FlattenSeq([i \in DOMAIN pieces |-> SplitOnce(pieces[i], marks)]),
             <<text>>, patterns)

-----------------------------------------------------------------------------
(* Protected blocks.  A match is a block of positions of the text, from    *)
(* `at', of length `len'.                                                  *)
Matches(n) == {m \in [at : 1..n, len : 1..n] : m.at + m.len <= n + 1}
Past(m) == m.at + m.len
Before(l, m) == l.at < m.at \/ (l.at = m.at /\ l.len > m.len)

(* From the earliest on, the longest first: what starts before the last    *)
(* one kept has ended is dropped.                                          *)
Kept(matches) ==
    LET order == InOrder(matches, Before)
        keep(s, m) == IF m.at >= s.past
                      THEN [kept |-> Append(s.kept, m), past |-> Past(m)]
                      ELSE s
    IN FoldLeft(keep, [kept |-> <<>>, past |-> 1], order).kept

(* The text between the blocks is what splitText may cut; each block is    *)
(* one segment.                                                            *)
Segments(n, matches) ==
    LET kept == Kept(matches)
        plain(from, to) == IF from < to
                           THEN <<[at |-> from, len |-> to - from,
                                   protect |-> FALSE]>>
                           ELSE <<>>
        add(s, m) == [cursor |-> Past(m),
                      out |-> s.out \o plain(s.cursor, m.at)
                              \o <<[at |-> m.at, len |-> m.len, protect |-> TRUE]>>]
        done == FoldLeft(add, [cursor |-> 1, out |-> <<>>], kept)
    IN done.out \o plain(done.cursor, n + 1)
=============================================================================
