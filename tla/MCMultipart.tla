---------------------------- MODULE MCMultipart ----------------------------
(* The instance of Multipart that TLC checks, and with it how the chunks    *)
(* are made and put together.                                              *)
EXTENDS Multipart, Pieces, TLC

(* Arrivals differ in nothing.                                             *)
ArrivalSymmetry == Permutations(Arrival)

-----------------------------------------------------------------------------
(* Pieces, over all inputs of a few bytes, characters or blocks            *)
LOCAL INSTANCE SequencesExt

-----------------------------------------------------------------------------
Bytes == {[i \in 1..n |-> i] : n \in 0..7}
Allowance == [maxChunkBytes : 1..3, maxChunks : 1..4, maxTotalBytes : 1..7]

(* What a sender lets pass, a worker with limits no tighter takes part for *)
(* part, and restores byte for byte; no part is longer than was asked for, *)
(* none is empty unless the payload is.                                    *)
ASSUME WhatIsSentIsRestored ==
    \A bytes \in Bytes, sender \in Allowance, receiver \in Allowance :
        /\ SenderAllows(bytes, sender)
        /\ sender.maxChunks <= receiver.maxChunks
        /\ sender.maxTotalBytes <= receiver.maxTotalBytes
        =>
        LET parts == BuildMultipart(bytes, sender.maxChunkBytes)
            store == [i \in DOMAIN parts |-> parts[i].chunk]
        IN /\ \A i \in DOMAIN parts :
                /\ ReceiverTakes(parts[i], receiver)
                /\ Len(parts[i].chunk) <= sender.maxChunkBytes
                /\ parts[i].chunk = <<>> => bytes = <<>>
           /\ Restorable(store, parts[1].total, receiver)
           /\ Restored(store, parts[1].total) = bytes

(* A worker whose limits are tighter may turn away what was sent: the two  *)
(* sets of defaults must agree, as protocol.js says they do.               *)
ASSUME TighterLimitsRefuse ==
    \E bytes \in Bytes, sender \in Allowance, receiver \in Allowance :
        /\ SenderAllows(bytes, sender)
        /\ \E part \in Range(BuildMultipart(bytes, sender.maxChunkBytes)) :
              ~ReceiverTakes(part, receiver)

-----------------------------------------------------------------------------
Texts == UNION {[1..n -> 1..4] : n \in 0..4}

(* Slices hold every byte in its place, begin with a character, fit, and   *)
(* are as long as that allows.                                             *)
ASSUME SlicesCutBetweenCharacters ==
    \A text \in Texts, maxBytes \in 4..7 :
        LET bytes == Utf8(text)
            slices == ChunksByBytes(bytes, maxBytes)
        IN /\ FlattenSeq(slices) = bytes
           /\ \A i \in DOMAIN slices :
                 slices[i][1] = "lead" /\ Len(slices[i]) \in 1..maxBytes
           /\ \A i \in 1..(Len(slices) - 1) :
                 LET next == SelectInSubSeq(slices[i + 1], 2, Len(slices[i + 1]),
                                            LAMBDA b : b = "lead")
                     width == IF next = 0 THEN Len(slices[i + 1]) ELSE next - 1
                 IN Len(slices[i]) + width > maxBytes

(* Below four bytes a character may have no cut in reach: the check that   *)
(* maxBytes is at least 4 is needed.                                       *)
ASSUME FourBytesNeeded ==
    \E text \in Texts : LET bytes == Utf8(text)
                        IN Len(bytes) > 3 /\ NextCut(bytes, 0, 3) = 0

-----------------------------------------------------------------------------
Symbol == {"a", "b", Space, "stop", "comma"}
Messages == UNION {[1..n -> Symbol] : n \in 0..5}
Patterns == {<<{"stop"}>>, <<{"stop"}, {"comma"}>>, <<{"stop", "comma"}>>}
Letters(s) == SelectSeq(s, LAMBDA x : x \in {"a", "b"})

(* No letter is lost or moved, and an empty piece comes of an empty text   *)
(* only.  With one pattern a mark is lost only where a piece begins with   *)
(* it; a later pattern may lose one that an earlier cut has put there.     *)
ASSUME SentencesKeepTheText ==
    \A text \in Messages, patterns \in Patterns :
        LET pieces == Sentences(text, patterns)
            joined == FlattenSeq(pieces)
        IN /\ Letters(joined) = Letters(text)
           /\ \A i \in DOMAIN pieces : pieces[i] = <<>> => text = <<>>
           /\ /\ Len(patterns) = 1
              /\ text # <<>> /\ text[1] \in {"a", "b"}
              /\ \A i \in DOMAIN text : text[i] # Space
              => joined = text

-----------------------------------------------------------------------------
TextLength == 4

(* The segments are the text, in order and without a gap; a block is kept  *)
(* whole unless one that was kept overlaps it and comes first.             *)
ASSUME BlocksStayWhole ==
    \A matches \in SUBSET Matches(TextLength) :
        LET s == Segments(TextLength, matches)
            kept == Range(Kept(matches))
        IN /\ s[1].at = 1 /\ Past(s[Len(s)]) = TextLength + 1
           /\ \A i \in 1..(Len(s) - 1) : Past(s[i]) = s[i + 1].at
           /\ {[at |-> x.at, len |-> x.len] :
                 x \in {y \in Range(s) : y.protect}} = kept
           /\ \A m \in matches \ kept :
                 \E k \in kept : Before(k, m) /\ m.at < Past(k)
=============================================================================
