------------------------------ MODULE ByteQueue ------------------------------
(***************************************************************************)
(* What evpp::Buffer promises: a sequence of bytes that grows at the end   *)
(* (and, by a few bytes, at the front) and is consumed from the front.     *)
(***************************************************************************)
EXTENDS Integers, Sequences

CONSTANT Byte

VARIABLE content

Init == content = <<>>

\* Bytes are added at the end, or put before the first.
Put == SubSeq(content', 1, Len(content)) = content
Push == SubSeq(content', Len(content') - Len(content) + 1, Len(content')) = content

\* The first bytes are consumed, or everything but the first is discarded.
Take == content' = SubSeq(content, Len(content) - Len(content') + 1, Len(content))
Cut == content' = SubSeq(content, 1, Len(content'))

Grow == Len(content') >= Len(content) /\ (Put \/ Push)
Drop == Len(content') <= Len(content) /\ (Take \/ Cut)

Next == content' \in Seq(Byte) /\ (Grow \/ Drop)

Spec == Init /\ [][Next]_content
=============================================================================
