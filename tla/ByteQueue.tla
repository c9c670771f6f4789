----------------------------- MODULE ByteQueue -----------------------------
(***************************************************************************)
(* What a buffer of the event loop promises: bytes come out in the order   *)
(* in which they were put in, none lost, none repeated.                    *)
(***************************************************************************)
EXTENDS Naturals, Sequences

CONSTANT Chunks     \* the byte sequences one call may put in

VARIABLE content    \* the bytes put in and not taken out yet

Init == content = << >>

Put(chunk) == content' = content \o chunk

Take(n) == content' = SubSeq(content, n + 1, Len(content))

Next == (\E chunk \in Chunks : Put(chunk)) \/ (\E n \in 1..Len(content) : Take(n))

Spec == Init /\ [][Next]_content
=============================================================================
