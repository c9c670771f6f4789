------------------------------- MODULE Buffer -------------------------------
(***************************************************************************)
(* A buffer in the hands of its users: a connection that reads its socket  *)
(* into it, code that appends, code that reads.                            *)
(***************************************************************************)
EXTENDS BufferOps

CONSTANTS
  InitSize,   \* INIT_BUFFER_SIZE, which also is the size of the stack block
  Chunks,     \* what one call may append or one readv may deliver
  MaxSize     \* bound: calls that would make the block larger than this

ASSUME BufferAssumption ==
  /\ InitSize \in Nat \ {0}
  /\ MaxSize \in Nat
  /\ Chunks \subseteq Seq(Byte)

VARIABLES buf,      \* the struct
          overrun   \* a memcpy wrote past the end of the block

vars == <<buf, overrun>>

Init == buf = BufferNew(InitSize) /\ overrun = "no"

\* A change of the buffer within the bound.
Becomes(b) ==
  /\ overrun = "no"
  /\ b.total_size <= MaxSize
  /\ buf' = b
  /\ UNCHANGED overrun

Append_(chunk) == Becomes(BufferAppend(buf, chunk))

\* readv delivers what fits the two blocks.
ReadSocket(chunk) ==
  /\ Len(chunk) <= WriteableSize(buf) + InitSize
  /\ Becomes(SocketRead(buf, chunk))

Take(n) == n \in 1..ReadableSize(buf) /\ Becomes(Retrieve(buf, n))

\* realloc fails: make_room returns without room, and the memcpy that follows
\* writes past the end.  What the program does then is undefined; nothing follows.
Overrun(chunk) ==
  /\ overrun = "no"
  /\ \/ MustGrow(buf, Len(chunk))
     \/ /\ Len(chunk) <= WriteableSize(buf) + InitSize /\ ~Fits(buf, chunk)
        /\ MustGrow(Store(buf, SubSeq(chunk, 1, WriteableSize(buf))), Len(Spill(buf, chunk)))
  /\ overrun' = "yes"
  /\ UNCHANGED buf

Next ==
  \/ \E chunk \in Chunks : Append_(chunk) \/ ReadSocket(chunk) \/ Overrun(chunk)
  \/ \E n \in 1..MaxSize : Take(n)

Spec == Init /\ [][Next]_vars
-----------------------------------------------------------------------------
\* A struct buffer whose indices are in order and whose readable part was written.
WellFormed(b) ==
  /\ b.total_size \in Nat /\ b.readIndex \in Nat /\ b.writeIndex \in Nat
  /\ b.readIndex <= b.writeIndex /\ b.writeIndex <= b.total_size
  /\ b.data \in [0..b.total_size-1 -> Byte \cup {Garbage}]
  /\ \A i \in b.readIndex .. b.writeIndex-1 : b.data[i] \in Byte

(* The indices stay in order inside the block, and nobody ever reads a     *)
(* byte that was not written.                                              *)
TypeOK == WellFormed(buf) /\ overrun \in {"no", "yes"}

(* Bytes leave in the order in which they came: moving them to the front,  *)
(* growing the block and spilling over to the stack block keep the stream. *)
Queue == INSTANCE ByteQueue WITH content <- Content(buf)
ImplementsByteQueue == Queue!Spec

(* The block grows only when the old one could not hold what is readable   *)
(* afterwards: free space at the front is used first.                      *)
GrowsOnlyWhenFull ==
  [][buf'.total_size > buf.total_size => ReadableSize(buf') > buf.total_size]_vars
=============================================================================
