----------------------------- MODULE BufferOps -----------------------------
(***************************************************************************)
(* The operations of lib/event-loop/lib/buffer.c on one struct buffer: a   *)
(* block of memory with a read and a write index.  realloc is taken to     *)
(* succeed here; Buffer says what happens when it does not.                *)
(***************************************************************************)
EXTENDS Integers, Sequences

CONSTANTS Byte,      \* the values a byte can have
          Garbage    \* what memory holds before anything is written to it

\* A struct buffer.
Block(data, total, read, write) ==
  [data |-> data, total_size |-> total, readIndex |-> read, writeIndex |-> write]

BufferNew(size) == Block([i \in 0..size-1 |-> Garbage], size, 0, 0)

WriteableSize(b)  == b.total_size - b.writeIndex
ReadableSize(b)   == b.writeIndex - b.readIndex
FrontSpareSize(b) == b.readIndex

\* The bytes between the two indices.
Content(b) == [i \in 1..ReadableSize(b) |-> b.data[b.readIndex + i - 1]]

\* The first branch of make_room: the readable bytes move to the front, one by one.
Moved(b) ==
  [i \in 0..b.total_size-1 |-> IF i < ReadableSize(b) THEN b.data[b.readIndex + i] ELSE b.data[i]]
CompactKeepsRead(b) == Block(Moved(b), b.total_size, b.readIndex, ReadableSize(b))
Compact(b) == Block(Moved(b), b.total_size, 0, ReadableSize(b))

\* The second: realloc by `size' more bytes.
Grow(b, size) ==
  Block([i \in 0..b.total_size+size-1 |-> IF i < b.total_size THEN b.data[i] ELSE Garbage],
        b.total_size + size, b.readIndex, b.writeIndex)

MustGrow(b, size) ==
  WriteableSize(b) < size /\ FrontSpareSize(b) + WriteableSize(b) < size

MakeRoom(b, size) ==
  IF MustGrow(b, size) THEN Grow(b, size)
  ELSE IF WriteableSize(b) >= size THEN b ELSE Compact(b)

\* memcpy to the write index.
Store(b, bytes) ==
  Block([i \in 0..b.total_size-1 |->
           IF i \in b.writeIndex .. b.writeIndex + Len(bytes) - 1
           THEN bytes[i - b.writeIndex + 1] ELSE b.data[i]],
        b.total_size, b.readIndex, b.writeIndex + Len(bytes))

\* buffer_append; buffer_append_char and buffer_append_string are this for one byte
\* and for a string.
BufferAppend(b, bytes) == Store(MakeRoom(b, Len(bytes)), bytes)

\* buffer_socket_read of `bytes': readv fills the writeable part and then a second
\* block on the stack, which is appended.
Fits(b, bytes) == Len(bytes) <= WriteableSize(b)
Spill(b, bytes) == SubSeq(bytes, WriteableSize(b) + 1, Len(bytes))
SocketRead(b, bytes) ==
  IF Fits(b, bytes) THEN Store(b, bytes)
  ELSE BufferAppend(Store(b, SubSeq(bytes, 1, WriteableSize(b))), Spill(b, bytes))

\* What callers do with readable bytes: readIndex += size.
Retrieve(b, size) == Block(b.data, b.total_size, b.readIndex + size, b.writeIndex)
=============================================================================
