----------------------------- MODULE RingBuffer -----------------------------
(***************************************************************************)
(* The ring buffer of internal/core/ring_buffer.go: an array, two cursors  *)
(* and a flag that tells a full buffer from an empty one.  The locked      *)
(* methods are one step each.  The `write` method given to Inox code calls *)
(* write without the lock and without the test of the length that Write    *)
(* makes; MethodWrites are the sequences it is called with, one call at a  *)
(* time.                                                                   *)
(*                                                                         *)
(* A buffer of size zero panics in Read (a division by zero): Size > 0.    *)
(***************************************************************************)
EXTENDS Naturals, Sequences

CONSTANTS
    Size,         \* r.size
    Byte,         \* the values of a byte, 0 among them
    Writes,       \* the arguments of Write
    MethodWrites, \* the contents of the readables passed to the method `write`
    Counts        \* len(p) in the calls of Read

ASSUME SizeAssumption == Size \in Nat \ {0}

ASSUME CallsAssumption ==
    /\ 0 \in Byte
    /\ Writes \subseteq Seq(Byte)
    /\ MethodWrites \subseteq Seq(Byte)
    /\ Counts \subseteq Nat

VARIABLES
    data,         \* [0..Size-1 -> Byte]
    full,
    readCursor,
    writeCursor,
    result        \* what the last call returned

vars == <<data, full, readCursor, writeCursor, result>>

Returns(bytes, n, err) == result' = [bytes |-> bytes, n |-> n, err |-> err]

Least(a, b) == IF a <= b THEN a ELSE b

\* copy(dst[at:], p), when p fits
Copy(dst, at, p) ==
    [i \in DOMAIN dst |-> IF i >= at /\ i < at + Len(p) THEN p[i - at + 1] ELSE dst[i]]

\* data[from:from+n]
Slice(from, n) == [i \in 1..n |-> data[from + i - 1]]

\* n bytes from the cursor, in two copies when they wrap around
FromCursor(n) ==
    LET ahead == Size - readCursor IN
    IF readCursor + n <= Size
    THEN Slice(readCursor, n)
    ELSE Slice(readCursor, ahead) \o Slice(0, n - ahead)

IsEmpty == ~full /\ writeCursor = readCursor

ReadableCount ==
    CASE writeCursor = readCursor -> IF full THEN Size ELSE 0
      [] writeCursor > readCursor -> writeCursor - readCursor
      [] OTHER -> Size - readCursor + writeCursor

Free ==
    CASE writeCursor = readCursor -> IF full THEN 0 ELSE Size
      [] writeCursor < readCursor -> readCursor - writeCursor
      [] OTHER -> Size - writeCursor + readCursor

ReadableBytesCopy ==
    CASE writeCursor = readCursor ->
            IF full THEN Slice(readCursor, Size - readCursor) \o Slice(0, writeCursor) ELSE <<>>
      [] writeCursor > readCursor -> Slice(readCursor, writeCursor - readCursor)
      [] OTHER -> Slice(readCursor, Size - readCursor) \o Slice(0, writeCursor)

Init ==
    /\ data = [i \in 0..(Size - 1) |-> 0]
    /\ full = FALSE
    /\ readCursor = 0
    /\ writeCursor = 0
    /\ result = [bytes |-> <<>>, n |-> 0, err |-> "nil"]

-----------------------------------------------------------------------------
\* The part of read that follows the test of emptiness.
ReadSome(k) ==
    LET n == Least(k, IF writeCursor > readCursor THEN writeCursor - readCursor
                      ELSE Size - readCursor + writeCursor) IN
    /\ readCursor' = (readCursor + n) % Size
    /\ full' = (full /\ writeCursor > readCursor)
    /\ Returns(FromCursor(n), n, "nil")

\* Read: a destination of length 0 returns at once, without the lock.
Read(k) ==
    /\ \/ /\ k = 0
          /\ Returns(<<>>, 0, "nil")
          /\ UNCHANGED <<readCursor, full>>
       \/ /\ k > 0
          /\ IsEmpty
          /\ Returns(<<>>, 0, "empty")
          /\ UNCHANGED <<readCursor, full>>
       \/ /\ k > 0
          /\ ~IsEmpty
          /\ ReadSome(k)
    /\ UNCHANGED <<data, writeCursor>>

ReadByte ==
    /\ \/ /\ IsEmpty
          /\ Returns(<<>>, 0, "empty")
          /\ UNCHANGED <<readCursor, full>>
       \/ /\ ~IsEmpty
          /\ Returns(<<data[readCursor]>>, 1, "nil")
          /\ readCursor' = IF readCursor + 1 = Size THEN 0 ELSE readCursor + 1
          /\ full' = FALSE
    /\ UNCHANGED <<data, writeCursor>>

\* Mutant: the space is computed as in the other case when the cursors are equal.
SpaceWhenEqual ==
    IF writeCursor > readCursor
    THEN Size - writeCursor + readCursor
    ELSE readCursor - writeCursor

\* write: the local readableCount, the number of bytes that can be written
Space ==
    IF writeCursor >= readCursor
    THEN Size - writeCursor + readCursor
    ELSE readCursor - writeCursor

\* The part of write that follows the test of `full`.
WriteSome(q) ==
    LET n == Least(Len(q), Space)
        p == SubSeq(q, 1, n)
        ahead == Size - writeCursor
        wraps == writeCursor >= readCursor /\ ahead < n
        cursor == IF wraps THEN n - ahead ELSE writeCursor + n
    IN
    /\ data' = IF wraps
               THEN Copy(Copy(data, writeCursor, SubSeq(p, 1, ahead)), 0, SubSeq(p, ahead + 1, n))
               ELSE Copy(data, writeCursor, p)
    /\ writeCursor' = IF cursor = Size THEN 0 ELSE cursor
    /\ full' = (writeCursor' = readCursor)
    /\ Returns(<<>>, n, IF n < Len(q) THEN "tooMuch" ELSE "nil")

write(p) ==
    /\ \/ /\ full
          /\ Returns(<<>>, 0, "full")
          /\ UNCHANGED <<data, writeCursor, full>>
       \/ /\ ~full
          /\ WriteSome(p)
    /\ UNCHANGED readCursor

Write(p) ==
    \/ /\ p = <<>>
       /\ Returns(<<>>, 0, "nil")
       /\ UNCHANGED <<data, full, readCursor, writeCursor>>
    \/ /\ p # <<>>
       /\ write(p)

\* Mutant: the flag survives a reset.
ResetKeepsFull ==
    /\ readCursor' = 0
    /\ writeCursor' = 0
    /\ UNCHANGED <<data, full, result>>

Reset ==
    /\ readCursor' = 0
    /\ writeCursor' = 0
    /\ full' = FALSE
    /\ UNCHANGED <<data, result>>

Next ==
    \/ \E k \in Counts : Read(k)
    \/ ReadByte
    \/ \E p \in Writes : Write(p)
    \/ \E p \in MethodWrites : write(p)
    \/ Reset

Spec == Init /\ [][Next]_vars

-----------------------------------------------------------------------------
\* The cursors are positions of the array and `full` is only set when they are equal.
TypeOK ==
    /\ data \in [0..(Size - 1) -> Byte]
    /\ full \in BOOLEAN
    /\ readCursor \in 0..(Size - 1)
    /\ writeCursor \in 0..(Size - 1)
    /\ full => readCursor = writeCursor

\* The bytes of the queue: the ReadableCount positions from the read cursor on,
\* position by position, with no regard to how the code copies them.
Contents == [i \in 1..ReadableCount |-> data[(readCursor + i - 1) % Size]]

\* ReadableBytesCopy, ReadableCount, Free and the space computed by write agree
\* with each other in every position of the cursors, wrapped around or not.
ObserversAgree ==
    /\ ReadableBytesCopy = Contents
    /\ ReadableCount + Free = Size
    /\ ~full => Space = Free

Queue == INSTANCE BoundedQueue
    WITH Capacity <- Size,
         Writes <- Writes \cup MethodWrites,
         Counts <- Counts \cup {1},
         queue <- Contents

\* Reads return the bytes that writes took, each once and in order, and a write takes
\* as many bytes as there is room for: the buffer implements a bounded queue.
ImplementsQueue == Queue!Spec
=============================================================================
