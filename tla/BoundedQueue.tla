---------------------------- MODULE BoundedQueue ----------------------------
(***************************************************************************)
(* What a byte buffer of fixed capacity promises: a first-in first-out     *)
(* queue of at most Capacity bytes.  A write takes the longest prefix that *)
(* fits, a read returns the oldest bytes.  The implementation is           *)
(* RingBuffer (internal/core/ring_buffer.go).                              *)
(***************************************************************************)
EXTENDS Naturals, Sequences

CONSTANTS
    Capacity,  \* number of bytes the buffer holds
    Writes,    \* the byte sequences that are written
    Counts     \* the lengths of the destinations of reads

VARIABLES
    queue,   \* the bytes written and not read yet, oldest first
    result   \* what the last call returned: [bytes, n, err]

Least(a, b) == IF a <= b THEN a ELSE b

Init ==
    /\ queue = <<>>
    /\ result = [bytes |-> <<>>, n |-> 0, err |-> "nil"]

Write(p) ==
    LET n == Least(Len(p), Capacity - Len(queue)) IN
    /\ queue' = queue \o SubSeq(p, 1, n)
    /\ result' = [bytes |-> <<>>, n |-> n,
                  err |-> IF p # <<>> /\ Len(queue) = Capacity THEN "full"
                          ELSE IF n < Len(p) THEN "tooMuch" ELSE "nil"]

Read(k) ==
    LET n == Least(k, Len(queue)) IN
    /\ queue' = SubSeq(queue, n + 1, Len(queue))
    /\ result' = [bytes |-> SubSeq(queue, 1, n), n |-> n,
                  err |-> IF k > 0 /\ queue = <<>> THEN "empty" ELSE "nil"]

Reset ==
    /\ queue' = <<>>
    /\ UNCHANGED result

Next ==
    \/ \E p \in Writes : Write(p)
    \/ \E k \in Counts : Read(k)
    \/ Reset

Spec == Init /\ [][Next]_<<queue, result>>
=============================================================================
