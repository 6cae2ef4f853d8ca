-------------------------- MODULE RingBufferProofs --------------------------
(***************************************************************************)
(* For every size of the buffer, every set of byte sequences and every     *)
(* length of the destinations: the four ways the code counts and copies    *)
(* the readable bytes agree, the buffer is a first-in first-out queue, and *)
(* the stream over it loses no byte.                                       *)
(*                                                                         *)
(* TypeOK is inductive.  The rest of the argument is about positions: the  *)
(* i-th readable byte is at (readCursor + i - 1) % Size, whatever the code *)
(* does at the end of the array, and a write fills the positions that      *)
(* follow the last one.                                                    *)
(***************************************************************************)
EXTENDS ByteStream, SequenceTheorems, TLAPS

\* What is left of a position once it has wrapped around.
Wrap(x) == IF x < Size THEN x ELSE x - Size

\* The n bytes from position `from` on.
Window(from, n) == [i \in 1..n |-> data[Wrap(from + i - 1)]]

-----------------------------------------------------------------------------
(* Positions.                                                              *)

\* The remainder of a position less than twice the size.
LEMMA WrapIsRemainder ==
    ASSUME NEW x \in Nat, x < 2 * Size
    PROVE  x % Size = Wrap(x) /\ Wrap(x) \in 0..(Size - 1)
BY SizeAssumption DEF Wrap

\* Three byte sequences are joined in any grouping.
LEMMA Associative ==
    ASSUME NEW s \in Seq(Byte), NEW t \in Seq(Byte), NEW u \in Seq(Byte)
    PROVE  (s \o t) \o u = s \o (t \o u)
BY SMTT(60)

\* The count is that of the positions between the cursors, and is Size only if full.
LEMMA CountSpans ==
    ASSUME TypeOK
    PROVE  /\ ReadableCount \in 0..Size
           /\ Wrap(readCursor + ReadableCount) = writeCursor
           /\ full <=> ReadableCount = Size
           /\ IsEmpty <=> ReadableCount = 0
           /\ ReadableCount + Free = Size
           /\ ~full => Space = Free
<1>0. readCursor \in 0..(Size - 1) /\ writeCursor \in 0..(Size - 1) /\ full \in BOOLEAN
  BY Zenon DEF TypeOK
<1>1. CASE writeCursor = readCursor
  BY <1>0, <1>1, SizeAssumption DEF ReadableCount, Wrap, Free, Space, IsEmpty
<1>2. CASE writeCursor > readCursor
  <2>1. writeCursor # readCursor /\ ~(writeCursor < readCursor) /\ ~full
    BY <1>0, <1>2, SizeAssumption DEF TypeOK
  <2>2. ReadableCount = writeCursor - readCursor /\ Free = Size - writeCursor + readCursor
    BY <1>2, <2>1, Zenon DEF ReadableCount, Free
  <2>. QED BY <1>0, <1>2, <2>1, <2>2, SizeAssumption DEF Wrap, Space, IsEmpty
<1>3. CASE writeCursor < readCursor
  <2>1. writeCursor # readCursor /\ ~(writeCursor > readCursor) /\ ~full
    BY <1>0, <1>3, SizeAssumption DEF TypeOK
  <2>2. ReadableCount = Size - readCursor + writeCursor /\ Free = readCursor - writeCursor
    BY <1>3, <2>1, Zenon DEF ReadableCount, Free
  <2>. QED BY <1>0, <1>3, <2>1, <2>2, SizeAssumption DEF Wrap, Space, IsEmpty
<1>4. writeCursor = readCursor \/ writeCursor > readCursor \/ writeCursor < readCursor
  BY <1>0, SizeAssumption
<1>. QED BY <1>1, <1>2, <1>3, <1>4, Zenon

\* The bytes of a window that starts in the array and is not longer than it.
LEMMA WindowIs ==
    ASSUME TypeOK, NEW from \in 0..(Size - 1), NEW n \in 0..Size
    PROVE  /\ Window(from, n) \in Seq(Byte)
           /\ Len(Window(from, n)) = n
           /\ \A i \in 1..n : Window(from, n)[i] = data[Wrap(from + i - 1)]
<1>1. \A i \in 1..n : Wrap(from + i - 1) \in 0..(Size - 1)
  BY SizeAssumption DEF Wrap
<1>2. \A i \in 1..n : data[Wrap(from + i - 1)] \in Byte
  BY <1>1, Zenon DEF TypeOK
<1>. QED BY <1>2 DEF Window

\* Contents, with the remainder computed.
LEMMA ContentsIsWindow ==
    ASSUME TypeOK
    PROVE  /\ Contents = Window(readCursor, ReadableCount)
           /\ Contents \in Seq(Byte)
           /\ Len(Contents) = ReadableCount
           /\ \A i \in 1..ReadableCount : Contents[i] = data[Wrap(readCursor + i - 1)]
<1>1. ReadableCount \in 0..Size /\ readCursor \in 0..(Size - 1)
  BY CountSpans, Zenon DEF TypeOK
<1>2. ASSUME NEW i \in 1..ReadableCount
      PROVE  (readCursor + i - 1) % Size = Wrap(readCursor + i - 1)
  <2>1. readCursor + i - 1 \in Nat /\ readCursor + i - 1 < 2 * Size
    BY <1>1, SizeAssumption
  <2>. QED BY <2>1, WrapIsRemainder, Zenon
<1>3. Contents = Window(readCursor, ReadableCount)
  BY <1>2, Zenon DEF Contents, Window
<1>. QED BY <1>1, <1>3, WindowIs, Zenon

\* A slice that stays in the array.
LEMMA SliceIs ==
    ASSUME TypeOK, NEW from \in 0..Size, NEW n \in 0..Size, from + n <= Size
    PROVE  /\ Slice(from, n) \in Seq(Byte)
           /\ Len(Slice(from, n)) = n
           /\ \A i \in 1..n : Slice(from, n)[i] = data[from + i - 1]
<1>1. \A i \in 1..n : data[from + i - 1] \in Byte
  BY SizeAssumption DEF TypeOK
<1>. QED BY <1>1 DEF Slice

\* Two slices, one at the end of the array and one at its beginning, are a window.
LEMMA TwoSlices ==
    ASSUME TypeOK, NEW from \in 0..(Size - 1), NEW n \in 0..from
    PROVE  Slice(from, Size - from) \o Slice(0, n) = Window(from, Size - from + n)
<1>. DEFINE ahead == Size - from
            s == Slice(from, ahead)
            t == Slice(0, n)
            w == Window(from, ahead + n)
<1>0. /\ ahead \in 1..Size /\ from + ahead = Size /\ ahead + n \in 0..Size /\ n \in 0..Size
      /\ from \in 0..Size /\ ahead \in 0..Size /\ from + ahead <= Size
      /\ 0 \in 0..Size /\ 0 + n <= Size
  BY SizeAssumption
<1>1. s \in Seq(Byte) /\ Len(s) = ahead /\ \A i \in 1..ahead : s[i] = data[from + i - 1]
  <2>. HIDE DEF ahead
  <2>. QED BY <1>0, SliceIs, Zenon
<1>2. t \in Seq(Byte) /\ Len(t) = n /\ \A i \in 1..n : t[i] = data[0 + i - 1]
  BY <1>0, SliceIs, Zenon
<1>3. /\ w \in Seq(Byte) /\ Len(w) = ahead + n
      /\ \A i \in 1..(ahead + n) : w[i] = data[Wrap(from + i - 1)]
  BY <1>0, WindowIs, Zenon
<1>. HIDE DEF s, t, w
<1>4. s \o t \in Seq(Byte) /\ Len(s \o t) = ahead + n
  BY <1>1, <1>2, ConcatProperties, ZenonT(60)
<1>5. ASSUME NEW i \in 1..(ahead + n)
      PROVE  (s \o t)[i] = w[i]
  <2>0. (s \o t)[i] = IF i <= ahead THEN s[i] ELSE t[i - ahead]
    <3>1. \A j \in 1..(Len(s) + Len(t)) :
             (s \o t)[j] = IF j <= Len(s) THEN s[j] ELSE t[j - Len(s)]
      BY <1>1, <1>2, ConcatProperties, ZenonT(60)
    <3>. QED BY <1>1, <1>2, <3>1, Zenon
  <2>1. CASE i <= ahead
    <3>1. i \in 1..ahead /\ from + i - 1 = Wrap(from + i - 1)
      BY <1>0, <2>1, SizeAssumption DEF Wrap
    <3>. QED BY <1>1, <1>3, <2>0, <2>1, <3>1, Zenon
  <2>2. CASE i > ahead
    <3>1. i - ahead \in 1..n /\ 0 + (i - ahead) - 1 = Wrap(from + i - 1)
      BY <1>0, <2>2, SizeAssumption DEF Wrap
    <3>2. t[i - ahead] = data[0 + (i - ahead) - 1]
      BY <1>2, <3>1, Zenon
    <3>3. (s \o t)[i] = t[i - ahead]
      <4>1. ~(i <= ahead)
        BY <1>0, <2>2, SizeAssumption
      <4>. QED BY <2>0, <4>1, Zenon
    <3>4. w[i] = data[Wrap(from + i - 1)]
      BY <1>3, Zenon
    <3>. QED BY <3>1, <3>2, <3>3, <3>4, Zenon
  <2>3. i <= ahead \/ i > ahead
    BY <1>0, SizeAssumption
  <2>. QED BY <2>1, <2>2, <2>3, Zenon
<1>. QED BY <1>3, <1>4, <1>5, SeqEqual, Zenon DEF s, t, w

\* One slice that does not wrap is a window.
LEMMA OneSlice ==
    ASSUME TypeOK, NEW from \in 0..(Size - 1), NEW n \in 0..Size, from + n <= Size
    PROVE  Slice(from, n) = Window(from, n)
BY SizeAssumption DEF Slice, Window, Wrap

\* The bytes that read copies, in one part or two.
LEMMA FromCursorIsWindow ==
    ASSUME TypeOK, NEW n \in 0..Size
    PROVE  FromCursor(n) = Window(readCursor, n)
<1>0. readCursor \in 0..(Size - 1)
  BY Zenon DEF TypeOK
<1>1. CASE readCursor + n <= Size
  BY <1>0, <1>1, OneSlice, Zenon DEF FromCursor
<1>2. CASE readCursor + n > Size
  <2>1. /\ n - (Size - readCursor) \in 0..readCursor
        /\ Size - readCursor + (n - (Size - readCursor)) = n
    BY <1>0, <1>2, SizeAssumption
  <2>2. FromCursor(n) = Slice(readCursor, Size - readCursor) \o Slice(0, n - (Size - readCursor))
    BY <1>0, <1>2, SizeAssumption DEF FromCursor
  <2>. QED BY <1>0, <2>1, <2>2, TwoSlices, Zenon
<1>. QED BY <1>0, <1>1, <1>2, SizeAssumption

-----------------------------------------------------------------------------
\* ReadableBytesCopy, ReadableCount, Free and the space that write computes agree in
\* every position of the cursors.
LEMMA ObserversAgreeThere ==
    ASSUME TypeOK
    PROVE  ObserversAgree
<1>0. readCursor \in 0..(Size - 1) /\ writeCursor \in 0..(Size - 1) /\ full \in BOOLEAN
  BY ZenonT(60) DEF TypeOK
<1>1. ReadableBytesCopy = Contents
  <2>1. CASE writeCursor > readCursor
    <3>1. ReadableBytesCopy = Slice(readCursor, ReadableCount) /\ readCursor + ReadableCount <= Size
      BY <1>0, <2>1, SizeAssumption DEF ReadableBytesCopy, ReadableCount
    <3>. QED BY <1>0, <3>1, OneSlice, CountSpans, ContentsIsWindow, Zenon
  <2>2. CASE writeCursor = readCursor /\ ~full
    <3>1. ReadableBytesCopy = <<>> /\ ReadableCount = 0
      BY <1>0, <2>2, SizeAssumption DEF ReadableBytesCopy, ReadableCount
    <3>. QED BY <3>1, ContentsIsWindow, EmptySeq, Zenon
  <2>3. CASE writeCursor < readCursor \/ (writeCursor = readCursor /\ full)
    <3>1. /\ ReadableBytesCopy = Slice(readCursor, Size - readCursor) \o Slice(0, writeCursor)
          /\ ReadableCount = Size - readCursor + writeCursor
          /\ writeCursor \in 0..readCursor
      <4>1. /\ ~(writeCursor > readCursor) /\ writeCursor \in 0..readCursor
            /\ Size = Size - readCursor + readCursor
        BY <1>0, <2>3, SizeAssumption
      <4>2. ReadableBytesCopy = Slice(readCursor, Size - readCursor) \o Slice(0, writeCursor)
        BY <2>3, <4>1, Zenon DEF ReadableBytesCopy
      <4>3. ReadableCount = Size - readCursor + writeCursor
        BY <2>3, <4>1, Zenon DEF ReadableCount
      <4>. QED BY <4>1, <4>2, <4>3, Zenon
    <3>. QED BY <1>0, <3>1, TwoSlices, ContentsIsWindow, SizeAssumption, Zenon
  <2>. QED BY <1>0, <2>1, <2>2, <2>3, SizeAssumption
<1>. QED BY <1>1, CountSpans, Zenon DEF ObserversAgree

-----------------------------------------------------------------------------
(* The methods of the buffer, as steps of a queue.                         *)

\* A read takes n bytes from the front: the rest of the window stays.
LEMMA ReadSomeIs ==
    ASSUME TypeOK, ~IsEmpty, NEW k \in Nat, ReadSome(k), data' = data, writeCursor' = writeCursor
    PROVE  LET n == Least(k, ReadableCount) IN
           /\ n \in 0..ReadableCount
           /\ result' = [bytes |-> Window(readCursor, n), n |-> n, err |-> "nil"]
           /\ TypeOK'
           /\ readCursor' = Wrap(readCursor + n)
           /\ k > 0 => ReadableCount' = ReadableCount - n
<1>. DEFINE n == Least(k, ReadableCount)
<1>0. /\ readCursor \in 0..(Size - 1) /\ writeCursor \in 0..(Size - 1)
      /\ full \in BOOLEAN /\ (full => readCursor = writeCursor)
  BY Zenon DEF TypeOK
<1>1. ReadableCount = IF writeCursor > readCursor THEN writeCursor - readCursor
                      ELSE Size - readCursor + writeCursor
  BY <1>0, SizeAssumption DEF IsEmpty, ReadableCount
<1>2. n \in 0..ReadableCount /\ ReadableCount \in 0..Size /\ n \in 0..Size
  BY CountSpans, SizeAssumption DEF Least
<1>3. /\ readCursor' = (readCursor + n) % Size
      /\ full' = (full /\ writeCursor > readCursor)
      /\ result' = [bytes |-> FromCursor(n), n |-> n, err |-> "nil"]
  BY <1>1, Zenon DEF ReadSome, Returns
<1>. HIDE DEF n
<1>4. readCursor + n \in Nat /\ readCursor + n < 2 * Size
  BY <1>0, <1>2, SizeAssumption
<1>5. readCursor' = Wrap(readCursor + n) /\ readCursor' \in 0..(Size - 1)
  BY <1>3, <1>4, WrapIsRemainder, Zenon
<1>6. full' = FALSE
  <2>1. full => ~(writeCursor > readCursor)
    BY <1>0, SizeAssumption
  <2>. QED BY <1>3, <2>1, Zenon
<1>7. TypeOK'
  BY <1>5, <1>6, Zenon DEF TypeOK
<1>8. ASSUME k > 0 PROVE ReadableCount' = ReadableCount - n
  <2>1. n > 0
    BY <1>2, <1>8, CountSpans DEF n, Least
  <2>. QED BY <1>0, <1>1, <1>2, <1>5, <1>6, <2>1, SizeAssumption, SMTT(30) DEF ReadableCount, Wrap
<1>9. result' = [bytes |-> Window(readCursor, n), n |-> n, err |-> "nil"]
  BY <1>2, <1>3, FromCursorIsWindow, Zenon
<1>. QED BY <1>2, <1>5, <1>7, <1>8, <1>9, Zenon DEF n

\* The window is cut where the read stops.
LEMMA WindowCut ==
    ASSUME TypeOK, NEW n \in 0..ReadableCount, data' = data, readCursor' = Wrap(readCursor + n),
           TypeOK', ReadableCount' = ReadableCount - n
    PROVE  /\ Window(readCursor, n) = SubSeq(Contents, 1, n)
           /\ Contents' = SubSeq(Contents, n + 1, Len(Contents))
<1>0. /\ readCursor \in 0..(Size - 1) /\ readCursor' \in 0..(Size - 1)
      /\ ReadableCount \in 0..Size /\ n \in 0..Size /\ ReadableCount - n \in 0..Size
  <2>1. ReadableCount \in 0..Size
    BY CountSpans, Zenon
  <2>2. readCursor \in 0..(Size - 1) /\ readCursor' \in 0..(Size - 1)
    BY Zenon DEF TypeOK
  <2>. QED BY <2>1, <2>2, SizeAssumption
<1>1. /\ Contents \in Seq(Byte) /\ Len(Contents) = ReadableCount
      /\ \A i \in 1..ReadableCount : Contents[i] = data[Wrap(readCursor + i - 1)]
  BY ContentsIsWindow, Zenon
<1>2. /\ Contents' \in Seq(Byte) /\ Len(Contents') = ReadableCount - n
      /\ \A i \in 1..(ReadableCount - n) : Contents'[i] = data[Wrap(readCursor' + i - 1)]
  <2>1. (/\ Contents \in Seq(Byte) /\ Len(Contents) = ReadableCount
         /\ \A i \in 1..ReadableCount : Contents[i] = data[Wrap(readCursor + i - 1)])'
    BY ContentsIsWindow, PTL
  <2>. QED BY <2>1, Zenon DEF Wrap
<1>3. Window(readCursor, n) = SubSeq(Contents, 1, n)
  <2>1. /\ Window(readCursor, n) \in Seq(Byte) /\ Len(Window(readCursor, n)) = n
        /\ \A i \in 1..n : Window(readCursor, n)[i] = data[Wrap(readCursor + i - 1)]
    BY <1>0, WindowIs, Zenon
  <2>2. /\ SubSeq(Contents, 1, n) \in Seq(Byte) /\ Len(SubSeq(Contents, 1, n)) = n
        /\ \A i \in 1..n : SubSeq(Contents, 1, n)[i] = Contents[i]
    BY <1>0, <1>1, SMTT(30)
  <2>3. \A i \in 1..n : Contents[i] = data[Wrap(readCursor + i - 1)]
    BY <1>0, <1>1, SMTT(30)
  <2>. QED BY <2>1, <2>2, <2>3, SeqEqual, Zenon
<1>4. Contents' = SubSeq(Contents, n + 1, Len(Contents))
  <2>. DEFINE rest == SubSeq(Contents, n + 1, Len(Contents))
              m == ReadableCount - n
  <2>1. /\ rest \in Seq(Byte) /\ Len(rest) = m /\ \A i \in 1..m : rest[i] = Contents[n + i]
    BY <1>0, <1>1, SMTT(30)
  <2>2. ASSUME NEW i \in 1..m
        PROVE  /\ n + i \in 1..ReadableCount
               /\ Wrap(readCursor' + i - 1) = Wrap(readCursor + (n + i) - 1)
    BY <1>0, SizeAssumption DEF Wrap
  <2>3. \A i \in 1..m : Contents'[i] = rest[i]
    BY <1>1, <1>2, <2>1, <2>2, ZenonT(60)
  <2>. HIDE DEF rest, m
  <2>. QED BY <1>2, <2>1, <2>3, SeqEqual, Zenon DEF rest, m
<1>. QED BY <1>3, <1>4, Zenon
\* The distance of a position from the write cursor, going forward.
Ahead(j) == IF j >= writeCursor THEN j - writeCursor ELSE j - writeCursor + Size

\* A write, in one copy or two, changes the n positions that follow the write cursor.
LEMMA WriteSomeIs ==
    ASSUME TypeOK, ~full, NEW q \in Seq(Byte), WriteSome(q), readCursor' = readCursor
    PROVE  LET n == Least(Len(q), Size - ReadableCount) IN
           /\ n \in 0..(Size - ReadableCount) /\ n <= Len(q)
           /\ result' = [bytes |-> <<>>, n |-> n, err |-> IF n < Len(q) THEN "tooMuch" ELSE "nil"]
           /\ TypeOK'
           /\ \A j \in 0..(Size - 1) : data'[j] = IF Ahead(j) < n THEN q[Ahead(j) + 1] ELSE data[j]
           /\ q # <<>> => n > 0 /\ ReadableCount' = ReadableCount + n
<1>. DEFINE n == Least(Len(q), Size - ReadableCount)
            ahead == Size - writeCursor
            wraps == writeCursor >= readCursor /\ ahead < n
            cursor == IF wraps THEN n - ahead ELSE writeCursor + n
            p == SubSeq(q, 1, n)
            p1 == SubSeq(p, 1, ahead)
            p2 == SubSeq(p, ahead + 1, n)
<1>0. /\ readCursor \in 0..(Size - 1) /\ writeCursor \in 0..(Size - 1)
      /\ data \in [0..(Size - 1) -> Byte]
      /\ ahead \in 1..Size /\ Len(q) \in Nat
  BY SizeAssumption DEF TypeOK
<1>1. /\ Space = Size - ReadableCount /\ ReadableCount \in 0..Size
      /\ Space = IF writeCursor >= readCursor THEN Size - writeCursor + readCursor
                                              ELSE readCursor - writeCursor
  BY <1>0, CountSpans, SizeAssumption, SMTT(30) DEF Space
<1>2. n \in 0..(Size - ReadableCount) /\ n <= Len(q) /\ n \in 0..Size
  BY <1>0, <1>1, SizeAssumption DEF Least
<1>3. /\ data' = IF wraps THEN Copy(Copy(data, writeCursor, p1), 0, p2)
                          ELSE Copy(data, writeCursor, p)
      /\ writeCursor' = IF cursor = Size THEN 0 ELSE cursor
      /\ full' = (writeCursor' = readCursor)
      /\ result' = [bytes |-> <<>>, n |-> n, err |-> IF n < Len(q) THEN "tooMuch" ELSE "nil"]
  BY <1>1 DEF WriteSome, Returns
<1>4. p \in Seq(Byte) /\ Len(p) = n /\ \A i \in 1..n : p[i] = q[i]
  <2>. HIDE DEF n
  <2>. QED BY <1>0, <1>2
<1>. HIDE DEF n, p
<1>5. writeCursor' \in 0..(Size - 1)
  BY <1>0, <1>1, <1>2, <1>3, SizeAssumption
<1>6. \A j \in 0..(Size - 1) : data'[j] = IF Ahead(j) < n THEN q[Ahead(j) + 1] ELSE data[j]
  <2>1. CASE ~wraps
    <3>1. ASSUME NEW j \in 0..(Size - 1)
          PROVE  /\ Ahead(j) < n <=> j >= writeCursor /\ j < writeCursor + n
                 /\ Ahead(j) < n => j - writeCursor + 1 = Ahead(j) + 1 /\ Ahead(j) + 1 \in 1..n
      BY <1>0, <1>1, <1>2, <2>1, SizeAssumption, SMTT(30) DEF Ahead
    <3>2. ASSUME NEW j \in 0..(Size - 1)
          PROVE  data'[j] = IF j >= writeCursor /\ j < writeCursor + n
                            THEN p[j - writeCursor + 1] ELSE data[j]
      BY <1>0, <1>3, <1>4, <2>1, Zenon DEF Copy
    <3>. QED BY <1>4, <3>1, <3>2, Zenon
  <2>2. CASE wraps
    <3>1. /\ p1 \in Seq(Byte) /\ Len(p1) = ahead /\ \A i \in 1..ahead : p1[i] = p[i]
          /\ p2 \in Seq(Byte) /\ Len(p2) = n - ahead
          /\ \A i \in 1..(n - ahead) : p2[i] = p[ahead + i]
      <4>1. ahead \in 1..n /\ n \in Nat
        BY <1>0, <1>2, <2>2, SizeAssumption
      <4>. HIDE DEF ahead
      <4>2. p1 \in Seq(Byte) /\ Len(p1) = ahead /\ \A i \in 1..ahead : p1[i] = p[i]
        BY <1>4, <4>1
      <4>3. /\ p2 \in Seq(Byte) /\ Len(p2) = n - ahead
            /\ \A i \in 1..(n - ahead) : p2[i] = p[ahead + i]
        BY <1>4, <4>1, SMTT(30)
      <4>. QED BY <4>2, <4>3, Zenon
    <3>. HIDE DEF p1, p2
    <3>2. ASSUME NEW j \in 0..(Size - 1)
          PROVE  data'[j] = IF j >= 0 /\ j < 0 + (n - ahead) THEN p2[j - 0 + 1]
                            ELSE IF j >= writeCursor /\ j < writeCursor + ahead
                                 THEN p1[j - writeCursor + 1] ELSE data[j]
      BY <1>0, <1>3, <2>2, <3>1, Zenon DEF Copy
    <3>3. ASSUME NEW j \in 0..(Size - 1), j < n - ahead
          PROVE  /\ j < writeCursor /\ j + 1 \in 1..(n - ahead) /\ ahead + (j + 1) = Ahead(j) + 1
                 /\ Ahead(j) < n /\ Ahead(j) + 1 \in 1..n
      BY <1>0, <1>1, <1>2, <2>2, <3>3, SizeAssumption, SMTT(30) DEF Ahead
    <3>4. ASSUME NEW j \in 0..(Size - 1), j >= n - ahead
          PROVE  /\ Ahead(j) < n <=> j >= writeCursor
                 /\ j < writeCursor + ahead
                 /\ Ahead(j) < n => /\ j - writeCursor + 1 = Ahead(j) + 1
                                    /\ Ahead(j) + 1 \in 1..ahead /\ Ahead(j) + 1 \in 1..n
      BY <1>0, <1>1, <1>2, <2>2, <3>4, SizeAssumption, SMTT(30) DEF Ahead
    <3>5. ASSUME NEW j \in 0..(Size - 1), j < n - ahead
          PROVE  data'[j] = IF Ahead(j) < n THEN q[Ahead(j) + 1] ELSE data[j]
      <4>1. data'[j] = p2[j + 1]
        <5>1. j >= 0 /\ j < 0 + (n - ahead) /\ j - 0 + 1 = j + 1
          BY <1>0, <1>2, <3>5, SizeAssumption
        <5>. QED BY <3>2, <5>1, Zenon
      <4>2. p2[j + 1] = p[ahead + (j + 1)]
        BY <3>1, <3>3, <3>5, Zenon
      <4>. QED BY <1>4, <3>3, <3>5, <4>1, <4>2, Zenon
    <3>6. ASSUME NEW j \in 0..(Size - 1), j >= n - ahead
          PROVE  data'[j] = IF Ahead(j) < n THEN q[Ahead(j) + 1] ELSE data[j]
      <4>1. data'[j] = IF Ahead(j) < n THEN p1[Ahead(j) + 1] ELSE data[j]
        BY <1>0, <1>2, <3>2, <3>4, <3>6, SizeAssumption, SMTT(30)
      <4>. QED BY <1>4, <3>1, <3>4, <3>6, <4>1, Zenon
    <3>7. \A j \in 0..(Size - 1) : j < n - ahead \/ j >= n - ahead
      BY <1>0, <1>2, SizeAssumption
    <3>. QED BY <3>5, <3>6, <3>7, Zenon
  <2>. QED BY <2>1, <2>2, Zenon
<1>7. data' \in [0..(Size - 1) -> Byte]
  <2>1. data' = [j \in 0..(Size - 1) |-> data'[j]]
    BY <1>0, <1>3, Zenon DEF Copy
  <2>2. ASSUME NEW j \in 0..(Size - 1) PROVE data'[j] \in Byte
    <3>1. Ahead(j) < n => Ahead(j) + 1 \in 1..Len(q)
      BY <1>0, <1>2, SizeAssumption DEF Ahead
    <3>. QED BY <1>0, <1>6, <3>1, SMTT(30)
  <2>. QED BY <2>1, <2>2, Zenon
<1>8. TypeOK'
  BY <1>0, <1>3, <1>5, <1>7, Zenon DEF TypeOK
<1>9. ASSUME q # <<>> PROVE n > 0 /\ ReadableCount' = ReadableCount + n
  <2>1. n > 0
    BY <1>0, <1>1, <1>9, CountSpans, SizeAssumption DEF n, Least
  <2>2. ReadableCount = IF writeCursor >= readCursor THEN writeCursor - readCursor
                        ELSE Size - readCursor + writeCursor
    BY <1>0, SizeAssumption, SMTT(30) DEF ReadableCount
  <2>3. ReadableCount' = IF writeCursor' = readCursor THEN Size
                         ELSE IF writeCursor' > readCursor THEN writeCursor' - readCursor
                         ELSE Size - readCursor + writeCursor'
    <3>1. full' = (writeCursor' = readCursor)
      BY <1>3, Zenon
    <3>2. CASE writeCursor' = readCursor
      BY <1>0, <1>5, <3>1, <3>2, SizeAssumption, SMTT(30) DEF ReadableCount
    <3>3. CASE writeCursor' > readCursor
      BY <1>0, <1>5, <3>3, SizeAssumption DEF ReadableCount
    <3>4. CASE writeCursor' < readCursor
      BY <1>0, <1>5, <3>4, SizeAssumption, SMTT(30) DEF ReadableCount
    <3>. QED BY <1>0, <1>5, <3>2, <3>3, <3>4, SizeAssumption
  <2>4. writeCursor' = IF cursor = Size THEN 0 ELSE cursor
    BY <1>3, Zenon
  <2>. QED BY <1>0, <1>1, <1>2, <2>1, <2>2, <2>3, <2>4, SizeAssumption, SMTT(30)
<1>. QED BY <1>2, <1>3, <1>6, <1>8, <1>9, Zenon DEF n

\* The window grows by the bytes that were written.
LEMMA WindowGrows ==
    ASSUME TypeOK, TypeOK', NEW q \in Seq(Byte), NEW n \in 0..(Size - ReadableCount), n <= Len(q),
           readCursor' = readCursor, ReadableCount' = ReadableCount + n,
           \A j \in 0..(Size - 1) : data'[j] = IF Ahead(j) < n THEN q[Ahead(j) + 1] ELSE data[j]
    PROVE  Contents' = Contents \o SubSeq(q, 1, n)
<1>. DEFINE p == SubSeq(q, 1, n)
            m == ReadableCount + n
<1>0. /\ readCursor \in 0..(Size - 1) /\ writeCursor \in 0..(Size - 1)
      /\ ReadableCount \in 0..Size /\ Wrap(readCursor + ReadableCount) = writeCursor
      /\ m \in 0..Size
  <2>1. readCursor \in 0..(Size - 1) /\ writeCursor \in 0..(Size - 1)
    BY Zenon DEF TypeOK
  <2>2. ReadableCount \in 0..Size /\ Wrap(readCursor + ReadableCount) = writeCursor
    BY CountSpans, Zenon
  <2>. QED BY <2>1, <2>2, SizeAssumption
<1>1. /\ Contents \in Seq(Byte) /\ Len(Contents) = ReadableCount
      /\ \A i \in 1..ReadableCount : Contents[i] = data[Wrap(readCursor + i - 1)]
  BY ContentsIsWindow, Zenon
<1>2. /\ Contents' \in Seq(Byte) /\ Len(Contents') = m
      /\ \A i \in 1..m : Contents'[i] = data'[Wrap(readCursor + i - 1)]
  <2>1. (/\ Contents \in Seq(Byte) /\ Len(Contents) = ReadableCount
         /\ \A i \in 1..ReadableCount : Contents[i] = data[Wrap(readCursor + i - 1)])'
    BY ContentsIsWindow, PTL
  <2>. QED BY <2>1, Zenon DEF Wrap
<1>3. p \in Seq(Byte) /\ Len(p) = n /\ \A i \in 1..n : p[i] = q[i]
  <2>1. n \in Nat
    BY <1>0, SizeAssumption
  <2>. QED BY <2>1
<1>. HIDE DEF p
<1>4. /\ Contents \o p \in Seq(Byte) /\ Len(Contents \o p) = m
      /\ \A i \in 1..m : (Contents \o p)[i] =
                            IF i <= ReadableCount THEN Contents[i] ELSE p[i - ReadableCount]
  <2>1. /\ Contents \o p \in Seq(Byte) /\ Len(Contents \o p) = Len(Contents) + Len(p)
        /\ \A i \in 1..(Len(Contents) + Len(p)) : (Contents \o p)[i] =
                IF i <= Len(Contents) THEN Contents[i] ELSE p[i - Len(Contents)]
    BY <1>1, <1>3, ConcatProperties, ZenonT(60)
  <2>. QED BY <1>1, <1>3, <2>1, Zenon
<1>5. ASSUME NEW i \in 1..m
      PROVE  Contents'[i] = (Contents \o p)[i]
  <2>. DEFINE j == Wrap(readCursor + i - 1)
  <2>0. /\ j \in 0..(Size - 1)
        /\ Ahead(j) = IF i <= ReadableCount THEN Size - ReadableCount + i - 1
                   ELSE i - ReadableCount - 1
    BY <1>0, SizeAssumption DEF Wrap, Ahead
  <2>1. Contents'[i] = IF Ahead(j) < n THEN q[Ahead(j) + 1] ELSE data[j]
    BY <1>2, <2>0, Zenon
  <2>2. CASE i <= ReadableCount
    <3>1. i \in 1..ReadableCount /\ ~(Ahead(j) < n)
      BY <1>0, <2>0, <2>2, SizeAssumption
    <3>. QED BY <1>1, <1>4, <2>1, <2>2, <3>1, Zenon
  <2>3. CASE ~(i <= ReadableCount)
    <3>1. Ahead(j) < n /\ Ahead(j) + 1 = i - ReadableCount /\ i - ReadableCount \in 1..n
      BY <1>0, <2>0, <2>3, SizeAssumption, SMTT(30)
    <3>. QED BY <1>3, <1>4, <2>1, <2>3, <3>1, Zenon
  <2>. QED BY <2>2, <2>3, Zenon
<1>. QED BY <1>2, <1>4, <1>5, SeqEqual, Zenon DEF p

-----------------------------------------------------------------------------
\* Read, for a destination of k bytes, is a read of the queue.
LEMMA ReadStep ==
    ASSUME TypeOK, NEW k \in Nat, Read(k)
    PROVE  TypeOK' /\ Queue!Read(k)
<1>0. /\ Contents \in Seq(Byte) /\ Len(Contents) = ReadableCount /\ ReadableCount \in Nat
      /\ IsEmpty <=> ReadableCount = 0
  BY ContentsIsWindow, CountSpans, SizeAssumption
<1>1. CASE /\ k = 0 \/ IsEmpty
           /\ UNCHANGED <<data, full, readCursor, writeCursor>>
           /\ result' = [bytes |-> <<>>, n |-> 0, err |-> IF k = 0 THEN "nil" ELSE "empty"]
  <2>1. TypeOK' /\ Contents' = Contents
    BY <1>1, Zenon DEF TypeOK, Contents, ReadableCount
  <2>2. Queue!Least(k, Len(Contents)) = 0
    BY <1>0, <1>1 DEF Queue!Least
  <2>3. SubSeq(Contents, 1, 0) = <<>> /\ SubSeq(Contents, 0 + 1, Len(Contents)) = Contents
    BY <1>0, SubSeqFull, SubSeqEmpty
  <2>4. IsEmpty <=> Contents = <<>>
    BY <1>0, EmptySeq, Zenon
  <2>. QED BY <1>1, <2>1, <2>2, <2>3, <2>4 DEF Queue!Read
<1>2. CASE k > 0 /\ ~IsEmpty /\ ReadSome(k) /\ UNCHANGED <<data, writeCursor>>
  <2>. DEFINE n == Least(k, ReadableCount)
  <2>1. /\ n \in 0..ReadableCount
        /\ result' = [bytes |-> Window(readCursor, n), n |-> n, err |-> "nil"]
        /\ TypeOK'
        /\ readCursor' = Wrap(readCursor + n)
        /\ ReadableCount' = ReadableCount - n
    BY <1>2, ReadSomeIs, Zenon
  <2>. HIDE DEF n
  <2>2. /\ Window(readCursor, n) = SubSeq(Contents, 1, n)
        /\ Contents' = SubSeq(Contents, n + 1, Len(Contents))
    BY <1>2, <2>1, WindowCut, Zenon
  <2>3. n = Queue!Least(k, Len(Contents))
    BY <1>0, Zenon DEF n, Least, Queue!Least
  <2>4. Contents # <<>>
    BY <1>0, <1>2, Zenon
  <2>. QED BY <2>1, <2>2, <2>3, <2>4, Zenon DEF Queue!Read
<1>. QED BY <1>1, <1>2 DEF Read, Returns

\* ReadByte, which moves the cursor in its own way, is a read of one byte.
LEMMA ReadByteStep ==
    ASSUME TypeOK, ReadByte
    PROVE  TypeOK' /\ Queue!Read(1)
<1>0. /\ Contents \in Seq(Byte) /\ Len(Contents) = ReadableCount /\ ReadableCount \in 0..Size
      /\ IsEmpty <=> ReadableCount = 0
  BY ContentsIsWindow, CountSpans, Zenon
<1>1. CASE IsEmpty
  <2>1. /\ UNCHANGED <<data, full, readCursor, writeCursor>>
        /\ result' = [bytes |-> <<>>, n |-> 0, err |-> "empty"]
    BY <1>1, Zenon DEF ReadByte, Returns
  <2>2. TypeOK' /\ Contents' = Contents
    BY <2>1, Zenon DEF TypeOK, Contents, ReadableCount
  <2>3. Contents = <<>> /\ Queue!Least(1, Len(Contents)) = 0
    BY <1>0, <1>1 DEF Queue!Least
  <2>4. SubSeq(Contents, 1, 0) = <<>> /\ SubSeq(Contents, 0 + 1, Len(Contents)) = Contents
    BY <1>0, SubSeqFull, SubSeqEmpty
  <2>. QED BY <2>1, <2>2, <2>3, <2>4 DEF Queue!Read
<1>2. CASE ~IsEmpty
  <2>0. /\ readCursor \in 0..(Size - 1) /\ writeCursor \in 0..(Size - 1)
        /\ full \in BOOLEAN /\ (full => readCursor = writeCursor)
    BY Zenon DEF TypeOK
  <2>1. /\ result' = [bytes |-> <<data[readCursor]>>, n |-> 1, err |-> "nil"]
        /\ readCursor' = IF readCursor + 1 = Size THEN 0 ELSE readCursor + 1
        /\ full' = FALSE
        /\ UNCHANGED <<data, writeCursor>>
    BY <1>2, Zenon DEF ReadByte, Returns
  <2>2. readCursor' = Wrap(readCursor + 1) /\ readCursor' \in 0..(Size - 1)
    BY <2>0, <2>1, SizeAssumption DEF Wrap
  <2>3. TypeOK'
    BY <2>1, <2>2, Zenon DEF TypeOK
  <2>4. 1 \in 0..ReadableCount
    BY <1>0, <1>2, SizeAssumption
  <2>5. ReadableCount' = ReadableCount - 1
    <3>1. ReadableCount = IF writeCursor > readCursor THEN writeCursor - readCursor
                          ELSE Size - readCursor + writeCursor
      BY <1>2, <2>0, SizeAssumption DEF IsEmpty, ReadableCount
    <3>. QED BY <2>0, <2>1, <2>2, <3>1, SizeAssumption DEF ReadableCount, Wrap
  <2>6. /\ Window(readCursor, 1) = SubSeq(Contents, 1, 1)
        /\ Contents' = SubSeq(Contents, 1 + 1, Len(Contents))
    BY <2>1, <2>2, <2>3, <2>4, <2>5, WindowCut, Zenon
  <2>7. Window(readCursor, 1) = <<data[readCursor]>>
    <3>1. 1 \in 0..Size /\ Wrap(readCursor + 1 - 1) = readCursor
      BY <2>0, SizeAssumption DEF Wrap
    <3>2. /\ Window(readCursor, 1) \in Seq(Byte) /\ Len(Window(readCursor, 1)) = 1
          /\ \A i \in 1..1 : Window(readCursor, 1)[i] = data[Wrap(readCursor + i - 1)]
      BY <2>0, <3>1, WindowIs, Zenon
    <3>3. Window(readCursor, 1)[1] = data[readCursor]
      BY <3>1, <3>2
    <3>. QED BY <3>2, <3>3
  <2>8. Queue!Least(1, Len(Contents)) = 1 /\ Contents # <<>>
    BY <1>0, <1>2, <2>4, SizeAssumption DEF Queue!Least
  <2>. QED BY <2>1, <2>3, <2>6, <2>7, <2>8, Zenon DEF Queue!Read
<1>. QED BY <1>1, <1>2, Zenon

\* write keeps the types, even with nothing to write; with bytes it is a write of the queue.
LEMMA WriteSomeStep ==
    ASSUME TypeOK, NEW q \in Seq(Byte), write(q)
    PROVE  TypeOK' /\ (q # <<>> => Queue!Write(q))
<1>0. /\ Contents \in Seq(Byte) /\ Len(Contents) = ReadableCount /\ ReadableCount \in 0..Size
      /\ full <=> ReadableCount = Size
  BY ContentsIsWindow, CountSpans, Zenon
<1>1. CASE full
  <2>1. /\ UNCHANGED <<data, full, readCursor, writeCursor>>
        /\ result' = [bytes |-> <<>>, n |-> 0, err |-> "full"]
    BY <1>1, Zenon DEF write, Returns
  <2>2. TypeOK' /\ Contents' = Contents
    BY <2>1, Zenon DEF TypeOK, Contents, ReadableCount
  <2>3. Queue!Least(Len(q), Size - Len(Contents)) = 0
    BY <1>0, <1>1, SizeAssumption DEF Queue!Least
  <2>4. Contents \o SubSeq(q, 1, 0) = Contents
    BY <1>0, SubSeqEmpty, ConcatEmptySeq
  <2>. QED BY <1>0, <1>1, <2>1, <2>2, <2>3, <2>4, Zenon DEF Queue!Write
<1>2. CASE ~full
  <2>. DEFINE n == Least(Len(q), Size - ReadableCount)
  <2>0. WriteSome(q) /\ readCursor' = readCursor
    BY <1>2, Zenon DEF write
  <2>1. /\ n \in 0..(Size - ReadableCount) /\ n <= Len(q)
        /\ result' = [bytes |-> <<>>, n |-> n, err |-> IF n < Len(q) THEN "tooMuch" ELSE "nil"]
        /\ TypeOK'
        /\ \A j \in 0..(Size - 1) : data'[j] = IF Ahead(j) < n THEN q[Ahead(j) + 1] ELSE data[j]
        /\ q # <<>> => n > 0 /\ ReadableCount' = ReadableCount + n
    BY <1>2, <2>0, WriteSomeIs, Zenon
  <2>2. n = Queue!Least(Len(q), Size - Len(Contents))
    BY <1>0, Zenon DEF Least, Queue!Least
  <2>. HIDE DEF n
  <2>3. ASSUME q # <<>> PROVE Queue!Write(q)
    <3>1. Contents' = Contents \o SubSeq(q, 1, n)
      BY <2>0, <2>1, <2>3, WindowGrows, Zenon
    <3>2. Len(Contents) # Size
      BY <1>0, <1>2, Zenon
    <3>. QED BY <2>1, <2>2, <3>1, <3>2, Zenon DEF Queue!Write
  <2>. QED BY <2>1, <2>3, Zenon
<1>. QED BY <1>1, <1>2, Zenon

\* Write, which returns at once when there is nothing to write, is a write of the queue.
LEMMA WriteStep ==
    ASSUME TypeOK, NEW q \in Seq(Byte), Write(q)
    PROVE  TypeOK' /\ Queue!Write(q)
<1>1. CASE q # <<>>
  BY <1>1, WriteSomeStep, Zenon DEF Write
<1>2. CASE q = <<>>
  <2>1. /\ UNCHANGED <<data, full, readCursor, writeCursor>>
        /\ result' = [bytes |-> <<>>, n |-> 0, err |-> "nil"]
    BY <1>2, Zenon DEF Write, Returns
  <2>2. TypeOK' /\ Contents' = Contents
    BY <2>1, Zenon DEF TypeOK, Contents, ReadableCount
  <2>3. Contents \in Seq(Byte) /\ Len(Contents) \in 0..Size
    BY ContentsIsWindow, CountSpans, Zenon
  <2>4. Queue!Least(Len(q), Size - Len(Contents)) = 0 /\ Len(q) = 0
    BY <1>2, <2>3, SizeAssumption DEF Queue!Least
  <2>5. Contents \o SubSeq(q, 1, 0) = Contents
    BY <2>3, SubSeqEmpty, ConcatEmptySeq
  <2>. QED BY <1>2, <2>1, <2>2, <2>4, <2>5 DEF Queue!Write
<1>. QED BY <1>1, <1>2, Zenon

\* Reset empties the queue.
LEMMA ResetStep ==
    ASSUME TypeOK, Reset
    PROVE  TypeOK' /\ Queue!Reset
<1>0. 0 \in 0..(Size - 1)
  BY SizeAssumption
<1>1. TypeOK'
  BY <1>0, Zenon DEF TypeOK, Reset
<1>2. ReadableCount' = 0
  BY DEF Reset, ReadableCount
<1>3. (Contents \in Seq(Byte) /\ Len(Contents) = ReadableCount)'
  BY <1>1, ContentsIsWindow, PTL
<1>4. Contents' = <<>>
  BY <1>2, <1>3
<1>. QED BY <1>1, <1>4, Zenon DEF Reset, Queue!Reset

\* Initially the buffer is empty.
LEMMA InitStep == Init => TypeOK /\ Queue!Init
<1>. SUFFICES ASSUME Init PROVE TypeOK /\ Queue!Init
  BY Zenon
<1>0. 0 \in 0..(Size - 1)
  BY SizeAssumption
<1>1. TypeOK
  BY <1>0, CallsAssumption, Zenon DEF Init, TypeOK
<1>2. ReadableCount = 0
  BY DEF Init, ReadableCount
<1>3. Contents = <<>>
  BY <1>1, <1>2, ContentsIsWindow
<1>. QED BY <1>1, <1>3, Zenon DEF Init, Queue!Init

\* Every step of the buffer keeps the types, and is a step of the queue unless it is a
\* call of the method `write` with nothing to write.
LEMMA NextStep ==
    ASSUME TypeOK, [Next]_vars
    PROVE  TypeOK' /\ (<<>> \notin MethodWrites => [Queue!Next]_<<Contents, result>>)
<1>1. ASSUME NEW k \in Counts, Read(k)
      PROVE  TypeOK' /\ Queue!Next
  BY <1>1, ReadStep, CallsAssumption, Zenon DEF Queue!Next
<1>2. ASSUME ReadByte
      PROVE  TypeOK' /\ Queue!Next
  BY <1>2, ReadByteStep, Zenon DEF Queue!Next
<1>3. ASSUME NEW p \in Writes, Write(p)
      PROVE  TypeOK' /\ Queue!Next
  BY <1>3, WriteStep, CallsAssumption, Zenon DEF Queue!Next
<1>4. ASSUME NEW p \in MethodWrites, write(p)
      PROVE  TypeOK' /\ (<<>> \notin MethodWrites => Queue!Next)
  BY <1>4, WriteSomeStep, CallsAssumption, Zenon DEF Queue!Next
<1>5. ASSUME Reset
      PROVE  TypeOK' /\ Queue!Next
  BY <1>5, ResetStep, Zenon DEF Queue!Next
<1>6. ASSUME UNCHANGED vars
      PROVE  TypeOK' /\ UNCHANGED <<Contents, result>>
  BY <1>6, Zenon DEF vars, TypeOK, Contents, ReadableCount
<1>. QED BY <1>1, <1>2, <1>3, <1>4, <1>5, <1>6, Zenon DEF Next

-----------------------------------------------------------------------------
\* ReadableCount, Free, ReadableBytesCopy and the space that write computes agree with
\* each other after any sequence of calls, whatever the size of the buffer.
THEOREM BufferObserversAgree == Spec => []ObserversAgree
<1>1. Init => TypeOK
  BY InitStep, Zenon
<1>2. TypeOK /\ [Next]_vars => TypeOK'
  BY NextStep, Zenon
<1>3. TypeOK => ObserversAgree
  BY ObserversAgreeThere, Zenon
<1>. QED BY <1>1, <1>2, <1>3, PTL DEF Spec

\* The array with its two cursors and its flag implements a bounded queue: each byte
\* written is read once, in order.  The method `write` must not be called with nothing to
\* write: on an empty buffer it sets the flag, and stale bytes become readable.
THEOREM BufferIsQueue ==
    ASSUME <<>> \notin MethodWrites
    PROVE  Spec => ImplementsQueue
<1>1. Init => TypeOK /\ Queue!Init
  BY InitStep, Zenon
<1>2. TypeOK /\ [Next]_vars => TypeOK' /\ [Queue!Next]_<<Contents, result>>
  BY NextStep, Zenon
<1>. QED BY <1>1, <1>2, PTL DEF Spec, ImplementsQueue, Queue!Spec

-----------------------------------------------------------------------------
(* The stream.  A chunk that has bytes is as long as the range asks for,   *)
(* so a reader that waits for the source has no byte to lose.              *)

StreamTyped ==
    /\ call \in [pc : {"idle", "byte", "chunk", "wait"}, min : Nat, max : Nat, len : Nat,
                 chunk : Seq(Byte)]
    /\ In("chunk") => /\ call.min <= call.len /\ call.len <= call.max
                      /\ Len(call.chunk) <= call.len
                      /\ call.chunk = <<>> \/ Len(call.chunk) >= call.min
                      /\ \E r \in Ranges : call.max = r[2]
    /\ ~In("chunk") => call.chunk = <<>>

StreamInv == TypeOK /\ StreamTyped

\* A read of the queue splits it: what it returns, then the rest.
LEMMA ReadSplits ==
    ASSUME TypeOK, TypeOK', NEW k \in Nat, Queue!Read(k)
    PROVE  /\ result'.bytes \in Seq(Byte) /\ Len(result'.bytes) <= k
           /\ result'.bytes \o Contents' = Contents
           /\ Contents \in Seq(Byte) /\ Contents' \in Seq(Byte)
           /\ result'.err # "nil" => result'.bytes = <<>>
<1>. DEFINE n == Queue!Least(k, Len(Contents))
<1>1. Contents \in Seq(Byte) /\ Contents' \in Seq(Byte)
  <2>1. (Contents \in Seq(Byte))'
    BY ContentsIsWindow, PTL
  <2>. QED BY <2>1, ContentsIsWindow, Zenon
<1>2. n \in 0..Len(Contents) /\ n <= k /\ n \in Nat
  BY <1>1 DEF Queue!Least
<1>3. /\ Contents' = SubSeq(Contents, n + 1, Len(Contents))
      /\ result' = [bytes |-> SubSeq(Contents, 1, n), n |-> n,
                    err |-> IF k > 0 /\ Contents = <<>> THEN "empty" ELSE "nil"]
  BY Zenon DEF Queue!Read
<1>. HIDE DEF n
<1>4. SubSeq(Contents, 1, n) \in Seq(Byte) /\ Len(SubSeq(Contents, 1, n)) = n
  BY <1>1, <1>2
<1>5. SubSeq(Contents, 1, n) \o SubSeq(Contents, n + 1, Len(Contents)) = Contents
  <2>1. /\ 1 \in 1..(Len(Contents) + 1) /\ n \in (1 - 1)..Len(Contents)
        /\ Len(Contents) \in n..Len(Contents)
    BY <1>1, <1>2
  <2>. QED BY <1>1, <2>1, ConcatAdjacentSubSeq, SubSeqFull, Zenon
<1>6. result'.err # "nil" => result'.bytes = <<>>
  <2>1. Contents = <<>> => n = 0
    BY <1>2
  <2>2. SubSeq(Contents, 1, 0) = <<>>
    BY SubSeqEmpty
  <2>. QED BY <1>3, <2>1, <2>2, Zenon
<1>. QED BY <1>1, <1>2, <1>3, <1>4, <1>5, <1>6, Zenon

\* A step of the stream that leaves the buffer alone.
LEMMA OutsideStep ==
    ASSUME StreamInv, UNCHANGED vars,
           \/ WaitStopped \/ WaitNext \/ ByteTimeout \/ (\E r \in Ranges : WaitNextChunk(r))
           \/ ChunkTimeout \/ WaitTimer \/ Cancelled \/ StopStream
    PROVE  StreamInv' /\ KeepsBytes
<1>0. TypeOK' /\ Contents' = Contents /\ Contents \in Seq(Byte)
  BY ContentsIsWindow, Zenon DEF StreamInv, vars, TypeOK, Contents, ReadableCount
<1>1. <<>> \o Contents = Contents
  BY <1>0, ConcatEmptySeq, Zenon
<1>2. ASSUME NEW b, NEW e, Give(b, e)
      PROVE  StreamTyped' /\ call'.pc = "idle" /\ given'.bytes = b /\ given'.err = e
  BY <1>2, SMTT(30) DEF Give, NoCall, StreamTyped, In
<1>3. CASE WaitStopped
  BY <1>0, <1>2, <1>3, Zenon DEF WaitStopped, StreamInv, StreamTyped, KeepsBytes, In
<1>4. CASE WaitNext
  BY <1>0, <1>1, <1>4, Zenon DEF WaitNext, NoCall, StreamInv, StreamTyped, KeepsBytes, In
<1>5. CASE ByteTimeout
  BY <1>0, <1>2, <1>5, Zenon DEF ByteTimeout, StreamInv, StreamTyped, KeepsBytes, In
<1>6. ASSUME NEW r \in Ranges, WaitNextChunk(r)
      PROVE  StreamInv' /\ KeepsBytes
  <2>1. r[1] \in Nat /\ r[2] \in Nat /\ r[1] <= r[2]
    BY RangesAssumption, Zenon
  <2>2. call' = [pc |-> "chunk", min |-> r[1], max |-> r[2], len |-> r[1], chunk |-> <<>>]
    BY <1>6, Zenon DEF WaitNextChunk, NoCall
  <2>3. StreamTyped'
    BY <2>1, <2>2, SMTT(30) DEF StreamTyped, In
  <2>4. In("idle") /\ call.chunk = <<>>
    BY <1>6, Zenon DEF WaitNextChunk, StreamInv, StreamTyped, In
  <2>5. KeepsBytes
    BY <1>0, <2>2, <2>4, Zenon DEF KeepsBytes, In
  <2>. QED BY <1>0, <2>3, <2>5, Zenon DEF StreamInv
<1>7. CASE ChunkTimeout
  <2>1. Len(call.chunk) <= call.max
    BY <1>7 DEF ChunkTimeout, StreamInv, StreamTyped, In
  <2>. QED BY <1>0, <1>2, <1>7, <2>1, Zenon DEF ChunkTimeout, StreamInv, KeepsBytes
<1>8. CASE WaitTimer
  BY <1>0, <1>2, <1>8, Zenon DEF WaitTimer, StreamInv, StreamTyped, KeepsBytes, In
<1>9. CASE Cancelled
  BY <1>0, <1>2, <1>9, Zenon DEF Cancelled, StreamInv, KeepsBytes
<1>10. CASE StopStream
  BY <1>0, <1>10, Zenon DEF StopStream, StreamInv, StreamTyped, KeepsBytes, In
<1>. QED BY <1>3, <1>4, <1>5, <1>6, <1>7, <1>8, <1>9, <1>10, Zenon

\* readSourceByte returns the byte that it takes.
LEMMA SourceByteStep ==
    ASSUME StreamInv, ReadSourceByte
    PROVE  StreamInv' /\ KeepsBytes /\ Queue!Read(1)
<1>1. TypeOK' /\ Queue!Read(1)
  BY ReadByteStep, Zenon DEF StreamInv, ReadSourceByte
<1>2. /\ result'.bytes \o Contents' = Contents /\ Contents \in Seq(Byte)
      /\ result'.err # "nil" => result'.bytes = <<>>
  BY <1>1, ReadSplits, Zenon DEF StreamInv
<1>3. call.chunk = <<>> /\ In("byte")
  BY Zenon DEF StreamInv, StreamTyped, ReadSourceByte, In
<1>4. call.chunk \o Contents = Contents
  BY <1>2, <1>3, ConcatEmptySeq, Zenon
<1>5. CASE result'.err = "nil"
  <2>1. call' = NoCall /\ given'.bytes = result'.bytes
    BY <1>5 DEF ReadSourceByte, Give
  <2>2. StreamTyped'
    BY <2>1, SMTT(30) DEF NoCall, StreamTyped, In
  <2>3. KeepsBytes
    BY <1>2, <1>3, <1>4, <2>1, Zenon DEF NoCall, KeepsBytes, In
  <2>. QED BY <1>1, <2>2, <2>3, Zenon DEF StreamInv
<1>6. CASE result'.err # "nil"
  BY <1>1, <1>2, <1>3, <1>4, <1>6, Zenon
     DEF ReadSourceByte, StreamInv, StreamTyped, KeepsBytes, In
<1>. QED BY <1>1, <1>5, <1>6, Zenon

\* readSourceBytes adds what it takes to the chunk.
LEMMA SourceBytesStep ==
    ASSUME StreamInv, ReadSourceBytes
    PROVE  StreamInv' /\ KeepsBytes /\ Queue!Read(call.len - Len(call.chunk))
                      /\ call.len - Len(call.chunk) \in 0..call.max
<1>. DEFINE k == call.len - Len(call.chunk)
            chunk == call.chunk \o result'.bytes
<1>0. /\ In("chunk") /\ Read(k)
      /\ call \in [pc : {"idle", "byte", "chunk", "wait"}, min : Nat, max : Nat, len : Nat,
                   chunk : Seq(Byte)]
      /\ call.min <= call.len /\ call.len <= call.max /\ Len(call.chunk) <= call.len
      /\ call.chunk = <<>> \/ Len(call.chunk) >= call.min
  BY Zenon DEF StreamInv, StreamTyped, ReadSourceBytes
<1>1. k \in Nat /\ k \in 0..call.max /\ Len(call.chunk) \in Nat
  BY <1>0
<1>2. TypeOK' /\ Queue!Read(k)
  <2>. HIDE DEF k
  <2>. QED BY <1>0, <1>1, ReadStep, Zenon DEF StreamInv
<1>3. /\ result'.bytes \in Seq(Byte) /\ Len(result'.bytes) <= k
      /\ result'.bytes \o Contents' = Contents
      /\ Contents \in Seq(Byte) /\ Contents' \in Seq(Byte)
      /\ result'.err # "nil" => result'.bytes = <<>>
  <2>. HIDE DEF k
  <2>. QED BY <1>1, <1>2, ReadSplits, Zenon DEF StreamInv
<1>a. call.chunk \in Seq(Byte) /\ call.len \in Nat /\ call.max \in Nat
  BY <1>0
<1>4. chunk \in Seq(Byte) /\ Len(chunk) = Len(call.chunk) + Len(result'.bytes)
  BY <1>a, <1>3, ConcatProperties, ZenonT(60)
<1>5. Len(chunk) <= call.len /\ Len(chunk) <= call.max /\ Len(chunk) \in Nat
  <2>. DEFINE a == Len(call.chunk)
              b == Len(result'.bytes)
              c == Len(chunk)
              len == call.len
              max == call.max
  <2>1. /\ a \in Nat /\ b \in Nat /\ len \in Nat /\ max \in Nat
        /\ c = a + b /\ b <= len - a /\ len <= max
    BY <1>a, <1>0, <1>1, <1>3, <1>4, LenProperties, Zenon
  <2>. HIDE DEF a, b, c, len, max
  <2>2. c <= len /\ c <= max /\ c \in Nat
    BY <2>1
  <2>. QED BY <2>2, Zenon DEF a, b, c, len, max
<1>6. chunk \o Contents' = call.chunk \o Contents
  <2>1. chunk \o Contents' = call.chunk \o (result'.bytes \o Contents')
    BY <1>a, <1>3, Associative, ZenonT(60)
  <2>. QED BY <1>3, <2>1, Zenon
<1>7. result'.err # "nil" => chunk = call.chunk
  BY <1>0, <1>3, ConcatEmptySeq, Zenon
<1>. HIDE DEF chunk
<1>8. CASE /\ Len(chunk) >= call.len /\ call.len < call.max
           /\ call' = [call EXCEPT !.chunk = chunk, !.len = Grown]
  <2>1. Grown \in Nat /\ call.len <= Grown /\ Grown <= call.max
    <3>1. call.len \in Nat /\ call.max \in Nat /\ call.len < call.max
      BY <1>a, <1>8, Zenon
    <3>. QED BY <3>1 DEF Grown, Least
  <2>2. /\ call'.pc = "chunk" /\ call'.chunk = chunk /\ call'.len = Grown
        /\ call'.min = call.min /\ call'.max = call.max
    BY <1>0, <1>8, Zenon DEF In
  <2>3. StreamTyped'
    <3>1. call' \in [pc : {"idle", "byte", "chunk", "wait"}, min : Nat, max : Nat, len : Nat,
                     chunk : Seq(Byte)]
      BY <1>0, <1>4, <1>8, <2>1, Zenon
    <3>2. /\ call.min <= Grown /\ Grown <= call.max /\ Len(chunk) <= Grown
          /\ Len(chunk) >= call.min
      BY <1>0, <1>5, <1>8, <2>1, SMTT(30)
    <3>3. \E r \in Ranges : call.max = r[2]
      BY <1>0, Zenon DEF StreamInv, StreamTyped
    <3>. QED BY <2>2, <3>1, <3>2, <3>3, Zenon DEF StreamTyped, In
  <2>4. KeepsBytes
    BY <1>5, <1>6, <2>2, Zenon DEF KeepsBytes
  <2>. QED BY <1>1, <1>2, <2>3, <2>4, Zenon DEF StreamInv
<1>9. CASE /\ result'.err # "nil" /\ Len(chunk) < call.min
           /\ call' = [call EXCEPT !.pc = "wait", !.chunk = chunk]
  <2>1. chunk = <<>>
    BY <1>0, <1>1, <1>7, <1>9
  <2>2. call'.pc = "wait" /\ call'.chunk = chunk
    BY <1>0, <1>9, Zenon
  <2>3. StreamTyped'
    BY <1>0, <1>4, <1>9, <2>1, <2>2, Zenon DEF StreamTyped, In
  <2>4. KeepsBytes
    BY <1>5, <1>6, <2>2, Zenon DEF KeepsBytes
  <2>. QED BY <1>1, <1>2, <2>3, <2>4, ZenonT(60) DEF StreamInv
<1>10. CASE Give(chunk, "nil")
  <2>1. StreamTyped' /\ call'.pc = "idle" /\ given'.bytes = chunk
    BY <1>10 DEF Give, NoCall, StreamTyped, In
  <2>2. KeepsBytes
    BY <1>5, <1>6, <2>1, Zenon DEF KeepsBytes
  <2>. QED BY <1>1, <1>2, <2>1, <2>2, Zenon DEF StreamInv
<1>11. \/ /\ Len(chunk) >= call.len /\ call.len < call.max
          /\ call' = [call EXCEPT !.chunk = chunk, !.len = Grown]
       \/ /\ result'.err # "nil" /\ Len(chunk) < call.min
          /\ call' = [call EXCEPT !.pc = "wait", !.chunk = chunk]
       \/ Give(chunk, "nil")
  BY Zenon DEF ReadSourceBytes, chunk
<1>. QED BY <1>8, <1>9, <1>10, <1>11, Zenon

\* Every step of the stream keeps the invariant and the bytes.
LEMMA StreamStep ==
    ASSUME StreamInv, [StreamNext]_allVars
    PROVE  StreamInv' /\ (StreamNext => KeepsBytes)
<1>1. CASE Next /\ UNCHANGED streamVars
  <2>1. TypeOK' /\ call' = call
    BY <1>1, NextStep, Zenon DEF StreamInv, streamVars
  <2>. QED BY <2>1, Zenon DEF StreamInv, StreamTyped, KeepsBytes, In
<1>2. CASE UNCHANGED allVars
  <2>1. TypeOK' /\ call' = call
    BY <1>2, Zenon DEF StreamInv, allVars, vars, streamVars, TypeOK
  <2>. QED BY <2>1, ZenonT(60) DEF StreamInv, StreamTyped, KeepsBytes, In
<1>3. CASE \/ WaitStopped \/ WaitNext \/ ByteTimeout \/ (\E r \in Ranges : WaitNextChunk(r))
           \/ ChunkTimeout \/ WaitTimer \/ Cancelled \/ StopStream
  <2>1. UNCHANGED vars
    BY <1>3, Zenon DEF WaitStopped, WaitNext, ByteTimeout, WaitNextChunk, ChunkTimeout, WaitTimer,
                Cancelled, StopStream
  <2>. QED BY <1>3, <2>1, OutsideStep, Zenon
<1>. QED BY <1>1, <1>2, <1>3, SourceByteStep, SourceBytesStep, Zenon DEF StreamNext

\* The invariant holds initially and in every step.
LEMMA StreamInductive == StreamSpec => []StreamInv
<1>1. StreamInit => StreamInv
  BY InitStep DEF StreamInit, NoCall, StreamInv, StreamTyped, In
<1>2. StreamInv /\ [StreamNext]_allVars => StreamInv'
  BY StreamStep, Zenon
<1>. QED BY <1>1, <1>2, PTL DEF StreamSpec

\* The observers of the buffer agree while a stream reads from it, too.
THEOREM StreamObserversAgree == StreamSpec => []ObserversAgree
<1>1. StreamInv => ObserversAgree
  BY ObserversAgreeThere, Zenon DEF StreamInv
<1>. QED BY <1>1, StreamInductive, PTL

\* WaitNext and WaitNextChunk return every byte they take, in order, and leave the others
\* in the buffer, for every size of the buffer and every size range of the chunks.
THEOREM StreamLosesNoByte == StreamSpec => StreamKeepsBytes
<1>1. StreamInv /\ [StreamNext]_allVars => [KeepsBytes]_allVars
  BY StreamStep, Zenon
<1>. QED BY <1>1, StreamInductive, PTL DEF StreamSpec, StreamKeepsBytes

\* With a stream reading from it the buffer still implements a bounded queue, one whose
\* readers read as many bytes as a chunk can have.
THEOREM StreamedBufferIsQueue ==
    ASSUME <<>> \notin MethodWrites, \A r \in Ranges : 0..r[2] \subseteq Counts
    PROVE  StreamSpec => ImplementsQueue
<1>1. StreamInit => Queue!Init
  BY InitStep, Zenon DEF StreamInit
<1>2. StreamInv /\ [StreamNext]_allVars => [Queue!Next]_<<Contents, result>>
  <2>. SUFFICES ASSUME StreamInv, [StreamNext]_allVars
                PROVE  [Queue!Next]_<<Contents, result>>
    BY Zenon
  <2>1. CASE Next /\ UNCHANGED streamVars
    BY <2>1, NextStep, Zenon DEF StreamInv
  <2>2. CASE UNCHANGED vars
    BY <2>2, Zenon DEF vars, Contents, ReadableCount
  <2>3. CASE ReadSourceByte
    BY <2>3, SourceByteStep, Zenon DEF Queue!Next
  <2>4. CASE ReadSourceBytes
    <3>1. \E r \in Ranges : call.max = r[2]
      BY <2>4, Zenon DEF ReadSourceBytes, StreamInv, StreamTyped
    <3>2. call.len - Len(call.chunk) \in Counts
      BY <2>4, <3>1, SourceBytesStep, Zenon
    <3>. QED BY <2>4, <3>2, SourceBytesStep, Zenon DEF Queue!Next
  <2>5. CASE \/ WaitStopped \/ WaitNext \/ ByteTimeout \/ (\E r \in Ranges : WaitNextChunk(r))
             \/ ChunkTimeout \/ WaitTimer \/ Cancelled \/ StopStream
    BY <2>2, <2>5, Zenon
       DEF WaitStopped, WaitNext, ByteTimeout, WaitNextChunk, ChunkTimeout, WaitTimer, Cancelled,
           StopStream
  <2>. QED BY <2>1, <2>2, <2>3, <2>4, <2>5, Zenon DEF StreamNext, allVars
<1>. QED BY <1>1, <1>2, StreamInductive, PTL DEF StreamSpec, ImplementsQueue, Queue!Spec

=============================================================================
