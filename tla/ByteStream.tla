----------------------------- MODULE ByteStream -----------------------------
(***************************************************************************)
(* The readable byte stream of a ring buffer (internal/core/               *)
(* readable_stream.go): one goroutine waits for bytes and chunks while     *)
(* others write to the buffer, read from it and reset it.                  *)
(*                                                                         *)
(* Stream makes the channel availableDataSignal, on which nothing sends: a *)
(* reader that finds the buffer empty is left waiting for its timer.  The  *)
(* timeout of a call and the end of its context may come at any time.      *)
(***************************************************************************)
EXTENDS RingBuffer

CONSTANT Ranges   \* the size ranges of the chunks: <<min, max>>

ASSUME RangesAssumption == \A r \in Ranges : r \in Nat \X Nat /\ r[1] <= r[2] /\ r[2] > 0

VARIABLES
    call,     \* the call of the reader: pc, its range, len(chunkData), chunkData[:i]
    given,    \* what the last call returned; Nothing during a call
    stopped

streamVars == <<call, given, stopped>>
allVars == <<vars, streamVars>>

NoCall == [pc |-> "idle", min |-> 0, max |-> 0, len |-> 0, chunk |-> <<>>]

Nothing == [bytes |-> <<>>, err |-> "nil"]

StreamInit ==
    /\ Init
    /\ call = NoCall
    /\ given = Nothing
    /\ stopped = FALSE

In(pc) == call.pc = pc

Give(bytes, err) ==
    /\ given' = [bytes |-> bytes, err |-> err]
    /\ call' = NoCall

\* WaitNext and WaitNextChunk of a stopped stream
WaitStopped ==
    /\ In("idle")
    /\ stopped
    /\ Give(<<>>, "end")
    /\ UNCHANGED <<vars, stopped>>

WaitNext ==
    /\ In("idle")
    /\ ~stopped
    /\ call' = [NoCall EXCEPT !.pc = "byte"]
    /\ given' = Nothing
    /\ UNCHANGED <<vars, stopped>>

\* readSourceByte; when there is no byte the reader waits.
ReadSourceByte ==
    /\ In("byte")
    /\ ReadByte
    /\ IF result'.err = "nil"
       THEN Give(result'.bytes, "nil")
       ELSE call' = [call EXCEPT !.pc = "wait"] /\ UNCHANGED given
    /\ UNCHANGED stopped

\* The condition of the loop
ByteTimeout ==
    /\ In("byte")
    /\ Give(<<>>, "timeout")
    /\ UNCHANGED <<vars, stopped>>

-----------------------------------------------------------------------------
WaitNextChunk(r) ==
    /\ In("idle")
    /\ ~stopped
    /\ call' = [NoCall EXCEPT !.pc = "chunk", !.min = r[1], !.max = r[2], !.len = r[1]]
    /\ given' = Nothing
    /\ UNCHANGED <<vars, stopped>>

\* Mutant: the time is up and the bytes that were read are dropped.
ChunkTimeoutDrops ==
    /\ In("chunk")
    /\ Give(<<>>, "timeout")
    /\ UNCHANGED <<vars, stopped>>

\* The time is up at the beginning of the loop.
ChunkTimeout ==
    /\ In("chunk")
    /\ Give(call.chunk, IF call.chunk = <<>> THEN "timeout" ELSE "nil")
    /\ UNCHANGED <<vars, stopped>>

\* The length of the slice after it has grown
Grown == Least(call.max, 2 * call.len)

\* readSourceBytes: the slice grows when it is full and the source had bytes; the reader waits
\* for the source if the chunk is too short, unless the read itself gave bytes.
ReadSourceBytes ==
    /\ In("chunk")
    /\ Read(call.len - Len(call.chunk))
    /\ LET chunk == call.chunk \o result'.bytes
           ok == result'.err = "nil"
       IN
       \/ /\ ok /\ Len(chunk) >= call.len /\ call.len < call.max
          /\ call' = [call EXCEPT !.chunk = chunk, !.len = Grown]
          /\ UNCHANGED given
       \/ /\ ~ok /\ Len(chunk) < call.min
          /\ call' = [call EXCEPT !.pc = "wait", !.chunk = chunk]
          /\ UNCHANGED given
       \/ /\ IF ok THEN Len(chunk) < call.len \/ call.len >= call.max ELSE Len(chunk) >= call.min
          /\ Give(chunk, "nil")
    /\ UNCHANGED stopped

\* The timer of a waiting reader
WaitTimer ==
    /\ In("wait")
    /\ Give(<<>>, "timeout")
    /\ UNCHANGED <<vars, stopped>>

\* ctx.Done(), at the beginning of a loop or while waiting
Cancelled ==
    /\ ~In("idle")
    /\ Give(<<>>, "cancelled")
    /\ UNCHANGED <<vars, stopped>>

StopStream ==
    /\ stopped' = TRUE
    /\ UNCHANGED <<vars, call, given>>

StreamNext ==
    \/ WaitStopped \/ WaitNext \/ ReadSourceByte \/ ByteTimeout
    \/ \E r \in Ranges : WaitNextChunk(r)
    \/ ReadSourceBytes \/ ChunkTimeout \/ WaitTimer \/ Cancelled
    \/ StopStream
    \/ Next /\ UNCHANGED streamVars

StreamSpec == StreamInit /\ [][StreamNext]_allVars

-----------------------------------------------------------------------------
\* What a call has taken from the buffer and the rest of the buffer are what they were.
KeepsBytes ==
    call' # call /\ ~(call'.pc = "idle" /\ given'.err = "cancelled") =>
        LET taken == IF call'.pc = "idle" THEN given'.bytes ELSE call'.chunk IN
        /\ taken \o Contents' = call.chunk \o Contents
        /\ In("chunk") => Len(taken) <= call.max

\* Every byte that a call takes from the buffer is in what it returns, in order, and the others
\* stay in the buffer, whatever the growth of the slice and the wrap-around of the buffer;
\* unless its context is cancelled.  A chunk is never longer than the end of its range.
StreamKeepsBytes == [][KeepsBytes]_allVars

\* readable_stream.go: "even if there nothing in the source we keep reading": a call that times
\* out waiting for the source finds it empty.
TimeoutMeansEmpty == [][In("wait") /\ call' # call /\ given'.err = "timeout" => IsEmpty]_allVars
=============================================================================
