---------------------------- MODULE MCByteStream ----------------------------
(* Small instances of ByteStream.                                          *)
EXTENDS ByteStream, SequencesExt

CONSTANT MaxLen   \* longest sequence that is written and read

AllWrites == SeqOf(Byte, MaxLen)
NonEmptyWrites == AllWrites \ {<<>>}
AllCounts == 0..MaxLen
TheRanges == {<<0, 1>>, <<1, 3>>, <<2, 3>>}
=============================================================================
