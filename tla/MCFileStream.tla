---------------------------- MODULE MCFileStream ----------------------------
(* FileStream for TLC.  Chunk is 2 and the file has 5 bytes, so that the     *)
(* buffer grows twice, a request may cross it, and the file ends inside and  *)
(* at the end of the buffer.                                                 *)
EXTENDS FileStream
=============================================================================
