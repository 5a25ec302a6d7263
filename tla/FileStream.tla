----------------------------- MODULE FileStream -----------------------------
(***************************************************************************)
(* The buffered stream over a FILE (tools/stream/source-file.c), which     *)
(* implements module Stream.  buf holds the offset in the file of the byte *)
(* at each index, so that a byte in the wrong place shows.                 *)
(***************************************************************************)
EXTENDS Integers

CONSTANTS
  Total,      (* length of the file from where it stands                    *)
  Needs,      (* values callers pass for need                               *)
  Chunk,      (* what the buffer grows by: 32K                              *)
  FileFaults  (* subset of {"read", "alloc"}                                *)

ASSUME FileConstants ==
  Total \in Nat /\ Needs \subseteq Nat /\ Chunk \in Nat \ {0}

VARIABLES
  open,       (* f is not NULL                                              *)
  offset,     (* position of f                                              *)
  buf, bufsz, avail, consumed,
  step,       (* "idle", "entry", "fill"                                    *)
  need,       (* of the read under way                                      *)
  view, len,  (* what the last read returned                                *)
  failed      (* a read has gone to err                                     *)

fileVars == <<open, offset, buf, bufsz, avail, consumed, step, need, view, len, failed>>

Empty == [i \in 0..(0 - 1) |-> 0]

(* What a fresh piece of the buffer holds.                                   *)
Garbage == -1

(* open_file_stream                                                          *)
FileInit ==
  /\ open = TRUE /\ offset = 0
  /\ buf = Empty /\ bufsz = 0 /\ avail = 0 /\ consumed = 0
  /\ step = "idle" /\ need = 0 /\ view = Empty /\ len = 0 /\ failed = FALSE

(* The caller calls read: consumed is advanced.                              *)
Call(consume, n) ==
  /\ step = "idle"
  /\ consume \in 0..len
  /\ consumed' = consumed + consume
  /\ need' = n
  /\ view' = Empty /\ len' = 0
  /\ step' = "entry"
  /\ UNCHANGED <<open, offset, buf, bufsz, avail, failed>>

(* *plen = avail - consumed; return buf + consumed                           *)
ReturnFrom(b, a, c) ==
  /\ len' = a - c
  /\ view' = [i \in 0..(a - c - 1) |-> b[c + i]]
  /\ step' = "idle"

(* The request can be served from the buffer, or nothing more will come.     *)
Service ==
  /\ step = "entry"
  /\ ~open \/ consumed + need <= avail
  /\ ReturnFrom(buf, avail, consumed)
  /\ UNCHANGED <<open, offset, buf, bufsz, avail, consumed, need, failed>>

(* Mutant: the bytes stay where they are.                                    *)
Moved_Not(b, from, n) == b

(* memmove of the bytes left to the front of the buffer.                     *)
Moved(b, from, n) ==
  [i \in 0..(bufsz - 1) |-> IF i < n THEN b[from + i] ELSE b[i]]

Compress ==
  /\ step = "entry"
  /\ open /\ consumed + need > avail
  /\ buf' = IF consumed > 0 /\ consumed < avail
              THEN Moved(buf, consumed, avail - consumed) ELSE buf
  /\ avail' = avail - consumed
  /\ consumed' = 0
  /\ step' = "fill"
  /\ UNCHANGED <<open, offset, bufsz, need, view, len, failed>>

(* Mutant: a full buffer is not grown.                                       *)
Grown_Never == bufsz

(* The size of the buffer once realloc has made room.                        *)
Grown == IF avail = bufsz THEN bufsz + Chunk ELSE bufsz

(* The buffer after fread has put n bytes behind the first avail.            *)
Loaded(n) ==
  [i \in 0..(Grown - 1) |-> IF i \in avail..(avail + n - 1) THEN offset + i - avail
                            ELSE IF i < bufsz THEN buf[i] ELSE Garbage]

(* fread fills the rest of the buffer unless the file ends or an error stops *)
(* it; feof is set only when it asked for more than was left.                *)
Load(n) ==
  /\ buf' = Loaded(n)
  /\ bufsz' = Grown
  /\ avail' = avail + n
  /\ offset' = offset + n
  /\ UNCHANGED <<consumed, need>>

Error ==
  /\ open' = FALSE /\ failed' = TRUE
  /\ len' = 0 /\ view' = Empty /\ step' = "idle"

(* fread returns all it was asked for.                                       *)
FillMore ==
  /\ step = "fill"
  /\ offset + (Grown - avail) <= Total
  /\ Load(Grown - avail)
  /\ IF avail' < need
       THEN step' = "fill" /\ UNCHANGED <<view, len>>
       ELSE ReturnFrom(buf', avail', 0)
  /\ UNCHANGED <<open, failed>>

FillEof ==
  /\ step = "fill"
  /\ offset + (Grown - avail) > Total
  /\ Load(Total - offset)
  /\ open' = FALSE
  /\ ReturnFrom(buf', avail', 0)
  /\ UNCHANGED failed

FillError ==
  /\ step = "fill"
  /\ "read" \in FileFaults
  /\ \E n \in 0..(Grown - avail) : offset + n <= Total /\ Load(n)
  /\ Error

AllocFails ==
  /\ step = "fill"
  /\ "alloc" \in FileFaults
  /\ avail = bufsz
  /\ Error
  /\ UNCHANGED <<offset, buf, bufsz, avail, consumed, need>>

FileNext ==
  \/ \E consume \in 0..len, n \in Needs : Call(consume, n)
  \/ Service \/ Compress
  \/ FillMore \/ FillEof \/ FillError \/ AllocFails

FileSpec == FileInit /\ [][FileNext]_fileVars

(* The program runs on: a read that was begun takes its steps.               *)
FileFairSpec == FileSpec /\ WF_fileVars(Service \/ Compress \/ FillMore \/ FillEof)

-----------------------------------------------------------------------------
(* Every variable of read_file has its type.                                 *)
FileTypes ==
  /\ open \in BOOLEAN /\ failed \in BOOLEAN
  /\ offset \in Nat /\ bufsz \in Nat /\ avail \in Nat /\ consumed \in Nat
  /\ need \in Nat /\ len \in Nat
  /\ step \in {"idle", "entry", "fill"}
  /\ buf \in [0..(bufsz - 1) -> Int]
  /\ view \in [0..(len - 1) -> Int]

(* The caller has consumed what lies before the window in the buffer.        *)
S == INSTANCE Stream WITH
       pos  <- offset - avail + consumed,
       call <- IF step = "idle" THEN "idle" ELSE "busy",
       want <- need

(* read_file implements the stream contract: the window it returns is the    *)
(* bytes that follow what was consumed, in order and none lost or repeated   *)
(* by the memmove and the growing of the buffer, and at least need of them   *)
(* unless the file ends or a read has failed.                                *)
ImplementsStream == S!Spec

(* A read that was called returns.                                           *)
ReadReturns == (step # "idle") ~> (step = "idle")
=============================================================================
