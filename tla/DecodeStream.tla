---------------------------- MODULE DecodeStream ----------------------------
(***************************************************************************)
(* The decoders that are streams over a stream: read_xz                    *)
(* (tools/stream/filter-decode-xz.c) and read_zlib inflating               *)
(* (tools/stream/filter-deflate.c).  Each implements module Stream for the *)
(* decoded bytes, over any source that keeps to it for the encoded ones.   *)
(* Decoded bytes are their offsets.                                        *)
(***************************************************************************)
EXTENDS Integers, Sequences

CONSTANTS
  Total,      (* decoded bytes                                              *)
  Encoded,    (* encoded bytes they come from                               *)
  Yields,     (* kind -> how much a prefix of the encoded bytes decodes to  *)
  Needs,      (* values callers pass for need                               *)
  Chunk,      (* what the buffer grows by: 32K                              *)
  Held,       (* what inflate may owe once it has taken all of its input    *)
  FaultSets   (* what may go wrong together: subsets of Faults              *)

Faults == {"read", "data", "alloc", "cut"}
Kinds  == {"xz", "zlib"}
ASSUME DecodeConstants ==
  /\ Total \in Nat /\ Encoded \in Nat \ {0} /\ Needs \subseteq Nat
  /\ Chunk \in Nat \ {0} /\ Held \in 0..Chunk
  /\ Yields \in [Kinds -> SUBSET [0..Encoded -> 0..Total]]
  /\ \A k \in Kinds : \A f \in Yields[k] : f[Encoded] = Total
  /\ FaultSets \subseteq SUBSET Faults

VARIABLES
  kind, yields, faults,   (* the decoder, the data and what may go wrong    *)
  source,                 (* bytes the source has                           *)
  spos,                   (* bytes consumed from it                         *)
  in_size, in_pos,        (* its window, and how much of it was decoded     *)
  flush, finished,
  out, out_size,          (* the decoded bytes in the buffer, and its size  *)
  consumed,
  dropped,                (* decoded bytes that have left the buffer        *)
  pc, need,               (* of the read under way                          *)
  view, len,              (* what the last read returned                    *)
  failed

static == <<kind, yields, faults, source>>
input  == <<spos, in_size, in_pos, flush>>
output == <<out, out_size, consumed, dropped>>
result == <<view, len>>
vars   == <<static, input, finished, output, pc, need, result, failed>>

Empty == [i \in 0..(0 - 1) |-> 0]

(* open_xz_decoder, open_inflate                                             *)
Init ==
  /\ kind \in Kinds /\ yields \in Yields[kind] /\ faults \in FaultSets
  /\ source \in IF "cut" \in faults THEN 0..Encoded ELSE {Encoded}
  /\ spos = 0 /\ in_size = 0 /\ in_pos = 0 /\ flush = FALSE /\ finished = FALSE
  /\ out = << >> /\ out_size = 0 /\ consumed = 0 /\ dropped = 0
  /\ pc = "idle" /\ need = 0 /\ view = Empty /\ len = 0 /\ failed = FALSE

(* The caller calls read.  Only extract_file reads what is inflated, and it  *)
(* consumes all it was given.                                                *)
Call(consume, n) ==
  /\ pc = "idle"
  /\ consume \in IF kind = "zlib" THEN {len} ELSE 0..len
  /\ consumed' = consumed + consume
  /\ need' = n
  /\ view' = Empty /\ len' = 0
  /\ pc' = "entry"
  /\ UNCHANGED <<static, input, finished, out, out_size, dropped, failed>>

ReturnFrom(b, skip) ==
  /\ len' = Len(b) - skip
  /\ view' = [i \in 0..(Len(b) - skip - 1) |-> b[skip + i + 1]]
  /\ pc' = "idle"

Service ==
  /\ pc = "entry"
  /\ finished \/ consumed + need <= Len(out)
  /\ ReturnFrom(out, consumed)
  /\ UNCHANGED <<static, input, finished, output, need, failed>>

(* Mutant: the bytes that are left are not moved to the front.               *)
Rest_NoMove == SubSeq(out, 1, Len(out) - consumed)

(* What the buffer holds once the bytes that were consumed are gone.         *)
Rest == SubSeq(out, consumed + 1, Len(out))

Compress ==
  /\ pc = "entry"
  /\ ~(finished \/ consumed + need <= Len(out))
  /\ out' = Rest
  /\ dropped' = dropped + consumed
  /\ consumed' = 0
  /\ pc' = "turn"
  /\ UNCHANGED <<static, input, finished, out_size, need, result, failed>>

(* At the loop's condition: on, or back to the caller.                       *)
Enough == Len(out') >= need
LoopOn ==
  \/ ~Enough /\ pc' = "turn" /\ UNCHANGED result
  \/ Enough /\ ReturnFrom(out', 0)

(* goto err: the bytes in the buffer stay for a later read.                  *)
Error ==
  /\ finished' = (finished \/ kind = "zlib")
  /\ failed' = TRUE
  /\ len' = 0 /\ view' = Empty /\ pc' = "idle"

-----------------------------------------------------------------------------
(* The decoder in the library: it takes k bytes of its input and makes n,    *)
(* stopping only for want of input or of room.  The end of an xz stream has  *)
(* bytes of its own, which it does not take while it owes output; inflate    *)
(* may owe what its last input bytes stand for.                              *)
Grown   == IF Len(out) = out_size THEN out_size + Chunk ELSE out_size
Taken   == spos + in_pos
Emitted == dropped + Len(out)

Owed(k, n) == yields[Taken + k] - (Emitted + n)
Decodes(k, n) ==
  /\ Owed(k, n) >= 0
  /\ n = Grown - Len(out) \/ (k = in_size - in_pos /\ Owed(k, n) = 0)
  /\ Taken + k = Encoded =>
       IF kind = "xz" THEN Emitted + n = Total ELSE Owed(k, n) <= Held

(* What xz_dec_run or inflate answers.  inflate may not have seen the end    *)
(* yet when the buffer is just full; told to finish, it fails if it cannot.  *)
Answers(k, n) ==
  LET end == Taken + k = Encoded /\ Emitted + n = Total
  IN  CASE end /\ kind = "zlib" /\ ~flush /\ n = Grown - Len(out) -> {"end", "ok"}
        [] end -> {"end"}
        [] ~end /\ flush -> {"error"}
        [] OTHER -> {"ok"}

Produced(n) == [i \in 1..n |-> Emitted + i - 1]

(* A turn that has input to decode, or is told to finish.                    *)
HasWork == in_pos < in_size \/ flush

Decode ==
  /\ pc = "turn" /\ HasWork
  /\ out_size' = Grown
  /\ \E k \in 0..(in_size - in_pos), n \in 0..(Grown - Len(out)) :
       /\ Decodes(k, n)
       /\ in_pos' = in_pos + k
       /\ out' = out \o Produced(n)
       /\ \E answer \in Answers(k, n) :
            \/ /\ answer = "end"
               /\ finished' = TRUE
               /\ ReturnFrom(out', 0)
               /\ UNCHANGED failed
            \/ answer = "error" /\ Error
            \/ /\ answer = "ok"
               /\ IF n > 0 THEN LoopOn ELSE pc' = "refill" /\ UNCHANGED result
               /\ UNCHANGED <<finished, failed>>
  /\ UNCHANGED <<static, spos, in_size, flush, consumed, dropped, need>>

(* realloc fails, or the data is corrupt: what was decoded before that shows *)
(* is in the buffer already.                                                 *)
DecodeFails ==
  /\ pc = "turn" /\ HasWork
  /\ \/ /\ "alloc" \in faults /\ Grown > out_size
        /\ UNCHANGED <<in_pos, out, out_size>>
     \/ /\ "data" \in faults
        /\ out_size' = Grown
        /\ \E k \in 0..(in_size - in_pos), n \in 0..(Grown - Len(out)) :
             /\ Owed(k, n) >= 0
             /\ in_pos' = in_pos + k
             /\ out' = out \o Produced(n)
  /\ Error
  /\ UNCHANGED <<static, spos, in_size, flush, consumed, dropped, need>>

(* Mutant: a window of one byte is taken for the end.                        *)
SourceEnded_Short == in_size' < 2

Rewound == 0
SourceEnded == in_size' = 0

(* Mutant: the end of the source is not passed on.                           *)
Finish_Never == FALSE

(* The end of the source is the end for read_xz; read_zlib tells the decoder *)
(* to finish.                                                                *)
Finish == kind = "zlib" /\ SourceEnded
Asked  == IF kind = "xz" THEN in_size + 1 ELSE in_size - in_pos + 1

(* source->read of more than is left of its window; a decoder that was told  *)
(* to finish and neither fails nor makes anything breaks the loop instead.   *)
Refill ==
  /\ pc = "refill" \/ (pc = "turn" /\ ~HasWork)
  /\ out' = out
  /\ IF flush
     THEN ReturnFrom(out, 0) /\ UNCHANGED <<input, failed>>
     ELSE /\ spos' = spos + in_pos /\ in_pos' = Rewound
          /\ in_size' \in 0..(source - spos')
          /\ \/ in_size' >= Asked \/ in_size' = source - spos'
             \/ "read" \in faults /\ in_size' = 0
          /\ failed' = (failed \/ (kind = "xz" /\ SourceEnded))
          /\ flush' = Finish
          /\ IF kind = "xz" /\ SourceEnded THEN ReturnFrom(out, 0) ELSE LoopOn
  /\ UNCHANGED <<static, finished, out_size, consumed, dropped, need>>

Next ==
  \/ \E consume \in 0..len, n \in Needs : Call(consume, n)
  \/ Service \/ Compress \/ Decode \/ DecodeFails \/ Refill

Spec == Init /\ [][Next]_vars

(* The program runs on, and the source and the decoder return.               *)
FairSpec == Spec /\ WF_vars(Service \/ Compress \/ Decode \/ Refill)

-----------------------------------------------------------------------------
(* Every variable of the decoder has its type, and the window it decodes     *)
(* from is one the source has.                                               *)
TypeOK ==
  /\ kind \in Kinds /\ yields \in Yields[kind] /\ faults \in FaultSets
  /\ source \in 0..Encoded /\ spos \in 0..source
  /\ in_size \in 0..(source - spos) /\ in_pos \in 0..in_size
  /\ {flush, finished, failed} \subseteq BOOLEAN
  /\ out \in Seq(Nat) /\ Len(out) <= out_size
  /\ consumed \in 0..Len(out) /\ dropped \in Nat /\ need \in Nat /\ len \in Nat
  /\ pc \in {"idle", "entry", "turn", "refill"}

S == INSTANCE Stream WITH
       pos  <- dropped + consumed,
       call <- IF pc = "idle" THEN "idle" ELSE "busy",
       want <- need

(* read_xz and read_zlib implement the stream contract for the decoded       *)
(* bytes: none lost, repeated or out of order across the memmove, the        *)
(* growing of the buffer and the windows of the source, and the end only     *)
(* after the last of them unless the source was cut or something failed.     *)
ImplementsStream == S!Spec

(* Data that is whole never fails to decode: when the source hands out all   *)
(* of it, in whatever windows, no read takes the err exit or the end of the  *)
(* source for the end of the data; inflate, told to finish, always has room  *)
(* for what it owes.                                                         *)
IntactNeverFails == faults = {} => ~failed

(* The loop in read_xz and read_zlib ends: a read returns, at the end of a   *)
(* source that was cut and with need beyond the end too.                     *)
ReadReturns == (pc # "idle") ~> (pc = "idle")
=============================================================================
