--------------------------- MODULE HashedDownload ---------------------------
(***************************************************************************)
(* How download.tmp is filled: extract_file (tools/download/extract.c)     *)
(* reads from read_hash (tools/stream/filter-hash.c), which reads from the *)
(* http stream.  read_hash adds the bytes that are consumed to the digest  *)
(* when the next read is called, out of the buffer of the http stream that *)
(* it was given by the last one.                                           *)
(***************************************************************************)
EXTENDS HttpDownload

(* extract_file reads with need 1.                                           *)
ASSUME HashConstants == 1 \in Needs

VARIABLES
  copy,      (* extract_file: "begin", "copying", "ended" or "failed", or   *)
             (* "other" when the stream has another caller                  *)
  hashed,    (* what went into the digest                                   *)
  tmp        (* what is in download.tmp                                     *)

file == <<copy, hashed, tmp>>

HashInit == Init /\ copy \in {"begin", "other"} /\ hashed = << >> /\ tmp = << >>

(* Mutant: data is the start of the buffer.                                  *)
Pointed_Start(n) == [i \in 1..n |-> buf[i].value]

(* The first n bytes behind data.                                            *)
Pointed(n) == [i \in 1..n |-> buf[consumed + i].value]

read_hash(consume, n) ==
  /\ hashed' = hashed \o Pointed(consume)
  /\ Call(consume, n)

Begin ==
  /\ copy = "begin"
  /\ read_hash(0, 1)
  /\ copy' = "copying"
  /\ UNCHANGED tmp

WritesOut(n) == tmp' = tmp \o [i \in 1..n |-> view[i - 1]]

(* A turn of extract_file: what was read is written, and the next read       *)
(* called; or there was nothing, or the write is cut short.                  *)
extract_file ==
  /\ copy = "copying" /\ pc = "idle"
  /\ \/ /\ len > 0
        /\ WritesOut(len)
        /\ read_hash(len, 1)
        /\ UNCHANGED copy
     \/ /\ len = 0
        /\ copy' = "ended"
        /\ UNCHANGED <<hashed, tmp, vars>>
     \/ /\ len > 0
        /\ \E n \in 0..(len - 1) : WritesOut(n)
        /\ copy' = "failed"
        /\ UNCHANGED <<hashed, vars>>

HashNext ==
  \/ (Step \/ Answer \/ HangUp) /\ UNCHANGED file
  \/ Begin \/ extract_file
  \/ /\ copy = "other"
     /\ \E consume \in 0..len, n \in Needs : Call(consume, n)
     /\ UNCHANGED file

HashSpec ==
  /\ HashInit /\ [][HashNext]_<<vars, file>>
  /\ WF_vars(Step) /\ WF_vars(Answer) /\ WF_<<vars, file>>(Begin \/ extract_file)

(* The digest is that of download.tmp: when extract_file comes back, all     *)
(* that it wrote and nothing else was hashed, wherever in the buffer of the  *)
(* http stream it was.                                                       *)
HashIsOfFile == copy = "ended" => hashed = tmp

(* No bytes are the end for extract_file, whatever they mean to the http     *)
(* stream: download.tmp is then the whole body unless a read has failed.     *)
EndIsWhole ==
  copy = "ended" /\ Honest /\ ~failed => tmp = [i \in 1..Size |-> Body[i].value]
=============================================================================
