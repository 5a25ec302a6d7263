----------------------------- MODULE ZipLayout ------------------------------
(***************************************************************************)
(* What is assumed of a zip file in the proofs about ZipExtract: that it   *)
(* is laid out as the format says, except that it may be cut or refused.   *)
(*                                                                         *)
(* zip.dir is the directory as it was written.  For each header it has     *)
(*   at            the position of the header,                             *)
(*   kept          how many files come before it,                          *)
(*   real          the header with all its lengths,                        *)
(*   long          which extra field holds the long ones, 0 if none does,  *)
(*   fields, fits  how many extra fields are within the length that the    *)
(*                 header gives for them, and whether all of them are,     *)
(*   left          how much of that length each of them leaves.            *)
(***************************************************************************)
EXTENDS ZipExtract

IsSeq(s) == s \in Seq({s[i] : i \in DOMAIN s})

(* The extra fields follow each other; what does not fit is an error of the  *)
(* archive, bytes behind the last field that are too few for another are not. *)
FieldsLaid(h, d) ==
  /\ IsSeq(h.extras) /\ \A i \in DOMAIN h.extras : h.extras[i].size \in Nat
  /\ d.fields \in 0..Len(h.extras)
  /\ d.left[0] = h.extralen
  /\ \A j \in 1..d.fields :
       d.left[j] \in Nat /\ d.left[j - 1] = ExtraSize + h.extras[j].size + d.left[j]
  /\ d.fits => d.fields = Len(h.extras) /\ d.left[d.fields] < ExtraSize
  /\ ~d.fits =>
       /\ d.fields < Len(h.extras)
       /\ ExtraSize <= d.left[d.fields]
       /\ d.left[d.fields] < ExtraSize + h.extras[d.fields + 1].size

(* A length that does not fit into the header is in the zip64 field, at its  *)
(* place among those that do not.                                            *)
LengthsLaid(h, d) ==
  /\ d.real = [k \in DOMAIN h |-> d.real[k]]
  /\ \A k \in DOMAIN h \ Lengths : d.real[k] = h[k]
  /\ \A k \in Lengths : d.real[k] # Big /\ h[k] \in {d.real[k], Big}
  /\ d.long \in 0..d.fields
  /\ d.long = 0 => d.real = h
  /\ \A j \in 1..d.fields : h.extras[j].zip64 => d.long <= j
  /\ d.long # 0 =>
       LET x == h.extras[d.long]
       IN  /\ x.zip64 /\ Len(Long(h)) <= x.size \div WordSize
           /\ \A i \in DOMAIN Long(h) : x.words[i] = d.real[Long(h)[i]]

(* Where the reader goes on behind a header.                                 *)
Behind(h, d) ==
  d.at + HeaderSize + h.name + h.extralen + IF d.fits THEN 0 ELSE ExtraSize

(* Position p is that of the i-th header, or there is no header.             *)
Leads(z, i, p) == IF i <= Len(z.dir) THEN p = z.dir[i].at ELSE p \notin DOMAIN z.entries

(* How many files come before the i-th header.                               *)
Kept(z, i) == IF i <= Len(z.dir) THEN z.dir[i].kept ELSE Len(z.content)

(* The i-th header and the file it is for.  What the reader meets where the  *)
(* extra fields do not fit is no header.                                     *)
HeaderLaid(z, i) ==
  LET d == z.dir[i]
      h == z.entries[d.at]
      f == z.content[d.kept + 1]
  IN  /\ d.at \in DOMAIN z.entries /\ d.fits \in BOOLEAN
      /\ FieldsLaid(h, d) /\ LengthsLaid(h, d)
      /\ IF d.fits THEN Leads(z, i + 1, Behind(h, d)) ELSE Behind(h, d) \notin DOMAIN z.entries
      /\ d.kept \in 0..Len(z.content)
      /\ Kept(z, i + 1) = d.kept + IF h.kind = "file" THEN 1 ELSE 0
      /\ h.kind = "file" =>
           /\ f.path = h.path /\ f.size = d.real.compressed
           /\ d.real.local \in DOMAIN z.locals =>
                f.from = d.real.local + LocalSize + z.locals[d.real.local]

(* The end records whose comment reaches the end of the file.                *)
Endings(z) == {e \in z.ends : e.at + EndSize + e.comment = z.size}

WellMade(z) ==
  /\ IsSeq(z.dir) /\ IsSeq(z.content)
  /\ \A i \in 1..Len(z.dir) : HeaderLaid(z, i)
  /\ z.dir = << >> => z.content = << >>
  /\ z.tidy => \A i \in 1..Len(z.dir) : z.dir[i].fits
  /\ \A e, d \in Endings(z) : e = d
  /\ \A e \in Endings(z) : e.dir \in Nat /\ e.dir # Big /\ Leads(z, 1, e.dir)
  /\ z.dir # << >> => z.dir[1].kept = 0
  /\ z.valid =>
       /\ \E e \in Endings(z) : EndSize + e.comment <= Far
       /\ \A i \in 1..Len(z.dir) :
            LET d == z.dir[i]
            IN  /\ z.entries[d.at].kind # "bad" /\ z.entries[d.at].method # "other"
                /\ d.real.local \in DOMAIN z.locals

Made == \A z \in Archives : WellMade(z)
=============================================================================
