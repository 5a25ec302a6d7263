--------------------------- MODULE FileReadProofs ---------------------------
(***************************************************************************)
(* What reads a FILE: read_file, and the zip container that shares its     *)
(* FILE with the streams it opens.                                         *)
(*                                                                         *)
(* read_file implements the stream contract for every file length, every   *)
(* request and every buffer increment.  The invariant says where each byte *)
(* of the buffer is: index i holds the byte at offset - avail + i of the   *)
(* file.  It is needed because the contract speaks of the window only,     *)
(* while the memmove of one call decides what a later call returns.        *)
(*                                                                         *)
(* What is unpacked of a zip file is stated for all files that are laid    *)
(* out as ZipLayout says.                                                  *)
(***************************************************************************)
EXTENDS FileStream, ZipLayout, TLAPS

USE SMTT(30)

-----------------------------------------------------------------------------
(* read_file                                                                 *)

(* The window lies inside the buffer and the buffer inside the file.         *)
Bounds ==
  /\ consumed <= avail /\ avail <= bufsz
  /\ avail <= offset /\ offset <= Total
  /\ len <= avail - consumed
  /\ step # "idle" => len = 0 /\ view = Empty
  /\ step = "fill" => open /\ consumed = 0
  /\ ~open /\ ~failed => offset = Total

InOrder == \A i \in 0..(avail - 1) : buf[i] = offset - avail + i

IInv == FileTypes /\ Bounds /\ InOrder

LEMMA InitIInv == FileInit => IInv
<1> SUFFICES ASSUME FileInit PROVE IInv
  OBVIOUS
<1>1. Empty \in [0..(0 - 1) -> Int]
  BY DEF Empty
<1>2. FileTypes
  BY <1>1, ZenonT(30) DEF FileInit, FileTypes
<1>3. Bounds /\ InOrder
  BY FileConstants DEF FileInit, Bounds, InOrder
<1>4. QED
  BY <1>2, <1>3 DEF IInv

(* A buffer b of z bytes whose first a are the file's, up to offset f.       *)
Good(b, z, a, f) ==
  /\ b \in [0..(z - 1) -> Int] /\ z \in Nat
  /\ a \in Nat /\ a <= z /\ a <= f
  /\ f \in Nat /\ f <= Total
  /\ \A i \in 0..(a - 1) : b[i] = f - a + i

LEMMA Arith ==
  ASSUME NEW a \in Nat, NEW f \in Nat
  PROVE  0 <= a /\ a - 0 = a /\ f - a + 0 = f - a /\ f - a + a = f
OBVIOUS

LEMMA GoodFacts ==
  ASSUME NEW b, NEW z, NEW a, NEW f, Good(b, z, a, f)
  PROVE  /\ a - 0 = a /\ f - a + 0 = f - a /\ f - a + a = f /\ a \in 0..Total
         /\ [i \in 0..(a - 0 - 1) |-> b[0 + i]] = S!Window(f - a, a)
         /\ [i \in 0..(a - 0 - 1) |-> b[0 + i]] \in [0..(a - 1) -> Int]
<1>1. a \in Nat /\ f \in Nat /\ f - a \in Nat
  BY DEF Good
<1>2. \A i \in 0..(a - 1) : b[i] = (f - a) + i
  BY DEF Good
<1>3. a - 0 = a /\ f - a + 0 = f - a /\ f - a + a = f /\ a \in 0..Total
  BY <1>1, FileConstants DEF Good
<1>4. QED
  BY <1>1, <1>2, <1>3 DEF S!Window

(* What fread of n bytes does to the buffer.                                 *)
Filled ==
  /\ Good(buf', bufsz', avail', offset')
  /\ consumed' = 0 /\ need' = need /\ need \in Nat
  /\ offset' - avail' = offset - avail + consumed

LEMMA LoadFills ==
  ASSUME IInv, step = "fill", NEW n \in Nat, Load(n),
         n <= Grown - avail, offset + n <= Total
  PROVE  Filled
BY FileConstants DEF IInv, FileTypes, Bounds, InOrder, Filled, Good, Load, Loaded, Grown, Garbage

(* A read that returns the whole buffer.                                     *)
LEMMA ReturnFills ==
  ASSUME Filled, ReturnFrom(buf', avail', 0)
  PROVE  /\ len' = avail' /\ view' \in [0..(len' - 1) -> Int]
         /\ view' = S!Window(offset' - avail', avail')
         /\ step' = "idle"
BY GoodFacts DEF Filled, ReturnFrom

(* Filled, and a read that goes on or ends, give the invariant again.        *)
LEMMA FilledIInv ==
  ASSUME Filled, step' \in {"idle", "fill"}, open' \in BOOLEAN, failed' \in BOOLEAN,
         len' \in Nat, len' <= avail', view' \in [0..(len' - 1) -> Int],
         step' = "fill" => open' /\ len' = 0 /\ view' = Empty,
         ~open' /\ ~failed' => offset' = Total
  PROVE  IInv'
<1>1. FileTypes'
  BY ZenonT(30) DEF FileTypes, Filled, Good
<1>a. avail' - 0 = avail' /\ consumed' = 0
  BY GoodFacts, ZenonT(40) DEF Filled
<1>b. avail' - consumed' = avail'
  BY <1>a, Zenon
<1>2. avail' \in Nat /\ 0 <= avail'
  BY Arith DEF Filled, Good
<1>3. Bounds'
  BY <1>b, <1>2, ZenonT(30) DEF Bounds, Filled, Good
<1>4. InOrder'
  BY ZenonT(30) DEF InOrder, Filled, Good
<1>5. QED
  BY <1>1, <1>3, <1>4 DEF IInv

LEMMA StepIInv == IInv /\ [FileNext]_fileVars => IInv'
<1> SUFFICES ASSUME IInv, [FileNext]_fileVars PROVE IInv'
  OBVIOUS
<1>e. Empty \in [0..(0 - 1) -> Int]
  BY DEF Empty
<1>1. CASE UNCHANGED fileVars
  BY <1>1 DEF fileVars, IInv, FileTypes, Bounds, InOrder
<1>2. ASSUME NEW c \in 0..len, NEW n \in Needs, Call(c, n) PROVE IInv'
  BY <1>2, <1>e, FileConstants DEF Call, IInv, FileTypes, Bounds, InOrder
<1>3. CASE Service
  BY <1>3 DEF Service, ReturnFrom, IInv, FileTypes, Bounds, InOrder
<1>4. CASE Compress
  BY <1>4 DEF Compress, Moved, IInv, FileTypes, Bounds, InOrder
<1>5. step = "fill" => open /\ consumed = 0 /\ len = 0 /\ view = Empty /\ failed \in BOOLEAN
  BY DEF IInv, FileTypes, Bounds
<1>6. CASE FillMore
  <2>1. Filled
    BY <1>6, LoadFills, FileConstants DEF FillMore, Grown, IInv, FileTypes, Bounds
  <2>2. avail' \in Nat /\ 0 <= avail' /\ avail' <= avail'
    BY <2>1 DEF Filled, Good
  <2>3. CASE avail' < need
    BY <1>6, <2>1, <2>2, <2>3, <1>5, <1>e, FilledIInv DEF FillMore
  <2>4. CASE ~(avail' < need)
    BY <1>6, <2>1, <2>2, <2>4, <1>5, ReturnFills, FilledIInv DEF FillMore
  <2>5. QED
    BY <2>3, <2>4
<1>7. CASE FillEof
  <2>1. Total - offset \in Nat /\ Total - offset <= Grown - avail
    BY <1>7, FileConstants DEF FillEof, Grown, IInv, FileTypes, Bounds
  <2>2. Filled /\ offset' = Total
    BY <1>7, <2>1, LoadFills, FileConstants DEF FillEof, Load, IInv, FileTypes
  <2>3. avail' \in Nat /\ avail' <= avail'
    BY <2>2 DEF Filled, Good
  <2>4. QED
    BY <1>7, <2>2, <2>3, <1>5, ReturnFills, FilledIInv, ZenonT(30) DEF FillEof
<1>8. CASE FillError
  <2>1. PICK n \in 0..(Grown - avail) : offset + n <= Total /\ Load(n)
    BY <1>8 DEF FillError
  <2>2. n \in Nat /\ n <= Grown - avail
    BY <2>1, FileConstants DEF Grown, IInv, FileTypes, Bounds
  <2>3. Filled
    BY <1>8, <2>1, <2>2, LoadFills DEF FillError
  <2>4. avail' \in Nat /\ 0 <= avail'
    BY <2>3 DEF Filled, Good
  <2>5. QED
    BY <1>8, <2>3, <2>4, <1>e, FilledIInv, ZenonT(30) DEF FillError, Error
<1>9. CASE AllocFails
  BY <1>9, <1>e, ZenonT(30) DEF AllocFails, Error, IInv, FileTypes, Bounds, InOrder
<1>10. QED
  BY <1>1, <1>2, <1>3, <1>4, <1>6, <1>7, <1>8, <1>9 DEF FileNext

(* A fill that returns is the contract's Return.                             *)
LEMMA FillReturns ==
  ASSUME Filled, step = "fill", ReturnFrom(buf', avail', 0),
         avail' >= need \/ offset' = Total, failed' = failed
  PROVE  S!Next
<1>1. /\ offset' - avail' + consumed' = offset' - avail'
      /\ offset' - avail' + avail' = offset' /\ offset' <= Total /\ avail' \in 0..Total
      /\ offset - avail + consumed = offset' - avail'
  <2>a. avail' \in 0..Total
    BY GoodFacts, ZenonT(30) DEF Filled
  <2>b. offset' - avail' + 0 = offset' - avail' /\ offset' - avail' + avail' = offset'
    BY Arith, ZenonT(40) DEF Filled, Good
  <2>1. offset' - avail' + 0 = offset' - avail' /\ offset' - avail' + avail' = offset' /\ avail' \in 0..Total
    BY <2>a, <2>b, Zenon
  <2>2. offset' - avail' + consumed' = offset' - avail'
    BY <2>1, Zenon DEF Filled
  <2>3. QED
    BY <2>1, <2>2, Zenon DEF Filled, Good
<1>2. /\ len' = avail' /\ view' = S!Window(offset' - avail', avail') /\ step' = "idle"
  BY ReturnFills
<1>3. S!Return(avail')
  BY <1>1, <1>2 DEF S!Return, Filled
<1>4. QED
  BY <1>1, <1>3 DEF S!Next

(* A fill that fails is the contract's Fail.                                 *)
LEMMA FillFails ==
  ASSUME IInv, step = "fill", Error, offset' - avail' + consumed' = offset - avail + consumed,
         need' = need
  PROVE  S!Next
<1>1. offset' - avail' + consumed' \in Int /\ offset' - avail' + consumed' + 0 <= Total
  BY FileConstants DEF IInv, FileTypes, Bounds
<1>2. Empty = S!Window(offset' - avail' + consumed', 0)
  BY <1>1 DEF Empty, S!Window
<1>3. S!Fail(0)
  BY <1>1, <1>2 DEF Error, S!Fail
<1>4. QED
  BY <1>3, FileConstants DEF S!Next

(* Every step of read_file is a step of the contract, or is inside one.      *)
LEMMA StepRefines == IInv /\ [FileNext]_fileVars => [S!Next]_(S!svars)
<1> SUFFICES ASSUME IInv, [FileNext]_fileVars PROVE [S!Next]_(S!svars)
  OBVIOUS
<1>1. CASE UNCHANGED fileVars
  BY <1>1 DEF fileVars, S!svars
<1>2. ASSUME NEW c \in 0..len, NEW n \in Needs, Call(c, n) PROVE S!Next
  <2>1. Empty = S!Window(0, 0)
    BY DEF Empty, S!Window
  <2>2. S!Call(c, n)
    BY <1>2, <2>1, FileConstants DEF Call, S!Call, IInv, FileTypes
  <2>3. QED
    BY <2>2 DEF S!Next
<1>3. CASE Service
  <2>1. offset - avail \in Nat /\ consumed <= avail
    BY DEF IInv, FileTypes, Bounds
  <2>2. /\ len' = avail - consumed
        /\ view' = S!Window(offset - avail + consumed, avail - consumed)
    <3>1. \A i \in 0..(avail - 1) : buf[i] = (offset - avail) + i
      BY DEF IInv, InOrder
    <3>2. avail \in Nat /\ consumed \in Nat
      BY DEF IInv, FileTypes
    <3>3. [i \in 0..(avail - consumed - 1) |-> buf[consumed + i]]
            = S!Window(offset - avail + consumed, avail - consumed)
      BY <2>1, <3>1, <3>2 DEF S!Window
    <3>4. QED
      BY <1>3, <3>3 DEF Service, ReturnFrom
  <2>3. /\ avail - consumed \in 0..Total
        /\ offset - avail + consumed + (avail - consumed) = offset /\ offset <= Total
        /\ avail - consumed >= need \/ offset = Total \/ failed
    BY <1>3, FileConstants DEF Service, IInv, FileTypes, Bounds
  <2>4. S!Return(avail - consumed)
    BY <1>3, <2>2, <2>3 DEF Service, ReturnFrom, S!Return
  <2>5. QED
    BY <2>3, <2>4 DEF S!Next
<1>4. CASE Compress
  BY <1>4 DEF Compress, S!svars, IInv, FileTypes, Bounds
<1>6. CASE FillMore
  <2>1. Filled
    BY <1>6, LoadFills, FileConstants DEF FillMore, Grown, IInv, FileTypes, Bounds
  <2>2. CASE avail' < need
    <3>1. offset' - avail' + consumed' = offset - avail + consumed
      <4>1. offset' - avail' + 0 = offset' - avail'
        BY <2>1, Arith DEF Filled, Good
      <4>2. QED
        BY <2>1, <4>1, Zenon DEF Filled
    <3>2. QED
      BY <1>6, <2>1, <2>2, <3>1 DEF FillMore, Filled, S!svars
  <2>3. CASE ~(avail' < need)
    <3>1. avail' >= need
      BY <2>1, <2>3 DEF Filled, Good
    <3>2. QED
      BY <1>6, <2>1, <2>3, <3>1, FillReturns DEF FillMore
  <2>4. QED
    BY <2>2, <2>3
<1>7. CASE FillEof
  <2>1. Total - offset \in Nat /\ Total - offset <= Grown - avail
    BY <1>7, FileConstants DEF FillEof, Grown, IInv, FileTypes, Bounds
  <2>2. Filled /\ offset' = Total
    BY <1>7, <2>1, LoadFills, FileConstants DEF FillEof, Load, IInv, FileTypes
  <2>3. QED
    BY <1>7, <2>2, FillReturns DEF FillEof
<1>8. CASE FillError
  BY <1>8, FillFails, FileConstants DEF FillError, Load, Grown, IInv, FileTypes, Bounds
<1>9. CASE AllocFails
  BY <1>9, FillFails DEF AllocFails
<1>10. QED
  BY <1>1, <1>2, <1>3, <1>4, <1>6, <1>7, <1>8, <1>9 DEF FileNext

LEMMA InitRefines == FileInit => S!Init
BY DEF FileInit, S!Init, Empty, S!Window

(* Every variable of read_file keeps its type and the window never leaves    *)
(* the buffer, for every file, request and increment.                        *)
THEOREM FileTypesHold == FileSpec => [](FileTypes /\ Bounds)
<1>1. IInv => FileTypes /\ Bounds
  BY DEF IInv
<1>2. QED
  BY InitIInv, StepIInv, <1>1, PTL DEF FileSpec

(* The windows read_file returns are the file's bytes in order, none lost or *)
(* repeated, and long enough: read_file implements module Stream.            *)
THEOREM FileImplementsStream == FileSpec => ImplementsStream
<1>1. QED
  BY InitIInv, StepIInv, InitRefines, StepRefines, PTL DEF FileSpec, ImplementsStream, S!Spec

-----------------------------------------------------------------------------
(* The zip container                                                         *)


Windows == {EndSize, Near, Far}

Window ==
  /\ pc = "search" => off \in Windows
  /\ pc = "find" => \E w \in Windows : off = IF w > zip.size THEN zip.size ELSE w
  /\ pc \in {"search", "find"} => files = << >>

(* p is where the directory goes on, behind the headers whose files are      *)
(* written.                                                                  *)
GoesOn(p) ==
  \/ \E i \in 1..(Len(zip.dir) + 1) : Leads(zip, i, p) /\ Len(files) = Kept(zip, i)
  \/ ~zip.tidy /\ p \notin DOMAIN zip.entries

(* The i-th header is read, and j of its extra fields.                       *)
Reading(i, j) ==
  LET d == zip.dir[i]
      h == zip.entries[d.at]
  IN  /\ header = IF j < d.long THEN h ELSE d.real
      /\ extralen = d.left[j]
      /\ fpos + extralen = d.at + HeaderSize + h.name + h.extralen
      /\ IsSeq(extras) /\ Len(extras) + j = Len(h.extras)
      /\ \A k \in 1..Len(extras) : extras[k] = h.extras[j + k]
      /\ Len(files) = d.kept /\ h.kind # "bad"

(* The i-th header is read, and its file is next.                            *)
Entered(i) ==
  LET d == zip.dir[i]
      h == zip.entries[d.at]
  IN  /\ header = d.real /\ h.kind = "file" /\ Len(files) = d.kept
      /\ IF d.fits THEN Leads(zip, i + 1, diroff)
         ELSE ~zip.tidy /\ diroff \notin DOMAIN zip.entries

Walk ==
  /\ pc = "next" => GoesOn(diroff)
  /\ pc = "header" => GoesOn(fpos)
  /\ pc = "extra" =>
       \E i \in 1..Len(zip.dir) : \E j \in 0..zip.dir[i].fields : Reading(i, j)
  /\ pc = "entry" => \E i \in 1..Len(zip.dir) : Entered(i)

Unharmed == zip.valid /\ faults = {} => pc \notin {"error", "crash"}

ZInv ==
  /\ zip \in Archives /\ faults \in FaultSets /\ IsSeq(files)
  /\ TypeOK /\ FilesAreEntries /\ SuccessIsComplete /\ Window /\ Walk /\ Unharmed

-----------------------------------------------------------------------------
(* Sequences.                                                                *)

LEMMA Taken ==
  ASSUME NEW f \in Nat, NEW l \in Nat, NEW e \in Nat, NEW x \in Nat, e + x <= l
  PROVE  l - (e + x) \in Nat /\ f + e + x \in Nat /\ (f + e + x) + (l - (e + x)) = f + l
  OBVIOUS

LEMMA IsSeqOf ==
  ASSUME NEW E, NEW s \in Seq(E)
  PROVE  IsSeq(s)
<1>1. \A i \in 1..Len(s) : s[i] \in {s[k] : k \in DOMAIN s}
  OBVIOUS
<1> QED
  BY <1>1 DEF IsSeq

(* A field that is taken off moves the others up.                            *)
LEMMA TailFacts ==
  ASSUME NEW s, IsSeq(s), s # << >>
  PROVE  /\ IsSeq(Tail(s)) /\ Len(Tail(s)) = Len(s) - 1 /\ Len(s) \in Nat \ {0}
         /\ Head(s) = s[1]
         /\ \A k \in 1..(Len(s) - 1) : Tail(s)[k] = s[k + 1]
<1> DEFINE E == {s[i] : i \in DOMAIN s}
<1>1. s \in Seq(E)
  BY DEF IsSeq
<1>2. /\ Tail(s) \in Seq(E) /\ Len(Tail(s)) = Len(s) - 1 /\ Len(s) \in Nat \ {0}
      /\ Head(s) = s[1]
      /\ \A k \in 1..(Len(s) - 1) : Tail(s)[k] = s[k + 1]
  <2> HIDE DEF E
  <2> QED
    BY <1>1
<1>3. IsSeq(Tail(s))
  <2> HIDE DEF E
  <2> QED
    BY <1>2, IsSeqOf, Zenon
<1> QED
  BY <1>2, <1>3

(* A file that is added is the last one.                                     *)
LEMMA AppendFacts ==
  ASSUME NEW s, IsSeq(s), NEW r
  PROVE  /\ IsSeq(Append(s, r)) /\ Len(s) \in Nat /\ Len(Append(s, r)) = Len(s) + 1
         /\ DOMAIN s = 1..Len(s) /\ DOMAIN Append(s, r) = 1..(Len(s) + 1)
         /\ \A k \in 1..Len(s) : Append(s, r)[k] = s[k]
         /\ Append(s, r)[Len(s) + 1] = r
<1> DEFINE E == {s[i] : i \in DOMAIN s} \cup {r}
<1>1. s \in Seq(E) /\ r \in E
  <2>1. s \in Seq({s[i] : i \in DOMAIN s})
    BY DEF IsSeq
  <2> DEFINE T == {s[i] : i \in DOMAIN s}
  <2>2. T \subseteq E
    OBVIOUS
  <2> HIDE DEF T
  <2>3. s \in Seq(T)
    BY <2>1 DEF T
  <2>4. r \in E
    OBVIOUS
  <2> HIDE DEF E
  <2> QED
    BY <2>2, <2>3, <2>4
<1> HIDE DEF E
<1>2. /\ Append(s, r) \in Seq(E) /\ Len(s) \in Nat /\ Len(Append(s, r)) = Len(s) + 1
      /\ DOMAIN s = 1..Len(s) /\ DOMAIN Append(s, r) = 1..(Len(s) + 1)
      /\ \A k \in 1..Len(s) : Append(s, r)[k] = s[k]
      /\ Append(s, r)[Len(s) + 1] = r
  BY <1>1
<1>3. IsSeq(Append(s, r))
  BY <1>2, IsSeqOf, Zenon
<1> QED
  BY <1>2, <1>3

(* Long lists the lengths of a header that are too big for it.               *)
LEMMA LongFacts ==
  ASSUME NEW h
  PROVE  /\ Long(h) \in Seq(Lengths)
         /\ \A i \in DOMAIN Long(h) : h[Long(h)[i]] = Big
         /\ \A k \in Lengths : h[k] = Big => \E i \in DOMAIN Long(h) : Long(h)[i] = k
<1> DEFINE u == Needed(h, "uncompressed")
           c == Needed(h, "compressed")
           l == Needed(h, "local")
<1>1. /\ u \in Seq(Lengths) /\ c \in Seq(Lengths) /\ l \in Seq(Lengths)
  <2>1. \A k \in Lengths : <<k>> \in Seq(Lengths) /\ << >> \in Seq(Lengths)
    OBVIOUS
  <2> QED
    BY <2>1, Zenon DEF Needed, Lengths
<1>2. /\ \A i \in 1..Len(u) : h[u[i]] = Big
      /\ \A i \in 1..Len(c) : h[c[i]] = Big
      /\ \A i \in 1..Len(l) : h[l[i]] = Big
  BY DEF Needed
<1>3. /\ h["uncompressed"] = Big => Len(u) = 1 /\ u[1] = "uncompressed"
      /\ h["compressed"] = Big => Len(c) = 1 /\ c[1] = "compressed"
      /\ h["local"] = Big => Len(l) = 1 /\ l[1] = "local"
  BY DEF Needed
<1>4. Long(h) = u \o c \o l
  BY DEF Long
<1> HIDE DEF u, c, l
<1> DEFINE n == Len(u) m == Len(c) q == Len(l)
<1>5. /\ n \in Nat /\ m \in Nat /\ q \in Nat
      /\ Long(h) \in Seq(Lengths) /\ DOMAIN Long(h) = 1..(n + m + q)
      /\ \A i \in 1..(n + m + q) :
           Long(h)[i] = IF i <= n THEN u[i] ELSE IF i <= n + m THEN c[i - n] ELSE l[i - n - m]
  BY <1>1, <1>4
<1> HIDE DEF n, m, q
<1>6. ASSUME NEW i \in DOMAIN Long(h) PROVE h[Long(h)[i]] = Big
  <2>1. CASE i <= n
    BY <2>1, <1>5, <1>2 DEF n
  <2>2. CASE i > n /\ i <= n + m
    <3>1. i - n \in 1..m
      BY <2>2, <1>5
    <3> QED
      BY <2>2, <3>1, <1>5, <1>2 DEF m
  <2>3. CASE i > n + m
    <3>1. i - n - m \in 1..q
      BY <2>3, <1>5
    <3> QED
      <4>1. Long(h)[i] = l[i - n - m]
        BY <2>3, <1>5
      <4>2. h[l[i - n - m]] = Big
        BY <3>1, <1>2 DEF q
      <4> QED
        BY <4>1, <4>2, Zenon
  <2> QED
    BY <2>1, <2>2, <2>3, <1>5
<1>7. ASSUME NEW k \in Lengths, h[k] = Big PROVE \E i \in DOMAIN Long(h) : Long(h)[i] = k
  <2>1. CASE k = "uncompressed"
    <3>1. n = 1 /\ u[1] = k
      BY <2>1, <1>7, <1>3 DEF n
    <3>2. 1 \in DOMAIN Long(h) /\ Long(h)[1] = u[1]
      BY <3>1, <1>5
    <3> QED
      BY <3>1, <3>2
  <2>2. CASE k = "compressed"
    <3>1. m = 1 /\ c[1] = k
      BY <2>2, <1>7, <1>3 DEF m
    <3>2. n + 1 \in DOMAIN Long(h) /\ Long(h)[n + 1] = c[1]
      BY <3>1, <1>5
    <3> QED
      BY <3>1, <3>2
  <2>3. CASE k = "local"
    <3>1. q = 1 /\ l[1] = k
      BY <2>3, <1>7, <1>3 DEF q
    <3>2. n + m + 1 \in DOMAIN Long(h) /\ Long(h)[n + m + 1] = l[1]
      BY <3>1, <1>5
    <3> QED
      BY <3>1, <3>2
  <2> QED
    BY <2>1, <2>2, <2>3 DEF Lengths
<1> QED
  BY <1>5, <1>6, <1>7

(* The zip64 field puts every long length where it belongs.                  *)
LEMMA ExtendedFills ==
  ASSUME NEW h, NEW d, LengthsLaid(h, d), d.long # 0, h.extras[d.long].size \in Nat
  PROVE  Extended(h, h.extras[d.long]) = d.real
<1> DEFINE x == h.extras[d.long]
           g == Long(h)
           room == x.size \div WordSize
           got == SubSeq(g, 1, IF room < Len(g) THEN room ELSE Len(g))
<1>1. Len(g) <= room /\ \A i \in DOMAIN g : x.words[i] = d.real[g[i]]
  BY Zenon DEF LengthsLaid
<1>2. Extended(h, x) = [k \in DOMAIN h |->
         IF \E i \in DOMAIN got : got[i] = k
           THEN x.words[CHOOSE i \in DOMAIN got : got[i] = k] ELSE h[k]]
  BY DEF Extended
<1>3. /\ g \in Seq(Lengths)
      /\ \A k \in Lengths : h[k] = Big => \E i \in DOMAIN g : g[i] = k
  BY LongFacts
<1>4. got = g
  <2>1. room \in Int
    BY ZipConstants
  <2> HIDE DEF g, room
  <2> QED
    BY <1>1, <1>3, <2>1
<1>5. ASSUME NEW k \in DOMAIN h
      PROVE  d.real[k] = IF \E i \in DOMAIN g : g[i] = k
                           THEN x.words[CHOOSE i \in DOMAIN g : g[i] = k] ELSE h[k]
  <2>1. CASE \E i \in DOMAIN g : g[i] = k
    <3> DEFINE i == CHOOSE i \in DOMAIN g : g[i] = k
    <3>1. i \in DOMAIN g /\ g[i] = k
      BY <2>1, Zenon
    <3>2. x.words[i] = d.real[k]
      BY <3>1, <1>1, Zenon
    <3> QED
      BY <2>1, <3>2, Zenon
  <2>2. CASE ~ \E i \in DOMAIN g : g[i] = k
    <3>1. k \in Lengths => h[k] # Big
      BY <2>2, <1>3, Zenon
    <3>2. d.real[k] = h[k]
      BY <3>1, Zenon DEF LengthsLaid
    <3> QED
      BY <2>2, <3>2, Zenon
  <2> QED
    BY <2>1, <2>2, Zenon
<1>6. Extended(h, x) = [k \in DOMAIN h |-> d.real[k]]
  <2> DEFINE E(q, k) == IF \E i \in DOMAIN q : q[i] = k
                          THEN x.words[CHOOSE i \in DOMAIN q : q[i] = k] ELSE h[k]
  <2>1. Extended(h, x) = [k \in DOMAIN h |-> E(got, k)]
    BY <1>2, Zenon
  <2>2. \A k \in DOMAIN h : d.real[k] = E(g, k)
    BY <1>5, Zenon
  <2> HIDE DEF g, got, x, E
  <2> QED
    BY <2>1, <2>2, <1>4, Zenon
<1> QED
  BY <1>6, Zenon DEF LengthsLaid

(* Further fields change nothing once all lengths are known.                 *)
LEMMA ExtendedKeeps ==
  ASSUME NEW h, NEW d, NEW x, LengthsLaid(h, d)
  PROVE  Extended(d.real, x) = d.real
<1> DEFINE r == d.real
           g == Long(r)
           room == x.size \div WordSize
           got == SubSeq(g, 1, IF room < Len(g) THEN room ELSE Len(g))
<1>1. Extended(r, x) = [k \in DOMAIN r |->
         IF \E i \in DOMAIN got : got[i] = k
           THEN x.words[CHOOSE i \in DOMAIN got : got[i] = k] ELSE r[k]]
  BY DEF Extended
<1>2. \A k \in Lengths : r[k] # Big
  BY DEF LengthsLaid
<1>3. g = << >>
  BY <1>2 DEF Long, Needed, Lengths
<1>4. got = << >>
  BY <1>3
<1>5. DOMAIN got = {}
  <2> HIDE DEF got
  <2> QED
    BY <1>4
<1>6. Extended(r, x) = [k \in DOMAIN r |-> r[k]]
  <2> HIDE DEF got, r
  <2> QED
    BY <1>1, <1>5, Zenon
<1>7. r = [k \in DOMAIN h |-> r[k]]
  BY Zenon DEF LengthsLaid
<1>8. r = [k \in DOMAIN r |-> r[k]]
  <2> HIDE DEF r
  <2> QED
    BY <1>7
<1> QED
  BY <1>6, <1>8, Zenon

-----------------------------------------------------------------------------
(* The search for the directory.                                             *)

LEMMA SizesAreNumbers ==
  /\ EndSize \in Nat \ {0} /\ HeaderSize \in Nat /\ LocalSize \in Nat /\ ExtraSize \in Nat \ {0}
  /\ Near \in Nat /\ Far \in Nat /\ EndSize < Near /\ Near < Far
  BY ZipConstants

(* A window that has the end record in it gives the directory, a shorter one *)
(* that it is not found.                                                     *)
LEMMA DirectoryFound ==
  ASSUME Made, zip \in Archives, NEW n \in Nat, n >= EndSize
  PROVE  /\ find_central_dir(n) = NotFound \/ \E e \in Endings(zip) : find_central_dir(n) = e.dir
         /\ \A e \in Endings(zip) : EndSize + e.comment <= n => find_central_dir(n) = e.dir
<1> DEFINE Index(e) == e.at - (zip.size - n)
           found == {e \in zip.ends : /\ Index(e) \in 0..(n - EndSize)
                                     /\ Index(e) + EndSize + e.comment = n}
           last == CHOOSE e \in found : \A d \in found : d.at <= e.at
<1>1. /\ zip.size \in Nat /\ EndSize \in Nat
      /\ \A e \in zip.ends : e.at \in Nat /\ e.comment \in Nat
  BY ZipConstants DEF ArchiveOK
<1>2. /\ \A e, d \in Endings(zip) : e = d
      /\ \A e \in Endings(zip) : e.dir # Big
  BY Zenon DEF Made, WellMade
<1>3. ASSUME NEW e \in found PROVE e \in Endings(zip)
  <2>1. e \in zip.ends /\ e.at - (zip.size - n) + EndSize + e.comment = n
    BY Zenon
  <2>2. e.at \in Nat /\ e.comment \in Nat
    BY <2>1, <1>1, Zenon
  <2>3. e.at + EndSize + e.comment = zip.size
    <3> HIDE DEF found, last, Index
    <3> QED
      BY <2>1, <2>2, <1>1
  <2> QED
    BY <2>1, <2>3, Zenon DEF Endings
<1>4. \A e \in Endings(zip) : EndSize + e.comment <= n => e \in found
  BY <1>1 DEF Endings
<1>5. /\ found = {} => find_central_dir(n) = NotFound
      /\ found # {} /\ last.dir # Big => find_central_dir(n) = last.dir
  <2>1. ~(n < EndSize)
    BY <1>1
  <2> QED
    BY <2>1, Zenon DEF find_central_dir
<1>6. ASSUME found # {} PROVE last \in found
  <2>1. PICK e \in found : TRUE
    BY <1>6
  <2>2. \A d \in found : d.at <= e.at
    <3> TAKE d \in found
    <3>1. d = e /\ e \in zip.ends
      BY <2>1, <1>2, <1>3, Zenon
    <3> QED
      BY <3>1, <1>1
  <2> HIDE DEF found
  <2> QED
    BY <2>1, <2>2, Zenon
<1> HIDE DEF found, last
<1>7. found # {} => last \in Endings(zip) /\ find_central_dir(n) = last.dir
  BY <1>6, <1>3, <1>2, <1>5, Zenon
<1> QED
  BY <1>7, <1>5, <1>4, <1>2, Zenon

-----------------------------------------------------------------------------
(* What WellMade says of the file in hand.                                   *)

LEMMA MadeFacts ==
  ASSUME Made, zip \in Archives
  PROVE  /\ Len(zip.dir) \in Nat /\ Len(zip.content) \in Nat /\ zip.size \in Nat
         /\ \A i \in 1..Len(zip.dir) : HeaderLaid(zip, i)
         /\ Kept(zip, 1) = 0
         /\ zip.tidy => \A i \in 1..Len(zip.dir) : zip.dir[i].fits
         /\ \A e \in Endings(zip) : e.dir \in Nat /\ Leads(zip, 1, e.dir)
         /\ \A e \in Endings(zip) : e.comment \in Nat /\ EndSize + e.comment <= zip.size
         /\ zip.valid => \E e \in Endings(zip) : EndSize + e.comment <= Far
<1>1. WellMade(zip) /\ ArchiveOK(zip)
  BY ZipConstants, Zenon DEF Made
<1>2. zip.dir \in Seq({zip.dir[i] : i \in DOMAIN zip.dir})
  BY <1>1, Zenon DEF WellMade, IsSeq
<1>3. zip.content \in Seq({zip.content[i] : i \in DOMAIN zip.content})
  BY <1>1, Zenon DEF WellMade, IsSeq
<1>4. Len(zip.dir) \in Nat /\ (Len(zip.dir) = 0 => zip.dir = << >>)
  BY <1>2
<1>5. Len(zip.content) \in Nat
  BY <1>3
<1>6. Kept(zip, 1) = 0
  <2>1. CASE zip.dir = << >>
    <3>1. zip.content = << >>
      BY <2>1, <1>1, Zenon DEF WellMade
    <3> QED
      BY <2>1, <3>1 DEF Kept
  <2>2. CASE zip.dir # << >>
    <3>1. zip.dir[1].kept = 0
      BY <2>2, <1>1, Zenon DEF WellMade
    <3> QED
      BY <2>2, <3>1, <1>4 DEF Kept
  <2> QED
    BY <2>1, <2>2, Zenon
<1>7. ASSUME NEW e \in Endings(zip)
      PROVE  e.comment \in Nat /\ EndSize + e.comment <= zip.size
  <2>1. e \in zip.ends /\ e.at + EndSize + e.comment = zip.size
    BY Zenon DEF Endings
  <2>2. {e.at, e.comment} \subseteq Nat
    BY <2>1, <1>1, Zenon DEF ArchiveOK
  <2>3. e.at \in Nat /\ e.comment \in Nat
    BY <2>2
  <2> QED
    BY <2>1, <2>3, SizesAreNumbers
<1> QED
  BY <1>1, <1>4, <1>5, <1>6, <1>7, Zenon DEF WellMade, ArchiveOK

(* Where the headers are, and what they have.                                *)
LEMMA HeaderFacts ==
  ASSUME Made, zip \in Archives, NEW i \in 1..Len(zip.dir)
  PROVE  /\ zip.dir[i].at \in DOMAIN zip.entries /\ zip.dir[i].at \in Nat
         /\ zip.entries[zip.dir[i].at].name \in Nat
         /\ zip.entries[zip.dir[i].at].extralen \in Nat
         /\ zip.entries[zip.dir[i].at].kind \in {"file", "dir", "bad"}
         /\ DOMAIN zip.entries[zip.dir[i].at] =
              {"kind", "path", "method", "name", "extralen", "extras"} \cup Lengths
         /\ FieldsLaid(zip.entries[zip.dir[i].at], zip.dir[i])
         /\ LengthsLaid(zip.entries[zip.dir[i].at], zip.dir[i])
         /\ zip.dir[i].real.kind = zip.entries[zip.dir[i].at].kind
         /\ zip.dir[i].real.path = zip.entries[zip.dir[i].at].path
         /\ zip.dir[i].real.method = zip.entries[zip.dir[i].at].method
         /\ zip.dir[i].fits \in BOOLEAN /\ zip.dir[i].kept \in Nat
<1> DEFINE d == zip.dir[i]
           h == zip.entries[d.at]
<1>1. HeaderLaid(zip, i) /\ ArchiveOK(zip)
  BY MadeFacts, ZipConstants, Zenon
<1>2. d.at \in DOMAIN zip.entries /\ d.fits \in BOOLEAN /\ FieldsLaid(h, d) /\ LengthsLaid(h, d)
  BY <1>1, Zenon DEF HeaderLaid
<1>3. d.at \in Nat
  BY <1>1, <1>2 DEF ArchiveOK
<1>4. /\ {h.name, h.extralen} \subseteq Nat /\ h.kind \in {"file", "dir", "bad"}
      /\ DOMAIN h = {"kind", "path", "method", "name", "extralen", "extras"} \cup Lengths
  BY <1>1, <1>2, Zenon DEF ArchiveOK
<1>5. d.real.kind = h.kind /\ d.real.path = h.path /\ d.real.method = h.method
  <2> HIDE DEF d, h
  <2>1. {"kind", "path", "method"} \subseteq DOMAIN h \ Lengths
    BY <1>4 DEF Lengths
  <2> QED
    BY <2>1, <1>2 DEF LengthsLaid
<1>6. d.kept \in Nat
  <2>1. d.kept \in 0..Len(zip.content) /\ Len(zip.content) \in Nat
    BY <1>1, MadeFacts, Zenon DEF HeaderLaid
  <2> QED
    BY <2>1
<1> QED
  BY <1>2, <1>3, <1>4, <1>5, <1>6, Zenon

-----------------------------------------------------------------------------
(* The invariant.  Kept by every step.                                       *)

(* The parts of ZInv that only change when a file is written.                *)
LEMMA StaysInv ==
  ASSUME ZInv, UNCHANGED <<zip, faults, files>>
  PROVE  /\ (zip \in Archives)' /\ (faults \in FaultSets)' /\ IsSeq(files)' /\ FilesAreEntries'
         /\ \A i \in DOMAIN files' : files'[i].size # Big
  BY Zenon DEF ZInv, TypeOK, FilesAreEntries, IsSeq

LEMMA InitInv == ASSUME Made, Init PROVE ZInv
<1> USE DEF Init
<1>1. zip \in Archives /\ faults \in FaultSets /\ files = << >> /\ pc = "search"
  BY Zenon
<1>2. IsSeq(files) /\ Len(files) = 0 /\ DOMAIN files = {}
  BY <1>1 DEF IsSeq
<1>3. TypeOK
  BY <1>2, SizesAreNumbers DEF TypeOK
<1>4. FilesAreEntries
  BY <1>1, <1>2, MadeFacts DEF FilesAreEntries
<1>5. Window
  BY DEF Window, Windows
<1> QED
  BY <1>1, <1>2, <1>3, <1>4, <1>5, Zenon DEF ZInv, SuccessIsComplete, Walk, Unharmed

LEMMA CapWindowInv == ASSUME Made, ZInv, CapWindow PROVE ZInv'
<1>1. /\ pc = "search" /\ pc' = "find" /\ off' = (IF off > zip.size THEN zip.size ELSE off)
      /\ UNCHANGED <<zip, faults, fpos, diroff, header, extras, extralen, files>>
  BY Zenon DEF CapWindow
<1>2. off \in Windows /\ files = << >> /\ TypeOK /\ zip.size \in Nat
  BY <1>1, MadeFacts, Zenon DEF ZInv, Window
<1>3. off' \in 0..Far
  BY <1>1, <1>2, SizesAreNumbers DEF TypeOK
<1>4. TypeOK'
  BY <1>1, <1>2, <1>3, Zenon DEF TypeOK
<1>5. Window'
  BY <1>1, <1>2, Zenon DEF Window, Windows
<1> QED
  BY <1>1, <1>4, <1>5, StaysInv, Zenon DEF ZInv, SuccessIsComplete, Walk, Unharmed

LEMMA OpenInv == ASSUME Made, ZInv, open_zip PROVE ZInv'
<1> DEFINE d == find_central_dir(off)
<1>1. /\ pc = "find" /\ UNCHANGED <<zip, faults, fpos, header, extras, extralen, files>>
      /\ \/ d >= 0 /\ diroff' = d /\ pc' = "next" /\ UNCHANGED off
         \/ (d = InvalidFile \/ "io" \in faults) /\ Give("crash")
         \/ d = NotFound /\ IF Wider # 0 THEN Widen(Wider) ELSE Give("crash")
  BY Zenon DEF open_zip
<1>2. /\ files = << >> /\ TypeOK /\ zip \in Archives /\ off \in Nat
      /\ \E w \in Windows : off = IF w > zip.size THEN zip.size ELSE w
  <2>1. off \in Nat
    BY SizesAreNumbers DEF ZInv, TypeOK
  <2> QED
    BY <1>1, <2>1, Zenon DEF ZInv, Window
<1>3. Len(files) = 0
  BY <1>2
<1>4. CASE d >= 0 /\ diroff' = d /\ pc' = "next" /\ UNCHANGED off
  <2>1. \E e \in Endings(zip) : d = e.dir
    <3>1. off >= EndSize
      <4>1. off < EndSize => d = InvalidFile
        BY Zenon DEF find_central_dir
      <4> QED
        BY <1>2, <1>4, <4>1, SizesAreNumbers DEF InvalidFile
    <3>2. d # NotFound
      BY <1>4 DEF NotFound
    <3> QED
      BY <3>1, <3>2, <1>2, DirectoryFound, Zenon
  <2>2. d \in Nat /\ Leads(zip, 1, d)
    BY <2>1, <1>2, MadeFacts, Zenon
  <2>3. GoesOn(diroff)'
    <3>1. 1 \in 1..(Len(zip.dir) + 1)
      BY <1>2, MadeFacts
    <3>2. Leads(zip, 1, diroff)' /\ (Len(files) = Kept(zip, 1))'
      BY <1>1, <1>2, <1>3, <1>4, <2>2, MadeFacts, Zenon
    <3> QED
      BY <1>1, <3>1, <3>2, Zenon DEF GoesOn
  <2>4. TypeOK'
    <3> HIDE DEF d
    <3> QED
      BY <1>1, <1>2, <1>4, <2>2, Zenon DEF TypeOK
  <2> QED
    BY <1>1, <1>4, <2>3, <2>4, StaysInv, Zenon
       DEF ZInv, SuccessIsComplete, Window, Walk, Unharmed
<1>5. CASE d = NotFound /\ Wider # 0 /\ Widen(Wider)
  <2>1. off' \in Windows /\ pc' = "search" /\ UNCHANGED diroff
    BY <1>5, Zenon DEF Widen, Wider, Windows
  <2>2. off' \in 0..Far
    BY <2>1, SizesAreNumbers DEF Windows
  <2>3. TypeOK'
    BY <1>1, <1>2, <2>1, <2>2, Zenon DEF TypeOK
  <2>4. Window'
    BY <1>1, <1>2, <2>1, Zenon DEF Window
  <2> QED
    BY <1>1, <2>1, <2>3, <2>4, StaysInv, Zenon DEF ZInv, SuccessIsComplete, Walk, Unharmed
<1>6. CASE Give("crash") /\ (d = InvalidFile \/ "io" \in faults \/ (d = NotFound /\ Wider = 0))
  <2>1. TypeOK'
    BY <1>1, <1>2, <1>6, Zenon DEF TypeOK, Give
  <2>2. ASSUME zip.valid, faults = {} PROVE FALSE
    <3>1. PICK e \in Endings(zip) : EndSize + e.comment <= Far
      BY <1>2, <2>2, MadeFacts, Zenon
    <3>2. e.comment \in Nat /\ EndSize + e.comment <= zip.size /\ e.dir \in Nat
      BY <3>1, <1>2, MadeFacts, Zenon
    <3>3. PICK w \in Windows : off = IF w > zip.size THEN zip.size ELSE w
      BY <1>2, Zenon
    <3>4. zip.size \in Nat /\ w \in Nat /\ EndSize <= w
      BY <1>2, <3>3, MadeFacts, SizesAreNumbers DEF Windows
    <3>5. off >= EndSize
      BY <3>2, <3>3, <3>4, SizesAreNumbers
    <3>6. d \in Nat \/ d = NotFound
      BY <3>5, <1>2, DirectoryFound, MadeFacts, Zenon
    <3>7. d = NotFound /\ Wider = 0
      <4> HIDE DEF d
      <4>1. d # InvalidFile
        BY <3>6 DEF InvalidFile, NotFound
      <4> QED
        BY <4>1, <1>6, <2>2, Zenon
    <3>8. ~(EndSize + e.comment <= off)
      <4>1. d = e.dir => FALSE
        <5> HIDE DEF d
        <5> QED
          BY <3>2, <3>7 DEF NotFound
      <4> QED
        BY <4>1, <3>1, <3>5, <1>2, DirectoryFound, Zenon
    <3>9. off = w /\ w # Far
      BY <3>1, <3>2, <3>3, <3>4, <3>8, SizesAreNumbers
    <3>10. w = EndSize \/ w = Near
      BY <3>3, <3>9, Zenon DEF Windows
    <3>11. Wider # 0
      BY <3>9, <3>10, SizesAreNumbers DEF Wider
    <3> QED
      BY <3>7, <3>11, Zenon
  <2>3. pc' = "crash" /\ Unharmed'
    BY <1>1, <1>6, <2>2, Zenon DEF Give, Unharmed
  <2> QED
    BY <1>1, <2>1, <2>3, StaysInv, Zenon DEF ZInv, SuccessIsComplete, Window, Walk
<1> QED
  BY <1>1, <1>4, <1>5, <1>6, Zenon

LEMMA NextFileInv == ASSUME ZInv, next_zip_file PROVE ZInv'
<1>1. /\ pc = "next" /\ pc' = "header" /\ fpos' = diroff
      /\ UNCHANGED <<zip, faults, off, diroff, header, extras, extralen, files>>
  BY Zenon DEF next_zip_file, DirectoryPos
<1>2. GoesOn(fpos)'
  BY <1>1, Zenon DEF ZInv, Walk, GoesOn
<1>3. TypeOK'
  BY <1>1, Zenon DEF ZInv, TypeOK
<1> QED
  BY <1>1, <1>2, <1>3, StaysInv, Zenon DEF ZInv, SuccessIsComplete, Window, Walk, Unharmed

(* Where no header is, all files of a tidy archive are written.              *)
LEMMA EndOfDirectoryInv == ASSUME Made, ZInv, EndOfDirectory PROVE ZInv'
<1>1. /\ pc = "header" /\ pc' = "ok" /\ (fpos \notin DOMAIN zip.entries \/ "io" \in faults)
      /\ UNCHANGED <<zip, faults, off, fpos, diroff, header, extras, extralen, files>>
  BY Zenon DEF EndOfDirectory
<1>2. TypeOK'
  BY <1>1, Zenon DEF ZInv, TypeOK
<1>3. ASSUME faults = {}, zip.tidy PROVE Len(files) = Len(zip.content)
  <2>1. fpos \notin DOMAIN zip.entries
    BY <1>1, <1>3
  <2>2. PICK i \in 1..(Len(zip.dir) + 1) : Leads(zip, i, fpos) /\ Len(files) = Kept(zip, i)
    BY <1>1, <1>3, Zenon DEF ZInv, Walk, GoesOn
  <2>3. ~(i <= Len(zip.dir))
    <3>1. SUFFICES ASSUME i <= Len(zip.dir) PROVE FALSE
      OBVIOUS
    <3>2. fpos = zip.dir[i].at
      BY <2>2, <3>1, Zenon DEF Leads
    <3>3. i \in 1..Len(zip.dir) /\ zip \in Archives
      BY <3>1, MadeFacts DEF ZInv
    <3> QED
      BY <2>1, <3>2, <3>3, HeaderFacts, Zenon
  <2> QED
    BY <2>2, <2>3, Zenon DEF Kept
<1>4. SuccessIsComplete'
  BY <1>1, <1>3, Zenon DEF SuccessIsComplete
<1> QED
  BY <1>1, <1>2, <1>4, StaysInv, Zenon DEF ZInv, Window, Walk, Unharmed

(* A header at a position the directory leads to is the one that comes next. *)
LEMMA ReadHeaderInv == ASSUME Made, ZInv, read_zip_file_header PROVE ZInv'
<1>1. /\ pc = "header" /\ fpos \in DOMAIN zip.entries
      /\ header' = zip.entries[fpos] /\ fpos' = fpos + HeaderSize + header'.name
      /\ extras' = header'.extras /\ extralen' = header'.extralen
      /\ pc' = (IF header'.kind = "bad" THEN "error" ELSE "extra")
      /\ UNCHANGED <<zip, faults, off, diroff, files>>
  BY Zenon DEF read_zip_file_header
<1>2. PICK i \in 1..(Len(zip.dir) + 1) : Leads(zip, i, fpos) /\ Len(files) = Kept(zip, i)
  BY <1>1, Zenon DEF ZInv, Walk, GoesOn
<1>3. i \in 1..Len(zip.dir) /\ fpos = zip.dir[i].at /\ Len(files) = zip.dir[i].kept
  <2>1. i <= Len(zip.dir)
    BY <1>1, <1>2, Zenon DEF Leads
  <2>2. i \in 1..Len(zip.dir)
    BY <2>1, MadeFacts DEF ZInv
  <2> QED
    BY <2>1, <2>2, <1>2, Zenon DEF Leads, Kept
<1> DEFINE d == zip.dir[i]
           h == zip.entries[d.at]
<1>4. /\ header' = h /\ extras' = h.extras /\ extralen' = h.extralen
      /\ fpos' = d.at + HeaderSize + h.name
  BY <1>1, <1>3, Zenon
<1>5. /\ d.at \in Nat /\ h.name \in Nat /\ h.extralen \in Nat
      /\ FieldsLaid(h, d) /\ LengthsLaid(h, d)
  BY <1>3, HeaderFacts, Zenon DEF ZInv
<1>6. TypeOK'
  <2>1. fpos' \in Nat
    <3> HIDE DEF d, h
    <3> QED
      BY <1>4, <1>5, SizesAreNumbers
  <2>2. off' \in 0..Far /\ diroff' \in Nat /\ extralen' \in Nat
    BY <1>1, <1>4, <1>5, Zenon DEF ZInv, TypeOK
  <2> QED
    BY <1>1, <2>1, <2>2, StaysInv, Zenon DEF TypeOK
<1>7. CASE h.kind = "bad"
  <2>1. pc' = "error"
    BY <1>1, <1>4, <1>7, Zenon
  <2>2. ~zip.valid
    BY <1>3, <1>7, Zenon DEF ZInv, Made, WellMade
  <2> QED
    BY <1>1, <1>6, <2>1, <2>2, StaysInv, Zenon DEF ZInv, SuccessIsComplete, Window, Walk, Unharmed
<1>8. CASE h.kind # "bad"
  <2>1. pc' = "extra"
    BY <1>1, <1>4, <1>8, Zenon
  <2>2. d.fields \in Nat /\ d.long \in Nat /\ d.left[0] = h.extralen /\ Len(h.extras) \in Nat
    <3> HIDE DEF d, h
    <3>1. h.extras \in Seq({h.extras[k] : k \in DOMAIN h.extras})
      BY <1>5, Zenon DEF FieldsLaid, IsSeq
    <3>2. Len(h.extras) \in Nat
      BY <3>1
    <3>3. d.fields \in 0..Len(h.extras) /\ d.long \in 0..d.fields /\ d.left[0] = h.extralen
      BY <1>5, ZenonT(40) DEF FieldsLaid, LengthsLaid
    <3> QED
      BY <3>2, <3>3
  <2>3. header' = (IF 0 < d.long THEN h ELSE d.real)
    <3>1. d.long = 0 => d.real = h
      BY <1>5, Zenon DEF LengthsLaid
    <3> QED
      BY <3>1, <2>2, <1>4
  <2>4. fpos' + extralen' = d.at + HeaderSize + h.name + h.extralen
    BY <1>4, Zenon
  <2>5. IsSeq(extras)' /\ (Len(extras)' + 0 = Len(h.extras))
        /\ \A k \in 1..Len(extras)' : extras'[k] = h.extras[0 + k]
    <3>1. IsSeq(extras)'
      BY <1>4, <1>5, Zenon DEF FieldsLaid, IsSeq
    <3>2. Len(h.extras) + 0 = Len(h.extras) /\ \A k \in 1..Len(h.extras) : 0 + k = k
      <4> HIDE DEF h
      <4> QED
        BY <2>2
    <3> QED
      BY <1>4, <3>1, <3>2, Zenon
  <2>6. Reading(i, 0)'
    BY <1>1, <1>3, <1>4, <1>8, <2>2, <2>3, <2>4, <2>5, Zenon DEF Reading
  <2>7. 0 \in 0..d.fields
    BY <2>2
  <2>8. Walk'
    BY <1>1, <1>3, <2>1, <2>6, <2>7, Zenon DEF Walk
  <2> QED
    BY <1>1, <1>6, <2>1, <2>8, StaysInv, Zenon DEF ZInv, SuccessIsComplete, Window, Unharmed
<1> QED
  BY <1>7, <1>8, Zenon

LEMMA HeaderFailsInv == ASSUME ZInv, HeaderFails PROVE ZInv'
<1>1. /\ pc' = "error" /\ "io" \in faults
      /\ UNCHANGED <<zip, faults, off, fpos, diroff, header, extras, extralen, files>>
  BY Zenon DEF HeaderFails
<1>2. TypeOK'
  BY <1>1, Zenon DEF ZInv, TypeOK
<1>3. faults' # {}
  BY <1>1
<1> QED
  BY <1>1, <1>2, <1>3, StaysInv, Zenon DEF ZInv, SuccessIsComplete, Window, Walk, Unharmed

LEMMA EntryFailsInv == ASSUME Made, ZInv, EntryFails PROVE ZInv'
<1>1. /\ pc = "entry" /\ pc' = "error"
      /\ \/ header.local \notin DOMAIN zip.locals
         \/ header.method = "other"
         \/ "io" \in faults
      /\ UNCHANGED <<zip, faults, off, fpos, diroff, header, extras, extralen, files>>
  BY Zenon DEF EntryFails
<1>2. TypeOK'
  BY <1>1, Zenon DEF ZInv, TypeOK
<1>3. PICK i \in 1..Len(zip.dir) : Entered(i)
  BY <1>1, Zenon DEF ZInv, Walk
<1>4. zip.valid => "io" \in faults
  <2>1. header = zip.dir[i].real /\ header.method = zip.entries[zip.dir[i].at].method
    BY <1>3, HeaderFacts, Zenon DEF ZInv, Entered
  <2>2. zip.valid => /\ zip.entries[zip.dir[i].at].method # "other"
                     /\ zip.dir[i].real.local \in DOMAIN zip.locals
    BY Zenon DEF ZInv, Made, WellMade
  <2> QED
    BY <1>1, <2>1, <2>2, Zenon
<1>5. Unharmed'
  <2>1. "io" \in faults => faults # {}
    OBVIOUS
  <2> QED
    BY <1>1, <1>4, <2>1, Zenon DEF Unharmed
<1> QED
  BY <1>1, <1>2, <1>5, StaysInv, Zenon DEF ZInv, SuccessIsComplete, Window, Walk

(* How much of the extra field is left says which field comes next: one that *)
(* fits, one that does not, or none.                                         *)
LEMMA NextField ==
  ASSUME NEW h, NEW d, FieldsLaid(h, d), LengthsLaid(h, d), h.extralen \in Nat,
         d.fits \in BOOLEAN, NEW j \in 0..d.fields
  PROVE  /\ d.fields \in Nat /\ Len(h.extras) \in Nat /\ d.long \in Nat /\ d.left[j] \in Nat
         /\ d.left[j] < ExtraSize => j = d.fields /\ d.fits
         /\ j < Len(h.extras) =>
              /\ h.extras[j + 1].size \in Nat
              /\ d.left[j] >= ExtraSize /\ ExtraSize + h.extras[j + 1].size > d.left[j] =>
                   j = d.fields /\ ~d.fits
              /\ ExtraSize + h.extras[j + 1].size <= d.left[j] =>
                   /\ j + 1 \in 0..d.fields
                   /\ d.left[j + 1] = d.left[j] - (ExtraSize + h.extras[j + 1].size)
<1>1. h.extras \in Seq({h.extras[k] : k \in DOMAIN h.extras})
  BY Zenon DEF FieldsLaid, IsSeq
<1>2. Len(h.extras) \in Nat /\ DOMAIN h.extras = 1..Len(h.extras)
  BY <1>1
<1>3. /\ \A i \in DOMAIN h.extras : h.extras[i].size \in Nat
      /\ d.fields \in 0..Len(h.extras) /\ d.left[0] = h.extralen /\ d.long \in 0..d.fields
      /\ \A k \in 1..d.fields :
           d.left[k] \in Nat /\ d.left[k - 1] = ExtraSize + h.extras[k].size + d.left[k]
      /\ d.fits => d.fields = Len(h.extras) /\ d.left[d.fields] < ExtraSize
      /\ ~d.fits =>
           /\ d.fields < Len(h.extras) /\ ExtraSize <= d.left[d.fields]
           /\ d.left[d.fields] < ExtraSize + h.extras[d.fields + 1].size
  BY Zenon DEF FieldsLaid, LengthsLaid
<1>4. d.fields \in Nat /\ d.long \in Nat /\ j \in Nat
  BY <1>2, <1>3
<1>5. d.left[j] \in Nat
  BY <1>3, <1>4
<1>6. ASSUME j < d.fields
      PROVE  /\ j + 1 \in 1..d.fields /\ j + 1 \in 0..d.fields
             /\ h.extras[j + 1].size \in Nat /\ d.left[j + 1] \in Nat
             /\ d.left[j] = ExtraSize + h.extras[j + 1].size + d.left[j + 1]
  <2>1. /\ j + 1 \in 1..d.fields /\ j + 1 \in 0..d.fields /\ (j + 1) - 1 = j
        /\ j + 1 \in 1..Len(h.extras)
    BY <1>2, <1>3, <1>4, <1>6
  <2>2. /\ d.left[j + 1] \in Nat
        /\ d.left[(j + 1) - 1] = ExtraSize + h.extras[j + 1].size + d.left[j + 1]
    BY <2>1, <1>3, Zenon
  <2>3. h.extras[j + 1].size \in Nat
    BY <2>1, <1>2, <1>3, Zenon
  <2> QED
    BY <2>1, <2>2, <2>3, Zenon
<1>7. j < Len(h.extras) => h.extras[j + 1].size \in Nat
  <2>1. j < Len(h.extras) => j + 1 \in 1..Len(h.extras)
    BY <1>2, <1>4
  <2> QED
    BY <2>1, <1>2, <1>3, Zenon
<1>8. CASE j < d.fields
  <2>1. ~(d.left[j] < ExtraSize)
    BY <1>6, <1>8, <1>5, SizesAreNumbers
  <2>2. ~(ExtraSize + h.extras[j + 1].size > d.left[j])
    BY <1>6, <1>8, <1>5, SizesAreNumbers
  <2>3. d.left[j + 1] = d.left[j] - (ExtraSize + h.extras[j + 1].size)
    BY <1>6, <1>8, <1>5, SizesAreNumbers
  <2> QED
    BY <1>2, <1>4, <1>5, <1>6, <1>7, <1>8, <2>1, <2>2, <2>3, Zenon
<1>9. CASE j = d.fields
  <2>1. CASE d.fits
    <3>1. d.left[j] < ExtraSize /\ ~(j < Len(h.extras))
      BY <2>1, <1>3, <1>9, <1>2, <1>4
    <3> QED
      BY <1>2, <1>4, <1>5, <1>9, <2>1, <3>1, Zenon
  <2>2. CASE ~d.fits
    <3>1. /\ j < Len(h.extras) /\ ExtraSize <= d.left[j]
          /\ d.left[j] < ExtraSize + h.extras[j + 1].size
      BY <2>2, <1>3, <1>9, Zenon
    <3>2. ~(d.left[j] < ExtraSize) /\ ~(ExtraSize + h.extras[j + 1].size <= d.left[j])
      <4>1. h.extras[j + 1].size \in Nat
        BY <3>1, <1>7, Zenon
      <4> DEFINE n == h.extras[j + 1].size
                 l == d.left[j]
      <4>2. n \in Nat /\ l \in Nat /\ ExtraSize <= l /\ l < ExtraSize + n
        BY <3>1, <1>5, <4>1, Zenon
      <4> HIDE DEF n, l
      <4>3. ~(l < ExtraSize) /\ ~(ExtraSize + n <= l)
        BY <4>2, SizesAreNumbers
      <4> QED
        BY <4>3, Zenon DEF n, l
    <3> QED
      BY <1>2, <1>4, <1>5, <1>7, <1>9, <2>2, <3>1, <3>2, Zenon
  <2> QED
    BY <2>1, <2>2, Zenon
<1> QED
  BY <1>8, <1>9, <1>4, <1>3

(* The header in hand after one more field.                                  *)
LEMMA NextSeen ==
  ASSUME NEW h, NEW d, FieldsLaid(h, d), LengthsLaid(h, d), d.long \in Nat,
         NEW j \in Nat, j + 1 \in 1..d.fields, h.extras[j + 1].size \in Nat
  PROVE  LET x == h.extras[j + 1]
             seen == IF j < d.long THEN h ELSE d.real
         IN  (IF x.zip64 THEN Extended(seen, x) ELSE seen) = IF j + 1 < d.long THEN h ELSE d.real
<1> DEFINE x == h.extras[j + 1]
           seen == IF j < d.long THEN h ELSE d.real
<1>1. /\ x.zip64 => d.long <= j + 1
      /\ d.long # 0 => h.extras[d.long].zip64
  BY Zenon DEF LengthsLaid
<1>2. CASE j < d.long
  <2>1. seen = h
    BY <1>2, Zenon
  <2>2. CASE x.zip64
    <3>1. d.long = j + 1
      <4> HIDE DEF x
      <4> QED
        BY <1>1, <1>2, <2>2
    <3>2. d.long # 0 /\ ~(j + 1 < d.long)
      BY <3>1
    <3>3. Extended(h, x) = d.real
      BY <3>1, <3>2, ExtendedFills, Zenon
    <3> QED
      BY <2>1, <2>2, <3>2, <3>3, Zenon
  <2>3. CASE ~x.zip64
    <3>1. d.long # j + 1
      <4>1. d.long = j + 1 => d.long # 0 /\ h.extras[d.long] = x
        OBVIOUS
      <4> QED
        BY <4>1, <1>1, <2>3, Zenon
    <3>2. j + 1 < d.long
      BY <3>1, <1>2
    <3> QED
      BY <2>1, <2>3, <3>2, Zenon
  <2> QED
    BY <2>2, <2>3, Zenon
<1>3. CASE ~(j < d.long)
  <2>1. seen = d.real /\ ~(j + 1 < d.long)
    BY <1>3
  <2>2. Extended(d.real, x) = d.real
    BY ExtendedKeeps, Zenon
  <2> QED
    BY <2>1, <2>2, Zenon
<1> QED
  BY <1>2, <1>3, Zenon

(* Behind a header the directory goes on, or the file it is for is next.     *)
LEMMA LeaveHeader ==
  ASSUME Made, ZInv, pc = "extra", NEW i \in 1..Len(zip.dir), header = zip.dir[i].real,
         zip.entries[zip.dir[i].at].kind # "bad", Len(files) = zip.dir[i].kept,
         UNCHANGED <<zip, faults, off, header, extralen, files>>,
         pc' = (IF header.kind = "dir" THEN "next" ELSE "entry"),
         diroff' = Behind(zip.entries[zip.dir[i].at], zip.dir[i]), fpos' = diroff', fpos' \in Nat
  PROVE  ZInv'
<1> DEFINE d == zip.dir[i]
           h == zip.entries[d.at]
<1>1. zip \in Archives /\ HeaderLaid(zip, i) /\ header.kind = h.kind /\ d.fits \in BOOLEAN
  BY MadeFacts, HeaderFacts, Zenon DEF ZInv
<1>2. /\ d.fits => Leads(zip, i + 1, diroff')
      /\ ~d.fits => ~zip.tidy /\ diroff' \notin DOMAIN zip.entries
  <2>1. zip.tidy => d.fits
    BY <1>1, MadeFacts, Zenon
  <2> QED
    BY <1>1, <2>1, Zenon DEF HeaderLaid
<1>3. TypeOK'
  <2>1. off' \in 0..Far /\ diroff' \in Nat /\ fpos' \in Nat /\ extralen' \in Nat
    BY Zenon DEF ZInv, TypeOK
  <2> QED
    BY <2>1, StaysInv, Zenon DEF TypeOK
<1>4. CASE h.kind = "dir"
  <2>1. pc' = "next"
    BY <1>1, <1>4, Zenon
  <2>2. ASSUME d.fits PROVE GoesOn(diroff)'
    <3>1. Kept(zip, i + 1) = d.kept + 0 /\ d.kept \in Nat
      BY <1>1, <1>4, HeaderFacts, Zenon DEF HeaderLaid
    <3>2. Kept(zip, i + 1) = d.kept
      <4> HIDE DEF d
      <4> QED
        BY <3>1
    <3>3. i + 1 \in 1..(Len(zip.dir) + 1)
      <4>1. Len(zip.dir) \in Nat
        BY <1>1, MadeFacts, Zenon
      <4> QED
        BY <4>1
    <3> QED
      BY <1>2, <2>2, <3>2, <3>3, Zenon DEF GoesOn
  <2>3. GoesOn(diroff)'
    BY <1>2, <2>2, Zenon DEF GoesOn
  <2> QED
    BY <1>3, <2>1, <2>3, StaysInv, Zenon DEF ZInv, SuccessIsComplete, Window, Walk, Unharmed
<1>5. CASE h.kind # "dir"
  <2>1. pc' = "entry" /\ h.kind = "file"
    BY <1>1, <1>5, HeaderFacts, Zenon
  <2>2. Entered(i)'
    BY <1>1, <1>2, <2>1, Zenon DEF Entered
  <2> QED
    BY <1>3, <2>1, <2>2, StaysInv, Zenon DEF ZInv, SuccessIsComplete, Window, Walk, Unharmed
<1> QED
  BY <1>4, <1>5, Zenon

LEMMA EndOfHeaderInv == ASSUME Made, ZInv, EndOfHeader PROVE ZInv'
<1>1. /\ pc = "extra" /\ extralen < ExtraSize /\ fpos' = fpos + extralen /\ diroff' = fpos'
      /\ pc' = (IF header.kind = "dir" THEN "next" ELSE "entry")
      /\ UNCHANGED <<zip, faults, off, header, extralen, files>>
  BY Zenon DEF EndOfHeader, Stray
<1>2. PICK i \in 1..Len(zip.dir) : \E j \in 0..zip.dir[i].fields : Reading(i, j)
  BY <1>1, Zenon DEF ZInv, Walk
<1> DEFINE d == zip.dir[i]
           h == zip.entries[d.at]
<1>3. PICK j \in 0..d.fields : Reading(i, j)
  BY <1>2, Zenon
<1>4. /\ header = (IF j < d.long THEN h ELSE d.real) /\ extralen = d.left[j]
      /\ fpos + extralen = d.at + HeaderSize + h.name + h.extralen
      /\ Len(files) = d.kept /\ h.kind # "bad"
  BY <1>3, Zenon DEF Reading
<1>5. /\ FieldsLaid(h, d) /\ LengthsLaid(h, d) /\ h.extralen \in Nat /\ d.fits \in BOOLEAN
      /\ d.at \in Nat /\ h.name \in Nat
  BY HeaderFacts, Zenon DEF ZInv
<1>6. j = d.fields /\ d.fits /\ d.fields \in Nat /\ d.left[j] \in Nat
  <2>1. j \in 0..d.fields
    BY Zenon
  <2> HIDE DEF d, h
  <2>2. d.fields \in Nat /\ d.left[j] \in Nat /\ (d.left[j] < ExtraSize => j = d.fields /\ d.fits)
    BY <2>1, <1>5, NextField, Zenon
  <2> QED
    BY <2>2, <1>1, <1>4, Zenon
<1>7. header = d.real
  <2>1. d.long \in 0..d.fields
    BY <1>5, Zenon DEF LengthsLaid
  <2>2. ~(j < d.long)
    <3> HIDE DEF d
    <3> QED
      BY <1>6, <2>1
  <2> QED
    BY <1>4, <2>2, Zenon
<1>8. diroff' = Behind(h, d) /\ fpos' \in Nat
  <2>1. fpos \in Nat /\ extralen \in Nat
    BY Zenon DEF ZInv, TypeOK
  <2> HIDE DEF d, h
  <2>2. fpos' \in Nat
    BY <1>1, <2>1
  <2>3. Behind(h, d) = d.at + HeaderSize + h.name + h.extralen + 0
    BY <1>6, Zenon DEF Behind
  <2>4. d.at + HeaderSize + h.name + h.extralen + 0 = d.at + HeaderSize + h.name + h.extralen
    BY <1>5, SizesAreNumbers
  <2> QED
    BY <1>1, <1>4, <2>2, <2>3, <2>4, Zenon
<1> QED
  BY <1>1, <1>4, <1>7, <1>8, LeaveHeader, Zenon

LEMMA ReadExtraInv == ASSUME Made, ZInv, ReadExtra PROVE ZInv'
<1> DEFINE x == Head(extras)
<1>1. /\ pc = "extra" /\ extralen >= ExtraSize /\ extras # << >>
      /\ UNCHANGED <<zip, faults, off, files>>
      /\ \/ /\ ExtraSize + x.size <= extralen
            /\ extralen' = extralen - (ExtraSize + x.size)
            /\ fpos' = fpos + ExtraSize + x.size
            /\ header' = (IF x.zip64 THEN Extended(header, x) ELSE header)
            /\ extras' = Tail(extras)
            /\ UNCHANGED <<diroff, pc>>
         \/ /\ ExtraSize + x.size > extralen
            /\ fpos' = fpos + ExtraSize + extralen
            /\ diroff' = fpos'
            /\ pc' = (IF header.kind = "dir" THEN "next" ELSE "entry")
            /\ UNCHANGED <<header, extras, extralen>>
  BY Zenon DEF ReadExtra
<1>2. PICK i \in 1..Len(zip.dir) : \E j \in 0..zip.dir[i].fields : Reading(i, j)
  BY <1>1, Zenon DEF ZInv, Walk
<1> DEFINE d == zip.dir[i]
           h == zip.entries[d.at]
<1>3. PICK j \in 0..d.fields : Reading(i, j)
  BY <1>2, Zenon
<1>4. /\ header = (IF j < d.long THEN h ELSE d.real) /\ extralen = d.left[j]
      /\ fpos + extralen = d.at + HeaderSize + h.name + h.extralen
      /\ IsSeq(extras) /\ Len(extras) + j = Len(h.extras)
      /\ \A k \in 1..Len(extras) : extras[k] = h.extras[j + k]
      /\ Len(files) = d.kept /\ h.kind # "bad"
  BY <1>3, Zenon DEF Reading
<1>5. /\ FieldsLaid(h, d) /\ LengthsLaid(h, d) /\ h.extralen \in Nat /\ d.fits \in BOOLEAN
      /\ d.at \in Nat /\ h.name \in Nat
  BY HeaderFacts, Zenon DEF ZInv
<1>6. /\ d.fields \in Nat /\ d.long \in Nat /\ d.left[j] \in Nat /\ Len(h.extras) \in Nat
      /\ j < Len(h.extras) =>
           /\ h.extras[j + 1].size \in Nat
           /\ d.left[j] >= ExtraSize /\ ExtraSize + h.extras[j + 1].size > d.left[j] =>
                j = d.fields /\ ~d.fits
           /\ ExtraSize + h.extras[j + 1].size <= d.left[j] =>
                /\ j + 1 \in 0..d.fields
                /\ d.left[j + 1] = d.left[j] - (ExtraSize + h.extras[j + 1].size)
  <2>1. j \in 0..d.fields
    BY Zenon
  <2> HIDE DEF d, h
  <2> QED
    BY <2>1, <1>5, NextField, Zenon
<1>7. /\ IsSeq(Tail(extras)) /\ Len(Tail(extras)) = Len(extras) - 1 /\ Len(extras) \in Nat \ {0}
      /\ x = extras[1] /\ \A k \in 1..(Len(extras) - 1) : Tail(extras)[k] = extras[k + 1]
  BY <1>1, <1>4, TailFacts, Zenon
<1>8. j \in Nat /\ j < Len(h.extras) /\ x = h.extras[j + 1]
  <2> HIDE DEF d, h, x
  <2>1. j \in Nat /\ 1 \in 1..Len(extras) /\ j < Len(h.extras)
    BY <1>4, <1>6, <1>7
  <2> QED
    BY <2>1, <1>4, <1>7, Zenon
<1>9. x.size \in Nat /\ fpos \in Nat /\ off \in 0..Far /\ diroff \in Nat
  BY <1>6, <1>8, Zenon DEF ZInv, TypeOK
<1>10. CASE ExtraSize + x.size <= extralen
  <2>1. /\ extralen' = extralen - (ExtraSize + x.size) /\ fpos' = fpos + ExtraSize + x.size
        /\ header' = (IF x.zip64 THEN Extended(header, x) ELSE header)
        /\ extras' = Tail(extras) /\ UNCHANGED <<diroff, pc>>
    <3>1. ~(ExtraSize + x.size > extralen)
      <4>1. extralen \in Nat
        BY <1>4, <1>6, Zenon
      <4> HIDE DEF x
      <4> QED
        BY <1>9, <1>10, <4>1, SizesAreNumbers
    <3> QED
      BY <1>1, <3>1, Zenon
  <2>2. j + 1 \in 0..d.fields /\ extralen' = d.left[j + 1]
    BY <1>4, <1>6, <1>8, <1>10, <2>1, Zenon
  <2>3. extralen' \in Nat /\ fpos' \in Nat /\ fpos' + extralen' = fpos + extralen
    <3>1. extralen \in Nat
      BY <1>4, <1>6, Zenon
    <3>2. extralen' = extralen - (ExtraSize + x.size) /\ fpos' = fpos + ExtraSize + x.size
      BY <2>1, Zenon
    <3>3. x.size \in Nat /\ fpos \in Nat /\ ExtraSize + x.size <= extralen
      BY <1>9, <1>10, Zenon
    <3>4. ExtraSize \in Nat
      BY SizesAreNumbers
    <3> DEFINE n == x.size
    <3> HIDE DEF x, d, h
    <3>5. /\ extralen - (ExtraSize + x.size) \in Nat /\ fpos + ExtraSize + x.size \in Nat
          /\ (fpos + ExtraSize + x.size) + (extralen - (ExtraSize + x.size)) = fpos + extralen
      <4>1. n \in Nat /\ fpos \in Nat /\ ExtraSize + n <= extralen
        BY <3>3, Zenon
      <4> HIDE DEF n
      <4>2. /\ extralen - (ExtraSize + n) \in Nat /\ fpos + ExtraSize + n \in Nat
            /\ (fpos + ExtraSize + n) + (extralen - (ExtraSize + n)) = fpos + extralen
        BY <3>1, <3>4, <4>1, Taken
      <4> QED
        BY <4>2, Zenon DEF n
    <3> QED
      BY <3>2, <3>5, Zenon
  <2>4. header' = (IF j + 1 < d.long THEN h ELSE d.real)
    <3>1. j + 1 \in 1..d.fields
      <4> HIDE DEF d
      <4> QED
        BY <1>6, <1>8, <2>2
    <3>2. h.extras[j + 1].size \in Nat
      BY <1>8, <1>9, Zenon
    <3> DEFINE seen == IF j < d.long THEN h ELSE d.real
    <3>3. header' = (IF x.zip64 THEN Extended(seen, x) ELSE seen)
      BY <1>4, <2>1, Zenon
    <3>4. (IF h.extras[j + 1].zip64 THEN Extended(seen, h.extras[j + 1]) ELSE seen)
            = IF j + 1 < d.long THEN h ELSE d.real
      <4>1. FieldsLaid(h, d) /\ LengthsLaid(h, d) /\ d.long \in Nat /\ j \in Nat
        BY <1>5, <1>6, <1>8, Zenon
      <4> HIDE DEF d, h
      <4> QED
        BY <4>1, <3>1, <3>2, NextSeen, Zenon
    <3> HIDE DEF d, h, x
    <3> QED
      BY <1>8, <3>3, <3>4, Zenon
  <2>5. Len(extras') + (j + 1) = Len(h.extras)
    <3>1. /\ Len(extras) + j = Len(h.extras) /\ Len(extras) \in Nat \ {0} /\ j \in Nat
          /\ Len(extras') = Len(extras) - 1
      BY <1>4, <1>7, <1>8, <2>1, Zenon
    <3> HIDE DEF h, x, d
    <3> QED
      BY <3>1
  <2>6. ASSUME NEW k \in 1..Len(extras') PROVE extras'[k] = h.extras[(j + 1) + k]
    <3> HIDE DEF h, x, d
    <3>1. k \in 1..(Len(extras) - 1) /\ k + 1 \in 1..Len(extras) /\ j + (k + 1) = (j + 1) + k
      BY <1>7, <1>8, <2>1
    <3>2. extras'[k] = extras[k + 1]
      BY <1>7, <2>1, <3>1, Zenon
    <3> QED
      BY <1>4, <3>1, <3>2, Zenon
  <2>7. Reading(i, j + 1)'
    <3>1. IsSeq(extras)'
      BY <1>7, <2>1, Zenon DEF IsSeq
    <3>2. fpos' + extralen' = d.at + HeaderSize + h.name + h.extralen
      BY <1>4, <2>3, Zenon
    <3>3. Len(files') = d.kept /\ h.kind # "bad" /\ zip' = zip
      BY <1>1, <1>4, Zenon
    <3> QED
      BY <2>2, <2>4, <2>5, <2>6, <3>1, <3>2, <3>3, Zenon DEF Reading
  <2>8. pc' = "extra"
    BY <1>1, <2>1, Zenon
  <2>9. Walk'
    BY <1>1, <2>2, <2>7, <2>8, Zenon DEF Walk
  <2>10. TypeOK'
    BY <1>1, <1>9, <2>1, <2>3, <2>8, StaysInv, Zenon DEF TypeOK
  <2> QED
    BY <1>1, <2>8, <2>9, <2>10, StaysInv, Zenon DEF ZInv, SuccessIsComplete, Window, Unharmed
<1>11. CASE ~(ExtraSize + x.size <= extralen)
  <2>1. /\ ExtraSize + x.size > extralen
        /\ fpos' = fpos + ExtraSize + extralen /\ diroff' = fpos'
        /\ pc' = (IF header.kind = "dir" THEN "next" ELSE "entry")
        /\ UNCHANGED <<header, extralen>>
    BY <1>1, <1>11, Zenon
  <2>2. j = d.fields /\ ~d.fits
    BY <1>1, <1>4, <1>6, <1>8, <2>1, Zenon
  <2>3. header = d.real
    <3>1. d.long \in 0..d.fields
      BY <1>5, Zenon DEF LengthsLaid
    <3>2. ~(j < d.long)
      <4> HIDE DEF d
      <4> QED
        BY <1>6, <2>2, <3>1
    <3> QED
      BY <1>4, <3>2, Zenon
  <2>4. diroff' = Behind(h, d) /\ fpos' \in Nat
    <3>1. extralen \in Nat
      BY <1>4, <1>6, Zenon
    <3> HIDE DEF d, h, x
    <3>2. fpos' \in Nat /\ fpos' = (fpos + extralen) + ExtraSize
      BY <1>9, <2>1, <3>1, SizesAreNumbers
    <3>3. Behind(h, d) = d.at + HeaderSize + h.name + h.extralen + ExtraSize
      BY <2>2, Zenon DEF Behind
    <3> QED
      BY <1>4, <2>1, <3>2, <3>3, Zenon
  <2> QED
    BY <1>1, <1>4, <2>1, <2>3, <2>4, LeaveHeader, Zenon
<1> QED
  BY <1>10, <1>11, Zenon

(* The file that is written is the next one of the archive, and reading its  *)
(* data leaves the place where the directory goes on as it was.              *)
LEMMA ExtractInv == ASSUME Made, ZInv, extract_path PROVE ZInv'
<1>1. PICK whole \in BOOLEAN :
        files' = Append(files, [path |-> header.path, from |-> DataStart(header.local),
                                size |-> header.compressed, whole |-> whole])
  BY Zenon DEF extract_path
<1>2. /\ pc = "entry" /\ pc' = "next" /\ header.local \in DOMAIN zip.locals
      /\ fpos' \in DataStart(header.local)..zip.size
      /\ UNCHANGED <<zip, faults, off, diroff, header, extras, extralen>>
  BY Zenon DEF extract_path
<1>3. PICK i \in 1..Len(zip.dir) : Entered(i)
  BY <1>2, Zenon DEF ZInv, Walk
<1> DEFINE d == zip.dir[i]
           h == zip.entries[d.at]
           f == zip.content[d.kept + 1]
           r == [path |-> header.path, from |-> DataStart(header.local),
                 size |-> header.compressed, whole |-> whole]
<1>4. /\ header = d.real /\ h.kind = "file" /\ Len(files) = d.kept
      /\ IF d.fits THEN Leads(zip, i + 1, diroff)
         ELSE ~zip.tidy /\ diroff \notin DOMAIN zip.entries
  BY <1>3, Zenon DEF Entered
<1>5. /\ zip \in Archives /\ HeaderLaid(zip, i) /\ IsSeq(files) /\ FilesAreEntries
      /\ Len(zip.dir) \in Nat /\ Len(zip.content) \in Nat
      /\ d.kept \in Nat /\ header.path = h.path /\ LengthsLaid(h, d)
  BY <1>4, MadeFacts, HeaderFacts, Zenon DEF ZInv
<1>6. r.path = f.path /\ r.from = f.from /\ r.size = f.size /\ r.size # Big
  <2>1. /\ f.path = h.path /\ f.size = d.real.compressed
        /\ f.from = d.real.local + LocalSize + zip.locals[d.real.local]
    BY <1>2, <1>4, <1>5, Zenon DEF HeaderLaid
  <2>2. d.real.compressed # Big
    BY <1>5, Zenon DEF LengthsLaid, Lengths
  <2>3. r.path = header.path /\ r.from = DataStart(header.local) /\ r.size = header.compressed
    BY Zenon
  <2> QED
    BY <1>4, <1>5, <2>1, <2>2, <2>3, Zenon DEF DataStart
<1>7. d.kept + 1 = Kept(zip, i + 1) /\ d.kept + 1 <= Len(zip.content)
  <2>1. Kept(zip, i + 1) = d.kept + 1
    BY <1>4, <1>5, Zenon DEF HeaderLaid
  <2>2. CASE i + 1 <= Len(zip.dir)
    <3>1. i + 1 \in 1..Len(zip.dir) /\ Kept(zip, i + 1) = zip.dir[i + 1].kept
      BY <2>2, <1>5 DEF Kept
    <3>2. zip.dir[i + 1].kept \in 0..Len(zip.content)
      BY <3>1, <1>5, MadeFacts, Zenon DEF HeaderLaid
    <3> HIDE DEF d
    <3> QED
      BY <2>1, <3>1, <3>2, <1>5
  <2>3. CASE ~(i + 1 <= Len(zip.dir))
    <3>1. Kept(zip, i + 1) = Len(zip.content)
      BY <2>3, Zenon DEF Kept
    <3> HIDE DEF d
    <3> QED
      BY <2>1, <3>1, <1>5
  <2> QED
    BY <2>2, <2>3, Zenon
<1>8. /\ IsSeq(files') /\ Len(files) \in Nat /\ Len(files') = Len(files) + 1
      /\ DOMAIN files = 1..Len(files) /\ DOMAIN files' = 1..(Len(files) + 1)
      /\ \A k \in 1..Len(files) : files'[k] = files[k]
      /\ files'[Len(files) + 1] = r
  <2>1. files' = Append(files, r)
    BY <1>1, Zenon
  <2> HIDE DEF r
  <2>2. /\ IsSeq(Append(files, r)) /\ Len(files) \in Nat /\ Len(Append(files, r)) = Len(files) + 1
        /\ DOMAIN files = 1..Len(files) /\ DOMAIN Append(files, r) = 1..(Len(files) + 1)
        /\ \A k \in 1..Len(files) : Append(files, r)[k] = files[k]
        /\ Append(files, r)[Len(files) + 1] = r
    BY <1>5, AppendFacts, Zenon
  <2> QED
    BY <2>1, <2>2, Zenon
<1> HIDE DEF r
<1>9. ASSUME NEW k \in DOMAIN files'
      PROVE  /\ files'[k].size # Big /\ files'[k].path = zip.content[k].path
             /\ files'[k].from = zip.content[k].from /\ files'[k].size = zip.content[k].size
  <2>1. CASE k = Len(files) + 1
    BY <2>1, <1>4, <1>6, <1>8, Zenon
  <2>2. CASE k # Len(files) + 1
    <3>1. k \in 1..Len(files)
      BY <2>2, <1>8
    <3>2. k \in DOMAIN files /\ files'[k] = files[k]
      BY <3>1, <1>8, Zenon
    <3> QED
      BY <3>2, Zenon DEF ZInv, TypeOK, FilesAreEntries
  <2> QED
    BY <2>1, <2>2, Zenon
<1>10. FilesAreEntries'
  <2>1. Len(files') <= Len(zip.content)
    BY <1>4, <1>7, <1>8, Zenon
  <2> QED
    BY <1>2, <1>9, <2>1, Zenon DEF FilesAreEntries
<1>11. TypeOK'
  <2>1. fpos' \in Nat
    <3>1. header.local \in Nat /\ zip.locals[header.local] \in Nat /\ zip.size \in Nat
      <4>1. ArchiveOK(zip)
        BY <1>5, ZipConstants, Zenon
      <4> QED
        BY <4>1, <1>2 DEF ArchiveOK
    <3>2. DataStart(header.local) \in Nat
      BY <3>1, SizesAreNumbers DEF DataStart
    <3> QED
      BY <1>2, <3>1, <3>2
  <2>2. off' \in 0..Far /\ diroff' \in Nat /\ extralen' \in Nat
    BY <1>2, Zenon DEF ZInv, TypeOK
  <2> QED
    BY <1>2, <1>9, <2>1, <2>2, Zenon DEF TypeOK
<1>12. GoesOn(diroff)'
  <2>1. i + 1 \in 1..(Len(zip.dir) + 1) /\ Len(files') = Kept(zip, i + 1)
    <3>1. i + 1 \in 1..(Len(zip.dir) + 1)
      BY <1>5
    <3> QED
      BY <3>1, <1>4, <1>7, <1>8, Zenon
  <2>2. CASE d.fits
    BY <1>2, <1>4, <2>1, <2>2, Zenon DEF GoesOn
  <2>3. CASE ~d.fits
    BY <1>2, <1>4, <2>3, Zenon DEF GoesOn
  <2> QED
    BY <2>2, <2>3, Zenon
<1> QED
  <2>1. zip' \in Archives /\ faults' \in FaultSets /\ IsSeq(files)'
    BY <1>2, <1>8, Zenon DEF ZInv, IsSeq
  <2> QED
    BY <1>2, <1>10, <1>11, <1>12, <2>1, Zenon
       DEF ZInv, SuccessIsComplete, Window, Walk, Unharmed

LEMMA NextInv == ASSUME Made, ZInv, [Next]_vars PROVE ZInv'
<1>1. CASE UNCHANGED vars
  <2>1. TypeOK'
    BY <1>1, Zenon DEF vars, ZInv, TypeOK
  <2>2. Window'
    BY <1>1, Zenon DEF vars, ZInv, Window
  <2>3. Walk'
    <3>1. /\ UNCHANGED <<zip, fpos, diroff, header, extras, extralen, files, pc>>
          /\ Walk
      BY <1>1, Zenon DEF vars, ZInv
    <3>2. GoesOn(diroff)' = GoesOn(diroff) /\ GoesOn(fpos)' = GoesOn(fpos)
      BY <3>1, Zenon DEF GoesOn
    <3>3. ASSUME NEW i, NEW j, Reading(i, j) PROVE Reading(i, j)'
      BY <3>1, <3>3, ZenonT(40) DEF Reading, IsSeq
    <3>4. \A i : Entered(i)' = Entered(i)
      BY <3>1, Zenon DEF Entered
    <3> QED
      BY <3>1, <3>2, <3>3, <3>4, Zenon DEF Walk
  <2> QED
    BY <1>1, <2>1, <2>2, <2>3, StaysInv, Zenon DEF vars, ZInv, SuccessIsComplete, Unharmed
<1> QED
  BY <1>1, CapWindowInv, OpenInv, NextFileInv, EndOfDirectoryInv, ReadHeaderInv, ReadExtraInv,
     EndOfHeaderInv, HeaderFailsInv, EntryFailsInv, ExtractInv, Zenon DEF Next

LEMMA Inductive == ASSUME Made PROVE Spec => []ZInv
<1>1. Init => ZInv
  BY InitInv, Zenon
<1>2. ZInv /\ [Next]_vars => ZInv'
  BY NextInv, Zenon
<1> QED
  BY <1>1, <1>2, PTL DEF Spec

-----------------------------------------------------------------------------
(* Positions and lengths stay numbers, and no file is written with a length  *)
(* that stands for one in a zip64 field.                                     *)
THEOREM TypeCorrect == ASSUME Made PROVE Spec => []TypeOK
<1>1. ZInv => TypeOK
  BY Zenon DEF ZInv
<1> QED
  BY <1>1, Inductive, PTL

(* Whatever read, write or inflate fails, the files written are the first    *)
(* ones of the directory, each from its own data.                            *)
THEOREM FilesAreTheirEntries == ASSUME Made PROVE Spec => []FilesAreEntries
<1>1. ZInv => FilesAreEntries
  BY Zenon DEF ZInv
<1> QED
  BY <1>1, Inductive, PTL

(* The end of the directory is not reported before every file is written, if *)
(* reads do not fail and the lengths of extra fields add up.                 *)
THEOREM SuccessMeansAll == ASSUME Made PROVE Spec => []SuccessIsComplete
<1>1. ZInv => SuccessIsComplete
  BY Zenon DEF ZInv
<1> QED
  BY <1>1, Inductive, PTL

(* open_zip finds the directory of a valid archive, however long its comment *)
(* is, and neither it nor one of its entries is refused.                     *)
THEOREM ValidArchivesUnpack == ASSUME Made PROVE Spec => []ValidUnpacks
<1>1. ZInv => ValidUnpacks
  BY Zenon DEF ZInv, Unharmed, ValidUnpacks, Ended
<1> QED
  BY <1>1, Inductive, PTL
=============================================================================
