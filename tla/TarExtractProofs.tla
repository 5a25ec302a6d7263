-------------------------- MODULE TarExtractProofs --------------------------
(***************************************************************************)
(* Proofs about TarExtract, for every block size, every set of archives    *)
(* and every way the source cuts its windows.                              *)
(*                                                                         *)
(* The reader is in step when the offset it is at is a block that is no    *)
(* inner part of an entry the code handles, with a file for every such     *)
(* entry in front of it and for nothing else.  IInv states this for each   *)
(* place of next_tar_file, extract_file and extract_container; lemmas      *)
(* about the layout of an archive carry it from one header to the next.    *)
(* What the steps do to files and offsets is stated with the archive, the  *)
(* files and the offset as parameters, for any archive of Archives.        *)
(***************************************************************************)
EXTENDS TarExtract, WellFoundedInduction, TLAPS

USE SMTT(30)

(* Where the header of entry k of archive a is, and whether the code handles  *)
(* its type, or handles it and refuses its name.                             *)
H(a, k) == Offsets(a)[k]
Handled(a, k) == a[k].type # "other"
Refused(a, k) == Handled(a, k) /\ ~a[k].named
End(a)  == H(a, Len(a) + 1)
Full(a) == End(a) + 2 * Block

(* A block at p is no part of an entry that the code handles, but perhaps    *)
(* its header.                                                               *)
Clear(a, p) ==
  /\ p % Block = 0
  /\ \A k \in 1..Len(a) : Handled(a, k) => ~(H(a, k) < p /\ p < H(a, k + 1))

(* What unpacking leaves of an entry is a file or, unless w, WIN32 is        *)
(* defined, a link.                                                          *)
Leaves(a, w, k) == a[k].type = "reg" \/ (a[k].type = "link" /\ ~w)

(* The directories of the files before p, and whether a link finds its own   *)
(* among those of the files in front of it.                                  *)
DirsOf(a, p) ==
  UNION {a[k].within : k \in {j \in 1..Len(a) : a[j].type = "reg" /\ H(a, j) < p}}
Found(a, w, k) ==
  a[k].type = "link" /\ ~w => a[k].within \subseteq DirsOf(a, H(a, k))

(* The files, and d, the directories, are those of the entries before p.     *)
Before(a, w, d, fs, p) ==
  /\ \A k \in 1..Len(a) : Handled(a, k) /\ H(a, k) < p =>
       /\ a[k].named
       /\ Found(a, w, k)
       /\ Leaves(a, w, k) => \E i \in 1..Len(fs) : fs[i].at = H(a, k)
  /\ \A i \in 1..Len(fs) : fs[i].at < p
  /\ d = DirsOf(a, p)

InStep(a, w, d, fs, p) == Clear(a, p) /\ Before(a, w, d, fs, p)

(* No file is of an entry with a refused name, or of one behind it.          *)
Stopped(a, fs) ==
  \A k \in 1..Len(a) : Refused(a, k) => \A i \in 1..Len(fs) : fs[i].at < H(a, k)

(* The source has ended at p, in front of every refused name.                *)
Ended(a, fs, tot, p) ==
  /\ p = tot /\ tot < Full(a)
  /\ Stopped(a, fs)
  /\ \A k \in 1..Len(a) : Refused(a, k) => p <= H(a, k)

(* A file holds the first bytes of entry k.                                  *)
FileOf(a, f, k) ==
  /\ f.at = H(a, k)
  /\ f.link = (a[k].type = "link")
  /\ Len(f.bytes) <= a[k].size
  /\ f.bytes = [j \in 1..Len(f.bytes) |-> H(a, k) + Block + j - 1]

Files == Seq([at : Nat, link : BOOLEAN, bytes : Seq(Nat)])

(* Types, with the bounds that a consumer of the source keeps.               *)
Typed ==
  /\ TypeOK /\ ConsumesWhatItSaw
  /\ archive \in Archives /\ faults \in FaultSets /\ files \in Files
  /\ header \in [at : Nat, entry : Entry]
  /\ pc \in {"link", "reg"} => header.entry.type = pc
  /\ pc = "copy" => files # << >>

(* Between two files.                                                        *)
AtWalk ==
  /\ pc = "next" =>
       \/ InStep(archive, win32, dirs, files, spos + Unread) /\ spos + Unread <= End(archive)
       \/ Ended(archive, files, total, spos)
  /\ pc = "skip" =>
       \/ /\ InStep(archive, win32, dirs, files, spos + consume + skip)
          /\ skip > 0 => spos + consume + skip <= End(archive)
       \/ Ended(archive, files, total, spos + consume)

(* At entry k, which the code handles.                                       *)
AtEntry(k) ==
  /\ header = [at |-> H(archive, k), entry |-> archive[k]]
  /\ Handled(archive, k)
  /\ Before(archive, win32, dirs, files, H(archive, k))

(* At a file or a link: the reader is at its header, behind it, or behind as  *)
(* many bytes of it as the file has.                                         *)
AtFile ==
  /\ pc \in {"link", "reg"} =>
       \E k \in 1..Len(archive) : AtEntry(k) /\ pc = archive[k].type /\ spos = H(archive, k)
  /\ pc = "symlink" =>
       \E k \in 1..Len(archive) :
         /\ AtEntry(k) /\ archive[k].type = "link" /\ archive[k].named
         /\ spos = H(archive, k) + Block /\ padding = 0 /\ file_size = 0
  /\ pc = "open" =>
       \E k \in 1..Len(archive) :
         /\ AtEntry(k) /\ archive[k].type = "reg" /\ archive[k].named
         /\ spos = H(archive, k) + Block
         /\ file_size = archive[k].size /\ padding = Padding(file_size)
  /\ pc = "copy" =>
       \E k \in 1..Len(archive) :
         /\ archive[k].type = "reg"
         /\ Before(archive, win32, dirs, files, H(archive, k) + 1)
         /\ spos + left = H(archive, k) + Block + archive[k].size
         /\ file_opened /\ padding = Padding(archive[k].size)
         /\ files[Len(files)].at = H(archive, k)
         /\ H(archive, k) + Block + Len(files[Len(files)].bytes) = spos + len

(* Returned.                                                                 *)
AtEnd ==
  /\ pc = "ok" =>
       /\ total = Full(archive) => Before(archive, win32, dirs, files, Full(archive))
       /\ Stopped(archive, files)
       /\ \A k \in 1..Len(archive) : Refused(archive, k) => spos <= H(archive, k)
  /\ pc = "err" =>
       /\ Stopped(archive, files)
       /\ total = Full(archive) /\ ~ioerr =>
            \E k \in 1..Len(archive) : Refused(archive, k) \/ ~Found(archive, win32, k)

(* The files, one behind the other in the archive, hold bytes of their own   *)
(* entries, and all of them when nothing went wrong.                         *)
Contents ==
  /\ \A i \in 1..Len(files) :
       \E k \in 1..Len(archive) :
         /\ Leaves(archive, win32, k) /\ FileOf(archive, files[i], k)
         /\ total = Full(archive) /\ ~ioerr /\ (i < Len(files) \/ pc # "copy") =>
              Len(files[i].bytes) = archive[k].size
  /\ \A i, j \in 1..Len(files) : i < j => files[i].at < files[j].at

(* As long as the source has not failed, the reader is in step.              *)
Position == AtWalk /\ AtFile /\ AtEnd /\ Contents

IInv == Typed /\ (~failed => Position)

-----------------------------------------------------------------------------

(* A non-empty set of numbers has a least one.                               *)
LEMMA Least ==
  ASSUME NEW S, S \subseteq Nat, S # {}
  PROVE  \E x \in S : \A y \in S : x <= y
<1>1. IsWellFoundedOn(OpToRel(<, Nat), Nat)
  BY NatLessThanWellFounded, Zenon
<1>2. PICK x \in S : \A y \in S : ~(<<y, x>> \in OpToRel(<, Nat))
  BY <1>1, WFMin, Zenon
<1>3. \A y \in S : ~(y < x)
  BY <1>2, Zenon DEF OpToRel
<1> QED
  BY <1>3

(* Induction, with the property as a set.                                    *)
LEMMA Induction ==
  ASSUME NEW G, 0 \in G, \A n \in Nat : n \in G => n + 1 \in G
  PROVE  \A n \in Nat : n \in G
<1> SUFFICES ASSUME NEW m \in Nat, m \notin G PROVE FALSE
  BY Zenon
<1>0. {k \in Nat : k \notin G} # {} /\ {k \in Nat : k \notin G} \subseteq Nat
  BY Zenon
<1>1. PICK n \in {k \in Nat : k \notin G} : \A y \in {k \in Nat : k \notin G} : n <= y
  BY <1>0, Least, Zenon
<1>2. n # 0 
  BY <1>1, Zenon
<1>3. n - 1 \in Nat /\ n - 1 \in G
  BY <1>1, <1>2
<1> QED
  BY <1>1, <1>3

(* Running sums: a recursive definition by addition has a function that      *)
(* satisfies it.                                                             *)
LEMMA Sums ==
  ASSUME NEW n \in Nat, NEW g \in [1..n -> Nat]
  PROVE  \E f \in [1..(n + 1) -> Nat] :
           f = [j \in 1..(n + 1) |-> IF j = 1 THEN 0 ELSE f[j - 1] + g[j - 1]]
<1> DEFINE Sum(m, f) == /\ f \in [1..(m + 1) -> Nat] /\ f[1] = 0
                        /\ \A j \in 2..(m + 1) : f[j] = f[j - 1] + g[j - 1]
           G == {m \in Nat : m <= n => \E f : Sum(m, f)}
<1>1. 0 \in G
  <2>1. Sum(0, [j \in 1..1 |-> 0])
    OBVIOUS
  <2> QED
    BY <2>1, Zenon
<1>2. ASSUME NEW m \in Nat, m \in G PROVE m + 1 \in G
  <2>0. m + 1 \in Nat /\ (m + 1 <= n => m <= n)
    OBVIOUS
  <2> SUFFICES ASSUME m + 1 <= n PROVE \E f : Sum(m + 1, f)
    BY <2>0, Zenon
  <2>1. PICK f : Sum(m, f)
    BY <1>2
  <2> DEFINE h == [j \in 1..(m + 2) |-> IF j = m + 2 THEN f[m + 1] + g[m + 1] ELSE f[j]]
  <2>2. m + 1 \in 1..n /\ g[m + 1] \in Nat /\ f[m + 1] \in Nat
    BY <2>1
  <2>3. h \in [1..(m + 2) -> Nat] /\ h[1] = 0
    BY <2>1, <2>2
  <2>4. ASSUME NEW j \in 2..(m + 2) PROVE h[j] = h[j - 1] + g[j - 1]
    <3>1. CASE j = m + 2
      BY <3>1, <2>2
    <3>2. CASE j # m + 2
      <4>1. j \in 2..(m + 1) /\ j - 1 \in 1..(m + 2) /\ j - 1 # m + 2
        BY <3>2
      <4> QED
        BY <4>1, <2>1
    <3> QED
      BY <3>1, <3>2, Zenon
  <2>5. m + 1 + 1 = m + 2
    OBVIOUS
  <2> HIDE DEF h
  <2>6. Sum(m + 1, h)
    BY <2>3, <2>4, <2>5, Zenon
  <2> QED
    BY <2>6, Zenon
<1> HIDE DEF G
<1>3. n \in G
  BY <1>1, <1>2, Induction, Zenon
<1>4. PICK f : Sum(n, f)
  BY <1>3 DEF G
<1>5. f = [j \in 1..(n + 1) |-> IF j = 1 THEN 0 ELSE f[j - 1] + g[j - 1]]
  BY <1>4
<1> QED
  BY <1>4, <1>5, Zenon

(* Offsets(a) is such a sum, of what each entry takes in the archive.        *)
LEMMA OffsetsSum ==
  ASSUME NEW a, NEW n \in Nat, n = Len(a), \A j \in 1..n : Block * Blocks(a[j]) \in Nat
  PROVE  /\ Offsets(a) \in [1..(n + 1) -> Nat]
         /\ Offsets(a)[1] = 0
         /\ \A j \in 1..n : Offsets(a)[j + 1] = Offsets(a)[j] + Block * Blocks(a[j])
<1> DEFINE g == [j \in 1..n |-> Block * Blocks(a[j])]
           P(f) == f = [j \in 1..(n + 1) |-> IF j = 1 THEN 0 ELSE f[j - 1] + Block * Blocks(a[j - 1])]
<1>1. g \in [1..n -> Nat]
  BY Zenon
<1>2. PICK f \in [1..(n + 1) -> Nat] : f = [j \in 1..(n + 1) |-> IF j = 1 THEN 0 ELSE f[j - 1] + g[j - 1]]
  BY <1>1, Sums, Zenon
<1>3. P(f)
  <2>1. \A j \in 1..(n + 1) : j # 1 => j - 1 \in 1..n
    OBVIOUS
  <2>2. \A j \in 1..(n + 1) : f[j] = IF j = 1 THEN 0 ELSE f[j - 1] + g[j - 1]
    BY <1>2, Zenon
  <2>3. \A j \in 1..(n + 1) : f[j] = IF j = 1 THEN 0 ELSE f[j - 1] + Block * Blocks(a[j - 1])
    BY <2>1, <2>2, Zenon
  <2> QED
    BY <2>3, Zenon
<1>4. Offsets(a) = CHOOSE h : P(h)
  BY Zenon DEF Offsets
<1>5. P(Offsets(a))
  <2> HIDE DEF P
  <2> QED
    BY <1>3, <1>4, Zenon
<1>6. DOMAIN Offsets(a) = 1..(n + 1)
  BY <1>5, Zenon
<1>7. Offsets(a)[1] = 0
  BY <1>5
<1>8. ASSUME NEW j \in 1..n
      PROVE  Offsets(a)[j + 1] = Offsets(a)[j] + Block * Blocks(a[j])
  <2>1. j + 1 \in 1..(n + 1) /\ j + 1 # 1 /\ (j + 1) - 1 = j
    OBVIOUS
  <2>2. Offsets(a)[j + 1] = Offsets(a)[(j + 1) - 1] + Block * Blocks(a[(j + 1) - 1])
    BY <1>5, <2>1, Zenon
  <2> QED
    BY <2>1, <2>2, Zenon
<1>9. \A m \in Nat : m \in {i \in Nat : i <= n => Offsets(a)[i + 1] \in Nat}
  <2> DEFINE G == {i \in Nat : i <= n => Offsets(a)[i + 1] \in Nat}
  <2>1. 0 \in G
    BY <1>7
  <2>2. ASSUME NEW i \in Nat, i \in G PROVE i + 1 \in G
    BY <1>8, <2>2
  <2> HIDE DEF G
  <2>3. \A m \in Nat : m \in G
    BY <2>1, <2>2, Induction, Zenon
  <2> QED
    BY <2>3, Zenon DEF G
<1>10. ASSUME NEW j \in 1..(n + 1) PROVE Offsets(a)[j] \in Nat
  <2>1. j - 1 \in Nat /\ j - 1 <= n /\ (j - 1) + 1 = j
    OBVIOUS
  <2> QED
    BY <1>9, <2>1, Zenon
<1> QED
  <2>1. Offsets(a) = [j \in 1..(n + 1) |-> Offsets(a)[j]]
    BY <1>5, Zenon
  <2> QED
    BY <2>1, <1>7, <1>8, <1>10, Zenon

(* Division with remainder.                                                  *)
LEMMA Division ==
  ASSUME NEW n \in Nat, NEW b \in Nat \ {0}
  PROVE  /\ n \div b \in Nat /\ n % b \in 0..(b - 1)
         /\ n = b * (n \div b) + (n % b)
  OBVIOUS

(* Quotient and remainder are unique.                                        *)
LEMMA Quotient ==
  ASSUME NEW b \in Nat \ {0}, NEW q \in Nat, NEW r \in 0..(b - 1)
  PROVE  (b * q + r) \div b = q /\ (b * q + r) % b = r
<1> DEFINE n == b * q + r
<1>1. n \in Nat /\ b * q \in Nat
  OBVIOUS
<1>2. n \div b \in Nat /\ n % b \in 0..(b - 1) /\ n = b * (n \div b) + (n % b)
  BY <1>1, Division, Zenon
<1>3. b * q + r = b * (n \div b) + (n % b)
  BY <1>2, Zenon
<1>4. b * (q - (n \div b)) = (n % b) - r
  BY <1>3, <1>2
<1>5. CASE q - (n \div b) >= 1
  BY <1>5, <1>4, <1>2
<1>6. CASE (n \div b) - q >= 1
  BY <1>6, <1>4, <1>2
<1>7. q = n \div b
  BY <1>5, <1>6, <1>2
<1> QED
  BY <1>7, <1>3, <1>2

(* An entry takes its header, its payload and the padding that               *)
(* read_tar_file_header computes.                                            *)
LEMMA EntrySize ==
  ASSUME NEW e, e.size \in Nat
  PROVE  /\ Padding(e.size) \in 0..(Block - 1)
         /\ Block * Blocks(e) = Block + e.size + Padding(e.size)
         /\ Block * Blocks(e) \in Nat /\ Blocks(e) \in Nat
<1>1. Block \in Nat \ {0}
  BY TarConstants, Zenon
<1>2. PICK n \in Nat : n = e.size
  BY Zenon
<1> DEFINE q == n \div Block
           r == n % Block
<1>3. q \in Nat /\ r \in 0..(Block - 1) /\ n = Block * q + r
  BY <1>1, Division, Zenon
<1> HIDE DEF q, r
<1>4. CASE r = 0
  <2>1. Padding(n) = 0
    <3>1. Padding(n) = (Block - r) % Block
      BY Zenon DEF Padding, r
    <3>2. Block % Block = 0
      <4>1. (Block * 1 + 0) % Block = 0
        BY <1>1, Quotient
      <4> QED
        BY <4>1, <1>1
    <3> QED
      BY <3>1, <3>2, <1>4, <1>1
  <2>2. (n + Block - 1) \div Block = q
    <3>1. n + Block - 1 = Block * q + (Block - 1) /\ Block - 1 \in 0..(Block - 1)
      BY <1>1, <1>3, <1>4
    <3> QED
      BY <3>1, <1>1, <1>3, Quotient, Zenon
  <2>3. Block * (1 + q) = Block + Block * q
    BY <1>1, <1>3
  <2> QED
    BY <1>1, <1>2, <1>3, <1>4, <2>1, <2>2, <2>3 DEF Blocks
<1>5. CASE r # 0
  <2>1. Padding(n) = Block - r
    <3>1. Padding(n) = (Block - r) % Block
      BY Zenon DEF Padding, r
    <3>2. Block - r \in 0..(Block - 1) /\ Block - r = Block * 0 + (Block - r)
      BY <1>1, <1>3, <1>5
    <3>3. (Block * 0 + (Block - r)) % Block = Block - r
      BY <1>1, <3>2, Quotient, Zenon
    <3> QED
      BY <3>1, <3>2, <3>3, Zenon
  <2>2. (n + Block - 1) \div Block = q + 1
    <3>1. n + Block - 1 = Block * (q + 1) + (r - 1) /\ r - 1 \in 0..(Block - 1) /\ q + 1 \in Nat
      BY <1>1, <1>3, <1>5
    <3>2. (Block * (q + 1) + (r - 1)) \div Block = q + 1
      BY <3>1, <1>1, Quotient, Zenon
    <3> QED
      BY <3>1, <3>2, Zenon
  <2>3. Block * (1 + (q + 1)) = Block + Block * q + Block
    BY <1>1, <1>3
  <2> QED
    BY <1>1, <1>2, <1>3, <1>5, <2>1, <2>2, <2>3 DEF Blocks
<1> QED
  BY <1>4, <1>5, Zenon

(* Multiples of the block size.                                              *)
LEMMA Multiple ==
  ASSUME NEW n \in Nat, n % Block = 0
  PROVE  \E i \in Nat : n = Block * i
<1>1. Block \in Nat \ {0}
  BY TarConstants, Zenon
<1>2. n \div Block \in Nat /\ n = Block * (n \div Block) + (n % Block)
  BY <1>1, Division, Zenon
<1>3. n = Block * (n \div Block)
  BY <1>1, <1>2
<1> QED
  BY <1>2, <1>3, Zenon

(* Two of them differ by a block at least.                                   *)
LEMMA NextBlock ==
  ASSUME NEW p \in Nat, NEW q \in Nat, p % Block = 0, q % Block = 0, p < q
  PROVE  p + Block <= q
<1>1. Block \in Nat \ {0}
  BY TarConstants, Zenon
<1>2. PICK i \in Nat : p = Block * i
  BY Multiple, Zenon
<1>3. PICK j \in Nat : q = Block * j
  BY Multiple, Zenon
<1>4. i < j
  BY <1>1, <1>2, <1>3
<1>5. j - i - 1 \in Nat 
  BY <1>4
<1>6. Block * (j - i - 1) \in Nat
  BY <1>5, <1>1
<1>7. Block * (j - i - 1) = Block * j - Block * i - Block
  BY <1>1
<1> QED
  BY <1>1, <1>2, <1>3, <1>6, <1>7

(* Whole blocks lead from one to another.                                    *)
LEMMA MultipleSum ==
  ASSUME NEW p \in Nat, NEW n \in Nat, p % Block = 0
  PROVE  (p + Block * n) % Block = 0
<1>1. Block \in Nat \ {0}
  BY TarConstants, Zenon
<1>2. PICK i \in Nat : p = Block * i
  BY Multiple, Zenon
<1>3. p + Block * n = Block * (i + n) + 0 /\ i + n \in Nat /\ 0 \in 0..(Block - 1)
  BY <1>1, <1>2
<1>4. (Block * (i + n) + 0) % Block = 0
  BY <1>1, <1>3, Quotient, Zenon
<1> QED
  BY <1>3, <1>4, Zenon
(* The archives the code unpacks have their headers at multiples of the      *)
(* block size, one behind the other.                                         *)
LEMMA Layout ==
  ASSUME NEW a \in Archives
  PROVE  /\ Len(a) \in Nat /\ DOMAIN a = 1..Len(a)
         /\ \A k \in 1..Len(a) : a[k] \in Entry /\ (a[k].type = "link" => a[k].size = 0)
         /\ \A k \in 1..(Len(a) + 1) : H(a, k) \in Nat /\ H(a, k) % Block = 0
         /\ H(a, 1) = 0
         /\ \A k \in 1..Len(a) :
              H(a, k + 1) = H(a, k) + Block + a[k].size + Padding(a[k].size)
<1>1. /\ a \in Seq(Entry) /\ Len(a) \in Nat /\ DOMAIN a = 1..Len(a)
      /\ \A k \in 1..Len(a) : a[k] \in Entry /\ (a[k].type = "link" => a[k].size = 0)
  BY TarConstants
<1>2. \A k \in 1..Len(a) : a[k].size \in Nat
  BY <1>1, Zenon DEF Entry
<1>3. ASSUME NEW k \in 1..Len(a)
      PROVE  /\ Block * Blocks(a[k]) = Block + a[k].size + Padding(a[k].size)
             /\ Block * Blocks(a[k]) \in Nat /\ Blocks(a[k]) \in Nat
             /\ Padding(a[k].size) \in Nat
  BY <1>2, EntrySize
<1>4. /\ Offsets(a) \in [1..(Len(a) + 1) -> Nat] /\ Offsets(a)[1] = 0
      /\ \A k \in 1..Len(a) : Offsets(a)[k + 1] = Offsets(a)[k] + Block * Blocks(a[k])
  BY <1>1, <1>3, OffsetsSum, Zenon
<1> DEFINE G == {i \in Nat : i <= Len(a) => Offsets(a)[i + 1] % Block = 0}
<1>5. 0 \in G
  <2>1. Block \in Nat \ {0}
    BY TarConstants, Zenon
  <2>2. (Block * 0 + 0) % Block = 0
    BY <2>1, Quotient
  <2>3. Block * 0 + 0 = 0
    BY <2>1
  <2>4. Offsets(a)[0 + 1] = 0
    BY <1>4
  <2> QED
    BY <2>2, <2>3, <2>4, Zenon
<1>6. ASSUME NEW i \in Nat, i \in G PROVE i + 1 \in G
  <2> SUFFICES ASSUME i + 1 <= Len(a) PROVE Offsets(a)[i + 1 + 1] % Block = 0
    OBVIOUS
  <2>1. i + 1 \in 1..Len(a) /\ i + 1 \in 1..(Len(a) + 1) /\ i <= Len(a)
    BY <1>1
  <2>2. Offsets(a)[i + 1] % Block = 0 /\ Offsets(a)[i + 1] \in Nat
    BY <1>4, <1>6, <2>1, Zenon
  <2>3. Offsets(a)[i + 1 + 1] = Offsets(a)[i + 1] + Block * Blocks(a[i + 1])
    BY <1>4, <2>1, Zenon
  <2> QED
    BY <1>3, <2>1, <2>2, <2>3, MultipleSum, Zenon
<1> HIDE DEF G
<1>7. \A i \in Nat : i \in G
  BY <1>5, <1>6, Induction, Zenon
<1>8. ASSUME NEW k \in 1..(Len(a) + 1) PROVE Offsets(a)[k] % Block = 0
  <2>1. k - 1 \in Nat /\ k - 1 <= Len(a) /\ (k - 1) + 1 = k
    BY <1>1
  <2> QED
    BY <1>7, <2>1, Zenon DEF G
<1>9. ASSUME NEW k \in 1..Len(a)
      PROVE  Offsets(a)[k + 1] = Offsets(a)[k] + Block + a[k].size + Padding(a[k].size)
  <2>1. Offsets(a)[k + 1] = Offsets(a)[k] + (Block + a[k].size + Padding(a[k].size))
    BY <1>3, <1>4, Zenon
  <2>2. Offsets(a)[k] \in Nat
    BY <1>1, <1>4
  <2>3. a[k].size \in Nat /\ Padding(a[k].size) \in Nat /\ Block \in Nat
    BY <1>2, <1>3, TarConstants, Zenon
  <2> QED
    BY <2>1, <2>2, <2>3
<1> QED
  BY <1>1, <1>4, <1>8, <1>9, Zenon DEF H

(* An entry ends where the next begins, or in front of it.                   *)
LEMMA EntryEnds ==
  ASSUME NEW a \in Archives, NEW k \in 1..Len(a)
  PROVE  /\ a[k].size \in Nat /\ Padding(a[k].size) \in 0..(Block - 1)
         /\ H(a, k) \in Nat /\ H(a, k + 1) \in Nat
         /\ H(a, k) + Block <= H(a, k + 1) /\ H(a, k) < H(a, k + 1)
<1>1. a[k].size \in Nat /\ Block \in Nat \ {0}
  BY Layout, TarConstants, Zenon DEF Entry
<1>2. Padding(a[k].size) \in 0..(Block - 1)
  BY <1>1, EntrySize, Zenon
<1>3. H(a, k) \in Nat /\ H(a, k + 1) = H(a, k) + Block + a[k].size + Padding(a[k].size)
  BY Layout
<1> QED
  BY <1>1, <1>2, <1>3

(* Headers are in the order of their entries.                                *)
LEMMA Ascending ==
  ASSUME NEW a \in Archives, NEW j \in 1..(Len(a) + 1), NEW k \in 1..(Len(a) + 1), j < k
  PROVE  H(a, j + 1) <= H(a, k)
<1> DEFINE G == {i \in Nat : j + 1 + i <= Len(a) + 1 => H(a, j + 1) <= H(a, j + 1 + i)}
<1>0. Len(a) \in Nat
  BY Layout, Zenon
<1>1. 0 \in G
  <2>1. j + 1 \in 1..(Len(a) + 1)
    BY <1>0
  <2>2. H(a, j + 1) \in Nat
    BY <2>1, Layout, Zenon
  <2> QED
    BY <2>2
<1>2. ASSUME NEW i \in Nat, i \in G PROVE i + 1 \in G
  <2> SUFFICES ASSUME j + 1 + (i + 1) <= Len(a) + 1 PROVE H(a, j + 1) <= H(a, j + 1 + (i + 1))
    OBVIOUS
  <2>1. j + 1 + i \in 1..Len(a) /\ j + 1 + i <= Len(a) + 1 /\ j + 1 + (i + 1) = (j + 1 + i) + 1 /\ j + 1 \in 1..(Len(a) + 1)
    BY <1>0
  <2>2. H(a, j + 1) <= H(a, j + 1 + i)
    BY <1>2, <2>1, Zenon
  <2>3. H(a, j + 1) \in Nat /\ H(a, j + 1 + i) \in Nat /\ H(a, (j + 1 + i) + 1) \in Nat
        /\ H(a, j + 1 + i) < H(a, (j + 1 + i) + 1)
    BY <2>1, EntryEnds, Layout, Zenon
  <2> QED
    BY <2>1, <2>2, <2>3
<1> HIDE DEF G
<1>3. \A i \in Nat : i \in G
  BY <1>1, <1>2, Induction, Zenon
<1>4. PICK m \in Nat : j + 1 + m = k
  <2>1. k - j - 1 \in Nat /\ j + 1 + (k - j - 1) = k
    BY <1>0
  <2> QED
    BY <2>1, Zenon
<1>5. k <= Len(a) + 1 /\ m \in G
  BY <1>0, <1>3
<1> QED
  BY <1>4, <1>5, Zenon DEF G

(* Every offset in front of the end marker belongs to one entry.             *)
LEMMA Inside ==
  ASSUME NEW a \in Archives, NEW p \in Nat, p < End(a)
  PROVE  \E k \in 1..Len(a) : H(a, k) <= p /\ p < H(a, k + 1)
<1> DEFINE S == {i \in 1..(Len(a) + 1) : p < H(a, i)}
<1>0. Len(a) \in Nat
  BY Layout, Zenon
<1>1. S # {} /\ S \subseteq Nat
  <2>1. Len(a) + 1 \in S
    BY <1>0 DEF End
  <2> QED
    BY <2>1
<1>2. PICK n \in S : \A i \in S : n <= i
  BY <1>1, Least, Zenon
<1>3. n \in 1..(Len(a) + 1) /\ p < H(a, n)
  BY <1>2, Zenon
<1>4. n # 1
  BY <1>3, Layout
<1>5. n - 1 \in 1..Len(a) /\ n - 1 \notin S /\ n - 1 \in 1..(Len(a) + 1)
  BY <1>0, <1>2, <1>3, <1>4
<1>6. ~(p < H(a, n - 1)) /\ H(a, n - 1) \in Nat
  BY <1>5, Layout, Zenon
<1>7. (n - 1) + 1 = n
  BY <1>3
<1> QED
  BY <1>3, <1>5, <1>6, <1>7

(* Every entry is in front of the end marker, two blocks that end the        *)
(* archive.                                                                  *)
LEMMA EndFacts ==
  ASSUME NEW a \in Archives
  PROVE  /\ End(a) \in Nat /\ End(a) % Block = 0 /\ Full(a) \in Nat /\ Full(a) % Block = 0
         /\ End(a) < Full(a) /\ Full(a) = End(a) + Block + Block
         /\ \A k \in 1..Len(a) : H(a, k + 1) <= End(a) /\ H(a, k) < End(a)
<1>0. Len(a) \in Nat /\ Block \in Nat \ {0} /\ Len(a) + 1 \in 1..(Len(a) + 1)
  BY Layout, TarConstants
<1>1. End(a) \in Nat /\ End(a) % Block = 0
  BY <1>0, Layout, Zenon DEF End
<1>2. (End(a) + Block * 2) % Block = 0
  BY <1>1, MultipleSum, Zenon
<1>3. Full(a) = End(a) + Block * 2
  BY <1>0, <1>1 DEF Full
<1>4. ASSUME NEW k \in 1..Len(a) PROVE H(a, k + 1) <= End(a) /\ H(a, k) < End(a)
  <2>1. k \in 1..(Len(a) + 1) /\ k < Len(a) + 1
    BY <1>0
  <2>2. H(a, k + 1) <= End(a)
    BY <1>0, <2>1, Ascending, Zenon DEF End
  <2> QED
    BY <1>1, <2>2, EntryEnds
<1> QED
  BY <1>0, <1>1, <1>2, <1>3, <1>4

(* No payload, no padding.                                                   *)
LEMMA PaddingZero == Padding(0) = 0
<1>1. Block \in Nat \ {0}
  BY TarConstants, Zenon
<1>2. (Block * 0 + 0) % Block = 0 /\ (Block * 1 + 0) % Block = 0
  BY <1>1, Quotient
<1>3. Block * 0 + 0 = 0 /\ Block * 1 + 0 = Block /\ Block - 0 = Block
  BY <1>1
<1> QED
  BY <1>2, <1>3, Zenon DEF Padding

(* The fields of what has been created.                                      *)
LEMMA FileType ==
  ASSUME NEW fs \in Files
  PROVE  /\ Len(fs) \in Nat /\ DOMAIN fs = 1..Len(fs)
         /\ \A i \in 1..Len(fs) :
              /\ fs[i] \in [at : Nat, link : BOOLEAN, bytes : Seq(Nat)]
              /\ fs[i].at \in Nat /\ fs[i].link \in BOOLEAN /\ fs[i].bytes \in Seq(Nat)
              /\ Len(fs[i].bytes) \in Nat
<1>1. /\ Len(fs) \in Nat /\ DOMAIN fs = 1..Len(fs)
      /\ \A i \in 1..Len(fs) : fs[i] \in [at : Nat, link : BOOLEAN, bytes : Seq(Nat)]
  <2>1. ASSUME NEW S, NEW s \in Seq(S)
        PROVE  Len(s) \in Nat /\ DOMAIN s = 1..Len(s) /\ \A i \in 1..Len(s) : s[i] \in S
    OBVIOUS
  <2> QED
    BY <2>1, Zenon DEF Files
<1>2. ASSUME NEW f \in [at : Nat, link : BOOLEAN, bytes : Seq(Nat)]
      PROVE  f.at \in Nat /\ f.link \in BOOLEAN /\ f.bytes \in Seq(Nat) /\ Len(f.bytes) \in Nat
  OBVIOUS
<1> QED
  BY <1>1, <1>2, Zenon

(* ---- positions in front of and behind an entry.                           *)

(* No two entries share a header.                                            *)
LEMMA Distinct ==
  ASSUME NEW a \in Archives, NEW j \in 1..Len(a), NEW k \in 1..Len(a), H(a, j) = H(a, k)
  PROVE  j = k
<1>0. /\ Len(a) \in Nat /\ j \in 1..(Len(a) + 1) /\ k \in 1..(Len(a) + 1)
      /\ H(a, j) \in Nat /\ H(a, j + 1) \in Nat /\ H(a, j) < H(a, j + 1)
      /\ H(a, k + 1) \in Nat /\ H(a, k) < H(a, k + 1)
  BY Layout, EntryEnds
<1>1. ~(j < k)
  BY <1>0, Ascending
<1>2. ~(k < j)
  BY <1>0, Ascending
<1> QED
  BY <1>0, <1>1, <1>2

(* Behind an entry there is a header, or the end marker.                     *)
LEMMA ClearBehind ==
  ASSUME NEW a \in Archives, NEW k \in 1..Len(a)
  PROVE  Clear(a, H(a, k + 1))
<1>0. Len(a) \in Nat /\ k + 1 \in 1..(Len(a) + 1)
  BY Layout
<1>1. H(a, k + 1) % Block = 0 /\ H(a, k + 1) \in Nat
  BY <1>0, Layout, Zenon
<1>2. ASSUME NEW j \in 1..Len(a), H(a, j) < H(a, k + 1), H(a, k + 1) < H(a, j + 1) PROVE FALSE
  <2>0. j \in 1..(Len(a) + 1) /\ H(a, j) \in Nat /\ H(a, j + 1) \in Nat
    BY <1>0, EntryEnds
  <2>1. CASE j < k + 1
    BY <1>0, <1>1, <1>2, <2>0, <2>1, Ascending
  <2>2. CASE j = k + 1
    BY <1>1, <1>2, <2>2
  <2>3. CASE k + 1 < j
    <3>1. H(a, k + 1 + 1) <= H(a, j)
      BY <1>0, <2>0, <2>3, Ascending, Zenon
    <3>2. k + 1 \in 1..Len(a)
      BY <1>0, <2>3
    <3>3. H(a, k + 1) < H(a, k + 1 + 1) /\ H(a, k + 1 + 1) \in Nat
      BY <3>2, EntryEnds, Zenon
    <3> QED
      BY <1>1, <1>2, <2>0, <3>1, <3>3
  <2> QED
    BY <1>0, <2>1, <2>2, <2>3
<1> QED
  BY <1>1, <1>2, Zenon DEF Clear

(* Which files are before p is all that their directories depend on.         *)
LEMMA SameDirs ==
  ASSUME NEW a, NEW p, NEW q,
         \A j \in 1..Len(a) : a[j].type = "reg" => (H(a, j) < p <=> H(a, j) < q)
  PROVE  DirsOf(a, p) = DirsOf(a, q)
<1>1. {j \in 1..Len(a) : a[j].type = "reg" /\ H(a, j) < p}
        = {j \in 1..Len(a) : a[j].type = "reg" /\ H(a, j) < q}
  BY Zenon
<1> QED
  BY <1>1, Zenon DEF DirsOf

(* A file for the entry at hand makes the files those of all entries in      *)
(* front of the next one.                                                    *)
LEMMA BeforeNext ==
  ASSUME NEW a \in Archives, NEW w, NEW d, NEW fs \in Files, NEW k \in 1..Len(a),
         Before(a, w, d, fs, H(a, k) + 1)
  PROVE  Before(a, w, d, fs, H(a, k + 1))
<1>0. Len(a) \in Nat /\ k + 1 \in 1..(Len(a) + 1) /\ H(a, k) \in Nat /\ H(a, k + 1) \in Nat
      /\ H(a, k) < H(a, k + 1)
  BY Layout, EntryEnds
<1>1. ASSUME NEW j \in 1..Len(a), H(a, j) < H(a, k + 1) PROVE H(a, j) < H(a, k) + 1
  <2>0. j \in 1..(Len(a) + 1) /\ k \in 1..(Len(a) + 1) /\ H(a, j) \in Nat /\ H(a, j + 1) \in Nat /\ H(a, j) < H(a, j + 1)
    BY <1>0, EntryEnds
  <2>1. CASE j < k
    <3>1. H(a, j + 1) <= H(a, k)
      BY <2>0, <2>1, Ascending, Zenon
    <3> QED
      BY <1>0, <2>0, <3>1
  <2>2. CASE j = k
    BY <2>2, <1>0
  <2>3. CASE k < j
    <3>1. H(a, k + 1) <= H(a, j)
      BY <2>0, <2>3, Ascending, Zenon
    <3> QED
      BY <1>0, <1>1, <2>0, <3>1
  <2> QED
    BY <1>0, <2>1, <2>2, <2>3
<1>2. ASSUME NEW i \in 1..Len(fs) PROVE fs[i].at < H(a, k + 1)
  <2>1. fs[i].at < H(a, k) + 1 /\ fs[i].at \in Nat
    BY FileType, Zenon DEF Before
  <2> QED
    BY <1>0, <2>1
<1>3. d = DirsOf(a, H(a, k + 1))
  <2>1. ASSUME NEW j \in 1..Len(a), H(a, j) < H(a, k) + 1 PROVE H(a, j) < H(a, k + 1)
    BY <1>0, <2>1, EntryEnds
  <2>2. DirsOf(a, H(a, k) + 1) = DirsOf(a, H(a, k + 1))
    BY <1>1, <2>1, SameDirs, Zenon
  <2> QED
    BY <2>2, Zenon DEF Before
<1> QED
  BY <1>1, <1>2, <1>3, Zenon DEF Before

(* What the block at a clear position says as a header.                      *)
LEMMA HeaderThere ==
  ASSUME archive \in Archives, NEW p \in Nat, NEW e \in HeadersAt(p), Quiet, Clear(archive, p)
  PROVE  /\ e \in Entry
         /\ e.type # "other" => \E k \in 1..Len(archive) : p = H(archive, k) /\ e = archive[k]
         /\ e.type = "other" =>
              \A k \in 1..Len(archive) :
                Handled(archive, k) => ~(H(archive, k) <= p /\ p < H(archive, k + 1))
<1>0. Len(archive) \in Nat /\ Entries = 1..Len(archive)
  BY Layout, Zenon DEF Entries
<1>1. \A k \in 1..Len(archive) : HeaderOff(k) = H(archive, k) /\ archive[k] \in Entry
  BY Layout, Zenon DEF HeaderOff, H
<1>2. EndMarker = End(archive)
  BY Zenon DEF EndMarker, End, HeaderOff, H
<1>3. CASE \E k \in Entries : HeaderOff(k) = p
  <2>1. PICK k \in 1..Len(archive) : e = archive[k] /\ HeaderOff(k) = p
    BY <1>0, <1>3 DEF HeadersAt
  <2>2. p = H(archive, k) /\ e \in Entry
    BY <1>1, <2>1, Zenon
  <2>3. ASSUME e.type = "other", NEW j \in 1..Len(archive), Handled(archive, j),
               H(archive, j) <= p, p < H(archive, j + 1)
        PROVE  FALSE
    <3>0. j \in 1..(Len(archive) + 1) /\ k \in 1..(Len(archive) + 1) /\ H(archive, k + 1) \in Nat /\ H(archive, k) < H(archive, k + 1)
      BY <1>0, EntryEnds
    <3>1. j # k
      BY <2>1, <2>3, Zenon DEF Handled
    <3>2. CASE j < k
      BY <2>2, <2>3, <3>0, <3>2, Ascending, EntryEnds
    <3>3. CASE k < j
      <4>1. H(archive, k + 1) <= H(archive, j) /\ H(archive, j) \in Nat
        BY <3>0, <3>3, Ascending, EntryEnds, Zenon
      <4> QED
        BY <2>2, <2>3, <3>0, <4>1
    <3> QED
      BY <1>0, <3>1, <3>2, <3>3
  <2> QED
    BY <2>1, <2>2, <2>3, Zenon
<1>4. CASE ~ \E k \in Entries : HeaderOff(k) = p
  <2>1. PICK t \in (IF p >= EndMarker THEN {"other"} ELSE DataTypes), n \in {0, 1},
             d \in {{}, Dirs} :
          e = [type |-> t, size |-> n, named |-> TRUE, within |-> d]
    BY <1>4 DEF HeadersAt
  <2>2. t \in Types /\ e.type = t
    BY <2>1, TarConstants, Zenon DEF Types
  <2>3. e \in Entry
    BY <2>1, <2>2 DEF Entry
  <2>4. ASSUME NEW j \in 1..Len(archive), Handled(archive, j),
               H(archive, j) <= p, p < H(archive, j + 1)
        PROVE  FALSE
    BY <1>0, <1>1, <1>4, <2>4, EntryEnds DEF Clear
  <2>5. t = "other"
    <3>1. CASE p >= End(archive)
      BY <1>2, <2>1, <3>1, Zenon
    <3>2. CASE DataTypes = {"other"}
      BY <2>1, <3>2, Zenon
    <3>3. CASE p < End(archive) /\ DataTypes # {"other"}
      <4>1. PICK k \in 1..Len(archive) : H(archive, k) <= p /\ p < H(archive, k + 1)
        BY <3>3, Inside, Zenon
      <4>2. ~Handled(archive, k)
        BY <2>4, <4>1, Zenon
      <4>3. archive[k].size = 0
        BY <1>0, <3>3, <4>2, Layout, Zenon DEF Quiet, Handled
      <4>4. H(archive, k + 1) = H(archive, k) + Block + 0 + Padding(0)
        BY <4>3, Layout, Zenon
      <4>5. H(archive, k + 1) = H(archive, k) + Block
        BY <4>4, PaddingZero, EntryEnds, TarConstants
      <4>6. H(archive, k) % Block = 0 /\ p % Block = 0 /\ H(archive, k) \in Nat /\ k \in 1..(Len(archive) + 1)
        BY <1>0, Layout DEF Clear
      <4>7. H(archive, k) < p
        BY <1>0, <1>1, <1>4, <4>1, <4>6
      <4> QED
        BY <4>1, <4>5, <4>6, <4>7, NextBlock, TarConstants
    <3> QED
      BY <3>1, <3>2, <3>3, EndFacts
  <2> QED
    BY <2>2, <2>3, <2>4, <2>5, Zenon
<1> QED
  BY <1>3, <1>4, Zenon

(* A block that is stepped over leaves the walk in step.                     *)
LEMMA StepOver ==
  ASSUME NEW a \in Archives, NEW w, NEW d, NEW fs \in Files, NEW p \in Nat, InStep(a, w, d, fs, p),
         \A k \in 1..Len(a) : Handled(a, k) => ~(H(a, k) <= p /\ p < H(a, k + 1))
  PROVE  InStep(a, w, d, fs, p + Block)
<1>0. Len(a) \in Nat /\ Block \in Nat \ {0}
  BY Layout, TarConstants, Zenon
<1>1. (p + Block) % Block = 0
  <2>1. (p + Block * 1) % Block = 0
    BY MultipleSum, Zenon DEF InStep, Clear
  <2> QED
    BY <1>0, <2>1
<1>2. ASSUME NEW j \in 1..Len(a), Handled(a, j), H(a, j) < p + Block
      PROVE  H(a, j + 1) <= p /\ H(a, j) < p
  <2>0. H(a, j) \in Nat /\ H(a, j + 1) \in Nat /\ H(a, j) < H(a, j + 1) /\ H(a, j) % Block = 0 /\ p % Block = 0
    BY <1>0, Layout, EntryEnds DEF InStep, Clear
  <2>1. ~(p < H(a, j))
    BY <1>0, <1>2, <2>0, NextBlock
  <2> QED
    BY <1>2, <2>0, <2>1
<1>3. Clear(a, p + Block)
  <2> SUFFICES ASSUME NEW j \in 1..Len(a), Handled(a, j), H(a, j) < p + Block, p + Block < H(a, j + 1)
               PROVE  FALSE
    BY <1>1, Zenon DEF Clear
  <2>1. H(a, j + 1) <= p /\ H(a, j + 1) \in Nat
    BY <1>2, EntryEnds, Zenon
  <2> QED
    BY <1>0, <2>1
<1>4. Before(a, w, d, fs, p + Block)
  <2>1. ASSUME NEW i \in 1..Len(fs) PROVE fs[i].at < p + Block
    <3>1. fs[i].at < p /\ fs[i].at \in Nat
      BY FileType, Zenon DEF InStep, Before
    <3> QED
      BY <1>0, <3>1
  <2>2. \A j \in 1..Len(a) : a[j].type = "reg" => Handled(a, j)
    BY Zenon DEF Handled
  <2>3. ASSUME NEW j \in 1..Len(a), H(a, j) < p PROVE H(a, j) < p + Block
    BY <1>0, <2>3, EntryEnds
  <2>4. DirsOf(a, p) = DirsOf(a, p + Block)
    BY <1>2, <2>2, <2>3, SameDirs, Zenon
  <2> QED
    BY <1>2, <2>1, <2>4, Zenon DEF InStep, Before
<1> QED
  BY <1>3, <1>4, Zenon DEF InStep

-----------------------------------------------------------------------------
(* Types, and what is consumed.                                              *)

(* The smaller of two numbers.                                               *)
LEMMA AtMostBoth ==
  ASSUME NEW m \in Nat, NEW n \in Nat
  PROVE  AtMost(m, n) \in Nat /\ AtMost(m, n) <= m /\ AtMost(m, n) <= n
  BY DEF AtMost

(* The counters, one by one.                                                 *)
LEMMA Counters ==
  ASSUME Typed
  PROVE  /\ Block \in Nat \ {0} /\ FullLen = Full(archive) /\ Full(archive) \in Nat
         /\ total \in Nat /\ total <= Full(archive)
         /\ spos \in Nat /\ spos <= total /\ slen \in Nat /\ spos + slen <= total
         /\ failed \in BOOLEAN /\ ioerr \in BOOLEAN
         /\ padding \in Nat /\ padding \in 0..(Block - 1) /\ file_size \in Nat
         /\ file_opened \in BOOLEAN
         /\ skip \in Nat /\ consume \in Nat /\ left \in Nat /\ len \in Nat
<1>1. FullLen = Full(archive) /\ Full(archive) \in Nat /\ Block \in Nat \ {0}
  BY EndFacts, TarConstants, Zenon DEF Typed, FullLen, Full, EndMarker, End, HeaderOff, H
<1> QED
  BY <1>1 DEF Typed, TypeOK

(* What a read of the source leaves: it consumes c bytes, and without a      *)
(* failure returns what was asked for or all that is left.                   *)
LEMMA Reads ==
  ASSUME Typed, NEW c \in Nat, NEW need \in Nat, c <= slen, Read(c, need)
  PROVE  /\ archive' = archive /\ win32' = win32 /\ faults' = faults /\ total' = total
         /\ spos' = spos + c /\ spos' \in Nat /\ spos' <= total
         /\ slen' \in Nat /\ slen' <= total - spos' /\ slen' \in 0..(total - spos')
         /\ failed' \in BOOLEAN
         /\ ~failed' => ~failed /\ (slen' >= need \/ slen' = total - spos')
<1>1. /\ total \in Nat /\ spos \in Nat /\ slen \in Nat /\ spos + slen <= total
      /\ failed \in BOOLEAN
  BY Counters, Zenon
<1>2. /\ archive' = archive /\ win32' = win32 /\ faults' = faults /\ total' = total
      /\ spos' = spos + c
  BY Zenon DEF Read
<1>3. spos' \in Nat /\ spos' <= total
  BY <1>1, <1>2
<1>4. CASE /\ slen' \in 0..(total - spos')
           /\ slen' >= need \/ slen' = total - spos' \/ failed
           /\ UNCHANGED failed
  BY <1>1, <1>2, <1>3, <1>4
<1>5. CASE slen' = 0 /\ failed' = TRUE
  BY <1>1, <1>2, <1>3, <1>5
<1> QED
  BY <1>4, <1>5, Zenon DEF Read

(* Whatever block next_tar_file looks at, it reads a header from it.         *)
LEMMA HeaderType ==
  ASSUME archive \in Archives, NEW p \in Nat, NEW e \in HeadersAt(p)
  PROVE  e \in Entry
<1>0. Len(archive) \in Nat /\ Entries = 1..Len(archive)
      /\ \A k \in 1..Len(archive) : archive[k] \in Entry
  BY Layout, Zenon DEF Entries
<1>1. CASE \E k \in Entries : HeaderOff(k) = p
  BY <1>0, <1>1 DEF HeadersAt
<1>2. CASE ~ \E k \in Entries : HeaderOff(k) = p
  <2>1. PICK t \in (IF p >= EndMarker THEN {"other"} ELSE DataTypes), n \in {0, 1},
             d \in {{}, Dirs} :
          e = [type |-> t, size |-> n, named |-> TRUE, within |-> d]
    BY <1>2 DEF HeadersAt
  <2>2. t \in Types
    BY <2>1, TarConstants, Zenon DEF Types
  <2> QED
    BY <2>1, <2>2 DEF Entry
<1> QED
  BY <1>1, <1>2, Zenon

(* The files with the first n bytes in the last one, of those it had and m   *)
(* more bytes of the archive, from p on.                                     *)
Longer(fs, p, m, n) ==
  [fs EXCEPT ![Len(fs)].bytes = SubSeq(@ \o [i \in 1..m |-> p + i - 1], 1, n)]

(* What is so of those files.                                                *)
Wrote(fs, gs, p, m, n) ==
  /\ Len(gs) = Len(fs)
  /\ \A i \in 1..Len(fs) : gs[i].at = fs[i].at /\ gs[i].link = fs[i].link
  /\ \A i \in 1..(Len(fs) - 1) : gs[i] = fs[i]
  /\ gs[Len(fs)].bytes = SubSeq(fs[Len(fs)].bytes \o [i \in 1..m |-> p + i - 1], 1, n)
  /\ Len(gs[Len(fs)].bytes) = n

(* What is written to the last file stays a sequence of files.               *)
LEMMA Written ==
  ASSUME NEW fs \in Files, fs # << >>, NEW p \in Nat, NEW m \in Nat,
         NEW n \in 0..(Len(fs[Len(fs)].bytes) + m)
  PROVE  /\ Longer(fs, p, m, n) \in Files /\ Longer(fs, p, m, n) # << >>
         /\ Wrote(fs, Longer(fs, p, m, n), p, m, n)
<1> DEFINE gs == Longer(fs, p, m, n)
<1> USE DEF Longer
<1> DEFINE F == [at : Nat, link : BOOLEAN, bytes : Seq(Nat)]
           w == [i \in 1..m |-> p + i - 1]
           l == Len(fs)
           f == fs[l]
           c == SubSeq(f.bytes \o w, 1, n)
           g == [f EXCEPT !.bytes = SubSeq(@ \o w, 1, n)]
<1>1. l \in Nat \ {0} /\ DOMAIN fs = 1..l /\ \A i \in 1..l : fs[i] \in F
  BY FileType DEF Files
<1>2. w \in Seq(Nat) /\ Len(w) = m
  <2>1. w \in [1..m -> Nat]
    OBVIOUS
  <2> QED
    BY <2>1
<1>3. f \in F /\ f.bytes \in Seq(Nat) /\ n \in 0..(Len(f.bytes) + m)
  BY <1>1
<1>4. c \in Seq(Nat) /\ Len(c) = n
  <2>1. /\ f.bytes \o w \in Seq(Nat) /\ Len(f.bytes \o w) = Len(f.bytes) + m
        /\ n \in 0..(Len(f.bytes) + m)
    BY <1>2, <1>3
  <2>2. ASSUME NEW x \in Seq(Nat), NEW y \in 0..Len(x)
        PROVE  SubSeq(x, 1, y) \in Seq(Nat) /\ Len(SubSeq(x, 1, y)) = y
    OBVIOUS
  <2> HIDE DEF w, f
  <2> QED
    BY <2>1, <2>2, Zenon
<1>5. g \in F /\ g.at = f.at /\ g.link = f.link /\ g.bytes = c
  BY <1>3, <1>4, Zenon
<1>6. gs = [fs EXCEPT ![l] = g]
  BY Zenon
<1> HIDE DEF w, g, c, F, gs
<1>7. gs = [i \in 1..l |-> IF i = l THEN g ELSE fs[i]]
  BY <1>1, <1>6, Zenon
<1>8. gs \in [1..l -> F]
  BY <1>1, <1>5, <1>7, Zenon
<1>9. gs \in Seq(F) /\ Len(gs) = l /\ gs # << >>
  BY <1>1, <1>8
<1>10. l \in 1..l /\ gs[l] = g /\ \A i \in 1..(l - 1) : gs[i] = fs[i] /\ i \in 1..l /\ i # l
  <2>0. l \in Nat \ {0}
    BY <1>1, Zenon
  <2>1. l \in 1..l /\ \A i \in 1..(l - 1) : i \in 1..l /\ i # l
    BY <2>0
  <2> QED
    BY <2>1, <1>7, Zenon
<1>11. ASSUME NEW i \in 1..l PROVE gs[i].at = fs[i].at /\ gs[i].link = fs[i].link
  <2>1. CASE i = l
    BY <1>5, <1>10, <2>1, Zenon
  <2>2. CASE i # l
    BY <1>7, <2>2, Zenon
  <2> QED
    BY <2>1, <2>2, Zenon
<1>12. gs[l].bytes = c /\ Len(gs[l].bytes) = n
  BY <1>4, <1>5, <1>10, Zenon
<1> QED
  BY <1>9, <1>10, <1>11, <1>12, Zenon DEF F, w, c, gs, Files, Wrote

(* A file that is created is behind the others.                              *)
LEMMA Created ==
  ASSUME NEW fs \in Files, NEW at \in Nat, NEW link \in BOOLEAN, NEW gs,
         gs = Append(fs, [at |-> at, link |-> link, bytes |-> << >>])
  PROVE  /\ gs \in Files /\ Len(gs) = Len(fs) + 1 /\ gs # << >>
         /\ \A i \in 1..Len(fs) : gs[i] = fs[i]
         /\ gs[Len(fs) + 1] = [at |-> at, link |-> link, bytes |-> << >>]
<1> DEFINE F == [at : Nat, link : BOOLEAN, bytes : Seq(Nat)]
           f == [at |-> at, link |-> link, bytes |-> << >>]
<1>1. f \in F
  OBVIOUS
<1>2. fs \in Seq(F) /\ Files = Seq(F)
  BY Zenon DEF Files
<1> HIDE DEF F, f
<1>3. gs \in Seq(F) /\ Len(gs) = Len(fs) + 1 /\ (\A i \in 1..Len(fs) : gs[i] = fs[i]) /\ gs[Len(fs) + 1] = f
  BY <1>1, <1>2 DEF f
<1> QED
  BY <1>2, <1>3, FileType DEF f

(* Types and what is consumed next, at first.                                *)
LEMMA InitTyped == Init => Typed
<1> SUFFICES ASSUME Init PROVE Typed
  BY Zenon
<1>1. FullLen \in Nat /\ Block \in Nat \ {0}
  <2>1. FullLen = Full(archive)
    BY Zenon DEF FullLen, Full, EndMarker, End, HeaderOff, H
  <2> QED
    BY <2>1, EndFacts, TarConstants, Zenon DEF Init
<1>2. total \in 0..FullLen
  BY <1>1 DEF Init
<1>3. files \in Files /\ header \in [at : Nat, entry : Entry]
  BY DEF Init, Files, NoHeader, Entry, Types
<1>4. 0 \in Nat /\ 0 \in 0..total /\ 0 \in 0..(total - 0) /\ 0 \in 0..(Block - 1)
  BY <1>1, <1>2
<1>5. /\ spos = 0 /\ slen = 0 /\ failed = FALSE /\ padding = 0 /\ file_size = 0
      /\ file_opened = FALSE /\ skip = 0 /\ consume = 0 /\ left = 0 /\ len = 0
      /\ files = << >> /\ ioerr = FALSE /\ pc = "next"
      /\ archive \in Archives /\ faults \in FaultSets /\ win32 \in BOOLEAN /\ dirs \subseteq Dirs
  BY Zenon DEF Init
<1>6. header.at \in Nat /\ header.entry \in Entry
  BY <1>3, Zenon
<1>7. DOMAIN files = {}
  BY <1>5
<1>8. TypeOK
  BY <1>2, <1>4, <1>5, <1>6, <1>7, Zenon DEF TypeOK
<1> QED
  BY <1>3, <1>5, <1>8, Zenon DEF Typed, ConsumesWhatItSaw

(* The same for every step.                                                  *)
LEMMA TypedStep == Typed /\ [Next]_vars => Typed'
<1> SUFFICES ASSUME Typed, [Next]_vars PROVE Typed'
  BY Zenon
<1>c. /\ Block \in Nat \ {0}
      /\ total \in Nat /\ spos \in Nat /\ slen \in Nat /\ padding \in Nat
      /\ padding \in 0..(Block - 1) /\ file_size \in Nat /\ file_opened \in BOOLEAN
      /\ skip \in Nat /\ consume \in Nat /\ left \in Nat /\ len \in Nat
      /\ failed \in BOOLEAN /\ ioerr \in BOOLEAN
  BY Counters, Zenon
<1>h. header \in [at : Nat, entry : Entry] /\ header.at \in Nat /\ header.entry \in Entry
      /\ header.entry.size \in Nat /\ header.entry.within \subseteq Dirs
      /\ dirs \subseteq Dirs
  BY Zenon DEF Typed, TypeOK, Entry
<1>f. /\ files \in Files /\ archive \in Archives /\ faults \in FaultSets
      /\ pc = "copy" => files # << >>
      /\ pc = "skip" => consume <= slen
      /\ pc \in {"link", "reg"} => Block <= slen
      /\ pc = "copy" => len <= slen /\ len <= left
  BY Zenon DEF Typed, ConsumesWhatItSaw
<1> DEFINE Pcs == {"next", "skip", "link", "reg", "symlink", "open", "copy", "ok", "err"}
<1>k. ASSUME /\ archive' = archive /\ win32' = win32 /\ faults' = faults /\ total' = total
             /\ dirs' \subseteq Dirs
             /\ spos' \in 0..total /\ slen' \in 0..(total - spos') /\ failed' \in BOOLEAN
             /\ ioerr' \in BOOLEAN
             /\ padding' \in 0..(Block - 1) /\ file_size' \in Nat /\ file_opened' \in BOOLEAN
             /\ skip' \in Nat /\ consume' \in Nat /\ left' \in Nat /\ len' \in Nat
             /\ header' \in [at : Nat, entry : Entry] /\ files' \in Files
             /\ pc' \in Pcs
             /\ pc' = "skip" => consume' <= slen'
             /\ pc' \in {"link", "reg"} => Block <= slen' /\ header'.entry.type = pc'
             /\ pc' = "copy" => len' <= slen' /\ len' <= left' /\ files' # << >>
      PROVE  Typed'
  <2>1. FullLen' = FullLen
    BY <1>k, Zenon DEF FullLen, EndMarker, HeaderOff
  <2>2. header'.at \in Nat /\ header'.entry \in Entry
    BY <1>k, Zenon
  <2>3. \A i \in DOMAIN files' : /\ files'[i].at \in Nat /\ files'[i].link \in BOOLEAN
                                 /\ files'[i].bytes \in Seq(Nat)
    BY <1>k, FileType, Zenon
  <2>4. total \in 0..FullLen /\ win32 \in BOOLEAN
    BY Zenon DEF Typed, TypeOK
  <2> QED
    BY <1>f, <1>k, <2>1, <2>2, <2>3, <2>4, Zenon DEF Typed, TypeOK, ConsumesWhatItSaw
<1>s. spos \in 0..total /\ slen \in 0..(total - spos) /\ pc \in Pcs
  BY <1>c, Counters, Zenon DEF Typed, TypeOK
<1>1. CASE UNCHANGED vars
  <2>1. /\ UNCHANGED <<archive, win32, faults, total, spos, slen, failed, padding, file_size, file_opened>>
        /\ UNCHANGED <<skip, consume, header, left, len, files, dirs, ioerr, pc>>
    BY <1>1, Zenon DEF vars, source, tar, out
  <2> QED
    BY <2>1, ZenonT(40) DEF Typed, TypeOK, ConsumesWhatItSaw, FullLen, EndMarker, HeaderOff
<1>2. CASE next_tar_file
  <2>1. /\ UNCHANGED <<archive, win32, faults, total, spos, slen, failed, file_size, file_opened>>
        /\ UNCHANGED <<header, left, len, files, dirs, ioerr>>
        /\ padding' = 0 /\ consume' = 0 /\ pc' = "skip" /\ skip' = Unread
    BY <1>2, Zenon DEF next_tar_file, source, out
  <2>2. skip' \in Nat /\ padding' \in 0..(Block - 1) /\ consume' \in Nat /\ consume' <= slen'
    BY <1>c, <2>1 DEF Unread
  <2> QED
    BY <1>k, <1>c, <1>h, <1>f, <1>s, <2>1, <2>2, Zenon
<1>3. CASE Skip
  <2>1. Read(consume, 1) /\ consume <= slen /\ pc' \in {"err", "skip"}
        /\ consume' = Skippable /\ skip' = skip - consume'
    BY <1>3, <1>f, Zenon DEF Skip, AfterSkip
  <2>2. UNCHANGED <<padding, file_size, file_opened, header, left, len, files, dirs, ioerr>>
    BY <1>3, Zenon DEF Skip, tar, out
  <2>3. /\ archive' = archive /\ win32' = win32 /\ faults' = faults /\ total' = total /\ spos' \in 0..total
        /\ slen' \in Nat /\ slen' \in 0..(total - spos') /\ failed' \in BOOLEAN
    BY <1>c, <2>1, Reads
  <2>4. consume' \in Nat /\ consume' <= slen' /\ consume' <= skip
    BY <1>c, <2>1, <2>3, AtMostBoth, Zenon DEF Skippable
  <2>5. skip' \in Nat
    BY <1>c, <2>1, <2>4
  <2> QED
    BY <1>k, <1>c, <1>h, <1>f, <2>1, <2>2, <2>3, <2>4, <2>5, Zenon
<1>4. CASE ReadHeader
  <2>1. Read(consume, Block) /\ consume <= slen
    BY <1>4, <1>f, Zenon DEF ReadHeader
  <2>2. UNCHANGED <<padding, file_size, file_opened, skip, left, len, files, dirs, ioerr>>
    BY <1>4, Zenon DEF ReadHeader, tar, out
  <2>3. /\ archive' = archive /\ win32' = win32 /\ faults' = faults /\ total' = total /\ spos' \in 0..total
        /\ slen' \in Nat /\ slen' \in 0..(total - spos') /\ failed' \in BOOLEAN
        /\ spos' \in Nat
    BY <1>c, <2>1, Reads
  <2>4. CASE pc' \in {"ok", "err"} /\ UNCHANGED <<consume, header>>
    BY <1>k, <1>c, <1>h, <1>f, <2>2, <2>3, <2>4, Zenon
  <2>5. ASSUME slen' >= Block, NEW e \in HeadersAt(spos'), e.type = "other",
               consume' = Block, pc' = "skip", UNCHANGED header
        PROVE  Typed'
    BY <1>k, <1>c, <1>h, <1>f, <2>2, <2>3, <2>5, Zenon
  <2>6. ASSUME slen' >= Block, NEW e \in HeadersAt(spos'), e.type # "other",
               header' = [at |-> spos', entry |-> e], pc' = e.type, UNCHANGED consume
        PROVE  Typed'
    <3>1. e \in Entry
      BY <1>f, <2>3, HeaderType, Zenon
    <3>2. pc' \in {"link", "reg"} /\ header'.entry.type = pc' /\ header' \in [at : Nat, entry : Entry]
      BY <2>3, <2>6, <3>1, Zenon DEF Entry, Types
    <3> QED
      BY <1>k, <1>c, <1>h, <1>f, <2>2, <2>3, <2>6, <3>2, Zenon
  <2> QED
    BY <1>4, <2>4, <2>5, <2>6, Zenon DEF ReadHeader
<1>5. CASE read_tar_link_header
  <2>1. Read(Block, 0) /\ Block <= slen /\ consume' = slen'
    BY <1>5, <1>f, Zenon DEF read_tar_link_header
  <2>2. UNCHANGED <<skip, header, left, len, files, dirs, ioerr>>
    BY <1>5, Zenon DEF read_tar_link_header, out
  <2>3. /\ archive' = archive /\ win32' = win32 /\ faults' = faults /\ total' = total /\ spos' \in 0..total
        /\ slen' \in Nat /\ slen' \in 0..(total - spos') /\ failed' \in BOOLEAN
    BY <1>c, <2>1, Reads
  <2>4. /\ pc' \in {"symlink", "err"} /\ padding' \in 0..(Block - 1) /\ file_size' \in Nat
        /\ file_opened' \in BOOLEAN
    <3>1. 0 \in Nat /\ 0 \in 0..(Block - 1)
      BY <1>c
    <3> QED
      BY <1>5, <1>c, <3>1, Zenon DEF read_tar_link_header, tar
  <2> QED
    BY <1>k, <1>c, <1>h, <1>f, <2>1, <2>2, <2>3, <2>4, Zenon
<1>6. CASE read_tar_file_header
  <2>1. Read(Block, 0) /\ Block <= slen /\ consume' = slen'
    BY <1>6, <1>f, Zenon DEF read_tar_file_header
  <2>2. UNCHANGED <<skip, header, left, len, files, dirs, ioerr>>
    BY <1>6, Zenon DEF read_tar_file_header, out
  <2>3. /\ archive' = archive /\ win32' = win32 /\ faults' = faults /\ total' = total /\ spos' \in 0..total
        /\ slen' \in Nat /\ slen' \in 0..(total - spos') /\ failed' \in BOOLEAN
    BY <1>c, <2>1, Reads
  <2>4. Padding(header.entry.size) \in 0..(Block - 1)
    BY <1>h, EntrySize, Zenon
  <2>5. /\ pc' \in {"open", "err"} /\ padding' \in 0..(Block - 1) /\ file_size' \in Nat
        /\ file_opened' \in BOOLEAN
    BY <1>6, <1>c, <1>h, <2>4, Zenon DEF read_tar_file_header, tar
  <2> QED
    BY <1>k, <1>c, <1>h, <1>f, <2>1, <2>2, <2>3, <2>5, Zenon
<1>7. CASE symlink
  <2>1. /\ UNCHANGED <<archive, win32, faults, total, spos, slen, failed, padding, file_size, file_opened>>
        /\ UNCHANGED <<skip, consume, header, left, len, dirs, ioerr>>
        /\ pc' \in {"next", "err"} /\ (Create(TRUE) \/ UNCHANGED files)
    BY <1>7, Zenon DEF symlink, source, tar
  <2>2. files' \in Files
    BY <1>h, <1>f, <2>1, Created, Zenon DEF Create
  <2> QED
    BY <1>k, <1>c, <1>h, <1>f, <1>s, <2>1, <2>2, Zenon
<1>8. CASE open_tar_file
  <2>1. /\ UNCHANGED <<archive, win32, faults, total, spos, slen, failed, padding, file_size>>
        /\ UNCHANGED <<skip, consume, header, ioerr>>
        /\ pc' = "copy" /\ Create(FALSE) /\ file_opened' = TRUE /\ left' = file_size /\ len' = 0
        /\ dirs' = dirs \cup header.entry.within
    BY <1>8, Zenon DEF open_tar_file, make_directory, source
  <2>2. files' \in Files /\ files' # << >>
    BY <1>h, <1>f, <2>1, Created, ZenonT(40) DEF Create
  <2>3. dirs' \subseteq Dirs
    BY <1>h, <2>1, Zenon
  <2>4. 0 \in Nat /\ 0 <= slen /\ 0 <= file_size
    BY <1>c
  <2> QED
    BY <1>k, <1>c, <1>h, <1>f, <1>s, <2>1, <2>2, <2>3, <2>4, Zenon
<1>9. CASE CreateFails
  <2>1. /\ UNCHANGED <<archive, win32, faults, total, spos, slen, failed, padding, file_size, file_opened>>
        /\ UNCHANGED <<skip, consume, header, left, len, files>>
        /\ pc' = "err" /\ ioerr' = TRUE
        /\ dirs' = dirs \/ dirs' = dirs \cup header.entry.within
    BY <1>9, Zenon DEF CreateFails, make_directory, source, tar
  <2>2. dirs' \subseteq Dirs
    BY <1>h, <2>1, Zenon
  <2> QED
    BY <1>k, <1>c, <1>h, <1>f, <1>s, <2>1, <2>2, Zenon
<1>10. CASE extract_file
  <2>1. /\ pc = "copy" /\ left' = left - len /\ Read(len, AtMost(1, left')) /\ len' = Limited
        /\ UNCHANGED <<padding, file_size, file_opened, skip, consume, header, dirs>>
    BY <1>10, Zenon DEF extract_file, read_limit, tar
  <2>2. left' \in Nat /\ len <= slen /\ AtMost(1, left') \in Nat
    BY <1>c, <1>f, <2>1 DEF AtMost
  <2>3. /\ archive' = archive /\ win32' = win32 /\ faults' = faults /\ total' = total /\ spos' \in 0..total
        /\ slen' \in Nat /\ slen' \in 0..(total - spos') /\ failed' \in BOOLEAN
        /\ spos' \in Nat
    BY <1>c, <2>1, <2>2, Reads
  <2>4. len' \in Nat /\ len' <= slen' /\ len' <= left'
    BY <2>1, <2>2, <2>3, AtMostBoth, Zenon DEF Limited
  <2>5. PICK n \in 0..(Len(Held) + len') :
          Write(n) /\ pc' \in {"next", "copy", "err"} /\ ioerr' \in BOOLEAN
    <3>1. Len(Held) \in Nat
      <4>1. Len(files) \in 1..Len(files)
        BY <1>f, <2>1, FileType DEF Files
      <4> QED
        BY <1>f, <4>1, FileType, Zenon DEF Held
    <3>2. Len(Held) + len' \in 0..(Len(Held) + len')
      BY <2>4, <3>1
    <3> QED
      BY <1>10, <1>c, <3>2, Zenon DEF extract_file
  <2>6. files' \in Files /\ files' # << >>
    <3>1. files' = Longer(files, spos', len', n)
      BY <2>5, Zenon DEF Write, Longer
    <3>2. n \in 0..(Len(files[Len(files)].bytes) + len')
      BY <2>5, Zenon DEF Held
    <3> QED
      BY <1>f, <2>1, <2>3, <2>4, <3>1, <3>2, Written, Zenon
  <2> QED
    BY <1>k, <1>c, <1>h, <1>f, <2>1, <2>2, <2>3, <2>4, <2>5, <2>6, Zenon
<1>11. QED
  BY <1>1, <1>2, <1>3, <1>4, <1>5, <1>6, <1>7, <1>8, <1>9, <1>10, Zenon DEF Next

-----------------------------------------------------------------------------
(* The walk through the archive stays in step with it.                       *)

(* With the files of the entries before p, no refused name is in front of p  *)
(* and no file behind one.                                                   *)
LEMMA BeforeStops ==
  ASSUME NEW a \in Archives, NEW w, NEW d, NEW fs \in Files, NEW p \in Nat, Before(a, w, d, fs, p)
  PROVE  /\ Stopped(a, fs)
         /\ \A k \in 1..Len(a) : Refused(a, k) => p <= H(a, k)
<1>1. ASSUME NEW k \in 1..Len(a), Refused(a, k) PROVE p <= H(a, k) /\ H(a, k) \in Nat
  <2>1. ~(H(a, k) < p)
    BY <1>1, Zenon DEF Before, Refused
  <2> QED
    BY <2>1, EntryEnds
<1>2. ASSUME NEW i \in 1..Len(fs) PROVE fs[i].at < p /\ fs[i].at \in Nat
  BY FileType, Zenon DEF Before
<1> QED
  BY <1>1, <1>2 DEF Stopped

(* Bytes that are written change no file's place.                            *)
LEMMA BeforeAts ==
  ASSUME NEW a, NEW w, NEW d, NEW fs, NEW gs, NEW p, Before(a, w, d, fs, p), Len(gs) = Len(fs),
         \A i \in 1..Len(fs) : gs[i].at = fs[i].at
  PROVE  Before(a, w, d, gs, p)
  BY Zenon DEF Before

(* Behind the header of an entry its directories count, when it is a file.   *)
LEMMA DirsBehind ==
  ASSUME NEW a \in Archives, NEW k \in 1..Len(a)
  PROVE  DirsOf(a, H(a, k) + 1)
           = DirsOf(a, H(a, k)) \cup (IF a[k].type = "reg" THEN a[k].within ELSE {})
<1> DEFINE h == H(a, k)
<1>1. ASSUME NEW j \in 1..Len(a) PROVE H(a, j) < h + 1 <=> H(a, j) < h \/ j = k
  <2>1. H(a, j) \in Nat /\ h \in Nat /\ (H(a, j) = h => j = k) /\ (j = k => H(a, j) = h)
    BY EntryEnds, Distinct, Zenon
  <2> HIDE DEF h
  <2>2. H(a, j) < h + 1 <=> H(a, j) < h \/ H(a, j) = h
    BY <2>1
  <2> QED
    BY <2>1, <2>2, Zenon
<1>2. CASE a[k].type = "reg"
  <2>1. ASSUME NEW x PROVE x \in DirsOf(a, h + 1) <=> x \in DirsOf(a, h) \/ x \in a[k].within
    <3>1. x \in DirsOf(a, h + 1) <=>
            \E j \in 1..Len(a) : a[j].type = "reg" /\ H(a, j) < h + 1 /\ x \in a[j].within
      BY DEF DirsOf
    <3>2. x \in DirsOf(a, h) <=>
            \E j \in 1..Len(a) : a[j].type = "reg" /\ H(a, j) < h /\ x \in a[j].within
      BY DEF DirsOf
    <3> HIDE DEF h
    <3> QED
      BY <1>1, <1>2, <3>1, <3>2, Zenon
  <2> QED
    BY <1>2, <2>1
<1>3. CASE a[k].type # "reg"
  <2>1. DirsOf(a, h + 1) = DirsOf(a, h)
    BY <1>1, <1>3, SameDirs, Zenon
  <2> QED
    BY <1>3, <2>1, Zenon
<1> QED
  BY <1>2, <1>3, Zenon

(* The entry in hand is dealt with: there is a file for it when it leaves    *)
(* one, and its directories are there when it is a file.                     *)
LEMMA BeforeBehind ==
  ASSUME NEW a \in Archives, NEW w, NEW d, NEW e, NEW fs \in Files, NEW gs \in Files,
         NEW k \in 1..Len(a),
         Before(a, w, d, fs, H(a, k)), a[k].named, Found(a, w, k),
         e = d \cup (IF a[k].type = "reg" THEN a[k].within ELSE {}),
         \A i \in 1..Len(fs) : i \in 1..Len(gs) /\ gs[i] = fs[i],
         \A i \in 1..Len(gs) : i \in 1..Len(fs) \/ gs[i].at = H(a, k),
         Leaves(a, w, k) => \E i \in 1..Len(gs) : gs[i].at = H(a, k)
  PROVE  Before(a, w, e, gs, H(a, k) + 1)
<1>0. Len(fs) \in Nat /\ Len(a) \in Nat /\ H(a, k) \in Nat /\ k \in 1..(Len(a) + 1)
  BY FileType, Layout
<1>1. ASSUME NEW j \in 1..Len(a), Handled(a, j), H(a, j) < H(a, k) + 1
      PROVE  /\ a[j].named /\ Found(a, w, j)
             /\ Leaves(a, w, j) => \E i \in 1..Len(gs) : gs[i].at = H(a, j)
  <2>1. CASE H(a, j) < H(a, k)
    BY <1>1, <2>1, Zenon DEF Before
  <2>2. CASE H(a, j) = H(a, k)
    <3>1. j = k
      BY <2>2, Distinct, Zenon
    <3> QED
      BY <3>1, Zenon
  <2>3. H(a, j) \in Nat
    BY EntryEnds, Zenon
  <2> QED
    BY <1>0, <1>1, <2>1, <2>2, <2>3
<1>2. ASSUME NEW i \in 1..Len(gs) PROVE gs[i].at < H(a, k) + 1
  <2>1. CASE i \in 1..Len(fs)
    <3>1. fs[i].at < H(a, k) /\ fs[i].at \in Nat
      BY <2>1, FileType, Zenon DEF Before
    <3> QED
      BY <1>0, <2>1, <3>1
  <2>2. CASE gs[i].at = H(a, k)
    BY <1>0, <2>2
  <2> QED
    BY <2>1, <2>2, Zenon
<1>3. e = DirsOf(a, H(a, k) + 1)
  BY DirsBehind, Zenon DEF Before
<1> QED
  BY <1>1, <1>2, <1>3, Zenon DEF Before

(* A file is created for the entry in hand.                                  *)
LEMMA BeforeCreated ==
  ASSUME NEW a \in Archives, NEW w, NEW d, NEW e, NEW fs \in Files, NEW gs \in Files,
         NEW k \in 1..Len(a),
         Before(a, w, d, fs, H(a, k)), a[k].named, Found(a, w, k),
         e = d \cup (IF a[k].type = "reg" THEN a[k].within ELSE {}),
         Len(gs) = Len(fs) + 1, \A i \in 1..Len(fs) : gs[i] = fs[i],
         gs[Len(fs) + 1].at = H(a, k)
  PROVE  Before(a, w, e, gs, H(a, k) + 1)
<1>1. Len(fs) \in Nat
  BY FileType, Zenon
<1>2. /\ \A i \in 1..Len(fs) : i \in 1..Len(gs)
      /\ \A i \in 1..Len(gs) : i \in 1..Len(fs) \/ i = Len(fs) + 1
      /\ Len(fs) + 1 \in 1..Len(gs)
  BY <1>1
<1> QED
  BY <1>2, BeforeBehind, ZenonT(40)

(* Nothing is written, and no file is being copied.                          *)
LEMMA SameContents ==
  ASSUME Contents, pc # "copy", archive' = archive, win32' = win32, files' = files,
         total' = total,
         ioerr' = ioerr \/ ioerr'
  PROVE  Contents'
<1>1. ~ioerr' => ~ioerr
  BY Zenon
<1>2. ASSUME NEW i \in 1..Len(files)
      PROVE  \E k \in 1..Len(archive) :
               /\ Leaves(archive, win32, k) /\ FileOf(archive, files[i], k)
               /\ total = Full(archive) /\ ~ioerr' /\ (i < Len(files) \/ pc' # "copy") =>
                    Len(files[i].bytes) = archive[k].size
  BY <1>1, Zenon DEF Contents
<1>3. \A i, j \in 1..Len(files) : i < j => files[i].at < files[j].at
  BY Zenon DEF Contents
<1> QED
  BY <1>2, <1>3, Zenon DEF Contents

(* A file is created empty, behind the others.                               *)
LEMMA NewContents ==
  ASSUME Typed, Typed', Contents, pc # "copy",
         archive' = archive, win32' = win32, total' = total, ioerr' = ioerr,
         NEW k \in 1..Len(archive), Leaves(archive, win32, k),
         Before(archive, win32, dirs, files, H(archive, k)),
         files' = Append(files, [at |-> H(archive, k), link |-> archive[k].type = "link",
                                 bytes |-> << >>]),
         pc' = "copy" \/ archive[k].size = 0
  PROVE  Contents'
<1>0. archive \in Archives /\ files \in Files /\ files' \in Files
  BY Zenon DEF Typed
<1>1. H(archive, k) \in Nat /\ archive[k].size \in Nat
  BY <1>0, EntryEnds, Zenon
<1>2. /\ Len(files') = Len(files) + 1 /\ Len(files) \in Nat
      /\ \A i \in 1..Len(files) : files'[i] = files[i]
      /\ files'[Len(files) + 1] = [at |-> H(archive, k), link |-> archive[k].type = "link",
                                   bytes |-> << >>]
  BY <1>0, <1>1, Created, FileType
<1>3. ASSUME NEW i \in 1..Len(files')
      PROVE  \E j \in 1..Len(archive) :
               /\ Leaves(archive, win32, j) /\ FileOf(archive, files'[i], j)
               /\ total = Full(archive) /\ ~ioerr /\ (i < Len(files') \/ pc' # "copy") =>
                    Len(files'[i].bytes) = archive[j].size
  <2>1. CASE i \in 1..Len(files)
    BY <1>2, <2>1, ZenonT(40) DEF Contents
  <2>2. CASE i = Len(files) + 1
    <3>1. Len(files'[i].bytes) = 0 /\ files'[i].at = H(archive, k)
          /\ files'[i].link = (archive[k].type = "link") /\ files'[i].bytes = << >>
      BY <1>2, <2>2
    <3>2. FileOf(archive, files'[i], k)
      BY <1>1, <3>1 DEF FileOf
    <3>3. i < Len(files') \/ pc' # "copy" => Len(files'[i].bytes) = archive[k].size
      BY <1>2, <2>2, <3>1
    <3> QED
      BY <3>2, <3>3, Zenon
  <2> QED
    BY <1>2, <2>1, <2>2
<1>4. ASSUME NEW i \in 1..Len(files'), NEW j \in 1..Len(files'), i < j
      PROVE  files'[i].at < files'[j].at
  <2>1. i \in 1..Len(files) /\ files'[i] = files[i]
    BY <1>2, <1>4
  <2>2. CASE j \in 1..Len(files)
    BY <1>2, <1>4, <2>1, <2>2, Zenon DEF Contents
  <2>3. CASE j = Len(files) + 1
    BY <1>2, <2>1, <2>3 DEF Before
  <2> QED
    BY <1>2, <2>2, <2>3
<1> QED
  BY <1>3, <1>4, ZenonT(40) DEF Contents

(* next_tar_file sets out to skip what the last file left.                   *)
LEMMA NextFileStep ==
  ASSUME Typed, Position, next_tar_file
  PROVE  Position'
<1>1. /\ UNCHANGED <<archive, win32, total, spos, files, dirs, ioerr>>
      /\ consume' = 0 /\ pc = "next" /\ pc' = "skip" /\ skip' = Unread
  BY Zenon DEF next_tar_file, source, out
<1>2. spos \in Nat /\ Unread \in Nat
  BY Counters DEF Unread
<1>3. spos' + consume' + skip' = spos + Unread /\ spos' + consume' = spos
  BY <1>1, <1>2
<1>4. Contents'
  BY <1>1, SameContents, Zenon DEF Position
<1>5. \/ InStep(archive, win32, dirs, files, spos + Unread) /\ spos + Unread <= End(archive)
      \/ Ended(archive, files, total, spos)
  BY <1>1, Zenon DEF Position, AtWalk
<1>6. AtWalk'
  BY <1>1, <1>3, <1>5, Zenon DEF AtWalk
<1> QED
  BY <1>1, <1>4, <1>6, Zenon DEF Position, AtFile, AtEnd

(* The loop that skips: the end of the source, or one more part of the rest. *)
LEMMA SkipStep ==
  ASSUME Typed, Position, Skip, ~failed'
  PROVE  Position'
<1>1. /\ pc = "skip" /\ skip > 0 /\ Read(consume, 1) /\ consume <= slen
      /\ consume' = Skippable /\ skip' = skip - consume' /\ pc' = AfterSkip
      /\ UNCHANGED <<files, dirs, ioerr>>
  BY Zenon DEF Skip, out, Typed, ConsumesWhatItSaw
<1>2. consume \in Nat /\ skip \in Nat /\ spos \in Nat /\ total \in Nat
  BY Counters, Zenon
<1>3. /\ archive' = archive /\ win32' = win32 /\ total' = total /\ spos' = spos + consume
      /\ slen' \in Nat /\ (slen' >= 1 \/ slen' = total - spos')
  BY <1>1, <1>2, Reads, Zenon
<1>4. consume' \in Nat /\ consume' <= skip
  BY <1>1, <1>2, <1>3, AtMostBoth, Zenon DEF Skippable
<1>5. /\ skip' \in Nat /\ spos' + consume' + skip' = spos + consume + skip
      /\ (slen' = 0 => spos' = total)
  BY <1>1, <1>2, <1>3, <1>4
<1>6. Contents'
  BY <1>1, <1>3, SameContents, Zenon DEF Position
<1>7. archive \in Archives /\ files \in Files
  BY Zenon DEF Typed
<1>8. CASE Ended(archive, files, total, spos + consume)
  <2>1. spos' = total /\ total # Full(archive) /\ Stopped(archive, files)
    <3>1. total < Full(archive) /\ Full(archive) \in Nat
      BY <1>8, Counters, Zenon DEF Ended
    <3> QED
      BY <1>2, <1>3, <1>8, <3>1 DEF Ended
  <2>2. slen' = 0
    <3>1. slen' <= total - spos'
      BY <1>1, <1>2, Reads, Zenon
    <3> QED
      BY <1>2, <1>3, <2>1, <3>1
  <2>3. pc' = "err"
    BY <1>1, <2>2, Zenon DEF AfterSkip
  <2> QED
    BY <1>1, <1>3, <1>6, <2>1, <2>3, Zenon DEF Position, AtWalk, AtFile, AtEnd
<1>9. CASE /\ InStep(archive, win32, dirs, files, spos + consume + skip)
           /\ spos + consume + skip <= End(archive)
  <2>1. CASE slen' = 0
    <3>1. pc' = "err"
      BY <1>1, <2>1, Zenon DEF AfterSkip
    <3>2. total # Full(archive)
      BY <1>1, <1>2, <1>3, <1>5, <1>7, <1>9, <2>1, EndFacts
    <3>3. Stopped(archive, files)
      BY <1>2, <1>7, <1>9, BeforeStops DEF InStep
    <3> QED
      BY <1>1, <1>3, <1>6, <3>1, <3>2, <3>3, Zenon DEF Position, AtWalk, AtFile, AtEnd
  <2>2. CASE slen' # 0
    <3>1. pc' = "skip"
      BY <1>1, <2>2, Zenon DEF AfterSkip
    <3>2. AtWalk'
      BY <1>1, <1>3, <1>5, <1>9, <3>1, Zenon DEF AtWalk
    <3> QED
      BY <1>6, <3>1, <3>2, Zenon DEF Position, AtFile, AtEnd
  <2> QED
    BY <2>1, <2>2, Zenon
<1> QED
  BY <1>1, <1>8, <1>9, Zenon DEF Position, AtWalk

(* A block is read as a header: the end marker, an entry of a type that is   *)
(* not handled, which is stepped over, or a file or a link.                  *)
LEMMA ReadHeaderStep ==
  ASSUME Typed, Position, Quiet, ReadHeader, ~failed'
  PROVE  Position'
<1>1. /\ pc = "skip" /\ skip = 0 /\ skip' = 0 /\ Read(consume, Block) /\ consume <= slen
      /\ UNCHANGED <<files, dirs, ioerr>>
  BY Zenon DEF ReadHeader, out, Typed, ConsumesWhatItSaw
<1>2. consume \in Nat /\ skip \in Nat /\ spos \in Nat /\ total \in Nat /\ Block \in Nat \ {0}
  BY Counters, Zenon
<1>3. /\ archive' = archive /\ win32' = win32 /\ total' = total /\ spos' = spos + consume /\ spos' \in Nat
      /\ slen' \in Nat /\ slen' <= total - spos' /\ (slen' >= Block \/ slen' = total - spos')
      /\ spos' <= total
  BY <1>1, <1>2, Reads, Zenon
<1>4. spos + consume + skip = spos' /\ (slen' < Block => total = spos' + slen')
  <2>1. spos + consume + skip = spos'
    BY <1>1, <1>2, <1>3
  <2>2. ASSUME slen' < Block PROVE total = spos' + slen'
    <3>1. slen' = total - spos'
      BY <1>2, <1>3, <2>2
    <3> QED
      BY <1>2, <1>3, <3>1
  <2> QED
    BY <2>1, <2>2, Zenon
<1>5. Contents'
  BY <1>1, <1>3, SameContents, Zenon DEF Position
<1>6. archive \in Archives /\ files \in Files
  BY Zenon DEF Typed
<1>7. Full(archive) \in Nat /\ Full(archive) % Block = 0
  BY <1>6, EndFacts, Zenon
<1>8. \/ InStep(archive, win32, dirs, files, spos')
      \/ Ended(archive, files, total, spos')
  BY <1>1, <1>3, <1>4, Zenon DEF Position, AtWalk
<1>9. Stopped(archive, files) /\ \A k \in 1..Len(archive) : Refused(archive, k) => spos' <= H(archive, k)
  BY <1>3, <1>6, <1>8, BeforeStops, Zenon DEF InStep, Ended
<1>10. CASE slen' = 0 /\ pc' = "ok"
  <2>1. total = Full(archive) => Before(archive, win32, dirs, files, Full(archive))
    <3> SUFFICES ASSUME total = Full(archive) PROVE Before(archive, win32, dirs, files, Full(archive))
      BY Zenon
    <3>1. spos' = total
      BY <1>2, <1>3, <1>4, <1>10
    <3>2. ~Ended(archive, files, total, spos')
      BY <1>7 DEF Ended
    <3> QED
      BY <1>8, <3>1, <3>2, Zenon DEF InStep
  <2>2. AtEnd'
    BY <1>1, <1>3, <1>9, <1>10, <2>1, Zenon DEF AtEnd
  <2> QED
    BY <1>5, <1>10, <2>2, Zenon DEF Position, AtWalk, AtFile
<1>11. CASE slen' \in 1..(Block - 1) /\ pc' = "err"
  <2>1. total # Full(archive)
    <3> SUFFICES ASSUME total = Full(archive) PROVE FALSE
      BY Zenon
    <3>1. total = spos' + slen' /\ spos' < Full(archive) /\ ~(spos' + Block <= Full(archive))
      BY <1>2, <1>3, <1>4, <1>7, <1>11
    <3>2. spos' % Block = 0
      BY <1>7, <1>8, Zenon DEF InStep, Clear, Ended
    <3>3. spos' + Block <= Full(archive)
      BY <1>3, <1>7, <3>1, <3>2, NextBlock, Zenon
    <3> QED
      BY <3>1, <3>3, Zenon
  <2>2. AtEnd'
    BY <1>1, <1>3, <1>9, <1>11, <2>1, Zenon DEF AtEnd
  <2> QED
    BY <1>5, <1>11, <2>2, Zenon DEF Position, AtWalk, AtFile
<1>12. ASSUME slen' >= Block, NEW e \in HeadersAt(spos') PROVE InStep(archive, win32, dirs, files, spos')
  <2>1. ~Ended(archive, files, total, spos')
    BY <1>2, <1>3, <1>12 DEF Ended
  <2> QED
    BY <1>8, <2>1, Zenon
<1>13. ASSUME slen' >= Block, NEW e \in HeadersAt(spos'), e.type = "other",
              consume' = Block, pc' = "skip"
       PROVE  Position'
  <2>1. InStep(archive, win32, dirs, files, spos')
    BY <1>12, <1>13, Zenon
  <2>2. \A k \in 1..Len(archive) :
          Handled(archive, k) => ~(H(archive, k) <= spos' /\ spos' < H(archive, k + 1))
    BY <1>3, <1>6, <1>13, <2>1, HeaderThere, Zenon DEF InStep
  <2>3. InStep(archive, win32, dirs, files, spos' + Block)
    BY <1>3, <1>6, <2>1, <2>2, StepOver, Zenon
  <2>4. spos' + consume' + skip' = spos' + Block
    BY <1>1, <1>2, <1>3, <1>13
  <2>5. ~(skip' > 0)
    BY <1>1
  <2>6. AtWalk'
    BY <1>1, <1>3, <1>13, <2>3, <2>4, <2>5, Zenon DEF AtWalk
  <2> QED
    BY <1>5, <1>13, <2>6, Zenon DEF Position, AtFile, AtEnd
<1>14. ASSUME slen' >= Block, NEW e \in HeadersAt(spos'), e.type # "other",
              header' = [at |-> spos', entry |-> e], pc' = e.type
       PROVE  Position'
  <2>1. InStep(archive, win32, dirs, files, spos')
    BY <1>12, <1>14, Zenon
  <2>2. e \in Entry /\ \E k \in 1..Len(archive) : spos' = H(archive, k) /\ e = archive[k]
    BY <1>3, <1>6, <1>14, <2>1, HeaderThere, Zenon DEF InStep
  <2>3. PICK k \in 1..Len(archive) : spos' = H(archive, k) /\ e = archive[k]
    BY <2>2, Zenon
  <2>4. pc' \in {"link", "reg"}
    BY <1>14, <2>2, Zenon DEF Entry, Types
  <2>5. AtEntry(k)'
    BY <1>1, <1>3, <1>14, <2>1, <2>3, Zenon DEF AtEntry, InStep, Handled
  <2>6. AtFile'
    BY <1>3, <1>14, <2>3, <2>4, <2>5, Zenon DEF AtFile
  <2> QED
    BY <1>5, <2>4, <2>6, Zenon DEF Position, AtWalk, AtEnd
<1> QED
  BY <1>10, <1>11, <1>13, <1>14, Zenon DEF ReadHeader

(* The name of a link is refused, or the link is next.                       *)
LEMMA LinkStep ==
  ASSUME Typed, Position, read_tar_link_header, ~failed'
  PROVE  Position'
<1>1. /\ pc = "link" /\ Read(Block, 0) /\ Block <= slen
      /\ UNCHANGED <<header, files, dirs, ioerr>>
      /\ \/ header.entry.named /\ padding' = 0 /\ file_size' = 0 /\ pc' = "symlink"
         \/ ~header.entry.named /\ pc' = "err"
  BY Zenon DEF read_tar_link_header, LinkNamed, out, Typed, ConsumesWhatItSaw
<1>2. /\ archive' = archive /\ win32' = win32 /\ total' = total /\ spos' = spos + Block
  BY <1>1, Reads, Counters, Zenon
<1>3. Contents'
  BY <1>1, <1>2, SameContents, Zenon DEF Position
<1>4. archive \in Archives /\ files \in Files
  BY Zenon DEF Typed
<1>5. PICK k \in 1..Len(archive) :
        AtEntry(k) /\ archive[k].type = "link" /\ spos = H(archive, k)
  BY <1>1, Zenon DEF Position, AtFile
<1>6. header.entry = archive[k] /\ Before(archive, win32, dirs, files, H(archive, k)) /\ Handled(archive, k)
  BY <1>5, Zenon DEF AtEntry
<1>7. CASE header.entry.named /\ padding' = 0 /\ file_size' = 0 /\ pc' = "symlink"
  <2>1. AtEntry(k)'
    BY <1>1, <1>2, <1>5, Zenon DEF AtEntry
  <2>2. AtFile'
    BY <1>2, <1>5, <1>6, <1>7, <2>1, Zenon DEF AtFile
  <2> QED
    BY <1>3, <1>7, <2>2, Zenon DEF Position, AtWalk, AtEnd
<1>8. CASE ~header.entry.named /\ pc' = "err"
  <2>1. Refused(archive, k)
    BY <1>6, <1>8, Zenon DEF Refused
  <2>2. Stopped(archive, files)
    BY <1>4, <1>6, BeforeStops, EntryEnds, Zenon
  <2>3. AtEnd'
    BY <1>1, <1>2, <1>8, <2>1, <2>2, Zenon DEF AtEnd
  <2> QED
    BY <1>3, <1>8, <2>3, Zenon DEF Position, AtWalk, AtFile
<1> QED
  BY <1>1, <1>7, <1>8, Zenon

(* The name of a file is refused, or the file is next.                       *)
LEMMA FileHeaderStep ==
  ASSUME Typed, Position, read_tar_file_header, ~failed'
  PROVE  Position'
<1>1. /\ pc = "reg" /\ Read(Block, 0) /\ Block <= slen
      /\ UNCHANGED <<header, files, dirs, ioerr>>
      /\ \/ /\ header.entry.named /\ pc' = "open"
            /\ file_size' = header.entry.size /\ padding' = Padding(file_size')
         \/ ~header.entry.named /\ pc' = "err"
  BY Zenon DEF read_tar_file_header, out, Typed, ConsumesWhatItSaw
<1>2. /\ archive' = archive /\ win32' = win32 /\ total' = total /\ spos' = spos + Block
  BY <1>1, Reads, Counters, Zenon
<1>3. Contents'
  BY <1>1, <1>2, SameContents, Zenon DEF Position
<1>4. archive \in Archives /\ files \in Files
  BY Zenon DEF Typed
<1>5. PICK k \in 1..Len(archive) :
        AtEntry(k) /\ archive[k].type = "reg" /\ spos = H(archive, k)
  BY <1>1, Zenon DEF Position, AtFile
<1>6. header.entry = archive[k] /\ Before(archive, win32, dirs, files, H(archive, k)) /\ Handled(archive, k)
  BY <1>5, Zenon DEF AtEntry
<1>7. CASE /\ header.entry.named /\ pc' = "open"
           /\ file_size' = header.entry.size /\ padding' = Padding(file_size')
  <2>1. AtEntry(k)'
    BY <1>1, <1>2, <1>5, Zenon DEF AtEntry
  <2>2. AtFile'
    BY <1>2, <1>5, <1>6, <1>7, <2>1, Zenon DEF AtFile
  <2> QED
    BY <1>3, <1>7, <2>2, Zenon DEF Position, AtWalk, AtEnd
<1>8. CASE ~header.entry.named /\ pc' = "err"
  <2>1. Refused(archive, k)
    BY <1>6, <1>8, Zenon DEF Refused
  <2>2. Stopped(archive, files)
    BY <1>4, <1>6, BeforeStops, EntryEnds, Zenon
  <2>3. AtEnd'
    BY <1>1, <1>2, <1>8, <2>1, <2>2, Zenon DEF AtEnd
  <2> QED
    BY <1>3, <1>8, <2>3, Zenon DEF Position, AtWalk, AtFile
<1> QED
  BY <1>1, <1>7, <1>8, Zenon

(* The link is created, it has no bytes and the next header follows; or      *)
(* there is no link with WIN32; or it is in want of a directory.             *)
LEMMA SymlinkStep ==
  ASSUME Typed, Typed', Position, symlink
  PROVE  Position'
<1>1. /\ UNCHANGED <<archive, win32, total, spos, padding, file_size, file_opened, dirs, ioerr>>
      /\ pc = "symlink" /\ pc' \in {"next", "err"}
  BY Zenon DEF symlink, source, tar
<1>2. archive \in Archives /\ files \in Files /\ files' \in Files /\ Block \in Nat \ {0}
  BY TarConstants, Zenon DEF Typed
<1>3. PICK k \in 1..Len(archive) :
        /\ AtEntry(k) /\ archive[k].type = "link" /\ archive[k].named
        /\ spos = H(archive, k) + Block /\ padding = 0 /\ file_size = 0
  BY <1>1, Zenon DEF Position, AtFile
<1>4. /\ header.at = H(archive, k) /\ header.entry = archive[k]
      /\ Before(archive, win32, dirs, files, H(archive, k)) /\ Handled(archive, k)
  BY <1>3, Zenon DEF AtEntry
<1>5. dirs = DirsOf(archive, H(archive, k))
  BY <1>4, Zenon DEF Before
<1>6. H(archive, k) \in Nat /\ archive[k].size = 0 /\ (archive[k].type = "link") \in BOOLEAN
  BY <1>2, <1>3, EntryEnds, Layout, Zenon
<1>7. dirs = dirs \cup (IF archive[k].type = "reg" THEN archive[k].within ELSE {})
  BY <1>3, Zenon
<1>8. ASSUME pc' = "next", Contents', Before(archive, win32, dirs, files', H(archive, k) + 1)
      PROVE  Position'
  <2>1. H(archive, k + 1) = spos + Unread'
    <3>1. H(archive, k + 1) = H(archive, k) + Block + 0 + 0
      BY <1>2, <1>6, Layout, PaddingZero, Zenon
    <3>2. Unread' = 0
      BY <1>1, <1>3 DEF Unread
    <3> QED
      BY <1>2, <1>3, <1>6, <3>1, <3>2
  <2>2. InStep(archive, win32, dirs, files', H(archive, k + 1)) /\ H(archive, k + 1) <= End(archive)
    BY <1>2, <1>8, ClearBehind, BeforeNext, EndFacts, Zenon DEF InStep
  <2>3. AtWalk'
    BY <1>1, <1>8, <2>1, <2>2, Zenon DEF AtWalk
  <2> QED
    BY <1>8, <2>3, Zenon DEF Position, AtFile, AtEnd
<1>9. CASE ~win32 /\ header.entry.within \subseteq dirs /\ Create(TRUE) /\ pc' = "next"
  <2>1. files' = Append(files, [at |-> H(archive, k), link |-> archive[k].type = "link", bytes |-> << >>])
    BY <1>3, <1>4, <1>9, Zenon DEF Create
  <2>2. Leaves(archive, win32, k) /\ Found(archive, win32, k)
    BY <1>3, <1>4, <1>5, <1>9, Zenon DEF Leaves, Found
  <2>3. Contents'
    BY <1>1, <1>4, <1>6, <1>9, <2>1, <2>2, NewContents, Zenon DEF Position
  <2>4. /\ Len(files') = Len(files) + 1 /\ \A i \in 1..Len(files) : files'[i] = files[i]
        /\ files'[Len(files) + 1].at = H(archive, k)
    BY <1>2, <1>6, <2>1, Created
  <2>5. Before(archive, win32, dirs, files', H(archive, k) + 1)
    BY <1>2, <1>3, <1>4, <1>7, <2>2, <2>4, BeforeCreated, Zenon
  <2> QED
    BY <1>8, <1>9, <2>3, <2>5, Zenon
<1>10. CASE win32 /\ pc' = "next" /\ UNCHANGED files
  <2>1. ~Leaves(archive, win32, k) /\ Found(archive, win32, k)
    BY <1>3, <1>10, Zenon DEF Leaves, Found
  <2>2. Contents'
    BY <1>1, <1>10, SameContents, Zenon DEF Position
  <2>3. Before(archive, win32, dirs, files', H(archive, k) + 1)
    BY <1>2, <1>3, <1>4, <1>7, <1>10, <2>1, BeforeBehind, Zenon
  <2> QED
    BY <1>8, <1>10, <2>2, <2>3, Zenon
<1>11. CASE ~win32 /\ ~(header.entry.within \subseteq dirs) /\ pc' = "err" /\ UNCHANGED files
  <2>1. ~Found(archive, win32, k)
    BY <1>3, <1>4, <1>5, <1>11, Zenon DEF Found
  <2>2. Stopped(archive, files)
    BY <1>2, <1>4, <1>6, BeforeStops, Zenon
  <2>3. AtEnd'
    BY <1>1, <1>11, <2>1, <2>2, Zenon DEF AtEnd
  <2>4. Contents'
    BY <1>1, <1>11, SameContents, Zenon DEF Position
  <2> QED
    BY <1>11, <2>3, <2>4, Zenon DEF Position, AtWalk, AtFile
<1> QED
  BY <1>9, <1>10, <1>11, Zenon DEF symlink

(* The file is created, and its first bytes are read.                        *)
LEMMA OpenStep ==
  ASSUME Typed, Typed', Position, open_tar_file
  PROVE  Position'
<1>1. /\ UNCHANGED <<archive, win32, total, spos, padding, ioerr>>
      /\ pc = "open" /\ pc' = "copy" /\ Create(FALSE)
      /\ file_opened' = TRUE /\ left' = file_size /\ len' = 0
      /\ dirs' = dirs \cup header.entry.within
  BY Zenon DEF open_tar_file, make_directory, source
<1>2. archive \in Archives /\ files \in Files /\ files' \in Files /\ Block \in Nat \ {0}
  BY TarConstants, Zenon DEF Typed
<1>3. PICK k \in 1..Len(archive) :
        /\ AtEntry(k) /\ archive[k].type = "reg" /\ archive[k].named
        /\ spos = H(archive, k) + Block
        /\ file_size = archive[k].size /\ padding = Padding(file_size)
  BY <1>1, Zenon DEF Position, AtFile
<1>4. /\ header.at = H(archive, k) /\ header.entry = archive[k]
      /\ Before(archive, win32, dirs, files, H(archive, k)) /\ Handled(archive, k)
      /\ Leaves(archive, win32, k) /\ Found(archive, win32, k)
      /\ dirs' = dirs \cup (IF archive[k].type = "reg" THEN archive[k].within ELSE {})
  BY <1>1, <1>3, Zenon DEF AtEntry, Leaves, Found
<1>5. files' = Append(files, [at |-> H(archive, k), link |-> archive[k].type = "link", bytes |-> << >>])
  BY <1>1, <1>3, <1>4, Zenon DEF Create
<1>6. H(archive, k) \in Nat /\ archive[k].size \in Nat /\ (archive[k].type = "link") \in BOOLEAN
  BY <1>2, EntryEnds, Zenon
<1>7. Contents'
  BY <1>1, <1>4, <1>5, NewContents, Zenon DEF Position
<1>8. /\ Len(files') = Len(files) + 1 /\ \A i \in 1..Len(files) : files'[i] = files[i]
      /\ files'[Len(files) + 1] = [at |-> H(archive, k), link |-> archive[k].type = "link", bytes |-> << >>]
  BY <1>2, <1>5, <1>6, Created
<1>9. files'[Len(files')].at = H(archive, k) /\ Len(files'[Len(files')].bytes) = 0
  BY <1>8
<1>10. Before(archive, win32, dirs', files', H(archive, k) + 1)
  BY <1>2, <1>3, <1>4, <1>8, <1>9, BeforeCreated, Zenon
<1>11. /\ spos' + left' = H(archive, k) + Block + archive[k].size
       /\ H(archive, k) + Block + 0 = spos' + len'
  BY <1>1, <1>2, <1>3, <1>6, Zenon
<1>12. AtFile'
  BY <1>1, <1>3, <1>9, <1>10, <1>11, Zenon DEF AtFile
<1> QED
  BY <1>1, <1>7, <1>12, Zenon DEF Position, AtWalk, AtEnd

(* symlink or fopen fails.                                                   *)
LEMMA CreateFailsStep ==
  ASSUME Typed, Position, CreateFails
  PROVE  Position'
<1>1. /\ UNCHANGED <<archive, win32, total, files>>
      /\ pc \in {"symlink", "open"} /\ pc' = "err" /\ ioerr'
  BY Zenon DEF CreateFails, source
<1>2. archive \in Archives /\ files \in Files
  BY Zenon DEF Typed
<1>3. PICK k \in 1..Len(archive) : Before(archive, win32, dirs, files, H(archive, k))
  BY <1>1, Zenon DEF Position, AtFile, AtEntry
<1>4. Stopped(archive, files)
  BY <1>2, <1>3, BeforeStops, EntryEnds, Zenon
<1>5. Contents'
  BY <1>1, SameContents, Zenon DEF Position
<1>6. AtEnd'
  BY <1>1, <1>4, Zenon DEF AtEnd
<1> QED
  BY <1>1, <1>5, <1>6, Zenon DEF Position, AtWalk, AtFile

(* Bytes that follow those of a file in the archive are the next ones of it, *)
(* also when some of them are lost.                                          *)
LEMMA MoreBytes ==
  ASSUME NEW b \in Seq(Nat), NEW base \in Nat, NEW m \in Nat, NEW p \in Nat,
         b = [j \in 1..Len(b) |-> base + j - 1], p = base + Len(b),
         NEW n \in 0..(Len(b) + m)
  PROVE  SubSeq(b \o [i \in 1..m |-> p + i - 1], 1, n) = [j \in 1..n |-> base + j - 1]
<1> DEFINE w == [i \in 1..m |-> p + i - 1]
           c == b \o w
<1>1. w \in Seq(Nat) /\ Len(w) = m /\ Len(b) \in Nat /\ DOMAIN b = 1..Len(b)
  <2>1. w \in [1..m -> Nat]
    OBVIOUS
  <2> QED
    BY <2>1
<1>2. Len(c) = Len(b) + m /\ c \in Seq(Nat)
  BY <1>1
<1>3. ASSUME NEW j \in 1..Len(c) PROVE c[j] = base + j - 1
  <2>1. CASE j <= Len(b)
    <3>1. j \in 1..Len(b) /\ c[j] = b[j]
      BY <1>1, <1>2, <2>1
    <3> QED
      BY <3>1, Zenon
  <2>2. CASE j > Len(b)
    <3>1. j - Len(b) \in 1..m /\ c[j] = w[j - Len(b)]
      BY <1>1, <1>2, <2>2
    <3> QED
      BY <1>1, <1>2, <3>1
  <2> QED
    BY <1>1, <1>2, <2>1, <2>2
<1>4. /\ n \in 0..Len(c) /\ \A j \in 1..n : j \in 1..Len(c)
  BY <1>1, <1>2
<1> HIDE DEF c
<1>5. SubSeq(c, 1, n) = [j \in 1..n |-> c[j]]
  BY <1>2, <1>4
<1>6. SubSeq(c, 1, n) = [j \in 1..n |-> base + j - 1]
  BY <1>3, <1>4, <1>5, Zenon
<1> QED
  BY <1>6, Zenon DEF c, w

(* A turn of the loop of extract_file: bytes of the entry, or its end.       *)
LEMMA CopyStep ==
  ASSUME Typed, Typed', Position, extract_file, ~failed'
  PROVE  Position'
<1>1. /\ pc = "copy" /\ left' = left - len /\ Read(len, AtMost(1, left')) /\ len' = Limited
      /\ len <= slen /\ len <= left /\ files # << >>
      /\ UNCHANGED <<padding, file_size, file_opened, dirs>>
  BY Zenon DEF extract_file, read_limit, tar, Typed, ConsumesWhatItSaw
<1>2. /\ Block \in Nat \ {0} /\ left \in Nat /\ len \in Nat /\ spos \in Nat /\ total \in Nat
      /\ archive \in Archives /\ files \in Files /\ files' \in Files
      /\ left' \in Nat /\ len' \in Nat /\ AtMost(1, left') \in Nat
  BY <1>1, Counters, Zenon DEF Typed, TypeOK, AtMost
<1>3. /\ archive' = archive /\ win32' = win32 /\ total' = total /\ spos' = spos + len /\ spos' \in Nat
      /\ slen' \in Nat /\ spos' <= total
      /\ slen' >= AtMost(1, left') \/ slen' = total - spos'
  BY <1>1, <1>2, Reads, Zenon
<1>4. len' <= left' /\ (len' = 0 => slen' = 0 \/ left' = 0)
  BY <1>1, <1>2, <1>3 DEF Limited, AtMost
<1>l. /\ Len(files) \in 1..Len(files) /\ Len(files) \in Nat \ {0} /\ Held = files[Len(files)].bytes
      /\ files[Len(files)].bytes \in Seq(Nat) /\ Len(files[Len(files)].bytes) \in Nat
  <2>1. Len(files) \in 1..Len(files) /\ Len(files) \in Nat \ {0}
    BY <1>1, <1>2, FileType DEF Files
  <2> QED
    BY <1>2, <2>1, FileType, Zenon DEF Held
<1>5. PICK n \in Nat :
        /\ n \in 0..(Len(files[Len(files)].bytes) + len') /\ Write(n)
        /\ \/ /\ n = Len(files[Len(files)].bytes) + len'
              /\ pc' = (IF len' = 0 THEN "next" ELSE "copy") /\ ioerr' = ioerr
           \/ pc' = (IF len' = 0 THEN "next" ELSE "err") /\ ioerr'
  <2>1. Len(files[Len(files)].bytes) + len' \in 0..(Len(files[Len(files)].bytes) + len')
    BY <1>2, <1>l
  <2>2. \A i \in 0..(Len(files[Len(files)].bytes) + len') : i \in Nat
    BY <1>2, <1>l
  <2> QED
    BY <2>1, <2>2, Zenon DEF extract_file, Held
<1>6. PICK k \in 1..Len(archive) :
        /\ archive[k].type = "reg"
        /\ Before(archive, win32, dirs, files, H(archive, k) + 1)
        /\ spos + left = H(archive, k) + Block + archive[k].size
        /\ file_opened /\ padding = Padding(archive[k].size)
        /\ files[Len(files)].at = H(archive, k)
        /\ H(archive, k) + Block + Len(files[Len(files)].bytes) = spos + len
  BY <1>1, Zenon DEF Position, AtFile
<1> DEFINE l == Len(files)
<1>7. /\ H(archive, k) \in Nat /\ archive[k].size \in Nat /\ H(archive, k + 1) \in Nat
      /\ H(archive, k + 1) = H(archive, k) + Block + archive[k].size + Padding(archive[k].size)
      /\ Padding(archive[k].size) \in Nat /\ Handled(archive, k)
  <2>1. Handled(archive, k)
    BY <1>6, Zenon DEF Handled
  <2>2. /\ H(archive, k) \in Nat /\ archive[k].size \in Nat /\ H(archive, k + 1) \in Nat
        /\ H(archive, k + 1) = H(archive, k) + Block + archive[k].size + Padding(archive[k].size)
    BY <1>2, EntryEnds, Layout, Zenon
  <2>3. Padding(archive[k].size) \in 0..(Block - 1)
    BY <2>2, EntrySize, Zenon
  <2> QED
    BY <1>2, <2>1, <2>2, <2>3
<1>8. /\ l \in Nat \ {0} /\ files[l].bytes \in Seq(Nat) /\ Len(files[l].bytes) \in Nat
      /\ l \in 1..l /\ n \in Nat /\ n <= Len(files[l].bytes) + len'
  BY <1>2, <1>5, <1>l
<1> DEFINE h == H(archive, k)
           z == archive[k].size
           b == Len(files[l].bytes)
           c == Len(files'[l].bytes)
<1>a. /\ Block \in Nat /\ h \in Nat /\ z \in Nat /\ b \in Nat /\ n \in Nat /\ len' \in Nat
      /\ n <= b + len'
      /\ len' <= left' /\ left' \in Nat /\ spos' \in Nat /\ spos' = spos + len
      /\ (h + Block) + b = spos + len
  BY <1>2, <1>3, <1>4, <1>6, <1>7, <1>8, Zenon
<1>9. spos' + left' = H(archive, k) + Block + archive[k].size
  <2>1. /\ left' = left - len /\ spos' = spos + len
        /\ spos \in Nat /\ left \in Nat /\ len \in Nat
        /\ spos + left = H(archive, k) + Block + archive[k].size
    BY <1>1, <1>2, <1>3, <1>6, Zenon
  <2>2. (spos + len) + (left - len) = spos + left
    BY <2>1
  <2> QED
    BY <2>1, <2>2, Zenon
<1>10. /\ Len(files') = l
       /\ \A i \in 1..l : files'[i].at = files[i].at /\ files'[i].link = files[i].link
       /\ \A i \in 1..(l - 1) : files'[i] = files[i]
       /\ files'[l].bytes = SubSeq(files[l].bytes \o [i \in 1..len' |-> spos' + i - 1], 1, n)
       /\ Len(files'[l].bytes) = n
  <2>1. files' = Longer(files, spos', len', n)
    BY <1>5, Zenon DEF Write, Longer
  <2>2. files \in Files /\ files # << >> /\ spos' \in Nat /\ len' \in Nat
    BY <1>1, <1>2, <1>3, Zenon
  <2>3. Wrote(files, files', spos', len', n)
    BY <1>5, <2>1, <2>2, Written, Zenon
  <2> QED
    BY <2>3, Zenon DEF Wrote
<1>11. dirs' = dirs /\ Before(archive, win32, dirs', files', H(archive, k) + 1)
  BY <1>1, <1>6, <1>10, BeforeAts, Zenon
<1>12. Stopped(archive, files') /\ \A j \in 1..Len(archive) : Refused(archive, j) => H(archive, k + 1) <= H(archive, j)
  <2>1. Before(archive, win32, dirs', files', H(archive, k + 1))
    BY <1>2, <1>11, BeforeNext, Zenon
  <2> QED
    BY <1>2, <1>7, <2>1, BeforeStops, Zenon
<1>13. /\ FileOf(archive, files'[l], k)
       /\ n = b + len' => H(archive, k) + Block + Len(files'[l].bytes) = spos' + len'
  <2>1. PICK j \in 1..Len(archive) : FileOf(archive, files[l], j)
    BY <1>8, Zenon DEF Position, Contents
  <2>2. j = k
    BY <1>2, <1>6, <2>1, Distinct, Zenon DEF FileOf
  <2>3. /\ files[l].link = (archive[k].type = "link")
        /\ files[l].bytes = [i \in 1..Len(files[l].bytes) |-> H(archive, k) + Block + i - 1]
    BY <2>1, <2>2, Zenon DEF FileOf
  <2>4. h + Block \in Nat /\ spos' = (h + Block) + b
    <3> HIDE DEF h, b
    <3> QED
      BY <1>a
  <2>5. files'[l].bytes = [i \in 1..Len(files'[l].bytes) |-> H(archive, k) + Block + i - 1]
    <3> DEFINE base == h + Block
               B == files[l].bytes
    <3>1. /\ B \in Seq(Nat) /\ base \in Nat /\ len' \in Nat /\ spos' \in Nat /\ spos' = base + Len(B)
          /\ B = [i \in 1..Len(B) |-> base + i - 1] /\ n \in 0..(Len(B) + len')
      BY <1>a, <1>5, <1>8, <2>3, <2>4, Zenon
    <3>2. /\ files'[l].bytes = SubSeq(B \o [i \in 1..len' |-> spos' + i - 1], 1, n)
          /\ Len(files'[l].bytes) = n
      BY <1>10, Zenon
    <3> HIDE DEF base, B
    <3>3. SubSeq(B \o [i \in 1..len' |-> spos' + i - 1], 1, n) = [i \in 1..n |-> base + i - 1]
      BY <3>1, MoreBytes
    <3> QED
      BY <3>2, <3>3, Zenon DEF base
  <2>6. (n = b + len' => h + Block + c = spos' + len') /\ c <= z
    <3>1. c = n /\ spos' + left' = h + Block + z /\ spos' = (h + Block) + b
      BY <1>9, <1>10, <2>4, Zenon
    <3>2. h + Block \in Nat /\ ((h + Block) + b) + left' = (h + Block) + z
      BY <2>4, <3>1, Zenon
    <3>3. PICK m \in Nat, y \in Nat : m = len' /\ y = left'
      BY <1>a, Zenon
    <3>a. /\ b \in Nat /\ z \in Nat /\ n \in Nat /\ n <= b + m /\ m <= y
      BY <1>a, <3>3, Zenon
    <3> HIDE DEF h, z, b, c, l
    <3>4. c <= z
      <4> DEFINE q == h + Block
      <4>1. q \in Nat /\ (q + b) + y = q + z
        BY <3>2, <3>3, Zenon
      <4> HIDE DEF q
      <4>2. b + y = z
        BY <3>a, <4>1
      <4>3. n <= z
        BY <3>a, <4>2
      <4> QED
        BY <3>1, <4>3, Zenon
    <3>5. n = b + len' => h + Block + c = spos' + len'
      BY <1>a, <3>1
    <3> QED
      BY <3>4, <3>5, Zenon
  <2>7. files'[l].at = H(archive, k) /\ files'[l].link = (archive[k].type = "link")
    BY <1>6, <1>8, <1>10, <2>3, Zenon
  <2> QED
    BY <2>5, <2>6, <2>7, Zenon DEF FileOf
<1>14. ASSUME total = Full(archive) /\ ~ioerr' /\ pc' # "copy" =>
                Len(files'[l].bytes) = archive[k].size
       PROVE  Contents'
  <2>1. ~ioerr' => ~ioerr
    BY <1>5, Zenon
  <2>2. ASSUME NEW i \in 1..l
        PROVE  \E j \in 1..Len(archive) :
                 /\ Leaves(archive, win32, j) /\ FileOf(archive, files'[i], j)
                 /\ total = Full(archive) /\ ~ioerr' /\ (i < l \/ pc' # "copy") =>
                      Len(files'[i].bytes) = archive[j].size
    <3>1. CASE i = l
      <4>1. Leaves(archive, win32, k)
        BY <1>6, Zenon DEF Leaves
      <4>2. ~(l < l)
        BY <1>8
      <4> QED
        BY <1>13, <1>14, <3>1, <4>1, <4>2, Zenon
    <3>2. CASE i # l
      <4>1. i \in 1..(l - 1) /\ i < l
        BY <1>8, <3>2
      <4> QED
        BY <1>10, <2>1, <4>1, Zenon DEF Position, Contents
    <3> QED
      BY <3>1, <3>2, Zenon
  <2>3. \A i, j \in 1..l : i < j => files'[i].at < files'[j].at
    BY <1>10, Zenon DEF Position, Contents
  <2> QED
    BY <1>3, <1>10, <2>2, <2>3, Zenon DEF Contents
<1>15. CASE pc' = "err" /\ ioerr'
  <2>1. AtEnd'
    BY <1>3, <1>12, <1>15, Zenon DEF AtEnd
  <2> QED
    BY <1>14, <1>15, <2>1, Zenon DEF Position, AtWalk, AtFile
<1>16. CASE n = b + len' /\ len' # 0 /\ pc' = "copy" /\ ioerr' = ioerr
  <2>1. AtFile'
    BY <1>1, <1>3, <1>6, <1>8, <1>9, <1>10, <1>11, <1>13, <1>16, Zenon DEF AtFile, FileOf
  <2> QED
    BY <1>14, <1>16, <2>1, Zenon DEF Position, AtWalk, AtEnd
<1>17. CASE len' = 0 /\ pc' = "next" /\ (ioerr' \/ (n = b + len' /\ ioerr' = ioerr))
  <2>1. CASE left' = 0
    <3>1. ASSUME ~ioerr' PROVE Len(files'[l].bytes) = archive[k].size
      <4>1. h + Block + c = spos' + 0 /\ spos' + 0 = h + Block + z /\ c \in Nat
        BY <1>8, <1>9, <1>10, <1>13, <1>17, <2>1, <3>1
      <4> HIDE DEF h, z, c
      <4>2. c = z
        BY <1>a, <4>1
      <4> QED
        BY <4>2, Zenon DEF c, z
    <3>2. spos' + Unread' = H(archive, k + 1)
      <4> DEFINE p == Padding(z)
                 e == H(archive, k + 1)
      <4>1. spos' + 0 = h + Block + z /\ e = h + Block + z + p /\ p \in Nat
        BY <1>7, <1>9, <2>1, Zenon
      <4>2. Unread' = p + 0 /\ file_opened'
        BY <1>1, <1>6, Zenon DEF Unread
      <4> HIDE DEF h, z, p, e
      <4>3. spos' + Unread' = e
        BY <1>a, <4>1, <4>2
      <4> QED
        BY <4>3, Zenon DEF e
    <3>3. InStep(archive, win32, dirs', files', H(archive, k + 1)) /\ H(archive, k + 1) <= End(archive)
      BY <1>2, <1>11, ClearBehind, BeforeNext, EndFacts, Zenon DEF InStep
    <3>4. AtWalk'
      BY <1>3, <1>17, <3>2, <3>3, Zenon DEF AtWalk
    <3> QED
      BY <1>14, <1>17, <3>1, <3>4, Zenon DEF Position, AtFile, AtEnd
  <2>2. CASE left' # 0
    <3>1. slen' = 0 /\ AtMost(1, left') = 1
      BY <1>2, <1>4, <1>17, <2>2 DEF AtMost
    <3>2. spos' = total
      BY <1>2, <1>3, <3>1
    <3>3. spos' <= H(archive, k + 1) /\ total # Full(archive) /\ total < Full(archive)
      <4> DEFINE p == Padding(z)
                 e == H(archive, k + 1)
                 y == End(archive)
                 x == Full(archive)
      <4>1. /\ spos' + left' = h + Block + z /\ e = h + Block + z + p /\ p \in Nat /\ e \in Nat
            /\ e <= y /\ y < x /\ y \in Nat /\ x \in Nat
        BY <1>2, <1>7, <1>9, EndFacts, Zenon
      <4> HIDE DEF h, z, p, e, y, x
      <4>2. spos' <= e /\ total # x /\ total < x
        BY <1>a, <2>2, <3>2, <4>1
      <4> QED
        BY <4>2, Zenon DEF e, x
    <3>4. \A j \in 1..Len(archive) : Refused(archive, j) => spos' <= H(archive, j)
      <4>1. \A j \in 1..Len(archive) : H(archive, j) \in Nat
        BY <1>2, EntryEnds, Zenon
      <4> QED
        BY <1>3, <1>7, <1>12, <3>3, <4>1
    <3>5. Ended(archive, files', total, spos')
      BY <1>12, <3>2, <3>3, <3>4, Zenon DEF Ended
    <3>6. AtWalk'
      BY <1>3, <1>17, <3>5, Zenon DEF AtWalk
    <3> QED
      BY <1>14, <1>17, <3>3, <3>6, Zenon DEF Position, AtFile, AtEnd
  <2> QED
    BY <2>1, <2>2, Zenon
<1> QED
  BY <1>5, <1>15, <1>16, <1>17, Zenon

(* At first nothing is behind the reader.                                    *)
LEMMA InitPosition == Init => Position
<1> SUFFICES ASSUME Init PROVE Position
  BY Zenon
<1>1. /\ archive \in Archives /\ files = << >> /\ dirs = {} /\ pc = "next" /\ spos = 0 /\ padding = 0 /\ file_size = 0
  BY Zenon DEF Init
<1>2. spos + Unread = 0 /\ Len(files) = 0
  BY <1>1 DEF Unread
<1>3. H(archive, 1) = 0 /\ Len(archive) \in Nat /\ 1 \in 1..(Len(archive) + 1) /\ 0 % Block = 0
  <2>1. H(archive, 1) = 0 /\ Len(archive) \in Nat
    BY <1>1, Layout, Zenon
  <2>2. 1 \in 1..(Len(archive) + 1)
    BY <2>1
  <2>3. H(archive, 1) % Block = 0
    BY <1>1, <2>2, Layout, Zenon
  <2> QED
    BY <2>1, <2>2, <2>3, Zenon
<1>4. ASSUME NEW k \in 1..Len(archive) PROVE ~(H(archive, k) < 0)
  BY <1>1, EntryEnds
<1>d. dirs = DirsOf(archive, 0)
  <2>1. {j \in 1..Len(archive) : archive[j].type = "reg" /\ H(archive, j) < 0} = {}
    BY <1>4, Zenon
  <2> QED
    BY <1>1, <2>1, Zenon DEF DirsOf
<1>5. InStep(archive, win32, dirs, files, 0) /\ 0 <= End(archive)
  <2>1. Before(archive, win32, dirs, files, 0)
    <3>1. \A i \in 1..Len(files) : FALSE
      BY <1>2
    <3> QED
      BY <1>4, <1>d, <3>1, Zenon DEF Before
  <2> QED
    BY <1>1, <1>3, <1>4, <2>1, EndFacts DEF InStep, Clear
<1>6. AtWalk
  BY <1>1, <1>2, <1>5, Zenon DEF AtWalk
<1>7. AtFile /\ AtEnd
  BY <1>1, Zenon DEF AtFile, AtEnd
<1>8. Contents
  BY <1>2 DEF Contents
<1> QED
  BY <1>6, <1>7, <1>8, Zenon DEF Position

(* IInv holds throughout, one lemma per action.                              *)
LEMMA Inductive ==
  ASSUME Quiet
  PROVE  Spec => []IInv
<1>1. Init => IInv
  BY InitTyped, InitPosition, Zenon DEF IInv
<1>2. IInv /\ [Next]_vars => IInv'
  <2> SUFFICES ASSUME IInv, [Next]_vars PROVE IInv'
    BY Zenon
  <2>1. Typed /\ Typed'
    BY TypedStep, Zenon DEF IInv
  <2> SUFFICES ASSUME ~failed' PROVE Position'
    BY <2>1, Zenon DEF IInv
  <2>2. ~failed
    <3>1. ASSUME NEW c, NEW need, Read(c, need), failed \in BOOLEAN PROVE ~failed
      BY <3>1, Zenon DEF Read
    <3>2. failed \in BOOLEAN
      BY <2>1, Counters, Zenon
    <3> QED
      BY <3>1, <3>2, Zenon DEF Next, next_tar_file, Skip, ReadHeader, read_tar_link_header,
         read_tar_file_header,
         symlink, open_tar_file, CreateFails, extract_file, read_limit, vars, source
  <2>3. Position
    BY <2>2, Zenon DEF IInv
  <2>4. CASE UNCHANGED vars
    <3>1. /\ UNCHANGED <<archive, total, spos, padding, file_size, file_opened, skip, consume, header, left, len, files, ioerr, pc>>
          /\ win32' = win32 /\ dirs' = dirs
      BY <2>4, Zenon DEF vars, source, tar, out
    <3>2. AtWalk'
      BY <2>3, <3>1, Zenon DEF Position, AtWalk, Unread
    <3>3. AtFile'
      BY <2>3, <3>1, Zenon DEF Position, AtFile, AtEntry
    <3>4. AtEnd' /\ Contents'
      BY <2>3, <3>1, Zenon DEF Position, AtEnd, Contents
    <3> QED
      BY <3>2, <3>3, <3>4, Zenon DEF Position
  <2>5. CASE Next
    BY <2>1, <2>3, <2>5, NextFileStep, SkipStep, ReadHeaderStep, LinkStep, FileHeaderStep,
       SymlinkStep, OpenStep, CreateFailsStep, CopyStep, Zenon DEF Next
  <2> QED
    BY <2>4, <2>5, Zenon
<1> QED
  BY <1>1, <1>2, PTL DEF Spec

(* Wherever it is, what has been created is in front of every refused name. *)
LEMMA AlwaysStopped ==
  ASSUME Typed, Position
  PROVE  Stopped(archive, files)
<1>1. archive \in Archives /\ files \in Files /\ pc \in {"next", "skip", "link", "reg", "symlink", "open", "copy", "ok", "err"}
  BY Zenon DEF Typed, TypeOK
<1>2. ASSUME NEW p, Before(archive, win32, dirs, files, p), p \in Nat PROVE Stopped(archive, files)
  BY <1>1, <1>2, BeforeStops, Zenon
<1>3. CASE pc = "next"
  BY <1>2, <1>3, Counters DEF Position, AtWalk, InStep, Ended, Unread
<1>4. CASE pc = "skip"
  BY <1>2, <1>4, Counters DEF Position, AtWalk, InStep, Ended
<1>5. CASE pc \in {"link", "reg", "symlink", "open"}
  <2>1. PICK k \in 1..Len(archive) : AtEntry(k)
    BY <1>5, Zenon DEF Position, AtFile
  <2> QED
    BY <1>1, <1>2, <2>1, EntryEnds, Zenon DEF AtEntry
<1>6. CASE pc = "copy"
  <2>1. PICK k \in 1..Len(archive) : Before(archive, win32, dirs, files, H(archive, k) + 1)
    BY <1>6, Zenon DEF Position, AtFile
  <2>2. H(archive, k) + 1 \in Nat
    BY <1>1, EntryEnds
  <2> QED
    BY <1>2, <2>1, <2>2, Zenon
<1>7. CASE pc \in {"ok", "err"}
  BY <1>7, Zenon DEF Position, AtEnd
<1> QED
  BY <1>1, <1>3, <1>4, <1>5, <1>6, <1>7, Zenon

-----------------------------------------------------------------------------
(* Every variable of the container, the limited stream and the loops of      *)
(* extract.c keeps its type, for every block size and every set of archives. *)
THEOREM TypeCorrect == Spec => []TypeOK
<1>1. Typed => TypeOK
  BY Zenon DEF Typed
<1> QED
  BY <1>1, InitTyped, TypedStep, PTL DEF Spec

(* The tar container, the limited stream and extract_file never consume more *)
(* than the source that they share returned last, and no file reads beyond   *)
(* what is left of it, for every block size and every archive, also when the *)
(* archive is cut, its payloads look like headers, or the source fails.      *)
THEOREM ConsumesOnlyWhatItSaw == Spec => []ConsumesWhatItSaw
<1>1. Typed => ConsumesWhatItSaw
  BY Zenon DEF Typed
<1> QED
  BY <1>1, InitTyped, TypedStep, PTL DEF Spec

(* The entries of the archive, and what a file of one of them holds.         *)
LEMMA EntriesAre == Typed => Entries = 1..Len(archive) /\ DOMAIN files = 1..Len(files)
BY Layout, FileType, Zenon DEF Typed, Entries

(* A file of an entry has the first bytes of it, and is its image when it is *)
(* as long.                                                                  *)
LEMMA FileIsPrefix ==
  ASSUME Typed, NEW k \in 1..Len(archive), NEW i \in 1..Len(files), FileOf(archive, files[i], k)
  PROVE  /\ files[i].bytes = SubSeq(Data(k), 1, Len(files[i].bytes))
         /\ Len(files[i].bytes) = archive[k].size => files[i] = Image(k)
<1> DEFINE f == files[i]
           n == Len(f.bytes)
           z == archive[k].size
           base == HeaderOff(k) + Block
<1>1. /\ f \in [at : Nat, link : BOOLEAN, bytes : Seq(Nat)] /\ n \in Nat
      /\ z \in Nat /\ HeaderOff(k) \in Nat /\ Block \in Nat /\ f.bytes \in Seq(Nat)
  BY FileType, EntryEnds, TarConstants, Zenon DEF Typed, H, HeaderOff
<1>2. /\ f.at = HeaderOff(k) /\ f.link = (archive[k].type = "link") /\ n <= z
      /\ f.bytes = [j \in 1..n |-> base + j - 1]
  BY Zenon DEF FileOf, H, HeaderOff
<1>3. Data(k) = [j \in 1..z |-> base + j - 1]
  BY Zenon DEF Data
<1>4. base \in Nat
  BY <1>1
<1>5. n = z => f = Image(k)
  <2>1. n = z => f.bytes = Data(k)
    BY <1>2, <1>3, Zenon
  <2>2. f = [at |-> f.at, link |-> f.link, bytes |-> f.bytes]
    BY <1>1, Zenon
  <2> QED
    BY <1>2, <2>1, <2>2, Zenon DEF Image
<1> HIDE DEF f, n, z, base
<1>6. f.bytes = SubSeq(Data(k), 1, n)
  <2>1. Data(k) \in Seq(Nat) /\ Len(Data(k)) = z
    <3>1. Data(k) \in [1..z -> Nat]
      BY <1>1, <1>3, <1>4
    <3> QED
      BY <1>1, <3>1
  <2>2. SubSeq(Data(k), 1, n) = [j \in 1..n |-> Data(k)[j]]
    BY <1>1, <1>2, <2>1
  <2>3. \A j \in 1..n : j \in 1..z
    BY <1>1, <1>2
  <2> QED
    BY <1>2, <1>3, <2>2, <2>3, Zenon
<1> QED
  BY <1>5, <1>6, Zenon DEF f, n, z

(* However the archive is cut, whatever write fails and however the source   *)
(* cuts its windows: what extract_container creates is an entry of the       *)
(* archive, and a file holds only bytes of its own entry, from the first on  *)
(* and in order.  For every block size and all archives where no payload of  *)
(* an entry that next_tar_file does not know looks like a header.            *)
THEOREM FilesHoldTheirBytes ==
  ASSUME Quiet
  PROVE  Spec => []BytesBelong
<1>1. IInv => BytesBelong
  <2> SUFFICES ASSUME IInv, ~failed, NEW i \in DOMAIN files
               PROVE  \E k \in Entries :
                        /\ files[i].at = HeaderOff(k)
                        /\ files[i].link = (archive[k].type = "link")
                        /\ Len(files[i].bytes) <= archive[k].size
                        /\ files[i].bytes = SubSeq(Data(k), 1, Len(files[i].bytes))
    BY Zenon DEF BytesBelong
  <2>1. Typed /\ Entries = 1..Len(archive) /\ i \in 1..Len(files)
    BY EntriesAre, Zenon DEF IInv
  <2>2. PICK k \in 1..Len(archive) : FileOf(archive, files[i], k)
    BY <2>1, Zenon DEF IInv, Position, Contents
  <2>3. files[i].bytes = SubSeq(Data(k), 1, Len(files[i].bytes))
    BY <2>1, <2>2, FileIsPrefix, Zenon
  <2> QED
    BY <2>1, <2>2, <2>3, Zenon DEF FileOf, H, HeaderOff
<1> QED
  BY <1>1, Inductive, PTL

(* The names of the specification, with the archive and the build as         *)
(* parameters.                                                               *)
LEMMA LinksAre ==
  ASSUME Typed, NEW k \in 1..Len(archive)
  PROVE  /\ Left(k) <=> Leaves(archive, win32, k)
         /\ Linkable(k) <=> Found(archive, win32, k)
<1>1. Entries = 1..Len(archive) /\ archive \in Archives
  BY EntriesAre, Zenon DEF Typed
<1>2. ASSUME NEW j \in 1..Len(archive) PROVE j < k <=> H(archive, j) < H(archive, k)
  <2>1. /\ Len(archive) \in Nat /\ j \in 1..(Len(archive) + 1) /\ k \in 1..(Len(archive) + 1)
        /\ H(archive, j) \in Nat /\ H(archive, k) \in Nat
        /\ H(archive, j + 1) \in Nat /\ H(archive, j) < H(archive, j + 1)
        /\ H(archive, k + 1) \in Nat /\ H(archive, k) < H(archive, k + 1)
    BY <1>1, Layout, EntryEnds
  <2>2. j < k => H(archive, j + 1) <= H(archive, k)
    BY <1>1, <2>1, Ascending, Zenon
  <2>3. k < j => H(archive, k + 1) <= H(archive, j)
    BY <1>1, <2>1, Ascending, Zenon
  <2> QED
    BY <2>1, <2>2, <2>3
<1>3. {i \in Entries : i < k /\ archive[i].type = "reg"}
        = {j \in 1..Len(archive) : archive[j].type = "reg" /\ H(archive, j) < H(archive, k)}
  BY <1>1, <1>2, Zenon
<1>4. Earlier(k) = DirsOf(archive, H(archive, k))
  BY <1>3, Zenon DEF Earlier, DirsOf
<1> QED
  BY <1>4, Zenon DEF Left, Leaves, Linkable, Found

(* An archive that is all there, with names that are accepted, is unpacked,  *)
(* however the source cuts its windows: extract_container creates whole      *)
(* files and links, in order and nothing else, and reports success exactly   *)
(* when each link is in directories of files in front of it or WIN32 is      *)
(* defined; then no file, and no link unless WIN32 is defined, is missing.   *)
(* For every block size and all archives where no payload of an entry that   *)
(* next_tar_file does not know looks like a header.                          *)
THEOREM AcceptedArchiveUnpacks ==
  ASSUME Quiet
  PROVE  Spec => []WholeArchiveUnpacks
<1>1. IInv => WholeArchiveUnpacks
  <2> SUFFICES ASSUME IInv, total = FullLen, ~failed, ~ioerr, pc \in {"ok", "err"},
                      \A k \in Entries : archive[k].named
               PROVE  /\ pc = "ok" <=> \A k \in Entries : Linkable(k)
                      /\ \A i \in DOMAIN files :
                           \E k \in Entries : Left(k) /\ files[i] = Image(k)
                      /\ pc = "ok" => \A k \in Entries : Left(k) =>
                           \E i \in DOMAIN files : files[i] = Image(k)
                      /\ \A i, j \in DOMAIN files : i < j => files[i].at < files[j].at
    BY Zenon DEF WholeArchiveUnpacks
  <2>1. /\ Typed /\ Position /\ Entries = 1..Len(archive) /\ DOMAIN files = 1..Len(files)
        /\ total = Full(archive) /\ archive \in Archives
    BY EntriesAre, Counters, Zenon DEF IInv, Typed
  <2>2. ASSUME NEW i \in 1..Len(files)
        PROVE  \E k \in 1..Len(archive) :
                 Left(k) /\ FileOf(archive, files[i], k) /\ files[i] = Image(k)
    <3>1. PICK k \in 1..Len(archive) :
            /\ Leaves(archive, win32, k) /\ FileOf(archive, files[i], k)
            /\ Len(files[i].bytes) = archive[k].size
      BY <2>1, Zenon DEF Position, Contents
    <3> QED
      BY <2>1, <3>1, FileIsPrefix, LinksAre, Zenon
  <2>3. ASSUME NEW k \in 1..Len(archive), pc = "ok", Handled(archive, k)
        PROVE  /\ Found(archive, win32, k)
               /\ Leaves(archive, win32, k) => \E i \in 1..Len(files) : files[i].at = H(archive, k)
    <3>1. H(archive, k) < Full(archive)
      <4>1. /\ H(archive, k) \in Nat /\ End(archive) \in Nat /\ Full(archive) \in Nat
            /\ H(archive, k) < End(archive) /\ End(archive) < Full(archive)
        BY <2>1, EntryEnds, EndFacts, Zenon
      <4> QED
        BY <4>1
    <3> QED
      BY <2>1, <2>3, <3>1, Zenon DEF Position, AtEnd, Before
  <2>4. ASSUME NEW k \in 1..Len(archive), pc = "ok", Left(k)
        PROVE  \E i \in 1..Len(files) : files[i] = Image(k)
    <3>1. Leaves(archive, win32, k) /\ Handled(archive, k)
      BY <2>1, <2>4, LinksAre, Zenon DEF Leaves, Handled
    <3>2. PICK i \in 1..Len(files) : files[i].at = H(archive, k)
      BY <2>3, <2>4, <3>1, Zenon
    <3>3. PICK j \in 1..Len(archive) : FileOf(archive, files[i], j) /\ files[i] = Image(j)
      BY <2>2, Zenon
    <3>4. H(archive, j) = H(archive, k)
      BY <3>2, <3>3, Zenon DEF FileOf
    <3>5. j = k
      BY <2>1, <3>4, Distinct, Zenon
    <3> QED
      BY <3>3, <3>5, Zenon
  <2>5. pc = "ok" <=> \A k \in Entries : Linkable(k)
    <3>1. ASSUME pc = "ok", NEW k \in 1..Len(archive) PROVE Found(archive, win32, k)
      BY <2>3, <3>1, Zenon DEF Handled, Found
    <3>2. ASSUME pc = "err" PROVE \E k \in 1..Len(archive) : ~Found(archive, win32, k)
      BY <2>1, <3>2, Zenon DEF Position, AtEnd, Refused
    <3> QED
      BY <2>1, <3>1, <3>2, LinksAre, Zenon
  <2> QED
    BY <2>1, <2>2, <2>4, <2>5, Zenon DEF Position, Contents
<1> QED
  BY <1>1, Inductive, PTL

(* A name that clean_tar_name or clean_tar_linkname refuses ends the         *)
(* unpacking: nothing behind the entry is created, and extract_container     *)
(* does not report success when it has come past it.  For every block size   *)
(* and all archives where no payload of an entry that next_tar_file does not *)
(* know looks like a header.                                                 *)
THEOREM RefusalStops ==
  ASSUME Quiet
  PROVE  Spec => []RefusedNameStops
<1>1. IInv => RefusedNameStops
  <2> SUFFICES ASSUME IInv, ~failed, NEW k \in Entries,
                      archive[k].type # "other" /\ ~archive[k].named
               PROVE  /\ \A i \in DOMAIN files : files[i].at < HeaderOff(k)
                      /\ pc = "ok" => spos <= HeaderOff(k)
    BY Zenon DEF RefusedNameStops
  <2>1. /\ Typed /\ Position /\ k \in 1..Len(archive) /\ DOMAIN files = 1..Len(files)
        /\ archive \in Archives /\ H(archive, k) = HeaderOff(k) /\ Refused(archive, k)
    BY EntriesAre, Zenon DEF IInv, Typed, H, HeaderOff, Refused, Handled
  <2>2. pc = "ok" => spos <= H(archive, k)
    BY <2>1, Zenon DEF Position, AtEnd
  <2>3. Stopped(archive, files)
    BY <2>1, AlwaysStopped, Zenon
  <2> QED
    BY <2>1, <2>2, <2>3, Zenon DEF Stopped
<1> QED
  BY <1>1, Inductive, PTL
=============================================================================
