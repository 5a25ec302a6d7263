---------------------------- MODULE MCZipExtract ----------------------------
(* ZipExtract for TLC: archives laid out from a list of entries.             *)
EXTENDS ZipLayout, Functions, FiniteSets

CONSTANTS a, b, c

(* Bytes before the i-th of the pieces whose sizes are f.                    *)
Before(f, i) == FoldFunctionOnSet(+, 0, f, 1..(i - 1))

Plain == [zip64 |-> FALSE, size |-> 3, words |-> << >>]
Long64(n) == [zip64 |-> TRUE, size |-> n * WordSize, words |-> << >>]

(* An entry: what it is, its data, its extra fields, stray bytes behind      *)
(* them, its comment, and which lengths are in a zip64 field.                *)
Entry(kind, path, data, xs) ==
  [kind |-> kind, path |-> path, data |-> data, extras |-> xs, stray |-> 0,
   comment |-> 0, big |-> {}, method |-> "stored"]

NameSize == 1

(* The file for entries es, with an archive comment of n bytes, bytes that   *)
(* look like end records at the distances from the end in decoys, and zip64  *)
(* records if the archive is one of that kind.                               *)
ZipFile(es, n, decoys, zip64) ==
  LET I == DOMAIN es
      field(i) == [j \in DOMAIN es[i].extras |-> ExtraSize + es[i].extras[j].size]
      extra_len == [i \in I |-> es[i].stray + FoldFunction(+, 0, field(i))]
      local  == [i \in I |-> LocalSize + NameSize + es[i].data]
      LocalAt(i) == Before(local, i)
      dir    == [i \in I |-> HeaderSize + NameSize + extra_len[i] + es[i].comment]
      start  == LocalAt(Len(es) + 1)
      DirAt(i) == start + Before(dir, i)
      dirend == DirAt(Len(es) + 1)
      end    == IF zip64 THEN dirend + 1 + LocatorSize ELSE dirend
      size   == end + EndSize + n
      Value(i, k) == IF k = "local" THEN LocalAt(i) ELSE es[i].data
      Words(i) == LET big == SelectSeq(<<"uncompressed", "compressed", "local">>,
                                       LAMBDA k : k \in es[i].big)
                  IN  [j \in DOMAIN big |-> Value(i, big[j])]
      Field(i, k) == IF k \in es[i].big THEN Big ELSE Value(i, k)
      Header(i) ==
        [kind |-> es[i].kind, path |-> es[i].path, method |-> es[i].method, name |-> NameSize,
         extralen |-> extra_len[i],
         extras |-> [j \in DOMAIN es[i].extras |->
                       [es[i].extras[j] EXCEPT !.words = Words(i)]],
         uncompressed |-> Field(i, "uncompressed"), compressed |-> Field(i, "compressed"),
         local |-> Field(i, "local")]
      InDir(i) ==
        LET zip64s == {j \in DOMAIN es[i].extras : es[i].extras[j].zip64}
            fields == IF es[i].stray >= 0 THEN Len(es[i].extras) ELSE Len(es[i].extras) - 1
        IN  [at |-> DirAt(i), fits |-> es[i].stray >= 0, fields |-> fields,
             kept |-> Cardinality({j \in 1..(i - 1) : es[j].kind = "file"}),
             real |-> [k \in DOMAIN Header(i) |->
                         IF k \in Lengths THEN Value(i, k) ELSE Header(i)[k]],
             long |-> IF es[i].big = {} THEN 0 ELSE CHOOSE j \in zip64s : \A l \in zip64s : j <= l,
             left |-> [j \in 0..fields |-> extra_len[i] - Before(field(i), j + 1)]]
      kept == SelectSeq([i \in I |-> i], LAMBDA i : es[i].kind = "file")
  IN [size |-> size,
      ends |-> {[at |-> end, comment |-> n, dir |-> IF zip64 THEN Big ELSE start]}
                 \cup {[at |-> size - d, comment |-> 1, dir |-> 0] : d \in decoys},
      locators |-> IF zip64 THEN {[at |-> end - LocatorSize, dir |-> dirend]} ELSE {},
      entries |-> [p \in {DirAt(i) : i \in I} |->
                     Header(CHOOSE i \in I : DirAt(i) = p)],
      locals |-> [p \in {LocalAt(i) : i \in I} |-> NameSize],
      content |-> [j \in DOMAIN kept |->
                     [path |-> es[kept[j]].path, from |-> LocalAt(kept[j]) + LocalSize + NameSize,
                      size |-> es[kept[j]].data]],
      dir |-> [i \in I |-> InDir(i)],
      tidy |-> \A i \in I : es[i].stray >= 0,
      valid |-> \A i \in I : es[i].stray >= 0 /\ es[i].kind # "bad" /\ es[i].method # "other"]

All64 == Lengths

Three == << [Entry("file", a, 2, << Plain, Long64(2) >>) EXCEPT !.big = {"compressed"}, !.stray = 1],
            Entry("dir", b, 0, << >>),
            [Entry("file", c, 3, << Long64(4) >>) EXCEPT !.big = All64, !.method = "deflated"] >>

(* Directories that are found in the shortest, the second and the longest    *)
(* window.                                                                   *)
NoComment   == ZipFile(Three, 0, {}, FALSE)
SomeComment == ZipFile(Three, 3, {3}, FALSE)
LongComment == ZipFile(Three, 8, {9, 3}, FALSE)

(* Archives that are refused: a name, a method, no directory.                *)
BadEntry    == ZipFile(<< Three[1], Entry("bad", b, 1, << >>) >>, 0, {}, FALSE)
OtherMethod == ZipFile(<< Three[1], [Entry("file", b, 1, << >>) EXCEPT !.method = "other"] >>,
                       0, {}, FALSE)
NoArchive(n) == [ZipFile(<< >>, n - EndSize, {}, FALSE) EXCEPT !.ends = {}, !.valid = FALSE]
Short == NoArchive(EndSize - 1)

(* An extra field that is longer than the header says.                       *)
BadExtra == ZipFile(<< [Entry("file", a, 1, << Plain >>) EXCEPT !.stray = -1], Three[3] >>,
                    0, {}, FALSE)

MCArchives == {NoComment, SomeComment, LongComment, BadEntry, OtherMethod, BadExtra, Short,
               NoArchive(Near + 2)}

FileComment == {ZipFile(<< [Three[1] EXCEPT !.comment = 1], Three[3] >>, 0, {}, FALSE)}
Zip64       == {ZipFile(Three, 0, {}, TRUE)}

(* A file that is no archive, as long as the second window.                  *)
NearArchive == {NoArchive(Near)}

(* The proofs speak of the archives of this instance.                        *)
ASSUME MCWellMade == \A z \in MCArchives \cup NearArchive : WellMade(z)
=============================================================================
